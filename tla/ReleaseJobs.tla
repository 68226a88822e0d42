--------------------------- MODULE ReleaseJobs ---------------------------
(* The release workflow: .github/workflows/release.yml runs, one after another,  *)
(* publish-github-release.ts, check-github-release.ts with                      *)
(* check-npm-retry-state.ts, publish-npm-release.ts and check-public-release.ts *)
(* (all in scripts/).  Every command to GitHub or npm may take effect although   *)
(* the job that sent it dies or times out, and may be seen only later; an       *)
(* attempt that failed is continued by re-running its failed jobs, or all jobs. *)
(*                                                                              *)
(* An artifact is the number of the build it came from: whether a build          *)
(* reproduces the bytes of an earlier one is left open (Rebuild).  tagOk says    *)
(* that the annotated tag still targets the verified commit and main contains   *)
(* it.  The workflow's concurrency group leaves one run at a time.               *)
EXTENDS Naturals, Sequences

CONSTANTS Files,       \* the assets of the GitHub release
          Reviewed,    \* those every later job compares: the tarball and its checksum
          MaxAttempts, \* bound: attempts of the run
          MaxDrafts    \* bound: drafts created for the tag

ASSUME ReleaseJobsBounds == MaxAttempts \in Nat \ {0} /\ MaxDrafts \in Nat
ASSUME ReviewedFiles == Reviewed \subseteq Files /\ Reviewed # {}

VARIABLES wf,     \* the run: attempt, step, artifact, outputs of its jobs
          drafts, \* the GitHub releases of this tag, in the order of their creation
          npm,    \* the npm version: whose bytes, whose provenance, readable yet
          flight, \* an npm publish the registry has not applied yet, 0 for none
          tagOk   \* the remote tag is still what the run verified

releaseVars == <<wf, drafts, npm, flight, tagOk>>

Builds == 1..MaxAttempts
Missing == [bytes |-> 0, attempt |-> 0, visible |-> FALSE]
NoFile == 0
Starter == MaxAttempts + 1 \* an upload that was interrupted: the asset is there, not uploaded

JobInit ==
  /\ wf = [attempt |-> 1, at |-> "github", job |-> "none", art |-> 1, built |-> 1, cur |-> 0, exit |-> FALSE,
           pre |-> "none", preAttempt |-> 0, completion |-> "none", completed |-> 0]
  /\ drafts = <<>>
  /\ npm = Missing
  /\ flight = [bytes |-> 0, attempt |-> 0]
  /\ tagOk = TRUE

Step(to) == wf' = [wf EXCEPT !.at = to]
\* A throw ends the job; what it had read dies with it.  The job to run again is
\* the one that the step belongs to.
Job == CASE wf.at \in {"github", "look", "find", "wait", "fill", "publish", "check", "latest"} -> "github"
         [] wf.at \in {"pre", "state"} -> "pre"
         [] wf.at \in {"npm", "observe"} -> "npm"
         [] OTHER -> wf.at
Throw == wf' = [wf EXCEPT !.at = "failed", !.job = Job, !.cur = 0]
Running == wf.at \notin {"failed", "admitted"}

\* GitHub and the registry as the scripts see them.
IsDraft(d) == ~drafts[d].public
Listed == {d \in DOMAIN drafts : IsDraft(d) /\ drafts[d].listed}
Public == {d \in DOMAIN drafts : drafts[d].public}
Exact(d) == \A f \in Files : drafts[d].files[f] = wf.art
----------------------------------------------------------------------------
(* publish-github-release.ts.  The native files are downloaded by a name that    *)
(* holds the attempt that built them.                                           *)
VerifyRemoteAnnotatedTag ==
  /\ wf.at = "github"
  /\ IF tagOk /\ wf.built = wf.attempt THEN Step("look") ELSE Throw
  /\ UNCHANGED <<drafts, npm, flight, tagOk>>

Look ==
  /\ wf.at = "look"
  /\ Step(IF Public # {} THEN "check" ELSE "find")
  /\ UNCHANGED <<drafts, npm, flight, tagOk>>

\* findDraft and exactDraft: none, or exactly one, and nothing foreign in it.
Found(d) == wf' = [wf EXCEPT !.at = "fill", !.cur = d]
FindDraft ==
  /\ wf.at \in {"find", "wait"}
  /\ \/ \E d \in Listed : Listed = {d} /\ Found(d)
     \/ \E d, e \in Listed : d # e /\ Throw
  /\ UNCHANGED <<drafts, npm, flight, tagOk>>

\* No draft listed: create one.  The list lags, so the next reads may miss it.
CreateDraft ==
  /\ wf.at = "find" /\ Listed = {} /\ Len(drafts) < MaxDrafts
  /\ drafts' = Append(drafts, [files |-> [f \in Files |-> NoFile], listed |-> FALSE, public |-> FALSE])
  /\ Step("wait") \/ Throw
  /\ UNCHANGED <<npm, flight, tagOk>>

\* verifyDraftAssets: what is there must have been uploaded with these bytes.
FileOK(d, f) == drafts[d].files[f] \in {NoFile, wf.art}
CompleteDraftAssets ==
  /\ wf.at = "fill"
  /\ IF \E f \in Files : ~FileOK(wf.cur, f) THEN Throw /\ UNCHANGED drafts
     ELSE IF Exact(wf.cur) THEN Step("publish") /\ UNCHANGED drafts
     ELSE \E f \in Files :
            /\ drafts[wf.cur].files[f] = NoFile
            /\ \/ drafts' = [drafts EXCEPT ![wf.cur].files[f] = wf.art] /\ (UNCHANGED wf \/ Throw)
               \/ drafts' = [drafts EXCEPT ![wf.cur].files[f] = Starter] /\ Throw
  /\ UNCHANGED <<npm, flight, tagOk>>

PublishRelease ==
  /\ wf.at = "publish"
  /\ drafts' = [drafts EXCEPT ![wf.cur].public = TRUE]
  /\ Step("check") \/ Throw
  /\ UNCHANGED <<npm, flight, tagOk>>

\* verifyPublishedRelease: public, immutable, and every file downloaded again.
VerifyPublished ==
  /\ wf.at = "check"
  /\ IF \E d \in Public : Exact(d) THEN Step("latest") ELSE Throw
  /\ UNCHANGED <<drafts, npm, flight, tagOk>>

VerifyLatest ==
  /\ wf.at = "latest"
  /\ IF tagOk THEN wf' = [wf EXCEPT !.at = "pre", !.cur = 0] ELSE Throw
  /\ UNCHANGED <<drafts, npm, flight, tagOk>>
----------------------------------------------------------------------------
(* The preflight: GitHub has the reviewed bytes, npm has nothing or this run's.  *)
SameReviewed(d, b) == \A f \in Reviewed : drafts[d].files[f] = b
GitHubParity == tagOk /\ \E d \in Public : SameReviewed(d, wf.art)
CheckGitHubRelease ==
  /\ wf.at = "pre"
  /\ IF GitHubParity THEN Step("state") ELSE Throw
  /\ UNCHANGED <<drafts, npm, flight, tagOk>>

\* verifyNpmProvenance with a maximal attempt: the invocation that published is one
\* of this run, 0 stands for any other.
Provenance(maximum) == npm.attempt \in 1..maximum
CheckRetryState ==
  /\ wf.at = "state"
  /\ \/ /\ ~npm.visible
        /\ wf' = [wf EXCEPT !.at = "npm", !.pre = "absent", !.preAttempt = wf.attempt]
     \/ /\ npm.visible /\ npm.bytes = wf.art /\ Provenance(wf.attempt)
        /\ wf' = [wf EXCEPT !.at = "npm", !.pre = "exact_same_run", !.preAttempt = wf.attempt]
     \/ npm.visible /\ ~(npm.bytes = wf.art /\ Provenance(wf.attempt)) /\ Throw
  /\ UNCHANGED <<drafts, npm, flight, tagOk>>

(* publish-npm-release.ts                                                       *)
ChooseNpmWriterTransition(current, pre, state, exists) ==
  IF state = "exact_same_run" THEN IF exists THEN "observe_existing" ELSE "throw"
  ELSE IF ~exists THEN "publish"
  ELSE IF current = pre THEN "throw" ELSE "observe_existing"

Complete(how) == wf' = [wf EXCEPT !.at = "admit", !.completion = how, !.completed = wf.attempt]
ObserveExisting ==
  /\ wf.at = "npm"
  /\ ChooseNpmWriterTransition(wf.attempt, wf.preAttempt, wf.pre, npm.visible) = "observe_existing"
  /\ IF npm.bytes = wf.art THEN Complete("observed_existing") ELSE Throw
  /\ UNCHANGED <<drafts, npm, flight, tagOk>>

RefuseWriter ==
  /\ wf.at = "npm"
  /\ ChooseNpmWriterTransition(wf.attempt, wf.preAttempt, wf.pre, npm.visible) = "throw"
  /\ Throw
  /\ UNCHANGED <<drafts, npm, flight, tagOk>>

\* npm publish: applied, refused because the version exists, or still under way
\* when the client is killed; only an applied one may exit with 0.
PublishTarball ==
  /\ wf.at = "npm"
  /\ ChooseNpmWriterTransition(wf.attempt, wf.preAttempt, wf.pre, npm.visible) = "publish"
  /\ \/ /\ npm.bytes = 0
        /\ npm' = [bytes |-> wf.art, attempt |-> wf.attempt, visible |-> FALSE]
        /\ \E exit \in BOOLEAN : wf' = [wf EXCEPT !.at = "observe", !.exit = exit]
        /\ UNCHANGED flight
     \/ /\ wf' = [wf EXCEPT !.at = "observe", !.exit = FALSE]
        /\ flight' \in {flight, [bytes |-> wf.art, attempt |-> wf.attempt]}
        /\ UNCHANGED npm
  /\ UNCHANGED <<drafts, tagOk>>

\* Mutant: exact bytes are taken for this attempt's publish, whatever npm answered.
MineAssumed == TRUE
\* The version became readable with these bytes: it is this attempt's only when
\* npm accepted this attempt's command.
MineOK == wf.exit
ObservePublished ==
  /\ wf.at = "observe" /\ npm.visible
  /\ IF npm.bytes = wf.art /\ MineOK THEN Complete("published") ELSE Throw
  /\ UNCHANGED <<drafts, npm, flight, tagOk>>

\* check-public-release.ts: both registries expose the same bytes, and the
\* provenance names the attempt the writer reported.
Admit ==
  /\ wf.at = "admit"
  /\ IF /\ npm.visible /\ GitHubParity
        /\ \E d \in Public : SameReviewed(d, npm.bytes)
        /\ IF wf.completion = "published" THEN npm.attempt = wf.completed ELSE Provenance(wf.completed)
       THEN Step("admitted") ELSE Throw
  /\ UNCHANGED <<drafts, npm, flight, tagOk>>
----------------------------------------------------------------------------
\* A job dies or gives up a bounded wait at any step.
JobDies ==
  /\ Running /\ Throw
  /\ UNCHANGED <<drafts, npm, flight, tagOk>>

\* Re-run the failed jobs: the outputs of the others, the artifact too, are kept.
RerunFailed ==
  /\ wf.at = "failed" /\ wf.attempt < MaxAttempts
  /\ wf' = [wf EXCEPT !.attempt = @ + 1, !.at = wf.job, !.job = "none", !.exit = FALSE]
  /\ UNCHANGED <<drafts, npm, flight, tagOk>>

\* Re-run all jobs: everything is built again, to the same bytes or to others.
RerunAll ==
  /\ wf.at = "failed" /\ wf.attempt < MaxAttempts
  /\ \E bytes \in {wf.art, wf.attempt + 1} :
       wf' = [attempt |-> wf.attempt + 1, at |-> "github", job |-> "none", art |-> bytes, built |-> wf.attempt + 1, cur |-> 0,
              exit |-> FALSE, pre |-> "none", preAttempt |-> 0, completion |-> "none", completed |-> 0]
  /\ UNCHANGED <<drafts, npm, flight, tagOk>>

(* GitHub, the registry and others.                                             *)
DraftListed ==
  /\ \E d \in DOMAIN drafts : ~drafts[d].listed /\ drafts' = [drafts EXCEPT ![d].listed = TRUE]
  /\ UNCHANGED <<wf, npm, flight, tagOk>>

PublishLands ==
  /\ flight.bytes # 0
  /\ npm' = IF npm.bytes = 0 THEN [bytes |-> flight.bytes, attempt |-> flight.attempt, visible |-> FALSE] ELSE npm
  /\ flight' = [bytes |-> 0, attempt |-> 0]
  /\ UNCHANGED <<wf, drafts, tagOk>>

NpmReadable ==
  /\ npm.bytes # 0 /\ ~npm.visible
  /\ npm' = [npm EXCEPT !.visible = TRUE]
  /\ UNCHANGED <<wf, drafts, flight, tagOk>>

Foreign ==
  /\ \/ npm.bytes = 0 /\ (\E b \in Builds : npm' = [bytes |-> b, attempt |-> 0, visible |-> TRUE]) /\ UNCHANGED tagOk
     \/ tagOk /\ tagOk' = FALSE /\ UNCHANGED npm
  /\ UNCHANGED <<wf, drafts, flight>>

GitHubJob == \/ VerifyRemoteAnnotatedTag \/ Look \/ FindDraft \/ CreateDraft \/ CompleteDraftAssets
             \/ PublishRelease \/ VerifyPublished \/ VerifyLatest
NpmJobs == \/ CheckGitHubRelease \/ CheckRetryState \/ ObserveExisting \/ RefuseWriter \/ PublishTarball
           \/ ObservePublished \/ Admit
JobNext == \/ GitHubJob \/ NpmJobs \/ JobDies \/ RerunFailed \/ RerunAll
           \/ DraftListed \/ PublishLands \/ NpmReadable \/ Foreign
JobSpec == JobInit /\ [][JobNext]_releaseVars
----------------------------------------------------------------------------
\* What becomes immutable is whole and the registries agree: a public GitHub
\* release, one at most, has every file of one build, although attempts die between
\* its uploads and later ones complete a draft they find; npm never holds bytes of
\* this run that no public release holds; and a writer that reports "published"
\* names the attempt whose publish the registry applied, late publishes of earlier
\* attempts and versions of others included.
ReleasesAgree ==
  /\ \A d \in Public : \E b \in Builds : \A f \in Files : drafts[d].files[f] = b
  /\ \A d, e \in Public : d = e
  /\ npm.attempt > 0 => \E d \in Public : \A f \in Files : drafts[d].files[f] = npm.bytes
  /\ wf.completion = "published" => npm.attempt = wf.completed /\ npm.bytes = wf.art
=============================================================================
