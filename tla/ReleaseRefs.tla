--------------------------- MODULE ReleaseRefs ---------------------------
(* The authority of a release over its refs: verifyReleaseRefAuthority           *)
(* (scripts/release-ref-authority.ts).  The job reads the remote four times,    *)
(* main and tags apart, fetches in between, and trusts what it read only if the *)
(* second pair of readings equals the first.  Meanwhile others push to main and *)
(* create, move and delete tags.                                                *)
(*                                                                              *)
(* Commits of main are 1..MaxMain, 0 is a commit that is not on main.  Stable    *)
(* tags are 1..MaxTag in version order.  A tag names a commit, directly or       *)
(* through an annotated object.  What a ref inventory must look like (bytes,    *)
(* rows, canonical order) is abstracted: a malformed one fails the job.          *)
(* Main only moves forward: the branch is protected.                            *)
EXTENDS Naturals

CONSTANTS MaxMain,   \* bound: commits of main
          MaxTag,    \* bound: stable versions
          Requested, \* the version this run releases
          MaxMoves   \* bound: changes that others make to tags

ASSUME ReleaseRefsBounds == Requested \in 1..MaxTag /\ MaxMain \in Nat \ {0} /\ MaxMoves \in Nat

VARIABLES remote, \* main and the tags of the remote
          job,    \* the verification: where it is and what it has read
          moves,  \* how many tag changes others made
          seen    \* history: the states of the remote since the job started

refVars == <<remote, job, moves, seen>>

Versions == 1..MaxTag
NoTag == [c |-> 0, kind |-> "absent"]
TagObjects == [c : 0..MaxMain, kind : {"tag", "commit"}]

\* parseRemoteSnapshot: the requested tag is advertised and no later stable one is.
Newest(tags) == /\ tags[Requested] # NoTag
                /\ \A v \in Versions : v > Requested => tags[v] = NoTag

\* The checkout: a release runs on what the pushed tag names, a promotion on main.
RefInit ==
  /\ \E t \in TagObjects \ {NoTag}, others \in BOOLEAN :
       remote = [main |-> 1, tags |-> [v \in Versions |->
                   IF v = Requested THEN t ELSE IF others /\ v < Requested THEN [c |-> 1, kind |-> "tag"] ELSE NoTag]]
  /\ \E mode \in {"release", "promotion"} :
       job = [at |-> "main", mode |-> mode, head |-> IF mode = "release" THEN remote.tags[Requested].c ELSE remote.main,
              main |-> 0, tags |-> remote.tags, imported |-> 0,
              tag |-> IF mode = "release" THEN remote.tags[Requested] ELSE NoTag]
  /\ moves = 0
  /\ seen = {remote}

Goes(to) == job' = [job EXCEPT !.at = to]
Refuse == Goes("refused")

(* readSnapshot: two ls-remote calls, so two instants.                          *)
ReadMain ==
  /\ job.at = "main"
  /\ job' = [job EXCEPT !.at = "tags", !.main = remote.main]
  /\ UNCHANGED <<remote, moves, seen>>

ReadTags ==
  /\ job.at = "tags"
  /\ IF Newest(remote.tags) THEN job' = [job EXCEPT !.at = "fetch", !.tags = remote.tags] ELSE Refuse
  /\ UNCHANGED <<remote, moves, seen>>

\* No local ref but the tag a release was checked out by, no FETCH_HEAD, then the
\* exact import in one fetch, which does not overwrite a tag that is here already.
Fetch ==
  /\ job.at = "fetch"
  /\ LET t == remote.tags[Requested] IN
     IF t = NoTag \/ (job.tag # NoTag /\ job.tag # t) THEN Refuse
     ELSE job' = [job EXCEPT !.at = "verify", !.imported = remote.main, !.tag = t]
  /\ UNCHANGED <<remote, moves, seen>>

\* Mutant: the released commit need not be an ancestor of main.
NoAncestry == /\ job.imported = job.main
              /\ job.tag = job.tags[Requested] /\ job.tag.kind = "tag"
              /\ job.head = IF job.mode = "release" THEN job.tag.c ELSE job.main

\* The imported refs are the advertised ones, the tag is annotated, the checkout
\* is the commit of the mode, and the released commit is an ancestor of main.
ImportOK == /\ job.imported = job.main
            /\ job.tag = job.tags[Requested] /\ job.tag.kind = "tag"
            /\ job.head = IF job.mode = "release" THEN job.tag.c ELSE job.main
            /\ job.tag.c \in 1..job.imported
\* A promotion may also be handed the commit of a release run, and refuses a tag
\* that targets another one; that commit is not kept here.
Verify ==
  /\ job.at = "verify"
  /\ IF ImportOK THEN Goes("main2") \/ (job.mode = "promotion" /\ Refuse) ELSE Refuse
  /\ UNCHANGED <<remote, moves, seen>>

\* The second snapshot must equal the first one.
RereadMain ==
  /\ job.at = "main2"
  /\ IF remote.main = job.main THEN Goes("tags2") ELSE Refuse
  /\ UNCHANGED <<remote, moves, seen>>

RereadTags ==
  /\ job.at = "tags2"
  /\ IF remote.tags = job.tags THEN Goes("authority") ELSE Refuse
  /\ UNCHANGED <<remote, moves, seen>>

(* Others.                                                                      *)
PushMain ==
  /\ job.at \notin {"authority", "refused"} /\ remote.main < MaxMain
  /\ remote' = [remote EXCEPT !.main = @ + 1]
  /\ seen' = seen \cup {remote'}
  /\ UNCHANGED <<job, moves>>

ChangeTag ==
  /\ job.at \notin {"authority", "refused"} /\ moves < MaxMoves
  /\ \E v \in Versions, t \in TagObjects \cup {NoTag} :
       /\ t.c <= remote.main /\ t # remote.tags[v]
       /\ remote' = [remote EXCEPT !.tags[v] = t]
  /\ moves' = moves + 1
  /\ seen' = seen \cup {remote'}
  /\ UNCHANGED job

RefNext == \/ ReadMain \/ ReadTags \/ Fetch \/ Verify \/ RereadMain \/ RereadTags
           \/ PushMain \/ ChangeTag
RefSpec == RefInit /\ [][RefNext]_refVars
----------------------------------------------------------------------------
\* The authority was true at one instant: although no reading is atomic, there is
\* a moment of the run at which main was the commit returned, the requested tag was
\* the newest one, annotated, and named the returned commit, and main contained it.
\* A tag may be moved away and back between the readings.
AuthorityHeld ==
  job.at = "authority" =>
    \E s \in seen : /\ s.main = job.main /\ s.tags[Requested] = job.tag /\ Newest(s.tags)
                    /\ job.tag.kind = "tag" /\ job.tag.c \in 1..s.main
=============================================================================
