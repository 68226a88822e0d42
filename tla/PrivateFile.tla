---------------------------- MODULE PrivateFile -----------------------------
(* A private file under one name (src/src/private-file.ts), as its users read  *)
(* and write it: files of known contents (readExactPrivateFile), pinned        *)
(* programs (claude-sdk.ts, codex-process.ts), the runtime artifact            *)
(* (claude-api.ts) and the judge key (judge.ts).  A reader holds a descriptor  *)
(* and has no lock: writers may create, write, unlink, replace or link the     *)
(* file between any two of its calls, and leave a write unfinished.            *)
(* Contents are sequences of parts, each the version it was written for.       *)
EXTENDS Naturals, Sequences

CONSTANTS
    Keepers,        \* processes that store or remove the file, once each
    Texts,          \* contents somebody may write
    Wanted,         \* the version whose contents or digest the reader knows
    Parts,          \* parts of a whole version: what one read call may return
    MaxFiles,       \* bound: inodes ever created
    MaxChanges      \* bound: changes of one inode

ASSUME PrivateFileAssumption == Wanted \in Texts /\ Parts \in Nat \ {0} /\ MaxFiles \in Nat \ {0} /\ MaxChanges \in Nat

VARIABLES
    folder,     \* the directory entry: the inode of the name, or 0; inodes used
    inode,      \* of each inode: contents, links, ctime
    keeper,     \* of each keeper: its step, the inode it writes, its version
    reader      \* the reading call: for whom, its step, its descriptor

fileVars == <<folder, inode, keeper, reader>>

Whole(v) == [i \in 1..Parts |-> v]
NewInode(s) == [data |-> s, links |-> 1, ctime |-> 0]

FileInit ==
    \E first \in {<<>>} \cup {<<Whole(v)>> : v \in Texts}, for \in {"exact", "pinned", "artifact", "vault"} :
        /\ folder = [name |-> Len(first), used |-> Len(first)]
        /\ inode = [i \in 1..MaxFiles |-> NewInode(IF i <= Len(first) THEN first[i] ELSE <<>>)]
        /\ keeper = [k \in Keepers |-> [at |-> "idle", inode |-> 0, version |-> Wanted]]
        /\ reader = [for |-> for, at |-> "begin", inode |-> 0, size |-> 0, ctime |-> 0, got |-> <<>>]

\* Every change of an inode moves its ctime: the clock ticks between changes.
Changed(i, r) == [inode EXCEPT ![i] = [r EXCEPT !.ctime = @ + 1]]
MayChange(i) == inode[i].ctime < MaxChanges

(***************************************************************************)
(* Writers of the code.                                                    *)
(***************************************************************************)
\* writeFileOnce, storeJudgeKey: O_EXCL creates the file or refuses a present one.
CreateOnce(k, v) ==
    /\ keeper[k].at = "idle"
    /\ IF folder.name # 0
       THEN keeper' = [keeper EXCEPT ![k].at = "exists"] /\ UNCHANGED <<folder, inode>>
       ELSE /\ folder.used < MaxFiles
            /\ folder' = [name |-> folder.used + 1, used |-> folder.used + 1]
            /\ keeper' = [keeper EXCEPT ![k] = [at |-> "write", inode |-> folder.used + 1, version |-> v]]
            /\ UNCHANGED inode
    /\ UNCHANGED reader

\* The contents: as many parts as one write takes; a failed write leaves what it
\* wrote, and nobody removes the file.
WriteParts(k) ==
    /\ keeper[k].at = "write"
    /\ LET i == keeper[k].inode  s == inode[i].data IN
       \/ /\ MayChange(i)
          /\ \E n \in 1..Parts :
               /\ Len(s) + n <= Parts
               /\ inode' = Changed(i, [inode[i] EXCEPT !.data = s \o [j \in 1..n |-> keeper[k].version]])
          /\ UNCHANGED keeper
       \/ /\ keeper' = [keeper EXCEPT ![k].at = IF Len(s) < Parts THEN "failed" ELSE "stored"]
          /\ UNCHANGED inode
    /\ UNCHANGED <<folder, reader>>

\* removeJudgeKey: lstat, then rm by name, of whatever the name then has.
RemoveLooks(k) ==
    /\ keeper[k].at = "idle"
    /\ keeper' = [keeper EXCEPT ![k].at = IF folder.name = 0 THEN "absent" ELSE "remove"]
    /\ UNCHANGED <<folder, inode, reader>>

Unlinked(i) == Changed(i, [inode[i] EXCEPT !.links = @ - 1])
RemoveActs(k) ==
    /\ keeper[k].at = "remove"
    /\ IF folder.name = 0
       THEN keeper' = [keeper EXCEPT ![k].at = "failed"] /\ UNCHANGED <<folder, inode>>
       ELSE /\ keeper' = [keeper EXCEPT ![k].at = "removed"]
            /\ inode' = Unlinked(folder.name)
            /\ folder' = [folder EXCEPT !.name = 0]
    /\ UNCHANGED reader

(***************************************************************************)
(* Whoever else may write in the directory: installers, editors, backups.  *)
(* Bound: they act while the reader does, once it has opened the file.       *)
(***************************************************************************)
\* The file is written in place, cut or linked (which stands for a mode or an
\* owner that does not fit, too).
Touch ==
    /\ reader.at # "begin" /\ folder.name # 0 /\ MayChange(folder.name)
    /\ LET f == inode[folder.name] IN
       \E g \in {[f EXCEPT !.links = @ + 1]}
                \cup {[f EXCEPT !.data = SubSeq(@, 1, n)] : n \in 0..(Len(f.data) - 1)}
                \cup {[f EXCEPT !.data[j] = v] : j \in DOMAIN f.data, v \in Texts} :
            inode' = Changed(folder.name, g)
    /\ UNCHANGED <<folder, keeper, reader>>

\* Another file is renamed over the name, or the file is unlinked.
Replace ==
    /\ reader.at # "begin" /\ folder.name # 0
    /\ \/ /\ folder.used < MaxFiles
          /\ folder' = [name |-> folder.used + 1, used |-> folder.used + 1]
          /\ \E v \in Texts : inode' = [Unlinked(folder.name) EXCEPT ![folder.used + 1].data = Whole(v)]
       \/ folder' = [folder EXCEPT !.name = 0] /\ inode' = Unlinked(folder.name)
    /\ UNCHANGED <<keeper, reader>>

(***************************************************************************)
(* The readers.                                                            *)
(***************************************************************************)
At(step) == reader.at = step
File == inode[reader.inode]
Reads(step) == reader' = [reader EXCEPT !.at = step]
ReaderOnly == UNCHANGED <<folder, inode, keeper>>

\* resolveJudgeKey: a key of the environment goes first.
KeyFromEnv ==
    /\ At("begin") /\ reader.for = "vault"
    /\ Reads("env")
    /\ ReaderOnly

\* openPrivateRead: no file means no key, and an error for the others.
OpenRead ==
    /\ At("begin")
    /\ reader' = IF folder.name = 0 THEN [reader EXCEPT !.at = "none"]
                 ELSE [reader EXCEPT !.at = "stat", !.inode = folder.name]
    /\ ReaderOnly

\* assertPrivateStat on the first fstat; sizes beyond a limit do not occur here.
Sound(f) ==
    /\ f.links = 1
    /\ reader.for = "exact" => Len(f.data) = Parts
    /\ reader.for = "pinned" => Len(f.data) > 0
StatBefore ==
    /\ At("stat")
    /\ reader' = IF Sound(File) THEN [reader EXCEPT !.at = "read", !.size = Len(File.data), !.ctime = File.ctime]
                 ELSE [reader EXCEPT !.at = "refused"]
    /\ ReaderOnly

\* One read call: some parts from where the last one ended, up to one more than
\* the size; nothing at the end of the file.
ReadSome ==
    /\ At("read")
    /\ LET n == Len(reader.got)  s == File.data IN
       IF n >= Len(s) \/ n > reader.size THEN Reads("after")
       ELSE \E m \in (n + 1)..Len(s) : reader' = [reader EXCEPT !.got = @ \o SubSeq(s, n + 1, m)]
    /\ ReaderOnly

\* The second fstat.  All of them compare size and times; then what is known of
\* the contents (bytes or digest), and for a key that there is one.
StableBySize(f) == Len(f.data) = reader.size /\ Len(reader.got) = reader.size
Stable(f) == Len(f.data) = reader.size /\ Len(reader.got) = reader.size /\ f.ctime = reader.ctime
Expected == IF reader.for = "vault" THEN reader.got # <<>> ELSE reader.got = Whole(Wanted)
ByName == {"exact", "artifact"}
StatAfter ==
    /\ At("after")
    /\ Reads(IF ~Stable(File) \/ ~Expected THEN "refused" ELSE IF reader.for \in ByName THEN "name" ELSE "accepted")
    /\ ReaderOnly

\* The lstat of the name: the same file; for an exact file unchanged, too.
StatName ==
    /\ At("name")
    /\ Reads(IF folder.name = reader.inode /\ (reader.for = "exact" => Stable(File)) THEN "accepted" ELSE "refused")
    /\ ReaderOnly

\* checkJudgeKeyTarget: a key of the vault goes to the one endpoint only.
ResolveJudge ==
    /\ reader.for = "vault" /\ reader.at \in {"env", "accepted"}
    /\ \E url \in {"default", "other"} :
         Reads(IF At("accepted") /\ url # "default" THEN "mismatch" ELSE "judge")
    /\ ReaderOnly

\* A reading that is over: what happens to the file then, nobody sees.
Over == reader.at \in {"none", "refused", "judge", "mismatch"} \/ (At("accepted") /\ reader.for # "vault")

FileNext ==
    \/ /\ ~Over
       /\ \/ \E k \in Keepers : (\E v \in Texts : CreateOnce(k, v)) \/ WriteParts(k) \/ RemoveLooks(k) \/ RemoveActs(k)
          \/ Touch \/ Replace
    \/ KeyFromEnv \/ OpenRead \/ StatBefore \/ ReadSome \/ StatAfter \/ StatName \/ ResolveJudge

FileSpec == FileInit /\ [][FileNext]_fileVars

\* When a reader accepts what it read, those bytes are the contents of its file
\* at that moment, from one end to the other, whatever was written, cut, linked,
\* unlinked or replaced meanwhile: never the head of one version with the tail of
\* another.  Those that go on to use the name have the file of that name, and an
\* exact one still with those contents (private-file.ts: readExactPrivateFile;
\* judge.ts: vaultKey; claude-api.ts: verifyArtifact).
AcceptedIsTheFile ==
    [][reader'.at = "accepted" /\ reader.at # "accepted" =>
         /\ reader.for # "artifact" => reader.got = File.data
         /\ reader.for \in ByName => folder.name = reader.inode]_fileVars
=============================================================================
