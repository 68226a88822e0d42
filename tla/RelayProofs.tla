---------------------------- MODULE RelayProofs -----------------------------
(***************************************************************************)
(* The relayed Codex session, for any number of tool calls and of wild     *)
(* steps: RelayInv says of every frame, request and call how far it is for *)
(* native, in the pipe and in the session, and no step disturbs it.        *)
(***************************************************************************)
EXTENDS CodexRelay, TLAPS

\* What the variables hold.
RunState ==
  [at : {"run", "drain", "clean", "ended"}, stage : {"ready", "initialize", "thread", "turn"},
   pend : {"none", "initialize", "thread", "turn"}, thread : BOOLEAN, turn : BOOLEAN, step : Nat,
   done : BOOLEAN, aborted : BOOLEAN, failed : BOOLEAN, process : {"up", "gone", "unproven"},
   handlers : {"open", "joined", "deadline"}]
RelayState ==
  [closed : BOOLEAN, failure : BOOLEAN, requests : Nat, initial : BOOLEAN, final : BOOLEAN,
   finalObserved : BOOLEAN, bodyFailed : BOOLEAN, close : {"open", "closing", "joined", "unproven"}]
PostState == [at : {"none", "body", "write", "bind", "up", "read"}, exact : BOOLEAN]
CallState ==
  [claimed : BOOLEAN, ran : Nat, started : BOOLEAN, completed : BOOLEAN, output : BOOLEAN,
   write : {"none", "sent", "settled"}, observed : BOOLEAN]
NativeState ==
  [at : {"boot", "initialize", "thread", "turning", "waiting", "called", "calling", "answered", "over"},
   todo : SUBSET RelayKinds, wild : Nat]
FrameState == [k : RelayKinds, c : Nat]

RelayTypeOK ==
  /\ run \in RunState /\ relay \in RelayState /\ post \in PostState /\ up \in {"none", "asked"}
  /\ call \in Seq(CallState) /\ nat \in NativeState /\ out \in Seq(FrameState) /\ fault \in BOOLEAN

\* A call runs when it is claimed, its answer is written when it ran, and it is
\* observed when its answer was written.
CallInv(x) ==
  /\ x.ran = IF x.claimed THEN 1 ELSE 0
  /\ x.output \/ x.write # "none" \/ x.observed => x.claimed
StepsInv ==
  /\ \A c \in Issued : CallInv(call[c])
  /\ run.step # 0 => run.step \in Issued /\ call[run.step].claimed
  /\ nat.at = "called" => call # <<>>

\* A relay that is being closed takes no request; after the final message there
\* is none, and no new call.
CloseInv ==
  /\ relay.closed <=> relay.close # "open"
  /\ relay.close = "joined" => post.at = "none" /\ up = "none" /\ ~relay.bodyFailed
  /\ relay.final => post.at = "none"
  /\ relay.finalObserved => relay.final

\* A session that ends without a failure is done, and done is said of a whole
\* round trip.
WholeCall(x) == x.claimed /\ x.started /\ x.completed /\ x.observed
DoneInv ==
  /\ run.done => relay.finalObserved /\ \A c \in Issued : WholeCall(call[c])
  /\ run.at \in {"run", "drain"} /\ run.aborted => run.failed
  /\ run.at # "run" => run.failed \/ run.done
  /\ run.handlers = "joined" => run.step = 0 /\ run.at \in {"clean", "ended"}
  /\ run.at = "ended" /\ ~run.failed =>
       run.process = "gone" /\ relay.close = "joined" /\ run.handlers = "joined"

WholeInv == RelayTypeOK /\ StepsInv /\ CloseInv /\ DoneInv

-----------------------------------------------------------------------------
\* Native that keeps to the protocol.

Reply == {"initialize", "thread", "turn"}
InTurn == {"turning", "waiting", "called", "calling", "answered", "over"}
\* The call that the completion native still owes is about.
Owed == IF nat.at = "called" THEN Len(call) - 1 ELSE Len(call)
Sent(p, k, c) == \E i \in 1..Len(p) : p[i].k = k /\ p[i].c = c

\* The three RPCs.
RpcInv ==
  /\ run.pend # "none" => run.stage = run.pend
  /\ run.thread <=> run.stage = "turn" \/ (run.stage = "thread" /\ run.pend = "none")
  /\ run.turn <=> run.stage = "turn" /\ run.pend = "none"
  /\ nat.at \in InTurn => run.stage = "turn"
  /\ nat.at \in {"called", "calling", "answered", "over"} \/ post.at \in {"up", "read"} \/ call # <<>> => run.turn

\* The requests: one for each call that was answered, and the one in progress.
RequestInv ==
  /\ nat.at \in InTurn \ {"waiting"} => post.at = "none"
  /\ nat.at = "waiting" => post.at # "none" /\ post.exact
  /\ nat.at \notin InTurn => call = <<>> /\ post.at = "none"
  /\ up = "asked" => post.at = "up"
  /\ relay.requests = IF nat.at \in {"waiting", "answered", "over"} THEN Len(call) + 1 ELSE Len(call)
  /\ Len(call) <= MaxIssued
  /\ relay.initial <=> call # <<>> \/ post.at \notin {"none", "body"} \/ nat.at \in {"answered", "over"}
  /\ relay.final <=> nat.at \in {"answered", "over"}
  /\ ~relay.failure

\* The calls: all are answered but the last, while native waits for it.
AnswerOf(c) ==
  /\ c < Len(call) \/ nat.at \notin {"called", "calling"} => call[c].write # "none"
  /\ call[c].write # "none" <=> call[c].output
  /\ call[c].claimed => call[c].started
  /\ post.at \in {"bind", "up", "read"} \/ relay.final => call[c].observed
LastInv ==
  /\ nat.at \in {"called", "calling"} => call # <<>>
  /\ nat.at = "called" => ~call[Len(call)].claimed /\ ~call[Len(call)].started
  /\ run.step # 0 => /\ run.step = Len(call) /\ call[Len(call)].write # "settled" /\ ~run.done /\ post.at \in {"none", "body", "write"}
                     /\ nat.at \in {"calling", "turning", "waiting"}
AnswerInv == LastInv /\ \A c \in Issued : AnswerOf(c)

\* The frames native still has to write, and those it wrote.
TodoKinds ==
  /\ nat.todo \subseteq Reply \cup {"turnstarted", "completed"}
  /\ \A k \in Reply : k \in nat.todo => run.pend = k
  /\ \A k \in {"initialize", "thread"} : k \in nat.todo => nat.at = k
  /\ "turn" \in nat.todo \/ "turnstarted" \in nat.todo \/ "completed" \in nat.todo => nat.at \in InTurn
  /\ nat.at \in {"calling", "over"} => "completed" \notin nat.todo
  /\ nat.at = "over" => nat.todo = {}
OwedInv ==
  "completed" \in nat.todo =>
    Owed \in Issued /\ ~call[Owed].completed /\ call[Owed].output /\ ~Sent(out, "completed", Owed)
OwedOf(c) ==
  call[c].output =>
    \/ call[c].completed \/ Sent(out, "completed", c)
    \/ "completed" \in nat.todo /\ c = Owed
    \/ nat.at = "calling" /\ c = Len(call)
\* The call native waits for was not completed, and is not about to be.
UnansweredInv ==
  nat.at \in {"called", "calling"} =>
    ~call[Len(call)].completed /\ ~Sent(out, "completed", Len(call))
TodoInv == TodoKinds /\ OwedInv /\ UnansweredInv /\ \A c \in Issued : OwedOf(c)

ReplyFrame(i) ==
  /\ out[i].k \in Reply => run.pend = out[i].k /\ out[i].k \notin nat.todo
  /\ out[i].k \in {"initialize", "thread"} => nat.at = out[i].k
  /\ out[i].k \notin {"initialize", "thread"} => nat.at \in InTurn
  /\ out[i].k = "turnstarted" => "turnstarted" \notin nat.todo
  /\ out[i].k \notin {"started", "call", "completed"} => out[i].c = 0
  /\ out[i].k # "forbidden"
CallFrame(i) ==
  /\ out[i].k \in {"started", "call"} => nat.at = "calling" /\ out[i].c = Len(call)
  /\ out[i].k = "started" => ~call[Len(call)].started
  /\ out[i].k = "call" =>
       /\ ~call[Len(call)].claimed
       /\ call[Len(call)].started \/ (i > 1 /\ out[i - 1].k = "started")
CompletedFrame(i) ==
  out[i].k = "completed" =>
    out[i].c \in Issued /\ ~call[out[i].c].completed /\ call[out[i].c].output
FinalFrame(i) ==
  /\ out[i].k = "final" => nat.at = "over" /\ ~relay.finalObserved
  /\ out[i].k = "turncompleted" =>
       /\ nat.at = "over" /\ i = Len(out) /\ ~run.done
       /\ relay.finalObserved \/ (i > 1 /\ out[i - 1].k = "final")
FrameInv(i) == ReplyFrame(i) /\ CallFrame(i) /\ CompletedFrame(i) /\ FinalFrame(i)
OutInv ==
  /\ \A i \in 1..Len(out) : FrameInv(i)
  /\ \A i, j \in 1..Len(out) : out[i].k = out[j].k /\ out[i].c = out[j].c => i = j

\* The end: nothing is left when the turn is said to be complete.
EndInv ==
  /\ ~run.failed
  /\ run.aborted <=> run.at \in {"clean", "ended"}
  /\ run.at # "run" => run.done
  /\ run.done => nat.at = "over" /\ out = <<>> /\ run.step = 0 /\ run.turn
  /\ nat.at = "answered" => ~relay.finalObserved
  /\ run.process # "unproven" /\ relay.close # "unproven" /\ run.handlers # "deadline"

HonestInv == ~fault /\ nat.wild = 0 =>
  RpcInv /\ RequestInv /\ AnswerInv /\ TodoInv /\ OutInv /\ EndInv
RelayInv == WholeInv /\ HonestInv
Honest == ~fault /\ nat.wild = 0

\* What is left when the head of p is taken: the frame at j was at j + 1.
After(p, q, j) ==
  /\ j + 1 \in 1..Len(p) /\ j \in 1..Len(p) /\ q[j] = p[j + 1] /\ (j > 1 => q[j - 1] = p[j])
  /\ (j + 1) - 1 = j /\ j + 1 > 1 /\ (j + 1 = Len(p) => j = Len(q))

LEMMA PipeTail ==
  ASSUME NEW S, NEW p \in Seq(S), p # <<>>
  PROVE  /\ Len(p) \in Nat /\ Len(p) >= 1 /\ Head(p) = p[1] /\ 1 \in 1..Len(p) /\ p[1] \in S
         /\ Tail(p) \in Seq(S) /\ Len(Tail(p)) = Len(p) - 1 /\ (Len(p) = 1 => Tail(p) = <<>>)
         /\ \A j \in 1..Len(Tail(p)) : After(p, Tail(p), j)
         /\ \A j \in 1..Len(p) : j # 1 => j - 1 \in 1..Len(Tail(p)) /\ Tail(p)[j - 1] = p[j]
<1>1. /\ Len(p) \in Nat /\ Len(p) >= 1 /\ Head(p) = p[1] /\ p[1] \in S
      /\ Tail(p) \in Seq(S) /\ Len(Tail(p)) = Len(p) - 1
      /\ \A j \in 1..(Len(p) - 1) : Tail(p)[j] = p[j + 1]
  OBVIOUS
<1>2. Len(p) = 1 => Tail(p) = <<>>
  <2>1. \A r \in Seq(S) : Len(r) = 0 => r = <<>>
    OBVIOUS
  <2>2. Len(p) = 1 => Len(Tail(p)) = 0
    BY <1>1
  <2>. QED  BY <1>1, <2>1, <2>2
<1>3. ASSUME NEW j \in 1..Len(Tail(p))
      PROVE  After(p, Tail(p), j)
  <2>1. Len(p) \in Nat /\ Len(Tail(p)) = Len(p) - 1 /\ j \in 1..(Len(p) - 1)
    BY <1>1
  <2>2. /\ j \in Nat /\ j >= 1 /\ j + 1 \in 1..Len(p) /\ j \in 1..Len(p) /\ (j + 1) - 1 = j /\ j + 1 > 1
        /\ (j + 1 = Len(p) => j = Len(p) - 1) /\ (j > 1 => j - 1 \in 1..(Len(p) - 1) /\ (j - 1) + 1 = j)
    <3> DEFINE n == Len(p)
    <3>1. n \in Nat /\ j \in 1..(n - 1)
      BY <2>1
    <3> HIDE DEF n
    <3>2. /\ j \in Nat /\ j >= 1 /\ j + 1 \in 1..n /\ j \in 1..n /\ (j + 1) - 1 = j /\ j + 1 > 1
          /\ (j + 1 = n => j = n - 1) /\ (j > 1 => j - 1 \in 1..(n - 1) /\ (j - 1) + 1 = j)
      BY <3>1
    <3>. QED  BY <3>2 DEF n
  <2>. QED  BY <1>1, <2>1, <2>2 DEF After
<1>4. ASSUME NEW j \in 1..Len(p), j # 1
      PROVE  j - 1 \in 1..(Len(p) - 1) /\ (j - 1) + 1 = j
  BY <1>1, <1>4
<1>. QED  BY <1>1, <1>2, <1>3, <1>4

LEMMA NonEmpty ==
  ASSUME NEW S, NEW p \in Seq(S)
  PROVE  Len(p) \in Nat /\ (p # <<>> <=> Len(p) >= 1) /\ (p # <<>> <=> Len(p) \in 1..Len(p))
<1>1. Len(p) \in Nat /\ (p # <<>> <=> Len(p) # 0)
  OBVIOUS
<1>. QED  BY <1>1

LEMMA EmptySeq ==
  ASSUME NEW S, NEW p \in Seq(S), NEW q \in Seq(S), Len(q) = Len(p)
  PROVE  q = <<>> <=> p = <<>>
<1>1. \A r \in Seq(S) : r = <<>> <=> Len(r) = 0
  OBVIOUS
<1>. QED  BY <1>1

LEMMA ObserveAll ==
  ASSUME call \in Seq(CallState), NEW s, s = [c \in DOMAIN call |-> [call[c] EXCEPT !.observed = TRUE]]
  PROVE  /\ s \in Seq(CallState) /\ Len(s) = Len(call)
         /\ \A d \in 1..Len(call) : s[d] = [call[d] EXCEPT !.observed = TRUE]
<1>1. \A d \in 1..Len(call) : call[d] \in CallState
  OBVIOUS
<1>2. DOMAIN call = 1..Len(call) /\ Len(call) \in Nat
  OBVIOUS
<1>3. \A d \in 1..Len(call) : [call[d] EXCEPT !.observed = TRUE] \in CallState
  BY <1>1 DEF CallState
<1>4. s \in [1..Len(call) -> CallState]
  BY <1>2, <1>3
<1>5. s \in Seq(CallState) /\ Len(s) = Len(call)
  BY <1>2, <1>4
<1>. QED  BY <1>2, <1>5

LEMMA AppendOne ==
  ASSUME NEW S, NEW p \in Seq(S), NEW x \in S, NEW q, q = Append(p, x)
  PROVE  /\ q \in Seq(S) /\ Len(p) \in Nat /\ Len(q) = Len(p) + 1 /\ q[Len(q)] = x /\ q # <<>>
         /\ \A i \in 1..Len(p) : i \in 1..Len(q) /\ q[i] = p[i]
         /\ \A i \in 1..Len(q) : i \in 1..Len(p) \/ i = Len(q)
<1>1. q \in Seq(S) /\ Len(p) \in Nat /\ Len(q) = Len(p) + 1 /\ q[Len(p) + 1] = x
      /\ \A i \in 1..Len(p) : q[i] = p[i]
  OBVIOUS
<1>2. Len(<<>>) = 0
  OBVIOUS
<1>. QED  BY <1>1, <1>2

LEMMA AppendTwo ==
  ASSUME NEW S, NEW p \in Seq(S), NEW x \in S, NEW y \in S, NEW q, q = p \o <<x, y>>
  PROVE  /\ q \in Seq(S) /\ Len(p) \in Nat /\ Len(q) = Len(p) + 2
         /\ q[Len(p) + 1] = x /\ q[Len(p) + 2] = y
         /\ \A i \in 1..Len(p) : i \in 1..Len(q) /\ q[i] = p[i]
         /\ \A i \in 1..Len(q) : i \in 1..Len(p) \/ i = Len(p) + 1 \/ i = Len(p) + 2
<1>1. <<x, y>> \in Seq(S) /\ Len(<<x, y>>) = 2 /\ <<x, y>>[1] = x /\ <<x, y>>[2] = y
  OBVIOUS
<1>2. q \in Seq(S) /\ Len(p) \in Nat /\ Len(q) = Len(p) + 2
      /\ \A i \in 1..Len(q) : q[i] = IF i <= Len(p) THEN p[i] ELSE <<x, y>>[i - Len(p)]
  BY <1>1
<1>. QED  BY <1>1, <1>2

LEMMA CallChanges ==
  ASSUME call \in Seq(CallState), NEW c \in 1..Len(call), NEW x \in CallState, NEW s,
         s = [call EXCEPT ![c] = x]
  PROVE  /\ s \in Seq(CallState) /\ Len(s) = Len(call)
         /\ \A d \in 1..Len(call) : s[d] = IF d = c THEN x ELSE call[d]
OBVIOUS

LEMMA InitRelay == RelayInit => RelayInv
<1> SUFFICES ASSUME RelayInit PROVE RelayInv  OBVIOUS
<1>1. RelayTypeOK
  <2>1. run \in RunState
    BY DEF RelayInit, RunState
  <2>2. relay \in RelayState
    BY DEF RelayInit, RelayState
  <2>3. post \in PostState /\ up \in {"none", "asked"} /\ fault \in BOOLEAN
    BY DEF RelayInit, PostState, RelayIdle
  <2>4. nat \in NativeState
    BY DEF RelayInit, NativeState
  <2>5. call \in Seq(CallState) /\ out \in Seq(FrameState)
    BY DEF RelayInit
  <2>. QED  BY <2>1, <2>2, <2>3, <2>4, <2>5 DEF RelayTypeOK
<1>2. StepsInv /\ CloseInv /\ DoneInv
  BY DEF RelayInit, StepsInv, CloseInv, DoneInv, Issued, RelayIdle
<1>3. RpcInv /\ RequestInv /\ AnswerInv /\ TodoInv /\ OutInv /\ EndInv
  <2>1. Len(call) = 0 /\ Len(out) = 0 /\ Issued = {} /\ 1..0 = {}
    BY DEF RelayInit, Issued
  <2>2. RpcInv /\ EndInv
    BY DEF RelayInit, RpcInv, EndInv, InTurn, RelayIdle
  <2>3. RequestInv
    BY <2>1, RelayBounds DEF RelayInit, RequestInv, InTurn, RelayIdle
  <2>4. AnswerInv
    BY <2>1 DEF RelayInit, AnswerInv, LastInv
  <2>5. TodoInv
    BY <2>1 DEF RelayInit, TodoInv, TodoKinds, OwedInv, UnansweredInv, InTurn
  <2>6. OutInv
    BY <2>1 DEF OutInv
  <2>. QED  BY <2>2, <2>3, <2>4, <2>5, <2>6
<1>. QED  BY <1>1, <1>2, <1>3 DEF RelayInv, WholeInv, HonestInv

LEMMA WriteRpcKeeps ==
  ASSUME RelayInv, WriteRpc
  PROVE  RelayInv'
<1>0. RelayTypeOK /\ StepsInv /\ CloseInv /\ DoneInv
      /\ (Honest => RpcInv /\ RequestInv /\ AnswerInv /\ TodoInv /\ OutInv /\ EndInv)
  BY DEF RelayInv, WholeInv, HonestInv, Honest
<1>t. /\ run \in RunState /\ relay \in RelayState /\ post \in PostState /\ up \in {"none", "asked"}
      /\ call \in Seq(CallState) /\ nat \in NativeState /\ out \in Seq(FrameState) /\ fault \in BOOLEAN
  BY <1>0 DEF RelayTypeOK
<1>1. ASSUME run.at = "run",
            ~run.aborted,
            run.pend = "none",
            NEW s \in {"initialize", "thread", "turn"},
            s = "initialize" => run.stage = "ready",
            s = "thread" => run.stage = "initialize",
            s = "turn" => run.stage = "thread",
            run' = [run EXCEPT !.stage = s, !.pend = s],
            UNCHANGED <<relay, post, up, call, nat, out, fault>>
     PROVE  RelayInv'
  <2>1. RelayTypeOK'
    BY <1>t, <1>1 DEF RelayTypeOK, RunState
  <2>2. CloseInv'
    BY <1>0, <1>1 DEF CloseInv
  <2>3. StepsInv'
    BY <1>0, <1>t, <1>1 DEF StepsInv, CallInv, Issued, RunState
  <2>4. DoneInv'
    BY <1>0, <1>t, <1>1 DEF DoneInv, WholeCall, Issued, RunState
  <2>5. ASSUME Honest PROVE RpcInv' /\ RequestInv' /\ AnswerInv' /\ TodoInv' /\ OutInv' /\ EndInv'
    <3>0. RpcInv /\ RequestInv /\ AnswerInv /\ TodoInv /\ OutInv /\ EndInv
      BY <1>0, <2>5
    <3>1. RequestInv'
      BY <3>0, <1>1 DEF RequestInv, InTurn
    <3>2. RpcInv'
      BY <3>0, <1>t, <1>1 DEF RpcInv, InTurn, RunState
    <3>3. AnswerInv'
      BY <3>0, <1>t, <1>1 DEF AnswerInv, AnswerOf, LastInv, Issued, RunState
    <3>4. TodoInv'
      BY <3>0, <1>t, <1>1 DEF TodoInv, TodoKinds, OwedInv, UnansweredInv, OwedOf, Owed, Sent, Issued, InTurn, Reply, RunState
    <3>5. OutInv'
      BY <3>0, <1>t, <1>1 DEF OutInv, FrameInv, ReplyFrame, CallFrame, CompletedFrame, FinalFrame, Issued, InTurn, Reply, RunState
    <3>6. EndInv'
      BY <3>0, <1>t, <1>1 DEF EndInv, RunState
    <3>. QED  BY <3>1, <3>2, <3>3, <3>4, <3>5, <3>6
  <2>6. HonestInv'
    <3>1. nat'.wild = nat.wild
      BY <1>t, <1>1 DEF NativeState
    <3>. QED  BY <3>1, <2>5, <1>1 DEF HonestInv, Honest
  <2>. QED  BY <2>1, <2>2, <2>3, <2>4, <2>6 DEF RelayInv, WholeInv
<1>2. /\ run.stage \in {"ready", "initialize", "thread"}
      /\ NextRelayRpc[run.stage] \in {"initialize", "thread", "turn"}
      /\ run' = [run EXCEPT !.stage = NextRelayRpc[run.stage], !.pend = NextRelayRpc[run.stage]]
      /\ NextRelayRpc[run.stage] = "initialize" => run.stage = "ready"
      /\ NextRelayRpc[run.stage] = "thread" => run.stage = "initialize"
      /\ NextRelayRpc[run.stage] = "turn" => run.stage = "thread"
  BY DEF WriteRpc, NextRelayRpc
<1>. QED  BY <1>1, <1>2 DEF WriteRpc

LEMMA RelayReplyKeeps ==
  ASSUME RelayInv, RelayReply
  PROVE  RelayInv'
<1>0. RelayTypeOK /\ StepsInv /\ CloseInv /\ DoneInv
      /\ (Honest => RpcInv /\ RequestInv /\ AnswerInv /\ TodoInv /\ OutInv /\ EndInv)
  BY DEF RelayInv, WholeInv, HonestInv, Honest
<1>t. /\ run \in RunState /\ relay \in RelayState /\ post \in PostState /\ up \in {"none", "asked"}
      /\ call \in Seq(CallState) /\ nat \in NativeState /\ out \in Seq(FrameState) /\ fault \in BOOLEAN
  BY <1>0 DEF RelayTypeOK
<1>1. ASSUME run.at \in {"run", "drain"},
            ~run.aborted,
            run.step = 0,
            out # <<>>,
            Head(out).k \in {"initialize", "thread", "turn"},
            run.pend = Head(out).k,
            run' = [run EXCEPT !.pend = "none", !.thread = @ \/ Head(out).k = "thread", !.turn = @ \/ Head(out).k = "turn"],
            out' = Tail(out),
            UNCHANGED <<relay, post, up, call, nat, fault>>
     PROVE  RelayInv'
  <2>a. /\ Len(out) \in Nat /\ Len(out) >= 1 /\ Head(out) = out[1] /\ 1 \in 1..Len(out) /\ out[1] \in FrameState
        /\ out' \in Seq(FrameState) /\ Len(out') = Len(out) - 1 /\ (Len(out) = 1 => out' = <<>>)
        /\ \A j \in 1..Len(out') : After(out, out', j)
        /\ \A j \in 1..Len(out) : j # 1 => j - 1 \in 1..Len(out') /\ out'[j - 1] = out[j]
    <3>1. out \in Seq(FrameState) /\ out # <<>> /\ out' = Tail(out)
      BY <1>t, <1>1
    <3>2. /\ Len(out) \in Nat /\ Len(out) >= 1 /\ Head(out) = out[1] /\ 1 \in 1..Len(out) /\ out[1] \in FrameState
          /\ Tail(out) \in Seq(FrameState) /\ Len(Tail(out)) = Len(out) - 1 /\ (Len(out) = 1 => Tail(out) = <<>>)
          /\ \A j \in 1..Len(Tail(out)) : After(out, Tail(out), j)
          /\ \A j \in 1..Len(out) : j # 1 => j - 1 \in 1..Len(Tail(out)) /\ Tail(out)[j - 1] = out[j]
      BY <3>1, PipeTail
    <3>. QED  BY <3>1, <3>2
  <2>1. RelayTypeOK'
    <3>1. run' \in RunState
      BY <1>t, <1>1 DEF RunState
    <3>. QED  BY <1>t, <1>1, <2>a, <3>1 DEF RelayTypeOK
  <2>2. CloseInv'
    BY <1>0, <1>1 DEF CloseInv
  <2>3. StepsInv'
    BY <1>0, <1>t, <1>1, <2>a DEF StepsInv, CallInv, Issued, RunState
  <2>4. DoneInv'
    BY <1>0, <1>t, <1>1, <2>a DEF DoneInv, WholeCall, Issued, RunState
  <2>5. ASSUME Honest PROVE RpcInv' /\ RequestInv' /\ AnswerInv' /\ TodoInv' /\ OutInv' /\ EndInv'
    <3>0. RpcInv /\ RequestInv /\ AnswerInv /\ TodoInv /\ OutInv /\ EndInv
      BY <1>0, <2>5
    <3>1. RequestInv'
      BY <3>0, <1>1 DEF RequestInv, InTurn
    <3>2. RpcInv'
      BY <3>0, <1>t, <1>1, <2>a DEF RpcInv, InTurn, RunState
    <3>3. AnswerInv'
      BY <3>0, <1>t, <1>1, <2>a DEF AnswerInv, AnswerOf, LastInv, Issued, RunState
    <3>4. TodoInv'
      <4>1. \A q, e : Sent(out', q, e) => Sent(out, q, e)
        BY <2>a DEF Sent, After
      <4>2. \A q, e : Sent(out, q, e) => Sent(out', q, e) \/ (out[1].k = q /\ out[1].c = e)
        <5> SUFFICES ASSUME NEW q, NEW e, NEW j \in 1..Len(out), out[j].k = q, out[j].c = e, j # 1
                     PROVE  Sent(out', q, e)
          BY DEF Sent
        <5>1. j - 1 \in 1..Len(out') /\ out'[j - 1] = out[j]
          BY <2>a
        <5>. QED  BY <5>1 DEF Sent
      <4>3. FrameInv(1)
        BY <3>0, <2>a DEF OutInv
      <4>. QED  BY <4>1, <4>2, <4>3, <3>0, <1>t, <1>1, <2>a DEF TodoInv, TodoKinds, OwedInv, UnansweredInv, OwedOf, Owed, Issued, InTurn, Reply, FrameInv, ReplyFrame, CallFrame, CompletedFrame, FinalFrame, RunState
    <3>5. OutInv'
      <4>0. \A j \in 1..Len(out) : FrameInv(j) /\ out[j] \in FrameState
        BY <3>0, <1>t DEF OutInv
      <4>1. ASSUME NEW j \in 1..Len(out') PROVE FrameInv(j)'
        <5>1. After(out, out', j) /\ j \in Nat /\ j >= 1
          BY <2>a, <4>1
        <5>2. /\ FrameInv(j + 1) /\ FrameInv(1)
              /\ ~(out[j + 1].k = out[1].k /\ out[j + 1].c = out[1].c)
          BY <5>1, <4>0, <3>0, <2>a DEF OutInv, After
        <5>e. /\ ReplyFrame(j + 1) /\ CallFrame(j + 1) /\ CompletedFrame(j + 1) /\ FinalFrame(j + 1)
              /\ ReplyFrame(1) /\ CallFrame(1) /\ CompletedFrame(1) /\ FinalFrame(1)
              /\ ~(out[j + 1].k = out[1].k /\ out[j + 1].c = out[1].c)
          BY <5>2 DEF FrameInv
        <5>f. /\ out[j + 1].k = "call" => call[Len(call)].started \/ out[j].k = "started"
              /\ out[j + 1].k = "turncompleted" => relay.finalObserved \/ out[j].k = "final"
              /\ (j = 1 /\ out[j] = out[1]) \/ (j > 1 /\ out'[j - 1] = out[j])
          <6>1. (j + 1) - 1 = j /\ j + 1 > 1 /\ (j = 1 \/ j > 1) /\ (j > 1 => out'[j - 1] = out[j])
            BY <5>1 DEF After
          <6>2. out[(j + 1) - 1] = out[j]
            BY <6>1
          <6>. QED  BY <5>e, <6>1, <6>2 DEF CallFrame, FinalFrame
        <5>g. /\ out[1].k \in {"initialize", "thread", "turn"} /\ out'[j] = out[j + 1] /\ (j + 1 = Len(out) => j = Len(out'))
              /\ run'.pend = "none" /\ run'.done = run.done /\ UNCHANGED <<nat, relay, call>>
              /\ Issued' = Issued
          BY <5>1, <2>a, <1>t, <1>1 DEF RunState, RelayState, After, Issued
        <5>a. ReplyFrame(j)'
          BY <5>e, <5>f, <5>g DEF ReplyFrame, Reply, InTurn
        <5>b. CallFrame(j)'
          BY <5>e, <5>f, <5>g DEF CallFrame
        <5>c. CompletedFrame(j)'
          BY <5>e, <5>f, <5>g DEF CompletedFrame
        <5>d. FinalFrame(j)'
          BY <5>e, <5>f, <5>g DEF FinalFrame
        <5>. QED  BY <5>a, <5>b, <5>c, <5>d DEF FrameInv
      <4>2. ASSUME NEW j \in 1..Len(out'), NEW l \in 1..Len(out'), out'[j].k = out'[l].k, out'[j].c = out'[l].c
            PROVE  j = l
        <5>1. /\ j + 1 \in 1..Len(out) /\ l + 1 \in 1..Len(out)
              /\ out'[j] = out[j + 1] /\ out'[l] = out[l + 1]
          BY <2>a DEF After
        <5>2. j + 1 = l + 1
          BY <5>1, <4>2, <3>0 DEF OutInv
        <5>. QED  BY <5>2
      <4>. QED  BY <4>1, <4>2 DEF OutInv
    <3>6. EndInv'
      BY <3>0, <1>t, <1>1, <2>a DEF EndInv, RunState
    <3>. QED  BY <3>1, <3>2, <3>3, <3>4, <3>5, <3>6
  <2>6. HonestInv'
    <3>1. nat'.wild = nat.wild
      BY <1>t, <1>1, <2>a DEF NativeState
    <3>. QED  BY <3>1, <2>5, <1>1 DEF HonestInv, Honest
  <2>. QED  BY <2>1, <2>2, <2>3, <2>4, <2>6 DEF RelayInv, WholeInv
<1>2. ASSUME run.at \in {"run", "drain"},
            ~run.aborted,
            run.step = 0,
            out # <<>>,
            Head(out).k \in {"initialize", "thread", "turn"},
            run.pend # Head(out).k,
            run' = Fail(run),
            out' = Tail(out),
            UNCHANGED <<relay, post, up, call, nat, fault>>
     PROVE  RelayInv'
  <2>a. /\ Len(out) \in Nat /\ Len(out) >= 1 /\ Head(out) = out[1] /\ 1 \in 1..Len(out) /\ out[1] \in FrameState
        /\ out' \in Seq(FrameState) /\ Len(out') = Len(out) - 1 /\ (Len(out) = 1 => out' = <<>>)
        /\ \A j \in 1..Len(out') : After(out, out', j)
        /\ \A j \in 1..Len(out) : j # 1 => j - 1 \in 1..Len(out') /\ out'[j - 1] = out[j]
    <3>1. out \in Seq(FrameState) /\ out # <<>> /\ out' = Tail(out)
      BY <1>t, <1>2
    <3>2. /\ Len(out) \in Nat /\ Len(out) >= 1 /\ Head(out) = out[1] /\ 1 \in 1..Len(out) /\ out[1] \in FrameState
          /\ Tail(out) \in Seq(FrameState) /\ Len(Tail(out)) = Len(out) - 1 /\ (Len(out) = 1 => Tail(out) = <<>>)
          /\ \A j \in 1..Len(Tail(out)) : After(out, Tail(out), j)
          /\ \A j \in 1..Len(out) : j # 1 => j - 1 \in 1..Len(Tail(out)) /\ Tail(out)[j - 1] = out[j]
      BY <3>1, PipeTail
    <3>. QED  BY <3>1, <3>2
  <2>1. RelayTypeOK'
    BY <1>t, <1>2, <2>a DEF Fail, FrameState, RelayTypeOK, RunState, RelayKinds, RelayFrame
  <2>2. CloseInv'
    BY <1>0, <1>2 DEF CloseInv
  <2>3. StepsInv'
    BY <1>0, <1>t, <1>2, <2>a DEF Fail, StepsInv, CallInv, Issued, RunState
  <2>4. DoneInv'
    BY <1>0, <1>t, <1>2, <2>a DEF Fail, DoneInv, WholeCall, Issued, RunState
  <2>5. ~Honest
    <3> SUFFICES ASSUME Honest PROVE FALSE
      OBVIOUS
    <3>0. RpcInv /\ RequestInv /\ AnswerInv /\ TodoInv /\ OutInv /\ EndInv
      BY <1>0
    <3>1. FrameInv(1)
      BY <3>0, <2>a DEF OutInv
    <3>. QED  BY <3>0, <3>1, <1>t, <1>2, <2>a DEF FrameInv, ReplyFrame, CallFrame, CompletedFrame, FinalFrame, RpcInv, EndInv, AnswerInv, AnswerOf, LastInv, Issued, Reply, InTurn
  <2>6. HonestInv'
    BY <2>5, <1>2 DEF HonestInv, Honest
  <2>. QED  BY <2>1, <2>2, <2>3, <2>4, <2>6 DEF RelayInv, WholeInv
<1>. QED
  BY <1>1, <1>2 DEF RelayReply, Take

LEMMA TurnStartedKeeps ==
  ASSUME RelayInv, TurnStarted
  PROVE  RelayInv'
<1>0. RelayTypeOK /\ StepsInv /\ CloseInv /\ DoneInv
      /\ (Honest => RpcInv /\ RequestInv /\ AnswerInv /\ TodoInv /\ OutInv /\ EndInv)
  BY DEF RelayInv, WholeInv, HonestInv, Honest
<1>t. /\ run \in RunState /\ relay \in RelayState /\ post \in PostState /\ up \in {"none", "asked"}
      /\ call \in Seq(CallState) /\ nat \in NativeState /\ out \in Seq(FrameState) /\ fault \in BOOLEAN
  BY <1>0 DEF RelayTypeOK
<1>1. ASSUME run.at \in {"run", "drain"},
            ~run.aborted,
            run.step = 0,
            out # <<>>,
            Head(out).k = "turnstarted",
            out' = Tail(out),
            UNCHANGED <<run, relay, post, up, call, nat, fault>>
     PROVE  RelayInv'
  <2>a. /\ Len(out) \in Nat /\ Len(out) >= 1 /\ Head(out) = out[1] /\ 1 \in 1..Len(out) /\ out[1] \in FrameState
        /\ out' \in Seq(FrameState) /\ Len(out') = Len(out) - 1 /\ (Len(out) = 1 => out' = <<>>)
        /\ \A j \in 1..Len(out') : After(out, out', j)
        /\ \A j \in 1..Len(out) : j # 1 => j - 1 \in 1..Len(out') /\ out'[j - 1] = out[j]
    <3>1. out \in Seq(FrameState) /\ out # <<>> /\ out' = Tail(out)
      BY <1>t, <1>1
    <3>2. /\ Len(out) \in Nat /\ Len(out) >= 1 /\ Head(out) = out[1] /\ 1 \in 1..Len(out) /\ out[1] \in FrameState
          /\ Tail(out) \in Seq(FrameState) /\ Len(Tail(out)) = Len(out) - 1 /\ (Len(out) = 1 => Tail(out) = <<>>)
          /\ \A j \in 1..Len(Tail(out)) : After(out, Tail(out), j)
          /\ \A j \in 1..Len(out) : j # 1 => j - 1 \in 1..Len(Tail(out)) /\ Tail(out)[j - 1] = out[j]
      BY <3>1, PipeTail
    <3>. QED  BY <3>1, <3>2
  <2>1. RelayTypeOK'
    BY <1>t, <1>1, <2>a DEF FrameState, RelayTypeOK, RelayKinds, RelayFrame
  <2>2. StepsInv' /\ CloseInv' /\ DoneInv'
    BY <1>0, <1>1 DEF StepsInv, CallInv, Issued, CloseInv, DoneInv, WholeCall
  <2>3. ASSUME Honest PROVE RpcInv' /\ RequestInv' /\ AnswerInv' /\ TodoInv' /\ OutInv' /\ EndInv'
    <3>0. RpcInv /\ RequestInv /\ AnswerInv /\ TodoInv /\ OutInv /\ EndInv
      BY <1>0, <2>3
    <3>1. RpcInv' /\ RequestInv' /\ AnswerInv'
      BY <3>0, <1>1 DEF RpcInv, InTurn, RequestInv, AnswerInv, AnswerOf, LastInv, Issued
    <3>2. TodoInv'
      <4>1. \A q, e : Sent(out', q, e) => Sent(out, q, e)
        BY <2>a DEF Sent, After
      <4>2. \A q, e : Sent(out, q, e) => Sent(out', q, e) \/ (out[1].k = q /\ out[1].c = e)
        <5> SUFFICES ASSUME NEW q, NEW e, NEW j \in 1..Len(out), out[j].k = q, out[j].c = e, j # 1
                     PROVE  Sent(out', q, e)
          BY DEF Sent
        <5>1. j - 1 \in 1..Len(out') /\ out'[j - 1] = out[j]
          BY <2>a
        <5>. QED  BY <5>1 DEF Sent
      <4>3. FrameInv(1)
        BY <3>0, <2>a DEF OutInv
      <4>. QED  BY <4>1, <4>2, <4>3, <3>0, <1>t, <1>1, <2>a DEF TodoInv, TodoKinds, OwedInv, UnansweredInv, OwedOf, Owed, Issued, InTurn, Reply, FrameInv, ReplyFrame, CallFrame, CompletedFrame, FinalFrame
    <3>3. OutInv'
      <4>0. \A j \in 1..Len(out) : FrameInv(j) /\ out[j] \in FrameState
        BY <3>0, <1>t DEF OutInv
      <4>1. ASSUME NEW j \in 1..Len(out') PROVE FrameInv(j)'
        <5>1. After(out, out', j) /\ j \in Nat /\ j >= 1
          BY <2>a, <4>1
        <5>2. /\ FrameInv(j + 1) /\ FrameInv(1)
              /\ ~(out[j + 1].k = out[1].k /\ out[j + 1].c = out[1].c)
          BY <5>1, <4>0, <3>0, <2>a DEF OutInv, After
        <5>e. /\ ReplyFrame(j + 1) /\ CallFrame(j + 1) /\ CompletedFrame(j + 1) /\ FinalFrame(j + 1)
              /\ ReplyFrame(1) /\ CallFrame(1) /\ CompletedFrame(1) /\ FinalFrame(1)
              /\ ~(out[j + 1].k = out[1].k /\ out[j + 1].c = out[1].c)
          BY <5>2 DEF FrameInv
        <5>f. /\ out[j + 1].k = "call" => call[Len(call)].started \/ out[j].k = "started"
              /\ out[j + 1].k = "turncompleted" => relay.finalObserved \/ out[j].k = "final"
              /\ (j = 1 /\ out[j] = out[1]) \/ (j > 1 /\ out'[j - 1] = out[j])
          <6>1. (j + 1) - 1 = j /\ j + 1 > 1 /\ (j = 1 \/ j > 1) /\ (j > 1 => out'[j - 1] = out[j])
            BY <5>1 DEF After
          <6>2. out[(j + 1) - 1] = out[j]
            BY <6>1
          <6>. QED  BY <5>e, <6>1, <6>2 DEF CallFrame, FinalFrame
        <5>g. /\ out[1].k \in {"turnstarted"} /\ out'[j] = out[j + 1] /\ (j + 1 = Len(out) => j = Len(out'))
              /\ run'.pend = run.pend /\ run'.done = run.done /\ UNCHANGED <<nat, relay, call>>
              /\ Issued' = Issued
          BY <5>1, <2>a, <1>t, <1>1 DEF RunState, RelayState, After, Issued
        <5>a. ReplyFrame(j)'
          BY <5>e, <5>f, <5>g DEF ReplyFrame, Reply, InTurn
        <5>b. CallFrame(j)'
          BY <5>e, <5>f, <5>g DEF CallFrame
        <5>c. CompletedFrame(j)'
          BY <5>e, <5>f, <5>g DEF CompletedFrame
        <5>d. FinalFrame(j)'
          BY <5>e, <5>f, <5>g DEF FinalFrame
        <5>. QED  BY <5>a, <5>b, <5>c, <5>d DEF FrameInv
      <4>2. ASSUME NEW j \in 1..Len(out'), NEW l \in 1..Len(out'), out'[j].k = out'[l].k, out'[j].c = out'[l].c
            PROVE  j = l
        <5>1. /\ j + 1 \in 1..Len(out) /\ l + 1 \in 1..Len(out)
              /\ out'[j] = out[j + 1] /\ out'[l] = out[l + 1]
          BY <2>a DEF After
        <5>2. j + 1 = l + 1
          BY <5>1, <4>2, <3>0 DEF OutInv
        <5>. QED  BY <5>2
      <4>. QED  BY <4>1, <4>2 DEF OutInv
    <3>4. EndInv'
      BY <3>0, <1>t, <1>1, <2>a DEF EndInv
    <3>. QED  BY <3>1, <3>2, <3>3, <3>4
  <2>4. HonestInv'
    <3>1. nat'.wild = nat.wild
      BY <1>t, <1>1, <2>a DEF NativeState
    <3>. QED  BY <3>1, <2>3, <1>1 DEF HonestInv, Honest
  <2>. QED  BY <2>1, <2>2, <2>4 DEF RelayInv, WholeInv
<1>2. ASSUME run.at \in {"run", "drain"},
            ~run.aborted,
            run.step = 0,
            out # <<>>,
            Head(out).k = "turnstarted",
            ~(run.turn \/ (run.pend = "turn" /\ run.thread)),
            run' = Fail(run),
            out' = Tail(out),
            UNCHANGED <<relay, post, up, call, nat, fault>>
     PROVE  RelayInv'
  <2>a. /\ Len(out) \in Nat /\ Len(out) >= 1 /\ Head(out) = out[1] /\ 1 \in 1..Len(out) /\ out[1] \in FrameState
        /\ out' \in Seq(FrameState) /\ Len(out') = Len(out) - 1 /\ (Len(out) = 1 => out' = <<>>)
        /\ \A j \in 1..Len(out') : After(out, out', j)
        /\ \A j \in 1..Len(out) : j # 1 => j - 1 \in 1..Len(out') /\ out'[j - 1] = out[j]
    <3>1. out \in Seq(FrameState) /\ out # <<>> /\ out' = Tail(out)
      BY <1>t, <1>2
    <3>2. /\ Len(out) \in Nat /\ Len(out) >= 1 /\ Head(out) = out[1] /\ 1 \in 1..Len(out) /\ out[1] \in FrameState
          /\ Tail(out) \in Seq(FrameState) /\ Len(Tail(out)) = Len(out) - 1 /\ (Len(out) = 1 => Tail(out) = <<>>)
          /\ \A j \in 1..Len(Tail(out)) : After(out, Tail(out), j)
          /\ \A j \in 1..Len(out) : j # 1 => j - 1 \in 1..Len(Tail(out)) /\ Tail(out)[j - 1] = out[j]
      BY <3>1, PipeTail
    <3>. QED  BY <3>1, <3>2
  <2>1. RelayTypeOK'
    BY <1>t, <1>2, <2>a DEF Fail, FrameState, RelayTypeOK, RunState, RelayKinds, RelayFrame
  <2>2. CloseInv'
    BY <1>0, <1>2 DEF CloseInv
  <2>3. StepsInv'
    BY <1>0, <1>t, <1>2, <2>a DEF Fail, StepsInv, CallInv, Issued, RunState
  <2>4. DoneInv'
    BY <1>0, <1>t, <1>2, <2>a DEF Fail, DoneInv, WholeCall, Issued, RunState
  <2>5. ~Honest
    <3> SUFFICES ASSUME Honest PROVE FALSE
      OBVIOUS
    <3>0. RpcInv /\ RequestInv /\ AnswerInv /\ TodoInv /\ OutInv /\ EndInv
      BY <1>0
    <3>1. FrameInv(1)
      BY <3>0, <2>a DEF OutInv
    <3>. QED  BY <3>0, <3>1, <1>t, <1>2, <2>a DEF FrameInv, ReplyFrame, CallFrame, CompletedFrame, FinalFrame, RpcInv, EndInv, AnswerInv, AnswerOf, LastInv, Issued, Reply, InTurn
  <2>6. HonestInv'
    BY <2>5, <1>2 DEF HonestInv, Honest
  <2>. QED  BY <2>1, <2>2, <2>3, <2>4, <2>6 DEF RelayInv, WholeInv
<1>. QED
  BY <1>1, <1>2 DEF TurnStarted, Take, EarlyTurnOK

LEMMA ToolCallKeeps ==
  ASSUME RelayInv, ToolCall
  PROVE  RelayInv'
<1>0. RelayTypeOK /\ StepsInv /\ CloseInv /\ DoneInv
      /\ (Honest => RpcInv /\ RequestInv /\ AnswerInv /\ TodoInv /\ OutInv /\ EndInv)
  BY DEF RelayInv, WholeInv, HonestInv, Honest
<1>t. /\ run \in RunState /\ relay \in RelayState /\ post \in PostState /\ up \in {"none", "asked"}
      /\ call \in Seq(CallState) /\ nat \in NativeState /\ out \in Seq(FrameState) /\ fault \in BOOLEAN
  BY <1>0 DEF RelayTypeOK
<1>1. ASSUME run.at \in {"run", "drain"},
            ~run.aborted,
            run.step = 0,
            out # <<>>,
            Head(out).k = "call",
            NEW c \in Issued,
            c = Head(out).c,
            ~run.done,
            ~call[c].claimed,
            run' = [run EXCEPT !.step = c],
            call' = [call EXCEPT ![c].claimed = TRUE, ![c].ran = @ + 1],
            out' = Tail(out),
            UNCHANGED <<relay, post, up, nat, fault>>
     PROVE  RelayInv'
  <2>a. /\ Len(out) \in Nat /\ Len(out) >= 1 /\ Head(out) = out[1] /\ 1 \in 1..Len(out) /\ out[1] \in FrameState
        /\ out' \in Seq(FrameState) /\ Len(out') = Len(out) - 1 /\ (Len(out) = 1 => out' = <<>>)
        /\ \A j \in 1..Len(out') : After(out, out', j)
        /\ \A j \in 1..Len(out) : j # 1 => j - 1 \in 1..Len(out') /\ out'[j - 1] = out[j]
    <3>1. out \in Seq(FrameState) /\ out # <<>> /\ out' = Tail(out)
      BY <1>t, <1>1
    <3>2. /\ Len(out) \in Nat /\ Len(out) >= 1 /\ Head(out) = out[1] /\ 1 \in 1..Len(out) /\ out[1] \in FrameState
          /\ Tail(out) \in Seq(FrameState) /\ Len(Tail(out)) = Len(out) - 1 /\ (Len(out) = 1 => Tail(out) = <<>>)
          /\ \A j \in 1..Len(Tail(out)) : After(out, Tail(out), j)
          /\ \A j \in 1..Len(out) : j # 1 => j - 1 \in 1..Len(Tail(out)) /\ Tail(out)[j - 1] = out[j]
      BY <3>1, PipeTail
    <3>. QED  BY <3>1, <3>2
  <2>b. /\ call' \in Seq(CallState) /\ Len(call') = Len(call) /\ c \in 1..Len(call)
        /\ Issued = 1..Len(call) /\ Issued' = 1..Len(call) /\ (call' = <<>> <=> call = <<>>)
        /\ \A d \in 1..Len(call) :
             /\ call[d] \in CallState /\ call'[d] \in CallState
             /\ call'[d].claimed = IF d = c THEN TRUE ELSE call[d].claimed
             /\ call'[d].ran = IF d = c THEN call[c].ran + 1 ELSE call[d].ran
             /\ call'[d].started = call[d].started
             /\ call'[d].completed = call[d].completed
             /\ call'[d].output = call[d].output
             /\ call'[d].write = call[d].write
             /\ call'[d].observed = call[d].observed
    <3>1. c \in 1..Len(call) /\ call[c] \in CallState
      BY <1>0, <1>t, <1>1, <2>a DEF StepsInv, Issued
    <3>2. [call[c] EXCEPT !.claimed = TRUE, !.ran = @ + 1] \in CallState
      <4>1. call[c].ran \in Nat /\ call[c].ran + 1 \in Nat
        BY <3>1 DEF CallState
      <4>. QED  BY <3>1, <4>1 DEF CallState
    <3>3. call' = [call EXCEPT ![c] = [call[c] EXCEPT !.claimed = TRUE, !.ran = @ + 1]]
      BY <1>1
    <3>4. /\ call' \in Seq(CallState) /\ Len(call') = Len(call)
          /\ \A d \in 1..Len(call) : call'[d] = IF d = c THEN [call[c] EXCEPT !.claimed = TRUE, !.ran = @ + 1] ELSE call[d]
      BY <1>t, <3>1, <3>2, <3>3, CallChanges
    <3>5. ASSUME NEW d \in 1..Len(call)
          PROVE  /\ call'[d].claimed = IF d = c THEN TRUE ELSE call[d].claimed
                 /\ call'[d].ran = IF d = c THEN call[c].ran + 1 ELSE call[d].ran
                 /\ call'[d].started = call[d].started
                 /\ call'[d].completed = call[d].completed
                 /\ call'[d].output = call[d].output
                 /\ call'[d].write = call[d].write
                 /\ call'[d].observed = call[d].observed
      <4>1. call'[d] = IF d = c THEN [call[c] EXCEPT !.claimed = TRUE, !.ran = @ + 1] ELSE call[d]
        BY <3>4
      <4>2. CASE d = c
        BY <3>1, <4>1, <4>2 DEF CallState
      <4>3. CASE d # c
        <5>1. call'[d] = call[d]
          BY <4>1, <4>3
        <5>. QED  BY <5>1, <4>3
      <4>. QED  BY <4>2, <4>3
    <3>6. Issued = 1..Len(call) /\ Issued' = 1..Len(call)
      BY <1>t, <3>4 DEF Issued
    <3>7. call' = <<>> <=> call = <<>>
      BY <1>t, <3>4, EmptySeq
    <3>8. \A d \in 1..Len(call) : call[d] \in CallState /\ call'[d] \in CallState
      BY <1>t, <3>4
    <3>. QED  BY <3>1, <3>4, <3>5, <3>6, <3>7, <3>8
  <2>c. run.at \in {"run", "drain"} /\ ~run.aborted /\ run.step = 0 /\ out # <<>> /\ Head(out).k = "call" /\ c = Head(out).c /\ ~run.done /\ ~call[c].claimed /\ run' = [run EXCEPT !.step = c] /\ out' = Tail(out) /\ UNCHANGED <<relay, post, up, nat, fault>>
    BY <1>1
  <2>1. RelayTypeOK'
    <3>1. run' \in RunState
      <4>1. c \in Nat
        BY <2>b, <1>t
      <4>2. run \in RunState /\ run' = [run EXCEPT !.step = c]
        BY <1>t, <2>c
      <4>. QED  BY <4>1, <4>2 DEF RunState
    <3>. QED  BY <1>t, <2>c, <2>a, <2>b, <3>1 DEF RelayTypeOK
  <2>2. CloseInv'
    BY <1>0, <1>1 DEF CloseInv
  <2>3. StepsInv'
    <3>1. ASSUME NEW d \in 1..Len(call) PROVE CallInv(call[d])'
      <4>1. CallInv(call[d])
        BY <1>0, <2>b DEF StepsInv
      <4>2. /\ call[d] \in CallState
            /\ call'[d].claimed = (IF d = c THEN TRUE ELSE call[d].claimed)
            /\ call'[d].ran = (IF d = c THEN call[c].ran + 1 ELSE call[d].ran)
            /\ call'[d].started = call[d].started
            /\ call'[d].completed = call[d].completed
            /\ call'[d].output = call[d].output
            /\ call'[d].write = call[d].write
            /\ call'[d].observed = call[d].observed
        BY <2>b
      <4>3. CallInv(call[c]) /\ (run.step # 0 => call[run.step].claimed)
        BY <1>0, <2>b DEF StepsInv
      <4>. QED  BY <4>1, <4>2, <4>3, <2>c DEF CallInv, CallState
    <3>2. run'.step = c /\ c \in 1..Len(call) /\ call'[c].claimed
      BY <1>t, <2>b, <2>c DEF RunState
    <3>. QED  BY <3>1, <3>2, <1>0, <2>b, <2>c DEF StepsInv
  <2>4. DoneInv'
    BY <1>0, <1>t, <2>c, <2>a, <2>b DEF DoneInv, WholeCall, CallState, RunState
  <2>5. ASSUME Honest PROVE RpcInv' /\ RequestInv' /\ AnswerInv' /\ TodoInv' /\ OutInv' /\ EndInv'
    <3>0. RpcInv /\ RequestInv /\ AnswerInv /\ TodoInv /\ OutInv /\ EndInv
      BY <1>0, <2>5
    <3>1. RpcInv'
      BY <3>0, <1>t, <2>c, <2>a, <2>b DEF RpcInv, InTurn, RunState
    <3>2. RequestInv'
      BY <3>0, <1>t, <2>c, <2>a, <2>b DEF RequestInv, InTurn, CallState
    <3>3. AnswerInv'
      <4>1. /\ nat' = nat /\ relay' = relay /\ Len(call') = Len(call) /\ Issued' = Issued /\ Issued = 1..Len(call)
            /\ (call' = <<>> <=> call = <<>>) /\ call' \in Seq(CallState)
        BY <2>b, <2>c
      <4>2. LastInv /\ CallFrame(1) /\ CompletedFrame(1) /\ ReplyFrame(1)
        BY <3>0, <1>0, <2>b, <2>c, <2>a DEF AnswerInv, StepsInv, OutInv, FrameInv
      <4>3. ASSUME NEW d \in 1..Len(call) PROVE AnswerOf(d)'
        <5>1. AnswerOf(d)
          BY <3>0, <4>1 DEF AnswerInv
        <5>2. /\ call[d] \in CallState
              /\ call'[d].claimed = (IF d = c THEN TRUE ELSE call[d].claimed)
              /\ call'[d].started = call[d].started
              /\ call'[d].output = call[d].output
              /\ call'[d].write = call[d].write
              /\ call'[d].observed = call[d].observed
          BY <2>b
        <5>. QED  BY <5>1, <5>2, <4>1, <4>2, <2>a, <2>c DEF AnswerOf, LastInv, CallFrame
      <4>4. LastInv'
        <5>1. Len(call) \in 1..Len(call) => call'[Len(call)].claimed = (IF Len(call) = c THEN TRUE ELSE call[Len(call)].claimed) /\ call'[Len(call)].started = call[Len(call)].started /\ call'[Len(call)].write = call[Len(call)].write
          BY <2>b
        <5>2. nat.at \in {"called", "calling"} => Len(call) \in 1..Len(call)
          BY <4>2, <1>t, NonEmpty DEF LastInv
        <5>3. call[c].write = "none"
          BY <1>0, <2>b, <2>c DEF StepsInv, CallInv, CallState
        <5>4. /\ c = Len(call) /\ nat.at = "calling" /\ post.at = "none"
              /\ run'.step = c /\ run'.done = run.done /\ ~run.done
          BY <4>2, <3>0, <1>t, <2>a, <2>c DEF CallFrame, RequestInv, InTurn, RunState
        <5>. QED  BY <5>1, <5>2, <5>3, <5>4, <4>1, <4>2, <2>c DEF LastInv
      <4>. QED  BY <4>1, <4>3, <4>4 DEF AnswerInv
    <3>4. TodoInv'
      <4>1. /\ nat' = nat /\ Owed' = Owed /\ Len(call') = Len(call) /\ Issued' = Issued /\ Issued = 1..Len(call)
            /\ run'.pend = run.pend
        BY <1>t, <2>b, <2>c DEF Owed, RunState
      <4>2. TodoKinds /\ OwedInv /\ UnansweredInv /\ LastInv
        BY <3>0 DEF TodoInv, AnswerInv
      <4>3. \A e : /\ Sent(out', "completed", e) => Sent(out, "completed", e)
                   /\ Sent(out, "completed", e) => Sent(out', "completed", e)
        <5>1. ASSUME NEW e, Sent(out', "completed", e) PROVE Sent(out, "completed", e)
          BY <5>1, <2>a DEF Sent, After
        <5>2. ASSUME NEW e, Sent(out, "completed", e) PROVE Sent(out', "completed", e)
          <6>1. PICK j \in 1..Len(out) : out[j].k = "completed" /\ out[j].c = e
            BY <5>2 DEF Sent
          <6>2. CASE j = 1
            BY <6>1, <6>2, <2>a, <2>c
          <6>3. CASE j # 1
            <7>1. j - 1 \in 1..Len(out') /\ out'[j - 1] = out[j]
              BY <6>3, <2>a
            <7>. QED  BY <6>1, <7>1 DEF Sent
          <6>. QED  BY <6>2, <6>3
        <5>. QED  BY <5>1, <5>2
      <4>4. TodoKinds'
        BY <4>1, <4>2 DEF TodoKinds
      <4>5. OwedInv'
        <5>1. Owed \in 1..Len(call) => call'[Owed].completed = call[Owed].completed /\ call'[Owed].output = call[Owed].output
          BY <2>b
        <5>2. Sent(out, "completed", Owed)' <=> Sent(out', "completed", Owed)
          BY <4>1 DEF Sent
        <5>3. Sent(out', "completed", Owed) => Sent(out, "completed", Owed)
          BY <4>3
        <5>. QED  BY <5>1, <5>2, <5>3, <4>1, <4>2 DEF OwedInv
      <4>6. UnansweredInv'
        <5>1. nat.at \in {"called", "calling"} => Len(call) \in 1..Len(call)
          BY <4>2, <1>t, NonEmpty DEF LastInv
        <5>2. Len(call) \in 1..Len(call) => call'[Len(call)].completed = call[Len(call)].completed
          BY <2>b
        <5>3. Sent(out, "completed", Len(call))' <=> Sent(out', "completed", Len(call))
          BY <4>1 DEF Sent
        <5>4. Sent(out', "completed", Len(call)) => Sent(out, "completed", Len(call))
          BY <4>3
        <5>. QED  BY <5>1, <5>2, <5>3, <5>4, <4>1, <4>2 DEF UnansweredInv
      <4>7. ASSUME NEW d \in 1..Len(call) PROVE OwedOf(d)'
        <5>1. OwedOf(d)
          BY <3>0, <4>1 DEF TodoInv
        <5>2. /\ call'[d].completed = call[d].completed
              /\ call'[d].output = call[d].output
          BY <2>b
        <5>. QED  BY <5>1, <5>2, <4>1, <4>2, <4>3 DEF OwedOf
      <4>. QED  BY <4>1, <4>4, <4>5, <4>6, <4>7 DEF TodoInv
    <3>5. OutInv'
      <4>0. \A j \in 1..Len(out) : FrameInv(j) /\ out[j] \in FrameState
        BY <3>0, <1>t DEF OutInv
      <4>1. ASSUME NEW j \in 1..Len(out') PROVE FrameInv(j)'
        <5>1. After(out, out', j) /\ j \in Nat /\ j >= 1
          BY <2>a, <4>1
        <5>2. /\ FrameInv(j + 1) /\ FrameInv(1)
              /\ ~(out[j + 1].k = out[1].k /\ out[j + 1].c = out[1].c)
          BY <5>1, <4>0, <3>0, <2>a DEF OutInv, After
        <5>e. /\ ReplyFrame(j + 1) /\ CallFrame(j + 1) /\ CompletedFrame(j + 1) /\ FinalFrame(j + 1)
              /\ ReplyFrame(1) /\ CallFrame(1) /\ CompletedFrame(1) /\ FinalFrame(1)
              /\ ~(out[j + 1].k = out[1].k /\ out[j + 1].c = out[1].c)
          BY <5>2 DEF FrameInv
        <5>f. /\ out[j + 1].k = "call" => call[Len(call)].started \/ out[j].k = "started"
              /\ out[j + 1].k = "turncompleted" => relay.finalObserved \/ out[j].k = "final"
              /\ (j = 1 /\ out[j] = out[1]) \/ (j > 1 /\ out'[j - 1] = out[j])
          <6>1. (j + 1) - 1 = j /\ j + 1 > 1 /\ (j = 1 \/ j > 1) /\ (j > 1 => out'[j - 1] = out[j])
            BY <5>1 DEF After
          <6>2. out[(j + 1) - 1] = out[j]
            BY <6>1
          <6>. QED  BY <5>e, <6>1, <6>2 DEF CallFrame, FinalFrame
        <5>g. /\ out[1].k \in {"call"} /\ out'[j] = out[j + 1] /\ (j + 1 = Len(out) => j = Len(out'))
              /\ run'.pend = run.pend /\ run'.done = run.done /\ UNCHANGED <<nat, relay>>
          BY <5>1, <2>a, <1>t, <2>c DEF RunState, RelayState, After
        <5>3. /\ Len(call) \in 1..Len(call) => call'[Len(call)].claimed = (IF Len(call) = c THEN TRUE ELSE call[Len(call)].claimed) /\ call'[Len(call)].started = call[Len(call)].started
              /\ Len(call') = Len(call) /\ Issued' = Issued /\ Issued = 1..Len(call)
          BY <2>b
        <5>4. out[j + 1].c \in 1..Len(call) =>
                call'[out[j + 1].c].completed = call[out[j + 1].c].completed /\ call'[out[j + 1].c].output = call[out[j + 1].c].output
          BY <2>b
        <5>5. nat.at = "calling" => Len(call) \in 1..Len(call)
          <6>1. nat.at = "calling" => call # <<>>
            BY <3>0 DEF AnswerInv, LastInv
          <6>. QED  BY <6>1, <1>t, NonEmpty
        <5>6. c = out[1].c
          BY <2>a, <2>c
        <5>a. ReplyFrame(j)'
          BY <5>e, <5>f, <5>g, <5>3, <5>4, <5>5, <5>6 DEF ReplyFrame, Reply, InTurn
        <5>b. CallFrame(j)'
          BY <5>e, <5>f, <5>g, <5>3, <5>4, <5>5, <5>6 DEF CallFrame
        <5>c. CompletedFrame(j)'
          BY <5>e, <5>f, <5>g, <5>3, <5>4, <5>5, <5>6 DEF CompletedFrame
        <5>d. FinalFrame(j)'
          BY <5>e, <5>f, <5>g, <5>3, <5>4, <5>5, <5>6 DEF FinalFrame
        <5>. QED  BY <5>a, <5>b, <5>c, <5>d DEF FrameInv
      <4>2. ASSUME NEW j \in 1..Len(out'), NEW l \in 1..Len(out'), out'[j].k = out'[l].k, out'[j].c = out'[l].c
            PROVE  j = l
        <5>1. /\ j + 1 \in 1..Len(out) /\ l + 1 \in 1..Len(out)
              /\ out'[j] = out[j + 1] /\ out'[l] = out[l + 1]
          BY <2>a DEF After
        <5>2. j + 1 = l + 1
          BY <5>1, <4>2, <3>0 DEF OutInv
        <5>. QED  BY <5>2
      <4>. QED  BY <4>1, <4>2 DEF OutInv
    <3>6. EndInv'
      BY <3>0, <1>t, <2>c, <2>a, <2>b DEF EndInv, RunState
    <3>. QED  BY <3>1, <3>2, <3>3, <3>4, <3>5, <3>6
  <2>6. HonestInv'
    <3>1. nat'.wild = nat.wild
      BY <1>t, <2>c, <2>a, <2>b DEF NativeState
    <3>. QED  BY <3>1, <2>5, <1>1 DEF HonestInv, Honest
  <2>. QED  BY <2>1, <2>2, <2>3, <2>4, <2>6 DEF RelayInv, WholeInv
<1>2. ASSUME run.at \in {"run", "drain"},
            ~run.aborted,
            run.step = 0,
            out # <<>>,
            Head(out).k = "call",
            ~(~run.done /\ run.turn /\ Head(out).c \in Issued /\ ~call[Head(out).c].claimed),
            run' = Fail(run),
            out' = Tail(out),
            UNCHANGED <<relay, post, up, call, nat, fault>>
     PROVE  RelayInv'
  <2>a. /\ Len(out) \in Nat /\ Len(out) >= 1 /\ Head(out) = out[1] /\ 1 \in 1..Len(out) /\ out[1] \in FrameState
        /\ out' \in Seq(FrameState) /\ Len(out') = Len(out) - 1 /\ (Len(out) = 1 => out' = <<>>)
        /\ \A j \in 1..Len(out') : After(out, out', j)
        /\ \A j \in 1..Len(out) : j # 1 => j - 1 \in 1..Len(out') /\ out'[j - 1] = out[j]
    <3>1. out \in Seq(FrameState) /\ out # <<>> /\ out' = Tail(out)
      BY <1>t, <1>2
    <3>2. /\ Len(out) \in Nat /\ Len(out) >= 1 /\ Head(out) = out[1] /\ 1 \in 1..Len(out) /\ out[1] \in FrameState
          /\ Tail(out) \in Seq(FrameState) /\ Len(Tail(out)) = Len(out) - 1 /\ (Len(out) = 1 => Tail(out) = <<>>)
          /\ \A j \in 1..Len(Tail(out)) : After(out, Tail(out), j)
          /\ \A j \in 1..Len(out) : j # 1 => j - 1 \in 1..Len(Tail(out)) /\ Tail(out)[j - 1] = out[j]
      BY <3>1, PipeTail
    <3>. QED  BY <3>1, <3>2
  <2>1. RelayTypeOK'
    BY <1>t, <1>2, <2>a DEF Fail, FrameState, RelayTypeOK, RunState, RelayKinds, RelayFrame
  <2>2. CloseInv'
    BY <1>0, <1>2 DEF CloseInv
  <2>3. StepsInv'
    BY <1>0, <1>t, <1>2, <2>a DEF Fail, StepsInv, CallInv, Issued, RunState
  <2>4. DoneInv'
    BY <1>0, <1>t, <1>2, <2>a DEF Fail, DoneInv, WholeCall, Issued, RunState
  <2>5. ~Honest
    <3> SUFFICES ASSUME Honest PROVE FALSE
      OBVIOUS
    <3>0. RpcInv /\ RequestInv /\ AnswerInv /\ TodoInv /\ OutInv /\ EndInv
      BY <1>0
    <3>1. FrameInv(1)
      BY <3>0, <2>a DEF OutInv
    <3>. QED  BY <3>0, <3>1, <1>t, <1>2, <2>a DEF FrameInv, ReplyFrame, CallFrame, CompletedFrame, FinalFrame, RpcInv, EndInv, AnswerInv, AnswerOf, LastInv, Issued, Reply, InTurn
  <2>6. HonestInv'
    BY <2>5, <1>2 DEF HonestInv, Honest
  <2>. QED  BY <2>1, <2>2, <2>3, <2>4, <2>6 DEF RelayInv, WholeInv
<1>. QED
  BY <1>1, <1>2 DEF ToolCall, Take, ClaimTaskCallOK

LEMMA CompleteCallKeeps ==
  ASSUME RelayInv, CompleteCall
  PROVE  RelayInv'
<1>0. RelayTypeOK /\ StepsInv /\ CloseInv /\ DoneInv
      /\ (Honest => RpcInv /\ RequestInv /\ AnswerInv /\ TodoInv /\ OutInv /\ EndInv)
  BY DEF RelayInv, WholeInv, HonestInv, Honest
<1>t. /\ run \in RunState /\ relay \in RelayState /\ post \in PostState /\ up \in {"none", "asked"}
      /\ call \in Seq(CallState) /\ nat \in NativeState /\ out \in Seq(FrameState) /\ fault \in BOOLEAN
  BY <1>0 DEF RelayTypeOK
<1>1. ASSUME run.step # 0,
            run.aborted,
            run' = [Fail(run) EXCEPT !.step = 0],
            UNCHANGED <<relay, post, up, call, nat, out, fault>>
     PROVE  RelayInv'
  <2>1. RelayTypeOK'
    BY <1>t, <1>1 DEF Fail, RelayTypeOK, RunState
  <2>2. CloseInv'
    BY <1>0, <1>1 DEF CloseInv
  <2>3. StepsInv'
    BY <1>0, <1>t, <1>1 DEF Fail, StepsInv, CallInv, Issued, RunState
  <2>4. DoneInv'
    BY <1>0, <1>t, <1>1 DEF Fail, DoneInv, WholeCall, Issued, RunState
  <2>5. ~Honest
    BY <1>0, <1>t, <1>1 DEF RpcInv, RequestInv, AnswerInv, AnswerOf, LastInv, OutInv, FrameInv, ReplyFrame, CallFrame, CompletedFrame, FinalFrame, EndInv, TodoInv, Issued, Reply, InTurn
  <2>6. HonestInv'
    BY <2>5, <1>1 DEF HonestInv, Honest
  <2>. QED  BY <2>1, <2>2, <2>3, <2>4, <2>6 DEF RelayInv, WholeInv
<1>2. ASSUME run.step # 0,
            ~run.aborted,
            ~call[run.step].output,
            call' = [call EXCEPT ![run.step].output = TRUE, ![run.step].write = "sent"],
            UNCHANGED <<run, relay, post, up, nat, out, fault>>
     PROVE  RelayInv'
  <2>b. /\ call' \in Seq(CallState) /\ Len(call') = Len(call) /\ run.step \in 1..Len(call)
        /\ Issued = 1..Len(call) /\ Issued' = 1..Len(call) /\ (call' = <<>> <=> call = <<>>)
        /\ \A d \in 1..Len(call) :
             /\ call[d] \in CallState /\ call'[d] \in CallState
             /\ call'[d].claimed = call[d].claimed
             /\ call'[d].ran = call[d].ran
             /\ call'[d].started = call[d].started
             /\ call'[d].completed = call[d].completed
             /\ call'[d].output = IF d = run.step THEN TRUE ELSE call[d].output
             /\ call'[d].write = IF d = run.step THEN "sent" ELSE call[d].write
             /\ call'[d].observed = call[d].observed
    <3>1. run.step \in 1..Len(call) /\ call[run.step] \in CallState
      BY <1>0, <1>t, <1>2 DEF StepsInv, Issued
    <3>2. [call[run.step] EXCEPT !.output = TRUE, !.write = "sent"] \in CallState
      <4>1. call[run.step].ran \in Nat /\ call[run.step].ran + 1 \in Nat
        BY <3>1 DEF CallState
      <4>. QED  BY <3>1, <4>1 DEF CallState
    <3>3. call' = [call EXCEPT ![run.step] = [call[run.step] EXCEPT !.output = TRUE, !.write = "sent"]]
      BY <1>2
    <3>4. /\ call' \in Seq(CallState) /\ Len(call') = Len(call)
          /\ \A d \in 1..Len(call) : call'[d] = IF d = run.step THEN [call[run.step] EXCEPT !.output = TRUE, !.write = "sent"] ELSE call[d]
      BY <1>t, <3>1, <3>2, <3>3, CallChanges
    <3>5. ASSUME NEW d \in 1..Len(call)
          PROVE  /\ call'[d].claimed = call[d].claimed
                 /\ call'[d].ran = call[d].ran
                 /\ call'[d].started = call[d].started
                 /\ call'[d].completed = call[d].completed
                 /\ call'[d].output = IF d = run.step THEN TRUE ELSE call[d].output
                 /\ call'[d].write = IF d = run.step THEN "sent" ELSE call[d].write
                 /\ call'[d].observed = call[d].observed
      <4>1. call'[d] = IF d = run.step THEN [call[run.step] EXCEPT !.output = TRUE, !.write = "sent"] ELSE call[d]
        BY <3>4
      <4>2. CASE d = run.step
        BY <3>1, <4>1, <4>2 DEF CallState
      <4>3. CASE d # run.step
        <5>1. call'[d] = call[d]
          BY <4>1, <4>3
        <5>. QED  BY <5>1, <4>3
      <4>. QED  BY <4>2, <4>3
    <3>6. Issued = 1..Len(call) /\ Issued' = 1..Len(call)
      BY <1>t, <3>4 DEF Issued
    <3>7. call' = <<>> <=> call = <<>>
      BY <1>t, <3>4, EmptySeq
    <3>8. \A d \in 1..Len(call) : call[d] \in CallState /\ call'[d] \in CallState
      BY <1>t, <3>4
    <3>. QED  BY <3>1, <3>4, <3>5, <3>6, <3>7, <3>8
  <2>c. run.step # 0 /\ ~run.aborted /\ ~call[run.step].output /\ UNCHANGED <<run, relay, post, up, nat, out, fault>>
    BY <1>2
  <2>1. RelayTypeOK'
    BY <1>t, <2>c, <2>b DEF CallState, RelayTypeOK
  <2>2. CloseInv'
    BY <1>0, <1>2 DEF CloseInv
  <2>3. StepsInv'
    <3>1. ASSUME NEW d \in 1..Len(call) PROVE CallInv(call[d])'
      <4>1. CallInv(call[d])
        BY <1>0, <2>b DEF StepsInv
      <4>2. /\ call[d] \in CallState
            /\ call'[d].claimed = call[d].claimed
            /\ call'[d].ran = call[d].ran
            /\ call'[d].started = call[d].started
            /\ call'[d].completed = call[d].completed
            /\ call'[d].output = (IF d = run.step THEN TRUE ELSE call[d].output)
            /\ call'[d].write = (IF d = run.step THEN "sent" ELSE call[d].write)
            /\ call'[d].observed = call[d].observed
        BY <2>b
      <4>3. CallInv(call[run.step]) /\ (run.step # 0 => call[run.step].claimed)
        BY <1>0, <2>b DEF StepsInv
      <4>. QED  BY <4>1, <4>2, <4>3, <2>c DEF CallInv, CallState
    <3>2. run.step # 0 => run.step \in 1..Len(call) /\ call'[run.step].claimed
      BY <1>0, <2>b DEF StepsInv
    <3>. QED  BY <3>1, <3>2, <1>0, <2>b, <2>c DEF StepsInv
  <2>4. DoneInv'
    BY <1>0, <1>t, <2>c, <2>b DEF DoneInv, WholeCall, CallState
  <2>5. ASSUME Honest PROVE RpcInv' /\ RequestInv' /\ AnswerInv' /\ TodoInv' /\ OutInv' /\ EndInv'
    <3>0. RpcInv /\ RequestInv /\ AnswerInv /\ TodoInv /\ OutInv /\ EndInv
      BY <1>0, <2>5
    <3>1. RpcInv' /\ EndInv'
      BY <3>0, <1>2 DEF RpcInv, InTurn, EndInv
    <3>2. RequestInv'
      BY <3>0, <1>t, <2>c, <2>b DEF RequestInv, InTurn, CallState
    <3>3. AnswerInv'
      <4>1. /\ nat' = nat /\ relay' = relay /\ Len(call') = Len(call) /\ Issued' = Issued /\ Issued = 1..Len(call)
            /\ (call' = <<>> <=> call = <<>>) /\ call' \in Seq(CallState)
        BY <2>b, <2>c
      <4>2. LastInv /\ AnswerOf(run.step) /\ call[run.step].claimed
        BY <3>0, <1>0, <2>b, <2>c DEF AnswerInv, StepsInv
      <4>3. ASSUME NEW d \in 1..Len(call) PROVE AnswerOf(d)'
        <5>1. AnswerOf(d)
          BY <3>0, <4>1 DEF AnswerInv
        <5>2. /\ call[d] \in CallState
              /\ call'[d].claimed = call[d].claimed
              /\ call'[d].started = call[d].started
              /\ call'[d].output = (IF d = run.step THEN TRUE ELSE call[d].output)
              /\ call'[d].write = (IF d = run.step THEN "sent" ELSE call[d].write)
              /\ call'[d].observed = call[d].observed
          BY <2>b
        <5>. QED  BY <5>1, <5>2, <4>1, <4>2, <2>c DEF AnswerOf, LastInv
      <4>4. LastInv'
        <5>1. Len(call) \in 1..Len(call) => call'[Len(call)].claimed = call[Len(call)].claimed /\ call'[Len(call)].started = call[Len(call)].started /\ call'[Len(call)].write = (IF Len(call) = run.step THEN "sent" ELSE call[Len(call)].write)
          BY <2>b
        <5>2. nat.at \in {"called", "calling"} => Len(call) \in 1..Len(call)
          BY <4>2, <1>t, NonEmpty DEF LastInv
        <5>. QED  BY <5>1, <5>2, <4>1, <4>2, <3>0, <1>t, <2>c DEF LastInv, RequestInv, EndInv, InTurn
      <4>. QED  BY <4>1, <4>3, <4>4 DEF AnswerInv
    <3>4. TodoInv'
      <4>1. /\ nat' = nat /\ Owed' = Owed /\ Len(call') = Len(call) /\ Issued' = Issued /\ Issued = 1..Len(call)
            /\ run'.pend = run.pend
        BY <1>t, <2>b, <2>c DEF Owed, RunState
      <4>2. TodoKinds /\ OwedInv /\ UnansweredInv /\ LastInv /\ run.step = Len(call) /\ (~call[run.step].output => nat.at = "calling")
        <5>1. TodoKinds /\ OwedInv /\ UnansweredInv /\ LastInv /\ AnswerOf(run.step) /\ call[run.step].claimed
          BY <3>0, <1>0, <4>1, <2>b, <2>c DEF TodoInv, AnswerInv, StepsInv
        <5>2. run.step = Len(call) /\ (~call[run.step].output => nat.at = "calling")
          BY <5>1, <2>b, <2>c DEF LastInv, AnswerOf
        <5>. QED  BY <5>1, <5>2
      <4>3. \A e : /\ Sent(out', "completed", e) => Sent(out, "completed", e)
                   /\ Sent(out, "completed", e) => Sent(out', "completed", e)
        BY <2>c DEF Sent
      <4>4. TodoKinds'
        BY <4>1, <4>2 DEF TodoKinds
      <4>5. OwedInv'
        <5>1. Owed \in 1..Len(call) => call'[Owed].completed = call[Owed].completed /\ call'[Owed].output = (IF Owed = run.step THEN TRUE ELSE call[Owed].output)
          BY <2>b
        <5>2. Sent(out, "completed", Owed)' <=> Sent(out', "completed", Owed)
          BY <4>1 DEF Sent
        <5>3. Sent(out', "completed", Owed) => Sent(out, "completed", Owed)
          BY <4>3
        <5>. QED  BY <5>1, <5>2, <5>3, <4>1, <4>2 DEF OwedInv
      <4>6. UnansweredInv'
        <5>1. nat.at \in {"called", "calling"} => Len(call) \in 1..Len(call)
          BY <4>2, <1>t, NonEmpty DEF LastInv
        <5>2. Len(call) \in 1..Len(call) => call'[Len(call)].completed = call[Len(call)].completed
          BY <2>b
        <5>3. Sent(out, "completed", Len(call))' <=> Sent(out', "completed", Len(call))
          BY <4>1 DEF Sent
        <5>4. Sent(out', "completed", Len(call)) => Sent(out, "completed", Len(call))
          BY <4>3
        <5>. QED  BY <5>1, <5>2, <5>3, <5>4, <4>1, <4>2 DEF UnansweredInv
      <4>7. ASSUME NEW d \in 1..Len(call) PROVE OwedOf(d)'
        <5>1. OwedOf(d)
          BY <3>0, <4>1 DEF TodoInv
        <5>2. /\ call'[d].completed = call[d].completed
              /\ call'[d].output = (IF d = run.step THEN TRUE ELSE call[d].output)
          BY <2>b
        <5>. QED  BY <5>1, <5>2, <4>1, <4>2, <4>3 DEF OwedOf
      <4>. QED  BY <4>1, <4>4, <4>5, <4>6, <4>7 DEF TodoInv
    <3>5. OutInv'
      <4>0. \A j \in 1..Len(out) : FrameInv(j) /\ out[j] \in FrameState
        BY <3>0, <1>t DEF OutInv
      <4>1. ASSUME NEW j \in 1..Len(out) PROVE FrameInv(j)'
        <5>e. ReplyFrame(j) /\ CallFrame(j) /\ CompletedFrame(j) /\ FinalFrame(j)
          BY <4>0 DEF FrameInv
        <5>g. /\ out' = out
              /\ run'.pend = run.pend /\ run'.done = run.done /\ UNCHANGED <<nat, relay>>
          BY <1>t, <2>c DEF RunState, RelayState
        <5>3. /\ Len(call) \in 1..Len(call) => call'[Len(call)].claimed = call[Len(call)].claimed /\ call'[Len(call)].started = call[Len(call)].started
              /\ Len(call') = Len(call) /\ Issued' = Issued /\ Issued = 1..Len(call)
          BY <2>b
        <5>4. out[j].c \in 1..Len(call) =>
                call'[out[j].c].completed = call[out[j].c].completed /\ call'[out[j].c].output = (IF out[j].c = run.step THEN TRUE ELSE call[out[j].c].output)
          BY <2>b
        <5>5. nat.at = "calling" => Len(call) \in 1..Len(call)
          <6>1. nat.at = "calling" => call # <<>>
            BY <3>0 DEF AnswerInv, LastInv
          <6>. QED  BY <6>1, <1>t, NonEmpty
        <5>a. ReplyFrame(j)'
          BY <5>e, <5>g, <5>3, <5>4, <5>5 DEF ReplyFrame, Reply, InTurn
        <5>b. CallFrame(j)'
          BY <5>e, <5>g, <5>3, <5>4, <5>5 DEF CallFrame
        <5>c. CompletedFrame(j)'
          BY <5>e, <5>g, <5>3, <5>4, <5>5 DEF CompletedFrame
        <5>d. FinalFrame(j)'
          BY <5>e, <5>g, <5>3, <5>4, <5>5 DEF FinalFrame
        <5>. QED  BY <5>a, <5>b, <5>c, <5>d DEF FrameInv
      <4>. QED  BY <4>1, <3>0, <2>c DEF OutInv
    <3>. QED  BY <3>1, <3>2, <3>3, <3>4, <3>5
  <2>6. HonestInv'
    <3>1. nat'.wild = nat.wild
      BY <1>t, <2>c, <2>b DEF NativeState
    <3>. QED  BY <3>1, <2>5, <1>2 DEF HonestInv, Honest
  <2>. QED  BY <2>1, <2>2, <2>3, <2>4, <2>6 DEF RelayInv, WholeInv
<1>. QED
  BY <1>1, <1>2 DEF CompleteCall

LEMMA RelayWriteSettlesKeeps ==
  ASSUME RelayInv, RelayWriteSettles
  PROVE  RelayInv'
<1>0. RelayTypeOK /\ StepsInv /\ CloseInv /\ DoneInv
      /\ (Honest => RpcInv /\ RequestInv /\ AnswerInv /\ TodoInv /\ OutInv /\ EndInv)
  BY DEF RelayInv, WholeInv, HonestInv, Honest
<1>t. /\ run \in RunState /\ relay \in RelayState /\ post \in PostState /\ up \in {"none", "asked"}
      /\ call \in Seq(CallState) /\ nat \in NativeState /\ out \in Seq(FrameState) /\ fault \in BOOLEAN
  BY <1>0 DEF RelayTypeOK
<1>1. ASSUME run.step # 0,
            call[run.step].write = "sent",
            run' = [run EXCEPT !.step = 0],
            call' = [call EXCEPT ![run.step].write = "settled"],
            UNCHANGED <<relay, post, up, nat, out, fault>>
     PROVE  RelayInv'
  <2>b. /\ call' \in Seq(CallState) /\ Len(call') = Len(call) /\ run.step \in 1..Len(call)
        /\ Issued = 1..Len(call) /\ Issued' = 1..Len(call) /\ (call' = <<>> <=> call = <<>>)
        /\ \A d \in 1..Len(call) :
             /\ call[d] \in CallState /\ call'[d] \in CallState
             /\ call'[d].claimed = call[d].claimed
             /\ call'[d].ran = call[d].ran
             /\ call'[d].started = call[d].started
             /\ call'[d].completed = call[d].completed
             /\ call'[d].output = call[d].output
             /\ call'[d].write = IF d = run.step THEN "settled" ELSE call[d].write
             /\ call'[d].observed = call[d].observed
    <3>1. run.step \in 1..Len(call) /\ call[run.step] \in CallState
      BY <1>0, <1>t, <1>1 DEF StepsInv, Issued
    <3>2. [call[run.step] EXCEPT !.write = "settled"] \in CallState
      <4>1. call[run.step].ran \in Nat /\ call[run.step].ran + 1 \in Nat
        BY <3>1 DEF CallState
      <4>. QED  BY <3>1, <4>1 DEF CallState
    <3>3. call' = [call EXCEPT ![run.step] = [call[run.step] EXCEPT !.write = "settled"]]
      BY <1>1
    <3>4. /\ call' \in Seq(CallState) /\ Len(call') = Len(call)
          /\ \A d \in 1..Len(call) : call'[d] = IF d = run.step THEN [call[run.step] EXCEPT !.write = "settled"] ELSE call[d]
      BY <1>t, <3>1, <3>2, <3>3, CallChanges
    <3>5. ASSUME NEW d \in 1..Len(call)
          PROVE  /\ call'[d].claimed = call[d].claimed
                 /\ call'[d].ran = call[d].ran
                 /\ call'[d].started = call[d].started
                 /\ call'[d].completed = call[d].completed
                 /\ call'[d].output = call[d].output
                 /\ call'[d].write = IF d = run.step THEN "settled" ELSE call[d].write
                 /\ call'[d].observed = call[d].observed
      <4>1. call'[d] = IF d = run.step THEN [call[run.step] EXCEPT !.write = "settled"] ELSE call[d]
        BY <3>4
      <4>2. CASE d = run.step
        BY <3>1, <4>1, <4>2 DEF CallState
      <4>3. CASE d # run.step
        <5>1. call'[d] = call[d]
          BY <4>1, <4>3
        <5>. QED  BY <5>1, <4>3
      <4>. QED  BY <4>2, <4>3
    <3>6. Issued = 1..Len(call) /\ Issued' = 1..Len(call)
      BY <1>t, <3>4 DEF Issued
    <3>7. call' = <<>> <=> call = <<>>
      BY <1>t, <3>4, EmptySeq
    <3>8. \A d \in 1..Len(call) : call[d] \in CallState /\ call'[d] \in CallState
      BY <1>t, <3>4
    <3>. QED  BY <3>1, <3>4, <3>5, <3>6, <3>7, <3>8
  <2>c. run.step # 0 /\ call[run.step].write = "sent" /\ run' = [run EXCEPT !.step = 0] /\ UNCHANGED <<relay, post, up, nat, out, fault>>
    BY <1>1
  <2>1. RelayTypeOK'
    BY <1>t, <2>c, <2>b DEF CallState, RelayTypeOK, RunState
  <2>2. CloseInv'
    BY <1>0, <1>1 DEF CloseInv
  <2>3. StepsInv'
    <3>1. ASSUME NEW d \in 1..Len(call) PROVE CallInv(call[d])'
      <4>1. CallInv(call[d])
        BY <1>0, <2>b DEF StepsInv
      <4>2. /\ call[d] \in CallState
            /\ call'[d].claimed = call[d].claimed
            /\ call'[d].ran = call[d].ran
            /\ call'[d].started = call[d].started
            /\ call'[d].completed = call[d].completed
            /\ call'[d].output = call[d].output
            /\ call'[d].write = (IF d = run.step THEN "settled" ELSE call[d].write)
            /\ call'[d].observed = call[d].observed
        BY <2>b
      <4>3. CallInv(call[run.step]) /\ (run.step # 0 => call[run.step].claimed)
        BY <1>0, <2>b DEF StepsInv
      <4>. QED  BY <4>1, <4>2, <4>3, <2>c DEF CallInv, CallState
    <3>2. run'.step = 0
      BY <1>t, <2>b, <2>c DEF RunState
    <3>. QED  BY <3>1, <3>2, <1>0, <2>b, <2>c DEF StepsInv
  <2>4. DoneInv'
    BY <1>0, <1>t, <2>c, <2>b DEF DoneInv, WholeCall, CallState, RunState
  <2>5. ASSUME Honest PROVE RpcInv' /\ RequestInv' /\ AnswerInv' /\ TodoInv' /\ OutInv' /\ EndInv'
    <3>0. RpcInv /\ RequestInv /\ AnswerInv /\ TodoInv /\ OutInv /\ EndInv
      BY <1>0, <2>5
    <3>1. RpcInv'
      BY <3>0, <1>t, <2>c, <2>b DEF RpcInv, InTurn, RunState
    <3>2. RequestInv'
      BY <3>0, <1>t, <2>c, <2>b DEF RequestInv, InTurn, CallState
    <3>3. AnswerInv'
      <4>1. /\ nat' = nat /\ relay' = relay /\ Len(call') = Len(call) /\ Issued' = Issued /\ Issued = 1..Len(call)
            /\ (call' = <<>> <=> call = <<>>) /\ call' \in Seq(CallState)
        BY <2>b, <2>c
      <4>2. LastInv /\ AnswerOf(run.step) /\ call[run.step].claimed
        BY <3>0, <1>0, <2>b, <2>c DEF AnswerInv, StepsInv
      <4>3. ASSUME NEW d \in 1..Len(call) PROVE AnswerOf(d)'
        <5>1. AnswerOf(d)
          BY <3>0, <4>1 DEF AnswerInv
        <5>2. /\ call[d] \in CallState
              /\ call'[d].claimed = call[d].claimed
              /\ call'[d].started = call[d].started
              /\ call'[d].output = call[d].output
              /\ call'[d].write = (IF d = run.step THEN "settled" ELSE call[d].write)
              /\ call'[d].observed = call[d].observed
          BY <2>b
        <5>. QED  BY <5>1, <5>2, <4>1, <4>2, <2>c DEF AnswerOf, LastInv
      <4>4. LastInv'
        <5>1. Len(call) \in 1..Len(call) => call'[Len(call)].claimed = call[Len(call)].claimed /\ call'[Len(call)].started = call[Len(call)].started /\ call'[Len(call)].write = (IF Len(call) = run.step THEN "settled" ELSE call[Len(call)].write)
          BY <2>b
        <5>2. nat.at \in {"called", "calling"} => Len(call) \in 1..Len(call)
          BY <4>2, <1>t, NonEmpty DEF LastInv
        <5>. QED  BY <5>1, <5>2, <4>1, <4>2, <3>0, <1>t, <2>c DEF LastInv, RequestInv, EndInv, InTurn, RunState
      <4>. QED  BY <4>1, <4>3, <4>4 DEF AnswerInv
    <3>4. TodoInv'
      <4>1. /\ nat' = nat /\ Owed' = Owed /\ Len(call') = Len(call) /\ Issued' = Issued /\ Issued = 1..Len(call)
            /\ run'.pend = run.pend
        BY <1>t, <2>b, <2>c DEF Owed, RunState
      <4>2. TodoKinds /\ OwedInv /\ UnansweredInv /\ LastInv /\ run.step = Len(call) /\ (~call[run.step].output => nat.at = "calling")
        <5>1. TodoKinds /\ OwedInv /\ UnansweredInv /\ LastInv /\ AnswerOf(run.step) /\ call[run.step].claimed
          BY <3>0, <1>0, <4>1, <2>b, <2>c DEF TodoInv, AnswerInv, StepsInv
        <5>2. run.step = Len(call) /\ (~call[run.step].output => nat.at = "calling")
          BY <5>1, <2>b, <2>c DEF LastInv, AnswerOf
        <5>. QED  BY <5>1, <5>2
      <4>3. \A e : /\ Sent(out', "completed", e) => Sent(out, "completed", e)
                   /\ Sent(out, "completed", e) => Sent(out', "completed", e)
        BY <2>c DEF Sent
      <4>4. TodoKinds'
        BY <4>1, <4>2 DEF TodoKinds
      <4>5. OwedInv'
        <5>1. Owed \in 1..Len(call) => call'[Owed].completed = call[Owed].completed /\ call'[Owed].output = call[Owed].output
          BY <2>b
        <5>2. Sent(out, "completed", Owed)' <=> Sent(out', "completed", Owed)
          BY <4>1 DEF Sent
        <5>3. Sent(out', "completed", Owed) => Sent(out, "completed", Owed)
          BY <4>3
        <5>. QED  BY <5>1, <5>2, <5>3, <4>1, <4>2 DEF OwedInv
      <4>6. UnansweredInv'
        <5>1. nat.at \in {"called", "calling"} => Len(call) \in 1..Len(call)
          BY <4>2, <1>t, NonEmpty DEF LastInv
        <5>2. Len(call) \in 1..Len(call) => call'[Len(call)].completed = call[Len(call)].completed
          BY <2>b
        <5>3. Sent(out, "completed", Len(call))' <=> Sent(out', "completed", Len(call))
          BY <4>1 DEF Sent
        <5>4. Sent(out', "completed", Len(call)) => Sent(out, "completed", Len(call))
          BY <4>3
        <5>. QED  BY <5>1, <5>2, <5>3, <5>4, <4>1, <4>2 DEF UnansweredInv
      <4>7. ASSUME NEW d \in 1..Len(call) PROVE OwedOf(d)'
        <5>1. OwedOf(d)
          BY <3>0, <4>1 DEF TodoInv
        <5>2. /\ call'[d].completed = call[d].completed
              /\ call'[d].output = call[d].output
          BY <2>b
        <5>. QED  BY <5>1, <5>2, <4>1, <4>2, <4>3 DEF OwedOf
      <4>. QED  BY <4>1, <4>4, <4>5, <4>6, <4>7 DEF TodoInv
    <3>5. OutInv'
      <4>0. \A j \in 1..Len(out) : FrameInv(j) /\ out[j] \in FrameState
        BY <3>0, <1>t DEF OutInv
      <4>1. ASSUME NEW j \in 1..Len(out) PROVE FrameInv(j)'
        <5>e. ReplyFrame(j) /\ CallFrame(j) /\ CompletedFrame(j) /\ FinalFrame(j)
          BY <4>0 DEF FrameInv
        <5>g. /\ out' = out
              /\ run'.pend = run.pend /\ run'.done = run.done /\ UNCHANGED <<nat, relay>>
          BY <1>t, <2>c DEF RunState, RelayState
        <5>3. /\ Len(call) \in 1..Len(call) => call'[Len(call)].claimed = call[Len(call)].claimed /\ call'[Len(call)].started = call[Len(call)].started
              /\ Len(call') = Len(call) /\ Issued' = Issued /\ Issued = 1..Len(call)
          BY <2>b
        <5>4. out[j].c \in 1..Len(call) =>
                call'[out[j].c].completed = call[out[j].c].completed /\ call'[out[j].c].output = call[out[j].c].output
          BY <2>b
        <5>5. nat.at = "calling" => Len(call) \in 1..Len(call)
          <6>1. nat.at = "calling" => call # <<>>
            BY <3>0 DEF AnswerInv, LastInv
          <6>. QED  BY <6>1, <1>t, NonEmpty
        <5>a. ReplyFrame(j)'
          BY <5>e, <5>g, <5>3, <5>4, <5>5 DEF ReplyFrame, Reply, InTurn
        <5>b. CallFrame(j)'
          BY <5>e, <5>g, <5>3, <5>4, <5>5 DEF CallFrame
        <5>c. CompletedFrame(j)'
          BY <5>e, <5>g, <5>3, <5>4, <5>5 DEF CompletedFrame
        <5>d. FinalFrame(j)'
          BY <5>e, <5>g, <5>3, <5>4, <5>5 DEF FinalFrame
        <5>. QED  BY <5>a, <5>b, <5>c, <5>d DEF FrameInv
      <4>. QED  BY <4>1, <3>0, <2>c DEF OutInv
    <3>6. EndInv'
      BY <3>0, <1>t, <2>c, <2>b DEF EndInv, RunState
    <3>. QED  BY <3>1, <3>2, <3>3, <3>4, <3>5, <3>6
  <2>6. HonestInv'
    <3>1. nat'.wild = nat.wild
      BY <1>t, <2>c, <2>b DEF NativeState
    <3>. QED  BY <3>1, <2>5, <1>1 DEF HonestInv, Honest
  <2>. QED  BY <2>1, <2>2, <2>3, <2>4, <2>6 DEF RelayInv, WholeInv
<1>. QED
  BY <1>1 DEF RelayWriteSettles

LEMMA ObserveStartedKeeps ==
  ASSUME RelayInv, ObserveStarted
  PROVE  RelayInv'
<1>0. RelayTypeOK /\ StepsInv /\ CloseInv /\ DoneInv
      /\ (Honest => RpcInv /\ RequestInv /\ AnswerInv /\ TodoInv /\ OutInv /\ EndInv)
  BY DEF RelayInv, WholeInv, HonestInv, Honest
<1>t. /\ run \in RunState /\ relay \in RelayState /\ post \in PostState /\ up \in {"none", "asked"}
      /\ call \in Seq(CallState) /\ nat \in NativeState /\ out \in Seq(FrameState) /\ fault \in BOOLEAN
  BY <1>0 DEF RelayTypeOK
<1>1. ASSUME run.at \in {"run", "drain"},
            ~run.aborted,
            run.step = 0,
            out # <<>>,
            Head(out).k = "started",
            NEW c \in Issued,
            c = Head(out).c,
            ~call[c].started,
            call' = [call EXCEPT ![c].started = TRUE],
            out' = Tail(out),
            UNCHANGED <<run, relay, post, up, nat, fault>>
     PROVE  RelayInv'
  <2>a. /\ Len(out) \in Nat /\ Len(out) >= 1 /\ Head(out) = out[1] /\ 1 \in 1..Len(out) /\ out[1] \in FrameState
        /\ out' \in Seq(FrameState) /\ Len(out') = Len(out) - 1 /\ (Len(out) = 1 => out' = <<>>)
        /\ \A j \in 1..Len(out') : After(out, out', j)
        /\ \A j \in 1..Len(out) : j # 1 => j - 1 \in 1..Len(out') /\ out'[j - 1] = out[j]
    <3>1. out \in Seq(FrameState) /\ out # <<>> /\ out' = Tail(out)
      BY <1>t, <1>1
    <3>2. /\ Len(out) \in Nat /\ Len(out) >= 1 /\ Head(out) = out[1] /\ 1 \in 1..Len(out) /\ out[1] \in FrameState
          /\ Tail(out) \in Seq(FrameState) /\ Len(Tail(out)) = Len(out) - 1 /\ (Len(out) = 1 => Tail(out) = <<>>)
          /\ \A j \in 1..Len(Tail(out)) : After(out, Tail(out), j)
          /\ \A j \in 1..Len(out) : j # 1 => j - 1 \in 1..Len(Tail(out)) /\ Tail(out)[j - 1] = out[j]
      BY <3>1, PipeTail
    <3>. QED  BY <3>1, <3>2
  <2>b. /\ call' \in Seq(CallState) /\ Len(call') = Len(call) /\ c \in 1..Len(call)
        /\ Issued = 1..Len(call) /\ Issued' = 1..Len(call) /\ (call' = <<>> <=> call = <<>>)
        /\ \A d \in 1..Len(call) :
             /\ call[d] \in CallState /\ call'[d] \in CallState
             /\ call'[d].claimed = call[d].claimed
             /\ call'[d].ran = call[d].ran
             /\ call'[d].started = IF d = c THEN TRUE ELSE call[d].started
             /\ call'[d].completed = call[d].completed
             /\ call'[d].output = call[d].output
             /\ call'[d].write = call[d].write
             /\ call'[d].observed = call[d].observed
    <3>1. c \in 1..Len(call) /\ call[c] \in CallState
      BY <1>0, <1>t, <1>1, <2>a DEF StepsInv, Issued
    <3>2. [call[c] EXCEPT !.started = TRUE] \in CallState
      <4>1. call[c].ran \in Nat /\ call[c].ran + 1 \in Nat
        BY <3>1 DEF CallState
      <4>. QED  BY <3>1, <4>1 DEF CallState
    <3>3. call' = [call EXCEPT ![c] = [call[c] EXCEPT !.started = TRUE]]
      BY <1>1
    <3>4. /\ call' \in Seq(CallState) /\ Len(call') = Len(call)
          /\ \A d \in 1..Len(call) : call'[d] = IF d = c THEN [call[c] EXCEPT !.started = TRUE] ELSE call[d]
      BY <1>t, <3>1, <3>2, <3>3, CallChanges
    <3>5. ASSUME NEW d \in 1..Len(call)
          PROVE  /\ call'[d].claimed = call[d].claimed
                 /\ call'[d].ran = call[d].ran
                 /\ call'[d].started = IF d = c THEN TRUE ELSE call[d].started
                 /\ call'[d].completed = call[d].completed
                 /\ call'[d].output = call[d].output
                 /\ call'[d].write = call[d].write
                 /\ call'[d].observed = call[d].observed
      <4>1. call'[d] = IF d = c THEN [call[c] EXCEPT !.started = TRUE] ELSE call[d]
        BY <3>4
      <4>2. CASE d = c
        BY <3>1, <4>1, <4>2 DEF CallState
      <4>3. CASE d # c
        <5>1. call'[d] = call[d]
          BY <4>1, <4>3
        <5>. QED  BY <5>1, <4>3
      <4>. QED  BY <4>2, <4>3
    <3>6. Issued = 1..Len(call) /\ Issued' = 1..Len(call)
      BY <1>t, <3>4 DEF Issued
    <3>7. call' = <<>> <=> call = <<>>
      BY <1>t, <3>4, EmptySeq
    <3>8. \A d \in 1..Len(call) : call[d] \in CallState /\ call'[d] \in CallState
      BY <1>t, <3>4
    <3>. QED  BY <3>1, <3>4, <3>5, <3>6, <3>7, <3>8
  <2>c. run.at \in {"run", "drain"} /\ ~run.aborted /\ run.step = 0 /\ out # <<>> /\ Head(out).k = "started" /\ c = Head(out).c /\ ~call[c].started /\ out' = Tail(out) /\ UNCHANGED <<run, relay, post, up, nat, fault>>
    BY <1>1
  <2>1. RelayTypeOK'
    BY <1>t, <2>c, <2>a, <2>b DEF CallState, FrameState, RelayTypeOK, RelayKinds, RelayFrame
  <2>2. CloseInv'
    BY <1>0, <1>1 DEF CloseInv
  <2>3. StepsInv'
    <3>1. ASSUME NEW d \in 1..Len(call) PROVE CallInv(call[d])'
      <4>1. CallInv(call[d])
        BY <1>0, <2>b DEF StepsInv
      <4>2. /\ call[d] \in CallState
            /\ call'[d].claimed = call[d].claimed
            /\ call'[d].ran = call[d].ran
            /\ call'[d].started = (IF d = c THEN TRUE ELSE call[d].started)
            /\ call'[d].completed = call[d].completed
            /\ call'[d].output = call[d].output
            /\ call'[d].write = call[d].write
            /\ call'[d].observed = call[d].observed
        BY <2>b
      <4>3. CallInv(call[c]) /\ (run.step # 0 => call[run.step].claimed)
        BY <1>0, <2>b DEF StepsInv
      <4>. QED  BY <4>1, <4>2, <4>3, <2>c DEF CallInv, CallState
    <3>2. run.step # 0 => run.step \in 1..Len(call) /\ call'[run.step].claimed
      BY <1>0, <2>b DEF StepsInv
    <3>. QED  BY <3>1, <3>2, <1>0, <2>b, <2>c DEF StepsInv
  <2>4. DoneInv'
    BY <1>0, <1>t, <2>c, <2>a, <2>b DEF DoneInv, WholeCall, CallState
  <2>5. ASSUME Honest PROVE RpcInv' /\ RequestInv' /\ AnswerInv' /\ TodoInv' /\ OutInv' /\ EndInv'
    <3>0. RpcInv /\ RequestInv /\ AnswerInv /\ TodoInv /\ OutInv /\ EndInv
      BY <1>0, <2>5
    <3>1. RpcInv'
      BY <3>0, <1>1 DEF RpcInv, InTurn
    <3>2. RequestInv'
      BY <3>0, <1>t, <2>c, <2>a, <2>b DEF RequestInv, InTurn, CallState
    <3>3. AnswerInv'
      <4>1. /\ nat' = nat /\ relay' = relay /\ Len(call') = Len(call) /\ Issued' = Issued /\ Issued = 1..Len(call)
            /\ (call' = <<>> <=> call = <<>>) /\ call' \in Seq(CallState)
        BY <2>b, <2>c
      <4>2. LastInv /\ CallFrame(1) /\ CompletedFrame(1) /\ ReplyFrame(1)
        BY <3>0, <1>0, <2>b, <2>c, <2>a DEF AnswerInv, StepsInv, OutInv, FrameInv
      <4>3. ASSUME NEW d \in 1..Len(call) PROVE AnswerOf(d)'
        <5>1. AnswerOf(d)
          BY <3>0, <4>1 DEF AnswerInv
        <5>2. /\ call[d] \in CallState
              /\ call'[d].claimed = call[d].claimed
              /\ call'[d].started = (IF d = c THEN TRUE ELSE call[d].started)
              /\ call'[d].output = call[d].output
              /\ call'[d].write = call[d].write
              /\ call'[d].observed = call[d].observed
          BY <2>b
        <5>. QED  BY <5>1, <5>2, <4>1, <4>2, <2>a, <2>c DEF AnswerOf, LastInv, CallFrame
      <4>4. LastInv'
        <5>1. Len(call) \in 1..Len(call) => call'[Len(call)].claimed = call[Len(call)].claimed /\ call'[Len(call)].started = (IF Len(call) = c THEN TRUE ELSE call[Len(call)].started) /\ call'[Len(call)].write = call[Len(call)].write
          BY <2>b
        <5>2. nat.at \in {"called", "calling"} => Len(call) \in 1..Len(call)
          BY <4>2, <1>t, NonEmpty DEF LastInv
        <5>. QED  BY <5>1, <5>2, <4>1, <4>2, <3>0, <1>t, <2>a, <2>c DEF LastInv, RequestInv, EndInv, InTurn, CallFrame
      <4>. QED  BY <4>1, <4>3, <4>4 DEF AnswerInv
    <3>4. TodoInv'
      <4>1. /\ nat' = nat /\ Owed' = Owed /\ Len(call') = Len(call) /\ Issued' = Issued /\ Issued = 1..Len(call)
            /\ run'.pend = run.pend
        BY <1>t, <2>b, <2>c DEF Owed, RunState
      <4>2. TodoKinds /\ OwedInv /\ UnansweredInv /\ LastInv
        BY <3>0 DEF TodoInv, AnswerInv
      <4>3. \A e : /\ Sent(out', "completed", e) => Sent(out, "completed", e)
                   /\ Sent(out, "completed", e) => Sent(out', "completed", e)
        <5>1. ASSUME NEW e, Sent(out', "completed", e) PROVE Sent(out, "completed", e)
          BY <5>1, <2>a DEF Sent, After
        <5>2. ASSUME NEW e, Sent(out, "completed", e) PROVE Sent(out', "completed", e)
          <6>1. PICK j \in 1..Len(out) : out[j].k = "completed" /\ out[j].c = e
            BY <5>2 DEF Sent
          <6>2. CASE j = 1
            BY <6>1, <6>2, <2>a, <2>c
          <6>3. CASE j # 1
            <7>1. j - 1 \in 1..Len(out') /\ out'[j - 1] = out[j]
              BY <6>3, <2>a
            <7>. QED  BY <6>1, <7>1 DEF Sent
          <6>. QED  BY <6>2, <6>3
        <5>. QED  BY <5>1, <5>2
      <4>4. TodoKinds'
        BY <4>1, <4>2 DEF TodoKinds
      <4>5. OwedInv'
        <5>1. Owed \in 1..Len(call) => call'[Owed].completed = call[Owed].completed /\ call'[Owed].output = call[Owed].output
          BY <2>b
        <5>2. Sent(out, "completed", Owed)' <=> Sent(out', "completed", Owed)
          BY <4>1 DEF Sent
        <5>3. Sent(out', "completed", Owed) => Sent(out, "completed", Owed)
          BY <4>3
        <5>. QED  BY <5>1, <5>2, <5>3, <4>1, <4>2 DEF OwedInv
      <4>6. UnansweredInv'
        <5>1. nat.at \in {"called", "calling"} => Len(call) \in 1..Len(call)
          BY <4>2, <1>t, NonEmpty DEF LastInv
        <5>2. Len(call) \in 1..Len(call) => call'[Len(call)].completed = call[Len(call)].completed
          BY <2>b
        <5>3. Sent(out, "completed", Len(call))' <=> Sent(out', "completed", Len(call))
          BY <4>1 DEF Sent
        <5>4. Sent(out', "completed", Len(call)) => Sent(out, "completed", Len(call))
          BY <4>3
        <5>. QED  BY <5>1, <5>2, <5>3, <5>4, <4>1, <4>2 DEF UnansweredInv
      <4>7. ASSUME NEW d \in 1..Len(call) PROVE OwedOf(d)'
        <5>1. OwedOf(d)
          BY <3>0, <4>1 DEF TodoInv
        <5>2. /\ call'[d].completed = call[d].completed
              /\ call'[d].output = call[d].output
          BY <2>b
        <5>. QED  BY <5>1, <5>2, <4>1, <4>2, <4>3 DEF OwedOf
      <4>. QED  BY <4>1, <4>4, <4>5, <4>6, <4>7 DEF TodoInv
    <3>5. OutInv'
      <4>0. \A j \in 1..Len(out) : FrameInv(j) /\ out[j] \in FrameState
        BY <3>0, <1>t DEF OutInv
      <4>1. ASSUME NEW j \in 1..Len(out') PROVE FrameInv(j)'
        <5>1. After(out, out', j) /\ j \in Nat /\ j >= 1
          BY <2>a, <4>1
        <5>2. /\ FrameInv(j + 1) /\ FrameInv(1)
              /\ ~(out[j + 1].k = out[1].k /\ out[j + 1].c = out[1].c)
          BY <5>1, <4>0, <3>0, <2>a DEF OutInv, After
        <5>e. /\ ReplyFrame(j + 1) /\ CallFrame(j + 1) /\ CompletedFrame(j + 1) /\ FinalFrame(j + 1)
              /\ ReplyFrame(1) /\ CallFrame(1) /\ CompletedFrame(1) /\ FinalFrame(1)
              /\ ~(out[j + 1].k = out[1].k /\ out[j + 1].c = out[1].c)
          BY <5>2 DEF FrameInv
        <5>f. /\ out[j + 1].k = "call" => call[Len(call)].started \/ out[j].k = "started"
              /\ out[j + 1].k = "turncompleted" => relay.finalObserved \/ out[j].k = "final"
              /\ (j = 1 /\ out[j] = out[1]) \/ (j > 1 /\ out'[j - 1] = out[j])
          <6>1. (j + 1) - 1 = j /\ j + 1 > 1 /\ (j = 1 \/ j > 1) /\ (j > 1 => out'[j - 1] = out[j])
            BY <5>1 DEF After
          <6>2. out[(j + 1) - 1] = out[j]
            BY <6>1
          <6>. QED  BY <5>e, <6>1, <6>2 DEF CallFrame, FinalFrame
        <5>g. /\ out[1].k \in {"started"} /\ out'[j] = out[j + 1] /\ (j + 1 = Len(out) => j = Len(out'))
              /\ run'.pend = run.pend /\ run'.done = run.done /\ UNCHANGED <<nat, relay>>
          BY <5>1, <2>a, <1>t, <2>c DEF RunState, RelayState, After
        <5>3. /\ Len(call) \in 1..Len(call) => call'[Len(call)].claimed = call[Len(call)].claimed /\ call'[Len(call)].started = (IF Len(call) = c THEN TRUE ELSE call[Len(call)].started)
              /\ Len(call') = Len(call) /\ Issued' = Issued /\ Issued = 1..Len(call)
          BY <2>b
        <5>4. out[j + 1].c \in 1..Len(call) =>
                call'[out[j + 1].c].completed = call[out[j + 1].c].completed /\ call'[out[j + 1].c].output = call[out[j + 1].c].output
          BY <2>b
        <5>5. nat.at = "calling" => Len(call) \in 1..Len(call)
          <6>1. nat.at = "calling" => call # <<>>
            BY <3>0 DEF AnswerInv, LastInv
          <6>. QED  BY <6>1, <1>t, NonEmpty
        <5>6. c = out[1].c
          BY <2>a, <2>c
        <5>a. ReplyFrame(j)'
          BY <5>e, <5>f, <5>g, <5>3, <5>4, <5>5, <5>6 DEF ReplyFrame, Reply, InTurn
        <5>b. CallFrame(j)'
          BY <5>e, <5>f, <5>g, <5>3, <5>4, <5>5, <5>6 DEF CallFrame
        <5>c. CompletedFrame(j)'
          BY <5>e, <5>f, <5>g, <5>3, <5>4, <5>5, <5>6 DEF CompletedFrame
        <5>d. FinalFrame(j)'
          BY <5>e, <5>f, <5>g, <5>3, <5>4, <5>5, <5>6 DEF FinalFrame
        <5>. QED  BY <5>a, <5>b, <5>c, <5>d DEF FrameInv
      <4>2. ASSUME NEW j \in 1..Len(out'), NEW l \in 1..Len(out'), out'[j].k = out'[l].k, out'[j].c = out'[l].c
            PROVE  j = l
        <5>1. /\ j + 1 \in 1..Len(out) /\ l + 1 \in 1..Len(out)
              /\ out'[j] = out[j + 1] /\ out'[l] = out[l + 1]
          BY <2>a DEF After
        <5>2. j + 1 = l + 1
          BY <5>1, <4>2, <3>0 DEF OutInv
        <5>. QED  BY <5>2
      <4>. QED  BY <4>1, <4>2 DEF OutInv
    <3>6. EndInv'
      BY <3>0, <1>t, <2>c, <2>a, <2>b DEF EndInv
    <3>. QED  BY <3>1, <3>2, <3>3, <3>4, <3>5, <3>6
  <2>6. HonestInv'
    <3>1. nat'.wild = nat.wild
      BY <1>t, <2>c, <2>a, <2>b DEF NativeState
    <3>. QED  BY <3>1, <2>5, <1>1 DEF HonestInv, Honest
  <2>. QED  BY <2>1, <2>2, <2>3, <2>4, <2>6 DEF RelayInv, WholeInv
<1>2. ASSUME run.at \in {"run", "drain"},
            ~run.aborted,
            run.step = 0,
            out # <<>>,
            Head(out).k = "started",
            ~(run.turn /\ Head(out).c \in Issued /\ ~call[Head(out).c].started),
            run' = Fail(run),
            out' = Tail(out),
            UNCHANGED <<relay, post, up, call, nat, fault>>
     PROVE  RelayInv'
  <2>a. /\ Len(out) \in Nat /\ Len(out) >= 1 /\ Head(out) = out[1] /\ 1 \in 1..Len(out) /\ out[1] \in FrameState
        /\ out' \in Seq(FrameState) /\ Len(out') = Len(out) - 1 /\ (Len(out) = 1 => out' = <<>>)
        /\ \A j \in 1..Len(out') : After(out, out', j)
        /\ \A j \in 1..Len(out) : j # 1 => j - 1 \in 1..Len(out') /\ out'[j - 1] = out[j]
    <3>1. out \in Seq(FrameState) /\ out # <<>> /\ out' = Tail(out)
      BY <1>t, <1>2
    <3>2. /\ Len(out) \in Nat /\ Len(out) >= 1 /\ Head(out) = out[1] /\ 1 \in 1..Len(out) /\ out[1] \in FrameState
          /\ Tail(out) \in Seq(FrameState) /\ Len(Tail(out)) = Len(out) - 1 /\ (Len(out) = 1 => Tail(out) = <<>>)
          /\ \A j \in 1..Len(Tail(out)) : After(out, Tail(out), j)
          /\ \A j \in 1..Len(out) : j # 1 => j - 1 \in 1..Len(Tail(out)) /\ Tail(out)[j - 1] = out[j]
      BY <3>1, PipeTail
    <3>. QED  BY <3>1, <3>2
  <2>1. RelayTypeOK'
    BY <1>t, <1>2, <2>a DEF Fail, FrameState, RelayTypeOK, RunState, RelayKinds, RelayFrame
  <2>2. CloseInv'
    BY <1>0, <1>2 DEF CloseInv
  <2>3. StepsInv'
    BY <1>0, <1>t, <1>2, <2>a DEF Fail, StepsInv, CallInv, Issued, RunState
  <2>4. DoneInv'
    BY <1>0, <1>t, <1>2, <2>a DEF Fail, DoneInv, WholeCall, Issued, RunState
  <2>5. ~Honest
    <3> SUFFICES ASSUME Honest PROVE FALSE
      OBVIOUS
    <3>0. RpcInv /\ RequestInv /\ AnswerInv /\ TodoInv /\ OutInv /\ EndInv
      BY <1>0
    <3>1. FrameInv(1)
      BY <3>0, <2>a DEF OutInv
    <3>. QED  BY <3>0, <3>1, <1>t, <1>2, <2>a DEF FrameInv, ReplyFrame, CallFrame, CompletedFrame, FinalFrame, RpcInv, EndInv, AnswerInv, AnswerOf, LastInv, Issued, Reply, InTurn
  <2>6. HonestInv'
    BY <2>5, <1>2 DEF HonestInv, Honest
  <2>. QED  BY <2>1, <2>2, <2>3, <2>4, <2>6 DEF RelayInv, WholeInv
<1>. QED
  BY <1>1, <1>2 DEF ObserveStarted, Take

LEMMA ObserveCompletedKeeps ==
  ASSUME RelayInv, ObserveCompleted
  PROVE  RelayInv'
<1>0. RelayTypeOK /\ StepsInv /\ CloseInv /\ DoneInv
      /\ (Honest => RpcInv /\ RequestInv /\ AnswerInv /\ TodoInv /\ OutInv /\ EndInv)
  BY DEF RelayInv, WholeInv, HonestInv, Honest
<1>t. /\ run \in RunState /\ relay \in RelayState /\ post \in PostState /\ up \in {"none", "asked"}
      /\ call \in Seq(CallState) /\ nat \in NativeState /\ out \in Seq(FrameState) /\ fault \in BOOLEAN
  BY <1>0 DEF RelayTypeOK
<1>1. ASSUME run.at \in {"run", "drain"},
            ~run.aborted,
            run.step = 0,
            out # <<>>,
            Head(out).k = "completed",
            NEW c \in Issued,
            c = Head(out).c,
            ~call[c].completed,
            call' = [call EXCEPT ![c].completed = TRUE],
            out' = Tail(out),
            UNCHANGED <<run, relay, post, up, nat, fault>>
     PROVE  RelayInv'
  <2>a. /\ Len(out) \in Nat /\ Len(out) >= 1 /\ Head(out) = out[1] /\ 1 \in 1..Len(out) /\ out[1] \in FrameState
        /\ out' \in Seq(FrameState) /\ Len(out') = Len(out) - 1 /\ (Len(out) = 1 => out' = <<>>)
        /\ \A j \in 1..Len(out') : After(out, out', j)
        /\ \A j \in 1..Len(out) : j # 1 => j - 1 \in 1..Len(out') /\ out'[j - 1] = out[j]
    <3>1. out \in Seq(FrameState) /\ out # <<>> /\ out' = Tail(out)
      BY <1>t, <1>1
    <3>2. /\ Len(out) \in Nat /\ Len(out) >= 1 /\ Head(out) = out[1] /\ 1 \in 1..Len(out) /\ out[1] \in FrameState
          /\ Tail(out) \in Seq(FrameState) /\ Len(Tail(out)) = Len(out) - 1 /\ (Len(out) = 1 => Tail(out) = <<>>)
          /\ \A j \in 1..Len(Tail(out)) : After(out, Tail(out), j)
          /\ \A j \in 1..Len(out) : j # 1 => j - 1 \in 1..Len(Tail(out)) /\ Tail(out)[j - 1] = out[j]
      BY <3>1, PipeTail
    <3>. QED  BY <3>1, <3>2
  <2>b. /\ call' \in Seq(CallState) /\ Len(call') = Len(call) /\ c \in 1..Len(call)
        /\ Issued = 1..Len(call) /\ Issued' = 1..Len(call) /\ (call' = <<>> <=> call = <<>>)
        /\ \A d \in 1..Len(call) :
             /\ call[d] \in CallState /\ call'[d] \in CallState
             /\ call'[d].claimed = call[d].claimed
             /\ call'[d].ran = call[d].ran
             /\ call'[d].started = call[d].started
             /\ call'[d].completed = IF d = c THEN TRUE ELSE call[d].completed
             /\ call'[d].output = call[d].output
             /\ call'[d].write = call[d].write
             /\ call'[d].observed = call[d].observed
    <3>1. c \in 1..Len(call) /\ call[c] \in CallState
      BY <1>0, <1>t, <1>1, <2>a DEF StepsInv, Issued
    <3>2. [call[c] EXCEPT !.completed = TRUE] \in CallState
      <4>1. call[c].ran \in Nat /\ call[c].ran + 1 \in Nat
        BY <3>1 DEF CallState
      <4>. QED  BY <3>1, <4>1 DEF CallState
    <3>3. call' = [call EXCEPT ![c] = [call[c] EXCEPT !.completed = TRUE]]
      BY <1>1
    <3>4. /\ call' \in Seq(CallState) /\ Len(call') = Len(call)
          /\ \A d \in 1..Len(call) : call'[d] = IF d = c THEN [call[c] EXCEPT !.completed = TRUE] ELSE call[d]
      BY <1>t, <3>1, <3>2, <3>3, CallChanges
    <3>5. ASSUME NEW d \in 1..Len(call)
          PROVE  /\ call'[d].claimed = call[d].claimed
                 /\ call'[d].ran = call[d].ran
                 /\ call'[d].started = call[d].started
                 /\ call'[d].completed = IF d = c THEN TRUE ELSE call[d].completed
                 /\ call'[d].output = call[d].output
                 /\ call'[d].write = call[d].write
                 /\ call'[d].observed = call[d].observed
      <4>1. call'[d] = IF d = c THEN [call[c] EXCEPT !.completed = TRUE] ELSE call[d]
        BY <3>4
      <4>2. CASE d = c
        BY <3>1, <4>1, <4>2 DEF CallState
      <4>3. CASE d # c
        <5>1. call'[d] = call[d]
          BY <4>1, <4>3
        <5>. QED  BY <5>1, <4>3
      <4>. QED  BY <4>2, <4>3
    <3>6. Issued = 1..Len(call) /\ Issued' = 1..Len(call)
      BY <1>t, <3>4 DEF Issued
    <3>7. call' = <<>> <=> call = <<>>
      BY <1>t, <3>4, EmptySeq
    <3>8. \A d \in 1..Len(call) : call[d] \in CallState /\ call'[d] \in CallState
      BY <1>t, <3>4
    <3>. QED  BY <3>1, <3>4, <3>5, <3>6, <3>7, <3>8
  <2>c. run.at \in {"run", "drain"} /\ ~run.aborted /\ run.step = 0 /\ out # <<>> /\ Head(out).k = "completed" /\ c = Head(out).c /\ ~call[c].completed /\ out' = Tail(out) /\ UNCHANGED <<run, relay, post, up, nat, fault>>
    BY <1>1
  <2>1. RelayTypeOK'
    BY <1>t, <2>c, <2>a, <2>b DEF CallState, FrameState, RelayTypeOK, RelayKinds, RelayFrame
  <2>2. CloseInv'
    BY <1>0, <1>1 DEF CloseInv
  <2>3. StepsInv'
    <3>1. ASSUME NEW d \in 1..Len(call) PROVE CallInv(call[d])'
      <4>1. CallInv(call[d])
        BY <1>0, <2>b DEF StepsInv
      <4>2. /\ call[d] \in CallState
            /\ call'[d].claimed = call[d].claimed
            /\ call'[d].ran = call[d].ran
            /\ call'[d].started = call[d].started
            /\ call'[d].completed = (IF d = c THEN TRUE ELSE call[d].completed)
            /\ call'[d].output = call[d].output
            /\ call'[d].write = call[d].write
            /\ call'[d].observed = call[d].observed
        BY <2>b
      <4>3. CallInv(call[c]) /\ (run.step # 0 => call[run.step].claimed)
        BY <1>0, <2>b DEF StepsInv
      <4>. QED  BY <4>1, <4>2, <4>3, <2>c DEF CallInv, CallState
    <3>2. run.step # 0 => run.step \in 1..Len(call) /\ call'[run.step].claimed
      BY <1>0, <2>b DEF StepsInv
    <3>. QED  BY <3>1, <3>2, <1>0, <2>b, <2>c DEF StepsInv
  <2>4. DoneInv'
    BY <1>0, <1>t, <2>c, <2>a, <2>b DEF DoneInv, WholeCall, CallState
  <2>5. ASSUME Honest PROVE RpcInv' /\ RequestInv' /\ AnswerInv' /\ TodoInv' /\ OutInv' /\ EndInv'
    <3>0. RpcInv /\ RequestInv /\ AnswerInv /\ TodoInv /\ OutInv /\ EndInv
      BY <1>0, <2>5
    <3>1. RpcInv'
      BY <3>0, <1>1 DEF RpcInv, InTurn
    <3>2. RequestInv'
      BY <3>0, <1>t, <2>c, <2>a, <2>b DEF RequestInv, InTurn, CallState
    <3>3. AnswerInv'
      <4>1. /\ nat' = nat /\ relay' = relay /\ Len(call') = Len(call) /\ Issued' = Issued /\ Issued = 1..Len(call)
            /\ (call' = <<>> <=> call = <<>>) /\ call' \in Seq(CallState)
        BY <2>b, <2>c
      <4>2. LastInv /\ CallFrame(1) /\ CompletedFrame(1) /\ ReplyFrame(1)
        BY <3>0, <1>0, <2>b, <2>c, <2>a DEF AnswerInv, StepsInv, OutInv, FrameInv
      <4>3. ASSUME NEW d \in 1..Len(call) PROVE AnswerOf(d)'
        <5>1. AnswerOf(d)
          BY <3>0, <4>1 DEF AnswerInv
        <5>2. /\ call[d] \in CallState
              /\ call'[d].claimed = call[d].claimed
              /\ call'[d].started = call[d].started
              /\ call'[d].output = call[d].output
              /\ call'[d].write = call[d].write
              /\ call'[d].observed = call[d].observed
          BY <2>b
        <5>. QED  BY <5>1, <5>2, <4>1, <4>2, <2>a, <2>c DEF AnswerOf, LastInv, CallFrame
      <4>4. LastInv'
        <5>1. Len(call) \in 1..Len(call) => call'[Len(call)].claimed = call[Len(call)].claimed /\ call'[Len(call)].started = call[Len(call)].started /\ call'[Len(call)].write = call[Len(call)].write
          BY <2>b
        <5>2. nat.at \in {"called", "calling"} => Len(call) \in 1..Len(call)
          BY <4>2, <1>t, NonEmpty DEF LastInv
        <5>. QED  BY <5>1, <5>2, <4>1, <4>2, <3>0, <1>t, <2>a, <2>c DEF LastInv, RequestInv, EndInv, InTurn, CallFrame
      <4>. QED  BY <4>1, <4>3, <4>4 DEF AnswerInv
    <3>4. TodoInv'
      <4>1. /\ nat' = nat /\ Owed' = Owed /\ Len(call') = Len(call) /\ Issued' = Issued /\ Issued = 1..Len(call)
            /\ run'.pend = run.pend
        BY <1>t, <2>b, <2>c DEF Owed, RunState
      <4>2. TodoKinds /\ OwedInv /\ UnansweredInv /\ LastInv /\ Sent(out, "completed", c)
        <5>1. TodoKinds /\ OwedInv /\ UnansweredInv /\ LastInv
          BY <3>0 DEF TodoInv, AnswerInv
        <5>2. Sent(out, "completed", c)
          BY <2>a, <2>c DEF Sent
        <5>. QED  BY <5>1, <5>2
      <4>3. \A e : /\ Sent(out', "completed", e) => Sent(out, "completed", e)
                   /\ Sent(out, "completed", e) => Sent(out', "completed", e) \/ e = c
        <5>1. ASSUME NEW e, Sent(out', "completed", e) PROVE Sent(out, "completed", e)
          BY <5>1, <2>a DEF Sent, After
        <5>2. ASSUME NEW e, Sent(out, "completed", e) PROVE Sent(out', "completed", e) \/ e = c
          <6>1. PICK j \in 1..Len(out) : out[j].k = "completed" /\ out[j].c = e
            BY <5>2 DEF Sent
          <6>2. CASE j = 1
            BY <6>1, <6>2, <2>a, <2>c
          <6>3. CASE j # 1
            <7>1. j - 1 \in 1..Len(out') /\ out'[j - 1] = out[j]
              BY <6>3, <2>a
            <7>. QED  BY <6>1, <7>1 DEF Sent
          <6>. QED  BY <6>2, <6>3
        <5>. QED  BY <5>1, <5>2
      <4>4. TodoKinds'
        BY <4>1, <4>2 DEF TodoKinds
      <4>5. OwedInv'
        <5>1. Owed \in 1..Len(call) => call'[Owed].completed = (IF Owed = c THEN TRUE ELSE call[Owed].completed) /\ call'[Owed].output = call[Owed].output
          BY <2>b
        <5>2. Sent(out, "completed", Owed)' <=> Sent(out', "completed", Owed)
          BY <4>1 DEF Sent
        <5>3. Sent(out', "completed", Owed) => Sent(out, "completed", Owed)
          BY <4>3
        <5>. QED  BY <5>1, <5>2, <5>3, <4>1, <4>2, <2>c DEF OwedInv
      <4>6. UnansweredInv'
        <5>1. nat.at \in {"called", "calling"} => Len(call) \in 1..Len(call)
          BY <4>2, <1>t, NonEmpty DEF LastInv
        <5>2. Len(call) \in 1..Len(call) => call'[Len(call)].completed = (IF Len(call) = c THEN TRUE ELSE call[Len(call)].completed)
          BY <2>b
        <5>3. Sent(out, "completed", Len(call))' <=> Sent(out', "completed", Len(call))
          BY <4>1 DEF Sent
        <5>4. Sent(out', "completed", Len(call)) => Sent(out, "completed", Len(call))
          BY <4>3
        <5>. QED  BY <5>1, <5>2, <5>3, <5>4, <4>1, <4>2 DEF UnansweredInv
      <4>7. ASSUME NEW d \in 1..Len(call) PROVE OwedOf(d)'
        <5>1. OwedOf(d)
          BY <3>0, <4>1 DEF TodoInv
        <5>2. /\ call'[d].completed = (IF d = c THEN TRUE ELSE call[d].completed)
              /\ call'[d].output = call[d].output
          BY <2>b
        <5>. QED  BY <5>1, <5>2, <4>1, <4>2, <4>3 DEF OwedOf
      <4>. QED  BY <4>1, <4>4, <4>5, <4>6, <4>7 DEF TodoInv
    <3>5. OutInv'
      <4>0. \A j \in 1..Len(out) : FrameInv(j) /\ out[j] \in FrameState
        BY <3>0, <1>t DEF OutInv
      <4>1. ASSUME NEW j \in 1..Len(out') PROVE FrameInv(j)'
        <5>1. After(out, out', j) /\ j \in Nat /\ j >= 1
          BY <2>a, <4>1
        <5>2. /\ FrameInv(j + 1) /\ FrameInv(1)
              /\ ~(out[j + 1].k = out[1].k /\ out[j + 1].c = out[1].c)
          BY <5>1, <4>0, <3>0, <2>a DEF OutInv, After
        <5>e. /\ ReplyFrame(j + 1) /\ CallFrame(j + 1) /\ CompletedFrame(j + 1) /\ FinalFrame(j + 1)
              /\ ReplyFrame(1) /\ CallFrame(1) /\ CompletedFrame(1) /\ FinalFrame(1)
              /\ ~(out[j + 1].k = out[1].k /\ out[j + 1].c = out[1].c)
          BY <5>2 DEF FrameInv
        <5>f. /\ out[j + 1].k = "call" => call[Len(call)].started \/ out[j].k = "started"
              /\ out[j + 1].k = "turncompleted" => relay.finalObserved \/ out[j].k = "final"
              /\ (j = 1 /\ out[j] = out[1]) \/ (j > 1 /\ out'[j - 1] = out[j])
          <6>1. (j + 1) - 1 = j /\ j + 1 > 1 /\ (j = 1 \/ j > 1) /\ (j > 1 => out'[j - 1] = out[j])
            BY <5>1 DEF After
          <6>2. out[(j + 1) - 1] = out[j]
            BY <6>1
          <6>. QED  BY <5>e, <6>1, <6>2 DEF CallFrame, FinalFrame
        <5>g. /\ out[1].k \in {"completed"} /\ out'[j] = out[j + 1] /\ (j + 1 = Len(out) => j = Len(out'))
              /\ run'.pend = run.pend /\ run'.done = run.done /\ UNCHANGED <<nat, relay>>
          BY <5>1, <2>a, <1>t, <2>c DEF RunState, RelayState, After
        <5>3. /\ Len(call) \in 1..Len(call) => call'[Len(call)].claimed = call[Len(call)].claimed /\ call'[Len(call)].started = call[Len(call)].started
              /\ Len(call') = Len(call) /\ Issued' = Issued /\ Issued = 1..Len(call)
          BY <2>b
        <5>4. out[j + 1].c \in 1..Len(call) =>
                call'[out[j + 1].c].completed = (IF out[j + 1].c = c THEN TRUE ELSE call[out[j + 1].c].completed) /\ call'[out[j + 1].c].output = call[out[j + 1].c].output
          BY <2>b
        <5>5. nat.at = "calling" => Len(call) \in 1..Len(call)
          <6>1. nat.at = "calling" => call # <<>>
            BY <3>0 DEF AnswerInv, LastInv
          <6>. QED  BY <6>1, <1>t, NonEmpty
        <5>6. c = out[1].c
          BY <2>a, <2>c
        <5>a. ReplyFrame(j)'
          BY <5>e, <5>f, <5>g, <5>3, <5>4, <5>5, <5>6 DEF ReplyFrame, Reply, InTurn
        <5>b. CallFrame(j)'
          BY <5>e, <5>f, <5>g, <5>3, <5>4, <5>5, <5>6 DEF CallFrame
        <5>c. CompletedFrame(j)'
          BY <5>e, <5>f, <5>g, <5>3, <5>4, <5>5, <5>6 DEF CompletedFrame
        <5>d. FinalFrame(j)'
          BY <5>e, <5>f, <5>g, <5>3, <5>4, <5>5, <5>6 DEF FinalFrame
        <5>. QED  BY <5>a, <5>b, <5>c, <5>d DEF FrameInv
      <4>2. ASSUME NEW j \in 1..Len(out'), NEW l \in 1..Len(out'), out'[j].k = out'[l].k, out'[j].c = out'[l].c
            PROVE  j = l
        <5>1. /\ j + 1 \in 1..Len(out) /\ l + 1 \in 1..Len(out)
              /\ out'[j] = out[j + 1] /\ out'[l] = out[l + 1]
          BY <2>a DEF After
        <5>2. j + 1 = l + 1
          BY <5>1, <4>2, <3>0 DEF OutInv
        <5>. QED  BY <5>2
      <4>. QED  BY <4>1, <4>2 DEF OutInv
    <3>6. EndInv'
      BY <3>0, <1>t, <2>c, <2>a, <2>b DEF EndInv
    <3>. QED  BY <3>1, <3>2, <3>3, <3>4, <3>5, <3>6
  <2>6. HonestInv'
    <3>1. nat'.wild = nat.wild
      BY <1>t, <2>c, <2>a, <2>b DEF NativeState
    <3>. QED  BY <3>1, <2>5, <1>1 DEF HonestInv, Honest
  <2>. QED  BY <2>1, <2>2, <2>3, <2>4, <2>6 DEF RelayInv, WholeInv
<1>2. ASSUME run.at \in {"run", "drain"},
            ~run.aborted,
            run.step = 0,
            out # <<>>,
            Head(out).k = "completed",
            ~(run.turn /\ Head(out).c \in Issued /\ ObserveCompletedOK(call[Head(out).c])),
            run' = Fail(run),
            out' = Tail(out),
            UNCHANGED <<relay, post, up, call, nat, fault>>
     PROVE  RelayInv'
  <2>a. /\ Len(out) \in Nat /\ Len(out) >= 1 /\ Head(out) = out[1] /\ 1 \in 1..Len(out) /\ out[1] \in FrameState
        /\ out' \in Seq(FrameState) /\ Len(out') = Len(out) - 1 /\ (Len(out) = 1 => out' = <<>>)
        /\ \A j \in 1..Len(out') : After(out, out', j)
        /\ \A j \in 1..Len(out) : j # 1 => j - 1 \in 1..Len(out') /\ out'[j - 1] = out[j]
    <3>1. out \in Seq(FrameState) /\ out # <<>> /\ out' = Tail(out)
      BY <1>t, <1>2
    <3>2. /\ Len(out) \in Nat /\ Len(out) >= 1 /\ Head(out) = out[1] /\ 1 \in 1..Len(out) /\ out[1] \in FrameState
          /\ Tail(out) \in Seq(FrameState) /\ Len(Tail(out)) = Len(out) - 1 /\ (Len(out) = 1 => Tail(out) = <<>>)
          /\ \A j \in 1..Len(Tail(out)) : After(out, Tail(out), j)
          /\ \A j \in 1..Len(out) : j # 1 => j - 1 \in 1..Len(Tail(out)) /\ Tail(out)[j - 1] = out[j]
      BY <3>1, PipeTail
    <3>. QED  BY <3>1, <3>2
  <2>1. RelayTypeOK'
    BY <1>t, <1>2, <2>a DEF Fail, FrameState, RelayTypeOK, RunState, RelayKinds, RelayFrame
  <2>2. CloseInv'
    BY <1>0, <1>2 DEF CloseInv
  <2>3. StepsInv'
    BY <1>0, <1>t, <1>2, <2>a DEF Fail, StepsInv, CallInv, Issued, RunState
  <2>4. DoneInv'
    BY <1>0, <1>t, <1>2, <2>a DEF Fail, DoneInv, WholeCall, Issued, RunState
  <2>5. ~Honest
    <3> SUFFICES ASSUME Honest PROVE FALSE
      OBVIOUS
    <3>0. RpcInv /\ RequestInv /\ AnswerInv /\ TodoInv /\ OutInv /\ EndInv
      BY <1>0
    <3>1. CompletedFrame(1) /\ out[1].k = "completed" /\ out[1].c = Head(out).c
      BY <3>0, <1>2, <2>a DEF OutInv, FrameInv
    <3>2. LET x == call[out[1].c]
          IN  out[1].c \in Issued /\ ~x.completed /\ x.output /\ CallInv(x) /\ AnswerOf(out[1].c)
      BY <3>0, <3>1, <1>0 DEF CompletedFrame, StepsInv, AnswerInv
    <3>3. call # <<>>
      BY <3>2 DEF Issued
    <3>4. ObserveCompletedOK(call[out[1].c])
      BY <3>2 DEF CallInv, AnswerOf, ObserveCompletedOK
    <3>5. run.turn
      BY <3>0, <3>3 DEF RpcInv
    <3>. QED  BY <3>1, <3>2, <3>4, <3>5, <1>2
  <2>6. HonestInv'
    BY <2>5, <1>2 DEF HonestInv, Honest
  <2>. QED  BY <2>1, <2>2, <2>3, <2>4, <2>6 DEF RelayInv, WholeInv
<1>. QED
  BY <1>1, <1>2 DEF ObserveCompleted, Take, ObserveCompletedOK

LEMMA ObserveFinalKeeps ==
  ASSUME RelayInv, ObserveFinal
  PROVE  RelayInv'
<1>0. RelayTypeOK /\ StepsInv /\ CloseInv /\ DoneInv
      /\ (Honest => RpcInv /\ RequestInv /\ AnswerInv /\ TodoInv /\ OutInv /\ EndInv)
  BY DEF RelayInv, WholeInv, HonestInv, Honest
<1>t. /\ run \in RunState /\ relay \in RelayState /\ post \in PostState /\ up \in {"none", "asked"}
      /\ call \in Seq(CallState) /\ nat \in NativeState /\ out \in Seq(FrameState) /\ fault \in BOOLEAN
  BY <1>0 DEF RelayTypeOK
<1>1. ASSUME run.at \in {"run", "drain"},
            ~run.aborted,
            run.step = 0,
            out # <<>>,
            Head(out).k = "final",
            run.turn,
            relay.final,
            ~relay.finalObserved,
            relay' = [relay EXCEPT !.finalObserved = TRUE],
            out' = Tail(out),
            UNCHANGED <<run, post, up, call, nat, fault>>
     PROVE  RelayInv'
  <2>a. /\ Len(out) \in Nat /\ Len(out) >= 1 /\ Head(out) = out[1] /\ 1 \in 1..Len(out) /\ out[1] \in FrameState
        /\ out' \in Seq(FrameState) /\ Len(out') = Len(out) - 1 /\ (Len(out) = 1 => out' = <<>>)
        /\ \A j \in 1..Len(out') : After(out, out', j)
        /\ \A j \in 1..Len(out) : j # 1 => j - 1 \in 1..Len(out') /\ out'[j - 1] = out[j]
    <3>1. out \in Seq(FrameState) /\ out # <<>> /\ out' = Tail(out)
      BY <1>t, <1>1
    <3>2. /\ Len(out) \in Nat /\ Len(out) >= 1 /\ Head(out) = out[1] /\ 1 \in 1..Len(out) /\ out[1] \in FrameState
          /\ Tail(out) \in Seq(FrameState) /\ Len(Tail(out)) = Len(out) - 1 /\ (Len(out) = 1 => Tail(out) = <<>>)
          /\ \A j \in 1..Len(Tail(out)) : After(out, Tail(out), j)
          /\ \A j \in 1..Len(out) : j # 1 => j - 1 \in 1..Len(Tail(out)) /\ Tail(out)[j - 1] = out[j]
      BY <3>1, PipeTail
    <3>. QED  BY <3>1, <3>2
  <2>1. RelayTypeOK'
    BY <1>t, <1>1, <2>a DEF FrameState, RelayState, RelayTypeOK, RelayKinds, RelayFrame
  <2>2. StepsInv'
    BY <1>0, <1>1 DEF StepsInv, CallInv, Issued
  <2>3. CloseInv'
    BY <1>0, <1>t, <1>1, <2>a DEF CloseInv, RelayState
  <2>4. DoneInv'
    BY <1>0, <1>t, <1>1, <2>a DEF DoneInv, WholeCall, Issued, RelayState
  <2>5. ASSUME Honest PROVE RpcInv' /\ RequestInv' /\ AnswerInv' /\ TodoInv' /\ OutInv' /\ EndInv'
    <3>0. RpcInv /\ RequestInv /\ AnswerInv /\ TodoInv /\ OutInv /\ EndInv
      BY <1>0, <2>5
    <3>1. RpcInv'
      BY <3>0, <1>1 DEF RpcInv, InTurn
    <3>2. RequestInv'
      BY <3>0, <1>t, <1>1, <2>a DEF RequestInv, InTurn, RelayState
    <3>3. AnswerInv'
      BY <3>0, <1>t, <1>1, <2>a DEF AnswerInv, AnswerOf, LastInv, Issued, RelayState
    <3>4. TodoInv'
      <4>1. \A q, e : Sent(out', q, e) => Sent(out, q, e)
        BY <2>a DEF Sent, After
      <4>2. \A q, e : Sent(out, q, e) => Sent(out', q, e) \/ (out[1].k = q /\ out[1].c = e)
        <5> SUFFICES ASSUME NEW q, NEW e, NEW j \in 1..Len(out), out[j].k = q, out[j].c = e, j # 1
                     PROVE  Sent(out', q, e)
          BY DEF Sent
        <5>1. j - 1 \in 1..Len(out') /\ out'[j - 1] = out[j]
          BY <2>a
        <5>. QED  BY <5>1 DEF Sent
      <4>3. FrameInv(1)
        BY <3>0, <2>a DEF OutInv
      <4>. QED  BY <4>1, <4>2, <4>3, <3>0, <1>t, <1>1, <2>a DEF TodoInv, TodoKinds, OwedInv, UnansweredInv, OwedOf, Owed, Issued, InTurn, Reply, FrameInv, ReplyFrame, CallFrame, CompletedFrame, FinalFrame, RelayState
    <3>5. OutInv'
      <4>0. \A j \in 1..Len(out) : FrameInv(j) /\ out[j] \in FrameState
        BY <3>0, <1>t DEF OutInv
      <4>1. ASSUME NEW j \in 1..Len(out') PROVE FrameInv(j)'
        <5>1. After(out, out', j) /\ j \in Nat /\ j >= 1
          BY <2>a, <4>1
        <5>2. /\ FrameInv(j + 1) /\ FrameInv(1)
              /\ ~(out[j + 1].k = out[1].k /\ out[j + 1].c = out[1].c)
          BY <5>1, <4>0, <3>0, <2>a DEF OutInv, After
        <5>e. /\ ReplyFrame(j + 1) /\ CallFrame(j + 1) /\ CompletedFrame(j + 1) /\ FinalFrame(j + 1)
              /\ ReplyFrame(1) /\ CallFrame(1) /\ CompletedFrame(1) /\ FinalFrame(1)
              /\ ~(out[j + 1].k = out[1].k /\ out[j + 1].c = out[1].c)
          BY <5>2 DEF FrameInv
        <5>f. /\ out[j + 1].k = "call" => call[Len(call)].started \/ out[j].k = "started"
              /\ out[j + 1].k = "turncompleted" => relay.finalObserved \/ out[j].k = "final"
              /\ (j = 1 /\ out[j] = out[1]) \/ (j > 1 /\ out'[j - 1] = out[j])
          <6>1. (j + 1) - 1 = j /\ j + 1 > 1 /\ (j = 1 \/ j > 1) /\ (j > 1 => out'[j - 1] = out[j])
            BY <5>1 DEF After
          <6>2. out[(j + 1) - 1] = out[j]
            BY <6>1
          <6>. QED  BY <5>e, <6>1, <6>2 DEF CallFrame, FinalFrame
        <5>g. /\ out[1].k \in {"final"} /\ out'[j] = out[j + 1] /\ (j + 1 = Len(out) => j = Len(out'))
              /\ run'.pend = run.pend /\ run'.done = run.done /\ UNCHANGED <<nat, call>>
              /\ relay'.finalObserved
              /\ Issued' = Issued
          BY <5>1, <2>a, <1>t, <1>1 DEF RunState, RelayState, After, Issued
        <5>a. ReplyFrame(j)'
          BY <5>e, <5>f, <5>g DEF ReplyFrame, Reply, InTurn
        <5>b. CallFrame(j)'
          BY <5>e, <5>f, <5>g DEF CallFrame
        <5>c. CompletedFrame(j)'
          BY <5>e, <5>f, <5>g DEF CompletedFrame
        <5>d. FinalFrame(j)'
          <6>1. out[1].c = 0 /\ (out[j + 1].k = "final" => out[j + 1].c = 0)
            BY <5>e, <5>g DEF ReplyFrame
          <6>2. out'[j].k # "final"
            BY <6>1, <5>e, <5>g
          <6>3. out'[j].k = "turncompleted" => nat'.at = "over" /\ j = Len(out') /\ ~run'.done
            BY <5>e, <5>g DEF FinalFrame
          <6>. QED  BY <6>2, <6>3, <5>g DEF FinalFrame
        <5>. QED  BY <5>a, <5>b, <5>c, <5>d DEF FrameInv
      <4>2. ASSUME NEW j \in 1..Len(out'), NEW l \in 1..Len(out'), out'[j].k = out'[l].k, out'[j].c = out'[l].c
            PROVE  j = l
        <5>1. /\ j + 1 \in 1..Len(out) /\ l + 1 \in 1..Len(out)
              /\ out'[j] = out[j + 1] /\ out'[l] = out[l + 1]
          BY <2>a DEF After
        <5>2. j + 1 = l + 1
          BY <5>1, <4>2, <3>0 DEF OutInv
        <5>. QED  BY <5>2
      <4>. QED  BY <4>1, <4>2 DEF OutInv
    <3>6. EndInv'
      <4>1. FinalFrame(1)
        BY <3>0, <2>a DEF OutInv, FrameInv
      <4>2. nat.at = "over" /\ ~run.done
        BY <4>1, <3>0, <1>1, <2>a DEF FinalFrame, EndInv
      <4>. QED  BY <4>2, <3>0, <1>t, <1>1 DEF EndInv, RelayState
    <3>. QED  BY <3>1, <3>2, <3>3, <3>4, <3>5, <3>6
  <2>6. HonestInv'
    <3>1. nat'.wild = nat.wild
      BY <1>t, <1>1, <2>a DEF NativeState
    <3>. QED  BY <3>1, <2>5, <1>1 DEF HonestInv, Honest
  <2>. QED  BY <2>1, <2>2, <2>3, <2>4, <2>6 DEF RelayInv, WholeInv
<1>2. ASSUME run.at \in {"run", "drain"},
            ~run.aborted,
            run.step = 0,
            out # <<>>,
            Head(out).k = "final",
            ~(run.turn /\ relay.final /\ ~relay.finalObserved),
            run' = Fail(run),
            out' = Tail(out),
            UNCHANGED <<relay, post, up, call, nat, fault>>
     PROVE  RelayInv'
  <2>a. /\ Len(out) \in Nat /\ Len(out) >= 1 /\ Head(out) = out[1] /\ 1 \in 1..Len(out) /\ out[1] \in FrameState
        /\ out' \in Seq(FrameState) /\ Len(out') = Len(out) - 1 /\ (Len(out) = 1 => out' = <<>>)
        /\ \A j \in 1..Len(out') : After(out, out', j)
        /\ \A j \in 1..Len(out) : j # 1 => j - 1 \in 1..Len(out') /\ out'[j - 1] = out[j]
    <3>1. out \in Seq(FrameState) /\ out # <<>> /\ out' = Tail(out)
      BY <1>t, <1>2
    <3>2. /\ Len(out) \in Nat /\ Len(out) >= 1 /\ Head(out) = out[1] /\ 1 \in 1..Len(out) /\ out[1] \in FrameState
          /\ Tail(out) \in Seq(FrameState) /\ Len(Tail(out)) = Len(out) - 1 /\ (Len(out) = 1 => Tail(out) = <<>>)
          /\ \A j \in 1..Len(Tail(out)) : After(out, Tail(out), j)
          /\ \A j \in 1..Len(out) : j # 1 => j - 1 \in 1..Len(Tail(out)) /\ Tail(out)[j - 1] = out[j]
      BY <3>1, PipeTail
    <3>. QED  BY <3>1, <3>2
  <2>1. RelayTypeOK'
    BY <1>t, <1>2, <2>a DEF Fail, FrameState, RelayTypeOK, RunState, RelayKinds, RelayFrame
  <2>2. CloseInv'
    BY <1>0, <1>2 DEF CloseInv
  <2>3. StepsInv'
    BY <1>0, <1>t, <1>2, <2>a DEF Fail, StepsInv, CallInv, Issued, RunState
  <2>4. DoneInv'
    BY <1>0, <1>t, <1>2, <2>a DEF Fail, DoneInv, WholeCall, Issued, RunState
  <2>5. ~Honest
    <3> SUFFICES ASSUME Honest PROVE FALSE
      OBVIOUS
    <3>0. RpcInv /\ RequestInv /\ AnswerInv /\ TodoInv /\ OutInv /\ EndInv
      BY <1>0
    <3>1. FinalFrame(1)
      BY <3>0, <2>a DEF OutInv, FrameInv
    <3>. QED  BY <3>0, <3>1, <1>2, <2>a DEF FinalFrame, RpcInv, RequestInv
  <2>6. HonestInv'
    BY <2>5, <1>2 DEF HonestInv, Honest
  <2>. QED  BY <2>1, <2>2, <2>3, <2>4, <2>6 DEF RelayInv, WholeInv
<1>. QED
  BY <1>1, <1>2 DEF ObserveFinal, Take, RelayFail

LEMMA TurnCompletedKeeps ==
  ASSUME RelayInv, TurnCompleted
  PROVE  RelayInv'
<1>0. RelayTypeOK /\ StepsInv /\ CloseInv /\ DoneInv
      /\ (Honest => RpcInv /\ RequestInv /\ AnswerInv /\ TodoInv /\ OutInv /\ EndInv)
  BY DEF RelayInv, WholeInv, HonestInv, Honest
<1>t. /\ run \in RunState /\ relay \in RelayState /\ post \in PostState /\ up \in {"none", "asked"}
      /\ call \in Seq(CallState) /\ nat \in NativeState /\ out \in Seq(FrameState) /\ fault \in BOOLEAN
  BY <1>0 DEF RelayTypeOK
<1>1. ASSUME run.at \in {"run", "drain"},
            ~run.aborted,
            run.step = 0,
            out # <<>>,
            Head(out).k = "turncompleted",
            run.turn,
            ~run.done,
            ResultOK,
            run' = [run EXCEPT !.done = TRUE],
            out' = Tail(out),
            UNCHANGED <<relay, post, up, call, nat, fault>>
     PROVE  RelayInv'
  <2>a. /\ Len(out) \in Nat /\ Len(out) >= 1 /\ Head(out) = out[1] /\ 1 \in 1..Len(out) /\ out[1] \in FrameState
        /\ out' \in Seq(FrameState) /\ Len(out') = Len(out) - 1 /\ (Len(out) = 1 => out' = <<>>)
        /\ \A j \in 1..Len(out') : After(out, out', j)
        /\ \A j \in 1..Len(out) : j # 1 => j - 1 \in 1..Len(out') /\ out'[j - 1] = out[j]
    <3>1. out \in Seq(FrameState) /\ out # <<>> /\ out' = Tail(out)
      BY <1>t, <1>1
    <3>2. /\ Len(out) \in Nat /\ Len(out) >= 1 /\ Head(out) = out[1] /\ 1 \in 1..Len(out) /\ out[1] \in FrameState
          /\ Tail(out) \in Seq(FrameState) /\ Len(Tail(out)) = Len(out) - 1 /\ (Len(out) = 1 => Tail(out) = <<>>)
          /\ \A j \in 1..Len(Tail(out)) : After(out, Tail(out), j)
          /\ \A j \in 1..Len(out) : j # 1 => j - 1 \in 1..Len(Tail(out)) /\ Tail(out)[j - 1] = out[j]
      BY <3>1, PipeTail
    <3>. QED  BY <3>1, <3>2
  <2>1. RelayTypeOK'
    BY <1>t, <1>1, <2>a DEF FrameState, RelayTypeOK, RunState, RelayKinds, RelayFrame
  <2>2. CloseInv'
    BY <1>0, <1>1 DEF CloseInv
  <2>3. StepsInv'
    BY <1>0, <1>t, <1>1, <2>a DEF StepsInv, CallInv, Issued, RunState
  <2>4. DoneInv'
    <3>1. relay.finalObserved /\ \A d \in Issued : WholeCall(call[d])
      BY <1>1 DEF ResultOK, WholeCall
    <3>2. run'.at = run.at /\ run'.done /\ run'.aborted = run.aborted /\ run'.failed = run.failed
          /\ run'.handlers = run.handlers /\ run'.step = run.step /\ run'.process = run.process
      BY <1>t, <1>1 DEF RunState
    <3>3. relay' = relay /\ call' = call /\ Issued' = Issued
      BY <1>1 DEF Issued
    <3>. QED  BY <1>0, <3>1, <3>2, <3>3 DEF DoneInv
  <2>5. ASSUME Honest PROVE RpcInv' /\ RequestInv' /\ AnswerInv' /\ TodoInv' /\ OutInv' /\ EndInv'
    <3>0. RpcInv /\ RequestInv /\ AnswerInv /\ TodoInv /\ OutInv /\ EndInv
      BY <1>0, <2>5
    <3>1. RequestInv'
      BY <3>0, <1>1 DEF RequestInv, InTurn
    <3>2. RpcInv'
      BY <3>0, <1>t, <1>1, <2>a DEF RpcInv, InTurn, RunState
    <3>3. AnswerInv'
      BY <3>0, <1>t, <1>1, <2>a DEF AnswerInv, AnswerOf, LastInv, Issued, RunState
    <3>4. TodoInv'
      <4>1. \A q, e : Sent(out', q, e) => Sent(out, q, e)
        BY <2>a DEF Sent, After
      <4>2. \A q, e : Sent(out, q, e) => Sent(out', q, e) \/ (out[1].k = q /\ out[1].c = e)
        <5> SUFFICES ASSUME NEW q, NEW e, NEW j \in 1..Len(out), out[j].k = q, out[j].c = e, j # 1
                     PROVE  Sent(out', q, e)
          BY DEF Sent
        <5>1. j - 1 \in 1..Len(out') /\ out'[j - 1] = out[j]
          BY <2>a
        <5>. QED  BY <5>1 DEF Sent
      <4>3. FrameInv(1)
        BY <3>0, <2>a DEF OutInv
      <4>. QED  BY <4>1, <4>2, <4>3, <3>0, <1>t, <1>1, <2>a DEF TodoInv, TodoKinds, OwedInv, UnansweredInv, OwedOf, Owed, Issued, InTurn, Reply, FrameInv, ReplyFrame, CallFrame, CompletedFrame, FinalFrame, RunState
    <3>5. OutInv'
      <4>1. FinalFrame(1)
        BY <3>0, <2>a DEF OutInv, FrameInv
      <4>2. out' = <<>>
        BY <4>1, <1>1, <2>a DEF FinalFrame
      <4>3. Len(out') = 0 /\ 1..0 = {}
        BY <4>2
      <4>. QED  BY <4>3 DEF OutInv
    <3>6. EndInv'
      <4>1. FinalFrame(1)
        BY <3>0, <2>a DEF OutInv, FrameInv
      <4>2. nat.at = "over" /\ Len(out) = 1
        BY <4>1, <1>1, <2>a DEF FinalFrame
      <4>3. out' = <<>>
        BY <4>2, <2>a
      <4>. QED  BY <4>2, <4>3, <3>0, <1>t, <1>1 DEF EndInv, RunState
    <3>. QED  BY <3>1, <3>2, <3>3, <3>4, <3>5, <3>6
  <2>6. HonestInv'
    <3>1. nat'.wild = nat.wild
      BY <1>t, <1>1, <2>a DEF NativeState
    <3>. QED  BY <3>1, <2>5, <1>1 DEF HonestInv, Honest
  <2>. QED  BY <2>1, <2>2, <2>3, <2>4, <2>6 DEF RelayInv, WholeInv
<1>2. ASSUME run.at \in {"run", "drain"},
            ~run.aborted,
            run.step = 0,
            out # <<>>,
            Head(out).k = "turncompleted",
            ~(run.turn /\ ~run.done /\ ResultOK),
            run' = Fail(run),
            out' = Tail(out),
            UNCHANGED <<relay, post, up, call, nat, fault>>
     PROVE  RelayInv'
  <2>a. /\ Len(out) \in Nat /\ Len(out) >= 1 /\ Head(out) = out[1] /\ 1 \in 1..Len(out) /\ out[1] \in FrameState
        /\ out' \in Seq(FrameState) /\ Len(out') = Len(out) - 1 /\ (Len(out) = 1 => out' = <<>>)
        /\ \A j \in 1..Len(out') : After(out, out', j)
        /\ \A j \in 1..Len(out) : j # 1 => j - 1 \in 1..Len(out') /\ out'[j - 1] = out[j]
    <3>1. out \in Seq(FrameState) /\ out # <<>> /\ out' = Tail(out)
      BY <1>t, <1>2
    <3>2. /\ Len(out) \in Nat /\ Len(out) >= 1 /\ Head(out) = out[1] /\ 1 \in 1..Len(out) /\ out[1] \in FrameState
          /\ Tail(out) \in Seq(FrameState) /\ Len(Tail(out)) = Len(out) - 1 /\ (Len(out) = 1 => Tail(out) = <<>>)
          /\ \A j \in 1..Len(Tail(out)) : After(out, Tail(out), j)
          /\ \A j \in 1..Len(out) : j # 1 => j - 1 \in 1..Len(Tail(out)) /\ Tail(out)[j - 1] = out[j]
      BY <3>1, PipeTail
    <3>. QED  BY <3>1, <3>2
  <2>1. RelayTypeOK'
    BY <1>t, <1>2, <2>a DEF Fail, FrameState, RelayTypeOK, RunState, RelayKinds, RelayFrame
  <2>2. CloseInv'
    BY <1>0, <1>2 DEF CloseInv
  <2>3. StepsInv'
    BY <1>0, <1>t, <1>2, <2>a DEF Fail, StepsInv, CallInv, Issued, RunState
  <2>4. DoneInv'
    BY <1>0, <1>t, <1>2, <2>a DEF Fail, DoneInv, WholeCall, Issued, RunState
  <2>5. ~Honest
    <3> SUFFICES ASSUME Honest PROVE FALSE
      OBVIOUS
    <3>0. RpcInv /\ RequestInv /\ AnswerInv /\ TodoInv /\ OutInv /\ EndInv
      BY <1>0
    <3>1. /\ nat.at = "over" /\ Len(out) = 1 /\ ~run.done /\ relay.finalObserved /\ out[1].k = "turncompleted"
      <4>1. FinalFrame(1)
        BY <3>0, <2>a DEF OutInv, FrameInv
      <4>. QED  BY <4>1, <1>2, <2>a DEF FinalFrame
    <3>2. run.turn /\ ~relay.failure /\ relay.final /\ nat.todo = {}
      BY <3>0, <3>1 DEF RpcInv, RequestInv, TodoInv, TodoKinds
    <3>3. ASSUME NEW d \in Issued
          PROVE  call[d].claimed /\ call[d].started /\ call[d].completed /\ call[d].observed
      <4>1. CallInv(call[d]) /\ AnswerOf(d) /\ OwedOf(d)
        BY <1>0, <3>0 DEF StepsInv, AnswerInv, TodoInv
      <4>2. call[d].output /\ call[d].claimed /\ call[d].started /\ call[d].observed
        BY <4>1, <3>1, <3>2 DEF CallInv, AnswerOf
      <4>3. ~Sent(out, "completed", d)
        BY <3>1 DEF Sent
      <4>4. call[d].completed
        BY <4>1, <4>2, <4>3, <3>1, <3>2 DEF OwedOf
      <4>. QED  BY <4>2, <4>4
    <3>. QED  BY <3>1, <3>2, <3>3, <1>2 DEF ResultOK
  <2>6. HonestInv'
    BY <2>5, <1>2 DEF HonestInv, Honest
  <2>. QED  BY <2>1, <2>2, <2>3, <2>4, <2>6 DEF RelayInv, WholeInv
<1>. QED
  BY <1>1, <1>2 DEF TurnCompleted, Take

LEMMA ForbiddenKeeps ==
  ASSUME RelayInv, Forbidden
  PROVE  RelayInv'
<1>0. RelayTypeOK /\ StepsInv /\ CloseInv /\ DoneInv
      /\ (Honest => RpcInv /\ RequestInv /\ AnswerInv /\ TodoInv /\ OutInv /\ EndInv)
  BY DEF RelayInv, WholeInv, HonestInv, Honest
<1>t. /\ run \in RunState /\ relay \in RelayState /\ post \in PostState /\ up \in {"none", "asked"}
      /\ call \in Seq(CallState) /\ nat \in NativeState /\ out \in Seq(FrameState) /\ fault \in BOOLEAN
  BY <1>0 DEF RelayTypeOK
<1>1. ASSUME run.at \in {"run", "drain"},
            ~run.aborted,
            run.step = 0,
            out # <<>>,
            Head(out).k = "forbidden",
            run' = Fail(run),
            out' = Tail(out),
            UNCHANGED <<relay, post, up, call, nat, fault>>
     PROVE  RelayInv'
  <2>a. /\ Len(out) \in Nat /\ Len(out) >= 1 /\ Head(out) = out[1] /\ 1 \in 1..Len(out) /\ out[1] \in FrameState
        /\ out' \in Seq(FrameState) /\ Len(out') = Len(out) - 1 /\ (Len(out) = 1 => out' = <<>>)
        /\ \A j \in 1..Len(out') : After(out, out', j)
        /\ \A j \in 1..Len(out) : j # 1 => j - 1 \in 1..Len(out') /\ out'[j - 1] = out[j]
    <3>1. out \in Seq(FrameState) /\ out # <<>> /\ out' = Tail(out)
      BY <1>t, <1>1
    <3>2. /\ Len(out) \in Nat /\ Len(out) >= 1 /\ Head(out) = out[1] /\ 1 \in 1..Len(out) /\ out[1] \in FrameState
          /\ Tail(out) \in Seq(FrameState) /\ Len(Tail(out)) = Len(out) - 1 /\ (Len(out) = 1 => Tail(out) = <<>>)
          /\ \A j \in 1..Len(Tail(out)) : After(out, Tail(out), j)
          /\ \A j \in 1..Len(out) : j # 1 => j - 1 \in 1..Len(Tail(out)) /\ Tail(out)[j - 1] = out[j]
      BY <3>1, PipeTail
    <3>. QED  BY <3>1, <3>2
  <2>1. RelayTypeOK'
    BY <1>t, <1>1, <2>a DEF Fail, FrameState, RelayTypeOK, RunState, RelayKinds, RelayFrame
  <2>2. CloseInv'
    BY <1>0, <1>1 DEF CloseInv
  <2>3. StepsInv'
    BY <1>0, <1>t, <1>1, <2>a DEF Fail, StepsInv, CallInv, Issued, RunState
  <2>4. DoneInv'
    BY <1>0, <1>t, <1>1, <2>a DEF Fail, DoneInv, WholeCall, Issued, RunState
  <2>5. ~Honest
    <3> SUFFICES ASSUME Honest PROVE FALSE
      OBVIOUS
    <3>0. RpcInv /\ RequestInv /\ AnswerInv /\ TodoInv /\ OutInv /\ EndInv
      BY <1>0
    <3>1. FrameInv(1)
      BY <3>0, <2>a DEF OutInv
    <3>. QED  BY <3>0, <3>1, <1>t, <1>1, <2>a DEF FrameInv, ReplyFrame, CallFrame, CompletedFrame, FinalFrame, RpcInv, EndInv, AnswerInv, AnswerOf, LastInv, Issued, Reply, InTurn
  <2>6. HonestInv'
    BY <2>5, <1>1 DEF HonestInv, Honest
  <2>. QED  BY <2>1, <2>2, <2>3, <2>4, <2>6 DEF RelayInv, WholeInv
<1>. QED
  BY <1>1 DEF Forbidden, Take

LEMMA DrainKeeps ==
  ASSUME RelayInv, Drain
  PROVE  RelayInv'
<1>0. RelayTypeOK /\ StepsInv /\ CloseInv /\ DoneInv
      /\ (Honest => RpcInv /\ RequestInv /\ AnswerInv /\ TodoInv /\ OutInv /\ EndInv)
  BY DEF RelayInv, WholeInv, HonestInv, Honest
<1>t. /\ run \in RunState /\ relay \in RelayState /\ post \in PostState /\ up \in {"none", "asked"}
      /\ call \in Seq(CallState) /\ nat \in NativeState /\ out \in Seq(FrameState) /\ fault \in BOOLEAN
  BY <1>0 DEF RelayTypeOK
<1>1. ASSUME run.at = "run",
            run.done,
            ~run.aborted,
            run' = [run EXCEPT !.at = "drain"],
            UNCHANGED <<relay, post, up, call, nat, out, fault>>
     PROVE  RelayInv'
  <2>1. RelayTypeOK'
    BY <1>t, <1>1 DEF RelayTypeOK, RunState
  <2>2. CloseInv'
    BY <1>0, <1>1 DEF CloseInv
  <2>3. StepsInv'
    BY <1>0, <1>t, <1>1 DEF StepsInv, CallInv, Issued, RunState
  <2>4. DoneInv'
    BY <1>0, <1>t, <1>1 DEF DoneInv, WholeCall, Issued, RunState
  <2>5. ASSUME Honest PROVE RpcInv' /\ RequestInv' /\ AnswerInv' /\ TodoInv' /\ OutInv' /\ EndInv'
    <3>0. RpcInv /\ RequestInv /\ AnswerInv /\ TodoInv /\ OutInv /\ EndInv
      BY <1>0, <2>5
    <3>1. RequestInv'
      BY <3>0, <1>1 DEF RequestInv, InTurn
    <3>2. RpcInv'
      BY <3>0, <1>t, <1>1 DEF RpcInv, InTurn, RunState
    <3>3. AnswerInv'
      BY <3>0, <1>t, <1>1 DEF AnswerInv, AnswerOf, LastInv, Issued, RunState
    <3>4. TodoInv'
      BY <3>0, <1>t, <1>1 DEF TodoInv, TodoKinds, OwedInv, UnansweredInv, OwedOf, Owed, Sent, Issued, InTurn, Reply, RunState
    <3>5. OutInv'
      BY <3>0, <1>t, <1>1 DEF OutInv, FrameInv, ReplyFrame, CallFrame, CompletedFrame, FinalFrame, Issued, InTurn, Reply, RunState
    <3>6. EndInv'
      BY <3>0, <1>t, <1>1 DEF EndInv, RunState
    <3>. QED  BY <3>1, <3>2, <3>3, <3>4, <3>5, <3>6
  <2>6. HonestInv'
    <3>1. nat'.wild = nat.wild
      BY <1>t, <1>1 DEF NativeState
    <3>. QED  BY <3>1, <2>5, <1>1 DEF HonestInv, Honest
  <2>. QED  BY <2>1, <2>2, <2>3, <2>4, <2>6 DEF RelayInv, WholeInv
<1>. QED
  BY <1>1 DEF Drain

LEMMA CleanupKeeps ==
  ASSUME RelayInv, Cleanup
  PROVE  RelayInv'
<1>0. RelayTypeOK /\ StepsInv /\ CloseInv /\ DoneInv
      /\ (Honest => RpcInv /\ RequestInv /\ AnswerInv /\ TodoInv /\ OutInv /\ EndInv)
  BY DEF RelayInv, WholeInv, HonestInv, Honest
<1>t. /\ run \in RunState /\ relay \in RelayState /\ post \in PostState /\ up \in {"none", "asked"}
      /\ call \in Seq(CallState) /\ nat \in NativeState /\ out \in Seq(FrameState) /\ fault \in BOOLEAN
  BY <1>0 DEF RelayTypeOK
<1>1. ASSUME (run.at = "drain" /\ run.step = 0) \/ (run.at \in {"run", "drain"} /\ run.aborted),
            run' = [run EXCEPT !.at = "clean", !.aborted = TRUE, !.pend = "none"],
            relay' = [relay EXCEPT !.closed = TRUE, !.close = "closing"],
            UNCHANGED <<post, up, call, nat, out, fault>>
     PROVE  RelayInv'
  <2>1. RelayTypeOK'
    BY <1>t, <1>1 DEF RelayState, RelayTypeOK, RunState
  <2>2. StepsInv'
    BY <1>0, <1>t, <1>1 DEF StepsInv, CallInv, Issued, RunState
  <2>3. CloseInv'
    BY <1>0, <1>t, <1>1 DEF CloseInv, RelayState
  <2>4. DoneInv'
    BY <1>0, <1>t, <1>1 DEF DoneInv, WholeCall, Issued, RelayState, RunState
  <2>5. ASSUME Honest PROVE RpcInv' /\ RequestInv' /\ AnswerInv' /\ TodoInv' /\ OutInv' /\ EndInv'
    <3>0. RpcInv /\ RequestInv /\ AnswerInv /\ TodoInv /\ OutInv /\ EndInv
      BY <1>0, <2>5
    <3>x. /\ nat.at = "over" /\ nat.todo = {} /\ out = <<>> /\ run.turn /\ run.done /\ run.step = 0
          /\ run.pend = "none"
      BY <3>0, <1>1 DEF EndInv, TodoInv, TodoKinds, RpcInv
    <3>y. /\ run'.pend = "none" /\ run'.stage = run.stage /\ run'.thread = run.thread /\ run'.turn = run.turn
          /\ run'.step = run.step /\ run'.done = run.done
      BY <1>t, <1>1 DEF RunState
    <3>1. RpcInv'
      BY <3>0, <3>x, <3>y, <1>1 DEF RpcInv, InTurn
    <3>2. RequestInv'
      BY <3>0, <1>t, <1>1 DEF RequestInv, InTurn, RelayState
    <3>3. AnswerInv'
      BY <3>0, <1>t, <1>1 DEF AnswerInv, AnswerOf, LastInv, Issued, RelayState, RunState
    <3>4. TodoInv'
      <4>1. nat' = nat /\ call' = call /\ out' = out /\ Issued' = Issued /\ Owed' = Owed
        BY <1>1 DEF Issued, Owed
      <4>2. \A d \in Issued : OwedOf(d)'
        BY <4>1, <3>0 DEF TodoInv, OwedOf, Sent
      <4>3. TodoKinds' /\ OwedInv' /\ UnansweredInv'
        BY <4>1, <3>0, <3>x, <3>y DEF TodoInv, TodoKinds, OwedInv, UnansweredInv, Reply, InTurn
      <4>. QED  BY <4>1, <4>2, <4>3 DEF TodoInv
    <3>5. OutInv'
      <4>1. out' = <<>> /\ Len(out') = 0 /\ 1..0 = {}
        BY <3>x, <1>1
      <4>. QED  BY <4>1 DEF OutInv
    <3>6. EndInv'
      BY <3>0, <1>t, <1>1 DEF EndInv, RelayState, RunState
    <3>. QED  BY <3>1, <3>2, <3>3, <3>4, <3>5, <3>6
  <2>6. HonestInv'
    <3>1. nat'.wild = nat.wild
      BY <1>t, <1>1 DEF NativeState
    <3>. QED  BY <3>1, <2>5, <1>1 DEF HonestInv, Honest
  <2>. QED  BY <2>1, <2>2, <2>3, <2>4, <2>6 DEF RelayInv, WholeInv
<1>. QED
  BY <1>1 DEF Cleanup

LEMMA FinishKeeps ==
  ASSUME RelayInv, Finish
  PROVE  RelayInv'
<1>0. RelayTypeOK /\ StepsInv /\ CloseInv /\ DoneInv
      /\ (Honest => RpcInv /\ RequestInv /\ AnswerInv /\ TodoInv /\ OutInv /\ EndInv)
  BY DEF RelayInv, WholeInv, HonestInv, Honest
<1>t. /\ run \in RunState /\ relay \in RelayState /\ post \in PostState /\ up \in {"none", "asked"}
      /\ call \in Seq(CallState) /\ nat \in NativeState /\ out \in Seq(FrameState) /\ fault \in BOOLEAN
  BY <1>0 DEF RelayTypeOK
<1>1. ASSUME run.at = "clean",
            run.process # "up",
            run.handlers # "open",
            relay.close \in {"joined", "unproven"},
            run' = [run EXCEPT !.at = "ended", !.failed = @ \/ run.process # "gone" \/ relay.close # "joined" \/ run.handlers # "joined"],
            UNCHANGED <<relay, post, up, call, nat, out, fault>>
     PROVE  RelayInv'
  <2>1. RelayTypeOK'
    BY <1>t, <1>1 DEF RelayTypeOK, RunState
  <2>2. CloseInv'
    BY <1>0, <1>1 DEF CloseInv
  <2>3. StepsInv'
    BY <1>0, <1>t, <1>1 DEF StepsInv, CallInv, Issued, RunState
  <2>4. DoneInv'
    BY <1>0, <1>t, <1>1 DEF DoneInv, WholeCall, Issued, RunState
  <2>5. ASSUME Honest PROVE RpcInv' /\ RequestInv' /\ AnswerInv' /\ TodoInv' /\ OutInv' /\ EndInv'
    <3>0. RpcInv /\ RequestInv /\ AnswerInv /\ TodoInv /\ OutInv /\ EndInv
      BY <1>0, <2>5
    <3>1. RequestInv'
      BY <3>0, <1>1 DEF RequestInv, InTurn
    <3>2. RpcInv'
      BY <3>0, <1>t, <1>1 DEF RpcInv, InTurn, RunState
    <3>3. AnswerInv'
      BY <3>0, <1>t, <1>1 DEF AnswerInv, AnswerOf, LastInv, Issued, RunState
    <3>4. TodoInv'
      BY <3>0, <1>t, <1>1 DEF TodoInv, TodoKinds, OwedInv, UnansweredInv, OwedOf, Owed, Sent, Issued, InTurn, Reply, RunState
    <3>5. OutInv'
      BY <3>0, <1>t, <1>1 DEF OutInv, FrameInv, ReplyFrame, CallFrame, CompletedFrame, FinalFrame, Issued, InTurn, Reply, RunState
    <3>6. EndInv'
      BY <3>0, <1>t, <1>1 DEF EndInv, RunState
    <3>. QED  BY <3>1, <3>2, <3>3, <3>4, <3>5, <3>6
  <2>6. HonestInv'
    <3>1. nat'.wild = nat.wild
      BY <1>t, <1>1 DEF NativeState
    <3>. QED  BY <3>1, <2>5, <1>1 DEF HonestInv, Honest
  <2>. QED  BY <2>1, <2>2, <2>3, <2>4, <2>6 DEF RelayInv, WholeInv
<1>. QED
  BY <1>1 DEF Finish

LEMMA ValidateInputKeeps ==
  ASSUME RelayInv, ValidateInput
  PROVE  RelayInv'
<1>0. RelayTypeOK /\ StepsInv /\ CloseInv /\ DoneInv
      /\ (Honest => RpcInv /\ RequestInv /\ AnswerInv /\ TodoInv /\ OutInv /\ EndInv)
  BY DEF RelayInv, WholeInv, HonestInv, Honest
<1>t. /\ run \in RunState /\ relay \in RelayState /\ post \in PostState /\ up \in {"none", "asked"}
      /\ call \in Seq(CallState) /\ nat \in NativeState /\ out \in Seq(FrameState) /\ fault \in BOOLEAN
  BY <1>0 DEF RelayTypeOK
<1>1. ASSUME post.at = "body",
            ~run.aborted,
            post.exact,
            HistoryOK,
            relay' = [relay EXCEPT !.initial = TRUE],
            post' = [post EXCEPT !.at = "write"],
            UNCHANGED <<run, up, call, nat, out, fault>>
     PROVE  RelayInv'
  <2>1. RelayTypeOK'
    BY <1>t, <1>1 DEF PostState, RelayState, RelayTypeOK
  <2>2. StepsInv'
    BY <1>0, <1>1 DEF StepsInv, CallInv, Issued
  <2>3. CloseInv'
    BY <1>0, <1>t, <1>1 DEF CloseInv, PostState, RelayState
  <2>4. DoneInv'
    BY <1>0, <1>t, <1>1 DEF DoneInv, WholeCall, Issued, RelayState
  <2>5. ASSUME Honest PROVE RpcInv' /\ RequestInv' /\ AnswerInv' /\ TodoInv' /\ OutInv' /\ EndInv'
    <3>0. RpcInv /\ RequestInv /\ AnswerInv /\ TodoInv /\ OutInv /\ EndInv
      BY <1>0, <2>5
    <3>1. TodoInv'
      BY <3>0, <1>1 DEF TodoInv, TodoKinds, OwedInv, UnansweredInv, OwedOf, Owed, Sent, Issued, InTurn, Reply
    <3>2. RpcInv'
      BY <3>0, <1>t, <1>1 DEF RpcInv, InTurn, PostState
    <3>3. RequestInv'
      BY <3>0, <1>t, <1>1 DEF RequestInv, InTurn, PostState, RelayState
    <3>4. AnswerInv'
      BY <3>0, <1>t, <1>1 DEF AnswerInv, AnswerOf, LastInv, Issued, PostState, RelayState
    <3>5. OutInv'
      BY <3>0, <1>t, <1>1 DEF OutInv, FrameInv, ReplyFrame, CallFrame, CompletedFrame, FinalFrame, Issued, InTurn, Reply, RelayState
    <3>6. EndInv'
      BY <3>0, <1>t, <1>1 DEF EndInv, RelayState
    <3>. QED  BY <3>1, <3>2, <3>3, <3>4, <3>5, <3>6
  <2>6. HonestInv'
    <3>1. nat'.wild = nat.wild
      BY <1>t, <1>1 DEF NativeState
    <3>. QED  BY <3>1, <2>5, <1>1 DEF HonestInv, Honest
  <2>. QED  BY <2>1, <2>2, <2>3, <2>4, <2>6 DEF RelayInv, WholeInv
<1>2. ASSUME post.at = "body",
            ~(~run.aborted /\ post.exact /\ HistoryOK),
            run' = Fail(run),
            relay' = [relay EXCEPT !.failure = TRUE],
            post' = RelayIdle,
            UNCHANGED <<up, call, nat, out, fault>>
     PROVE  RelayInv'
  <2>1. RelayTypeOK'
    BY <1>t, <1>2 DEF Fail, RelayIdle, PostState, RelayState, RelayTypeOK, RunState
  <2>2. StepsInv'
    BY <1>0, <1>t, <1>2 DEF Fail, RelayIdle, StepsInv, CallInv, Issued, RunState
  <2>3. CloseInv'
    BY <1>0, <1>t, <1>2 DEF Fail, RelayIdle, CloseInv, PostState, RelayState
  <2>4. DoneInv'
    BY <1>0, <1>t, <1>2 DEF Fail, RelayIdle, DoneInv, WholeCall, Issued, RelayState, RunState
  <2>5. ~Honest
    <3> SUFFICES ASSUME Honest PROVE FALSE
      OBVIOUS
    <3>1. nat.at = "waiting" /\ post.exact /\ ~run.aborted
      BY <1>0, <1>2 DEF RequestInv, EndInv, InTurn
    <3>2. relay.initial <=> call # <<>>
      BY <1>0, <1>2, <3>1 DEF RequestInv
    <3>3. call # <<>> <=> Issued # {}
      <4>1. Issued = 1..Len(call) /\ Len(call) \in Nat
        BY <1>t DEF Issued
      <4>2. call # <<>> <=> Len(call) >= 1
        BY <1>t, NonEmpty
      <4>. QED  BY <4>1, <4>2
    <3>4. \A d \in Issued : call[d].claimed /\ call[d].write # "none"
      <4>1. \A d \in Issued : CallInv(call[d]) /\ AnswerOf(d)
        BY <1>0 DEF StepsInv, AnswerInv
      <4>. QED  BY <4>1, <3>1 DEF CallInv, AnswerOf
    <3>. QED  BY <3>1, <3>2, <3>3, <3>4, <1>2 DEF HistoryOK
  <2>6. HonestInv'
    BY <2>5, <1>2 DEF HonestInv, Honest
  <2>. QED  BY <2>1, <2>2, <2>3, <2>4, <2>6 DEF RelayInv, WholeInv
<1>. QED
  BY <1>1, <1>2 DEF ValidateInput, RelayFail

LEMMA AwaitWritesKeeps ==
  ASSUME RelayInv, AwaitWrites
  PROVE  RelayInv'
<1>0. RelayTypeOK /\ StepsInv /\ CloseInv /\ DoneInv
      /\ (Honest => RpcInv /\ RequestInv /\ AnswerInv /\ TodoInv /\ OutInv /\ EndInv)
  BY DEF RelayInv, WholeInv, HonestInv, Honest
<1>t. /\ run \in RunState /\ relay \in RelayState /\ post \in PostState /\ up \in {"none", "asked"}
      /\ call \in Seq(CallState) /\ nat \in NativeState /\ out \in Seq(FrameState) /\ fault \in BOOLEAN
  BY <1>0 DEF RelayTypeOK
<1>1. ASSUME post.at = "write",
            run.aborted,
            run' = Fail(run),
            relay' = [relay EXCEPT !.failure = TRUE],
            post' = RelayIdle,
            UNCHANGED <<up, call, nat, out, fault>>
     PROVE  RelayInv'
  <2>1. RelayTypeOK'
    BY <1>t, <1>1 DEF Fail, RelayIdle, PostState, RelayState, RelayTypeOK, RunState
  <2>2. StepsInv'
    BY <1>0, <1>t, <1>1 DEF Fail, RelayIdle, StepsInv, CallInv, Issued, RunState
  <2>3. CloseInv'
    BY <1>0, <1>t, <1>1 DEF Fail, RelayIdle, CloseInv, PostState, RelayState
  <2>4. DoneInv'
    BY <1>0, <1>t, <1>1 DEF Fail, RelayIdle, DoneInv, WholeCall, Issued, RelayState, RunState
  <2>5. ~Honest
    BY <1>0, <1>t, <1>1 DEF RpcInv, RequestInv, AnswerInv, AnswerOf, LastInv, OutInv, FrameInv, ReplyFrame, CallFrame, CompletedFrame, FinalFrame, EndInv, TodoInv, Issued, Reply, InTurn
  <2>6. HonestInv'
    BY <2>5, <1>1 DEF HonestInv, Honest
  <2>. QED  BY <2>1, <2>2, <2>3, <2>4, <2>6 DEF RelayInv, WholeInv
<1>2. ASSUME post.at = "write",
            \A c \in Issued : call[c].write = "settled",
            post' = [post EXCEPT !.at = "bind"],
            call' = [c \in Issued |-> [call[c] EXCEPT !.observed = TRUE]],
            UNCHANGED <<run, relay, up, nat, out, fault>>
     PROVE  RelayInv'
  <2>b. /\ call' \in Seq(CallState) /\ Len(call') = Len(call)
        /\ Issued = 1..Len(call) /\ Issued' = 1..Len(call) /\ (call' = <<>> <=> call = <<>>)
        /\ \A d \in 1..Len(call) :
             /\ call[d] \in CallState /\ call'[d] \in CallState
             /\ call'[d].claimed = call[d].claimed
             /\ call'[d].ran = call[d].ran
             /\ call'[d].started = call[d].started
             /\ call'[d].completed = call[d].completed
             /\ call'[d].output = call[d].output
             /\ call'[d].write = call[d].write
             /\ call'[d].observed = TRUE
    <3>1. /\ call' \in Seq(CallState) /\ Len(call') = Len(call)
          /\ \A d \in 1..Len(call) : call'[d] = [call[d] EXCEPT !.observed = TRUE]
      BY <1>t, <1>2, ObserveAll DEF Issued
    <3>2. \A d \in 1..Len(call) : call[d] \in CallState /\ call'[d] \in CallState
      BY <1>t, <3>1
    <3>3. Issued = 1..Len(call) /\ Issued' = 1..Len(call)
      BY <1>t, <3>1 DEF Issued
    <3>4. call' = <<>> <=> call = <<>>
      BY <1>t, <3>1, EmptySeq
    <3>5. ASSUME NEW d \in 1..Len(call)
          PROVE  /\ call'[d].claimed = call[d].claimed
                 /\ call'[d].ran = call[d].ran
                 /\ call'[d].started = call[d].started
                 /\ call'[d].completed = call[d].completed
                 /\ call'[d].output = call[d].output
                 /\ call'[d].write = call[d].write
                 /\ call'[d].observed = TRUE
      BY <3>1, <3>2 DEF CallState
    <3>. QED  BY <3>1, <3>2, <3>3, <3>4, <3>5
  <2>c. post.at = "write" /\ (\A c \in Issued : call[c].write = "settled") /\ post' = [post EXCEPT !.at = "bind"] /\ UNCHANGED <<run, relay, up, nat, out, fault>>
    BY <1>2
  <2>1. RelayTypeOK'
    BY <1>t, <2>c, <2>b DEF CallState, PostState, RelayTypeOK
  <2>2. StepsInv'
    <3>1. ASSUME NEW d \in 1..Len(call) PROVE CallInv(call[d])'
      <4>1. CallInv(call[d])
        BY <1>0, <2>b DEF StepsInv
      <4>2. /\ call[d] \in CallState
            /\ call'[d].claimed = call[d].claimed
            /\ call'[d].ran = call[d].ran
            /\ call'[d].started = call[d].started
            /\ call'[d].completed = call[d].completed
            /\ call'[d].output = call[d].output
            /\ call'[d].write = call[d].write
            /\ call'[d].observed = TRUE
        BY <2>b
      <4>3. call[d].write = "settled"
        BY <2>b, <2>c
      <4>. QED  BY <4>1, <4>2, <4>3, <2>c DEF CallInv, CallState
    <3>2. run.step # 0 => run.step \in 1..Len(call) /\ call'[run.step].claimed
      BY <1>0, <2>b DEF StepsInv
    <3>. QED  BY <3>1, <3>2, <1>0, <2>b, <2>c DEF StepsInv
  <2>3. CloseInv'
    BY <1>0, <1>t, <2>c, <2>b DEF CloseInv, PostState
  <2>4. DoneInv'
    BY <1>0, <1>t, <2>c, <2>b DEF DoneInv, WholeCall, CallState
  <2>5. ASSUME Honest PROVE RpcInv' /\ RequestInv' /\ AnswerInv' /\ TodoInv' /\ OutInv' /\ EndInv'
    <3>0. RpcInv /\ RequestInv /\ AnswerInv /\ TodoInv /\ OutInv /\ EndInv
      BY <1>0, <2>5
    <3>1. EndInv'
      BY <3>0, <1>2 DEF EndInv
    <3>2. RpcInv'
      BY <3>0, <1>t, <2>c, <2>b DEF RpcInv, InTurn, PostState
    <3>3. RequestInv'
      BY <3>0, <1>t, <2>c, <2>b DEF RequestInv, InTurn, CallState, PostState
    <3>4. AnswerInv'
      <4>1. /\ nat' = nat /\ relay' = relay /\ Len(call') = Len(call) /\ Issued' = Issued /\ Issued = 1..Len(call)
            /\ (call' = <<>> <=> call = <<>>) /\ call' \in Seq(CallState)
        BY <2>b, <2>c
      <4>2. LastInv
        BY <3>0, <1>0, <2>b, <2>c DEF AnswerInv, StepsInv
      <4>3. ASSUME NEW d \in 1..Len(call) PROVE AnswerOf(d)'
        <5>1. AnswerOf(d)
          BY <3>0, <4>1 DEF AnswerInv
        <5>2. /\ call[d] \in CallState
              /\ call'[d].claimed = call[d].claimed
              /\ call'[d].started = call[d].started
              /\ call'[d].output = call[d].output
              /\ call'[d].write = call[d].write
              /\ call'[d].observed = TRUE
          BY <2>b
        <5>. QED  BY <5>1, <5>2, <4>1, <4>2, <2>c, <1>t DEF AnswerOf, LastInv, PostState
      <4>4. LastInv'
        <5>1. Len(call) \in 1..Len(call) => call'[Len(call)].claimed = call[Len(call)].claimed /\ call'[Len(call)].started = call[Len(call)].started /\ call'[Len(call)].write = call[Len(call)].write
          BY <2>b
        <5>2. nat.at \in {"called", "calling"} => Len(call) \in 1..Len(call)
          BY <4>2, <1>t, NonEmpty DEF LastInv
        <5>3. run.step = 0
          BY <4>2, <1>0, <2>b, <2>c DEF StepsInv, LastInv
        <5>. QED  BY <5>3, <5>1, <5>2, <4>1, <4>2, <3>0, <1>t, <2>c DEF LastInv, RequestInv, EndInv, InTurn, PostState
      <4>. QED  BY <4>1, <4>3, <4>4 DEF AnswerInv
    <3>5. TodoInv'
      <4>1. /\ nat' = nat /\ Owed' = Owed /\ Len(call') = Len(call) /\ Issued' = Issued /\ Issued = 1..Len(call)
            /\ run'.pend = run.pend
        BY <1>t, <2>b, <2>c DEF Owed, RunState
      <4>2. TodoKinds /\ OwedInv /\ UnansweredInv /\ LastInv
        BY <3>0 DEF TodoInv, AnswerInv
      <4>3. \A e : /\ Sent(out', "completed", e) => Sent(out, "completed", e)
                   /\ Sent(out, "completed", e) => Sent(out', "completed", e)
        BY <2>c DEF Sent
      <4>4. TodoKinds'
        BY <4>1, <4>2 DEF TodoKinds
      <4>5. OwedInv'
        <5>1. Owed \in 1..Len(call) => call'[Owed].completed = call[Owed].completed /\ call'[Owed].output = call[Owed].output
          BY <2>b
        <5>2. Sent(out, "completed", Owed)' <=> Sent(out', "completed", Owed)
          BY <4>1 DEF Sent
        <5>3. Sent(out', "completed", Owed) => Sent(out, "completed", Owed)
          BY <4>3
        <5>. QED  BY <5>1, <5>2, <5>3, <4>1, <4>2 DEF OwedInv
      <4>6. UnansweredInv'
        <5>1. nat.at \in {"called", "calling"} => Len(call) \in 1..Len(call)
          BY <4>2, <1>t, NonEmpty DEF LastInv
        <5>2. Len(call) \in 1..Len(call) => call'[Len(call)].completed = call[Len(call)].completed
          BY <2>b
        <5>3. Sent(out, "completed", Len(call))' <=> Sent(out', "completed", Len(call))
          BY <4>1 DEF Sent
        <5>4. Sent(out', "completed", Len(call)) => Sent(out, "completed", Len(call))
          BY <4>3
        <5>. QED  BY <5>1, <5>2, <5>3, <5>4, <4>1, <4>2 DEF UnansweredInv
      <4>7. ASSUME NEW d \in 1..Len(call) PROVE OwedOf(d)'
        <5>1. OwedOf(d)
          BY <3>0, <4>1 DEF TodoInv
        <5>2. /\ call'[d].completed = call[d].completed
              /\ call'[d].output = call[d].output
          BY <2>b
        <5>. QED  BY <5>1, <5>2, <4>1, <4>2, <4>3 DEF OwedOf
      <4>. QED  BY <4>1, <4>4, <4>5, <4>6, <4>7 DEF TodoInv
    <3>6. OutInv'
      <4>0. \A j \in 1..Len(out) : FrameInv(j) /\ out[j] \in FrameState
        BY <3>0, <1>t DEF OutInv
      <4>1. ASSUME NEW j \in 1..Len(out) PROVE FrameInv(j)'
        <5>e. ReplyFrame(j) /\ CallFrame(j) /\ CompletedFrame(j) /\ FinalFrame(j)
          BY <4>0 DEF FrameInv
        <5>g. /\ out' = out
              /\ run'.pend = run.pend /\ run'.done = run.done /\ UNCHANGED <<nat, relay>>
          BY <1>t, <2>c DEF RunState, RelayState
        <5>3. /\ Len(call) \in 1..Len(call) => call'[Len(call)].claimed = call[Len(call)].claimed /\ call'[Len(call)].started = call[Len(call)].started
              /\ Len(call') = Len(call) /\ Issued' = Issued /\ Issued = 1..Len(call)
          BY <2>b
        <5>4. out[j].c \in 1..Len(call) =>
                call'[out[j].c].completed = call[out[j].c].completed /\ call'[out[j].c].output = call[out[j].c].output
          BY <2>b
        <5>5. nat.at = "calling" => Len(call) \in 1..Len(call)
          <6>1. nat.at = "calling" => call # <<>>
            BY <3>0 DEF AnswerInv, LastInv
          <6>. QED  BY <6>1, <1>t, NonEmpty
        <5>a. ReplyFrame(j)'
          BY <5>e, <5>g, <5>3, <5>4, <5>5 DEF ReplyFrame, Reply, InTurn
        <5>b. CallFrame(j)'
          BY <5>e, <5>g, <5>3, <5>4, <5>5 DEF CallFrame
        <5>c. CompletedFrame(j)'
          BY <5>e, <5>g, <5>3, <5>4, <5>5 DEF CompletedFrame
        <5>d. FinalFrame(j)'
          BY <5>e, <5>g, <5>3, <5>4, <5>5 DEF FinalFrame
        <5>. QED  BY <5>a, <5>b, <5>c, <5>d DEF FrameInv
      <4>. QED  BY <4>1, <3>0, <2>c DEF OutInv
    <3>. QED  BY <3>1, <3>2, <3>3, <3>4, <3>5, <3>6
  <2>6. HonestInv'
    <3>1. nat'.wild = nat.wild
      BY <1>t, <2>c, <2>b DEF NativeState
    <3>. QED  BY <3>1, <2>5, <1>2 DEF HonestInv, Honest
  <2>. QED  BY <2>1, <2>2, <2>3, <2>4, <2>6 DEF RelayInv, WholeInv
<1>. QED
  BY <1>1, <1>2 DEF AwaitWrites, RelayFail

LEMMA AskUpstreamKeeps ==
  ASSUME RelayInv, AskUpstream
  PROVE  RelayInv'
<1>0. RelayTypeOK /\ StepsInv /\ CloseInv /\ DoneInv
      /\ (Honest => RpcInv /\ RequestInv /\ AnswerInv /\ TodoInv /\ OutInv /\ EndInv)
  BY DEF RelayInv, WholeInv, HonestInv, Honest
<1>t. /\ run \in RunState /\ relay \in RelayState /\ post \in PostState /\ up \in {"none", "asked"}
      /\ call \in Seq(CallState) /\ nat \in NativeState /\ out \in Seq(FrameState) /\ fault \in BOOLEAN
  BY <1>0 DEF RelayTypeOK
<1>1. ASSUME post.at = "bind",
            run.aborted,
            run' = Fail(run),
            relay' = [relay EXCEPT !.failure = TRUE],
            post' = RelayIdle,
            UNCHANGED <<up, call, nat, out, fault>>
     PROVE  RelayInv'
  <2>1. RelayTypeOK'
    BY <1>t, <1>1 DEF Fail, RelayIdle, PostState, RelayState, RelayTypeOK, RunState
  <2>2. StepsInv'
    BY <1>0, <1>t, <1>1 DEF Fail, RelayIdle, StepsInv, CallInv, Issued, RunState
  <2>3. CloseInv'
    BY <1>0, <1>t, <1>1 DEF Fail, RelayIdle, CloseInv, PostState, RelayState
  <2>4. DoneInv'
    BY <1>0, <1>t, <1>1 DEF Fail, RelayIdle, DoneInv, WholeCall, Issued, RelayState, RunState
  <2>5. ~Honest
    BY <1>0, <1>t, <1>1 DEF RpcInv, RequestInv, AnswerInv, AnswerOf, LastInv, OutInv, FrameInv, ReplyFrame, CallFrame, CompletedFrame, FinalFrame, EndInv, TodoInv, Issued, Reply, InTurn
  <2>6. HonestInv'
    BY <2>5, <1>1 DEF HonestInv, Honest
  <2>. QED  BY <2>1, <2>2, <2>3, <2>4, <2>6 DEF RelayInv, WholeInv
<1>2. ASSUME post.at = "bind",
            run.turn,
            post' = [post EXCEPT !.at = "up"],
            up' = "asked",
            UNCHANGED <<run, relay, call, nat, out, fault>>
     PROVE  RelayInv'
  <2>1. RelayTypeOK'
    BY <1>t, <1>2 DEF PostState, RelayTypeOK
  <2>2. StepsInv' /\ DoneInv'
    BY <1>0, <1>2 DEF StepsInv, CallInv, Issued, DoneInv, WholeCall
  <2>3. CloseInv'
    BY <1>0, <1>t, <1>2 DEF CloseInv, PostState
  <2>4. ASSUME Honest PROVE RpcInv' /\ RequestInv' /\ AnswerInv' /\ TodoInv' /\ OutInv' /\ EndInv'
    <3>0. RpcInv /\ RequestInv /\ AnswerInv /\ TodoInv /\ OutInv /\ EndInv
      BY <1>0, <2>4
    <3>1. TodoInv' /\ OutInv' /\ EndInv'
      BY <3>0, <1>2 DEF TodoInv, TodoKinds, OwedInv, UnansweredInv, OwedOf, Owed, Sent, Issued, InTurn, Reply, OutInv, FrameInv, ReplyFrame, CallFrame, CompletedFrame, FinalFrame, EndInv
    <3>2. RpcInv'
      BY <3>0, <1>t, <1>2 DEF RpcInv, InTurn, PostState
    <3>3. RequestInv'
      BY <3>0, <1>t, <1>2 DEF RequestInv, InTurn, PostState
    <3>4. AnswerInv'
      BY <3>0, <1>t, <1>2 DEF AnswerInv, AnswerOf, LastInv, Issued, PostState
    <3>. QED  BY <3>1, <3>2, <3>3, <3>4
  <2>5. HonestInv'
    <3>1. nat'.wild = nat.wild
      BY <1>t, <1>2 DEF NativeState
    <3>. QED  BY <3>1, <2>4, <1>2 DEF HonestInv, Honest
  <2>. QED  BY <2>1, <2>2, <2>3, <2>5 DEF RelayInv, WholeInv
<1>. QED
  BY <1>1, <1>2 DEF AskUpstream, RelayFail

LEMMA UpstreamAnswersKeeps ==
  ASSUME RelayInv, UpstreamAnswers
  PROVE  RelayInv'
<1>0. RelayTypeOK /\ StepsInv /\ CloseInv /\ DoneInv
      /\ (Honest => RpcInv /\ RequestInv /\ AnswerInv /\ TodoInv /\ OutInv /\ EndInv)
  BY DEF RelayInv, WholeInv, HonestInv, Honest
<1>t. /\ run \in RunState /\ relay \in RelayState /\ post \in PostState /\ up \in {"none", "asked"}
      /\ call \in Seq(CallState) /\ nat \in NativeState /\ out \in Seq(FrameState) /\ fault \in BOOLEAN
  BY <1>0 DEF RelayTypeOK
<1>1. ASSUME up = "asked",
            ~run.aborted,
            post.at = "up",
            post' = [post EXCEPT !.at = "read"],
            up' = "none",
            UNCHANGED <<run, relay, call, nat, out, fault>>
     PROVE  RelayInv'
  <2>1. RelayTypeOK'
    BY <1>t, <1>1 DEF PostState, RelayTypeOK
  <2>2. StepsInv' /\ DoneInv'
    BY <1>0, <1>1 DEF StepsInv, CallInv, Issued, DoneInv, WholeCall
  <2>3. CloseInv'
    BY <1>0, <1>t, <1>1 DEF CloseInv, PostState
  <2>4. ASSUME Honest PROVE RpcInv' /\ RequestInv' /\ AnswerInv' /\ TodoInv' /\ OutInv' /\ EndInv'
    <3>0. RpcInv /\ RequestInv /\ AnswerInv /\ TodoInv /\ OutInv /\ EndInv
      BY <1>0, <2>4
    <3>1. TodoInv' /\ OutInv' /\ EndInv'
      BY <3>0, <1>1 DEF TodoInv, TodoKinds, OwedInv, UnansweredInv, OwedOf, Owed, Sent, Issued, InTurn, Reply, OutInv, FrameInv, ReplyFrame, CallFrame, CompletedFrame, FinalFrame, EndInv
    <3>2. RpcInv'
      BY <3>0, <1>t, <1>1 DEF RpcInv, InTurn, PostState
    <3>3. RequestInv'
      BY <3>0, <1>t, <1>1 DEF RequestInv, InTurn, PostState
    <3>4. AnswerInv'
      BY <3>0, <1>t, <1>1 DEF AnswerInv, AnswerOf, LastInv, Issued, PostState
    <3>. QED  BY <3>1, <3>2, <3>3, <3>4
  <2>5. HonestInv'
    <3>1. nat'.wild = nat.wild
      BY <1>t, <1>1 DEF NativeState
    <3>. QED  BY <3>1, <2>4, <1>1 DEF HonestInv, Honest
  <2>. QED  BY <2>1, <2>2, <2>3, <2>5 DEF RelayInv, WholeInv
<1>2. ASSUME up = "asked",
            run.aborted,
            post.at = "up",
            NEW bad \in BOOLEAN,
            run' = Fail(run),
            relay' = [relay EXCEPT !.bodyFailed = @ \/ bad, !.failure = @ \/ post.at = "up"],
            post' = RelayIdle,
            up' = "none",
            UNCHANGED <<call, nat, out, fault>>
     PROVE  RelayInv'
  <2>1. RelayTypeOK'
    BY <1>t, <1>2 DEF Fail, RelayIdle, PostState, RelayState, RelayTypeOK, RunState
  <2>2. StepsInv'
    BY <1>0, <1>t, <1>2 DEF Fail, RelayIdle, StepsInv, CallInv, Issued, RunState
  <2>3. CloseInv'
    BY <1>0, <1>t, <1>2 DEF Fail, RelayIdle, CloseInv, PostState, RelayState
  <2>4. DoneInv'
    BY <1>0, <1>t, <1>2 DEF Fail, RelayIdle, DoneInv, WholeCall, Issued, RelayState, RunState
  <2>5. ~Honest
    BY <1>0, <1>t, <1>2 DEF RpcInv, RequestInv, AnswerInv, AnswerOf, LastInv, OutInv, FrameInv, ReplyFrame, CallFrame, CompletedFrame, FinalFrame, EndInv, TodoInv, Issued, Reply, InTurn
  <2>6. HonestInv'
    BY <2>5, <1>2 DEF HonestInv, Honest
  <2>. QED  BY <2>1, <2>2, <2>3, <2>4, <2>6 DEF RelayInv, WholeInv
<1>3. ASSUME up = "asked",
            run.aborted,
            post.at # "up",
            NEW bad \in BOOLEAN,
            relay' = [relay EXCEPT !.bodyFailed = @ \/ bad, !.failure = @ \/ post.at = "up"],
            up' = "none",
            UNCHANGED <<run, post, call, nat, out, fault>>
     PROVE  RelayInv'
  <2>1. RelayTypeOK'
    BY <1>t, <1>3 DEF RelayState, RelayTypeOK
  <2>2. StepsInv'
    BY <1>0, <1>3 DEF StepsInv, CallInv, Issued
  <2>3. CloseInv'
    BY <1>0, <1>t, <1>3 DEF CloseInv, RelayState
  <2>4. DoneInv'
    BY <1>0, <1>t, <1>3 DEF DoneInv, WholeCall, Issued, RelayState
  <2>5. ~Honest
    BY <1>0, <1>t, <1>3 DEF RpcInv, RequestInv, AnswerInv, AnswerOf, LastInv, OutInv, FrameInv, ReplyFrame, CallFrame, CompletedFrame, FinalFrame, EndInv, TodoInv, Issued, Reply, InTurn
  <2>6. HonestInv'
    BY <2>5, <1>3 DEF HonestInv, Honest
  <2>. QED  BY <2>1, <2>2, <2>3, <2>4, <2>6 DEF RelayInv, WholeInv
<1>4. ASSUME up = "asked",
            run' = Fail(run),
            relay' = [relay EXCEPT !.failure = TRUE],
            post' = RelayIdle,
            up' = "none",
            fault' = TRUE,
            UNCHANGED <<call, nat, out>>
     PROVE  RelayInv'
  <2>1. RelayTypeOK'
    BY <1>t, <1>4 DEF Fail, RelayIdle, PostState, RelayState, RelayTypeOK, RunState
  <2>2. StepsInv'
    BY <1>0, <1>t, <1>4 DEF Fail, RelayIdle, StepsInv, CallInv, Issued, RunState
  <2>3. CloseInv'
    BY <1>0, <1>t, <1>4 DEF Fail, RelayIdle, CloseInv, PostState, RelayState
  <2>4. DoneInv'
    BY <1>0, <1>t, <1>4 DEF Fail, RelayIdle, DoneInv, WholeCall, Issued, RelayState, RunState
  <2>5. HonestInv'
    BY <1>4 DEF HonestInv
  <2>. QED  BY <2>1, <2>2, <2>3, <2>4, <2>5 DEF RelayInv, WholeInv
<1>. QED
  BY <1>1, <1>2, <1>3, <1>4 DEF UpstreamAnswers, RelayFail

LEMMA ResponseEventsKeeps ==
  ASSUME RelayInv, ResponseEvents
  PROVE  RelayInv'
<1>0. RelayTypeOK /\ StepsInv /\ CloseInv /\ DoneInv
      /\ (Honest => RpcInv /\ RequestInv /\ AnswerInv /\ TodoInv /\ OutInv /\ EndInv)
  BY DEF RelayInv, WholeInv, HonestInv, Honest
<1>t. /\ run \in RunState /\ relay \in RelayState /\ post \in PostState /\ up \in {"none", "asked"}
      /\ call \in Seq(CallState) /\ nat \in NativeState /\ out \in Seq(FrameState) /\ fault \in BOOLEAN
  BY <1>0 DEF RelayTypeOK
<1>1. ASSUME post.at = "read",
            ~run.aborted,
            Len(call) < MaxIssued,
            post' = RelayIdle,
            call' = Append(call, FreshCall),
            nat' = [nat EXCEPT !.at = "called"],
            UNCHANGED <<run, relay, up, out, fault>>
     PROVE  RelayInv'
  <2>c. /\ call' \in Seq(CallState) /\ Len(call) \in Nat /\ Len(call') = Len(call) + 1 /\ call' # <<>>
        /\ call'[Len(call')] = FreshCall /\ Issued = 1..Len(call) /\ Issued' = 1..Len(call')
        /\ \A d \in Issued : d \in Issued' /\ call'[d] = call[d]
        /\ \A d \in Issued' : d \in Issued \/ d = Len(call')
    <3>1. FreshCall \in CallState
      BY DEF FreshCall, CallState
    <3>2. Issued = 1..Len(call) /\ call' = Append(call, FreshCall)
      BY <1>t, <1>1 DEF Issued
    <3>3. /\ call' \in Seq(CallState) /\ Len(call) \in Nat /\ Len(call') = Len(call) + 1
          /\ call'[Len(call')] = FreshCall /\ call' # <<>>
          /\ \A d \in 1..Len(call) : d \in 1..Len(call') /\ call'[d] = call[d]
          /\ \A d \in 1..Len(call') : d \in 1..Len(call) \/ d = Len(call')
      BY <3>1, <3>2, <1>t, AppendOne
    <3>4. Issued' = 1..Len(call')
      BY <3>3 DEF Issued
    <3>. QED  BY <3>2, <3>3, <3>4
  <2>d. ~run.done
    BY <1>0, <1>1 DEF CloseInv, DoneInv
  <2>g. /\ nat'.at = "called" /\ nat'.todo = nat.todo /\ post'.at = "none" /\ run' = run /\ relay' = relay
        /\ out' = out /\ up' = up
    BY <1>t, <1>1 DEF NativeState, RelayIdle
  <2>1. RelayTypeOK'
    <3>1. post' \in PostState /\ nat' \in NativeState
      BY <1>t, <1>1 DEF RelayIdle, NativeState, PostState
    <3>. QED  BY <1>t, <1>1, <2>c, <3>1 DEF RelayTypeOK
  <2>2. StepsInv'
    BY <1>0, <1>t, <1>1 DEF RelayIdle, FreshCall, StepsInv, CallInv, Issued, CallState, NativeState
  <2>3. CloseInv'
    BY <1>0, <1>t, <1>1 DEF RelayIdle, FreshCall, CloseInv, PostState
  <2>4. DoneInv'
    BY <1>0, <1>1, <2>d DEF DoneInv
  <2>5. ASSUME Honest PROVE RpcInv' /\ RequestInv' /\ AnswerInv' /\ TodoInv' /\ OutInv' /\ EndInv'
    <3>0. RpcInv /\ RequestInv /\ AnswerInv /\ TodoInv /\ OutInv /\ EndInv
      BY <1>0, <2>5
    <3>w. nat.at = "waiting" /\ run.turn /\ run.step = 0 /\ ~relay.final
      BY <3>0, <1>1 DEF RpcInv, RequestInv, AnswerInv, LastInv, InTurn
    <3>1. RpcInv'
      BY <3>0, <1>t, <1>1 DEF RelayIdle, FreshCall, RpcInv, InTurn, NativeState, PostState
    <3>2. RequestInv'
      BY <3>0, <3>w, <1>1, <2>c, <2>g, RelayBounds DEF RequestInv, InTurn
    <3>3. AnswerInv'
      <4>1. LastInv'
        BY <3>w, <2>c, <2>g DEF LastInv, FreshCall
      <4>2. ASSUME NEW d \in Issued' PROVE AnswerOf(d)'
        <5>1. CASE d = Len(call')
          BY <5>1, <2>c, <2>g, <3>w DEF AnswerOf, FreshCall
        <5>2. CASE d \in Issued
          <6>1. AnswerOf(d) /\ call'[d] = call[d]
            BY <5>2, <3>0, <2>c DEF AnswerInv
          <6>. QED  BY <6>1, <2>g, <3>w DEF AnswerOf
        <5>. QED  BY <5>1, <5>2, <4>2, <2>c
      <4>. QED  BY <4>1, <4>2 DEF AnswerInv
    <3>4. TodoInv'
      <4>s. \A d : Sent(out', "completed", d) <=> Sent(out, "completed", d)
        BY <2>g DEF Sent
      <4>c. ~Sent(out, "completed", Len(call'))
        <5>1. \A i \in 1..Len(out) : CompletedFrame(i)
          BY <3>0 DEF OutInv, FrameInv
        <5>2. Len(call') \notin Issued
          BY <2>c
        <5>. QED  BY <5>1, <5>2 DEF Sent, CompletedFrame
      <4>o. Owed' = Owed /\ Owed = Len(call)
        BY <2>c, <2>g, <3>w DEF Owed
      <4>1. TodoKinds'
        BY <3>0, <3>w, <2>g DEF TodoInv, TodoKinds, InTurn, Reply
      <4>2. OwedInv'
        <5>1. OwedInv
          BY <3>0 DEF TodoInv
        <5>. QED  BY <5>1, <4>o, <4>s, <2>c, <2>g DEF OwedInv
      <4>3. UnansweredInv'
        BY <4>c, <4>s, <2>c, <2>g DEF UnansweredInv, FreshCall
      <4>4. ASSUME NEW d \in Issued' PROVE OwedOf(d)'
        <5>1. CASE d = Len(call')
          BY <5>1, <2>c DEF OwedOf, FreshCall
        <5>2. CASE d \in Issued
          <6>1. OwedOf(d) /\ call'[d] = call[d]
            BY <5>2, <3>0, <2>c DEF TodoInv
          <6>. QED  BY <6>1, <4>s, <4>o, <2>g, <3>w DEF OwedOf
        <5>. QED  BY <5>1, <5>2, <4>4, <2>c
      <4>. QED  BY <4>1, <4>2, <4>3, <4>4 DEF TodoInv
    <3>5. OutInv'
      <4>1. ASSUME NEW i \in 1..Len(out) PROVE FrameInv(i)'
        <5>1. ReplyFrame(i) /\ CallFrame(i) /\ CompletedFrame(i) /\ FinalFrame(i)
          BY <3>0 DEF OutInv, FrameInv
        <5>2. ReplyFrame(i)'
          BY <5>1, <2>g, <3>w DEF ReplyFrame, Reply, InTurn
        <5>3. CallFrame(i)'
          BY <5>1, <2>g, <3>w DEF CallFrame
        <5>4. CompletedFrame(i)'
          BY <5>1, <2>g, <2>c DEF CompletedFrame
        <5>5. FinalFrame(i)'
          BY <5>1, <2>g, <3>w DEF FinalFrame
        <5>. QED  BY <5>2, <5>3, <5>4, <5>5 DEF FrameInv
      <4>. QED  BY <4>1, <3>0, <2>g DEF OutInv
    <3>6. EndInv'
      BY <3>0, <2>d, <2>g DEF EndInv
    <3>. QED  BY <3>1, <3>2, <3>3, <3>4, <3>5, <3>6
  <2>6. HonestInv'
    <3>1. nat'.wild = nat.wild
      BY <1>t, <1>1 DEF NativeState
    <3>. QED  BY <3>1, <2>5, <1>1 DEF HonestInv, Honest
  <2>. QED  BY <2>1, <2>2, <2>3, <2>4, <2>6 DEF RelayInv, WholeInv
<1>2. ASSUME post.at = "read",
            ~run.aborted,
            relay' = [relay EXCEPT !.final = TRUE],
            post' = RelayIdle,
            nat' = [nat EXCEPT !.at = "answered"],
            UNCHANGED <<run, up, call, out, fault>>
     PROVE  RelayInv'
  <2>c. call' = call /\ Issued' = Issued
    BY <1>2 DEF Issued
  <2>g. /\ nat'.at = "answered" /\ nat'.todo = nat.todo /\ post'.at = "none" /\ run' = run /\ relay'.final
        /\ out' = out /\ relay'.finalObserved = relay.finalObserved
        /\ relay'.close = relay.close
    BY <1>t, <1>2 DEF NativeState, RelayIdle, RelayState
  <2>d. ~run.done /\ ~relay.finalObserved
    BY <1>0, <1>2 DEF CloseInv, DoneInv
  <2>1. RelayTypeOK'
    BY <1>t, <1>2 DEF RelayIdle, NativeState, PostState, RelayState, RelayTypeOK, RelayKinds, RelayFrame
  <2>2. StepsInv'
    BY <1>0, <1>t, <1>2 DEF RelayIdle, StepsInv, CallInv, Issued, NativeState
  <2>3. CloseInv'
    BY <1>0, <1>t, <1>2 DEF RelayIdle, CloseInv, PostState, RelayState
  <2>4. DoneInv'
    BY <1>0, <1>t, <1>2 DEF RelayIdle, DoneInv, WholeCall, Issued, RelayState
  <2>5. ASSUME Honest PROVE RpcInv' /\ RequestInv' /\ AnswerInv' /\ TodoInv' /\ OutInv' /\ EndInv'
    <3>0. RpcInv /\ RequestInv /\ AnswerInv /\ TodoInv /\ OutInv /\ EndInv
      BY <1>0, <2>5
    <3>w. nat.at = "waiting" /\ run.turn /\ run.step = 0
      BY <3>0, <1>2 DEF RpcInv, RequestInv, AnswerInv, LastInv, InTurn
    <3>1. RpcInv'
      BY <3>0, <1>t, <1>2 DEF RelayIdle, RpcInv, InTurn, NativeState, PostState
    <3>2. RequestInv'
      BY <3>0, <1>t, <1>2 DEF RelayIdle, RequestInv, InTurn, NativeState, PostState, RelayState
    <3>3. AnswerInv'
      <4>1. LastInv'
        BY <3>w, <2>c, <2>g DEF LastInv
      <4>2. ASSUME NEW d \in Issued PROVE AnswerOf(d)'
        <5>1. AnswerOf(d)
          BY <3>0 DEF AnswerInv
        <5>. QED  BY <5>1, <1>2, <2>c, <2>g, <3>w DEF AnswerOf
      <4>. QED  BY <4>1, <4>2, <2>c DEF AnswerInv
    <3>4. TodoInv'
      <4>s. \A d : Sent(out', "completed", d) <=> Sent(out, "completed", d)
        BY <2>g DEF Sent
      <4>o. Owed' = Owed
        BY <2>c, <2>g, <3>w DEF Owed
      <4>1. TodoKinds'
        BY <3>0, <3>w, <2>g DEF TodoInv, TodoKinds, InTurn, Reply
      <4>2. OwedInv'
        <5>1. OwedInv
          BY <3>0 DEF TodoInv
        <5>. QED  BY <5>1, <4>o, <4>s, <2>c, <2>g DEF OwedInv
      <4>3. UnansweredInv'
        BY <2>g DEF UnansweredInv
      <4>4. ASSUME NEW d \in Issued PROVE OwedOf(d)'
        <5>1. OwedOf(d)
          BY <3>0 DEF TodoInv
        <5>. QED  BY <5>1, <4>s, <4>o, <2>c, <2>g, <3>w DEF OwedOf
      <4>. QED  BY <4>1, <4>2, <4>3, <4>4, <2>c DEF TodoInv
    <3>5. OutInv'
      <4>1. ASSUME NEW i \in 1..Len(out) PROVE FrameInv(i)'
        <5>1. ReplyFrame(i) /\ CallFrame(i) /\ CompletedFrame(i) /\ FinalFrame(i)
          BY <3>0 DEF OutInv, FrameInv
        <5>2. ReplyFrame(i)'
          BY <5>1, <2>g, <3>w DEF ReplyFrame, Reply, InTurn
        <5>3. CallFrame(i)'
          BY <5>1, <2>g, <3>w DEF CallFrame
        <5>4. CompletedFrame(i)'
          BY <5>1, <2>g, <2>c DEF CompletedFrame
        <5>5. FinalFrame(i)'
          BY <5>1, <2>g, <3>w DEF FinalFrame
        <5>. QED  BY <5>2, <5>3, <5>4, <5>5 DEF FrameInv
      <4>. QED  BY <4>1, <3>0, <2>g DEF OutInv
    <3>6. EndInv'
      BY <3>0, <2>d, <2>g DEF EndInv
    <3>. QED  BY <3>1, <3>2, <3>3, <3>4, <3>5, <3>6
  <2>6. HonestInv'
    <3>1. nat'.wild = nat.wild
      BY <1>t, <1>2 DEF NativeState
    <3>. QED  BY <3>1, <2>5, <1>2 DEF HonestInv, Honest
  <2>. QED  BY <2>1, <2>2, <2>3, <2>4, <2>6 DEF RelayInv, WholeInv
<1>3. ASSUME post.at = "read",
            run' = Fail(run),
            relay' = [relay EXCEPT !.failure = TRUE],
            post' = RelayIdle,
            fault' = TRUE,
            UNCHANGED <<up, call, nat, out>>
     PROVE  RelayInv'
  <2>1. RelayTypeOK'
    BY <1>t, <1>3 DEF Fail, RelayIdle, PostState, RelayState, RelayTypeOK, RunState
  <2>2. StepsInv'
    BY <1>0, <1>t, <1>3 DEF Fail, RelayIdle, StepsInv, CallInv, Issued, RunState
  <2>3. CloseInv'
    BY <1>0, <1>t, <1>3 DEF Fail, RelayIdle, CloseInv, PostState, RelayState
  <2>4. DoneInv'
    BY <1>0, <1>t, <1>3 DEF Fail, RelayIdle, DoneInv, WholeCall, Issued, RelayState, RunState
  <2>5. HonestInv'
    BY <1>3 DEF HonestInv
  <2>. QED  BY <2>1, <2>2, <2>3, <2>4, <2>5 DEF RelayInv, WholeInv
<1>. QED
  BY <1>1, <1>2, <1>3 DEF ResponseEvents, RelayFail

LEMMA OperationExpiresKeeps ==
  ASSUME RelayInv, OperationExpires
  PROVE  RelayInv'
<1>0. RelayTypeOK /\ StepsInv /\ CloseInv /\ DoneInv
      /\ (Honest => RpcInv /\ RequestInv /\ AnswerInv /\ TodoInv /\ OutInv /\ EndInv)
  BY DEF RelayInv, WholeInv, HonestInv, Honest
<1>t. /\ run \in RunState /\ relay \in RelayState /\ post \in PostState /\ up \in {"none", "asked"}
      /\ call \in Seq(CallState) /\ nat \in NativeState /\ out \in Seq(FrameState) /\ fault \in BOOLEAN
  BY <1>0 DEF RelayTypeOK
<1>1. ASSUME post.at # "none",
            run' = Fail(run),
            relay' = [relay EXCEPT !.failure = TRUE],
            post' = RelayIdle,
            fault' = TRUE,
            UNCHANGED <<up, call, nat, out>>
     PROVE  RelayInv'
  <2>1. RelayTypeOK'
    BY <1>t, <1>1 DEF Fail, RelayIdle, PostState, RelayState, RelayTypeOK, RunState
  <2>2. StepsInv'
    BY <1>0, <1>t, <1>1 DEF Fail, RelayIdle, StepsInv, CallInv, Issued, RunState
  <2>3. CloseInv'
    BY <1>0, <1>t, <1>1 DEF Fail, RelayIdle, CloseInv, PostState, RelayState
  <2>4. DoneInv'
    BY <1>0, <1>t, <1>1 DEF Fail, RelayIdle, DoneInv, WholeCall, Issued, RelayState, RunState
  <2>5. HonestInv'
    BY <1>1 DEF HonestInv
  <2>. QED  BY <2>1, <2>2, <2>3, <2>4, <2>5 DEF RelayInv, WholeInv
<1>. QED
  BY <1>1 DEF OperationExpires, RelayFail

LEMMA NativeStartsKeeps ==
  ASSUME RelayInv, NativeStarts
  PROVE  RelayInv'
<1>0. RelayTypeOK /\ StepsInv /\ CloseInv /\ DoneInv
      /\ (Honest => RpcInv /\ RequestInv /\ AnswerInv /\ TodoInv /\ OutInv /\ EndInv)
  BY DEF RelayInv, WholeInv, HonestInv, Honest
<1>t. /\ run \in RunState /\ relay \in RelayState /\ post \in PostState /\ up \in {"none", "asked"}
      /\ call \in Seq(CallState) /\ nat \in NativeState /\ out \in Seq(FrameState) /\ fault \in BOOLEAN
  BY <1>0 DEF RelayTypeOK
<1>1. ASSUME NEW s \in {"initialize", "thread"},
            run.pend = s,
            s = "initialize" => nat.at = "boot",
            s = "thread" => nat.at = "initialize",
            nat' = [nat EXCEPT !.at = s, !.todo = {s}],
            UNCHANGED <<run, relay, post, up, call, out, fault>>
     PROVE  RelayInv'
  <2>1. RelayTypeOK'
    BY <1>t, <1>1 DEF NativeState, RelayTypeOK, RelayKinds, RelayFrame
  <2>2. CloseInv' /\ DoneInv'
    BY <1>0, <1>1 DEF CloseInv, DoneInv, WholeCall, Issued
  <2>3. StepsInv'
    BY <1>0, <1>t, <1>1 DEF StepsInv, CallInv, Issued, NativeState
  <2>4. ASSUME Honest PROVE RpcInv' /\ RequestInv' /\ AnswerInv' /\ TodoInv' /\ OutInv' /\ EndInv'
    <3>0. RpcInv /\ RequestInv /\ AnswerInv /\ TodoInv /\ OutInv /\ EndInv
      BY <1>0, <2>4
    <3>1. RpcInv'
      BY <3>0, <1>t, <1>1 DEF RpcInv, InTurn, NativeState
    <3>2. RequestInv'
      BY <3>0, <1>t, <1>1 DEF RequestInv, InTurn, NativeState
    <3>3. AnswerInv'
      BY <3>0, <1>t, <1>1 DEF AnswerInv, AnswerOf, LastInv, Issued, NativeState
    <3>4. TodoInv'
      BY <3>0, <1>t, <1>1 DEF TodoInv, TodoKinds, OwedInv, UnansweredInv, OwedOf, Owed, Sent, Issued, InTurn, Reply, NativeState
    <3>5. OutInv'
      BY <3>0, <1>t, <1>1 DEF OutInv, FrameInv, ReplyFrame, CallFrame, CompletedFrame, FinalFrame, Issued, InTurn, Reply, NativeState
    <3>6. EndInv'
      BY <3>0, <1>t, <1>1 DEF EndInv, NativeState
    <3>. QED  BY <3>1, <3>2, <3>3, <3>4, <3>5, <3>6
  <2>5. HonestInv'
    <3>1. nat'.wild = nat.wild
      BY <1>t, <1>1 DEF NativeState
    <3>. QED  BY <3>1, <2>4, <1>1 DEF HonestInv, Honest
  <2>. QED  BY <2>1, <2>2, <2>3, <2>5 DEF RelayInv, WholeInv
<1>2. ASSUME run.pend = "turn",
            nat.at = "thread",
            nat' = [nat EXCEPT !.at = "turning", !.todo = {"turn", "turnstarted"}],
            UNCHANGED <<run, relay, post, up, call, out, fault>>
     PROVE  RelayInv'
  <2>1. RelayTypeOK'
    BY <1>t, <1>2 DEF NativeState, RelayTypeOK, RelayKinds, RelayFrame
  <2>2. CloseInv' /\ DoneInv'
    BY <1>0, <1>2 DEF CloseInv, DoneInv, WholeCall, Issued
  <2>3. StepsInv'
    BY <1>0, <1>t, <1>2 DEF StepsInv, CallInv, Issued, NativeState
  <2>4. ASSUME Honest PROVE RpcInv' /\ RequestInv' /\ AnswerInv' /\ TodoInv' /\ OutInv' /\ EndInv'
    <3>0. RpcInv /\ RequestInv /\ AnswerInv /\ TodoInv /\ OutInv /\ EndInv
      BY <1>0, <2>4
    <3>1. RpcInv'
      BY <3>0, <1>t, <1>2 DEF RpcInv, InTurn, NativeState
    <3>2. RequestInv'
      BY <3>0, <1>t, <1>2 DEF RequestInv, InTurn, NativeState
    <3>3. AnswerInv'
      BY <3>0, <1>t, <1>2 DEF AnswerInv, AnswerOf, LastInv, Issued, NativeState
    <3>4. TodoInv'
      BY <3>0, <1>t, <1>2 DEF TodoInv, TodoKinds, OwedInv, UnansweredInv, OwedOf, Owed, Sent, Issued, InTurn, Reply, NativeState
    <3>5. OutInv'
      BY <3>0, <1>t, <1>2 DEF OutInv, FrameInv, ReplyFrame, CallFrame, CompletedFrame, FinalFrame, Issued, InTurn, Reply, NativeState
    <3>6. EndInv'
      BY <3>0, <1>t, <1>2 DEF EndInv, NativeState
    <3>. QED  BY <3>1, <3>2, <3>3, <3>4, <3>5, <3>6
  <2>5. HonestInv'
    <3>1. nat'.wild = nat.wild
      BY <1>t, <1>2 DEF NativeState
    <3>. QED  BY <3>1, <2>4, <1>2 DEF HonestInv, Honest
  <2>. QED  BY <2>1, <2>2, <2>3, <2>5 DEF RelayInv, WholeInv
<1>3. run.pend \in {"none", "initialize", "thread", "turn"}
  BY <1>t DEF RunState
<1>4. /\ run.pend = "initialize" => nat.at = "boot"
      /\ run.pend = "thread" => nat.at = "initialize"
      /\ run.pend = "turn" => nat.at = "thread"
      /\ run.pend # "none"
  <2>1. nat.at # "never"
    BY <1>t DEF NativeState
  <2>. QED  BY <1>3, <2>1 DEF NativeStarts
<1>5. CASE run.pend = "turn"
  <2>1. nat' = [nat EXCEPT !.at = "turning", !.todo = {"turn", "turnstarted"}]
    BY <1>5 DEF NativeStarts
  <2>. QED  BY <2>1, <1>2, <1>4, <1>5 DEF NativeStarts
<1>6. CASE run.pend \in {"initialize", "thread"}
  <2>1. nat' = [nat EXCEPT !.at = run.pend, !.todo = {run.pend}]
    BY <1>6 DEF NativeStarts
  <2>. QED  BY <2>1, <1>1, <1>4, <1>6 DEF NativeStarts
<1>. QED  BY <1>3, <1>4, <1>5, <1>6

LEMMA NativeEmitsKeeps ==
  ASSUME RelayInv, NativeEmits
  PROVE  RelayInv'
<1>0. RelayTypeOK /\ StepsInv /\ CloseInv /\ DoneInv
      /\ (Honest => RpcInv /\ RequestInv /\ AnswerInv /\ TodoInv /\ OutInv /\ EndInv)
  BY DEF RelayInv, WholeInv, HonestInv, Honest
<1>t. /\ run \in RunState /\ relay \in RelayState /\ post \in PostState /\ up \in {"none", "asked"}
      /\ call \in Seq(CallState) /\ nat \in NativeState /\ out \in Seq(FrameState) /\ fault \in BOOLEAN
  BY <1>0 DEF RelayTypeOK
<1>1. ASSUME NEW k \in nat.todo,
            NEW c \in Nat,
            c = IF k # "completed" THEN 0 ELSE Owed,
            nat' = [nat EXCEPT !.todo = @ \ {k}],
            out' = Append(out, RelayFrame(k, c)),
            UNCHANGED <<run, relay, post, up, call, fault>>
     PROVE  RelayInv'
  <2>p. /\ Len(out) \in Nat /\ Len(out') = Len(out) + 1 /\ out'[Len(out')] = RelayFrame(k, c)
        /\ RelayFrame(k, c).k = k /\ RelayFrame(k, c).c = c /\ Len(out') \in 1..Len(out')
        /\ \A i \in 1..Len(out) : i \in 1..Len(out') /\ out'[i] = out[i]
        /\ \A i \in 1..Len(out') : i \in 1..Len(out) \/ i = Len(out')
    <3>1. RelayFrame(k, c) \in FrameState /\ RelayFrame(k, c).k = k /\ RelayFrame(k, c).c = c
      BY <1>1, <1>t DEF RelayFrame, FrameState, NativeState
    <3>2. /\ Len(out) \in Nat /\ Len(out') = Len(out) + 1 /\ out'[Len(out')] = RelayFrame(k, c)
          /\ \A i \in 1..Len(out) : i \in 1..Len(out') /\ out'[i] = out[i]
          /\ \A i \in 1..Len(out') : i \in 1..Len(out) \/ i = Len(out')
      BY <3>1, <1>1, <1>t, AppendOne
    <3>. QED  BY <3>1, <3>2
  <2>s. \A q, d : Sent(out', q, d) <=> Sent(out, q, d) \/ (q = k /\ d = c)
    <3>1. ASSUME NEW q, NEW d, Sent(out', q, d) PROVE Sent(out, q, d) \/ (q = k /\ d = c)
      BY <3>1, <2>p DEF Sent
    <3>2. ASSUME NEW q, NEW d, Sent(out, q, d) PROVE Sent(out', q, d)
      BY <3>2, <2>p DEF Sent
    <3>3. Sent(out', k, c)
      BY <2>p DEF Sent
    <3>. QED  BY <3>1, <3>2, <3>3
  <2>g. /\ nat'.at = nat.at /\ nat'.todo = nat.todo \ {k} /\ call' = call /\ run' = run /\ relay' = relay
        /\ Issued' = Issued /\ Owed' = Owed
    BY <1>t, <1>1 DEF NativeState, Issued, Owed
  <2>1. RelayTypeOK'
    <3>1. RelayFrame(k, c) \in FrameState
      BY <1>1, <1>t DEF RelayFrame, FrameState, NativeState
    <3>2. out' \in Seq(FrameState)
      BY <3>1, <1>1, <1>t, AppendOne
    <3>3. nat' \in NativeState
      BY <1>t, <1>1 DEF NativeState
    <3>. QED  BY <3>2, <3>3, <1>t, <1>1 DEF RelayTypeOK
  <2>2. CloseInv' /\ DoneInv'
    BY <1>0, <1>1 DEF CloseInv, DoneInv, WholeCall, Issued
  <2>3. StepsInv'
    BY <1>0, <1>t, <1>1 DEF StepsInv, CallInv, Issued, NativeState
  <2>4. ASSUME Honest PROVE RpcInv' /\ RequestInv' /\ AnswerInv' /\ TodoInv' /\ OutInv' /\ EndInv'
    <3>0. RpcInv /\ RequestInv /\ AnswerInv /\ TodoInv /\ OutInv /\ EndInv
      BY <1>0, <2>4
    <3>w. /\ k \in Reply \cup {"turnstarted", "completed"} /\ nat.at # "over" /\ ~run.done
          /\ (k \in Reply => run.pend = k) /\ (k \in {"initialize", "thread"} => nat.at = k)
          /\ (k \notin {"initialize", "thread"} => nat.at \in InTurn)
          /\ (k = "completed" => nat.at # "calling")
      BY <3>0, <1>1 DEF TodoInv, TodoKinds, EndInv, Reply
    <3>o. k = "completed" =>
            c \in Issued /\ ~call[c].completed /\ call[c].output /\ ~Sent(out, "completed", c) /\ c = Owed
      BY <3>0, <1>1 DEF TodoInv, OwedInv
    <3>1. RpcInv'
      BY <3>0, <1>t, <1>1 DEF RpcInv, InTurn, NativeState
    <3>2. RequestInv'
      BY <3>0, <1>t, <1>1 DEF RequestInv, InTurn, NativeState
    <3>3. AnswerInv'
      BY <3>0, <1>t, <1>1 DEF AnswerInv, AnswerOf, LastInv, Issued, NativeState
    <3>4. TodoInv'
      <4>1. TodoKinds'
        BY <3>0, <2>g DEF TodoInv, TodoKinds, InTurn, Reply
      <4>2. OwedInv'
        <5> SUFFICES ASSUME "completed" \in nat.todo, k # "completed"
                     PROVE  OwedInv'
          BY <2>g DEF OwedInv
        <5>1. Owed \in Issued /\ ~call[Owed].completed /\ call[Owed].output /\ ~Sent(out, "completed", Owed)
          BY <3>0 DEF TodoInv, OwedInv
        <5>2. ~Sent(out', "completed", Owed)
          BY <5>1, <2>s
        <5>. QED  BY <5>1, <5>2, <2>g DEF OwedInv
      <4>3. UnansweredInv'
        <5> SUFFICES ASSUME nat.at \in {"called", "calling"}
                     PROVE  ~call[Len(call)].completed /\ ~Sent(out', "completed", Len(call))
          BY <2>g DEF UnansweredInv
        <5>1. ~call[Len(call)].completed /\ ~Sent(out, "completed", Len(call))
          BY <3>0 DEF TodoInv, UnansweredInv
        <5>2. k = "completed" => c # Len(call)
          <6>1. Len(call) \in Nat
            BY <1>t
          <6>. QED  BY <6>1, <3>w, <3>o DEF Owed
        <5>. QED  BY <5>1, <5>2, <2>s
      <4>4. ASSUME NEW d \in Issued PROVE OwedOf(d)'
        <5>1. OwedOf(d)
          BY <3>0 DEF TodoInv
        <5>2. Sent(out, "completed", d) => Sent(out', "completed", d)
          BY <2>s
        <5>3. "completed" \in nat.todo /\ d = Owed => "completed" \in nat'.todo \/ Sent(out', "completed", d)
          BY <2>s, <2>g, <3>o
        <5>. QED  BY <5>1, <5>2, <5>3, <2>g DEF OwedOf
      <4>. QED  BY <4>1, <4>2, <4>3, <4>4, <2>g DEF TodoInv
    <3>5. OutInv'
      <4>0. \A i \in 1..Len(out) : ReplyFrame(i) /\ CallFrame(i) /\ CompletedFrame(i) /\ FinalFrame(i)
        BY <3>0 DEF OutInv, FrameInv
      <4>1. ASSUME NEW i \in 1..Len(out) PROVE FrameInv(i)'
        <5>1. ReplyFrame(i) /\ CallFrame(i) /\ CompletedFrame(i) /\ FinalFrame(i)
          BY <4>0
        <5>g. out'[i] = out[i] /\ (i > 1 => out'[i - 1] = out[i - 1])
          BY <2>p
        <5>2. ReplyFrame(i)'
          BY <5>1, <5>g, <2>g DEF ReplyFrame, Reply, InTurn
        <5>3. CallFrame(i)'
          BY <5>1, <5>g, <2>g DEF CallFrame
        <5>4. CompletedFrame(i)'
          BY <5>1, <5>g, <2>g DEF CompletedFrame
        <5>5. FinalFrame(i)'
          BY <5>1, <5>g, <2>g, <3>w DEF FinalFrame
        <5>. QED  BY <5>2, <5>3, <5>4, <5>5 DEF FrameInv
      <4>3. ASSUME NEW i, i = Len(out') PROVE FrameInv(i)'
        <5>g. out'[i].k = k /\ out'[i].c = c /\ (k # "completed" => c = 0) /\ k \notin nat'.todo
          BY <4>3, <2>p, <2>g, <1>1
        <5>2. ReplyFrame(i)'
          BY <5>g, <2>g, <3>w DEF ReplyFrame, Reply, InTurn
        <5>3. CallFrame(i)' /\ FinalFrame(i)'
          BY <5>g, <3>w DEF CallFrame, FinalFrame, Reply
        <5>4. CompletedFrame(i)'
          BY <5>g, <2>g, <3>o DEF CompletedFrame
        <5>. QED  BY <5>2, <5>3, <5>4 DEF FrameInv
      <4>4. \A i \in 1..Len(out') : FrameInv(i)'
        BY <4>1, <4>3, <2>p
      <4>5. ASSUME NEW i \in 1..Len(out) PROVE ~(out[i].k = k /\ out[i].c = c)
        <5>1. k = "completed" => ~(out[i].k = k /\ out[i].c = c)
          BY <3>o DEF Sent
        <5>2. k # "completed" => out[i].k # k
          BY <4>0, <3>w, <1>1 DEF ReplyFrame
        <5>. QED  BY <5>1, <5>2
      <4>6. ASSUME NEW i \in 1..Len(out'), NEW j \in 1..Len(out'), out'[i].k = out'[j].k, out'[i].c = out'[j].c
            PROVE  i = j
        <5>1. \A l, m \in 1..Len(out) : out[l].k = out[m].k /\ out[l].c = out[m].c => l = m
          BY <3>0 DEF OutInv
        <5>. QED  BY <5>1, <4>5, <4>6, <2>p
      <4>. QED  BY <4>4, <4>6 DEF OutInv
    <3>6. EndInv'
      BY <3>0, <3>w, <2>g DEF EndInv
    <3>. QED  BY <3>1, <3>2, <3>3, <3>4, <3>5, <3>6
  <2>5. HonestInv'
    <3>1. nat'.wild = nat.wild
      BY <1>t, <1>1 DEF NativeState
    <3>. QED  BY <3>1, <2>4, <1>1 DEF HonestInv, Honest
  <2>. QED  BY <2>1, <2>2, <2>3, <2>5 DEF RelayInv, WholeInv
<1>2. Owed \in Nat
  <2>1. Len(call) \in Nat /\ (call # <<>> => Len(call) >= 1)
    BY <1>t, NonEmpty
  <2>2. nat.at = "called" => call # <<>>
    BY <1>0 DEF StepsInv
  <2>. QED  BY <2>1, <2>2 DEF Owed
<1>3. PICK k \in nat.todo : out' = Append(out, RelayFrame(k, IF k # "completed" THEN 0 ELSE Owed))
                            /\ nat' = [nat EXCEPT !.todo = @ \ {k}]
  BY DEF NativeEmits, Owed
<1>4. CASE k = "completed"
  <2>1. out' = Append(out, RelayFrame(k, Owed))
    BY <1>3, <1>4
  <2>. QED  BY <2>1, <1>1, <1>2, <1>3, <1>4 DEF NativeEmits
<1>5. CASE k # "completed"
  <2>1. out' = Append(out, RelayFrame(k, 0))
    BY <1>3, <1>5
  <2>. QED  BY <2>1, <1>1, <1>3, <1>5 DEF NativeEmits
<1>. QED  BY <1>4, <1>5

LEMMA NativePostsKeeps ==
  ASSUME RelayInv, NativePosts
  PROVE  RelayInv'
<1>0. RelayTypeOK /\ StepsInv /\ CloseInv /\ DoneInv
      /\ (Honest => RpcInv /\ RequestInv /\ AnswerInv /\ TodoInv /\ OutInv /\ EndInv)
  BY DEF RelayInv, WholeInv, HonestInv, Honest
<1>t. /\ run \in RunState /\ relay \in RelayState /\ post \in PostState /\ up \in {"none", "asked"}
      /\ call \in Seq(CallState) /\ nat \in NativeState /\ out \in Seq(FrameState) /\ fault \in BOOLEAN
  BY <1>0 DEF RelayTypeOK
<1>1. ASSUME nat.at = "turning",
            relay.close = "open",
            RequestOK,
            relay' = [relay EXCEPT !.requests = @ + 1],
            post' = [at |-> "body", exact |-> TRUE],
            nat' = [nat EXCEPT !.at = "waiting"],
            UNCHANGED <<run, up, call, out, fault>>
     PROVE  RelayInv'
  <2>1. RelayTypeOK'
    <3>1. relay' \in RelayState
      <4>1. relay.requests + 1 \in Nat
        BY <1>t DEF RelayState
      <4>. QED  BY <4>1, <1>t, <1>1 DEF RelayState
    <3>2. post' \in PostState
      BY <1>1 DEF PostState
    <3>3. nat' \in NativeState
      BY <1>t, <1>1 DEF NativeState
    <3>. QED  BY <3>1, <3>2, <3>3, <1>t, <1>1 DEF RelayTypeOK
  <2>2. StepsInv'
    BY <1>0, <1>t, <1>1 DEF StepsInv, CallInv, Issued, NativeState
  <2>3. CloseInv'
    <3>1. relay'.close = relay.close /\ relay'.closed = relay.closed /\ relay'.final = relay.final
          /\ relay'.finalObserved = relay.finalObserved /\ relay'.bodyFailed = relay.bodyFailed
      BY <1>t, <1>1 DEF RelayState
    <3>. QED  BY <3>1, <1>0, <1>1 DEF CloseInv, RequestOK
  <2>4. DoneInv'
    BY <1>0, <1>t, <1>1 DEF DoneInv, WholeCall, Issued, RelayState
  <2>5. ASSUME Honest PROVE RpcInv' /\ RequestInv' /\ AnswerInv' /\ TodoInv' /\ OutInv' /\ EndInv'
    <3>0. RpcInv /\ RequestInv /\ AnswerInv /\ TodoInv /\ OutInv /\ EndInv
      BY <1>0, <2>5
    <3>1. RpcInv'
      BY <3>0, <1>t, <1>1 DEF RpcInv, InTurn, NativeState, PostState
    <3>2. RequestInv'
      BY <3>0, <1>t, <1>1 DEF RequestInv, InTurn, NativeState, PostState, RelayState
    <3>3. AnswerInv'
      BY <3>0, <1>t, <1>1 DEF AnswerInv, AnswerOf, LastInv, Issued, NativeState, PostState, RelayState
    <3>4. TodoInv'
      BY <3>0, <1>t, <1>1 DEF TodoInv, TodoKinds, OwedInv, UnansweredInv, OwedOf, Owed, Sent, Issued, InTurn, Reply, NativeState
    <3>5. OutInv'
      BY <3>0, <1>t, <1>1 DEF OutInv, FrameInv, ReplyFrame, CallFrame, CompletedFrame, FinalFrame, Issued, InTurn, Reply, NativeState, RelayState
    <3>6. EndInv'
      BY <3>0, <1>t, <1>1 DEF EndInv, NativeState, RelayState
    <3>. QED  BY <3>1, <3>2, <3>3, <3>4, <3>5, <3>6
  <2>6. HonestInv'
    <3>1. nat'.wild = nat.wild
      BY <1>t, <1>1 DEF NativeState
    <3>. QED  BY <3>1, <2>5, <1>1 DEF HonestInv, Honest
  <2>. QED  BY <2>1, <2>2, <2>3, <2>4, <2>6 DEF RelayInv, WholeInv
<1>2. ASSUME nat.at = "turning",
            relay.close = "open",
            ~RequestOK,
            run' = Fail(run),
            relay' = [relay EXCEPT !.failure = TRUE],
            nat' = [nat EXCEPT !.at = "waiting"],
            UNCHANGED <<post, up, call, out, fault>>
     PROVE  RelayInv'
  <2>1. RelayTypeOK'
    BY <1>t, <1>2 DEF Fail, NativeState, RelayState, RelayTypeOK, RunState, RelayKinds, RelayFrame
  <2>2. StepsInv'
    BY <1>0, <1>t, <1>2 DEF Fail, StepsInv, CallInv, Issued, NativeState, RunState
  <2>3. CloseInv'
    BY <1>0, <1>t, <1>2 DEF Fail, CloseInv, RelayState
  <2>4. DoneInv'
    BY <1>0, <1>t, <1>2 DEF Fail, DoneInv, WholeCall, Issued, RelayState, RunState
  <2>5. ~Honest
    <3> SUFFICES ASSUME Honest PROVE FALSE
      OBVIOUS
    <3>1. /\ post.at = "none" /\ ~relay.failure /\ ~relay.final
          /\ relay.requests = Len(call) /\ Len(call) <= MaxIssued
      BY <1>0, <1>2 DEF RequestInv, InTurn
    <3>2. ~relay.closed
      BY <1>0, <1>2 DEF EndInv, CloseInv
    <3>. QED  BY <3>1, <3>2, <1>2 DEF RequestOK
  <2>6. HonestInv'
    BY <2>5, <1>2 DEF HonestInv, Honest
  <2>. QED  BY <2>1, <2>2, <2>3, <2>4, <2>6 DEF RelayInv, WholeInv
<1>. QED
  BY <1>1, <1>2 DEF NativePosts, Post, RelayFail

LEMMA NativeCallsKeeps ==
  ASSUME RelayInv, NativeCalls
  PROVE  RelayInv'
<1>0. RelayTypeOK /\ StepsInv /\ CloseInv /\ DoneInv
      /\ (Honest => RpcInv /\ RequestInv /\ AnswerInv /\ TodoInv /\ OutInv /\ EndInv)
  BY DEF RelayInv, WholeInv, HonestInv, Honest
<1>t. /\ run \in RunState /\ relay \in RelayState /\ post \in PostState /\ up \in {"none", "asked"}
      /\ call \in Seq(CallState) /\ nat \in NativeState /\ out \in Seq(FrameState) /\ fault \in BOOLEAN
  BY <1>0 DEF RelayTypeOK
<1>1. ASSUME nat.at = "called",
            "completed" \notin nat.todo,
            nat' = [nat EXCEPT !.at = "calling"],
            out' = out \o <<RelayFrame("started", Len(call)), RelayFrame("call", Len(call))>>,
            UNCHANGED <<run, relay, post, up, call, fault>>
     PROVE  RelayInv'
  <2>p. /\ out' \in Seq(FrameState) /\ Len(out) \in Nat /\ Len(out') = Len(out) + 2
        /\ out'[Len(out) + 1].k = "started" /\ out'[Len(out) + 1].c = Len(call)
        /\ out'[Len(out) + 2].k = "call" /\ out'[Len(out) + 2].c = Len(call)
        /\ \A i \in 1..Len(out) : i \in 1..Len(out') /\ out'[i] = out[i]
        /\ \A i \in 1..Len(out') : i \in 1..Len(out) \/ i = Len(out) + 1 \/ i = Len(out) + 2
    <3>1. Len(call) \in Nat
      BY <1>t
    <3>2. /\ RelayFrame("started", Len(call)) \in FrameState /\ RelayFrame("call", Len(call)) \in FrameState
          /\ RelayFrame("started", Len(call)).k = "started" /\ RelayFrame("started", Len(call)).c = Len(call)
          /\ RelayFrame("call", Len(call)).k = "call" /\ RelayFrame("call", Len(call)).c = Len(call)
      BY <3>1 DEF RelayFrame, FrameState, RelayKinds
    <3>3. /\ out' \in Seq(FrameState) /\ Len(out) \in Nat /\ Len(out') = Len(out) + 2
          /\ out'[Len(out) + 1] = RelayFrame("started", Len(call)) /\ out'[Len(out) + 2] = RelayFrame("call", Len(call))
          /\ \A i \in 1..Len(out) : i \in 1..Len(out') /\ out'[i] = out[i]
          /\ \A i \in 1..Len(out') : i \in 1..Len(out) \/ i = Len(out) + 1 \/ i = Len(out) + 2
      BY <3>2, <1>t, <1>1, AppendTwo
    <3>. QED  BY <3>2, <3>3
  <2>g. /\ nat'.at = "calling" /\ nat'.todo = nat.todo /\ call' = call /\ run' = run /\ relay' = relay
        /\ Issued' = Issued
    BY <1>t, <1>1 DEF NativeState, Issued
  <2>1. RelayTypeOK'
    <3>1. nat' \in NativeState
      BY <1>t, <1>1 DEF NativeState
    <3>. QED  BY <3>1, <2>p, <1>t, <1>1 DEF RelayTypeOK
  <2>2. CloseInv' /\ DoneInv'
    BY <1>0, <1>1 DEF CloseInv, DoneInv, WholeCall, Issued
  <2>3. StepsInv'
    BY <1>0, <1>t, <1>1 DEF StepsInv, CallInv, Issued, NativeState
  <2>4. ASSUME Honest PROVE RpcInv' /\ RequestInv' /\ AnswerInv' /\ TodoInv' /\ OutInv' /\ EndInv'
    <3>0. RpcInv /\ RequestInv /\ AnswerInv /\ TodoInv /\ OutInv /\ EndInv
      BY <1>0, <2>4
    <3>w. LET x == call[Len(call)]
          IN  Len(call) \in Issued /\ ~x.claimed /\ ~x.started /\ ~x.output
      <4>1. call # <<>> /\ Len(call) \in Issued
        BY <3>0, <1>1, <1>t, NonEmpty DEF AnswerInv, LastInv, Issued
      <4>2. ~call[Len(call)].claimed /\ ~call[Len(call)].started
        BY <3>0, <1>1 DEF AnswerInv, LastInv
      <4>3. CallInv(call[Len(call)])
        BY <4>1, <1>0 DEF StepsInv
      <4>. QED  BY <4>1, <4>2, <4>3 DEF CallInv
    <3>1. RpcInv'
      BY <3>0, <1>t, <1>1 DEF RpcInv, InTurn, NativeState
    <3>2. RequestInv'
      BY <3>0, <1>t, <1>1 DEF RequestInv, InTurn, NativeState
    <3>3. AnswerInv'
      BY <3>0, <1>t, <1>1 DEF AnswerInv, AnswerOf, LastInv, Issued, NativeState
    <3>4. TodoInv'
      <4>s. \A d : Sent(out', "completed", d) <=> Sent(out, "completed", d)
        BY <2>p DEF Sent
      <4>1. TodoKinds'
        BY <3>0, <2>g, <1>1 DEF TodoInv, TodoKinds, InTurn, Reply
      <4>2. OwedInv'
        BY <2>g, <1>1 DEF OwedInv
      <4>3. UnansweredInv'
        <5>1. ~call[Len(call)].completed /\ ~Sent(out, "completed", Len(call))
          BY <3>0, <1>1 DEF TodoInv, UnansweredInv
        <5>. QED  BY <5>1, <4>s, <2>g DEF UnansweredInv
      <4>4. ASSUME NEW d \in Issued PROVE OwedOf(d)'
        <5>1. OwedOf(d)
          BY <3>0 DEF TodoInv
        <5>. QED  BY <5>1, <4>s, <2>g, <1>1 DEF OwedOf
      <4>. QED  BY <4>1, <4>2, <4>3, <4>4, <2>g DEF TodoInv
    <3>5. OutInv'
      <4>0. \A i \in 1..Len(out) : ReplyFrame(i) /\ CallFrame(i) /\ CompletedFrame(i) /\ FinalFrame(i)
        BY <3>0 DEF OutInv, FrameInv
      <4>o. \A i \in 1..Len(out) : out[i].k \notin {"started", "call", "final", "turncompleted"}
        BY <4>0, <1>1 DEF CallFrame, FinalFrame
      <4>1. ASSUME NEW i \in 1..Len(out) PROVE FrameInv(i)'
        <5>1. ReplyFrame(i) /\ CompletedFrame(i)
          BY <4>0
        <5>g. out'[i] = out[i] /\ out[i].k \notin {"started", "call", "final", "turncompleted"}
          BY <2>p, <4>o
        <5>2. ReplyFrame(i)'
          BY <5>1, <5>g, <2>g, <1>1 DEF ReplyFrame, Reply, InTurn
        <5>3. CallFrame(i)' /\ FinalFrame(i)'
          BY <5>g DEF CallFrame, FinalFrame
        <5>4. CompletedFrame(i)'
          BY <5>1, <5>g, <2>g DEF CompletedFrame
        <5>. QED  BY <5>2, <5>3, <5>4 DEF FrameInv
      <4>2. ASSUME NEW i, i = Len(out) + 1 PROVE FrameInv(i)'
        <5>g. out'[i].k = "started" /\ out'[i].c = Len(call)
          BY <4>2, <2>p
        <5>. QED  BY <5>g, <2>g, <3>w DEF FrameInv, ReplyFrame, CallFrame, CompletedFrame, FinalFrame, Reply, InTurn
      <4>3. ASSUME NEW i, i = Len(out) + 2 PROVE FrameInv(i)'
        <5>g. out'[i].k = "call" /\ out'[i].c = Len(call) /\ i > 1 /\ i = Len(out') /\ out'[i - 1].k = "started"
          <6>1. i - 1 = Len(out) + 1 /\ i > 1 /\ i = Len(out')
            BY <4>3, <2>p
          <6>2. out'[i - 1] = out'[Len(out) + 1]
            BY <6>1
          <6>. QED  BY <6>1, <6>2, <4>3, <2>p
        <5>. QED  BY <5>g, <2>g, <3>w DEF FrameInv, ReplyFrame, CallFrame, CompletedFrame, FinalFrame, Reply, InTurn
      <4>4. \A i \in 1..Len(out') : FrameInv(i)'
        BY <4>1, <4>2, <4>3, <2>p
      <4>6. ASSUME NEW i \in 1..Len(out'), NEW j \in 1..Len(out'), out'[i].k = out'[j].k, out'[i].c = out'[j].c
            PROVE  i = j
        <5>1. \A l, m \in 1..Len(out) : out[l].k = out[m].k /\ out[l].c = out[m].c => l = m
          BY <3>0 DEF OutInv
        <5>. QED  BY <5>1, <4>o, <4>6, <2>p
      <4>. QED  BY <4>4, <4>6 DEF OutInv
    <3>6. EndInv'
      BY <3>0, <1>t, <1>1 DEF EndInv, NativeState
    <3>. QED  BY <3>1, <3>2, <3>3, <3>4, <3>5, <3>6
  <2>5. HonestInv'
    <3>1. nat'.wild = nat.wild
      BY <1>t, <1>1 DEF NativeState
    <3>. QED  BY <3>1, <2>4, <1>1 DEF HonestInv, Honest
  <2>. QED  BY <2>1, <2>2, <2>3, <2>5 DEF RelayInv, WholeInv
<1>. QED
  BY <1>1 DEF NativeCalls

LEMMA NativeGetsAnswerKeeps ==
  ASSUME RelayInv, NativeGetsAnswer
  PROVE  RelayInv'
<1>0. RelayTypeOK /\ StepsInv /\ CloseInv /\ DoneInv
      /\ (Honest => RpcInv /\ RequestInv /\ AnswerInv /\ TodoInv /\ OutInv /\ EndInv)
  BY DEF RelayInv, WholeInv, HonestInv, Honest
<1>t. /\ run \in RunState /\ relay \in RelayState /\ post \in PostState /\ up \in {"none", "asked"}
      /\ call \in Seq(CallState) /\ nat \in NativeState /\ out \in Seq(FrameState) /\ fault \in BOOLEAN
  BY <1>0 DEF RelayTypeOK
<1>1. ASSUME nat.at = "calling",
            call[Len(call)].write # "none",
            nat' = [nat EXCEPT !.at = "turning", !.todo = @ \cup {"completed"}],
            UNCHANGED <<run, relay, post, up, call, out, fault>>
     PROVE  RelayInv'
  <2>1. RelayTypeOK'
    BY <1>t, <1>1 DEF NativeState, RelayTypeOK, RelayKinds, RelayFrame
  <2>2. CloseInv' /\ DoneInv'
    BY <1>0, <1>1 DEF CloseInv, DoneInv, WholeCall, Issued
  <2>3. StepsInv'
    BY <1>0, <1>t, <1>1 DEF StepsInv, CallInv, Issued, NativeState
  <2>4. ASSUME Honest PROVE RpcInv' /\ RequestInv' /\ AnswerInv' /\ TodoInv' /\ OutInv' /\ EndInv'
    <3>0. RpcInv /\ RequestInv /\ AnswerInv /\ TodoInv /\ OutInv /\ EndInv
      BY <1>0, <2>4
    <3>w. LET x == call[Len(call)]
          IN  /\ Len(call) \in Issued /\ x.claimed /\ x.started /\ x.output /\ ~x.completed
              /\ ~Sent(out, "completed", Len(call))
      <4>1. call # <<>> /\ Len(call) \in Issued
        BY <3>0, <1>1, <1>t, NonEmpty DEF AnswerInv, LastInv, Issued
      <4>2. AnswerOf(Len(call)) /\ CallInv(call[Len(call)])
        BY <4>1, <3>0, <1>0 DEF AnswerInv, StepsInv
      <4>3. ~call[Len(call)].completed /\ ~Sent(out, "completed", Len(call))
        BY <3>0, <1>1 DEF TodoInv, UnansweredInv
      <4>. QED  BY <4>1, <4>2, <4>3, <1>1 DEF AnswerOf, CallInv
    <3>g. /\ nat'.at = "turning" /\ nat'.todo = nat.todo \cup {"completed"} /\ "completed" \notin nat.todo
          /\ call' = call /\ out' = out /\ run' = run /\ relay' = relay /\ Issued' = Issued
      BY <1>t, <1>1, <3>0 DEF NativeState, Issued, TodoInv, TodoKinds
    <3>1. RpcInv'
      BY <3>0, <1>t, <1>1 DEF RpcInv, InTurn, NativeState
    <3>2. RequestInv'
      BY <3>0, <1>t, <1>1 DEF RequestInv, InTurn, NativeState
    <3>3. AnswerInv'
      BY <3>0, <1>t, <1>1 DEF AnswerInv, AnswerOf, LastInv, Issued, NativeState
    <3>4. TodoInv'
      <4>o. Owed' = Len(call)
        BY <3>g DEF Owed
      <4>s. \A d : Sent(out', "completed", d) <=> Sent(out, "completed", d)
        BY <3>g DEF Sent
      <4>1. TodoKinds'
        BY <3>0, <3>g, <1>1 DEF TodoInv, TodoKinds, InTurn, Reply
      <4>2. OwedInv'
        BY <3>w, <3>g, <4>o, <4>s DEF OwedInv
      <4>3. UnansweredInv'
        BY <3>g DEF UnansweredInv
      <4>4. ASSUME NEW d \in Issued PROVE OwedOf(d)'
        <5>1. OwedOf(d)
          BY <3>0 DEF TodoInv
        <5>. QED  BY <5>1, <4>s, <4>o, <3>g DEF OwedOf
      <4>. QED  BY <4>1, <4>2, <4>3, <4>4, <3>g DEF TodoInv
    <3>5. OutInv'
      <4>1. ASSUME NEW i \in 1..Len(out) PROVE FrameInv(i)'
        <5>1. ReplyFrame(i) /\ CallFrame(i) /\ CompletedFrame(i) /\ FinalFrame(i)
          BY <3>0 DEF OutInv, FrameInv
        <5>2. ReplyFrame(i)'
          BY <5>1, <3>g, <1>1 DEF ReplyFrame, Reply, InTurn
        <5>3. CallFrame(i)'
          BY <5>1, <3>g, <3>w DEF CallFrame
        <5>4. CompletedFrame(i)'
          BY <5>1, <3>g DEF CompletedFrame
        <5>5. FinalFrame(i)'
          BY <5>1, <3>g, <1>1 DEF FinalFrame
        <5>. QED  BY <5>2, <5>3, <5>4, <5>5 DEF FrameInv
      <4>. QED  BY <4>1, <3>0, <3>g DEF OutInv
    <3>6. EndInv'
      BY <3>0, <1>t, <1>1 DEF EndInv, NativeState
    <3>. QED  BY <3>1, <3>2, <3>3, <3>4, <3>5, <3>6
  <2>5. HonestInv'
    <3>1. nat'.wild = nat.wild
      BY <1>t, <1>1 DEF NativeState
    <3>. QED  BY <3>1, <2>4, <1>1 DEF HonestInv, Honest
  <2>. QED  BY <2>1, <2>2, <2>3, <2>5 DEF RelayInv, WholeInv
<1>. QED
  BY <1>1 DEF NativeGetsAnswer

LEMMA NativeFinishesKeeps ==
  ASSUME RelayInv, NativeFinishes
  PROVE  RelayInv'
<1>0. RelayTypeOK /\ StepsInv /\ CloseInv /\ DoneInv
      /\ (Honest => RpcInv /\ RequestInv /\ AnswerInv /\ TodoInv /\ OutInv /\ EndInv)
  BY DEF RelayInv, WholeInv, HonestInv, Honest
<1>t. /\ run \in RunState /\ relay \in RelayState /\ post \in PostState /\ up \in {"none", "asked"}
      /\ call \in Seq(CallState) /\ nat \in NativeState /\ out \in Seq(FrameState) /\ fault \in BOOLEAN
  BY <1>0 DEF RelayTypeOK
<1>1. ASSUME nat.at = "answered",
            nat.todo = {},
            nat' = [nat EXCEPT !.at = "over"],
            out' = out \o <<RelayFrame("final", 0), RelayFrame("turncompleted", 0)>>,
            UNCHANGED <<run, relay, post, up, call, fault>>
     PROVE  RelayInv'
  <2>p. /\ out' \in Seq(FrameState) /\ Len(out) \in Nat /\ Len(out') = Len(out) + 2
        /\ out'[Len(out) + 1].k = "final" /\ out'[Len(out) + 1].c = 0
        /\ out'[Len(out) + 2].k = "turncompleted" /\ out'[Len(out) + 2].c = 0
        /\ \A i \in 1..Len(out) : i \in 1..Len(out') /\ out'[i] = out[i]
        /\ \A i \in 1..Len(out') : i \in 1..Len(out) \/ i = Len(out) + 1 \/ i = Len(out) + 2
    <3>1. Len(call) \in Nat
      BY <1>t
    <3>2. /\ RelayFrame("final", 0) \in FrameState /\ RelayFrame("turncompleted", 0) \in FrameState
          /\ RelayFrame("final", 0).k = "final" /\ RelayFrame("final", 0).c = 0
          /\ RelayFrame("turncompleted", 0).k = "turncompleted" /\ RelayFrame("turncompleted", 0).c = 0
      BY <3>1 DEF RelayFrame, FrameState, RelayKinds
    <3>3. /\ out' \in Seq(FrameState) /\ Len(out) \in Nat /\ Len(out') = Len(out) + 2
          /\ out'[Len(out) + 1] = RelayFrame("final", 0) /\ out'[Len(out) + 2] = RelayFrame("turncompleted", 0)
          /\ \A i \in 1..Len(out) : i \in 1..Len(out') /\ out'[i] = out[i]
          /\ \A i \in 1..Len(out') : i \in 1..Len(out) \/ i = Len(out) + 1 \/ i = Len(out) + 2
      BY <3>2, <1>t, <1>1, AppendTwo
    <3>. QED  BY <3>2, <3>3
  <2>g. /\ nat'.at = "over" /\ nat'.todo = nat.todo /\ call' = call /\ run' = run /\ relay' = relay
        /\ Issued' = Issued
    BY <1>t, <1>1 DEF NativeState, Issued
  <2>1. RelayTypeOK'
    <3>1. nat' \in NativeState
      BY <1>t, <1>1 DEF NativeState
    <3>. QED  BY <3>1, <2>p, <1>t, <1>1 DEF RelayTypeOK
  <2>2. CloseInv' /\ DoneInv'
    BY <1>0, <1>1 DEF CloseInv, DoneInv, WholeCall, Issued
  <2>3. StepsInv'
    BY <1>0, <1>t, <1>1 DEF StepsInv, CallInv, Issued, NativeState
  <2>4. ASSUME Honest PROVE RpcInv' /\ RequestInv' /\ AnswerInv' /\ TodoInv' /\ OutInv' /\ EndInv'
    <3>0. RpcInv /\ RequestInv /\ AnswerInv /\ TodoInv /\ OutInv /\ EndInv
      BY <1>0, <2>4
    <3>w. ~run.done /\ ~relay.finalObserved
      BY <3>0, <1>1 DEF EndInv
    <3>1. RpcInv'
      BY <3>0, <1>t, <1>1 DEF RpcInv, InTurn, NativeState
    <3>2. RequestInv'
      BY <3>0, <1>t, <1>1 DEF RequestInv, InTurn, NativeState
    <3>3. AnswerInv'
      BY <3>0, <1>t, <1>1 DEF AnswerInv, AnswerOf, LastInv, Issued, NativeState
    <3>4. TodoInv'
      BY <3>0, <1>t, <1>1 DEF TodoInv, TodoKinds, OwedInv, UnansweredInv, OwedOf, Owed, Sent, Issued, InTurn, Reply, NativeState
    <3>5. OutInv'
      <4>0. \A i \in 1..Len(out) : ReplyFrame(i) /\ CallFrame(i) /\ CompletedFrame(i) /\ FinalFrame(i)
        BY <3>0 DEF OutInv, FrameInv
      <4>o. \A i \in 1..Len(out) : out[i].k \notin {"started", "call", "final", "turncompleted"}
        BY <4>0, <1>1 DEF CallFrame, FinalFrame
      <4>1. ASSUME NEW i \in 1..Len(out) PROVE FrameInv(i)'
        <5>1. ReplyFrame(i) /\ CompletedFrame(i)
          BY <4>0
        <5>g. out'[i] = out[i] /\ out[i].k \notin {"started", "call", "final", "turncompleted"}
          BY <2>p, <4>o
        <5>2. ReplyFrame(i)'
          BY <5>1, <5>g, <2>g, <1>1 DEF ReplyFrame, Reply, InTurn
        <5>3. CallFrame(i)' /\ FinalFrame(i)'
          BY <5>g DEF CallFrame, FinalFrame
        <5>4. CompletedFrame(i)'
          BY <5>1, <5>g, <2>g DEF CompletedFrame
        <5>. QED  BY <5>2, <5>3, <5>4 DEF FrameInv
      <4>2. ASSUME NEW i, i = Len(out) + 1 PROVE FrameInv(i)'
        <5>g. out'[i].k = "final" /\ out'[i].c = 0
          BY <4>2, <2>p
        <5>. QED  BY <5>g, <2>g, <3>w DEF FrameInv, ReplyFrame, CallFrame, CompletedFrame, FinalFrame, Reply, InTurn
      <4>3. ASSUME NEW i, i = Len(out) + 2 PROVE FrameInv(i)'
        <5>g. out'[i].k = "turncompleted" /\ out'[i].c = 0 /\ i > 1 /\ i = Len(out') /\ out'[i - 1].k = "final"
          <6>1. i - 1 = Len(out) + 1 /\ i > 1 /\ i = Len(out')
            BY <4>3, <2>p
          <6>2. out'[i - 1] = out'[Len(out) + 1]
            BY <6>1
          <6>. QED  BY <6>1, <6>2, <4>3, <2>p
        <5>. QED  BY <5>g, <2>g, <3>w DEF FrameInv, ReplyFrame, CallFrame, CompletedFrame, FinalFrame, Reply, InTurn
      <4>4. \A i \in 1..Len(out') : FrameInv(i)'
        BY <4>1, <4>2, <4>3, <2>p
      <4>6. ASSUME NEW i \in 1..Len(out'), NEW j \in 1..Len(out'), out'[i].k = out'[j].k, out'[i].c = out'[j].c
            PROVE  i = j
        <5>1. \A l, m \in 1..Len(out) : out[l].k = out[m].k /\ out[l].c = out[m].c => l = m
          BY <3>0 DEF OutInv
        <5>. QED  BY <5>1, <4>o, <4>6, <2>p
      <4>. QED  BY <4>4, <4>6 DEF OutInv
    <3>6. EndInv'
      BY <3>0, <1>t, <1>1 DEF EndInv, NativeState
    <3>. QED  BY <3>1, <3>2, <3>3, <3>4, <3>5, <3>6
  <2>5. HonestInv'
    <3>1. nat'.wild = nat.wild
      BY <1>t, <1>1 DEF NativeState
    <3>. QED  BY <3>1, <2>4, <1>1 DEF HonestInv, Honest
  <2>. QED  BY <2>1, <2>2, <2>3, <2>5 DEF RelayInv, WholeInv
<1>. QED
  BY <1>1 DEF NativeFinishes

LEMMA NativeWildKeeps ==
  ASSUME RelayInv, NativeWild
  PROVE  RelayInv'
<1>0. RelayTypeOK /\ StepsInv /\ CloseInv /\ DoneInv
      /\ (Honest => RpcInv /\ RequestInv /\ AnswerInv /\ TodoInv /\ OutInv /\ EndInv)
  BY DEF RelayInv, WholeInv, HonestInv, Honest
<1>t. /\ run \in RunState /\ relay \in RelayState /\ post \in PostState /\ up \in {"none", "asked"}
      /\ call \in Seq(CallState) /\ nat \in NativeState /\ out \in Seq(FrameState) /\ fault \in BOOLEAN
  BY <1>0 DEF RelayTypeOK
<1>1. ASSUME NEW k \in RelayKinds,
            NEW c \in Nat,
            nat' = [nat EXCEPT !.wild = @ + 1],
            out' = Append(out, RelayFrame(k, c)),
            UNCHANGED <<run, relay, post, up, call, fault>>
     PROVE  RelayInv'
  <2>1. RelayTypeOK'
    <3>1. RelayFrame(k, c) \in FrameState
      BY <1>1, <1>t DEF RelayFrame, FrameState
    <3>2. out' \in Seq(FrameState)
      BY <3>1, <1>1, <1>t, AppendOne
    <3>3. nat' \in NativeState
      <4>1. nat.wild + 1 \in Nat /\ nat \in NativeState
        BY <1>t DEF NativeState
      <4>2. nat' = [nat EXCEPT !.wild = nat.wild + 1]
        BY <1>1
      <4>. QED  BY <4>1, <4>2 DEF NativeState
    <3>. QED  BY <3>2, <3>3, <1>t, <1>1 DEF RelayTypeOK
  <2>2. CloseInv' /\ DoneInv'
    BY <1>0, <1>1 DEF CloseInv, DoneInv, WholeCall, Issued
  <2>3. StepsInv'
    BY <1>0, <1>t, <1>1 DEF StepsInv, CallInv, Issued, NativeState
  <2>4. HonestInv'
    <3>1. nat'.wild # 0
      BY <1>t, <1>1 DEF NativeState
    <3>. QED  BY <3>1 DEF HonestInv
  <2>. QED  BY <2>1, <2>2, <2>3, <2>4 DEF RelayInv, WholeInv
<1>2. ASSUME relay.close = "open",
            RequestOK,
            NEW e \in BOOLEAN,
            relay' = [relay EXCEPT !.requests = @ + 1],
            post' = [at |-> "body", exact |-> e],
            nat' = [nat EXCEPT !.wild = @ + 1],
            UNCHANGED <<run, up, call, out, fault>>
     PROVE  RelayInv'
  <2>1. RelayTypeOK'
    <3>1. relay' \in RelayState
      <4>1. relay.requests + 1 \in Nat
        BY <1>t DEF RelayState
      <4>. QED  BY <4>1, <1>t, <1>2 DEF RelayState
    <3>2. post' \in PostState
      BY <1>2 DEF PostState
    <3>3. nat' \in NativeState
      BY <1>t, <1>2 DEF NativeState
    <3>. QED  BY <3>1, <3>2, <3>3, <1>t, <1>2 DEF RelayTypeOK
  <2>2. StepsInv'
    BY <1>0, <1>t, <1>2 DEF StepsInv, CallInv, Issued, NativeState
  <2>3. CloseInv'
    <3>1. relay'.close = relay.close /\ relay'.closed = relay.closed /\ relay'.final = relay.final
          /\ relay'.finalObserved = relay.finalObserved /\ relay'.bodyFailed = relay.bodyFailed
      BY <1>t, <1>2 DEF RelayState
    <3>. QED  BY <3>1, <1>0, <1>2 DEF CloseInv, RequestOK
  <2>4. DoneInv'
    BY <1>0, <1>t, <1>2 DEF DoneInv, WholeCall, Issued, RelayState
  <2>5. HonestInv'
    <3>1. nat'.wild # 0
      BY <1>t, <1>2 DEF NativeState
    <3>. QED  BY <3>1 DEF HonestInv
  <2>. QED  BY <2>1, <2>2, <2>3, <2>4, <2>5 DEF RelayInv, WholeInv
<1>3. ASSUME relay.close = "open",
            run' = Fail(run),
            relay' = [relay EXCEPT !.failure = TRUE],
            nat' = [nat EXCEPT !.wild = @ + 1],
            UNCHANGED <<post, up, call, out, fault>>
     PROVE  RelayInv'
  <2>1. RelayTypeOK'
    <3>1. run' \in RunState
      BY <1>t, <1>3 DEF Fail, RunState
    <3>2. relay' \in RelayState
      BY <1>t, <1>3 DEF RelayState
    <3>3. nat' \in NativeState
      BY <1>t, <1>3 DEF NativeState
    <3>. QED  BY <3>1, <3>2, <3>3, <1>t, <1>3 DEF RelayTypeOK
  <2>2. StepsInv'
    BY <1>0, <1>t, <1>3 DEF Fail, StepsInv, CallInv, Issued, NativeState, RunState
  <2>3. CloseInv'
    BY <1>0, <1>t, <1>3 DEF Fail, CloseInv, RelayState
  <2>4. DoneInv'
    BY <1>0, <1>t, <1>3 DEF Fail, DoneInv, WholeCall, Issued, RelayState, RunState
  <2>5. HonestInv'
    <3>1. nat'.wild # 0
      BY <1>t, <1>3 DEF NativeState
    <3>. QED  BY <3>1 DEF HonestInv
  <2>. QED  BY <2>1, <2>2, <2>3, <2>4, <2>5 DEF RelayInv, WholeInv
<1>4. ASSUME NEW k \in RelayKinds, NEW c \in RelayCalls,
             out' = Append(out, RelayFrame(k, IF k \in {"started", "call", "completed"} THEN c ELSE 0)),
             nat' = [nat EXCEPT !.wild = @ + 1], UNCHANGED <<run, relay, post, up, call, fault>>
      PROVE  RelayInv'
  <2>1. (IF k \in {"started", "call", "completed"} THEN c ELSE 0) \in Nat
    BY RelayBounds DEF RelayCalls
  <2>. QED  BY <2>1, <1>1, <1>4
<1>5. ASSUME NEW e \in BOOLEAN, Post(e), relay.close = "open",
             nat' = [nat EXCEPT !.wild = @ + 1], UNCHANGED <<up, call, out, fault>>
      PROVE  RelayInv'
  BY <1>2, <1>3, <1>5 DEF Post, RelayFail
<1>. QED
  BY <1>4, <1>5 DEF NativeWild

LEMMA BreaksKeeps ==
  ASSUME RelayInv, Breaks
  PROVE  RelayInv'
<1>0. RelayTypeOK /\ StepsInv /\ CloseInv /\ DoneInv
      /\ (Honest => RpcInv /\ RequestInv /\ AnswerInv /\ TodoInv /\ OutInv /\ EndInv)
  BY DEF RelayInv, WholeInv, HonestInv, Honest
<1>t. /\ run \in RunState /\ relay \in RelayState /\ post \in PostState /\ up \in {"none", "asked"}
      /\ call \in Seq(CallState) /\ nat \in NativeState /\ out \in Seq(FrameState) /\ fault \in BOOLEAN
  BY <1>0 DEF RelayTypeOK
<1>1. ASSUME run.at \in {"run", "drain"},
            run' = Fail(run),
            fault' = TRUE,
            UNCHANGED <<relay, post, up, call, nat, out>>
     PROVE  RelayInv'
  <2>1. RelayTypeOK'
    BY <1>t, <1>1 DEF Fail, RelayTypeOK, RunState
  <2>2. CloseInv'
    BY <1>0, <1>1 DEF CloseInv
  <2>3. StepsInv'
    BY <1>0, <1>t, <1>1 DEF Fail, StepsInv, CallInv, Issued, RunState
  <2>4. DoneInv'
    BY <1>0, <1>t, <1>1 DEF Fail, DoneInv, WholeCall, Issued, RunState
  <2>5. HonestInv'
    BY <1>1 DEF HonestInv
  <2>. QED  BY <2>1, <2>2, <2>3, <2>4, <2>5 DEF RelayInv, WholeInv
<1>. QED
  BY <1>1 DEF Breaks

LEMMA StopProcessKeeps ==
  ASSUME RelayInv, StopProcess
  PROVE  RelayInv'
<1>0. RelayTypeOK /\ StepsInv /\ CloseInv /\ DoneInv
      /\ (Honest => RpcInv /\ RequestInv /\ AnswerInv /\ TodoInv /\ OutInv /\ EndInv)
  BY DEF RelayInv, WholeInv, HonestInv, Honest
<1>t. /\ run \in RunState /\ relay \in RelayState /\ post \in PostState /\ up \in {"none", "asked"}
      /\ call \in Seq(CallState) /\ nat \in NativeState /\ out \in Seq(FrameState) /\ fault \in BOOLEAN
  BY <1>0 DEF RelayTypeOK
<1>1. ASSUME run.at = "clean",
            run.process = "up",
            run' = [run EXCEPT !.process = "gone"],
            UNCHANGED <<relay, post, up, call, nat, out, fault>>
     PROVE  RelayInv'
  <2>1. RelayTypeOK'
    BY <1>t, <1>1 DEF RelayTypeOK, RunState
  <2>2. CloseInv'
    BY <1>0, <1>1 DEF CloseInv
  <2>3. StepsInv'
    BY <1>0, <1>t, <1>1 DEF StepsInv, CallInv, Issued, RunState
  <2>4. DoneInv'
    BY <1>0, <1>t, <1>1 DEF DoneInv, WholeCall, Issued, RunState
  <2>5. ASSUME Honest PROVE RpcInv' /\ RequestInv' /\ AnswerInv' /\ TodoInv' /\ OutInv' /\ EndInv'
    <3>0. RpcInv /\ RequestInv /\ AnswerInv /\ TodoInv /\ OutInv /\ EndInv
      BY <1>0, <2>5
    <3>1. RequestInv'
      BY <3>0, <1>1 DEF RequestInv, InTurn
    <3>2. RpcInv'
      BY <3>0, <1>t, <1>1 DEF RpcInv, InTurn, RunState
    <3>3. AnswerInv'
      BY <3>0, <1>t, <1>1 DEF AnswerInv, AnswerOf, LastInv, Issued, RunState
    <3>4. TodoInv'
      BY <3>0, <1>t, <1>1 DEF TodoInv, TodoKinds, OwedInv, UnansweredInv, OwedOf, Owed, Sent, Issued, InTurn, Reply, RunState
    <3>5. OutInv'
      BY <3>0, <1>t, <1>1 DEF OutInv, FrameInv, ReplyFrame, CallFrame, CompletedFrame, FinalFrame, Issued, InTurn, Reply, RunState
    <3>6. EndInv'
      BY <3>0, <1>t, <1>1 DEF EndInv, RunState
    <3>. QED  BY <3>1, <3>2, <3>3, <3>4, <3>5, <3>6
  <2>6. HonestInv'
    <3>1. nat'.wild = nat.wild
      BY <1>t, <1>1 DEF NativeState
    <3>. QED  BY <3>1, <2>5, <1>1 DEF HonestInv, Honest
  <2>. QED  BY <2>1, <2>2, <2>3, <2>4, <2>6 DEF RelayInv, WholeInv
<1>2. ASSUME run.at = "clean",
            run.process = "up",
            run' = [run EXCEPT !.process = "unproven"],
            fault' = TRUE,
            UNCHANGED <<relay, post, up, call, nat, out>>
     PROVE  RelayInv'
  <2>1. RelayTypeOK'
    BY <1>t, <1>2 DEF RelayTypeOK, RunState
  <2>2. CloseInv'
    BY <1>0, <1>2 DEF CloseInv
  <2>3. StepsInv'
    BY <1>0, <1>t, <1>2 DEF StepsInv, CallInv, Issued, RunState
  <2>4. DoneInv'
    BY <1>0, <1>t, <1>2 DEF DoneInv, WholeCall, Issued, RunState
  <2>5. HonestInv'
    BY <1>2 DEF HonestInv
  <2>. QED  BY <2>1, <2>2, <2>3, <2>4, <2>5 DEF RelayInv, WholeInv
<1>3. PICK p \in {"gone", "unproven"} : run' = [run EXCEPT !.process = p] /\ fault' = (fault \/ p = "unproven")
  BY DEF StopProcess
<1>4. CASE p = "gone"
  <2>1. (fault \/ p = "unproven") <=> fault
    BY <1>4
  <2>2. fault' = fault
    BY <2>1, <1>3, <1>t
  <2>. QED  BY <1>1, <1>3, <1>4, <2>2 DEF StopProcess
<1>5. CASE p = "unproven"
  <2>1. (fault \/ p = "unproven") <=> TRUE
    BY <1>5
  <2>2. fault' = TRUE
    BY <2>1, <1>3, <1>t
  <2>. QED  BY <1>2, <1>3, <1>5, <2>2 DEF StopProcess
<1>. QED  BY <1>3, <1>4, <1>5

LEMMA RelayJoinKeeps ==
  ASSUME RelayInv, RelayJoin
  PROVE  RelayInv'
<1>0. RelayTypeOK /\ StepsInv /\ CloseInv /\ DoneInv
      /\ (Honest => RpcInv /\ RequestInv /\ AnswerInv /\ TodoInv /\ OutInv /\ EndInv)
  BY DEF RelayInv, WholeInv, HonestInv, Honest
<1>t. /\ run \in RunState /\ relay \in RelayState /\ post \in PostState /\ up \in {"none", "asked"}
      /\ call \in Seq(CallState) /\ nat \in NativeState /\ out \in Seq(FrameState) /\ fault \in BOOLEAN
  BY <1>0 DEF RelayTypeOK
<1>1. ASSUME relay.close = "closing",
            post.at = "none",
            up = "none",
            ~relay.bodyFailed,
            relay' = [relay EXCEPT !.close = "joined"],
            UNCHANGED <<run, post, up, call, nat, out, fault>>
     PROVE  RelayInv'
  <2>1. RelayTypeOK'
    BY <1>t, <1>1 DEF RelayState, RelayTypeOK
  <2>2. StepsInv'
    BY <1>0, <1>1 DEF StepsInv, CallInv, Issued
  <2>3. CloseInv'
    BY <1>0, <1>t, <1>1 DEF CloseInv, RelayState
  <2>4. DoneInv'
    BY <1>0, <1>t, <1>1 DEF DoneInv, WholeCall, Issued, RelayState
  <2>5. ASSUME Honest PROVE RpcInv' /\ RequestInv' /\ AnswerInv' /\ TodoInv' /\ OutInv' /\ EndInv'
    <3>0. RpcInv /\ RequestInv /\ AnswerInv /\ TodoInv /\ OutInv /\ EndInv
      BY <1>0, <2>5
    <3>1. RpcInv' /\ TodoInv'
      BY <3>0, <1>1 DEF RpcInv, InTurn, TodoInv, TodoKinds, OwedInv, UnansweredInv, OwedOf, Owed, Sent, Issued, Reply
    <3>2. RequestInv'
      BY <3>0, <1>t, <1>1 DEF RequestInv, InTurn, RelayState
    <3>3. AnswerInv'
      BY <3>0, <1>t, <1>1 DEF AnswerInv, AnswerOf, LastInv, Issued, RelayState
    <3>4. OutInv'
      BY <3>0, <1>t, <1>1 DEF OutInv, FrameInv, ReplyFrame, CallFrame, CompletedFrame, FinalFrame, Issued, InTurn, Reply, RelayState
    <3>5. EndInv'
      BY <3>0, <1>t, <1>1 DEF EndInv, RelayState
    <3>. QED  BY <3>1, <3>2, <3>3, <3>4, <3>5
  <2>6. HonestInv'
    <3>1. nat'.wild = nat.wild
      BY <1>t, <1>1 DEF NativeState
    <3>. QED  BY <3>1, <2>5, <1>1 DEF HonestInv, Honest
  <2>. QED  BY <2>1, <2>2, <2>3, <2>4, <2>6 DEF RelayInv, WholeInv
<1>2. ASSUME relay.close = "closing",
            relay' = [relay EXCEPT !.close = "unproven"],
            fault' = TRUE,
            UNCHANGED <<run, post, up, call, nat, out>>
     PROVE  RelayInv'
  <2>1. RelayTypeOK'
    BY <1>t, <1>2 DEF RelayState, RelayTypeOK
  <2>2. StepsInv'
    BY <1>0, <1>2 DEF StepsInv, CallInv, Issued
  <2>3. CloseInv'
    BY <1>0, <1>t, <1>2 DEF CloseInv, RelayState
  <2>4. DoneInv'
    BY <1>0, <1>t, <1>2 DEF DoneInv, WholeCall, Issued, RelayState
  <2>5. HonestInv'
    BY <1>2 DEF HonestInv
  <2>. QED  BY <2>1, <2>2, <2>3, <2>4, <2>5 DEF RelayInv, WholeInv
<1>3. CASE relay.bodyFailed
  BY <1>t, <1>1, <1>2, <1>3 DEF RelayJoin, ActivitiesJoined
<1>4. CASE ~relay.bodyFailed
  BY <1>t, <1>1, <1>2, <1>4 DEF RelayJoin, ActivitiesJoined, RelayState
<1>. QED  BY <1>3, <1>4

LEMMA LateFrameKeeps ==
  ASSUME RelayInv, LateFrame
  PROVE  RelayInv'
<1>0. RelayTypeOK /\ StepsInv /\ CloseInv /\ DoneInv
      /\ (Honest => RpcInv /\ RequestInv /\ AnswerInv /\ TodoInv /\ OutInv /\ EndInv)
  BY DEF RelayInv, WholeInv, HonestInv, Honest
<1>t. /\ run \in RunState /\ relay \in RelayState /\ post \in PostState /\ up \in {"none", "asked"}
      /\ call \in Seq(CallState) /\ nat \in NativeState /\ out \in Seq(FrameState) /\ fault \in BOOLEAN
  BY <1>0 DEF RelayTypeOK
<1>1. ASSUME run.at = "clean",
            run.handlers = "open",
            out # <<>>,
            run.step = 0,
            run' = Fail(run),
            out' = <<>>,
            UNCHANGED <<relay, post, up, call, nat, fault>>
     PROVE  RelayInv'
  <2>1. RelayTypeOK'
    <3>1. run' \in RunState
      BY <1>t, <1>1 DEF Fail, RunState
    <3>2. out' \in Seq(FrameState)
      BY <1>1
    <3>. QED  BY <3>1, <3>2, <1>t, <1>1 DEF RelayTypeOK
  <2>2. CloseInv'
    BY <1>0, <1>1 DEF CloseInv
  <2>3. StepsInv'
    BY <1>0, <1>t, <1>1 DEF Fail, StepsInv, CallInv, Issued, RunState
  <2>4. DoneInv'
    BY <1>0, <1>t, <1>1 DEF Fail, DoneInv, WholeCall, Issued, RunState
  <2>5. ~Honest
    BY <1>0, <1>t, <1>1 DEF RpcInv, RequestInv, AnswerInv, AnswerOf, LastInv, OutInv, FrameInv, ReplyFrame, CallFrame, CompletedFrame, FinalFrame, EndInv, TodoInv, Issued, Reply, InTurn
  <2>6. HonestInv'
    BY <2>5, <1>1 DEF HonestInv, Honest
  <2>. QED  BY <2>1, <2>2, <2>3, <2>4, <2>6 DEF RelayInv, WholeInv
<1>. QED
  BY <1>1 DEF LateFrame

LEMMA HandlersJoinKeeps ==
  ASSUME RelayInv, HandlersJoin
  PROVE  RelayInv'
<1>0. RelayTypeOK /\ StepsInv /\ CloseInv /\ DoneInv
      /\ (Honest => RpcInv /\ RequestInv /\ AnswerInv /\ TodoInv /\ OutInv /\ EndInv)
  BY DEF RelayInv, WholeInv, HonestInv, Honest
<1>t. /\ run \in RunState /\ relay \in RelayState /\ post \in PostState /\ up \in {"none", "asked"}
      /\ call \in Seq(CallState) /\ nat \in NativeState /\ out \in Seq(FrameState) /\ fault \in BOOLEAN
  BY <1>0 DEF RelayTypeOK
<1>1. ASSUME run.at = "clean",
            run.handlers = "open",
            run.step = 0,
            run' = [run EXCEPT !.handlers = "joined"],
            UNCHANGED <<relay, post, up, call, nat, out, fault>>
     PROVE  RelayInv'
  <2>1. RelayTypeOK'
    BY <1>t, <1>1 DEF RelayTypeOK, RunState
  <2>2. CloseInv'
    BY <1>0, <1>1 DEF CloseInv
  <2>3. StepsInv'
    BY <1>0, <1>t, <1>1 DEF StepsInv, CallInv, Issued, RunState
  <2>4. DoneInv'
    BY <1>0, <1>t, <1>1 DEF DoneInv, WholeCall, Issued, RunState
  <2>5. ASSUME Honest PROVE RpcInv' /\ RequestInv' /\ AnswerInv' /\ TodoInv' /\ OutInv' /\ EndInv'
    <3>0. RpcInv /\ RequestInv /\ AnswerInv /\ TodoInv /\ OutInv /\ EndInv
      BY <1>0, <2>5
    <3>1. RequestInv'
      BY <3>0, <1>1 DEF RequestInv, InTurn
    <3>2. RpcInv'
      BY <3>0, <1>t, <1>1 DEF RpcInv, InTurn, RunState
    <3>3. AnswerInv'
      BY <3>0, <1>t, <1>1 DEF AnswerInv, AnswerOf, LastInv, Issued, RunState
    <3>4. TodoInv'
      BY <3>0, <1>t, <1>1 DEF TodoInv, TodoKinds, OwedInv, UnansweredInv, OwedOf, Owed, Sent, Issued, InTurn, Reply, RunState
    <3>5. OutInv'
      BY <3>0, <1>t, <1>1 DEF OutInv, FrameInv, ReplyFrame, CallFrame, CompletedFrame, FinalFrame, Issued, InTurn, Reply, RunState
    <3>6. EndInv'
      BY <3>0, <1>t, <1>1 DEF EndInv, RunState
    <3>. QED  BY <3>1, <3>2, <3>3, <3>4, <3>5, <3>6
  <2>6. HonestInv'
    <3>1. nat'.wild = nat.wild
      BY <1>t, <1>1 DEF NativeState
    <3>. QED  BY <3>1, <2>5, <1>1 DEF HonestInv, Honest
  <2>. QED  BY <2>1, <2>2, <2>3, <2>4, <2>6 DEF RelayInv, WholeInv
<1>2. ASSUME run.at = "clean",
            run.handlers = "open",
            run' = [Fail(run) EXCEPT !.handlers = "deadline"],
            fault' = TRUE,
            UNCHANGED <<relay, post, up, call, nat, out>>
     PROVE  RelayInv'
  <2>1. RelayTypeOK'
    BY <1>t, <1>2 DEF Fail, RelayTypeOK, RunState
  <2>2. CloseInv'
    BY <1>0, <1>2 DEF CloseInv
  <2>3. StepsInv'
    BY <1>0, <1>t, <1>2 DEF Fail, StepsInv, CallInv, Issued, RunState
  <2>4. DoneInv'
    BY <1>0, <1>t, <1>2 DEF Fail, DoneInv, WholeCall, Issued, RunState
  <2>5. HonestInv'
    BY <1>2 DEF HonestInv
  <2>. QED  BY <2>1, <2>2, <2>3, <2>4, <2>5 DEF RelayInv, WholeInv
<1>. QED
  BY <1>1, <1>2 DEF HandlersJoin, HandlersIdle

LEMMA RelayMoves == RelayInv /\ [RelayNext]_relayVars => RelayInv'
<1> SUFFICES ASSUME RelayInv, [RelayNext]_relayVars PROVE RelayInv'
  OBVIOUS
<1>1. CASE CodexStep
  BY <1>1, WriteRpcKeeps, RelayReplyKeeps, TurnStartedKeeps, ToolCallKeeps, ObserveStartedKeeps,
     ObserveCompletedKeeps, ObserveFinalKeeps, TurnCompletedKeeps, ForbiddenKeeps, DrainKeeps,
     CleanupKeeps, FinishKeeps DEF CodexStep
<1>2. CASE RelayStep
  BY <1>2, ValidateInputKeeps, AwaitWritesKeeps, AskUpstreamKeeps DEF RelayStep
<1>3. CASE NativeStep
  BY <1>3, NativeStartsKeeps, NativeEmitsKeeps, NativePostsKeeps, NativeCallsKeeps, NativeGetsAnswerKeeps,
     NativeFinishesKeeps, NativeWildKeeps DEF NativeStep
<1>4. CASE CompleteCall
  BY <1>4, CompleteCallKeeps
<1>5. CASE RelayWriteSettles
  BY <1>5, RelayWriteSettlesKeeps
<1>6. CASE UpstreamAnswers
  BY <1>6, UpstreamAnswersKeeps
<1>7. CASE ResponseEvents
  BY <1>7, ResponseEventsKeeps
<1>8. CASE OperationExpires
  BY <1>8, OperationExpiresKeeps
<1>9. CASE Breaks
  BY <1>9, BreaksKeeps
<1>10. CASE StopProcess
  BY <1>10, StopProcessKeeps
<1>11. CASE RelayJoin
  BY <1>11, RelayJoinKeeps
<1>12. CASE LateFrame
  BY <1>12, LateFrameKeeps
<1>13. CASE HandlersJoin
  BY <1>13, HandlersJoinKeeps
<1>14. CASE UNCHANGED relayVars
  BY <1>14 DEF relayVars, RelayInv, WholeInv, RelayTypeOK, StepsInv, CloseInv, DoneInv, HonestInv, RpcInv, RequestInv,
     AnswerInv, LastInv, AnswerOf, TodoInv, TodoKinds, OwedInv, UnansweredInv, OwedOf, Owed, Sent, OutInv, FrameInv,
     ReplyFrame, CallFrame, CompletedFrame, FinalFrame, EndInv, Issued, CallInv, WholeCall, InTurn, Reply
<1>. QED
  BY <1>1, <1>2, <1>3, <1>4, <1>5, <1>6, <1>7, <1>8, <1>9, <1>10, <1>11, <1>12, <1>13, <1>14 DEF RelayNext

\* A child that keeps to the protocol is never refused, whatever the order in which
\* its frames (stdout) and its requests (HTTP) reach runCodexSession and the relay of
\* startCodexRelay: every fail() has a fault of another part or a wild act behind it.
THEOREM HonestNeverRefused == RelaySpec => []HonestRoundTrip
<1>1. RelayInv => HonestRoundTrip
  BY DEF RelayInv, WholeInv, RelayTypeOK, HonestInv, EndInv, HonestRoundTrip, NativeState
<1>. QED  BY InitRelay, RelayMoves, <1>1, PTL DEF RelaySpec

\* claimTaskCall, validateInput, close() and finish() together: whatever native writes
\* or posts, a call runs at most once and only one that ran is shown to the model; a
\* relay that reports joined has nothing in flight; and a session that ends without a
\* failure is a whole one.
THEOREM CompletedTurnIsWhole == RelaySpec => []CompletedIsWhole
<1>1. RelayInv => CompletedIsWhole
  <2> SUFFICES ASSUME RelayInv PROVE CompletedIsWhole
    OBVIOUS
  <2>0. StepsInv /\ CloseInv /\ DoneInv
    BY DEF RelayInv, WholeInv
  <2>1. \A c \in Issued : call[c].ran <= 1 /\ (call[c].observed => call[c].ran = 1)
    BY <2>0 DEF StepsInv, CallInv
  <2>2. relay.close = "joined" => post.at = "none" /\ up = "none" /\ ~relay.bodyFailed
    BY <2>0 DEF CloseInv
  <2>3. ASSUME run.at = "ended", ~run.failed
        PROVE  /\ relay.final /\ relay.finalObserved /\ run.step = 0 /\ run.process = "gone"
               /\ \A c \in Issued : call[c].ran = 1 /\ call[c].observed /\ call[c].started /\ call[c].completed
               /\ relay.close = "joined"
    <3>1. run.done /\ run.process = "gone" /\ relay.close = "joined" /\ run.handlers = "joined"
      BY <2>0, <2>3 DEF DoneInv
    <3>2. relay.finalObserved /\ relay.final /\ run.step = 0
      BY <2>0, <3>1 DEF DoneInv, CloseInv
    <3>3. \A c \in Issued : WholeCall(call[c]) /\ CallInv(call[c])
      BY <2>0, <3>1 DEF DoneInv, StepsInv
    <3>. QED  BY <3>1, <3>2, <3>3 DEF WholeCall, CallInv
  <2>. QED  BY <2>1, <2>2, <2>3 DEF CompletedIsWhole
<1>. QED  BY InitRelay, RelayMoves, <1>1, PTL DEF RelaySpec
=============================================================================
