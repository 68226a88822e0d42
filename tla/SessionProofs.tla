--------------------------- MODULE SessionProofs ----------------------------
(***************************************************************************)
(* The managed session, for any set of calls: SessionInv says how far each *)
(* call is for native, in the pipe and in the session's ledger, in what    *)
(* order the frames of an honest native process come, and what the end     *)
(* of a run leaves behind.                                                 *)
(***************************************************************************)
EXTENDS ManagedSession, SequenceFacts

\* What the variables hold.
MaybeCall == Calls \cup {None}
CallStages == {"unknown", "started", "claimed", "written", "completed"}
ToolStages == {"unknown", "started", "call", "answered", "completed"}
Joins == {"no", "waiting", "joined", "unproven"}
SesState ==
  [at : 0..5, pending : BOOLEAN, thread : BOOLEAN, turn : BOOLEAN, early : Nat, out : BOOLEAN,
   completed : BOOLEAN, failure : {"none", "interrupted", "write", "protocol", "custody"},
   closing : BOOLEAN, handler : MaybeCall, step : {"idle", "claimed", "invoking", "invoked", "writing"}]
InFrame == [kind : Kinds, call : MaybeCall]
Written == [kind : {"rpc", "answer", "done"}, call : MaybeCall]
WriteState == [queue : Seq(Written), sending : BOOLEAN, closed : BOOLEAN]
NatState ==
  [up : BOOLEAN, honest : BOOLEAN, asked : Nat, answered : Nat, begun : BOOLEAN, final : BOOLEAN,
   ended : BOOLEAN, tools : [Calls -> ToolStages], wild : Nat]
FinState == [process : Joins, handlers : Joins, broker : Joins, running : MaybeCall]
SlotState ==
  [run : {"none", "admitted", "session", "refused", "completed", "failed"}, aborted : BOOLEAN,
   stop : {"none", "waiting", "proven", "unproven"}]
AboutCall == {"started", "call", "completed"}

SessionTypeOK ==
  /\ ses \in SesState /\ calls \in [Calls -> CallStages] /\ inbox \in Seq(InFrame) /\ wr \in WriteState
  /\ native \in NatState /\ fin \in FinState /\ slot \in SlotState /\ ran \in [Calls -> Nat]
  /\ \A i \in 1..Len(inbox) : inbox[i].kind \in AboutCall => inbox[i].call \in Calls

\* The queue of writes: one answer at a time, that of the call in its handler.
QueueOK(i) ==
  LET w == wr.queue[i] IN
  /\ w.kind = "done" => i = 1 /\ wr.sending
  /\ w.kind = "rpc" => w.call = None
  /\ w.kind = "answer" => w.call # None
  /\ w.call # None => ses.step = "writing" /\ ses.handler = w.call
QueueInv ==
  /\ wr.sending => wr.queue # <<>>
  /\ \A i \in 1..Len(wr.queue) : QueueOK(i)
  /\ \A i, j \in 1..Len(wr.queue) : wr.queue[i].call # None /\ wr.queue[j].call # None => i = j
\* The handler of a tool call.
HandlerInv ==
  /\ ses.step # "idle" => ses.handler \in Calls /\ calls[ses.handler] = "claimed"
  /\ ses.step = "claimed" => ran[ses.handler] = 0
  /\ fin.running # None => ses.step = "invoking"
  /\ \A c \in Calls : ran[c] <= 1 /\ (ran[c] = 1 => calls[c] \in {"claimed", "written", "completed"})
\* The end.
BeforeSession ==
  /\ ~native.up /\ fin.running = None /\ ses.step = "idle" /\ wr.queue = <<>> /\ inbox = <<>>
  /\ ses.at = 0 /\ ~ses.closing
EndInv ==
  /\ slot.run \in {"none", "admitted", "refused"} => BeforeSession
  /\ slot.run = "none" => slot.stop = "none"
  /\ ses.closing => wr.closed /\ ~ses.pending
  /\ ses.closing /\ ses.failure = "none" => ses.completed /\ inbox = <<>>
  /\ ~ses.closing => fin.process = "no" /\ fin.handlers = "no" /\ fin.broker = "no"
  /\ ses.at = 0 => ~native.up
  /\ fin.process = "joined" => ~native.up
  /\ fin.handlers = "joined" => ses.step = "idle" /\ inbox = <<>> /\ wr.queue = <<>>
  /\ fin.broker = "joined" => fin.running = None
  /\ slot.run = "completed" => ses.completed /\ AllJoined
  /\ slot.stop = "proven" => slot.run = "refused" \/ AllJoined
  /\ slot.stop \in {"proven", "unproven"} => slot.run \in {"refused", "completed", "failed"}
  /\ ses.completed => \A c \in Calls : calls[c] \in {"unknown", "completed"}
WholeInv == SessionTypeOK /\ QueueInv /\ HandlerInv /\ EndInv

-----------------------------------------------------------------------------
\* A native process that keeps the protocol.
In(p, k, c) == \E i \in 1..Len(p) : p[i].kind = k /\ p[i].call = c
RpcIn(p) == \E i \in 1..Len(p) : p[i].kind = "rpc"
RpcInv ==
  /\ ses.pending => ses.at > 0
  /\ native.answered <= native.asked /\ native.asked <= ses.at
  /\ native.asked = IF RpcIn(wr.queue) THEN ses.at - 1 ELSE ses.at
  /\ native.answered = IF ses.pending /\ ~In(inbox, "reply", None) THEN ses.at - 1 ELSE ses.at
  /\ RpcIn(wr.queue) => ses.pending
  /\ In(inbox, "reply", None) => ses.pending /\ native.asked = ses.at
  /\ \A i, j \in 1..Len(wr.queue) : wr.queue[i].kind = "rpc" /\ wr.queue[j].kind = "rpc" => i = j
  /\ ses.thread <=> ses.at = 5 \/ (ses.at = 4 /\ ~ses.pending)
  /\ ses.turn <=> ses.at = 5 /\ ~ses.pending
\* How far a call is, for native, in the pipe, and in the ledger.
Writing(c) == ses.step = "writing" /\ ses.handler = c /\ wr.queue # <<>> /\ wr.queue[1].kind = "done" /\ wr.queue[1].call = c
CallInv(c) ==
  LET Answered == calls[c] = "written" \/ (calls[c] = "claimed" /\ Writing(c)) IN
  /\ native.tools[c] = "unknown" => calls[c] = "unknown" /\ ~In(inbox, "started", c) /\ ~In(inbox, "call", c) /\ ~In(inbox, "completed", c)
  /\ native.tools[c] = "started" =>
       ~In(inbox, "call", c) /\ ~In(inbox, "completed", c) /\ calls[c] = IF In(inbox, "started", c) THEN "unknown" ELSE "started"
  /\ native.tools[c] = "call" =>
       /\ ~In(inbox, "completed", c) /\ (In(inbox, "started", c) => In(inbox, "call", c)) /\ ~Writing(c)
       /\ calls[c] = IF In(inbox, "started", c) THEN "unknown" ELSE IF In(inbox, "call", c) THEN "started" ELSE "claimed"
  /\ native.tools[c] = "answered" => Answered /\ ~In(inbox, "started", c) /\ ~In(inbox, "call", c) /\ ~In(inbox, "completed", c)
  /\ native.tools[c] = "completed" =>
       ~In(inbox, "started", c) /\ ~In(inbox, "call", c) /\ IF In(inbox, "completed", c) THEN Answered ELSE calls[c] = "completed"
\* The frames in the pipe, in the order native wrote them.
Bound(i) == native.answered = 5 /\ \A j \in 1..Len(inbox) : inbox[j].kind = "reply" => j < i
FrameOK(i) ==
  LET f == inbox[i] IN
  /\ f.kind # "denied" /\ (f.kind \notin AboutCall => f.call = None)
  /\ f.kind = "notice" => ses.thread \/ (native.answered >= 4 /\ \E j \in 1..(i - 1) : inbox[j].kind = "reply")
  /\ f.kind = "turnStarted" => native.asked = 5 /\ native.begun /\ ses.early = 0
  /\ f.kind \in AboutCall \cup {"final", "turnCompleted"} => Bound(i)
  /\ f.kind \in AboutCall \cup {"final"} => native.begun /\ ~ses.out
  /\ f.kind \in {"final", "turnCompleted"} => native.final
  /\ f.kind = "turnCompleted" => native.ended /\ ~ses.completed
OrderOK(i, j) ==
  LET f == inbox[i] IN LET g == inbox[j] IN
  /\ f = g /\ f.kind # "notice" => i = j
  /\ f.kind = "started" /\ g.kind = "call" /\ f.call = g.call => i < j
  /\ f.kind \in AboutCall /\ g.kind = "final" => i < j
  /\ f.kind \in AboutCall \cup {"turnStarted", "final"} /\ g.kind = "turnCompleted" => i < j
TurnInv ==
  /\ native.final => native.begun /\ \A c \in Calls : native.tools[c] \in {"unknown", "completed"}
  /\ native.final => native.answered = 5
  /\ native.begun => native.asked = 5
  /\ ~native.begun => ses.early = 0
  /\ ses.early > 0 => ~In(inbox, "turnStarted", None)
  /\ native.final <=> ses.out \/ In(inbox, "final", None)
  /\ native.ended <=> ses.completed \/ In(inbox, "turnCompleted", None)
  /\ native.ended => native.final
  /\ ses.completed => ses.out /\ \A i \in 1..Len(inbox) : inbox[i].kind = "notice"
  /\ \A c \in Calls : native.tools[c] # "unknown" => native.begun /\ native.answered = 5
PipeInv ==
  /\ \A i \in 1..Len(inbox) : FrameOK(i)
  /\ \A i, j \in 1..Len(inbox) : OrderOK(i, j)
HonestInv ==
  native.honest =>
    /\ ses.failure # "protocol"
    /\ ses.failure = "none" /\ ~ses.closing => RpcInv /\ TurnInv /\ PipeInv /\ \A c \in Calls : CallInv(c)

SessionInv == SessionTypeOK /\ QueueInv /\ HandlerInv /\ EndInv /\ HonestInv

LEMMA InPopped ==
  ASSUME NEW p, NEW q, Popped(p, q)
  PROVE  /\ \A k, c : In(p, k, c) <=> In(q, k, c) \/ (p[1].kind = k /\ p[1].call = c)
         /\ RpcIn(p) <=> RpcIn(q) \/ p[1].kind = "rpc"
<1>1. ASSUME NEW k, NEW c PROVE In(p, k, c) <=> In(q, k, c) \/ (p[1].kind = k /\ p[1].call = c)
  <2>1. ASSUME NEW i \in 1..Len(p), p[i].kind = k, p[i].call = c, i # 1 PROVE In(q, k, c)
    <3>1. i - 1 \in 1..Len(q) /\ q[i - 1] = p[i]
      BY <2>1 DEF Popped
    <3>. QED  BY <2>1, <3>1 DEF In
  <2>2. ASSUME NEW i \in 1..Len(q), q[i].kind = k, q[i].call = c PROVE In(p, k, c)
    <3>1. i + 1 \in 1..Len(p) /\ q[i] = p[i + 1]
      BY <2>2 DEF Popped
    <3>. QED  BY <2>2, <3>1 DEF In
  <2>3. p[1].kind = k /\ p[1].call = c => In(p, k, c)
    BY DEF Popped, In
  <2>. QED  BY <2>1, <2>2, <2>3 DEF In
<1>2. RpcIn(p) <=> RpcIn(q) \/ p[1].kind = "rpc"
  <2>1. ASSUME NEW i \in 1..Len(p), p[i].kind = "rpc", i # 1 PROVE RpcIn(q)
    <3>1. i - 1 \in 1..Len(q) /\ q[i - 1] = p[i]
      BY <2>1 DEF Popped
    <3>. QED  BY <2>1, <3>1 DEF RpcIn
  <2>2. ASSUME NEW i \in 1..Len(q), q[i].kind = "rpc" PROVE RpcIn(p)
    <3>1. i + 1 \in 1..Len(p) /\ q[i] = p[i + 1]
      BY <2>2 DEF Popped
    <3>. QED  BY <2>2, <3>1 DEF RpcIn
  <2>3. p[1].kind = "rpc" => RpcIn(p)
    BY DEF Popped, RpcIn
  <2>. QED  BY <2>1, <2>2, <2>3 DEF RpcIn
<1>. QED  BY <1>1, <1>2

LEMMA InPushed ==
  ASSUME NEW p, NEW q, NEW x, Pushed(p, q, x)
  PROVE  /\ \A k, c : In(q, k, c) <=> In(p, k, c) \/ (x.kind = k /\ x.call = c)
         /\ RpcIn(q) <=> RpcIn(p) \/ x.kind = "rpc"
<1>1. \A k, c : In(q, k, c) <=> In(p, k, c) \/ (x.kind = k /\ x.call = c)
  BY DEF Pushed, In
<1>2. RpcIn(q) <=> RpcIn(p) \/ x.kind = "rpc"
  BY DEF Pushed, RpcIn
<1>. QED  BY <1>1, <1>2

LEMMA NonEmpty ==
  ASSUME NEW S, NEW p \in Seq(S)
  PROVE  Len(p) \in Nat /\ (p # <<>> <=> 1 \in 1..Len(p))
<1>1. Len(p) \in Nat /\ (p # <<>> <=> Len(p) # 0)
  OBVIOUS
<1>. QED  BY <1>1

LEMMA EmptyPipe == \A k, c : ~In(<<>>, k, c) /\ ~RpcIn(<<>>) /\ Len(<<>>) = 0
<1>1. Len(<<>>) = 0 /\ 1..0 = {}
  OBVIOUS
<1>. QED  BY <1>1 DEF In, RpcIn

LEMMA RpcNames == \A n \in 1..5 : (Rpcs[n] = "thread" <=> n = 4) /\ (Rpcs[n] = "turn" <=> n = 5)
BY DEF Rpcs

LEMMA InitSession == SessionInit => SessionInv
<1> SUFFICES ASSUME SessionInit PROVE SessionInv
  OBVIOUS
<1>0. Len(inbox) = 0 /\ Len(wr.queue) = 0 /\ 1..0 = {} /\ wr.queue = <<>> /\ inbox = <<>>
  BY DEF SessionInit
<1>n. \E h \in BOOLEAN :
        native = [up |-> FALSE, honest |-> h, asked |-> 0, answered |-> 0, begun |-> FALSE, final |-> FALSE,
                  ended |-> FALSE, tools |-> [c \in Calls |-> "unknown"], wild |-> 0]
  BY DEF SessionInit
<1>f. [c \in Calls |-> "unknown"] \in [Calls -> ToolStages]
  BY DEF ToolStages
<1>1. SessionTypeOK
  <2>1. ses \in SesState /\ fin \in FinState /\ slot \in SlotState
    BY DEF SessionInit, SesState, FinState, SlotState, MaybeCall, Joins
  <2>2. calls \in [Calls -> CallStages] /\ ran \in [Calls -> Nat] /\ inbox \in Seq(InFrame)
    BY DEF SessionInit, CallStages
  <2>3. wr \in WriteState
    BY DEF SessionInit, WriteState
  <2>4. native \in NatState
    BY <1>n, <1>f DEF NatState, ToolStages
  <2>. QED  BY <1>0, <2>1, <2>2, <2>3, <2>4 DEF SessionTypeOK
<1>2. QueueInv /\ HandlerInv /\ EndInv
  BY <1>0 DEF SessionInit, QueueInv, HandlerInv, EndInv, BeforeSession
<1>3. RpcInv /\ TurnInv /\ PipeInv /\ \A c \in Calls : CallInv(c)
  <2>1. \A k, c : ~In(inbox, k, c) /\ ~RpcIn(wr.queue)
    BY <1>0, EmptyPipe
  <2>2. RpcInv
    BY <1>0, <2>1 DEF SessionInit, RpcInv
  <2>3. TurnInv
    BY <1>0, <2>1 DEF SessionInit, TurnInv
  <2>4. PipeInv
    BY <1>0 DEF PipeInv
  <2>5. \A c \in Calls : CallInv(c)
    <3>1. native.tools = [c \in Calls |-> "unknown"] /\ calls = [c \in Calls |-> "unknown"]
      <4>1. native.tools = [c \in Calls |-> "unknown"]
        BY <1>n
      <4>. QED  BY <4>1 DEF SessionInit
    <3>. QED  BY <2>1, <3>1 DEF CallInv
  <2>. QED  BY <2>2, <2>3, <2>4, <2>5
<1>. QED  BY <1>1, <1>2, <1>3 DEF SessionInv, HonestInv, SessionInit

LEMMA NotTwice ==
  ASSUME inbox \in Seq(InFrame), PipeInv, NEW q, Popped(inbox, q), inbox[1].kind # "notice"
  PROVE  ~In(q, inbox[1].kind, inbox[1].call)
<1> SUFFICES ASSUME NEW i \in 1..Len(q), q[i].kind = inbox[1].kind, q[i].call = inbox[1].call
             PROVE  FALSE
  BY DEF In
<1>1. i + 1 \in 1..Len(inbox) /\ 1 \in 1..Len(inbox) /\ q[i] = inbox[i + 1] /\ i + 1 # 1
  BY DEF Popped
<1>2. inbox[i + 1] = inbox[1]
  <2>1. inbox[i + 1] \in InFrame /\ inbox[1] \in InFrame
    BY <1>1
  <2>. QED  BY <1>1, <2>1 DEF InFrame
<1>3. OrderOK(i + 1, 1)
  BY <1>1 DEF PipeInv
<1>. QED  BY <1>1, <1>2, <1>3 DEF OrderOK

\* The pipe without its first frame.
LEMMA PipePopped ==
  ASSUME PipeInv, Popped(inbox, inbox'), native' = native, ses.thread => ses'.thread,
         inbox[1].kind = "reply" /\ native.answered >= 4 => ses'.thread,
         \/ ses'.early = ses.early
         \/ \A i \in 1..Len(inbox') : inbox'[i].kind # "turnStarted",
         \/ ses'.out = ses.out
         \/ \A i \in 1..Len(inbox') : inbox'[i].kind \notin AboutCall \cup {"final"},
         \/ ses'.completed = ses.completed
         \/ \A i \in 1..Len(inbox') : inbox'[i].kind # "turnCompleted"
  PROVE  PipeInv'
<1>1. ASSUME NEW i \in 1..Len(inbox')
      PROVE  FrameOK(i)'
  <2>1. /\ i + 1 \in 1..Len(inbox) /\ inbox'[i] = inbox[i + 1] /\ i \in Nat /\ i < i + 1
        /\ Len(inbox') \in Nat
    BY DEF Popped
  <2>2. FrameOK(i + 1)
    BY <2>1 DEF PipeInv
  <2>3. Bound(i + 1) => Bound(i)'
    <3>1. ASSUME Bound(i + 1), NEW j \in 1..Len(inbox'), inbox'[j].kind = "reply" PROVE j < i
      <4>1. j + 1 \in 1..Len(inbox) /\ inbox'[j] = inbox[j + 1]
        BY DEF Popped
      <4>2. j + 1 < i + 1
        BY <4>1, <3>1 DEF Bound
      <4>. QED  BY <4>2, <2>1
    <3>. QED  BY <3>1 DEF Bound
  <2>4. ASSUME inbox'[i].kind = "notice", native.answered >= 4,
               NEW j \in 1..i, inbox[j].kind = "reply"
        PROVE  ses'.thread \/ \E m \in 1..(i - 1) : inbox'[m].kind = "reply"
    <3>1. CASE j = 1
      BY <2>4, <3>1
    <3>2. CASE j # 1
      <4>1. j \in 1..Len(inbox) /\ j - 1 \in 1..(i - 1)
        BY <3>2, <2>1
      <4>2. inbox'[j - 1] = inbox[j]
        BY <4>1, <3>2 DEF Popped
      <4>. QED  BY <4>1, <4>2, <2>4
    <3>. QED  BY <3>1, <3>2
  <2>5. inbox'[i].kind = "notice" =>
          ses'.thread \/ (native.answered >= 4 /\ \E m \in 1..(i - 1) : inbox'[m].kind = "reply")
    <3>1. (i + 1) - 1 = i
      BY <2>1
    <3>. QED  BY <3>1, <2>1, <2>2, <2>4 DEF FrameOK
  <2>6. inbox'[i].kind = "turnStarted" => ses'.early = ses.early
    OBVIOUS
  <2>7. inbox'[i].kind \in AboutCall \cup {"final"} => ses'.out = ses.out
    OBVIOUS
  <2>8. inbox'[i].kind = "turnCompleted" => ses'.completed = ses.completed
    OBVIOUS
  <2>. QED  BY <2>1, <2>2, <2>3, <2>5, <2>6, <2>7, <2>8 DEF FrameOK
<1>2. ASSUME NEW i \in 1..Len(inbox'), NEW j \in 1..Len(inbox') PROVE OrderOK(i, j)'
  <2>1. /\ i + 1 \in 1..Len(inbox) /\ inbox'[i] = inbox[i + 1] /\ j + 1 \in 1..Len(inbox) /\ inbox'[j] = inbox[j + 1]
        /\ i \in Nat /\ j \in Nat
    BY DEF Popped
  <2>2. OrderOK(i + 1, j + 1)
    BY <2>1 DEF PipeInv
  <2>3. (i + 1 = j + 1 => i = j) /\ (i + 1 < j + 1 => i < j)
    BY <2>1
  <2>. QED  BY <2>1, <2>2, <2>3 DEF OrderOK
<1>. QED  BY <1>1, <1>2 DEF PipeInv

\* The pipe with one more frame.
LEMMA PipePushed ==
  ASSUME PipeInv, NEW x, Pushed(inbox, inbox', x), ses' = ses, native'.asked = native.asked,
         native.answered \in Nat, native'.answered \in Nat, native'.answered >= native.answered,
         native.begun => native'.begun, native.final => native'.final, native.ended => native'.ended,
         \/ native'.answered = native.answered /\ x.kind # "reply"
         \/ native.answered # 5,
         \A i \in 1..Len(inbox') : i = Len(inbox') => FrameOK(i)',
         x.kind # "notice" => ~In(inbox, x.kind, x.call),
         x.kind = "started" => ~In(inbox, "call", x.call),
         x.kind \in AboutCall => \A i \in 1..Len(inbox) : inbox[i].kind # "final",
         x.kind \in AboutCall \cup {"turnStarted", "final"} =>
           \A i \in 1..Len(inbox) : inbox[i].kind # "turnCompleted"
  PROVE  PipeInv'
<1>1. ASSUME NEW i \in 1..Len(inbox), ~(i = Len(inbox')) PROVE FrameOK(i)'
  <2>1. inbox'[i] = inbox[i] /\ FrameOK(i) /\ i \in Nat
    BY DEF Pushed, PipeInv
  <2>2. Bound(i) => Bound(i)'
    <3> SUFFICES ASSUME Bound(i) PROVE Bound(i)'
      OBVIOUS
    <3>1. native.answered = 5 /\ native'.answered = 5 /\ x.kind # "reply"
      BY DEF Bound
    <3>2. ASSUME NEW j \in 1..Len(inbox'), inbox'[j].kind = "reply" PROVE j < i
      <4>1. j \in 1..Len(inbox) /\ inbox'[j] = inbox[j]
        BY <3>1, <3>2 DEF Pushed
      <4>. QED  BY <4>1, <3>2 DEF Bound
    <3>. QED  BY <3>1, <3>2 DEF Bound
  <2>3. ASSUME NEW j \in 1..(i - 1), inbox[j].kind = "reply" PROVE \E m \in 1..(i - 1) : inbox'[m].kind = "reply"
    <3>1. j \in 1..Len(inbox)
      BY <2>1 DEF Pushed
    <3>2. inbox'[j] = inbox[j]
      BY <3>1 DEF Pushed
    <3>. QED  BY <2>3, <3>2
  <2>4. native.answered >= 4 => native'.answered >= 4
    OBVIOUS
  <2>. QED  BY <2>1, <2>2, <2>3, <2>4 DEF FrameOK
<1>2. ASSUME NEW i \in 1..Len(inbox') PROVE FrameOK(i)'
  <2>1. CASE i = Len(inbox')
    BY <2>1
  <2>2. CASE i # Len(inbox')
    <3>1. i \in 1..Len(inbox)
      BY <2>2 DEF Pushed
    <3>. QED  BY <1>1, <2>2, <3>1
  <2>. QED  BY <2>1, <2>2
<1>3. ASSUME NEW i \in 1..Len(inbox'), NEW j \in 1..Len(inbox') PROVE OrderOK(i, j)'
  <2>0. /\ i \in 1..Len(inbox) \/ i = Len(inbox')
        /\ j \in 1..Len(inbox) \/ j = Len(inbox')
    BY DEF Pushed
  <2>1. CASE i \in 1..Len(inbox) /\ j \in 1..Len(inbox)
    <3>1. inbox'[i] = inbox[i] /\ inbox'[j] = inbox[j] /\ OrderOK(i, j)
      BY <2>1 DEF Pushed, PipeInv
    <3>. QED  BY <3>1 DEF OrderOK
  <2>2. CASE i \in 1..Len(inbox) /\ j = Len(inbox')
    <3>1. inbox'[i] = inbox[i] /\ inbox'[j] = x /\ i < j
      BY <2>2 DEF Pushed
    <3>2. inbox'[i] = inbox'[j] => inbox'[j].kind = "notice"
      BY <3>1, <2>2 DEF In
    <3>. QED  BY <3>1, <3>2 DEF OrderOK
  <2>3. CASE i = Len(inbox') /\ j \in 1..Len(inbox)
    <3>1. inbox'[j] = inbox[j] /\ inbox'[i] = x
      BY <2>3 DEF Pushed
    <3>2. inbox'[i] = inbox'[j] => inbox'[i].kind = "notice"
      BY <3>1, <2>3 DEF In
    <3>3. ~(x.kind = "started" /\ inbox[j].kind = "call" /\ x.call = inbox[j].call)
      BY <2>3 DEF In
    <3>. QED  BY <2>3, <3>1, <3>2, <3>3 DEF OrderOK
  <2>4. CASE i = Len(inbox') /\ j = Len(inbox')
    <3>1. i = j /\ ~(inbox'[i].kind = "started" /\ inbox'[i].kind = "call")
      BY <2>4
    <3>. QED  BY <3>1 DEF OrderOK, AboutCall
  <2>. QED  BY <2>0, <2>1, <2>2, <2>3, <2>4
<1>. QED  BY <1>2, <1>3 DEF PipeInv

\* The first frame of a pipe that keeps the protocol is accepted.
LEMMA HonestAccepted ==
  ASSUME SessionTypeOK, inbox # <<>>, ses.failure = "none", ~ses.closing, ses.step = "idle",
         RpcInv, TurnInv, PipeInv, \A d \in Calls : CallInv(d)
  PROVE  Accepted(inbox[1])
<1>t. /\ inbox \in Seq(InFrame) /\ ses.at \in 0..5 /\ ses.early \in Nat /\ native.asked \in Nat
      /\ native.answered \in Nat /\ \A d \in Calls : native.tools[d] \in ToolStages
  BY DEF SessionTypeOK, SesState, NatState
<1>1. /\ 1 \in 1..Len(inbox) /\ inbox[1] \in InFrame /\ Len(inbox) \in Nat /\ FrameOK(1)
      /\ (inbox[1].kind \in AboutCall => inbox[1].call \in Calls)
      /\ \A i \in 1..Len(inbox) : OrderOK(i, 1) /\ ~(i < 1) /\ OrderOK(1, i)
  <2>1. 1 \in 1..Len(inbox) /\ Len(inbox) \in Nat /\ inbox[1] \in InFrame
    BY <1>t, NonEmpty
  <2>. QED  BY <2>1 DEF PipeInv, SessionTypeOK
<1>2. inbox[1].kind # "notice" => ~ses.completed
  BY <1>1 DEF TurnInv
<1>3. \A d \in Calls : ~Writing(d)
  BY DEF Writing
<1>4. In(inbox, inbox[1].kind, inbox[1].call)
  BY <1>1 DEF In
<1>5. Active
  BY DEF Active
<1>6. ASSUME inbox[1].kind \in AboutCall \cup {"final", "turnCompleted"} PROVE ses.turn
  <2>1. native.answered = 5 /\ ~In(inbox, "reply", None)
    BY <1>1, <1>6 DEF FrameOK, Bound, In
  <2>2. ses.at = 5 /\ ~ses.pending
    BY <2>1, <1>t DEF RpcInv
  <2>. QED  BY <2>2 DEF RpcInv
<1>7. CASE inbox[1].kind = "reply"
  <2>1. inbox[1].call = None
    BY <1>1, <1>7 DEF FrameOK, AboutCall
  <2>2. ses.pending /\ ses.at \in 1..5
    BY <1>4, <1>7, <2>1, <1>t DEF RpcInv
  <2>3. (Rpcs[ses.at] = "thread" <=> ses.at = 4) /\ (Rpcs[ses.at] = "turn" <=> ses.at = 5)
    BY <2>2, RpcNames
  <2>4. ReplyOK
    BY <2>2, <2>3 DEF ReplyOK, RpcInv
  <2>. QED  BY <1>5, <1>7, <2>4 DEF Accepted
<1>8. CASE inbox[1].kind = "notice"
  <2>1. ses.thread \/ \E j \in 1..(1 - 1) : inbox[j].kind = "reply"
    BY <1>1, <1>8 DEF FrameOK
  <2>2. ses.thread
    BY <2>1
  <2>. QED  BY <1>5, <1>8, <2>2 DEF Accepted
<1>9. CASE inbox[1].kind = "turnStarted"
  <2>1. native.asked = 5 /\ ses.early = 0
    BY <1>1, <1>9 DEF FrameOK
  <2>2. ses.at = 5 /\ ses.thread /\ (~ses.turn => ses.pending)
    BY <2>1, <1>t DEF RpcInv
  <2>3. Rpcs[ses.at] = "turn" /\ ses.early < MaxNotices
    BY <2>1, <2>2, RpcNames, SessionAssumption
  <2>. QED  BY <1>2, <1>5, <1>9, <2>2, <2>3 DEF Accepted, TurnStartedOK, Pending
<1>10. CASE inbox[1].kind \in AboutCall
  <2>1. ses.turn /\ ~ses.completed /\ ~ses.out
    BY <1>1, <1>2, <1>6, <1>10 DEF FrameOK, AboutCall
  <2> DEFINE c == inbox[1].call
  <2>2. c \in Calls /\ CallInv(c) /\ native.tools[c] \in ToolStages /\ ~Writing(c)
    BY <1>1, <1>3, <1>10, <1>t
  <2>3. CASE inbox[1].kind = "started"
    <3>1. calls[c] = "unknown"
      BY <1>4, <2>2, <2>3 DEF CallInv, ToolStages
    <3>. QED  BY <1>5, <2>1, <2>3, <3>1 DEF Accepted, StartedOK
  <2>4. CASE inbox[1].kind = "call"
    <3>1. ~In(inbox, "started", c)
      BY <1>1, <2>4 DEF OrderOK, In
    <3>2. calls[c] = "started"
      BY <1>4, <2>2, <2>4, <3>1 DEF CallInv, ToolStages
    <3>. QED  BY <1>5, <2>1, <2>4, <3>2 DEF Accepted, ClaimOK
  <2>5. CASE inbox[1].kind = "completed"
    <3>1. calls[c] = "written"
      BY <1>4, <2>2, <2>5 DEF CallInv, ToolStages
    <3>. QED  BY <1>5, <2>1, <2>5, <3>1 DEF Accepted, CompletedOK
  <2>. QED  BY <1>10, <2>3, <2>4, <2>5 DEF AboutCall
<1>11. CASE inbox[1].kind = "final"
  <2>1. ses.turn /\ ~ses.completed /\ ~ses.out
    BY <1>1, <1>2, <1>6, <1>11 DEF FrameOK
  <2>. QED  BY <1>5, <1>11, <2>1 DEF Accepted, FinalOK
<1>12. CASE inbox[1].kind = "turnCompleted"
  <2>1. ses.turn /\ ~ses.completed /\ native.final
    BY <1>1, <1>2, <1>6, <1>12 DEF FrameOK
  <2>2. \A i \in 1..Len(inbox) : inbox[i].kind \notin AboutCall \cup {"final"}
    BY <1>1, <1>12 DEF OrderOK
  <2>3. ses.out
    BY <2>1, <2>2 DEF TurnInv, In
  <2>4. ASSUME NEW d \in Calls PROVE calls[d] \in {"unknown", "completed"}
    <3>1. native.tools[d] \in {"unknown", "completed"} /\ CallInv(d)
      BY <2>1 DEF TurnInv
    <3>2. ~In(inbox, "completed", d)
      BY <2>2 DEF In, AboutCall
    <3>. QED  BY <3>1, <3>2 DEF CallInv
  <2>. QED  BY <1>5, <1>12, <2>1, <2>3, <2>4 DEF Accepted, FinishOK
<1>. QED
  <2>1. inbox[1].kind # "denied" /\ inbox[1].kind \in Kinds
    BY <1>1 DEF FrameOK, InFrame
  <2>. QED  BY <2>1, <1>7, <1>8, <1>9, <1>10, <1>11, <1>12 DEF Kinds, AboutCall

LEMMA InterruptedKeeps ==
  ASSUME SessionInv, Interrupted
  PROVE  SessionInv'
<1>a. SessionTypeOK
  BY DEF SessionInv
<1>b. QueueInv
  BY DEF SessionInv
<1>c. HandlerInv
  BY DEF SessionInv
<1>d. EndInv
  BY DEF SessionInv
<1>e. HonestInv
  BY DEF SessionInv
<1>t. /\ ses \in SesState /\ calls \in [Calls -> CallStages] /\ inbox \in Seq(InFrame) /\ wr \in WriteState
      /\ native \in NatState /\ fin \in FinState /\ slot \in SlotState /\ ran \in [Calls -> Nat]
  BY <1>a DEF SessionTypeOK
<1>1. ASSUME slot.run = "session",
             ses.failure = "none",
             ses' = [ses EXCEPT !.failure = "interrupted"],
             UNCHANGED <<calls, inbox, wr, native, fin, slot, ran>>
     PROVE  SessionInv'
  <2>h. slot.run = "session" /\ ses.failure = "none"
    BY <1>1
  <2>g. /\ ses'.at = ses.at /\ ses'.pending = ses.pending /\ ses'.thread = ses.thread /\ ses'.turn = ses.turn
        /\ ses'.early = ses.early /\ ses'.out = ses.out /\ ses'.completed = ses.completed /\ ses'.failure = "interrupted"
        /\ ses'.closing = ses.closing /\ ses'.handler = ses.handler /\ ses'.step = ses.step /\ calls' = calls
        /\ inbox' = inbox /\ wr' = wr /\ native' = native /\ fin' = fin /\ slot' = slot /\ ran' = ran
    BY <1>t, <1>1 DEF SesState
  <2>1. SessionTypeOK'
    <3>ses. ses' \in SesState
      BY <1>t, <1>1 DEF SesState
    <3>. QED  BY <1>t, <2>g, <3>ses, <1>a DEF SessionTypeOK
  <2>2. QueueInv'
    BY <1>t, <2>h, <2>g, <1>b, <1>c DEF QueueInv, QueueOK
  <2>3. HandlerInv'
    BY <1>t, <2>h, <2>g, <1>c DEF HandlerInv
  <2>4. EndInv'
    BY <1>t, <2>h, <2>g, <1>b, <1>c, <1>d DEF EndInv, BeforeSession, AllJoined
  <2>5. HonestInv'
    BY <2>g, <2>h, <1>e DEF HonestInv
  <2>. QED  BY <2>1, <2>2, <2>3, <2>4, <2>5 DEF SessionInv
<1>. QED
  BY <1>1 DEF Interrupted, Fails, Failed

LEMMA NativeExitsKeeps ==
  ASSUME SessionInv, NativeExits
  PROVE  SessionInv'
<1>a. SessionTypeOK
  BY DEF SessionInv
<1>b. QueueInv
  BY DEF SessionInv
<1>c. HandlerInv
  BY DEF SessionInv
<1>d. EndInv
  BY DEF SessionInv
<1>e. HonestInv
  BY DEF SessionInv
<1>t. /\ ses \in SesState /\ calls \in [Calls -> CallStages] /\ inbox \in Seq(InFrame) /\ wr \in WriteState
      /\ native \in NatState /\ fin \in FinState /\ slot \in SlotState /\ ran \in [Calls -> Nat]
  BY <1>a DEF SessionTypeOK
<1>1. ASSUME native.up,
             ses.completed \/ ses.closing,
             native' = [native EXCEPT !.up = FALSE],
             UNCHANGED <<ses, calls, inbox, wr, fin, slot, ran>>
     PROVE  SessionInv'
  <2>h. native.up /\ (ses.completed \/ ses.closing)
    BY <1>1
  <2>g. /\ ses' = ses /\ calls' = calls /\ inbox' = inbox /\ wr' = wr /\ native'.up = FALSE
        /\ native'.honest = native.honest /\ native'.asked = native.asked /\ native'.answered = native.answered
        /\ native'.begun = native.begun /\ native'.final = native.final /\ native'.ended = native.ended
        /\ native'.tools = native.tools /\ native'.wild = native.wild /\ fin' = fin /\ slot' = slot /\ ran' = ran
    BY <1>t, <1>1 DEF NatState
  <2>1. SessionTypeOK'
    <3>native. native' \in NatState
      BY <1>t, <1>1 DEF NatState
    <3>. QED  BY <1>t, <2>g, <3>native, <1>a DEF SessionTypeOK
  <2>2. QueueInv'
    BY <1>t, <2>h, <2>g, <1>b, <1>c DEF QueueInv, QueueOK
  <2>3. HandlerInv'
    BY <1>t, <2>h, <2>g, <1>c DEF HandlerInv
  <2>4. EndInv'
    BY <1>t, <2>h, <2>g, <1>b, <1>c, <1>d DEF EndInv, BeforeSession, AllJoined
  <2>5. HonestInv'
    <3> SUFFICES ASSUME native.honest, ses.failure = "none", ~ses.closing
                 PROVE  RpcInv' /\ TurnInv' /\ PipeInv' /\ \A d \in Calls : CallInv(d)'
      BY <2>g, <1>e DEF HonestInv
    <3>0. RpcInv /\ TurnInv /\ PipeInv /\ \A d \in Calls : CallInv(d)
      BY <1>e DEF HonestInv
    <3>1. RpcInv'
      BY <3>0, <2>g DEF RpcInv
    <3>2. TurnInv'
      BY <3>0, <2>g DEF TurnInv
    <3>3. PipeInv'
      BY <3>0, <2>g DEF PipeInv, FrameOK, OrderOK, Bound
    <3>4. ASSUME NEW d \in Calls PROVE CallInv(d)'
      <4>1. CallInv(d)
        BY <3>0
      <4>2. Writing(d)' <=> Writing(d)
        BY <2>g, <2>h DEF Writing
      <4>. QED  BY <4>1, <4>2, <2>g DEF CallInv
    <3>. QED  BY <3>1, <3>2, <3>3, <3>4
  <2>. QED  BY <2>1, <2>2, <2>3, <2>4, <2>5 DEF SessionInv
<1>2. ASSUME native.up,
             ~(ses.completed \/ ses.closing),
             ses' = [ses EXCEPT !.failure = IF ses.failure = "none" THEN "interrupted" ELSE ses.failure],
             native' = [native EXCEPT !.up = FALSE],
             UNCHANGED <<calls, inbox, wr, fin, slot, ran>>
     PROVE  SessionInv'
  <2>h. native.up /\ (~(ses.completed \/ ses.closing))
    BY <1>2
  <2>g. /\ ses'.at = ses.at /\ ses'.pending = ses.pending /\ ses'.thread = ses.thread /\ ses'.turn = ses.turn
        /\ ses'.early = ses.early /\ ses'.out = ses.out /\ ses'.completed = ses.completed
        /\ (ses'.failure = IF ses.failure = "none" THEN "interrupted" ELSE ses.failure) /\ ses'.closing = ses.closing
        /\ ses'.handler = ses.handler /\ ses'.step = ses.step /\ calls' = calls /\ inbox' = inbox /\ wr' = wr
        /\ native'.up = FALSE /\ native'.honest = native.honest /\ native'.asked = native.asked
        /\ native'.answered = native.answered /\ native'.begun = native.begun /\ native'.final = native.final
        /\ native'.ended = native.ended /\ native'.tools = native.tools /\ native'.wild = native.wild /\ fin' = fin
        /\ slot' = slot /\ ran' = ran
    BY <1>t, <1>2 DEF SesState, NatState
  <2>1. SessionTypeOK'
    <3>ses. ses' \in SesState
      BY <1>t, <1>2 DEF SesState
    <3>native. native' \in NatState
      BY <1>t, <1>2 DEF NatState
    <3>. QED  BY <1>t, <2>g, <3>ses, <3>native, <1>a DEF SessionTypeOK
  <2>2. QueueInv'
    BY <1>t, <2>h, <2>g, <1>b, <1>c DEF QueueInv, QueueOK
  <2>3. HandlerInv'
    BY <1>t, <2>h, <2>g, <1>c DEF HandlerInv
  <2>4. EndInv'
    BY <1>t, <2>h, <2>g, <1>b, <1>c, <1>d DEF EndInv, BeforeSession, AllJoined
  <2>5. HonestInv'
    BY <2>g, <2>h, <1>e DEF HonestInv
  <2>. QED  BY <2>1, <2>2, <2>3, <2>4, <2>5 DEF SessionInv
<1>. QED
  BY <1>1, <1>2 DEF NativeExits, Failed

LEMMA BeginWriteKeeps ==
  ASSUME SessionInv, BeginWrite
  PROVE  SessionInv'
<1>a. SessionTypeOK
  BY DEF SessionInv
<1>b. QueueInv
  BY DEF SessionInv
<1>c. HandlerInv
  BY DEF SessionInv
<1>d. EndInv
  BY DEF SessionInv
<1>e. HonestInv
  BY DEF SessionInv
<1>t. /\ ses \in SesState /\ calls \in [Calls -> CallStages] /\ inbox \in Seq(InFrame) /\ wr \in WriteState
      /\ native \in NatState /\ fin \in FinState /\ slot \in SlotState /\ ran \in [Calls -> Nat]
  BY <1>a DEF SessionTypeOK
<1>1. ASSUME wr.queue # <<>>,
             ~wr.sending,
             ~wr.closed,
             wr' = [wr EXCEPT !.sending = TRUE],
             UNCHANGED <<ses, calls, inbox, native, fin, slot, ran>>
     PROVE  SessionInv'
  <2>h. wr.queue # <<>> /\ ~wr.sending /\ ~wr.closed
    BY <1>1
  <2>g. /\ ses' = ses /\ calls' = calls /\ inbox' = inbox /\ wr'.queue = wr.queue /\ wr'.sending = TRUE
        /\ wr'.closed = wr.closed /\ native' = native /\ fin' = fin /\ slot' = slot /\ ran' = ran
    BY <1>t, <1>1 DEF WriteState
  <2>1. SessionTypeOK'
    <3>wr. wr' \in WriteState
      BY <1>t, <1>1 DEF WriteState
    <3>. QED  BY <1>t, <2>g, <3>wr, <1>a DEF SessionTypeOK
  <2>2. QueueInv'
    BY <1>t, <2>h, <2>g, <1>b, <1>c DEF QueueInv, QueueOK
  <2>3. HandlerInv'
    BY <1>t, <2>h, <2>g, <1>c DEF HandlerInv
  <2>4. EndInv'
    BY <1>t, <2>h, <2>g, <1>b, <1>c, <1>d DEF EndInv, BeforeSession, AllJoined
  <2>5. HonestInv'
    <3> SUFFICES ASSUME native.honest, ses.failure = "none", ~ses.closing
                 PROVE  RpcInv' /\ TurnInv' /\ PipeInv' /\ \A d \in Calls : CallInv(d)'
      BY <2>g, <1>e DEF HonestInv
    <3>0. RpcInv /\ TurnInv /\ PipeInv /\ \A d \in Calls : CallInv(d)
      BY <1>e DEF HonestInv
    <3>1. RpcInv'
      BY <3>0, <2>g DEF RpcInv
    <3>2. TurnInv'
      BY <3>0, <2>g DEF TurnInv
    <3>3. PipeInv'
      BY <3>0, <2>g DEF PipeInv, FrameOK, OrderOK, Bound
    <3>4. ASSUME NEW d \in Calls PROVE CallInv(d)'
      <4>1. CallInv(d)
        BY <3>0
      <4>2. Writing(d)' <=> Writing(d)
        BY <2>g, <2>h DEF Writing
      <4>. QED  BY <4>1, <4>2, <2>g DEF CallInv
    <3>. QED  BY <3>1, <3>2, <3>3, <3>4
  <2>. QED  BY <2>1, <2>2, <2>3, <2>4, <2>5 DEF SessionInv
<1>. QED
  BY <1>1 DEF BeginWrite

LEMMA DropWriteKeeps ==
  ASSUME SessionInv, DropWrite
  PROVE  SessionInv'
<1>a. SessionTypeOK
  BY DEF SessionInv
<1>b. QueueInv
  BY DEF SessionInv
<1>c. HandlerInv
  BY DEF SessionInv
<1>d. EndInv
  BY DEF SessionInv
<1>e. HonestInv
  BY DEF SessionInv
<1>t. /\ ses \in SesState /\ calls \in [Calls -> CallStages] /\ inbox \in Seq(InFrame) /\ wr \in WriteState
      /\ native \in NatState /\ fin \in FinState /\ slot \in SlotState /\ ran \in [Calls -> Nat]
  BY <1>a DEF SessionTypeOK
<1>1. ASSUME wr.queue # <<>>,
             ~wr.sending,
             wr.closed \/ ses.failure # "none",
             ses.closing,
             wr' = [wr EXCEPT !.queue = Tail(wr.queue), !.closed = TRUE],
             UNCHANGED <<ses, calls, inbox, native, fin, slot, ran>>
     PROVE  SessionInv'
  <2>h. wr.queue # <<>> /\ ~wr.sending /\ (wr.closed \/ ses.failure # "none") /\ ses.closing
    BY <1>1
  <2>g. /\ ses' = ses /\ calls' = calls /\ inbox' = inbox /\ wr'.queue = Tail(wr.queue) /\ wr'.sending = wr.sending
        /\ wr'.closed = TRUE /\ native' = native /\ fin' = fin /\ slot' = slot /\ ran' = ran
    BY <1>t, <1>1 DEF WriteState
  <2>p. wr.queue \in Seq(Written) /\ Tail(wr.queue) \in Seq(Written) /\ Popped(wr.queue, wr'.queue)
    <3>1. wr.queue \in Seq(Written) /\ wr.queue # <<>>
      BY <1>t, <2>h, <1>b DEF WriteState, QueueInv
    <3>2. Tail(wr.queue) \in Seq(Written) /\ Popped(wr.queue, Tail(wr.queue))
      BY <3>1, PoppedSeq
    <3>. QED  BY <3>1, <3>2, <2>g
  <2>1. SessionTypeOK'
    <3>wr. wr' \in WriteState
      BY <1>t, <1>1, <2>p DEF WriteState
    <3>. QED  BY <1>t, <2>g, <3>wr, <2>p, <1>a DEF SessionTypeOK
  <2>2. QueueInv'
    <3>q. /\ \A i \in 1..Len(wr.queue) : QueueOK(i)
          /\ \A i, j \in 1..Len(wr.queue) : wr.queue[i].call # None /\ wr.queue[j].call # None => i = j
      BY <1>b DEF QueueInv
    <3>1. ASSUME NEW i \in 1..Len(wr'.queue) PROVE QueueOK(i)'
      <4>1. i + 1 \in 1..Len(wr.queue) /\ wr'.queue[i] = wr.queue[i + 1] /\ i + 1 # 1 /\ 1 \in 1..Len(wr.queue)
        BY <2>p DEF Popped
      <4>2. QueueOK(i + 1) /\ ~(wr.queue[i + 1].call # None /\ wr.queue[1].call # None)
        BY <3>q, <4>1
      <4>. QED  BY <4>1, <4>2, <2>g, <2>h DEF QueueOK
    <3>2. ASSUME NEW i \in 1..Len(wr'.queue), NEW j \in 1..Len(wr'.queue), wr'.queue[i].call # None, wr'.queue[j].call # None
          PROVE  i = j
      <4>1. /\ i + 1 \in 1..Len(wr.queue) /\ wr'.queue[i] = wr.queue[i + 1]
            /\ j + 1 \in 1..Len(wr.queue) /\ wr'.queue[j] = wr.queue[j + 1]
        BY <2>p DEF Popped
      <4>2. i + 1 = j + 1
        BY <4>1, <3>2, <3>q
      <4>. QED  BY <4>2
    <3>3. ~wr'.sending
      BY <2>g, <2>h
    <3>. QED  BY <3>1, <3>2, <3>3 DEF QueueInv
  <2>3. HandlerInv'
    BY <1>t, <2>h, <2>g, <2>p, <1>c DEF HandlerInv
  <2>4. EndInv'
    BY <1>t, <2>h, <2>g, <2>p, <1>b, <1>c, <1>d DEF EndInv, BeforeSession, AllJoined
  <2>5. HonestInv'
    BY <2>g, <2>h, <1>e DEF HonestInv
  <2>. QED  BY <2>1, <2>2, <2>3, <2>4, <2>5 DEF SessionInv
<1>2. ASSUME wr.queue # <<>>,
             ~wr.sending,
             wr.closed \/ ses.failure # "none",
             ~ses.closing,
             ses' = [ses EXCEPT !.failure = IF ses.failure = "none" THEN "write" ELSE ses.failure],
             wr' = [wr EXCEPT !.queue = Tail(wr.queue), !.closed = TRUE],
             UNCHANGED <<calls, inbox, native, fin, slot, ran>>
     PROVE  SessionInv'
  <2>h. wr.queue # <<>> /\ ~wr.sending /\ (wr.closed \/ ses.failure # "none") /\ ~ses.closing
    BY <1>2
  <2>g. /\ ses'.at = ses.at /\ ses'.pending = ses.pending /\ ses'.thread = ses.thread /\ ses'.turn = ses.turn
        /\ ses'.early = ses.early /\ ses'.out = ses.out /\ ses'.completed = ses.completed
        /\ (ses'.failure = IF ses.failure = "none" THEN "write" ELSE ses.failure) /\ ses'.closing = ses.closing
        /\ ses'.handler = ses.handler /\ ses'.step = ses.step /\ calls' = calls /\ inbox' = inbox
        /\ wr'.queue = Tail(wr.queue) /\ wr'.sending = wr.sending /\ wr'.closed = TRUE /\ native' = native /\ fin' = fin
        /\ slot' = slot /\ ran' = ran
    BY <1>t, <1>2 DEF SesState, WriteState
  <2>p. wr.queue \in Seq(Written) /\ Tail(wr.queue) \in Seq(Written) /\ Popped(wr.queue, wr'.queue)
    <3>1. wr.queue \in Seq(Written) /\ wr.queue # <<>>
      BY <1>t, <2>h, <1>b DEF WriteState, QueueInv
    <3>2. Tail(wr.queue) \in Seq(Written) /\ Popped(wr.queue, Tail(wr.queue))
      BY <3>1, PoppedSeq
    <3>. QED  BY <3>1, <3>2, <2>g
  <2>1. SessionTypeOK'
    <3>ses. ses' \in SesState
      BY <1>t, <1>2 DEF SesState
    <3>wr. wr' \in WriteState
      BY <1>t, <1>2, <2>p DEF WriteState
    <3>. QED  BY <1>t, <2>g, <3>ses, <3>wr, <2>p, <1>a DEF SessionTypeOK
  <2>2. QueueInv'
    <3>q. /\ \A i \in 1..Len(wr.queue) : QueueOK(i)
          /\ \A i, j \in 1..Len(wr.queue) : wr.queue[i].call # None /\ wr.queue[j].call # None => i = j
      BY <1>b DEF QueueInv
    <3>1. ASSUME NEW i \in 1..Len(wr'.queue) PROVE QueueOK(i)'
      <4>1. i + 1 \in 1..Len(wr.queue) /\ wr'.queue[i] = wr.queue[i + 1] /\ i + 1 # 1 /\ 1 \in 1..Len(wr.queue)
        BY <2>p DEF Popped
      <4>2. QueueOK(i + 1) /\ ~(wr.queue[i + 1].call # None /\ wr.queue[1].call # None)
        BY <3>q, <4>1
      <4>. QED  BY <4>1, <4>2, <2>g, <2>h DEF QueueOK
    <3>2. ASSUME NEW i \in 1..Len(wr'.queue), NEW j \in 1..Len(wr'.queue), wr'.queue[i].call # None, wr'.queue[j].call # None
          PROVE  i = j
      <4>1. /\ i + 1 \in 1..Len(wr.queue) /\ wr'.queue[i] = wr.queue[i + 1]
            /\ j + 1 \in 1..Len(wr.queue) /\ wr'.queue[j] = wr.queue[j + 1]
        BY <2>p DEF Popped
      <4>2. i + 1 = j + 1
        BY <4>1, <3>2, <3>q
      <4>. QED  BY <4>2
    <3>3. ~wr'.sending
      BY <2>g, <2>h
    <3>. QED  BY <3>1, <3>2, <3>3 DEF QueueInv
  <2>3. HandlerInv'
    BY <1>t, <2>h, <2>g, <2>p, <1>c DEF HandlerInv
  <2>4. EndInv'
    BY <1>t, <2>h, <2>g, <2>p, <1>b, <1>c, <1>d DEF EndInv, BeforeSession, AllJoined
  <2>5. HonestInv'
    BY <2>g, <2>h, <1>e DEF HonestInv
  <2>. QED  BY <2>1, <2>2, <2>3, <2>4, <2>5 DEF SessionInv
<1>. QED
  BY <1>1, <1>2 DEF DropWrite, Failed, Active

LEMMA WriteArrivesKeeps ==
  ASSUME SessionInv, WriteArrives
  PROVE  SessionInv'
<1>a. SessionTypeOK
  BY DEF SessionInv
<1>b. QueueInv
  BY DEF SessionInv
<1>c. HandlerInv
  BY DEF SessionInv
<1>d. EndInv
  BY DEF SessionInv
<1>e. HonestInv
  BY DEF SessionInv
<1>t. /\ ses \in SesState /\ calls \in [Calls -> CallStages] /\ inbox \in Seq(InFrame) /\ wr \in WriteState
      /\ native \in NatState /\ fin \in FinState /\ slot \in SlotState /\ ran \in [Calls -> Nat]
  BY <1>a DEF SessionTypeOK
<1>1. ASSUME wr.sending,
             native.up,
             wr.queue[1].kind = "rpc",
             wr' = [wr EXCEPT !.queue = <<Frame("done", Head(wr.queue).call)>> \o Tail(wr.queue)],
             native' = [native EXCEPT !.asked = native.asked + 1],
             UNCHANGED <<ses, calls, inbox, fin, slot, ran>>
     PROVE  SessionInv'
  <2>h. wr.sending /\ native.up /\ wr.queue[1].kind = "rpc"
    BY <1>1
  <2>g. /\ ses' = ses /\ calls' = calls /\ inbox' = inbox
        /\ wr'.queue = <<Frame("done", Head(wr.queue).call)>> \o Tail(wr.queue) /\ wr'.sending = wr.sending
        /\ wr'.closed = wr.closed /\ native'.up = native.up /\ native'.honest = native.honest
        /\ native'.asked = native.asked + 1 /\ native'.answered = native.answered /\ native'.begun = native.begun
        /\ native'.final = native.final /\ native'.ended = native.ended /\ native'.tools = native.tools
        /\ native'.wild = native.wild /\ fin' = fin /\ slot' = slot /\ ran' = ran
    BY <1>t, <1>1 DEF WriteState, NatState
  <2>p. LET x == Frame("done", Head(wr.queue).call)
        IN  /\ wr.queue \in Seq(Written) /\ <<x>> \o Tail(wr.queue) \in Seq(Written)
            /\ Swapped(wr.queue, wr'.queue, x) /\ x.kind = "done" /\ x.call = wr.queue[1].call
    <3>1. wr.queue \in Seq(Written) /\ wr.queue # <<>> /\ Head(wr.queue) = wr.queue[1] /\ wr.queue[1] \in Written
      BY <1>t, <2>h, <1>b, PoppedSeq DEF WriteState, QueueInv, Popped
    <3> DEFINE x == Frame("done", Head(wr.queue).call)
    <3>2. x \in Written /\ x.kind = "done" /\ x.call = wr.queue[1].call
      BY <3>1 DEF Frame, Written
    <3>3. <<x>> \o Tail(wr.queue) \in Seq(Written) /\ Swapped(wr.queue, <<x>> \o Tail(wr.queue), x)
      BY <3>1, <3>2, SwappedSeq
    <3>. QED  BY <3>1, <3>2, <3>3, <2>g
  <2>1. SessionTypeOK'
    <3>wr. wr' \in WriteState
      BY <1>t, <1>1, <2>p DEF WriteState
    <3>native. native' \in NatState
      <4>1. native.asked + 1 \in Nat
        BY <1>t DEF NatState
      <4>. QED  BY <1>t, <1>1, <4>1 DEF NatState
    <3>. QED  BY <1>t, <2>g, <3>wr, <3>native, <2>p, <1>a DEF SessionTypeOK
  <2>2. QueueInv'
    <3>q. /\ \A i \in 1..Len(wr.queue) : QueueOK(i)
          /\ \A i, j \in 1..Len(wr.queue) : wr.queue[i].call # None /\ wr.queue[j].call # None => i = j
      BY <1>b DEF QueueInv
    <3>p. /\ Len(wr'.queue) = Len(wr.queue) /\ 1 \in 1..Len(wr.queue) /\ wr'.queue # <<>> /\ wr'.queue[1].kind = "done"
          /\ wr'.queue[1].call = wr.queue[1].call /\ \A i \in 1..Len(wr.queue) : i # 1 => wr'.queue[i] = wr.queue[i]
      BY <2>p DEF Swapped
    <3>1. ASSUME NEW i \in 1..Len(wr.queue) PROVE QueueOK(i)'
      <4>1. CASE i = 1
        BY <4>1, <3>p, <3>q, <2>g, <2>h DEF QueueOK
      <4>2. CASE i # 1
        <5>1. wr'.queue[i] = wr.queue[i]
          BY <4>2, <3>p
        <5>. QED  BY <5>1, <4>2, <3>q, <2>g DEF QueueOK
      <4>. QED  BY <4>1, <4>2
    <3>2. \A i, j \in 1..Len(wr.queue) : wr'.queue[i].call # None /\ wr'.queue[j].call # None => i = j
      <4>1. \A i \in 1..Len(wr.queue) : wr'.queue[i].call = wr.queue[i].call
        BY <3>p
      <4>. QED  BY <4>1, <3>q
    <3>. QED  BY <3>1, <3>2, <3>p DEF QueueInv
  <2>3. HandlerInv'
    BY <1>t, <2>h, <2>g, <2>p, <1>c DEF HandlerInv
  <2>4. EndInv'
    BY <1>t, <2>h, <2>g, <2>p, <1>b, <1>c, <1>d DEF EndInv, BeforeSession, AllJoined
  <2>5. HonestInv'
    <3> SUFFICES ASSUME native.honest, ses.failure = "none", ~ses.closing
                 PROVE  RpcInv' /\ TurnInv' /\ PipeInv' /\ \A d \in Calls : CallInv(d)'
      BY <2>g, <1>e DEF HonestInv
    <3>0. RpcInv /\ TurnInv /\ PipeInv /\ \A d \in Calls : CallInv(d)
      BY <1>e DEF HonestInv
    <3>p. /\ Len(wr'.queue) = Len(wr.queue) /\ 1 \in 1..Len(wr.queue) /\ wr'.queue # <<>> /\ wr'.queue[1].kind = "done"
          /\ wr'.queue[1].call = None /\ \A i \in 1..Len(wr.queue) : i # 1 => wr'.queue[i] = wr.queue[i]
      BY <2>p, <2>h, <1>b DEF Swapped, QueueInv, QueueOK
    <3>r. RpcIn(wr.queue) /\ ~RpcIn(wr'.queue)
      BY <3>p, <3>0, <2>h DEF RpcIn, RpcInv
    <3>a. /\ native.asked = ses.at - 1 /\ native.asked' = native.asked + 1 /\ ses.at \in 0..5 /\ ses.pending
          /\ ~In(inbox, "reply", None) /\ native.asked \in Nat /\ native.asked # 5 /\ native.asked # ses.at
      BY <3>r, <3>0, <1>t, <2>g DEF RpcInv, SesState, NatState
    <3>w. \A c \in Calls : ~Writing(c) /\ ~Writing(c)'
      BY <3>p, <2>h, SessionAssumption DEF Writing
    <3>1. RpcInv'
      <4>1. \A i, j \in 1..Len(wr'.queue) : wr'.queue[i].kind = "rpc" /\ wr'.queue[j].kind = "rpc" => i = j
        BY <3>r DEF RpcIn
      <4>2. native'.asked = ses'.at /\ native'.answered <= native'.asked
        BY <3>0, <3>a, <1>t, <2>g DEF RpcInv, NatState
      <4>3. ses' = ses /\ inbox' = inbox /\ native'.answered = native.answered
        BY <2>g
      <4>4. /\ native.answered = IF ses.pending /\ ~In(inbox, "reply", None) THEN ses.at - 1 ELSE ses.at
            /\ ses.at > 0 /\ (ses.thread <=> ses.at = 5 \/ (ses.at = 4 /\ ~ses.pending)) /\ (ses.turn <=> ses.at = 5 /\ ~ses.pending)
        BY <3>0, <3>a DEF RpcInv
      <4>5. ses.at <= ses.at
        BY <3>a
      <4>. QED  BY <4>1, <4>2, <4>3, <4>4, <4>5, <3>r, <3>a DEF RpcInv
    <3>2. TurnInv'
      BY <3>0, <3>a, <2>g DEF TurnInv
    <3>3. PipeInv'
      BY <3>0, <3>a, <2>g DEF PipeInv, FrameOK, OrderOK, Bound
    <3>4. ASSUME NEW d \in Calls PROVE CallInv(d)'
      <4>1. CallInv(d)
        BY <3>0
      <4>. QED  BY <4>1, <3>w, <2>g DEF CallInv
    <3>. QED  BY <3>1, <3>2, <3>3, <3>4
  <2>. QED  BY <2>1, <2>2, <2>3, <2>4, <2>5 DEF SessionInv
<1>2. ASSUME wr.sending,
             native.up,
             NEW c \in Calls,
             wr.queue[1].kind = "answer",
             c = wr.queue[1].call,
             wr' = [wr EXCEPT !.queue = <<Frame("done", Head(wr.queue).call)>> \o Tail(wr.queue)],
             native' = [native EXCEPT !.tools[c] = "answered"],
             UNCHANGED <<ses, calls, inbox, fin, slot, ran>>
     PROVE  SessionInv'
  <2>h. c \in Calls /\ wr.sending /\ native.up /\ wr.queue[1].kind = "answer" /\ c = wr.queue[1].call
    BY <1>2
  <2>g. /\ ses' = ses /\ calls' = calls /\ inbox' = inbox
        /\ wr'.queue = <<Frame("done", Head(wr.queue).call)>> \o Tail(wr.queue) /\ wr'.sending = wr.sending
        /\ wr'.closed = wr.closed /\ native'.up = native.up /\ native'.honest = native.honest
        /\ native'.asked = native.asked /\ native'.answered = native.answered /\ native'.begun = native.begun
        /\ native'.final = native.final /\ native'.ended = native.ended
        /\ (\A d \in Calls : native'.tools[d] = IF d = c THEN "answered" ELSE native.tools[d])
        /\ native'.wild = native.wild /\ fin' = fin /\ slot' = slot /\ ran' = ran
    BY <1>t, <1>2 DEF WriteState, NatState
  <2>p. LET x == Frame("done", Head(wr.queue).call)
        IN  /\ wr.queue \in Seq(Written) /\ <<x>> \o Tail(wr.queue) \in Seq(Written)
            /\ Swapped(wr.queue, wr'.queue, x) /\ x.kind = "done" /\ x.call = wr.queue[1].call
    <3>1. wr.queue \in Seq(Written) /\ wr.queue # <<>> /\ Head(wr.queue) = wr.queue[1] /\ wr.queue[1] \in Written
      BY <1>t, <2>h, <1>b, PoppedSeq DEF WriteState, QueueInv, Popped
    <3> DEFINE x == Frame("done", Head(wr.queue).call)
    <3>2. x \in Written /\ x.kind = "done" /\ x.call = wr.queue[1].call
      BY <3>1 DEF Frame, Written
    <3>3. <<x>> \o Tail(wr.queue) \in Seq(Written) /\ Swapped(wr.queue, <<x>> \o Tail(wr.queue), x)
      BY <3>1, <3>2, SwappedSeq
    <3>. QED  BY <3>1, <3>2, <3>3, <2>g
  <2>1. SessionTypeOK'
    <3>wr. wr' \in WriteState
      BY <1>t, <1>2, <2>p DEF WriteState
    <3>native. native' \in NatState
      <4>1. [native.tools EXCEPT ![c] = "answered"] \in [Calls -> ToolStages]
        BY <1>t, <2>h DEF NatState, ToolStages
      <4>2. native' = [native EXCEPT !.tools = [native.tools EXCEPT ![c] = "answered"]]
        BY <1>2
      <4>. QED  BY <1>t, <4>1, <4>2 DEF NatState
    <3>. QED  BY <1>t, <2>g, <3>wr, <3>native, <2>p, <1>a DEF SessionTypeOK
  <2>2. QueueInv'
    <3>q. /\ \A i \in 1..Len(wr.queue) : QueueOK(i)
          /\ \A i, j \in 1..Len(wr.queue) : wr.queue[i].call # None /\ wr.queue[j].call # None => i = j
      BY <1>b DEF QueueInv
    <3>p. /\ Len(wr'.queue) = Len(wr.queue) /\ 1 \in 1..Len(wr.queue) /\ wr'.queue # <<>> /\ wr'.queue[1].kind = "done"
          /\ wr'.queue[1].call = wr.queue[1].call /\ \A i \in 1..Len(wr.queue) : i # 1 => wr'.queue[i] = wr.queue[i]
      BY <2>p DEF Swapped
    <3>1. ASSUME NEW i \in 1..Len(wr.queue) PROVE QueueOK(i)'
      <4>1. CASE i = 1
        BY <4>1, <3>p, <3>q, <2>g, <2>h DEF QueueOK
      <4>2. CASE i # 1
        <5>1. wr'.queue[i] = wr.queue[i]
          BY <4>2, <3>p
        <5>. QED  BY <5>1, <4>2, <3>q, <2>g DEF QueueOK
      <4>. QED  BY <4>1, <4>2
    <3>2. \A i, j \in 1..Len(wr.queue) : wr'.queue[i].call # None /\ wr'.queue[j].call # None => i = j
      <4>1. \A i \in 1..Len(wr.queue) : wr'.queue[i].call = wr.queue[i].call
        BY <3>p
      <4>. QED  BY <4>1, <3>q
    <3>. QED  BY <3>1, <3>2, <3>p DEF QueueInv
  <2>3. HandlerInv'
    BY <1>t, <2>h, <2>g, <2>p, <1>c DEF HandlerInv
  <2>4. EndInv'
    BY <1>t, <2>h, <2>g, <2>p, <1>b, <1>c, <1>d DEF EndInv, BeforeSession, AllJoined
  <2>5. HonestInv'
    <3> SUFFICES ASSUME native.honest, ses.failure = "none", ~ses.closing
                 PROVE  RpcInv' /\ TurnInv' /\ PipeInv' /\ \A d \in Calls : CallInv(d)'
      BY <2>g, <1>e DEF HonestInv
    <3>0. RpcInv /\ TurnInv /\ PipeInv /\ \A d \in Calls : CallInv(d)
      BY <1>e DEF HonestInv
    <3>p. /\ Len(wr'.queue) = Len(wr.queue) /\ 1 \in 1..Len(wr.queue) /\ wr'.queue # <<>> /\ wr'.queue[1].kind = "done"
          /\ wr'.queue[1].call = c /\ \A i \in 1..Len(wr.queue) : i # 1 => wr'.queue[i] = wr.queue[i]
      BY <2>p, <2>h DEF Swapped
    <3>s. ses.step = "writing" /\ ses.handler = c /\ calls[c] = "claimed"
      BY <3>p, <2>h, <1>b, <1>c, SessionAssumption DEF QueueInv, QueueOK, HandlerInv
    <3>r. RpcIn(wr.queue) <=> RpcIn(wr'.queue)
      BY <3>p, <2>h DEF RpcIn
    <3>w. /\ \A d \in Calls : ~Writing(d) /\ (Writing(d)' <=> d = c)
      BY <3>p, <3>s, <2>h, <2>g DEF Writing
    <3>c. native.tools[c] = "call" /\ ~In(inbox, "started", c) /\ ~In(inbox, "call", c) /\ ~In(inbox, "completed", c)
      <4>1. CallInv(c) /\ ~Writing(c)
        BY <3>0, <3>w, <2>h
      <4>2. native.tools[c] \in ToolStages
        BY <1>t, <2>h DEF NatState
      <4>. QED  BY <4>1, <4>2, <3>s DEF CallInv, ToolStages
    <3>1. RpcInv'
      <4>1. \A i \in 1..Len(wr.queue) : wr'.queue[i].kind = "rpc" => wr.queue[i].kind = "rpc"
        BY <3>p
      <4>2. \A i, j \in 1..Len(wr'.queue) : wr'.queue[i].kind = "rpc" /\ wr'.queue[j].kind = "rpc" => i = j
        BY <3>0, <3>p, <4>1 DEF RpcInv
      <4>. QED  BY <4>2, <3>0, <3>r, <2>g DEF RpcInv
    <3>2. TurnInv'
      <4>1. ~native.final
        BY <3>0, <3>c, <2>h DEF TurnInv
      <4>2. native.begun /\ native.answered = 5
        BY <3>0, <3>c, <2>h DEF TurnInv
      <4>. QED  BY <4>1, <4>2, <3>0, <2>g DEF TurnInv
    <3>3. PipeInv'
      BY <3>0, <2>g DEF PipeInv, FrameOK, OrderOK, Bound
    <3>4. ASSUME NEW d \in Calls PROVE CallInv(d)'
      <4>1. CallInv(d)
        BY <3>0
      <4>2. CASE d = c
        <5>1. native'.tools[c] = "answered" /\ calls'[c] = "claimed" /\ Writing(c)'
          BY <3>w, <3>s, <2>g, <2>h
        <5>. QED  BY <5>1, <4>2, <3>c, <2>g DEF CallInv
      <4>3. CASE d # c
        <5>1. native'.tools[d] = native.tools[d] /\ (Writing(d)' <=> Writing(d))
          BY <4>3, <3>w, <2>g
        <5>. QED  BY <5>1, <4>1, <2>g DEF CallInv
      <4>. QED  BY <4>2, <4>3
    <3>. QED  BY <3>1, <3>2, <3>3, <3>4
  <2>. QED  BY <2>1, <2>2, <2>3, <2>4, <2>5 DEF SessionInv
<1>3. wr.sending /\ native.up => wr.queue # <<>> /\ Head(wr.queue) = wr.queue[1] /\ QueueOK(1) /\ wr.queue[1] \in Written
  <2>1. wr.sending => wr.queue # <<>> /\ wr.queue \in Seq(Written)
    BY <1>b, <1>t DEF QueueInv, WriteState
  <2>2. wr.sending => Popped(wr.queue, Tail(wr.queue)) /\ wr.queue[1] \in Written
    BY <2>1, PoppedSeq
  <2>. QED  BY <2>1, <2>2, <1>b DEF Popped, QueueInv
<1>4. CASE wr.queue[1].kind = "rpc"
  BY <1>1, <1>3, <1>4 DEF WriteArrives
<1>5. CASE wr.queue[1].kind # "rpc"
  <2>1. wr.queue[1].kind = "answer" /\ wr.queue[1].call \in Calls
    BY <1>3, <1>5 DEF WriteArrives, Written, QueueOK, MaybeCall
  <2>. QED  BY <1>2, <1>3, <2>1, <1>5 DEF WriteArrives
<1>. QED  BY <1>4, <1>5

LEMMA WriteSettlesKeeps ==
  ASSUME SessionInv, WriteSettles
  PROVE  SessionInv'
<1>a. SessionTypeOK
  BY DEF SessionInv
<1>b. QueueInv
  BY DEF SessionInv
<1>c. HandlerInv
  BY DEF SessionInv
<1>d. EndInv
  BY DEF SessionInv
<1>e. HonestInv
  BY DEF SessionInv
<1>t. /\ ses \in SesState /\ calls \in [Calls -> CallStages] /\ inbox \in Seq(InFrame) /\ wr \in WriteState
      /\ native \in NatState /\ fin \in FinState /\ slot \in SlotState /\ ran \in [Calls -> Nat]
  BY <1>a DEF SessionTypeOK
<1>1. ASSUME wr.sending,
             wr.queue[1].kind = "done",
             wr.queue[1].call = None,
             wr' = [wr EXCEPT !.queue = Tail(wr.queue), !.sending = FALSE, !.closed = wr.closed],
             UNCHANGED <<ses, calls, inbox, native, fin, slot, ran>>
     PROVE  SessionInv'
  <2>h. wr.sending /\ wr.queue[1].kind = "done" /\ wr.queue[1].call = None
    BY <1>1
  <2>g. /\ ses' = ses /\ calls' = calls /\ inbox' = inbox /\ wr'.queue = Tail(wr.queue) /\ wr'.sending = FALSE
        /\ wr'.closed = wr.closed /\ native' = native /\ fin' = fin /\ slot' = slot /\ ran' = ran
    BY <1>t, <1>1 DEF WriteState
  <2>p. wr.queue \in Seq(Written) /\ Tail(wr.queue) \in Seq(Written) /\ Popped(wr.queue, wr'.queue)
    <3>1. wr.queue \in Seq(Written) /\ wr.queue # <<>>
      BY <1>t, <2>h, <1>b DEF WriteState, QueueInv
    <3>2. Tail(wr.queue) \in Seq(Written) /\ Popped(wr.queue, Tail(wr.queue))
      BY <3>1, PoppedSeq
    <3>. QED  BY <3>1, <3>2, <2>g
  <2>1. SessionTypeOK'
    <3>wr. wr' \in WriteState
      BY <1>t, <1>1, <2>p DEF WriteState
    <3>. QED  BY <1>t, <2>g, <3>wr, <2>p, <1>a DEF SessionTypeOK
  <2>2. QueueInv'
    <3>q. /\ \A i \in 1..Len(wr.queue) : QueueOK(i)
          /\ \A i, j \in 1..Len(wr.queue) : wr.queue[i].call # None /\ wr.queue[j].call # None => i = j
      BY <1>b DEF QueueInv
    <3>1. ASSUME NEW i \in 1..Len(wr'.queue) PROVE QueueOK(i)'
      <4>1. i + 1 \in 1..Len(wr.queue) /\ wr'.queue[i] = wr.queue[i + 1] /\ i + 1 # 1 /\ 1 \in 1..Len(wr.queue)
        BY <2>p DEF Popped
      <4>2. QueueOK(i + 1) /\ ~(wr.queue[i + 1].call # None /\ wr.queue[1].call # None)
        BY <3>q, <4>1
      <4>. QED  BY <4>1, <4>2, <2>g, <2>h DEF QueueOK
    <3>2. ASSUME NEW i \in 1..Len(wr'.queue), NEW j \in 1..Len(wr'.queue), wr'.queue[i].call # None, wr'.queue[j].call # None
          PROVE  i = j
      <4>1. /\ i + 1 \in 1..Len(wr.queue) /\ wr'.queue[i] = wr.queue[i + 1]
            /\ j + 1 \in 1..Len(wr.queue) /\ wr'.queue[j] = wr.queue[j + 1]
        BY <2>p DEF Popped
      <4>2. i + 1 = j + 1
        BY <4>1, <3>2, <3>q
      <4>. QED  BY <4>2
    <3>3. ~wr'.sending
      BY <2>g, <2>h
    <3>. QED  BY <3>1, <3>2, <3>3 DEF QueueInv
  <2>3. HandlerInv'
    BY <1>t, <2>h, <2>g, <2>p, <1>c DEF HandlerInv
  <2>4. EndInv'
    BY <1>t, <2>h, <2>g, <2>p, <1>b, <1>c, <1>d DEF EndInv, BeforeSession, AllJoined
  <2>5. HonestInv'
    <3> SUFFICES ASSUME native.honest, ses.failure = "none", ~ses.closing
                 PROVE  RpcInv' /\ TurnInv' /\ PipeInv' /\ \A d \in Calls : CallInv(d)'
      BY <2>g, <1>e DEF HonestInv
    <3>0. RpcInv /\ TurnInv /\ PipeInv /\ \A d \in Calls : CallInv(d)
      BY <1>e DEF HonestInv
    <3>p. \A i \in 1..Len(wr'.queue) : wr'.queue[i].kind # "done"
      <4>1. ASSUME NEW i \in 1..Len(wr'.queue) PROVE wr'.queue[i].kind # "done"
        <5>1. i + 1 \in 1..Len(wr.queue) /\ wr'.queue[i] = wr.queue[i + 1] /\ i + 1 # 1
          BY <2>p DEF Popped
        <5>. QED  BY <5>1, <1>b DEF QueueInv, QueueOK
      <4>. QED  BY <4>1
    <3>n. wr'.queue # <<>> => 1 \in 1..Len(wr'.queue)
      <4>1. wr'.queue \in Seq(Written)
        BY <2>p, <2>g
      <4>. QED  BY <4>1, NonEmpty
    <3>w. \A d \in Calls : ~Writing(d)'
      BY <3>p, <3>n DEF Writing
    <3>r. RpcIn(wr'.queue) <=> RpcIn(wr.queue)
      BY <2>p, <2>h, InPopped
    <3>u. \A i, j \in 1..Len(wr'.queue) : wr'.queue[i].kind = "rpc" /\ wr'.queue[j].kind = "rpc" => i = j
      <4> SUFFICES ASSUME NEW i \in 1..Len(wr'.queue), NEW j \in 1..Len(wr'.queue),
                          wr'.queue[i].kind = "rpc", wr'.queue[j].kind = "rpc"
                   PROVE  i = j
        OBVIOUS
      <4>1. /\ i + 1 \in 1..Len(wr.queue) /\ wr'.queue[i] = wr.queue[i + 1]
            /\ j + 1 \in 1..Len(wr.queue) /\ wr'.queue[j] = wr.queue[j + 1]
        BY <2>p DEF Popped
      <4>2. i + 1 = j + 1
        BY <4>1, <3>0 DEF RpcInv
      <4>. QED  BY <4>2
    <3>v. \A d \in Calls : ~Writing(d)
      BY <2>h, SessionAssumption DEF Writing
    <3>1. RpcInv'
      BY <3>0, <3>r, <3>u, <2>g DEF RpcInv
    <3>2. TurnInv'
      BY <3>0, <2>g DEF TurnInv
    <3>3. PipeInv'
      BY <3>0, <2>g DEF PipeInv, FrameOK, OrderOK, Bound
    <3>4. ASSUME NEW d \in Calls PROVE CallInv(d)'
      <4>1. CallInv(d)
        BY <3>0
      <4>. QED  BY <4>1, <3>v, <3>w, <2>g DEF CallInv
    <3>. QED  BY <3>1, <3>2, <3>3, <3>4
  <2>. QED  BY <2>1, <2>2, <2>3, <2>4, <2>5 DEF SessionInv
<1>2. ASSUME wr.sending,
             NEW c \in Calls,
             wr.queue[1].kind = "done",
             wr.queue[1].call = c,
             ses.failure = "none",
             ses' = [ses EXCEPT !.handler = None, !.step = "idle"],
             calls' = [calls EXCEPT ![c] = "written"],
             wr' = [wr EXCEPT !.queue = Tail(wr.queue), !.sending = FALSE, !.closed = wr.closed],
             UNCHANGED <<inbox, native, fin, slot, ran>>
     PROVE  SessionInv'
  <2>h. c \in Calls /\ wr.sending /\ wr.queue[1].kind = "done" /\ wr.queue[1].call = c /\ ses.failure = "none"
    BY <1>2
  <2>g. /\ ses'.at = ses.at /\ ses'.pending = ses.pending /\ ses'.thread = ses.thread /\ ses'.turn = ses.turn
        /\ ses'.early = ses.early /\ ses'.out = ses.out /\ ses'.completed = ses.completed /\ ses'.failure = ses.failure
        /\ ses'.closing = ses.closing /\ ses'.handler = None /\ ses'.step = "idle"
        /\ (\A d \in Calls : calls'[d] = IF d = c THEN "written" ELSE calls[d]) /\ inbox' = inbox
        /\ wr'.queue = Tail(wr.queue) /\ wr'.sending = FALSE /\ wr'.closed = wr.closed /\ native' = native /\ fin' = fin
        /\ slot' = slot /\ ran' = ran
    BY <1>t, <1>2 DEF SesState, WriteState
  <2>p. wr.queue \in Seq(Written) /\ Tail(wr.queue) \in Seq(Written) /\ Popped(wr.queue, wr'.queue)
    <3>1. wr.queue \in Seq(Written) /\ wr.queue # <<>>
      BY <1>t, <2>h, <1>b DEF WriteState, QueueInv
    <3>2. Tail(wr.queue) \in Seq(Written) /\ Popped(wr.queue, Tail(wr.queue))
      BY <3>1, PoppedSeq
    <3>. QED  BY <3>1, <3>2, <2>g
  <2>c. ses.step = "writing" /\ calls[c] = "claimed" /\ fin.running = None /\ ~ses.completed
    <3>1. QueueOK(1) /\ c # None
      BY <2>p, <2>h, <1>b, SessionAssumption DEF Popped, QueueInv
    <3>2. ses.step = "writing" /\ calls[c] = "claimed"
      BY <3>1, <2>h, <1>c DEF QueueOK, HandlerInv
    <3>. QED  BY <3>2, <2>h, <1>c, <1>d DEF HandlerInv, EndInv
  <2>1. SessionTypeOK'
    <3>ses. ses' \in SesState
      BY <1>t, <1>2 DEF SesState, MaybeCall
    <3>calls. calls' \in [Calls -> CallStages]
      BY <1>t, <1>2 DEF CallStages
    <3>wr. wr' \in WriteState
      BY <1>t, <1>2, <2>p DEF WriteState
    <3>. QED  BY <1>t, <2>g, <3>ses, <3>calls, <3>wr, <2>p, <2>c, <1>a DEF SessionTypeOK
  <2>2. QueueInv'
    <3>1. ASSUME NEW i \in 1..Len(wr'.queue) PROVE QueueOK(i)' /\ wr'.queue[i].call = None
      <4>1. i + 1 \in 1..Len(wr.queue) /\ wr'.queue[i] = wr.queue[i + 1] /\ i + 1 # 1 /\ 1 \in 1..Len(wr.queue)
        BY <2>p DEF Popped
      <4>2. QueueOK(i + 1) /\ wr.queue[i + 1].call = None
        BY <4>1, <2>h, <1>b, SessionAssumption DEF QueueInv
      <4>. QED  BY <4>1, <4>2, <2>g, <2>h DEF QueueOK
    <3>. QED  BY <3>1, <2>g DEF QueueInv
  <2>3. HandlerInv'
    BY <1>t, <2>h, <2>g, <2>p, <2>c, <1>c DEF HandlerInv
  <2>4. EndInv'
    BY <1>t, <2>h, <2>g, <2>p, <2>c, <1>b, <1>c, <1>d DEF EndInv, BeforeSession, AllJoined
  <2>5. HonestInv'
    <3> SUFFICES ASSUME native.honest, ses.failure = "none", ~ses.closing
                 PROVE  RpcInv' /\ TurnInv' /\ PipeInv' /\ \A d \in Calls : CallInv(d)'
      BY <2>g, <1>e DEF HonestInv
    <3>0. RpcInv /\ TurnInv /\ PipeInv /\ \A d \in Calls : CallInv(d)
      BY <1>e DEF HonestInv
    <3>p. \A i \in 1..Len(wr'.queue) : wr'.queue[i].kind # "done"
      <4>1. ASSUME NEW i \in 1..Len(wr'.queue) PROVE wr'.queue[i].kind # "done"
        <5>1. i + 1 \in 1..Len(wr.queue) /\ wr'.queue[i] = wr.queue[i + 1] /\ i + 1 # 1
          BY <2>p DEF Popped
        <5>. QED  BY <5>1, <1>b DEF QueueInv, QueueOK
      <4>. QED  BY <4>1
    <3>n. wr'.queue # <<>> => 1 \in 1..Len(wr'.queue)
      <4>1. wr'.queue \in Seq(Written)
        BY <2>p, <2>g
      <4>. QED  BY <4>1, NonEmpty
    <3>w. \A d \in Calls : ~Writing(d)'
      BY <3>p, <3>n DEF Writing
    <3>r. RpcIn(wr'.queue) <=> RpcIn(wr.queue)
      BY <2>p, <2>h, InPopped
    <3>u. \A i, j \in 1..Len(wr'.queue) : wr'.queue[i].kind = "rpc" /\ wr'.queue[j].kind = "rpc" => i = j
      <4> SUFFICES ASSUME NEW i \in 1..Len(wr'.queue), NEW j \in 1..Len(wr'.queue),
                          wr'.queue[i].kind = "rpc", wr'.queue[j].kind = "rpc"
                   PROVE  i = j
        OBVIOUS
      <4>1. /\ i + 1 \in 1..Len(wr.queue) /\ wr'.queue[i] = wr.queue[i + 1]
            /\ j + 1 \in 1..Len(wr.queue) /\ wr'.queue[j] = wr.queue[j + 1]
        BY <2>p DEF Popped
      <4>2. i + 1 = j + 1
        BY <4>1, <3>0 DEF RpcInv
      <4>. QED  BY <4>2
    <3>v. Writing(c) /\ calls[c] = "claimed" /\ (\A d \in Calls : Writing(d) => d = c)
      <4>1. 1 \in 1..Len(wr.queue) /\ wr.queue # <<>> /\ c # None
        BY <2>p, <2>h, <1>b, SessionAssumption DEF Popped, QueueInv
      <4>2. QueueOK(1)
        BY <4>1, <1>b DEF QueueInv
      <4>. QED  BY <4>1, <4>2, <2>h, <1>c DEF QueueOK, HandlerInv, Writing
    <3>1. RpcInv'
      BY <3>0, <3>r, <3>u, <2>g DEF RpcInv
    <3>2. TurnInv'
      BY <3>0, <2>g DEF TurnInv
    <3>3. PipeInv'
      BY <3>0, <2>g DEF PipeInv, FrameOK, OrderOK, Bound
    <3>4. ASSUME NEW d \in Calls PROVE CallInv(d)'
      <4>1. CallInv(d) /\ native.tools[d] \in ToolStages
        BY <3>0, <1>t DEF NatState
      <4>2. CASE d = c
        BY <4>1, <4>2, <3>v, <3>w, <2>g DEF CallInv, ToolStages
      <4>3. CASE d # c
        <5>1. calls'[d] = calls[d] /\ ~Writing(d) /\ ~Writing(d)'
          BY <4>3, <3>v, <3>w, <2>g
        <5>. QED  BY <5>1, <4>1, <2>g DEF CallInv
      <4>. QED  BY <4>2, <4>3
    <3>. QED  BY <3>1, <3>2, <3>3, <3>4
  <2>. QED  BY <2>1, <2>2, <2>3, <2>4, <2>5 DEF SessionInv
<1>3. ASSUME wr.sending,
             NEW c \in Calls,
             wr.queue[1].kind = "done",
             wr.queue[1].call = c,
             ses.failure # "none",
             ses' = [ses EXCEPT !.handler = None, !.step = "idle"],
             wr' = [wr EXCEPT !.queue = Tail(wr.queue), !.sending = FALSE, !.closed = wr.closed],
             UNCHANGED <<calls, inbox, native, fin, slot, ran>>
     PROVE  SessionInv'
  <2>h. c \in Calls /\ wr.sending /\ wr.queue[1].kind = "done" /\ wr.queue[1].call = c /\ ses.failure # "none"
    BY <1>3
  <2>g. /\ ses'.at = ses.at /\ ses'.pending = ses.pending /\ ses'.thread = ses.thread /\ ses'.turn = ses.turn
        /\ ses'.early = ses.early /\ ses'.out = ses.out /\ ses'.completed = ses.completed /\ ses'.failure = ses.failure
        /\ ses'.closing = ses.closing /\ ses'.handler = None /\ ses'.step = "idle" /\ calls' = calls /\ inbox' = inbox
        /\ wr'.queue = Tail(wr.queue) /\ wr'.sending = FALSE /\ wr'.closed = wr.closed /\ native' = native /\ fin' = fin
        /\ slot' = slot /\ ran' = ran
    BY <1>t, <1>3 DEF SesState, WriteState
  <2>p. wr.queue \in Seq(Written) /\ Tail(wr.queue) \in Seq(Written) /\ Popped(wr.queue, wr'.queue)
    <3>1. wr.queue \in Seq(Written) /\ wr.queue # <<>>
      BY <1>t, <2>h, <1>b DEF WriteState, QueueInv
    <3>2. Tail(wr.queue) \in Seq(Written) /\ Popped(wr.queue, Tail(wr.queue))
      BY <3>1, PoppedSeq
    <3>. QED  BY <3>1, <3>2, <2>g
  <2>c. ses.step = "writing" /\ calls[c] = "claimed" /\ fin.running = None /\ ~ses.completed
    <3>1. QueueOK(1) /\ c # None
      BY <2>p, <2>h, <1>b, SessionAssumption DEF Popped, QueueInv
    <3>2. ses.step = "writing" /\ calls[c] = "claimed"
      BY <3>1, <2>h, <1>c DEF QueueOK, HandlerInv
    <3>. QED  BY <3>2, <2>h, <1>c, <1>d DEF HandlerInv, EndInv
  <2>1. SessionTypeOK'
    <3>ses. ses' \in SesState
      BY <1>t, <1>3 DEF SesState, MaybeCall
    <3>wr. wr' \in WriteState
      BY <1>t, <1>3, <2>p DEF WriteState
    <3>. QED  BY <1>t, <2>g, <3>ses, <3>wr, <2>p, <2>c, <1>a DEF SessionTypeOK
  <2>2. QueueInv'
    <3>1. ASSUME NEW i \in 1..Len(wr'.queue) PROVE QueueOK(i)' /\ wr'.queue[i].call = None
      <4>1. i + 1 \in 1..Len(wr.queue) /\ wr'.queue[i] = wr.queue[i + 1] /\ i + 1 # 1 /\ 1 \in 1..Len(wr.queue)
        BY <2>p DEF Popped
      <4>2. QueueOK(i + 1) /\ wr.queue[i + 1].call = None
        BY <4>1, <2>h, <1>b, SessionAssumption DEF QueueInv
      <4>. QED  BY <4>1, <4>2, <2>g, <2>h DEF QueueOK
    <3>. QED  BY <3>1, <2>g DEF QueueInv
  <2>3. HandlerInv'
    BY <1>t, <2>h, <2>g, <2>p, <2>c, <1>c DEF HandlerInv
  <2>4. EndInv'
    BY <1>t, <2>h, <2>g, <2>p, <2>c, <1>b, <1>c, <1>d DEF EndInv, BeforeSession, AllJoined
  <2>5. HonestInv'
    BY <2>g, <2>h, <1>e DEF HonestInv
  <2>. QED  BY <2>1, <2>2, <2>3, <2>4, <2>5 DEF SessionInv
<1>4. ASSUME wr.sending,
             wr.queue[1].kind # "done",
             ses' = [ses EXCEPT !.failure = IF ses.failure = "none" THEN "write" ELSE ses.failure],
             wr' = [wr EXCEPT !.queue = Tail(wr.queue), !.sending = FALSE, !.closed = TRUE],
             UNCHANGED <<calls, inbox, native, fin, slot, ran>>
     PROVE  SessionInv'
  <2>h. wr.sending /\ wr.queue[1].kind # "done"
    BY <1>4
  <2>g. /\ ses'.at = ses.at /\ ses'.pending = ses.pending /\ ses'.thread = ses.thread /\ ses'.turn = ses.turn
        /\ ses'.early = ses.early /\ ses'.out = ses.out /\ ses'.completed = ses.completed
        /\ (ses'.failure = IF ses.failure = "none" THEN "write" ELSE ses.failure) /\ ses'.closing = ses.closing
        /\ ses'.handler = ses.handler /\ ses'.step = ses.step /\ calls' = calls /\ inbox' = inbox
        /\ wr'.queue = Tail(wr.queue) /\ wr'.sending = FALSE /\ wr'.closed = TRUE /\ native' = native /\ fin' = fin
        /\ slot' = slot /\ ran' = ran
    BY <1>t, <1>4 DEF SesState, WriteState
  <2>p. wr.queue \in Seq(Written) /\ Tail(wr.queue) \in Seq(Written) /\ Popped(wr.queue, wr'.queue)
    <3>1. wr.queue \in Seq(Written) /\ wr.queue # <<>>
      BY <1>t, <2>h, <1>b DEF WriteState, QueueInv
    <3>2. Tail(wr.queue) \in Seq(Written) /\ Popped(wr.queue, Tail(wr.queue))
      BY <3>1, PoppedSeq
    <3>. QED  BY <3>1, <3>2, <2>g
  <2>1. SessionTypeOK'
    <3>ses. ses' \in SesState
      BY <1>t, <1>4 DEF SesState
    <3>wr. wr' \in WriteState
      BY <1>t, <1>4, <2>p DEF WriteState
    <3>. QED  BY <1>t, <2>g, <3>ses, <3>wr, <2>p, <1>a DEF SessionTypeOK
  <2>2. QueueInv'
    <3>q. /\ \A i \in 1..Len(wr.queue) : QueueOK(i)
          /\ \A i, j \in 1..Len(wr.queue) : wr.queue[i].call # None /\ wr.queue[j].call # None => i = j
      BY <1>b DEF QueueInv
    <3>1. ASSUME NEW i \in 1..Len(wr'.queue) PROVE QueueOK(i)'
      <4>1. i + 1 \in 1..Len(wr.queue) /\ wr'.queue[i] = wr.queue[i + 1] /\ i + 1 # 1 /\ 1 \in 1..Len(wr.queue)
        BY <2>p DEF Popped
      <4>2. QueueOK(i + 1) /\ ~(wr.queue[i + 1].call # None /\ wr.queue[1].call # None)
        BY <3>q, <4>1
      <4>. QED  BY <4>1, <4>2, <2>g, <2>h DEF QueueOK
    <3>2. ASSUME NEW i \in 1..Len(wr'.queue), NEW j \in 1..Len(wr'.queue), wr'.queue[i].call # None, wr'.queue[j].call # None
          PROVE  i = j
      <4>1. /\ i + 1 \in 1..Len(wr.queue) /\ wr'.queue[i] = wr.queue[i + 1]
            /\ j + 1 \in 1..Len(wr.queue) /\ wr'.queue[j] = wr.queue[j + 1]
        BY <2>p DEF Popped
      <4>2. i + 1 = j + 1
        BY <4>1, <3>2, <3>q
      <4>. QED  BY <4>2
    <3>3. ~wr'.sending
      BY <2>g, <2>h
    <3>. QED  BY <3>1, <3>2, <3>3 DEF QueueInv
  <2>3. HandlerInv'
    BY <1>t, <2>h, <2>g, <2>p, <1>c DEF HandlerInv
  <2>4. EndInv'
    BY <1>t, <2>h, <2>g, <2>p, <1>b, <1>c, <1>d DEF EndInv, BeforeSession, AllJoined
  <2>5. HonestInv'
    BY <2>g, <2>h, <1>e DEF HonestInv
  <2>. QED  BY <2>1, <2>2, <2>3, <2>4, <2>5 DEF SessionInv
<1>5. wr.sending => Head(wr.queue) = wr.queue[1] /\ wr.queue[1] \in Written
  <2>1. wr.sending => wr.queue # <<>> /\ wr.queue \in Seq(Written)
    BY <1>b, <1>t DEF QueueInv, WriteState
  <2>2. wr.sending => Popped(wr.queue, Tail(wr.queue)) /\ wr.queue[1] \in Written
    BY <2>1, PoppedSeq
  <2>. QED  BY <2>1, <2>2 DEF Popped
<1>9. wr.queue[1].kind = "done" => (wr.closed \/ wr.queue[1].kind # "done") = wr.closed
  BY <1>t DEF WriteState
<1>6. CASE wr.queue[1].kind # "done"
  BY <1>4, <1>5, <1>6 DEF WriteSettles, Failed
<1>7. CASE wr.queue[1].kind = "done" /\ wr.queue[1].call = None
  BY <1>1, <1>5, <1>7, <1>9 DEF WriteSettles
<1>8. CASE wr.queue[1].kind = "done" /\ wr.queue[1].call # None
  <2>1. wr.sending /\ wr.queue[1].call \in Calls
    BY <1>5, <1>8 DEF WriteSettles, Written, MaybeCall
  <2>2. CASE ses.failure = "none"
    BY <1>2, <1>5, <1>8, <1>9, <2>1, <2>2 DEF WriteSettles, Active
  <2>3. CASE ses.failure # "none"
    <3>1. /\ ses' = [ses EXCEPT !.handler = None, !.step = "idle"] /\ UNCHANGED <<calls, inbox, native, fin, slot, ran>>
          /\ wr' = [wr EXCEPT !.queue = Tail(wr.queue), !.sending = FALSE, !.closed = wr.closed]
      BY <1>5, <1>8, <1>9, <2>1, <2>3 DEF WriteSettles, Active
    <3>. QED  BY <1>3, <1>8, <2>1, <2>3, <3>1
  <2>. QED  BY <2>2, <2>3
<1>. QED  BY <1>6, <1>7, <1>8

LEMMA LaunchKeeps ==
  ASSUME SessionInv, Launch
  PROVE  SessionInv'
<1>a. SessionTypeOK
  BY DEF SessionInv
<1>b. QueueInv
  BY DEF SessionInv
<1>c. HandlerInv
  BY DEF SessionInv
<1>d. EndInv
  BY DEF SessionInv
<1>e. HonestInv
  BY DEF SessionInv
<1>t. /\ ses \in SesState /\ calls \in [Calls -> CallStages] /\ inbox \in Seq(InFrame) /\ wr \in WriteState
      /\ native \in NatState /\ fin \in FinState /\ slot \in SlotState /\ ran \in [Calls -> Nat]
  BY <1>a DEF SessionTypeOK
<1>1. ASSUME slot.run = "session",
             ~native.up,
             ses.at = 0,
             ses.failure = "none",
             ~ses.closing,
             ses' = [ses EXCEPT !.at = 1, !.pending = TRUE],
             wr' = [wr EXCEPT !.queue = Append(wr.queue, Frame("rpc", None))],
             native' = [native EXCEPT !.up = TRUE],
             UNCHANGED <<calls, inbox, fin, slot, ran>>
     PROVE  SessionInv'
  <2>h. slot.run = "session" /\ ~native.up /\ ses.at = 0 /\ ses.failure = "none" /\ ~ses.closing
    BY <1>1
  <2>g. /\ ses'.at = 1 /\ ses'.pending = TRUE /\ ses'.thread = ses.thread /\ ses'.turn = ses.turn
        /\ ses'.early = ses.early /\ ses'.out = ses.out /\ ses'.completed = ses.completed /\ ses'.failure = ses.failure
        /\ ses'.closing = ses.closing /\ ses'.handler = ses.handler /\ ses'.step = ses.step /\ calls' = calls
        /\ inbox' = inbox /\ wr'.queue = Append(wr.queue, Frame("rpc", None)) /\ wr'.sending = wr.sending
        /\ wr'.closed = wr.closed /\ native'.up = TRUE /\ native'.honest = native.honest /\ native'.asked = native.asked
        /\ native'.answered = native.answered /\ native'.begun = native.begun /\ native'.final = native.final
        /\ native'.ended = native.ended /\ native'.tools = native.tools /\ native'.wild = native.wild /\ fin' = fin
        /\ slot' = slot /\ ran' = ran
    BY <1>t, <1>1 DEF SesState, WriteState, NatState
  <2>p. /\ wr.queue \in Seq(Written) /\ Append(wr.queue, Frame("rpc", None)) \in Seq(Written)
        /\ Pushed(wr.queue, wr'.queue, Frame("rpc", None)) /\ Frame("rpc", None).kind = "rpc" /\ Frame("rpc", None).call = None
    <3>1. Frame("rpc", None) \in Written /\ Frame("rpc", None).kind = "rpc" /\ Frame("rpc", None).call = None
      BY <2>h, <1>t, <1>c DEF Frame, Written, MaybeCall, HandlerInv, SesState
    <3>2. wr.queue \in Seq(Written)
      BY <1>t DEF WriteState
    <3>3. Append(wr.queue, Frame("rpc", None)) \in Seq(Written) /\ Pushed(wr.queue, Append(wr.queue, Frame("rpc", None)), Frame("rpc", None))
      BY <3>1, <3>2, PushedSeq
    <3>. QED  BY <3>1, <3>2, <3>3, <2>g
  <2>1. SessionTypeOK'
    <3>ses. ses' \in SesState
      <4>1. 1 \in 0..5
        OBVIOUS
      <4>. QED  BY <1>t, <1>1, <4>1 DEF SesState
    <3>wr. wr' \in WriteState
      BY <1>t, <1>1, <2>p DEF WriteState
    <3>native. native' \in NatState
      BY <1>t, <1>1 DEF NatState
    <3>. QED  BY <1>t, <2>g, <3>ses, <3>wr, <3>native, <2>p, <1>a DEF SessionTypeOK
  <2>2. QueueInv'
    <3>q. /\ \A i \in 1..Len(wr.queue) : QueueOK(i)
          /\ \A i, j \in 1..Len(wr.queue) : wr.queue[i].call # None /\ wr.queue[j].call # None => i = j
      BY <1>b DEF QueueInv
    <3>1. ASSUME NEW i \in 1..Len(wr'.queue) PROVE QueueOK(i)'
      <4>1. CASE i \in 1..Len(wr.queue)
        <5>1. wr'.queue[i] = wr.queue[i]
          BY <4>1, <2>p DEF Pushed
        <5>. QED  BY <5>1, <4>1, <3>q, <2>g DEF QueueOK
      <4>2. CASE i = Len(wr'.queue)
        <5>1. wr'.queue[i].kind = "rpc" /\ wr'.queue[i].call = None
          BY <4>2, <2>p DEF Pushed
        <5>. QED  BY <5>1 DEF QueueOK
      <4>. QED  BY <4>1, <4>2, <2>p DEF Pushed
    <3>2. ASSUME NEW i \in 1..Len(wr'.queue), NEW j \in 1..Len(wr'.queue), wr'.queue[i].call # None, wr'.queue[j].call # None
          PROVE  i = j
      <4>1. \A k \in 1..Len(wr'.queue) : wr'.queue[k].call # None => k \in 1..Len(wr.queue) /\ wr'.queue[k] = wr.queue[k]
        BY <2>p DEF Pushed
      <4>2. i \in 1..Len(wr.queue) /\ wr'.queue[i] = wr.queue[i] /\ j \in 1..Len(wr.queue) /\ wr'.queue[j] = wr.queue[j]
        BY <4>1, <3>2
      <4>. QED  BY <4>2, <3>2, <3>q
    <3>3. wr'.queue # <<>>
      BY <2>p DEF Pushed
    <3>. QED  BY <3>1, <3>2, <3>3 DEF QueueInv
  <2>3. HandlerInv'
    BY <1>t, <2>h, <2>g, <2>p, <1>c DEF HandlerInv
  <2>4. EndInv'
    BY <1>t, <2>h, <2>g, <2>p, <1>b, <1>c, <1>d DEF EndInv, BeforeSession, AllJoined
  <2>5. HonestInv'
    <3> SUFFICES ASSUME native.honest, ses.failure = "none", ~ses.closing
                 PROVE  RpcInv' /\ TurnInv' /\ PipeInv' /\ \A d \in Calls : CallInv(d)'
      BY <2>g, <1>e DEF HonestInv
    <3>0. RpcInv /\ TurnInv /\ PipeInv /\ \A d \in Calls : CallInv(d)
      BY <1>e DEF HonestInv
    <3>a. ~ses.pending /\ ~RpcIn(wr.queue) /\ ~In(inbox, "reply", None) /\ native.asked = ses.at /\ native.answered = ses.at
      BY <3>0, <1>t, <2>h DEF RpcInv, SesState
    <3>r. RpcIn(wr'.queue)
      BY <2>p, InPushed
    <3>u. \A i, j \in 1..Len(wr'.queue) : wr'.queue[i].kind = "rpc" /\ wr'.queue[j].kind = "rpc" => i = j
      <4>1. \A i \in 1..Len(wr'.queue) : wr'.queue[i].kind = "rpc" => i = Len(wr'.queue)
        BY <2>p, <3>a DEF Pushed, RpcIn
      <4>. QED  BY <4>1
    <3>n. wr.queue # <<>> => 1 \in 1..Len(wr.queue)
      BY <2>p, NonEmpty
    <3>w. \A d \in Calls : Writing(d)' <=> Writing(d)
      <4>1. CASE wr.queue = <<>>
        <5>1. Len(wr.queue) = 0
          BY <4>1, EmptyPipe
        <5>2. Len(wr'.queue) = 1 /\ wr'.queue[1].kind = "rpc"
          BY <5>1, <2>p DEF Pushed
        <5>. QED  BY <5>2, <4>1, <2>g DEF Writing
      <4>2. CASE wr.queue # <<>>
        <5>1. wr'.queue[1] = wr.queue[1] /\ wr'.queue # <<>>
          BY <4>2, <3>n, <2>p DEF Pushed
        <5>. QED  BY <5>1, <4>2, <2>g DEF Writing
      <4>. QED  BY <4>1, <4>2
    <3>1. RpcInv'
      <4>1. ses'.at = ses.at + 1 /\ ses.at \in 0..4 /\ ses'.pending /\ ses'.at \in 1..5 /\ ses'.at - 1 = ses.at
        BY <1>t, <2>g, <2>h DEF SesState
      <4>2. (ses'.thread <=> ses'.at = 5) /\ ~ses'.turn
        BY <3>0, <4>1, <3>a, <2>g DEF RpcInv
      <4>3. native'.asked = ses.at /\ native'.answered = ses.at /\ ~In(inbox', "reply", None)
        BY <3>a, <2>g
      <4>4. native'.answered <= native'.asked /\ native'.asked <= ses'.at /\ ses'.at > 0
        BY <4>1, <4>3
      <4>. QED  BY <4>1, <4>2, <4>3, <4>4, <3>r, <3>u DEF RpcInv
    <3>2. TurnInv'
      BY <3>0, <2>g DEF TurnInv
    <3>3. PipeInv'
      BY <3>0, <2>g DEF PipeInv, FrameOK, OrderOK, Bound
    <3>4. ASSUME NEW d \in Calls PROVE CallInv(d)'
      <4>1. CallInv(d)
        BY <3>0
      <4>. QED  BY <4>1, <3>w, <2>g DEF CallInv
    <3>. QED  BY <3>1, <3>2, <3>3, <3>4
  <2>. QED  BY <2>1, <2>2, <2>3, <2>4, <2>5 DEF SessionInv
<1>. QED
  BY <1>1 DEF Launch, Active, Queued

LEMMA NextRpcKeeps ==
  ASSUME SessionInv, NextRpc
  PROVE  SessionInv'
<1>a. SessionTypeOK
  BY DEF SessionInv
<1>b. QueueInv
  BY DEF SessionInv
<1>c. HandlerInv
  BY DEF SessionInv
<1>d. EndInv
  BY DEF SessionInv
<1>e. HonestInv
  BY DEF SessionInv
<1>t. /\ ses \in SesState /\ calls \in [Calls -> CallStages] /\ inbox \in Seq(InFrame) /\ wr \in WriteState
      /\ native \in NatState /\ fin \in FinState /\ slot \in SlotState /\ ran \in [Calls -> Nat]
  BY <1>a DEF SessionTypeOK
<1>1. ASSUME ses.at \in 1..4,
             ~ses.pending,
             ses.failure = "none",
             ~ses.closing,
             ses' = [ses EXCEPT !.at = ses.at + 1, !.pending = TRUE],
             wr' = [wr EXCEPT !.queue = Append(wr.queue, Frame("rpc", None))],
             UNCHANGED <<calls, inbox, native, fin, slot, ran>>
     PROVE  SessionInv'
  <2>h. ses.at \in 1..4 /\ ~ses.pending /\ ses.failure = "none" /\ ~ses.closing
    BY <1>1
  <2>g. /\ ses'.at = ses.at + 1 /\ ses'.pending = TRUE /\ ses'.thread = ses.thread /\ ses'.turn = ses.turn
        /\ ses'.early = ses.early /\ ses'.out = ses.out /\ ses'.completed = ses.completed /\ ses'.failure = ses.failure
        /\ ses'.closing = ses.closing /\ ses'.handler = ses.handler /\ ses'.step = ses.step /\ calls' = calls
        /\ inbox' = inbox /\ wr'.queue = Append(wr.queue, Frame("rpc", None)) /\ wr'.sending = wr.sending
        /\ wr'.closed = wr.closed /\ native' = native /\ fin' = fin /\ slot' = slot /\ ran' = ran
    BY <1>t, <1>1 DEF SesState, WriteState
  <2>p. /\ wr.queue \in Seq(Written) /\ Append(wr.queue, Frame("rpc", None)) \in Seq(Written)
        /\ Pushed(wr.queue, wr'.queue, Frame("rpc", None)) /\ Frame("rpc", None).kind = "rpc" /\ Frame("rpc", None).call = None
    <3>1. Frame("rpc", None) \in Written /\ Frame("rpc", None).kind = "rpc" /\ Frame("rpc", None).call = None
      BY <2>h, <1>t, <1>c DEF Frame, Written, MaybeCall, HandlerInv, SesState
    <3>2. wr.queue \in Seq(Written)
      BY <1>t DEF WriteState
    <3>3. Append(wr.queue, Frame("rpc", None)) \in Seq(Written) /\ Pushed(wr.queue, Append(wr.queue, Frame("rpc", None)), Frame("rpc", None))
      BY <3>1, <3>2, PushedSeq
    <3>. QED  BY <3>1, <3>2, <3>3, <2>g
  <2>1. SessionTypeOK'
    <3>ses. ses' \in SesState
      <4>1. ses.at + 1 \in 0..5
        BY <1>t, <2>h DEF SesState
      <4>. QED  BY <1>t, <1>1, <4>1 DEF SesState
    <3>wr. wr' \in WriteState
      BY <1>t, <1>1, <2>p DEF WriteState
    <3>. QED  BY <1>t, <2>g, <3>ses, <3>wr, <2>p, <1>a DEF SessionTypeOK
  <2>2. QueueInv'
    <3>q. /\ \A i \in 1..Len(wr.queue) : QueueOK(i)
          /\ \A i, j \in 1..Len(wr.queue) : wr.queue[i].call # None /\ wr.queue[j].call # None => i = j
      BY <1>b DEF QueueInv
    <3>1. ASSUME NEW i \in 1..Len(wr'.queue) PROVE QueueOK(i)'
      <4>1. CASE i \in 1..Len(wr.queue)
        <5>1. wr'.queue[i] = wr.queue[i]
          BY <4>1, <2>p DEF Pushed
        <5>. QED  BY <5>1, <4>1, <3>q, <2>g DEF QueueOK
      <4>2. CASE i = Len(wr'.queue)
        <5>1. wr'.queue[i].kind = "rpc" /\ wr'.queue[i].call = None
          BY <4>2, <2>p DEF Pushed
        <5>. QED  BY <5>1 DEF QueueOK
      <4>. QED  BY <4>1, <4>2, <2>p DEF Pushed
    <3>2. ASSUME NEW i \in 1..Len(wr'.queue), NEW j \in 1..Len(wr'.queue), wr'.queue[i].call # None, wr'.queue[j].call # None
          PROVE  i = j
      <4>1. \A k \in 1..Len(wr'.queue) : wr'.queue[k].call # None => k \in 1..Len(wr.queue) /\ wr'.queue[k] = wr.queue[k]
        BY <2>p DEF Pushed
      <4>2. i \in 1..Len(wr.queue) /\ wr'.queue[i] = wr.queue[i] /\ j \in 1..Len(wr.queue) /\ wr'.queue[j] = wr.queue[j]
        BY <4>1, <3>2
      <4>. QED  BY <4>2, <3>2, <3>q
    <3>3. wr'.queue # <<>>
      BY <2>p DEF Pushed
    <3>. QED  BY <3>1, <3>2, <3>3 DEF QueueInv
  <2>3. HandlerInv'
    BY <1>t, <2>h, <2>g, <2>p, <1>c DEF HandlerInv
  <2>4. EndInv'
    BY <1>t, <2>h, <2>g, <2>p, <1>b, <1>c, <1>d DEF EndInv, BeforeSession, AllJoined
  <2>5. HonestInv'
    <3> SUFFICES ASSUME native.honest, ses.failure = "none", ~ses.closing
                 PROVE  RpcInv' /\ TurnInv' /\ PipeInv' /\ \A d \in Calls : CallInv(d)'
      BY <2>g, <1>e DEF HonestInv
    <3>0. RpcInv /\ TurnInv /\ PipeInv /\ \A d \in Calls : CallInv(d)
      BY <1>e DEF HonestInv
    <3>a. ~ses.pending /\ ~RpcIn(wr.queue) /\ ~In(inbox, "reply", None) /\ native.asked = ses.at /\ native.answered = ses.at
      BY <3>0, <1>t, <2>h DEF RpcInv, SesState
    <3>r. RpcIn(wr'.queue)
      BY <2>p, InPushed
    <3>u. \A i, j \in 1..Len(wr'.queue) : wr'.queue[i].kind = "rpc" /\ wr'.queue[j].kind = "rpc" => i = j
      <4>1. \A i \in 1..Len(wr'.queue) : wr'.queue[i].kind = "rpc" => i = Len(wr'.queue)
        BY <2>p, <3>a DEF Pushed, RpcIn
      <4>. QED  BY <4>1
    <3>n. wr.queue # <<>> => 1 \in 1..Len(wr.queue)
      BY <2>p, NonEmpty
    <3>w. \A d \in Calls : Writing(d)' <=> Writing(d)
      <4>1. CASE wr.queue = <<>>
        <5>1. Len(wr.queue) = 0
          BY <4>1, EmptyPipe
        <5>2. Len(wr'.queue) = 1 /\ wr'.queue[1].kind = "rpc"
          BY <5>1, <2>p DEF Pushed
        <5>. QED  BY <5>2, <4>1, <2>g DEF Writing
      <4>2. CASE wr.queue # <<>>
        <5>1. wr'.queue[1] = wr.queue[1] /\ wr'.queue # <<>>
          BY <4>2, <3>n, <2>p DEF Pushed
        <5>. QED  BY <5>1, <4>2, <2>g DEF Writing
      <4>. QED  BY <4>1, <4>2
    <3>1. RpcInv'
      <4>1. ses'.at = ses.at + 1 /\ ses.at \in 0..4 /\ ses'.pending /\ ses'.at \in 1..5 /\ ses'.at - 1 = ses.at
        BY <1>t, <2>g, <2>h DEF SesState
      <4>2. (ses'.thread <=> ses'.at = 5) /\ ~ses'.turn
        BY <3>0, <4>1, <3>a, <2>g DEF RpcInv
      <4>3. native'.asked = ses.at /\ native'.answered = ses.at /\ ~In(inbox', "reply", None)
        BY <3>a, <2>g
      <4>4. native'.answered <= native'.asked /\ native'.asked <= ses'.at /\ ses'.at > 0
        BY <4>1, <4>3
      <4>. QED  BY <4>1, <4>2, <4>3, <4>4, <3>r, <3>u DEF RpcInv
    <3>2. TurnInv'
      BY <3>0, <2>g DEF TurnInv
    <3>3. PipeInv'
      BY <3>0, <2>g DEF PipeInv, FrameOK, OrderOK, Bound
    <3>4. ASSUME NEW d \in Calls PROVE CallInv(d)'
      <4>1. CallInv(d)
        BY <3>0
      <4>. QED  BY <4>1, <3>w, <2>g DEF CallInv
    <3>. QED  BY <3>1, <3>2, <3>3, <3>4
  <2>. QED  BY <2>1, <2>2, <2>3, <2>4, <2>5 DEF SessionInv
<1>. QED
  BY <1>1 DEF NextRpc, Active, Queued

LEMMA InvokeKeeps ==
  ASSUME SessionInv, Invoke
  PROVE  SessionInv'
<1>a. SessionTypeOK
  BY DEF SessionInv
<1>b. QueueInv
  BY DEF SessionInv
<1>c. HandlerInv
  BY DEF SessionInv
<1>d. EndInv
  BY DEF SessionInv
<1>e. HonestInv
  BY DEF SessionInv
<1>t. /\ ses \in SesState /\ calls \in [Calls -> CallStages] /\ inbox \in Seq(InFrame) /\ wr \in WriteState
      /\ native \in NatState /\ fin \in FinState /\ slot \in SlotState /\ ran \in [Calls -> Nat]
  BY <1>a DEF SessionTypeOK
<1>1. ASSUME NEW c \in Calls,
             c = ses.handler,
             ses.step = "claimed",
             ~ses.closing,
             ses' = [ses EXCEPT !.step = "invoking"],
             fin' = [fin EXCEPT !.running = c],
             ran' = [ran EXCEPT ![c] = ran[c] + 1],
             UNCHANGED <<calls, inbox, wr, native, slot>>
     PROVE  SessionInv'
  <2>h. c \in Calls /\ c = ses.handler /\ ses.step = "claimed" /\ ~ses.closing
    BY <1>1
  <2>g. /\ ses'.at = ses.at /\ ses'.pending = ses.pending /\ ses'.thread = ses.thread /\ ses'.turn = ses.turn
        /\ ses'.early = ses.early /\ ses'.out = ses.out /\ ses'.completed = ses.completed /\ ses'.failure = ses.failure
        /\ ses'.closing = ses.closing /\ ses'.handler = ses.handler /\ ses'.step = "invoking" /\ calls' = calls
        /\ inbox' = inbox /\ wr' = wr /\ native' = native /\ fin'.process = fin.process /\ fin'.handlers = fin.handlers
        /\ fin'.broker = fin.broker /\ fin'.running = c /\ slot' = slot
        /\ (\A d \in Calls : ran'[d] = IF d = c THEN ran[c] + 1 ELSE ran[d])
    BY <1>t, <1>1 DEF SesState, FinState
  <2>1. SessionTypeOK'
    <3>ses. ses' \in SesState
      BY <1>t, <1>1 DEF SesState
    <3>fin. fin' \in FinState
      BY <1>t, <2>h, <1>1 DEF FinState, MaybeCall
    <3>ran. ran' \in [Calls -> Nat]
      BY <1>t, <1>1
    <3>. QED  BY <1>t, <2>g, <3>ses, <3>fin, <3>ran, <1>a DEF SessionTypeOK
  <2>2. QueueInv'
    BY <1>t, <2>h, <2>g, <1>b, <1>c DEF QueueInv, QueueOK
  <2>3. HandlerInv'
    BY <1>t, <2>h, <2>g, <1>c DEF HandlerInv
  <2>4. EndInv'
    BY <1>t, <2>h, <2>g, <1>b, <1>c, <1>d DEF EndInv, BeforeSession, AllJoined
  <2>5. HonestInv'
    <3> SUFFICES ASSUME native.honest, ses.failure = "none", ~ses.closing
                 PROVE  RpcInv' /\ TurnInv' /\ PipeInv' /\ \A d \in Calls : CallInv(d)'
      BY <2>g, <1>e DEF HonestInv
    <3>0. RpcInv /\ TurnInv /\ PipeInv /\ \A d \in Calls : CallInv(d)
      BY <1>e DEF HonestInv
    <3>1. RpcInv'
      BY <3>0, <2>g DEF RpcInv
    <3>2. TurnInv'
      BY <3>0, <2>g DEF TurnInv
    <3>3. PipeInv'
      BY <3>0, <2>g DEF PipeInv, FrameOK, OrderOK, Bound
    <3>4. ASSUME NEW d \in Calls PROVE CallInv(d)'
      <4>1. CallInv(d)
        BY <3>0
      <4>2. Writing(d)' <=> Writing(d)
        BY <2>g, <2>h DEF Writing
      <4>. QED  BY <4>1, <4>2, <2>g DEF CallInv
    <3>. QED  BY <3>1, <3>2, <3>3, <3>4
  <2>. QED  BY <2>1, <2>2, <2>3, <2>4, <2>5 DEF SessionInv
<1>2. ses.step = "claimed" => ses.handler \in Calls
  BY <1>c DEF HandlerInv
<1>. QED
  BY <1>1, <1>2 DEF Invoke

LEMMA InvokedKeeps ==
  ASSUME SessionInv, Invoked
  PROVE  SessionInv'
<1>a. SessionTypeOK
  BY DEF SessionInv
<1>b. QueueInv
  BY DEF SessionInv
<1>c. HandlerInv
  BY DEF SessionInv
<1>d. EndInv
  BY DEF SessionInv
<1>e. HonestInv
  BY DEF SessionInv
<1>t. /\ ses \in SesState /\ calls \in [Calls -> CallStages] /\ inbox \in Seq(InFrame) /\ wr \in WriteState
      /\ native \in NatState /\ fin \in FinState /\ slot \in SlotState /\ ran \in [Calls -> Nat]
  BY <1>a DEF SessionTypeOK
<1>1. ASSUME fin.running # None,
             ses' = [ses EXCEPT !.step = "invoked"],
             fin' = [fin EXCEPT !.running = None],
             UNCHANGED <<calls, inbox, wr, native, slot, ran>>
     PROVE  SessionInv'
  <2>h. fin.running # None
    BY <1>1
  <2>g. /\ ses'.at = ses.at /\ ses'.pending = ses.pending /\ ses'.thread = ses.thread /\ ses'.turn = ses.turn
        /\ ses'.early = ses.early /\ ses'.out = ses.out /\ ses'.completed = ses.completed /\ ses'.failure = ses.failure
        /\ ses'.closing = ses.closing /\ ses'.handler = ses.handler /\ ses'.step = "invoked" /\ calls' = calls
        /\ inbox' = inbox /\ wr' = wr /\ native' = native /\ fin'.process = fin.process /\ fin'.handlers = fin.handlers
        /\ fin'.broker = fin.broker /\ fin'.running = None /\ slot' = slot /\ ran' = ran
    BY <1>t, <1>1 DEF SesState, FinState
  <2>c. ses.step = "invoking"
    BY <2>h, <1>c DEF HandlerInv
  <2>1. SessionTypeOK'
    <3>ses. ses' \in SesState
      BY <1>t, <1>1 DEF SesState
    <3>fin. fin' \in FinState
      BY <1>t, <1>1 DEF FinState, MaybeCall
    <3>. QED  BY <1>t, <2>g, <3>ses, <3>fin, <2>c, <1>a DEF SessionTypeOK
  <2>2. QueueInv'
    BY <1>t, <2>h, <2>g, <2>c, <1>b, <1>c DEF QueueInv, QueueOK
  <2>3. HandlerInv'
    BY <1>t, <2>h, <2>g, <2>c, <1>c DEF HandlerInv
  <2>4. EndInv'
    BY <1>t, <2>h, <2>g, <2>c, <1>b, <1>c, <1>d DEF EndInv, BeforeSession, AllJoined
  <2>5. HonestInv'
    <3> SUFFICES ASSUME native.honest, ses.failure = "none", ~ses.closing
                 PROVE  RpcInv' /\ TurnInv' /\ PipeInv' /\ \A d \in Calls : CallInv(d)'
      BY <2>g, <1>e DEF HonestInv
    <3>0. RpcInv /\ TurnInv /\ PipeInv /\ \A d \in Calls : CallInv(d)
      BY <1>e DEF HonestInv
    <3>1. RpcInv'
      BY <3>0, <2>g DEF RpcInv
    <3>2. TurnInv'
      BY <3>0, <2>g DEF TurnInv
    <3>3. PipeInv'
      BY <3>0, <2>g DEF PipeInv, FrameOK, OrderOK, Bound
    <3>4. ASSUME NEW d \in Calls PROVE CallInv(d)'
      <4>1. CallInv(d)
        BY <3>0
      <4>2. Writing(d)' <=> Writing(d)
        BY <2>g, <2>h, <1>c DEF Writing, HandlerInv
      <4>. QED  BY <4>1, <4>2, <2>g DEF CallInv
    <3>. QED  BY <3>1, <3>2, <3>3, <3>4
  <2>. QED  BY <2>1, <2>2, <2>3, <2>4, <2>5 DEF SessionInv
<1>. QED
  BY <1>1 DEF Invoked

LEMMA RespondKeeps ==
  ASSUME SessionInv, Respond
  PROVE  SessionInv'
<1>a. SessionTypeOK
  BY DEF SessionInv
<1>b. QueueInv
  BY DEF SessionInv
<1>c. HandlerInv
  BY DEF SessionInv
<1>d. EndInv
  BY DEF SessionInv
<1>e. HonestInv
  BY DEF SessionInv
<1>t. /\ ses \in SesState /\ calls \in [Calls -> CallStages] /\ inbox \in Seq(InFrame) /\ wr \in WriteState
      /\ native \in NatState /\ fin \in FinState /\ slot \in SlotState /\ ran \in [Calls -> Nat]
  BY <1>a DEF SessionTypeOK
<1>1. ASSUME ses.step = "invoked" \/ (ses.step = "claimed" /\ ses.closing),
             ses.failure = "none",
             ~wr.closed,
             ses' = [ses EXCEPT !.step = "writing"],
             wr' = [wr EXCEPT !.queue = Append(wr.queue, Frame("answer", ses.handler))],
             UNCHANGED <<calls, inbox, native, fin, slot, ran>>
     PROVE  SessionInv'
  <2>h. (ses.step = "invoked" \/ (ses.step = "claimed" /\ ses.closing)) /\ ses.failure = "none" /\ ~wr.closed
    BY <1>1
  <2>g. /\ ses'.at = ses.at /\ ses'.pending = ses.pending /\ ses'.thread = ses.thread /\ ses'.turn = ses.turn
        /\ ses'.early = ses.early /\ ses'.out = ses.out /\ ses'.completed = ses.completed /\ ses'.failure = ses.failure
        /\ ses'.closing = ses.closing /\ ses'.handler = ses.handler /\ ses'.step = "writing" /\ calls' = calls
        /\ inbox' = inbox /\ wr'.queue = Append(wr.queue, Frame("answer", ses.handler)) /\ wr'.sending = wr.sending
        /\ wr'.closed = wr.closed /\ native' = native /\ fin' = fin /\ slot' = slot /\ ran' = ran
    BY <1>t, <1>1 DEF SesState, WriteState
  <2>p. /\ wr.queue \in Seq(Written) /\ Append(wr.queue, Frame("answer", ses.handler)) \in Seq(Written)
        /\ Pushed(wr.queue, wr'.queue, Frame("answer", ses.handler)) /\ Frame("answer", ses.handler).kind = "answer" /\ Frame("answer", ses.handler).call = ses.handler
    <3>1. Frame("answer", ses.handler) \in Written /\ Frame("answer", ses.handler).kind = "answer" /\ Frame("answer", ses.handler).call = ses.handler
      BY <2>h, <1>t, <1>c DEF Frame, Written, MaybeCall, HandlerInv, SesState
    <3>2. wr.queue \in Seq(Written)
      BY <1>t DEF WriteState
    <3>3. Append(wr.queue, Frame("answer", ses.handler)) \in Seq(Written) /\ Pushed(wr.queue, Append(wr.queue, Frame("answer", ses.handler)), Frame("answer", ses.handler))
      BY <3>1, <3>2, PushedSeq
    <3>. QED  BY <3>1, <3>2, <3>3, <2>g
  <2>1. SessionTypeOK'
    <3>ses. ses' \in SesState
      BY <1>t, <1>1 DEF SesState
    <3>wr. wr' \in WriteState
      BY <1>t, <1>1, <2>p DEF WriteState
    <3>. QED  BY <1>t, <2>g, <3>ses, <3>wr, <2>p, <1>a DEF SessionTypeOK
  <2>2. QueueInv'
    <3>q. \A i \in 1..Len(wr.queue) : QueueOK(i) /\ wr.queue[i].call = None
      BY <1>b, <2>h DEF QueueInv, QueueOK
    <3>1. ASSUME NEW i \in 1..Len(wr'.queue) PROVE QueueOK(i)' /\ (wr'.queue[i].call # None => i = Len(wr'.queue))
      <4>1. CASE i \in 1..Len(wr.queue)
        <5>1. wr'.queue[i] = wr.queue[i]
          BY <4>1, <2>p DEF Pushed
        <5>. QED  BY <5>1, <4>1, <3>q, <2>g DEF QueueOK
      <4>2. CASE i = Len(wr'.queue)
        <5>1. wr'.queue[i].kind = "answer" /\ wr'.queue[i].call = ses.handler /\ ses.handler # None
          BY <4>2, <2>p, <2>h, <1>c, SessionAssumption DEF Pushed, HandlerInv
        <5>. QED  BY <5>1, <4>2, <2>g DEF QueueOK
      <4>. QED  BY <4>1, <4>2, <2>p DEF Pushed
    <3>2. wr'.queue # <<>>
      BY <2>p DEF Pushed
    <3>. QED  BY <3>1, <3>2 DEF QueueInv
  <2>3. HandlerInv'
    BY <1>t, <2>h, <2>g, <2>p, <1>c DEF HandlerInv
  <2>4. EndInv'
    BY <1>t, <2>h, <2>g, <2>p, <1>b, <1>c, <1>d DEF EndInv, BeforeSession, AllJoined
  <2>5. HonestInv'
    <3> SUFFICES ASSUME native.honest, ses.failure = "none", ~ses.closing
                 PROVE  RpcInv' /\ TurnInv' /\ PipeInv' /\ \A d \in Calls : CallInv(d)'
      BY <2>g, <1>e DEF HonestInv
    <3>0. RpcInv /\ TurnInv /\ PipeInv /\ \A d \in Calls : CallInv(d)
      BY <1>e DEF HonestInv
    <3>r. RpcIn(wr'.queue) <=> RpcIn(wr.queue)
      BY <2>p, InPushed
    <3>u. \A i, j \in 1..Len(wr'.queue) : wr'.queue[i].kind = "rpc" /\ wr'.queue[j].kind = "rpc" => i = j
      <4>1. \A i \in 1..Len(wr'.queue) : wr'.queue[i].kind = "rpc" => i \in 1..Len(wr.queue) /\ wr'.queue[i] = wr.queue[i]
        BY <2>p DEF Pushed
      <4>. QED  BY <4>1, <3>0 DEF RpcInv
    <3>w. \A d \in Calls : ~Writing(d) /\ ~Writing(d)'
      <4>1. \A i \in 1..Len(wr.queue) : wr.queue[i].call = None
        BY <1>b, <2>h DEF QueueInv, QueueOK
      <4>2. 1 \in 1..Len(wr'.queue)
        BY <2>p DEF Pushed
      <4>3. wr'.queue[1].kind = "answer" \/ wr'.queue[1].call = None
        BY <4>1, <4>2, <2>p DEF Pushed
      <4>. QED  BY <4>3, <2>h, SessionAssumption DEF Writing
    <3>1. RpcInv'
      BY <3>0, <3>r, <3>u, <2>g DEF RpcInv
    <3>2. TurnInv'
      BY <3>0, <2>g DEF TurnInv
    <3>3. PipeInv'
      BY <3>0, <2>g DEF PipeInv, FrameOK, OrderOK, Bound
    <3>4. ASSUME NEW d \in Calls PROVE CallInv(d)'
      <4>1. CallInv(d)
        BY <3>0
      <4>. QED  BY <4>1, <3>w, <2>g DEF CallInv
    <3>. QED  BY <3>1, <3>2, <3>3, <3>4
  <2>. QED  BY <2>1, <2>2, <2>3, <2>4, <2>5 DEF SessionInv
<1>2. ASSUME ses.step = "invoked" \/ (ses.step = "claimed" /\ ses.closing),
             ~(ses.failure = "none" /\ ~wr.closed),
             ses' = [ses EXCEPT !.failure = IF ses.failure = "none" THEN "interrupted" ELSE ses.failure, !.step = "idle", !.handler = None],
             UNCHANGED <<calls, inbox, wr, native, fin, slot, ran>>
     PROVE  SessionInv'
  <2>h. (ses.step = "invoked" \/ (ses.step = "claimed" /\ ses.closing)) /\ ~(ses.failure = "none" /\ ~wr.closed)
    BY <1>2
  <2>g. /\ ses'.at = ses.at /\ ses'.pending = ses.pending /\ ses'.thread = ses.thread /\ ses'.turn = ses.turn
        /\ ses'.early = ses.early /\ ses'.out = ses.out /\ ses'.completed = ses.completed
        /\ (ses'.failure = IF ses.failure = "none" THEN "interrupted" ELSE ses.failure) /\ ses'.closing = ses.closing
        /\ ses'.handler = None /\ ses'.step = "idle" /\ calls' = calls /\ inbox' = inbox /\ wr' = wr /\ native' = native
        /\ fin' = fin /\ slot' = slot /\ ran' = ran
    BY <1>t, <1>2 DEF SesState
  <2>1. SessionTypeOK'
    <3>ses. ses' \in SesState
      BY <1>t, <1>2 DEF SesState, MaybeCall
    <3>. QED  BY <1>t, <2>g, <3>ses, <1>a DEF SessionTypeOK
  <2>2. QueueInv'
    <3>q. \A i \in 1..Len(wr.queue) : QueueOK(i) /\ wr.queue[i].call = None
      BY <1>b, <2>h DEF QueueInv, QueueOK
    <3>. QED  BY <3>q, <1>b, <2>g DEF QueueInv, QueueOK
  <2>3. HandlerInv'
    BY <1>t, <2>h, <2>g, <1>c DEF HandlerInv
  <2>4. EndInv'
    BY <1>t, <2>h, <2>g, <1>b, <1>c, <1>d DEF EndInv, BeforeSession, AllJoined
  <2>5. HonestInv'
    BY <2>g, <2>h, <1>e DEF HonestInv
  <2>. QED  BY <2>1, <2>2, <2>3, <2>4, <2>5 DEF SessionInv
<1>. QED
  BY <1>1, <1>2 DEF Respond, Failed, Active, Queued

LEMMA AnswerRefusedKeeps ==
  ASSUME SessionInv, AnswerRefused
  PROVE  SessionInv'
<1>a. SessionTypeOK
  BY DEF SessionInv
<1>b. QueueInv
  BY DEF SessionInv
<1>c. HandlerInv
  BY DEF SessionInv
<1>d. EndInv
  BY DEF SessionInv
<1>e. HonestInv
  BY DEF SessionInv
<1>t. /\ ses \in SesState /\ calls \in [Calls -> CallStages] /\ inbox \in Seq(InFrame) /\ wr \in WriteState
      /\ native \in NatState /\ fin \in FinState /\ slot \in SlotState /\ ran \in [Calls -> Nat]
  BY <1>a DEF SessionTypeOK
<1>1. ASSUME ses.step = "writing",
             wr.queue = <<>>,
             ses' = [ses EXCEPT !.failure = IF ses.failure = "none" THEN "write" ELSE ses.failure, !.step = "idle", !.handler = None],
             UNCHANGED <<calls, inbox, wr, native, fin, slot, ran>>
     PROVE  SessionInv'
  <2>h. ses.step = "writing" /\ wr.queue = <<>>
    BY <1>1
  <2>g. /\ ses'.at = ses.at /\ ses'.pending = ses.pending /\ ses'.thread = ses.thread /\ ses'.turn = ses.turn
        /\ ses'.early = ses.early /\ ses'.out = ses.out /\ ses'.completed = ses.completed
        /\ (ses'.failure = IF ses.failure = "none" THEN "write" ELSE ses.failure) /\ ses'.closing = ses.closing
        /\ ses'.handler = None /\ ses'.step = "idle" /\ calls' = calls /\ inbox' = inbox /\ wr' = wr /\ native' = native
        /\ fin' = fin /\ slot' = slot /\ ran' = ran
    BY <1>t, <1>1 DEF SesState
  <2>p. 1..Len(wr.queue) = {}
    BY <2>h, EmptyPipe
  <2>1. SessionTypeOK'
    <3>ses. ses' \in SesState
      BY <1>t, <1>1 DEF SesState, MaybeCall
    <3>. QED  BY <1>t, <2>g, <3>ses, <2>p, <1>a DEF SessionTypeOK
  <2>2. QueueInv'
    BY <1>t, <2>h, <2>g, <2>p, <1>b, <1>c DEF QueueInv, QueueOK
  <2>3. HandlerInv'
    BY <1>t, <2>h, <2>g, <2>p, <1>c DEF HandlerInv
  <2>4. EndInv'
    BY <1>t, <2>h, <2>g, <2>p, <1>b, <1>c, <1>d DEF EndInv, BeforeSession, AllJoined
  <2>5. HonestInv'
    BY <2>g, <2>h, <1>e DEF HonestInv
  <2>. QED  BY <2>1, <2>2, <2>3, <2>4, <2>5 DEF SessionInv
<1>. QED
  BY <1>1 DEF AnswerRefused, Failed

LEMMA CloseKeeps ==
  ASSUME SessionInv, Close
  PROVE  SessionInv'
<1>a. SessionTypeOK
  BY DEF SessionInv
<1>b. QueueInv
  BY DEF SessionInv
<1>c. HandlerInv
  BY DEF SessionInv
<1>d. EndInv
  BY DEF SessionInv
<1>e. HonestInv
  BY DEF SessionInv
<1>t. /\ ses \in SesState /\ calls \in [Calls -> CallStages] /\ inbox \in Seq(InFrame) /\ wr \in WriteState
      /\ native \in NatState /\ fin \in FinState /\ slot \in SlotState /\ ran \in [Calls -> Nat]
  BY <1>a DEF SessionTypeOK
<1>1. ASSUME slot.run = "session",
             ~ses.closing,
             ses.failure # "none",
             ses' = [ses EXCEPT !.closing = TRUE, !.pending = FALSE],
             wr' = [wr EXCEPT !.closed = TRUE],
             fin' = [fin EXCEPT !.process = "waiting", !.handlers = "waiting", !.broker = "waiting"],
             UNCHANGED <<calls, inbox, native, slot, ran>>
     PROVE  SessionInv'
  <2>h. slot.run = "session" /\ ~ses.closing /\ ses.failure # "none"
    BY <1>1
  <2>g. /\ ses'.at = ses.at /\ ses'.pending = FALSE /\ ses'.thread = ses.thread /\ ses'.turn = ses.turn
        /\ ses'.early = ses.early /\ ses'.out = ses.out /\ ses'.completed = ses.completed /\ ses'.failure = ses.failure
        /\ ses'.closing = TRUE /\ ses'.handler = ses.handler /\ ses'.step = ses.step /\ calls' = calls /\ inbox' = inbox
        /\ wr'.queue = wr.queue /\ wr'.sending = wr.sending /\ wr'.closed = TRUE /\ native' = native
        /\ fin'.process = "waiting" /\ fin'.handlers = "waiting" /\ fin'.broker = "waiting" /\ fin'.running = fin.running
        /\ slot' = slot /\ ran' = ran
    BY <1>t, <1>1 DEF SesState, WriteState, FinState
  <2>1. SessionTypeOK'
    <3>ses. ses' \in SesState
      BY <1>t, <1>1 DEF SesState
    <3>wr. wr' \in WriteState
      BY <1>t, <1>1 DEF WriteState
    <3>fin. fin' \in FinState
      BY <1>t, <1>1 DEF FinState, Joins
    <3>. QED  BY <1>t, <2>g, <3>ses, <3>wr, <3>fin, <1>a DEF SessionTypeOK
  <2>2. QueueInv'
    BY <1>t, <2>h, <2>g, <1>b, <1>c DEF QueueInv, QueueOK
  <2>3. HandlerInv'
    BY <1>t, <2>h, <2>g, <1>c DEF HandlerInv
  <2>4. EndInv'
    BY <1>t, <2>h, <2>g, <1>b, <1>c, <1>d DEF EndInv, BeforeSession, AllJoined
  <2>5. HonestInv'
    BY <2>g, <2>h, <1>e DEF HonestInv
  <2>. QED  BY <2>1, <2>2, <2>3, <2>4, <2>5 DEF SessionInv
<1>2. ASSUME slot.run = "session",
             ~ses.closing,
             ses.completed,
             ses.step = "idle",
             inbox = <<>>,
             ses' = [ses EXCEPT !.closing = TRUE, !.pending = FALSE],
             wr' = [wr EXCEPT !.closed = TRUE],
             fin' = [fin EXCEPT !.process = "waiting", !.handlers = "waiting", !.broker = "waiting"],
             UNCHANGED <<calls, inbox, native, slot, ran>>
     PROVE  SessionInv'
  <2>h. slot.run = "session" /\ ~ses.closing /\ ses.completed /\ ses.step = "idle" /\ inbox = <<>>
    BY <1>2
  <2>g. /\ ses'.at = ses.at /\ ses'.pending = FALSE /\ ses'.thread = ses.thread /\ ses'.turn = ses.turn
        /\ ses'.early = ses.early /\ ses'.out = ses.out /\ ses'.completed = ses.completed /\ ses'.failure = ses.failure
        /\ ses'.closing = TRUE /\ ses'.handler = ses.handler /\ ses'.step = ses.step /\ calls' = calls /\ inbox' = inbox
        /\ wr'.queue = wr.queue /\ wr'.sending = wr.sending /\ wr'.closed = TRUE /\ native' = native
        /\ fin'.process = "waiting" /\ fin'.handlers = "waiting" /\ fin'.broker = "waiting" /\ fin'.running = fin.running
        /\ slot' = slot /\ ran' = ran
    BY <1>t, <1>2 DEF SesState, WriteState, FinState
  <2>1. SessionTypeOK'
    <3>ses. ses' \in SesState
      BY <1>t, <1>2 DEF SesState
    <3>wr. wr' \in WriteState
      BY <1>t, <1>2 DEF WriteState
    <3>fin. fin' \in FinState
      BY <1>t, <1>2 DEF FinState, Joins
    <3>. QED  BY <1>t, <2>g, <3>ses, <3>wr, <3>fin, <1>a DEF SessionTypeOK
  <2>2. QueueInv'
    BY <1>t, <2>h, <2>g, <1>b, <1>c DEF QueueInv, QueueOK
  <2>3. HandlerInv'
    BY <1>t, <2>h, <2>g, <1>c DEF HandlerInv
  <2>4. EndInv'
    BY <1>t, <2>h, <2>g, <1>b, <1>c, <1>d DEF EndInv, BeforeSession, AllJoined
  <2>5. HonestInv'
    BY <2>g, <2>h, <1>e DEF HonestInv
  <2>. QED  BY <2>1, <2>2, <2>3, <2>4, <2>5 DEF SessionInv
<1>. QED
  BY <1>1, <1>2 DEF Close, Active

LEMMA JoinProcessKeeps ==
  ASSUME SessionInv, JoinProcess
  PROVE  SessionInv'
<1>a. SessionTypeOK
  BY DEF SessionInv
<1>b. QueueInv
  BY DEF SessionInv
<1>c. HandlerInv
  BY DEF SessionInv
<1>d. EndInv
  BY DEF SessionInv
<1>e. HonestInv
  BY DEF SessionInv
<1>t. /\ ses \in SesState /\ calls \in [Calls -> CallStages] /\ inbox \in Seq(InFrame) /\ wr \in WriteState
      /\ native \in NatState /\ fin \in FinState /\ slot \in SlotState /\ ran \in [Calls -> Nat]
  BY <1>a DEF SessionTypeOK
<1>1. ASSUME fin.process = "waiting",
             native' = [native EXCEPT !.up = FALSE],
             fin' = [fin EXCEPT !.process = "joined"],
             UNCHANGED <<ses, calls, inbox, wr, slot, ran>>
     PROVE  SessionInv'
  <2>h. fin.process = "waiting"
    BY <1>1
  <2>g. /\ ses' = ses /\ calls' = calls /\ inbox' = inbox /\ wr' = wr /\ native'.up = FALSE
        /\ native'.honest = native.honest /\ native'.asked = native.asked /\ native'.answered = native.answered
        /\ native'.begun = native.begun /\ native'.final = native.final /\ native'.ended = native.ended
        /\ native'.tools = native.tools /\ native'.wild = native.wild /\ fin'.process = "joined"
        /\ fin'.handlers = fin.handlers /\ fin'.broker = fin.broker /\ fin'.running = fin.running /\ slot' = slot
        /\ ran' = ran
    BY <1>t, <1>1 DEF NatState, FinState
  <2>1. SessionTypeOK'
    <3>native. native' \in NatState
      BY <1>t, <1>1 DEF NatState
    <3>fin. fin' \in FinState
      BY <1>t, <1>1 DEF FinState, Joins
    <3>. QED  BY <1>t, <2>g, <3>native, <3>fin, <1>a DEF SessionTypeOK
  <2>2. QueueInv'
    BY <1>t, <2>h, <2>g, <1>b, <1>c DEF QueueInv, QueueOK
  <2>3. HandlerInv'
    BY <1>t, <2>h, <2>g, <1>c DEF HandlerInv
  <2>4. EndInv'
    BY <1>t, <2>h, <2>g, <1>b, <1>c, <1>d DEF EndInv, BeforeSession, AllJoined
  <2>5. HonestInv'
    <3> SUFFICES ASSUME native.honest, ses.failure = "none", ~ses.closing
                 PROVE  RpcInv' /\ TurnInv' /\ PipeInv' /\ \A d \in Calls : CallInv(d)'
      BY <2>g, <1>e DEF HonestInv
    <3>0. RpcInv /\ TurnInv /\ PipeInv /\ \A d \in Calls : CallInv(d)
      BY <1>e DEF HonestInv
    <3>1. RpcInv'
      BY <3>0, <2>g DEF RpcInv
    <3>2. TurnInv'
      BY <3>0, <2>g DEF TurnInv
    <3>3. PipeInv'
      BY <3>0, <2>g DEF PipeInv, FrameOK, OrderOK, Bound
    <3>4. ASSUME NEW d \in Calls PROVE CallInv(d)'
      <4>1. CallInv(d)
        BY <3>0
      <4>2. Writing(d)' <=> Writing(d)
        BY <2>g, <2>h DEF Writing
      <4>. QED  BY <4>1, <4>2, <2>g DEF CallInv
    <3>. QED  BY <3>1, <3>2, <3>3, <3>4
  <2>. QED  BY <2>1, <2>2, <2>3, <2>4, <2>5 DEF SessionInv
<1>2. ASSUME fin.process = "waiting",
             fin' = [fin EXCEPT !.process = "unproven"],
             UNCHANGED <<ses, calls, inbox, wr, native, slot, ran>>
     PROVE  SessionInv'
  <2>h. fin.process = "waiting"
    BY <1>2
  <2>g. /\ ses' = ses /\ calls' = calls /\ inbox' = inbox /\ wr' = wr /\ native' = native /\ fin'.process = "unproven"
        /\ fin'.handlers = fin.handlers /\ fin'.broker = fin.broker /\ fin'.running = fin.running /\ slot' = slot
        /\ ran' = ran
    BY <1>t, <1>2 DEF FinState
  <2>1. SessionTypeOK'
    <3>fin. fin' \in FinState
      BY <1>t, <1>2 DEF FinState, Joins
    <3>. QED  BY <1>t, <2>g, <3>fin, <1>a DEF SessionTypeOK
  <2>2. QueueInv'
    BY <1>t, <2>h, <2>g, <1>b, <1>c DEF QueueInv, QueueOK
  <2>3. HandlerInv'
    BY <1>t, <2>h, <2>g, <1>c DEF HandlerInv
  <2>4. EndInv'
    BY <1>t, <2>h, <2>g, <1>b, <1>c, <1>d DEF EndInv, BeforeSession, AllJoined
  <2>5. HonestInv'
    <3> SUFFICES ASSUME native.honest, ses.failure = "none", ~ses.closing
                 PROVE  RpcInv' /\ TurnInv' /\ PipeInv' /\ \A d \in Calls : CallInv(d)'
      BY <2>g, <1>e DEF HonestInv
    <3>0. RpcInv /\ TurnInv /\ PipeInv /\ \A d \in Calls : CallInv(d)
      BY <1>e DEF HonestInv
    <3>1. RpcInv'
      BY <3>0, <2>g DEF RpcInv
    <3>2. TurnInv'
      BY <3>0, <2>g DEF TurnInv
    <3>3. PipeInv'
      BY <3>0, <2>g DEF PipeInv, FrameOK, OrderOK, Bound
    <3>4. ASSUME NEW d \in Calls PROVE CallInv(d)'
      <4>1. CallInv(d)
        BY <3>0
      <4>2. Writing(d)' <=> Writing(d)
        BY <2>g, <2>h DEF Writing
      <4>. QED  BY <4>1, <4>2, <2>g DEF CallInv
    <3>. QED  BY <3>1, <3>2, <3>3, <3>4
  <2>. QED  BY <2>1, <2>2, <2>3, <2>4, <2>5 DEF SessionInv
<1>. QED
  BY <1>1, <1>2 DEF JoinProcess

LEMMA JoinHandlersKeeps ==
  ASSUME SessionInv, JoinHandlers
  PROVE  SessionInv'
<1>a. SessionTypeOK
  BY DEF SessionInv
<1>b. QueueInv
  BY DEF SessionInv
<1>c. HandlerInv
  BY DEF SessionInv
<1>d. EndInv
  BY DEF SessionInv
<1>e. HonestInv
  BY DEF SessionInv
<1>t. /\ ses \in SesState /\ calls \in [Calls -> CallStages] /\ inbox \in Seq(InFrame) /\ wr \in WriteState
      /\ native \in NatState /\ fin \in FinState /\ slot \in SlotState /\ ran \in [Calls -> Nat]
  BY <1>a DEF SessionTypeOK
<1>1. ASSUME fin.handlers = "waiting",
             ses.step = "idle",
             inbox = <<>>,
             wr.queue = <<>>,
             fin' = [fin EXCEPT !.handlers = "joined"],
             UNCHANGED <<ses, calls, inbox, wr, native, slot, ran>>
     PROVE  SessionInv'
  <2>h. fin.handlers = "waiting" /\ ses.step = "idle" /\ inbox = <<>> /\ wr.queue = <<>>
    BY <1>1
  <2>g. /\ ses' = ses /\ calls' = calls /\ inbox' = inbox /\ wr' = wr /\ native' = native /\ fin'.process = fin.process
        /\ fin'.handlers = "joined" /\ fin'.broker = fin.broker /\ fin'.running = fin.running /\ slot' = slot
        /\ ran' = ran
    BY <1>t, <1>1 DEF FinState
  <2>1. SessionTypeOK'
    <3>fin. fin' \in FinState
      BY <1>t, <1>1 DEF FinState, Joins
    <3>. QED  BY <1>t, <2>g, <3>fin, <1>a DEF SessionTypeOK
  <2>2. QueueInv'
    BY <1>t, <2>h, <2>g, <1>b, <1>c DEF QueueInv, QueueOK
  <2>3. HandlerInv'
    BY <1>t, <2>h, <2>g, <1>c DEF HandlerInv
  <2>4. EndInv'
    BY <1>t, <2>h, <2>g, <1>b, <1>c, <1>d DEF EndInv, BeforeSession, AllJoined
  <2>5. HonestInv'
    <3> SUFFICES ASSUME native.honest, ses.failure = "none", ~ses.closing
                 PROVE  RpcInv' /\ TurnInv' /\ PipeInv' /\ \A d \in Calls : CallInv(d)'
      BY <2>g, <1>e DEF HonestInv
    <3>0. RpcInv /\ TurnInv /\ PipeInv /\ \A d \in Calls : CallInv(d)
      BY <1>e DEF HonestInv
    <3>1. RpcInv'
      BY <3>0, <2>g DEF RpcInv
    <3>2. TurnInv'
      BY <3>0, <2>g DEF TurnInv
    <3>3. PipeInv'
      BY <3>0, <2>g DEF PipeInv, FrameOK, OrderOK, Bound
    <3>4. ASSUME NEW d \in Calls PROVE CallInv(d)'
      <4>1. CallInv(d)
        BY <3>0
      <4>2. Writing(d)' <=> Writing(d)
        BY <2>g, <2>h DEF Writing
      <4>. QED  BY <4>1, <4>2, <2>g DEF CallInv
    <3>. QED  BY <3>1, <3>2, <3>3, <3>4
  <2>. QED  BY <2>1, <2>2, <2>3, <2>4, <2>5 DEF SessionInv
<1>2. ASSUME fin.handlers = "waiting",
             fin' = [fin EXCEPT !.handlers = "unproven"],
             UNCHANGED <<ses, calls, inbox, wr, native, slot, ran>>
     PROVE  SessionInv'
  <2>h. fin.handlers = "waiting"
    BY <1>2
  <2>g. /\ ses' = ses /\ calls' = calls /\ inbox' = inbox /\ wr' = wr /\ native' = native /\ fin'.process = fin.process
        /\ fin'.handlers = "unproven" /\ fin'.broker = fin.broker /\ fin'.running = fin.running /\ slot' = slot
        /\ ran' = ran
    BY <1>t, <1>2 DEF FinState
  <2>1. SessionTypeOK'
    <3>fin. fin' \in FinState
      BY <1>t, <1>2 DEF FinState, Joins
    <3>. QED  BY <1>t, <2>g, <3>fin, <1>a DEF SessionTypeOK
  <2>2. QueueInv'
    BY <1>t, <2>h, <2>g, <1>b, <1>c DEF QueueInv, QueueOK
  <2>3. HandlerInv'
    BY <1>t, <2>h, <2>g, <1>c DEF HandlerInv
  <2>4. EndInv'
    BY <1>t, <2>h, <2>g, <1>b, <1>c, <1>d DEF EndInv, BeforeSession, AllJoined
  <2>5. HonestInv'
    <3> SUFFICES ASSUME native.honest, ses.failure = "none", ~ses.closing
                 PROVE  RpcInv' /\ TurnInv' /\ PipeInv' /\ \A d \in Calls : CallInv(d)'
      BY <2>g, <1>e DEF HonestInv
    <3>0. RpcInv /\ TurnInv /\ PipeInv /\ \A d \in Calls : CallInv(d)
      BY <1>e DEF HonestInv
    <3>1. RpcInv'
      BY <3>0, <2>g DEF RpcInv
    <3>2. TurnInv'
      BY <3>0, <2>g DEF TurnInv
    <3>3. PipeInv'
      BY <3>0, <2>g DEF PipeInv, FrameOK, OrderOK, Bound
    <3>4. ASSUME NEW d \in Calls PROVE CallInv(d)'
      <4>1. CallInv(d)
        BY <3>0
      <4>2. Writing(d)' <=> Writing(d)
        BY <2>g, <2>h DEF Writing
      <4>. QED  BY <4>1, <4>2, <2>g DEF CallInv
    <3>. QED  BY <3>1, <3>2, <3>3, <3>4
  <2>. QED  BY <2>1, <2>2, <2>3, <2>4, <2>5 DEF SessionInv
<1>. QED
  BY <1>1, <1>2 DEF JoinHandlers

LEMMA JoinBrokerKeeps ==
  ASSUME SessionInv, JoinBroker
  PROVE  SessionInv'
<1>a. SessionTypeOK
  BY DEF SessionInv
<1>b. QueueInv
  BY DEF SessionInv
<1>c. HandlerInv
  BY DEF SessionInv
<1>d. EndInv
  BY DEF SessionInv
<1>e. HonestInv
  BY DEF SessionInv
<1>t. /\ ses \in SesState /\ calls \in [Calls -> CallStages] /\ inbox \in Seq(InFrame) /\ wr \in WriteState
      /\ native \in NatState /\ fin \in FinState /\ slot \in SlotState /\ ran \in [Calls -> Nat]
  BY <1>a DEF SessionTypeOK
<1>1. ASSUME fin.broker = "waiting",
             fin.running = None,
             fin' = [fin EXCEPT !.broker = "joined"],
             UNCHANGED <<ses, calls, inbox, wr, native, slot, ran>>
     PROVE  SessionInv'
  <2>h. fin.broker = "waiting" /\ fin.running = None
    BY <1>1
  <2>g. /\ ses' = ses /\ calls' = calls /\ inbox' = inbox /\ wr' = wr /\ native' = native /\ fin'.process = fin.process
        /\ fin'.handlers = fin.handlers /\ fin'.broker = "joined" /\ fin'.running = fin.running /\ slot' = slot
        /\ ran' = ran
    BY <1>t, <1>1 DEF FinState
  <2>1. SessionTypeOK'
    <3>fin. fin' \in FinState
      BY <1>t, <1>1 DEF FinState, Joins
    <3>. QED  BY <1>t, <2>g, <3>fin, <1>a DEF SessionTypeOK
  <2>2. QueueInv'
    BY <1>t, <2>h, <2>g, <1>b, <1>c DEF QueueInv, QueueOK
  <2>3. HandlerInv'
    BY <1>t, <2>h, <2>g, <1>c DEF HandlerInv
  <2>4. EndInv'
    BY <1>t, <2>h, <2>g, <1>b, <1>c, <1>d DEF EndInv, BeforeSession, AllJoined
  <2>5. HonestInv'
    <3> SUFFICES ASSUME native.honest, ses.failure = "none", ~ses.closing
                 PROVE  RpcInv' /\ TurnInv' /\ PipeInv' /\ \A d \in Calls : CallInv(d)'
      BY <2>g, <1>e DEF HonestInv
    <3>0. RpcInv /\ TurnInv /\ PipeInv /\ \A d \in Calls : CallInv(d)
      BY <1>e DEF HonestInv
    <3>1. RpcInv'
      BY <3>0, <2>g DEF RpcInv
    <3>2. TurnInv'
      BY <3>0, <2>g DEF TurnInv
    <3>3. PipeInv'
      BY <3>0, <2>g DEF PipeInv, FrameOK, OrderOK, Bound
    <3>4. ASSUME NEW d \in Calls PROVE CallInv(d)'
      <4>1. CallInv(d)
        BY <3>0
      <4>2. Writing(d)' <=> Writing(d)
        BY <2>g, <2>h DEF Writing
      <4>. QED  BY <4>1, <4>2, <2>g DEF CallInv
    <3>. QED  BY <3>1, <3>2, <3>3, <3>4
  <2>. QED  BY <2>1, <2>2, <2>3, <2>4, <2>5 DEF SessionInv
<1>2. ASSUME fin.broker = "waiting",
             fin' = [fin EXCEPT !.broker = "unproven"],
             UNCHANGED <<ses, calls, inbox, wr, native, slot, ran>>
     PROVE  SessionInv'
  <2>h. fin.broker = "waiting"
    BY <1>2
  <2>g. /\ ses' = ses /\ calls' = calls /\ inbox' = inbox /\ wr' = wr /\ native' = native /\ fin'.process = fin.process
        /\ fin'.handlers = fin.handlers /\ fin'.broker = "unproven" /\ fin'.running = fin.running /\ slot' = slot
        /\ ran' = ran
    BY <1>t, <1>2 DEF FinState
  <2>1. SessionTypeOK'
    <3>fin. fin' \in FinState
      BY <1>t, <1>2 DEF FinState, Joins
    <3>. QED  BY <1>t, <2>g, <3>fin, <1>a DEF SessionTypeOK
  <2>2. QueueInv'
    BY <1>t, <2>h, <2>g, <1>b, <1>c DEF QueueInv, QueueOK
  <2>3. HandlerInv'
    BY <1>t, <2>h, <2>g, <1>c DEF HandlerInv
  <2>4. EndInv'
    BY <1>t, <2>h, <2>g, <1>b, <1>c, <1>d DEF EndInv, BeforeSession, AllJoined
  <2>5. HonestInv'
    <3> SUFFICES ASSUME native.honest, ses.failure = "none", ~ses.closing
                 PROVE  RpcInv' /\ TurnInv' /\ PipeInv' /\ \A d \in Calls : CallInv(d)'
      BY <2>g, <1>e DEF HonestInv
    <3>0. RpcInv /\ TurnInv /\ PipeInv /\ \A d \in Calls : CallInv(d)
      BY <1>e DEF HonestInv
    <3>1. RpcInv'
      BY <3>0, <2>g DEF RpcInv
    <3>2. TurnInv'
      BY <3>0, <2>g DEF TurnInv
    <3>3. PipeInv'
      BY <3>0, <2>g DEF PipeInv, FrameOK, OrderOK, Bound
    <3>4. ASSUME NEW d \in Calls PROVE CallInv(d)'
      <4>1. CallInv(d)
        BY <3>0
      <4>2. Writing(d)' <=> Writing(d)
        BY <2>g, <2>h DEF Writing
      <4>. QED  BY <4>1, <4>2, <2>g DEF CallInv
    <3>. QED  BY <3>1, <3>2, <3>3, <3>4
  <2>. QED  BY <2>1, <2>2, <2>3, <2>4, <2>5 DEF SessionInv
<1>. QED
  BY <1>1, <1>2 DEF JoinBroker

LEMMA ReturnKeeps ==
  ASSUME SessionInv, Return
  PROVE  SessionInv'
<1>a. SessionTypeOK
  BY DEF SessionInv
<1>b. QueueInv
  BY DEF SessionInv
<1>c. HandlerInv
  BY DEF SessionInv
<1>d. EndInv
  BY DEF SessionInv
<1>e. HonestInv
  BY DEF SessionInv
<1>t. /\ ses \in SesState /\ calls \in [Calls -> CallStages] /\ inbox \in Seq(InFrame) /\ wr \in WriteState
      /\ native \in NatState /\ fin \in FinState /\ slot \in SlotState /\ ran \in [Calls -> Nat]
  BY <1>a DEF SessionTypeOK
<1>1. ASSUME slot.run = "session",
             ses.closing,
             AllJoined,
             ses.failure = "none",
             slot' = [slot EXCEPT !.run = "completed"],
             UNCHANGED <<ses, calls, inbox, wr, native, fin, ran>>
     PROVE  SessionInv'
  <2>h. slot.run = "session" /\ ses.closing /\ AllJoined /\ ses.failure = "none"
    BY <1>1
  <2>g. /\ ses' = ses /\ calls' = calls /\ inbox' = inbox /\ wr' = wr /\ native' = native /\ fin' = fin
        /\ slot'.run = "completed" /\ slot'.aborted = slot.aborted /\ slot'.stop = slot.stop /\ ran' = ran
    BY <1>t, <1>1 DEF SlotState
  <2>1. SessionTypeOK'
    <3>slot. slot' \in SlotState
      BY <1>t, <1>1 DEF SlotState
    <3>. QED  BY <1>t, <2>g, <3>slot, <1>a DEF SessionTypeOK
  <2>2. QueueInv'
    BY <1>t, <2>h, <2>g, <1>b, <1>c DEF QueueInv, QueueOK
  <2>3. HandlerInv'
    BY <1>t, <2>h, <2>g, <1>c DEF HandlerInv
  <2>4. EndInv'
    BY <1>t, <2>h, <2>g, <1>b, <1>c, <1>d DEF EndInv, BeforeSession, AllJoined
  <2>5. HonestInv'
    <3> SUFFICES ASSUME native.honest, ses.failure = "none", ~ses.closing
                 PROVE  RpcInv' /\ TurnInv' /\ PipeInv' /\ \A d \in Calls : CallInv(d)'
      BY <2>g, <1>e DEF HonestInv
    <3>0. RpcInv /\ TurnInv /\ PipeInv /\ \A d \in Calls : CallInv(d)
      BY <1>e DEF HonestInv
    <3>1. RpcInv'
      BY <3>0, <2>g DEF RpcInv
    <3>2. TurnInv'
      BY <3>0, <2>g DEF TurnInv
    <3>3. PipeInv'
      BY <3>0, <2>g DEF PipeInv, FrameOK, OrderOK, Bound
    <3>4. ASSUME NEW d \in Calls PROVE CallInv(d)'
      <4>1. CallInv(d)
        BY <3>0
      <4>2. Writing(d)' <=> Writing(d)
        BY <2>g, <2>h DEF Writing
      <4>. QED  BY <4>1, <4>2, <2>g DEF CallInv
    <3>. QED  BY <3>1, <3>2, <3>3, <3>4
  <2>. QED  BY <2>1, <2>2, <2>3, <2>4, <2>5 DEF SessionInv
<1>2. ASSUME slot.run = "session",
             ses.closing,
             AllJoined,
             ses.failure # "none",
             slot' = [slot EXCEPT !.run = "failed"],
             UNCHANGED <<ses, calls, inbox, wr, native, fin, ran>>
     PROVE  SessionInv'
  <2>h. slot.run = "session" /\ ses.closing /\ AllJoined /\ ses.failure # "none"
    BY <1>2
  <2>g. /\ ses' = ses /\ calls' = calls /\ inbox' = inbox /\ wr' = wr /\ native' = native /\ fin' = fin
        /\ slot'.run = "failed" /\ slot'.aborted = slot.aborted /\ slot'.stop = slot.stop /\ ran' = ran
    BY <1>t, <1>2 DEF SlotState
  <2>1. SessionTypeOK'
    <3>slot. slot' \in SlotState
      BY <1>t, <1>2 DEF SlotState
    <3>. QED  BY <1>t, <2>g, <3>slot, <1>a DEF SessionTypeOK
  <2>2. QueueInv'
    BY <1>t, <2>h, <2>g, <1>b, <1>c DEF QueueInv, QueueOK
  <2>3. HandlerInv'
    BY <1>t, <2>h, <2>g, <1>c DEF HandlerInv
  <2>4. EndInv'
    BY <1>t, <2>h, <2>g, <1>b, <1>c, <1>d DEF EndInv, BeforeSession, AllJoined
  <2>5. HonestInv'
    <3> SUFFICES ASSUME native.honest, ses.failure = "none", ~ses.closing
                 PROVE  RpcInv' /\ TurnInv' /\ PipeInv' /\ \A d \in Calls : CallInv(d)'
      BY <2>g, <1>e DEF HonestInv
    <3>0. RpcInv /\ TurnInv /\ PipeInv /\ \A d \in Calls : CallInv(d)
      BY <1>e DEF HonestInv
    <3>1. RpcInv'
      BY <3>0, <2>g DEF RpcInv
    <3>2. TurnInv'
      BY <3>0, <2>g DEF TurnInv
    <3>3. PipeInv'
      BY <3>0, <2>g DEF PipeInv, FrameOK, OrderOK, Bound
    <3>4. ASSUME NEW d \in Calls PROVE CallInv(d)'
      <4>1. CallInv(d)
        BY <3>0
      <4>2. Writing(d)' <=> Writing(d)
        BY <2>g, <2>h DEF Writing
      <4>. QED  BY <4>1, <4>2, <2>g DEF CallInv
    <3>. QED  BY <3>1, <3>2, <3>3, <3>4
  <2>. QED  BY <2>1, <2>2, <2>3, <2>4, <2>5 DEF SessionInv
<1>3. ASSUME slot.run = "session",
             ses.closing,
             ~AllJoined,
             ses' = [ses EXCEPT !.failure = IF ses.failure = "none" THEN "custody" ELSE ses.failure],
             slot' = [slot EXCEPT !.run = "failed"],
             UNCHANGED <<calls, inbox, wr, native, fin, ran>>
     PROVE  SessionInv'
  <2>h. slot.run = "session" /\ ses.closing /\ ~AllJoined
    BY <1>3
  <2>g. /\ ses'.at = ses.at /\ ses'.pending = ses.pending /\ ses'.thread = ses.thread /\ ses'.turn = ses.turn
        /\ ses'.early = ses.early /\ ses'.out = ses.out /\ ses'.completed = ses.completed
        /\ (ses'.failure = IF ses.failure = "none" THEN "custody" ELSE ses.failure) /\ ses'.closing = ses.closing
        /\ ses'.handler = ses.handler /\ ses'.step = ses.step /\ calls' = calls /\ inbox' = inbox /\ wr' = wr
        /\ native' = native /\ fin' = fin /\ slot'.run = "failed" /\ slot'.aborted = slot.aborted
        /\ slot'.stop = slot.stop /\ ran' = ran
    BY <1>t, <1>3 DEF SesState, SlotState
  <2>1. SessionTypeOK'
    <3>ses. ses' \in SesState
      BY <1>t, <1>3 DEF SesState
    <3>slot. slot' \in SlotState
      BY <1>t, <1>3 DEF SlotState
    <3>. QED  BY <1>t, <2>g, <3>ses, <3>slot, <1>a DEF SessionTypeOK
  <2>2. QueueInv'
    BY <1>t, <2>h, <2>g, <1>b, <1>c DEF QueueInv, QueueOK
  <2>3. HandlerInv'
    BY <1>t, <2>h, <2>g, <1>c DEF HandlerInv
  <2>4. EndInv'
    BY <1>t, <2>h, <2>g, <1>b, <1>c, <1>d DEF EndInv, BeforeSession, AllJoined
  <2>5. HonestInv'
    BY <2>g, <2>h, <1>e DEF HonestInv
  <2>. QED  BY <2>1, <2>2, <2>3, <2>4, <2>5 DEF SessionInv
<1>. QED
  BY <1>1, <1>2, <1>3 DEF Return, Failed

LEMMA RunKeeps ==
  ASSUME SessionInv, Run
  PROVE  SessionInv'
<1>a. SessionTypeOK
  BY DEF SessionInv
<1>b. QueueInv
  BY DEF SessionInv
<1>c. HandlerInv
  BY DEF SessionInv
<1>d. EndInv
  BY DEF SessionInv
<1>e. HonestInv
  BY DEF SessionInv
<1>t. /\ ses \in SesState /\ calls \in [Calls -> CallStages] /\ inbox \in Seq(InFrame) /\ wr \in WriteState
      /\ native \in NatState /\ fin \in FinState /\ slot \in SlotState /\ ran \in [Calls -> Nat]
  BY <1>a DEF SessionTypeOK
<1>1. ASSUME slot.run = "none",
             slot' = [slot EXCEPT !.run = "admitted"],
             UNCHANGED <<ses, calls, inbox, wr, native, fin, ran>>
     PROVE  SessionInv'
  <2>h. slot.run = "none"
    BY <1>1
  <2>g. /\ ses' = ses /\ calls' = calls /\ inbox' = inbox /\ wr' = wr /\ native' = native /\ fin' = fin
        /\ slot'.run = "admitted" /\ slot'.aborted = slot.aborted /\ slot'.stop = slot.stop /\ ran' = ran
    BY <1>t, <1>1 DEF SlotState
  <2>1. SessionTypeOK'
    <3>slot. slot' \in SlotState
      BY <1>t, <1>1 DEF SlotState
    <3>. QED  BY <1>t, <2>g, <3>slot, <1>a DEF SessionTypeOK
  <2>2. QueueInv'
    BY <1>t, <2>h, <2>g, <1>b, <1>c DEF QueueInv, QueueOK
  <2>3. HandlerInv'
    BY <1>t, <2>h, <2>g, <1>c DEF HandlerInv
  <2>4. EndInv'
    BY <1>t, <2>h, <2>g, <1>b, <1>c, <1>d DEF EndInv, BeforeSession, AllJoined
  <2>5. HonestInv'
    <3> SUFFICES ASSUME native.honest, ses.failure = "none", ~ses.closing
                 PROVE  RpcInv' /\ TurnInv' /\ PipeInv' /\ \A d \in Calls : CallInv(d)'
      BY <2>g, <1>e DEF HonestInv
    <3>0. RpcInv /\ TurnInv /\ PipeInv /\ \A d \in Calls : CallInv(d)
      BY <1>e DEF HonestInv
    <3>1. RpcInv'
      BY <3>0, <2>g DEF RpcInv
    <3>2. TurnInv'
      BY <3>0, <2>g DEF TurnInv
    <3>3. PipeInv'
      BY <3>0, <2>g DEF PipeInv, FrameOK, OrderOK, Bound
    <3>4. ASSUME NEW d \in Calls PROVE CallInv(d)'
      <4>1. CallInv(d)
        BY <3>0
      <4>2. Writing(d)' <=> Writing(d)
        BY <2>g, <2>h DEF Writing
      <4>. QED  BY <4>1, <4>2, <2>g DEF CallInv
    <3>. QED  BY <3>1, <3>2, <3>3, <3>4
  <2>. QED  BY <2>1, <2>2, <2>3, <2>4, <2>5 DEF SessionInv
<1>. QED
  BY <1>1 DEF Run

LEMMA ExecuteKeeps ==
  ASSUME SessionInv, Execute
  PROVE  SessionInv'
<1>a. SessionTypeOK
  BY DEF SessionInv
<1>b. QueueInv
  BY DEF SessionInv
<1>c. HandlerInv
  BY DEF SessionInv
<1>d. EndInv
  BY DEF SessionInv
<1>e. HonestInv
  BY DEF SessionInv
<1>t. /\ ses \in SesState /\ calls \in [Calls -> CallStages] /\ inbox \in Seq(InFrame) /\ wr \in WriteState
      /\ native \in NatState /\ fin \in FinState /\ slot \in SlotState /\ ran \in [Calls -> Nat]
  BY <1>a DEF SessionTypeOK
<1>1. ASSUME slot.run = "admitted",
             ~slot.aborted,
             slot' = [slot EXCEPT !.run = "session"],
             UNCHANGED <<ses, calls, inbox, wr, native, fin, ran>>
     PROVE  SessionInv'
  <2>h. slot.run = "admitted" /\ ~slot.aborted
    BY <1>1
  <2>g. /\ ses' = ses /\ calls' = calls /\ inbox' = inbox /\ wr' = wr /\ native' = native /\ fin' = fin
        /\ slot'.run = "session" /\ slot'.aborted = slot.aborted /\ slot'.stop = slot.stop /\ ran' = ran
    BY <1>t, <1>1 DEF SlotState
  <2>1. SessionTypeOK'
    <3>slot. slot' \in SlotState
      BY <1>t, <1>1 DEF SlotState
    <3>. QED  BY <1>t, <2>g, <3>slot, <1>a DEF SessionTypeOK
  <2>2. QueueInv'
    BY <1>t, <2>h, <2>g, <1>b, <1>c DEF QueueInv, QueueOK
  <2>3. HandlerInv'
    BY <1>t, <2>h, <2>g, <1>c DEF HandlerInv
  <2>4. EndInv'
    BY <1>t, <2>h, <2>g, <1>b, <1>c, <1>d DEF EndInv, BeforeSession, AllJoined
  <2>5. HonestInv'
    <3> SUFFICES ASSUME native.honest, ses.failure = "none", ~ses.closing
                 PROVE  RpcInv' /\ TurnInv' /\ PipeInv' /\ \A d \in Calls : CallInv(d)'
      BY <2>g, <1>e DEF HonestInv
    <3>0. RpcInv /\ TurnInv /\ PipeInv /\ \A d \in Calls : CallInv(d)
      BY <1>e DEF HonestInv
    <3>1. RpcInv'
      BY <3>0, <2>g DEF RpcInv
    <3>2. TurnInv'
      BY <3>0, <2>g DEF TurnInv
    <3>3. PipeInv'
      BY <3>0, <2>g DEF PipeInv, FrameOK, OrderOK, Bound
    <3>4. ASSUME NEW d \in Calls PROVE CallInv(d)'
      <4>1. CallInv(d)
        BY <3>0
      <4>2. Writing(d)' <=> Writing(d)
        BY <2>g, <2>h DEF Writing
      <4>. QED  BY <4>1, <4>2, <2>g DEF CallInv
    <3>. QED  BY <3>1, <3>2, <3>3, <3>4
  <2>. QED  BY <2>1, <2>2, <2>3, <2>4, <2>5 DEF SessionInv
<1>2. ASSUME slot.run = "admitted",
             slot' = [slot EXCEPT !.run = "refused"],
             UNCHANGED <<ses, calls, inbox, wr, native, fin, ran>>
     PROVE  SessionInv'
  <2>h. slot.run = "admitted"
    BY <1>2
  <2>g. /\ ses' = ses /\ calls' = calls /\ inbox' = inbox /\ wr' = wr /\ native' = native /\ fin' = fin
        /\ slot'.run = "refused" /\ slot'.aborted = slot.aborted /\ slot'.stop = slot.stop /\ ran' = ran
    BY <1>t, <1>2 DEF SlotState
  <2>1. SessionTypeOK'
    <3>slot. slot' \in SlotState
      BY <1>t, <1>2 DEF SlotState
    <3>. QED  BY <1>t, <2>g, <3>slot, <1>a DEF SessionTypeOK
  <2>2. QueueInv'
    BY <1>t, <2>h, <2>g, <1>b, <1>c DEF QueueInv, QueueOK
  <2>3. HandlerInv'
    BY <1>t, <2>h, <2>g, <1>c DEF HandlerInv
  <2>4. EndInv'
    BY <1>t, <2>h, <2>g, <1>b, <1>c, <1>d DEF EndInv, BeforeSession, AllJoined
  <2>5. HonestInv'
    <3> SUFFICES ASSUME native.honest, ses.failure = "none", ~ses.closing
                 PROVE  RpcInv' /\ TurnInv' /\ PipeInv' /\ \A d \in Calls : CallInv(d)'
      BY <2>g, <1>e DEF HonestInv
    <3>0. RpcInv /\ TurnInv /\ PipeInv /\ \A d \in Calls : CallInv(d)
      BY <1>e DEF HonestInv
    <3>1. RpcInv'
      BY <3>0, <2>g DEF RpcInv
    <3>2. TurnInv'
      BY <3>0, <2>g DEF TurnInv
    <3>3. PipeInv'
      BY <3>0, <2>g DEF PipeInv, FrameOK, OrderOK, Bound
    <3>4. ASSUME NEW d \in Calls PROVE CallInv(d)'
      <4>1. CallInv(d)
        BY <3>0
      <4>2. Writing(d)' <=> Writing(d)
        BY <2>g, <2>h DEF Writing
      <4>. QED  BY <4>1, <4>2, <2>g DEF CallInv
    <3>. QED  BY <3>1, <3>2, <3>3, <3>4
  <2>. QED  BY <2>1, <2>2, <2>3, <2>4, <2>5 DEF SessionInv
<1>. QED
  BY <1>1, <1>2 DEF Execute

LEMMA StopKeeps ==
  ASSUME SessionInv, Stop
  PROVE  SessionInv'
<1>a. SessionTypeOK
  BY DEF SessionInv
<1>b. QueueInv
  BY DEF SessionInv
<1>c. HandlerInv
  BY DEF SessionInv
<1>d. EndInv
  BY DEF SessionInv
<1>e. HonestInv
  BY DEF SessionInv
<1>t. /\ ses \in SesState /\ calls \in [Calls -> CallStages] /\ inbox \in Seq(InFrame) /\ wr \in WriteState
      /\ native \in NatState /\ fin \in FinState /\ slot \in SlotState /\ ran \in [Calls -> Nat]
  BY <1>a DEF SessionTypeOK
<1>1. ASSUME slot.run # "none",
             slot.stop = "none",
             slot.run = "session",
             ses' = [ses EXCEPT !.failure = IF ses.failure = "none" THEN "interrupted" ELSE ses.failure],
             slot' = [slot EXCEPT !.stop = "waiting", !.aborted = TRUE],
             UNCHANGED <<calls, inbox, wr, native, fin, ran>>
     PROVE  SessionInv'
  <2>h. slot.run # "none" /\ slot.stop = "none" /\ slot.run = "session"
    BY <1>1
  <2>g. /\ ses'.at = ses.at /\ ses'.pending = ses.pending /\ ses'.thread = ses.thread /\ ses'.turn = ses.turn
        /\ ses'.early = ses.early /\ ses'.out = ses.out /\ ses'.completed = ses.completed
        /\ (ses'.failure = IF ses.failure = "none" THEN "interrupted" ELSE ses.failure) /\ ses'.closing = ses.closing
        /\ ses'.handler = ses.handler /\ ses'.step = ses.step /\ calls' = calls /\ inbox' = inbox /\ wr' = wr
        /\ native' = native /\ fin' = fin /\ slot'.run = slot.run /\ slot'.aborted = TRUE /\ slot'.stop = "waiting"
        /\ ran' = ran
    BY <1>t, <1>1 DEF SesState, SlotState
  <2>1. SessionTypeOK'
    <3>ses. ses' \in SesState
      BY <1>t, <1>1 DEF SesState
    <3>slot. slot' \in SlotState
      BY <1>t, <1>1 DEF SlotState
    <3>. QED  BY <1>t, <2>g, <3>ses, <3>slot, <1>a DEF SessionTypeOK
  <2>2. QueueInv'
    BY <1>t, <2>h, <2>g, <1>b, <1>c DEF QueueInv, QueueOK
  <2>3. HandlerInv'
    BY <1>t, <2>h, <2>g, <1>c DEF HandlerInv
  <2>4. EndInv'
    BY <1>t, <2>h, <2>g, <1>b, <1>c, <1>d DEF EndInv, BeforeSession, AllJoined
  <2>5. HonestInv'
    BY <2>g, <2>h, <1>e DEF HonestInv
  <2>. QED  BY <2>1, <2>2, <2>3, <2>4, <2>5 DEF SessionInv
<1>2. ASSUME slot.run # "none",
             slot.stop = "none",
             slot.run # "session",
             slot' = [slot EXCEPT !.stop = "waiting", !.aborted = TRUE],
             UNCHANGED <<ses, calls, inbox, wr, native, fin, ran>>
     PROVE  SessionInv'
  <2>h. slot.run # "none" /\ slot.stop = "none" /\ slot.run # "session"
    BY <1>2
  <2>g. /\ ses' = ses /\ calls' = calls /\ inbox' = inbox /\ wr' = wr /\ native' = native /\ fin' = fin
        /\ slot'.run = slot.run /\ slot'.aborted = TRUE /\ slot'.stop = "waiting" /\ ran' = ran
    BY <1>t, <1>2 DEF SlotState
  <2>1. SessionTypeOK'
    <3>slot. slot' \in SlotState
      BY <1>t, <1>2 DEF SlotState
    <3>. QED  BY <1>t, <2>g, <3>slot, <1>a DEF SessionTypeOK
  <2>2. QueueInv'
    BY <1>t, <2>h, <2>g, <1>b, <1>c DEF QueueInv, QueueOK
  <2>3. HandlerInv'
    BY <1>t, <2>h, <2>g, <1>c DEF HandlerInv
  <2>4. EndInv'
    BY <1>t, <2>h, <2>g, <1>b, <1>c, <1>d DEF EndInv, BeforeSession, AllJoined
  <2>5. HonestInv'
    <3> SUFFICES ASSUME native.honest, ses.failure = "none", ~ses.closing
                 PROVE  RpcInv' /\ TurnInv' /\ PipeInv' /\ \A d \in Calls : CallInv(d)'
      BY <2>g, <1>e DEF HonestInv
    <3>0. RpcInv /\ TurnInv /\ PipeInv /\ \A d \in Calls : CallInv(d)
      BY <1>e DEF HonestInv
    <3>1. RpcInv'
      BY <3>0, <2>g DEF RpcInv
    <3>2. TurnInv'
      BY <3>0, <2>g DEF TurnInv
    <3>3. PipeInv'
      BY <3>0, <2>g DEF PipeInv, FrameOK, OrderOK, Bound
    <3>4. ASSUME NEW d \in Calls PROVE CallInv(d)'
      <4>1. CallInv(d)
        BY <3>0
      <4>2. Writing(d)' <=> Writing(d)
        BY <2>g, <2>h DEF Writing
      <4>. QED  BY <4>1, <4>2, <2>g DEF CallInv
    <3>. QED  BY <3>1, <3>2, <3>3, <3>4
  <2>. QED  BY <2>1, <2>2, <2>3, <2>4, <2>5 DEF SessionInv
<1>. QED
  BY <1>1, <1>2 DEF Stop, Failed

LEMMA StoppedKeeps ==
  ASSUME SessionInv, Stopped
  PROVE  SessionInv'
<1>a. SessionTypeOK
  BY DEF SessionInv
<1>b. QueueInv
  BY DEF SessionInv
<1>c. HandlerInv
  BY DEF SessionInv
<1>d. EndInv
  BY DEF SessionInv
<1>e. HonestInv
  BY DEF SessionInv
<1>t. /\ ses \in SesState /\ calls \in [Calls -> CallStages] /\ inbox \in Seq(InFrame) /\ wr \in WriteState
      /\ native \in NatState /\ fin \in FinState /\ slot \in SlotState /\ ran \in [Calls -> Nat]
  BY <1>a DEF SessionTypeOK
<1>1. ASSUME slot.stop = "waiting",
             slot.run \in {"refused", "completed", "failed"},
             slot.run = "refused" \/ AllJoined,
             slot' = [slot EXCEPT !.stop = "proven"],
             UNCHANGED <<ses, calls, inbox, wr, native, fin, ran>>
     PROVE  SessionInv'
  <2>h. /\ slot.stop = "waiting" /\ slot.run \in {"refused", "completed", "failed"}
        /\ (slot.run = "refused" \/ AllJoined)
    BY <1>1
  <2>g. /\ ses' = ses /\ calls' = calls /\ inbox' = inbox /\ wr' = wr /\ native' = native /\ fin' = fin
        /\ slot'.run = slot.run /\ slot'.aborted = slot.aborted /\ slot'.stop = "proven" /\ ran' = ran
    BY <1>t, <1>1 DEF SlotState
  <2>1. SessionTypeOK'
    <3>slot. slot' \in SlotState
      BY <1>t, <1>1 DEF SlotState
    <3>. QED  BY <1>t, <2>g, <3>slot, <1>a DEF SessionTypeOK
  <2>2. QueueInv'
    BY <1>t, <2>h, <2>g, <1>b, <1>c DEF QueueInv, QueueOK
  <2>3. HandlerInv'
    BY <1>t, <2>h, <2>g, <1>c DEF HandlerInv
  <2>4. EndInv'
    BY <1>t, <2>h, <2>g, <1>b, <1>c, <1>d DEF EndInv, BeforeSession, AllJoined
  <2>5. HonestInv'
    <3> SUFFICES ASSUME native.honest, ses.failure = "none", ~ses.closing
                 PROVE  RpcInv' /\ TurnInv' /\ PipeInv' /\ \A d \in Calls : CallInv(d)'
      BY <2>g, <1>e DEF HonestInv
    <3>0. RpcInv /\ TurnInv /\ PipeInv /\ \A d \in Calls : CallInv(d)
      BY <1>e DEF HonestInv
    <3>1. RpcInv'
      BY <3>0, <2>g DEF RpcInv
    <3>2. TurnInv'
      BY <3>0, <2>g DEF TurnInv
    <3>3. PipeInv'
      BY <3>0, <2>g DEF PipeInv, FrameOK, OrderOK, Bound
    <3>4. ASSUME NEW d \in Calls PROVE CallInv(d)'
      <4>1. CallInv(d)
        BY <3>0
      <4>2. Writing(d)' <=> Writing(d)
        BY <2>g, <2>h DEF Writing
      <4>. QED  BY <4>1, <4>2, <2>g DEF CallInv
    <3>. QED  BY <3>1, <3>2, <3>3, <3>4
  <2>. QED  BY <2>1, <2>2, <2>3, <2>4, <2>5 DEF SessionInv
<1>2. ASSUME slot.stop = "waiting",
             slot.run \in {"refused", "completed", "failed"},
             slot' = [slot EXCEPT !.stop = "unproven"],
             UNCHANGED <<ses, calls, inbox, wr, native, fin, ran>>
     PROVE  SessionInv'
  <2>h. slot.stop = "waiting" /\ slot.run \in {"refused", "completed", "failed"}
    BY <1>2
  <2>g. /\ ses' = ses /\ calls' = calls /\ inbox' = inbox /\ wr' = wr /\ native' = native /\ fin' = fin
        /\ slot'.run = slot.run /\ slot'.aborted = slot.aborted /\ slot'.stop = "unproven" /\ ran' = ran
    BY <1>t, <1>2 DEF SlotState
  <2>1. SessionTypeOK'
    <3>slot. slot' \in SlotState
      BY <1>t, <1>2 DEF SlotState
    <3>. QED  BY <1>t, <2>g, <3>slot, <1>a DEF SessionTypeOK
  <2>2. QueueInv'
    BY <1>t, <2>h, <2>g, <1>b, <1>c DEF QueueInv, QueueOK
  <2>3. HandlerInv'
    BY <1>t, <2>h, <2>g, <1>c DEF HandlerInv
  <2>4. EndInv'
    BY <1>t, <2>h, <2>g, <1>b, <1>c, <1>d DEF EndInv, BeforeSession, AllJoined
  <2>5. HonestInv'
    <3> SUFFICES ASSUME native.honest, ses.failure = "none", ~ses.closing
                 PROVE  RpcInv' /\ TurnInv' /\ PipeInv' /\ \A d \in Calls : CallInv(d)'
      BY <2>g, <1>e DEF HonestInv
    <3>0. RpcInv /\ TurnInv /\ PipeInv /\ \A d \in Calls : CallInv(d)
      BY <1>e DEF HonestInv
    <3>1. RpcInv'
      BY <3>0, <2>g DEF RpcInv
    <3>2. TurnInv'
      BY <3>0, <2>g DEF TurnInv
    <3>3. PipeInv'
      BY <3>0, <2>g DEF PipeInv, FrameOK, OrderOK, Bound
    <3>4. ASSUME NEW d \in Calls PROVE CallInv(d)'
      <4>1. CallInv(d)
        BY <3>0
      <4>2. Writing(d)' <=> Writing(d)
        BY <2>g, <2>h DEF Writing
      <4>. QED  BY <4>1, <4>2, <2>g DEF CallInv
    <3>. QED  BY <3>1, <3>2, <3>3, <3>4
  <2>. QED  BY <2>1, <2>2, <2>3, <2>4, <2>5 DEF SessionInv
<1>. QED
  BY <1>1, <1>2 DEF Stopped

LEMMA MessageKeeps ==
  ASSUME SessionInv, Message
  PROVE  SessionInv'
<1>a. SessionTypeOK
  BY DEF SessionInv
<1>b. QueueInv
  BY DEF SessionInv
<1>c. HandlerInv
  BY DEF SessionInv
<1>d. EndInv
  BY DEF SessionInv
<1>e. HonestInv
  BY DEF SessionInv
<1>t. /\ ses \in SesState /\ calls \in [Calls -> CallStages] /\ inbox \in Seq(InFrame) /\ wr \in WriteState
      /\ native \in NatState /\ fin \in FinState /\ slot \in SlotState /\ ran \in [Calls -> Nat]
  BY <1>a DEF SessionTypeOK
<1>1. ASSUME inbox # <<>>,
             ses.step = "idle",
             ses.failure = "none",
             ~ses.closing,
             inbox[1].kind = "reply",
             ses.pending,
             ses' = [ses EXCEPT !.pending = FALSE, !.thread = (ses.thread \/ Rpcs[ses.at] = "thread"), !.turn = (ses.turn \/ Rpcs[ses.at] = "turn")],
             inbox' = Tail(inbox),
             UNCHANGED <<calls, wr, native, fin, slot, ran>>
     PROVE  SessionInv'
  <2>h. /\ inbox # <<>> /\ ses.step = "idle" /\ ses.failure = "none" /\ ~ses.closing /\ inbox[1].kind = "reply"
        /\ ses.pending
    BY <1>1
  <2>g. /\ ses'.at = ses.at /\ ses'.pending = FALSE /\ (ses'.thread = (ses.thread \/ Rpcs[ses.at] = "thread"))
        /\ (ses'.turn = (ses.turn \/ Rpcs[ses.at] = "turn")) /\ ses'.early = ses.early /\ ses'.out = ses.out
        /\ ses'.completed = ses.completed /\ ses'.failure = ses.failure /\ ses'.closing = ses.closing
        /\ ses'.handler = ses.handler /\ ses'.step = ses.step /\ calls' = calls /\ inbox' = Tail(inbox) /\ wr' = wr
        /\ native' = native /\ fin' = fin /\ slot' = slot /\ ran' = ran
    BY <1>t, <1>1 DEF SesState
  <2>i. /\ Tail(inbox) \in Seq(InFrame) /\ Popped(inbox, inbox') /\ 1 \in 1..Len(inbox)
        /\ \A m \in 1..Len(inbox') : inbox'[m].kind \in AboutCall => inbox'[m].call \in Calls
        /\ \A k, d : In(inbox, k, d) <=> In(inbox', k, d) \/ (inbox[1].kind = k /\ inbox[1].call = d)
    <3>1. Tail(inbox) \in Seq(InFrame) /\ Popped(inbox, Tail(inbox))
      BY <1>t, <2>h, PoppedSeq
    <3>2. Popped(inbox, inbox')
      BY <3>1, <2>g
    <3>. QED  BY <3>1, <3>2, <1>a, InPopped DEF Popped, SessionTypeOK
  <2>1. SessionTypeOK'
    <3>ses. ses' \in SesState
      BY <1>t, <1>1 DEF SesState
    <3>inbox. inbox' \in Seq(InFrame)
      BY <2>i, <2>g
    <3>. QED  BY <1>t, <2>g, <3>ses, <3>inbox, <2>i, <1>a DEF SessionTypeOK
  <2>2. QueueInv'
    BY <1>t, <2>h, <2>g, <2>i, <1>b, <1>c DEF QueueInv, QueueOK
  <2>3. HandlerInv'
    BY <1>t, <2>h, <2>g, <2>i, <1>c DEF HandlerInv
  <2>4. EndInv'
    BY <1>t, <2>h, <2>g, <2>i, <1>b, <1>c, <1>d DEF EndInv, BeforeSession, AllJoined
  <2>5. HonestInv'
    <3> SUFFICES ASSUME native.honest, ses.failure = "none", ~ses.closing
                 PROVE  RpcInv' /\ TurnInv' /\ PipeInv' /\ \A d \in Calls : CallInv(d)'
      BY <2>g, <1>e DEF HonestInv
    <3>0. RpcInv /\ TurnInv /\ PipeInv /\ \A d \in Calls : CallInv(d)
      BY <1>e DEF HonestInv
    <3>f. FrameOK(1)
      BY <3>0, <2>i DEF PipeInv
    <3>w. \A d \in Calls : ~Writing(d) /\ ~Writing(d)'
      BY <2>h, <2>g DEF Writing
    <3>u. ~In(inbox', inbox[1].kind, inbox[1].call)
      BY <3>0, <2>h, <2>i, <1>t, NotTwice
    <3>n. \A m \in 1..Len(inbox') : m + 1 \in 1..Len(inbox) /\ inbox'[m] = inbox[m + 1] /\ ~(m + 1 < 1)
      BY <2>i DEF Popped
    <3>c. inbox[1].call = None /\ ~In(inbox', "reply", None) /\ In(inbox, "reply", None)
      BY <3>f, <3>u, <2>i, <2>h DEF FrameOK, AboutCall
    <3>a. ses.pending /\ native.asked = ses.at /\ native.answered = ses.at /\ ~RpcIn(wr.queue) /\ ses.at \in 1..5
      BY <3>0, <3>c, <1>t DEF RpcInv, SesState
    <3>t. (ses'.thread <=> ses.thread \/ ses.at = 4) /\ (ses'.turn <=> ses.turn \/ ses.at = 5)
      <4>1. (Rpcs[ses.at] = "thread" <=> ses.at = 4) /\ (Rpcs[ses.at] = "turn" <=> ses.at = 5)
        BY <3>a, RpcNames
      <4>. QED  BY <4>1, <2>g
    <3>1. RpcInv'
      <4>1. (ses'.thread <=> ses'.at = 5 \/ ses'.at = 4) /\ (ses'.turn <=> ses'.at = 5)
        BY <3>t, <3>0, <3>a, <2>g DEF RpcInv
      <4>2. native'.asked = ses'.at /\ native'.answered = ses'.at /\ ~RpcIn(wr'.queue) /\ ~ses'.pending /\ ses'.at \in 1..5
        BY <3>a, <2>g
      <4>. QED  BY <4>1, <4>2, <3>0, <3>c, <2>g DEF RpcInv
    <3>2. TurnInv'
      <4>1. \A k, d : k # "reply" => (In(inbox', k, d) <=> In(inbox, k, d))
        BY <2>i, <2>h
      <4>2. ses.completed => \A m \in 1..Len(inbox') : inbox'[m].kind = "notice"
        BY <3>0, <3>n DEF TurnInv
      <4>. QED  BY <3>0, <4>1, <4>2, <2>g, <2>h DEF TurnInv
    <3>3. PipeInv'
      <4>1. native.answered >= 4 => ses'.thread
        BY <3>a, <3>t, <3>0 DEF RpcInv
      <4>2. ses.thread => ses'.thread
        BY <3>t
      <4>. QED  BY <3>0, <4>1, <4>2, <2>g, <2>i, PipePopped
    <3>4. ASSUME NEW d \in Calls PROVE CallInv(d)'
      <4>1. CallInv(d)
        BY <3>0
      <4>2. \A k : k \in AboutCall => (In(inbox', k, d) <=> In(inbox, k, d))
        BY <2>i, <2>h DEF AboutCall
      <4>. QED  BY <4>1, <4>2, <3>w, <2>g DEF CallInv, AboutCall
    <3>. QED  BY <3>1, <3>2, <3>3, <3>4
  <2>. QED  BY <2>1, <2>2, <2>3, <2>4, <2>5 DEF SessionInv
<1>2. ASSUME inbox # <<>>,
             ses.step = "idle",
             ses.failure = "none",
             ~ses.closing,
             inbox[1].kind = "notice",
             ses.thread,
             inbox' = Tail(inbox),
             UNCHANGED <<ses, calls, wr, native, fin, slot, ran>>
     PROVE  SessionInv'
  <2>h. /\ inbox # <<>> /\ ses.step = "idle" /\ ses.failure = "none" /\ ~ses.closing /\ inbox[1].kind = "notice"
        /\ ses.thread
    BY <1>2
  <2>g. /\ ses' = ses /\ calls' = calls /\ inbox' = Tail(inbox) /\ wr' = wr /\ native' = native /\ fin' = fin
        /\ slot' = slot /\ ran' = ran
    BY <1>t, <1>2
  <2>i. /\ Tail(inbox) \in Seq(InFrame) /\ Popped(inbox, inbox') /\ 1 \in 1..Len(inbox)
        /\ \A m \in 1..Len(inbox') : inbox'[m].kind \in AboutCall => inbox'[m].call \in Calls
        /\ \A k, d : In(inbox, k, d) <=> In(inbox', k, d) \/ (inbox[1].kind = k /\ inbox[1].call = d)
    <3>1. Tail(inbox) \in Seq(InFrame) /\ Popped(inbox, Tail(inbox))
      BY <1>t, <2>h, PoppedSeq
    <3>2. Popped(inbox, inbox')
      BY <3>1, <2>g
    <3>. QED  BY <3>1, <3>2, <1>a, InPopped DEF Popped, SessionTypeOK
  <2>1. SessionTypeOK'
    <3>inbox. inbox' \in Seq(InFrame)
      BY <2>i, <2>g
    <3>. QED  BY <1>t, <2>g, <3>inbox, <2>i, <1>a DEF SessionTypeOK
  <2>2. QueueInv'
    BY <1>t, <2>h, <2>g, <2>i, <1>b, <1>c DEF QueueInv, QueueOK
  <2>3. HandlerInv'
    BY <1>t, <2>h, <2>g, <2>i, <1>c DEF HandlerInv
  <2>4. EndInv'
    BY <1>t, <2>h, <2>g, <2>i, <1>b, <1>c, <1>d DEF EndInv, BeforeSession, AllJoined
  <2>5. HonestInv'
    <3> SUFFICES ASSUME native.honest, ses.failure = "none", ~ses.closing
                 PROVE  RpcInv' /\ TurnInv' /\ PipeInv' /\ \A d \in Calls : CallInv(d)'
      BY <2>g, <1>e DEF HonestInv
    <3>0. RpcInv /\ TurnInv /\ PipeInv /\ \A d \in Calls : CallInv(d)
      BY <1>e DEF HonestInv
    <3>f. FrameOK(1)
      BY <3>0, <2>i DEF PipeInv
    <3>w. \A d \in Calls : ~Writing(d) /\ ~Writing(d)'
      BY <2>h, <2>g DEF Writing
    <3>n. \A m \in 1..Len(inbox') : m + 1 \in 1..Len(inbox) /\ inbox'[m] = inbox[m + 1] /\ ~(m + 1 < 1)
      BY <2>i DEF Popped
    <3>1. RpcInv'
      <4>1. In(inbox', "reply", None) <=> In(inbox, "reply", None)
        BY <2>i, <2>h
      <4>. QED  BY <3>0, <4>1, <2>g DEF RpcInv
    <3>2. TurnInv'
      <4>1. \A k, d : k # "notice" => (In(inbox', k, d) <=> In(inbox, k, d))
        BY <2>i, <2>h
      <4>2. ses.completed => \A m \in 1..Len(inbox') : inbox'[m].kind = "notice"
        BY <3>0, <3>n DEF TurnInv
      <4>. QED  BY <3>0, <4>1, <4>2, <2>g, <2>h DEF TurnInv
    <3>3. PipeInv'
      <4>1. inbox[1].kind # "reply" /\ ses'.thread = ses.thread
        BY <2>h, <2>g
      <4>. QED  BY <3>0, <4>1, <2>g, <2>i, PipePopped
    <3>4. ASSUME NEW d \in Calls PROVE CallInv(d)'
      <4>1. CallInv(d)
        BY <3>0
      <4>2. \A k : k \in AboutCall => (In(inbox', k, d) <=> In(inbox, k, d))
        BY <2>i, <2>h DEF AboutCall
      <4>. QED  BY <4>1, <4>2, <3>w, <2>g DEF CallInv, AboutCall
    <3>. QED  BY <3>1, <3>2, <3>3, <3>4
  <2>. QED  BY <2>1, <2>2, <2>3, <2>4, <2>5 DEF SessionInv
<1>3. ASSUME inbox # <<>>,
             ses.step = "idle",
             ses.failure = "none",
             ~ses.closing,
             inbox[1].kind = "turnStarted",
             ses.turn,
             inbox' = Tail(inbox),
             UNCHANGED <<ses, calls, wr, native, fin, slot, ran>>
     PROVE  SessionInv'
  <2>h. /\ inbox # <<>> /\ ses.step = "idle" /\ ses.failure = "none" /\ ~ses.closing /\ inbox[1].kind = "turnStarted"
        /\ ses.turn
    BY <1>3
  <2>g. /\ ses' = ses /\ calls' = calls /\ inbox' = Tail(inbox) /\ wr' = wr /\ native' = native /\ fin' = fin
        /\ slot' = slot /\ ran' = ran
    BY <1>t, <1>3
  <2>i. /\ Tail(inbox) \in Seq(InFrame) /\ Popped(inbox, inbox') /\ 1 \in 1..Len(inbox)
        /\ \A m \in 1..Len(inbox') : inbox'[m].kind \in AboutCall => inbox'[m].call \in Calls
        /\ \A k, d : In(inbox, k, d) <=> In(inbox', k, d) \/ (inbox[1].kind = k /\ inbox[1].call = d)
    <3>1. Tail(inbox) \in Seq(InFrame) /\ Popped(inbox, Tail(inbox))
      BY <1>t, <2>h, PoppedSeq
    <3>2. Popped(inbox, inbox')
      BY <3>1, <2>g
    <3>. QED  BY <3>1, <3>2, <1>a, InPopped DEF Popped, SessionTypeOK
  <2>1. SessionTypeOK'
    <3>inbox. inbox' \in Seq(InFrame)
      BY <2>i, <2>g
    <3>. QED  BY <1>t, <2>g, <3>inbox, <2>i, <1>a DEF SessionTypeOK
  <2>2. QueueInv'
    BY <1>t, <2>h, <2>g, <2>i, <1>b, <1>c DEF QueueInv, QueueOK
  <2>3. HandlerInv'
    BY <1>t, <2>h, <2>g, <2>i, <1>c DEF HandlerInv
  <2>4. EndInv'
    BY <1>t, <2>h, <2>g, <2>i, <1>b, <1>c, <1>d DEF EndInv, BeforeSession, AllJoined
  <2>5. HonestInv'
    <3> SUFFICES ASSUME native.honest, ses.failure = "none", ~ses.closing
                 PROVE  RpcInv' /\ TurnInv' /\ PipeInv' /\ \A d \in Calls : CallInv(d)'
      BY <2>g, <1>e DEF HonestInv
    <3>0. RpcInv /\ TurnInv /\ PipeInv /\ \A d \in Calls : CallInv(d)
      BY <1>e DEF HonestInv
    <3>f. FrameOK(1)
      BY <3>0, <2>i DEF PipeInv
    <3>w. \A d \in Calls : ~Writing(d) /\ ~Writing(d)'
      BY <2>h, <2>g DEF Writing
    <3>u. ~In(inbox', inbox[1].kind, inbox[1].call)
      BY <3>0, <2>h, <2>i, <1>t, NotTwice
    <3>n. \A m \in 1..Len(inbox') : m + 1 \in 1..Len(inbox) /\ inbox'[m] = inbox[m + 1] /\ ~(m + 1 < 1)
      BY <2>i DEF Popped
    <3>b. native.begun /\ ~In(inbox', "turnStarted", None)
      BY <3>f, <3>u, <2>h DEF FrameOK, AboutCall
    <3>s. \A m \in 1..Len(inbox') : inbox'[m].kind # "turnStarted"
      <4> SUFFICES ASSUME NEW m \in 1..Len(inbox'), inbox'[m].kind = "turnStarted" PROVE FALSE
        OBVIOUS
      <4>1. FrameOK(m + 1) /\ inbox'[m] = inbox[m + 1]
        BY <3>n, <3>0 DEF PipeInv
      <4>2. inbox'[m].call = None
        BY <4>1 DEF FrameOK, AboutCall
      <4>. QED  BY <4>2, <3>b DEF In
    <3>1. RpcInv'
      <4>1. In(inbox', "reply", None) <=> In(inbox, "reply", None)
        BY <2>i, <2>h
      <4>. QED  BY <3>0, <4>1, <2>g DEF RpcInv
    <3>2. TurnInv'
      <4>1. \A k, d : k # "turnStarted" => (In(inbox', k, d) <=> In(inbox, k, d))
        BY <2>i, <2>h
      <4>2. ses.completed => \A m \in 1..Len(inbox') : inbox'[m].kind = "notice"
        BY <3>0, <3>n DEF TurnInv
      <4>. QED  BY <3>0, <3>b, <4>1, <4>2, <2>g, <2>h DEF TurnInv
    <3>3. PipeInv'
      <4>1. inbox[1].kind # "reply" /\ ses'.thread = ses.thread
        BY <2>h, <2>g
      <4>. QED  BY <3>0, <3>s, <4>1, <2>g, <2>i, PipePopped
    <3>4. ASSUME NEW d \in Calls PROVE CallInv(d)'
      <4>1. CallInv(d)
        BY <3>0
      <4>2. \A k : k \in AboutCall => (In(inbox', k, d) <=> In(inbox, k, d))
        BY <2>i, <2>h DEF AboutCall
      <4>. QED  BY <4>1, <4>2, <3>w, <2>g DEF CallInv, AboutCall
    <3>. QED  BY <3>1, <3>2, <3>3, <3>4
  <2>. QED  BY <2>1, <2>2, <2>3, <2>4, <2>5 DEF SessionInv
<1>4. ASSUME inbox # <<>>,
             ses.step = "idle",
             ses.failure = "none",
             ~ses.closing,
             inbox[1].kind = "turnStarted",
             ~ses.turn,
             ses' = [ses EXCEPT !.early = ses.early + 1],
             inbox' = Tail(inbox),
             UNCHANGED <<calls, wr, native, fin, slot, ran>>
     PROVE  SessionInv'
  <2>h. /\ inbox # <<>> /\ ses.step = "idle" /\ ses.failure = "none" /\ ~ses.closing /\ inbox[1].kind = "turnStarted"
        /\ ~ses.turn
    BY <1>4
  <2>g. /\ ses'.at = ses.at /\ ses'.pending = ses.pending /\ ses'.thread = ses.thread /\ ses'.turn = ses.turn
        /\ ses'.early = ses.early + 1 /\ ses'.out = ses.out /\ ses'.completed = ses.completed
        /\ ses'.failure = ses.failure /\ ses'.closing = ses.closing /\ ses'.handler = ses.handler /\ ses'.step = ses.step
        /\ calls' = calls /\ inbox' = Tail(inbox) /\ wr' = wr /\ native' = native /\ fin' = fin /\ slot' = slot
        /\ ran' = ran
    BY <1>t, <1>4 DEF SesState
  <2>i. /\ Tail(inbox) \in Seq(InFrame) /\ Popped(inbox, inbox') /\ 1 \in 1..Len(inbox)
        /\ \A m \in 1..Len(inbox') : inbox'[m].kind \in AboutCall => inbox'[m].call \in Calls
        /\ \A k, d : In(inbox, k, d) <=> In(inbox', k, d) \/ (inbox[1].kind = k /\ inbox[1].call = d)
    <3>1. Tail(inbox) \in Seq(InFrame) /\ Popped(inbox, Tail(inbox))
      BY <1>t, <2>h, PoppedSeq
    <3>2. Popped(inbox, inbox')
      BY <3>1, <2>g
    <3>. QED  BY <3>1, <3>2, <1>a, InPopped DEF Popped, SessionTypeOK
  <2>1. SessionTypeOK'
    <3>ses. ses' \in SesState
      <4>1. ses.early + 1 \in Nat
        BY <1>t DEF SesState
      <4>. QED  BY <1>t, <1>4, <4>1 DEF SesState
    <3>inbox. inbox' \in Seq(InFrame)
      BY <2>i, <2>g
    <3>. QED  BY <1>t, <2>g, <3>ses, <3>inbox, <2>i, <1>a DEF SessionTypeOK
  <2>2. QueueInv'
    BY <1>t, <2>h, <2>g, <2>i, <1>b, <1>c DEF QueueInv, QueueOK
  <2>3. HandlerInv'
    BY <1>t, <2>h, <2>g, <2>i, <1>c DEF HandlerInv
  <2>4. EndInv'
    BY <1>t, <2>h, <2>g, <2>i, <1>b, <1>c, <1>d DEF EndInv, BeforeSession, AllJoined
  <2>5. HonestInv'
    <3> SUFFICES ASSUME native.honest, ses.failure = "none", ~ses.closing
                 PROVE  RpcInv' /\ TurnInv' /\ PipeInv' /\ \A d \in Calls : CallInv(d)'
      BY <2>g, <1>e DEF HonestInv
    <3>0. RpcInv /\ TurnInv /\ PipeInv /\ \A d \in Calls : CallInv(d)
      BY <1>e DEF HonestInv
    <3>f. FrameOK(1)
      BY <3>0, <2>i DEF PipeInv
    <3>w. \A d \in Calls : ~Writing(d) /\ ~Writing(d)'
      BY <2>h, <2>g DEF Writing
    <3>u. ~In(inbox', inbox[1].kind, inbox[1].call)
      BY <3>0, <2>h, <2>i, <1>t, NotTwice
    <3>n. \A m \in 1..Len(inbox') : m + 1 \in 1..Len(inbox) /\ inbox'[m] = inbox[m + 1] /\ ~(m + 1 < 1)
      BY <2>i DEF Popped
    <3>b. native.begun /\ ~In(inbox', "turnStarted", None)
      BY <3>f, <3>u, <2>h DEF FrameOK, AboutCall
    <3>s. \A m \in 1..Len(inbox') : inbox'[m].kind # "turnStarted"
      <4> SUFFICES ASSUME NEW m \in 1..Len(inbox'), inbox'[m].kind = "turnStarted" PROVE FALSE
        OBVIOUS
      <4>1. FrameOK(m + 1) /\ inbox'[m] = inbox[m + 1]
        BY <3>n, <3>0 DEF PipeInv
      <4>2. inbox'[m].call = None
        BY <4>1 DEF FrameOK, AboutCall
      <4>. QED  BY <4>2, <3>b DEF In
    <3>1. RpcInv'
      <4>1. In(inbox', "reply", None) <=> In(inbox, "reply", None)
        BY <2>i, <2>h
      <4>. QED  BY <3>0, <4>1, <2>g DEF RpcInv
    <3>2. TurnInv'
      <4>1. \A k, d : k # "turnStarted" => (In(inbox', k, d) <=> In(inbox, k, d))
        BY <2>i, <2>h
      <4>2. ses.completed => \A m \in 1..Len(inbox') : inbox'[m].kind = "notice"
        BY <3>0, <3>n DEF TurnInv
      <4>. QED  BY <3>0, <3>b, <4>1, <4>2, <2>g, <2>h DEF TurnInv
    <3>3. PipeInv'
      <4>1. inbox[1].kind # "reply" /\ ses'.thread = ses.thread
        BY <2>h, <2>g
      <4>. QED  BY <3>0, <3>s, <4>1, <2>g, <2>i, PipePopped
    <3>4. ASSUME NEW d \in Calls PROVE CallInv(d)'
      <4>1. CallInv(d)
        BY <3>0
      <4>2. \A k : k \in AboutCall => (In(inbox', k, d) <=> In(inbox, k, d))
        BY <2>i, <2>h DEF AboutCall
      <4>. QED  BY <4>1, <4>2, <3>w, <2>g DEF CallInv, AboutCall
    <3>. QED  BY <3>1, <3>2, <3>3, <3>4
  <2>. QED  BY <2>1, <2>2, <2>3, <2>4, <2>5 DEF SessionInv
<1>5. ASSUME NEW c \in Calls,
             inbox # <<>>,
             ses.step = "idle",
             ses.failure = "none",
             ~ses.closing,
             inbox[1].kind = "started",
             c = inbox[1].call,
             ses.turn,
             ~ses.completed,
             ~ses.out,
             calls[c] = "unknown",
             calls' = [calls EXCEPT ![c] = "started"],
             inbox' = Tail(inbox),
             UNCHANGED <<ses, wr, native, fin, slot, ran>>
     PROVE  SessionInv'
  <2>h. /\ c \in Calls /\ inbox # <<>> /\ ses.step = "idle" /\ ses.failure = "none" /\ ~ses.closing
        /\ inbox[1].kind = "started" /\ c = inbox[1].call /\ ses.turn /\ ~ses.completed /\ ~ses.out
        /\ calls[c] = "unknown"
    BY <1>5
  <2>g. /\ ses' = ses /\ (\A d \in Calls : calls'[d] = IF d = c THEN "started" ELSE calls[d]) /\ inbox' = Tail(inbox)
        /\ wr' = wr /\ native' = native /\ fin' = fin /\ slot' = slot /\ ran' = ran
    BY <1>t, <1>5
  <2>i. /\ Tail(inbox) \in Seq(InFrame) /\ Popped(inbox, inbox') /\ 1 \in 1..Len(inbox)
        /\ \A m \in 1..Len(inbox') : inbox'[m].kind \in AboutCall => inbox'[m].call \in Calls
        /\ \A k, d : In(inbox, k, d) <=> In(inbox', k, d) \/ (inbox[1].kind = k /\ inbox[1].call = d)
    <3>1. Tail(inbox) \in Seq(InFrame) /\ Popped(inbox, Tail(inbox))
      BY <1>t, <2>h, PoppedSeq
    <3>2. Popped(inbox, inbox')
      BY <3>1, <2>g
    <3>. QED  BY <3>1, <3>2, <1>a, InPopped DEF Popped, SessionTypeOK
  <2>1. SessionTypeOK'
    <3>calls. calls' \in [Calls -> CallStages]
      BY <1>t, <1>5 DEF CallStages
    <3>inbox. inbox' \in Seq(InFrame)
      BY <2>i, <2>g
    <3>. QED  BY <1>t, <2>g, <3>calls, <3>inbox, <2>i, <1>a DEF SessionTypeOK
  <2>2. QueueInv'
    BY <1>t, <2>h, <2>g, <2>i, <1>b, <1>c DEF QueueInv, QueueOK
  <2>3. HandlerInv'
    BY <1>t, <2>h, <2>g, <2>i, <1>c DEF HandlerInv
  <2>4. EndInv'
    BY <1>t, <2>h, <2>g, <2>i, <1>b, <1>c, <1>d DEF EndInv, BeforeSession, AllJoined
  <2>5. HonestInv'
    <3> SUFFICES ASSUME native.honest, ses.failure = "none", ~ses.closing
                 PROVE  RpcInv' /\ TurnInv' /\ PipeInv' /\ \A d \in Calls : CallInv(d)'
      BY <2>g, <1>e DEF HonestInv
    <3>0. RpcInv /\ TurnInv /\ PipeInv /\ \A d \in Calls : CallInv(d)
      BY <1>e DEF HonestInv
    <3>f. FrameOK(1)
      BY <3>0, <2>i DEF PipeInv
    <3>w. \A d \in Calls : ~Writing(d) /\ ~Writing(d)'
      BY <2>h, <2>g DEF Writing
    <3>u. ~In(inbox', inbox[1].kind, inbox[1].call)
      BY <3>0, <2>h, <2>i, <1>t, NotTwice
    <3>n. \A m \in 1..Len(inbox') : m + 1 \in 1..Len(inbox) /\ inbox'[m] = inbox[m + 1] /\ ~(m + 1 < 1)
      BY <2>i DEF Popped
    <3>c. CallInv(c) /\ native.tools[c] \in ToolStages /\ In(inbox, "started", c) /\ ~In(inbox', "started", c)
      BY <3>0, <3>u, <2>i, <2>h, <1>t DEF NatState
    <3>1. RpcInv'
      <4>1. In(inbox', "reply", None) <=> In(inbox, "reply", None)
        BY <2>i, <2>h
      <4>. QED  BY <3>0, <4>1, <2>g DEF RpcInv
    <3>2. TurnInv'
      <4>1. \A k, d : k # "started" => (In(inbox', k, d) <=> In(inbox, k, d))
        BY <2>i, <2>h
      <4>2. ses.completed => \A m \in 1..Len(inbox') : inbox'[m].kind = "notice"
        BY <3>0, <3>n DEF TurnInv
      <4>. QED  BY <3>0, <4>1, <4>2, <2>g, <2>h DEF TurnInv
    <3>3. PipeInv'
      <4>1. inbox[1].kind # "reply" /\ ses'.thread = ses.thread
        BY <2>h, <2>g
      <4>. QED  BY <3>0, <4>1, <2>g, <2>i, PipePopped
    <3>4. ASSUME NEW d \in Calls PROVE CallInv(d)'
      <4>1. CallInv(d)
        BY <3>0
      <4>2. CASE d = c
        <5>1. calls'[c] = "started" /\ native'.tools[c] = native.tools[c] /\ (\A k : k # "started" => (In(inbox', k, c) <=> In(inbox, k, c)))
          BY <2>i, <2>g, <2>h
        <5>. QED  BY <5>1, <4>2, <3>c, <3>w, <2>h DEF CallInv, ToolStages
      <4>3. CASE d # c
        <5>1. calls'[d] = calls[d] /\ (\A k : In(inbox', k, d) <=> In(inbox, k, d))
          BY <4>3, <2>i, <2>g, <2>h
        <5>. QED  BY <5>1, <4>1, <3>w, <2>g DEF CallInv
      <4>. QED  BY <4>2, <4>3
    <3>. QED  BY <3>1, <3>2, <3>3, <3>4
  <2>. QED  BY <2>1, <2>2, <2>3, <2>4, <2>5 DEF SessionInv
<1>6. ASSUME NEW c \in Calls,
             inbox # <<>>,
             ses.step = "idle",
             ses.failure = "none",
             ~ses.closing,
             inbox[1].kind = "call",
             c = inbox[1].call,
             ses.turn,
             ~ses.completed,
             ~ses.out,
             calls[c] = "started",
             ses' = [ses EXCEPT !.handler = c, !.step = "claimed"],
             calls' = [calls EXCEPT ![c] = "claimed"],
             inbox' = Tail(inbox),
             UNCHANGED <<wr, native, fin, slot, ran>>
     PROVE  SessionInv'
  <2>h. /\ c \in Calls /\ inbox # <<>> /\ ses.step = "idle" /\ ses.failure = "none" /\ ~ses.closing
        /\ inbox[1].kind = "call" /\ c = inbox[1].call /\ ses.turn /\ ~ses.completed /\ ~ses.out /\ calls[c] = "started"
    BY <1>6
  <2>g. /\ ses'.at = ses.at /\ ses'.pending = ses.pending /\ ses'.thread = ses.thread /\ ses'.turn = ses.turn
        /\ ses'.early = ses.early /\ ses'.out = ses.out /\ ses'.completed = ses.completed /\ ses'.failure = ses.failure
        /\ ses'.closing = ses.closing /\ ses'.handler = c /\ ses'.step = "claimed"
        /\ (\A d \in Calls : calls'[d] = IF d = c THEN "claimed" ELSE calls[d]) /\ inbox' = Tail(inbox) /\ wr' = wr
        /\ native' = native /\ fin' = fin /\ slot' = slot /\ ran' = ran
    BY <1>t, <1>6 DEF SesState
  <2>i. /\ Tail(inbox) \in Seq(InFrame) /\ Popped(inbox, inbox') /\ 1 \in 1..Len(inbox)
        /\ \A m \in 1..Len(inbox') : inbox'[m].kind \in AboutCall => inbox'[m].call \in Calls
        /\ \A k, d : In(inbox, k, d) <=> In(inbox', k, d) \/ (inbox[1].kind = k /\ inbox[1].call = d)
    <3>1. Tail(inbox) \in Seq(InFrame) /\ Popped(inbox, Tail(inbox))
      BY <1>t, <2>h, PoppedSeq
    <3>2. Popped(inbox, inbox')
      BY <3>1, <2>g
    <3>. QED  BY <3>1, <3>2, <1>a, InPopped DEF Popped, SessionTypeOK
  <2>1. SessionTypeOK'
    <3>ses. ses' \in SesState
      BY <1>t, <1>6 DEF SesState, MaybeCall
    <3>calls. calls' \in [Calls -> CallStages]
      BY <1>t, <1>6 DEF CallStages
    <3>inbox. inbox' \in Seq(InFrame)
      BY <2>i, <2>g
    <3>. QED  BY <1>t, <2>g, <3>ses, <3>calls, <3>inbox, <2>i, <1>a DEF SessionTypeOK
  <2>2. QueueInv'
    BY <1>t, <2>h, <2>g, <2>i, <1>b, <1>c DEF QueueInv, QueueOK
  <2>3. HandlerInv'
    <3>1. ran[c] = 0 /\ fin.running = None
      BY <1>c, <1>t, <2>h DEF HandlerInv
    <3>2. \A d \in Calls : ran[d] <= 1 /\ (ran[d] = 1 => calls'[d] \in {"claimed", "written", "completed"})
      BY <1>c, <2>g, <2>h DEF HandlerInv
    <3>. QED  BY <3>1, <3>2, <2>g, <2>h DEF HandlerInv
  <2>4. EndInv'
    BY <1>t, <2>h, <2>g, <2>i, <1>b, <1>c, <1>d DEF EndInv, BeforeSession, AllJoined
  <2>5. HonestInv'
    <3> SUFFICES ASSUME native.honest, ses.failure = "none", ~ses.closing
                 PROVE  RpcInv' /\ TurnInv' /\ PipeInv' /\ \A d \in Calls : CallInv(d)'
      BY <2>g, <1>e DEF HonestInv
    <3>0. RpcInv /\ TurnInv /\ PipeInv /\ \A d \in Calls : CallInv(d)
      BY <1>e DEF HonestInv
    <3>f. FrameOK(1)
      BY <3>0, <2>i DEF PipeInv
    <3>w. \A d \in Calls : ~Writing(d) /\ ~Writing(d)'
      BY <2>h, <2>g DEF Writing
    <3>u. ~In(inbox', inbox[1].kind, inbox[1].call)
      BY <3>0, <2>h, <2>i, <1>t, NotTwice
    <3>n. \A m \in 1..Len(inbox') : m + 1 \in 1..Len(inbox) /\ inbox'[m] = inbox[m + 1] /\ ~(m + 1 < 1)
      BY <2>i DEF Popped
    <3>c. CallInv(c) /\ native.tools[c] \in ToolStages /\ In(inbox, "call", c) /\ ~In(inbox', "call", c)
      BY <3>0, <3>u, <2>i, <2>h, <1>t DEF NatState
    <3>s. ~In(inbox, "started", c)
      <4>1. \A m \in 1..Len(inbox) : OrderOK(m, 1) /\ ~(m < 1)
        BY <3>0, <2>i DEF PipeInv
      <4>. QED  BY <4>1, <2>h DEF OrderOK, In
    <3>1. RpcInv'
      <4>1. In(inbox', "reply", None) <=> In(inbox, "reply", None)
        BY <2>i, <2>h
      <4>. QED  BY <3>0, <4>1, <2>g DEF RpcInv
    <3>2. TurnInv'
      <4>1. \A k, d : k # "call" => (In(inbox', k, d) <=> In(inbox, k, d))
        BY <2>i, <2>h
      <4>2. ses.completed => \A m \in 1..Len(inbox') : inbox'[m].kind = "notice"
        BY <3>0, <3>n DEF TurnInv
      <4>. QED  BY <3>0, <4>1, <4>2, <2>g, <2>h DEF TurnInv
    <3>3. PipeInv'
      <4>1. inbox[1].kind # "reply" /\ ses'.thread = ses.thread
        BY <2>h, <2>g
      <4>. QED  BY <3>0, <4>1, <2>g, <2>i, PipePopped
    <3>4. ASSUME NEW d \in Calls PROVE CallInv(d)'
      <4>1. CallInv(d)
        BY <3>0
      <4>2. CASE d = c
        <5>1. calls'[c] = "claimed" /\ native'.tools[c] = native.tools[c] /\ (\A k : k # "call" => (In(inbox', k, c) <=> In(inbox, k, c)))
          BY <2>i, <2>g, <2>h
        <5>. QED  BY <5>1, <4>2, <3>c, <3>w, <2>h, <3>s DEF CallInv, ToolStages
      <4>3. CASE d # c
        <5>1. calls'[d] = calls[d] /\ (\A k : In(inbox', k, d) <=> In(inbox, k, d))
          BY <4>3, <2>i, <2>g, <2>h
        <5>. QED  BY <5>1, <4>1, <3>w, <2>g DEF CallInv
      <4>. QED  BY <4>2, <4>3
    <3>. QED  BY <3>1, <3>2, <3>3, <3>4
  <2>. QED  BY <2>1, <2>2, <2>3, <2>4, <2>5 DEF SessionInv
<1>7. ASSUME NEW c \in Calls,
             inbox # <<>>,
             ses.step = "idle",
             ses.failure = "none",
             ~ses.closing,
             inbox[1].kind = "completed",
             c = inbox[1].call,
             ses.turn,
             ~ses.completed,
             ~ses.out,
             calls[c] = "written",
             calls' = [calls EXCEPT ![c] = "completed"],
             inbox' = Tail(inbox),
             UNCHANGED <<ses, wr, native, fin, slot, ran>>
     PROVE  SessionInv'
  <2>h. /\ c \in Calls /\ inbox # <<>> /\ ses.step = "idle" /\ ses.failure = "none" /\ ~ses.closing
        /\ inbox[1].kind = "completed" /\ c = inbox[1].call /\ ses.turn /\ ~ses.completed /\ ~ses.out
        /\ calls[c] = "written"
    BY <1>7
  <2>g. /\ ses' = ses /\ (\A d \in Calls : calls'[d] = IF d = c THEN "completed" ELSE calls[d]) /\ inbox' = Tail(inbox)
        /\ wr' = wr /\ native' = native /\ fin' = fin /\ slot' = slot /\ ran' = ran
    BY <1>t, <1>7
  <2>i. /\ Tail(inbox) \in Seq(InFrame) /\ Popped(inbox, inbox') /\ 1 \in 1..Len(inbox)
        /\ \A m \in 1..Len(inbox') : inbox'[m].kind \in AboutCall => inbox'[m].call \in Calls
        /\ \A k, d : In(inbox, k, d) <=> In(inbox', k, d) \/ (inbox[1].kind = k /\ inbox[1].call = d)
    <3>1. Tail(inbox) \in Seq(InFrame) /\ Popped(inbox, Tail(inbox))
      BY <1>t, <2>h, PoppedSeq
    <3>2. Popped(inbox, inbox')
      BY <3>1, <2>g
    <3>. QED  BY <3>1, <3>2, <1>a, InPopped DEF Popped, SessionTypeOK
  <2>1. SessionTypeOK'
    <3>calls. calls' \in [Calls -> CallStages]
      BY <1>t, <1>7 DEF CallStages
    <3>inbox. inbox' \in Seq(InFrame)
      BY <2>i, <2>g
    <3>. QED  BY <1>t, <2>g, <3>calls, <3>inbox, <2>i, <1>a DEF SessionTypeOK
  <2>2. QueueInv'
    BY <1>t, <2>h, <2>g, <2>i, <1>b, <1>c DEF QueueInv, QueueOK
  <2>3. HandlerInv'
    BY <1>t, <2>h, <2>g, <2>i, <1>c DEF HandlerInv
  <2>4. EndInv'
    BY <1>t, <2>h, <2>g, <2>i, <1>b, <1>c, <1>d DEF EndInv, BeforeSession, AllJoined
  <2>5. HonestInv'
    <3> SUFFICES ASSUME native.honest, ses.failure = "none", ~ses.closing
                 PROVE  RpcInv' /\ TurnInv' /\ PipeInv' /\ \A d \in Calls : CallInv(d)'
      BY <2>g, <1>e DEF HonestInv
    <3>0. RpcInv /\ TurnInv /\ PipeInv /\ \A d \in Calls : CallInv(d)
      BY <1>e DEF HonestInv
    <3>f. FrameOK(1)
      BY <3>0, <2>i DEF PipeInv
    <3>w. \A d \in Calls : ~Writing(d) /\ ~Writing(d)'
      BY <2>h, <2>g DEF Writing
    <3>u. ~In(inbox', inbox[1].kind, inbox[1].call)
      BY <3>0, <2>h, <2>i, <1>t, NotTwice
    <3>n. \A m \in 1..Len(inbox') : m + 1 \in 1..Len(inbox) /\ inbox'[m] = inbox[m + 1] /\ ~(m + 1 < 1)
      BY <2>i DEF Popped
    <3>c. CallInv(c) /\ native.tools[c] \in ToolStages /\ In(inbox, "completed", c) /\ ~In(inbox', "completed", c)
      BY <3>0, <3>u, <2>i, <2>h, <1>t DEF NatState
    <3>1. RpcInv'
      <4>1. In(inbox', "reply", None) <=> In(inbox, "reply", None)
        BY <2>i, <2>h
      <4>. QED  BY <3>0, <4>1, <2>g DEF RpcInv
    <3>2. TurnInv'
      <4>1. \A k, d : k # "completed" => (In(inbox', k, d) <=> In(inbox, k, d))
        BY <2>i, <2>h
      <4>2. ses.completed => \A m \in 1..Len(inbox') : inbox'[m].kind = "notice"
        BY <3>0, <3>n DEF TurnInv
      <4>. QED  BY <3>0, <4>1, <4>2, <2>g, <2>h DEF TurnInv
    <3>3. PipeInv'
      <4>1. inbox[1].kind # "reply" /\ ses'.thread = ses.thread
        BY <2>h, <2>g
      <4>. QED  BY <3>0, <4>1, <2>g, <2>i, PipePopped
    <3>4. ASSUME NEW d \in Calls PROVE CallInv(d)'
      <4>1. CallInv(d)
        BY <3>0
      <4>2. CASE d = c
        <5>1. calls'[c] = "completed" /\ native'.tools[c] = native.tools[c] /\ (\A k : k # "completed" => (In(inbox', k, c) <=> In(inbox, k, c)))
          BY <2>i, <2>g, <2>h
        <5>. QED  BY <5>1, <4>2, <3>c, <3>w, <2>h DEF CallInv, ToolStages
      <4>3. CASE d # c
        <5>1. calls'[d] = calls[d] /\ (\A k : In(inbox', k, d) <=> In(inbox, k, d))
          BY <4>3, <2>i, <2>g, <2>h
        <5>. QED  BY <5>1, <4>1, <3>w, <2>g DEF CallInv
      <4>. QED  BY <4>2, <4>3
    <3>. QED  BY <3>1, <3>2, <3>3, <3>4
  <2>. QED  BY <2>1, <2>2, <2>3, <2>4, <2>5 DEF SessionInv
<1>8. ASSUME inbox # <<>>,
             ses.step = "idle",
             ses.failure = "none",
             ~ses.closing,
             inbox[1].kind = "final",
             ses.turn,
             ~ses.completed,
             ~ses.out,
             ses' = [ses EXCEPT !.out = TRUE],
             inbox' = Tail(inbox),
             UNCHANGED <<calls, wr, native, fin, slot, ran>>
     PROVE  SessionInv'
  <2>h. /\ inbox # <<>> /\ ses.step = "idle" /\ ses.failure = "none" /\ ~ses.closing /\ inbox[1].kind = "final"
        /\ ses.turn /\ ~ses.completed /\ ~ses.out
    BY <1>8
  <2>g. /\ ses'.at = ses.at /\ ses'.pending = ses.pending /\ ses'.thread = ses.thread /\ ses'.turn = ses.turn
        /\ ses'.early = ses.early /\ ses'.out = TRUE /\ ses'.completed = ses.completed /\ ses'.failure = ses.failure
        /\ ses'.closing = ses.closing /\ ses'.handler = ses.handler /\ ses'.step = ses.step /\ calls' = calls
        /\ inbox' = Tail(inbox) /\ wr' = wr /\ native' = native /\ fin' = fin /\ slot' = slot /\ ran' = ran
    BY <1>t, <1>8 DEF SesState
  <2>i. /\ Tail(inbox) \in Seq(InFrame) /\ Popped(inbox, inbox') /\ 1 \in 1..Len(inbox)
        /\ \A m \in 1..Len(inbox') : inbox'[m].kind \in AboutCall => inbox'[m].call \in Calls
        /\ \A k, d : In(inbox, k, d) <=> In(inbox', k, d) \/ (inbox[1].kind = k /\ inbox[1].call = d)
    <3>1. Tail(inbox) \in Seq(InFrame) /\ Popped(inbox, Tail(inbox))
      BY <1>t, <2>h, PoppedSeq
    <3>2. Popped(inbox, inbox')
      BY <3>1, <2>g
    <3>. QED  BY <3>1, <3>2, <1>a, InPopped DEF Popped, SessionTypeOK
  <2>1. SessionTypeOK'
    <3>ses. ses' \in SesState
      BY <1>t, <1>8 DEF SesState
    <3>inbox. inbox' \in Seq(InFrame)
      BY <2>i, <2>g
    <3>. QED  BY <1>t, <2>g, <3>ses, <3>inbox, <2>i, <1>a DEF SessionTypeOK
  <2>2. QueueInv'
    BY <1>t, <2>h, <2>g, <2>i, <1>b, <1>c DEF QueueInv, QueueOK
  <2>3. HandlerInv'
    BY <1>t, <2>h, <2>g, <2>i, <1>c DEF HandlerInv
  <2>4. EndInv'
    BY <1>t, <2>h, <2>g, <2>i, <1>b, <1>c, <1>d DEF EndInv, BeforeSession, AllJoined
  <2>5. HonestInv'
    <3> SUFFICES ASSUME native.honest, ses.failure = "none", ~ses.closing
                 PROVE  RpcInv' /\ TurnInv' /\ PipeInv' /\ \A d \in Calls : CallInv(d)'
      BY <2>g, <1>e DEF HonestInv
    <3>0. RpcInv /\ TurnInv /\ PipeInv /\ \A d \in Calls : CallInv(d)
      BY <1>e DEF HonestInv
    <3>f. FrameOK(1)
      BY <3>0, <2>i DEF PipeInv
    <3>w. \A d \in Calls : ~Writing(d) /\ ~Writing(d)'
      BY <2>h, <2>g DEF Writing
    <3>u. ~In(inbox', inbox[1].kind, inbox[1].call)
      BY <3>0, <2>h, <2>i, <1>t, NotTwice
    <3>n. \A m \in 1..Len(inbox') : m + 1 \in 1..Len(inbox) /\ inbox'[m] = inbox[m + 1] /\ ~(m + 1 < 1)
      BY <2>i DEF Popped
    <3>l. \A m \in 1..Len(inbox') : OrderOK(m + 1, 1)
      BY <3>0, <3>n, <2>i DEF PipeInv
    <3>c. \A m \in 1..Len(inbox') : FrameOK(m + 1)
      BY <3>0, <3>n DEF PipeInv
    <3>k. inbox[1].call = None
      BY <3>f, <2>h DEF FrameOK, AboutCall
    <3>s. \A m \in 1..Len(inbox') : inbox'[m].kind \notin AboutCall \cup {"final"}
      <4> SUFFICES ASSUME NEW m \in 1..Len(inbox') PROVE inbox'[m].kind \notin AboutCall \cup {"final"}
        OBVIOUS
      <4>1. inbox'[m].kind \notin AboutCall
        BY <3>l, <3>n, <2>h DEF OrderOK
      <4>2. inbox'[m].kind = "final" => inbox'[m].call = None
        BY <3>c, <3>n DEF FrameOK, AboutCall
      <4>. QED  BY <4>1, <4>2, <3>u, <3>k, <2>h DEF In
    <3>1. RpcInv'
      <4>1. In(inbox', "reply", None) <=> In(inbox, "reply", None)
        BY <2>i, <2>h
      <4>. QED  BY <3>0, <4>1, <2>g DEF RpcInv
    <3>2. TurnInv'
      <4>1. \A k, d : k # "final" => (In(inbox', k, d) <=> In(inbox, k, d))
        BY <2>i, <2>h
      <4>2. native.final /\ ses'.out
        BY <3>f, <2>g, <2>h DEF FrameOK
      <4>. QED  BY <3>0, <4>1, <4>2, <2>g, <2>h DEF TurnInv
    <3>3. PipeInv'
      <4>1. inbox[1].kind # "reply" /\ ses'.thread = ses.thread
        BY <2>h, <2>g
      <4>. QED  BY <3>0, <3>s, <4>1, <2>g, <2>i, PipePopped
    <3>4. ASSUME NEW d \in Calls PROVE CallInv(d)'
      <4>1. CallInv(d)
        BY <3>0
      <4>2. \A k : k \in AboutCall => (In(inbox', k, d) <=> In(inbox, k, d))
        BY <2>i, <2>h DEF AboutCall
      <4>. QED  BY <4>1, <4>2, <3>w, <2>g DEF CallInv, AboutCall
    <3>. QED  BY <3>1, <3>2, <3>3, <3>4
  <2>. QED  BY <2>1, <2>2, <2>3, <2>4, <2>5 DEF SessionInv
<1>9. ASSUME inbox # <<>>,
             ses.step = "idle",
             ses.failure = "none",
             ~ses.closing,
             inbox[1].kind = "turnCompleted",
             ses.turn,
             ~ses.completed,
             ses.out,
             \A d \in Calls : calls[d] \in {"unknown", "completed"},
             ses' = [ses EXCEPT !.completed = TRUE],
             inbox' = Tail(inbox),
             UNCHANGED <<calls, wr, native, fin, slot, ran>>
     PROVE  SessionInv'
  <2>h. /\ inbox # <<>> /\ ses.step = "idle" /\ ses.failure = "none" /\ ~ses.closing /\ inbox[1].kind = "turnCompleted"
        /\ ses.turn /\ ~ses.completed /\ ses.out /\ (\A d \in Calls : calls[d] \in {"unknown", "completed"})
    BY <1>9
  <2>g. /\ ses'.at = ses.at /\ ses'.pending = ses.pending /\ ses'.thread = ses.thread /\ ses'.turn = ses.turn
        /\ ses'.early = ses.early /\ ses'.out = ses.out /\ ses'.completed = TRUE /\ ses'.failure = ses.failure
        /\ ses'.closing = ses.closing /\ ses'.handler = ses.handler /\ ses'.step = ses.step /\ calls' = calls
        /\ inbox' = Tail(inbox) /\ wr' = wr /\ native' = native /\ fin' = fin /\ slot' = slot /\ ran' = ran
    BY <1>t, <1>9 DEF SesState
  <2>i. /\ Tail(inbox) \in Seq(InFrame) /\ Popped(inbox, inbox') /\ 1 \in 1..Len(inbox)
        /\ \A m \in 1..Len(inbox') : inbox'[m].kind \in AboutCall => inbox'[m].call \in Calls
        /\ \A k, d : In(inbox, k, d) <=> In(inbox', k, d) \/ (inbox[1].kind = k /\ inbox[1].call = d)
    <3>1. Tail(inbox) \in Seq(InFrame) /\ Popped(inbox, Tail(inbox))
      BY <1>t, <2>h, PoppedSeq
    <3>2. Popped(inbox, inbox')
      BY <3>1, <2>g
    <3>. QED  BY <3>1, <3>2, <1>a, InPopped DEF Popped, SessionTypeOK
  <2>1. SessionTypeOK'
    <3>ses. ses' \in SesState
      BY <1>t, <1>9 DEF SesState
    <3>inbox. inbox' \in Seq(InFrame)
      BY <2>i, <2>g
    <3>. QED  BY <1>t, <2>g, <3>ses, <3>inbox, <2>i, <1>a DEF SessionTypeOK
  <2>2. QueueInv'
    BY <1>t, <2>h, <2>g, <2>i, <1>b, <1>c DEF QueueInv, QueueOK
  <2>3. HandlerInv'
    BY <1>t, <2>h, <2>g, <2>i, <1>c DEF HandlerInv
  <2>4. EndInv'
    BY <1>t, <2>h, <2>g, <2>i, <1>b, <1>c, <1>d DEF EndInv, BeforeSession, AllJoined
  <2>5. HonestInv'
    <3> SUFFICES ASSUME native.honest, ses.failure = "none", ~ses.closing
                 PROVE  RpcInv' /\ TurnInv' /\ PipeInv' /\ \A d \in Calls : CallInv(d)'
      BY <2>g, <1>e DEF HonestInv
    <3>0. RpcInv /\ TurnInv /\ PipeInv /\ \A d \in Calls : CallInv(d)
      BY <1>e DEF HonestInv
    <3>f. FrameOK(1)
      BY <3>0, <2>i DEF PipeInv
    <3>w. \A d \in Calls : ~Writing(d) /\ ~Writing(d)'
      BY <2>h, <2>g DEF Writing
    <3>u. ~In(inbox', inbox[1].kind, inbox[1].call)
      BY <3>0, <2>h, <2>i, <1>t, NotTwice
    <3>n. \A m \in 1..Len(inbox') : m + 1 \in 1..Len(inbox) /\ inbox'[m] = inbox[m + 1] /\ ~(m + 1 < 1)
      BY <2>i DEF Popped
    <3>l. \A m \in 1..Len(inbox') : OrderOK(m + 1, 1)
      BY <3>0, <3>n, <2>i DEF PipeInv
    <3>c. \A m \in 1..Len(inbox') : FrameOK(m + 1)
      BY <3>0, <3>n DEF PipeInv
    <3>k. inbox[1].call = None
      BY <3>f, <2>h DEF FrameOK, AboutCall
    <3>s. \A m \in 1..Len(inbox') : inbox'[m].kind = "notice"
      <4> SUFFICES ASSUME NEW m \in 1..Len(inbox') PROVE inbox'[m].kind = "notice"
        OBVIOUS
      <4>1. inbox'[m].kind \notin AboutCall \cup {"turnStarted", "final"}
        BY <3>l, <3>n, <2>h DEF OrderOK
      <4>2. inbox'[m].kind # "denied" /\ (inbox'[m].kind = "turnCompleted" => inbox'[m].call = None)
        BY <3>c, <3>n DEF FrameOK, AboutCall
      <4>3. inbox'[m].kind # "turnCompleted"
        BY <4>2, <3>u, <3>k, <2>h DEF In
      <4>4. inbox'[m].kind # "reply"
        BY <3>f, <3>n, <2>h DEF FrameOK, Bound
      <4>5. inbox'[m].kind \in Kinds
        <5>1. inbox' \in Seq(InFrame)
          BY <2>i, <2>g
        <5>2. inbox'[m] \in InFrame
          BY <5>1
        <5>. QED  BY <5>2 DEF InFrame
      <4>. QED  BY <4>1, <4>2, <4>3, <4>4, <4>5 DEF Kinds, AboutCall
    <3>1. RpcInv'
      <4>1. In(inbox', "reply", None) <=> In(inbox, "reply", None)
        BY <2>i, <2>h
      <4>. QED  BY <3>0, <4>1, <2>g DEF RpcInv
    <3>2. TurnInv'
      <4>1. \A k, d : k # "turnCompleted" => (In(inbox', k, d) <=> In(inbox, k, d))
        BY <2>i, <2>h
      <4>2. native.ended /\ ses'.completed
        BY <3>f, <2>g, <2>h DEF FrameOK
      <4>. QED  BY <3>0, <3>s, <4>1, <4>2, <2>g, <2>h DEF TurnInv
    <3>3. PipeInv'
      <4>1. inbox[1].kind # "reply" /\ ses'.thread = ses.thread
        BY <2>h, <2>g
      <4>. QED  BY <3>0, <3>s, <4>1, <2>g, <2>i, PipePopped
    <3>4. ASSUME NEW d \in Calls PROVE CallInv(d)'
      <4>1. CallInv(d)
        BY <3>0
      <4>2. \A k : k \in AboutCall => (In(inbox', k, d) <=> In(inbox, k, d))
        BY <2>i, <2>h DEF AboutCall
      <4>. QED  BY <4>1, <4>2, <3>w, <2>g DEF CallInv, AboutCall
    <3>. QED  BY <3>1, <3>2, <3>3, <3>4
  <2>. QED  BY <2>1, <2>2, <2>3, <2>4, <2>5 DEF SessionInv
<1>10. ASSUME inbox # <<>>,
             ses.step = "idle",
             ~Accepted(inbox[1]),
             ses' = [ses EXCEPT !.failure = IF ses.failure = "none" THEN "protocol" ELSE ses.failure],
             inbox' = Tail(inbox),
             UNCHANGED <<calls, wr, native, fin, slot, ran>>
     PROVE  SessionInv'
  <2>h. inbox # <<>> /\ ses.step = "idle" /\ ~Accepted(inbox[1])
    BY <1>10
  <2>g. /\ ses'.at = ses.at /\ ses'.pending = ses.pending /\ ses'.thread = ses.thread /\ ses'.turn = ses.turn
        /\ ses'.early = ses.early /\ ses'.out = ses.out /\ ses'.completed = ses.completed
        /\ (ses'.failure = IF ses.failure = "none" THEN "protocol" ELSE ses.failure) /\ ses'.closing = ses.closing
        /\ ses'.handler = ses.handler /\ ses'.step = ses.step /\ calls' = calls /\ inbox' = Tail(inbox) /\ wr' = wr
        /\ native' = native /\ fin' = fin /\ slot' = slot /\ ran' = ran
    BY <1>t, <1>10 DEF SesState
  <2>i. /\ Tail(inbox) \in Seq(InFrame) /\ Popped(inbox, inbox') /\ 1 \in 1..Len(inbox)
        /\ \A m \in 1..Len(inbox') : inbox'[m].kind \in AboutCall => inbox'[m].call \in Calls
        /\ \A k, d : In(inbox, k, d) <=> In(inbox', k, d) \/ (inbox[1].kind = k /\ inbox[1].call = d)
    <3>1. Tail(inbox) \in Seq(InFrame) /\ Popped(inbox, Tail(inbox))
      BY <1>t, <2>h, PoppedSeq
    <3>2. Popped(inbox, inbox')
      BY <3>1, <2>g
    <3>. QED  BY <3>1, <3>2, <1>a, InPopped DEF Popped, SessionTypeOK
  <2>1. SessionTypeOK'
    <3>ses. ses' \in SesState
      BY <1>t, <1>10 DEF SesState
    <3>inbox. inbox' \in Seq(InFrame)
      BY <2>i, <2>g
    <3>. QED  BY <1>t, <2>g, <3>ses, <3>inbox, <2>i, <1>a DEF SessionTypeOK
  <2>2. QueueInv'
    BY <1>t, <2>h, <2>g, <2>i, <1>b, <1>c DEF QueueInv, QueueOK
  <2>3. HandlerInv'
    BY <1>t, <2>h, <2>g, <2>i, <1>c DEF HandlerInv
  <2>4. EndInv'
    BY <1>t, <2>h, <2>g, <2>i, <1>b, <1>c, <1>d DEF EndInv, BeforeSession, AllJoined
  <2>5. HonestInv'
    <3> SUFFICES ASSUME native.honest PROVE ses'.failure # "protocol"
      BY <2>g, <1>e DEF HonestInv
    <3>1. CASE ses.failure # "none"
      BY <3>1, <2>g, <1>e DEF HonestInv
    <3>2. CASE ses.failure = "none"
      <4>1. ~ses.closing /\ ses.step = "idle"
        BY <3>2, <2>h, <1>d DEF EndInv
      <4>2. RpcInv /\ TurnInv /\ PipeInv /\ \A d \in Calls : CallInv(d)
        BY <4>1, <3>2, <1>e DEF HonestInv
      <4>. QED  BY <3>2, <4>1, <4>2, <2>h, <1>a, HonestAccepted
    <3>. QED  BY <3>1, <3>2
  <2>. QED  BY <2>1, <2>2, <2>3, <2>4, <2>5 DEF SessionInv
<1>11. inbox # <<>> => Head(inbox) = inbox[1] /\ inbox[1] \in InFrame /\ (inbox[1].kind \in AboutCall => inbox[1].call \in Calls)
  <2>1. inbox # <<>> => Popped(inbox, Tail(inbox)) /\ inbox[1] \in InFrame
    BY <1>t, PoppedSeq
  <2>. QED  BY <2>1, <1>a DEF Popped, SessionTypeOK
<1>12. ASSUME Accepted(inbox[1]), inbox # <<>>, ses.step = "idle", inbox' = Tail(inbox), Handle(inbox[1]),
              UNCHANGED <<wr, native, fin, slot, ran>>
       PROVE  SessionInv'
  <2>1. ses.failure = "none" /\ ~ses.closing
    BY <1>12 DEF Accepted, Active
  <2>2. inbox[1].kind \in Kinds /\ (inbox[1].kind \in AboutCall => inbox[1].call \in Calls)
    BY <1>11, <1>12 DEF InFrame
  <2>3. CASE inbox[1].kind = "reply"
    <3>1. ses.pending
      BY <2>3, <1>12 DEF Accepted, ReplyOK
    <3>2. ses' = [ses EXCEPT !.pending = FALSE, !.thread = ses.thread \/ Rpcs[ses.at] = "thread",
                                !.turn = ses.turn \/ Rpcs[ses.at] = "turn"] /\ UNCHANGED <<calls>>
      BY <2>3, <1>12 DEF Handle, Stage, Reply
    <3>. QED  BY <1>1, <1>12, <2>1, <2>3, <3>1, <3>2
  <2>4. CASE inbox[1].kind = "notice"
    <3>1. ses.thread
      BY <2>4, <1>12 DEF Accepted, ReplyOK
    <3>2. UNCHANGED <<calls, ses>>
      BY <2>4, <1>12 DEF Handle, Stage
    <3>. QED  BY <1>2, <1>12, <2>1, <2>4, <3>1, <3>2
  <2>6. CASE inbox[1].kind = "started"
    <3>1. ses.turn /\ ~ses.completed /\ ~ses.out /\ calls[inbox[1].call] = "unknown"
      BY <2>6, <1>12 DEF Accepted, StartedOK
    <3>2. calls' = [calls EXCEPT ![inbox[1].call] = "started"] /\ UNCHANGED <<ses>>
      BY <2>6, <1>12 DEF Handle, Stage
    <3>. QED  BY <1>5, <1>12, <2>1, <2>2, <2>6, <3>1, <3>2 DEF AboutCall
  <2>7. CASE inbox[1].kind = "call"
    <3>1. ses.turn /\ ~ses.completed /\ ~ses.out /\ calls[inbox[1].call] = "started"
      BY <2>7, <1>12 DEF Accepted, ClaimOK
    <3>2. calls' = [calls EXCEPT ![inbox[1].call] = "claimed"]
          /\ ses' = [ses EXCEPT !.handler = inbox[1].call, !.step = "claimed"]
      BY <2>7, <1>12 DEF Handle, Stage
    <3>. QED  BY <1>6, <1>12, <2>1, <2>2, <2>7, <3>1, <3>2 DEF AboutCall
  <2>8. CASE inbox[1].kind = "completed"
    <3>1. ses.turn /\ ~ses.completed /\ ~ses.out /\ calls[inbox[1].call] = "written"
      BY <2>8, <1>12 DEF Accepted, CompletedOK
    <3>2. calls' = [calls EXCEPT ![inbox[1].call] = "completed"] /\ UNCHANGED <<ses>>
      BY <2>8, <1>12 DEF Handle, Stage
    <3>. QED  BY <1>7, <1>12, <2>1, <2>2, <2>8, <3>1, <3>2 DEF AboutCall
  <2>9. CASE inbox[1].kind = "final"
    <3>1. ses.turn /\ ~ses.completed /\ ~ses.out
      BY <2>9, <1>12 DEF Accepted, FinalOK
    <3>2. ses' = [ses EXCEPT !.out = TRUE] /\ UNCHANGED <<calls>>
      BY <2>9, <1>12 DEF Handle, Stage
    <3>. QED  BY <1>8, <1>12, <2>1, <2>9, <3>1, <3>2
  <2>10. CASE inbox[1].kind = "turnCompleted"
    <3>1. ses.turn /\ ~ses.completed /\ ses.out /\ \A d \in Calls : calls[d] \in {"unknown", "completed"}
      BY <2>10, <1>12 DEF Accepted, FinishOK
    <3>2. ses' = [ses EXCEPT !.completed = TRUE] /\ UNCHANGED <<calls>>
      BY <2>10, <1>12 DEF Handle, Stage
    <3>. QED  BY <1>9, <1>12, <2>1, <2>10, <3>1, <3>2
  <2>5. CASE inbox[1].kind = "turnStarted"
    <3>1. UNCHANGED calls /\ ses' = [ses EXCEPT !.early = IF ses.turn THEN ses.early ELSE ses.early + 1]
      BY <2>5, <1>12 DEF Handle, Stage
    <3>2. CASE ses.turn
      <4>1. UNCHANGED ses
        BY <3>1, <3>2, <1>t DEF SesState
      <4>. QED  BY <1>3, <1>12, <2>1, <2>5, <3>1, <3>2, <4>1
    <3>3. CASE ~ses.turn
      BY <1>4, <1>12, <2>1, <2>5, <3>1, <3>3
    <3>. QED  BY <3>2, <3>3
  <2>11. CASE inbox[1].kind = "denied"
    BY <2>11, <1>12 DEF Accepted
  <2>. QED  BY <2>2, <2>3, <2>4, <2>5, <2>6, <2>7, <2>8, <2>9, <2>10, <2>11 DEF Kinds
<1>13. CASE inbox # <<>> /\ Accepted(inbox[1])
  BY <1>11, <1>12, <1>13 DEF Message
<1>14. CASE inbox # <<>> /\ ~Accepted(inbox[1])
  BY <1>10, <1>11, <1>14 DEF Message, Failed
<1>. QED  BY <1>13, <1>14 DEF Message

LEMMA NativeSendsKeeps ==
  ASSUME SessionInv, NativeSends
  PROVE  SessionInv'
<1>a. SessionTypeOK
  BY DEF SessionInv
<1>b. QueueInv
  BY DEF SessionInv
<1>c. HandlerInv
  BY DEF SessionInv
<1>d. EndInv
  BY DEF SessionInv
<1>e. HonestInv
  BY DEF SessionInv
<1>t. /\ ses \in SesState /\ calls \in [Calls -> CallStages] /\ inbox \in Seq(InFrame) /\ wr \in WriteState
      /\ native \in NatState /\ fin \in FinState /\ slot \in SlotState /\ ran \in [Calls -> Nat]
  BY <1>a DEF SessionTypeOK
<1>1. ASSUME native.up,
             ses.failure = "none",
             ~ses.closing,
             native.answered < native.asked,
             inbox' = Append(inbox, Frame("reply", None)),
             native' = [native EXCEPT !.answered = native.answered + 1],
             UNCHANGED <<ses, calls, wr, fin, slot, ran>>
     PROVE  SessionInv'
  <2>h. native.up /\ ses.failure = "none" /\ ~ses.closing /\ native.answered < native.asked
    BY <1>1
  <2>g. /\ ses' = ses /\ calls' = calls /\ inbox' = Append(inbox, Frame("reply", None)) /\ wr' = wr
        /\ native'.up = native.up /\ native'.honest = native.honest /\ native'.asked = native.asked
        /\ native'.answered = native.answered + 1 /\ native'.begun = native.begun /\ native'.final = native.final
        /\ native'.ended = native.ended /\ native'.tools = native.tools /\ native'.wild = native.wild /\ fin' = fin
        /\ slot' = slot /\ ran' = ran
    BY <1>t, <1>1 DEF NatState
  <2>i. /\ Append(inbox, Frame("reply", None)) \in Seq(InFrame) /\ Pushed(inbox, inbox', Frame("reply", None))
        /\ Frame("reply", None).kind = "reply" /\ Frame("reply", None).call = None
        /\ \A m \in 1..Len(inbox') : inbox'[m].kind \in AboutCall => inbox'[m].call \in Calls
        /\ \A q, d : In(inbox', q, d) <=> In(inbox, q, d) \/ (q = "reply" /\ d = None)
    <3>1. Frame("reply", None) \in InFrame /\ Frame("reply", None).kind = "reply" /\ Frame("reply", None).call = None
      BY DEF Frame, InFrame, Kinds, MaybeCall
    <3>2. Append(inbox, Frame("reply", None)) \in Seq(InFrame) /\ Pushed(inbox, Append(inbox, Frame("reply", None)), Frame("reply", None))
      BY <3>1, <1>t, PushedSeq
    <3>3. Pushed(inbox, inbox', Frame("reply", None))
      BY <3>2, <2>g
    <3>4. \A q, d : In(inbox', q, d) <=> In(inbox, q, d) \/ (q = "reply" /\ d = None)
      BY <3>1, <3>3, InPushed
    <3>5. \A m \in 1..Len(inbox') : inbox'[m].kind \in AboutCall => inbox'[m].call \in Calls
      BY <3>1, <3>3, <1>a DEF Pushed, SessionTypeOK, AboutCall
    <3>. QED  BY <3>1, <3>2, <3>3, <3>4, <3>5
  <2>1. SessionTypeOK'
    <3>inbox. inbox' \in Seq(InFrame)
      BY <2>i, <2>g
    <3>native. native' \in NatState
      <4>1. native.answered + 1 \in Nat
        BY <1>t DEF NatState
      <4>. QED  BY <1>t, <1>1, <4>1 DEF NatState
    <3>. QED  BY <1>t, <2>g, <3>inbox, <3>native, <2>i, <1>a DEF SessionTypeOK
  <2>2. QueueInv'
    BY <1>t, <2>h, <2>g, <2>i, <1>b, <1>c DEF QueueInv, QueueOK
  <2>3. HandlerInv'
    BY <1>t, <2>h, <2>g, <2>i, <1>c DEF HandlerInv
  <2>4. EndInv'
    BY <1>t, <2>h, <2>g, <2>i, <1>b, <1>c, <1>d DEF EndInv, BeforeSession, AllJoined
  <2>5. HonestInv'
    <3> SUFFICES ASSUME native.honest, ses.failure = "none", ~ses.closing
                 PROVE  RpcInv' /\ TurnInv' /\ PipeInv' /\ \A d \in Calls : CallInv(d)'
      BY <2>g, <1>e DEF HonestInv
    <3>0. RpcInv /\ TurnInv /\ PipeInv /\ \A d \in Calls : CallInv(d)
      BY <1>e DEF HonestInv
    <3>d. \A m \in 1..Len(inbox) : FrameOK(m)
      BY <3>0 DEF PipeInv
    <3>c. /\ ses.pending /\ ~In(inbox, "reply", None) /\ native.asked = ses.at /\ native.answered = ses.at - 1 /\ ses.at \in 1..5
          /\ native.answered # 5 /\ ~native.final /\ ~native.ended /\ ~ses.completed
      <4>1. native.asked \in Nat /\ native.answered \in Nat /\ ses.at \in 0..5
        BY <1>t DEF NatState, SesState
      <4>2. native.answered = ses.at - 1 /\ native.asked = ses.at /\ ses.at \in 1..5 /\ ses.pending /\ ~In(inbox, "reply", None)
        BY <4>1, <3>0, <2>h DEF RpcInv
      <4>3. native.answered # 5
        BY <4>2
      <4>. QED  BY <4>2, <4>3, <3>0 DEF TurnInv
    <3>f. ASSUME NEW m \in 1..Len(inbox'), m = Len(inbox') PROVE FrameOK(m)'
      <4>1. inbox'[m].kind = "reply" /\ inbox'[m].call = None
        BY <3>f, <2>i DEF Pushed
      <4>. QED  BY <4>1 DEF FrameOK, AboutCall
    <3>w. \A d \in Calls : Writing(d)' <=> Writing(d)
      BY <2>g DEF Writing
    <3>k. native.asked \in Nat /\ native.answered \in Nat /\ ses.at \in 0..5
      BY <1>t DEF NatState, SesState
    <3>1. RpcInv'
      <4>1. In(inbox', "reply", None) /\ native'.answered = ses.at
        BY <2>i, <3>c, <2>g
      <4>. QED  BY <3>0, <3>c, <4>1, <2>g DEF RpcInv
    <3>2. TurnInv'
      <4>1. \A q, d : q # "reply" => (In(inbox', q, d) <=> In(inbox, q, d))
        BY <2>i
      <4>2. native.begun => native.asked = 5
        BY <3>0 DEF TurnInv
      <4>3. \A d \in Calls : native.tools[d] = "unknown"
        BY <3>0, <3>c DEF TurnInv
      <4>. QED  BY <3>0, <3>c, <4>1, <4>2, <4>3, <2>g DEF TurnInv
    <3>3. PipeInv'
      <4> DEFINE x == Frame("reply", None)
      <4>1. ses' = ses /\ native'.asked = native.asked /\ native'.answered \in Nat /\ native'.answered >= native.answered
        BY <2>g, <3>k
      <4>2. (native.begun => native'.begun) /\ (native.final => native'.final) /\ (native.ended => native'.ended)
        BY <2>g
      <4>3. (native'.answered = native.answered /\ x.kind # "reply") \/ native.answered # 5
        BY <2>g, <2>i, <3>k, <3>c
      <4>4. x.kind # "notice" => ~In(inbox, x.kind, x.call)
        BY <2>i, <3>c
      <4>5. x.kind = "started" => ~In(inbox, "call", x.call)
        BY <2>i, <3>c
      <4>6. x.kind \in AboutCall => \A m \in 1..Len(inbox) : inbox[m].kind # "final"
        BY <2>i, <3>c DEF AboutCall
      <4>7. x.kind \in AboutCall \cup {"turnStarted", "final"} => \A m \in 1..Len(inbox) : inbox[m].kind # "turnCompleted"
        BY <2>i, <3>c DEF AboutCall
      <4> HIDE DEF x
      <4>8. Pushed(inbox, inbox', x)
        BY <2>i DEF x
      <4>. QED  BY <3>0, <3>f, <3>k, <4>1, <4>2, <4>3, <4>4, <4>5, <4>6, <4>7, <4>8, PipePushed
    <3>4. ASSUME NEW d \in Calls PROVE CallInv(d)'
      <4>1. CallInv(d)
        BY <3>0
      <4>2. \A q : q \in AboutCall => (In(inbox', q, d) <=> In(inbox, q, d))
        BY <2>i DEF AboutCall
      <4>. QED  BY <4>1, <4>2, <3>w, <2>g DEF CallInv, AboutCall
    <3>. QED  BY <3>1, <3>2, <3>3, <3>4
  <2>. QED  BY <2>1, <2>2, <2>3, <2>4, <2>5 DEF SessionInv
<1>2. ASSUME native.up,
             ses.failure = "none",
             ~ses.closing,
             native.asked = 5,
             ~native.begun,
             inbox' = Append(inbox, Frame("turnStarted", None)),
             native' = [native EXCEPT !.begun = TRUE],
             UNCHANGED <<ses, calls, wr, fin, slot, ran>>
     PROVE  SessionInv'
  <2>h. native.up /\ ses.failure = "none" /\ ~ses.closing /\ native.asked = 5 /\ ~native.begun
    BY <1>2
  <2>g. /\ ses' = ses /\ calls' = calls /\ inbox' = Append(inbox, Frame("turnStarted", None)) /\ wr' = wr
        /\ native'.up = native.up /\ native'.honest = native.honest /\ native'.asked = native.asked
        /\ native'.answered = native.answered /\ native'.begun = TRUE /\ native'.final = native.final
        /\ native'.ended = native.ended /\ native'.tools = native.tools /\ native'.wild = native.wild /\ fin' = fin
        /\ slot' = slot /\ ran' = ran
    BY <1>t, <1>2 DEF NatState
  <2>i. /\ Append(inbox, Frame("turnStarted", None)) \in Seq(InFrame) /\ Pushed(inbox, inbox', Frame("turnStarted", None))
        /\ Frame("turnStarted", None).kind = "turnStarted" /\ Frame("turnStarted", None).call = None
        /\ \A m \in 1..Len(inbox') : inbox'[m].kind \in AboutCall => inbox'[m].call \in Calls
        /\ \A q, d : In(inbox', q, d) <=> In(inbox, q, d) \/ (q = "turnStarted" /\ d = None)
    <3>1. Frame("turnStarted", None) \in InFrame /\ Frame("turnStarted", None).kind = "turnStarted" /\ Frame("turnStarted", None).call = None
      BY DEF Frame, InFrame, Kinds, MaybeCall
    <3>2. Append(inbox, Frame("turnStarted", None)) \in Seq(InFrame) /\ Pushed(inbox, Append(inbox, Frame("turnStarted", None)), Frame("turnStarted", None))
      BY <3>1, <1>t, PushedSeq
    <3>3. Pushed(inbox, inbox', Frame("turnStarted", None))
      BY <3>2, <2>g
    <3>4. \A q, d : In(inbox', q, d) <=> In(inbox, q, d) \/ (q = "turnStarted" /\ d = None)
      BY <3>1, <3>3, InPushed
    <3>5. \A m \in 1..Len(inbox') : inbox'[m].kind \in AboutCall => inbox'[m].call \in Calls
      BY <3>1, <3>3, <1>a DEF Pushed, SessionTypeOK, AboutCall
    <3>. QED  BY <3>1, <3>2, <3>3, <3>4, <3>5
  <2>1. SessionTypeOK'
    <3>inbox. inbox' \in Seq(InFrame)
      BY <2>i, <2>g
    <3>native. native' \in NatState
      BY <1>t, <1>2 DEF NatState
    <3>. QED  BY <1>t, <2>g, <3>inbox, <3>native, <2>i, <1>a DEF SessionTypeOK
  <2>2. QueueInv'
    BY <1>t, <2>h, <2>g, <2>i, <1>b, <1>c DEF QueueInv, QueueOK
  <2>3. HandlerInv'
    BY <1>t, <2>h, <2>g, <2>i, <1>c DEF HandlerInv
  <2>4. EndInv'
    BY <1>t, <2>h, <2>g, <2>i, <1>b, <1>c, <1>d DEF EndInv, BeforeSession, AllJoined
  <2>5. HonestInv'
    <3> SUFFICES ASSUME native.honest, ses.failure = "none", ~ses.closing
                 PROVE  RpcInv' /\ TurnInv' /\ PipeInv' /\ \A d \in Calls : CallInv(d)'
      BY <2>g, <1>e DEF HonestInv
    <3>0. RpcInv /\ TurnInv /\ PipeInv /\ \A d \in Calls : CallInv(d)
      BY <1>e DEF HonestInv
    <3>d. \A m \in 1..Len(inbox) : FrameOK(m)
      BY <3>0 DEF PipeInv
    <3>c. /\ ~native.final /\ ~native.ended /\ ~ses.completed /\ ~In(inbox, "turnStarted", None) /\ ses.early = 0
          /\ \A m \in 1..Len(inbox) : inbox[m].kind # "turnCompleted"
      <4>1. ~native.final /\ ~native.ended /\ ~ses.completed /\ ses.early = 0
        BY <3>0, <2>h DEF TurnInv
      <4>. QED  BY <4>1, <3>d, <2>h DEF FrameOK, In
    <3>f. ASSUME NEW m \in 1..Len(inbox'), m = Len(inbox') PROVE FrameOK(m)'
      <4>1. inbox'[m].kind = "turnStarted" /\ inbox'[m].call = None
        BY <3>f, <2>i DEF Pushed
      <4>2. ses'.early = 0
        BY <3>0, <2>g, <2>h DEF TurnInv
      <4>. QED  BY <4>1, <4>2, <2>g, <2>h DEF FrameOK, AboutCall
    <3>w. \A d \in Calls : Writing(d)' <=> Writing(d)
      BY <2>g DEF Writing
    <3>k. native.asked \in Nat /\ native.answered \in Nat /\ ses.at \in 0..5
      BY <1>t DEF NatState, SesState
    <3>1. RpcInv'
      <4>1. In(inbox', "reply", None) <=> In(inbox, "reply", None)
        BY <2>i
      <4>. QED  BY <3>0, <4>1, <2>g DEF RpcInv
    <3>2. TurnInv'
      <4>1. \A q, d : q # "turnStarted" => (In(inbox', q, d) <=> In(inbox, q, d))
        BY <2>i
      <4>2. ses'.early = 0 /\ ~(ses'.early > 0)
        BY <2>g, <3>c
      <4>. QED  BY <3>0, <3>c, <4>1, <4>2, <2>g, <2>h DEF TurnInv
    <3>3. PipeInv'
      <4> DEFINE x == Frame("turnStarted", None)
      <4>1. ses' = ses /\ native'.asked = native.asked /\ native'.answered \in Nat /\ native'.answered >= native.answered
        BY <2>g, <3>k
      <4>2. (native.begun => native'.begun) /\ (native.final => native'.final) /\ (native.ended => native'.ended)
        BY <2>g
      <4>3. (native'.answered = native.answered /\ x.kind # "reply") \/ native.answered # 5
        BY <2>g, <2>i, <3>k
      <4>4. x.kind # "notice" => ~In(inbox, x.kind, x.call)
        BY <2>i, <3>c
      <4>5. x.kind = "started" => ~In(inbox, "call", x.call)
        BY <2>i, <3>c
      <4>6. x.kind \in AboutCall => \A m \in 1..Len(inbox) : inbox[m].kind # "final"
        BY <2>i, <3>c DEF AboutCall
      <4>7. x.kind \in AboutCall \cup {"turnStarted", "final"} => \A m \in 1..Len(inbox) : inbox[m].kind # "turnCompleted"
        BY <2>i, <3>c DEF AboutCall
      <4> HIDE DEF x
      <4>8. Pushed(inbox, inbox', x)
        BY <2>i DEF x
      <4>. QED  BY <3>0, <3>f, <3>k, <4>1, <4>2, <4>3, <4>4, <4>5, <4>6, <4>7, <4>8, PipePushed
    <3>4. ASSUME NEW d \in Calls PROVE CallInv(d)'
      <4>1. CallInv(d)
        BY <3>0
      <4>2. \A q : q \in AboutCall => (In(inbox', q, d) <=> In(inbox, q, d))
        BY <2>i DEF AboutCall
      <4>. QED  BY <4>1, <4>2, <3>w, <2>g DEF CallInv, AboutCall
    <3>. QED  BY <3>1, <3>2, <3>3, <3>4
  <2>. QED  BY <2>1, <2>2, <2>3, <2>4, <2>5 DEF SessionInv
<1>3. ASSUME native.up,
             ses.failure = "none",
             ~ses.closing,
             native.answered >= 4,
             inbox' = Append(inbox, Frame("notice", None)),
             native' = [native EXCEPT !.wild = native.wild + 1],
             UNCHANGED <<ses, calls, wr, fin, slot, ran>>
     PROVE  SessionInv'
  <2>h. native.up /\ ses.failure = "none" /\ ~ses.closing /\ native.answered >= 4
    BY <1>3
  <2>g. /\ ses' = ses /\ calls' = calls /\ inbox' = Append(inbox, Frame("notice", None)) /\ wr' = wr
        /\ native'.up = native.up /\ native'.honest = native.honest /\ native'.asked = native.asked
        /\ native'.answered = native.answered /\ native'.begun = native.begun /\ native'.final = native.final
        /\ native'.ended = native.ended /\ native'.tools = native.tools /\ native'.wild = native.wild + 1 /\ fin' = fin
        /\ slot' = slot /\ ran' = ran
    BY <1>t, <1>3 DEF NatState
  <2>i. /\ Append(inbox, Frame("notice", None)) \in Seq(InFrame) /\ Pushed(inbox, inbox', Frame("notice", None))
        /\ Frame("notice", None).kind = "notice" /\ Frame("notice", None).call = None
        /\ \A m \in 1..Len(inbox') : inbox'[m].kind \in AboutCall => inbox'[m].call \in Calls
        /\ \A q, d : In(inbox', q, d) <=> In(inbox, q, d) \/ (q = "notice" /\ d = None)
    <3>1. Frame("notice", None) \in InFrame /\ Frame("notice", None).kind = "notice" /\ Frame("notice", None).call = None
      BY DEF Frame, InFrame, Kinds, MaybeCall
    <3>2. Append(inbox, Frame("notice", None)) \in Seq(InFrame) /\ Pushed(inbox, Append(inbox, Frame("notice", None)), Frame("notice", None))
      BY <3>1, <1>t, PushedSeq
    <3>3. Pushed(inbox, inbox', Frame("notice", None))
      BY <3>2, <2>g
    <3>4. \A q, d : In(inbox', q, d) <=> In(inbox, q, d) \/ (q = "notice" /\ d = None)
      BY <3>1, <3>3, InPushed
    <3>5. \A m \in 1..Len(inbox') : inbox'[m].kind \in AboutCall => inbox'[m].call \in Calls
      BY <3>1, <3>3, <1>a DEF Pushed, SessionTypeOK, AboutCall
    <3>. QED  BY <3>1, <3>2, <3>3, <3>4, <3>5
  <2>1. SessionTypeOK'
    <3>inbox. inbox' \in Seq(InFrame)
      BY <2>i, <2>g
    <3>native. native' \in NatState
      <4>1. native.wild + 1 \in Nat
        BY <1>t DEF NatState
      <4>. QED  BY <1>t, <1>3, <4>1 DEF NatState
    <3>. QED  BY <1>t, <2>g, <3>inbox, <3>native, <2>i, <1>a DEF SessionTypeOK
  <2>2. QueueInv'
    BY <1>t, <2>h, <2>g, <2>i, <1>b, <1>c DEF QueueInv, QueueOK
  <2>3. HandlerInv'
    BY <1>t, <2>h, <2>g, <2>i, <1>c DEF HandlerInv
  <2>4. EndInv'
    BY <1>t, <2>h, <2>g, <2>i, <1>b, <1>c, <1>d DEF EndInv, BeforeSession, AllJoined
  <2>5. HonestInv'
    <3> SUFFICES ASSUME native.honest, ses.failure = "none", ~ses.closing
                 PROVE  RpcInv' /\ TurnInv' /\ PipeInv' /\ \A d \in Calls : CallInv(d)'
      BY <2>g, <1>e DEF HonestInv
    <3>0. RpcInv /\ TurnInv /\ PipeInv /\ \A d \in Calls : CallInv(d)
      BY <1>e DEF HonestInv
    <3>d. \A m \in 1..Len(inbox) : FrameOK(m)
      BY <3>0 DEF PipeInv
    <3>c. TRUE
      OBVIOUS
    <3>f. ASSUME NEW m \in 1..Len(inbox'), m = Len(inbox') PROVE FrameOK(m)'
      <4>1. inbox'[m].kind = "notice" /\ inbox'[m].call = None
        BY <3>f, <2>i DEF Pushed
      <4>2. ses.thread \/ \E j \in 1..(m - 1) : inbox'[j].kind = "reply"
        <5>1. CASE In(inbox, "reply", None)
          <6>1. PICK j \in 1..Len(inbox) : inbox[j].kind = "reply"
            BY <5>1 DEF In
          <6>2. inbox'[j].kind = "reply" /\ j \in 1..(m - 1)
            BY <6>1, <3>f, <2>i DEF Pushed
          <6>. QED  BY <6>2
        <5>2. CASE ~In(inbox, "reply", None)
          <6>1. native.answered \in Nat /\ ses.at \in 0..5
            BY <1>t DEF NatState, SesState
          <6>2. ses.at = 5 \/ (ses.at = 4 /\ ~ses.pending)
            BY <5>2, <6>1, <3>0, <2>h DEF RpcInv
          <6>. QED  BY <6>2, <3>0 DEF RpcInv
        <5>. QED  BY <5>1, <5>2
      <4>. QED  BY <4>1, <4>2, <2>g, <2>h DEF FrameOK, AboutCall
    <3>w. \A d \in Calls : Writing(d)' <=> Writing(d)
      BY <2>g DEF Writing
    <3>k. native.asked \in Nat /\ native.answered \in Nat /\ ses.at \in 0..5
      BY <1>t DEF NatState, SesState
    <3>1. RpcInv'
      <4>1. In(inbox', "reply", None) <=> In(inbox, "reply", None)
        BY <2>i
      <4>. QED  BY <3>0, <4>1, <2>g DEF RpcInv
    <3>2. TurnInv'
      <4>1. \A q, d : q # "notice" => (In(inbox', q, d) <=> In(inbox, q, d))
        BY <2>i
      <4>2. ses.completed => \A m \in 1..Len(inbox') : inbox'[m].kind = "notice"
        BY <3>0, <2>i DEF Pushed, TurnInv
      <4>. QED  BY <3>0, <4>1, <4>2, <2>g DEF TurnInv
    <3>3. PipeInv'
      <4> DEFINE x == Frame("notice", None)
      <4>1. ses' = ses /\ native'.asked = native.asked /\ native'.answered \in Nat /\ native'.answered >= native.answered
        BY <2>g, <3>k
      <4>2. (native.begun => native'.begun) /\ (native.final => native'.final) /\ (native.ended => native'.ended)
        BY <2>g
      <4>3. (native'.answered = native.answered /\ x.kind # "reply") \/ native.answered # 5
        BY <2>g, <2>i, <3>k
      <4>4. x.kind # "notice" => ~In(inbox, x.kind, x.call)
        BY <2>i, <3>c
      <4>5. x.kind = "started" => ~In(inbox, "call", x.call)
        BY <2>i, <3>c
      <4>6. x.kind \in AboutCall => \A m \in 1..Len(inbox) : inbox[m].kind # "final"
        BY <2>i, <3>c DEF AboutCall
      <4>7. x.kind \in AboutCall \cup {"turnStarted", "final"} => \A m \in 1..Len(inbox) : inbox[m].kind # "turnCompleted"
        BY <2>i, <3>c DEF AboutCall
      <4> HIDE DEF x
      <4>8. Pushed(inbox, inbox', x)
        BY <2>i DEF x
      <4>. QED  BY <3>0, <3>f, <3>k, <4>1, <4>2, <4>3, <4>4, <4>5, <4>6, <4>7, <4>8, PipePushed
    <3>4. ASSUME NEW d \in Calls PROVE CallInv(d)'
      <4>1. CallInv(d)
        BY <3>0
      <4>2. \A q : q \in AboutCall => (In(inbox', q, d) <=> In(inbox, q, d))
        BY <2>i DEF AboutCall
      <4>. QED  BY <4>1, <4>2, <3>w, <2>g DEF CallInv, AboutCall
    <3>. QED  BY <3>1, <3>2, <3>3, <3>4
  <2>. QED  BY <2>1, <2>2, <2>3, <2>4, <2>5 DEF SessionInv
<1>4. ASSUME NEW c \in Calls,
             native.up,
             ses.failure = "none",
             ~ses.closing,
             native.answered = 5,
             native.begun,
             ~native.final,
             native.tools[c] = "unknown",
             inbox' = Append(inbox, Frame("started", c)),
             native' = [native EXCEPT !.tools[c] = "started"],
             UNCHANGED <<ses, calls, wr, fin, slot, ran>>
     PROVE  SessionInv'
  <2>h. /\ c \in Calls /\ native.up /\ ses.failure = "none" /\ ~ses.closing /\ native.answered = 5 /\ native.begun
        /\ ~native.final /\ native.tools[c] = "unknown"
    BY <1>4
  <2>g. /\ ses' = ses /\ calls' = calls /\ inbox' = Append(inbox, Frame("started", c)) /\ wr' = wr
        /\ native'.up = native.up /\ native'.honest = native.honest /\ native'.asked = native.asked
        /\ native'.answered = native.answered /\ native'.begun = native.begun /\ native'.final = native.final
        /\ native'.ended = native.ended
        /\ (\A d \in Calls : native'.tools[d] = IF d = c THEN "started" ELSE native.tools[d])
        /\ native'.wild = native.wild /\ fin' = fin /\ slot' = slot /\ ran' = ran
    BY <1>t, <1>4 DEF NatState
  <2>i. /\ Append(inbox, Frame("started", c)) \in Seq(InFrame) /\ Pushed(inbox, inbox', Frame("started", c))
        /\ Frame("started", c).kind = "started" /\ Frame("started", c).call = c
        /\ \A m \in 1..Len(inbox') : inbox'[m].kind \in AboutCall => inbox'[m].call \in Calls
        /\ \A q, d : In(inbox', q, d) <=> In(inbox, q, d) \/ (q = "started" /\ d = c)
    <3>1. Frame("started", c) \in InFrame /\ Frame("started", c).kind = "started" /\ Frame("started", c).call = c
      BY <2>h DEF Frame, InFrame, Kinds, MaybeCall
    <3>2. Append(inbox, Frame("started", c)) \in Seq(InFrame) /\ Pushed(inbox, Append(inbox, Frame("started", c)), Frame("started", c))
      BY <3>1, <1>t, PushedSeq
    <3>3. Pushed(inbox, inbox', Frame("started", c))
      BY <3>2, <2>g
    <3>4. \A q, d : In(inbox', q, d) <=> In(inbox, q, d) \/ (q = "started" /\ d = c)
      BY <3>1, <3>3, InPushed
    <3>5. \A m \in 1..Len(inbox') : inbox'[m].kind \in AboutCall => inbox'[m].call \in Calls
      BY <3>1, <3>3, <1>a, <2>h DEF Pushed, SessionTypeOK, AboutCall
    <3>. QED  BY <3>1, <3>2, <3>3, <3>4, <3>5
  <2>1. SessionTypeOK'
    <3>inbox. inbox' \in Seq(InFrame)
      BY <2>i, <2>g
    <3>native. native' \in NatState
      <4>1. [native.tools EXCEPT ![c] = "started"] \in [Calls -> ToolStages]
        BY <1>t, <2>h DEF NatState, ToolStages
      <4>2. native' = [native EXCEPT !.tools = [native.tools EXCEPT ![c] = "started"]]
        BY <1>4
      <4>. QED  BY <1>t, <4>1, <4>2 DEF NatState
    <3>. QED  BY <1>t, <2>g, <3>inbox, <3>native, <2>i, <1>a DEF SessionTypeOK
  <2>2. QueueInv'
    BY <1>t, <2>h, <2>g, <2>i, <1>b, <1>c DEF QueueInv, QueueOK
  <2>3. HandlerInv'
    BY <1>t, <2>h, <2>g, <2>i, <1>c DEF HandlerInv
  <2>4. EndInv'
    BY <1>t, <2>h, <2>g, <2>i, <1>b, <1>c, <1>d DEF EndInv, BeforeSession, AllJoined
  <2>5. HonestInv'
    <3> SUFFICES ASSUME native.honest, ses.failure = "none", ~ses.closing
                 PROVE  RpcInv' /\ TurnInv' /\ PipeInv' /\ \A d \in Calls : CallInv(d)'
      BY <2>g, <1>e DEF HonestInv
    <3>0. RpcInv /\ TurnInv /\ PipeInv /\ \A d \in Calls : CallInv(d)
      BY <1>e DEF HonestInv
    <3>d. \A m \in 1..Len(inbox) : FrameOK(m)
      BY <3>0 DEF PipeInv
    <3>e. CallInv(c) /\ ~ses.completed /\ ~native.ended
      BY <3>0, <2>h DEF TurnInv
    <3>c. /\ ~In(inbox, "started", c) /\ ~In(inbox, "call", c)
          /\ \A m \in 1..Len(inbox) : inbox[m].kind # "final" /\ inbox[m].kind # "turnCompleted"
      BY <3>e, <3>d, <2>h DEF CallInv, FrameOK
    <3>f. ASSUME NEW m \in 1..Len(inbox'), m = Len(inbox') PROVE FrameOK(m)'
      <4>1. inbox'[m].kind = "started" /\ inbox'[m].call = c
        BY <3>f, <2>i DEF Pushed
      <4>2. Bound(m)'
        <5>1. ASSUME NEW j \in 1..Len(inbox'), inbox'[j].kind = "reply" PROVE j < m
          BY <5>1, <4>1, <3>f, <2>i DEF Pushed
        <5>. QED  BY <5>1, <2>g, <2>h DEF Bound
      <4>3. ~ses'.out /\ native'.begun
        BY <3>0, <2>g, <2>h DEF TurnInv
      <4>. QED  BY <4>1, <4>2, <4>3 DEF FrameOK, AboutCall
    <3>w. \A d \in Calls : Writing(d)' <=> Writing(d)
      BY <2>g DEF Writing
    <3>k. native.asked \in Nat /\ native.answered \in Nat /\ ses.at \in 0..5
      BY <1>t DEF NatState, SesState
    <3>1. RpcInv'
      <4>1. In(inbox', "reply", None) <=> In(inbox, "reply", None)
        BY <2>i
      <4>. QED  BY <3>0, <4>1, <2>g DEF RpcInv
    <3>2. TurnInv'
      <4>1. \A q, d : q # "started" => (In(inbox', q, d) <=> In(inbox, q, d))
        BY <2>i
      <4>. QED  BY <3>0, <3>e, <4>1, <2>g, <2>h DEF TurnInv
    <3>3. PipeInv'
      <4> DEFINE x == Frame("started", c)
      <4>1. ses' = ses /\ native'.asked = native.asked /\ native'.answered \in Nat /\ native'.answered >= native.answered
        BY <2>g, <3>k
      <4>2. (native.begun => native'.begun) /\ (native.final => native'.final) /\ (native.ended => native'.ended)
        BY <2>g
      <4>3. (native'.answered = native.answered /\ x.kind # "reply") \/ native.answered # 5
        BY <2>g, <2>i, <3>k
      <4>4. x.kind # "notice" => ~In(inbox, x.kind, x.call)
        BY <2>i, <3>c
      <4>5. x.kind = "started" => ~In(inbox, "call", x.call)
        BY <2>i, <3>c
      <4>6. x.kind \in AboutCall => \A m \in 1..Len(inbox) : inbox[m].kind # "final"
        BY <2>i, <3>c
      <4>7. x.kind \in AboutCall \cup {"turnStarted", "final"} => \A m \in 1..Len(inbox) : inbox[m].kind # "turnCompleted"
        BY <2>i, <3>c
      <4> HIDE DEF x
      <4>8. Pushed(inbox, inbox', x)
        BY <2>i DEF x
      <4>. QED  BY <3>0, <3>f, <3>k, <4>1, <4>2, <4>3, <4>4, <4>5, <4>6, <4>7, <4>8, PipePushed
    <3>4. ASSUME NEW d \in Calls PROVE CallInv(d)'
      <4>1. CallInv(d)
        BY <3>0
      <4>2. CASE d = c
        <5>1. native'.tools[c] = "started" /\ In(inbox', "started", c) /\ (\A q : q # "started" => (In(inbox', q, c) <=> In(inbox, q, c)))
          BY <2>i, <2>g, <2>h
        <5>2. ~Writing(c) \/ calls[c] = "claimed"
          BY <1>c DEF Writing, HandlerInv
        <5>. QED  BY <5>1, <5>2, <4>1, <4>2, <3>w, <2>g, <2>h DEF CallInv
      <4>3. CASE d # c
        <5>1. native'.tools[d] = native.tools[d] /\ (\A q : In(inbox', q, d) <=> In(inbox, q, d))
          BY <4>3, <2>i, <2>g, <2>h
        <5>. QED  BY <5>1, <4>1, <3>w, <2>g DEF CallInv
      <4>. QED  BY <4>2, <4>3
    <3>. QED  BY <3>1, <3>2, <3>3, <3>4
  <2>. QED  BY <2>1, <2>2, <2>3, <2>4, <2>5 DEF SessionInv
<1>5. ASSUME NEW c \in Calls,
             native.up,
             ses.failure = "none",
             ~ses.closing,
             native.answered = 5,
             native.begun,
             ~native.final,
             native.tools[c] = "started",
             inbox' = Append(inbox, Frame("call", c)),
             native' = [native EXCEPT !.tools[c] = "call"],
             UNCHANGED <<ses, calls, wr, fin, slot, ran>>
     PROVE  SessionInv'
  <2>h. /\ c \in Calls /\ native.up /\ ses.failure = "none" /\ ~ses.closing /\ native.answered = 5 /\ native.begun
        /\ ~native.final /\ native.tools[c] = "started"
    BY <1>5
  <2>g. /\ ses' = ses /\ calls' = calls /\ inbox' = Append(inbox, Frame("call", c)) /\ wr' = wr /\ native'.up = native.up
        /\ native'.honest = native.honest /\ native'.asked = native.asked /\ native'.answered = native.answered
        /\ native'.begun = native.begun /\ native'.final = native.final /\ native'.ended = native.ended
        /\ (\A d \in Calls : native'.tools[d] = IF d = c THEN "call" ELSE native.tools[d]) /\ native'.wild = native.wild
        /\ fin' = fin /\ slot' = slot /\ ran' = ran
    BY <1>t, <1>5 DEF NatState
  <2>i. /\ Append(inbox, Frame("call", c)) \in Seq(InFrame) /\ Pushed(inbox, inbox', Frame("call", c))
        /\ Frame("call", c).kind = "call" /\ Frame("call", c).call = c
        /\ \A m \in 1..Len(inbox') : inbox'[m].kind \in AboutCall => inbox'[m].call \in Calls
        /\ \A q, d : In(inbox', q, d) <=> In(inbox, q, d) \/ (q = "call" /\ d = c)
    <3>1. Frame("call", c) \in InFrame /\ Frame("call", c).kind = "call" /\ Frame("call", c).call = c
      BY <2>h DEF Frame, InFrame, Kinds, MaybeCall
    <3>2. Append(inbox, Frame("call", c)) \in Seq(InFrame) /\ Pushed(inbox, Append(inbox, Frame("call", c)), Frame("call", c))
      BY <3>1, <1>t, PushedSeq
    <3>3. Pushed(inbox, inbox', Frame("call", c))
      BY <3>2, <2>g
    <3>4. \A q, d : In(inbox', q, d) <=> In(inbox, q, d) \/ (q = "call" /\ d = c)
      BY <3>1, <3>3, InPushed
    <3>5. \A m \in 1..Len(inbox') : inbox'[m].kind \in AboutCall => inbox'[m].call \in Calls
      BY <3>1, <3>3, <1>a, <2>h DEF Pushed, SessionTypeOK, AboutCall
    <3>. QED  BY <3>1, <3>2, <3>3, <3>4, <3>5
  <2>1. SessionTypeOK'
    <3>inbox. inbox' \in Seq(InFrame)
      BY <2>i, <2>g
    <3>native. native' \in NatState
      <4>1. [native.tools EXCEPT ![c] = "call"] \in [Calls -> ToolStages]
        BY <1>t, <2>h DEF NatState, ToolStages
      <4>2. native' = [native EXCEPT !.tools = [native.tools EXCEPT ![c] = "call"]]
        BY <1>5
      <4>. QED  BY <1>t, <4>1, <4>2 DEF NatState
    <3>. QED  BY <1>t, <2>g, <3>inbox, <3>native, <2>i, <1>a DEF SessionTypeOK
  <2>2. QueueInv'
    BY <1>t, <2>h, <2>g, <2>i, <1>b, <1>c DEF QueueInv, QueueOK
  <2>3. HandlerInv'
    BY <1>t, <2>h, <2>g, <2>i, <1>c DEF HandlerInv
  <2>4. EndInv'
    BY <1>t, <2>h, <2>g, <2>i, <1>b, <1>c, <1>d DEF EndInv, BeforeSession, AllJoined
  <2>5. HonestInv'
    <3> SUFFICES ASSUME native.honest, ses.failure = "none", ~ses.closing
                 PROVE  RpcInv' /\ TurnInv' /\ PipeInv' /\ \A d \in Calls : CallInv(d)'
      BY <2>g, <1>e DEF HonestInv
    <3>0. RpcInv /\ TurnInv /\ PipeInv /\ \A d \in Calls : CallInv(d)
      BY <1>e DEF HonestInv
    <3>d. \A m \in 1..Len(inbox) : FrameOK(m)
      BY <3>0 DEF PipeInv
    <3>e. CallInv(c) /\ ~ses.completed /\ ~native.ended
      BY <3>0, <2>h DEF TurnInv
    <3>c. /\ ~In(inbox, "call", c)
          /\ \A m \in 1..Len(inbox) : inbox[m].kind # "final" /\ inbox[m].kind # "turnCompleted"
      BY <3>e, <3>d, <2>h DEF CallInv, FrameOK
    <3>f. ASSUME NEW m \in 1..Len(inbox'), m = Len(inbox') PROVE FrameOK(m)'
      <4>1. inbox'[m].kind = "call" /\ inbox'[m].call = c
        BY <3>f, <2>i DEF Pushed
      <4>2. Bound(m)'
        <5>1. ASSUME NEW j \in 1..Len(inbox'), inbox'[j].kind = "reply" PROVE j < m
          BY <5>1, <4>1, <3>f, <2>i DEF Pushed
        <5>. QED  BY <5>1, <2>g, <2>h DEF Bound
      <4>3. ~ses'.out /\ native'.begun
        BY <3>0, <2>g, <2>h DEF TurnInv
      <4>. QED  BY <4>1, <4>2, <4>3 DEF FrameOK, AboutCall
    <3>w. \A d \in Calls : Writing(d)' <=> Writing(d)
      BY <2>g DEF Writing
    <3>k. native.asked \in Nat /\ native.answered \in Nat /\ ses.at \in 0..5
      BY <1>t DEF NatState, SesState
    <3>1. RpcInv'
      <4>1. In(inbox', "reply", None) <=> In(inbox, "reply", None)
        BY <2>i
      <4>. QED  BY <3>0, <4>1, <2>g DEF RpcInv
    <3>2. TurnInv'
      <4>1. \A q, d : q # "call" => (In(inbox', q, d) <=> In(inbox, q, d))
        BY <2>i
      <4>. QED  BY <3>0, <3>e, <4>1, <2>g, <2>h DEF TurnInv
    <3>3. PipeInv'
      <4> DEFINE x == Frame("call", c)
      <4>1. ses' = ses /\ native'.asked = native.asked /\ native'.answered \in Nat /\ native'.answered >= native.answered
        BY <2>g, <3>k
      <4>2. (native.begun => native'.begun) /\ (native.final => native'.final) /\ (native.ended => native'.ended)
        BY <2>g
      <4>3. (native'.answered = native.answered /\ x.kind # "reply") \/ native.answered # 5
        BY <2>g, <2>i, <3>k
      <4>4. x.kind # "notice" => ~In(inbox, x.kind, x.call)
        BY <2>i, <3>c
      <4>5. x.kind = "started" => ~In(inbox, "call", x.call)
        BY <2>i, <3>c
      <4>6. x.kind \in AboutCall => \A m \in 1..Len(inbox) : inbox[m].kind # "final"
        BY <2>i, <3>c
      <4>7. x.kind \in AboutCall \cup {"turnStarted", "final"} => \A m \in 1..Len(inbox) : inbox[m].kind # "turnCompleted"
        BY <2>i, <3>c
      <4> HIDE DEF x
      <4>8. Pushed(inbox, inbox', x)
        BY <2>i DEF x
      <4>. QED  BY <3>0, <3>f, <3>k, <4>1, <4>2, <4>3, <4>4, <4>5, <4>6, <4>7, <4>8, PipePushed
    <3>4. ASSUME NEW d \in Calls PROVE CallInv(d)'
      <4>1. CallInv(d)
        BY <3>0
      <4>2. CASE d = c
        <5>1. native'.tools[c] = "call" /\ In(inbox', "call", c) /\ (\A q : q # "call" => (In(inbox', q, c) <=> In(inbox, q, c)))
          BY <2>i, <2>g, <2>h
        <5>2. ~Writing(c) \/ calls[c] = "claimed"
          BY <1>c DEF Writing, HandlerInv
        <5>. QED  BY <5>1, <5>2, <4>1, <4>2, <3>w, <2>g, <2>h DEF CallInv
      <4>3. CASE d # c
        <5>1. native'.tools[d] = native.tools[d] /\ (\A q : In(inbox', q, d) <=> In(inbox, q, d))
          BY <4>3, <2>i, <2>g, <2>h
        <5>. QED  BY <5>1, <4>1, <3>w, <2>g DEF CallInv
      <4>. QED  BY <4>2, <4>3
    <3>. QED  BY <3>1, <3>2, <3>3, <3>4
  <2>. QED  BY <2>1, <2>2, <2>3, <2>4, <2>5 DEF SessionInv
<1>6. ASSUME NEW c \in Calls,
             native.up,
             ses.failure = "none",
             ~ses.closing,
             native.answered = 5,
             native.begun,
             ~native.final,
             native.tools[c] = "answered",
             inbox' = Append(inbox, Frame("completed", c)),
             native' = [native EXCEPT !.tools[c] = "completed"],
             UNCHANGED <<ses, calls, wr, fin, slot, ran>>
     PROVE  SessionInv'
  <2>h. /\ c \in Calls /\ native.up /\ ses.failure = "none" /\ ~ses.closing /\ native.answered = 5 /\ native.begun
        /\ ~native.final /\ native.tools[c] = "answered"
    BY <1>6
  <2>g. /\ ses' = ses /\ calls' = calls /\ inbox' = Append(inbox, Frame("completed", c)) /\ wr' = wr
        /\ native'.up = native.up /\ native'.honest = native.honest /\ native'.asked = native.asked
        /\ native'.answered = native.answered /\ native'.begun = native.begun /\ native'.final = native.final
        /\ native'.ended = native.ended
        /\ (\A d \in Calls : native'.tools[d] = IF d = c THEN "completed" ELSE native.tools[d])
        /\ native'.wild = native.wild /\ fin' = fin /\ slot' = slot /\ ran' = ran
    BY <1>t, <1>6 DEF NatState
  <2>i. /\ Append(inbox, Frame("completed", c)) \in Seq(InFrame) /\ Pushed(inbox, inbox', Frame("completed", c))
        /\ Frame("completed", c).kind = "completed" /\ Frame("completed", c).call = c
        /\ \A m \in 1..Len(inbox') : inbox'[m].kind \in AboutCall => inbox'[m].call \in Calls
        /\ \A q, d : In(inbox', q, d) <=> In(inbox, q, d) \/ (q = "completed" /\ d = c)
    <3>1. Frame("completed", c) \in InFrame /\ Frame("completed", c).kind = "completed" /\ Frame("completed", c).call = c
      BY <2>h DEF Frame, InFrame, Kinds, MaybeCall
    <3>2. Append(inbox, Frame("completed", c)) \in Seq(InFrame) /\ Pushed(inbox, Append(inbox, Frame("completed", c)), Frame("completed", c))
      BY <3>1, <1>t, PushedSeq
    <3>3. Pushed(inbox, inbox', Frame("completed", c))
      BY <3>2, <2>g
    <3>4. \A q, d : In(inbox', q, d) <=> In(inbox, q, d) \/ (q = "completed" /\ d = c)
      BY <3>1, <3>3, InPushed
    <3>5. \A m \in 1..Len(inbox') : inbox'[m].kind \in AboutCall => inbox'[m].call \in Calls
      BY <3>1, <3>3, <1>a, <2>h DEF Pushed, SessionTypeOK, AboutCall
    <3>. QED  BY <3>1, <3>2, <3>3, <3>4, <3>5
  <2>1. SessionTypeOK'
    <3>inbox. inbox' \in Seq(InFrame)
      BY <2>i, <2>g
    <3>native. native' \in NatState
      <4>1. [native.tools EXCEPT ![c] = "completed"] \in [Calls -> ToolStages]
        BY <1>t, <2>h DEF NatState, ToolStages
      <4>2. native' = [native EXCEPT !.tools = [native.tools EXCEPT ![c] = "completed"]]
        BY <1>6
      <4>. QED  BY <1>t, <4>1, <4>2 DEF NatState
    <3>. QED  BY <1>t, <2>g, <3>inbox, <3>native, <2>i, <1>a DEF SessionTypeOK
  <2>2. QueueInv'
    BY <1>t, <2>h, <2>g, <2>i, <1>b, <1>c DEF QueueInv, QueueOK
  <2>3. HandlerInv'
    BY <1>t, <2>h, <2>g, <2>i, <1>c DEF HandlerInv
  <2>4. EndInv'
    BY <1>t, <2>h, <2>g, <2>i, <1>b, <1>c, <1>d DEF EndInv, BeforeSession, AllJoined
  <2>5. HonestInv'
    <3> SUFFICES ASSUME native.honest, ses.failure = "none", ~ses.closing
                 PROVE  RpcInv' /\ TurnInv' /\ PipeInv' /\ \A d \in Calls : CallInv(d)'
      BY <2>g, <1>e DEF HonestInv
    <3>0. RpcInv /\ TurnInv /\ PipeInv /\ \A d \in Calls : CallInv(d)
      BY <1>e DEF HonestInv
    <3>d. \A m \in 1..Len(inbox) : FrameOK(m)
      BY <3>0 DEF PipeInv
    <3>e. CallInv(c) /\ ~ses.completed /\ ~native.ended
      BY <3>0, <2>h DEF TurnInv
    <3>c. /\ ~In(inbox, "completed", c)
          /\ \A m \in 1..Len(inbox) : inbox[m].kind # "final" /\ inbox[m].kind # "turnCompleted"
      BY <3>e, <3>d, <2>h DEF CallInv, FrameOK
    <3>f. ASSUME NEW m \in 1..Len(inbox'), m = Len(inbox') PROVE FrameOK(m)'
      <4>1. inbox'[m].kind = "completed" /\ inbox'[m].call = c
        BY <3>f, <2>i DEF Pushed
      <4>2. Bound(m)'
        <5>1. ASSUME NEW j \in 1..Len(inbox'), inbox'[j].kind = "reply" PROVE j < m
          BY <5>1, <4>1, <3>f, <2>i DEF Pushed
        <5>. QED  BY <5>1, <2>g, <2>h DEF Bound
      <4>3. ~ses'.out /\ native'.begun
        BY <3>0, <2>g, <2>h DEF TurnInv
      <4>. QED  BY <4>1, <4>2, <4>3 DEF FrameOK, AboutCall
    <3>w. \A d \in Calls : Writing(d)' <=> Writing(d)
      BY <2>g DEF Writing
    <3>k. native.asked \in Nat /\ native.answered \in Nat /\ ses.at \in 0..5
      BY <1>t DEF NatState, SesState
    <3>1. RpcInv'
      <4>1. In(inbox', "reply", None) <=> In(inbox, "reply", None)
        BY <2>i
      <4>. QED  BY <3>0, <4>1, <2>g DEF RpcInv
    <3>2. TurnInv'
      <4>1. \A q, d : q # "completed" => (In(inbox', q, d) <=> In(inbox, q, d))
        BY <2>i
      <4>. QED  BY <3>0, <3>e, <4>1, <2>g, <2>h DEF TurnInv
    <3>3. PipeInv'
      <4> DEFINE x == Frame("completed", c)
      <4>1. ses' = ses /\ native'.asked = native.asked /\ native'.answered \in Nat /\ native'.answered >= native.answered
        BY <2>g, <3>k
      <4>2. (native.begun => native'.begun) /\ (native.final => native'.final) /\ (native.ended => native'.ended)
        BY <2>g
      <4>3. (native'.answered = native.answered /\ x.kind # "reply") \/ native.answered # 5
        BY <2>g, <2>i, <3>k
      <4>4. x.kind # "notice" => ~In(inbox, x.kind, x.call)
        BY <2>i, <3>c
      <4>5. x.kind = "started" => ~In(inbox, "call", x.call)
        BY <2>i, <3>c
      <4>6. x.kind \in AboutCall => \A m \in 1..Len(inbox) : inbox[m].kind # "final"
        BY <2>i, <3>c
      <4>7. x.kind \in AboutCall \cup {"turnStarted", "final"} => \A m \in 1..Len(inbox) : inbox[m].kind # "turnCompleted"
        BY <2>i, <3>c
      <4> HIDE DEF x
      <4>8. Pushed(inbox, inbox', x)
        BY <2>i DEF x
      <4>. QED  BY <3>0, <3>f, <3>k, <4>1, <4>2, <4>3, <4>4, <4>5, <4>6, <4>7, <4>8, PipePushed
    <3>4. ASSUME NEW d \in Calls PROVE CallInv(d)'
      <4>1. CallInv(d)
        BY <3>0
      <4>2. CASE d = c
        <5>1. native'.tools[c] = "completed" /\ In(inbox', "completed", c) /\ (\A q : q # "completed" => (In(inbox', q, c) <=> In(inbox, q, c)))
          BY <2>i, <2>g, <2>h
        <5>2. ~Writing(c) \/ calls[c] = "claimed"
          BY <1>c DEF Writing, HandlerInv
        <5>. QED  BY <5>1, <5>2, <4>1, <4>2, <3>w, <2>g, <2>h DEF CallInv
      <4>3. CASE d # c
        <5>1. native'.tools[d] = native.tools[d] /\ (\A q : In(inbox', q, d) <=> In(inbox, q, d))
          BY <4>3, <2>i, <2>g, <2>h
        <5>. QED  BY <5>1, <4>1, <3>w, <2>g DEF CallInv
      <4>. QED  BY <4>2, <4>3
    <3>. QED  BY <3>1, <3>2, <3>3, <3>4
  <2>. QED  BY <2>1, <2>2, <2>3, <2>4, <2>5 DEF SessionInv
<1>7. ASSUME native.up,
             ses.failure = "none",
             ~ses.closing,
             native.answered = 5,
             native.begun,
             ~native.final,
             \A d \in Calls : native.tools[d] \in {"unknown", "completed"},
             inbox' = Append(inbox, Frame("final", None)),
             native' = [native EXCEPT !.final = TRUE],
             UNCHANGED <<ses, calls, wr, fin, slot, ran>>
     PROVE  SessionInv'
  <2>h. /\ native.up /\ ses.failure = "none" /\ ~ses.closing /\ native.answered = 5 /\ native.begun /\ ~native.final
        /\ (\A d \in Calls : native.tools[d] \in {"unknown", "completed"})
    BY <1>7
  <2>g. /\ ses' = ses /\ calls' = calls /\ inbox' = Append(inbox, Frame("final", None)) /\ wr' = wr
        /\ native'.up = native.up /\ native'.honest = native.honest /\ native'.asked = native.asked
        /\ native'.answered = native.answered /\ native'.begun = native.begun /\ native'.final = TRUE
        /\ native'.ended = native.ended /\ native'.tools = native.tools /\ native'.wild = native.wild /\ fin' = fin
        /\ slot' = slot /\ ran' = ran
    BY <1>t, <1>7 DEF NatState
  <2>i. /\ Append(inbox, Frame("final", None)) \in Seq(InFrame) /\ Pushed(inbox, inbox', Frame("final", None))
        /\ Frame("final", None).kind = "final" /\ Frame("final", None).call = None
        /\ \A m \in 1..Len(inbox') : inbox'[m].kind \in AboutCall => inbox'[m].call \in Calls
        /\ \A q, d : In(inbox', q, d) <=> In(inbox, q, d) \/ (q = "final" /\ d = None)
    <3>1. Frame("final", None) \in InFrame /\ Frame("final", None).kind = "final" /\ Frame("final", None).call = None
      BY DEF Frame, InFrame, Kinds, MaybeCall
    <3>2. Append(inbox, Frame("final", None)) \in Seq(InFrame) /\ Pushed(inbox, Append(inbox, Frame("final", None)), Frame("final", None))
      BY <3>1, <1>t, PushedSeq
    <3>3. Pushed(inbox, inbox', Frame("final", None))
      BY <3>2, <2>g
    <3>4. \A q, d : In(inbox', q, d) <=> In(inbox, q, d) \/ (q = "final" /\ d = None)
      BY <3>1, <3>3, InPushed
    <3>5. \A m \in 1..Len(inbox') : inbox'[m].kind \in AboutCall => inbox'[m].call \in Calls
      BY <3>1, <3>3, <1>a DEF Pushed, SessionTypeOK, AboutCall
    <3>. QED  BY <3>1, <3>2, <3>3, <3>4, <3>5
  <2>1. SessionTypeOK'
    <3>inbox. inbox' \in Seq(InFrame)
      BY <2>i, <2>g
    <3>native. native' \in NatState
      BY <1>t, <1>7 DEF NatState
    <3>. QED  BY <1>t, <2>g, <3>inbox, <3>native, <2>i, <1>a DEF SessionTypeOK
  <2>2. QueueInv'
    BY <1>t, <2>h, <2>g, <2>i, <1>b, <1>c DEF QueueInv, QueueOK
  <2>3. HandlerInv'
    BY <1>t, <2>h, <2>g, <2>i, <1>c DEF HandlerInv
  <2>4. EndInv'
    BY <1>t, <2>h, <2>g, <2>i, <1>b, <1>c, <1>d DEF EndInv, BeforeSession, AllJoined
  <2>5. HonestInv'
    <3> SUFFICES ASSUME native.honest, ses.failure = "none", ~ses.closing
                 PROVE  RpcInv' /\ TurnInv' /\ PipeInv' /\ \A d \in Calls : CallInv(d)'
      BY <2>g, <1>e DEF HonestInv
    <3>0. RpcInv /\ TurnInv /\ PipeInv /\ \A d \in Calls : CallInv(d)
      BY <1>e DEF HonestInv
    <3>d. \A m \in 1..Len(inbox) : FrameOK(m)
      BY <3>0 DEF PipeInv
    <3>c. /\ ~In(inbox, "final", None) /\ ~ses.completed /\ ~native.ended
          /\ \A m \in 1..Len(inbox) : inbox[m].kind # "turnCompleted"
      BY <3>0, <3>d, <2>h DEF TurnInv, FrameOK
    <3>f. ASSUME NEW m \in 1..Len(inbox'), m = Len(inbox') PROVE FrameOK(m)'
      <4>1. inbox'[m].kind = "final" /\ inbox'[m].call = None
        BY <3>f, <2>i DEF Pushed
      <4>2. Bound(m)'
        <5>1. ASSUME NEW j \in 1..Len(inbox'), inbox'[j].kind = "reply" PROVE j < m
          BY <5>1, <4>1, <3>f, <2>i DEF Pushed
        <5>2. native.answered = 5
          BY <3>0, <2>h DEF TurnInv
        <5>. QED  BY <5>1, <5>2, <2>g DEF Bound
      <4>3. ~ses'.out /\ native'.begun /\ native'.final
        BY <3>0, <2>g, <2>h DEF TurnInv
      <4>. QED  BY <4>1, <4>2, <4>3 DEF FrameOK, AboutCall
    <3>w. \A d \in Calls : Writing(d)' <=> Writing(d)
      BY <2>g DEF Writing
    <3>k. native.asked \in Nat /\ native.answered \in Nat /\ ses.at \in 0..5
      BY <1>t DEF NatState, SesState
    <3>1. RpcInv'
      <4>1. In(inbox', "reply", None) <=> In(inbox, "reply", None)
        BY <2>i
      <4>. QED  BY <3>0, <4>1, <2>g DEF RpcInv
    <3>2. TurnInv'
      <4>1. \A q, d : q # "final" => (In(inbox', q, d) <=> In(inbox, q, d))
        BY <2>i
      <4>2. In(inbox', "final", None)
        BY <2>i
      <4>. QED  BY <3>0, <3>c, <4>1, <4>2, <2>g, <2>h DEF TurnInv
    <3>3. PipeInv'
      <4> DEFINE x == Frame("final", None)
      <4>1. ses' = ses /\ native'.asked = native.asked /\ native'.answered \in Nat /\ native'.answered >= native.answered
        BY <2>g, <3>k
      <4>2. (native.begun => native'.begun) /\ (native.final => native'.final) /\ (native.ended => native'.ended)
        BY <2>g
      <4>3. (native'.answered = native.answered /\ x.kind # "reply") \/ native.answered # 5
        BY <2>g, <2>i, <3>k
      <4>4. x.kind # "notice" => ~In(inbox, x.kind, x.call)
        BY <2>i, <3>c
      <4>5. x.kind = "started" => ~In(inbox, "call", x.call)
        BY <2>i, <3>c
      <4>6. x.kind \in AboutCall => \A m \in 1..Len(inbox) : inbox[m].kind # "final"
        BY <2>i, <3>c DEF AboutCall
      <4>7. x.kind \in AboutCall \cup {"turnStarted", "final"} => \A m \in 1..Len(inbox) : inbox[m].kind # "turnCompleted"
        BY <2>i, <3>c DEF AboutCall
      <4> HIDE DEF x
      <4>8. Pushed(inbox, inbox', x)
        BY <2>i DEF x
      <4>. QED  BY <3>0, <3>f, <3>k, <4>1, <4>2, <4>3, <4>4, <4>5, <4>6, <4>7, <4>8, PipePushed
    <3>4. ASSUME NEW d \in Calls PROVE CallInv(d)'
      <4>1. CallInv(d)
        BY <3>0
      <4>2. \A q : q \in AboutCall => (In(inbox', q, d) <=> In(inbox, q, d))
        BY <2>i DEF AboutCall
      <4>. QED  BY <4>1, <4>2, <3>w, <2>g DEF CallInv, AboutCall
    <3>. QED  BY <3>1, <3>2, <3>3, <3>4
  <2>. QED  BY <2>1, <2>2, <2>3, <2>4, <2>5 DEF SessionInv
<1>8. ASSUME native.up,
             ses.failure = "none",
             ~ses.closing,
             native.final,
             ~native.ended,
             inbox' = Append(inbox, Frame("turnCompleted", None)),
             native' = [native EXCEPT !.ended = TRUE],
             UNCHANGED <<ses, calls, wr, fin, slot, ran>>
     PROVE  SessionInv'
  <2>h. native.up /\ ses.failure = "none" /\ ~ses.closing /\ native.final /\ ~native.ended
    BY <1>8
  <2>g. /\ ses' = ses /\ calls' = calls /\ inbox' = Append(inbox, Frame("turnCompleted", None)) /\ wr' = wr
        /\ native'.up = native.up /\ native'.honest = native.honest /\ native'.asked = native.asked
        /\ native'.answered = native.answered /\ native'.begun = native.begun /\ native'.final = native.final
        /\ native'.ended = TRUE /\ native'.tools = native.tools /\ native'.wild = native.wild /\ fin' = fin
        /\ slot' = slot /\ ran' = ran
    BY <1>t, <1>8 DEF NatState
  <2>i. /\ Append(inbox, Frame("turnCompleted", None)) \in Seq(InFrame) /\ Pushed(inbox, inbox', Frame("turnCompleted", None))
        /\ Frame("turnCompleted", None).kind = "turnCompleted" /\ Frame("turnCompleted", None).call = None
        /\ \A m \in 1..Len(inbox') : inbox'[m].kind \in AboutCall => inbox'[m].call \in Calls
        /\ \A q, d : In(inbox', q, d) <=> In(inbox, q, d) \/ (q = "turnCompleted" /\ d = None)
    <3>1. Frame("turnCompleted", None) \in InFrame /\ Frame("turnCompleted", None).kind = "turnCompleted" /\ Frame("turnCompleted", None).call = None
      BY DEF Frame, InFrame, Kinds, MaybeCall
    <3>2. Append(inbox, Frame("turnCompleted", None)) \in Seq(InFrame) /\ Pushed(inbox, Append(inbox, Frame("turnCompleted", None)), Frame("turnCompleted", None))
      BY <3>1, <1>t, PushedSeq
    <3>3. Pushed(inbox, inbox', Frame("turnCompleted", None))
      BY <3>2, <2>g
    <3>4. \A q, d : In(inbox', q, d) <=> In(inbox, q, d) \/ (q = "turnCompleted" /\ d = None)
      BY <3>1, <3>3, InPushed
    <3>5. \A m \in 1..Len(inbox') : inbox'[m].kind \in AboutCall => inbox'[m].call \in Calls
      BY <3>1, <3>3, <1>a DEF Pushed, SessionTypeOK, AboutCall
    <3>. QED  BY <3>1, <3>2, <3>3, <3>4, <3>5
  <2>1. SessionTypeOK'
    <3>inbox. inbox' \in Seq(InFrame)
      BY <2>i, <2>g
    <3>native. native' \in NatState
      BY <1>t, <1>8 DEF NatState
    <3>. QED  BY <1>t, <2>g, <3>inbox, <3>native, <2>i, <1>a DEF SessionTypeOK
  <2>2. QueueInv'
    BY <1>t, <2>h, <2>g, <2>i, <1>b, <1>c DEF QueueInv, QueueOK
  <2>3. HandlerInv'
    BY <1>t, <2>h, <2>g, <2>i, <1>c DEF HandlerInv
  <2>4. EndInv'
    BY <1>t, <2>h, <2>g, <2>i, <1>b, <1>c, <1>d DEF EndInv, BeforeSession, AllJoined
  <2>5. HonestInv'
    <3> SUFFICES ASSUME native.honest, ses.failure = "none", ~ses.closing
                 PROVE  RpcInv' /\ TurnInv' /\ PipeInv' /\ \A d \in Calls : CallInv(d)'
      BY <2>g, <1>e DEF HonestInv
    <3>0. RpcInv /\ TurnInv /\ PipeInv /\ \A d \in Calls : CallInv(d)
      BY <1>e DEF HonestInv
    <3>d. \A m \in 1..Len(inbox) : FrameOK(m)
      BY <3>0 DEF PipeInv
    <3>c. ~In(inbox, "turnCompleted", None) /\ ~ses.completed
      BY <3>0, <2>h DEF TurnInv
    <3>f. ASSUME NEW m \in 1..Len(inbox'), m = Len(inbox') PROVE FrameOK(m)'
      <4>1. inbox'[m].kind = "turnCompleted" /\ inbox'[m].call = None
        BY <3>f, <2>i DEF Pushed
      <4>2. Bound(m)'
        <5>1. ASSUME NEW j \in 1..Len(inbox'), inbox'[j].kind = "reply" PROVE j < m
          BY <5>1, <4>1, <3>f, <2>i DEF Pushed
        <5>2. native.answered = 5
          BY <3>0, <2>h DEF TurnInv
        <5>. QED  BY <5>1, <5>2, <2>g DEF Bound
      <4>3. ~ses'.completed /\ native'.ended /\ native'.final
        BY <3>0, <2>g, <2>h DEF TurnInv
      <4>. QED  BY <4>1, <4>2, <4>3 DEF FrameOK, AboutCall
    <3>w. \A d \in Calls : Writing(d)' <=> Writing(d)
      BY <2>g DEF Writing
    <3>k. native.asked \in Nat /\ native.answered \in Nat /\ ses.at \in 0..5
      BY <1>t DEF NatState, SesState
    <3>1. RpcInv'
      <4>1. In(inbox', "reply", None) <=> In(inbox, "reply", None)
        BY <2>i
      <4>. QED  BY <3>0, <4>1, <2>g DEF RpcInv
    <3>2. TurnInv'
      <4>1. \A q, d : q # "turnCompleted" => (In(inbox', q, d) <=> In(inbox, q, d))
        BY <2>i
      <4>2. In(inbox', "turnCompleted", None)
        BY <2>i
      <4>. QED  BY <3>0, <3>c, <4>1, <4>2, <2>g, <2>h DEF TurnInv
    <3>3. PipeInv'
      <4> DEFINE x == Frame("turnCompleted", None)
      <4>1. ses' = ses /\ native'.asked = native.asked /\ native'.answered \in Nat /\ native'.answered >= native.answered
        BY <2>g, <3>k
      <4>2. (native.begun => native'.begun) /\ (native.final => native'.final) /\ (native.ended => native'.ended)
        BY <2>g
      <4>3. (native'.answered = native.answered /\ x.kind # "reply") \/ native.answered # 5
        BY <2>g, <2>i, <3>k
      <4>4. x.kind # "notice" => ~In(inbox, x.kind, x.call)
        BY <2>i, <3>c
      <4>5. x.kind = "started" => ~In(inbox, "call", x.call)
        BY <2>i, <3>c
      <4>6. x.kind \in AboutCall => \A m \in 1..Len(inbox) : inbox[m].kind # "final"
        BY <2>i, <3>c DEF AboutCall
      <4>7. x.kind \in AboutCall \cup {"turnStarted", "final"} => \A m \in 1..Len(inbox) : inbox[m].kind # "turnCompleted"
        BY <2>i, <3>c DEF AboutCall
      <4> HIDE DEF x
      <4>8. Pushed(inbox, inbox', x)
        BY <2>i DEF x
      <4>. QED  BY <3>0, <3>f, <3>k, <4>1, <4>2, <4>3, <4>4, <4>5, <4>6, <4>7, <4>8, PipePushed
    <3>4. ASSUME NEW d \in Calls PROVE CallInv(d)'
      <4>1. CallInv(d)
        BY <3>0
      <4>2. \A q : q \in AboutCall => (In(inbox', q, d) <=> In(inbox, q, d))
        BY <2>i DEF AboutCall
      <4>. QED  BY <4>1, <4>2, <3>w, <2>g DEF CallInv, AboutCall
    <3>. QED  BY <3>1, <3>2, <3>3, <3>4
  <2>. QED  BY <2>1, <2>2, <2>3, <2>4, <2>5 DEF SessionInv
<1>9. ASSUME NEW kind \in Kinds,
             NEW c \in Calls,
             native.up,
             ses.failure = "none",
             ~ses.closing,
             ~native.honest,
             inbox' = Append(inbox, Frame(kind, c)),
             native' = [native EXCEPT !.wild = native.wild + 1],
             UNCHANGED <<ses, calls, wr, fin, slot, ran>>
     PROVE  SessionInv'
  <2>h. kind \in Kinds /\ c \in Calls /\ native.up /\ ses.failure = "none" /\ ~ses.closing /\ ~native.honest
    BY <1>9
  <2>g. /\ ses' = ses /\ calls' = calls /\ inbox' = Append(inbox, Frame(kind, c)) /\ wr' = wr /\ native'.up = native.up
        /\ native'.honest = native.honest /\ native'.asked = native.asked /\ native'.answered = native.answered
        /\ native'.begun = native.begun /\ native'.final = native.final /\ native'.ended = native.ended
        /\ native'.tools = native.tools /\ native'.wild = native.wild + 1 /\ fin' = fin /\ slot' = slot /\ ran' = ran
    BY <1>t, <1>9 DEF NatState
  <2>i. /\ Append(inbox, Frame(kind, c)) \in Seq(InFrame)
        /\ \A m \in 1..Len(inbox') : inbox'[m].kind \in AboutCall => inbox'[m].call \in Calls
    <3>1. Frame(kind, c) \in InFrame /\ Frame(kind, c).call = c
      BY <2>h DEF Frame, InFrame, MaybeCall
    <3>2. Append(inbox, Frame(kind, c)) \in Seq(InFrame) /\ Pushed(inbox, Append(inbox, Frame(kind, c)), Frame(kind, c))
      BY <3>1, <1>t, PushedSeq
    <3>3. Pushed(inbox, inbox', Frame(kind, c))
      BY <3>2, <2>g
    <3>5. \A m \in 1..Len(inbox') : inbox'[m].kind \in AboutCall => inbox'[m].call \in Calls
      BY <3>1, <3>3, <1>a, <2>h DEF Pushed, SessionTypeOK
    <3>. QED  BY <3>2, <3>5
  <2>1. SessionTypeOK'
    <3>inbox. inbox' \in Seq(InFrame)
      BY <2>i, <2>g
    <3>native. native' \in NatState
      <4>1. native.wild + 1 \in Nat
        BY <1>t DEF NatState
      <4>. QED  BY <1>t, <1>9, <4>1 DEF NatState
    <3>. QED  BY <1>t, <2>g, <3>inbox, <3>native, <2>i, <1>a DEF SessionTypeOK
  <2>2. QueueInv'
    BY <1>t, <2>h, <2>g, <2>i, <1>b, <1>c DEF QueueInv, QueueOK
  <2>3. HandlerInv'
    BY <1>t, <2>h, <2>g, <2>i, <1>c DEF HandlerInv
  <2>4. EndInv'
    BY <1>t, <2>h, <2>g, <2>i, <1>b, <1>c, <1>d DEF EndInv, BeforeSession, AllJoined
  <2>5. HonestInv'
    BY <2>g, <2>h DEF HonestInv
  <2>. QED  BY <2>1, <2>2, <2>3, <2>4, <2>5 DEF SessionInv
<1>10. CanSend => native.up /\ ses.failure = "none" /\ ~ses.closing
  BY DEF CanSend
<1>11. CASE ~native.honest /\ WildFrame
  BY <1>9, <1>10, <1>11 DEF NativeSends, WildFrame, Sends
<1>12. CASE HonestFrame
  <2>0. CanSend /\ UNCHANGED <<ses, calls, wr, fin, slot, ran>>
    BY DEF NativeSends
  <2>1. ASSUME native.answered < native.asked, Sends(Frame("reply", None)), native' = [native EXCEPT !.answered = @ + 1]
        PROVE  SessionInv'
    BY <1>1, <1>10, <2>0, <2>1 DEF Sends
  <2>2. ASSUME native.asked = 5, ~native.begun, Sends(Frame("turnStarted", None)), native' = [native EXCEPT !.begun = TRUE]
        PROVE  SessionInv'
    BY <1>2, <1>10, <2>0, <2>2 DEF Sends
  <2>3. ASSUME native.answered >= 4, Sends(Frame("notice", None)), native' = [native EXCEPT !.wild = @ + 1]
        PROVE  SessionInv'
    BY <1>3, <1>10, <2>0, <2>3 DEF Sends
  <2>4. ASSUME NEW c \in Calls,
               NEW step \in {<<"unknown", "started">>, <<"started", "call">>, <<"answered", "completed">>},
               native.answered = 5, native.begun, ~native.final, native.tools[c] = step[1], Sends(Frame(step[2], c)),
               native' = [native EXCEPT !.tools[c] = step[2]]
        PROVE  SessionInv'
    <3>1. CASE step = <<"unknown", "started">>
      BY <1>4, <1>10, <2>0, <2>4, <3>1 DEF Sends
    <3>2. CASE step = <<"started", "call">>
      BY <1>5, <1>10, <2>0, <2>4, <3>2 DEF Sends
    <3>3. CASE step = <<"answered", "completed">>
      BY <1>6, <1>10, <2>0, <2>4, <3>3 DEF Sends
    <3>. QED  BY <2>4, <3>1, <3>2, <3>3
  <2>5. ASSUME native.answered = 5, native.begun, ~native.final, \A c \in Calls : native.tools[c] \in {"unknown", "completed"},
               Sends(Frame("final", None)), native' = [native EXCEPT !.final = TRUE]
        PROVE  SessionInv'
    BY <1>7, <1>10, <2>0, <2>5 DEF Sends
  <2>6. ASSUME native.final, ~native.ended, Sends(Frame("turnCompleted", None)), native' = [native EXCEPT !.ended = TRUE]
        PROVE  SessionInv'
    BY <1>8, <1>10, <2>0, <2>6 DEF Sends
  <2>. QED  BY <1>12, <2>1, <2>2, <2>3, <2>4, <2>5, <2>6 DEF HonestFrame
<1>. QED  BY <1>11, <1>12 DEF NativeSends

LEMMA SessionMoves == SessionInv /\ [SessionNext]_sessionVars => SessionInv'
<1>1. ASSUME SessionInv, UNCHANGED sessionVars PROVE SessionInv'
  <2>1. SessionTypeOK' /\ QueueInv' /\ HandlerInv' /\ EndInv'
    BY <1>1 DEF SessionInv, sessionVars, SessionTypeOK, QueueInv, QueueOK, HandlerInv, EndInv, BeforeSession, AllJoined
  <2>2. HonestInv'
    BY <1>1 DEF SessionInv, sessionVars, HonestInv, RpcInv, TurnInv, PipeInv, FrameOK, OrderOK, Bound, CallInv, Writing
  <2>. QED  BY <2>1, <2>2 DEF SessionInv
<1>2. ASSUME SessionInv, SessionNext PROVE SessionInv'
  BY <1>2, InterruptedKeeps, NativeExitsKeeps, BeginWriteKeeps, DropWriteKeeps, WriteArrivesKeeps, WriteSettlesKeeps,
     LaunchKeeps, NextRpcKeeps, InvokeKeeps, InvokedKeeps, RespondKeeps, AnswerRefusedKeeps, CloseKeeps,
     JoinProcessKeeps, JoinHandlersKeeps, JoinBrokerKeeps, ReturnKeeps, RunKeeps, ExecuteKeeps, StopKeeps, StoppedKeeps,
     MessageKeeps, NativeSendsKeeps
  DEF SessionNext, SessionStep
<1>. QED  BY <1>1, <1>2

\* A native process that keeps the protocol is never refused: whatever the
\* order in which its frames, the session's writes and the tools' handlers
\* interleave, the session's checks of a message (codex-managed-session.ts)
\* accept the frame at the head of the pipe.
THEOREM HonestIsNotAccused == SessionSpec => []HonestNotAccused
<1>1. SessionInv => HonestNotAccused
  BY DEF SessionInv, HonestInv, HonestNotAccused
<1>. QED  BY <1>1, InitSession, SessionMoves, PTL DEF SessionSpec

\* A stop that reports its proof (stop in codex-managed-task-adapter.ts) leaves
\* no process, no running tool, no open write and no frame to be handled.
THEOREM ProvenStop == SessionSpec => []ProvenStopIsQuiet
<1>1. SessionInv => ProvenStopIsQuiet
  BY DEF SessionInv, QueueInv, EndInv, BeforeSession, AllJoined, ProvenStopIsQuiet
<1>. QED  BY <1>1, InitSession, SessionMoves, PTL DEF SessionSpec

\* A completed turn has its output, its calls answered and everything joined,
\* and the broker ran a call at most once (codex-managed-ledger.ts).
THEOREM CompletionWhole == SessionSpec => []CompletionIsWhole
<1>1. SessionInv => CompletionIsWhole
  BY DEF SessionInv, HandlerInv, EndInv, AllJoined, CompletionIsWhole
<1>. QED  BY <1>1, InitSession, SessionMoves, PTL DEF SessionSpec
=============================================================================
