--------------------------- MODULE SingleRunProofs ---------------------------
(***************************************************************************)
(* The runs that have one provider process each, for any numbers of runs,  *)
(* tool calls, turns, records and frames: a contact run keeps the account  *)
(* for as long as something of it is left, and so implements               *)
(* AccountCustody; the offline diagnostic gives its lease back only when   *)
(* its provider is gone; the journal of a codex process says what is so.   *)
(***************************************************************************)
EXTENDS SingleRun, OfflineDiagnostic, CodexCustody, Integers, TLAPS

Steps == {"asked", "preflight", "catalog", "stage", "stream", "close", "leave",
          "turn", "reply", "tools", "wait", "answered", "settled", "returned"}
RunState == [at : Steps, via : {"sdk", "api"}, work : {"respond", "classify"},
             aborted : BOOLEAN, admitted : BOOLEAN, seen : BOOLEAN, failed : BOOLEAN,
             stopped : BOOLEAN, dir : BOOLEAN, turn : Nat, calls : Nat, used : Nat,
             outcome : {"none", "done", "stopped", "error", "refused"}]
BrokerState == [waiting : Nat, running : BOOLEAN, revoked : BOOLEAN, told : BOOLEAN]

SingleTypeOK ==
    /\ holder \in Contacts \cup {Vacant}
    /\ single \in [Contacts -> RunState]
    /\ broker \in [Contacts -> BrokerState]
    /\ sdk \in [Contacts -> {"none", "alive", "gone"}]

Answered == {"answered", "settled", "returned"}

\* Between its admission and its settlement a run has the account.
KeepsAccount(c) ==
    single[c].at \notin {"asked", "settled", "returned"} => holder = c

\* A run whose stop was not proven ends in an error, for which the settlement
\* keeps the account; a live process is one whose stop was not proven.
StopUnproven(c) ==
    /\ single[c].at \in {"stage", "stream", "close", "leave"} => single[c].dir
    /\ ~single[c].stopped =>
         /\ single[c].via = "sdk"
         /\ single[c].at \in {"stream", "close", "leave"} \cup Answered
         /\ single[c].at \in Answered => single[c].outcome = "error"
    /\ sdk[c] = "alive" => ~single[c].stopped /\ single[c].dir /\ holder = c

\* No call before the admission; the API adapter awaits each of its calls.
CallsAwaited(c) ==
    /\ broker[c].waiting > 0 \/ broker[c].running => single[c].at # "asked"
    /\ single[c].via = "api" =>
         /\ broker[c].waiting > 0 \/ broker[c].running => single[c].at = "wait" /\ ~broker[c].told
         /\ broker[c].running => broker[c].waiting = 0
         /\ broker[c].waiting \in {0, 1}

RunInv(c) == KeepsAccount(c) /\ StopUnproven(c) /\ CallsAwaited(c)
SingleInv == SingleTypeOK /\ \A c \in Contacts : RunInv(c)

LEMMA InitSingle == SingleInit => SingleInv
<1> SUFFICES ASSUME SingleInit PROVE SingleInv  OBVIOUS
<1>1. SingleTypeOK
  BY DEF SingleInit, SingleTypeOK, RunState, Steps, BrokerState
<1>2. ASSUME NEW c \in Contacts PROVE RunInv(c)
  BY DEF SingleInit, RunInv, KeepsAccount, StopUnproven, CallsAwaited, Answered
<1>. QED  BY <1>1, <1>2 DEF SingleInv

\* What a step of one run leaves alone: the others' state, and the account
\* unless that run has it or nobody has.
OnlyRun(c) ==
    /\ single' = [single EXCEPT ![c] = single'[c]]
    /\ broker' = [broker EXCEPT ![c] = broker'[c]]
    /\ sdk' = [sdk EXCEPT ![c] = sdk'[c]]
    /\ holder' = holder \/ (holder = Vacant /\ holder' = c) \/ (holder = c /\ holder' = Vacant)
KeepsTypes(c) ==
    single'[c] \in RunState /\ broker'[c] \in BrokerState /\ sdk'[c] \in {"none", "alive", "gone"}

\* It is then enough to look at the run that moved.
LEMMA OneMoves ==
  ASSUME SingleInv, NEW c \in Contacts, OnlyRun(c), KeepsTypes(c), RunInv(c)'
  PROVE  SingleInv'
<1>1. SingleTypeOK'
  BY DEF SingleInv, SingleTypeOK, OnlyRun, KeepsTypes
<1>2. ASSUME NEW d \in Contacts, d # c PROVE RunInv(d)'
  <2>1. single'[d] = single[d] /\ broker'[d] = broker[d] /\ sdk'[d] = sdk[d]
    BY <1>2 DEF OnlyRun, SingleInv, SingleTypeOK
  <2>2. holder = d => holder' = d
    BY <1>2, SingleRunAssumption DEF OnlyRun
  <2>. QED  BY <2>1, <2>2 DEF SingleInv, RunInv, KeepsAccount, StopUnproven, CallsAwaited
<1>. QED  BY <1>1, <1>2 DEF SingleInv

LEMMA AbortRunKeeps ==
  ASSUME SingleInv, NEW c \in Contacts, AbortRun(c)
  PROVE  SingleInv'
<1>0. single[c] \in RunState /\ broker[c] \in BrokerState /\ sdk[c] \in {"none", "alive", "gone"}
  BY DEF SingleInv, SingleTypeOK
<1>1. OnlyRun(c)
  BY SingleRunAssumption DEF SingleInv, SingleTypeOK, OnlyRun, AbortRun, Stands, Sdk, Api, Moves, Ends
<1>2. KeepsTypes(c)
  BY ZenonT(60), <1>0, SingleRunAssumption DEF SingleInv, SingleTypeOK, KeepsTypes, AbortRun, Stands, Sdk, Api, Moves, Ends, RunState, Steps, BrokerState
<1>3. RunInv(c)'
  BY SingleRunAssumption DEF SingleInv, SingleTypeOK, RunInv, KeepsAccount, StopUnproven,
     CallsAwaited, Answered, AbortRun, Stands, Sdk, Api, Moves, Ends, RunState, BrokerState
<1>. QED  BY <1>1, <1>2, <1>3, OneMoves

LEMMA AdmitRunKeeps ==
  ASSUME SingleInv, NEW c \in Contacts, AdmitRun(c)
  PROVE  SingleInv'
<1>0. single[c] \in RunState /\ broker[c] \in BrokerState /\ sdk[c] \in {"none", "alive", "gone"}
  BY DEF SingleInv, SingleTypeOK
<1>1. OnlyRun(c)
  BY SingleRunAssumption DEF SingleInv, SingleTypeOK, OnlyRun, AdmitRun, Stands, Sdk, Api, Moves, Ends
<1>2. KeepsTypes(c)
  BY <1>0, SingleRunAssumption DEF SingleInv, SingleTypeOK, KeepsTypes, AdmitRun, Stands, Sdk, Api, Moves, Ends, RunState, Steps, BrokerState
<1>3. RunInv(c)'
  BY SingleRunAssumption DEF SingleInv, SingleTypeOK, RunInv, KeepsAccount, StopUnproven,
     CallsAwaited, Answered, AdmitRun, Stands, Sdk, Api, Moves, Ends, RunState, BrokerState
<1>. QED  BY <1>1, <1>2, <1>3, OneMoves

LEMMA SettleRunKeeps ==
  ASSUME SingleInv, NEW c \in Contacts, SettleRun(c)
  PROVE  SingleInv'
<1>0. single[c] \in RunState /\ broker[c] \in BrokerState /\ sdk[c] \in {"none", "alive", "gone"}
  BY DEF SingleInv, SingleTypeOK
<1>1. OnlyRun(c)
  BY SingleRunAssumption DEF SingleInv, SingleTypeOK, OnlyRun, SettleRun, Stands, Sdk, Api, Moves, Ends, Releases
<1>2. KeepsTypes(c)
  BY <1>0, SingleRunAssumption DEF SingleInv, SingleTypeOK, KeepsTypes, SettleRun, Stands, Sdk, Api, Moves, Ends, Releases, RunState, Steps, BrokerState
<1>3. RunInv(c)'
  BY SingleRunAssumption DEF SingleInv, SingleTypeOK, RunInv, KeepsAccount, StopUnproven,
     CallsAwaited, Answered, SettleRun, Stands, Sdk, Api, Moves, Ends, Releases, RunState, BrokerState
<1>. QED  BY <1>1, <1>2, <1>3, OneMoves

LEMMA RevokeBrokerKeeps ==
  ASSUME SingleInv, NEW c \in Contacts, RevokeBroker(c)
  PROVE  SingleInv'
<1>0. single[c] \in RunState /\ broker[c] \in BrokerState /\ sdk[c] \in {"none", "alive", "gone"}
  BY DEF SingleInv, SingleTypeOK
<1>1. OnlyRun(c)
  BY SingleRunAssumption DEF SingleInv, SingleTypeOK, OnlyRun, RevokeBroker, Stands, Sdk, Api, Moves, Ends
<1>2. KeepsTypes(c)
  BY ZenonT(60), <1>0, SingleRunAssumption DEF SingleInv, SingleTypeOK, KeepsTypes, RevokeBroker, Stands, Sdk, Api, Moves, Ends, RunState, Steps, BrokerState
<1>3. RunInv(c)'
  BY SingleRunAssumption DEF SingleInv, SingleTypeOK, RunInv, KeepsAccount, StopUnproven,
     CallsAwaited, Answered, RevokeBroker, Stands, Sdk, Api, Moves, Ends, RunState, BrokerState
<1>. QED  BY <1>1, <1>2, <1>3, OneMoves

LEMMA RecoverRunKeeps ==
  ASSUME SingleInv, NEW c \in Contacts, RecoverRun(c)
  PROVE  SingleInv'
<1>0. single[c] \in RunState /\ broker[c] \in BrokerState /\ sdk[c] \in {"none", "alive", "gone"}
  BY DEF SingleInv, SingleTypeOK
<1>1. OnlyRun(c)
  BY SingleRunAssumption DEF SingleInv, SingleTypeOK, OnlyRun, RecoverRun, Stands, Sdk, Api, Moves, Ends
<1>2. KeepsTypes(c)
  BY <1>0, SingleRunAssumption DEF SingleInv, SingleTypeOK, KeepsTypes, RecoverRun, Stands, Sdk, Api, Moves, Ends, RunState, Steps, BrokerState
<1>3. RunInv(c)'
  BY SingleRunAssumption DEF SingleInv, SingleTypeOK, RunInv, KeepsAccount, StopUnproven,
     CallsAwaited, Answered, RecoverRun, Stands, Sdk, Api, Moves, Ends, RunState, BrokerState
<1>. QED  BY <1>1, <1>2, <1>3, OneMoves

LEMMA DispatchCallKeeps ==
  ASSUME SingleInv, NEW c \in Contacts, DispatchCall(c)
  PROVE  SingleInv'
<1>0. single[c] \in RunState /\ broker[c] \in BrokerState /\ sdk[c] \in {"none", "alive", "gone"}
  BY DEF SingleInv, SingleTypeOK
<1>1. OnlyRun(c)
  BY SingleRunAssumption DEF SingleInv, SingleTypeOK, OnlyRun, DispatchCall, Stands, Sdk, Api, Moves, Ends
<1>2. KeepsTypes(c)
  BY <1>0, SingleRunAssumption DEF SingleInv, SingleTypeOK, KeepsTypes, DispatchCall, Stands, Sdk, Api, Moves, Ends, RunState, Steps, BrokerState
<1>3. RunInv(c)'
  BY SingleRunAssumption DEF SingleInv, SingleTypeOK, RunInv, KeepsAccount, StopUnproven,
     CallsAwaited, Answered, DispatchCall, Stands, Sdk, Api, Moves, Ends, RunState, BrokerState
<1>. QED  BY <1>1, <1>2, <1>3, OneMoves

LEMMA HandlerSettlesKeeps ==
  ASSUME SingleInv, NEW c \in Contacts, HandlerSettles(c)
  PROVE  SingleInv'
<1>0. single[c] \in RunState /\ broker[c] \in BrokerState /\ sdk[c] \in {"none", "alive", "gone"}
  BY DEF SingleInv, SingleTypeOK
<1>1. OnlyRun(c)
  BY SingleRunAssumption DEF SingleInv, SingleTypeOK, OnlyRun, HandlerSettles, Stands, Sdk, Api, Moves, Ends
<1>2. KeepsTypes(c)
  <2> DEFINE b1 == [broker[c] EXCEPT !.running = FALSE, !.told = TRUE]
  <2>1. b1 \in BrokerState
    BY <1>0 DEF RunState, Steps, BrokerState
  <2>2. single'[c] \in {single[c]}
    BY DEF HandlerSettles, SingleInv, SingleTypeOK, Stands, Sdk, Api, Moves, Ends, CallWaits
  <2>3. broker'[c] \in {broker[c], b1}
    BY DEF HandlerSettles, SingleInv, SingleTypeOK, Stands, Sdk, Api, Moves, Ends, CallWaits
  <2>4. sdk'[c] \in {"none", "alive", "gone"}
    BY <1>0 DEF HandlerSettles, SingleInv, SingleTypeOK, Stands, Sdk, Api, Moves, Ends, CallWaits
  <2> HIDE DEF b1
  <2>. QED  BY <1>0, <2>1, <2>2, <2>3, <2>4 DEF KeepsTypes
<1>3. RunInv(c)'
  BY SingleRunAssumption DEF SingleInv, SingleTypeOK, RunInv, KeepsAccount, StopUnproven,
     CallsAwaited, Answered, HandlerSettles, Stands, Sdk, Api, Moves, Ends, RunState, BrokerState
<1>. QED  BY <1>1, <1>2, <1>3, OneMoves

LEMMA PreflightSdkKeeps ==
  ASSUME SingleInv, NEW c \in Contacts, PreflightSdk(c)
  PROVE  SingleInv'
<1>0. single[c] \in RunState /\ broker[c] \in BrokerState /\ sdk[c] \in {"none", "alive", "gone"}
  BY DEF SingleInv, SingleTypeOK
<1>1. OnlyRun(c)
  BY SingleRunAssumption DEF SingleInv, SingleTypeOK, OnlyRun, PreflightSdk, Stands, Sdk, Api, Moves, Ends
<1>2. KeepsTypes(c)
  BY SMTT(30), <1>0, SingleRunAssumption DEF SingleInv, SingleTypeOK, KeepsTypes, PreflightSdk, Stands, Sdk, Api, Moves, Ends, RunState, Steps, BrokerState
<1>3. RunInv(c)'
  BY SingleRunAssumption DEF SingleInv, SingleTypeOK, RunInv, KeepsAccount, StopUnproven,
     CallsAwaited, Answered, PreflightSdk, Stands, Sdk, Api, Moves, Ends, RunState, BrokerState
<1>. QED  BY <1>1, <1>2, <1>3, OneMoves

LEMMA StageSdkKeeps ==
  ASSUME SingleInv, NEW c \in Contacts, StageSdk(c)
  PROVE  SingleInv'
<1>0. single[c] \in RunState /\ broker[c] \in BrokerState /\ sdk[c] \in {"none", "alive", "gone"}
  BY DEF SingleInv, SingleTypeOK
<1>1. OnlyRun(c)
  BY SingleRunAssumption DEF SingleInv, SingleTypeOK, OnlyRun, StageSdk, Stands, Sdk, Api, Moves, Ends
<1>2. KeepsTypes(c)
  BY <1>0, SingleRunAssumption DEF SingleInv, SingleTypeOK, KeepsTypes, StageSdk, Stands, Sdk, Api, Moves, Ends, RunState, Steps, BrokerState
<1>3. RunInv(c)'
  BY SingleRunAssumption DEF SingleInv, SingleTypeOK, RunInv, KeepsAccount, StopUnproven,
     CallsAwaited, Answered, StageSdk, Stands, Sdk, Api, Moves, Ends, RunState, BrokerState
<1>. QED  BY <1>1, <1>2, <1>3, OneMoves

LEMMA SpawnSdkKeeps ==
  ASSUME SingleInv, NEW c \in Contacts, SpawnSdk(c)
  PROVE  SingleInv'
<1>0. single[c] \in RunState /\ broker[c] \in BrokerState /\ sdk[c] \in {"none", "alive", "gone"}
  BY DEF SingleInv, SingleTypeOK
<1>1. OnlyRun(c)
  BY SingleRunAssumption DEF SingleInv, SingleTypeOK, OnlyRun, SpawnSdk, Stands, Sdk, Api, Moves, Ends
<1>2. KeepsTypes(c)
  <2> DEFINE k1 == [single[c] EXCEPT !.stopped = FALSE]
             k2 == [single[c] EXCEPT !.at = "close", !.stopped = FALSE, !.failed = TRUE]
  <2>1. k1 \in RunState /\ k2 \in RunState
    BY <1>0 DEF RunState, Steps, BrokerState
  <2>2. single'[c] \in {single[c], k1, k2}
    BY DEF SpawnSdk, SingleInv, SingleTypeOK, Stands, Sdk, Api, Moves, Ends, CallWaits
  <2>3. broker'[c] \in {broker[c]}
    BY DEF SpawnSdk, SingleInv, SingleTypeOK, Stands, Sdk, Api, Moves, Ends, CallWaits
  <2>4. sdk'[c] \in {"none", "alive", "gone"}
    BY <1>0 DEF SpawnSdk, SingleInv, SingleTypeOK, Stands, Sdk, Api, Moves, Ends, CallWaits
  <2> HIDE DEF k1, k2
  <2>. QED  BY <1>0, <2>1, <2>2, <2>3, <2>4 DEF KeepsTypes
<1>3. RunInv(c)'
  BY SingleRunAssumption DEF SingleInv, SingleTypeOK, RunInv, KeepsAccount, StopUnproven,
     CallsAwaited, Answered, SpawnSdk, Stands, Sdk, Api, Moves, Ends, RunState, BrokerState
<1>. QED  BY <1>1, <1>2, <1>3, OneMoves

LEMMA SdkToolCallKeeps ==
  ASSUME SingleInv, NEW c \in Contacts, SdkToolCall(c)
  PROVE  SingleInv'
<1>0. single[c] \in RunState /\ broker[c] \in BrokerState /\ sdk[c] \in {"none", "alive", "gone"}
  BY DEF SingleInv, SingleTypeOK
<1>1. OnlyRun(c)
  BY SingleRunAssumption DEF SingleInv, SingleTypeOK, OnlyRun, SdkToolCall, Stands, Sdk, Api, Moves, Ends, CallWaits
<1>2. KeepsTypes(c)
  <2> DEFINE k1 == [single[c] EXCEPT !.used = @ + 1]
             b1 == [broker[c] EXCEPT !.waiting = @ + 1, !.told = FALSE]
  <2>0. single[c].used + 1 \in Nat /\ broker[c].waiting + 1 \in Nat
    BY <1>0 DEF RunState, BrokerState
  <2>1a. k1 \in RunState
    BY <1>0, <2>0 DEF RunState, Steps
  <2>1b. b1 \in BrokerState
    BY <1>0, <2>0 DEF BrokerState
  <2>1. k1 \in RunState /\ b1 \in BrokerState
    BY <2>1a, <2>1b
  <2>2. single'[c] \in {single[c], k1}
    BY DEF SdkToolCall, SingleInv, SingleTypeOK, Stands, Sdk, Api, Moves, Ends, CallWaits
  <2>3. broker'[c] \in {broker[c], b1}
    BY DEF SdkToolCall, SingleInv, SingleTypeOK, Stands, Sdk, Api, Moves, Ends, CallWaits
  <2>4. sdk'[c] \in {"none", "alive", "gone"}
    BY <1>0 DEF SdkToolCall, SingleInv, SingleTypeOK, Stands, Sdk, Api, Moves, Ends, CallWaits
  <2> HIDE DEF k1, b1
  <2>. QED  BY <1>0, <2>1, <2>2, <2>3, <2>4 DEF KeepsTypes
<1>3. RunInv(c)'
  BY SingleRunAssumption DEF SingleInv, SingleTypeOK, RunInv, KeepsAccount, StopUnproven,
     CallsAwaited, Answered, SdkToolCall, Stands, Sdk, Api, Moves, Ends, CallWaits, RunState, BrokerState
<1>. QED  BY <1>1, <1>2, <1>3, OneMoves

LEMMA SdkEventKeeps ==
  ASSUME SingleInv, NEW c \in Contacts, SdkEvent(c)
  PROVE  SingleInv'
<1>0. single[c] \in RunState /\ broker[c] \in BrokerState /\ sdk[c] \in {"none", "alive", "gone"}
  BY DEF SingleInv, SingleTypeOK
<1>1. OnlyRun(c)
  BY SingleRunAssumption DEF SingleInv, SingleTypeOK, OnlyRun, SdkEvent, Stands, Sdk, Api, Moves, Ends
<1>2. KeepsTypes(c)
  <2> DEFINE k1 == [single[c] EXCEPT !.admitted = TRUE]
             k2 == [single[c] EXCEPT !.seen = TRUE]
             k3 == [single[c] EXCEPT !.at = "close", !.failed = TRUE]
             k4 == [single[c] EXCEPT !.at = "close"]
  <2>1. k1 \in RunState /\ k2 \in RunState /\ k3 \in RunState /\ k4 \in RunState
    BY <1>0 DEF RunState, Steps, BrokerState
  <2>2. single'[c] \in {single[c], k1, k2, k3, k4}
    BY DEF SdkEvent, SingleInv, SingleTypeOK, Stands, Sdk, Api, Moves, Ends, CallWaits
  <2>3. broker'[c] \in {broker[c]}
    BY DEF SdkEvent, SingleInv, SingleTypeOK, Stands, Sdk, Api, Moves, Ends, CallWaits
  <2>4. sdk'[c] \in {"none", "alive", "gone"}
    BY <1>0 DEF SdkEvent, SingleInv, SingleTypeOK, Stands, Sdk, Api, Moves, Ends, CallWaits
  <2> HIDE DEF k1, k2, k3, k4
  <2>. QED  BY <1>0, <2>1, <2>2, <2>3, <2>4 DEF KeepsTypes
<1>3. RunInv(c)'
  <2>1. /\ single'[c].via = single[c].via /\ single'[c].stopped = single[c].stopped
        /\ single'[c].dir = single[c].dir /\ single'[c].at \in {"stream", "close"}
    BY <1>0 DEF SdkEvent, Sdk, Api, Stands, Moves, Ends, RunState, SingleInv, SingleTypeOK
  <2>2. UNCHANGED <<holder, broker, sdk>>
    BY DEF SdkEvent
  <2>. QED  BY <1>0, <2>1, <2>2 DEF SingleInv, RunInv, KeepsAccount, StopUnproven, CallsAwaited,
              Answered, SdkEvent, Sdk, Api, Stands
<1>. QED  BY <1>1, <1>2, <1>3, OneMoves

LEMMA SdkExitsKeeps ==
  ASSUME SingleInv, NEW c \in Contacts, SdkExits(c)
  PROVE  SingleInv'
<1>0. single[c] \in RunState /\ broker[c] \in BrokerState /\ sdk[c] \in {"none", "alive", "gone"}
  BY DEF SingleInv, SingleTypeOK
<1>1. OnlyRun(c)
  BY SingleRunAssumption DEF SingleInv, SingleTypeOK, OnlyRun, SdkExits, Stands, Sdk, Api, Moves, Ends
<1>2. KeepsTypes(c)
  BY <1>0, SingleRunAssumption DEF SingleInv, SingleTypeOK, KeepsTypes, SdkExits, Stands, Sdk, Api, Moves, Ends, RunState, Steps, BrokerState
<1>3. RunInv(c)'
  BY SingleRunAssumption DEF SingleInv, SingleTypeOK, RunInv, KeepsAccount, StopUnproven,
     CallsAwaited, Answered, SdkExits, Stands, Sdk, Api, Moves, Ends, RunState, BrokerState
<1>. QED  BY <1>1, <1>2, <1>3, OneMoves

LEMMA CloseSdkKeeps ==
  ASSUME SingleInv, NEW c \in Contacts, CloseSdk(c)
  PROVE  SingleInv'
<1>0. single[c] \in RunState /\ broker[c] \in BrokerState /\ sdk[c] \in {"none", "alive", "gone"}
  BY DEF SingleInv, SingleTypeOK
<1>1. OnlyRun(c)
  BY SingleRunAssumption DEF SingleInv, SingleTypeOK, OnlyRun, CloseSdk, Stands, Sdk, Api, Moves, Ends
<1>2. KeepsTypes(c)
  BY <1>0, SingleRunAssumption DEF SingleInv, SingleTypeOK, KeepsTypes, CloseSdk, Stands, Sdk, Api, Moves, Ends, RunState, Steps, BrokerState
<1>3. RunInv(c)'
  BY SingleRunAssumption DEF SingleInv, SingleTypeOK, RunInv, KeepsAccount, StopUnproven,
     CallsAwaited, Answered, CloseSdk, Stands, Sdk, Api, Moves, Ends, RunState, BrokerState
<1>. QED  BY <1>1, <1>2, <1>3, OneMoves

LEMMA LeaveSdkKeeps ==
  ASSUME SingleInv, NEW c \in Contacts, LeaveSdk(c)
  PROVE  SingleInv'
<1>0. single[c] \in RunState /\ broker[c] \in BrokerState /\ sdk[c] \in {"none", "alive", "gone"}
  BY DEF SingleInv, SingleTypeOK
<1>1. OnlyRun(c)
  BY SingleRunAssumption DEF SingleInv, SingleTypeOK, OnlyRun, LeaveSdk, Stands, Sdk, Api, Moves, Ends, SdkAnswer
<1>2. KeepsTypes(c)
  BY <1>0, SingleRunAssumption DEF SingleInv, SingleTypeOK, KeepsTypes, LeaveSdk, Stands, Sdk, Api, Moves, Ends, SdkAnswer, RunState, Steps, BrokerState
<1>3. RunInv(c)'
  BY SingleRunAssumption DEF SingleInv, SingleTypeOK, RunInv, KeepsAccount, StopUnproven,
     CallsAwaited, Answered, LeaveSdk, Stands, Sdk, Api, Moves, Ends, SdkAnswer, RunState, BrokerState
<1>. QED  BY <1>1, <1>2, <1>3, OneMoves

LEMMA ChooseModelKeeps ==
  ASSUME SingleInv, NEW c \in Contacts, ChooseModel(c)
  PROVE  SingleInv'
<1>0. single[c] \in RunState /\ broker[c] \in BrokerState /\ sdk[c] \in {"none", "alive", "gone"}
  BY DEF SingleInv, SingleTypeOK
<1>1. OnlyRun(c)
  BY SingleRunAssumption DEF SingleInv, SingleTypeOK, OnlyRun, ChooseModel, Stands, Sdk, Api, Moves, Ends
<1>2. KeepsTypes(c)
  BY <1>0, SingleRunAssumption DEF SingleInv, SingleTypeOK, KeepsTypes, ChooseModel, Stands, Sdk, Api, Moves, Ends, RunState, Steps, BrokerState
<1>3. RunInv(c)'
  BY SingleRunAssumption DEF SingleInv, SingleTypeOK, RunInv, KeepsAccount, StopUnproven,
     CallsAwaited, Answered, ChooseModel, Stands, Sdk, Api, Moves, Ends, RunState, BrokerState
<1>. QED  BY <1>1, <1>2, <1>3, OneMoves

LEMMA SendTurnKeeps ==
  ASSUME SingleInv, NEW c \in Contacts, SendTurn(c)
  PROVE  SingleInv'
<1>0. single[c] \in RunState /\ broker[c] \in BrokerState /\ sdk[c] \in {"none", "alive", "gone"}
  BY DEF SingleInv, SingleTypeOK
<1>1. OnlyRun(c)
  BY SingleRunAssumption DEF SingleInv, SingleTypeOK, OnlyRun, SendTurn, Stands, Sdk, Api, Moves, Ends, Turns
<1>2. KeepsTypes(c)
  BY <1>0, SingleRunAssumption DEF SingleInv, SingleTypeOK, KeepsTypes, SendTurn, Stands, Sdk, Api, Moves, Ends, Turns, RunState, Steps, BrokerState
<1>3. RunInv(c)'
  BY SMTT(30), SingleRunAssumption DEF SingleInv, SingleTypeOK, RunInv, KeepsAccount, StopUnproven,
     CallsAwaited, Answered, SendTurn, Stands, Sdk, Api, Moves, Ends, Turns, RunState, BrokerState
<1>. QED  BY <1>1, <1>2, <1>3, OneMoves

LEMMA ReadReplyKeeps ==
  ASSUME SingleInv, NEW c \in Contacts, ReadReply(c)
  PROVE  SingleInv'
<1>0. single[c] \in RunState /\ broker[c] \in BrokerState /\ sdk[c] \in {"none", "alive", "gone"}
  BY DEF SingleInv, SingleTypeOK
<1>1. OnlyRun(c)
  BY SingleRunAssumption DEF SingleInv, SingleTypeOK, OnlyRun, ReadReply, Stands, Sdk, Api, Moves, Ends
<1>2. KeepsTypes(c)
  <2>2. [single[c] EXCEPT !.at = "answered", !.outcome = "done"] \in RunState
    BY <1>0 DEF RunState, Steps
  <2>3. [single[c] EXCEPT !.at = "answered", !.outcome = "stopped"] \in RunState
    BY <1>0 DEF RunState, Steps
  <2>4. ASSUME \E n \in 1..(ToolBudget - single[c].used) :
               single' = [Moves(c, "tools") EXCEPT ![c].calls = n, ![c].used = @ + n]
        PROVE  single'[c] \in RunState
    <3>1. PICK n \in 1..(ToolBudget - single[c].used) :
               single' = [Moves(c, "tools") EXCEPT ![c].calls = n, ![c].used = @ + n]
      BY <2>4
    <3> DEFINE m == Moves(c, "tools")
    <3>2. m \in [Contacts -> RunState] /\ m[c] = [single[c] EXCEPT !.at = "tools"]
      <4>1. [single[c] EXCEPT !.at = "tools"] \in RunState
        BY <1>0 DEF RunState, Steps
      <4>. QED  BY <4>1 DEF Moves, SingleInv, SingleTypeOK
    <3>3. single' = [m EXCEPT ![c].calls = n, ![c].used = @ + n]
      BY <3>1
    <3>. HIDE DEF m
    <3>4. single'[c] = [m[c] EXCEPT !.calls = n, !.used = @ + n]
      BY <3>2, <3>3
    <3>5. m[c] \in RunState /\ m[c].used = single[c].used
      BY <1>0, <3>2 DEF RunState
    <3>6. n \in Nat /\ m[c].used + n \in Nat
      BY <1>0, <3>5, SingleRunAssumption DEF RunState
    <3>. QED  BY <3>4, <3>5, <3>6 DEF RunState
  <2>5. ASSUME single' \in {Ends(c, "done"), Ends(c, "stopped")}
        PROVE  single'[c] \in RunState
    <3>1. single'[c] \in {[single[c] EXCEPT !.at = "answered", !.outcome = "done"],
                          [single[c] EXCEPT !.at = "answered", !.outcome = "stopped"]}
      BY <2>5 DEF Ends, SingleInv, SingleTypeOK
    <3>. QED  BY <2>2, <2>3, <3>1
  <2>6. single'[c] \in RunState
    BY <2>4, <2>5 DEF ReadReply
  <2>. QED  BY <1>0, <2>6 DEF KeepsTypes, ReadReply
<1>3. RunInv(c)'
  <2>1. /\ single'[c].via = single[c].via /\ single'[c].stopped = single[c].stopped
        /\ single'[c].dir = single[c].dir /\ single'[c].at \in {"answered", "tools"}
    <3>1. CASE \E n \in 1..(ToolBudget - single[c].used) :
                 single' = [Moves(c, "tools") EXCEPT ![c].calls = n, ![c].used = @ + n]
      BY <1>0, <3>1 DEF Moves, RunState, SingleInv, SingleTypeOK
    <3>2. CASE single' \in {Ends(c, "done"), Ends(c, "stopped")}
      BY <1>0, <3>2 DEF Ends, RunState, SingleInv, SingleTypeOK
    <3>. QED  BY <3>1, <3>2 DEF ReadReply
  <2>2. UNCHANGED <<holder, broker, sdk>>
    BY DEF ReadReply
  <2>. QED  BY <1>0, <2>1, <2>2 DEF SingleInv, RunInv, KeepsAccount, StopUnproven, CallsAwaited,
              Answered, ReadReply, Sdk, Api, Stands
<1>. QED  BY <1>1, <1>2, <1>3, OneMoves

LEMMA AskToolKeeps ==
  ASSUME SingleInv, NEW c \in Contacts, AskTool(c)
  PROVE  SingleInv'
<1>0. single[c] \in RunState /\ broker[c] \in BrokerState /\ sdk[c] \in {"none", "alive", "gone"}
  BY DEF SingleInv, SingleTypeOK
<1>1. OnlyRun(c)
  BY SingleRunAssumption DEF SingleInv, SingleTypeOK, OnlyRun, AskTool, Stands, Sdk, Api, Moves, Ends, CallWaits
<1>2. KeepsTypes(c)
  BY SMTT(30), <1>0, SingleRunAssumption DEF SingleInv, SingleTypeOK, KeepsTypes, AskTool, Stands, Sdk, Api, Moves, Ends, CallWaits, RunState, Steps, BrokerState
<1>3. RunInv(c)'
  BY SMTT(30), SingleRunAssumption DEF SingleInv, SingleTypeOK, RunInv, KeepsAccount, StopUnproven,
     CallsAwaited, Answered, AskTool, Stands, Sdk, Api, Moves, Ends, CallWaits, RunState, BrokerState
<1>. QED  BY <1>1, <1>2, <1>3, OneMoves

LEMMA TakeResultKeeps ==
  ASSUME SingleInv, NEW c \in Contacts, TakeResult(c)
  PROVE  SingleInv'
<1>0. single[c] \in RunState /\ broker[c] \in BrokerState /\ sdk[c] \in {"none", "alive", "gone"}
  BY DEF SingleInv, SingleTypeOK
<1>1. OnlyRun(c)
  BY SingleRunAssumption DEF SingleInv, SingleTypeOK, OnlyRun, TakeResult, Stands, Sdk, Api, Moves, Ends, ToolTold
<1>2. KeepsTypes(c)
  BY ZenonT(60), <1>0, SingleRunAssumption DEF SingleInv, SingleTypeOK, KeepsTypes, TakeResult, Stands, Sdk, Api, Moves, Ends, ToolTold, RunState, Steps, BrokerState
<1>3. RunInv(c)'
  BY SingleRunAssumption DEF SingleInv, SingleTypeOK, RunInv, KeepsAccount, StopUnproven,
     CallsAwaited, Answered, TakeResult, Stands, Sdk, Api, Moves, Ends, ToolTold, RunState, BrokerState
<1>. QED  BY <1>1, <1>2, <1>3, OneMoves

LEMMA SingleStep == SingleInv /\ [SingleNext]_singleVars => SingleInv'
<1> SUFFICES ASSUME SingleInv, [SingleNext]_singleVars PROVE SingleInv'
  OBVIOUS
<1>1. CASE UNCHANGED singleVars
  BY <1>1 DEF singleVars, SingleInv, SingleTypeOK, RunInv, KeepsAccount, StopUnproven, CallsAwaited
<1>2. CASE SingleNext
  <2>1. ASSUME NEW c \in Contacts, AbortRun(c) PROVE SingleInv'  BY <2>1, AbortRunKeeps
  <2>2. ASSUME NEW c \in Contacts, AdmitRun(c) PROVE SingleInv'  BY <2>2, AdmitRunKeeps
  <2>3. ASSUME NEW c \in Contacts, SettleRun(c) PROVE SingleInv'  BY <2>3, SettleRunKeeps
  <2>4. ASSUME NEW c \in Contacts, RevokeBroker(c) PROVE SingleInv'  BY <2>4, RevokeBrokerKeeps
  <2>5. ASSUME NEW c \in Contacts, RecoverRun(c) PROVE SingleInv'  BY <2>5, RecoverRunKeeps
  <2>6. ASSUME NEW c \in Contacts, DispatchCall(c) PROVE SingleInv'  BY <2>6, DispatchCallKeeps
  <2>7. ASSUME NEW c \in Contacts, HandlerSettles(c) PROVE SingleInv'  BY <2>7, HandlerSettlesKeeps
  <2>8. ASSUME NEW c \in Contacts, PreflightSdk(c) PROVE SingleInv'  BY <2>8, PreflightSdkKeeps
  <2>9. ASSUME NEW c \in Contacts, StageSdk(c) PROVE SingleInv'  BY <2>9, StageSdkKeeps
  <2>10. ASSUME NEW c \in Contacts, SpawnSdk(c) PROVE SingleInv'  BY <2>10, SpawnSdkKeeps
  <2>11. ASSUME NEW c \in Contacts, SdkToolCall(c) PROVE SingleInv'  BY <2>11, SdkToolCallKeeps
  <2>12. ASSUME NEW c \in Contacts, SdkEvent(c) PROVE SingleInv'  BY <2>12, SdkEventKeeps
  <2>13. ASSUME NEW c \in Contacts, SdkExits(c) PROVE SingleInv'  BY <2>13, SdkExitsKeeps
  <2>14. ASSUME NEW c \in Contacts, CloseSdk(c) PROVE SingleInv'  BY <2>14, CloseSdkKeeps
  <2>15. ASSUME NEW c \in Contacts, LeaveSdk(c) PROVE SingleInv'  BY <2>15, LeaveSdkKeeps
  <2>16. ASSUME NEW c \in Contacts, ChooseModel(c) PROVE SingleInv'  BY <2>16, ChooseModelKeeps
  <2>17. ASSUME NEW c \in Contacts, SendTurn(c) PROVE SingleInv'  BY <2>17, SendTurnKeeps
  <2>18. ASSUME NEW c \in Contacts, ReadReply(c) PROVE SingleInv'  BY <2>18, ReadReplyKeeps
  <2>19. ASSUME NEW c \in Contacts, AskTool(c) PROVE SingleInv'  BY <2>19, AskToolKeeps
  <2>20. ASSUME NEW c \in Contacts, TakeResult(c) PROVE SingleInv'  BY <2>20, TakeResultKeeps
  <2>. QED  BY <1>2, <2>1, <2>2, <2>3, <2>4, <2>5, <2>6, <2>7, <2>8, <2>9, <2>10, <2>11, <2>12, <2>13, <2>14, <2>15, <2>16, <2>17, <2>18, <2>19, <2>20 DEF SingleNext
<1>. QED  BY <1>1, <1>2

\* The types and the invariant hold in every run of the system.
THEOREM SingleInvariant == SingleSpec => []SingleInv
<1>1. SingleInv /\ [SingleNext]_singleVars => SingleInv'
  BY SingleStep
<1>. QED  BY InitSingle, <1>1, PTL DEF SingleSpec

\* The account covers everything a run started: a live process has the account
\* and its directory, and the handlers of an API run end before the account is
\* given back (runtime.ts: runAdmitted).
THEOREM AccountCovers == SingleSpec => []AccountCoversRun
<1>1. SingleInv => AccountCoversRun
  BY DEF SingleInv, SingleTypeOK, RunState, Steps, BrokerState, RunInv, KeepsAccount, StopUnproven,
     CallsAwaited, AccountCoversRun
<1>. QED  BY SingleInvariant, <1>1, PTL
-----------------------------------------------------------------------------
\* The contact runs keep the custody of the account.
Refusals == \A c \in Contacts : single[c].outcome = "refused" => single[c].at \in {"settled", "returned"}

\* How a step other than the admission changes what becomes of the run c.
Progress(c) ==
    \/ /\ single'[c].outcome = single[c].outcome
       /\ \/ single'[c].at = single[c].at
          \/ /\ single[c].at # "asked" /\ single'[c].at # "asked"
             /\ single[c].at \in {"settled", "returned"} => single'[c].at \in {"settled", "returned"}
    \/ /\ single[c].at \notin {"asked", "settled", "returned"}
       /\ single'[c].at = "answered" /\ single'[c].outcome \in {"done", "stopped", "error"}

StepsWithin(c) ==
    \/ AbortRun(c) \/ SettleRun(c) \/ RevokeBroker(c) \/ RecoverRun(c)
    \/ DispatchCall(c) \/ HandlerSettles(c)
    \/ PreflightSdk(c) \/ StageSdk(c) \/ SpawnSdk(c) \/ SdkToolCall(c) \/ SdkEvent(c)
    \/ SdkExits(c) \/ CloseSdk(c) \/ LeaveSdk(c)
    \/ ChooseModel(c) \/ SendTurn(c) \/ ReadReply(c) \/ AskTool(c) \/ TakeResult(c)

LEMMA RunsProgress ==
  ASSUME SingleInv, NEW c \in Contacts, StepsWithin(c)
  PROVE  Progress(c) /\ \A d \in Contacts : d # c => single'[d] = single[d]
<1>1. single \in [Contacts -> RunState] /\ single[c] \in RunState
  BY DEF SingleInv, SingleTypeOK
<1> DEFINE Others == \A d \in Contacts : d # c => single'[d] = single[d]
<1>2. CASE RecoverRun(c) \/ DispatchCall(c) \/ HandlerSettles(c) \/ SdkExits(c)
  BY <1>2 DEF RecoverRun, DispatchCall, HandlerSettles, SdkExits, Progress
<1>3. CASE AbortRun(c) \/ SettleRun(c) \/ RevokeBroker(c)
  BY <1>1, <1>3 DEF AbortRun, SettleRun, RevokeBroker, Moves, Stands, Progress, RunState
<1>4. CASE PreflightSdk(c) \/ StageSdk(c)
  BY <1>1, <1>4 DEF PreflightSdk, StageSdk, Moves, Ends, Stands, Sdk, Progress, RunState
<1>5. CASE SpawnSdk(c) \/ SdkToolCall(c)
  BY <1>1, <1>5 DEF SpawnSdk, SdkToolCall, Moves, Ends, Stands, Sdk, Progress, RunState
<1>6. CASE SdkEvent(c)
  BY <1>1, <1>6 DEF SdkEvent, Moves, Stands, Sdk, Progress, RunState
<1>7. CASE CloseSdk(c)
  BY <1>1, <1>7 DEF CloseSdk, Moves, Stands, Sdk, Progress, RunState
<1>8. CASE LeaveSdk(c)
  BY <1>1, <1>8 DEF LeaveSdk, SdkAnswer, Ends, Stands, Sdk, Progress, RunState
<1>9. CASE ChooseModel(c) \/ TakeResult(c)
  BY <1>1, <1>9 DEF ChooseModel, TakeResult, Moves, Ends, Stands, Api, Progress, RunState
<1>10. CASE SendTurn(c)
  BY <1>1, <1>10 DEF SendTurn, Moves, Ends, Stands, Api, Progress, RunState
<1>11. CASE ReadReply(c)
  <2>1. single[c].at = "reply"
    BY <1>11 DEF ReadReply, Api, Stands
  <2>2. CASE single' \in {Ends(c, "done"), Ends(c, "stopped")}
    BY <1>1, <2>1, <2>2 DEF Ends, Progress, RunState
  <2>3. ASSUME NEW n, single' = [Moves(c, "tools") EXCEPT ![c].calls = n, ![c].used = @ + n]
        PROVE  Progress(c) /\ Others
    BY <1>1, <2>1, <2>3 DEF Moves, Progress, RunState
  <2>. QED  BY <1>11, <2>2, <2>3 DEF ReadReply
<1>12. CASE AskTool(c)
  BY <1>1, <1>12 DEF AskTool, Moves, Ends, Stands, Api, Progress, RunState
<1>. QED  BY <1>2, <1>3, <1>4, <1>5, <1>6, <1>7, <1>8, <1>9, <1>10, <1>11, <1>12 DEF StepsWithin

LEMMA AdmittedStay ==
  ASSUME SingleInv, Refusals, NEW c \in Contacts, StepsWithin(c)
  PROVE  Refusals' /\ \A d \in Contacts : WasAdmitted(d)' <=> WasAdmitted(d)
<1>1. Progress(c) /\ \A d \in Contacts : d # c => single'[d] = single[d]
  BY RunsProgress
<1>. QED  BY <1>1 DEF Refusals, WasAdmitted, Progress

LEMMA SameCustody ==
  ASSUME UNCHANGED holder, \A d \in Contacts : sdk'[d] = "alive" <=> sdk[d] = "alive",
         \A d \in Contacts : WasAdmitted(d)' <=> WasAdmitted(d)
  PROVE  UNCHANGED Custody!custodyVars
BY DEF Custody!custodyVars

LEMMA CustodyStep ==
  ASSUME SingleInv, Refusals, [SingleNext]_singleVars
  PROVE  Refusals' /\ [Custody!CustodyNext]_(Custody!custodyVars)
<1> DEFINE acc == "account"
<1>1. CASE UNCHANGED singleVars
  <2>1. UNCHANGED <<holder, single, sdk>>
    BY <1>1 DEF singleVars
  <2>. QED  BY <2>1, SameCustody DEF Refusals, WasAdmitted
<1>2. ASSUME NEW c \in Contacts, AdmitRun(c)
      PROVE  Refusals' /\ [Custody!CustodyNext]_(Custody!custodyVars)
  <2>1. /\ single[c] \in RunState /\ single[c].at = "asked" /\ single[c].outcome # "refused" /\ UNCHANGED sdk
        /\ \A d \in Contacts : d # c => single'[d] = single[d]
    BY <1>2 DEF SingleInv, SingleTypeOK, Refusals, AdmitRun, Stands, Moves
  <2>2. CASE holder = Vacant /\ holder' = c /\ single' = Moves(c, IF single[c].via = "sdk" THEN "preflight" ELSE "catalog")
    <3>1. single'[c].at # "asked" /\ single'[c].outcome = single[c].outcome
      BY <2>1, <2>2 DEF Moves, SingleInv, SingleTypeOK, RunState
    <3>2. Refusals' /\ WasAdmitted(c)' /\ ~WasAdmitted(c) /\ \A d \in Contacts : d # c => (WasAdmitted(d)' <=> WasAdmitted(d))
      BY <2>1, <3>1 DEF Refusals, WasAdmitted
    <3>3. Custody!Acquire("account", c)
      BY <2>1, <2>2, <3>2 DEF Custody!Acquire
    <3>. QED  BY <3>2, <3>3 DEF Custody!CustodyNext
  <2>3. CASE UNCHANGED holder /\ single' = [single EXCEPT ![c].at = "settled", ![c].outcome = "refused"]
    <3>1. single'[c].at = "settled" /\ single'[c].outcome = "refused"
      BY <2>1, <2>3 DEF SingleInv, SingleTypeOK, RunState
    <3>2. Refusals' /\ \A d \in Contacts : WasAdmitted(d)' <=> WasAdmitted(d)
      BY <2>1, <3>1 DEF Refusals, WasAdmitted
    <3>. QED  BY <2>1, <2>3, <3>2, SameCustody
  <2>. QED  BY <1>2, <2>2, <2>3 DEF AdmitRun
<1>3. ASSUME NEW c \in Contacts, StepsWithin(c)
      PROVE  Refusals' /\ [Custody!CustodyNext]_(Custody!custodyVars)
  <2>1. Refusals' /\ \A d \in Contacts : WasAdmitted(d)' <=> WasAdmitted(d)
    BY <1>3, AdmittedStay
  <2>2. sdk \in [Contacts -> {"none", "alive", "gone"}] /\ c # Vacant
    BY SingleRunAssumption DEF SingleInv, SingleTypeOK
  <2>3. CASE UNCHANGED <<holder, sdk>>
    BY <2>1, <2>3, SameCustody
  <2>4. ASSUME holder = c, holder' = Vacant, UNCHANGED sdk, sdk[c] # "alive"
        PROVE  Custody!GiveBack("account")
    BY <2>1, <2>2, <2>4 DEF Custody!GiveBack
  <2>5. CASE SettleRun(c)
    <3>1. CASE Releases(c)
      <4>1. sdk[c] # "alive"
        BY <1>3, <2>5, <3>1 DEF SettleRun, Releases, Stands, SingleInv, RunInv, StopUnproven, Answered
      <4>. QED  BY <2>1, <2>4, <2>5, <3>1, <4>1 DEF SettleRun, Releases, Custody!CustodyNext
    <3>. QED  BY <2>3, <2>5, <3>1 DEF SettleRun
  <2>6. CASE RecoverRun(c)
    BY <2>1, <2>4, <2>6 DEF RecoverRun, Custody!CustodyNext
  <2>7. CASE SpawnSdk(c)
    <3>1. CASE sdk' = [sdk EXCEPT ![c] = "alive"]
      <4>1. holder = c /\ UNCHANGED holder
        BY <2>7 DEF SpawnSdk, Sdk, Stands, SingleInv, RunInv, KeepsAccount
      <4>2. Custody!Start("account")
        BY <2>1, <2>2, <3>1, <4>1 DEF Custody!Start
      <4>. QED  BY <2>1, <4>2 DEF Custody!CustodyNext
    <3>. QED  BY <2>3, <2>7, <3>1 DEF SpawnSdk
  <2>8. CASE sdk' = [sdk EXCEPT ![c] = "gone"] /\ UNCHANGED holder
    <3>1. Custody!Stop(c)
      BY <2>1, <2>2, <2>8 DEF Custody!Stop
    <3>. QED  BY <2>1, <3>1 DEF Custody!CustodyNext
  <2>9. SettleRun(c) \/ RecoverRun(c) \/ SpawnSdk(c) \/ (sdk' = [sdk EXCEPT ![c] = "gone"] /\ UNCHANGED holder) \/ UNCHANGED <<holder, sdk>>
    BY <1>3 DEF StepsWithin, AbortRun, RevokeBroker, DispatchCall, HandlerSettles, PreflightSdk, StageSdk, SdkToolCall,
       SdkEvent, SdkExits, CloseSdk, LeaveSdk, ChooseModel, SendTurn, ReadReply, AskTool, TakeResult
  <2>. QED  BY <2>3, <2>5, <2>6, <2>7, <2>8, <2>9
<1>. QED  BY <1>1, <1>2, <1>3 DEF SingleNext, StepsWithin

\* Xcb.run keeps of an account what the stores promise of theirs: AccountCustody is
\* implemented (runtime.ts: runAdmitted; accounts.ts: acquire, release, recover).
THEOREM RunsKeepCustody == SingleSpec => SingleCustody
<1>1. SingleInit => Custody!CustodyInit /\ Refusals
  <2> SUFFICES ASSUME SingleInit PROVE Custody!CustodyInit /\ Refusals
    OBVIOUS
  <2>1. holder = Vacant /\ \A c \in Contacts : single[c].at = "asked" /\ single[c].outcome = "none" /\ sdk[c] = "none"
    BY DEF SingleInit
  <2>2. {c \in Contacts : sdk[c] = "alive"} = {} /\ {c \in Contacts : WasAdmitted(c)} = {}
    BY <2>1 DEF WasAdmitted
  <2>. QED  BY <2>1, <2>2 DEF Custody!CustodyInit, Refusals
<1>2. SingleInv /\ Refusals /\ [SingleNext]_singleVars => Refusals' /\ [Custody!CustodyNext]_(Custody!custodyVars)
  BY CustodyStep
<1>. QED  BY <1>1, <1>2, SingleInvariant, PTL DEF SingleSpec, SingleCustody, Custody!CustodySpec
-----------------------------------------------------------------------------
(* The offline diagnostic.                                                 *)

DiagSteps == {"begin", "refused", "prepared", "ready", "join", "joined", "between", "result", "cleanup",
              "protocol", "release", "finish", "returned", "thrown", "dead"}
Diags == [at : DiagSteps, aborted : BOOLEAN, failed : BOOLEAN, journal : BOOLEAN,
          lease : Processes \cup {"none"}, made : SUBSET Processes, bootstrapJoined : BOOLEAN,
          processJoined : BOOLEAN, protocol : {"none", "running", "joined", "unjoined"},
          configured : BOOLEAN, retained : BOOLEAN, passed : BOOLEAN]

OfflineTypeOK ==
    /\ diag \in Diags
    /\ held \in Processes \cup {"none"}
    /\ owned \in [Processes -> {"none", "alive", "gone"}]

\* A process the host made and has not joined has its lease and the stores.
OwnedInv(p) ==
    /\ owned[p] = "alive" => p \in diag.made /\ ~Joined(p)
    /\ p \in diag.made /\ ~Joined(p) => held = p /\ diag.retained

\* The order of the steps: the core is made when the sign-in process was joined.
StepInv ==
    /\ "core" \in diag.made => diag.bootstrapJoined
    /\ diag.at \in {"begin", "refused", "prepared"} => diag.made = {} /\ ~diag.passed
    /\ diag.at \in {"ready", "join", "joined", "between"} => diag.made = {"bootstrap"}
    /\ diag.at \in {"joined", "between"} => diag.bootstrapJoined
    /\ diag.at \notin {"begin", "refused", "returned", "thrown", "dead"} => diag.retained
    /\ diag.passed \/ (diag.at \in {"returned", "thrown"} /\ ~diag.retained) =>
         /\ diag.at \in {"returned", "thrown"} /\ held = "none"
         /\ \A p \in Processes : p \in diag.made => Joined(p)

OfflineInv == OfflineTypeOK /\ StepInv /\ \A p \in Processes : OwnedInv(p)

LEMMA TwoProcesses ==
  /\ "bootstrap" \in Processes /\ "core" \in Processes
  /\ \A p \in Processes : p = "bootstrap" \/ p = "core"
BY DEF Processes

LEMMA InitOffline == OfflineInit => OfflineInv
<1> SUFFICES ASSUME OfflineInit PROVE OfflineInv  OBVIOUS
<1>1. diag \in Diags
  BY DEF OfflineInit, Diags, DiagSteps, Processes
<1>2. held = "none" /\ owned = [p \in Processes |-> "none"]
  BY DEF OfflineInit
<1>3. diag.at = "begin" /\ diag.made = {} /\ diag.passed = FALSE /\ diag.bootstrapJoined = FALSE
  BY DEF OfflineInit
<1>4. OfflineTypeOK /\ StepInv
  BY <1>1, <1>2, <1>3 DEF OfflineTypeOK, StepInv
<1>5. ASSUME NEW p \in Processes PROVE OwnedInv(p)
  BY <1>2, <1>3 DEF OwnedInv
<1>. QED  BY <1>4, <1>5 DEF OfflineInv

LEMMA OpenDiagnosticKeeps ==
  ASSUME OfflineInv, OpenDiagnostic
  PROVE  OfflineInv'
<1>0. /\ diag \in Diags /\ held \in Processes \cup {"none"}
      /\ owned \in [Processes -> {"none", "alive", "gone"}]
      /\ StepInv /\ OwnedInv("bootstrap") /\ OwnedInv("core") /\ diag.at = "begin"
  BY TwoProcesses DEF OfflineInv, OfflineTypeOK, OpenDiagnostic, OfflineAt
<1>1. ASSUME diag' = Goes("refused"),
            UNCHANGED <<held, owned>>
     PROVE  OfflineInv'
  <2>1. diag' \in Diags
    BY <1>0, <1>1, TwoProcesses DEF Goes, Diags, DiagSteps
  <2>2. StepInv'
    BY <1>0, <1>1, TwoProcesses DEF Goes, StepInv, OwnedInv, Joined, Diags
  <2>3. OwnedInv("bootstrap")' /\ OwnedInv("core")' /\ OfflineTypeOK'
    BY <1>0, <1>1, <2>1, TwoProcesses DEF Goes, OwnedInv, StepInv, Joined, Diags, OfflineTypeOK
  <2>. QED  BY <2>2, <2>3, TwoProcesses DEF OfflineInv
<1>2. ASSUME diag' = [diag EXCEPT !.at = "prepared", !.retained = TRUE],
            UNCHANGED <<held, owned>>
     PROVE  OfflineInv'
  <2>1. diag' \in Diags
    BY <1>0, <1>2, TwoProcesses DEF Diags, DiagSteps
  <2>2. StepInv'
    BY <1>0, <1>2, TwoProcesses DEF StepInv, OwnedInv, Joined, Diags
  <2>3. OwnedInv("bootstrap")' /\ OwnedInv("core")' /\ OfflineTypeOK'
    BY <1>0, <1>2, <2>1, TwoProcesses DEF OwnedInv, StepInv, Joined, Diags, OfflineTypeOK
  <2>. QED  BY <2>2, <2>3, TwoProcesses DEF OfflineInv
<1>. QED
  BY <1>1, <1>2 DEF OpenDiagnostic, OnlyDiag

LEMMA AcquireBootstrapKeeps ==
  ASSUME OfflineInv, AcquireBootstrap
  PROVE  OfflineInv'
<1>0. /\ diag \in Diags /\ held \in Processes \cup {"none"}
      /\ owned \in [Processes -> {"none", "alive", "gone"}]
      /\ StepInv /\ OwnedInv("bootstrap") /\ OwnedInv("core") /\ diag.at = "prepared"
  BY TwoProcesses DEF OfflineInv, OfflineTypeOK, AcquireBootstrap, OfflineAt
<1>1. ASSUME diag' = Broken,
            UNCHANGED <<held, owned>>
     PROVE  OfflineInv'
  <2>1. diag' \in Diags
    BY <1>0, <1>1, TwoProcesses DEF Broken, Diags, DiagSteps
  <2>2. StepInv'
    BY <1>0, <1>1, TwoProcesses DEF Broken, StepInv, OwnedInv, Joined, Diags
  <2>3. OwnedInv("bootstrap")' /\ OwnedInv("core")' /\ OfflineTypeOK'
    BY <1>0, <1>1, <2>1, TwoProcesses DEF Broken, OwnedInv, StepInv, Joined, Diags, OfflineTypeOK
  <2>. QED  BY <2>2, <2>3, TwoProcesses DEF OfflineInv
<1>2. ASSUME diag' = JournalFails(Broken),
            UNCHANGED <<held, owned>>
     PROVE  OfflineInv'
  <2>1. diag' \in Diags
    BY <1>0, <1>2, TwoProcesses DEF Broken, JournalFails, Diags, DiagSteps
  <2>2. StepInv'
    BY <1>0, <1>2, TwoProcesses DEF Broken, JournalFails, StepInv, OwnedInv, Joined, Diags
  <2>3. OwnedInv("bootstrap")' /\ OwnedInv("core")' /\ OfflineTypeOK'
    BY <1>0, <1>2, <2>1, TwoProcesses DEF Broken, JournalFails, OwnedInv, StepInv, Joined, Diags, OfflineTypeOK
  <2>. QED  BY <2>2, <2>3, TwoProcesses DEF OfflineInv
<1>3. ASSUME diag' = [Broken EXCEPT !.lease = "bootstrap"],
            held' = "bootstrap" /\ UNCHANGED owned
     PROVE  OfflineInv'
  <2>1. diag' \in Diags
    BY <1>0, <1>3, TwoProcesses DEF Broken, Diags, DiagSteps
  <2>2. StepInv'
    BY <1>0, <1>3, TwoProcesses DEF Broken, StepInv, OwnedInv, Joined, Diags
  <2>3. OwnedInv("bootstrap")' /\ OwnedInv("core")' /\ OfflineTypeOK'
    BY <1>0, <1>3, <2>1, TwoProcesses DEF Broken, OwnedInv, StepInv, Joined, Diags, OfflineTypeOK
  <2>. QED  BY <2>2, <2>3, TwoProcesses DEF OfflineInv
<1>4. ASSUME diag' = [diag EXCEPT !.at = "ready", !.lease = "bootstrap", !.made = {"bootstrap"}],
            held' = "bootstrap" /\ UNCHANGED owned
     PROVE  OfflineInv'
  <2>1. diag' \in Diags
    BY <1>0, <1>4, TwoProcesses DEF Diags, DiagSteps
  <2>2. StepInv'
    BY <1>0, <1>4, TwoProcesses DEF StepInv, OwnedInv, Joined, Diags
  <2>3. OwnedInv("bootstrap")' /\ OwnedInv("core")' /\ OfflineTypeOK'
    BY <1>0, <1>4, <2>1, TwoProcesses DEF OwnedInv, StepInv, Joined, Diags, OfflineTypeOK
  <2>. QED  BY <2>2, <2>3, TwoProcesses DEF OfflineInv
<1>. QED
  BY <1>1, <1>2, <1>3, <1>4 DEF AcquireBootstrap, OnlyDiag

LEMMA AwaitReadyKeeps ==
  ASSUME OfflineInv, AwaitReady
  PROVE  OfflineInv'
<1>0. /\ diag \in Diags /\ held \in Processes \cup {"none"}
      /\ owned \in [Processes -> {"none", "alive", "gone"}]
      /\ StepInv /\ OwnedInv("bootstrap") /\ OwnedInv("core") /\ diag.at = "ready"
  BY TwoProcesses DEF OfflineInv, OfflineTypeOK, AwaitReady, OfflineAt
<1>1. ASSUME diag' = Broken,
            UNCHANGED <<held, owned>>
     PROVE  OfflineInv'
  <2>1. diag' \in Diags
    BY <1>0, <1>1, TwoProcesses DEF Broken, Diags, DiagSteps
  <2>2. StepInv'
    BY <1>0, <1>1, TwoProcesses DEF Broken, StepInv, OwnedInv, Joined, Diags
  <2>3. OwnedInv("bootstrap")' /\ OwnedInv("core")' /\ OfflineTypeOK'
    BY <1>0, <1>1, <2>1, TwoProcesses DEF Broken, OwnedInv, StepInv, Joined, Diags, OfflineTypeOK
  <2>. QED  BY <2>2, <2>3, TwoProcesses DEF OfflineInv
<1>2. ASSUME diag' = Goes("join"),
            UNCHANGED <<held, owned>>
     PROVE  OfflineInv'
  <2>1. diag' \in Diags
    BY <1>0, <1>2, TwoProcesses DEF Goes, Diags, DiagSteps
  <2>2. StepInv'
    BY <1>0, <1>2, TwoProcesses DEF Goes, StepInv, OwnedInv, Joined, Diags
  <2>3. OwnedInv("bootstrap")' /\ OwnedInv("core")' /\ OfflineTypeOK'
    BY <1>0, <1>2, <2>1, TwoProcesses DEF Goes, OwnedInv, StepInv, Joined, Diags, OfflineTypeOK
  <2>. QED  BY <2>2, <2>3, TwoProcesses DEF OfflineInv
<1>. QED
  BY <1>1, <1>2 DEF AwaitReady, OnlyDiag

LEMMA JoinFirstKeeps ==
  ASSUME OfflineInv, JoinFirst
  PROVE  OfflineInv'
<1>0. /\ diag \in Diags /\ held \in Processes \cup {"none"}
      /\ owned \in [Processes -> {"none", "alive", "gone"}]
      /\ StepInv /\ OwnedInv("bootstrap") /\ OwnedInv("core") /\ diag.at = "join"
  BY TwoProcesses DEF OfflineInv, OfflineTypeOK, JoinFirst, OfflineAt
<1>1. ASSUME NEW e \in BOOLEAN, diag' = [diag EXCEPT !.at = "joined", !.bootstrapJoined = TRUE, !.failed = @ \/ e],
            owned' = EndOf("bootstrap") /\ UNCHANGED held
     PROVE  OfflineInv'
  <2>1. diag' \in Diags
    BY <1>0, <1>1, TwoProcesses DEF Diags, DiagSteps
  <2>2. StepInv'
    BY <1>0, <1>1, TwoProcesses DEF StepInv, OwnedInv, Joined, Diags
  <2>3. OwnedInv("bootstrap")' /\ OwnedInv("core")' /\ OfflineTypeOK'
    BY <1>0, <1>1, <2>1, TwoProcesses DEF EndOf, OwnedInv, StepInv, Joined, Diags, OfflineTypeOK
  <2>. QED  BY <2>2, <2>3, TwoProcesses DEF OfflineInv
<1>2. ASSUME diag' = [diag EXCEPT !.at = "cleanup", !.failed = TRUE],
            UNCHANGED <<held, owned>>
     PROVE  OfflineInv'
  <2>1. diag' \in Diags
    BY <1>0, <1>2, TwoProcesses DEF Diags, DiagSteps
  <2>2. StepInv'
    BY <1>0, <1>2, TwoProcesses DEF StepInv, OwnedInv, Joined, Diags
  <2>3. OwnedInv("bootstrap")' /\ OwnedInv("core")' /\ OfflineTypeOK'
    BY <1>0, <1>2, <2>1, TwoProcesses DEF OwnedInv, StepInv, Joined, Diags, OfflineTypeOK
  <2>. QED  BY <2>2, <2>3, TwoProcesses DEF OfflineInv
<1>. QED
  BY <1>1, <1>2 DEF JoinFirst, OnlyDiag, JoinBootstrap

LEMMA ReleaseBootstrapKeeps ==
  ASSUME OfflineInv, ReleaseBootstrap
  PROVE  OfflineInv'
<1>0. /\ diag \in Diags /\ held \in Processes \cup {"none"}
      /\ owned \in [Processes -> {"none", "alive", "gone"}]
      /\ StepInv /\ OwnedInv("bootstrap") /\ OwnedInv("core") /\ diag.at = "joined"
  BY TwoProcesses DEF OfflineInv, OfflineTypeOK, ReleaseBootstrap, OfflineAt
<1>1. ASSUME diag' = Broken,
            UNCHANGED <<held, owned>>
     PROVE  OfflineInv'
  <2>1. diag' \in Diags
    BY <1>0, <1>1, TwoProcesses DEF Broken, Diags, DiagSteps
  <2>2. StepInv'
    BY <1>0, <1>1, TwoProcesses DEF Broken, StepInv, OwnedInv, Joined, Diags
  <2>3. OwnedInv("bootstrap")' /\ OwnedInv("core")' /\ OfflineTypeOK'
    BY <1>0, <1>1, <2>1, TwoProcesses DEF Broken, OwnedInv, StepInv, Joined, Diags, OfflineTypeOK
  <2>. QED  BY <2>2, <2>3, TwoProcesses DEF OfflineInv
<1>2. ASSUME diag' = JournalFails(Broken),
            UNCHANGED <<held, owned>>
     PROVE  OfflineInv'
  <2>1. diag' \in Diags
    BY <1>0, <1>2, TwoProcesses DEF Broken, JournalFails, Diags, DiagSteps
  <2>2. StepInv'
    BY <1>0, <1>2, TwoProcesses DEF Broken, JournalFails, StepInv, OwnedInv, Joined, Diags
  <2>3. OwnedInv("bootstrap")' /\ OwnedInv("core")' /\ OfflineTypeOK'
    BY <1>0, <1>2, <2>1, TwoProcesses DEF Broken, JournalFails, OwnedInv, StepInv, Joined, Diags, OfflineTypeOK
  <2>. QED  BY <2>2, <2>3, TwoProcesses DEF OfflineInv
<1>3. ASSUME diag' = [diag EXCEPT !.at = "between", !.lease = "none"],
            held' = "none" /\ UNCHANGED owned
     PROVE  OfflineInv'
  <2>1. diag' \in Diags
    BY <1>0, <1>3, TwoProcesses DEF Diags, DiagSteps
  <2>2. StepInv'
    BY <1>0, <1>3, TwoProcesses DEF StepInv, OwnedInv, Joined, Diags
  <2>3. OwnedInv("bootstrap")' /\ OwnedInv("core")' /\ OfflineTypeOK'
    BY <1>0, <1>3, <2>1, TwoProcesses DEF OwnedInv, StepInv, Joined, Diags, OfflineTypeOK
  <2>. QED  BY <2>2, <2>3, TwoProcesses DEF OfflineInv
<1>. QED
  BY <1>1, <1>2, <1>3 DEF ReleaseBootstrap, OnlyDiag

LEMMA AcquireCoreKeeps ==
  ASSUME OfflineInv, AcquireCore
  PROVE  OfflineInv'
<1>0. /\ diag \in Diags /\ held \in Processes \cup {"none"}
      /\ owned \in [Processes -> {"none", "alive", "gone"}]
      /\ StepInv /\ OwnedInv("bootstrap") /\ OwnedInv("core") /\ diag.at = "between"
  BY TwoProcesses DEF OfflineInv, OfflineTypeOK, AcquireCore, OfflineAt
<1>1. ASSUME diag' = Broken,
            UNCHANGED <<held, owned>>
     PROVE  OfflineInv'
  <2>1. diag' \in Diags
    BY <1>0, <1>1, TwoProcesses DEF Broken, Diags, DiagSteps
  <2>2. StepInv'
    BY <1>0, <1>1, TwoProcesses DEF Broken, StepInv, OwnedInv, Joined, Diags
  <2>3. OwnedInv("bootstrap")' /\ OwnedInv("core")' /\ OfflineTypeOK'
    BY <1>0, <1>1, <2>1, TwoProcesses DEF Broken, OwnedInv, StepInv, Joined, Diags, OfflineTypeOK
  <2>. QED  BY <2>2, <2>3, TwoProcesses DEF OfflineInv
<1>2. ASSUME diag' = [Broken EXCEPT !.lease = "core"],
            held' = "core" /\ UNCHANGED owned
     PROVE  OfflineInv'
  <2>1. diag' \in Diags
    BY <1>0, <1>2, TwoProcesses DEF Broken, Diags, DiagSteps
  <2>2. StepInv'
    BY <1>0, <1>2, TwoProcesses DEF Broken, StepInv, OwnedInv, Joined, Diags
  <2>3. OwnedInv("bootstrap")' /\ OwnedInv("core")' /\ OfflineTypeOK'
    BY <1>0, <1>2, <2>1, TwoProcesses DEF Broken, OwnedInv, StepInv, Joined, Diags, OfflineTypeOK
  <2>. QED  BY <2>2, <2>3, TwoProcesses DEF OfflineInv
<1>3. ASSUME diag' = JournalFails([Broken EXCEPT !.lease = "core"]),
            held' = "core" /\ UNCHANGED owned
     PROVE  OfflineInv'
  <2>1. diag' \in Diags
    BY <1>0, <1>3, TwoProcesses DEF Broken, JournalFails, Diags, DiagSteps
  <2>2. StepInv'
    BY <1>0, <1>3, TwoProcesses DEF Broken, JournalFails, StepInv, OwnedInv, Joined, Diags
  <2>3. OwnedInv("bootstrap")' /\ OwnedInv("core")' /\ OfflineTypeOK'
    BY <1>0, <1>3, <2>1, TwoProcesses DEF Broken, JournalFails, OwnedInv, StepInv, Joined, Diags, OfflineTypeOK
  <2>. QED  BY <2>2, <2>3, TwoProcesses DEF OfflineInv
<1>4. ASSUME diag' = [diag EXCEPT !.at = "result", !.lease = "core", !.made = @ \cup {"core"}, !.protocol = "running"],
            held' = "core" /\ UNCHANGED owned
     PROVE  OfflineInv'
  <2>1. diag' \in Diags
    BY <1>0, <1>4, TwoProcesses DEF Diags, DiagSteps
  <2>2. StepInv'
    BY <1>0, <1>4, TwoProcesses DEF StepInv, OwnedInv, Joined, Diags
  <2>3. OwnedInv("bootstrap")' /\ OwnedInv("core")' /\ OfflineTypeOK'
    BY <1>0, <1>4, <2>1, TwoProcesses DEF OwnedInv, StepInv, Joined, Diags, OfflineTypeOK
  <2>. QED  BY <2>2, <2>3, TwoProcesses DEF OfflineInv
<1>. QED
  BY <1>1, <1>2, <1>3, <1>4 DEF AcquireCore, OnlyDiag

LEMMA AwaitResultKeeps ==
  ASSUME OfflineInv, AwaitResult
  PROVE  OfflineInv'
<1>0. /\ diag \in Diags /\ held \in Processes \cup {"none"}
      /\ owned \in [Processes -> {"none", "alive", "gone"}]
      /\ StepInv /\ OwnedInv("bootstrap") /\ OwnedInv("core") /\ diag.at = "result"
  BY TwoProcesses DEF OfflineInv, OfflineTypeOK, AwaitResult, OfflineAt
<1>1. ASSUME diag' = [Goes("cleanup") EXCEPT !.configured = TRUE],
            UNCHANGED <<held, owned>>
     PROVE  OfflineInv'
  <2>1. diag' \in Diags
    BY <1>0, <1>1, TwoProcesses DEF Goes, Diags, DiagSteps
  <2>2. StepInv'
    BY <1>0, <1>1, TwoProcesses DEF Goes, StepInv, OwnedInv, Joined, Diags
  <2>3. OwnedInv("bootstrap")' /\ OwnedInv("core")' /\ OfflineTypeOK'
    BY <1>0, <1>1, <2>1, TwoProcesses DEF Goes, OwnedInv, StepInv, Joined, Diags, OfflineTypeOK
  <2>. QED  BY <2>2, <2>3, TwoProcesses DEF OfflineInv
<1>2. ASSUME diag' = Broken,
            UNCHANGED <<held, owned>>
     PROVE  OfflineInv'
  <2>1. diag' \in Diags
    BY <1>0, <1>2, TwoProcesses DEF Broken, Diags, DiagSteps
  <2>2. StepInv'
    BY <1>0, <1>2, TwoProcesses DEF Broken, StepInv, OwnedInv, Joined, Diags
  <2>3. OwnedInv("bootstrap")' /\ OwnedInv("core")' /\ OfflineTypeOK'
    BY <1>0, <1>2, <2>1, TwoProcesses DEF Broken, OwnedInv, StepInv, Joined, Diags, OfflineTypeOK
  <2>. QED  BY <2>2, <2>3, TwoProcesses DEF OfflineInv
<1>3. ASSUME diag' = [Broken EXCEPT !.configured = TRUE],
            UNCHANGED <<held, owned>>
     PROVE  OfflineInv'
  <2>1. diag' \in Diags
    BY <1>0, <1>3, TwoProcesses DEF Broken, Diags, DiagSteps
  <2>2. StepInv'
    BY <1>0, <1>3, TwoProcesses DEF Broken, StepInv, OwnedInv, Joined, Diags
  <2>3. OwnedInv("bootstrap")' /\ OwnedInv("core")' /\ OfflineTypeOK'
    BY <1>0, <1>3, <2>1, TwoProcesses DEF Broken, OwnedInv, StepInv, Joined, Diags, OfflineTypeOK
  <2>. QED  BY <2>2, <2>3, TwoProcesses DEF OfflineInv
<1>4. ASSUME diag' = [Broken EXCEPT !.protocol = "none"],
            UNCHANGED <<held, owned>>
     PROVE  OfflineInv'
  <2>1. diag' \in Diags
    BY <1>0, <1>4, TwoProcesses DEF Broken, Diags, DiagSteps
  <2>2. StepInv'
    BY <1>0, <1>4, TwoProcesses DEF Broken, StepInv, OwnedInv, Joined, Diags
  <2>3. OwnedInv("bootstrap")' /\ OwnedInv("core")' /\ OfflineTypeOK'
    BY <1>0, <1>4, <2>1, TwoProcesses DEF Broken, OwnedInv, StepInv, Joined, Diags, OfflineTypeOK
  <2>. QED  BY <2>2, <2>3, TwoProcesses DEF OfflineInv
<1>. QED
  BY <1>1, <1>2, <1>3, <1>4 DEF AwaitResult, OnlyDiag

LEMMA StopOwnedKeeps ==
  ASSUME OfflineInv, StopOwned
  PROVE  OfflineInv'
<1>0. /\ diag \in Diags /\ held \in Processes \cup {"none"}
      /\ owned \in [Processes -> {"none", "alive", "gone"}]
      /\ StepInv /\ OwnedInv("bootstrap") /\ OwnedInv("core") /\ diag.at = "cleanup"
  BY TwoProcesses DEF OfflineInv, OfflineTypeOK, StopOwned, OfflineAt
<1>1. ASSUME NEW e \in BOOLEAN, "core" \in diag.made, diag' = [Goes("protocol") EXCEPT !.processJoined = TRUE, !.failed = @ \/ e],
            owned' = EndOf("core") /\ UNCHANGED held
     PROVE  OfflineInv'
  <2>1. diag' \in Diags
    BY <1>0, <1>1, TwoProcesses DEF Goes, Diags, DiagSteps
  <2>2. StepInv'
    BY <1>0, <1>1, TwoProcesses DEF Goes, StepInv, OwnedInv, Joined, Diags
  <2>3. OwnedInv("bootstrap")' /\ OwnedInv("core")' /\ OfflineTypeOK'
    BY <1>0, <1>1, <2>1, TwoProcesses DEF Goes, EndOf, OwnedInv, StepInv, Joined, Diags, OfflineTypeOK
  <2>. QED  BY <2>2, <2>3, TwoProcesses DEF OfflineInv
<1>2. ASSUME NEW e \in BOOLEAN, "core" \in diag.made, diag' = JournalFails([Goes("protocol") EXCEPT !.processJoined = TRUE, !.failed = @ \/ e]),
            owned' = EndOf("core") /\ UNCHANGED held
     PROVE  OfflineInv'
  <2>1. diag' \in Diags
    BY <1>0, <1>2, TwoProcesses DEF Goes, JournalFails, Diags, DiagSteps
  <2>2. StepInv'
    BY <1>0, <1>2, TwoProcesses DEF Goes, JournalFails, StepInv, OwnedInv, Joined, Diags
  <2>3. OwnedInv("bootstrap")' /\ OwnedInv("core")' /\ OfflineTypeOK'
    BY <1>0, <1>2, <2>1, TwoProcesses DEF Goes, JournalFails, EndOf, OwnedInv, StepInv, Joined, Diags, OfflineTypeOK
  <2>. QED  BY <2>2, <2>3, TwoProcesses DEF OfflineInv
<1>3. ASSUME diag' = [Goes("protocol") EXCEPT !.failed = TRUE],
            UNCHANGED <<held, owned>>
     PROVE  OfflineInv'
  <2>1. diag' \in Diags
    BY <1>0, <1>3, TwoProcesses DEF Goes, Diags, DiagSteps
  <2>2. StepInv'
    BY <1>0, <1>3, TwoProcesses DEF Goes, StepInv, OwnedInv, Joined, Diags
  <2>3. OwnedInv("bootstrap")' /\ OwnedInv("core")' /\ OfflineTypeOK'
    BY <1>0, <1>3, <2>1, TwoProcesses DEF Goes, OwnedInv, StepInv, Joined, Diags, OfflineTypeOK
  <2>. QED  BY <2>2, <2>3, TwoProcesses DEF OfflineInv
<1>4. ASSUME NEW e \in BOOLEAN, "core" \notin diag.made, diag' = [diag EXCEPT !.at = "protocol", !.bootstrapJoined = TRUE, !.failed = @ \/ e],
            owned' = EndOf("bootstrap") /\ UNCHANGED held
     PROVE  OfflineInv'
  <2>1. diag' \in Diags
    BY <1>0, <1>4, TwoProcesses DEF Diags, DiagSteps
  <2>2. StepInv'
    BY <1>0, <1>4, TwoProcesses DEF StepInv, OwnedInv, Joined, Diags
  <2>3. OwnedInv("bootstrap")' /\ OwnedInv("core")' /\ OfflineTypeOK'
    BY <1>0, <1>4, <2>1, TwoProcesses DEF EndOf, OwnedInv, StepInv, Joined, Diags, OfflineTypeOK
  <2>. QED  BY <2>2, <2>3, TwoProcesses DEF OfflineInv
<1>5. ASSUME diag' = [diag EXCEPT !.at = "protocol", !.failed = TRUE],
            UNCHANGED <<held, owned>>
     PROVE  OfflineInv'
  <2>1. diag' \in Diags
    BY <1>0, <1>5, TwoProcesses DEF Diags, DiagSteps
  <2>2. StepInv'
    BY <1>0, <1>5, TwoProcesses DEF StepInv, OwnedInv, Joined, Diags
  <2>3. OwnedInv("bootstrap")' /\ OwnedInv("core")' /\ OfflineTypeOK'
    BY <1>0, <1>5, <2>1, TwoProcesses DEF OwnedInv, StepInv, Joined, Diags, OfflineTypeOK
  <2>. QED  BY <2>2, <2>3, TwoProcesses DEF OfflineInv
<1>6. ASSUME diag' = Goes("protocol"),
            UNCHANGED <<held, owned>>
     PROVE  OfflineInv'
  <2>1. diag' \in Diags
    BY <1>0, <1>6, TwoProcesses DEF Goes, Diags, DiagSteps
  <2>2. StepInv'
    BY <1>0, <1>6, TwoProcesses DEF Goes, StepInv, OwnedInv, Joined, Diags
  <2>3. OwnedInv("bootstrap")' /\ OwnedInv("core")' /\ OfflineTypeOK'
    BY <1>0, <1>6, <2>1, TwoProcesses DEF Goes, OwnedInv, StepInv, Joined, Diags, OfflineTypeOK
  <2>. QED  BY <2>2, <2>3, TwoProcesses DEF OfflineInv
<1>. QED
  BY <1>1, <1>2, <1>3, <1>4, <1>5, <1>6 DEF StopOwned, OnlyDiag, JoinBootstrap

LEMMA JoinProtocolKeeps ==
  ASSUME OfflineInv, JoinProtocol
  PROVE  OfflineInv'
<1>0. /\ diag \in Diags /\ held \in Processes \cup {"none"}
      /\ owned \in [Processes -> {"none", "alive", "gone"}]
      /\ StepInv /\ OwnedInv("bootstrap") /\ OwnedInv("core") /\ diag.at = "protocol"
  BY TwoProcesses DEF OfflineInv, OfflineTypeOK, JoinProtocol, OfflineAt
<1>1. ASSUME diag' = Goes("release"),
            UNCHANGED <<held, owned>>
     PROVE  OfflineInv'
  <2>1. diag' \in Diags
    BY <1>0, <1>1, TwoProcesses DEF Goes, Diags, DiagSteps
  <2>2. StepInv'
    BY <1>0, <1>1, TwoProcesses DEF Goes, StepInv, OwnedInv, Joined, Diags
  <2>3. OwnedInv("bootstrap")' /\ OwnedInv("core")' /\ OfflineTypeOK'
    BY <1>0, <1>1, <2>1, TwoProcesses DEF Goes, OwnedInv, StepInv, Joined, Diags, OfflineTypeOK
  <2>. QED  BY <2>2, <2>3, TwoProcesses DEF OfflineInv
<1>2. ASSUME NEW f \in BOOLEAN, diag' = [Goes("release") EXCEPT !.protocol = "joined", !.failed = @ \/ f],
            UNCHANGED <<held, owned>>
     PROVE  OfflineInv'
  <2>1. diag' \in Diags
    BY <1>0, <1>2, TwoProcesses DEF Goes, Diags, DiagSteps
  <2>2. StepInv'
    BY <1>0, <1>2, TwoProcesses DEF Goes, StepInv, OwnedInv, Joined, Diags
  <2>3. OwnedInv("bootstrap")' /\ OwnedInv("core")' /\ OfflineTypeOK'
    BY <1>0, <1>2, <2>1, TwoProcesses DEF Goes, OwnedInv, StepInv, Joined, Diags, OfflineTypeOK
  <2>. QED  BY <2>2, <2>3, TwoProcesses DEF OfflineInv
<1>3. ASSUME diag' = [Goes("release") EXCEPT !.protocol = "unjoined", !.failed = TRUE],
            UNCHANGED <<held, owned>>
     PROVE  OfflineInv'
  <2>1. diag' \in Diags
    BY <1>0, <1>3, TwoProcesses DEF Goes, Diags, DiagSteps
  <2>2. StepInv'
    BY <1>0, <1>3, TwoProcesses DEF Goes, StepInv, OwnedInv, Joined, Diags
  <2>3. OwnedInv("bootstrap")' /\ OwnedInv("core")' /\ OfflineTypeOK'
    BY <1>0, <1>3, <2>1, TwoProcesses DEF Goes, OwnedInv, StepInv, Joined, Diags, OfflineTypeOK
  <2>. QED  BY <2>2, <2>3, TwoProcesses DEF OfflineInv
<1>. QED
  BY <1>1, <1>2, <1>3 DEF JoinProtocol, OnlyDiag

LEMMA ReleaseLeaseKeeps ==
  ASSUME OfflineInv, ReleaseLease
  PROVE  OfflineInv'
<1>0. /\ diag \in Diags /\ held \in Processes \cup {"none"}
      /\ owned \in [Processes -> {"none", "alive", "gone"}]
      /\ StepInv /\ OwnedInv("bootstrap") /\ OwnedInv("core") /\ diag.at = "release"
  BY TwoProcesses DEF OfflineInv, OfflineTypeOK, ReleaseLease, OfflineAt
<1>1. ASSUME diag' = JournalFails(Goes("finish")),
            UNCHANGED <<held, owned>>
     PROVE  OfflineInv'
  <2>1. diag' \in Diags
    BY <1>0, <1>1, TwoProcesses DEF Goes, JournalFails, Diags, DiagSteps
  <2>2. StepInv'
    BY <1>0, <1>1, TwoProcesses DEF Goes, JournalFails, StepInv, OwnedInv, Joined, Diags
  <2>3. OwnedInv("bootstrap")' /\ OwnedInv("core")' /\ OfflineTypeOK'
    BY <1>0, <1>1, <2>1, TwoProcesses DEF Goes, JournalFails, OwnedInv, StepInv, Joined, Diags, OfflineTypeOK
  <2>. QED  BY <2>2, <2>3, TwoProcesses DEF OfflineInv
<1>2. ASSUME diag' = [Goes("finish") EXCEPT !.failed = TRUE],
            UNCHANGED <<held, owned>>
     PROVE  OfflineInv'
  <2>1. diag' \in Diags
    BY <1>0, <1>2, TwoProcesses DEF Goes, Diags, DiagSteps
  <2>2. StepInv'
    BY <1>0, <1>2, TwoProcesses DEF Goes, StepInv, OwnedInv, Joined, Diags
  <2>3. OwnedInv("bootstrap")' /\ OwnedInv("core")' /\ OfflineTypeOK'
    BY <1>0, <1>2, <2>1, TwoProcesses DEF Goes, OwnedInv, StepInv, Joined, Diags, OfflineTypeOK
  <2>. QED  BY <2>2, <2>3, TwoProcesses DEF OfflineInv
<1>3. ASSUME ReleasesLease, diag' = [Goes("finish") EXCEPT !.lease = "none"],
            held' = "none" /\ UNCHANGED owned
     PROVE  OfflineInv'
  <2>1. diag' \in Diags
    BY <1>0, <1>3, TwoProcesses DEF Goes, Diags, DiagSteps
  <2>2. StepInv'
    BY <1>0, <1>3, TwoProcesses DEF Goes, ReleasesLease, StepInv, OwnedInv, Joined, Diags
  <2>3. OwnedInv("bootstrap")' /\ OwnedInv("core")' /\ OfflineTypeOK'
    BY <1>0, <1>3, <2>1, TwoProcesses DEF Goes, ReleasesLease, OwnedInv, StepInv, Joined, Diags, OfflineTypeOK
  <2>. QED  BY <2>2, <2>3, TwoProcesses DEF OfflineInv
<1>4. ASSUME diag' = Goes("finish"),
            UNCHANGED <<held, owned>>
     PROVE  OfflineInv'
  <2>1. diag' \in Diags
    BY <1>0, <1>4, TwoProcesses DEF Goes, Diags, DiagSteps
  <2>2. StepInv'
    BY <1>0, <1>4, TwoProcesses DEF Goes, StepInv, OwnedInv, Joined, Diags
  <2>3. OwnedInv("bootstrap")' /\ OwnedInv("core")' /\ OfflineTypeOK'
    BY <1>0, <1>4, <2>1, TwoProcesses DEF Goes, OwnedInv, StepInv, Joined, Diags, OfflineTypeOK
  <2>. QED  BY <2>2, <2>3, TwoProcesses DEF OfflineInv
<1>. QED
  BY <1>1, <1>2, <1>3, <1>4 DEF ReleaseLease, OnlyDiag

LEMMA FinishDiagnosticKeeps ==
  ASSUME OfflineInv, FinishDiagnostic
  PROVE  OfflineInv'
<1>0. /\ diag \in Diags /\ held \in Processes \cup {"none"}
      /\ owned \in [Processes -> {"none", "alive", "gone"}]
      /\ StepInv /\ OwnedInv("bootstrap") /\ OwnedInv("core") /\ diag.at = "finish"
  BY TwoProcesses DEF OfflineInv, OfflineTypeOK, FinishDiagnostic, OfflineAt
<1>a. /\ Passed \in BOOLEAN
      /\ Passed \/ NothingOpen => held = "none" /\ \A p \in Processes : p \in diag.made => Joined(p)
  BY <1>0, TwoProcesses DEF Passed, NothingOpen, LeaseReleased, Joined, Diags
<1>1. ASSUME NothingOpen, diag' = [[diag EXCEPT !.retained = FALSE] EXCEPT !.at = "returned", !.passed = Passed],
            UNCHANGED <<held, owned>>
     PROVE  OfflineInv'
  <2>1. diag' \in Diags
    BY <1>0, <1>a, <1>1, TwoProcesses DEF Diags, DiagSteps
  <2>2. StepInv'
    BY <1>0, <1>a, <1>1, TwoProcesses DEF StepInv, OwnedInv, Joined, Diags
  <2>3. OwnedInv("bootstrap")' /\ OwnedInv("core")' /\ OfflineTypeOK'
    BY <1>0, <1>a, <1>1, <2>1, TwoProcesses DEF OwnedInv, StepInv, Joined, Diags, OfflineTypeOK
  <2>. QED  BY <2>2, <2>3, TwoProcesses DEF OfflineInv
<1>2. ASSUME diag' = [diag EXCEPT !.at = "returned", !.passed = Passed],
            UNCHANGED <<held, owned>>
     PROVE  OfflineInv'
  <2>1. diag' \in Diags
    BY <1>0, <1>a, <1>2, TwoProcesses DEF Diags, DiagSteps
  <2>2. StepInv'
    BY <1>0, <1>a, <1>2, TwoProcesses DEF StepInv, OwnedInv, Joined, Diags
  <2>3. OwnedInv("bootstrap")' /\ OwnedInv("core")' /\ OfflineTypeOK'
    BY <1>0, <1>a, <1>2, <2>1, TwoProcesses DEF OwnedInv, StepInv, Joined, Diags, OfflineTypeOK
  <2>. QED  BY <2>2, <2>3, TwoProcesses DEF OfflineInv
<1>3. ASSUME diag' = [diag EXCEPT !.at = "thrown"],
            UNCHANGED <<held, owned>>
     PROVE  OfflineInv'
  <2>1. diag' \in Diags
    BY <1>0, <1>a, <1>3, TwoProcesses DEF Diags, DiagSteps
  <2>2. StepInv'
    BY <1>0, <1>a, <1>3, TwoProcesses DEF StepInv, OwnedInv, Joined, Diags
  <2>3. OwnedInv("bootstrap")' /\ OwnedInv("core")' /\ OfflineTypeOK'
    BY <1>0, <1>a, <1>3, <2>1, TwoProcesses DEF OwnedInv, StepInv, Joined, Diags, OfflineTypeOK
  <2>. QED  BY <2>2, <2>3, TwoProcesses DEF OfflineInv
<1>4. ASSUME NothingOpen, diag' = [[diag EXCEPT !.retained = FALSE] EXCEPT !.at = "thrown"],
            UNCHANGED <<held, owned>>
     PROVE  OfflineInv'
  <2>1. diag' \in Diags
    BY <1>0, <1>a, <1>4, TwoProcesses DEF Diags, DiagSteps
  <2>2. StepInv'
    BY <1>0, <1>a, <1>4, TwoProcesses DEF StepInv, OwnedInv, Joined, Diags
  <2>3. OwnedInv("bootstrap")' /\ OwnedInv("core")' /\ OfflineTypeOK'
    BY <1>0, <1>a, <1>4, <2>1, TwoProcesses DEF OwnedInv, StepInv, Joined, Diags, OfflineTypeOK
  <2>. QED  BY <2>2, <2>3, TwoProcesses DEF OfflineInv
<1>5. ASSUME NothingOpen, diag' = [JournalFails([diag EXCEPT !.retained = FALSE]) EXCEPT !.at = "thrown"],
            UNCHANGED <<held, owned>>
     PROVE  OfflineInv'
  <2>1. diag' \in Diags
    BY <1>0, <1>a, <1>5, TwoProcesses DEF JournalFails, Diags, DiagSteps
  <2>2. StepInv'
    BY <1>0, <1>a, <1>5, TwoProcesses DEF JournalFails, StepInv, OwnedInv, Joined, Diags
  <2>3. OwnedInv("bootstrap")' /\ OwnedInv("core")' /\ OfflineTypeOK'
    BY <1>0, <1>a, <1>5, <2>1, TwoProcesses DEF JournalFails, OwnedInv, StepInv, Joined, Diags, OfflineTypeOK
  <2>. QED  BY <2>2, <2>3, TwoProcesses DEF OfflineInv
<1>6. ASSUME diag' = [JournalFails(diag) EXCEPT !.at = "thrown"],
            UNCHANGED <<held, owned>>
     PROVE  OfflineInv'
  <2>1. diag' \in Diags
    BY <1>0, <1>a, <1>6, TwoProcesses DEF JournalFails, Diags, DiagSteps
  <2>2. StepInv'
    BY <1>0, <1>a, <1>6, TwoProcesses DEF JournalFails, StepInv, OwnedInv, Joined, Diags
  <2>3. OwnedInv("bootstrap")' /\ OwnedInv("core")' /\ OfflineTypeOK'
    BY <1>0, <1>a, <1>6, <2>1, TwoProcesses DEF JournalFails, OwnedInv, StepInv, Joined, Diags, OfflineTypeOK
  <2>. QED  BY <2>2, <2>3, TwoProcesses DEF OfflineInv
<1>. QED
  BY <1>1, <1>2, <1>3, <1>4, <1>5, <1>6 DEF FinishDiagnostic, OnlyDiag

LEMMA AbortDiagnosticKeeps ==
  ASSUME OfflineInv, AbortDiagnostic
  PROVE  OfflineInv'
<1>1. /\ diag \in Diags /\ held \in Processes \cup {"none"}
      /\ owned \in [Processes -> {"none", "alive", "gone"}]
  BY DEF OfflineInv, OfflineTypeOK
<1>2. StepInv /\ OwnedInv("bootstrap") /\ OwnedInv("core")
  BY DEF OfflineInv, Processes
<1>3. diag' \in Diags
  BY <1>1 DEF AbortDiagnostic, DiagnosticOver, OfflineAt, Goes, Broken, JournalFails, OnlyDiag, Diags, DiagSteps, Processes
<1>4. OfflineTypeOK'
  BY <1>1, <1>3 DEF AbortDiagnostic, DiagnosticOver, OfflineAt, Goes, Broken, JournalFails, OnlyDiag, OfflineTypeOK, Processes
<1>5. StepInv'
  BY <1>1, <1>2 DEF AbortDiagnostic, DiagnosticOver, OfflineAt, Goes, Broken, JournalFails, OnlyDiag, StepInv, Joined, Processes, Diags
<1>6. OwnedInv("bootstrap")' /\ OwnedInv("core")'
  BY <1>1, <1>2 DEF AbortDiagnostic, DiagnosticOver, OfflineAt, Goes, Broken, JournalFails, OnlyDiag, StepInv, OwnedInv, Joined, Processes, Diags
<1>. QED  BY <1>4, <1>5, <1>6 DEF OfflineInv, Processes

LEMMA DiagnosticDiesKeeps ==
  ASSUME OfflineInv, DiagnosticDies
  PROVE  OfflineInv'
<1>1. /\ diag \in Diags /\ held \in Processes \cup {"none"}
      /\ owned \in [Processes -> {"none", "alive", "gone"}]
  BY DEF OfflineInv, OfflineTypeOK
<1>2. StepInv /\ OwnedInv("bootstrap") /\ OwnedInv("core")
  BY DEF OfflineInv, Processes
<1>3. diag' \in Diags
  BY <1>1 DEF DiagnosticDies, DiagnosticOver, OfflineAt, Goes, Broken, JournalFails, OnlyDiag, Diags, DiagSteps, Processes
<1>4. OfflineTypeOK'
  BY <1>1, <1>3 DEF DiagnosticDies, DiagnosticOver, OfflineAt, Goes, Broken, JournalFails, OnlyDiag, OfflineTypeOK, Processes
<1>5. StepInv'
  BY <1>1, <1>2 DEF DiagnosticDies, DiagnosticOver, OfflineAt, Goes, Broken, JournalFails, OnlyDiag, StepInv, Joined, Processes, Diags
<1>6. OwnedInv("bootstrap")' /\ OwnedInv("core")'
  BY <1>1, <1>2 DEF DiagnosticDies, DiagnosticOver, OfflineAt, Goes, Broken, JournalFails, OnlyDiag, StepInv, OwnedInv, Joined, Processes, Diags
<1>. QED  BY <1>4, <1>5, <1>6 DEF OfflineInv, Processes

LEMMA ProcessStartsKeeps ==
  ASSUME OfflineInv, NEW q \in Processes, ProcessStarts(q)
  PROVE  OfflineInv'
<1>1. UNCHANGED <<diag, held>>
  BY DEF ProcessStarts
<1>2. OfflineTypeOK' /\ StepInv'
  BY <1>1 DEF OfflineInv, OfflineTypeOK, StepInv, Joined, ProcessStarts
<1>3. ASSUME NEW p \in Processes PROVE OwnedInv(p)'
  BY <1>1 DEF OfflineInv, OfflineTypeOK, OwnedInv, Joined, ProcessStarts
<1>. QED  BY <1>2, <1>3 DEF OfflineInv

LEMMA ProcessEndsKeeps ==
  ASSUME OfflineInv, NEW q \in Processes, ProcessEnds(q)
  PROVE  OfflineInv'
<1>1. UNCHANGED <<diag, held>>
  BY DEF ProcessEnds
<1>2. OfflineTypeOK' /\ StepInv'
  BY <1>1 DEF OfflineInv, OfflineTypeOK, StepInv, Joined, ProcessEnds
<1>3. ASSUME NEW p \in Processes PROVE OwnedInv(p)'
  BY <1>1 DEF OfflineInv, OfflineTypeOK, OwnedInv, Joined, ProcessEnds
<1>. QED  BY <1>2, <1>3 DEF OfflineInv

LEMMA OfflineStep == OfflineInv /\ [OfflineNext]_offlineVars => OfflineInv'
<1> SUFFICES ASSUME OfflineInv, [OfflineNext]_offlineVars PROVE OfflineInv'  OBVIOUS
<1>1. CASE UNCHANGED offlineVars
  BY <1>1 DEF offlineVars, OfflineInv, OfflineTypeOK, StepInv, OwnedInv, Joined
<1>. QED
  BY <1>1, OpenDiagnosticKeeps, AcquireBootstrapKeeps, AwaitReadyKeeps, JoinFirstKeeps, ReleaseBootstrapKeeps, AcquireCoreKeeps, AwaitResultKeeps, StopOwnedKeeps, JoinProtocolKeeps, ReleaseLeaseKeeps, FinishDiagnosticKeeps, AbortDiagnosticKeeps, DiagnosticDiesKeeps, ProcessStartsKeeps, ProcessEndsKeeps DEF OfflineNext

THEOREM DiagnosticKeeps == OfflineSpec => []DiagnosticKeepsCustody
<1>1. ASSUME OfflineInv PROVE DiagnosticKeepsCustody
  <2>1. /\ StepInv /\ OwnedInv("bootstrap") /\ OwnedInv("core")
    BY <1>1, TwoProcesses DEF OfflineInv
  <2>2. ASSUME NEW p \in Processes, owned[p] = "alive" PROVE held = p /\ diag.retained
    BY <2>1, <2>2, TwoProcesses DEF OwnedInv
  <2>3. ASSUME diag.passed \/ (diag.at \in {"returned", "thrown"} /\ ~diag.retained)
        PROVE  held = "none" /\ \A p \in Processes : owned[p] # "alive"
    BY <2>1, <2>3, TwoProcesses DEF OwnedInv, StepInv
  <2>. QED  BY <2>2, <2>3 DEF DiagnosticKeepsCustody
<1>. QED  BY InitOffline, OfflineStep, <1>1, PTL DEF OfflineSpec
-----------------------------------------------------------------------------
(* The codex process and its journal.                                      *)

\* What the variables hold.
LaunchSteps == {"prepare", "intent", "discard", "spawn", "spawned", "starting", "running", "SIGTERM", "termed",
                "SIGKILL", "killed", "join", "streams", "recheck", "remove", "record", "closed", "refused"}
LaunchState ==
  [at : LaunchSteps, up : BOOLEAN, asked : BOOLEAN, pid : BOOLEAN, pgid : BOOLEAN, spawnError : BOOLEAN,
   rootExited : BOOLEAN, groupAbsent : BOOLEAN, stdioJoined : BOOLEAN, retained : BOOLEAN, errors : BOOLEAN,
   runtimeErrors : BOOLEAN, sequence : Nat, journalFailed : BOOLEAN]
Snapshots ==
  [pid : BOOLEAN, pgid : BOOLEAN, rootExited : BOOLEAN, groupAbsent : BOOLEAN, stdioJoined : BOOLEAN,
   retained : BOOLEAN]
Lines == [whole : {TRUE}, sequence : Nat, previous : Int, snapshot : Snapshots] \cup {Torn}
ShelfState == [dir : BOOLEAN, scratch : BOOLEAN, journal : Seq(Lines)]
CodexTypeOK ==
  /\ launch \in LaunchState /\ shelf \in ShelfState
  /\ world \in [root : {"none", "alive", "gone"}, members : BOOLEAN, pipes : BOOLEAN]

BeforeSpawn == {"prepare", "intent", "discard", "spawn", "refused"}

\* What the launcher has seen is so.
SeenInv ==
  /\ launch.rootExited => world.root # "alive" /\ launch.at \notin BeforeSpawn
  /\ launch.groupAbsent => launch.rootExited /\ GroupGone
  /\ launch.spawnError => world.root = "none"
  /\ launch.at \in BeforeSpawn \cup {"spawned"} => ~launch.stdioJoined /\ ~launch.pgid
  /\ launch.at = "starting" => ~launch.pgid
  /\ launch.at \in BeforeSpawn => world.root = "none" /\ ~launch.pid /\ ~launch.spawnError
  /\ world.root = "none" => ~world.members
  /\ ~launch.retained => launch.at \in {"record", "closed"} /\ AllStopped(launch) /\ ~shelf.scratch
\* The scratch is there when the codex is.
ScratchInv ==
  /\ launch.up /\ launch.at \in {"intent", "spawn"} => shelf.dir /\ shelf.scratch
  /\ ~GroupGone => shelf.dir /\ shelf.scratch
\* A line of the journal: its number, and a snapshot the launcher still stands by.
LineInv(i) ==
  LET x == shelf.journal[i] IN
  /\ ~x.whole => i = Len(shelf.journal) /\ (launch.journalFailed \/ ~launch.up)
  /\ x.whole =>
       /\ x.sequence = i - 1 /\ x.previous = i - 2 /\ i <= MaxRecords
       /\ InOrder(x.snapshot) /\ Follows(Snapshot(launch), x.snapshot)
       /\ ~x.snapshot.retained => ~launch.retained
       /\ i > 1 => Follows(x.snapshot, shelf.journal[i - 1].snapshot)
JournalInv ==
  /\ launch.at = "prepare" => shelf.journal = <<>>
  /\ \A i \in 1..Len(shelf.journal) : LineInv(i)
  /\ launch.at # "refused" /\ ~launch.journalFailed =>
       \/ Len(shelf.journal) = launch.sequence
       \/ ~launch.up
  /\ launch.at \notin BeforeSpawn \ {"spawn"} => shelf.journal # <<>> /\ shelf.journal[1].whole
  /\ launch.at = "prepare" => launch.sequence = 0 /\ ~launch.journalFailed
CodexInv == CodexTypeOK /\ SeenInv /\ ScratchInv /\ JournalInv

LEMMA InitCodex == CodexCustodyInit => CodexInv
<1> SUFFICES ASSUME CodexCustodyInit PROVE CodexInv  OBVIOUS
<1>1. CodexTypeOK
  BY DEF CodexCustodyInit, CodexTypeOK, LaunchState, LaunchSteps, ShelfState, Lines
<1>2. SeenInv /\ ScratchInv
  BY DEF CodexCustodyInit, SeenInv, ScratchInv, BeforeSpawn, GroupGone
<1>3. JournalInv
  <2>1. Len(shelf.journal) = 0 /\ shelf.journal = <<>>
    BY DEF CodexCustodyInit
  <2>2. 1..Len(shelf.journal) = {}
    BY <2>1
  <2>. QED  BY <2>1, <2>2 DEF CodexCustodyInit, JournalInv, BeforeSpawn
<1>. QED  BY <1>1, <1>2, <1>3 DEF CodexInv

\* A snapshot follows those that those before it follow.
LEMMA FollowsOn ==
  ASSUME NEW s \in Snapshots, NEW t \in Snapshots, NEW u \in Snapshots, Follows(u, t), Follows(t, s)
  PROVE  Follows(u, s)
BY DEF Follows, Snapshots

LEMMA SnapshotTyped ==
  ASSUME NEW l \in LaunchState
  PROVE  /\ Snapshot(l) \in Snapshots
         /\ Snapshot(l).pid = l.pid /\ Snapshot(l).pgid = l.pgid /\ Snapshot(l).rootExited = l.rootExited
         /\ Snapshot(l).groupAbsent = l.groupAbsent /\ Snapshot(l).stdioJoined = l.stdioJoined
         /\ Snapshot(l).retained = l.retained
BY DEF Snapshot, LaunchState, Snapshots

LEMMA LineTyped ==
  ASSUME NEW x \in Lines
  PROVE  x.whole \in BOOLEAN /\ (x.whole => x.snapshot \in Snapshots)
<1>1. CASE x = Torn
  BY <1>1 DEF Torn
<1>2. CASE x \in [whole : {TRUE}, sequence : Nat, previous : Int, snapshot : Snapshots]
  BY <1>2
<1>. QED  BY <1>1, <1>2 DEF Lines

\* The lines of a journal that is not written to.
LEMMA JournalStands ==
  ASSUME CodexInv, CodexTypeOK', shelf'.journal = shelf.journal,
         Follows(Snapshot(launch'), Snapshot(launch)),
         launch'.sequence = launch.sequence, launch'.journalFailed = launch.journalFailed,
         ~launch.retained => ~launch'.retained, launch'.up => launch.up,
         launch'.at # "prepare", launch.at # "refused",
         launch'.at \notin BeforeSpawn \ {"spawn"} => launch.at \notin BeforeSpawn \ {"spawn"}
  PROVE  JournalInv'
<1>1. launch \in LaunchState /\ launch' \in LaunchState /\ shelf.journal \in Seq(Lines)
  BY DEF CodexInv, CodexTypeOK, ShelfState
<1>2. ASSUME NEW i \in 1..Len(shelf.journal) PROVE LineInv(i)'
  <2> DEFINE x == shelf.journal[i]
  <2>1. LineInv(i) /\ x \in Lines
    BY <1>1, <1>2 DEF CodexInv, JournalInv
  <2>2. x.whole => x.snapshot \in Snapshots
    BY <2>1, LineTyped
  <2>3. x.whole => Follows(Snapshot(launch'), x.snapshot)
    BY <1>1, <2>1, <2>2, SnapshotTyped, FollowsOn DEF LineInv
  <2>4. ~x.whole => launch'.journalFailed \/ ~launch'.up
    BY <2>1 DEF LineInv
  <2>. QED  BY <2>1, <2>3, <2>4 DEF LineInv
<1>. QED  BY <1>1, <1>2 DEF CodexInv, JournalInv

\* A whole line, or a part of one, is put behind whole lines.
LEMMA JournalGrows ==
  ASSUME CodexInv, CodexTypeOK', launch.up, launch.at \notin {"prepare", "refused"}, ~launch.journalFailed,
         launch.sequence < MaxRecords, NEW line \in Lines, shelf'.journal = Append(shelf.journal, line),
         Follows(Snapshot(launch'), Snapshot(launch)), InOrder(Snapshot(launch')),
         launch'.retained = launch.retained,
         line.whole => /\ line.sequence = launch.sequence /\ line.previous = launch.sequence - 1
                       /\ line.snapshot = Snapshot(launch'),
         line.whole /\ launch'.up => launch'.journalFailed \/ launch'.sequence = launch.sequence + 1,
         ~line.whole => launch'.journalFailed \/ ~launch'.up,
         launch'.at # "prepare",
         ~line.whole /\ launch'.at \notin BeforeSpawn \ {"spawn"} => launch.at \notin BeforeSpawn \ {"spawn"}
  PROVE  JournalInv'
<1> DEFINE j == shelf.journal
           n == Len(shelf.journal)
<1>1. launch \in LaunchState /\ launch' \in LaunchState /\ j \in Seq(Lines) /\ n \in Nat
  BY DEF CodexInv, CodexTypeOK, ShelfState
<1>2. n = launch.sequence /\ n < MaxRecords /\ \A i \in 1..n : LineInv(i) /\ j[i].whole /\ j[i] \in Lines
  <2>1. n = launch.sequence
    BY <1>1 DEF CodexInv, JournalInv
  <2>2. \A i \in 1..n : LineInv(i)
    BY DEF CodexInv, JournalInv
  <2>3. \A i \in 1..n : j[i] \in Lines
    BY <1>1
  <2>4. \A i \in 1..n : j[i].whole
    BY <2>2, <2>3 DEF LineInv
  <2>. QED  BY <1>1, <2>1, <2>2, <2>3, <2>4
<1>3. /\ shelf'.journal = Append(j, line) /\ Len(shelf'.journal) = n + 1 /\ shelf'.journal[n + 1] = line
      /\ \A i \in 1..n : shelf'.journal[i] = j[i]
  BY <1>1
<1>4. Snapshot(launch') \in Snapshots /\ Snapshot(launch) \in Snapshots
  BY <1>1, SnapshotTyped
<1>5. \A i \in 1..n : j[i].snapshot \in Snapshots
  BY <1>2, LineTyped
<1>6. \A i \in 1..n : Follows(Snapshot(launch'), j[i].snapshot)
  BY <1>2, <1>4, <1>5, FollowsOn DEF LineInv
<1>7. ASSUME NEW i \in 1..n PROVE LineInv(i)'
  <2>1. shelf'.journal[i] = j[i] /\ (i > 1 => i - 1 \in 1..n /\ shelf'.journal[i - 1] = j[i - 1])
    BY <1>1, <1>3, <1>7
  <2>2. j[i].whole /\ Follows(Snapshot(launch'), j[i].snapshot) /\ LineInv(i)
    BY <1>2, <1>6, <1>7
  <2>. QED  BY <2>1, <2>2 DEF LineInv
<1>8. ASSUME NEW i \in Nat, i = n + 1 PROVE LineInv(i)'
  <2>1. CASE ~line.whole
    <3>1. ~shelf'.journal[i].whole /\ i = Len(shelf'.journal)
      BY <1>3, <1>8, <2>1
    <3>. QED  BY <2>1, <3>1 DEF LineInv
  <2>2. CASE line.whole
    <3>1. i > 1 => i - 1 = n /\ n \in 1..n /\ shelf'.journal[n] = j[n]
      BY <1>1, <1>3, <1>8
    <3>2. i > 1 => Follows(line.snapshot, shelf'.journal[i - 1].snapshot)
      BY <1>6, <2>2, <3>1
    <3>3. line.sequence = i - 1 /\ line.previous = i - 2 /\ i <= MaxRecords
      BY <1>1, <1>2, <1>8, <2>2, CustodyAssumption
    <3>4. Follows(Snapshot(launch'), line.snapshot) /\ InOrder(line.snapshot)
      BY <1>4, <2>2 DEF Follows
    <3>5. ~line.snapshot.retained => ~launch'.retained
      BY <1>1, <2>2, SnapshotTyped
    <3>6. shelf'.journal[i] = line
      BY <1>3, <1>8
    <3>. HIDE DEF n
    <3>. QED  BY <2>2, <3>2, <3>3, <3>4, <3>5, <3>6 DEF LineInv
  <2>. QED  BY <2>1, <2>2, LineTyped
<1>9. \A i \in 1..Len(shelf'.journal) : LineInv(i)'
  <2>1. \A i \in 1..Len(shelf'.journal) : i \in 1..n \/ i = n + 1
    BY <1>1, <1>3
  <2>2. \A i \in 1..n : LineInv(i)'
    BY <1>7
  <2>3. \A i \in 1..Len(shelf'.journal) : i = n + 1 => LineInv(i)'
    <3>1. Len(shelf'.journal) \in Nat
      BY <1>1, <1>3
    <3>. QED  BY <1>8, <3>1
  <2>. HIDE DEF n, j
  <2>. QED  BY <2>1, <2>2, <2>3
<1>10. launch'.at \notin BeforeSpawn \ {"spawn"} => shelf'.journal # <<>> /\ shelf'.journal[1].whole
  <2>1. CASE n = 0
    <3>1. line.whole => shelf'.journal[1].whole
      BY <1>3, <2>1
    <3>2. launch.at \in BeforeSpawn \ {"spawn"}
      <4>1. j = <<>>
        BY <1>1, <2>1
      <4>. QED  BY <4>1 DEF CodexInv, JournalInv
    <3>3. launch'.at \notin BeforeSpawn \ {"spawn"} => line.whole
      BY <3>2
    <3>4. shelf'.journal # <<>>
      BY <1>1, <1>3
    <3>. QED  BY <3>1, <3>3, <3>4
  <2>2. CASE n # 0
    BY <1>1, <1>2, <1>3, <2>2
  <2>. QED  BY <2>1, <2>2
<1>11. launch'.at # "refused" /\ ~launch'.journalFailed => Len(shelf'.journal) = launch'.sequence \/ ~launch'.up
  BY <1>2, <1>3
<1>. QED  BY <1>9, <1>10, <1>11 DEF JournalInv

\* A step that writes a record: the launcher goes on with what it recorded, and
\* the directory and the scratch are as they were.
GoesOnAs(l) ==
  /\ launch' \in LaunchState /\ launch'.at = l.at /\ launch'.up = l.up /\ launch'.asked = l.asked
  /\ launch'.pid = l.pid /\ launch'.pgid = l.pgid /\ launch'.spawnError = l.spawnError
  /\ launch'.rootExited = l.rootExited /\ launch'.groupAbsent = l.groupAbsent
  /\ launch'.stdioJoined = l.stdioJoined /\ launch'.retained = l.retained
SameShelf == shelf' \in ShelfState /\ shelf'.dir = shelf.dir /\ shelf'.scratch = shelf.scratch

LEMMA WrittenLine ==
  ASSUME CodexInv, launch.up, launch.at \notin {"prepare", "refused"}, ~launch.journalFailed,
         NEW line \in Lines, shelf' = Written(line)
  PROVE  SameShelf /\ shelf'.journal = Append(shelf.journal, line)
<1>1. shelf \in ShelfState /\ shelf.journal \in Seq(Lines)
  BY DEF CodexInv, CodexTypeOK, ShelfState
<1>2. shelf.journal # <<>> => shelf.journal[Len(shelf.journal)].whole
  <2>1. SUFFICES ASSUME shelf.journal # <<>> PROVE shelf.journal[Len(shelf.journal)].whole
    OBVIOUS
  <2>2. Len(shelf.journal) \in 1..Len(shelf.journal)
    BY <1>1, <2>1
  <2>3. LineInv(Len(shelf.journal)) /\ shelf.journal[Len(shelf.journal)] \in Lines
    BY <1>1, <2>2 DEF CodexInv, JournalInv
  <2>. QED  BY <2>3, LineTyped DEF LineInv
<1>3. shelf' = [shelf EXCEPT !.journal = Append(@, line)]
  BY <1>2 DEF Written
<1>4. Append(shelf.journal, line) \in Seq(Lines)
  BY <1>1
<1>. QED  BY <1>1, <1>3, <1>4 DEF ShelfState, SameShelf

LEMMA PersistKeeps ==
  ASSUME CodexInv, launch.up, launch.at \notin {"prepare", "refused"},
         world' \in [root : {"none", "alive", "gone"}, members : BOOLEAN, pipes : BOOLEAN],
         NEW l \in LaunchState, l.up, l.sequence = launch.sequence, l.journalFailed = launch.journalFailed,
         l.retained = launch.retained, Follows(Snapshot(l), Snapshot(launch)), InOrder(Snapshot(l)),
         l.at \notin {"prepare", "refused"}, Persisted(l) \/ PersistFails(l),
         ~Persisted(l) /\ l.at \notin BeforeSpawn \ {"spawn"} => launch.at \notin BeforeSpawn \ {"spawn"}
  PROVE  CodexTypeOK' /\ JournalInv' /\ GoesOnAs(l) /\ SameShelf
<1>1. launch \in LaunchState /\ shelf \in ShelfState /\ l.sequence \in Nat
  BY DEF CodexInv, CodexTypeOK, LaunchState
<1>2. Torn \in Lines /\ ~Torn.whole
  BY DEF Lines, Torn
<1>3. /\ Line(l) \in Lines /\ Line(l).whole /\ Line(l).sequence = l.sequence
      /\ Line(l).previous = l.sequence - 1 /\ Line(l).snapshot = Snapshot(l)
  <2>1. Snapshot(l) \in Snapshots /\ l.sequence - 1 \in Int
    BY <1>1, SnapshotTyped
  <2>. QED  BY <1>1, <2>1 DEF Line, Lines
<1>4. CASE Persisted(l)
  <2>1. ~launch.journalFailed /\ launch.sequence < MaxRecords
    BY <1>4 DEF Persisted, Persistable
  <2>2. SameShelf /\ shelf'.journal = Append(shelf.journal, Line(l))
    BY <1>3, <1>4, <2>1, WrittenLine DEF Persisted
  <2>3. l.sequence + 1 \in Nat /\ launch' = [l EXCEPT !.sequence = l.sequence + 1]
    BY <1>1, <1>4 DEF Persisted
  <2>4. GoesOnAs(l) /\ launch'.sequence = launch.sequence + 1
    <3>1. launch' \in LaunchState /\ launch'.sequence = launch.sequence + 1
      BY <2>3 DEF LaunchState
    <3>2. /\ launch'.at = l.at /\ launch'.up = l.up /\ launch'.asked = l.asked
          /\ launch'.pid = l.pid /\ launch'.pgid = l.pgid /\ launch'.spawnError = l.spawnError
      BY <2>3 DEF LaunchState
    <3>3. /\ launch'.rootExited = l.rootExited /\ launch'.groupAbsent = l.groupAbsent
          /\ launch'.stdioJoined = l.stdioJoined /\ launch'.retained = l.retained
      BY <2>3 DEF LaunchState
    <3>. QED  BY <3>1, <3>2, <3>3 DEF GoesOnAs
  <2>5. CodexTypeOK'
    BY <2>2, <2>4 DEF CodexTypeOK, GoesOnAs, SameShelf
  <2>6. Snapshot(launch') = Snapshot(l)
    BY <2>4 DEF Snapshot, GoesOnAs
  <2>7. launch'.at # "prepare" /\ launch'.retained = launch.retained
    BY <2>4 DEF GoesOnAs
  <2>8. JournalInv'
    BY <1>3, <2>1, <2>2, <2>4, <2>5, <2>6, <2>7, JournalGrows
  <2>. QED  BY <2>2, <2>4, <2>5, <2>8
<1>5. CASE PersistFails(l) /\ ~Persisted(l)
  <2>1. \/ launch' = l /\ UNCHANGED shelf
        \/ /\ ~launch.journalFailed /\ launch.sequence < MaxRecords
           /\ launch' = [l EXCEPT !.journalFailed = TRUE]
           /\ \/ shelf' = shelf
              \/ shelf' = Written(Torn) \/ shelf' = Written(Line(l))
    BY <1>5 DEF PersistFails, Persistable
  <2>2. GoesOnAs(l) /\ (launch' = l \/ launch'.journalFailed) /\ launch'.sequence = launch.sequence
    <3>1. CASE launch' = l
      BY <3>1 DEF GoesOnAs
    <3>2. CASE launch' = [l EXCEPT !.journalFailed = TRUE]
      <4>1. launch' \in LaunchState /\ launch'.journalFailed /\ launch'.sequence = l.sequence
        BY <3>2 DEF LaunchState
      <4>2. /\ launch'.at = l.at /\ launch'.up = l.up /\ launch'.asked = l.asked
            /\ launch'.pid = l.pid /\ launch'.pgid = l.pgid /\ launch'.spawnError = l.spawnError
        BY <3>2 DEF LaunchState
      <4>3. /\ launch'.rootExited = l.rootExited /\ launch'.groupAbsent = l.groupAbsent
            /\ launch'.stdioJoined = l.stdioJoined /\ launch'.retained = l.retained
        BY <3>2 DEF LaunchState
      <4>. QED  BY <4>1, <4>2, <4>3 DEF GoesOnAs
    <3>. QED  BY <2>1, <3>1, <3>2
  <2>3. Snapshot(launch') = Snapshot(l) /\ launch'.retained = launch.retained /\ launch'.at = l.at /\ launch'.up
    BY <2>2 DEF Snapshot, GoesOnAs
  <2>4. CASE shelf' = shelf
    <3>1. SameShelf
      BY <1>1, <2>4 DEF SameShelf
    <3>2. CodexTypeOK'
      BY <2>2, <3>1 DEF CodexTypeOK, GoesOnAs, SameShelf
    <3>3. CASE launch'.journalFailed = launch.journalFailed
      BY <1>5, <2>2, <2>3, <2>4, <3>2, <3>3, JournalStands, <3>1
    <3>4. CASE launch'.journalFailed
      <4>1. \A i \in 1..Len(shelf.journal) : LineInv(i)'
        <5> SUFFICES ASSUME NEW i \in 1..Len(shelf.journal) PROVE LineInv(i)'
          OBVIOUS
        <5>1. LineInv(i) /\ shelf.journal[i] \in Lines
          BY <1>1 DEF CodexInv, JournalInv, ShelfState
        <5>2. shelf.journal[i].whole => Follows(Snapshot(launch'), shelf.journal[i].snapshot)
          BY <1>1, <2>3, <5>1, LineTyped, SnapshotTyped, FollowsOn DEF LineInv
        <5>. QED  BY <2>3, <2>4, <3>4, <5>1, <5>2 DEF LineInv
      <4>2. launch'.at \notin BeforeSpawn \ {"spawn"} => shelf'.journal # <<>> /\ shelf'.journal[1].whole
        BY <1>5, <2>3, <2>4 DEF CodexInv, JournalInv
      <4>3. JournalInv'
        BY <2>3, <2>4, <3>4, <4>1, <4>2 DEF JournalInv
      <4>. QED  BY <2>2, <3>1, <3>2, <4>3
    <3>. QED  BY <2>2, <3>3, <3>4
  <2>5. ASSUME NEW line \in {Torn, Line(l)}, shelf' = Written(line), shelf' # shelf
        PROVE  CodexTypeOK' /\ JournalInv' /\ SameShelf
    <3>1. ~launch.journalFailed /\ launch.sequence < MaxRecords /\ launch'.journalFailed
      BY <1>1, <2>1, <2>5 DEF LaunchState
    <3>2. line \in Lines
      BY <1>2, <1>3, <2>5
    <3>3. SameShelf /\ shelf'.journal = Append(shelf.journal, line)
      BY <2>5, <3>1, <3>2, WrittenLine
    <3>4. CodexTypeOK'
      BY <2>2, <3>3 DEF CodexTypeOK, GoesOnAs, SameShelf
    <3>5. line.whole => /\ line.sequence = launch.sequence /\ line.previous = launch.sequence - 1
                        /\ line.snapshot = Snapshot(launch')
      BY <1>2, <1>3, <2>3, <2>5
    <3>6. JournalInv'
      BY <1>5, <2>3, <3>1, <3>2, <3>3, <3>4, <3>5, JournalGrows
    <3>. QED  BY <3>3, <3>4, <3>6
  <2>. QED  BY <2>1, <2>2, <2>4, <2>5
<1>. QED  BY <1>4, <1>5

\* Before the launcher listens to the events of what it spawned.
Early == BeforeSpawn \cup {"spawned", "starting"}
WorldState == [root : {"none", "alive", "gone"}, members : BOOLEAN, pipes : BOOLEAN]

\* A step in which the launcher sees something of the codex, asks for its stop or
\* signals it, or in which the codex moves by itself.
Watches ==
  /\ launch' \in LaunchState /\ world' \in WorldState /\ UNCHANGED shelf
  /\ launch'.up = launch.up /\ launch'.pid = launch.pid /\ launch'.pgid = launch.pgid
  /\ launch'.spawnError = launch.spawnError /\ launch'.retained = launch.retained
  /\ launch'.sequence = launch.sequence /\ launch'.journalFailed = launch.journalFailed
  /\ launch.at \in Early \cup {"record", "closed"} => launch'.at = launch.at
  /\ launch.at \notin Early => launch'.at \notin Early
  /\ launch.at \in Early =>
       /\ launch'.rootExited = launch.rootExited /\ launch'.groupAbsent = launch.groupAbsent
       /\ launch'.stdioJoined = launch.stdioJoined
  /\ launch.rootExited => launch'.rootExited
  /\ launch.groupAbsent => launch'.groupAbsent
  /\ launch.stdioJoined => launch'.stdioJoined
  /\ launch'.rootExited => world.root # "alive"
  /\ launch'.groupAbsent => launch'.rootExited /\ GroupGone
WorldGoesOn ==
  /\ world.root # "alive" => world'.root = world.root
  /\ GroupGone => world'.root # "alive" /\ ~world'.members
  /\ world.root = "alive" => world'.root # "none"

LEMMA WatchesKeeps ==
  ASSUME CodexInv, Watches, WorldGoesOn
  PROVE  CodexInv'
<1>1. launch \in LaunchState /\ launch' \in LaunchState /\ world \in WorldState /\ world' \in WorldState
  BY DEF CodexInv, CodexTypeOK, Watches, WorldState
<1>2. CodexTypeOK'
  BY <1>1 DEF CodexInv, CodexTypeOK, Watches, WorldState
<1>3. Follows(Snapshot(launch'), Snapshot(launch))
  BY <1>1, SnapshotTyped DEF Follows, Watches
<1>4. /\ launch'.at \notin BeforeSpawn \ {"spawn"} => launch.at \notin BeforeSpawn \ {"spawn"}
      /\ launch'.at # "prepare" \/ launch.at = "prepare"
  BY DEF Watches, Early, BeforeSpawn
<1>5. GroupGone => GroupGone'
  BY DEF GroupGone, WorldGoesOn
<1>6. JournalInv'
  <2>1. CASE launch.at = "prepare" \/ launch.at = "refused"
    <3>1. Snapshot(launch') = Snapshot(launch) /\ launch'.at = launch.at
      BY <1>1, <2>1 DEF Watches, Early, BeforeSpawn, Snapshot
    <3>2. UNCHANGED shelf /\ launch'.journalFailed = launch.journalFailed /\ launch'.up = launch.up
          /\ launch'.sequence = launch.sequence /\ launch'.retained = launch.retained
      BY DEF Watches
    <3>3. \A i \in 1..Len(shelf.journal) : LineInv(i)'
      BY <3>1, <3>2 DEF CodexInv, JournalInv, LineInv
    <3>. QED  BY <3>1, <3>2, <3>3 DEF CodexInv, JournalInv
  <2>2. CASE launch.at # "prepare" /\ launch.at # "refused"
    BY <1>2, <1>3, <1>4, <2>2, JournalStands DEF Watches
  <2>. QED  BY <2>1, <2>2
<1>7. ScratchInv'
  <2>1. launch'.up /\ launch'.at \in {"intent", "spawn"} => launch.up /\ launch.at \in {"intent", "spawn"}
    BY DEF Watches, Early, BeforeSpawn
  <2>. QED  BY <1>5, <2>1 DEF CodexInv, ScratchInv, Watches
<1>8. SeenInv'
  <2>1. launch'.rootExited => world'.root # "alive" /\ launch'.at \notin BeforeSpawn
    BY <1>1 DEF CodexInv, SeenInv, Watches, WorldGoesOn, Early, BeforeSpawn
  <2>2. launch'.groupAbsent => launch'.rootExited /\ GroupGone'
    BY <1>5 DEF Watches
  <2>3. /\ launch'.spawnError => world'.root = "none"
        /\ world'.root = "none" => ~world'.members
    BY <1>1 DEF CodexInv, SeenInv, Watches, WorldGoesOn, GroupGone, WorldState
  <2>4. /\ launch'.at \in BeforeSpawn \cup {"spawned"} => ~launch'.stdioJoined /\ ~launch'.pgid
        /\ launch'.at = "starting" => ~launch'.pgid
        /\ launch'.at \in BeforeSpawn => world'.root = "none" /\ ~launch'.pid /\ ~launch'.spawnError
    BY <1>1 DEF CodexInv, SeenInv, Watches, WorldGoesOn, Early, BeforeSpawn
  <2>5. ~launch'.retained => launch'.at \in {"record", "closed"} /\ AllStopped(launch)' /\ ~shelf'.scratch
    BY <1>1 DEF CodexInv, SeenInv, Watches, AllStopped, Proven
  <2>. QED  BY <2>1, <2>2, <2>3, <2>4, <2>5 DEF SeenInv
<1>. QED  BY <1>2, <1>6, <1>7, <1>8 DEF CodexInv

LEMMA CodexTypes == CodexInv => launch \in LaunchState /\ world \in WorldState /\ shelf \in ShelfState
BY DEF CodexInv, CodexTypeOK, WorldState

\* What looking for the group tells is true: it is absent only when it is gone.
LEMMA ObservedTruth ==
  ASSUME CodexInv, NEW l \in Observed(launch)
  PROVE  /\ l \in LaunchState /\ l.at = launch.at /\ l.up = launch.up /\ l.pid = launch.pid /\ l.pgid = launch.pgid
         /\ l.spawnError = launch.spawnError /\ l.retained = launch.retained /\ l.sequence = launch.sequence
         /\ l.journalFailed = launch.journalFailed /\ l.rootExited = launch.rootExited
         /\ l.stdioJoined = launch.stdioJoined /\ (launch.groupAbsent => l.groupAbsent)
         /\ (l.groupAbsent => l.rootExited /\ GroupGone)
<1>1. launch \in LaunchState /\ (launch.groupAbsent => launch.rootExited /\ GroupGone)
  BY CodexTypes DEF CodexInv, SeenInv
<1>2. \/ l = launch
      \/ l = [launch EXCEPT !.errors = TRUE]
      \/ l = [launch EXCEPT !.groupAbsent = TRUE] /\ launch.rootExited /\ GroupGone
  BY DEF Observed
<1>. QED  BY <1>1, <1>2 DEF LaunchState

\* The events of the codex.
LEMMA EventsKeep ==
  ASSUME CodexInv, CodexEvents
  PROVE  CodexInv'
<1>1. launch \in LaunchState /\ world \in WorldState
  BY CodexTypes
<1>2. Listens /\ launch.at \notin Early /\ UNCHANGED <<world, shelf>>
  BY DEF CodexEvents, ExitEvent, SpawnErrorEvent, CloseEvent, StreamError, Listens, Early, BeforeSpawn
<1>3. WorldGoesOn
  BY <1>1, <1>2 DEF WorldGoesOn, GroupGone, WorldState
<1>4. ExitEvent \/ SpawnErrorEvent \/ CloseEvent \/ StreamError
  BY DEF CodexEvents
<1>5. Watches
  <2>1. CASE ExitEvent
    BY <1>1, <1>2, <2>1 DEF ExitEvent, CodexInv, SeenInv, LaunchState, LaunchSteps, Early, BeforeSpawn, Watches, WorldGoesOn
  <2>2. CASE SpawnErrorEvent
    BY <1>1, <1>2, <2>2 DEF SpawnErrorEvent, CodexInv, SeenInv, GroupGone, LaunchState, LaunchSteps, Early, BeforeSpawn, Watches, WorldGoesOn
  <2>3. CASE CloseEvent
    BY <1>1, <1>2, <2>3 DEF CloseEvent, CodexInv, SeenInv, LaunchState, LaunchSteps, Early, BeforeSpawn, Watches, WorldGoesOn
  <2>4. CASE StreamError
    BY <1>1, <1>2, <2>4 DEF StreamError, CodexInv, SeenInv, LaunchState, LaunchSteps, Early, BeforeSpawn, Watches, WorldGoesOn
  <2>. QED  BY <1>4, <2>1, <2>2, <2>3, <2>4
<1>. QED  BY <1>3, <1>5, WatchesKeeps

\* The codex by itself.
LEMMA CodexMovesKeep ==
  ASSUME CodexInv, CodexForks \/ CodexExits
  PROVE  CodexInv'
<1>1. launch \in LaunchState /\ world \in WorldState
  BY CodexTypes
<1>2. UNCHANGED <<launch, shelf>> /\ world' \in WorldState
  BY <1>1 DEF CodexForks, CodexExits, WorldState
<1>3. WorldGoesOn
  BY <1>1 DEF CodexForks, CodexExits, WorldGoesOn, GroupGone, WorldState
<1>4. Watches
  BY <1>1, <1>2 DEF Watches, CodexInv, SeenInv, Early
<1>. QED  BY <1>3, <1>4, WatchesKeeps

\* The stop, up to the removal of the scratch.
LEMMA AskStopKeeps ==
  ASSUME CodexInv, AskStop \/ BeginStop \/ Recheck
  PROVE  CodexInv'
<1>1. launch \in LaunchState /\ world \in WorldState
  BY CodexTypes
<1>2. UNCHANGED <<world, shelf>>
  BY DEF AskStop, BeginStop, Recheck
<1>3. WorldGoesOn
  BY <1>1, <1>2 DEF WorldGoesOn, GroupGone, WorldState
<1>4. CASE AskStop
  <2>1. Watches
    BY ZenonT(40), <1>1, <1>2, <1>4 DEF AskStop, CodexInv, SeenInv, LaunchState, LaunchSteps, Early, BeforeSpawn, Watches, WorldGoesOn
  <2>. QED  BY <1>3, <2>1, WatchesKeeps
<1>5. CASE BeginStop
  <2>1. Watches
    BY ZenonT(40), <1>1, <1>2, <1>5 DEF BeginStop, Here, CodexInv, SeenInv, LaunchState, LaunchSteps, Early, BeforeSpawn, Watches, WorldGoesOn
  <2>. QED  BY <1>3, <2>1, WatchesKeeps
<1>6. CASE Recheck
  <2>1. PICK e \in BOOLEAN, d \in BOOLEAN :
          launch' = [launch EXCEPT !.at = "remove", !.errors = launch.errors \/ e, !.runtimeErrors = launch.runtimeErrors \/ d]
    BY <1>6 DEF Recheck
  <2>2. Watches
    BY ZenonT(40), <1>1, <1>2, <1>6, <2>1 DEF Recheck, Here, CodexInv, SeenInv, LaunchState, LaunchSteps, Early, BeforeSpawn, Watches, WorldGoesOn
  <2>. QED  BY <1>3, <2>2, WatchesKeeps
<1>. QED  BY <1>4, <1>5, <1>6

LEMMA SignalKeeps ==
  ASSUME CodexInv, NEW sig \in {"SIGTERM", "SIGKILL"}, NEW next \in {"termed", "killed"}, SignalCodex(sig, next)
  PROVE  CodexInv'
<1>1. launch \in LaunchState /\ world \in WorldState /\ launch.up /\ launch.at = sig
  BY CodexTypes DEF SignalCodex, Here
<1>2. PICK l \in Observed(launch) :
        IF Proven(l) THEN launch' = [l EXCEPT !.at = "join"] /\ UNCHANGED world
        ELSE \E e \in BOOLEAN :
               /\ launch' = [l EXCEPT !.at = next, !.errors = @ \/ e]
               /\ world' \in {world, Signalled}
  BY DEF SignalCodex
<1>3. \E e \in BOOLEAN, to \in {"join", "termed", "killed"} : launch' = [l EXCEPT !.at = to, !.errors = l.errors \/ e]
  <2>1. l \in LaunchState
    BY ObservedTruth
  <2>2. CASE Proven(l)
    <3>1. launch' = [l EXCEPT !.at = "join", !.errors = l.errors \/ FALSE]
      BY <1>2, <2>1, <2>2 DEF LaunchState
    <3>. QED  BY <3>1
  <2>3. CASE ~Proven(l)
    BY <1>2, <2>3
  <2>. QED  BY <2>2, <2>3
<1>4. world' \in {world, Signalled} /\ UNCHANGED shelf
  BY <1>2 DEF SignalCodex
<1>5. world' \in WorldState /\ WorldGoesOn
  BY <1>1, <1>4 DEF Signalled, WorldState, WorldGoesOn, GroupGone
<1>6. Watches
  <2>1. /\ launch' \in LaunchState /\ launch'.at \in {"join", "termed", "killed"}
        /\ launch'.up = l.up /\ launch'.pid = l.pid /\ launch'.pgid = l.pgid /\ launch'.spawnError = l.spawnError
        /\ launch'.retained = l.retained /\ launch'.sequence = l.sequence /\ launch'.journalFailed = l.journalFailed
        /\ launch'.rootExited = l.rootExited /\ launch'.groupAbsent = l.groupAbsent /\ launch'.stdioJoined = l.stdioJoined
    <3>1. PICK e \in BOOLEAN, to \in {"join", "termed", "killed"} : launch' = [l EXCEPT !.at = to, !.errors = l.errors \/ e]
      BY <1>3
    <3>2. l \in LaunchState
      BY ObservedTruth
    <3>3. (l.errors \/ e) \in BOOLEAN /\ to \in LaunchSteps
      BY DEF LaunchSteps
    <3>. QED  BY <3>1, <3>2, <3>3 DEF LaunchState
  <2>. QED  BY <1>1, <1>4, <1>5, <2>1, ObservedTruth DEF Watches, Early, BeforeSpawn, CodexInv, SeenInv
<1>. QED  BY <1>5, <1>6, WatchesKeeps

LEMMA AwaitKeeps ==
  ASSUME CodexInv, AwaitSignal("termed", "SIGKILL") \/ AwaitSignal("killed", "join") \/ JoinCodex
  PROVE  CodexInv'
<1>1. launch \in LaunchState /\ world \in WorldState /\ UNCHANGED <<world, shelf>>
  BY CodexTypes DEF AwaitSignal, JoinCodex
<1>2. launch.at \in {"termed", "killed", "join"}
  BY DEF AwaitSignal, JoinCodex, Here
<1>3. WorldGoesOn
  BY <1>1 DEF WorldGoesOn, GroupGone, WorldState
<1>4. ASSUME NEW l \in Observed(launch) \cup {launch}, NEW to \in {"SIGKILL", "join", "streams"}, NEW e \in BOOLEAN,
             launch' = [l EXCEPT !.at = to, !.errors = l.errors \/ e]
      PROVE  CodexInv'
  <2>1. /\ l \in LaunchState /\ l.at = launch.at /\ l.up = launch.up /\ l.pid = launch.pid /\ l.pgid = launch.pgid
        /\ l.spawnError = launch.spawnError /\ l.retained = launch.retained /\ l.sequence = launch.sequence
        /\ l.journalFailed = launch.journalFailed /\ l.rootExited = launch.rootExited
        /\ l.stdioJoined = launch.stdioJoined /\ (launch.groupAbsent => l.groupAbsent)
        /\ (l.groupAbsent => l.rootExited /\ GroupGone)
    BY <1>1, <1>4, ObservedTruth DEF CodexInv, SeenInv
  <2>2. /\ launch' \in LaunchState /\ launch'.at \in {"SIGKILL", "join", "streams"}
        /\ launch'.up = l.up /\ launch'.pid = l.pid /\ launch'.pgid = l.pgid /\ launch'.spawnError = l.spawnError
        /\ launch'.retained = l.retained /\ launch'.sequence = l.sequence /\ launch'.journalFailed = l.journalFailed
        /\ launch'.rootExited = l.rootExited /\ launch'.groupAbsent = l.groupAbsent /\ launch'.stdioJoined = l.stdioJoined
    BY ZenonT(40), <1>4, <2>1 DEF LaunchState, LaunchSteps
  <2>3. Watches
    BY <1>1, <1>2, <2>1, <2>2 DEF Watches, Early, BeforeSpawn, CodexInv, SeenInv
  <2>. QED  BY <1>3, <2>3, WatchesKeeps
<1>5. ASSUME NEW step, NEW to \in {"SIGKILL", "join"}, AwaitSignal(step, to) PROVE CodexInv'
  <2>1. PICK l \in Observed(launch) \cup {launch} : launch' = [l EXCEPT !.at = to]
    BY <1>5 DEF AwaitSignal
  <2>2. l \in LaunchState
    BY <1>1, ObservedTruth
  <2>3. launch' = [l EXCEPT !.at = to, !.errors = l.errors \/ FALSE]
    BY <2>1, <2>2 DEF LaunchState
  <2>. QED  BY <1>4, <2>3
<1>6. ASSUME JoinCodex PROVE CodexInv'
  <2>1. PICK l \in Observed(launch) \cup {launch} : launch' = [l EXCEPT !.at = "streams", !.errors = @ \/ ~Proven(l)]
    BY <1>6 DEF JoinCodex
  <2>2. PICK e \in BOOLEAN : e = ~Proven(l)
    OBVIOUS
  <2>3. launch' = [l EXCEPT !.at = "streams", !.errors = l.errors \/ e]
    BY <2>1, <2>2
  <2>. QED  BY <1>4, <2>3
<1>. QED  BY <1>5, <1>6

LEMMA JoinStreamsKeeps ==
  ASSUME CodexInv, JoinStreams
  PROVE  CodexInv'
<1>1. launch \in LaunchState /\ world \in WorldState /\ launch.at = "streams" /\ UNCHANGED shelf
  BY CodexTypes DEF JoinStreams, Here
<1>2. world' \in WorldState /\ world'.root = world.root /\ world'.members = world.members
  BY <1>1 DEF JoinStreams, WorldState
<1>3. WorldGoesOn
  BY <1>1, <1>2 DEF WorldGoesOn, GroupGone
<1>4. Watches
  BY ZenonT(40), <1>1, <1>2 DEF JoinStreams, CodexInv, SeenInv, LaunchState, LaunchSteps, Early, BeforeSpawn, Watches, WorldGoesOn
<1>. QED  BY <1>3, <1>4, WatchesKeeps

\* The launch.
LEMMA PrepareKeeps ==
  ASSUME CodexInv, PrepareCodex
  PROVE  CodexInv'
<1>1. /\ launch \in LaunchState /\ world \in WorldState /\ shelf \in ShelfState /\ launch.at = "prepare"
      /\ UNCHANGED world
  BY CodexTypes DEF PrepareCodex, Here
<1>2. /\ launch' \in LaunchState /\ shelf' \in ShelfState /\ shelf'.journal = shelf.journal
      /\ launch' = [launch EXCEPT !.at = launch'.at] /\ launch'.at \in {"intent", "refused"}
      /\ launch'.at = "intent" => shelf'.dir /\ shelf'.scratch
      /\ launch'.at = "refused" => shelf' = shelf
  BY <1>1 DEF PrepareCodex, LaunchState, LaunchSteps, ShelfState
<1>3. CodexTypeOK'
  BY <1>1, <1>2 DEF CodexTypeOK, WorldState
<1>4. JournalInv'
  <2>1. shelf'.journal = <<>> /\ Len(shelf'.journal) = 0 /\ 1..Len(shelf'.journal) = {}
    <3>1. shelf'.journal = <<>>
      BY <1>1, <1>2 DEF CodexInv, JournalInv
    <3>. QED  BY <3>1
  <2>2. launch'.sequence = 0 /\ ~launch'.journalFailed
    BY <1>1, <1>2 DEF CodexInv, JournalInv, LaunchState
  <2>. QED  BY <1>2, <2>1, <2>2 DEF JournalInv, BeforeSpawn
<1>5. SeenInv' /\ ScratchInv'
  BY <1>1, <1>2 DEF CodexInv, SeenInv, ScratchInv, GroupGone, BeforeSpawn, LaunchState, AllStopped, Proven
<1>. QED  BY <1>3, <1>4, <1>5 DEF CodexInv

\* What the launcher records next follows what it recorded before.
LEMMA StillFollows ==
  ASSUME CodexInv, NEW l \in LaunchState, launch.pid => l.pid, launch.pgid => l.pgid,
         l.rootExited = launch.rootExited, l.groupAbsent = launch.groupAbsent,
         l.stdioJoined = launch.stdioJoined, l.retained = launch.retained
  PROVE  Follows(Snapshot(l), Snapshot(launch)) /\ InOrder(Snapshot(l))
<1>1. launch \in LaunchState
  BY CodexTypes
<1>. QED  BY <1>1, SnapshotTyped DEF Follows, InOrder, CodexInv, SeenInv, AllStopped, Proven

\* A step that writes a record and changes nothing else.
LEMMA RecordKeeps ==
  ASSUME CodexInv, launch.up, launch.at \notin {"prepare", "refused"}, UNCHANGED world,
         NEW l \in LaunchState, l.up, l.sequence = launch.sequence, l.journalFailed = launch.journalFailed,
         l.retained = launch.retained, launch.pid => l.pid, launch.pgid => l.pgid, l.spawnError = launch.spawnError,
         l.rootExited = launch.rootExited, l.groupAbsent = launch.groupAbsent, l.stdioJoined = launch.stdioJoined,
         l.at \notin {"prepare", "refused"}, Persisted(l) \/ PersistFails(l),
         l.at = "spawn" => Persisted(l),
         launch.at \in BeforeSpawn <=> l.at \in BeforeSpawn,
         l.at \in {"spawn"} => launch.at = "intent",
         launch.at = "intent" => l.at \in {"spawn", "discard"} /\ ~l.pid /\ ~l.pgid,
         launch.at \notin BeforeSpawn => l.at \notin {"spawned"} /\ (l.at = "starting" => ~l.pgid),
         launch.at \in BeforeSpawn => launch.at = "intent",
         launch.at \in {"record"} => l.at = "closed", launch.at # "closed"
  PROVE  CodexInv'
<1>1. launch \in LaunchState /\ world \in WorldState /\ shelf \in ShelfState
  BY CodexTypes
<1>2. Follows(Snapshot(l), Snapshot(launch)) /\ InOrder(Snapshot(l))
  BY StillFollows
<1>3. ~Persisted(l) /\ l.at \notin BeforeSpawn \ {"spawn"} => launch.at \notin BeforeSpawn \ {"spawn"}
  OBVIOUS
<1>4. CodexTypeOK' /\ JournalInv' /\ GoesOnAs(l) /\ SameShelf
  BY <1>1, <1>2, <1>3, PersistKeeps DEF WorldState
<1>5. ScratchInv'
  BY <1>1, <1>4 DEF CodexInv, ScratchInv, GoesOnAs, SameShelf, GroupGone, BeforeSpawn
<1>6. SeenInv'
  <2>1. /\ launch'.rootExited => world'.root # "alive" /\ launch'.at \notin BeforeSpawn
        /\ launch'.groupAbsent => launch'.rootExited /\ GroupGone'
        /\ launch'.spawnError => world'.root = "none"
        /\ world'.root = "none" => ~world'.members
    BY <1>1, <1>4 DEF CodexInv, SeenInv, GoesOnAs, GroupGone
  <2>2. /\ launch'.at \in BeforeSpawn \cup {"spawned"} => ~launch'.stdioJoined /\ ~launch'.pgid
        /\ launch'.at = "starting" => ~launch'.pgid
        /\ launch'.at \in BeforeSpawn => world'.root = "none" /\ ~launch'.pid /\ ~launch'.spawnError
    BY <1>1, <1>4 DEF CodexInv, SeenInv, GoesOnAs, BeforeSpawn
  <2>3. ~launch'.retained => launch'.at \in {"record", "closed"} /\ AllStopped(launch)' /\ ~shelf'.scratch
    BY <1>1, <1>4 DEF CodexInv, SeenInv, GoesOnAs, SameShelf, AllStopped, Proven
  <2>. QED  BY <2>1, <2>2, <2>3 DEF SeenInv
<1>. QED  BY <1>4, <1>5, <1>6 DEF CodexInv

LEMMA RecordIntentKeeps ==
  ASSUME CodexInv, RecordIntent
  PROVE  CodexInv'
<1>1. launch \in LaunchState /\ launch.up /\ launch.at = "intent" /\ UNCHANGED world /\ ~launch.pid /\ ~launch.pgid
  BY CodexTypes DEF RecordIntent, Here, CodexInv, SeenInv, BeforeSpawn
<1>2. ASSUME NEW to \in {"spawn", "discard"}, Persisted([launch EXCEPT !.at = to]) \/ PersistFails([launch EXCEPT !.at = to]),
             to = "spawn" => Persisted([launch EXCEPT !.at = to])
      PROVE  CodexInv'
  <2> DEFINE l == [launch EXCEPT !.at = to]
  <2>1. /\ l \in LaunchState /\ l.at = to /\ l.up /\ l.sequence = launch.sequence /\ l.journalFailed = launch.journalFailed
        /\ l.retained = launch.retained /\ l.pid = launch.pid /\ l.pgid = launch.pgid /\ l.spawnError = launch.spawnError
        /\ l.rootExited = launch.rootExited /\ l.groupAbsent = launch.groupAbsent /\ l.stdioJoined = launch.stdioJoined
    BY <1>1, <1>2 DEF LaunchState, LaunchSteps
  <2>2. Persisted(l) \/ PersistFails(l)
    BY <1>2
  <2>3. to = "spawn" => Persisted(l)
    BY <1>2
  <2>. HIDE DEF l
  <2>. QED  BY <1>1, <1>2, <2>1, <2>2, <2>3, RecordKeeps DEF BeforeSpawn
<1>. QED  BY <1>2 DEF RecordIntent

LEMMA RecordSpawnKeeps ==
  ASSUME CodexInv, RecordSpawn
  PROVE  CodexInv'
<1>1. launch \in LaunchState /\ launch.up /\ launch.at = "spawned" /\ UNCHANGED world /\ ~launch.pgid
  BY CodexTypes DEF RecordSpawn, Here, CodexInv, SeenInv, BeforeSpawn
<1>2. ASSUME NEW l \in {[launch EXCEPT !.at = "starting"], [launch EXCEPT !.at = "starting", !.errors = TRUE]},
             Persisted(l) \/ PersistFails(l)
      PROVE  CodexInv'
  <2>1. /\ l \in LaunchState /\ l.at = "starting" /\ l.up /\ l.sequence = launch.sequence
        /\ l.journalFailed = launch.journalFailed
        /\ l.retained = launch.retained /\ l.pid = launch.pid /\ l.pgid = launch.pgid /\ l.spawnError = launch.spawnError
        /\ l.rootExited = launch.rootExited /\ l.groupAbsent = launch.groupAbsent /\ l.stdioJoined = launch.stdioJoined
    BY <1>1, <1>2 DEF LaunchState, LaunchSteps
  <2>. QED  BY <1>1, <1>2, <2>1, RecordKeeps DEF BeforeSpawn
<1>. QED  BY <1>2 DEF RecordSpawn

LEMMA RecordStopKeeps ==
  ASSUME CodexInv, RecordStop
  PROVE  CodexInv'
<1>1. launch \in LaunchState /\ launch.up /\ launch.at = "record" /\ UNCHANGED world
  BY CodexTypes DEF RecordStop, Here
<1>2. ASSUME NEW l \in {[launch EXCEPT !.at = "closed"], [launch EXCEPT !.at = "closed", !.errors = TRUE]},
             Persisted(l) \/ PersistFails(l)
      PROVE  CodexInv'
  <2>1. /\ l \in LaunchState /\ l.at = "closed" /\ l.up /\ l.sequence = launch.sequence
        /\ l.journalFailed = launch.journalFailed
        /\ l.retained = launch.retained /\ l.pid = launch.pid /\ l.pgid = launch.pgid /\ l.spawnError = launch.spawnError
        /\ l.rootExited = launch.rootExited /\ l.groupAbsent = launch.groupAbsent /\ l.stdioJoined = launch.stdioJoined
    BY ZenonT(40), <1>1, <1>2 DEF LaunchState, LaunchSteps
  <2>. QED  BY <1>1, <1>2, <2>1, RecordKeeps DEF BeforeSpawn
<1>. QED  BY <1>2 DEF RecordStop

LEMMA ReadyKeeps ==
  ASSUME CodexInv, Ready
  PROVE  CodexInv'
<1>1. launch \in LaunchState /\ world \in WorldState /\ launch.up /\ launch.at = "starting" /\ UNCHANGED world /\ ~launch.pgid
  BY CodexTypes DEF Ready, Here, CodexInv, SeenInv
<1>2. ASSUME NEW e \in BOOLEAN, NEW p \in BOOLEAN, NEW l, l = [launch EXCEPT !.at = "running", !.runtimeErrors = e, !.pgid = p],
             Persisted(l) \/ PersistFails(l)
      PROVE  CodexInv'
  <2>1. /\ l \in LaunchState /\ l.at = "running" /\ l.up /\ l.sequence = launch.sequence
        /\ l.journalFailed = launch.journalFailed
        /\ l.retained = launch.retained /\ l.pid = launch.pid /\ l.spawnError = launch.spawnError
        /\ l.rootExited = launch.rootExited /\ l.groupAbsent = launch.groupAbsent /\ l.stdioJoined = launch.stdioJoined
    BY <1>1, <1>2 DEF LaunchState, LaunchSteps
  <2>. QED  BY <1>1, <1>2, <2>1, RecordKeeps DEF BeforeSpawn
<1>3. CASE launch.errors \/ launch.runtimeErrors \/ ~launch.pid
  <2>1. launch' = [[launch EXCEPT !.at = "running"] EXCEPT !.runtimeErrors = TRUE] /\ UNCHANGED shelf
    BY <1>3 DEF Ready
  <2>2. launch' = [launch EXCEPT !.at = "running", !.runtimeErrors = TRUE]
    BY <2>1
  <2>3. CodexTypeOK'
    BY <1>1, <2>1, <2>2 DEF CodexInv, CodexTypeOK, LaunchState, LaunchSteps, WorldState
  <2>4. /\ launch'.at = "running" /\ launch'.up = launch.up /\ launch'.sequence = launch.sequence
        /\ launch'.journalFailed = launch.journalFailed
        /\ launch'.retained = launch.retained /\ launch'.pid = launch.pid /\ launch'.pgid = launch.pgid
        /\ launch'.spawnError = launch.spawnError /\ launch'.rootExited = launch.rootExited
        /\ launch'.groupAbsent = launch.groupAbsent /\ launch'.stdioJoined = launch.stdioJoined
    BY <1>1, <2>2 DEF LaunchState
  <2>5. Follows(Snapshot(launch'), Snapshot(launch))
    BY <2>4 DEF Follows, Snapshot
  <2>6. JournalInv'
    BY <1>1, <2>1, <2>3, <2>4, <2>5, JournalStands DEF BeforeSpawn
  <2>7. SeenInv' /\ ScratchInv'
    BY <1>1, <2>1, <2>4 DEF CodexInv, SeenInv, ScratchInv, GroupGone, BeforeSpawn, AllStopped, Proven
  <2>. QED  BY <2>3, <2>6, <2>7 DEF CodexInv
<1>4. CASE ~(launch.errors \/ launch.runtimeErrors \/ ~launch.pid)
  <2> DEFINE running == [launch EXCEPT !.at = "running"]
             failed  == [running EXCEPT !.runtimeErrors = TRUE]
  <2>1. \/ Persisted([running EXCEPT !.pgid = TRUE])
        \/ Persisted([failed EXCEPT !.pgid = TRUE])
        \/ Persisted(failed)
        \/ \E p \in BOOLEAN : PersistFails([failed EXCEPT !.pgid = p])
    BY <1>4 DEF Ready
  <2>2. /\ [running EXCEPT !.pgid = TRUE] = [launch EXCEPT !.at = "running", !.runtimeErrors = FALSE, !.pgid = TRUE]
        /\ failed = [launch EXCEPT !.at = "running", !.runtimeErrors = TRUE, !.pgid = FALSE]
    BY <1>1, <1>4 DEF LaunchState
  <2>3. \A p \in BOOLEAN : [failed EXCEPT !.pgid = p] = [launch EXCEPT !.at = "running", !.runtimeErrors = TRUE, !.pgid = p]
    BY <1>1 DEF LaunchState
  <2>. HIDE DEF failed, running
  <2>. QED  BY <1>2, <2>1, <2>2, <2>3
<1>. QED  BY <1>3, <1>4

\* The codex is spawned with its intent on the disk.
LEMMA SpawnCodexKeeps ==
  ASSUME CodexInv, SpawnCodex
  PROVE  CodexInv'
<1>1. /\ launch \in LaunchState /\ shelf \in ShelfState /\ world \in WorldState /\ launch.up /\ launch.at = "spawn"
      /\ UNCHANGED shelf /\ shelf.dir /\ shelf.scratch
  BY CodexTypes DEF SpawnCodex, Here, CodexInv, ScratchInv
<1>2. /\ launch' \in LaunchState /\ launch'.up /\ launch'.sequence = launch.sequence
      /\ launch'.journalFailed = launch.journalFailed /\ launch'.retained = launch.retained
      /\ launch'.pgid = launch.pgid /\ launch'.rootExited = launch.rootExited
      /\ launch'.groupAbsent = launch.groupAbsent /\ launch'.stdioJoined = launch.stdioJoined
      /\ launch'.at \in {"spawned", "discard"} /\ (launch'.spawnError => world' = world)
      /\ (launch'.at = "discard" => world' = world /\ launch'.pid = launch.pid /\ launch'.spawnError = launch.spawnError)
      /\ (world' = world \/ world' = [root |-> "alive", members |-> FALSE, pipes |-> TRUE])
  <2>1. CASE /\ launch' = [launch EXCEPT !.at = "spawned", !.pid = TRUE]
             /\ world' = [root |-> "alive", members |-> FALSE, pipes |-> TRUE]
    <3>1. ~launch.spawnError
      BY <1>1 DEF CodexInv, SeenInv, BeforeSpawn
    <3>. QED  BY <1>1, <2>1, <3>1 DEF LaunchState, LaunchSteps
  <2>2. CASE launch' = [launch EXCEPT !.at = "spawned", !.spawnError = TRUE] /\ UNCHANGED world
    BY <1>1, <2>2 DEF LaunchState, LaunchSteps
  <2>3. CASE launch' = [launch EXCEPT !.at = "discard"] /\ UNCHANGED world
    BY <1>1, <2>3 DEF LaunchState, LaunchSteps
  <2>. QED  BY <2>1, <2>2, <2>3 DEF SpawnCodex
<1>3. world.root = "none" /\ ~world.members /\ ~launch.rootExited /\ ~launch.groupAbsent /\ launch.retained
      /\ ~launch.stdioJoined /\ ~launch.pgid /\ ~launch.pid
  BY <1>1 DEF CodexInv, SeenInv, BeforeSpawn
<1>4. CodexTypeOK'
  <2>1. world' \in WorldState
    <3>1. [root |-> "alive", members |-> FALSE, pipes |-> TRUE] \in WorldState
      BY DEF WorldState
    <3>. QED  BY <1>1, <1>2, <3>1
  <2>. QED  BY <1>1, <1>2, <2>1 DEF CodexTypeOK, WorldState
<1>5. Follows(Snapshot(launch'), Snapshot(launch))
  BY <1>2, <1>3 DEF Follows, Snapshot
<1>6. JournalInv'
  BY <1>1, <1>2, <1>4, <1>5, JournalStands DEF BeforeSpawn
<1>7. SeenInv'
  BY <1>1, <1>2, <1>3 DEF CodexInv, SeenInv, GroupGone, BeforeSpawn
<1>8. ScratchInv'
  BY <1>1, <1>2 DEF ScratchInv
<1>. QED  BY <1>4, <1>6, <1>7, <1>8 DEF CodexInv

LEMMA DiscardKeeps ==
  ASSUME CodexInv, DiscardLaunch
  PROVE  CodexInv'
<1>1. /\ launch \in LaunchState /\ shelf \in ShelfState /\ world \in WorldState /\ launch.up /\ launch.at = "discard"
      /\ UNCHANGED world /\ launch' = [launch EXCEPT !.at = "refused"]
      /\ shelf' \in {Discarded, shelf, [shelf EXCEPT !.scratch = FALSE]}
  BY CodexTypes DEF DiscardLaunch, Here
<1>2. launch' \in LaunchState /\ launch'.at = "refused" /\ launch'.retained = launch.retained
  BY <1>1 DEF LaunchState, LaunchSteps
<1>3. shelf' \in ShelfState /\ (shelf'.journal = <<>> \/ shelf'.journal = shelf.journal)
  <2>1. <<>> \in Seq(Lines)
    OBVIOUS
  <2>2. CASE shelf' = Discarded
    BY <1>1, <2>1, <2>2 DEF ShelfState, Discarded
  <2>3. CASE shelf' \in {shelf, [shelf EXCEPT !.scratch = FALSE]}
    BY <1>1, <2>3 DEF ShelfState
  <2>. QED  BY <1>1, <2>2, <2>3
<1>4. CodexTypeOK'
  BY <1>1, <1>2, <1>3 DEF CodexTypeOK, WorldState
<1>5. Snapshot(launch') = Snapshot(launch) /\ launch'.journalFailed = launch.journalFailed /\ launch'.up
  BY <1>1 DEF Snapshot, LaunchState
<1>6. \A i \in 1..Len(shelf'.journal) : LineInv(i)'
  <2>1. CASE shelf'.journal = <<>>
    <3>1. Len(shelf'.journal) = 0
      BY <2>1
    <3>. QED  BY <3>1
  <2>2. CASE shelf'.journal = shelf.journal
    BY <1>1, <1>2, <1>5, <2>2 DEF CodexInv, JournalInv, LineInv
  <2>. QED  BY <1>3, <2>1, <2>2
<1>7. JournalInv'
  BY <1>2, <1>6 DEF JournalInv, BeforeSpawn
<1>8. SeenInv' /\ ScratchInv'
  BY <1>1, <1>2, <1>3 DEF CodexInv, SeenInv, ScratchInv, GroupGone, BeforeSpawn, LaunchState
<1>. QED  BY <1>4, <1>7, <1>8 DEF CodexInv

\* The scratch goes only when nothing of the codex is left.
LEMMA RemoveScratchKeeps ==
  ASSUME CodexInv, RemoveScratch
  PROVE  CodexInv'
<1>1. /\ launch \in LaunchState /\ shelf \in ShelfState /\ world \in WorldState /\ launch.up /\ launch.at = "remove"
      /\ UNCHANGED world /\ launch.retained
  BY CodexTypes DEF RemoveScratch, Here, CodexInv, SeenInv
<1>2. /\ launch' \in LaunchState /\ launch'.at = "record" /\ launch'.up = launch.up /\ launch'.sequence = launch.sequence
      /\ launch'.journalFailed = launch.journalFailed /\ launch'.pid = launch.pid /\ launch'.pgid = launch.pgid
      /\ launch'.spawnError = launch.spawnError /\ launch'.rootExited = launch.rootExited
      /\ launch'.groupAbsent = launch.groupAbsent /\ launch'.stdioJoined = launch.stdioJoined
  <2>1. PICK r \in BOOLEAN, e \in BOOLEAN : launch' = [launch EXCEPT !.at = "record", !.retained = r, !.errors = e]
    <3>1. \/ launch' = [launch EXCEPT !.at = "record", !.retained = FALSE]
          \/ launch' = [launch EXCEPT !.at = "record", !.errors = TRUE]
          \/ launch' = [launch EXCEPT !.at = "record"]
      BY DEF RemoveScratch
    <3>2. launch.retained \in BOOLEAN /\ launch.errors \in BOOLEAN
      BY <1>1 DEF LaunchState
    <3>3. /\ [launch EXCEPT !.at = "record", !.retained = FALSE] =
               [launch EXCEPT !.at = "record", !.retained = FALSE, !.errors = launch.errors]
          /\ [launch EXCEPT !.at = "record", !.errors = TRUE] =
               [launch EXCEPT !.at = "record", !.retained = launch.retained, !.errors = TRUE]
          /\ [launch EXCEPT !.at = "record"] =
               [launch EXCEPT !.at = "record", !.retained = launch.retained, !.errors = launch.errors]
      BY <1>1 DEF LaunchState
    <3>. QED  BY <3>1, <3>2, <3>3
  <2>. QED  BY ZenonT(40), <1>1, <2>1 DEF LaunchState, LaunchSteps
<1>3. /\ shelf' \in ShelfState /\ shelf'.dir = shelf.dir /\ shelf'.journal = shelf.journal
      /\ shelf'.scratch = shelf.scratch \/ (MayRemove /\ ~shelf'.scratch)
      /\ ~launch'.retained => MayRemove /\ ~shelf'.scratch
  BY <1>1 DEF RemoveScratch, LaunchState, ShelfState
<1>4. MayRemove => AllStopped(launch) /\ GroupGone
  BY DEF MayRemove, AllStopped, Proven, CodexInv, SeenInv
<1>5. CodexTypeOK'
  BY <1>1, <1>2, <1>3 DEF CodexTypeOK, WorldState
<1>6. Follows(Snapshot(launch'), Snapshot(launch))
  BY <1>2 DEF Follows, Snapshot
<1>7. JournalInv'
  BY <1>1, <1>2, <1>3, <1>5, <1>6, JournalStands DEF BeforeSpawn
<1>8. SeenInv'
  BY <1>1, <1>2, <1>3, <1>4 DEF CodexInv, SeenInv, GroupGone, BeforeSpawn, AllStopped, Proven
<1>9. ScratchInv'
  BY <1>1, <1>2, <1>3, <1>4 DEF CodexInv, ScratchInv, GroupGone
<1>. QED  BY <1>5, <1>7, <1>8, <1>9 DEF CodexInv

\* The host may die in the middle of a write or of a removal.
LEMMA HostDiesKeeps ==
  ASSUME CodexInv, HostDiesInLaunch
  PROVE  CodexInv'
<1>1. /\ launch \in LaunchState /\ shelf \in ShelfState /\ world \in WorldState /\ launch.up /\ UNCHANGED world
      /\ launch' = [launch EXCEPT !.up = FALSE] /\ launch.at \notin {"refused", "closed"}
  BY CodexTypes DEF HostDiesInLaunch
<1>2. /\ launch' \in LaunchState /\ launch'.at = launch.at /\ ~launch'.up /\ launch'.sequence = launch.sequence
      /\ launch'.journalFailed = launch.journalFailed /\ launch'.pid = launch.pid /\ launch'.pgid = launch.pgid
      /\ launch'.spawnError = launch.spawnError /\ launch'.rootExited = launch.rootExited
      /\ launch'.groupAbsent = launch.groupAbsent /\ launch'.stdioJoined = launch.stdioJoined
      /\ launch'.retained = launch.retained
  BY <1>1 DEF LaunchState
<1>3. Snapshot(launch') = Snapshot(launch) /\ Follows(Snapshot(launch'), Snapshot(launch))
  BY <1>2 DEF Follows, Snapshot
<1>4. CASE \/ UNCHANGED shelf
           \/ /\ launch.at = "discard" \/ (launch.at = "remove" /\ MayRemove)
              /\ shelf' = [shelf EXCEPT !.scratch = FALSE]
  <2>1. /\ shelf' \in ShelfState /\ shelf'.dir = shelf.dir /\ shelf'.journal = shelf.journal
        /\ shelf'.scratch = shelf.scratch \/ (~shelf'.scratch /\ GroupGone)
    BY <1>1, <1>4 DEF ShelfState, MayRemove, AllStopped, Proven, CodexInv, SeenInv, BeforeSpawn, GroupGone
  <2>2. CodexTypeOK'
    BY <1>1, <1>2, <2>1 DEF CodexTypeOK, WorldState
  <2>3. JournalInv'
    <3>1. \A i \in 1..Len(shelf.journal) : LineInv(i)'
      BY <1>2, <1>3, <2>1 DEF CodexInv, JournalInv, LineInv
    <3>. QED  BY <1>1, <1>2, <2>1, <3>1 DEF CodexInv, JournalInv
  <2>4. SeenInv'
    BY <1>1, <1>2, <2>1 DEF CodexInv, SeenInv, GroupGone, BeforeSpawn, AllStopped, Proven
  <2>5. ScratchInv'
    BY <1>1, <1>2, <2>1 DEF CodexInv, ScratchInv, GroupGone
  <2>. QED  BY <2>2, <2>3, <2>4, <2>5 DEF CodexInv
<1>5. CASE /\ launch.at \in {"intent", "spawned", "starting", "record"} /\ Persistable(launch)
           /\ shelf' = Written(Torn)
  <2>1. Torn \in Lines /\ ~Torn.whole /\ ~launch.journalFailed /\ launch.sequence < MaxRecords
    BY <1>5 DEF Lines, Torn, Persistable
  <2>2. SameShelf /\ shelf'.journal = Append(shelf.journal, Torn)
    BY <1>1, <1>5, <2>1, WrittenLine
  <2>3. CodexTypeOK'
    BY <1>1, <1>2, <2>2 DEF CodexTypeOK, WorldState, SameShelf
  <2>4. InOrder(Snapshot(launch'))
    BY <1>1, <1>3, StillFollows
  <2>5. JournalInv'
    BY <1>1, <1>2, <1>3, <1>5, <2>1, <2>2, <2>3, <2>4, JournalGrows
  <2>6. SeenInv'
    BY <1>1, <1>2, <2>2 DEF CodexInv, SeenInv, GroupGone, BeforeSpawn, AllStopped, Proven, SameShelf
  <2>7. ScratchInv'
    BY <1>1, <1>2, <2>2 DEF CodexInv, ScratchInv, GroupGone, SameShelf
  <2>. QED  BY <2>3, <2>5, <2>6, <2>7 DEF CodexInv
<1>. QED  BY <1>4, <1>5 DEF HostDiesInLaunch

LEMMA CodexStep == CodexInv /\ [CodexCustodyNext]_custodyVars => CodexInv'
<1> SUFFICES ASSUME CodexInv, [CodexCustodyNext]_custodyVars PROVE CodexInv'
  OBVIOUS
<1>1. CASE UNCHANGED custodyVars
  BY <1>1 DEF custodyVars, CodexInv, CodexTypeOK, SeenInv, ScratchInv, JournalInv, LineInv, GroupGone, AllStopped,
     Proven
<1>2. CASE LaunchStep
  BY <1>2, PrepareKeeps, RecordIntentKeeps, DiscardKeeps, SpawnCodexKeeps, RecordSpawnKeeps, ReadyKeeps DEF LaunchStep
<1>3. CASE StopCodexStep
  BY <1>3, AskStopKeeps, SignalKeeps, AwaitKeeps, JoinStreamsKeeps, RemoveScratchKeeps, RecordStopKeeps
     DEF StopCodexStep
<1>4. CASE CodexEvents \/ AskStop \/ CodexForks \/ CodexExits \/ HostDiesInLaunch
  BY <1>4, EventsKeep, AskStopKeeps, CodexMovesKeep, HostDiesKeeps
<1>. QED  BY <1>1, <1>2, <1>3, <1>4 DEF CodexCustodyNext

\* What a host leaves behind is evidence: a journal that decodes as long as the
\* codex may live, and no claim in it that is not so (codex-process.ts: persist,
\* stopAndJoin, parseCodexCustodyJournal).
THEOREM JournalStandsForIt == CodexCustodySpec => []JournalIsEvidence
<1>1. CodexInv => JournalIsEvidence
  <2> SUFFICES ASSUME CodexInv PROVE JournalIsEvidence
    OBVIOUS
  <2> DEFINE j == shelf.journal
             w == Wholes(j)
             n == Len(j)
  <2>1. j \in Seq(Lines) /\ n \in Nat /\ \A i \in 1..n : LineInv(i) /\ j[i] \in Lines
    <3>1. j \in Seq(Lines)
      BY CodexTypes DEF ShelfState
    <3>. QED  BY <3>1 DEF CodexInv, JournalInv
  <2>2. /\ Len(w) \in Nat /\ Len(w) <= n /\ n <= Len(w) + 1 /\ (n > Len(w) => ~j[n].whole)
        /\ \A i \in 1..Len(w) : w[i] = j[i]
    <3>1. CASE j # <<>> /\ ~j[Len(j)].whole
      <4>1. w = SubSeq(j, 1, n - 1) /\ n >= 1
        BY <2>1, <3>1 DEF Wholes
      <4>2. Len(w) = n - 1 /\ \A i \in 1..Len(w) : w[i] = j[i]
        BY <2>1, <4>1
      <4>. QED  BY <2>1, <3>1, <4>1, <4>2
    <3>2. CASE ~(j # <<>> /\ ~j[Len(j)].whole)
      <4>1. w = j
        BY <3>2 DEF Wholes
      <4>. QED  BY <2>1, <4>1
    <3>. QED  BY <3>1, <3>2
  <2>3. \A i \in 1..Len(w) : i \in 1..n /\ w[i] = j[i] /\ w[i].whole
    <3> SUFFICES ASSUME NEW i \in 1..Len(w) PROVE i \in 1..n /\ w[i] = j[i] /\ w[i].whole
      OBVIOUS
    <3>1. i \in 1..n /\ w[i] = j[i]
      BY <2>1, <2>2
    <3>2. LineInv(i)
      BY <2>1, <3>1
    <3>3. CASE Len(w) = n
      <4>1. i < n => j[i].whole
        BY <2>1, <3>1, <3>2 DEF LineInv
      <4>2. i = n => j[i].whole
        BY <2>1, <3>1, <3>3 DEF Wholes
      <4>. QED  BY <2>1, <3>1, <4>1, <4>2
    <3>4. CASE Len(w) # n
      <4>1. i # n
        BY <2>1, <2>2, <3>4
      <4>. QED  BY <3>1, <3>2, <4>1 DEF LineInv
    <3>. QED  BY <3>3, <3>4
  <2>. HIDE DEF w, n
  <2>4. ~GroupGone => shelf.dir /\ shelf.scratch /\ Decodes(shelf.journal)
    <3> SUFFICES ASSUME ~GroupGone PROVE shelf.dir /\ shelf.scratch /\ Decodes(shelf.journal)
      OBVIOUS
    <3>1. launch.at \notin BeforeSpawn
      BY DEF CodexInv, SeenInv, GroupGone
    <3>2. j # <<>> /\ j[1].whole
      BY <3>1 DEF CodexInv, JournalInv
    <3>3. Len(w) >= 1
      <4>1. n >= 1
        BY <2>1, <3>2 DEF n
      <4>. QED  BY <2>1, <2>2, <3>2, <4>1
    <3>4. Len(w) \in 1..MaxRecords
      <4>1. Len(w) \in 1..Len(w)
        BY <2>2, <3>3
      <4>2. Len(w) <= MaxRecords
        BY <2>1, <2>3, <4>1 DEF LineInv
      <4>. QED  BY <2>2, <3>3, <4>2, CustodyAssumption
    <3>5. ASSUME NEW i \in 1..Len(w)
          PROVE  /\ w[i].whole /\ w[i].sequence = i - 1 /\ w[i].previous = i - 2
                 /\ InOrder(w[i].snapshot) /\ (i > 1 => Follows(w[i].snapshot, w[i - 1].snapshot))
      <4>1. LineInv(i) /\ w[i] = j[i] /\ w[i].whole
        BY <2>1, <2>3, <3>5
      <4>2. i > 1 => w[i - 1] = j[i - 1]
        BY <2>2, <3>5
      <4>. QED  BY <4>1, <4>2 DEF LineInv
    <3>6. Decodes(shelf.journal)
      BY <3>4, <3>5 DEF Decodes, w
    <3>. QED  BY <3>6 DEF CodexInv, ScratchInv
  <2>5. ASSUME Decodes(shelf.journal)
        PROVE  LET s == Evidence(shelf.journal) IN
               /\ s.rootExited => world.root # "alive"
               /\ s.groupAbsent => GroupGone
               /\ ~s.retained => ~shelf.scratch /\ GroupGone
    <3>1. Len(w) \in 1..Len(w)
      <4>1. Len(w) \in 1..MaxRecords
        BY <2>5 DEF Decodes, w
      <4>. QED  BY <2>2, <4>1, CustodyAssumption
    <3> DEFINE s == w[Len(w)].snapshot
    <3>2. Follows(Snapshot(launch), s) /\ (~s.retained => ~launch.retained) /\ s \in Snapshots
      <4>1. LineInv(Len(w)) /\ w[Len(w)] = j[Len(w)] /\ w[Len(w)].whole /\ w[Len(w)] \in Lines
        BY <2>1, <2>3, <3>1
      <4>. QED  BY <4>1, LineTyped DEF LineInv
    <3>3. launch \in LaunchState
      BY CodexTypes
    <3>4. (s.rootExited => launch.rootExited) /\ (s.groupAbsent => launch.groupAbsent)
      BY <3>2, <3>3, SnapshotTyped DEF Follows
    <3>5. Evidence(shelf.journal) = s
      BY DEF Evidence, w
    <3>. HIDE DEF s
    <3>. QED  BY <3>2, <3>4, <3>5 DEF CodexInv, SeenInv, AllStopped, Proven
  <2>. QED  BY <2>4, <2>5 DEF JournalIsEvidence
<1>. QED  BY InitCodex, CodexStep, <1>1, PTL DEF CodexCustodySpec
=============================================================================
