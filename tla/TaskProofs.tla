----------------------------- MODULE TaskProofs -----------------------------
(***************************************************************************)
(* The TypeScript host over its lease table, with any adapter that honours *)
(* its interface (TaskRuntime) and with the Claude adapter (ClaudeTask),   *)
(* for any sets of accounts, hosts, run ids and calls.                     *)
(***************************************************************************)
EXTENDS TaskRuntime, ClaudeTask, TLAPS

LEMMA Limits == MaxGeneration \in Nat /\ MaxCalls \in Nat /\ MaxPending \in Nat
BY TaskAssumption

LEMMA StopOnceType ==
  ASSUME NEW j \in Job
  PROVE  /\ StopOnce(j) \in Job
         /\ StopOnce(j).ran = j.ran
         /\ StopOnce(j).pending = j.pending
         /\ StopOnce(j).executing = j.executing
         /\ StopOnce(j).stop = "proved" <=> j.stop = "proved"
BY DEF StopOnce, Job, JobRecord, Reasons

LEMMA CancelOnceType ==
  ASSUME NEW j \in Job, NEW reason \in Reasons
  PROVE  /\ CancelOnce(j, reason) \in Job
         /\ CancelOnce(j, reason).ran = j.ran
         /\ CancelOnce(j, reason).pending = j.pending
         /\ CancelOnce(j, reason).executing = j.executing
         /\ CancelOnce(j, reason).stop = "proved" <=> j.stop = "proved"
<1> DEFINE k == [j EXCEPT !.cancelled = IF @ = "no" THEN reason ELSE @]
<1>1. /\ k \in Job
      /\ k.ran = j.ran /\ k.pending = j.pending
      /\ k.executing = j.executing /\ k.stop = j.stop
  BY DEF Job, JobRecord
<1>2. CancelOnce(j, reason) = StopOnce(k)
  BY DEF CancelOnce
<1>. QED  BY ZenonT(60), <1>1, <1>2, StopOnceType

LEMMA NewJobType ==
  ASSUME NEW tries \in {0, 1}, NEW aborted \in BOOLEAN
  PROVE  /\ NewJob(tries, aborted) \in Job
         /\ NewJob(tries, aborted).ran = "no"
         /\ NewJob(tries, aborted).stop = "uncalled"
         /\ NewJob(tries, aborted).pending = 0
         /\ NewJob(tries, aborted).executing = FALSE
BY TaskAssumption DEF NewJob, Job, JobRecord

\* What is left of a job when its task returns.
LEMMA ReturnType ==
  ASSUME TypeOK, NEW w \in Workers, NEW how \in Outcomes, Return(w, how)
  PROVE  /\ pc' \in [Workers -> Pcs]
         /\ lease' \in [Workers -> Lease]
         /\ job' \in [Workers -> Job]
         /\ outcome' \in [Workers -> Outcomes]
         /\ job'[w].ran = "no" /\ job'[w].stop = "uncalled"
         /\ job'[w].pending = job[w].pending
         /\ job'[w].executing = job[w].executing
<1> DEFINE n == NewJob(0, TRUE)
           k == [n EXCEPT !.pending = job[w].pending,
                          !.executing = job[w].executing]
<1>1. n \in Job /\ n.ran = "no" /\ n.stop = "uncalled"
  BY NewJobType
<1>2. job[w] \in Job
  BY DEF TypeOK
<1>3. /\ k \in Job
      /\ k.ran = "no" /\ k.stop = "uncalled"
      /\ k.pending = job[w].pending /\ k.executing = job[w].executing
  <2> HIDE DEF n
  <2>. QED  BY <1>1, <1>2 DEF Job, JobRecord
<1>4. job' = [job EXCEPT ![w] = k]
  BY DEF Return
<1>5. /\ job' \in [Workers -> Job]
      /\ job'[w].ran = "no" /\ job'[w].stop = "uncalled"
      /\ job'[w].pending = job[w].pending
      /\ job'[w].executing = job[w].executing
  <2> HIDE DEF k
  <2>. QED  BY <1>3, <1>4 DEF TypeOK
<1>6. /\ pc' \in [Workers -> Pcs]
      /\ outcome' \in [Workers -> Outcomes]
  BY DEF TypeOK, Return, Pcs
<1>7. lease' \in [Workers -> Lease]
  BY TaskAssumption DEF TypeOK, Return, Lease, LeaseOf
<1>. QED  BY <1>5, <1>6, <1>7

-----------------------------------------------------------------------------
(***************************************************************************)
(* Types.                                                                  *)
(***************************************************************************)
LEMMA AcquireType ==
  ASSUME TypeOK, NEW w \in Workers, Acquire(w)
  PROVE  /\ owner' \in [Accounts -> RunIds \cup {NoRun}]
         /\ generation' \in [Accounts -> 0..MaxGeneration]
         /\ lease' \in [Workers -> Lease]
         /\ issued' \subseteq Lease
<1> DEFINE a == lease[w].account
           n == generation[a] + 1
           l == LeaseOf(a, lease[w].owner, n)
<1>1. /\ a \in Accounts /\ n \in 0..MaxGeneration
      /\ lease[w].owner \in RunIds \cup {NoRun}
  BY TaskAssumption DEF TypeOK, Lease, Acquire
<1>2. l \in Lease
  BY <1>1 DEF LeaseOf, Lease
<1>3. /\ owner' = [owner EXCEPT ![a] = lease[w].owner]
      /\ generation' = [generation EXCEPT ![a] = n]
      /\ lease' = [lease EXCEPT ![w] = l]
      /\ issued' = issued \cup {l}
  BY DEF Acquire, LeaseOf
<1> HIDE DEF l, n, a
<1>. QED  BY <1>1, <1>2, <1>3 DEF TypeOK

LEMMA ReleaseType ==
  ASSUME TypeOK, NEW l \in Lease, Release(l)
  PROVE  /\ owner' \in [Accounts -> RunIds \cup {NoRun}]
         /\ generation' \in [Accounts -> 0..MaxGeneration]
         /\ issued' \subseteq Lease
BY DEF TypeOK, Release, Lease

LEMMA TryAgainType ==
  ASSUME TypeOK, NEW w \in Workers, NEW from \in Pcs, NEW r \in RunIds,
         TryAgain(w, from, r)
  PROVE  /\ pc' \in [Workers -> Pcs]
         /\ lease' \in [Workers -> Lease]
         /\ job' \in [Workers -> Job]
<1>1. LeaseOf(lease[w].account, r, 0) \in Lease
  BY TaskAssumption DEF TypeOK, Lease, LeaseOf
<1>2. NewJob(1, job[w].aborted) \in Job
  <2>1. job[w].aborted \in BOOLEAN
    BY DEF TypeOK, Job, JobRecord
  <2>. QED  BY <2>1, NewJobType
<1>. QED  BY <1>1, <1>2 DEF TypeOK, TryAgain, Goto, Pcs

LEMMA InitType == Init => TypeOK
<1> SUFFICES ASSUME Init PROVE TypeOK
  OBVIOUS
<1>1. \A a \in Accounts : LeaseOf(a, NoRun, 0) \in Lease
  BY TaskAssumption DEF LeaseOf, Lease
<1>2. NewJob(0, TRUE) \in Job
  BY NewJobType
<1>3. lease \in [Workers -> Lease]
  BY <1>1 DEF Init
<1>4. generation \in [Accounts -> 0..MaxGeneration]
  BY Limits DEF Init
<1>. QED  BY <1>2, <1>3, <1>4 DEF Init, TypeOK, Pcs, Outcomes

LEMMA NextType == TypeOK /\ [Next]_vars => TypeOK'
<1> SUFFICES ASSUME TypeOK, [Next]_vars PROVE TypeOK'
  OBVIOUS
<1>1. CASE UNCHANGED vars
  BY <1>1 DEF TypeOK, vars
<1>2. ASSUME NEW w \in Workers, Runtime(w) PROVE TypeOK'
  <2>0. lease[w] \in Lease /\ job[w] \in Job
    BY DEF TypeOK
  <2>e. "error" \in Outcomes
    BY DEF Outcomes
  <2>1. CASE PreflightFails(w)
    BY <2>1, <2>e, ReturnType DEF PreflightFails, TypeOK, table
  <2>2. CASE Admit(w)
    <3>1. [job[w] EXCEPT !.ran = "pending"] \in Job
      BY <2>0 DEF Job, JobRecord
    <3>. QED  BY <2>2, <3>1, AcquireType DEF Admit, Goto, TypeOK, Pcs
  <2>3. CASE AdmitTooLate(w)
    <3>1. [job[w] EXCEPT !.revoked = TRUE] \in Job
      BY <2>0 DEF Job, JobRecord
    <3>. QED  BY <2>3, <3>1, AcquireType DEF AdmitTooLate, Goto, TypeOK, Pcs
  <2>4. CASE Refuse(w)
    <3>1. CASE Current(lease[w])
      BY <2>4, <3>1, <2>0, <2>e, ReturnType, ReleaseType DEF Refuse, TypeOK
    <3>2. CASE ~ Current(lease[w])
      BY <2>4, <3>2, <2>e, ReturnType DEF Refuse, TypeOK, table
    <3>. QED  BY <3>1, <3>2
  <2>5. CASE KeepCustody(w)
    BY <2>5, <2>e, ReturnType DEF KeepCustody, TypeOK, table
  <2>6. CASE Conclude(w)
    <3>1. \A late \in BOOLEAN : Result(job[w], late) \in Outcomes
      BY <2>0 DEF Result, Outcomes, Job, JobRecord, Reasons
    <3>2. CASE Current(lease[w])
      <4>1. PICK late \in BOOLEAN : Return(w, Result(job[w], late))
        BY <2>6, <3>2 DEF Conclude
      <4>. QED
        BY <2>6, <3>1, <3>2, <4>1, <2>0, ReturnType, ReleaseType
        DEF Conclude, TypeOK
    <3>3. CASE ~ Current(lease[w])
      BY <2>6, <3>3, <2>e, ReturnType DEF Conclude, TypeOK, table
    <3>. QED  BY <3>2, <3>3
  <2>7. CASE Busy(w)
    <3>1. CASE Return(w, "error")
      BY <2>7, <3>1, <2>e, ReturnType DEF Busy, TypeOK, table
    <3>2. CASE Goto(w, "admitting", "busy") /\ UNCHANGED << lease, job, outcome >>
      BY <2>7, <3>2 DEF Busy, Goto, TypeOK, table, Pcs
    <3>. QED  BY <2>7, <3>1, <3>2 DEF Busy
  <2>8. CASE InspectHeld(w)
    <3>1. \A a \in Accounts : Row(a) \in Lease
      BY DEF Row, LeaseOf, Lease, TypeOK
    <3>2. lease[w].account \in Accounts
      BY <2>0 DEF Lease
    <3>. QED  BY <2>8, <3>1, <3>2 DEF InspectHeld, Goto, TypeOK, table, Pcs
  <2>9. ASSUME NEW r \in RunIds, InspectFree(w, r) PROVE TypeOK'
    BY <2>9, TryAgainType DEF InspectFree, TryAgain, TypeOK, table, Pcs
  <2>10. ASSUME NEW r \in RunIds, RecoverLease(w, r) PROVE TypeOK'
    BY <2>10, <2>0, TryAgainType, ReleaseType DEF RecoverLease, TryAgain, TypeOK, Pcs
  <2>11. CASE ProveStopped(w)
    BY <2>11 DEF ProveStopped, Goto, TypeOK, table, Pcs
  <2>12. CASE RecoveryFails(w)
    BY <2>12, <2>e, ReturnType DEF RecoveryFails, TypeOK, table
  <2>. QED
    BY <1>2, <2>1, <2>2, <2>3, <2>4, <2>5, <2>6, <2>7, <2>8, <2>9, <2>10, <2>11, <2>12
    DEF Runtime
<1>3. ASSUME NEW w \in Workers, Broker(w) PROVE TypeOK'
  <2>0. job[w] \in Job
    BY DEF TypeOK
  <2>1. CASE InvokeTool(w)
    <3>1. PICK admitted \in BOOLEAN :
            /\ admitted => job[w].pending < MaxPending
            /\ job' = [job EXCEPT ![w].calls = @ + 1,
                                  ![w].pending = IF admitted THEN @ + 1 ELSE @]
      BY <2>1 DEF InvokeTool
    <3> DEFINE j == [job[w] EXCEPT !.calls = @ + 1,
                                   !.pending = IF admitted THEN @ + 1 ELSE @]
    <3>2. j \in Job
      <4> DEFINE n == job[w].calls + 1
                 m == IF admitted THEN job[w].pending + 1 ELSE job[w].pending
      <4>1. n \in 0..MaxCalls
        BY <2>0, <2>1, Limits DEF InvokeTool, Job, JobRecord
      <4>2. m \in 0..MaxPending /\ m >= job[w].pending
        BY <2>0, <3>1, Limits DEF Job, JobRecord
      <4>3. job[w].pending \in Nat
        BY <2>0, Limits DEF Job, JobRecord
      <4>4. j = [job[w] EXCEPT !.calls = n, !.pending = m]
        OBVIOUS
      <4> HIDE DEF j, n, m
      <4>5. j \in JobRecord /\ j.pending = m /\ j.executing = job[w].executing
        BY <2>0, <4>1, <4>2, <4>4 DEF Job, JobRecord
      <4>6. m \in Nat
        BY <4>2, Limits
      <4>. QED  BY <2>0, <4>2, <4>3, <4>5, <4>6 DEF Job
    <3>3. job' = [job EXCEPT ![w] = j]
      BY <3>1 DEF TypeOK
    <3> HIDE DEF j
    <3>. QED  BY <2>1, <3>2, <3>3 DEF InvokeTool, TypeOK, table
  <2>2. CASE StartHandler(w)
    <3>1. [job[w] EXCEPT !.executing = TRUE] \in Job
      BY <2>0, <2>2, Limits DEF StartHandler, Job, JobRecord
    <3>. QED  BY <2>2, <3>1 DEF StartHandler, TypeOK, table
  <2>3. CASE DropCall(w)
    <3>1. [job[w] EXCEPT !.pending = @ - 1] \in Job
      BY <2>0, <2>3, Limits DEF DropCall, Job, JobRecord
    <3>. QED  BY <2>3, <3>1 DEF DropCall, TypeOK, table
  <2>4. CASE HandlerSettles(w)
    <3>1. [job[w] EXCEPT !.executing = FALSE, !.pending = @ - 1] \in Job
      <4>1. job[w].pending \in Nat /\ job[w].pending > 0
        BY <2>0, <2>4, Limits DEF HandlerSettles, Job, JobRecord
      <4>2. job[w].pending - 1 \in 0..MaxPending
        BY <2>0, <4>1, Limits DEF Job, JobRecord
      <4>. QED  BY <2>0, <4>2 DEF Job, JobRecord
    <3>. QED  BY <2>4, <3>1 DEF HandlerSettles, TypeOK, table
  <2>. QED  BY <1>3, <2>1, <2>2, <2>3, <2>4 DEF Broker
<1>4. ASSUME NEW w \in Workers, Host(w) PROVE TypeOK'
  <2>0. job[w] \in Job
    BY DEF TypeOK
  <2>1. ASSUME NEW a \in Accounts, NEW r \in RunIds, Begin(w, a, r) PROVE TypeOK'
    <3>1. LeaseOf(a, r, 0) \in Lease
      BY Limits DEF LeaseOf, Lease
    <3>2. NewJob(0, FALSE) \in Job
      BY NewJobType
    <3>. QED
      BY <2>1, <3>1, <3>2 DEF Begin, Goto, TypeOK, table, Pcs, Outcomes
  <2>2. CASE AbortSignal(w)
    <3> DEFINE j == [job[w] EXCEPT !.aborted = TRUE, !.revoked = TRUE]
    <3>1. j \in Job
      BY <2>0 DEF Job, JobRecord
    <3>2. CancelOnce(j, "cancelled") \in Job
      BY <3>1, CancelOnceType DEF Reasons
    <3>. QED  BY <2>2, <3>1, <3>2 DEF AbortSignal, TypeOK, table
  <2>3. CASE Deadline(w)
    BY <2>0, <2>3, CancelOnceType DEF Deadline, Reasons, TypeOK, table
  <2>. QED  BY <1>4, <2>1, <2>2, <2>3 DEF Host
<1>5. ASSUME NEW w \in Workers, Adapter(w) PROVE TypeOK'
  <2>0. job[w] \in Job
    BY DEF TypeOK
  <2>1. CASE Launch(w)
    BY <2>1 DEF Launch, TypeOK, table
  <2>2. CASE StopProved(w)
    <3>1. [job[w] EXCEPT !.stop = "proved"] \in Job
      BY <2>0 DEF Job, JobRecord
    <3>. QED  BY <2>2, <3>1 DEF StopProved, TypeOK, table
  <2>3. CASE StopRejected(w)
    <3>1. [job[w] EXCEPT !.stop = "rejected"] \in Job
      BY <2>0 DEF Job, JobRecord
    <3>. QED  BY <2>3, <3>1 DEF StopRejected, TypeOK, table
  <2>4. ASSUME NEW how \in {"completed", "failed", "stopped", "rejected"},
               RunSettles(w, how)
        PROVE  TypeOK'
    <3> DEFINE j == [job[w] EXCEPT !.ran = how]
    <3>1. j \in Job
      BY <2>0 DEF Job, JobRecord
    <3>2. StopOnce(j) \in Job /\ CancelOnce(j, "deadline-exceeded") \in Job
      BY <3>1, StopOnceType, CancelOnceType DEF Reasons
    <3>. QED  BY <2>4, <3>2 DEF RunSettles, Goto, TypeOK, table, Pcs
  <2>. QED  BY <1>5, <2>1, <2>2, <2>3, <2>4 DEF Adapter
<1>6. ASSUME NEW w \in Workers, Crash(w) PROVE TypeOK'
  <2>1. LeaseOf(lease[w].account, NoRun, 0) \in Lease
    BY Limits DEF LeaseOf, Lease, TypeOK
  <2>2. NewJob(0, TRUE) \in Job
    BY NewJobType
  <2>. QED  BY <1>6, <2>1, <2>2 DEF Crash, TypeOK, table, Pcs
<1>7. ASSUME NEW l \in alive, ProviderExits(l) PROVE TypeOK'
  BY <1>7 DEF ProviderExits, TypeOK, table
<1>. QED  BY <1>1, <1>2, <1>3, <1>4, <1>5, <1>6, <1>7 DEF Next

\* Every variable keeps its type, whatever the hosts and their adapters do.
THEOREM TypeCorrect == Spec => []TypeOK
BY InitType, NextType, PTL DEF Spec

-----------------------------------------------------------------------------
(***************************************************************************)
(* Cancellation.                                                           *)
(***************************************************************************)
\* Between the adapter's start and the end of the stop, an aborted signal has
\* been heard.
Heard(w) ==
  pc[w] \in {"running", "stopping"} /\ job[w].aborted => job[w].cancelled # "no"

AbortHeard == \A w \in Workers : Heard(w)

LEMMA CancelOnceHears ==
  ASSUME NEW j \in Job, NEW reason \in Reasons
  PROVE  CancelOnce(j, reason).cancelled # "no"
BY DEF CancelOnce, StopOnce, Job, JobRecord, Reasons

LEMMA StopOnceKeeps ==
  ASSUME NEW j \in Job
  PROVE  StopOnce(j).cancelled = j.cancelled /\ StopOnce(j).aborted = j.aborted
BY DEF StopOnce, Job, JobRecord

\* Only the step of a worker touches what it has heard.
LEMMA OwnHearing ==
  ASSUME AbortHeard, NEW w \in Workers, Heard(w)',
         \A v \in Workers \ {w} : pc'[v] = pc[v] /\ job'[v] = job[v]
  PROVE  AbortHeard'
BY DEF AbortHeard, Heard

LEMMA NotDriving ==
  ASSUME AbortHeard, TypeOK, NEW w \in Workers, NEW to \in Pcs \ {"running", "stopping"},
         pc' = [pc EXCEPT ![w] = to],
         \A v \in Workers \ {w} : job'[v] = job[v]
  PROVE  AbortHeard'
<1>1. Heard(w)'
  BY DEF Heard, TypeOK
<1>. QED  BY <1>1, OwnHearing DEF TypeOK

LEMMA LocalsChange ==
  ASSUME AbortHeard, TypeOK, NEW w \in Workers, NEW j,
         pc' = pc, job' = [job EXCEPT ![w] = j],
         j.cancelled # "no" \/ (j.cancelled = job[w].cancelled /\ j.aborted = job[w].aborted)
  PROVE  AbortHeard'
<1>1. job'[w] = j
  BY DEF TypeOK
<1>2. Heard(w)'
  BY <1>1 DEF AbortHeard, Heard
<1>. QED  BY <1>2, OwnHearing DEF TypeOK

LEMMA NextAbortHeard ==
  ASSUME TypeOK, AbortHeard, [Next]_vars
  PROVE  AbortHeard'
<1>1. ASSUME NEW w \in Workers, Runtime(w) PROVE AbortHeard'
  <2>1. CASE Admit(w)
    <3>1. /\ pc' = [pc EXCEPT ![w] = "running"]
          /\ job' = [job EXCEPT ![w].ran = "pending"]
          /\ ~ job[w].aborted
      BY <2>1 DEF Admit, Goto
    <3>2. job'[w].aborted = job[w].aborted
      BY <3>1 DEF TypeOK, Job, JobRecord
    <3>. QED  BY <3>1, <3>2, OwnHearing DEF Heard, TypeOK
  <2>2. CASE AdmitTooLate(w)
    BY <2>2, NotDriving DEF AdmitTooLate, Goto, Pcs, TypeOK
  <2>3. ASSUME NEW how, Return(w, how) PROVE AbortHeard'
    BY <2>3, NotDriving DEF Return, Pcs, TypeOK
  <2>4. ASSUME NEW from, NEW r, TryAgain(w, from, r) PROVE AbortHeard'
    BY <2>4, NotDriving DEF TryAgain, Goto, Pcs, TypeOK
  <2>5. ASSUME NEW from, NEW to \in {"busy", "proving", "proved"},
               Goto(w, from, to), UNCHANGED job
        PROVE  AbortHeard'
    BY <2>5, NotDriving DEF Goto, Pcs, TypeOK
  <2>. QED
    BY <1>1, <2>1, <2>2, <2>3, <2>4, <2>5
    DEF Runtime, PreflightFails, Refuse, KeepCustody, Conclude, Busy, InspectHeld,
        InspectFree, RecoverLease, ProveStopped, RecoveryFails
<1>2. ASSUME NEW w \in Workers, Broker(w) PROVE AbortHeard'
  <2>1. job[w] \in Job
    BY DEF TypeOK
  <2>2. /\ UNCHANGED pc
        /\ \A v \in Workers \ {w} : job'[v] = job[v]
        /\ job'[w].cancelled = job[w].cancelled /\ job'[w].aborted = job[w].aborted
    BY <1>2, <2>1
    DEF Broker, InvokeTool, StartHandler, DropCall, HandlerSettles, TypeOK, Job, JobRecord
  <2>3. Heard(w)'
    BY <2>2 DEF AbortHeard, Heard
  <2>. QED  BY <2>2, <2>3, OwnHearing
<1>3. ASSUME NEW w \in Workers, Host(w) PROVE AbortHeard'
  <2>1. CASE AbortSignal(w)
    <3> DEFINE k == [job[w] EXCEPT !.aborted = TRUE, !.revoked = TRUE]
    <3>1. k \in Job
      <4>1. job[w] \in Job
        BY DEF TypeOK
      <4>. QED  BY <4>1 DEF Job, JobRecord
    <3>2. CASE pc[w] \in {"running", "stopping"}
      <4>1. job' = [job EXCEPT ![w] = CancelOnce(k, "cancelled")] /\ pc' = pc
        BY <2>1, <3>2 DEF AbortSignal, TypeOK
      <4>. QED  BY <3>1, <4>1, CancelOnceHears, LocalsChange DEF Reasons
    <3>3. CASE pc[w] \notin {"running", "stopping"}
      <4>1. job' = [job EXCEPT ![w] = k] /\ pc' = pc
        BY <2>1, <3>3 DEF AbortSignal, TypeOK
      <4>. QED  BY <3>3, <4>1, OwnHearing DEF Heard, TypeOK
    <3>. QED  BY <3>2, <3>3
  <2>2. CASE Deadline(w)
    <3>1. /\ job' = [job EXCEPT ![w] = CancelOnce(job[w], "deadline-exceeded")]
          /\ pc' = pc /\ job[w] \in Job
      BY <2>2 DEF Deadline, TypeOK
    <3>. QED  BY <3>1, CancelOnceHears, LocalsChange DEF Reasons
  <2>3. ASSUME NEW a \in Accounts, NEW r \in RunIds, Begin(w, a, r) PROVE AbortHeard'
    BY <2>3, NotDriving DEF Begin, Goto, Pcs, TypeOK
  <2>. QED  BY <1>3, <2>1, <2>2, <2>3 DEF Host
<1>4. ASSUME NEW w \in Workers, Adapter(w) PROVE AbortHeard'
  <2>1. CASE Launch(w)
    BY <2>1 DEF Launch, AbortHeard, Heard
  <2>2. CASE StopProved(w) \/ StopRejected(w)
    <3>1. PICK stop : job' = [job EXCEPT ![w] = [@ EXCEPT !.stop = stop]]
      BY <2>2 DEF StopProved, StopRejected, TypeOK
    <3>2. UNCHANGED pc
      BY <2>2 DEF StopProved, StopRejected
    <3>. QED  BY ZenonT(60), <3>1, <3>2, LocalsChange DEF TypeOK, Job, JobRecord
  <2>3. ASSUME NEW how \in {"completed", "failed", "stopped", "rejected"},
               RunSettles(w, how)
        PROVE  AbortHeard'
    <3> DEFINE k == [job[w] EXCEPT !.ran = how]
    <3>1. /\ k \in Job /\ k.cancelled = job[w].cancelled /\ k.aborted = job[w].aborted
      BY DEF TypeOK, Job, JobRecord
    <3>2. /\ pc[w] = "running" /\ pc' = [pc EXCEPT ![w] = "stopping"]
          /\ job' = [job EXCEPT ![w] = StopOnce(k)] \/
             job' = [job EXCEPT ![w] = CancelOnce(k, "deadline-exceeded")]
      BY <2>3 DEF RunSettles, Goto, TypeOK
    <3> HIDE DEF k
    <3>3. \/ job'[w].cancelled # "no"
          \/ job'[w].cancelled = job[w].cancelled /\ job'[w].aborted = job[w].aborted
      BY <3>1, <3>2, StopOnceKeeps, CancelOnceHears DEF Reasons, TypeOK
    <3>4. Heard(w)'
      BY <3>2, <3>3 DEF AbortHeard, Heard
    <3>. QED  BY <3>2, <3>4, OwnHearing DEF TypeOK
  <2>. QED  BY <1>4, <2>1, <2>2, <2>3 DEF Adapter
<1>5. ASSUME NEW w \in Workers, Crash(w) PROVE AbortHeard'
  BY <1>5, NotDriving DEF Crash, Pcs, TypeOK
<1>6. ASSUME NEW l \in alive, ProviderExits(l) PROVE AbortHeard'
  BY <1>6 DEF ProviderExits, AbortHeard, Heard
<1>7. CASE UNCHANGED vars
  BY <1>7 DEF vars, AbortHeard, Heard
<1>. QED  BY <1>1, <1>2, <1>3, <1>4, <1>5, <1>6, <1>7 DEF Next

\* A step that reports completion finds the signal not aborted.
LEMMA NextReports ==
  ASSUME TypeOK, AbortHeard, Next, NEW w \in Workers,
         outcome'[w] = "completed", pc[w] = "stopping", pc'[w] = "idle"
  PROVE  ~ job[w].aborted
<1>0. job[w] \in Job
  BY DEF TypeOK
<1>1. PICK v \in Workers : Runtime(v)
  <2>1. ASSUME NEW v \in Workers, Broker(v) \/ Host(v) \/ Adapter(v) \/ Crash(v)
        PROVE  FALSE
    BY <2>1 DEF Broker, InvokeTool, StartHandler, DropCall, HandlerSettles,
                Host, Begin, AbortSignal, Deadline,
                Adapter, Launch, StopProved, StopRejected, RunSettles, Crash,
                Goto, TypeOK
  <2>2. ASSUME NEW l \in alive, ProviderExits(l) PROVE FALSE
    BY <2>2 DEF ProviderExits
  <2>. QED  BY <2>1, <2>2 DEF Next
<1>2. v = w
  BY <1>1
  DEF Runtime, PreflightFails, Admit, AdmitTooLate, Refuse, KeepCustody, Conclude,
      Busy, InspectHeld, InspectFree, RecoverLease, ProveStopped, RecoveryFails,
      Return, TryAgain, Goto, TypeOK
<1>3. KeepCustody(w) \/ Conclude(w)
  BY <1>1, <1>2
  DEF Runtime, PreflightFails, Admit, AdmitTooLate, Refuse, Busy, InspectHeld,
      InspectFree, RecoverLease, ProveStopped, RecoveryFails, TryAgain, Goto
<1>4. ~ Return(w, "error")
  BY DEF Return, TypeOK
<1>5. PICK late \in BOOLEAN : Return(w, Result(job[w], late))
  BY <1>3, <1>4 DEF KeepCustody, Conclude
<1>6. Result(job[w], late) = "completed"
  BY <1>5 DEF Return, TypeOK
<1>7. job[w].cancelled = "no"
  BY <1>0, <1>6 DEF Result, Job, JobRecord, Reasons
<1>. QED  BY <1>7 DEF AbortHeard, Heard

LEMMA InitAbortHeard == Init => AbortHeard
BY DEF Init, AbortHeard, Heard

\* A task whose signal was aborted before the account went back never reports
\* completion: the listener outlives run, and the result asks it first.
THEOREM CancelledReported == Spec => CancelledNotCompleted
<1>1. TypeOK /\ AbortHeard /\ [Next]_vars =>
        [\A w \in Workers :
           outcome'[w] = "completed" /\ pc[w] = "stopping" /\ pc'[w] = "idle"
             => ~ job[w].aborted]_vars
  BY NextReports
<1>. QED
  BY <1>1, InitAbortHeard, NextAbortHeard, TypeCorrect, PTL DEF Spec, CancelledNotCompleted

-----------------------------------------------------------------------------
\* Every worker but w stays where it is.
OthersStay(w) ==
  \A v \in Workers \ {w} :
    pc'[v] = pc[v] /\ lease'[v] = lease[v] /\ job'[v] = job[v]

\* w drives no lease that it has not driven before.
NoNewDrive(w) == \A l \in Lease : Drives(w, l)' => Drives(w, l)

\* The row of an account determines the lease it stands for.
LEMMA CurrentUnique ==
  ASSUME NEW k \in Lease, NEW l \in Lease, Current(k), Current(l),
         k.account = l.account
  PROVE  k = l
BY DEF Current, Lease

LEMMA LocalStep ==
  ASSUME TypeOK, TypeOK', TaskInv, NEW w \in Workers, UNCHANGED << table, alive >>,
         OthersStay(w), NoNewDrive(w), WorkerSound(w)'
  PROVE  TaskInv'
<1>1. \A l : Current(l)' <=> Current(l)
  BY DEF Current, table
<1>2. ProviderHoldsLease' /\ \A l \in alive' : l.owner # NoRun
  BY <1>1 DEF TaskInv, ProviderHoldsLease
<1>3. ASSUME NEW v \in Workers, v # w PROVE WorkerSound(v)'
  <2>1. lease[v] \in Lease
    BY DEF TypeOK
  <2>2. pc'[v] = pc[v] /\ lease'[v] = lease[v] /\ job'[v] = job[v]
    BY <1>3 DEF OthersStay
  <2>3. \A u \in Workers : Drives(u, lease[v])' => Drives(u, lease[v])
    BY <2>1, <2>2 DEF OthersStay, NoNewDrive, Drives
  <2>. QED  BY <1>1, <2>2, <2>3 DEF TaskInv, WorkerSound, table
<1>4. OwnLeases'
  <2> SUFFICES ASSUME NEW v \in Workers, NEW u \in Workers,
                      Drives(v, lease[u])', Drives(u, lease[u])'
               PROVE  v = u
    BY DEF OwnLeases
  <2>1. lease'[u] \in Lease /\ lease'[u] = lease'[v]
    BY DEF TypeOK, Drives
  <2>2. Drives(v, lease'[u]) /\ Drives(u, lease'[u])
    BY <2>1 DEF OthersStay, NoNewDrive, Drives
  <2>. QED  BY <2>2 DEF TaskInv, OwnLeases, Drives
<1>. QED  BY <1>2, <1>3, <1>4 DEF TaskInv

\* A lease goes that is current, drives no other worker and has no process.
LEMMA ReleaseStep ==
  ASSUME TypeOK, TypeOK', TaskInv, NEW w \in Workers, NEW l \in Lease,
         Current(l), l \notin alive, \A v \in Workers \ {w} : ~ Drives(v, l),
         Release(l), UNCHANGED alive, OthersStay(w),
         \A k \in Lease : ~ Drives(w, k)', WorkerSound(w)'
  PROVE  TaskInv'
<1>1. /\ owner' = [owner EXCEPT ![l.account] = NoRun]
      /\ generation' = generation
  BY DEF Release
<1>2. ASSUME NEW k \in Lease, Current(k), k # l PROVE Current(k)'
  <2>1. k.account # l.account
    BY <1>2, CurrentUnique
  <2>2. k.account \in Accounts /\ l.account \in Accounts
    BY DEF Lease
  <2>. QED  BY <1>1, <1>2, <2>1, <2>2 DEF Current, TypeOK
<1>3. ProviderHoldsLease' /\ \A k \in alive' : k.owner # NoRun
  BY <1>2 DEF TaskInv, ProviderHoldsLease, TypeOK
<1>4. ASSUME NEW v \in Workers, v # w PROVE WorkerSound(v)'
  <2>1. lease[v] \in Lease
    BY DEF TypeOK
  <2>2. pc'[v] = pc[v] /\ lease'[v] = lease[v] /\ job'[v] = job[v]
    BY <1>4 DEF OthersStay
  <2>3. WorkerSound(v)
    BY DEF TaskInv
  <2>4. \A u \in Workers : Drives(u, lease[v])' => Drives(u, lease[v])
    BY <2>1, <2>2 DEF OthersStay, Drives
  <2>5. pc[v] \in {"refusing", "running", "stopping"} => Current(lease[v])'
    <3>1. ASSUME pc[v] \in {"refusing", "running", "stopping"}
          PROVE  Current(lease[v]) /\ lease[v] # l
      BY <1>4, <2>3, <3>1 DEF WorkerSound, Drives
    <3>. QED  BY <1>2, <2>1, <2>2, <3>1 DEF Current
  <2>. QED  BY <1>1, <2>2, <2>3, <2>4, <2>5 DEF WorkerSound
<1>5. OwnLeases'
  <2> SUFFICES ASSUME NEW v \in Workers, NEW u \in Workers,
                      Drives(v, lease[u])', Drives(u, lease[u])'
               PROVE  v = u
    BY DEF OwnLeases
  <2>1. lease'[u] \in Lease /\ lease'[u] = lease'[v]
    BY DEF TypeOK, Drives
  <2>2. v # w /\ u # w
    BY <2>1 DEF Drives
  <2>. QED  BY <2>1, <2>2 DEF TaskInv, OwnLeases, OthersStay, Drives
<1>. QED  BY <1>3, <1>4, <1>5 DEF TaskInv

\* A free account is leased under its next generation.
LEMMA AcquireStep ==
  ASSUME TypeOK, TypeOK', TaskInv, NEW w \in Workers, Acquire(w),
         lease[w].owner \in RunIds, UNCHANGED alive,
         \A v \in Workers \ {w} : pc'[v] = pc[v] /\ job'[v] = job[v],
         pc'[w] \in {"refusing", "running"},
         job'[w].ran = "pending" <=> pc'[w] = "running",
         job'[w].stop = "uncalled", ~ (job'[w].pending > 0)
  PROVE  TaskInv'
<1> DEFINE a == lease[w].account
           n == generation[a] + 1
           l == LeaseOf(a, lease[w].owner, n)
<1>1. a \in Accounts /\ generation[a] \in Nat /\ owner[a] = NoRun
  BY Limits DEF TypeOK, Lease, Acquire
<1>2. /\ owner' = [owner EXCEPT ![a] = l.owner]
      /\ generation' = [generation EXCEPT ![a] = n]
      /\ lease' = [lease EXCEPT ![w] = l]
  BY DEF Acquire, LeaseOf
<1>3. l.account = a /\ l.owner = lease[w].owner /\ l.generation = n
  BY DEF LeaseOf
<1>4. lease'[w] = l /\ l \in Lease
  BY <1>2 DEF TypeOK
<1>5. \A v \in Workers \ {w} : lease'[v] = lease[v]
  BY <1>2 DEF TypeOK
<1>6. owner'[a] = l.owner /\ generation'[a] = n
  BY <1>1, <1>2 DEF TypeOK
<1>7. \A b \in Accounts : generation[b] \in Nat /\ generation'[b] \in Nat
  BY Limits DEF TypeOK
<1>8. ASSUME NEW b \in Accounts, b # a
      PROVE  owner'[b] = owner[b] /\ generation'[b] = generation[b]
  BY <1>1, <1>2, <1>8 DEF TypeOK
<1>9. \A b \in Accounts : generation[b] <= generation'[b]
  BY <1>1, <1>6, <1>7, <1>8
<1> HIDE DEF l, n, a
<1>10. ASSUME NEW k \in Lease, Current(k), k.owner # NoRun
       PROVE  Current(k)' /\ k # l
  <2>1. k.account \in Accounts /\ k.account # a
    BY <1>1, <1>10 DEF Current, Lease
  <2>. QED  BY <1>3, <1>8, <1>10, <2>1 DEF Current
<1>11. owner'[l.account] = l.owner /\ generation'[l.account] = l.generation
  BY <1>3, <1>6
<1>12. l \notin alive
  BY <1>4, <1>10 DEF TaskInv, ProviderHoldsLease
<1>13. ProviderHoldsLease' /\ \A k \in alive' : k.owner # NoRun
  BY <1>10 DEF TaskInv, ProviderHoldsLease, TypeOK
<1>14. \A v \in Workers \ {w} : \A k \in Lease : Drives(v, k)' <=> Drives(v, k)
  BY <1>5 DEF Drives
<1>15. ASSUME NEW v \in Workers, NEW k \in Lease, v # w, Drives(v, k)
       PROVE  Current(k) /\ k.owner # NoRun
  BY <1>15, TaskAssumption DEF Drives, TaskInv, WorkerSound
<1>16. WorkerSound(w)'
  BY <1>3, <1>4, <1>11, <1>12 DEF WorkerSound, Current
<1>17. ASSUME NEW v \in Workers, v # w PROVE WorkerSound(v)'
  <2>1. lease[v] \in Lease /\ lease[v].account \in Accounts /\ lease[v].generation \in Nat
    BY Limits DEF TypeOK, Lease
  <2>2. pc'[v] = pc[v] /\ lease'[v] = lease[v] /\ job'[v] = job[v]
    BY <1>5, <1>17
  <2>3. WorkerSound(v)
    BY DEF TaskInv
  <2>4. pc[v] \in {"refusing", "running", "stopping"} => Current(lease[v])'
    <3>1. ASSUME pc[v] \in {"refusing", "running", "stopping"}
          PROVE  Current(lease[v]) /\ lease[v].owner # NoRun
      BY <1>15, <1>17, <2>1, <3>1 DEF Drives
    <3>. QED  BY <1>10, <2>1, <2>2, <3>1 DEF Current
  <2>5. pc[v] \in {"proving", "proved"} =>
          lease[v].generation <= generation'[lease[v].account] /\ lease[v] # l
    <3>1. ASSUME lease[v].generation <= generation[lease[v].account] PROVE lease[v] # l
      BY <1>1, <1>3, <1>7, <2>1, <3>1 DEF n
    <3>. QED  BY <1>7, <1>9, <2>1, <2>3, <3>1 DEF WorkerSound
  <2>6. pc[v] = "proved" => \A u \in Workers : ~ Drives(u, lease[v])'
    <3> SUFFICES ASSUME pc[v] = "proved", NEW u \in Workers, Drives(u, lease[v])'
                 PROVE  FALSE
      OBVIOUS
    <3>1. CASE u = w
      BY <1>4, <2>2, <2>5, <3>1 DEF Drives
    <3>2. CASE u # w
      <4>1. Drives(u, lease[v])
        BY <1>5, <2>2, <3>2 DEF Drives
      <4>. QED  BY <2>3, <4>1 DEF WorkerSound
    <3>. QED  BY <3>1, <3>2
  <2>. QED  BY <2>2, <2>3, <2>4, <2>5, <2>6 DEF WorkerSound
<1>18. OwnLeases'
  <2> SUFFICES ASSUME NEW v \in Workers, NEW u \in Workers,
                      Drives(v, lease[u])', Drives(u, lease[u])'
               PROVE  v = u
    BY DEF OwnLeases
  <2>1. lease'[u] \in Lease /\ lease'[u] = lease'[v]
    BY DEF TypeOK, Drives
  <2>2. CASE u = w
    <3>1. lease'[v] = l
      BY <1>4, <2>1, <2>2
    <3>. QED  BY <1>4, <1>10, <1>14, <1>15, <2>2, <3>1
  <2>3. CASE v = w
    <3>1. lease'[u] = l
      BY <1>4, <2>1, <2>3
    <3>. QED  BY <1>4, <1>10, <1>14, <1>15, <2>3, <3>1
  <2>4. CASE u # w /\ v # w
    <3>1. Drives(v, lease[u]) /\ Drives(u, lease[u])
      BY <1>5, <1>14, <2>1, <2>4
    <3>. QED  BY <3>1 DEF TaskInv, OwnLeases
  <2>. QED  BY <2>2, <2>3, <2>4
<1>. QED  BY <1>13, <1>16, <1>17, <1>18 DEF TaskInv

-----------------------------------------------------------------------------
(***************************************************************************)
(* What the steps have in common.                                          *)
(***************************************************************************)
\* A task that has nothing queued returns: it relies on nothing any more.
LEMMA ReturnStep ==
  ASSUME TypeOK, TaskInv, NEW w \in Workers, NEW how \in Outcomes,
         Return(w, how), job[w].pending = 0
  PROVE  OthersStay(w) /\ (\A k \in Lease : ~ Drives(w, k)') /\ WorkerSound(w)'
<1>1. OthersStay(w)
  BY DEF OthersStay, Return, TypeOK
<1>2. pc'[w] = "idle"
  BY DEF Return, TypeOK
<1>3. job'[w].ran = "no" /\ job'[w].stop = "uncalled" /\ job'[w].pending = 0
  BY ReturnType
<1>. QED  BY <1>1, <1>2, <1>3 DEF Drives, WorkerSound

\* A task without an account has nothing queued.
LEMMA NothingPending ==
  ASSUME TypeOK, TaskInv, NEW w \in Workers, pc[w] \notin {"running", "stopping"}
  PROVE  job[w].pending = 0
<1>1. job[w].pending \in Nat
  BY Limits DEF TypeOK, Job, JobRecord
<1>. QED  BY <1>1 DEF TaskInv, WorkerSound

\* So does every path that ends a call and leaves the account alone.
LEMMA GiveUpStep ==
  ASSUME TypeOK, TypeOK', TaskInv, NEW w \in Workers, NEW how \in Outcomes,
         Return(w, how), job[w].pending = 0, UNCHANGED << table, alive >>
  PROVE  TaskInv'
<1>1. OthersStay(w) /\ (\A k \in Lease : ~ Drives(w, k)') /\ WorkerSound(w)'
  BY ReturnStep
<1>2. NoNewDrive(w)
  BY <1>1 DEF NoNewDrive
<1>. QED  BY <1>1, <1>2, LocalStep

\* A step on the locals of w alone.
LEMMA JobStep ==
  ASSUME TypeOK, TypeOK', TaskInv, NEW w \in Workers, NEW j \in Job,
         UNCHANGED << table, alive, pc, lease >>, job' = [job EXCEPT ![w] = j],
         j.ran = job[w].ran,
         j.stop = "proved" =>
           job[w].stop = "proved" \/ (pc[w] = "stopping" /\ lease[w] \notin alive),
         j.stop # "uncalled" =>
           job[w].stop # "uncalled" \/ pc[w] \in {"running", "stopping"},
         j.pending > 0 => pc[w] \in {"running", "stopping"}
  PROVE  TaskInv'
<1>1. OthersStay(w) /\ NoNewDrive(w)
  BY DEF OthersStay, NoNewDrive, Drives, TypeOK
<1>2. job'[w] = j
  BY DEF TypeOK
<1>3. WorkerSound(w)
  BY DEF TaskInv
<1>4. WorkerSound(w)'
  <2> USE <1>2, <1>3 DEF WorkerSound, Drives, Current, table
  <2>1. job'[w].ran = "pending" <=> pc'[w] = "running"
    OBVIOUS
  <2>2. job'[w].stop = "proved" => pc'[w] = "stopping" /\ lease'[w] \notin alive'
    OBVIOUS
  <2>. QED  BY <2>1, <2>2
<1>. QED  BY <1>1, <1>4, LocalStep

\* The second attempt asks for the account under a run id of its own.
LEMMA TryAgainStep ==
  ASSUME TypeOK, TaskInv, NEW w \in Workers, NEW from \in Pcs, NEW r \in RunIds,
         TryAgain(w, from, r)
  PROVE  OthersStay(w) /\ (\A k \in Lease : ~ Drives(w, k)') /\ WorkerSound(w)'
<1>1. OthersStay(w)
  BY DEF OthersStay, TryAgain, Goto, TypeOK
<1>2. /\ pc'[w] = "admitting"
      /\ lease'[w].owner = r
      /\ job'[w] = NewJob(1, job[w].aborted)
  BY DEF TryAgain, Goto, LeaseOf, TypeOK
<1>3. job[w].aborted \in BOOLEAN
  BY DEF TypeOK, Job, JobRecord
<1>4. job'[w].ran = "no" /\ job'[w].stop = "uncalled" /\ job'[w].pending = 0
  BY <1>2, <1>3, NewJobType
<1>. QED  BY <1>1, <1>2, <1>4 DEF Drives, WorkerSound

\* A worker gives the lease it drives back.
LEMMA OwnRelease ==
  ASSUME TypeOK, TypeOK', TaskInv, NEW w \in Workers, NEW how \in Outcomes,
         pc[w] \in {"refusing", "stopping"}, lease[w] \notin alive,
         job[w].pending = 0,
         Release(lease[w]), Return(w, how), UNCHANGED alive
  PROVE  TaskInv'
<1>1. OthersStay(w) /\ (\A k \in Lease : ~ Drives(w, k)') /\ WorkerSound(w)'
  BY ReturnStep
<1>2. lease[w] \in Lease /\ Current(lease[w])
  BY DEF TypeOK, TaskInv, WorkerSound
<1>3. \A v \in Workers \ {w} : ~ Drives(v, lease[w])
  BY DEF TaskInv, OwnLeases, Drives
<1>. QED  BY <1>1, <1>2, <1>3, ReleaseStep

-----------------------------------------------------------------------------
(***************************************************************************)
(* One lemma per group of actions.                                         *)
(***************************************************************************)
LEMMA RuntimeStep ==
  ASSUME TypeOK, TypeOK', TaskInv, NEW w \in Workers, Runtime(w)
  PROVE  TaskInv'
<1>1. /\ lease[w] \in Lease /\ lease[w].account \in Accounts
      /\ job[w] \in Job /\ job[w].pending \in Nat /\ WorkerSound(w)
  BY Limits DEF TypeOK, Lease, Job, JobRecord, TaskInv
<1>2. "error" \in Outcomes
  BY DEF Outcomes
<1>3. CASE PreflightFails(w)
  <2>1. job[w].pending = 0
    BY <1>3, NothingPending DEF PreflightFails
  <2>. QED  BY <1>2, <1>3, <2>1, GiveUpStep DEF PreflightFails
<1>4. CASE Admit(w)
  <2>1. pc[w] = "admitting" /\ job[w].pending = 0 /\ job[w].stop = "uncalled"
    BY <1>1, <1>4, NothingPending DEF Admit, Goto, WorkerSound
  <2>2. /\ pc' = [pc EXCEPT ![w] = "running"]
        /\ job' = [job EXCEPT ![w].ran = "pending"]
    BY <1>4, <2>1 DEF Admit, Goto
  <2>3. /\ pc'[w] = "running" /\ job'[w].ran = "pending"
        /\ job'[w].stop = job[w].stop /\ job'[w].pending = job[w].pending
        /\ \A v \in Workers \ {w} : pc'[v] = pc[v] /\ job'[v] = job[v]
    BY <1>1, <2>2 DEF TypeOK, Job, JobRecord
  <2>4. lease[w].owner \in RunIds
    BY <1>1, <2>1 DEF WorkerSound
  <2>. QED  BY <1>4, <2>1, <2>3, <2>4, AcquireStep DEF Admit
<1>5. CASE AdmitTooLate(w)
  <2>1. /\ pc[w] = "admitting" /\ job[w].pending = 0
        /\ job[w].stop = "uncalled" /\ job[w].ran # "pending"
    BY <1>1, <1>5, NothingPending DEF AdmitTooLate, Goto, WorkerSound
  <2>2. /\ pc' = [pc EXCEPT ![w] = "refusing"]
        /\ job' = [job EXCEPT ![w].revoked = TRUE]
    BY <1>5, <2>1 DEF AdmitTooLate, Goto
  <2>3. /\ pc'[w] = "refusing" /\ job'[w].ran = job[w].ran
        /\ job'[w].stop = job[w].stop /\ job'[w].pending = job[w].pending
        /\ \A v \in Workers \ {w} : pc'[v] = pc[v] /\ job'[v] = job[v]
    BY <1>1, <2>2 DEF TypeOK, Job, JobRecord
  <2>4. lease[w].owner \in RunIds
    BY <1>1, <2>1 DEF WorkerSound
  <2>. QED  BY <1>5, <2>1, <2>3, <2>4, AcquireStep DEF AdmitTooLate
<1>6. CASE Refuse(w)
  <2>1. lease[w] \notin alive /\ Current(lease[w])
    BY <1>1, <1>6 DEF Refuse, WorkerSound
  <2>. QED  BY <1>2, <1>6, <2>1, OwnRelease DEF Refuse
<1>7. CASE KeepCustody(w)
  BY <1>2, <1>7, GiveUpStep DEF KeepCustody, Joined
<1>8. CASE Conclude(w)
  <2>1. lease[w] \notin alive /\ Current(lease[w])
    BY <1>1, <1>8 DEF Conclude, Joined, WorkerSound
  <2>2. PICK late \in BOOLEAN : Return(w, Result(job[w], late))
    BY <1>8, <2>1 DEF Conclude
  <2>3. Result(job[w], late) \in Outcomes
    BY <1>1 DEF Result, Outcomes, Job, JobRecord, Reasons
  <2>. QED  BY <1>8, <2>1, <2>2, <2>3, OwnRelease DEF Conclude, Joined
<1>9. CASE Busy(w)
  <2>1. CASE Return(w, "error")
    <3>1. job[w].pending = 0
      BY <1>9, NothingPending DEF Busy
    <3>. QED  BY <1>2, <1>9, <2>1, <3>1, GiveUpStep DEF Busy
  <2>2. CASE Goto(w, "admitting", "busy") /\ UNCHANGED << lease, job, outcome >>
    <3>1. OthersStay(w) /\ NoNewDrive(w) /\ pc'[w] = "busy"
      BY <2>2 DEF OthersStay, NoNewDrive, Drives, Goto, TypeOK
    <3>2. WorkerSound(w)'
      BY <1>1, <2>2, <3>1 DEF WorkerSound, Goto
    <3>. QED  BY <1>9, <3>1, <3>2, LocalStep DEF Busy
  <2>. QED  BY <1>9, <2>1, <2>2 DEF Busy
<1>10. CASE InspectHeld(w)
  <2>1. /\ pc' = [pc EXCEPT ![w] = "proving"]
        /\ lease' = [lease EXCEPT ![w] = Row(lease[w].account)]
        /\ pc[w] = "busy" /\ job' = job
    BY <1>10 DEF InspectHeld, Goto
  <2>2. OthersStay(w) /\ NoNewDrive(w) /\ pc'[w] = "proving"
    BY <2>1 DEF OthersStay, NoNewDrive, Drives, TypeOK
  <2>3. /\ lease'[w].account = lease[w].account
        /\ lease'[w].owner = owner[lease[w].account]
        /\ lease'[w].generation = generation[lease[w].account]
    BY <2>1 DEF Row, LeaseOf, TypeOK
  <2>4. generation[lease[w].account] \in Nat
    BY <1>1, Limits DEF TypeOK
  <2>5. /\ lease'[w].owner # NoRun
        /\ lease'[w].generation <= generation'[lease'[w].account]
    BY <1>10, <2>3, <2>4 DEF InspectHeld, table
  <2>6. WorkerSound(w)'
    BY <1>1, <2>1, <2>2, <2>5 DEF WorkerSound
  <2>. QED  BY <1>10, <2>2, <2>6, LocalStep DEF InspectHeld
<1>11. ASSUME NEW r \in RunIds, InspectFree(w, r) PROVE TaskInv'
  <2>1. OthersStay(w) /\ (\A k \in Lease : ~ Drives(w, k)') /\ WorkerSound(w)'
    BY <1>11, TryAgainStep DEF InspectFree, Pcs
  <2>. QED
    BY <1>11, <2>1, LocalStep DEF InspectFree, TryAgain, NoNewDrive, table
<1>12. ASSUME NEW r \in RunIds, RecoverLease(w, r) PROVE TaskInv'
  <2>1. OthersStay(w) /\ (\A k \in Lease : ~ Drives(w, k)') /\ WorkerSound(w)'
    BY <1>12, TryAgainStep DEF RecoverLease, Pcs
  <2>2. lease[w] \notin alive /\ \A v \in Workers : ~ Drives(v, lease[w])
    BY <1>1, <1>12 DEF RecoverLease, WorkerSound
  <2>. QED
    BY <1>1, <1>12, <2>1, <2>2, ReleaseStep DEF RecoverLease, TryAgain
<1>13. CASE ProveStopped(w)
  <2>1. pc[w] = "proving" /\ pc' = [pc EXCEPT ![w] = "proved"]
    BY <1>13 DEF ProveStopped, Goto
  <2>2. OthersStay(w) /\ NoNewDrive(w) /\ pc'[w] = "proved"
    BY <1>13, <2>1 DEF ProveStopped, OthersStay, NoNewDrive, Drives, TypeOK
  <2>3. lease[w] \notin alive /\ \A v \in Workers : ~ Drives(v, lease[w])'
    BY <1>13, <2>1 DEF ProveStopped, Drives, TypeOK
  <2>4. WorkerSound(w)'
    BY <1>1, <1>13, <2>1, <2>2, <2>3 DEF WorkerSound, ProveStopped, table
  <2>. QED  BY <1>13, <2>2, <2>4, LocalStep DEF ProveStopped
<1>14. CASE RecoveryFails(w)
  <2>1. job[w].pending = 0
    BY <1>14, NothingPending DEF RecoveryFails
  <2>. QED  BY <1>2, <1>14, <2>1, GiveUpStep DEF RecoveryFails
<1>. QED
  BY <1>3, <1>4, <1>5, <1>6, <1>7, <1>8, <1>9, <1>10, <1>11, <1>12, <1>13, <1>14
  DEF Runtime

LEMMA BrokerStep ==
  ASSUME TypeOK, TypeOK', TaskInv, NEW w \in Workers, Broker(w)
  PROVE  TaskInv'
<1>1. job[w] \in Job /\ job[w].pending \in Nat /\ WorkerSound(w)
  BY Limits DEF TypeOK, Job, JobRecord, TaskInv
<1>2. job'[w] \in Job
  BY DEF TypeOK
<1>3. CASE InvokeTool(w)
  <2>1. pc[w] = "running"
    BY <1>1, <1>3 DEF InvokeTool, WorkerSound
  <2>2. PICK admitted \in BOOLEAN :
          job' = [job EXCEPT ![w].calls = @ + 1,
                             ![w].pending = IF admitted THEN @ + 1 ELSE @]
    BY <1>3 DEF InvokeTool
  <2> DEFINE j == [job[w] EXCEPT !.calls = @ + 1,
                                 !.pending = IF admitted THEN @ + 1 ELSE @]
  <2>3. j.ran = job[w].ran /\ j.stop = job[w].stop
    BY <1>1 DEF Job, JobRecord
  <2>4. job' = [job EXCEPT ![w] = j]
    BY <2>2 DEF TypeOK
  <2>5. j \in Job
    BY <1>2, <2>4 DEF TypeOK
  <2> HIDE DEF j
  <2>6. UNCHANGED << table, alive, pc, lease >>
    BY <1>3 DEF InvokeTool
  <2>. QED  BY <1>1, <2>1, <2>3, <2>4, <2>5, <2>6, JobStep DEF WorkerSound
<1>4. CASE StartHandler(w)
  <2>1. /\ job' = [job EXCEPT ![w] = job'[w]]
        /\ job'[w].ran = job[w].ran /\ job'[w].stop = job[w].stop
        /\ job'[w].pending = job[w].pending
    BY <1>1, <1>4 DEF StartHandler, TypeOK, Job, JobRecord
  <2>. QED  BY <1>1, <1>2, <1>4, <2>1, JobStep DEF StartHandler, WorkerSound
<1>5. CASE DropCall(w)
  <2>1. /\ job' = [job EXCEPT ![w] = job'[w]]
        /\ job'[w].ran = job[w].ran /\ job'[w].stop = job[w].stop
    BY <1>1, <1>5 DEF DropCall, TypeOK, Job, JobRecord
  <2>. QED  BY <1>1, <1>2, <1>5, <2>1, JobStep DEF DropCall, WorkerSound
<1>6. CASE HandlerSettles(w)
  <2>1. /\ job' = [job EXCEPT ![w] = job'[w]]
        /\ job'[w].ran = job[w].ran /\ job'[w].stop = job[w].stop
    BY <1>1, <1>6 DEF HandlerSettles, TypeOK, Job, JobRecord
  <2>2. job[w].pending > 0
    BY <1>1, <1>6 DEF HandlerSettles, Job
  <2>. QED  BY <1>1, <1>2, <1>6, <2>1, <2>2, JobStep DEF HandlerSettles, WorkerSound
<1>. QED  BY <1>3, <1>4, <1>5, <1>6 DEF Broker

LEMMA HostStep ==
  ASSUME TypeOK, TypeOK', TaskInv, NEW w \in Workers, Host(w)
  PROVE  TaskInv'
<1>1. job[w] \in Job /\ job[w].pending \in Nat /\ WorkerSound(w)
  BY Limits DEF TypeOK, Job, JobRecord, TaskInv
<1>2. ASSUME NEW a \in Accounts, NEW r \in RunIds, Begin(w, a, r) PROVE TaskInv'
  <2>1. pc'[w] = "admitting" /\ lease'[w].owner \in RunIds
    BY <1>2 DEF Begin, Goto, LeaseOf, TypeOK
  <2>2. job'[w].ran = "no" /\ job'[w].stop = "uncalled" /\ job'[w].pending = 0
    <3>1. job'[w] = NewJob(0, FALSE)
      BY <1>2 DEF Begin, TypeOK
    <3>. QED  BY <3>1, NewJobType
  <2>3. WorkerSound(w)'
    BY <2>1, <2>2 DEF WorkerSound
  <2>4. OthersStay(w) /\ NoNewDrive(w)
    BY <1>2, <2>1 DEF Begin, Goto, OthersStay, NoNewDrive, Drives, TypeOK
  <2>. QED  BY <1>2, <2>3, <2>4, LocalStep DEF Begin
<1>3. CASE AbortSignal(w)
  <2> DEFINE k == [job[w] EXCEPT !.aborted = TRUE, !.revoked = TRUE]
  <2>1. k \in Job /\ k.ran = job[w].ran /\ k.stop = job[w].stop
        /\ k.pending = job[w].pending
    BY <1>1 DEF Job, JobRecord
  <2> DEFINE j == IF pc[w] \in {"running", "stopping"}
                    THEN CancelOnce(k, "cancelled") ELSE k
  <2>2. job' = [job EXCEPT ![w] = j]
    BY <1>3 DEF AbortSignal, TypeOK
  <2> HIDE DEF k
  <2>3. /\ j \in Job /\ j.ran = job[w].ran /\ j.pending = job[w].pending
        /\ j.stop = "proved" <=> job[w].stop = "proved"
        /\ pc[w] \in {"running", "stopping"} \/ j.stop = job[w].stop
    BY <2>1, CancelOnceType DEF Reasons
  <2> HIDE DEF j
  <2>. QED  BY ZenonT(60), <1>1, <1>3, <2>2, <2>3, JobStep DEF AbortSignal, WorkerSound
<1>4. CASE Deadline(w)
  <2> DEFINE j == CancelOnce(job[w], "deadline-exceeded")
  <2>1. job' = [job EXCEPT ![w] = j]
    BY <1>4 DEF Deadline, TypeOK
  <2>2. /\ j \in Job /\ j.ran = job[w].ran /\ j.pending = job[w].pending
        /\ j.stop = "proved" <=> job[w].stop = "proved"
    BY <1>1, CancelOnceType DEF Reasons
  <2> HIDE DEF j
  <2>. QED  BY <1>1, <1>4, <2>1, <2>2, JobStep DEF Deadline, WorkerSound
<1>. QED  BY <1>2, <1>3, <1>4 DEF Host

\* A launch while run has not settled, whether or not stop has been called.
Spawns(w) ==
  /\ job[w].ran = "pending"
  /\ alive' = alive \cup {lease[w]}
  /\ UNCHANGED << table, pc, lease, job, outcome, issued >>

\* The provider process appears under a lease that is current and its own.
LEMMA LaunchStep ==
  ASSUME TypeOK, TypeOK', TaskInv, NEW w \in Workers, Spawns(w)
  PROVE  TaskInv'
<1>1. /\ lease[w] \in Lease /\ WorkerSound(w)
      /\ job[w].ran = "pending"
  BY DEF TypeOK, TaskInv, Spawns
<1>2. pc[w] = "running" /\ Current(lease[w]) /\ lease[w].owner # NoRun
  BY <1>1, TaskAssumption DEF WorkerSound
<1>3. /\ alive' = alive \cup {lease[w]}
      /\ UNCHANGED << table, pc, lease, job >>
  BY DEF Spawns
<1>4. \A l : Current(l)' <=> Current(l)
  BY <1>3 DEF Current, table
<1>5. ProviderHoldsLease' /\ \A l \in alive' : l.owner # NoRun
  <2>1. \A l \in alive' : Current(l) /\ l.owner # NoRun
    BY <1>2, <1>3 DEF TaskInv, ProviderHoldsLease
  <2>. QED  BY <1>4, <2>1 DEF ProviderHoldsLease
<1>6. ASSUME NEW v \in Workers PROVE WorkerSound(v)'
  <2>1. WorkerSound(v)
    BY DEF TaskInv
  <2>2. pc[v] = "refusing" \/ job[v].stop = "proved" => lease[v] # lease[w]
    BY <1>1, <1>2, <2>1 DEF WorkerSound, TaskInv, OwnLeases, Drives
  <2>3. pc[v] = "proved" => lease[v] # lease[w]
    BY <1>2, <2>1 DEF WorkerSound, Drives
  <2>. QED
    BY <1>3, <2>1, <2>2, <2>3 DEF WorkerSound, Current, Drives, table
<1>7. OwnLeases'
  BY <1>3 DEF TaskInv, OwnLeases, Drives
<1>. QED  BY <1>5, <1>6, <1>7 DEF TaskInv

LEMMA AdapterStep ==
  ASSUME TypeOK, TypeOK', TaskInv, NEW w \in Workers, Adapter(w)
  PROVE  TaskInv'
<1>1. job[w] \in Job /\ job[w].pending \in Nat /\ WorkerSound(w)
  BY Limits DEF TypeOK, Job, JobRecord, TaskInv
<1>2. CASE Launch(w)
  BY <1>2, LaunchStep DEF Launch, MayLaunch, Spawns
<1>3. CASE StopProved(w)
  <2>1. pc[w] = "stopping"
    BY <1>1, <1>3 DEF StopProved, WorkerSound
  <2> DEFINE j == [job[w] EXCEPT !.stop = "proved"]
  <2>2. j \in Job /\ j.ran = job[w].ran /\ j.pending = job[w].pending
    BY <1>1 DEF Job, JobRecord
  <2>3. job' = [job EXCEPT ![w] = j]
    BY <1>3 DEF StopProved, TypeOK
  <2> HIDE DEF j
  <2>. QED  BY <1>1, <1>3, <2>1, <2>2, <2>3, JobStep DEF StopProved, WorkerSound
<1>4. CASE StopRejected(w)
  <2> DEFINE j == [job[w] EXCEPT !.stop = "rejected"]
  <2>1. /\ j \in Job /\ j.ran = job[w].ran /\ j.pending = job[w].pending
        /\ j.stop = "rejected"
    BY <1>1 DEF Job, JobRecord
  <2>2. job' = [job EXCEPT ![w] = j]
    BY <1>4 DEF StopRejected, TypeOK
  <2> HIDE DEF j
  <2>. QED  BY <1>1, <1>4, <2>1, <2>2, JobStep DEF StopRejected, WorkerSound
<1>5. ASSUME NEW how \in {"completed", "failed", "stopped", "rejected"},
             RunSettles(w, how)
      PROVE  TaskInv'
  <2> DEFINE k == [job[w] EXCEPT !.ran = how]
  <2>1. /\ k \in Job /\ k.ran = how /\ k.stop = job[w].stop
        /\ k.pending = job[w].pending
    BY <1>1 DEF Job, JobRecord
  <2>2. PICK late \in BOOLEAN :
          job' = [job EXCEPT ![w] = IF late THEN CancelOnce(k, "deadline-exceeded")
                                            ELSE StopOnce(k)]
    BY <1>5 DEF RunSettles, TypeOK
  <2> HIDE DEF k
  <2>3. /\ job'[w].ran = how
        /\ job'[w].stop = "proved" <=> job[w].stop = "proved"
    BY <2>1, <2>2, StopOnceType, CancelOnceType DEF Reasons, TypeOK
  <2>4. /\ pc[w] = "running" /\ pc' = [pc EXCEPT ![w] = "stopping"]
        /\ UNCHANGED << table, alive, lease >>
    BY <1>5 DEF RunSettles, Goto
  <2>5. pc'[w] = "stopping"
    BY <2>4 DEF TypeOK
  <2>6. OthersStay(w) /\ NoNewDrive(w)
    BY <2>2, <2>4, <2>5 DEF OthersStay, NoNewDrive, Drives, TypeOK
  <2>7. WorkerSound(w)'
    BY <1>1, <2>3, <2>4, <2>5 DEF WorkerSound, Current, table
  <2>. QED  BY <2>4, <2>6, <2>7, LocalStep
<1>. QED  BY <1>2, <1>3, <1>4, <1>5 DEF Adapter

LEMMA CrashStep ==
  ASSUME TypeOK, TypeOK', TaskInv, NEW w \in Workers, Crash(w)
  PROVE  TaskInv'
<1>1. pc'[w] = "dead"
  BY DEF Crash, TypeOK
<1>2. job'[w].ran = "no" /\ job'[w].stop = "uncalled" /\ job'[w].pending = 0
  <2>1. job'[w] = NewJob(0, TRUE)
    BY DEF Crash, TypeOK
  <2>. QED  BY <2>1, NewJobType
<1>3. WorkerSound(w)'
  BY <1>1, <1>2 DEF WorkerSound
<1>4. OthersStay(w) /\ NoNewDrive(w)
  BY <1>1 DEF Crash, OthersStay, NoNewDrive, Drives, TypeOK
<1>. QED  BY <1>3, <1>4, LocalStep DEF Crash

LEMMA ExitStep ==
  ASSUME TypeOK, TypeOK', TaskInv, NEW l \in alive, ProviderExits(l)
  PROVE  TaskInv'
<1>1. /\ alive' \subseteq alive
      /\ UNCHANGED << table, pc, lease, job >>
  BY DEF ProviderExits
<1>2. \A k : Current(k)' <=> Current(k)
  BY <1>1 DEF Current, table
<1>3. ASSUME NEW v \in Workers PROVE WorkerSound(v)'
  <2>1. WorkerSound(v)
    BY DEF TaskInv
  <2>. QED  BY <1>1, <2>1 DEF WorkerSound, Current, Drives, table
<1>4. OwnLeases'
  BY <1>1 DEF TaskInv, OwnLeases, Drives
<1>5. ProviderHoldsLease' /\ \A k \in alive' : k.owner # NoRun
  BY <1>1, <1>2 DEF TaskInv, ProviderHoldsLease
<1>. QED  BY <1>3, <1>4, <1>5 DEF TaskInv

-----------------------------------------------------------------------------
LEMMA InitTaskInv == Init => TaskInv
<1> SUFFICES ASSUME Init PROVE TaskInv
  OBVIOUS
<1>1. ASSUME NEW w \in Workers
      PROVE  /\ pc[w] = "idle" /\ job[w].ran = "no"
             /\ job[w].stop = "uncalled" /\ job[w].pending = 0
  BY NewJobType DEF Init
<1>2. \A w \in Workers : WorkerSound(w)
  BY <1>1 DEF WorkerSound
<1>3. OwnLeases
  BY <1>1 DEF OwnLeases, Drives
<1>. QED  BY <1>2, <1>3 DEF Init, TaskInv, ProviderHoldsLease

LEMMA NextTaskInv == TypeOK /\ TypeOK' /\ TaskInv /\ [Next]_vars => TaskInv'
<1> SUFFICES ASSUME TypeOK, TypeOK', TaskInv, [Next]_vars PROVE TaskInv'
  OBVIOUS
<1>1. CASE UNCHANGED vars
  BY <1>1 DEF vars, table, TaskInv, ProviderHoldsLease, WorkerSound, OwnLeases,
              Current, Drives
<1>2. CASE Next
  BY <1>2, RuntimeStep, BrokerStep, HostStep, AdapterStep, CrashStep, ExitStep
  DEF Next
<1>. QED  BY <1>1, <1>2

\* Rows, provider processes, tasks and recoveries agree on who has which
\* account, in every reachable state of runAgentTask, the lease table and the
\* command line's recovery, for any number of workers and accounts.
THEOREM TaskInvariant == Spec => []TaskInv
<1>1. Spec => []TypeOK
  BY TypeCorrect
<1>. QED  BY <1>1, InitTaskInv, NextTaskInv, PTL DEF Spec

\* A provider process lives only while the row of its account still names its
\* lease: what release's comment in accounts.ts asks of runAgentTask.
THEOREM ProvidersHold == Spec => []ProviderHoldsLease
<1>1. TaskInv => ProviderHoldsLease
  BY DEF TaskInv
<1>. QED  BY <1>1, TaskInvariant, PTL

LEMMA HandlersCovered == TypeOK /\ TaskInv => HandlersHoldLease
<1> SUFFICES ASSUME TypeOK, TaskInv, NEW w \in Workers, job[w].executing
             PROVE  Current(lease[w])
  BY DEF HandlersHoldLease
<1>1. job[w].pending > 0
  BY DEF TypeOK, Job
<1>. QED  BY <1>1 DEF TaskInv, WorkerSound

\* A handler of the broker runs only while its task has the account, since
\* runAgentTask joins the broker before it releases.
THEOREM HandlersHold == Spec => []HandlersHoldLease
BY HandlersCovered, TypeCorrect, TaskInvariant, PTL

-----------------------------------------------------------------------------
(***************************************************************************)
(* The lease table and its tasks implement AccountCustody.                 *)
(***************************************************************************)
\* The generation of an account has passed that of every lease it ever had.
IssuedPast == \A l \in issued : l.generation <= generation[l.account]

LEMMA NextIssuedPast ==
  TypeOK /\ IssuedPast /\ [Next]_vars => IssuedPast'
<1> SUFFICES ASSUME TypeOK, IssuedPast, [Next]_vars PROVE IssuedPast'
  OBVIOUS
<1>1. ASSUME UNCHANGED << generation, issued >> PROVE IssuedPast'
  BY <1>1 DEF IssuedPast
<1>2. ASSUME NEW w \in Workers, Acquire(w) PROVE IssuedPast'
  <2> DEFINE a == lease[w].account
             n == generation[a] + 1
             l == LeaseOf(a, lease[w].owner, n)
  <2>1. a \in Accounts /\ generation[a] \in Nat
    BY Limits DEF TypeOK, Lease
  <2>2. generation' = [generation EXCEPT ![a] = n] /\ issued' = issued \cup {l}
    BY <1>2 DEF Acquire, LeaseOf
  <2>3. l.account = a /\ l.generation = n
    BY DEF LeaseOf
  <2>4. ASSUME NEW k \in issued PROVE k.generation <= generation'[k.account]
    <3>1. /\ k.account \in Accounts /\ k.generation \in Nat
          /\ generation[k.account] \in Nat
          /\ k.generation <= generation[k.account]
      BY Limits DEF TypeOK, Lease, IssuedPast
    <3>. QED  BY <2>1, <2>2, <3>1 DEF TypeOK
  <2>5. l.generation <= generation'[l.account]
    BY <2>1, <2>2, <2>3 DEF TypeOK
  <2> HIDE DEF l, n, a
  <2>. QED  BY <2>2, <2>4, <2>5 DEF IssuedPast
<1>3. ASSUME NEW w \in Workers, Runtime(w) PROVE IssuedPast'
  BY <1>1, <1>2, <1>3
  DEF Runtime, PreflightFails, Admit, AdmitTooLate, Refuse, KeepCustody, Conclude,
      Busy, InspectHeld, InspectFree, RecoverLease, ProveStopped, RecoveryFails,
      Release, table
<1>4. ASSUME NEW w \in Workers, Broker(w) \/ Host(w) \/ Adapter(w) \/ Crash(w)
      PROVE  IssuedPast'
  BY <1>1, <1>4
  DEF Broker, InvokeTool, StartHandler, DropCall, HandlerSettles,
      Host, Begin, AbortSignal, Deadline,
      Adapter, Launch, StopProved, StopRejected, RunSettles, Crash, table
<1>5. ASSUME NEW l \in alive, ProviderExits(l) PROVE IssuedPast'
  BY <1>1, <1>5 DEF ProviderExits, table
<1>6. CASE UNCHANGED vars
  BY <1>1, <1>6 DEF vars, table
<1>. QED  BY <1>3, <1>4, <1>5, <1>6 DEF Next

LEMMA HolderFree ==
  ASSUME TypeOK, NEW a \in Accounts
  PROVE  Row(a) \in Lease /\ (Holder(a) # NoRun <=> owner[a] # NoRun)
<1>1. Row(a) \in Lease
  BY DEF Row, LeaseOf, Lease, TypeOK
<1>. QED  BY <1>1, NoRunAssumption DEF Holder

\* A step that does not touch the table's rows changes no holder.
LEMMA SameHolders ==
  ASSUME UNCHANGED table
  PROVE  \A a \in Accounts : Holder(a)' = Holder(a)
BY DEF table, Holder, Row

LEMMA IdleImplements ==
  ASSUME UNCHANGED << table, alive, issued >>
  PROVE  UNCHANGED Custody!custodyVars
BY SameHolders DEF Custody!custodyVars

LEMMA InitImplements == Init => Custody!CustodyInit /\ IssuedPast
BY DEF Init, Custody!CustodyInit, Holder, IssuedPast

LEMMA AcquireImplements ==
  ASSUME TypeOK, TypeOK', IssuedPast, NEW w \in Workers, Acquire(w),
         lease[w].owner # NoRun, UNCHANGED alive
  PROVE  Custody!CustodyNext
<1>0. PICK a \in Accounts : a = lease[w].account
  BY DEF TypeOK, Lease
<1>1. PICK l : l = LeaseOf(a, lease[w].owner, generation[a] + 1)
  OBVIOUS
<1>2. generation[a] \in Nat /\ owner[a] = NoRun
  BY <1>0, Limits DEF TypeOK, Acquire
<1>3. l.account = a /\ l.owner = lease[w].owner /\ l.generation = generation[a] + 1
  BY <1>0, <1>1 DEF LeaseOf
<1>4. /\ owner' = [owner EXCEPT ![a] = l.owner]
      /\ generation' = [generation EXCEPT ![a] = l.generation]
      /\ issued' = issued \cup {l} /\ l \in issued'
  BY <1>0, <1>1 DEF Acquire
<1>5. l \in Lease
  BY <1>4 DEF TypeOK
<1>6. l \notin issued
  BY <1>2, <1>3 DEF IssuedPast
<1>7. Holder(a) = NoRun
  BY <1>2 DEF Holder
<1>8. Holder(a)' = l
  <2>1. owner'[a] = l.owner /\ generation'[a] = l.generation /\ l.owner # NoRun
    BY <1>3, <1>4 DEF TypeOK
  <2>. QED  BY <1>3, <1>5, <2>1 DEF Holder, Row, LeaseOf, Lease
<1>9. ASSUME NEW b \in Accounts, b # a PROVE Holder(b)' = Holder(b)
  BY <1>4, <1>9 DEF Holder, Row, TypeOK
<1>10. Custody!Acquire(a, l)
  <2>1. [b \in Accounts |-> Holder(b)]'
          = [[b \in Accounts |-> Holder(b)] EXCEPT ![a] = l]
    BY <1>8, <1>9
  <2>. QED  BY <1>4, <1>6, <1>7, <2>1 DEF Custody!Acquire
<1>. QED  BY <1>5, <1>10 DEF Custody!CustodyNext

LEMMA ReleaseImplements ==
  ASSUME TypeOK, NEW l \in Lease, Current(l), l.owner # NoRun, l \notin alive,
         Release(l), UNCHANGED alive
  PROVE  Custody!CustodyNext
<1> DEFINE a == l.account
<1>1. a \in Accounts
  BY DEF Lease
<1>2. owner' = [owner EXCEPT ![a] = NoRun] /\ UNCHANGED << generation, issued >>
  BY DEF Release
<1>3. owner[a] = l.owner /\ generation[a] = l.generation
  BY DEF Current
<1>4. Holder(a) = l
  BY <1>3 DEF Holder, Row, LeaseOf, Lease
<1>5. Holder(a)' = NoRun
  BY <1>1, <1>2 DEF Holder, TypeOK
<1>6. ASSUME NEW b \in Accounts, b # a PROVE Holder(b)' = Holder(b)
  BY <1>1, <1>2, <1>6 DEF Holder, Row, TypeOK
<1>7. l # NoRun
  BY NoRunAssumption
<1> HIDE DEF a
<1>8. Custody!GiveBack(a)
  <2>1. [b \in Accounts |-> Holder(b)]'
          = [[b \in Accounts |-> Holder(b)] EXCEPT ![a] = NoRun]
    BY <1>1, <1>5, <1>6
  <2>. QED  BY <1>1, <1>2, <1>4, <1>7, <2>1 DEF Custody!GiveBack
<1>. QED  BY <1>1, <1>8 DEF Custody!CustodyNext

LEMMA LaunchImplements ==
  ASSUME TypeOK, TaskInv, NEW w \in Workers, Spawns(w)
  PROVE  Custody!CustodyNext
<1>0. lease[w] \in Lease /\ WorkerSound(w)
  BY DEF TypeOK, TaskInv
<1>1. Current(lease[w]) /\ lease[w].owner # NoRun
  BY <1>0, TaskAssumption DEF Spawns, WorkerSound
<1> DEFINE a == lease[w].account
<1>2. a \in Accounts
  BY <1>0 DEF Lease
<1>3. Holder(a) = lease[w]
  BY <1>0, <1>1 DEF Current, Holder, Row, LeaseOf, Lease
<1>4. lease[w] # NoRun
  BY <1>0, NoRunAssumption
<1>5. /\ alive' = alive \cup {lease[w]} /\ UNCHANGED issued
      /\ \A b \in Accounts : Holder(b)' = Holder(b)
  BY SameHolders DEF Spawns
<1> HIDE DEF a
<1>6. Custody!Start(a)
  BY <1>2, <1>3, <1>4, <1>5 DEF Custody!Start
<1>. QED  BY <1>2, <1>6 DEF Custody!CustodyNext

LEMMA NextImplements ==
  ASSUME TypeOK, TypeOK', TaskInv, IssuedPast, [Next]_vars
  PROVE  [Custody!CustodyNext]_(Custody!custodyVars)
<1>1. ASSUME NEW w \in Workers
      PROVE  lease[w] \in Lease /\ WorkerSound(w)
  BY DEF TypeOK, TaskInv
<1>2. ASSUME NEW w \in Workers, Admit(w) \/ AdmitTooLate(w)
      PROVE  Custody!CustodyNext
  <2>1. lease[w].owner # NoRun
    BY <1>1, <1>2, TaskAssumption DEF Admit, AdmitTooLate, Goto, WorkerSound
  <2>. QED  BY <1>2, <2>1, AcquireImplements DEF Admit, AdmitTooLate
<1>3. ASSUME NEW w \in Workers,
             Refuse(w) \/ Conclude(w) \/ \E r \in RunIds : RecoverLease(w, r)
      PROVE  Custody!CustodyNext
  <2>1. /\ Current(lease[w]) /\ lease[w] \notin alive
        /\ lease[w].owner # NoRun
    BY <1>1, <1>3, TaskAssumption
    DEF Refuse, Conclude, Joined, RecoverLease, WorkerSound
  <2>2. Release(lease[w]) /\ UNCHANGED alive
    BY <1>3, <2>1 DEF Refuse, Conclude, RecoverLease, TryAgain
  <2>. QED  BY <1>1, <2>1, <2>2, ReleaseImplements
<1>4. ASSUME NEW w \in Workers, Launch(w) PROVE Custody!CustodyNext
  BY <1>4, LaunchImplements DEF Launch, MayLaunch, Spawns
<1>5. ASSUME NEW l \in alive, ProviderExits(l) PROVE Custody!CustodyNext
  <2>1. Custody!Stop(l)
    BY <1>5, SameHolders DEF ProviderExits, Custody!Stop
  <2>. QED  BY <2>1 DEF TypeOK, Custody!CustodyNext
<1>6. ASSUME NEW w \in Workers,
             \/ PreflightFails(w) \/ KeepCustody(w) \/ Busy(w) \/ InspectHeld(w)
             \/ (\E r \in RunIds : InspectFree(w, r))
             \/ ProveStopped(w) \/ RecoveryFails(w)
      PROVE  UNCHANGED << table, alive, issued >>
  BY <1>6 DEF PreflightFails, KeepCustody, Busy, InspectHeld, InspectFree, TryAgain,
              ProveStopped, RecoveryFails
<1>7. ASSUME NEW w \in Workers, Broker(w) \/ Host(w) \/ Crash(w)
      PROVE  UNCHANGED << table, alive, issued >>
  BY <1>7 DEF Broker, InvokeTool, StartHandler, DropCall, HandlerSettles,
              Host, Begin, AbortSignal, Deadline, Crash
<1>8. ASSUME NEW w \in Workers, Adapter(w), ~ Launch(w)
      PROVE  UNCHANGED << table, alive, issued >>
  BY <1>8 DEF Adapter, StopProved, StopRejected, RunSettles
<1>9. CASE UNCHANGED vars
  BY <1>9, IdleImplements DEF vars, table
<1>. QED
  BY <1>2, <1>3, <1>4, <1>5, <1>6, <1>7, <1>8, <1>9, IdleImplements
  DEF Next, Runtime

\* Seen through its rows and its provider processes, a task runtime behaves
\* as AccountCustody promises: acquire takes the account, the launch starts,
\* the end of the process stops, release and recover give back.
THEOREM TaskImplementsCustody == Spec => TaskCustodyKept
<1>1. Init => Custody!CustodyInit /\ IssuedPast
  BY InitImplements
<1>2. TypeOK /\ TypeOK' /\ TaskInv /\ IssuedPast /\ [Next]_vars =>
        [Custody!CustodyNext]_(Custody!custodyVars)
  BY NextImplements
<1>. QED
  BY <1>1, <1>2, NextIssuedPast, TypeCorrect, TaskInvariant, PTL
  DEF Spec, TaskCustodyKept, Custody!CustodySpec

-----------------------------------------------------------------------------
(***************************************************************************)
(* The Claude adapter in place of that adapter.                            *)
(***************************************************************************)
\* The launch directory is there as long as the provider is, joined or not
\* (claude-task-adapter.ts: execute, runProvider).
THEOREM ScratchOutlives == ClaudeSpec => []ScratchOutlivesProvider
<1>1. ClaudeInit => ScratchOutlivesProvider
  BY DEF ClaudeInit, Init, ScratchOutlivesProvider
<1>2. ASSUME ScratchOutlivesProvider, [ClaudeNext]_claudeVars PROVE ScratchOutlivesProvider'
  <2>1. ASSUME alive' \subseteq alive, dirs' = dirs PROVE ScratchOutlivesProvider'
    BY <1>2, <2>1 DEF ScratchOutlivesProvider
  <2>2. ASSUME NEW w \in Workers, ClaudeRuntime(w) PROVE ScratchOutlivesProvider'
    BY <2>1, <2>2 DEF ClaudeRuntime, ClaudeAdmit, Admit, Conclude, KeepCustody, PreflightFails, AdmitTooLate,
       Refuse, Busy, InspectHeld, ProveStopped, RecoveryFails, InspectFree, RecoverLease, TryAgain, Elsewhere
  <2>3. ASSUME NEW w \in Workers, ClaudeBroker(w) PROVE ScratchOutlivesProvider'
    BY <2>1, <2>3 DEF ClaudeBroker, StartHandler, DropCall, HandlerSettles, Elsewhere
  <2>4. ASSUME NEW w \in Workers, Spawn(w) PROVE ScratchOutlivesProvider'
    BY <1>2, <2>4 DEF Spawn, ScratchOutlivesProvider
  <2>5. ASSUME NEW w \in Workers, ProcessJoined(w) PROVE ScratchOutlivesProvider'
    BY <1>2, <2>5 DEF ProcessJoined, LeaveProvider, RunSettles, ScratchOutlivesProvider
  <2>6. ASSUME NEW w \in Workers, ClaudeAdapter(w), ~Spawn(w), ~ProcessJoined(w) PROVE ScratchOutlivesProvider'
    BY <2>1, <2>6 DEF ClaudeAdapter, Prepare, PrepareFails, AbortSlot, CallTool, InvokeTool, ProviderTurnEnds,
       JoinEnds, ProcessNotStopped, JoinThrows, LeaveProvider, RunSettles, ClaudeStop, vars
  <2>7. ASSUME NEW w \in Workers, Host(w), Elsewhere PROVE ScratchOutlivesProvider'
    BY <2>1, <2>7 DEF Host, Begin, AbortSignal, Deadline, Elsewhere
  <2>8. ASSUME NEW w \in Workers, ClaudeCrash(w) PROVE ScratchOutlivesProvider'
    BY <2>1, <2>8 DEF ClaudeCrash, Crash
  <2>9. ASSUME NEW l \in alive, ProviderExits(l), Elsewhere PROVE ScratchOutlivesProvider'
    BY <2>1, <2>9 DEF ProviderExits, Elsewhere
  <2>10. CASE UNCHANGED claudeVars
    BY <2>1, <2>10 DEF claudeVars, vars
  <2>. QED  BY <1>2, <2>2, <2>3, <2>4, <2>5, <2>6, <2>7, <2>8, <2>9, <2>10 DEF ClaudeNext
<1>. QED  BY <1>1, <1>2, PTL DEF ClaudeSpec

\* What a step of the adapter is to the runtime, but for the launch, which does
\* not ask whether stop has been called, and the stop, which has its own idea of
\* when the process is gone.
LEMMA ClaudeSteps ==
  ASSUME [ClaudeNext]_claudeVars
  PROVE  [Next]_vars \/ \E w \in Workers : Spawn(w) \/ ClaudeStop(w)
<1>1. ASSUME NEW w \in Workers, ClaudeRuntime(w) PROVE Runtime(w)
  BY <1>1 DEF ClaudeRuntime, ClaudeAdmit, Runtime
<1>2. ASSUME NEW w \in Workers, ClaudeBroker(w) PROVE Broker(w)
  BY <1>2 DEF ClaudeBroker, Broker
<1>3. ASSUME NEW w \in Workers, ClaudeAdapter(w), ~ Spawn(w), ~ ClaudeStop(w)
      PROVE  Broker(w) \/ Adapter(w) \/ UNCHANGED vars
  BY <1>3
  DEF ClaudeAdapter, Prepare, PrepareFails, AbortSlot, CallTool, ProviderTurnEnds, JoinEnds,
      ProcessJoined, ProcessNotStopped, JoinThrows, LeaveProvider, Adapter, Broker
<1>4. ASSUME NEW w \in Workers, ClaudeCrash(w) PROVE Crash(w)
  BY <1>4 DEF ClaudeCrash
<1>5. CASE UNCHANGED claudeVars
  BY <1>5 DEF claudeVars
<1>. QED  BY <1>1, <1>2, <1>3, <1>4, <1>5 DEF ClaudeNext, Next

LEMMA ClaudeStopWrites ==
  ASSUME NEW w \in Workers, ClaudeStop(w)
  PROVE  /\ \E stop \in {"proved", "rejected"} : job' = [job EXCEPT ![w].stop = stop]
         /\ UNCHANGED << table, alive, pc, lease, outcome, issued >>
BY DEF ClaudeStop

LEMMA ClaudeType == TypeOK /\ [ClaudeNext]_claudeVars => TypeOK'
<1> SUFFICES ASSUME TypeOK, [ClaudeNext]_claudeVars PROVE TypeOK'
  OBVIOUS
<1>1. ASSUME NEW w \in Workers, Spawn(w) PROVE TypeOK'
  BY <1>1 DEF Spawn, TypeOK, table
<1>2. ASSUME NEW w \in Workers, ClaudeStop(w) PROVE TypeOK'
  <2>1. PICK stop \in {"proved", "rejected"} : job' = [job EXCEPT ![w].stop = stop]
    BY <1>2, ClaudeStopWrites
  <2>2. [job[w] EXCEPT !.stop = stop] \in Job
    BY DEF TypeOK, Job, JobRecord
  <2>3. job' = [job EXCEPT ![w] = [job[w] EXCEPT !.stop = stop]]
    BY <2>1
  <2>. QED  BY <1>2, <2>2, <2>3, ClaudeStopWrites DEF TypeOK, table
<1>. QED  BY <1>1, <1>2, ClaudeSteps, NextType

LEMMA ClaudeAbortHeard == TypeOK /\ AbortHeard /\ [ClaudeNext]_claudeVars => AbortHeard'
<1> SUFFICES ASSUME TypeOK, AbortHeard, [ClaudeNext]_claudeVars PROVE AbortHeard'
  OBVIOUS
<1>1. ASSUME NEW w \in Workers, Spawn(w) PROVE AbortHeard'
  BY <1>1 DEF Spawn, AbortHeard, Heard
<1>2. ASSUME NEW w \in Workers, ClaudeStop(w) PROVE AbortHeard'
  <2>1. PICK stop \in {"proved", "rejected"} : job' = [job EXCEPT ![w].stop = stop]
    BY <1>2, ClaudeStopWrites
  <2> DEFINE j == [job[w] EXCEPT !.stop = stop]
  <2>2. j.cancelled = job[w].cancelled /\ j.aborted = job[w].aborted
    BY DEF TypeOK, Job, JobRecord
  <2>3. job' = [job EXCEPT ![w] = j]
    BY <2>1
  <2> HIDE DEF j
  <2>. QED  BY <1>2, <2>2, <2>3, ClaudeStopWrites, LocalsChange
<1>. QED  BY <1>1, <1>2, ClaudeSteps, NextAbortHeard

\* With the Claude adapter, too, a task whose signal was aborted before the account
\* went back never reports completion, also when the join of its process threw.
THEOREM ClaudeCancelled == ClaudeSpec => CancelledNotCompleted
<1>1. TypeOK /\ AbortHeard /\ [ClaudeNext]_claudeVars =>
        [\A w \in Workers :
           outcome'[w] = "completed" /\ pc[w] = "stopping" /\ pc'[w] = "idle"
             => ~ job[w].aborted]_vars
  <2> SUFFICES ASSUME TypeOK, AbortHeard, [ClaudeNext]_claudeVars, ~ UNCHANGED vars, NEW w \in Workers,
                      outcome'[w] = "completed", pc[w] = "stopping", pc'[w] = "idle"
               PROVE  ~ job[w].aborted
    OBVIOUS
  <2>1. ASSUME NEW v \in Workers, Spawn(v) \/ ClaudeStop(v) PROVE FALSE
    BY <2>1 DEF Spawn, ClaudeStop
  <2>2. Next
    BY <2>1, ClaudeSteps
  <2>. QED  BY <2>2, NextReports
<1>2. ClaudeInit => TypeOK /\ AbortHeard
  BY InitType, InitAbortHeard DEF ClaudeInit
<1>. QED  BY <1>1, <1>2, ClaudeType, ClaudeAbortHeard, PTL DEF ClaudeSpec, CancelledNotCompleted

-----------------------------------------------------------------------------
\* Where a slot is, its task is; and a slot that has not spawned, or whose stop
\* will give evidence, has no process.
SlotSound(w) ==
  /\ slot[w].stage = "none" <=> pc[w] \notin {"running", "stopping"}
  /\ slot[w].stage = "settled" <=> pc[w] = "stopping"
  /\ slot[w].stage = "preparing" => lease[w] \notin alive
  /\ slot[w].stage = "settled" /\ (slot[w].started => slot[w].stopped) => lease[w] \notin alive

SlotsSound ==
  /\ slot \in [Workers -> Slot]
  /\ active \in [Workers -> BOOLEAN]
  /\ \A w \in Workers : SlotSound(w)

LEMMA NewSlotType ==
  ASSUME NEW busy \in BOOLEAN
  PROVE  NewSlot(busy) \in Slot /\ NewSlot(busy).stage = "preparing" /\ NoSlot \in Slot /\ NoSlot.stage = "none"
BY DEF NewSlot, NoSlot, Slot

\* Only the slot of one worker changes, and no process appears.
LEMMA SlotStep ==
  ASSUME SlotsSound, NEW w \in Workers, alive' \subseteq alive,
         slot' \in [Workers -> Slot], active' \in [Workers -> BOOLEAN], SlotSound(w)',
         \A v \in Workers \ {w} : slot'[v] = slot[v] /\ pc'[v] = pc[v] /\ lease'[v] = lease[v]
  PROVE  SlotsSound'
<1>1. ASSUME NEW v \in Workers, v # w PROVE SlotSound(v)'
  BY <1>1 DEF SlotsSound, SlotSound
<1>. QED  BY <1>1 DEF SlotsSound

\* A worker outside its run stays outside it.
LEMMA SlotStays ==
  ASSUME SlotsSound, TypeOK, NEW w \in Workers, Elsewhere, UNCHANGED alive,
         pc[w] \notin {"running", "stopping"}, pc'[w] \notin {"running", "stopping"},
         \A v \in Workers \ {w} : pc'[v] = pc[v] /\ lease'[v] = lease[v]
  PROVE  SlotsSound'
<1>1. SlotSound(w)'
  BY DEF SlotsSound, SlotSound, Elsewhere
<1>. QED  BY <1>1, SlotStep DEF SlotsSound, Elsewhere

LEMMA SlotElsewhere ==
  ASSUME SlotsSound, Elsewhere, alive' \subseteq alive, UNCHANGED << pc, lease >>
  PROVE  SlotsSound'
<1>1. ASSUME NEW v \in Workers PROVE SlotSound(v)'
  BY DEF SlotsSound, SlotSound, Elsewhere
<1>. QED  BY <1>1 DEF SlotsSound, Elsewhere

\* The lease that admission takes is new, so it has no process yet.
LEMMA AcquiredIsNew ==
  ASSUME TypeOK, TaskInv, NEW w \in Workers, Acquire(w), UNCHANGED alive
  PROVE  lease'[w] \notin alive'
<1>0. PICK a \in Accounts : a = lease[w].account
  BY DEF TypeOK, Lease
<1>1. lease'[w] = LeaseOf(a, lease[w].owner, generation[a] + 1) /\ generation[a] \in Nat
  BY <1>0, Limits DEF Acquire, TypeOK
<1>2. lease'[w].account = a /\ lease'[w].generation = generation[a] + 1
  BY <1>1 DEF LeaseOf
<1>3. ~ Current(lease'[w])
  BY <1>1, <1>2 DEF Current
<1>. QED  BY <1>3 DEF TaskInv, ProviderHoldsLease

LEMMA ClaudeRuntimeSlots ==
  ASSUME TypeOK, TaskInv, SlotsSound, NEW w \in Workers, ClaudeRuntime(w)
  PROVE  SlotsSound'
<1>0. slot[w] \in Slot /\ active[w] \in BOOLEAN
  BY DEF SlotsSound
<1>1. CASE ClaudeAdmit(w)
  <2>1. /\ pc' = [pc EXCEPT ![w] = "running"] /\ slot' = [slot EXCEPT ![w] = NewSlot(active[w])]
        /\ active' = [active EXCEPT ![w] = TRUE] /\ UNCHANGED alive /\ Acquire(w)
    BY <1>1 DEF ClaudeAdmit, Admit, Goto
  <2>2. slot' \in [Workers -> Slot] /\ active' \in [Workers -> BOOLEAN] /\ slot'[w].stage = "preparing"
    BY <1>0, <2>1, NewSlotType DEF SlotsSound
  <2>3. SlotSound(w)'
    BY <2>1, <2>2, AcquiredIsNew DEF SlotSound, TypeOK
  <2>4. \A v \in Workers \ {w} : slot'[v] = slot[v] /\ pc'[v] = pc[v] /\ lease'[v] = lease[v]
    BY <2>1 DEF Acquire, SlotsSound, TypeOK
  <2>. QED  BY <2>1, <2>2, <2>3, <2>4, SlotStep
<1>2. CASE (Conclude(w) \/ KeepCustody(w)) /\ slot' = [slot EXCEPT ![w] = NoSlot] /\ UNCHANGED << active, dirs >>
  <2>1. PICK how : Return(w, how)
    BY <1>2 DEF Conclude, KeepCustody
  <2>2. UNCHANGED alive
    BY <1>2 DEF Conclude, KeepCustody
  <2>3. slot' \in [Workers -> Slot] /\ slot'[w].stage = "none" /\ pc'[w] = "idle"
    BY <1>2, <2>1, NewSlotType DEF SlotsSound, Return, TypeOK
  <2>4. SlotSound(w)'
    BY <2>3 DEF SlotSound
  <2>5. \A v \in Workers \ {w} : slot'[v] = slot[v] /\ pc'[v] = pc[v] /\ lease'[v] = lease[v]
    BY <1>2, <2>1 DEF Return, SlotsSound, TypeOK
  <2>. QED  BY <1>2, <2>2, <2>3, <2>4, <2>5, SlotStep DEF SlotsSound
<1>3. CASE /\ \/ PreflightFails(w) \/ AdmitTooLate(w) \/ Refuse(w)
              \/ Busy(w) \/ InspectHeld(w) \/ ProveStopped(w) \/ RecoveryFails(w)
              \/ \E r \in RunIds : InspectFree(w, r) \/ RecoverLease(w, r)
           /\ Elsewhere
  <2>1. /\ pc[w] \in {"admitting", "refusing", "busy", "proving", "proved"}
        /\ \E to \in {"idle", "refusing", "busy", "proving", "proved", "admitting"} : pc' = [pc EXCEPT ![w] = to]
        /\ UNCHANGED alive
    BY <1>3 DEF PreflightFails, AdmitTooLate, Refuse, Busy, InspectHeld, ProveStopped, RecoveryFails, InspectFree,
       RecoverLease, TryAgain, Return, Goto
  <2>2. \A v \in Workers \ {w} : lease'[v] = lease[v]
    BY <1>3 DEF PreflightFails, AdmitTooLate, Refuse, Busy, InspectHeld, ProveStopped, RecoveryFails, InspectFree,
       RecoverLease, TryAgain, Return, Acquire, TypeOK
  <2>3. /\ pc[w] \notin {"running", "stopping"} /\ pc'[w] \notin {"running", "stopping"}
        /\ \A v \in Workers \ {w} : pc'[v] = pc[v]
    BY <2>1 DEF TypeOK
  <2>. QED  BY <1>3, <2>1, <2>2, <2>3, SlotStays
<1>. QED  BY <1>1, <1>2, <1>3 DEF ClaudeRuntime

\* What the steps of the adapter may be as long as no join throws.
LEMMA ClaudeAdapterSlots ==
  ASSUME TypeOK, TaskInv, SlotsSound, NEW w \in Workers, ClaudeAdapter(w), ~ JoinThrows(w)
  PROVE  SlotsSound'
<1>0. slot[w] \in Slot /\ SlotSound(w)
  BY DEF SlotsSound
<1>1. ASSUME NEW s \in Slot, slot' = [slot EXCEPT ![w] = s], UNCHANGED lease, alive' \subseteq alive,
             active' \in [Workers -> BOOLEAN], SlotSound(w)', \A v \in Workers \ {w} : pc'[v] = pc[v]
      PROVE  SlotsSound'
  BY <1>1, SlotStep DEF SlotsSound
<1>2. ASSUME NEW how, RunSettles(w, how)
      PROVE  /\ pc[w] = "running" /\ pc'[w] = "stopping" /\ UNCHANGED << alive, lease >>
             /\ \A v \in Workers \ {w} : pc'[v] = pc[v]
  BY <1>2 DEF RunSettles, Goto, TypeOK
<1>3. CASE Spawn(w)
  <2>1. /\ slot[w].stage = "preparing" /\ slot' = [slot EXCEPT ![w].stage = "running"]
        /\ alive' = alive \cup {lease[w]} /\ UNCHANGED << pc, lease, active >>
    BY <1>3 DEF Spawn
  <2>2. slot' \in [Workers -> Slot] /\ slot'[w].stage = "running"
    BY <1>0, <2>1 DEF SlotsSound, Slot
  <2>3. pc[w] = "running"
    BY <1>0, <2>1 DEF SlotSound, Slot
  <2>4. ASSUME NEW v \in Workers, v # w PROVE SlotSound(v)'
    <3>1. SlotSound(v) /\ slot'[v] = slot[v] /\ pc'[v] = pc[v] /\ lease'[v] = lease[v]
      BY <2>1, <2>4 DEF SlotsSound
    <3>2. slot[v].stage \in {"preparing", "settled"} => pc[v] \in {"running", "stopping"}
      BY <3>1 DEF SlotSound
    <3>3. slot[v].stage \in {"preparing", "settled"} => lease[v] # lease[w]
      BY <2>3, <2>4, <3>2 DEF TaskInv, OwnLeases, Drives
    <3>. QED  BY <2>1, <3>1, <3>3 DEF SlotSound
  <2>5. SlotSound(w)'
    BY <2>1, <2>2, <2>3 DEF SlotSound
  <2>. QED  BY <2>1, <2>2, <2>4, <2>5 DEF SlotsSound
<1>4. CASE PrepareFails(w)
  <2>1. PICK entered \in BOOLEAN : slot' = [slot EXCEPT ![w].stage = "settled", ![w].started = entered]
    BY <1>4 DEF PrepareFails
  <2> DEFINE s == [slot[w] EXCEPT !.stage = "settled", !.started = entered]
  <2>2. s \in Slot /\ s.stage = "settled"
    BY <1>0 DEF Slot
  <2>3. slot' = [slot EXCEPT ![w] = s]
    BY <2>1, <1>0 DEF SlotsSound
  <2>4. slot[w].stage = "preparing" /\ RunSettles(w, "failed") /\ UNCHANGED active
    BY <1>4 DEF PrepareFails
  <2> HIDE DEF s
  <2>5. slot'[w] = s
    BY <2>3 DEF SlotsSound
  <2>6. SlotSound(w)'
    BY <1>0, <1>2, <2>2, <2>4, <2>5 DEF SlotSound
  <2>. QED  BY <1>1, <1>2, <2>2, <2>3, <2>4, <2>6 DEF SlotsSound
<1>5. CASE AbortSlot(w) \/ ProviderTurnEnds(w)
  <2>1. UNCHANGED << pc, lease, alive, active >>
    BY <1>5 DEF AbortSlot, ProviderTurnEnds, vars
  <2>2. ASSUME NEW s \in Slot, slot' = [slot EXCEPT ![w] = s], s.started = slot[w].started, s.stopped = slot[w].stopped,
               s.stage = slot[w].stage \/ (slot[w].stage = "running" /\ s.stage = "joining")
        PROVE  SlotsSound'
    <3>1. slot'[w] = s
      BY <2>2 DEF SlotsSound
    <3>2. SlotSound(w)'
      BY <1>0, <2>1, <2>2, <3>1 DEF SlotSound
    <3>. QED  BY <1>1, <2>1, <2>2, <3>2 DEF SlotsSound
  <2>3. CASE AbortSlot(w)
    <3> DEFINE s == [slot[w] EXCEPT !.aborted = TRUE]
    <3>1. s \in Slot /\ s.started = slot[w].started /\ s.stopped = slot[w].stopped /\ s.stage = slot[w].stage
      BY <1>0 DEF Slot
    <3>2. slot' = [slot EXCEPT ![w] = s]
      BY <2>3 DEF AbortSlot
    <3> HIDE DEF s
    <3>. QED  BY <2>2, <3>1, <3>2
  <2>4. CASE ProviderTurnEnds(w)
    <3> DEFINE s == [slot[w] EXCEPT !.stage = "joining"]
    <3>1. s \in Slot /\ s.started = slot[w].started /\ s.stopped = slot[w].stopped /\ s.stage = "joining"
      BY <1>0 DEF Slot
    <3>2. slot' = [slot EXCEPT ![w] = s] /\ slot[w].stage = "running"
      BY <2>4 DEF ProviderTurnEnds
    <3> HIDE DEF s
    <3>. QED  BY <2>2, <3>1, <3>2
  <2>. QED  BY <1>5, <2>3, <2>4
<1>6. CASE CallTool(w)
  <2>1. Elsewhere /\ UNCHANGED << pc, lease, alive >>
    BY <1>6 DEF CallTool, InvokeTool, Elsewhere
  <2>. QED  BY <2>1, SlotElsewhere
<1>7. ASSUME NEW how, NEW stopped \in BOOLEAN, LeaveProvider(w, how, stopped), stopped => lease[w] \notin alive
      PROVE  SlotsSound'
  <2> DEFINE s == [slot[w] EXCEPT !.stage = "settled", !.started = TRUE, !.stopped = stopped]
  <2>1. s \in Slot /\ s.stage = "settled" /\ s.started = TRUE /\ s.stopped = stopped
    BY <1>0 DEF Slot
  <2>2. slot' = [slot EXCEPT ![w] = s] /\ RunSettles(w, how) /\ UNCHANGED active
    BY <1>0, <1>7 DEF LeaveProvider, SlotsSound
  <2> HIDE DEF s
  <2>3. slot'[w] = s
    BY <2>2 DEF SlotsSound
  <2>4. SlotSound(w)'
    BY <1>2, <1>7, <2>1, <2>2, <2>3 DEF SlotSound
  <2>. QED  BY <1>1, <1>2, <2>1, <2>2, <2>4 DEF SlotsSound
<1>8. CASE ProcessJoined(w) \/ ProcessNotStopped(w)
  BY <1>7, <1>8 DEF ProcessJoined, ProcessNotStopped
<1>9. CASE ClaudeStop(w)
  <2>1. UNCHANGED << pc, lease, alive, slot >> /\ slot[w].busy \in BOOLEAN
    BY <1>0, <1>9 DEF ClaudeStop, Slot
  <2>2. active' \in [Workers -> BOOLEAN]
    BY <1>9, <2>1 DEF ClaudeStop, SlotsSound
  <2>. QED  BY <2>1, <2>2, SlotStep, <1>0 DEF SlotsSound, SlotSound
<1>. QED
  BY <1>3, <1>4, <1>5, <1>6, <1>8, <1>9 DEF ClaudeAdapter, Prepare, JoinEnds

LEMMA JoiningSlots ==
  ASSUME TypeOK, TaskInv, SlotsSound, [JoiningNext]_claudeVars
  PROVE  SlotsSound'
<1>1. ASSUME NEW w \in Workers, ClaudeRuntime(w) PROVE SlotsSound'
  BY <1>1, ClaudeRuntimeSlots
<1>2. ASSUME NEW w \in Workers, ClaudeBroker(w) PROVE SlotsSound'
  BY <1>2, SlotElsewhere DEF ClaudeBroker, StartHandler, DropCall, HandlerSettles
<1>3. ASSUME NEW w \in Workers, ClaudeAdapter(w), ~ JoinThrows(w) PROVE SlotsSound'
  BY <1>3, ClaudeAdapterSlots
<1>4. ASSUME NEW w \in Workers, Host(w), Elsewhere PROVE SlotsSound'
  <2>1. ASSUME NEW a \in Accounts, NEW r \in RunIds, Begin(w, a, r) PROVE SlotsSound'
    <3>1. pc[w] = "idle" /\ pc'[w] = "admitting" /\ UNCHANGED alive
          /\ \A v \in Workers \ {w} : pc'[v] = pc[v] /\ lease'[v] = lease[v]
      BY <2>1 DEF Begin, Goto, TypeOK
    <3>. QED  BY <1>4, <3>1, SlotStays
  <2>. QED  BY <1>4, <2>1, SlotElsewhere DEF Host, AbortSignal, Deadline
<1>5. ASSUME NEW w \in Workers, ClaudeCrash(w) PROVE SlotsSound'
  <2>1. /\ pc' = [pc EXCEPT ![w] = "dead"] /\ UNCHANGED alive
        /\ \A v \in Workers \ {w} : lease'[v] = lease[v]
        /\ slot' = [slot EXCEPT ![w] = NoSlot] /\ active' = [active EXCEPT ![w] = FALSE]
    BY <1>5 DEF ClaudeCrash, Crash, TypeOK
  <2>2. /\ slot' \in [Workers -> Slot] /\ slot'[w].stage = "none" /\ pc'[w] = "dead"
        /\ active' \in [Workers -> BOOLEAN]
    BY <2>1, NewSlotType DEF SlotsSound, TypeOK
  <2>3. SlotSound(w)'
    BY <2>2 DEF SlotSound
  <2>. QED  BY <2>1, <2>2, <2>3, SlotStep DEF SlotsSound, TypeOK
<1>6. ASSUME NEW l \in alive, ProviderExits(l), Elsewhere PROVE SlotsSound'
  BY <1>6, SlotElsewhere DEF ProviderExits
<1>7. CASE UNCHANGED claudeVars
  BY <1>7, SlotElsewhere DEF claudeVars, vars, Elsewhere
<1>. QED  BY <1>1, <1>2, <1>3, <1>4, <1>5, <1>6, <1>7 DEF JoiningNext, ClaudeNext

\* As long as no join throws, the adapter keeps to its interface but for one thing: it
\* may launch after stop has been called, since the abort that stop makes reaches its
\* controller a moment later.
LEMMA JoiningSteps ==
  ASSUME TypeOK, TaskInv, SlotsSound, [JoiningNext]_claudeVars
  PROVE  [Next]_vars \/ \E w \in Workers : Spawns(w)
<1>1. ASSUME NEW w \in Workers, Spawn(w) PROVE Spawns(w)
  <2>1. SlotSound(w) /\ WorkerSound(w) /\ slot[w].stage = "preparing"
    BY <1>1 DEF SlotsSound, TaskInv, Spawn
  <2>2. pc[w] = "running"
    BY <2>1 DEF SlotSound
  <2>. QED  BY <1>1, <2>1, <2>2 DEF Spawn, Spawns, WorkerSound
<1>2. ASSUME NEW w \in Workers, ClaudeStop(w) PROVE Adapter(w)
  <2>1. SlotSound(w) /\ WorkerSound(w) /\ slot[w].stage = "settled" /\ job[w].stop = "pending"
    BY <1>2 DEF SlotsSound, TaskInv, ClaudeStop
  <2>2. job[w].ran # "pending"
    BY <2>1 DEF SlotSound, WorkerSound
  <2>3. CASE slot[w].started /\ ~ slot[w].stopped
    BY <1>2, <2>1, <2>3 DEF ClaudeStop, Adapter, StopRejected
  <2>4. CASE ~ (slot[w].started /\ ~ slot[w].stopped)
    <3>1. slot[w].started => slot[w].stopped
      BY <2>4 DEF SlotsSound, Slot
    <3>2. lease[w] \notin alive
      BY <2>1, <3>1 DEF SlotSound
    <3>. QED  BY <1>2, <2>1, <2>2, <2>4, <3>2 DEF ClaudeStop, Adapter, StopProved
  <2>. QED  BY <2>3, <2>4
<1>3. [ClaudeNext]_claudeVars
  BY DEF JoiningNext
<1>. QED  BY <1>1, <1>2, <1>3, ClaudeSteps DEF Next

ClaudeInv == TypeOK /\ TaskInv /\ IssuedPast /\ SlotsSound

LEMMA InitClaude == ClaudeInit => ClaudeInv /\ Custody!CustodyInit
<1> SUFFICES ASSUME ClaudeInit PROVE ClaudeInv /\ Custody!CustodyInit
  OBVIOUS
<1>1. Init /\ slot = [w \in Workers |-> NoSlot] /\ active = [w \in Workers |-> FALSE]
  BY DEF ClaudeInit
<1>2. \A w \in Workers : pc[w] = "idle" /\ slot[w].stage = "none"
  BY <1>1, NewSlotType DEF Init
<1>3. SlotsSound
  BY <1>1, <1>2, NewSlotType DEF SlotsSound, SlotSound
<1>. QED  BY <1>1, <1>3, InitType, InitTaskInv, InitImplements DEF ClaudeInv

LEMMA ClaudeInvKeeps == ClaudeInv /\ [JoiningNext]_claudeVars => ClaudeInv' /\ [Custody!CustodyNext]_(Custody!custodyVars)
<1> SUFFICES ASSUME ClaudeInv, [JoiningNext]_claudeVars
             PROVE  ClaudeInv' /\ [Custody!CustodyNext]_(Custody!custodyVars)
  OBVIOUS
<1>0. TypeOK /\ TaskInv /\ IssuedPast /\ SlotsSound
  BY DEF ClaudeInv
<1>1. TypeOK'
  BY <1>0, ClaudeType DEF JoiningNext
<1>2. SlotsSound'
  BY <1>0, JoiningSlots
<1>3. CASE [Next]_vars
  BY <1>0, <1>1, <1>2, <1>3, NextTaskInv, NextIssuedPast, NextImplements DEF ClaudeInv
<1>4. ASSUME NEW w \in Workers, Spawns(w) PROVE ClaudeInv' /\ [Custody!CustodyNext]_(Custody!custodyVars)
  <2>1. IssuedPast'
    BY <1>0, <1>4 DEF IssuedPast, Spawns, table
  <2>. QED  BY <1>0, <1>1, <1>2, <1>4, <2>1, LaunchStep, LaunchImplements DEF ClaudeInv
<1>. QED  BY <1>0, <1>3, <1>4, JoiningSteps

\* As long as every join of a process tells the truth, a host with the real adapter
\* behaves as AccountCustody promises: whatever it has been told of aborts, deadlines and
\* failures, the account goes back only when the process of the task is gone.
THEOREM ClaudeKeepsCustody == JoiningSpec => TaskCustodyKept
BY InitClaude, ClaudeInvKeeps, PTL DEF JoiningSpec, TaskCustodyKept, Custody!CustodySpec

\* And its row names the lease of a live provider until then.
THEOREM ClaudeProvidersHold == JoiningSpec => []ProviderHoldsLease
<1>1. ClaudeInv => ProviderHoldsLease
  BY DEF ClaudeInv, TaskInv
<1>. QED  BY <1>1, InitClaude, ClaudeInvKeeps, PTL DEF JoiningSpec

\* A handler of a Claude task runs only under that row too: when the adapter's stop has
\* answered, the broker is joined before the release.
THEOREM ClaudeHandlersHold == JoiningSpec => []HandlersHoldLease
<1>1. ClaudeInv => HandlersHoldLease
  BY HandlersCovered DEF ClaudeInv
<1>. QED  BY <1>1, InitClaude, ClaudeInvKeeps, PTL DEF JoiningSpec
=============================================================================
