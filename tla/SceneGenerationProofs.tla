------------------------ MODULE SceneGenerationProofs ------------------------
(***************************************************************************)
(* Proofs about SceneGeneration, for any sets of jobs, ticks and workers   *)
(* and any MaxAttempts:                                                    *)
(*                                                                         *)
(*   - whatever fails (any MaxFaults): TypeOK, and Safe, whose conjuncts   *)
(*     are AttemptsLeft, AtMostOneCandidate, SucceededHasCandidate and     *)
(*     ActiveHasLease with what makes them inductive;                      *)
(*   - when nothing fails (MaxFaults = 0): Steady, from which follow       *)
(*     ExclusiveExecution, ActiveHasWorker, SubmittedNeverFails and        *)
(*     FollowsLifecycle;                                                   *)
(*   - how far the faults of the code reach: what becomes of a stranded    *)
(*     job, what can still change one that has ended, and that only the    *)
(*     dispatch of a retry is lost (from StrandedForGood to the end).      *)
(***************************************************************************)
EXTENDS SceneGeneration, TLAPS

-----------------------------------------------------------------------------
(* Types.                                                                  *)

(* Initially the rows, the queue and the processes have their types.       *)
LEMMA TypeInit == Init => TypeOK
BY SceneAssumption DEF Init, TypeOK, RowsOK, QueueOK, TicksOK, RunsOK, Ticks, Runs,
   Statuses, PumpLabels, ExecLabels, IdlePump, IdleExec

(* A run stays well formed when its record is replaced by a well formed    *)
(* one.                                                                    *)
LEMMA RunReplaced ==
  ASSUME RunsOK, NEW w \in Workers, NEW r \in Runs, r.pc # "idle" <=> r.job # NoJob,
         exec' = [exec EXCEPT ![w] = r]
  PROVE  RunsOK'
BY DEF RunsOK

(* A run that goes on to another label of the processor keeps its message. *)
LEMMA RunMoved ==
  ASSUME RunsOK, NEW w \in Workers, exec[w].pc # "idle", NEW r,
         NEW label \in ExecLabels \ {"idle"},
         r = [exec[w] EXCEPT !.pc = label] \/
         \E b \in BOOLEAN : r = [exec[w] EXCEPT !.pc = label, !.retryable = b],
         exec' = [exec EXCEPT ![w] = r]
  PROVE  RunsOK'
<1>1. r \in Runs /\ r.pc # "idle" /\ r.job # NoJob
  BY DEF RunsOK, Runs
<1> QED
  BY <1>1, RunReplaced

(* No step breaks the shape of a run of the processor.                     *)
LEMMA RunsTyped == TypeOK /\ [Next]_vars => RunsOK'
<1> SUFFICES ASSUME TypeOK, [Next]_vars PROVE RunsOK'
  OBVIOUS
<1>0. RunsOK /\ RowsOK /\ QueueOK
  BY DEF TypeOK
<1> DEFINE Labels == ExecLabels \ {"idle"}
<1>1. ASSUME UNCHANGED exec PROVE RunsOK'
  BY <1>0, <1>1 DEF RunsOK
<1>2. ASSUME NEW w \in Workers, NEW m \in waiting, take(w, m) PROVE RunsOK'
  <2> DEFINE r == [IdleExec EXCEPT !.pc = "load", !.job = m[1], !.n = m[2], !.held = TRUE]
  <2>1. m[1] \in Jobs /\ m[2] \in Nat
    BY <1>0 DEF QueueOK, Messages
  <2>2. r \in Runs /\ r.pc # "idle" /\ r.job # NoJob
    BY <2>1, SceneAssumption DEF Runs, IdleExec, ExecLabels
  <2> HIDE DEF r
  <2>3. exec' = [exec EXCEPT ![w] = r]
    BY <1>2 DEF take, r
  <2> QED
    BY <1>0, <2>2, <2>3, RunReplaced
<1>3. ASSUME NEW w \in Workers, NEW label \in Labels, exec[w].pc # "idle", Goto(w, label)
      PROVE RunsOK'
  BY <1>0, <1>3, RunMoved DEF Goto
<1>4. ASSUME NEW w \in Workers, NEW label \in Labels, NEW b \in BOOLEAN, exec[w].pc # "idle",
             exec' = [exec EXCEPT ![w].pc = label, ![w].retryable = b]
      PROVE RunsOK'
  <2> DEFINE r == [exec[w] EXCEPT !.pc = label, !.retryable = b]
  <2>1. exec' = [exec EXCEPT ![w] = r]
    BY <1>4
  <2>2. \E c \in BOOLEAN : r = [exec[w] EXCEPT !.pc = label, !.retryable = c]
    OBVIOUS
  <2> HIDE DEF r
  <2> QED
    BY <1>0, <1>4, <2>1, <2>2, RunMoved
<1>5. ASSUME NEW w \in Workers, exec' = [exec EXCEPT ![w] = IdleExec] PROVE RunsOK'
  <2>1. IdleExec \in Runs /\ IdleExec.pc = "idle" /\ IdleExec.job = NoJob
    BY DEF IdleExec, Runs, ExecLabels
  <2> QED
    BY <1>0, <1>5, <2>1, RunReplaced
<1>6. ASSUME NEW w \in Workers, readAttempts(w) PROVE RunsOK'
  <2> DEFINE r == [exec[w] EXCEPT !.pc = "failWrite", !.seen = attempts[exec[w].job]]
  <2>1. exec[w] \in Runs /\ exec[w].job \in Jobs
    BY <1>0, <1>6 DEF readAttempts, RunsOK, Runs
  <2>2. attempts[exec[w].job] \in Nat
    BY <1>0, <2>1 DEF RowsOK
  <2>3. r \in Runs /\ r.pc # "idle" /\ r.job # NoJob
    BY <2>1, <2>2, SceneAssumption DEF Runs, ExecLabels
  <2>4. exec' = [exec EXCEPT ![w] = r]
    BY <1>6 DEF readAttempts
  <2> HIDE DEF r
  <2> QED
    BY <1>0, <2>3, <2>4, RunReplaced
<1>7. ASSUME NEW w \in Workers, exec[w].held, exec' = [exec EXCEPT ![w].held = FALSE]
      PROVE RunsOK'
  <2> DEFINE r == [exec[w] EXCEPT !.held = FALSE]
  <2>1. r \in Runs /\ (r.pc # "idle" <=> r.job # NoJob)
    BY <1>0 DEF RunsOK, Runs
  <2>2. exec' = [exec EXCEPT ![w] = r]
    BY <1>7
  <2> HIDE DEF r
  <2> QED
    BY <1>0, <2>1, <2>2, RunReplaced
<1>8. ASSUME NEW m, forget(m) PROVE RunsOK'
  <2>1. \A w \in Workers : exec'[w] \in {exec[w], [exec[w] EXCEPT !.held = FALSE]}
    BY <1>8 DEF forget
  <2>2. \A w \in Workers : [exec[w] EXCEPT !.held = FALSE] \in Runs
    BY <1>0 DEF RunsOK, Runs
  <2>3. exec' \in [Workers -> Runs]
    BY <1>0, <1>8, <2>1, <2>2 DEF forget, RunsOK
  <2>4. \A w \in Workers : exec'[w].pc = exec[w].pc /\ exec'[w].job = exec[w].job
    BY <1>0, <2>1 DEF RunsOK, Runs
  <2> QED
    BY <1>0, <2>3, <2>4 DEF RunsOK
<1> QED
  <2>1. \A l \in {"load", "claim", "run", "generate", "submit", "succeed", "failRead",
                  "failWrite", "failDispatch", "ack"} : l \in Labels /\ l # "idle"
    BY DEF ExecLabels
  <2>2. ASSUME NEW w \in Workers, WorkerStep(w) PROVE RunsOK'
    <3>1. CASE load(w)
      BY <3>1, <1>3, <2>1 DEF load
    <3>2. CASE markJobClaimed(w)
      BY <3>2, <1>3, <2>1 DEF markJobClaimed
    <3>3. CASE markJobRunning(w)
      BY <3>3, <1>3, <2>1 DEF markJobRunning
    <3>4. CASE generate(w)
      BY <3>4, <1>3, <1>4, <2>1 DEF generate
    <3>5. CASE submitSceneCandidate(w)
      BY <3>5, <1>3, <1>4, <2>1 DEF submitSceneCandidate
    <3>6. CASE markJobSucceeded(w)
      BY <3>6, <1>3, <2>1 DEF markJobSucceeded
    <3>7. CASE markJobFailed(w)
      BY <3>7, <1>3, <2>1 DEF markJobFailed
    <3>8. CASE reopenDispatch(w)
      BY <3>8, <1>3, <2>1 DEF reopenDispatch
    <3>9. CASE settle(w)
      BY <3>9, <1>5 DEF settle
    <3> QED
      BY <2>2, <3>1, <3>2, <3>3, <3>4, <3>5, <3>6, <3>7, <3>8, <3>9, <1>6 DEF WorkerStep
  <2>3. ASSUME NEW w \in Workers, loseLock(w) \/ statementFails(w) \/ workerCrash(w)
        PROVE RunsOK'
    <3>1. CASE loseLock(w)
      BY <3>1, <1>7 DEF loseLock
    <3>2. CASE statementFails(w)
      BY <3>2, <1>3, <1>4, <2>1 DEF statementFails
    <3>3. CASE workerCrash(w)
      BY <3>3, <1>5 DEF workerCrash
    <3> QED
      BY <2>3, <3>1, <3>2, <3>3
  <2>4. ASSUME NEW p \in Pumps, PumpStep(p) \/ enqueueFails(p) \/ pumpCrash(p)
        PROVE UNCHANGED exec
    BY <2>4 DEF PumpStep, listPendingDispatches, readJob, enqueue, markDispatchEnqueued,
       recordDispatchFailure, enqueueFails, pumpCrash
  <2>5. ASSUME NEW j \in Jobs, Api(j) PROVE UNCHANGED exec
    BY <2>5 DEF Api, createSceneJob, cancelJob, leaseExpires
  <2>6. ASSUME NEW m \in active, redeliver(m) PROVE UNCHANGED exec
    BY <2>6 DEF redeliver
  <2> QED
    BY <1>1, <1>2, <1>8, <2>2, <2>3, <2>4, <2>5, <2>6 DEF Next, Faulty, vars

(* No step breaks the shape of a tick of the pump.                         *)
LEMMA TicksTyped == TypeOK /\ [Next]_vars => TicksOK'
<1> SUFFICES ASSUME TypeOK, [Next]_vars PROVE TicksOK'
  OBVIOUS
<1>0. TicksOK /\ RowsOK
  BY DEF TypeOK
<1>1. ASSUME UNCHANGED pump PROVE TicksOK'
  BY <1>0, <1>1 DEF TicksOK
<1>2. ASSUME NEW p \in Pumps, NEW t \in Ticks,
             t.pc \in {"enqueue", "mark", "record"} => t.job # NoJob,
             pump' = [pump EXCEPT ![p] = t]
      PROVE TicksOK'
  BY <1>0, <1>2 DEF TicksOK
<1>3. ASSUME NEW p \in Pumps, PumpStep(p) \/ enqueueFails(p) \/ pumpCrash(p) PROVE TicksOK'
  <2>1. pump[p] \in Ticks /\ (pump[p].pc \in {"enqueue", "mark", "record"} => pump[p].job # NoJob)
    BY <1>0 DEF TicksOK
  <2>2. IdlePump \in Ticks /\ IdlePump.pc = "idle"
    BY DEF IdlePump, Ticks, PumpLabels
  <2>3. CASE listPendingDispatches(p)
    <3> DEFINE t == [pump[p] EXCEPT !.pc = "next", !.todo = {j \in Jobs : dispatch[j] = "pending"}]
    <3>1. t \in Ticks /\ t.pc = "next"
      BY <2>1 DEF Ticks, PumpLabels
    <3>2. pump' = [pump EXCEPT ![p] = t]
      BY <2>3 DEF listPendingDispatches
    <3> HIDE DEF t
    <3> QED
      BY <1>2, <3>1, <3>2
  <2>4. CASE readJob(p)
    <3>1. PICK j \in pump[p].todo :
            pump' = [pump EXCEPT ![p] = [pc |-> "enqueue", todo |-> @.todo \ {j},
                                         job |-> j, n |-> attempts[j]]]
      BY <2>4 DEF readJob
    <3> DEFINE t == [pc |-> "enqueue", todo |-> pump[p].todo \ {j}, job |-> j, n |-> attempts[j]]
    <3>2. j \in Jobs /\ attempts[j] \in Nat
      BY <1>0, <2>1 DEF Ticks, RowsOK
    <3>3. t \in Ticks /\ t.job # NoJob
      BY <2>1, <3>2, SceneAssumption DEF Ticks, PumpLabels
    <3>4. pump' = [pump EXCEPT ![p] = t]
      BY <3>1
    <3> HIDE DEF t
    <3> QED
      BY <1>2, <3>3, <3>4
  <2>5. ASSUME NEW l \in {"mark", "record"}, pump[p].pc \in {"enqueue", "mark"},
               pump' = [pump EXCEPT ![p].pc = l]
        PROVE TicksOK'
    <3> DEFINE t == [pump[p] EXCEPT !.pc = l]
    <3>1. t \in Ticks /\ t.job # NoJob
      BY <2>1, <2>5 DEF Ticks, PumpLabels
    <3>2. pump' = [pump EXCEPT ![p] = t]
      BY <2>5
    <3> HIDE DEF t
    <3> QED
      BY <1>2, <3>1, <3>2
  <2>6. ASSUME Continue(p) PROVE TicksOK'
    <3> DEFINE t == [pump[p] EXCEPT !.pc = "next", !.job = NoJob, !.n = 0]
    <3>1. t \in Ticks /\ t.pc = "next"
      BY <2>1 DEF Ticks, PumpLabels
    <3>2. \/ pump' = [pump EXCEPT ![p] = IdlePump]
          \/ pump' = [pump EXCEPT ![p] = t]
      BY <2>6 DEF Continue
    <3> HIDE DEF t
    <3> QED
      BY <1>2, <2>2, <3>1, <3>2
  <2>7. CASE enqueue(p)
    BY <2>5, <2>7 DEF enqueue
  <2>8. CASE enqueueFails(p)
    BY <2>5, <2>8 DEF enqueueFails
  <2>9. CASE markDispatchEnqueued(p) \/ recordDispatchFailure(p)
    BY <2>6, <2>9 DEF markDispatchEnqueued, recordDispatchFailure
  <2>10. CASE pumpCrash(p)
    BY <1>2, <2>2, <2>10 DEF pumpCrash
  <2> QED
    BY <1>3, <2>3, <2>4, <2>7, <2>8, <2>9, <2>10 DEF PumpStep
<1>4. ASSUME NEW w \in Workers,
             WorkerStep(w) \/ loseLock(w) \/ statementFails(w) \/ workerCrash(w)
      PROVE UNCHANGED pump
  BY <1>4 DEF WorkerStep, load, markJobClaimed, markJobRunning, generate, submitSceneCandidate,
     markJobSucceeded, readAttempts, markJobFailed, reopenDispatch, settle,
     loseLock, statementFails, workerCrash
<1>5. ASSUME NEW j \in Jobs, Api(j) PROVE UNCHANGED pump
  BY <1>5 DEF Api, createSceneJob, cancelJob, leaseExpires
<1>6. ASSUME NEW m, redeliver(m) \/ forget(m) \/ \E w \in Workers : take(w, m)
      PROVE UNCHANGED pump
  BY <1>6 DEF redeliver, forget, take
<1> QED
  BY <1>1, <1>3, <1>4, <1>5, <1>6 DEF Next, Faulty, vars

(* No step puts a message into the queue that no dispatch stands for.      *)
LEMMA QueueTyped == TypeOK /\ [Next]_vars => QueueOK'
<1> SUFFICES ASSUME TypeOK, [Next]_vars PROVE QueueOK'
  OBVIOUS
<1>0. QueueOK /\ TicksOK /\ RunsOK
  BY DEF TypeOK
<1>1. ASSUME UNCHANGED broker PROVE QueueOK'
  BY <1>0, <1>1 DEF QueueOK, broker
<1>2. ASSUME NEW p \in Pumps, PumpStep(p) \/ enqueueFails(p) \/ pumpCrash(p) PROVE QueueOK'
  <2>1. pump[p].pc = "enqueue" => <<pump[p].job, pump[p].n>> \in Messages
    BY <1>0 DEF TicksOK, Ticks, Messages
  <2>2. ASSUME pump[p].pc = "enqueue", Add(<<pump[p].job, pump[p].n>>),
               UNCHANGED <<active, finished, stalled>>
        PROVE QueueOK'
    BY <1>0, <2>1, <2>2 DEF QueueOK, Add
  <2>3. CASE enqueue(p) \/ enqueueFails(p)
    BY <1>1, <2>2, <2>3 DEF enqueue, enqueueFails, broker
  <2> QED
    BY <1>1, <1>2, <2>3 DEF PumpStep, listPendingDispatches, readJob, markDispatchEnqueued,
       recordDispatchFailure, pumpCrash
<1>3. ASSUME NEW w \in Workers,
             WorkerStep(w) \/ loseLock(w) \/ statementFails(w) \/ workerCrash(w)
      PROVE QueueOK'
  <2>1. CASE settle(w)
    <3>1. MessageOf(w) \in Messages
      BY <1>0, <2>1 DEF settle, RunsOK, Runs, MessageOf, Messages
    <3> QED
      BY <1>0, <2>1, <3>1 DEF settle, QueueOK
  <2>2. CASE ~settle(w)
    BY <1>1, <1>3, <2>2 DEF WorkerStep, load, markJobClaimed, markJobRunning, generate,
       submitSceneCandidate, markJobSucceeded, readAttempts, markJobFailed, reopenDispatch,
       loseLock, statementFails, workerCrash
  <2> QED
    BY <2>1, <2>2
<1>4. ASSUME NEW j \in Jobs, Api(j) PROVE QueueOK'
  BY <1>1, <1>4 DEF Api, createSceneJob, cancelJob, leaseExpires
<1>5. ASSUME NEW m, redeliver(m) \/ forget(m) \/ \E w \in Workers : take(w, m)
      PROVE QueueOK'
  BY <1>0, <1>5 DEF redeliver, forget, take, QueueOK
<1> QED
  BY <1>1, <1>2, <1>3, <1>4, <1>5 DEF Next, Faulty, vars, broker

(* No step writes a row that is out of its domain.                         *)
LEMMA RowsTyped == TypeOK /\ [Next]_vars => RowsOK'
<1> SUFFICES ASSUME TypeOK, [Next]_vars PROVE RowsOK'
  OBVIOUS
<1>0. RowsOK /\ TicksOK /\ RunsOK
  BY DEF TypeOK
<1>1. ASSUME UNCHANGED db PROVE RowsOK'
  BY <1>0, <1>1 DEF RowsOK, db
<1>2. ASSUME NEW p \in Pumps, PumpStep(p) \/ enqueueFails(p) \/ pumpCrash(p) PROVE RowsOK'
  BY <1>0, <1>1, <1>2 DEF PumpStep, listPendingDispatches, readJob, enqueue, markDispatchEnqueued,
     recordDispatchFailure, enqueueFails, pumpCrash, RowsOK, jobVars
<1>3. ASSUME NEW w \in Workers,
             WorkerStep(w) \/ loseLock(w) \/ statementFails(w) \/ workerCrash(w)
      PROVE RowsOK'
  <2>1. CASE load(w) \/ markJobClaimed(w)
    BY <1>0, <2>1 DEF load, markJobClaimed, RowsOK, Statuses
  <2>2. CASE markJobRunning(w) \/ markJobSucceeded(w)
    BY <1>0, <2>2 DEF markJobRunning, markJobSucceeded, RowsOK, Statuses
  <2>3. CASE submitSceneCandidate(w)
    BY <1>0, <2>3 DEF submitSceneCandidate, RowsOK, jobVars
  <2>4. CASE markJobFailed(w)
    <3>1. exec[w].seen + 1 \in Nat
      <4>1. exec[w].seen \in Nat
        BY <1>0 DEF RunsOK, Runs
      <4> QED
        BY <4>1
    <3>2. \E s \in {"queued", "failed"} : status' = [status EXCEPT ![exec[w].job] = s]
      BY <2>4 DEF markJobFailed
    <3>3. attempts' = [attempts EXCEPT ![exec[w].job] = exec[w].seen + 1]
      BY <2>4 DEF markJobFailed
    <3>4. lease' = [lease EXCEPT ![exec[w].job] = "none"] /\ UNCHANGED <<dispatch, candidates>>
      BY <2>4 DEF markJobFailed
    <3>5. attempts' \in [Jobs -> Nat]
      BY <1>0, <3>1, <3>3 DEF RowsOK
    <3>6. status' \in [Jobs -> Statuses]
      BY <1>0, <3>2 DEF RowsOK, Statuses
    <3>7. lease' \in [Jobs -> {"none", "live", "expired"}]
      BY <1>0, <3>4 DEF RowsOK
    <3> QED
      BY <1>0, <3>4, <3>5, <3>6, <3>7 DEF RowsOK
  <2>5. CASE reopenDispatch(w)
    BY <1>0, <2>5 DEF reopenDispatch, RowsOK, jobVars
  <2> QED
    BY <1>1, <1>3, <2>1, <2>2, <2>3, <2>4, <2>5 DEF WorkerStep, generate, readAttempts, settle,
       loseLock, statementFails, workerCrash
<1>4. ASSUME NEW j \in Jobs, Api(j) PROVE RowsOK'
  BY <1>0, <1>4 DEF Api, createSceneJob, cancelJob, leaseExpires, RowsOK, Statuses
<1>5. ASSUME NEW m, redeliver(m) \/ forget(m) \/ \E w \in Workers : take(w, m)
      PROVE RowsOK'
  BY <1>1, <1>5 DEF redeliver, forget, take
<1> QED
  BY <1>1, <1>2, <1>3, <1>4, <1>5 DEF Next, Faulty, vars, db

(* The number of faults stays within its bound.                            *)
LEMMA FaultsTyped == TypeOK /\ [Next]_vars => (faults \in 0..MaxFaults)'
<1> SUFFICES ASSUME faults \in 0..MaxFaults, [Next]_vars PROVE faults' \in 0..MaxFaults
  BY DEF TypeOK
<1>1. ASSUME Fault PROVE faults' \in 0..MaxFaults
  BY <1>1, SceneAssumption DEF Fault
<1>2. Fault \/ UNCHANGED faults
  BY DEF Next, Faulty, vars, Api, PumpStep, WorkerStep, createSceneJob, cancelJob, leaseExpires,
     listPendingDispatches, readJob, enqueue, markDispatchEnqueued, recordDispatchFailure,
     enqueueFails, pumpCrash, take, redeliver, forget, settle, load, markJobClaimed,
     markJobRunning, generate, submitSceneCandidate, markJobSucceeded, readAttempts,
     markJobFailed, reopenDispatch, loseLock, statementFails, workerCrash
<1> QED
  BY <1>1, <1>2

(* The rows, the queue and the processes keep their types in every         *)
(* behaviour, faults included.                                             *)
THEOREM TypeCorrect == Spec => []TypeOK
<1>1. TypeOK /\ [Next]_vars => TypeOK'
  BY RowsTyped, QueueTyped, TicksTyped, RunsTyped, FaultsTyped DEF TypeOK
<1> QED
  BY <1>1, TypeInit, PTL DEF Spec

-----------------------------------------------------------------------------
(* Safety whatever fails.                                                  *)

(* A job that has not been created has no failed attempt.                  *)
FreshJob == \A j \in Jobs : status[j] = "absent" => attempts[j] = 0

(* A run reports success only after it has submitted.                      *)
SubmittedFirst ==
  \A w \in Workers : exec[w].pc = "succeed" => candidates[exec[w].job] > 0

Safe ==
  /\ AttemptsLeft
  /\ AtMostOneCandidate
  /\ SucceededHasCandidate
  /\ ActiveHasLease
  /\ FreshJob
  /\ SubmittedFirst

(* Before any job is created nothing can be wrong.                         *)
LEMMA SafeInit == Init => Safe
BY SceneAssumption DEF Init, Safe, AttemptsLeft, AtMostOneCandidate, SucceededHasCandidate,
   ActiveHasLease, FreshJob, SubmittedFirst, IdleExec

(* What a step may do to the rows and the runs without touching Safe.      *)
LEMMA SafeKept ==
  ASSUME Safe, UNCHANGED <<jobVars, candidates>>,
         \A w \in Workers : exec'[w].pc = "succeed" =>
           exec[w].pc = "succeed" /\ exec'[w].job = exec[w].job
  PROVE  Safe'
BY DEF Safe, jobVars, AttemptsLeft, AtMostOneCandidate, SucceededHasCandidate,
   ActiveHasLease, FreshJob, SubmittedFirst

(* A worker's statement, or the fault that replaces it, keeps Safe.        *)
LEMMA SafeWorker ==
  ASSUME TypeOK, Safe, NEW w \in Workers, WorkerStep(w) \/ statementFails(w)
  PROVE  Safe'
<1>0. RowsOK /\ RunsOK
  BY DEF TypeOK
<1> DEFINE j == exec[w].job
<1>1. exec[w].pc # "idle" => j \in Jobs /\ attempts[j] \in Nat /\ candidates[j] \in Nat
  BY <1>0 DEF RowsOK, RunsOK, Runs
<1>2. exec \in [Workers -> Runs]
  BY <1>0 DEF RunsOK
<1>3. ASSUME NEW l, Goto(w, l), l # "succeed"
      PROVE  \A v \in Workers : exec'[v].pc = "succeed" =>
               exec[v].pc = "succeed" /\ exec'[v].job = exec[v].job
  BY <1>2, <1>3 DEF Goto, Runs
<1>4. ASSUME NEW l, NEW b, exec' = [exec EXCEPT ![w].pc = l, ![w].retryable = b], l # "succeed"
      PROVE  \A v \in Workers : exec'[v].pc = "succeed" =>
               exec[v].pc = "succeed" /\ exec'[v].job = exec[v].job
  BY <1>2, <1>4 DEF Runs
<1>5. CASE load(w)
  <2>1. \A v \in Workers : exec'[v].pc = "succeed" =>
               exec[v].pc = "succeed" /\ exec'[v].job = exec[v].job
    BY <1>3, <1>5 DEF load
  <2>2. UNCHANGED <<attempts, candidates>>
    BY <1>5 DEF load
  <2>3. \A i \in Jobs : \/ status'[i] = status[i] /\ lease'[i] = lease[i]
                        \/ /\ status[i] \in {"claimed", "running"}
                           /\ status'[i] = "queued"
    BY <1>0, <1>1, <1>5 DEF load, RowsOK
  <2> QED
    BY <2>1, <2>2, <2>3 DEF Safe, AttemptsLeft, AtMostOneCandidate, SucceededHasCandidate,
       ActiveHasLease, FreshJob, SubmittedFirst
<1>6. CASE markJobClaimed(w)
  <2>1. \A v \in Workers : exec'[v].pc = "succeed" =>
               exec[v].pc = "succeed" /\ exec'[v].job = exec[v].job
    BY <1>3, <1>6 DEF markJobClaimed
  <2>2. UNCHANGED <<attempts, candidates>>
    BY <1>6 DEF markJobClaimed
  <2>3. \A i \in Jobs : \/ status'[i] = status[i] /\ lease'[i] = lease[i]
                        \/ status[i] = "queued" /\ status'[i] = "claimed" /\ lease'[i] = "live"
    BY <1>0, <1>1, <1>6 DEF markJobClaimed, RowsOK
  <2> QED
    BY <2>1, <2>2, <2>3 DEF Safe, AttemptsLeft, AtMostOneCandidate, SucceededHasCandidate,
       ActiveHasLease, FreshJob, SubmittedFirst
<1>7. CASE markJobRunning(w)
  <2>1. \A v \in Workers : exec'[v].pc = "succeed" =>
               exec[v].pc = "succeed" /\ exec'[v].job = exec[v].job
    BY <1>3, <1>7 DEF markJobRunning
  <2>2. UNCHANGED <<attempts, candidates, lease>>
    BY <1>7 DEF markJobRunning
  <2>3. \A i \in Jobs : status'[i] = status[i] \/ (status[i] = "claimed" /\ status'[i] = "running")
    BY <1>0, <1>1, <1>7 DEF markJobRunning, RowsOK
  <2> QED
    BY <2>1, <2>2, <2>3 DEF Safe, AttemptsLeft, AtMostOneCandidate, SucceededHasCandidate,
       ActiveHasLease, FreshJob, SubmittedFirst
<1>8. CASE submitSceneCandidate(w)
  <2>1. UNCHANGED jobVars
    BY <1>8 DEF submitSceneCandidate
  <2>2. CASE exec'[w].pc = "succeed"
    <3>1. /\ exec' = [exec EXCEPT ![w].pc = "succeed"]
          /\ \/ candidates[j] = 0 /\ candidates' = [candidates EXCEPT ![j] = @ + 1]
             \/ candidates[j] # 0 /\ UNCHANGED candidates
      BY <1>2, <1>8, <2>2 DEF submitSceneCandidate, Goto, Runs
    <3>2. \A i \in Jobs : /\ candidates'[i] \in Nat
                          /\ candidates[i] > 0 => candidates'[i] = candidates[i]
                          /\ candidates'[i] <= 1
      BY <1>0, <1>1, <1>8, <3>1 DEF RowsOK, Safe, AtMostOneCandidate, submitSceneCandidate
    <3>3. candidates'[j] > 0
      BY <1>0, <1>1, <1>8, <3>1 DEF RowsOK, submitSceneCandidate
    <3>4. \A v \in Workers : /\ exec'[v].job = exec[v].job
                             /\ exec'[v].pc = "succeed" => v = w \/ exec[v].pc = "succeed"
                             /\ exec[v].pc = "succeed" => exec[v].job \in Jobs
      BY <1>0, <3>1 DEF Runs, RunsOK
    <3> QED
      BY <2>1, <3>2, <3>3, <3>4 DEF Safe, jobVars, AttemptsLeft, AtMostOneCandidate,
         SucceededHasCandidate, ActiveHasLease, FreshJob, SubmittedFirst
  <2>3. CASE exec'[w].pc # "succeed"
    <3>1. UNCHANGED candidates /\ exec' = [exec EXCEPT ![w].pc = "failRead", ![w].retryable = FALSE]
      BY <1>2, <1>8, <2>3 DEF submitSceneCandidate, Goto, Runs
    <3> QED
      BY <1>4, <2>1, <3>1, SafeKept
  <2> QED
    BY <2>2, <2>3
<1>9. CASE markJobSucceeded(w)
  <2>1. \A v \in Workers : exec'[v].pc = "succeed" =>
               exec[v].pc = "succeed" /\ exec'[v].job = exec[v].job
    BY <1>3, <1>9 DEF markJobSucceeded
  <2>2. UNCHANGED <<attempts, candidates, lease>> /\ exec[w].pc = "succeed"
    BY <1>9 DEF markJobSucceeded
  <2>3. \A i \in Jobs : status'[i] = status[i] \/ (i = j /\ status'[i] = "succeeded")
    BY <1>0, <1>1, <1>9 DEF markJobSucceeded, RowsOK
  <2> QED
    BY <2>1, <2>2, <2>3 DEF Safe, AttemptsLeft, AtMostOneCandidate, SucceededHasCandidate,
       ActiveHasLease, FreshJob, SubmittedFirst
<1>10. CASE markJobFailed(w)
  <2>1. \A v \in Workers : exec'[v].pc = "succeed" =>
               exec[v].pc = "succeed" /\ exec'[v].job = exec[v].job
    BY <1>3, <1>10 DEF markJobFailed
  <2>2. UNCHANGED candidates
    BY <1>10 DEF markJobFailed
  <2>3. attempts' = [attempts EXCEPT ![j] = exec[w].seen + 1]
    BY <1>10 DEF markJobFailed
  <2>4. \/ status' = [status EXCEPT ![j] = "failed"]
        \/ status' = [status EXCEPT ![j] = "queued"] /\ exec[w].seen + 1 < MaxAttempts
    BY <1>10 DEF markJobFailed
  <2>5. lease' = [lease EXCEPT ![j] = "none"]
    BY <1>10 DEF markJobFailed
  <2>6. \A i \in Jobs : \/ /\ status'[i] = status[i]
                           /\ attempts'[i] = attempts[i]
                           /\ lease'[i] = lease[i]
                        \/ status'[i] = "failed"
                        \/ status'[i] = "queued" /\ attempts'[i] < MaxAttempts
    BY <1>0, <2>3, <2>4, <2>5 DEF RowsOK
  <2> QED
    BY <2>1, <2>2, <2>6 DEF Safe, AttemptsLeft, AtMostOneCandidate, SucceededHasCandidate,
       ActiveHasLease, FreshJob, SubmittedFirst
<1>11. CASE generate(w)
  <2>1. \A v \in Workers : exec'[v].pc = "succeed" =>
               exec[v].pc = "succeed" /\ exec'[v].job = exec[v].job
    BY <1>3, <1>4, <1>11 DEF generate
  <2> QED
    BY <1>11, <2>1, SafeKept DEF generate, db, jobVars
<1>12. CASE readAttempts(w) \/ settle(w)
  BY <1>2, <1>12, SafeKept DEF readAttempts, settle, db, jobVars, IdleExec, Runs
<1>13. CASE reopenDispatch(w)
  BY <1>3, <1>13, SafeKept DEF reopenDispatch
<1>14. CASE statementFails(w)
  BY <1>3, <1>4, <1>14, SafeKept DEF statementFails, db, jobVars
<1> QED
  BY <1>5, <1>6, <1>7, <1>8, <1>9, <1>10, <1>11, <1>12, <1>13, <1>14 DEF WorkerStep

(* Every step keeps Safe.                                                  *)
LEMMA SafeNext == TypeOK /\ Safe /\ [Next]_vars => Safe'
<1> SUFFICES ASSUME TypeOK, Safe, [Next]_vars PROVE Safe'
  OBVIOUS
<1>0. RowsOK /\ RunsOK
  BY DEF TypeOK
<1>1. CASE UNCHANGED vars
  BY <1>1, SafeKept DEF vars, jobVars
<1>2. ASSUME NEW j \in Jobs, Api(j) PROVE Safe'
  <2>1. UNCHANGED <<attempts, candidates, exec>>
    BY <1>2 DEF Api, createSceneJob, cancelJob, leaseExpires
  <2>2. CASE createSceneJob(j)
    <3>1. lease' = lease /\ \A i \in Jobs : status'[i] = status[i] \/
            (status[i] = "absent" /\ status'[i] = "queued")
      BY <1>0, <2>2 DEF createSceneJob, RowsOK
    <3> QED
      BY <2>1, <3>1, SceneAssumption DEF Safe, AttemptsLeft, AtMostOneCandidate,
         SucceededHasCandidate, ActiveHasLease, FreshJob, SubmittedFirst
  <2>3. CASE cancelJob(j)
    <3>1. lease' = lease /\ \A i \in Jobs : status'[i] = status[i] \/ status'[i] = "cancelled"
      BY <1>0, <2>3 DEF cancelJob, RowsOK
    <3> QED
      BY <2>1, <3>1 DEF Safe, AttemptsLeft, AtMostOneCandidate,
         SucceededHasCandidate, ActiveHasLease, FreshJob, SubmittedFirst
  <2>4. CASE leaseExpires(j)
    <3>1. status' = status /\ \A i \in Jobs : lease'[i] = lease[i] \/ lease'[i] = "expired"
      BY <1>0, <2>4 DEF leaseExpires, RowsOK
    <3> QED
      BY <2>1, <3>1 DEF Safe, AttemptsLeft, AtMostOneCandidate,
         SucceededHasCandidate, ActiveHasLease, FreshJob, SubmittedFirst
  <2> QED
    BY <1>2, <2>2, <2>3, <2>4 DEF Api
<1>3. ASSUME NEW p \in Pumps, PumpStep(p) \/ enqueueFails(p) \/ pumpCrash(p) PROVE Safe'
  BY <1>3, SafeKept DEF PumpStep, listPendingDispatches, readJob, enqueue, markDispatchEnqueued,
     recordDispatchFailure, enqueueFails, pumpCrash, db, jobVars
<1>4. ASSUME NEW w \in Workers, NEW m \in waiting, take(w, m) PROVE Safe'
  BY <1>0, <1>4, SafeKept DEF take, db, jobVars, IdleExec, RunsOK, Runs
<1>5. ASSUME NEW m \in active, redeliver(m) PROVE Safe'
  BY <1>5, SafeKept DEF redeliver, db, jobVars
<1>6. ASSUME NEW w \in Workers, loseLock(w) \/ workerCrash(w) PROVE Safe'
  BY <1>0, <1>6, SafeKept DEF loseLock, workerCrash, db, jobVars, IdleExec, RunsOK, Runs
<1>7. ASSUME NEW m, forget(m) PROVE Safe'
  BY <1>0, <1>7, SafeKept DEF forget, db, jobVars, RunsOK, Runs
<1> QED
  BY <1>1, <1>2, <1>3, <1>4, <1>5, <1>6, <1>7, SafeWorker DEF Next, WorkerStep, Faulty

(* Crashes, lost locks, forgotten or repeated messages and failing         *)
(* statements can strand a job, but never let a job that may still run be  *)
(* out of attempts, give it a second candidate, report a success without a *)
(* candidate, or leave an active job without the lease that recovery       *)
(* looks for.                                                              *)
THEOREM AlwaysSafe ==
  Spec => [](AttemptsLeft /\ AtMostOneCandidate /\ SucceededHasCandidate /\ ActiveHasLease)
<1>1. Safe => AttemptsLeft /\ AtMostOneCandidate /\ SucceededHasCandidate /\ ActiveHasLease
  BY DEF Safe
<1> QED
  BY <1>1, SafeInit, SafeNext, TypeCorrect, PTL DEF Spec

(* The creator's inbox holds one candidate of a job at most: a retry, a     *)
(* redelivery or a late run submits under the key of the first.            *)
THEOREM OneCandidatePerJob == Spec => []AtMostOneCandidate
  BY AlwaysSafe, PTL

(* A job is shown as succeeded only when its candidate is in the inbox.    *)
THEOREM SuccessIsSubmitted == Spec => []SucceededHasCandidate
  BY AlwaysSafe, PTL

(* A claimed or running job carries a lease that recovery can look at.     *)
THEOREM LeaseWhileActive == Spec => []ActiveHasLease
  BY AlwaysSafe, PTL

-----------------------------------------------------------------------------
(* Safety when nothing fails: the queue's locks and the attempt in the     *)
(* message's name keep the runs of a job apart.                            *)

Busy(w) == exec[w].pc # "idle"

(* The run has counted its attempt, or will not.                           *)
Leaving(w) == exec[w].pc \in {"failDispatch", "ack"}

(* The run works on its job's current attempt.                             *)
Current(w) == Busy(w) /\ ~Leaving(w)

Known == waiting \cup active \cup finished

(* The active messages are exactly those of the busy runs, one each.       *)
Locks ==
  /\ \A w \in Workers : Busy(w) => exec[w].held /\ MessageOf(w) \in active
  /\ \A v, w \in Workers : Busy(v) /\ Busy(w) /\ MessageOf(v) = MessageOf(w) => v = w
  /\ \A m \in active : \E w \in Workers : Busy(w) /\ MessageOf(w) = m

(* A message is in one place.                                              *)
OnePlace == waiting \cap (active \cup finished) = {} /\ active \cap finished = {}

(* No message and no tick names an attempt that has not begun.             *)
NoneAhead ==
  /\ \A m \in Known : m[2] <= attempts[m[1]]
  /\ \A p \in Pumps : pump[p].pc = "enqueue" => pump[p].n <= attempts[pump[p].job]

(* The message of an attempt that has failed is settled, or about to be.   *)
EarlierSettled ==
  \A j \in Jobs : \A n \in Nat : n < attempts[j] =>
    <<j, n>> \in finished \/ \E w \in Workers : Leaving(w) /\ MessageOf(w) = <<j, n>>

(* The row follows the run that works on it, unless the job was cancelled; *)
(* markJobFailed writes what it read; the candidate comes last.            *)
RunFits(w) ==
  LET j == exec[w].job IN
  /\ exec[w].pc = "claim" => status[j] \in {"queued", "cancelled"}
  /\ exec[w].pc = "run" => status[j] \in {"claimed", "cancelled"}
  /\ Executing(w, j) => status[j] \in {"running", "cancelled"}
  /\ exec[w].pc = "failWrite" => exec[w].seen = attempts[j]
  /\ exec[w].pc \in {"claim", "run", "generate", "submit", "failRead", "failWrite"} =>
       candidates[j] = 0

InHand(w, j) == Executing(w, j) \/ (exec[w].job = j /\ exec[w].pc = "run")

(* An active job is in some worker's hands, a kept job is not cancelled,   *)
(* and a job that may still run, or has failed, has no candidate.          *)
JobFits(j) ==
  /\ status[j] \in {"claimed", "running"} => \E w \in Workers : InHand(w, j)
  /\ j \in Kept => status[j] # "cancelled"
  /\ status[j] \in {"absent", "queued", "claimed", "failed"} => candidates[j] = 0

QueueSteady == Locks /\ OnePlace /\ NoneAhead /\ EarlierSettled

Steady ==
  /\ QueueSteady
  /\ \A w \in Workers : RunFits(w)
  /\ \A j \in Jobs : JobFits(j)

(* A run that has not counted its attempt works on the current one: the    *)
(* messages of the earlier attempts are settled or held by runs that have. *)
LEMMA CurrentAttempt ==
  ASSUME TypeOK, Steady, NEW w \in Workers, Current(w)
  PROVE  exec[w].job \in Jobs /\ exec[w].n \in Nat /\ exec[w].n = attempts[exec[w].job]
<1> DEFINE j == exec[w].job
           n == exec[w].n
<1>1. j \in Jobs /\ n \in Nat
  BY DEF TypeOK, RunsOK, Runs, Current, Busy
<1>2. attempts[j] \in Nat
  BY <1>1 DEF TypeOK, RowsOK
<1>3. MessageOf(w) = <<j, n>> /\ <<j, n>> \in active
  BY DEF Steady, QueueSteady, Locks, Current, MessageOf
<1>4. n <= attempts[j]
  BY <1>3 DEF Steady, QueueSteady, NoneAhead, Known
<1>5. ASSUME n < attempts[j] PROVE FALSE
  <2>1. PICK v \in Workers : Leaving(v) /\ MessageOf(v) = <<j, n>>
    BY <1>1, <1>3, <1>5 DEF Steady, QueueSteady, EarlierSettled, OnePlace
  <2>2. Busy(v)
    BY <2>1 DEF Leaving, Busy
  <2>3. v = w
    BY <1>3, <2>1, <2>2 DEF Steady, QueueSteady, Locks, Current
  <2> QED
    BY <2>1, <2>3 DEF Current
<1> QED
  BY <1>1, <1>2, <1>4, <1>5

(* Two such runs of one job are one run.                                   *)
LEMMA Alone ==
  ASSUME TypeOK, Steady, NEW v \in Workers, NEW w \in Workers, Current(v), Current(w),
         exec[v].job = exec[w].job
  PROVE  v = w
<1>1. exec[v].n = exec[w].n
  BY CurrentAttempt
<1> QED
  BY <1>1 DEF Steady, QueueSteady, Locks, Current, MessageOf

(* A statement of a worker moves its own run on and leaves the queue to    *)
(* the end of the run.                                                     *)
LEMMA WorkerMoves ==
  ASSUME TypeOK, NEW w \in Workers, WorkerStep(w), ~settle(w)
  PROVE  /\ UNCHANGED <<broker, pump, faults>>
         /\ \A v \in Workers \ {w} : exec'[v] = exec[v]
         /\ exec'[w].job = exec[w].job
         /\ exec'[w].n = exec[w].n
         /\ exec'[w].held = exec[w].held
         /\ Busy(w) /\ Busy(w)'
         /\ Leaving(w) => Leaving(w)'
<1>1. exec \in [Workers -> Runs]
  BY DEF TypeOK, RunsOK
<1>2. ASSUME NEW l, Goto(w, l)
      PROVE  /\ \A v \in Workers \ {w} : exec'[v] = exec[v]
             /\ exec'[w].job = exec[w].job /\ exec'[w].n = exec[w].n
             /\ exec'[w].held = exec[w].held /\ exec'[w].pc = l
  BY <1>1, <1>2 DEF Goto, Runs
<1>3. ASSUME NEW l, NEW b, exec' = [exec EXCEPT ![w].pc = l, ![w].retryable = b]
      PROVE  /\ \A v \in Workers \ {w} : exec'[v] = exec[v]
             /\ exec'[w].job = exec[w].job /\ exec'[w].n = exec[w].n
             /\ exec'[w].held = exec[w].held /\ exec'[w].pc = l
  BY <1>1, <1>3 DEF Runs
<1> USE DEF Busy, Leaving
<1>4. CASE load(w)
  BY <1>2, <1>4 DEF load
<1>5. CASE markJobClaimed(w)
  BY <1>2, <1>5 DEF markJobClaimed
<1>6. CASE markJobRunning(w)
  BY <1>2, <1>6 DEF markJobRunning
<1>7. CASE generate(w)
  BY <1>2, <1>3, <1>7 DEF generate
<1>8. CASE submitSceneCandidate(w)
  BY <1>2, <1>3, <1>8 DEF submitSceneCandidate
<1>9. CASE markJobSucceeded(w)
  BY <1>2, <1>9 DEF markJobSucceeded
<1>10. CASE readAttempts(w)
  BY <1>1, <1>10 DEF readAttempts, Runs
<1>11. CASE markJobFailed(w)
  BY <1>2, <1>11 DEF markJobFailed
<1>12. CASE reopenDispatch(w)
  BY <1>2, <1>12 DEF reopenDispatch
<1> QED
  BY <1>4, <1>5, <1>6, <1>7, <1>8, <1>9, <1>10, <1>11, <1>12 DEF WorkerStep

(* Only the end of a failed run counts an attempt, and it counts one.      *)
LEMMA AttemptsMove ==
  ASSUME TypeOK, Steady, NEW w \in Workers, WorkerStep(w), ~settle(w)
  PROVE  \/ UNCHANGED attempts
         \/ /\ Current(w) /\ Leaving(w)'
            /\ attempts' = [attempts EXCEPT ![exec[w].job] = exec[w].n + 1]
<1>1. CASE markJobFailed(w)
  <2>1. Current(w) /\ exec[w].seen = attempts[exec[w].job]
    BY <1>1 DEF markJobFailed, Current, Busy, Leaving, Steady, RunFits
  <2>2. exec[w].n = exec[w].seen
    BY <2>1, CurrentAttempt
  <2>3. attempts' = [attempts EXCEPT ![exec[w].job] = exec[w].n + 1]
    BY <1>1, <2>2 DEF markJobFailed
  <2>4. Leaving(w)'
    BY <1>1 DEF markJobFailed, Goto, Leaving, TypeOK, RunsOK, Runs
  <2> QED
    BY <2>1, <2>3, <2>4
<1>2. CASE ~markJobFailed(w)
  BY <1>2 DEF WorkerStep, load, markJobClaimed, markJobRunning, generate, submitSceneCandidate,
     markJobSucceeded, readAttempts, reopenDispatch, db, jobVars
<1> QED
  BY <1>1, <1>2

(* Without faults the queue delivers every attempt's message once.         *)
LEMMA QueueNext ==
  ASSUME MaxFaults = 0, TypeOK, Steady, [Next]_vars
  PROVE  QueueSteady'
<1>0. QueueSteady /\ QueueOK /\ RowsOK /\ TicksOK /\ RunsOK /\ ~Fault
  BY DEF Steady, TypeOK, Fault
<1>1. ASSUME UNCHANGED <<exec, attempts, active, finished>>,
             \A p \in Pumps : pump'[p].pc = "enqueue" =>
               pump'[p] = pump[p] \/ pump'[p].n = attempts[pump'[p].job],
             \/ UNCHANGED waiting
             \/ \E p \in Pumps : pump[p].pc = "enqueue" /\ Add(<<pump[p].job, pump[p].n>>)
      PROVE  QueueSteady'
  <2>1. \/ UNCHANGED waiting
        \/ \E m : /\ m \notin Known /\ waiting' = waiting \cup {m}
                  /\ m[2] <= attempts[m[1]]
    BY <1>0, <1>1 DEF Add, Known, QueueSteady, NoneAhead
  <2>2. Locks' /\ EarlierSettled'
    BY <1>0, <1>1 DEF QueueSteady, Locks, EarlierSettled, Busy, Leaving, MessageOf
  <2>3. OnePlace'
    BY <1>0, <1>1, <2>1 DEF QueueSteady, OnePlace, Known
  <2>4. \A m \in Known' : m[2] <= attempts[m[1]]
    BY <1>0, <1>1, <2>1 DEF QueueSteady, NoneAhead, Known
  <2>5. \A p \in Pumps : pump'[p].pc = "enqueue" => pump'[p].n <= attempts[pump'[p].job]
    <3> SUFFICES ASSUME NEW p \in Pumps, pump'[p].pc = "enqueue",
                        pump'[p].n = attempts[pump'[p].job]
                 PROVE  pump'[p].n <= attempts[pump'[p].job]
      BY <1>0, <1>1 DEF QueueSteady, NoneAhead
    <3>1. pump'[p].job \in Jobs
      BY TicksTyped DEF TicksOK, Ticks
    <3>2. attempts[pump'[p].job] \in Nat
      BY <1>0, <3>1 DEF RowsOK
    <3> QED
      BY <3>2
  <2> QED
    BY <1>1, <2>2, <2>3, <2>4, <2>5 DEF QueueSteady, NoneAhead, Known
<1>2. ASSUME NEW j \in Jobs, Api(j) PROVE QueueSteady'
  BY <1>1, <1>2 DEF Api, createSceneJob, cancelJob, leaseExpires, broker
<1>3. ASSUME NEW p \in Pumps, PumpStep(p) PROVE QueueSteady'
  <2>1. UNCHANGED <<exec, attempts, active, finished>>
    BY <1>3 DEF PumpStep, listPendingDispatches, readJob, enqueue, markDispatchEnqueued,
       recordDispatchFailure, db, jobVars, broker
  <2>2. \A q \in Pumps : pump'[q].pc = "enqueue" =>
               pump'[q] = pump[q] \/ pump'[q].n = attempts[pump'[q].job]
    <3>0. pump \in [Pumps -> Ticks]
      BY <1>0 DEF TicksOK
    <3>1. CASE listPendingDispatches(p)
      BY <3>0, <3>1 DEF listPendingDispatches, Ticks
    <3>2. CASE readJob(p)
      BY <3>0, <3>2 DEF readJob
    <3>3. CASE enqueue(p)
      BY <3>0, <3>3 DEF enqueue, Ticks
    <3>4. CASE Continue(p)
      <4>1. \A q \in Pumps \ {p} : pump'[q] = pump[q]
        BY <3>0, <3>4 DEF Continue
      <4>2. pump'[p] = IdlePump \/ pump'[p].pc = "next"
        BY <3>0, <3>4 DEF Continue, Ticks
      <4> QED
        BY <4>1, <4>2 DEF IdlePump
    <3> QED
      BY <1>3, <3>1, <3>2, <3>3, <3>4 DEF PumpStep, markDispatchEnqueued, recordDispatchFailure
  <2>3. \/ UNCHANGED waiting
        \/ \E q \in Pumps : pump[q].pc = "enqueue" /\ Add(<<pump[q].job, pump[q].n>>)
    BY <1>3 DEF PumpStep, listPendingDispatches, readJob, enqueue, markDispatchEnqueued,
       recordDispatchFailure, broker
  <2> QED
    BY <1>1, <2>1, <2>2, <2>3
<1>4. ASSUME NEW w \in Workers, NEW m \in waiting, take(w, m) PROVE QueueSteady'
  <2>1. /\ waiting' = waiting \ {m} /\ active' = active \cup {m} /\ ~Busy(w)
        /\ UNCHANGED <<attempts, finished, pump>>
    BY <1>4 DEF take, db, Busy
  <2>2. /\ Busy(w)' /\ exec'[w].held /\ MessageOf(w)' = m /\ ~Leaving(w)'
        /\ \A v \in Workers \ {w} : exec'[v] = exec[v]
    BY <1>0, <1>4 DEF take, RunsOK, Runs, IdleExec, Busy, Leaving, MessageOf, QueueOK, Messages
  <2>3. m \notin active /\ m \notin finished
    BY <1>0 DEF QueueSteady, OnePlace
  <2>4. Locks'
    BY <1>0, <2>1, <2>2, <2>3 DEF QueueSteady, Locks, Busy, MessageOf
  <2>5. OnePlace' /\ NoneAhead'
    BY <1>0, <2>1, <2>3 DEF QueueSteady, OnePlace, NoneAhead, Known
  <2>6. \A v \in Workers : Leaving(v) => Leaving(v)' /\ MessageOf(v)' = MessageOf(v)
    BY <2>1, <2>2 DEF Leaving, Busy, MessageOf
  <2>7. EarlierSettled'
    BY <1>0, <2>1, <2>6 DEF QueueSteady, EarlierSettled
  <2> QED
    BY <2>4, <2>5, <2>7 DEF QueueSteady
<1>5. ASSUME NEW m \in active, redeliver(m) PROVE FALSE
  BY <1>0, <1>5 DEF redeliver, Locked, QueueSteady, Locks
<1>6. ASSUME NEW w \in Workers, settle(w) PROVE QueueSteady'
  <2> DEFINE m == MessageOf(w)
  <2>1. Busy(w) /\ exec[w].held /\ m \in active
    BY <1>0, <1>6 DEF settle, Busy, QueueSteady, Locks
  <2>2. /\ active' = active \ {m} /\ finished' = finished \cup {m}
        /\ UNCHANGED <<waiting, attempts, pump>>
        /\ ~Busy(w)' /\ \A v \in Workers \ {w} : exec'[v] = exec[v]
    BY <1>0, <1>6, <2>1 DEF settle, db, RunsOK, Runs, Busy, IdleExec
  <2>3. \A v \in Workers : Busy(v)' => v # w /\ Busy(v) /\ MessageOf(v)' = MessageOf(v)
    BY <2>2 DEF Busy, MessageOf
  <2>4. Locks'
    BY <1>0, <2>1, <2>2, <2>3 DEF QueueSteady, Locks, Busy, MessageOf
  <2>5. OnePlace' /\ NoneAhead'
    BY <1>0, <2>1, <2>2 DEF QueueSteady, OnePlace, NoneAhead, Known
  <2>6. \A v \in Workers : Leaving(v) => MessageOf(v) = m \/ (Leaving(v)' /\ MessageOf(v)' = MessageOf(v))
    BY <2>2 DEF Leaving, MessageOf
  <2>7. EarlierSettled'
    BY <1>0, <2>2, <2>6 DEF QueueSteady, EarlierSettled
  <2> QED
    BY <2>4, <2>5, <2>7 DEF QueueSteady
<1>7. ASSUME NEW w \in Workers, WorkerStep(w), ~settle(w) PROVE QueueSteady'
  <2>1. /\ UNCHANGED <<waiting, active, finished, pump>>
        /\ \A v \in Workers : /\ Busy(v)' <=> Busy(v)
                              /\ MessageOf(v)' = MessageOf(v)
                              /\ exec'[v].held = exec[v].held
                              /\ Leaving(v) => Leaving(v)'
    BY <1>7, WorkerMoves DEF broker, Busy, MessageOf, Leaving
  <2>2. Locks' /\ OnePlace'
    BY <1>0, <2>1 DEF QueueSteady, Locks, OnePlace
  <2>3. CASE UNCHANGED attempts
    BY <1>0, <2>1, <2>2, <2>3 DEF QueueSteady, NoneAhead, Known, EarlierSettled
  <2>4. CASE /\ Current(w) /\ Leaving(w)'
             /\ attempts' = [attempts EXCEPT ![exec[w].job] = exec[w].n + 1]
    <3> DEFINE j == exec[w].job
    <3>1. j \in Jobs /\ attempts[j] \in Nat /\ exec[w].n = attempts[j]
      BY <2>4, CurrentAttempt
    <3>2. \A i \in Jobs : attempts[i] \in Nat /\ attempts'[i] = IF i = j THEN attempts[j] + 1 ELSE attempts[i]
      BY <1>0, <2>4, <3>1 DEF RowsOK
    <3>3. \A i \in Jobs, n \in Nat : n <= attempts[i] => n <= attempts'[i]
      BY <3>2
    <3>4. NoneAhead'
      <4>1. \A m \in Known : m[1] \in Jobs /\ m[2] \in Nat
        BY <1>0 DEF QueueOK, Known, Messages
      <4>2. \A p \in Pumps : pump[p].pc = "enqueue" => pump[p].job \in Jobs /\ pump[p].n \in Nat
        BY <1>0 DEF TicksOK, Ticks
      <4>3. Known' = Known /\ pump' = pump
        BY <2>1 DEF Known
      <4> QED
        BY <1>0, <3>3, <4>1, <4>2, <4>3 DEF QueueSteady, NoneAhead
    <3>5. EarlierSettled'
      <4> SUFFICES ASSUME NEW i \in Jobs, NEW n \in Nat, n < attempts'[i]
                   PROVE  <<i, n>> \in finished \/
                          \E v \in Workers : Leaving(v)' /\ MessageOf(v)' = <<i, n>>
        BY <2>1 DEF EarlierSettled
      <4>1. CASE n < attempts[i]
        BY <1>0, <2>1, <4>1 DEF QueueSteady, EarlierSettled
      <4>2. CASE i = j /\ n = attempts[j]
        <5>1. MessageOf(w)' = <<i, n>>
          BY <2>1, <3>1, <4>2 DEF MessageOf
        <5> QED
          BY <2>4, <5>1
      <4> QED
        BY <3>2, <4>1, <4>2
    <3> QED
      BY <2>2, <3>4, <3>5 DEF QueueSteady
  <2> QED
    BY <1>7, <2>3, <2>4, AttemptsMove
<1>8. ASSUME Faulty PROVE FALSE
  BY <1>0, <1>8 DEF Faulty, enqueueFails, pumpCrash, loseLock, statementFails, workerCrash, forget
<1>9. CASE UNCHANGED vars
  BY <1>1, <1>9 DEF vars
<1> QED
  BY <1>2, <1>3, <1>4, <1>5, <1>6, <1>7, <1>8, <1>9 DEF Next, WorkerStep

(* A run that works on its job's current attempt touches the row of no     *)
(* other such run, so that only its own row and its own run are at stake.  *)
LEMMA OwnRow ==
  ASSUME TypeOK, Steady, NEW w \in Workers, WorkerStep(w), Current(w),
         \A i \in Jobs \ {exec[w].job} :
           /\ status'[i] = status[i]
           /\ attempts'[i] = attempts[i]
           /\ candidates'[i] = candidates[i],
         RunFits(w)', JobFits(exec[w].job)'
  PROVE  (\A v \in Workers : RunFits(v)') /\ (\A i \in Jobs : JobFits(i)')
<1>0. RunsOK /\ ~settle(w)
  BY DEF TypeOK, settle, Current, Leaving
<1>1. \A v \in Workers \ {w} : exec'[v] = exec[v]
  BY <1>0, WorkerMoves
<1>2. \A v \in Workers \ {w} : Current(v) => exec[v].job \in Jobs \ {exec[w].job}
  BY Alone, CurrentAttempt
<1>3. ASSUME NEW v \in Workers, v # w PROVE RunFits(v)'
  <2>1. CASE Current(v)
    BY <1>1, <1>2, <1>3, <2>1 DEF Steady, RunFits, Executing
  <2>2. CASE ~Current(v)
    BY <1>1, <1>3, <2>2 DEF RunFits, Executing, Current, Busy, Leaving
  <2> QED
    BY <2>1, <2>2
<1>4. ASSUME NEW i \in Jobs, i # exec[w].job PROVE JobFits(i)'
  <2>1. \A v \in Workers : InHand(v, i) => v # w
    BY <1>4 DEF InHand, Executing
  <2>2. \A v \in Workers : InHand(v, i) => InHand(v, i)'
    BY <1>1, <2>1 DEF InHand, Executing
  <2>3. status'[i] = status[i] /\ candidates'[i] = candidates[i]
    BY <1>4
  <2>4. JobFits(i)
    BY DEF Steady
  <2> QED
    BY <2>2, <2>3, <2>4 DEF JobFits
<1>5. ASSUME NEW i \in Jobs PROVE JobFits(i)'
  <2>1. exec'[w].job = exec[w].job
    BY <1>0, WorkerMoves
  <2> QED
    BY <1>4, <2>1 DEF JobFits
<1> QED
  BY <1>3, <1>5

(* A statement of a worker keeps its row and its run in step.              *)
LEMMA RowWorker ==
  ASSUME TypeOK, Steady, NEW w \in Workers, WorkerStep(w)
  PROVE  (\A v \in Workers : RunFits(v)') /\ (\A i \in Jobs : JobFits(i)')
<1>0. RowsOK /\ RunsOK /\ RunFits(w)
  BY DEF TypeOK, Steady
<1> DEFINE j == exec[w].job
<1>1. exec \in [Workers -> Runs]
  BY <1>0 DEF RunsOK
<1>2. ASSUME NEW l, Goto(w, l) PROVE exec'[w].pc = l /\ exec'[w].job = j /\ exec'[w].seen = exec[w].seen
  BY <1>1, <1>2 DEF Goto, Runs
<1>3. ASSUME NEW l, NEW b, exec' = [exec EXCEPT ![w].pc = l, ![w].retryable = b]
      PROVE exec'[w].pc = l /\ exec'[w].job = j /\ exec'[w].seen = exec[w].seen
  BY <1>1, <1>3 DEF Runs
<1>4. Current(w) => j \in Jobs
  BY CurrentAttempt
<1>5. CASE load(w)
  <2>1. Current(w)
    BY <1>5 DEF load, Current, Busy, Leaving
  <2>2. status[j] \notin {"claimed", "running"}
    <3>1. ASSUME NEW v \in Workers, InHand(v, j) PROVE FALSE
      <4>1. Current(v) /\ exec[v].job = j
        BY <3>1 DEF InHand, Executing, Current, Busy, Leaving
      <4>2. v = w
        BY <2>1, <4>1, Alone
      <4> QED
        BY <1>5, <3>1, <4>2 DEF load, InHand, Executing
    <3> QED
      BY <1>4, <2>1, <3>1 DEF Steady, JobFits
  <2>3. UNCHANGED <<status, attempts, candidates>>
    BY <1>0, <1>4, <1>5, <2>1, <2>2 DEF load, RowsOK
  <2>4. exec'[w].job = j /\ exec'[w].pc = IF status[j] = "queued" THEN "claim" ELSE "ack"
    BY <1>2, <1>5, <2>2 DEF load
  <2>5. JobFits(j)
    BY <1>4, <2>1 DEF Steady
  <2>6. RunFits(w)' /\ JobFits(j)'
    BY <2>2, <2>3, <2>4, <2>5 DEF RunFits, JobFits, Executing
  <2> QED
    BY <2>1, <2>3, <2>6, OwnRow
<1>6. CASE markJobClaimed(w)
  <2>1. Current(w) /\ status[j] \in {"queued", "cancelled"} /\ candidates[j] = 0
    BY <1>0, <1>6 DEF markJobClaimed, Current, Busy, Leaving, RunFits
  <2>2. UNCHANGED <<attempts, candidates>> /\ exec'[w].job = j
    BY <1>2, <1>6 DEF markJobClaimed
  <2>3. \/ status[j] = "queued" /\ status'[j] = "claimed" /\ exec'[w].pc = "run"
        \/ status[j] = "cancelled" /\ status'[j] = "cancelled" /\ exec'[w].pc = "ack"
    BY <1>0, <1>2, <1>4, <1>6, <2>1 DEF markJobClaimed, RowsOK
  <2>4. \A i \in Jobs \ {j} : status'[i] = status[i]
    BY <1>0, <1>6 DEF markJobClaimed, RowsOK
  <2>5. RunFits(w)' /\ JobFits(j)'
    BY <1>4, <2>1, <2>2, <2>3 DEF RunFits, JobFits, Executing, InHand, Steady
  <2> QED
    BY <2>1, <2>2, <2>4, <2>5, OwnRow
<1>7. CASE markJobRunning(w)
  <2>1. Current(w) /\ status[j] \in {"claimed", "cancelled"} /\ candidates[j] = 0
    BY <1>0, <1>7 DEF markJobRunning, Current, Busy, Leaving, RunFits
  <2>2. UNCHANGED <<attempts, candidates>> /\ exec'[w].job = j
    BY <1>2, <1>7 DEF markJobRunning
  <2>3. \/ status[j] = "claimed" /\ status'[j] = "running" /\ exec'[w].pc = "generate"
        \/ status[j] = "cancelled" /\ status'[j] = "cancelled" /\ exec'[w].pc = "ack"
    BY <1>0, <1>2, <1>4, <1>7, <2>1 DEF markJobRunning, RowsOK
  <2>4. \A i \in Jobs \ {j} : status'[i] = status[i]
    BY <1>0, <1>7 DEF markJobRunning, RowsOK
  <2>5. RunFits(w)' /\ JobFits(j)'
    BY <1>4, <2>1, <2>2, <2>3 DEF RunFits, JobFits, Executing, InHand, Steady
  <2> QED
    BY <2>1, <2>2, <2>4, <2>5, OwnRow
<1>8. ASSUME Current(w), Executing(w, j), UNCHANGED <<status, attempts>>,
             exec'[w].job = j,
             exec'[w].pc \in {"generate", "submit", "succeed", "failRead", "failWrite"},
             exec'[w].pc = "failWrite" => exec'[w].seen = attempts[j],
             exec'[w].pc # "succeed" => candidates'[j] = 0,
             \A i \in Jobs \ {j} : candidates'[i] = candidates[i]
      PROVE  RunFits(w)' /\ JobFits(j)'
  BY <1>0, <1>4, <1>8 DEF RunFits, JobFits, Executing, InHand, Steady
<1>9. CASE generate(w)
  <2>1. Current(w) /\ Executing(w, j) /\ candidates[j] = 0
    BY <1>0, <1>9 DEF generate, Current, Busy, Leaving, Executing, RunFits
  <2>2. UNCHANGED <<status, attempts, candidates>> /\ exec'[w].job = j /\
        exec'[w].pc \in {"submit", "failRead"}
    BY <1>2, <1>3, <1>9 DEF generate, db
  <2> QED
    BY <1>8, <2>1, <2>2, OwnRow
<1>10. CASE submitSceneCandidate(w)
  <2>1. Current(w) /\ Executing(w, j) /\ candidates[j] = 0
    BY <1>0, <1>10 DEF submitSceneCandidate, Current, Busy, Leaving, Executing, RunFits
  <2>2. UNCHANGED <<status, attempts>> /\ exec'[w].job = j /\
        (exec'[w].pc = "succeed" \/ (exec'[w].pc = "failRead" /\ UNCHANGED candidates))
    BY <1>2, <1>3, <1>10 DEF submitSceneCandidate, jobVars
  <2>3. \A i \in Jobs \ {j} : candidates'[i] = candidates[i]
    BY <1>0, <1>10 DEF submitSceneCandidate, RowsOK
  <2> QED
    BY <1>8, <2>1, <2>2, <2>3, OwnRow
<1>11. CASE markJobSucceeded(w)
  <2>1. Current(w) /\ status[j] \in {"running", "cancelled"}
    BY <1>0, <1>11 DEF markJobSucceeded, Current, Busy, Leaving, Executing, RunFits
  <2>2. UNCHANGED <<attempts, candidates>> /\ exec'[w].job = j /\ exec'[w].pc = "ack"
    BY <1>2, <1>11 DEF markJobSucceeded
  <2>3. \/ status[j] = "running" /\ status'[j] = "succeeded"
        \/ status[j] = "cancelled" /\ status'[j] = "cancelled"
    BY <1>0, <1>4, <1>11, <2>1 DEF markJobSucceeded, RowsOK
  <2>4. \A i \in Jobs \ {j} : status'[i] = status[i]
    BY <1>0, <1>11 DEF markJobSucceeded, RowsOK
  <2>5. RunFits(w)' /\ JobFits(j)'
    BY <1>4, <2>1, <2>2, <2>3 DEF RunFits, JobFits, Executing, Steady
  <2> QED
    BY <2>1, <2>2, <2>4, <2>5, OwnRow
<1>12. CASE readAttempts(w)
  <2>1. Current(w) /\ Executing(w, j) /\ candidates[j] = 0
    BY <1>0, <1>12 DEF readAttempts, Current, Busy, Leaving, Executing, RunFits
  <2>2. UNCHANGED <<status, attempts, candidates>> /\ exec'[w].job = j /\
        exec'[w].pc = "failWrite" /\ exec'[w].seen = attempts[j]
    BY <1>1, <1>12 DEF readAttempts, db, Runs
  <2> QED
    BY <1>8, <2>1, <2>2, OwnRow
<1>13. CASE markJobFailed(w)
  <2>1. Current(w) /\ candidates[j] = 0
    BY <1>0, <1>13 DEF markJobFailed, Current, Busy, Leaving, RunFits
  <2>2. UNCHANGED candidates /\ exec'[w].job = j /\ exec'[w].pc \in {"failDispatch", "ack"}
    BY <1>2, <1>13 DEF markJobFailed
  <2>3. status'[j] \in {"queued", "failed"}
    BY <1>0, <1>4, <1>13, <2>1 DEF markJobFailed, RowsOK
  <2>4. \A i \in Jobs \ {j} : status'[i] = status[i] /\ attempts'[i] = attempts[i]
    BY <1>0, <1>13 DEF markJobFailed, RowsOK
  <2>5. RunFits(w)' /\ JobFits(j)'
    BY <2>1, <2>2, <2>3 DEF RunFits, JobFits, Executing
  <2> QED
    BY <2>1, <2>2, <2>4, <2>5, OwnRow
<1>14. CASE reopenDispatch(w) \/ settle(w)
  <2>1. UNCHANGED <<status, attempts, candidates>> /\ ~Current(w)
    BY <1>14 DEF reopenDispatch, settle, Current, Leaving, db, jobVars
  <2>2. \A v \in Workers \ {w} : exec'[v] = exec[v]
    BY <1>1, <1>14 DEF reopenDispatch, settle, Goto
  <2>3. exec'[w].pc \in {"idle", "ack"}
    BY <1>1, <1>2, <1>14 DEF reopenDispatch, settle, IdleExec
  <2>4. ASSUME NEW v \in Workers PROVE RunFits(v)'
    BY <2>1, <2>2, <2>3 DEF Steady, RunFits, Executing
  <2>5. ASSUME NEW i \in Jobs PROVE JobFits(i)'
    <3>1. \A v \in Workers : InHand(v, i) => v # w /\ InHand(v, i)'
      BY <2>1, <2>2 DEF InHand, Executing, Current, Busy, Leaving
    <3> QED
      BY <2>1, <3>1 DEF Steady, JobFits
  <2> QED
    BY <2>4, <2>5
<1> QED
  BY <1>5, <1>6, <1>7, <1>9, <1>10, <1>11, <1>12, <1>13, <1>14 DEF WorkerStep

(* Every step keeps the rows and the runs in step.                         *)
LEMMA RowNext ==
  ASSUME MaxFaults = 0, TypeOK, Steady, [Next]_vars
  PROVE  (\A w \in Workers : RunFits(w)') /\ (\A j \in Jobs : JobFits(j)')
<1>0. RowsOK /\ RunsOK /\ ~Fault
  BY DEF TypeOK, Fault
<1> DEFINE Goal == (\A w \in Workers : RunFits(w)') /\ (\A j \in Jobs : JobFits(j)')
<1>1. ASSUME UNCHANGED <<status, attempts, candidates, exec>> PROVE Goal
  BY <1>1 DEF Steady, RunFits, JobFits, InHand, Executing
<1>2. ASSUME NEW j \in Jobs, Api(j) PROVE Goal
  <2>1. UNCHANGED <<attempts, candidates, exec>>
    BY <1>2 DEF Api, createSceneJob, cancelJob, leaseExpires
  <2>2. CASE createSceneJob(j)
    <3>1. /\ status[j] = "absent" /\ status'[j] = "queued"
          /\ \A i \in Jobs \ {j} : status'[i] = status[i]
      BY <1>0, <2>2 DEF createSceneJob, RowsOK
    <3>2. ASSUME NEW w \in Workers PROVE RunFits(w)'
      <4>1. Current(w) => exec[w].job \in Jobs
        BY CurrentAttempt
      <4> QED
        BY <2>1, <3>1, <4>1 DEF Steady, RunFits, Executing, Current, Busy, Leaving
    <3>3. ASSUME NEW i \in Jobs PROVE JobFits(i)'
      BY <2>1, <3>1 DEF Steady, JobFits, InHand, Executing
    <3> QED
      BY <3>2, <3>3
  <2>3. CASE cancelJob(j)
    <3>1. /\ j \in Cancellable /\ status'[j] = "cancelled"
          /\ \A i \in Jobs \ {j} : status'[i] = status[i]
      BY <1>0, <2>3 DEF cancelJob, RowsOK
    <3>2. ASSUME NEW w \in Workers PROVE RunFits(w)'
      <4>1. Current(w) => exec[w].job \in Jobs
        BY CurrentAttempt
      <4> QED
        BY <2>1, <3>1, <4>1 DEF Steady, RunFits, Executing, Current, Busy, Leaving
    <3>3. ASSUME NEW i \in Jobs PROVE JobFits(i)'
      BY <2>1, <3>1 DEF Steady, JobFits, InHand, Executing, Kept
    <3> QED
      BY <3>2, <3>3
  <2> QED
    BY <1>1, <1>2, <2>1, <2>2, <2>3 DEF Api, leaseExpires
<1>3. ASSUME NEW p \in Pumps, PumpStep(p) PROVE Goal
  BY <1>1, <1>3 DEF PumpStep, listPendingDispatches, readJob, enqueue, markDispatchEnqueued,
     recordDispatchFailure, db, jobVars
<1>4. ASSUME NEW w \in Workers, NEW m \in waiting, take(w, m) PROVE Goal
  <2>1. UNCHANGED <<status, attempts, candidates>> /\ exec[w].pc = "idle"
    BY <1>4 DEF take, db
  <2>2. exec'[w].pc = "load" /\ \A v \in Workers \ {w} : exec'[v] = exec[v]
    BY <1>0, <1>4 DEF take, RunsOK, Runs, IdleExec
  <2>3. ASSUME NEW v \in Workers PROVE RunFits(v)'
    BY <2>1, <2>2 DEF Steady, RunFits, Executing
  <2>4. ASSUME NEW i \in Jobs PROVE JobFits(i)'
    <3>1. \A v \in Workers : InHand(v, i) => InHand(v, i)'
      BY <2>1, <2>2 DEF InHand, Executing
    <3> QED
      BY <2>1, <3>1 DEF Steady, JobFits
  <2> QED
    BY <2>3, <2>4
<1>5. ASSUME NEW m \in active, redeliver(m) PROVE Goal
  BY <1>1, <1>5 DEF redeliver, db
<1>6. ASSUME Faulty PROVE FALSE
  BY <1>0, <1>6 DEF Faulty, enqueueFails, pumpCrash, loseLock, statementFails, workerCrash, forget
<1>7. CASE UNCHANGED vars
  BY <1>1, <1>7 DEF vars
<1> QED
  BY <1>2, <1>3, <1>4, <1>5, <1>6, <1>7, RowWorker DEF Next

(* Before any job is created nobody is busy.                               *)
LEMMA SteadyInit == Init => Steady
BY DEF Init, Steady, QueueSteady, Locks, OnePlace, NoneAhead, EarlierSettled, RunFits, JobFits,
   InHand, Executing, Busy, Leaving, Known, IdleExec, IdlePump

(* Steady holds throughout a behaviour without faults.                     *)
LEMMA AlwaysSteady ==
  ASSUME MaxFaults = 0
  PROVE  Spec => []Steady
<1>1. TypeOK /\ Steady /\ [Next]_vars => Steady'
  BY QueueNext, RowNext DEF Steady
<1> QED
  BY <1>1, SteadyInit, TypeCorrect, PTL DEF Spec

(* Without faults at most one worker runs a job at a time, an active job   *)
(* is in some worker's hands, and a job whose candidate waits for review   *)
(* never ends as failed, however many jobs, ticks and workers there are,   *)
(* with overlapping ticks, cancellations and leases that expire early.     *)
THEOREM RunsApart ==
  ASSUME MaxFaults = 0
  PROVE  Spec => [](ExclusiveExecution /\ ActiveHasWorker /\ SubmittedNeverFails)
<1>1. ASSUME TypeOK, Steady PROVE ExclusiveExecution
  <2>1. \A w \in Workers : \A j \in Jobs : Executing(w, j) => Current(w) /\ exec[w].job = j
    BY DEF Executing, Current, Busy, Leaving
  <2> QED
    BY <1>1, <2>1, Alone DEF ExclusiveExecution
<1>2. ASSUME Steady PROVE ActiveHasWorker
  BY <1>2 DEF Steady, JobFits, InHand, ActiveHasWorker
<1>3. ASSUME TypeOK, Steady PROVE SubmittedNeverFails
  BY <1>3 DEF Steady, JobFits, SubmittedNeverFails
<1>4. TypeOK /\ Steady => ExclusiveExecution /\ ActiveHasWorker /\ SubmittedNeverFails
  BY <1>1, <1>2, <1>3
<1> QED
  BY <1>4, AlwaysSteady, TypeCorrect, PTL

(* Without faults an active job is always in the hands of a run.           *)
THEOREM ActiveJobsInHand ==
  ASSUME MaxFaults = 0
  PROVE  Spec => []ActiveHasWorker
  BY RunsApart, PTL

(* Without faults a job whose candidate was submitted does not fail.       *)
THEOREM SubmissionLasts ==
  ASSUME MaxFaults = 0
  PROVE  Spec => []SubmittedNeverFails
  BY RunsApart, PTL

-----------------------------------------------------------------------------
(* The refinement of JobLifecycle.                                         *)

(* A step that changes the row of one kept job as the table and the retry  *)
(* rule allow is a step of the lifecycle.                                  *)
LEMMA MoveMaps ==
  ASSUME RowsOK, NEW j \in Kept, NEW to, NEW counted \in {0, 1},
         status[j] # "absent",
         to \in Lifecycle!transitions[status[j]],
         to = "failed" => counted = 1,
         to \notin {"failed", "queued"} => counted = 0,
         to = "queued" => attempts[j] + counted < MaxAttempts,
         status' = [status EXCEPT ![j] = to],
         attempts' = [attempts EXCEPT ![j] = attempts[j] + counted]
  PROVE  Lifecycle!Next
<1>1. Lifecycle!Move(j, to)
  BY DEF RowsOK, Kept, Lifecycle!Move, Lifecycle!shouldRetry
<1>2. to \in DOMAIN Lifecycle!transitions
  BY DEF RowsOK, Kept, Statuses, Lifecycle!transitions
<1> QED
  BY <1>1, <1>2 DEF Lifecycle!Next

(* A run that loads its job finds no active job: another run would have it *)
(* in hand, and would be this one.                                         *)
LEMMA NothingToRecover ==
  ASSUME TypeOK, Steady, NEW w \in Workers, load(w)
  PROVE  status[exec[w].job] \notin {"claimed", "running"}
<1> DEFINE j == exec[w].job
<1>1. Current(w)
  BY DEF load, Current, Busy, Leaving
<1>2. j \in Jobs /\ JobFits(j)
  BY <1>1, CurrentAttempt DEF Steady
<1>3. \A v \in Workers : InHand(v, j) => Current(v) /\ exec[v].job = j /\ v # w
  BY DEF load, InHand, Executing, Current, Busy, Leaving
<1>4. \A v \in Workers : ~InHand(v, j)
  BY <1>1, <1>3, Alone
<1> QED
  BY <1>2, <1>4 DEF JobFits

(* Every step is a step of the lifecycle of the kept jobs, or stutters.    *)
LEMMA StepMaps ==
  ASSUME MaxFaults = 0, TypeOK, Steady, [Next]_vars
  PROVE  [Lifecycle!Next]_(Lifecycle!lifecycleVars)
<1>0. RowsOK /\ RunsOK /\ ~Fault
  BY DEF TypeOK, Fault
<1> DEFINE Goal == Lifecycle!Next \/ UNCHANGED Lifecycle!lifecycleVars
<1>1. ASSUME UNCHANGED <<status, attempts>> PROVE Goal
  BY <1>1 DEF Lifecycle!lifecycleVars
<1>2. ASSUME NEW j \in Jobs, j \notin Kept, NEW to, NEW n,
             status' = [status EXCEPT ![j] = to], attempts' = [attempts EXCEPT ![j] = n]
      PROVE  Goal
  BY <1>0, <1>2 DEF RowsOK, Kept, Lifecycle!lifecycleVars
<1>3. ASSUME NEW j \in Jobs, createSceneJob(j) PROVE Goal
  <2>1. CASE j \in Kept
    <3>1. Lifecycle!Create(j)
      BY <1>0, <1>3, <2>1 DEF createSceneJob, RowsOK, Kept, Lifecycle!Create
    <3> QED
      BY <2>1, <3>1 DEF Lifecycle!Next
  <2>2. CASE j \notin Kept
    <3>1. attempts' = [attempts EXCEPT ![j] = attempts[j]]
      BY <1>0, <1>3 DEF createSceneJob, RowsOK
    <3> QED
      BY <1>2, <1>3, <2>2, <3>1 DEF createSceneJob
  <2> QED
    BY <2>1, <2>2
<1>4. ASSUME NEW j \in Jobs, cancelJob(j) PROVE Goal
  <2>1. attempts' = [attempts EXCEPT ![j] = attempts[j]]
    BY <1>0, <1>4 DEF cancelJob, RowsOK
  <2> QED
    BY <1>2, <1>4, <2>1 DEF cancelJob, Kept
<1>5. ASSUME NEW p \in Pumps, PumpStep(p) PROVE Goal
  BY <1>1, <1>5 DEF PumpStep, listPendingDispatches, readJob, enqueue, markDispatchEnqueued,
     recordDispatchFailure, db, jobVars
<1>6. ASSUME NEW w \in Workers, NEW m \in waiting, take(w, m) PROVE Goal
  BY <1>1, <1>6 DEF take, db
<1>7. ASSUME NEW m \in active, redeliver(m) PROVE Goal
  BY <1>1, <1>7 DEF redeliver, db
<1>8. ASSUME NEW w \in Workers, WorkerStep(w) PROVE Goal
  <2> DEFINE j == exec[w].job
  <2>1. RunFits(w) /\ (Current(w) => j \in Jobs)
    BY CurrentAttempt DEF Steady
  <2>2. j \in Jobs => JobFits(j) /\ status[j] \in Statuses /\ attempts[j] \in Nat
    BY <1>0 DEF Steady, RowsOK
  <2>3. ASSUME NEW to, NEW counted \in {0, 1}, Current(w),
               j \in Kept => /\ status[j] # "absent"
                             /\ to \in Lifecycle!transitions[status[j]]
                             /\ to = "failed" => counted = 1
                             /\ to \notin {"failed", "queued"} => counted = 0
                             /\ to = "queued" => attempts[j] + counted < MaxAttempts,
               status' = [status EXCEPT ![j] = to],
               attempts' = [attempts EXCEPT ![j] = attempts[j] + counted]
        PROVE  Goal
    BY <1>0, <1>2, <2>1, <2>3, MoveMaps
  <2>4. ASSUME UNCHANGED attempts, Current(w)
        PROVE  attempts' = [attempts EXCEPT ![j] = attempts[j] + 0]
    BY <1>0, <2>1, <2>2, <2>4 DEF RowsOK
  <2>5. CASE load(w)
    <3>1. Current(w)
      BY <2>5 DEF load, Current, Busy, Leaving
    <3>2. status[j] \notin {"claimed", "running"}
      BY <2>5, NothingToRecover
    <3>3. UNCHANGED <<status, attempts>>
      BY <1>0, <2>1, <2>5, <3>1, <3>2 DEF load, RowsOK
    <3> QED
      BY <1>1, <3>3
  <2>6. CASE markJobClaimed(w)
    <3>1. Current(w) /\ UNCHANGED attempts /\ status[j] \in {"queued", "cancelled"}
      BY <2>1, <2>6 DEF markJobClaimed, Current, Busy, Leaving, RunFits
    <3>2. CASE status[j] = "queued"
      <4>1. "claimed" \in Lifecycle!transitions[status[j]]
        BY <3>2 DEF Lifecycle!transitions
      <4>2. status' = [status EXCEPT ![j] = "claimed"]
        BY <2>6, <3>2 DEF markJobClaimed
      <4> QED
        BY <2>3, <2>4, <3>1, <3>2, <4>1, <4>2
    <3>3. CASE status[j] = "cancelled"
      <4>1. status' = status
        BY <1>0, <2>1, <2>6, <3>1, <3>3 DEF markJobClaimed, RowsOK
      <4> QED
        BY <1>1, <3>1, <4>1
    <3> QED
      BY <3>1, <3>2, <3>3
  <2>7. CASE markJobRunning(w)
    <3>1. Current(w) /\ UNCHANGED attempts /\ status[j] \in {"claimed", "cancelled"}
      BY <2>1, <2>7 DEF markJobRunning, Current, Busy, Leaving, RunFits
    <3>2. CASE status[j] = "claimed"
      <4>1. "running" \in Lifecycle!transitions[status[j]]
        BY <3>2 DEF Lifecycle!transitions
      <4>2. status' = [status EXCEPT ![j] = "running"]
        BY <2>7, <3>2 DEF markJobRunning
      <4> QED
        BY <2>3, <2>4, <3>1, <3>2, <4>1, <4>2
    <3>3. CASE status[j] = "cancelled"
      <4>1. status' = status
        BY <1>0, <2>1, <2>7, <3>1, <3>3 DEF markJobRunning, RowsOK
      <4> QED
        BY <1>1, <3>1, <4>1
    <3> QED
      BY <3>1, <3>2, <3>3
  <2>8. CASE markJobSucceeded(w)
    <3>1. Current(w) /\ UNCHANGED attempts /\ status[j] \in {"running", "cancelled"}
      BY <2>1, <2>8 DEF markJobSucceeded, Current, Busy, Leaving, RunFits, Executing
    <3>2. CASE status[j] = "running"
      <4>1. "succeeded" \in Lifecycle!transitions[status[j]]
        BY <3>2 DEF Lifecycle!transitions
      <4>2. status' = [status EXCEPT ![j] = "succeeded"]
        BY <1>0, <2>1, <2>8, <3>1, <3>2 DEF markJobSucceeded, RowsOK
      <4> QED
        BY <2>3, <2>4, <3>1, <3>2, <4>1, <4>2
    <3>3. CASE status[j] = "cancelled"
      <4>1. status' = status
        BY <1>0, <2>1, <2>8, <3>1, <3>3 DEF markJobSucceeded, RowsOK
      <4> QED
        BY <1>1, <3>1, <4>1
    <3> QED
      BY <3>1, <3>2, <3>3
  <2>9. CASE markJobFailed(w)
    <3>1. Current(w) /\ status[j] \in {"running", "cancelled"} /\ exec[w].seen = attempts[j]
      BY <2>1, <2>9 DEF markJobFailed, Current, Busy, Leaving, RunFits, Executing
    <3>2. j \in Kept => status[j] = "running"
      BY <2>1, <2>2, <3>1 DEF JobFits
    <3>3. attempts' = [attempts EXCEPT ![j] = attempts[j] + 1]
      BY <2>9, <3>1 DEF markJobFailed
    <3>4. PICK to \in {"queued", "failed"} :
            /\ status' = [status EXCEPT ![j] = to]
            /\ to = "queued" => attempts[j] + 1 < MaxAttempts
      BY <2>9, <3>1 DEF markJobFailed
    <3>5. to \in Lifecycle!transitions["running"]
      BY DEF Lifecycle!transitions
    <3> QED
      BY <2>3, <3>1, <3>2, <3>3, <3>4, <3>5
  <2>10. CASE generate(w) \/ submitSceneCandidate(w) \/ readAttempts(w) \/ reopenDispatch(w) \/ settle(w)
    BY <1>1, <2>10 DEF generate, submitSceneCandidate, readAttempts, reopenDispatch, settle, db, jobVars
  <2> QED
    BY <1>8, <2>5, <2>6, <2>7, <2>8, <2>9, <2>10 DEF WorkerStep
<1>9. ASSUME Faulty PROVE FALSE
  BY <1>0, <1>9 DEF Faulty, enqueueFails, pumpCrash, loseLock, statementFails, workerCrash, forget
<1>10. ASSUME NEW j \in Jobs, leaseExpires(j) PROVE Goal
  BY <1>1, <1>10 DEF leaseExpires
<1>11. CASE UNCHANGED vars
  BY <1>1, <1>11 DEF vars
<1> QED
  BY <1>3, <1>4, <1>5, <1>6, <1>7, <1>8, <1>9, <1>10, <1>11 DEF Next, Api

(* Without faults the jobs nobody cancels follow the domain's transition   *)
(* table and retry rule, which neither the repository nor the worker       *)
(* consults.                                                               *)
THEOREM Implements ==
  ASSUME MaxFaults = 0
  PROVE  Spec => FollowsLifecycle
<1>1. Init => Lifecycle!Init
  BY DEF Init, Lifecycle!Init, Kept
<1>2. TypeOK /\ Steady /\ [Next]_vars => [Lifecycle!Next]_(Lifecycle!lifecycleVars)
  BY StepMaps
<1> QED
  BY <1>1, <1>2, AlwaysSteady, TypeCorrect, PTL DEF Spec, FollowsLifecycle, Lifecycle!Spec

-----------------------------------------------------------------------------
(* How far the findings reach.  Three runs show a job that is stranded, or *)
(* a cancelled job that runs again; here is what can become of such a job, *)
(* and which jobs cannot become one.                                       *)

(* Neither the queue, nor a tick, nor a run has the job.                   *)
Outside(j) ==
  /\ \A m \in waiting \cup active : m[1] # j
  /\ \A w \in Workers : exec[w].job # j
  /\ \A p \in Pumps : pump[p].job # j /\ j \notin pump[p].todo

(* Nothing in the system takes up such a job unless its dispatch is        *)
(* pending: the API may create or cancel it, and that is all.              *)
LEMMA OutsideNext ==
  ASSUME TypeOK, [Next]_vars, NEW j \in Jobs, Outside(j), dispatch[j] # "pending"
  PROVE  /\ Outside(j)'
         /\ \A m \in finished' \ finished : m[1] # j
         /\ \/ createSceneJob(j)
            \/ dispatch'[j] = dispatch[j] /\ status'[j] = status[j]
            \/ /\ dispatch'[j] = dispatch[j]
               /\ status[j] \in {"queued", "claimed", "running"}
               /\ status'[j] = "cancelled"
<1> DEFINE Row  == dispatch'[j] = dispatch[j] /\ status'[j] = status[j]
           Goal == /\ Outside(j)'
                   /\ \A m \in finished' \ finished : m[1] # j
                   /\ \/ createSceneJob(j)
                      \/ Row
                      \/ /\ dispatch'[j] = dispatch[j]
                         /\ status[j] \in {"queued", "claimed", "running"}
                         /\ status'[j] = "cancelled"
<1>0. RowsOK /\ TicksOK /\ RunsOK
  BY DEF TypeOK
<1>1. CASE UNCHANGED vars
  BY <1>1 DEF vars, Outside
<1>2. ASSUME NEW i \in Jobs, Api(i) PROVE Goal
  <2>1. UNCHANGED <<broker, pump, exec>>
    BY <1>2 DEF Api, createSceneJob, cancelJob, leaseExpires
  <2>2. CASE createSceneJob(i)
    BY <1>0, <2>1, <2>2 DEF createSceneJob, RowsOK, Outside, broker
  <2>3. CASE cancelJob(i)
    BY <1>0, <2>1, <2>3 DEF cancelJob, RowsOK, Outside, broker
  <2>4. CASE leaseExpires(i)
    BY <2>1, <2>4 DEF leaseExpires, Outside, broker
  <2> QED
    BY <1>2, <2>2, <2>3, <2>4 DEF Api
<1>3. ASSUME NEW p \in Pumps, PumpStep(p) \/ enqueueFails(p) \/ pumpCrash(p) PROVE Goal
  <2>1. UNCHANGED <<status, active, finished, exec>>
    BY <1>3 DEF PumpStep, listPendingDispatches, readJob, enqueue, markDispatchEnqueued,
       recordDispatchFailure, enqueueFails, pumpCrash, db, jobVars, broker
  <2>2. pump \in [Pumps -> Ticks] /\ pump[p].job # j /\ j \notin pump[p].todo
    BY <1>0 DEF TicksOK, Outside
  <2>3. dispatch'[j] = dispatch[j]
    BY <1>0, <1>3, <2>2 DEF PumpStep, listPendingDispatches, readJob, enqueue,
       markDispatchEnqueued, recordDispatchFailure, enqueueFails, pumpCrash, db, RowsOK
  <2>4. \A m \in waiting' : m[1] # j
    BY <1>3, <2>2 DEF PumpStep, listPendingDispatches, readJob, enqueue, markDispatchEnqueued,
       recordDispatchFailure, enqueueFails, pumpCrash, broker, Add, Outside
  <2>5. (\A q \in Pumps \ {p} : pump'[q] = pump[q]) /\ pump'[p].job # j /\ j \notin pump'[p].todo
    <3>1. IdlePump.job # j /\ j \notin IdlePump.todo
      BY SceneAssumption DEF IdlePump
    <3>2. CASE Continue(p)
      BY <2>2, <3>1, <3>2, SceneAssumption DEF Continue, Ticks
    <3>3. CASE listPendingDispatches(p)
      BY <2>2, <3>3 DEF listPendingDispatches, Ticks
    <3>4. CASE readJob(p)
      BY <2>2, <3>4 DEF readJob, Ticks
    <3>5. CASE enqueue(p) \/ enqueueFails(p) \/ pumpCrash(p)
      BY <2>2, <3>1, <3>5 DEF enqueue, enqueueFails, pumpCrash, Ticks
    <3> QED
      BY <1>3, <3>2, <3>3, <3>4, <3>5 DEF PumpStep, markDispatchEnqueued, recordDispatchFailure
  <2> QED
    BY <2>1, <2>3, <2>4, <2>5 DEF Outside
<1>4. ASSUME NEW w \in Workers,
             WorkerStep(w) \/ loseLock(w) \/ statementFails(w) \/ workerCrash(w)
      PROVE Goal
  <2>1. exec \in [Workers -> Runs] /\ exec[w].job # j
    BY <1>0 DEF RunsOK, Outside
  <2>2. /\ UNCHANGED <<pump, waiting>>
        /\ active' \subseteq active
        /\ finished' \subseteq finished \cup {MessageOf(w)}
    BY <1>4 DEF WorkerStep, load, markJobClaimed, markJobRunning, generate, submitSceneCandidate,
       markJobSucceeded, readAttempts, markJobFailed, reopenDispatch, settle,
       loseLock, statementFails, workerCrash, broker
  <2>3. Row
    BY <1>0, <1>4, <2>1 DEF WorkerStep, load, markJobClaimed, markJobRunning, generate,
       submitSceneCandidate, markJobSucceeded, readAttempts, markJobFailed, reopenDispatch,
       settle, loseLock, statementFails, workerCrash, db, jobVars, RowsOK
  <2>4. (\A v \in Workers \ {w} : exec'[v] = exec[v]) /\ exec'[w].job # j
    BY <1>4, <2>1, SceneAssumption DEF WorkerStep, load, markJobClaimed, markJobRunning, generate,
       submitSceneCandidate, markJobSucceeded, readAttempts, markJobFailed, reopenDispatch,
       settle, loseLock, statementFails, workerCrash, Goto, Runs, IdleExec
  <2> QED
    BY <2>1, <2>2, <2>3, <2>4 DEF Outside, MessageOf
<1>5. ASSUME NEW w \in Workers, NEW m \in waiting, take(w, m) PROVE Goal
  <2>1. m[1] # j
    BY DEF Outside
  <2>2. (\A v \in Workers \ {w} : exec'[v] = exec[v]) /\ exec'[w].job # j
    BY <1>0, <1>5, <2>1 DEF take, RunsOK, Runs, IdleExec
  <2> QED
    BY <1>5, <2>1, <2>2 DEF take, Outside, db
<1>6. ASSUME NEW m \in active, redeliver(m) PROVE Goal
  BY <1>6 DEF redeliver, Outside, db
<1>7. ASSUME NEW m, forget(m) PROVE Goal
  <2>1. \A v \in Workers : exec'[v].job = exec[v].job
    BY <1>0, <1>7 DEF forget, RunsOK, Runs
  <2> QED
    BY <1>7, <2>1 DEF forget, Outside, db
<1> QED
  BY <1>1, <1>2, <1>3, <1>4, <1>5, <1>6, <1>7 DEF Next, Faulty

(* Its dispatch counts as sent, but nothing in the system has the job.     *)
Unattended(j) == dispatch[j] = "enqueued" /\ Outside(j)

(* A stranded job stays stranded unless it is cancelled, and then nothing  *)
(* becomes of it either: no tick, redelivery, lease recovery or restart    *)
(* brings it back, whatever happens later and whoever runs.                *)
THEOREM StrandedForGood ==
  ASSUME NEW j \in Jobs
  PROVE  Spec => [](Stranded(j) => [](Stranded(j) \/ (Unattended(j) /\ status[j] = "cancelled")))
<1> DEFINE Lost == Stranded(j) \/ (Unattended(j) /\ status[j] = "cancelled")
<1>1. TypeOK /\ Lost /\ [Next]_vars => Lost'
  <2> SUFFICES ASSUME TypeOK, Lost, [Next]_vars PROVE Lost'
    OBVIOUS
  <2>1. Unattended(j) /\ status[j] \in {"queued", "claimed", "running", "cancelled"}
    BY DEF Stranded, Unattended, Outside
  <2>2. Unattended(j)' /\ status'[j] \in {status[j], "cancelled"}
    BY <2>1, OutsideNext DEF Unattended, createSceneJob
  <2> QED
    BY <2>1, <2>2 DEF Stranded, Unattended, Outside
<1>2. Stranded(j) => Lost
  OBVIOUS
<1> HIDE DEF Lost
<1>3. Spec => [](Stranded(j) => []Lost)
  BY <1>1, <1>2, TypeCorrect, PTL DEF Spec
<1> QED
  BY <1>3 DEF Lost

(* The job has ended, and no run is between markJobRunning and the end of  *)
(* markJobSucceeded or markJobFailed for it.                               *)
Finished(j) == Terminal(status[j]) /\ \A w \in Workers : ~Executing(w, j)

(* No step starts such a job again or writes its row.                      *)
LEMMA FinishedNext ==
  ASSUME TypeOK, [Next]_vars, NEW j \in Jobs, Finished(j)
  PROVE  Finished(j)' /\ status'[j] = status[j]
<1> DEFINE Goal == Finished(j)' /\ status'[j] = status[j]
<1>0. RowsOK /\ RunsOK
  BY DEF TypeOK
<1>1. ASSUME status'[j] = status[j],
             \A w \in Workers : Executing(w, j)' => Executing(w, j)
      PROVE  Goal
  BY <1>1 DEF Finished
<1>2. ASSUME NEW i \in Jobs, Api(i) PROVE Goal
  <2>1. UNCHANGED exec /\ status'[j] = status[j]
    BY <1>0, <1>2 DEF Api, createSceneJob, cancelJob, leaseExpires, RowsOK, Finished, Terminal
  <2> QED
    BY <1>1, <2>1 DEF Executing
<1>3. ASSUME NEW p \in Pumps, PumpStep(p) \/ enqueueFails(p) \/ pumpCrash(p) PROVE Goal
  <2>1. UNCHANGED <<status, exec>>
    BY <1>3 DEF PumpStep, listPendingDispatches, readJob, enqueue, markDispatchEnqueued,
       recordDispatchFailure, enqueueFails, pumpCrash, db, jobVars
  <2> QED
    BY <1>1, <2>1 DEF Executing
<1>4. ASSUME NEW w \in Workers,
             WorkerStep(w) \/ loseLock(w) \/ statementFails(w) \/ workerCrash(w)
      PROVE Goal
  <2>1. exec \in [Workers -> Runs]
    BY <1>0 DEF RunsOK
  <2>2. \A v \in Workers \ {w} : exec'[v] = exec[v]
    BY <1>4, <2>1 DEF WorkerStep, load, markJobClaimed, markJobRunning, generate,
       submitSceneCandidate, markJobSucceeded, readAttempts, markJobFailed, reopenDispatch,
       settle, loseLock, statementFails, workerCrash, Goto
  <2>3. CASE exec[w].job # j
    <3>1. status'[j] = status[j]
      BY <1>0, <1>4, <2>3 DEF WorkerStep, load, markJobClaimed, markJobRunning, generate,
         submitSceneCandidate, markJobSucceeded, readAttempts, markJobFailed, reopenDispatch,
         settle, loseLock, statementFails, workerCrash, db, jobVars, RowsOK
    <3>2. exec'[w].job # j
      BY <1>4, <2>1, <2>3, SceneAssumption DEF WorkerStep, load, markJobClaimed, markJobRunning,
         generate, submitSceneCandidate, markJobSucceeded, readAttempts, markJobFailed,
         reopenDispatch, settle, loseLock, statementFails, workerCrash, Goto, Runs, IdleExec
    <3> QED
      BY <1>1, <2>2, <3>1, <3>2 DEF Executing
  <2>4. CASE exec[w].job = j
    <3>1. ~Executing(w, j) /\ Terminal(status[j])
      BY DEF Finished
    <3>2. status'[j] = status[j]
      BY <1>0, <1>4, <2>4, <3>1 DEF WorkerStep, load, markJobClaimed, markJobRunning, generate,
         submitSceneCandidate, markJobSucceeded, readAttempts, markJobFailed, reopenDispatch,
         settle, loseLock, statementFails, workerCrash, db, jobVars, RowsOK, Executing, Terminal
    <3>3. ~Executing(w, j)'
      <4>1. exec'[w].pc \in {"claim", "ack", "idle"} \/ exec'[w].pc = exec[w].pc
        BY <1>4, <2>1, <2>4, <3>1 DEF WorkerStep, load, markJobClaimed, markJobRunning, generate,
           submitSceneCandidate, markJobSucceeded, readAttempts, markJobFailed, reopenDispatch,
           settle, loseLock, statementFails, workerCrash, Goto, Runs, IdleExec, Executing, Terminal
      <4> QED
        BY <2>4, <3>1, <4>1 DEF Executing
    <3> QED
      BY <1>1, <2>2, <3>2, <3>3 DEF Executing
  <2> QED
    BY <2>3, <2>4
<1>5. ASSUME NEW w \in Workers, NEW m \in waiting, take(w, m) PROVE Goal
  <2>1. exec'[w].pc = "load" /\ \A v \in Workers \ {w} : exec'[v] = exec[v]
    BY <1>0, <1>5 DEF take, RunsOK, Runs, IdleExec
  <2> QED
    BY <1>1, <1>5, <2>1 DEF take, db, Executing
<1>6. ASSUME NEW m \in active, redeliver(m) PROVE Goal
  BY <1>1, <1>6 DEF redeliver, db, Executing
<1>7. ASSUME NEW m, forget(m) PROVE Goal
  <2>1. \A v \in Workers : exec'[v].job = exec[v].job /\ exec'[v].pc = exec[v].pc
    BY <1>0, <1>7 DEF forget, RunsOK, Runs
  <2> QED
    BY <1>1, <1>7, <2>1 DEF forget, db, Executing
<1>8. CASE UNCHANGED vars
  BY <1>1, <1>8 DEF vars, Executing
<1> QED
  BY <1>2, <1>3, <1>4, <1>5, <1>6, <1>7, <1>8 DEF Next, Faulty

(* A job that has ended, cancelled or not, stays as it ended once nobody   *)
(* executes it: only a run that was under way when the job ended can write *)
(* the row again, which is all there is to CancelledIsFinal's violation.   *)
THEOREM FinishedForGood ==
  ASSUME NEW j \in Jobs, NEW s
  PROVE  Spec => [](Finished(j) /\ status[j] = s => [](status[j] = s))
<1>1. TypeOK /\ (Finished(j) /\ status[j] = s) /\ [Next]_vars => (Finished(j) /\ status[j] = s)'
  BY FinishedNext
<1> QED
  BY <1>1, TypeCorrect, PTL DEF Spec

(* Without faults a run that executes a job finds it running or cancelled, *)
(* so a job that has succeeded or failed keeps that end, even one that     *)
(* somebody may still try to cancel.                                       *)
THEOREM EndIsFinal ==
  ASSUME MaxFaults = 0, NEW j \in Jobs, NEW s \in {"succeeded", "failed"}
  PROVE  Spec => [](status[j] = s => [](status[j] = s))
<1>1. TypeOK /\ Steady /\ status[j] = s /\ [Next]_vars => (status[j] = s)'
  <2> SUFFICES ASSUME TypeOK, Steady, status[j] = s, [Next]_vars PROVE status'[j] = s
    OBVIOUS
  <2>1. ASSUME NEW w \in Workers, Executing(w, j) PROVE FALSE
    <3>1. status[j] \in {"running", "cancelled"}
      BY <2>1 DEF Steady, RunFits, Executing
    <3> QED
      BY <3>1
  <2>2. Finished(j)
    BY <2>1 DEF Finished, Terminal
  <2> QED
    BY <2>2, FinishedNext
<1> QED
  BY <1>1, AlwaysSteady, TypeCorrect, PTL DEF Spec

(* The job has been created and no run has counted an attempt of it.       *)
Untried(j) == status[j] = "queued" /\ attempts[j] = 0

(* Nothing knows of a job that has not been created.                       *)
Unknown(j) ==
  status[j] = "absent" =>
    dispatch[j] = "none" /\ Outside(j) /\ \A m \in finished : m[1] # j

(* The first message of a job is not used up before an attempt is counted, *)
(* and no tick writes "enqueued" without it.                               *)
FirstKept(j) ==
  Untried(j) =>
    /\ <<j, 0>> \notin finished
    /\ \A w \in Workers : exec[w].job = j => ~Leaving(w)
    /\ dispatch[j] = "enqueued" \/ (\E p \in Pumps : pump[p].pc = "mark" /\ pump[p].job = j) =>
         <<j, 0>> \in Known

(* No step makes a job known but its creation.                             *)
LEMMA UnknownNext ==
  ASSUME TypeOK, [Next]_vars, NEW j \in Jobs, Unknown(j)
  PROVE  Unknown(j)'
<1>1. status'[j] = "absent" => status[j] = "absent"
  <2>0. status \in [Jobs -> Statuses]
    BY DEF TypeOK, RowsOK
  <2>1. ASSUME NEW i \in Jobs, Api(i) PROVE status'[j] = "absent" => status[j] = "absent"
    BY <2>0, <2>1 DEF Api, createSceneJob, cancelJob, leaseExpires
  <2>2. ASSUME NEW w \in Workers, WorkerStep(w)
        PROVE  status'[j] = "absent" => status[j] = "absent"
    BY <2>0, <2>2 DEF WorkerStep, load, markJobClaimed, markJobRunning, generate,
       submitSceneCandidate, markJobSucceeded, readAttempts, markJobFailed, reopenDispatch,
       settle, db, jobVars
  <2>3. (\E p \in Pumps : PumpStep(p)) \/ Faulty => UNCHANGED status
    BY DEF PumpStep, listPendingDispatches, readJob, enqueue, markDispatchEnqueued,
       recordDispatchFailure, Faulty, enqueueFails, pumpCrash, loseLock, statementFails,
       workerCrash, forget, db, jobVars
  <2>4. ASSUME NEW m, redeliver(m) \/ \E w \in Workers : take(w, m) PROVE UNCHANGED status
    BY <2>4 DEF redeliver, take, db
  <2> QED
    BY <2>1, <2>2, <2>3, <2>4 DEF Next, vars
<1> SUFFICES ASSUME status[j] = "absent", status'[j] = "absent" PROVE Unknown(j)'
  BY <1>1 DEF Unknown
<1>2. ~createSceneJob(j)
  BY DEF createSceneJob, TypeOK, RowsOK
<1> QED
  BY <1>2, OutsideNext DEF Unknown

(* Without faults no step loses the first message of a job.                *)
LEMMA FirstKeptNext ==
  ASSUME MaxFaults = 0, TypeOK, Steady, [Next]_vars, NEW j \in Jobs, Unknown(j), FirstKept(j)
  PROVE  FirstKept(j)'
<1> SUFFICES ASSUME Untried(j)' PROVE FirstKept(j)'
  BY DEF FirstKept
<1>0. RowsOK /\ TicksOK /\ RunsOK /\ ~Fault
  BY DEF TypeOK, Fault
<1>1. ASSUME Untried(j), Known \subseteq Known', <<j, 0>> \notin finished' \ finished,
             \A w \in Workers : exec'[w].job = j /\ Leaving(w)' => exec[w].job = j /\ Leaving(w),
             dispatch'[j] = "enqueued" => dispatch[j] = "enqueued" \/ <<j, 0>> \in Known',
             \A p \in Pumps : pump'[p].pc = "mark" /\ pump'[p].job = j =>
               (pump[p].pc = "mark" /\ pump[p].job = j) \/ <<j, 0>> \in Known'
      PROVE  FirstKept(j)'
  BY <1>1 DEF FirstKept
<1>2. CASE UNCHANGED vars
  BY <1>2 DEF vars, FirstKept, Untried, Known, Leaving
<1>3. ASSUME NEW i \in Jobs, Api(i) PROVE FirstKept(j)'
  <2>1. UNCHANGED <<attempts, broker, pump, exec>>
    BY <1>3 DEF Api, createSceneJob, cancelJob, leaseExpires
  <2>2. CASE createSceneJob(j)
    <3>1. Outside(j) /\ <<j, 0>> \notin finished
      BY <2>2 DEF createSceneJob, Unknown
    <3>2. dispatch'[j] = "pending"
      BY <1>0, <2>2 DEF createSceneJob, RowsOK
    <3> QED
      BY <2>1, <3>1, <3>2 DEF FirstKept, Outside, broker
  <2>3. CASE ~createSceneJob(j)
    <3>1. status'[j] = "queued" => status[j] = "queued" /\ dispatch'[j] = dispatch[j]
      BY <1>0, <1>3, <2>3 DEF Api, createSceneJob, cancelJob, leaseExpires, RowsOK
    <3> QED
      BY <1>1, <2>1, <3>1 DEF Untried, Known, Leaving, broker
  <2> QED
    BY <2>2, <2>3
<1>4. ASSUME NEW p \in Pumps, PumpStep(p) PROVE FirstKept(j)'
  <2>1. UNCHANGED <<status, attempts, active, finished, exec>> /\ waiting \subseteq waiting'
    BY <1>4 DEF PumpStep, listPendingDispatches, readJob, enqueue, markDispatchEnqueued,
       recordDispatchFailure, db, jobVars, broker, Add
  <2>2. Untried(j) /\ attempts[j] = 0
    BY <2>1 DEF Untried
  <2>3. pump \in [Pumps -> Ticks]
    BY <1>0 DEF TicksOK
  <2>4. ASSUME dispatch'[j] = "enqueued" PROVE dispatch[j] = "enqueued" \/ <<j, 0>> \in Known'
    <3>1. \/ dispatch'[j] = dispatch[j]
          \/ pump[p].pc = "mark" /\ pump[p].job = j
      BY <1>0, <1>4, <2>4 DEF PumpStep, listPendingDispatches, readJob, enqueue,
         markDispatchEnqueued, recordDispatchFailure, db, RowsOK
    <3> QED
      BY <2>1, <2>2, <2>4, <3>1 DEF FirstKept, Known
  <2>5. ASSUME NEW q \in Pumps, pump'[q].pc = "mark", pump'[q].job = j
        PROVE  (pump[q].pc = "mark" /\ pump[q].job = j) \/ <<j, 0>> \in Known'
    <3>1. \/ pump'[q] = pump[q]
          \/ q = p /\ enqueue(p) /\ pump[p].job = j
      <4>1. CASE Continue(p)
        BY <2>3, <2>5, <4>1 DEF Continue, Ticks, IdlePump
      <4>2. CASE enqueue(p)
        BY <2>3, <2>5, <4>2 DEF enqueue, Ticks
      <4>3. CASE listPendingDispatches(p) \/ readJob(p)
        BY <2>3, <2>5, <4>3 DEF listPendingDispatches, readJob, Ticks
      <4> QED
        BY <1>4, <4>1, <4>2, <4>3 DEF PumpStep, markDispatchEnqueued, recordDispatchFailure
    <3>2. ASSUME enqueue(p), pump[p].job = j PROVE <<j, 0>> \in Known'
      <4>1. pump[p].n \in Nat /\ pump[p].n <= 0
        BY <2>2, <2>3, <3>2 DEF enqueue, Steady, QueueSteady, NoneAhead, Ticks
      <4>2. Add(<<j, 0>>)
        BY <3>2, <4>1 DEF enqueue
      <4> QED
        BY <2>1, <4>2 DEF Add, Known
    <3> QED
      BY <2>5, <3>1, <3>2
  <2> QED
    BY <1>1, <2>1, <2>2, <2>4, <2>5 DEF Known, Leaving
<1>5. ASSUME NEW w \in Workers, WorkerStep(w) PROVE FirstKept(j)'
  <2>0. exec \in [Workers -> Runs]
    BY <1>0 DEF RunsOK
  <2>1. /\ UNCHANGED <<pump, waiting>>
        /\ Known \subseteq Known'
        /\ finished' = finished \/ (settle(w) /\ finished' = finished \cup {MessageOf(w)})
    <3>1. CASE settle(w)
      BY <3>1 DEF settle, Known
    <3>2. CASE ~settle(w)
      BY <1>5, <3>2, WorkerMoves DEF broker, Known
    <3> QED
      BY <3>1, <3>2
  <2>2. \A v \in Workers \ {w} : exec'[v] = exec[v]
    BY <1>5, <2>0 DEF WorkerStep, load, markJobClaimed, markJobRunning, generate,
       submitSceneCandidate, markJobSucceeded, readAttempts, markJobFailed, reopenDispatch,
       settle, Goto
  <2>3. dispatch'[j] = "enqueued" => dispatch[j] = "enqueued"
    BY <1>0, <1>5 DEF WorkerStep, load, markJobClaimed, markJobRunning, generate,
       submitSceneCandidate, markJobSucceeded, readAttempts, markJobFailed, reopenDispatch,
       settle, db, jobVars, RowsOK
  <2>4. CASE exec[w].job # j
    <3>1. Untried(j)
      BY <1>0, <1>5, <2>4 DEF WorkerStep, load, markJobClaimed, markJobRunning, generate,
         submitSceneCandidate, markJobSucceeded, readAttempts, markJobFailed, reopenDispatch,
         settle, db, jobVars, RowsOK, Untried
    <3>2. exec'[w].job # j
      BY <1>5, <2>0, <2>4, SceneAssumption DEF WorkerStep, load, markJobClaimed, markJobRunning,
         generate, submitSceneCandidate, markJobSucceeded, readAttempts, markJobFailed,
         reopenDispatch, settle, Goto, Runs, IdleExec
    <3> QED
      BY <1>1, <2>1, <2>2, <2>3, <2>4, <3>1, <3>2 DEF MessageOf, Leaving
  <2>5. CASE exec[w].job = j
    <3>1. RunFits(w) /\ attempts[j] \in Nat
      BY <1>0 DEF Steady, RowsOK
    <3>2. CASE load(w)
      <4>1. status'[j] = status[j] /\ UNCHANGED attempts
        BY <1>0, <2>5, <3>2, NothingToRecover DEF load, RowsOK
      <4>2. Untried(j) /\ exec'[w].pc = "claim"
        BY <2>0, <2>5, <3>2, <4>1 DEF Untried, load, Goto
      <4> QED
        BY <1>1, <2>1, <2>2, <2>3, <3>2, <4>2 DEF load, Leaving, settle
    <3>3. CASE markJobClaimed(w) \/ markJobRunning(w)
      BY <1>0, <2>5, <3>1, <3>3 DEF markJobClaimed, markJobRunning, RunFits, RowsOK, Untried
    <3>4. CASE generate(w) \/ submitSceneCandidate(w) \/ markJobSucceeded(w) \/ readAttempts(w)
      BY <1>0, <2>5, <3>1, <3>4 DEF generate, submitSceneCandidate, markJobSucceeded, readAttempts,
         RunFits, Executing, RowsOK, Untried, db, jobVars
    <3>5. CASE markJobFailed(w)
      BY <1>0, <2>5, <3>1, <3>5 DEF markJobFailed, RunFits, RowsOK, Untried
    <3>6. CASE reopenDispatch(w) \/ settle(w)
      BY <2>5, <3>6 DEF reopenDispatch, settle, Untried, db, jobVars, FirstKept, Leaving
    <3> QED
      BY <1>5, <3>2, <3>3, <3>4, <3>5, <3>6 DEF WorkerStep
  <2> QED
    BY <2>4, <2>5
<1>6. ASSUME NEW w \in Workers, NEW m \in waiting, take(w, m) PROVE FirstKept(j)'
  <2>1. exec'[w].pc = "load" /\ \A v \in Workers \ {w} : exec'[v] = exec[v]
    BY <1>0, <1>6 DEF take, RunsOK, Runs, IdleExec
  <2> QED
    BY <1>1, <1>6, <2>1 DEF take, db, Untried, Known, Leaving
<1>7. ASSUME NEW m \in active, redeliver(m) PROVE FALSE
  BY <1>7 DEF redeliver, Locked, Steady, QueueSteady, Locks
<1>8. ASSUME Faulty PROVE FALSE
  BY <1>0, <1>8 DEF Faulty, enqueueFails, pumpCrash, loseLock, statementFails, workerCrash, forget
<1> QED
  BY <1>2, <1>3, <1>4, <1>5, <1>6, <1>7, <1>8 DEF Next

(* Without faults only a retry can be lost, when a tick that is still at   *)
(* the earlier attempt marks the dispatch that the failed run reopened: a  *)
(* stranded job is queued and has a failed attempt behind it.              *)
LostOnlyByRetry ==
  \A j \in Jobs : Stranded(j) => status[j] = "queued" /\ attempts[j] > 0

(* The first message of a job always finds its run, and an active job has  *)
(* one; so only the dispatch of a retry is ever lost.                      *)
THEOREM FirstAttemptNotLost ==
  ASSUME MaxFaults = 0
  PROVE  Spec => []LostOnlyByRetry
<1> DEFINE Inv == \A j \in Jobs : Unknown(j) /\ FirstKept(j)
<1>1. Init => Inv
  BY SceneAssumption DEF Init, Unknown, Outside, FirstKept, Untried, IdlePump, IdleExec
<1>2. TypeOK /\ Steady /\ Inv /\ [Next]_vars => Inv'
  BY UnknownNext, FirstKeptNext
<1>3. TypeOK /\ Steady /\ Inv => LostOnlyByRetry
  <2> SUFFICES ASSUME TypeOK, Steady, Inv, NEW j \in Jobs, Stranded(j)
               PROVE  status[j] = "queued" /\ attempts[j] > 0
    BY DEF LostOnlyByRetry
  <2>1. status[j] = "queued"
    BY DEF Stranded, Steady, JobFits, InHand, Executing
  <2>2. ASSUME attempts[j] = 0 PROVE FALSE
    BY <2>1, <2>2 DEF FirstKept, Untried, Stranded, Known
  <2> QED
    BY <2>1, <2>2 DEF TypeOK, RowsOK
<1> HIDE DEF Inv
<1> QED
  BY <1>1, <1>2, <1>3, AlwaysSteady, TypeCorrect, PTL DEF Spec
=============================================================================
