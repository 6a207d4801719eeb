--------------------------- MODULE SceneGeneration ---------------------------
(***************************************************************************)
(* Scene generation of the V2 platform, from the API request to the        *)
(* pending candidate:                                                       *)
(*                                                                         *)
(*   - the API creates and cancels jobs (generation/plugin.ts);            *)
(*   - SQLite holds the job and its dispatch (outbox) row                  *)
(*     (database/src/v2/generation/repository.ts);                         *)
(*   - the dispatch pump copies pending dispatches to BullMQ               *)
(*     (worker/src/v2/generation-dispatch-pump.ts);                        *)
(*   - BullMQ delivers messages, and delivers them again when the lock of  *)
(*     their consumer is lost (external, modelled from queue.ts);          *)
(*   - a worker runs processV2SceneGenerationJob                           *)
(*     (worker/src/v2/scene-generation-worker.ts) and submits a candidate  *)
(*     (V2SqliteCandidateSubmissionPort, core/canon-repository.ts).        *)
(*                                                                         *)
(* One step is one autocommitted SQL statement, one SQLite transaction,    *)
(* one Redis command or one provider call: API and workers are separate    *)
(* processes on one SQLite file, so any two of these may interleave.       *)
(***************************************************************************)
EXTENDS Naturals, FiniteSets

CONSTANTS
  Jobs,         \* scene jobs (one per idempotency key)
  NoJob,        \* "no job"
  Cancellable,  \* the jobs somebody may cancel
  Pumps,        \* ticks of the pump that can be in progress at one time
  Workers,      \* concurrent runs of the job processor
  MaxAttempts,  \* maxAttempts of every job
  MaxFaults     \* bound on crashes, lost locks, Redis and SQLite errors

ASSUME SceneAssumption ==
  /\ NoJob \notin Jobs
  /\ Cancellable \subseteq Jobs
  /\ MaxAttempts \in Nat \ {0}
  /\ MaxFaults \in Nat

VARIABLES
  status,       \* v2_generation_jobs.status, "absent" before the insert
  attempts,     \* v2_generation_jobs.attempts
  lease,        \* lease_expires_at: "none" (NULL), "live" or "expired"
  dispatch,     \* v2_generation_dispatches.status
  candidates,   \* scene candidates inserted for the job
  waiting,      \* BullMQ: messages waiting for a consumer
  active,       \* BullMQ: messages handed to a consumer
  finished,     \* BullMQ: completed or failed messages it still remembers
  stalled,      \* BullMQ: messages redelivered once (maxStalledCount = 1)
  pump,         \* ticks of the pump
  exec,         \* runs of processV2SceneGenerationJob
  faults        \* faults so far

jobVars == <<status, attempts, lease>>
db      == <<status, attempts, lease, dispatch, candidates>>
broker  == <<waiting, active, finished, stalled>>
vars    == <<status, attempts, lease, dispatch, candidates,
             waiting, active, finished, stalled, pump, exec, faults>>

Statuses == {"absent", "queued", "claimed", "running",
             "succeeded", "failed", "cancelled"}

Terminal(s) == s \in {"succeeded", "failed", "cancelled"}

(* A message is named `${dispatchId}:attempt:${job.attempts}`.             *)
Messages == Jobs \X Nat

IdlePump == [pc |-> "idle", todo |-> {}, job |-> NoJob, n |-> 0]

(* held: the run still owns the BullMQ lock of its message.  seen: the     *)
(* attempts markJobFailed has read.  retryable: of the error it handles.   *)
IdleExec == [pc |-> "idle", job |-> NoJob, n |-> 0, held |-> FALSE,
             seen |-> 0, retryable |-> FALSE]

PumpLabels == {"idle", "next", "enqueue", "mark", "record"}
ExecLabels == {"idle", "load", "claim", "run", "generate", "submit", "succeed",
               "failRead", "failWrite", "failDispatch", "ack"}

Ticks == [pc : PumpLabels, todo : SUBSET Jobs, job : Jobs \cup {NoJob}, n : Nat]

Runs == [pc : ExecLabels, job : Jobs \cup {NoJob}, n : Nat,
         held : BOOLEAN, seen : Nat, retryable : BOOLEAN]

Init ==
  /\ status = [j \in Jobs |-> "absent"]
  /\ attempts = [j \in Jobs |-> 0]
  /\ lease = [j \in Jobs |-> "none"]
  /\ dispatch = [j \in Jobs |-> "none"]
  /\ candidates = [j \in Jobs |-> 0]
  /\ waiting = {} /\ active = {} /\ finished = {} /\ stalled = {}
  /\ pump = [p \in Pumps |-> IdlePump]
  /\ exec = [w \in Workers |-> IdleExec]
  /\ faults = 0

Fault == faults < MaxFaults /\ faults' = faults + 1

-----------------------------------------------------------------------------
(* The API.                                                                *)

(* createSceneJob inserts the job and its dispatch in one transaction; a   *)
(* request repeated under the same key returns the stored row.             *)
createSceneJob(j) ==
  /\ status[j] = "absent"
  /\ status' = [status EXCEPT ![j] = "queued"]
  /\ dispatch' = [dispatch EXCEPT ![j] = "pending"]
  /\ UNCHANGED <<attempts, lease, candidates, broker, pump, exec, faults>>

(* cancelJob leaves the lease columns and the dispatch as they are.        *)
cancelJob(j) ==
  /\ j \in Cancellable
  /\ status[j] \in {"queued", "claimed", "running"}
  /\ status' = [status EXCEPT ![j] = "cancelled"]
  /\ UNCHANGED <<attempts, lease, dispatch, candidates, broker, pump, exec, faults>>

(* The clock passes lease_expires_at.                                      *)
leaseExpires(j) ==
  /\ status[j] \in {"claimed", "running"}
  /\ lease[j] = "live"
  /\ lease' = [lease EXCEPT ![j] = "expired"]
  /\ UNCHANGED <<status, attempts, dispatch, candidates, broker, pump, exec, faults>>

-----------------------------------------------------------------------------
(* The dispatch pump.  setInterval starts a tick whether or not the last   *)
(* one has ended, so ticks overlap, and each works through the list it     *)
(* read when it began.                                                     *)

(* After one dispatch the tick goes on to the next, or ends.               *)
Continue(p) ==
  pump' = [pump EXCEPT ![p] =
             IF @.todo = {} THEN IdlePump
             ELSE [@ EXCEPT !.pc = "next", !.job = NoJob, !.n = 0]]

listPendingDispatches(p) ==
  LET pending == {j \in Jobs : dispatch[j] = "pending"} IN
  /\ pump[p].pc = "idle"
  /\ pending # {}
  /\ pump' = [pump EXCEPT ![p].pc = "next", ![p].todo = pending]
  /\ UNCHANGED <<db, broker, exec, faults>>

(* getJob: the attempts read here name the message.                        *)
readJob(p) ==
  /\ pump[p].pc = "next"
  /\ \E j \in pump[p].todo :
       pump' = [pump EXCEPT ![p] = [pc |-> "enqueue", todo |-> @.todo \ {j},
                                    job |-> j, n |-> attempts[j]]]
  /\ UNCHANGED <<db, broker, exec, faults>>

(* Mutant: the message is added without its jobId.                         *)
AddUnnamed(m) == waiting' = waiting \cup {m}

(* queue.add ignores an id BullMQ still knows.                             *)
Add(m) ==
  waiting' = IF m \in waiting \cup active \cup finished
             THEN waiting ELSE waiting \cup {m}

enqueue(p) ==
  /\ pump[p].pc = "enqueue"
  /\ Add(<<pump[p].job, pump[p].n>>)
  /\ pump' = [pump EXCEPT ![p].pc = "mark"]
  /\ UNCHANGED <<db, active, finished, stalled, exec, faults>>

(* Redis fails, before or after it has stored the message, or SQLite fails *)
(* in markDispatchEnqueued: both end in the catch block.                   *)
enqueueFails(p) ==
  /\ Fault
  /\ pump[p].pc \in {"enqueue", "mark"}
  /\ \/ UNCHANGED waiting
     \/ pump[p].pc = "enqueue" /\ Add(<<pump[p].job, pump[p].n>>)
  /\ pump' = [pump EXCEPT ![p].pc = "record"]
  /\ UNCHANGED <<db, active, finished, stalled, exec>>

(* Mutant: the update of the dispatch is lost.                             *)
markDispatchEnqueuedLost(p) ==
  /\ pump[p].pc = "mark"
  /\ Continue(p)
  /\ UNCHANGED <<db, broker, exec, faults>>

(* markDispatchEnqueued is an UPDATE by dispatch id alone.                 *)
markDispatchEnqueued(p) ==
  /\ pump[p].pc = "mark"
  /\ dispatch' = [dispatch EXCEPT ![pump[p].job] = "enqueued"]
  /\ Continue(p)
  /\ UNCHANGED <<jobVars, candidates, broker, exec, faults>>

recordDispatchFailure(p) ==
  /\ pump[p].pc = "record"
  /\ dispatch' = [dispatch EXCEPT ![pump[p].job] = "pending"]
  /\ Continue(p)
  /\ UNCHANGED <<jobVars, candidates, broker, exec, faults>>

(* A crash of the pump's process, or an error in recordDispatchFailure.    *)
pumpCrash(p) ==
  /\ Fault
  /\ pump[p].pc # "idle"
  /\ pump' = [pump EXCEPT ![p] = IdlePump]
  /\ UNCHANGED <<db, broker, exec>>

-----------------------------------------------------------------------------
(* BullMQ.                                                                 *)

MessageOf(w) == <<exec[w].job, exec[w].n>>

take(w, m) ==
  /\ exec[w].pc = "idle"
  /\ m \in waiting
  /\ waiting' = waiting \ {m}
  /\ active' = active \cup {m}
  /\ exec' = [exec EXCEPT ![w] = [IdleExec EXCEPT !.pc = "load", !.job = m[1],
                                                  !.n = m[2], !.held = TRUE]]
  /\ UNCHANGED <<db, finished, stalled, pump, faults>>

Locked(m) == \E w \in Workers : exec[w].held /\ MessageOf(w) = m

(* The stalled check: a message whose lock has gone is delivered once more *)
(* and then given up.                                                      *)
redeliver(m) ==
  /\ m \in active
  /\ ~Locked(m)
  /\ active' = active \ {m}
  /\ IF m \in stalled
     THEN finished' = finished \cup {m} /\ UNCHANGED <<waiting, stalled>>
     ELSE /\ waiting' = waiting \cup {m}
          /\ stalled' = stalled \cup {m}
          /\ UNCHANGED finished
  /\ UNCHANGED <<db, pump, exec, faults>>

(* The lock is not renewed in time (Redis out of reach, a blocked event    *)
(* loop) while its holder goes on running.                                 *)
loseLock(w) ==
  /\ Fault
  /\ exec[w].held
  /\ exec' = [exec EXCEPT ![w].held = FALSE]
  /\ UNCHANGED <<db, broker, pump>>

(* Redis forgets a message: removeOnComplete trims the completed ones, a   *)
(* lost Redis volume loses any of them.                                    *)
forget(m) ==
  /\ Fault
  /\ m \in waiting \cup active \cup finished
  /\ waiting' = waiting \ {m}
  /\ active' = active \ {m}
  /\ finished' = finished \ {m}
  /\ stalled' = stalled \ {m}
  /\ exec' = [w \in Workers |->
                IF MessageOf(w) = m THEN [exec[w] EXCEPT !.held = FALSE]
                                    ELSE exec[w]]
  /\ UNCHANGED <<db, pump>>

(* The processor has returned or thrown: the holder of the lock settles    *)
(* the message, which with attempts: 1 is not tried again.                 *)
settle(w) ==
  /\ exec[w].pc = "ack"
  /\ exec' = [exec EXCEPT ![w] = IdleExec]
  /\ IF exec[w].held
     THEN /\ active' = active \ {MessageOf(w)}
          /\ finished' = finished \cup {MessageOf(w)}
     ELSE UNCHANGED <<active, finished>>
  /\ UNCHANGED <<db, waiting, stalled, pump, faults>>

-----------------------------------------------------------------------------
(* processV2SceneGenerationJob.                                            *)

Goto(w, label) == exec' = [exec EXCEPT ![w].pc = label]

(* getJob and recoverExpiredJobLease, whose UPDATE tests status and lease  *)
(* again; then terminal and active jobs are skipped.                       *)
load(w) ==
  LET j       == exec[w].job
      expired == status[j] \in {"claimed", "running"} /\ lease[j] = "expired"
      now     == IF expired THEN "queued" ELSE status[j]
  IN
  /\ exec[w].pc = "load"
  /\ status' = [status EXCEPT ![j] = now]
  /\ lease' = [lease EXCEPT ![j] = IF expired THEN "none" ELSE @]
  /\ Goto(w, IF now = "queued" THEN "claim" ELSE "ack")
  /\ UNCHANGED <<attempts, dispatch, candidates, broker, pump, faults>>

(* The UPDATE claims a queued job.  The worker then reads the row and goes *)
(* on if it is claimed, by whomever.                                       *)
markJobClaimed(w) ==
  LET j   == exec[w].job
      now == IF status[j] = "queued" THEN "claimed" ELSE status[j]
  IN
  /\ exec[w].pc = "claim"
  /\ status' = [status EXCEPT ![j] = now]
  /\ lease' = [lease EXCEPT ![j] = IF status[j] = "queued" THEN "live" ELSE @]
  /\ Goto(w, IF now = "claimed" THEN "run" ELSE "ack")
  /\ UNCHANGED <<attempts, dispatch, candidates, broker, pump, faults>>

markJobRunning(w) ==
  LET j   == exec[w].job
      now == IF status[j] = "claimed" THEN "running" ELSE status[j]
  IN
  /\ exec[w].pc = "run"
  /\ status' = [status EXCEPT ![j] = now]
  /\ Goto(w, IF now = "running" THEN "generate" ELSE "ack")
  /\ UNCHANGED <<attempts, lease, dispatch, candidates, broker, pump, faults>>

(* Mutant: provider errors escape the try block.                           *)
generateUncaught(w) ==
  /\ exec[w].pc = "generate"
  /\ \E label \in {"submit", "ack"} : Goto(w, label)
  /\ UNCHANGED <<db, broker, pump, faults>>

(* The model answers with a scene that parses, or the call or the parser   *)
(* throws; only provider errors are ever retryable.                        *)
generate(w) ==
  /\ exec[w].pc = "generate"
  /\ \/ Goto(w, "submit")
     \/ \E r \in BOOLEAN :
          exec' = [exec EXCEPT ![w].pc = "failRead", ![w].retryable = r]
  /\ UNCHANGED <<db, broker, pump, faults>>

(* Mutant: the stored submission is not looked up.                         *)
submitSceneCandidateUnkeyed(w) ==
  /\ exec[w].pc = "submit"
  /\ candidates' = [candidates EXCEPT ![exec[w].job] = @ + 1]
  /\ Goto(w, "succeed")
  /\ UNCHANGED <<jobVars, dispatch, broker, pump, faults>>

(* Mutant: a refused submission is taken for a stored one.                 *)
submitSceneCandidateUnchecked(w) ==
  /\ exec[w].pc = "submit"
  /\ \E n \in {0, 1} : candidates' = [candidates EXCEPT ![exec[w].job] = n]
  /\ Goto(w, "succeed")
  /\ UNCHANGED <<jobVars, dispatch, broker, pump, faults>>

(* Mutant: without a transaction the insert outlives the refusal.          *)
submitSceneCandidateTorn(w) ==
  /\ exec[w].pc = "submit"
  /\ candidates' = [candidates EXCEPT ![exec[w].job] = 1]
  /\ \/ Goto(w, "succeed")
     \/ exec' = [exec EXCEPT ![w].pc = "failRead", ![w].retryable = FALSE]
  /\ UNCHANGED <<jobVars, dispatch, broker, pump, faults>>

(* One transaction.  The submission key is the job's, so a second          *)
(* submission inserts nothing: it is replayed when its payload, createdAt  *)
(* included, is the stored one, and is refused otherwise.  A first one is  *)
(* refused when the world has moved on.  No refusal is retryable.          *)
submitSceneCandidate(w) ==
  LET j == exec[w].job IN
  /\ exec[w].pc = "submit"
  /\ \/ /\ candidates[j] = 0
        /\ candidates' = [candidates EXCEPT ![j] = @ + 1]
        /\ Goto(w, "succeed")
     \/ /\ candidates[j] # 0
        /\ Goto(w, "succeed")
        /\ UNCHANGED candidates
     \/ /\ exec' = [exec EXCEPT ![w].pc = "failRead", ![w].retryable = FALSE]
        /\ UNCHANGED candidates
  /\ UNCHANGED <<jobVars, dispatch, broker, pump, faults>>

markJobSucceeded(w) ==
  LET j == exec[w].job IN
  /\ exec[w].pc = "succeed"
  /\ status' = [status EXCEPT ![j] = IF @ = "running" THEN "succeeded" ELSE @]
  /\ Goto(w, "ack")
  /\ UNCHANGED <<attempts, lease, dispatch, candidates, broker, pump, faults>>

(* markJobFailed is a SELECT and one or two UPDATEs outside a transaction, *)
(* and the UPDATE of the job has no condition on its status.               *)
readAttempts(w) ==
  /\ exec[w].pc = "failRead"
  /\ exec' = [exec EXCEPT ![w].pc = "failWrite", ![w].seen = attempts[exec[w].job]]
  /\ UNCHANGED <<db, broker, pump, faults>>

(* Mutant: the attempt that reaches maxAttempts is retried as well.        *)
markJobFailedInclusive(w) ==
  LET j     == exec[w].job
      n     == exec[w].seen + 1
      retry == exec[w].retryable /\ n <= MaxAttempts
  IN
  /\ exec[w].pc = "failWrite"
  /\ status' = [status EXCEPT ![j] = IF retry THEN "queued" ELSE "failed"]
  /\ attempts' = [attempts EXCEPT ![j] = n]
  /\ lease' = [lease EXCEPT ![j] = "none"]
  /\ Goto(w, IF retry THEN "failDispatch" ELSE "ack")
  /\ UNCHANGED <<dispatch, candidates, broker, pump, faults>>

markJobFailed(w) ==
  LET j     == exec[w].job
      n     == exec[w].seen + 1
      retry == exec[w].retryable /\ n < MaxAttempts
  IN
  /\ exec[w].pc = "failWrite"
  /\ status' = [status EXCEPT ![j] = IF retry THEN "queued" ELSE "failed"]
  /\ attempts' = [attempts EXCEPT ![j] = n]
  /\ lease' = [lease EXCEPT ![j] = "none"]
  /\ Goto(w, IF retry THEN "failDispatch" ELSE "ack")
  /\ UNCHANGED <<dispatch, candidates, broker, pump, faults>>

(* Mutant: the dispatch is given the status of the job.                    *)
reopenDispatchQueued(w) ==
  /\ exec[w].pc = "failDispatch"
  /\ dispatch' = [dispatch EXCEPT ![exec[w].job] = "queued"]
  /\ Goto(w, "ack")
  /\ UNCHANGED <<jobVars, candidates, broker, pump, faults>>

reopenDispatch(w) ==
  /\ exec[w].pc = "failDispatch"
  /\ dispatch' = [dispatch EXCEPT ![exec[w].job] = "pending"]
  /\ Goto(w, "ack")
  /\ UNCHANGED <<jobVars, candidates, broker, pump, faults>>

(* A statement throws (SQLITE_BUSY after five seconds).  Inside the try    *)
(* block that is one more failed attempt; outside it the processor rejects *)
(* and the message is settled as failed.                                   *)
statementFails(w) ==
  /\ Fault
  /\ \/ /\ exec[w].pc \in {"load", "claim", "run",
                           "failRead", "failWrite", "failDispatch"}
        /\ Goto(w, "ack")
     \/ /\ exec[w].pc = "succeed"
        /\ exec' = [exec EXCEPT ![w].pc = "failRead", ![w].retryable = FALSE]
  /\ UNCHANGED <<db, broker, pump>>

(* The worker's process dies; its lock will expire.                        *)
workerCrash(w) ==
  /\ Fault
  /\ exec[w].pc # "idle"
  /\ exec' = [exec EXCEPT ![w] = IdleExec]
  /\ UNCHANGED <<db, broker, pump>>

-----------------------------------------------------------------------------
Api(j) == createSceneJob(j) \/ cancelJob(j) \/ leaseExpires(j)

PumpStep(p) ==
  \/ listPendingDispatches(p) \/ readJob(p) \/ enqueue(p)
  \/ markDispatchEnqueued(p) \/ recordDispatchFailure(p)

WorkerStep(w) ==
  \/ load(w) \/ markJobClaimed(w) \/ markJobRunning(w) \/ generate(w)
  \/ submitSceneCandidate(w) \/ markJobSucceeded(w)
  \/ readAttempts(w) \/ markJobFailed(w) \/ reopenDispatch(w)
  \/ settle(w)

Faulty ==
  \/ \E p \in Pumps : enqueueFails(p) \/ pumpCrash(p)
  \/ \E w \in Workers : loseLock(w) \/ statementFails(w) \/ workerCrash(w)
  \/ \E m \in waiting \cup active \cup finished : forget(m)

Next ==
  \/ \E j \in Jobs : Api(j)
  \/ \E p \in Pumps : PumpStep(p)
  \/ \E w \in Workers : WorkerStep(w)
  \/ \E w \in Workers : \E m \in waiting : take(w, m)
  \/ \E m \in active : redeliver(m)
  \/ Faulty

Spec == Init /\ [][Next]_vars

(* The processes keep running: the interval timer keeps starting ticks, a  *)
(* tick and a worker carry on with their next statement (a provider call   *)
(* ends by its timeout), BullMQ hands waiting messages to idle consumers   *)
(* and repeats its stalled check, and time passes.                         *)
Fairness ==
  /\ \A p \in Pumps : WF_vars(PumpStep(p))
  /\ \A w \in Workers : WF_vars(WorkerStep(w))
  /\ WF_vars(\E w \in Workers : \E m \in waiting : take(w, m))
  /\ WF_vars(\E m \in active : redeliver(m))
  /\ \A j \in Jobs : WF_vars(leaseExpires(j))

FairSpec == Spec /\ Fairness

-----------------------------------------------------------------------------
(* Properties.                                                             *)

(* The rows, the queue and the processes keep their shape; in particular   *)
(* the dispatch knows no status but the outbox's own.                      *)
RowsOK ==
  /\ status \in [Jobs -> Statuses]
  /\ attempts \in [Jobs -> Nat]
  /\ lease \in [Jobs -> {"none", "live", "expired"}]
  /\ dispatch \in [Jobs -> {"none", "pending", "enqueued"}]
  /\ candidates \in [Jobs -> Nat]

QueueOK ==
  /\ waiting \subseteq Messages
  /\ active \subseteq Messages
  /\ finished \subseteq Messages
  /\ stalled \subseteq Messages

TicksOK ==
  /\ pump \in [Pumps -> Ticks]
  /\ \A p \in Pumps : pump[p].pc \in {"enqueue", "mark", "record"} => pump[p].job # NoJob

RunsOK ==
  /\ exec \in [Workers -> Runs]
  /\ \A w \in Workers : exec[w].pc # "idle" <=> exec[w].job # NoJob

TypeOK == RowsOK /\ QueueOK /\ TicksOK /\ RunsOK /\ faults \in 0..MaxFaults

(* A job that can still run has an attempt left, whatever late and         *)
(* repeated failures wrote in the meantime: markJobFailed decides on a     *)
(* value it read earlier, and nothing else bounds the retries.             *)
AttemptsLeft ==
  \A j \in Jobs : status[j] \in {"queued", "claimed", "running"} => attempts[j] < MaxAttempts

(* Whatever is delivered twice, recovered or raced, a job has one          *)
(* candidate at most: the submission key stands for the job.               *)
AtMostOneCandidate ==
  \A j \in Jobs : candidates[j] <= 1

(* A job is reported as succeeded only when its candidate is stored.       *)
SucceededHasCandidate ==
  \A j \in Jobs : status[j] = "succeeded" => candidates[j] > 0

(* A job in a worker's hands carries a lease, so that recoverExpiredJobLease *)
(* can find it (its UPDATE ignores a row whose lease is NULL), even when a *)
(* late failure of another run has just cleared the columns.               *)
ActiveHasLease ==
  \A j \in Jobs : status[j] \in {"claimed", "running"} => lease[j] # "none"

(* The run is between markJobRunning and the end of markJobFailed or       *)
(* markJobSucceeded.                                                       *)
Executing(w, j) ==
  /\ exec[w].job = j
  /\ exec[w].pc \in {"generate", "submit", "succeed", "failRead", "failWrite"}

(* No two workers run one job at a time.                                   *)
ExclusiveExecution ==
  \A j \in Jobs : \A v, w \in Workers : Executing(v, j) /\ Executing(w, j) => v = w

(* A claimed or running job is in some worker's hands.                     *)
ActiveHasWorker ==
  \A j \in Jobs : status[j] \in {"claimed", "running"} =>
    \E w \in Workers : Executing(w, j) \/ (exec[w].job = j /\ exec[w].pc = "run")

(* Once its candidate waits for review a job never ends as failed.         *)
SubmittedNeverFails ==
  \A j \in Jobs : candidates[j] > 0 => status[j] # "failed"

(* A cancelled job stays cancelled.                                        *)
CancelledIsFinal ==
  [][\A j \in Jobs : status[j] = "cancelled" => status'[j] = "cancelled"]_vars

(* Nothing is left that could bring the job on: it is not finished, no     *)
(* message stands for it, its dispatch is not pending, nobody works on it. *)
Stranded(j) ==
  /\ status[j] \in {"queued", "claimed", "running"}
  /\ dispatch[j] = "enqueued"
  /\ \A m \in waiting \cup active : m[1] # j
  /\ \A w \in Workers : exec[w].job # j
  /\ \A p \in Pumps : pump[p].job # j /\ j \notin pump[p].todo

(* Retries, redeliveries and recoveries come to an end: from some moment   *)
(* on every job is finished for good or stranded.                          *)
ComesToRest ==
  <>[](\A j \in Jobs : status[j] = "absent" \/ Terminal(status[j]) \/ Stranded(j))

(* A job whose lease has run out is taken out of the hands of the worker   *)
(* that held it: finished, or back in the queue.                           *)
ExpiredLeaseRecovered ==
  \A j \in Jobs : status[j] \in {"claimed", "running"} /\ lease[j] = "expired"
                  ~> status[j] \notin {"claimed", "running"}

(* Every job ends.                                                         *)
EveryJobEnds ==
  \A j \in Jobs : status[j] = "queued" ~> Terminal(status[j])

(* The jobs nobody cancels live by the domain's transition table and retry *)
(* rule.                                                                   *)
Kept == Jobs \ Cancellable

Lifecycle == INSTANCE JobLifecycle WITH
  Jobs <- Kept,
  status <- [j \in Kept |-> status[j]],
  attempts <- [j \in Kept |-> attempts[j]]

FollowsLifecycle == Lifecycle!Spec
=============================================================================
