-------------------------- MODULE MaintenanceQueue --------------------------
(***************************************************************************)
(* The table of maintenance jobs in SQLite                                 *)
(* (V2SqliteChatMaintenanceJobRepository, database/src/v2/chat) and the    *)
(* pumps that work it off (worker/src/v2/maintenance-dispatch-pump.ts).    *)
(* There is no broker: a pump claims a job by a lease of 30 seconds and    *)
(* renews it every 10 while the job's handler runs.  One pump runs one job *)
(* at a time; several pumps are several worker processes.                  *)
(*                                                                         *)
(* The handlers are left open: a handler ends at any time, well or badly.  *)
(* ChatMaintenance fills them in.  Every action is one transaction.        *)
(* available_at only delays a claim, which any behaviour may do, so it is  *)
(* left out together with the order by which claimNext picks.              *)
(***************************************************************************)
EXTENDS Naturals

CONSTANTS
  Jobs,         \* job ids
  NoJob,        \* "no job"
  Pumps,        \* worker processes, each with one pump
  Nobody,       \* claimed_by IS NULL
  Gone,         \* the workerId of a process that has died
  MaxAttempts,  \* max_attempts of a new job
  MaxRetries,   \* bound on retries by the operator
  MaxFaults     \* bound on crashes and failing statements

ASSUME QueueAssumption ==
  /\ NoJob \notin Jobs
  /\ Nobody \notin Pumps /\ Gone \notin Pumps /\ Nobody # Gone
  /\ MaxAttempts \in Nat \ {0}
  /\ MaxRetries \in Nat
  /\ MaxFaults \in Nat

VARIABLES
  status,       \* v2_chat_maintenance_jobs.status, "absent" before the insert
  attempts,     \* attempts
  limit,        \* max_attempts
  owner,        \* claimed_by
  lease,        \* lease_expires_at: "none" (NULL), "live" or "expired"
  run,          \* the pumps: what executeJob is doing, for which claim
  retries,      \* retries by the operator so far
  faults        \* faults so far

rows      == <<status, attempts, limit, owner, lease>>
queueVars == <<status, attempts, limit, owner, lease, run, retries, faults>>

Statuses == {"absent", "pending", "claimed", "completed", "failed"}

(* n and max: attempts and max_attempts of the row as it was claimed.      *)
Idle == [pc |-> "idle", job |-> NoJob, n |-> 0, max |-> 0]

QueueInit ==
  /\ status = [j \in Jobs |-> "absent"]
  /\ attempts = [j \in Jobs |-> 0]
  /\ limit = [j \in Jobs |-> MaxAttempts]
  /\ owner = [j \in Jobs |-> Nobody]
  /\ lease = [j \in Jobs |-> "none"]
  /\ run = [p \in Pumps |-> Idle]
  /\ retries = 0
  /\ faults = 0

Fault == faults < MaxFaults /\ faults' = faults + 1

-----------------------------------------------------------------------------
(* The table.                                                              *)

enqueue(S) ==
  /\ \A j \in S : status[j] = "absent"
  /\ status' = [j \in Jobs |-> IF j \in S THEN "pending" ELSE status[j]]
  /\ UNCHANGED <<attempts, limit, owner, lease, run, retries, faults>>

(* POST /jobs/:jobId/retry.                                                *)
retryFailed(j) ==
  /\ retries < MaxRetries
  /\ retries' = retries + 1
  /\ status[j] = "failed"
  /\ status' = [status EXCEPT ![j] = "pending"]
  /\ limit' = [limit EXCEPT ![j] = IF @ <= attempts[j] THEN attempts[j] + 1 ELSE @]
  /\ owner' = [owner EXCEPT ![j] = Nobody]
  /\ lease' = [lease EXCEPT ![j] = "none"]
  /\ UNCHANGED <<attempts, run, faults>>

(* The clock passes lease_expires_at: the owner is dead or too slow.       *)
leaseExpires(j) ==
  /\ status[j] = "claimed"
  /\ lease[j] = "live"
  /\ lease' = [lease EXCEPT ![j] = "expired"]
  /\ UNCHANGED <<status, attempts, limit, owner, run, retries, faults>>

(* Mutant: expired leases are not taken over.                              *)
ClaimablePending(j) == status[j] = "pending" /\ attempts[j] < limit[j]

Claimable(j) ==
  /\ status[j] = "pending" \/ (status[j] = "claimed" /\ lease[j] = "expired")
  /\ attempts[j] < limit[j]

(* isLeaseOwner for the job at hand: the fence before a handler's writes.  *)
LeaseOwner(p) ==
  LET j == run[p].job IN
  owner[j] = p /\ status[j] = "claimed" /\ lease[j] = "live"

(* Mutant: claimed_by is not compared.                                     *)
HoldsAnybody(p) == status[run[p].job] = "claimed"

(* The condition of renewLease, markCompleted and markFailed, which leave  *)
(* the expiry of the lease aside.                                          *)
Holds(p) ==
  LET j == run[p].job IN owner[j] = p /\ status[j] = "claimed"

-----------------------------------------------------------------------------
(* The pump.                                                               *)

claimNext(p) ==
  /\ run[p].pc = "idle"
  /\ \E j \in Jobs :
       /\ Claimable(j)
       /\ status' = [status EXCEPT ![j] = "claimed"]
       /\ attempts' = [attempts EXCEPT ![j] = @ + 1]
       /\ owner' = [owner EXCEPT ![j] = p]
       /\ lease' = [lease EXCEPT ![j] = "live"]
       /\ run' = [run EXCEPT ![p] = [pc |-> "handle", job |-> j,
                                     n |-> attempts[j] + 1, max |-> limit[j]]]
  /\ UNCHANGED <<limit, retries, faults>>

(* The heartbeat.  It revives a lease that has expired as long as nobody   *)
(* has taken it over.                                                      *)
renewLease(p) ==
  /\ run[p].job # NoJob
  /\ Holds(p)
  /\ lease[run[p].job] = "expired"
  /\ lease' = [lease EXCEPT ![run[p].job] = "live"]
  /\ UNCHANGED <<status, attempts, limit, owner, run, retries, faults>>

(* The handler returns, or throws.                                         *)
HandlerEnds(p, label) ==
  /\ run[p].pc = "handle"
  /\ run' = [run EXCEPT ![p].pc = label]
  /\ UNCHANGED <<rows, retries, faults>>

markCompleted(p) ==
  LET j == run[p].job IN
  /\ run[p].pc = "complete"
  /\ status' = [status EXCEPT ![j] = IF Holds(p) THEN "completed" ELSE @]
  /\ lease' = [lease EXCEPT ![j] = IF Holds(p) THEN "none" ELSE @]
  /\ run' = [run EXCEPT ![p] = Idle]
  /\ UNCHANGED <<attempts, limit, owner, retries, faults>>

isTerminal(p) == run[p].n >= run[p].max

(* Mutant: the job is updated by its id alone.                             *)
markFailedUnguarded(p) ==
  LET j == run[p].job IN
  /\ run[p].pc = "fail"
  /\ status' = [status EXCEPT ![j] = IF isTerminal(p) THEN "failed" ELSE "pending"]
  /\ owner' = [owner EXCEPT ![j] = Nobody]
  /\ lease' = [lease EXCEPT ![j] = "none"]
  /\ run' = [run EXCEPT ![p] = Idle]
  /\ UNCHANGED <<attempts, limit, retries, faults>>

(* Mutant: the last attempt is given one more.                             *)
markFailedAlways(p) ==
  LET j == run[p].job IN
  /\ run[p].pc = "fail"
  /\ IF Holds(p)
     THEN /\ status' = [status EXCEPT ![j] = "pending"]
          /\ owner' = [owner EXCEPT ![j] = Nobody]
          /\ lease' = [lease EXCEPT ![j] = "none"]
     ELSE UNCHANGED <<status, owner, lease>>
  /\ run' = [run EXCEPT ![p] = Idle]
  /\ UNCHANGED <<attempts, limit, retries, faults>>

markFailed(p) ==
  LET j == run[p].job IN
  /\ run[p].pc = "fail"
  /\ IF Holds(p)
     THEN /\ status' = [status EXCEPT ![j] = IF isTerminal(p) THEN "failed" ELSE "pending"]
          /\ owner' = [owner EXCEPT ![j] = Nobody]
          /\ lease' = [lease EXCEPT ![j] = "none"]
     ELSE UNCHANGED <<status, owner, lease>>
  /\ run' = [run EXCEPT ![p] = Idle]
  /\ UNCHANGED <<attempts, limit, retries, faults>>

(* SQLITE_BUSY after five seconds: markCompleted throws into the catch     *)
(* block, markFailed throws out of executeJob and the tick ends.           *)
statementFails(p) ==
  /\ Fault
  /\ \/ /\ run[p].pc = "complete"
        /\ run' = [run EXCEPT ![p].pc = "fail"]
     \/ /\ run[p].pc = "fail"
        /\ run' = [run EXCEPT ![p] = Idle]
  /\ UNCHANGED <<rows, retries>>

(* The process dies.  The one that takes its place has a new workerId, so  *)
(* the rows of the old one belong to nobody alive.                         *)
pumpCrash(p) ==
  /\ Fault
  /\ run' = [run EXCEPT ![p] = Idle]
  /\ owner' = [j \in Jobs |-> IF owner[j] = p THEN Gone ELSE owner[j]]
  /\ UNCHANGED <<status, attempts, limit, lease, retries>>

-----------------------------------------------------------------------------
QueueNext ==
  \/ \E S \in SUBSET Jobs : S # {} /\ enqueue(S)
  \/ \E j \in Jobs : retryFailed(j) \/ leaseExpires(j)
  \/ \E p \in Pumps :
       \/ claimNext(p) \/ renewLease(p)
       \/ HandlerEnds(p, "complete") \/ HandlerEnds(p, "fail")
       \/ markCompleted(p) \/ markFailed(p)
       \/ statementFails(p) \/ pumpCrash(p)

QueueSpec == QueueInit /\ [][QueueNext]_queueVars

-----------------------------------------------------------------------------
(* Properties.                                                             *)

Runs == [pc : {"idle", "handle", "complete", "fail"}, job : Jobs \cup {NoJob},
         n : Nat, max : Nat]

(* The rows and the pumps keep their shape.                                *)
QueueTypeOK ==
  /\ status \in [Jobs -> Statuses]
  /\ attempts \in [Jobs -> Nat]
  /\ limit \in [Jobs -> Nat]
  /\ owner \in [Jobs -> Pumps \cup {Nobody, Gone}]
  /\ lease \in [Jobs -> {"none", "live", "expired"}]
  /\ run \in [Pumps -> Runs]
  /\ \A p \in Pumps : run[p].pc # "idle" <=> run[p].job # NoJob
  /\ retries \in 0..MaxRetries
  /\ faults \in 0..MaxFaults

(* A pending job can be claimed: it has an attempt left, however its runs  *)
(* failed, overlapped or were retried by hand.  claimNext would pass over  *)
(* any other for ever, while hasActiveJob counts it as active.             *)
PendingIsClaimable ==
  \A j \in Jobs : status[j] = "pending" => attempts[j] < limit[j]

(* Attempts are bounded by max_attempts, and that only by the retries of   *)
(* the operator.                                                           *)
AttemptsBounded ==
  \A j \in Jobs : attempts[j] <= limit[j] /\ limit[j] <= MaxAttempts + retries

(* The fence: a pump that passes isLeaseOwner, renews, completes or fails  *)
(* a job is the pump of the job's latest claim, and every other pump that  *)
(* still runs it runs an earlier claim.                                    *)
Fenced ==
  \A p \in Pumps : run[p].job # NoJob /\ Holds(p) =>
    /\ run[p].n = attempts[run[p].job]
    /\ \A q \in Pumps \ {p} : run[q].job = run[p].job => run[q].n < run[p].n

(* A completed job stays completed, whatever a slower run of it does.      *)
CompletedIsFinal ==
  [][\A j \in Jobs : status[j] = "completed" => status'[j] = "completed"]_queueVars

(* The last attempt died with its process: the lease has run out, and the  *)
(* attempts too, so claimNext passes the job over.                         *)
Abandoned(j) ==
  /\ status[j] = "claimed" /\ lease[j] = "expired" /\ attempts[j] = limit[j]
  /\ \A p \in Pumps : run[p].job = j => ~Holds(p)

(* Claims, take-overs and retries come to an end, and then every job is    *)
(* finished, or was abandoned in its last attempt.                         *)
ComesToRest ==
  <>[](\A j \in Jobs : status[j] \in {"absent", "completed", "failed"} \/ Abandoned(j))

(* Every job ends in completed or failed.                                  *)
EveryJobSettles ==
  \A j \in Jobs : status[j] = "pending" ~> status[j] \in {"completed", "failed"}
=============================================================================
