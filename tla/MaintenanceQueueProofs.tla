----------------------- MODULE MaintenanceQueueProofs -----------------------
(***************************************************************************)
(* What holds of the maintenance queue for every set of jobs and pumps,    *)
(* any number of crashes and retries, and whatever the handlers do; at the *)
(* end, which jobs are abandoned, and that they are for good.              *)
(***************************************************************************)
EXTENDS MaintenanceQueue, TLAPS

(* A row carries what its status promises.                                 *)
RowFits(j) ==
  /\ status[j] = "absent" => attempts[j] = 0 /\ limit[j] = MaxAttempts
  /\ status[j] = "pending" => attempts[j] < limit[j]
  /\ attempts[j] <= limit[j]
  /\ limit[j] <= MaxAttempts + retries

RowsFit == \A j \in Jobs : RowFits(j)

(* A run is of an earlier claim or of the latest; the one that still holds *)
(* its job is of the latest, and read the row as it is.                    *)
RunFits(p) ==
  run[p].job # NoJob =>
    /\ 0 < run[p].n /\ run[p].n <= attempts[run[p].job]
    /\ Holds(p) => run[p].n = attempts[run[p].job] /\ run[p].max = limit[run[p].job]

RunsFit == \A p \in Pumps : RunFits(p)

(* No two pumps run one claim.                                             *)
ClaimsApart ==
  \A p, q \in Pumps : p # q /\ run[p].job = run[q].job /\ run[p].job # NoJob
                      => run[p].n # run[q].n

QueueInv == QueueTypeOK /\ RowsFit /\ RunsFit /\ ClaimsApart

-----------------------------------------------------------------------------
(* Every invariant holds of the empty table.                               *)
LEMMA InitInv == QueueInit => QueueInv
<1> SUFFICES ASSUME QueueInit PROVE QueueInv
  OBVIOUS
<1>1. QueueTypeOK
  BY QueueAssumption DEF QueueInit, Idle, QueueTypeOK, Statuses, Runs
<1>2. RowsFit
  <2> SUFFICES ASSUME NEW j \in Jobs PROVE RowFits(j)
    BY DEF RowsFit
  <2>1. status[j] = "absent" /\ attempts[j] = 0 /\ limit[j] = MaxAttempts /\ retries = 0
    BY DEF QueueInit
  <2> QED
    BY <2>1, QueueAssumption DEF RowFits
<1>3. RunsFit /\ ClaimsApart
  BY DEF QueueInit, Idle, RunsFit, RunFits, ClaimsApart
<1> QED
  BY <1>1, <1>2, <1>3 DEF QueueInv

(* Every step of the table and of the pumps keeps their shape.             *)
LEMMA TypeStep == QueueTypeOK /\ [QueueNext]_queueVars => QueueTypeOK'
<1> SUFFICES ASSUME QueueTypeOK, [QueueNext]_queueVars PROVE QueueTypeOK'
  OBVIOUS
<1> USE QueueAssumption DEF QueueTypeOK, Statuses, Runs, rows
<1>1. CASE UNCHANGED queueVars
  BY <1>1 DEF queueVars
<1>2. ASSUME NEW S \in SUBSET Jobs, enqueue(S) PROVE QueueTypeOK'
  BY <1>2 DEF enqueue
<1>3. ASSUME NEW j \in Jobs, retryFailed(j) PROVE QueueTypeOK'
  BY <1>3 DEF retryFailed
<1>4. ASSUME NEW j \in Jobs, leaseExpires(j) PROVE QueueTypeOK'
  BY <1>4 DEF leaseExpires
<1>5. ASSUME NEW p \in Pumps, claimNext(p) PROVE QueueTypeOK'
  <2>1. PICK j \in Jobs :
          /\ status' = [status EXCEPT ![j] = "claimed"]
          /\ attempts' = [attempts EXCEPT ![j] = @ + 1]
          /\ owner' = [owner EXCEPT ![j] = p]
          /\ lease' = [lease EXCEPT ![j] = "live"]
          /\ run' = [run EXCEPT ![p] = [pc |-> "handle", job |-> j,
                                        n |-> attempts[j] + 1, max |-> limit[j]]]
    BY <1>5 DEF claimNext
  <2>2. UNCHANGED <<limit, retries, faults>>
    BY <1>5 DEF claimNext
  <2> QED
    BY <2>1, <2>2
<1>6. ASSUME NEW p \in Pumps, renewLease(p) PROVE QueueTypeOK'
  BY <1>6 DEF renewLease
<1>7. ASSUME NEW p \in Pumps, NEW label \in {"complete", "fail"}, HandlerEnds(p, label)
      PROVE QueueTypeOK'
  BY <1>7 DEF HandlerEnds
<1>8. ASSUME NEW p \in Pumps, markCompleted(p) PROVE QueueTypeOK'
  BY <1>8 DEF markCompleted, Idle
<1>9. ASSUME NEW p \in Pumps, markFailed(p) PROVE QueueTypeOK'
  BY <1>9 DEF markFailed, Idle
<1>10. ASSUME NEW p \in Pumps, statementFails(p) PROVE QueueTypeOK'
  BY <1>10 DEF statementFails, Idle, Fault
<1>11. ASSUME NEW p \in Pumps, pumpCrash(p) PROVE QueueTypeOK'
  BY <1>11 DEF pumpCrash, Idle, Fault
<1> QED
  BY <1>1, <1>2, <1>3, <1>4, <1>5, <1>6, <1>7, <1>8, <1>9, <1>10, <1>11 DEF QueueNext

-----------------------------------------------------------------------------
(* No row is deleted.                                                      *)
LEMMA StatusKept ==
  ASSUME QueueTypeOK, [QueueNext]_queueVars
  PROVE  \A j \in Jobs : status[j] # "absent" => status'[j] # "absent"
BY DEF QueueNext, queueVars, QueueTypeOK, enqueue, retryFailed, leaseExpires, claimNext,
       renewLease, HandlerEnds, markCompleted, markFailed, statementFails, pumpCrash, rows

(* A row leaves the queue with an attempt to spare: markFailed puts back   *)
(* only what isTerminal, by the row as it was claimed, lets it.            *)
LEMMA RowsStep ==
  QueueTypeOK /\ RowsFit /\ RunsFit /\ [QueueNext]_queueVars => RowsFit'
<1> SUFFICES ASSUME QueueTypeOK, RowsFit, RunsFit, [QueueNext]_queueVars,
                    NEW i \in Jobs
             PROVE  RowFits(i)'
  BY DEF RowsFit
<1> USE QueueAssumption DEF RowFits
<1>1. RowFits(i)
  BY DEF RowsFit
<1>2. attempts[i] \in Nat /\ limit[i] \in Nat /\ retries \in Nat
  BY DEF QueueTypeOK
<1>3. CASE UNCHANGED queueVars
  BY <1>1, <1>3 DEF queueVars
<1>4. ASSUME NEW S \in SUBSET Jobs, enqueue(S) PROVE RowFits(i)'
  BY <1>1, <1>2, <1>4 DEF enqueue
<1>5. ASSUME NEW j \in Jobs, retryFailed(j) PROVE RowFits(i)'
  BY <1>1, <1>2, <1>5 DEF retryFailed, QueueTypeOK
<1>6. ASSUME NEW j \in Jobs, leaseExpires(j) PROVE RowFits(i)'
  BY <1>1, <1>2, <1>6 DEF leaseExpires
<1>7. ASSUME NEW p \in Pumps, claimNext(p) PROVE RowFits(i)'
  BY <1>1, <1>2, <1>7 DEF claimNext, Claimable, QueueTypeOK
<1>8. ASSUME NEW p \in Pumps, renewLease(p) PROVE RowFits(i)'
  BY <1>1, <1>8 DEF renewLease
<1>9. ASSUME NEW p \in Pumps, NEW label \in {"complete", "fail"}, HandlerEnds(p, label)
      PROVE RowFits(i)'
  BY <1>1, <1>9 DEF HandlerEnds, rows
<1>10. ASSUME NEW p \in Pumps, markCompleted(p) PROVE RowFits(i)'
  BY <1>1, <1>2, <1>10 DEF markCompleted, QueueTypeOK
<1>11. ASSUME NEW p \in Pumps, markFailed(p) PROVE RowFits(i)'
  <2>1. run[p].job # NoJob /\ run[p].n \in Nat /\ run[p].max \in Nat
    BY <1>11 DEF markFailed, QueueTypeOK, Runs
  <2>2. UNCHANGED <<attempts, limit, retries>>
    BY <1>11 DEF markFailed
  <2>3. CASE ~Holds(p) \/ i # run[p].job
    BY <1>1, <1>11, <2>2, <2>3 DEF markFailed, QueueTypeOK
  <2>4. CASE Holds(p) /\ i = run[p].job
    <3>1. run[p].n = attempts[i] /\ run[p].max = limit[i]
      BY <2>1, <2>4 DEF RunsFit, RunFits
    <3>2. status'[i] = "failed" \/ (status'[i] = "pending" /\ ~(attempts[i] >= limit[i]))
      BY <1>11, <2>4, <3>1 DEF markFailed, isTerminal, QueueTypeOK
    <3> QED
      BY <1>1, <1>2, <2>2, <3>2
  <2> QED
    BY <2>3, <2>4
<1>12. ASSUME NEW p \in Pumps, statementFails(p) PROVE RowFits(i)'
  BY <1>1, <1>12 DEF statementFails, rows
<1>13. ASSUME NEW p \in Pumps, pumpCrash(p) PROVE RowFits(i)'
  BY <1>1, <1>13 DEF pumpCrash
<1> QED
  BY <1>3, <1>4, <1>5, <1>6, <1>7, <1>8, <1>9, <1>10, <1>11, <1>12, <1>13 DEF QueueNext

(* A step that leaves a run as it is, its row's attempts and limit too,    *)
(* and hands the row to nobody, keeps RunFits.                             *)
LEMMA RunKept ==
  ASSUME NEW q \in Pumps, RunFits(q),
         run'[q].job = run[q].job, run'[q].n = run[q].n, run'[q].max = run[q].max,
         run[q].job # NoJob =>
           /\ attempts'[run[q].job] = attempts[run[q].job]
           /\ limit'[run[q].job] = limit[run[q].job]
           /\ Holds(q)' => Holds(q)
  PROVE  RunFits(q)'
BY DEF RunFits

(* A claim outdates the runs of its job; whoever ends or takes over a job  *)
(* it holds leaves nobody else holding it.                                 *)
LEMMA RunsStep == QueueTypeOK /\ RunsFit /\ [QueueNext]_queueVars => RunsFit'
<1> SUFFICES ASSUME QueueTypeOK, RunsFit, [QueueNext]_queueVars, NEW q \in Pumps
             PROVE  RunFits(q)'
  BY DEF RunsFit
<1> USE QueueAssumption
<1>1. RunFits(q)
  BY DEF RunsFit
<1>2. /\ run[q].job # NoJob => run[q].job \in Jobs
      /\ run[q].n \in Nat
      /\ run[q].job # NoJob => attempts[run[q].job] \in Nat
  BY DEF QueueTypeOK, Runs
<1>3. CASE UNCHANGED queueVars
  BY <1>1, <1>3, RunKept DEF queueVars, Holds
<1>4. ASSUME NEW S \in SUBSET Jobs, enqueue(S) PROVE RunFits(q)'
  BY <1>1, <1>2, <1>4, RunKept DEF enqueue, Holds
<1>5. ASSUME NEW j \in Jobs, retryFailed(j) PROVE RunFits(q)'
  <2>1. CASE run[q].job # j
    BY <1>1, <1>2, <1>5, <2>1, RunKept DEF retryFailed, Holds, QueueTypeOK
  <2>2. CASE run[q].job = j
    BY <1>1, <1>2, <1>5, <2>2 DEF retryFailed, Holds, RunFits, QueueTypeOK
  <2> QED
    BY <2>1, <2>2
<1>6. ASSUME NEW j \in Jobs, leaseExpires(j) PROVE RunFits(q)'
  BY <1>1, <1>6, RunKept DEF leaseExpires, Holds
<1>7. ASSUME NEW p \in Pumps, claimNext(p) PROVE RunFits(q)'
  <2>1. PICK j \in Jobs :
          /\ status' = [status EXCEPT ![j] = "claimed"]
          /\ attempts' = [attempts EXCEPT ![j] = @ + 1]
          /\ owner' = [owner EXCEPT ![j] = p]
          /\ run' = [run EXCEPT ![p] = [pc |-> "handle", job |-> j,
                                        n |-> attempts[j] + 1, max |-> limit[j]]]
    BY <1>7 DEF claimNext
  <2>2. limit' = limit
    BY <1>7 DEF claimNext
  <2>3. attempts[j] \in Nat /\ attempts'[j] = attempts[j] + 1
    BY <2>1 DEF QueueTypeOK
  <2>4. CASE q = p
    BY <2>1, <2>2, <2>3, <2>4 DEF RunFits, QueueTypeOK
  <2>5. CASE q # p /\ run[q].job = j
    <3>1. run'[q] = run[q] /\ ~Holds(q)'
      BY <2>1, <2>5 DEF Holds, QueueTypeOK
    <3> QED
      BY <1>1, <1>2, <2>3, <2>5, <3>1 DEF RunFits
  <2>6. CASE q # p /\ run[q].job # j
    BY <1>1, <1>2, <2>1, <2>2, <2>6, RunKept DEF Holds, QueueTypeOK
  <2> QED
    BY <2>4, <2>5, <2>6
<1>8. ASSUME NEW p \in Pumps, renewLease(p) PROVE RunFits(q)'
  BY <1>1, <1>8, RunKept DEF renewLease, Holds
<1>9. ASSUME NEW p \in Pumps, NEW label \in {"complete", "fail"}, HandlerEnds(p, label)
      PROVE RunFits(q)'
  BY <1>1, <1>9, RunKept DEF HandlerEnds, rows, Holds, QueueTypeOK, Runs
<1>10. ASSUME NEW p \in Pumps, markCompleted(p) PROVE RunFits(q)'
  <2>1. CASE q = p
    BY <1>10, <2>1 DEF markCompleted, Idle, RunFits, QueueTypeOK
  <2>2. CASE q # p
    BY <1>1, <1>2, <1>10, <2>2, RunKept DEF markCompleted, Holds, QueueTypeOK
  <2> QED
    BY <2>1, <2>2
<1>11. ASSUME NEW p \in Pumps, markFailed(p) PROVE RunFits(q)'
  <2>1. CASE q = p
    BY <1>11, <2>1 DEF markFailed, Idle, RunFits, QueueTypeOK
  <2>2. CASE q # p
    BY <1>1, <1>2, <1>11, <2>2, RunKept DEF markFailed, Holds, QueueTypeOK
  <2> QED
    BY <2>1, <2>2
<1>12. ASSUME NEW p \in Pumps, statementFails(p) PROVE RunFits(q)'
  <2>1. UNCHANGED rows
    BY <1>12 DEF statementFails
  <2>2. run' = [run EXCEPT ![p].pc = "fail"] \/ run' = [run EXCEPT ![p] = Idle]
    BY <1>12 DEF statementFails
  <2>3. CASE run' = [run EXCEPT ![p].pc = "fail"]
    BY <1>1, <2>1, <2>3, RunKept DEF rows, Holds, QueueTypeOK, Runs
  <2>4. CASE run' = [run EXCEPT ![p] = Idle]
    <3>1. CASE q = p
      BY <2>4, <3>1 DEF Idle, RunFits, QueueTypeOK
    <3>2. CASE q # p
      BY <1>1, <2>1, <2>4, <3>2, RunKept DEF rows, Holds, QueueTypeOK
    <3> QED
      BY <3>1, <3>2
  <2> QED
    BY <2>2, <2>3, <2>4
<1>13. ASSUME NEW p \in Pumps, pumpCrash(p) PROVE RunFits(q)'
  <2>1. CASE q = p
    BY <1>13, <2>1 DEF pumpCrash, Idle, RunFits, QueueTypeOK
  <2>2. CASE q # p
    BY <1>1, <1>2, <1>13, <2>2, RunKept DEF pumpCrash, Holds, QueueTypeOK
  <2> QED
    BY <2>1, <2>2
<1> QED
  BY <1>3, <1>4, <1>5, <1>6, <1>7, <1>8, <1>9, <1>10, <1>11, <1>12, <1>13 DEF QueueNext

-----------------------------------------------------------------------------
(* A step that starts no run keeps the claims apart.                       *)
LEMMA ApartKept ==
  ASSUME ClaimsApart,
         \A p \in Pumps : \/ run'[p].job = NoJob
                          \/ run'[p].job = run[p].job /\ run'[p].n = run[p].n
  PROVE  ClaimsApart'
BY DEF ClaimsApart

(* A claim takes a number that no run of its job has.                      *)
LEMMA ApartStep ==
  QueueTypeOK /\ RunsFit /\ ClaimsApart /\ [QueueNext]_queueVars => ClaimsApart'
<1> SUFFICES ASSUME QueueTypeOK, RunsFit, ClaimsApart, [QueueNext]_queueVars
             PROVE  ClaimsApart'
  OBVIOUS
<1> USE QueueAssumption
<1>1. CASE run' = run
  BY <1>1, ApartKept
<1>2. ASSUME NEW p \in Pumps, claimNext(p) PROVE ClaimsApart'
  <2>1. PICK j \in Jobs :
          run' = [run EXCEPT ![p] = [pc |-> "handle", job |-> j,
                                     n |-> attempts[j] + 1, max |-> limit[j]]]
    BY <1>2 DEF claimNext
  <2>2. \A q \in Pumps \ {p} : run'[q] = run[q] /\ (run[q].job = j => run[q].n # attempts[j] + 1)
    BY <2>1 DEF RunsFit, RunFits, QueueTypeOK, Runs
  <2>3. run'[p].job = j /\ run'[p].n = attempts[j] + 1
    BY <2>1 DEF QueueTypeOK
  <2> QED
    BY <2>2, <2>3 DEF ClaimsApart
<1>3. ASSUME NEW p \in Pumps, NEW label \in {"complete", "fail"}, HandlerEnds(p, label)
      PROVE ClaimsApart'
  BY <1>3, ApartKept DEF HandlerEnds, QueueTypeOK, Runs
<1>4. ASSUME NEW p \in Pumps, run' = [run EXCEPT ![p] = Idle] PROVE ClaimsApart'
  <2>1. run'[p].job = NoJob
    BY <1>4 DEF Idle, QueueTypeOK
  <2>2. \A q \in Pumps \ {p} : run'[q].job = run[q].job /\ run'[q].n = run[q].n
    BY <1>4 DEF QueueTypeOK
  <2>3. \A q \in Pumps : \/ run'[q].job = NoJob
                         \/ run'[q].job = run[q].job /\ run'[q].n = run[q].n
    BY <2>1, <2>2
  <2> QED
    BY <2>3, ApartKept
<1>5. ASSUME NEW p \in Pumps, statementFails(p) PROVE ClaimsApart'
  <2>1. CASE run' = [run EXCEPT ![p].pc = "fail"]
    <3>1. \A q \in Pumps : run'[q].job = run[q].job /\ run'[q].n = run[q].n
      BY <2>1 DEF QueueTypeOK, Runs
    <3> QED
      BY <3>1, ApartKept
  <2> QED
    BY <1>4, <1>5, <2>1 DEF statementFails
<1> QED
  BY <1>1, <1>2, <1>3, <1>4, <1>5
  DEF QueueNext, queueVars, enqueue, retryFailed, leaseExpires, renewLease,
      markCompleted, markFailed, pumpCrash

-----------------------------------------------------------------------------
(* A claim that a run holds after a step it held before, unless the run    *)
(* has just begun.                                                         *)
LEMMA HoldsKept ==
  ASSUME QueueTypeOK, [QueueNext]_queueVars, NEW q \in Pumps,
         run[q].pc # "idle", run'[q].job = run[q].job, Holds(q)'
  PROVE  Holds(q)
<1> DEFINE j == run[q].job
<1> USE DEF Holds, QueueTypeOK, Runs
<1>0. j \in Jobs /\ q # Nobody /\ q # Gone
  BY QueueAssumption
<1>1. CASE UNCHANGED queueVars
  BY <1>1 DEF queueVars
<1>2. ASSUME NEW S \in SUBSET Jobs, enqueue(S) PROVE Holds(q)
  BY <1>0, <1>2 DEF enqueue
<1>3. ASSUME NEW i \in Jobs, retryFailed(i) PROVE Holds(q)
  BY <1>0, <1>3 DEF retryFailed
<1>4. ASSUME NEW i \in Jobs, leaseExpires(i) PROVE Holds(q)
  BY <1>0, <1>4 DEF leaseExpires
<1>5. ASSUME NEW p \in Pumps, claimNext(p) PROVE Holds(q)
  BY <1>0, <1>5 DEF claimNext
<1>6. ASSUME NEW p \in Pumps, renewLease(p) PROVE Holds(q)
  BY <1>0, <1>6 DEF renewLease
<1>7. ASSUME NEW p \in Pumps, NEW label \in {"complete", "fail"}, HandlerEnds(p, label)
      PROVE  Holds(q)
  BY <1>0, <1>7 DEF HandlerEnds, rows
<1>8. ASSUME NEW p \in Pumps, markCompleted(p) PROVE Holds(q)
  BY <1>0, <1>8 DEF markCompleted
<1>9. ASSUME NEW p \in Pumps, markFailed(p) PROVE Holds(q)
  BY <1>0, <1>9 DEF markFailed
<1>10. ASSUME NEW p \in Pumps, statementFails(p) PROVE Holds(q)
  BY <1>0, <1>10 DEF statementFails, rows
<1>11. ASSUME NEW p \in Pumps, pumpCrash(p) PROVE Holds(q)
  BY <1>0, <1>11 DEF pumpCrash
<1> QED
  BY <1>1, <1>2, <1>3, <1>4, <1>5, <1>6, <1>7, <1>8, <1>9, <1>10, <1>11 DEF QueueNext

-----------------------------------------------------------------------------
(* The table and its pumps keep QueueInv, the inductive invariant.         *)
THEOREM QueueInvariant == QueueSpec => []QueueInv
<1>1. QueueInv /\ [QueueNext]_queueVars => QueueInv'
  BY TypeStep, RowsStep, RunsStep, ApartStep DEF QueueInv
<1> QED
  BY InitInv, <1>1, PTL DEF QueueSpec

(* Of claims, retries and failures, for any number of pumps: what is       *)
(* pending can be claimed, attempts are bounded, and the pump that passes  *)
(* the fence is the one of the latest claim.                               *)
THEOREM QueueSafe == QueueSpec => [](PendingIsClaimable /\ AttemptsBounded /\ Fenced)
<1>1. QueueInv => PendingIsClaimable /\ AttemptsBounded
  BY DEF QueueInv, RowsFit, RowFits, PendingIsClaimable, AttemptsBounded
<1>2. QueueInv => Fenced
  <2> SUFFICES ASSUME QueueInv, NEW p \in Pumps, run[p].job # NoJob, Holds(p),
                      NEW q \in Pumps \ {p}, run[q].job = run[p].job
               PROVE  run[q].n < run[p].n
    BY DEF Fenced, QueueInv, RunsFit, RunFits
  <2>1. run[p].n = attempts[run[p].job] /\ run[q].n <= run[p].n /\ run[q].n # run[p].n
    BY DEF QueueInv, RunsFit, RunFits, ClaimsApart
  <2>2. run[p].n \in Nat /\ run[q].n \in Nat
    BY DEF QueueInv, QueueTypeOK, Runs
  <2> QED
    BY <2>1, <2>2
<1> QED
  BY <1>1, <1>2, QueueInvariant, PTL

(* No job is claimed more often than its limit and the retries by hand allow. *)
THEOREM ClaimsBounded == QueueSpec => []AttemptsBounded
  BY QueueSafe, PTL

(* A completed job stays completed: only the pump that holds a claimed     *)
(* job changes it, and an operator retries only what failed.               *)
THEOREM CompletionIsFinal == QueueSpec => CompletedIsFinal
<1>1. QueueInv /\ [QueueNext]_queueVars
      => [\A j \in Jobs : status[j] = "completed" => status'[j] = "completed"]_queueVars
  <2> SUFFICES ASSUME QueueInv, QueueNext, NEW j \in Jobs, status[j] = "completed"
               PROVE  status'[j] = "completed"
    OBVIOUS
  <2> USE DEF QueueInv, QueueTypeOK
  <2>1. ASSUME NEW S \in SUBSET Jobs, enqueue(S) PROVE status'[j] = "completed"
    BY <2>1 DEF enqueue
  <2>2. ASSUME NEW i \in Jobs, retryFailed(i) PROVE status'[j] = "completed"
    BY <2>2 DEF retryFailed
  <2>3. ASSUME NEW p \in Pumps, claimNext(p) PROVE status'[j] = "completed"
    BY <2>3 DEF claimNext, Claimable
  <2>4. ASSUME NEW p \in Pumps, markCompleted(p) PROVE status'[j] = "completed"
    BY <2>4 DEF markCompleted
  <2>5. ASSUME NEW p \in Pumps, markFailed(p) PROVE status'[j] = "completed"
    BY <2>5 DEF markFailed, Holds
  <2>6. CASE UNCHANGED status
    BY <2>6
  <2> QED
    BY <2>1, <2>2, <2>3, <2>4, <2>5, <2>6
    DEF QueueNext, leaseExpires, renewLease, HandlerEnds, rows, statementFails, pumpCrash
<1> QED
  BY <1>1, QueueInvariant, PTL DEF QueueSpec, CompletedIsFinal

-----------------------------------------------------------------------------
(* How far the queue's finding reaches: the job that a dead process leaves *)
(* claimed in its last attempt.                                            *)

(* No step of the table or of a pump changes an abandoned job: it is not   *)
(* claimable, nobody holds it, and only a failed job can be retried.       *)
LEMMA AbandonedStep ==
  ASSUME QueueInv, [QueueNext]_queueVars, NEW j \in Jobs, Abandoned(j)
  PROVE  Abandoned(j)'
<1> DEFINE Row == /\ status'[j] = "claimed" /\ lease'[j] = "expired"
                  /\ attempts'[j] = attempts[j] /\ limit'[j] = limit[j]
<1> USE DEF QueueTypeOK
<1>0. /\ QueueTypeOK
      /\ status[j] = "claimed" /\ lease[j] = "expired" /\ attempts[j] = limit[j]
      /\ attempts[j] \in Nat /\ limit[j] \in Nat
      /\ \A p \in Pumps : run[p].job = j => ~Holds(p)
  BY DEF QueueInv, Abandoned
<1>1. Row
  <2>1. CASE UNCHANGED queueVars
    BY <1>0, <2>1 DEF queueVars
  <2>2. ASSUME NEW S \in SUBSET Jobs, enqueue(S) PROVE Row
    BY <1>0, <2>2 DEF enqueue
  <2>3. ASSUME NEW i \in Jobs, retryFailed(i) \/ leaseExpires(i) PROVE Row
    BY <1>0, <2>3 DEF retryFailed, leaseExpires
  <2>4. ASSUME NEW p \in Pumps, claimNext(p) PROVE Row
    <3>1. ~Claimable(j)
      BY <1>0 DEF Claimable
    <3> QED
      BY <1>0, <2>4, <3>1 DEF claimNext
  <2>5. ASSUME NEW p \in Pumps, renewLease(p) PROVE Row
    BY <1>0, <2>5 DEF renewLease
  <2>6. ASSUME NEW p \in Pumps, NEW label \in {"complete", "fail"}, HandlerEnds(p, label)
        PROVE Row
    BY <1>0, <2>6 DEF HandlerEnds, rows
  <2>7. ASSUME NEW p \in Pumps, markCompleted(p) \/ markFailed(p) PROVE Row
    BY <1>0, <2>7 DEF markCompleted, markFailed
  <2>8. ASSUME NEW p \in Pumps, statementFails(p) \/ pumpCrash(p) PROVE Row
    BY <1>0, <2>8 DEF statementFails, pumpCrash, rows
  <2> QED
    BY <2>1, <2>2, <2>3, <2>4, <2>5, <2>6, <2>7, <2>8 DEF QueueNext
<1>2. ASSUME NEW p \in Pumps, run'[p].job = j PROVE ~Holds(p)'
  <2>1. CASE run[p].job = j
    <3>1. run[p].pc # "idle"
      BY <1>0, <2>1, QueueAssumption
    <3> QED
      BY <1>0, <1>2, <2>1, <3>1, HoldsKept
  <2>2. CASE run[p].job # j
    <3>1. claimNext(p)
      BY <1>0, <1>2, <2>2, QueueAssumption DEF QueueNext, queueVars, enqueue, retryFailed,
         leaseExpires, claimNext, renewLease, HandlerEnds, markCompleted, markFailed,
         statementFails, pumpCrash, Idle, Runs
    <3>2. attempts'[j] = attempts[j] + 1
      BY <1>0, <1>2, <3>1 DEF claimNext
    <3> QED
      BY <1>0, <1>1, <3>2
  <2> QED
    BY <2>1, <2>2
<1> QED
  BY <1>0, <1>1, <1>2 DEF Abandoned

(* A job abandoned in its last attempt stays abandoned: no pump that is    *)
(* started, no lease that runs out and no retry by hand gets it going.     *)
THEOREM AbandonedForGood ==
  ASSUME NEW j \in Jobs
  PROVE  QueueSpec => [](Abandoned(j) => []Abandoned(j))
<1>1. QueueInv /\ Abandoned(j) /\ [QueueNext]_queueVars => Abandoned(j)'
  BY AbandonedStep
<1> QED
  BY <1>1, QueueInvariant, PTL DEF QueueSpec

(* Until a process crashes or a statement fails, each claimed job has a    *)
(* pump that runs it and may end it, even while leases run out and pumps   *)
(* take jobs over from each other: nothing is abandoned.                   *)
ClaimedHasHolder ==
  faults = 0 =>
    \A j \in Jobs : status[j] = "claimed" => \E p \in Pumps : run[p].job = j /\ Holds(p)

LEMMA HolderStep ==
  QueueTypeOK /\ ClaimedHasHolder /\ [QueueNext]_queueVars => ClaimedHasHolder'
<1> SUFFICES ASSUME QueueTypeOK, ClaimedHasHolder, [QueueNext]_queueVars,
                    faults' = 0, NEW j \in Jobs, status'[j] = "claimed"
             PROVE  \E p \in Pumps : run'[p].job = j /\ Holds(p)'
  BY DEF ClaimedHasHolder
<1> USE DEF QueueTypeOK
<1>1. ASSUME Fault PROVE FALSE
  BY <1>1 DEF Fault
<1>2. faults = 0
  BY <1>1 DEF QueueNext, queueVars, enqueue, retryFailed, leaseExpires, claimNext, renewLease,
     HandlerEnds, markCompleted, markFailed, statementFails, pumpCrash
<1>3. ASSUME NEW q \in Pumps, run'[q].job = run[q].job, run[q].job = j, Holds(q),
             status'[j] = status[j], owner'[j] = owner[j]
      PROVE  \E p \in Pumps : run'[p].job = j /\ Holds(p)'
  BY <1>3 DEF Holds
<1>4. status[j] = "claimed" => \E q \in Pumps : run[q].job = j /\ Holds(q)
  BY <1>2 DEF ClaimedHasHolder
<1>5. ASSUME UNCHANGED <<status, owner, run>>
      PROVE  \E p \in Pumps : run'[p].job = j /\ Holds(p)'
  BY <1>3, <1>4, <1>5
<1>6. ASSUME NEW S \in SUBSET Jobs, enqueue(S)
      PROVE  \E p \in Pumps : run'[p].job = j /\ Holds(p)'
  BY <1>3, <1>4, <1>6 DEF enqueue
<1>7. ASSUME NEW i \in Jobs, retryFailed(i)
      PROVE  \E p \in Pumps : run'[p].job = j /\ Holds(p)'
  BY <1>3, <1>4, <1>7 DEF retryFailed
<1>8. ASSUME NEW p \in Pumps, claimNext(p)
      PROVE  \E q \in Pumps : run'[q].job = j /\ Holds(q)'
  <2>1. PICK i \in Jobs :
          /\ status' = [status EXCEPT ![i] = "claimed"]
          /\ owner' = [owner EXCEPT ![i] = p]
          /\ run' = [run EXCEPT ![p] = [pc |-> "handle", job |-> i,
                                        n |-> attempts[i] + 1, max |-> limit[i]]]
    BY <1>8 DEF claimNext
  <2>2. CASE i = j
    BY <2>1, <2>2 DEF Holds
  <2>3. CASE i # j
    <3>1. PICK q \in Pumps : run[q].job = j /\ Holds(q)
      BY <1>4, <2>1, <2>3
    <3>2. q # p
      BY <1>8, <3>1, QueueAssumption DEF claimNext
    <3> QED
      BY <1>3, <2>1, <2>3, <3>1, <3>2
  <2> QED
    BY <2>2, <2>3
<1>9. ASSUME NEW p \in Pumps, NEW label \in {"complete", "fail"}, HandlerEnds(p, label)
      PROVE  \E q \in Pumps : run'[q].job = j /\ Holds(q)'
  BY <1>3, <1>4, <1>9 DEF HandlerEnds, rows, Runs
<1>10. ASSUME NEW p \in Pumps, markCompleted(p) \/ markFailed(p)
       PROVE  \E q \in Pumps : run'[q].job = j /\ Holds(q)'
  <2>1. status[j] = "claimed" /\ ~(run[p].job = j /\ Holds(p))
    BY <1>10, QueueAssumption DEF markCompleted, markFailed
  <2>2. PICK q \in Pumps : run[q].job = j /\ Holds(q)
    BY <1>4, <2>1
  <2>3. q # p /\ status'[j] = status[j] /\ owner'[j] = owner[j] /\ run'[q] = run[q]
    BY <1>10, <2>1, <2>2 DEF markCompleted, markFailed
  <2> QED
    BY <1>3, <2>2, <2>3
<1> QED
  BY <1>1, <1>5, <1>6, <1>7, <1>8, <1>9, <1>10
  DEF QueueNext, queueVars, leaseExpires, renewLease, statementFails, pumpCrash

(* So a job is abandoned only where a process died or SQLite failed in its *)
(* last attempt.                                                           *)
THEOREM OnlyFaultsAbandon ==
  QueueSpec => [](ClaimedHasHolder /\ (faults = 0 => \A j \in Jobs : ~Abandoned(j)))
<1>1. QueueInit => ClaimedHasHolder
  BY DEF QueueInit, ClaimedHasHolder
<1>2. QueueInv /\ ClaimedHasHolder /\ [QueueNext]_queueVars => ClaimedHasHolder'
  BY HolderStep DEF QueueInv
<1>3. ClaimedHasHolder => (faults = 0 => \A j \in Jobs : ~Abandoned(j))
  BY DEF ClaimedHasHolder, Abandoned
<1> QED
  BY <1>1, <1>2, <1>3, QueueInvariant, PTL DEF QueueSpec
=============================================================================
