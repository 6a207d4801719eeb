----------------------- MODULE ChatMaintenanceProofs -----------------------
(***************************************************************************)
(* The conversation's memory follows its job queue, and forgets no         *)
(* message, for any number of messages, engines, pumps and faults.  The    *)
(* last sections say how far the defects reach that runs find: what an     *)
(* abandoned extraction stops, which messages are extracted twice, and     *)
(* which summary job may fold its messages in again.                       *)
(***************************************************************************)
EXTENDS ChatMaintenance, MaintenanceQueueProofs, FiniteSetTheorems

(* A message is in a batch that every engine has a job for.                *)
Covered(m) ==
  \E r \in batches : m \in r[1]..r[2] /\ \A e \in Engines : status[<<e, r>>] # "absent"

(* The payload of a job is a range of messages.                            *)
RangesFit ==
  \A j \in ExtractJobs \cup SummaryJobs : status[j] # "absent" => range[j] \in Ranges

(* What an extraction skips, it found covered.                             *)
Reached ==
  \A j \in ExtractJobs : status[j] # "absent" =>
    \A m \in 1..(range[j][1] - 1) : Covered(m)

(* A handler is at a step of its kind of job, and past createBatch its     *)
(* batch exists, past enqueueEngineConsumeJobs the jobs of the engines.    *)
StepFits(p) ==
  run[p].pc = "handle" =>
    /\ \/ step[p] \in {"find", "extract", "fanOut", "cursor"} /\ run[p].job \in ExtractJobs
       \/ step[p] \in {"load", "consume", "offset"} /\ run[p].job \in ConsumeJobs
       \/ step[p] \in {"read", "save"} /\ run[p].job \in SummaryJobs
    /\ step[p] \in {"fanOut", "cursor"} => RangeOf(p) \in batches
    /\ step[p] = "cursor" => \A e \in Engines : status[<<e, RangeOf(p)>>] # "absent"

StepsFit == \A p \in Pumps : StepFits(p)

ActiveJob(j) == status[j] \in {"pending", "claimed"}

(* Without retries by hand one extraction is active, and it starts at the  *)
(* cursor, or has moved it.                                                *)
Gate ==
  retries = 0 => \A j \in ExtractJobs : ActiveJob(j) =>
    /\ range[j][1] = cursor + 1 \/ range[j][2] = cursor
    /\ \A i \in ExtractJobs : ActiveJob(i) => i = j

ChatInv == QueueInv /\ TypeOK /\ RangesFit /\ StepsFit /\ Reached /\ NothingSkipped /\ Gate

-----------------------------------------------------------------------------
(* Every step of the conversation is a step of the queue, or none.         *)
LEMMA QueueStep == TypeOK /\ StepsFit /\ [Next]_vars => [QueueNext]_queueVars
<1> SUFFICES ASSUME TypeOK, StepsFit, [Next]_vars PROVE [QueueNext]_queueVars
  OBVIOUS
<1>1. CASE UNCHANGED vars
  BY <1>1 DEF vars
<1>2. CASE addMessage
  BY <1>2 DEF addMessage
<1>3. CASE saveReply
  <2>1. PICK extracts \in ExtractTrigger(messages + 1), sums \in SummaryTrigger(messages + 1) :
          enqueue(extracts \cup sums)
    BY <1>3 DEF saveReply
  <2>2. extracts \cup sums \in SUBSET Jobs
    BY <2>1, ChatAssumption DEF ExtractTrigger, SummaryTrigger, NewJob
  <2>3. CASE extracts \cup sums = {}
    BY <2>1, <2>3 DEF enqueue, TypeOK, QueueTypeOK, queueVars
  <2>4. CASE extracts \cup sums # {}
    BY <2>1, <2>2, <2>4 DEF QueueNext
  <2> QED
    BY <2>3, <2>4
<1>4. ASSUME NEW j \in Jobs, retry(j) \/ expire(j) PROVE [QueueNext]_queueVars
  BY <1>4 DEF retry, expire, QueueNext
<1>5. ASSUME NEW p \in Pumps, claim(p) \/ renew(p) \/ complete(p) \/ fail(p) \/ queueFault(p) \/ crash(p)
      PROVE  [QueueNext]_queueVars
  BY <1>5 DEF claim, renew, complete, fail, queueFault, crash, QueueNext
<1>6. ASSUME NEW p \in Pumps, HandlerEnds(p, "complete") \/ HandlerEnds(p, "fail")
      PROVE  [QueueNext]_queueVars
  BY <1>6 DEF QueueNext
<1>7. ASSUME NEW p \in Pumps, enqueueEngineConsumeJobs(p) PROVE [QueueNext]_queueVars
  <2> DEFINE S == {j \in Engines \X {RangeOf(p)} : status[j] = "absent"}
  <2>1. enqueue(S)
    BY <1>7 DEF enqueueEngineConsumeJobs
  <2>2. CASE S \in SUBSET Jobs /\ S # {}
    BY <2>1, <2>2 DEF QueueNext
  <2>3. CASE S = {}
    BY <2>1, <2>3 DEF enqueue, TypeOK, QueueTypeOK, queueVars
  <2>4. RangeOf(p) \in Ranges
    BY <1>7 DEF enqueueEngineConsumeJobs, At, StepsFit, StepFits, TypeOK
  <2>5. S \in SUBSET Jobs
    BY <2>4, ChatAssumption DEF ConsumeJobs
  <2> QED
    BY <2>2, <2>3, <2>5
<1>8. ASSUME NEW p \in Pumps, Handler(p) PROVE [QueueNext]_queueVars
  BY <1>6, <1>7, <1>8
  DEF Handler, findBatchByRange, createBatch, setMemoryExtractCursor, checkLease, consume,
      setEngineOffset, readSummary, saveSummary, throw, Return
<1> QED
  BY <1>1, <1>2, <1>3, <1>4, <1>5, <1>7, <1>8 DEF Next

(* Nothing covered is uncovered: a batch stays, and so does a job.         *)
LEMMA CoveredKept ==
  ASSUME TypeOK, [QueueNext]_queueVars, batches \subseteq batches', NEW m, Covered(m)
  PROVE  Covered(m)'
<1>1. \A j \in Jobs : status[j] # "absent" => status'[j] # "absent"
  BY StatusKept DEF TypeOK
<1>2. PICK r \in batches :
        m \in r[1]..r[2] /\ \A e \in Engines : status[<<e, r>>] # "absent"
  BY DEF Covered
<1>3. \A e \in Engines : <<e, r>> \in Jobs
  BY ChatAssumption DEF ConsumeJobs, TypeOK
<1> QED
  BY <1>1, <1>2, <1>3 DEF Covered

(* The pumps run only jobs that have been enqueued.                        *)
LEMMA RunsStarted ==
  ASSUME QueueInv, NEW p \in Pumps, run[p].job # NoJob
  PROVE  run[p].job \in Jobs /\ status[run[p].job] # "absent"
<1>1. run[p].job \in Jobs
  BY DEF QueueInv, QueueTypeOK, Runs
<1>2. run[p].n \in Nat /\ attempts[run[p].job] \in Nat
  BY <1>1 DEF QueueInv, QueueTypeOK, Runs
<1>3. 0 < attempts[run[p].job]
  BY <1>2 DEF QueueInv, RunsFit, RunFits
<1> QED
  BY <1>1, <1>2, <1>3 DEF QueueInv, RowsFit, RowFits

-----------------------------------------------------------------------------
(* What saveReply hands a new job starts behind a cursor and is not empty. *)
LEMMA ListAfterFits ==
  ASSUME NEW c \in 0..MaxMessages, NEW n \in 0..MaxMessages, NEW max \in Nat \ {0},
         NEW threshold \in Nat \ {0}, n - c >= threshold
  PROVE  listAfter(c, n, max) \in Ranges /\ listAfter(c, n, max)[1] = c + 1
BY ChatAssumption DEF listAfter, Ranges

(* The new jobs of saveReply, and the payloads of all others unchanged.    *)
LEMMA SavedRanges ==
  ASSUME TypeOK, saveReply
  PROVE  \A j \in ExtractJobs \cup SummaryJobs :
           \/ /\ status'[j] = status[j] /\ range'[j] = range[j]
           \/ /\ status[j] = "absent" /\ status'[j] = "pending"
              /\ range'[j] \in Ranges
              /\ j \in ExtractJobs =>
                   /\ range'[j] = listAfter(cursor, messages + 1, ExtractMax)
                   /\ range'[j][1] = cursor + 1
                   /\ ~hasActiveJob(ExtractJobs)
<1> USE ChatAssumption
<1> DEFINE n == messages + 1
<1>1. PICK extracts \in ExtractTrigger(n), sums \in SummaryTrigger(n) :
        /\ enqueue(extracts \cup sums)
        /\ range' = [j \in DOMAIN range |->
                       CASE j \in extracts -> listAfter(cursor, n, ExtractMax)
                         [] j \in sums -> listAfter(summary.upTo, n, SummaryMax)
                         [] OTHER -> range[j]]
  BY DEF saveReply
<1>2. n \in 0..MaxMessages /\ cursor \in 0..MaxMessages /\ summary.upTo \in 0..MaxMessages
  BY DEF saveReply, TypeOK
<1>3. /\ extracts \subseteq ExtractJobs
      /\ extracts # {} => n - cursor >= ExtractThreshold /\ ~hasActiveJob(ExtractJobs)
      /\ sums \subseteq SummaryJobs
      /\ sums # {} => n - summary.upTo >= SummaryThreshold
  BY DEF ExtractTrigger, SummaryTrigger, NewJob
<1> SUFFICES ASSUME NEW j \in ExtractJobs \cup SummaryJobs
             PROVE  \/ /\ status'[j] = status[j] /\ range'[j] = range[j]
                    \/ /\ status[j] = "absent" /\ status'[j] = "pending"
                       /\ range'[j] \in Ranges
                       /\ j \in ExtractJobs =>
                            /\ range'[j] = listAfter(cursor, n, ExtractMax)
                            /\ range'[j][1] = cursor + 1
                            /\ ~hasActiveJob(ExtractJobs)
  OBVIOUS
<1>4. j \in DOMAIN range /\ j \in Jobs
  BY DEF TypeOK
<1>5. status'[j] = IF j \in extracts \cup sums THEN "pending" ELSE status[j]
  BY <1>1, <1>4 DEF enqueue
<1>6. CASE j \in extracts
  <2>1. range'[j] = listAfter(cursor, n, ExtractMax)
    BY <1>1, <1>3, <1>4, <1>6
  <2>2. n - cursor >= ExtractThreshold /\ ~hasActiveJob(ExtractJobs)
    BY <1>3, <1>6
  <2>3. range'[j] \in Ranges /\ range'[j][1] = cursor + 1
    <3> HIDE DEF n
    <3>1. /\ listAfter(cursor, n, ExtractMax) \in Ranges
          /\ listAfter(cursor, n, ExtractMax)[1] = cursor + 1
      BY <1>2, <2>2, ListAfterFits
    <3> QED
      BY <2>1, <3>1
  <2> QED
    BY <1>1, <1>5, <1>6, <2>1, <2>2, <2>3 DEF enqueue
<1>7. CASE j \in sums
  <2>1. j \notin ExtractJobs
    BY <1>3, <1>7
  <2>2. range'[j] = listAfter(summary.upTo, n, SummaryMax)
    BY <1>1, <1>3, <1>4, <1>7, <2>1
  <2>3. n - summary.upTo >= SummaryThreshold
    BY <1>3, <1>7
  <2>4. range'[j] \in Ranges
    <3> HIDE DEF n
    <3>1. listAfter(summary.upTo, n, SummaryMax) \in Ranges
      BY <1>2, <2>3, ListAfterFits
    <3> QED
      BY <2>2, <3>1
  <2> QED
    BY <1>1, <1>5, <1>7, <2>1, <2>4 DEF enqueue
<1>8. CASE j \notin extracts \cup sums
  BY <1>1, <1>4, <1>5, <1>8
<1> QED
  BY <1>6, <1>7, <1>8

(* saveReply enqueues one extraction at most.                              *)
LEMMA OneNewExtraction ==
  ASSUME TypeOK, saveReply, NEW i \in ExtractJobs, NEW j \in ExtractJobs,
         status'[i] # status[i], status'[j] # status[j]
  PROVE  i = j
<1>1. PICK extracts \in ExtractTrigger(messages + 1), sums \in SummaryTrigger(messages + 1) :
        enqueue(extracts \cup sums)
  BY DEF saveReply
<1>2. i \in extracts \cup sums /\ j \in extracts \cup sums
  BY <1>1, ChatAssumption DEF enqueue, TypeOK, QueueTypeOK
<1>3. sums \cap ExtractJobs = {}
  BY ChatAssumption DEF SummaryTrigger, NewJob
<1>4. extracts = {} \/ \E k \in ExtractJobs : extracts = {k}
  BY DEF ExtractTrigger, NewJob
<1> QED
  BY <1>2, <1>3, <1>4

-----------------------------------------------------------------------------
(* Each conjunct of ChatInv in turn.  The handlers change few variables,   *)
(* and the rest of the steps only status, run and step.                    *)
LEMMA ChatInit == Init => ChatInv
<1> SUFFICES ASSUME Init PROVE ChatInv
  OBVIOUS
<1> USE ChatAssumption
<1>1. QueueInv
  BY InitInv DEF Init
<1>2. TypeOK
  BY <1>1 DEF Init, TypeOK, QueueInv, NoSummary, Labels
<1>3. /\ \A j \in Jobs : status[j] = "absent"
      /\ \A p \in Pumps : run[p].pc = "idle"
      /\ cursor = 0
  BY DEF Init, QueueInit, Idle
<1>4. RangesFit /\ StepsFit /\ Reached /\ NothingSkipped
  BY <1>3 DEF RangesFit, StepsFit, StepFits, Reached, NothingSkipped
<1>5. Gate
  BY <1>3 DEF Gate, ActiveJob
<1> QED
  BY <1>1, <1>2, <1>4, <1>5 DEF ChatInv

(* Only saveReply inserts an extraction or a summary, or sets a payload.   *)
LEMMA OnlySaveReply ==
  ASSUME TypeOK, StepsFit, [Next]_vars, ~saveReply
  PROVE  /\ range' = range
         /\ \A j \in ExtractJobs \cup SummaryJobs : status[j] = "absent" => status'[j] = "absent"
<1> USE ChatAssumption
<1> USE DEF TypeOK, QueueTypeOK
<1>1. range' = range
  BY DEF Next, vars, chatVars, addMessage, retry, expire, claim, renew, complete, fail,
         queueFault, crash, Handler, findBatchByRange, createBatch, enqueueEngineConsumeJobs,
         setMemoryExtractCursor, checkLease, consume, setEngineOffset, readSummary,
         saveSummary, throw
<1> SUFFICES ASSUME NEW j \in ExtractJobs \cup SummaryJobs, status[j] = "absent"
             PROVE  status'[j] = "absent"
  BY <1>1
<1>2. CASE UNCHANGED queueVars
  BY <1>2 DEF queueVars
<1>3. ASSUME NEW i \in Jobs, retry(i) \/ expire(i) PROVE status'[j] = "absent"
  BY <1>3 DEF retry, expire, retryFailed, leaseExpires
<1>4. ASSUME NEW p \in Pumps, claim(p) PROVE status'[j] = "absent"
  BY <1>4 DEF claim, claimNext, Claimable
<1>5. ASSUME NEW p \in Pumps, complete(p) PROVE status'[j] = "absent"
  BY <1>5 DEF complete, markCompleted, Holds
<1>6. ASSUME NEW p \in Pumps, fail(p) PROVE status'[j] = "absent"
  BY <1>6 DEF fail, markFailed, Holds
<1>7. ASSUME NEW p \in Pumps, renew(p) \/ queueFault(p) \/ crash(p) PROVE status'[j] = "absent"
  BY <1>7 DEF renew, renewLease, queueFault, statementFails, crash, pumpCrash, rows
<1>8. ASSUME NEW p \in Pumps, enqueueEngineConsumeJobs(p) PROVE status'[j] = "absent"
  <2>1. RangeOf(p) \in Ranges
    BY <1>8 DEF enqueueEngineConsumeJobs, At, StepsFit, StepFits
  <2>2. j \notin Engines \X {RangeOf(p)}
    BY <2>1 DEF ConsumeJobs
  <2> QED
    BY <1>8, <2>2 DEF enqueueEngineConsumeJobs, enqueue
<1>9. ASSUME NEW p \in Pumps, Handler(p), ~enqueueEngineConsumeJobs(p) PROVE status' = status
  BY <1>9
  DEF Handler, findBatchByRange, createBatch, setMemoryExtractCursor, checkLease, consume,
      setEngineOffset, readSummary, saveSummary, throw, Return, HandlerEnds, queueVars, rows
<1> QED
  BY <1>2, <1>3, <1>4, <1>5, <1>6, <1>7, <1>8, <1>9 DEF Next, vars, addMessage

(* The payloads are ranges.                                                *)
LEMMA RangesStep ==
  ASSUME TypeOK, StepsFit, RangesFit, [Next]_vars
  PROVE  RangesFit'
<1>1. CASE saveReply
  BY <1>1, SavedRanges DEF RangesFit
<1>2. CASE ~saveReply
  BY <1>2, OnlySaveReply DEF RangesFit
<1> QED
  BY <1>1, <1>2

(* A step of the queue alone, or of a handler that is not at "cursor",     *)
(* leaves the cursor; createBatch alone changes the ledger, and adds to it.*)
LEMMA LedgerGrows == [Next]_vars => batches \subseteq batches'
BY DEF Next, vars, chatVars, addMessage, saveReply, retry, expire, claim, renew, complete,
       fail, queueFault, crash, Handler, findBatchByRange, createBatch,
       enqueueEngineConsumeJobs, setMemoryExtractCursor, checkLease, consume,
       setEngineOffset, readSummary, saveSummary, throw

(* setMemoryExtractCursor alone moves the cursor.                          *)
LEMMA OnlySetCursor ==
  ASSUME [Next]_vars, \A p \in Pumps : ~setMemoryExtractCursor(p)
  PROVE  cursor' = cursor
BY DEF Next, vars, chatVars, addMessage, saveReply, retry, expire, claim, renew, complete,
       fail, queueFault, crash, Handler, findBatchByRange, createBatch,
       enqueueEngineConsumeJobs, checkLease, consume, setEngineOffset, readSummary,
       saveSummary, throw

(* The handlers' steps follow one another, and what one has committed the  *)
(* next can rely on: neither batches nor jobs go away, nor do the payloads *)
(* of jobs that run change.                                                *)
LEMMA RunningRange ==
  ASSUME ChatInv, [Next]_vars, NEW p \in Pumps, run[p].job \in ExtractJobs
  PROVE  range'[run[p].job] = range[run[p].job]
<1>1. status[run[p].job] # "absent"
  BY RunsStarted, QueueAssumption, ChatAssumption DEF ChatInv
<1>2. CASE saveReply
  BY <1>1, <1>2, SavedRanges DEF ChatInv
<1>3. CASE ~saveReply
  BY <1>3, OnlySaveReply DEF ChatInv
<1> QED
  BY <1>2, <1>3

(* A run that goes on where it was can still rely on what it could.        *)
LEMMA StepKept ==
  ASSUME ChatInv, [Next]_vars, NEW q \in Pumps,
         run'[q].pc = "handle" =>
           run[q].pc = "handle" /\ run'[q].job = run[q].job /\ step'[q] = step[q]
  PROVE  StepFits(q)'
<1> SUFFICES ASSUME run'[q].pc = "handle" PROVE StepFits(q)'
  BY DEF StepFits
<1> USE ChatAssumption
<1>1. run[q].pc = "handle" /\ run'[q].job = run[q].job /\ step'[q] = step[q]
  OBVIOUS
<1>2. StepFits(q)
  BY DEF ChatInv, StepsFit
<1>3. CASE step[q] \notin {"fanOut", "cursor"}
  BY <1>1, <1>2, <1>3 DEF StepFits
<1>4. CASE step[q] \in {"fanOut", "cursor"}
  <2>1. run[q].job \in ExtractJobs /\ RangeOf(q) \in batches
    BY <1>1, <1>2, <1>4 DEF StepFits
  <2>2. RangeOf(q)' = RangeOf(q)
    BY <1>1, <2>1, RunningRange DEF RangeOf
  <2>3. RangeOf(q) \in Ranges /\ RangeOf(q) \in batches'
    BY <2>1, LedgerGrows DEF ChatInv, TypeOK
  <2>4. \A e \in Engines : <<e, RangeOf(q)>> \in Jobs
    BY <2>3 DEF ConsumeJobs
  <2>5. [QueueNext]_queueVars
    BY QueueStep DEF ChatInv
  <2>6. \A e \in Engines :
          status[<<e, RangeOf(q)>>] # "absent" => status'[<<e, RangeOf(q)>>] # "absent"
    BY <2>4, <2>5, StatusKept DEF ChatInv, TypeOK
  <2> QED
    BY <1>1, <1>2, <1>4, <2>1, <2>2, <2>3, <2>6 DEF StepFits
<1> QED
  BY <1>3, <1>4

(* A handler's own step.                                                   *)
LEMMA OwnStep ==
  ASSUME ChatInv, [Next]_vars, NEW p \in Pumps, Handler(p)
  PROVE  StepFits(p)'
<1> USE ChatAssumption DEF At, Goto
<1>1. p \in DOMAIN run /\ p \in DOMAIN step /\ StepFits(p)
  BY DEF ChatInv, TypeOK, QueueTypeOK, StepsFit
<1>2. CASE findBatchByRange(p)
  BY <1>1, <1>2 DEF findBatchByRange, StepFits, RangeOf, queueVars
<1>3. CASE createBatch(p)
  BY <1>1, <1>3 DEF createBatch, StepFits, RangeOf, queueVars
<1>4. CASE enqueueEngineConsumeJobs(p)
  <2>1. /\ run[p].job \in ExtractJobs /\ RangeOf(p) \in batches
        /\ step'[p] = "cursor" /\ UNCHANGED <<run, range, batches>>
    BY <1>1, <1>4 DEF enqueueEngineConsumeJobs, enqueue, StepFits
  <2>2. RangeOf(p) \in Ranges
    BY <2>1 DEF ChatInv, TypeOK
  <2>3. ASSUME NEW e \in Engines PROVE status'[<<e, RangeOf(p)>>] # "absent"
    <3>1. <<e, RangeOf(p)>> \in Jobs
      BY <2>2 DEF ConsumeJobs
    <3> QED
      BY <1>4, <3>1 DEF enqueueEngineConsumeJobs, enqueue
  <2> QED
    BY <2>1, <2>3 DEF StepFits, RangeOf
<1>5. CASE setMemoryExtractCursor(p) \/ setEngineOffset(p) \/ saveSummary(p) \/ throw(p)
  <2>1. run'[p].pc # "handle"
    BY <1>1, <1>5 DEF setMemoryExtractCursor, setEngineOffset, saveSummary, throw, Return,
       HandlerEnds, ChatInv, TypeOK, QueueTypeOK, Runs
  <2> QED
    BY <2>1 DEF StepFits
<1>6. CASE checkLease(p)
  BY <1>1, <1>6 DEF checkLease, StepFits, RangeOf, queueVars
<1>7. CASE consume(p)
  BY <1>1, <1>7 DEF consume, StepFits, RangeOf, queueVars
<1>8. CASE readSummary(p)
  <2>1. CASE Return(p)
    <3>1. run'[p].pc # "handle"
      BY <1>1, <2>1 DEF Return, HandlerEnds, ChatInv, TypeOK, QueueTypeOK, Runs
    <3> QED
      BY <3>1 DEF StepFits
  <2>2. CASE ~Return(p)
    <3>1. run' = run /\ step'[p] = "save" /\ step[p] = "read" /\ run[p].pc = "handle"
      BY <1>1, <1>8, <2>2 DEF readSummary, queueVars
    <3> QED
      BY <1>1, <3>1 DEF StepFits
  <2> QED
    BY <2>1, <2>2
<1> QED
  BY <1>2, <1>3, <1>4, <1>5, <1>6, <1>7, <1>8 DEF Handler

(* The steps of the handlers fit their jobs.                               *)
LEMMA StepsStep == ChatInv /\ [Next]_vars => StepsFit'
<1> SUFFICES ASSUME ChatInv, [Next]_vars, NEW q \in Pumps PROVE StepFits(q)'
  BY DEF StepsFit
<1> USE ChatAssumption
<1>1. CASE UNCHANGED <<run, step>>
  BY <1>1, StepKept
<1>2. /\ run \in [Pumps -> Runs] /\ step \in [Pumps -> Labels]
  BY DEF ChatInv, TypeOK, QueueTypeOK
<1>3. ASSUME NEW p \in Pumps, claim(p) PROVE StepFits(q)'
  <2>1. CASE q = p
    <3>1. PICK j \in Jobs : run'[q].job = j /\ step'[q] = First(j)
      BY <1>2, <1>3, <2>1 DEF claim, claimNext
    <3>2. step'[q] \notin {"fanOut", "cursor"}
      BY <3>1 DEF First
    <3>3. \/ j \in ExtractJobs /\ step'[q] = "find"
          \/ j \in ConsumeJobs /\ step'[q] = "load"
          \/ j \in SummaryJobs /\ step'[q] = "read"
      BY <3>1 DEF First
    <3> QED
      BY <3>1, <3>2, <3>3 DEF StepFits
  <2>2. CASE q # p
    BY <1>2, <1>3, <2>2, StepKept DEF claim, claimNext
  <2> QED
    BY <2>1, <2>2
<1>4. ASSUME NEW p \in Pumps, complete(p) \/ fail(p) \/ queueFault(p) \/ crash(p)
      PROVE  StepFits(q)'
  <2>1. CASE q = p
    <3>1. run' = [run EXCEPT ![p] = Idle] \/ run' = [run EXCEPT ![p].pc = "fail"]
      BY <1>4 DEF complete, fail, queueFault, crash, markCompleted, markFailed,
         statementFails, pumpCrash
    <3>2. CASE run' = [run EXCEPT ![p] = Idle]
      BY <1>2, <2>1, <3>2 DEF Idle, StepFits
    <3>3. CASE run' = [run EXCEPT ![p].pc = "fail"]
      BY <1>2, <2>1, <3>3 DEF Runs, StepFits
    <3> QED
      BY <3>1, <3>2, <3>3
  <2>2. CASE q # p
    BY <1>2, <1>4, <2>2, StepKept
    DEF complete, fail, queueFault, crash, markCompleted, markFailed, statementFails,
        pumpCrash, Clear, chatVars
  <2> QED
    BY <2>1, <2>2
<1>5. ASSUME NEW p \in Pumps, Handler(p) PROVE StepFits(q)'
  <2>1. CASE q = p
    BY <1>5, <2>1, OwnStep
  <2>2. CASE q # p
    <3>1. run'[q] = run[q]
      BY <1>2, <1>5, <2>2
      DEF Handler, findBatchByRange, createBatch, enqueueEngineConsumeJobs, enqueue,
          setMemoryExtractCursor, checkLease, consume, setEngineOffset, readSummary,
          saveSummary, throw, Return, HandlerEnds, queueVars
    <3>2. step'[q] = step[q]
      BY <1>2, <1>5, <2>2
      DEF Handler, findBatchByRange, createBatch, enqueueEngineConsumeJobs,
          setMemoryExtractCursor, checkLease, consume, setEngineOffset, readSummary,
          saveSummary, throw, Return, Clear, Goto
    <3> QED
      BY <3>1, <3>2, StepKept
  <2> QED
    BY <2>1, <2>2
<1> QED
  BY <1>1, <1>3, <1>4, <1>5
  DEF Next, vars, chatVars, queueVars, addMessage, saveReply, enqueue, retry, retryFailed,
      expire, leaseExpires, renew, renewLease

(* No message is skipped: the cursor moves to the end of a range whose     *)
(* messages are in its batch, from a start before which all are covered.   *)
LEMMA CoverageStep == ChatInv /\ [Next]_vars => Reached' /\ NothingSkipped'
<1> SUFFICES ASSUME ChatInv, [Next]_vars PROVE Reached' /\ NothingSkipped'
  OBVIOUS
<1>1. ASSUME NEW m, Covered(m) PROVE Covered(m)'
  BY <1>1, LedgerGrows, QueueStep, CoveredKept DEF ChatInv
<1>2. \A m \in 1..cursor : Covered(m)'
  BY <1>1 DEF ChatInv, NothingSkipped, Covered
<1>3. Reached'
  <2> SUFFICES ASSUME NEW j \in ExtractJobs, status'[j] # "absent",
                      NEW m \in 1..(range'[j][1] - 1)
               PROVE  Covered(m)'
    BY DEF Reached
  <2>1. CASE saveReply
    <3>1. CASE status'[j] = status[j] /\ range'[j] = range[j]
      BY <1>1, <3>1 DEF ChatInv, Reached
    <3>2. CASE range'[j][1] = cursor + 1
      BY <1>2, <3>2 DEF ChatInv, TypeOK
    <3> QED
      BY <2>1, <3>1, <3>2, SavedRanges DEF ChatInv
  <2>2. CASE ~saveReply
    <3>1. range'[j] = range[j] /\ status[j] # "absent"
      BY <2>2, OnlySaveReply DEF ChatInv
    <3> QED
      BY <1>1, <3>1 DEF ChatInv, Reached
  <2> QED
    BY <2>1, <2>2
<1>4. NothingSkipped'
  <2> SUFFICES ASSUME NEW m \in 1..cursor' PROVE Covered(m)'
    BY DEF NothingSkipped, Covered
  <2>1. ASSUME NEW p \in Pumps, setMemoryExtractCursor(p) PROVE Covered(m)'
    <3> DEFINE r == RangeOf(p)
    <3>1. /\ run[p].job \in ExtractJobs
          /\ r \in batches
          /\ \A e \in Engines : status[<<e, r>>] # "absent"
      BY <2>1 DEF setMemoryExtractCursor, At, ChatInv, StepsFit, StepFits
    <3>2. r \in Ranges /\ cursor' = r[2]
      BY <2>1, <3>1 DEF setMemoryExtractCursor, ChatInv, TypeOK
    <3>3. m \in Int /\ 1 <= m /\ m <= r[2] /\ r[1] \in Int /\ r[2] \in Int
      BY <3>2, ChatAssumption DEF Ranges
    <3>4. CASE m < r[1]
      <4>1. status[run[p].job] # "absent"
        BY <3>1, RunsStarted, QueueAssumption, ChatAssumption DEF ChatInv
      <4>2. m \in 1..(range[run[p].job][1] - 1)
        BY <3>3, <3>4 DEF RangeOf
      <4> QED
        BY <1>1, <3>1, <4>1, <4>2 DEF ChatInv, Reached
    <3>5. CASE ~(m < r[1])
      <4>1. m \in r[1]..r[2]
        BY <3>3, <3>5
      <4>2. Covered(m)
        BY <3>1, <4>1 DEF Covered
      <4> QED
        BY <1>1, <4>2
    <3> QED
      BY <3>4, <3>5
  <2>2. CASE \A p \in Pumps : ~setMemoryExtractCursor(p)
    BY <1>2, <2>2, OnlySetCursor
  <2> QED
    BY <2>1, <2>2
<1> QED
  BY <1>3, <1>4

-----------------------------------------------------------------------------
(* No step but a retry by hand, or one of saveReply, makes an extraction   *)
(* or a summary job active.                                                *)
LEMMA OnlyActive ==
  ASSUME ChatInv, [Next]_vars, ~saveReply, NEW j \in ExtractJobs \cup SummaryJobs,
         ActiveJob(j)', ~ActiveJob(j)
  PROVE  retries' # 0
<1> USE ChatAssumption DEF ActiveJob
<1> USE DEF ChatInv, TypeOK, QueueTypeOK
<1>1. status[j] # "absent"
  BY OnlySaveReply
<1>2. [QueueNext]_queueVars
  BY QueueStep
<1>3. CASE UNCHANGED queueVars
  BY <1>3 DEF queueVars
<1>4. ASSUME NEW S \in SUBSET Jobs, enqueue(S) PROVE FALSE
  BY <1>1, <1>4 DEF enqueue
<1>5. ASSUME NEW i \in Jobs, retryFailed(i) PROVE retries' # 0
  BY <1>5 DEF retryFailed
<1>6. ASSUME NEW i \in Jobs, leaseExpires(i) PROVE FALSE
  BY <1>6 DEF leaseExpires
<1>7. ASSUME NEW p \in Pumps, claimNext(p) PROVE FALSE
  BY <1>7 DEF claimNext, Claimable
<1>8. ASSUME NEW p \in Pumps, markCompleted(p) PROVE FALSE
  BY <1>8 DEF markCompleted
<1>9. ASSUME NEW p \in Pumps, markFailed(p) PROVE FALSE
  BY <1>9 DEF markFailed, Holds
<1>10. CASE UNCHANGED status
  BY <1>10
<1> QED
  BY <1>2, <1>3, <1>4, <1>5, <1>6, <1>7, <1>8, <1>9, <1>10
  DEF QueueNext, renewLease, HandlerEnds, rows, statementFails, pumpCrash

(* The operator's retries are counted, never taken back.                   *)
LEMMA RetriesGrow == ChatInv /\ [Next]_vars /\ retries' = 0 => retries = 0
<1> SUFFICES ASSUME ChatInv, [QueueNext]_queueVars, retries' = 0 PROVE retries = 0
  BY QueueStep DEF ChatInv
<1> QED
  BY DEF ChatInv, TypeOK, QueueTypeOK, QueueNext, queueVars, enqueue, retryFailed, leaseExpires,
         claimNext, renewLease, HandlerEnds, markCompleted, markFailed, statementFails, pumpCrash

(* saveReply enqueues an extraction when none is active, from the cursor;  *)
(* the one active extraction alone moves the cursor, to its end.           *)
LEMMA GateStep == ChatInv /\ [Next]_vars => Gate'
<1> SUFFICES ASSUME ChatInv, [Next]_vars, retries' = 0,
                    NEW j \in ExtractJobs, ActiveJob(j)'
             PROVE  /\ range'[j][1] = cursor' + 1 \/ range'[j][2] = cursor'
                    /\ \A i \in ExtractJobs : ActiveJob(i)' => i = j
  BY DEF Gate
<1>1. \A i \in ExtractJobs : ActiveJob(i) =>
        /\ range[i][1] = cursor + 1 \/ range[i][2] = cursor
        /\ \A k \in ExtractJobs : ActiveJob(k) => k = i
  BY RetriesGrow DEF ChatInv, Gate
<1>2. CASE saveReply
  <2>1. cursor' = cursor
    BY <1>2 DEF saveReply
  <2>2. \A i \in ExtractJobs :
          \/ status'[i] = status[i] /\ range'[i] = range[i]
          \/ /\ range'[i][1] = cursor + 1
             /\ \A k \in ExtractJobs : ~ActiveJob(k)
    BY <1>2, SavedRanges DEF ChatInv, hasActiveJob, ActiveJob
  <2>3. CASE ActiveJob(j)
    BY <1>1, <2>1, <2>2, <2>3 DEF ActiveJob
  <2>4. CASE ~ActiveJob(j)
    <3>1. range'[j][1] = cursor + 1
      BY <2>2, <2>4 DEF ActiveJob
    <3>2. ASSUME NEW i \in ExtractJobs, ActiveJob(i)' PROVE i = j
      BY <1>2, <2>2, <2>4, <3>2, OneNewExtraction DEF ChatInv, ActiveJob
    <3> QED
      BY <2>1, <3>1, <3>2
  <2> QED
    BY <2>3, <2>4
<1>3. CASE ~saveReply
  <2>1. \A i \in ExtractJobs : range'[i] = range[i] /\ (ActiveJob(i)' => ActiveJob(i))
    BY <1>3, OnlySaveReply, OnlyActive DEF ChatInv
  <2>2. ASSUME NEW p \in Pumps, setMemoryExtractCursor(p) PROVE range[j][2] = cursor'
    <3>1. run[p].job \in ExtractJobs /\ ActiveJob(run[p].job) /\ cursor' = range[run[p].job][2]
      BY <2>2 DEF setMemoryExtractCursor, At, LeaseOwner, RangeOf, ActiveJob, ChatInv,
         StepsFit, StepFits
    <3> QED
      BY <1>1, <2>1, <3>1
  <2>3. CASE cursor' = cursor
    BY <1>1, <2>1, <2>3
  <2> QED
    BY <1>1, <2>1, <2>2, <2>3, OnlySetCursor
<1> QED
  BY <1>2, <1>3

-----------------------------------------------------------------------------
(* A new summary counts the messages of its range on top of the one read.  *)
LEMMA WrittenFits ==
  ASSUME ChatInv, NEW p \in Pumps, run[p].pc = "handle", step[p] = "save"
  PROVE  Written(p) \in [version : Nat, upTo : 0..MaxMessages, count : Nat]
<1>1. run[p].job \in SummaryJobs /\ run[p].job # NoJob
  BY ChatAssumption, QueueAssumption DEF ChatInv, StepsFit, StepFits
<1>2. RangeOf(p) \in Ranges
  BY <1>1, RunsStarted DEF ChatInv, RangesFit, RangeOf
<1>3. seen[p].version \in Nat /\ seen[p].count \in Nat
  BY DEF ChatInv, TypeOK
<1> DEFINE r == RangeOf(p)
<1>4. r[1] \in 1..MaxMessages /\ r[2] \in 1..MaxMessages /\ r[1] <= r[2]
  BY <1>2 DEF Ranges
<1> HIDE DEF r
<1>5. r[2] - r[1] + 1 + seen[p].count \in Nat /\ r[2] \in 0..MaxMessages
  BY <1>3, <1>4, ChatAssumption
<1> QED
  BY <1>3, <1>5 DEF Written, r

(* The conversation keeps its shape.                                       *)
LEMMA ChatTypeStep == ChatInv /\ [Next]_vars => TypeOK'
<1> SUFFICES ASSUME ChatInv, [Next]_vars PROVE TypeOK'
  OBVIOUS
<1> USE ChatAssumption
<1>1. QueueTypeOK'
  BY QueueStep, TypeStep DEF ChatInv, QueueInv
<1>2. TypeOK
  BY DEF ChatInv
<1>3. ASSUME UNCHANGED <<messages, range, base, cursor, batches, consumed, summary>>,
             step' \in [Pumps -> Labels],
             seen' \in [Pumps -> [version : Nat, upTo : 0..MaxMessages, count : Nat]]
      PROVE  TypeOK'
  BY <1>1, <1>2, <1>3 DEF TypeOK
<1>4. ASSUME NEW p \in Pumps, Clear(p)
      PROVE  /\ step' \in [Pumps -> Labels]
             /\ seen' \in [Pumps -> [version : Nat, upTo : 0..MaxMessages, count : Nat]]
  BY <1>2, <1>4 DEF Clear, TypeOK, Labels, NoSummary
<1>5. ASSUME NEW p \in Pumps, NEW label \in Labels, Goto(p, label)
      PROVE  step' \in [Pumps -> Labels]
  BY <1>2, <1>5 DEF Goto, TypeOK
<1>6. CASE UNCHANGED chatVars
  BY <1>2, <1>3, <1>6 DEF chatVars, TypeOK
<1>7. CASE addMessage
  BY <1>1, <1>2, <1>7 DEF addMessage, TypeOK
<1>8. CASE saveReply
  <2>1. range' \in [ExtractJobs \cup SummaryJobs -> (0..MaxMessages) \X (0..MaxMessages)]
    <3>1. \A j \in ExtractJobs \cup SummaryJobs : range'[j] = range[j] \/ range'[j] \in Ranges
      BY <1>2, <1>8, SavedRanges
    <3>2. DOMAIN range = ExtractJobs \cup SummaryJobs
      BY <1>2 DEF TypeOK
    <3>3. range' = [j \in ExtractJobs \cup SummaryJobs |-> range'[j]]
      BY <1>8, <3>2 DEF saveReply
    <3>4. Ranges \subseteq (0..MaxMessages) \X (0..MaxMessages)
      BY DEF Ranges
    <3> QED
      BY <1>2, <3>1, <3>3, <3>4 DEF TypeOK
  <2>2. base' \in [SummaryJobs -> Nat]
    BY <1>2, <1>8 DEF saveReply, TypeOK
  <2>3. messages' \in 0..MaxMessages /\ UNCHANGED <<cursor, batches, consumed, summary, step, seen>>
    BY <1>2, <1>8 DEF saveReply, TypeOK
  <2> QED
    BY <1>1, <1>2, <2>1, <2>2, <2>3 DEF TypeOK
<1>9. ASSUME NEW p \in Pumps, claim(p) PROVE TypeOK'
  <2>1. step' \in [Pumps -> Labels]
    BY <1>2, <1>9 DEF claim, First, Labels, TypeOK
  <2> QED
    BY <1>2, <1>3, <1>9, <2>1 DEF claim, TypeOK
<1>10. ASSUME NEW p \in Pumps, Handler(p) PROVE TypeOK'
  <2>1. CASE findBatchByRange(p)
    <3>1. \E label \in Labels : Goto(p, label)
      BY <2>1 DEF findBatchByRange, Labels
    <3> QED
      BY <1>2, <1>3, <1>5, <2>1, <3>1 DEF findBatchByRange, TypeOK
  <2>2. CASE createBatch(p)
    <3>1. RangeOf(p) \in Ranges
      <4>1. run[p].job \in ExtractJobs
        BY <2>2 DEF createBatch, At, ChatInv, StepsFit, StepFits
      <4> QED
        BY <4>1, RunsStarted, QueueAssumption DEF ChatInv, RangesFit, RangeOf
    <3>2. step' \in [Pumps -> Labels]
      BY <1>5, <2>2 DEF createBatch, Labels
    <3> QED
      BY <1>1, <1>2, <2>2, <3>1, <3>2 DEF createBatch, TypeOK
  <2>3. CASE enqueueEngineConsumeJobs(p)
    <3>1. step' \in [Pumps -> Labels]
      BY <1>5, <2>3 DEF enqueueEngineConsumeJobs, Labels
    <3> QED
      BY <1>2, <1>3, <2>3, <3>1 DEF enqueueEngineConsumeJobs, TypeOK
  <2>4. CASE setMemoryExtractCursor(p)
    <3>1. cursor' \in 0..MaxMessages
      <4>1. RangeOf(p) \in Ranges
        BY <2>4 DEF setMemoryExtractCursor, At, ChatInv, StepsFit, StepFits, TypeOK
      <4> QED
        BY <2>4, <4>1 DEF setMemoryExtractCursor, Ranges
    <3> QED
      BY <1>1, <1>2, <1>4, <2>4, <3>1 DEF setMemoryExtractCursor, Return, TypeOK
  <2>5. CASE checkLease(p)
    <3>1. step' \in [Pumps -> Labels]
      BY <1>5, <2>5 DEF checkLease, Labels
    <3> QED
      BY <1>2, <1>3, <2>5, <3>1 DEF checkLease, TypeOK
  <2>6. CASE consume(p)
    <3>1. run[p].job \in Engines \X Ranges
      BY <2>6 DEF consume, At, ChatInv, StepsFit, StepFits, ConsumeJobs
    <3>2. consumed' \in [Engines -> SUBSET Ranges]
      BY <1>2, <2>6, <3>1 DEF consume, TypeOK
    <3>3. step' \in [Pumps -> Labels]
      BY <1>5, <2>6 DEF consume, Labels
    <3> QED
      BY <1>1, <1>2, <2>6, <3>2, <3>3 DEF consume, TypeOK
  <2>7. CASE setEngineOffset(p) \/ throw(p)
    BY <1>3, <1>4, <2>7 DEF setEngineOffset, Return, throw
  <2>8. CASE readSummary(p)
    <3>1. CASE Return(p)
      BY <1>3, <1>4, <2>8, <3>1 DEF readSummary, Return
    <3>2. CASE ~Return(p)
      <4>1. Goto(p, "save") /\ seen' = [seen EXCEPT ![p] = summary]
        BY <2>8, <3>2 DEF readSummary
      <4>2. step' \in [Pumps -> Labels]
        BY <1>5, <4>1 DEF Labels
      <4> QED
        BY <1>2, <1>3, <2>8, <4>1, <4>2 DEF readSummary, TypeOK
    <3> QED
      BY <3>1, <3>2
  <2>9. CASE saveSummary(p)
    <3>1. summary' \in [version : Nat, upTo : 0..MaxMessages, count : Nat]
      BY <2>9, WrittenFits DEF saveSummary, At
    <3> QED
      BY <1>1, <1>2, <1>4, <2>9, <3>1 DEF saveSummary, Return, TypeOK
  <2> QED
    BY <1>10, <2>1, <2>2, <2>3, <2>4, <2>5, <2>6, <2>7, <2>8, <2>9 DEF Handler
<1>11. ASSUME NEW p \in Pumps, crash(p) PROVE TypeOK'
  BY <1>3, <1>4, <1>11 DEF crash
<1> QED
  BY <1>6, <1>7, <1>8, <1>9, <1>10, <1>11
  DEF Next, vars, retry, expire, renew, complete, fail, queueFault

-----------------------------------------------------------------------------
(* ChatInv is the inductive invariant.                                     *)
THEOREM ChatInvariant == Spec => []ChatInv
<1>1. ChatInv /\ [Next]_vars => ChatInv'
  <2> SUFFICES ASSUME ChatInv, [Next]_vars PROVE ChatInv'
    OBVIOUS
  <2>1. QueueInv'
    BY QueueStep, TypeStep, RowsStep, RunsStep, ApartStep DEF ChatInv, QueueInv
  <2> QED
    BY <2>1, ChatTypeStep, RangesStep, StepsStep, CoverageStep, GateStep DEF ChatInv
<1> QED
  BY ChatInit, <1>1, PTL DEF Spec

(* The conversation's variables have their types.                          *)
THEOREM ChatTypeCorrect == Spec => []TypeOK
BY ChatInvariant, PTL DEF ChatInv

(* The conversation uses its queue as the queue allows: what is proved of  *)
(* QueueSpec for handlers that may do anything holds of these.             *)
THEOREM ImplementsQueue == Spec => QueueSpec
<1>1. Init => QueueInit
  BY DEF Init
<1>2. ChatInv /\ [Next]_vars => [QueueNext]_queueVars
  BY QueueStep DEF ChatInv
<1> QED
  BY <1>1, <1>2, ChatInvariant, PTL DEF Spec, QueueSpec

(* The fence and the bounds on attempts hold while the handlers run.       *)
THEOREM ChatQueueSafe ==
  Spec => [](PendingIsClaimable /\ AttemptsBounded /\ Fenced) /\ CompletedIsFinal
BY ImplementsQueue, QueueSafe, CompletionIsFinal, PTL

(* Each message before the extraction cursor is in a batch that each       *)
(* engine has a job for, whatever crashes, lease losses and retries the    *)
(* handlers meet on the way.                                               *)
THEOREM NoMessageForgotten == Spec => []NothingSkipped
BY ChatInvariant, PTL DEF ChatInv

(* Until an operator retries by hand, the gate of saveReply lets one       *)
(* extraction be active, and the cursor only moves on.                     *)
THEOREM OneExtraction == Spec => []OneActiveExtraction
<1>1. ChatInv => OneActiveExtraction
  <2> DEFINE A == {j \in ExtractJobs : status[j] \in {"pending", "claimed"}}
  <2> SUFFICES ASSUME ChatInv, retries = 0 PROVE Cardinality(A) <= 1
    BY DEF OneActiveExtraction
  <2>1. \A i, j \in A : i = j
    BY DEF ChatInv, Gate, ActiveJob
  <2>2. CASE A = {}
    BY <2>2, FS_EmptySet
  <2>3. CASE A # {}
    <3>1. PICK j \in A : TRUE
      BY <2>3
    <3>2. A = {j}
      BY <2>1, <3>1
    <3>3. Cardinality({j}) = 1
      BY FS_Singleton
    <3> QED
      BY <3>2, <3>3
  <2> QED
    BY <2>2, <2>3
<1> QED
  BY <1>1, ChatInvariant, PTL

(* The one active extraction starts at the cursor or has moved it already. *)
LEMMA CursorStep == ChatInv /\ [Next]_vars => (retries = 0 => cursor' >= cursor)
<1> SUFFICES ASSUME ChatInv, [Next]_vars, retries = 0 PROVE cursor' >= cursor
  OBVIOUS
<1>1. cursor \in 0..MaxMessages
  BY DEF ChatInv, TypeOK
<1>2. ASSUME NEW p \in Pumps, setMemoryExtractCursor(p) PROVE cursor' >= cursor
  <2>1. /\ run[p].job \in ExtractJobs /\ ActiveJob(run[p].job)
        /\ RangeOf(p) \in batches /\ cursor' = RangeOf(p)[2]
    BY <1>2 DEF setMemoryExtractCursor, At, LeaseOwner, ActiveJob, ChatInv, StepsFit, StepFits
  <2>2. RangeOf(p) \in Ranges
    BY <2>1 DEF ChatInv, TypeOK
  <2>3. RangeOf(p)[1] = cursor + 1 \/ RangeOf(p)[2] = cursor
    BY <2>1 DEF ChatInv, Gate, RangeOf
  <2> QED
    BY <1>1, <2>1, <2>2, <2>3, ChatAssumption DEF Ranges
<1>3. CASE cursor' = cursor
  BY <1>1, <1>3, ChatAssumption
<1> QED
  BY <1>2, <1>3, OnlySetCursor

(* Until an operator retries by hand, the cursor only moves on.            *)
THEOREM CursorGoesOn == Spec => CursorNeverBack
<1>1. ChatInv /\ [Next]_vars => [retries = 0 => cursor' >= cursor]_vars
  BY CursorStep
<1> QED
  BY <1>1, ChatInvariant, PTL DEF Spec, CursorNeverBack

-----------------------------------------------------------------------------
(* The summary: without retries by hand one job is active, it starts at    *)
(* the end of the summary or has moved it, and the run that may save has   *)
(* read the summary it replaces.                                           *)
SummaryGate ==
  retries = 0 =>
    /\ \A j \in SummaryJobs : ActiveJob(j) =>
         /\ range[j][1] = summary.upTo + 1 \/ range[j][2] = summary.upTo
         /\ \A i \in SummaryJobs : ActiveJob(i) => i = j
    /\ \A p \in Pumps : At(p, "save") /\ Holds(p) => seen[p] = summary

(* What saveReply does to the summary jobs.                                *)
LEMMA SavedSummaries ==
  ASSUME TypeOK, saveReply
  PROVE  \A j \in SummaryJobs :
           \/ status'[j] = status[j] /\ range'[j] = range[j] /\ base'[j] = base[j]
           \/ /\ range'[j][1] = summary.upTo + 1 /\ base'[j] = summary.version
              /\ status[j] = "absent" /\ ~hasActiveJob(SummaryJobs)
<1> USE ChatAssumption
<1> DEFINE n == messages + 1
<1>1. PICK extracts \in ExtractTrigger(n), sums \in SummaryTrigger(n) :
        /\ enqueue(extracts \cup sums)
        /\ range' = [j \in DOMAIN range |->
                       CASE j \in extracts -> listAfter(cursor, n, ExtractMax)
                         [] j \in sums -> listAfter(summary.upTo, n, SummaryMax)
                         [] OTHER -> range[j]]
        /\ base' = [j \in SummaryJobs |-> IF j \in sums THEN summary.version ELSE base[j]]
  BY DEF saveReply
<1>2. extracts \cap SummaryJobs = {} /\ (sums # {} => ~hasActiveJob(SummaryJobs))
  BY DEF ExtractTrigger, SummaryTrigger, NewJob
<1> SUFFICES ASSUME NEW j \in SummaryJobs
             PROVE  \/ status'[j] = status[j] /\ range'[j] = range[j] /\ base'[j] = base[j]
                    \/ /\ range'[j][1] = summary.upTo + 1 /\ base'[j] = summary.version
                       /\ status[j] = "absent" /\ ~hasActiveJob(SummaryJobs)
  OBVIOUS
<1>3. j \in DOMAIN range /\ j \in Jobs /\ j \notin extracts
  BY <1>2 DEF TypeOK
<1>4. CASE j \in sums
  <2>1. range'[j] = listAfter(summary.upTo, n, SummaryMax)
    BY <1>1, <1>3, <1>4
  <2>2. base'[j] = summary.version /\ status[j] = "absent"
    BY <1>1, <1>4 DEF enqueue
  <2> QED
    BY <1>2, <1>4, <2>1, <2>2 DEF listAfter
<1>5. CASE j \notin sums
  <2>1. range'[j] = range[j]
    BY <1>1, <1>3, <1>5
  <2>2. status'[j] = status[j]
    BY <1>1, <1>3, <1>5 DEF enqueue
  <2>3. base'[j] = base[j]
    BY <1>1, <1>5
  <2> QED
    BY <2>1, <2>2, <2>3
<1> QED
  BY <1>4, <1>5

LEMMA OneNewSummary ==
  ASSUME TypeOK, saveReply, NEW i \in SummaryJobs, NEW j \in SummaryJobs,
         status'[i] # status[i], status'[j] # status[j]
  PROVE  i = j
<1>1. PICK extracts \in ExtractTrigger(messages + 1), sums \in SummaryTrigger(messages + 1) :
        enqueue(extracts \cup sums)
  BY DEF saveReply
<1>2. i \in extracts \cup sums /\ j \in extracts \cup sums
  BY <1>1, ChatAssumption DEF enqueue, TypeOK, QueueTypeOK
<1>3. extracts \cap SummaryJobs = {}
  BY ChatAssumption DEF ExtractTrigger, NewJob
<1>4. sums = {} \/ \E k \in SummaryJobs : sums = {k}
  BY DEF SummaryTrigger, NewJob
<1> QED
  BY <1>2, <1>3, <1>4

(* saveSummary alone writes the summary.                                   *)
LEMMA OnlySaveSummary ==
  ASSUME [Next]_vars, \A p \in Pumps : ~saveSummary(p)
  PROVE  summary' = summary
BY DEF Next, vars, chatVars, addMessage, saveReply, retry, expire, claim, renew, complete,
       fail, queueFault, crash, Handler, findBatchByRange, createBatch,
       enqueueEngineConsumeJobs, setMemoryExtractCursor, checkLease, consume,
       setEngineOffset, readSummary, throw

(* A run is about to save because it has just read, or was before and      *)
(* still remembers what it read.                                           *)
LEMMA SaveKept ==
  ASSUME TypeOK, [Next]_vars, NEW q \in Pumps, At(q, "save")', ~readSummary(q)
  PROVE  At(q, "save") /\ run'[q].job = run[q].job /\ seen'[q] = seen[q] /\ ~saveSummary(q)
<1> USE DEF At, TypeOK, QueueTypeOK, Runs
<1> DEFINE Goal == At(q, "save") /\ run'[q].job = run[q].job /\ seen'[q] = seen[q]
                   /\ ~saveSummary(q)
<1>a. ASSUME UNCHANGED chatVars, run'[q] = run[q] PROVE Goal
  <2>1. step'[q] = step[q] /\ seen'[q] = seen[q]
    BY <1>a DEF chatVars
  <2>2. ~saveSummary(q)
    BY <1>a DEF saveSummary, Return, HandlerEnds
  <2> QED
    BY <1>a, <2>1, <2>2
<1>b. ASSUME NEW p \in Pumps, p # q,
             \A r \in Pumps : r # p => run'[r] = run[r] /\ step'[r] = step[r] /\ seen'[r] = seen[r]
      PROVE  Goal
  <2>1. run'[q] = run[q] /\ step'[q] = step[q] /\ seen'[q] = seen[q]
    BY <1>b
  <2>2. ~saveSummary(q)
    BY <2>1 DEF saveSummary, Return, HandlerEnds
  <2> QED
    BY <2>1, <2>2
<1>1. CASE UNCHANGED vars
  BY <1>a, <1>1 DEF vars, queueVars
<1>2. CASE addMessage
  <2>1. run'[q] = run[q] /\ step'[q] = step[q] /\ seen'[q] = seen[q]
    BY <1>2 DEF addMessage, queueVars
  <2>2. ~saveSummary(q)
    BY <2>1 DEF saveSummary, Return, HandlerEnds
  <2> QED
    BY <2>1, <2>2
<1>3. CASE saveReply
  <2>1. run'[q] = run[q] /\ step'[q] = step[q] /\ seen'[q] = seen[q]
    BY <1>3 DEF saveReply, enqueue
  <2>2. ~saveSummary(q)
    BY <2>1 DEF saveSummary, Return, HandlerEnds
  <2> QED
    BY <2>1, <2>2
<1>4. ASSUME NEW i \in Jobs, retry(i) \/ expire(i) PROVE Goal
  BY <1>a, <1>4 DEF retry, expire, retryFailed, leaseExpires
<1>5. ASSUME NEW p \in Pumps, renew(p) PROVE Goal
  BY <1>a, <1>5 DEF renew, renewLease
<1>6. ASSUME NEW p \in Pumps, complete(p) \/ fail(p) \/ queueFault(p) PROVE Goal
  <2>1. run'[q] = run[q] \/ run'[q].pc # "handle"
    BY <1>6 DEF complete, fail, queueFault, markCompleted, markFailed, statementFails, Idle
  <2>2. UNCHANGED chatVars
    BY <1>6 DEF complete, fail, queueFault
  <2> QED
    BY <1>a, <2>1, <2>2
<1>7. ASSUME NEW p \in Pumps, claim(p) PROVE Goal
  <2>1. CASE p = q
    BY <1>7, <2>1 DEF claim, First
  <2>2. CASE p # q
    BY <1>b, <1>7, <2>2 DEF claim, claimNext
  <2> QED
    BY <2>1, <2>2
<1>8. ASSUME NEW p \in Pumps, crash(p) PROVE Goal
  <2>1. CASE p = q
    BY <1>8, <2>1 DEF crash, Clear
  <2>2. CASE p # q
    BY <1>b, <1>8, <2>2 DEF crash, pumpCrash, Clear
  <2> QED
    BY <2>1, <2>2
<1>9. ASSUME NEW p \in Pumps, Handler(p) PROVE Goal
  <2>1. ASSUME NEW label, HandlerEnds(p, label)
        PROVE  \A r \in Pumps : r # p => run'[r] = run[r]
    BY <2>1 DEF HandlerEnds
  <2>2. ASSUME Clear(p)
        PROVE  /\ step'[p] = "none"
               /\ \A r \in Pumps : r # p => step'[r] = step[r] /\ seen'[r] = seen[r]
    BY <2>2 DEF Clear
  <2>3. ASSUME NEW label, Goto(p, label)
        PROVE  step'[p] = label /\ \A r \in Pumps : r # p => step'[r] = step[r]
    BY <2>3 DEF Goto
  <2>4. CASE Return(p) \/ throw(p)
    <3>1. step'[p] = "none" /\ \A r \in Pumps : r # p =>
            run'[r] = run[r] /\ step'[r] = step[r] /\ seen'[r] = seen[r]
      BY <2>1, <2>2, <2>4 DEF Return, throw
    <3> QED
      BY <1>b, <3>1
  <2>5. CASE findBatchByRange(p) \/ createBatch(p) \/ enqueueEngineConsumeJobs(p)
             \/ checkLease(p) \/ consume(p)
    <3>1. run' = run /\ seen' = seen
      BY <2>5 DEF findBatchByRange, createBatch, enqueueEngineConsumeJobs, checkLease, consume,
                  enqueue, queueVars
    <3>2. PICK label \in {"fanOut", "extract", "cursor", "consume", "offset"} : Goto(p, label)
      BY <2>5 DEF findBatchByRange, createBatch, enqueueEngineConsumeJobs, checkLease, consume
    <3>3. step'[p] # "save" /\ \A r \in Pumps : r # p => step'[r] = step[r]
      BY <2>3, <3>2
    <3> QED
      BY <1>b, <3>1, <3>3
  <2>6. CASE readSummary(p) /\ ~Return(p)
    <3>1. /\ Goto(p, "save") /\ run' = run
          /\ \A r \in Pumps : r # p => seen'[r] = seen[r]
      BY <2>6 DEF readSummary, queueVars
    <3> QED
      BY <1>b, <2>3, <2>6, <3>1
  <2> QED
    BY <1>9, <2>4, <2>5, <2>6
    DEF Handler, setMemoryExtractCursor, setEngineOffset, saveSummary, readSummary
<1> QED
  BY <1>1, <1>2, <1>3, <1>4, <1>5, <1>6, <1>7, <1>8, <1>9 DEF Next

(* The one that saves holds the one active job.                            *)
LEMMA Saver ==
  ASSUME ChatInv, NEW p \in Pumps, saveSummary(p)
  PROVE  /\ run[p].job \in SummaryJobs /\ ActiveJob(run[p].job)
         /\ At(p, "save") /\ Holds(p)
         /\ range[run[p].job] \in Ranges
         /\ summary' = Written(p)
<1>1. At(p, "save") /\ LeaseOwner(p) /\ summary' = Written(p)
  BY DEF saveSummary
<1>2. run[p].job \in SummaryJobs
  BY <1>1 DEF At, ChatInv, StepsFit, StepFits
<1>3. ActiveJob(run[p].job) /\ Holds(p)
  BY <1>1 DEF LeaseOwner, Holds, ActiveJob
<1> QED
  BY <1>1, <1>2, <1>3 DEF ChatInv, RangesFit, ActiveJob

LEMMA SummaryGateStep == ChatInv /\ SummaryGate /\ [Next]_vars => SummaryGate'
<1> SUFFICES ASSUME ChatInv, SummaryGate, [Next]_vars, retries' = 0
             PROVE  /\ \A j \in SummaryJobs : ActiveJob(j)' =>
                         /\ range'[j][1] = summary'.upTo + 1 \/ range'[j][2] = summary'.upTo
                         /\ \A i \in SummaryJobs : ActiveJob(i)' => i = j
                    /\ \A p \in Pumps : At(p, "save")' /\ Holds(p)' => seen'[p] = summary'
  BY DEF SummaryGate
<1>0. /\ \A j \in SummaryJobs : ActiveJob(j) =>
           /\ range[j][1] = summary.upTo + 1 \/ range[j][2] = summary.upTo
           /\ \A i \in SummaryJobs : ActiveJob(i) => i = j
      /\ \A p \in Pumps : At(p, "save") /\ Holds(p) => seen[p] = summary
  BY RetriesGrow DEF SummaryGate
<1>1. ASSUME NEW j \in SummaryJobs, ActiveJob(j)'
      PROVE  /\ range'[j][1] = summary'.upTo + 1 \/ range'[j][2] = summary'.upTo
             /\ \A i \in SummaryJobs : ActiveJob(i)' => i = j
  <2>1. CASE saveReply
    <3>1. summary' = summary
      BY <2>1 DEF saveReply
    <3>2. \A i \in SummaryJobs :
            \/ status'[i] = status[i] /\ range'[i] = range[i]
            \/ /\ range'[i][1] = summary.upTo + 1
               /\ \A k \in SummaryJobs : ~ActiveJob(k)
      BY <2>1, SavedSummaries DEF ChatInv, hasActiveJob, ActiveJob
    <3>3. CASE ActiveJob(j)
      BY <1>0, <1>1, <3>1, <3>2, <3>3 DEF ActiveJob
    <3>4. CASE ~ActiveJob(j)
      <4>1. range'[j][1] = summary.upTo + 1
        BY <1>1, <3>2, <3>4 DEF ActiveJob
      <4>2. ASSUME NEW i \in SummaryJobs, ActiveJob(i)' PROVE i = j
        BY <1>1, <2>1, <3>2, <3>4, <4>2, OneNewSummary DEF ChatInv, ActiveJob
      <4> QED
        BY <3>1, <4>1, <4>2
    <3> QED
      BY <3>3, <3>4
  <2>2. CASE ~saveReply
    <3>1. \A i \in SummaryJobs : range'[i] = range[i] /\ (ActiveJob(i)' => ActiveJob(i))
      BY <2>2, OnlySaveReply, OnlyActive DEF ChatInv
    <3>2. ASSUME NEW p \in Pumps, saveSummary(p) PROVE range[j][2] = summary'.upTo
      <4>1. run[p].job \in SummaryJobs /\ ActiveJob(run[p].job) /\ summary' = Written(p)
        BY <3>2, Saver
      <4>2. run[p].job = j
        BY <1>0, <1>1, <3>1, <4>1
      <4> QED
        BY <4>1, <4>2 DEF Written, RangeOf
    <3>3. CASE summary' = summary
      BY <1>0, <1>1, <3>1, <3>3
    <3> QED
      BY <1>0, <1>1, <3>1, <3>2, <3>3, OnlySaveSummary
  <2> QED
    BY <2>1, <2>2
<1>2. ASSUME NEW q \in Pumps, At(q, "save")', Holds(q)' PROVE seen'[q] = summary'
  <2>1. CASE readSummary(q)
    BY <1>2, <2>1 DEF readSummary, Return, Clear, At, Goto, ChatInv, TypeOK
  <2>2. CASE ~readSummary(q)
    <3>1. At(q, "save") /\ run'[q].job = run[q].job /\ seen'[q] = seen[q] /\ ~saveSummary(q)
      BY <1>2, <2>2, SaveKept DEF ChatInv
    <3>2. Holds(q)
      <4>1. QueueTypeOK /\ [QueueNext]_queueVars /\ run[q].pc # "idle"
        BY <3>1, QueueStep DEF ChatInv, TypeOK, At
      <4> QED
        BY <1>2, <3>1, <4>1, HoldsKept
    <3>3. seen[q] = summary
      BY <1>0, <3>1, <3>2
    <3>4. ASSUME NEW p \in Pumps, saveSummary(p) PROVE FALSE
      <4>1. run[p].job \in SummaryJobs /\ ActiveJob(run[p].job) /\ Holds(p)
        BY <3>4, Saver
      <4>2. run[q].job \in SummaryJobs
        BY <3>1 DEF At, ChatInv, StepsFit, StepFits
      <4>3. run[p].job = run[q].job
        BY <1>0, <3>2, <4>1, <4>2 DEF Holds, ActiveJob
      <4>4. p = q
        BY <3>2, <4>1, <4>3 DEF Holds
      <4> QED
        BY <3>1, <3>4, <4>4
    <3>5. summary' = summary
      BY <3>4, OnlySaveSummary
    <3> QED
      BY <3>1, <3>3, <3>5
  <2> QED
    BY <2>1, <2>2
<1> QED
  BY <1>1, <1>2

(* Until an operator retries by hand, a summary gives way only to one made *)
(* from it, and never to one that covers less, whatever crashes and        *)
(* take-overs its jobs meet while they wait for the model.                 *)
THEOREM SummaryGoesOn == Spec => SummaryNeverBack
<1>1. Init => SummaryGate
  <2> SUFFICES ASSUME Init PROVE SummaryGate
    OBVIOUS
  <2>1. /\ \A j \in SummaryJobs : ~ActiveJob(j)
        /\ \A p \in Pumps : run[p].pc = "idle"
    BY ChatAssumption DEF Init, QueueInit, Idle, ActiveJob
  <2> QED
    BY <2>1 DEF SummaryGate, At
<1>2. ChatInv /\ SummaryGate /\ [Next]_vars =>
        [retries = 0 /\ summary' # summary =>
           summary'.version = summary.version + 1 /\ summary'.upTo >= summary.upTo]_vars
  <2> SUFFICES ASSUME ChatInv, SummaryGate, [Next]_vars, retries = 0, summary' # summary
               PROVE  summary'.version = summary.version + 1 /\ summary'.upTo >= summary.upTo
    OBVIOUS
  <2>1. PICK p \in Pumps : saveSummary(p)
    BY OnlySaveSummary
  <2> DEFINE r == range[run[p].job]
  <2>2. /\ run[p].job \in SummaryJobs /\ ActiveJob(run[p].job)
        /\ At(p, "save") /\ Holds(p) /\ r \in Ranges /\ summary' = Written(p)
    BY <2>1, Saver
  <2>3. summary'.version = seen[p].version + 1 /\ summary'.upTo = r[2]
    BY <2>2 DEF Written, RangeOf
  <2>4. seen[p] = summary /\ (r[1] = summary.upTo + 1 \/ r[2] = summary.upTo)
    BY <2>2 DEF SummaryGate
  <2>5. summary.upTo \in 0..MaxMessages
    BY DEF ChatInv, TypeOK
  <2> QED
    BY <2>2, <2>3, <2>4, <2>5, ChatAssumption DEF Ranges
<1> QED
  BY <1>1, <1>2, SummaryGateStep, ChatInvariant, PTL DEF Spec, SummaryNeverBack

-----------------------------------------------------------------------------
(* How far the findings reach.                                             *)

(* createBatch alone adds to the ledger.                                   *)
LEMMA OnlyCreateBatch ==
  ASSUME [Next]_vars, \A p \in Pumps : ~createBatch(p)
  PROVE  batches' = batches
BY DEF Next, vars, chatVars, addMessage, saveReply, retry, expire, claim, renew, complete,
       fail, queueFault, crash, Handler, findBatchByRange, enqueueEngineConsumeJobs,
       setMemoryExtractCursor, checkLease, consume, setEngineOffset, readSummary,
       saveSummary, throw

(* The one that adds a batch or moves the cursor holds an extraction.      *)
LEMMA Extractor ==
  ASSUME ChatInv, NEW p \in Pumps, createBatch(p) \/ setMemoryExtractCursor(p)
  PROVE  /\ run[p].job \in ExtractJobs /\ ActiveJob(run[p].job) /\ Holds(p)
         /\ RangeOf(p) \in Ranges /\ RangeOf(p) = range[run[p].job]
<1>1. run[p].job \in ExtractJobs /\ LeaseOwner(p)
  BY DEF createBatch, setMemoryExtractCursor, At, ChatInv, StepsFit, StepFits
<1> QED
  BY <1>1 DEF LeaseOwner, Holds, ActiveJob, RangeOf, ChatInv, RangesFit

(* While an extraction is abandoned, nothing of the memory moves.          *)
LEMMA AbandonedBlocks ==
  ASSUME ChatInv, [Next]_vars, NEW j \in ExtractJobs, Abandoned(j)
  PROVE  /\ Abandoned(j)'
         /\ retries' = 0 => cursor' = cursor /\ batches' = batches
         /\ \A i \in ExtractJobs : status[i] = "absent" => status'[i] = "absent"
<1>1. Abandoned(j)'
  BY QueueStep, AbandonedStep, ChatAssumption DEF ChatInv
<1>2. ASSUME retries' = 0 PROVE cursor' = cursor /\ batches' = batches
  <2>1. \A i \in ExtractJobs : ActiveJob(i) => i = j
    BY <1>2, RetriesGrow DEF ChatInv, Gate, Abandoned, ActiveJob
  <2>2. \A p \in Pumps : ~createBatch(p) /\ ~setMemoryExtractCursor(p)
    BY <2>1, Extractor DEF Abandoned
  <2> QED
    BY <2>2, OnlyCreateBatch, OnlySetCursor
<1>3. ASSUME NEW i \in ExtractJobs, status[i] = "absent" PROVE status'[i] = "absent"
  <2>1. hasActiveJob(ExtractJobs)
    BY DEF hasActiveJob, Abandoned
  <2>2. CASE saveReply
    BY <1>3, <2>1, <2>2, SavedRanges DEF ChatInv
  <2>3. CASE ~saveReply
    BY <1>3, <2>3, OnlySaveReply DEF ChatInv
  <2> QED
    BY <2>2, <2>3
<1> QED
  BY <1>1, <1>2, <1>3

(* The last attempt of an extraction has died with its process: whatever   *)
(* messages follow, the cursor and the ledger stay as they are until an    *)
(* operator retries some other job by hand; this one he cannot.            *)
THEOREM MemoryStandsStill ==
  ASSUME NEW j \in ExtractJobs, NEW c, NEW b
  PROVE  Spec => [](Abandoned(j) /\ retries = 0 /\ cursor = c /\ batches = b
                    => [](retries = 0 => cursor = c /\ batches = b))
<1> DEFINE Still == retries = 0 => cursor = c /\ batches = b
<1>1. ChatInv /\ Abandoned(j) /\ Still /\ [Next]_vars => Abandoned(j)' /\ Still'
  BY AbandonedBlocks, RetriesGrow
<1>2. Abandoned(j) /\ retries = 0 /\ cursor = c /\ batches = b => Still
  OBVIOUS
<1>3. Still => (retries = 0 => cursor = c /\ batches = b)
  OBVIOUS
<1> HIDE DEF Still
<1> QED
  BY <1>1, <1>2, <1>3, ChatInvariant, PTL DEF Spec

(* Nor is another extraction enqueued, by any reply: hasActiveJob counts   *)
(* the abandoned one as active for ever.                                   *)
THEOREM NoNewExtraction ==
  ASSUME NEW j \in ExtractJobs, NEW i \in ExtractJobs
  PROVE  Spec => [](Abandoned(j) /\ status[i] = "absent" => [](status[i] = "absent"))
<1>1. ChatInv /\ Abandoned(j) /\ status[i] = "absent" /\ [Next]_vars
        => Abandoned(j)' /\ (status[i] = "absent")'
  BY AbandonedBlocks
<1> QED
  BY <1>1, ChatInvariant, PTL DEF Spec

-----------------------------------------------------------------------------
(* The batches of the ledger: behind the cursor, or from the cursor on and *)
(* within what a reply could have enqueued.  The active extraction, from   *)
(* the same start, reaches as far as any of them.                          *)
Apart(r, s) == r[2] < s[1] \/ s[2] < r[1]

Ahead(r) == r[1] = cursor + 1 /\ r[2] <= cursor + ExtractMax /\ r[2] <= messages

LedgerInv ==
  retries = 0 =>
    /\ \A r \in batches : r[2] <= cursor \/ Ahead(r)
    /\ \A j \in ExtractJobs : ActiveJob(j) =>
         \/ /\ Ahead(range[j])
            /\ \A r \in batches : r[1] = cursor + 1 => r[2] <= range[j][2]
         \/ range[j][2] = cursor /\ range[j] \in batches /\ \A r \in batches : r[2] <= cursor
    /\ \A r, s \in batches : Apart(r, s) \/ r[1] = s[1]

(* Until an operator retries a job by hand, two batches share messages     *)
(* only where the range of one starts the range of the other: the gate of  *)
(* saveReply and the cursor rule out every other overlap.                  *)
TwiceOnlyAsPrefix ==
  retries = 0 => \A r, s \in batches : Apart(r, s) \/ r[1] = s[1]

(* Messages are only added, and by these two.                              *)
LEMMA MessagesGrow ==
  ASSUME TypeOK, [Next]_vars
  PROVE  messages' = messages \/ messages' = messages + 1
BY DEF Next, vars, chatVars, addMessage, saveReply, retry, expire, claim, renew, complete,
       fail, queueFault, crash, Handler, findBatchByRange, createBatch,
       enqueueEngineConsumeJobs, setMemoryExtractCursor, checkLease, consume,
       setEngineOffset, readSummary, saveSummary, throw

(* A new range of the same start reaches as far as any batch ahead of the  *)
(* cursor.                                                                 *)
LEMMA ListAfterReaches ==
  ASSUME NEW c \in Nat, NEW n \in Nat, NEW r \in Nat, r <= c + ExtractMax, r <= n
  PROVE  /\ r <= listAfter(c, n + 1, ExtractMax)[2]
         /\ listAfter(c, n + 1, ExtractMax)[2] <= c + ExtractMax
         /\ listAfter(c, n + 1, ExtractMax)[2] <= n + 1
BY ChatAssumption DEF listAfter

LEMMA LedgerStep == ChatInv /\ LedgerInv /\ [Next]_vars => LedgerInv'
<1> SUFFICES ASSUME ChatInv, LedgerInv, [Next]_vars, retries' = 0
             PROVE  /\ \A r \in batches' : r[2] <= cursor' \/ Ahead(r)'
                    /\ \A j \in ExtractJobs : ActiveJob(j)' =>
                         \/ /\ Ahead(range[j])'
                            /\ \A r \in batches' : r[1] = cursor' + 1 => r[2] <= range'[j][2]
                         \/ range'[j][2] = cursor' /\ range'[j] \in batches' /\ \A r \in batches' : r[2] <= cursor'
                    /\ \A r, s \in batches' : Apart(r, s) \/ r[1] = s[1]
  BY DEF LedgerInv
<1>1. /\ \A r \in batches : r[2] <= cursor \/ Ahead(r)
      /\ \A j \in ExtractJobs : ActiveJob(j) =>
           \/ /\ Ahead(range[j])
              /\ \A r \in batches : r[1] = cursor + 1 => r[2] <= range[j][2]
           \/ range[j][2] = cursor /\ range[j] \in batches /\ \A r \in batches : r[2] <= cursor
      /\ \A r, s \in batches : Apart(r, s) \/ r[1] = s[1]
      /\ \A i, j \in ExtractJobs : ActiveJob(i) /\ ActiveJob(j) => i = j
  BY RetriesGrow DEF LedgerInv, ChatInv, Gate
<1>2. /\ cursor \in Nat /\ messages \in Nat /\ ExtractMax \in Nat /\ MaxMessages \in Nat
      /\ \A r \in Ranges : r[1] \in Nat /\ r[2] \in Nat /\ r[1] <= r[2]
      /\ batches \subseteq Ranges
  BY ChatAssumption DEF ChatInv, TypeOK, Ranges
<1>3. messages' = messages \/ messages' = messages + 1
  BY MessagesGrow DEF ChatInv
<1>4. CASE saveReply
  <2>1. cursor' = cursor /\ batches' = batches /\ messages' = messages + 1
    BY <1>4 DEF saveReply
  <2>2. \A r : Ahead(r) /\ r \in Ranges => Ahead(r)'
    BY <1>2, <2>1 DEF Ahead
  <2>3. ASSUME NEW j \in ExtractJobs, ActiveJob(j)'
        PROVE  \/ /\ Ahead(range[j])'
                  /\ \A r \in batches : r[1] = cursor + 1 => r[2] <= range'[j][2]
               \/ range'[j][2] = cursor /\ range'[j] \in batches /\ \A r \in batches : r[2] <= cursor
    <3>1. CASE status'[j] = status[j] /\ range'[j] = range[j]
      <4>1. ActiveJob(j) /\ range[j] \in Ranges
        BY <2>3, <3>1 DEF ActiveJob, ChatInv, RangesFit
      <4> QED
        BY <1>1, <1>2, <2>1, <3>1, <4>1 DEF Ahead
    <3>2. CASE range'[j] = listAfter(cursor, messages + 1, ExtractMax)
      <4> DEFINE R == listAfter(cursor, messages + 1, ExtractMax)
      <4>1. R[1] = cursor + 1
        BY DEF listAfter
      <4>2. 0 <= cursor + ExtractMax
        BY <1>2
      <4>3. R[2] <= cursor + ExtractMax /\ R[2] <= messages + 1
        BY <1>2, <4>2, ListAfterReaches
      <4>4. ASSUME NEW r \in batches, r[1] = cursor + 1 PROVE r[2] <= R[2]
        <5>1. r[2] \in Nat /\ r[2] <= cursor + ExtractMax /\ r[2] <= messages
          BY <1>1, <1>2, <4>4 DEF Ahead
        <5> QED
          BY <1>2, <5>1, ListAfterReaches
      <4> HIDE DEF R
      <4>5. range'[j] = R
        BY <3>2 DEF R
      <4> QED
        BY <2>1, <4>1, <4>3, <4>4, <4>5 DEF Ahead
    <3> QED
      BY <1>4, <3>1, <3>2, SavedRanges DEF ChatInv
  <2> QED
    BY <1>1, <1>2, <2>1, <2>2, <2>3
<1>5. CASE ~saveReply
  <2>1. \A i \in ExtractJobs : range'[i] = range[i] /\ (ActiveJob(i)' => ActiveJob(i))
    BY <1>5, OnlySaveReply, OnlyActive DEF ChatInv
  <2>2. ASSUME NEW p \in Pumps, createBatch(p)
        PROVE  LedgerInv'
    <3> DEFINE j == run[p].job
               R == range[j]
    <3>1. /\ j \in ExtractJobs /\ ActiveJob(j) /\ R \in Ranges
          /\ R \notin batches /\ batches' = batches \cup {R}
          /\ cursor' = cursor /\ messages' = messages
      BY <2>2, Extractor DEF createBatch, RangeOf
    <3>2. Ahead(R) /\ \A r \in batches : r[1] = cursor + 1 => r[2] <= R[2]
      BY <1>1, <3>1
    <3>3. \A r \in batches : (Apart(r, R) /\ Apart(R, r)) \/ r[1] = R[1]
      BY <1>1, <1>2, <3>1, <3>2 DEF Apart, Ahead
    <3>4. R[2] <= R[2] /\ ~(R[1] < R[1])
      BY <1>2, <3>1
    <3> HIDE DEF R
    <3>5. \A r : Ahead(r)' <=> Ahead(r)
      BY <3>1 DEF Ahead
    <3>6. ASSUME NEW i \in ExtractJobs, ActiveJob(i)'
          PROVE  /\ Ahead(range[i])'
                 /\ \A r \in batches' : r[1] = cursor' + 1 => r[2] <= range'[i][2]
      <4>1. i = j /\ range'[i] = R
        BY <1>1, <2>1, <3>1, <3>6 DEF R
      <4>2. Ahead(range[i])'
        BY <3>1, <3>2, <4>1 DEF Ahead
      <4> QED
        BY <3>1, <3>2, <3>4, <4>1, <4>2
    <3>7. \A r \in batches' : r[2] <= cursor' \/ Ahead(r)'
      BY <1>1, <3>1, <3>2, <3>5
    <3>8. \A r, s \in batches' : Apart(r, s) \/ r[1] = s[1]
      BY <1>1, <3>1, <3>3
    <3> QED
      BY <3>6, <3>7, <3>8 DEF LedgerInv
  <2>3. ASSUME NEW p \in Pumps, setMemoryExtractCursor(p)
        PROVE  LedgerInv'
    <3> DEFINE j == run[p].job
               R == range[j]
    <3>1. /\ j \in ExtractJobs /\ ActiveJob(j) /\ R \in Ranges /\ R \in batches
          /\ cursor' = R[2] /\ batches' = batches
      BY <2>3, Extractor DEF setMemoryExtractCursor, RangeOf, At, ChatInv, StepsFit, StepFits
    <3>2. \A r \in batches : r[2] <= R[2]
      BY <1>1, <1>2, <3>1 DEF Ahead
    <3>3. \A i \in ExtractJobs : ActiveJob(i)' => range'[i] = R
      BY <1>1, <2>1, <3>1
    <3> HIDE DEF R
    <3> QED
      BY <1>1, <3>1, <3>2, <3>3 DEF LedgerInv
  <2>4. CASE cursor' = cursor /\ batches' = batches
    <3>1. \A r \in Ranges : Ahead(r) => Ahead(r)'
      BY <1>2, <1>3, <2>4 DEF Ahead
    <3>2. ASSUME NEW i \in ExtractJobs, ActiveJob(i)'
          PROVE  /\ ActiveJob(i) /\ range'[i] = range[i]
                 /\ Ahead(range[i]) => Ahead(range[i])'
      <4>1. ActiveJob(i) /\ range'[i] = range[i] /\ range[i] \in Ranges
        BY <2>1, <3>2 DEF ChatInv, RangesFit, ActiveJob
      <4> QED
        BY <1>2, <1>3, <2>4, <4>1 DEF Ahead
    <3>3. \A r \in batches : r[2] <= cursor \/ Ahead(r)'
      BY <1>1, <1>2, <3>1
    <3> QED
      BY <1>1, <2>4, <3>2, <3>3
  <2> QED
    BY <2>2, <2>3, <2>4, OnlyCreateBatch, OnlySetCursor DEF LedgerInv
<1> QED
  BY <1>4, <1>5

(* A message reaches the engines under two batches only after an           *)
(* extraction left its batch behind and the next one took up its range and *)
(* went on from there.                                                     *)
THEOREM RepeatsArePrefixes == Spec => []TwiceOnlyAsPrefix
<1>1. Init => LedgerInv
  BY ChatAssumption DEF Init, QueueInit, LedgerInv, ActiveJob
<1>2. LedgerInv => TwiceOnlyAsPrefix
  BY DEF LedgerInv, TwiceOnlyAsPrefix
<1> QED
  BY <1>1, <1>2, LedgerStep, ChatInvariant, PTL DEF Spec

-----------------------------------------------------------------------------
(* A run whose handler is through has moved the cursor, and the cursor     *)
(* waits for it while its job is active.                                   *)
MovedInv ==
  retries = 0 => \A p \in Pumps :
    run[p].pc = "complete" /\ run[p].job \in ExtractJobs /\ ActiveJob(run[p].job)
      => range[run[p].job][2] = cursor

(* While no extraction has failed, a batch is behind the cursor or the     *)
(* active extraction's own.                                                *)
NoneFailed == \A j \in ExtractJobs : status[j] # "failed"

OwnedInv ==
  retries = 0 /\ NoneFailed =>
    \A r \in batches : r[2] <= cursor \/ \E j \in ExtractJobs : ActiveJob(j) /\ range[j] = r

(* Until an extraction runs out of its attempts, or an operator retries a  *)
(* job by hand, no message is in two batches: no crash, lost lease or      *)
(* repeated attempt on the way extracts one twice.                         *)
TwiceOnlyAfterFailure == retries = 0 /\ NoneFailed => NoMessageTwice

(* A failed extraction stays failed, until it is retried by hand.          *)
LEMMA FailedKept ==
  ASSUME ChatInv, [Next]_vars, retries' = 0, NoneFailed'
  PROVE  NoneFailed
<1> SUFFICES ASSUME NEW j \in ExtractJobs, status[j] = "failed", status'[j] # "failed"
             PROVE  FALSE
  BY DEF NoneFailed
<1> USE ChatAssumption DEF ChatInv, TypeOK, QueueTypeOK
<1>1. [QueueNext]_queueVars
  BY QueueStep
<1>2. ASSUME NEW i \in Jobs, retryFailed(i) PROVE FALSE
  BY <1>2 DEF retryFailed
<1>3. CASE UNCHANGED queueVars \/ \E S \in SUBSET Jobs : enqueue(S)
  BY <1>3 DEF queueVars, enqueue
<1>4. ASSUME NEW p \in Pumps, claimNext(p) \/ markCompleted(p) \/ markFailed(p) PROVE FALSE
  BY <1>4 DEF claimNext, Claimable, markCompleted, markFailed, Holds
<1>5. CASE UNCHANGED status
  BY <1>5
<1> QED
  BY <1>1, <1>2, <1>3, <1>4, <1>5
  DEF QueueNext, leaseExpires, renewLease, HandlerEnds, rows, statementFails, pumpCrash

(* An active extraction ends in markCompleted, or fails.                   *)
LEMMA ActiveEnds ==
  ASSUME ChatInv, [Next]_vars, NEW j \in ExtractJobs, ActiveJob(j), ~ActiveJob(j)', NoneFailed'
  PROVE  \E p \in Pumps : complete(p) /\ run[p].pc = "complete" /\ run[p].job = j
<1> USE ChatAssumption DEF ChatInv, TypeOK, QueueTypeOK, ActiveJob
<1>0. status'[j] # status[j] /\ status'[j] # "failed" /\ j \in Jobs
  BY DEF NoneFailed
<1>1. CASE UNCHANGED status
  BY <1>0, <1>1
<1>2. CASE saveReply
  BY <1>0, <1>2, SavedRanges
<1>3. ASSUME NEW p \in Pumps, complete(p) PROVE run[p].pc = "complete" /\ run[p].job = j
  BY <1>0, <1>3 DEF complete, markCompleted
<1>4. ASSUME NEW p \in Pumps, claim(p) PROVE FALSE
  BY <1>0, <1>4 DEF claim, claimNext
<1>5. ASSUME NEW p \in Pumps, fail(p) PROVE FALSE
  BY <1>0, <1>5 DEF fail, markFailed
<1>6. ASSUME NEW i \in Jobs, retry(i) PROVE FALSE
  BY <1>0, <1>6 DEF retry, retryFailed
<1>7. ASSUME NEW p \in Pumps, enqueueEngineConsumeJobs(p) PROVE FALSE
  BY <1>0, <1>7 DEF enqueueEngineConsumeJobs, enqueue
<1> QED
  BY <1>1, <1>2, <1>3, <1>4, <1>5, <1>6, <1>7
  DEF Next, vars, queueVars, rows, addMessage, expire, leaseExpires, renew, renewLease, Handler,
      findBatchByRange, createBatch, setMemoryExtractCursor, checkLease, consume,
      setEngineOffset, readSummary, saveSummary, throw, Return, HandlerEnds, queueFault,
      statementFails, crash, pumpCrash

(* The handler of an extraction is through where it moves the cursor.      *)
LEMMA CompletesKept ==
  ASSUME ChatInv, [Next]_vars, NEW p \in Pumps,
         run'[p].pc = "complete", run'[p].job \in ExtractJobs
  PROVE  /\ run[p].job = run'[p].job
         /\ setMemoryExtractCursor(p) \/ run[p].pc = "complete"
<1> USE ChatAssumption DEF ChatInv, TypeOK, QueueTypeOK, Runs
<1> DEFINE Goal == /\ run[p].job = run'[p].job
                   /\ setMemoryExtractCursor(p) \/ run[p].pc = "complete"
<1>0. NoJob \notin ExtractJobs
  BY QueueAssumption
<1>1. CASE run'[p] = run[p]
  BY <1>1
<1>2. ASSUME NEW q \in Pumps, claim(q) PROVE Goal
  BY <1>1, <1>2 DEF claim, claimNext
<1>3. ASSUME NEW q \in Pumps, complete(q) \/ fail(q) \/ queueFault(q) \/ crash(q) PROVE Goal
  BY <1>0, <1>1, <1>3 DEF complete, markCompleted, fail, markFailed, queueFault,
     statementFails, crash, pumpCrash, Idle
<1>4. ASSUME NEW q \in Pumps, Handler(q) PROVE Goal
  <2>1. CASE UNCHANGED run
    BY <1>1, <2>1
  <2>2. CASE throw(q)
    BY <1>1, <2>2 DEF throw, HandlerEnds
  <2>3. CASE Return(q)
    <3>1. CASE q # p
      BY <1>1, <2>3, <3>1 DEF Return, HandlerEnds
    <3>2. CASE q = p
      <4>1. run[p].job \in ExtractJobs /\ run[p].job = run'[p].job /\ run[p].pc = "handle"
        BY <2>3, <3>2 DEF Return, HandlerEnds
      <4>2. step[p] \in {"find", "extract", "fanOut", "cursor"}
        BY <4>1 DEF StepsFit, StepFits
      <4>3. setMemoryExtractCursor(p)
        <5>1. Handler(p) /\ Return(p)
          BY <1>4, <2>3, <3>2
        <5>2. ~throw(p)
          BY <4>1, <5>1 DEF throw, HandlerEnds, Return
        <5>3. run'[p].pc # "handle"
          OBVIOUS
        <5> QED
          BY <4>1, <4>2, <5>1, <5>2, <5>3
          DEF Handler, findBatchByRange, createBatch, enqueueEngineConsumeJobs, enqueue,
              checkLease, consume, setEngineOffset, readSummary, saveSummary, At, queueVars
      <4> QED
        BY <4>1, <4>3
    <3> QED
      BY <3>1, <3>2
  <2> QED
    BY <1>4, <2>1, <2>2, <2>3
    DEF Handler, findBatchByRange, createBatch, enqueueEngineConsumeJobs, enqueue,
        setMemoryExtractCursor, checkLease, consume, setEngineOffset, readSummary,
        saveSummary, queueVars
<1> QED
  BY <1>1, <1>2, <1>3, <1>4
  DEF Next, vars, queueVars, addMessage, saveReply, enqueue, retry, retryFailed, expire,
      leaseExpires, renew, renewLease

(* An extraction that runs keeps its payload, and was active before if it  *)
(* is after.                                                               *)
LEMMA RunningActive ==
  ASSUME ChatInv, [Next]_vars, retries' = 0, NEW j \in ExtractJobs, status[j] # "absent"
  PROVE  range'[j] = range[j] /\ (ActiveJob(j)' => ActiveJob(j))
<1>1. CASE saveReply
  BY <1>1, SavedRanges DEF ChatInv, ActiveJob
<1>2. CASE ~saveReply
  BY <1>2, OnlyActive, OnlySaveReply DEF ChatInv
<1> QED
  BY <1>1, <1>2

LEMMA MovedStep == ChatInv /\ MovedInv /\ [Next]_vars => MovedInv'
<1> SUFFICES ASSUME ChatInv, MovedInv, [Next]_vars, retries' = 0,
                    NEW p \in Pumps, NEW j \in ExtractJobs,
                    run'[p].pc = "complete", run'[p].job = j, ActiveJob(j)'
             PROVE  range'[j][2] = cursor'
  BY DEF MovedInv, ActiveJob
<1>1. run[p].job = j /\ (setMemoryExtractCursor(p) \/ run[p].pc = "complete")
  BY CompletesKept
<1>2. status[j] # "absent"
  BY <1>1, RunsStarted, QueueAssumption, ChatAssumption DEF ChatInv
<1>3. range'[j] = range[j] /\ ActiveJob(j)
  BY <1>2, RunningActive
<1>4. ASSUME NEW q \in Pumps, setMemoryExtractCursor(q) PROVE cursor' = range[j][2]
  <2>1. /\ run[q].job \in ExtractJobs /\ ActiveJob(run[q].job)
        /\ cursor' = range[run[q].job][2]
    BY <1>4, Extractor DEF setMemoryExtractCursor
  <2> QED
    BY <1>3, <2>1, RetriesGrow DEF ChatInv, Gate
<1>5. CASE cursor' = cursor /\ ~setMemoryExtractCursor(p)
  BY <1>1, <1>3, <1>5, RetriesGrow DEF MovedInv
<1> QED
  BY <1>3, <1>4, <1>5, OnlySetCursor

LEMMA OwnedStep == ChatInv /\ MovedInv /\ OwnedInv /\ [Next]_vars => OwnedInv'
<1> SUFFICES ASSUME ChatInv, MovedInv, OwnedInv, [Next]_vars, retries' = 0, NoneFailed',
                    NEW r \in batches'
             PROVE  r[2] <= cursor' \/ \E j \in ExtractJobs : ActiveJob(j)' /\ range'[j] = r
  BY DEF OwnedInv
<1>1. retries = 0 /\ NoneFailed
  BY FailedKept, RetriesGrow
<1>2. cursor' \in Nat /\ cursor \in Nat /\ cursor <= cursor'
  BY <1>1, CursorStep, ChatTypeStep, ChatAssumption DEF ChatInv, TypeOK
<1>3. CASE r \in batches
  <2>1. r[2] \in Nat
    BY <1>3, ChatAssumption DEF ChatInv, TypeOK, Ranges
  <2>2. CASE r[2] <= cursor
    BY <1>2, <2>1, <2>2
  <2>3. CASE \E j \in ExtractJobs : ActiveJob(j) /\ range[j] = r
    <3>1. PICK j \in ExtractJobs : ActiveJob(j) /\ range[j] = r
      BY <2>3
    <3>2. range'[j] = r
      BY <3>1, RunningActive DEF ActiveJob
    <3>3. CASE ~ActiveJob(j)'
      <4>1. PICK p \in Pumps : run[p].pc = "complete" /\ run[p].job = j
        BY <3>1, <3>3, ActiveEnds
      <4>2. r[2] = cursor
        BY <1>1, <3>1, <4>1 DEF MovedInv
      <4> QED
        BY <1>2, <2>1, <4>2
    <3> QED
      BY <3>2, <3>3
  <2> QED
    BY <1>1, <1>3, <2>2, <2>3 DEF OwnedInv
<1>4. CASE r \notin batches
  <2>1. PICK p \in Pumps : createBatch(p)
    BY <1>4, OnlyCreateBatch
  <2>2. PICK j \in ExtractJobs : j = run[p].job /\ ActiveJob(j) /\ r = range[j]
    BY <1>4, <2>1, Extractor DEF createBatch
  <2> QED
    BY <2>1, <2>2 DEF createBatch, queueVars, ActiveJob
<1> QED
  BY <1>3, <1>4

LEMMA OnceStep ==
  ChatInv /\ LedgerInv /\ OwnedInv /\ TwiceOnlyAfterFailure /\ [Next]_vars
    => TwiceOnlyAfterFailure'
<1> SUFFICES ASSUME ChatInv, LedgerInv, OwnedInv, TwiceOnlyAfterFailure, [Next]_vars,
                    retries' = 0, NoneFailed'
             PROVE  NoMessageTwice'
  BY DEF TwiceOnlyAfterFailure
<1>1. retries = 0 /\ NoneFailed /\ NoMessageTwice
  BY FailedKept, RetriesGrow DEF TwiceOnlyAfterFailure
<1>2. ASSUME NEW p \in Pumps, createBatch(p) PROVE NoMessageTwice'
  <2>1. PICK j \in ExtractJobs : j = run[p].job /\ ActiveJob(j)
    BY <1>2, Extractor
  <2> DEFINE R == range[j]
  <2>2. R \in Ranges /\ R \notin batches /\ batches' = batches \cup {R}
    BY <1>2, <2>1, Extractor DEF createBatch
  <2>3. R[1] = cursor + 1
    BY <1>1, <2>1, <2>2 DEF LedgerInv, Ahead
  <2>4. ASSUME NEW r \in batches PROVE r[2] < R[1]
    <3>1. r[2] <= cursor
      BY <1>1, <2>1, <2>2 DEF OwnedInv, ChatInv, Gate
    <3> QED
      BY <2>3, <3>1, ChatAssumption DEF ChatInv, TypeOK, Ranges
  <2> HIDE DEF R
  <2> QED
    BY <1>1, <2>2, <2>4 DEF NoMessageTwice
<1>3. CASE batches' = batches
  BY <1>1, <1>3 DEF NoMessageTwice
<1> QED
  BY <1>2, <1>3, OnlyCreateBatch

(* No message is extracted twice while no extraction fails for good.       *)
THEOREM ExtractedOnce == Spec => []TwiceOnlyAfterFailure
<1>1. Init => LedgerInv /\ MovedInv /\ OwnedInv /\ TwiceOnlyAfterFailure
  <2> SUFFICES ASSUME Init PROVE LedgerInv /\ MovedInv /\ OwnedInv /\ TwiceOnlyAfterFailure
    OBVIOUS
  <2>1. /\ batches = {} /\ \A j \in ExtractJobs : ~ActiveJob(j)
        /\ \A p \in Pumps : run[p].pc = "idle"
    BY ChatAssumption DEF Init, QueueInit, ActiveJob, Idle
  <2> QED
    BY <2>1 DEF LedgerInv, MovedInv, OwnedInv, TwiceOnlyAfterFailure, NoMessageTwice
<1> QED
  BY <1>1, LedgerStep, MovedStep, OwnedStep, OnceStep, ChatInvariant, PTL DEF Spec

-----------------------------------------------------------------------------
(* The active summary job starts where the summary ends and was made for   *)
(* its version; or it has saved its summary, and then its version tells,   *)
(* unless it was made before the first summary.                            *)
SummaryBase ==
  retries = 0 =>
    /\ summary.version = 0 => summary.upTo = 0
    /\ \A j \in SummaryJobs : ActiveJob(j) =>
         \/ range[j][1] = summary.upTo + 1 /\ base[j] = summary.version
         \/ /\ range[j][2] = summary.upTo
            /\ base[j] = 0 => range[j][1] = 1
            /\ base[j] # 0 => summary.version = base[j] + 1

(* A run about to save was not stale when it read.                         *)
SeenFits ==
  \A p \in Pumps : At(p, "save") =>
    \/ base[run[p].job] = 0 \/ seen[p].version = 0
    \/ seen[p].version = base[run[p].job]

(* Until an operator retries by hand, a summary gives way to one that      *)
(* reaches no further only when the job of the first summary, made when    *)
(* there was no version to compare, runs once more.                        *)
FirstSummaryOnly ==
  [][retries = 0 /\ summary' # summary =>
       \/ summary'.upTo > summary.upTo
       \/ \E j \in SummaryJobs :
            status[j] = "claimed" /\ base[j] = 0 /\ range[j] = <<1, summary.upTo>>]_vars

LEMMA BaseKept ==
  ASSUME [Next]_vars, ~saveReply
  PROVE  base' = base
BY DEF Next, vars, chatVars, addMessage, retry, expire, claim, renew, complete, fail,
       queueFault, crash, Handler, findBatchByRange, createBatch, enqueueEngineConsumeJobs,
       setMemoryExtractCursor, checkLease, consume, setEngineOffset, readSummary,
       saveSummary, throw

LEMMA SeenStep == ChatInv /\ SeenFits /\ [Next]_vars => SeenFits'
<1> SUFFICES ASSUME ChatInv, SeenFits, [Next]_vars, NEW q \in Pumps, At(q, "save")'
             PROVE  \/ base'[run'[q].job] = 0 \/ seen'[q].version = 0
                    \/ seen'[q].version = base'[run'[q].job]
  BY DEF SeenFits
<1>1. CASE readSummary(q)
  <2>1. ~Return(q)
    BY <1>1 DEF Return, Clear, At, ChatInv, TypeOK
  <2>2. ~Stale(run[q].job) /\ seen'[q] = summary /\ run' = run /\ base' = base
    BY <1>1, <2>1 DEF readSummary, queueVars, ChatInv, TypeOK
  <2> QED
    BY <2>2 DEF Stale
<1>2. CASE ~readSummary(q)
  <2>1. At(q, "save") /\ run'[q].job = run[q].job /\ seen'[q] = seen[q]
    BY <1>2, SaveKept DEF ChatInv
  <2>2. run[q].job \in SummaryJobs /\ status[run[q].job] # "absent"
    BY <2>1, RunsStarted, QueueAssumption, ChatAssumption DEF At, ChatInv, StepsFit, StepFits
  <2>3. base'[run[q].job] = base[run[q].job]
    BY <2>2, SavedSummaries, BaseKept DEF ChatInv
  <2> QED
    BY <2>1, <2>3 DEF SeenFits
<1> QED
  BY <1>1, <1>2

(* The one that saves goes on from the summary, or is the job of the first *)
(* summary once more.                                                      *)
LEMMA SaverFits ==
  ASSUME ChatInv, SummaryGate, SummaryBase, SeenFits, retries = 0,
         NEW p \in Pumps, saveSummary(p)
  PROVE  \E j \in SummaryJobs :
           /\ j = run[p].job /\ ActiveJob(j) /\ status[j] = "claimed"
           /\ summary'.version = summary.version + 1 /\ summary'.upTo = range[j][2]
           /\ range[j] \in Ranges
           /\ \/ range[j][1] = summary.upTo + 1 /\ base[j] = summary.version
              \/ range[j][2] = summary.upTo /\ base[j] = 0 /\ range[j][1] = 1
<1>1. PICK j \in SummaryJobs : j = run[p].job
  BY Saver
<1>2. /\ ActiveJob(j) /\ At(p, "save") /\ Holds(p)
      /\ range[j] \in Ranges /\ summary' = Written(p)
  BY <1>1, Saver
<1>3. status[j] = "claimed" /\ seen[p] = summary
  BY <1>1, <1>2 DEF Holds, SummaryGate
<1>4. summary'.version = summary.version + 1 /\ summary'.upTo = range[j][2]
  BY <1>1, <1>2, <1>3 DEF Written, RangeOf
<1>5. summary.version \in Nat /\ base[j] \in Nat
  BY DEF ChatInv, TypeOK
<1>6. base[j] = 0 \/ summary.version = 0 \/ summary.version = base[j]
  BY <1>1, <1>2, <1>3 DEF SeenFits
<1>7. \/ range[j][1] = summary.upTo + 1 /\ base[j] = summary.version
      \/ /\ range[j][2] = summary.upTo
         /\ base[j] = 0 => range[j][1] = 1
         /\ base[j] # 0 => summary.version = base[j] + 1
  BY <1>2 DEF SummaryBase
<1> QED
  BY <1>1, <1>2, <1>3, <1>4, <1>5, <1>6, <1>7

LEMMA SummaryBaseStep ==
  ChatInv /\ SummaryGate /\ SummaryBase /\ SeenFits /\ [Next]_vars => SummaryBase'
<1> SUFFICES ASSUME ChatInv, SummaryGate, SummaryBase, SeenFits, [Next]_vars, retries' = 0
             PROVE  /\ summary'.version = 0 => summary'.upTo = 0
                    /\ \A j \in SummaryJobs : ActiveJob(j)' =>
                         \/ range'[j][1] = summary'.upTo + 1 /\ base'[j] = summary'.version
                         \/ /\ range'[j][2] = summary'.upTo
                            /\ base'[j] = 0 => range'[j][1] = 1
                            /\ base'[j] # 0 => summary'.version = base'[j] + 1
  BY DEF SummaryBase
<1>1. retries = 0
  BY RetriesGrow
<1>2. CASE saveReply
  <2>1. summary' = summary
    BY <1>2 DEF saveReply
  <2> QED
    BY <1>1, <1>2, <2>1, SavedSummaries DEF SummaryBase, ChatInv, ActiveJob
<1>3. CASE ~saveReply
  <2>1. \A i \in SummaryJobs : range'[i] = range[i] /\ (ActiveJob(i)' => ActiveJob(i))
    BY <1>3, OnlySaveReply, OnlyActive DEF ChatInv
  <2>2. base' = base
    BY <1>3, BaseKept
  <2>3. ASSUME NEW p \in Pumps, saveSummary(p) PROVE SummaryBase'
    <3>1. PICK j \in SummaryJobs :
            /\ ActiveJob(j)
            /\ summary'.version = summary.version + 1 /\ summary'.upTo = range[j][2]
            /\ \/ range[j][1] = summary.upTo + 1 /\ base[j] = summary.version
               \/ range[j][2] = summary.upTo /\ base[j] = 0 /\ range[j][1] = 1
      BY <1>1, <2>3, SaverFits
    <3>2. summary.version \in Nat /\ (summary.version = 0 => summary.upTo = 0)
      BY <1>1 DEF SummaryBase, ChatInv, TypeOK
    <3>3. \A i \in SummaryJobs : ActiveJob(i)' => i = j
      BY <1>1, <2>1, <3>1 DEF SummaryGate
    <3>4. base[j] = 0 => range[j][1] = 1
      BY <3>1, <3>2
    <3>5. base[j] # 0 => summary'.version = base[j] + 1
      BY <3>1
    <3>6. summary'.version # 0
      BY <3>1, <3>2
    <3> QED
      BY <2>1, <2>2, <3>1, <3>3, <3>4, <3>5, <3>6 DEF SummaryBase
  <2>4. CASE summary' = summary
    BY <1>1, <2>1, <2>2, <2>4 DEF SummaryBase
  <2> QED
    BY <2>3, <2>4, OnlySaveSummary DEF SummaryBase
<1> QED
  BY <1>2, <1>3

(* A stale job overwrites a newer summary in one way only: it made the     *)
(* first one.                                                              *)
THEOREM OnlyFirstRepeats == Spec => FirstSummaryOnly
<1>1. Init => SummaryGate /\ SummaryBase /\ SeenFits
  <2> SUFFICES ASSUME Init PROVE SummaryGate /\ SummaryBase /\ SeenFits
    OBVIOUS
  <2>1. /\ \A j \in SummaryJobs : ~ActiveJob(j)
        /\ \A p \in Pumps : run[p].pc = "idle"
        /\ summary = NoSummary
    BY ChatAssumption DEF Init, QueueInit, Idle, ActiveJob
  <2> QED
    BY <2>1 DEF SummaryGate, SummaryBase, SeenFits, At, NoSummary
<1>2. ChatInv /\ SummaryGate /\ SummaryBase /\ SeenFits /\ [Next]_vars =>
        [retries = 0 /\ summary' # summary =>
           \/ summary'.upTo > summary.upTo
           \/ \E j \in SummaryJobs :
                status[j] = "claimed" /\ base[j] = 0 /\ range[j] = <<1, summary.upTo>>]_vars
  <2> SUFFICES ASSUME ChatInv, SummaryGate, SummaryBase, SeenFits, [Next]_vars,
                      retries = 0, summary' # summary
               PROVE  \/ summary'.upTo > summary.upTo
                      \/ \E j \in SummaryJobs :
                           /\ status[j] = "claimed" /\ base[j] = 0
                           /\ range[j] = <<1, summary.upTo>>
    OBVIOUS
  <2>1. PICK p \in Pumps : saveSummary(p)
    BY OnlySaveSummary
  <2>2. PICK j \in SummaryJobs :
          /\ status[j] = "claimed" /\ summary'.upTo = range[j][2] /\ range[j] \in Ranges
          /\ \/ range[j][1] = summary.upTo + 1
             \/ range[j][2] = summary.upTo /\ base[j] = 0 /\ range[j][1] = 1
    BY <2>1, SaverFits
  <2>3. summary.upTo \in Nat /\ MaxMessages \in Nat
    BY ChatAssumption DEF ChatInv, TypeOK
  <2>4. CASE range[j][1] = summary.upTo + 1
    BY <2>2, <2>3, <2>4 DEF Ranges
  <2>5. CASE range[j][2] = summary.upTo /\ base[j] = 0 /\ range[j][1] = 1
    <3>1. range[j] = <<range[j][1], range[j][2]>>
      BY <2>2 DEF Ranges
    <3> QED
      BY <2>2, <2>5, <3>1
  <2> QED
    BY <2>2, <2>4, <2>5
<1> QED
  BY <1>1, <1>2, SummaryGateStep, SummaryBaseStep, SeenStep, ChatInvariant, PTL
  DEF Spec, FirstSummaryOnly
=============================================================================
