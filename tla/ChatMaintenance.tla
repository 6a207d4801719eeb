-------------------------- MODULE ChatMaintenance --------------------------
(***************************************************************************)
(* The memory of one conversation: what the API enqueues when it saves a   *)
(* reply (saveReply, apps/api/src/v2/chat/use-cases.ts), and the handlers  *)
(* of V2MaintenanceDispatchPump that work it off:                          *)
(*                                                                         *)
(*   - memory_extract turns a range of messages into a batch of facts      *)
(*     (the fact ledger), enqueues a memory_engine_consume job per memory  *)
(*     engine and moves the extraction cursor;                             *)
(*   - memory_engine_consume hands a batch to an engine;                   *)
(*   - conversation_summary folds a range of messages into the summary.    *)
(*                                                                         *)
(* The jobs live in a MaintenanceQueue.  Messages are numbered in the      *)
(* order of (created_at, message_id), which is taken to be the order in    *)
(* which they are committed; a range is <<first, last>>.  One step is one  *)
(* transaction; the calls of the language model fall between two           *)
(* transactions of a handler.                                              *)
(***************************************************************************)
EXTENDS MaintenanceQueue, FiniteSets

CONSTANTS
  ExtractJobs,        \* ids of memory_extract jobs
  SummaryJobs,        \* ids of conversation_summary jobs
  Engines,            \* the memory engines that are switched on
  MaxMessages,        \* bound on the messages of the conversation
  ExtractThreshold,   \* MEMORY_TRIGGER_THRESHOLD
  ExtractMax,         \* MEMORY_BATCH_MAX
  SummaryThreshold,   \* new messages that trigger a summary
  SummaryMax          \* messages a summary takes in at a time

VARIABLES
  messages,     \* messages in the conversation
  range,        \* the payload of a job: the range of its messages
  base,         \* previousSummaryVersion of a summary job, 0 for undefined
  cursor,       \* memory_extracted_until_message_id
  batches,      \* v2_fact_batches: the ranges extracted
  consumed,     \* per engine, the batches it has taken in
  summary,      \* v2_conversation_summaries: version, last message, count
  step,         \* the handlers: what comes next
  seen          \* the summary a handler has read

(* v2_fact_batches is UNIQUE by range, so a batch is named by its range.   *)
Ranges == {r \in (1..MaxMessages) \X (1..MaxMessages) : r[1] <= r[2]}

ConsumeJobs == Engines \X Ranges

ASSUME ChatAssumption ==
  /\ Jobs = ExtractJobs \cup SummaryJobs \cup ConsumeJobs
  /\ ExtractJobs \cap SummaryJobs = {}
  /\ (ExtractJobs \cup SummaryJobs) \cap ConsumeJobs = {}
  /\ MaxMessages \in Nat
  /\ ExtractThreshold \in Nat \ {0} /\ ExtractMax \in Nat \ {0}
  /\ SummaryThreshold \in Nat \ {0} /\ SummaryMax \in Nat \ {0}

chatVars == <<messages, range, base, cursor, batches, consumed, summary, step, seen>>
vars     == <<queueVars, chatVars>>

NoSummary == [version |-> 0, upTo |-> 0, count |-> 0]

Labels == {"none", "find", "extract", "fanOut", "cursor",
           "load", "consume", "offset", "read", "save"}

Init ==
  /\ QueueInit
  /\ messages = 0
  /\ range = [j \in ExtractJobs \cup SummaryJobs |-> <<0, 0>>]
  /\ base = [j \in SummaryJobs |-> 0]
  /\ cursor = 0
  /\ batches = {}
  /\ consumed = [e \in Engines |-> {}]
  /\ summary = NoSummary
  /\ step = [p \in Pumps |-> "none"]
  /\ seen = [p \in Pumps |-> NoSummary]

-----------------------------------------------------------------------------
(* The API.                                                                *)

hasActiveJob(S) == \E j \in S : status[j] \in {"pending", "claimed"}

(* Mutant: the range ends where a full batch would.                        *)
listAfterFull(c, n, max) == <<c + 1, c + max>>

(* listAfter: at most max messages after c, of n.                          *)
listAfter(c, n, max) == <<c + 1, IF c + max < n THEN c + max ELSE n>>

(* A message of the user, a proactive one, or a reply that failed or was   *)
(* interrupted: it triggers nothing.  (A message is stamped before its     *)
(* transaction begins, the proactive one too; one that waits for the       *)
(* database while a reply is committed would be listed before the reply.   *)
(* That inversion is left out.)                                            *)
addMessage ==
  /\ messages < MaxMessages
  /\ messages' = messages + 1
  /\ UNCHANGED <<queueVars, range, base, cursor, batches, consumed, summary, step, seen>>

(* A new job, as a set with one id.  The ids are a bound of the model.      *)
NewJob(ids) == {{j} : j \in {i \in ids : status[i] = "absent"}}

(* Mutant: the active extraction is not looked for.                        *)
ExtractTriggerAlways(n) ==
  IF n - cursor >= ExtractThreshold THEN NewJob(ExtractJobs) ELSE {{}}

(* The jobs saveReply may enqueue: one or none.                            *)
ExtractTrigger(n) ==
  IF ~hasActiveJob(ExtractJobs) /\ n - cursor >= ExtractThreshold
  THEN NewJob(ExtractJobs) ELSE {{}}

SummaryTrigger(n) ==
  IF ~hasActiveJob(SummaryJobs) /\ n - summary.upTo >= SummaryThreshold
  THEN NewJob(SummaryJobs) ELSE {{}}

(* A completed reply, and in the same transaction the jobs it calls for.   *)
saveReply ==
  LET n == messages + 1 IN
  /\ messages < MaxMessages
  /\ messages' = n
  /\ \E extracts \in ExtractTrigger(n), sums \in SummaryTrigger(n) :
       /\ enqueue(extracts \cup sums)
       /\ range' = [j \in DOMAIN range |->
                      CASE j \in extracts -> listAfter(cursor, n, ExtractMax)
                        [] j \in sums -> listAfter(summary.upTo, n, SummaryMax)
                        [] OTHER -> range[j]]
       /\ base' = [j \in SummaryJobs |-> IF j \in sums THEN summary.version ELSE base[j]]
  /\ UNCHANGED <<cursor, batches, consumed, summary, step, seen>>

retry(j) == retryFailed(j) /\ UNCHANGED chatVars

expire(j) == leaseExpires(j) /\ UNCHANGED chatVars

-----------------------------------------------------------------------------
(* The pump around the handlers.                                           *)

First(j) ==
  CASE j \in ExtractJobs -> "find"
    [] j \in SummaryJobs -> "read"
    [] OTHER -> "load"

claim(p) ==
  /\ claimNext(p)
  /\ step' = [step EXCEPT ![p] = First(run'[p].job)]
  /\ UNCHANGED <<messages, range, base, cursor, batches, consumed, summary, seen>>

renew(p) == renewLease(p) /\ UNCHANGED chatVars

Clear(p) ==
  /\ step' = [step EXCEPT ![p] = "none"]
  /\ seen' = [seen EXCEPT ![p] = NoSummary]

(* The handler is through.                                                 *)
Return(p) == HandlerEnds(p, "complete") /\ Clear(p)

(* A read, the language model, a parser, the fence, an engine or a write   *)
(* throws: nothing of the transaction at hand remains.                     *)
throw(p) ==
  /\ HandlerEnds(p, "fail")
  /\ Clear(p)
  /\ UNCHANGED <<messages, range, base, cursor, batches, consumed, summary>>

complete(p) == markCompleted(p) /\ UNCHANGED chatVars

fail(p) == markFailed(p) /\ UNCHANGED chatVars

queueFault(p) == statementFails(p) /\ UNCHANGED chatVars

crash(p) ==
  /\ pumpCrash(p)
  /\ Clear(p)
  /\ UNCHANGED <<messages, range, base, cursor, batches, consumed, summary>>

At(p, label) == run[p].pc = "handle" /\ step[p] = label

Goto(p, label) == step' = [step EXCEPT ![p] = label]

-----------------------------------------------------------------------------
(* handleMemoryExtract.                                                    *)

RangeOf(p) == range[run[p].job]

(* Mutant: a batch that exists is taken for work done.                     *)
findBatchByRangeDone(p) ==
  /\ At(p, "find")
  /\ Goto(p, IF RangeOf(p) \in batches THEN "cursor" ELSE "extract")
  /\ UNCHANGED <<queueVars, messages, range, base, cursor, batches, consumed, summary, seen>>

(* A batch of exactly this range is replayed, not extracted again.         *)
findBatchByRange(p) ==
  /\ At(p, "find")
  /\ Goto(p, IF RangeOf(p) \in batches THEN "fanOut" ELSE "extract")
  /\ UNCHANGED <<queueVars, messages, range, base, cursor, batches, consumed, summary, seen>>

(* The model has answered; the insert fails where the range exists.        *)
createBatch(p) ==
  /\ At(p, "extract")
  /\ LeaseOwner(p)
  /\ RangeOf(p) \notin batches
  /\ batches' = batches \cup {RangeOf(p)}
  /\ Goto(p, "fanOut")
  /\ UNCHANGED <<queueVars, messages, range, base, cursor, consumed, summary, seen>>

(* One transaction; an engine that has its job already is passed over.     *)
enqueueEngineConsumeJobs(p) ==
  /\ At(p, "fanOut")
  /\ LeaseOwner(p)
  /\ enqueue({j \in Engines \X {RangeOf(p)} : status[j] = "absent"})
  /\ Goto(p, "cursor")
  /\ UNCHANGED <<messages, range, base, cursor, batches, consumed, summary, seen>>

(* Mutant: the cursor is moved without the fence.                          *)
setMemoryExtractCursorUnfenced(p) ==
  /\ At(p, "cursor")
  /\ cursor' = RangeOf(p)[2]
  /\ Return(p)
  /\ UNCHANGED <<messages, range, base, batches, consumed, summary>>

setMemoryExtractCursor(p) ==
  /\ At(p, "cursor")
  /\ LeaseOwner(p)
  /\ cursor' = RangeOf(p)[2]
  /\ Return(p)
  /\ UNCHANGED <<messages, range, base, batches, consumed, summary>>

-----------------------------------------------------------------------------
(* handleMemoryEngineConsume.                                              *)

(* The batch is read, then the lease is checked.                           *)
checkLease(p) ==
  /\ At(p, "load")
  /\ run[p].job[2] \in batches
  /\ LeaseOwner(p)
  /\ Goto(p, "consume")
  /\ UNCHANGED <<queueVars, messages, range, base, cursor, batches, consumed, summary, seen>>

(* engine.consume runs its own transactions, without a look at the lease,  *)
(* and passes over what it holds already.                                  *)
consume(p) ==
  LET j == run[p].job IN
  /\ At(p, "consume")
  /\ consumed' = [consumed EXCEPT ![j[1]] = @ \cup {j[2]}]
  /\ Goto(p, "offset")
  /\ UNCHANGED <<queueVars, messages, range, base, cursor, batches, summary, seen>>

(* setEngineOffset writes a value that nothing reads.                      *)
setEngineOffset(p) ==
  /\ At(p, "offset")
  /\ LeaseOwner(p)
  /\ Return(p)
  /\ UNCHANGED <<messages, range, base, cursor, batches, consumed, summary>>

-----------------------------------------------------------------------------
(* handleConversationSummary.                                              *)

(* The job is stale when the summary has another version than the one the  *)
(* job was made for; a job made before the first summary has none to       *)
(* compare.                                                                *)
Stale(j) == base[j] # 0 /\ summary.version # 0 /\ summary.version # base[j]

readSummary(p) ==
  /\ At(p, "read")
  /\ IF Stale(run[p].job)
     THEN Return(p)
     ELSE /\ Goto(p, "save")
          /\ seen' = [seen EXCEPT ![p] = summary]
          /\ UNCHANGED queueVars
  /\ UNCHANGED <<messages, range, base, cursor, batches, consumed, summary>>

Written(p) ==
  LET r == RangeOf(p) IN
  [version |-> seen[p].version + 1, upTo |-> r[2], count |-> r[2] - r[1] + 1 + seen[p].count]

(* Mutant: the summary is saved without the fence.                         *)
saveSummaryUnfenced(p) ==
  /\ At(p, "save")
  /\ summary' = Written(p)
  /\ Return(p)
  /\ UNCHANGED <<messages, range, base, cursor, batches, consumed>>

(* The model has answered with a summary of what was read before.          *)
saveSummary(p) ==
  /\ At(p, "save")
  /\ LeaseOwner(p)
  /\ summary' = Written(p)
  /\ Return(p)
  /\ UNCHANGED <<messages, range, base, cursor, batches, consumed>>

-----------------------------------------------------------------------------
Handler(p) ==
  \/ findBatchByRange(p) \/ createBatch(p) \/ enqueueEngineConsumeJobs(p)
  \/ setMemoryExtractCursor(p)
  \/ checkLease(p) \/ consume(p) \/ setEngineOffset(p)
  \/ readSummary(p) \/ saveSummary(p)
  \/ throw(p)

Next ==
  \/ addMessage \/ saveReply
  \/ \E j \in Jobs : retry(j) \/ expire(j)
  \/ \E p \in Pumps :
       \/ claim(p) \/ renew(p) \/ Handler(p) \/ complete(p) \/ fail(p)
       \/ queueFault(p) \/ crash(p)

Spec == Init /\ [][Next]_vars

(* A pump polls every two seconds and its handlers go on: the calls of a   *)
(* model end by their timeout.  A lease nobody renews runs out.            *)
orphanExpires(j) ==
  /\ \A p \in Pumps : run[p].job = j => ~Holds(p)
  /\ expire(j)

Fairness ==
  /\ \A p \in Pumps : WF_vars(claim(p) \/ Handler(p) \/ complete(p) \/ fail(p))
  /\ \A j \in Jobs : WF_vars(orphanExpires(j))

FairSpec == Spec /\ Fairness

-----------------------------------------------------------------------------
(* Properties.                                                             *)

TypeOK ==
  /\ QueueTypeOK
  /\ messages \in 0..MaxMessages
  /\ range \in [ExtractJobs \cup SummaryJobs -> (0..MaxMessages) \X (0..MaxMessages)]
  /\ base \in [SummaryJobs -> Nat]
  /\ cursor \in 0..MaxMessages
  /\ batches \subseteq Ranges
  /\ consumed \in [Engines -> SUBSET Ranges]
  /\ summary \in [version : Nat, upTo : 0..MaxMessages, count : Nat]
  /\ step \in [Pumps -> Labels]
  /\ seen \in [Pumps -> [version : Nat, upTo : 0..MaxMessages, count : Nat]]

(* The gate of saveReply: a conversation has one active extraction at      *)
(* most, until an operator retries one by hand.                            *)
OneActiveExtraction ==
  retries = 0 => Cardinality({j \in ExtractJobs : status[j] \in {"pending", "claimed"}}) <= 1

(* No message before the cursor is forgotten: each is in a batch, and each *)
(* engine has a job for that batch, as long as no message is listed before *)
(* one that was committed earlier.                                         *)
NothingSkipped ==
  \A m \in 1..cursor : \E r \in batches :
    m \in r[1]..r[2] /\ \A e \in Engines : status[<<e, r>>] # "absent"

(* The cursor never goes back: a slow run of an old extraction does not    *)
(* undo what a later one has done, until an operator retries one by hand.  *)
CursorNeverBack == [][retries = 0 => cursor' >= cursor]_vars

(* No message is extracted twice: its facts would reach the engines under  *)
(* two batches.                                                            *)
NoMessageTwice ==
  \A r, s \in batches : r # s => r[2] < s[1] \/ s[2] < r[1]

(* A summary gives way only to one made from it, and never to one that     *)
(* covers less, until an operator retries a job by hand.                   *)
SummaryNeverBack ==
  [][retries = 0 /\ summary' # summary =>
       summary'.version = summary.version + 1 /\ summary'.upTo >= summary.upTo]_vars

(* A job that is stale, because its messages are in a newer summary than   *)
(* the one it was made for, does not overwrite that summary.               *)
StaleDoesNotOverwrite ==
  [][summary' # summary => summary'.upTo > summary.upTo]_vars
=============================================================================
