--------------------------- MODULE MemoryHandlers ---------------------------
(***************************************************************************)
(* Two handlers of the maintenance pump (worker/src/v2/                    *)
(* maintenance-dispatch-pump.ts) over MaintenanceQueue: memory_consolidate *)
(* asks a model what to do with a memory and a newer candidate, and        *)
(* story_analyze drafts scenes from the messages after a cursor.  Both     *)
(* read in one transaction, wait for the model, and write in later ones    *)
(* behind the fence, while other handlers and pumps go on.                 *)
(* The model's decision is a choice made when it is written.               *)
(***************************************************************************)
EXTENDS MaintenanceQueue, FiniteSets

CONSTANTS
  ConsolidateJobs, AnalyzeJobs,   \* partition Jobs
  Memories,      \* the memories there are at first
  MemoryOf,      \* existingMemoryId of a consolidation's payload
  FirstRead,     \* messages an analysis without a cursor reads: the newest 80
  NextRead,      \* and one with a cursor: the 100 that follow it
  MaxMessages,   \* bound on messages
  MaxQueued      \* bound on the jobs that are enqueued

ASSUME HandlersAssumption ==
  /\ Jobs = ConsolidateJobs \cup AnalyzeJobs
  /\ ConsolidateJobs \cap AnalyzeJobs = {}
  /\ MemoryOf \in [ConsolidateJobs -> Memories]
  /\ FirstRead \in Nat \ {0} /\ NextRead \in Nat \ {0}
  /\ MaxMessages \in Nat
  /\ MaxQueued \in Nat

VARIABLES
  memory,        \* v2_memories.status of the memories: "active", "superseded"
  replaced,      \* history: memories a corrected slot has superseded
  successors,    \* rows a job has created with supersedes_memory_id set
  copies,        \* rows a job has created beside the memory (keep_both)
  messages,      \* messages in the conversation
  span,          \* sourceMessageIds of an analysis: from..to
  analyzed,      \* history: messages whose scenes are stored (or were none)
  passedOver,    \* history: messages too old for an analysis without a cursor
  until,         \* story_analyzed_until_message_id
  stage          \* where the handler of each pump is

memoryVars == <<memory, replaced, successors, copies>>
storyVars  == <<messages, span, analyzed, passedOver, until>>
handlerVars == <<queueVars, memoryVars, storyVars, stage>>

HandlerInit ==
  /\ QueueInit
  /\ memory = [m \in Memories |-> "active"]
  /\ replaced = {}
  /\ successors = [j \in ConsolidateJobs |-> 0]
  /\ copies = [j \in ConsolidateJobs |-> 0]
  /\ messages = 0
  /\ span = [j \in AnalyzeJobs |-> <<0, 0>>]
  /\ analyzed = {}
  /\ passedOver = {}
  /\ until = 0
  /\ stage = [p \in Pumps |-> "none"]

-----------------------------------------------------------------------------
(* What happens around the pump.                                           *)

sendMessage ==
  /\ messages < MaxMessages
  /\ messages' = messages + 1
  /\ UNCHANGED <<queueVars, memoryVars, span, analyzed, passedOver, until, stage>>

mayQueue == Cardinality({j \in Jobs : status[j] # "absent"}) < MaxQueued

(* consume finds an active memory like a new assertion: a consolidation.   *)
queueConsolidation(j) ==
  /\ memory[MemoryOf[j]] = "active"
  /\ mayQueue /\ enqueue({j})
  /\ UNCHANGED <<memoryVars, storyVars, stage>>

(* consume corrects the slot of a memory: its row is superseded and a new  *)
(* one created, while a consolidation of it may be waiting for its model.  *)
replaceSlot(m) ==
  /\ memory[m] = "active"
  /\ memory' = [memory EXCEPT ![m] = "superseded"]
  /\ replaced' = replaced \cup {m}
  /\ UNCHANGED <<queueVars, successors, copies, storyVars, stage>>

(* How many messages are older than the newest FirstRead.                  *)
tooOld == IF messages > FirstRead THEN messages - FirstRead ELSE 0

(* What there is to read: the newest messages, or those after the cursor.  *)
unread ==
  IF until = 0
    THEN <<tooOld + 1, messages>>
    ELSE <<until + 1, IF until + NextRead < messages THEN until + NextRead ELSE messages>>

(* A creator asks for an analysis of what there is to read; nothing stops  *)
(* them from asking again while one is running.                            *)
triggerStoryAnalyze(j) ==
  /\ mayQueue /\ enqueue({j})
  /\ span' = [span EXCEPT ![j] = unread]
  /\ passedOver' = IF until = 0 THEN passedOver \cup 1..tooOld ELSE passedOver
  /\ UNCHANGED <<memoryVars, messages, analyzed, until, stage>>

-----------------------------------------------------------------------------
(* The pump around the handlers.                                           *)

takeJob(p) ==
  /\ claimNext(p)
  /\ stage' = [stage EXCEPT ![p] = "read"]
  /\ UNCHANGED <<memoryVars, storyVars>>

Leave(p) == stage' = [stage EXCEPT ![p] = "none"]

handlerReturns(p) == HandlerEnds(p, "complete") /\ Leave(p)

(* A read, the model, a parser, the fence or a write throws.               *)
handlerThrows(p) ==
  /\ HandlerEnds(p, "fail")
  /\ Leave(p)
  /\ UNCHANGED <<memoryVars, storyVars>>

pumpDies(p) ==
  /\ pumpCrash(p)
  /\ Leave(p)
  /\ UNCHANGED <<memoryVars, storyVars>>

InStage(p, label) == run[p].pc = "handle" /\ stage[p] = label

Advance(p, label) == stage' = [stage EXCEPT ![p] = label] /\ UNCHANGED queueVars

JobOf(p) == run[p].job

-----------------------------------------------------------------------------
(* handleMemoryConsolidate.                                                *)

(* Mutant: the status of the memory is not looked at.                      *)
readAnyMemory(p) ==
  /\ JobOf(p) \in ConsolidateJobs /\ InStage(p, "read")
  /\ Advance(p, "write")
  /\ UNCHANGED <<memoryVars, storyVars>>

readMemory(p) ==
  /\ JobOf(p) \in ConsolidateJobs /\ InStage(p, "read")
  /\ IF memory[MemoryOf[JobOf(p)]] = "active"
       THEN Advance(p, "write")
       ELSE handlerReturns(p)
  /\ UNCHANGED <<memoryVars, storyVars>>

ignoreCandidate(p) ==
  /\ JobOf(p) \in ConsolidateJobs /\ InStage(p, "write")
  /\ handlerReturns(p)
  /\ UNCHANGED <<memoryVars, storyVars>>

keepBoth(p) ==
  /\ JobOf(p) \in ConsolidateJobs /\ InStage(p, "write")
  /\ LeaseOwner(p)
  /\ copies' = [copies EXCEPT ![JobOf(p)] = @ + 1]
  /\ handlerReturns(p)
  /\ UNCHANGED <<memory, replaced, successors, storyVars>>

(* supersede and merge: the old row and its successor in one transaction,  *)
(* which does not look at the status of the old row again.                 *)
supersedeMemory(p) ==
  /\ JobOf(p) \in ConsolidateJobs /\ InStage(p, "write")
  /\ LeaseOwner(p)
  /\ memory' = [memory EXCEPT ![MemoryOf[JobOf(p)]] = "superseded"]
  /\ successors' = [successors EXCEPT ![JobOf(p)] = @ + 1]
  /\ handlerReturns(p)
  /\ UNCHANGED <<replaced, copies, storyVars>>

-----------------------------------------------------------------------------
(* handleStoryAnalyze.                                                     *)

Span(j) == span[j][1]..span[j][2]

(* Mutant: an analysis of no messages is answered with no scenes.          *)
readNoMessages(p) ==
  /\ JobOf(p) \in AnalyzeJobs /\ InStage(p, "read")
  /\ Advance(p, "store")
  /\ UNCHANGED <<memoryVars, storyVars>>

(* No message in the range, or no story world: it throws.                  *)
readMessages(p) ==
  /\ JobOf(p) \in AnalyzeJobs /\ InStage(p, "read")
  /\ Span(JobOf(p)) # {}
  /\ Advance(p, "store")
  /\ UNCHANGED <<memoryVars, storyVars>>

findNoScene(p) ==
  /\ JobOf(p) \in AnalyzeJobs /\ InStage(p, "store")
  /\ analyzed' = analyzed \cup Span(JobOf(p))
  /\ Advance(p, "cursor")
  /\ UNCHANGED <<memoryVars, messages, span, passedOver, until>>

storeScenes(p) ==
  /\ JobOf(p) \in AnalyzeJobs /\ InStage(p, "store")
  /\ LeaseOwner(p)
  /\ analyzed' = analyzed \cup Span(JobOf(p))
  /\ Advance(p, "cursor")
  /\ UNCHANGED <<memoryVars, messages, span, passedOver, until>>

(* Mutant: the cursor is moved before the scenes are stored.               *)
setCursorFirst(p) ==
  /\ JobOf(p) \in AnalyzeJobs /\ stage[p] \in {"store", "cursor"} /\ run[p].pc = "handle"
  /\ LeaseOwner(p)
  /\ until' = span[JobOf(p)][2]
  /\ handlerReturns(p)
  /\ UNCHANGED <<memoryVars, messages, span, analyzed, passedOver>>

(* The cursor is set to the end of the range, forwards or backwards.       *)
setStoryAnalyzeCursor(p) ==
  /\ JobOf(p) \in AnalyzeJobs /\ InStage(p, "cursor")
  /\ LeaseOwner(p)
  /\ until' = span[JobOf(p)][2]
  /\ handlerReturns(p)
  /\ UNCHANGED <<memoryVars, messages, span, analyzed, passedOver>>

-----------------------------------------------------------------------------
QueueStep ==
  /\ \/ \E j \in Jobs : retryFailed(j) \/ leaseExpires(j)
     \/ \E p \in Pumps :
          renewLease(p) \/ markCompleted(p) \/ markFailed(p) \/ statementFails(p)
  /\ UNCHANGED <<memoryVars, storyVars, stage>>

HandlerStep(p) ==
  \/ takeJob(p) \/ handlerThrows(p) \/ pumpDies(p)
  \/ readMemory(p) \/ ignoreCandidate(p) \/ keepBoth(p) \/ supersedeMemory(p)
  \/ readMessages(p) \/ findNoScene(p) \/ storeScenes(p) \/ setStoryAnalyzeCursor(p)

HandlerNext ==
  \/ sendMessage
  \/ \E j \in ConsolidateJobs : queueConsolidation(j)
  \/ \E j \in AnalyzeJobs : triggerStoryAnalyze(j)
  \/ \E m \in Memories : replaceSlot(m)
  \/ QueueStep
  \/ \E p \in Pumps : HandlerStep(p)

HandlerSpec == HandlerInit /\ [][HandlerNext]_handlerVars

-----------------------------------------------------------------------------
(* Types. *)
HandlerTypeOK ==
  /\ QueueTypeOK
  /\ memory \in [Memories -> {"active", "superseded"}]
  /\ replaced \subseteq Memories
  /\ successors \in [ConsolidateJobs -> Nat] /\ copies \in [ConsolidateJobs -> Nat]
  /\ messages \in Nat /\ until \in Nat
  /\ span \in [AnalyzeJobs -> Nat \X Nat]
  /\ analyzed \subseteq Nat /\ passedOver \subseteq Nat
  /\ stage \in [Pumps -> {"none", "read", "write", "store", "cursor"}]
  /\ \A p \in Pumps :
       /\ stage[p] # "none" <=> run[p].pc = "handle"
       /\ stage[p] = "write" => JobOf(p) \in ConsolidateJobs
       /\ stage[p] \in {"store", "cursor"} =>
            JobOf(p) \in AnalyzeJobs /\ Span(JobOf(p)) # {}

(* A consolidation replaces its memory once, however often its job crashes *)
(* after the write, is taken over while it waits for the model or is       *)
(* retried by hand; and a memory is superseded only when something has     *)
(* taken its place, so what it said is never lost.                         *)
SupersededOnce ==
  /\ \A j \in ConsolidateJobs : successors[j] <= 1
  /\ \A m \in Memories :
       memory[m] = "superseded" <=>
         (m \in replaced \/ \E j \in ConsolidateJobs : MemoryOf[j] = m /\ successors[j] > 0)

(* Behind the story cursor nothing is left unanalyzed but what was too old *)
(* for an analysis without a cursor: the scenes of every other message up  *)
(* to it are stored, though the cursor moves in a transaction of its own,  *)
(* analyses overlap, and a slow one may move it back.  An analysis after   *)
(* the cursor leaves no gap, however many messages wait.                   *)
SoundCursor == 1..until \subseteq analyzed \cup passedOver
=============================================================================
