---------------------------- MODULE StudioProofs ----------------------------
(***************************************************************************)
(* The studio as a whole: each part behaves as its own specification, so   *)
(* what CanonProofs, OutlineProofs and ReleaseProofs show holds of it.     *)
(* Here are also the proofs of its smaller parts: the memory and story     *)
(* handlers, which use the queue as MaintenanceQueue allows, proactive     *)
(* messages, the media directory and the scene editor.                     *)
(***************************************************************************)
EXTENDS Studio, CanonProofs, OutlineProofs, ReleaseProofs, MaintenanceQueueProofs,
        FiniteSetTheorems, TLAPS

-----------------------------------------------------------------------------
(* The handlers leave the queue to its own steps.                          *)
LEMMA HandlerQueueStep == [HandlerNext]_handlerVars => [QueueNext]_queueVars
<1> SUFFICES ASSUME [HandlerNext]_handlerVars PROVE [QueueNext]_queueVars
  OBVIOUS
<1>1. CASE UNCHANGED handlerVars
  BY <1>1 DEF handlerVars, queueVars
<1>2. CASE sendMessage
  BY <1>2 DEF sendMessage, queueVars
<1>3. ASSUME NEW j \in ConsolidateJobs, queueConsolidation(j) PROVE QueueNext
  <2>1. {j} \in SUBSET Jobs /\ {j} # {}
    BY HandlersAssumption
  <2> QED
    BY <1>3, <2>1 DEF queueConsolidation, QueueNext
<1>4. ASSUME NEW j \in AnalyzeJobs, triggerStoryAnalyze(j) PROVE QueueNext
  <2>1. {j} \in SUBSET Jobs /\ {j} # {}
    BY HandlersAssumption
  <2> QED
    BY <1>4, <2>1 DEF triggerStoryAnalyze, QueueNext
<1>5. ASSUME NEW m \in Memories, replaceSlot(m) PROVE UNCHANGED queueVars
  BY <1>5 DEF replaceSlot, queueVars
<1>6. CASE QueueStep
  BY <1>6 DEF QueueStep, QueueNext
<1>7. ASSUME NEW p \in Pumps, HandlerStep(p) PROVE [QueueNext]_queueVars
  <2>1. CASE takeJob(p)
    BY <2>1 DEF takeJob, QueueNext
  <2>2. CASE handlerThrows(p)
    BY <2>2 DEF handlerThrows, QueueNext
  <2>3. CASE pumpDies(p)
    BY <2>3 DEF pumpDies, QueueNext
  <2>4. ASSUME handlerReturns(p) PROVE QueueNext
    BY <2>4 DEF handlerReturns, QueueNext
  <2>5. ASSUME NEW label, Advance(p, label) PROVE UNCHANGED queueVars
    BY <2>5 DEF Advance
  <2>6. CASE readMemory(p)
    BY <2>4, <2>5, <2>6 DEF readMemory
  <2>7. CASE ignoreCandidate(p)
    BY <2>4, <2>7 DEF ignoreCandidate
  <2>8. CASE keepBoth(p)
    BY <2>4, <2>8 DEF keepBoth
  <2>9. CASE supersedeMemory(p)
    BY <2>4, <2>9 DEF supersedeMemory
  <2>10. CASE readMessages(p)
    BY <2>5, <2>10 DEF readMessages
  <2>11. CASE findNoScene(p)
    BY <2>5, <2>11 DEF findNoScene
  <2>12. CASE storeScenes(p)
    BY <2>5, <2>12 DEF storeScenes
  <2>13. CASE setStoryAnalyzeCursor(p)
    BY <2>4, <2>13 DEF setStoryAnalyzeCursor
  <2> QED
    BY <1>7, <2>1, <2>2, <2>3, <2>6, <2>7, <2>8, <2>9, <2>10, <2>11, <2>12, <2>13
    DEF HandlerStep
<1> QED
  BY <1>1, <1>2, <1>3, <1>4, <1>5, <1>6, <1>7 DEF HandlerNext

(* The handlers use the queue as the queue allows.                         *)
THEOREM HandlersUseQueue == HandlerSpec => QueueSpec
<1>1. HandlerInit => QueueInit
  BY DEF HandlerInit
<1> QED
  BY <1>1, HandlerQueueStep, PTL DEF HandlerSpec, QueueSpec

(* So what the queue promises is kept for these jobs: a pending one can be *)
(* claimed, none runs more often than its attempts, a lost lease completes *)
(* nothing, what is completed stays so, and a job abandoned is abandoned   *)
(* for good.                                                               *)
THEOREM HandlersQueueSafe ==
  HandlerSpec => /\ [](PendingIsClaimable /\ AttemptsBounded /\ Fenced)
                 /\ CompletedIsFinal
                 /\ \A j \in Jobs : [](Abandoned(j) => []Abandoned(j))
<1>1. \A j \in Jobs : QueueSpec => [](Abandoned(j) => []Abandoned(j))
  BY AbandonedForGood
<1>2. HandlerSpec => \A j \in Jobs : [](Abandoned(j) => []Abandoned(j))
  BY <1>1, HandlersUseQueue
<1> QED
  BY <1>2, HandlersUseQueue, QueueSafe, CompletionIsFinal, PTL

(* A job in the hands of a pump has a row.                                 *)
LEMMA RunningHasRow ==
  ASSUME QueueInv, NEW p \in Pumps, run[p].pc = "handle"
  PROVE  JobOf(p) \in Jobs /\ status[JobOf(p)] # "absent"
<1>1. run[p].job \in Jobs
  BY DEF QueueInv, QueueTypeOK, Runs
<1>2. run[p].n \in Nat /\ attempts[run[p].job] \in Nat
  BY <1>1 DEF QueueInv, QueueTypeOK, Runs
<1>3. 0 < run[p].n /\ run[p].n <= attempts[run[p].job]
  BY <1>1, QueueAssumption DEF QueueInv, RunsFit, RunFits
<1>4. status[run[p].job] = "absent" => attempts[run[p].job] = 0
  BY <1>1 DEF QueueInv, RowsFit, RowFits
<1> QED
  BY <1>1, <1>2, <1>3, <1>4 DEF JobOf

(* Only the steps around a handler bring it to its end.                    *)
LEMMA QueueStepRuns ==
  ASSUME QueueTypeOK, QueueStep, NEW p \in Pumps
  PROVE  /\ run'[p].pc = "handle" <=> run[p].pc = "handle"
         /\ run[p].pc = "handle" => run'[p] = run[p]
<1>1. ASSUME NEW j \in Jobs, retryFailed(j) \/ leaseExpires(j) PROVE run' = run
  BY <1>1 DEF retryFailed, leaseExpires
<1>2. ASSUME NEW q \in Pumps, renewLease(q) PROVE run' = run
  BY <1>2 DEF renewLease
<1>3. ASSUME NEW q \in Pumps, markCompleted(q) \/ markFailed(q)
      PROVE  run' = [run EXCEPT ![q] = Idle] /\ run[q].pc # "handle"
  BY <1>3 DEF markCompleted, markFailed
<1>4. ASSUME NEW q \in Pumps, statementFails(q)
      PROVE  /\ run[q].pc # "handle"
             /\ run' = [run EXCEPT ![q] = Idle] \/ run' = [run EXCEPT ![q].pc = "fail"]
  BY <1>4 DEF statementFails
<1>5. QED
  BY <1>1, <1>2, <1>3, <1>4 DEF QueueStep, QueueTypeOK, Runs, Idle

(* Where the handler of a pump is, and for which kind of job.              *)
StageFits(p) ==
  /\ stage[p] # "none" <=> run[p].pc = "handle"
  /\ stage[p] = "write" => JobOf(p) \in ConsolidateJobs
  /\ stage[p] \in {"store", "cursor"} => JobOf(p) \in AnalyzeJobs /\ Span(JobOf(p)) # {}

(* A pump's step concerns the handler of that pump alone.                  *)
Alone(p) ==
  /\ \A q \in Pumps : q # p => run'[q] = run[q] /\ stage'[q] = stage[q]
  /\ span' = span

LEMMA StepsAlone ==
  ASSUME HandlerTypeOK, NEW p \in Pumps, HandlerStep(p)
  PROVE  Alone(p)
<1> USE DEF HandlerTypeOK, QueueTypeOK
<1>1. ASSUME NEW label, stage' = [stage EXCEPT ![p] = label]
      PROVE  \A q \in Pumps : q # p => stage'[q] = stage[q]
  BY <1>1
<1>2. ASSUME NEW label, HandlerEnds(p, label)
      PROVE  \A q \in Pumps : q # p => run'[q] = run[q]
  BY <1>2 DEF HandlerEnds
<1>3. ASSUME claimNext(p) \/ pumpCrash(p)
      PROVE  \A q \in Pumps : q # p => run'[q] = run[q]
  BY <1>3 DEF claimNext, pumpCrash
<1>4. ASSUME handlerReturns(p)
      PROVE  \A q \in Pumps : q # p => run'[q] = run[q] /\ stage'[q] = stage[q]
  BY <1>1, <1>2, <1>4 DEF handlerReturns, Leave
<1>5. ASSUME NEW label, Advance(p, label)
      PROVE  \A q \in Pumps : q # p => run'[q] = run[q] /\ stage'[q] = stage[q]
  BY <1>1, <1>5 DEF Advance, queueVars
<1> QED
  <2>1. CASE takeJob(p)
    BY <1>1, <1>3, <2>1 DEF takeJob, Alone, storyVars
  <2>2. CASE handlerThrows(p)
    BY <1>1, <1>2, <2>2 DEF handlerThrows, Leave, Alone, storyVars
  <2>3. CASE pumpDies(p)
    BY <1>1, <1>3, <2>3 DEF pumpDies, Leave, Alone, storyVars
  <2>4. CASE readMemory(p)
    BY <1>4, <1>5, <2>4 DEF readMemory, Alone, storyVars
  <2>5. CASE ignoreCandidate(p)
    BY <1>4, <2>5 DEF ignoreCandidate, Alone, storyVars
  <2>6. CASE keepBoth(p)
    BY <1>4, <2>6 DEF keepBoth, Alone, storyVars
  <2>7. CASE supersedeMemory(p)
    BY <1>4, <2>7 DEF supersedeMemory, Alone, storyVars
  <2>8. CASE readMessages(p)
    BY <1>5, <2>8 DEF readMessages, Alone, storyVars
  <2>9. CASE findNoScene(p)
    BY <1>5, <2>9 DEF findNoScene, Alone
  <2>10. CASE storeScenes(p)
    BY <1>5, <2>10 DEF storeScenes, Alone
  <2>11. CASE setStoryAnalyzeCursor(p)
    BY <1>4, <2>11 DEF setStoryAnalyzeCursor, Alone
  <2> QED
    BY <2>1, <2>2, <2>3, <2>4, <2>5, <2>6, <2>7, <2>8, <2>9, <2>10, <2>11 DEF HandlerStep

(* The pump that steps is then in a stage that fits its job.               *)
LEMMA StepFits ==
  ASSUME HandlerTypeOK, NEW p \in Pumps, HandlerStep(p)
  PROVE  /\ stage'[p] \in {"none", "read", "write", "store", "cursor"}
         /\ StageFits(p)'
<1> USE DEF HandlerTypeOK, QueueTypeOK, StageFits
<1>1. span' = span
  BY StepsAlone DEF Alone
<1>2. ASSUME NEW label \in {"complete", "fail"}, HandlerEnds(p, label), Leave(p)
      PROVE  stage'[p] = "none" /\ run'[p].pc # "handle"
  BY <1>2 DEF HandlerEnds, Leave, Runs
<1>3. ASSUME handlerReturns(p) PROVE stage'[p] = "none" /\ run'[p].pc # "handle"
  BY <1>2, <1>3 DEF handlerReturns
<1>4. ASSUME NEW label, Advance(p, label)
      PROVE  stage'[p] = label /\ run'[p] = run[p]
  BY <1>4 DEF Advance, queueVars
<1>5. CASE takeJob(p)
  <2>1. stage'[p] = "read"
    BY <1>5 DEF takeJob
  <2>2. run'[p].pc = "handle"
    BY <1>5 DEF takeJob, claimNext
  <2> QED
    BY <2>1, <2>2
<1>6. CASE handlerThrows(p)
  BY <1>2, <1>6 DEF handlerThrows
<1>7. CASE pumpDies(p)
  BY <1>7 DEF pumpDies, pumpCrash, Leave, Idle
<1>8. CASE readMemory(p)
  <2>1. CASE Advance(p, "write")
    BY <1>4, <1>8, <2>1 DEF readMemory, InStage, JobOf
  <2>2. CASE handlerReturns(p)
    BY <1>3, <2>2
  <2> QED
    BY <1>8, <2>1, <2>2 DEF readMemory
<1>9. CASE ignoreCandidate(p) \/ keepBoth(p) \/ supersedeMemory(p) \/ setStoryAnalyzeCursor(p)
  BY <1>3, <1>9 DEF ignoreCandidate, keepBoth, supersedeMemory, setStoryAnalyzeCursor
<1>10. CASE readMessages(p)
  BY <1>1, <1>4, <1>10 DEF readMessages, InStage, JobOf, Span
<1>11. CASE findNoScene(p)
  BY <1>1, <1>4, <1>11 DEF findNoScene, InStage, JobOf, Span
<1>12. CASE storeScenes(p)
  BY <1>1, <1>4, <1>12 DEF storeScenes, InStage, JobOf, Span
<1> QED
  BY <1>5, <1>6, <1>7, <1>8, <1>9, <1>10, <1>11, <1>12 DEF HandlerStep

(* What the handlers write keeps its type.                                 *)
HandlerData ==
  /\ memory \in [Memories -> {"active", "superseded"}]
  /\ replaced \subseteq Memories
  /\ successors \in [ConsolidateJobs -> Nat] /\ copies \in [ConsolidateJobs -> Nat]
  /\ messages \in Nat /\ until \in Nat
  /\ span \in [AnalyzeJobs -> Nat \X Nat]
  /\ analyzed \subseteq Nat /\ passedOver \subseteq Nat

(* What there is to read begins right after the cursor or what is too old. *)
LEMMA UnreadIsRange ==
  ASSUME HandlerData
  PROVE  /\ unread \in Nat \X Nat /\ tooOld \in Nat
         /\ unread[1] = IF until = 0 THEN tooOld + 1 ELSE until + 1
  BY HandlersAssumption DEF HandlerData, unread, tooOld

LEMMA SpanInNat ==
  ASSUME HandlerData, NEW j \in AnalyzeJobs
  PROVE  span[j][1] \in Nat /\ span[j][2] \in Nat /\ Span(j) \subseteq Nat
  BY DEF HandlerData, Span

LEMMA DataStep == HandlerData /\ [HandlerNext]_handlerVars => HandlerData'
<1> SUFFICES ASSUME HandlerData, [HandlerNext]_handlerVars PROVE HandlerData'
  OBVIOUS
<1>0. ASSUME UNCHANGED <<memoryVars, storyVars>> PROVE HandlerData'
  BY <1>0 DEF HandlerData, memoryVars, storyVars
<1>1. CASE UNCHANGED handlerVars
  BY <1>0, <1>1 DEF handlerVars
<1>2. CASE sendMessage
  BY <1>2 DEF sendMessage, HandlerData, memoryVars
<1>3. ASSUME NEW j \in ConsolidateJobs, queueConsolidation(j) PROVE HandlerData'
  BY <1>0, <1>3 DEF queueConsolidation
<1>4. ASSUME NEW j \in AnalyzeJobs, triggerStoryAnalyze(j) PROVE HandlerData'
  <2>0. unread \in Nat \X Nat /\ span' = [span EXCEPT ![j] = unread]
    BY <1>4, UnreadIsRange DEF triggerStoryAnalyze
  <2>1. span' \in [AnalyzeJobs -> Nat \X Nat]
    BY <2>0 DEF HandlerData
  <2>2. passedOver' \subseteq Nat
    <3>1. \A n \in Nat : 1..n \subseteq Nat
      OBVIOUS
    <3>2. 1..tooOld \subseteq Nat /\ passedOver \subseteq Nat
      BY <3>1, UnreadIsRange DEF HandlerData
    <3>3. passedOver' \in {passedOver, passedOver \cup 1..tooOld}
      BY <1>4 DEF triggerStoryAnalyze
    <3> QED
      BY <3>2, <3>3
  <2> QED
    BY <1>4, <2>1, <2>2 DEF triggerStoryAnalyze, HandlerData, memoryVars
<1>5. ASSUME NEW m \in Memories, replaceSlot(m) PROVE HandlerData'
  BY <1>5 DEF replaceSlot, HandlerData, storyVars
<1>6. CASE QueueStep
  BY <1>0, <1>6 DEF QueueStep
<1>7. ASSUME NEW p \in Pumps, HandlerStep(p) PROVE HandlerData'
  <2>1. CASE takeJob(p) \/ handlerThrows(p) \/ pumpDies(p) \/ readMemory(p)
             \/ ignoreCandidate(p) \/ readMessages(p)
    BY <1>0, <2>1
    DEF takeJob, handlerThrows, pumpDies, readMemory, ignoreCandidate, readMessages
  <2>2. CASE keepBoth(p)
    BY <2>2 DEF keepBoth, HandlerData, storyVars
  <2>3. CASE supersedeMemory(p)
    <3>1. memory' \in [Memories -> {"active", "superseded"}]
      BY <2>3 DEF supersedeMemory, HandlerData
    <3>2. successors' \in [ConsolidateJobs -> Nat]
      BY <2>3 DEF supersedeMemory, HandlerData
    <3> QED
      BY <2>3, <3>1, <3>2 DEF supersedeMemory, HandlerData, storyVars
  <2>4. CASE findNoScene(p) \/ storeScenes(p)
    <3>1. JobOf(p) \in AnalyzeJobs
      BY <2>4 DEF findNoScene, storeScenes
    <3>2. Span(JobOf(p)) \subseteq Nat
      BY <3>1, SpanInNat
    <3> QED
      BY <2>4, <3>2 DEF findNoScene, storeScenes, HandlerData, memoryVars
  <2>5. CASE setStoryAnalyzeCursor(p)
    <3>1. JobOf(p) \in AnalyzeJobs
      BY <2>5 DEF setStoryAnalyzeCursor
    <3>2. span[JobOf(p)][2] \in Nat
      BY <3>1, SpanInNat
    <3> QED
      BY <2>5, <3>2 DEF setStoryAnalyzeCursor, HandlerData, memoryVars
  <2> QED
    BY <1>7, <2>1, <2>2, <2>3, <2>4, <2>5 DEF HandlerStep
<1> QED
  BY <1>1, <1>2, <1>3, <1>4, <1>5, <1>6, <1>7 DEF HandlerNext

(* A step of a pump moves one stage.                                       *)
LEMMA StageMoves ==
  ASSUME NEW p \in Pumps, HandlerStep(p)
  PROVE  \E label : stage' = [stage EXCEPT ![p] = label]
<1>1. ASSUME handlerReturns(p) PROVE \E label : stage' = [stage EXCEPT ![p] = label]
  BY <1>1 DEF handlerReturns, Leave
<1>2. ASSUME NEW l, Advance(p, l) PROVE \E label : stage' = [stage EXCEPT ![p] = label]
  BY <1>2 DEF Advance
<1>3. CASE takeJob(p) \/ handlerThrows(p) \/ pumpDies(p)
  BY <1>3 DEF takeJob, handlerThrows, pumpDies, Leave
<1>4. CASE readMemory(p) \/ ignoreCandidate(p) \/ keepBoth(p) \/ supersedeMemory(p)
           \/ setStoryAnalyzeCursor(p)
  BY <1>1, <1>2, <1>4
  DEF readMemory, ignoreCandidate, keepBoth, supersedeMemory, setStoryAnalyzeCursor
<1>5. CASE readMessages(p) \/ findNoScene(p) \/ storeScenes(p)
  BY <1>2, <1>5 DEF readMessages, findNoScene, storeScenes
<1> QED
  BY <1>3, <1>4, <1>5 DEF HandlerStep

HandlerStages == {"none", "read", "write", "store", "cursor"}

LEMMA StagesStep ==
  ASSUME HandlerTypeOK, QueueInv, [HandlerNext]_handlerVars
  PROVE  /\ stage' \in [Pumps -> HandlerStages]
         /\ \A q \in Pumps : StageFits(q)'
<1> USE DEF HandlerTypeOK, QueueTypeOK, HandlerStages, StageFits
<1>1. CASE UNCHANGED handlerVars
  BY <1>1 DEF handlerVars, queueVars, storyVars, JobOf, Span
<1>2. CASE sendMessage
  BY <1>2 DEF sendMessage, queueVars, JobOf, Span
<1>3. ASSUME NEW j \in ConsolidateJobs, queueConsolidation(j)
      PROVE  stage' \in [Pumps -> HandlerStages] /\ \A q \in Pumps : StageFits(q)'
  BY <1>3 DEF queueConsolidation, enqueue, storyVars, JobOf, Span
<1>4. ASSUME NEW j \in AnalyzeJobs, triggerStoryAnalyze(j)
      PROVE  stage' \in [Pumps -> HandlerStages] /\ \A q \in Pumps : StageFits(q)'
  <2>1. status[j] = "absent" /\ run' = run /\ stage' = stage
    BY <1>4 DEF triggerStoryAnalyze, enqueue
  <2>2. ASSUME NEW q \in Pumps, run[q].pc = "handle" PROVE JobOf(q) # j
    BY <2>1, <2>2, RunningHasRow
  <2>3. \A i \in AnalyzeJobs : i # j => span'[i] = span[i]
    BY <1>4 DEF triggerStoryAnalyze
  <2> QED
    BY <2>1, <2>2, <2>3 DEF JobOf, Span
<1>5. ASSUME NEW m \in Memories, replaceSlot(m)
      PROVE  stage' \in [Pumps -> HandlerStages] /\ \A q \in Pumps : StageFits(q)'
  BY <1>5 DEF replaceSlot, queueVars, storyVars, JobOf, Span
<1>6. CASE QueueStep
  <2>1. stage' = stage /\ span' = span
    BY <1>6 DEF QueueStep, storyVars
  <2>2. \A q \in Pumps : /\ run'[q].pc = "handle" <=> run[q].pc = "handle"
                         /\ run[q].pc = "handle" => run'[q] = run[q]
    BY <1>6, QueueStepRuns
  <2> QED
    BY <2>1, <2>2 DEF JobOf, Span
<1>7. ASSUME NEW p \in Pumps, HandlerStep(p)
      PROVE  stage' \in [Pumps -> HandlerStages] /\ \A q \in Pumps : StageFits(q)'
  <2>1. Alone(p)
    BY <1>7, StepsAlone
  <2>2. stage'[p] \in HandlerStages /\ StageFits(p)'
    BY <1>7, StepFits
  <2>3. PICK label : stage' = [stage EXCEPT ![p] = label]
    BY <1>7, StageMoves
  <2>4. stage' \in [Pumps -> HandlerStages]
    BY <2>2, <2>3
  <2>5. ASSUME NEW q \in Pumps, q # p PROVE StageFits(q)'
    BY <2>1, <2>5 DEF Alone, JobOf, Span
  <2> QED
    BY <2>2, <2>4, <2>5
<1> QED
  BY <1>1, <1>2, <1>3, <1>4, <1>5, <1>6, <1>7 DEF HandlerNext

LEMMA HandlerTypeStep ==
  HandlerTypeOK /\ QueueInv /\ [HandlerNext]_handlerVars => HandlerTypeOK'
<1> SUFFICES ASSUME HandlerTypeOK, QueueInv, [HandlerNext]_handlerVars
             PROVE  HandlerTypeOK'
  OBVIOUS
<1>1. QueueTypeOK'
  BY HandlerQueueStep, TypeStep DEF QueueInv
<1>2. HandlerData'
  BY DataStep DEF HandlerTypeOK, HandlerData
<1>3. stage' \in [Pumps -> HandlerStages] /\ \A q \in Pumps : StageFits(q)'
  BY StagesStep
<1> QED
  BY <1>1, <1>2, <1>3 DEF HandlerTypeOK, HandlerData, HandlerStages, StageFits


-----------------------------------------------------------------------------
(* The consolidation that is about to be written by the run that holds it  *)
(* has not been written: an earlier run that wrote has lost the job or     *)
(* completes it.                                                           *)
Unwritten(p) == stage[p] = "write" /\ Holds(p) => successors[JobOf(p)] = 0

(* A run that was about to write, and still is, finds it unwritten.        *)
LEMMA UnwrittenKept ==
  ASSUME HandlerTypeOK, HandlerTypeOK', [HandlerNext]_handlerVars, successors' = successors,
         \A p \in Pumps : Unwritten(p), NEW q \in Pumps,
         stage'[q] = "write" => stage[q] = "write" /\ run'[q] = run[q]
  PROVE  Unwritten(q)'
<1>1. QueueTypeOK /\ [QueueNext]_queueVars
  BY HandlerQueueStep DEF HandlerTypeOK
<1> SUFFICES ASSUME stage'[q] = "write", Holds(q)' PROVE successors[JobOf(q)] = 0
  BY DEF Unwritten, JobOf
<1>2. run[q].pc # "idle"
  BY DEF HandlerTypeOK
<1>3. Holds(q)
  BY <1>1, <1>2, HoldsKept
<1> QED
  BY <1>3 DEF Unwritten

LEMMA SuccessorsStep ==
  ASSUME HandlerTypeOK, HandlerTypeOK', QueueInv, [HandlerNext]_handlerVars,
         \A p \in Pumps : Unwritten(p), SupersededOnce
  PROVE  (\A p \in Pumps : Unwritten(p)') /\ SupersededOnce'
<1>0. HandlerData
  BY DEF HandlerTypeOK, HandlerData
<1>a. ASSUME UNCHANGED memoryVars PROVE SupersededOnce'
  BY <1>a DEF SupersededOnce, memoryVars
<1>b. ASSUME UNCHANGED memoryVars, stage' = stage, run' = run
      PROVE  \A q \in Pumps : Unwritten(q)'
  BY <1>b, UnwrittenKept DEF memoryVars
<1>c. ASSUME UNCHANGED memoryVars, NEW p \in Pumps, HandlerStep(p), stage'[p] # "write"
      PROVE  \A q \in Pumps : Unwritten(q)'
  BY <1>c, StepsAlone, UnwrittenKept DEF memoryVars, Alone
<1>1. CASE UNCHANGED handlerVars
  BY <1>a, <1>b, <1>1 DEF handlerVars, queueVars
<1>2. CASE sendMessage
  BY <1>a, <1>b, <1>2 DEF sendMessage, queueVars
<1>3. ASSUME NEW j \in ConsolidateJobs, queueConsolidation(j)
      PROVE  (\A p \in Pumps : Unwritten(p)') /\ SupersededOnce'
  BY <1>a, <1>b, <1>3 DEF queueConsolidation, enqueue
<1>4. ASSUME NEW j \in AnalyzeJobs, triggerStoryAnalyze(j)
      PROVE  (\A p \in Pumps : Unwritten(p)') /\ SupersededOnce'
  BY <1>a, <1>b, <1>4 DEF triggerStoryAnalyze, enqueue
<1>5. ASSUME NEW m \in Memories, replaceSlot(m)
      PROVE  (\A p \in Pumps : Unwritten(p)') /\ SupersededOnce'
  <2>1. \A q \in Pumps : Unwritten(q)'
    BY <1>5, UnwrittenKept DEF replaceSlot, queueVars
  <2>2. SupersededOnce'
    BY <1>0, <1>5 DEF replaceSlot, SupersededOnce, HandlerData
  <2> QED
    BY <2>1, <2>2
<1>6. CASE QueueStep
  <2>1. UNCHANGED memoryVars /\ stage' = stage
    BY <1>6 DEF QueueStep
  <2>2. ASSUME NEW q \in Pumps, stage[q] = "write" PROVE run'[q] = run[q]
    BY <1>6, <2>2, QueueStepRuns DEF HandlerTypeOK
  <2>3. \A q \in Pumps : Unwritten(q)'
    BY <2>1, <2>2, UnwrittenKept DEF memoryVars
  <2> QED
    BY <1>a, <2>1, <2>3
<1>7. ASSUME NEW p \in Pumps, HandlerStep(p)
      PROVE  (\A q \in Pumps : Unwritten(q)') /\ SupersededOnce'
  <2>1. Alone(p)
    BY <1>7, StepsAlone
  <2>2. ASSUME Leave(p) PROVE stage'[p] # "write"
    BY <2>2 DEF Leave, HandlerTypeOK
  <2>3. ASSUME handlerReturns(p) PROVE stage'[p] # "write"
    BY <2>2, <2>3 DEF handlerReturns
  <2>4. ASSUME NEW label, Advance(p, label) PROVE stage'[p] = label /\ run' = run
    BY <2>4 DEF Advance, HandlerTypeOK, queueVars
  <2>5. CASE takeJob(p) \/ handlerThrows(p) \/ pumpDies(p) \/ ignoreCandidate(p)
    <3>1. UNCHANGED memoryVars
      BY <2>5 DEF takeJob, handlerThrows, pumpDies, ignoreCandidate
    <3>2. stage'[p] # "write"
      BY <2>2, <2>3, <2>5
      DEF takeJob, handlerThrows, pumpDies, ignoreCandidate, HandlerTypeOK
    <3> QED
      BY <1>a, <1>c, <1>7, <3>1, <3>2
  <2>6. CASE readMessages(p) \/ findNoScene(p) \/ storeScenes(p) \/ setStoryAnalyzeCursor(p)
    <3>1. UNCHANGED memoryVars
      BY <2>6 DEF readMessages, findNoScene, storeScenes, setStoryAnalyzeCursor
    <3>2. stage'[p] # "write"
      BY <2>3, <2>4, <2>6 DEF readMessages, findNoScene, storeScenes, setStoryAnalyzeCursor
    <3> QED
      BY <1>a, <1>c, <1>7, <3>1, <3>2
  <2>7. CASE keepBoth(p)
    <3>1. stage'[p] # "write" /\ UNCHANGED <<memory, replaced, successors>>
      BY <2>3, <2>7 DEF keepBoth
    <3>2. \A q \in Pumps : Unwritten(q)'
      BY <2>1, <3>1, UnwrittenKept DEF Alone
    <3> QED
      BY <3>1, <3>2 DEF SupersededOnce
  <2>8. CASE readMemory(p)
    <3>1. UNCHANGED memoryVars
      BY <2>8 DEF readMemory
    <3>2. CASE handlerReturns(p)
      BY <1>a, <1>c, <1>7, <2>3, <3>1, <3>2
    <3>3. CASE Advance(p, "write") /\ memory[MemoryOf[JobOf(p)]] = "active"
      <4>1. PICK j \in ConsolidateJobs : j = JobOf(p)
        BY <2>8 DEF readMemory
      <4>2. MemoryOf[j] \in Memories
        BY HandlersAssumption
      <4>3. ~(successors[j] > 0)
        BY <3>3, <4>1, <4>2 DEF SupersededOnce
      <4>4. successors[j] = 0
        BY <1>0, <4>3 DEF HandlerData
      <4>5. run' = run /\ successors' = successors
        BY <2>4, <3>1, <3>3 DEF memoryVars
      <4>6. Unwritten(p)'
        BY <4>1, <4>4, <4>5 DEF Unwritten, JobOf
      <4>7. ASSUME NEW q \in Pumps, q # p PROVE Unwritten(q)'
        BY <2>1, <4>5, <4>7, UnwrittenKept DEF Alone
      <4> QED
        BY <1>a, <3>1, <4>6, <4>7
    <3> QED
      BY <2>8, <3>2, <3>3 DEF readMemory
  <2>9. CASE supersedeMemory(p)
    <3>1. PICK j \in ConsolidateJobs : j = JobOf(p)
      BY <2>9 DEF supersedeMemory
    <3>2. Holds(p) /\ stage[p] = "write"
      BY <2>9 DEF supersedeMemory, LeaseOwner, Holds, InStage
    <3>3. successors[j] = 0
      BY <3>1, <3>2 DEF Unwritten
    <3>4. successors' = [successors EXCEPT ![j] = @ + 1] /\ replaced' = replaced
      BY <2>9, <3>1 DEF supersedeMemory
    <3>5. memory' = [memory EXCEPT ![MemoryOf[j]] = "superseded"]
      BY <2>9, <3>1 DEF supersedeMemory
    <3>6. successors'[j] = 1 /\ \A i \in ConsolidateJobs : i # j => successors'[i] = successors[i]
      BY <1>0, <3>3, <3>4 DEF HandlerData
    <3>7. SupersededOnce'
      <4>1. \A i \in ConsolidateJobs : successors'[i] <= 1
        BY <3>6 DEF SupersededOnce
      <4>2. ASSUME NEW m \in Memories
            PROVE  memory'[m] = "superseded" <=>
              (m \in replaced' \/ \E i \in ConsolidateJobs : MemoryOf[i] = m /\ successors'[i] > 0)
        <5>1. CASE m = MemoryOf[j]
          BY <1>0, <3>5, <3>6, <5>1 DEF HandlerData
        <5>2. CASE m # MemoryOf[j]
          BY <1>0, <3>4, <3>5, <3>6, <5>2 DEF HandlerData, SupersededOnce
        <5> QED
          BY <5>1, <5>2
      <4> QED
        BY <4>1, <4>2 DEF SupersededOnce
    <3>8. ASSUME NEW q \in Pumps PROVE Unwritten(q)'
      <4>1. CASE q = p
        BY <2>3, <2>9, <4>1 DEF supersedeMemory, Unwritten
      <4>2. CASE q # p
        <5> SUFFICES ASSUME stage'[q] = "write", Holds(q)' PROVE successors'[JobOf(q)'] = 0
          BY DEF Unwritten
        <5>1. run'[q] = run[q] /\ stage[q] = "write" /\ run[q].pc # "idle"
          BY <2>1, <4>2 DEF Alone, HandlerTypeOK
        <5>2. QueueTypeOK /\ [QueueNext]_queueVars
          BY HandlerQueueStep DEF HandlerTypeOK
        <5>3. Holds(q)
          BY <5>1, <5>2, HoldsKept
        <5>4. JobOf(q) # j
          BY <3>1, <3>2, <4>2, <5>3 DEF Holds, JobOf
        <5>5. JobOf(q) \in ConsolidateJobs /\ successors[JobOf(q)] = 0
          BY <5>1, <5>3 DEF Unwritten, HandlerTypeOK
        <5> QED
          BY <3>6, <5>1, <5>4, <5>5 DEF JobOf
      <4> QED
        BY <4>1, <4>2
    <3> QED
      BY <3>7, <3>8
  <2> QED
    BY <1>7, <2>5, <2>6, <2>7, <2>8, <2>9 DEF HandlerStep
<1> QED
  BY <1>1, <1>2, <1>3, <1>4, <1>5, <1>6, <1>7 DEF HandlerNext


-----------------------------------------------------------------------------
(* The story cursor: a range begins behind what is analyzed or was too     *)
(* old, and a run that moves the cursor has stored the scenes of its       *)
(* range.                                                                  *)
RangesBegin ==
  \A j \in AnalyzeJobs : \A i \in Nat : 0 < i /\ i < span[j][1]
                                    => i \in analyzed \cup passedOver

Stored(p) == stage[p] = "cursor" => Span(JobOf(p)) \subseteq analyzed

CursorInv == SoundCursor /\ RangesBegin /\ \A p \in Pumps : Stored(p)

LEMMA CursorKept ==
  ASSUME HandlerTypeOK, CursorInv, span' = span, until' = until, analyzed \subseteq analyzed',
         passedOver \subseteq passedOver',
         \A p \in Pumps : stage'[p] = "cursor" => stage[p] = "cursor" /\ run'[p] = run[p]
  PROVE  CursorInv'
<1>1. SoundCursor'
  BY DEF CursorInv, SoundCursor
<1>2. RangesBegin'
  BY DEF CursorInv, RangesBegin
<1>3. ASSUME NEW p \in Pumps PROVE Stored(p)'
  BY DEF CursorInv, Stored, Span, JobOf
<1> QED
  BY <1>1, <1>2, <1>3 DEF CursorInv

LEMMA CursorStep ==
  ASSUME HandlerTypeOK, HandlerTypeOK', QueueInv, [HandlerNext]_handlerVars, CursorInv
  PROVE  CursorInv'
<1>0. HandlerData
  BY DEF HandlerTypeOK, HandlerData
<1>a. ASSUME UNCHANGED <<span, until, analyzed, passedOver>>, stage' = stage, run' = run PROVE CursorInv'
  BY <1>a, CursorKept
<1>b. ASSUME UNCHANGED <<span, until, analyzed, passedOver>>, NEW p \in Pumps, HandlerStep(p),
             stage'[p] # "cursor"
      PROVE  CursorInv'
  BY <1>b, StepsAlone, CursorKept DEF Alone
<1>1. CASE UNCHANGED handlerVars
  BY <1>a, <1>1 DEF handlerVars, queueVars, storyVars
<1>2. CASE sendMessage
  BY <1>a, <1>2 DEF sendMessage, queueVars
<1>3. ASSUME NEW j \in ConsolidateJobs, queueConsolidation(j) PROVE CursorInv'
  BY <1>a, <1>3 DEF queueConsolidation, enqueue, storyVars
<1>4. ASSUME NEW j \in AnalyzeJobs, triggerStoryAnalyze(j) PROVE CursorInv'
  <2>1. /\ status[j] = "absent" /\ run' = run /\ stage' = stage
        /\ until' = until /\ analyzed' = analyzed
        /\ passedOver' = IF until = 0 THEN passedOver \cup 1..tooOld ELSE passedOver
    BY <1>4 DEF triggerStoryAnalyze, enqueue
  <2>2. /\ span'[j] = unread
        /\ \A i \in AnalyzeJobs : i # j => span'[i] = span[i]
    BY <1>0, <1>4 DEF triggerStoryAnalyze, HandlerData
  <2>3. SoundCursor'
    BY <2>1 DEF CursorInv, SoundCursor
  <2>4. ASSUME NEW k \in AnalyzeJobs, NEW i \in Nat, 0 < i, i < span'[k][1]
        PROVE  i \in analyzed \cup passedOver'
    <3>1. CASE k = j
      <4>1. CASE until = 0
        <5>1. i < tooOld + 1 /\ tooOld \in Nat
          BY <1>0, <2>2, <2>4, <3>1, <4>1, UnreadIsRange
        <5>2. i \in 1..tooOld
          BY <2>4, <5>1
        <5> QED
          BY <2>1, <4>1, <5>2
      <4>2. CASE until # 0
        <5>1. i < until + 1 /\ until \in Nat
          BY <1>0, <2>2, <2>4, <3>1, <4>2, UnreadIsRange DEF HandlerData
        <5>2. i \in 1..until
          BY <2>4, <5>1
        <5> QED
          BY <2>1, <5>2 DEF CursorInv, SoundCursor
      <4> QED
        BY <4>1, <4>2
    <3>2. CASE k # j
      BY <2>1, <2>2, <2>4, <3>2 DEF CursorInv, RangesBegin
    <3> QED
      BY <3>1, <3>2
  <2>5. ASSUME NEW q \in Pumps PROVE Stored(q)'
    <3> SUFFICES ASSUME stage[q] = "cursor" PROVE Stored(q)'
      BY <2>1 DEF Stored
    <3>1. JobOf(q) \in AnalyzeJobs /\ run[q].pc = "handle"
      BY DEF HandlerTypeOK
    <3>2. JobOf(q) # j
      BY <2>1, <3>1, RunningHasRow
    <3> QED
      BY <2>1, <2>2, <3>1, <3>2 DEF CursorInv, Stored, Span, JobOf
  <2> QED
    BY <2>1, <2>3, <2>4, <2>5 DEF CursorInv, RangesBegin
<1>5. ASSUME NEW m \in Memories, replaceSlot(m) PROVE CursorInv'
  BY <1>a, <1>5 DEF replaceSlot, queueVars, storyVars
<1>6. CASE QueueStep
  <2>1. UNCHANGED <<span, until, analyzed, passedOver>> /\ stage' = stage
    BY <1>6 DEF QueueStep, storyVars
  <2>2. ASSUME NEW q \in Pumps, stage[q] = "cursor" PROVE run'[q] = run[q]
    BY <1>6, <2>2, QueueStepRuns DEF HandlerTypeOK
  <2> QED
    BY <2>1, <2>2, CursorKept
<1>7. ASSUME NEW p \in Pumps, HandlerStep(p) PROVE CursorInv'
  <2>1. Alone(p)
    BY <1>7, StepsAlone
  <2>2. ASSUME Leave(p) PROVE stage'[p] = "none"
    BY <2>2 DEF Leave, HandlerTypeOK
  <2>3. ASSUME handlerReturns(p) PROVE stage'[p] = "none"
    BY <2>2, <2>3 DEF handlerReturns
  <2>4. ASSUME NEW label, Advance(p, label) PROVE stage'[p] = label /\ run' = run
    BY <2>4 DEF Advance, HandlerTypeOK, queueVars
  <2>5. CASE takeJob(p) \/ handlerThrows(p) \/ pumpDies(p) \/ ignoreCandidate(p)
             \/ keepBoth(p) \/ supersedeMemory(p) \/ readMemory(p) \/ readMessages(p)
    <3>1. UNCHANGED <<span, until, analyzed, passedOver>>
      BY <2>5 DEF takeJob, handlerThrows, pumpDies, ignoreCandidate, keepBoth,
                  supersedeMemory, readMemory, readMessages, storyVars
    <3>2. stage'[p] # "cursor"
      BY <2>2, <2>3, <2>4, <2>5
      DEF takeJob, handlerThrows, pumpDies, ignoreCandidate, keepBoth,
          supersedeMemory, readMemory, readMessages, HandlerTypeOK
    <3> QED
      BY <1>b, <1>7, <3>1, <3>2
  <2>6. CASE findNoScene(p) \/ storeScenes(p)
    <3>1. /\ run' = run /\ UNCHANGED <<span, until, passedOver>>
          /\ analyzed' = analyzed \cup Span(JobOf(p))
      BY <2>4, <2>6 DEF findNoScene, storeScenes
    <3>2. SoundCursor'
      BY <3>1 DEF CursorInv, SoundCursor
    <3>3. RangesBegin'
      BY <3>1 DEF CursorInv, RangesBegin
    <3>4. ASSUME NEW q \in Pumps PROVE Stored(q)'
      BY <2>1, <3>1 DEF CursorInv, Stored, Alone, Span, JobOf
    <3> QED
      BY <3>2, <3>3, <3>4 DEF CursorInv
  <2>7. CASE setStoryAnalyzeCursor(p)
    <3>1. PICK j \in AnalyzeJobs : j = JobOf(p)
      BY <2>7 DEF setStoryAnalyzeCursor
    <3>2. /\ until' = span[j][2] /\ UNCHANGED <<span, analyzed, passedOver>>
          /\ stage[p] = "cursor" /\ stage'[p] = "none"
      BY <2>3, <2>7, <3>1 DEF setStoryAnalyzeCursor, InStage
    <3>3. span[j][1] \in Nat /\ span[j][2] \in Nat
      BY <1>0, SpanInNat
    <3>4. ASSUME NEW i \in 1..span[j][2] PROVE i \in analyzed \cup passedOver
      <4>1. CASE i < span[j][1]
        BY <3>3, <4>1 DEF CursorInv, RangesBegin
      <4>2. CASE ~(i < span[j][1])
        <5>1. i \in Span(j)
          BY <3>3, <4>2 DEF Span
        <5> QED
          BY <3>1, <3>2, <5>1 DEF CursorInv, Stored
      <4> QED
        BY <4>1, <4>2
    <3>5. SoundCursor'
      BY <3>2, <3>4 DEF SoundCursor
    <3>6. RangesBegin'
      BY <3>2 DEF CursorInv, RangesBegin
    <3>7. ASSUME NEW q \in Pumps PROVE Stored(q)'
      BY <2>1, <3>2 DEF CursorInv, Stored, Alone, Span, JobOf
    <3> QED
      BY <3>5, <3>6, <3>7 DEF CursorInv
  <2> QED
    BY <1>7, <2>5, <2>6, <2>7 DEF HandlerStep
<1> QED
  BY <1>1, <1>2, <1>3, <1>4, <1>5, <1>6, <1>7 DEF HandlerNext

-----------------------------------------------------------------------------
HandlerInv ==
  HandlerTypeOK /\ SupersededOnce /\ (\A p \in Pumps : Unwritten(p)) /\ CursorInv

LEMMA HandlerInvInit == HandlerInit => HandlerInv
<1> SUFFICES ASSUME HandlerInit PROVE HandlerInv
  OBVIOUS
<1>1. QueueTypeOK
  BY InitInv DEF HandlerInit, QueueInv
<1>2. \A p \in Pumps : run[p].pc = "idle"
  BY DEF HandlerInit, QueueInit, Idle
<1>3. HandlerTypeOK
  BY <1>1, <1>2 DEF HandlerInit, HandlerTypeOK
<1>4. SupersededOnce
  BY DEF HandlerInit, SupersededOnce
<1>5. CursorInv
  BY DEF HandlerInit, CursorInv, SoundCursor, RangesBegin, Stored
<1> QED
  BY <1>3, <1>4, <1>5 DEF HandlerInit, HandlerInv, Unwritten

LEMMA HandlerInvariant == HandlerSpec => []HandlerInv
<1>1. HandlerInv /\ QueueInv /\ [HandlerNext]_handlerVars => HandlerInv'
  <2> SUFFICES ASSUME HandlerInv, QueueInv, [HandlerNext]_handlerVars PROVE HandlerInv'
    OBVIOUS
  <2>1. HandlerTypeOK'
    BY HandlerTypeStep DEF HandlerInv
  <2>2. (\A p \in Pumps : Unwritten(p)') /\ SupersededOnce'
    BY <2>1, SuccessorsStep DEF HandlerInv
  <2>3. CursorInv'
    BY <2>1, CursorStep DEF HandlerInv
  <2> QED
    BY <2>1, <2>2, <2>3 DEF HandlerInv
<1>2. HandlerSpec => []QueueInv
  BY HandlersUseQueue, QueueInvariant, PTL
<1> QED
  BY <1>1, <1>2, HandlerInvInit, PTL DEF HandlerSpec

(* However a consolidation crashes, is taken over while it waits for the   *)
(* model or is retried by hand, it replaces its memory once.               *)
THEOREM MemoryReplacedOnce == HandlerSpec => []SupersededOnce
<1>1. HandlerInv => SupersededOnce
  BY DEF HandlerInv
<1> QED
  BY <1>1, HandlerInvariant, PTL

(* Behind the story cursor every message is analyzed but those that were   *)
(* too old for an analysis without a cursor, for conversations of any      *)
(* length, any limits of a reading and any number of overlapping analyses. *)
THEOREM CursorCovers == HandlerSpec => []SoundCursor
<1>1. HandlerInv => SoundCursor
  BY DEF HandlerInv, CursorInv
<1> QED
  BY <1>1, HandlerInvariant, PTL


-----------------------------------------------------------------------------
(* The media directory: a run that is past its write has a whole file, and *)
(* a name that was taken stays taken.                                      *)
TaskFits(x) ==
  /\ ~Doing(x, "idle") => HashOf(x) \in Hashes
  /\ Doing(x, "answer") => file[HashOf(x)] # "absent"
  /\ x \in Writers /\ Doing(x, "rename") => temp[x] = "whole"

MediaInv == MediaTypeOK /\ StoredWhole /\ \A x \in Writers \cup Uploads : TaskFits(x)

LEMMA MediaInitInv == MediaInit => MediaInv
  BY DEF MediaInit, MediaInv, MediaTypeOK, StoredWhole, TaskFits, Doing, HashOf,
         NoTask, States

(* A step of x that leaves the other temporary files, and every taken name. *)
LEMMA TasksKept ==
  ASSUME MediaInv, NEW x \in Writers \cup Uploads, TaskFits(x)',
         \A y \in Writers \cup Uploads : y # x => task'[y] = task[y],
         \A w \in Writers : w # x => temp'[w] = temp[w],
         \A h \in Hashes : file[h] # "absent" => file'[h] # "absent"
  PROVE  \A y \in Writers \cup Uploads : TaskFits(y)'
<1> SUFFICES ASSUME NEW y \in Writers \cup Uploads, y # x PROVE TaskFits(y)'
  OBVIOUS
<1> QED
  BY DEF MediaInv, TaskFits, Doing, HashOf

LEMMA MediaStep == MediaInv /\ [MediaNext]_mediaVars => MediaInv'
<1> SUFFICES ASSUME MediaInv, [MediaNext]_mediaVars PROVE MediaInv'
  OBVIOUS
<1> USE MediaAssumption DEF MediaInv, MediaTypeOK, States, Doing, HashOf, Do, Stop, NoTask
<1>0. CASE UNCHANGED mediaVars
  BY <1>0 DEF mediaVars, StoredWhole, TaskFits
<1>1. ASSUME NEW x \in Writers \cup Uploads, NEW h \in Hashes, lookUp(x, h)
      PROVE  MediaInv'
  <2>1. MediaTypeOK' /\ StoredWhole'
    BY <1>1 DEF lookUp, StoredWhole
  <2>2. TaskFits(x)'
    BY <1>1 DEF lookUp, TaskFits
  <2> QED
    BY <1>1, <2>1, <2>2, TasksKept DEF lookUp
<1>2. ASSUME NEW x \in Writers \cup Uploads, answer(x) PROVE MediaInv'
  <2>1. task[x].hash \in Hashes /\ file[task[x].hash] # "absent"
    BY <1>2 DEF answer, TaskFits
  <2>2. MediaTypeOK' /\ StoredWhole'
    BY <1>2, <2>1 DEF answer, StoredWhole
  <2>3. TaskFits(x)'
    BY <1>2 DEF answer, TaskFits
  <2> QED
    BY <1>2, <2>2, <2>3, TasksKept DEF answer
<1>3. ASSUME NEW w \in Writers, openTemp(w) PROVE MediaInv'
  <2>1. MediaTypeOK' /\ StoredWhole'
    BY <1>3 DEF openTemp, StoredWhole
  <2>2. TaskFits(w)'
    BY <1>3 DEF openTemp, TaskFits
  <2> QED
    BY <1>3, <2>1, <2>2, TasksKept DEF openTemp
<1>4. ASSUME NEW w \in Writers, writeTemp(w) PROVE MediaInv'
  <2>1. MediaTypeOK' /\ StoredWhole'
    BY <1>4 DEF writeTemp, StoredWhole
  <2>2. TaskFits(w)'
    BY <1>4 DEF writeTemp, TaskFits
  <2> QED
    BY <1>4, <2>1, <2>2, TasksKept DEF writeTemp
<1>5. ASSUME NEW w \in Writers, renameTemp(w) PROVE MediaInv'
  <2>1. task[w].hash \in Hashes /\ temp[w] = "whole"
    BY <1>5 DEF renameTemp, TaskFits
  <2>2. MediaTypeOK' /\ StoredWhole'
    BY <1>5, <2>1 DEF renameTemp, StoredWhole
  <2>3. TaskFits(w)'
    BY <1>5, <2>1 DEF renameTemp, TaskFits
  <2> QED
    BY <1>5, <2>1, <2>2, <2>3, TasksKept DEF renameTemp
<1>6. ASSUME NEW w \in Writers, storeFails(w) PROVE MediaInv'
  <2>1. task[w].hash \in Hashes
    BY <1>6 DEF storeFails, TaskFits
  <2>2. MediaTypeOK' /\ StoredWhole'
    BY <1>6 DEF storeFails, StoredWhole
  <2>3. TaskFits(w)'
    BY <1>6, <2>1 DEF storeFails, TaskFits
  <2> QED
    BY <1>6, <2>2, <2>3, TasksKept DEF storeFails
<1>7. ASSUME NEW w \in Writers, workerDies(w) PROVE MediaInv'
  <2>1. MediaTypeOK' /\ StoredWhole'
    BY <1>7 DEF workerDies, StoredWhole
  <2>2. TaskFits(w)'
    BY <1>7 DEF workerDies, TaskFits
  <2> QED
    BY <1>7, <2>1, <2>2, TasksKept DEF workerDies
<1>8. ASSUME NEW u \in Uploads, openFinal(u) PROVE MediaInv'
  <2>1. task[u].hash \in Hashes
    BY <1>8 DEF openFinal, TaskFits
  <2>2. MediaTypeOK' /\ StoredWhole'
    BY <1>8, <2>1 DEF openFinal, StoredWhole
  <2>3. TaskFits(u)'
    BY <1>8, <2>1 DEF openFinal, TaskFits
  <2>4. \A h \in Hashes : file[h] # "absent" => file'[h] # "absent"
    BY <1>8 DEF openFinal
  <2> QED
    BY <1>8, <2>2, <2>3, <2>4, TasksKept DEF openFinal
<1>9. ASSUME NEW u \in Uploads, writeFinal(u) PROVE MediaInv'
  <2>1. task[u].hash \in Hashes
    BY <1>9 DEF writeFinal, TaskFits
  <2>2. MediaTypeOK' /\ StoredWhole'
    BY <1>9, <2>1 DEF writeFinal, StoredWhole
  <2>3. TaskFits(u)'
    BY <1>9, <2>1 DEF writeFinal, TaskFits
  <2> QED
    BY <1>9, <2>2, <2>3, TasksKept DEF writeFinal
<1>10. ASSUME NEW u \in Uploads, uploadFails(u) PROVE MediaInv'
  <2>1. MediaTypeOK' /\ StoredWhole'
    BY <1>10 DEF uploadFails, StoredWhole
  <2>2. TaskFits(u)'
    BY <1>10 DEF uploadFails, TaskFits
  <2> QED
    BY <1>10, <2>1, <2>2, TasksKept DEF uploadFails
<1> QED
  BY <1>0, <1>1, <1>2, <1>3, <1>4, <1>5, <1>6, <1>7, <1>8, <1>9, <1>10 DEF MediaNext

LEMMA MediaInvariant == MediaSpec => []MediaInv
  BY MediaInitInv, MediaStep, PTL DEF MediaSpec

(* What has been reported as stored stands under its name, and whole       *)
(* unless an upload of the same content was torn, for any number of        *)
(* workers, uploads and crashes.                                           *)
THEOREM ImagesStored == MediaSpec => []StoredWhole
<1>1. MediaInv => StoredWhole
  BY DEF MediaInv
<1> QED
  BY <1>1, MediaInvariant, PTL

-----------------------------------------------------------------------------
(* Proactive messages: finitely many, none from the future, each with a    *)
(* number the conversation has reached, in the order they were sent.       *)
Numbered(m) == m[2] <= clock /\ m[3] \in 1..posted[m[1][1]]

Delivered ==
  /\ IsFiniteSet(sent)
  /\ \A m \in sent : Numbered(m)
  /\ \A m, n \in sent : m[1][1] = n[1][1] /\ m[3] < n[3] => m[2] <= n[2]

(* The messages of a conversation in the span of a day that begins at t,   *)
(* among the Listed + 1 that begin with the number i.                      *)
Window(talk, t, i) ==
  {m \in sent : m[1][1] = talk /\ m[2] \in t..(t + Day) /\ m[3] \in i..(i + Listed)}

WindowsKept ==
  \A talk \in Talks, t \in Times : \A i \in Nat : Cardinality(Window(talk, t, i)) <= DailyLimit

ProactiveInv == ProactiveTypeOK /\ Delivered /\ WindowsKept

LEMMA ProactiveInitInv == ProactiveInit => ProactiveInv
<1> SUFFICES ASSUME ProactiveInit PROVE ProactiveInv
  OBVIOUS
<1> USE ProactiveAssumption DEF ProactiveInit
<1>1. ProactiveTypeOK
  <2>1. enabled \in BOOLEAN
    OBVIOUS
  <2> QED
    BY <2>1 DEF ProactiveTypeOK, Times
<1>2. Delivered
  BY FS_EmptySet DEF Delivered
<1>3. \A talk \in Talks, t \in Times : \A i \in Nat : Window(talk, t, i) = {}
  BY DEF Window
<1>4. WindowsKept
  BY <1>3, FS_EmptySet DEF WindowsKept
<1> QED
  BY <1>1, <1>2, <1>4 DEF ProactiveInv

LEMMA OneMore ==
  ASSUME NEW S, NEW x, IsFiniteSet(S), NEW n \in Nat, Cardinality(S) < n
  PROVE  Cardinality(S \cup {x}) <= n
<1>1. Cardinality(S) \in Nat
  BY FS_CardinalityType
<1>2. Cardinality(S \cup {x}) = IF x \in S THEN Cardinality(S) ELSE Cardinality(S) + 1
  BY FS_AddElement
<1>3. CASE x \in S
  BY <1>1, <1>2, <1>3
<1>4. CASE x \notin S
  BY <1>1, <1>2, <1>4
<1> QED
  BY <1>3, <1>4

(* A delivery counts all that its own window can hold.                     *)
LEMMA DeliveryStep ==
  ASSUME ProactiveInv, NEW slot \in Slots, mayDeliver(slot),
         posted' = [posted EXCEPT ![slot[1]] = @ + 1],
         sent' = sent \cup {<<slot, clock, posted[slot[1]] + 1>>}, clock' = clock
  PROVE  Delivered' /\ WindowsKept'
<1> USE ProactiveAssumption
<1> DEFINE last == posted[slot[1]]
           new == <<slot, clock, last + 1>>
<1>0. /\ clock \in Nat /\ slot[1] \in Talks /\ sent \subseteq Slots \X Times \X Nat
      /\ last \in Nat /\ posted \in [Talks -> Nat]
  BY DEF ProactiveInv, ProactiveTypeOK, Times, Slots
<1>a. /\ \A m \in sent : m[1][1] \in Talks /\ m[2] \in Nat /\ m[3] \in Nat /\ Numbered(m)
      /\ IsFiniteSet(sent)
  BY <1>0 DEF ProactiveInv, Delivered, Slots, Times
<1>b. new[1] = slot /\ new[2] = clock /\ new[3] = last + 1
  OBVIOUS
<1>c. sent' = sent \cup {new}
  OBVIOUS
<1>d. \A talk \in Talks : /\ talk # slot[1] => posted'[talk] = posted[talk]
                          /\ posted'[slot[1]] = last + 1
  BY <1>0
<1> HIDE DEF new, last
<1>1. Delivered'
  <2>1. IsFiniteSet(sent')
    BY <1>a, <1>c, FS_AddElement
  <2>2. ASSUME NEW m \in sent
        PROVE  m[2] <= clock' /\ m[3] \in 1..posted'[m[1][1]]
    BY <1>0, <1>a, <1>d, <2>2 DEF Numbered, last
  <2>3. new[2] <= clock' /\ new[3] \in 1..posted'[new[1][1]]
    BY <1>0, <1>b, <1>d
  <2>4. ASSUME NEW m \in sent', NEW n \in sent', m[1][1] = n[1][1], m[3] < n[3]
        PROVE  m[2] <= n[2]
    <3>1. CASE m \in sent /\ n \in sent
      BY <2>4, <3>1 DEF ProactiveInv, Delivered
    <3>2. CASE m \in sent /\ n = new
      BY <1>0, <1>a, <1>b, <3>2 DEF Numbered
    <3>3. CASE m = new /\ n \in sent
      <4>1. n[3] \in 1..last
        BY <1>a, <1>b, <2>4, <3>3 DEF Numbered, last
      <4> QED
        BY <1>0, <1>b, <2>4, <3>3, <4>1
    <3> QED
      BY <1>0, <1>b, <1>c, <2>4, <3>1, <3>2, <3>3
  <2> QED
    BY <1>c, <2>1, <2>2, <2>3, <2>4 DEF Delivered, Numbered
<1>2. ASSUME NEW talk \in Talks, NEW t \in Times, NEW i \in Nat
      PROVE  Cardinality(Window(talk, t, i)') <= DailyLimit
  <2>0. t \in Nat
    BY DEF Times
  <2>1. CASE talk = slot[1] /\ clock \in t..(t + Day) /\ last + 1 \in i..(i + Listed)
    <3>1. Window(talk, t, i)' = Window(talk, t, i) \cup {new}
      BY <1>b, <1>c, <2>1 DEF Window
    <3>2. Window(talk, t, i) \subseteq recent(slot[1])
      <4> SUFFICES ASSUME NEW m \in sent, m[1][1] = talk, m[2] \in t..(t + Day),
                          m[3] \in i..(i + Listed)
                   PROVE  m[2] + Day >= clock /\ m[3] + Listed > last
        BY <2>1 DEF Window, recent, last
      <4>1. m[2] \in Nat /\ m[3] \in Nat
        BY <1>a
      <4>2. m[2] + Day >= clock
        BY <1>0, <2>0, <2>1, <4>1
      <4>3. m[3] + Listed > last
        BY <1>0, <2>1, <4>1
      <4> QED
        BY <4>2, <4>3
    <3>3. IsFiniteSet(recent(slot[1])) /\ recent(slot[1]) \subseteq sent
      BY <1>a, FS_Subset DEF recent
    <3>4. /\ IsFiniteSet(Window(talk, t, i))
          /\ Cardinality(Window(talk, t, i)) <= Cardinality(recent(slot[1]))
      BY <3>2, <3>3, FS_Subset
    <3>5. Cardinality(Window(talk, t, i)) \in Nat /\ Cardinality(recent(slot[1])) \in Nat
      BY <3>3, <3>4, FS_CardinalityType
    <3>6. Cardinality(recent(slot[1])) < DailyLimit
      BY DEF mayDeliver
    <3>7. Cardinality(Window(talk, t, i)) < DailyLimit /\ DailyLimit \in Nat
      BY <3>4, <3>5, <3>6
    <3>8. Cardinality(Window(talk, t, i) \cup {new}) <= DailyLimit
      <4>1. PICK W : W = Window(talk, t, i)
        OBVIOUS
      <4>2. Cardinality(W \cup {new}) <= DailyLimit
        BY <3>4, <3>7, <4>1, OneMore
      <4> QED
        BY <4>1, <4>2
    <3> QED
      BY <3>1, <3>8
  <2>2. CASE ~(talk = slot[1] /\ clock \in t..(t + Day) /\ last + 1 \in i..(i + Listed))
    <3>1. Window(talk, t, i)' = Window(talk, t, i)
      BY <1>b, <1>c, <2>2 DEF Window
    <3> QED
      BY <3>1 DEF ProactiveInv, WindowsKept
  <2> QED
    BY <2>1, <2>2
<1> QED
  BY <1>1, <1>2 DEF WindowsKept, Window

LEMMA ProactiveStep == ProactiveInv /\ [ProactiveNext]_proactiveVars => ProactiveInv'
<1> SUFFICES ASSUME ProactiveInv, [ProactiveNext]_proactiveVars PROVE ProactiveInv'
  OBVIOUS
<1> USE ProactiveAssumption DEF ProactiveInv, ProactiveTypeOK, Times
<1>a. ASSUME sent' = sent, posted' = posted, clock' \in Times, clock <= clock'
      PROVE  Delivered' /\ WindowsKept'
  <2>1. \A m \in sent : m[2] \in Nat
    BY DEF Slots
  <2>2. \A m \in sent : Numbered(m)'
    BY <1>a, <2>1 DEF Delivered, Numbered
  <2> QED
    BY <1>a, <2>2 DEF Delivered, WindowsKept, Window
<1>1. CASE UNCHANGED proactiveVars
  BY <1>a, <1>1 DEF proactiveVars
<1>2. CASE tick
  BY <1>a, <1>2 DEF tick
<1>3. ASSUME NEW value \in BOOLEAN, updateProactivePolicy(value) PROVE ProactiveInv'
  BY <1>a, <1>3 DEF updateProactivePolicy
<1>4. ASSUME NEW slot \in Slots, scheduleProactiveMessage(slot) PROVE ProactiveInv'
  BY <1>a, <1>4 DEF scheduleProactiveMessage
<1>5. ASSUME NEW slot \in Slots, NEW c \in BOOLEAN, handleProactiveMessage(slot, c)
      PROVE  ProactiveInv'
  <2>1. ProactiveTypeOK'
    <3>1. slot[1] \in Talks
      BY DEF Slots
    <3>2. posted[slot[1]] \in Nat
      BY <3>1
    <3>3. CASE mayDeliver(slot)
      <4>1. <<slot, clock, posted[slot[1]] + 1>> \in Slots \X Times \X Nat
        BY <3>2
      <4>2. posted' \in [Talks -> Nat]
        BY <1>5, <3>2, <3>3 DEF handleProactiveMessage
      <4> QED
        BY <1>5, <3>3, <4>1, <4>2 DEF handleProactiveMessage
    <3>4. CASE ~mayDeliver(slot)
      BY <1>5, <3>4 DEF handleProactiveMessage
    <3> QED
      BY <3>3, <3>4
  <2>2. CASE mayDeliver(slot)
    BY <1>5, <2>1, <2>2, DeliveryStep DEF handleProactiveMessage
  <2>3. CASE ~mayDeliver(slot)
    BY <1>5, <1>a, <2>1, <2>3 DEF handleProactiveMessage
  <2> QED
    BY <2>2, <2>3
<1>6. ASSUME NEW talk \in Talks, postMessage(talk) PROVE ProactiveInv'
  <2>1. posted' \in [Talks -> Nat] /\ sent' = sent /\ clock' = clock
    BY <1>6 DEF postMessage
  <2>2. ProactiveTypeOK'
    BY <1>6, <2>1 DEF postMessage
  <2>3. \A m \in sent : Numbered(m)'
    <3> SUFFICES ASSUME NEW m \in sent PROVE Numbered(m)'
      OBVIOUS
    <3>1. m[1][1] \in Talks /\ m[3] \in Nat
      BY DEF Slots
    <3>2. posted'[m[1][1]] \in {posted[m[1][1]], posted[m[1][1]] + 1}
      BY <1>6, <3>1 DEF postMessage
    <3> QED
      BY <2>1, <3>1, <3>2 DEF Delivered, Numbered
  <2> QED
    BY <2>1, <2>2, <2>3 DEF Delivered, WindowsKept, Window
<1> QED
  BY <1>1, <1>2, <1>3, <1>4, <1>5, <1>6 DEF ProactiveNext

LEMMA ProactiveInvariant == ProactiveSpec => []ProactiveInv
  BY ProactiveInitInv, ProactiveStep, PTL DEF ProactiveSpec

(* In no span of a day are there more proactive messages of a conversation *)
(* than the policy allows among the messages the pump lists and the one it *)
(* adds, whenever and however often their jobs run.                        *)
THEOREM LimitKept == ProactiveSpec => []DailyLimitKept
<1>1. ProactiveInv => DailyLimitKept
  <2> SUFFICES ASSUME ProactiveInv, NEW talk \in Talks, NEW t \in Times,
                      NEW i \in 1..posted[talk]
               PROVE  Cardinality(Window(talk, t, i)) <= DailyLimit
    BY DEF DailyLimitKept, Window
  <2>1. i \in Nat
    BY DEF ProactiveInv, ProactiveTypeOK
  <2> QED
    BY <2>1 DEF ProactiveInv, WindowsKept
<1> QED
  BY <1>1, ProactiveInvariant, PTL

(* A set of naturals that is not empty has a least element.                *)
LEMMA LeastTime ==
  ASSUME NEW T \in SUBSET Nat, T # {}
  PROVE  \E t \in T : \A u \in T : t <= u
<1>1. PICK t \in T : \A u \in T : ~(<<u, t>> \in OpToRel(<, Nat))
  BY WFMin, NatLessThanWellFounded, Zenon
<1>2. \A u \in T : ~(u < t)
  BY <1>1 DEF OpToRel
<1> QED
  BY <1>2

(* The message n went out while m was among the messages the pump counts.  *)
Counted(m, n) ==
  /\ m[1][1] = n[1][1]
  /\ m[3] < n[3] /\ n[3] <= m[3] + Listed
  /\ n[2] <= m[2] + Day

(* A message sent too soon after one that was counted went out behind a    *)
(* third: counted too, older, and past its own cooldown.  The handler      *)
(* compares with the oldest only.                                          *)
BehindOldest ==
  \A m, n \in sent :
    Counted(m, n) /\ n[2] < m[2] + Cooldown
      => \E o \in sent : Counted(o, n) /\ o[2] < m[2] /\ o[2] + Cooldown <= n[2]

(* A message is a cooldown after all that were counted for it, which the   *)
(* policy asks.                                                            *)
CooldownKept ==
  \A m, n \in sent : Counted(m, n) => n[2] >= m[2] + Cooldown

LEMMA CooldownStep ==
  ASSUME ProactiveInv, BehindOldest, [ProactiveNext]_proactiveVars
  PROVE  BehindOldest'
<1> USE ProactiveAssumption
<1>0. /\ clock \in Nat /\ posted \in [Talks -> Nat]
      /\ \A m \in sent : /\ m[1][1] \in Talks /\ m[2] \in Nat /\ m[3] \in Nat
                         /\ m[2] <= clock /\ m[3] \in 1..posted[m[1][1]]
  BY DEF ProactiveInv, ProactiveTypeOK, Delivered, Numbered, Times, Slots
<1>1. CASE sent' = sent
  BY <1>1 DEF BehindOldest, Counted
<1>2. ASSUME NEW slot \in Slots, mayDeliver(slot),
             sent' = sent \cup {<<slot, clock, posted[slot[1]] + 1>>}
      PROVE  BehindOldest'
  <2>1. PICK new : new = <<slot, clock, posted[slot[1]] + 1>>
    OBVIOUS
  <2>2. PICK last \in Nat : last = posted[slot[1]]
    BY <1>0 DEF Slots
  <2>3. /\ sent' = sent \cup {new} /\ new[1] = slot /\ new[2] = clock /\ new[3] = last + 1
        /\ \A m \in sent : m[1][1] = slot[1] => m[3] <= last
    BY <1>0, <1>2, <2>1, <2>2
  <2> DEFINE old  == recent(slot[1])
             ages == {m[2] : m \in old}
  <2>4. \A m \in sent : m \in old <=> Counted(m, new)
    <3> SUFFICES ASSUME NEW m \in sent PROVE m \in old <=> Counted(m, new)
      OBVIOUS
    <3>1. m[2] \in Nat /\ m[3] \in Nat
      BY <1>0
    <3> QED
      BY <1>0, <2>2, <2>3, <3>1 DEF recent, Counted
  <2>5. old \subseteq sent
    BY DEF recent
  <2>6. ASSUME NEW k \in sent, Counted(k, new), clock < k[2] + Cooldown
        PROVE  \E o \in sent : Counted(o, new) /\ o[2] < k[2] /\ o[2] + Cooldown <= clock
    <3>1. k \in old
      BY <2>4, <2>6
    <3>2. ages \subseteq Nat /\ ages # {}
      BY <1>0, <2>5, <3>1
    <3>3. PICK t \in ages : \A u \in ages : t <= u
      BY <3>2, LeastTime
    <3>4. PICK o \in old : o[2] = t
      BY <3>3
    <3>5. \A m \in old : o[2] <= m[2]
      BY <3>3, <3>4
    <3>6. ~(clock < o[2] + Cooldown)
      BY <1>2, <3>4, <3>5 DEF mayDeliver, coolingDown
    <3>7. o \in sent /\ Counted(o, new) /\ o[2] \in Nat /\ o[2] <= k[2]
      BY <1>0, <2>4, <2>5, <3>1, <3>4, <3>5
    <3>8. o[2] + Cooldown <= clock /\ o[2] < k[2]
      BY <1>0, <2>6, <3>6, <3>7
    <3> QED
      BY <3>7, <3>8
  <2> SUFFICES ASSUME NEW m \in sent \cup {new}, NEW n \in sent \cup {new},
                      Counted(m, n), n[2] < m[2] + Cooldown
               PROVE  \E o \in sent \cup {new} :
                        Counted(o, n) /\ o[2] < m[2] /\ o[2] + Cooldown <= n[2]
    BY <2>3 DEF BehindOldest, Counted
  <2>7. CASE m \in sent /\ n \in sent
    BY <2>7 DEF BehindOldest
  <2>8. CASE m \in sent /\ n = new
    BY <2>3, <2>6, <2>8
  <2>9. CASE m = new /\ n \in sent
    <3>1. n[3] <= last /\ last + 1 < n[3] /\ n[3] \in Nat
      BY <1>0, <2>3, <2>9 DEF Counted
    <3> QED
      BY <2>2, <3>1
  <2>10. CASE m = new /\ n = new
    BY <2>2, <2>3, <2>10 DEF Counted
  <2> QED
    BY <2>7, <2>8, <2>9, <2>10
<1> QED
  BY <1>1, <1>2 DEF ProactiveNext, proactiveVars, tick, updateProactivePolicy, postMessage,
                    scheduleProactiveMessage, handleProactiveMessage

LEMMA ThreeElements ==
  ASSUME NEW a, NEW b, NEW c, a # b, a # c, b # c
  PROVE  Cardinality({a, b, c}) = 3
<1>1. IsFiniteSet({c}) /\ Cardinality({c}) = 1
  BY FS_Singleton
<1>2. PICK S : S = {c} \cup {b}
  OBVIOUS
<1>3. IsFiniteSet(S) /\ Cardinality(S) = Cardinality({c}) + 1
  BY <1>1, <1>2, FS_AddElement, Zenon
<1>4. a \notin S /\ {a, b, c} = S \cup {a}
  BY <1>2
<1>5. Cardinality({a, b, c}) = Cardinality(S) + 1
  BY <1>3, <1>4, FS_AddElement, Zenon
<1> QED
  BY <1>1, <1>3, <1>5

(* With a limit of two there is no third message to stand behind.          *)
LEMMA TwoADay ==
  ASSUME ProactiveInv, BehindOldest, DailyLimit <= 2
  PROVE  CooldownKept
<1> USE ProactiveAssumption
<1>0. \A m \in sent : m[1][1] \in Talks /\ m[2] \in Times /\ m[2] \in Nat /\ m[3] \in Nat
  BY DEF ProactiveInv, ProactiveTypeOK, Times, Slots
<1> SUFFICES ASSUME NEW m \in sent, NEW n \in sent, Counted(m, n), n[2] < m[2] + Cooldown
             PROVE  FALSE
  BY <1>0 DEF CooldownKept
<1>1. PICK o \in sent : Counted(o, n) /\ o[2] < m[2]
  BY DEF BehindOldest
<1>2. o[1][1] = m[1][1] /\ o[1][1] = n[1][1]
  BY <1>1 DEF Counted
<1>3. m[2] <= n[2]
  BY DEF ProactiveInv, Delivered, Counted
<1>4. o[3] <= m[3]
  <2>1. m[3] < o[3] => m[2] <= o[2]
    BY <1>2 DEF ProactiveInv, Delivered
  <2> QED
    BY <1>0, <1>1, <2>1
<1>5. o # m /\ o # n /\ m # n
  <2>1. o[2] # m[2] /\ o[3] # n[3] /\ m[3] # n[3]
    BY <1>0, <1>1 DEF Counted
  <2> QED
    BY <2>1
<1>6. PICK W : W = Window(o[1][1], o[2], o[3])
  OBVIOUS
<1>7. {o, m, n} \subseteq W
  <2>1. \A k \in {o, m, n} : k \in sent /\ k[1][1] = o[1][1]
    BY <1>2
  <2>2. \A k \in {o, m, n} : o[2] <= k[2] /\ k[2] <= o[2] + Day
    BY <1>0, <1>1, <1>3 DEF Counted
  <2>3. \A k \in {o, m, n} : o[3] <= k[3] /\ k[3] <= o[3] + Listed
    BY <1>0, <1>1, <1>4 DEF Counted
  <2>4. \A k \in {o, m, n} : k[2] \in o[2]..(o[2] + Day) /\ k[3] \in o[3]..(o[3] + Listed)
    BY <1>0, <2>1, <2>2, <2>3
  <2> QED
    BY <1>6, <2>1, <2>4 DEF Window
<1>8. IsFiniteSet(W) /\ Cardinality(W) \in Nat /\ Cardinality(W) <= 2
  <2>1. IsFiniteSet(W)
    <3>1. W \subseteq sent
      BY <1>6 DEF Window
    <3> QED
      BY <3>1, FS_Subset DEF ProactiveInv, Delivered
  <2>2. Cardinality(W) \in Nat
    BY <2>1, FS_CardinalityType
  <2>3. Cardinality(W) <= DailyLimit
    BY <1>0, <1>6 DEF ProactiveInv, WindowsKept
  <2> QED
    BY <2>1, <2>2, <2>3
<1>9. Cardinality({o, m, n}) = 3 /\ Cardinality({o, m, n}) <= Cardinality(W)
  BY <1>5, <1>7, <1>8, ThreeElements, FS_Subset
<1> QED
  BY <1>8, <1>9

(* How far the pump's cooldown reaches: a message comes too soon after one *)
(* that was counted for it only behind a third, older one that was counted *)
(* too, so with at most two a day the cooldown is kept towards all that    *)
(* the pump lists; the default policy allows three.                        *)
THEOREM CooldownReach ==
  ProactiveSpec => [](BehindOldest /\ (DailyLimit <= 2 => CooldownKept))
<1>1. ProactiveInit => BehindOldest
  BY DEF ProactiveInit, BehindOldest
<1>2. ProactiveSpec => []BehindOldest
  BY <1>1, CooldownStep, ProactiveInvariant, PTL DEF ProactiveSpec
<1>3. ProactiveInv /\ BehindOldest => (DailyLimit <= 2 => CooldownKept)
  BY TwoADay
<1> QED
  BY <1>2, <1>3, ProactiveInvariant, PTL


-----------------------------------------------------------------------------
(* The scene editor.                                                       *)

(* What a tab shows without having kept a draft is an edition of its scene. *)
Shows(t) ==
  (t.scene # NoDocument /\ ~t.kept)
    => /\ t.revision \in 1..latest(t.scene)
       /\ editions[t.scene][t.revision].text = t.base
       /\ ~t.dirty => t.text = t.base

FetchFits(f) == f.read <= latest(f.scene)

(* A save on the way was written from the edition it names.                *)
PutFits(c) ==
  /\ c.made <= latest(c.request.scene)
  /\ c.made # 0 => c.request.world < worldAt
  /\ c.from # Kept => /\ c.request.revision \in 1..latest(c.request.scene)
                      /\ editions[c.request.scene][c.request.revision].text = c.from

RecordFits(s) ==
  s.made \in 1..latest(s.request.scene) /\ s.request.world < worldAt

TabsFit ==
  \A e \in Tabs : /\ Shows(tab[e])
                  /\ \A f \in fetches[e] : FetchFits(f)
                  /\ \A c \in puts[e] : PutFits(c)

ServerFits ==
  /\ \A d \in Documents : latest(d) \in 1..worldAt
  /\ \A s \in served : RecordFits(s)
  /\ NoLostUpdate

EditorInv == EditorTypeOK /\ ServerFits /\ TabsFit

LEMMA EditorInvInit == EditorInit => EditorInv
<1> SUFFICES ASSUME EditorInit PROVE EditorInv
  OBVIOUS
<1> USE EditorAssumption
<1>1. \A d \in Documents : editions[d] = <<[text |-> 0, from |-> 0]>>
  BY DEF EditorInit
<1>2. \A d \in Documents : latest(d) = 1
  BY <1>1 DEF latest
<1>3. [text |-> 0, from |-> 0] \in Edition
  BY DEF Edition, Texts, Rewritten
<1>4. editions \in [Documents -> Seq(Edition)]
  BY <1>1, <1>3 DEF EditorInit
<1>5. EditorTypeOK
  BY <1>4 DEF EditorInit, EditorTypeOK, Stores, Shown, Revisions, Texts, Rewritten
<1>6. ServerFits
  BY <1>2 DEF EditorInit, ServerFits, NoLostUpdate
<1>7. TabsFit
  BY DEF EditorInit, TabsFit, Shows
<1> QED
  BY <1>5, <1>6, <1>7 DEF EditorInv

(* Editions are only added, and the world's revision only grows.           *)
Grown ==
  /\ worldAt <= worldAt'
  /\ \A d \in Documents :
       /\ latest(d) <= latest(d)'
       /\ \A r \in 1..latest(d) : editions'[d][r] = editions[d][r]

(* What the tabs and the records rest on survives the growth.              *)
LEMMA GrownFits ==
  ASSUME EditorTypeOK, EditorTypeOK', Grown
  PROVE  /\ \A t \in Stores : Shows(t) => Shows(t)'
         /\ \A f \in Fetch : FetchFits(f) => FetchFits(f)'
         /\ \A c \in Save : PutFits(c) => PutFits(c)'
         /\ \A s \in Record : RecordFits(s) => RecordFits(s)'
<1>1. \A d \in Documents : latest(d) \in Nat /\ latest(d)' \in Nat
  BY DEF EditorTypeOK, latest
<1>2. worldAt \in Nat /\ worldAt' \in Nat
  BY EditorAssumption DEF EditorTypeOK
<1>3. ASSUME NEW t \in Stores, Shows(t) PROVE Shows(t)'
  <2>1. CASE t.scene = NoDocument \/ t.kept
    BY <2>1 DEF Shows
  <2>2. CASE t.scene # NoDocument /\ ~t.kept
    <3>1. t.scene \in Documents
      BY <2>2 DEF Stores, Shown
    <3> QED
      BY <1>1, <1>3, <2>2, <3>1 DEF Shows, Grown
  <2> QED
    BY <2>1, <2>2
<1>4. ASSUME NEW f \in Fetch, FetchFits(f) PROVE FetchFits(f)'
  <2>1. f.scene \in Documents /\ f.read \in Nat
    BY EditorAssumption DEF Fetch, Revisions
  <2> QED
    BY <1>1, <1>4, <2>1 DEF FetchFits, Grown
<1>5. ASSUME NEW c \in Save, PutFits(c) PROVE PutFits(c)'
  <2>1. c.request \in Request /\ c.made \in Nat
    BY EditorAssumption DEF Save, Revisions
  <2>2. c.request.scene \in Documents /\ c.request.world \in Nat
    BY <2>1, EditorAssumption DEF Request
  <2> QED
    BY <1>1, <1>2, <1>5, <2>1, <2>2 DEF PutFits, Grown
<1>6. ASSUME NEW s \in Record, RecordFits(s) PROVE RecordFits(s)'
  <2>1. s.request \in Request /\ s.made \in Nat
    BY EditorAssumption DEF Record, Revisions
  <2>2. s.request.scene \in Documents /\ s.request.world \in Nat
    BY <2>1, EditorAssumption DEF Request
  <2> QED
    BY <1>1, <1>2, <1>6, <2>1, <2>2 DEF RecordFits, Grown
<1> QED
  BY <1>3, <1>4, <1>5, <1>6

(* Publishing a text that was written from the newest edition, or kept.    *)
LEMMA PublishFits ==
  ASSUME EditorInv, NEW d \in Documents, NEW text \in Texts, NEW from \in Texts \cup {Kept},
         from \in {editions[d][latest(d)].text, Kept},
         publish(d, text, from)
  PROVE  /\ editions' \in [Documents -> Seq(Edition)] /\ worldAt' \in 1..MaxWorld
         /\ worldAt' = worldAt + 1 /\ latest(d)' = latest(d) + 1
         /\ Grown
         /\ \A x \in Documents : latest(x)' \in 1..worldAt'
         /\ NoLostUpdate'
<1> DEFINE new == [text |-> text, from |-> from]
<1> USE EditorAssumption DEF EditorInv
<1>1. new \in Edition
  BY DEF Edition
<1>2. editions[d] \in Seq(Edition) /\ \A x \in Documents : editions[x] \in Seq(Edition)
  BY DEF EditorTypeOK
<1>3. editions'[d] = Append(editions[d], new)
      /\ \A x \in Documents \ {d} : editions'[x] = editions[x]
  BY DEF publish, EditorTypeOK
<1>4. Append(editions[d], new) \in Seq(Edition)
  BY <1>1, <1>2
<1>5. editions' \in [Documents -> Seq(Edition)]
  BY <1>4 DEF publish, EditorTypeOK
<1>6. worldAt' = worldAt + 1 /\ worldAt \in 1..MaxWorld /\ worldAt' \in 1..MaxWorld
  BY DEF publish, EditorTypeOK
<1>7. latest(d) \in Nat /\ latest(d)' = latest(d) + 1
  BY <1>2, <1>3 DEF latest
<1>8. \A x \in Documents \ {d} : latest(x)' = latest(x)
  BY <1>3 DEF latest
<1>9. \A r \in 1..latest(d) : editions'[d][r] = editions[d][r]
  BY <1>2, <1>3 DEF latest
<1>10. editions'[d][latest(d) + 1] = new
  BY <1>2, <1>3 DEF latest
<1>11. \A x \in Documents : latest(x) \in 1..worldAt
  BY DEF ServerFits
<1>12. Grown
  <2>1. worldAt <= worldAt'
    BY <1>6
  <2>2. \A x \in Documents : latest(x) \in Nat /\ latest(x) <= latest(x)'
    BY <1>6, <1>7, <1>8, <1>11
  <2>3. \A x \in Documents : \A r \in 1..latest(x) : editions'[x][r] = editions[x][r]
    BY <1>3, <1>9
  <2> QED
    BY <2>1, <2>2, <2>3 DEF Grown
<1>13. \A x \in Documents : latest(x)' \in 1..worldAt'
  BY <1>6, <1>7, <1>8, <1>11
<1>14. ASSUME NEW x \in Documents, NEW r \in 2..latest(x)'
       PROVE  editions'[x][r].from \in {editions'[x][r - 1].text, Kept}
  <2>1. CASE x # d
    BY <1>3, <1>8, <2>1 DEF ServerFits, NoLostUpdate
  <2>2. CASE x = d /\ r = latest(d) + 1
    <3>1. editions'[d][r - 1] = editions[d][latest(d)]
      BY <1>7, <1>9, <1>11, <2>2
    <3>2. editions'[x][r].from = from
      BY <1>10, <2>2
    <3> QED
      BY <2>2, <3>1, <3>2
  <2>3. CASE x = d /\ r # latest(d) + 1
    <3>1. r \in 2..latest(d) /\ r \in 1..latest(d) /\ r - 1 \in 1..latest(d)
      BY <1>7, <2>3
    <3>2. editions'[d][r] = editions[d][r] /\ editions'[d][r - 1] = editions[d][r - 1]
      BY <1>9, <3>1
    <3>3. editions[d][r].from \in {editions[d][r - 1].text, Kept}
      BY <3>1 DEF ServerFits, NoLostUpdate
    <3> QED
      BY <2>3, <3>2, <3>3
  <2> QED
    BY <2>1, <2>2, <2>3
<1>15. NoLostUpdate'
  BY <1>14 DEF NoLostUpdate
<1> QED
  BY <1>5, <1>6, <1>7, <1>12, <1>13, <1>15

(* The server's steps leave the stores alone.                              *)
LEMMA TabsGrow ==
  ASSUME EditorInv, EditorTypeOK', Grown, UNCHANGED <<tab, fetches>>,
         NEW P \in [Tabs -> SUBSET Save], puts' = P,
         \A e \in Tabs : \A c \in P[e] : PutFits(c)'
  PROVE  TabsFit'
<1>1. /\ \A t \in Stores : Shows(t) => Shows(t)'
      /\ \A f \in Fetch : FetchFits(f) => FetchFits(f)'
  BY GrownFits DEF EditorInv
<1>2. ASSUME NEW e \in Tabs PROVE Shows(tab[e])' /\ \A f \in fetches'[e] : FetchFits(f)'
  <2>1. tab[e] \in Stores /\ fetches[e] \subseteq Fetch
    BY DEF EditorInv, EditorTypeOK
  <2>2. Shows(tab[e]) /\ \A f \in fetches[e] : FetchFits(f)
    BY DEF EditorInv, TabsFit
  <2>3. PICK t \in Stores : t = tab[e] /\ tab'[e] = t
    BY <2>1
  <2>4. Shows(t)'
    BY <1>1, <2>2, <2>3
  <2>5. Shows(tab[e])'
    BY <2>3, <2>4 DEF Shows
  <2>6. \A f \in fetches'[e] : FetchFits(f)'
    BY <1>1, <2>1, <2>2
  <2> QED
    BY <2>5, <2>6
<1> QED
  BY <1>2 DEF TabsFit

LEMMA PutStep ==
  ASSUME EditorInv, NEW e \in Tabs, NEW c \in puts[e], putSceneDocument(e, c)
  PROVE  EditorInv'
<1> DEFINE r == c.request
<1> USE EditorAssumption
<1>1. c \in Save /\ PutFits(c)
  BY DEF EditorInv, EditorTypeOK, TabsFit
<1>2. r \in Request /\ r.scene \in Documents /\ r.text \in Texts
      /\ r.revision \in Revisions /\ r.world \in Nat /\ c.from \in Texts \cup {Kept}
  BY <1>1 DEF Save, Request
<1>3. \A d \in Documents : latest(d) \in 1..worldAt
  BY DEF EditorInv, ServerFits
<1>4. worldAt \in 1..MaxWorld
  BY DEF EditorInv, EditorTypeOK
<1>5. UNCHANGED <<tab, fetches, texts, moves>>
  BY DEF putSceneDocument, counted
<1>6. ASSUME NEW n \in Revisions, NEW reply \in Save, answers(e, c, reply),
             EditorTypeOK', Grown, PutFits(reply)'
      PROVE  TabsFit'
  <2> DEFINE P == [puts EXCEPT ![e] = (@ \ {c}) \cup {reply}]
  <2>1. P \in [Tabs -> SUBSET Save] /\ puts' = P
    BY <1>6 DEF answers, EditorInv, EditorTypeOK
  <2>2. \A x \in Save : PutFits(x) => PutFits(x)'
    BY <1>6, GrownFits DEF EditorInv
  <2>3. \A x \in Tabs : \A q \in puts[x] : q \in Save /\ PutFits(q)
    BY DEF EditorInv, EditorTypeOK, TabsFit
  <2>4. \A x \in Tabs : \A q \in P[x] : PutFits(q)'
    BY <1>6, <2>1, <2>2, <2>3 DEF EditorInv, EditorTypeOK
  <2> QED
    BY <1>5, <1>6, <2>1, <2>4, TabsGrow
<1>7. ASSUME NEW reply \in Save, answers(e, c, reply), UNCHANGED server, PutFits(reply)
      PROVE  EditorInv'
  <2>1. EditorTypeOK'
    BY <1>5, <1>7 DEF EditorInv, EditorTypeOK, answers, server
  <2>2. Grown
    BY <1>3, <1>4, <1>7 DEF Grown, latest, server
  <2>3. PutFits(reply)'
    BY <1>7, <2>1, <2>2, GrownFits DEF EditorInv
  <2>4. TabsFit'
    BY <1>6, <1>7, <2>1, <2>2, <2>3 DEF Revisions
  <2>5. ServerFits'
    BY <1>7 DEF server, ServerFits, EditorInv, latest, RecordFits, NoLostUpdate
  <2> QED
    BY <2>1, <2>4, <2>5 DEF EditorInv
<1>8. CASE /\ earlier(r) = {} /\ ~isStale(r)
           /\ publish(r.scene, r.text, c.from)
           /\ served' = served \cup {[request |-> r, made |-> latest(r.scene) + 1]}
           /\ answers(e, c, [c EXCEPT !.made = latest(r.scene) + 1])
  <2> DEFINE made == latest(r.scene) + 1
  <2>1. r.revision = latest(r.scene) /\ r.world = worldAt
    BY <1>8 DEF isStale
  <2>2. c.from \in {editions[r.scene][latest(r.scene)].text, Kept}
    BY <1>1, <2>1 DEF PutFits
  <2>3. /\ editions' \in [Documents -> Seq(Edition)] /\ worldAt' \in 1..MaxWorld
        /\ worldAt' = worldAt + 1 /\ latest(r.scene)' = made
        /\ Grown
        /\ \A x \in Documents : latest(x)' \in 1..worldAt'
        /\ NoLostUpdate'
    BY <1>2, <1>8, <2>2, PublishFits
  <2>4. PICK m \in Revisions : m = made /\ m \in 1..worldAt'
    BY <1>2, <2>3 DEF Revisions
  <2> DEFINE reply == [c EXCEPT !.made = m]
             record == [request |-> r, made |-> m]
  <2>5. reply \in Save /\ record \in Record
    BY <1>1, <1>2, <2>4 DEF Save, Record
  <2>6. answers(e, c, reply)
    BY <1>8, <2>4
  <2>7. reply.made = m /\ reply.request = r /\ reply.from = c.from
    BY <1>1 DEF Save
  <2>8. EditorTypeOK'
    <3>1. served' \subseteq Record
      BY <1>8, <2>4, <2>5 DEF EditorInv, EditorTypeOK
    <3>2. puts' \in [Tabs -> SUBSET Save]
      BY <2>5, <2>6 DEF answers, EditorInv, EditorTypeOK
    <3> QED
      BY <1>5, <2>3, <3>1, <3>2 DEF EditorInv, EditorTypeOK
  <2>9. PutFits(c)'
    BY <1>1, <2>3, <2>8, GrownFits DEF EditorInv
  <2>10. PutFits(reply)'
    <3>1. m <= latest(r.scene)'
      BY <2>3, <2>4 DEF Revisions
    <3>2. r.world < worldAt'
      BY <1>2, <1>4, <2>1, <2>3
    <3> QED
      BY <2>4, <2>7, <2>9, <3>1, <3>2 DEF PutFits
  <2>11. TabsFit'
    BY <1>6, <2>3, <2>4, <2>5, <2>6, <2>8, <2>10
  <2>12. RecordFits(record)'
    <3>1. m \in 1..latest(r.scene)' /\ r.world < worldAt'
      BY <1>2, <1>4, <2>1, <2>3, <2>4 DEF Revisions
    <3> QED
      BY <3>1 DEF RecordFits
  <2>13. \A s \in served : RecordFits(s)'
    BY <2>3, <2>8, GrownFits DEF EditorInv, ServerFits, EditorTypeOK
  <2>14. ServerFits'
    <3>1. served' = served \cup {record}
      BY <1>8, <2>4
    <3> QED
      BY <2>3, <2>12, <2>13, <3>1 DEF ServerFits
  <2> QED
    BY <2>8, <2>11, <2>14 DEF EditorInv
<1>9. CASE /\ answers(e, c, [c EXCEPT !.refused = TRUE])
           /\ UNCHANGED server
  <2> DEFINE reply == [c EXCEPT !.refused = TRUE]
  <2>1. reply \in Save /\ reply.made = c.made /\ reply.request = r /\ reply.from = c.from
    BY <1>1 DEF Save
  <2>2. PutFits(reply)
    BY <1>1, <2>1 DEF PutFits
  <2> QED
    BY <1>7, <1>9, <2>1, <2>2
<1>10. ASSUME NEW s \in earlier(r), s.request = r, UNCHANGED server,
              answers(e, c, [c EXCEPT !.made = s.made])
       PROVE  EditorInv'
  <2> DEFINE reply == [c EXCEPT !.made = s.made]
  <2>1. s \in Record /\ RecordFits(s)
    BY <1>10 DEF earlier, EditorInv, ServerFits, EditorTypeOK
  <2>2. reply \in Save /\ reply.made = s.made /\ reply.request = r
        /\ reply.from = c.from /\ s.made \in Nat
    BY <1>1, <2>1 DEF Save, Record, Revisions
  <2>3. PutFits(reply)
    BY <1>1, <1>2, <1>3, <1>10, <2>1, <2>2 DEF PutFits, RecordFits
  <2> QED
    BY <1>7, <1>10, <2>2, <2>3
<1> QED
  BY <1>8, <1>9, <1>10 DEF putSceneDocument

(* Candidates and other writers of the canon.                              *)
LEMMA OthersStep ==
  ASSUME EditorInv, writeCanon \/ \E d \in Documents : approveRewrite(d)
  PROVE  EditorInv'
<1> USE EditorAssumption
<1>1. \A d \in Documents : latest(d) \in 1..worldAt
  BY DEF EditorInv, ServerFits
<1>2. worldAt \in 1..MaxWorld
  BY DEF EditorInv, EditorTypeOK
<1>3. UNCHANGED <<served, tab, fetches, puts, texts, moves>>
  BY DEF writeCanon, approveRewrite, counted
<1>4. /\ EditorTypeOK' /\ Grown /\ NoLostUpdate'
      /\ \A d \in Documents : latest(d)' \in 1..worldAt'
  <2>1. CASE writeCanon
    <3>1. UNCHANGED editions /\ worldAt' = worldAt + 1 /\ worldAt' \in 1..MaxWorld
      BY <1>2, <2>1 DEF writeCanon
    <3>2. EditorTypeOK'
      BY <1>3, <3>1 DEF EditorInv, EditorTypeOK
    <3>3. \A d \in Documents : latest(d)' = latest(d)
      BY <3>1 DEF latest
    <3>4. Grown
      BY <1>1, <1>2, <3>1, <3>3 DEF Grown
    <3>5. \A d \in Documents : latest(d)' \in 1..worldAt'
      BY <1>1, <1>2, <3>1, <3>3
    <3>6. NoLostUpdate'
      BY <3>1 DEF EditorInv, ServerFits, NoLostUpdate, latest
    <3> QED
      BY <3>2, <3>4, <3>5, <3>6
  <2>2. ASSUME NEW d \in Documents, approveRewrite(d)
        PROVE  /\ EditorTypeOK' /\ Grown /\ NoLostUpdate'
               /\ \A x \in Documents : latest(x)' \in 1..worldAt'
    <3>1. latest(d) \in 1..Len(editions[d]) /\ editions[d] \in Seq(Edition)
      BY <1>1, <1>2 DEF EditorInv, EditorTypeOK, latest
    <3>2. PICK from \in Texts : from = editions[d][latest(d)].text
      <4>1. editions[d][latest(d)] \in Edition
        BY <3>1
      <4> QED
        BY <4>1 DEF Edition
    <3>3. Rewritten \in Texts
      BY DEF Texts, Rewritten
    <3>4. publish(d, Rewritten, from)
      BY <2>2, <3>2 DEF approveRewrite
    <3>5. /\ editions' \in [Documents -> Seq(Edition)] /\ worldAt' \in 1..MaxWorld
          /\ Grown
          /\ \A x \in Documents : latest(x)' \in 1..worldAt'
          /\ NoLostUpdate'
      BY <3>2, <3>3, <3>4, PublishFits
    <3>6. EditorTypeOK'
      BY <1>3, <3>5 DEF EditorInv, EditorTypeOK
    <3> QED
      BY <3>5, <3>6
  <2> QED
    BY <2>1, <2>2
<1>5. TabsFit'
  <2>1. puts \in [Tabs -> SUBSET Save] /\ puts' = puts
    BY <1>3 DEF EditorInv, EditorTypeOK
  <2>2. \A c \in Save : PutFits(c) => PutFits(c)'
    BY <1>4, GrownFits DEF EditorInv
  <2>3. PICK P \in [Tabs -> SUBSET Save] : P = puts /\ puts' = P
    BY <2>1
  <2>4. \A e \in Tabs : \A c \in P[e] : PutFits(c)'
    BY <2>2, <2>3 DEF EditorInv, TabsFit
  <2> QED
    BY <1>3, <1>4, <2>3, <2>4, TabsGrow
<1>6. ServerFits'
  <2>1. \A s \in served : RecordFits(s)'
    BY <1>4, GrownFits DEF EditorInv, ServerFits, EditorTypeOK
  <2> QED
    BY <1>3, <1>4, <2>1 DEF ServerFits
<1> QED
  BY <1>4, <1>5, <1>6 DEF EditorInv

(* A step of a tab alone.                                                  *)
LEMMA TabAlone ==
  ASSUME EditorInv, UNCHANGED server, NEW e \in Tabs,
         NEW t \in Stores, Shows(t), tab' = [tab EXCEPT ![e] = t],
         NEW F \in SUBSET Fetch, \A f \in F : FetchFits(f), fetches' = [fetches EXCEPT ![e] = F],
         NEW P \in SUBSET Save, \A c \in P : PutFits(c), puts' = [puts EXCEPT ![e] = P],
         texts' \in Nat, moves' \in Nat, texts' + moves' <= MaxActs
  PROVE  EditorInv'
<1>1. EditorTypeOK'
  BY DEF EditorInv, EditorTypeOK, server
<1>2. ServerFits'
  BY DEF EditorInv, ServerFits, server, latest, RecordFits, NoLostUpdate
<1>3. \A x \in Stores : Shows(x) => Shows(x)'
  BY DEF Shows, latest, server
<1>4. ASSUME NEW x \in Tabs PROVE Shows(tab[x])'
  <2>1. PICK u \in Stores : u = tab'[x] /\ Shows(u)
    BY DEF EditorInv, EditorTypeOK, TabsFit
  <2>2. Shows(u)'
    BY <1>3, <2>1
  <2> QED
    BY <2>1, <2>2 DEF Shows
<1>5. \A x \in Tabs : \A f \in fetches'[x] : FetchFits(f)'
  <2>1. \A x \in Tabs : \A f \in fetches'[x] : FetchFits(f)
    BY DEF EditorInv, EditorTypeOK, TabsFit
  <2> QED
    BY <2>1 DEF FetchFits, latest, server
<1>6. \A x \in Tabs : \A c \in puts'[x] : PutFits(c)'
  <2>1. \A x \in Tabs : \A c \in puts'[x] : PutFits(c)
    BY DEF EditorInv, EditorTypeOK, TabsFit
  <2> QED
    BY <2>1 DEF PutFits, latest, server
<1> QED
  BY <1>1, <1>2, <1>4, <1>5, <1>6 DEF EditorInv, TabsFit

(* What a tab has at hand.                                                 *)
LEMMA TabAtHand ==
  ASSUME EditorInv, NEW e \in Tabs
  PROVE  /\ tab[e] \in Stores /\ Shows(tab[e]) /\ tab = [tab EXCEPT ![e] = tab[e]]
         /\ fetches[e] \in SUBSET Fetch /\ (\A f \in fetches[e] : FetchFits(f))
         /\ fetches = [fetches EXCEPT ![e] = fetches[e]]
         /\ puts[e] \in SUBSET Save /\ (\A c \in puts[e] : PutFits(c))
         /\ puts = [puts EXCEPT ![e] = puts[e]]
         /\ texts \in Nat /\ moves \in Nat /\ texts + moves <= MaxActs
  BY DEF EditorInv, EditorTypeOK, TabsFit

LEMMA ShowingFits ==
  ASSUME EditorInv, NEW t \in Stores, NEW d \in Documents, NEW r \in 1..latest(d)
  PROVE  showing(t, d, r) \in Stores /\ Shows(showing(t, d, r))
<1>1. latest(d) \in 1..worldAt /\ worldAt \in 1..MaxWorld
  BY DEF EditorInv, ServerFits, EditorTypeOK
<1>2. r \in Revisions
  BY <1>1, EditorAssumption DEF Revisions
<1>3. editions[d] \in Seq(Edition) /\ r \in 1..Len(editions[d])
  BY DEF EditorInv, EditorTypeOK, latest
<1>4. editions[d][r].text \in Texts
  <2>1. editions[d][r] \in Edition
    BY <1>3
  <2> QED
    BY <2>1 DEF Edition
<1> QED
  BY <1>2, <1>4 DEF showing, Stores, Shown, Shows

(* A save, and the stores it leaves.                                       *)
LEMMA SaveFits ==
  ASSUME EditorInv, NEW t \in Stores, Shows(t), t.scene # NoDocument,
         NEW by \in {"autosave", "guard", "keep"}, NEW k \in SaveKeys
  PROVE  /\ saveOf(by, t, k) \in Save /\ PutFits(saveOf(by, t, k))
         /\ [t EXCEPT !.saving = TRUE, !.key = k] \in Stores
         /\ Shows([t EXCEPT !.saving = TRUE, !.key = k])
<1>1. t.scene \in Documents /\ t.revision \in Revisions /\ t.base \in Texts
      /\ t.text \in Texts /\ t.known \in 1..MaxWorld /\ t.kept \in BOOLEAN
  BY DEF Stores, Shown
<1>2. 0 \in Revisions
  BY EditorAssumption DEF Revisions
<1>3. saveOf(by, t, k).request \in Request
  BY <1>1 DEF saveOf, Request
<1>4. saveOf(by, t, k) \in Save
  BY <1>1, <1>2, <1>3 DEF saveOf, Save
<1>5. latest(t.scene) \in Nat
  BY <1>1 DEF EditorInv, EditorTypeOK, latest
<1>6. PutFits(saveOf(by, t, k))
  <2>1. CASE t.kept
    BY <1>5, <2>1 DEF saveOf, PutFits
  <2>2. CASE ~t.kept
    BY <1>1, <1>5, <2>2 DEF saveOf, PutFits, Shows
  <2> QED
    BY <2>1, <2>2
<1>7. [t EXCEPT !.saving = TRUE, !.key = k] \in Stores
  BY DEF Stores
<1>8. Shows([t EXCEPT !.saving = TRUE, !.key = k])
  BY DEF Stores, Shows
<1> QED
  BY <1>4, <1>6, <1>7, <1>8

(* A save starts.                                                          *)
LEMMA SaveStep ==
  ASSUME EditorInv, UNCHANGED server, NEW e \in Tabs,
         NEW t \in Stores, Shows(t), t.scene # NoDocument,
         NEW by \in {"autosave", "guard", "keep"}, saveDocument(e, by, t),
         NEW F \in SUBSET fetches[e], fetches' = [fetches EXCEPT ![e] = F],
         UNCHANGED counted
  PROVE  EditorInv'
<1>1. PICK k \in SaveKeys :
        /\ puts' = [puts EXCEPT ![e] = @ \cup {saveOf(by, t, k)}]
        /\ tab' = [tab EXCEPT ![e] = [t EXCEPT !.saving = TRUE, !.key = k]]
  BY DEF saveDocument
<1> DEFINE u == [t EXCEPT !.saving = TRUE, !.key = k]
           P == puts[e] \cup {saveOf(by, t, k)}
<1>2. u \in Stores /\ Shows(u) /\ tab' = [tab EXCEPT ![e] = u]
  BY <1>1, SaveFits
<1>3. P \in SUBSET Save /\ (\A c \in P : PutFits(c)) /\ puts' = [puts EXCEPT ![e] = P]
  <2>1. saveOf(by, t, k) \in Save /\ PutFits(saveOf(by, t, k))
    BY <1>1, SaveFits
  <2>2. puts[e] \in SUBSET Save /\ \A c \in puts[e] : PutFits(c)
    BY TabAtHand
  <2>3. puts' = [puts EXCEPT ![e] = P]
    BY <1>1
  <2> QED
    BY <2>1, <2>2, <2>3
<1>4. F \in SUBSET Fetch /\ \A f \in F : FetchFits(f)
  BY TabAtHand
<1>5. texts' \in Nat /\ moves' \in Nat /\ texts' + moves' <= MaxActs
  BY TabAtHand DEF counted
<1> HIDE DEF u, P
<1> QED
  BY <1>2, <1>3, <1>4, <1>5, TabAlone

(* A scene is chosen, and loaded unless it was chosen already.             *)
LEMMA SelectStep ==
  ASSUME EditorInv, UNCHANGED server, NEW e \in Tabs,
         NEW t \in Stores, Shows(t), NEW d \in Documents,
         NEW O \in SUBSET fetches[e], selectScene(e, t, d, O),
         NEW P \in SUBSET puts[e], puts' = [puts EXCEPT ![e] = P],
         texts' \in Nat, moves' \in Nat, texts' + moves' <= MaxActs
  PROVE  EditorInv'
<1> DEFINE u == [t EXCEPT !.active = d]
<1>1. u \in Stores /\ Shows(u) /\ tab' = [tab EXCEPT ![e] = u]
  BY DEF Stores, Shown, Shows, selectScene
<1>2. PICK F \in SUBSET Fetch : (\A f \in F : FetchFits(f)) /\ fetches' = [fetches EXCEPT ![e] = F]
  <2>1. fetchOf("load", d) \in Fetch
    BY EditorAssumption DEF fetchOf, Fetch, Revisions
  <2>2. FetchFits(fetchOf("load", d))
    BY DEF EditorInv, ServerFits, EditorTypeOK, FetchFits, fetchOf, latest
  <2>3. O \in SUBSET Fetch /\ \A f \in O : FetchFits(f)
    BY TabAtHand
  <2> QED
    BY <2>1, <2>2, <2>3 DEF selectScene
<1>3. P \in SUBSET Save /\ \A c \in P : PutFits(c)
  BY TabAtHand
<1> HIDE DEF u
<1> QED
  BY <1>1, <1>2, <1>3, TabAlone

(* The author's steps.                                                     *)
LEMMA TabStep == ASSUME EditorInv, NEW e \in Tabs, tabStep(e) PROVE EditorInv'
<1> USE EditorAssumption
<1>1. /\ tab[e] \in Stores /\ Shows(tab[e]) /\ tab = [tab EXCEPT ![e] = tab[e]]
      /\ fetches[e] \in SUBSET Fetch /\ (\A f \in fetches[e] : FetchFits(f))
      /\ fetches = [fetches EXCEPT ![e] = fetches[e]]
      /\ puts[e] \in SUBSET Save /\ (\A c \in puts[e] : PutFits(c))
      /\ puts = [puts EXCEPT ![e] = puts[e]]
      /\ texts \in Nat /\ moves \in Nat /\ texts + moves <= MaxActs
  BY TabAtHand
<1>2. worldAt \in 1..MaxWorld
  BY DEF EditorInv, EditorTypeOK
<1>3. ASSUME NEW t \in Stores, Shows(t), tab' = [tab EXCEPT ![e] = t],
             UNCHANGED <<server, fetches, puts>>,
             texts' \in Nat, moves' \in Nat, texts' + moves' <= MaxActs
      PROVE  EditorInv'
  BY <1>1, <1>3, TabAlone
<1>4. CASE updateBlock(e)
  <2> DEFINE t == [tab[e] EXCEPT !.text = texts + 1, !.dirty = TRUE, !.key = NoSave]
  <2>1. texts + 1 \in Texts
    BY <1>1, <1>4, EditorAssumption DEF updateBlock, mayAct, Texts, Rewritten
  <2>2. t \in Stores /\ Shows(t)
    BY <1>1, <2>1 DEF Stores, Shows
  <2>3. tab' = [tab EXCEPT ![e] = t]
    BY <1>1, <1>4 DEF updateBlock
  <2>4. texts' \in Nat /\ moves' \in Nat /\ texts' + moves' <= MaxActs
    BY <1>1, <1>4, EditorAssumption DEF updateBlock, mayAct
  <2> HIDE DEF t
  <2> QED
    BY <1>3, <1>4, <2>2, <2>3, <2>4 DEF updateBlock
<1>5. CASE triggerAutosave(e)
  BY <1>1, <1>5, SaveStep DEF triggerAutosave
<1>6. CASE handleCancel(e)
  <2> DEFINE t == [tab[e] EXCEPT !.next = NoDocument]
  <2>1. t \in Stores /\ Shows(t)
    BY <1>1 DEF Stores, Shown, Shows
  <2>2. tab' = [tab EXCEPT ![e] = t] /\ texts' = texts /\ moves' = moves
    BY <1>1, <1>6 DEF handleCancel, counted
  <2> HIDE DEF t
  <2> QED
    BY <1>1, <1>3, <1>6, <2>1, <2>2 DEF handleCancel
<1>7. ASSUME NEW r \in 1..worldAt, tab' = [tab EXCEPT ![e].known = r],
             UNCHANGED <<server, fetches, puts, counted>>
      PROVE  EditorInv'
  <2> DEFINE t == [tab[e] EXCEPT !.known = r]
  <2>1. t \in Stores /\ Shows(t)
    BY <1>1, <1>2 DEF Stores, Shows
  <2>2. tab' = [tab EXCEPT ![e] = t] /\ texts' = texts /\ moves' = moves
    BY <1>1, <1>7 DEF counted
  <2> HIDE DEF t
  <2> QED
    BY <1>1, <1>3, <1>7, <2>1, <2>2
<1>8. CASE fetchOutline(e)
  <2>1. /\ 1 \in 1..worldAt /\ tab' = [tab EXCEPT ![e].known = 1]
        /\ UNCHANGED <<server, fetches, puts, counted>>
    BY <1>2, <1>8 DEF fetchOutline
  <2> QED
    BY <1>7, <2>1
<1>9. ASSUME NEW r \in 1..worldAt, setRevision(e, r) PROVE EditorInv'
  BY <1>7, <1>9 DEF setRevision
<1>10. ASSUME NEW why \in {"keep", "reload", "merged"}, NEW d \in Documents
       PROVE  /\ fetches[e] \cup {fetchOf(why, d)} \in SUBSET Fetch
              /\ \A f \in fetches[e] \cup {fetchOf(why, d)} : FetchFits(f)
  <2>1. fetchOf(why, d) \in Fetch
    BY DEF fetchOf, Fetch, Revisions
  <2>2. FetchFits(fetchOf(why, d))
    BY DEF EditorInv, ServerFits, EditorTypeOK, FetchFits, fetchOf, latest
  <2> QED
    BY <1>1, <2>1, <2>2
<1>11. ASSUME NEW why \in {"keep", "reload"}, fetchFresh(e, why) PROVE EditorInv'
  <2> DEFINE F == fetches[e] \cup {fetchOf(why, tab[e].active)}
  <2>1. tab[e].active \in Documents
    BY <1>1, <1>11 DEF fetchFresh, Stores, Shown
  <2>2. F \in SUBSET Fetch /\ \A f \in F : FetchFits(f)
    BY <1>10, <2>1
  <2>3. fetches' = [fetches EXCEPT ![e] = F] /\ UNCHANGED <<server, tab, puts>>
    BY <1>11 DEF fetchFresh
  <2>4. texts' \in Nat /\ moves' \in Nat /\ texts' + moves' <= MaxActs
    BY <1>1, <1>11, EditorAssumption DEF fetchFresh, mayAct
  <2> HIDE DEF F
  <2> QED
    BY <1>1, <2>2, <2>3, <2>4, TabAlone
<1>12. ASSUME NEW d \in Documents, handleApprove(e, d) PROVE EditorInv'
  <2> DEFINE F == fetches[e] \cup {fetchOf("merged", d)}
             t == [tab[e] EXCEPT !.known = 1]
  <2>1. F \in SUBSET Fetch /\ \A f \in F : FetchFits(f)
    BY <1>10
  <2>2. t \in Stores /\ Shows(t)
    BY <1>1 DEF Stores, Shows
  <2>3. /\ fetches' = [fetches EXCEPT ![e] = F] /\ tab' = [tab EXCEPT ![e] = t]
        /\ UNCHANGED <<server, puts>>
    BY <1>1, <1>12 DEF handleApprove
  <2>4. texts' \in Nat /\ moves' \in Nat /\ texts' + moves' <= MaxActs
    BY <1>1, <1>12, EditorAssumption DEF handleApprove, mayAct
  <2> HIDE DEF F, t
  <2> QED
    BY <1>1, <2>1, <2>2, <2>3, <2>4, TabAlone
<1>13. ASSUME NEW d \in Documents, chooses(e, d)
       PROVE  /\ UNCHANGED <<server, puts>>
              /\ texts' \in Nat /\ moves' \in Nat /\ texts' + moves' <= MaxActs
  BY <1>1, <1>13, EditorAssumption DEF chooses, mayAct
<1>14. ASSUME NEW d \in Documents, onMounted(e, d) PROVE EditorInv'
  <2>1. selectScene(e, tab[e], d, fetches[e]) /\ UNCHANGED <<server, puts, texts, moves>>
    BY <1>14 DEF onMounted, counted
  <2> QED
    BY <1>1, <2>1, SelectStep
<1>15. ASSUME NEW d \in Documents, requestSceneChange(e, d) PROVE EditorInv'
  <2>1. CASE selectScene(e, tab[e], d, fetches[e])
    BY <1>1, <1>13, <1>15, <2>1, SelectStep DEF requestSceneChange
  <2>2. CASE tab' = [tab EXCEPT ![e].next = d] /\ UNCHANGED fetches
    <3> DEFINE t == [tab[e] EXCEPT !.next = d]
    <3>1. t \in Stores /\ Shows(t)
      BY <1>1 DEF Stores, Shown, Shows
    <3>2. tab' = [tab EXCEPT ![e] = t]
      BY <1>1, <2>2
    <3> HIDE DEF t
    <3> QED
      BY <1>3, <1>13, <1>15, <2>2, <3>1, <3>2 DEF requestSceneChange
  <2> QED
    BY <1>15, <2>1, <2>2 DEF requestSceneChange
<1>16. ASSUME NEW d \in Documents, openScene(e, d) PROVE EditorInv'
  <2>1. selectScene(e, tab[e], d, fetches[e]) /\ chooses(e, d)
    BY <1>16 DEF openScene
  <2> QED
    BY <1>1, <1>13, <2>1, SelectStep
<1>17. CASE handleSaveAndProceed(e)
  <2>1. /\ tab[e].scene # NoDocument /\ saveDocument(e, "guard", tab[e])
        /\ UNCHANGED <<server, fetches, counted>>
    BY <1>17 DEF handleSaveAndProceed
  <2> QED
    BY <1>1, <2>1, SaveStep
<1>18. CASE handleDiscardAndProceed(e)
  <2> DEFINE t == [tab[e] EXCEPT !.text = tab[e].base, !.dirty = FALSE,
                     !.conflict = FALSE, !.key = NoSave, !.next = NoDocument]
  <2>1. t \in Stores /\ Shows(t)
    BY <1>1 DEF Stores, Shown, Shows
  <2>2. tab[e].next \in Documents
    BY <1>1, <1>18 DEF handleDiscardAndProceed, Stores, Shown
  <2>3. selectScene(e, t, tab[e].next, fetches[e]) /\ UNCHANGED <<server, puts, texts, moves>>
    BY <1>18 DEF handleDiscardAndProceed, counted
  <2> HIDE DEF t
  <2> QED
    BY <1>1, <2>1, <2>2, <2>3, SelectStep
<1> QED
  BY <1>4, <1>5, <1>6, <1>8, <1>9, <1>11, <1>12, <1>14, <1>15, <1>16, <1>17, <1>18
  DEF tabStep

(* The steps of calls and answers.                                         *)
LEMMA AnswerStep == ASSUME EditorInv, NEW e \in Tabs, answerStep(e) PROVE EditorInv'
<1> USE EditorAssumption
<1>1. /\ tab[e] \in Stores /\ Shows(tab[e]) /\ tab = [tab EXCEPT ![e] = tab[e]]
      /\ fetches[e] \in SUBSET Fetch /\ (\A f \in fetches[e] : FetchFits(f))
      /\ fetches = [fetches EXCEPT ![e] = fetches[e]]
      /\ puts[e] \in SUBSET Save /\ (\A c \in puts[e] : PutFits(c))
      /\ puts = [puts EXCEPT ![e] = puts[e]]
      /\ texts \in Nat /\ moves \in Nat /\ texts + moves <= MaxActs
  BY TabAtHand
<1>2. \A d \in Documents : latest(d) \in 1..worldAt /\ latest(d) \in Nat
  BY DEF EditorInv, ServerFits, EditorTypeOK
<1>3. worldAt \in 1..MaxWorld
  BY DEF EditorInv, EditorTypeOK
<1>4. ASSUME NEW f \in fetches[e]
      PROVE  /\ f \in Fetch /\ f.scene \in Documents
             /\ others(e, f) \in SUBSET fetches[e]
             /\ f.read # 0 => f.read \in 1..latest(f.scene) /\ f.read \in Revisions
  <2>1. f \in Fetch /\ f.read \in Revisions /\ f.scene \in Documents /\ f.read <= latest(f.scene)
    BY <1>1, <1>4 DEF Fetch, FetchFits
  <2> QED
    BY <1>2, <2>1 DEF Revisions, others
<1>5. ASSUME NEW f \in fetches[e], NEW t \in Stores, Shows(t), tab' = [tab EXCEPT ![e] = t],
             forgets(e, f), UNCHANGED <<server, puts, counted>>
      PROVE  EditorInv'
  <2> DEFINE F == others(e, f)
  <2>1. F \in SUBSET Fetch /\ (\A g \in F : FetchFits(g)) /\ fetches' = [fetches EXCEPT ![e] = F]
    BY <1>1, <1>5 DEF forgets, others
  <2>2. texts' = texts /\ moves' = moves /\ UNCHANGED <<server, puts>>
    BY <1>5 DEF counted
  <2> HIDE DEF F
  <2> QED
    BY <1>1, <1>5, <2>1, <2>2, TabAlone
<1>6. ASSUME NEW f \in fetches[e], getSceneDocument(e, f) PROVE EditorInv'
  <2> DEFINE g == [f EXCEPT !.read = latest(f.scene)]
             F == (fetches[e] \ {f}) \cup {g}
  <2>1. latest(f.scene) \in Revisions
    BY <1>2, <1>3, <1>4 DEF Revisions
  <2>2. g \in Fetch /\ g.read = latest(f.scene) /\ g.scene = f.scene
    BY <1>4, <2>1 DEF Fetch
  <2>3. FetchFits(g)
    BY <1>2, <1>4, <2>2 DEF FetchFits
  <2>4. F \in SUBSET Fetch /\ \A x \in F : FetchFits(x)
    BY <1>1, <2>2, <2>3
  <2>5. fetches' = [fetches EXCEPT ![e] = F] /\ UNCHANGED <<server, tab, puts, texts, moves>>
    BY <1>6 DEF getSceneDocument, counted
  <2> HIDE DEF F
  <2> QED
    BY <1>1, <2>4, <2>5, TabAlone
<1>7. ASSUME NEW f \in fetches[e], f.read # 0
      PROVE  /\ showing(tab[e], f.scene, f.read) \in Stores
             /\ Shows(showing(tab[e], f.scene, f.read))
  BY <1>1, <1>4, <1>7, ShowingFits
<1>8. ASSUME NEW f \in fetches[e], f.read # 0
      PROVE  loaded(tab[e], f) \in Stores /\ Shows(loaded(tab[e], f))
  <2> DEFINE s == showing(tab[e], f.scene, f.read)
  <2>1. s \in Stores /\ Shows(s)
    BY <1>7, <1>8
  <2> HIDE DEF s
  <2>2. [s EXCEPT !.key = NoSave] \in Stores /\ Shows([s EXCEPT !.key = NoSave])
    BY <2>1 DEF Stores, Shows
  <2> QED
    BY <2>2 DEF loaded, s
<1>9. ASSUME NEW f \in fetches[e], fetchDocument(e, f) PROVE EditorInv'
  <2>1. f.read # 0 /\ forgets(e, f) /\ UNCHANGED <<server, puts, counted>>
    BY <1>9 DEF fetchDocument, fetched
  <2>2. tab' = [tab EXCEPT ![e] = loaded(tab[e], f)]
    BY <1>1, <1>9 DEF fetchDocument
  <2> QED
    BY <1>5, <1>8, <2>1, <2>2
<1>10. ASSUME NEW f \in fetches[e], onMerged(e, f) PROVE EditorInv'
  <2>1. /\ f.read # 0 /\ UNCHANGED <<server, puts, texts, moves>>
        /\ selectScene(e, loaded(tab[e], f), f.scene, others(e, f))
    BY <1>10 DEF onMerged, fetched, counted
  <2> QED
    BY <1>1, <1>4, <1>8, <2>1, SelectStep
<1>11. ASSUME NEW f \in fetches[e], resolveConflictReload(e, f) PROVE EditorInv'
  <2> DEFINE s == showing(tab[e], f.scene, f.read)
             t == [s EXCEPT !.conflict = FALSE]
  <2>1. f.read # 0 /\ forgets(e, f) /\ UNCHANGED <<server, puts, counted>>
    BY <1>11 DEF resolveConflictReload, fetched
  <2>2. s \in Stores /\ Shows(s)
    BY <1>7, <2>1
  <2>3. tab' = [tab EXCEPT ![e] = t]
    BY <1>1, <1>11 DEF resolveConflictReload
  <2> HIDE DEF s
  <2>4. t \in Stores /\ Shows(t)
    BY <2>2 DEF Stores, Shows
  <2> QED
    BY <1>5, <2>1, <2>3, <2>4
<1>12. ASSUME NEW f \in fetches[e], resolveConflictKeepDraft(e, f) PROVE EditorInv'
  <2> DEFINE t == [tab[e] EXCEPT !.revision = f.read, !.kept = TRUE,
                     !.conflict = FALSE, !.dirty = TRUE]
             F == others(e, f)
  <2>1. /\ f.read # 0 /\ forgets(e, f) /\ tab[e].scene # NoDocument
        /\ UNCHANGED <<server, counted>> /\ saveDocument(e, "keep", t)
    BY <1>12 DEF resolveConflictKeepDraft, fetched
  <2>2. t \in Stores /\ Shows(t) /\ t.scene # NoDocument
    BY <1>1, <1>4, <2>1 DEF Stores, Shows
  <2>3. F \in SUBSET fetches[e] /\ fetches' = [fetches EXCEPT ![e] = F]
    BY <2>1 DEF forgets, others
  <2> HIDE DEF t, F
  <2> QED
    BY <2>1, <2>2, <2>3, SaveStep
<1>13. ASSUME NEW f \in fetches[e], fetchFails(e, f) PROVE EditorInv'
  <2>1. UNCHANGED <<server, puts, counted>> /\ UNCHANGED <<texts, moves>>
    BY <1>13 DEF fetchFails, counted
  <2>2. CASE forgets(e, f) /\ UNCHANGED tab
    BY <1>1, <1>5, <2>1, <2>2
  <2>3. CASE selectScene(e, tab[e], f.scene, others(e, f))
    BY <1>1, <1>4, <2>1, <2>3, SelectStep
  <2> QED
    BY <1>13, <2>2, <2>3 DEF fetchFails
<1>14. ASSUME NEW c \in puts[e]
       PROVE  puts[e] \ {c} \in SUBSET puts[e] /\ c \in Save /\ c.request \in Request
              /\ c.made \in Nat /\ PutFits(c)
  BY <1>1, <1>14 DEF Save, Revisions
<1>15. ASSUME NEW c \in puts[e], ends(e, c), NEW t \in Stores, Shows(t),
              tab' = [tab EXCEPT ![e] = t], UNCHANGED <<server, fetches, counted>>
       PROVE  EditorInv'
  <2> DEFINE P == puts[e] \ {c}
  <2>1. P \in SUBSET Save /\ (\A x \in P : PutFits(x)) /\ puts' = [puts EXCEPT ![e] = P]
    BY <1>1, <1>15 DEF ends
  <2>2. texts' = texts /\ moves' = moves /\ UNCHANGED <<server, fetches>>
    BY <1>15 DEF counted
  <2> HIDE DEF P
  <2> QED
    BY <1>1, <1>15, <2>1, <2>2, TabAlone
<1>16. ASSUME NEW c \in puts[e], saveArrives(e, c) PROVE EditorInv'
  <2> DEFINE s == showing(tab[e], c.request.scene, c.made)
             known == IF tab[e].known > c.request.world THEN tab[e].known ELSE c.request.world + 1
             shown == [s EXCEPT !.conflict = FALSE, !.saving = FALSE, !.key = NoSave,
                         !.known = known]
             t == [shown EXCEPT !.next = NoDocument]
             P == puts[e] \ {c}
  <2>1. ends(e, c) /\ c.made # 0 /\ UNCHANGED <<server, counted>> /\ UNCHANGED <<texts, moves>>
    BY <1>16 DEF saveArrives, counted
  <2>2. /\ c.request.scene \in Documents /\ c.request.world \in 1..MaxWorld
        /\ c.made \in 1..latest(c.request.scene) /\ c.request.world < worldAt
    BY <1>2, <1>14, <2>1 DEF Request, PutFits
  <2>3. known \in 1..MaxWorld
    BY <1>1, <1>3, <2>2 DEF Stores
  <2>4. s \in Stores /\ Shows(s) /\ s.known = tab[e].known
    BY <1>1, <2>2, ShowingFits DEF showing, Stores
  <2> HIDE DEF s, known
  <2>5. shown \in Stores /\ Shows(shown)
    BY <2>3, <2>4 DEF Stores, Shows
  <2>6. CASE tab' = [tab EXCEPT ![e] = shown] /\ UNCHANGED fetches
    <3> HIDE DEF shown
    <3> QED
      BY <1>15, <2>1, <2>5, <2>6
  <2>7. CASE tab[e].next # NoDocument /\ selectScene(e, t, tab[e].next, fetches[e])
    <3>1. t \in Stores /\ Shows(t)
      BY <2>5 DEF Stores, Shown, Shows
    <3>2. P \in SUBSET puts[e] /\ puts' = [puts EXCEPT ![e] = P]
      BY <2>1 DEF ends
    <3>3. tab[e].next \in Documents
      BY <1>1, <2>7 DEF Stores, Shown
    <3> HIDE DEF t, P
    <3> QED
      BY <1>1, <2>1, <2>7, <3>1, <3>2, <3>3, SelectStep
  <2>8. shown = [showing(tab[e], c.request.scene, c.made) EXCEPT
                   !.conflict = FALSE, !.saving = FALSE, !.key = NoSave,
                   !.known = IF @ > c.request.world THEN @ ELSE c.request.world + 1]
    BY <2>4 DEF s, known, showing, Stores
  <2> HIDE DEF shown
  <2> QED
    BY <1>16, <2>6, <2>7, <2>8 DEF saveArrives
<1>17. ASSUME NEW c \in puts[e], refusalArrives(e, c) PROVE EditorInv'
  <2> DEFINE t == [tab[e] EXCEPT !.conflict = TRUE, !.saving = FALSE]
  <2>1. t \in Stores /\ Shows(t)
    BY <1>1 DEF Stores, Shows
  <2>2. tab' = [tab EXCEPT ![e] = t] /\ ends(e, c) /\ UNCHANGED <<server, fetches, counted>>
    BY <1>1, <1>17 DEF refusalArrives
  <2> HIDE DEF t
  <2> QED
    BY <1>15, <2>1, <2>2
<1>18. ASSUME NEW c \in puts[e], saveFails(e, c) PROVE EditorInv'
  <2> DEFINE t == [tab[e] EXCEPT !.saving = FALSE]
  <2>1. t \in Stores /\ Shows(t)
    BY <1>1 DEF Stores, Shows
  <2>2. tab' = [tab EXCEPT ![e] = t] /\ ends(e, c) /\ UNCHANGED <<server, fetches, counted>>
    BY <1>1, <1>18 DEF saveFails
  <2> HIDE DEF t
  <2> QED
    BY <1>15, <2>1, <2>2
<1> QED
  BY <1>6, <1>9, <1>10, <1>11, <1>12, <1>13, <1>16, <1>17, <1>18, PutStep DEF answerStep

LEMMA EditorInvariant == EditorSpec => []EditorInv
<1>1. EditorInv /\ [EditorNext]_editorVars => EditorInv'
  <2> SUFFICES ASSUME EditorInv, [EditorNext]_editorVars PROVE EditorInv'
    OBVIOUS
  <2>1. CASE EditorNext
    BY <2>1, OthersStep, TabStep, AnswerStep DEF EditorNext
  <2>2. CASE UNCHANGED editorVars
    BY <2>2 DEF editorVars, server, counted, EditorInv, EditorTypeOK, ServerFits, TabsFit,
       NoLostUpdate, Shows, FetchFits, PutFits, RecordFits, latest
  <2> QED
    BY <2>1, <2>2
<1> QED
  BY <1>1, EditorInvInit, PTL DEF EditorSpec

(* No edition replaces a text its author has not seen, or chosen to        *)
(* replace: saveSceneDocument's two expected revisions and the stores.     *)
THEOREM UpdatesSeen == EditorSpec => []NoLostUpdate
<1>1. EditorInv => NoLostUpdate
  BY DEF EditorInv, ServerFits
<1> QED
  BY <1>1, EditorInvariant, PTL

(* A scene shown as saved is the text stored under its revision.           *)
THEOREM ShownIsStored == EditorSpec => []SavedIsStored
<1>1. EditorInv => SavedIsStored
  <2> SUFFICES ASSUME EditorInv, NEW e \in Tabs,
                      tab[e].scene # NoDocument, ~tab[e].dirty, ~tab[e].kept
               PROVE  /\ tab[e].revision \in 1..latest(tab[e].scene)
                      /\ tab[e].text = editions[tab[e].scene][tab[e].revision].text
    BY DEF SavedIsStored
  <2> QED
    BY TabAtHand DEF Shows
<1> QED
  BY <1>1, EditorInvariant, PTL

-----------------------------------------------------------------------------
(* A behaviour of the studio is, in each part, one of the part alone.      *)
LEMMA StudioParts ==
  ASSUME [StudioNext]_studioVars
  PROVE  /\ [CanonNext]_canonVars /\ [OutlineNext]_outlineVars
         /\ [ReleaseNext]_releaseVars /\ [HandlerNext]_handlerVars
         /\ [ProactiveNext]_proactiveVars /\ [MediaNext]_mediaVars
         /\ [EditorNext]_editorVars
<1>1. CASE UNCHANGED studioVars
  BY <1>1 DEF studioVars
<1>2. CASE StudioNext
  <2>1. [CanonNext]_canonVars
    BY <1>2 DEF StudioNext, Elsewhere
  <2>2. [OutlineNext]_outlineVars
    BY <1>2 DEF StudioNext, Elsewhere
  <2>3. [ReleaseNext]_releaseVars
    BY <1>2 DEF StudioNext, Elsewhere
  <2>4. [HandlerNext]_handlerVars
    BY <1>2 DEF StudioNext, Elsewhere
  <2>5. [ProactiveNext]_proactiveVars
    BY <1>2 DEF StudioNext, Elsewhere
  <2>6. [MediaNext]_mediaVars
    BY <1>2 DEF StudioNext, Elsewhere
  <2>7. [EditorNext]_editorVars
    BY <1>2 DEF StudioNext, Elsewhere
  <2> QED
    BY <2>1, <2>2, <2>3, <2>4, <2>5, <2>6, <2>7
<1> QED
  BY <1>1, <1>2

(* The studio implements each of its parts.                                *)
THEOREM PartsImplemented ==
  StudioSpec => /\ CanonSpec /\ OutlineSpec /\ ReleaseSpec
                /\ HandlerSpec /\ ProactiveSpec /\ MediaSpec
                /\ EditorSpec
<1>1. StudioInit => /\ CanonInit /\ OutlineInit /\ ReleaseInit
                    /\ HandlerInit /\ ProactiveInit /\ MediaInit
                    /\ EditorInit
  BY DEF StudioInit
<1>2. [StudioNext]_studioVars => [CanonNext]_canonVars
  BY StudioParts
<1>3. [StudioNext]_studioVars => [OutlineNext]_outlineVars
  BY StudioParts
<1>4. [StudioNext]_studioVars => [ReleaseNext]_releaseVars
  BY StudioParts
<1>5. [StudioNext]_studioVars => [HandlerNext]_handlerVars
  BY StudioParts
<1>6. [StudioNext]_studioVars => [ProactiveNext]_proactiveVars
  BY StudioParts
<1>7. [StudioNext]_studioVars => [MediaNext]_mediaVars
  BY StudioParts
<1>8. [StudioNext]_studioVars => [EditorNext]_editorVars
  BY StudioParts
<1> QED
  BY <1>1, <1>2, <1>3, <1>4, <1>5, <1>6, <1>7, <1>8, PTL
  DEF StudioSpec, CanonSpec, OutlineSpec, ReleaseSpec, HandlerSpec, ProactiveSpec, MediaSpec,
      EditorSpec

(* The types of all parts.                                                 *)
THEOREM StudioTypeCorrect == StudioSpec => []StudioTypeOK
<1>1. StudioInit => part \in Parts
  BY DEF StudioInit
<1>2. part \in Parts /\ [StudioNext]_studioVars => (part \in Parts)'
  BY DEF StudioNext, studioVars
<1>3. ReleaseInv /\ HandlerInv /\ ProactiveInv /\ MediaInv /\ EditorInv
      => ReleaseTypeOK /\ HandlerTypeOK /\ ProactiveTypeOK /\ MediaTypeOK /\ EditorTypeOK
  BY DEF ReleaseInv, HandlerInv, ProactiveInv, MediaInv, EditorInv
<1>4. part \in Parts /\ CanonTypeOK /\ OutlineTypeOK /\ ReleaseTypeOK
      /\ HandlerTypeOK /\ ProactiveTypeOK /\ MediaTypeOK /\ EditorTypeOK => StudioTypeOK
  BY DEF StudioTypeOK
<1>5. StudioSpec => [](part \in Parts)
  BY <1>1, <1>2, PTL DEF StudioSpec
<1> QED
  BY <1>3, <1>4, <1>5, PartsImplemented, CanonTypeCorrect, OutlineTypeCorrect,
     ReleaseAlwaysFits, HandlerInvariant, ProactiveInvariant, MediaInvariant,
     EditorInvariant, PTL

(* What is shown of the parts holds of the studio.                         *)
THEOREM StudioSafe ==
  StudioSpec => /\ [](RevisionNamesCanon /\ ApprovedFresh /\ KeyedOnce)
                /\ []NothingDangles
                /\ [](OfferedChoiceWorks /\ RunReplays)
                /\ [](SupersededOnce /\ SoundCursor)
                /\ []DailyLimitKept
                /\ []StoredWhole
                /\ [](NoLostUpdate /\ SavedIsStored)
                /\ ReviewIsGate
                /\ OnlyMovesDisagree
<1> QED
  BY PartsImplemented, RevisionsNameCanons, ApprovalsAreFresh, KeysServeOnce,
     OutlineHoldsTogether, ChoicesWork, HistoriesReplay, MemoryReplacedOnce, CursorCovers,
     LimitKept, ImagesStored, UpdatesSeen, ShownIsStored, ReviewsImplementGate,
     OutlineComesApartOnlyByMoves, PTL

=============================================================================
