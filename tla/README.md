# Verification of the Living Network V2 pipelines and studio

This directory holds TLA+ models of the V2 code of this repository ("Living
Network", a local-first platform for AI-assisted interactive stories), TLC
configurations that check them on small instances, and TLAPS proofs of the most
important results for every value of the constants. Everything is translated
from the source; `PROJECT.json` maps each definition to the lines it stands for.

Run TLC with `tlc -config X.cfg MCModule.tla` and the prover with
`tlapm ModuleProofs.tla`.

## 1. The system and its parts

One SQLite file (WAL, `BEGIN IMMEDIATE`, busy timeout of five seconds) holds all
facts. A Fastify API process and one or more worker processes open it; Redis
with BullMQ is a queue that can be rebuilt. ComfyUI draws images, an
OpenAI-compatible server writes text, browsers edit through the API. V1 code is
frozen.

| Part | State | Operations | Works with |
|---|---|---|---|
| Scene generation (`database/src/v2/generation/repository.ts`, `worker/src/v2/generation-dispatch-pump.ts`, `scene-generation-worker.ts`) | job rows (status, attempts, lease), dispatch rows (outbox), scene candidates, BullMQ messages | create, cancel, dispatch, claim, run, submit, succeed, fail, recover an expired lease | API inserts job and dispatch in one transaction; the pump copies dispatches to BullMQ; a consumer runs the job |
| Asset generation and review (`asset-repository.ts`, `asset-generation-worker.ts`, `comfyui-client.ts`) | job rows with `external_job_id` and `media_ref`, asset candidates, reviews, approved assets | create, cancel, submit a prompt, fetch its image, store the candidate, review | same outbox and queue; ComfyUI; media store |
| Chat maintenance queue (`database/src/v2/chat/repository.ts`, `maintenance-dispatch-pump.ts`) | job table with owner, lease, attempts | enqueue, claim, renew, complete, fail, retry by the operator | polled from SQLite by each worker, no broker |
| Conversation memory (`chat/use-cases.ts`, handlers of the maintenance pump) | messages, extraction and story cursors, batches of facts, engine offsets, summary | send message, save reply, extract, consume, summarise, analyse | saving a reply enqueues jobs; extraction enqueues engine jobs |
| Memory engines (`worker/src/v2/memory`) | memories and their status | consume a batch, correct a slot, consolidate | a consumption may queue a consolidation |
| Proactive messages (`chat/use-cases.ts`, the pump) | policy, jobs, messages | set the policy, schedule, deliver | maintenance queue |
| Queue transport (`worker/src/queue.ts`, `worker/src/v2/runtime.ts`) | BullMQ messages, locks | enqueue, deliver, settle, redeliver | between pump and consumers |
| Canon and candidate review (`api/src/v2/core/use-cases.ts`, `database/src/v2/core`) | revisioned canon, candidates, idempotency records | edit with compare-and-set, submit, review | scene candidates come from the worker |
| Release and player runs (same files, `domain/src/v2/core`) | story graph, releases, runs, saves | edit, preflight, release, start, choose, save, load | the graph is canon; a release freezes it |
| Narrative hierarchy (`api/src/v2/narrative`) | arcs, chapters, quests, scenes, lore, references, scene documents | create, move, delete, apply a template, save a document | canon review and graph editor write the same rows |
| Scene editor (`web/src/v2/narrative-workbench`, `web/src/v2/story`) | the stores of a browser tab: document, draft, flags, known revision, pending key | edit, autosave, choose a scene, resolve a conflict, review | scene documents of the API |
| Manual assets, media store (`api/src/v2/assets/plugin.ts`, `local-asset-media-store.ts`) | files named by content | upload, store | approved assets |
| Chat replies (`api/src/v2/chat/plugin.ts`), companion settings, models and settings (`platform`, `model-provider.ts`), rest of the web client, V1 | streams, settings, call logs | — | see section 6 |

What is hard here:

* **Concurrency.** API, pump and workers are separate processes on one database;
  each SQL statement outside a transaction can interleave with any other. A
  worker reads a row, waits for a model for minutes, and writes on what it read.
  The pump's timer starts a tick although the last one still runs. A browser's
  answers arrive in any order while the author types.
* **Failure.** A worker may die between two statements, or between a call's
  effect and its record; Redis may store a message and report an error; BullMQ
  redelivers a message whose lock was lost; statements meet `SQLITE_BUSY`; an
  answer of the API is lost after its transaction has committed.
* **Ordering.** A retry may overtake the bookkeeping of the attempt before it; a
  late run writes after a later one; a review meets a late run, or a canon that
  has moved on since its candidate was drafted.
* **Time.** Leases run out while their owner works; a heartbeat races a take-over;
  days are counted differently where a message is scheduled and delivered.
* **Repeated columns.** Parents are repeated in children's rows without foreign
  keys, and three writers keep them in step by hand.
* **Progress.** Every job should end, whatever happens on the way.

What makes each part correct:

* Scene generation: a job that can run has an attempt left; it has one candidate
  at most and succeeds only with one; runs of one job do not overlap;
  cancellation is final; every job ends; the rows follow the domain's transition table.
* Assets: the image of a succeeded job, of its candidate and of the approved
  asset is one image; a review is final; a stored prompt is resumed instead of
  being drawn again.
* Maintenance queue: only the latest claim may write; completion is final; a
  pending job can be claimed; every job settles.
* Conversation memory: no message is skipped and none extracted twice; the
  extraction cursor and the summary do not go back; the story cursor covers what it
  claims; a memory is replaced once per consolidation.
* Canon and review: one revision number names one canon; a candidate is applied
  once and only while what it vouches for is as it was read; a repeated request takes effect once.
* Release: what a player is offered works; a run, a save and a loaded run are
  what their history makes of the release.
* Hierarchy: nothing dangles; rows drift apart only by the moves that are known to.
* Scene editor: nobody's text is overwritten unseen; what is shown as saved is stored.
* Proactive messages: never more than the limit in a day, as far as the pump looks back. Media: a name that was
  reported holds a whole file.

## 2. Modules

| Module | Models | Extends |
|---|---|---|
| `JobLifecycle` | abstract: the domain's transition table and retry rule (`domain/src/v2/generation/job.ts`) | |
| `SceneGeneration` | API, outbox, pump, BullMQ, worker of scene jobs | |
| `MaintenanceQueue` | abstract for its handlers: job table and pumps, a handler ends at any time in any way | |
| `ChatMaintenance` | one conversation: triggers and handlers of extraction, engines and summary | `MaintenanceQueue` |
| `MemoryHandlers` | the handlers `memory_consolidate` and `story_analyze` with what queues them | `MaintenanceQueue` |
| `ProactiveMessages` | policy, scheduling and delivery of proactive messages | |
| `AssetGeneration` | asset jobs, ComfyUI prompts, candidates, reviews, approved assets | |
| `MediaStore` | writers of files named by content | |
| `ReviewGate` | abstract: a candidate is decided once, a version of the canon has one author | |
| `CanonReview` | edits, scene and character candidates with their sources, reviews, idempotency records | |
| `NarrativeOutline` | the rows of the hierarchy and their three writers | |
| `ReleaseRuntime` | graph, preflight, releases, runs, saves | |
| `SceneEditor` | the workbench's stores and calls, and the scene documents they meet | |
| `Studio` | the sum of the seven modules that belong to no pipeline | those seven |
| `MC...` | symmetry and derived constants for TLC | the module of that name |
| `...Proofs` | theorems and proofs (`StudioProofs`: also those of `MemoryHandlers`, `ProactiveMessages`, `MediaStore`, `SceneEditor`) | the module of that name, TLAPS |

Four refinements hold them together: `SceneGeneration` implements `JobLifecycle`
(`INSTANCE ... WITH`, property `FollowsLifecycle`, theorem `Implements`);
`CanonReview` implements `ReviewGate` (property `ReviewIsGate`, theorem
`ReviewsImplementGate`); `ChatMaintenance` and `MemoryHandlers` implement
`MaintenanceQueue` with its open handlers (`ImplementsQueue`, `HandlersUseQueue`; the
mapping is the identity on the queue's variables).

`Studio` is a sum, not a product: a behaviour chooses one part at first and every step
is a step of that part. This is sound because the parts, as modelled, share no state; a
theorem (`PartsImplemented`) says that a behaviour of the studio is one of each part. The module
of the handlers is followed as two parts, `memory` and `story`, in each of which the jobs of the
other are not queued; together they are proved (section 5). The sum lets one run of TLC check seven components. What does cross
the boundary of a part is in the part as an open action: `CanonReview` takes a
worker's candidate at any time and `SceneEditor` any write to the canon.

### Correspondence to the code

One step is one autocommitted statement, one transaction, one Redis command, one file
operation, or one call of a model or of ComfyUI. A transaction made with the asynchronous helper
(`withV2SqliteAsyncTransaction`) is one step too: between its `BEGIN` and its
`COMMIT` the repositories only await values that are there already. A handler of the API
is one such transaction; one that throws rolls back, so it is an action that is not enabled.

*Scene generation.* `status`, `attempts`, `lease` and `dispatch` are the columns;
a time stamp is reduced to "none, live, expired", and `leaseExpires` is the clock.
`pump[p]` is a tick: its list of dispatches (`todo`), the job at hand and the
attempts it read. `exec[w]` is a run of the processor: its label is the next
statement, `held` says whether it still owns the lock of its message, `seen` is
what `markJobFailed` has read. A message is named by job and attempt, as
`` `${dispatchId}:attempt:${attempts}` `` is in the code, and `Add` drops a message
whose name the queue still knows, which BullMQ does with a job id.
`markJobFailed` is three actions (`readAttempts`, `markJobFailed`,
`reopenDispatch`), since it is three autocommitted statements. A rejected processor
leaves a failed BullMQ message behind (`settle`); a lost lock gives it to a second
consumer (`loseLock`, `redeliver`).

*Maintenance queue.* A claim takes a pending job, or one whose lease has run out,
and counts the attempt; `Holds` is the `WHERE` clause shared by renewal,
completion and failure. `run[p]` keeps the attempts and the limit as the row was
claimed, because the pump decides with them. A pump that crashes comes back under
a new worker id, so its claims belong to `Gone`.

*Conversation memory.* Messages are numbered in the order of the listing, which is taken to
be the order in which they are committed (section 6). A range
of messages is the payload of a job and the name of a batch. Each handler is cut
at its transactions and at the model calls between them; the lease check in front
of each write (`assertLeaseOwner`) is part of the writing action, because it runs in
its transaction. The exception is `memory_engine_consume`: its check (`checkLease`)
comes before `engine.consume`, which the lease does not protect. The texts of messages,
facts and summaries are left out; a batch is its range, a summary its version, last message and count.

*Memory and story handlers.* `stage[p]` is the await at which the handler of pump `p`
stands. `readMemory` reads the memory and its status; `ignoreCandidate`, `keepBoth`
and `supersedeMemory` are the writes for the model's decisions, each behind the fence. An
analysis works on the span of messages in its payload (`Span`), stores its scenes and
moves the cursor, forwards or backwards, in two transactions (`storeScenes`, `setStoryAnalyzeCursor`).
What it is given to read (`unread`) are the newest `FirstRead` messages (80 in the code) as long as there is
no cursor, and then the `NextRead` (100) that follow the cursor; `passedOver` remembers the messages
that were older than the newest 80 when an analysis without a cursor was asked for.

*Proactive messages.* The clock ticks, a day has `Day` ticks, and quiet hours are ticks of
a day. `scheduleProactiveMessage` counts the jobs since midnight; `handleProactiveMessage`
counts the proactive messages of the last `Day` ticks among the newest `Listed` messages of the conversation
(200 in the code), whoever wrote those (`postMessage`), and compares its cooldown with the oldest of
them, as the code does (`coolingDown`). It has no fence; a repeated run finds the job's message, or delivers.

*Assets.* `prompts[j]` counts what ComfyUI has accepted for the job, and
`external[j]` is the number of the prompt the row remembers. An image is the number
of the prompt that made it, except for the jobs in `Seeded`, whose prompts all give
the same one: the media store names an image by its content. The outbox is the same
code as for scenes, so the delivery is left open: any job may be delivered at any
time, and a delivery of a job that a run still holds counts as an overlap.

*Media store.* A worker writes a temporary file and renames it; an upload opens the
final name with `wx`. A file is absent, partly written or whole; a process may die
between any two operations.

*Canon and review.* A row of the canon is an opaque content; a request names an expected
revision or none, and `past` remembers which canon each revision named. A scene candidate may
list the rows it was made from (`sources`): then a review compares their fingerprints with what
is stored and nothing else, so that an empty list agrees with every canon; without a list
(`Unlisted`) it compares the base revision with the one the reviewer names, which must be the
current one. The rows of a list are read in a later transaction than the base revision, so the
list may be of a later canon (`read`). The worker's port compares the base with the current revision
when it submits a candidate that lists nothing (`submitSceneCandidate`); the API and the story
analysis compare nothing (`createSceneCandidate`). A character candidate has no list that is
looked at, and its base is also compared when it is rejected.
`withIdempotency` serves a recorded answer; the requests whose
repetition matters are those of `Followed`.

*Outline.* A parent is a column; `None` is an empty column and `Keep` a request that does
not name it. `validateQuestHierarchy` and `validateSceneHierarchy` return the rows they allow.

*Release.* One numeric story variable and one character variable stand for all. The
preflight tries a choice's effects on the defaults (`deltaIsValid`); a player's choice
applies them to the state reached (`choiceWorks`).

*Editor.* A document is the sequence of its editions, each with the text it was written
from; a text is the list of blocks. `tab[e]` is the document store, the known revision of the revision store,
the chosen scene of the session store, and the guard's pending scene. `fetches` and `puts` are calls
on the way; the server answers them (`getSceneDocument`, `putSceneDocument`), the answer
arrives (`fetchDocument`, `onMerged`, `saveArrives`, ...) or is lost (`saveFails`,
`fetchFails`). A scene loader aborts the load before it, nothing else is aborted.
`putSceneDocument` looks the key up first, then compares both revisions.

## 3. Runs

| Run | Question and answer | Bounds |
|---|---|---|
| `scene_faults` | Types, attempts, candidates and rest under faults: all hold. | 1 job that may be cancelled, 2 workers, 1 tick, 2 attempts, 2 faults |
| `scene_steady` | Without faults: runs apart, active jobs in hand, no failure after submission, refinement of `JobLifecycle`: all hold. | 2 jobs, 2 workers, 2 overlapping ticks, 2 attempts |
| `scene_cancel` | "cancelled" is final: violated. | 1 job, 2 workers |
| `scene_lease` | An expired lease is recovered: violated after one fault. | 1 job, 1 fault |
| `scene_dispatch` | Every job ends: violated without any fault. | 1 job |
| `chat_steady` | One active extraction, cursor and summary never back: hold. | 3 messages, 2 extractions, 2 summaries, 2 pumps |
| `chat_faults` | Fence, completion, nothing skipped, rest: hold. | 1 extraction, 1 engine, 2 pumps, 2 faults, 1 retry by hand |
| `chat_stuck` | Every job settles: violated. | 1 fault |
| `chat_overlap` | No message is extracted twice: violated. | 3 messages |
| `chat_summary` | A stale summary job does not overwrite: violated. | 3 messages, 1 summary job |
| `asset_review` | Attempts, one image, replay, final reviews, resumed prompts: hold. | 1 job, 3 attempts, 2 workers, 2 overlaps, 2 faults |
| `studio` | Canon, outline, release, memory and story handlers, proactive messages, media, editor: all hold. | below |

The bounds of `studio`, part by part:

| Part | Bounds | Because |
|---|---|---|
| canon | 2 rows of 2 contents, 2 candidates of either kind with any list or none, 3 revisions, 1 key, repetitions of edits without an expected revision that write what no candidate does | a candidate, what invalidates it and what does not; any other repetition is refused by the revision |
| outline | 2 arcs, 2 chapters, 2 quests, 1 scene, 1 lore entry | a move has an old and a new parent on each level; scenes do not depend on each other |
| release | 2 scenes, 2 choices out of 5, 3 levels, 1 release, 2 runs, 1 save, histories of 3, 5 edits | a loop, a gate, a choice that leads nowhere and effects that fail; a run, its save and the run loaded from it |
| memory | 1 consolidation, 2 pumps, 1 memory, 2 attempts, 1 fault | it is taken over or rerun, and the slot corrected in between |
| story | 2 analyses, 2 pumps, 3 messages, of which an analysis reads 2 at first and 1 after a cursor, 2 attempts, 1 fault | two analyses overlap and one is rerun; one message is too old for the first, and one is left for the next; consolidations and analyses share nothing but the pumps, so each is followed apart |
| proactive | 1 conversation, 3 slots, limit 2, cooldown 1, a day of 3 ticks of which one is quiet, 6 ticks, a listing of 2, a conversation of 2 messages besides | one more slot than the limit, on both sides of midnight; a message that drops out of the listing while its day lasts: without the window of the listing the daily limit is violated in these bounds |
| media | 1 content, 2 workers, 2 uploads | files of other contents are other files |
| editor | 1 tab, 2 documents, 3 world revisions, 2 acts of the author (edits, choices of another scene, fetches asked for, approvals of candidates), 1 call besides the load | the other writers are the approvals and `writeCanon`; a draft, a switch away and a late answer. That a second tab adds nothing of its own is for the proof to say: there tabs are arbitrary |

Why the bounds are enough. Jobs share no state except the queue and the workers,
so one job shows every race on its row; two are used where messages of different
jobs compete for workers. Two workers give every overlap of two runs, and a third
would repeat one of them. Two attempts have a retry and an exhausted job; three (assets)
let a stale count be written between two others. Two faults let something fail
during the recovery from something that failed. Three messages give a range, its
successor, and a range that overlaps both. Beyond the instances, the safety properties of
the passing runs are proved for all sizes (section 5). Symmetry is used only
in runs whose constants are interchangeable model values and, with it, only for
safety properties (`ReviewIsGate` and `OnlyMovesDisagree` speak of steps). In `studio` the
parts share ids, so that one small symmetry group serves all. Deadlock is checked for
assets, where a job can always be delivered; it is off where all work may be done, or
where a bound ends it.

### Fairness

`SceneGeneration!Fairness`: a tick and a run carry on with their next statement (the
timer is an interval; a model call ends by its timeout), BullMQ hands waiting
messages to idle consumers and repeats its stalled check, and time passes for a
lease. Nothing is assumed of creators, of cancellations or of faults.
`ChatMaintenance!Fairness`: each pump polls every two seconds and its handlers go
on; a lease that nobody renews runs out. That the lease of a living owner runs out
is possible but not fair. All fairness is weak. The parts of the studio are moved by
creators, players, authors and clients, of whom nothing is assumed; their properties are safety.

### What the violated runs show

Each checks what a document, a comment or a test of the repository says; the
findings in `PROJECT.json` quote it.

* `scene_cancel`: a run that waits for the model when its job is cancelled ends in
  `markJobFailed`, which has no condition on the status; the job goes back to the
  queue, or to failed.
* `scene_lease`: recovery happens only when a message is delivered. A run that ends
  without an answer uses the message up, and nobody looks at the lease again.
* `scene_dispatch`: the worker fails an attempt and reopens the dispatch before the
  pump writes `enqueued` for that attempt; the retry is never dispatched.
* `chat_stuck`: the process dies in the last attempt; the row stays claimed, counts as
  active for ever, and blocks further extractions of the conversation.
* `chat_overlap`: an extraction that fails for good after its batch was committed is
  followed by one over the same messages and more.
* `chat_summary`: the job of the first summary, run again after it has saved, has no
  version to compare and folds the same messages in twice.

`ComesToRest` (scenes, chat) is the liveness that does hold: retries and take-overs
come to an end, and a job is then finished, or in exactly the state the violated
runs show (`Stranded`, `Abandoned`).

## 4. Properties worth a word

* `AttemptsLeft` is not evident: `markJobFailed` writes an incremented count it read
  in an earlier statement, over any status, so counts can go back.
* `Fenced` is about several pumps: the one that passes the `WHERE` clause is the one
  of the latest claim, and all others run earlier ones.
* `NothingSkipped` relates cursor, batches and engine jobs; a crash may fall between
  any two of the three writes. `SoundCursor` says the same of the story cursor, whose
  analyses overlap without a gate. It excepts the messages that were older than the newest 80 when
  an analysis without a cursor was asked for: the code never reads those. Once there is a cursor, an
  analysis of 100 out of many messages leaves the rest for the next.
* `OneActiveExtraction`, `CursorNeverBack` and `SummaryNeverBack` are stated until the
  first retry by hand, which goes around the gate of `saveReply`.
* `NoSecondPrompt` and `RerunReplays` are stated until two runs of a job overlap. A run
  that overlaps another may submit a second prompt; then `SucceededCarriesCandidate`,
  `AssetIsReviewedImage` and `ReviewStands` say that only the first stored image counts.
* A crash between ComfyUI's answer and `markAssetJobSubmitted` does submit a second
  prompt; no document says otherwise, and no property does.
* `ApprovedFresh` compares the canon at approval with the canon a candidate was
  drafted from, though the code only compares numbers or fingerprints; it rests on
  `RevisionNamesCanon`, that no writer changes a row without advancing the revision. It says what a
  list of sources vouches for and no more: rows outside the list may have changed, and an empty list, which
  the parsers and the domain let through, is approved on any canon.
* `OnlyMovesDisagree` is an action property: rows whose repeated columns agree go on
  agreeing except by a moved chapter, a moved quest, or a scene that keeps its quest and chapter and
  is given another arc, as the graph editor does. (A save that changed nothing but the arc would be excused with
  it; one that lets the quest or the chapter drift is not.) These
  three do drift apart; that nothing dangles holds all the same (`NothingDangles`).
* `OfferedChoiceWorks` is about target and story effect. A choice with a character effect may be refused after a load,
  because loads drop character and relationship state (section 6).
* `DailyLimitKept` speaks of every span of a day, while the API counts calendar days; only
  the pump's own count carries it. The pump counts in its listing of the newest 200 messages, so the property
  is about the messages of a day among 201 that follow each other: a conversation with more
  in a day may get more than its limit. The cooldown is not such a property: what holds of it is proved (section 5).
* `StoredWhole` excepts a content whose upload is writing, or died while it was: the code leaves
  the truncated file, and later stores take it for the image.
* `NoLostUpdate` needs both expected revisions and the key of a draft: a
  save that was answered too late, or never, is sent again under its key; a load of
  another scene arrives under an open draft. What is typed while a save or a load is
  on the way is replaced by its answer: the property is about the server's editions, and
  `SavedIsStored` about what is shown as saved. Neither says that a draft survives, since it does not.

## 5. Proofs

The only assumptions are those of the modules: "no job", "no row", "no key" and the like
are none, limits are natural or positive numbers, a consume job is named by engine and
batch (`SceneAssumption`, `QueueAssumption`, `ChatAssumption`, `AssetAssumption`,
`CanonAssumption`, `RequestAssumption`, `OutlineAssumption`, `ReleaseAssumption`,
`HandlersAssumption`, `ProactiveAssumption`, `MediaAssumption`, `EditorAssumption`). Sets of
jobs, workers, pumps, engines, rows, candidates, keys, runs, conversations, tabs and
documents are arbitrary; a bound of a run is there an arbitrary number. A theorem that
needs more names it in its statement (`MaxFaults = 0`).

| Theorem | Says |
|---|---|
| `TypeCorrect`, `AlwaysSafe` with `OneCandidatePerJob`, `SuccessIsSubmitted`, `LeaseWhileActive` (scenes) | types; attempts left, one candidate, success with a candidate, an active job carries a lease (`ActiveHasLease`) — under any faults |
| `RunsApart`, `ActiveJobsInHand`, `SubmissionLasts`, `Implements` (scenes, `MaxFaults = 0`) | runs of a job never overlap, active jobs are in hand, a submitted job never fails; refinement of `JobLifecycle` |
| `QueueInvariant`, `QueueSafe`, `ClaimsBounded`, `CompletionIsFinal` | the queue with open handlers, attempts bounded by the limits included (`AttemptsBounded`) |
| `ChatInvariant`, `ChatTypeCorrect`, `ImplementsQueue`, `ChatQueueSafe` | the conversation, and that it inherits what holds of the queue |
| `NoMessageForgotten`, `OneExtraction`, `CursorGoesOn`, `SummaryGoesOn` | the memory of the conversation |
| `AssetInvariant`, `AssetTypeCorrect`, `JobsHaveAttemptsLeft`, `OneImage`, `ReviewedImageApproved`, `DecisionStands` | assets under any overlaps and faults |
| `PromptResumed`, `RepeatedAttemptReplays` | assets until runs of a job overlap |
| `RevisionsNameCanons`, `ApprovalsAreFresh`, `KeysServeOnce`, `ReviewsImplementGate` | canon and review; refinement of `ReviewGate` |
| `OutlineHoldsTogether`, `OutlineComesApartOnlyByMoves` | the hierarchy |
| `ChoicesWork`, `HistoriesReplay` | release and runs |
| `HandlersUseQueue`, `MemoryReplacedOnce`, `CursorCovers` | memory and story handlers |
| `LimitKept`, `ImagesStored` | proactive messages, media |
| `UpdatesSeen`, `ShownIsStored` | the scene editor |
| `StrandedForGood`, `FinishedForGood`; `EndIsFinal`, `FirstAttemptNotLost` (`MaxFaults = 0`) | how far the violations of the scene runs reach |
| `AbandonedForGood`, `OnlyFaultsAbandon`, `MemoryStandsStill`, `NoNewExtraction` | what an abandoned job is, and what it stops |
| `RepeatsArePrefixes`, `ExtractedOnce`, `OnlyFirstRepeats` | which messages are extracted or summarised twice |
| `PromptsPaidFor` | what an asset costs, until runs overlap |
| `HandlersQueueSafe`, `CooldownReach` | the queue's promises to the handlers' jobs; when messages keep their cooldown |
| `PartsImplemented`, `StudioTypeCorrect`, `StudioSafe` | the studio is the sum of its parts and has the properties of each |

The arguments:

* *Scenes under faults.* `Safe` adds two facts to the invariants: a job that does not
  exist has attempts 0, and a run about to report success has submitted. The first
  carries `AttemptsLeft` over the insert, the second `SucceededHasCandidate`.
* *Scenes without faults.* That runs do not overlap rests on the names of messages.
  `QueueSteady` says that a message is in one place, that its consumer owns its
  lock, that no message is ahead of the job's attempts, and that those of earlier
  attempts are settled or held by runs that have already counted their attempt.
  Hence a run that has not counted works on the current attempt, and two such runs of one
  job would share a message (`CurrentAttempt`, `Alone`). `RunFits` and `JobFits` tie
  rows to labels; `Implements` reads the transition of the row off the label.
* *Queue.* A claim is identified by the attempts it was given: no two pumps run one
  claim (`ClaimsApart`), and whoever holds the row runs the latest (`RunFits`).
* *Conversation.* Every step is a step of the queue, so `QueueInv` comes for free.
  `Reached` says that an extraction starts after covered messages only, `StepFits` that
  past a handler's write its effect exists; together they carry `NothingSkipped` over
  the move of the cursor. `Gate` says that the one active extraction starts at the cursor
  or has moved it; `SummaryGate` says of summary jobs that one is active at most, that it
  starts at the end of the summary or has moved it, and that the run that may save has read the summary it replaces.
* *Assets.* `Carried` (a run about to report success has its image stored) and the fact that a
  candidate's image never changes give `OneImage`. `Solo` is the part for runs apart:
  one run per job (`Alone`), a run goes on only with the stored prompt (`OwnPrompt`), and a
  candidate shows it (`CandidateOfPrompt`). The awkward case is a job cancelled between
  ComfyUI's answer and its record: no prompt is stored, yet a candidate may be; then the job
  is over and no run of it can bring it back, which `Harmless` states and `OverStep` proves.
* *Canon.* `CanonInv` adds that a candidate was read from a revision there has been (`CandidatesFit`), that a
  key's effect is counted exactly when its request is saved (`KeysFit`), and that no two
  candidates made one revision (`ResultsApart`), which makes the author of a version unique in the refinement.
* *Outline.* Types and `NothingDangles` are inductive together, by the lemmas that say what a validated
  row names (`QuestRowValidated`, `SceneRowValidated`); the same lemmas carry the action property.
* *Release.* A replay is a function from positions to scene and state (`Path`); it starts
  with a run and grows with a choice. That a choice works in states the preflight never saw rests on
  the kinds of effect: whether one fails does not depend on the number it meets.
* *Handlers.* `QueueInv` is inherited through `HandlersUseQueue`. A run that is about to write and
  holds its job finds nothing written by an earlier run (`Unwritten`). All messages before a span are analysed
  or passed over when it is queued and stay so (`RangesBegin`), and the span itself is stored before the cursor moves (`Stored`),
  so the cursor may move either way (`CursorInv`).
* *Proactive messages, media.* A new message falls only into windows, of a day and of `Listed` + 1 messages, whose
  other messages the pump has counted (`WindowsKept`); that the numbers of the messages follow the clock is
  `Delivered`. `TaskFits` says that a worker renames a whole temporary file, and that a run
  that will answer has seen its name taken, which no step undoes.
* *Editor.* `EditorInv` says of every draft at hand, every save on the way and every record that its origin
  is the text of the edition it names, unless it was kept over a conflict. Editions only grow (`GrownFits`,
  `PublishFits`), so what fits goes on fitting; a save that is not stale names the last edition.

### How far the violations reach

A violated run shows one behaviour. These theorems say, for every size, what else can come of
the same defect, and what cannot:

* *`scene_dispatch`, `scene_lease`.* A stranded job stays stranded (`StrandedForGood`): a message is only ever made
  from a dispatch that is open, recovery needs a message, and nothing reopens the dispatch. Only a cancellation
  changes it, and then only its status. `FirstAttemptNotLost`: without faults it is always a retry that gets lost. The
  first message of a job is queued before any run of it can fail an attempt (`Untried`), so the pump's late write of
  `enqueued` meets an open dispatch only after a failed one.
* *`scene_cancel`.* What undoes a cancellation is a run that was under way. Once nobody executes the job, its status
  is final (`FinishedForGood`), under any faults. Success and failure are final even before that if nothing
  fails (`EndIsFinal`), since a run then finds its job running or cancelled.
* *`chat_stuck`.* An abandoned job is so for good (`AbandonedForGood`): its attempts are used up, so no claim takes it; it
  is not failed, so no retry does; no pump holds it, so none ends it. It takes a fault to get there (`OnlyFaultsAbandon`,
  from `ClaimedHasHolder`: a lease that runs out passes a job from a holder to a holder). An abandoned extraction stops the
  memory of its conversation: no reply enqueues another (`NoNewExtraction`), and until an operator retries a
  job by hand, cursor and batches stay as they are (`MemoryStandsStill`).
* *`chat_overlap`.* Two batches share messages only if one starts where the other does (`RepeatsArePrefixes`), and none do
  until an extraction has failed for good (`ExtractedOnce`). `LedgerInv` says that a batch ends at the cursor or before, or
  starts right after it; `MovedInv` that a run which is through has moved the cursor, and `OwnedInv` that, while
  none has failed, a batch ahead of the cursor is the active job's own. All until a retry by hand.
* *`chat_summary`.* Only the job of a conversation's first summary can save a second time (`OnlyFirstRepeats`): a later job
  carries the version it was made for (`SummaryBase`) and compares it with the one it has read (`SeenFits`).
* *Prompts.* An image is paid for by an attempt or a fault, but for one (`PromptsPaidFor`): an expired lease or a
  repeated delivery finds the stored prompt. `Books` keeps the account: a prompt no longer stored was given up by a
  failed attempt, and one never stored by a fault or by a cancellation that ends the job. The bound is
  reached; with overlapping runs it does not hold.
* *Cooldown.* The pump compares with the oldest message it has counted. A message that comes too soon after one that was
  counted for it therefore has a third behind it, counted too (`BehindOldest`), and with a limit of two the third would
  exceed the limit (`CooldownReach`). The default limit of the API is three. Towards a message that has
  dropped out of the listing no cooldown is kept.

Only model-checked: the liveness properties `ComesToRest` (liveness under fairness and
`ENABLED` are out of the prover's reach). Of the violated runs nothing is to be proved.

## 6. Not modelled, and why

* Text: prompts, parsers, the content of scenes, facts and summaries, wording of errors.
  No property here depends on them.
* `available_at` and the order of claims: they only delay a claim.
* The outbox in front of asset jobs: the same code as for scenes; leaving delivery open
  includes whatever it does.
* Payload checks of the workers that compare a queue message with its row: a message is
  made of the row, so the mismatch cannot occur.
* Time stamps in the comparison of a repeated asset review (`sameReview`) are abstracted, so
  its false conflict is listed as a hazard only.
* Series, ordinals, the bodies of blocks, search, diagnostics, selection of context, exports: they
  change no parent, reference or status, or only read.
* Companion settings and timelines, model profiles, call logs, configuration, migrations: rows with one writer
  and no protocol of their own. Chat streams live in one request and keep no row.
* Recall, scoring and similarity of the memory engines: they read.
* Messages out of order. `ChatMaintenance`, `MemoryHandlers` and `ProactiveMessages` number messages as they are
  committed. The code lists them by `createdAt`, taken before the transaction begins (of a proactive
  message in `maintenance-dispatch-pump.ts:260`): one that waits for the database while a reply is committed
  is listed before that reply, and if the reply is the last of an extraction, the cursor passes it. `NothingSkipped`
  and `NoMessageForgotten` hold as long as that does not happen.
* The mode `legacy_body` of `useSceneDocumentStore`: a scene edited as plain text. Only
  `StoryWorkspace` edits in it, and no route of the application mounts that view. The answer to a save leaves mode
  and plain text as they are (`useSceneDocumentStore.ts:239`), so in that mode text typed during a
  save would be shown as saved; `SavedIsStored` is about scenes edited as blocks.
* Relationship and event consequences of choices, and further state variables: they gate
  nothing, or behave like those that are modelled.
* The rest of the web client: views that fetch and post without a state machine of their own. V1, scripts and
  infrastructure.

What was seen on the way, and no property speaks of:

* A candidate with an empty list of sources is approved on any canon, whatever base revision it names.
* A scene job cancelled while its run waits for the model still has its candidate submitted.
* A character candidate whose changes were requested can never be decided again, since its review wants `pending`.
* Blocks are stored with `ON CONFLICT(block_id)`: a block id of another scene is taken over.
* `updateScene` rewrites title and body without the scene's own revision, which the workbench relies on.
* Loading a save drops character and relationship state, although the save has kept them.
* The cooldown of the pump looks at the oldest message of the day it lists; it is kept only with a limit of two
  (section 5, `CooldownReach`).
* The outline reads the world's revision from `v2_story_worlds`, which does not exist, and reports 1. A workbench
  that has fetched it is refused its saves, in a world beyond revision 1, until another write's answer arrives.
  The client takes every 409 for a conflict, and keeping the draft does not refresh the known revision.
* A new scene, a template and the browser's history choose a scene past the navigation guard, and the load that follows
  replaces a dirty draft; so does an answer that arrives while the author types. `docs/PROGRESS.md:17` claims
  protection against the loss of drafts.
* After a draft was kept over a conflict, `discardChanges` shows the older text under the newer revision.

## 7. What is left

1. `MemoryHandlers`, `ProactiveMessages` and `ChatMaintenance` on one queue: `MaintenanceQueue` takes any handler, so a
   joint instance would ask about starvation only (order of claims, `available_at`).
2. Liveness of `MemoryHandlers` in the manner of `ComesToRest`, and the dispatch outbox in front of assets.
3. The world's revision as one variable of `CanonReview`, `NarrativeOutline` and `SceneEditor`: the
   parts of the studio then become a product, with smaller bounds.
4. A tab's other stores (outline, references, candidates), which share its known revision.
