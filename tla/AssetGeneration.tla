--------------------------- MODULE AssetGeneration ---------------------------
(***************************************************************************)
(* Image generation of the V2 platform: from the API request over a prompt *)
(* of the external ComfyUI service to a candidate image, its review by the *)
(* creator and the approved asset.                                         *)
(*                                                                         *)
(*   - the API creates and cancels jobs and records reviews                *)
(*     (api/src/v2/generation/plugin.ts);                                  *)
(*   - SQLite holds jobs, candidates and approved assets                   *)
(*     (database/src/v2/generation/asset-repository.ts);                   *)
(*   - a worker runs processV2AssetGenerationJob                           *)
(*     (worker/src/v2/asset-generation-worker.ts).                         *)
(*                                                                         *)
(* The outbox, its pump and BullMQ are those of scene generation, which    *)
(* SceneGeneration models in full.  Here the delivery of a job is left     *)
(* open: any job may be delivered at any time, any number of times, which  *)
(* includes all that pump and queue can do.  One step is one SQL statement *)
(* or transaction, or one call of ComfyUI.                                 *)
(***************************************************************************)
EXTENDS Naturals

CONSTANTS
  Jobs,         \* asset jobs (one per idempotency key)
  NoJob,        \* "no job"
  Seeded,       \* the jobs whose prompts all give the same image
  Workers,      \* concurrent runs of the job processor
  MaxAttempts,  \* maxAttempts of every job
  MaxOverlaps,  \* bound on deliveries of a job that a run still holds
  MaxFaults     \* bound on crashes and failing statements

ASSUME AssetAssumption ==
  /\ NoJob \notin Jobs
  /\ Seeded \subseteq Jobs
  /\ MaxAttempts \in Nat \ {0}
  /\ MaxOverlaps \in Nat
  /\ MaxFaults \in Nat

VARIABLES
  status,       \* v2_asset_generation_jobs.status, "absent" before the insert
  attempts,     \* attempts
  lease,        \* lease_expires_at: "none" (NULL), "live" or "expired"
  external,     \* external_job_id: the number of a prompt, 0 for NULL
  media,        \* media_ref of the job, 0 for NULL
  candidate,    \* v2_asset_candidates: the candidate of the job
  asset,        \* v2_approved_assets: media_ref of the job's asset, 0 for none
  prompts,      \* ComfyUI: prompts it has accepted for the job
  exec,         \* runs of processV2AssetGenerationJob
  overlaps,     \* overlapping deliveries so far
  faults        \* faults so far

jobRow == <<status, attempts, lease, external, media>>
vars   == <<status, attempts, lease, external, media, candidate, asset, prompts,
            exec, overlaps, faults>>

Statuses == {"absent", "queued", "claimed", "running",
             "succeeded", "failed", "cancelled"}

NoCandidate == [status |-> "absent", image |-> 0]

(* external: externalJobId of the run.  image: what it has fetched.  seen: *)
(* the attempts markAssetJobFailed has read.                               *)
IdleRun == [pc |-> "idle", job |-> NoJob, external |-> 0, image |-> 0,
            seen |-> 0, retryable |-> FALSE]

Labels == {"idle", "load", "claim", "run", "submit", "submitted", "result",
           "candidate", "succeed", "failRead", "failWrite"}

Init ==
  /\ status = [j \in Jobs |-> "absent"]
  /\ attempts = [j \in Jobs |-> 0]
  /\ lease = [j \in Jobs |-> "none"]
  /\ external = [j \in Jobs |-> 0]
  /\ media = [j \in Jobs |-> 0]
  /\ candidate = [j \in Jobs |-> NoCandidate]
  /\ asset = [j \in Jobs |-> 0]
  /\ prompts = [j \in Jobs |-> 0]
  /\ exec = [w \in Workers |-> IdleRun]
  /\ overlaps = 0
  /\ faults = 0

Fault == faults < MaxFaults /\ faults' = faults + 1

-----------------------------------------------------------------------------
(* The API.                                                                *)

(* A request repeated under the same key returns the stored row.           *)
createAssetJob(j) ==
  /\ status[j] = "absent"
  /\ status' = [status EXCEPT ![j] = "queued"]
  /\ UNCHANGED <<attempts, lease, external, media, candidate, asset, prompts,
                 exec, overlaps, faults>>

cancelAssetJob(j) ==
  /\ status[j] \in {"queued", "claimed", "running"}
  /\ status' = [status EXCEPT ![j] = "cancelled"]
  /\ UNCHANGED <<attempts, lease, external, media, candidate, asset, prompts,
                 exec, overlaps, faults>>

(* What assertV2ReviewTransition lets a review make of a candidate.        *)
reviewTransitions(from) ==
  CASE from = "pending" -> {"approved", "rejected", "changes_requested"}
    [] from = "changes_requested" -> {"approved", "rejected"}
    [] OTHER -> {}

(* One transaction: the candidate, and the asset when it is approved.  A   *)
(* review under a key that was used before changes nothing.                *)
reviewAssetCandidate(j, to) ==
  /\ to \in reviewTransitions(candidate[j].status)
  /\ candidate' = [candidate EXCEPT ![j].status = to]
  /\ asset' = [asset EXCEPT ![j] = IF to = "approved" THEN candidate[j].image ELSE @]
  /\ UNCHANGED <<jobRow, prompts, exec, overlaps, faults>>

(* The clock passes lease_expires_at.                                      *)
leaseExpires(j) ==
  /\ status[j] \in {"claimed", "running"}
  /\ lease[j] = "live"
  /\ lease' = [lease EXCEPT ![j] = "expired"]
  /\ UNCHANGED <<status, attempts, external, media, candidate, asset, prompts,
                 exec, overlaps, faults>>

-----------------------------------------------------------------------------
(* processV2AssetGenerationJob.                                            *)

Goto(w, label) == exec' = [exec EXCEPT ![w].pc = label]

End(w) == exec' = [exec EXCEPT ![w] = IdleRun]

(* The catch block, for an error that is retryable or not.                 *)
Catch(w, r) == exec' = [exec EXCEPT ![w].pc = "failRead", ![w].retryable = r]

(* The queue hands a job to a run.  While another run still holds the job  *)
(* that takes a lost lock, and counts as an overlap.                       *)
deliver(w, j) ==
  /\ exec[w].pc = "idle"
  /\ status[j] # "absent"
  /\ IF \E v \in Workers : exec[v].job = j
     THEN overlaps < MaxOverlaps /\ overlaps' = overlaps + 1
     ELSE UNCHANGED overlaps
  /\ exec' = [exec EXCEPT ![w].pc = "load", ![w].job = j]
  /\ UNCHANGED <<jobRow, candidate, asset, prompts, faults>>

(* getAssetJob and recoverExpiredAssetJobLease; then terminal and active   *)
(* jobs are skipped.  The external job id survives the recovery.  (The     *)
(* queue payload is made of the row, so it always matches the row.)        *)
load(w) ==
  LET j       == exec[w].job
      expired == status[j] \in {"claimed", "running"} /\ lease[j] = "expired"
      now     == IF expired THEN "queued" ELSE status[j]
  IN
  /\ exec[w].pc = "load"
  /\ status' = [status EXCEPT ![j] = now]
  /\ lease' = [lease EXCEPT ![j] = IF expired THEN "none" ELSE @]
  /\ IF now = "queued" THEN Goto(w, "claim") ELSE End(w)
  /\ UNCHANGED <<attempts, external, media, candidate, asset, prompts, overlaps, faults>>

markAssetJobClaimed(w) ==
  LET j   == exec[w].job
      now == IF status[j] = "queued" THEN "claimed" ELSE status[j]
  IN
  /\ exec[w].pc = "claim"
  /\ status' = [status EXCEPT ![j] = now]
  /\ lease' = [lease EXCEPT ![j] = IF status[j] = "queued" THEN "live" ELSE @]
  /\ IF now = "claimed" THEN Goto(w, "run") ELSE End(w)
  /\ UNCHANGED <<attempts, external, media, candidate, asset, prompts, overlaps, faults>>

(* Mutant: the run does not take up the prompt of an earlier one.          *)
ResumeNever(w, j) == Goto(w, "submit")

(* Mutant: a missing external job id is not looked for.                    *)
ResumeBlindly(w, j) ==
  exec' = [exec EXCEPT ![w].pc = "result", ![w].external = external[j]]

(* The row read last says whether a prompt is under way.                   *)
Resume(w, j) ==
  exec' = [exec EXCEPT ![w].pc = IF external[j] = 0 THEN "submit" ELSE "result",
                       ![w].external = external[j]]

markAssetJobRunning(w) ==
  LET j   == exec[w].job
      now == IF status[j] = "claimed" THEN "running" ELSE status[j]
  IN
  /\ exec[w].pc = "run"
  /\ status' = [status EXCEPT ![j] = now]
  /\ IF now = "running" THEN Resume(w, j) ELSE End(w)
  /\ UNCHANGED <<attempts, lease, external, media, candidate, asset, prompts,
                 overlaps, faults>>

(* ComfyUI refuses the prompt; or accepts it, and the answer arrives, is   *)
(* lost to a timeout (retryable) or names no prompt (not retryable).       *)
submit(w) ==
  LET j == exec[w].job IN
  /\ exec[w].pc = "submit"
  /\ \/ /\ prompts' = [prompts EXCEPT ![j] = @ + 1]
        /\ \/ exec' = [exec EXCEPT ![w].pc = "submitted", ![w].external = prompts[j] + 1]
           \/ \E r \in BOOLEAN : Catch(w, r)
     \/ /\ \E r \in BOOLEAN : Catch(w, r)
        /\ UNCHANGED prompts
  /\ UNCHANGED <<jobRow, candidate, asset, overlaps, faults>>

(* Mutant: the external job id is kept in memory only.                     *)
markAssetJobSubmittedUnsaved(w) ==
  /\ exec[w].pc = "submitted"
  /\ Goto(w, "result")
  /\ UNCHANGED <<jobRow, candidate, asset, prompts, overlaps, faults>>

markAssetJobSubmitted(w) ==
  LET j == exec[w].job IN
  /\ exec[w].pc = "submitted"
  /\ external' = [external EXCEPT ![j] = IF status[j] = "running" THEN exec[w].external ELSE @]
  /\ Goto(w, "result")
  /\ UNCHANGED <<status, attempts, lease, media, candidate, asset, prompts, overlaps, faults>>

(* The media store names an image by its content.                          *)
Image(j, n) == IF j \in Seeded THEN 1 ELSE n

(* The history of the prompt has an image and the media store keeps it; or *)
(* one of the two throws, in particular while ComfyUI is not ready.        *)
getResult(w) ==
  /\ exec[w].pc = "result"
  /\ \/ exec' = [exec EXCEPT ![w].pc = "candidate",
                             ![w].image = Image(exec[w].job, exec[w].external)]
     \/ \E r \in BOOLEAN : Catch(w, r)
  /\ UNCHANGED <<jobRow, candidate, asset, prompts, overlaps, faults>>

(* Mutant: an existing candidate counts as stored, whatever its image.     *)
anyCandidate(c, image) == c.status = "pending"

(* sameCandidate: the new candidate is pending, with this image.           *)
sameCandidate(c, image) == c.status = "pending" /\ c.image = image

(* Mutant: a stored candidate is replaced.                                 *)
createAssetCandidateUpsert(w) ==
  /\ exec[w].pc = "candidate"
  /\ candidate' = [candidate EXCEPT ![exec[w].job] =
                     [status |-> "pending", image |-> exec[w].image]]
  /\ Goto(w, "succeed")
  /\ UNCHANGED <<jobRow, asset, prompts, overlaps, faults>>

(* Mutant: a stored candidate is given the new image.                      *)
createAssetCandidateRefresh(w) ==
  LET j == exec[w].job IN
  /\ exec[w].pc = "candidate"
  /\ candidate' = [candidate EXCEPT ![j].image = exec[w].image,
                     ![j].status = IF @ = "absent" THEN "pending" ELSE @]
  /\ Goto(w, "succeed")
  /\ UNCHANGED <<jobRow, asset, prompts, overlaps, faults>>

(* One transaction.  The candidate's id is the job's, so a second one is a *)
(* replay when it is the same and an error, never retried, when not.       *)
createAssetCandidate(w) ==
  LET j == exec[w].job
      c == candidate[j]
  IN
  /\ exec[w].pc = "candidate"
  /\ candidate' = [candidate EXCEPT ![j] =
       IF c.status = "absent" THEN [status |-> "pending", image |-> exec[w].image] ELSE @]
  /\ IF c.status = "absent" \/ sameCandidate(c, exec[w].image)
     THEN Goto(w, "succeed") ELSE Catch(w, FALSE)
  /\ UNCHANGED <<jobRow, asset, prompts, overlaps, faults>>

markAssetJobSucceeded(w) ==
  LET j == exec[w].job IN
  /\ exec[w].pc = "succeed"
  /\ IF status[j] = "running"
     THEN /\ status' = [status EXCEPT ![j] = "succeeded"]
          /\ media' = [media EXCEPT ![j] = exec[w].image]
     ELSE UNCHANGED <<status, media>>
  /\ End(w)
  /\ UNCHANGED <<attempts, lease, external, candidate, asset, prompts, overlaps, faults>>

(* markAssetJobFailed is a SELECT and an UPDATE outside a transaction, and *)
(* the UPDATE has no condition on the status.  (A third statement reopens  *)
(* the dispatch.)                                                          *)
readAttempts(w) ==
  /\ exec[w].pc = "failRead"
  /\ exec' = [exec EXCEPT ![w].pc = "failWrite", ![w].seen = attempts[exec[w].job]]
  /\ UNCHANGED <<jobRow, candidate, asset, prompts, overlaps, faults>>

(* Mutant: the attempt that reaches maxAttempts is retried as well.        *)
shouldRetryInclusive(r, n) == r /\ n <= MaxAttempts

shouldRetry(r, n) == r /\ n < MaxAttempts

markAssetJobFailed(w) ==
  LET j == exec[w].job
      n == exec[w].seen + 1
  IN
  /\ exec[w].pc = "failWrite"
  /\ status' = [status EXCEPT ![j] =
       IF shouldRetry(exec[w].retryable, n) THEN "queued" ELSE "failed"]
  /\ attempts' = [attempts EXCEPT ![j] = n]
  /\ lease' = [lease EXCEPT ![j] = "none"]
  /\ End(w)
  /\ UNCHANGED <<external, media, candidate, asset, prompts, overlaps, faults>>

(* A statement throws: inside the try block that is a failed attempt, and  *)
(* outside it the processor rejects.                                       *)
statementFails(w) ==
  /\ Fault
  /\ \/ exec[w].pc \in {"load", "claim", "run", "failRead", "failWrite"} /\ End(w)
     \/ exec[w].pc \in {"submitted", "candidate", "succeed"} /\ Catch(w, FALSE)
  /\ UNCHANGED <<jobRow, candidate, asset, prompts, overlaps>>

(* The worker's process dies.                                              *)
workerCrash(w) ==
  /\ Fault
  /\ exec[w].pc # "idle"
  /\ End(w)
  /\ UNCHANGED <<jobRow, candidate, asset, prompts, overlaps>>

-----------------------------------------------------------------------------
Api(j) ==
  \/ createAssetJob(j) \/ cancelAssetJob(j) \/ leaseExpires(j)
  \/ \E to \in {"approved", "rejected", "changes_requested"} : reviewAssetCandidate(j, to)

WorkerStep(w) ==
  \/ load(w) \/ markAssetJobClaimed(w) \/ markAssetJobRunning(w)
  \/ submit(w) \/ markAssetJobSubmitted(w) \/ getResult(w)
  \/ createAssetCandidate(w) \/ markAssetJobSucceeded(w)
  \/ readAttempts(w) \/ markAssetJobFailed(w)
  \/ statementFails(w) \/ workerCrash(w)

Next ==
  \/ \E j \in Jobs : Api(j)
  \/ \E w \in Workers : WorkerStep(w)
  \/ \E w \in Workers, j \in Jobs : deliver(w, j)

Spec == Init /\ [][Next]_vars

-----------------------------------------------------------------------------
(* Properties.                                                             *)

Runs == [pc : Labels, job : Jobs \cup {NoJob}, external : Nat, image : Nat,
         seen : Nat, retryable : BOOLEAN]

RowsOK ==
  /\ status \in [Jobs -> Statuses]
  /\ attempts \in [Jobs -> Nat]
  /\ lease \in [Jobs -> {"none", "live", "expired"}]
  /\ external \in [Jobs -> Nat]
  /\ media \in [Jobs -> Nat]
  /\ asset \in [Jobs -> Nat]
  /\ prompts \in [Jobs -> Nat]

CandidatesOK ==
  candidate \in [Jobs -> [status : {"absent", "pending", "approved", "rejected",
                                    "changes_requested"}, image : Nat]]

(* A run works on a prompt that ComfyUI knows.                             *)
RunsOK ==
  /\ exec \in [Workers -> Runs]
  /\ \A w \in Workers :
       /\ exec[w].pc # "idle" <=> exec[w].job # NoJob
       /\ exec[w].pc \in {"submitted", "result", "candidate", "succeed"}
            => exec[w].external \in 1..prompts[exec[w].job]

(* The rows and the runs keep their shape.                                 *)
TypeOK ==
  /\ RowsOK /\ CandidatesOK /\ RunsOK
  /\ overlaps \in 0..MaxOverlaps
  /\ faults \in 0..MaxFaults

(* A job that can still run has an attempt left: markAssetJobFailed writes *)
(* over any status, from attempts it read earlier.                         *)
AttemptsLeft ==
  \A j \in Jobs : status[j] \in {"queued", "claimed", "running"} => attempts[j] < MaxAttempts

(* The image a succeeded job reports is the image of its candidate, also   *)
(* when several runs have fetched the images of several prompts.           *)
SucceededCarriesCandidate ==
  \A j \in Jobs : status[j] = "succeeded" =>
    /\ candidate[j].status # "absent"
    /\ media[j] = candidate[j].image

(* A candidate is approved exactly when its asset exists, and the asset is *)
(* the image that was under review.                                        *)
AssetIsReviewedImage ==
  \A j \in Jobs : asset[j] = IF candidate[j].status = "approved" THEN candidate[j].image ELSE 0

(* The decision of the creator stands: no late run of the job and no       *)
(* second review changes a decided candidate or its asset.                 *)
ReviewStands ==
  [][\A j \in Jobs : candidate[j].status \in {"approved", "rejected"} =>
       candidate'[j] = candidate[j] /\ asset'[j] = asset[j]]_vars

(* Runs that do not overlap take up the prompt that is under way: once its *)
(* id is stored, ComfyUI is not asked again, whatever crashes or fails.    *)
NoSecondPrompt ==
  [][\A j \in Jobs : overlaps = 0 /\ external[j] # 0 => prompts'[j] = prompts[j]]_vars

(* Runs that do not overlap bring the image of the candidate that waits    *)
(* for review, so a repeated attempt is a replay and never a conflict that *)
(* fails the job.                                                          *)
RerunReplays ==
  overlaps = 0 => \A w \in Workers :
    LET j == exec[w].job IN
    exec[w].pc = "candidate" /\ candidate[j].status = "pending"
      => sameCandidate(candidate[j], exec[w].image)
=============================================================================
