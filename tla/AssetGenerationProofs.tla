------------------------ MODULE AssetGenerationProofs ------------------------
(***************************************************************************)
(* What is proved of AssetGeneration, for any jobs, workers and bounds.    *)
(*                                                                         *)
(* The inductive invariant AssetInv has a part that holds whatever is      *)
(* delivered (TypeOK, AttemptsLeft, Known, Carried, AssetIsReviewedImage)  *)
(* and a part, Solo, for runs that never overlap.  The last section counts *)
(* the prompts of such runs against their attempts and faults.             *)
(***************************************************************************)
EXTENDS AssetGeneration, TLAPS

Active == {"queued", "claimed", "running"}

Over == {"succeeded", "failed", "cancelled"}

(* A prompt whose id is stored was accepted, a job that does not exist has *)
(* no attempts, and a run works on a job that does.                        *)
Known ==
  /\ \A j \in Jobs : external[j] <= prompts[j]
  /\ \A j \in Jobs : status[j] = "absent" => attempts[j] = 0
  /\ \A w \in Workers : exec[w].job # NoJob => status[exec[w].job] # "absent"

(* A run that is about to report success has seen its image stored.        *)
Carried ==
  \A w \in Workers : exec[w].pc = "succeed" =>
    /\ candidate[exec[w].job].status # "absent"
    /\ candidate[exec[w].job].image = exec[w].image

(* A run fetches the image of its own prompt.                              *)
Fetched ==
  \A w \in Workers : exec[w].pc = "candidate" =>
    exec[w].image = Image(exec[w].job, exec[w].external)

(* No two runs are at work on the same job.                                *)
Alone ==
  \A v, w \in Workers : exec[v].job = exec[w].job /\ exec[v].job # NoJob => v = w

(* A prompt is submitted only while none is known; a run that goes on      *)
(* works on the stored prompt, unless the job was cancelled before the id  *)
(* could be stored.                                                        *)
OwnPrompt ==
  \A w \in Workers :
    LET j == exec[w].job IN
    /\ exec[w].pc \in {"submit", "submitted"} =>
         external[j] = 0 /\ status[j] \in {"running", "cancelled"}
    /\ exec[w].pc \in {"result", "candidate"} =>
         IF external[j] = 0 THEN status[j] \in Over
                            ELSE exec[w].external = external[j]

(* A run that cannot bring a job back into the queue or to a new prompt.   *)
Harmless(w) ==
  \/ exec[w].pc \in {"load", "claim", "succeed"}
  \/ exec[w].pc \in {"failRead", "failWrite"} /\ ~exec[w].retryable

(* The candidate shows the stored prompt; or none is stored, because the   *)
(* job was cancelled, and then nothing brings the job back.                *)
CandidateOfPrompt ==
  \A j \in Jobs : candidate[j].status # "absent" =>
    IF external[j] = 0
    THEN status[j] \in Over /\ \A w \in Workers : exec[w].job = j => Harmless(w)
    ELSE candidate[j].image = Image(j, external[j])

Solo == overlaps = 0 => Alone /\ OwnPrompt /\ CandidateOfPrompt

AssetInv ==
  /\ TypeOK /\ AttemptsLeft /\ Known
  /\ Carried /\ SucceededCarriesCandidate /\ AssetIsReviewedImage
  /\ Fetched /\ Solo

-----------------------------------------------------------------------------
USE AssetAssumption

(* The invariant holds before any job is created.                          *)
LEMMA InitInv == Init => AssetInv
  BY DEF Init, AssetInv, TypeOK, RowsOK, CandidatesOK, RunsOK, Runs, Labels, IdleRun,
         NoCandidate, Statuses, AttemptsLeft, Known, Carried, SucceededCarriesCandidate,
         AssetIsReviewedImage, Fetched, Solo, Alone, OwnPrompt, CandidateOfPrompt

(* What a step does to a run w: it goes on at label l, or ends, and leaves *)
(* the other runs alone.                                                   *)
Others(w) == exec' \in [Workers -> Runs] /\ \A v \in Workers \ {w} : exec'[v] = exec[v]

Moves(w, l, e, i, b) ==
  /\ Others(w)
  /\ exec'[w].job = exec[w].job
  /\ exec'[w].pc = l
  /\ exec'[w].external = e
  /\ exec'[w].image = i
  /\ exec'[w].retryable = b

Ends(w) == Others(w) /\ exec'[w].pc = "idle" /\ exec'[w].job = NoJob

(* The run that results from a step, put together field by field.          *)
LEMMA Replaced ==
  ASSUME RunsOK, NEW w \in Workers, NEW r \in Runs, exec' = [exec EXCEPT ![w] = r]
  PROVE  Others(w) /\ exec'[w] = r
  BY DEF RunsOK, Others

(* The types of the fields of a run.                                      *)
LEMMA Fields ==
  ASSUME RunsOK, NEW w \in Workers
  PROVE  /\ exec[w].pc \in Labels /\ exec[w].job \in Jobs \cup {NoJob}
         /\ exec[w].external \in Nat /\ exec[w].image \in Nat /\ exec[w].seen \in Nat
         /\ exec[w].retryable \in BOOLEAN
         /\ exec[w].pc # "idle" => exec[w].job \in Jobs
  BY DEF RunsOK, Runs

(* A run goes on.                                                         *)
LEMMA Moved ==
  ASSUME RunsOK, NEW w \in Workers, NEW l \in Labels,
         Goto(w, l)
  PROVE  Moves(w, l, exec[w].external, exec[w].image, exec[w].retryable)
<1> DEFINE r == [exec[w] EXCEPT !.pc = l]
<1>1. /\ r \in Runs
      /\ r.pc = l /\ r.job = exec[w].job /\ r.external = exec[w].external
      /\ r.image = exec[w].image /\ r.retryable = exec[w].retryable
  BY DEF RunsOK, Runs, Labels
<1>2. exec' = [exec EXCEPT ![w] = r]
  BY DEF Goto
<1> HIDE DEF r
<1> QED
  BY <1>1, <1>2, Replaced DEF Moves

(* An error is caught.                                                    *)
LEMMA Caught ==
  ASSUME RunsOK, NEW w \in Workers, NEW b \in BOOLEAN,
         Catch(w, b)
  PROVE  Moves(w, "failRead", exec[w].external, exec[w].image, b)
<1> DEFINE r == [exec[w] EXCEPT !.pc = "failRead", !.retryable = b]
<1>1. /\ r \in Runs
      /\ r.pc = "failRead" /\ r.job = exec[w].job /\ r.external = exec[w].external
      /\ r.image = exec[w].image /\ r.retryable = b
  BY DEF RunsOK, Runs, Labels
<1>2. exec' = [exec EXCEPT ![w] = r]
  BY DEF Catch
<1> HIDE DEF r
<1> QED
  BY <1>1, <1>2, Replaced DEF Moves

(* A run is over.                                                          *)
LEMMA Ended ==
  ASSUME RunsOK, NEW w \in Workers, End(w)
  PROVE  Ends(w)
<1>1. IdleRun \in Runs /\ IdleRun.pc = "idle" /\ IdleRun.job = NoJob
  BY DEF IdleRun, Runs, Labels
<1> QED
  BY <1>1, Replaced DEF End, Ends

(* A run takes up the prompt e.                                            *)
LEMMA Continued ==
  ASSUME RunsOK, NEW w \in Workers, NEW l \in Labels, NEW e \in Nat,
         exec' = [exec EXCEPT ![w].pc = l, ![w].external = e]
  PROVE  Moves(w, l, e, exec[w].image, exec[w].retryable)
<1> DEFINE r == [exec[w] EXCEPT !.pc = l, !.external = e]
<1>1. /\ r \in Runs
      /\ r.pc = l /\ r.job = exec[w].job /\ r.external = e
      /\ r.image = exec[w].image /\ r.retryable = exec[w].retryable
  BY DEF RunsOK, Runs, Labels
<1>2. exec' = [exec EXCEPT ![w] = r]
  OBVIOUS
<1> HIDE DEF r
<1> QED
  BY <1>1, <1>2, Replaced DEF Moves

(* A run has fetched the image i.                                          *)
LEMMA Fetching ==
  ASSUME RunsOK, NEW w \in Workers, NEW i \in Nat,
         exec' = [exec EXCEPT ![w].pc = "candidate", ![w].image = i]
  PROVE  Moves(w, "candidate", exec[w].external, i, exec[w].retryable)
<1> DEFINE r == [exec[w] EXCEPT !.pc = "candidate", !.image = i]
<1>1. /\ r \in Runs
      /\ r.pc = "candidate" /\ r.job = exec[w].job /\ r.external = exec[w].external
      /\ r.image = i /\ r.retryable = exec[w].retryable
  BY DEF RunsOK, Runs, Labels
<1>2. exec' = [exec EXCEPT ![w] = r]
  OBVIOUS
<1> HIDE DEF r
<1> QED
  BY <1>1, <1>2, Replaced DEF Moves

(* A run has read the attempts of its job.                                 *)
LEMMA Read ==
  ASSUME RunsOK, NEW w \in Workers, NEW s \in Nat,
         exec' = [exec EXCEPT ![w].pc = "failWrite", ![w].seen = s]
  PROVE  Moves(w, "failWrite", exec[w].external, exec[w].image, exec[w].retryable)
<1> DEFINE r == [exec[w] EXCEPT !.pc = "failWrite", !.seen = s]
<1>1. /\ r \in Runs
      /\ r.pc = "failWrite" /\ r.job = exec[w].job /\ r.external = exec[w].external
      /\ r.image = exec[w].image /\ r.retryable = exec[w].retryable
  BY DEF RunsOK, Runs, Labels
<1>2. exec' = [exec EXCEPT ![w] = r]
  OBVIOUS
<1> HIDE DEF r
<1> QED
  BY <1>1, <1>2, Replaced DEF Moves

(* A run is given a job.                                                   *)
LEMMA Delivered ==
  ASSUME RunsOK, NEW w \in Workers, NEW j \in Jobs,
         exec' = [exec EXCEPT ![w].pc = "load", ![w].job = j]
  PROVE  Others(w) /\ exec'[w].pc = "load" /\ exec'[w].job = j
<1> DEFINE r == [exec[w] EXCEPT !.pc = "load", !.job = j]
<1>1. r \in Runs /\ r.pc = "load" /\ r.job = j
  BY DEF RunsOK, Runs, Labels
<1>2. exec' = [exec EXCEPT ![w] = r]
  OBVIOUS
<1> HIDE DEF r
<1> QED
  BY <1>1, <1>2, Replaced

(* The shape of the rows of the store and of the counters.                 *)
Rows == RowsOK /\ CandidatesOK /\ overlaps \in 0..MaxOverlaps /\ faults \in 0..MaxFaults

(* The rows keep their shape, and prompts are never taken back.            *)
LEMMA RowsStep ==
  TypeOK /\ [Next]_vars => Rows' /\ \A j \in Jobs : prompts[j] <= prompts'[j]
<1> DEFINE Grown == \A j \in Jobs : prompts[j] <= prompts'[j]
<1> SUFFICES ASSUME TypeOK, [Next]_vars PROVE Rows' /\ Grown
  OBVIOUS
<1>0. RunsOK
  BY DEF TypeOK
<1> USE DEF TypeOK, Rows, RowsOK, CandidatesOK, Statuses, jobRow
<1>1. CASE UNCHANGED vars
  BY <1>1 DEF vars
<1>2. ASSUME NEW j \in Jobs, createAssetJob(j) PROVE Rows' /\ Grown
  BY <1>0, <1>2, Fields DEF createAssetJob
<1>3. ASSUME NEW j \in Jobs, cancelAssetJob(j) PROVE Rows' /\ Grown
  BY <1>0, <1>3, Fields DEF cancelAssetJob
<1>4. ASSUME NEW j \in Jobs, leaseExpires(j) PROVE Rows' /\ Grown
  BY <1>0, <1>4, Fields DEF leaseExpires
<1>5. ASSUME NEW j \in Jobs, NEW to \in {"approved", "rejected", "changes_requested"},
           reviewAssetCandidate(j, to)
     PROVE Rows' /\ Grown
  BY <1>0, <1>5, Fields DEF reviewAssetCandidate
<1>6. ASSUME NEW w \in Workers, load(w) PROVE Rows' /\ Grown
  BY <1>0, <1>6, Fields DEF load
<1>7. ASSUME NEW w \in Workers, markAssetJobClaimed(w) PROVE Rows' /\ Grown
  BY <1>0, <1>7, Fields DEF markAssetJobClaimed
<1>8. ASSUME NEW w \in Workers, markAssetJobRunning(w) PROVE Rows' /\ Grown
  BY <1>0, <1>8, Fields DEF markAssetJobRunning
<1>9. ASSUME NEW w \in Workers, submit(w) PROVE Rows' /\ Grown
  <2>1. exec[w].job \in Jobs
    BY <1>0, <1>9, Fields DEF submit
  <2>2. prompts' = [prompts EXCEPT ![exec[w].job] = @ + 1] \/ UNCHANGED prompts
    BY <1>9 DEF submit
  <2>3. UNCHANGED <<jobRow, candidate, asset, overlaps, faults>>
    BY <1>9 DEF submit
  <2> QED
    BY <2>1, <2>2, <2>3
<1>10. ASSUME NEW w \in Workers, markAssetJobSubmitted(w) PROVE Rows' /\ Grown
  BY <1>0, <1>10, Fields DEF markAssetJobSubmitted
<1>11. ASSUME NEW w \in Workers, getResult(w) PROVE Rows' /\ Grown
  BY <1>0, <1>11, Fields DEF getResult
<1>12. ASSUME NEW w \in Workers, createAssetCandidate(w) PROVE Rows' /\ Grown
  BY <1>0, <1>12, Fields DEF createAssetCandidate
<1>13. ASSUME NEW w \in Workers, markAssetJobSucceeded(w) PROVE Rows' /\ Grown
  BY <1>0, <1>13, Fields DEF markAssetJobSucceeded
<1>14. ASSUME NEW w \in Workers, readAttempts(w) PROVE Rows' /\ Grown
  BY <1>0, <1>14, Fields DEF readAttempts
<1>15. ASSUME NEW w \in Workers, markAssetJobFailed(w) PROVE Rows' /\ Grown
  BY <1>0, <1>15, Fields DEF markAssetJobFailed
<1>16. ASSUME NEW w \in Workers, statementFails(w) PROVE Rows' /\ Grown
  BY <1>0, <1>16, Fields DEF statementFails, Fault
<1>17. ASSUME NEW w \in Workers, workerCrash(w) PROVE Rows' /\ Grown
  BY <1>0, <1>17, Fields DEF workerCrash, Fault
<1>18. ASSUME NEW w \in Workers, NEW j \in Jobs, deliver(w, j) PROVE Rows' /\ Grown
  BY <1>0, <1>18, Fields DEF deliver
<1> QED
  BY <1>1, <1>2, <1>3, <1>4, <1>5, <1>6, <1>7, <1>8, <1>9,
     <1>10, <1>11, <1>12, <1>13, <1>14, <1>15, <1>16, <1>17, <1>18 DEF Next, Api, WorkerStep

(* The four steps of a run that take something up from a row or a call.    *)
LEMMA RunningEffect ==
  ASSUME RunsOK, RowsOK, NEW w \in Workers, markAssetJobRunning(w)
  PROVE  \/ Ends(w)
         \/ /\ external[exec[w].job] = 0
            /\ status'[exec[w].job] = "running"
            /\ Moves(w, "submit", external[exec[w].job], exec[w].image, exec[w].retryable)
         \/ /\ external[exec[w].job] # 0
            /\ Moves(w, "result", external[exec[w].job], exec[w].image, exec[w].retryable)
<1>1. CASE End(w)
  BY <1>1, Ended
<1>2. CASE status'[exec[w].job] = "running" /\ Resume(w, exec[w].job)
  <2> DEFINE l == IF external[exec[w].job] = 0 THEN "submit" ELSE "result"
  <2>1. l \in Labels /\ external[exec[w].job] \in Nat
    BY Fields DEF Labels, RowsOK, markAssetJobRunning
  <2>2. exec' = [exec EXCEPT ![w].pc = l, ![w].external = external[exec[w].job]]
    BY <1>2 DEF Resume
  <2>3. Moves(w, l, external[exec[w].job], exec[w].image, exec[w].retryable)
    <3> HIDE DEF l
    <3> QED
      BY <2>1, <2>2, Continued
  <2> QED
    BY <1>2, <2>3
<1>3. exec[w].job \in Jobs
  BY Fields DEF markAssetJobRunning
<1> QED
  BY <1>1, <1>2, <1>3 DEF markAssetJobRunning, RowsOK

(* What submit leaves behind: a new prompt the run goes on with, or an     *)
(* error that is caught.                                                   *)
LEMMA SubmitEffect ==
  ASSUME RunsOK, RowsOK, NEW w \in Workers, submit(w)
  PROVE  \/ \E b \in BOOLEAN : Moves(w, "failRead", exec[w].external, exec[w].image, b)
         \/ /\ prompts' = [prompts EXCEPT ![exec[w].job] = @ + 1]
            /\ Moves(w, "submitted", prompts[exec[w].job] + 1, exec[w].image, exec[w].retryable)
<1>1. CASE \E r \in BOOLEAN : Catch(w, r)
  BY <1>1, Caught
<1>2. CASE /\ prompts' = [prompts EXCEPT ![exec[w].job] = @ + 1]
           /\ exec' = [exec EXCEPT ![w].pc = "submitted",
                                   ![w].external = prompts[exec[w].job] + 1]
  <2>1. prompts[exec[w].job] + 1 \in Nat /\ "submitted" \in Labels
    BY Fields DEF RowsOK, Labels, submit
  <2> QED
    BY <1>2, <2>1, Continued
<1> QED
  BY <1>1, <1>2 DEF submit

(* What getResult leaves behind: the image of the prompt of the run, or    *)
(* an error that is caught.                                                *)
LEMMA ResultEffect ==
  ASSUME RunsOK, NEW w \in Workers, getResult(w)
  PROVE  \/ \E b \in BOOLEAN : Moves(w, "failRead", exec[w].external, exec[w].image, b)
         \/ Moves(w, "candidate", exec[w].external, Image(exec[w].job, exec[w].external),
                  exec[w].retryable)
<1>1. CASE \E r \in BOOLEAN : Catch(w, r)
  BY <1>1, Caught
<1>2. CASE exec' = [exec EXCEPT ![w].pc = "candidate",
                                ![w].image = Image(exec[w].job, exec[w].external)]
  <2>1. Image(exec[w].job, exec[w].external) \in Nat
    BY Fields DEF Image
  <2> QED
    BY <1>2, <2>1, Fetching
<1> QED
  BY <1>1, <1>2 DEF getResult

(* A run that read the attempts goes on to write the failure.              *)
LEMMA ReadEffect ==
  ASSUME RunsOK, RowsOK, NEW w \in Workers, readAttempts(w)
  PROVE  Moves(w, "failWrite", exec[w].external, exec[w].image, exec[w].retryable)
<1>1. attempts[exec[w].job] \in Nat
  BY Fields DEF RowsOK, readAttempts
<1> QED
  BY <1>1, Read DEF readAttempts

(* A run keeps its shape and works on a prompt that was accepted.          *)
LEMMA RunsStep == TypeOK /\ Known /\ [Next]_vars => RunsOK'
<1> SUFFICES ASSUME TypeOK, Known, [Next]_vars PROVE RunsOK'
  OBVIOUS
<1>0. /\ RunsOK /\ RowsOK /\ Known
      /\ prompts' \in [Jobs -> Nat] /\ \A j \in Jobs : prompts[j] <= prompts'[j]
  BY RowsStep DEF TypeOK, Rows, RowsOK
<1>l. \A l \in {"load", "claim", "run", "submit", "submitted", "result", "candidate",
               "succeed", "failRead", "failWrite"} : l \in Labels \ {"idle"}
  BY DEF Labels
<1>u. ASSUME UNCHANGED <<exec, prompts>> PROVE RunsOK'
  BY <1>0, <1>u DEF RunsOK
<1>m. ASSUME NEW w \in Workers, NEW l \in Labels \ {"idle"}, NEW e \in Nat, NEW i \in Nat,
             NEW b \in BOOLEAN, Moves(w, l, e, i, b), exec[w].pc # "idle",
             l \in {"submitted", "result", "candidate", "succeed"} => e \in 1..prompts'[exec[w].job]
      PROVE RunsOK'
  <2>1. exec' \in [Workers -> Runs] /\ \A v \in Workers \ {w} : exec'[v] = exec[v]
    BY <1>m DEF Moves, Others
  <2>2. exec[w].job # NoJob
    BY <1>0, <1>m DEF RunsOK
  <2>3. ASSUME NEW v \in Workers
        PROVE /\ exec'[v].pc # "idle" <=> exec'[v].job # NoJob
              /\ exec'[v].pc \in {"submitted", "result", "candidate", "succeed"}
                   => exec'[v].external \in 1..prompts'[exec'[v].job]
    <3>1. CASE v = w
      BY <1>m, <2>2, <3>1 DEF Moves
    <3>2. CASE v # w
      <4>1. exec'[v] = exec[v]
        BY <2>1, <3>2
      <4>2. exec[v].pc \in {"submitted", "result", "candidate", "succeed"} => exec[v].job \in Jobs
        BY <1>0, Fields
      <4>3. exec[v].external \in Nat
        BY <1>0, Fields
      <4> QED
        BY <1>0, <1>m, <4>1, <4>2, <4>3 DEF RunsOK, RowsOK
    <3> QED
      BY <3>1, <3>2
  <2> QED
    BY <2>1, <2>3 DEF RunsOK
<1>e. ASSUME NEW w \in Workers, Ends(w), UNCHANGED prompts PROVE RunsOK'
  <2>1. exec' \in [Workers -> Runs] /\ \A v \in Workers \ {w} : exec'[v] = exec[v]
    BY <1>e DEF Ends, Others
  <2> QED
    BY <1>0, <1>e, <2>1 DEF RunsOK, Ends
<1>g. ASSUME NEW w \in Workers, NEW l \in Labels \ {"idle"}, Goto(w, l), UNCHANGED prompts,
             exec[w].pc # "idle", exec[w].job \in Jobs,
             l \in {"submitted", "result", "candidate", "succeed"}
               => exec[w].pc \in {"submitted", "result", "candidate", "succeed"}
      PROVE RunsOK'
  BY <1>0, <1>g, <1>m, Moved, Fields DEF RunsOK
<1>c. ASSUME NEW w \in Workers, NEW r \in BOOLEAN, Catch(w, r), UNCHANGED prompts,
             exec[w].pc # "idle", exec[w].job \in Jobs
      PROVE RunsOK'
  BY <1>0, <1>c, <1>l, <1>m, Caught, Fields
<1>d. ASSUME NEW w \in Workers, End(w), UNCHANGED prompts, exec[w].pc # "idle"
      PROVE RunsOK'
  BY <1>0, <1>d, <1>e, Ended
<1>1. CASE UNCHANGED vars
  BY <1>0, <1>1 DEF vars, RunsOK
<1>2. ASSUME NEW j \in Jobs, createAssetJob(j) PROVE RunsOK'
  BY <1>0, <1>2, <1>u DEF createAssetJob
<1>3. ASSUME NEW j \in Jobs, cancelAssetJob(j) PROVE RunsOK'
  BY <1>0, <1>3, <1>u DEF cancelAssetJob
<1>4. ASSUME NEW j \in Jobs, leaseExpires(j) PROVE RunsOK'
  BY <1>0, <1>4, <1>u DEF leaseExpires
<1>5. ASSUME NEW j \in Jobs, NEW to \in {"approved", "rejected", "changes_requested"},
           reviewAssetCandidate(j, to)
     PROVE RunsOK'
  BY <1>0, <1>5, <1>u DEF reviewAssetCandidate
<1>6. ASSUME NEW w \in Workers, load(w) PROVE RunsOK'
  <2>1. exec[w].pc # "idle" /\ exec[w].job \in Jobs /\ UNCHANGED prompts
    BY <1>0, <1>6, Fields DEF load
  <2> QED
    BY <1>6, <1>c, <1>d, <1>g, <1>l, <2>1 DEF load
<1>7. ASSUME NEW w \in Workers, markAssetJobClaimed(w) PROVE RunsOK'
  <2>1. exec[w].pc # "idle" /\ exec[w].job \in Jobs /\ UNCHANGED prompts
    BY <1>0, <1>7, Fields DEF markAssetJobClaimed
  <2> QED
    BY <1>7, <1>c, <1>d, <1>g, <1>l, <2>1 DEF markAssetJobClaimed
<1>8. ASSUME NEW w \in Workers, markAssetJobRunning(w) PROVE RunsOK'
  <2>1. exec[w].pc = "run" /\ exec[w].job \in Jobs /\ UNCHANGED prompts
    BY <1>0, <1>8, Fields DEF markAssetJobRunning
  <2>2. external[exec[w].job] \in Nat /\ external[exec[w].job] \in 0..prompts[exec[w].job]
    BY <1>0, <2>1 DEF RowsOK, Known
  <2> QED
    BY <1>0, <1>8, <1>m, <1>e, <1>l, <2>1, <2>2, RunningEffect, Fields
<1>9. ASSUME NEW w \in Workers, submit(w) PROVE RunsOK'
  <2>1. exec[w].pc = "submit" /\ prompts[exec[w].job] \in Nat /\ exec[w].job \in Jobs
    BY <1>0, <1>9, Fields DEF submit, RowsOK
  <2>2. CASE /\ prompts' = [prompts EXCEPT ![exec[w].job] = @ + 1]
             /\ Moves(w, "submitted", prompts[exec[w].job] + 1, exec[w].image, exec[w].retryable)
    <3>1. prompts[exec[w].job] + 1 \in 1..prompts'[exec[w].job]
      BY <1>0, <2>1, <2>2
    <3> QED
      BY <1>0, <1>m, <1>l, <2>1, <2>2, <3>1, Fields
  <2> QED
    BY <1>0, <1>9, <1>m, <1>l, <2>1, <2>2, SubmitEffect, Fields
<1>10. ASSUME NEW w \in Workers, markAssetJobSubmitted(w) PROVE RunsOK'
  <2>1. exec[w].pc # "idle" /\ exec[w].job \in Jobs /\ UNCHANGED prompts
    BY <1>0, <1>10, Fields DEF markAssetJobSubmitted
  <2> QED
    BY <1>10, <1>c, <1>d, <1>g, <1>l, <2>1 DEF markAssetJobSubmitted
<1>11. ASSUME NEW w \in Workers, getResult(w) PROVE RunsOK'
  <2>1. exec[w].pc = "result" /\ exec[w].job \in Jobs /\ UNCHANGED prompts
    BY <1>0, <1>11, Fields DEF getResult
  <2>2. exec[w].external \in 1..prompts'[exec[w].job]
    BY <1>0, <2>1, Fields DEF RunsOK
  <2>3. Image(exec[w].job, exec[w].external) \in Nat
    BY <1>0, Fields DEF Image
  <2> QED
    BY <1>0, <1>11, <1>m, <1>l, <2>1, <2>2, <2>3, ResultEffect, Fields
<1>12. ASSUME NEW w \in Workers, createAssetCandidate(w) PROVE RunsOK'
  <2>1. exec[w].pc # "idle" /\ exec[w].job \in Jobs /\ UNCHANGED prompts
    BY <1>0, <1>12, Fields DEF createAssetCandidate
  <2> QED
    BY <1>12, <1>c, <1>d, <1>g, <1>l, <2>1 DEF createAssetCandidate
<1>13. ASSUME NEW w \in Workers, markAssetJobSucceeded(w) PROVE RunsOK'
  BY <1>0, <1>13, <1>e, Ended DEF markAssetJobSucceeded
<1>14. ASSUME NEW w \in Workers, readAttempts(w) PROVE RunsOK'
  <2>1. exec[w].pc = "failRead" /\ exec[w].job \in Jobs /\ UNCHANGED prompts
    BY <1>0, <1>14, Fields DEF readAttempts
  <2>2. Moves(w, "failWrite", exec[w].external, exec[w].image, exec[w].retryable)
    BY <1>0, <1>14, ReadEffect
  <2> QED
    BY <1>0, <1>m, <1>l, <2>1, <2>2, Fields
<1>15. ASSUME NEW w \in Workers, markAssetJobFailed(w) PROVE RunsOK'
  BY <1>0, <1>15, <1>e, Ended DEF markAssetJobFailed
<1>16. ASSUME NEW w \in Workers, statementFails(w) PROVE RunsOK'
  <2>1. exec[w].pc # "idle" /\ exec[w].job \in Jobs /\ UNCHANGED prompts
    BY <1>0, <1>16, Fields DEF statementFails
  <2> QED
    BY <1>16, <1>c, <1>d, <1>g, <1>l, <2>1 DEF statementFails
<1>17. ASSUME NEW w \in Workers, workerCrash(w) PROVE RunsOK'
  BY <1>0, <1>17, <1>e, Ended DEF workerCrash
<1>18. ASSUME NEW w \in Workers, NEW j \in Jobs, deliver(w, j) PROVE RunsOK'
  <2>1. Others(w) /\ exec'[w].pc = "load" /\ exec'[w].job = j /\ UNCHANGED prompts
    BY <1>0, <1>18, Delivered DEF deliver
  <2> QED
    BY <1>0, <2>1, AssetAssumption DEF RunsOK, Others
<1> QED
  BY <1>1, <1>2, <1>3, <1>4, <1>5, <1>6, <1>7, <1>8, <1>9,
     <1>10, <1>11, <1>12, <1>13, <1>14, <1>15, <1>16, <1>17, <1>18 DEF Next, Api, WorkerStep

(* Known is kept.                                                          *)
LEMMA KnownStep == TypeOK /\ Known /\ [Next]_vars => Known'
<1> SUFFICES ASSUME TypeOK, Known, [Next]_vars PROVE Known'
  OBVIOUS
<1>0. RunsOK /\ RowsOK /\ Known
  BY DEF TypeOK
<1>i. \A w \in Workers : exec[w].pc # "idle" => exec[w].job \in Jobs
  BY <1>0, Fields
<1>l. \A l \in {"load", "claim", "run", "submit", "submitted", "result", "candidate",
               "succeed", "failRead", "failWrite"} : l \in Labels
  BY DEF Labels
<1>r. ASSUME NEW w \in Workers, Others(w), exec'[w].job \in {exec[w].job, NoJob},
             \A j \in Jobs : external'[j] <= prompts'[j],
             \A j \in Jobs : status'[j] = "absent" => attempts'[j] = 0,
             \A j \in Jobs : status[j] # "absent" => status'[j] # "absent"
      PROVE Known'
  BY <1>0, <1>r, Fields DEF Known, Others
<1>1. CASE UNCHANGED vars
  BY <1>0, <1>1 DEF vars, Known
<1>2. ASSUME NEW j \in Jobs, createAssetJob(j) PROVE Known'
  BY <1>0, <1>2 DEF createAssetJob, Known, RowsOK, Statuses, jobRow
<1>3. ASSUME NEW j \in Jobs, cancelAssetJob(j) PROVE Known'
  BY <1>0, <1>3 DEF cancelAssetJob, Known, RowsOK, Statuses, jobRow
<1>4. ASSUME NEW j \in Jobs, leaseExpires(j) PROVE Known'
  BY <1>0, <1>4 DEF leaseExpires, Known, RowsOK, Statuses, jobRow
<1>5. ASSUME NEW j \in Jobs, NEW to \in {"approved", "rejected", "changes_requested"},
           reviewAssetCandidate(j, to)
     PROVE Known'
  BY <1>0, <1>5 DEF reviewAssetCandidate, Known, RowsOK, Statuses, jobRow
<1>6. ASSUME NEW w \in Workers, load(w) PROVE Known'
  <2>1. exec[w].job \in Jobs
    BY <1>0, <1>6, Fields DEF load
  <2>2. /\ \A j \in Jobs : external'[j] <= prompts'[j]
        /\ \A j \in Jobs : status'[j] = "absent" => attempts'[j] = 0
        /\ \A j \in Jobs : status[j] # "absent" => status'[j] # "absent"
    BY <1>0, <1>6, <2>1 DEF load, Known, RowsOK, Statuses, jobRow
  <2>3. Others(w) /\ exec'[w].job \in {exec[w].job, NoJob}
    BY <1>0, <1>6, <1>l, Moved, Ended DEF load, Moves, Ends
  <2> QED
    BY <1>r, <2>2, <2>3
<1>7. ASSUME NEW w \in Workers, markAssetJobClaimed(w) PROVE Known'
  <2>1. exec[w].job \in Jobs
    BY <1>0, <1>7, Fields DEF markAssetJobClaimed
  <2>2. /\ \A j \in Jobs : external'[j] <= prompts'[j]
        /\ \A j \in Jobs : status'[j] = "absent" => attempts'[j] = 0
        /\ \A j \in Jobs : status[j] # "absent" => status'[j] # "absent"
    BY <1>0, <1>7, <2>1 DEF markAssetJobClaimed, Known, RowsOK, Statuses, jobRow
  <2>3. Others(w) /\ exec'[w].job \in {exec[w].job, NoJob}
    BY <1>0, <1>7, <1>l, Moved, Ended DEF markAssetJobClaimed, Moves, Ends
  <2> QED
    BY <1>r, <2>2, <2>3
<1>8. ASSUME NEW w \in Workers, markAssetJobRunning(w) PROVE Known'
  <2>1. exec[w].job \in Jobs
    BY <1>0, <1>8, Fields DEF markAssetJobRunning
  <2>2. /\ \A j \in Jobs : external'[j] <= prompts'[j]
        /\ \A j \in Jobs : status'[j] = "absent" => attempts'[j] = 0
        /\ \A j \in Jobs : status[j] # "absent" => status'[j] # "absent"
    BY <1>0, <1>8, <2>1 DEF markAssetJobRunning, Known, RowsOK, Statuses, jobRow
  <2>3. Others(w) /\ exec'[w].job \in {exec[w].job, NoJob}
    BY <1>0, <1>8, RunningEffect DEF Moves, Ends
  <2> QED
    BY <1>r, <2>2, <2>3
<1>9. ASSUME NEW w \in Workers, submit(w) PROVE Known'
  <2>1. exec[w].job \in Jobs
    BY <1>0, <1>9, Fields DEF submit
  <2>2. /\ \A j \in Jobs : external'[j] <= prompts'[j]
        /\ \A j \in Jobs : status'[j] = "absent" => attempts'[j] = 0
        /\ \A j \in Jobs : status[j] # "absent" => status'[j] # "absent"
    <3>1. UNCHANGED <<status, attempts, external>>
      BY <1>9 DEF submit, jobRow
    <3>2. \A j \in Jobs : /\ prompts[j] <= prompts'[j] /\ prompts[j] \in Nat
                         /\ prompts'[j] \in Nat /\ external[j] \in Nat
      BY <1>0, RowsStep DEF Rows, RowsOK
    <3> QED
      BY <1>0, <3>1, <3>2 DEF Known
  <2>3. Others(w) /\ exec'[w].job \in {exec[w].job, NoJob}
    BY <1>0, <1>9, SubmitEffect DEF Moves, Ends
  <2> QED
    BY <1>r, <2>2, <2>3
<1>10. ASSUME NEW w \in Workers, markAssetJobSubmitted(w) PROVE Known'
  <2>1. exec[w].job \in Jobs
    BY <1>0, <1>10, Fields DEF markAssetJobSubmitted
  <2>2. /\ \A j \in Jobs : external'[j] <= prompts'[j]
        /\ \A j \in Jobs : status'[j] = "absent" => attempts'[j] = 0
        /\ \A j \in Jobs : status[j] # "absent" => status'[j] # "absent"
    <3>1. exec[w].external <= prompts[exec[w].job] /\ exec[w].external \in Nat
      BY <1>0, <1>10, <2>1, Fields DEF markAssetJobSubmitted, RunsOK, RowsOK
    <3> QED
      BY <1>0, <1>10, <2>1, <3>1 DEF markAssetJobSubmitted, Known, RowsOK
  <2>3. Others(w) /\ exec'[w].job \in {exec[w].job, NoJob}
    BY <1>0, <1>10, <1>l, Moved DEF markAssetJobSubmitted, Moves, Ends
  <2> QED
    BY <1>r, <2>2, <2>3
<1>11. ASSUME NEW w \in Workers, getResult(w) PROVE Known'
  <2>1. exec[w].job \in Jobs
    BY <1>0, <1>11, Fields DEF getResult
  <2>2. /\ \A j \in Jobs : external'[j] <= prompts'[j]
        /\ \A j \in Jobs : status'[j] = "absent" => attempts'[j] = 0
        /\ \A j \in Jobs : status[j] # "absent" => status'[j] # "absent"
    BY <1>0, <1>11, <2>1 DEF getResult, Known, RowsOK, Statuses, jobRow
  <2>3. Others(w) /\ exec'[w].job \in {exec[w].job, NoJob}
    BY <1>0, <1>11, ResultEffect DEF Moves, Ends
  <2> QED
    BY <1>r, <2>2, <2>3
<1>12. ASSUME NEW w \in Workers, createAssetCandidate(w) PROVE Known'
  <2>1. exec[w].job \in Jobs
    BY <1>0, <1>12, Fields DEF createAssetCandidate
  <2>2. /\ \A j \in Jobs : external'[j] <= prompts'[j]
        /\ \A j \in Jobs : status'[j] = "absent" => attempts'[j] = 0
        /\ \A j \in Jobs : status[j] # "absent" => status'[j] # "absent"
    BY <1>0, <1>12, <2>1 DEF createAssetCandidate, Known, RowsOK, Statuses, jobRow
  <2>3. Others(w) /\ exec'[w].job \in {exec[w].job, NoJob}
    BY <1>0, <1>12, <1>l, Moved, Caught DEF createAssetCandidate, Moves, Ends
  <2> QED
    BY <1>r, <2>2, <2>3
<1>13. ASSUME NEW w \in Workers, markAssetJobSucceeded(w) PROVE Known'
  <2>1. exec[w].job \in Jobs
    BY <1>0, <1>13, Fields DEF markAssetJobSucceeded
  <2>2. /\ \A j \in Jobs : external'[j] <= prompts'[j]
        /\ \A j \in Jobs : status'[j] = "absent" => attempts'[j] = 0
        /\ \A j \in Jobs : status[j] # "absent" => status'[j] # "absent"
    BY <1>0, <1>13, <2>1 DEF markAssetJobSucceeded, Known, RowsOK, Statuses, jobRow
  <2>3. Others(w) /\ exec'[w].job \in {exec[w].job, NoJob}
    BY <1>0, <1>13, <1>l, Ended DEF markAssetJobSucceeded, Moves, Ends
  <2> QED
    BY <1>r, <2>2, <2>3
<1>14. ASSUME NEW w \in Workers, readAttempts(w) PROVE Known'
  <2>1. exec[w].job \in Jobs
    BY <1>0, <1>14, Fields DEF readAttempts
  <2>2. /\ \A j \in Jobs : external'[j] <= prompts'[j]
        /\ \A j \in Jobs : status'[j] = "absent" => attempts'[j] = 0
        /\ \A j \in Jobs : status[j] # "absent" => status'[j] # "absent"
    BY <1>0, <1>14, <2>1 DEF readAttempts, Known, RowsOK, Statuses, jobRow
  <2>3. Others(w) /\ exec'[w].job \in {exec[w].job, NoJob}
    BY <1>0, <1>14, ReadEffect DEF Moves, Ends
  <2> QED
    BY <1>r, <2>2, <2>3
<1>15. ASSUME NEW w \in Workers, markAssetJobFailed(w) PROVE Known'
  <2>1. exec[w].job \in Jobs
    BY <1>0, <1>15, Fields DEF markAssetJobFailed
  <2>2. /\ \A j \in Jobs : external'[j] <= prompts'[j]
        /\ \A j \in Jobs : status'[j] = "absent" => attempts'[j] = 0
        /\ \A j \in Jobs : status[j] # "absent" => status'[j] # "absent"
    BY <1>0, <1>15, <2>1 DEF markAssetJobFailed, Known, RowsOK, Statuses, jobRow
  <2>3. Others(w) /\ exec'[w].job \in {exec[w].job, NoJob}
    BY <1>0, <1>15, <1>l, Ended DEF markAssetJobFailed, Moves, Ends
  <2> QED
    BY <1>r, <2>2, <2>3
<1>16. ASSUME NEW w \in Workers, statementFails(w) PROVE Known'
  <2>1. exec[w].job \in Jobs
    BY <1>0, <1>16, Fields DEF statementFails
  <2>2. /\ \A j \in Jobs : external'[j] <= prompts'[j]
        /\ \A j \in Jobs : status'[j] = "absent" => attempts'[j] = 0
        /\ \A j \in Jobs : status[j] # "absent" => status'[j] # "absent"
    BY <1>0, <1>16, <2>1 DEF statementFails, Known, RowsOK, Statuses, jobRow
  <2>3. Others(w) /\ exec'[w].job \in {exec[w].job, NoJob}
    BY <1>0, <1>16, <1>l, Ended, Caught DEF statementFails, Moves, Ends
  <2> QED
    BY <1>r, <2>2, <2>3
<1>17. ASSUME NEW w \in Workers, workerCrash(w) PROVE Known'
  <2>1. exec[w].job \in Jobs
    BY <1>0, <1>17, Fields, <1>i DEF workerCrash
  <2>2. /\ \A j \in Jobs : external'[j] <= prompts'[j]
        /\ \A j \in Jobs : status'[j] = "absent" => attempts'[j] = 0
        /\ \A j \in Jobs : status[j] # "absent" => status'[j] # "absent"
    BY <1>0, <1>17, <2>1 DEF workerCrash, Known, RowsOK, Statuses, jobRow
  <2>3. Others(w) /\ exec'[w].job \in {exec[w].job, NoJob}
    BY <1>0, <1>17, <1>l, Ended DEF workerCrash, Moves, Ends
  <2> QED
    BY <1>r, <2>2, <2>3
<1>18. ASSUME NEW w \in Workers, NEW j \in Jobs, deliver(w, j) PROVE Known'
  <2>1. Others(w) /\ exec'[w].job = j /\ UNCHANGED <<jobRow, prompts>> /\ status[j] # "absent"
    BY <1>0, <1>18, Delivered DEF deliver
  <2> QED
    BY <1>0, <2>1 DEF Known, Others, jobRow
<1> QED
  BY <1>1, <1>2, <1>3, <1>4, <1>5, <1>6, <1>7, <1>8, <1>9,
     <1>10, <1>11, <1>12, <1>13, <1>14, <1>15, <1>16, <1>17, <1>18 DEF Next, Api, WorkerStep

(* Only a failed attempt takes an attempt, and a job that is put back into *)
(* the queue has one left.                                                 *)
LEMMA AttemptsStep == TypeOK /\ Known /\ AttemptsLeft /\ [Next]_vars => AttemptsLeft'
<1> SUFFICES ASSUME TypeOK, Known, AttemptsLeft, [Next]_vars PROVE AttemptsLeft'
  OBVIOUS
<1>0. RunsOK /\ RowsOK /\ Known /\ AttemptsLeft
  BY DEF TypeOK
<1>k. ASSUME UNCHANGED attempts,
             \A j \in Jobs : status'[j] \in Active => status[j] \in Active
      PROVE AttemptsLeft'
  BY <1>0, <1>k DEF AttemptsLeft, Active
<1>1. CASE UNCHANGED vars
  BY <1>0, <1>1 DEF vars, AttemptsLeft
<1>2. ASSUME NEW j \in Jobs, createAssetJob(j) PROVE AttemptsLeft'
  BY <1>0, <1>2 DEF createAssetJob, AttemptsLeft, Known, RowsOK
<1>3. ASSUME NEW j \in Jobs, cancelAssetJob(j) PROVE AttemptsLeft'
  BY <1>0, <1>3, <1>k DEF cancelAssetJob, RowsOK, Active, jobRow
<1>4. ASSUME NEW j \in Jobs, leaseExpires(j) PROVE AttemptsLeft'
  BY <1>0, <1>4, <1>k DEF leaseExpires, RowsOK, Active, jobRow
<1>5. ASSUME NEW j \in Jobs, NEW to \in {"approved", "rejected", "changes_requested"},
           reviewAssetCandidate(j, to)
     PROVE AttemptsLeft'
  BY <1>0, <1>5, <1>k DEF reviewAssetCandidate, RowsOK, Active, jobRow
<1>6. ASSUME NEW w \in Workers, load(w) PROVE AttemptsLeft'
  BY <1>0, <1>6, <1>k, Fields DEF load, RowsOK, Active, jobRow
<1>7. ASSUME NEW w \in Workers, markAssetJobClaimed(w) PROVE AttemptsLeft'
  BY <1>0, <1>7, <1>k, Fields DEF markAssetJobClaimed, RowsOK, Active, jobRow
<1>8. ASSUME NEW w \in Workers, markAssetJobRunning(w) PROVE AttemptsLeft'
  BY <1>0, <1>8, <1>k, Fields DEF markAssetJobRunning, RowsOK, Active, jobRow
<1>9. ASSUME NEW w \in Workers, submit(w) PROVE AttemptsLeft'
  BY <1>0, <1>9, <1>k, Fields DEF submit, RowsOK, Active, jobRow
<1>10. ASSUME NEW w \in Workers, markAssetJobSubmitted(w) PROVE AttemptsLeft'
  BY <1>0, <1>10, <1>k, Fields DEF markAssetJobSubmitted, RowsOK, Active, jobRow
<1>11. ASSUME NEW w \in Workers, getResult(w) PROVE AttemptsLeft'
  BY <1>0, <1>11, <1>k, Fields DEF getResult, RowsOK, Active, jobRow
<1>12. ASSUME NEW w \in Workers, createAssetCandidate(w) PROVE AttemptsLeft'
  BY <1>0, <1>12, <1>k, Fields DEF createAssetCandidate, RowsOK, Active, jobRow
<1>13. ASSUME NEW w \in Workers, markAssetJobSucceeded(w) PROVE AttemptsLeft'
  BY <1>0, <1>13, <1>k, Fields DEF markAssetJobSucceeded, RowsOK, Active, jobRow
<1>14. ASSUME NEW w \in Workers, readAttempts(w) PROVE AttemptsLeft'
  BY <1>0, <1>14, <1>k, Fields DEF readAttempts, RowsOK, Active, jobRow
<1>15. ASSUME NEW w \in Workers, markAssetJobFailed(w) PROVE AttemptsLeft'
  <2>1. exec[w].job \in Jobs /\ exec[w].seen \in Nat
    BY <1>0, <1>15, Fields DEF markAssetJobFailed
  <2> QED
    BY <1>0, <1>15, <2>1 DEF markAssetJobFailed, shouldRetry, AttemptsLeft, RowsOK
<1>16. ASSUME NEW w \in Workers, statementFails(w) PROVE AttemptsLeft'
  BY <1>0, <1>16, <1>k, Fields DEF statementFails, RowsOK, Active, jobRow
<1>17. ASSUME NEW w \in Workers, workerCrash(w) PROVE AttemptsLeft'
  BY <1>0, <1>17, <1>k, Fields DEF workerCrash, RowsOK, Active, jobRow
<1>18. ASSUME NEW w \in Workers, NEW j \in Jobs, deliver(w, j) PROVE AttemptsLeft'
  BY <1>0, <1>18, <1>k DEF deliver, RowsOK, Active, jobRow
<1> QED
  BY <1>1, <1>2, <1>3, <1>4, <1>5, <1>6, <1>7, <1>8, <1>9,
     <1>10, <1>11, <1>12, <1>13, <1>14, <1>15, <1>16, <1>17, <1>18 DEF Next, Api, WorkerStep

(* How a run comes to submit, to the result, to the candidate and to its   *)
(* success; every other label a run has, it may have reached in any way.   *)
Arrives(v) ==
  /\ exec'[v].pc = "submit" => exec'[v] = exec[v] \/ markAssetJobRunning(v)
  /\ exec'[v].pc = "submitted" => exec'[v] = exec[v] \/ submit(v)
  /\ exec'[v].pc = "result" =>
       exec'[v] = exec[v] \/ markAssetJobRunning(v) \/ markAssetJobSubmitted(v)
  /\ exec'[v].pc = "candidate" => exec'[v] = exec[v] \/ getResult(v)
  /\ exec'[v].pc = "succeed" => exec'[v] = exec[v] \/ createAssetCandidate(v)

(* A run reaches each point of its work only by the operation before it.   *)
LEMMA ArriveStep == TypeOK /\ [Next]_vars => \A v \in Workers : Arrives(v)
<1> DEFINE Arrive == \A v \in Workers : Arrives(v)
<1> SUFFICES ASSUME TypeOK, [Next]_vars PROVE Arrive
  OBVIOUS
<1>0. RunsOK /\ RowsOK
  BY DEF TypeOK
<1>l. \A l \in {"load", "claim", "run", "submit", "submitted", "result", "candidate",
               "succeed", "failRead", "failWrite"} : l \in Labels
  BY DEF Labels
<1>u. ASSUME UNCHANGED exec PROVE Arrive
  BY <1>u DEF Arrives
<1>o. ASSUME NEW w \in Workers, Others(w), Arrives(w) PROVE Arrive
  BY <1>o DEF Others, Arrives
<1>1. CASE UNCHANGED vars
  BY <1>1, <1>u DEF vars
<1>2. ASSUME NEW j \in Jobs, createAssetJob(j) PROVE Arrive
  BY <1>2, <1>u DEF createAssetJob
<1>3. ASSUME NEW j \in Jobs, cancelAssetJob(j) PROVE Arrive
  BY <1>3, <1>u DEF cancelAssetJob
<1>4. ASSUME NEW j \in Jobs, leaseExpires(j) PROVE Arrive
  BY <1>4, <1>u DEF leaseExpires
<1>5. ASSUME NEW j \in Jobs, NEW to \in {"approved", "rejected", "changes_requested"},
           reviewAssetCandidate(j, to)
     PROVE Arrive
  BY <1>5, <1>u DEF reviewAssetCandidate
<1>6. ASSUME NEW w \in Workers, load(w) PROVE Arrive
  <2>1. Others(w) /\ Arrives(w)
    BY <1>0, <1>6, <1>l, Moved, Ended DEF load, Arrives, Moves, Ends
  <2> QED
    BY <1>o, <2>1
<1>7. ASSUME NEW w \in Workers, markAssetJobClaimed(w) PROVE Arrive
  <2>1. Others(w) /\ Arrives(w)
    BY <1>0, <1>7, <1>l, Moved, Ended DEF markAssetJobClaimed, Arrives, Moves, Ends
  <2> QED
    BY <1>o, <2>1
<1>8. ASSUME NEW w \in Workers, markAssetJobRunning(w) PROVE Arrive
  <2>1. Others(w) /\ Arrives(w)
    BY <1>0, <1>8, <1>l, RunningEffect DEF Arrives, Moves, Ends
  <2> QED
    BY <1>o, <2>1
<1>9. ASSUME NEW w \in Workers, submit(w) PROVE Arrive
  <2>1. Others(w) /\ Arrives(w)
    BY <1>0, <1>9, <1>l, SubmitEffect DEF Arrives, Moves, Ends
  <2> QED
    BY <1>o, <2>1
<1>10. ASSUME NEW w \in Workers, markAssetJobSubmitted(w) PROVE Arrive
  <2>1. Others(w) /\ Arrives(w)
    BY <1>0, <1>10, <1>l, Moved DEF markAssetJobSubmitted, Arrives, Moves, Ends
  <2> QED
    BY <1>o, <2>1
<1>11. ASSUME NEW w \in Workers, getResult(w) PROVE Arrive
  <2>1. Others(w) /\ Arrives(w)
    BY <1>0, <1>11, <1>l, ResultEffect DEF Arrives, Moves, Ends
  <2> QED
    BY <1>o, <2>1
<1>12. ASSUME NEW w \in Workers, createAssetCandidate(w) PROVE Arrive
  <2>1. Others(w) /\ Arrives(w)
    BY <1>0, <1>12, <1>l, Moved, Caught DEF createAssetCandidate, Arrives, Moves, Ends
  <2> QED
    BY <1>o, <2>1
<1>13. ASSUME NEW w \in Workers, markAssetJobSucceeded(w) PROVE Arrive
  <2>1. Others(w) /\ Arrives(w)
    BY <1>0, <1>13, <1>l, Ended DEF markAssetJobSucceeded, Arrives, Moves, Ends
  <2> QED
    BY <1>o, <2>1
<1>14. ASSUME NEW w \in Workers, readAttempts(w) PROVE Arrive
  <2>1. Others(w) /\ Arrives(w)
    BY <1>0, <1>14, <1>l, ReadEffect DEF Arrives, Moves, Ends
  <2> QED
    BY <1>o, <2>1
<1>15. ASSUME NEW w \in Workers, markAssetJobFailed(w) PROVE Arrive
  <2>1. Others(w) /\ Arrives(w)
    BY <1>0, <1>15, <1>l, Ended DEF markAssetJobFailed, Arrives, Moves, Ends
  <2> QED
    BY <1>o, <2>1
<1>16. ASSUME NEW w \in Workers, statementFails(w) PROVE Arrive
  <2>1. Others(w) /\ Arrives(w)
    BY <1>0, <1>16, <1>l, Ended, Caught DEF statementFails, Arrives, Moves, Ends
  <2> QED
    BY <1>o, <2>1
<1>17. ASSUME NEW w \in Workers, workerCrash(w) PROVE Arrive
  <2>1. Others(w) /\ Arrives(w)
    BY <1>0, <1>17, <1>l, Ended DEF workerCrash, Arrives, Moves, Ends
  <2> QED
    BY <1>o, <2>1
<1>18. ASSUME NEW w \in Workers, NEW j \in Jobs, deliver(w, j) PROVE Arrive
  BY <1>0, <1>18, <1>o, Delivered DEF deliver, Arrives
<1> QED
  BY <1>1, <1>2, <1>3, <1>4, <1>5, <1>6, <1>7, <1>8, <1>9,
     <1>10, <1>11, <1>12, <1>13, <1>14, <1>15, <1>16, <1>17, <1>18 DEF Next, Api, WorkerStep

(* A candidate is made by createAssetCandidate and decided by a review,    *)
(* its image never changes, and only markAssetJobSucceeded makes a job     *)
(* succeed.                                                                *)
Quiet ==
  /\ UNCHANGED <<candidate, media, asset>>
  /\ \A j \in Jobs : status'[j] = "succeeded" => status[j] = "succeeded"

Candidates ==
  \/ Quiet
  \/ \E w \in Workers : createAssetCandidate(w) \/ markAssetJobSucceeded(w)
  \/ \E j \in Jobs : \E to \in {"approved", "rejected", "changes_requested"} :
       reviewAssetCandidate(j, to)

(* Candidates, assets and successes change only when an image is stored,   *)
(* a success is reported or an image is reviewed.                          *)
LEMMA CandidatesStep == TypeOK /\ [Next]_vars => Candidates
<1> SUFFICES ASSUME TypeOK, [Next]_vars PROVE Candidates
  OBVIOUS
<1>0. RunsOK /\ RowsOK
  BY DEF TypeOK
<1>q. ASSUME Quiet PROVE Candidates
  BY <1>q DEF Candidates
<1>1. CASE UNCHANGED vars
  BY <1>1, <1>q DEF vars, Quiet
<1>2. ASSUME NEW j \in Jobs, createAssetJob(j) PROVE Candidates
  BY <1>0, <1>2, <1>q, Fields DEF createAssetJob, Quiet, RowsOK, jobRow
<1>3. ASSUME NEW j \in Jobs, cancelAssetJob(j) PROVE Candidates
  BY <1>0, <1>3, <1>q, Fields DEF cancelAssetJob, Quiet, RowsOK, jobRow
<1>4. ASSUME NEW j \in Jobs, leaseExpires(j) PROVE Candidates
  BY <1>0, <1>4, <1>q, Fields DEF leaseExpires, Quiet, RowsOK, jobRow
<1>5. ASSUME NEW j \in Jobs, NEW to \in {"approved", "rejected", "changes_requested"},
           reviewAssetCandidate(j, to)
     PROVE Candidates
  BY <1>5 DEF Candidates
<1>6. ASSUME NEW w \in Workers, load(w) PROVE Candidates
  BY <1>0, <1>6, <1>q, Fields DEF load, Quiet, RowsOK, jobRow
<1>7. ASSUME NEW w \in Workers, markAssetJobClaimed(w) PROVE Candidates
  BY <1>0, <1>7, <1>q, Fields DEF markAssetJobClaimed, Quiet, RowsOK, jobRow
<1>8. ASSUME NEW w \in Workers, markAssetJobRunning(w) PROVE Candidates
  BY <1>0, <1>8, <1>q, Fields DEF markAssetJobRunning, Quiet, RowsOK, jobRow
<1>9. ASSUME NEW w \in Workers, submit(w) PROVE Candidates
  BY <1>0, <1>9, <1>q, Fields DEF submit, Quiet, RowsOK, jobRow
<1>10. ASSUME NEW w \in Workers, markAssetJobSubmitted(w) PROVE Candidates
  BY <1>0, <1>10, <1>q, Fields DEF markAssetJobSubmitted, Quiet, RowsOK, jobRow
<1>11. ASSUME NEW w \in Workers, getResult(w) PROVE Candidates
  BY <1>0, <1>11, <1>q, Fields DEF getResult, Quiet, RowsOK, jobRow
<1>12. ASSUME NEW w \in Workers, createAssetCandidate(w) PROVE Candidates
  BY <1>12 DEF Candidates
<1>13. ASSUME NEW w \in Workers, markAssetJobSucceeded(w) PROVE Candidates
  BY <1>13 DEF Candidates
<1>14. ASSUME NEW w \in Workers, readAttempts(w) PROVE Candidates
  BY <1>0, <1>14, <1>q, Fields DEF readAttempts, Quiet, RowsOK, jobRow
<1>15. ASSUME NEW w \in Workers, markAssetJobFailed(w) PROVE Candidates
  BY <1>0, <1>15, <1>q, Fields DEF markAssetJobFailed, Quiet, RowsOK, jobRow
<1>16. ASSUME NEW w \in Workers, statementFails(w) PROVE Candidates
  BY <1>0, <1>16, <1>q, Fields DEF statementFails, Quiet, RowsOK, jobRow
<1>17. ASSUME NEW w \in Workers, workerCrash(w) PROVE Candidates
  BY <1>0, <1>17, <1>q, Fields DEF workerCrash, Quiet, RowsOK, jobRow
<1>18. ASSUME NEW w \in Workers, NEW j \in Jobs, deliver(w, j) PROVE Candidates
  BY <1>0, <1>18, <1>q, Fields DEF deliver, Quiet, RowsOK, jobRow
<1> QED
  BY <1>1, <1>2, <1>3, <1>4, <1>5, <1>6, <1>7, <1>8, <1>9,
     <1>10, <1>11, <1>12, <1>13, <1>14, <1>15, <1>16, <1>17, <1>18 DEF Next, Api, WorkerStep

(* A candidate stays, and keeps its image.                                 *)
LEMMA CandidateKept ==
  ASSUME TypeOK, [Next]_vars
  PROVE  \A j \in Jobs : candidate[j].status # "absent" =>
           candidate'[j].status # "absent" /\ candidate'[j].image = candidate[j].image
<1> DEFINE Kept == \A j \in Jobs : candidate[j].status # "absent" =>
                     candidate'[j].status # "absent" /\ candidate'[j].image = candidate[j].image
<1>0. RunsOK /\ CandidatesOK
  BY DEF TypeOK
<1>1. CASE Quiet
  BY <1>1 DEF Quiet
<1>2. ASSUME NEW w \in Workers, createAssetCandidate(w) PROVE Kept
  BY <1>0, <1>2 DEF createAssetCandidate, CandidatesOK
<1>3. ASSUME NEW w \in Workers, markAssetJobSucceeded(w) PROVE Kept
  BY <1>3 DEF markAssetJobSucceeded
<1>4. ASSUME NEW j \in Jobs, NEW to \in {"approved", "rejected", "changes_requested"},
             reviewAssetCandidate(j, to)
      PROVE Kept
  BY <1>0, <1>4 DEF reviewAssetCandidate, CandidatesOK
<1> QED
  BY <1>1, <1>2, <1>3, <1>4, CandidatesStep DEF Candidates

(* A run that is about to report success has seen its image stored.        *)
LEMMA CarriedStep == TypeOK /\ Carried /\ [Next]_vars => Carried'
<1> SUFFICES ASSUME TypeOK, Carried, [Next]_vars, NEW v \in Workers, exec'[v].pc = "succeed"
             PROVE  /\ candidate'[exec'[v].job].status # "absent"
                    /\ candidate'[exec'[v].job].image = exec'[v].image
  BY DEF Carried
<1>0. RunsOK /\ CandidatesOK
  BY DEF TypeOK
<1>1. CASE exec'[v] = exec[v]
  BY <1>0, <1>1, CandidateKept, Fields DEF Carried
<1>2. CASE createAssetCandidate(v)
  <2>1. exec[v].job \in Jobs
    BY <1>0, <1>2, Fields DEF createAssetCandidate
  <2>2. "succeed" \in Labels
    BY DEF Labels
  <2>3. CASE Goto(v, "succeed") /\ (\/ candidate[exec[v].job].status = "absent"
                                   \/ sameCandidate(candidate[exec[v].job], exec[v].image))
    <3>1. exec'[v].job = exec[v].job /\ exec'[v].image = exec[v].image
      BY <1>0, <2>2, <2>3, Moved DEF Moves
    <3> QED
      BY <1>0, <1>2, <2>1, <2>3, <3>1 DEF createAssetCandidate, sameCandidate, CandidatesOK
  <2>4. CASE Catch(v, FALSE)
    BY <1>0, <2>4, Caught DEF Moves
  <2> QED
    BY <1>2, <2>3, <2>4 DEF createAssetCandidate
<1> QED
  BY <1>1, <1>2, ArriveStep DEF Arrives

(* A run that is about to store an image has fetched it from its own       *)
(* prompt.                                                                 *)
LEMMA FetchedStep == TypeOK /\ Fetched /\ [Next]_vars => Fetched'
<1> SUFFICES ASSUME TypeOK, Fetched, [Next]_vars, NEW v \in Workers, exec'[v].pc = "candidate"
             PROVE  exec'[v].image = Image(exec'[v].job, exec'[v].external)
  BY DEF Fetched, Image
<1>0. RunsOK
  BY DEF TypeOK
<1>1. CASE exec'[v] = exec[v]
  BY <1>1 DEF Fetched
<1>2. CASE getResult(v)
  BY <1>0, <1>2, ResultEffect DEF Moves
<1> QED
  BY <1>1, <1>2, ArriveStep DEF Arrives

(* A job that succeeded has a candidate: the run that reported it had      *)
(* seen it stored.                                                         *)
LEMMA SucceededStep ==
  TypeOK /\ Carried /\ SucceededCarriesCandidate /\ [Next]_vars => SucceededCarriesCandidate'
<1> SUFFICES ASSUME TypeOK, Carried, SucceededCarriesCandidate, [Next]_vars
             PROVE  SucceededCarriesCandidate'
  OBVIOUS
<1>0. RunsOK /\ RowsOK
  BY DEF TypeOK
<1>k. ASSUME UNCHANGED media,
             \A j \in Jobs : status'[j] = "succeeded" => status[j] = "succeeded"
      PROVE SucceededCarriesCandidate'
  BY <1>k, CandidateKept DEF SucceededCarriesCandidate
<1>1. CASE Quiet
  BY <1>1, <1>k DEF Quiet
<1>2. ASSUME NEW w \in Workers, createAssetCandidate(w) PROVE SucceededCarriesCandidate'
  BY <1>2, <1>k DEF createAssetCandidate, jobRow
<1>3. ASSUME NEW w \in Workers, markAssetJobSucceeded(w) PROVE SucceededCarriesCandidate'
  BY <1>0, <1>3, Fields
     DEF markAssetJobSucceeded, Carried, SucceededCarriesCandidate, RowsOK
<1>4. ASSUME NEW j \in Jobs, NEW to \in {"approved", "rejected", "changes_requested"},
             reviewAssetCandidate(j, to)
      PROVE SucceededCarriesCandidate'
  BY <1>4, <1>k DEF reviewAssetCandidate, jobRow
<1> QED
  BY <1>1, <1>2, <1>3, <1>4, CandidatesStep DEF Candidates

(* What a review decides about the image is what becomes of the asset.     *)
LEMMA ReviewedStep == TypeOK /\ AssetIsReviewedImage /\ [Next]_vars => AssetIsReviewedImage'
<1> SUFFICES ASSUME TypeOK, AssetIsReviewedImage, [Next]_vars PROVE AssetIsReviewedImage'
  OBVIOUS
<1>0. RunsOK /\ RowsOK /\ CandidatesOK
  BY DEF TypeOK
<1>1. CASE Quiet
  BY <1>1 DEF Quiet, AssetIsReviewedImage
<1>2. ASSUME NEW w \in Workers, createAssetCandidate(w) PROVE AssetIsReviewedImage'
  BY <1>0, <1>2, Fields DEF createAssetCandidate, AssetIsReviewedImage, CandidatesOK
<1>3. ASSUME NEW w \in Workers, markAssetJobSucceeded(w) PROVE AssetIsReviewedImage'
  BY <1>3 DEF markAssetJobSucceeded, AssetIsReviewedImage
<1>4. ASSUME NEW j \in Jobs, NEW to \in {"approved", "rejected", "changes_requested"},
             reviewAssetCandidate(j, to)
      PROVE AssetIsReviewedImage'
  BY <1>0, <1>4 DEF reviewAssetCandidate, reviewTransitions, AssetIsReviewedImage,
                    CandidatesOK, RowsOK
<1> QED
  BY <1>1, <1>2, <1>3, <1>4, CandidatesStep DEF Candidates

(* The reviewed image and the asset made of it stay as they were decided.  *)
LEMMA DecidedKept ==
  ASSUME TypeOK, [Next]_vars
  PROVE  \A j \in Jobs : candidate[j].status \in {"approved", "rejected"} =>
           candidate'[j] = candidate[j] /\ asset'[j] = asset[j]
<1> DEFINE Kept == \A j \in Jobs : candidate[j].status \in {"approved", "rejected"} =>
                     candidate'[j] = candidate[j] /\ asset'[j] = asset[j]
<1>0. RunsOK /\ RowsOK /\ CandidatesOK
  BY DEF TypeOK
<1>1. CASE Quiet
  BY <1>1 DEF Quiet
<1>2. ASSUME NEW w \in Workers, createAssetCandidate(w) PROVE Kept
  BY <1>0, <1>2, Fields DEF createAssetCandidate, CandidatesOK
<1>3. ASSUME NEW w \in Workers, markAssetJobSucceeded(w) PROVE Kept
  BY <1>3 DEF markAssetJobSucceeded
<1>4. ASSUME NEW j \in Jobs, NEW to \in {"approved", "rejected", "changes_requested"},
             reviewAssetCandidate(j, to)
      PROVE Kept
  BY <1>0, <1>4 DEF reviewAssetCandidate, reviewTransitions, CandidatesOK, RowsOK
<1> QED
  BY <1>1, <1>2, <1>3, <1>4, CandidatesStep DEF Candidates

-----------------------------------------------------------------------------
(* Runs that never overlap.                                                *)

(* A step of a run keeps its job or lets go of it, and does nothing to the *)
(* other runs.                                                             *)
LEMMA WorkerEffect ==
  ASSUME TypeOK, NEW w \in Workers, WorkerStep(w)
  PROVE  /\ Others(w) /\ exec'[w].job \in {exec[w].job, NoJob}
         /\ exec[w].job \in Jobs /\ overlaps' = overlaps
<1> DEFINE Effect == Others(w) /\ exec'[w].job \in {exec[w].job, NoJob}
<1>0. RunsOK /\ RowsOK
  BY DEF TypeOK
<1>l. \A l \in {"load", "claim", "run", "submit", "submitted", "result", "candidate",
               "succeed", "failRead", "failWrite"} : l \in Labels
  BY DEF Labels
<1>1. ASSUME load(w) PROVE Effect
  BY <1>0, <1>l, <1>1, Moved, Ended DEF load, Moves, Ends
<1>2. ASSUME markAssetJobClaimed(w) PROVE Effect
  BY <1>0, <1>l, <1>2, Moved, Ended DEF markAssetJobClaimed, Moves, Ends
<1>3. ASSUME markAssetJobRunning(w) PROVE Effect
  BY <1>0, <1>3, RunningEffect DEF Moves, Ends
<1>4. ASSUME submit(w) PROVE Effect
  BY <1>0, <1>4, SubmitEffect DEF Moves, Ends
<1>5. ASSUME markAssetJobSubmitted(w) PROVE Effect
  BY <1>0, <1>l, <1>5, Moved DEF markAssetJobSubmitted, Moves, Ends
<1>6. ASSUME getResult(w) PROVE Effect
  BY <1>0, <1>6, ResultEffect DEF Moves, Ends
<1>7. ASSUME createAssetCandidate(w) PROVE Effect
  BY <1>0, <1>l, <1>7, Moved, Caught DEF createAssetCandidate, Moves, Ends
<1>8. ASSUME markAssetJobSucceeded(w) PROVE Effect
  BY <1>0, <1>8, Ended DEF markAssetJobSucceeded, Moves, Ends
<1>9. ASSUME readAttempts(w) PROVE Effect
  BY <1>0, <1>9, ReadEffect DEF Moves, Ends
<1>10. ASSUME markAssetJobFailed(w) PROVE Effect
  BY <1>0, <1>10, Ended DEF markAssetJobFailed, Moves, Ends
<1>11. ASSUME statementFails(w) PROVE Effect
  BY <1>0, <1>l, <1>11, Ended, Caught DEF statementFails, Moves, Ends
<1>12. ASSUME workerCrash(w) PROVE Effect
  BY <1>0, <1>12, Ended DEF workerCrash, Moves, Ends
<1>13. Effect
  BY <1>1, <1>2, <1>3, <1>4, <1>5, <1>6, <1>7, <1>8, <1>9, <1>10, <1>11, <1>12 DEF WorkerStep
<1>14. overlaps' = overlaps
  BY DEF WorkerStep, load, markAssetJobClaimed, markAssetJobRunning, submit,
         markAssetJobSubmitted, getResult, createAssetCandidate, markAssetJobSucceeded,
         readAttempts, markAssetJobFailed, statementFails, workerCrash
<1>15. exec[w].pc # "idle"
  BY DEF WorkerStep, load, markAssetJobClaimed, markAssetJobRunning, submit,
         markAssetJobSubmitted, getResult, createAssetCandidate, markAssetJobSucceeded,
         readAttempts, markAssetJobFailed, statementFails, workerCrash
<1> QED
  BY <1>0, <1>13, <1>14, <1>15, Fields

(* A run keeps its job or lets go of it; only a delivery gives it one,     *)
(* and overlaps are counted nowhere else.                                  *)
LEMMA HeldStep ==
  TypeOK /\ [Next]_vars =>
    \/ overlaps' = overlaps /\ \A v \in Workers : exec'[v].job \in {exec[v].job, NoJob}
    \/ \E w \in Workers, j \in Jobs : deliver(w, j)
<1> SUFFICES ASSUME TypeOK, [Next]_vars, \A w \in Workers, j \in Jobs : ~deliver(w, j)
             PROVE  /\ overlaps' = overlaps
                    /\ \A v \in Workers : exec'[v].job \in {exec[v].job, NoJob}
  OBVIOUS
<1>1. CASE UNCHANGED <<exec, overlaps>>
  BY <1>1
<1>2. ASSUME NEW w \in Workers, WorkerStep(w)
      PROVE  /\ overlaps' = overlaps
             /\ \A v \in Workers : exec'[v].job \in {exec[v].job, NoJob}
  BY <1>2, WorkerEffect DEF Others
<1> QED
  BY <1>1, <1>2
  DEF Next, Api, vars, createAssetJob, cancelAssetJob, leaseExpires, reviewAssetCandidate

(* Deliveries are counted, so runs that have not overlapped are alone.     *)
LEMMA AloneStep ==
  TypeOK /\ Solo /\ [Next]_vars /\ overlaps' = 0 => overlaps = 0 /\ Alone /\ Alone'
<1> SUFFICES ASSUME TypeOK, Solo, [Next]_vars, overlaps' = 0
             PROVE  overlaps = 0 /\ Alone /\ Alone'
  OBVIOUS
<1>0. RunsOK /\ overlaps \in Nat
  BY DEF TypeOK
<1>1. CASE overlaps' = overlaps /\ \A v \in Workers : exec'[v].job \in {exec[v].job, NoJob}
  BY <1>1 DEF Solo, Alone
<1>2. ASSUME NEW w \in Workers, NEW j \in Jobs, deliver(w, j)
      PROVE  overlaps = 0 /\ Alone /\ Alone'
  <2>1. overlaps = 0 /\ ~ \E v \in Workers : exec[v].job = j
    BY <1>0, <1>2 DEF deliver
  <2>2. Others(w) /\ exec'[w].job = j
    BY <1>0, <1>2, Delivered DEF deliver
  <2> QED
    BY <2>1, <2>2 DEF Solo, Alone, Others
<1> QED
  BY <1>1, <1>2, HeldStep

(* While a run that is alone stands still, its job can only be cancelled.  *)
LEMMA RowKept ==
  ASSUME TypeOK, Known, Alone, [Next]_vars,
         NEW v \in Workers, exec'[v] = exec[v], NEW i \in Jobs, exec[v].job = i
  PROVE  /\ external'[i] = external[i]
         /\ \/ status'[i] = status[i]
            \/ status[i] \in Active /\ status'[i] = "cancelled"
<1> DEFINE Kept == /\ external'[i] = external[i]
                   /\ \/ status'[i] = status[i]
                      \/ status[i] \in Active /\ status'[i] = "cancelled"
<1>0. RunsOK /\ RowsOK
  BY DEF TypeOK
<1>j. i \in Jobs /\ i # NoJob /\ status[i] # "absent"
  BY <1>0, Fields DEF Known
<1>l. \A l \in {"load", "claim", "run", "submit", "submitted", "result", "candidate",
               "succeed", "failRead", "failWrite"} : l \in Labels
  BY DEF Labels
<1>a. ASSUME NEW w \in Workers, exec[w].pc # "idle", exec'[w].pc # exec[w].pc
      PROVE  exec[w].job # i
  BY <1>a, <1>j DEF Alone
<1>r. ASSUME UNCHANGED <<external, status>> PROVE Kept
  BY <1>r
<1>1. CASE UNCHANGED vars
  BY <1>1, <1>r DEF vars
<1>2. ASSUME NEW j \in Jobs, createAssetJob(j) PROVE Kept
  BY <1>0, <1>j, <1>2 DEF createAssetJob, RowsOK
<1>3. ASSUME NEW j \in Jobs, cancelAssetJob(j) PROVE Kept
  BY <1>0, <1>j, <1>3 DEF cancelAssetJob, RowsOK, Active
<1>4. ASSUME NEW j \in Jobs, leaseExpires(j) PROVE Kept
  BY <1>4, <1>r DEF leaseExpires, jobRow
<1>5. ASSUME NEW j \in Jobs, NEW to \in {"approved", "rejected", "changes_requested"},
           reviewAssetCandidate(j, to)
     PROVE Kept
  BY <1>5, <1>r DEF reviewAssetCandidate, jobRow
<1>6. ASSUME NEW w \in Workers, load(w) PROVE Kept
  <2>1. exec[w].pc # "idle" /\ exec'[w].pc # exec[w].pc
    BY <1>0, <1>6, <1>l, Moved, Ended DEF load, Moves, Ends
  <2>2. exec[w].job \in Jobs /\ exec[w].job # i
    BY <1>0, <1>a, <2>1, Fields
  <2> QED
    BY <1>0, <1>j, <1>6, <2>2 DEF load, RowsOK
<1>7. ASSUME NEW w \in Workers, markAssetJobClaimed(w) PROVE Kept
  <2>1. exec[w].pc # "idle" /\ exec'[w].pc # exec[w].pc
    BY <1>0, <1>7, <1>l, Moved, Ended DEF markAssetJobClaimed, Moves, Ends
  <2>2. exec[w].job \in Jobs /\ exec[w].job # i
    BY <1>0, <1>a, <2>1, Fields
  <2> QED
    BY <1>0, <1>j, <1>7, <2>2 DEF markAssetJobClaimed, RowsOK
<1>8. ASSUME NEW w \in Workers, markAssetJobRunning(w) PROVE Kept
  <2>1. exec[w].pc # "idle" /\ exec'[w].pc # exec[w].pc
    <3>1. exec[w].pc = "run"
      BY <1>8 DEF markAssetJobRunning
    <3> QED
      BY <1>0, <1>8, <3>1, RunningEffect DEF Moves, Ends
  <2>2. exec[w].job \in Jobs /\ exec[w].job # i
    BY <1>0, <1>a, <2>1, Fields
  <2> QED
    BY <1>0, <1>j, <1>8, <2>2 DEF markAssetJobRunning, RowsOK
<1>9. ASSUME NEW w \in Workers, submit(w) PROVE Kept
  BY <1>9, <1>r DEF submit, jobRow
<1>10. ASSUME NEW w \in Workers, markAssetJobSubmitted(w) PROVE Kept
  <2>1. exec[w].pc # "idle" /\ exec'[w].pc # exec[w].pc
    BY <1>0, <1>10, <1>l, Moved DEF markAssetJobSubmitted, Moves, Ends
  <2>2. exec[w].job \in Jobs /\ exec[w].job # i
    BY <1>0, <1>a, <2>1, Fields
  <2> QED
    BY <1>0, <1>j, <1>10, <2>2 DEF markAssetJobSubmitted, RowsOK
<1>11. ASSUME NEW w \in Workers, getResult(w) PROVE Kept
  BY <1>11, <1>r DEF getResult, jobRow
<1>12. ASSUME NEW w \in Workers, createAssetCandidate(w) PROVE Kept
  BY <1>12, <1>r DEF createAssetCandidate, jobRow
<1>13. ASSUME NEW w \in Workers, markAssetJobSucceeded(w) PROVE Kept
  <2>1. exec[w].pc # "idle" /\ exec'[w].pc # exec[w].pc
    BY <1>0, <1>13, <1>l, Ended DEF markAssetJobSucceeded, Moves, Ends
  <2>2. exec[w].job \in Jobs /\ exec[w].job # i
    BY <1>0, <1>a, <2>1, Fields
  <2> QED
    BY <1>0, <1>j, <1>13, <2>2 DEF markAssetJobSucceeded, RowsOK
<1>14. ASSUME NEW w \in Workers, readAttempts(w) PROVE Kept
  BY <1>14, <1>r DEF readAttempts, jobRow
<1>15. ASSUME NEW w \in Workers, markAssetJobFailed(w) PROVE Kept
  <2>1. exec[w].pc # "idle" /\ exec'[w].pc # exec[w].pc
    BY <1>0, <1>15, <1>l, Ended DEF markAssetJobFailed, Moves, Ends
  <2>2. exec[w].job \in Jobs /\ exec[w].job # i
    BY <1>0, <1>a, <2>1, Fields
  <2> QED
    BY <1>0, <1>j, <1>15, <2>2 DEF markAssetJobFailed, RowsOK
<1>16. ASSUME NEW w \in Workers, statementFails(w) PROVE Kept
  BY <1>16, <1>r DEF statementFails, jobRow
<1>17. ASSUME NEW w \in Workers, workerCrash(w) PROVE Kept
  BY <1>17, <1>r DEF workerCrash, jobRow
<1>18. ASSUME NEW w \in Workers, NEW j \in Jobs, deliver(w, j) PROVE Kept
  BY <1>18, <1>r DEF deliver, jobRow
<1> QED
  BY <1>1, <1>2, <1>3, <1>4, <1>5, <1>6, <1>7, <1>8, <1>9,
     <1>10, <1>11, <1>12, <1>13, <1>14, <1>15, <1>16, <1>17, <1>18 DEF Next, Api, WorkerStep

(* Without overlap, a run that goes on works on the prompt its job has     *)
(* stored.                                                                 *)
LEMMA OwnPromptStep ==
  TypeOK /\ Known /\ Alone /\ OwnPrompt /\ [Next]_vars => OwnPrompt'
<1> SUFFICES ASSUME TypeOK, Known, Alone, OwnPrompt, [Next]_vars, NEW v \in Workers,
                    NEW j \in Jobs, exec'[v].job = j
             PROVE  /\ exec'[v].pc \in {"submit", "submitted"} =>
                         external'[j] = 0 /\ status'[j] \in {"running", "cancelled"}
                    /\ exec'[v].pc \in {"result", "candidate"} =>
                         IF external'[j] = 0 THEN status'[j] \in Over
                                             ELSE exec'[v].external = external'[j]
  <2>1. TypeOK /\ Known /\ [Next]_vars => RunsOK'
    BY RunsStep
  <2>2. RunsOK' => \A v \in Workers : exec'[v].pc # "idle" => exec'[v].job \in Jobs
    BY DEF RunsOK, Runs
  <2> QED
    BY <2>1, <2>2 DEF OwnPrompt
<1>0. RunsOK /\ RowsOK
  BY DEF TypeOK
<1>l. \A l \in {"result", "submitted"} : l \in Labels
  BY DEF Labels
<1>1. CASE exec'[v] = exec[v]
  BY <1>1, RowKept DEF OwnPrompt, Over, Active
<1>2. CASE markAssetJobRunning(v)
  <2>1. UNCHANGED external
    BY <1>2 DEF markAssetJobRunning
  <2> QED
    BY <1>0, <1>2, <2>1, RunningEffect DEF Moves, Ends
<1>3. CASE submit(v)
  <2>1. exec[v].pc = "submit" /\ UNCHANGED <<external, status>>
    BY <1>3 DEF submit, jobRow
  <2> QED
    BY <1>0, <1>3, <2>1, SubmitEffect DEF Moves, OwnPrompt
<1>4. CASE markAssetJobSubmitted(v)
  <2>1. /\ exec[v].pc = "submitted" /\ exec[v].job = j /\ exec'[v].external = exec[v].external
        /\ exec'[v].pc = "result"
    BY <1>0, <1>4, <1>l, Moved DEF markAssetJobSubmitted, Moves
  <2>2. external[j] = 0 /\ status[j] \in {"running", "cancelled"} /\ exec[v].external # 0
    BY <1>0, <2>1 DEF OwnPrompt, RunsOK, RowsOK
  <2> QED
    BY <1>0, <1>4, <2>1, <2>2 DEF markAssetJobSubmitted, RowsOK, Over
<1>5. CASE getResult(v)
  <2>1. exec[v].pc = "result" /\ UNCHANGED <<external, status>>
    BY <1>5 DEF getResult, jobRow
  <2> QED
    BY <1>0, <1>5, <2>1, ResultEffect DEF Moves, OwnPrompt
<1> QED
  BY <1>1, <1>2, <1>3, <1>4, <1>5, ArriveStep DEF Arrives

(* A job that is over, and whose runs are harmless, stays over.            *)
LEMMA OverStep ==
  ASSUME TypeOK, [Next]_vars, NEW i \in Jobs, external[i] = 0, status[i] \in Over,
         \A v \in Workers : exec[v].job = i => Harmless(v)
  PROVE  /\ external'[i] = 0 /\ status'[i] \in Over
         /\ \A v \in Workers : exec'[v].job = i => Harmless(v)'
<1> DEFINE Kept == external'[i] = 0 /\ status'[i] \in Over
           Calm == \A v \in Workers : exec'[v].job = i => Harmless(v)'
<1>0. RunsOK /\ RowsOK
  BY DEF TypeOK
<1>i. i # NoJob
  OBVIOUS
<1>l. \A l \in {"load", "claim", "run", "submit", "submitted", "result", "candidate",
               "succeed", "failRead", "failWrite"} : l \in Labels
  BY DEF Labels
<1>r. ASSUME UNCHANGED <<external, status>> PROVE Kept
  BY <1>r
<1>n. ASSUME UNCHANGED exec PROVE Calm
  BY <1>n DEF Harmless
<1>o. ASSUME NEW w \in Workers, Others(w), exec'[w].job = i => Harmless(w)' PROVE Calm
  BY <1>o DEF Harmless, Others
<1>1. CASE UNCHANGED vars
  BY <1>1, <1>r, <1>n DEF vars
<1>2. ASSUME NEW j \in Jobs, createAssetJob(j) PROVE Kept /\ Calm
  BY <1>0, <1>2, <1>n DEF createAssetJob, RowsOK, Over
<1>3. ASSUME NEW j \in Jobs, cancelAssetJob(j) PROVE Kept /\ Calm
  BY <1>0, <1>3, <1>n DEF cancelAssetJob, RowsOK, Over
<1>4. ASSUME NEW j \in Jobs, leaseExpires(j) PROVE Kept /\ Calm
  BY <1>0, <1>4, <1>r, <1>n DEF leaseExpires, jobRow
<1>5. ASSUME NEW j \in Jobs, NEW to \in {"approved", "rejected", "changes_requested"},
           reviewAssetCandidate(j, to)
     PROVE Kept /\ Calm
  BY <1>0, <1>5, <1>r, <1>n DEF reviewAssetCandidate, jobRow
<1>6. ASSUME NEW w \in Workers, load(w) PROVE Kept /\ Calm
  <2>1. exec[w].job \in Jobs /\ (exec[w].job = i => Harmless(w))
    BY <1>0, <1>6, Fields DEF load
  <2>2. Kept
    BY <1>0, <1>6, <2>1 DEF load, RowsOK, Over, Harmless, shouldRetry, jobRow
  <2>3. Others(w) /\ (exec'[w].job = i => Harmless(w)')
    BY <1>0, <1>i, <1>6, <1>l, <2>1, Moved, Ended DEF load, Moves, Ends, Harmless, Over, RowsOK
  <2> QED
    BY <1>o, <2>2, <2>3
<1>7. ASSUME NEW w \in Workers, markAssetJobClaimed(w) PROVE Kept /\ Calm
  <2>1. exec[w].job \in Jobs /\ (exec[w].job = i => Harmless(w))
    BY <1>0, <1>7, Fields DEF markAssetJobClaimed
  <2>2. Kept
    BY <1>0, <1>7, <2>1 DEF markAssetJobClaimed, RowsOK, Over, Harmless, shouldRetry, jobRow
  <2>3. Others(w) /\ (exec'[w].job = i => Harmless(w)')
    BY <1>0, <1>i, <1>7, <1>l, <2>1, Moved, Ended
      DEF markAssetJobClaimed, Moves, Ends, Harmless, Over, RowsOK
  <2> QED
    BY <1>o, <2>2, <2>3
<1>8. ASSUME NEW w \in Workers, markAssetJobRunning(w) PROVE Kept /\ Calm
  <2>1. exec[w].pc = "run" /\ exec[w].job \in Jobs
    BY <1>0, <1>8, Fields DEF markAssetJobRunning
  <2>2. Others(w) /\ (exec'[w].job = i => exec[w].job = i /\ Harmless(w)')
    BY <1>0, <1>i, <1>8, <2>1, RunningEffect DEF Moves, Ends, Harmless
  <2> QED
    BY <1>0, <1>i, <1>8, <1>o, <2>1, <2>2 DEF markAssetJobRunning, RowsOK, Harmless, Over, jobRow
<1>9. ASSUME NEW w \in Workers, submit(w) PROVE Kept /\ Calm
  <2>1. exec[w].pc = "submit" /\ exec[w].job \in Jobs
    BY <1>0, <1>9, Fields DEF submit
  <2>2. Others(w) /\ (exec'[w].job = i => exec[w].job = i /\ Harmless(w)')
    BY <1>0, <1>i, <1>9, <2>1, SubmitEffect DEF Moves, Ends, Harmless
  <2> QED
    BY <1>0, <1>i, <1>9, <1>o, <2>1, <2>2 DEF submit, RowsOK, Harmless, Over, jobRow
<1>10. ASSUME NEW w \in Workers, markAssetJobSubmitted(w) PROVE Kept /\ Calm
  <2>1. exec[w].job \in Jobs /\ (exec[w].job = i => Harmless(w))
    BY <1>0, <1>10, Fields DEF markAssetJobSubmitted
  <2>2. Kept
    BY <1>0, <1>10, <2>1 DEF markAssetJobSubmitted, RowsOK, Over, Harmless, shouldRetry, jobRow
  <2>3. Others(w) /\ (exec'[w].job = i => Harmless(w)')
    BY <1>0, <1>i, <1>10, <1>l, <2>1, Moved
      DEF markAssetJobSubmitted, Moves, Ends, Harmless, Over, RowsOK
  <2> QED
    BY <1>o, <2>2, <2>3
<1>11. ASSUME NEW w \in Workers, getResult(w) PROVE Kept /\ Calm
  <2>1. exec[w].pc = "result" /\ exec[w].job \in Jobs
    BY <1>0, <1>11, Fields DEF getResult
  <2>2. Others(w) /\ (exec'[w].job = i => exec[w].job = i /\ Harmless(w)')
    BY <1>0, <1>i, <1>11, <2>1, ResultEffect DEF Moves, Ends, Harmless
  <2> QED
    BY <1>0, <1>i, <1>11, <1>o, <2>1, <2>2 DEF getResult, RowsOK, Harmless, Over, jobRow
<1>12. ASSUME NEW w \in Workers, createAssetCandidate(w) PROVE Kept /\ Calm
  <2>1. exec[w].job \in Jobs /\ (exec[w].job = i => Harmless(w))
    BY <1>0, <1>12, Fields DEF createAssetCandidate
  <2>2. Kept
    BY <1>0, <1>12, <2>1 DEF createAssetCandidate, RowsOK, Over, Harmless, shouldRetry, jobRow
  <2>3. Others(w) /\ (exec'[w].job = i => Harmless(w)')
    BY <1>0, <1>i, <1>12, <1>l, <2>1, Moved, Caught
      DEF createAssetCandidate, Moves, Ends, Harmless, Over, RowsOK
  <2> QED
    BY <1>o, <2>2, <2>3
<1>13. ASSUME NEW w \in Workers, markAssetJobSucceeded(w) PROVE Kept /\ Calm
  <2>1. exec[w].job \in Jobs /\ (exec[w].job = i => Harmless(w))
    BY <1>0, <1>13, Fields DEF markAssetJobSucceeded
  <2>2. Kept
    BY <1>0, <1>13, <2>1 DEF markAssetJobSucceeded, RowsOK, Over, Harmless, shouldRetry, jobRow
  <2>3. Others(w) /\ (exec'[w].job = i => Harmless(w)')
    BY <1>0, <1>i, <1>13, <1>l, <2>1, Ended
      DEF markAssetJobSucceeded, Moves, Ends, Harmless, Over, RowsOK
  <2> QED
    BY <1>o, <2>2, <2>3
<1>14. ASSUME NEW w \in Workers, readAttempts(w) PROVE Kept /\ Calm
  <2>1. exec[w].pc = "failRead" /\ exec[w].job \in Jobs
    BY <1>0, <1>14, Fields DEF readAttempts
  <2>2. Others(w) /\ (exec'[w].job = i => exec[w].job = i /\ Harmless(w)')
    BY <1>0, <1>i, <1>14, <2>1, ReadEffect DEF Moves, Ends, Harmless
  <2> QED
    BY <1>0, <1>i, <1>14, <1>o, <2>1, <2>2 DEF readAttempts, RowsOK, Harmless, Over, jobRow
<1>15. ASSUME NEW w \in Workers, markAssetJobFailed(w) PROVE Kept /\ Calm
  <2>1. exec[w].job \in Jobs /\ (exec[w].job = i => Harmless(w))
    BY <1>0, <1>15, Fields DEF markAssetJobFailed
  <2>2. Kept
    BY <1>0, <1>15, <2>1 DEF markAssetJobFailed, RowsOK, Over, Harmless, shouldRetry, jobRow
  <2>3. Others(w) /\ (exec'[w].job = i => Harmless(w)')
    BY <1>0, <1>i, <1>15, <1>l, <2>1, Ended
      DEF markAssetJobFailed, Moves, Ends, Harmless, Over, RowsOK
  <2> QED
    BY <1>o, <2>2, <2>3
<1>16. ASSUME NEW w \in Workers, statementFails(w) PROVE Kept /\ Calm
  <2>1. Others(w) /\ (exec'[w].job = i => Harmless(w)')
    BY <1>0, <1>i, <1>16, <1>l, Ended, Caught DEF statementFails, Moves, Ends, Harmless
  <2> QED
    BY <1>16, <1>r, <1>o, <2>1 DEF statementFails, jobRow
<1>17. ASSUME NEW w \in Workers, workerCrash(w) PROVE Kept /\ Calm
  <2>1. Others(w) /\ (exec'[w].job = i => Harmless(w)')
    BY <1>0, <1>i, <1>17, <1>l, Ended DEF workerCrash, Moves, Ends, Harmless
  <2> QED
    BY <1>17, <1>r, <1>o, <2>1 DEF workerCrash, jobRow
<1>18. ASSUME NEW w \in Workers, NEW j \in Jobs, deliver(w, j) PROVE Kept /\ Calm
  <2>1. Others(w) /\ exec'[w].pc = "load"
    BY <1>0, <1>18, Delivered DEF deliver
  <2> QED
    BY <1>18, <1>r, <1>o, <2>1 DEF deliver, jobRow, Harmless
<1> QED
  BY <1>1, <1>2, <1>3, <1>4, <1>5, <1>6, <1>7, <1>8, <1>9,
     <1>10, <1>11, <1>12, <1>13, <1>14, <1>15, <1>16, <1>17, <1>18 DEF Next, Api, WorkerStep

(* Without overlap, a candidate shows the image of the prompt its job has  *)
(* stored.                                                                 *)
LEMMA CandidateOfPromptStep ==
  TypeOK /\ Known /\ Fetched /\ Alone /\ OwnPrompt /\ CandidateOfPrompt /\ Alone' /\ [Next]_vars
    => CandidateOfPrompt'
<1> SUFFICES ASSUME TypeOK, Known, Fetched, Alone, OwnPrompt, CandidateOfPrompt, Alone',
                    [Next]_vars, NEW i \in Jobs, candidate'[i].status # "absent"
             PROVE  IF external'[i] = 0
                    THEN /\ status'[i] \in Over
                         /\ \A v \in Workers : exec'[v].job = i => Harmless(v)'
                    ELSE candidate'[i].image = Image(i, external'[i])
  BY DEF CandidateOfPrompt, Image, Harmless
<1>0. RunsOK /\ RowsOK /\ CandidatesOK
  BY DEF TypeOK
<1>l. "succeed" \in Labels
  BY DEF Labels
<1>1. CASE candidate[i].status # "absent" /\ external[i] = 0
  BY <1>1, OverStep DEF CandidateOfPrompt
<1>2. CASE candidate[i].status # "absent" /\ external[i] # 0
  <2>1. candidate'[i].image = Image(i, external[i])
    BY <1>2, CandidateKept DEF CandidateOfPrompt
  <2>2. external'[i] = external[i]
    <3>1. ASSUME NEW w \in Workers, markAssetJobSubmitted(w) PROVE external'[i] = external[i]
      BY <1>0, <1>2, <3>1, Fields DEF markAssetJobSubmitted, OwnPrompt, RowsOK
    <3>2. external' = external \/ \E w \in Workers : markAssetJobSubmitted(w)
      BY DEF Next, Api, WorkerStep, vars, jobRow, createAssetJob, cancelAssetJob,
             leaseExpires, reviewAssetCandidate, load, markAssetJobClaimed,
             markAssetJobRunning, submit, getResult, createAssetCandidate,
             markAssetJobSucceeded, readAttempts, markAssetJobFailed, statementFails,
             workerCrash, deliver
    <3> QED
      BY <3>1, <3>2
  <2> QED
    BY <1>2, <2>1, <2>2
<1>3. CASE candidate[i].status = "absent"
  <2>1. PICK w \in Workers : createAssetCandidate(w)
    <3>1. ~ Quiet
      BY <1>3 DEF Quiet
    <3>2. ASSUME NEW w \in Workers, markAssetJobSucceeded(w) PROVE FALSE
      BY <1>3, <3>2 DEF markAssetJobSucceeded
    <3>3. ASSUME NEW j \in Jobs, NEW to \in {"approved", "rejected", "changes_requested"},
                 reviewAssetCandidate(j, to)
          PROVE FALSE
      BY <1>0, <1>3, <3>3 DEF reviewAssetCandidate, reviewTransitions, CandidatesOK
    <3> QED
      BY <3>1, <3>2, <3>3, CandidatesStep DEF Candidates
  <2>2. exec[w].job = i /\ exec[w].pc = "candidate"
    BY <1>0, <1>3, <2>1, Fields DEF createAssetCandidate, CandidatesOK
  <2>3. candidate'[i].image = Image(i, exec[w].external)
    BY <1>0, <1>3, <2>1, <2>2 DEF createAssetCandidate, Fetched, CandidatesOK
  <2>4. UNCHANGED <<external, status>> /\ Goto(w, "succeed")
    BY <1>3, <2>1, <2>2 DEF createAssetCandidate, jobRow
  <2>5. exec'[w].job = i /\ exec'[w].pc = "succeed"
    BY <1>0, <1>l, <2>2, <2>4, Moved DEF Moves
  <2>6. \A v \in Workers : exec'[v].job = i => Harmless(v)'
    BY <2>5 DEF Alone, Harmless
  <2> QED
    BY <2>2, <2>3, <2>4, <2>6 DEF OwnPrompt
<1> QED
  BY <1>1, <1>2, <1>3

(* What holds while no two runs overlap is kept until two do.              *)
LEMMA SoloStep == TypeOK /\ Known /\ Fetched /\ Solo /\ [Next]_vars => Solo'
<1> SUFFICES ASSUME TypeOK, Known, Fetched, Solo, [Next]_vars, overlaps' = 0
             PROVE  Alone' /\ OwnPrompt' /\ CandidateOfPrompt'
  BY DEF Solo
<1>1. overlaps = 0 /\ Alone /\ Alone'
  BY AloneStep
<1>2. OwnPrompt /\ CandidateOfPrompt
  BY <1>1 DEF Solo
<1> QED
  BY <1>1, <1>2, OwnPromptStep, CandidateOfPromptStep

(* Every step keeps the invariant.                                         *)
LEMMA InvStep == AssetInv /\ [Next]_vars => AssetInv'
<1> SUFFICES ASSUME AssetInv, [Next]_vars PROVE AssetInv'
  OBVIOUS
<1>1. TypeOK'
  BY RowsStep, RunsStep DEF AssetInv, TypeOK, Rows
<1> QED
  BY <1>1, AttemptsStep, KnownStep, CarriedStep, SucceededStep, ReviewedStep, FetchedStep,
     SoloStep DEF AssetInv

-----------------------------------------------------------------------------
(* Every reachable state satisfies the inductive invariant.                *)
THEOREM AssetInvariant == Spec => []AssetInv
  BY InitInv, InvStep, PTL DEF Spec

(* Rows, candidates and runs keep their shape, whatever is delivered,      *)
(* crashes or fails, and a run fetches only prompts ComfyUI has accepted.  *)
THEOREM AssetTypeCorrect == Spec => []TypeOK
<1>1. AssetInv => TypeOK
  BY DEF AssetInv
<1> QED
  BY <1>1, AssetInvariant, PTL

(* A job that is queued, claimed or running has an attempt left, although  *)
(* markAssetJobFailed writes over any status from attempts read before.    *)
THEOREM JobsHaveAttemptsLeft == Spec => []AttemptsLeft
<1>1. AssetInv => AttemptsLeft
  BY DEF AssetInv
<1> QED
  BY <1>1, AssetInvariant, PTL

(* What is shown and approved is one image: the one a succeeded job        *)
(* reports is its candidate's, and an approved asset is the image that was *)
(* under review, also when runs of a job overlap.                          *)
THEOREM OneImage == Spec => [](SucceededCarriesCandidate /\ AssetIsReviewedImage)
<1>1. AssetInv => SucceededCarriesCandidate /\ AssetIsReviewedImage
  BY DEF AssetInv
<1> QED
  BY <1>1, AssetInvariant, PTL

(* An approved asset is the image that was under review, also when runs of  *)
(* the job overlap and each has drawn an image of its own.                 *)
THEOREM ReviewedImageApproved == Spec => []AssetIsReviewedImage
  BY OneImage, PTL

(* An approved or rejected candidate, and its asset, never change again.   *)
THEOREM DecisionStands == Spec => ReviewStands
<1>1. AssetInv /\ [Next]_vars =>
        [\A j \in Jobs : candidate[j].status \in {"approved", "rejected"} =>
           candidate'[j] = candidate[j] /\ asset'[j] = asset[j]]_vars
  BY DecidedKept DEF AssetInv
<1> QED
  BY <1>1, AssetInvariant, PTL DEF Spec, ReviewStands

(* As long as runs of a job have not overlapped, a prompt whose id is      *)
(* stored is taken up again: ComfyUI is never asked for a second one.      *)
THEOREM PromptResumed == Spec => NoSecondPrompt
<1>1. AssetInv /\ [Next]_vars =>
        [\A j \in Jobs : overlaps = 0 /\ external[j] # 0 => prompts'[j] = prompts[j]]_vars
  <2> SUFFICES ASSUME AssetInv, [Next]_vars, NEW j \in Jobs, overlaps = 0, external[j] # 0
               PROVE  prompts'[j] = prompts[j]
    OBVIOUS
  <2>0. RunsOK /\ RowsOK /\ OwnPrompt
    BY DEF AssetInv, TypeOK, Solo
  <2>1. ASSUME NEW w \in Workers, submit(w) PROVE prompts'[j] = prompts[j]
    <3>1. exec[w].pc = "submit" /\ exec[w].job # j /\ exec[w].job \in Jobs
      BY <2>0, <2>1, Fields DEF submit, OwnPrompt
    <3>2. prompts' = [prompts EXCEPT ![exec[w].job] = @ + 1] \/ UNCHANGED prompts
      BY <2>1 DEF submit
    <3> QED
      BY <2>0, <3>1, <3>2 DEF RowsOK
  <2>2. prompts' = prompts \/ \E w \in Workers : submit(w)
    BY DEF Next, Api, WorkerStep, vars, createAssetJob, cancelAssetJob,
           leaseExpires, reviewAssetCandidate, load, markAssetJobClaimed,
           markAssetJobRunning, markAssetJobSubmitted, getResult, createAssetCandidate,
           markAssetJobSucceeded, readAttempts, markAssetJobFailed, statementFails,
           workerCrash, deliver
  <2> QED
    BY <2>1, <2>2
<1> QED
  BY <1>1, AssetInvariant, PTL DEF Spec, NoSecondPrompt

(* As long as runs of a job have not overlapped, an attempt that is        *)
(* repeated brings the image that waits for review, and replays.           *)
THEOREM RepeatedAttemptReplays == Spec => []RerunReplays
<1>1. AssetInv => RerunReplays
  <2> SUFFICES ASSUME AssetInv, overlaps = 0, NEW w \in Workers, exec[w].pc = "candidate",
                      candidate[exec[w].job].status = "pending"
               PROVE  sameCandidate(candidate[exec[w].job], exec[w].image)
    BY DEF RerunReplays
  <2>0. RunsOK /\ Fetched /\ OwnPrompt /\ CandidateOfPrompt
    BY DEF AssetInv, TypeOK, Solo
  <2>1. exec[w].job \in Jobs
    BY <2>0, Fields
  <2>2. external[exec[w].job] # 0
    BY <2>0, <2>1 DEF CandidateOfPrompt, Harmless
  <2> QED
    BY <2>0, <2>1, <2>2 DEF CandidateOfPrompt, OwnPrompt, Fetched, sameCandidate
<1> QED
  BY <1>1, AssetInvariant, PTL

-----------------------------------------------------------------------------
(* What an asset costs: how often ComfyUI is asked to draw for one job.    *)

(* A run that has asked, or has failed: the attempt it will cost is not    *)
(* counted yet.                                                            *)
Asked == {"submitted", "result", "candidate", "succeed", "failRead", "failWrite"}

(* The job may ask again: no prompt is stored, and a run is about to       *)
(* submit one or the job can come back to that.                            *)
Free(i) ==
  /\ external[i] = 0
  /\ \/ status[i] \in Active
     \/ \E w \in Workers : exec[w].job = i /\ exec[w].pc = "submit"
  /\ \A w \in Workers : exec[w].job = i => exec[w].pc \notin Asked

(* Every prompt but one has been paid for with a failed attempt or with a  *)
(* fault, and that one is stored, or in the hands of a run, or the job is  *)
(* over.                                                                   *)
Books(i) ==
  /\ status[i] = "absent" => prompts[i] = 0
  /\ prompts[i] <= attempts[i] + faults + 1
  /\ Free(i) => prompts[i] <= attempts[i] + faults
  /\ \A w \in Workers :
       exec[w].job = i /\ exec[w].pc = "failWrite" => exec[w].seen = attempts[i]

Booked == overlaps = 0 => \A i \in Jobs : Books(i)

(* Without overlapping runs, ComfyUI draws at most one image for a job     *)
(* beyond those that failed attempts and faults account for: neither a     *)
(* lease that expires, nor a cancellation, nor a delivery that is repeated *)
(* costs another.                                                          *)
PromptsBounded ==
  overlaps = 0 => \A j \in Jobs : prompts[j] <= attempts[j] + faults + 1

(* A step of a run changes the row and the prompts of its own job only.    *)
LEMMA RowElsewhere ==
  ASSUME TypeOK, NEW w \in Workers, WorkerStep(w), NEW i \in Jobs, exec[w].job # i
  PROVE  /\ status'[i] = status[i] /\ external'[i] = external[i]
         /\ prompts'[i] = prompts[i] /\ attempts'[i] = attempts[i]
         /\ faults' \in {faults, faults + 1}
<1> DEFINE Kept == /\ status'[i] = status[i] /\ external'[i] = external[i]
                   /\ prompts'[i] = prompts[i] /\ attempts'[i] = attempts[i]
                   /\ faults' \in {faults, faults + 1}
<1>0. RowsOK /\ exec[w].job \in Jobs
  BY WorkerEffect DEF TypeOK
<1>1. ASSUME load(w) PROVE Kept
  BY <1>0, <1>1 DEF load, RowsOK, jobRow
<1>2. ASSUME markAssetJobClaimed(w) PROVE Kept
  BY <1>0, <1>2 DEF markAssetJobClaimed, RowsOK, jobRow
<1>3. ASSUME markAssetJobRunning(w) PROVE Kept
  BY <1>0, <1>3 DEF markAssetJobRunning, RowsOK, jobRow
<1>4. ASSUME submit(w) PROVE Kept
  <2>1. prompts' = [prompts EXCEPT ![exec[w].job] = @ + 1] \/ UNCHANGED prompts
    BY <1>4 DEF submit
  <2>2. UNCHANGED <<jobRow, faults>>
    BY <1>4 DEF submit
  <2> QED
    BY <1>0, <2>1, <2>2 DEF RowsOK, jobRow
<1>5. ASSUME markAssetJobSubmitted(w) PROVE Kept
  BY <1>0, <1>5 DEF markAssetJobSubmitted, RowsOK, jobRow
<1>6. ASSUME getResult(w) PROVE Kept
  BY <1>0, <1>6 DEF getResult, RowsOK, jobRow
<1>7. ASSUME createAssetCandidate(w) PROVE Kept
  BY <1>0, <1>7 DEF createAssetCandidate, RowsOK, jobRow
<1>8. ASSUME markAssetJobSucceeded(w) PROVE Kept
  BY <1>0, <1>8 DEF markAssetJobSucceeded, RowsOK, jobRow
<1>9. ASSUME readAttempts(w) PROVE Kept
  BY <1>0, <1>9 DEF readAttempts, RowsOK, jobRow
<1>10. ASSUME markAssetJobFailed(w) PROVE Kept
  BY <1>0, <1>10 DEF markAssetJobFailed, RowsOK, jobRow
<1>11. ASSUME statementFails(w) PROVE Kept
  BY <1>0, <1>11 DEF statementFails, RowsOK, jobRow, Fault
<1>12. ASSUME workerCrash(w) PROVE Kept
  BY <1>0, <1>12 DEF workerCrash, RowsOK, jobRow, Fault
<1> QED
  BY <1>1, <1>2, <1>3, <1>4, <1>5, <1>6, <1>7, <1>8, <1>9, <1>10, <1>11, <1>12 DEF WorkerStep

(* The books of a job whose run has moved on.                              *)
LEMMA BooksOf ==
  ASSUME NEW i \in Jobs, NEW w \in Workers, RunsOK, Alone, exec[w].job = i,
         Others(w), exec'[w].job \in {i, NoJob},
         status'[i] # "absent",
         prompts'[i] <= attempts'[i] + faults' + 1,
         \/ external'[i] # 0
         \/ status'[i] \notin Active /\ ~(exec'[w].job = i /\ exec'[w].pc = "submit")
         \/ exec'[w].job = i /\ exec'[w].pc \in Asked
         \/ prompts'[i] <= attempts'[i] + faults',
         exec'[w].job = i /\ exec'[w].pc = "failWrite" => exec'[w].seen = attempts'[i]
  PROVE  Books(i)'
<1>1. i # NoJob
  OBVIOUS
<1>2. \A v \in Workers : exec'[v].job = i => v = w
  BY <1>1 DEF Alone, Others
<1>3. Free(i)' => prompts'[i] <= attempts'[i] + faults'
  BY <1>2 DEF Free
<1> QED
  BY <1>2, <1>3 DEF Books

(* The books of a job with a run of its own, after a step of that run.     *)
LEMMA BooksRun ==
  ASSUME TypeOK, Known, Carried, Alone, OwnPrompt, CandidateOfPrompt,
         NEW w \in Workers, WorkerStep(w), NEW i \in Jobs, exec[w].job = i, Books(i)
  PROVE  Books(i)'
<1>0. /\ RunsOK /\ RowsOK /\ faults \in Nat
      /\ attempts[i] \in Nat /\ prompts[i] \in Nat /\ external[i] \in Nat
      /\ exec[w].pc # "idle" => status[i] # "absent"
  BY DEF TypeOK, RowsOK, Known
<1>1. Others(w) /\ exec'[w].job \in {i, NoJob} /\ i # NoJob
  BY WorkerEffect
<1>2. /\ prompts[i] <= attempts[i] + faults + 1
      /\ exec[w].pc = "failWrite" => exec[w].seen = attempts[i]
  BY DEF Books
<1>3. /\ external[i] = 0 /\ exec[w].pc \notin Asked /\ (status[i] \in Active \/ exec[w].pc = "submit")
           => prompts[i] <= attempts[i] + faults
  BY <1>1 DEF Books, Free, Alone
<1>l. \A l \in {"load", "claim", "run", "submit", "submitted", "result", "candidate",
               "succeed", "failRead", "failWrite"} : l \in Labels
  BY DEF Labels
<1>b. ASSUME status'[i] # "absent",
             prompts'[i] <= attempts'[i] + faults' + 1,
             \/ external'[i] # 0
             \/ status'[i] \notin Active /\ ~(exec'[w].job = i /\ exec'[w].pc = "submit")
             \/ exec'[w].job = i /\ exec'[w].pc \in Asked
             \/ prompts'[i] <= attempts'[i] + faults',
             exec'[w].job = i /\ exec'[w].pc = "failWrite" => exec'[w].seen = attempts'[i]
      PROVE  Books(i)'
  BY <1>0, <1>1, <1>b, BooksOf
<1>4. CASE load(w)
  <2>1. exec[w].pc = "load" /\ UNCHANGED <<attempts, external, prompts, faults>>
    BY <1>4 DEF load
  <2>2. status'[i] # "absent" /\ (status'[i] \in Active => status[i] \in Active)
    BY <1>0, <1>4, <2>1 DEF load, RowsOK, Active
  <2>3. exec'[w].pc \in {"claim", "idle"}
    BY <1>0, <1>4, <1>l, Moved, Ended DEF load, Moves, Ends
  <2> QED
    BY <1>b, <1>0, <1>2, <1>3, <2>1, <2>2, <2>3 DEF Asked
<1>5. CASE markAssetJobClaimed(w)
  <2>1. exec[w].pc = "claim" /\ UNCHANGED <<attempts, external, prompts, faults>>
    BY <1>5 DEF markAssetJobClaimed
  <2>2. status'[i] # "absent" /\ (status'[i] \in Active => status[i] \in Active)
    BY <1>0, <1>5, <2>1 DEF markAssetJobClaimed, RowsOK, Active
  <2>3. exec'[w].pc \in {"run", "idle"}
    BY <1>0, <1>5, <1>l, Moved, Ended DEF markAssetJobClaimed, Moves, Ends
  <2> QED
    BY <1>b, <1>0, <1>2, <1>3, <2>1, <2>2, <2>3 DEF Asked
<1>6. CASE markAssetJobRunning(w)
  <2>1. exec[w].pc = "run" /\ UNCHANGED <<attempts, external, prompts, faults>>
    BY <1>6 DEF markAssetJobRunning
  <2>2. status'[i] # "absent" /\ (status'[i] \in Active => status[i] \in Active)
    BY <1>0, <1>6, <2>1 DEF markAssetJobRunning, RowsOK, Active
  <2>3. \/ exec'[w].pc = "idle"
        \/ exec'[w].pc = "submit" /\ status'[i] = "running"
        \/ exec'[w].pc = "result" /\ exec'[w].job = i
    BY <1>0, <1>6, RunningEffect DEF Moves, Ends
  <2> QED
    BY <1>b, <1>0, <1>2, <1>3, <2>1, <2>2, <2>3 DEF Asked, Active
<1>7. CASE submit(w)
  <2>1. exec[w].pc = "submit" /\ UNCHANGED <<jobRow, faults>>
    BY <1>7 DEF submit
  <2>2. prompts[i] <= attempts[i] + faults
    BY <1>3, <2>1 DEF OwnPrompt, Asked
  <2>3. prompts'[i] \in {prompts[i], prompts[i] + 1}
    <3>1. prompts' = [prompts EXCEPT ![i] = @ + 1] \/ UNCHANGED prompts
      BY <1>7 DEF submit
    <3> QED
      BY <1>0, <3>1 DEF RowsOK
  <2>4. exec'[w].pc \in {"failRead", "submitted"} /\ exec'[w].job = i
    BY <1>0, <1>7, SubmitEffect DEF Moves
  <2> QED
    BY <1>b, <1>0, <2>1, <2>2, <2>3, <2>4 DEF Asked, jobRow
<1>8. CASE markAssetJobSubmitted(w)
  <2>1. exec[w].pc = "submitted" /\ UNCHANGED <<status, attempts, prompts, faults>>
    BY <1>8 DEF markAssetJobSubmitted
  <2>2. exec'[w].pc = "result" /\ exec'[w].job = i
    BY <1>0, <1>8, <1>l, Moved DEF markAssetJobSubmitted, Moves
  <2> QED
    BY <1>b, <1>0, <1>2, <2>1, <2>2 DEF Asked
<1>9. CASE getResult(w)
  <2>1. exec[w].pc = "result" /\ UNCHANGED <<jobRow, prompts, faults>>
    BY <1>9 DEF getResult
  <2>2. exec'[w].pc \in {"failRead", "candidate"} /\ exec'[w].job = i
    BY <1>0, <1>9, ResultEffect DEF Moves
  <2> QED
    BY <1>b, <1>0, <1>2, <2>1, <2>2 DEF Asked, jobRow
<1>10. CASE createAssetCandidate(w)
  <2>1. exec[w].pc = "candidate" /\ UNCHANGED <<jobRow, prompts, faults>>
    BY <1>10 DEF createAssetCandidate
  <2>2. exec'[w].pc \in {"failRead", "succeed"} /\ exec'[w].job = i
    BY <1>0, <1>10, <1>l, Moved, Caught DEF createAssetCandidate, Moves
  <2> QED
    BY <1>b, <1>0, <1>2, <2>1, <2>2 DEF Asked, jobRow
<1>11. CASE markAssetJobSucceeded(w)
  <2>1. exec[w].pc = "succeed" /\ UNCHANGED <<attempts, external, prompts, faults>>
    BY <1>11 DEF markAssetJobSucceeded
  <2>2. /\ status'[i] # "absent"
        /\ status'[i] \in Active => status[i] \in Active
    BY <1>0, <1>11, <2>1 DEF markAssetJobSucceeded, RowsOK, Active
  <2>3. external[i] = 0 => status[i] \in Over
    BY <2>1 DEF Carried, CandidateOfPrompt
  <2>4. exec'[w].pc = "idle"
    BY <1>0, <1>11, Ended DEF markAssetJobSucceeded, Ends
  <2> QED
    BY <1>b, <1>0, <1>2, <2>1, <2>2, <2>3, <2>4 DEF Active, Over
<1>12. CASE readAttempts(w)
  <2>1. exec[w].pc = "failRead" /\ UNCHANGED <<jobRow, prompts, faults>>
    BY <1>12 DEF readAttempts
  <2>2. exec'[w].pc = "failWrite" /\ exec'[w].job = i
    BY <1>0, <1>12, ReadEffect DEF Moves
  <2>3. exec'[w].seen = attempts[i]
    BY <1>0, <1>12 DEF readAttempts, RunsOK, Runs
  <2> QED
    BY <1>b, <1>0, <1>2, <2>1, <2>2, <2>3 DEF Asked, jobRow
<1>13. CASE markAssetJobFailed(w)
  <2>1. exec[w].pc = "failWrite" /\ UNCHANGED <<external, prompts, faults>>
    BY <1>13 DEF markAssetJobFailed
  <2>2. status'[i] # "absent" /\ attempts'[i] = attempts[i] + 1
    BY <1>0, <1>2, <1>13, <2>1 DEF markAssetJobFailed, RowsOK
  <2>3. exec'[w].pc = "idle"
    BY <1>0, <1>13, Ended DEF markAssetJobFailed, Ends
  <2> QED
    BY <1>b, <1>0, <1>2, <2>1, <2>2, <2>3
<1>14. CASE statementFails(w) \/ workerCrash(w)
  <2>1. exec[w].pc # "idle" /\ faults' = faults + 1 /\ UNCHANGED <<jobRow, prompts>>
    BY <1>14 DEF statementFails, workerCrash, Fault
  <2>2. exec'[w].pc \in {"idle", "failRead"}
    BY <1>0, <1>14, <1>l, Ended, Caught DEF statementFails, workerCrash, Moves, Ends
  <2> QED
    BY <1>b, <1>0, <1>2, <2>1, <2>2 DEF jobRow
<1> QED
  BY <1>4, <1>5, <1>6, <1>7, <1>8, <1>9, <1>10, <1>11, <1>12, <1>13, <1>14 DEF WorkerStep

(* The books of a job that the step leaves to its own.                     *)
LEMMA BooksKept ==
  ASSUME NEW i \in Jobs, TypeOK, Books(i),
         status'[i] = status[i] \/ (status[i] \in Active /\ status'[i] = "cancelled"),
         external'[i] = external[i], prompts'[i] = prompts[i], attempts'[i] = attempts[i],
         faults' \in {faults, faults + 1},
         \A w \in Workers : IF exec'[w].job = i \/ exec[w].job = i
                            THEN exec'[w] = exec[w] ELSE TRUE
  PROVE  Books(i)'
<1>0. faults \in Nat /\ attempts[i] \in Nat /\ prompts[i] \in Nat
  BY DEF TypeOK, RowsOK
<1>1. Free(i)' => Free(i)
  BY DEF Free, Active
<1>2. \A w \in Workers : exec'[w].job = i => exec[w].job = i /\ exec'[w] = exec[w]
  OBVIOUS
<1>3. status'[i] = "absent" => status[i] = "absent"
  OBVIOUS
<1> QED
  BY <1>0, <1>1, <1>2, <1>3 DEF Books

LEMMA BookedStep == AssetInv /\ Booked /\ [Next]_vars => Booked'
<1> SUFFICES ASSUME AssetInv, Booked, [Next]_vars, overlaps' = 0, NEW i \in Jobs
             PROVE  Books(i)'
  BY DEF Booked, Books, Free, Asked
<1>0. /\ TypeOK /\ Known /\ Carried /\ RunsOK /\ RowsOK /\ Alone
      /\ OwnPrompt /\ CandidateOfPrompt /\ Books(i) /\ i # NoJob
  BY AloneStep DEF AssetInv, Solo, Booked, TypeOK
<1>1. CASE UNCHANGED vars
  BY <1>0, <1>1, BooksKept DEF vars
<1>2. ASSUME NEW j \in Jobs, createAssetJob(j) PROVE Books(i)'
  <2>1. UNCHANGED <<attempts, external, prompts, exec, faults>>
    BY <1>2 DEF createAssetJob
  <2>2. CASE i # j
    BY <1>0, <1>2, <2>1, <2>2, BooksKept DEF createAssetJob, RowsOK
  <2>3. CASE i = j
    <3>1. prompts[i] = 0 /\ status'[i] = "queued"
      BY <1>0, <1>2, <2>3 DEF createAssetJob, RowsOK, Books
    <3>2. 0 <= attempts[i] + faults /\ 0 <= attempts[i] + faults + 1
      BY <1>0 DEF TypeOK, RowsOK
    <3> QED
      BY <1>0, <2>1, <3>1, <3>2 DEF Books
  <2> QED
    BY <2>2, <2>3
<1>3. ASSUME NEW j \in Jobs, cancelAssetJob(j) PROVE Books(i)'
  BY <1>0, <1>3, BooksKept DEF cancelAssetJob, RowsOK, Active
<1>4. ASSUME NEW j \in Jobs, leaseExpires(j) PROVE Books(i)'
  BY <1>0, <1>4, BooksKept DEF leaseExpires
<1>5. ASSUME NEW j \in Jobs, NEW to \in {"approved", "rejected", "changes_requested"},
             reviewAssetCandidate(j, to)
      PROVE Books(i)'
  BY <1>0, <1>5, BooksKept DEF reviewAssetCandidate, jobRow
<1>6. ASSUME NEW w \in Workers, WorkerStep(w) PROVE Books(i)'
  <2>1. CASE exec[w].job = i
    BY <1>0, <1>6, <2>1, BooksRun
  <2>2. CASE exec[w].job # i
    <3>1. Others(w) /\ exec'[w].job # i
      BY <1>0, <1>6, <2>2, WorkerEffect
    <3>2. \A v \in Workers : IF exec'[v].job = i \/ exec[v].job = i
                             THEN exec'[v] = exec[v] ELSE TRUE
      BY <2>2, <3>1 DEF Others
    <3> QED
      BY <1>0, <1>6, <2>2, <3>2, RowElsewhere, BooksKept
  <2> QED
    BY <2>1, <2>2
<1>7. ASSUME NEW w \in Workers, NEW j \in Jobs, deliver(w, j) PROVE Books(i)'
  <2>1. /\ Others(w) /\ exec'[w].pc = "load" /\ exec'[w].job = j
        /\ UNCHANGED <<jobRow, prompts, faults>> /\ exec[w].job = NoJob
    BY <1>0, <1>7, Delivered DEF deliver, RunsOK
  <2>2. Free(i)' => Free(i)
    BY <1>0, <2>1 DEF Free, Others, Asked, jobRow
  <2>3. \A v \in Workers : exec'[v].job = i /\ exec'[v].pc = "failWrite" =>
          exec[v].job = i /\ exec[v].pc = "failWrite" /\ exec'[v].seen = exec[v].seen
    BY <2>1 DEF Others
  <2> QED
    BY <1>0, <2>1, <2>2, <2>3 DEF Books, jobRow
<1> QED
  BY <1>1, <1>2, <1>3, <1>4, <1>5, <1>6, <1>7 DEF Next, Api

(* As long as runs of a job have not overlapped, the prompts drawn for it  *)
(* are bounded by its failed attempts and the faults it met, but for one.  *)
THEOREM PromptsPaidFor == Spec => []PromptsBounded
<1>1. Init => Booked
  BY DEF Init, Booked, Books, Free, IdleRun
<1>2. AssetInv /\ Booked => PromptsBounded
  BY DEF Booked, Books, PromptsBounded
<1> QED
  BY <1>1, <1>2, BookedStep, AssetInvariant, PTL DEF Spec
=============================================================================
