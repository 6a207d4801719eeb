---------------------------- MODULE JobLifecycle ----------------------------
(***************************************************************************)
(* What the domain layer promises of a generation job: the transition      *)
(* table of assertV2GenerationJobTransition and the retry rule of          *)
(* shouldRetryV2GenerationJob (packages/domain/src/v2/generation/job.ts).   *)
(* The SQLite repository and the worker never call either function; the    *)
(* detailed model SceneGeneration is checked to follow them all the same.  *)
(***************************************************************************)
EXTENDS Naturals

CONSTANTS
  Jobs,         \* job identifiers
  MaxAttempts   \* maxAttempts of every job

VARIABLES
  status,       \* [Jobs -> status of the row, "absent" before it is created]
  attempts      \* [Jobs -> number of failed attempts]

lifecycleVars == <<status, attempts>>

transitions ==
  [ queued    |-> {"claimed", "cancelled", "failed"},
    claimed   |-> {"running", "queued", "cancelled", "failed"},
    running   |-> {"succeeded", "queued", "failed", "cancelled"},
    succeeded |-> {},
    failed    |-> {"queued"},
    cancelled |-> {} ]

\* A failed attempt is tried again only while attempts remain.
shouldRetry(n) == n < MaxAttempts

Init ==
  /\ status = [j \in Jobs |-> "absent"]
  /\ attempts = [j \in Jobs |-> 0]

Create(j) ==
  /\ status[j] = "absent"
  /\ status' = [status EXCEPT ![j] = "queued"]
  /\ UNCHANGED attempts

(* The retry rule fixes the counter: giving up and trying again count the  *)
(* attempt, a lease recovery returns the job to the queue without counting *)
(* one, and a job in the queue always has an attempt left.                 *)
Move(j, to) ==
  /\ status[j] # "absent"
  /\ to \in transitions[status[j]]
  /\ status' = [status EXCEPT ![j] = to]
  /\ \E counted \in {0, 1} :
       /\ to = "failed" => counted = 1
       /\ to \notin {"failed", "queued"} => counted = 0
       /\ to = "queued" => shouldRetry(attempts[j] + counted)
       /\ attempts' = [attempts EXCEPT ![j] = @ + counted]

Next ==
  \E j \in Jobs :
    \/ Create(j)
    \/ \E to \in DOMAIN transitions : Move(j, to)

Spec == Init /\ [][Next]_lifecycleVars
=============================================================================
