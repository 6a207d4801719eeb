------------------------- MODULE ProactiveMessages -------------------------
(***************************************************************************)
(* Messages a character sends on its own.  The API schedules one as a      *)
(* maintenance job under the character's policy (scheduleProactiveMessage, *)
(* api/src/v2/chat/use-cases.ts); the pump delivers it, minutes or a day   *)
(* later, after checking the policy once more (handleProactiveMessage).    *)
(* The queue runs a job at least once until it is completed, which is what *)
(* MaintenanceQueue shows; the handler is one transaction and asks for no  *)
(* lease, so an overlapping or repeated run is one more delivery.  Time is *)
(* counted in ticks.  The messages of a conversation, whoever wrote them,  *)
(* are numbered in the order in which they are committed, which is the     *)
(* order of the listing as long as their createdAt, taken just before the  *)
(* transaction begins, follows that order too.                             *)
(***************************************************************************)
EXTENDS Naturals, FiniteSets

CONSTANTS Talks,          \* conversations of the character
          Buckets,        \* timeBucket: names the slot a request is for
          DailyLimit,     \* policy.dailyLimit
          Cooldown,       \* policy.cooldownMinutes, in ticks
          Day,            \* ticks of a day
          Quiet,          \* the ticks of a day that are quiet hours
          Never,          \* no lastExecutedAt
          Listed,         \* messages the handler reads: the newest 200
          MaxChat,        \* bound on the messages of a chat
          MaxTime         \* bound on the clock

ASSUME ProactiveAssumption ==
  /\ DailyLimit \in Nat /\ Cooldown \in Nat /\ Day \in Nat \ {0} /\ MaxTime \in Nat
  /\ Listed \in Nat /\ MaxChat \in Nat
  /\ Never \notin Nat

VARIABLES clock,
          enabled,        \* policy.enabled
          lastExecuted,   \* policy.lastExecutedAt: when one was last scheduled
          requests,       \* the jobs: <<conversation, bucket>> and created_at
          finished,       \* the jobs that are completed or failed
          posted,         \* messages in each conversation, of any source
          sent            \* the proactive ones: job, created_at and number

proactiveVars == <<clock, enabled, lastExecuted, requests, finished, posted, sent>>

Slots == Talks \X Buckets
Times == 0..MaxTime

ProactiveInit ==
  /\ clock = 0
  /\ enabled = FALSE
  /\ lastExecuted = Never
  /\ requests = {}
  /\ finished = {}
  /\ posted = [talk \in Talks |-> 0]
  /\ sent = {}

inQuietHours == clock % Day \in Quiet

tick == /\ clock < MaxTime
        /\ clock' = clock + 1
        /\ UNCHANGED <<enabled, lastExecuted, requests, finished, posted, sent>>

updateProactivePolicy(value) ==
  /\ enabled' = value
  /\ UNCHANGED <<clock, lastExecuted, requests, finished, posted, sent>>

(* The user writes or the character answers.                               *)
postMessage(talk) ==
  /\ posted[talk] < MaxChat
  /\ posted' = [posted EXCEPT ![talk] = @ + 1]
  /\ UNCHANGED <<clock, enabled, lastExecuted, requests, finished, sent>>

(* What the API counts: jobs of the character since midnight, in whichever *)
(* conversation.                                                           *)
scheduledToday == {r \in requests : r[2] >= clock - (clock % Day)}

scheduleProactiveMessage(slot) ==
  /\ enabled
  /\ DailyLimit > 0
  /\ ~inQuietHours
  /\ lastExecuted # Never => clock >= lastExecuted + Cooldown
  /\ \A r \in requests : r[1] # slot
  /\ Cardinality(scheduledToday) < DailyLimit
  /\ requests' = requests \cup {<<slot, clock>>}
  /\ lastExecuted' = clock
  /\ UNCHANGED <<clock, enabled, finished, posted, sent>>

(* What the pump counts: the proactive messages of the last 24 hours among *)
(* the newest of the conversation, oldest first.                           *)
recent(talk) ==
  {m \in sent : /\ m[1][1] = talk
                /\ m[3] + Listed > posted[talk]
                /\ m[2] + Day >= clock}

(* The handler compares with the first of them, the oldest.                *)
coolingDown(talk) ==
  \E m \in recent(talk) : /\ \A n \in recent(talk) : m[2] <= n[2]
                          /\ clock < m[2] + Cooldown

(* Mutant: the pump relies on what the API has counted.                    *)
MayDeliverUncounted(slot) ==
  /\ enabled /\ ~inQuietHours
  /\ ~coolingDown(slot[1])
  /\ \A m \in sent : m[1] # slot

mayDeliver(slot) ==
  /\ enabled /\ ~inQuietHours
  /\ Cardinality(recent(slot[1])) < DailyLimit
  /\ ~coolingDown(slot[1])
  /\ \A m \in sent : m[1] # slot

(* A run of the job: it delivers if it may and returns either way.  Then   *)
(* the job is completed, unless the pump dies or has lost its lease.       *)
handleProactiveMessage(slot, completed) ==
  /\ \E r \in requests : r[1] = slot
  /\ slot \notin finished
  /\ IF mayDeliver(slot)
       THEN /\ posted' = [posted EXCEPT ![slot[1]] = @ + 1]
            /\ sent' = sent \cup {<<slot, clock, posted[slot[1]] + 1>>}
       ELSE UNCHANGED <<posted, sent>>
  /\ finished' = IF completed THEN finished \cup {slot} ELSE finished
  /\ UNCHANGED <<clock, enabled, lastExecuted, requests>>

ProactiveNext ==
  \/ tick
  \/ \E value \in BOOLEAN : updateProactivePolicy(value)
  \/ \E talk \in Talks : postMessage(talk)
  \/ \E slot \in Slots : \/ scheduleProactiveMessage(slot)
                         \/ \E c \in BOOLEAN : handleProactiveMessage(slot, c)

ProactiveSpec == ProactiveInit /\ [][ProactiveNext]_proactiveVars

-----------------------------------------------------------------------------
(* Types. *)
ProactiveTypeOK ==
  /\ clock \in Times
  /\ enabled \in BOOLEAN
  /\ lastExecuted \in Times \cup {Never}
  /\ requests \subseteq Slots \X Times
  /\ finished \subseteq Slots
  /\ posted \in [Talks -> Nat]
  /\ sent \subseteq Slots \X Times \X Nat

(* In no span of a day are there more proactive messages of a conversation *)
(* than the daily limit among any Listed + 1 messages that follow each     *)
(* other: across midnight too, where the API's count starts again, and     *)
(* however late or often the jobs are run.  A conversation that has at     *)
(* most Listed + 1 messages in a day keeps the limit; in a longer one what *)
(* was sent early in the day is no longer counted, and more may be sent.   *)
DailyLimitKept ==
  \A talk \in Talks, t \in Times : \A n \in 1..posted[talk] :
    Cardinality({m \in sent : m[1][1] = talk /\ m[2] \in t..(t + Day)
                               /\ m[3] \in n..(n + Listed)}) <= DailyLimit
=============================================================================
