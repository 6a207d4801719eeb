----------------------------- MODULE CanonReview -----------------------------
(***************************************************************************)
(* The canon of one story world and the candidates waiting for its         *)
(* creator: edits under an expected revision, scene candidates drafted by  *)
(* the worker or sent to the API, character candidates, their reviews, and *)
(* requests repeated under an idempotency key.  Every handler runs in one  *)
(* BEGIN IMMEDIATE transaction, so it is one action; a handler that throws *)
(* rolls back and changes nothing, so it is an action that is not enabled. *)
(* What races is what a client or a generator read before: the expected    *)
(* revision of a request and the base of a candidate may be of any past    *)
(* revision.                                                               *)
(***************************************************************************)
EXTENDS Naturals, Sequences, FiniteSets

CONSTANTS Items,         \* rows of the canon: a fact, a character, a scene ...
          NoItem,
          Contents,      \* what a row can hold (a deleted row is one content more)
          Generated,     \* the content a candidate proposes
          Candidates,
          Followed,      \* bound: the requests whose repetition is followed
          Keys,          \* idempotency keys
          NoKey,         \* no key, or a key its client never sends again
          NoRequest,
          Unguarded,     \* a request that names no expected revision
          Unlisted,      \* a candidate without a sourceRevisionSet
          Author,        \* the author of a version no candidate wrote
          MaxRevision    \* bound: the last revision of the canon

ASSUME CanonAssumption ==
  /\ Generated \in Contents
  /\ Author \notin Candidates
  /\ NoKey \notin Keys
  /\ Unguarded \notin Nat
  /\ \A S \in SUBSET Items : S # Unlisted
  /\ MaxRevision \in Nat \ {0}

VARIABLES revision,      \* v2_worlds.revision
          canon,         \* canon[i]: the content of row i
          past,          \* history: past[r] is the canon as revision r named it
          candidates,    \* v2_scene_candidates and v2_character_candidates
          mutations,     \* v2_canon_idempotency: the request saved under a key
          effects        \* history: how often the request of a key took effect

canonVars == <<revision, canon, past, candidates, mutations, effects>>

(* sources: the rows whose fingerprints the candidate lists, which may be none
   at all, or Unlisted when its provenance has no list; a list with a character
   candidate is looked at by nobody. *)
Kinds == {"scene", "character"}
Lists == (SUBSET Items) \cup {Unlisted}
Decisions == {"approve", "reject", "request_changes"}
Stages == {"none", "pending", "changes_requested", "approved", "rejected"}

NoCandidate == [kind |-> "scene", stage |-> "none", read |-> 0, sources |-> Unlisted,
                target |-> NoItem, result |-> 0]

(* read: the revision a review compares with, which is baseCanonRevision for a
   candidate without a list and, as history, the revision whose rows the list was
   made of for one with a list, whose baseCanonRevision no review looks at. *)
Candidate == [kind : Kinds, stage : Stages, read : 0..MaxRevision,
              sources : Lists, target : Items \cup {NoItem}, result : 0..MaxRevision]

Edits == [op : {"edit"}, item : Items, content : Contents,
          expected : (1..MaxRevision) \cup {Unguarded}]
Reviews == [op : {"review"}, candidate : Candidates, action : Decisions,
            expected : 1..MaxRevision]
Requests == Edits \cup Reviews

ASSUME RequestAssumption == Followed \subseteq Requests /\ NoRequest \notin Requests

CanonInit ==
  /\ revision = 1
  /\ canon \in [Items -> Contents \ {Generated}]
  /\ past = <<canon>>
  /\ candidates = [c \in Candidates |-> NoCandidate]
  /\ mutations = [k \in Keys |-> NoRequest]
  /\ effects = [k \in Keys |-> 0]

-----------------------------------------------------------------------------
(* The one writer of v2_worlds.revision: UPDATE ... WHERE revision = expected.
   The narrative use cases pass the revision they have just read when their
   request names none. *)
advanceRevision(expected) ==
  /\ expected \in {revision, Unguarded}
  /\ revision < MaxRevision
  /\ revision' = revision + 1
  /\ past' = Append(past, canon')

(* Mutant: an edit that does not advance the revision. *)
QuietEdit(r) ==
  /\ canon' = [canon EXCEPT ![r.item] = r.content]
  /\ r.expected \in {revision, Unguarded}
  /\ UNCHANGED <<candidates, revision, past>>

(* createFact, updateScene, saveSceneDocument, deleteLoreEntry ...: each
   writes its row and advances the revision. *)
editCanon(r) ==
  /\ canon' = [canon EXCEPT ![r.item] = r.content]
  /\ advanceRevision(r.expected)
  /\ UNCHANGED candidates

-----------------------------------------------------------------------------
(* A generator has read the canon, minutes ago: the snapshot of the base revision
   and, in a later transaction, the rows it lists, which other writers may have
   changed in between and since. *)
storeCandidate(c, kind, read, sources, target) ==
  /\ candidates[c].stage = "none"
  /\ candidates' = [candidates EXCEPT
                      ![c] = [kind |-> kind, stage |-> "pending", read |-> read,
                              sources |-> sources, target |-> target, result |-> 0]]
  /\ UNCHANGED <<revision, canon, past, mutations, effects>>

(* The worker's port compares the base with the current revision when the
   candidate lists nothing, with an empty list or without one. *)
submitSceneCandidate(c, base, read, sources, target) ==
  /\ sources \in {{}, Unlisted} => base = revision
  /\ sources = Unlisted => read = base
  /\ storeCandidate(c, "scene", read, sources, target)

(* The API and the story analysis compare nothing, with or without a list. *)
createSceneCandidate(c, read, sources, target) ==
  storeCandidate(c, "scene", read, sources, target)

createCharacterCandidate(c, base, target) ==
  storeCandidate(c, "character", base, Unlisted, target)

-----------------------------------------------------------------------------
nextReviewStatus(action) == CASE action = "approve" -> "approved"
                              [] action = "reject" -> "rejected"
                              [] action = "request_changes" -> "changes_requested"

(* Mutant: a decided candidate can be decided again. *)
AnyTransition(from, action) == from \in {"pending", "changes_requested", "rejected"}

reviewTransition(from, action) ==
  \/ from = "pending"
  \/ from = "changes_requested" /\ action # "request_changes"

(* Mutant: every candidate counts as fresh. *)
AlwaysFresh(c, expected) == TRUE

(* A list is compared row by row with what is stored now, and then the base is
   not looked at; an empty list agrees with every canon. *)
candidateIsFresh(c, expected) ==
  IF candidates[c].sources = Unlisted
    THEN candidates[c].read = expected
    ELSE \A i \in candidates[c].sources : canon[i] = past[candidates[c].read][i]

(* The proposed content lands in its row; the audit keeps the revision. *)
applyCandidate(c, expected) ==
  /\ canon' = [canon EXCEPT ![candidates[c].target] = Generated]
  /\ advanceRevision(expected)
  /\ candidates' = [candidates EXCEPT ![c].stage = "approved",
                                      ![c].result = revision + 1]

keepCanon(c, action) ==
  /\ candidates' = [candidates EXCEPT ![c].stage = nextReviewStatus(action)]
  /\ UNCHANGED <<revision, canon, past>>

reviewSceneCandidate(c, action, expected) ==
  /\ candidates[c].kind # "character"
  /\ reviewTransition(candidates[c].stage, action)
  /\ IF action = "approve"
       THEN candidateIsFresh(c, expected) /\ applyCandidate(c, expected)
       ELSE keepCanon(c, action)

(* A character candidate must be pending and named by its base revision,
   whatever the decision. *)
reviewCharacterCandidate(c, action, expected) ==
  /\ candidates[c].kind = "character"
  /\ candidates[c].stage = "pending"
  /\ candidates[c].read = expected
  /\ IF action = "approve" THEN applyCandidate(c, expected)
                           ELSE keepCanon(c, action)

-----------------------------------------------------------------------------
handle(r) ==
  \/ r.op = "edit" /\ editCanon(r)
  \/ /\ r.op = "review"
     /\ \/ reviewSceneCandidate(r.candidate, r.action, r.expected)
        \/ reviewCharacterCandidate(r.candidate, r.action, r.expected)

(* A request served for the first time under its key: the handler runs and the
   request is saved with its result, in one transaction. *)
runUnderKey(k, r) ==
  /\ handle(r)
  /\ mutations' = [mutations EXCEPT ![k] = r]
  /\ effects' = [effects EXCEPT ![k] = @ + 1]

(* Mutant: a repeated request is served again. *)
ServeAgain(k, r) ==
  \/ k = NoKey /\ handle(r) /\ UNCHANGED <<mutations, effects>>
  \/ k # NoKey /\ runUnderKey(k, r)

withIdempotency(k, r) ==
  \/ k = NoKey /\ handle(r) /\ UNCHANGED <<mutations, effects>>
  \/ k # NoKey /\ mutations[k] = NoRequest /\ runUnderKey(k, r)
  \/ k # NoKey /\ mutations[k] = r /\ UNCHANGED canonVars

(* A creator reviews a candidate or edits a row, on the revision they last saw. *)
request(k, r) ==
  /\ r.expected \in (1..revision) \cup {Unguarded}
  /\ k # NoKey => r \in Followed
  /\ withIdempotency(k, r)

(* The answer was lost and the client sends the same request again. *)
repeatRequest(k) == mutations[k] # NoRequest /\ withIdempotency(k, mutations[k])

CanonNext ==
  \/ \E c \in Candidates, base \in 1..revision, target \in Items :
       \/ createCharacterCandidate(c, base, target)
       \/ \E sources \in Lists : createSceneCandidate(c, base, sources, target)
       \/ \E sources \in Lists, read \in base..revision :
            submitSceneCandidate(c, base, read, sources, target)
  \/ \E k \in Keys \cup {NoKey}, r \in Requests : request(k, r)
  \/ \E k \in Keys : repeatRequest(k)

CanonSpec == CanonInit /\ [][CanonNext]_canonVars

-----------------------------------------------------------------------------
(* Types. *)
CanonTypeOK ==
  /\ revision \in 1..MaxRevision
  /\ canon \in [Items -> Contents]
  /\ past \in Seq([Items -> Contents]) /\ Len(past) = revision
  /\ candidates \in [Candidates -> Candidate]
  /\ mutations \in [Keys -> Requests \cup {NoRequest}]
  /\ effects \in [Keys -> Nat]

(* A revision number names one canon: whatever is written, by an edit, an
   approval or a narrative use case that names no revision, advances it in the
   same transaction, so a client that holds the current number holds the current
   canon. *)
RevisionNamesCanon == canon = past[revision]

(* An approved candidate was approved on the canon it was written from, however
   long it waited, whatever was approved before it and whatever revision its
   reviewer named: without a list of sources, every row is as the base revision
   named it; with one, the rows it lists are as they were when the list was made.
   That is all a list vouches for.  A row outside it may have changed, since the
   base revision and since the list, and a candidate whose list is empty is
   approved on any canon. *)
ApprovedFresh ==
  \A c \in Candidates : candidates[c].stage = "approved" =>
    LET before == past[candidates[c].result - 1]
        seen == past[candidates[c].read]
    IN IF candidates[c].sources = Unlisted
         THEN before = seen
         ELSE \A i \in candidates[c].sources : before[i] = seen[i]

(* However often a request is repeated under its key because its answer was
   lost, it takes effect once: the repetition of an edit that names no revision
   never overwrites what was written after it. *)
KeyedOnce == \A k \in Keys : effects[k] <= 1

-----------------------------------------------------------------------------
(* The refinement: what is decided, and who wrote each version. *)
decisions ==
  [c \in Candidates |-> IF candidates[c].stage \in {"approved", "rejected"}
                          THEN candidates[c].stage ELSE "open"]

writersOf(r) == {c \in Candidates : candidates[c].stage = "approved" /\ candidates[c].result = r}

authorAmong(S) == IF S = {} THEN Author ELSE CHOOSE c \in S : TRUE

writers == [n \in 1..(revision - 1) |-> authorAmong(writersOf(n + 1))]

Gate == INSTANCE ReviewGate WITH Proposals <- Candidates, Editor <- Author,
                                 decided <- decisions, authors <- writers

(* The reviews implement the gate: a candidate is decided once, each version has
   one author, and a rejection or a request for changes writes nothing. *)
ReviewIsGate == Gate!GateSpec
==============================================================================
