---------------------------- MODULE CanonProofs ----------------------------
(***************************************************************************)
(* What holds of the canon and its reviews for every set of rows,          *)
(* candidates, keys and requests.                                          *)
(***************************************************************************)
EXTENDS CanonReview, SequenceTheorems, TLAPS

(* A candidate rests on a revision there has been, and an approved one has *)
(* made a later one; a character's lists nothing.                          *)
CandidatesFit ==
  \A c \in Candidates :
    /\ candidates[c].stage # "none" => candidates[c].read \in 1..revision
    /\ candidates[c].stage = "approved" => candidates[c].result \in 2..revision
    /\ candidates[c].kind = "character" => candidates[c].sources = Unlisted

(* A key has taken effect exactly if a request is saved under it.          *)
KeysFit ==
  \A k \in Keys : effects[k] = (IF mutations[k] = NoRequest THEN 0 ELSE 1)

(* No two candidates made one revision.                                    *)
ResultsApart ==
  \A c, d \in Candidates :
    (/\ c # d
     /\ candidates[c].stage = "approved" /\ candidates[d].stage = "approved")
      => candidates[c].result # candidates[d].result

CanonInv ==
  /\ CanonTypeOK /\ CandidatesFit /\ KeysFit /\ ResultsApart
  /\ RevisionNamesCanon /\ ApprovedFresh

Transaction == /\ revision' = revision + 1 /\ revision < MaxRevision
               /\ canon' \in [Items -> Contents]
               /\ past' = Append(past, canon')

ApprovedNow(c) ==
  candidates' = [candidates EXCEPT ![c].stage = "approved", ![c].result = revision + 1]

FreshNow(c) ==
  IF candidates[c].sources = Unlisted
    THEN candidates[c].read = revision
    ELSE \A i \in candidates[c].sources : canon[i] = past[candidates[c].read][i]

-----------------------------------------------------------------------------
(* What a request may do to the canon and the candidates.                  *)

(* An edit is a transaction that leaves the candidates alone.              *)
LEMMA EditIsTransaction ==
  ASSUME CanonTypeOK, NEW r \in Edits, editCanon(r)
  PROVE  Transaction /\ UNCHANGED candidates
BY DEF CanonTypeOK, Edits, editCanon, advanceRevision, Transaction

(* An approval is a transaction that decides one candidate.                *)
LEMMA ApprovalIsTransaction ==
  ASSUME CanonTypeOK, NEW c \in Candidates, NEW e, applyCandidate(c, e)
  PROVE  /\ Transaction /\ e \in {revision, Unguarded}
         /\ ApprovedNow(c)
BY CanonAssumption DEF CanonTypeOK, applyCandidate, advanceRevision, Transaction, ApprovedNow

(* Past revisions stay as they were; the new one is the canon.             *)
LEMMA PastGrows ==
  ASSUME CanonTypeOK, Transaction
  PROVE  /\ past' \in Seq([Items -> Contents]) /\ Len(past') = revision'
         /\ \A r \in 1..revision : past'[r] = past[r]
         /\ past'[revision'] = canon'
         /\ revision' \in 1..MaxRevision
BY CanonAssumption DEF CanonTypeOK, Transaction

(* A review that does not approve changes one stage.                       *)
LEMMA KeepIsQuiet ==
  ASSUME CanonTypeOK, NEW c \in Candidates, NEW a \in Decisions, a # "approve",
         keepCanon(c, a)
  PROVE  /\ UNCHANGED <<revision, canon, past>>
         /\ \E s \in {"rejected", "changes_requested"} :
              candidates' = [candidates EXCEPT ![c].stage = s]
BY DEF keepCanon, nextReviewStatus, Decisions

(* A review approves, on the canon its candidate was written from, or      *)
(* keeps the canon.                                                        *)
LEMMA ReviewSplit ==
  ASSUME CanonTypeOK, CandidatesFit,
         NEW c \in Candidates, NEW a \in Decisions, NEW e \in 1..MaxRevision,
         \/ reviewSceneCandidate(c, a, e)
         \/ reviewCharacterCandidate(c, a, e)
  PROVE  /\ candidates[c].stage \in {"pending", "changes_requested"}
         /\ \/ /\ applyCandidate(c, e)
               /\ FreshNow(c)
            \/ a # "approve" /\ keepCanon(c, a)
<1>1. e # Unguarded
  BY CanonAssumption DEF CanonTypeOK
<1>2. applyCandidate(c, e) => e = revision
  BY <1>1 DEF applyCandidate, advanceRevision
<1>3. CASE reviewSceneCandidate(c, a, e)
  BY <1>2, <1>3 DEF reviewSceneCandidate, reviewTransition, candidateIsFresh, FreshNow
<1>4. CASE reviewCharacterCandidate(c, a, e)
  BY <1>2, <1>4 DEF reviewCharacterCandidate, CandidatesFit, FreshNow
<1> QED
  BY <1>3, <1>4

(* So a request edits, approves or sets a stage.                           *)
LEMMA HandleSplit ==
  ASSUME CanonTypeOK, CandidatesFit, NEW r \in Requests, handle(r)
  PROVE  \/ Transaction /\ UNCHANGED candidates
         \/ \E c \in Candidates :
              /\ candidates[c].stage \in {"pending", "changes_requested"}
              /\ Transaction
              /\ ApprovedNow(c)
              /\ FreshNow(c)
         \/ /\ UNCHANGED <<revision, canon, past>>
            /\ \E c \in Candidates, s \in {"rejected", "changes_requested"} :
                 /\ candidates[c].stage \in {"pending", "changes_requested"}
                 /\ candidates' = [candidates EXCEPT ![c].stage = s]
<1>1. CASE r.op = "edit"
  <2>1. r \in Edits /\ editCanon(r)
    BY <1>1 DEF handle, Requests, Edits, Reviews
  <2> QED
    BY <2>1, EditIsTransaction
<1>2. CASE r.op # "edit"
  <2>1. /\ r.candidate \in Candidates /\ r.action \in Decisions
        /\ r.expected \in 1..MaxRevision
        /\ \/ reviewSceneCandidate(r.candidate, r.action, r.expected)
           \/ reviewCharacterCandidate(r.candidate, r.action, r.expected)
    BY <1>2 DEF handle, Requests, Edits, Reviews
  <2> DEFINE c == r.candidate
  <2>2. /\ candidates[c].stage \in {"pending", "changes_requested"}
        /\ \/ applyCandidate(c, r.expected) /\ FreshNow(c)
           \/ r.action # "approve" /\ keepCanon(c, r.action)
    BY <2>1, ReviewSplit
  <2>3. CASE applyCandidate(c, r.expected) /\ FreshNow(c)
    <3>1. /\ Transaction
          /\ ApprovedNow(c)
      BY <2>1, <2>3, ApprovalIsTransaction
    <3> QED
      BY <2>1, <2>2, <2>3, <3>1
  <2>4. CASE r.action # "approve" /\ keepCanon(c, r.action)
    <3>1. /\ UNCHANGED <<revision, canon, past>>
          /\ \E s \in {"rejected", "changes_requested"} :
               candidates' = [candidates EXCEPT ![c].stage = s]
      BY <2>1, <2>4, KeepIsQuiet
    <3> QED
      BY <2>1, <2>2, <3>1
  <2> QED
    BY <2>2, <2>3, <2>4
<1> QED
  BY <1>1, <1>2

-----------------------------------------------------------------------------
(* Every invariant holds at first.                                         *)
LEMMA CanonInitInv == CanonInit => CanonInv
<1> SUFFICES ASSUME CanonInit PROVE CanonInv
  OBVIOUS
<1>1. CanonTypeOK
  <2>1. NoCandidate \in Candidate
    BY CanonAssumption DEF NoCandidate, Candidate, Kinds, Stages, Lists
  <2> QED
    BY <2>1, CanonAssumption DEF CanonInit, CanonTypeOK
<1>2. CandidatesFit /\ ResultsApart /\ ApprovedFresh
  BY DEF CanonInit, NoCandidate, CandidatesFit, ResultsApart, ApprovedFresh
<1>3. KeysFit /\ RevisionNamesCanon
  BY DEF CanonInit, KeysFit, RevisionNamesCanon
<1> QED
  BY <1>1, <1>2, <1>3 DEF CanonInv

(* What the three ways of changing the candidates keep.                    *)
CoreInv == CandidatesFit /\ ResultsApart /\ RevisionNamesCanon /\ ApprovedFresh

CoreTypeOK ==
  /\ revision \in 1..MaxRevision
  /\ canon \in [Items -> Contents]
  /\ past \in Seq([Items -> Contents]) /\ Len(past) = revision
  /\ candidates \in [Candidates -> Candidate]

(* A transaction that leaves the candidates alone keeps them.              *)
LEMMA TransactionKeeps ==
  ASSUME CanonTypeOK, CoreInv, Transaction, UNCHANGED candidates
  PROVE  CoreTypeOK' /\ CoreInv'
<1>1. /\ past' \in Seq([Items -> Contents]) /\ Len(past') = revision'
      /\ \A r \in 1..revision : past'[r] = past[r]
      /\ past'[revision'] = canon'
      /\ revision' \in 1..MaxRevision
      /\ revision' = revision + 1 /\ revision \in 1..MaxRevision
  BY PastGrows DEF Transaction, CanonTypeOK
<1>2. CoreTypeOK'
  BY <1>1 DEF CoreTypeOK, CanonTypeOK, Transaction
<1>3. CandidatesFit' /\ ResultsApart' /\ RevisionNamesCanon'
  BY <1>1, CanonAssumption DEF CoreInv, CandidatesFit, ResultsApart, RevisionNamesCanon
<1>4. ApprovedFresh'
  <2> SUFFICES ASSUME NEW c \in Candidates, candidates[c].stage = "approved"
               PROVE  /\ past'[candidates[c].result - 1] = past[candidates[c].result - 1]
                      /\ past'[candidates[c].read] = past[candidates[c].read]
    BY DEF CoreInv, ApprovedFresh
  <2>1. /\ candidates[c].result - 1 \in 1..revision
        /\ candidates[c].read \in 1..revision
    BY <1>1, CanonAssumption DEF CoreInv, CandidatesFit
  <2> QED
    BY <1>1, <2>1
<1> QED
  BY <1>2, <1>3, <1>4 DEF CoreInv

(* What an approval writes into the row of its candidate.                  *)
LEMMA ApprovedRow ==
  ASSUME NEW old \in Candidate, NEW n \in 0..MaxRevision
  PROVE  LET new == [old EXCEPT !.stage = "approved", !.result = n]
         IN /\ new \in Candidate
            /\ new.stage = "approved" /\ new.result = n
            /\ new.read = old.read /\ new.kind = old.kind /\ new.sources = old.sources
BY DEF Candidate, Stages

(* So does an approval on a fresh canon.                                   *)
LEMMA ApprovalKeeps ==
  ASSUME CanonTypeOK, CoreInv, Transaction, NEW c \in Candidates,
         candidates[c].stage \in {"pending", "changes_requested"},
         ApprovedNow(c),
         FreshNow(c)
  PROVE  CoreTypeOK' /\ CoreInv'
<1>1. /\ past' \in Seq([Items -> Contents]) /\ Len(past') = revision'
      /\ \A r \in 1..revision : past'[r] = past[r]
      /\ past'[revision'] = canon'
      /\ revision' \in 1..MaxRevision
      /\ revision' = revision + 1 /\ revision \in 1..MaxRevision
  BY PastGrows DEF Transaction, CanonTypeOK
<1>2. /\ \A d \in Candidates \ {c} : candidates'[d] = candidates[d]
      /\ candidates[c] \in Candidate
      /\ candidates'[c] = [candidates[c] EXCEPT !.stage = "approved",
                                                !.result = revision + 1]
  BY DEF CanonTypeOK, ApprovedNow
<1>3. /\ candidates'[c] \in Candidate
      /\ candidates'[c].stage = "approved" /\ candidates'[c].result = revision + 1
      /\ candidates'[c].read = candidates[c].read
      /\ candidates'[c].kind = candidates[c].kind
      /\ candidates'[c].sources = candidates[c].sources
  <2>1. revision + 1 \in 0..MaxRevision
    BY <1>1, CanonAssumption
  <2> DEFINE new == [candidates[c] EXCEPT !.stage = "approved", !.result = revision + 1]
  <2>2. /\ new \in Candidate
        /\ new.stage = "approved" /\ new.result = revision + 1
        /\ new.read = candidates[c].read
        /\ new.kind = candidates[c].kind /\ new.sources = candidates[c].sources
    BY <1>2, <2>1, ApprovedRow
  <2>3. candidates'[c] = new
    BY <1>2
  <2> HIDE DEF new
  <2> QED
    BY <2>2, <2>3
<1>4. CoreTypeOK'
  <2>1. candidates' \in [Candidates -> Candidate]
    BY <1>3 DEF CanonTypeOK, ApprovedNow
  <2> QED
    BY <1>1, <2>1 DEF CoreTypeOK, CanonTypeOK, Transaction
<1>5. candidates[c].read \in 1..revision
  BY DEF CoreInv, CandidatesFit
<1>6. CandidatesFit'
  <2> SUFFICES ASSUME NEW d \in Candidates
               PROVE  /\ candidates'[d].stage # "none" => candidates'[d].read \in 1..revision'
                      /\ candidates'[d].stage = "approved"
                           => candidates'[d].result \in 2..revision'
                      /\ candidates'[d].kind = "character" => candidates'[d].sources = Unlisted
    BY DEF CandidatesFit
  <2>1. CASE d = c
    BY <1>1, <1>3, <1>5, <2>1, CanonAssumption DEF CoreInv, CandidatesFit
  <2>2. CASE d # c
    BY <1>1, <1>2, <2>2, CanonAssumption DEF CoreInv, CandidatesFit
  <2> QED
    BY <2>1, <2>2
<1>7. ResultsApart'
  <2> SUFFICES ASSUME NEW d \in Candidates, NEW f \in Candidates, d # f,
                      candidates'[d].stage = "approved", candidates'[f].stage = "approved",
                      candidates'[d].result = candidates'[f].result
               PROVE  FALSE
    BY DEF ResultsApart
  <2>1. \A x \in Candidates \ {c} : candidates'[x].stage = "approved"
                                      => candidates'[x].result \in 2..revision
    BY <1>2 DEF CoreInv, CandidatesFit
  <2>2. CASE d # c /\ f # c
    BY <1>2, <2>2 DEF CoreInv, ResultsApart
  <2>3. CASE d = c \/ f = c
    BY <1>1, <1>3, <2>1, <2>3, CanonAssumption
  <2> QED
    BY <2>2, <2>3
<1>8. RevisionNamesCanon'
  BY <1>1 DEF RevisionNamesCanon
<1>9. ApprovedFresh'
  <2> SUFFICES ASSUME NEW d \in Candidates, candidates'[d].stage = "approved"
               PROVE  IF candidates'[d].sources = Unlisted
                        THEN past'[candidates'[d].result - 1] = past'[candidates'[d].read]
                        ELSE \A i \in candidates'[d].sources :
                               past'[candidates'[d].result - 1][i] = past'[candidates'[d].read][i]
    BY DEF ApprovedFresh
  <2>1. CASE d = c
    <3>1. candidates'[c].result - 1 = revision
      BY <1>1, <1>3, CanonAssumption
    <3>2. past'[revision] = canon
      BY <1>1, CanonAssumption DEF CoreInv, RevisionNamesCanon
    <3>3. past'[candidates[c].read] = past[candidates[c].read]
      BY <1>1, <1>5
    <3> QED
      BY <1>3, <2>1, <3>1, <3>2, <3>3 DEF FreshNow
  <2>2. CASE d # c
    <3>1. /\ candidates[d].result - 1 \in 1..revision
          /\ candidates[d].read \in 1..revision
      <4>1. candidates[d].result \in 2..revision
        BY <1>2, <2>2 DEF CoreInv, CandidatesFit
      <4> QED
        BY <1>1, <1>2, <2>2, <4>1 DEF CoreInv, CandidatesFit
    <3>2. /\ past'[candidates[d].result - 1] = past[candidates[d].result - 1]
          /\ past'[candidates[d].read] = past[candidates[d].read]
      BY <1>1, <3>1
    <3> QED
      BY <1>2, <2>2, <3>2 DEF CoreInv, ApprovedFresh
  <2> QED
    BY <2>1, <2>2
<1> QED
  BY <1>4, <1>6, <1>7, <1>8, <1>9 DEF CoreInv

(* And a rejection or a request for changes: a new stage that is not       *)
(* approved.                                                               *)
LEMMA StageKeeps ==
  ASSUME CanonTypeOK, CoreInv, UNCHANGED <<revision, canon, past>>,
         NEW c \in Candidates, NEW s \in Stages \ {"none", "approved"},
         candidates[c].stage # "none",
         candidates' = [candidates EXCEPT ![c].stage = s]
  PROVE  CoreTypeOK' /\ CoreInv'
<1>1. /\ \A d \in Candidates \ {c} : candidates'[d] = candidates[d]
      /\ candidates[c] \in Candidate
      /\ candidates'[c] = [candidates[c] EXCEPT !.stage = s]
  BY DEF CanonTypeOK
<1>2. candidates'[c] \in Candidate /\ candidates'[c].stage = s
      /\ candidates'[c].read = candidates[c].read
      /\ candidates'[c].kind = candidates[c].kind
      /\ candidates'[c].sources = candidates[c].sources
  BY <1>1 DEF Candidate
<1>3. CoreTypeOK'
  BY <1>1, <1>2 DEF CanonTypeOK, CoreTypeOK
<1>4. CandidatesFit' /\ ResultsApart' /\ RevisionNamesCanon'
  BY <1>1, <1>2 DEF CoreInv, CandidatesFit, ResultsApart, RevisionNamesCanon
<1>5. ApprovedFresh'
  BY <1>1, <1>2 DEF CoreInv, ApprovedFresh
<1> QED
  BY <1>3, <1>4, <1>5 DEF CoreInv

(* A new candidate rests on a revision there has been.                     *)
LEMMA StoreKeeps ==
  ASSUME CanonTypeOK, CoreInv, NEW c \in Candidates, NEW kind \in Kinds,
         NEW read \in 1..revision,
         NEW sources \in Lists, NEW target \in Items,
         kind = "character" => sources = Unlisted,
         storeCandidate(c, kind, read, sources, target)
  PROVE  CoreTypeOK' /\ CoreInv'
<1> DEFINE new == [kind |-> kind, stage |-> "pending", read |-> read,
                   sources |-> sources, target |-> target, result |-> 0]
<1>1. \A d \in Candidates : /\ d # c => candidates'[d] = candidates[d]
                            /\ candidates'[c] = new
  BY DEF storeCandidate, CanonTypeOK
<1>2. new \in Candidate
  <2>1. read \in 0..MaxRevision /\ 0 \in 0..MaxRevision
    BY CanonAssumption DEF CanonTypeOK
  <2> QED
    BY <2>1 DEF Candidate, Stages
<1>3. UNCHANGED <<revision, canon, past>>
  BY DEF storeCandidate
<1>4. CoreTypeOK'
  <2>1. candidates' = [candidates EXCEPT ![c] = new]
    BY DEF storeCandidate
  <2> QED
    BY <1>2, <1>3, <2>1 DEF CanonTypeOK, CoreTypeOK
<1>5. CandidatesFit' /\ ResultsApart' /\ RevisionNamesCanon'
  <2>1. /\ new.stage = "pending" /\ new.read = read
        /\ new.kind = "character" => new.sources = Unlisted
    OBVIOUS
  <2>2. read \in 1..revision
    BY CanonAssumption DEF CanonTypeOK
  <2>3. CandidatesFit'
    BY <1>1, <1>3, <2>1, <2>2 DEF CoreInv, CandidatesFit
  <2>4. ResultsApart'
    BY <1>1, <2>1 DEF CoreInv, ResultsApart
  <2> QED
    BY <1>3, <2>3, <2>4 DEF CoreInv, RevisionNamesCanon
<1>6. ApprovedFresh'
  BY <1>1, <1>3 DEF CoreInv, ApprovedFresh
<1> QED
  BY <1>4, <1>5, <1>6 DEF CoreInv

(* Whatever a request does keeps them.                                     *)
LEMMA HandleKeeps ==
  ASSUME CanonTypeOK, CoreInv, NEW r \in Requests, handle(r)
  PROVE  CoreTypeOK' /\ CoreInv'
<1>1. CASE Transaction /\ UNCHANGED candidates
  BY <1>1, TransactionKeeps
<1>2. ASSUME NEW c \in Candidates,
             candidates[c].stage \in {"pending", "changes_requested"},
             Transaction,
             ApprovedNow(c),
             FreshNow(c)
      PROVE  CoreTypeOK' /\ CoreInv'
  BY <1>2, ApprovalKeeps
<1>3. ASSUME UNCHANGED <<revision, canon, past>>,
             NEW c \in Candidates, NEW s \in {"rejected", "changes_requested"},
             candidates[c].stage \in {"pending", "changes_requested"},
             candidates' = [candidates EXCEPT ![c].stage = s]
      PROVE  CoreTypeOK' /\ CoreInv'
  <2>1. s \in Stages \ {"none", "approved"} /\ candidates[c].stage # "none"
    BY <1>3 DEF Stages
  <2> QED
    BY <1>3, <2>1, StageKeeps
<1> QED
  BY <1>1, <1>2, <1>3, HandleSplit DEF CoreInv

-----------------------------------------------------------------------------
(* Every step keeps every invariant.                                       *)
LEMMA CanonStep == CanonInv /\ [CanonNext]_canonVars => CanonInv'
<1> SUFFICES ASSUME CanonInv, [CanonNext]_canonVars PROVE CanonInv'
  OBVIOUS
<1>a. CanonTypeOK /\ CoreInv /\ KeysFit
  BY DEF CanonInv, CoreInv
<1>b. /\ mutations \in [Keys -> Requests \cup {NoRequest}]
      /\ effects \in [Keys -> Nat]
  BY <1>a DEF CanonTypeOK
<1> DEFINE KeysKept == /\ mutations' \in [Keys -> Requests \cup {NoRequest}]
                       /\ effects' \in [Keys -> Nat]
                       /\ KeysFit'
<1>c. ASSUME UNCHANGED <<mutations, effects>> PROVE KeysKept
  BY <1>a, <1>b, <1>c DEF KeysFit
<1>d. ASSUME CoreTypeOK', CoreInv', KeysKept PROVE CanonInv'
  BY <1>d DEF CanonInv, CoreInv, CoreTypeOK, CanonTypeOK
<1>1. CASE UNCHANGED canonVars
  BY <1>1, <1>a DEF canonVars, CanonInv, CoreInv, CanonTypeOK, CandidatesFit, KeysFit,
                    ResultsApart, RevisionNamesCanon, ApprovedFresh
<1>2. ASSUME NEW c \in Candidates, NEW kind \in Kinds, NEW read \in 1..revision,
             NEW sources \in Lists, NEW target \in Items,
             kind = "character" => sources = Unlisted,
             storeCandidate(c, kind, read, sources, target)
      PROVE  CanonInv'
  <2>1. CoreTypeOK' /\ CoreInv'
    BY <1>2, <1>a, StoreKeeps
  <2> QED
    BY <1>2, <2>1, <1>c, <1>d DEF storeCandidate
<1>3. ASSUME NEW c \in Candidates, NEW base \in 1..revision, NEW target \in Items,
             createCharacterCandidate(c, base, target)
      PROVE  CanonInv'
  <2>1. Unlisted \in Lists /\ "character" \in Kinds
    BY DEF Kinds, Lists
  <2> QED
    BY <1>2, <1>3, <2>1 DEF createCharacterCandidate
<1>4. ASSUME NEW k \in Keys \cup {NoKey}, NEW r \in Requests, withIdempotency(k, r)
      PROVE  CanonInv'
  <2>1. CASE UNCHANGED canonVars
    BY <1>1, <2>1
  <2>2. CASE handle(r) /\ UNCHANGED <<mutations, effects>>
    BY <1>a, <1>c, <1>d, <2>2, HandleKeeps
  <2>3. CASE k \in Keys /\ mutations[k] = NoRequest /\ runUnderKey(k, r)
    <3>1. CoreTypeOK' /\ CoreInv'
      BY <1>a, <2>3, HandleKeeps DEF runUnderKey
    <3>2. KeysKept
      <4>1. /\ mutations' = [mutations EXCEPT ![k] = r]
            /\ effects' = [effects EXCEPT ![k] = @ + 1]
            /\ r # NoRequest
        BY <2>3, RequestAssumption DEF runUnderKey
      <4>2. mutations' \in [Keys -> Requests \cup {NoRequest}] /\ effects' \in [Keys -> Nat]
        BY <1>b, <2>3, <4>1
      <4>3. KeysFit'
        BY <1>a, <1>b, <2>3, <4>1 DEF KeysFit
      <4> QED
        BY <4>2, <4>3
    <3> QED
      BY <3>1, <3>2, <1>d
  <2> QED
    BY <1>4, <2>1, <2>2, <2>3 DEF withIdempotency
<1>5. ASSUME NEW k \in Keys, repeatRequest(k) PROVE CanonInv'
  <2>1. mutations[k] \in Requests
    BY <1>5, <1>b DEF repeatRequest
  <2> QED
    BY <1>4, <1>5, <2>1 DEF repeatRequest
<1> QED
  BY <1>1, <1>2, <1>3, <1>4, <1>5
     DEF CanonNext, request, submitSceneCandidate, createSceneCandidate, Kinds

(* Every invariant holds in every state of the canon.                      *)
THEOREM CanonAlwaysSafe == CanonSpec => []CanonInv
BY CanonInitInv, CanonStep, PTL DEF CanonSpec

(* Revisions, rows, candidates and saved requests keep their types.        *)
THEOREM CanonTypeCorrect == CanonSpec => []CanonTypeOK
<1>1. CanonInv => CanonTypeOK
  BY DEF CanonInv
<1> QED
  BY <1>1, CanonAlwaysSafe, PTL

(* A revision number names one canon: nothing is written without advancing *)
(* it.                                                                     *)
THEOREM RevisionsNameCanons == CanonSpec => []RevisionNamesCanon
<1>1. CanonInv => RevisionNamesCanon
  BY DEF CanonInv
<1> QED
  BY <1>1, CanonAlwaysSafe, PTL

(* A candidate is approved on the canon, or the rows, it was written from. *)
THEOREM ApprovalsAreFresh == CanonSpec => []ApprovedFresh
<1>1. CanonInv => ApprovedFresh
  BY DEF CanonInv
<1> QED
  BY <1>1, CanonAlwaysSafe, PTL

(* A request takes effect at most once under its key.                      *)
THEOREM KeysServeOnce == CanonSpec => []KeyedOnce
<1>1. CanonInv => KeyedOnce
  BY DEF CanonInv, KeysFit, KeyedOnce
<1> QED
  BY <1>1, CanonAlwaysSafe, PTL

-----------------------------------------------------------------------------
(* The refinement: what the candidates and versions look like at the gate. *)

(* Authors of versions, in the order of the versions.                      *)
LEMMA WritersAreSequence ==
  ASSUME CanonTypeOK
  PROVE  writers \in Seq(Candidates \cup {Author}) /\ Len(writers) = revision - 1
<1>1. \A S \in SUBSET Candidates : authorAmong(S) \in Candidates \cup {Author}
  BY DEF authorAmong
<1>2. \A r : writersOf(r) \in SUBSET Candidates
  BY DEF writersOf
<1>3. revision - 1 \in Nat
  BY CanonAssumption DEF CanonTypeOK
<1>4. writers \in [1..(revision - 1) -> Candidates \cup {Author}]
  BY <1>1, <1>2 DEF writers
<1> QED
  BY <1>3, <1>4

(* A longer sequence with the same beginning is an Append.                 *)
LEMMA IsAppend ==
  ASSUME NEW S, NEW s \in Seq(S), NEW e \in S, NEW t \in Seq(S), Len(t) = Len(s) + 1,
         \A k \in 1..Len(s) : t[k] = s[k], t[Len(t)] = e
  PROVE  t = Append(s, e)
BY AppendProperties, SeqEqual

(* The version a transaction adds is written by whoever has its number.    *)
LEMMA VersionAdded ==
  ASSUME CanonTypeOK, Transaction, NEW m, m = revision,
         \A r \in 2..revision : writersOf(r)' = writersOf(r)
  PROVE  writers' = Append(writers, authorAmong(writersOf(m + 1)'))
<1>1. m \in Nat /\ m >= 1 /\ m = revision /\ revision' = m + 1
  BY CanonAssumption DEF CanonTypeOK, Transaction
<1>2. writers' = [n \in 1..m |-> authorAmong(writersOf(n + 1)')]
  <2>1. revision' - 1 = m
    BY <1>1
  <2> QED
    BY <2>1 DEF writers, writersOf
<1>3. \A n \in 1..Len(writers) : writers'[n] = writers[n]
  <2> SUFFICES ASSUME NEW n \in 1..(revision - 1)
               PROVE  authorAmong(writersOf(n + 1)') = authorAmong(writersOf(n + 1))
    BY <1>1, <1>2, WritersAreSequence DEF writers
  <2>1. n + 1 \in 2..revision
    BY <1>1
  <2>2. writersOf(n + 1)' = writersOf(n + 1)
    BY <2>1
  <2> QED
    BY <2>2
<1>4. writers'[m] = authorAmong(writersOf(m + 1)')
  BY <1>1, <1>2
<1>5. Len(writers) + 1 = m /\ writers \in Seq(Candidates \cup {Author})
  BY <1>1, WritersAreSequence
<1>6. \A S \in SUBSET Candidates : authorAmong(S) \in Candidates \cup {Author}
  BY DEF authorAmong
<1>7. \A r : writersOf(r)' \in SUBSET Candidates
  BY DEF writersOf
<1>8. writers' \in [1..m -> Candidates \cup {Author}]
  BY <1>2, <1>6, <1>7
<1>9. writers' \in Seq(Candidates \cup {Author}) /\ Len(writers') = m
  BY <1>1, <1>8
<1> QED
  BY <1>3, <1>4, <1>5, <1>6, <1>7, <1>9, IsAppend

(* Without a transaction nothing is added.                                 *)
LEMMA NoVersionAdded ==
  ASSUME revision' = revision, \A r : writersOf(r)' = writersOf(r)
  PROVE  writers' = writers
<1>1. \A n \in 1..(revision - 1) : writersOf(n + 1)' = writersOf(n + 1)
  OBVIOUS
<1> QED
  BY <1>1 DEF writers

(* What a candidate's stage means at the gate.                             *)
DecisionOf(s) == IF s \in {"approved", "rejected"} THEN s ELSE "open"

LEMMA DecisionSet ==
  ASSUME CanonTypeOK, NEW c \in Candidates, NEW s,
         \A d \in Candidates \ {c} : candidates'[d].stage = candidates[d].stage,
         candidates'[c].stage = s
  PROVE  decisions' = [decisions EXCEPT ![c] = DecisionOf(s)]
<1>1. decisions = [d \in Candidates |-> DecisionOf(candidates[d].stage)]
  BY DEF decisions, DecisionOf
<1>2. decisions' = [d \in Candidates |-> DecisionOf(candidates'[d].stage)]
  BY DEF decisions, DecisionOf
<1> HIDE DEF DecisionOf
<1> QED
  BY <1>1, <1>2

LEMMA GateTransaction ==
  ASSUME CanonInv, Transaction, UNCHANGED candidates, NEW m, m = revision
  PROVE  Gate!Edit
<1>1. CanonTypeOK /\ CandidatesFit
  BY DEF CanonInv
<1>2. \A r : writersOf(r)' = writersOf(r)
  BY DEF writersOf
<1>3. writersOf(m + 1) = {}
  BY <1>1, CanonAssumption DEF CanonTypeOK, CandidatesFit, writersOf
<1>4. writers' = Append(writers, Author)
  BY <1>1, <1>2, <1>3, VersionAdded DEF authorAmong
<1>5. decisions' = decisions
  BY DEF decisions
<1> QED
  BY <1>4, <1>5 DEF Gate!Edit

LEMMA GateApproval ==
  ASSUME CanonInv, Transaction, NEW m, m = revision, NEW c \in Candidates, ApprovedNow(c),
         candidates[c].stage \in {"pending", "changes_requested"}
  PROVE  Gate!Approve(c)
<1>1. CanonTypeOK /\ CandidatesFit
  BY DEF CanonInv
<1>2. /\ \A d \in Candidates \ {c} : candidates'[d] = candidates[d]
      /\ candidates'[c].stage = "approved" /\ candidates'[c].result = revision + 1
  <2>1. candidates[c] \in Candidate /\ revision + 1 \in 0..MaxRevision
    BY <1>1, CanonAssumption DEF CanonTypeOK, Transaction
  <2> DEFINE new == [candidates[c] EXCEPT !.stage = "approved", !.result = revision + 1]
  <2>2. new.stage = "approved" /\ new.result = revision + 1
    BY <2>1, ApprovedRow
  <2>3. candidates'[c] = new /\ \A d \in Candidates \ {c} : candidates'[d] = candidates[d]
    BY <1>1 DEF CanonTypeOK, ApprovedNow
  <2> HIDE DEF new
  <2> QED
    BY <2>2, <2>3
<1>3. \A r \in 2..revision : writersOf(r)' = writersOf(r)
  <2> SUFFICES ASSUME NEW r \in 2..revision, NEW d \in Candidates
               PROVE  (candidates'[d].stage = "approved" /\ candidates'[d].result = r)
                        <=> (candidates[d].stage = "approved" /\ candidates[d].result = r)
    BY DEF writersOf
  <2>1. revision + 1 # r
    BY <1>1, CanonAssumption DEF CanonTypeOK
  <2> QED
    BY <1>2, <2>1
<1>4. writersOf(m + 1)' = {c}
  <2>1. \A d \in Candidates \ {c} : candidates[d].stage = "approved"
                                      => candidates[d].result # revision + 1
    BY <1>1, CanonAssumption DEF CanonTypeOK, CandidatesFit
  <2> SUFFICES ASSUME NEW d \in Candidates
               PROVE  (candidates'[d].stage = "approved" /\ candidates'[d].result = m + 1)
                        <=> d = c
    BY DEF writersOf
  <2> QED
    BY <1>2, <2>1
<1>5. writers' = Append(writers, c)
  <2>1. authorAmong({c}) = c
    BY DEF authorAmong
  <2> QED
    BY <1>1, <1>3, <1>4, <2>1, VersionAdded
<1>6. decisions' = [decisions EXCEPT ![c] = "approved"] /\ decisions[c] = "open"
  BY <1>1, <1>2, DecisionSet DEF DecisionOf, decisions
<1> QED
  BY <1>5, <1>6 DEF Gate!Approve

LEMMA GateStage ==
  ASSUME CanonInv, revision' = revision, NEW c \in Candidates,
         NEW s \in Stages \ {"approved"},
         candidates[c].stage \notin {"approved", "rejected"},
         \A d \in Candidates \ {c} : candidates'[d] = candidates[d],
         candidates'[c].stage = s
  PROVE  Gate!Reject(c) \/ UNCHANGED Gate!gateVars
<1>1. writers' = writers
  <2>1. \A r : writersOf(r)' = writersOf(r)
    <3> SUFFICES ASSUME NEW r, NEW d \in Candidates
                 PROVE  (candidates'[d].stage = "approved" /\ candidates'[d].result = r)
                          <=> (candidates[d].stage = "approved" /\ candidates[d].result = r)
      BY DEF writersOf
    <3> QED
      OBVIOUS
  <2> QED
    BY <2>1, NoVersionAdded
<1>2. /\ decisions' = [decisions EXCEPT ![c] = DecisionOf(s)]
      /\ decisions[c] = "open" /\ decisions = [d \in Candidates |-> decisions[d]]
  BY DecisionSet DEF decisions, CanonInv
<1>3. CASE s = "rejected"
  BY <1>1, <1>2, <1>3 DEF Gate!Reject, DecisionOf
<1>4. CASE s # "rejected"
  BY <1>1, <1>2, <1>4 DEF Gate!gateVars, DecisionOf
<1> QED
  BY <1>3, <1>4

(* Every step of the canon is a step of the gate or a stutter.             *)
LEMMA GateStep == CanonInv /\ [CanonNext]_canonVars => [Gate!GateNext]_(Gate!gateVars)
<1> SUFFICES ASSUME CanonInv, [CanonNext]_canonVars
             PROVE  Gate!GateNext \/ UNCHANGED Gate!gateVars
  BY DEF Gate!gateVars
<1>a. CanonTypeOK /\ CoreInv /\ RevisionNamesCanon
  BY DEF CanonInv, CoreInv
<1>1. CASE UNCHANGED <<revision, candidates>>
  <2>1. writers' = writers
    BY <1>1, NoVersionAdded DEF writersOf
  <2> QED
    BY <1>1, <2>1 DEF decisions, Gate!gateVars
<1>2. ASSUME NEW r \in Requests, handle(r) PROVE Gate!GateNext \/ UNCHANGED Gate!gateVars
  <2>1. CASE Transaction /\ UNCHANGED candidates
    BY <2>1, GateTransaction DEF Gate!GateNext
  <2>2. ASSUME NEW c \in Candidates, Transaction, ApprovedNow(c),
               candidates[c].stage \in {"pending", "changes_requested"}
        PROVE  Gate!GateNext
    BY <2>2, GateApproval DEF Gate!GateNext
  <2>3. ASSUME UNCHANGED <<revision, canon, past>>, NEW c \in Candidates,
               NEW s \in {"rejected", "changes_requested"},
               candidates[c].stage \in {"pending", "changes_requested"},
               candidates' = [candidates EXCEPT ![c].stage = s]
        PROVE  Gate!GateNext \/ UNCHANGED Gate!gateVars
    <3>1. /\ \A d \in Candidates \ {c} : candidates'[d] = candidates[d]
          /\ candidates'[c].stage = s /\ s \in Stages \ {"approved"}
      BY <1>a, <2>3 DEF CanonTypeOK, Candidate, Stages
    <3> QED
      BY <2>3, <3>1, GateStage DEF Gate!GateNext
  <2>4. CandidatesFit
    BY DEF CanonInv
  <2> QED
    BY <1>2, <1>a, <2>4, <2>1, <2>2, <2>3, HandleSplit
<1>3. ASSUME NEW c \in Candidates, NEW kind, NEW read, NEW sources, NEW target,
             storeCandidate(c, kind, read, sources, target)
      PROVE  Gate!GateNext \/ UNCHANGED Gate!gateVars
  <2>1. /\ \A d \in Candidates \ {c} : candidates'[d] = candidates[d]
        /\ candidates'[c].stage = "pending" /\ candidates[c].stage = "none"
        /\ revision' = revision
    BY <1>3, <1>a DEF storeCandidate, CanonTypeOK
  <2> QED
    BY <2>1, GateStage DEF Gate!GateNext, Stages
<1>5. ASSUME NEW k, NEW r \in Requests, withIdempotency(k, r)
      PROVE  Gate!GateNext \/ UNCHANGED Gate!gateVars
  BY <1>1, <1>2, <1>5 DEF withIdempotency, runUnderKey, canonVars
<1>6. ASSUME NEW k \in Keys, repeatRequest(k)
      PROVE  Gate!GateNext \/ UNCHANGED Gate!gateVars
  BY <1>5, <1>6, <1>a DEF repeatRequest, CanonTypeOK
<1> QED
  BY <1>1, <1>3, <1>5, <1>6
     DEF CanonNext, request, canonVars, submitSceneCandidate, createSceneCandidate,
         createCharacterCandidate

(* The reviews implement the gate: a candidate is decided once, a version  *)
(* has one author, and nothing but an approval or an edit makes one.       *)
THEOREM ReviewsImplementGate == CanonSpec => ReviewIsGate
<1>1. CanonInit => Gate!GateInit
  <2> SUFFICES ASSUME CanonInit PROVE Gate!GateInit
    OBVIOUS
  <2>1. decisions = [c \in Candidates |-> "open"]
    BY DEF CanonInit, NoCandidate, decisions
  <2>2. writers = <<>>
    <3>1. revision - 1 = 0
      BY DEF CanonInit
    <3> QED
      BY <3>1, WritersAreSequence, CanonInitInv DEF CanonInv
  <2> QED
    BY <2>1, <2>2 DEF Gate!GateInit
<1> QED
  BY <1>1, GateStep, CanonAlwaysSafe, PTL DEF CanonSpec, ReviewIsGate, Gate!GateSpec
=============================================================================
