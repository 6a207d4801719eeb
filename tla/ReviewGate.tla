----------------------------- MODULE ReviewGate -----------------------------
(***************************************************************************)
(* What the review of candidates promises, without revisions, requests,    *)
(* sources or retries: a candidate is decided at most once, a rejection    *)
(* leaves the canon alone, and the canon grows one version at a time, each *)
(* version written by one approved candidate or by one creator's edit.     *)
(* CanonReview is shown to implement this module.                          *)
(***************************************************************************)
EXTENDS Sequences

CONSTANTS Proposals,   \* the candidates
          Editor       \* the author of a version no candidate wrote

VARIABLES decided,     \* decided[c]: "open", "approved" or "rejected"
          authors      \* who wrote each version of the canon after the first

gateVars == <<decided, authors>>

GateInit == /\ decided = [c \in Proposals |-> "open"]
            /\ authors = <<>>

Approve(c) == /\ decided[c] = "open"
              /\ decided' = [decided EXCEPT ![c] = "approved"]
              /\ authors' = Append(authors, c)

Reject(c) == /\ decided[c] = "open"
             /\ decided' = [decided EXCEPT ![c] = "rejected"]
             /\ UNCHANGED authors

Edit == /\ authors' = Append(authors, Editor)
        /\ UNCHANGED decided

GateNext == Edit \/ \E c \in Proposals : Approve(c) \/ Reject(c)

GateSpec == GateInit /\ [][GateNext]_gateVars
=============================================================================
