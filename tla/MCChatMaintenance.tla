------------------------- MODULE MCChatMaintenance -------------------------
EXTENDS ChatMaintenance, TLC

(* A consume job is named by its dedupe key: engine and batch.             *)
MCJobs == ExtractJobs \cup SummaryJobs \cup ConsumeJobs

Symmetry == Permutations(Pumps) \cup Permutations(ExtractJobs) \cup Permutations(SummaryJobs)
=============================================================================
