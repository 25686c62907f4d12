----------------------------- MODULE RunResults -----------------------------
(***************************************************************************)
(* What a run keeps of what its checks said (src/verify/run.go and the     *)
(* reasons of src/verify/receipts.go).                                     *)
(***************************************************************************)
EXTENDS Verdict

VARIABLES
  results,            \* run.results
  reason,             \* run.reason: the first failed check's code
  unconfirmedReason   \* run.unconfirmedReason

NewRun ==
  /\ results = NewResults
  /\ reason = NoReason
  /\ unconfirmedReason = NoReason

\* runReason: the first failure's code, else the first unconfirmed check's.
RunReason == IF reason # NoReason THEN reason ELSE unconfirmedReason
=============================================================================
