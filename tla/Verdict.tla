------------------------------ MODULE Verdict ------------------------------
(***************************************************************************)
(* The five results of a verification and what a check may do to them      *)
(* (src/verify/report.go, src/verify/run.go).                              *)
(*                                                                         *)
(* Every check of the verifier speaks to the verdict only through the      *)
(* operators of this module: a failed check demotes one result to "fail",  *)
(* a check that could not be completed demotes one to "unconfirmed", a     *)
(* check that was skipped demotes one to "not_checked".  The messages are  *)
(* left out: only which result they are about, and how bad they are.       *)
(***************************************************************************)
EXTENDS Integers

Results == {"content_integrity", "signing_identity", "timestamps", "scope",
            "redactions"}

States == {"pass", "not_checked", "unconfirmed", "fail"}

\* The rank demote compares: a larger rank is a worse state.
Rank == [s \in States |->
           CASE s = "pass"        -> 0
             [] s = "not_checked" -> 1
             [] s = "unconfirmed" -> 2
             [] s = "fail"        -> 3]

Verdicts == [Results -> States]

NewResults == [n \in Results |-> "pass"]

\* A demotion that forgets the comparison: the last finding wins.
DemoteLastWins(results, name, state) == [results EXCEPT ![name] = state]

Demote(results, name, state) ==
  [results EXCEPT ![name] = IF Rank[state] > Rank[@] THEN state ELSE @]

Report(results, name)      == Demote(results, name, "fail")
Unconfirmed(results, name) == Demote(results, name, "unconfirmed")
NotChecked(results, name)  == Demote(results, name, "not_checked")

\* A whole check at once: name fails exactly when one of its problems holds.
FailIf(problem, results, name) ==
  IF problem THEN Report(results, name) ELSE results

NoReason == "none"

\* A later failure replaces the reason an earlier one gave.
SetReasonLast(current, code) == code

\* setReason and setUnconfirmedReason: the first code stays.
SetReason(current, code) == IF current = NoReason THEN code ELSE current

ExitPass == 0
ExitFail == 1
ExitError == 2
ExitUnconfirmed == 3

Some(results, state) == \E n \in Results : results[n] = state

\* The exit code, had an unconfirmed result been looked for first.
ExitCodeUnconfirmedFirst(results) ==
  IF Some(results, "unconfirmed") THEN ExitUnconfirmed
  ELSE IF Some(results, "fail") THEN ExitFail ELSE ExitPass

\* Any failure is a failure; otherwise anything unconfirmed is unconfirmed;
\* otherwise, results that were not checked included, it is a pass.
ExitCode(results) ==
  IF Some(results, "fail") THEN ExitFail
  ELSE IF Some(results, "unconfirmed") THEN ExitUnconfirmed ELSE ExitPass

\* r is nowhere better than q.
AtLeastAsBad(r, q) == \A n \in Results : Rank[r[n]] >= Rank[q[n]]
=============================================================================
