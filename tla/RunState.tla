------------------------------ MODULE RunState ------------------------------
(***************************************************************************)
(* What one invocation accumulates (src/verify/run.go, the results of      *)
(* src/verify/report.go and the reasons of src/verify/receipts.go), with   *)
(* the checks that feed it left open: any check may speak at any moment.   *)
(* The two verifiers that are held to agree run their checks in the same   *)
(* order, but the verdict must not depend on it; only the reason, which is *)
(* documented as the first failed check's code, may.                       *)
(***************************************************************************)
EXTENDS RunResults, FiniteSets, Sequences

CONSTANTS
  Codes,        \* reason codes of the receipt and registry checks
  MaxFindings   \* bound: how many findings one run records

ASSUME RunStateAssumption == MaxFindings \in Nat

ASSUME NoReasonIsNoCode == NoReason \notin Codes

VARIABLES
  exitCode,           \* the report's exit code, -1 until the run finishes
  findings            \* auxiliary: what the checks said, in order

runVars == <<results, reason, unconfirmedReason, exitCode, findings>>

Running == exitCode = -1 /\ Len(findings) < MaxFindings

Said(state, name, code) ==
  findings' = Append(findings, [state |-> state, name |-> name, code |-> code])

RunInit ==
  /\ NewRun
  /\ exitCode = -1
  /\ findings = <<>>

\* A failed check of a bundle: report(message, result).
ReportCheck(name) ==
  /\ Running
  /\ results' = Report(results, name)
  /\ Said("fail", name, NoReason)
  /\ UNCHANGED <<reason, unconfirmedReason, exitCode>>

\* A bundle check that could not be completed: unconfirmed(message, result).
UnconfirmedCheck(name) ==
  /\ Running
  /\ results' = Unconfirmed(results, name)
  /\ Said("unconfirmed", name, NoReason)
  /\ UNCHANGED <<reason, unconfirmedReason, exitCode>>

\* A check that was skipped: demote(result, "not_checked").
SkippedCheck(name) ==
  /\ Running
  /\ results' = NotChecked(results, name)
  /\ Said("not_checked", name, NoReason)
  /\ UNCHANGED <<reason, unconfirmedReason, exitCode>>

\* A failed receipt or registry check: reasonFail(code, message, result).
ReasonFail(code, name) ==
  /\ Running
  /\ reason' = SetReason(reason, code)
  /\ results' = Report(results, name)
  /\ Said("fail", name, code)
  /\ UNCHANGED <<unconfirmedReason, exitCode>>

\* A receipt or registry check that could not be completed.
ReasonUnconfirmed(code, name) ==
  /\ Running
  /\ unconfirmedReason' = SetReason(unconfirmedReason, code)
  /\ results' = Unconfirmed(results, name)
  /\ Said("unconfirmed", name, code)
  /\ UNCHANGED <<reason, exitCode>>

Finish ==
  /\ exitCode = -1
  /\ exitCode' = ExitCode(results)
  /\ UNCHANGED <<results, reason, unconfirmedReason, findings>>

\* finishHard: the run stops without a verdict, whatever was found before.
FinishHard(code) ==
  /\ exitCode = -1
  /\ exitCode' = code
  /\ UNCHANGED <<results, reason, unconfirmedReason, findings>>

RunNext ==
  \/ \E n \in Results : ReportCheck(n) \/ UnconfirmedCheck(n) \/ SkippedCheck(n)
  \/ \E n \in Results, c \in Codes : ReasonFail(c, n) \/ ReasonUnconfirmed(c, n)
  \/ Finish
  \/ \E code \in {ExitFail, ExitError} : FinishHard(code)

RunSpec == RunInit /\ [][RunNext]_runVars
-----------------------------------------------------------------------------
TypeOK ==
  /\ results \in Verdicts
  /\ reason \in Codes \cup {NoReason}
  /\ unconfirmedReason \in Codes \cup {NoReason}
  /\ exitCode \in {-1, ExitPass, ExitFail, ExitError, ExitUnconfirmed}
  /\ findings \in Seq([state : States, name : Results, code : Codes \cup {NoReason}])

Heard == {findings[i] : i \in DOMAIN findings}

\* "Nothing ever raises one, so the order of checks cannot change the verdict"
\* (report.go, demote): each result is the worst thing any check said of it, a
\* function of the SET of findings and never of the order they came in.
VerdictIsOrderFree ==
  \A n \in Results :
    /\ \A f \in Heard : f.name = n => Rank[f.state] <= Rank[results[n]]
    /\ results[n] # "pass" => \E f \in Heard : f.name = n /\ f.state = results[n]

\* A run that ends with exit code 0 or 3 heard no failure at all, and one that
\* ends with 0 heard nothing unconfirmed: a reason for failing can not be lost
\* between the check that found it and the exit code of the process.
ExitCodeAccountsForEveryFinding ==
  /\ exitCode \in {ExitPass, ExitUnconfirmed} => \A f \in Heard : f.state # "fail"
  /\ exitCode = ExitPass => \A f \in Heard : f.state # "unconfirmed"
  /\ exitCode = ExitUnconfirmed => \E f \in Heard : f.state = "unconfirmed"

\* The findings of that state that carry a code.
Coded(state) ==
  {i \in DOMAIN findings : findings[i].state = state /\ findings[i].code # NoReason}

\* code is the one the first of them carries, and no code when there is none.
IsFirstCode(code, state) ==
  \/ Coded(state) = {} /\ code = NoReason
  \/ \E i \in Coded(state) : /\ \A j \in Coded(state) : i <= j
                             /\ code = findings[i].code

\* The reason a receipt or registry run gives is the code of the FIRST failed
\* check that has one; an unconfirmed check's code is given only when no failed
\* check had one, however early it came (receipts.go, runReason).
ReasonIsFirstFailure ==
  IsFirstCode(RunReason, IF Coded("fail") # {} THEN "fail" ELSE "unconfirmed")
=============================================================================
