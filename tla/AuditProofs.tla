---------------------------- MODULE AuditProofs ----------------------------
(***************************************************************************)
(* What a run accumulates, for any number of checks in any order; and what *)
(* holds of a registry, its log and its receipts when they are held        *)
(* against each other, whatever the history.                               *)
(***************************************************************************)
EXTENDS RunState, RegistryAudit, VerdictProofs, FiniteSetTheorems

\* The exit code a finished run gives is the one its results call for; a hard
\* stop gives neither 0 nor 3.
ExitCodeIsOfTheResults ==
  exitCode \in {ExitPass, ExitUnconfirmed} => exitCode = ExitCode(results)

\* Each of the two reasons is the first code of its own kind.
ReasonsAreFirst ==
  IsFirstCode(reason, "fail") /\ IsFirstCode(unconfirmedReason, "unconfirmed")

IInv == TypeOK /\ VerdictIsOrderFree /\ ExitCodeIsOfTheResults /\ ReasonsAreFirst

\* A check that says something: the result it is about is demoted, and what it
\* said is the last finding.
Speaks(state, name, code) ==
  /\ Running
  /\ results' = Demote(results, name, state)
  /\ Said(state, name, code)
  /\ exitCode' = exitCode

\* Recording a finding adds that one to those heard.
LEMMA HeardType ==
  ASSUME TypeOK, NEW f \in Heard
  PROVE  f.state \in States /\ f.name \in Results
  <1> DEFINE S == [state : States, name : Results, code : Codes \cup {NoReason}]
  <1>1. PICK i \in DOMAIN findings : f = findings[i]
    BY DEF Heard
  <1>2. findings[i] \in S
    <2>1. findings \in Seq(S)
      BY DEF TypeOK
    <2> HIDE DEF S
    <2>2. QED
      BY <2>1, <1>1
  <1>3. QED
    BY <1>1, <1>2

\* A demotion together with its finding leaves each result the worst of what was
\* heard about it (report.go, demote).
LEMMA FindingKeepsVerdict ==
  ASSUME TypeOK, VerdictIsOrderFree, NEW s \in States \ {"pass"}, NEW n \in Results,
         NEW c \in Codes \cup {NoReason}, Speaks(s, n, c)
  PROVE  VerdictIsOrderFree' /\ ExitCodeIsOfTheResults'
  <1> DEFINE f == [state |-> s, name |-> n, code |-> c]
  <1>1. /\ results \in Verdicts /\ results' \in Verdicts
        /\ findings \in Seq([state : States, name : Results, code : Codes \cup {NoReason}])
        /\ findings' = Append(findings, f)
        /\ f \in [state : States, name : Results, code : Codes \cup {NoReason}]
    BY DemoteType DEF TypeOK, Speaks, Said
  <1>2. Heard' = Heard \cup {f}
    BY <1>1 DEF Heard
  <1>3. \A a \in States : /\ Rank[a] \in 0..3 /\ (a = "pass" <=> Rank[a] = 0)
                          /\ \A b \in States : Rank[a] = Rank[b] => a = b
    BY RankTotal
  <1>4. \A g \in Heard : g.state \in States /\ g.name \in Results
    BY HeardType
  <1>5. ASSUME NEW m \in Results
        PROVE  /\ \A g \in Heard' : g.name = m => Rank[g.state] <= Rank[results'[m]]
               /\ results'[m] # "pass" =>
                    \E g \in Heard' : g.name = m /\ g.state = results'[m]
    <2>1. results[m] \in States /\ results'[m] \in States
      BY <1>1 DEF Verdicts
    <2>2. /\ \A g \in Heard : g.name = m => Rank[g.state] <= Rank[results[m]]
          /\ results[m] # "pass" => \E g \in Heard : g.name = m /\ g.state = results[m]
      BY DEF VerdictIsOrderFree
    <2>3. CASE m # n
      <3>1. results'[m] = results[m]
        BY <2>3, <1>1 DEF Speaks, Demote, Verdicts
      <3>2. QED
        BY <3>1, <2>2, <2>3, <1>2
    <2>4. CASE m = n
      <3>1. results'[m] = IF Rank[s] > Rank[results[m]] THEN s ELSE results[m]
        BY <2>4, <1>1 DEF Speaks, Demote, Verdicts
      <3>2. Rank[s] <= Rank[results'[m]] /\ Rank[results[m]] <= Rank[results'[m]]
        BY <3>1, <2>1, <1>3
      <3>3. \A g \in Heard' : g.name = m => Rank[g.state] <= Rank[results'[m]]
        BY <3>2, <2>2, <2>1, <1>2, <1>3, <1>4
      <3>4. results'[m] # "pass" =>
              \E g \in Heard' : g.name = m /\ g.state = results'[m]
        <4>1. f \in Heard' /\ f.name = n /\ f.state = s
          BY <1>2
        <4>2. CASE results'[m] = s
          BY <4>1, <4>2, <2>4
        <4>3. CASE results'[m] = results[m]
          BY <4>3, <2>2, <1>2
        <4>4. QED
          BY <3>1, <4>2, <4>3
      <3>5. QED
        BY <3>3, <3>4
    <2>5. QED
      BY <2>3, <2>4
  <1>6. ExitCodeIsOfTheResults'
    BY DEF Speaks, Running, ExitCodeIsOfTheResults, ExitPass, ExitUnconfirmed
  <1>7. QED
    BY <1>5, <1>6 DEF VerdictIsOrderFree

\* A finding of another kind, or without a code, leaves a first code the first.
LEMMA OtherFindingKeepsFirst ==
  ASSUME TypeOK, NEW s \in States, NEW n \in Results, NEW c \in Codes \cup {NoReason},
         Said(s, n, c), NEW kind \in States, NEW code, IsFirstCode(code, kind),
         s # kind \/ c = NoReason
  PROVE  IsFirstCode(code, kind)'
  <1>1. /\ findings' = Append(findings, [state |-> s, name |-> n, code |-> c])
        /\ findings \in Seq([state : States, name : Results, code : Codes \cup {NoReason}])
    BY DEF Said, TypeOK
  <1>2. Coded(kind)' = Coded(kind)
    BY <1>1 DEF Coded
  <1>3. \A i \in Coded(kind) : findings'[i] = findings[i]
    BY <1>1 DEF Coded
  <1>4. QED
    BY <1>2, <1>3 DEF IsFirstCode

\* A coded finding of this kind gives the reason when there was none.
LEMMA CodedFindingKeepsFirst ==
  ASSUME TypeOK, NEW s \in States, NEW n \in Results, NEW c \in Codes, Said(s, n, c),
         NEW code \in Codes \cup {NoReason}, IsFirstCode(code, s)
  PROVE  Coded(s)' # {} /\ IsFirstCode(SetReason(code, c), s)'
  <1>1. /\ findings' = Append(findings, [state |-> s, name |-> n, code |-> c])
        /\ findings \in Seq([state : States, name : Results, code : Codes \cup {NoReason}])
        /\ c # NoReason /\ Len(findings) \in Nat
    BY NoReasonIsNoCode DEF Said, TypeOK
  <1>2. Coded(s)' = Coded(s) \cup {Len(findings) + 1}
    BY <1>1 DEF Coded
  <1>3. /\ \A i \in Coded(s) : /\ findings'[i] = findings[i] /\ i \in 1..Len(findings)
                               /\ findings[i].code # NoReason
        /\ findings'[Len(findings) + 1].code = c
    BY <1>1 DEF Coded
  <1>4. CASE Coded(s) = {}
    <2>1. SetReason(code, c) = c
      BY <1>4 DEF IsFirstCode, SetReason
    <2>2. QED
      BY <2>1, <1>1, <1>2, <1>3, <1>4 DEF IsFirstCode
  <1>5. CASE Coded(s) # {}
    <2>1. PICK i \in Coded(s) : (\A j \in Coded(s) : i <= j) /\ code = findings[i].code
      BY <1>5 DEF IsFirstCode
    <2>2. SetReason(code, c) = code
      BY <2>1, <1>3 DEF SetReason
    <2>3. \A j \in Coded(s)' : i <= j
      BY <2>1, <1>2, <1>3, <1>1
    <2>4. QED
      BY <2>1, <2>2, <2>3, <1>2, <1>3 DEF IsFirstCode
  <1>6. QED
    BY <1>4, <1>5

\* A run starts with five passes, no reason and nothing heard (run.go, newRun).
LEMMA InitIInv == RunInit => IInv
  <1> SUFFICES ASSUME RunInit PROVE IInv
    OBVIOUS
  <1>1. TypeOK
    BY DEF RunInit, NewRun, TypeOK, NewResults, Verdicts, States
  <1>2. Heard = {} /\ Coded("fail") = {} /\ Coded("unconfirmed") = {}
    BY DEF RunInit, NewRun, Heard, Coded
  <1>3. VerdictIsOrderFree
    BY <1>2 DEF VerdictIsOrderFree, RunInit, NewRun, NewResults
  <1>4. QED
    BY <1>1, <1>2, <1>3 DEF IInv, RunInit, NewRun, ExitCodeIsOfTheResults, ReasonsAreFirst,
       IsFirstCode, ExitPass, ExitUnconfirmed

\* The next state of both first-code facts, whatever gave the finding.
LEMMA FindingKeepsFirst ==
  ASSUME TypeOK, ReasonsAreFirst, NEW s \in {"fail", "unconfirmed", "not_checked"},
         NEW n \in Results, NEW c \in Codes \cup {NoReason}, Said(s, n, c),
         reason' = IF s = "fail" /\ c # NoReason THEN SetReason(reason, c) ELSE reason,
         unconfirmedReason' = IF s = "unconfirmed" /\ c # NoReason
                              THEN SetReason(unconfirmedReason, c)
                              ELSE unconfirmedReason,
         s = "not_checked" => c = NoReason
  PROVE  /\ reason' \in Codes \cup {NoReason}
         /\ unconfirmedReason' \in Codes \cup {NoReason}
         /\ ReasonsAreFirst'
  <1>1. /\ s \in States /\ "fail" \in States /\ "unconfirmed" \in States
        /\ c # NoReason => c \in Codes
        /\ reason \in Codes \cup {NoReason}
        /\ unconfirmedReason \in Codes \cup {NoReason}
    BY DEF States, TypeOK
  <1>2. \A code, kind : kind \in States /\ IsFirstCode(code, kind)
                          /\ (s # kind \/ c = NoReason) => IsFirstCode(code, kind)'
    BY <1>1, OtherFindingKeepsFirst
  <1>3. \A code \in Codes \cup {NoReason} :
          c # NoReason /\ IsFirstCode(code, s) => IsFirstCode(SetReason(code, c), s)'
    BY <1>1, CodedFindingKeepsFirst
  <1>4. IsFirstCode(reason, "fail")'
    <2>1. CASE s = "fail" /\ c # NoReason
      <3>1. reason' = SetReason(reason, c)
        BY <2>1
      <3>2. QED
        BY <1>1, <1>3, <2>1, <3>1 DEF ReasonsAreFirst
    <2>2. CASE ~(s = "fail" /\ c # NoReason)
      <3>1. reason' = reason
        BY <2>2
      <3>2. QED
        BY <1>1, <1>2, <2>2, <3>1 DEF ReasonsAreFirst
    <2>3. QED
      BY <2>1, <2>2
  <1>5. IsFirstCode(unconfirmedReason, "unconfirmed")'
    <2>1. CASE s = "unconfirmed" /\ c # NoReason
      <3>1. unconfirmedReason' = SetReason(unconfirmedReason, c)
        BY <2>1
      <3>2. QED
        BY <1>1, <1>3, <2>1, <3>1 DEF ReasonsAreFirst
    <2>2. CASE ~(s = "unconfirmed" /\ c # NoReason)
      <3>1. unconfirmedReason' = unconfirmedReason
        BY <2>2
      <3>2. QED
        BY <1>1, <1>2, <2>2, <3>1 DEF ReasonsAreFirst
    <2>3. QED
      BY <2>1, <2>2
  <1>6. QED
    BY <1>1, <1>4, <1>5 DEF ReasonsAreFirst, SetReason

\* Every check, and the end of the run, keeps the inductive invariant.
LEMMA NextIInv == IInv /\ [RunNext]_runVars => IInv'
  <1> SUFFICES ASSUME IInv, [RunNext]_runVars PROVE IInv'
    OBVIOUS
  <1>1. TypeOK /\ VerdictIsOrderFree /\ ExitCodeIsOfTheResults /\ ReasonsAreFirst
    BY DEF IInv
  <1>2. ASSUME NEW s \in {"fail", "unconfirmed", "not_checked"}, NEW n \in Results,
               NEW c \in Codes \cup {NoReason}, Speaks(s, n, c),
               reason' = IF s = "fail" /\ c # NoReason THEN SetReason(reason, c)
                         ELSE reason,
               unconfirmedReason' = IF s = "unconfirmed" /\ c # NoReason
                                    THEN SetReason(unconfirmedReason, c)
                                    ELSE unconfirmedReason,
               s = "not_checked" => c = NoReason
        PROVE  IInv'
    <2>1. s \in States \ {"pass"} /\ Said(s, n, c)
      BY <1>2 DEF States, Speaks
    <2>2. VerdictIsOrderFree' /\ ExitCodeIsOfTheResults'
      BY <1>1, <1>2, <2>1, FindingKeepsVerdict
    <2>3. /\ reason' \in Codes \cup {NoReason}
          /\ unconfirmedReason' \in Codes \cup {NoReason}
          /\ ReasonsAreFirst'
      BY <1>1, <1>2, <2>1, FindingKeepsFirst
    <2>4. TypeOK'
      BY <1>1, <1>2, <2>1, <2>3, DemoteType DEF TypeOK, Speaks, Said
    <2>5. QED
      BY <2>2, <2>3, <2>4 DEF IInv
  <1>3. ASSUME NEW n \in Results, ReportCheck(n)
        PROVE  IInv'
    BY <1>2, <1>3 DEF ReportCheck, Speaks, Report
  <1>4. ASSUME NEW n \in Results, UnconfirmedCheck(n)
        PROVE  IInv'
    BY <1>2, <1>4 DEF UnconfirmedCheck, Speaks, Unconfirmed
  <1>5. ASSUME NEW n \in Results, SkippedCheck(n)
        PROVE  IInv'
    BY <1>2, <1>5 DEF SkippedCheck, Speaks, NotChecked
  <1>6. ASSUME NEW n \in Results, NEW c \in Codes, ReasonFail(c, n)
        PROVE  IInv'
    BY <1>2, <1>6, NoReasonIsNoCode DEF ReasonFail, Speaks, Report
  <1>7. ASSUME NEW n \in Results, NEW c \in Codes, ReasonUnconfirmed(c, n)
        PROVE  IInv'
    BY <1>2, <1>7, NoReasonIsNoCode DEF ReasonUnconfirmed, Speaks, Unconfirmed
  <1>8. ASSUME UNCHANGED <<results, reason, unconfirmedReason, findings>>,
               exitCode' \in {exitCode, ExitFail, ExitError, ExitCode(results)}
        PROVE  IInv'
    <2>1. ExitCode(results) \in {ExitPass, ExitFail, ExitUnconfirmed}
      BY DEF ExitCode, Some
    <2>2. TypeOK'
      BY <1>1, <1>8, <2>1 DEF TypeOK
    <2>3. VerdictIsOrderFree' /\ ReasonsAreFirst'
      BY <1>1, <1>8 DEF VerdictIsOrderFree, ReasonsAreFirst, IsFirstCode, Coded, Heard
    <2>4. ExitCodeIsOfTheResults'
      BY <1>1, <1>8 DEF ExitCodeIsOfTheResults, ExitPass, ExitFail, ExitError,
         ExitUnconfirmed
    <2>5. QED
      BY <2>2, <2>3, <2>4 DEF IInv
  <1>9. CASE Finish
    BY <1>8, <1>9 DEF Finish
  <1>10. ASSUME NEW code \in {ExitFail, ExitError}, FinishHard(code)
         PROVE  IInv'
    BY <1>8, <1>10 DEF FinishHard
  <1>11. CASE UNCHANGED runVars
    BY <1>8, <1>11 DEF runVars
  <1>12. QED
    BY <1>3, <1>4, <1>5, <1>6, <1>7, <1>9, <1>10, <1>11 DEF RunNext

\* The inductive invariant of a run (run.go): it is well typed, its results and
\* reasons summarise the findings, and the exit code is that of the results.
THEOREM RunInvariant == RunSpec => []IInv
  <1>1. QED
    BY InitIInv, NextIInv, PTL DEF RunSpec

\* "Nothing ever raises one, so the order of checks cannot change the verdict"
\* (report.go): each result is the worst any check said of it.
THEOREM OrderFree == RunSpec => []VerdictIsOrderFree
  <1>1. IInv => VerdictIsOrderFree
    BY DEF IInv
  <1>2. QED
    BY <1>1, RunInvariant, PTL

\* No failure is lost between the check that found it and the exit code.
THEOREM ExitCodeAccounts == RunSpec => []ExitCodeAccountsForEveryFinding
  <1>1. ASSUME IInv
        PROVE  ExitCodeAccountsForEveryFinding
    <2>1. /\ results \in Verdicts
          /\ findings \in Seq([state : States, name : Results, code : Codes \cup {NoReason}])
          /\ VerdictIsOrderFree /\ ExitCodeIsOfTheResults
      BY <1>1 DEF IInv, TypeOK
    <2>2. \A f \in Heard : f.state \in States /\ f.name \in Results
      BY <1>1, HeardType DEF IInv
    <2>3. \A f \in Heard : f.state = "fail" => results[f.name] = "fail"
      <3>1. TAKE f \in Heard
      <3>2. f.name \in Results /\ f.state \in States /\ results[f.name] \in States
        BY <2>1, <2>2 DEF Verdicts
      <3>3. Rank[f.state] <= Rank[results[f.name]]
        BY <2>1, <3>2 DEF VerdictIsOrderFree
      <3>4. QED
        BY <3>2, <3>3, RankTotal
    <2>4. \A f \in Heard : f.state = "unconfirmed" =>
                             results[f.name] \in {"unconfirmed", "fail"}
      <3>1. TAKE f \in Heard
      <3>2. f.name \in Results /\ f.state \in States /\ results[f.name] \in States
        BY <2>1, <2>2 DEF Verdicts
      <3>3. Rank[f.state] <= Rank[results[f.name]]
        BY <2>1, <3>2 DEF VerdictIsOrderFree
      <3>4. QED
        BY <3>2, <3>3, RankTotal DEF States
    <2>5. ExitCode(results) \in {ExitPass, ExitUnconfirmed} =>
            \A n \in Results : results[n] # "fail"
      BY <2>1, FailureDecidesExitCode DEF ExitPass, ExitFail, ExitUnconfirmed
    <2>6. ExitCode(results) = ExitPass => \A n \in Results : results[n] # "unconfirmed"
      <3>1. Some(results, "unconfirmed") => ExitCode(results) # ExitPass
        BY DEF ExitCode, ExitPass, ExitFail, ExitUnconfirmed
      <3>2. QED
        BY <3>1 DEF Some
    <2>7. ExitCode(results) = ExitUnconfirmed =>
            \E n \in Results : results[n] = "unconfirmed"
      BY DEF ExitCode, Some, ExitPass, ExitFail, ExitUnconfirmed
    <2>8. exitCode = ExitUnconfirmed => \E f \in Heard : f.state = "unconfirmed"
      BY <2>1, <2>7 DEF VerdictIsOrderFree, ExitCodeIsOfTheResults
    <2>9. QED
      BY <2>1, <2>2, <2>3, <2>4, <2>5, <2>6, <2>8 DEF ExitCodeAccountsForEveryFinding,
         ExitCodeIsOfTheResults
  <1>2. QED
    BY <1>1, RunInvariant, PTL

\* The reason is the first failed check's, whatever came before or after it.
THEOREM FirstFailureIsTheReason == RunSpec => []ReasonIsFirstFailure
  <1>1. ASSUME IInv
        PROVE  ReasonIsFirstFailure
    <2>1. /\ reason \in Codes \cup {NoReason}
          /\ IsFirstCode(reason, "fail") /\ IsFirstCode(unconfirmedReason, "unconfirmed")
      BY <1>1 DEF IInv, TypeOK, ReasonsAreFirst
    <2>2. reason = NoReason <=> Coded("fail") = {}
      BY <2>1 DEF IsFirstCode, Coded
    <2>3. QED
      BY <2>1, <2>2 DEF ReasonIsFirstFailure, RunReason
  <1>2. QED
    BY <1>1, RunInvariant, PTL

-----------------------------------------------------------------------------
(* The history of a registry.                                              *)

ReceiptFields ==
  {"document", "sound", "keyId", "signed", "stream", "outcome", "digest", "credential",
   "key", "policyHash", "receivedAt", "sealBy", "signedAt", "decisionSeq", "accepted"}

\* What a receipt says of its request, of the record in the log and of the event.
RequestFits(q, r, decisions, stream, t) ==
  /\ q.request \in Requests /\ q.at \in 0..t /\ q.told \in Outcomes
  /\ DOMAIN r = ReceiptFields
  /\ r.document = TRUE /\ r.sound = TRUE /\ r.signed = TRUE
  /\ r.keyId = "key" /\ r.stream = "registry"
  /\ r.outcome = q.told /\ r.receivedAt = q.at /\ r.signedAt = q.at
  /\ r.sealBy = q.at + MSD
  /\ r.key = q.request.key
  /\ r.decisionSeq \in Nat \ {0}
  /\ r.accepted \in {None} \cup AcceptancesMade
  /\ q.record \in {None, r.decisionSeq}
  /\ q.record # None => /\ q.record \in DOMAIN decisions
                        /\ SaysTheSame(decisions[q.record], r)
                        /\ decisions[q.record].payload.accepted = r.accepted
  /\ q.told = "accepted" => \E n \in 1..MaxRequests :
                               /\ r.accepted = Acceptance(n, q.request, q.at)
                               /\ q.event \in {None, n}
  /\ q.told # "accepted" => q.event = None
  /\ q.event # None => /\ q.event \in DOMAIN stream
                       /\ stream[q.event] = EventOf(q.event, q.request, q.at)

RequestKept(i) == RequestFits(requests[i], signed[i], records, events, now)

RequestsKept ==
  /\ IsList(requests) /\ IsList(signed)
  /\ Len(signed) = Len(requests)
  /\ \A i \in DOMAIN requests : RequestKept(i)

\* Every decision and every event is that of a request, and both streams are
\* written in the order of time.
InTime(stream, t) ==
  \A i \in DOMAIN stream : /\ stream[i].receivedAt \in 0..t
                           /\ \A j \in 1..i : stream[j].receivedAt <= stream[i].receivedAt

StreamsKept ==
  /\ IsList(records) /\ IsList(events)
  /\ Len(events) <= Len(requests)
  /\ InTime(records, now) /\ InTime(events, now)
  /\ \A n \in DOMAIN records :
       records[n].action = "ingress" => \E i \in DOMAIN requests : requests[i].record = n
  /\ \A n \in DOMAIN events : \E i \in DOMAIN requests : requests[i].event = n

\* The seals of a stream lie side by side from its start.
SealsLie(checkpoints, stream, t) ==
  /\ IsList(checkpoints)
  /\ \A i \in DOMAIN checkpoints :
       /\ checkpoints[i].from \in Nat /\ checkpoints[i].to \in Nat
       /\ checkpoints[i].from <= checkpoints[i].to /\ checkpoints[i].to <= Len(stream)
       /\ checkpoints[i].createdAt \in 0..t
       /\ checkpoints[i].from = IF i = 1 THEN 1 ELSE checkpoints[i - 1].to + 1

\* What the last receipt names and was not written then has not been written
\* since.
LastUnwritten ==
  LET last == Len(requests) IN
  last > 0 =>
    /\ requests[last].record = None =>
         \A n \in DOMAIN records :
            n >= signed[last].decisionSeq => records[n].action # "ingress"
    /\ requests[last].told = "accepted" /\ requests[last].event = None =>
         Len(events) < signed[last].accepted.sequence

\* The service's own state: the policies there are, and what keys were taken by.
ServiceKept ==
  /\ now \in 0..Horizon /\ deviations \in Nat
  /\ Len(requests) <= MaxRequests
  /\ IsList(policies) /\ Len(policies) > 0 /\ policies[1].at = 0
  /\ \A i \in DOMAIN policies : policies[i].policy \in {FirstPolicy, Amendment}
  /\ \A k \in DOMAIN held : held[k] \in AcceptancesMade

\* An acceptance of that key says what the event says.
Stands(accepted, key, stream) ==
  /\ accepted.sequence \in DOMAIN stream
  /\ accepted.entry = stream[accepted.sequence].entry
  /\ accepted.digest = RequestDigest(stream[accepted.sequence], key)

\* Everything was sealed in time, and what is unsealed still can be.
SealedInTime(checkpoints, stream, t) ==
  /\ \A i \in DOMAIN checkpoints :
       \A n \in checkpoints[i].from..checkpoints[i].to :
          checkpoints[i].createdAt <= stream[n].receivedAt + MSD
  /\ \A n \in DOMAIN stream : n > SealedTo(checkpoints) => stream[n].receivedAt + MSD > t

\* A service that did not deviate wrote down everything, and in time.
HonestSoFar ==
  deviations = 0 =>
    /\ \A k \in DOMAIN held : Stands(held[k], k, events)
    /\ \A i \in DOMAIN requests :
         /\ requests[i].record # None
         /\ signed[i].accepted # None => Stands(signed[i].accepted, signed[i].key, events)
         /\ signed[i].outcome = "accepted" =>
              events[signed[i].accepted.sequence].receivedAt = signed[i].receivedAt
    /\ SealedInTime(eventSeals, events, now)
    /\ SealedInTime(recordSeals, records, now)

HistoryInv ==
  /\ RequestsKept
  /\ StreamsKept
  /\ SealsLie(eventSeals, events, now) /\ SealsLie(recordSeals, records, now)
  /\ LastUnwritten
  /\ ServiceKept
  /\ HonestSoFar

-----------------------------------------------------------------------------
(* The audit.                                                              *)

\* A bundle of a stream, up to one of its checkpoints.
IsExportOf(bundle, stream, checkpoints) ==
  \E n \in DOMAIN checkpoints :
    /\ bundle.to = checkpoints[n].to
    /\ bundle.events = SubSeq(stream, 1, checkpoints[n].to)
    /\ bundle.checkpoints = SubSeq(checkpoints, 1, n)
    /\ bundle.anchoredAt \in NoTime..(Horizon + SealGrace)

RegistryExport(b) ==
  b.publicId = "registry" /\ b.logFor = None /\ IsExportOf(b, events, eventSeals)
LogExport(b) ==
  b.publicId = "log" /\ b.logFor = "registry" /\ IsExportOf(b, records, recordSeals)

\* A receipt that was signed, or one that was altered on its way.
IsHeld(receipt) ==
  \E i \in DOMAIN signed : receipt \in {signed[i]} \cup Altered(signed[i])

ReconcileModes == {"bundles", "rules", "receipts", "done", "unread"}

Reconciled ==
  ended /\ rule \in ReconcileModes =>
    /\ \A i \in DOMAIN receipts : IsHeld(receipts[i])
    /\ IsLogOf => RegistryExport(registry) /\ LogExport(log)
    /\ rule \in {"rules", "receipts"} => IsLogOf /\ read = ReadRegistryLog(log)

ShownModes == {"receipt", "targets", "judged", "error"}

Shown ==
  rule \in ShownModes =>
    /\ ended /\ signed # <<>>
    /\ TheReceipt \in {Last(signed)} \cup Damaged(Last(signed))
    /\ IsList(given) /\ IsList(targets)
    /\ \A i \in DOMAIN targets : \E j \in DOMAIN given : targets[i] = given[j]
    /\ \A i \in DOMAIN given :
         given[i] = Nothing \/ RegistryExport(given[i]) \/ LogExport(given[i])
    /\ registry = Nothing \/ (RegistryExport(registry) /\ Gave("registry")
                                /\ TheReceipt.stream = "registry")
    /\ log = Nothing \/ (LogExport(log) /\ Gave("log") /\ TheReceipt.stream = "registry")
    /\ rule # "judged" /\ TheReceipt.document =>
         reason = "BUNDLE" \/ (reason = NoReason /\ results = NewResults)

\* Every result that asks for more is about something that may still come, and
\* only a reconciliation has one.
ScopeExplained ==
  results["scope"] = "unconfirmed" =>
    /\ ended /\ rule \in ReconcileModes
    /\ \E i \in DOMAIN requests : MayStillCome(requests[i])

AuditInv ==
  /\ HistoryInv
  /\ ~ended => rule = "bundles" /\ NewRun
  /\ rule \in ReconcileModes \cup ShownModes
  /\ results \in Verdicts
  /\ ended => receiptKeys = ReceiptKeySet(KeyEntries)
  /\ IsList(receipts) /\ next \in Nat \ {0}
  /\ Reconciled
  /\ Shown
  /\ ScopeExplained
  /\ CheckedReceiptIsKept
  /\ HonestReceiptHolds

-----------------------------------------------------------------------------
(* A history keeps what it has: requests stay as they were written.        *)

Extends(s, t) ==
  /\ IsList(s) /\ IsList(t)
  /\ Len(s) <= Len(t)
  /\ \A i \in 1..Len(s) : t[i] = s[i]

\* A list is an extension of itself, and so is the list with one more element.
LEMMA ListExtends ==
  ASSUME NEW s, IsList(s)
  PROVE  Extends(s, s) /\ \A e : Extends(s, Append(s, e))
  <1>1. Len(s) \in Nat /\ DOMAIN s = 1..Len(s)
    BY ListFacts
  <1>2. Extends(s, s)
    BY <1>1 DEF Extends
  <1>3. ASSUME NEW e PROVE Extends(s, Append(s, e))
    <2> DEFINE t == Append(s, e)
    <2>1. Len(t) = Len(s) + 1 /\ IsList(t) /\ \A i \in 1..Len(s) : t[i] = s[i]
      BY OneMore
    <2> HIDE DEF t
    <2>2. Extends(s, t)
      BY <1>1, <2>1 DEF Extends
    <2> QED BY <2>2 DEF t
  <1> QED BY <1>2, <1>3

\* Whatever is written later, a request keeps its receipt, record and event.
LEMMA FitsStays ==
  ASSUME NEW log1, NEW log2, Extends(log1, log2), NEW stream1, NEW stream2,
         Extends(stream1, stream2), NEW a \in Nat, NEW b \in Nat, a <= b,
         NEW q, NEW r, RequestFits(q, r, log1, stream1, a)
  PROVE  RequestFits(q, r, log2, stream2, b)
  <1>1. /\ Len(log1) \in Nat /\ DOMAIN log1 = 1..Len(log1)
        /\ Len(log2) \in Nat /\ DOMAIN log2 = 1..Len(log2)
        /\ Len(stream1) \in Nat /\ DOMAIN stream1 = 1..Len(stream1)
        /\ Len(stream2) \in Nat /\ DOMAIN stream2 = 1..Len(stream2)
    BY ListFacts DEF Extends
  <1>2. ASSUME q.record # None
        PROVE  /\ q.record \in DOMAIN log2
               /\ SaysTheSame(log2[q.record], r)
               /\ log2[q.record].payload.accepted = r.accepted
    <2>1. q.record \in DOMAIN log1 /\ SaysTheSame(log1[q.record], r)
          /\ log1[q.record].payload.accepted = r.accepted
      BY <1>2 DEF RequestFits
    <2>2. q.record \in DOMAIN log2 /\ log2[q.record] = log1[q.record]
      BY <1>1, <2>1 DEF Extends
    <2> QED BY <2>1, <2>2
  <1>3. ASSUME q.event # None
        PROVE  q.event \in DOMAIN stream2 /\ stream2[q.event] = EventOf(q.event, q.request, q.at)
    <2>1. q.event \in DOMAIN stream1 /\ stream1[q.event] = EventOf(q.event, q.request, q.at)
      BY <1>3 DEF RequestFits
    <2>2. q.event \in DOMAIN stream2 /\ stream2[q.event] = stream1[q.event]
      BY <1>1, <2>1 DEF Extends
    <2> QED BY <2>1, <2>2
  <1>4. q.at \in 0..b
    BY DEF RequestFits
  <1> QED BY <1>2, <1>3, <1>4 DEF RequestFits

\* The same, for a step of the registry.
LEMMA RequestStays ==
  ASSUME Extends(records, records'), Extends(events, events'),
         now \in Nat, now' \in Nat, now <= now',
         NEW i, requests'[i] = requests[i], signed'[i] = signed[i], RequestKept(i)
  PROVE  RequestKept(i)'
  <1> DEFINE q == requests[i]
             r == signed[i]
  <1>1. RequestFits(q, r, records, events, now)
    BY DEF RequestKept
  <1> HIDE DEF q, r
  <1>2. RequestFits(q, r, records', events', now')
    BY <1>1, FitsStays
  <1> QED BY <1>2 DEF RequestKept, q, r

\* A stream that goes on stays in the order of time.
LEMMA InTimeGrows ==
  ASSUME NEW s, NEW t, Extends(s, t), NEW a \in Nat, NEW b \in Nat, a <= b, InTime(s, a),
         \A i \in (Len(s) + 1)..Len(t) : t[i].receivedAt = b
  PROVE  InTime(t, b)
  <1>1. /\ Len(s) \in Nat /\ DOMAIN s = 1..Len(s)
        /\ Len(t) \in Nat /\ DOMAIN t = 1..Len(t) /\ Len(s) <= Len(t)
        /\ \A i \in 1..Len(s) : t[i] = s[i]
    BY ListFacts DEF Extends
  <1>2. \A i \in 1..Len(s) : s[i].receivedAt \in 0..a
    BY <1>1 DEF InTime
  <1>3. ASSUME NEW i \in 1..Len(t) PROVE t[i].receivedAt \in 0..b
    <2>1. CASE i \in 1..Len(s)
      BY <1>1, <1>2, <2>1
    <2>2. CASE i \in (Len(s) + 1)..Len(t)
      BY <2>2
    <2> QED BY <1>1, <2>1, <2>2
  <1>4. ASSUME NEW i \in 1..Len(t), NEW j \in 1..i
        PROVE  t[j].receivedAt <= t[i].receivedAt
    <2>1. CASE i \in 1..Len(s)
      <3>1. j \in 1..Len(s) /\ t[j] = s[j] /\ t[i] = s[i]
        BY <1>1, <2>1
      <3> QED BY <1>1, <2>1, <3>1 DEF InTime
    <2>2. CASE i \in (Len(s) + 1)..Len(t)
      <3>1. t[i].receivedAt = b /\ j \in 1..Len(t)
        BY <1>1, <2>2
      <3> QED BY <1>3, <3>1
    <2> QED BY <1>1, <2>1, <2>2
  <1> QED BY <1>1, <1>3, <1>4 DEF InTime

\* Its seals lie as they lay.
LEMMA SealsStay ==
  ASSUME NEW s, NEW t, Extends(s, t), NEW a \in Nat, NEW b \in Nat, a <= b,
         NEW c, SealsLie(c, s, a)
  PROVE  SealsLie(c, t, b)
  <1>1. Len(s) \in Nat /\ Len(t) \in Nat /\ Len(s) <= Len(t)
    BY ListFacts DEF Extends
  <1> QED BY <1>1 DEF SealsLie

\* Where the seals of a stream end.
LEMMA SealedToIs ==
  ASSUME NEW c, NEW s, IsList(s), NEW a \in Nat, SealsLie(c, s, a)
  PROVE  /\ Len(c) \in Nat /\ DOMAIN c = 1..Len(c)
         /\ SealedTo(c) = IF Len(c) = 0 THEN 0 ELSE c[Len(c)].to
         /\ SealedTo(c) \in 0..Len(s)
         /\ \A i \in 1..Len(c) : c[i].from \in 1..c[i].to /\ c[i].to <= SealedTo(c)
  <1>1. /\ Len(c) \in Nat /\ DOMAIN c = 1..Len(c) /\ IsList(c)
        /\ Len(s) \in Nat
    BY ListFacts DEF SealsLie
  <1>2. (c = <<>>) = (Len(c) = 0)
    BY <1>1 DEF IsList
  <1>3. SealedTo(c) = IF Len(c) = 0 THEN 0 ELSE c[Len(c)].to
    BY <1>2 DEF SealedTo, Last
  <1>4. \A i \in 1..Len(c) : /\ c[i].from \in Nat /\ c[i].to \in Nat
                             /\ c[i].from <= c[i].to /\ c[i].to <= Len(s)
                             /\ c[i].from = IF i = 1 THEN 1 ELSE c[i - 1].to + 1
    BY <1>1 DEF SealsLie
  <1>5. SealedTo(c) \in 0..Len(s)
    <2>1. CASE Len(c) = 0
      BY <1>1, <1>3, <2>1
    <2>2. CASE Len(c) # 0
      <3>1. Len(c) \in 1..Len(c)
        BY <1>1, <2>2
      <3> QED BY <1>1, <1>3, <1>4, <2>2, <3>1
    <2> QED BY <2>1, <2>2
  <1> DEFINE T == {d \in Nat : d < Len(c) => c[Len(c) - d].to <= SealedTo(c)}
  <1>6. 0 \in T
    BY <1>1, <1>3, <1>4
  <1>7. ASSUME NEW d \in Nat, d \in T PROVE d + 1 \in T
    <2> SUFFICES ASSUME d + 1 < Len(c) PROVE c[Len(c) - (d + 1)].to <= SealedTo(c)
      BY <1>1
    <2> DEFINE i == Len(c) - d
    <2>1. c[i].to <= SealedTo(c)
      BY <1>1, <1>7
    <2> HIDE DEF T
    <2>2. Len(c) \in Nat
      BY <1>1
    <2>3. /\ i \in 1..Len(c) /\ i # 1 /\ i - 1 \in 1..Len(c)
          /\ c[i - 1] = c[Len(c) - (d + 1)]
      <3>1. i - 1 = Len(c) - (d + 1)
        BY <2>2
      <3>2. i \in 1..Len(c) /\ i # 1 /\ i - 1 \in 1..Len(c)
        BY <2>2
      <3> QED BY <3>1, <3>2
    <2> HIDE DEF i
    <2>4. c[i].from = c[i - 1].to + 1 /\ c[i].from <= c[i].to
          /\ c[i].to \in Nat /\ c[i - 1].to \in Nat
      BY <1>4, <2>3
    <2>5. c[i - 1].to <= SealedTo(c)
      BY <1>5, <2>1, <2>4
    <2> QED BY <2>3, <2>5
  <1>8. \A d \in Nat : d \in T
    <2> HIDE DEF T
    <2> QED BY <1>6, <1>7, StepInduction
  <1>9. ASSUME NEW i \in 1..Len(c) PROVE c[i].from \in 1..c[i].to /\ c[i].to <= SealedTo(c)
    <2>1. Len(c) - i \in Nat /\ Len(c) - i < Len(c) /\ Len(c) - (Len(c) - i) = i
      BY <1>1
    <2>2. c[i].to <= SealedTo(c)
      BY <1>8, <2>1
    <2>3. c[i].from >= 1
      <3>1. CASE i = 1
        BY <1>4, <3>1
      <3>2. CASE i # 1
        <4>1. i - 1 \in 1..Len(c)
          BY <1>1, <3>2
        <4> QED BY <1>4, <3>2, <4>1
      <3> QED BY <3>1, <3>2
    <2>4. c[i].from \in Nat /\ c[i].to \in Nat /\ c[i].from <= c[i].to
      BY <1>4
    <2> QED BY <2>2, <2>3, <2>4
  <1> QED BY <1>1, <1>3, <1>5, <1>9

\* What comes new is unsealed, and can still be sealed in time.
LEMMA InTimeStays ==
  ASSUME NEW s, NEW t, Extends(s, t), NEW a \in Nat, NEW c, SealsLie(c, s, a),
         InTime(s, a), SealedInTime(c, s, a),
         \A i \in (Len(s) + 1)..Len(t) : t[i].receivedAt = a
  PROVE  SealedInTime(c, t, a)
  <1>1. /\ Len(s) \in Nat /\ DOMAIN s = 1..Len(s)
        /\ Len(t) \in Nat /\ DOMAIN t = 1..Len(t) /\ Len(s) <= Len(t)
        /\ \A i \in 1..Len(s) : t[i] = s[i]
    BY ListFacts DEF Extends
  <1>2. /\ DOMAIN c = 1..Len(c) /\ SealedTo(c) \in 0..Len(s)
        /\ \A i \in 1..Len(c) : c[i].from \in 1..c[i].to /\ c[i].to <= SealedTo(c)
    BY SealedToIs DEF Extends
  <1>3. ASSUME NEW i \in DOMAIN c, NEW n \in c[i].from..c[i].to
        PROVE  c[i].createdAt <= t[n].receivedAt + MSD
    <2>1. c[i].from \in Nat /\ c[i].to \in Nat
      BY DEF SealsLie
    <2>2. n \in 1..Len(s)
      BY <1>1, <1>2, <2>1
    <2>3. c[i].createdAt <= s[n].receivedAt + MSD
      BY DEF SealedInTime
    <2> QED BY <1>1, <2>2, <2>3
  <1>4. ASSUME NEW n \in DOMAIN t, n > SealedTo(c) PROVE t[n].receivedAt + MSD > a
    <2>1. CASE n \in 1..Len(s)
      BY <1>1, <1>4, <2>1 DEF SealedInTime
    <2>2. CASE n \in (Len(s) + 1)..Len(t)
      <3>1. t[n].receivedAt = a /\ MSD \in Nat \ {0}
        BY <2>2, TimesAssumption
      <3> QED BY <3>1
    <2> QED BY <1>1, <2>1, <2>2
  <1> QED BY <1>3, <1>4 DEF SealedInTime

\* An event once written stays what an acceptance said of it.
LEMMA StandsStays ==
  ASSUME NEW s, NEW t, Extends(s, t), NEW accepted, NEW key, Stands(accepted, key, s)
  PROVE  Stands(accepted, key, t) /\ t[accepted.sequence] = s[accepted.sequence]
  <1>1. /\ Len(s) \in Nat /\ DOMAIN s = 1..Len(s)
        /\ Len(t) \in Nat /\ DOMAIN t = 1..Len(t)
    BY ListFacts DEF Extends
  <1>2. accepted.sequence \in DOMAIN t /\ t[accepted.sequence] = s[accepted.sequence]
    BY <1>1 DEF Extends, Stands
  <1> QED BY <1>2 DEF Stands

-----------------------------------------------------------------------------
(* An answer.                                                              *)

\* The largest of some numbers below a bound.
LEMMA Greatest ==
  ASSUME NEW a \in Int, NEW b \in Int, NEW T, T \subseteq a..b, T # {}
  PROVE  Max(T) \in T /\ \A x \in T : x <= Max(T)
  <1> DEFINE U == {b - x : x \in T}
  <1>1. U \subseteq Nat /\ U # {}
    <2>1. \A x \in T : b - x \in Nat
      <3> TAKE x \in T
      <3>1. x \in a..b
        OBVIOUS
      <3> QED BY <3>1
    <2>2. U # {}
      OBVIOUS
    <2> QED BY <2>1, <2>2
  <1>2. PICK u \in U : \A v \in U : u <= v
    <2> HIDE DEF U
    <2> QED BY <1>1, Smallest
  <1>3. PICK m \in T : u = b - m
    OBVIOUS
  <1>4. \A x \in T : x <= m
    <2> TAKE x \in T
    <2>1. b - x \in U /\ x \in Int /\ m \in Int
      OBVIOUS
    <2>2. b - m <= b - x
      BY <1>2, <1>3, <2>1
    <2> QED BY <2>1, <2>2
  <1> HIDE DEF U
  <1>5. \E x \in T : \A y \in T : x >= y
    BY <1>4
  <1>6. Max(T) \in T /\ \A y \in T : Max(T) >= y
    BY <1>5 DEF Max
  <1> QED BY <1>6

\* There is always a policy in force.
LEMMA PolicyAtIs ==
  ASSUME ServiceKept
  PROVE  PolicyAt(now) \in {FirstPolicy, Amendment}
  <1> DEFINE past == {i \in DOMAIN policies : policies[i].at <= now}
  <1>1. Len(policies) \in Nat /\ DOMAIN policies = 1..Len(policies)
    BY ListFacts DEF ServiceKept
  <1>2. 1 \in past /\ past \subseteq 1..Len(policies)
    BY <1>1, RegistryAssumption DEF ServiceKept
  <1>3. PolicyAt(now) = policies[Max(past)].policy
    BY DEF PolicyAt
  <1> HIDE DEF past
  <1>4. Max(past) \in past
    <2>1. 1 \in Int /\ Len(policies) \in Int /\ past # {}
      BY <1>1, <1>2
    <2> QED BY <1>2, <2>1, Greatest
  <1> QED BY <1>1, <1>2, <1>3, <1>4 DEF ServiceKept

\* What a decision names is an acceptance that was made.
LEMMA NamedIs ==
  ASSUME ServiceKept, StreamsKept, IsList(requests), NEW q \in Requests, NEW told \in Outcomes,
         Len(requests) + 1 <= MaxRequests
  PROVE  /\ Named(told, q) \in {None} \cup AcceptancesMade
         /\ told = "accepted" => /\ Named(told, q) = Acceptance(Len(events) + 1, q, now)
                                 /\ Len(events) + 1 \in 1..MaxRequests
         /\ told # "accepted" => \/ Named(told, q) = None
                                 \/ q.key \in DOMAIN held /\ Named(told, q) = held[q.key]
  <1>1. Len(events) \in Nat /\ Len(requests) \in Nat /\ now \in 0..Horizon
        /\ MaxRequests \in Nat
    BY ListFacts, RegistryAssumption DEF StreamsKept, ServiceKept
  <1>2. Len(events) + 1 \in 1..MaxRequests
    BY <1>1 DEF StreamsKept
  <1>3. Acceptance(Len(events) + 1, q, now) \in AcceptancesMade
    BY <1>1, <1>2 DEF AcceptancesMade
  <1>4. \A k \in DOMAIN held : held[k] \in AcceptancesMade
    BY DEF ServiceKept
  <1>5. told = "accepted" => Named(told, q) = Acceptance(Len(events) + 1, q, now)
    BY DEF Named
  <1>6. told # "accepted" => \/ Named(told, q) = None
                             \/ q.key \in DOMAIN held /\ Named(told, q) = held[q.key]
    BY DEF Named
  <1> QED BY <1>2, <1>3, <1>4, <1>5, <1>6

\* The record of a decision says the same as its receipt.
LEMMA RecordSays ==
  ASSUME NEW told \in Outcomes, NEW q \in Requests, NEW policy \in {FirstPolicy, Amendment},
         NEW accepted \in {None} \cup AcceptancesMade
  PROVE  LET p == Payload(told, q, policy, accepted) IN
         /\ SaysTheSame(Record("ingress", told, p), ReceiptFor(told, p))
         /\ Record("ingress", told, p).payload.accepted = accepted
  <1> DEFINE p == Payload(told, q, policy, accepted)
  <1>1. p # None
    BY RegistryAssumption
  <1>2. p.outcome = told /\ p.accepted = accepted
    BY DEF Payload
  <1> HIDE DEF p
  <1>3. SaysTheSame(Record("ingress", told, p), ReceiptFor(told, p))
    BY <1>1, <1>2 DEF SaysTheSame, Record, ReceiptFor
  <1>4. Record("ingress", told, p).payload = p
    BY DEF Record
  <1> QED BY <1>2, <1>3, <1>4 DEF p

\* An answer adds one request.
LEMMA AnswerAsks ==
  ASSUME RequestsKept, StreamsKept, ServiceKept, NEW q, NEW told,
         NEW logged \in BOOLEAN, NEW written \in BOOLEAN, Answer(q, told, logged, written)
  PROVE  /\ now \in Nat /\ now' = now
         /\ Len(requests) \in Nat /\ Len(requests') = Len(requests) + 1
         /\ IsList(requests')
         /\ DOMAIN requests = 1..Len(requests) /\ DOMAIN requests' = 1..(Len(requests) + 1)
         /\ \A i \in 1..Len(requests) : requests'[i] = requests[i]
  <1> DEFINE x == [request |-> q, at |-> now, due |-> DueOutcome(q), able |-> Able(q),
                   told |-> told, record |-> IF logged THEN Len(records) + 1 ELSE None,
                   event |-> IF told = "accepted" /\ written THEN Len(events) + 1 ELSE None]
  <1>1. requests' = Append(requests, x) /\ now' = now
    BY DEF Answer
  <1> HIDE DEF x
  <1>2. IsList(requests) /\ Len(requests) \in Nat
    BY ListFacts DEF RequestsKept
  <1>3. now \in Nat
    BY RegistryAssumption DEF ServiceKept
  <1> QED BY <1>1, <1>2, <1>3, OneMore

\* What is kept of the request.
LEMMA AnswerKnows ==
  ASSUME RequestsKept, StreamsKept, ServiceKept, NEW q, NEW told,
         NEW logged \in BOOLEAN, NEW written \in BOOLEAN, Answer(q, told, logged, written)
  PROVE  LET x == requests'[Len(requests) + 1] IN
         /\ x.request = q /\ x.at = now /\ x.told = told
         /\ x.record = IF logged THEN Len(records) + 1 ELSE None
         /\ x.event = IF told = "accepted" /\ written THEN Len(events) + 1 ELSE None
  <1> DEFINE x == [request |-> q, at |-> now, due |-> DueOutcome(q), able |-> Able(q),
                   told |-> told, record |-> IF logged THEN Len(records) + 1 ELSE None,
                   event |-> IF told = "accepted" /\ written THEN Len(events) + 1 ELSE None]
  <1>1. requests' = Append(requests, x)
    BY DEF Answer
  <1>2. /\ x.request = q /\ x.at = now /\ x.told = told
        /\ x.record = IF logged THEN Len(records) + 1 ELSE None
        /\ x.event = IF told = "accepted" /\ written THEN Len(events) + 1 ELSE None
    OBVIOUS
  <1> HIDE DEF x
  <1>3. IsList(requests)
    BY DEF RequestsKept
  <1>4. requests'[Len(requests) + 1] = x
    BY <1>1, <1>3, OneMore
  <1> QED BY <1>2, <1>4

\* And one receipt.
LEMMA AnswerSigns ==
  ASSUME RequestsKept, StreamsKept, ServiceKept, NEW q, NEW told,
         NEW logged \in BOOLEAN, NEW written \in BOOLEAN, Answer(q, told, logged, written)
  PROVE  /\ Len(signed') = Len(requests) + 1 /\ IsList(signed')
         /\ DOMAIN signed' = 1..(Len(requests) + 1)
         /\ \A i \in 1..Len(requests) : signed'[i] = signed[i]
         /\ signed'[Len(requests) + 1]
              = ReceiptFor(told, Payload(told, q, PolicyAt(now), Named(told, q)))
  <1> DEFINE r == ReceiptFor(told, Payload(told, q, PolicyAt(now), Named(told, q)))
  <1>1. signed' = Append(signed, r)
    BY DEF Answer
  <1> HIDE DEF r
  <1>2. IsList(signed) /\ Len(signed) = Len(requests)
    BY DEF RequestsKept
  <1>3. /\ Len(signed') = Len(requests) + 1 /\ IsList(signed')
        /\ DOMAIN signed' = 1..(Len(requests) + 1)
        /\ \A i \in 1..Len(requests) : signed'[i] = signed[i]
        /\ signed'[Len(requests) + 1] = r
    BY <1>1, <1>2, OneMore
  <1> QED BY <1>3 DEF r

\* The decision is logged, or not.
LEMMA AnswerLogs ==
  ASSUME RequestsKept, StreamsKept, ServiceKept, NEW q, NEW told,
         NEW logged \in BOOLEAN, NEW written \in BOOLEAN, Answer(q, told, logged, written)
  PROVE  /\ Extends(records, records')
         /\ Len(records) \in Nat /\ DOMAIN records' = 1..Len(records')
         /\ Len(records') = (IF logged THEN Len(records) + 1 ELSE Len(records))
         /\ logged => records'[Len(records) + 1]
                        = Record("ingress", told, Payload(told, q, PolicyAt(now), Named(told, q)))
  <1> DEFINE rec == Record("ingress", told, Payload(told, q, PolicyAt(now), Named(told, q)))
  <1>1. records' = IF logged THEN Append(records, rec) ELSE records
    BY DEF Answer
  <1> HIDE DEF rec
  <1>2. IsList(records) /\ Len(records) \in Nat
    BY ListFacts DEF StreamsKept
  <1>3. /\ Extends(records, records')
        /\ Len(records') = (IF logged THEN Len(records) + 1 ELSE Len(records))
        /\ logged => records'[Len(records) + 1] = rec
    BY <1>1, <1>2, OneMore, ListExtends
  <1>4. DOMAIN records' = 1..Len(records')
    BY <1>3, ListFacts DEF Extends
  <1> QED BY <1>2, <1>3, <1>4 DEF rec

\* The event of an acceptance is written, or not.
LEMMA AnswerStores ==
  ASSUME RequestsKept, StreamsKept, ServiceKept, NEW q, NEW told,
         NEW logged \in BOOLEAN, NEW written \in BOOLEAN, Answer(q, told, logged, written)
  PROVE  /\ Extends(events, events')
         /\ Len(events) \in Nat /\ DOMAIN events' = 1..Len(events')
         /\ Len(events') = (IF told = "accepted" /\ written THEN Len(events) + 1
                           ELSE Len(events))
         /\ told = "accepted" /\ written =>
              events'[Len(events) + 1] = EventOf(Len(events) + 1, q, now)
  <1> DEFINE ev == EventOf(Len(events) + 1, q, now)
  <1>1. events' = IF told = "accepted" /\ written THEN Append(events, ev) ELSE events
    BY DEF Answer
  <1> HIDE DEF ev
  <1>2. IsList(events) /\ Len(events) \in Nat
    BY ListFacts DEF StreamsKept
  <1>3. /\ Extends(events, events')
        /\ Len(events') = (IF told = "accepted" /\ written THEN Len(events) + 1
                          ELSE Len(events))
        /\ told = "accepted" /\ written => events'[Len(events) + 1] = ev
    BY <1>1, <1>2, OneMore, ListExtends
  <1>4. DOMAIN events' = 1..Len(events')
    BY <1>3, ListFacts DEF Extends
  <1> QED BY <1>2, <1>3, <1>4 DEF ev

\* The request, its receipt, its record and its event belong together.
LEMMA AnswerKeepsRequests ==
  ASSUME RequestsKept, StreamsKept, ServiceKept, NEW q \in Requests, NEW told \in Outcomes,
         NEW logged \in BOOLEAN, NEW written \in BOOLEAN, Answer(q, told, logged, written),
         Len(requests') <= MaxRequests
  PROVE  RequestsKept'
  <1> DEFINE k == Len(requests) + 1
             n == Len(events) + 1
             m == Len(records) + 1
             accepted == Named(told, q)
             policy == PolicyAt(now)
             p == Payload(told, q, policy, accepted)
             x == requests'[k]
             r == signed'[k]
  <1>1. /\ now \in Nat /\ now' = now
        /\ Len(requests) \in Nat /\ Len(requests') = k /\ Len(signed') = k
        /\ IsList(requests') /\ IsList(signed')
        /\ DOMAIN requests = 1..Len(requests) /\ DOMAIN requests' = 1..k
        /\ \A i \in 1..Len(requests) : requests'[i] = requests[i] /\ signed'[i] = signed[i]
    BY AnswerAsks, AnswerSigns
  <1>2. /\ x.request = q /\ x.at = now /\ x.told = told
        /\ x.record = IF logged THEN m ELSE None
        /\ x.event = IF told = "accepted" /\ written THEN n ELSE None
        /\ r = ReceiptFor(told, p)
    BY AnswerKnows, AnswerSigns
  <1>3. /\ Len(records) \in Nat /\ Len(events) \in Nat
        /\ Extends(records, records') /\ Extends(events, events')
        /\ Len(records') = (IF logged THEN m ELSE Len(records))
        /\ logged => records'[m] = Record("ingress", told, p)
        /\ Len(events') = (IF told = "accepted" /\ written THEN n ELSE Len(events))
        /\ told = "accepted" /\ written => events'[n] = EventOf(n, q, now)
    <2>2. /\ Len(records) \in Nat /\ Extends(records, records')
          /\ Len(records') = (IF logged THEN m ELSE Len(records))
          /\ logged => records'[m] = Record("ingress", told, p)
      BY AnswerLogs
    <2>3. /\ Len(events) \in Nat /\ Extends(events, events')
          /\ Len(events') = (IF told = "accepted" /\ written THEN n ELSE Len(events))
          /\ told = "accepted" /\ written => events'[n] = EventOf(n, q, now)
      BY AnswerStores
    <2> HIDE DEF p, m, n
    <2> QED BY <2>2, <2>3
  <1>4. /\ accepted \in {None} \cup AcceptancesMade
        /\ told = "accepted" => accepted = Acceptance(n, q, now) /\ n \in 1..MaxRequests
    <2>1. Len(requests) + 1 <= MaxRequests /\ IsList(requests)
      BY <1>1 DEF RequestsKept
    <2> QED BY <2>1, NamedIs
  <1>5. policy \in {FirstPolicy, Amendment}
    BY PolicyAtIs
  <1>6. DOMAIN records' = 1..Len(records') /\ DOMAIN events' = 1..Len(events')
    BY <1>3, ListFacts DEF Extends
  <1> HIDE DEF accepted, policy
  <1>7. /\ SaysTheSame(Record("ingress", told, p), ReceiptFor(told, p))
        /\ Record("ingress", told, p).payload.accepted = accepted
    BY <1>4, <1>5, RecordSays
  <1>8. p.key = q.key /\ p.accepted = accepted
    BY DEF Payload
  <1> HIDE DEF p
  <1>9. /\ r.document = TRUE /\ r.sound = TRUE /\ r.signed = TRUE
        /\ r.keyId = "key" /\ r.stream = "registry"
        /\ r.outcome = told /\ r.receivedAt = now /\ r.signedAt = now
        /\ r.sealBy = now + MSD /\ r.key = q.key
        /\ r.decisionSeq = m /\ r.accepted = accepted
        /\ DOMAIN r = ReceiptFields
    BY <1>2, <1>8 DEF ReceiptFor, ReceiptFields
  <1>10. m \in Nat \ {0} /\ None \notin Int
    BY <1>3, RegistryAssumption
  <1>11. x.record \in {None, m}
         /\ (x.record # None => /\ x.record \in DOMAIN records'
                                /\ SaysTheSame(records'[x.record], r)
                                /\ records'[x.record].payload.accepted = accepted)
    <2>1. CASE logged
      <3>1. x.record = m /\ m \in DOMAIN records' /\ records'[m] = Record("ingress", told, p)
        BY <1>2, <1>3, <1>6, <1>10, <2>1
      <3> HIDE DEF x, r
      <3> QED BY <1>2, <1>7, <3>1
    <2>2. CASE ~logged
      BY <1>2, <2>2
    <2> QED BY <2>1, <2>2
  <1>12. told = "accepted" => \E j \in 1..MaxRequests :
            accepted = Acceptance(j, q, now) /\ x.event \in {None, j}
    BY <1>2, <1>4
  <1>13. (told # "accepted" => x.event = None)
         /\ (x.event # None => /\ x.event \in DOMAIN events'
                               /\ events'[x.event] = EventOf(x.event, q, now))
    <2>1. CASE told = "accepted" /\ written
      <3>1. x.event = n /\ n \in DOMAIN events' /\ events'[n] = EventOf(n, q, now)
        BY <1>2, <1>3, <1>6, <2>1
      <3> HIDE DEF x
      <3> QED BY <2>1, <3>1
    <2>2. CASE ~(told = "accepted" /\ written)
      BY <1>2, <2>2
    <2> QED BY <2>1, <2>2
  <1> HIDE DEF x, r, m, n
  <1>14. ASSUME NEW i, i = k PROVE RequestKept(i)'
    <2>1. x = requests'[i] /\ r = signed'[i] /\ now \in 0..now'
      BY <1>1, <1>14 DEF x, r
    <2> HIDE DEF k
    <2>2. /\ x.request \in Requests /\ x.at \in 0..now' /\ x.told \in Outcomes
          /\ r.outcome = x.told /\ r.receivedAt = x.at /\ r.signedAt = x.at
          /\ r.sealBy = x.at + MSD /\ r.key = x.request.key
          /\ r.decisionSeq \in Nat \ {0}
          /\ r.accepted \in {None} \cup AcceptancesMade
          /\ x.record \in {None, r.decisionSeq}
      BY <1>2, <1>4, <1>9, <1>10, <1>11, <2>1
    <2>3. x.record # None => /\ x.record \in DOMAIN records'
                             /\ SaysTheSame(records'[x.record], r)
                             /\ records'[x.record].payload.accepted = r.accepted
      BY <1>9, <1>11
    <2>4. x.told = "accepted" => \E j \in 1..MaxRequests :
             r.accepted = Acceptance(j, x.request, x.at) /\ x.event \in {None, j}
      BY <1>2, <1>9, <1>12
    <2>5. (x.told # "accepted" => x.event = None)
          /\ (x.event # None => /\ x.event \in DOMAIN events'
                                /\ events'[x.event] = EventOf(x.event, x.request, x.at))
      BY <1>2, <1>13
    <2>6. RequestFits(x, r, records', events', now')
      BY <1>9, <2>2, <2>3, <2>4, <2>5 DEF RequestFits
    <2> QED BY <2>1, <2>6 DEF RequestKept
  <1>15. ASSUME NEW i \in 1..Len(requests) PROVE RequestKept(i)'
    <2>1. RequestKept(i)
      BY <1>1 DEF RequestsKept
    <2> QED BY <1>1, <1>3, <2>1, RequestStays
  <1>16. ASSUME NEW i \in DOMAIN requests' PROVE RequestKept(i)'
    <2>1. i \in 1..k /\ Len(requests) \in Nat
      BY <1>1
    <2>2. i = k \/ i \in 1..Len(requests)
      BY <2>1 DEF k
    <2>3. CASE i = k
      BY <1>14, <2>3
    <2>4. CASE i \in 1..Len(requests)
      BY <1>15, <2>4
    <2> QED BY <2>2, <2>3, <2>4
  <1> QED BY <1>1, <1>16 DEF RequestsKept

\* The streams take the record and the event of the answer, at its time.
LEMMA AnswerKeepsStreams ==
  ASSUME RequestsKept, StreamsKept, ServiceKept, NEW q \in Requests, NEW told \in Outcomes,
         NEW logged \in BOOLEAN, NEW written \in BOOLEAN, Answer(q, told, logged, written)
  PROVE  StreamsKept'
  <1> DEFINE k == Len(requests) + 1
             n == Len(events) + 1
             m == Len(records) + 1
             p == Payload(told, q, PolicyAt(now), Named(told, q))
             x == requests'[k]
  <1>1. /\ now \in Nat /\ now' = now
        /\ Len(requests) \in Nat /\ Len(requests') = k
        /\ DOMAIN requests = 1..Len(requests) /\ DOMAIN requests' = 1..k
        /\ \A i \in 1..Len(requests) : requests'[i] = requests[i]
    BY AnswerAsks
  <1>2. /\ x.record = IF logged THEN m ELSE None
        /\ x.event = IF told = "accepted" /\ written THEN n ELSE None
    BY AnswerKnows
  <1>3. Extends(records, records') /\ Extends(events, events')
    BY AnswerLogs, AnswerStores
  <1>4. /\ Len(records) \in Nat
        /\ Len(records') = (IF logged THEN m ELSE Len(records))
        /\ logged => records'[m] = Record("ingress", told, p)
    BY AnswerLogs
  <1>5. /\ Len(events) \in Nat
        /\ Len(events') = (IF told = "accepted" /\ written THEN n ELSE Len(events))
        /\ told = "accepted" /\ written => events'[n] = EventOf(n, q, now)
    BY AnswerStores
  <1>6. /\ Record("ingress", told, p).receivedAt = now
        /\ EventOf(n, q, now).receivedAt = now
    BY DEF Record, EventOf
  <1>7. /\ DOMAIN records = 1..Len(records) /\ DOMAIN records' = 1..Len(records')
        /\ DOMAIN events = 1..Len(events) /\ DOMAIN events' = 1..Len(events')
        /\ IsList(records') /\ IsList(events')
    BY <1>3, ListFacts DEF Extends
  <1> HIDE DEF p, x
  <1>8. InTime(records', now)
    <2>1. \A i \in (Len(records) + 1)..Len(records') : records'[i].receivedAt = now
      BY <1>4, <1>6
    <2>2. InTime(records, now)
      BY DEF StreamsKept
    <2> QED BY <1>1, <1>3, <2>1, <2>2, InTimeGrows
  <1>9. InTime(events', now)
    <2>1. \A i \in (Len(events) + 1)..Len(events') : events'[i].receivedAt = now
      BY <1>5, <1>6
    <2>2. InTime(events, now)
      BY DEF StreamsKept
    <2> QED BY <1>1, <1>3, <2>1, <2>2, InTimeGrows
  <1>10. ASSUME NEW j \in DOMAIN records', records'[j].action = "ingress"
         PROVE  \E i \in DOMAIN requests' : requests'[i].record = j
    <2>1. CASE j \in 1..Len(records)
      <3>1. records[j] = records'[j]
        BY <1>3, <2>1 DEF Extends
      <3>2. PICK i \in DOMAIN requests : requests[i].record = j
        BY <1>7, <1>10, <2>1, <3>1 DEF StreamsKept
      <3> QED BY <1>1, <3>2
    <2>2. CASE logged /\ j = m
      <3>1. k \in DOMAIN requests' /\ requests'[k].record = j
        BY <1>1, <1>2, <2>2 DEF x
      <3> QED BY <3>1
    <2>3. j \in 1..Len(records')
      BY <1>7
    <2> QED BY <1>4, <2>1, <2>2, <2>3
  <1>11. ASSUME NEW j \in DOMAIN events'
         PROVE  \E i \in DOMAIN requests' : requests'[i].event = j
    <2>1. CASE j \in 1..Len(events)
      <3>2. PICK i \in DOMAIN requests : requests[i].event = j
        BY <1>7, <2>1 DEF StreamsKept
      <3> QED BY <1>1, <3>2
    <2>2. CASE told = "accepted" /\ written /\ j = n
      <3>1. k \in DOMAIN requests' /\ requests'[k].event = j
        BY <1>1, <1>2, <2>2 DEF x
      <3> QED BY <3>1
    <2>3. j \in 1..Len(events')
      BY <1>7
    <2> QED BY <1>5, <2>1, <2>2, <2>3
  <1>12. Len(events') <= Len(requests')
    <2>1. Len(events) <= Len(requests)
      BY DEF StreamsKept
    <2> QED BY <1>1, <1>5, <2>1
  <1> QED BY <1>1, <1>7, <1>8, <1>9, <1>10, <1>11, <1>12 DEF StreamsKept

\* What the receipt of an answer says.
LEMMA ReceiptSays ==
  ASSUME NEW told, NEW q, NEW policy, NEW accepted
  PROVE  LET r == ReceiptFor(told, Payload(told, q, policy, accepted)) IN
         /\ r.outcome = told /\ r.receivedAt = now /\ r.key = q.key
         /\ r.decisionSeq = Len(records) + 1 /\ r.accepted = accepted
  BY DEF ReceiptFor, Payload

\* The last receipt is the answer's, and names what was written or not.
LEMMA AnswerKeepsLast ==
  ASSUME RequestsKept, StreamsKept, ServiceKept, NEW q \in Requests, NEW told \in Outcomes,
         NEW logged \in BOOLEAN, NEW written \in BOOLEAN, Answer(q, told, logged, written),
         Len(requests') <= MaxRequests
  PROVE  LastUnwritten'
  <1> DEFINE k == Len(requests) + 1
             n == Len(events) + 1
             m == Len(records) + 1
             p == Payload(told, q, PolicyAt(now), Named(told, q))
             x == requests'[k]
             r == signed'[k]
  <1>1. Len(requests) \in Nat /\ Len(requests') = k
    BY AnswerAsks
  <1>2. /\ x.record = IF logged THEN m ELSE None
        /\ x.event = IF told = "accepted" /\ written THEN n ELSE None
        /\ x.told = told
        /\ r = ReceiptFor(told, p)
    BY AnswerKnows, AnswerSigns
  <1>3. Extends(records, records') /\ Extends(events, events')
    BY AnswerLogs, AnswerStores
  <1>4. Len(records) \in Nat /\ Len(records') = (IF logged THEN m ELSE Len(records))
    BY AnswerLogs
  <1>5. Len(events) \in Nat
        /\ Len(events') = (IF told = "accepted" /\ written THEN n ELSE Len(events))
    BY AnswerStores
  <1>6. told = "accepted" => Named(told, q) = Acceptance(n, q, now)
    <2>1. Len(requests) + 1 <= MaxRequests /\ IsList(requests)
      BY <1>1 DEF RequestsKept
    <2> QED BY <2>1, NamedIs
  <1>7. r.decisionSeq = m /\ r.accepted = Named(told, q)
    BY <1>2, ReceiptSays
  <1>8. Acceptance(n, q, now).sequence = n
    BY DEF Acceptance
  <1>9. DOMAIN records' = 1..Len(records') /\ m \in Int /\ n \in Int
    BY <1>3, <1>4, <1>5, ListFacts DEF Extends
  <1> HIDE DEF x, r, p
  <1>10. ASSUME x.record = None, NEW j \in DOMAIN records', j >= r.decisionSeq
         PROVE  records'[j].action # "ingress"
    <2>1. ~logged
      BY <1>2, <1>9, <1>10, RegistryAssumption
    <2> QED BY <1>4, <1>7, <1>9, <1>10, <2>1
  <1>11. ASSUME x.told = "accepted", x.event = None
         PROVE  Len(events') < r.accepted.sequence
    <2>1. ~written
      BY <1>2, <1>9, <1>11, RegistryAssumption
    <2>2. r.accepted.sequence = n
      BY <1>2, <1>6, <1>7, <1>8, <1>11
    <2>3. Len(events') = Len(events)
      BY <1>5, <2>1
    <2> QED BY <1>5, <2>2, <2>3
  <1> DEFINE last == Len(requests')
  <1>12. requests'[last] = x /\ signed'[last] = r
    BY <1>1 DEF x, r
  <1> HIDE DEF last
  <1>13. /\ requests'[last].record = None =>
              \A j \in DOMAIN records' :
                 j >= signed'[last].decisionSeq => records'[j].action # "ingress"
         /\ requests'[last].told = "accepted" /\ requests'[last].event = None =>
              Len(events') < signed'[last].accepted.sequence
    BY <1>10, <1>11, <1>12
  <1> QED BY <1>13 DEF LastUnwritten, last

\* The service's own state after an answer.
LEMMA AnswerKeepsService ==
  ASSUME RequestsKept, StreamsKept, ServiceKept, NEW q \in Requests, NEW told \in Outcomes,
         NEW logged \in BOOLEAN, NEW written \in BOOLEAN, Answer(q, told, logged, written),
         Len(requests') <= MaxRequests, deviations' \in Nat
  PROVE  ServiceKept'
  <1> DEFINE accepted == Named(told, q)
  <1>1. Len(requests) + 1 <= MaxRequests /\ IsList(requests)
    BY AnswerAsks DEF RequestsKept
  <1>2. told = "accepted" => accepted \in AcceptancesMade
    <2>1. /\ Len(events) \in Nat /\ now \in 0..Horizon /\ MaxRequests \in Nat
          /\ Len(events) <= Len(requests) /\ Len(requests) \in Nat
      BY ListFacts, RegistryAssumption DEF StreamsKept, ServiceKept, RequestsKept
    <2>2. Len(events) + 1 \in 1..MaxRequests
      BY <1>1, <2>1
    <2>3. Acceptance(Len(events) + 1, q, now) \in AcceptancesMade
      BY <2>1, <2>2 DEF AcceptancesMade
    <2> QED BY <1>1, <2>3, NamedIs
  <1>3. held' = IF told = "accepted" /\ q.key \notin DOMAIN held
                THEN [k \in DOMAIN held \cup {q.key} |-> IF k = q.key THEN accepted ELSE held[k]]
                ELSE held
    BY DEF Answer
  <1> HIDE DEF accepted
  <1>4. \A k \in DOMAIN held' : held'[k] \in AcceptancesMade
    <2>1. \A k \in DOMAIN held : held[k] \in AcceptancesMade
      BY DEF ServiceKept
    <2>2. CASE told = "accepted" /\ q.key \notin DOMAIN held
      BY <1>2, <1>3, <2>1, <2>2
    <2>3. CASE ~(told = "accepted" /\ q.key \notin DOMAIN held)
      BY <1>3, <2>1, <2>3
    <2> QED BY <2>2, <2>3
  <1>5. now' = now /\ policies' = policies
    BY DEF Answer
  <1> QED BY <1>4, <1>5 DEF ServiceKept

\* An event written for an acceptance is as the acceptance says.
LEMMA NewStands ==
  ASSUME NEW n, NEW q, NEW t, NEW stream, n \in DOMAIN stream, stream[n] = EventOf(n, q, t)
  PROVE  Stands(Acceptance(n, q, t), q.key, stream)
  BY DEF Stands, Acceptance, EventOf, Digest, RequestDigest

\* A service that writes down what it decides stays true to it.
LEMMA AnswerKeepsHonest ==
  ASSUME HistoryInv, NEW q \in Requests, NEW told \in Outcomes,
         NEW logged \in BOOLEAN, NEW written \in BOOLEAN, Answer(q, told, logged, written),
         Len(requests') <= MaxRequests, deviations' \in Nat,
         deviations' = 0 => deviations = 0 /\ logged /\ written
  PROVE  HonestSoFar'
  <1> DEFINE k == Len(requests) + 1
             n == Len(events) + 1
             accepted == Named(told, q)
             p == Payload(told, q, PolicyAt(now), accepted)
             r == ReceiptFor(told, p)
  <1>0. RequestsKept /\ StreamsKept /\ ServiceKept /\ HonestSoFar
    BY DEF HistoryInv
  <1>1. /\ Len(requests) \in Nat /\ Len(requests') = k
        /\ DOMAIN requests = 1..Len(requests) /\ DOMAIN requests' = 1..k
        /\ \A i \in 1..Len(requests) : requests'[i] = requests[i]
        /\ now \in Nat /\ now' = now
    BY <1>0, AnswerAsks
  <1>20. requests'[k].record = IF logged THEN Len(records) + 1 ELSE None
    BY <1>0, AnswerKnows
  <1>3. /\ \A i \in 1..Len(requests) : signed'[i] = signed[i]
        /\ signed'[k] = r
    BY <1>0, AnswerSigns
  <1>4. r.outcome = told /\ r.receivedAt = now /\ r.key = q.key /\ r.accepted = accepted
    BY ReceiptSays
  <1>50. /\ Extends(events, events')
         /\ Len(events) \in Nat /\ DOMAIN events' = 1..Len(events')
         /\ Len(events') = (IF told = "accepted" /\ written THEN n ELSE Len(events))
         /\ told = "accepted" /\ written => events'[n] = EventOf(n, q, now)
    BY <1>0, AnswerStores
  <1>70. /\ Len(records) \in Nat /\ Extends(records, records')
         /\ Len(records') = (IF logged THEN Len(records) + 1 ELSE Len(records))
         /\ logged => records'[Len(records) + 1] = Record("ingress", told, p)
    BY <1>0, AnswerLogs
  <1> SUFFICES ASSUME deviations = 0, logged, written
               PROVE  /\ \A i \in DOMAIN held' : Stands(held'[i], i, events')
                      /\ \A i \in DOMAIN requests' :
                           /\ requests'[i].record # None
                           /\ signed'[i].accepted # None =>
                                Stands(signed'[i].accepted, signed'[i].key, events')
                           /\ signed'[i].outcome = "accepted" =>
                                events'[signed'[i].accepted.sequence].receivedAt
                                  = signed'[i].receivedAt
                      /\ SealedInTime(eventSeals', events', now')
                      /\ SealedInTime(recordSeals', records', now')
    BY DEF HonestSoFar
  <1>2. requests'[k].record = Len(records) + 1
    <2> HIDE DEF k
    <2> QED BY <1>20
  <1>5. /\ Extends(events, events')
        /\ Len(events) \in Nat /\ DOMAIN events' = 1..Len(events')
        /\ told = "accepted" => Len(events') = n /\ events'[n] = EventOf(n, q, now)
        /\ told # "accepted" => Len(events') = Len(events)
    <2> HIDE DEF n
    <2> QED BY <1>50
  <1>6. /\ told = "accepted" => accepted = Acceptance(n, q, now)
        /\ told # "accepted" => \/ accepted = None
                                \/ q.key \in DOMAIN held /\ accepted = held[q.key]
    <2>1. Len(requests) + 1 <= MaxRequests /\ IsList(requests)
      BY <1>0, <1>1 DEF RequestsKept
    <2> QED BY <1>0, <2>1, NamedIs
  <1>7. /\ Len(records) \in Nat /\ Extends(records, records')
        /\ Len(records') = Len(records) + 1
        /\ records'[Len(records) + 1] = Record("ingress", told, p)
    <2> HIDE DEF p
    <2> QED BY <1>70
  <1>8. held' = IF told = "accepted" /\ q.key \notin DOMAIN held
                THEN [i \in DOMAIN held \cup {q.key} |-> IF i = q.key THEN accepted ELSE held[i]]
                ELSE held
    BY DEF Answer
  <1>9. eventSeals' = eventSeals /\ recordSeals' = recordSeals
    BY DEF Answer, seals
  <1>10. /\ Record("ingress", told, p).receivedAt = now
         /\ EventOf(n, q, now).receivedAt = now
         /\ Acceptance(n, q, now).sequence = n
    BY DEF Record, EventOf, Acceptance
  <1> HIDE DEF accepted, p, r
  <1>11. \A i \in DOMAIN held : Stands(held[i], i, events')
    <2>1. \A i \in DOMAIN held : Stands(held[i], i, events)
      BY <1>0 DEF HonestSoFar
    <2> QED BY <1>5, <2>1, StandsStays
  <1>12. told = "accepted" => Stands(accepted, q.key, events')
    <2> SUFFICES ASSUME told = "accepted" PROVE Stands(accepted, q.key, events')
      OBVIOUS
    <2>1. n \in DOMAIN events' /\ events'[n] = EventOf(n, q, now)
      BY <1>5
    <2> HIDE DEF n
    <2> QED BY <1>6, <2>1, NewStands
  <1>13. accepted # None => Stands(accepted, q.key, events')
    BY <1>6, <1>11, <1>12
  <1>14. \A i \in DOMAIN held' : Stands(held'[i], i, events')
    <2>1. CASE told = "accepted" /\ q.key \notin DOMAIN held
      <3> TAKE i \in DOMAIN held'
      <3>1. i \in DOMAIN held \cup {q.key} /\ held'[i] = IF i = q.key THEN accepted ELSE held[i]
        BY <1>8, <2>1
      <3> QED BY <1>11, <1>12, <2>1, <3>1
    <2>2. CASE ~(told = "accepted" /\ q.key \notin DOMAIN held)
      BY <1>8, <1>11, <2>2
    <2> QED BY <2>1, <2>2
  <1>15. ASSUME NEW i \in DOMAIN requests'
         PROVE  /\ requests'[i].record # None
                /\ signed'[i].accepted # None =>
                     Stands(signed'[i].accepted, signed'[i].key, events')
                /\ signed'[i].outcome = "accepted" =>
                     events'[signed'[i].accepted.sequence].receivedAt = signed'[i].receivedAt
    <2>1. CASE i = k
      <3>1. requests'[i].record # None
        BY <1>2, <1>7, <2>1, RegistryAssumption
      <3>2. signed'[i] = r
        BY <1>3, <2>1
      <3>3. r.outcome = "accepted" => events'[r.accepted.sequence].receivedAt = r.receivedAt
        BY <1>4, <1>5, <1>6, <1>10
      <3>4. r.accepted # None => Stands(r.accepted, r.key, events')
        BY <1>4, <1>13
      <3> QED BY <3>1, <3>2, <3>3, <3>4
    <2>2. CASE i \in 1..Len(requests)
      <3> DEFINE s == signed[i]
      <3>1. requests'[i] = requests[i] /\ signed'[i] = s
        BY <1>1, <1>3, <2>2
      <3>2. /\ requests[i].record # None
            /\ s.accepted # None => Stands(s.accepted, s.key, events)
            /\ s.outcome = "accepted" => events[s.accepted.sequence].receivedAt = s.receivedAt
        BY <1>0, <1>1, <2>2 DEF HonestSoFar
      <3>3. s.outcome = "accepted" => s.accepted # None
        <4>1. RequestFits(requests[i], s, records, events, now)
          BY <1>0, <1>1, <2>2 DEF RequestsKept, RequestKept
        <4> HIDE DEF s
        <4>2. /\ s.outcome = requests[i].told
              /\ requests[i].told = "accepted" => \E j \in 1..MaxRequests :
                   s.accepted = Acceptance(j, requests[i].request, requests[i].at)
              /\ requests[i].request \in Requests /\ requests[i].at \in 0..now
          BY <4>1 DEF RequestFits
        <4>3. now <= Horizon /\ Horizon \in Nat
          BY <1>0, RegistryAssumption DEF ServiceKept
        <4>4. requests[i].told = "accepted" => s.accepted \in AcceptancesMade
          BY <1>1, <4>2, <4>3 DEF AcceptancesMade
        <4> QED BY <4>2, <4>4, RegistryAssumption
      <3> HIDE DEF s
      <3>4. s.accepted # None => /\ Stands(s.accepted, s.key, events')
                                 /\ events'[s.accepted.sequence] = events[s.accepted.sequence]
        BY <1>5, <3>2, StandsStays
      <3> QED BY <3>1, <3>2, <3>3, <3>4
    <2>3. i \in 1..k
      BY <1>1
    <2> QED BY <1>1, <2>1, <2>2, <2>3
  <1>16. SealedInTime(eventSeals', events', now')
    <2>1. ASSUME NEW i \in (Len(events) + 1)..Len(events') PROVE events'[i].receivedAt = now
      <3>1. CASE told # "accepted"
        <4>1. Len(events') = Len(events) /\ Len(events) \in Nat
          BY <1>5, <3>1
        <4> QED BY <4>1
      <3>2. CASE told = "accepted"
        <4>1. Len(events') = Len(events) + 1 /\ Len(events) \in Nat
              /\ events'[n] = EventOf(n, q, now)
          BY <1>5, <3>2
        <4>2. i = n
          BY <4>1
        <4> QED BY <1>10, <4>1, <4>2
      <3> QED BY <3>1, <3>2
    <2>2. SealsLie(eventSeals, events, now) /\ InTime(events, now)
          /\ SealedInTime(eventSeals, events, now)
      BY <1>0 DEF HistoryInv, StreamsKept, HonestSoFar
    <2>3. SealedInTime(eventSeals, events', now)
      BY <1>1, <1>5, <2>1, <2>2, InTimeStays
    <2> QED BY <1>1, <1>9, <2>3
  <1>17. SealedInTime(recordSeals', records', now')
    <2>1. \A i \in (Len(records) + 1)..Len(records') : records'[i].receivedAt = now
      BY <1>7, <1>10
    <2>2. SealsLie(recordSeals, records, now) /\ InTime(records, now)
          /\ SealedInTime(recordSeals, records, now)
      BY <1>0 DEF HistoryInv, StreamsKept, HonestSoFar
    <2>3. SealedInTime(recordSeals, records', now)
      BY <1>1, <1>7, <2>1, <2>2, InTimeStays
    <2> QED BY <1>1, <1>9, <2>3
  <1> QED BY <1>14, <1>15, <1>16, <1>17

\* An answer keeps all that holds of the history.
LEMMA AnswerKeeps ==
  ASSUME HistoryInv, NEW q \in Requests, NEW told \in Outcomes,
         NEW logged \in BOOLEAN, NEW written \in BOOLEAN, Answer(q, told, logged, written),
         Len(requests') <= MaxRequests, deviations' \in Nat,
         deviations' = 0 => deviations = 0 /\ logged /\ written
  PROVE  HistoryInv'
  <1>1. /\ RequestsKept /\ StreamsKept /\ ServiceKept
        /\ SealsLie(eventSeals, events, now) /\ SealsLie(recordSeals, records, now)
    BY DEF HistoryInv
  <1>2. Extends(records, records') /\ Extends(events, events') /\ now \in Nat /\ now' = now
    BY <1>1, AnswerLogs, AnswerStores, AnswerAsks
  <1>3. eventSeals' = eventSeals /\ recordSeals' = recordSeals
    BY DEF Answer, seals
  <1>4. SealsLie(eventSeals', events', now') /\ SealsLie(recordSeals', records', now')
    BY <1>1, <1>2, <1>3, SealsStay
  <1>5. RequestsKept' /\ StreamsKept' /\ LastUnwritten' /\ ServiceKept'
    BY <1>1, AnswerKeepsRequests, AnswerKeepsStreams, AnswerKeepsLast, AnswerKeepsService
  <1>6. HonestSoFar'
    BY AnswerKeepsHonest
  <1> QED BY <1>4, <1>5, <1>6 DEF HistoryInv

-----------------------------------------------------------------------------
(* The owner's doings, the end of a window, and the clock.                 *)

\* A list with two more elements extends it.
LEMMA TwoMore ==
  ASSUME NEW s, IsList(s), NEW a, NEW b
  PROVE  /\ Extends(s, s \o <<a, b>>)
         /\ Len(s \o <<a, b>>) = Len(s) + 2
         /\ (s \o <<a, b>>)[Len(s) + 1] = a /\ (s \o <<a, b>>)[Len(s) + 2] = b
  <1> DEFINE t == Append(s, a)
             u == Append(t, b)
             S == {s[i] : i \in DOMAIN s}
  <1>1. s \in Seq(S \cup {a, b}) /\ <<a, b>> \in Seq(S \cup {a, b})
    <2>1. s \in Seq(S)
      BY DEF IsList
    <2> HIDE DEF S
    <2> QED BY <2>1
  <1>2. s \o <<a, b>> = u
    <2> HIDE DEF S
    <2> QED BY <1>1
  <1>3. /\ Len(s) \in Nat /\ DOMAIN s = 1..Len(s) /\ Len(t) = Len(s) + 1 /\ IsList(t)
        /\ t[Len(s) + 1] = a /\ \A i \in 1..Len(s) : t[i] = s[i]
    BY OneMore
  <1> HIDE DEF t
  <1>4. /\ Len(u) = Len(s) + 2 /\ IsList(u) /\ u[Len(s) + 2] = b
        /\ \A i \in 1..(Len(s) + 1) : u[i] = t[i]
    <2>1. /\ Len(u) = Len(t) + 1 /\ IsList(u) /\ u[Len(t) + 1] = b
          /\ \A i \in 1..Len(t) : u[i] = t[i]
      BY <1>3, OneMore
    <2> HIDE DEF u
    <2>2. Len(s) \in Nat /\ Len(t) = Len(s) + 1
      BY <1>3
    <2>3. Len(t) + 1 = Len(s) + 2
      BY <2>2
    <2> QED BY <2>1, <2>2, <2>3
  <1> HIDE DEF u
  <1>5. \A i \in 1..Len(s) : u[i] = s[i]
    <2> TAKE i \in 1..Len(s)
    <2>1. Len(s) \in Nat
      BY <1>3
    <2>2. i \in 1..(Len(s) + 1)
      BY <2>1
    <2> QED BY <1>3, <1>4, <2>2
  <1>6. Len(s) + 1 \in 1..(Len(s) + 1) /\ Len(s) <= Len(u)
    <2>1. Len(s) \in Nat /\ Len(u) = Len(s) + 2
      BY <1>3, <1>4
    <2> QED BY <2>1
  <1>7. u[Len(s) + 1] = a
    BY <1>3, <1>4, <1>6
  <1>8. Extends(s, u)
    BY <1>4, <1>5, <1>6 DEF Extends
  <1> QED BY <1>2, <1>4, <1>7, <1>8

\* Records that are no decisions change nothing a request rests on.
LEMMA LogKeeps ==
  ASSUME HistoryInv, Extends(records, records'),
         \A n \in (Len(records) + 1)..Len(records') :
            records'[n].action # "ingress" /\ records'[n].receivedAt = now,
         now' = now, events' = events, eventSeals' = eventSeals, recordSeals' = recordSeals,
         signed' = signed, held' = held, requests' = requests,
         IsList(policies'), Len(policies') > 0, policies'[1].at = 0,
         \A i \in DOMAIN policies' : policies'[i].policy \in {FirstPolicy, Amendment},
         deviations' \in Nat, deviations' = 0 => deviations = 0
  PROVE  HistoryInv'
  <1>1. /\ RequestsKept /\ StreamsKept /\ ServiceKept /\ LastUnwritten /\ HonestSoFar
        /\ SealsLie(eventSeals, events, now) /\ SealsLie(recordSeals, records, now)
    BY DEF HistoryInv
  <1>2. /\ Len(records) \in Nat /\ DOMAIN records = 1..Len(records)
        /\ Len(records') \in Nat /\ DOMAIN records' = 1..Len(records')
        /\ Len(records) <= Len(records') /\ IsList(records')
        /\ \A i \in 1..Len(records) : records'[i] = records[i]
    BY ListFacts DEF Extends
  <1>3. now \in Nat /\ Extends(events, events')
    BY <1>1, ListExtends, RegistryAssumption DEF ServiceKept, StreamsKept
  <1>4. RequestsKept'
    <2>1. ASSUME NEW i \in DOMAIN requests PROVE RequestKept(i)'
      <3>1. RequestKept(i)
        BY <1>1 DEF RequestsKept
      <3> QED BY <1>3, <3>1, RequestStays
    <2> QED BY <1>1, <2>1 DEF RequestsKept
  <1>5. ASSUME NEW n \in DOMAIN records', records'[n].action = "ingress"
        PROVE  n \in DOMAIN records /\ records'[n] = records[n]
    <2>1. n \notin (Len(records) + 1)..Len(records')
      BY <1>5
    <2>2. n \in 1..Len(records')
      BY <1>2
    <2>3. n \in 1..Len(records)
      <3>1. Len(records) \in Nat
        BY <1>2
      <3> QED BY <2>1, <2>2, <3>1
    <2> QED BY <1>2, <2>3
  <1>6. StreamsKept'
    <2>1. InTime(records', now)
      <3>1. InTime(records, now)
        BY <1>1 DEF StreamsKept
      <3> QED BY <1>3, <3>1, InTimeGrows
    <2>2. \A n \in DOMAIN records' :
            records'[n].action = "ingress" => \E i \in DOMAIN requests : requests[i].record = n
      <3> TAKE n \in DOMAIN records'
      <3> HAVE records'[n].action = "ingress"
      <3>1. n \in DOMAIN records /\ records[n].action = "ingress"
        BY <1>5
      <3> QED BY <1>1, <3>1 DEF StreamsKept
    <2> QED BY <1>1, <1>2, <2>1, <2>2 DEF StreamsKept
  <1>7. SealsLie(eventSeals', events', now') /\ SealsLie(recordSeals', records', now')
    BY <1>1, <1>3, SealsStay
  <1>8. LastUnwritten'
    <2> DEFINE last == Len(requests)
    <2> SUFFICES ASSUME last > 0
                 PROVE  /\ requests[last].record = None =>
                             \A n \in DOMAIN records' :
                                n >= signed[last].decisionSeq => records'[n].action # "ingress"
                        /\ requests[last].told = "accepted" /\ requests[last].event = None =>
                             Len(events) < signed[last].accepted.sequence
      BY DEF LastUnwritten
    <2>1. /\ requests[last].record = None =>
               \A n \in DOMAIN records :
                  n >= signed[last].decisionSeq => records[n].action # "ingress"
          /\ requests[last].told = "accepted" /\ requests[last].event = None =>
               Len(events) < signed[last].accepted.sequence
      BY <1>1 DEF LastUnwritten
    <2> QED BY <1>5, <2>1
  <1>9. ServiceKept'
    BY <1>1 DEF ServiceKept
  <1>10. HonestSoFar'
    <2> SUFFICES ASSUME deviations = 0 PROVE SealedInTime(recordSeals', records', now')
      BY <1>1 DEF HonestSoFar
    <2>1. SealedInTime(recordSeals, records, now) /\ InTime(records, now)
      BY <1>1 DEF HonestSoFar, StreamsKept
    <2>2. \A i \in (Len(records) + 1)..Len(records') : records'[i].receivedAt = now
      OBVIOUS
    <2>3. SealedInTime(recordSeals, records', now)
      BY <1>1, <1>3, <2>1, <2>2, InTimeStays
    <2> QED BY <2>3
  <1> QED BY <1>4, <1>6, <1>7, <1>8, <1>9, <1>10 DEF HistoryInv

\* One record of an upkeep or of a window's end.
LEMMA OneRecordKeeps ==
  ASSUME HistoryInv, NEW action, action # "ingress", NEW payload,
         Log(Record(action, None, payload)), UNCHANGED policies,
         deviations' \in Nat, deviations' = 0 => deviations = 0
  PROVE  HistoryInv'
  <1> DEFINE rec == Record(action, None, payload)
  <1>1. /\ records' = Append(records, rec)
        /\ now' = now /\ events' = events /\ eventSeals' = eventSeals
        /\ recordSeals' = recordSeals /\ signed' = signed /\ held' = held
        /\ requests' = requests
    BY DEF Log, seals
  <1>2. rec.action # "ingress" /\ rec.receivedAt = now
    BY DEF Record
  <1> HIDE DEF rec
  <1>3. IsList(records)
    BY DEF HistoryInv, StreamsKept
  <1>4. /\ Extends(records, records') /\ Len(records') = Len(records) + 1
        /\ records'[Len(records) + 1] = rec /\ Len(records) \in Nat
    BY <1>1, <1>3, OneMore, ListExtends
  <1>5. \A n \in (Len(records) + 1)..Len(records') :
           records'[n].action # "ingress" /\ records'[n].receivedAt = now
    <2> TAKE n \in (Len(records) + 1)..Len(records')
    <2>1. n = Len(records) + 1
      BY <1>4
    <2> QED BY <1>2, <1>4, <2>1
  <1>6. /\ IsList(policies') /\ Len(policies') > 0 /\ policies'[1].at = 0
        /\ \A i \in DOMAIN policies' : policies'[i].policy \in {FirstPolicy, Amendment}
    BY DEF HistoryInv, ServiceKept
  <1> QED BY <1>1, <1>4, <1>5, <1>6, LogKeeps

\* An amendment is two records and one more policy.
LEMMA AmendKeeps ==
  ASSUME HistoryInv, Amend
  PROVE  HistoryInv'
  <1>1. PICK effective \in {now, now + FirstPolicy.rules.notice} :
          /\ IF effective >= now + FirstPolicy.rules.notice THEN Behave ELSE Deviate
          /\ policies' = Append(policies, InEffect(Amendment, effective))
          /\ records' = records \o
                << PolicyRecord("policy.amended", Amendment, 2, effective),
                   WindowsRecord(Amendment, 2) >>
    BY DEF Amend
  <1> DEFINE a == PolicyRecord("policy.amended", Amendment, 2, effective)
             b == WindowsRecord(Amendment, 2)
             p == InEffect(Amendment, effective)
  <1>2. /\ now' = now /\ events' = events /\ eventSeals' = eventSeals
        /\ recordSeals' = recordSeals /\ signed' = signed /\ held' = held
        /\ requests' = requests
    BY DEF Amend, seals
  <1>3. /\ a.action # "ingress" /\ a.receivedAt = now
        /\ b.action # "ingress" /\ b.receivedAt = now
        /\ p.policy = Amendment
    BY DEF PolicyRecord, WindowsRecord, Record, InEffect
  <1>4. records' = records \o <<a, b>> /\ policies' = Append(policies, p)
    BY <1>1
  <1> HIDE DEF a, b, p
  <1>5. IsList(records) /\ deviations \in Nat
        /\ IsList(policies) /\ Len(policies) > 0 /\ policies[1].at = 0
        /\ \A i \in DOMAIN policies : policies[i].policy \in {FirstPolicy, Amendment}
    BY DEF HistoryInv, StreamsKept, ServiceKept
  <1>6. /\ Extends(records, records') /\ Len(records') = Len(records) + 2
        /\ records'[Len(records) + 1] = a /\ records'[Len(records) + 2] = b
        /\ Len(records) \in Nat
    BY <1>4, <1>5, TwoMore, ListFacts
  <1>7. \A n \in (Len(records) + 1)..Len(records') :
           records'[n].action # "ingress" /\ records'[n].receivedAt = now
    <2> TAKE n \in (Len(records) + 1)..Len(records')
    <2>1. n = Len(records) + 1 \/ n = Len(records) + 2
      BY <1>6
    <2> QED BY <1>3, <1>6, <2>1
  <1>8. /\ IsList(policies') /\ Len(policies') > 0 /\ policies'[1].at = 0
        /\ \A i \in DOMAIN policies' : policies'[i].policy \in {FirstPolicy, Amendment}
    <2>1. /\ Len(policies) \in Nat /\ DOMAIN policies = 1..Len(policies)
          /\ Len(policies') = Len(policies) + 1 /\ DOMAIN policies' = 1..(Len(policies) + 1)
          /\ policies'[Len(policies) + 1] = p
          /\ \A i \in 1..Len(policies) : policies'[i] = policies[i]
          /\ IsList(policies')
      BY <1>4, <1>5, OneMore
    <2>2. 1 \in 1..Len(policies)
      BY <1>5, <2>1
    <2>3. ASSUME NEW i \in DOMAIN policies'
          PROVE  policies'[i].policy \in {FirstPolicy, Amendment}
      <3>1. i \in 1..Len(policies) \/ i = Len(policies) + 1
        BY <2>1
      <3> QED BY <1>3, <1>5, <2>1, <3>1
    <2> QED BY <1>5, <2>1, <2>2, <2>3
  <1>9. deviations' \in Nat /\ (deviations' = 0 => deviations = 0)
    BY <1>1, <1>5 DEF Behave, Deviate
  <1> QED BY <1>2, <1>6, <1>7, <1>8, <1>9, LogKeeps

\* A clock step seals all of a stream, or nothing.
LEMMA SealedLies ==
  ASSUME NEW s, IsList(s), NEW a \in Nat, NEW c, SealsLie(c, s, a),
         NEW d \in SealedAt(a + 1, s, c)
  PROVE  SealsLie(d, s, a + 1)
  <1>1. /\ Len(s) \in Nat /\ Len(c) \in Nat /\ DOMAIN c = 1..Len(c) /\ IsList(c)
        /\ SealedTo(c) = (IF Len(c) = 0 THEN 0 ELSE c[Len(c)].to)
        /\ SealedTo(c) \in 0..Len(s)
    BY SealedToIs, ListFacts DEF SealsLie
  <1>2. SealsLie(c, s, a + 1)
    BY ListExtends, SealsStay
  <1>3. CASE d = c
    BY <1>2, <1>3
  <1>4. CASE d # c
    <2> DEFINE new == [from |-> SealedTo(c) + 1, to |-> Len(s), createdAt |-> a + 1]
    <2>1. d = Append(c, new) /\ SealedTo(c) < Len(s)
      BY <1>4 DEF SealedAt
    <2>2. new.from = SealedTo(c) + 1 /\ new.to = Len(s) /\ new.createdAt = a + 1
      OBVIOUS
    <2> HIDE DEF new
    <2>3. /\ Len(d) = Len(c) + 1 /\ DOMAIN d = 1..(Len(c) + 1) /\ d[Len(c) + 1] = new
          /\ \A i \in 1..Len(c) : d[i] = c[i]
          /\ IsList(d)
      BY <1>1, <2>1, OneMore
    <2>4. ASSUME NEW i \in DOMAIN d
          PROVE  /\ d[i].from \in Nat /\ d[i].to \in Nat
                 /\ d[i].from <= d[i].to /\ d[i].to <= Len(s)
                 /\ d[i].createdAt \in 0..(a + 1)
                 /\ d[i].from = IF i = 1 THEN 1 ELSE d[i - 1].to + 1
      <3>1. CASE i \in 1..Len(c)
        <4>1. d[i] = c[i] /\ (i # 1 => i - 1 \in 1..Len(c) /\ d[i - 1] = c[i - 1])
          <5>1. Len(c) \in Nat
            BY <1>1
          <5>2. i # 1 => i - 1 \in 1..Len(c)
            BY <3>1, <5>1
          <5> QED BY <2>3, <3>1, <5>2
        <4>2. /\ c[i].from \in Nat /\ c[i].to \in Nat
              /\ c[i].from <= c[i].to /\ c[i].to <= Len(s)
              /\ c[i].createdAt \in 0..(a + 1)
              /\ c[i].from = IF i = 1 THEN 1 ELSE c[i - 1].to + 1
          BY <1>1, <1>2, <3>1 DEF SealsLie
        <4> QED BY <4>1, <4>2
      <3>2. CASE i = Len(c) + 1
        <4>1. d[i] = new
          BY <2>3, <3>2
        <4>2. CASE Len(c) = 0
          BY <1>1, <2>1, <2>2, <3>2, <4>1, <4>2
        <4>3. CASE Len(c) # 0
          <5>1. i # 1 /\ i - 1 = Len(c) /\ Len(c) \in 1..Len(c)
            BY <1>1, <3>2, <4>3
          <5>2. d[i - 1] = c[Len(c)]
            BY <2>3, <5>1
          <5> QED BY <1>1, <2>1, <2>2, <4>1, <4>3, <5>1, <5>2
        <4> QED BY <4>2, <4>3
      <3>3. i \in 1..(Len(c) + 1) /\ Len(c) \in Nat
        BY <1>1, <2>3
      <3> QED BY <3>1, <3>2, <3>3
    <2> QED BY <2>3, <2>4 DEF SealsLie
  <1> QED BY <1>3, <1>4

\* A seal made before the deadline of all that is unsealed is in time for it.
LEMMA SealedKeeps ==
  ASSUME NEW s, IsList(s), NEW a \in Nat, NEW c, SealsLie(c, s, a), InTime(s, a),
         NEW d \in SealedAt(a + 1, s, c), SealedInTime(c, s, a), SealsKept(s, d, a + 1)
  PROVE  SealedInTime(d, s, a + 1)
  <1>1. /\ Len(s) \in Nat /\ DOMAIN s = 1..Len(s)
        /\ Len(c) \in Nat /\ DOMAIN c = 1..Len(c) /\ IsList(c)
        /\ SealedTo(c) \in 0..Len(s)
    BY SealedToIs, ListFacts DEF SealsLie
  <1>2. SealedTo(d) \in Nat
    <2>1. SealsLie(d, s, a + 1) /\ a + 1 \in Nat
      BY SealedLies
    <2>2. SealedTo(d) \in 0..Len(s)
      BY <2>1, SealedToIs
    <2> QED BY <1>1, <2>2
  <1>3. \A n \in DOMAIN s : n > SealedTo(d) => s[n].receivedAt + MSD > a + 1
    <2> TAKE n \in DOMAIN s
    <2> HAVE n > SealedTo(d)
    <2>1. n \in SealedTo(d) + 1 .. Len(s)
      BY <1>1, <1>2
    <2> QED BY <2>1 DEF SealsKept
  <1>4. \A i \in DOMAIN c : \A n \in c[i].from..c[i].to :
           c[i].createdAt <= s[n].receivedAt + MSD
    BY DEF SealedInTime
  <1>5. \A i \in DOMAIN d : \A n \in d[i].from..d[i].to :
           d[i].createdAt <= s[n].receivedAt + MSD
    <2>1. CASE d = c
      BY <1>4, <2>1
    <2>2. CASE d # c
      <3> DEFINE new == [from |-> SealedTo(c) + 1, to |-> Len(s), createdAt |-> a + 1]
      <3>1. d = Append(c, new)
        BY <2>2 DEF SealedAt
      <3>2. new.from = SealedTo(c) + 1 /\ new.to = Len(s) /\ new.createdAt = a + 1
        OBVIOUS
      <3> HIDE DEF new
      <3>3. /\ DOMAIN d = 1..(Len(c) + 1) /\ d[Len(c) + 1] = new
            /\ \A i \in 1..Len(c) : d[i] = c[i]
        BY <1>1, <3>1, OneMore
      <3>4. ASSUME NEW n \in (SealedTo(c) + 1)..Len(s) PROVE a + 1 <= s[n].receivedAt + MSD
        <4>1. n \in DOMAIN s /\ n > SealedTo(c)
          BY <1>1
        <4>2. s[n].receivedAt + MSD > a /\ s[n].receivedAt \in 0..a /\ MSD \in Nat
          BY <4>1, TimesAssumption DEF SealedInTime, InTime
        <4> QED BY <4>2
      <3> TAKE i \in DOMAIN d
      <3>5. CASE i \in 1..Len(c)
        BY <1>1, <1>4, <3>3, <3>5
      <3>6. CASE i = Len(c) + 1
        BY <3>2, <3>3, <3>4, <3>6
      <3>7. i \in 1..(Len(c) + 1) /\ Len(c) \in Nat
        BY <1>1, <3>3
      <3> QED BY <3>5, <3>6, <3>7
    <2> QED BY <2>1, <2>2
  <1> QED BY <1>3, <1>5 DEF SealedInTime

\* A clock step keeps all that holds of the history.
LEMMA TickKeeps ==
  ASSUME HistoryInv, Tick
  PROVE  HistoryInv'
  <1>1. /\ RequestsKept /\ StreamsKept /\ ServiceKept /\ LastUnwritten /\ HonestSoFar
        /\ SealsLie(eventSeals, events, now) /\ SealsLie(recordSeals, records, now)
    BY DEF HistoryInv
  <1>2. /\ now' = now + 1 /\ now < Horizon
        /\ eventSeals' \in SealedAt(now + 1, events, eventSeals)
        /\ recordSeals' \in SealedAt(now + 1, records, recordSeals)
        /\ events' = events /\ records' = records /\ signed' = signed /\ requests' = requests
        /\ policies' = policies /\ held' = held
    BY DEF Tick, streams, service
  <1>3. /\ IF /\ SealsKept(events, eventSeals', now + 1)
              /\ SealsKept(records, recordSeals', now + 1)
              /\ ClosesKept(now')
           THEN Behave ELSE Deviate
        /\ deviations \in Nat
    BY <1>1, <1>2 DEF Tick, ServiceKept
  <1>4. /\ deviations' \in Nat
        /\ deviations' = 0 => /\ deviations = 0
                              /\ SealsKept(events, eventSeals', now + 1)
                              /\ SealsKept(records, recordSeals', now + 1)
    BY <1>3 DEF Behave, Deviate
  <1>5. /\ now \in Nat /\ now' \in Nat /\ now <= now' /\ now' \in 0..Horizon
        /\ Extends(events, events') /\ Extends(records, records')
        /\ IsList(events) /\ IsList(records) /\ InTime(events, now) /\ InTime(records, now)
    <2>1. now \in 0..Horizon /\ Horizon \in Nat
      BY <1>1, RegistryAssumption DEF ServiceKept
    <2> QED BY <1>1, <1>2, <2>1, ListExtends DEF StreamsKept
  <1>6. RequestsKept'
    <2>1. ASSUME NEW i \in DOMAIN requests PROVE RequestKept(i)'
      <3>1. RequestKept(i)
        BY <1>1 DEF RequestsKept
      <3> QED BY <1>2, <1>5, <3>1, RequestStays
    <2> QED BY <1>1, <1>2, <2>1 DEF RequestsKept
  <1>7. StreamsKept'
    <2>1. InTime(events, now') /\ InTime(records, now')
      BY <1>5 DEF InTime
    <2> QED BY <1>1, <1>2, <2>1 DEF StreamsKept
  <1>8. SealsLie(eventSeals', events', now') /\ SealsLie(recordSeals', records', now')
    BY <1>1, <1>2, <1>5, SealedLies
  <1>9. LastUnwritten'
    BY <1>1, <1>2 DEF LastUnwritten
  <1>10. ServiceKept'
    BY <1>1, <1>2, <1>4, <1>5 DEF ServiceKept
  <1>11. HonestSoFar'
    <2> SUFFICES ASSUME deviations' = 0
                 PROVE  /\ SealedInTime(eventSeals', events, now + 1)
                        /\ SealedInTime(recordSeals', records, now + 1)
      BY <1>1, <1>2, <1>4 DEF HonestSoFar
    <2>1. SealedInTime(eventSeals, events, now) /\ SealedInTime(recordSeals, records, now)
      BY <1>1, <1>4 DEF HonestSoFar
    <2> QED BY <1>1, <1>2, <1>4, <1>5, <2>1, SealedKeeps
  <1> QED BY <1>6, <1>7, <1>8, <1>9, <1>10, <1>11 DEF HistoryInv

\* Every step of the registry does.
LEMMA RegistryKeeps == HistoryInv /\ RegistryNext => HistoryInv'
  <1> SUFFICES ASSUME HistoryInv, RegistryNext PROVE HistoryInv'
    OBVIOUS
  <1>1. Doing /\ Len(requests') <= MaxRequests /\ deviations \in Nat
    BY DEF RegistryNext, HistoryInv, ServiceKept
  <1>2. ASSUME NEW q \in Requests, Decide(q) PROVE HistoryInv'
    <2>1. /\ Answer(q, DueOutcome(q), TRUE, TRUE) /\ deviations' = deviations
          /\ DueOutcome(q) \in Outcomes
      <3>1. DueOutcome(q) \in Outcomes
        BY DEF DueOutcome, Outcomes
      <3> QED BY <1>2, <3>1 DEF Decide, Behave
    <2> DEFINE told == DueOutcome(q)
    <2> HIDE DEF told
    <2>2. Answer(q, told, TRUE, TRUE) /\ told \in Outcomes
      BY <2>1 DEF told
    <2> QED BY <1>1, <2>1, <2>2, AnswerKeeps
  <1>3. ASSUME NEW q \in Requests, Misdecide(q) PROVE HistoryInv'
    <2>1. PICK told \in Outcomes, logged \in BOOLEAN, written \in BOOLEAN :
             Answer(q, told, logged, written)
      BY <1>3 DEF Misdecide
    <2>2. deviations' \in Nat /\ deviations' # 0
      BY <1>1, <1>3 DEF Misdecide, Deviate
    <2> QED BY <1>1, <2>1, <2>2, AnswerKeeps
  <1>4. ASSUME NEW action, action # "ingress", NEW payload,
               Log(Record(action, None, payload)), UNCHANGED policies, Behave
        PROVE  HistoryInv'
    BY <1>1, <1>4, OneRecordKeeps DEF Behave
  <1>5. ASSUME NEW action, NEW from, NEW to, SetStatus(action, from, to), action # "ingress"
        PROVE  HistoryInv'
    <2>1. Log(Record(action, None, <<>>)) /\ UNCHANGED policies /\ Behave
      BY <1>5 DEF SetStatus, Keep
    <2> QED BY <1>4, <1>5, <2>1
  <1>6. ASSUME NEW c, Revoke(c) PROVE HistoryInv'
    <2>1. /\ Log(Record("credential.revoked", None, [credential |-> c]))
          /\ UNCHANGED policies /\ Behave
      BY <1>6 DEF Revoke, Keep
    <2> QED BY <1>4, <2>1
  <1>7. ASSUME NEW w, NEW key, Log(CloseRecord(w, key)), UNCHANGED policies,
               Behave \/ Deviate
        PROVE  HistoryInv'
    <2>1. PICK payload : CloseRecord(w, key) = Record("window.closed", None, payload)
      BY DEF CloseRecord
    <2>2. Log(Record("window.closed", None, payload))
      BY <1>7, <2>1
    <2>3. deviations' \in Nat /\ (deviations' = 0 => deviations = 0)
      BY <1>1, <1>7 DEF Behave, Deviate
    <2> QED BY <1>7, <2>2, <2>3, OneRecordKeeps
  <1>8. CASE Close
    <2>1. PICK w : /\ \/ Log(CloseRecord(w, w.key)) /\ Behave
                      \/ Log(CloseRecord(w, None)) /\ Deviate
                   /\ UNCHANGED policies
      BY <1>8 DEF Close
    <2> QED BY <1>7, <2>1
  <1>9. CASE Amend
    BY <1>9, AmendKeeps
  <1>10. CASE Tick
    BY <1>10, TickKeeps
  <1> QED BY <1>1, <1>2, <1>3, <1>5, <1>6, <1>8, <1>9, <1>10 DEF Doing

\* It holds of the history's first state.
LEMMA InitHistory == RegistryInit => HistoryInv
  <1> SUFFICES ASSUME RegistryInit PROVE HistoryInv
    OBVIOUS
  <1> DEFINE a == PolicyRecord("policy.committed", FirstPolicy, 1, 0)
             b == WindowsRecord(FirstPolicy, 1)
             c == Record("credentials.snapshot", None, [credentials |-> FirstCredentials])
             p == InEffect(FirstPolicy, 0)
  <1>1. /\ now = 0 /\ events = <<>> /\ records = <<a, b, c>>
        /\ eventSeals = <<>> /\ recordSeals = <<>> /\ signed = <<>> /\ policies = <<p>>
        /\ held = <<>> /\ requests = <<>> /\ deviations = 0
    BY DEF RegistryInit
  <1>2. /\ a.action # "ingress" /\ b.action # "ingress" /\ c.action # "ingress"
        /\ a.receivedAt = 0 /\ b.receivedAt = 0 /\ c.receivedAt = 0
        /\ p.at = 0 /\ p.policy = FirstPolicy
    BY <1>1 DEF PolicyRecord, WindowsRecord, Record, InEffect
  <1> HIDE DEF a, b, c, p
  <1>3. DOMAIN records = 1..3 /\ DOMAIN policies = 1..1 /\ Len(policies) = 1
        /\ \A i \in 1..3 : records[i].action # "ingress" /\ records[i].receivedAt = 0
        /\ policies[1] = p
    BY <1>1, <1>2
  <1>4. IsList(<<>>) /\ IsList(records) /\ IsList(policies)
    <2>1. IsList(<<>>)
      BY DEF IsList
    <2>2. IsList(records)
      <3>1. {records[i] : i \in DOMAIN records} = {a, b, c}
        BY <1>1, <1>3
      <3> QED BY <1>1, <3>1 DEF IsList
    <2>3. IsList(policies)
      <3>1. {policies[i] : i \in DOMAIN policies} = {p}
        BY <1>1, <1>3
      <3> QED BY <1>1, <3>1 DEF IsList
    <2> QED BY <2>1, <2>2, <2>3
  <1>5. Len(<<>>) = 0 /\ DOMAIN <<>> = {}
    OBVIOUS
  <1>6. RequestsKept
    BY <1>1, <1>4, <1>5 DEF RequestsKept
  <1>7. StreamsKept
    <2>1. InTime(records, 0)
      <3>1. \A i \in DOMAIN records : /\ i \in 1..3 /\ \A j \in 1..i : j \in 1..3
        BY <1>3
      <3> QED BY <1>3, <3>1 DEF InTime
    <2>2. InTime(<<>>, 0)
      BY <1>5 DEF InTime
    <2> QED BY <1>1, <1>3, <1>4, <1>5, <2>1, <2>2 DEF StreamsKept
  <1>8. SealsLie(eventSeals, events, now) /\ SealsLie(recordSeals, records, now)
    BY <1>1, <1>4, <1>5 DEF SealsLie
  <1>9. LastUnwritten
    BY <1>1, <1>5 DEF LastUnwritten
  <1>10. ServiceKept
    BY <1>1, <1>2, <1>3, <1>4, <1>5, RegistryAssumption DEF ServiceKept
  <1>11. HonestSoFar
    <2>1. SealedTo(<<>>) = 0
      BY DEF SealedTo
    <2>2. \A i \in DOMAIN records : records[i].receivedAt = 0
      BY <1>3
    <2>3. 0 + MSD > 0
      BY TimesAssumption
    <2>4. SealedInTime(<<>>, records, 0) /\ SealedInTime(<<>>, <<>>, 0)
      BY <1>5, <2>1, <2>2, <2>3 DEF SealedInTime
    <2> QED BY <1>1, <1>5, <2>4 DEF HonestSoFar
  <1> QED BY <1>6, <1>7, <1>8, <1>9, <1>10, <1>11 DEF HistoryInv

\* The registry's history, from its first state on.
LEMMA HistoryStep ==
  ASSUME HistoryInv, UNCHANGED registryVars \/ RegistryNext
  PROVE  HistoryInv'
  <1>1. CASE RegistryNext
    BY <1>1, RegistryKeeps
  <1>2. CASE UNCHANGED registryVars
    <2>1. /\ now' = now /\ events' = events /\ records' = records
          /\ eventSeals' = eventSeals /\ recordSeals' = recordSeals /\ signed' = signed
          /\ policies' = policies /\ held' = held /\ requests' = requests
          /\ deviations' = deviations
      BY <1>2 DEF registryVars, streams, seals, service
    <2>2. RequestsKept'
      BY <2>1 DEF HistoryInv, RequestsKept, RequestKept
    <2>3. StreamsKept'
      BY <2>1 DEF HistoryInv, StreamsKept
    <2>4. LastUnwritten'
      BY <2>1 DEF HistoryInv, LastUnwritten
    <2>5. ServiceKept'
      BY <2>1 DEF HistoryInv, ServiceKept
    <2>6. HonestSoFar'
      BY <2>1 DEF HistoryInv, HonestSoFar
    <2>7. SealsLie(eventSeals', events', now') /\ SealsLie(recordSeals', records', now')
      BY <2>1 DEF HistoryInv
    <2> QED BY <2>2, <2>3, <2>4, <2>5, <2>6, <2>7 DEF HistoryInv
  <1> QED BY <1>1, <1>2

-----------------------------------------------------------------------------
(* What a run hears.                                                       *)

\* The run after each of some findings.
Hearing(h, said) ==
  /\ h[0] = [results |-> results, reason |-> reason, unconfirmedReason |-> unconfirmedReason]
  /\ \A n \in 1..Len(said) : h[n] = Told(h[n - 1], said[n])
  /\ results' = h[Len(said)].results
  /\ reason' = h[Len(said)].reason
  /\ unconfirmedReason' = h[Len(said)].unconfirmedReason

\* The recursive function of Hear has a value at each finding.
LEMMA HearUnfolds ==
  ASSUME NEW said, Len(said) \in Nat, Hear(said)
  PROVE  \E h : Hearing(h, said)
  <1> DEFINE N == Len(said)
             start == [results |-> results, reason |-> reason,
                       unconfirmedReason |-> unconfirmedReason]
             Value(h, n) == IF n = 0 THEN start ELSE Told(h[n - 1], said[n])
             Solves(h, m) == h = [n \in 0..m |-> Value(h, n)]
             T == {m \in Nat : \E h : Solves(h, m)}
             heard == CHOOSE h : Solves(h, N)
  <1>0. /\ results' = heard[N].results
        /\ reason' = heard[N].reason
        /\ unconfirmedReason' = heard[N].unconfirmedReason
    BY DEF Hear
  <1> HIDE DEF start
  <1>1. 0 \in T
    <2> DEFINE h == [n \in 0..0 |-> start]
    <2>1. h[0] = start /\ h = [n \in 0..0 |-> h[n]]
      OBVIOUS
    <2> HIDE DEF h
    <2>2. \A n \in 0..0 : h[n] = Value(h, n)
      BY <2>1
    <2>3. Solves(h, 0)
      BY <2>1, <2>2
    <2> QED BY <2>3
  <1>2. ASSUME NEW m \in Nat, m \in T PROVE m + 1 \in T
    <2>1. PICK g : Solves(g, m)
      BY <1>2
    <2> DEFINE h == [n \in 0..(m + 1) |-> IF n = m + 1 THEN Told(g[m], said[m + 1]) ELSE g[n]]
    <2>2. \A n \in 0..m : g[n] = Value(g, n)
      BY <2>1
    <2>3. /\ h = [n \in 0..(m + 1) |-> h[n]]
          /\ h[m + 1] = Told(g[m], said[m + 1])
          /\ \A n \in 0..m : h[n] = g[n]
      OBVIOUS
    <2> HIDE DEF h, Solves
    <2>4. ASSUME NEW n \in 0..(m + 1) PROVE h[n] = Value(h, n)
      <3>1. CASE n = 0
        BY <2>2, <2>3, <3>1
      <3>2. CASE n \in 1..m
        <4>1. n \in 0..m /\ n - 1 \in 0..m /\ n # 0
          BY <3>2
        <4> QED BY <2>2, <2>3, <4>1
      <3>3. CASE n = m + 1
        <4>1. m \in 0..m /\ n - 1 = m /\ n # 0
          BY <3>3
        <4> QED BY <2>3, <3>3, <4>1
      <3> QED BY <3>1, <3>2, <3>3
    <2>5. Solves(h, m + 1)
      BY <2>3, <2>4 DEF Solves
    <2> QED BY <2>5
  <1>3. \A m \in Nat : m \in T
    <2> HIDE DEF T
    <2> QED BY <1>1, <1>2, StepInduction
  <1>4. \E h : Solves(h, N)
    <2> HIDE DEF Solves
    <2> QED BY <1>3
  <1>5. Solves(heard, N)
    <2> HIDE DEF Solves
    <2> QED BY <1>4
  <1> HIDE DEF heard
  <1>6. \A n \in 0..N : heard[n] = Value(heard, n)
    BY <1>5
  <1>7. heard[0] = start /\ \A n \in 1..N : heard[n] = Told(heard[n - 1], said[n])
    <2>1. 0 \in 0..N /\ \A n \in 1..N : n \in 0..N /\ n # 0
      OBVIOUS
    <2> QED BY <1>6, <2>1
  <1>8. Hearing(heard, said)
    <2> HIDE DEF Solves, Value
    <2> QED BY <1>0, <1>7 DEF Hearing, start
  <1> QED BY <1>8

\* What a check may say.
Speaking(said) ==
  /\ IsList(said)
  /\ \A f \in ToSet(said) : f.state \in {"fail", "unconfirmed"} /\ f.result \in Results
                            /\ f.code # NoReason

\* The run after a finding.
LEMMA ToldIs ==
  ASSUME NEW run, run.results \in Verdicts,
         NEW f, f.state \in {"fail", "unconfirmed"}, f.result \in Results
  PROVE  /\ Told(run, f).results \in Verdicts
         /\ Rank[f.state] <= Rank[Told(run, f).results[f.result]]
         /\ \A n \in Results : /\ Rank[run.results[n]] <= Rank[Told(run, f).results[n]]
                               /\ Told(run, f).results[n] \in {run.results[n], f.state}
                               /\ n # f.result => Told(run, f).results[n] = run.results[n]
         /\ run.reason # NoReason => Told(run, f).reason = run.reason
         /\ f.state = "fail" /\ run.reason = NoReason => Told(run, f).reason = f.code
  <1> DEFINE r == run.results
             t == Demote(r, f.result, f.state)
  <1>1. Told(run, f).results = t
    BY DEF Told
  <1>2. /\ run.reason # NoReason => Told(run, f).reason = run.reason
        /\ f.state = "fail" /\ run.reason = NoReason => Told(run, f).reason = f.code
    BY DEF Told, SetReason
  <1> HIDE DEF r
  <1>3. r \in Verdicts /\ f.state \in States
    BY DEF r, States
  <1>4. t \in Verdicts
    BY <1>3, DemoteType
  <1>5. /\ t[f.result] = IF Rank[f.state] > Rank[r[f.result]] THEN f.state ELSE r[f.result]
        /\ \A n \in Results : n # f.result => t[n] = r[n]
    BY <1>3 DEF Demote, Verdicts
  <1>6. \A n \in Results : r[n] \in States /\ Rank[r[n]] \in 0..3
    BY <1>3, RankTotal DEF Verdicts
  <1>7. Rank[f.state] \in 0..3
    BY <1>3, RankTotal
  <1> HIDE DEF t
  <1>8. /\ Rank[f.state] <= Rank[t[f.result]]
        /\ \A n \in Results : /\ Rank[r[n]] <= Rank[t[n]]
                              /\ t[n] \in {r[n], f.state}
                              /\ n # f.result => t[n] = r[n]
    BY <1>5, <1>6, <1>7
  <1> QED BY <1>1, <1>2, <1>4, <1>8 DEF r

\* What the run has heard after n findings.
HeardTo(run, said, n) ==
  /\ run.results \in Verdicts
  /\ \A j \in 1..n : Rank[said[j].state] <= Rank[run.results[said[j].result]]
  /\ run.results["scope"] = "unconfirmed" =>
       \/ results["scope"] = "unconfirmed"
       \/ \E f \in ToSet(said) : f.state = "unconfirmed" /\ f.result = "scope"
  /\ reason # NoReason => run.reason = reason

\* Hearing one more finding.
LEMMA HearsOne ==
  ASSUME NEW run, NEW said, Speaking(said), NEW n \in Nat, n + 1 \in DOMAIN said,
         HeardTo(run, said, n)
  PROVE  HeardTo(Told(run, said[n + 1]), said, n + 1)
  <1> DEFINE f == said[n + 1]
             then == Told(run, f)
  <1>1. /\ f \in ToSet(said) /\ f.state \in {"fail", "unconfirmed"} /\ f.result \in Results
        /\ \A j \in 1..n : j \in DOMAIN said
    <2>1. f \in ToSet(said)
      BY DEF ToSet
    <2>2. \A j \in 1..n : j \in DOMAIN said
      BY ListFacts DEF Speaking
    <2> QED BY <2>1, <2>2 DEF Speaking
  <1>2. \A j \in 1..n : said[j].state \in {"fail", "unconfirmed"} /\ said[j].result \in Results
    <2>1. \A j \in 1..n : said[j] \in ToSet(said)
      BY <1>1 DEF ToSet
    <2> QED BY <2>1 DEF Speaking
  <1>3. n + 1 \in 1..(n + 1) /\ \A j \in 1..(n + 1) : j \in 1..n \/ j = n + 1
    OBVIOUS
  <1>4. said[n + 1] = f
    OBVIOUS
  <1> HIDE DEF f
  <1>5. run.results \in Verdicts
    BY DEF HeardTo
  <1>6. /\ then.results \in Verdicts
        /\ Rank[f.state] <= Rank[then.results[f.result]]
        /\ \A m \in Results : /\ Rank[run.results[m]] <= Rank[then.results[m]]
                              /\ then.results[m] \in {run.results[m], f.state}
                              /\ m # f.result => then.results[m] = run.results[m]
        /\ run.reason # NoReason => then.reason = run.reason
    BY <1>1, <1>5, ToldIs
  <1> HIDE DEF then
  <1>7. \A j \in 1..(n + 1) : Rank[said[j].state] <= Rank[then.results[said[j].result]]
    <2> TAKE j \in 1..(n + 1)
    <2>1. CASE j = n + 1
      BY <1>4, <1>6, <2>1
    <2>2. CASE j \in 1..n
      <3> DEFINE g == said[j]
      <3>1. g.result \in Results /\ g.state \in States
        BY <1>2, <2>2 DEF States
      <3>2. Rank[g.state] <= Rank[run.results[g.result]]
        BY <2>2 DEF HeardTo
      <3> HIDE DEF g
      <3>3. run.results[g.result] \in States /\ then.results[g.result] \in States
        BY <1>5, <1>6, <3>1 DEF Verdicts
      <3>4. /\ Rank[g.state] \in 0..3 /\ Rank[run.results[g.result]] \in 0..3
            /\ Rank[then.results[g.result]] \in 0..3
        BY <3>1, <3>3, RankTotal
      <3>5. Rank[run.results[g.result]] <= Rank[then.results[g.result]]
        BY <1>6, <3>1
      <3>6. Rank[g.state] <= Rank[then.results[g.result]]
        BY <3>2, <3>4, <3>5
      <3> QED BY <3>6 DEF g
    <2> QED BY <1>3, <2>1, <2>2
  <1>8. then.results["scope"] = "unconfirmed" =>
          \/ results["scope"] = "unconfirmed"
          \/ \E g \in ToSet(said) : g.state = "unconfirmed" /\ g.result = "scope"
    <2> SUFFICES ASSUME then.results["scope"] = "unconfirmed",
                        run.results["scope"] # "unconfirmed"
                 PROVE  f.state = "unconfirmed" /\ f.result = "scope"
      BY <1>1 DEF HeardTo
    <2>1. "scope" \in Results
      BY DEF Results
    <2> QED BY <1>6, <2>1
  <1>9. reason # NoReason => then.reason = reason
    BY <1>6 DEF HeardTo
  <1> QED BY <1>4, <1>6, <1>7, <1>8, <1>9 DEF HeardTo, then

\* What is heard counts: no result ends better than what was said of it, and one
\* that asks for more was said to.
LEMMA HearSays ==
  ASSUME results \in Verdicts, NEW said, Speaking(said), Hear(said)
  PROVE  /\ results' \in Verdicts
         /\ \A f \in ToSet(said) : Rank[f.state] <= Rank[results'[f.result]]
         /\ results'["scope"] = "unconfirmed" =>
              \/ results["scope"] = "unconfirmed"
              \/ \E f \in ToSet(said) : f.state = "unconfirmed" /\ f.result = "scope"
         /\ reason # NoReason => reason' = reason
         /\ said = <<>> => results' = results /\ reason' = reason
  <1>1. Len(said) \in Nat /\ DOMAIN said = 1..Len(said)
    BY ListFacts DEF Speaking
  <1>2. PICK h : Hearing(h, said)
    BY <1>1, HearUnfolds
  <1> DEFINE N == Len(said)
             T == {n \in Nat : n <= N => HeardTo(h[n], said, n)}
  <1>3. h[0].results = results /\ h[0].reason = reason
    BY <1>2 DEF Hearing
  <1>4. 0 \in T
    BY <1>3 DEF HeardTo
  <1>5. ASSUME NEW n \in Nat, n \in T PROVE n + 1 \in T
    <2> SUFFICES ASSUME n + 1 <= N PROVE HeardTo(h[n + 1], said, n + 1)
      OBVIOUS
    <2>1. HeardTo(h[n], said, n) /\ n + 1 \in 1..N /\ (n + 1) - 1 = n
      BY <1>1, <1>5
    <2>2. h[n + 1] = Told(h[n], said[n + 1])
      BY <1>2, <2>1 DEF Hearing
    <2> QED BY <1>1, <2>1, <2>2, HearsOne
  <1>6. N \in T
    <2> HIDE DEF T
    <2> QED BY <1>1, <1>4, <1>5, StepInduction
  <1>7. HeardTo(h[N], said, N)
    BY <1>1, <1>6
  <1>8. results' = h[N].results /\ reason' = h[N].reason
    BY <1>2 DEF Hearing
  <1> HIDE DEF T
  <1>9. \A f \in ToSet(said) : Rank[f.state] <= Rank[results'[f.result]]
    <2> TAKE f \in ToSet(said)
    <2>1. PICK j \in 1..N : f = said[j]
      BY <1>1 DEF ToSet
    <2> QED BY <1>7, <1>8, <2>1 DEF HeardTo
  <1>10. said = <<>> => results' = results /\ reason' = reason
    <2> HAVE said = <<>>
    <2>1. N = 0
      OBVIOUS
    <2> QED BY <1>3, <1>8, <2>1
  <1> QED BY <1>7, <1>8, <1>9, <1>10 DEF HeardTo

\* A run that passes has heard nothing against it.
LEMMA PassHeardNothing ==
  ASSUME results \in Verdicts, NEW said, Speaking(said), Hear(said),
         ExitCode(results') = ExitPass
  PROVE  ToSet(said) = {}
  <1> SUFFICES ASSUME NEW f \in ToSet(said) PROVE FALSE
    OBVIOUS
  <1>1. /\ f.state \in {"fail", "unconfirmed"} /\ f.result \in Results
        /\ results' \in Verdicts
        /\ Rank[f.state] <= Rank[results'[f.result]]
    BY HearSays DEF Speaking
  <1>2. results'[f.result] \in {"fail", "unconfirmed"}
    <2>1. results'[f.result] \in States /\ f.state \in States
      BY <1>1 DEF Verdicts, States
    <2>2. Rank[f.state] >= 2
      BY <1>1 DEF Rank, States
    <2>3. /\ Rank["pass"] = 0 /\ Rank["not_checked"] = 1
          /\ Rank[f.state] \in 0..3 /\ Rank[results'[f.result]] \in 0..3
      BY <2>1, RankTotal DEF Rank, States
    <2>4. results'[f.result] # "pass" /\ results'[f.result] # "not_checked"
      BY <1>1, <2>2, <2>3
    <2> QED BY <2>1, <2>4 DEF States
  <1>3. Some(results', "fail") \/ Some(results', "unconfirmed")
    BY <1>1, <1>2 DEF Some
  <1> QED BY <1>3 DEF ExitCode, ExitPass, ExitFail, ExitUnconfirmed

\* What is said when a condition holds.
LEMMA IfSays ==
  ASSUME NEW condition, NEW f, f.state \in {"fail", "unconfirmed"}, f.result \in Results,
         f.code # NoReason
  PROVE  /\ Speaking(If(condition, f))
         /\ condition => ToSet(If(condition, f)) = {f}
         /\ ~condition => If(condition, f) = <<>> /\ ToSet(If(condition, f)) = {}
  <1>1. IsList(<<>>) /\ IsList(<<f>>) /\ ToSet(<<>>) = {} /\ ToSet(<<f>>) = {f}
    <2>1. DOMAIN <<f>> = 1..1 /\ <<f>>[1] = f
      OBVIOUS
    <2>2. {<<f>>[i] : i \in DOMAIN <<f>>} = {f}
      BY <2>1
    <2>3. {<<>>[i] : i \in DOMAIN <<>>} = {}
      OBVIOUS
    <2>4. <<f>> \in Seq({f}) /\ <<>> \in Seq({})
      OBVIOUS
    <2> QED BY <2>2, <2>3, <2>4 DEF IsList, ToSet
  <1>2. CASE condition
    BY <1>1, <1>2 DEF If, Speaking
  <1>3. CASE ~condition
    BY <1>1, <1>3 DEF If, Speaking
  <1> QED BY <1>2, <1>3

\* Two lists of findings, one after the other.
LEMMA BothSay ==
  ASSUME NEW a, Speaking(a), NEW b, Speaking(b)
  PROVE  /\ Speaking(a \o b)
         /\ ToSet(a \o b) = ToSet(a) \cup ToSet(b)
  <1> DEFINE S == ToSet(a) \cup ToSet(b)
             c == a \o b
  <1>1. /\ a \in Seq(S) /\ b \in Seq(S)
        /\ Len(a) \in Nat /\ DOMAIN a = 1..Len(a) /\ Len(b) \in Nat /\ DOMAIN b = 1..Len(b)
    <2>1. IsList(a) /\ IsList(b)
      BY DEF Speaking
    <2>2. a \in Seq(ToSet(a)) /\ b \in Seq(ToSet(b))
      BY <2>1 DEF IsList, ToSet
    <2>3. ToSet(a) \subseteq S /\ ToSet(b) \subseteq S
      OBVIOUS
    <2> HIDE DEF S
    <2> QED BY <2>1, <2>2, <2>3, ListFacts
  <1>2. /\ c \in Seq(S) /\ Len(c) = Len(a) + Len(b) /\ DOMAIN c = 1..(Len(a) + Len(b))
        /\ \A i \in 1..Len(a) : c[i] = a[i]
        /\ \A i \in 1..Len(b) : c[Len(a) + i] = b[i]
    <2> HIDE DEF S
    <2>1. c \in Seq(S) /\ Len(c) = Len(a) + Len(b)
      BY <1>1
    <2>2. \A i \in 1..Len(a) : c[i] = a[i]
      BY <1>1
    <2>3. \A i \in 1..Len(b) : c[Len(a) + i] = b[i]
      BY <1>1
    <2> QED BY <2>1, <2>2, <2>3
  <1> HIDE DEF c
  <1>3. \A x \in ToSet(c) : x \in S
    <2> TAKE x \in ToSet(c)
    <2>1. PICK i \in 1..(Len(a) + Len(b)) : x = c[i]
      BY <1>2 DEF ToSet
    <2>2. CASE i \in 1..Len(a)
      BY <1>1, <1>2, <2>1, <2>2 DEF ToSet
    <2>3. CASE i \notin 1..Len(a)
      <3>1. i - Len(a) \in 1..Len(b) /\ Len(a) + (i - Len(a)) = i
        BY <1>1, <2>3
      <3>2. x = b[i - Len(a)]
        BY <1>2, <2>1, <3>1
      <3> QED BY <1>1, <3>1, <3>2 DEF ToSet
    <2> QED BY <2>2, <2>3
  <1>4. \A x \in S : x \in ToSet(c)
    <2> TAKE x \in S
    <2>1. CASE x \in ToSet(a)
      <3>1. PICK i \in 1..Len(a) : x = a[i]
        BY <1>1, <2>1 DEF ToSet
      <3>2. i \in 1..(Len(a) + Len(b))
        BY <1>1
      <3> QED BY <1>2, <3>1, <3>2 DEF ToSet
    <2>2. CASE x \in ToSet(b)
      <3>1. PICK i \in 1..Len(b) : x = b[i]
        BY <1>1, <2>2 DEF ToSet
      <3>2. Len(a) + i \in 1..(Len(a) + Len(b))
        BY <1>1
      <3> QED BY <1>2, <3>1, <3>2 DEF ToSet
    <2> QED BY <2>1, <2>2
  <1>5. ToSet(c) = S
    BY <1>3, <1>4
  <1>6. IsList(c)
    <2> HIDE DEF S
    <2> QED BY <1>2, <1>5 DEF IsList, ToSet
  <1>7. \A f \in S : f.state \in {"fail", "unconfirmed"} /\ f.result \in Results /\ f.code # NoReason
    BY DEF Speaking
  <1> QED BY <1>5, <1>6, <1>7 DEF Speaking, c

-----------------------------------------------------------------------------
(* What an export holds.                                                   *)

\* The beginning of a list.
LEMMA Beginning ==
  ASSUME NEW s, IsList(s), NEW n \in 0..Len(s)
  PROVE  /\ Len(SubSeq(s, 1, n)) = n /\ DOMAIN SubSeq(s, 1, n) = 1..n
         /\ \A i \in 1..n : SubSeq(s, 1, n)[i] = s[i]
  <1> DEFINE S == {s[i] : i \in DOMAIN s}
  <1>1. s \in Seq(S) /\ Len(s) \in Nat
    BY ListFacts DEF IsList
  <1> HIDE DEF S
  <1> QED BY <1>1

\* An export is its stream up to one of its checkpoints, and they lie side by
\* side from the stream's start.
LEMMA ExportHolds ==
  ASSUME NEW stream, IsList(stream), NEW c, NEW t \in Nat, SealsLie(c, stream, t),
         NEW b, IsExportOf(b, stream, c)
  PROVE  /\ b.to \in 1..Len(stream) /\ DOMAIN b.events = 1..b.to
         /\ \A n \in 1..b.to : b.events[n] = stream[n]
         /\ \E k \in DOMAIN c : /\ DOMAIN b.checkpoints = 1..k /\ b.to = c[k].to
                                /\ \A i \in 1..k : b.checkpoints[i] = c[i]
                                /\ b.anchoredAt \in NoTime..(Horizon + SealGrace)
  <1>1. PICK k \in DOMAIN c :
           /\ b.to = c[k].to
           /\ b.events = SubSeq(stream, 1, c[k].to)
           /\ b.checkpoints = SubSeq(c, 1, k)
           /\ b.anchoredAt \in NoTime..(Horizon + SealGrace)
    BY DEF IsExportOf
  <1>2. /\ Len(stream) \in Nat /\ Len(c) \in Nat /\ DOMAIN c = 1..Len(c) /\ IsList(c)
        /\ c[k].from \in 1..c[k].to /\ c[k].to \in Nat /\ c[k].to <= Len(stream)
    BY SealedToIs, ListFacts DEF SealsLie
  <1> DEFINE to == c[k].to
  <1>3. to \in 1..Len(stream) /\ to \in 0..Len(stream) /\ k \in 0..Len(c)
    BY <1>2
  <1> HIDE DEF to
  <1>4. /\ DOMAIN SubSeq(stream, 1, to) = 1..to
        /\ \A i \in 1..to : SubSeq(stream, 1, to)[i] = stream[i]
    BY <1>3, Beginning
  <1>5. /\ DOMAIN SubSeq(c, 1, k) = 1..k
        /\ \A i \in 1..k : SubSeq(c, 1, k)[i] = c[i]
    BY <1>2, <1>3, Beginning
  <1>6. b.to = to /\ b.events = SubSeq(stream, 1, to)
    BY <1>1 DEF to
  <1> QED BY <1>1, <1>3, <1>4, <1>5, <1>6

\* Some checkpoint covers whatever lies before the end of one.
LEMMA SealsCover ==
  ASSUME NEW stream, IsList(stream), NEW c, NEW t \in Nat, SealsLie(c, stream, t),
         NEW k \in DOMAIN c, NEW n \in 1..c[k].to
  PROVE  \E i \in 1..k : c[i].from <= n /\ n <= c[i].to
  <1>1. Len(c) \in Nat /\ DOMAIN c = 1..Len(c)
    BY SealedToIs
  <1>2. \A i \in 1..Len(c) : /\ c[i].from \in Nat /\ c[i].to \in Nat
                             /\ c[i].from = IF i = 1 THEN 1 ELSE c[i - 1].to + 1
    BY <1>1 DEF SealsLie
  <1> DEFINE T == {i \in Nat : i \in 1..k /\ n <= c[i].to}
  <1>3. k \in T
    BY <1>1, <1>2
  <1>4. PICK i \in T : \A j \in T : i <= j
    <2>1. T \subseteq Nat /\ T # {}
      BY <1>3
    <2> HIDE DEF T
    <2> QED BY <2>1, Smallest
  <1>5. c[i].from <= n
    <2>1. i \in 1..Len(c) /\ n \in Nat /\ n >= 1
      BY <1>1, <1>2
    <2>2. CASE i = 1
      BY <1>2, <2>1, <2>2
    <2>3. CASE i # 1
      <3>1. i - 1 \in 1..k /\ i - 1 \in 1..Len(c)
        BY <1>1, <2>1, <2>3
      <3>2. ~(n <= c[i - 1].to)
        <4>1. i - 1 \notin T
          BY <1>4, <3>1
        <4> QED BY <3>1, <4>1
      <3>3. c[i].from = c[i - 1].to + 1 /\ c[i - 1].to \in Nat
        BY <1>2, <2>1, <2>3, <3>1
      <3> QED BY <2>1, <3>2, <3>3
    <2> QED BY <2>2, <2>3
  <1> QED BY <1>4, <1>5

\* The least of some positive numbers.
LEMMA Least ==
  ASSUME NEW T, T \subseteq Nat, T # {}
  PROVE  Min(T) \in T /\ \A x \in T : Min(T) <= x
  <1>1. \E x \in T : \A y \in T : x <= y
    BY Smallest
  <1> QED BY <1>1 DEF Min

\* The first seal that an export shows is the first there is.
LEMMA FirstSealIs ==
  ASSUME NEW stream, IsList(stream), NEW c, NEW t \in Nat, SealsLie(c, stream, t),
         NEW b, IsExportOf(b, stream, c), NEW n \in 1..b.to
  PROVE  /\ SealsOf(b.checkpoints, n) # {}
         /\ FirstSealOf(b.checkpoints, n) = FirstSealOf(c, n)
         /\ \E i \in DOMAIN c : /\ FirstSealOf(c, n) = c[i]
                                /\ c[i].from <= n /\ n <= c[i].to
  <1>1. PICK k \in DOMAIN c : /\ DOMAIN b.checkpoints = 1..k /\ b.to = c[k].to
                              /\ \A i \in 1..k : b.checkpoints[i] = c[i]
    BY ExportHolds
  <1>2. DOMAIN c = 1..Len(c) /\ Len(c) \in Nat /\ k \in 1..Len(c)
    BY SealedToIs
  <1> DEFINE A == SealsOf(b.checkpoints, n)
             B == SealsOf(c, n)
  <1>3. A = {i \in 1..k : c[i].from <= n /\ n <= c[i].to}
    BY <1>1 DEF SealsOf
  <1>4. B = {i \in 1..Len(c) : c[i].from <= n /\ n <= c[i].to}
    BY <1>2 DEF SealsOf
  <1>5. A # {}
    <2>1. \E i \in 1..k : c[i].from <= n /\ n <= c[i].to
      BY <1>1, SealsCover
    <2> QED BY <1>3, <2>1
  <1>6. FirstSealOf(b.checkpoints, n) = b.checkpoints[Min(A)] /\ FirstSealOf(c, n) = c[Min(B)]
    BY DEF FirstSealOf
  <1> HIDE DEF A, B
  <1>7. A \subseteq B /\ A \subseteq Nat /\ B \subseteq Nat /\ B # {}
    BY <1>2, <1>3, <1>4, <1>5
  <1>8. /\ Min(A) \in A /\ \A x \in A : Min(A) <= x
        /\ Min(B) \in B /\ \A x \in B : Min(B) <= x
    BY <1>5, <1>7, Least
  <1>9. Min(B) <= Min(A) /\ Min(A) \in 1..k
    BY <1>3, <1>7, <1>8
  <1>10. Min(B) \in A
    <2>1. Min(B) \in 1..Len(c) /\ c[Min(B)].from <= n /\ n <= c[Min(B)].to
      BY <1>4, <1>8
    <2>2. Min(B) \in 1..k
      BY <1>2, <1>9, <2>1
    <2> QED BY <1>3, <2>1, <2>2
  <1>11. Min(A) = Min(B)
    <2> DEFINE x == Min(A)
               y == Min(B)
    <2>1. x <= y /\ y <= x /\ x \in Nat /\ y \in Nat
      BY <1>7, <1>8, <1>9, <1>10
    <2> HIDE DEF x, y
    <2>2. x = y
      BY <2>1
    <2> QED BY <2>2 DEF x, y
  <1>12. b.checkpoints[Min(A)] = c[Min(B)]
    BY <1>1, <1>9, <1>11
  <1>13. Min(B) \in DOMAIN c /\ c[Min(B)].from <= n /\ n <= c[Min(B)].to
    BY <1>2, <1>4, <1>8
  <1> QED BY <1>5, <1>6, <1>12, <1>13 DEF A

\* The time an export was known complete is a time, or none is.
LEMMA CompleteAtIs ==
  ASSUME now \in Nat, NEW stream, IsList(stream), NEW c, SealsLie(c, stream, now),
         NEW b, IsExportOf(b, stream, c)
  PROVE  CompleteAt(b) \in Int
  <1>1. PICK k \in DOMAIN c : /\ DOMAIN b.checkpoints = 1..k
                              /\ \A i \in 1..k : b.checkpoints[i] = c[i]
                              /\ b.anchoredAt \in NoTime..(Horizon + SealGrace)
    BY ExportHolds
  <1>2. DOMAIN c = 1..Len(c) /\ Len(c) \in Nat /\ k \in 1..Len(c)
        /\ \A i \in 1..Len(c) : c[i].createdAt \in 0..now
    BY SealedToIs DEF SealsLie
  <1> DEFINE top == now + Horizon + SealGrace
             T == {NoTime, b.anchoredAt}
                    \cup {b.checkpoints[i].createdAt : i \in DOMAIN b.checkpoints}
  <1>3. SealGrace \in Nat /\ Horizon \in Nat
    BY TimesAssumption, RegistryAssumption
  <1>4. NoTime \in NoTime..top /\ NoTime \in Int /\ top \in Int
    BY <1>3 DEF NoTime
  <1>5. b.anchoredAt \in NoTime..top
    BY <1>1, <1>3 DEF NoTime
  <1>6. \A i \in 1..k : b.checkpoints[i].createdAt \in NoTime..top
    <2> TAKE i \in 1..k
    <2>1. i \in 1..Len(c)
      BY <1>2
    <2>2. b.checkpoints[i].createdAt \in 0..now
      BY <1>1, <1>2, <2>1
    <2> QED BY <1>3, <2>2 DEF NoTime
  <1>7. CompleteAt(b) = Max(T)
    BY DEF CompleteAt
  <1> HIDE DEF top
  <1>8. T \subseteq NoTime..top /\ T # {}
    BY <1>1, <1>4, <1>5, <1>6
  <1> HIDE DEF T
  <1>9. Max(T) \in T
    BY <1>4, <1>8, Greatest
  <1>10. Max(T) \in NoTime..top
    BY <1>8, <1>9
  <1> QED BY <1>4, <1>7, <1>10

\* The earlier of two times is not after either.
LEMMA EarlierOf ==
  ASSUME NEW a \in Int, NEW b \in Int
  PROVE  Min({a, b}) <= a /\ Min({a, b}) <= b /\ Min({a, b}) \in {a, b}
  <1>1. \E x \in {a, b} : \A y \in {a, b} : x <= y
    BY a <= b \/ b <= a
  <1>2. Min({a, b}) \in {a, b} /\ \A y \in {a, b} : Min({a, b}) <= y
    BY <1>1 DEF Min
  <1> QED BY <1>2

-----------------------------------------------------------------------------
(* What is read of a log.                                                  *)

ReadFields == {"policies", "parts", "credentials", "status", "decisions", "closes", "last",
               "policyProblem", "credentialProblem"}

\* A record of the log from which a decision was read.
DecisionOf(d, record) ==
  /\ record.action = "ingress" /\ d.outcome = record.outcome
  /\ d.at = record.receivedAt /\ d.payload = record.payload

\* What is read of a record adds to the decisions only when it is one.
ReadsOn(out, after, record) ==
  /\ DOMAIN after = ReadFields
  /\ after.last = IF Known(record.receivedAt) THEN record.receivedAt ELSE out.last
  /\ \/ after.decisions = out.decisions
     \/ \E d : DecisionOf(d, record) /\ after.decisions = Append(out.decisions, d)

\* Reading one record.
LEMMA ReadOne ==
  ASSUME NEW out, DOMAIN out = ReadFields, NEW n, NEW record
  PROVE  ReadsOn(out, ReadRecord(out, n, record), record)
  <1> DEFINE seen == [out EXCEPT
                        !.last = IF Known(record.receivedAt) THEN record.receivedAt ELSE @,
                        !.status = StatusAfter(record.action, @)]
             p == record.payload
             end == ReadRecord(out, n, record)
  <1>1. /\ DOMAIN seen = ReadFields
        /\ seen.decisions = out.decisions
        /\ seen.last = IF Known(record.receivedAt) THEN record.receivedAt ELSE out.last
    BY DEF ReadFields
  <1>2. end = IF p = None THEN seen
              ELSE CASE record.action \in {"policy.committed", "policy.amended"} ->
                          ReadPolicy(seen, n, record)
                     [] record.action = "policy.windows" -> ReadWindows(seen, p)
                     [] record.action = "credentials.snapshot" ->
                          [seen EXCEPT !.credentials = p.credentials @@ @]
                     [] record.action = "credential.issued" ->
                          [seen EXCEPT !.credentials = (p.credential :> p.expiresAt) @@ @]
                     [] record.action \in {"credential.revoked", "credential.expired"} ->
                          [seen EXCEPT !.credentials = Forget(@, p.credential)]
                     [] record.action = "window.closed" ->
                          [seen EXCEPT !.closes = Append(@, p)]
                     [] record.action = "ingress" -> ReadDecision(seen, n, record)
                     [] OTHER -> seen
    BY DEF ReadRecord
  <1> HIDE DEF seen, end, p
  <1> DEFINE Same(e) == /\ DOMAIN e = ReadFields
                        /\ e.decisions = seen.decisions /\ e.last = seen.last
  <1>3. Same(seen)
    BY <1>1
  <1>4. Same(ReadPolicy(seen, n, record))
    BY <1>1 DEF ReadPolicy, ReadFields
  <1>5. Same(ReadWindows(seen, p))
    BY <1>1 DEF ReadWindows, ReadFields
  <1>6. \A e : Same([seen EXCEPT !.credentials = e])
    BY <1>1 DEF ReadFields
  <1>7. \A e : Same([seen EXCEPT !.closes = e])
    BY <1>1 DEF ReadFields
  <1>8. record.action = "ingress" =>
          LET e == ReadDecision(seen, n, record) IN
          /\ DOMAIN e = ReadFields /\ e.last = seen.last
          /\ \E d : DecisionOf(d, record) /\ e.decisions = Append(seen.decisions, d)
    <2> HAVE record.action = "ingress"
    <2> DEFINE d == [sequence |-> n, outcome |-> record.outcome, at |-> record.receivedAt,
                     payload |-> record.payload, status |-> seen.status]
               e == ReadDecision(seen, n, record)
    <2>1. /\ DOMAIN e = ReadFields /\ e.last = seen.last
          /\ e.decisions = Append(seen.decisions, d)
      BY <1>1 DEF ReadDecision, ReadFields
    <2>2. DecisionOf(d, record)
      BY DEF DecisionOf
    <2> HIDE DEF d, e
    <2>3. DOMAIN e = ReadFields /\ e.last = seen.last
          /\ \E d1 : DecisionOf(d1, record) /\ e.decisions = Append(seen.decisions, d1)
      BY <2>1, <2>2
    <2> QED BY <2>3 DEF e
  <1>9. \/ Same(end)
        \/ /\ DOMAIN end = ReadFields /\ end.last = seen.last
           /\ \E d : DecisionOf(d, record) /\ end.decisions = Append(seen.decisions, d)
    <2>1. CASE p = None
      BY <1>2, <1>3, <2>1
    <2>2. CASE p # None /\ record.action \in {"policy.committed", "policy.amended"}
      <3>1. end = ReadPolicy(seen, n, record)
        BY <1>2, <2>2
      <3> QED BY <1>4, <3>1
    <2>3. CASE p # None /\ record.action = "policy.windows"
      <3>1. end = ReadWindows(seen, p)
        BY <1>2, <2>3
      <3> QED BY <1>5, <3>1
    <2>4. CASE p # None /\ record.action \in {"credentials.snapshot", "credential.issued",
                                              "credential.revoked", "credential.expired"}
      <3>1. \E e : end = [seen EXCEPT !.credentials = e]
        <4>1. CASE record.action = "credentials.snapshot"
          <5>1. end = [seen EXCEPT !.credentials = p.credentials @@ seen.credentials]
            BY <1>2, <2>4, <4>1
          <5> QED BY <5>1
        <4>2. CASE record.action = "credential.issued"
          <5>1. end = [seen EXCEPT !.credentials = (p.credential :> p.expiresAt) @@ seen.credentials]
            BY <1>2, <2>4, <4>2
          <5> QED BY <5>1
        <4>3. CASE record.action \in {"credential.revoked", "credential.expired"}
          <5>1. end = [seen EXCEPT !.credentials = Forget(seen.credentials, p.credential)]
            BY <1>2, <2>4, <4>3
          <5> QED BY <5>1
        <4> QED BY <2>4, <4>1, <4>2, <4>3
      <3> QED BY <1>6, <3>1
    <2>5. CASE p # None /\ record.action = "window.closed"
      <3>1. end = [seen EXCEPT !.closes = Append(seen.closes, p)]
        BY <1>2, <2>5
      <3> QED BY <1>7, <3>1
    <2>6. CASE p # None /\ record.action = "ingress"
      <3>1. end = ReadDecision(seen, n, record)
        BY <1>2, <2>6
      <3> QED BY <1>8, <2>6, <3>1
    <2>7. CASE p # None /\ record.action \notin
                 {"policy.committed", "policy.amended", "policy.windows",
                  "credentials.snapshot", "credential.issued", "credential.revoked",
                  "credential.expired", "window.closed", "ingress"}
      <3>1. end = seen
        BY <1>2, <2>7
      <3> QED BY <1>3, <3>1
    <2> QED BY <2>1, <2>2, <2>3, <2>4, <2>5, <2>6, <2>7
  <1>10. ReadsOn(out, end, record)
    BY <1>1, <1>9 DEF ReadsOn
  <1> QED BY <1>10 DEF end

\* What was read up to each record.
Reading(h, bundle, last) ==
  /\ h[0] = NothingRead
  /\ \A n \in 1..last : h[n] = ReadRecord(h[n - 1], n, bundle.events[n])
  /\ \E joined : ReadRegistryLog(bundle) = [h[last] EXCEPT !.policies = joined]

\* The recursive function of ReadRegistryLog has a value at each record.
LEMMA ReadUnfolds ==
  ASSUME NEW bundle, NEW N \in Nat, DOMAIN bundle.events = 1..N
  PROVE  \E h : Reading(h, bundle, N)
  <1> DEFINE last == Max({0} \cup DOMAIN bundle.events)
             Value(h, n) == CASE n = 0 -> NothingRead
                              [] n > 0 /\ HasEvent(bundle, n) ->
                                   ReadRecord(h[n - 1], n, bundle.events[n])
                              [] OTHER -> h[n - 1]
             Solves(h, m) == h = [n \in 0..m |-> Value(h, n)]
             T == {m \in Nat : m <= N => \E h : Solves(h, m)}
             readTo == CHOOSE h : Solves(h, last)
             joined == [i \in DOMAIN readTo[last].policies |->
                          Joined(readTo[last].policies[i], readTo[last].parts)]
  <1>0. ReadRegistryLog(bundle) = [readTo[last] EXCEPT !.policies = joined]
    BY DEF ReadRegistryLog
  <1>1. last = N
    <2> DEFINE M == {0} \cup DOMAIN bundle.events
    <2>1. M \subseteq 0..N /\ M # {} /\ N \in M /\ 0 \in Int /\ N \in Int
      OBVIOUS
    <2> HIDE DEF M
    <2>2. Max(M) \in M /\ \A x \in M : x <= Max(M)
      BY <2>1, Greatest
    <2>3. Max(M) \in 0..N /\ N <= Max(M)
      BY <2>1, <2>2
    <2>4. Max(M) = N
      BY <2>3
    <2> QED BY <2>4 DEF M
  <1> HIDE DEF last, joined
  <1>2. 0 \in T
    <2> DEFINE h == [n \in 0..0 |-> NothingRead]
    <2>1. h[0] = NothingRead /\ h = [n \in 0..0 |-> h[n]]
      OBVIOUS
    <2> HIDE DEF h
    <2>2. \A n \in 0..0 : h[n] = Value(h, n)
      BY <2>1
    <2>3. Solves(h, 0)
      BY <2>1, <2>2
    <2> QED BY <2>3
  <1>3. ASSUME NEW m \in Nat, m \in T PROVE m + 1 \in T
    <2> SUFFICES ASSUME m + 1 <= N PROVE \E h : Solves(h, m + 1)
      OBVIOUS
    <2>1. PICK g : Solves(g, m)
      BY <1>3
    <2> DEFINE new == ReadRecord(g[m], m + 1, bundle.events[m + 1])
               h == [n \in 0..(m + 1) |-> IF n = m + 1 THEN new ELSE g[n]]
    <2>2. \A n \in 0..m : g[n] = Value(g, n)
      BY <2>1
    <2>3. /\ h = [n \in 0..(m + 1) |-> h[n]]
          /\ h[m + 1] = new
          /\ \A n \in 0..m : h[n] = g[n]
      <3> HIDE DEF new
      <3> QED OBVIOUS
    <2> HIDE DEF h, Solves
    <2>4. ASSUME NEW n \in 0..(m + 1) PROVE h[n] = Value(h, n)
      <3>1. CASE n = 0
        BY <2>2, <2>3, <3>1
      <3>2. CASE n \in 1..m
        <4>1. n \in 0..m /\ n - 1 \in 0..m /\ n # 0
          BY <3>2
        <4>2. g[n] = Value(g, n) /\ h[n] = g[n] /\ h[n - 1] = g[n - 1]
          BY <2>2, <2>3, <4>1
        <4>3. Value(g, n) = Value(h, n)
          BY <4>1, <4>2
        <4> QED BY <4>2, <4>3
      <3>3. CASE n = m + 1
        <4>1. m \in 0..m /\ n - 1 = m /\ n # 0 /\ n > 0 /\ n \in 1..N
          BY <3>3
        <4>2. HasEvent(bundle, n)
          BY <4>1 DEF HasEvent
        <4>3. h[n] = ReadRecord(h[n - 1], n, bundle.events[n])
          BY <2>3, <3>3, <4>1
        <4>4. Value(h, n) = ReadRecord(h[n - 1], n, bundle.events[n])
          BY <4>1, <4>2
        <4> QED BY <4>3, <4>4
      <3> QED BY <3>1, <3>2, <3>3
    <2>5. Solves(h, m + 1)
      BY <2>3, <2>4 DEF Solves
    <2> QED BY <2>5
  <1>4. N \in T
    <2> HIDE DEF T
    <2> QED BY <1>2, <1>3, StepInduction
  <1>5. \E h : Solves(h, N)
    <2> HIDE DEF Solves
    <2> QED BY <1>4
  <1>6. Solves(readTo, N)
    <2> HIDE DEF Solves
    <2> QED BY <1>1, <1>5
  <1> HIDE DEF readTo
  <1>7. \A n \in 0..N : readTo[n] = Value(readTo, n)
    BY <1>6
  <1>8. /\ readTo[0] = NothingRead
        /\ \A n \in 1..N : readTo[n] = ReadRecord(readTo[n - 1], n, bundle.events[n])
    <2>1. 0 \in 0..N
      OBVIOUS
    <2>2. readTo[0] = NothingRead
      BY <1>7, <2>1
    <2>3. ASSUME NEW n \in 1..N
          PROVE  readTo[n] = ReadRecord(readTo[n - 1], n, bundle.events[n])
      <3>1. n \in 0..N /\ n > 0 /\ n # 0 /\ HasEvent(bundle, n)
        BY DEF HasEvent
      <3>2. Value(readTo, n) = ReadRecord(readTo[n - 1], n, bundle.events[n])
        BY <3>1
      <3> QED BY <1>7, <3>1, <3>2
    <2> QED BY <2>2, <2>3
  <1>9. Reading(readTo, bundle, N)
    <2> HIDE DEF Solves, Value
    <2> QED BY <1>0, <1>1, <1>8 DEF Reading
  <1> QED BY <1>9

\* What is known of what was read of the first n records.
ReadTo(out, bundle, n) ==
  /\ DOMAIN out = ReadFields /\ out.last \in Int
  /\ IsList(out.decisions)
  /\ \A d \in ToSet(out.decisions) : \E m \in 1..n : DecisionOf(d, bundle.events[m])
  /\ \A m \in 1..n : bundle.events[m].receivedAt <= out.last

\* Reading one more record.
LEMMA ReadsOneMore ==
  ASSUME NEW bundle, NEW n \in Nat, NEW t \in Nat, InTime(bundle.events, t),
         n + 1 \in DOMAIN bundle.events,
         NEW out, ReadTo(out, bundle, n)
  PROVE  ReadTo(ReadRecord(out, n + 1, bundle.events[n + 1]), bundle, n + 1)
  <1> DEFINE record == bundle.events[n + 1]
             then == ReadRecord(out, n + 1, record)
  <1>1. ReadsOn(out, then, record)
    BY ReadOne DEF ReadTo
  <1>2. /\ record.receivedAt \in 0..t
        /\ \A m \in 1..(n + 1) : bundle.events[m].receivedAt <= record.receivedAt
    BY DEF InTime
  <1> HIDE DEF then
  <1>3. Known(record.receivedAt)
    BY <1>2 DEF Known, NoTime
  <1>4. DOMAIN then = ReadFields /\ then.last = record.receivedAt /\ then.last \in Int
    BY <1>1, <1>2, <1>3 DEF ReadsOn
  <1>5. /\ IsList(then.decisions)
        /\ \A d \in ToSet(then.decisions) :
             \E m \in 1..(n + 1) : DecisionOf(d, bundle.events[m])
    <2>0. /\ IsList(out.decisions)
          /\ \A d \in ToSet(out.decisions) : \E m \in 1..n : DecisionOf(d, bundle.events[m])
      BY DEF ReadTo
    <2>1. \A m \in 1..n : m \in 1..(n + 1)
      OBVIOUS
    <2>2. CASE then.decisions = out.decisions
      BY <2>0, <2>1, <2>2
    <2>3. CASE \E d : DecisionOf(d, record) /\ then.decisions = Append(out.decisions, d)
      <3>1. PICK e : DecisionOf(e, record) /\ then.decisions = Append(out.decisions, e)
        BY <2>3
      <3> DEFINE s == out.decisions
                 u == then.decisions
      <3>2. /\ IsList(u) /\ DOMAIN u = 1..(Len(s) + 1) /\ u[Len(s) + 1] = e
            /\ DOMAIN s = 1..Len(s) /\ Len(s) \in Nat
            /\ \A i \in 1..Len(s) : u[i] = s[i]
        BY <2>0, <3>1, OneMore
      <3> HIDE DEF s, u
      <3>3. ASSUME NEW d \in ToSet(u)
            PROVE  \E m \in 1..(n + 1) : DecisionOf(d, bundle.events[m])
        <4>1. PICK i \in 1..(Len(s) + 1) : d = u[i]
          BY <3>2 DEF ToSet
        <4>2. CASE i = Len(s) + 1
          <5>1. DecisionOf(d, bundle.events[n + 1]) /\ n + 1 \in 1..(n + 1)
            BY <3>1, <3>2, <4>1, <4>2
          <5> QED BY <5>1
        <4>3. CASE i \in 1..Len(s)
          <5>1. d \in ToSet(s)
            BY <3>2, <4>1, <4>3 DEF ToSet
          <5> QED BY <2>0, <2>1, <5>1 DEF s
        <4>4. i = Len(s) + 1 \/ i \in 1..Len(s)
          BY <3>2
        <4> QED BY <4>2, <4>3, <4>4
      <3> QED BY <3>2, <3>3 DEF u
    <2> QED BY <1>1, <2>2, <2>3 DEF ReadsOn
  <1>6. \A m \in 1..(n + 1) : bundle.events[m].receivedAt <= then.last
    BY <1>2, <1>4
  <1> QED BY <1>4, <1>5, <1>6 DEF ReadTo, then

\* Every decision read is a record of the log, and the last time read is not
\* before that of any record.
LEMMA ReadIs ==
  ASSUME NEW bundle, NEW N \in Nat, DOMAIN bundle.events = 1..N, NEW t \in Nat,
         InTime(bundle.events, t)
  PROVE  /\ \A d \in ToSet(ReadRegistryLog(bundle).decisions) :
              \E m \in 1..N : DecisionOf(d, bundle.events[m])
         /\ ReadRegistryLog(bundle).last \in Int
         /\ \A m \in 1..N : bundle.events[m].receivedAt <= ReadRegistryLog(bundle).last
  <1>1. PICK h : Reading(h, bundle, N)
    BY ReadUnfolds
  <1> DEFINE T == {n \in Nat : n <= N => ReadTo(h[n], bundle, n)}
  <1>2. 0 \in T
    <2>1. h[0] = NothingRead
      BY <1>1 DEF Reading
    <2>2. /\ DOMAIN NothingRead = ReadFields /\ NothingRead.decisions = <<>>
          /\ NothingRead.last \in Int
      BY DEF NothingRead, ReadFields, NoTime
    <2>3. IsList(<<>>) /\ ToSet(<<>>) = {}
      BY DEF IsList, ToSet
    <2>4. ReadTo(NothingRead, bundle, 0)
      BY <2>2, <2>3 DEF ReadTo
    <2> QED BY <2>1, <2>4
  <1>3. ASSUME NEW n \in Nat, n \in T PROVE n + 1 \in T
    <2> SUFFICES ASSUME n + 1 <= N PROVE ReadTo(h[n + 1], bundle, n + 1)
      OBVIOUS
    <2>1. ReadTo(h[n], bundle, n) /\ n + 1 \in 1..N /\ (n + 1) - 1 = n
      BY <1>3
    <2>2. h[n + 1] = ReadRecord(h[n], n + 1, bundle.events[n + 1])
      BY <1>1, <2>1 DEF Reading
    <2> QED BY <2>1, <2>2, ReadsOneMore
  <1>4. N \in T
    <2> HIDE DEF T
    <2> QED BY <1>2, <1>3, StepInduction
  <1>5. ReadTo(h[N], bundle, N)
    BY <1>4
  <1> DEFINE out == h[N]
             end == ReadRegistryLog(bundle)
  <1>6. PICK p : end = [out EXCEPT !.policies = p]
    BY <1>1 DEF Reading
  <1> HIDE DEF T, out, end
  <1>7. end.decisions = out.decisions /\ end.last = out.last
    <2>1. DOMAIN out = ReadFields
      BY <1>5 DEF ReadTo, out
    <2> QED BY <1>6, <2>1 DEF ReadFields
  <1> QED BY <1>5, <1>7 DEF ReadTo, out, end

-----------------------------------------------------------------------------
(* What the checks say of the scope.                                       *)

\* Findings of which none asks for more.
Quiet(said) ==
  Speaking(said) /\ \A f \in ToSet(said) : ~(f.state = "unconfirmed" /\ f.result = "scope")

\* Findings that ask for more only when there is something that may still come.
Explained(said) ==
  /\ Speaking(said)
  /\ (\E f \in ToSet(said) : f.state = "unconfirmed" /\ f.result = "scope") =>
        \E i \in DOMAIN requests : MayStillCome(requests[i])

\* Nothing, a failure, and a finding about another result, ask for nothing more.
LEMMA QuietOnes ==
  /\ Quiet(<<>>)
  /\ \A condition, code : code # NoReason => Quiet(If(condition, Failed(code)))
  /\ \A condition : Quiet(If(condition, Finding("fail", "RECEIPT_KEY_WINDOW", "signing_identity")))
  /\ Quiet(<<Finding("unconfirmed", "RECEIPT_KEY_UNKNOWN", "signing_identity")>>)
  /\ \A code : code # NoReason => Quiet(<<Failed(code)>>)
  /\ \A result \in Results : Quiet(<<BundleFails(result)>>)
  <1>1. ASSUME NEW f, f.state \in {"fail", "unconfirmed"}, f.result \in Results,
               f.state = "fail" \/ f.result # "scope",
               f.code # NoReason, NEW condition
        PROVE  Quiet(If(condition, f))
    <2>1. /\ Speaking(If(condition, f))
          /\ condition => ToSet(If(condition, f)) = {f}
          /\ ~condition => ToSet(If(condition, f)) = {}
      BY <1>1, IfSays
    <2> QED BY <1>1, <2>1 DEF Quiet
  <1>2. ASSUME NEW state \in {"fail", "unconfirmed"}, NEW code, code # NoReason,
               NEW result \in Results, state = "fail" \/ result # "scope", NEW condition
        PROVE  Quiet(If(condition, Finding(state, code, result)))
    <2> DEFINE f == Finding(state, code, result)
    <2>1. f.state = state /\ f.result = result /\ f.code = code
      BY DEF Finding
    <2> HIDE DEF f
    <2>2. /\ f.state \in {"fail", "unconfirmed"} /\ f.result \in Results
          /\ f.code # NoReason /\ (f.state = "fail" \/ f.result # "scope")
      BY <1>2, <2>1
    <2>3. Quiet(If(condition, f))
      BY <1>1, <2>2
    <2> QED BY <2>3 DEF f
  <1>3. \A f : If(TRUE, f) = <<f>> /\ If(FALSE, f) = <<>>
    BY DEF If
  <1>4. /\ "RECEIPT_KEY_WINDOW" # NoReason /\ "RECEIPT_KEY_UNKNOWN" # NoReason
        /\ "BUNDLE" # NoReason
        /\ "signing_identity" \in Results \ {"scope"} /\ "content_integrity" \in Results
    BY DEF NoReason, Results
  <1>5. \A condition :
          Quiet(If(condition, Finding("fail", "RECEIPT_KEY_WINDOW", "signing_identity")))
    BY <1>2, <1>4
  <1>6. Quiet(If(TRUE, Finding("unconfirmed", "RECEIPT_KEY_UNKNOWN", "signing_identity")))
    BY <1>2, <1>4
  <1>7. \A condition, code : code # NoReason =>
          Quiet(If(condition, Finding("fail", code, "content_integrity")))
    BY <1>2, <1>4
  <1>8. \A result \in Results : Quiet(If(TRUE, Finding("fail", "BUNDLE", result)))
    BY <1>2, <1>4
  <1>9. Quiet(If(FALSE, Finding("fail", "BUNDLE", "content_integrity")))
    BY <1>2, <1>4
  <1> QED BY <1>3, <1>5, <1>6, <1>7, <1>8, <1>9 DEF Failed, BundleFails

\* Quiet findings one after the other are quiet, and explained ones explained.
LEMMA QuietBoth ==
  ASSUME NEW a, NEW b
  PROVE  /\ Quiet(a) /\ Quiet(b) => Quiet(a \o b)
         /\ Explained(a) /\ Explained(b) => Explained(a \o b)
         /\ Quiet(a) => Explained(a)
  <1>1. ASSUME Quiet(a), Quiet(b) PROVE Quiet(a \o b)
    <2>1. Speaking(a \o b) /\ ToSet(a \o b) = ToSet(a) \cup ToSet(b)
      BY <1>1, BothSay DEF Quiet
    <2> QED BY <1>1, <2>1 DEF Quiet
  <1>2. ASSUME Explained(a), Explained(b) PROVE Explained(a \o b)
    <2>1. Speaking(a \o b) /\ ToSet(a \o b) = ToSet(a) \cup ToSet(b)
      BY <1>2, BothSay DEF Explained
    <2> QED BY <1>2, <2>1 DEF Explained
  <1>3. Quiet(a) => Explained(a)
    BY DEF Quiet, Explained
  <1> QED BY <1>1, <1>2, <1>3

\* A receipt on its own never asks for more.
LEMMA OwnQuiet ==
  ASSUME NEW receipt, NEW keys
  PROVE  Quiet(CheckReceipt(receipt, keys))
  <1>1. "RECEIPT_SHAPE" # NoReason /\ "RECEIPT_SIGNATURE" # NoReason
    BY DEF NoReason
  <1>2. Quiet(<<Failed("RECEIPT_SHAPE")>>) /\ Quiet(<<Failed("RECEIPT_SIGNATURE")>>)
    BY <1>1, QuietOnes
  <1>3. Quiet(<<Finding("unconfirmed", "RECEIPT_KEY_UNKNOWN", "signing_identity")>>)
    BY QuietOnes
  <1>4. Quiet(If(~InKeyWindow(receipt.signedAt, keys[receipt.keyId]),
                 Finding("fail", "RECEIPT_KEY_WINDOW", "signing_identity")))
    BY QuietOnes
  <1>5. \/ CheckReceipt(receipt, keys) = <<Failed("RECEIPT_SHAPE")>>
        \/ CheckReceipt(receipt, keys) = <<Failed("RECEIPT_SIGNATURE")>>
        \/ CheckReceipt(receipt, keys)
             = <<Finding("unconfirmed", "RECEIPT_KEY_UNKNOWN", "signing_identity")>>
        \/ CheckReceipt(receipt, keys)
             = If(~InKeyWindow(receipt.signedAt, keys[receipt.keyId]),
                  Finding("fail", "RECEIPT_KEY_WINDOW", "signing_identity"))
    BY DEF CheckReceipt
  <1> QED BY <1>2, <1>3, <1>4, <1>5

\* Nor does a receipt held against the records it names.
LEMMA SubjectQuiet ==
  ASSUME NEW body, NEW stream, NEW bundle
  PROVE  Quiet(CheckSubject(body, stream, bundle).findings)
  <1>1. "RECEIPT_SUBJECT" # NoReason /\ "MSD_BREACH" # NoReason
    BY DEF NoReason
  <1>2. \A c : Quiet(If(c, Failed("RECEIPT_SUBJECT"))) /\ Quiet(If(c, Failed("MSD_BREACH")))
    BY <1>1, QuietOnes
  <1>3. PICK c1, c2, c3 :
          CheckSubject(body, stream, bundle).findings
            = If(c1, Failed("RECEIPT_SUBJECT")) \o If(c2, Failed("RECEIPT_SUBJECT"))
                \o If(c3, Failed("MSD_BREACH"))
    BY DEF CheckSubject
  <1>4. Quiet(If(c1, Failed("RECEIPT_SUBJECT")) \o If(c2, Failed("RECEIPT_SUBJECT")))
    BY <1>2, QuietBoth
  <1>5. Quiet((If(c1, Failed("RECEIPT_SUBJECT")) \o If(c2, Failed("RECEIPT_SUBJECT")))
                \o If(c3, Failed("MSD_BREACH")))
    BY <1>2, <1>4, QuietBoth
  <1> QED BY <1>3, <1>5

-----------------------------------------------------------------------------
(* What is missing from the exports.                                       *)

\* A request of which one stream was exported too early may still come.
LEMMA StillComes ==
  ASSUME CompleteAt(registry) \in Int, CompleteAt(log) \in Int,
         NEW i \in DOMAIN requests, requests[i].at \in Nat,
         NEW complete \in {CompleteAt(registry), CompleteAt(log)},
         ~(Known(complete) /\ requests[i].at + MSD + SealGrace <= complete),
         \/ ~InLog(requests[i])
         \/ requests[i].told = "accepted" /\ ~InRegistry(requests[i])
  PROVE  MayStillCome(requests[i])
  <1> DEFINE least == Min({CompleteAt(registry), CompleteAt(log)})
  <1>1. least <= complete /\ least \in Int /\ complete \in Int
    BY EarlierOf
  <1>2. requests[i].at + MSD + SealGrace \in Nat
    BY TimesAssumption
  <1>3. Known(complete) \/ complete = -1
    BY DEF Known, NoTime
  <1> HIDE DEF least
  <1>4. requests[i].at + MSD + SealGrace > least
    BY <1>1, <1>2, <1>3
  <1> QED BY <1>4 DEF MayStillCome, least

\* What holds of two exports of the same history.
LEMMA ExportsHold ==
  ASSUME HistoryInv, RegistryExport(registry), LogExport(log)
  PROVE  /\ now \in Nat
         /\ registry.to \in 1..Len(events) /\ DOMAIN registry.events = 1..registry.to
         /\ \A n \in 1..registry.to : registry.events[n] = events[n]
         /\ log.to \in 1..Len(records) /\ DOMAIN log.events = 1..log.to
         /\ \A n \in 1..log.to : log.events[n] = records[n]
         /\ DOMAIN events = 1..Len(events) /\ DOMAIN records = 1..Len(records)
         /\ Len(events) \in Nat /\ Len(records) \in Nat
         /\ CompleteAt(registry) \in Int /\ CompleteAt(log) \in Int
  <1>1. /\ now \in Nat /\ IsList(events) /\ IsList(records)
        /\ SealsLie(eventSeals, events, now) /\ SealsLie(recordSeals, records, now)
    BY RegistryAssumption DEF HistoryInv, ServiceKept, StreamsKept
  <1>2. IsExportOf(registry, events, eventSeals) /\ IsExportOf(log, records, recordSeals)
    BY DEF RegistryExport, LogExport
  <1>3. /\ registry.to \in 1..Len(events) /\ DOMAIN registry.events = 1..registry.to
        /\ \A n \in 1..registry.to : registry.events[n] = events[n]
    BY <1>1, <1>2, ExportHolds
  <1>4. /\ log.to \in 1..Len(records) /\ DOMAIN log.events = 1..log.to
        /\ \A n \in 1..log.to : log.events[n] = records[n]
    BY <1>1, <1>2, ExportHolds
  <1>5. CompleteAt(registry) \in Int /\ CompleteAt(log) \in Int
    BY <1>1, <1>2, CompleteAtIs
  <1> QED BY <1>1, <1>3, <1>4, <1>5, ListFacts

\* Every decision read is that of a request, and no record of the log is later
\* than the last time read.
LEMMA DecisionsRead ==
  ASSUME HistoryInv, RegistryExport(registry), LogExport(log), read = ReadRegistryLog(log)
  PROVE  /\ \A d \in ToSet(read.decisions) : \E i \in DOMAIN requests :
              /\ d.outcome = requests[i].told /\ d.at = requests[i].at
              /\ d.payload.accepted = signed[i].accepted
         /\ read.last \in Int
         /\ \A m \in 1..log.to : records[m].receivedAt <= read.last
  <1>1. /\ now \in Nat
        /\ log.to \in 1..Len(records) /\ DOMAIN log.events = 1..log.to
        /\ \A n \in 1..log.to : log.events[n] = records[n]
        /\ DOMAIN records = 1..Len(records) /\ Len(records) \in Nat
    BY ExportsHold
  <1>2. InTime(records, now) /\ RequestsKept /\ StreamsKept
    BY DEF HistoryInv, StreamsKept
  <1>3. InTime(log.events, now)
    <2>1. \A i \in 1..log.to : i \in DOMAIN records /\ \A j \in 1..i : j \in 1..log.to
      BY <1>1
    <2> QED BY <1>1, <1>2, <2>1 DEF InTime
  <1>4. /\ \A d \in ToSet(read.decisions) : \E m \in 1..log.to : DecisionOf(d, log.events[m])
        /\ read.last \in Int
        /\ \A m \in 1..log.to : log.events[m].receivedAt <= read.last
    <2>1. log.to \in Nat
      BY <1>1
    <2> QED BY <1>1, <1>3, <2>1, ReadIs
  <1>5. ASSUME NEW d \in ToSet(read.decisions)
        PROVE  \E i \in DOMAIN requests : /\ d.outcome = requests[i].told /\ d.at = requests[i].at
                                          /\ d.payload.accepted = signed[i].accepted
    <2>1. PICK m \in 1..log.to : DecisionOf(d, records[m])
      BY <1>1, <1>4
    <2>2. m \in DOMAIN records /\ records[m].action = "ingress"
      BY <1>1, <2>1 DEF DecisionOf
    <2>3. PICK i \in DOMAIN requests : requests[i].record = m
      BY <1>2, <2>2 DEF StreamsKept
    <2> DEFINE q == requests[i]
               r == signed[i]
    <2>4. RequestFits(q, r, records, events, now)
      BY <1>2 DEF RequestsKept, RequestKept
    <2> HIDE DEF q, r
    <2>5. q.record = m /\ m # None
      BY <1>1, <2>3, RegistryAssumption DEF q
    <2>6. SaysTheSame(records[m], r) /\ records[m].payload.accepted = r.accepted
          /\ r.outcome = q.told /\ r.receivedAt = q.at
      BY <2>4, <2>5 DEF RequestFits
    <2>7. d.outcome = q.told /\ d.at = q.at /\ d.payload.accepted = r.accepted
      BY <2>1, <2>6 DEF DecisionOf, SaysTheSame
    <2> QED BY <2>7 DEF q, r
  <1> QED BY <1>1, <1>4, <1>5

\* An acceptance that names an event past the registry's export: it may come.
LEMMA LaterAcceptance ==
  ASSUME HistoryInv, RegistryExport(registry), LogExport(log), read = ReadRegistryLog(log),
         NEW a \in Unchecked
  PROVE  \E i \in DOMAIN requests : MayStillCome(requests[i])
  <1>1. a \in ToSet(read.decisions) /\ a.outcome = "accepted" /\ MayBeLater(a)
    BY DEF Unchecked, Acceptances
  <1>2. PICK i \in DOMAIN requests : /\ a.outcome = requests[i].told /\ a.at = requests[i].at
                                     /\ a.payload.accepted = signed[i].accepted
    BY <1>1, DecisionsRead
  <1>3. CompleteAt(registry) \in Int /\ CompleteAt(log) \in Int /\ now \in Nat
        /\ registry.to \in Nat
    BY ExportsHold
  <1> DEFINE q == requests[i]
             r == signed[i]
  <1>4. RequestFits(q, r, records, events, now)
    BY DEF HistoryInv, RequestsKept, RequestKept
  <1>5. /\ a.payload.accepted.sequence > registry.to
        /\ ~DueBy(a.at, MSD, CompleteAt(registry))
    BY <1>1 DEF MayBeLater
  <1>6. q.told = "accepted" /\ q.at = a.at /\ r.accepted = a.payload.accepted
    BY <1>1, <1>2
  <1> HIDE DEF q, r
  <1>7. PICK n \in 1..MaxRequests : /\ r.accepted = Acceptance(n, q.request, q.at)
                                    /\ q.event \in {None, n}
    BY <1>4, <1>6 DEF RequestFits
  <1>8. n > registry.to
    BY <1>5, <1>6, <1>7 DEF Acceptance
  <1>9. ~InRegistry(q)
    BY <1>3, <1>7, <1>8 DEF InRegistry
  <1>10. q.at \in Nat /\ Known(q.at)
    BY <1>3, <1>4 DEF RequestFits, Known, NoTime
  <1>11. ~(Known(CompleteAt(registry)) /\ q.at + MSD + SealGrace <= CompleteAt(registry))
    BY <1>5, <1>6, <1>10 DEF DueBy
  <1>12. MayStillCome(requests[i])
    BY <1>3, <1>6, <1>9, <1>10, <1>11, StillComes DEF q
  <1> QED BY <1>12

\* An event that no acceptance claims, received after all that the log holds: its
\* decision may come.
LEMMA LaterEvent ==
  ASSUME HistoryInv, RegistryExport(registry), LogExport(log), read = ReadRegistryLog(log),
         NEW n \in DOMAIN registry.events, DecisionMayBeLater(n)
  PROVE  \E i \in DOMAIN requests : MayStillCome(requests[i])
  <1>1. /\ now \in Nat
        /\ registry.to \in 1..Len(events) /\ DOMAIN registry.events = 1..registry.to
        /\ registry.events[n] = events[n]
        /\ DOMAIN events = 1..Len(events) /\ Len(events) \in Nat
        /\ log.to \in 1..Len(records) /\ DOMAIN records = 1..Len(records)
        /\ CompleteAt(registry) \in Int /\ CompleteAt(log) \in Int
    BY ExportsHold
  <1>2. read.last \in Int /\ \A m \in 1..log.to : records[m].receivedAt <= read.last
    BY DecisionsRead
  <1>3. PICK i \in DOMAIN requests : requests[i].event = n
    <2>1. n \in DOMAIN events
      BY <1>1
    <2> QED BY <2>1 DEF HistoryInv, StreamsKept
  <1> DEFINE q == requests[i]
             r == signed[i]
  <1>4. RequestFits(q, r, records, events, now)
    BY DEF HistoryInv, RequestsKept, RequestKept
  <1>5. q.event = n
    BY <1>3
  <1> HIDE DEF q, r
  <1>6. n # None
    <2>1. n \in Int
      BY <1>1
    <2> QED BY <2>1, RegistryAssumption
  <1>7. /\ events[n] = EventOf(n, q.request, q.at) /\ q.at \in 0..now
        /\ q.record \in {None, r.decisionSeq} /\ r.decisionSeq \in Nat \ {0}
        /\ q.record # None => SaysTheSame(records[q.record], r)
        /\ r.receivedAt = q.at
    BY <1>4, <1>5, <1>6 DEF RequestFits
  <1>8. registry.events[n].receivedAt = q.at
    BY <1>1, <1>7 DEF EventOf
  <1>9. q.at > read.last /\ ~DueBy(q.at, MSD, CompleteAt(log))
    BY <1>8 DEF DecisionMayBeLater
  <1>10. ~InLog(q)
    <2> SUFFICES ASSUME q.record # None, q.record <= log.to PROVE FALSE
      BY DEF InLog
    <2>1. q.record \in 1..log.to /\ records[q.record].receivedAt = q.at
      BY <1>1, <1>7 DEF SaysTheSame
    <2>2. records[q.record].receivedAt <= read.last
      BY <1>2, <2>1
    <2>3. q.at <= read.last
      BY <2>1, <2>2
    <2>4. q.at \in Int /\ read.last \in Int
      BY <1>1, <1>2, <1>7
    <2> QED BY <1>9, <2>3, <2>4
  <1>11. q.at \in Nat /\ Known(q.at)
    BY <1>1, <1>7 DEF Known, NoTime
  <1>12. ~(Known(CompleteAt(log)) /\ q.at + MSD + SealGrace <= CompleteAt(log))
    BY <1>9, <1>11 DEF DueBy
  <1>13. MayStillCome(requests[i])
    BY <1>1, <1>10, <1>11, <1>12, StillComes DEF q
  <1> QED BY <1>13
-----------------------------------------------------------------------------
(* What becomes of a receipt on its way.                                   *)

\* An altered receipt is no document, has no valid signature, or is of another
\* registry; the rest of it is as it was signed, but for the decision it names.
LEMMA AlteredIs ==
  ASSUME NEW r, DOMAIN r = ReceiptFields, r.document = TRUE, r.stream = "registry",
         NEW s \in Altered(r)
  PROVE  \/ s.document = FALSE
         \/ s.document = TRUE /\ s.signed = FALSE
         \/ s.document = TRUE /\ s.stream = "another"
  <1> DEFINE a == [r EXCEPT !.document = FALSE]
             b == [r EXCEPT !.signed = FALSE, !.decisionSeq = @ + 1]
             c == [r EXCEPT !.stream = "another", !.decisionSeq = @ + 1]
  <1>1. Altered(r) = {a, b, c}
    BY DEF Altered
  <1>2. /\ a.document = FALSE
        /\ b.document = TRUE /\ b.signed = FALSE
        /\ c.document = TRUE /\ c.stream = "another"
    BY DEF ReceiptFields
  <1> HIDE DEF a, b, c
  <1>3. s = a \/ s = b \/ s = c
    BY <1>1
  <1> QED BY <1>2, <1>3

\* A receipt whose signature does not verify never holds on its own.
LEMMA UnsignedFails ==
  ASSUME NEW receipt, receipt.signed = FALSE, NEW keys
  PROVE  CheckReceipt(receipt, keys) # <<>>
  BY DEF CheckReceipt

\* A receipt of which the decision is past the log's export: it may come.
LEMMA LaterReceipt ==
  ASSUME HistoryInv, RegistryExport(registry), LogExport(log), read = ReadRegistryLog(log),
         NEW receipt, IsHeld(receipt)
  PROVE  Explained(ReceiptFindings(receipt))
  <1> DEFINE own == CheckReceipt(receipt, receiptKeys)
             later == <<Later("RECEIPT_NOT_LOGGED")>>
  <1>1. PICK i \in DOMAIN signed : receipt \in {signed[i]} \cup Altered(signed[i])
    BY DEF IsHeld
  <1> DEFINE q == requests[i]
             r == signed[i]
  <1>2. RequestFits(q, r, records, events, now) /\ i \in DOMAIN requests
    <2>1. DOMAIN signed = 1..Len(signed) /\ DOMAIN requests = 1..Len(requests)
          /\ Len(signed) = Len(requests)
      BY ListFacts DEF HistoryInv, RequestsKept
    <2> QED BY <2>1 DEF HistoryInv, RequestsKept, RequestKept
  <1>3. registry.publicId = "registry"
    BY DEF RegistryExport
  <1>4. "RECEIPT_SHAPE" # NoReason /\ "RECEIPT_NOT_LOGGED" # NoReason
    BY DEF NoReason
  <1>5. /\ Quiet(<<>>) /\ Quiet(<<Failed("RECEIPT_SHAPE")>>)
        /\ Quiet(<<Failed("RECEIPT_NOT_LOGGED")>>)
        /\ Quiet(own) /\ Quiet(CheckSubject(receipt, registry, log).findings)
    BY <1>4, QuietOnes, OwnQuiet, SubjectQuiet
  <1>6. \/ Quiet(ReceiptFindings(receipt))
        \/ /\ ReceiptFindings(receipt) = later
           /\ receipt.document /\ receipt.stream = "registry"
           /\ own = <<>> /\ ReceiptMayBeLater(receipt)
    <2> HIDE DEF own, later
    <2>1. \/ ReceiptFindings(receipt) \in
               {<<>>, <<Failed("RECEIPT_SHAPE")>>, <<Failed("RECEIPT_NOT_LOGGED")>>, own,
                CheckSubject(receipt, registry, log).findings}
          \/ /\ ReceiptFindings(receipt) = later
             /\ receipt.document /\ receipt.stream = registry.publicId
             /\ own = <<>> /\ ReceiptMayBeLater(receipt)
      BY DEF ReceiptFindings, own, later
    <2> QED BY <1>3, <1>5, <2>1
  <1>7. Quiet(ReceiptFindings(receipt)) => Explained(ReceiptFindings(receipt))
    BY QuietBoth
  <1>8. ASSUME ReceiptFindings(receipt) = later,
               receipt.document, receipt.stream = "registry",
               own = <<>>, ReceiptMayBeLater(receipt)
        PROVE  MayStillCome(requests[i])
    <2>1. receipt = r
      <3>1. DOMAIN r = ReceiptFields /\ r.document = TRUE /\ r.stream = "registry"
        BY <1>2 DEF RequestFits
      <3>2. receipt \in Altered(r) => receipt.document = FALSE \/ receipt.signed = FALSE
                                        \/ receipt.stream = "another"
        BY <3>1, AlteredIs
      <3> QED BY <1>1, <1>8, <3>2, UnsignedFails
    <2> HIDE DEF r, q, own, later
    <2>2. /\ r.decisionSeq > log.to
          /\ ~DueBy(r.sealBy, 0, CompleteAt(log))
      BY <1>8, <2>1 DEF ReceiptMayBeLater
    <2>3. /\ q.at \in 0..now /\ r.sealBy = q.at + MSD
          /\ r.decisionSeq \in Nat /\ q.record \in {None, r.decisionSeq}
      BY <1>2 DEF RequestFits
    <2>4. /\ now \in Nat /\ log.to \in Nat
          /\ CompleteAt(registry) \in Int /\ CompleteAt(log) \in Int
      BY ExportsHold
    <2>5. ~InLog(q)
      BY <2>2, <2>3, <2>4 DEF InLog
    <2>6. q.at \in Nat /\ Known(r.sealBy)
      BY <2>3, <2>4, TimesAssumption DEF Known, NoTime
    <2>7. ~(Known(CompleteAt(log)) /\ q.at + MSD + SealGrace <= CompleteAt(log))
      <3>1. q.at + MSD + 0 + SealGrace = q.at + MSD + SealGrace
        BY <2>6, TimesAssumption
      <3> QED BY <2>2, <2>3, <2>6, <3>1 DEF DueBy
    <2> QED BY <1>2, <2>4, <2>5, <2>6, <2>7, StillComes DEF q
  <1>9. ASSUME ReceiptFindings(receipt) = later, MayStillCome(requests[i])
        PROVE  Explained(ReceiptFindings(receipt))
    <2>1. later = If(TRUE, Later("RECEIPT_NOT_LOGGED"))
      BY DEF If
    <2>2. Speaking(later)
      <3> DEFINE f == Later("RECEIPT_NOT_LOGGED")
      <3>1. f.state \in {"fail", "unconfirmed"} /\ f.result \in Results /\ f.code # NoReason
        BY <1>4 DEF Later, Finding, Results
      <3> HIDE DEF f
      <3>2. \A condition : Speaking(If(condition, f))
        BY <3>1, IfSays
      <3>3. Speaking(If(TRUE, f))
        BY <3>2
      <3> QED BY <2>1, <3>3 DEF f
    <2> QED BY <1>2, <1>9, <2>2 DEF Explained
  <1> QED BY <1>6, <1>7, <1>8, <1>9

-----------------------------------------------------------------------------
(* What the rules say.                                                     *)

\* A finding that asks for more when something may still come.
LEMMA LaterExplained ==
  ASSUME NEW condition, NEW code, code # NoReason,
         condition => \E i \in DOMAIN requests : MayStillCome(requests[i])
  PROVE  Explained(If(condition, Later(code)))
  <1> DEFINE f == Later(code)
  <1>1. f.state \in {"fail", "unconfirmed"} /\ f.result \in Results /\ f.code # NoReason
    BY DEF Later, Finding, Results
  <1> HIDE DEF f
  <1>2. /\ Speaking(If(condition, f))
        /\ ~condition => ToSet(If(condition, f)) = {}
    BY <1>1, IfSays
  <1>3. Explained(If(condition, f))
    BY <1>2 DEF Explained
  <1> QED BY <1>3 DEF f

\* The rules ask for more only about what may still come.
LEMMA RulesExplained ==
  ASSUME HistoryInv, RegistryExport(registry), LogExport(log), read = ReadRegistryLog(log)
  PROVE  Explained(Policies \o Amendments \o Decisions \o AcceptedMatch \o ParentMatch
                     \o Double \o Closes \o Credentials)
  <1>1. /\ "POLICY_HASH" # NoReason /\ "POLICY_AMENDMENT" # NoReason
        /\ "DECISION_POLICY" # NoReason /\ "ACCEPTED_UNMATCHED" # NoReason
        /\ "PARENT_UNMATCHED" # NoReason /\ "DOUBLE_ACCEPTANCE" # NoReason
        /\ "WINDOW_CLOSE" # NoReason /\ "CREDENTIAL_NOT_VALID" # NoReason
    BY DEF NoReason
  <1>2. ASSUME NEW condition, NEW code, code # NoReason
        PROVE  Explained(If(condition, Failed(code)))
    BY <1>2, QuietOnes, QuietBoth
  <1>3. ASSUME NEW a, NEW b, Explained(a), Explained(b)
        PROVE  Explained(a \o b)
    BY <1>3, QuietBoth
  <1>4. Explained(Policies)
    BY <1>1, <1>2 DEF Policies
  <1>5. Explained(Amendments)
    BY <1>1, <1>2 DEF Amendments
  <1>6. Explained(Decisions)
    BY <1>1, <1>2 DEF Decisions
  <1>7. Explained(Double)
    BY <1>1, <1>2 DEF Double
  <1>8. Explained(Closes)
    BY <1>1, <1>2 DEF Closes
  <1>9. Explained(Credentials)
    BY <1>1, <1>2 DEF Credentials
  <1>10. Explained(AcceptedMatch)
    <2>1. Unchecked # {} => \E i \in DOMAIN requests : MayStillCome(requests[i])
      BY LaterAcceptance
    <2>2. Explained(If(Unchecked # {}, Later("ACCEPTED_UNMATCHED")))
      BY <1>1, <2>1, LaterExplained
    <2> QED BY <1>1, <1>2, <1>3, <2>2 DEF AcceptedMatch
  <1>11. Explained(ParentMatch)
    <2> DEFINE later == {n \in DOMAIN registry.events : DecisionMayBeLater(n)}
               other == \E n \in DOMAIN registry.events \ later : Claims(n) # 1
    <2>1. later # {} => \E i \in DOMAIN requests : MayStillCome(requests[i])
      BY LaterEvent
    <2>2. ParentMatch = If(later # {}, Later("PARENT_UNMATCHED"))
                          \o If(other, Failed("PARENT_UNMATCHED"))
      BY DEF ParentMatch
    <2> HIDE DEF later, other
    <2>3. Explained(If(later # {}, Later("PARENT_UNMATCHED")))
      BY <1>1, <2>1, LaterExplained
    <2>4. Explained(If(other, Failed("PARENT_UNMATCHED")))
      BY <1>1, <1>2
    <2> QED BY <1>3, <2>2, <2>3, <2>4
  <1>12. Explained(Policies \o Amendments \o Decisions \o AcceptedMatch)
    BY <1>3, <1>4, <1>5, <1>6, <1>10
  <1>13. Explained(Policies \o Amendments \o Decisions \o AcceptedMatch \o ParentMatch
                     \o Double)
    BY <1>3, <1>7, <1>11, <1>12
  <1> QED BY <1>3, <1>8, <1>9, <1>13

\* A run that hears explained findings asks for more with reason.
LEMMA HearsExplained ==
  ASSUME results \in Verdicts, ScopeExplained, ended, ended' = ended,
         rule' \in ReconcileModes, UNCHANGED <<registry, log, requests>>,
         NEW said, Explained(said), Hear(said)
  PROVE  results' \in Verdicts /\ ScopeExplained'
  <1>1. Speaking(said)
    BY DEF Explained
  <1>2. /\ results' \in Verdicts
        /\ results'["scope"] = "unconfirmed" =>
             \/ results["scope"] = "unconfirmed"
             \/ \E f \in ToSet(said) : f.state = "unconfirmed" /\ f.result = "scope"
    BY <1>1, HearSays
  <1>3. results'["scope"] = "unconfirmed" =>
          \E i \in DOMAIN requests : MayStillCome(requests[i])
    BY <1>2 DEF ScopeExplained, Explained
  <1>4. ASSUME NEW i \in DOMAIN requests, MayStillCome(requests[i])
        PROVE  i \in DOMAIN requests' /\ MayStillCome(requests[i])'
    <2>1. registry' = registry /\ log' = log /\ requests' = requests
      OBVIOUS
    <2> QED BY <1>4, <2>1 DEF MayStillCome, InLog, InRegistry
  <1> QED BY <1>2, <1>3, <1>4 DEF ScopeExplained

\* A run that is not a reconciliation and hears quiet findings does not ask.
LEMMA HearsQuiet ==
  ASSUME results \in Verdicts, ScopeExplained, rule \notin ReconcileModes,
         NEW said, Quiet(said), Hear(said)
  PROVE  /\ results' \in Verdicts /\ ScopeExplained'
         /\ reason # NoReason => reason' = reason
         /\ said = <<>> => results' = results /\ reason' = reason
  <1>1. /\ Speaking(said)
        /\ \A f \in ToSet(said) : ~(f.state = "unconfirmed" /\ f.result = "scope")
    BY DEF Quiet
  <1>2. /\ results' \in Verdicts
        /\ results'["scope"] = "unconfirmed" =>
             \/ results["scope"] = "unconfirmed"
             \/ \E f \in ToSet(said) : f.state = "unconfirmed" /\ f.result = "scope"
        /\ reason # NoReason => reason' = reason
        /\ said = <<>> => results' = results /\ reason' = reason
    BY <1>1, HearSays
  <1>3. results'["scope"] # "unconfirmed"
    BY <1>1, <1>2 DEF ScopeExplained
  <1> QED BY <1>2, <1>3 DEF ScopeExplained

\* The first failure gives the reason.
LEMMA HearsFirst ==
  ASSUME results \in Verdicts, NEW f, f.state = "fail", f.result \in Results, Hear(<<f>>),
         reason = NoReason
  PROVE  reason' = f.code
  <1>1. Len(<<f>>) = 1 /\ <<f>>[1] = f
    OBVIOUS
  <1>2. PICK h : Hearing(h, <<f>>)
    BY <1>1, HearUnfolds
  <1>3. h[0].results = results /\ h[0].reason = NoReason
    BY <1>2 DEF Hearing
  <1>4. h[1] = Told(h[0], f) /\ reason' = h[1].reason
    <2>1. 1 \in 1..1 /\ 1 - 1 = 0
      OBVIOUS
    <2> QED BY <1>1, <1>2, <2>1 DEF Hearing
  <1> QED BY <1>3, <1>4, ToldIs

-----------------------------------------------------------------------------
(* A receipt against the records it names.                                 *)

LogDiffers(body, bundle) ==
  HasEvent(bundle, body.decisionSeq) /\ ~SaysTheSame(bundle.events[body.decisionSeq], body)

HeldDiffers(body, stream) ==
  /\ body.accepted # None /\ HasEvent(stream, body.accepted.sequence)
  /\ EventDiffers(stream.events[body.accepted.sequence], body)

SealLate(body, view, n) ==
  /\ HasEvent(view, n) /\ SealsOf(view.checkpoints, n) # {}
  /\ ~SealedBy(FirstSealOf(view.checkpoints, n), body.sealBy)

\* The seal that the receipt's deadline is about came late.
DeadlineMissed(body, stream, bundle) ==
  IF DeadlineOnEvent(body) THEN SealLate(body, stream, body.accepted.sequence)
  ELSE SealLate(body, bundle, body.decisionSeq)

\* Nothing is found against a receipt exactly when all three hold.
LEMMA SubjectFinds ==
  ASSUME NEW body, NEW stream, NEW bundle
  PROVE  LET found == CheckSubject(body, stream, bundle).findings
             wrong == \/ LogDiffers(body, bundle) \/ HeldDiffers(body, stream)
                      \/ DeadlineMissed(body, stream, bundle)
         IN (wrong => ToSet(found) # {}) /\ (~wrong => found = <<>>)
  <1> DEFINE a == If(LogDiffers(body, bundle), Failed("RECEIPT_SUBJECT"))
             b == If(HeldDiffers(body, stream), Failed("RECEIPT_SUBJECT"))
             c == If(DeadlineMissed(body, stream, bundle), Failed("MSD_BREACH"))
             found == CheckSubject(body, stream, bundle).findings
  <1>1. found = a \o b \o c
    <2>1. CASE DeadlineOnEvent(body)
      BY <2>1 DEF CheckSubject, LogDiffers, HeldDiffers, DeadlineMissed, SealLate
    <2>2. CASE ~DeadlineOnEvent(body)
      BY <2>2 DEF CheckSubject, LogDiffers, HeldDiffers, DeadlineMissed, SealLate
    <2> QED BY <2>1, <2>2
  <1>2. ASSUME NEW condition, NEW code, code # NoReason
        PROVE  /\ Speaking(If(condition, Failed(code)))
               /\ condition => ToSet(If(condition, Failed(code))) # {}
               /\ ~condition => If(condition, Failed(code)) = <<>>
    <2> DEFINE f == Failed(code)
    <2>1. f.state \in {"fail", "unconfirmed"} /\ f.result \in Results /\ f.code # NoReason
      BY <1>2 DEF Failed, Finding, Results
    <2> HIDE DEF f
    <2>2. /\ Speaking(If(condition, f))
          /\ condition => ToSet(If(condition, f)) = {f}
          /\ ~condition => If(condition, f) = <<>>
      BY <2>1, IfSays
    <2> QED BY <2>2 DEF f
  <1>3. "RECEIPT_SUBJECT" # NoReason /\ "MSD_BREACH" # NoReason
    BY DEF NoReason
  <1>4. /\ Speaking(a) /\ Speaking(b) /\ Speaking(c)
        /\ LogDiffers(body, bundle) => ToSet(a) # {}
        /\ HeldDiffers(body, stream) => ToSet(b) # {}
        /\ DeadlineMissed(body, stream, bundle) => ToSet(c) # {}
        /\ ~LogDiffers(body, bundle) => a = <<>>
        /\ ~HeldDiffers(body, stream) => b = <<>>
        /\ ~DeadlineMissed(body, stream, bundle) => c = <<>>
    BY <1>2, <1>3
  <1> HIDE DEF a, b, c, found
  <1>5. Speaking(a \o b) /\ ToSet(a \o b) = ToSet(a) \cup ToSet(b)
    BY <1>4, BothSay
  <1>6. ToSet((a \o b) \o c) = ToSet(a \o b) \cup ToSet(c)
    BY <1>4, <1>5, BothSay
  <1>7. ToSet(found) = ToSet(a) \cup ToSet(b) \cup ToSet(c)
    BY <1>1, <1>5, <1>6
  <1>8. <<>> \o <<>> \o <<>> = <<>>
    OBVIOUS
  <1>9. a = <<>> /\ b = <<>> /\ c = <<>> => found = <<>>
    BY <1>1, <1>8
  <1> QED BY <1>4, <1>7, <1>9 DEF found

\* When the records a receipt names were there to be checked.
LEMMA SubjectChecked ==
  ASSUME NEW body, NEW stream, NEW bundle
  PROVE  LET logged == HasEvent(bundle, body.decisionSeq)
             there == body.accepted # None /\ HasEvent(stream, body.accepted.sequence)
             checked == CheckSubject(body, stream, bundle).checked
         IN /\ checked => /\ logged \/ there
                          /\ body.decisionSeq # None => logged
                          /\ body.accepted # None => there
            /\ logged /\ (body.accepted # None => there)
                 /\ SealsOf(bundle.checkpoints, body.decisionSeq) # {}
                 /\ (there => SealsOf(stream.checkpoints, body.accepted.sequence) # {})
                 => checked
  <1>1. CASE DeadlineOnEvent(body)
    BY <1>1 DEF CheckSubject, DeadlineOnEvent
  <1>2. CASE ~DeadlineOnEvent(body)
    BY <1>2 DEF CheckSubject
  <1> QED BY <1>1, <1>2

\* The views a receipt is held against.
RegistryView == registry = Nothing \/ (RegistryExport(registry) /\ Gave("registry"))
LogView == log = Nothing \/ (LogExport(log) /\ Gave("log"))

\* A bundle that was not given holds nothing.
LEMMA NothingThere == \A n : ~HasEvent(Nothing, n)
  BY DEF HasEvent, Nothing

\* What a view of the log shows is in the log, under its first seal.
LEMMA LogViewed ==
  ASSUME HistoryInv, LogView, NEW n, HasEvent(log, n)
  PROVE  /\ LogExport(log) /\ Gave("log")
         /\ n \in 1..log.to /\ log.to \in Nat /\ n \in DOMAIN records
         /\ log.events[n] = records[n]
         /\ SealsOf(log.checkpoints, n) # {}
         /\ FirstSealOf(log.checkpoints, n) = FirstSealOf(recordSeals, n)
         /\ \E i \in DOMAIN recordSeals :
              /\ FirstSealOf(recordSeals, n) = recordSeals[i]
              /\ recordSeals[i].from <= n /\ n <= recordSeals[i].to
  <1>1. LogExport(log) /\ Gave("log")
    BY NothingThere DEF LogView
  <1>2. /\ now \in Nat /\ IsList(records) /\ SealsLie(recordSeals, records, now)
        /\ IsExportOf(log, records, recordSeals)
    BY <1>1, RegistryAssumption DEF HistoryInv, ServiceKept, StreamsKept, LogExport
  <1>3. /\ log.to \in 1..Len(records) /\ DOMAIN log.events = 1..log.to
        /\ \A m \in 1..log.to : log.events[m] = records[m]
    BY <1>2, ExportHolds
  <1>4. Len(records) \in Nat /\ DOMAIN records = 1..Len(records)
    BY <1>2, ListFacts
  <1>5. n \in 1..log.to /\ log.to \in Nat /\ n \in DOMAIN records
    BY <1>3, <1>4 DEF HasEvent
  <1> QED BY <1>1, <1>2, <1>3, <1>5, FirstSealIs

\* The same, of the registry.
LEMMA RegistryViewed ==
  ASSUME HistoryInv, RegistryView, NEW n, HasEvent(registry, n)
  PROVE  /\ RegistryExport(registry) /\ Gave("registry")
         /\ n \in 1..registry.to /\ registry.to \in Nat /\ n \in DOMAIN events
         /\ registry.to <= Len(events)
         /\ registry.events[n] = events[n]
         /\ SealsOf(registry.checkpoints, n) # {}
         /\ FirstSealOf(registry.checkpoints, n) = FirstSealOf(eventSeals, n)
         /\ \E i \in DOMAIN eventSeals :
              /\ FirstSealOf(eventSeals, n) = eventSeals[i]
              /\ eventSeals[i].from <= n /\ n <= eventSeals[i].to
  <1>1. RegistryExport(registry) /\ Gave("registry")
    BY NothingThere DEF RegistryView
  <1>2. /\ now \in Nat /\ IsList(events) /\ SealsLie(eventSeals, events, now)
        /\ IsExportOf(registry, events, eventSeals)
    BY <1>1, RegistryAssumption DEF HistoryInv, ServiceKept, StreamsKept, RegistryExport
  <1>3. /\ registry.to \in 1..Len(events) /\ DOMAIN registry.events = 1..registry.to
        /\ \A m \in 1..registry.to : registry.events[m] = events[m]
    BY <1>2, ExportHolds
  <1>4. Len(events) \in Nat /\ DOMAIN events = 1..Len(events)
    BY <1>2, ListFacts
  <1>5. /\ n \in 1..registry.to /\ registry.to \in Nat /\ n \in DOMAIN events
        /\ registry.to <= Len(events)
    BY <1>3, <1>4 DEF HasEvent
  <1> QED BY <1>1, <1>2, <1>3, <1>5, FirstSealIs

-----------------------------------------------------------------------------
(* What a receipt is worth that is shown.                                  *)

\* What may be shown of a receipt: whole, or with one thing wrong.
LEMMA DamagedIs ==
  ASSUME NEW r, DOMAIN r = ReceiptFields, r.document = TRUE, r.stream = "registry",
         r.keyId = "key", NEW s \in Damaged(r)
  PROVE  \/ s.document = FALSE \/ s.signed = FALSE \/ s.stream = "another"
         \/ s.sound = FALSE \/ s.keyId = "unknown"
         \/ s.keyId = "key" /\ s.signedAt = 2 * Horizon
  <1> DEFINE a == [r EXCEPT !.sound = FALSE]
             b == [r EXCEPT !.keyId = "unknown"]
             c == [r EXCEPT !.signedAt = 2 * Horizon]
  <1>1. Damaged(r) = Altered(r) \cup {a, b, c}
    BY DEF Damaged
  <1>2. a.sound = FALSE /\ b.keyId = "unknown" /\ c.keyId = "key" /\ c.signedAt = 2 * Horizon
    BY DEF ReceiptFields
  <1> HIDE DEF a, b, c
  <1>3. s \in Altered(r) \/ s = a \/ s = b \/ s = c
    BY <1>1
  <1> QED BY <1>2, <1>3, AlteredIs

\* A receipt that was not signed as it is does not hold on its own, unless it is
\* another registry's.
LEMMA OwnHolds ==
  ASSUME HistoryInv, NEW r, DOMAIN r = ReceiptFields, r.document = TRUE,
         r.stream = "registry", r.keyId = "key",
         NEW s \in {r} \cup Damaged(r), s.document,
         CheckReceipt(s, ReceiptKeySet(KeyEntries)) = <<>>
  PROVE  s = r \/ s.stream = "another"
  <1> DEFINE keys == ReceiptKeySet(KeyEntries)
  <1>1. /\ "key" \in DOMAIN keys /\ "unknown" \notin DOMAIN keys
        /\ keys["key"].retiredAt \in (Horizon + 1)..(2 * Horizon)
    BY KeysAssumption
  <1>2. Horizon \in Nat /\ None \notin Int
    BY RegistryAssumption
  <1> HIDE DEF keys
  <1>3. /\ ReceiptShape(s) /\ s.keyId \in DOMAIN keys /\ s.signed
        /\ InKeyWindow(s.signedAt, keys[s.keyId])
    BY DEF CheckReceipt, If, keys
  <1>4. s.sound
    BY <1>3 DEF ReceiptShape
  <1>5. ~(s.keyId = "key" /\ s.signedAt = 2 * Horizon)
    <2> SUFFICES ASSUME s.keyId = "key", s.signedAt = 2 * Horizon PROVE FALSE
      OBVIOUS
    <2>1. InKeyWindow(2 * Horizon, keys["key"])
      BY <1>3
    <2>2. keys["key"].retiredAt # None
      BY <1>1, <1>2
    <2>3. 2 * Horizon < keys["key"].retiredAt
      BY <2>1, <2>2 DEF InKeyWindow
    <2> QED BY <1>1, <1>2, <2>3
  <1> QED BY <1>1, <1>3, <1>4, <1>5, DamagedIs

\* A receipt that is checked and found to hold was logged, and sealed in time.
LEMMA PassingReceiptKept ==
  ASSUME HistoryInv, Shown, rule \in ShownModes, TheReceipt.document,
         CheckReceipt(TheReceipt, ReceiptKeySet(KeyEntries)) = <<>>,
         CheckSubject(TheReceipt, registry, log).checked,
         ToSet(CheckSubject(TheReceipt, registry, log).findings) = {}
  PROVE  /\ Gave("log")
         /\ \E i \in Answered(TheReceipt) :
              /\ Kept(requests[i])
              /\ requests[i].told = "accepted" => Gave("registry") /\ InRegistry(requests[i])
  <1> DEFINE k == Len(requests)
             q == requests[k]
             r == signed[k]
  <1>1. /\ k \in DOMAIN requests /\ k \in DOMAIN signed /\ k > 0
        /\ Last(signed) = r /\ RequestFits(q, r, records, events, now)
    <2>1. /\ IsList(signed) /\ IsList(requests) /\ Len(signed) = Len(requests)
          /\ \A i \in DOMAIN requests : RequestFits(requests[i], signed[i], records, events, now)
      BY DEF HistoryInv, RequestsKept, RequestKept
    <2>2. /\ Len(requests) \in Nat /\ DOMAIN requests = 1..Len(requests)
          /\ DOMAIN signed = 1..Len(requests)
      BY <2>1, ListFacts
    <2>3. Len(requests) > 0
      <3>1. signed # <<>> /\ signed \in Seq({signed[i] : i \in DOMAIN signed})
        BY <2>1 DEF Shown, IsList
      <3>2. Len(signed) # 0
        BY <3>1
      <3> QED BY <2>1, <2>2, <3>2
    <2> QED BY <2>1, <2>2, <2>3 DEF Last
  <1>2. /\ TheReceipt \in {r} \cup Damaged(r) /\ RegistryView /\ LogView
        /\ registry # Nothing \/ log # Nothing => TheReceipt.stream = "registry"
    BY <1>1 DEF Shown, RegistryView, LogView
  <1> DEFINE logged == HasEvent(log, TheReceipt.decisionSeq)
             there == TheReceipt.accepted # None
                       /\ HasEvent(registry, TheReceipt.accepted.sequence)
  <1>3. /\ logged \/ there
        /\ TheReceipt.decisionSeq # None => logged
        /\ TheReceipt.accepted # None => there
    BY SubjectChecked
  <1>4. ~LogDiffers(TheReceipt, log) /\ ~DeadlineMissed(TheReceipt, registry, log)
    BY SubjectFinds
  <1> HIDE DEF q, r
  <1>5. /\ DOMAIN r = ReceiptFields /\ r.document = TRUE /\ r.stream = "registry"
        /\ r.keyId = "key"
    BY <1>1 DEF RequestFits
  <1>6. TheReceipt = r
    <2>1. TheReceipt.stream = "registry"
      BY <1>2, <1>3, NothingThere
    <2> HIDE DEF TheReceipt
    <2> QED BY <1>2, <1>5, <2>1, OwnHolds
  <1>7. /\ r.decisionSeq \in Nat \ {0} /\ r.decisionSeq # None
        /\ q.record \in {None, r.decisionSeq} /\ q.at \in Nat /\ r.sealBy = q.at + MSD
        /\ r.outcome = q.told
    <2>1. now \in Nat /\ None \notin Int
      BY RegistryAssumption DEF HistoryInv, ServiceKept
    <2> QED BY <1>1, <2>1 DEF RequestFits
  <1> DEFINE d == r.decisionSeq
  <1>8. HasEvent(log, d)
    BY <1>3, <1>6, <1>7
  <1>9. /\ LogExport(log) /\ Gave("log")
        /\ d \in 1..log.to /\ log.to \in Nat /\ d \in DOMAIN records
        /\ log.events[d] = records[d] /\ SealsOf(log.checkpoints, d) # {}
        /\ FirstSealOf(log.checkpoints, d) = FirstSealOf(recordSeals, d)
    BY <1>2, <1>8, LogViewed
  <1>10. records[d].action = "ingress"
    BY <1>4, <1>6, <1>8, <1>9 DEF LogDiffers, SaysTheSame
  <1>11. q.record = d
    <2> SUFFICES ASSUME q.record = None PROVE FALSE
      BY <1>7
    <2>1. \A n \in DOMAIN records : n >= d => records[n].action # "ingress"
      BY <1>1 DEF HistoryInv, LastUnwritten, q, r
    <2> QED BY <1>7, <1>9, <1>10, <2>1
  <1>12. InLog(q)
    BY <1>7, <1>9, <1>11 DEF InLog
  <1>13. k \in Answered(TheReceipt)
    BY <1>1, <1>6 DEF Answered, r
  <1>14. CASE q.told # "accepted"
    <2>1. ~DeadlineOnEvent(r)
      BY <1>7, <1>14 DEF DeadlineOnEvent
    <2>2. ~SealLate(r, log, d)
      BY <1>4, <1>6, <2>1 DEF DeadlineMissed
    <2>3. FirstSealOf(recordSeals, d).createdAt <= q.at + MSD
      BY <1>7, <1>8, <1>9, <2>2 DEF SealLate, SealedBy
    <2>4. Kept(q)
      BY <1>11, <1>12, <1>14, <2>3 DEF Kept
    <2> QED BY <1>9, <1>13, <1>14, <2>4 DEF q
  <1>15. CASE q.told = "accepted"
    <2>1. PICK n \in 1..MaxRequests : /\ r.accepted = Acceptance(n, q.request, q.at)
                                      /\ q.event \in {None, n}
      BY <1>1, <1>15 DEF RequestFits
    <2>2. r.accepted.sequence = n /\ r.accepted # None
      <3>1. r.accepted \in {None} \cup AcceptancesMade /\ q.at \in 0..Horizon
            /\ q.request \in Requests
        <4>1. q.at \in 0..now /\ now \in 0..Horizon /\ Horizon \in Nat
          BY <1>1, RegistryAssumption DEF RequestFits, HistoryInv, ServiceKept
        <4>2. q.at \in 0..Horizon
          BY <4>1
        <4> QED BY <1>1, <4>2 DEF RequestFits
      <3>2. Acceptance(n, q.request, q.at) \in AcceptancesMade
        BY <3>1 DEF AcceptancesMade
      <3> QED BY <2>1, <3>2, RegistryAssumption DEF Acceptance
    <2>3. HasEvent(registry, n)
      BY <1>3, <1>6, <2>2
    <2>4. /\ Gave("registry") /\ n \in 1..registry.to /\ registry.to \in Nat
          /\ registry.to <= Len(events) /\ SealsOf(registry.checkpoints, n) # {}
          /\ FirstSealOf(registry.checkpoints, n) = FirstSealOf(eventSeals, n)
      BY <1>2, <2>3, RegistryViewed
    <2>5. q.event = n
      <3> SUFFICES ASSUME q.event = None PROVE FALSE
        BY <2>1
      <3>1. Len(events) < n
        BY <1>1, <1>15, <2>2 DEF HistoryInv, LastUnwritten, q, r
      <3>2. Len(events) \in Nat
        BY ListFacts DEF HistoryInv, StreamsKept
      <3> QED BY <2>4, <3>1, <3>2
    <2>6. n \in Int /\ n # None
      BY RegistryAssumption
    <2>7. InRegistry(q)
      BY <2>4, <2>5, <2>6 DEF InRegistry
    <2>8. DeadlineOnEvent(r)
      BY <1>7, <1>15, <2>2 DEF DeadlineOnEvent
    <2>9. ~SealLate(r, registry, n)
      BY <1>4, <1>6, <2>2, <2>8 DEF DeadlineMissed
    <2>10. FirstSealOf(eventSeals, n).createdAt <= q.at + MSD
      BY <1>7, <2>3, <2>4, <2>9 DEF SealLate, SealedBy
    <2>11. Kept(q)
      BY <1>12, <1>15, <2>5, <2>10 DEF Kept
    <2> QED BY <1>9, <1>13, <2>4, <2>7, <2>11 DEF q
  <1> QED BY <1>14, <1>15

\* What an honest service sealed, it sealed in time.
LEMMA SealedTimely ==
  ASSUME now \in Nat, NEW c, NEW stream, SealsLie(c, stream, now), SealedInTime(c, stream, now),
         NEW n \in Nat, NEW sealBy \in Nat, sealBy = stream[n].receivedAt + MSD,
         NEW i \in DOMAIN c, c[i].from <= n, n <= c[i].to
  PROVE  SealedBy(c[i], sealBy)
  <1>1. /\ c[i].from \in Nat /\ c[i].to \in Nat /\ c[i].createdAt \in 0..now
    BY DEF SealsLie
  <1>2. n \in c[i].from..c[i].to
    BY <1>1
  <1>3. c[i].createdAt <= stream[n].receivedAt + MSD
    BY <1>2 DEF SealedInTime
  <1> QED BY <1>1, <1>3 DEF SealedBy, Known, NoTime

\* A receipt as it was signed holds on its own.
LEMMA SignedHolds ==
  ASSUME HistoryInv, NEW q, NEW r, RequestFits(q, r, records, events, now)
  PROVE  CheckReceipt(r, ReceiptKeySet(KeyEntries)) = <<>>
  <1> DEFINE keys == ReceiptKeySet(KeyEntries)
  <1>1. /\ "key" \in DOMAIN keys /\ keys["key"].createdAt \in {None, 0}
        /\ keys["key"].retiredAt \in (Horizon + 1)..(2 * Horizon)
    BY KeysAssumption
  <1> HIDE DEF keys
  <1>2. /\ Horizon \in Nat /\ MSD \in Nat /\ now \in 0..Horizon
    BY RegistryAssumption, TimesAssumption DEF HistoryInv, ServiceKept
  <1>3. /\ r.sound = TRUE /\ r.signed = TRUE /\ r.keyId = "key"
        /\ q.at \in 0..now /\ r.receivedAt = q.at /\ r.signedAt = q.at
        /\ r.sealBy = q.at + MSD
    BY DEF RequestFits
  <1>4. q.at \in Nat /\ q.at < Horizon + 1
    BY <1>2, <1>3
  <1>5. ReceiptShape(r)
    BY <1>2, <1>3, <1>4 DEF ReceiptShape, Known, NoTime
  <1>6. InKeyWindow(q.at, keys["key"])
    BY <1>1, <1>2, <1>4 DEF InKeyWindow, Known, NoTime
  <1> QED BY <1>1, <1>3, <1>5, <1>6 DEF CheckReceipt, If, keys

\* The receipt of an honest service says what its records say.
LEMMA HonestSubject ==
  ASSUME HistoryInv, RegistryView, LogView, deviations = 0, NEW i \in DOMAIN signed
  PROVE  /\ CheckSubject(signed[i], registry, log).findings = <<>>
         /\ log.to = Len(records) /\ registry.to = Len(events)
              => CheckSubject(signed[i], registry, log).checked
  <1> DEFINE q == requests[i]
             r == signed[i]
             d == r.decisionSeq
             n == r.accepted.sequence
  <1>1. /\ RequestFits(q, r, records, events, now)
        /\ q.record # None
        /\ r.accepted # None => Stands(r.accepted, r.key, events)
        /\ r.outcome = "accepted" => events[n].receivedAt = r.receivedAt
    <2>1. i \in DOMAIN requests
      BY ListFacts DEF HistoryInv, RequestsKept
    <2> QED BY <2>1 DEF HistoryInv, RequestsKept, RequestKept, HonestSoFar
  <1>2. /\ now \in Nat /\ MSD \in Nat /\ None \notin Int
        /\ SealsLie(eventSeals, events, now) /\ SealsLie(recordSeals, records, now)
        /\ SealedInTime(eventSeals, events, now) /\ SealedInTime(recordSeals, records, now)
    BY RegistryAssumption, TimesAssumption DEF HistoryInv, ServiceKept, HonestSoFar
  <1>3. /\ Len(records) \in Nat /\ DOMAIN records = 1..Len(records)
        /\ Len(events) \in Nat /\ DOMAIN events = 1..Len(events)
    BY ListFacts DEF HistoryInv, StreamsKept
  <1> HIDE DEF q, r
  <1>4. /\ q.at \in Nat /\ r.receivedAt = q.at /\ r.sealBy = q.at + MSD
        /\ d \in Nat \ {0} /\ d # None /\ q.record = d
        /\ d \in DOMAIN records /\ SaysTheSame(records[d], r)
    BY <1>1, <1>2 DEF RequestFits
  <1>5. r.sealBy \in Nat /\ records[d].receivedAt = q.at
    BY <1>2, <1>4 DEF SaysTheSame
  <1>6. ~LogDiffers(r, log)
    <2> SUFFICES ASSUME HasEvent(log, d) PROVE SaysTheSame(log.events[d], r)
      BY DEF LogDiffers
    <2>1. log.events[d] = records[d]
      BY LogViewed
    <2> QED BY <1>4, <2>1
  <1>7. ASSUME r.accepted # None
        PROVE  /\ n \in DOMAIN events
               /\ ~EventDiffers(events[n], r)
    <2>1. /\ n \in DOMAIN events
          /\ r.accepted.entry = events[n].entry
          /\ r.accepted.digest = RequestDigest(events[n], r.key)
      BY <1>1, <1>7 DEF Stands
    <2> QED BY <1>1, <2>1 DEF EventDiffers
  <1>8. ~HeldDiffers(r, registry)
    <2> SUFFICES ASSUME r.accepted # None, HasEvent(registry, n)
                 PROVE  ~EventDiffers(registry.events[n], r)
      BY DEF HeldDiffers
    <2>1. registry.events[n] = events[n]
      BY RegistryViewed
    <2> QED BY <1>7, <2>1
  <1>9. ~SealLate(r, log, d)
    <2> SUFFICES ASSUME HasEvent(log, d)
                 PROVE  SealedBy(FirstSealOf(log.checkpoints, d), r.sealBy)
      BY DEF SealLate
    <2>1. PICK j \in DOMAIN recordSeals : /\ FirstSealOf(log.checkpoints, d) = recordSeals[j]
                                          /\ recordSeals[j].from <= d /\ d <= recordSeals[j].to
      BY LogViewed
    <2>2. r.sealBy = records[d].receivedAt + MSD
      BY <1>4, <1>5
    <2>3. SealedBy(recordSeals[j], r.sealBy)
      BY <1>2, <1>4, <1>5, <2>1, <2>2, SealedTimely
    <2> QED BY <2>1, <2>3
  <1>10. ASSUME DeadlineOnEvent(r) PROVE ~SealLate(r, registry, n)
    <2>1. r.accepted # None /\ r.outcome = "accepted"
      BY <1>4, <1>10 DEF DeadlineOnEvent
    <2> SUFFICES ASSUME HasEvent(registry, n)
                 PROVE  SealedBy(FirstSealOf(registry.checkpoints, n), r.sealBy)
      BY DEF SealLate
    <2>2. PICK j \in DOMAIN eventSeals :
             /\ FirstSealOf(registry.checkpoints, n) = eventSeals[j]
             /\ eventSeals[j].from <= n /\ n <= eventSeals[j].to
      BY RegistryViewed
    <2>3. r.sealBy = events[n].receivedAt + MSD /\ n \in Nat
      BY <1>1, <1>3, <1>4, <1>7, <2>1
    <2>4. SealedBy(eventSeals[j], r.sealBy)
      BY <1>2, <1>5, <2>2, <2>3, SealedTimely
    <2> QED BY <2>2, <2>4
  <1>11. ~DeadlineMissed(r, registry, log)
    BY <1>9, <1>10 DEF DeadlineMissed
  <1>12. CheckSubject(r, registry, log).findings = <<>>
    BY <1>6, <1>8, <1>11, SubjectFinds
  <1>13. ASSUME log.to = Len(records), registry.to = Len(events)
         PROVE  CheckSubject(r, registry, log).checked
    <2>1. HasEvent(log, d)
      <3>1. log # Nothing
        BY <1>3, <1>4, <1>13 DEF Nothing
      <3>2. IsExportOf(log, records, recordSeals)
        BY <3>1 DEF LogView, LogExport
      <3>3. DOMAIN log.events = 1..log.to
        BY <1>2, <3>2, ExportHolds DEF HistoryInv, StreamsKept
      <3> QED BY <1>3, <1>4, <1>13, <3>3 DEF HasEvent
    <2>2. r.accepted # None => HasEvent(registry, n)
      <3> HAVE r.accepted # None
      <3>1. registry # Nothing
        BY <1>3, <1>7, <1>13 DEF Nothing
      <3>2. IsExportOf(registry, events, eventSeals)
        BY <3>1 DEF RegistryView, RegistryExport
      <3>3. DOMAIN registry.events = 1..registry.to
        BY <1>2, <3>2, ExportHolds DEF HistoryInv, StreamsKept
      <3> QED BY <1>3, <1>7, <1>13, <3>3 DEF HasEvent
    <2>3. SealsOf(log.checkpoints, d) # {}
      BY <2>1, LogViewed
    <2>4. r.accepted # None => SealsOf(registry.checkpoints, n) # {}
      BY <2>2, RegistryViewed
    <2> QED BY <2>1, <2>2, <2>3, <2>4, SubjectChecked
  <1> QED BY <1>12, <1>13 DEF r

-----------------------------------------------------------------------------
(* The exports are taken, and a receipt is shown.                          *)

\* The exports of a history hold what they should.
LEMMA ExportsAre ==
  ASSUME HistoryInv
  PROVE  /\ \A b \in RegistryExports : RegistryExport(b)
         /\ \A b \in LogExports : LogExport(b)
  <1>1. /\ now \in 0..Horizon /\ Horizon \in Nat /\ SealGrace \in Nat
        /\ SealsLie(eventSeals, events, now) /\ SealsLie(recordSeals, records, now)
    BY RegistryAssumption, TimesAssumption DEF HistoryInv, ServiceKept
  <1>2. ASSUME NEW stream, NEW c, SealsLie(c, stream, now), NEW n \in DOMAIN c,
               NEW anchored, NEW id, NEW for
        PROVE  LET b == ExportTo(id, for, stream, c, n, anchored) IN
               b.publicId = id /\ b.logFor = for /\ IsExportOf(b, stream, c)
    <2> DEFINE b == ExportTo(id, for, stream, c, n, anchored)
    <2>1. /\ b.publicId = id /\ b.logFor = for /\ b.to = c[n].to
          /\ b.events = SubSeq(stream, 1, c[n].to)
          /\ b.checkpoints = SubSeq(c, 1, n)
          /\ b.anchoredAt = IF anchored THEN AnchorBy(c, n) ELSE NoTime
      BY DEF ExportTo
    <2> HIDE DEF b
    <2>2. DOMAIN c = 1..Len(c) /\ Len(c) \in Nat /\ \A i \in DOMAIN c : c[i].createdAt \in 0..now
      BY <1>2, ListFacts DEF SealsLie
    <2>3. AnchorBy(c, n) \in NoTime..(Horizon + SealGrace)
      <3>1. CASE n < Len(c)
        <4>1. n + 1 \in DOMAIN c /\ AnchorBy(c, n) = c[n + 1].createdAt + SealGrace - 1
          BY <2>2, <3>1 DEF AnchorBy
        <4>2. c[n + 1].createdAt \in 0..now
          BY <2>2, <4>1
        <4> QED BY <1>1, <4>1, <4>2 DEF NoTime
      <3>2. CASE ~(n < Len(c))
        BY <1>1, <3>2 DEF AnchorBy, NoTime
      <3> QED BY <3>1, <3>2
    <2>4. b.anchoredAt \in NoTime..(Horizon + SealGrace)
      BY <1>1, <2>1, <2>3 DEF NoTime
    <2>5. IsExportOf(b, stream, c)
      BY <2>1, <2>4 DEF IsExportOf
    <2> QED BY <2>1, <2>5 DEF b
  <1>3. ASSUME NEW b \in RegistryExports PROVE RegistryExport(b)
    <2>1. PICK n \in DOMAIN eventSeals, anchored \in BOOLEAN :
             b = ExportTo("registry", None, events, eventSeals, n, anchored)
      BY DEF RegistryExports
    <2> QED BY <1>1, <1>2, <2>1 DEF RegistryExport
  <1>4. ASSUME NEW b \in LogExports PROVE LogExport(b)
    <2>1. PICK n \in DOMAIN recordSeals, anchored \in BOOLEAN :
             b = ExportTo("log", "registry", records, recordSeals, n, anchored)
      BY DEF LogExports
    <2> QED BY <1>1, <1>2, <2>1 DEF LogExport
  <1> QED BY <1>3, <1>4

\* As long as no receipt is judged, nothing is promised of one.
LEMMA NotJudged ==
  ASSUME rule # "judged" PROVE CheckedReceiptIsKept /\ HonestReceiptHolds
  BY DEF CheckedReceiptIsKept, HonestReceiptHolds, Judged

\* At the start there is nothing to be explained.
LEMMA InitAudit == Init => AuditInv
  <1> SUFFICES ASSUME Init PROVE AuditInv
    OBVIOUS
  <1>1. /\ RegistryInit /\ NewRun /\ rule = "bundles" /\ next = 1
        /\ receipts = <<>> /\ ended = FALSE
    BY DEF Init, ReconcileInit
  <1>2. HistoryInv
    BY <1>1, InitHistory
  <1>3. results \in Verdicts /\ results["scope"] = "pass"
    BY <1>1 DEF NewRun, NewResults, Verdicts, States, Results
  <1>4. IsList(receipts)
    BY <1>1 DEF IsList
  <1>5. Reconciled /\ Shown /\ ScopeExplained /\ rule \in ReconcileModes
    BY <1>1, <1>3 DEF Reconciled, Shown, ScopeExplained, ShownModes, ReconcileModes
  <1>6. CheckedReceiptIsKept /\ HonestReceiptHolds
    BY <1>1, NotJudged
  <1> QED BY <1>1, <1>2, <1>3, <1>4, <1>5, <1>6 DEF AuditInv

\* While the history goes on, no run has begun.
LEMMA HistoryAudit ==
  ASSUME AuditInv, ~ended, RegistryNext, UNCHANGED <<receiptVars, ended, given>>
  PROVE  AuditInv'
  <1>1. /\ HistoryInv /\ rule = "bundles" /\ NewRun /\ IsList(receipts)
        /\ next \in Nat \ {0}
    BY DEF AuditInv
  <1>2. /\ registry' = registry /\ log' = log /\ receipts' = receipts
        /\ results' = results /\ reason' = reason
        /\ unconfirmedReason' = unconfirmedReason /\ rule' = rule /\ next' = next
        /\ ended' = ended
    BY DEF receiptVars, reconcileVars, inputs
  <1>3. HistoryInv'
    BY <1>1, HistoryStep
  <1>4. NewRun' /\ rule' = "bundles" /\ ~ended' /\ IsList(receipts') /\ next' \in Nat \ {0}
    BY <1>1, <1>2 DEF NewRun
  <1>5. results' \in Verdicts /\ results'["scope"] = "pass"
    BY <1>4 DEF NewRun, NewResults, Verdicts, States, Results
  <1>6. Reconciled' /\ Shown' /\ ScopeExplained' /\ rule' \in ReconcileModes
    BY <1>4, <1>5 DEF Reconciled, Shown, ScopeExplained, ShownModes, ReconcileModes
  <1>7. CheckedReceiptIsKept' /\ HonestReceiptHolds'
    BY <1>4 DEF CheckedReceiptIsKept, HonestReceiptHolds, Judged
  <1> QED BY <1>3, <1>4, <1>5, <1>6, <1>7 DEF AuditInv

\* An export of the log without its beginning is one all the same.
LEMMA CutExport ==
  ASSUME NEW l \in LogExports, LogExport(l)
  PROVE  LogExport([l EXCEPT !.from = 2])
  <1> DEFINE b == [l EXCEPT !.from = 2]
  <1>1. PICK n \in DOMAIN recordSeals, anchored \in BOOLEAN :
           l = ExportTo("log", "registry", records, recordSeals, n, anchored)
    BY DEF LogExports
  <1>2. DOMAIN l = {"publicId", "logFor", "from", "to", "events", "checkpoints", "anchoredAt"}
    BY <1>1 DEF ExportTo
  <1>3. /\ b.publicId = l.publicId /\ b.logFor = l.logFor /\ b.to = l.to
        /\ b.events = l.events /\ b.checkpoints = l.checkpoints
        /\ b.anchoredAt = l.anchoredAt
    BY <1>2
  <1> HIDE DEF b
  <1>4. LogExport(b)
    BY <1>3 DEF LogExport, IsExportOf
  <1> QED BY <1>4 DEF b

\* The receipts held are the ones signed, or with the first one altered.
LEMMA HoldingsAre ==
  ASSUME HistoryInv, NEW r, NEW l, NEW s \in Holdings(r, l)
  PROVE  IsList(s) /\ \A i \in DOMAIN s : IsHeld(s[i])
  <1>1. IsList(signed) /\ DOMAIN signed = 1..Len(signed) /\ Len(signed) \in Nat
    BY ListFacts DEF HistoryInv, RequestsKept
  <1>2. CASE s = signed
    BY <1>1, <1>2 DEF IsHeld
  <1>3. CASE s = <<>>
    BY <1>3 DEF IsList
  <1>4. CASE signed # <<>> /\ \E d \in Altered(signed[1]) : s = [signed EXCEPT ![1] = d]
    <2>1. PICK d \in Altered(signed[1]) : s = [signed EXCEPT ![1] = d]
      BY <1>4
    <2> DEFINE S == {signed[i] : i \in DOMAIN signed} \cup {d}
               T == {s[i] : i \in DOMAIN s}
    <2>2. signed \in Seq(S)
      <3>1. signed \in Seq({signed[i] : i \in DOMAIN signed})
        BY <1>1 DEF IsList
      <3> QED BY <3>1
    <2>3. 1 \in DOMAIN signed
      <3>1. Len(signed) # 0
        BY <1>4, <2>2
      <3> QED BY <1>1, <3>1
    <2> HIDE DEF S
    <2>4. /\ DOMAIN s = DOMAIN signed
          /\ s[1] = d /\ \A i \in DOMAIN signed : i # 1 => s[i] = signed[i]
      BY <1>1, <2>1, <2>3
    <2>5. s \in Seq(T)
      <3>1. s = [i \in 1..Len(signed) |-> s[i]]
        BY <1>1, <2>1
      <3>2. \A i \in 1..Len(signed) : s[i] \in T
        BY <1>1, <2>4
      <3> HIDE DEF T
      <3> QED BY <1>1, <3>1, <3>2
    <2>6. ASSUME NEW i \in DOMAIN s PROVE IsHeld(s[i])
      <3>1. CASE i = 1
        BY <2>1, <2>3, <2>4, <3>1 DEF IsHeld
      <3>2. CASE i # 1
        BY <2>4, <3>2 DEF IsHeld
      <3> QED BY <3>1, <3>2
    <2> QED BY <2>5, <2>6 DEF IsList
  <1>5. \/ s = signed \/ s = <<>>
        \/ signed # <<>> /\ \E d \in Altered(signed[1]) : s = [signed EXCEPT ![1] = d]
    <2> DEFINE whole == signed # <<>> /\ Whole(r, events) /\ Whole(l, records)
               first == {[signed EXCEPT ![1] = d] : d \in IF whole THEN Altered(signed[1]) ELSE {}}
               none == IF deviations > 0 THEN {<<>>} ELSE {}
    <2>1. Holdings(r, l) = {signed} \cup none \cup first
      BY DEF Holdings
    <2>2. none \subseteq {<<>>}
      OBVIOUS
    <2> HIDE DEF none
    <2>3. \A x \in first : signed # <<>> /\ \E d \in Altered(signed[1]) : x = [signed EXCEPT ![1] = d]
      OBVIOUS
    <2> HIDE DEF first
    <2> QED BY <2>1, <2>2, <2>3
  <1> QED BY <1>2, <1>3, <1>4, <1>5

\* The exports that are given to be reconciled.
LEMMA ExportAudit == AuditInv /\ Export => AuditInv'
  <1> SUFFICES ASSUME AuditInv, Export PROVE AuditInv'
    OBVIOUS
  <1>1. /\ HistoryInv /\ ~ended /\ rule = "bundles" /\ NewRun /\ next \in Nat \ {0}
    BY DEF AuditInv, Export, Ends
  <1>2. /\ UNCHANGED registryVars /\ ended' /\ receiptKeys' = ReceiptKeySet(KeyEntries)
        /\ results' = results /\ rule' = rule /\ next' = next
    BY DEF Export, Ends
  <1>3. /\ signed' = signed /\ events' = events /\ records' = records
        /\ eventSeals' = eventSeals /\ recordSeals' = recordSeals
    BY <1>2 DEF registryVars, streams, seals
  <1>4. HistoryInv'
    BY <1>1, <1>2, HistoryStep
  <1>5. PICK r \in RegistryExports, l \in LogExports :
           \/ /\ registry' = r /\ log' = l
              /\ receipts' \in Holdings(r, l)
           \/ /\ \/ registry' = l /\ log' = r
                 \/ registry' = r /\ log' = [l EXCEPT !.from = 2]
              /\ receipts' = <<>>
    BY DEF Export
  <1>6. RegistryExport(r) /\ LogExport(l)
    BY <1>1, ExportsAre
  <1>7. IsList(receipts') /\ \A i \in DOMAIN receipts' : IsHeld(receipts'[i])
    <2>1. CASE receipts' \in Holdings(r, l)
      BY <1>1, <2>1, HoldingsAre
    <2>2. CASE receipts' = <<>>
      BY <2>2 DEF IsList
    <2> QED BY <1>5, <2>1, <2>2
  <1>8. \A i \in DOMAIN receipts' : IsHeld(receipts[i])'
    BY <1>3, <1>7 DEF IsHeld
  <1>9. IsLogOf' => RegistryExport(registry)' /\ LogExport(log)'
    <2>1. CASE registry' = r /\ log' = l
      BY <1>3, <1>6, <2>1 DEF RegistryExport, LogExport
    <2>2. CASE registry' = r /\ log' = [l EXCEPT !.from = 2]
      <3>1. LogExport([l EXCEPT !.from = 2])
        BY <1>6, CutExport
      <3> QED BY <1>3, <1>6, <2>2, <3>1 DEF RegistryExport, LogExport
    <2>3. CASE registry' = l /\ log' = r
      <3>1. r.logFor = None /\ l.publicId = "log"
        BY <1>6 DEF RegistryExport, LogExport
      <3>2. None # "log"
        BY RegistryAssumption
      <3> QED BY <2>3, <3>1, <3>2 DEF IsLogOf
    <2> QED BY <1>5, <2>1, <2>2, <2>3
  <1>10. Reconciled'
    BY <1>1, <1>2, <1>8, <1>9 DEF Reconciled
  <1>11. results' \in Verdicts /\ results'["scope"] = "pass"
    BY <1>1, <1>2 DEF NewRun, NewResults, Verdicts, States, Results
  <1>12. Shown' /\ ScopeExplained' /\ rule' \in ReconcileModes
    BY <1>1, <1>2, <1>11 DEF Shown, ScopeExplained, ShownModes, ReconcileModes
  <1>13. CheckedReceiptIsKept' /\ HonestReceiptHolds'
    BY <1>1, <1>2 DEF CheckedReceiptIsKept, HonestReceiptHolds, Judged
  <1> QED BY <1>1, <1>2, <1>4, <1>7, <1>10, <1>11, <1>12, <1>13 DEF AuditInv

\* The exports and the receipt that are shown.
LEMMA ShowAudit == AuditInv /\ Show => AuditInv'
  <1> SUFFICES ASSUME AuditInv, Show PROVE AuditInv'
    OBVIOUS
  <1>1. /\ HistoryInv /\ ~ended /\ rule = "bundles" /\ NewRun /\ next \in Nat \ {0}
        /\ signed # <<>>
    BY DEF AuditInv, Show, Ends
  <1>2. /\ UNCHANGED registryVars /\ ended' /\ receiptKeys' = ReceiptKeySet(KeyEntries)
        /\ results' = results /\ reason' = reason /\ rule' = "receipt" /\ next' = next
        /\ registry' = Nothing /\ log' = Nothing /\ given' = targets'
    BY DEF Show, Ends
  <1>3. /\ signed' = signed /\ events' = events /\ records' = records
        /\ eventSeals' = eventSeals /\ recordSeals' = recordSeals
    BY <1>2 DEF registryVars, streams, seals
  <1>4. HistoryInv'
    BY <1>1, <1>2, HistoryStep
  <1>5. PICK r \in RegistryExports \cup {Nothing}, l \in LogExports :
           \/ receipts' = <<Last(signed)>> /\ targets' \in {<<>>, <<r>>, <<r, l>>, <<l, r>>}
           \/ /\ receipts' \in {<<d>> : d \in {Last(signed)} \cup Damaged(Last(signed))}
              /\ targets' = <<l>>
    BY DEF Show
  <1>6. \/ r = Nothing \/ RegistryExport(r)
    BY <1>1, ExportsAre
  <1>7. LogExport(l)
    BY <1>1, ExportsAre
  <1>8. PICK s \in {Last(signed)} \cup Damaged(Last(signed)) : receipts' = <<s>>
    BY <1>5
  <1>9. targets' \in {<<>>, <<r>>, <<r, l>>, <<l, r>>, <<l>>}
    BY <1>5
  <1>10. IsList(receipts') /\ receipts'[1] = s
    <2>1. DOMAIN <<s>> = 1..1 /\ <<s>>[1] = s
      OBVIOUS
    <2>2. <<s>> \in Seq({<<s>>[i] : i \in DOMAIN <<s>>})
      BY <2>1
    <2> QED BY <1>8, <2>1, <2>2 DEF IsList
  <1>11. IsList(targets') /\ \A i \in DOMAIN targets' : targets'[i] \in {r, l}
    <2> DEFINE t == targets'
    <2>1. t \in Seq({r, l})
      <3> DEFINE S == {r, l}
      <3>1. r \in S /\ l \in S
        OBVIOUS
      <3> HIDE DEF S
      <3>2. <<>> \in Seq(S) /\ <<r>> \in Seq(S) /\ <<l>> \in Seq(S)
        BY <3>1
      <3>3. <<r, l>> \in Seq(S) /\ <<l, r>> \in Seq(S)
        BY <3>1
      <3> QED BY <1>9, <3>2, <3>3 DEF S
    <2> HIDE DEF t
    <2>2. \A i \in DOMAIN t : t[i] \in {r, l}
      BY <2>1
    <2>3. t \in Seq({t[i] : i \in DOMAIN t})
      <3>1. Len(t) \in Nat /\ DOMAIN t = 1..Len(t) /\ t = [i \in 1..Len(t) |-> t[i]]
        BY <2>1
      <3> DEFINE T == {t[i] : i \in DOMAIN t}
      <3>2. \A i \in 1..Len(t) : t[i] \in T
        BY <3>1
      <3> HIDE DEF T
      <3>3. t \in Seq(T)
        BY <3>1, <3>2
      <3> QED BY <3>3 DEF T
    <2> QED BY <2>2, <2>3 DEF IsList, t
  <1>12. \A i \in DOMAIN given' :
           given'[i] = Nothing \/ RegistryExport(given[i])' \/ LogExport(given[i])'
    <2> TAKE i \in DOMAIN given'
    <2> DEFINE b == given'[i]
    <2>1. b = r \/ b = l
      BY <1>2, <1>11
    <2>2. b = Nothing \/ RegistryExport(b) \/ LogExport(b)
      BY <1>6, <1>7, <2>1
    <2>3. b = Nothing
          \/ (b.publicId = "registry" /\ b.logFor = None /\ IsExportOf(b, events, eventSeals))
          \/ (b.publicId = "log" /\ b.logFor = "registry" /\ IsExportOf(b, records, recordSeals))
      BY <2>2 DEF RegistryExport, LogExport
    <2> QED BY <1>3, <2>3 DEF RegistryExport, LogExport
  <1>13. results' = NewResults /\ reason' = NoReason
    BY <1>1, <1>2 DEF NewRun
  <1>14. TheReceipt' \in {Last(signed')} \cup Damaged(Last(signed'))
    BY <1>3, <1>8, <1>10 DEF TheReceipt
  <1>15. Shown'
    <2>1. IsList(given') /\ IsList(targets')
      BY <1>2, <1>11
    <2>2. \A i \in DOMAIN targets' : \E j \in DOMAIN given' : targets'[i] = given'[j]
      BY <1>2
    <2> QED BY <1>1, <1>2, <1>3, <1>12, <1>13, <1>14, <2>1, <2>2 DEF Shown
  <1>16. results' \in Verdicts /\ results'["scope"] = "pass"
    BY <1>13 DEF NewResults, Verdicts, States, Results
  <1>17. Reconciled' /\ ScopeExplained' /\ rule' \in ShownModes
    BY <1>2, <1>16 DEF Reconciled, ScopeExplained, ReconcileModes, ShownModes
  <1>18. CheckedReceiptIsKept' /\ HonestReceiptHolds'
    BY <1>2 DEF CheckedReceiptIsKept, HonestReceiptHolds, Judged
  <1> QED BY <1>1, <1>2, <1>4, <1>10, <1>15, <1>16, <1>17, <1>18 DEF AuditInv

\* A step of a reconciliation that says nothing but what is explained.
LEMMA ReconcilingStep ==
  ASSUME AuditInv, ended, UNCHANGED <<registryVars, ended, given, inputs>>,
         next' \in Nat \ {0}, rule \in ReconcileModes, rule' \in ReconcileModes,
         rule' \in {"rules", "receipts"} => IsLogOf /\ read' = ReadRegistryLog(log),
         NEW said, Explained(said), Hear(said)
  PROVE  AuditInv'
  <1>1. /\ HistoryInv /\ results \in Verdicts /\ ScopeExplained /\ Reconciled
        /\ receiptKeys = ReceiptKeySet(KeyEntries) /\ IsList(receipts)
    BY DEF AuditInv
  <1>2. /\ registry' = registry /\ log' = log /\ receipts' = receipts
        /\ receiptKeys' = receiptKeys /\ ended' = ended
        /\ signed' = signed /\ events' = events /\ records' = records
        /\ eventSeals' = eventSeals /\ recordSeals' = recordSeals /\ requests' = requests
    BY DEF inputs, registryVars, streams, seals
  <1>3. HistoryInv'
    BY <1>1, HistoryStep
  <1>4. results' \in Verdicts /\ ScopeExplained'
    BY <1>1, <1>2, HearsExplained
  <1>5. Reconciled'
    <2>1. \A i \in DOMAIN receipts : IsHeld(receipts[i])
      BY <1>1 DEF Reconciled
    <2>2. \A i \in DOMAIN receipts' : IsHeld(receipts[i])'
      BY <1>2, <2>1 DEF IsHeld
    <2>3. IsLogOf => RegistryExport(registry) /\ LogExport(log)
      BY <1>1 DEF Reconciled
    <2>4. IsLogOf' => RegistryExport(registry)' /\ LogExport(log)'
      BY <1>2, <2>3 DEF IsLogOf, RegistryExport, LogExport
    <2>5. rule' \in {"rules", "receipts"} => IsLogOf' /\ read' = ReadRegistryLog(log')
      BY <1>2 DEF IsLogOf
    <2> QED BY <2>2, <2>4, <2>5 DEF Reconciled
  <1>6. Shown' /\ CheckedReceiptIsKept' /\ HonestReceiptHolds'
    BY DEF Shown, CheckedReceiptIsKept, HonestReceiptHolds, Judged, ReconcileModes, ShownModes
  <1> QED BY <1>1, <1>2, <1>3, <1>4, <1>5, <1>6 DEF AuditInv

\* Every step of a reconciliation.
LEMMA ReconcilingAudit ==
  ASSUME AuditInv, ended, Reconciling, UNCHANGED <<registryVars, ended, given>>
  PROVE  AuditInv'
  <1>1. /\ HistoryInv /\ Reconciled /\ next \in Nat \ {0} /\ IsList(receipts)
    BY DEF AuditInv
  <1>2. /\ "BUNDLE" # NoReason /\ "NOT_DECISION_LOG" # NoReason /\ "LOG_NOT_DENSE" # NoReason
        /\ "NOT_TIME_ORDERED" # NoReason /\ "FIRST_NOT_POLICY" # NoReason
    BY DEF NoReason
  <1>3. CASE Unverified
    <2>1. PICK result \in Results : Step("bundles", "done", <<BundleFails(result)>>)
      BY <1>3 DEF Unverified
    <2>2. Explained(<<BundleFails(result)>>)
      BY QuietOnes, QuietBoth
    <2>3. /\ rule = "bundles" /\ rule' = "done" /\ UNCHANGED <<inputs, next>>
          /\ Hear(<<BundleFails(result)>>)
      BY <2>1 DEF Step
    <2> QED BY <1>1, <2>2, <2>3, ReconcilingStep DEF ReconcileModes
  <1>4. CASE NotDecisionLog
    <2>1. Explained(<<Failed("NOT_DECISION_LOG")>>)
      BY <1>2, QuietOnes, QuietBoth
    <2>2. /\ rule = "bundles" /\ rule' = "done" /\ UNCHANGED <<inputs, next>>
          /\ Hear(<<Failed("NOT_DECISION_LOG")>>)
      BY <1>4 DEF NotDecisionLog, Step
    <2> QED BY <1>1, <2>1, <2>2, ReconcilingStep DEF ReconcileModes
  <1>5. CASE ReadLog
    <2> DEFINE a == If(~Dense, Failed("LOG_NOT_DENSE"))
               b == If(~TimeOrdered(registry) \/ ~TimeOrdered(log), Failed("NOT_TIME_ORDERED"))
               c == If(~OpensOnPolicy, Failed("FIRST_NOT_POLICY"))
    <2>1. Quiet(a) /\ Quiet(b) /\ Quiet(c)
      BY <1>2, QuietOnes
    <2>2. /\ rule = "bundles" /\ rule' = "rules" /\ UNCHANGED <<inputs, next>>
          /\ IsLogOf /\ read' = ReadRegistryLog(log) /\ Hear(a \o b \o c)
      BY <1>5 DEF ReadLog, Step
    <2> HIDE DEF a, b, c
    <2>3. Quiet(a \o b)
      BY <2>1, QuietBoth
    <2>4. Explained((a \o b) \o c)
      BY <2>1, <2>3, QuietBoth
    <2> QED BY <1>1, <2>2, <2>4, ReconcilingStep DEF ReconcileModes
  <1>6. CASE Rules
    <2> DEFINE said == Policies \o Amendments \o Decisions \o AcceptedMatch \o ParentMatch
                         \o Double \o Closes \o Credentials
    <2>1. /\ rule = "rules" /\ rule' = "receipts" /\ UNCHANGED <<inputs, next>>
          /\ Hear(said) /\ read' = read
      BY <1>6 DEF Rules, Step
    <2>2. /\ IsLogOf /\ read = ReadRegistryLog(log)
          /\ RegistryExport(registry) /\ LogExport(log)
      BY <1>1, <2>1 DEF Reconciled, ReconcileModes
    <2>3. Explained(said)
      BY <1>1, <2>2, RulesExplained
    <2> HIDE DEF said
    <2> QED BY <1>1, <2>1, <2>2, <2>3, ReconcilingStep DEF ReconcileModes
  <1>7. CASE Receipt
    <2> DEFINE receipt == receipts[next]
    <2>1. /\ rule = "receipts" /\ next <= Len(receipts) /\ rule' = rule
          /\ next' = next + 1 /\ UNCHANGED inputs /\ read' = read
          /\ Hear(ReceiptFindings(receipt))
      BY <1>7 DEF Receipt
    <2>2. /\ IsLogOf /\ read = ReadRegistryLog(log)
          /\ RegistryExport(registry) /\ LogExport(log)
          /\ \A i \in DOMAIN receipts : IsHeld(receipts[i])
      BY <1>1, <2>1 DEF Reconciled, ReconcileModes
    <2>3. next \in DOMAIN receipts
      BY <1>1, <2>1, ListFacts
    <2>4. IsHeld(receipt)
      BY <2>2, <2>3
    <2>5. Explained(ReceiptFindings(receipt))
      BY <1>1, <2>2, <2>4, LaterReceipt
    <2>6. next' \in Nat \ {0}
      BY <1>1, <2>1
    <2> HIDE DEF receipt
    <2> QED BY <2>1, <2>2, <2>5, <2>6, ReconcilingStep DEF ReconcileModes
  <1>8. CASE Unreadable
    <2>1. Explained(<<>>)
      BY QuietOnes, QuietBoth
    <2>2. /\ rule \in ReconcileModes /\ rule' = "unread" /\ UNCHANGED <<inputs, next>>
          /\ Hear(<<>>)
      BY <1>8 DEF Unreadable, Step, ReconcileModes
    <2> QED BY <1>1, <2>1, <2>2, ReconcilingStep DEF ReconcileModes
  <1> QED BY <1>3, <1>4, <1>5, <1>6, <1>7, <1>8 DEF Reconciling, ReconcileNext

-----------------------------------------------------------------------------
(* A receipt is shown and judged.                                          *)

\* A step of a run that is shown a receipt.
LEMMA ShowingStep ==
  ASSUME AuditInv, ended, UNCHANGED <<registryVars, ended, given, receipts, receiptKeys, next>>,
         rule \in ShownModes, rule' \in ShownModes,
         results' \in Verdicts, ScopeExplained', CheckedReceiptIsKept', HonestReceiptHolds',
         IsList(targets'),
         \A i \in DOMAIN targets' : \E j \in DOMAIN targets : targets'[i] = targets[j],
         \/ registry' = registry
         \/ registry' \in {given[i] : i \in DOMAIN given} /\ TheReceipt.document
              /\ registry'.publicId = TheReceipt.stream /\ registry'.logFor # TheReceipt.stream,
         \/ log' = log
         \/ log' \in {given[i] : i \in DOMAIN given} /\ TheReceipt.document
              /\ log'.logFor = TheReceipt.stream,
         rule' # "judged" /\ TheReceipt.document =>
            reason' = "BUNDLE" \/ (reason' = NoReason /\ results' = NewResults)
  PROVE  AuditInv'
  <1>1. /\ HistoryInv /\ Shown /\ receiptKeys = ReceiptKeySet(KeyEntries) /\ IsList(receipts)
        /\ next \in Nat \ {0}
    BY DEF AuditInv
  <1>2. /\ receipts' = receipts /\ receiptKeys' = receiptKeys /\ ended' = ended
        /\ given' = given /\ next' = next
        /\ signed' = signed /\ events' = events /\ records' = records
        /\ eventSeals' = eventSeals /\ recordSeals' = recordSeals
    BY DEF registryVars, streams, seals
  <1>3. HistoryInv'
    BY <1>1, HistoryStep
  <1>4. /\ signed # <<>> /\ TheReceipt \in {Last(signed)} \cup Damaged(Last(signed))
        /\ IsList(given)
        /\ \A i \in DOMAIN targets : \E j \in DOMAIN given : targets[i] = given[j]
        /\ \A i \in DOMAIN given :
             given[i] = Nothing \/ RegistryExport(given[i]) \/ LogExport(given[i])
        /\ registry = Nothing \/ (RegistryExport(registry) /\ Gave("registry")
                                    /\ TheReceipt.stream = "registry")
        /\ log = Nothing \/ (LogExport(log) /\ Gave("log") /\ TheReceipt.stream = "registry")
    BY <1>1 DEF Shown
  <1>5. TheReceipt' = TheReceipt
    BY <1>2 DEF TheReceipt
  <1>6. TheReceipt.document => TheReceipt.stream \in {"registry", "another"}
    <2> DEFINE r == Last(signed)
    <2>1. \E i \in DOMAIN signed : r = signed[i] /\ RequestFits(requests[i], r, records, events, now)
      <3>1. /\ IsList(signed) /\ DOMAIN signed = 1..Len(signed) /\ Len(signed) \in Nat
            /\ DOMAIN requests = 1..Len(signed)
            /\ \A i \in DOMAIN requests : RequestFits(requests[i], signed[i], records, events, now)
        BY <1>1, ListFacts DEF HistoryInv, RequestsKept, RequestKept
      <3>2. Len(signed) # 0
        BY <1>4, <3>1 DEF IsList
      <3>3. Len(signed) \in DOMAIN signed /\ r = signed[Len(signed)]
        BY <3>1, <3>2 DEF Last
      <3> QED BY <3>1, <3>3
    <2> HIDE DEF r
    <2>2. DOMAIN r = ReceiptFields /\ r.document = TRUE /\ r.stream = "registry"
      BY <2>1 DEF RequestFits
    <2> DEFINE a == [r EXCEPT !.document = FALSE]
               b == [r EXCEPT !.signed = FALSE, !.decisionSeq = @ + 1]
               c == [r EXCEPT !.stream = "another", !.decisionSeq = @ + 1]
               d == [r EXCEPT !.sound = FALSE]
               e == [r EXCEPT !.keyId = "unknown"]
               f == [r EXCEPT !.signedAt = 2 * Horizon]
    <2>3. Damaged(r) = {a, b, c} \cup {d, e, f}
      BY DEF Damaged, Altered
    <2>4. /\ b.stream = "registry" /\ c.stream = "another" /\ d.stream = "registry"
          /\ e.stream = "registry" /\ f.stream = "registry" /\ a.document = FALSE
      BY <2>2 DEF ReceiptFields
    <2> HIDE DEF a, b, c, d, e, f
    <2>5. TheReceipt = r \/ TheReceipt = a \/ TheReceipt = b \/ TheReceipt = c
          \/ TheReceipt = d \/ TheReceipt = e \/ TheReceipt = f
      BY <1>4, <2>3 DEF r
    <2> HIDE DEF TheReceipt
    <2> QED BY <2>2, <2>4, <2>5
  <1>7. None \notin {"registry", "another"}
    BY RegistryAssumption
  <1>8. \/ registry' = Nothing
        \/ RegistryExport(registry)' /\ Gave("registry")' /\ TheReceipt'.stream = "registry"
    <2>1. CASE registry' = registry
      BY <1>2, <1>4, <1>5, <2>1 DEF RegistryExport, Gave
    <2>2. CASE registry' # registry
      <3>1. PICK i \in DOMAIN given : registry' = given[i]
        BY <2>2
      <3>2. /\ TheReceipt.document /\ given[i].publicId = TheReceipt.stream
            /\ given[i].logFor # TheReceipt.stream
        BY <2>2, <3>1
      <3>3. TheReceipt.stream \in {"registry", "another"}
        BY <1>6, <3>2
      <3>4. given[i] = Nothing \/ RegistryExport(given[i]) \/ LogExport(given[i])
        BY <1>4
      <3>5. given[i] # Nothing => RegistryExport(given[i]) /\ TheReceipt.stream = "registry"
        BY <3>2, <3>3, <3>4 DEF RegistryExport, LogExport
      <3>6. given[i] # Nothing => Gave("registry")
        BY <3>5 DEF Gave, RegistryExport
      <3> HIDE DEF TheReceipt
      <3> QED BY <1>2, <1>5, <3>1, <3>5, <3>6 DEF RegistryExport, Gave
    <2> QED BY <2>1, <2>2
  <1>9. \/ log' = Nothing
        \/ LogExport(log)' /\ Gave("log")' /\ TheReceipt'.stream = "registry"
    <2>1. CASE log' = log
      BY <1>2, <1>4, <1>5, <2>1 DEF LogExport, Gave
    <2>2. CASE log' # log
      <3>1. PICK i \in DOMAIN given : log' = given[i]
        BY <2>2
      <3>2. TheReceipt.document /\ given[i].logFor = TheReceipt.stream
        BY <2>2, <3>1
      <3>3. TheReceipt.stream \in {"registry", "another"}
        BY <1>6, <3>2
      <3>4. given[i] = Nothing \/ RegistryExport(given[i]) \/ LogExport(given[i])
        BY <1>4
      <3>5. given[i] # Nothing => LogExport(given[i]) /\ TheReceipt.stream = "registry"
        <4>1. CASE RegistryExport(given[i])
          <5>1. given[i].logFor = None
            BY <4>1 DEF RegistryExport
          <5> QED BY <1>7, <3>2, <3>3, <5>1
        <4>2. CASE LogExport(given[i])
          BY <3>2, <4>2 DEF LogExport
        <4> QED BY <3>4, <4>1, <4>2
      <3>6. given[i] # Nothing => Gave("log")
        BY <3>5 DEF Gave, LogExport
      <3> HIDE DEF TheReceipt
      <3> QED BY <1>2, <1>5, <3>1, <3>5, <3>6 DEF LogExport, Gave
    <2> QED BY <2>1, <2>2
  <1>10. Shown'
    <2>1. IsList(given') /\ IsList(targets')
      BY <1>2, <1>4
    <2>2. \A i \in DOMAIN targets' : \E j \in DOMAIN given' : targets'[i] = given'[j]
      BY <1>2, <1>4
    <2>3. \A i \in DOMAIN given' :
             given'[i] = Nothing \/ RegistryExport(given[i])' \/ LogExport(given[i])'
      BY <1>2, <1>4 DEF RegistryExport, LogExport
    <2>4. signed' # <<>> /\ TheReceipt' \in {Last(signed')} \cup Damaged(Last(signed'))
      BY <1>2, <1>4, <1>5
    <2>5. rule' # "judged" /\ TheReceipt'.document =>
             reason' = "BUNDLE" \/ (reason' = NoReason /\ results' = NewResults)
      BY <1>5
    <2>6. ended'
      BY <1>2
    <2> QED BY <1>8, <1>9, <2>1, <2>2, <2>3, <2>4, <2>5, <2>6 DEF Shown
  <1>11. Reconciled' /\ rule' \in ShownModes
    BY DEF Reconciled, ReconcileModes, ShownModes
  <1> QED BY <1>1, <1>2, <1>3, <1>10, <1>11 DEF AuditInv

\* A list without its first element.
LEMMA TailIs ==
  ASSUME NEW s, IsList(s), s # <<>>
  PROVE  /\ IsList(Tail(s)) /\ 1 \in DOMAIN s /\ Head(s) = s[1]
         /\ \A i \in DOMAIN Tail(s) : \E j \in DOMAIN s : Tail(s)[i] = s[j]
  <1> DEFINE S == {s[i] : i \in DOMAIN s}
             t == Tail(s)
  <1>1. s \in Seq(S) /\ Len(s) \in Nat /\ DOMAIN s = 1..Len(s)
    BY ListFacts DEF IsList
  <1> HIDE DEF S
  <1>2. Len(s) > 0
    BY <1>1
  <1>3. /\ t \in Seq(S) /\ Len(t) = Len(s) - 1 /\ DOMAIN t = 1..(Len(s) - 1)
        /\ \A i \in 1..(Len(s) - 1) : t[i] = s[i + 1]
    BY <1>1, <1>2
  <1> HIDE DEF t
  <1>4. \A i \in DOMAIN t : \E j \in DOMAIN s : t[i] = s[j]
    <2> TAKE i \in DOMAIN t
    <2>1. i + 1 \in DOMAIN s
      BY <1>1, <1>3
    <2> QED BY <1>3, <2>1
  <1>5. IsList(t)
    <2> DEFINE T == {t[i] : i \in DOMAIN t}
               n == Len(s) - 1
    <2>1. n \in Nat /\ DOMAIN t = 1..n /\ t = [i \in 1..n |-> t[i]]
      BY <1>1, <1>2, <1>3
    <2>2. \A i \in 1..n : t[i] \in T
      BY <2>1
    <2> HIDE DEF T, n
    <2>3. t \in Seq(T)
      BY <2>1, <2>2
    <2> QED BY <2>3 DEF T, IsList
  <1>6. 1 \in DOMAIN s /\ Head(s) = s[1]
    BY <1>1, <1>2
  <1> QED BY <1>4, <1>5, <1>6 DEF t

\* The receipt is read, and the bundles are verified.
LEMMA ShowingAudit ==
  ASSUME AuditInv, ended, InputUnreadable \/ ReadReceipt \/ TargetFails \/ TargetVerifies,
         UNCHANGED <<registryVars, ended, given>>
  PROVE  AuditInv'
  <1>1. HistoryInv /\ Shown /\ results \in Verdicts /\ ScopeExplained
    BY DEF AuditInv
  <1>2. "RECEIPT_SHAPE" # NoReason /\ "BUNDLE" # NoReason
    BY DEF NoReason
  <1>3. CASE ReadReceipt
    <2> DEFINE said == If(~TheReceipt.document, Failed("RECEIPT_SHAPE"))
    <2>1. /\ rule = "receipt" /\ rule' = "targets" /\ Hear(said)
          /\ UNCHANGED <<inputs, next>> /\ targets' = targets
      BY <1>3 DEF ReadReceipt, Step
    <2>2. Quiet(said)
      BY <1>2, QuietOnes
    <2>3. TheReceipt.document => said = <<>>
      BY DEF If
    <2> HIDE DEF said
    <2>4. rule \notin ReconcileModes
      BY <2>1 DEF ReconcileModes
    <2>5. /\ results' \in Verdicts /\ ScopeExplained'
          /\ said = <<>> => results' = results /\ reason' = reason
      BY <1>1, <2>1, <2>2, <2>4, HearsQuiet
    <2>6. /\ TheReceipt.document => reason = "BUNDLE" \/ (reason = NoReason /\ results = NewResults)
          /\ IsList(targets)
      BY <1>1, <2>1 DEF Shown, ShownModes
    <2>7. CheckedReceiptIsKept' /\ HonestReceiptHolds'
      BY <2>1 DEF CheckedReceiptIsKept, HonestReceiptHolds, Judged
    <2>8. registry' = registry /\ log' = log /\ receipts' = receipts /\ receiptKeys' = receiptKeys
      BY <2>1 DEF inputs
    <2>9. \A i \in DOMAIN targets' : \E j \in DOMAIN targets : targets'[i] = targets[j]
      BY <2>1
    <2>10. rule \in ShownModes /\ rule' \in ShownModes
      BY <2>1 DEF ShownModes
    <2>11. TheReceipt.document => reason' = "BUNDLE" \/ (reason' = NoReason /\ results' = NewResults)
      BY <2>3, <2>5, <2>6
    <2>12. IsList(targets')
      BY <2>1, <2>6
    <2> HIDE DEF TheReceipt
    <2> QED BY <2>1, <2>5, <2>7, <2>8, <2>9, <2>10, <2>11, <2>12, ShowingStep
  <1>4. CASE TargetFails
    <2>0. PICK result \in Results : Step("targets", "targets", <<BundleFails(result)>>)
      BY <1>4 DEF TargetFails
    <2> DEFINE said == <<BundleFails(result)>>
    <2>1. /\ rule = "targets" /\ rule' = "targets" /\ Hear(said)
          /\ UNCHANGED <<inputs, next>> /\ targets # <<>> /\ targets' = Tail(targets)
      BY <1>4, <2>0 DEF TargetFails, Step
    <2>2. Quiet(said)
      BY QuietOnes
    <2>3. /\ BundleFails(result).state = "fail" /\ BundleFails(result).code = "BUNDLE"
          /\ BundleFails(result).result \in Results
      BY DEF BundleFails, Finding
    <2>4. reason = NoReason => reason' = "BUNDLE"
      <3> DEFINE f == BundleFails(result)
      <3> HIDE DEF f
      <3>1. Hear(<<f>>) /\ f.state = "fail" /\ f.code = "BUNDLE" /\ f.result \in Results
        BY <2>1, <2>3 DEF f
      <3> QED BY <1>1, <3>1, HearsFirst
    <2> HIDE DEF said
    <2>5. rule \notin ReconcileModes
      BY <2>1 DEF ReconcileModes
    <2>6. /\ results' \in Verdicts /\ ScopeExplained'
          /\ reason # NoReason => reason' = reason
      BY <1>1, <2>1, <2>2, <2>5, HearsQuiet
    <2>7. /\ TheReceipt.document => reason = "BUNDLE" \/ reason = NoReason
          /\ IsList(targets)
      BY <1>1, <2>1 DEF Shown, ShownModes
    <2>8. CheckedReceiptIsKept' /\ HonestReceiptHolds'
      BY <2>1 DEF CheckedReceiptIsKept, HonestReceiptHolds, Judged
    <2>9. registry' = registry /\ log' = log /\ receipts' = receipts /\ receiptKeys' = receiptKeys
      BY <2>1 DEF inputs
    <2>10. /\ IsList(targets')
           /\ \A i \in DOMAIN targets' : \E j \in DOMAIN targets : targets'[i] = targets[j]
      BY <2>1, <2>7, TailIs
    <2>11. rule \in ShownModes /\ rule' \in ShownModes
      BY <2>1 DEF ShownModes
    <2>12. TheReceipt.document => reason' = "BUNDLE"
      BY <1>2, <2>4, <2>6, <2>7
    <2> HIDE DEF TheReceipt
    <2> QED BY <2>1, <2>6, <2>8, <2>9, <2>10, <2>11, <2>12, ShowingStep
  <1>5. CASE TargetVerifies
    <2> DEFINE bundle == Head(targets)
    <2>1. /\ rule = "targets" /\ targets # <<>> /\ targets' = Tail(targets)
          /\ receipts' = receipts /\ receiptKeys' = receiptKeys /\ next' = next
          /\ results' = results /\ reason' = reason
          /\ \/ /\ TheReceipt.document /\ bundle.logFor = TheReceipt.stream
                /\ log' = bundle /\ registry' = registry /\ rule' = rule
             \/ /\ TheReceipt.document /\ bundle.publicId = TheReceipt.stream
                /\ bundle.logFor # TheReceipt.stream
                /\ registry' = bundle /\ log' = log /\ rule' = rule
             \/ rule' = "error" /\ registry' = registry /\ log' = log
      BY <1>5 DEF TargetVerifies, IsReceiptsLog, IsReceiptsStream
    <2>2. /\ TheReceipt.document => reason = "BUNDLE" \/ (reason = NoReason /\ results = NewResults)
          /\ IsList(targets)
          /\ \A i \in DOMAIN targets : \E j \in DOMAIN given : targets[i] = given[j]
      BY <1>1, <2>1 DEF Shown, ShownModes
    <2>3. /\ IsList(targets') /\ 1 \in DOMAIN targets /\ bundle = targets[1]
          /\ \A i \in DOMAIN targets' : \E j \in DOMAIN targets : targets'[i] = targets[j]
      BY <2>1, <2>2, TailIs
    <2>4. bundle \in {given[i] : i \in DOMAIN given}
      BY <2>2, <2>3
    <2> HIDE DEF bundle
    <2>5. rule \in ShownModes /\ rule' \in ShownModes /\ rule' # "judged"
          /\ rule \notin ReconcileModes /\ rule' \notin ReconcileModes
      BY <2>1 DEF ShownModes, ReconcileModes
    <2>6. CheckedReceiptIsKept' /\ HonestReceiptHolds'
      BY <2>5 DEF CheckedReceiptIsKept, HonestReceiptHolds, Judged
    <2>7. ScopeExplained'
      BY <1>1, <2>1, <2>5 DEF ScopeExplained
    <2>8. results' \in Verdicts
      BY <1>1, <2>1
    <2>9. TheReceipt.document => reason' = "BUNDLE" \/ (reason' = NoReason /\ results' = NewResults)
      BY <2>1, <2>2
    <2>10. \/ registry' = registry
           \/ registry' \in {given[i] : i \in DOMAIN given} /\ TheReceipt.document
                /\ registry'.publicId = TheReceipt.stream /\ registry'.logFor # TheReceipt.stream
      BY <2>1, <2>4
    <2>11. \/ log' = log
           \/ log' \in {given[i] : i \in DOMAIN given} /\ TheReceipt.document
                /\ log'.logFor = TheReceipt.stream
      BY <2>1, <2>4
    <2> HIDE DEF TheReceipt
    <2> QED BY <2>1, <2>3, <2>5, <2>6, <2>7, <2>8, <2>9, <2>10, <2>11, ShowingStep
  <1>6. CASE InputUnreadable
    <2>1. /\ rule \in {"receipt", "targets"} /\ rule' = "error"
          /\ Hear(<<>>) /\ UNCHANGED <<inputs, next>> /\ targets' = targets
      BY <1>6 DEF InputUnreadable, Step
    <2>2. /\ rule \in ShownModes /\ rule' \in ShownModes /\ rule' # "judged"
          /\ rule \notin ReconcileModes /\ rule' \notin ReconcileModes
      BY <2>1 DEF ShownModes, ReconcileModes
    <2>3. /\ TheReceipt.document => reason = "BUNDLE" \/ (reason = NoReason /\ results = NewResults)
          /\ IsList(targets)
      BY <1>1, <2>1, <2>2 DEF Shown
    <2>4. CheckedReceiptIsKept' /\ HonestReceiptHolds'
      BY <2>2 DEF CheckedReceiptIsKept, HonestReceiptHolds, Judged
    <2>5. /\ results' \in Verdicts /\ ScopeExplained'
          /\ results' = results /\ reason' = reason
      BY <1>1, <2>1, <2>2, QuietOnes, HearsQuiet
    <2>6. registry' = registry /\ log' = log /\ receipts' = receipts /\ receiptKeys' = receiptKeys
      BY <2>1 DEF inputs
    <2>7. \A i \in DOMAIN targets' : \E j \in DOMAIN targets : targets'[i] = targets[j]
      BY <2>1
    <2>8. TheReceipt.document => reason' = "BUNDLE" \/ (reason' = NoReason /\ results' = NewResults)
      BY <2>3, <2>5
    <2>9. IsList(targets')
      BY <2>1, <2>3
    <2> HIDE DEF TheReceipt
    <2> QED BY <2>1, <2>2, <2>4, <2>5, <2>6, <2>7, <2>8, <2>9, ShowingStep
  <1> QED BY <1>3, <1>4, <1>5, <1>6

\* The receipt is judged: what is said of it is never more than is known.
LEMMA JudgeAudit ==
  ASSUME AuditInv, ended, JudgeReceipt(given # <<>>), UNCHANGED <<registryVars, ended, given>>
  PROVE  AuditInv'
  <1> DEFINE own == IF TheReceipt.document THEN CheckReceipt(TheReceipt, receiptKeys) ELSE <<>>
             findings0 == CheckSubject(TheReceipt, registry, log).findings
             checked == CheckSubject(TheReceipt, registry, log).checked
             compared == given # <<>> /\ TheReceipt.document /\ own = <<>>
             more == IF compared THEN findings0 ELSE <<>>
             said == own \o more
  <1>1. /\ HistoryInv /\ Shown /\ results \in Verdicts /\ ScopeExplained
        /\ receiptKeys = ReceiptKeySet(KeyEntries)
    BY DEF AuditInv
  <1>2. /\ targets = <<>> /\ rule = "targets" /\ rule' = "judged" /\ Hear(said)
        /\ UNCHANGED <<inputs, next>> /\ targets' = targets
        /\ subject' = IF compared /\ checked THEN "checked" ELSE "not_checked"
    BY DEF JudgeReceipt, Step
  <1>3. /\ rule \in ShownModes /\ rule' \in ShownModes /\ rule # "judged"
        /\ rule \notin ReconcileModes
    BY <1>2 DEF ShownModes, ReconcileModes
  <1>4. Quiet(own) /\ Quiet(findings0) /\ Quiet(more)
    BY OwnQuiet, SubjectQuiet, QuietOnes
  <1>5. /\ TheReceipt.document /\ CheckReceipt(TheReceipt, ReceiptKeySet(KeyEntries)) = <<>>
             <=> TheReceipt.document /\ own = <<>>
    BY <1>1
  <1>6. /\ registry' = registry /\ log' = log /\ receipts' = receipts
        /\ receiptKeys' = receiptKeys /\ next' = next /\ given' = given /\ ended' = ended
        /\ signed' = signed /\ requests' = requests /\ events' = events /\ records' = records
        /\ eventSeals' = eventSeals /\ recordSeals' = recordSeals /\ deviations' = deviations
    BY <1>2 DEF inputs, registryVars, streams, seals, service
  <1>7. TheReceipt' = TheReceipt
    BY <1>6 DEF TheReceipt
  <1>8. /\ TheReceipt.document => reason = "BUNDLE" \/ (reason = NoReason /\ results = NewResults)
        /\ RegistryView /\ LogView /\ IsList(targets)
    BY <1>1, <1>2, <1>3 DEF Shown, RegistryView, LogView
  <1> HIDE DEF own, findings0, checked
  <1>9. compared => TheReceipt.document /\ own = <<>> /\ more = findings0
    OBVIOUS
  <1>10. own = <<>> /\ more = <<>> => said = <<>>
    OBVIOUS
  <1>11. given # <<>> /\ TheReceipt.document /\ own = <<>> => compared
    OBVIOUS
  <1>12. ~compared \/ findings0 = <<>> => more = <<>>
    OBVIOUS
  <1>13. Quiet(said) /\ ToSet(said) = ToSet(own) \cup ToSet(more)
    BY <1>4, QuietBoth, BothSay DEF Quiet
  <1> HIDE DEF said, more, compared
  <1>14. /\ results' \in Verdicts /\ ScopeExplained'
         /\ reason # NoReason => reason' = reason
         /\ said = <<>> => results' = results /\ reason' = reason
    BY <1>1, <1>2, <1>3, <1>13, HearsQuiet
  <1>15. CheckedReceiptIsKept'
    <2> SUFFICES ASSUME ExitCode(results') = ExitPass, subject' = "checked"
                 PROVE  /\ Gave("log")'
                        /\ \E i \in Answered(TheReceipt)' :
                             /\ Kept(requests[i])'
                             /\ requests'[i].told = "accepted" =>
                                  Gave("registry")' /\ InRegistry(requests[i])'
      BY DEF CheckedReceiptIsKept
    <2>1. compared /\ checked
      BY <1>2
    <2>2. ToSet(said) = {}
      BY <1>1, <1>2, <1>13, PassHeardNothing DEF Quiet
    <2>3. /\ TheReceipt.document /\ ToSet(findings0) = {}
          /\ CheckReceipt(TheReceipt, ReceiptKeySet(KeyEntries)) = <<>>
      BY <1>5, <1>9, <1>13, <2>1, <2>2
    <2>4. /\ Gave("log")
          /\ \E i \in Answered(TheReceipt) :
               /\ Kept(requests[i])
               /\ requests[i].told = "accepted" => Gave("registry") /\ InRegistry(requests[i])
      BY <1>1, <1>3, <2>1, <2>3, PassingReceiptKept DEF checked, findings0
    <2>5. Gave("log") = Gave("log")' /\ Gave("registry") = Gave("registry")'
      BY <1>6 DEF Gave
    <2>6. \A i : Kept(requests[i]) => Kept(requests[i])'
      BY <1>6 DEF Kept, InLog
    <2>7. \A i : InRegistry(requests[i]) => InRegistry(requests[i])'
      BY <1>6 DEF InRegistry
    <2>8. Answered(TheReceipt)' = Answered(TheReceipt)
      BY <1>6, <1>7 DEF Answered
    <2> HIDE DEF TheReceipt
    <2> QED BY <1>6, <2>4, <2>5, <2>6, <2>7, <2>8
  <1>16. HonestReceiptHolds'
    <2> SUFFICES ASSUME deviations' = 0, Answered(TheReceipt)' # {}, reason' # "BUNDLE"
                 PROVE  /\ ExitCode(results') = ExitPass
                        /\ Len(given') = 2 /\ log'.to = Len(records') /\ registry'.to = Len(events')
                              => subject' = "checked"
      BY DEF HonestReceiptHolds
    <2>1. PICK i \in DOMAIN signed : signed[i] = TheReceipt
      BY <1>6, <1>7 DEF Answered
    <2>2. RequestFits(requests[i], signed[i], records, events, now)
      <3>1. i \in DOMAIN requests
        BY <1>1, ListFacts DEF HistoryInv, RequestsKept
      <3> QED BY <1>1, <3>1 DEF HistoryInv, RequestsKept, RequestKept
    <2>3. /\ signed[i].document
          /\ CheckReceipt(signed[i], ReceiptKeySet(KeyEntries)) = <<>>
      BY <1>1, <2>2, SignedHolds DEF RequestFits
    <2>4. TheReceipt.document /\ own = <<>>
      <3>1. TheReceipt.document /\ CheckReceipt(TheReceipt, ReceiptKeySet(KeyEntries)) = <<>>
        BY <2>1, <2>3
      <3> QED BY <1>5, <3>1
    <2>5. /\ CheckSubject(signed[i], registry, log).findings = <<>>
          /\ log.to = Len(records) /\ registry.to = Len(events)
               => CheckSubject(signed[i], registry, log).checked
      BY <1>1, <1>6, <1>8, HonestSubject
    <2>6. findings0 = <<>> /\ (log.to = Len(records) /\ registry.to = Len(events) => checked)
      BY <2>1, <2>5 DEF findings0, checked
    <2>7. results' = NewResults
      <3>1. said = <<>>
        BY <1>10, <1>12, <2>4, <2>6
      <3>2. results' = results /\ reason' = reason
        BY <1>14, <3>1
      <3> QED BY <1>8, <2>4, <3>2
    <2>8. ExitCode(results') = ExitPass
      <3>1. ~Some(results', "fail") /\ ~Some(results', "unconfirmed")
        BY <2>7 DEF Some, NewResults
      <3> QED BY <3>1 DEF ExitCode
    <2>9. Len(given) = 2 => given # <<>>
      OBVIOUS
    <2> HIDE DEF TheReceipt
    <2> QED BY <1>2, <1>6, <1>11, <2>4, <2>6, <2>8, <2>9
  <1>17. /\ IsList(targets')
         /\ \A i \in DOMAIN targets' : \E j \in DOMAIN targets : targets'[i] = targets[j]
    BY <1>2, <1>8
  <1>18. rule' # "judged" /\ TheReceipt.document =>
            reason' = "BUNDLE" \/ (reason' = NoReason /\ results' = NewResults)
    BY <1>2
  <1> HIDE DEF TheReceipt
  <1> QED BY <1>3, <1>6, <1>14, <1>15, <1>16, <1>17, <1>18, ShowingStep

-----------------------------------------------------------------------------
(* The theorems about an audit.                                            *)

\* Nothing happens.
LEMMA StutterAudit == AuditInv /\ UNCHANGED vars => AuditInv'
  <1> SUFFICES ASSUME AuditInv, UNCHANGED vars PROVE AuditInv'
    OBVIOUS
  <1>1. /\ UNCHANGED registryVars /\ registry' = registry /\ log' = log
        /\ receipts' = receipts /\ receiptKeys' = receiptKeys
        /\ results' = results /\ reason' = reason /\ unconfirmedReason' = unconfirmedReason
        /\ rule' = rule /\ read' = read /\ next' = next
        /\ targets' = targets /\ subject' = subject /\ ended' = ended /\ given' = given
    BY DEF vars, receiptVars, reconcileVars, inputs
  <1>2. /\ signed' = signed /\ requests' = requests /\ events' = events /\ records' = records
        /\ eventSeals' = eventSeals /\ recordSeals' = recordSeals /\ deviations' = deviations
    BY <1>1 DEF registryVars, streams, seals, service
  <1>3. HistoryInv'
    BY <1>1, HistoryStep DEF AuditInv
  <1>4. /\ ~ended' => rule' = "bundles" /\ NewRun'
        /\ rule' \in ReconcileModes \cup ShownModes
        /\ results' \in Verdicts
        /\ ended' => receiptKeys' = ReceiptKeySet(KeyEntries)
        /\ IsList(receipts') /\ next' \in Nat \ {0}
    BY <1>1 DEF AuditInv, NewRun
  <1>5. Reconciled'
    <2>1. Reconciled
      BY DEF AuditInv
    <2>2. \A r : IsHeld(r) => IsHeld(r)'
      BY <1>2 DEF IsHeld
    <2>3. IsLogOf' = IsLogOf
      BY <1>1 DEF IsLogOf
    <2>4. (RegistryExport(registry) => RegistryExport(registry)')
          /\ (LogExport(log) => LogExport(log)')
      BY <1>1, <1>2 DEF RegistryExport, LogExport
    <2>5. ended /\ rule \in ReconcileModes =>
            \A i \in DOMAIN receipts' : IsHeld(receipts[i])'
      BY <1>1, <1>2, <2>1 DEF Reconciled, IsHeld
    <2> QED BY <1>1, <2>1, <2>3, <2>4, <2>5 DEF Reconciled
  <1>6. Shown'
    <2>1. Shown
      BY DEF AuditInv
    <2>2. TheReceipt' = TheReceipt
      BY <1>1 DEF TheReceipt
    <2>3. (RegistryExport(registry) => RegistryExport(registry)')
          /\ (LogExport(log) => LogExport(log)')
      BY <1>1, <1>2 DEF RegistryExport, LogExport
    <2>4. rule \in ShownModes => \A i \in DOMAIN given' :
            given'[i] = Nothing \/ RegistryExport(given[i])' \/ LogExport(given[i])'
      BY <1>1, <1>2, <2>1 DEF Shown, RegistryExport, LogExport
    <2>5. Gave("log") = Gave("log")' /\ Gave("registry") = Gave("registry")'
      BY <1>1 DEF Gave
    <2> HIDE DEF TheReceipt
    <2> QED BY <1>1, <1>2, <2>1, <2>2, <2>3, <2>4, <2>5 DEF Shown
  <1>7. ScopeExplained'
    <2>1. ScopeExplained
      BY DEF AuditInv
    <2>2. \A i : MayStillCome(requests[i]) => MayStillCome(requests[i])'
      BY <1>1, <1>2 DEF MayStillCome, InLog, InRegistry
    <2> QED BY <1>1, <1>2, <2>1, <2>2 DEF ScopeExplained
  <1>8. CheckedReceiptIsKept'
    BY <1>1, <1>2 DEF AuditInv, CheckedReceiptIsKept, Judged, Gave, Answered, TheReceipt,
                      Kept, InLog, InRegistry
  <1>9. HonestReceiptHolds'
    BY <1>1, <1>2 DEF AuditInv, HonestReceiptHolds, Judged, Answered, TheReceipt
  <1> QED BY <1>3, <1>4, <1>5, <1>6, <1>7, <1>8, <1>9 DEF AuditInv

\* Every step of a history and its audit.
LEMMA NextAudit == AuditInv /\ [Next]_vars => AuditInv'
  <1> SUFFICES ASSUME AuditInv, [Next]_vars PROVE AuditInv'
    OBVIOUS
  <1>1. CASE ~ended /\ RegistryNext /\ UNCHANGED <<receiptVars, ended, given>>
    BY <1>1, HistoryAudit
  <1>2. CASE Export
    BY <1>2, ExportAudit
  <1>3. CASE Show
    BY <1>3, ShowAudit
  <1>4. CASE ended /\ Reconciling /\ UNCHANGED <<registryVars, ended, given>>
    BY <1>4, ReconcilingAudit
  <1>5. CASE ended /\ Judging /\ UNCHANGED <<registryVars, ended, given>>
    <2>1. CASE InputUnreadable \/ ReadReceipt \/ TargetFails \/ TargetVerifies
      BY <1>5, <2>1, ShowingAudit
    <2>2. CASE JudgeReceipt(given # <<>>)
      BY <1>5, <2>2, JudgeAudit
    <2> QED BY <1>5, <2>1, <2>2 DEF Judging
  <1>6. CASE UNCHANGED vars
    BY <1>6, StutterAudit
  <1> QED BY <1>1, <1>2, <1>3, <1>4, <1>5, <1>6 DEF Next

\* At every step of every history and of every audit of it: each request keeps
\* its receipt, record and event as they were written, seals cover their streams
\* in order, a service that did not deviate sealed everything in time, and what
\* the audit has read of the exports is what the streams hold.
THEOREM AuditInvariant == Spec => []AuditInv
  <1> QED BY InitAudit, NextAudit, PTL DEF Spec

\* "Export again" is the answer of --reconcile only while something is missing
\* that was not yet due when an export was last complete, whatever the service
\* did and whichever exports were taken of it.
THEOREM UnconfirmedWhileEarly == Spec => []UnconfirmedOnlyWhileEarly
  <1>1. AuditInv => UnconfirmedOnlyWhileEarly
    BY DEF AuditInv, ScopeExplained, UnconfirmedOnlyWhileEarly
  <1> QED BY <1>1, AuditInvariant, PTL

\* --receipt says PASS of a receipt it checked against its records only when the
\* decision is in the log as it was told, sealed in time, and an acceptance's
\* event is in the registry: whatever the service did, and whatever became of
\* the receipt on its way.
THEOREM CheckedReceiptKept == Spec => []CheckedReceiptIsKept
  <1>1. AuditInv => CheckedReceiptIsKept
    BY DEF AuditInv
  <1> QED BY <1>1, AuditInvariant, PTL

\* The receipt of a service that did not deviate holds with every verified export
\* of its streams, and is checked against its records when the exports are whole.
THEOREM HonestReceipt == Spec => []HonestReceiptHolds
  <1>1. AuditInv => HonestReceiptHolds
    BY DEF AuditInv
  <1> QED BY <1>1, AuditInvariant, PTL
=============================================================================
