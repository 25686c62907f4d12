----------------------------- MODULE Reconcile -----------------------------
(***************************************************************************)
(* --reconcile (src/verify/receipts.go, Reconcile and reconcileRegistry):  *)
(* a registry, its decision log and the receipts a submitter holds are     *)
(* held against each other, rule by rule.  The rules say nothing to each   *)
(* other, so what each has to say is an operator, and the run hears them   *)
(* in their order; every receipt is an action.                             *)
(***************************************************************************)
EXTENDS ReceiptCheck

CONSTANTS MinNotice, MaxNotice    \* the bounds of a notice period

ASSUME NoticeAssumption == MinNotice \in Nat /\ MaxNotice \in Nat

VARIABLES
    registry, log,          \* the two bundles, as loadVerifiedBundle reads them
    receipts, receiptKeys,  \* the receipts, in name order, and the trusted keys
    rule,                   \* where the run is
    read,                   \* readRegistryLog's result
    next                    \* the receipt to be checked next

inputs == <<registry, log, receipts, receiptKeys>>
reconcileVars == <<inputs, results, reason, unconfirmedReason, rule, read, next>>

\* A finding demotes its result, and the first of its kind gives the reason.
Told(run, f) ==
    [results |-> Demote(run.results, f.result, f.state),
     reason |-> IF f.state = "fail" THEN SetReason(run.reason, f.code) ELSE run.reason,
     unconfirmedReason |->
        IF f.state = "unconfirmed" THEN SetReason(run.unconfirmedReason, f.code)
        ELSE run.unconfirmedReason]

\* The run hears findings, in order.
Hear(findings) ==
    LET heard[n \in 0..Len(findings)] ==
          IF n = 0
          THEN [results |-> results, reason |-> reason,
                unconfirmedReason |-> unconfirmedReason]
          ELSE Told(heard[n - 1], findings[n])
        all == heard[Len(findings)]
    IN /\ results' = all.results
       /\ reason' = all.reason
       /\ unconfirmedReason' = all.unconfirmedReason

Step(from, to, findings) ==
    /\ rule = from
    /\ rule' = to
    /\ Hear(findings)
    /\ UNCHANGED <<inputs, next>>

-----------------------------------------------------------------------------
(* Both bundles are verified first, and reconciled when they both verify.  *)

\* A bundle does not verify.  Its own checks have demoted the results they are
\* about: one of them stands here for all.
BundleFails(result) == Finding("fail", "BUNDLE", result)

Unverified ==
    /\ \E result \in Results : Step("bundles", "done", <<BundleFails(result)>>)
    /\ UNCHANGED read

\* A bundle that cannot be read, a directory of receipts or a receipt that is
\* not there: the run ends with no verdict.
Unreadable ==
    /\ \/ rule = "bundles"
       \/ rule = "receipts" /\ next <= Len(receipts)
    /\ Step(rule, "unread", <<>>)
    /\ UNCHANGED read

\* Rule 1, and the order in time that later rules rest on.
IsLogOf == registry.publicId # None /\ log.logFor = registry.publicId

NotDecisionLog ==
    /\ rule = "bundles" /\ ~IsLogOf
    /\ Step("bundles", "done", <<Failed("NOT_DECISION_LOG")>>)
    /\ UNCHANGED read

Dense == log.from = 1 /\ registry.from = 1

TimeOrdered(bundle) ==
    LET at == [i \in DOMAIN InOrder(bundle) |->
                 bundle.events[InOrder(bundle)[i]].receivedAt]
    IN \A i \in DOMAIN at : Known(at[i]) /\ (i > 1 => at[i] >= at[i - 1])

\* Rule 2.
OpensOnPolicy ==
    HasEvent(log, 1) /\ log.events[1].action = "policy.committed"

ReadLog ==
    /\ rule = "bundles" /\ IsLogOf
    /\ Step("bundles", "rules",
            If(~Dense, Failed("LOG_NOT_DENSE"))
            \o If(~TimeOrdered(registry) \/ ~TimeOrdered(log), Failed("NOT_TIME_ORDERED"))
            \o If(~OpensOnPolicy, Failed("FIRST_NOT_POLICY")))
    /\ read' = ReadRegistryLog(log)

-----------------------------------------------------------------------------
(* Rules 3 and 4: the policies.                                            *)

PolicyProblem ==
    read.policyProblem \/ \E i \in DOMAIN read.policies : read.policies[i].broken

Policies == If(PolicyProblem, Failed("POLICY_HASH"))

NoticeInBounds(notice) == notice # None /\ notice >= MinNotice /\ notice <= MaxNotice
UnderNotice(rules) == rules # None /\ rules.amendment = "notice"

RulesHold(rules) ==
    /\ rules # None
    /\ rules.registry = registry.publicId
    /\ rules.msd = MSD
    /\ UnderNotice(rules) => NoticeInBounds(rules.notice)

\* p, recorded after the policy before, amends it as it allows.
Amends(p, before) ==
    /\ p.version = before.version + 1 /\ p.action = "policy.amended"
    /\ UnderNotice(before.rules) /\ NoticeInBounds(before.rules.notice)
    /\ Known(p.recordedAt) /\ Known(before.effectiveAt)
    /\ p.recordedAt >= before.effectiveAt
    /\ Known(p.effectiveAt)
    /\ p.effectiveAt >= p.recordedAt + before.rules.notice

PolicyHolds(i) ==
    LET p == read.policies[i] IN
    /\ RulesHold(p.rules)
    /\ IF i = 1 THEN p.version = 1 /\ p.action = "policy.committed"
       ELSE Amends(p, read.policies[i - 1])

Amendments ==
    If(\E i \in DOMAIN read.policies : ~PolicyHolds(i), Failed("POLICY_AMENDMENT"))

-----------------------------------------------------------------------------
(* Rule 5: every decision follows the policy in force when it was made.    *)

\* The registry's state a decision needs; a scope refusal and a throttle are
\* made before the state is read.
StateHolds(d) ==
    /\ d.outcome = "refused_paused" => d.status = "paused"
    /\ d.outcome = "refused_archived" => d.status = "archived"
    /\ d.outcome \in {"accepted", "replay", "conflict", "invalid",
                      "refused_early", "refused_late"} => d.status = "active"

\* The first acceptance of its key that the log holds before the i-th decision.
HeldBefore(i) ==
    LET key == read.decisions[i].payload.key
        earlier == {j \in 1..(i - 1) : /\ read.decisions[j].outcome = "accepted"
                                       /\ read.decisions[j].payload.key = key
                                       /\ read.decisions[j].payload.accepted # None}
    IN IF key = None \/ earlier = {} THEN None
       ELSE read.decisions[Min(earlier)].payload.accepted

IsOpen(window, at) ==
    /\ window # None /\ Known(window.openAt) /\ Known(window.closeAt)
    /\ window.openAt <= at /\ at < window.closeAt

\* A plausible bug: a replay or a conflict is held to the window only.
OutcomeHoldsUncompared(d, window, held) ==
    CASE d.outcome \in {"accepted", "replay", "conflict"} -> IsOpen(window, d.at)
      [] d.outcome = "refused_early" -> window # None /\ d.at < window.openAt
      [] d.outcome = "refused_late" -> window # None /\ d.at >= window.closeAt
      [] d.outcome = "invalid" -> ~(d.payload.unknownKey /\ window # None)
      [] OTHER -> TRUE

\* What the outcome says of the window and of the key's first acceptance.
OutcomeHolds(d, window, held) ==
    LET names == held # None /\ d.payload.accepted = held
        digest == d.payload.digest
    IN CASE d.outcome = "accepted" -> IsOpen(window, d.at)
         [] d.outcome = "replay" ->
              IsOpen(window, d.at) /\ names /\ digest = held.digest
         [] d.outcome = "conflict" ->
              IsOpen(window, d.at) /\ names /\ digest # held.digest
         [] d.outcome = "refused_early" ->
              window # None /\ Known(window.openAt) /\ d.at < window.openAt
         [] d.outcome = "refused_late" ->
              window # None /\ Known(window.closeAt) /\ d.at >= window.closeAt
         [] d.outcome = "invalid" -> ~(d.payload.unknownKey /\ window # None)
         [] OTHER -> TRUE

DecisionHolds(i) ==
    LET d == read.decisions[i]
        policy == InForce(read, d.at, d.sequence)
    IN /\ StateHolds(d)
       /\ policy # None
       /\ d.payload.hash = policy.hash
       /\ OutcomeHolds(d, WindowOf(policy, d.payload.key), HeldBefore(i))

Decisions ==
    If(\E i \in DOMAIN read.decisions : ~DecisionHolds(i), Failed("DECISION_POLICY"))

-----------------------------------------------------------------------------
(* Rule 6: acceptances and registry events match one to one.               *)

\* A plausible bug, for the mutation runs: the grace is left out.
DueWithoutGrace(at, seconds, complete) ==
    Known(at) /\ Known(complete) /\ at + seconds <= complete

\* The seal deadline of a record and the grace had passed by then.
DueBy(at, seconds, complete) ==
    Known(at) /\ Known(complete) /\ at + seconds + SealGrace <= complete

RegistryLastAt ==
    Max({NoTime} \cup {registry.events[n].receivedAt : n \in DOMAIN registry.events})

\* The acceptance names an event past the registry bundle, which may be later.
MayBeLater(a) ==
    /\ a.payload.accepted # None /\ a.payload.accepted.sequence > registry.to
    /\ ~(Known(a.at) /\ Known(RegistryLastAt) /\ a.at < RegistryLastAt)
    /\ ~DueBy(a.at, MSD, CompleteAt(registry))

\* The registry holds the event as the acceptance says.
Matches(a) ==
    LET named == a.payload.accepted
        event == registry.events[named.sequence]
    IN /\ named # None /\ HasEvent(registry, named.sequence)
       /\ event.entry = named.entry
       /\ RequestDigest(event, a.payload.key) = a.payload.digest
       /\ event.receivedAt = a.at

Acceptances == {d \in ToSet(read.decisions) : d.outcome = "accepted"}
Unchecked == {a \in Acceptances : MayBeLater(a)}

HighestNamed ==
    Max({0} \cup {a.payload.accepted.sequence :
                    a \in {b \in Acceptances : b.payload.accepted # None}})

Claims(n) ==
    Cardinality({a \in Acceptances \ Unchecked :
                   Matches(a) /\ a.payload.accepted.sequence = n})

\* A plausible bug: an event no acceptance claims is always taken for later.
AnyUnclaimed(n) == Claims(n) = 0

\* The event was received after all that the log holds, and its decision may
\* be past the log bundle.
DecisionMayBeLater(n) ==
    LET at == registry.events[n].receivedAt IN
    /\ Claims(n) = 0 /\ n > HighestNamed
    /\ Known(at) /\ Known(read.last) /\ at > read.last
    /\ ~DueBy(at, MSD, CompleteAt(log))

Later(code) == Finding("unconfirmed", code, "scope")

AcceptedMatch ==
    If(Unchecked # {}, Later("ACCEPTED_UNMATCHED"))
    \o If(\E a \in Acceptances \ Unchecked : ~Matches(a), Failed("ACCEPTED_UNMATCHED"))

ParentMatch ==
    LET later == {n \in DOMAIN registry.events : DecisionMayBeLater(n)} IN
    If(later # {}, Later("PARENT_UNMATCHED"))
    \o If(\E n \in DOMAIN registry.events \ later : Claims(n) # 1,
          Failed("PARENT_UNMATCHED"))

\* Rule 7: one acceptance per key.
DoubleAcceptance ==
    LET accepted == Accepted(read) IN
    \E i \in DOMAIN accepted :
        \/ accepted[i].payload.key = None
        \/ \E j \in 1..(i - 1) : accepted[j].payload.key = accepted[i].payload.key

Double == If(DoubleAcceptance, Failed("DOUBLE_ACCEPTANCE"))

-----------------------------------------------------------------------------
(* Rule 8: every window closes once, truthfully.                           *)

\* The window a close names, as <<version, window>>, or None.
ClosedWindow(close) ==
    LET policy == LastPolicy(read, LAMBDA p : p.hash = close.hash)
        window == IF policy = None THEN None ELSE WindowOf(policy, close.key)
    IN IF window = None \/ window.closeAt # close.closeAt THEN None
       ELSE <<policy.version, window>>

FirstAccepted(key) ==
    LET accepted == Accepted(read)
        places == {i \in DOMAIN accepted : accepted[i].payload.key = key}
    IN IF places = {} THEN None ELSE accepted[Min(places)]

ClosedTruthfully(close) ==
    LET a == FirstAccepted(close.key)
        committed == /\ a # None /\ Known(close.closeAt) /\ Known(a.at)
                     /\ a.at < close.closeAt
    IN IF committed
       THEN /\ close.outcome = "committed" /\ close.accepted # None
            /\ a.payload.accepted # None
            /\ close.accepted.sequence = a.payload.accepted.sequence
       ELSE close.outcome = "missing" /\ close.accepted = None

CloseHolds(i) ==
    LET close == read.closes[i] IN
    /\ ClosedWindow(close) # None
    /\ \A j \in 1..(i - 1) : ClosedWindow(read.closes[j]) # ClosedWindow(close)
    /\ ClosedTruthfully(close)

HasClose(policy, window) ==
    \E i \in DOMAIN read.closes :
        LET closed == ClosedWindow(read.closes[i]) IN
        closed # None /\ closed[1] = policy.version /\ closed[2].key = window.key

\* A window of the policy in force at its close, closed for longer than the
\* grace when the log's last record was received, without a close record.
CloseMissing(policy, window) ==
    /\ Known(window.closeAt) /\ window.closeAt + CloseGrace < read.last
    /\ ~HasClose(policy, window)
    /\ LastPolicy(read, LAMBDA p : EffectiveBy(p, window.closeAt)) = policy

MissingClose ==
    \E i \in DOMAIN read.policies : LET p == read.policies[i] IN
    \E j \in DOMAIN p.windows : CloseMissing(p, p.windows[j])

Closes ==
    If((\E i \in DOMAIN read.closes : ~CloseHolds(i)) \/ MissingClose,
       Failed("WINDOW_CLOSE"))

\* Rule 9: every acceptance came from a valid credential.
Credentials == If(read.credentialProblem, Failed("CREDENTIAL_NOT_VALID"))

Rules ==
    /\ Step("rules", "receipts",
            Policies \o Amendments \o Decisions \o AcceptedMatch \o ParentMatch
              \o Double \o Closes \o Credentials)
    /\ UNCHANGED read

-----------------------------------------------------------------------------
(* Rule 10: every receipt is logged, says what its record says, and was    *)
(* sealed by its deadline.                                                 *)

\* The receipt names a decision past the log bundle, which may be later.
ReceiptMayBeLater(body) ==
    /\ body.decisionSeq # None /\ body.decisionSeq > log.to
    /\ ~(Known(body.receivedAt) /\ Known(read.last) /\ body.receivedAt < read.last)
    /\ ~DueBy(body.sealBy, 0, CompleteAt(log))

Logged(body) ==
    /\ HasEvent(log, body.decisionSeq)
    /\ SaysTheSame(log.events[body.decisionSeq], body)

ReceiptFindings(receipt) ==
    LET own == CheckReceipt(receipt, receiptKeys) IN
    CASE ~receipt.document -> <<Failed("RECEIPT_SHAPE")>>
      [] receipt.document /\ receipt.stream # registry.publicId -> <<>>
      [] OTHER ->
           IF own # <<>> THEN own
           ELSE IF ReceiptMayBeLater(receipt) THEN <<Later("RECEIPT_NOT_LOGGED")>>
           ELSE IF ~Logged(receipt) THEN <<Failed("RECEIPT_NOT_LOGGED")>>
           ELSE CheckSubject(receipt, registry, log).findings

Receipt ==
    /\ rule = "receipts" /\ next <= Len(receipts)
    /\ Hear(ReceiptFindings(receipts[next]))
    /\ next' = next + 1
    /\ UNCHANGED <<inputs, rule, read>>

\* The run ends early, or with the last receipt.
Done == rule = "done" \/ (rule = "receipts" /\ next > Len(receipts))

ReconcileNext ==
    \/ Unverified \/ Unreadable \/ NotDecisionLog \/ ReadLog
    \/ Rules \/ Receipt

\* A run about to verify its two bundles.
ReconcileInit ==
    /\ NewRun
    /\ rule = "bundles"
    /\ read = NothingRead
    /\ next = 1
=============================================================================
