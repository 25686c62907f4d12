--------------------------- MODULE RegistryAudit ---------------------------
(***************************************************************************)
(* A registry lives out its history, its two streams are exported - each   *)
(* up to any of its checkpoints, so as if at different times and in either *)
(* order - and someone who may hold its receipts reconciles the exports.   *)
(***************************************************************************)
EXTENDS Registry, ReceiptMode

CONSTANT KeyEntries     \* the receipt keys document the auditor trusts

\* It has the service's key, which is retired some time after the history.
ASSUME KeysAssumption ==
    LET keys == ReceiptKeySet(KeyEntries) IN
    /\ "key" \in DOMAIN keys /\ "unknown" \notin DOMAIN keys
    /\ keys["key"].createdAt \in {None, 0}
    /\ keys["key"].retiredAt \in (Horizon + 1)..(2 * Horizon)

VARIABLES
    ended,          \* the history is over and the exports are taken
    given           \* the bundles given to --receipt, in order

vars == <<registryVars, receiptVars, ended, given>>

Init ==
    /\ RegistryInit
    /\ ReconcileInit
    /\ registry = Nothing /\ log = Nothing
    /\ receipts = <<>> /\ receiptKeys = <<>>
    /\ targets = <<>> /\ subject = "not_checked"
    /\ ended = FALSE /\ given = <<>>

\* What may become of a receipt on its way to the auditor: it is no receipt, it
\* was altered, or it is one of another registry's; and then it lost its form,
\* its key is unknown, or it was signed with the key after it was retired.
Altered(r) ==
    {[r EXCEPT !.document = FALSE], [r EXCEPT !.signed = FALSE, !.decisionSeq = @ + 1],
     [r EXCEPT !.stream = "another", !.decisionSeq = @ + 1]}
Damaged(r) ==
    Altered(r) \cup {[r EXCEPT !.sound = FALSE], [r EXCEPT !.keyId = "unknown"],
                     [r EXCEPT !.signedAt = 2 * Horizon]}

Whole(bundle, stream) == bundle.to = Len(stream) /\ bundle.anchoredAt = NoTime

\* The receipts held: all; none, when there is something to be found out without
\* them; or - beside whole exports - all with the first one altered.
Holdings(r, l) ==
    {signed}
      \cup (IF deviations > 0 THEN {<<>>} ELSE {})
      \cup {[signed EXCEPT ![1] = d] :
              d \in IF signed # <<>> /\ Whole(r, events) /\ Whole(l, records)
                    THEN Altered(signed[1]) ELSE {}}

Ends ==
    /\ now = Horizon /\ ~ended /\ ended' = TRUE
    /\ receiptKeys' = ReceiptKeySet(KeyEntries)
    /\ UNCHANGED <<registryVars, results, reason, unconfirmedReason, read, next, subject>>

\* Both exports are given, at most one of them anchored: in their order; or,
\* whole, in the wrong one; or the log's without its beginning.
Export ==
    /\ Ends
    /\ \E r \in RegistryExports, l \in LogExports :
          \/ /\ r.anchoredAt = NoTime \/ l.anchoredAt = NoTime
             /\ registry' = r /\ log' = l
             /\ receipts' \in Holdings(r, l)
          \/ /\ Whole(r, events) /\ Whole(l, records)
             /\ \/ registry' = l /\ log' = r
                \/ registry' = r /\ log' = [l EXCEPT !.from = 2]
             /\ receipts' = <<>>
    /\ UNCHANGED <<rule, targets, given>>

\* The last receipt is shown, on its own or with exports of either stream or
\* both (an earlier one is the last of a shorter history).  Histories with
\* upkeep are left out: a receipt is not held to the policy.
Show ==
    /\ Ends /\ upkeeps = 0 /\ signed # <<>>
    /\ \E r \in RegistryExports \cup {Nothing}, l \in LogExports :
          /\ r.anchoredAt = NoTime /\ l.anchoredAt = NoTime
          /\ \/ r # Nothing /\ receipts' = <<Last(signed)>> /\ targets' = <<l, r>>
             \/ /\ Whole(r, events) /\ Whole(l, records)
                /\ receipts' = <<Last(signed)>> /\ targets' \in {<<>>, <<r>>, <<r, l>>}
             \/ /\ r = Nothing /\ Whole(l, records)
                /\ receipts' \in {<<d>> : d \in {Last(signed)} \cup Damaged(Last(signed))}
                /\ targets' = <<l>>
    /\ registry' = Nothing /\ log' = Nothing
    /\ rule' = "receipt" /\ given' = targets'

Reconciling == ReconcileNext /\ UNCHANGED <<targets, subject>>

Judging ==
    \/ InputUnreadable
    \/ ReadReceipt \/ TargetFails \/ TargetVerifies \/ JudgeReceipt(given # <<>>)

Next ==
    \/ ~ended /\ RegistryNext /\ UNCHANGED <<receiptVars, ended, given>>
    \/ Export \/ Show
    \/ ended /\ (Reconciling \/ Judging) /\ UNCHANGED <<registryVars, ended, given>>

Spec == Init /\ [][Next]_vars

-----------------------------------------------------------------------------
\* Both bundles verified, and they were given as they should be.
AsExported == reason # "BUNDLE" /\ log.publicId = "log" /\ log.from = 1

\* A service that does what it should is never held to have done otherwise,
\* whenever and in whatever order its streams are exported and anchored: "the
\* rules that tell a later record from a missing one" (receipts.go) fail
\* nothing that is merely later.  Someone with a forged, altered or foreign
\* receipt can make the run fail, but only by the receipt's own code.
HonestRegistryIsNotBlamed ==
    Done /\ AsExported /\ deviations = 0 =>
        /\ receipts = signed => ~Some(results, "fail")
        /\ reason \in {NoReason, "RECEIPT_SHAPE", "RECEIPT_SIGNATURE", "RECEIPT_KEY_WINDOW"}

InLog(q) == q.record # None /\ q.record <= log.to
InRegistry(q) == q.event # None /\ q.event <= registry.to

\* The requests a receipt is the answer to: the same thing asked twice in the
\* same second may get the same receipt twice.
Answered(receipt) == {i \in DOMAIN signed : signed[i] = receipt}

\* What a receipt promises of the request it was signed for.
Kept(q) ==
    /\ InLog(q)
    /\ LET seal == IF q.told = "accepted" THEN FirstSealOf(eventSeals, q.event)
                   ELSE FirstSealOf(recordSeals, q.record)
       IN seal.createdAt <= q.at + MSD

\* A key was accepted before the window closed.
Committed(w) ==
    \E i \in DOMAIN requests : /\ requests[i].told = "accepted"
                               /\ requests[i].request.key = w.key
                               /\ requests[i].at < w.closeAt

CloseTold(w) ==
    \E i \in 1..log.to :
        /\ records[i].action = "window.closed" /\ records[i].payload.window = w
        /\ records[i].payload.outcome = IF Committed(w) THEN "committed" ELSE "missing"

\* "Account for every request" (README.md): when a registry and its log
\* reconcile, every decision in the log is the one that was due, from a
\* credential that could submit; acceptances and events are the same; every
\* receipt held tells of a decision that is logged and was sealed in time;
\* every window long closed is closed in the log as it really ended; and the
\* policy was amended with its notice.  One deviation of any kind, anywhere in
\* the history, and the run does not pass.
PassAccountsForEveryRequest ==
    Done /\ ExitCode(results) = ExitPass =>
        /\ \A i \in DOMAIN requests : LET q == requests[i] IN
             /\ InLog(q) => q.told = q.due /\ (q.told = "accepted" => q.able)
             /\ q.told = "accepted" => (InLog(q) <=> InRegistry(q))
        /\ \A i \in DOMAIN receipts :
             receipts[i].stream = "registry" =>
                \E j \in Answered(receipts[i]) : Kept(requests[j])
        /\ \A w \in EndsBy(now) :
             w.closeAt + CloseGrace < records[log.to].receivedAt => CloseTold(w)
        /\ \A i \in 1..log.to :
             records[i].action = "policy.amended" =>
                records[i].payload.effectiveAt
                   >= records[i].receivedAt + FirstPolicy.rules.notice

\* What is missing from an export, and was still within the seal delay and its
\* grace when one of the two was last known complete.
MayStillCome(q) ==
    /\ ~InLog(q) \/ (q.told = "accepted" /\ ~InRegistry(q))
    /\ q.at + MSD + SealGrace > Min({CompleteAt(registry), CompleteAt(log)})

\* "Export again" is an answer only while it can help: exports taken after
\* every deadline decide, one way or the other, and exports with nothing
\* missing never ask for more.
UnconfirmedOnlyWhileEarly ==
    Done /\ results["scope"] = "unconfirmed" =>
        \E i \in DOMAIN requests : MayStillCome(requests[i])

Judged == rule = "judged"

Gave(id) == \E i \in DOMAIN given : given[i].publicId = id

\* "PASS: this receipt is the signed statement of Sigilbase, and the records it
\* names say the same" (main.go) is said only of a receipt whose decision is in
\* the log as it was told and was sealed in time, and whose event, if it tells
\* of one, is in the registry: never on the strength of a bundle that was not
\* given, does not verify, or does not reach so far.
CheckedReceiptIsKept ==
    Judged /\ ExitCode(results) = ExitPass /\ subject = "checked" =>
        /\ Gave("log")
        /\ \E i \in Answered(TheReceipt) : LET q == requests[i] IN
             /\ Kept(q)
             /\ q.told = "accepted" => Gave("registry") /\ InRegistry(q)

\* The receipt of a service that does what it should holds, with whatever
\* verified exports of its streams it is shown; and it is checked against its
\* records as soon as the exports hold them.
HonestReceiptHolds ==
    Judged /\ deviations = 0 /\ Answered(TheReceipt) # {} /\ reason # "BUNDLE" =>
        /\ ExitCode(results) = ExitPass
        /\ Len(given) = 2 /\ log.to = Len(records) /\ registry.to = Len(events)
              => subject = "checked"
=============================================================================
