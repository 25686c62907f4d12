---------------------------- MODULE ReceiptCheck ----------------------------
(***************************************************************************)
(* The checks of one signed receipt (src/verify/receipts.go), alone and    *)
(* against the records it names.  A receipt is [document, sound, keyId,    *)
(* signed, stream, outcome, digest, credential, key, policyHash,           *)
(* receivedAt, sealBy, signedAt, decisionSeq, accepted].  document says    *)
(* whether the file is a {body, signature} document at all and sound       *)
(* whether the fields that are checked for their form alone have it;       *)
(* signed says whether the signature verifies against the key of key_id.   *)
(***************************************************************************)
EXTENDS RegistryLog, RunResults

\* What one check says: a result and what becomes of it, with its reason code.
Finding(state, code, result) == [state |-> state, code |-> code, result |-> result]
Failed(code) == Finding("fail", code, "content_integrity")

\* <<finding>> when the condition holds, and nothing otherwise.
If(condition, finding) == IF condition THEN <<finding>> ELSE <<>>

\* parseReceiptKeySet: every entry's key_id must be the hash of its key (the
\* key itself here), and the last entry of a key_id stands; None is an error.
ReceiptKeySet(entries) ==
    IF entries = None THEN None
    ELSE IF \E i \in DOMAIN entries : entries[i].keyId # entries[i].publicKey
    THEN None
    ELSE FoldLeft(LAMBDA set, e : (e.keyId :> e) @@ set, <<>>, entries)

ReceiptShape(body) ==
    /\ body.sound
    /\ Known(body.receivedAt) /\ Known(body.sealBy) /\ Known(body.signedAt)
    /\ body.signedAt >= body.receivedAt

\* A plausible bug: the window is compared with the wrong end open.
InKeyWindowExclusive(at, key) ==
    /\ key.createdAt # None => Known(key.createdAt) /\ at > key.createdAt
    /\ key.retiredAt # None => Known(key.retiredAt) /\ at <= key.retiredAt

\* Inside the key's window at signed_at: from created_at, before retired_at.
InKeyWindow(at, key) ==
    /\ key.createdAt # None => Known(key.createdAt) /\ at >= key.createdAt
    /\ key.retiredAt # None => Known(key.retiredAt) /\ at < key.retiredAt

\* checkReceipt: at most one finding, and the receipt is the operator's own
\* signed statement when there is none.
CheckReceipt(receipt, keys) ==
    IF ~ReceiptShape(receipt)
    THEN <<Failed("RECEIPT_SHAPE")>>
    ELSE IF receipt.keyId \notin DOMAIN keys
    THEN <<Finding("unconfirmed", "RECEIPT_KEY_UNKNOWN", "signing_identity")>>
    ELSE IF ~receipt.signed
    THEN <<Failed("RECEIPT_SIGNATURE")>>
    ELSE If(~InKeyWindow(receipt.signedAt, keys[receipt.keyId]),
            Finding("fail", "RECEIPT_KEY_WINDOW", "signing_identity"))

\* decisionRecordDifferences: whether the record says what the receipt says.
SaysTheSame(record, body) ==
    /\ record.action = "ingress" /\ record.outcome = body.outcome
    /\ record.payload # None
    /\ record.payload.outcome = body.outcome
    /\ record.payload.digest = body.digest
    /\ record.payload.credential = body.credential
    /\ record.payload.key = body.key
    /\ record.payload.hash = body.policyHash
    /\ record.receivedAt = body.receivedAt

\* The checkpoints that cover a sequence, and the first of them.
SealsOf(checkpoints, n) ==
    {i \in DOMAIN checkpoints : checkpoints[i].from <= n /\ n <= checkpoints[i].to}

FirstSealOf(checkpoints, n) == checkpoints[Min(SealsOf(checkpoints, n))]

SealedBy(seal, sealBy) ==
    Known(seal.createdAt) /\ Known(sealBy) /\ seal.createdAt <= sealBy

\* The event an acceptance names is not the one the receipt is about.
EventDiffers(event, body) ==
    \/ event.entry # body.accepted.entry
    \/ RequestDigest(event, body.key) # body.accepted.digest
    \/ body.outcome = "accepted" /\ event.receivedAt # body.receivedAt

\* A plausible bug: for every decision a log records, its record's seal counts.
DeadlineOnUnlogged(body) == body.accepted # None /\ body.decisionSeq = None

\* Whose seal the receipt's deadline is about: the event's for an acceptance
\* and for a replay no log records, otherwise the decision record's.
DeadlineOnEvent(body) ==
    /\ body.accepted # None
    /\ body.outcome = "accepted" \/ (body.outcome = "replay" /\ body.decisionSeq = None)

\* checkReceiptSubject: the findings against the records the receipt names in
\* the bundles given (one not given has no events), and whether every record
\* it names was there to be checked.
CheckSubject(body, stream, log) ==
    LET logged == HasEvent(log, body.decisionSeq)
        held == body.accepted # None /\ HasEvent(stream, body.accepted.sequence)
        view == IF DeadlineOnEvent(body) THEN stream ELSE log
        sequence == IF DeadlineOnEvent(body) THEN body.accepted.sequence
                    ELSE body.decisionSeq
        due == HasEvent(view, sequence)
        sealed == due /\ SealsOf(view.checkpoints, sequence) # {}
    IN [findings |->
          If(logged /\ ~SaysTheSame(log.events[body.decisionSeq], body),
             Failed("RECEIPT_SUBJECT"))
          \o If(held /\ EventDiffers(stream.events[body.accepted.sequence], body),
                Failed("RECEIPT_SUBJECT"))
          \o If(sealed /\ ~SealedBy(FirstSealOf(view.checkpoints, sequence), body.sealBy),
                Failed("MSD_BREACH")),
        checked |->
          /\ logged \/ held
          /\ body.decisionSeq # None => logged
          /\ body.accepted # None => held
          /\ due => sealed]
=============================================================================
