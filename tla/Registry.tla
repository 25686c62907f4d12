------------------------------ MODULE Registry ------------------------------
(***************************************************************************)
(* The service whose bundles --reconcile holds against each other, as far  *)
(* as src/verify/receipts.go tells what it should do.  It is not under     *)
(* src/.  Requests are decided under one lock and written, with the event  *)
(* of an acceptance, to a registry stream and a decision log; the two      *)
(* streams are sealed apart, each within the seal delay; a window that     *)
(* closes gets its close record within the close grace.  A clock step is   *)
(* not taken past a deadline that has not been met.                        *)
(*                                                                         *)
(* The service may deviate from this MaxDeviations times: it may decide a  *)
(* request as it should not, keep the decision or the event to itself,     *)
(* tell a lie in a close record, miss a deadline.                          *)
(***************************************************************************)
EXTENDS RegistryLog

CONSTANTS
    Horizon,                        \* bound: the time the history ends
    SealTimes,                      \* bound: the times at which a seal may be made
    Requests,                       \* what may be asked: [credential, key, content]
    Upkeep,                         \* what the owner may do
    FirstPolicy, Amendment,         \* [rules, windows, notice]
    FirstCredentials,               \* credential -> expiry
    MaxRequests, MaxDeviations,     \* bounds
    MaxDoings                       \* bound: requests, upkeep and deviations together

Outcomes == {"accepted", "replay", "conflict", "invalid", "refused_early",
             "refused_late", "refused_paused", "refused_archived"}

\* The n-th event of the registry, what the log says of it, and what it says of
\* a request.
EventOf(n, q, t) ==
    [entry |-> <<n, q.content, t>>, content |-> q.content, receivedAt |-> t]

Digest(q) == <<q.content, q.key>>

Acceptance(n, q, t) ==
    [sequence |-> n, entry |-> EventOf(n, q, t).entry, digest |-> Digest(q)]

Payload(told, q, policy, accepted) ==
    [outcome |-> told, digest |-> Digest(q), credential |-> q.credential, key |-> q.key,
     hash |-> PolicyHash(policy.rules, policy.windows), accepted |-> accepted,
     unknownKey |-> told = "invalid"]

AcceptancesMade == {Acceptance(n, q, t) : n \in 1..MaxRequests, q \in Requests, t \in 0..Horizon}

\* What is missing is no number, no stream's name, no acceptance and no payload.
ASSUME RegistryAssumption ==
    /\ {Horizon, MaxRequests, MaxDeviations} \subseteq Nat
    /\ None \notin Int \cup {"registry", "log", "another"} \cup AcceptancesMade
    /\ None \notin {Payload(told, q, policy, accepted) :
                      told \in Outcomes, q \in Requests, policy \in {FirstPolicy, Amendment},
                      accepted \in {None} \cup AcceptancesMade}

VARIABLES
    now,
    events, records,                \* the two streams
    eventSeals, recordSeals,        \* and their checkpoints
    signed,                         \* the receipts signed, one per request
    policies, status, credentials,  \* the service's own state
    held,                           \* key -> its first acceptance
    requests,                       \* history: what was asked, due, told and written
    unclosed,                       \* windows whose deadline passed without a record
    upkeeps, deviations

service == <<policies, status, credentials, held>>
streams == <<events, records>>
seals == <<eventSeals, recordSeals>>
registryVars == <<now, streams, seals, signed, service, requests, unclosed,
                  upkeeps, deviations>>

Record(action, outcome, payload) ==
    [action |-> action, outcome |-> outcome, receivedAt |-> now, payload |-> payload]

PolicyRecord(action, policy, version, effectiveAt) ==
    Record(action, None,
           [version |-> version, hash |-> PolicyHash(policy.rules, policy.windows),
            effectiveAt |-> effectiveAt, rules |-> policy.rules,
            count |-> Len(policy.windows), parts |-> 1])

WindowsRecord(policy, version) ==
    Record("policy.windows", None,
           [version |-> version, part |-> 1, windows |-> policy.windows])

InEffect(policy, at) == [policy |-> policy, at |-> at]

RegistryInit ==
    /\ now = 0
    /\ events = <<>>
    /\ records = << PolicyRecord("policy.committed", FirstPolicy, 1, 0),
                    WindowsRecord(FirstPolicy, 1),
                    Record("credentials.snapshot", None,
                           [credentials |-> FirstCredentials]) >>
    /\ eventSeals = <<>> /\ recordSeals = <<>>
    /\ signed = <<>>
    /\ policies = <<InEffect(FirstPolicy, 0)>>
    /\ status = "active" /\ credentials = FirstCredentials
    /\ held = <<>>
    /\ requests = <<>> /\ unclosed = {}
    /\ upkeeps = 0 /\ deviations = 0

Deviate == deviations < MaxDeviations /\ deviations' = deviations + 1
Behave == UNCHANGED deviations

-----------------------------------------------------------------------------
(* Deciding a request.                                                     *)

PolicyAt(t) == LET past == {i \in DOMAIN policies : policies[i].at <= t}
               IN policies[Max(past)].policy

HasWindow(policy, key) == \E i \in DOMAIN policy.windows : policy.windows[i].key = key
Window(policy, key) ==
    CHOOSE w \in ToSet(policy.windows) : w.key = key

\* What the rules make of a request now.
DueOutcome(q) ==
    LET policy == PolicyAt(now) IN
    CASE status = "paused" -> "refused_paused"
      [] status = "archived" -> "refused_archived"
      [] status = "active" /\ ~HasWindow(policy, q.key) -> "invalid"
      [] OTHER -> LET w == Window(policy, q.key) IN
                  CASE now < w.openAt -> "refused_early"
                    [] now >= w.closeAt -> "refused_late"
                    [] OTHER -> IF q.key \notin DOMAIN held THEN "accepted"
                                ELSE IF held[q.key].digest = Digest(q)
                                THEN "replay" ELSE "conflict"

Able(q) == AbleAt(credentials, q.credential, now)

\* What a decision names: a new acceptance, or the first one of its key.
Named(told, q) ==
    CASE told = "accepted" -> Acceptance(Len(events) + 1, q, now)
      [] told \in {"replay", "conflict"} /\ q.key \in DOMAIN held -> held[q.key]
      [] OTHER -> None

ReceiptFor(told, p) ==
    [document |-> TRUE, sound |-> TRUE, keyId |-> "key", signed |-> TRUE,
     stream |-> "registry", outcome |-> told, digest |-> p.digest,
     credential |-> p.credential, key |-> p.key, policyHash |-> p.hash,
     receivedAt |-> now, sealBy |-> now + MSD, signedAt |-> now,
     decisionSeq |-> Len(records) + 1, accepted |-> p.accepted]

\* The request is answered with the outcome told; the decision is logged, and
\* the event of an acceptance written, or not.
Answer(q, told, logged, written) ==
    LET n == Len(events) + 1
        accepted == Named(told, q)
        p == Payload(told, q, PolicyAt(now), accepted)
    IN /\ records' = IF logged THEN Append(records, Record("ingress", told, p)) ELSE records
       /\ events' = IF told = "accepted" /\ written THEN Append(events, EventOf(n, q, now))
                    ELSE events
       /\ held' = IF told = "accepted" /\ q.key \notin DOMAIN held
                  THEN [k \in DOMAIN held \cup {q.key} |->
                          IF k = q.key THEN accepted ELSE held[k]]
                  ELSE held
       /\ signed' = Append(signed, ReceiptFor(told, p))
       /\ requests' = Append(requests,
             [request |-> q, at |-> now, due |-> DueOutcome(q), able |-> Able(q),
              told |-> told,
              record |-> IF logged THEN Len(records) + 1 ELSE None,
              event |-> IF told = "accepted" /\ written THEN n ELSE None])
       /\ UNCHANGED <<now, seals, policies, status, credentials, unclosed, upkeeps>>

Decide(q) == Able(q) /\ Answer(q, DueOutcome(q), TRUE, TRUE) /\ Behave

\* A decision the rules do not allow, or one not written where it belongs.
Misdecide(q) ==
    /\ Deviate
    /\ \E told \in Outcomes, logged, written \in BOOLEAN :
          /\ Able(q) \/ (told = "accepted" /\ DueOutcome(q) = "accepted")
          /\ told # DueOutcome(q) \/ ~Able(q) \/ ~(logged /\ written)
          /\ told # DueOutcome(q) => logged /\ written
          /\ told # "accepted" => written
          /\ Answer(q, told, logged, written)

-----------------------------------------------------------------------------
(* The owner's doings, and the end of a window.                            *)

Log(record) ==
    /\ records' = Append(records, record)
    /\ UNCHANGED <<now, events, seals, signed, held, requests, unclosed>>

\* Pause, resume, archive, revoke a credential, or amend the policy.
Keep(action) ==
    /\ action \in Upkeep
    /\ upkeeps' = upkeeps + 1
    /\ Behave

SetStatus(action, from, to) ==
    /\ Keep(action)
    /\ status \in from /\ status' = to
    /\ Log(Record(action, None, <<>>))
    /\ UNCHANGED <<policies, credentials>>

Revoke(c) ==
    /\ Keep("credential.revoked")
    /\ c \in DOMAIN credentials
    /\ credentials' = Forget(credentials, c)
    /\ Log(Record("credential.revoked", None, [credential |-> c]))
    /\ UNCHANGED <<policies, status>>

\* An amendment is recorded with its notice, unless the service deviates.
Amend ==
    /\ "policy.amended" \in Upkeep /\ upkeeps' = upkeeps + 1
    /\ Len(policies) = 1
    /\ \E effective \in {now, now + FirstPolicy.rules.notice} :
          /\ IF effective >= now + FirstPolicy.rules.notice THEN Behave ELSE Deviate
          /\ policies' = Append(policies, InEffect(Amendment, effective))
          /\ records' = records \o
                << PolicyRecord("policy.amended", Amendment, 2, effective),
                   WindowsRecord(Amendment, 2) >>
    /\ UNCHANGED <<now, events, seals, signed, held, requests, unclosed,
                   status, credentials>>

\* The windows that end by time t under the policy in force at their end.
EndsBy(t) ==
    {w \in UNION {ToSet(policies[i].policy.windows) : i \in DOMAIN policies} :
        w.closeAt <= t /\ w \in ToSet(PolicyAt(w.closeAt).windows)}

IsClosed(w) ==
    \E i \in DOMAIN records : /\ records[i].action = "window.closed"
                              /\ records[i].payload.window = w

Unclosed(t) == {w \in EndsBy(t) : ~IsClosed(w)} \ unclosed

CloseRecord(w, key) ==
    LET policy == PolicyAt(w.closeAt) IN
    Record("window.closed", None,
           [window |-> w, key |-> w.key, closeAt |-> w.closeAt,
            hash |-> PolicyHash(policy.rules, policy.windows),
            outcome |-> IF key \in DOMAIN held THEN "committed" ELSE "missing",
            accepted |-> IF key \in DOMAIN held THEN held[key] ELSE None])

Close ==
    \E w \in Unclosed(now) :
        /\ \/ Log(CloseRecord(w, w.key)) /\ Behave
           \* the record lies: committed for missing, or missing for committed
           \/ w.key \in DOMAIN held /\ Log(CloseRecord(w, None)) /\ Deviate
        /\ UNCHANGED <<policies, status, credentials, upkeeps>>

-----------------------------------------------------------------------------
(* Seals and the clock.                                                    *)

SealedTo(checkpoints) == IF checkpoints = <<>> THEN 0 ELSE Last(checkpoints).to

\* A clock step, with which either stream may be sealed: a checkpoint seals
\* all its stream holds, and is younger than all of it.
SealedAt(t, stream, checkpoints) ==
    {checkpoints}
      \cup (IF t \in SealTimes /\ SealedTo(checkpoints) < Len(stream)
            THEN {Append(checkpoints, [from |-> SealedTo(checkpoints) + 1,
                                       to |-> Len(stream), createdAt |-> t])}
            ELSE {})

\* What is still unsealed at t can be sealed in time.
SealsKept(stream, checkpoints, t) ==
    \A i \in SealedTo(checkpoints) + 1 .. Len(stream) : stream[i].receivedAt + MSD > t

ClosesKept(t) == \A w \in Unclosed(now) : w.closeAt + CloseGrace >= t

Tick ==
    /\ now < Horizon /\ now' = now + 1
    /\ eventSeals' \in SealedAt(now', events, eventSeals)
    /\ recordSeals' \in SealedAt(now', records, recordSeals)
    /\ IF /\ SealsKept(events, eventSeals', now')
          /\ SealsKept(records, recordSeals', now')
          /\ ClosesKept(now')
       THEN Behave ELSE Deviate
    /\ unclosed' = unclosed \cup {w \in Unclosed(now) : w.closeAt + CloseGrace <= now}
    /\ UNCHANGED <<streams, signed, service, requests, upkeeps>>

Doing ==
    \/ \E q \in Requests : Decide(q) \/ Misdecide(q)
    \/ SetStatus("stream.paused", {"active"}, "paused")
    \/ SetStatus("stream.resumed", {"paused"}, "active")
    \/ SetStatus("stream.archived", {"active", "paused"}, "archived")
    \/ \E c \in DOMAIN credentials : Revoke(c)
    \/ Amend \/ Close \/ Tick

RegistryNext ==
    /\ Doing
    /\ Len(requests') <= MaxRequests
    /\ Len(requests') + upkeeps' + deviations' <= MaxDoings

-----------------------------------------------------------------------------
(* Exports: a stream from its start to one of its checkpoints, with the    *)
(* time of an anchor over that checkpoint, if there is one.  A checkpoint  *)
(* is anchored while it is the stream's last, or within the seal grace.    *)

AnchorBy(checkpoints, n) ==
    IF n < Len(checkpoints) THEN checkpoints[n + 1].createdAt + SealGrace - 1 ELSE now

ExportTo(id, for, stream, checkpoints, n, anchored) ==
    [publicId |-> id, logFor |-> for, from |-> 1, to |-> checkpoints[n].to,
     events |-> SubSeq(stream, 1, checkpoints[n].to),
     checkpoints |-> SubSeq(checkpoints, 1, n),
     anchoredAt |-> IF anchored THEN AnchorBy(checkpoints, n) ELSE NoTime]

RegistryExports ==
    {ExportTo("registry", None, events, eventSeals, n, anchored) :
        n \in DOMAIN eventSeals, anchored \in BOOLEAN}

LogExports ==
    {ExportTo("log", "registry", records, recordSeals, n, anchored) :
        n \in DOMAIN recordSeals, anchored \in BOOLEAN}
=============================================================================
