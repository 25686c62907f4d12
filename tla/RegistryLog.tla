---------------------------- MODULE RegistryLog ----------------------------
(***************************************************************************)
(* A registry and its decision log as --reconcile reads them back from     *)
(* verified bundles (src/verify/receipts.go).                              *)
(*                                                                         *)
(* A bundle is [publicId, logFor, from, to, events, checkpoints,           *)
(* anchoredAt]: events maps a sequence to its event, checkpoints is a      *)
(* sequence of [from, to, createdAt].  A registry event is [entry,         *)
(* content, receivedAt]; content is what a request digest covers besides   *)
(* the commitment key.  A log record is [action, outcome, receivedAt,      *)
(* payload]: an ingress.<outcome> record has the action "ingress", and     *)
(* every other record the outcome None.  Hashes are the records they are   *)
(* computed over.  Times are whole numbers; a time that does not parse is  *)
(* NoTime, and a field that is absent, null or of another type is None.    *)
(***************************************************************************)
EXTENDS Integers, Sequences, FiniteSetsExt, SequencesExt, TLC

CONSTANTS
    None,
    MSD,            \* msdSecondsRequired, 900: the maximum seal delay
    SealGrace,      \* sealGraceSeconds, 120
    CloseGrace      \* windowCloseGrace, 300

ASSUME TimesAssumption == MSD \in Nat \ {0} /\ {SealGrace, CloseGrace} \subseteq Nat

NoTime == 0 - 1
Known(t) == t # NoTime

RequestDigest(event, key) == <<event.content, key>>

PolicyHash(rules, windows) == <<rules, windows>>

\* loadVerifiedBundle's events by sequence: whether there is one.
HasEvent(bundle, n) == n \in DOMAIN bundle.events

\* The events of a bundle in the order of their sequences.
InOrder(bundle) ==
    LET present == DOMAIN bundle.events
    IN SelectSeq([n \in 1..Max({0} \cup present) |-> n], LAMBDA n : n \in present)

\* The time a bundle was known complete: its latest checkpoint, or its latest
\* trusted anchor, whichever is later.
CompleteAt(bundle) ==
    Max({NoTime, bundle.anchoredAt}
          \cup {bundle.checkpoints[i].createdAt : i \in DOMAIN bundle.checkpoints})

-----------------------------------------------------------------------------
(* readRegistryLog: one pass over the log, in log order.                   *)

NothingRead ==
    [policies |-> <<>>,         \* as recorded, the first record of each version
     parts |-> <<>>,            \* version -> its policy.windows records' windows
     credentials |-> <<>>,      \* credential -> expiry, None when it has none
     status |-> "active",
     decisions |-> <<>>,        \* the ingress.* records that have a payload
     closes |-> <<>>,
     last |-> NoTime,           \* received_at of the last record that has one
     policyProblem |-> FALSE, credentialProblem |-> FALSE]

StatusAfter(action, status) ==
    CASE action = "stream.paused"   -> "paused"
      [] action = "stream.resumed"  -> "active"
      [] action = "stream.archived" -> "archived"
      [] OTHER                      -> status

ReadPolicy(out, n, record) ==
    LET p == record.payload IN
    IF p.version = None \/ p.version \in DOMAIN out.parts
    THEN [out EXCEPT !.policyProblem = TRUE]
    ELSE [out EXCEPT
            !.policies = Append(@, [version |-> p.version, sequence |-> n,
                                    action |-> record.action, hash |-> p.hash,
                                    effectiveAt |-> p.effectiveAt,
                                    recordedAt |-> record.receivedAt,
                                    rules |-> p.rules,
                                    count |-> p.count, parts |-> p.parts]),
            !.parts = (p.version :> <<>>) @@ @]

\* Windows come in numbered parts, in order, after their policy.
ReadWindows(out, p) ==
    IF p.version \in DOMAIN out.parts /\ p.part = Len(out.parts[p.version]) + 1
    THEN [out EXCEPT !.parts[p.version] = Append(@, p.windows)]
    ELSE [out EXCEPT !.policyProblem = TRUE]

\* Whether the log shows the credential able to submit at that time.
AbleAt(credentials, credential, at) ==
    /\ credential \in DOMAIN credentials
    /\ LET expiry == credentials[credential] IN
       expiry # None => Known(expiry) /\ Known(at) /\ at < expiry

ReadDecision(out, n, record) ==
    LET p == record.payload IN
    [out EXCEPT
       !.decisions = Append(@, [sequence |-> n, outcome |-> record.outcome,
                                at |-> record.receivedAt, payload |-> p,
                                status |-> out.status]),
       !.credentialProblem =
          @ \/ /\ record.outcome = "accepted"
               /\ ~AbleAt(out.credentials, p.credential, record.receivedAt)]

Forget(credentials, c) == [d \in DOMAIN credentials \ {c} |-> credentials[d]]

ReadRecord(out, n, record) ==
    LET seen == [out EXCEPT
                   !.last = IF Known(record.receivedAt) THEN record.receivedAt ELSE @,
                   !.status = StatusAfter(record.action, @)]
        p == record.payload
    IN IF p = None THEN seen    \* noted, and not read
       ELSE CASE record.action \in {"policy.committed", "policy.amended"} ->
                   ReadPolicy(seen, n, record)
              [] record.action = "policy.windows" -> ReadWindows(seen, p)
              [] record.action = "credentials.snapshot" ->
                   [seen EXCEPT !.credentials = p.credentials @@ @]
              [] record.action = "credential.issued" ->
                   [seen EXCEPT !.credentials = (p.credential :> p.expiresAt) @@ @]
              [] record.action \in {"credential.revoked", "credential.expired"} ->
                   [seen EXCEPT !.credentials = Forget(@, p.credential)]
              [] record.action = "window.closed" ->
                   [seen EXCEPT !.closes = Append(@, p)]
              [] record.action = "ingress" -> ReadDecision(seen, n, record)
              [] OTHER -> seen

\* Each policy with its windows joined back; none when they are not all there.
Joined(p, parts) ==
    LET all == FlattenSeq(parts[p.version])
        whole == /\ p.rules # None
                 /\ p.parts = Len(parts[p.version])
                 /\ p.count = Len(all)
    IN [windows |-> IF whole THEN all ELSE <<>>,
        broken |-> ~whole \/ p.hash # PolicyHash(p.rules, all)] @@ p

ReadRegistryLog(log) ==
    LET last == Max({0} \cup DOMAIN log.events)
        readTo[n \in 0..last] ==
          CASE n = 0 -> NothingRead
            [] n > 0 /\ HasEvent(log, n) -> ReadRecord(readTo[n - 1], n, log.events[n])
            [] OTHER -> readTo[n - 1]
        out == readTo[last]
    IN [out EXCEPT !.policies = [i \in DOMAIN @ |-> Joined(@[i], out.parts)]]

-----------------------------------------------------------------------------
(* What the rules ask of what was read.                                    *)

Accepted(read) == SelectSeq(read.decisions, LAMBDA d : d.outcome = "accepted")

\* A later window of a key replaces an earlier one of the same version.
WindowOf(policy, key) ==
    LET places == {i \in DOMAIN policy.windows : policy.windows[i].key = key}
    IN IF key = None \/ places = {} THEN None ELSE policy.windows[Max(places)]

LastPolicy(read, Such(_)) ==
    LET places == {i \in DOMAIN read.policies : Such(read.policies[i])}
    IN IF places = {} THEN None ELSE read.policies[Max(places)]

EffectiveBy(policy, at) ==
    Known(at) /\ Known(policy.effectiveAt) /\ policy.effectiveAt <= at

\* The policy a decision is made under: the last one recorded before it whose
\* effective_at is not after it.
InForce(read, at, before) ==
    LastPolicy(read, LAMBDA p : p.sequence < before /\ EffectiveBy(p, at))
=============================================================================
