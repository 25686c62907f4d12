---------------------------- MODULE SealedRange ----------------------------
(***************************************************************************)
(* What a verified bundle is evidence of.  The walk (BundleWalk) never     *)
(* sees the log Sigilbase sealed, only a file that claims to be an export  *)
(* of it.  This module states that log and its seals as constants and says *)
(* what the verdict has to do with them, in both directions.               *)
(***************************************************************************)
EXTENDS BundleWalk

CONSTANTS
  Stream,   \* the sealed stream
  Log,      \* its events, as lines of events.ndjson with their payloads
  Seals     \* the checkpoints Sigilbase signed over it

\* The sealed log is a hash chain from sequence 1.
IsChain(log) ==
  \A i \in 1..Len(log) :
    /\ log[i].kind = "event" /\ log[i].seq = i
    /\ log[i].payload_hash = PayloadHash(log[i].payload)
    /\ log[i].prev = IF i = 1 THEN ZeroHash ELSE log[i - 1].entry
    /\ log[i].entry = EntryHash(Stream, i, log[i].payload_hash, log[i].prev)

\* A time that is written down is a number of seconds.
IsTime(t) == Bound(t) /\ t \in Int

\* The time is inside a window whose absent ends are open.
InWindow(window, t) ==
  /\ IsTime(t)
  /\ window.created = None \/ (IsTime(window.created) /\ window.created <= t)
  /\ window.retired = None \/ (IsTime(window.retired) /\ t <= window.retired)

\* A seal covers one stretch of it, by a key of the trusted set inside its window.
IsSeal(cp) ==
  /\ 1 <= cp.from /\ cp.from <= cp.to /\ cp.to <= Len(Log)
  /\ cp.hasRange
  /\ cp.root = [k \in 1..(cp.to - cp.from + 1) |-> Log[cp.from + k - 1].entry]
  /\ cp.hash = CheckpointHash(Stream, cp)
  /\ cp.key \in DOMAIN TrustedKeys
  /\ InWindow(TrustedKeys[cp.key], cp.created_at)
  /\ cp.signature = Signature(cp.key, cp.hash)

\* Ed25519 without forgeries, for as long as a key is in use: whatever a bundle
\* carries, a valid signature of a trusted key that is dated inside the window the
\* trusted set states is over the hash of a seal.  Of one dated outside it, by a
\* key that was retired and may be in anybody's hands, nothing is assumed.
NoForgery(b) ==
  \A i \in 1..Len(b.checkpoints) :
    LET cp == b.checkpoints[i] IN
    /\ SignatureValid(cp)
    /\ cp.key \in DOMAIN TrustedKeys /\ InWindow(TrustedKeys[cp.key], cp.created_at)
    => \E s \in Seals : s.hash = cp.hash

\* A time as it is written: a number of seconds, absent, or no date.
Times == Int \cup {None, Malformed}

ASSUME SealedLogAssumption ==
  /\ Log \in Seq(Lines) /\ IsChain(Log)
  /\ Seals \subseteq Checkpoints /\ \A s \in Seals : IsSeal(s)
  /\ \A cp \in Checkpoints : cp.created_at \in Times
  /\ \A key \in DOMAIN TrustedKeys :
       TrustedKeys[key].created \in Times /\ TrustedKeys[key].retired \in Times
  /\ \A b \in Bundles : NoForgery(b)
-----------------------------------------------------------------------------
\* A line of events.ndjson that shows the sealed event i: all of its hashed
\* fields, and its payload or none.
Shows(l, i) ==
  /\ l.kind = "event" /\ l.seq = i
  /\ l.payload_hash = Log[i].payload_hash
  /\ l.prev = Log[i].prev /\ l.entry = Log[i].entry
  /\ l.payload \in {Log[i].payload, None}

Verified ==
  /\ phase = "sealed"
  /\ \A n \in {"content_integrity", "signing_identity", "scope"} : results[n] = "pass"

\* The verifier's promise: when content integrity, signing identity and scope
\* hold, events.ndjson is the sealed log of that stream over the whole of the
\* range the manifest names - no event missing, added, repeated, moved or
\* altered - although the walk is only ever shown the file itself.
VerifiedIsSealed ==
  Verified =>
    /\ bundle.stream = Stream
    /\ 1 <= bundle.from /\ bundle.from <= bundle.to /\ bundle.to <= Len(Log)
    /\ Len(read) = bundle.to - bundle.from + 1
    /\ \A i \in 1..Len(read) : Shows(read[i], bundle.from + i - 1)

\* An export Sigilbase makes: consecutive seals over one range, each linked to
\* the one before, their keys in the manifest.
HonestBundle ==
  LET cps == bundle.checkpoints IN
  /\ Refusal(bundle) = NoRefusal /\ ~bundle.badRedactions
  /\ bundle.stream = Stream
  /\ \A i \in 1..Len(cps) : cps[i] \in Seals /\ cps[i].key \in DOMAIN bundle.keys
  /\ bundle.from = cps[1].from /\ bundle.to = cps[Len(cps)].to
  /\ \A i \in 1..(Len(cps) - 1) : /\ cps[i].to + 1 = cps[i + 1].from
                                  /\ cps[i + 1].prev = cps[i].hash
  /\ bundle.from = 1 => cps[1].prev = ZeroHash

\* Its line for event i: whole, or marked as redacted; never whole while
\* redactions.json says it was redacted.
HonestLine(l, i) ==
  /\ i <= bundle.to /\ Shows(l, i)
  /\ \/ l.payload = None /\ l.payload_state = "redacted"
     \/ l.payload # None /\ l.payload_state = "present" /\ i \notin Declared(bundle)

\* No false alarm: while the lines of an honest export arrive in order nothing
\* is reported, and once all of them have, every result still stands - unless
\* the log has reached the last sequence number a 64-bit counter can count past.
HonestExportVerifies ==
  /\ HonestBundle /\ bundle.to < MaxInt
  /\ \A i \in 1..Len(read) : HonestLine(read[i], bundle.from + i - 1)
  => \/ results = NewResults
     \/ /\ phase \notin {"open", "events"}
        /\ Len(read) < bundle.to - bundle.from + 1
=============================================================================
