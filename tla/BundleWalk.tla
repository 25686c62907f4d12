----------------------------- MODULE BundleWalk -----------------------------
(***************************************************************************)
(* The walk of verifyBundle (src/verify/walk.go): manifest.json,           *)
(* redactions.json and the ranges of checkpoints.json are read first, then *)
(* events.ndjson is streamed past one line at a time, closing checkpoint   *)
(* trees on the way, then every checkpoint is checked against its tree.    *)
(*                                                                         *)
(* A bundle is chosen in Init; its events.ndjson is chosen line by line    *)
(* from the bundle's own set of lines, so one bundle stands for every file *)
(* that can be written with them: the sealed events, the same with some    *)
(* deleted, repeated, exchanged, altered, or replaced by a log that        *)
(* diverged.                                                               *)
(*                                                                         *)
(* A hash is the record of the fields it was computed over, and the root   *)
(* of a Merkle tree is the sequence of its leaves: SHA-256 without         *)
(* collisions (MerkleStream relates the streamed root to its leaves).  The *)
(* fields of an event that only enter its entry preimage (occurred_at,     *)
(* received_at, actor, action, resource) are folded into payload_hash.     *)
(***************************************************************************)
EXTENDS Verdict, Seals, Sequences, FiniteSets

CONSTANTS
  Lines,        \* what a line of events.ndjson can be
  Checkpoints,  \* what an entry of checkpoints.json can be
  Bundles,      \* the bundles verified, see BundleShape
  ZeroHash,     \* the hash the first event and first checkpoint chain from
  MaxInt,       \* math.MaxInt64
  MaxLines      \* bound: the longest events.ndjson

MinInt == -MaxInt - 1

KnownFormats ==
  {"sigilbase-evidence/1",   "sigilbase-evidence/1.1", "sigilbase-evidence/1.2",
   "sigilbase-evidence/1.3", "sigilbase-evidence/1.4", "sigilbase-evidence/1.5",
   "sigilbase-evidence/1.6", "sigilbase-evidence/1.7"}

\* Checkpoints whose from and to are integers, in file order.
Ranges(b) == SelectSeq(b.checkpoints, LAMBDA cp : cp.hasRange)

AllRanged(b) == \A i \in 1..Len(b.checkpoints) : b.checkpoints[i].hasRange

\* What the constants must offer.  No file has more than MaxInt lines: a line has
\* at least one byte, and a file's size is such an integer.  The last two conjuncts
\* of BundleShape hold of every sequence of checkpoints, by what SelectSeq means.
\* A line of kind "garbage" is not a JSON object, one of kind "unnumbered" has
\* no integer seq.
LineShape(l) ==
  /\ l.kind \in {"event", "unnumbered", "garbage"}
  /\ l.seq \in MinInt..MaxInt

BundleShape(b) ==
  /\ b.from \in MinInt..MaxInt
  /\ b.to \in MinInt..MaxInt
  /\ b.lines \subseteq Lines
  /\ b.checkpoints \in Seq(Checkpoints)
  /\ Ranges(b) \in Seq(Checkpoints)
  /\ AllRanged(b) => Ranges(b) = b.checkpoints

ASSUME WalkAssumption ==
  /\ MaxInt \in Nat /\ MaxLines \in Nat /\ MaxLines <= MaxInt
  /\ \A l \in Lines : LineShape(l)
  /\ \A cp \in Checkpoints : cp.from \in MinInt..MaxInt /\ cp.to \in MinInt..MaxInt
  /\ \A b \in Bundles : BundleShape(b)

VARIABLES
  bundle,           \* the bundle under verification
  phase,            \* "open", "events", "checkpoints", "sealed" or "hard"
  hardCode,         \* the exit code of a run that stopped without a verdict
  results,          \* run.results
  expected,         \* the counter of the next sequence
  prevHash,         \* the entry_hash the next event must name, or None
  eventCount,       \* lines that were JSON objects
  redactedCount,    \* lines accepted as absent payloads
  absent,           \* absentSequences: the kind of each absence, by sequence
  entryHashAt,      \* entryHashBySequence, for the sequences of declarations
  cumulative,       \* the leaves of cumulativeStack
  open,             \* the leaves of checkpointStack
  trees,            \* the leaves of the checkpoints closed so far, by index
  rootAt,           \* cumulativeRootAt
  checked,          \* how many checkpoints have been checked
  prevCheckpoint,   \* the checkpoint_hash the next one must name, or None
  expectedFrom,     \* the counter of the next checkpoint's first sequence
  checkpointHashes, \* the checkpoint hashes an anchor may be over
  read              \* auxiliary: the lines of events.ndjson read so far

events    == <<expected, prevHash, eventCount, redactedCount, absent, entryHashAt,
               cumulative, open, trees, rootAt, read>>
passVars  == <<checked, prevCheckpoint, expectedFrom, checkpointHashes>>
vars      == <<bundle, phase, hardCode, results, events, passVars>>
-----------------------------------------------------------------------------
(* Sequence expectations: 64-bit, and past the last integer equal to none. *)

\* Two's complement: what 64-bit arithmetic makes of a sum of two integers.
Wrap(n) == IF n > MaxInt THEN n - 2 * (MaxInt + 1)
           ELSE IF n < MinInt THEN n + 2 * (MaxInt + 1) ELSE n

Counter(v) == [value |-> v, overflowed |-> FALSE]

\* The plain increment, which wraps to the smallest integer.
NextCounterWraps(v) == Counter(Wrap(v + 1))

\* No test for the last integer: a value 64 bits cannot hold.
NextCounterUnbounded(v) == Counter(v + 1)

NextCounter(v) == IF v = MaxInt THEN [value |-> 0, overflowed |-> TRUE]
                  ELSE Counter(v + 1)

CounterIs(c, v) == ~c.overflowed /\ c.value = v
CounterEndsAt(c, v) == ~c.overflowed /\ Wrap(c.value - 1) = v
-----------------------------------------------------------------------------
(* The hashes of events.                                                   *)

PayloadHash(payload) == [payload |-> payload]

EntryHash(stream, seq, payloadHash, prev) ==
  [stream |-> stream, seq |-> seq, payload_hash |-> payloadHash, prev |-> prev]

\* What SHA-256 returns is a digest.
ASSUME DigestAssumption ==
  /\ IsDigest(ZeroHash)
  /\ \A b \in Bundles, l \in Lines :
       IsDigest(EntryHash(b.stream, l.seq, l.payload_hash, l.prev))
  /\ \A b \in Bundles, cp \in Checkpoints : IsDigest(CheckpointHash(b.stream, cp))

-----------------------------------------------------------------------------
(* What a bundle says before its events are read.                          *)

\* The sequences redactions.json declares; those out of range are only noted.
Declared(b) == {s \in b.redactions : b.from <= s /\ s <= b.to}

\* The sizes asked for on the command line only.
RootSizesWantedOnly(b) == b.wanted

\* The cumulative tree sizes something asks about.
RootSizes(b) == {b.to} \cup {Ranges(b)[i].to : i \in DOMAIN Ranges(b)} \cup b.wanted

\* A bundle that cannot be verified at all: the exit code of the refusal.
NoRefusal == -1
ManifestRefusal(b) ==
  IF b.format \notin KnownFormats THEN ExitError
  ELSE IF ~b.hasRange \/ DOMAIN b.keys = {} THEN ExitFail ELSE NoRefusal

\* The manifest is looked at first, checkpoints.json after redactions.json.
Refusal(b) ==
  IF ManifestRefusal(b) # NoRefusal THEN ManifestRefusal(b)
  ELSE IF b.checkpoints = <<>> THEN ExitFail ELSE NoRefusal

Init ==
  /\ bundle \in Bundles
  /\ phase = "open"
  /\ hardCode = NoRefusal
  /\ results = NewResults
  /\ expected = Counter(bundle.from)
  /\ prevHash = IF bundle.from = 1 THEN ZeroHash ELSE None
  /\ eventCount = 0
  /\ redactedCount = 0
  /\ absent = <<>>
  /\ entryHashAt = <<>>
  /\ cumulative = <<>>
  /\ open = <<>>
  /\ trees = <<>>
  /\ rootAt = <<>>
  /\ checked = 0
  /\ prevCheckpoint = IF bundle.from = 1 THEN ZeroHash ELSE None
  /\ expectedFrom = Counter(bundle.from)
  /\ checkpointHashes = {}
  /\ read = <<>>

Hard(code) ==
  /\ phase' = "hard"
  /\ hardCode' = code

\* manifest.json, redactions.json and checkpoints.json, up to the first line.
Open ==
  /\ phase = "open"
  /\ results' = FailIf(ManifestRefusal(bundle) = NoRefusal /\ bundle.badRedactions,
                       results, "content_integrity")
  /\ \/ Refusal(bundle) # NoRefusal /\ Hard(Refusal(bundle))
     \/ Refusal(bundle) = NoRefusal /\ phase' = "events" /\ UNCHANGED hardCode
  /\ UNCHANGED <<bundle, events, passVars>>
-----------------------------------------------------------------------------
(* events.ndjson, one line at a time.                                      *)

Reading == phase = "events" /\ Len(read) < MaxLines

\* A line that is not a JSON object: nothing of it is walked.
ReadGarbage(l) ==
  /\ Reading
  /\ l.kind = "garbage"
  /\ results' = Report(results, "content_integrity")
  /\ read' = Append(read, l)
  /\ UNCHANGED <<bundle, phase, hardCode, expected, prevHash, eventCount,
                 redactedCount, absent, entryHashAt, cumulative, open, trees,
                 rootAt, passVars>>

\* An event without an integer sequence number: counted, and nothing else.
ReadUnnumbered(l) ==
  /\ Reading
  /\ l.kind = "unnumbered"
  /\ results' = Report(results, "content_integrity")
  /\ eventCount' = eventCount + 1
  /\ read' = Append(read, l)
  /\ UNCHANGED <<bundle, phase, hardCode, expected, prevHash, redactedCount,
                 absent, entryHashAt, cumulative, open, trees, rootAt, passVars>>

\* Only absences that redactions.json declares reach the declaration check.
AcceptedAbsenceDeclared(l) ==
  l.payload_state = "redacted" /\ l.payload = None /\ l.seq \in Declared(bundle)

\* An absent payload is accepted only when every signal in the line agrees.
AcceptedAbsence(l) == l.payload_state = "redacted" /\ l.payload = None

PayloadProblem(l) ==
  \/ l.payload_state \notin {"present", "redacted"}
  \/ l.payload_state = "redacted" /\ l.payload # None
  \/ l.payload_state = "present" /\ l.payload = None
  \/ /\ l.payload_state = "present" /\ l.payload # None
     /\ \/ l.seq \in Declared(bundle)
        \/ l.payload_hash # PayloadHash(l.payload)

\* Only the first line read is linked to what went before it.
LinkProblemFirstOnly(l) == prevHash # None /\ read = <<>> /\ l.prev # prevHash

LinkProblem(l) == prevHash # None /\ l.prev # prevHash

EntryProblem(l) ==
  l.entry # EntryHash(bundle.stream, l.seq, l.payload_hash, l.prev)

EventProblem(l) ==
  \/ ~CounterIs(expected, l.seq)
  \/ PayloadProblem(l)
  \/ LinkProblem(l)
  \/ EntryProblem(l)

\* An event's leaf: its entry hash as stated, when that is 32 bytes.
Leaf(l) == IF IsDigest(l.entry) THEN <<l.entry>> ELSE <<>>

\* Closes a checkpoint when its last event arrives, before the event is counted.
ClosedBeforeBoundary(sequence, n) ==
  /\ n \in Len(trees)..Len(Ranges(bundle))
  /\ \A i \in (Len(trees) + 1)..n : sequence >= Ranges(bundle)[i].to
  /\ n < Len(Ranges(bundle)) => sequence < Ranges(bundle)[n + 1].to

\* n is how many checkpoints are closed once sequence has gone past: every one
\* that ends before it, up to the first that does not.
ClosedBefore(sequence, n) ==
  /\ n \in Len(trees)..Len(Ranges(bundle))
  /\ \A i \in (Len(trees) + 1)..n : sequence > Ranges(bundle)[i].to
  /\ n < Len(Ranges(bundle)) => sequence <= Ranges(bundle)[n + 1].to

\* The first checkpoint closed takes the open leaves; the ones after it close
\* over none.
CloseUpTo(n) ==
  trees' = [i \in 1..n |-> IF i <= Len(trees) THEN trees[i]
                           ELSE IF i = Len(trees) + 1 THEN open ELSE <<>>]

\* A map with one more entry; an entry that was there is replaced.
With(map, key, value) ==
  [k \in DOMAIN map \cup {key} |-> IF k = key THEN value ELSE map[k]]

WithIf(condition, map, key, value) ==
  IF condition THEN With(map, key, value) ELSE map

ReadEvent(l) ==
  /\ Reading
  /\ l.kind = "event"
  /\ results' = FailIf(EventProblem(l), results, "content_integrity")
  /\ eventCount' = eventCount + 1
  /\ redactedCount' = redactedCount + (IF AcceptedAbsence(l) THEN 1 ELSE 0)
  /\ absent' = WithIf(AcceptedAbsence(l), absent, l.seq,
                      IF l.absence = "erased" THEN "erased" ELSE "redacted")
  /\ entryHashAt' = WithIf(l.seq \in bundle.retain, entryHashAt, l.seq, l.entry)
  /\ \E n \in Len(trees)..Len(Ranges(bundle)) :
       /\ ClosedBefore(l.seq, n)
       /\ CloseUpTo(n)
       /\ open' = (IF n > Len(trees) THEN <<>> ELSE open) \o Leaf(l)
  /\ cumulative' = cumulative \o Leaf(l)
  /\ rootAt' = WithIf(bundle.from = 1 /\ cumulative' # <<>>
                        /\ l.seq \in RootSizes(bundle), rootAt, l.seq, cumulative')
  /\ prevHash' = l.entry
  /\ expected' = NextCounter(l.seq)
  /\ read' = Append(read, l)
  /\ UNCHANGED <<bundle, phase, hardCode, passVars>>

\* A line longer than MaxLineBytes (nothing was verified) or a read error.
ReadFails ==
  /\ phase = "events"
  /\ \E code \in {ExitError, ExitFail} : Hard(code)
  /\ UNCHANGED <<bundle, results, events, passVars>>

\* End of file: close what is still open, compare with the manifest's range.
EndEvents ==
  /\ phase = "events"
  /\ CloseUpTo(Len(Ranges(bundle)))
  /\ open' = <<>>
  /\ results' = FailIf(~CounterEndsAt(expected, bundle.to), results,
                       "content_integrity")
  /\ \/ eventCount = 0 /\ Hard(ExitFail)
     \/ eventCount > 0 /\ phase' = "checkpoints" /\ UNCHANGED hardCode
  /\ UNCHANGED <<bundle, expected, prevHash, eventCount, redactedCount, absent,
                 entryHashAt, cumulative, rootAt, read, passVars>>
-----------------------------------------------------------------------------
(* checkpoints.json, one checkpoint at a time.                             *)

Checking == phase = "checkpoints" /\ checked < Len(bundle.checkpoints)

\* The tree closed for a checkpoint that starts at from: of two such the later
\* closing counts, and a checkpoint never closed has no leaves.
TreeFrom(from) ==
  LET same == {i \in 1..Len(trees) : Ranges(bundle)[i].from = from}
  IN IF same = {} THEN <<>>
     ELSE trees[CHOOSE i \in same : \A j \in same : j <= i]

\* The leaf count decides first: the root is compared when none is missing.
TreeProblem(cp) ==
  \/ Len(TreeFrom(cp.from)) < Wrap(cp.to - cp.from + 1)
  \/ cp.root # TreeFrom(cp.from)

CheckpointProblem(cp) ==
  \/ ~CounterIs(expectedFrom, cp.from)
  \/ cp.hash # CheckpointHash(bundle.stream, cp)
  \/ prevCheckpoint # None /\ cp.prev # prevCheckpoint
  \/ cp.key \notin DOMAIN bundle.keys
  \/ /\ cp.key \in DOMAIN bundle.keys \ DOMAIN TrustedKeys
     /\ WindowProblem(bundle.keys[cp.key], cp.created_at)
  \/ ~SignatureValid(cp)
  \/ TreeProblem(cp)

\* Lets the bundle state the window of a trusted key.
CheckIdentityByManifest(cp, r) ==
  IF cp.key \in DOMAIN TrustedKeys
  THEN FailIf(cp.key \in DOMAIN bundle.keys
                /\ WindowProblem(bundle.keys[cp.key], cp.created_at), r, "signing_identity")
  ELSE Unconfirmed(r, "signing_identity")

\* A key outside the trusted set leaves the origin unconfirmed; the trusted
\* set's own window wins over the one the manifest states.
CheckIdentity(cp, r) ==
  IF cp.key \in DOMAIN TrustedKeys
  THEN FailIf(WindowProblem(TrustedKeys[cp.key], cp.created_at), r,
              "signing_identity")
  ELSE Unconfirmed(r, "signing_identity")

CheckCheckpoint ==
  /\ Checking
  /\ LET cp == bundle.checkpoints[checked + 1] IN
       /\ cp.hasRange
       /\ results' = CheckIdentity(cp, FailIf(CheckpointProblem(cp), results,
                                              "content_integrity"))
       /\ checkpointHashes' = checkpointHashes \cup {cp.hash}
       /\ prevCheckpoint' = cp.hash
       /\ expectedFrom' = NextCounter(cp.to)
  /\ checked' = checked + 1
  /\ UNCHANGED <<bundle, phase, hardCode, events>>

\* A checkpoint without an integer range is reported and passed over.
SkipCheckpoint ==
  /\ Checking
  /\ ~bundle.checkpoints[checked + 1].hasRange
  /\ results' = Report(results, "content_integrity")
  /\ checked' = checked + 1
  /\ UNCHANGED <<bundle, phase, hardCode, events, prevCheckpoint, expectedFrom,
                 checkpointHashes>>

\* After the last one: do the checkpoints reach the end of the range?
EndCheckpoints ==
  /\ phase = "checkpoints"
  /\ checked = Len(bundle.checkpoints)
  /\ phase' = "sealed"
  /\ results' = FailIf(~CounterEndsAt(expectedFrom, bundle.to), results, "scope")
  /\ UNCHANGED <<bundle, hardCode, events, passVars>>

Next ==
  \/ Open
  \/ \E l \in bundle.lines : ReadGarbage(l) \/ ReadUnnumbered(l) \/ ReadEvent(l)
  \/ ReadFails
  \/ EndEvents
  \/ CheckCheckpoint
  \/ SkipCheckpoint
  \/ EndCheckpoints

Spec == Init /\ [][Next]_vars
-----------------------------------------------------------------------------
Entries == {l.entry : l \in Lines}

Counters == [value : MinInt..MaxInt, overflowed : BOOLEAN]

TypeOK ==
  /\ bundle \in Bundles
  /\ phase \in {"open", "events", "checkpoints", "sealed", "hard"}
  /\ hardCode \in {NoRefusal, ExitFail, ExitError}
  /\ results \in Verdicts
  /\ expected \in Counters /\ expectedFrom \in Counters
  /\ eventCount \in Nat /\ redactedCount \in Nat
  /\ read \in Seq(Lines)
  /\ cumulative \in Seq(Entries) /\ open \in Seq(Entries)
  /\ trees \in Seq(Seq(Entries)) /\ Len(trees) <= Len(Ranges(bundle))
  /\ checked \in 0..Len(bundle.checkpoints)

Clean == results["content_integrity"] = "pass"

\* The line read as number i is the event of that place in one chain.
InChain(i) ==
  /\ read[i].kind = "event"
  /\ read[i].seq = bundle.from + i - 1
  /\ read[i].entry = EntryHash(bundle.stream, read[i].seq,
                               read[i].payload_hash, read[i].prev)
  /\ cumulative[i] = read[i].entry
  /\ i > 1 => read[i].prev = read[i - 1].entry
  /\ i = 1 /\ bundle.from = 1 => read[i].prev = ZeroHash
  /\ read[i].payload # None => read[i].payload_hash = PayloadHash(read[i].payload)

\* While content integrity holds, what has been read of events.ndjson is one
\* unbroken stretch of one chain: the sequences run up from range.from without a
\* gap or a repetition, every entry hash recomputes and is the next line's
\* prev_hash, every event put its leaf in the tree, and no payload shown is other
\* than the one hashed ("deleted, inserted, or reordered" is reported, walk.go).
CleanWalkIsOneChain ==
  Clean => Len(cumulative) = Len(read) /\ \A i \in 1..Len(read) : InChain(i)

\* The lines of a range are the lines from m + 1 to n, and the tree is over them.
EntriesOf(lines, m, n) == [k \in 1..(n - m) |-> lines[m + k].entry]

IsTreeOver(tree, lines, rg) ==
  \E m, n \in 0..Len(lines) :
    /\ tree = EntriesOf(lines, m, n)
    /\ \A i \in 1..Len(lines) :
         m < i /\ i <= n <=> rg.from <= lines[i].seq /\ lines[i].seq <= rg.to

\* "A tree left open would fold the next checkpoint's events into this one's
\* root" (walk.go): as long as the events that arrived are in order, and the
\* checkpoints are, each closed tree is over exactly the events that arrived of
\* its own range - whichever of them are missing, the last one included.
InOrder ==
  /\ \A i \in 1..Len(read) : read[i].kind = "event" /\ IsDigest(read[i].entry)
  /\ \A i, j \in 1..Len(read) : i < j => read[i].seq < read[j].seq
  /\ \A i \in 1..Len(read) : bundle.from <= read[i].seq /\ read[i].seq <= bundle.to

RangesPartition ==
  LET rs == Ranges(bundle) IN
  /\ rs # <<>> /\ rs[1].from = bundle.from /\ rs[Len(rs)].to = bundle.to
  /\ \A i \in 1..Len(rs) : rs[i].from <= rs[i].to
  /\ \A i \in 1..(Len(rs) - 1) : rs[i].to + 1 = rs[i + 1].from

ClosedTreeIsItsRange ==
  InOrder /\ RangesPartition =>
    \A i \in 1..Len(trees) : IsTreeOver(trees[i], read, Ranges(bundle)[i])

\* "Absence must be declared, never implied" (walk.go): while content integrity
\* holds, the absences handed to the declaration check are exactly the lines that
\* came without a payload, each under its own kind and counted once; a payload
\* that redactions.json calls redacted is not there.
AbsencesAreAccountedFor ==
  Clean =>
    LET gone == {i \in 1..Len(read) : read[i].payload = None} IN
    /\ DOMAIN absent = {read[i].seq : i \in gone}
    /\ redactedCount = Cardinality(gone)
    /\ \A i \in gone : absent[read[i].seq] = "erased" <=> read[i].absence = "erased"
    /\ \A i \in 1..Len(read) : read[i].seq \in Declared(bundle) => i \in gone

\* A cumulative root is captured only for a log walked from sequence 1, and the
\* root at a tree size is then the root of exactly that many leaves: the tree
\* state a report offers for a later --consistency names the prefix it is of.
CapturedRootIsOfItsSize ==
  /\ DOMAIN rootAt # {} => bundle.from = 1
  /\ Clean =>
       /\ \A s \in DOMAIN rootAt : Len(rootAt[s]) = s
       /\ bundle.from = 1 /\ phase \in {"checkpoints", "sealed"} =>
            bundle.to \in DOMAIN rootAt /\ rootAt[bundle.to] = cumulative

\* The 64-bit arithmetic of the range checks decides nothing: a bundle whose
\* content and scope hold ends before the largest integer, and when none of its
\* checkpoints runs backwards, none had a length that wrapped around and each is
\* part of the range.  (After one that runs backwards a length may: walk.go does
\* not compare the ends of a checkpoint, and a negative length asks for no leaf.)
NothingWrapped ==
  /\ phase = "sealed"
  /\ Clean /\ results["scope"] = "pass"
  => /\ bundle.to < MaxInt
     /\ LET cps == bundle.checkpoints IN
        (\A i \in 1..Len(cps) : cps[i].from <= cps[i].to) =>
          \A i \in 1..Len(cps) : /\ cps[i].to - cps[i].from + 1 \in MinInt..MaxInt
                                 /\ bundle.from <= cps[i].from /\ cps[i].to <= bundle.to
=============================================================================
