------------------------- MODULE SealedRangeProofs -------------------------
(***************************************************************************)
(* What the walk of a bundle's events guarantees, for every bundle and     *)
(* every events.ndjson, and the verifier's promise in both directions: a   *)
(* bundle whose content integrity, signing identity and scope hold shows   *)
(* the sealed log, and an export of the sealed log is not blamed.          *)
(***************************************************************************)
EXTENDS SealedRange, VerdictProofs, FiniteSetTheorems, WellFoundedInduction

-----------------------------------------------------------------------------
(* The walk of a bundle.                                                   *)

\* What the assumptions on the constants say of one bundle.
LEMMA BundleFacts ==
  ASSUME NEW b \in Bundles
  PROVE  /\ b.from \in MinInt..MaxInt /\ b.to \in MinInt..MaxInt
         /\ b.lines \subseteq Lines
         /\ b.checkpoints \in Seq(Checkpoints) /\ Len(b.checkpoints) \in Nat
         /\ Ranges(b) \in Seq(Checkpoints) /\ Len(Ranges(b)) \in Nat
         /\ AllRanged(b) => Ranges(b) = b.checkpoints
  BY WalkAssumption DEF BundleShape

\* The ends of the 64-bit range.
LEMMA IntegerFacts == MaxInt \in Nat /\ MinInt \in Int /\ MinInt < 0
  BY WalkAssumption DEF MinInt

\* counter.next (walk.go) never leaves 64 bits.
LEMMA CounterType ==
  ASSUME NEW v \in MinInt..MaxInt
  PROVE  Counter(v) \in Counters /\ NextCounter(v) \in Counters
  BY IntegerFacts DEF Counter, NextCounter, Counters

\* A counter that ends at a range's end was counted on from it.
LEMMA EndsAtLast ==
  ASSUME NEW v \in MinInt..MaxInt, NEW last \in MinInt..MaxInt,
         CounterEndsAt(NextCounter(v), last)
  PROVE  v = last
  <1>1. v # MaxInt /\ Wrap(v + 1 - 1) = last
    BY IntegerFacts DEF CounterEndsAt, NextCounter, Counter
  <1>2. Wrap(v) = v
    BY IntegerFacts DEF Wrap
  <1>3. v + 1 - 1 = v
    BY IntegerFacts
  <1>4. QED
    BY <1>1, <1>2, <1>3

\* The names the walk uses are results and states.
LEMMA ResultNames ==
  /\ {"content_integrity", "signing_identity", "scope"} \subseteq Results
  /\ {"fail", "unconfirmed", "not_checked", "pass"} \subseteq States
  BY DEF Results, States

\* The leaf of an event is at most its stated entry hash.
LEMMA LeafType ==
  ASSUME NEW l \in Lines
  PROVE  Leaf(l) \in Seq(Entries) /\ l.entry \in Entries
  BY DEF Leaf, Entries

\* Closing checkpoints adds trees at the end and keeps the ones there were.
LEMMA CloseUpToType ==
  ASSUME trees \in Seq(Seq(Entries)), open \in Seq(Entries), NEW n \in Nat,
         n >= Len(trees), CloseUpTo(n)
  PROVE  /\ trees' \in Seq(Seq(Entries)) /\ Len(trees') = n
         /\ \A i \in 1..Len(trees) : trees'[i] = trees[i]
         /\ n > Len(trees) => trees'[Len(trees) + 1] = open
         /\ \A i \in (Len(trees) + 2)..n : trees'[i] = <<>>
  <1>1. trees' = [i \in 1..n |-> IF i <= Len(trees) THEN trees[i]
                                 ELSE IF i = Len(trees) + 1 THEN open ELSE <<>>]
    BY DEF CloseUpTo
  <1>2. Len(trees) \in Nat /\ \A i \in 1..Len(trees) : trees[i] \in Seq(Entries)
    OBVIOUS
  <1>3. <<>> \in Seq(Entries)
    OBVIOUS
  <1>4. trees' \in [1..n -> Seq(Entries)]
    BY <1>1, <1>2, <1>3
  <1>5. trees' \in Seq(Seq(Entries)) /\ Len(trees') = n
    BY <1>4
  <1>6. QED
    BY <1>1, <1>2, <1>5

\* A walk starts well formed.
LEMMA InitType == Init => TypeOK
  <1> SUFFICES ASSUME Init PROVE TypeOK
    OBVIOUS
  <1>1. /\ bundle \in Bundles /\ Len(Ranges(bundle)) \in Nat
        /\ Len(bundle.checkpoints) \in Nat /\ Counter(bundle.from) \in Counters
    BY BundleFacts, CounterType DEF Init
  <1>2. results \in Verdicts
    BY ResultNames DEF Init, NewResults, Verdicts
  <1>3. QED
    BY <1>1, <1>2 DEF Init, TypeOK, NoRefusal

\* Every line read, checkpoint closed and checkpoint checked keeps the walk well
\* formed.
LEMMA NextType == TypeOK /\ [Next]_vars => TypeOK'
  <1> SUFFICES ASSUME TypeOK, [Next]_vars PROVE TypeOK'
    OBVIOUS
  <1>1. /\ bundle \in Bundles /\ results \in Verdicts /\ read \in Seq(Lines)
        /\ cumulative \in Seq(Entries) /\ open \in Seq(Entries)
        /\ trees \in Seq(Seq(Entries)) /\ Len(trees) \in Nat
        /\ Len(trees) <= Len(Ranges(bundle))
        /\ checked \in 0..Len(bundle.checkpoints)
        /\ eventCount \in Nat /\ redactedCount \in Nat
    BY DEF TypeOK
  <1>2. /\ bundle.lines \subseteq Lines /\ Len(Ranges(bundle)) \in Nat
        /\ Len(bundle.checkpoints) \in Nat
        /\ \A l \in bundle.lines : l \in Lines /\ l.seq \in MinInt..MaxInt
        /\ \A i \in 1..Len(bundle.checkpoints) : bundle.checkpoints[i] \in Checkpoints
    BY <1>1, BundleFacts, WalkAssumption DEF LineShape
  <1>3. CASE Open
    <2>1. results' \in Verdicts
      BY <1>1, <1>3, FailIfType, ResultNames DEF Open
    <2>2. hardCode' \in {NoRefusal, ExitFail, ExitError}
      BY <1>3 DEF Open, Hard, Refusal, ManifestRefusal, TypeOK
    <2>3. QED
      BY <1>3, <2>1, <2>2 DEF Open, Hard, TypeOK, events, passVars
  <1>4. ASSUME NEW l \in bundle.lines, ReadGarbage(l)
        PROVE  TypeOK'
    <2>1. results' \in Verdicts /\ read' \in Seq(Lines)
      BY <1>1, <1>2, <1>4, ReportFails, ResultNames DEF ReadGarbage
    <2>2. QED
      BY <1>4, <2>1 DEF ReadGarbage, Reading, TypeOK, passVars
  <1>5. ASSUME NEW l \in bundle.lines, ReadUnnumbered(l)
        PROVE  TypeOK'
    <2>1. results' \in Verdicts /\ read' \in Seq(Lines)
      BY <1>1, <1>2, <1>5, ReportFails, ResultNames DEF ReadUnnumbered
    <2>2. QED
      BY <1>5, <2>1 DEF ReadUnnumbered, Reading, TypeOK, passVars
  <1>6. ASSUME NEW l \in bundle.lines, ReadEvent(l)
        PROVE  TypeOK'
    <2>1. results' \in Verdicts /\ read' \in Seq(Lines)
      <3>1. /\ results' = FailIf(EventProblem(l), results, "content_integrity")
            /\ read' = Append(read, l)
        BY <1>6 DEF ReadEvent
      <3>2. QED
        BY <1>1, <1>2, <3>1, FailIfType, ResultNames
    <2>2. expected' \in Counters /\ eventCount' \in Nat /\ redactedCount' \in Nat
      <3>1. /\ expected' = NextCounter(l.seq) /\ eventCount' = eventCount + 1
            /\ redactedCount' = redactedCount + (IF AcceptedAbsence(l) THEN 1 ELSE 0)
        BY <1>6 DEF ReadEvent
      <3>2. QED
        BY <1>1, <1>2, <3>1, CounterType
    <2>3. Leaf(l) \in Seq(Entries)
      BY <1>2, LeafType
    <2>4. PICK n \in Len(trees)..Len(Ranges(bundle)) :
            /\ CloseUpTo(n)
            /\ open' = (IF n > Len(trees) THEN <<>> ELSE open) \o Leaf(l)
      BY <1>6 DEF ReadEvent
    <2>5. trees' \in Seq(Seq(Entries)) /\ Len(trees') = n
      BY <1>1, <1>2, <2>4, CloseUpToType
    <2>6. open' \in Seq(Entries) /\ cumulative' \in Seq(Entries)
      BY <1>1, <1>6, <2>3, <2>4 DEF ReadEvent
    <2>7. QED
      BY <1>2, <1>6, <2>1, <2>2, <2>5, <2>6 DEF ReadEvent, Reading, TypeOK, passVars
  <1>7. CASE ReadFails
    BY <1>7 DEF ReadFails, Hard, TypeOK, events, passVars
  <1>8. CASE EndEvents
    <2>1. results' \in Verdicts
      BY <1>1, <1>8, FailIfType, ResultNames DEF EndEvents
    <2>2. trees' \in Seq(Seq(Entries)) /\ Len(trees') = Len(Ranges(bundle))
      BY <1>1, <1>2, <1>8, CloseUpToType DEF EndEvents
    <2>3. QED
      BY <1>2, <1>8, <2>1, <2>2 DEF EndEvents, Hard, TypeOK, passVars
  <1>9. CASE CheckCheckpoint
    <2> DEFINE cp == bundle.checkpoints[checked + 1]
    <2>1. cp \in Checkpoints /\ cp.to \in MinInt..MaxInt
      BY <1>1, <1>2, <1>9, WalkAssumption DEF CheckCheckpoint, Checking
    <2>2. FailIf(CheckpointProblem(cp), results, "content_integrity") \in Verdicts
      BY <1>1, FailIfType, ResultNames
    <2>3. results' \in Verdicts
      <3>1. results' = CheckIdentity(cp, FailIf(CheckpointProblem(cp), results,
                                                "content_integrity"))
        BY <1>9 DEF CheckCheckpoint
      <3>2. QED
        BY <3>1, <2>2, FailIfType, DemoteType, ResultNames
           DEF CheckIdentity, Unconfirmed
    <2>4. expectedFrom' \in Counters
      BY <1>9, <2>1, CounterType DEF CheckCheckpoint
    <2>5. checked' \in 0..Len(bundle.checkpoints)
      BY <1>1, <1>2, <1>9 DEF CheckCheckpoint, Checking
    <2>6. QED
      BY <1>9, <2>3, <2>4, <2>5 DEF CheckCheckpoint, TypeOK, events
  <1>10. CASE SkipCheckpoint
    <2>1. results' \in Verdicts
      BY <1>1, <1>10, ReportFails, ResultNames DEF SkipCheckpoint
    <2>2. checked' \in 0..Len(bundle.checkpoints)
      BY <1>1, <1>2, <1>10 DEF SkipCheckpoint, Checking
    <2>3. QED
      BY <1>10, <2>1, <2>2 DEF SkipCheckpoint, TypeOK, events
  <1>11. CASE EndCheckpoints
    <2>1. results' \in Verdicts
      BY <1>1, <1>11, FailIfType, ResultNames DEF EndCheckpoints
    <2>2. QED
      BY <1>11, <2>1 DEF EndCheckpoints, TypeOK, events, passVars
  <1>12. CASE UNCHANGED vars
    BY <1>12 DEF TypeOK, vars, events, passVars
  <1>13. QED
    BY <1>3, <1>4, <1>5, <1>6, <1>7, <1>8, <1>9, <1>10, <1>11, <1>12 DEF Next

\* Every state of the walk is well formed, whatever the bundle holds: the
\* sequence expectations never leave 64 bits.
THEOREM TypeCorrect == Spec => []TypeOK
  <1>1. QED
    BY InitType, NextType, PTL DEF Spec
-----------------------------------------------------------------------------
\* What the walk knows after each line, while nothing was reported: the chain so
\* far, and the two expectations of the next line.
WalkInv ==
  Clean =>
    /\ Len(cumulative) = Len(read) /\ eventCount = Len(read)
    /\ \A i \in 1..Len(read) : InChain(i)
    /\ prevHash = IF read # <<>> THEN read[Len(read)].entry
                  ELSE IF bundle.from = 1 THEN ZeroHash ELSE None
    /\ expected = IF read # <<>> THEN NextCounter(read[Len(read)].seq)
                  ELSE Counter(bundle.from)
    /\ phase \in {"checkpoints", "sealed"} =>
         /\ read # <<>> /\ CounterEndsAt(expected, bundle.to)
         /\ Len(trees) = Len(Ranges(bundle))
    /\ phase = "open" => read = <<>> /\ trees = <<>> /\ open = <<>>

\* A hash that was computed is neither absent nor malformed.
LEMMA DigestFacts ==
  ASSUME NEW b \in Bundles, NEW l \in Lines
  PROVE  LET hash == EntryHash(b.stream, l.seq, l.payload_hash, l.prev)
         IN ZeroHash # None /\ hash # None /\ hash # Malformed
  BY DigestAssumption DEF IsDigest

\* An event that leaves content integrity standing had none of the problems.
LEMMA CleanEvent ==
  ASSUME TypeOK, NEW l \in bundle.lines, ReadEvent(l), Clean'
  PROVE  Clean /\ ~EventProblem(l)
  <1>1. results' = FailIf(EventProblem(l), results, "content_integrity")
    BY DEF ReadEvent
  <1>2. results \in Verdicts
    BY DEF TypeOK
  <1>3. QED
    BY <1>1, <1>2, FailIfPasses, ResultNames DEF Clean

\* What such an event says of itself, and the leaf it adds.
LEMMA CleanLeaf ==
  ASSUME TypeOK, NEW l \in bundle.lines, ReadEvent(l), ~EventProblem(l)
  PROVE  /\ l.kind = "event" /\ CounterIs(expected, l.seq)
         /\ l.entry = EntryHash(bundle.stream, l.seq, l.payload_hash, l.prev)
         /\ l.entry # None
         /\ prevHash # None => l.prev = prevHash
         /\ l.payload # None => l.payload_hash = PayloadHash(l.payload)
         /\ Leaf(l) = <<l.entry>> /\ l.entry \in Entries
  <1>1. l \in Lines /\ bundle \in Bundles
    BY BundleFacts DEF TypeOK
  <1>2. l.kind = "event"
    BY DEF ReadEvent
  <1>3. /\ CounterIs(expected, l.seq) /\ ~PayloadProblem(l) /\ ~LinkProblem(l)
        /\ ~EntryProblem(l)
    BY DEF EventProblem
  <1>4. l.entry = EntryHash(bundle.stream, l.seq, l.payload_hash, l.prev)
    BY <1>3 DEF EntryProblem
  <1>5. l.entry # None /\ l.entry # Malformed
    BY <1>1, <1>4, DigestFacts
  <1>6. l.payload # None => l.payload_hash = PayloadHash(l.payload)
    BY <1>3 DEF PayloadProblem
  <1>7. Leaf(l) = <<l.entry>> /\ l.entry \in Entries
    BY <1>1, <1>5 DEF Leaf, IsDigest, Entries
  <1>8. QED
    BY <1>2, <1>3, <1>4, <1>5, <1>6, <1>7 DEF LinkProblem

\* The sequence a clean event must have: one more than the lines before it.
LEMMA CleanSequence ==
  ASSUME TypeOK, WalkInv, Clean, NEW v \in MinInt..MaxInt, CounterIs(expected, v)
  PROVE  v = bundle.from + Len(read)
  <1>1. bundle.from \in Int /\ Len(read) \in Nat /\ read \in Seq(Lines)
    BY BundleFacts, IntegerFacts DEF TypeOK
  <1>2. CASE read = <<>>
    <2>1. expected = Counter(bundle.from) /\ Len(read) = 0
      BY <1>2 DEF WalkInv
    <2>2. QED
      BY <1>1, <2>1 DEF CounterIs, Counter
  <1>3. CASE read # <<>>
    <2>1. Len(read) \in 1..Len(read)
      BY <1>1, <1>3
    <2>2. read[Len(read)].seq = bundle.from + Len(read) - 1
      BY <2>1 DEF WalkInv, InChain
    <2>3. expected = NextCounter(read[Len(read)].seq)
      BY <1>3 DEF WalkInv
    <2>4. v = read[Len(read)].seq + 1
      BY <2>3 DEF NextCounter, Counter, CounterIs
    <2>5. QED
      BY <1>1, <2>2, <2>4
  <1>4. QED
    BY <1>2, <1>3

\* An event read while content integrity holds continues the chain (walk.go, the
\* loop over events.ndjson).
LEMMA ReadEventWalkInv ==
  ASSUME TypeOK, WalkInv, NEW l \in bundle.lines, ReadEvent(l)
  PROVE  WalkInv'
  <1> SUFFICES ASSUME Clean'
               PROVE  WalkInv'
    BY DEF WalkInv
  <1>1. Clean /\ ~EventProblem(l)
    BY CleanEvent
  <1>2. /\ l.kind = "event" /\ CounterIs(expected, l.seq)
        /\ l.entry = EntryHash(bundle.stream, l.seq, l.payload_hash, l.prev)
        /\ prevHash # None => l.prev = prevHash
        /\ l.payload # None => l.payload_hash = PayloadHash(l.payload)
        /\ Leaf(l) = <<l.entry>> /\ l.entry \in Entries
    BY <1>1, CleanLeaf
  <1>3. /\ l \in Lines /\ l.seq \in MinInt..MaxInt /\ bundle \in Bundles
        /\ read \in Seq(Lines) /\ cumulative \in Seq(Entries)
    BY BundleFacts, WalkAssumption DEF TypeOK, LineShape
  <1>4. /\ read' = Append(read, l) /\ cumulative' = cumulative \o Leaf(l)
        /\ eventCount' = eventCount + 1 /\ prevHash' = l.entry
        /\ expected' = NextCounter(l.seq) /\ bundle' = bundle
        /\ phase' = "events"
    BY DEF ReadEvent, Reading
  <1>5. /\ Len(cumulative) = Len(read) /\ eventCount = Len(read)
        /\ \A i \in 1..Len(read) : InChain(i)
        /\ prevHash = IF read # <<>> THEN read[Len(read)].entry
                      ELSE IF bundle.from = 1 THEN ZeroHash ELSE None
    BY <1>1 DEF WalkInv
  <1>6. l.seq = bundle.from + Len(read)
    BY <1>1, <1>2, <1>3, CleanSequence
  <1>7. /\ read' # <<>> /\ Len(read') = Len(read) + 1 /\ read'[Len(read')] = l
        /\ Len(cumulative') = Len(read')
        /\ cumulative'[Len(read')] = l.entry
        /\ \A i \in 1..Len(read) : read'[i] = read[i] /\ cumulative'[i] = cumulative[i]
    <2>1. /\ Append(read, l) # <<>> /\ Len(Append(read, l)) = Len(read) + 1
          /\ Append(read, l)[Len(read) + 1] = l
          /\ \A i \in 1..Len(read) : Append(read, l)[i] = read[i]
      BY <1>3
    <2>2. cumulative' = Append(cumulative, l.entry)
      BY <1>2, <1>3, <1>4
    <2>3. /\ Len(Append(cumulative, l.entry)) = Len(cumulative) + 1
          /\ Append(cumulative, l.entry)[Len(cumulative) + 1] = l.entry
          /\ \A i \in 1..Len(cumulative) : Append(cumulative, l.entry)[i] = cumulative[i]
      BY <1>2, <1>3
    <2>4. QED
      BY <1>4, <1>5, <2>1, <2>2, <2>3
  <1>8. ASSUME NEW i \in 1..Len(read')
        PROVE  InChain(i)'
    <2>1. CASE i \in 1..Len(read)
      <3>1. read'[i] = read[i] /\ cumulative'[i] = cumulative[i] /\ InChain(i)
        BY <1>5, <1>7, <2>1
      <3>2. i > 1 => read'[i - 1] = read[i - 1]
        BY <1>3, <1>7, <2>1
      <3>3. QED
        BY <1>4, <3>1, <3>2 DEF InChain
    <2>2. CASE i = Len(read')
      <3>1. i > 1 => read # <<>> /\ i - 1 = Len(read) /\ Len(read) \in 1..Len(read)
        BY <1>3, <1>7, <2>2
      <3>2. i > 1 => l.prev = read'[i - 1].entry
        <4>1. SUFFICES ASSUME i > 1
                       PROVE  l.prev = read'[i - 1].entry
          OBVIOUS
        <4>2. /\ prevHash = read[Len(read)].entry /\ read[Len(read)] \in Lines
              /\ InChain(Len(read))
          BY <1>3, <1>5, <3>1, <4>1
        <4>3. prevHash # None
          BY <1>3, <4>2, DigestFacts DEF InChain
        <4>4. QED
          BY <1>2, <1>7, <3>1, <4>1, <4>2, <4>3
      <3>3. i = 1 /\ bundle.from = 1 => l.prev = ZeroHash
        <4>1. i = 1 => read = <<>>
          BY <1>3, <1>7, <2>2
        <4>2. QED
          BY <1>2, <1>3, <1>5, <4>1, DigestFacts
      <3>4. l.seq = bundle.from + i - 1
        BY <1>3, <1>6, <1>7, <2>2, BundleFacts, IntegerFacts
      <3>5. QED
        BY <1>2, <1>4, <1>7, <2>2, <3>2, <3>3, <3>4 DEF InChain
    <2>3. QED
      BY <1>3, <1>7, <2>1, <2>2
  <1>9. eventCount' = Len(read')
    BY <1>3, <1>4, <1>5, <1>7
  <1>10. QED
    BY <1>4, <1>7, <1>8, <1>9 DEF WalkInv

\* A step that reads no line and leaves the reading state alone.
LEMMA OtherStepWalkInv ==
  ASSUME WalkInv, Clean' => Clean,
         UNCHANGED <<bundle, expected, prevHash, eventCount, cumulative, read>>,
         phase' \in {"checkpoints", "sealed"} /\ Clean' =>
           /\ read # <<>> /\ CounterEndsAt(expected, bundle.to)
           /\ Len(trees') = Len(Ranges(bundle)),
         phase' = "open" => phase = "open" /\ UNCHANGED <<trees, open>>
  PROVE  WalkInv'
  <1> SUFFICES ASSUME Clean'
               PROVE  WalkInv'
    BY DEF WalkInv
  <1>1. \A i \in 1..Len(read) : InChain(i) => InChain(i)'
    BY DEF InChain
  <1>2. QED
    BY <1>1 DEF WalkInv

\* A reported problem ends what is said of clean walks.
LEMMA ReportedStep ==
  ASSUME TypeOK, results' = Report(results, "content_integrity")
  PROVE  ~Clean'
  BY ReportFails, ResultNames DEF TypeOK, Clean

\* What a checkpoint says of its key changes signing_identity only.
LEMMA IdentityKeepsContent ==
  ASSUME NEW r \in Verdicts, NEW cp
  PROVE  CheckIdentity(cp, r)["content_integrity"] = r["content_integrity"]
  <1>1. CheckIdentity(cp, r) \in {r, Demote(r, "signing_identity", "fail"),
                                  Demote(r, "signing_identity", "unconfirmed")}
    BY DEF CheckIdentity, FailIf, Report, Unconfirmed
  <1>2. \A s : Demote(r, "signing_identity", s)["content_integrity"]
                 = r["content_integrity"]
    BY ResultNames DEF Demote, Verdicts
  <1>3. QED
    BY <1>1, <1>2

\* A checkpoint that leaves content integrity standing had no problem.
LEMMA CheckKeepsContent ==
  ASSUME TypeOK, CheckCheckpoint, Clean'
  PROVE  Clean /\ ~CheckpointProblem(bundle.checkpoints[checked + 1])
  <1> DEFINE cp == bundle.checkpoints[checked + 1]
             after == FailIf(CheckpointProblem(cp), results, "content_integrity")
  <1>1. results' = CheckIdentity(cp, after)
    BY DEF CheckCheckpoint
  <1>2. results \in Verdicts /\ after \in Verdicts
    BY FailIfType, ResultNames DEF TypeOK
  <1>3. after["content_integrity"] = "pass"
    BY <1>1, <1>2, IdentityKeepsContent DEF Clean
  <1>4. QED
    BY <1>2, <1>3, FailIfPasses, ResultNames DEF Clean

\* Before the first line there is nothing to be out of order.
LEMMA InitWalkInv == Init => WalkInv
  <1> SUFFICES ASSUME Init PROVE WalkInv
    OBVIOUS
  <1>1. Len(read) = 0 /\ Len(cumulative) = 0 /\ 1..Len(read) = {} /\ read = <<>>
    BY DEF Init
  <1>2. QED
    BY <1>1 DEF Init, WalkInv

\* Every step of the walk keeps the chain it has read.
LEMMA NextWalkInv == TypeOK /\ WalkInv /\ [Next]_vars => WalkInv'
  <1> SUFFICES ASSUME TypeOK, WalkInv, [Next]_vars PROVE WalkInv'
    OBVIOUS
  <1>1. results \in Verdicts /\ bundle \in Bundles /\ read \in Seq(Lines)
    BY DEF TypeOK
  <1>2. CASE Open
    <2>1. Clean' => Clean
      BY <1>1, <1>2, FailIfPasses, ResultNames DEF Open, Clean
    <2>2. phase' \in {"events", "hard"}
      BY <1>2 DEF Open, Hard
    <2>3. QED
      BY <1>2, <2>1, <2>2, OtherStepWalkInv DEF Open, events
  <1>3. ASSUME NEW l \in bundle.lines, ReadGarbage(l) \/ ReadUnnumbered(l)
        PROVE  WalkInv'
    BY <1>3, ReportedStep DEF ReadGarbage, ReadUnnumbered, WalkInv
  <1>4. ASSUME NEW l \in bundle.lines, ReadEvent(l)
        PROVE  WalkInv'
    BY <1>4, ReadEventWalkInv
  <1>5. CASE ReadFails
    <2>1. phase' = "hard" /\ (Clean' => Clean)
      BY <1>5 DEF ReadFails, Hard, Clean
    <2>2. QED
      BY <1>5, <2>1, OtherStepWalkInv DEF ReadFails, events
  <1>6. CASE EndEvents
    <2>1. Clean' => Clean /\ CounterEndsAt(expected, bundle.to)
      BY <1>1, <1>6, FailIfPasses, ResultNames DEF EndEvents, Clean
    <2>2. phase' = "hard" \/ (phase' = "checkpoints" /\ eventCount > 0)
      BY <1>6 DEF EndEvents, Hard
    <2>3. Clean' /\ phase' = "checkpoints" => read # <<>>
      <3>1. Clean => eventCount = Len(read)
        BY DEF WalkInv
      <3>2. QED
        BY <2>1, <2>2, <3>1
    <2>4. Len(trees') = Len(Ranges(bundle))
      <3>1. trees \in Seq(Seq(Entries)) /\ open \in Seq(Entries)
            /\ Len(trees) <= Len(Ranges(bundle)) /\ Len(Ranges(bundle)) \in Nat
        BY BundleFacts DEF TypeOK
      <3>2. QED
        BY <1>6, <3>1, CloseUpToType DEF EndEvents
    <2>5. QED
      BY <1>6, <2>1, <2>2, <2>3, <2>4, OtherStepWalkInv DEF EndEvents
  <1>7. CASE CheckCheckpoint
    <2>1. Clean' => Clean
      BY <1>7, CheckKeepsContent
    <2>2. phase = "checkpoints" /\ phase' = phase
      BY <1>7 DEF CheckCheckpoint, Checking
    <2>3. UNCHANGED <<bundle, expected, prevHash, eventCount, cumulative, read, trees>>
      BY <1>7 DEF CheckCheckpoint, events
    <2>4. QED
      BY <2>1, <2>2, <2>3, OtherStepWalkInv DEF WalkInv
  <1>8. CASE SkipCheckpoint
    BY <1>8, ReportedStep DEF SkipCheckpoint, WalkInv
  <1>9. CASE EndCheckpoints
    <2>1. Clean' => Clean
      <3>1. results' = FailIf(~CounterEndsAt(expectedFrom, bundle.to), results, "scope")
        BY <1>9 DEF EndCheckpoints
      <3>2. results'["content_integrity"] = results["content_integrity"]
        BY <1>1, <3>1, FailIfOther, ResultNames
      <3>3. QED
        BY <3>2 DEF Clean
    <2>2. phase = "checkpoints" /\ phase' = "sealed"
      BY <1>9 DEF EndCheckpoints
    <2>3. UNCHANGED <<bundle, expected, prevHash, eventCount, cumulative, read, trees>>
      BY <1>9 DEF EndCheckpoints, events
    <2>4. QED
      BY <2>1, <2>2, <2>3, OtherStepWalkInv DEF WalkInv
  <1>10. CASE UNCHANGED vars
    <2>1. /\ UNCHANGED <<bundle, phase, expected, prevHash, eventCount, cumulative, read,
                         trees, open>>
          /\ Clean' => Clean
      BY <1>10 DEF vars, events, Clean
    <2>2. QED
      BY <2>1, OtherStepWalkInv DEF WalkInv
  <1>11. QED
    BY <1>2, <1>3, <1>4, <1>5, <1>6, <1>7, <1>8, <1>9, <1>10 DEF Next

\* The inductive invariant of the walk (walk.go): while content integrity holds,
\* the lines read are one chain and the state carried from line to line - the
\* expected sequence, the previous hash, the leaves - is that of its last line.
THEOREM WalkInvariant == Spec => [](TypeOK /\ WalkInv)
  <1>1. QED
    BY InitType, NextType, InitWalkInv, NextWalkInv, PTL DEF Spec

\* No event can be missing, repeated, moved or altered in a walk that reports
\* nothing (walk.go): for every bundle and every events.ndjson.
THEOREM CleanChain == Spec => []CleanWalkIsOneChain
  <1>1. WalkInv => CleanWalkIsOneChain
    BY DEF WalkInv, CleanWalkIsOneChain
  <1>2. QED
    BY <1>1, WalkInvariant, PTL
-----------------------------------------------------------------------------
(* What the walk hands on to the checks after it: the absences to the      *)
(* declaration check, the tree states to --consistency, and ranges no      *)
(* overflow took part in.                                                  *)

\* A step that leaves content integrity standing reads a clean event or no line.
LEMMA CleanStep ==
  ASSUME TypeOK, [Next]_vars, Clean'
  PROVE  /\ Clean /\ bundle' = bundle
         /\ \/ \E l \in bundle.lines : ReadEvent(l)
            \/ UNCHANGED <<prevHash, redactedCount, absent, entryHashAt, cumulative,
                           rootAt, read, expected>>
  <1>1. results \in Verdicts
    BY DEF TypeOK
  <1>2. CASE Open
    BY <1>1, <1>2, FailIfPasses, ResultNames DEF Open, Clean, events
  <1>3. ASSUME NEW l \in bundle.lines, ReadGarbage(l) \/ ReadUnnumbered(l)
        PROVE  FALSE
    BY <1>3, ReportedStep DEF ReadGarbage, ReadUnnumbered
  <1>4. ASSUME NEW l \in bundle.lines, ReadEvent(l)
        PROVE  Clean /\ bundle' = bundle
    BY <1>4, CleanEvent DEF ReadEvent
  <1>5. CASE ReadFails
    BY <1>5 DEF ReadFails, Clean, events
  <1>6. CASE EndEvents
    BY <1>1, <1>6, FailIfPasses, ResultNames DEF EndEvents, Clean
  <1>7. CASE CheckCheckpoint
    BY <1>7, CheckKeepsContent DEF CheckCheckpoint, events
  <1>8. CASE SkipCheckpoint
    BY <1>8, ReportedStep DEF SkipCheckpoint
  <1>9. CASE EndCheckpoints
    <2>1. results' = FailIf(~CounterEndsAt(expectedFrom, bundle.to), results, "scope")
      BY <1>9 DEF EndCheckpoints
    <2>2. results'["content_integrity"] = results["content_integrity"]
      BY <1>1, <2>1, FailIfOther, ResultNames
    <2>3. QED
      BY <1>9, <2>2 DEF EndCheckpoints, Clean, events
  <1>10. CASE UNCHANGED vars
    BY <1>10 DEF vars, events, Clean
  <1>11. QED
    BY <1>2, <1>3, <1>4, <1>5, <1>6, <1>7, <1>8, <1>9, <1>10 DEF Next

\* The lines read so far, and what one more makes of them.
LEMMA ReadGrows ==
  ASSUME TypeOK, WalkInv, NEW l \in bundle.lines, ReadEvent(l), Clean'
  PROVE  /\ read \in Seq(Lines) /\ Len(read) \in Nat /\ l \in Lines
         /\ l.seq \in MinInt..MaxInt /\ bundle.from \in Int
         /\ read' \in Seq(Lines) /\ Len(read') = Len(read) + 1
         /\ read'[Len(read) + 1] = l
         /\ \A i \in 1..Len(read) : read'[i] = read[i]
         /\ l.seq = bundle.from + Len(read)
         /\ \A i \in 1..Len(read) : read[i].seq = bundle.from + i - 1
         /\ Len(cumulative') = Len(read')
  <1>1. Clean /\ ~EventProblem(l)
    BY CleanEvent
  <1>2. /\ bundle \in Bundles /\ read \in Seq(Lines) /\ Len(read) \in Nat
        /\ cumulative \in Seq(Entries)
    BY DEF TypeOK
  <1>3. l \in Lines /\ l.seq \in MinInt..MaxInt /\ bundle.from \in Int
    BY <1>2, BundleFacts, IntegerFacts, WalkAssumption DEF LineShape
  <1>4. CounterIs(expected, l.seq) /\ Leaf(l) = <<l.entry>> /\ l.entry \in Entries
    BY <1>1, CleanLeaf
  <1>5. l.seq = bundle.from + Len(read)
    BY <1>1, <1>3, <1>4, CleanSequence
  <1>6. \A i \in 1..Len(read) : read[i].seq = bundle.from + i - 1
    BY <1>1 DEF WalkInv, InChain
  <1>7. read' = Append(read, l)
    BY DEF ReadEvent
  <1>8. /\ read' \in Seq(Lines) /\ Len(read') = Len(read) + 1
        /\ read'[Len(read) + 1] = l
        /\ \A i \in 1..Len(read) : read'[i] = read[i]
    BY <1>2, <1>3, <1>7
  <1>9. Len(cumulative') = Len(read')
    <2>1. cumulative' = Append(cumulative, l.entry)
      BY <1>2, <1>4 DEF ReadEvent
    <2>2. Len(cumulative) = Len(read)
      BY <1>1 DEF WalkInv
    <2>3. QED
      BY <1>2, <1>4, <1>8, <2>1, <2>2
  <1>10. QED
    BY <1>2, <1>3, <1>5, <1>6, <1>8, <1>9
-----------------------------------------------------------------------------
(* Absences.                                                               *)

Gone == {i \in 1..Len(read) : read[i].payload = None}

\* A clean event is without a payload exactly when its absence is accepted, and a
\* payload declared redacted is not there.
LEMMA CleanAbsence ==
  ASSUME NEW l, ~EventProblem(l)
  PROVE  /\ AcceptedAbsence(l) <=> l.payload = None
         /\ l.seq \in Declared(bundle) => l.payload = None
  BY DEF EventProblem, PayloadProblem, AcceptedAbsence

\* A line that brings its payload adds no absence.
LEMMA PresentStep ==
  ASSUME TypeOK, WalkInv, AbsencesAreAccountedFor,
         NEW l \in bundle.lines, ReadEvent(l), Clean', l.payload # None
  PROVE  AbsencesAreAccountedFor'
  <1>1. Clean /\ ~EventProblem(l)
    BY CleanEvent
  <1>2. ~AcceptedAbsence(l) /\ l.seq \notin Declared(bundle)
    BY <1>1, CleanAbsence
  <1>3. absent' = absent /\ bundle' = bundle
    BY <1>2 DEF ReadEvent, WithIf
  <1>4. redactedCount' = redactedCount
    BY <1>2 DEF ReadEvent, TypeOK
  <1>5. /\ Len(read) \in Nat /\ Len(read') = Len(read) + 1
        /\ read'[Len(read) + 1] = l
        /\ \A i \in 1..Len(read) : read'[i] = read[i]
    BY ReadGrows
  <1>6. 1..Len(read') = 1..Len(read) \cup {Len(read) + 1}
    BY <1>5
  <1>7. Gone' = Gone
    BY <1>5, <1>6 DEF Gone
  <1>8. /\ DOMAIN absent = {read[i].seq : i \in Gone}
        /\ redactedCount = Cardinality(Gone)
        /\ \A i \in Gone : absent[read[i].seq] = "erased" <=> read[i].absence = "erased"
        /\ \A i \in 1..Len(read) : read[i].seq \in Declared(bundle) => i \in Gone
    BY <1>1 DEF AbsencesAreAccountedFor, Gone
  <1>9. \A i \in Gone : read'[i] = read[i]
    BY <1>5 DEF Gone
  <1>10. DOMAIN absent' = {read'[i].seq : i \in Gone'}
    BY <1>3, <1>7, <1>8, <1>9
  <1>11. \A i \in Gone' :
           absent'[read'[i].seq] = "erased" <=> read'[i].absence = "erased"
    BY <1>3, <1>7, <1>8, <1>9
  <1>12. \A i \in 1..Len(read') : read'[i].seq \in Declared(bundle)' => i \in Gone'
    BY <1>2, <1>3, <1>5, <1>6, <1>7, <1>8 DEF Declared
  <1>13. QED
    BY <1>4, <1>7, <1>8, <1>10, <1>11, <1>12 DEF AbsencesAreAccountedFor, Gone

\* A line without a payload adds its own absence, under a sequence of its own.
LEMMA AbsentStep ==
  ASSUME TypeOK, WalkInv, AbsencesAreAccountedFor,
         NEW l \in bundle.lines, ReadEvent(l), Clean', l.payload = None
  PROVE  AbsencesAreAccountedFor'
  <1> DEFINE n == Len(read) + 1
             kind == IF l.absence = "erased" THEN "erased" ELSE "redacted"
  <1>1. Clean /\ ~EventProblem(l)
    BY CleanEvent
  <1>2. AcceptedAbsence(l)
    BY <1>1, CleanAbsence
  <1>3. /\ bundle' = bundle /\ DOMAIN absent' = DOMAIN absent \cup {l.seq}
        /\ absent'[l.seq] = kind
        /\ \A k \in DOMAIN absent : k # l.seq => absent'[k] = absent[k]
    <2>1. absent' = With(absent, l.seq, kind) /\ bundle' = bundle
      BY <1>2 DEF ReadEvent, WithIf
    <2> HIDE DEF kind
    <2>2. QED
      BY <2>1 DEF With
  <1>4. redactedCount' = redactedCount + 1
    BY <1>2 DEF ReadEvent, TypeOK
  <1>5. /\ Len(read) \in Nat /\ Len(read') = n /\ read'[n] = l
        /\ bundle.from \in Int /\ l.seq = bundle.from + Len(read)
        /\ \A i \in 1..Len(read) : read'[i] = read[i]
        /\ \A i \in 1..Len(read) : read[i].seq = bundle.from + i - 1
    BY ReadGrows
  <1>6. 1..Len(read') = 1..Len(read) \cup {n} /\ n \notin 1..Len(read)
    BY <1>5
  <1>7. Gone' = Gone \cup {n} /\ n \notin Gone
    BY <1>5, <1>6 DEF Gone
  <1>8. /\ DOMAIN absent = {read[i].seq : i \in Gone}
        /\ redactedCount = Cardinality(Gone)
        /\ \A i \in Gone : absent[read[i].seq] = "erased" <=> read[i].absence = "erased"
        /\ \A i \in 1..Len(read) : read[i].seq \in Declared(bundle) => i \in Gone
    BY <1>1 DEF AbsencesAreAccountedFor, Gone
  <1>9. \A i \in Gone : read'[i] = read[i] /\ read[i].seq # l.seq
    <2>1. \A i \in 1..Len(read) : read[i].seq # l.seq
      BY <1>5
    <2>2. QED
      BY <1>5, <2>1 DEF Gone
  <1>10. DOMAIN absent' = {read'[i].seq : i \in Gone'}
    BY <1>3, <1>5, <1>7, <1>8, <1>9
  <1>11. \A i \in Gone' :
           absent'[read'[i].seq] = "erased" <=> read'[i].absence = "erased"
    <2>1. ASSUME NEW i \in Gone
          PROVE  absent'[read'[i].seq] = "erased" <=> read'[i].absence = "erased"
      <3>1. read[i].seq \in DOMAIN absent /\ read[i].seq # l.seq /\ read'[i] = read[i]
        BY <1>8, <1>9
      <3>2. absent'[read[i].seq] = absent[read[i].seq]
        BY <1>3, <3>1
      <3>3. QED
        BY <1>8, <3>1, <3>2
    <2>2. absent'[read'[n].seq] = kind /\ read'[n] = l
      BY <1>3, <1>5
    <2>3. QED
      BY <1>7, <2>1, <2>2
  <1>12. \A i \in 1..Len(read') : read'[i].seq \in Declared(bundle)' => i \in Gone'
    BY <1>3, <1>5, <1>6, <1>7, <1>8 DEF Declared
  <1>13. redactedCount' = Cardinality(Gone')
    <2>1. IsFiniteSet(Gone)
      <3>1. IsFiniteSet(1..Len(read))
        BY <1>5, FS_Interval
      <3>2. Gone \in SUBSET (1..Len(read))
        BY DEF Gone
      <3>3. QED
        BY <3>1, <3>2, FS_Subset
    <2>2. Cardinality(Gone \cup {n}) = Cardinality(Gone) + 1
      BY <1>7, <2>1, FS_AddElement
    <2>3. QED
      BY <1>4, <1>7, <1>8, <2>2
  <1>14. QED
    BY <1>10, <1>11, <1>12, <1>13 DEF AbsencesAreAccountedFor, Gone

\* Nothing is absent before the first line.
LEMMA InitAbsences == Init => AbsencesAreAccountedFor
  <1> SUFFICES ASSUME Init PROVE AbsencesAreAccountedFor
    OBVIOUS
  <1>1. /\ 1..Len(read) = {} /\ Gone = {} /\ DOMAIN absent = {} /\ redactedCount = 0
    BY DEF Init, Gone
  <1>2. Cardinality(Gone) = 0
    BY <1>1, FS_EmptySet
  <1>3. QED
    BY <1>1, <1>2 DEF AbsencesAreAccountedFor, Gone

\* Every step accounts for the absence it brings, if it brings one.
LEMMA NextAbsences ==
  TypeOK /\ WalkInv /\ AbsencesAreAccountedFor /\ [Next]_vars => AbsencesAreAccountedFor'
  <1> SUFFICES ASSUME TypeOK, WalkInv, AbsencesAreAccountedFor, [Next]_vars, Clean'
               PROVE  AbsencesAreAccountedFor'
    BY DEF AbsencesAreAccountedFor
  <1>1. ASSUME NEW l \in bundle.lines, ReadEvent(l)
        PROVE  AbsencesAreAccountedFor'
    BY <1>1, PresentStep, AbsentStep
  <1>2. CASE UNCHANGED <<redactedCount, absent, read>>
    BY <1>2, CleanStep DEF AbsencesAreAccountedFor, Declared
  <1>3. QED
    BY <1>1, <1>2, CleanStep

\* "Absence must be declared, never implied" (walk.go): what reaches the
\* declaration check is each line that came without its payload, and no other, for
\* every bundle and every events.ndjson.
THEOREM AbsencesAccounted == Spec => []AbsencesAreAccountedFor
  <1>1. QED
    BY WalkInvariant, InitAbsences, NextAbsences, PTL DEF Spec
-----------------------------------------------------------------------------
(* The roots of the cumulative tree.                                       *)

\* Once the events have ended in a clean walk, the last line is the last sequence of
\* the manifest's range, which is not the largest integer, and none is missing.
LEMMA WalkEnds ==
  ASSUME TypeOK, WalkInv, Clean, phase \in {"checkpoints", "sealed"}
  PROVE  /\ read # <<>> /\ read[Len(read)].seq = bundle.to /\ bundle.to < MaxInt
         /\ Len(read) = bundle.to - bundle.from + 1
         /\ bundle.from \in Int /\ bundle.to \in Int
  <1>1. /\ read \in Seq(Lines) /\ bundle.from \in Int /\ bundle.to \in MinInt..MaxInt
        /\ bundle.to \in Int
    BY BundleFacts, IntegerFacts DEF TypeOK
  <1>2. /\ read # <<>> /\ CounterEndsAt(expected, bundle.to)
        /\ expected = NextCounter(read[Len(read)].seq)
        /\ \A i \in 1..Len(read) : InChain(i)
    BY DEF WalkInv
  <1>3. Len(read) \in 1..Len(read) /\ Len(read) \in Nat
    BY <1>1, <1>2
  <1>4. read[Len(read)].seq = bundle.from + Len(read) - 1
    BY <1>2, <1>3 DEF InChain
  <1>5. read[Len(read)] \in Lines
    BY <1>1, <1>3
  <1>6. read[Len(read)].seq \in MinInt..MaxInt
    BY <1>5, WalkAssumption DEF LineShape
  <1>7. read[Len(read)].seq = bundle.to
    BY <1>1, <1>2, <1>6, EndsAtLast
  <1>8. read[Len(read)].seq # MaxInt
    BY <1>2 DEF CounterEndsAt, NextCounter
  <1>9. bundle.to < MaxInt
    BY <1>1, <1>7, <1>8, IntegerFacts
  <1>10. QED
    BY <1>1, <1>2, <1>3, <1>4, <1>7, <1>9

\* The captured roots are of their sizes, and the last line's was captured when
\* something asks about it.
RootInv ==
  /\ DOMAIN rootAt # {} => bundle.from = 1
  /\ Clean =>
       /\ \A s \in DOMAIN rootAt : Len(rootAt[s]) = s
       /\ bundle.from = 1 /\ read # <<>> /\ read[Len(read)].seq \in RootSizes(bundle) =>
            /\ read[Len(read)].seq \in DOMAIN rootAt
            /\ rootAt[read[Len(read)].seq] = cumulative

\* A root captured with an event, in a walk that may have reported something.
LEMMA CapturedFromOne ==
  ASSUME TypeOK, DOMAIN rootAt # {} => bundle.from = 1, [Next]_vars
  PROVE  DOMAIN rootAt' # {} => bundle'.from = 1
  <1>1. CASE UNCHANGED <<bundle, rootAt>>
    BY <1>1
  <1>2. ASSUME NEW l \in bundle.lines, ReadEvent(l)
        PROVE  DOMAIN rootAt' # {} => bundle'.from = 1
    <2>1. /\ bundle' = bundle
          /\ rootAt' = WithIf(bundle.from = 1 /\ cumulative' # <<>>
                                /\ l.seq \in RootSizes(bundle),
                              rootAt, l.seq, cumulative')
      BY <1>2 DEF ReadEvent
    <2>2. bundle.from # 1 => rootAt' = rootAt
      BY <2>1 DEF WithIf
    <2>3. QED
      BY <2>1, <2>2
  <1>3. UNCHANGED <<bundle, rootAt>> \/ \E l \in bundle.lines : ReadEvent(l)
    BY DEF Next, Open, ReadGarbage, ReadUnnumbered, ReadFails, EndEvents,
           CheckCheckpoint, SkipCheckpoint, EndCheckpoints, vars, events
  <1>4. QED
    BY <1>1, <1>2, <1>3

\* A clean event captures the root of as many leaves as its sequence number.
LEMMA ReadEventRoots ==
  ASSUME TypeOK, WalkInv, RootInv, NEW l \in bundle.lines, ReadEvent(l), Clean'
  PROVE  RootInv'
  <1>1. Clean
    BY CleanEvent
  <1>2. /\ read' \in Seq(Lines) /\ Len(read) \in Nat /\ Len(read') = Len(read) + 1
        /\ read'[Len(read')] = l /\ bundle.from \in Int
        /\ l.seq = bundle.from + Len(read) /\ Len(cumulative') = Len(read')
    BY ReadGrows
  <1>3. /\ bundle' = bundle
        /\ rootAt' = WithIf(bundle.from = 1 /\ cumulative' # <<>>
                              /\ l.seq \in RootSizes(bundle),
                            rootAt, l.seq, cumulative')
    BY DEF ReadEvent
  <1>4. cumulative' # <<>>
    BY <1>2
  <1>5. DOMAIN rootAt' # {} => bundle'.from = 1
    <2>1. [Next]_vars
      BY DEF Next
    <2>2. QED
      BY <2>1, CapturedFromOne DEF RootInv
  <1>6. \A s \in DOMAIN rootAt : Len(rootAt[s]) = s
    BY <1>1 DEF RootInv
  <1>7. CASE bundle.from = 1 /\ l.seq \in RootSizes(bundle)
    <2>1. rootAt' = With(rootAt, l.seq, cumulative')
      BY <1>3, <1>4, <1>7 DEF WithIf
    <2>2. /\ DOMAIN rootAt' = DOMAIN rootAt \cup {l.seq}
          /\ rootAt'[l.seq] = cumulative'
          /\ \A s \in DOMAIN rootAt : s # l.seq => rootAt'[s] = rootAt[s]
      BY <2>1 DEF With
    <2>3. Len(cumulative') = l.seq
      BY <1>2, <1>7
    <2>4. \A s \in DOMAIN rootAt' : Len(rootAt'[s]) = s
      BY <1>6, <2>2, <2>3
    <2>5. QED
      BY <1>2, <1>5, <2>2, <2>4 DEF RootInv
  <1>8. CASE ~(bundle.from = 1 /\ l.seq \in RootSizes(bundle))
    <2>1. rootAt' = rootAt
      BY <1>3, <1>8 DEF WithIf
    <2>2. RootSizes(bundle)' = RootSizes(bundle)
      BY <1>3 DEF RootSizes
    <2>3. QED
      BY <1>2, <1>3, <1>5, <1>6, <1>8, <2>1, <2>2 DEF RootInv
  <1>9. QED
    BY <1>7, <1>8

\* Every step keeps what is known of the captured roots.
LEMMA NextRoots == TypeOK /\ WalkInv /\ RootInv /\ [Next]_vars => RootInv'
  <1> SUFFICES ASSUME TypeOK, WalkInv, RootInv, [Next]_vars
               PROVE  RootInv'
    OBVIOUS
  <1>1. DOMAIN rootAt' # {} => bundle'.from = 1
    BY CapturedFromOne DEF RootInv
  <1>2. CASE ~Clean'
    BY <1>1, <1>2 DEF RootInv
  <1>3. CASE Clean'
    <2>1. ASSUME NEW l \in bundle.lines, ReadEvent(l)
          PROVE  RootInv'
      BY <1>3, <2>1, ReadEventRoots
    <2>2. CASE UNCHANGED <<cumulative, rootAt, read>>
      <3>1. Clean /\ bundle' = bundle
        BY <1>3, CleanStep
      <3>2. RootSizes(bundle)' = RootSizes(bundle)
        BY <3>1 DEF RootSizes
      <3>3. QED
        BY <1>1, <2>2, <3>1, <3>2 DEF RootInv
    <2>3. QED
      BY <1>3, <2>1, <2>2, CleanStep
  <1>4. QED
    BY <1>2, <1>3

\* A tree state a report offers names the prefix it is the root of (walk.go, the
\* cumulative roots), and a log walked from its first event to its last has one.
THEOREM CapturedRoots == Spec => []CapturedRootIsOfItsSize
  <1>1. Init => RootInv
    <2> SUFFICES ASSUME Init PROVE RootInv
      OBVIOUS
    <2>1. read = <<>> /\ DOMAIN rootAt = {}
      BY DEF Init
    <2>2. QED
      BY <2>1 DEF RootInv
  <1>2. TypeOK /\ WalkInv /\ RootInv => CapturedRootIsOfItsSize
    <2> SUFFICES ASSUME TypeOK, WalkInv, RootInv
                 PROVE  CapturedRootIsOfItsSize
      OBVIOUS
    <2>1. bundle.to \in RootSizes(bundle)
      BY DEF RootSizes
    <2>2. ASSUME Clean, bundle.from = 1, phase \in {"checkpoints", "sealed"}
          PROVE  bundle.to \in DOMAIN rootAt /\ rootAt[bundle.to] = cumulative
      BY <2>1, <2>2, WalkEnds DEF RootInv
    <2>3. QED
      BY <2>2 DEF RootInv, CapturedRootIsOfItsSize
  <1>3. QED
    BY <1>1, <1>2, WalkInvariant, NextRoots, PTL DEF Spec
-----------------------------------------------------------------------------
(* The ranges of the checkpoints.                                          *)

\* The first n of the checkpoints run forwards.
Forwards(n) == \A i \in 1..n : bundle.checkpoints[i].from <= bundle.checkpoints[i].to

\* The checkpoints passed so far follow one another from range.from on: when they
\* run forwards, none of them reaches past the last or back before the first.
RangeInv ==
  /\ Len(read) <= MaxLines
  /\ phase \in {"open", "events"} => checked = 0 /\ expectedFrom = Counter(bundle.from)
  /\ phase \in {"checkpoints", "sealed"} => bundle.checkpoints # <<>>
  /\ phase = "events" => bundle.checkpoints # <<>>
  /\ phase \in {"checkpoints", "sealed"} /\ Clean =>
       LET cps == bundle.checkpoints IN
       /\ expectedFrom = IF checked = 0 THEN Counter(bundle.from)
                         ELSE NextCounter(cps[checked].to)
       /\ Forwards(checked) =>
            \A i \in 1..checked : bundle.from <= cps[i].from /\ cps[i].to <= cps[checked].to
  /\ phase = "sealed" =>
       /\ checked = Len(bundle.checkpoints)
       /\ results["scope"] = "pass" => CounterEndsAt(expectedFrom, bundle.to)

\* The checkpoints a bundle lists.
LEMMA CheckpointsOf ==
  ASSUME TypeOK
  PROVE  /\ bundle \in Bundles /\ Len(bundle.checkpoints) \in Nat
         /\ checked \in 0..Len(bundle.checkpoints) /\ checked \in Nat
         /\ bundle.from \in MinInt..MaxInt /\ bundle.to \in MinInt..MaxInt
         /\ MinInt \in Int /\ MaxInt \in Int
         /\ \A i \in 1..Len(bundle.checkpoints) :
              /\ bundle.checkpoints[i].from \in MinInt..MaxInt
              /\ bundle.checkpoints[i].to \in MinInt..MaxInt
  <1>1. /\ bundle \in Bundles /\ checked \in 0..Len(bundle.checkpoints)
        /\ bundle.checkpoints \in Seq(Checkpoints) /\ Len(bundle.checkpoints) \in Nat
        /\ bundle.from \in MinInt..MaxInt /\ bundle.to \in MinInt..MaxInt
    BY BundleFacts DEF TypeOK
  <1>2. \A i \in 1..Len(bundle.checkpoints) : bundle.checkpoints[i] \in Checkpoints
    BY <1>1
  <1>3. QED
    BY <1>1, <1>2, WalkAssumption, IntegerFacts

\* A checkpoint that passes starts where the one before it ended.
LEMMA NextRange ==
  ASSUME TypeOK, RangeInv, CheckCheckpoint, Clean', Forwards(checked + 1)
  PROVE  \A i \in 1..(checked + 1) :
           /\ bundle.from <= bundle.checkpoints[i].from
           /\ bundle.checkpoints[i].to <= bundle.checkpoints[checked + 1].to
  <1> DEFINE cps == bundle.checkpoints
             n == checked + 1
  <1>1. /\ Clean /\ CounterIs(expectedFrom, cps[n].from)
        /\ phase = "checkpoints" /\ n <= Len(cps)
    <2>1. Clean /\ ~CheckpointProblem(cps[n])
      BY CheckKeepsContent
    <2>2. phase = "checkpoints" /\ checked < Len(cps)
      BY DEF CheckCheckpoint, Checking
    <2>3. QED
      BY <2>1, <2>2, CheckpointsOf DEF CheckpointProblem
  <1>2. /\ n \in 1..Len(cps) /\ checked \in Nat /\ bundle.from \in Int
        /\ \A i \in 1..n : cps[i].from \in Int /\ cps[i].to \in Int /\ cps[i].from <= cps[i].to
    <2>1. /\ n \in 1..Len(cps) /\ checked \in Nat /\ bundle.from \in Int
          /\ \A i \in 1..Len(cps) : cps[i].from \in Int /\ cps[i].to \in Int
      BY <1>1, CheckpointsOf
    <2>2. \A i \in 1..n : cps[i].from <= cps[i].to
      BY DEF Forwards
    <2>3. QED
      BY <2>1, <2>2
  <1>3. CASE checked = 0
    <2>1. expectedFrom = Counter(bundle.from)
      BY <1>1, <1>3 DEF RangeInv
    <2>2. cps[n].from = bundle.from
      BY <1>1, <2>1 DEF CounterIs, Counter
    <2>3. n \in 1..n /\ \A i \in 1..n : i = n
      BY <1>3
    <2>4. cps[n].from \in Int /\ cps[n].to \in Int /\ bundle.from \in Int
      BY <1>2, <2>3
    <2>5. bundle.from <= cps[n].from /\ cps[n].to <= cps[n].to
      BY <2>2, <2>4
    <2>6. ASSUME NEW i \in 1..n
          PROVE  bundle.from <= cps[i].from /\ cps[i].to <= cps[n].to
      <3>1. i = n
        BY <2>3
      <3>2. QED
        BY <2>5, <3>1, Zenon
    <2>7. QED
      BY <2>6
  <1>4. CASE checked # 0
    <2>1. Forwards(checked)
      <3>1. checked \in Nat
        BY <1>2
      <3> HIDE DEF cps
      <3>2. 1..checked \subseteq 1..n
        BY <3>1
      <3>3. QED
        BY <3>2, Zenon DEF Forwards
    <2>2. expectedFrom = NextCounter(cps[checked].to)
      BY <1>1, <1>4 DEF RangeInv
    <2>3. cps[n].from = cps[checked].to + 1
      BY <1>1, <2>2 DEF CounterIs, NextCounter, Counter
    <2>4. \A i \in 1..checked : bundle.from <= cps[i].from /\ cps[i].to <= cps[checked].to
      BY <1>1, <2>1 DEF RangeInv
    <2>5. checked \in 1..checked /\ checked \in 1..n /\ n \in 1..n
      BY <1>2, <1>4
    <2>6. /\ bundle.from <= cps[checked].from /\ cps[checked].from <= cps[checked].to
          /\ cps[checked].to \in Int /\ cps[checked].from \in Int
          /\ cps[n].from <= cps[n].to /\ cps[n].to \in Int /\ cps[n].from \in Int
      <3> HIDE DEF cps, n
      <3>1. \A i \in 1..n : cps[i].from \in Int /\ cps[i].to \in Int /\ cps[i].from <= cps[i].to
        BY <1>2
      <3>2. \A i \in 1..checked : bundle.from <= cps[i].from
        BY <2>4
      <3>3. QED
        BY <2>5, <3>1, <3>2, Zenon
    <2>7. cps[checked].to <= cps[n].to /\ bundle.from <= cps[n].from
      <3> HIDE DEF cps, n
      <3>1. bundle.from \in Int
        BY <1>2
      <3>2. QED
        BY <2>3, <2>6, <3>1
    <2>8. ASSUME NEW i \in 1..checked
          PROVE  bundle.from <= cps[i].from /\ cps[i].to <= cps[n].to
      <3>1. cps[i].to <= cps[checked].to /\ cps[i].to \in Int /\ bundle.from <= cps[i].from
        BY <1>2, <2>4
      <3>2. QED
        BY <2>6, <2>7, <3>1
    <2>9. 1..n = 1..checked \cup {n}
      BY <1>2
    <2>10. cps[n].to <= cps[n].to
      BY <2>6
    <2>11. QED
      BY <2>7, <2>8, <2>9, <2>10
  <1>5. QED
    BY <1>3, <1>4

\* Reading keeps the file within its bound and checks no checkpoint.
LEMMA ReadingRanges ==
  ASSUME TypeOK, RangeInv, NEW l \in bundle.lines,
         ReadGarbage(l) \/ ReadUnnumbered(l) \/ ReadEvent(l)
  PROVE  RangeInv'
  <1>1. /\ phase = "events" /\ phase' = "events" /\ Len(read) < MaxLines
        /\ read' = Append(read, l) /\ UNCHANGED <<bundle, checked, expectedFrom>>
    BY DEF ReadGarbage, ReadUnnumbered, ReadEvent, Reading, passVars
  <1>2. Len(read') <= MaxLines
    <2>1. read \in Seq(Lines) /\ l \in Lines
      BY BundleFacts DEF TypeOK
    <2>2. Len(read') = Len(read) + 1 /\ Len(read) \in Nat
      BY <1>1, <2>1
    <2>3. QED
      BY <1>1, <2>2, WalkAssumption
  <1>3. QED
    BY <1>1, <1>2 DEF RangeInv

\* Checking one checkpoint moves on to the one after it.
LEMMA CheckingRanges ==
  ASSUME TypeOK, RangeInv, CheckCheckpoint
  PROVE  RangeInv'
  <1>1. /\ phase = "checkpoints" /\ phase' = "checkpoints" /\ UNCHANGED <<bundle, read>>
        /\ checked' = checked + 1
        /\ expectedFrom' = NextCounter(bundle.checkpoints[checked + 1].to)
    BY DEF CheckCheckpoint, Checking, events
  <1>2. Clean' => Clean
    BY CheckKeepsContent
  <1>3. checked' # 0 /\ checked \in Nat
    BY <1>1, CheckpointsOf
  <1>4. Clean' /\ Forwards(checked + 1) =>
          \A i \in 1..(checked + 1) :
            /\ bundle.from <= bundle.checkpoints[i].from
            /\ bundle.checkpoints[i].to <= bundle.checkpoints[checked + 1].to
    BY NextRange
  <1>5. Forwards(checked)' => Forwards(checked + 1)
    BY <1>1 DEF Forwards
  <1>6. QED
    BY <1>1, <1>3, <1>4, <1>5 DEF RangeInv

\* The other steps check nothing, or end the content result.
LEMMA NextRanges == TypeOK /\ RangeInv /\ [Next]_vars => RangeInv'
  <1> SUFFICES ASSUME TypeOK, RangeInv, [Next]_vars PROVE RangeInv'
    OBVIOUS
  <1>1. results \in Verdicts
    BY DEF TypeOK
  <1>2. CASE Open
    <2>1. /\ phase = "open" /\ UNCHANGED <<bundle, read, checked, expectedFrom>>
          /\ phase' = "hard" \/ (phase' = "events" /\ Refusal(bundle) = NoRefusal)
      BY <1>2 DEF Open, Hard, events, passVars
    <2>2. Refusal(bundle) = NoRefusal => bundle.checkpoints # <<>>
      BY DEF Refusal, NoRefusal, ExitFail
    <2>3. QED
      BY <2>1, <2>2 DEF RangeInv
  <1>3. ASSUME NEW l \in bundle.lines, ReadGarbage(l) \/ ReadUnnumbered(l) \/ ReadEvent(l)
        PROVE  RangeInv'
    BY <1>3, ReadingRanges
  <1>4. CASE ReadFails
    BY <1>4 DEF ReadFails, Hard, events, passVars, RangeInv
  <1>5. CASE EndEvents
    <2>1. /\ phase = "events" /\ phase' \in {"hard", "checkpoints"}
          /\ UNCHANGED <<bundle, read, checked, expectedFrom>>
      BY <1>5 DEF EndEvents, Hard, passVars
    <2>2. \A i \in 1..0 : FALSE
      OBVIOUS
    <2>3. checked = 0 /\ expectedFrom = Counter(bundle.from)
      BY <2>1 DEF RangeInv
    <2>4. QED
      BY <2>1, <2>2, <2>3 DEF RangeInv
  <1>6. CASE CheckCheckpoint
    BY <1>6, CheckingRanges
  <1>7. CASE SkipCheckpoint
    <2>1. ~Clean'
      BY <1>7, ReportedStep DEF SkipCheckpoint
    <2>2. phase = "checkpoints" /\ phase' = phase /\ UNCHANGED <<bundle, read>>
      BY <1>7 DEF SkipCheckpoint, Checking, events
    <2>3. QED
      BY <2>1, <2>2 DEF RangeInv
  <1>8. CASE EndCheckpoints
    <2>1. /\ phase = "checkpoints" /\ phase' = "sealed"
          /\ checked = Len(bundle.checkpoints)
          /\ results' = FailIf(~CounterEndsAt(expectedFrom, bundle.to), results, "scope")
          /\ UNCHANGED <<bundle, read, checked, expectedFrom>>
      BY <1>8 DEF EndCheckpoints, events, passVars
    <2>2. Clean' => Clean
      <3>1. results'["content_integrity"] = results["content_integrity"]
        BY <1>1, <2>1, FailIfOther, ResultNames
      <3>2. QED
        BY <3>1 DEF Clean
    <2>3. results'["scope"] = "pass" => CounterEndsAt(expectedFrom, bundle.to)
      BY <1>1, <2>1, FailIfPasses, ResultNames
    <2>4. QED
      BY <2>1, <2>2, <2>3 DEF RangeInv, Forwards
  <1>9. CASE UNCHANGED vars
    BY <1>9 DEF vars, events, passVars, RangeInv, Clean, Forwards
  <1>10. QED
    BY <1>2, <1>3, <1>4, <1>5, <1>6, <1>7, <1>8, <1>9 DEF Next

\* No sum of two 64-bit integers that wrapped around takes part in a verdict that
\* passes (walk.go, counter and the leaf count of a checkpoint), unless one of the
\* checkpoints runs backwards.
THEOREM WrapsNowhere == Spec => []NothingWrapped
  <1>1. Init => RangeInv
    <2> SUFFICES ASSUME Init PROVE RangeInv
      OBVIOUS
    <2>1. Len(read) = 0
      BY DEF Init
    <2>2. QED
      BY <2>1, WalkAssumption DEF Init, RangeInv
  <1>2. TypeOK /\ WalkInv /\ RangeInv => NothingWrapped
    <2> SUFFICES ASSUME TypeOK, WalkInv, RangeInv, phase = "sealed", Clean,
                        results["scope"] = "pass"
                 PROVE  /\ bundle.to < MaxInt
                        /\ Forwards(Len(bundle.checkpoints)) =>
                             \A i \in 1..Len(bundle.checkpoints) :
                               LET cp == bundle.checkpoints[i] IN
                               /\ cp.to - cp.from + 1 \in MinInt..MaxInt
                               /\ bundle.from <= cp.from /\ cp.to <= bundle.to
      BY DEF NothingWrapped, Forwards
    <2> DEFINE cps == bundle.checkpoints
               n == Len(cps)
    <2>1. /\ bundle.to < MaxInt /\ Len(read) = bundle.to - bundle.from + 1
          /\ bundle.from \in Int /\ bundle.to \in Int
      BY WalkEnds
    <2>2. /\ checked = n /\ n \in Nat /\ n # 0
          /\ \A i \in 1..n : cps[i].from \in MinInt..MaxInt /\ cps[i].to \in MinInt..MaxInt
      <3>1. cps # <<>> /\ cps \in Seq(Checkpoints)
        BY BundleFacts DEF RangeInv, TypeOK
      <3>2. n # 0
        BY <3>1
      <3>3. QED
        BY <3>2, CheckpointsOf DEF RangeInv
    <2>3. cps[n].to = bundle.to
      <3>1. CounterEndsAt(NextCounter(cps[n].to), bundle.to)
        BY <2>2 DEF RangeInv
      <3>2. cps[n].to \in MinInt..MaxInt /\ bundle.to \in MinInt..MaxInt
        BY <2>2, CheckpointsOf
      <3>3. QED
        BY <3>1, <3>2, EndsAtLast
    <2>4. bundle.to - bundle.from + 1 <= MaxInt
      BY <2>1, WalkAssumption DEF RangeInv
    <2>5. ASSUME Forwards(n), NEW i \in 1..n
          PROVE  /\ cps[i].to - cps[i].from + 1 \in MinInt..MaxInt
                 /\ bundle.from <= cps[i].from /\ cps[i].to <= bundle.to
      <3>1. bundle.from <= cps[i].from /\ cps[i].to <= bundle.to
        BY <2>2, <2>3, <2>5 DEF RangeInv
      <3>2. cps[i].from \in Int /\ cps[i].to \in Int /\ cps[i].from <= cps[i].to
        BY <2>2, <2>5, IntegerFacts DEF Forwards
      <3>3. cps[i].to - cps[i].from + 1 \in Int /\ 1 <= cps[i].to - cps[i].from + 1
            /\ cps[i].to - cps[i].from + 1 <= MaxInt
        <4> HIDE DEF cps, n
        <4>1. bundle.from \in Int /\ bundle.to \in Int
          BY <2>1
        <4>2. cps[i].to - cps[i].from <= bundle.to - bundle.from
          BY <3>1, <3>2, <4>1
        <4>3. MaxInt \in Int
          BY IntegerFacts
        <4>4. QED
          BY <2>4, <3>2, <4>1, <4>2, <4>3
      <3>4. QED
        BY <3>1, <3>3, IntegerFacts
    <2>6. QED
      BY <2>1, <2>5
  <1>3. QED
    BY <1>1, <1>2, WalkInvariant, NextRanges, PTL DEF Spec
-----------------------------------------------------------------------------
(* The trees that are cut from the events.                                 *)

\* What TypeOK says of the sequences the checkpoint trees are cut from.
LEMMA StateFacts ==
  ASSUME TypeOK
  PROVE  /\ bundle \in Bundles
         /\ read \in Seq(Lines) /\ Len(read) \in Nat
         /\ cumulative \in Seq(Entries) /\ Len(cumulative) \in Nat
         /\ open \in Seq(Entries) /\ Len(open) \in Nat
         /\ trees \in Seq(Seq(Entries)) /\ Len(trees) \in Nat
         /\ Len(trees) <= Len(Ranges(bundle))
         /\ \A i \in 1..Len(trees) : Len(trees[i]) \in Nat
  <1>1. /\ bundle \in Bundles /\ read \in Seq(Lines) /\ cumulative \in Seq(Entries)
        /\ open \in Seq(Entries) /\ trees \in Seq(Seq(Entries))
        /\ Len(trees) <= Len(Ranges(bundle))
    BY DEF TypeOK
  <1>2. \A i \in 1..Len(trees) : trees[i] \in Seq(Entries)
    BY <1>1
  <1>3. QED
    BY <1>1, <1>2

\* Of ranges that follow one another each ends before all the later ones.
LEMMA LaterRanges ==
  ASSUME NEW cps, NEW n \in Nat,
         \A i \in 1..n : /\ cps[i].from \in Int /\ cps[i].to \in Int
                         /\ cps[i].from <= cps[i].to,
         \A i \in 1..(n - 1) : cps[i].to + 1 = cps[i + 1].from
  PROVE  \A i, j \in 1..n : i < j => cps[i].to < cps[j].from
  <1> SUFFICES ASSUME NEW i \in 1..n,
                      ~(\A j \in 1..n : i < j => cps[i].to < cps[j].from)
               PROVE  FALSE
    OBVIOUS
  <1> DEFINE Bad == {j \in 1..n : i < j /\ ~(cps[i].to < cps[j].from)}
  <1>1. Bad \subseteq Nat /\ Bad # {}
    OBVIOUS
  <1>2. PICK j \in Bad : \A k \in Bad : ~(<<k, j>> \in OpToRel(<, Nat))
    BY <1>1, NatLessThanWellFounded, WFMin
  <1>3. j \in 1..n /\ i < j /\ ~(cps[i].to < cps[j].from)
    OBVIOUS
  <1>4. i \in Int /\ j \in Int /\ j - 1 \in 1..n /\ j - 1 \in 1..(n - 1)
    BY <1>3
  <1>5. cps[j - 1].to + 1 = cps[j].from
    <2>1. cps[j - 1].to + 1 = cps[(j - 1) + 1].from
      BY <1>4
    <2>2. (j - 1) + 1 = j
      BY <1>4
    <2>3. QED
      BY <2>1, <2>2
  <1>6. /\ cps[i].to \in Int /\ cps[j].from \in Int
        /\ cps[j - 1].from \in Int /\ cps[j - 1].to \in Int
        /\ cps[j - 1].from <= cps[j - 1].to
    BY <1>3, <1>4
  <1>7. CASE i = j - 1
    BY <1>3, <1>5, <1>6, <1>7
  <1>8. CASE i < j - 1
    <2>1. j - 1 \notin Bad
      <3>1. ASSUME j - 1 \in Bad
            PROVE  FALSE
        <4>1. ~(<<j - 1, j>> \in OpToRel(<, Nat))
          BY <1>2, <3>1
        <4>2. j - 1 \in Nat /\ j \in Nat /\ j - 1 < j
          BY <1>4
        <4>3. QED
          BY <4>1, <4>2 DEF OpToRel
      <3>2. QED
        BY <3>1
    <2>2. cps[i].to < cps[j - 1].from
      BY <1>4, <1>8, <2>1
    <2>3. QED
      BY <1>3, <1>5, <1>6, <2>2
  <1>9. QED
    BY <1>3, <1>4, <1>7, <1>8

\* Where the lines read were cut: the i-th tree is over the lines from cut[i-1] to
\* cut[i], and the lines up to there are those whose sequence the i-th range reaches.
IsCut(cut, closed, lines, b) ==
  /\ cut \in [0..Len(closed) -> 0..Len(lines)] /\ cut[0] = 0
  /\ \A i \in 1..Len(closed) :
       /\ closed[i] = EntriesOf(lines, cut[i - 1], cut[i])
       /\ \A j \in 1..Len(lines) : j <= cut[i] <=> lines[j].seq <= Ranges(b)[i].to

\* The open tree is over the lines after the last cut, none of which the next range
\* leaves out.
IsOpen(tree, cut, n, lines, b) ==
  /\ tree = EntriesOf(lines, cut[n], Len(lines))
  /\ \A i \in 1..n : cut[i] < Len(lines)
  /\ n < Len(Ranges(b)) =>
       \A j \in 1..Len(lines) : lines[j].seq <= Ranges(b)[n + 1].to

CutInv ==
  InOrder /\ RangesPartition =>
    \E cut : /\ IsCut(cut, trees, read, bundle)
             /\ phase \in {"open", "events"} =>
                  IsOpen(open, cut, Len(trees), read, bundle)

\* Every range ends later than the ones before it.
RangesRise(b) ==
  /\ \A i \in 1..Len(Ranges(b)) : Ranges(b)[i].to \in Int
  /\ \A i, j \in 1..Len(Ranges(b)) : i < j => Ranges(b)[i].to < Ranges(b)[j].to

\* The trees more are the closed ones, the open one and, up to n, empty ones.
ClosesTo(more, closed, tree, n) ==
  /\ Len(more) = n
  /\ \A i \in 1..Len(closed) : more[i] = closed[i]
  /\ n > Len(closed) => more[Len(closed) + 1] = tree
  /\ \A i \in (Len(closed) + 2)..n : more[i] = <<>>

\* Ranges that follow one another.
LEMMA PartitionFacts ==
  ASSUME TypeOK, RangesPartition
  PROVE  /\ RangesRise(bundle)
         /\ \A i \in 1..Len(Ranges(bundle)) :
              Ranges(bundle)[i].from \in Int /\ Ranges(bundle)[i].to \in Int
  <1> DEFINE rs == Ranges(bundle)
  <1>1. bundle \in Bundles /\ rs \in Seq(Checkpoints) /\ Len(rs) \in Nat
    BY StateFacts, BundleFacts
  <1>2. \A i \in 1..Len(rs) : rs[i] \in Checkpoints
    BY <1>1
  <1>3. \A i \in 1..Len(rs) : rs[i].from \in Int /\ rs[i].to \in Int
    BY <1>2, WalkAssumption, IntegerFacts
  <1>4. /\ \A i \in 1..Len(rs) : rs[i].from <= rs[i].to
        /\ \A i \in 1..(Len(rs) - 1) : rs[i].to + 1 = rs[i + 1].from
    BY DEF RangesPartition
  <1>5. \A i, j \in 1..Len(rs) : i < j => rs[i].to < rs[j].from
    BY <1>1, <1>3, <1>4, LaterRanges
  <1>6. ASSUME NEW i \in 1..Len(rs), NEW j \in 1..Len(rs), i < j
        PROVE  rs[i].to < rs[j].to
    <2>1. rs[i].to < rs[j].from /\ rs[j].from <= rs[j].to
      BY <1>4, <1>5, <1>6
    <2>2. rs[i].to \in Int /\ rs[j].from \in Int /\ rs[j].to \in Int
      BY <1>3
    <2>3. QED
      BY <2>1, <2>2
  <1>7. QED
    BY <1>3, <1>6 DEF RangesRise

\* The lines read have a sequence each.
LEMMA LineFacts ==
  ASSUME NEW lines \in Seq(Lines)
  PROVE  /\ Len(lines) \in Nat
         /\ \A j \in 1..Len(lines) : lines[j] \in Lines /\ lines[j].seq \in Int
  <1>1. Len(lines) \in Nat /\ \A j \in 1..Len(lines) : lines[j] \in Lines
    OBVIOUS
  <1>2. QED
    BY <1>1, WalkAssumption, IntegerFacts DEF LineShape

\* Closing the open tree, and after it the ranges nothing arrived for.
LEMMA ClosingCuts ==
  ASSUME NEW b \in Bundles, NEW lines \in Seq(Lines), NEW closed, NEW cut, NEW tree,
         NEW more, NEW n \in Nat, Len(closed) \in Nat, Len(closed) <= n,
         n <= Len(Ranges(b)), RangesRise(b), ClosesTo(more, closed, tree, n),
         IsCut(cut, closed, lines, b), IsOpen(tree, cut, Len(closed), lines, b)
  PROVE  \E longer :
           /\ IsCut(longer, more, lines, b)
           /\ longer[n] = IF n > Len(closed) THEN Len(lines) ELSE cut[n]
  <1> DEFINE t == Len(closed)
             longer == [i \in 0..n |-> IF i <= t THEN cut[i] ELSE Len(lines)]
  <1>1. /\ Len(lines) \in Nat /\ \A j \in 1..Len(lines) : lines[j].seq \in Int
        /\ cut \in [0..t -> 0..Len(lines)] /\ cut[0] = 0 /\ t \in 0..n
        /\ Len(Ranges(b)) \in Nat
    BY LineFacts, BundleFacts DEF IsCut
  <1>2. Len(more) = n
    BY DEF ClosesTo
  <1>3. /\ \A i \in 1..n : i <= t => more[i] = closed[i]
        /\ n > t => more[t + 1] = tree
        /\ \A i \in 1..n : i > t + 1 => more[i] = <<>>
    BY <1>1 DEF ClosesTo
  <1>4. /\ longer \in [0..n -> 0..Len(lines)]
        /\ \A i \in 0..n : i <= t => longer[i] = cut[i]
        /\ \A i \in 0..n : i > t => longer[i] = Len(lines)
    BY <1>1
  <1> HIDE DEF longer
  <1>5. ASSUME NEW i \in 1..n
        PROVE  /\ more[i] = EntriesOf(lines, longer[i - 1], longer[i])
               /\ \A j \in 1..Len(lines) : j <= longer[i] <=> lines[j].seq <= Ranges(b)[i].to
    <2>1. CASE i <= t
      <3>1. /\ i \in 1..t /\ i - 1 \in 0..n /\ i - 1 <= t /\ i \in 0..n
            /\ longer[i] = cut[i] /\ longer[i - 1] = cut[i - 1] /\ more[i] = closed[i]
        BY <1>1, <1>3, <1>4, <2>1
      <3>2. QED
        BY <3>1 DEF IsCut
    <2>2. CASE i > t
      <3>1. longer[i] = Len(lines)
        BY <1>4, <2>2
      <3>2. \A j \in 1..Len(lines) : lines[j].seq <= Ranges(b)[t + 1].to
        BY <1>1, <2>2 DEF IsOpen
      <3>3. /\ t + 1 \in 1..Len(Ranges(b)) /\ i \in 1..Len(Ranges(b))
            /\ Ranges(b)[t + 1].to \in Int /\ Ranges(b)[i].to \in Int
            /\ Ranges(b)[t + 1].to <= Ranges(b)[i].to
        BY <1>1, <2>2 DEF RangesRise
      <3>4. \A j \in 1..Len(lines) : j <= longer[i] <=> lines[j].seq <= Ranges(b)[i].to
        BY <1>1, <3>1, <3>2, <3>3
      <3>5. more[i] = EntriesOf(lines, longer[i - 1], longer[i])
        <4>1. CASE i = t + 1
          <5>1. i - 1 = t /\ longer[i - 1] = cut[t] /\ more[i] = tree
            BY <1>1, <1>3, <1>4, <4>1
          <5>2. QED
            BY <3>1, <5>1 DEF IsOpen
        <4>2. CASE i > t + 1
          <5>1. longer[i - 1] = Len(lines) /\ more[i] = <<>>
            BY <1>1, <1>3, <1>4, <4>2
          <5>2. EntriesOf(lines, Len(lines), Len(lines)) = <<>>
            BY <1>1 DEF EntriesOf
          <5>3. QED
            BY <3>1, <5>1, <5>2
        <4>3. QED
          BY <1>1, <2>2, <4>1, <4>2
      <3>6. QED
        BY <3>4, <3>5
    <2>3. QED
      BY <1>1, <2>1, <2>2
  <1>6. IsCut(longer, more, lines, b)
    BY <1>1, <1>2, <1>4, <1>5 DEF IsCut
  <1>7. longer[n] = IF n > t THEN Len(lines) ELSE cut[n]
    BY <1>1, <1>4
  <1>8. QED
    BY <1>6, <1>7

\* One more line, past all the cuts made so far, moves none of them.
LEMMA CutsStay ==
  ASSUME NEW b \in Bundles, NEW lines \in Seq(Lines), NEW l \in Lines, NEW cut, NEW closed,
         Len(closed) \in Nat, IsCut(cut, closed, lines, b),
         \A i \in 1..Len(closed) : Ranges(b)[i].to \in Int /\ Ranges(b)[i].to < l.seq
  PROVE  IsCut(cut, closed, Append(lines, l), b)
  <1> DEFINE more == Append(lines, l)
  <1>1. /\ Len(lines) \in Nat /\ \A j \in 1..Len(lines) : lines[j].seq \in Int
        /\ cut \in [0..Len(closed) -> 0..Len(lines)]
    BY LineFacts DEF IsCut
  <1>2. /\ Len(more) = Len(lines) + 1 /\ more[Len(lines) + 1] = l
        /\ \A j \in 1..Len(lines) : more[j] = lines[j]
    OBVIOUS
  <1>3. l.seq \in Int
    BY WalkAssumption, IntegerFacts DEF LineShape
  <1> HIDE DEF more
  <1>4. cut \in [0..Len(closed) -> 0..Len(more)]
    BY <1>1, <1>2
  <1>5. ASSUME NEW i \in 1..Len(closed)
        PROVE  /\ closed[i] = EntriesOf(more, cut[i - 1], cut[i])
               /\ \A j \in 1..Len(more) : j <= cut[i] <=> more[j].seq <= Ranges(b)[i].to
    <2> DEFINE t == Len(closed)
    <2> HIDE DEF t
    <2>1. cut[i - 1] \in 0..Len(lines) /\ cut[i] \in 0..Len(lines)
      <3>1. t \in Nat /\ i \in 1..t /\ cut \in [0..t -> 0..Len(lines)]
        BY <1>1 DEF t
      <3>2. i - 1 \in 0..t /\ i \in 0..t
        BY <3>1
      <3>3. QED
        BY <3>1, <3>2
    <2>2. \A k \in 1..(cut[i] - cut[i - 1]) : cut[i - 1] + k \in 1..Len(lines)
      BY <1>1, <2>1
    <2>3. EntriesOf(more, cut[i - 1], cut[i]) = EntriesOf(lines, cut[i - 1], cut[i])
      BY <1>2, <2>2 DEF EntriesOf
    <2>4. ASSUME NEW j \in 1..Len(more)
          PROVE  j <= cut[i] <=> more[j].seq <= Ranges(b)[i].to
      <3>1. CASE j = Len(lines) + 1
        BY <1>1, <1>2, <1>3, <2>1, <3>1
      <3>2. CASE j # Len(lines) + 1
        <4>1. j \in 1..Len(lines) /\ more[j] = lines[j]
          BY <1>1, <1>2, <3>2
        <4>2. QED
          BY <4>1 DEF IsCut
      <3>3. QED
        BY <3>1, <3>2
    <2>5. QED
      BY <2>3, <2>4 DEF IsCut
  <1>6. QED
    BY <1>4, <1>5 DEF IsCut, more

\* A sequence that continues another by one element.
LEMMA OneMoreElement ==
  ASSUME NEW X, NEW s \in Seq(X), NEW e \in X, NEW longer \in Seq(X),
         Len(longer) = Len(s) + 1, longer[Len(s) + 1] = e,
         \A k \in 1..Len(s) : longer[k] = s[k]
  PROVE  longer = s \o <<e>>
  <1>1. /\ s \o <<e>> \in Seq(X) /\ Len(s \o <<e>>) = Len(s) + 1
        /\ \A k \in 1..Len(s) : (s \o <<e>>)[k] = s[k]
        /\ (s \o <<e>>)[Len(s) + 1] = e
    OBVIOUS
  <1> DEFINE other == s \o <<e>>
  <1> HIDE DEF other
  <1>2. /\ other \in Seq(X) /\ Len(other) = Len(s) + 1
        /\ \A k \in 1..Len(s) : other[k] = s[k]
        /\ other[Len(s) + 1] = e
    BY <1>1 DEF other
  <1>3. Len(s) \in Nat
    OBVIOUS
  <1>4. \A k \in 1..(Len(s) + 1) : longer[k] = other[k]
    BY <1>2, <1>3
  <1>5. longer = other
    BY <1>2, <1>3, <1>4
  <1>6. QED
    BY <1>5 DEF other

\* The lines from the last cut on, and one more.
LEMMA OneMoreEntry ==
  ASSUME NEW lines \in Seq(Lines), NEW l \in Lines, NEW m \in 0..Len(lines)
  PROVE  EntriesOf(Append(lines, l), m, Len(lines) + 1)
           = EntriesOf(lines, m, Len(lines)) \o <<l.entry>>
  <1> DEFINE more == Append(lines, l)
             d == Len(lines) - m
             old == EntriesOf(lines, m, Len(lines))
             new == EntriesOf(more, m, Len(lines) + 1)
  <1>1. /\ Len(lines) \in Nat /\ m \in Nat /\ d \in Nat /\ (Len(lines) + 1) - m = d + 1
        /\ m + (d + 1) = Len(lines) + 1
        /\ \A j \in 1..Len(lines) : more[j] = lines[j] /\ more[j] \in Lines
        /\ more[Len(lines) + 1] = l
    OBVIOUS
  <1>2. \A k \in 1..d : m + k \in 1..Len(lines)
    BY <1>1
  <1>3. /\ old = [k \in 1..d |-> lines[m + k].entry]
        /\ new = [k \in 1..(d + 1) |-> more[m + k].entry]
    BY <1>1 DEF EntriesOf
  <1> HIDE DEF more, d
  <1>4. ASSUME NEW k \in 1..(d + 1)
        PROVE  /\ k \in 1..d => more[m + k].entry = lines[m + k].entry
               /\ k = d + 1 => more[m + k].entry = l.entry
               /\ more[m + k].entry \in Entries
    <2>1. CASE k = d + 1
      <3>1. m + k = Len(lines) + 1
        BY <1>1, <2>1
      <3>2. more[m + k] = l /\ k \notin 1..d
        BY <1>1, <3>1, <2>1
      <3>3. QED
        BY <3>2 DEF Entries
    <2>2. CASE k # d + 1
      <3>1. k \in 1..d
        BY <1>1, <2>2
      <3>2. more[m + k] = lines[m + k] /\ more[m + k] \in Lines
        BY <1>1, <1>2, <3>1
      <3>3. QED
        BY <2>2, <3>2 DEF Entries
    <2>3. QED
      BY <2>1, <2>2
  <1>5. \A k \in 1..d : k \in 1..(d + 1)
    BY <1>1
  <1>6. d + 1 \in 1..(d + 1)
    BY <1>1
  <1>7. new \in [1..(d + 1) -> Entries]
    BY <1>3, <1>4
  <1>8. \A k \in 1..d : old[k] = new[k]
    BY <1>3, <1>4, <1>5
  <1>9. new[d + 1] = l.entry
    BY <1>3, <1>4, <1>6
  <1>10. old \in [1..d -> Entries]
    <2>1. \A k \in 1..d : lines[m + k].entry \in Entries
      BY <1>4, <1>5
    <2>2. QED
      BY <1>3, <2>1
  <1> HIDE DEF old, new
  <1>11. old \in Seq(Entries) /\ Len(old) = d
    BY <1>1, <1>10
  <1>12. new \in Seq(Entries) /\ Len(new) = d + 1
    BY <1>1, <1>7
  <1>13. l.entry \in Entries
    BY DEF Entries
  <1>14. new = old \o <<l.entry>>
    BY <1>8, <1>9, <1>11, <1>12, <1>13, OneMoreElement
  <1>15. QED
    BY <1>14 DEF old, new, more

\* Lines that are in order were so before the last of them.
LEMMA InOrderBefore ==
  ASSUME TypeOK, NEW l \in Lines, read' = Append(read, l), bundle' = bundle, InOrder'
  PROVE  /\ InOrder /\ l.kind = "event" /\ IsDigest(l.entry)
         /\ \A j \in 1..Len(read) : read[j].seq < l.seq
  <1>1. /\ Len(read) \in Nat /\ Len(read') = Len(read) + 1 /\ read'[Len(read) + 1] = l
        /\ \A j \in 1..Len(read) : read'[j] = read[j]
    BY StateFacts
  <1>2. \A j \in 1..Len(read) : j \in 1..Len(read') /\ j < Len(read) + 1
    BY <1>1
  <1>3. Len(read) + 1 \in 1..Len(read')
    BY <1>1
  <1>4. QED
    BY <1>1, <1>2, <1>3 DEF InOrder

\* Before the first line nothing is cut.
LEMMA InitCuts == Init => CutInv
  <1> SUFFICES ASSUME Init PROVE CutInv
    OBVIOUS
  <1> DEFINE cut == [i \in 0..0 |-> 0]
  <1>1. trees = <<>> /\ open = <<>> /\ read = <<>>
    BY DEF Init
  <1>2. Len(<<>>) = 0 /\ cut \in [0..0 -> 0..0] /\ cut[0] = 0
    OBVIOUS
  <1>3. IsCut(cut, <<>>, <<>>, bundle)
    BY <1>2 DEF IsCut
  <1>4. IsOpen(<<>>, cut, 0, <<>>, bundle)
    <2>1. EntriesOf(<<>>, 0, 0) = <<>>
      BY DEF EntriesOf
    <2>2. QED
      BY <1>2, <2>1 DEF IsOpen
  <1>5. QED
    BY <1>1, <1>2, <1>3, <1>4 DEF CutInv

\* An event goes into the tree that its sequence leaves open.
LEMMA ReadEventCuts ==
  ASSUME TypeOK, CutInv, NEW l \in Lines, ReadEvent(l), InOrder', RangesPartition
  PROVE  \E cut : /\ IsCut(cut, trees', read', bundle)
                  /\ IsOpen(open', cut, Len(trees'), read', bundle)
  <1> DEFINE t == Len(trees)
  <1>1. /\ phase = "events" /\ bundle' = bundle /\ read' = Append(read, l)
        /\ \E n \in t..Len(Ranges(bundle)) :
             /\ ClosedBefore(l.seq, n) /\ CloseUpTo(n)
             /\ open' = (IF n > t THEN <<>> ELSE open) \o Leaf(l)
    BY DEF ReadEvent, Reading
  <1>2. /\ InOrder /\ IsDigest(l.entry)
        /\ \A j \in 1..Len(read) : read[j].seq < l.seq
    BY <1>1, InOrderBefore
  <1>3. PICK cut : IsCut(cut, trees, read, bundle) /\ IsOpen(open, cut, t, read, bundle)
    BY <1>1, <1>2 DEF CutInv
  <1>4. PICK n \in t..Len(Ranges(bundle)) :
           /\ ClosedBefore(l.seq, n) /\ CloseUpTo(n)
           /\ open' = (IF n > t THEN <<>> ELSE open) \o Leaf(l)
    BY <1>1
  <1>5. /\ bundle \in Bundles /\ read \in Seq(Lines) /\ Len(read) \in Nat /\ t \in Nat
        /\ open \in Seq(Entries) /\ trees \in Seq(Seq(Entries))
        /\ Len(Ranges(bundle)) \in Nat /\ n \in Nat /\ n >= t /\ n <= Len(Ranges(bundle))
    BY StateFacts, BundleFacts
  <1>6. /\ RangesRise(bundle)
        /\ \A i \in 1..Len(Ranges(bundle)) : Ranges(bundle)[i].to \in Int
        /\ \A i, j \in 1..Len(Ranges(bundle)) :
             i < j => Ranges(bundle)[i].to < Ranges(bundle)[j].to
    BY PartitionFacts DEF RangesRise
  <1>7. Len(trees') = n /\ ClosesTo(trees', trees, open, n)
    BY <1>4, <1>5, CloseUpToType DEF ClosesTo
  <1>8. PICK longer : /\ IsCut(longer, trees', read, bundle)
                      /\ longer[n] = IF n > t THEN Len(read) ELSE cut[n]
    <2>1. t <= n
      BY <1>5
    <2>2. QED
      BY <1>3, <1>5, <1>6, <1>7, <2>1, ClosingCuts
  <1> DEFINE to(i) == Ranges(bundle)[i].to
  <1>9. /\ l.seq \in Int /\ \A j \in 1..Len(read) : read[j].seq \in Int
    BY <1>5, LineFacts, WalkAssumption, IntegerFacts DEF LineShape
  <1>10. /\ \A i \in (t + 1)..n : l.seq > to(i)
         /\ n < Len(Ranges(bundle)) => l.seq <= to(n + 1)
    BY <1>4 DEF ClosedBefore
  <1>11. /\ open = EntriesOf(read, cut[t], Len(read))
         /\ \A i \in 1..t : cut[i] < Len(read)
    BY <1>3 DEF IsOpen
  <1>12. /\ cut \in [0..t -> 0..Len(read)]
         /\ \A i \in 1..t, j \in 1..Len(read) : j <= cut[i] <=> read[j].seq <= to(i)
    BY <1>3 DEF IsCut
  <1>13. longer \in [0..n -> 0..Len(read)]
    BY <1>7, <1>8 DEF IsCut
  <1> HIDE DEF t
  <1>14. ASSUME NEW i \in 1..n
         PROVE  to(i) \in Int /\ to(i) < l.seq
    <2>1. i \in 1..Len(Ranges(bundle)) /\ to(i) \in Int
      BY <1>5, <1>6
    <2>2. CASE i > t
      <3>1. i \in (t + 1)..n
        BY <1>5, <2>2
      <3>2. QED
        BY <1>9, <1>10, <2>1, <3>1
    <2>3. CASE i <= t /\ n > t
      <3>1. t + 1 \in (t + 1)..n /\ t + 1 \in 1..Len(Ranges(bundle)) /\ i < t + 1
        BY <1>5, <2>3
      <3>2. l.seq > to(t + 1) /\ to(t + 1) \in Int /\ to(i) < to(t + 1)
        BY <1>6, <1>10, <2>1, <3>1
      <3>3. QED
        BY <1>9, <2>1, <3>2
    <2>4. CASE i <= t /\ n = t
      <3>1. i \in 1..t /\ i \in 0..t
        BY <1>5, <2>4
      <3>2. cut[i] \in 0..Len(read) /\ cut[i] < Len(read)
        BY <1>11, <1>12, <3>1
      <3>3. Len(read) \in 1..Len(read) /\ ~(Len(read) <= cut[i])
        BY <1>5, <3>2
      <3>4. ~(read[Len(read)].seq <= to(i)) /\ read[Len(read)].seq < l.seq
        BY <1>2, <1>12, <3>1, <3>3
      <3>5. read[Len(read)].seq \in Int
        BY <1>9, <3>3
      <3>6. QED
        BY <1>9, <2>1, <3>4, <3>5
    <2>5. QED
      BY <1>5, <2>2, <2>3, <2>4
  <1>15. IsCut(longer, trees', read', bundle)
    <2>1. \A i \in 1..Len(trees') : to(i) \in Int /\ to(i) < l.seq
      BY <1>7, <1>14
    <2>2. Len(trees') \in Nat
      BY <1>5, <1>7
    <2>3. QED
      BY <1>1, <1>5, <1>8, <2>1, <2>2, CutsStay
  <1>16. /\ Len(read') = Len(read) + 1 /\ read'[Len(read) + 1] = l
         /\ \A j \in 1..Len(read) : read'[j] = read[j]
    BY <1>1, <1>5
  <1>17. open' = EntriesOf(read', longer[n], Len(read'))
    <2> DEFINE base == IF n > t THEN <<>> ELSE open
    <2>1. base = EntriesOf(read, longer[n], Len(read))
      <3>1. CASE n > t
        <4>1. EntriesOf(read, Len(read), Len(read)) = <<>>
          BY <1>5 DEF EntriesOf
        <4>2. QED
          BY <1>8, <3>1, <4>1
      <3>2. CASE n = t
        BY <1>5, <1>8, <1>11, <3>2
      <3>3. QED
        BY <1>5, <3>1, <3>2
    <2>2. Leaf(l) = <<l.entry>>
      BY <1>2 DEF Leaf
    <2>3. longer[n] \in 0..Len(read)
      BY <1>5, <1>13
    <2>4. open' = base \o Leaf(l)
      BY <1>4 DEF t
    <2> HIDE DEF base
    <2>5. EntriesOf(Append(read, l), longer[n], Len(read) + 1)
            = EntriesOf(read, longer[n], Len(read)) \o <<l.entry>>
      BY <1>5, <2>3, OneMoreEntry
    <2>6. QED
      BY <1>1, <1>16, <2>1, <2>2, <2>4, <2>5
  <1>18. ASSUME NEW i \in 1..n
         PROVE  longer[i] < Len(read')
    <2>1. i \in 0..n
      BY <1>5
    <2>2. longer[i] \in 0..Len(read)
      BY <1>13, <2>1
    <2>3. QED
      BY <1>5, <1>16, <2>2
  <1>19. ASSUME n < Len(Ranges(bundle)), NEW j \in 1..Len(read')
         PROVE  read'[j].seq <= to(n + 1)
    <2>1. n + 1 \in 1..Len(Ranges(bundle)) /\ l.seq <= to(n + 1)
      BY <1>5, <1>10, <1>19
    <2>2. to(n + 1) \in Int
      BY <1>6, <2>1
    <2>3. CASE j = Len(read) + 1
      BY <1>16, <2>1, <2>3
    <2>4. CASE j # Len(read) + 1
      <3>1. j \in 1..Len(read)
        BY <1>5, <1>16, <2>4
      <3>2. read'[j].seq < l.seq /\ read'[j].seq \in Int
        BY <1>2, <1>9, <1>16, <3>1
      <3>3. QED
        BY <1>9, <2>1, <2>2, <3>2
    <2>5. QED
      BY <2>3, <2>4
  <1>20. IsOpen(open', longer, n, read', bundle)
    BY <1>17, <1>18, <1>19 DEF IsOpen
  <1>21. QED
    BY <1>7, <1>15, <1>20

\* A line that is no event ends what can be said of the trees.
LEMMA NoEventNoOrder ==
  ASSUME TypeOK, NEW l \in Lines, l.kind # "event", read' = Append(read, l)
  PROVE  ~InOrder'
  <1>1. /\ Len(read) \in Nat /\ Len(read') = Len(read) + 1 /\ read'[Len(read) + 1] = l
    BY StateFacts
  <1>2. Len(read) + 1 \in 1..Len(read')
    BY <1>1
  <1>3. QED
    BY <1>1, <1>2 DEF InOrder

\* At the end of the file the open tree is closed, and the rest over nothing.
LEMMA EndEventsCuts ==
  ASSUME TypeOK, CutInv, EndEvents, InOrder, RangesPartition
  PROVE  \E cut : IsCut(cut, trees', read, bundle)
  <1> DEFINE t == Len(trees)
             n == Len(Ranges(bundle))
  <1>1. phase = "events" /\ CloseUpTo(n)
    BY DEF EndEvents
  <1>2. PICK cut : IsCut(cut, trees, read, bundle) /\ IsOpen(open, cut, t, read, bundle)
    BY <1>1 DEF CutInv
  <1>3. /\ bundle \in Bundles /\ read \in Seq(Lines) /\ t \in Nat
        /\ open \in Seq(Entries) /\ trees \in Seq(Seq(Entries)) /\ n \in Nat /\ n >= t
    BY StateFacts, BundleFacts
  <1>4. RangesRise(bundle)
    BY PartitionFacts
  <1>5. ClosesTo(trees', trees, open, n)
    BY <1>1, <1>3, CloseUpToType DEF ClosesTo
  <1>6. t <= n /\ n <= Len(Ranges(bundle))
    BY <1>3
  <1>7. QED
    BY <1>2, <1>3, <1>4, <1>5, <1>6, ClosingCuts

\* Every line read and every checkpoint closed leaves the trees cut from the lines.
LEMMA NextCuts == TypeOK /\ CutInv /\ [Next]_vars => CutInv'
  <1> SUFFICES ASSUME TypeOK, CutInv, [Next]_vars, InOrder', RangesPartition'
               PROVE  \E cut : /\ IsCut(cut, trees', read', bundle')
                               /\ phase' \in {"open", "events"} =>
                                    IsOpen(open', cut, Len(trees'), read', bundle')
    BY DEF CutInv
  <1> DEFINE Same == UNCHANGED <<bundle, read, trees, open>>
             Kept == Same /\ (phase' \in {"open", "events"} => phase \in {"open", "events"})
  <1>1. CASE Kept
    <2>1. InOrder /\ RangesPartition
      BY <1>1 DEF InOrder, RangesPartition
    <2>2. QED
      BY <1>1, <2>1 DEF CutInv
  <1>2. ASSUME NEW l \in bundle.lines, ReadGarbage(l) \/ ReadUnnumbered(l)
        PROVE  FALSE
    <2>1. l \in Lines /\ l.kind # "event" /\ read' = Append(read, l)
      BY <1>2, StateFacts, BundleFacts DEF ReadGarbage, ReadUnnumbered
    <2>2. QED
      BY <2>1, NoEventNoOrder
  <1>3. ASSUME NEW l \in bundle.lines, ReadEvent(l)
        PROVE  \E cut : /\ IsCut(cut, trees', read', bundle')
                        /\ IsOpen(open', cut, Len(trees'), read', bundle')
    <2>1. l \in Lines /\ bundle' = bundle
      BY <1>3, StateFacts, BundleFacts DEF ReadEvent
    <2>2. RangesPartition
      BY <2>1 DEF RangesPartition
    <2>3. QED
      BY <1>3, <2>1, <2>2, ReadEventCuts
  <1>4. CASE EndEvents
    <2>1. bundle' = bundle /\ read' = read /\ phase' \in {"hard", "checkpoints"}
      BY <1>4 DEF EndEvents, Hard
    <2>2. InOrder /\ RangesPartition
      BY <2>1 DEF InOrder, RangesPartition
    <2>3. QED
      BY <1>4, <2>1, <2>2, EndEventsCuts
  <1>5. CASE Open
    BY <1>1, <1>5 DEF Open, events
  <1>6. CASE ReadFails
    BY <1>1, <1>6 DEF ReadFails, events, Hard
  <1>7. CASE CheckCheckpoint
    BY <1>1, <1>7 DEF CheckCheckpoint, events
  <1>8. CASE SkipCheckpoint
    BY <1>1, <1>8 DEF SkipCheckpoint, events
  <1>9. CASE EndCheckpoints
    BY <1>1, <1>9 DEF EndCheckpoints, events
  <1>10. CASE UNCHANGED vars
    BY <1>1, <1>10 DEF vars, events
  <1>11. QED
    BY <1>2, <1>3, <1>4, <1>5, <1>6, <1>7, <1>8, <1>9, <1>10 DEF Next

\* A tree between two cuts is over the lines of its range: the cut before it is
\* where the range before it ends.
LEMMA CutTreesAreRanges ==
  ASSUME TypeOK, InOrder, RangesPartition, NEW cut, IsCut(cut, trees, read, bundle),
         NEW i \in 1..Len(trees)
  PROVE  IsTreeOver(trees[i], read, Ranges(bundle)[i])
  <1> DEFINE rs == Ranges(bundle)
             t == Len(trees)
  <1>1. /\ bundle \in Bundles /\ read \in Seq(Lines) /\ Len(read) \in Nat /\ t \in Nat
        /\ t <= Len(rs) /\ Len(rs) \in Nat
    BY StateFacts, BundleFacts
  <1>2. \A j \in 1..Len(read) : read[j].seq \in Int
    BY <1>1, LineFacts
  <1>3. \A k \in 1..Len(rs) : rs[k].from \in Int /\ rs[k].to \in Int
    BY PartitionFacts
  <1>4. i \in 1..Len(rs) /\ i - 1 \in 0..t /\ i \in 0..t
    BY <1>1
  <1>5. cut \in [0..t -> 0..Len(read)] /\ cut[0] = 0
    BY DEF IsCut
  <1>6. cut[i - 1] \in 0..Len(read) /\ cut[i] \in 0..Len(read)
    BY <1>4, <1>5
  <1>7. /\ trees[i] = EntriesOf(read, cut[i - 1], cut[i])
        /\ \A j \in 1..Len(read) : j <= cut[i] <=> read[j].seq <= rs[i].to
    BY DEF IsCut
  <1>8. ASSUME NEW j \in 1..Len(read)
        PROVE  cut[i - 1] < j <=> rs[i].from <= read[j].seq
    <2>1. CASE i = 1
      <3>1. rs[1].from = bundle.from /\ bundle.from <= read[j].seq
        BY DEF RangesPartition, InOrder
      <3>2. cut[i - 1] = 0 /\ 0 < j
        BY <1>1, <1>5, <2>1
      <3>3. QED
        BY <2>1, <3>1, <3>2
    <2>2. CASE i # 1
      <3>1. i - 1 \in 1..t /\ i - 1 \in 1..(Len(rs) - 1) /\ i - 1 \in 1..Len(rs)
            /\ (i - 1) + 1 = i
        BY <1>1, <1>4, <2>2
      <3>2. rs[i - 1].to + 1 = rs[i].from
        BY <3>1 DEF RangesPartition
      <3>3. j <= cut[i - 1] <=> read[j].seq <= rs[i - 1].to
        BY <3>1 DEF IsCut
      <3>4. rs[i - 1].to \in Int /\ rs[i].from \in Int /\ read[j].seq \in Int
        BY <1>2, <1>3, <1>4, <3>1
      <3>5. read[j].seq <= rs[i - 1].to <=> ~(rs[i].from <= read[j].seq)
        BY <3>2, <3>4
      <3>6. j <= cut[i - 1] <=> ~(cut[i - 1] < j)
        BY <1>6
      <3>7. QED
        BY <3>3, <3>5, <3>6
    <2>3. QED
      BY <2>1, <2>2
  <1>9. \A j \in 1..Len(read) :
          cut[i - 1] < j /\ j <= cut[i] <=> rs[i].from <= read[j].seq /\ read[j].seq <= rs[i].to
    BY <1>7, <1>8
  <1>10. QED
    BY <1>6, <1>7, <1>9 DEF IsTreeOver

\* Whichever events are missing, each closed tree is over the events that arrived
\* of its own checkpoint's range (checkpoint closing in walk.go).
THEOREM ClosedTreesAreRanges == Spec => []ClosedTreeIsItsRange
  <1>1. TypeOK /\ CutInv => ClosedTreeIsItsRange
    BY CutTreesAreRanges DEF ClosedTreeIsItsRange, CutInv
  <1>2. QED
    BY <1>1, TypeCorrect, InitCuts, NextCuts, PTL DEF Spec

-----------------------------------------------------------------------------
(* The sealed range the bundle is compared with.                           *)

From(b, i) == Ranges(b)[i].from
To(b, i)   == Ranges(b)[i].to

\* The first k ranges start where the bundle does, follow one another without a
\* gap, and each later one lies after each earlier one.
InOrderUpTo(b, k) ==
  /\ From(b, 1) = b.from
  /\ \A i \in 1..k : From(b, i) <= To(b, i)
  /\ \A i \in 1..(k - 1) : To(b, i) + 1 = From(b, i + 1)
  /\ \A i, j \in 1..k : i < j => To(b, i) < From(b, j)

\* tree is the stretch of the leaves that comes after the first start of them.
IsStretch(tree, start, leaves) ==
  \A m \in 1..Len(tree) :
    start + m \in 1..Len(leaves) /\ tree[m] = leaves[start + m]

\* How many leaves come before range i.
Start(b, i) == From(b, i) - b.from

\* A closed tree is the stretch of the leaves its range starts at, as far as the
\* ranges before it are in order; the open tree is that of the next range, and
\* reaches to the last leaf.
SliceInv ==
  Clean =>
    /\ \A i \in 1..Len(trees) :
         InOrderUpTo(bundle, i) => IsStretch(trees[i], Start(bundle, i), cumulative)
    /\ LET k == Len(trees) + 1 IN
       /\ phase \in {"open", "events"}
       /\ k <= Len(Ranges(bundle)) /\ InOrderUpTo(bundle, k)
       => /\ IsStretch(open, Start(bundle, k), cumulative)
          /\ Start(bundle, k) + Len(open) = Len(read)
          /\ bundle.from + Len(read) - 1 <= To(bundle, k)

\* Nothing but the trusted set's seal could have passed the checks of cp.
Sealed(cp) ==
  /\ cp.hasRange /\ bundle.stream = Stream
  /\ \E s \in Seals : s.from = cp.from /\ s.to = cp.to /\ s.root = cp.root
  /\ cp.root = TreeFrom(cp.from)

\* The first n checkpoints follow one another from the sequence from on and leave
\* none out.
Consecutive(cps, from, n) ==
  /\ n > 0 => cps[1].from = from
  /\ \A i \in 1..n : cps[i].from <= cps[i].to
  /\ \A i \in 1..(n - 1) : cps[i].to + 1 = cps[i + 1].from
  /\ \A i, j \in 1..n : i < j => cps[i].to < cps[j].from
  /\ n > 0 => \A v \in from..cps[n].to :
                \E i \in 1..n : cps[i].from <= v /\ v <= cps[i].to

IdentityHolds == results["signing_identity"] = "pass"

\* The checkpoints passed so far are consecutive seals.
PassInv ==
  /\ phase \in {"open", "events"} =>
       checked = 0 /\ expectedFrom = Counter(bundle.from)
  /\ phase \in {"events", "checkpoints", "sealed"} => bundle.checkpoints # <<>>
  /\ phase \in {"checkpoints", "sealed"} /\ Clean /\ IdentityHolds =>
       /\ \A i \in 1..checked : Sealed(bundle.checkpoints[i])
       /\ Consecutive(bundle.checkpoints, bundle.from, checked)
       /\ expectedFrom = IF checked = 0 THEN Counter(bundle.from)
                         ELSE NextCounter(bundle.checkpoints[checked].to)
  /\ phase = "sealed" =>
       /\ checked = Len(bundle.checkpoints)
       /\ results["scope"] = "pass" => CounterEndsAt(expectedFrom, bundle.to)
-----------------------------------------------------------------------------
\* The ranges of checkpoints.json are 64-bit integers.
LEMMA RangeFacts ==
  ASSUME NEW b \in Bundles
  PROVE  /\ b.from \in Int /\ b.to \in Int /\ Len(Ranges(b)) \in Nat
         /\ \A i \in 1..Len(Ranges(b)) :
              From(b, i) \in Int /\ To(b, i) \in Int /\ Start(b, i) \in Int
  <1>1. \A i \in 1..Len(Ranges(b)) : Ranges(b)[i] \in Checkpoints
    BY BundleFacts
  <1>2. b.from \in Int /\ b.to \in Int /\ Len(Ranges(b)) \in Nat
    BY BundleFacts, IntegerFacts
  <1>3. QED
    BY <1>1, <1>2, WalkAssumption, IntegerFacts DEF From, To, Start

\* One more leaf leaves every stretch what it was.
LEMMA LongerStretch ==
  ASSUME NEW leaves \in Seq(Entries), NEW e \in Entries, NEW tree,
         Len(tree) \in Nat, NEW start \in Int, IsStretch(tree, start, leaves)
  PROVE  IsStretch(tree, start, Append(leaves, e))
  <1>1. /\ Len(Append(leaves, e)) = Len(leaves) + 1 /\ Len(leaves) \in Nat
        /\ \A i \in 1..Len(leaves) : Append(leaves, e)[i] = leaves[i]
    OBVIOUS
  <1>2. QED
    BY <1>1 DEF IsStretch

\* Nor does a stretch that reaches the end of the leaves when it grows with them.
LEMMA GrowingStretch ==
  ASSUME NEW leaves \in Seq(Entries), NEW e \in Entries, NEW tree \in Seq(Entries),
         NEW start \in Int, IsStretch(tree, start, leaves),
         start + Len(tree) = Len(leaves)
  PROVE  IsStretch(Append(tree, e), start, Append(leaves, e))
  <1>1. /\ Len(Append(leaves, e)) = Len(leaves) + 1 /\ Len(leaves) \in Nat
        /\ Append(leaves, e)[Len(leaves) + 1] = e
        /\ \A i \in 1..Len(leaves) : Append(leaves, e)[i] = leaves[i]
    OBVIOUS
  <1>2. /\ Len(Append(tree, e)) = Len(tree) + 1 /\ Len(tree) \in Nat
        /\ Append(tree, e)[Len(tree) + 1] = e
        /\ \A i \in 1..Len(tree) : Append(tree, e)[i] = tree[i]
    OBVIOUS
  <1>3. SUFFICES ASSUME NEW m \in 1..Len(Append(tree, e))
                 PROVE  /\ start + m \in 1..Len(Append(leaves, e))
                        /\ Append(tree, e)[m] = Append(leaves, e)[start + m]
    BY DEF IsStretch
  <1>4. CASE m \in 1..Len(tree)
    BY <1>1, <1>2, <1>4 DEF IsStretch
  <1>5. CASE m = Len(tree) + 1
    <2>1. start + m = Len(leaves) + 1
      BY <1>1, <1>2, <1>5
    <2>2. QED
      BY <1>1, <1>2, <1>5, <2>1
  <1>6. QED
    BY <1>2, <1>4, <1>5

\* Ranges that are consecutive so far were so before the last.
LEMMA ShorterPrefix ==
  ASSUME NEW b, NEW n \in Nat, NEW k \in 0..n, InOrderUpTo(b, n)
  PROVE  InOrderUpTo(b, k)
  <1>1. 1..k \subseteq 1..n /\ 1..(k - 1) \subseteq 1..(n - 1)
    OBVIOUS
  <1>2. QED
    BY <1>1 DEF InOrderUpTo

\* The trees that closing adds are stretches when the open one is.
LEMMA ClosingKeepsStretches ==
  ASSUME TypeOK, SliceInv, Clean, phase \in {"open", "events"},
         NEW n \in Len(trees)..Len(Ranges(bundle)), CloseUpTo(n)
  PROVE  /\ Len(trees') = n /\ trees' \in Seq(Seq(Entries))
         /\ \A i \in 1..n : InOrderUpTo(bundle, i) =>
              IsStretch(trees'[i], Start(bundle, i), cumulative)
  <1>1. /\ Len(trees) \in Nat /\ n \in Nat /\ Len(Ranges(bundle)) \in Nat
        /\ trees' \in Seq(Seq(Entries)) /\ Len(trees') = n
        /\ \A i \in 1..Len(trees) : trees'[i] = trees[i]
        /\ n > Len(trees) => trees'[Len(trees) + 1] = open
        /\ \A i \in (Len(trees) + 2)..n : trees'[i] = <<>>
    BY StateFacts, RangeFacts, CloseUpToType
  <1>2. ASSUME NEW i \in 1..n, InOrderUpTo(bundle, i)
        PROVE  IsStretch(trees'[i], Start(bundle, i), cumulative)
    <2>1. CASE i \in 1..Len(trees)
      BY <1>1, <1>2, <2>1 DEF SliceInv
    <2>2. CASE i = Len(trees) + 1
      <3>1. n > Len(trees) /\ i <= Len(Ranges(bundle))
        BY <1>1, <2>2
      <3>2. IsStretch(open, Start(bundle, i), cumulative)
        BY <1>2, <2>2, <3>1 DEF SliceInv
      <3>3. QED
        BY <1>1, <2>2, <3>1, <3>2
    <2>3. CASE i \in (Len(trees) + 2)..n
      <3>1. trees'[i] = <<>>
        BY <1>1, <2>3
      <3>2. QED
        BY <3>1 DEF IsStretch
    <2>4. QED
      BY <1>1, <2>1, <2>2, <2>3
  <1>3. QED
    BY <1>1, <1>2

\* Where the next range starts, once a clean event has closed those before it.
LEMMA NextRangeStarts ==
  ASSUME TypeOK, SliceInv, Clean, phase = "events", NEW v \in Int,
         v = bundle.from + Len(read), NEW n \in Len(trees)..Len(Ranges(bundle)),
         ClosedBefore(v, n), n > Len(trees), n < Len(Ranges(bundle)),
         InOrderUpTo(bundle, n + 1)
  PROVE  From(bundle, n + 1) = v
  <1>1. PICK k \in Int : k = Len(trees) + 1
    BY StateFacts
  <1>2. /\ Len(trees) \in Nat /\ n \in Nat /\ k \in 1..n /\ Len(read) \in Nat
        /\ bundle.from \in Int /\ n \in 1..(n + 1) /\ k \in 1..(n + 1)
        /\ \A i \in 1..(n + 1) : From(bundle, i) \in Int /\ To(bundle, i) \in Int
    <2>1. bundle \in Bundles /\ Len(trees) \in Nat /\ Len(read) \in Nat
      BY StateFacts
    <2>2. bundle.from \in Int /\ Len(Ranges(bundle)) \in Nat
      BY <2>1, RangeFacts
    <2>3. n \in Nat /\ k \in 1..n /\ n \in 1..(n + 1) /\ k \in 1..(n + 1)
      BY <1>1, <2>1, <2>2
    <2>4. \A i \in 1..(n + 1) : i \in 1..Len(Ranges(bundle))
      BY <2>2, <2>3
    <2>5. \A i \in 1..(n + 1) : From(bundle, i) \in Int /\ To(bundle, i) \in Int
      BY <2>1, <2>4, RangeFacts
    <2>6. QED
      BY <2>1, <2>2, <2>3, <2>5
  <1>3. InOrderUpTo(bundle, k) /\ k <= Len(Ranges(bundle))
    <2>1. n + 1 \in Nat /\ k \in 0..(n + 1) /\ Len(Ranges(bundle)) \in Nat
      <3>1. bundle \in Bundles
        BY StateFacts
      <3>2. QED
        BY <1>2, <3>1, RangeFacts
    <2>2. InOrderUpTo(bundle, k)
      BY <2>1, ShorterPrefix
    <2>3. k <= n /\ n < Len(Ranges(bundle)) /\ k \in Int /\ n \in Int
      BY <1>2
    <2>4. QED
      BY <2>1, <2>2, <2>3
  <1>4. bundle.from + Len(read) - 1 <= To(bundle, k)
    BY <1>1, <1>3 DEF SliceInv
  <1>5. To(bundle, k) <= To(bundle, n)
    <2>1. k < n => To(bundle, k) < From(bundle, n)
      BY <1>2 DEF InOrderUpTo
    <2>2. From(bundle, n) <= To(bundle, n)
      BY <1>2 DEF InOrderUpTo
    <2>3. QED
      BY <1>2, <2>1, <2>2
  <1>6. To(bundle, n) < v
    <2>1. n \in (Len(trees) + 1)..n
      BY <1>2
    <2>2. v > Ranges(bundle)[n].to
      BY <2>1 DEF ClosedBefore
    <2>3. To(bundle, n) \in Int
      BY <1>2
    <2>4. QED
      BY <2>2, <2>3 DEF To
  <1>7. To(bundle, n) + 1 = From(bundle, n + 1)
    <2>1. n \in 1..((n + 1) - 1)
      BY <1>2
    <2>2. QED
      BY <2>1 DEF InOrderUpTo
  <1>8. /\ To(bundle, k) \in Int /\ To(bundle, n) \in Int /\ From(bundle, n + 1) \in Int
        /\ bundle.from \in Int /\ Len(read) \in Nat
    <2>1. k \in 1..(n + 1) /\ n \in 1..(n + 1) /\ n + 1 \in 1..(n + 1)
      BY <1>2
    <2>2. /\ \A i \in 1..(n + 1) : From(bundle, i) \in Int /\ To(bundle, i) \in Int
          /\ bundle.from \in Int /\ Len(read) \in Nat
      BY <1>2
    <2>3. QED
      BY <2>1, <2>2, Zenon
  <1>9. v - 1 <= To(bundle, n)
    BY <1>4, <1>5, <1>8, SMTT(20)
  <1>10. QED
    BY <1>6, <1>7, <1>8, <1>9, SMTT(20)

\* Reading an event keeps each closed tree the stretch of its range, and the open
\* one what came after it (walk.go, closeCheckpoint and the append after it).
LEMMA ReadEventSliceInv ==
  ASSUME TypeOK, WalkInv, SliceInv, NEW l \in bundle.lines, ReadEvent(l)
  PROVE  SliceInv'
  <1> SUFFICES ASSUME Clean'
               PROVE  SliceInv'
    BY DEF SliceInv
  <1>1. Clean /\ ~EventProblem(l)
    BY CleanEvent
  <1>2. CounterIs(expected, l.seq) /\ Leaf(l) = <<l.entry>> /\ l.entry \in Entries
    BY <1>1, CleanLeaf
  <1>3. /\ read \in Seq(Lines) /\ Len(read) \in Nat
        /\ cumulative \in Seq(Entries) /\ Len(cumulative) \in Nat
        /\ open \in Seq(Entries) /\ Len(open) \in Nat
        /\ Len(trees) \in Nat /\ Len(Ranges(bundle)) \in Nat /\ bundle.from \in Int
        /\ bundle \in Bundles
    BY StateFacts, RangeFacts
  <1>4. l \in Lines /\ l.seq \in MinInt..MaxInt /\ l.seq \in Int
    BY <1>3, BundleFacts, WalkAssumption, IntegerFacts DEF LineShape
  <1>5. /\ phase = "events" /\ phase' = "events" /\ bundle' = bundle
        /\ read' = Append(read, l) /\ cumulative' = cumulative \o Leaf(l)
    BY DEF ReadEvent, Reading
  <1>6. cumulative' = Append(cumulative, l.entry)
    BY <1>2, <1>3, <1>5
  <1>7. PICK n \in Len(trees)..Len(Ranges(bundle)) :
          /\ ClosedBefore(l.seq, n) /\ CloseUpTo(n)
          /\ open' = (IF n > Len(trees) THEN <<>> ELSE open) \o Leaf(l)
    BY DEF ReadEvent
  <1>8. l.seq = bundle.from + Len(read)
    BY <1>1, <1>2, <1>4, CleanSequence
  <1>9. Len(cumulative) = Len(read) /\ Len(read') = Len(read) + 1
    BY <1>1, <1>3, <1>4, <1>5 DEF WalkInv
  <1>10. /\ n \in Nat /\ Len(trees') = n /\ trees' \in Seq(Seq(Entries))
         /\ \A i \in 1..n : InOrderUpTo(bundle, i) =>
              IsStretch(trees'[i], Start(bundle, i), cumulative)
    <2>1. n \in Nat /\ phase \in {"open", "events"} /\ CloseUpTo(n)
      BY <1>3, <1>5, <1>7
    <2>2. QED
      BY <1>1, <2>1, ClosingKeepsStretches
  <1>11. \A i \in 1..n : InOrderUpTo(bundle, i) =>
           IsStretch(trees'[i], Start(bundle, i), cumulative')
    <2>1. TAKE i \in 1..n
    <2>2. HAVE InOrderUpTo(bundle, i)
    <2>3. IsStretch(trees'[i], Start(bundle, i), cumulative)
      BY <1>10, <2>2
    <2>4. Start(bundle, i) \in Int
      BY <1>3, <1>7, RangeFacts
    <2>5. Len(trees'[i]) \in Nat
      BY <1>10
    <2>6. QED
      BY <1>2, <1>3, <1>6, <2>3, <2>4, <2>5, LongerStretch
  <1>12. ASSUME n + 1 <= Len(Ranges(bundle)), InOrderUpTo(bundle, n + 1)
         PROVE  /\ IsStretch(open', Start(bundle, n + 1), cumulative')
                /\ Start(bundle, n + 1) + Len(open') = Len(read')
                /\ bundle.from + Len(read') - 1 <= To(bundle, n + 1)
    <2>1. /\ Start(bundle, n + 1) \in Int /\ To(bundle, n + 1) \in Int
          /\ From(bundle, n + 1) \in Int /\ n < Len(Ranges(bundle))
      BY <1>3, <1>10, <1>12, RangeFacts
    <2>2. l.seq <= To(bundle, n + 1)
      BY <1>7, <2>1 DEF ClosedBefore, To
    <2>3. bundle.from + Len(read') - 1 <= To(bundle, n + 1)
      BY <1>3, <1>8, <1>9, <2>1, <2>2
    <2>4. CASE n > Len(trees)
      <3>1. From(bundle, n + 1) = bundle.from + Len(read)
        BY <1>1, <1>4, <1>5, <1>7, <1>8, <1>12, <2>1, <2>4, NextRangeStarts
      <3>2. Start(bundle, n + 1) = Len(read)
        BY <1>3, <3>1 DEF Start
      <3>3. open' = Append(<<>>, l.entry) /\ <<>> \in Seq(Entries) /\ Len(<<>>) = 0
        BY <1>2, <1>7, <2>4
      <3>4. IsStretch(<<>>, Start(bundle, n + 1), cumulative)
        BY <3>3 DEF IsStretch
      <3>5. IsStretch(open', Start(bundle, n + 1), cumulative')
        <4>1. Start(bundle, n + 1) + Len(<<>>) = Len(cumulative)
          BY <1>3, <1>9, <3>2, <3>3
        <4>2. IsStretch(Append(<<>>, l.entry), Start(bundle, n + 1),
                        Append(cumulative, l.entry))
          BY <1>2, <1>3, <2>1, <3>3, <3>4, <4>1, GrowingStretch
        <4>3. QED
          BY <1>6, <3>3, <4>2
      <3>6. Start(bundle, n + 1) + Len(open') = Len(read')
        BY <1>3, <1>9, <3>2, <3>3
      <3>7. QED
        BY <2>3, <3>5, <3>6
    <2>5. CASE n = Len(trees)
      <3>1. /\ IsStretch(open, Start(bundle, n + 1), cumulative)
            /\ Start(bundle, n + 1) + Len(open) = Len(read)
        BY <1>1, <1>5, <1>12, <2>5 DEF SliceInv
      <3>2. open' = Append(open, l.entry)
        <4>1. open' = open \o <<l.entry>>
          <5>1. ~(n > Len(trees))
            BY <1>3, <2>5
          <5>2. open' = open \o Leaf(l)
            BY <1>7, <5>1
          <5>3. QED
            BY <1>2, <5>2
        <4>2. QED
          BY <1>2, <1>3, <4>1
      <3>3. IsStretch(open', Start(bundle, n + 1), cumulative')
        BY <1>2, <1>3, <1>6, <1>9, <2>1, <3>1, <3>2, GrowingStretch
      <3>4. Len(open') = Len(open) + 1
        BY <1>2, <1>3, <3>2
      <3>5. Start(bundle, n + 1) + Len(open') = Len(read')
        BY <1>3, <1>9, <2>1, <3>1, <3>4
      <3>6. QED
        BY <2>3, <3>3, <3>5
    <2>6. QED
      BY <1>3, <1>7, <1>10, <2>4, <2>5
  <1>13. QED
    BY <1>5, <1>10, <1>11, <1>12 DEF SliceInv

\* Before the first line no tree is closed.
LEMMA InitSliceInv == Init => SliceInv
  <1> SUFFICES ASSUME Init PROVE SliceInv
    OBVIOUS
  <1>1. /\ bundle \in Bundles /\ trees = <<>> /\ Len(trees) = 0 /\ open = <<>>
        /\ Len(open) = 0 /\ Len(read) = 0
    BY DEF Init
  <1>2. ASSUME 1 <= Len(Ranges(bundle)), InOrderUpTo(bundle, 1)
        PROVE  /\ IsStretch(open, Start(bundle, 1), cumulative)
               /\ Start(bundle, 1) + Len(open) = Len(read)
               /\ bundle.from + Len(read) - 1 <= To(bundle, 1)
    <2>1. /\ bundle.from \in Int /\ From(bundle, 1) \in Int /\ To(bundle, 1) \in Int
      BY <1>1, <1>2, RangeFacts
    <2>2. From(bundle, 1) = bundle.from /\ From(bundle, 1) <= To(bundle, 1)
      BY <1>2 DEF InOrderUpTo
    <2>3. IsStretch(open, Start(bundle, 1), cumulative)
      BY <1>1 DEF IsStretch
    <2>4. QED
      BY <1>1, <2>1, <2>2, <2>3 DEF Start
  <1>3. QED
    BY <1>1, <1>2 DEF SliceInv

\* A step that reads no line and closes no tree.
LEMMA OtherStepSliceInv ==
  ASSUME SliceInv, Clean' => Clean, UNCHANGED <<bundle, cumulative, open, trees, read>>,
         phase' \in {"open", "events"} => phase \in {"open", "events"}
  PROVE  SliceInv'
  BY DEF SliceInv

\* Every step of the walk keeps the closed trees stretches of the leaves.
LEMMA NextSliceInv == TypeOK /\ WalkInv /\ SliceInv /\ [Next]_vars => SliceInv'
  <1> SUFFICES ASSUME TypeOK, WalkInv, SliceInv, [Next]_vars PROVE SliceInv'
    OBVIOUS
  <1>1. results \in Verdicts
    BY DEF TypeOK
  <1>2. CASE Open
    <2>1. Clean' => Clean
      BY <1>1, <1>2, FailIfPasses, ResultNames DEF Open, Clean
    <2>2. phase = "open"
      BY <1>2 DEF Open
    <2>3. QED
      BY <1>2, <2>1, <2>2, OtherStepSliceInv DEF Open, events
  <1>3. ASSUME NEW l \in bundle.lines, ReadGarbage(l) \/ ReadUnnumbered(l)
        PROVE  SliceInv'
    BY <1>3, ReportedStep DEF ReadGarbage, ReadUnnumbered, SliceInv
  <1>4. ASSUME NEW l \in bundle.lines, ReadEvent(l)
        PROVE  SliceInv'
    BY <1>4, ReadEventSliceInv
  <1>5. CASE ReadFails
    BY <1>5, OtherStepSliceInv DEF ReadFails, Hard, events, Clean
  <1>6. CASE EndEvents
    <2>1. Clean' => Clean
      BY <1>1, <1>6, FailIfPasses, ResultNames DEF EndEvents, Clean
    <2>2. /\ Len(Ranges(bundle)) \in Len(trees)..Len(Ranges(bundle))
          /\ phase = "events" /\ CloseUpTo(Len(Ranges(bundle)))
          /\ bundle' = bundle /\ cumulative' = cumulative
          /\ phase' \in {"hard", "checkpoints"}
      BY <1>6, StateFacts, RangeFacts DEF EndEvents, Hard
    <2>3. Clean => /\ Len(trees') = Len(Ranges(bundle))
                   /\ \A i \in 1..Len(Ranges(bundle)) : InOrderUpTo(bundle, i) =>
                        IsStretch(trees'[i], Start(bundle, i), cumulative)
      BY <2>2, ClosingKeepsStretches
    <2>4. QED
      BY <2>1, <2>2, <2>3 DEF SliceInv
  <1>7. CASE CheckCheckpoint
    <2>1. Clean' => Clean
      BY <1>7, CheckKeepsContent
    <2>2. QED
      BY <1>7, <2>1, OtherStepSliceInv DEF CheckCheckpoint, Checking, events
  <1>8. CASE SkipCheckpoint
    BY <1>8, ReportedStep DEF SkipCheckpoint, SliceInv
  <1>9. CASE EndCheckpoints
    <2>1. Clean' => Clean
      BY <1>1, <1>9, FailIfOther, ResultNames DEF EndCheckpoints, Clean
    <2>2. QED
      BY <1>9, <2>1, OtherStepSliceInv DEF EndCheckpoints, events
  <1>10. CASE UNCHANGED vars
    BY <1>10, OtherStepSliceInv DEF vars, events, Clean
  <1>11. QED
    BY <1>2, <1>3, <1>4, <1>5, <1>6, <1>7, <1>8, <1>9, <1>10 DEF Next

\* A checkpoint that starts at the expected sequence extends those before it.
LEMMA OneMoreConsecutive ==
  ASSUME NEW cps, NEW from \in Int, NEW n \in Nat, Consecutive(cps, from, n),
         \A i \in 1..(n + 1) : cps[i].from \in Int /\ cps[i].to \in Int,
         cps[n + 1].from <= cps[n + 1].to,
         n = 0 => cps[1].from = from,
         n > 0 => cps[n + 1].from = cps[n].to + 1
  PROVE  Consecutive(cps, from, n + 1)
  <1>1. cps[1].from = from
    BY DEF Consecutive
  <1>2. \A i \in 1..(n + 1) : cps[i].from <= cps[i].to
    BY DEF Consecutive
  <1>3. \A i \in 1..n : cps[i].to + 1 = cps[i + 1].from
    BY DEF Consecutive
  <1>4. ASSUME NEW i \in 1..n
        PROVE  cps[i].to < cps[n + 1].from
    <2>1. n > 0 /\ n \in 1..n
      BY <1>4
    <2>2. i < n => cps[i].to < cps[n].from
      BY <1>4, <2>1 DEF Consecutive
    <2>3. cps[n].from <= cps[n].to /\ cps[n + 1].from = cps[n].to + 1
      BY <1>2, <2>1
    <2>4. /\ cps[i].to \in Int /\ cps[n].from \in Int /\ cps[n].to \in Int
          /\ cps[n + 1].from \in Int
      BY <1>4, <2>1
    <2>5. i = n \/ i < n
      BY <1>4
    <2>6. QED
      BY <2>2, <2>3, <2>4, <2>5
  <1>5. \A i, j \in 1..(n + 1) : i < j => cps[i].to < cps[j].from
    <2>1. TAKE i, j \in 1..(n + 1)
    <2>2. HAVE i < j
    <2>3. CASE j = n + 1
      <3>1. i \in 1..n
        BY <2>2, <2>3
      <3>2. QED
        BY <1>4, <2>3, <3>1
    <2>4. CASE j \in 1..n
      <3>1. i \in 1..n
        BY <2>2, <2>4
      <3>2. QED
        BY <2>2, <2>4, <3>1 DEF Consecutive
    <2>5. QED
      BY <2>3, <2>4
  <1>6. ASSUME NEW v \in from..cps[n + 1].to
        PROVE  \E i \in 1..(n + 1) : cps[i].from <= v /\ v <= cps[i].to
    <2>1. cps[n + 1].from \in Int /\ cps[n + 1].to \in Int /\ v \in Int
      OBVIOUS
    <2>2. CASE cps[n + 1].from <= v
      BY <1>6, <2>1, <2>2
    <2>3. CASE ~(cps[n + 1].from <= v)
      <3>1. n > 0
        BY <1>1, <1>6, <2>1, <2>3
      <3>2. n \in 1..(n + 1) /\ cps[n].to \in Int
        BY <3>1
      <3>3. v \in from..cps[n].to
        BY <1>6, <2>1, <2>3, <3>1, <3>2
      <3>4. PICK i \in 1..n : cps[i].from <= v /\ v <= cps[i].to
        BY <3>1, <3>3 DEF Consecutive
      <3>5. QED
        BY <3>4
    <2>4. QED
      BY <2>2, <2>3
  <1>7. QED
    BY <1>1, <1>2, <1>3, <1>5, <1>6 DEF Consecutive

\* A checkpoint the window check passes was sealed inside the window.
LEMMA NoProblemIsInside ==
  ASSUME NEW window, window.created \in Times, window.retired \in Times,
         NEW t \in Times, ~WindowProblem(window, t)
  PROVE  InWindow(window, t)
  <1>1. IsTime(t)
    BY DEF WindowProblem, IsTime, Bound, Times
  <1>2. window.created = None \/ (IsTime(window.created) /\ window.created <= t)
    BY <1>1 DEF WindowProblem, IsTime, Bound, Times
  <1>3. window.retired = None \/ (IsTime(window.retired) /\ t <= window.retired)
    BY <1>1 DEF WindowProblem, IsTime, Bound, Times
  <1>4. QED
    BY <1>1, <1>2, <1>3 DEF InWindow

\* What it takes for a checkpoint to leave both results standing: the signature
\* of a trusted key, which only a seal can carry.
LEMMA PassedIsSealed ==
  ASSUME TypeOK, CheckCheckpoint, (Clean /\ IdentityHolds)',
         NEW cp, cp = bundle.checkpoints[checked + 1]
  PROVE  /\ Clean /\ IdentityHolds /\ Sealed(cp) /\ cp.from <= cp.to
         /\ CounterIs(expectedFrom, cp.from)
  <1> DEFINE after == FailIf(CheckpointProblem(cp), results, "content_integrity")
  <1>1. Clean /\ ~CheckpointProblem(cp)
    BY CheckKeepsContent
  <1>2. /\ results' = CheckIdentity(cp, after) /\ cp.hasRange
        /\ checked < Len(bundle.checkpoints)
    BY DEF CheckCheckpoint, Checking
  <1>3. results \in Verdicts /\ after \in Verdicts /\ bundle \in Bundles
        /\ checked + 1 \in 1..Len(bundle.checkpoints)
    BY <1>2, FailIfType, ResultNames, BundleFacts DEF TypeOK
  <1>4. cp.key \in DOMAIN TrustedKeys
    <2>1. SUFFICES ASSUME cp.key \notin DOMAIN TrustedKeys
                   PROVE  FALSE
      OBVIOUS
    <2>2. results' = Demote(after, "signing_identity", "unconfirmed")
      BY <1>2, <2>1 DEF CheckIdentity, Unconfirmed
    <2>3. Demote(after, "signing_identity", "unconfirmed")["signing_identity"] # "pass"
      BY <1>3, DemotedIsNoPass, ResultNames
    <2>4. QED
      BY <2>2, <2>3 DEF IdentityHolds
  <1>5. IdentityHolds
    <2>1. after["signing_identity"] = "pass"
      <3>1. results' = FailIf(WindowProblem(TrustedKeys[cp.key], cp.created_at), after,
                              "signing_identity")
        BY <1>2, <1>4 DEF CheckIdentity
      <3>2. QED
        BY <1>3, <3>1, FailIfPasses, ResultNames DEF IdentityHolds
    <2>2. QED
      BY <1>3, <2>1, FailIfOther, ResultNames DEF IdentityHolds
  <1>6. /\ CounterIs(expectedFrom, cp.from) /\ SignatureValid(cp)
        /\ cp.hash = CheckpointHash(bundle.stream, cp)
        /\ cp.root = TreeFrom(cp.from)
    BY <1>1 DEF CheckpointProblem, TreeProblem
  <1>7. PICK s \in Seals : s.hash = cp.hash
    <2>1. ~WindowProblem(TrustedKeys[cp.key], cp.created_at)
      <3>1. results' = FailIf(WindowProblem(TrustedKeys[cp.key], cp.created_at), after,
                              "signing_identity")
        BY <1>2, <1>4 DEF CheckIdentity
      <3>2. QED
        BY <1>3, <3>1, FailIfPasses, ResultNames DEF IdentityHolds
    <2>2. cp \in Checkpoints
      BY <1>3, BundleFacts
    <2>3. InWindow(TrustedKeys[cp.key], cp.created_at)
      BY <1>4, <2>1, <2>2, NoProblemIsInside, SealedLogAssumption
    <2>4. QED
      BY <1>3, <1>4, <1>6, <2>3, SealedLogAssumption DEF NoForgery
  <1>8. IsSeal(s)
    BY SealedLogAssumption
  <1>9. CheckpointHash(bundle.stream, cp) = CheckpointHash(Stream, s)
    BY <1>6, <1>7, <1>8 DEF IsSeal
  <1>10. /\ bundle.stream = Stream /\ s.from = cp.from /\ s.to = cp.to
         /\ s.root = cp.root
    BY <1>9 DEF CheckpointHash
  <1>11. cp.from <= cp.to
    BY <1>8, <1>10 DEF IsSeal
  <1>12. QED
    BY <1>1, <1>2, <1>5, <1>6, <1>7, <1>10, <1>11 DEF Sealed

\* A checkpoint of the bundle is one of the constants, with 64-bit ends.
LEMMA CheckpointFacts ==
  ASSUME NEW b \in Bundles
  PROVE  /\ Len(b.checkpoints) \in Nat /\ b.from \in Int
         /\ \A i \in 1..Len(b.checkpoints) :
              b.checkpoints[i].from \in Int /\ b.checkpoints[i].to \in Int
  <1>1. \A i \in 1..Len(b.checkpoints) : b.checkpoints[i] \in Checkpoints
    BY BundleFacts
  <1>2. QED
    BY <1>1, BundleFacts, WalkAssumption, IntegerFacts

\* Checking one checkpoint (walk.go, the checkpoint pass) adds a sealed one or
\* demotes a result.
LEMMA CheckCheckpointPassInv ==
  ASSUME TypeOK, PassInv, CheckCheckpoint
  PROVE  PassInv'
  <1>1. PICK cp : cp = bundle.checkpoints[checked + 1]
    OBVIOUS
  <1>2. /\ phase = "checkpoints" /\ phase' = phase /\ UNCHANGED <<bundle, trees>>
        /\ checked' = checked + 1 /\ expectedFrom' = NextCounter(cp.to)
        /\ checked < Len(bundle.checkpoints)
    BY <1>1 DEF CheckCheckpoint, Checking, events
  <1>3. /\ bundle \in Bundles /\ checked \in Nat /\ Len(bundle.checkpoints) \in Nat
        /\ bundle.from \in Int
        /\ \A i \in 1..(checked + 1) : /\ bundle.checkpoints[i].from \in Int
                                       /\ bundle.checkpoints[i].to \in Int
    BY <1>2, CheckpointFacts DEF TypeOK
  <1>4. \A c : Sealed(c)' <=> Sealed(c)
    BY <1>2 DEF Sealed, TreeFrom
  <1>5. ASSUME (Clean /\ IdentityHolds)'
        PROVE  /\ \A i \in 1..(checked + 1) : Sealed(bundle.checkpoints[i])
               /\ Consecutive(bundle.checkpoints, bundle.from, checked + 1)
    <2>1. /\ Clean /\ IdentityHolds /\ Sealed(cp) /\ cp.from <= cp.to
          /\ CounterIs(expectedFrom, cp.from)
      BY <1>1, <1>5, PassedIsSealed
    <2>2. /\ \A i \in 1..checked : Sealed(bundle.checkpoints[i])
          /\ Consecutive(bundle.checkpoints, bundle.from, checked)
          /\ expectedFrom = IF checked = 0 THEN Counter(bundle.from)
                            ELSE NextCounter(bundle.checkpoints[checked].to)
      BY <1>2, <2>1 DEF PassInv
    <2>3. checked = 0 => bundle.checkpoints[1].from = bundle.from
      BY <1>1, <1>3, <2>1, <2>2 DEF CounterIs, Counter
    <2>4. checked > 0 => cp.from = bundle.checkpoints[checked].to + 1
      BY <1>1, <1>3, <2>1, <2>2 DEF CounterIs, Counter, NextCounter
    <2>5. Consecutive(bundle.checkpoints, bundle.from, checked + 1)
      BY <1>1, <1>3, <2>1, <2>2, <2>3, <2>4, OneMoreConsecutive
    <2>6. \A i \in 1..(checked + 1) : Sealed(bundle.checkpoints[i])
      <3>1. \A i \in 1..(checked + 1) : i \in 1..checked \/ i = checked + 1
        BY <1>3
      <3>2. QED
        BY <1>1, <2>1, <2>2, <3>1
    <2>7. QED
      BY <2>5, <2>6
  <1>6. bundle.checkpoints # <<>>
    BY <1>2 DEF PassInv
  <1>7. checked + 1 # 0
    BY <1>3
  <1>8. QED
    BY <1>1, <1>2, <1>4, <1>5, <1>6, <1>7 DEF PassInv

\* Before the pass no checkpoint has been checked.
LEMMA InitPassInv == Init => PassInv
  BY DEF Init, PassInv

\* A step that checks no checkpoint.
LEMMA OtherStepPassInv ==
  ASSUME PassInv, UNCHANGED <<bundle, checked, expectedFrom, trees>>,
         phase' = phase, UNCHANGED results
  PROVE  PassInv'
  <1>1. \A c : Sealed(c)' <=> Sealed(c)
    BY DEF Sealed, TreeFrom
  <1>2. (Clean /\ IdentityHolds)' <=> (Clean /\ IdentityHolds)
    BY DEF Clean, IdentityHolds
  <1>3. QED
    BY <1>1, <1>2 DEF PassInv

\* Every step keeps the checkpoints checked so far sealed and consecutive.
LEMMA NextPassInv == TypeOK /\ PassInv /\ [Next]_vars => PassInv'
  <1> SUFFICES ASSUME TypeOK, PassInv, [Next]_vars PROVE PassInv'
    OBVIOUS
  <1>1. results \in Verdicts /\ bundle \in Bundles /\ checked \in Nat
        /\ checked <= Len(bundle.checkpoints)
    BY BundleFacts DEF TypeOK
  <1>2. CASE Open
    <2>1. phase = "open" /\ UNCHANGED <<bundle, checked, expectedFrom>>
      BY <1>2 DEF Open, passVars
    <2>2. \/ phase' = "hard"
          \/ phase' = "events" /\ bundle.checkpoints # <<>>
      BY <1>2 DEF Open, Hard, Refusal, ManifestRefusal, NoRefusal, ExitError, ExitFail
    <2>3. QED
      BY <2>1, <2>2 DEF PassInv
  <1>3. ASSUME NEW l \in bundle.lines,
               ReadGarbage(l) \/ ReadUnnumbered(l) \/ ReadEvent(l)
        PROVE  PassInv'
    <2>1. /\ phase = "events" /\ phase' = "events"
          /\ UNCHANGED <<bundle, checked, expectedFrom>>
      BY <1>3 DEF ReadGarbage, ReadUnnumbered, ReadEvent, Reading, passVars
    <2>2. QED
      BY <2>1 DEF PassInv
  <1>4. CASE ReadFails
    BY <1>4 DEF ReadFails, Hard, PassInv
  <1>5. CASE EndEvents
    <2>1. /\ phase = "events" /\ phase' \in {"hard", "checkpoints"}
          /\ UNCHANGED <<bundle, checked, expectedFrom>>
      BY <1>5 DEF EndEvents, Hard, passVars
    <2>2. checked = 0 /\ expectedFrom = Counter(bundle.from)
          /\ bundle.checkpoints # <<>>
      BY <2>1 DEF PassInv
    <2>3. Consecutive(bundle.checkpoints, bundle.from, 0)
      BY DEF Consecutive
    <2>4. QED
      BY <2>1, <2>2, <2>3 DEF PassInv
  <1>6. CASE CheckCheckpoint
    BY <1>6, CheckCheckpointPassInv
  <1>7. CASE SkipCheckpoint
    <2>1. ~Clean'
      BY <1>7, ReportedStep DEF SkipCheckpoint
    <2>2. phase = "checkpoints" /\ phase' = phase /\ bundle' = bundle
      BY <1>7 DEF SkipCheckpoint, Checking
    <2>3. QED
      BY <2>1, <2>2 DEF PassInv
  <1>8. CASE EndCheckpoints
    <2>1. /\ phase = "checkpoints" /\ phase' = "sealed"
          /\ checked = Len(bundle.checkpoints)
          /\ UNCHANGED <<bundle, trees, checked, expectedFrom>>
          /\ results' = FailIf(~CounterEndsAt(expectedFrom, bundle.to), results, "scope")
      BY <1>8 DEF EndCheckpoints, events, passVars
    <2>2. /\ results'["content_integrity"] = results["content_integrity"]
          /\ results'["signing_identity"] = results["signing_identity"]
      BY <1>1, <2>1, FailIfOther, ResultNames
    <2>3. results'["scope"] = "pass" => CounterEndsAt(expectedFrom, bundle.to)
      BY <1>1, <2>1, FailIfPasses, ResultNames
    <2>4. \A c : Sealed(c)' <=> Sealed(c)
      BY <2>1 DEF Sealed, TreeFrom
    <2>5. QED
      BY <2>1, <2>2, <2>3, <2>4 DEF PassInv, Clean, IdentityHolds
  <1>9. CASE UNCHANGED vars
    BY <1>9, OtherStepPassInv DEF vars, events, passVars
  <1>10. QED
    BY <1>2, <1>3, <1>4, <1>5, <1>6, <1>7, <1>8, <1>9 DEF Next

\* The inductive invariant behind the promise: the walk is one chain, each closed
\* tree is the stretch of it its range names, and every checkpoint passed so far is
\* a seal that starts where the one before it ended (walk.go).
THEOREM SealedInvariant == Spec => [](TypeOK /\ WalkInv /\ SliceInv /\ PassInv)
  <1>1. QED
    BY InitType, NextType, InitWalkInv, NextWalkInv, InitSliceInv, NextSliceInv,
       InitPassInv, NextPassInv, PTL DEF Spec
-----------------------------------------------------------------------------
\* Of consecutive ranges no two start at the same sequence.
LEMMA UniqueTree ==
  ASSUME NEW n \in Nat, Len(trees) = n, InOrderUpTo(bundle, n),
         \A k \in 1..n : From(bundle, k) \in Int /\ To(bundle, k) \in Int,
         NEW i \in 1..n
  PROVE  TreeFrom(From(bundle, i)) = trees[i]
  <1> DEFINE rs == Ranges(bundle)
             same == {k \in 1..Len(trees) : rs[k].from = From(bundle, i)}
  <1>1. ASSUME NEW k \in 1..n, rs[k].from = rs[i].from
        PROVE  k = i
    <2>1. /\ rs[k].from \in Int /\ rs[k].to \in Int
          /\ rs[i].from \in Int /\ rs[i].to \in Int
      BY Zenon DEF From, To
    <2>2. rs[k].from <= rs[k].to /\ rs[i].from <= rs[i].to
      BY Zenon DEF InOrderUpTo, From, To
    <2>3. (k < i => rs[k].to < rs[i].from) /\ (i < k => rs[i].to < rs[k].from)
      BY Zenon DEF InOrderUpTo, From, To
    <2>4. QED
      BY <1>1, <2>1, <2>2, <2>3, SMTT(20)
  <1>2. same = {i}
    BY <1>1 DEF From
  <1>3. TreeFrom(From(bundle, i))
          = trees[CHOOSE k \in same : \A j \in same : j <= k]
    BY <1>2 DEF TreeFrom
  <1>4. (CHOOSE k \in same : \A j \in same : j <= k) = i
    BY <1>2
  <1>5. QED
    BY <1>3, <1>4

\* In a verified bundle the checkpoints begin and end where the manifest says, and
\* the lines read are as many as the range.
LEMMA VerifiedEnds ==
  ASSUME TypeOK, WalkInv, PassInv, Verified
  PROVE  LET cps == bundle.checkpoints
             n == Len(cps) IN
         /\ n \in 1..n /\ Ranges(bundle) = cps
         /\ \A i \in 1..n : Sealed(cps[i])
         /\ Consecutive(cps, bundle.from, n) /\ cps[n].to = bundle.to
         /\ Len(trees) = n /\ Len(read) = bundle.to - bundle.from + 1
  <1> DEFINE cps == bundle.checkpoints
             n == Len(cps)
  <1>1. phase = "sealed" /\ Clean /\ IdentityHolds /\ results["scope"] = "pass"
    BY DEF Verified, Clean, IdentityHolds
  <1>2. /\ bundle \in Bundles /\ n \in Nat /\ cps \in Seq(Checkpoints)
        /\ bundle.from \in Int /\ bundle.to \in MinInt..MaxInt /\ bundle.to \in Int
        /\ \A i \in 1..n : cps[i].from \in Int /\ cps[i].to \in MinInt..MaxInt
        /\ MaxInt \in Nat
    BY BundleFacts, CheckpointFacts, IntegerFacts, WalkAssumption DEF TypeOK
  <1>3. /\ checked = n /\ cps # <<>> /\ CounterEndsAt(expectedFrom, bundle.to)
        /\ \A i \in 1..checked : Sealed(cps[i])
        /\ Consecutive(cps, bundle.from, checked)
        /\ expectedFrom = IF checked = 0 THEN Counter(bundle.from)
                          ELSE NextCounter(cps[checked].to)
    BY <1>1 DEF PassInv
  <1>4. n \in 1..n
    BY <1>2, <1>3
  <1>5. CounterEndsAt(NextCounter(cps[n].to), bundle.to)
    BY <1>3, <1>4
  <1>6. cps[n].to = bundle.to
    <2>1. cps[n].to \in MinInt..MaxInt
      BY <1>2, <1>4
    <2>2. QED
      BY <1>2, <1>5, <2>1, EndsAtLast
  <1>7. AllRanged(bundle)
    BY <1>3 DEF AllRanged, Sealed
  <1>8. Ranges(bundle) = cps
    BY <1>2, <1>7, BundleFacts
  <1>9. /\ read # <<>> /\ CounterEndsAt(expected, bundle.to)
        /\ Len(trees) = Len(Ranges(bundle))
        /\ \A i \in 1..Len(read) : InChain(i)
        /\ expected = IF read # <<>> THEN NextCounter(read[Len(read)].seq)
                      ELSE Counter(bundle.from)
    BY <1>1 DEF WalkInv
  <1>10. Len(read) = bundle.to - bundle.from + 1
    <2>1. read \in Seq(Lines) /\ Len(read) \in 1..Len(read) /\ Len(read) \in Nat
      BY <1>9 DEF TypeOK
    <2>2. read[Len(read)].seq = bundle.from + Len(read) - 1
      BY <1>9, <2>1 DEF InChain
    <2>3. read[Len(read)].seq \in MinInt..MaxInt
      BY <2>1, WalkAssumption DEF LineShape
    <2>4. read[Len(read)].seq = bundle.to
      BY <1>2, <1>9, <2>3, EndsAtLast
    <2>5. QED
      BY <1>2, <2>1, <2>2, <2>4
  <1>11. QED
    BY <1>3, <1>4, <1>6, <1>8, <1>9, <1>10

\* Inside the verified range the leaves are those of the sealed log.
LEMMA VerifiedLeaves ==
  ASSUME TypeOK, WalkInv, SliceInv, PassInv, Verified, NEW j \in 1..Len(read)
  PROVE  /\ bundle.stream = Stream /\ 1 <= bundle.from /\ bundle.to <= Len(Log)
         /\ bundle.from <= bundle.to
         /\ cumulative[j] = Log[bundle.from + j - 1].entry
  <1>1. PICK cps : cps = bundle.checkpoints
    OBVIOUS
  <1>2. PICK n \in Nat : n = Len(cps)
    BY <1>1, CheckpointFacts DEF TypeOK
  <1>3. /\ n \in 1..n /\ Ranges(bundle) = cps
        /\ \A i \in 1..n : Sealed(cps[i])
        /\ Consecutive(cps, bundle.from, n) /\ cps[n].to = bundle.to
        /\ Len(trees) = n /\ Len(read) = bundle.to - bundle.from + 1
    BY <1>1, <1>2, VerifiedEnds
  <1>4. /\ bundle \in Bundles /\ bundle.from \in Int /\ bundle.to \in Int
        /\ \A i \in 1..n : cps[i].from \in Int /\ cps[i].to \in Int
    BY <1>1, <1>2, CheckpointFacts, RangeFacts DEF TypeOK
  <1>5. ASSUME NEW i \in 1..n
        PROVE  /\ bundle.stream = Stream
               /\ 1 <= cps[i].from /\ cps[i].from <= cps[i].to /\ cps[i].to <= Len(Log)
               /\ TreeFrom(cps[i].from)
                    = [k \in 1..(cps[i].to - cps[i].from + 1) |->
                         Log[cps[i].from + k - 1].entry]
    <2>1. Sealed(cps[i])
      BY <1>3
    <2>2. PICK s \in Seals : /\ s.from = cps[i].from /\ s.to = cps[i].to
                             /\ s.root = cps[i].root
      BY <2>1 DEF Sealed
    <2>3. IsSeal(s)
      BY SealedLogAssumption
    <2>4. QED
      BY <2>1, <2>2, <2>3 DEF Sealed, IsSeal
  <1>6. \A i \in 1..n : InOrderUpTo(bundle, i)
    <2>1. \A k \in 1..n : From(bundle, k) = cps[k].from /\ To(bundle, k) = cps[k].to
      BY <1>3 DEF From, To
    <2>2. Consecutive(cps, bundle.from, n) /\ n \in 1..n
      BY <1>3
    <2>3. From(bundle, 1) = bundle.from
      BY <2>1, <2>2 DEF Consecutive
    <2>4. \A i \in 1..n : From(bundle, i) <= To(bundle, i)
      BY <2>1, <2>2 DEF Consecutive
    <2>5. \A i \in 1..(n - 1) : To(bundle, i) + 1 = From(bundle, i + 1)
      <3> TAKE i \in 1..(n - 1)
      <3>1. i \in 1..n /\ i + 1 \in 1..n
        OBVIOUS
      <3>2. QED
        BY <2>1, <2>2, <3>1 DEF Consecutive
    <2>6. \A i, k \in 1..n : i < k => To(bundle, i) < From(bundle, k)
      BY <2>1, <2>2 DEF Consecutive
    <2>7. InOrderUpTo(bundle, n)
      BY <2>3, <2>4, <2>5, <2>6 DEF InOrderUpTo
    <2>8. QED
      BY <2>7, ShorterPrefix
  <1>7. PICK i \in 1..n : cps[i].from <= bundle.from + j - 1
                          /\ bundle.from + j - 1 <= cps[i].to
    <2>1. bundle.from + j - 1 \in bundle.from..cps[n].to
      BY <1>3, <1>4
    <2>2. QED
      BY <1>3, <2>1 DEF Consecutive
  <1>8. TreeFrom(cps[i].from) = trees[i]
    <2>1. \A k \in 1..n : From(bundle, k) = cps[k].from /\ To(bundle, k) = cps[k].to
      BY <1>3 DEF From, To
    <2>2. \A k \in 1..n : From(bundle, k) \in Int /\ To(bundle, k) \in Int
      BY <1>4, <2>1
    <2>3. TreeFrom(From(bundle, i)) = trees[i]
      BY <1>3, <1>6, <2>2, UniqueTree
    <2>4. QED
      BY <2>1, <2>3
  <1>9. IsStretch(trees[i], Start(bundle, i), cumulative)
    <2>1. Clean /\ i \in 1..Len(trees)
      BY <1>3 DEF Verified, Clean
    <2>2. QED
      BY <1>6, <2>1 DEF SliceInv
  <1>10. PICK a \in Int, z \in Int, f \in Int :
           a = cps[i].from /\ z = cps[i].to /\ f = bundle.from
    BY <1>4
  <1>11. PICK m \in Int : m = f + j - a
    BY <1>3, <1>4
  <1>12. /\ m \in 1..(z - a + 1) /\ a + m - 1 = f + j - 1 /\ a - f + m = j
         /\ z - a + 1 \in Nat
    <2>1. j \in Int
      BY <1>3, <1>4
    <2>2. a <= f + j - 1 /\ f + j - 1 <= z
      BY <1>7, <1>10
    <2>3. QED
      BY <1>11, <2>1, <2>2
  <1>13. /\ trees[i][m] = Log[f + j - 1].entry
         /\ m \in 1..Len(trees[i])
    <2>1. trees[i] = [k \in 1..(z - a + 1) |-> Log[a + k - 1].entry]
      BY <1>5, <1>8, <1>10
    <2>2. Len(trees[i]) = z - a + 1
      BY <1>12, <2>1
    <2>3. trees[i][m] = Log[a + m - 1].entry
      BY <1>12, <2>1
    <2>4. QED
      BY <1>12, <2>2, <2>3
  <1>14. cumulative[j] = trees[i][m]
    <2>1. Start(bundle, i) = a - f
      BY <1>3, <1>10 DEF Start, From
    <2>2. QED
      BY <1>9, <1>12, <1>13, <2>1 DEF IsStretch
  <1>15. 1 <= bundle.from /\ bundle.to <= Len(Log) /\ bundle.stream = Stream
    <2>1. n > 0 /\ 1 \in 1..n
      BY <1>3
    <2>2. cps[1].from = bundle.from
      BY <1>3, <2>1 DEF Consecutive
    <2>3. QED
      BY <1>3, <1>5, <2>1, <2>2
  <1>16. bundle.from <= bundle.to
    <2>1. j \in Int /\ 1 <= j /\ j <= bundle.to - bundle.from + 1
      BY <1>3, <1>4
    <2>2. QED
      BY <1>4, <2>1
  <1>17. QED
    BY <1>10, <1>13, <1>14, <1>15, <1>16

\* The verifier's promise (README of the repository): a bundle that verifies
\* shows the sealed log, whole and unaltered, over the range it names - whatever
\* was done to the files of the bundle.
THEOREM VerifiedBundlesAreSealed == Spec => []VerifiedIsSealed
  <1>1. ASSUME TypeOK, WalkInv, SliceInv, PassInv, Verified
        PROVE  /\ bundle.stream = Stream
               /\ 1 <= bundle.from /\ bundle.from <= bundle.to /\ bundle.to <= Len(Log)
               /\ Len(read) = bundle.to - bundle.from + 1
               /\ \A i \in 1..Len(read) : Shows(read[i], bundle.from + i - 1)
    <2>1. /\ Len(read) = bundle.to - bundle.from + 1 /\ Clean
          /\ read # <<>> /\ \A i \in 1..Len(read) : InChain(i)
      BY <1>1, VerifiedEnds DEF Verified, Clean, WalkInv
    <2>2. read \in Seq(Lines) /\ Len(read) \in Nat /\ 1 \in 1..Len(read)
          /\ bundle.from \in Int
      BY <1>1, <2>1, RangeFacts DEF TypeOK
    <2>3. /\ bundle.stream = Stream /\ 1 <= bundle.from /\ bundle.to <= Len(Log)
          /\ bundle.from <= bundle.to
      BY <1>1, <2>2, VerifiedLeaves
    <2>4. ASSUME NEW i \in 1..Len(read)
          PROVE  Shows(read[i], bundle.from + i - 1)
      <3>1. PICK k \in Int : k = bundle.from + i - 1
        BY <2>2
      <3>2. k \in 1..Len(Log)
        <4>1. i \in Int /\ bundle.from \in Int /\ bundle.to \in Int
          BY <1>1, <2>2, RangeFacts DEF TypeOK
        <4>2. Len(Log) \in Nat
          BY SealedLogAssumption
        <4>3. 1 <= i /\ i <= bundle.to - bundle.from + 1
          BY <2>1, <2>2, <4>1
        <4>4. QED
          BY <2>3, <3>1, <4>1, <4>2, <4>3
      <3>3. InChain(i)
        BY <2>1
      <3>4. read[i].entry = Log[k].entry
        BY <1>1, <3>1, <3>3, VerifiedLeaves DEF InChain
      <3>5. /\ Log[k].payload_hash = PayloadHash(Log[k].payload)
            /\ Log[k].entry = EntryHash(Stream, k, Log[k].payload_hash, Log[k].prev)
        BY <3>2, SealedLogAssumption DEF IsChain
      <3>6. EntryHash(Stream, k, read[i].payload_hash, read[i].prev)
              = EntryHash(Stream, k, Log[k].payload_hash, Log[k].prev)
        BY <2>3, <3>1, <3>3, <3>4, <3>5 DEF InChain
      <3>7. /\ read[i].payload_hash = Log[k].payload_hash
            /\ read[i].prev = Log[k].prev
        BY <3>6 DEF EntryHash
      <3>8. read[i].payload \in {Log[k].payload, None}
        <4>1. read[i].payload # None =>
                PayloadHash(read[i].payload) = PayloadHash(Log[k].payload)
          BY <3>3, <3>5, <3>7 DEF InChain
        <4>2. QED
          BY <4>1 DEF PayloadHash
      <3>9. QED
        BY <3>1, <3>3, <3>4, <3>7, <3>8 DEF InChain, Shows
    <2>5. QED
      BY <2>1, <2>3, <2>4
  <1>2. TypeOK /\ WalkInv /\ SliceInv /\ PassInv => VerifiedIsSealed
    BY <1>1 DEF VerifiedIsSealed
  <1>3. QED
    BY <1>2, SealedInvariant, PTL
-----------------------------------------------------------------------------
(* No false alarm.                                                         *)

\* A closed tree whose range has been read to its end is complete, and before the
\* end of the file no other tree is closed.
FullInv ==
  Clean =>
    /\ phase \in {"open", "events"} =>
         \A i \in 1..Len(trees) : To(bundle, i) < bundle.from + Len(read)
    /\ \A i \in 1..Len(trees) :
         InOrderUpTo(bundle, i) /\ To(bundle, i) < bundle.from + Len(read) =>
           Len(trees[i]) = To(bundle, i) - From(bundle, i) + 1

HonestSoFar ==
  /\ HonestBundle /\ bundle.to < MaxInt
  /\ \A i \in 1..Len(read) : HonestLine(read[i], bundle.from + i - 1)

\* The hash the next checkpoint of an honest export must name as the one before.
HonestPrev ==
  HonestBundle =>
    prevCheckpoint = IF checked > 0 THEN bundle.checkpoints[checked].hash
                     ELSE IF bundle.from = 1 THEN ZeroHash ELSE None

\* Of an honest export nothing is reported but that lines of it are missing.
NoBlame ==
  HonestSoFar /\ results # NewResults =>
    /\ phase \notin {"open", "events"}
    /\ Len(read) < bundle.to - bundle.from + 1

\* Short of the largest integer a counter counts on and back.
LEMMA CountsOn ==
  ASSUME NEW v \in MinInt..MaxInt, v < MaxInt
  PROVE  CounterIs(NextCounter(v), v + 1) /\ CounterEndsAt(NextCounter(v), v)
  <1>1. NextCounter(v) = [value |-> v + 1, overflowed |-> FALSE]
    BY IntegerFacts DEF NextCounter, Counter
  <1>2. Wrap(v + 1 - 1) = v
    BY IntegerFacts DEF Wrap
  <1>3. QED
    BY <1>1, <1>2 DEF CounterIs, CounterEndsAt

\* What an honest export says of the sealed log.
LEMMA HonestBundleFacts ==
  ASSUME bundle \in Bundles, HonestBundle
  PROVE  LET cps == bundle.checkpoints
             n == Len(cps) IN
         /\ n \in Nat /\ n \in 1..n /\ Ranges(bundle) = cps
         /\ \A i \in 1..n : /\ IsSeal(cps[i]) /\ cps[i] \in Checkpoints
                            /\ From(bundle, i) = cps[i].from
                            /\ To(bundle, i) = cps[i].to
                            /\ cps[i].to <= bundle.to
         /\ InOrderUpTo(bundle, n)
         /\ cps[1].from = bundle.from /\ cps[n].to = bundle.to
         /\ bundle.from \in Int /\ bundle.to \in Int
         /\ 1 <= bundle.from /\ bundle.from <= bundle.to /\ bundle.to <= Len(Log)
  <1> DEFINE cps == bundle.checkpoints
             n == Len(cps)
  <1>1. /\ n \in Nat /\ cps \in Seq(Checkpoints)
        /\ bundle.from \in Int /\ bundle.to \in Int
        /\ \A i \in 1..n : /\ cps[i] \in Checkpoints
                           /\ cps[i].from \in Int /\ cps[i].to \in Int
    BY BundleFacts, RangeFacts, CheckpointFacts
  <1>2. cps # <<>>
    BY DEF HonestBundle, Refusal, NoRefusal, ExitFail
  <1>3. n \in 1..n
    BY <1>1, <1>2
  <1>4. \A i \in 1..n : IsSeal(cps[i])
    BY SealedLogAssumption DEF HonestBundle
  <1>5. Ranges(bundle) = cps
    <2>1. AllRanged(bundle)
      BY <1>4 DEF AllRanged, IsSeal
    <2>2. QED
      BY <2>1, BundleFacts
  <1>6. \A i \in 1..n : From(bundle, i) = cps[i].from /\ To(bundle, i) = cps[i].to
    BY <1>5 DEF From, To
  <1>7. cps[1].from = bundle.from /\ cps[n].to = bundle.to
    BY DEF HonestBundle
  <1>8. /\ \A i \in 1..n : cps[i].from <= cps[i].to
        /\ \A i \in 1..(n - 1) : cps[i].to + 1 = cps[i + 1].from
    BY <1>4 DEF HonestBundle, IsSeal
  <1>9. \A i, j \in 1..n : i < j => cps[i].to < cps[j].from
    <2> HIDE DEF cps
    <2>1. QED
      BY <1>1, <1>8, LaterRanges
  <1>10. InOrderUpTo(bundle, n)
    <2>1. 1 \in 1..n
      BY <1>3
    <2>2. \A i \in 1..(n - 1) : i \in 1..n /\ i + 1 \in 1..n
      BY <1>1
    <2>3. From(bundle, 1) = bundle.from
      BY <1>6, <1>7, <2>1
    <2>4. \A i \in 1..n : From(bundle, i) <= To(bundle, i)
      BY <1>6, <1>8
    <2>5. \A i \in 1..(n - 1) : To(bundle, i) + 1 = From(bundle, i + 1)
      BY <1>6, <1>8, <2>2
    <2>6. \A i, j \in 1..n : i < j => To(bundle, i) < From(bundle, j)
      BY <1>6, <1>9
    <2>7. QED
      BY <2>3, <2>4, <2>5, <2>6 DEF InOrderUpTo
  <1>11. ASSUME NEW i \in 1..n
         PROVE  cps[i].to <= bundle.to
    <2>1. i = n \/ i < n
      BY <1>1
    <2>2. i < n => cps[i].to < cps[n].from
      BY <1>3, <1>9
    <2>3. cps[n].from <= cps[n].to /\ cps[n].from \in Int /\ cps[i].to \in Int
      BY <1>1, <1>3, <1>8
    <2>4. QED
      BY <1>1, <1>7, <2>1, <2>2, <2>3
  <1>12. 1 <= bundle.from /\ bundle.from <= bundle.to /\ bundle.to <= Len(Log)
    <2>1. 1 \in 1..n
      BY <1>3
    <2>2. 1 <= cps[1].from /\ cps[1].from <= cps[1].to /\ cps[n].to <= Len(Log)
      BY <1>3, <1>4, <2>1 DEF IsSeal
    <2>3. cps[1].to <= bundle.to /\ cps[1].to \in Int
      BY <1>1, <1>11, <2>1
    <2>4. QED
      BY <1>1, <1>7, <2>2, <2>3
  <1>13. QED
    BY <1>1, <1>3, <1>4, <1>5, <1>6, <1>7, <1>10, <1>11, <1>12

\* Closing trees in the middle of the events: the open one is over a whole range
\* when that range has been read to its end, and no range after it has been.
LEMMA ClosingFills ==
  ASSUME TypeOK, SliceInv, FullInv, Clean, phase = "events",
         NEW n \in Len(trees)..Len(Ranges(bundle)), CloseUpTo(n),
         NEW i \in 1..n, InOrderUpTo(bundle, i),
         To(bundle, i) < bundle.from + Len(read)
  PROVE  Len(trees'[i]) = To(bundle, i) - From(bundle, i) + 1
  <1>1. PICK k \in Int : k = Len(trees) + 1
    BY StateFacts
  <1>2. /\ bundle \in Bundles /\ Len(trees) \in Nat /\ Len(read) \in Nat
        /\ Len(open) \in Nat /\ Len(Ranges(bundle)) \in Nat /\ bundle.from \in Int
        /\ n \in Nat /\ i \in 1..Len(Ranges(bundle))
    BY StateFacts, RangeFacts
  <1>3. From(bundle, i) \in Int /\ To(bundle, i) \in Int
    BY <1>2, RangeFacts
  <1>4. /\ \A j \in 1..Len(trees) : trees'[j] = trees[j]
        /\ n > Len(trees) => trees'[k] = open
    <2>1. trees \in Seq(Seq(Entries)) /\ open \in Seq(Entries)
      BY StateFacts
    <2>2. n \in Nat /\ n >= Len(trees)
      BY <1>2
    <2>3. /\ \A j \in 1..Len(trees) : trees'[j] = trees[j]
          /\ n > Len(trees) => trees'[Len(trees) + 1] = open
      BY <2>1, <2>2, CloseUpToType
    <2>4. QED
      BY <1>1, <2>3, Zenon
  <1>5. CASE i \in 1..Len(trees)
    BY <1>4, <1>5 DEF FullInv
  <1>6. CASE i \notin 1..Len(trees)
    <2>1. k <= i /\ k \in 0..i /\ i \in Nat /\ k <= Len(Ranges(bundle))
          /\ n > Len(trees) /\ k \in 1..i
      BY <1>1, <1>2, <1>6
    <2>2. InOrderUpTo(bundle, k)
      BY <2>1, ShorterPrefix
    <2>3. /\ Start(bundle, k) + Len(open) = Len(read)
          /\ bundle.from + Len(read) - 1 <= To(bundle, k)
      BY <1>1, <2>1, <2>2 DEF SliceInv
    <2>4. From(bundle, k) \in Int /\ To(bundle, k) \in Int
      <3>1. k \in 1..Len(Ranges(bundle))
        BY <1>2, <2>1
      <3>2. QED
        BY <1>2, <3>1, RangeFacts
    <2>5. i = k
      <3>1. SUFFICES ASSUME k < i
                     PROVE  FALSE
        BY <2>1
      <3>2. To(bundle, k) < From(bundle, i) /\ From(bundle, i) <= To(bundle, i)
        BY <2>1, <3>1 DEF InOrderUpTo
      <3>3. QED
        BY <1>2, <1>3, <2>3, <2>4, <3>2, SMTT(20)
    <2>6. Len(open) = To(bundle, k) - From(bundle, k) + 1
      <3>1. From(bundle, k) - bundle.from + Len(open) = Len(read)
        BY <2>3 DEF Start
      <3>2. To(bundle, k) < bundle.from + Len(read)
        BY <2>5
      <3>3. QED
        BY <1>2, <2>3, <2>4, <3>1, <3>2, SMTT(20)
    <2>7. trees'[i] = open
      BY <1>4, <2>1, <2>5
    <2>8. QED
      BY <2>5, <2>6, <2>7
  <1>7. QED
    BY <1>5, <1>6

\* Before the first line no tree is closed.
LEMMA InitFullInv == Init => FullInv
  <1> SUFFICES ASSUME Init PROVE FullInv
    OBVIOUS
  <1>1. 1..Len(trees) = {}
    BY DEF Init
  <1>2. QED
    BY <1>1 DEF FullInv

\* A step that reads no line and closes no tree.
LEMMA OtherStepFullInv ==
  ASSUME FullInv, Clean' => Clean, UNCHANGED <<bundle, trees, read>>,
         phase' \in {"open", "events"} => phase \in {"open", "events"}
  PROVE  FullInv'
  BY DEF FullInv

\* An event closes only trees that end before it.
LEMMA ReadEventFullInv ==
  ASSUME TypeOK, WalkInv, SliceInv, FullInv, NEW l \in bundle.lines, ReadEvent(l)
  PROVE  FullInv'
  <1> SUFFICES ASSUME Clean'
               PROVE  FullInv'
    BY DEF FullInv
  <1>1. Clean /\ CounterIs(expected, l.seq)
    BY CleanEvent, CleanLeaf
  <1>2. /\ bundle \in Bundles /\ Len(trees) \in Nat /\ Len(read) \in Nat
        /\ read \in Seq(Lines) /\ Len(Ranges(bundle)) \in Nat /\ bundle.from \in Int
        /\ l \in Lines /\ l.seq \in MinInt..MaxInt
    BY StateFacts, RangeFacts, BundleFacts, WalkAssumption DEF LineShape
  <1>3. l.seq = bundle.from + Len(read)
    BY <1>1, <1>2, CleanSequence
  <1>4. /\ phase = "events" /\ bundle' = bundle /\ read' = Append(read, l)
    BY DEF ReadEvent, Reading
  <1>5. Len(read') = Len(read) + 1
    BY <1>2, <1>4
  <1>6. PICK n \in Len(trees)..Len(Ranges(bundle)) :
          ClosedBefore(l.seq, n) /\ CloseUpTo(n)
    BY DEF ReadEvent
  <1>7. n \in Nat /\ Len(trees') = n
    BY <1>2, <1>6, StateFacts, CloseUpToType
  <1>8. ASSUME NEW i \in 1..n
        PROVE  To(bundle, i) < bundle.from + Len(read) /\ To(bundle, i) \in Int
    <2>1. i \in 1..Len(Ranges(bundle))
      BY <1>2
    <2>2. To(bundle, i) \in Int
      BY <1>2, <2>1, RangeFacts
    <2>3. CASE i \in 1..Len(trees)
      BY <1>1, <1>4, <2>2, <2>3 DEF FullInv
    <2>4. CASE i \in (Len(trees) + 1)..n
      <3>1. l.seq > To(bundle, i)
        BY <1>6, <2>4 DEF ClosedBefore, To
      <3>2. QED
        BY <1>2, <1>3, <2>2, <3>1
    <2>5. QED
      BY <1>2, <2>3, <2>4
  <1>9. ASSUME NEW i \in 1..n, InOrderUpTo(bundle, i)
        PROVE  Len(trees'[i]) = To(bundle, i) - From(bundle, i) + 1
    BY <1>1, <1>4, <1>6, <1>8, <1>9, ClosingFills
  <1>10. \A i \in 1..Len(trees') : To(bundle, i) < bundle.from + Len(read')
    BY <1>2, <1>5, <1>7, <1>8
  <1>11. \A i \in 1..Len(trees') : InOrderUpTo(bundle, i) =>
           Len(trees'[i]) = To(bundle, i) - From(bundle, i) + 1
    BY <1>7, <1>9
  <1>12. QED
    BY <1>4, <1>10, <1>11 DEF FullInv

\* Every step of the walk keeps the closed trees complete as far as was read.
LEMMA NextFullInv == TypeOK /\ WalkInv /\ SliceInv /\ FullInv /\ [Next]_vars => FullInv'
  <1> SUFFICES ASSUME TypeOK, WalkInv, SliceInv, FullInv, [Next]_vars PROVE FullInv'
    OBVIOUS
  <1>1. results \in Verdicts
    BY DEF TypeOK
  <1>2. CASE Open
    <2>1. Clean' => Clean
      BY <1>1, <1>2, FailIfPasses, ResultNames DEF Open, Clean
    <2>2. QED
      BY <1>2, <2>1, OtherStepFullInv DEF Open, events
  <1>3. ASSUME NEW l \in bundle.lines, ReadGarbage(l) \/ ReadUnnumbered(l)
        PROVE  FullInv'
    BY <1>3, ReportedStep DEF ReadGarbage, ReadUnnumbered, FullInv
  <1>4. ASSUME NEW l \in bundle.lines, ReadEvent(l)
        PROVE  FullInv'
    BY <1>4, ReadEventFullInv
  <1>5. CASE ReadFails
    BY <1>5, OtherStepFullInv DEF ReadFails, Hard, events, Clean
  <1>6. CASE EndEvents
    <2>1. Clean' => Clean
      BY <1>1, <1>6, FailIfPasses, ResultNames DEF EndEvents, Clean
    <2>2. /\ Len(Ranges(bundle)) \in Len(trees)..Len(Ranges(bundle))
          /\ phase = "events" /\ CloseUpTo(Len(Ranges(bundle)))
          /\ bundle' = bundle /\ read' = read
          /\ phase' \in {"hard", "checkpoints"}
      BY <1>6, StateFacts, RangeFacts DEF EndEvents, Hard
    <2>3. Len(trees') = Len(Ranges(bundle))
      BY <2>2, StateFacts, RangeFacts, CloseUpToType
    <2>4. Clean => \A i \in 1..Len(trees') :
            InOrderUpTo(bundle, i) /\ To(bundle, i) < bundle.from + Len(read) =>
              Len(trees'[i]) = To(bundle, i) - From(bundle, i) + 1
      BY <2>2, <2>3, ClosingFills
    <2>5. QED
      BY <2>1, <2>2, <2>4 DEF FullInv
  <1>7. CASE CheckCheckpoint
    <2>1. Clean' => Clean
      BY <1>7, CheckKeepsContent
    <2>2. QED
      BY <1>7, <2>1, OtherStepFullInv DEF CheckCheckpoint, Checking, events
  <1>8. CASE SkipCheckpoint
    BY <1>8, ReportedStep DEF SkipCheckpoint, FullInv
  <1>9. CASE EndCheckpoints
    <2>1. Clean' => Clean
      BY <1>1, <1>9, FailIfOther, ResultNames DEF EndCheckpoints, Clean
    <2>2. QED
      BY <1>9, <2>1, OtherStepFullInv DEF EndCheckpoints, events
  <1>10. CASE UNCHANGED vars
    BY <1>10, OtherStepFullInv DEF vars, events, Clean
  <1>11. QED
    BY <1>2, <1>3, <1>4, <1>5, <1>6, <1>7, <1>8, <1>9, <1>10 DEF Next

\* A line of an honest export shows an event of the sealed log inside the range.
LEMMA HonestLineFacts ==
  ASSUME bundle \in Bundles, HonestBundle, NEW l, NEW v \in Int, bundle.from <= v,
         HonestLine(l, v)
  PROVE  /\ v \in 1..Len(Log) /\ v <= bundle.to
         /\ l.kind = "event" /\ l.seq = v
         /\ l.payload_hash = PayloadHash(Log[v].payload)
         /\ l.prev = IF v = 1 THEN ZeroHash ELSE Log[v - 1].entry
         /\ l.entry = Log[v].entry
         /\ l.entry = EntryHash(Stream, v, l.payload_hash, l.prev)
  <1>1. v <= bundle.to /\ Shows(l, v)
    BY DEF HonestLine
  <1>2. Len(Log) \in Nat
    BY SealedLogAssumption
  <1>3. v \in 1..Len(Log)
    <2>1. /\ bundle.from \in Int /\ bundle.to \in Int
          /\ 1 <= bundle.from /\ bundle.to <= Len(Log)
      BY HonestBundleFacts
    <2>2. QED
      BY <1>1, <1>2, <2>1
  <1>4. /\ Log[v].payload_hash = PayloadHash(Log[v].payload)
        /\ Log[v].prev = IF v = 1 THEN ZeroHash ELSE Log[v - 1].entry
        /\ Log[v].entry = EntryHash(Stream, v, Log[v].payload_hash, Log[v].prev)
    BY <1>3, SealedLogAssumption DEF IsChain
  <1>5. QED
    BY <1>1, <1>3, <1>4 DEF Shows

\* The next line of an honest export has none of the problems an event can have.
LEMMA HonestEvent ==
  ASSUME TypeOK, WalkInv, HonestSoFar, Clean, NEW l \in bundle.lines,
         HonestLine(l, bundle.from + Len(read))
  PROVE  ~EventProblem(l)
  <1>1. PICK v \in Int : v = bundle.from + Len(read)
    BY StateFacts, RangeFacts
  <1>2. /\ bundle \in Bundles /\ HonestBundle /\ bundle.to < MaxInt
        /\ bundle.from \in Int /\ bundle.to \in Int /\ Len(read) \in Nat
        /\ read \in Seq(Lines) /\ HonestLine(l, v) /\ bundle.from <= v
        /\ 1 <= bundle.from
    BY <1>1, StateFacts, RangeFacts, HonestBundleFacts DEF HonestSoFar
  <1>3. /\ v \in 1..Len(Log) /\ v <= bundle.to /\ l.seq = v
        /\ l.payload_hash = PayloadHash(Log[v].payload)
        /\ l.prev = IF v = 1 THEN ZeroHash ELSE Log[v - 1].entry
        /\ l.entry = EntryHash(Stream, v, l.payload_hash, l.prev)
    BY <1>2, HonestLineFacts
  <1>4. ASSUME read = <<>>
        PROVE  CounterIs(expected, l.seq) /\ ~LinkProblem(l)
    <2>1. v = bundle.from
      BY <1>1, <1>2, <1>4
    <2>2. /\ expected = Counter(bundle.from)
          /\ prevHash = IF bundle.from = 1 THEN ZeroHash ELSE None
      BY <1>4 DEF WalkInv
    <2>3. CounterIs(expected, l.seq)
      BY <1>3, <2>1, <2>2 DEF CounterIs, Counter
    <2>4. ~LinkProblem(l)
      BY <1>3, <2>1, <2>2 DEF LinkProblem
    <2>5. QED
      BY <2>3, <2>4
  <1>5. ASSUME read # <<>>
        PROVE  CounterIs(expected, l.seq) /\ ~LinkProblem(l)
    <2>1. PICK k \in Nat : k = Len(read)
      BY <1>2
    <2>2. k \in 1..Len(read) /\ k >= 1
      BY <1>2, <1>5, <2>1
    <2>3. PICK m \in Int : m = bundle.from + k - 1
      BY <1>2, <2>1
    <2>4. v = m + 1 /\ m = v - 1 /\ bundle.from <= m
      BY <1>1, <1>2, <2>1, <2>2, <2>3
    <2>5. HonestLine(read[k], m)
      BY <2>2, <2>3 DEF HonestSoFar
    <2>6. /\ m \in 1..Len(Log) /\ read[k].seq = m /\ read[k].entry = Log[m].entry
      BY <1>2, <2>4, <2>5, HonestLineFacts
    <2>7. expected = NextCounter(m) /\ prevHash = Log[m].entry
      BY <1>5, <2>1, <2>6 DEF WalkInv
    <2>8. m \in MinInt..MaxInt /\ m < MaxInt
      BY <1>2, <1>3, <2>4, <2>6, IntegerFacts
    <2>9. CounterIs(expected, l.seq)
      BY <1>3, <2>4, <2>7, <2>8, CountsOn
    <2>10. v # 1
      BY <2>4, <2>6
    <2>11. ~LinkProblem(l)
      BY <1>3, <2>4, <2>7, <2>10 DEF LinkProblem
    <2>12. QED
      BY <2>9, <2>11
  <1>6. CounterIs(expected, l.seq) /\ ~LinkProblem(l)
    BY <1>4, <1>5
  <1>7. ~EntryProblem(l)
    BY <1>2, <1>3 DEF EntryProblem, HonestBundle
  <1>8. ~PayloadProblem(l)
    <2>1. HonestLine(l, v) /\ l.seq = v
          /\ l.payload_hash = PayloadHash(Log[v].payload)
      BY <1>2, <1>3
    <2>2. QED
      BY <2>1 DEF PayloadProblem, HonestLine, Shows
  <1>9. QED
    BY <1>6, <1>7, <1>8 DEF EventProblem

\* The lines read of an honest export are at most those of its range, and none is
\* missing exactly when the last one has the last sequence.
LEMMA HonestLength ==
  ASSUME TypeOK, HonestSoFar
  PROVE  /\ Len(read) \in Nat /\ Len(read) <= bundle.to - bundle.from + 1
         /\ Len(read) = bundle.to - bundle.from + 1 =>
              read # <<>> /\ read[Len(read)].seq = bundle.to
  <1>1. /\ bundle \in Bundles /\ HonestBundle /\ Len(read) \in Nat /\ read \in Seq(Lines)
        /\ bundle.from \in Int /\ bundle.to \in Int /\ bundle.from <= bundle.to
    BY StateFacts, HonestBundleFacts DEF HonestSoFar
  <1>2. CASE read = <<>>
    BY <1>1, <1>2
  <1>3. CASE read # <<>>
    <2>1. PICK m \in Int : m = bundle.from + Len(read) - 1
      BY <1>1
    <2>2. Len(read) \in 1..Len(read) /\ bundle.from <= m
      BY <1>1, <1>3, <2>1
    <2>3. HonestLine(read[Len(read)], m)
      BY <2>1, <2>2 DEF HonestSoFar
    <2>4. m <= bundle.to /\ read[Len(read)].seq = m
      BY <1>1, <2>2, <2>3, HonestLineFacts
    <2>5. QED
      BY <1>1, <1>3, <2>1, <2>4
  <1>4. QED
    BY <1>2, <1>3

\* A seal's time is inside its key's window, so the window is no problem.
LEMMA InsideWindow ==
  ASSUME NEW window, NEW t, InWindow(window, t)
  PROVE  ~WindowProblem(window, t)
  <1>1. Bound(t) /\ t \in Int
    BY DEF InWindow, IsTime
  <1>2. /\ Malformed \notin {window.created, window.retired}
        /\ Bound(window.created) => window.created \in Int /\ window.created <= t
        /\ Bound(window.retired) => window.retired \in Int /\ t <= window.retired
    BY SealsAssumption DEF InWindow, IsTime, Bound
  <1>3. Bound(window.created) => ~(t < window.created)
    BY <1>1, <1>2
  <1>4. Bound(window.retired) => ~(t > window.retired)
    BY <1>1, <1>2
  <1>5. QED
    BY <1>1, <1>2, <1>3, <1>4 DEF WindowProblem

\* The tree closed for a checkpoint of an honest export that was read whole is
\* the one the checkpoint was sealed over.
LEMMA HonestTree ==
  ASSUME TypeOK, WalkInv, SliceInv, FullInv, HonestSoFar, Clean,
         phase = "checkpoints", NEW i \in 1..Len(bundle.checkpoints)
  PROVE  ~TreeProblem(bundle.checkpoints[i])
  <1>1. PICK cp : cp = bundle.checkpoints[i]
    OBVIOUS
  <1>2. PICK n \in Nat : n = Len(bundle.checkpoints)
    BY CheckpointFacts DEF TypeOK
  <1>3. bundle \in Bundles /\ HonestBundle /\ bundle.to < MaxInt
    BY DEF TypeOK, HonestSoFar
  <1>4. /\ i \in 1..n /\ InOrderUpTo(bundle, n) /\ IsSeal(cp)
        /\ From(bundle, i) = cp.from /\ To(bundle, i) = cp.to
        /\ cp.to <= bundle.to /\ Len(Ranges(bundle)) = n
        /\ bundle.from \in Int /\ bundle.to \in Int /\ 1 <= bundle.from
    BY <1>1, <1>2, <1>3, HonestBundleFacts
  <1>5. /\ cp.from \in Int /\ cp.to \in Int
        /\ 1 <= cp.from /\ cp.from <= cp.to
        /\ cp.root = [k \in 1..(cp.to - cp.from + 1) |-> Log[cp.from + k - 1].entry]
    BY <1>1, <1>3, <1>4, CheckpointFacts DEF IsSeal
  <1>6. /\ read # <<>> /\ CounterEndsAt(expected, bundle.to) /\ Len(trees) = n
        /\ \A j \in 1..Len(read) : InChain(j)
        /\ expected = NextCounter(read[Len(read)].seq) /\ Len(cumulative) = Len(read)
    BY <1>4 DEF WalkInv
  <1>7. Len(read) \in Nat /\ Len(read) = bundle.to - bundle.from + 1
    <2>1. read \in Seq(Lines) /\ Len(read) \in Nat /\ Len(read) \in 1..Len(read)
      BY <1>6, StateFacts
    <2>2. read[Len(read)].seq \in MinInt..MaxInt
      BY <2>1, WalkAssumption DEF LineShape
    <2>3. bundle.to \in MinInt..MaxInt
      BY <1>3, BundleFacts
    <2>4. read[Len(read)].seq = bundle.to
      BY <1>6, <2>2, <2>3, EndsAtLast
    <2>5. read[Len(read)].seq = bundle.from + Len(read) - 1
      BY <1>6, <2>1 DEF InChain
    <2>6. QED
      BY <1>4, <2>1, <2>4, <2>5
  <1>8. TreeFrom(cp.from) = trees[i]
    <2>1. \A k \in 1..n : From(bundle, k) \in Int /\ To(bundle, k) \in Int
      BY <1>3, <1>4, RangeFacts
    <2>2. TreeFrom(From(bundle, i)) = trees[i]
      BY <1>4, <1>6, <2>1, UniqueTree
    <2>3. QED
      BY <1>4, <2>2
  <1>9. InOrderUpTo(bundle, i)
    BY <1>4, ShorterPrefix
  <1>10. Len(trees[i]) = cp.to - cp.from + 1
    <2>1. To(bundle, i) < bundle.from + Len(read)
      BY <1>4, <1>5, <1>7
    <2>2. Len(trees[i]) = To(bundle, i) - From(bundle, i) + 1
      BY <1>4, <1>6, <1>9, <2>1 DEF FullInv
    <2>3. QED
      BY <1>4, <2>2
  <1>11. PICK w \in Nat : w = cp.to - cp.from + 1
    BY <1>5
  <1>12. Wrap(w) = w
    <2>1. w <= MaxInt /\ ~(w < MinInt)
      BY <1>3, <1>4, <1>5, <1>11, IntegerFacts
    <2>2. QED
      BY <2>1, IntegerFacts DEF Wrap
  <1>13. ASSUME NEW m \in 1..w
         PROVE  trees[i][m] = Log[cp.from + m - 1].entry
    <2>1. IsStretch(trees[i], Start(bundle, i), cumulative)
      BY <1>4, <1>6, <1>9 DEF SliceInv
    <2>2. PICK a \in Int : a = Start(bundle, i) + m
      BY <1>4, <1>5 DEF Start
    <2>3. a \in 1..Len(cumulative) /\ trees[i][m] = cumulative[a]
      BY <1>10, <1>11, <2>1, <2>2 DEF IsStretch
    <2>4. a \in 1..Len(read) /\ cumulative[a] = read[a].entry
      BY <1>6, <2>3 DEF InChain
    <2>5. PICK v \in Int : v = bundle.from + a - 1
      BY <1>4
    <2>6. HonestLine(read[a], v) /\ bundle.from <= v
      BY <1>4, <2>4, <2>5 DEF HonestSoFar
    <2>7. read[a].entry = Log[v].entry
      BY <1>3, <2>6, HonestLineFacts
    <2>8. v = cp.from + m - 1
      BY <1>4, <1>5, <2>2, <2>5 DEF Start
    <2>9. QED
      BY <2>3, <2>4, <2>7, <2>8
  <1>14. cp.root = trees[i]
    <2>1. trees[i] \in Seq(Entries) /\ Len(trees[i]) = w
      BY <1>4, <1>6, <1>10, <1>11, StateFacts
    <2>2. trees[i] = [m \in 1..w |-> trees[i][m]]
      BY <2>1
    <2>3. [m \in 1..w |-> trees[i][m]] = [m \in 1..w |-> Log[cp.from + m - 1].entry]
      BY <1>13
    <2>4. cp.root = [m \in 1..w |-> Log[cp.from + m - 1].entry]
      BY <1>5, <1>11
    <2>5. QED
      BY <2>2, <2>3, <2>4
  <1>15. ~(Len(trees[i]) < w)
    BY <1>10, <1>11
  <1>16. QED
    BY <1>1, <1>8, <1>11, <1>12, <1>14, <1>15 DEF TreeProblem

\* A checkpoint of an honest export that was read whole has none of the problems
\* a checkpoint can have, and its key vouches for it.
LEMMA HonestCheckpoint ==
  ASSUME TypeOK, WalkInv, SliceInv, PassInv, FullInv, HonestPrev, HonestSoFar,
         Clean, IdentityHolds, phase = "checkpoints",
         checked < Len(bundle.checkpoints),
         NEW cp, cp = bundle.checkpoints[checked + 1]
  PROVE  /\ ~CheckpointProblem(cp) /\ cp.key \in DOMAIN TrustedKeys
         /\ ~WindowProblem(TrustedKeys[cp.key], cp.created_at)
  <1>1. PICK cps : cps = bundle.checkpoints
    OBVIOUS
  <1>2. PICK n \in Nat : n = Len(cps)
    BY <1>1, CheckpointFacts DEF TypeOK
  <1>3. /\ bundle \in Bundles /\ HonestBundle /\ bundle.to < MaxInt
        /\ checked \in Nat /\ checked + 1 \in 1..n /\ cp = cps[checked + 1]
    BY <1>1, <1>2 DEF TypeOK, HonestSoFar
  <1>4. /\ IsSeal(cp) /\ cp \in Checkpoints /\ cps[1].from = bundle.from
        /\ \A i \in 1..n : cps[i].to <= bundle.to /\ 1 <= cps[i].to
        /\ bundle.to \in Int
    <2>1. \A i \in 1..n : 1 <= cps[i].from /\ cps[i].from <= cps[i].to
      BY <1>1, <1>2, <1>3, HonestBundleFacts DEF IsSeal
    <2>2. \A i \in 1..n : cps[i].from \in Int /\ cps[i].to \in Int
      BY <1>1, <1>2, <1>3, CheckpointFacts
    <2>3. \A i \in 1..n : 1 <= cps[i].to
      BY <2>1, <2>2
    <2>4. QED
      BY <1>1, <1>2, <1>3, <2>3, HonestBundleFacts
  <1>5. /\ cp.hash = CheckpointHash(Stream, cp) /\ bundle.stream = Stream
        /\ cp.key \in DOMAIN TrustedKeys /\ cp.key \in DOMAIN bundle.keys
        /\ InWindow(TrustedKeys[cp.key], cp.created_at)
        /\ cp.signature = Signature(cp.key, cp.hash)
    <2>1. cp.key \in DOMAIN bundle.keys /\ bundle.stream = Stream
      BY <1>1, <1>2, <1>3 DEF HonestBundle
    <2>2. QED
      BY <1>4, <2>1 DEF IsSeal
  <1>6. SignatureValid(cp)
    <2>1. IsDigest(CheckpointHash(bundle.stream, cp))
      BY <1>3, <1>4, DigestAssumption
    <2>2. QED
      BY <1>5, <2>1 DEF SignatureValid
  <1>7. expectedFrom = IF checked = 0 THEN Counter(bundle.from)
                       ELSE NextCounter(cps[checked].to)
    BY <1>1 DEF PassInv
  <1>8. CASE checked = 0
    <2>1. cp.from = bundle.from
      BY <1>3, <1>4, <1>8
    <2>2. CounterIs(expectedFrom, cp.from)
      BY <1>7, <1>8, <2>1 DEF CounterIs, Counter
    <2>3. prevCheckpoint = IF bundle.from = 1 THEN ZeroHash ELSE None
      BY <1>3, <1>8 DEF HonestPrev
    <2>4. prevCheckpoint # None => cp.prev = prevCheckpoint
      BY <1>1, <1>3, <1>8, <2>3 DEF HonestBundle
    <2>5. QED
      BY <1>3, <1>5, <1>6, <2>2, <2>4, HonestTree, InsideWindow, <1>2, <1>1
         DEF CheckpointProblem
  <1>9. CASE checked > 0
    <2>1. checked \in 1..n /\ checked \in 1..(n - 1)
      BY <1>2, <1>3, <1>9
    <2>2. /\ cps[checked].to + 1 = cp.from
          /\ cp.prev = cps[checked].hash
      BY <1>1, <1>2, <1>3, <2>1 DEF HonestBundle
    <2>3. cps[checked].to \in MinInt..MaxInt /\ cps[checked].to < MaxInt
      <3>1. cps[checked].to \in Int /\ 1 <= cps[checked].to /\ cps[checked].to <= bundle.to
        BY <1>1, <1>2, <1>3, <1>4, <2>1, CheckpointFacts
      <3>2. QED
        BY <1>3, <1>4, <3>1, IntegerFacts
    <2>4. CounterIs(expectedFrom, cp.from)
      BY <1>3, <1>7, <1>9, <2>2, <2>3, CountsOn
    <2>5. prevCheckpoint = cps[checked].hash
      BY <1>1, <1>3, <1>9 DEF HonestPrev
    <2>6. QED
      BY <1>3, <1>5, <1>6, <2>2, <2>4, <2>5, HonestTree, InsideWindow, <1>2, <1>1
         DEF CheckpointProblem
  <1>10. QED
    BY <1>3, <1>8, <1>9

\* Nothing is wrong and nothing has been checked before the manifest is opened.
LEMMA InitHonest == Init => HonestPrev /\ NoBlame
  BY DEF Init, HonestPrev, NoBlame

\* A step that checks no checkpoint leaves the link to the next one.
LEMMA NextHonestPrev == TypeOK /\ HonestPrev /\ [Next]_vars => HonestPrev'
  <1> SUFFICES ASSUME TypeOK, HonestPrev, [Next]_vars, HonestBundle'
               PROVE  HonestPrev'
    BY DEF HonestPrev
  <1>1. ASSUME UNCHANGED <<bundle, checked, prevCheckpoint>>
        PROVE  HonestPrev'
    BY <1>1 DEF HonestPrev, HonestBundle
  <1>2. CASE CheckCheckpoint
    <2>1. /\ checked \in Nat /\ checked' = checked + 1 /\ bundle' = bundle
          /\ prevCheckpoint' = bundle.checkpoints[checked + 1].hash
      BY <1>2 DEF CheckCheckpoint, TypeOK
    <2>2. checked' > 0 /\ prevCheckpoint' = bundle'.checkpoints[checked'].hash
      BY <2>1
    <2>3. QED
      BY <2>2 DEF HonestPrev
  <1>3. CASE SkipCheckpoint
    <2>1. /\ bundle' = bundle /\ checked + 1 \in 1..Len(bundle.checkpoints)
          /\ ~bundle.checkpoints[checked + 1].hasRange /\ bundle \in Bundles
      BY <1>3, CheckpointFacts DEF SkipCheckpoint, Checking, TypeOK
    <2>2. HonestBundle
      BY <2>1 DEF HonestBundle
    <2>3. IsSeal(bundle.checkpoints[checked + 1])
      BY <2>1, <2>2, HonestBundleFacts
    <2>4. QED
      BY <2>1, <2>3 DEF IsSeal
  <1>4. QED
    BY <1>1, <1>2, <1>3 DEF Next, vars, events, passVars, Open, ReadGarbage,
       ReadUnnumbered, ReadEvent, ReadFails, EndEvents, EndCheckpoints, Hard

\* What was honest so far was so a line ago, and a line read is an honest one.
LEMMA HonestBefore ==
  ASSUME TypeOK, [Next]_vars, HonestSoFar'
  PROVE  /\ HonestSoFar /\ bundle' = bundle
         /\ \A l \in bundle.lines :
              read' = Append(read, l) => HonestLine(l, bundle.from + Len(read))
  <1>1. /\ bundle' = bundle
        /\ \/ read' = read
           \/ \E l \in bundle.lines : read' = Append(read, l)
    BY DEF Next, vars, events, Open, ReadGarbage, ReadUnnumbered, ReadEvent, ReadFails,
       EndEvents, CheckCheckpoint, SkipCheckpoint, EndCheckpoints
  <1>2. /\ bundle \in Bundles /\ read \in Seq(Lines) /\ Len(read) \in Nat
        /\ bundle.lines \subseteq Lines /\ bundle.from \in Int
    BY StateFacts, BundleFacts, RangeFacts
  <1>3. HonestBundle /\ bundle.to < MaxInt
    BY <1>1 DEF HonestSoFar, HonestBundle
  <1>4. ASSUME NEW l, NEW v
        PROVE  HonestLine(l, v)' <=> HonestLine(l, v)
    BY <1>1 DEF HonestLine, Declared, Shows
  <1>5. \A i \in 1..Len(read') : HonestLine(read'[i], bundle.from + i - 1)
    BY <1>1 DEF HonestSoFar, HonestLine, Declared, Shows
  <1>6. ASSUME NEW l \in bundle.lines, read' = Append(read, l)
        PROVE  /\ \A i \in 1..Len(read) : HonestLine(read[i], bundle.from + i - 1)
               /\ HonestLine(l, bundle.from + Len(read))
    <2>1. /\ Len(read') = Len(read) + 1 /\ read'[Len(read) + 1] = l
          /\ \A i \in 1..Len(read) : read'[i] = read[i]
      BY <1>2, <1>6
    <2>2. \A i \in 1..Len(read) : i \in 1..Len(read')
      BY <1>2, <2>1
    <2>3. bundle.from + (Len(read) + 1) - 1 = bundle.from + Len(read)
          /\ Len(read) + 1 \in 1..Len(read')
      BY <1>2, <2>1
    <2>4. HonestLine(read'[Len(read) + 1], bundle.from + (Len(read) + 1) - 1)
      BY <1>5, <2>3
    <2>5. QED
      BY <1>5, <2>1, <2>2, <2>3, <2>4
  <1>7. \A i \in 1..Len(read) : HonestLine(read[i], bundle.from + i - 1)
    BY <1>1, <1>5, <1>6
  <1>8. QED
    BY <1>1, <1>3, <1>6, <1>7 DEF HonestSoFar

\* A check that finds no problem leaves the results as they were.
LEMMA NothingFound == \A r, n : FailIf(FALSE, r, n) = r
  BY DEF FailIf

\* Every result stands before the first finding.
LEMMA StandingResults ==
  ASSUME results = NewResults
  PROVE  Clean /\ IdentityHolds
  BY ResultNames DEF NewResults, Clean, IdentityHolds

\* The end of the events is blamed only on an export of which lines are missing.
LEMMA EndEventsNoBlame ==
  ASSUME TypeOK, WalkInv, HonestSoFar, results = NewResults, EndEvents
  PROVE  \/ results' = NewResults
         \/ Len(read) < bundle.to - bundle.from + 1
  <1>1. results' = FailIf(~CounterEndsAt(expected, bundle.to), results,
                          "content_integrity")
    BY DEF EndEvents
  <1>2. SUFFICES ASSUME ~(Len(read) < bundle.to - bundle.from + 1)
                 PROVE  CounterEndsAt(expected, bundle.to)
    BY <1>1 DEF FailIf
  <1>3. /\ bundle \in Bundles /\ bundle.from \in Int /\ bundle.to \in Int
        /\ bundle.to \in MinInt..MaxInt /\ bundle.to < MaxInt
    BY StateFacts, RangeFacts, BundleFacts DEF HonestSoFar
  <1>4. read # <<>> /\ read[Len(read)].seq = bundle.to
    BY <1>2, <1>3, HonestLength
  <1>5. expected = NextCounter(bundle.to)
    BY <1>4, StandingResults DEF WalkInv
  <1>6. QED
    BY <1>3, <1>5, CountsOn

\* No step blames an honest export.
LEMMA NextNoBlame ==
  TypeOK /\ WalkInv /\ SliceInv /\ PassInv /\ FullInv /\ HonestPrev /\ NoBlame
    /\ [Next]_vars => NoBlame'
  <1> SUFFICES ASSUME TypeOK, WalkInv, SliceInv, PassInv, FullInv, HonestPrev, NoBlame,
                      [Next]_vars, HonestSoFar', results' # NewResults
               PROVE  /\ phase' \notin {"open", "events"}
                      /\ Len(read') < bundle'.to - bundle'.from + 1
    BY DEF NoBlame
  <1>1. /\ HonestSoFar /\ bundle' = bundle
        /\ \A l \in bundle.lines :
             read' = Append(read, l) => HonestLine(l, bundle.from + Len(read))
    BY HonestBefore
  <1>2. /\ results \in Verdicts /\ HonestBundle /\ bundle \in Bundles
        /\ phase \in {"open", "events"} => results = NewResults
    BY <1>1 DEF TypeOK, HonestSoFar, NoBlame
  <1>3. ASSUME phase \notin {"open", "events"}, phase' \notin {"open", "events"},
               read' = read, results # NewResults
        PROVE  /\ phase' \notin {"open", "events"}
               /\ Len(read') < bundle'.to - bundle'.from + 1
    BY <1>1, <1>3 DEF NoBlame
  <1>4. CASE Open
    BY <1>2, <1>4 DEF Open, HonestBundle, FailIf
  <1>5. ASSUME NEW l \in bundle.lines, ReadGarbage(l) \/ ReadUnnumbered(l)
        PROVE  FALSE
    BY <1>1, <1>5 DEF ReadGarbage, ReadUnnumbered, HonestLine, Shows
  <1>6. ASSUME NEW l \in bundle.lines, ReadEvent(l)
        PROVE  FALSE
    <2>1. phase = "events" /\ HonestLine(l, bundle.from + Len(read))
      BY <1>1, <1>6 DEF ReadEvent, Reading
    <2>2. Clean /\ results = NewResults
      BY <1>2, <2>1, StandingResults
    <2>3. ~EventProblem(l)
      BY <1>1, <2>1, <2>2, HonestEvent
    <2>4. QED
      BY <1>6, <2>2, <2>3 DEF ReadEvent, FailIf
  <1>7. CASE ReadFails
    BY <1>2, <1>7 DEF ReadFails
  <1>8. CASE EndEvents
    <2>1. phase = "events" /\ read' = read /\ phase' \in {"hard", "checkpoints"}
      BY <1>8 DEF EndEvents, Hard
    <2>2. Len(read) < bundle.to - bundle.from + 1
      BY <1>1, <1>2, <1>8, <2>1, EndEventsNoBlame
    <2>3. QED
      BY <1>1, <2>1, <2>2
  <1>9. CASE CheckCheckpoint
    <2>1. /\ phase = "checkpoints" /\ phase' = phase /\ read' = read
          /\ checked < Len(bundle.checkpoints)
      BY <1>9 DEF CheckCheckpoint, Checking, events
    <2>2. CASE results # NewResults
      BY <1>3, <2>1, <2>2
    <2>3. CASE results = NewResults
      <3>1. PICK cp : cp = bundle.checkpoints[checked + 1]
        OBVIOUS
      <3>2. /\ ~CheckpointProblem(cp) /\ cp.key \in DOMAIN TrustedKeys
            /\ ~WindowProblem(TrustedKeys[cp.key], cp.created_at)
        BY <1>1, <2>1, <2>3, <3>1, StandingResults, HonestCheckpoint
      <3>3. results' = CheckIdentity(cp, FailIf(CheckpointProblem(cp), results,
                                                "content_integrity"))
        BY <1>9, <3>1 DEF CheckCheckpoint
      <3>4. results' = results
        BY <3>2, <3>3 DEF CheckIdentity, FailIf
      <3>5. QED
        BY <2>3, <3>4
    <2>4. QED
      BY <2>2, <2>3
  <1>10. CASE SkipCheckpoint
    <2>1. /\ checked + 1 \in 1..Len(bundle.checkpoints)
          /\ ~bundle.checkpoints[checked + 1].hasRange
      BY <1>2, <1>10, CheckpointFacts DEF SkipCheckpoint, Checking, TypeOK
    <2>2. IsSeal(bundle.checkpoints[checked + 1])
      BY <1>2, <2>1, HonestBundleFacts
    <2>3. QED
      BY <2>1, <2>2 DEF IsSeal
  <1>11. CASE EndCheckpoints
    <2>1. /\ phase = "checkpoints" /\ phase' = "sealed" /\ read' = read
          /\ checked = Len(bundle.checkpoints)
          /\ results' = FailIf(~CounterEndsAt(expectedFrom, bundle.to), results, "scope")
      BY <1>11 DEF EndCheckpoints, events
    <2>2. CASE results # NewResults
      BY <1>3, <2>1, <2>2
    <2>3. CASE results = NewResults
      <3>1. Clean /\ IdentityHolds
        BY <2>3, StandingResults
      <3>2. expectedFrom = IF checked = 0 THEN Counter(bundle.from)
                           ELSE NextCounter(bundle.checkpoints[checked].to)
        BY <2>1, <3>1 DEF PassInv
      <3>3. /\ Len(bundle.checkpoints) \in 1..Len(bundle.checkpoints)
            /\ bundle.checkpoints[Len(bundle.checkpoints)].to = bundle.to
        BY <1>2, HonestBundleFacts
      <3>4. expectedFrom = NextCounter(bundle.to)
        BY <2>1, <3>2, <3>3
      <3>5. bundle.to \in MinInt..MaxInt /\ bundle.to < MaxInt
        BY <1>1, <1>2, BundleFacts DEF HonestSoFar
      <3>6. CounterEndsAt(expectedFrom, bundle.to)
        BY <3>4, <3>5, CountsOn
      <3>7. QED
        BY <2>1, <2>3, <3>6 DEF FailIf
    <2>4. QED
      BY <2>2, <2>3
  <1>12. CASE UNCHANGED vars
    BY <1>1, <1>12 DEF NoBlame, vars, events
  <1>13. QED
    BY <1>4, <1>5, <1>6, <1>7, <1>8, <1>9, <1>10, <1>11, <1>12 DEF Next

\* No false alarm (README of the repository, "verifies"): an export of the sealed
\* log passes, and while its lines arrive in order nothing is reported; only when
\* lines of it are missing is it blamed.
THEOREM HonestExports == Spec => []HonestExportVerifies
  <1>1. NoBlame => HonestExportVerifies
    BY DEF NoBlame, HonestSoFar, HonestExportVerifies
  <1>2. Init => FullInv /\ HonestPrev /\ NoBlame
    BY InitFullInv, InitHonest
  <1>3. /\ TypeOK /\ WalkInv /\ SliceInv /\ PassInv
        /\ FullInv /\ HonestPrev /\ NoBlame /\ [Next]_vars
        => (FullInv /\ HonestPrev /\ NoBlame)'
    BY NextFullInv, NextHonestPrev, NextNoBlame
  <1>4. QED
    BY <1>1, <1>2, <1>3, SealedInvariant, PTL DEF Spec
=============================================================================
