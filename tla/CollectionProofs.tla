-------------------------- MODULE CollectionProofs --------------------------
(***************************************************************************)
(* What a pass over collection records that reports nothing has seen, for  *)
(* every bundle: receipts in one chain, settlements that say what the      *)
(* chain before them says, one chain of settlements for each day; and that *)
(* it reports nothing of the export of a stream kept as it should be.      *)
(***************************************************************************)
EXTENDS CollectionPass, ReceiptStream, VerdictProofs, FiniteSetTheorems

\* The fields of the state of a stream, and of its gaps.
StreamFields == {"configured", "recordsStream", "receipts", "lastHash", "lastIndex",
                 "indexKnown", "lastCursor", "cursorKnown", "gaps", "days"}

IsGap(gap) == {"bounds", "healed"} \subseteq DOMAIN gap /\ gap.healed \in BOOLEAN

IsStream(s) ==
  /\ StreamFields \subseteq DOMAIN s
  /\ \A g \in DOMAIN s.gaps : IsGap(s.gaps[g])

\* What holds whether or not anything was reported.
PassTypeOK ==
  /\ export \in Exports
  /\ results \in Verdicts
  /\ IsList(seen)
  /\ \A i \in DOMAIN seen : /\ IsEvent(seen[i]) /\ seen[i].entry # None
                            /\ IsRecord(seen[i]) => seen[i].key \in DOMAIN streams
  /\ \A key \in DOMAIN streams : IsStream(streams[key])

\* The head of a stream's receipts is the receipt l.
HeadIs(s, l) ==
  /\ s.lastHash = l.entry
  /\ Shown(l) => /\ s.indexKnown /\ s.lastIndex = l.index
                 /\ s.cursorKnown <=> l.cursor_after # None
                 /\ s.lastCursor = l.cursor_after

\* The state s of a stream against its receipts among the events: how many there
\* are, and what the next one must follow.
DescribesReceipts(s, key, events, anchored) ==
  LET receipts == Receipts(events, key) IN
  /\ s.receipts = Cardinality(receipts)
  /\ receipts = {} => s.lastHash = None /\ ~s.indexKnown /\ ~s.cursorKnown
  /\ receipts # {} =>
       \E j \in receipts : Latest(j, receipts) /\ HeadIs(s, events[j])
  /\ anchored /\ (\A j \in receipts : Shown(events[j])) => s.lastIndex = Cardinality(receipts)

\* Its gaps against those that the events, of a range from 1, declare and heal.
DescribesGap(s, key, events, g) ==
  /\ \E j \in GapEvents(events, key, "stream.gap", g) : events[j].bounds = s.gaps[g].bounds
  /\ s.gaps[g].healed <=> GapEvents(events, key, "stream.gap_healed", g) # {}

KnowsGaps(s, key, events) ==
  \A action \in {"stream.gap", "stream.gap_healed"}, j \in DOMAIN events :
    events[j].action = action /\ events[j].key = key /\ Shown(events[j])
    => events[j].gap \in DOMAIN s.gaps

DescribesGaps(s, key, events) ==
  /\ \A g \in DOMAIN s.gaps : DescribesGap(s, key, events, g)
  /\ KnowsGaps(s, key, events)

\* Its days against their settlements among the events.
DescribesDay(s, key, events, day) ==
  \E j \in Settlements(events, key, day) :
    /\ Latest(j, Settlements(events, key, day))
    /\ s.days[day] = [supplement |-> events[j].supplement, seq |-> events[j].seq,
                      hash |-> events[j].entry]

KnowsDays(s, key, events) ==
  \A j \in DOMAIN events :
    events[j].action = "stream.settled" /\ events[j].key = key /\ Shown(events[j])
    => events[j].day \in DOMAIN s.days

DescribesDays(s, key, events) ==
  /\ \A day \in DOMAIN s.days : DescribesDay(s, key, events, day)
  /\ KnowsDays(s, key, events)

Describes(s, key, events, anchored) ==
  /\ DescribesReceipts(s, key, events, anchored)
  /\ anchored => DescribesGaps(s, key, events)
  /\ DescribesDays(s, key, events)

StreamsInv ==
  Clean => \A key \in DOMAIN streams : Describes(streams[key], key, seen, Anchored)
-----------------------------------------------------------------------------
\* An event gets its sequence and its entry hash, and keeps its other fields.
LEMMA PlacedEvent ==
  ASSUME NEW l \in export.records, export \in Exports
  PROVE  LET r == Placed(l) IN
         /\ IsEvent(r) /\ (IsRecord(r) <=> IsRecord(l))
         /\ r.seq = export.rangeFrom + Len(seen) /\ r.entry = r.seq
         /\ IsRecord(l) => r.key = l.key
  <1> DEFINE r == Placed(l)
  <1>1. IsEvent(l)
    BY CollectionAssumption
  <1>2. /\ DOMAIN r = DOMAIN l \cup {"seq", "entry"}
        /\ r["seq"] = export.rangeFrom + Len(seen) /\ r["entry"] = r["seq"]
        /\ \A f \in DOMAIN l \ {"seq", "entry"} : r[f] = l[f]
    BY DEF Placed
  <1> HIDE DEF r
  <1>3. r.action = l.action
    BY <1>1, <1>2 DEF IsEvent
  <1>4. ASSUME IsRecord(l) PROVE r.key = l.key /\ r.payload = l.payload
    BY <1>1, <1>2, <1>4 DEF IsEvent
  <1>5. ASSUME l.action = "stream.gap" PROVE r.bounds = l.bounds
    BY <1>1, <1>2, <1>5 DEF IsEvent
  <1>6. ASSUME l.action = "stream.settled"
        PROVE  r.state = l.state /\ r.previous = l.previous
    BY <1>1, <1>2, <1>6 DEF IsEvent
  <1>7. IsEvent(r)
    BY <1>1, <1>2, <1>3, <1>4, <1>5, <1>6 DEF IsEvent, IsRecord
  <1>8. r.seq = export.rangeFrom + Len(seen) /\ r.entry = r.seq
    BY <1>2
  <1> QED BY <1>3, <1>4, <1>7, <1>8 DEF r, IsRecord

\* What comes before a place does not change when an event is appended.
LEMMA SameBefore ==
  ASSUME NEW s, IsList(s), NEW e
  PROVE  /\ \A i \in 1..Len(s) : SubSeq(Append(s, e), 1, i - 1) = SubSeq(s, 1, i - 1)
         /\ SubSeq(Append(s, e), 1, Len(s)) = s
  <1> DEFINE t == Append(s, e)
  <1>1. /\ Len(s) \in Nat /\ DOMAIN s = 1..Len(s)
        /\ Len(t) = Len(s) + 1 /\ \A i \in 1..Len(s) : t[i] = s[i]
    BY OneMore
  <1>2. IsList(t)
    BY OneMore
  <1> HIDE DEF t
  <1>3. ASSUME NEW i \in 1..Len(s) PROVE SubSeq(t, 1, i - 1) = SubSeq(s, 1, i - 1)
    BY <1>1, <1>2 DEF IsList
  <1>4. SubSeq(t, 1, Len(s)) = s
    BY <1>1, <1>2 DEF IsList
  <1> QED BY <1>3, <1>4 DEF t

\* An appended event is one more of its kind, at the last place.
LEMMA OneMoreEvent ==
  ASSUME NEW s, IsList(s), NEW e
  PROVE  LET t == Append(s, e)
             n == Len(s) + 1 IN
         /\ \A key : Receipts(t, key) =
              Receipts(s, key)
                \cup {j \in {n} : e.action = "collection.receipt" /\ e.key = key}
         /\ \A key, action, gap : GapEvents(t, key, action, gap) =
              GapEvents(s, key, action, gap)
                \cup {j \in {n} : /\ e.action = action /\ e.key = key
                                  /\ Shown(e) /\ e.gap = gap}
         /\ \A key, day : Settlements(t, key, day) =
              Settlements(s, key, day)
                \cup {j \in {n} : /\ e.action = "stream.settled" /\ e.key = key
                                  /\ Shown(e) /\ e.day = day}
  <1> DEFINE t == Append(s, e)
             n == Len(s) + 1
  <1>1. /\ DOMAIN t = DOMAIN s \cup {n} /\ n \notin DOMAIN s
        /\ \A j \in DOMAIN s : t[j] = s[j]
        /\ t[n] = e
    BY OneMore
  <1> HIDE DEF t, n
  <1>2. ASSUME NEW key
        PROVE  Receipts(t, key) =
                 Receipts(s, key)
                   \cup {j \in {n} : e.action = "collection.receipt" /\ e.key = key}
    BY <1>1 DEF Receipts
  <1>3. ASSUME NEW key, NEW action, NEW gap
        PROVE  GapEvents(t, key, action, gap) =
                 GapEvents(s, key, action, gap)
                   \cup {j \in {n} : /\ e.action = action /\ e.key = key
                                     /\ Shown(e) /\ e.gap = gap}
    BY <1>1 DEF GapEvents, Shown
  <1>4. ASSUME NEW key, NEW day
        PROVE  Settlements(t, key, day) =
                 Settlements(s, key, day)
                   \cup {j \in {n} : /\ e.action = "stream.settled" /\ e.key = key
                                     /\ Shown(e) /\ e.day = day}
    BY <1>1 DEF Settlements, Shown
  <1> QED BY <1>2, <1>3, <1>4 DEF t, n
-----------------------------------------------------------------------------
(* Receipts.                                                               *)

\* The receipts of a range can be counted.
LEMMA ReceiptsFinite ==
  ASSUME NEW events, IsList(events), NEW key
  PROVE  IsFiniteSet(Receipts(events, key)) /\ Cardinality(Receipts(events, key)) \in Nat
  <1>1. Receipts(events, key) \subseteq 1..Len(events) /\ Len(events) \in Nat
    BY ListFacts DEF Receipts
  <1>2. IsFiniteSet(1..Len(events))
    BY <1>1, FS_Interval
  <1>3. IsFiniteSet(Receipts(events, key))
    BY <1>1, <1>2, FS_Subset
  <1> QED BY <1>3, FS_CardinalityType

\* A receipt that is not reported follows the receipts the state describes.
LEMMA ReceiptChecked ==
  ASSUME NEW s, NEW l, NEW events, NEW anchored \in BOOLEAN,
         IsList(events), \A j \in DOMAIN events : events[j].entry # None,
         DescribesReceipts(s, l.key, events, anchored), ~ReceiptProblem(s, l, anchored)
  PROVE  FollowsReceipts(l, events, anchored)
  <1> DEFINE R == Receipts(events, l.key)
  <1>1. R \subseteq DOMAIN events /\ R \subseteq Int
    BY ListFacts DEF Receipts
  <1>2. l.index # None /\ l.prev # None
    BY DEF ReceiptProblem
  <1>3. CASE R = {}
    <2>1. s.lastHash = None
      BY <1>3 DEF DescribesReceipts
    <2>3. Cardinality(R) = 0
      BY <1>3, FS_EmptySet
    <2>2. anchored => l.index = 1 /\ l.prev = ZeroHash
      BY <1>2, <2>1 DEF ReceiptProblem
    <2> QED BY <1>3, <2>2, <2>3 DEF FollowsReceipts
  <1>4. CASE R # {}
    <2>1. PICK i \in R : Latest(i, R) /\ HeadIs(s, events[i])
      BY <1>4 DEF DescribesReceipts
    <2>2. ~LinkBroken(s, l) /\ s.lastHash # None /\ s.lastHash = events[i].entry
      BY <1>1, <2>1 DEF ReceiptProblem, HeadIs
    <2>3. l.prev = events[i].entry
      BY <1>2, <2>2 DEF LinkBroken
    <2>4. Shown(events[i]) => /\ l.index = events[i].index + 1
                              /\ events[i].cursor_after \in {None, l.cursor_before}
      BY <1>2, <2>1, <2>2 DEF LinkBroken, SameValue, HeadIs
    <2>5. \A j \in R : Latest(j, R) => j = i
      BY <1>1, <2>1 DEF Latest
    <2>6. ASSUME anchored, \A j \in R : Shown(events[j])
          PROVE  l.index = Cardinality(R) + 1
      <3>1. s.lastIndex = Cardinality(R)
        BY <2>6 DEF DescribesReceipts
      <3>2. events[i].index = s.lastIndex
        BY <2>1, <2>6 DEF HeadIs
      <3> QED BY <2>4, <2>6, <3>1, <3>2
    <2> QED BY <1>4, <2>3, <2>4, <2>5, <2>6 DEF FollowsReceipts
  <1> QED BY <1>3, <1>4

\* What is remembered of a receipt, shown or redacted, describes one receipt more.
LEMMA ReceiptKept ==
  ASSUME NEW s, IsStream(s), NEW l, NEW events, NEW anchored \in BOOLEAN,
         IsList(events), DescribesReceipts(s, l.key, events, anchored),
         l.action = "collection.receipt",
         NEW t,
         \/ Shown(l) /\ ~ReceiptProblem(s, l, anchored) /\ t = AfterReceipt(s, l)
            /\ FollowsReceipts(l, events, anchored)
         \/ ~Shown(l) /\ t = AfterRedacted(s, l)
  PROVE  DescribesReceipts(t, l.key, Append(events, l), anchored)
  <1> DEFINE n == Len(events) + 1
             more == Append(events, l)
             R == Receipts(events, l.key)
             Q == Receipts(more, l.key)
  <1>1. /\ n \in Nat /\ DOMAIN events = 1..(n - 1) /\ more[n] = l
        /\ \A j \in 1..(n - 1) : more[j] = events[j]
    BY OneMore
  <1>2. Q = R \cup {n}
    BY <1>1, OneMoreEvent
  <1>3. R \subseteq 1..(n - 1) /\ n \notin R /\ \A j \in R : more[j] = events[j]
    BY <1>1 DEF Receipts
  <1>4. Cardinality(R) \in Nat /\ Cardinality(Q) = Cardinality(R) + 1
    BY <1>2, <1>3, ReceiptsFinite, FS_AddElement
  <1>5. Latest(n, Q)
    BY <1>1, <1>2, <1>3 DEF Latest
  <1>6. s.receipts = Cardinality(R)
    BY DEF DescribesReceipts
  <1> HIDE DEF n, more, R, Q
  <1>7. CASE ~Shown(l) /\ t = AfterRedacted(s, l)
    <2>1. t.receipts = Cardinality(Q) /\ t.lastHash = l.entry
      BY <1>4, <1>6, <1>7 DEF AfterRedacted, IsStream, StreamFields
    <2>2. ~Shown(more[n]) /\ n \in Q
      BY <1>1, <1>2, <1>7
    <2>3. HeadIs(t, more[n])
      BY <1>1, <2>1, <2>2 DEF HeadIs
    <2> QED BY <1>5, <2>1, <2>2, <2>3 DEF DescribesReceipts, Q, more
  <1>8. CASE /\ Shown(l) /\ ~ReceiptProblem(s, l, anchored) /\ t = AfterReceipt(s, l)
             /\ FollowsReceipts(l, events, anchored)
    <2>1. /\ t.receipts = Cardinality(Q) /\ t.lastHash = l.entry
          /\ t.lastCursor = l.cursor_after
      BY <1>4, <1>6, <1>8 DEF AfterReceipt, IsStream, StreamFields
    <2>6. t.cursorKnown <=> l.cursor_after # None
      BY <1>8 DEF AfterReceipt, IsStream, StreamFields
    <2>2. l.index # None
      BY <1>8 DEF ReceiptProblem
    <2>3. t.indexKnown /\ t.lastIndex = l.index
      BY <1>8, <2>2 DEF AfterReceipt, IsStream, StreamFields
    <2>4. ASSUME anchored, \A j \in Q : Shown(more[j])
          PROVE  t.lastIndex = Cardinality(Q)
      <3>1. \A j \in R : Shown(events[j])
        BY <1>2, <1>3, <2>4
      <3>2. l.index = Cardinality(R) + 1
        BY <1>8, <2>4, <3>1 DEF FollowsReceipts, R
      <3> QED BY <1>4, <2>3, <3>2
    <2>5. n \in Q
      BY <1>2
    <2>7. HeadIs(t, more[n])
      BY <1>1, <2>1, <2>3, <2>6 DEF HeadIs
    <2> QED BY <1>5, <2>1, <2>4, <2>5, <2>7 DEF DescribesReceipts, Q, more
  <1> QED BY <1>7, <1>8

\* What has nothing to do with the receipts of a stream leaves them described.
LEMMA ReceiptsStay ==
  ASSUME NEW s, NEW t, NEW key, NEW events, NEW l, NEW anchored \in BOOLEAN,
         IsList(events), DescribesReceipts(s, key, events, anchored),
         ~(l.action = "collection.receipt" /\ l.key = key),
         t.receipts = s.receipts, t.lastHash = s.lastHash, t.lastIndex = s.lastIndex,
         t.indexKnown = s.indexKnown, t.lastCursor = s.lastCursor,
         t.cursorKnown = s.cursorKnown
  PROVE  DescribesReceipts(t, key, Append(events, l), anchored)
  <1> DEFINE more == Append(events, l)
             R == Receipts(events, key)
  <1>1. Len(events) \in Nat /\ \A j \in DOMAIN events : more[j] = events[j]
    BY OneMore
  <1>2. Receipts(more, key) = R
    <2>1. Receipts(more, key) =
            R \cup {j \in {Len(events) + 1} : l.action = "collection.receipt" /\ l.key = key}
      BY OneMoreEvent
    <2> QED BY <2>1
  <1>3. \A j \in R : more[j] = events[j]
    BY <1>1 DEF Receipts
  <1> HIDE DEF more, R
  <1>4. \A j \in R : HeadIs(s, events[j]) => HeadIs(t, more[j])
    BY <1>3 DEF HeadIs
  <1>5. DescribesReceipts(t, key, more, anchored)
    BY <1>2, <1>3, <1>4 DEF DescribesReceipts, R
  <1> QED BY <1>5 DEF more
-----------------------------------------------------------------------------
(* Gaps.                                                                   *)

\* What is known of an event does not change when one more follows it.
LEMMA GapEventsStay ==
  ASSUME NEW events, IsList(events), NEW l, NEW key, NEW action, NEW gap
  PROVE  LET more == Append(events, l)
             new == /\ l.action = action /\ l.key = key
                    /\ Shown(l) /\ l.gap = gap
         IN /\ \A j \in GapEvents(events, key, action, gap) :
                 j \in GapEvents(more, key, action, gap) /\ more[j] = events[j]
            /\ new => Len(events) + 1 \in GapEvents(more, key, action, gap)
            /\ ~new => GapEvents(more, key, action, gap) = GapEvents(events, key, action, gap)
  <1> DEFINE more == Append(events, l)
             n == Len(events) + 1
             new == l.action = action /\ l.key = key /\ Shown(l) /\ l.gap = gap
  <1>1. GapEvents(more, key, action, gap) =
          GapEvents(events, key, action, gap)
            \cup {j \in {n} : /\ l.action = action /\ l.key = key
                              /\ Shown(l) /\ l.gap = gap}
    BY OneMoreEvent
  <1>2. \A j \in GapEvents(events, key, action, gap) : more[j] = events[j]
    BY OneMore DEF GapEvents
  <1>3. {j \in {n} : l.action = action /\ l.key = key /\ Shown(l) /\ l.gap = gap}
          = IF new THEN {n} ELSE {}
    OBVIOUS
  <1> QED BY <1>1, <1>2, <1>3

\* What the state says of a gap is unchanged by an event that is not about it.
LEMMA OtherGap ==
  ASSUME NEW s, NEW t, NEW key, NEW events, IsList(events), NEW l, NEW gap,
         gap \in DOMAIN s.gaps, t.gaps[gap] = s.gaps[gap],
         DescribesGaps(s, key, events),
         ~(l.action \in {"stream.gap", "stream.gap_healed"} /\ l.key = key
             /\ Shown(l) /\ l.gap = gap)
  PROVE  DescribesGap(t, key, Append(events, l), gap)
  <1>1. PICK j \in GapEvents(events, key, "stream.gap", gap) :
               events[j].bounds = s.gaps[gap].bounds
    BY DEF DescribesGaps, DescribesGap
  <1>2. s.gaps[gap].healed <=> GapEvents(events, key, "stream.gap_healed", gap) # {}
    BY DEF DescribesGaps, DescribesGap
  <1>3. /\ j \in GapEvents(Append(events, l), key, "stream.gap", gap)
        /\ Append(events, l)[j] = events[j]
    BY <1>1, OneMore DEF GapEvents
  <1>4. GapEvents(Append(events, l), key, "stream.gap_healed", gap)
          = GapEvents(events, key, "stream.gap_healed", gap)
    BY GapEventsStay
  <1> QED BY <1>1, <1>2, <1>3, <1>4 DEF DescribesGap

\* Every gap that is spoken of is among the stream's gaps, one event later.
LEMMA GapsKnown ==
  ASSUME NEW s, NEW t, NEW key, NEW events, IsList(events), NEW l,
         DescribesGaps(s, key, events), DOMAIN s.gaps \subseteq DOMAIN t.gaps,
         l.action \in {"stream.gap", "stream.gap_healed"} /\ l.key = key /\ Shown(l)
           => l.gap \in DOMAIN t.gaps
  PROVE  KnowsGaps(t, key, Append(events, l))
  <1> DEFINE more == Append(events, l)
  <1>1. /\ DOMAIN more = DOMAIN events \cup {Len(events) + 1} /\ more[Len(events) + 1] = l
        /\ \A j \in DOMAIN events : more[j] = events[j]
    BY OneMore
  <1> HIDE DEF more
  <1>2. \A action \in {"stream.gap", "stream.gap_healed"}, j \in DOMAIN events :
          events[j].action = action /\ events[j].key = key /\ Shown(events[j])
          => events[j].gap \in DOMAIN t.gaps
    BY DEF DescribesGaps, KnowsGaps
  <1>3. KnowsGaps(t, key, more)
    BY <1>1, <1>2 DEF KnowsGaps
  <1> QED BY <1>3 DEF more

\* A gap that is not reported was never spoken of before; it is not healed yet.
LEMMA GapKept ==
  ASSUME NEW s, IsStream(s), NEW l, NEW events, IsList(events),
         l.action = "stream.gap", Shown(l),
         DescribesGaps(s, l.key, events), ~GapProblem(s, l, TRUE)
  PROVE  DescribesGaps(AfterGap(s, l), l.key, Append(events, l))
  <1> DEFINE t == AfterGap(s, l)
             more == Append(events, l)
             n == Len(events) + 1
  <1>1. l.gap # None /\ l.gap \notin DOMAIN s.gaps
    BY DEF GapProblem
  <1>2. t.gaps = Put(s.gaps, l.gap, [bounds |-> l.bounds, healed |-> FALSE])
    BY <1>1 DEF AfterGap, IsStream, StreamFields
  <1>3. /\ DOMAIN t.gaps = DOMAIN s.gaps \cup {l.gap}
        /\ t.gaps[l.gap].bounds = l.bounds /\ ~t.gaps[l.gap].healed
        /\ \A g \in DOMAIN s.gaps : g # l.gap => t.gaps[g] = s.gaps[g]
    BY <1>2 DEF Put
  <1>4. n \in GapEvents(more, l.key, "stream.gap", l.gap) /\ more[n] = l
    BY GapEventsStay, OneMore
  <1>5. GapEvents(more, l.key, "stream.gap_healed", l.gap) = {}
    <2>1. GapEvents(more, l.key, "stream.gap_healed", l.gap)
            = GapEvents(events, l.key, "stream.gap_healed", l.gap)
      BY GapEventsStay
    <2>2. GapEvents(events, l.key, "stream.gap_healed", l.gap) = {}
      BY <1>1 DEF DescribesGaps, KnowsGaps, GapEvents
    <2> QED BY <2>1, <2>2
  <1> HIDE DEF t, more, n
  <1>6. ASSUME NEW g \in DOMAIN t.gaps
        PROVE  DescribesGap(t, l.key, more, g)
    <2>1. CASE g = l.gap
      BY <1>3, <1>4, <1>5, <2>1 DEF DescribesGap
    <2>2. CASE g # l.gap
      <3>1. g \in DOMAIN s.gaps /\ t.gaps[g] = s.gaps[g]
        BY <1>3, <2>2
      <3>2. ~(l.action \in {"stream.gap", "stream.gap_healed"} /\ l.key = l.key
                /\ Shown(l) /\ l.gap = g)
        BY <2>2
      <3> QED BY <3>1, <3>2, OtherGap DEF more
    <2> QED BY <2>1, <2>2
  <1>7. KnowsGaps(t, l.key, more)
    BY <1>3, GapsKnown DEF more
  <1>8. DescribesGaps(t, l.key, more)
    BY <1>6, <1>7 DEF DescribesGaps
  <1> QED BY <1>8 DEF t, more

\* A healing that is not reported is of a gap that was declared.
LEMMA HealKept ==
  ASSUME NEW s, IsStream(s), NEW l, NEW events, IsList(events),
         l.action = "stream.gap_healed", Shown(l),
         DescribesGaps(s, l.key, events), ~HealProblem(s, l, TRUE)
  PROVE  DescribesGaps(AfterHeal(s, l, TRUE), l.key, Append(events, l))
  <1> DEFINE t == AfterHeal(s, l, TRUE)
             more == Append(events, l)
             n == Len(events) + 1
  <1>1. l.gap # None /\ l.gap \in DOMAIN s.gaps
    BY DEF HealProblem
  <1>2. t.gaps = [s.gaps EXCEPT ![l.gap] = [@ EXCEPT !.healed = TRUE]]
    BY <1>1 DEF AfterHeal, IsStream, StreamFields
  <1>3. /\ DOMAIN t.gaps = DOMAIN s.gaps
        /\ t.gaps[l.gap].bounds = s.gaps[l.gap].bounds /\ t.gaps[l.gap].healed
        /\ \A g \in DOMAIN s.gaps : g # l.gap => t.gaps[g] = s.gaps[g]
    BY <1>1, <1>2 DEF IsStream, IsGap
  <1>4. n \in GapEvents(more, l.key, "stream.gap_healed", l.gap) /\ more[n] = l
    BY GapEventsStay, OneMore
  <1>5. \E j \in GapEvents(more, l.key, "stream.gap", l.gap) :
          more[j].bounds = s.gaps[l.gap].bounds
    <2>1. PICK j \in GapEvents(events, l.key, "stream.gap", l.gap) :
                 events[j].bounds = s.gaps[l.gap].bounds
      BY <1>1 DEF DescribesGaps, DescribesGap
    <2>2. j \in GapEvents(more, l.key, "stream.gap", l.gap) /\ more[j] = events[j]
      BY <2>1, OneMore DEF GapEvents
    <2> QED BY <2>1, <2>2
  <1> HIDE DEF t, more, n
  <1>6. ASSUME NEW g \in DOMAIN t.gaps
        PROVE  DescribesGap(t, l.key, more, g)
    <2>1. CASE g = l.gap
      BY <1>3, <1>4, <1>5, <2>1 DEF DescribesGap
    <2>2. CASE g # l.gap
      <3>1. g \in DOMAIN s.gaps /\ t.gaps[g] = s.gaps[g]
        BY <1>3, <2>2
      <3>2. ~(l.action \in {"stream.gap", "stream.gap_healed"} /\ l.key = l.key
                /\ Shown(l) /\ l.gap = g)
        BY <2>2
      <3> QED BY <3>1, <3>2, OtherGap DEF more
    <2> QED BY <2>1, <2>2
  <1>7. KnowsGaps(t, l.key, more)
    BY <1>1, <1>3, GapsKnown DEF more
  <1>8. DescribesGaps(t, l.key, more)
    BY <1>6, <1>7 DEF DescribesGaps
  <1> QED BY <1>8 DEF t, more

\* What says nothing of the gaps of a stream leaves them described.
LEMMA GapsStay ==
  ASSUME NEW s, NEW t, NEW key, NEW events, IsList(events), NEW l,
         t.gaps = s.gaps, DescribesGaps(s, key, events),
         ~(l.action \in {"stream.gap", "stream.gap_healed"} /\ l.key = key /\ Shown(l))
  PROVE  DescribesGaps(t, key, Append(events, l))
  <1> DEFINE more == Append(events, l)
  <1>1. ASSUME NEW g \in DOMAIN t.gaps
        PROVE  DescribesGap(t, key, more, g)
    BY OtherGap
  <1>2. KnowsGaps(t, key, more)
    BY GapsKnown
  <1> HIDE DEF more
  <1>3. DescribesGaps(t, key, more)
    BY <1>1, <1>2 DEF DescribesGaps
  <1> QED BY <1>3 DEF more
-----------------------------------------------------------------------------
(* Settlements.                                                            *)

\* What the state says of a day is unchanged by an event that does not settle it.
LEMMA OtherDay ==
  ASSUME NEW s, NEW t, NEW key, NEW events, IsList(events), NEW l, NEW day,
         day \in DOMAIN s.days, t.days[day] = s.days[day],
         DescribesDays(s, key, events),
         ~(l.action = "stream.settled" /\ l.key = key /\ Shown(l) /\ l.day = day)
  PROVE  DescribesDay(t, key, Append(events, l), day)
  <1> DEFINE more == Append(events, l)
  <1>1. PICK j \in Settlements(events, key, day) :
               /\ Latest(j, Settlements(events, key, day))
               /\ s.days[day] = [supplement |-> events[j].supplement, seq |-> events[j].seq,
                                 hash |-> events[j].entry]
    BY DEF DescribesDays, DescribesDay
  <1>2. Settlements(more, key, day) = Settlements(events, key, day)
    <2>1. Settlements(more, key, day) =
            Settlements(events, key, day)
              \cup {k \in {Len(events) + 1} : /\ l.action = "stream.settled" /\ l.key = key
                                              /\ Shown(l) /\ l.day = day}
      BY OneMoreEvent
    <2> QED BY <2>1
  <1>3. more[j] = events[j]
    BY <1>1, OneMore DEF Settlements
  <1> HIDE DEF more
  <1>4. DescribesDay(t, key, more, day)
    BY <1>1, <1>2, <1>3 DEF DescribesDay
  <1> QED BY <1>4 DEF more

\* Every day that is settled is among the stream's days, one event later.
LEMMA DaysKnown ==
  ASSUME NEW s, NEW t, NEW key, NEW events, IsList(events), NEW l,
         DescribesDays(s, key, events), DOMAIN s.days \subseteq DOMAIN t.days,
         l.action = "stream.settled" /\ l.key = key /\ Shown(l) => l.day \in DOMAIN t.days
  PROVE  KnowsDays(t, key, Append(events, l))
  <1> DEFINE more == Append(events, l)
  <1>1. /\ DOMAIN more = DOMAIN events \cup {Len(events) + 1} /\ more[Len(events) + 1] = l
        /\ \A j \in DOMAIN events : more[j] = events[j]
    BY OneMore
  <1> HIDE DEF more
  <1>2. KnowsDays(t, key, more)
    BY <1>1 DEF DescribesDays, KnowsDays
  <1> QED BY <1>2 DEF more

\* A settlement that is remembered is the latest of its day.
LEMMA SettlementKept ==
  ASSUME NEW s, IsStream(s), NEW l, NEW events, IsList(events),
         l.action = "stream.settled", Shown(l), l.day # None, l.supplement # None,
         DescribesDays(s, l.key, events)
  PROVE  DescribesDays(AfterSettlement(s, l), l.key, Append(events, l))
  <1> DEFINE t == AfterSettlement(s, l)
             more == Append(events, l)
             n == Len(events) + 1
             new == [supplement |-> l.supplement, seq |-> l.seq, hash |-> l.entry]
             S == Settlements(more, l.key, l.day)
  <1>1. t.days = Put(s.days, l.day, new)
    BY DEF AfterSettlement, IsStream, StreamFields
  <1>2. /\ DOMAIN t.days = DOMAIN s.days \cup {l.day} /\ t.days[l.day] = new
        /\ \A d \in DOMAIN s.days : d # l.day => t.days[d] = s.days[d]
    BY <1>1 DEF Put
  <1>3. n \in S /\ more[n] = l /\ n \in Nat /\ S \subseteq 1..n
    BY ListFacts, OneMore DEF Settlements
  <1>4. Latest(n, S)
    BY <1>3 DEF Latest
  <1> HIDE DEF t, more, n
  <1>5. ASSUME NEW d \in DOMAIN t.days PROVE DescribesDay(t, l.key, more, d)
    <2>1. CASE d = l.day
      BY <1>2, <1>3, <1>4, <2>1 DEF DescribesDay
    <2>2. CASE d # l.day
      <3>1. d \in DOMAIN s.days /\ t.days[d] = s.days[d]
        BY <1>2, <2>2
      <3>2. ~(l.action = "stream.settled" /\ l.key = l.key /\ Shown(l) /\ l.day = d)
        BY <2>2
      <3> QED BY <3>1, <3>2, OtherDay DEF more
    <2> QED BY <2>1, <2>2
  <1>6. KnowsDays(t, l.key, more)
    BY <1>2, DaysKnown DEF more
  <1>7. DescribesDays(t, l.key, more)
    BY <1>5, <1>6 DEF DescribesDays
  <1> QED BY <1>7 DEF t, more

\* What settles no day of a stream leaves its days described.
LEMMA DaysStay ==
  ASSUME NEW s, NEW t, NEW key, NEW events, IsList(events), NEW l,
         t.days = s.days, DescribesDays(s, key, events),
         ~(l.action = "stream.settled" /\ l.key = key /\ Shown(l))
  PROVE  DescribesDays(t, key, Append(events, l))
  <1>1. ASSUME NEW d \in DOMAIN t.days
        PROVE  DescribesDay(t, key, Append(events, l), d)
    BY OtherDay
  <1>2. KnowsDays(t, key, Append(events, l))
    BY DaysKnown
  <1> QED BY <1>1, <1>2 DEF DescribesDays

\* A settlement that is not reported follows the settlements the state describes.
LEMMA SettlementFollows ==
  ASSUME NEW s, NEW l, NEW events, IsList(events), NEW rangeFrom \in Int,
         IsEvent(l), l.action = "stream.settled",
         DescribesDays(s, l.key, events), ~SettlementProblem(s, l, rangeFrom)
  PROVE  FollowsSettlements(l, events, rangeFrom = 1)
  <1> DEFINE S == Settlements(events, l.key, l.day)
  <1>1. ~SupplementProblem(s, l, rangeFrom)
    BY DEF SettlementProblem
  <1>2. S \subseteq Int
    BY ListFacts DEF Settlements
  <1>3. CASE l.day \in DOMAIN s.days
    <2>1. PICK i \in S :
                 /\ Latest(i, S)
                 /\ s.days[l.day] = [supplement |-> events[i].supplement,
                                     seq |-> events[i].seq, hash |-> events[i].entry]
      BY <1>3 DEF DescribesDays, DescribesDay
    <2>2. /\ l.supplement = s.days[l.day].supplement + 1
          /\ l.previous = [sequence |-> s.days[l.day].seq, hash |-> s.days[l.day].hash]
      BY <1>1, <1>3 DEF SupplementProblem
    <2>3. /\ l.supplement = events[i].supplement + 1
          /\ l.previous = [sequence |-> events[i].seq, hash |-> events[i].entry]
      BY <2>1, <2>2
    <2>4. \A j \in S : Latest(j, S) => j = i
      BY <1>2, <2>1 DEF Latest
    <2> QED BY <2>1, <2>3, <2>4 DEF FollowsSettlements
  <1>4. CASE l.day \notin DOMAIN s.days
    <2>1. S = {}
      BY <1>4 DEF DescribesDays, KnowsDays, Settlements
    <2>2. ASSUME rangeFrom = 1, l.supplement # 0 PROVE l.previous.sequence < 1
      <3>1. /\ l.previous \notin {None, Malformed}
            /\ ~(l.previous.sequence >= rangeFrom)
        BY <1>1, <1>4, <2>2 DEF SupplementProblem
      <3>2. l.previous.sequence \in Int
        BY <3>1 DEF IsEvent
      <3> QED BY <2>2, <3>1, <3>2
    <2> QED BY <2>1, <2>2 DEF FollowsSettlements
  <1> QED BY <1>3, <1>4

\* A settlement that is not reported says what the chain before it says.
LEMMA SettlementChecked ==
  ASSUME NEW s, NEW l, NEW events, IsList(events),
         \A j \in DOMAIN events : IsEvent(events[j]) /\ events[j].entry # None,
         IsEvent(l), l.action = "stream.settled",
         DescribesReceipts(s, l.key, events, TRUE), DescribesGaps(s, l.key, events),
         ~SettlementProblem(s, l, 1)
  PROVE  TellsTheTruth(l, events)
  <1> DEFINE R == Receipts(events, l.key)
  <1>1. /\ l.count = s.receipts
        /\ s.lastHash # None => l.head = s.lastHash
        /\ s.lastHash = None => l.head = None
    BY DEF SettlementProblem, ReceiptsProblem
  <1>2. l.count = Cardinality(R) /\ (R = {} => l.head = None)
    BY <1>1 DEF DescribesReceipts
  <1>3. \A j \in R : Latest(j, R) => l.head = events[j].entry
    <2>1. SUFFICES ASSUME NEW j \in R, Latest(j, R) PROVE l.head = events[j].entry
      OBVIOUS
    <2>2. PICK i \in R : Latest(i, R) /\ HeadIs(s, events[i])
      BY DEF DescribesReceipts
    <2>3. i = j /\ i \in DOMAIN events
      BY <2>1, <2>2, ListFacts DEF Latest, Receipts
    <2> QED BY <1>1, <2>2, <2>3 DEF HeadIs
  <1>4. ASSUME NEW k \in DOMAIN l.gaps
        PROVE  /\ \E j \in GapEvents(events, l.key, "stream.gap", l.gaps[k].gap) :
                    events[j].bounds = l.gaps[k].bounds
               /\ l.gaps[k].healed <=>
                    GapEvents(events, l.key, "stream.gap_healed", l.gaps[k].gap) # {}
               /\ l.gaps[k].gap # None /\ l.gaps[k].healed \in BOOLEAN
    <2> DEFINE g == l.gaps[k].gap
    <2>1. ~ListedProblem(s, l.gaps[k], TRUE)
      BY DEF SettlementProblem
    <2>2. /\ g # None /\ l.gaps[k].healed \in BOOLEAN /\ g \in DOMAIN s.gaps
          /\ s.gaps[g].bounds \in {None, l.gaps[k].bounds}
      BY <2>1 DEF ListedProblem
    <2>3. s.gaps[g].healed = (l.gaps[k].healed = TRUE)
      BY <2>1, <2>2 DEF ListedProblem
    <2> HIDE DEF g
    <2>4. DescribesGap(s, l.key, events, g)
      BY <2>2 DEF DescribesGaps
    <2>5. PICK j \in GapEvents(events, l.key, "stream.gap", g) :
                 events[j].bounds = s.gaps[g].bounds
      BY <2>4 DEF DescribesGap
    <2>6. events[j].bounds # None
      BY <2>5 DEF GapEvents, IsEvent
    <2>7. events[j].bounds = l.gaps[k].bounds
      BY <2>2, <2>5, <2>6
    <2>8. l.gaps[k].healed <=> GapEvents(events, l.key, "stream.gap_healed", g) # {}
      BY <2>2, <2>3, <2>4 DEF DescribesGap
    <2> QED BY <2>2, <2>5, <2>7, <2>8 DEF g
  <1>5. l.state = "settled" <=> \A k \in DOMAIN l.gaps : l.gaps[k].healed
    <2>1. l.state # None /\ l.state \in {None, "settled", "gapped"}
          /\ (l.state = "gapped" <=> ListsUnhealed(l))
      BY DEF SettlementProblem, IsEvent
    <2>2. ListsUnhealed(l) <=> \E k \in DOMAIN l.gaps : ~l.gaps[k].healed
      BY <1>4 DEF ListsUnhealed
    <2> QED BY <2>1, <2>2
  <1> QED BY <1>2, <1>3, <1>4, <1>5 DEF TellsTheTruth
-----------------------------------------------------------------------------
(* The pass.                                                               *)

\* A stream's state keeps its fields, whatever the record.
LEMMA StreamType ==
  ASSUME NEW s, IsStream(s), NEW rangeFrom,
         NEW l, l.action \in Actions, l.payload \in {"object", None, Malformed}
  PROVE  IsStream(AfterRecord(s, l, rangeFrom))
  <1>1. IsStream(AfterRedacted(s, l))
    BY DEF IsStream, StreamFields, AfterRedacted
  <1>2. IsStream(AfterConfig(s, l))
    BY DEF IsStream, StreamFields, AfterConfig
  <1>3. IsStream(AfterReceipt(s, l))
    BY DEF IsStream, StreamFields, AfterReceipt
  <1>4. IsStream(AfterSettlement(s, l))
    BY DEF IsStream, StreamFields, AfterSettlement
  <1>5. ASSUME NEW gaps, \A g \in DOMAIN gaps : IsGap(gaps[g])
        PROVE  IsStream([s EXCEPT !.gaps = gaps])
    BY <1>5 DEF IsStream, StreamFields
  <1>6. ASSUME NEW g, NEW gap, IsGap(gap)
        PROVE  IsStream([s EXCEPT !.gaps = Put(s.gaps, g, gap)])
    <2>1. \A x \in DOMAIN Put(s.gaps, g, gap) : IsGap(Put(s.gaps, g, gap)[x])
      BY <1>6 DEF Put, IsStream
    <2> QED BY <1>5, <2>1
  <1>7. IsStream(AfterGap(s, l))
    <2>1. IsGap([bounds |-> l.bounds, healed |-> FALSE])
      BY DEF IsGap
    <2> QED BY <1>6, <2>1 DEF AfterGap
  <1>8. IsStream(AfterHeal(s, l, rangeFrom = 1))
    <2>1. IsGap([bounds |-> None, healed |-> TRUE])
      BY DEF IsGap
    <2>2. ASSUME l.gap \in DOMAIN s.gaps PROVE IsStream([s EXCEPT !.gaps[l.gap].healed = TRUE])
      <3> DEFINE gaps == [s.gaps EXCEPT ![l.gap].healed = TRUE]
      <3>1. \A x \in DOMAIN gaps : IsGap(gaps[x])
        BY <2>2 DEF IsStream, IsGap
      <3> HIDE DEF gaps
      <3>2. IsStream([s EXCEPT !.gaps = gaps])
        BY <1>5, <3>1
      <3> QED BY <3>2 DEF gaps
    <2> QED BY <1>6, <2>1, <2>2 DEF AfterHeal
  <1> QED BY <1>1, <1>2, <1>3, <1>4, <1>7, <1>8, CollectionAssumption
          DEF AfterRecord, Actions

\* A stream that has no record yet has nothing to describe.
LEMMA NewDescribes ==
  ASSUME NEW key, NEW events, IsList(events), NEW anchored \in BOOLEAN,
         \A j \in DOMAIN events : IsEvent(events[j]) /\ (IsRecord(events[j]) => events[j].key # key)
  PROVE  IsStream(NewStream) /\ Describes(NewStream, key, events, anchored)
  <1>1. Receipts(events, key) = {} /\ Cardinality({}) = 0
    BY FS_EmptySet DEF Receipts, IsRecord
  <1>2. DescribesReceipts(NewStream, key, events, anchored)
    BY <1>1 DEF DescribesReceipts, NewStream
  <1>3. DOMAIN NewStream.gaps = {} /\ DOMAIN NewStream.days = {}
    BY DEF NewStream
  <1>4. DescribesGaps(NewStream, key, events)
    BY <1>3 DEF DescribesGaps, KnowsGaps, IsRecord
  <1>5. DescribesDays(NewStream, key, events)
    BY <1>3 DEF DescribesDays, KnowsDays, IsRecord
  <1>6. IsStream(NewStream)
    BY DEF IsStream, StreamFields, NewStream
  <1> QED BY <1>2, <1>4, <1>5, <1>6 DEF Describes

\* A record of another stream, or no record, leaves a stream described.
LEMMA OthersDescribed ==
  ASSUME NEW s, NEW key, NEW events, IsList(events), NEW anchored \in BOOLEAN,
         Describes(s, key, events, anchored), NEW l, IsRecord(l) => l.key # key
  PROVE  Describes(s, key, Append(events, l), anchored)
  <1>1. l.action \in {"collection.receipt", "stream.gap", "stream.gap_healed", "stream.settled"}
          => l.key # key
    BY DEF IsRecord
  <1>2. DescribesReceipts(s, key, Append(events, l), anchored)
    BY <1>1, ReceiptsStay DEF Describes
  <1>3. anchored => DescribesGaps(s, key, Append(events, l))
    BY <1>1, GapsStay DEF Describes
  <1>4. DescribesDays(s, key, Append(events, l))
    BY <1>1, DaysStay DEF Describes
  <1> QED BY <1>2, <1>3, <1>4 DEF Describes

\* What a record without a payload leaves behind describes one event more.
LEMMA RedactedDescribed ==
  ASSUME NEW s, IsStream(s), NEW events, IsList(events), NEW anchored \in BOOLEAN,
         NEW l, ~Shown(l), Describes(s, l.key, events, anchored)
  PROVE  Describes(AfterRedacted(s, l), l.key, Append(events, l), anchored)
  <1>1. CASE l.action = "collection.receipt"
    <2> DEFINE t == AfterRedacted(s, l)
    <2>1. t.gaps = s.gaps /\ t.days = s.days
      BY <1>1 DEF AfterRedacted, IsStream, StreamFields
    <2>2. DescribesReceipts(t, l.key, Append(events, l), anchored)
      BY <1>1, ReceiptKept DEF Describes
    <2> HIDE DEF t
    <2>3. anchored => DescribesGaps(t, l.key, Append(events, l))
      BY <2>1, GapsStay DEF Describes
    <2>4. DescribesDays(t, l.key, Append(events, l))
      BY <2>1, DaysStay DEF Describes
    <2>5. Describes(t, l.key, Append(events, l), anchored)
      BY <2>2, <2>3, <2>4 DEF Describes
    <2> QED BY <2>5 DEF t
  <1>2. CASE l.action # "collection.receipt"
    <2>1. DescribesReceipts(s, l.key, Append(events, l), anchored)
      BY <1>2, ReceiptsStay DEF Describes
    <2>2. anchored => DescribesGaps(s, l.key, Append(events, l))
      BY GapsStay DEF Describes
    <2>3. DescribesDays(s, l.key, Append(events, l))
      BY DaysStay DEF Describes
    <2>4. Describes(s, l.key, Append(events, l), anchored)
      BY <2>1, <2>2, <2>3 DEF Describes
    <2> QED BY <1>2, <2>4 DEF AfterRedacted
  <1> QED BY <1>1, <1>2

\* The three parts of a description, for an event that concerns at most one.
LEMMA AppendedDescribed ==
  ASSUME NEW s, NEW t, NEW events, IsList(events), NEW anchored \in BOOLEAN, NEW l,
         Describes(s, l.key, events, anchored),
         \/ DescribesReceipts(t, l.key, Append(events, l), anchored)
         \/ /\ l.action # "collection.receipt"
            /\ t.receipts = s.receipts /\ t.lastHash = s.lastHash
            /\ t.lastIndex = s.lastIndex /\ t.indexKnown = s.indexKnown
            /\ t.lastCursor = s.lastCursor /\ t.cursorKnown = s.cursorKnown,
         \/ anchored => DescribesGaps(t, l.key, Append(events, l))
         \/ l.action \notin {"stream.gap", "stream.gap_healed"} /\ t.gaps = s.gaps,
         \/ DescribesDays(t, l.key, Append(events, l))
         \/ l.action # "stream.settled" /\ t.days = s.days
  PROVE  Describes(t, l.key, Append(events, l), anchored)
  <1>1. DescribesReceipts(t, l.key, Append(events, l), anchored)
    BY ReceiptsStay DEF Describes
  <1>2. anchored => DescribesGaps(t, l.key, Append(events, l))
    BY GapsStay DEF Describes
  <1>3. DescribesDays(t, l.key, Append(events, l))
    BY DaysStay DEF Describes
  <1> QED BY <1>1, <1>2, <1>3 DEF Describes

\* A record that is shown and not reported follows what is described, and what is
\* remembered of it describes one event more.
LEMMA ShownDescribed ==
  ASSUME NEW s, IsStream(s), NEW events, IsList(events), NEW rangeFrom \in Int,
         NEW l, IsEvent(l), IsRecord(l), Shown(l),
         \A j \in DOMAIN events : IsEvent(events[j]) /\ events[j].entry # None,
         Describes(s, l.key, events, rangeFrom = 1), ~RecordProblem(s, l, rangeFrom)
  PROVE  /\ Describes(AfterRecord(s, l, rangeFrom), l.key, Append(events, l), rangeFrom = 1)
         /\ l.action = "collection.receipt" => FollowsReceipts(l, events, rangeFrom = 1)
         /\ l.action = "stream.settled" =>
              /\ FollowsSettlements(l, events, rangeFrom = 1)
              /\ rangeFrom = 1 => TellsTheTruth(l, events)
  <1> DEFINE anchored == rangeFrom = 1
  <1>1. anchored \in BOOLEAN /\ l.payload = "object" /\ l.payload \notin {None, Malformed}
    BY CollectionAssumption DEF Shown
  <1>2. l.action \in Actions
    BY DEF IsEvent
  <1>3. CASE l.action = "stream.config"
    <2> DEFINE t == AfterConfig(s, l)
    <2>1. AfterRecord(s, l, rangeFrom) = t
      BY <1>1, <1>3 DEF AfterRecord
    <2>2. /\ t.receipts = s.receipts /\ t.lastHash = s.lastHash
          /\ t.lastIndex = s.lastIndex /\ t.indexKnown = s.indexKnown
          /\ t.lastCursor = s.lastCursor /\ t.cursorKnown = s.cursorKnown
          /\ t.gaps = s.gaps /\ t.days = s.days
      BY DEF AfterConfig, IsStream, StreamFields
    <2> HIDE DEF t
    <2>3. Describes(t, l.key, Append(events, l), anchored)
      BY <1>1, <1>3, <2>2, AppendedDescribed
    <2> QED BY <1>3, <2>1, <2>3
  <1>4. CASE l.action = "collection.receipt"
    <2> DEFINE t == AfterReceipt(s, l)
    <2>1. AfterRecord(s, l, rangeFrom) = t /\ ~ReceiptProblem(s, l, anchored)
      BY <1>1, <1>4 DEF AfterRecord, RecordProblem
    <2>2. FollowsReceipts(l, events, anchored)
      BY <1>1, <2>1, ReceiptChecked DEF Describes
    <2>3. DescribesReceipts(t, l.key, Append(events, l), anchored)
      BY <1>1, <1>4, <2>1, <2>2, ReceiptKept DEF Describes
    <2>4. t.gaps = s.gaps /\ t.days = s.days
      BY DEF AfterReceipt, IsStream, StreamFields
    <2> HIDE DEF t
    <2>5. Describes(t, l.key, Append(events, l), anchored)
      BY <1>1, <1>4, <2>3, <2>4, AppendedDescribed
    <2> QED BY <1>4, <2>1, <2>2, <2>5
  <1>5. CASE l.action = "stream.gap"
    <2> DEFINE t == AfterGap(s, l)
    <2>1. AfterRecord(s, l, rangeFrom) = t /\ ~GapProblem(s, l, anchored)
      BY <1>1, <1>5 DEF AfterRecord, RecordProblem
    <2>2. anchored => DescribesGaps(t, l.key, Append(events, l))
      BY <1>5, <2>1, GapKept DEF Describes
    <2>3. /\ t.receipts = s.receipts /\ t.lastHash = s.lastHash
          /\ t.lastIndex = s.lastIndex /\ t.indexKnown = s.indexKnown
          /\ t.lastCursor = s.lastCursor /\ t.cursorKnown = s.cursorKnown
          /\ t.days = s.days
      BY DEF AfterGap, IsStream, StreamFields
    <2> HIDE DEF t
    <2>4. Describes(t, l.key, Append(events, l), anchored)
      BY <1>1, <1>5, <2>2, <2>3, AppendedDescribed
    <2> QED BY <1>5, <2>1, <2>4
  <1>6. CASE l.action = "stream.gap_healed"
    <2> DEFINE t == AfterHeal(s, l, anchored)
    <2>1. AfterRecord(s, l, rangeFrom) = t /\ ~HealProblem(s, l, anchored)
      BY <1>1, <1>6 DEF AfterRecord, RecordProblem
    <2>2. anchored => DescribesGaps(t, l.key, Append(events, l))
      BY <1>6, <2>1, HealKept DEF Describes
    <2>3. /\ t.receipts = s.receipts /\ t.lastHash = s.lastHash
          /\ t.lastIndex = s.lastIndex /\ t.indexKnown = s.indexKnown
          /\ t.lastCursor = s.lastCursor /\ t.cursorKnown = s.cursorKnown
          /\ t.days = s.days
      BY DEF AfterHeal, IsStream, StreamFields
    <2> HIDE DEF t
    <2>4. Describes(t, l.key, Append(events, l), anchored)
      BY <1>1, <1>6, <2>2, <2>3, AppendedDescribed
    <2> QED BY <1>6, <2>1, <2>4
  <1>7. CASE l.action = "stream.settled"
    <2> DEFINE t == AfterSettlement(s, l)
    <2>1. AfterRecord(s, l, rangeFrom) = t /\ ~SettlementProblem(s, l, rangeFrom)
      BY <1>1, <1>7 DEF AfterRecord, RecordProblem
    <2>2. l.day # None /\ l.supplement # None
      BY <2>1 DEF SettlementProblem
    <2>3. FollowsSettlements(l, events, anchored)
      BY <1>7, <2>1, SettlementFollows DEF Describes
    <2>4. anchored => TellsTheTruth(l, events)
      <3> SUFFICES ASSUME rangeFrom = 1 PROVE TellsTheTruth(l, events)
        OBVIOUS
      <3>1. /\ DescribesReceipts(s, l.key, events, TRUE) /\ DescribesGaps(s, l.key, events)
            /\ ~SettlementProblem(s, l, 1)
        BY <2>1 DEF Describes
      <3> QED BY <1>7, <3>1, SettlementChecked
    <2>5. DescribesDays(t, l.key, Append(events, l))
      BY <1>7, <2>2, SettlementKept DEF Describes
    <2>6. /\ t.receipts = s.receipts /\ t.lastHash = s.lastHash
          /\ t.lastIndex = s.lastIndex /\ t.indexKnown = s.indexKnown
          /\ t.lastCursor = s.lastCursor /\ t.cursorKnown = s.cursorKnown
          /\ t.gaps = s.gaps
      BY DEF AfterSettlement, IsStream, StreamFields
    <2> HIDE DEF t
    <2>7. Describes(t, l.key, Append(events, l), anchored)
      BY <1>1, <1>7, <2>5, <2>6, AppendedDescribed
    <2> QED BY <1>7, <2>1, <2>3, <2>4, <2>7
  <1> QED BY <1>2, <1>3, <1>4, <1>5, <1>6, <1>7 DEF Actions
-----------------------------------------------------------------------------
CollectionInv ==
  /\ PassTypeOK /\ StreamsInv
  /\ ReceiptsAreOneChain /\ SettlementsTellTheTruth /\ SupplementsAreOneChain

\* What the properties say of an event l after the events given.
Follows(l, events, anchored) ==
  /\ l.action = "collection.receipt" /\ Shown(l) => FollowsReceipts(l, events, anchored)
  /\ l.action = "stream.settled" /\ Shown(l) =>
       /\ FollowsSettlements(l, events, anchored)
       /\ anchored => TellsTheTruth(l, events)

LEMMA PropertiesTogether ==
  ReceiptsAreOneChain /\ SettlementsTellTheTruth /\ SupplementsAreOneChain
    <=> (Clean => \A i \in DOMAIN seen : Follows(seen[i], Before(i), Anchored))
  BY DEF ReceiptsAreOneChain, SettlementsTellTheTruth, SupplementsAreOneChain, Follows

\* An event that follows the events before it keeps the properties.
LEMMA PropertiesKept ==
  ASSUME CollectionInv, NEW r, seen' = Append(seen, r), UNCHANGED export,
         Clean' => Clean /\ Follows(r, seen, Anchored)
  PROVE  (ReceiptsAreOneChain /\ SettlementsTellTheTruth /\ SupplementsAreOneChain)'
  <1>1. IsList(seen)
    BY DEF CollectionInv, PassTypeOK
  <1>2. /\ Len(seen) \in Nat /\ DOMAIN seen = 1..Len(seen)
        /\ DOMAIN seen' = 1..(Len(seen) + 1) /\ seen'[Len(seen) + 1] = r
        /\ \A i \in 1..Len(seen) : seen'[i] = seen[i]
    BY <1>1, OneMore
  <1>3. \A i \in 1..Len(seen) : SubSeq(seen', 1, i - 1) = Before(i)
    BY <1>1, SameBefore DEF Before
  <1>4. SubSeq(seen', 1, (Len(seen) + 1) - 1) = seen
    BY <1>1, <1>2, SameBefore
  <1>5. Anchored' = Anchored
    BY DEF Anchored
  <1>6. ASSUME Clean', NEW i \in DOMAIN seen'
        PROVE  Follows(seen'[i], SubSeq(seen', 1, i - 1), Anchored)
    <2>1. CASE i \in 1..Len(seen)
      <3>1. Follows(seen[i], Before(i), Anchored)
        BY <1>2, <1>6, <2>1, PropertiesTogether DEF CollectionInv
      <3> QED BY <1>2, <1>3, <2>1, <3>1
    <2>2. CASE i = Len(seen) + 1
      BY <1>2, <1>4, <1>6, <2>2
    <2> QED BY <1>2, <2>1, <2>2
  <1>7. (Clean => \A i \in DOMAIN seen : Follows(seen[i], Before(i), Anchored))'
    BY <1>5, <1>6 DEF Before
  <1>8. (ReceiptsAreOneChain /\ SettlementsTellTheTruth /\ SupplementsAreOneChain
           <=> (Clean => \A i \in DOMAIN seen : Follows(seen[i], Before(i), Anchored)))'
    BY PropertiesTogether, PTL
  <1> QED BY <1>7, <1>8

\* The stream of a record, known or new, is as the events before describe it.
LEMMA StreamDescribed ==
  ASSUME CollectionInv, NEW key
  PROVE  /\ IsStream(StreamOf(streams, key))
         /\ Clean => Describes(StreamOf(streams, key), key, seen, Anchored)
  <1>1. CASE key \in DOMAIN streams
    BY <1>1 DEF CollectionInv, PassTypeOK, StreamsInv, StreamOf
  <1>2. CASE key \notin DOMAIN streams
    <2>1. \A j \in DOMAIN seen :
            IsEvent(seen[j]) /\ (IsRecord(seen[j]) => seen[j].key # key)
      BY <1>2 DEF CollectionInv, PassTypeOK
    <2>2. IsList(seen) /\ Anchored \in BOOLEAN
      BY DEF CollectionInv, PassTypeOK, Anchored
    <2>3. IsStream(NewStream) /\ Describes(NewStream, key, seen, Anchored)
      BY <2>1, <2>2, NewDescribes
    <2> QED BY <1>2, <2>3 DEF StreamOf
  <1> QED BY <1>1, <1>2

LEMMA InitCollectionInv ==
  ASSUME Init PROVE CollectionInv
  <1>1. seen = <<>> /\ DOMAIN seen = {} /\ streams = <<>> /\ DOMAIN streams = {}
    BY DEF Init
  <1>2. IsList(seen)
    BY <1>1 DEF IsList
  <1>3. NewResults \in Verdicts /\ "content_integrity" \in Results
    BY DEF NewResults, Verdicts, States, Results
  <1>4. results \in Verdicts
    BY <1>3, FailIfType DEF Init
  <1>5. PassTypeOK /\ StreamsInv
    BY <1>1, <1>2, <1>4 DEF PassTypeOK, StreamsInv, Init
  <1> QED BY <1>1, <1>5 DEF CollectionInv, ReceiptsAreOneChain, SettlementsTellTheTruth,
                            SupplementsAreOneChain

\* An event that is read keeps what does not depend on the verdict.
LEMMA TypeKept ==
  ASSUME PassTypeOK, NEW l \in export.records, seen' = Append(seen, Placed(l)),
         UNCHANGED export, results' \in Verdicts,
         DOMAIN streams \subseteq DOMAIN streams',
         IsRecord(l) => l.key \in DOMAIN streams',
         \A key \in DOMAIN streams' : IsStream(streams'[key])
  PROVE  PassTypeOK'
  <1> DEFINE r == Placed(l)
  <1>1. /\ IsEvent(r) /\ (IsRecord(r) <=> IsRecord(l)) /\ (IsRecord(l) => r.key = l.key)
        /\ r.entry = export.rangeFrom + Len(seen)
    BY PlacedEvent DEF PassTypeOK
  <1>2. /\ Len(seen) \in Nat /\ DOMAIN seen = 1..Len(seen)
        /\ DOMAIN seen' = 1..(Len(seen) + 1) /\ seen'[Len(seen) + 1] = r
        /\ \A i \in 1..Len(seen) : seen'[i] = seen[i]
        /\ IsList(seen')
    BY OneMore DEF PassTypeOK
  <1>3. r.entry # None
    BY <1>1, <1>2, CollectionAssumption DEF PassTypeOK
  <1> HIDE DEF r
  <1>4. ASSUME NEW i \in DOMAIN seen'
        PROVE  /\ IsEvent(seen'[i]) /\ seen'[i].entry # None
               /\ IsRecord(seen'[i]) => seen'[i].key \in DOMAIN streams'
    <2>1. CASE i \in 1..Len(seen)
      BY <1>2, <2>1 DEF PassTypeOK
    <2>2. CASE i = Len(seen) + 1
      BY <1>1, <1>2, <1>3, <2>2
    <2> QED BY <1>2, <2>1, <2>2
  <1> QED BY <1>2, <1>4 DEF PassTypeOK

LEMMA OtherKeepsInv ==
  ASSUME CollectionInv, NEW l \in export.records, PassOther(l)
  PROVE  CollectionInv'
  <1> DEFINE r == Placed(l)
  <1>1. /\ seen' = Append(seen, r) /\ UNCHANGED <<export, results, streams>>
        /\ ~IsRecord(r) /\ Clean' = Clean /\ Anchored' = Anchored
    BY PlacedEvent DEF PassOther, CollectionInv, PassTypeOK, Clean, Anchored
  <1>2. PassTypeOK'
    BY <1>1, TypeKept DEF CollectionInv, PassTypeOK, PassOther
  <1> HIDE DEF r
  <1>3. Follows(r, seen, Anchored)
    BY <1>1 DEF Follows, IsRecord
  <1>4. (ReceiptsAreOneChain /\ SettlementsTellTheTruth /\ SupplementsAreOneChain)'
    BY <1>1, <1>3, PropertiesKept
  <1>5. ASSUME Clean, NEW key \in DOMAIN streams
        PROVE  Describes(streams[key], key, Append(seen, r), Anchored)
    <2>1. Describes(streams[key], key, seen, Anchored) /\ IsList(seen) /\ Anchored \in BOOLEAN
      BY <1>5 DEF CollectionInv, StreamsInv, PassTypeOK, Anchored
    <2> QED BY <1>1, <2>1, OthersDescribed
  <1>6. StreamsInv'
    BY <1>1, <1>5 DEF StreamsInv
  <1> QED BY <1>2, <1>4, <1>6 DEF CollectionInv

LEMMA RecordKeepsInv ==
  ASSUME CollectionInv, NEW l \in export.records, PassRecord(l)
  PROVE  CollectionInv'
  <1> DEFINE r == Placed(l)
             s == StreamOf(streams, l.key)
             t == AfterRecord(s, r, export.rangeFrom)
             problem == RecordProblem(s, r, export.rangeFrom)
  <1>1. /\ seen' = Append(seen, r) /\ UNCHANGED export
        /\ streams' = Put(streams, l.key, t)
        /\ results' = FailIf(problem, results, "content_integrity")
        /\ Anchored' = Anchored
    BY DEF PassRecord, Anchored
  <1>2. IsEvent(r) /\ IsRecord(r) /\ r.key = l.key
    BY PlacedEvent DEF PassRecord, CollectionInv, PassTypeOK
  <1>3. IsStream(s) /\ (Clean => Describes(s, l.key, seen, Anchored))
    BY StreamDescribed
  <1>4. export.rangeFrom \in Int
    BY CollectionAssumption DEF CollectionInv, PassTypeOK
  <1>5. results \in Verdicts /\ "content_integrity" \in Results
    BY DEF CollectionInv, PassTypeOK, Results
  <1> HIDE DEF r, s, problem
  <1>6. results' \in Verdicts /\ (Clean' => Clean /\ ~problem)
    BY <1>1, <1>5, FailIfType, FailIfPasses DEF Clean
  <1>7. IsStream(t)
    <2>1. r.action \in Actions /\ r.payload \in {"object", None, Malformed}
      BY <1>2 DEF IsEvent
    <2> QED BY <1>3, <2>1, StreamType
  <1> HIDE DEF t
  <1>8. /\ DOMAIN streams' = DOMAIN streams \cup {l.key} /\ streams'[l.key] = t
        /\ \A key \in DOMAIN streams : key # l.key => streams'[key] = streams[key]
    BY <1>1 DEF Put
  <1>9. PassTypeOK'
    <2>1. \A key \in DOMAIN streams' : IsStream(streams'[key])
      BY <1>7, <1>8 DEF CollectionInv, PassTypeOK
    <2>2. DOMAIN streams \subseteq DOMAIN streams' /\ l.key \in DOMAIN streams'
      BY <1>8
    <2> QED BY <1>1, <1>6, <2>1, <2>2, TypeKept DEF CollectionInv, r
  <1>10. /\ IsList(seen) /\ Anchored \in BOOLEAN
         /\ \A j \in DOMAIN seen : IsEvent(seen[j]) /\ seen[j].entry # None
    BY DEF CollectionInv, PassTypeOK, Anchored
  <1>11. ASSUME Clean'
         PROVE  Describes(t, l.key, Append(seen, r), Anchored) /\ Follows(r, seen, Anchored)
    <2>1. ~RecordProblem(s, r, export.rangeFrom) /\ Describes(s, r.key, seen, export.rangeFrom = 1)
      BY <1>2, <1>3, <1>6, <1>11 DEF problem, Anchored
    <2>2. CASE Shown(r)
      <3>1. /\ Describes(AfterRecord(s, r, export.rangeFrom), r.key, Append(seen, r),
                         export.rangeFrom = 1)
            /\ r.action = "collection.receipt" => FollowsReceipts(r, seen, export.rangeFrom = 1)
            /\ r.action = "stream.settled" =>
                 /\ FollowsSettlements(r, seen, export.rangeFrom = 1)
                 /\ export.rangeFrom = 1 => TellsTheTruth(r, seen)
        BY <1>2, <1>3, <1>4, <1>10, <2>1, <2>2, ShownDescribed
      <3> QED BY <1>2, <3>1 DEF t, Anchored, Follows
    <2>3. CASE ~Shown(r)
      <3>1. r.payload = None
        BY <1>2, <2>1, <2>3 DEF RecordProblem, IsEvent, Shown
      <3>2. t = AfterRedacted(s, r)
        BY <3>1, CollectionAssumption DEF t, AfterRecord
      <3>3. Describes(AfterRedacted(s, r), r.key, Append(seen, r), Anchored)
        BY <1>3, <1>10, <2>1, <2>3, RedactedDescribed DEF Anchored
      <3>4. Follows(r, seen, Anchored)
        BY <2>3 DEF Follows
      <3> QED BY <1>2, <3>2, <3>3, <3>4
    <2> QED BY <2>2, <2>3
  <1>12. (ReceiptsAreOneChain /\ SettlementsTellTheTruth /\ SupplementsAreOneChain)'
    BY <1>1, <1>6, <1>11, PropertiesKept
  <1>13. ASSUME Clean', NEW key \in DOMAIN streams'
         PROVE  Describes(streams'[key], key, Append(seen, r), Anchored)
    <2>1. CASE key = l.key
      BY <1>8, <1>11, <1>13, <2>1
    <2>2. CASE key # l.key
      <3>1. key \in DOMAIN streams /\ streams'[key] = streams[key]
        BY <1>8, <2>2
      <3>2. Describes(streams[key], key, seen, Anchored)
        BY <1>6, <1>13, <3>1 DEF CollectionInv, StreamsInv
      <3> QED BY <1>2, <1>10, <2>2, <3>1, <3>2, OthersDescribed
    <2> QED BY <2>1, <2>2
  <1>14. StreamsInv'
    BY <1>1, <1>13 DEF StreamsInv
  <1> QED BY <1>9, <1>12, <1>14 DEF CollectionInv

LEMMA NextCollectionInv ==
  CollectionInv /\ [Next]_vars => CollectionInv'
  <1> SUFFICES ASSUME CollectionInv, [Next]_vars PROVE CollectionInv'
    OBVIOUS
  <1>1. ASSUME UNCHANGED <<export, streams, seen>>, results' \in Verdicts, Clean' => Clean
        PROVE  CollectionInv'
    <2>1. PassTypeOK'
      BY <1>1 DEF CollectionInv, PassTypeOK
    <2>2. StreamsInv'
      BY <1>1 DEF CollectionInv, StreamsInv, Anchored
    <2>3. ReceiptsAreOneChain'
      BY <1>1 DEF CollectionInv, ReceiptsAreOneChain, Anchored, Before
    <2>4. SettlementsTellTheTruth'
      BY <1>1 DEF CollectionInv, SettlementsTellTheTruth, Anchored, Before
    <2>5. SupplementsAreOneChain'
      BY <1>1 DEF CollectionInv, SupplementsAreOneChain, Anchored, Before
    <2> QED BY <2>1, <2>2, <2>3, <2>4, <2>5 DEF CollectionInv
  <1>2. CASE \E l \in export.records : PassOther(l) \/ PassRecord(l)
    BY <1>2, OtherKeepsInv, RecordKeepsInv
  <1>3. CASE EndRecords
    <2> DEFINE problem == ConnectionProblem(export.connection, streams, export.rangeFrom)
    <2>1. /\ UNCHANGED <<export, streams, seen>>
          /\ results' = FailIf(problem, results, "content_integrity")
      BY <1>3 DEF EndRecords
    <2>2. results \in Verdicts /\ "content_integrity" \in Results
      BY DEF CollectionInv, PassTypeOK, Results
    <2> HIDE DEF problem
    <2>3. results' \in Verdicts /\ (Clean' => Clean)
      BY <2>1, <2>2, FailIfType, FailIfPasses DEF Clean
    <2> QED BY <1>1, <2>1, <2>3
  <1>4. CASE ReadFails \/ UNCHANGED vars
    <2>1. UNCHANGED <<export, streams, seen, results>>
      BY <1>4 DEF ReadFails, vars
    <2>2. results' \in Verdicts /\ (Clean' => Clean)
      BY <2>1 DEF CollectionInv, PassTypeOK, Clean
    <2> QED BY <1>1, <2>1, <2>2
  <1> QED BY <1>2, <1>3, <1>4 DEF Next

\* While content integrity stands, the state kept of every stream (its head, its
\* number of receipts, its gaps, its days: collectionStream of collection.go) is
\* what the events read so far say.
THEOREM CollectionInvariant == Spec => []CollectionInv
  <1>1. Init => CollectionInv
    BY InitCollectionInv
  <1> QED BY <1>1, NextCollectionInv, PTL DEF Spec

\* "A receipt is missing or repeated" (collection.go): in every file that passes
\* the receipts of each stream are one chain without a hole.
THEOREM ReceiptsChained == Spec => []ReceiptsAreOneChain
  <1>1. CollectionInv => ReceiptsAreOneChain
    BY DEF CollectionInv
  <1> QED BY <1>1, CollectionInvariant, PTL

\* "The chain says otherwise" (collection.go): what a settlement that passes says
\* of the receipts and the gaps before it is so.
THEOREM SettlementsTrue == Spec => []SettlementsTellTheTruth
  <1>1. CollectionInv => SettlementsTellTheTruth
    BY DEF CollectionInv
  <1> QED BY <1>1, CollectionInvariant, PTL

\* "Does not follow the previous settlement in the chain" (collection.go): the
\* settlements of a day that pass are one chain.
THEOREM SupplementsChained == Spec => []SupplementsAreOneChain
  <1>1. CollectionInv => SupplementsAreOneChain
    BY DEF CollectionInv
  <1> QED BY <1>1, CollectionInvariant, PTL
-----------------------------------------------------------------------------
(* A stream kept as it should be: each record against those before it.     *)

\* The places up to n whose events are of one kind, and what they name.
To(e, n, action) == {j \in 1..n : e[j].action = action}
DeclaresTo(e, n, gap) == {j \in To(e, n, "stream.gap") : e[j].gap = gap}
HealsTo(e, n, gap) == {j \in To(e, n, "stream.gap_healed") : e[j].gap = gap}
SettlesTo(e, n, day) == {j \in To(e, n, "stream.settled") : e[j].day = day}
ReceiptsTo(e, n) == To(e, n, "collection.receipt")

HeadTo(e, n) == IF ReceiptsTo(e, n) = {} THEN ZeroHash ELSE LastOf(ReceiptsTo(e, n))

CommonFields == {"action", "seq", "entry", "key", "payload", "sound"}

\* What every event is, and what the connection says in one of each kind.
IsEmitted(e, i) ==
  /\ CommonFields \subseteq DOMAIN e[i]
  /\ e[i].action \in Actions
  /\ e[i].seq = i /\ e[i].entry = i /\ e[i].key = "a" /\ e[i].sound = TRUE
  /\ e[i].payload \in {"object", None}
  /\ e[i].payload = None => e[i].action = "collection.receipt"
  /\ e[i].action # "stream.config" => To(e, i - 1, "stream.config") # {}

IsHonestConfig(e, i) == e[i].records_stream = "r"

IsHonestReceipt(e, i) ==
  /\ {"index", "prev", "cursor_before", "cursor_after"} \subseteq DOMAIN e[i]
  /\ e[i].index = Cardinality(ReceiptsTo(e, i - 1)) + 1
  /\ e[i].prev = HeadTo(e, i - 1)
  /\ e[i].cursor_before = IF ReceiptsTo(e, i - 1) = {} THEN 0
                          ELSE e[LastOf(ReceiptsTo(e, i - 1))].cursor_after
  /\ e[i].cursor_after \in Int \cup {None}

IsHonestGap(e, i) ==
  /\ e[i].gap # None /\ e[i].bounds = e[i].gap
  /\ DeclaresTo(e, i - 1, e[i].gap) = {} /\ HealsTo(e, i - 1, e[i].gap) = {}
  /\ e[i].after = HeadTo(e, i - 1)

IsHonestHeal(e, i) == e[i].gap # None /\ DeclaresTo(e, i - 1, e[i].gap) # {}

ListsGaps(e, i) ==
  \A k \in DOMAIN e[i].gaps :
    LET item == e[i].gaps[k] IN
    /\ item.gap # None /\ item.bounds = item.gap
    /\ DeclaresTo(e, i - 1, item.gap) # {}
    /\ item.healed = (HealsTo(e, i - 1, item.gap) # {})

IsHonestSettlement(e, i) ==
  LET earlier == SettlesTo(e, i - 1, e[i].day)
      receipts == ReceiptsTo(e, i - 1)
  IN /\ e[i].day # None
     /\ e[i].supplement = Cardinality(earlier)
     /\ e[i].previous = IF earlier = {} THEN None
                        ELSE [sequence |-> LastOf(earlier), hash |-> LastOf(earlier)]
     /\ e[i].head = IF receipts = {} THEN None ELSE LastOf(receipts)
     /\ e[i].count = Cardinality(receipts)
     /\ ListsGaps(e, i)
     /\ e[i].state = IF \E k \in DOMAIN e[i].gaps : ~e[i].gaps[k].healed
                     THEN "gapped" ELSE "settled"

IsHonest(e, i) ==
  /\ IsEmitted(e, i)
  /\ e[i].action = "stream.config" => IsHonestConfig(e, i)
  /\ e[i].action = "collection.receipt" => IsHonestReceipt(e, i)
  /\ e[i].action = "stream.gap" => IsHonestGap(e, i)
  /\ e[i].action = "stream.gap_healed" => IsHonestHeal(e, i)
  /\ e[i].action = "stream.settled" => IsHonestSettlement(e, i)

HonestLog ==
  /\ IsList(log) /\ Len(log) <= MaxEvents
  /\ \A i \in DOMAIN log : IsHonest(log, i)

-----------------------------------------------------------------------------
\* The record of place i, kept or redacted.
IsKept(e, f, i) ==
  \/ f[i] = e[i]
  \/ e[i].action = "collection.receipt" /\ f[i] = [e[i] EXCEPT !.payload = None]

\* What a redaction leaves of a record.
LEMMA KeptRecord ==
  ASSUME NEW e, NEW f, NEW i, IsHonest(e, i), IsKept(e, f, i)
  PROVE  /\ DOMAIN f[i] = DOMAIN e[i] /\ f[i].action = e[i].action
         /\ f[i].seq = e[i].seq /\ f[i].entry = e[i].entry /\ f[i].key = e[i].key
         /\ f[i].sound = e[i].sound
         /\ \/ f[i].payload = e[i].payload
            \/ f[i].payload = None /\ e[i].action = "collection.receipt"
         /\ f[i].action # "collection.receipt" => f[i] = e[i]
         /\ f[i].action = "collection.receipt" =>
              /\ f[i].index = e[i].index /\ f[i].prev = e[i].prev
              /\ f[i].cursor_before = e[i].cursor_before
              /\ f[i].cursor_after = e[i].cursor_after
  <1>1. CASE f[i] = e[i]
    BY <1>1
  <1>2. CASE e[i].action = "collection.receipt" /\ f[i] = [e[i] EXCEPT !.payload = None]
    BY <1>2 DEF IsHonest, IsEmitted, IsHonestReceipt, CommonFields
  <1> QED BY <1>1, <1>2 DEF IsKept

\* The last of a set of places.
LEMMA LastIs ==
  ASSUME NEW n \in Nat, NEW S, S \subseteq 1..n, S # {}
  PROVE  LastOf(S) \in S /\ \A j \in S : j <= LastOf(S)
  <1> DEFINE T == {n - j : j \in S}
  <1>1. T \subseteq Nat /\ T # {}
    <2>1. \A j \in S : n - j \in Nat
      OBVIOUS
    <2>2. PICK j \in S : TRUE
      OBVIOUS
    <2> QED BY <2>1, <2>2
  <1>2. PICK t \in T : \A u \in T : t <= u
    BY <1>1, Smallest
  <1>3. PICK i \in S : t = n - i
    BY <1>2
  <1>4. \A j \in S : j <= i
    BY <1>2, <1>3
  <1> QED BY <1>4 DEF LastOf

\* What came before a place is what came before it in a log whose records are kept.
LEMMA SameHistory ==
  ASSUME NEW e, NEW f, NEW n \in Nat, \A i \in 1..n : IsHonest(e, i) /\ IsKept(e, f, i)
  PROVE  /\ \A action : To(f, n, action) = To(e, n, action)
         /\ \A gap : /\ DeclaresTo(f, n, gap) = DeclaresTo(e, n, gap)
                     /\ HealsTo(f, n, gap) = HealsTo(e, n, gap)
         /\ \A day : SettlesTo(f, n, day) = SettlesTo(e, n, day)
         /\ ReceiptsTo(f, n) = ReceiptsTo(e, n) /\ HeadTo(f, n) = HeadTo(e, n)
         /\ \A i \in ReceiptsTo(e, n) : f[i].cursor_after = e[i].cursor_after
  <1>1. \A i \in 1..n : /\ f[i].action = e[i].action
                        /\ f[i].action # "collection.receipt" => f[i] = e[i]
                        /\ f[i].action = "collection.receipt" =>
                             f[i].cursor_after = e[i].cursor_after
    BY KeptRecord
  <1>2. \A action : To(f, n, action) = To(e, n, action)
    BY <1>1 DEF To
  <1>3. \A action : action # "collection.receipt" =>
          \A i \in To(e, n, action) : f[i] = e[i]
    BY <1>1 DEF To
  <1>4. \A gap : /\ DeclaresTo(f, n, gap) = DeclaresTo(e, n, gap)
                 /\ HealsTo(f, n, gap) = HealsTo(e, n, gap)
    BY <1>2, <1>3 DEF DeclaresTo, HealsTo
  <1>5. \A day : SettlesTo(f, n, day) = SettlesTo(e, n, day)
    BY <1>2, <1>3 DEF SettlesTo
  <1>6. ReceiptsTo(f, n) = ReceiptsTo(e, n)
    BY <1>2 DEF ReceiptsTo
  <1>7. HeadTo(f, n) = HeadTo(e, n)
    BY <1>6 DEF HeadTo
  <1>8. \A i \in ReceiptsTo(e, n) : f[i].cursor_after = e[i].cursor_after
    BY <1>1 DEF ReceiptsTo, To
  <1> QED BY <1>2, <1>4, <1>5, <1>6, <1>7, <1>8

\* A record that is as it should be stays so, whatever is redacted.
LEMMA HonestStays ==
  ASSUME NEW e, NEW f, NEW n \in Nat, \A i \in 1..n : IsHonest(e, i) /\ IsKept(e, f, i)
  PROVE  \A i \in 1..n : IsHonest(f, i)
  <1> SUFFICES ASSUME NEW i \in 1..n PROVE IsHonest(f, i)
    OBVIOUS
  <1>1. IsHonest(e, i) /\ IsKept(e, f, i)
    OBVIOUS
  <1>2. i - 1 \in Nat /\ \A j \in 1..(i - 1) : IsHonest(e, j) /\ IsKept(e, f, j)
    OBVIOUS
  <1>3. /\ \A action : To(f, i - 1, action) = To(e, i - 1, action)
        /\ \A gap : /\ DeclaresTo(f, i - 1, gap) = DeclaresTo(e, i - 1, gap)
                    /\ HealsTo(f, i - 1, gap) = HealsTo(e, i - 1, gap)
        /\ \A day : SettlesTo(f, i - 1, day) = SettlesTo(e, i - 1, day)
        /\ ReceiptsTo(f, i - 1) = ReceiptsTo(e, i - 1) /\ HeadTo(f, i - 1) = HeadTo(e, i - 1)
        /\ \A j \in ReceiptsTo(e, i - 1) : f[j].cursor_after = e[j].cursor_after
    BY <1>2, SameHistory
  <1>4. /\ DOMAIN f[i] = DOMAIN e[i] /\ f[i].action = e[i].action
        /\ f[i].seq = e[i].seq /\ f[i].entry = e[i].entry /\ f[i].key = e[i].key
        /\ f[i].sound = e[i].sound
        /\ \/ f[i].payload = e[i].payload
           \/ f[i].payload = None /\ e[i].action = "collection.receipt"
        /\ f[i].action # "collection.receipt" => f[i] = e[i]
        /\ f[i].action = "collection.receipt" =>
             /\ f[i].index = e[i].index /\ f[i].prev = e[i].prev
             /\ f[i].cursor_before = e[i].cursor_before
             /\ f[i].cursor_after = e[i].cursor_after
    BY <1>1, KeptRecord
  <1>5. IsEmitted(f, i)
    BY <1>1, <1>3, <1>4 DEF IsHonest, IsEmitted
  <1>6. CASE f[i].action # "collection.receipt"
    <2>1. f[i] = e[i]
      BY <1>4, <1>6
    <2>2. IsHonestConfig(e, i) => IsHonestConfig(f, i)
      BY <2>1 DEF IsHonestConfig
    <2>3. IsHonestGap(e, i) => IsHonestGap(f, i)
      BY <1>3, <2>1 DEF IsHonestGap
    <2>4. IsHonestHeal(e, i) => IsHonestHeal(f, i)
      BY <1>3, <2>1 DEF IsHonestHeal
    <2>5. IsHonestSettlement(e, i) => IsHonestSettlement(f, i)
      <3>1. ListsGaps(e, i) => ListsGaps(f, i)
        BY <1>3, <2>1 DEF ListsGaps
      <3> QED BY <1>3, <2>1, <3>1 DEF IsHonestSettlement
    <2> QED BY <1>1, <1>5, <1>6, <2>1, <2>2, <2>3, <2>4, <2>5 DEF IsHonest
  <1>7. CASE f[i].action = "collection.receipt"
    <2>1. ReceiptsTo(e, i - 1) \subseteq 1..(i - 1)
      BY DEF ReceiptsTo, To
    <2>2. ReceiptsTo(e, i - 1) # {} => LastOf(ReceiptsTo(e, i - 1)) \in ReceiptsTo(e, i - 1)
      BY <1>2, <2>1, LastIs
    <2>3. IsHonestReceipt(e, i)
      BY <1>1, <1>4, <1>7 DEF IsHonest
    <2>4. IsHonestReceipt(f, i)
      BY <1>3, <1>4, <1>7, <2>2, <2>3 DEF IsHonestReceipt
    <2> QED BY <1>5, <1>7, <2>4 DEF IsHonest
  <1> QED BY <1>6, <1>7
-----------------------------------------------------------------------------
(* The connection keeps its stream as it should.                           *)

\* One event more: what came before its place.
LEMMA GrownLog ==
  ASSUME HonestLog, NEW r, log' = Append(log, r)
  PROVE  LET n == Len(log) IN
         /\ n \in Nat /\ n + 1 \in Nat /\ (n + 1) - 1 = n
         /\ DOMAIN log = 1..n /\ DOMAIN log' = 1..(n + 1)
         /\ IsList(log') /\ log'[n + 1] = r
         /\ \A i \in 1..n : log'[i] = log[i] /\ IsHonest(log', i)
         /\ \A action : To(log', n, action) = Places(action)
         /\ \A gap : /\ DeclaresTo(log', n, gap) # {} <=> gap \in DeclaredGaps
                     /\ HealsTo(log', n, gap) # {} <=> gap \in HealedGaps
         /\ \A day : SettlesTo(log', n, day) = SettlementsOf(day)
         /\ ReceiptsTo(log', n) = ReceiptPlaces /\ HeadTo(log', n) = LastReceipt
         /\ ReceiptPlaces # {} => LastOf(ReceiptPlaces) \in 1..n
  <1> DEFINE n == Len(log)
  <1>1. /\ n \in Nat /\ n + 1 \in Nat /\ (n + 1) - 1 = n
        /\ DOMAIN log = 1..n /\ DOMAIN log' = 1..(n + 1)
        /\ IsList(log') /\ log'[n + 1] = r
        /\ \A i \in 1..n : log'[i] = log[i]
    BY OneMore DEF HonestLog
  <1> HIDE DEF n
  <1>2. \A i \in 1..n : IsHonest(log, i) /\ IsKept(log, log', i)
    BY <1>1 DEF HonestLog, IsKept
  <1>3. \A i \in 1..n : IsHonest(log', i)
    BY <1>1, <1>2, HonestStays
  <1>4. \A action : To(log', n, action) = Places(action)
    BY <1>1 DEF To, Places
  <1>5. \A action : \A i \in Places(action) : log'[i] = log[i]
    BY <1>1 DEF Places
  <1>6. ASSUME NEW gap
        PROVE  /\ DeclaresTo(log', n, gap) # {} <=> gap \in DeclaredGaps
               /\ HealsTo(log', n, gap) # {} <=> gap \in HealedGaps
    <2>1. /\ To(log', n, "stream.gap") = Places("stream.gap")
          /\ \A i \in Places("stream.gap") : log'[i].gap = log[i].gap
      BY <1>4, <1>5
    <2>2. /\ To(log', n, "stream.gap_healed") = Places("stream.gap_healed")
          /\ \A i \in Places("stream.gap_healed") : log'[i].gap = log[i].gap
      BY <1>4, <1>5
    <2>3. DeclaresTo(log', n, gap) # {} <=> gap \in DeclaredGaps
      BY <2>1 DEF DeclaresTo, DeclaredGaps
    <2>4. HealsTo(log', n, gap) # {} <=> gap \in HealedGaps
      BY <2>2 DEF HealsTo, HealedGaps
    <2> QED BY <2>3, <2>4
  <1>7. ASSUME NEW day
        PROVE  SettlesTo(log', n, day) = SettlementsOf(day)
    <2>1. To(log', n, "stream.settled") = Places("stream.settled")
      BY <1>4
    <2>2. \A i \in Places("stream.settled") : log'[i].day = log[i].day
      BY <1>5
    <2> QED BY <2>1, <2>2 DEF SettlesTo, SettlementsOf
  <1>8. ReceiptsTo(log', n) = ReceiptPlaces
    BY <1>4 DEF ReceiptsTo, ReceiptPlaces
  <1>9. HeadTo(log', n) = LastReceipt
    BY <1>8 DEF HeadTo, LastReceipt
  <1>10. ReceiptPlaces \subseteq 1..n
    BY <1>1 DEF ReceiptPlaces, Places
  <1>11. ReceiptPlaces # {} => LastOf(ReceiptPlaces) \in 1..n
    BY <1>1, <1>10, LastIs
  <1> QED BY <1>1, <1>3, <1>4, <1>6, <1>7, <1>8, <1>9, <1>11 DEF n

\* A log whose new record is as it should be.
LEMMA GrownHonest ==
  ASSUME HonestLog, NEW r, log' = Append(log, r), Len(log) < MaxEvents,
         IsHonest(log', Len(log) + 1)
  PROVE  HonestLog'
  <1>1. /\ Len(log) \in Nat /\ DOMAIN log' = 1..(Len(log) + 1) /\ IsList(log')
        /\ \A i \in 1..Len(log) : IsHonest(log', i)
    BY GrownLog
  <1>3. Len(log') <= MaxEvents
    <2>1. Len(log') = Len(log) + 1
      BY OneMore DEF HonestLog
    <2> QED BY <1>1, <2>1, ReceiptStreamAssumption
  <1>2. \A i \in 1..(Len(log) + 1) : IsHonest(log', i)
    BY <1>1
  <1> QED BY <1>1, <1>2, <1>3 DEF HonestLog

\* An emitted event is what every event is.
LEMMA EmittedIsEvent ==
  ASSUME HonestLog, NEW action \in Actions, NEW fields, Emit(action, fields),
         DOMAIN fields \cap CommonFields = {}, action = "stream.config" \/ Configured
  PROVE  \E r : /\ log' = Append(log, r) /\ log'[Len(log) + 1] = r
                /\ IsEmitted(log', Len(log) + 1) /\ r.action = action /\ Len(log) < MaxEvents
                /\ DOMAIN fields \subseteq DOMAIN r
                /\ \A f \in DOMAIN fields : r[f] = fields[f]
  <1>1. \E r : /\ log' = Append(log, r) /\ CommonFields \subseteq DOMAIN r
               /\ r.action = action /\ r.seq = Len(log) + 1 /\ r.entry = Len(log) + 1
               /\ r.key = "a" /\ r.payload = "object" /\ r.sound = TRUE
               /\ DOMAIN fields \subseteq DOMAIN r
               /\ \A f \in DOMAIN fields : r[f] = fields[f]
    <2> DEFINE i == Len(log) + 1
               common == [action |-> action, seq |-> i, entry |-> i, key |-> "a",
                          payload |-> "object", sound |-> TRUE]
               r == NextEvent(action, fields)
    <2>1. log' = Append(log, r)
      BY DEF Emit
    <2>2. r = [x \in DOMAIN common \cup DOMAIN fields |->
                 IF x \in DOMAIN common THEN common[x] ELSE fields[x]]
      BY DEF NextEvent
    <2>3. DOMAIN common = CommonFields
      BY DEF CommonFields
    <2>4. /\ common.action = action /\ common.seq = i /\ common.entry = i
          /\ common.key = "a" /\ common.payload = "object" /\ common.sound = TRUE
      OBVIOUS
    <2> HIDE DEF common, r
    <2>5. /\ DOMAIN r = DOMAIN fields \cup DOMAIN common
          /\ \A f \in DOMAIN fields : r[f] = fields[f]
          /\ \A f \in DOMAIN common : r[f] = common[f]
      BY <2>2, <2>3
    <2>6. /\ r.action = action /\ r.seq = i /\ r.entry = i /\ r.key = "a"
          /\ r.payload = "object" /\ r.sound = TRUE
      BY <2>3, <2>4, <2>5 DEF CommonFields
    <2> QED BY <2>1, <2>3, <2>5, <2>6
  <1>5. PICK r : /\ log' = Append(log, r) /\ CommonFields \subseteq DOMAIN r
               /\ r.action = action /\ r.seq = Len(log) + 1 /\ r.entry = Len(log) + 1
               /\ r.key = "a" /\ r.payload = "object" /\ r.sound = TRUE
               /\ DOMAIN fields \subseteq DOMAIN r
               /\ \A f \in DOMAIN fields : r[f] = fields[f]
    BY <1>1
  <1>2. /\ log'[Len(log) + 1] = r /\ (Len(log) + 1) - 1 = Len(log)
        /\ To(log', Len(log), "stream.config") = Places("stream.config")
    BY <1>5, GrownLog
  <1>3. r.payload # None
    BY <1>5, ReceiptStreamAssumption
  <1>4. IsEmitted(log', Len(log) + 1)
    BY <1>5, <1>2, <1>3 DEF IsEmitted, Configured
  <1>6. Len(log) < MaxEvents
    BY DEF Emit
  <1> QED BY <1>5, <1>2, <1>4, <1>6

LEMMA ConfigureHonest ==
  ASSUME HonestLog, Configure PROVE HonestLog'
  <1> DEFINE fields == [records_stream |-> "r"]
  <1>1. Emit("stream.config", fields) /\ DOMAIN fields \cap CommonFields = {}
    BY DEF Configure, CommonFields
  <1>2. fields["records_stream"] = "r" /\ "records_stream" \in DOMAIN fields
    OBVIOUS
  <1> HIDE DEF fields
  <1>3. PICK r : /\ log' = Append(log, r) /\ log'[Len(log) + 1] = r
                 /\ IsEmitted(log', Len(log) + 1) /\ Len(log) < MaxEvents
                 /\ r.action = "stream.config"
                 /\ \A f \in DOMAIN fields : r[f] = fields[f]
    BY <1>1, EmittedIsEvent DEF Actions
  <1>4. IsHonest(log', Len(log) + 1)
    BY <1>2, <1>3 DEF IsHonest, IsHonestConfig
  <1> QED BY <1>3, <1>4, GrownHonest

LEMMA CollectHonest ==
  ASSUME HonestLog, Collect PROVE HonestLog'
  <1> DEFINE n == Len(log)
  <1>1. PICK after \in {n, None} :
          Emit("collection.receipt",
               [index |-> Cardinality(ReceiptPlaces) + 1, prev |-> LastReceipt,
                cursor_before |-> IF ReceiptPlaces = {} THEN 0
                                  ELSE log[LastReceipt].cursor_after,
                cursor_after |-> after])
    BY DEF Collect
  <1> DEFINE fields == [index |-> Cardinality(ReceiptPlaces) + 1, prev |-> LastReceipt,
                        cursor_before |-> IF ReceiptPlaces = {} THEN 0
                                          ELSE log[LastReceipt].cursor_after,
                        cursor_after |-> after]
  <1>2. DOMAIN fields \cap CommonFields = {}
    BY DEF CommonFields
  <1>3. /\ DOMAIN fields = {"index", "prev", "cursor_before", "cursor_after"}
        /\ fields["index"] = Cardinality(ReceiptPlaces) + 1
        /\ fields["prev"] = LastReceipt /\ fields["cursor_after"] = after
        /\ fields["cursor_before"] = IF ReceiptPlaces = {} THEN 0
                                     ELSE log[LastReceipt].cursor_after
    OBVIOUS
  <1>4. Emit("collection.receipt", fields)
    BY <1>1
  <1> HIDE DEF fields
  <1>5. PICK r : /\ log' = Append(log, r) /\ log'[n + 1] = r
                 /\ IsEmitted(log', n + 1) /\ Len(log) < MaxEvents
                 /\ r.action = "collection.receipt"
                 /\ DOMAIN fields \subseteq DOMAIN r
                 /\ \A f \in DOMAIN fields : r[f] = fields[f]
    BY <1>2, <1>4, EmittedIsEvent DEF Actions, Collect
  <1>6. /\ n \in Nat /\ (n + 1) - 1 = n /\ \A i \in 1..n : log'[i] = log[i]
        /\ ReceiptsTo(log', n) = ReceiptPlaces /\ HeadTo(log', n) = LastReceipt
        /\ ReceiptPlaces # {} => LastOf(ReceiptPlaces) \in 1..n
    BY <1>5, GrownLog
  <1>7. ReceiptPlaces # {} =>
          log'[LastOf(ReceiptPlaces)].cursor_after = log[LastReceipt].cursor_after
    BY <1>6 DEF LastReceipt
  <1>8. IsHonestReceipt(log', n + 1)
    BY <1>3, <1>5, <1>6, <1>7 DEF IsHonestReceipt
  <1>9. IsHonest(log', n + 1)
    BY <1>5, <1>8 DEF IsHonest
  <1> QED BY <1>5, <1>9, GrownHonest

\* A gap is healed only when it has been declared.
LEMMA HealedWasDeclared ==
  ASSUME HonestLog, NEW gap \in HealedGaps PROVE gap \in DeclaredGaps
  <1>1. PICK i \in Places("stream.gap_healed") : log[i].gap = gap
    BY DEF HealedGaps
  <1>2. i \in DOMAIN log /\ DOMAIN log = 1..Len(log) /\ Len(log) \in Nat
    BY <1>1, ListFacts DEF Places, HonestLog
  <1>3. DeclaresTo(log, i - 1, gap) # {}
    BY <1>1, <1>2 DEF HonestLog, IsHonest, IsHonestHeal, Places
  <1>4. PICK j \in 1..(i - 1) : log[j].action = "stream.gap" /\ log[j].gap = gap
    BY <1>3 DEF DeclaresTo, To
  <1>5. j \in DOMAIN log
    BY <1>2
  <1> QED BY <1>4, <1>5 DEF DeclaredGaps, Places

LEMMA DeclareGapHonest ==
  ASSUME HonestLog, NEW gap \in Gaps, DeclareGap(gap) PROVE HonestLog'
  <1> DEFINE n == Len(log)
             fields == [gap |-> gap, bounds |-> gap, after |-> LastReceipt]
  <1>1. Emit("stream.gap", fields) /\ DOMAIN fields \cap CommonFields = {}
    BY DEF DeclareGap, CommonFields
  <1>2. /\ DOMAIN fields = {"gap", "bounds", "after"}
        /\ fields["gap"] = gap /\ fields["bounds"] = gap /\ fields["after"] = LastReceipt
    OBVIOUS
  <1> HIDE DEF fields
  <1>3. PICK r : /\ log' = Append(log, r) /\ log'[n + 1] = r
                 /\ IsEmitted(log', n + 1) /\ Len(log) < MaxEvents
                 /\ r.action = "stream.gap"
                 /\ \A f \in DOMAIN fields : r[f] = fields[f]
    BY <1>1, EmittedIsEvent DEF Actions, DeclareGap
  <1>4. /\ (n + 1) - 1 = n /\ HeadTo(log', n) = LastReceipt
        /\ DeclaresTo(log', n, gap) # {} <=> gap \in DeclaredGaps
        /\ HealsTo(log', n, gap) # {} <=> gap \in HealedGaps
    BY <1>3, GrownLog
  <1>5. gap # None /\ gap \notin DeclaredGaps /\ gap \notin HealedGaps
    BY ReceiptStreamAssumption, HealedWasDeclared DEF DeclareGap
  <1>6. IsHonestGap(log', n + 1)
    BY <1>2, <1>3, <1>4, <1>5 DEF IsHonestGap
  <1>7. IsHonest(log', n + 1)
    BY <1>3, <1>6 DEF IsHonest
  <1> QED BY <1>3, <1>7, GrownHonest

\* Whatever is declared comes after the configuration.
LEMMA DeclaredIsConfigured ==
  ASSUME HonestLog, DeclaredGaps # {} PROVE Configured
  <1>1. PICK i \in DOMAIN log : log[i].action = "stream.gap"
    BY DEF DeclaredGaps, Places
  <1>2. DOMAIN log = 1..Len(log) /\ Len(log) \in Nat
    BY ListFacts DEF HonestLog
  <1>3. To(log, i - 1, "stream.config") # {}
    BY <1>1 DEF HonestLog, IsHonest, IsEmitted
  <1> QED BY <1>2, <1>3 DEF Configured, Places, To

LEMMA HealGapHonest ==
  ASSUME HonestLog, NEW gap \in Gaps, HealGap(gap) PROVE HonestLog'
  <1> DEFINE n == Len(log)
             fields == [gap |-> gap]
  <1>1. Emit("stream.gap_healed", fields) /\ DOMAIN fields \cap CommonFields = {}
    BY DEF HealGap, CommonFields
  <1>2. "gap" \in DOMAIN fields /\ fields["gap"] = gap
    OBVIOUS
  <1> HIDE DEF fields
  <1>3. PICK r : /\ log' = Append(log, r) /\ log'[n + 1] = r
                 /\ IsEmitted(log', n + 1) /\ Len(log) < MaxEvents
                 /\ r.action = "stream.gap_healed"
                 /\ \A f \in DOMAIN fields : r[f] = fields[f]
    BY <1>1, EmittedIsEvent, DeclaredIsConfigured DEF Actions, HealGap
  <1>4. (n + 1) - 1 = n /\ (DeclaresTo(log', n, gap) # {} <=> gap \in DeclaredGaps)
    BY <1>3, GrownLog
  <1>5. gap # None /\ gap \in DeclaredGaps
    BY ReceiptStreamAssumption DEF HealGap
  <1>6. IsHonestHeal(log', n + 1)
    BY <1>2, <1>3, <1>4, <1>5 DEF IsHonestHeal
  <1>7. IsHonest(log', n + 1)
    BY <1>3, <1>6 DEF IsHonest
  <1> QED BY <1>3, <1>7, GrownHonest

\* A sequence of the members of a finite set has each of them, and nothing else.
LEMMA ListOfSet ==
  ASSUME NEW S, IsFiniteSet(S)
  PROVE  /\ DOMAIN SetToSeq(S) = 1..Cardinality(S)
         /\ \A k \in DOMAIN SetToSeq(S) : SetToSeq(S)[k] \in S
         /\ \A x \in S : \E k \in DOMAIN SetToSeq(S) : SetToSeq(S)[k] = x
  <1> DEFINE n == Cardinality(S)
             s == SetToSeq(S)
  <1>1. n \in Nat /\ ExistsBijection(1..n, S)
    BY FS_CardinalityType
  <1>2. PICK f : f \in Bijection(1..n, S)
    BY <1>1 DEF ExistsBijection
  <1>3. f \in [1..n -> S] /\ IsInjective(f)
    BY <1>2 DEF Bijection, Injection
  <1>4. s \in [1..n -> S] /\ IsInjective(s)
    BY <1>3 DEF SetToSeq
  <1> HIDE DEF s
  <1>5. s \in Injection(1..n, S)
    BY <1>4 DEF Injection
  <1>6. IsFiniteSet(1..n) /\ Cardinality(1..n) = n
    BY <1>1, FS_Interval
  <1>7. s \in Surjection(1..n, S)
    BY <1>5, <1>6, FS_Injection
  <1>8. \A x \in S : \E k \in 1..n : s[k] = x
    BY <1>7 DEF Surjection
  <1> QED BY <1>4, <1>8 DEF s

\* A set with a member for each member of a finite set is finite.
LEMMA FiniteImage ==
  ASSUME NEW S, IsFiniteSet(S), NEW f, DOMAIN f = S
  PROVE  IsFiniteSet({f[x] : x \in S})
  <1> DEFINE T == {f[x] : x \in S}
             g == [x \in S |-> f[x]]
  <1>1. g \in Surjection(S, T)
    <2>1. g \in [S -> T] /\ \A y \in T : \E x \in S : g[x] = y
      OBVIOUS
    <2> QED BY <2>1 DEF Surjection
  <1> QED BY <1>1, FS_Surjection

\* The gaps that were declared can be counted.
LEMMA DeclaredFinite ==
  ASSUME HonestLog
  PROVE  IsFiniteSet(DeclaredGaps)
  <1> DEFINE P == Places("stream.gap")
             f == [i \in P |-> log[i].gap]
  <1>1. P \subseteq 1..Len(log) /\ Len(log) \in Nat
    BY ListFacts DEF HonestLog, Places
  <1>2. IsFiniteSet(1..Len(log))
    BY <1>1, FS_Interval
  <1>3. IsFiniteSet(P)
    BY <1>1, <1>2, FS_Subset
  <1>4. IsFiniteSet({f[x] : x \in P})
    <2> HIDE DEF P
    <2>1. DOMAIN f = P
      OBVIOUS
    <2> HIDE DEF f
    <2> QED BY <1>3, <2>1, FiniteImage
  <1>5. DeclaredGaps = {f[x] : x \in P}
    BY DEF DeclaredGaps
  <1> QED BY <1>4, <1>5

\* What a settlement lists: each of its gaps with its bounds and whether it is
\* healed.
LEMMA ListedGaps ==
  ASSUME HonestLog, NEW gaps, gaps \subseteq DeclaredGaps
  PROVE  LET s == SetToSeq({[gap |-> g, bounds |-> g, healed |-> g \in HealedGaps] :
                              g \in gaps}) IN
         /\ \A k \in DOMAIN s : /\ s[k].gap \in gaps /\ s[k].bounds = s[k].gap
                                /\ s[k].healed = (s[k].gap \in HealedGaps)
         /\ gaps \subseteq HealedGaps <=> \A k \in DOMAIN s : s[k].healed
  <1> DEFINE f == [g \in gaps |-> [gap |-> g, bounds |-> g, healed |-> g \in HealedGaps]]
             S == {f[g] : g \in gaps}
             s == SetToSeq(S)
  <1>1. {[gap |-> g, bounds |-> g, healed |-> g \in HealedGaps] : g \in gaps} = S
    OBVIOUS
  <1>2. IsFiniteSet(gaps)
    BY DeclaredFinite, FS_Subset
  <1>3. IsFiniteSet(S)
    <2>1. DOMAIN f = gaps
      OBVIOUS
    <2> HIDE DEF f
    <2> QED BY <1>2, <2>1, FiniteImage
  <1>4. \A g \in gaps : /\ f[g].gap = g /\ f[g].bounds = g
                        /\ f[g].healed = (g \in HealedGaps)
    OBVIOUS
  <1> HIDE DEF f
  <1>5. \A x \in S : /\ x.gap \in gaps /\ x.bounds = x.gap
                     /\ x.healed = (x.gap \in HealedGaps)
    BY <1>4
  <1>6. \A g \in gaps : \E x \in S : x.gap = g
    BY <1>4
  <1> HIDE DEF S
  <1>7. /\ \A k \in DOMAIN s : s[k] \in S
        /\ \A x \in S : \E k \in DOMAIN s : s[k] = x
    BY <1>3, ListOfSet
  <1> HIDE DEF s
  <1>8. \A k \in DOMAIN s : /\ s[k].gap \in gaps /\ s[k].bounds = s[k].gap
                            /\ s[k].healed = (s[k].gap \in HealedGaps)
    BY <1>5, <1>7
  <1>9. gaps \subseteq HealedGaps <=> \A k \in DOMAIN s : s[k].healed
    <2>1. ASSUME gaps \subseteq HealedGaps, NEW k \in DOMAIN s PROVE s[k].healed
      BY <1>8, <2>1
    <2>2. ASSUME \A k \in DOMAIN s : s[k].healed, NEW g \in gaps PROVE g \in HealedGaps
      <3>1. PICK x \in S : x.gap = g
        BY <1>6
      <3>2. PICK k \in DOMAIN s : s[k] = x
        BY <1>7
      <3> QED BY <1>8, <2>2, <3>1, <3>2
    <2> QED BY <2>1, <2>2
  <1> QED BY <1>1, <1>8, <1>9 DEF s

LEMMA SettleHonest ==
  ASSUME HonestLog, NEW day \in Days, NEW gaps \in SUBSET Gaps, Settle(day, gaps)
  PROVE  HonestLog'
  <1> DEFINE n == Len(log)
             earlier == SettlementsOf(day)
             list == SetToSeq({[gap |-> g, bounds |-> g, healed |-> g \in HealedGaps] :
                                 g \in gaps})
             fields ==
               [day |-> day, supplement |-> Cardinality(earlier),
                previous |-> IF earlier = {} THEN None
                             ELSE [sequence |-> LastOf(earlier), hash |-> LastOf(earlier)],
                head |-> IF ReceiptPlaces = {} THEN None ELSE LastReceipt,
                count |-> Cardinality(ReceiptPlaces), gaps |-> list,
                state |-> IF gaps \subseteq HealedGaps THEN "settled" ELSE "gapped"]
  <1>1. Emit("stream.settled", fields) /\ DOMAIN fields \cap CommonFields = {}
    BY DEF Settle, CommonFields
  <1>2. /\ DOMAIN fields = {"day", "supplement", "previous", "head", "count", "gaps", "state"}
        /\ fields["day"] = day /\ fields["supplement"] = Cardinality(earlier)
        /\ fields["previous"] = IF earlier = {} THEN None
                     ELSE [sequence |-> LastOf(earlier), hash |-> LastOf(earlier)]
        /\ fields["head"] = IF ReceiptPlaces = {} THEN None ELSE LastReceipt
        /\ fields["count"] = Cardinality(ReceiptPlaces) /\ fields["gaps"] = list
        /\ fields["state"] = IF gaps \subseteq HealedGaps THEN "settled" ELSE "gapped"
    OBVIOUS
  <1>3. gaps \subseteq DeclaredGaps /\ Configured
    BY DEF Settle
  <1>4. /\ \A k \in DOMAIN list : /\ list[k].gap \in gaps /\ list[k].bounds = list[k].gap
                                  /\ list[k].healed = (list[k].gap \in HealedGaps)
        /\ gaps \subseteq HealedGaps <=> \A k \in DOMAIN list : list[k].healed
    BY <1>3, ListedGaps
  <1> HIDE DEF fields, earlier, list
  <1>5. PICK r : /\ log' = Append(log, r) /\ log'[n + 1] = r
                 /\ IsEmitted(log', n + 1) /\ Len(log) < MaxEvents
                 /\ r.action = "stream.settled"
                 /\ \A f \in DOMAIN fields : r[f] = fields[f]
    BY <1>1, <1>3, EmittedIsEvent DEF Actions
  <1>6. /\ (n + 1) - 1 = n
        /\ \A gap : /\ DeclaresTo(log', n, gap) # {} <=> gap \in DeclaredGaps
                    /\ HealsTo(log', n, gap) # {} <=> gap \in HealedGaps
        /\ SettlesTo(log', n, day) = earlier
        /\ ReceiptsTo(log', n) = ReceiptPlaces
    BY <1>5, GrownLog DEF earlier
  <1>7. /\ r.day = day /\ r.supplement = Cardinality(earlier)
        /\ r.previous = IF earlier = {} THEN None
                        ELSE [sequence |-> LastOf(earlier), hash |-> LastOf(earlier)]
        /\ r.head = IF ReceiptPlaces = {} THEN None ELSE LastReceipt
        /\ r.count = Cardinality(ReceiptPlaces) /\ r.gaps = list
        /\ r.state = IF gaps \subseteq HealedGaps THEN "settled" ELSE "gapped"
    BY <1>2, <1>5
  <1>8. day # None /\ \A gap \in gaps : gap # None
    BY ReceiptStreamAssumption
  <1>9. ASSUME NEW k \in DOMAIN list
        PROVE  LET item == list[k] IN
               /\ item.gap # None /\ item.bounds = item.gap
               /\ DeclaresTo(log', n, item.gap) # {}
               /\ item.healed = (HealsTo(log', n, item.gap) # {})
    BY <1>3, <1>4, <1>6, <1>8
  <1>10. r.state = IF \E k \in DOMAIN list : ~list[k].healed THEN "gapped" ELSE "settled"
    BY <1>4, <1>7
  <1>11. r.head = IF ReceiptPlaces = {} THEN None ELSE LastOf(ReceiptPlaces)
    BY <1>7 DEF LastReceipt
  <1>12. IsHonestSettlement(log', n + 1)
    <2>1. /\ SettlesTo(log', (n + 1) - 1, r.day) = earlier
          /\ ReceiptsTo(log', (n + 1) - 1) = ReceiptPlaces
      BY <1>6, <1>7
    <2>2. \A k \in DOMAIN r.gaps :
            LET item == r.gaps[k] IN
            /\ item.gap # None /\ item.bounds = item.gap
            /\ DeclaresTo(log', (n + 1) - 1, item.gap) # {}
            /\ item.healed = (HealsTo(log', (n + 1) - 1, item.gap) # {})
      BY <1>6, <1>7, <1>9
    <2>4. ListsGaps(log', n + 1)
      BY <1>5, <2>2 DEF ListsGaps
    <2>3. r.state = IF \E k \in DOMAIN r.gaps : ~r.gaps[k].healed
                    THEN "gapped" ELSE "settled"
      BY <1>7, <1>10
    <2> QED BY <1>5, <1>7, <1>8, <1>11, <2>1, <2>3, <2>4 DEF IsHonestSettlement
  <1>13. IsHonest(log', n + 1)
    BY <1>5, <1>12 DEF IsHonest
  <1> QED BY <1>5, <1>13, GrownHonest

\* Where only receipts are redacted, every record stays as it should be.
LEMMA RedactHonest ==
  ASSUME HonestLog, Redactable \subseteq {"collection.receipt"}, NEW i \in DOMAIN log, Redact(i)
  PROVE  HonestLog'
  <1> DEFINE n == Len(log)
             record == [log[i] EXCEPT !.payload = None]
  <1>1. log[i].action = "collection.receipt" /\ log' = [log EXCEPT ![i] = record]
    BY DEF Redact
  <1>2. n \in Nat /\ DOMAIN log = 1..n /\ \A j \in 1..n : IsHonest(log, j)
    BY ListFacts DEF HonestLog
  <1>3. /\ DOMAIN log' = 1..n /\ log'[i] = record
        /\ \A j \in 1..n : j # i => log'[j] = log[j]
    BY <1>1, <1>2
  <1>4. \A j \in 1..n : IsHonest(log, j) /\ IsKept(log, log', j)
    BY <1>1, <1>2, <1>3 DEF IsKept
  <1>5. \A j \in 1..n : IsHonest(log', j)
    BY <1>2, <1>4, HonestStays
  <1>6. IsList(log')
    <2> DEFINE T == {log'[j] : j \in DOMAIN log'}
    <2>1. log' = [j \in 1..n |-> log'[j]]
      BY <1>1, <1>2
    <2>2. \A j \in 1..n : log'[j] \in T
      BY <1>3
    <2> HIDE DEF T
    <2>3. log' \in Seq(T)
      BY <1>2, <2>1, <2>2
    <2> QED BY <2>3 DEF IsList, T
  <1>7. Len(log') = Len(log)
    BY <1>2, <1>3, <1>6, ListFacts
  <1> QED BY <1>3, <1>5, <1>6, <1>7 DEF HonestLog

LEMMA StepHonest ==
  ASSUME Redactable \subseteq {"collection.receipt"}
  PROVE  HonestLog /\ [StreamNext]_log => HonestLog'
  <1> SUFFICES ASSUME HonestLog, [StreamNext]_log PROVE HonestLog'
    OBVIOUS
  <1>1. CASE UNCHANGED log
    BY <1>1 DEF HonestLog
  <1>2. CASE Configure
    BY <1>2, ConfigureHonest
  <1>3. CASE Collect
    BY <1>3, CollectHonest
  <1>4. ASSUME NEW g \in Gaps, DeclareGap(g) \/ HealGap(g) PROVE HonestLog'
    BY <1>4, DeclareGapHonest, HealGapHonest
  <1>5. ASSUME NEW d \in Days, NEW gaps \in SUBSET Gaps, Settle(d, gaps) PROVE HonestLog'
    BY <1>5, SettleHonest
  <1>6. ASSUME NEW i \in DOMAIN log, Redact(i) PROVE HonestLog'
    BY <1>6, RedactHonest
  <1> QED BY <1>1, <1>2, <1>3, <1>4, <1>5, <1>6 DEF StreamNext

LEMMA InitHonest == StreamInit => HonestLog
  <1> SUFFICES ASSUME log = <<>> PROVE HonestLog
    BY DEF StreamInit
  <1>1. DOMAIN log = {} /\ log \in Seq({})
    OBVIOUS
  <1>2. {log[i] : i \in DOMAIN log} = {}
    BY <1>1
  <1>3. Len(log) <= MaxEvents
    BY ReceiptStreamAssumption
  <1> QED BY <1>1, <1>2, <1>3 DEF HonestLog, IsList
-----------------------------------------------------------------------------
(* What the pass knows of the stream.                                      *)

ReceiptsIn(e, start, n) == {i \in ReceiptsTo(e, n) : start <= i}

\* The state s of the stream after the records from start to n.
KnowsConfig(s, e, start, n) ==
  /\ s.recordsStream \in {None, "r"}
  /\ start = 1 /\ To(e, n, "stream.config") # {} => s.configured

KnowsHead(s, e, n) ==
  /\ s.lastHash = LastOf(ReceiptsTo(e, n))
  /\ s.indexKnown => s.lastIndex = Cardinality(ReceiptsTo(e, n))
  /\ s.cursorKnown => /\ s.lastCursor = e[LastOf(ReceiptsTo(e, n))].cursor_after
                      /\ s.lastCursor # None

KnowsReceipts(s, e, start, n) ==
  /\ s.receipts = Cardinality(ReceiptsIn(e, start, n))
  /\ IF ReceiptsIn(e, start, n) = {} THEN s.lastHash = None ELSE KnowsHead(s, e, n)

KnowsGap(s, e, n, gap) ==
  /\ DeclaresTo(e, n, gap) # {} /\ s.gaps[gap].bounds \in {None, gap}
  /\ s.gaps[gap].healed <=> HealsTo(e, n, gap) # {}

KnowsItsGaps(s, e, start, n) ==
  /\ \A gap \in DOMAIN s.gaps : KnowsGap(s, e, n, gap)
  /\ start = 1 => \A gap : DeclaresTo(e, n, gap) # {} => gap \in DOMAIN s.gaps

KnowsDay(s, e, n, day) ==
  /\ SettlesTo(e, n, day) # {}
  /\ s.days[day].supplement = Cardinality(SettlesTo(e, n, day)) - 1
  /\ s.days[day].seq = LastOf(SettlesTo(e, n, day))
  /\ s.days[day].hash = LastOf(SettlesTo(e, n, day))

KnowsItsDays(s, e, start, n) ==
  /\ \A day \in DOMAIN s.days : KnowsDay(s, e, n, day)
  /\ \A day : \A i \in SettlesTo(e, n, day) : start <= i => day \in DOMAIN s.days

Knows(s, e, start, n) ==
  /\ IsStream(s)
  /\ KnowsConfig(s, e, start, n) /\ KnowsReceipts(s, e, start, n)
  /\ KnowsItsGaps(s, e, start, n) /\ KnowsItsDays(s, e, start, n)

\* One place more.
LEMMA NextPlace ==
  ASSUME NEW e, NEW n \in Nat
  PROVE  /\ \A action : To(e, n + 1, action) =
              IF e[n + 1].action = action THEN To(e, n, action) \cup {n + 1}
              ELSE To(e, n, action)
         /\ \A gap : DeclaresTo(e, n + 1, gap) =
              IF e[n + 1].action = "stream.gap" /\ e[n + 1].gap = gap
              THEN DeclaresTo(e, n, gap) \cup {n + 1} ELSE DeclaresTo(e, n, gap)
         /\ \A gap : HealsTo(e, n + 1, gap) =
              IF e[n + 1].action = "stream.gap_healed" /\ e[n + 1].gap = gap
              THEN HealsTo(e, n, gap) \cup {n + 1} ELSE HealsTo(e, n, gap)
         /\ \A day : SettlesTo(e, n + 1, day) =
              IF e[n + 1].action = "stream.settled" /\ e[n + 1].day = day
              THEN SettlesTo(e, n, day) \cup {n + 1} ELSE SettlesTo(e, n, day)
  <1>1. 1..(n + 1) = (1..n) \cup {n + 1}
    OBVIOUS
  <1>2. ASSUME NEW action
        PROVE  To(e, n + 1, action) =
                 IF e[n + 1].action = action THEN To(e, n, action) \cup {n + 1}
                 ELSE To(e, n, action)
    BY <1>1 DEF To
  <1>3. ASSUME NEW gap
        PROVE  DeclaresTo(e, n + 1, gap) =
                 IF e[n + 1].action = "stream.gap" /\ e[n + 1].gap = gap
                 THEN DeclaresTo(e, n, gap) \cup {n + 1} ELSE DeclaresTo(e, n, gap)
    BY <1>1 DEF DeclaresTo, To
  <1>4. ASSUME NEW gap
        PROVE  HealsTo(e, n + 1, gap) =
                 IF e[n + 1].action = "stream.gap_healed" /\ e[n + 1].gap = gap
                 THEN HealsTo(e, n, gap) \cup {n + 1} ELSE HealsTo(e, n, gap)
    BY <1>1 DEF HealsTo, To
  <1>5. ASSUME NEW day
        PROVE  SettlesTo(e, n + 1, day) =
                 IF e[n + 1].action = "stream.settled" /\ e[n + 1].day = day
                 THEN SettlesTo(e, n, day) \cup {n + 1} ELSE SettlesTo(e, n, day)
    BY <1>1 DEF SettlesTo, To
  <1> QED BY <1>2, <1>3, <1>4, <1>5

\* The places are finite sets, and the last of one more is the new one.
LEMMA PlacesFinite ==
  ASSUME NEW n \in Nat, NEW S, S \subseteq 1..n
  PROVE  /\ IsFiniteSet(S) /\ Cardinality(S) \in Nat /\ (Cardinality(S) = 0 <=> S = {})
         /\ Cardinality(S \cup {n + 1}) = Cardinality(S) + 1
         /\ LastOf(S \cup {n + 1}) = n + 1
  <1>1. IsFiniteSet(1..n)
    BY FS_Interval
  <1>2. IsFiniteSet(S)
    BY <1>1, FS_Subset
  <1>3. Cardinality(S) \in Nat
    BY <1>2, FS_CardinalityType
  <1>4. Cardinality(S) = 0 <=> S = {}
    BY <1>2, FS_EmptySet
  <1>5. n + 1 \notin S
    OBVIOUS
  <1>6. Cardinality(S \cup {n + 1}) = Cardinality(S) + 1
    BY <1>2, <1>5, FS_AddElement
  <1>7. LastOf(S \cup {n + 1}) = n + 1
    <2>1. S \cup {n + 1} \subseteq 1..(n + 1) /\ n + 1 \in S \cup {n + 1} /\ n + 1 \in Nat
      OBVIOUS
    <2>2. /\ LastOf(S \cup {n + 1}) \in S \cup {n + 1}
          /\ \A j \in S \cup {n + 1} : j <= LastOf(S \cup {n + 1})
      BY <2>1, LastIs
    <2> DEFINE last == LastOf(S \cup {n + 1})
    <2>3. last \in 1..(n + 1) /\ n + 1 <= last
      BY <2>1, <2>2
    <2> HIDE DEF last
    <2>4. last = n + 1
      BY <2>3
    <2> QED BY <2>4 DEF last
  <1> QED BY <1>2, <1>3, <1>4, <1>6, <1>7


\* What a record of another kind does not touch.
LEMMA ConfigStays ==
  ASSUME NEW s, NEW t, NEW e, NEW start, NEW n \in Nat, KnowsConfig(s, e, start, n),
         e[n + 1].action # "stream.config",
         t.configured = s.configured, t.recordsStream = s.recordsStream
  PROVE  KnowsConfig(t, e, start, n + 1)
  <1>1. To(e, n + 1, "stream.config") = To(e, n, "stream.config")
    BY NextPlace
  <1> QED BY <1>1 DEF KnowsConfig

LEMMA ReceiptsUntouched ==
  ASSUME NEW s, NEW t, NEW e, NEW start, NEW n \in Nat, KnowsReceipts(s, e, start, n),
         e[n + 1].action # "collection.receipt",
         t.receipts = s.receipts, t.lastHash = s.lastHash, t.indexKnown = s.indexKnown,
         t.lastIndex = s.lastIndex, t.cursorKnown = s.cursorKnown,
         t.lastCursor = s.lastCursor
  PROVE  KnowsReceipts(t, e, start, n + 1)
  <1>1. ReceiptsTo(e, n + 1) = ReceiptsTo(e, n)
    BY NextPlace DEF ReceiptsTo
  <1>2. ReceiptsIn(e, start, n + 1) = ReceiptsIn(e, start, n)
    BY <1>1 DEF ReceiptsIn
  <1> QED BY <1>1, <1>2 DEF KnowsReceipts, KnowsHead

LEMMA GapsUntouched ==
  ASSUME NEW s, NEW t, NEW e, NEW start, NEW n \in Nat, KnowsItsGaps(s, e, start, n),
         e[n + 1].action \notin {"stream.gap", "stream.gap_healed"}, t.gaps = s.gaps
  PROVE  KnowsItsGaps(t, e, start, n + 1)
  <1>1. \A gap : /\ DeclaresTo(e, n + 1, gap) = DeclaresTo(e, n, gap)
                 /\ HealsTo(e, n + 1, gap) = HealsTo(e, n, gap)
    BY NextPlace
  <1> QED BY <1>1 DEF KnowsItsGaps, KnowsGap

LEMMA DaysUntouched ==
  ASSUME NEW s, NEW t, NEW e, NEW start, NEW n \in Nat, KnowsItsDays(s, e, start, n),
         e[n + 1].action # "stream.settled", t.days = s.days
  PROVE  KnowsItsDays(t, e, start, n + 1)
  <1>1. \A day : SettlesTo(e, n + 1, day) = SettlesTo(e, n, day)
    BY NextPlace
  <1> QED BY <1>1 DEF KnowsItsDays, KnowsDay
-----------------------------------------------------------------------------
(* No record of an honest stream is reported, and each leaves the pass     *)
(* knowing what the next one is held to.                                   *)

LEMMA ConfigPasses ==
  ASSUME NEW e, NEW n \in Nat, IsHonest(e, n + 1), e[n + 1].action = "stream.config",
         NEW start, NEW s, Knows(s, e, start, n), NEW t, t = AfterConfig(s, e[n + 1])
  PROVE  ~ConfigProblem(s, e[n + 1]) /\ (IsStream(t) => Knows(t, e, start, n + 1))
  <1> DEFINE l == e[n + 1]
  <1>1. l.records_stream = "r" /\ l.sound = TRUE /\ "r" # None
    BY ReceiptStreamAssumption DEF IsHonest, IsEmitted, IsHonestConfig
  <1>2. s.recordsStream \in {None, "r"}
    BY DEF Knows, KnowsConfig
  <1>3. ~ConfigProblem(s, l)
    BY <1>1, <1>2 DEF ConfigProblem, Renamed
  <1>4. /\ t.configured = TRUE /\ t.recordsStream = "r"
        /\ t.receipts = s.receipts /\ t.lastHash = s.lastHash
        /\ t.indexKnown = s.indexKnown /\ t.lastIndex = s.lastIndex
        /\ t.cursorKnown = s.cursorKnown /\ t.lastCursor = s.lastCursor
        /\ t.gaps = s.gaps /\ t.days = s.days
    BY <1>1, <1>2 DEF AfterConfig, Renamed, Knows, IsStream, StreamFields
  <1> HIDE DEF l
  <1>5. KnowsConfig(t, e, start, n + 1)
    BY <1>4 DEF KnowsConfig
  <1>6. KnowsReceipts(t, e, start, n + 1)
    BY <1>4, ReceiptsUntouched DEF Knows
  <1>7. KnowsItsGaps(t, e, start, n + 1)
    BY <1>4, GapsUntouched DEF Knows
  <1>8. KnowsItsDays(t, e, start, n + 1)
    BY <1>4, DaysUntouched DEF Knows
  <1> QED BY <1>3, <1>5, <1>6, <1>7, <1>8 DEF Knows, l

\* The receipts of the range, and those before it.
LEMMA ReceiptPlacesKnown ==
  ASSUME NEW e, NEW n \in Nat, NEW start
  PROVE  /\ ReceiptsTo(e, n) \subseteq 1..n
         /\ ReceiptsIn(e, start, n) \subseteq ReceiptsTo(e, n)
         /\ start = 1 => ReceiptsIn(e, start, n) = ReceiptsTo(e, n)
         /\ ReceiptsTo(e, n) # {} => /\ LastOf(ReceiptsTo(e, n)) \in ReceiptsTo(e, n)
                                     /\ LastOf(ReceiptsTo(e, n)) \in 1..n
                                     /\ LastOf(ReceiptsTo(e, n)) # None
  <1>1. ReceiptsTo(e, n) \subseteq 1..n
    BY DEF ReceiptsTo, To
  <1>2. /\ ReceiptsIn(e, start, n) \subseteq ReceiptsTo(e, n)
        /\ start = 1 => ReceiptsIn(e, start, n) = ReceiptsTo(e, n)
    BY <1>1 DEF ReceiptsIn
  <1>3. ReceiptsTo(e, n) # {} => LastOf(ReceiptsTo(e, n)) \in ReceiptsTo(e, n)
    BY <1>1, LastIs
  <1>4. \A i \in 1..n : i # None
    BY ReceiptStreamAssumption
  <1> QED BY <1>1, <1>2, <1>3, <1>4

LEMMA ReceiptPasses ==
  ASSUME NEW e, NEW n \in Nat, \A i \in 1..(n + 1) : IsHonest(e, i),
         e[n + 1].action = "collection.receipt", NEW start, NEW s, Knows(s, e, start, n)
  PROVE  ~ReceiptProblem(s, e[n + 1], start = 1)
  <1> DEFINE l == e[n + 1]
             R == ReceiptsTo(e, n)
             I == ReceiptsIn(e, start, n)
             last == LastOf(R)
  <1>1. /\ R \subseteq 1..n /\ I \subseteq R /\ (start = 1 => I = R)
        /\ R # {} => last \in 1..n /\ last # None
    BY ReceiptPlacesKnown
  <1>2. Cardinality(R) \in Nat /\ (Cardinality(R) = 0 <=> R = {})
    BY <1>1, PlacesFinite
  <1>3. (n + 1) - 1 = n /\ n + 1 \in 1..(n + 1)
    OBVIOUS
  <1>4. IsHonest(e, n + 1) /\ IsEmitted(e, n + 1) /\ IsHonestReceipt(e, n + 1)
    BY <1>3 DEF IsHonest
  <1>5. /\ l.sound = TRUE /\ l.index = Cardinality(R) + 1
        /\ l.prev = IF R = {} THEN ZeroHash ELSE last
        /\ l.cursor_before = IF R = {} THEN 0 ELSE e[last].cursor_after
        /\ l.entry = n + 1 /\ l.cursor_after \in Int \cup {None}
    BY <1>3, <1>4 DEF IsEmitted, IsHonestReceipt, HeadTo
  <1>6. /\ None # ZeroHash /\ None \notin Int /\ Malformed \notin Int
    BY ReceiptStreamAssumption
  <1>7. l.index # None /\ l.prev # None
    BY <1>1, <1>2, <1>5, <1>6
  <1>8. ASSUME R # {} PROVE e[last].cursor_after \in Int \cup {None}
    <2>1. last \in R /\ last \in 1..(n + 1)
      BY <1>8, ReceiptPlacesKnown
    <2>2. IsHonest(e, last) /\ e[last].action = "collection.receipt"
      BY <2>1 DEF ReceiptsTo, To
    <2> QED BY <2>2 DEF IsHonest, IsHonestReceipt
  <1>9. IF I = {} THEN s.lastHash = None ELSE KnowsHead(s, e, n)
    BY DEF Knows, KnowsReceipts
  <1> HIDE DEF l
  <1>10. CASE I = {}
    <2>1. s.lastHash = None
      BY <1>9, <1>10
    <2>2. start = 1 => l.index = 1
      BY <1>1, <1>2, <1>5, <1>10
    <2>3. l.index = 1 => l.prev = ZeroHash
      BY <1>2, <1>5
    <2> QED BY <1>5, <1>7, <2>1, <2>2, <2>3 DEF ReceiptProblem, l
  <1>11. CASE I # {}
    <2>1. R # {}
      BY <1>1, <1>11
    <2>2. /\ s.lastHash = last /\ (s.indexKnown => s.lastIndex = Cardinality(R))
          /\ s.cursorKnown => s.lastCursor = e[last].cursor_after /\ s.lastCursor # None
      BY <1>9, <1>11 DEF KnowsHead
    <2>3. s.lastHash # None /\ l.prev = s.lastHash
      BY <1>1, <1>5, <2>1, <2>2
    <2>4. s.indexKnown => l.index = s.lastIndex + 1
      BY <1>5, <2>2
    <2>5. s.cursorKnown => SameValue(l.cursor_before, s.lastCursor)
      BY <1>5, <1>6, <1>8, <2>1, <2>2 DEF SameValue
    <2>6. ~LinkBroken(s, l)
      BY <2>3, <2>4, <2>5 DEF LinkBroken
    <2> QED BY <1>5, <1>7, <2>3, <2>6 DEF ReceiptProblem, l
  <1> QED BY <1>10, <1>11

\* A receipt, shown or redacted, is the head from then on.
LEMMA ReceiptRemembered ==
  ASSUME NEW e, NEW n \in Nat, IsHonest(e, n + 1), e[n + 1].action = "collection.receipt",
         NEW start \in 1..(n + 1), NEW s, Knows(s, e, start, n), NEW t, IsStream(t),
         t = AfterReceipt(s, e[n + 1]) \/ t = AfterRedacted(s, e[n + 1])
  PROVE  Knows(t, e, start, n + 1)
  <1> DEFINE l == e[n + 1]
             R == ReceiptsTo(e, n)
             I == ReceiptsIn(e, start, n)
  <1>1. R \subseteq 1..n /\ I \subseteq R /\ I \subseteq 1..n
    BY ReceiptPlacesKnown
  <1>2. /\ ReceiptsTo(e, n + 1) = R \cup {n + 1}
        /\ ReceiptsIn(e, start, n + 1) = I \cup {n + 1}
    <2>1. ReceiptsTo(e, n + 1) = R \cup {n + 1}
      BY NextPlace DEF ReceiptsTo
    <2> QED BY <2>1 DEF ReceiptsIn
  <1>3. Cardinality(R \cup {n + 1}) = Cardinality(R) + 1 /\ LastOf(R \cup {n + 1}) = n + 1
    BY <1>1, PlacesFinite
  <1>4. Cardinality(I \cup {n + 1}) = Cardinality(I) + 1
    BY <1>1, PlacesFinite
  <1>5. (n + 1) - 1 = n
    OBVIOUS
  <1>6. l.entry = n + 1 /\ l.index = Cardinality(R) + 1
    BY <1>5 DEF IsHonest, IsEmitted, IsHonestReceipt
  <1>7. s.receipts = Cardinality(I)
    BY DEF Knows, KnowsReceipts
  <1>8. Cardinality(R) \in Nat /\ l.index # None
    <2>1. Cardinality(R) \in Nat
      BY <1>1, PlacesFinite
    <2> QED BY <1>6, <2>1, ReceiptStreamAssumption
  <1>9. /\ t.configured = s.configured /\ t.recordsStream = s.recordsStream
        /\ t.gaps = s.gaps /\ t.days = s.days
        /\ t.receipts = s.receipts + 1 /\ t.lastHash = l.entry
        /\ t.indexKnown => t.lastIndex = l.index
        /\ t.cursorKnown => t.lastCursor = l.cursor_after /\ l.cursor_after # None
    <2>1. CASE t = AfterReceipt(s, l)
      BY <1>8, <2>1 DEF AfterReceipt, Knows, IsStream, StreamFields
    <2>2. CASE t = AfterRedacted(s, l)
      BY <2>2 DEF AfterRedacted, Knows, IsStream, StreamFields
    <2> QED BY <2>1, <2>2
  <1> HIDE DEF R, I
  <1>10. KnowsHead(t, e, n + 1)
    BY <1>2, <1>3, <1>6, <1>9 DEF KnowsHead, l
  <1>11. KnowsReceipts(t, e, start, n + 1)
    BY <1>2, <1>4, <1>7, <1>9, <1>10 DEF KnowsReceipts
  <1>12. KnowsConfig(t, e, start, n + 1)
    BY <1>9, ConfigStays DEF Knows
  <1>13. KnowsItsGaps(t, e, start, n + 1)
    BY <1>9, GapsUntouched DEF Knows
  <1>14. KnowsItsDays(t, e, start, n + 1)
    BY <1>9, DaysUntouched DEF Knows
  <1> QED BY <1>11, <1>12, <1>13, <1>14 DEF Knows

\* A gap names the head of the receipts, and no gap is declared twice.
LEMMA GapPasses ==
  ASSUME NEW e, NEW n \in Nat, IsHonest(e, n + 1), e[n + 1].action = "stream.gap",
         NEW start, NEW s, Knows(s, e, start, n)
  PROVE  ~GapProblem(s, e[n + 1], start = 1)
  <1> DEFINE l == e[n + 1]
             R == ReceiptsTo(e, n)
             I == ReceiptsIn(e, start, n)
  <1>1. /\ I \subseteq R /\ (start = 1 => I = R)
        /\ R # {} => LastOf(R) # None
    BY ReceiptPlacesKnown
  <1>2. (n + 1) - 1 = n
    OBVIOUS
  <1>3. /\ l.sound = TRUE /\ l.gap # None /\ DeclaresTo(e, n, l.gap) = {}
        /\ l.after = IF R = {} THEN ZeroHash ELSE LastOf(R)
    BY <1>2 DEF IsHonest, IsEmitted, IsHonestGap, HeadTo
  <1>4. IF I = {} THEN s.lastHash = None ELSE s.lastHash = LastOf(R)
    BY DEF Knows, KnowsReceipts, KnowsHead
  <1>5. l.gap \notin DOMAIN s.gaps
    BY <1>3 DEF Knows, KnowsItsGaps, KnowsGap
  <1>6. ZeroHash # None
    BY ReceiptStreamAssumption
  <1> HIDE DEF l, R, I
  <1>7. ~Misplaced(s, l, start = 1)
    BY <1>1, <1>3, <1>4, <1>6 DEF Misplaced
  <1> QED BY <1>3, <1>5, <1>7 DEF GapProblem, l

LEMMA GapRemembered ==
  ASSUME NEW e, NEW n \in Nat, IsHonest(e, n + 1), e[n + 1].action = "stream.gap",
         NEW start, NEW s, Knows(s, e, start, n),
         NEW t, IsStream(t), t = AfterGap(s, e[n + 1])
  PROVE  Knows(t, e, start, n + 1)
  <1> DEFINE l == e[n + 1]
  <1>1. (n + 1) - 1 = n
    OBVIOUS
  <1>2. /\ l.gap # None /\ l.bounds = l.gap
        /\ HealsTo(e, n, l.gap) = {}
    BY <1>1 DEF IsHonest, IsHonestGap
  <1>3. /\ t.gaps = Put(s.gaps, l.gap, [bounds |-> l.bounds, healed |-> FALSE])
        /\ t.configured = s.configured /\ t.recordsStream = s.recordsStream
        /\ t.receipts = s.receipts /\ t.lastHash = s.lastHash
        /\ t.indexKnown = s.indexKnown /\ t.lastIndex = s.lastIndex
        /\ t.cursorKnown = s.cursorKnown /\ t.lastCursor = s.lastCursor
        /\ t.days = s.days
    BY <1>2 DEF AfterGap, Knows, IsStream, StreamFields
  <1>4. \A gap : /\ DeclaresTo(e, n + 1, gap) =
                      IF l.gap = gap THEN DeclaresTo(e, n, gap) \cup {n + 1}
                      ELSE DeclaresTo(e, n, gap)
                 /\ HealsTo(e, n + 1, gap) = HealsTo(e, n, gap)
    BY NextPlace
  <1> HIDE DEF l
  <1>5. /\ DOMAIN t.gaps = DOMAIN s.gaps \cup {l.gap}
        /\ t.gaps[l.gap].bounds = l.bounds /\ t.gaps[l.gap].healed = FALSE
        /\ \A gap \in DOMAIN s.gaps : gap # l.gap => t.gaps[gap] = s.gaps[gap]
    BY <1>3 DEF Put
  <1>6. ASSUME NEW gap \in DOMAIN t.gaps PROVE KnowsGap(t, e, n + 1, gap)
    <2>1. CASE gap = l.gap
      BY <1>2, <1>4, <1>5, <2>1 DEF KnowsGap
    <2>2. CASE gap # l.gap
      <3>1. KnowsGap(s, e, n, gap)
        BY <1>5, <2>2 DEF Knows, KnowsItsGaps
      <3> QED BY <1>4, <1>5, <2>2, <3>1 DEF KnowsGap
    <2> QED BY <2>1, <2>2
  <1>7. ASSUME start = 1, NEW gap, DeclaresTo(e, n + 1, gap) # {}
        PROVE  gap \in DOMAIN t.gaps
    BY <1>4, <1>5, <1>7 DEF Knows, KnowsItsGaps
  <1>8. KnowsItsGaps(t, e, start, n + 1)
    BY <1>6, <1>7 DEF KnowsItsGaps
  <1>9. KnowsConfig(t, e, start, n + 1)
    BY <1>3, ConfigStays DEF Knows
  <1>10. KnowsReceipts(t, e, start, n + 1)
    BY <1>3, ReceiptsUntouched DEF Knows
  <1>11. KnowsItsDays(t, e, start, n + 1)
    BY <1>3, DaysUntouched DEF Knows
  <1> QED BY <1>8, <1>9, <1>10, <1>11 DEF Knows

\* A gap is healed after it was declared, in the range or before it.
LEMMA HealPasses ==
  ASSUME NEW e, NEW n \in Nat, IsHonest(e, n + 1), e[n + 1].action = "stream.gap_healed",
         NEW start, NEW s, Knows(s, e, start, n)
  PROVE  ~HealProblem(s, e[n + 1], start = 1)
  <1>1. (n + 1) - 1 = n
    OBVIOUS
  <1>2. e[n + 1].gap # None /\ DeclaresTo(e, n, e[n + 1].gap) # {}
    BY <1>1 DEF IsHonest, IsHonestHeal
  <1>3. start = 1 => e[n + 1].gap \in DOMAIN s.gaps
    BY <1>2 DEF Knows, KnowsItsGaps
  <1> QED BY <1>2, <1>3 DEF HealProblem

LEMMA HealRemembered ==
  ASSUME NEW e, NEW n \in Nat, IsHonest(e, n + 1), e[n + 1].action = "stream.gap_healed",
         NEW start, NEW s, Knows(s, e, start, n),
         NEW t, IsStream(t), t = AfterHeal(s, e[n + 1], start = 1)
  PROVE  Knows(t, e, start, n + 1)
  <1> DEFINE l == e[n + 1]
  <1>1. (n + 1) - 1 = n
    OBVIOUS
  <1>2. l.gap # None /\ DeclaresTo(e, n, l.gap) # {}
    BY <1>1 DEF IsHonest, IsHonestHeal
  <1>3. start = 1 => l.gap \in DOMAIN s.gaps
    BY <1>2 DEF Knows, KnowsItsGaps
  <1>4. \A gap : /\ DeclaresTo(e, n + 1, gap) = DeclaresTo(e, n, gap)
                 /\ HealsTo(e, n + 1, gap) =
                      IF l.gap = gap THEN HealsTo(e, n, gap) \cup {n + 1}
                      ELSE HealsTo(e, n, gap)
    BY NextPlace
  <1>5. IsStream(s) /\ \A gap \in DOMAIN s.gaps : IsGap(s.gaps[gap])
    BY DEF Knows, IsStream
  <1>6. t = IF l.gap \in DOMAIN s.gaps THEN [s EXCEPT !.gaps[l.gap].healed = TRUE]
            ELSE [s EXCEPT !.gaps = Put(@, l.gap, [bounds |-> None, healed |-> TRUE])]
    BY <1>2, <1>3 DEF AfterHeal
  <1> HIDE DEF l
  <1>7. /\ t.configured = s.configured /\ t.recordsStream = s.recordsStream
        /\ t.receipts = s.receipts /\ t.lastHash = s.lastHash
        /\ t.indexKnown = s.indexKnown /\ t.lastIndex = s.lastIndex
        /\ t.cursorKnown = s.cursorKnown /\ t.lastCursor = s.lastCursor
        /\ t.days = s.days
    BY <1>5, <1>6 DEF IsStream, StreamFields
  <1>8. /\ DOMAIN t.gaps = DOMAIN s.gaps \cup {l.gap} /\ t.gaps[l.gap].healed = TRUE
        /\ t.gaps[l.gap].bounds = IF l.gap \in DOMAIN s.gaps THEN s.gaps[l.gap].bounds ELSE None
        /\ \A gap \in DOMAIN s.gaps : gap # l.gap => t.gaps[gap] = s.gaps[gap]
    <2>1. CASE l.gap \in DOMAIN s.gaps
      <3>1. t.gaps = [s.gaps EXCEPT ![l.gap].healed = TRUE]
        BY <1>5, <1>6, <2>1 DEF IsStream, StreamFields
      <3>2. t.gaps[l.gap] = [s.gaps[l.gap] EXCEPT !.healed = TRUE]
        BY <2>1, <3>1
      <3>3. {"bounds", "healed"} \subseteq DOMAIN s.gaps[l.gap]
        BY <1>5, <2>1 DEF IsGap
      <3>4. /\ t.gaps[l.gap].healed = TRUE
            /\ t.gaps[l.gap].bounds = s.gaps[l.gap].bounds
        BY <3>2, <3>3
      <3>5. /\ DOMAIN t.gaps = DOMAIN s.gaps
            /\ \A gap \in DOMAIN s.gaps : gap # l.gap => t.gaps[gap] = s.gaps[gap]
        BY <3>1
      <3> QED BY <2>1, <3>4, <3>5
    <2>2. CASE l.gap \notin DOMAIN s.gaps
      <3>1. t.gaps = Put(s.gaps, l.gap, [bounds |-> None, healed |-> TRUE])
        BY <1>5, <1>6, <2>2 DEF IsStream, StreamFields
      <3> QED BY <2>2, <3>1 DEF Put
    <2> QED BY <2>1, <2>2
  <1>9. ASSUME NEW gap \in DOMAIN t.gaps PROVE KnowsGap(t, e, n + 1, gap)
    <2>1. gap \in DOMAIN s.gaps => KnowsGap(s, e, n, gap)
      BY DEF Knows, KnowsItsGaps
    <2>2. CASE gap = l.gap
      BY <1>2, <1>4, <1>8, <2>1, <2>2 DEF KnowsGap
    <2>3. CASE gap # l.gap
      BY <1>4, <1>8, <2>1, <2>3 DEF KnowsGap
    <2> QED BY <2>2, <2>3
  <1>10. ASSUME start = 1, NEW gap, DeclaresTo(e, n + 1, gap) # {}
         PROVE  gap \in DOMAIN t.gaps
    BY <1>4, <1>8, <1>10 DEF Knows, KnowsItsGaps
  <1>11. KnowsItsGaps(t, e, start, n + 1)
    BY <1>9, <1>10 DEF KnowsItsGaps
  <1>12. KnowsConfig(t, e, start, n + 1)
    BY <1>7, ConfigStays DEF Knows
  <1>13. KnowsReceipts(t, e, start, n + 1)
    BY <1>7, ReceiptsUntouched DEF Knows
  <1>14. KnowsItsDays(t, e, start, n + 1)
    BY <1>7, DaysUntouched DEF Knows
  <1> QED BY <1>11, <1>12, <1>13, <1>14 DEF Knows

\* The settlements of a day.
LEMMA DayPlaces ==
  ASSUME NEW e, NEW n \in Nat, NEW day
  PROVE  LET D == SettlesTo(e, n, day) IN
         /\ D \subseteq 1..n /\ Cardinality(D) \in Nat /\ (Cardinality(D) = 0 <=> D = {})
         /\ Cardinality(D \cup {n + 1}) = Cardinality(D) + 1
         /\ LastOf(D \cup {n + 1}) = n + 1
         /\ D # {} => LastOf(D) \in D
  <1>1. SettlesTo(e, n, day) \subseteq 1..n
    BY DEF SettlesTo, To
  <1> QED BY <1>1, PlacesFinite, LastIs

\* What a settlement lists is what was declared before it, healed or not.
LEMMA ListedPasses ==
  ASSUME NEW e, NEW n \in Nat, IsHonest(e, n + 1), e[n + 1].action = "stream.settled",
         NEW start, NEW s, Knows(s, e, start, n), NEW k \in DOMAIN e[n + 1].gaps
  PROVE  ~ListedProblem(s, e[n + 1].gaps[k], start = 1)
  <1> DEFINE item == e[n + 1].gaps[k]
  <1>1. (n + 1) - 1 = n
    OBVIOUS
  <1>2. /\ item.gap # None /\ item.bounds = item.gap /\ DeclaresTo(e, n, item.gap) # {}
        /\ item.healed = (HealsTo(e, n, item.gap) # {})
    BY <1>1 DEF IsHonest, IsHonestSettlement, ListsGaps
  <1> HIDE DEF item
  <1>3. start = 1 => item.gap \in DOMAIN s.gaps
    BY <1>2 DEF Knows, KnowsItsGaps
  <1>4. item.gap \in DOMAIN s.gaps =>
          /\ s.gaps[item.gap].bounds \in {None, item.gap}
          /\ s.gaps[item.gap].healed <=> HealsTo(e, n, item.gap) # {}
          /\ s.gaps[item.gap].healed \in BOOLEAN
    BY DEF Knows, KnowsItsGaps, KnowsGap, IsStream, IsGap
  <1>5. item.healed \in BOOLEAN
    BY <1>2
  <1>6. item.gap \in DOMAIN s.gaps => s.gaps[item.gap].healed = (item.healed = TRUE)
    BY <1>2, <1>4
  <1>7. ~ListedProblem(s, item, start = 1)
    BY <1>2, <1>3, <1>4, <1>5, <1>6 DEF ListedProblem
  <1> QED BY <1>7 DEF item

\* The head and the number of receipts that a settlement names.
LEMMA SettledReceiptsPass ==
  ASSUME NEW e, NEW n \in Nat, IsHonest(e, n + 1), e[n + 1].action = "stream.settled",
         NEW start, NEW s, Knows(s, e, start, n)
  PROVE  ~ReceiptsProblem(s, e[n + 1], start = 1)
  <1> DEFINE l == e[n + 1]
             R == ReceiptsTo(e, n)
             I == ReceiptsIn(e, start, n)
  <1>1. /\ R \subseteq 1..n /\ I \subseteq R /\ (start = 1 => I = R)
        /\ R # {} => LastOf(R) # None
    BY ReceiptPlacesKnown
  <1>2. (n + 1) - 1 = n
    OBVIOUS
  <1>3. /\ l.head = IF R = {} THEN None ELSE LastOf(R)
        /\ l.count = Cardinality(R)
    BY <1>2 DEF IsHonest, IsHonestSettlement
  <1>4. /\ s.receipts = Cardinality(I)
        /\ IF I = {} THEN s.lastHash = None ELSE s.lastHash = LastOf(R)
    BY DEF Knows, KnowsReceipts, KnowsHead
  <1>5. IsFiniteSet(R) /\ Cardinality(R) \in Nat
    BY <1>1, PlacesFinite
  <1>6. Cardinality(I) \in Nat /\ Cardinality(I) <= Cardinality(R)
    <2>1. I \in SUBSET R
      BY <1>1
    <2>2. IsFiniteSet(I) /\ Cardinality(I) <= Cardinality(R)
      BY <1>5, <2>1, FS_Subset
    <2> QED BY <2>2, FS_CardinalityType
  <1>7. l.count # None
    BY <1>3, <1>5, ReceiptStreamAssumption
  <1> HIDE DEF l, R, I
  <1>8. s.lastHash # None => l.head = s.lastHash
    BY <1>1, <1>3, <1>4
  <1>9. s.lastHash = None /\ start = 1 => l.head = None
    BY <1>1, <1>3, <1>4
  <1>10. (start = 1 => l.count = s.receipts) /\ ~(l.count < s.receipts)
    BY <1>1, <1>3, <1>4, <1>5, <1>6
  <1> QED BY <1>7, <1>8, <1>9, <1>10 DEF ReceiptsProblem, l

\* A settlement of a day follows the one before it, in the range or before it.
LEMMA SupplementPasses ==
  ASSUME NEW e, NEW n \in Nat, n + 1 \in 1..MaxEvents,
         IsHonest(e, n + 1), e[n + 1].action = "stream.settled",
         NEW start \in 1..(n + 1), NEW s, Knows(s, e, start, n)
  PROVE  ~SupplementProblem(s, e[n + 1], start)
  <1> DEFINE l == e[n + 1]
             D == SettlesTo(e, n, l.day)
             last == LastOf(D)
  <1>1. (n + 1) - 1 = n
    OBVIOUS
  <1>2. /\ l.supplement = Cardinality(D)
        /\ l.previous = IF D = {} THEN None ELSE [sequence |-> last, hash |-> last]
    BY <1>1 DEF IsHonest, IsHonestSettlement
  <1>3. /\ D \subseteq 1..n /\ Cardinality(D) \in Nat /\ (Cardinality(D) = 0 <=> D = {})
        /\ D # {} => last \in D
    BY DayPlaces
  <1>4. l.day \in DOMAIN s.days =>
          /\ D # {} /\ s.days[l.day].supplement = Cardinality(D) - 1
          /\ s.days[l.day].seq = last /\ s.days[l.day].hash = last
    BY DEF Knows, KnowsItsDays, KnowsDay
  <1>5. \A i \in D : start <= i => l.day \in DOMAIN s.days
    BY DEF Knows, KnowsItsDays
  <1> HIDE DEF l, D, last
  <1>6. CASE D = {}
    BY <1>2, <1>3, <1>4, <1>6 DEF SupplementProblem, l
  <1>7. CASE D # {}
    <2>6. MaxEvents \in Nat
      BY ReceiptStreamAssumption
    <2>7. last \in 1..n /\ l.supplement # 0
      BY <1>2, <1>3, <1>7
    <2>1. last \in 1..MaxEvents /\ last \in Int /\ l.supplement # 0
      BY <2>6, <2>7
    <2>2. l.previous = [sequence |-> last, hash |-> last]
      BY <1>2, <1>7
    <2>3. l.previous \notin {None, Malformed}
      BY <2>1, <2>2, ReceiptStreamAssumption
    <2>4. CASE l.day \in DOMAIN s.days
      BY <1>2, <1>3, <1>4, <2>1, <2>2, <2>3, <2>4 DEF SupplementProblem, l
    <2>5. CASE l.day \notin DOMAIN s.days
      <3>1. ~(l.previous.sequence >= start)
        BY <1>3, <1>5, <1>7, <2>1, <2>2, <2>5
      <3> QED BY <2>1, <2>3, <2>5, <3>1 DEF SupplementProblem, l
    <2> QED BY <2>4, <2>5
  <1> QED BY <1>6, <1>7

LEMMA SettlementPasses ==
  ASSUME NEW e, NEW n \in Nat, n + 1 \in 1..MaxEvents,
         IsHonest(e, n + 1), e[n + 1].action = "stream.settled",
         NEW start \in 1..(n + 1), NEW s, Knows(s, e, start, n)
  PROVE  ~SettlementProblem(s, e[n + 1], start)
  <1> DEFINE l == e[n + 1]
  <1>1. (n + 1) - 1 = n
    OBVIOUS
  <1>2. /\ l.sound = TRUE /\ l.day # None /\ l.supplement = Cardinality(SettlesTo(e, n, l.day))
        /\ l.state = IF \E k \in DOMAIN l.gaps : ~l.gaps[k].healed
                     THEN "gapped" ELSE "settled"
    BY <1>1 DEF IsHonest, IsEmitted, IsHonestSettlement
  <1>3. \A k \in DOMAIN l.gaps : /\ l.gaps[k].gap # None
                                 /\ l.gaps[k].healed \in BOOLEAN
    BY <1>1 DEF IsHonest, IsHonestSettlement, ListsGaps
  <1>4. l.supplement # None /\ l.state # None
    <2>1. None \notin Int /\ None # "gapped" /\ None # "settled"
      BY ReceiptStreamAssumption
    <2>3. Cardinality(SettlesTo(e, n, l.day)) \in Nat
      BY DayPlaces
    <2>2. l.supplement \in Nat
      BY <1>2, <2>3
    <2> HIDE DEF l
    <2> QED BY <1>2, <2>1, <2>2
  <1>5. (l.state = "gapped") <=> ListsUnhealed(l)
    <2>1. ListsUnhealed(l) <=> \E k \in DOMAIN l.gaps : ~l.gaps[k].healed
      BY <1>3 DEF ListsUnhealed
    <2> HIDE DEF l
    <2> QED BY <1>2, <2>1
  <1>6. ~ReceiptsProblem(s, l, start = 1)
    BY SettledReceiptsPass
  <1>7. ~\E k \in DOMAIN l.gaps : ListedProblem(s, l.gaps[k], start = 1)
    BY ListedPasses
  <1>8. ~SupplementProblem(s, l, start)
    BY SupplementPasses
  <1> HIDE DEF l
  <1>9. ~((l.state = "gapped") # ListsUnhealed(l))
    BY <1>5 DEF ListsUnhealed
  <1> QED BY <1>2, <1>4, <1>6, <1>7, <1>8, <1>9 DEF SettlementProblem, l

LEMMA SettlementRemembered ==
  ASSUME NEW e, NEW n \in Nat, IsHonest(e, n + 1), e[n + 1].action = "stream.settled",
         NEW start, NEW s, Knows(s, e, start, n),
         NEW t, IsStream(t), t = AfterSettlement(s, e[n + 1])
  PROVE  Knows(t, e, start, n + 1)
  <1> DEFINE l == e[n + 1]
             D == SettlesTo(e, n, l.day)
  <1>1. (n + 1) - 1 = n
    OBVIOUS
  <1>2. /\ l.seq = n + 1 /\ l.entry = n + 1
        /\ l.day # None /\ l.supplement = Cardinality(D)
    BY <1>1 DEF IsHonest, IsEmitted, IsHonestSettlement
  <1>3. /\ Cardinality(D) \in Nat /\ Cardinality(D \cup {n + 1}) = Cardinality(D) + 1
        /\ LastOf(D \cup {n + 1}) = n + 1
    BY DayPlaces
  <1>4. l.supplement # None
    BY <1>2, <1>3, ReceiptStreamAssumption
  <1>5. /\ t.days = Put(s.days, l.day, [supplement |-> l.supplement, seq |-> l.seq,
                                        hash |-> l.entry])
        /\ t.configured = s.configured /\ t.recordsStream = s.recordsStream
        /\ t.receipts = s.receipts /\ t.lastHash = s.lastHash
        /\ t.indexKnown = s.indexKnown /\ t.lastIndex = s.lastIndex
        /\ t.cursorKnown = s.cursorKnown /\ t.lastCursor = s.lastCursor
        /\ t.gaps = s.gaps
    BY <1>2, <1>4 DEF AfterSettlement, Knows, IsStream, StreamFields
  <1>6. \A day : SettlesTo(e, n + 1, day) =
                   IF l.day = day THEN SettlesTo(e, n, day) \cup {n + 1}
                   ELSE SettlesTo(e, n, day)
    BY NextPlace
  <1> HIDE DEF l
  <1>7. /\ DOMAIN t.days = DOMAIN s.days \cup {l.day}
        /\ t.days[l.day].supplement = l.supplement
        /\ t.days[l.day].seq = n + 1 /\ t.days[l.day].hash = n + 1
        /\ \A day \in DOMAIN s.days : day # l.day => t.days[day] = s.days[day]
    BY <1>2, <1>5 DEF Put
  <1>8. ASSUME NEW day \in DOMAIN t.days PROVE KnowsDay(t, e, n + 1, day)
    <2>1. CASE day = l.day
      <3>1. SettlesTo(e, n + 1, day) = D \cup {n + 1}
        BY <1>6, <2>1
      <3> HIDE DEF D
      <3>2. l.supplement = Cardinality(D \cup {n + 1}) - 1
        BY <1>2, <1>3
      <3> QED BY <1>3, <1>7, <2>1, <3>1, <3>2 DEF KnowsDay
    <2>2. CASE day # l.day
      <3>1. KnowsDay(s, e, n, day) /\ t.days[day] = s.days[day]
        BY <1>7, <2>2 DEF Knows, KnowsItsDays
      <3> QED BY <1>6, <2>2, <3>1 DEF KnowsDay
    <2> QED BY <2>1, <2>2
  <1>9. ASSUME NEW day, NEW i \in SettlesTo(e, n + 1, day), start <= i
        PROVE  day \in DOMAIN t.days
    BY <1>6, <1>7, <1>9 DEF Knows, KnowsItsDays
  <1>10. KnowsItsDays(t, e, start, n + 1)
    BY <1>8, <1>9 DEF KnowsItsDays
  <1>11. KnowsConfig(t, e, start, n + 1)
    BY <1>5, ConfigStays DEF Knows, l
  <1>12. KnowsReceipts(t, e, start, n + 1)
    BY <1>5, ReceiptsUntouched DEF Knows, l
  <1>13. KnowsItsGaps(t, e, start, n + 1)
    BY <1>5, GapsUntouched DEF Knows, l
  <1> QED BY <1>10, <1>11, <1>12, <1>13 DEF Knows
-----------------------------------------------------------------------------
(* The pass over an export.                                                *)

LEMMA NothingKnown ==
  ASSUME NEW e, NEW start \in Nat \ {0}
  PROVE  Knows(NewStream, e, start, start - 1)
  <1>1. ReceiptsIn(e, start, start - 1) = {} /\ Cardinality({}) = 0
    BY FS_EmptySet DEF ReceiptsIn, ReceiptsTo, To
  <1>2. KnowsReceipts(NewStream, e, start, start - 1)
    BY <1>1 DEF KnowsReceipts, NewStream
  <1>3. start = 1 => /\ \A action : To(e, start - 1, action) = {}
                     /\ \A gap : DeclaresTo(e, start - 1, gap) = {}
    BY DEF DeclaresTo, To
  <1>4. KnowsConfig(NewStream, e, start, start - 1)
    BY <1>3 DEF KnowsConfig, NewStream
  <1>5. DOMAIN NewStream.gaps = {} /\ DOMAIN NewStream.days = {}
    BY DEF NewStream
  <1>6. KnowsItsGaps(NewStream, e, start, start - 1)
    BY <1>3, <1>5 DEF KnowsItsGaps
  <1>7. \A day : \A i \in SettlesTo(e, start - 1, day) : ~(start <= i)
    BY DEF SettlesTo, To
  <1>8. KnowsItsDays(NewStream, e, start, start - 1)
    BY <1>5, <1>7 DEF KnowsItsDays
  <1>9. IsStream(NewStream)
    BY DEF IsStream, StreamFields, NewStream
  <1> QED BY <1>2, <1>4, <1>6, <1>8, <1>9 DEF Knows

\* One record of an honest stream: nothing is reported, and what is remembered is
\* what is so.
LEMMA RecordPasses ==
  ASSUME NEW e, NEW n \in Nat, n + 1 \in 1..MaxEvents, \A i \in 1..(n + 1) : IsHonest(e, i),
         NEW start \in 1..(n + 1), NEW s, Knows(s, e, start, n)
  PROVE  /\ ~RecordProblem(s, e[n + 1], start)
         /\ Knows(AfterRecord(s, e[n + 1], start), e, start, n + 1)
  <1> DEFINE l == e[n + 1]
             t == AfterRecord(s, l, start)
  <1>1. IsHonest(e, n + 1) /\ IsEmitted(e, n + 1) /\ (n + 1) - 1 = n
    BY DEF IsHonest
  <1>2. /\ l.action \in Actions /\ l.payload \in {"object", None}
        /\ l.payload = None => l.action = "collection.receipt"
        /\ l.action # "stream.config" => To(e, n, "stream.config") # {}
    BY <1>1 DEF IsEmitted
  <1>3. None # Malformed /\ None # "object" /\ Malformed # "object"
    BY ReceiptStreamAssumption
  <1>4. IsStream(s)
    BY DEF Knows
  <1>5. IsStream(t)
    BY <1>2, <1>4, StreamType
  <1>6. ~Unconfigured(s, l, start = 1)
    BY <1>2 DEF Unconfigured, Knows, KnowsConfig
  <1>7. CASE l.payload = None
    <2> HIDE DEF l
    <2>1. ~RecordProblem(s, l, start)
      BY <1>3, <1>7 DEF RecordProblem
    <2>2. t = AfterRedacted(s, l)
      BY <1>3, <1>7 DEF AfterRecord
    <2>3. Knows(t, e, start, n + 1)
      BY <1>1, <1>2, <1>5, <1>7, <2>2, ReceiptRemembered DEF l
    <2> QED BY <2>1, <2>3 DEF l
  <1>8. CASE l.payload = "object"
    <2>1. CASE l.action = "stream.config"
      <3>1. t = AfterConfig(s, l)
        BY <1>3, <1>8, <2>1 DEF AfterRecord
      <3>2. ~ConfigProblem(s, l) /\ Knows(t, e, start, n + 1)
        BY <1>1, <1>5, <2>1, <3>1, ConfigPasses
      <3> HIDE DEF l
      <3>3. ~RecordProblem(s, l, start)
        BY <1>3, <1>6, <1>8, <2>1, <3>2 DEF RecordProblem
      <3> QED BY <3>2, <3>3 DEF l
    <2>2. CASE l.action = "collection.receipt"
      <3>1. t = AfterReceipt(s, l)
        BY <1>3, <1>8, <2>2 DEF AfterRecord
      <3>2. ~ReceiptProblem(s, l, start = 1)
        BY <2>2, ReceiptPasses
      <3>4. Knows(t, e, start, n + 1)
        BY <1>1, <1>5, <2>2, <3>1, ReceiptRemembered
      <3> HIDE DEF l
      <3>3. ~RecordProblem(s, l, start)
        BY <1>3, <1>6, <1>8, <2>2, <3>2 DEF RecordProblem
      <3> QED BY <3>3, <3>4 DEF l
    <2>3. CASE l.action = "stream.gap"
      <3>1. t = AfterGap(s, l)
        BY <1>3, <1>8, <2>3 DEF AfterRecord
      <3>2. ~GapProblem(s, l, start = 1)
        BY <1>1, <2>3, GapPasses
      <3>4. Knows(t, e, start, n + 1)
        BY <1>1, <1>5, <2>3, <3>1, GapRemembered
      <3> HIDE DEF l
      <3>3. ~RecordProblem(s, l, start)
        BY <1>3, <1>6, <1>8, <2>3, <3>2 DEF RecordProblem
      <3> QED BY <3>3, <3>4 DEF l
    <2>4. CASE l.action = "stream.gap_healed"
      <3>1. t = AfterHeal(s, l, start = 1)
        BY <1>3, <1>8, <2>4 DEF AfterRecord
      <3>2. ~HealProblem(s, l, start = 1)
        BY <1>1, <2>4, HealPasses
      <3>4. Knows(t, e, start, n + 1)
        BY <1>1, <1>5, <2>4, <3>1, HealRemembered
      <3> HIDE DEF l
      <3>3. ~RecordProblem(s, l, start)
        BY <1>3, <1>6, <1>8, <2>4, <3>2 DEF RecordProblem
      <3> QED BY <3>3, <3>4 DEF l
    <2>5. CASE l.action = "stream.settled"
      <3>1. t = AfterSettlement(s, l)
        BY <1>3, <1>8, <2>5 DEF AfterRecord
      <3>2. ~SettlementProblem(s, l, start)
        BY <1>1, <2>5, SettlementPasses
      <3>4. Knows(t, e, start, n + 1)
        BY <1>1, <1>5, <2>5, <3>1, SettlementRemembered
      <3> HIDE DEF l
      <3>3. ~RecordProblem(s, l, start)
        BY <1>3, <1>6, <1>8, <2>5, <3>2 DEF RecordProblem
      <3> QED BY <3>3, <3>4 DEF l
    <2> QED BY <1>2, <2>1, <2>2, <2>3, <2>4, <2>5 DEF Actions
  <1> QED BY <1>2, <1>7, <1>8

\* The pass over a range, record by record.
IsPass(p, events, connection, rangeFrom) ==
  /\ p[0] = NewPass(connection)
  /\ \A k \in 1..Len(events) : p[k] = CheckRecord(p[k - 1], events[k], rangeFrom)
  /\ PassOver(events, connection, rangeFrom) = p[Len(events)]

LEMMA PassUnfolds ==
  ASSUME NEW events, Len(events) \in Nat, NEW connection, NEW rangeFrom
  PROVE  \E p : IsPass(p, events, connection, rangeFrom)
  <1> DEFINE N == Len(events)
             Value(p, n) == IF n = 0 THEN NewPass(connection)
                            ELSE CheckRecord(p[n - 1], events[n], rangeFrom)
             Solves(p, m) == p = [n \in 0..m |-> Value(p, n)]
             T == {m \in Nat : \E p : Solves(p, m)}
             pass == CHOOSE p : Solves(p, N)
  <1>1. 0 \in T
    <2> DEFINE p == [n \in 0..0 |-> NewPass(connection)]
    <2>1. p[0] = NewPass(connection) /\ p = [n \in 0..0 |-> p[n]]
      OBVIOUS
    <2> HIDE DEF p
    <2>2. \A n \in 0..0 : p[n] = Value(p, n)
      BY <2>1
    <2>3. Solves(p, 0)
      BY <2>1, <2>2
    <2> QED BY <2>3
  <1>2. ASSUME NEW m \in Nat, m \in T PROVE m + 1 \in T
    <2>1. PICK q : Solves(q, m)
      BY <1>2
    <2> DEFINE p == [n \in 0..(m + 1) |->
                       IF n = m + 1 THEN CheckRecord(q[m], events[m + 1], rangeFrom)
                       ELSE q[n]]
    <2>2. \A n \in 0..m : q[n] = Value(q, n)
      BY <2>1
    <2>3. /\ p = [n \in 0..(m + 1) |-> p[n]]
          /\ p[m + 1] = CheckRecord(q[m], events[m + 1], rangeFrom)
          /\ \A n \in 0..m : p[n] = q[n]
      OBVIOUS
    <2> HIDE DEF p, Solves
    <2>4. ASSUME NEW n \in 0..(m + 1) PROVE p[n] = Value(p, n)
      <3>1. CASE n = 0
        BY <2>2, <2>3, <3>1
      <3>2. CASE n \in 1..m
        <4>1. n \in 0..m /\ n - 1 \in 0..m /\ n # 0
          BY <3>2
        <4> QED BY <2>2, <2>3, <4>1
      <3>3. CASE n = m + 1
        <4>1. m \in 0..m /\ n - 1 = m /\ n # 0
          BY <3>3
        <4> QED BY <2>3, <3>3, <4>1
      <3> QED BY <3>1, <3>2, <3>3
    <2>5. Solves(p, m + 1)
      BY <2>3, <2>4 DEF Solves
    <2> QED BY <2>5
  <1>3. \A m \in Nat : m \in T
    <2> HIDE DEF T
    <2> QED BY <1>1, <1>2, StepInduction
  <1>4. \E p : Solves(p, N)
    <2> HIDE DEF Solves
    <2> QED BY <1>3
  <1>5. Solves(pass, N)
    <2> HIDE DEF Solves
    <2> QED BY <1>4
  <1>6. PassOver(events, connection, rangeFrom) = pass[N]
    BY DEF PassOver
  <1> HIDE DEF pass
  <1>7. \A n \in 0..N : pass[n] = Value(pass, n)
    BY <1>5
  <1>8. pass[0] = NewPass(connection)
    BY <1>7
  <1>9. \A n \in 1..N : pass[n] = CheckRecord(pass[n - 1], events[n], rangeFrom)
    BY <1>7
  <1> QED BY <1>6, <1>8, <1>9 DEF IsPass

\* What the pass knows after k records of an honest export.
PassesTo(p, e, start, k) ==
  /\ p[k].ok = TRUE
  /\ DOMAIN p[k].streams = IF k = 0 THEN {} ELSE {"a"}
  /\ Knows(StreamOf(p[k].streams, "a"), e, start, start + k - 1)

LEMMA NextRecordPasses ==
  ASSUME NEW e, NEW n \in Nat, n <= MaxEvents, \A i \in 1..n : IsHonest(e, i),
         NEW start \in 1..n, NEW p, NEW k \in Nat, start + k \in 1..n,
         PassesTo(p, e, start, k), p[k + 1] = CheckRecord(p[k], e[start + k], start)
  PROVE  PassesTo(p, e, start, k + 1)
  <1> DEFINE m == start + k - 1
             l == e[m + 1]
             s == StreamOf(p[k].streams, "a")
             t == AfterRecord(s, l, start)
  <1>1. /\ m \in Nat /\ m + 1 = start + k /\ start \in 1..(m + 1)
        /\ m + 1 \in 1..n /\ start + (k + 1) - 1 = m + 1 /\ k + 1 # 0
    OBVIOUS
  <1>2. m + 1 \in 1..MaxEvents /\ \A i \in 1..(m + 1) : IsHonest(e, i)
    BY <1>1, ReceiptStreamAssumption
  <1>3. p[k].ok = TRUE /\ DOMAIN p[k].streams \subseteq {"a"} /\ Knows(s, e, start, m)
    BY DEF PassesTo
  <1> HIDE DEF m
  <1>4. ~RecordProblem(s, l, start) /\ Knows(t, e, start, m + 1)
    BY <1>1, <1>2, <1>3, RecordPasses
  <1>5. l.action \in Actions /\ l.key = "a"
    BY <1>1 DEF IsHonest, IsEmitted
  <1>6. IsRecord(l)
    BY <1>5 DEF IsRecord, Actions
  <1>7. p[k + 1] = [streams |-> Put(p[k].streams, "a", t),
                    ok |-> p[k].ok /\ ~RecordProblem(s, l, start)]
    BY <1>1, <1>5, <1>6 DEF CheckRecord
  <1> HIDE DEF l, s, t
  <1>8. p[k + 1].ok = TRUE /\ p[k + 1].streams = Put(p[k].streams, "a", t)
    <2>1. (p[k].ok /\ ~RecordProblem(s, l, start)) = TRUE
      BY <1>3, <1>4, Zenon
    <2>2. p[k + 1] = [streams |-> Put(p[k].streams, "a", t), ok |-> TRUE]
      BY <1>7, <2>1
    <2> QED BY <2>2
  <1>9. DOMAIN p[k + 1].streams = {"a"} /\ p[k + 1].streams["a"] = t
    BY <1>3, <1>8 DEF Put
  <1>10. StreamOf(p[k + 1].streams, "a") = t
    BY <1>9 DEF StreamOf
  <1> QED BY <1>1, <1>4, <1>8, <1>9, <1>10 DEF PassesTo

\* An export is the events from its start on.
LEMMA ExportEvents ==
  ASSUME HonestLog, NEW start \in DOMAIN log
  PROVE  /\ Len(log) \in Nat /\ DOMAIN log = 1..Len(log)
         /\ Len(ExportFrom(start)) = Len(log) - start + 1
         /\ \A k \in 1..(Len(log) - start + 1) : ExportFrom(start)[k] = log[start + k - 1]
  <1>1. Len(log) \in Nat /\ DOMAIN log = 1..Len(log)
    BY ListFacts DEF HonestLog
  <1>2. start \in 1..Len(log)
    BY <1>1
  <1>3. /\ Len(ExportFrom(start)) = Len(log) - start + 1
        /\ \A k \in 1..(Len(log) - start + 1) : ExportFrom(start)[k] = log[start + k - 1]
    BY <1>1, <1>2 DEF ExportFrom, HonestLog, IsList
  <1> QED BY <1>1, <1>3

LEMMA HonestLogPasses ==
  ASSUME HonestLog, NEW start \in DOMAIN log
  PROVE  CollectionPasses(ExportFrom(start), Connection, start)
  <1> DEFINE events == ExportFrom(start)
             N == Len(events)
  <1>1. /\ Len(log) \in Nat /\ start \in 1..Len(log) /\ N = Len(log) - start + 1
        /\ \A k \in 1..N : events[k] = log[start + k - 1]
    BY ExportEvents
  <1>2. /\ Len(log) <= MaxEvents /\ \A i \in 1..Len(log) : IsHonest(log, i)
    BY ExportEvents DEF HonestLog
  <1> HIDE DEF events
  <1>3. N \in Nat \ {0} /\ start \in Nat \ {0}
    BY <1>1
  <1>4. PICK p : IsPass(p, events, Connection, start)
    BY <1>3, PassUnfolds
  <1>5. /\ p[0] = NewPass(Connection)
        /\ \A k \in 1..N : p[k] = CheckRecord(p[k - 1], events[k], start)
        /\ PassOver(events, Connection, start) = p[N]
    BY <1>4 DEF IsPass
  <1> DEFINE T == {k \in Nat : k <= N => PassesTo(p, log, start, k)}
  <1>6. 0 \in T
    <2>1. p[0].ok = TRUE /\ p[0].streams = <<>> /\ DOMAIN p[0].streams = {}
      <3>1. Connection # Malformed
        BY ReceiptStreamAssumption
      <3>2. (Connection # Malformed) = TRUE
        BY <3>1
      <3>3. p[0] = [streams |-> <<>>, ok |-> TRUE]
        BY <1>5, <3>2 DEF NewPass
      <3>4. DOMAIN <<>> = {}
        OBVIOUS
      <3> QED BY <3>3, <3>4
    <2>2. StreamOf(p[0].streams, "a") = NewStream
      BY <2>1 DEF StreamOf
    <2>3. Knows(NewStream, log, start, start - 1) /\ start + 0 - 1 = start - 1
      BY <1>3, NothingKnown
    <2>4. PassesTo(p, log, start, 0)
      BY <2>1, <2>2, <2>3 DEF PassesTo
    <2> QED BY <2>4
  <1>7. ASSUME NEW k \in Nat, k \in T PROVE k + 1 \in T
    <2> SUFFICES ASSUME k + 1 <= N PROVE PassesTo(p, log, start, k + 1)
      OBVIOUS
    <2>1. PassesTo(p, log, start, k)
      BY <1>3, <1>7
    <2>2. k + 1 \in 1..N /\ (k + 1) - 1 = k /\ start + (k + 1) - 1 = start + k
          /\ start + k \in 1..Len(log)
      BY <1>1, <1>3
    <2>3. p[k + 1] = CheckRecord(p[k], log[start + k], start)
      BY <1>1, <1>5, <2>2
    <2> QED BY <1>1, <1>2, <2>1, <2>2, <2>3, NextRecordPasses
  <1>8. N \in T
    <2> HIDE DEF T
    <2> QED BY <1>3, <1>6, <1>7, StepInduction
  <1>9. PassesTo(p, log, start, N)
    BY <1>3, <1>8
  <1> DEFINE streamsAt == p[N].streams
  <1>10. /\ p[N].ok = TRUE /\ DOMAIN streamsAt = {"a"}
         /\ streamsAt["a"].recordsStream \in {None, "r"}
    BY <1>3, <1>9 DEF PassesTo, StreamOf, Knows, KnowsConfig
  <1>11. Connection.listed = [k \in {"a"} |-> "r"]
    BY DEF Connection
  <1> HIDE DEF streamsAt
  <1>12. ~ConnectionProblem(Connection, streamsAt, start)
    <2>1. streamsAt # <<>>
      BY <1>10
    <2> QED BY <1>10, <1>11, <2>1 DEF ConnectionProblem
  <1>13. CollectionPasses(events, Connection, start)
    BY <1>5, <1>10, <1>12 DEF CollectionPasses, streamsAt
  <1> QED BY <1>13 DEF events

\* Every record of an honest stream is as collection.go asks of it, wherever the
\* stream has come to: the receipts chain, a gap is declared once and healed after
\* it, a settlement says what is so.
THEOREM HonestStream ==
  ASSUME Redactable \subseteq {"collection.receipt"}
  PROVE  StreamSpec => []HonestLog
  <1>1. HonestLog /\ [StreamNext]_log => HonestLog'
    BY StepHonest
  <1> QED BY <1>1, InitHonest, PTL DEF StreamSpec

\* "Links to records before the range are noted and never failed" (collection.go):
\* wherever an export of an honest stream begins, and whichever of its receipts
\* are redacted, checkCollectionRecords reports nothing.
THEOREM HonestExportsPass ==
  ASSUME Redactable \subseteq {"collection.receipt"}
  PROVE  StreamSpec => []HonestExportPasses
  <1>1. HonestLog => HonestExportPasses
    BY HonestLogPasses DEF HonestExportPasses
  <1>2. StreamSpec => []HonestLog
    BY HonestStream
  <1> QED BY <1>1, <1>2, PTL
=============================================================================
