--------------------------- MODULE CollectionPass ---------------------------
(***************************************************************************)
(* The pass of checkCollectionRecords over the events of one bundle, as a  *)
(* state machine: the events are chosen one at a time from the bundle's    *)
(* own set of records, so a bundle stands for every file whose records are *)
(* of those kinds.  Each gets the next sequence of the range and the entry *)
(* hash of its place, which is what the walk has established of a file     *)
(* whose content integrity stands.                                         *)
(***************************************************************************)
EXTENDS Collection, FiniteSets

CONSTANTS
  Exports,      \* the bundles: range_from, connection.json, the records
  MaxRecords    \* bound: the events of a bundle

Actions == {"stream.config", "collection.receipt", "stream.gap", "stream.gap_healed",
            "stream.settled"}

\* The fields of an event that is read: a gap has bounds, whatever they are.
IsEvent(l) ==
  /\ "action" \in DOMAIN l
  /\ IsRecord(l) => /\ {"key", "payload"} \subseteq DOMAIN l
                    /\ l.action \in Actions /\ l.payload \in {"object", None, Malformed}
  /\ l.action = "stream.gap" => "bounds" \in DOMAIN l /\ l.bounds # None
  /\ l.action = "stream.settled" =>
       /\ {"state", "previous"} \subseteq DOMAIN l
       /\ l.state \in {None, "settled", "gapped"}
       /\ l.previous \in {None, Malformed} \/ l.previous.sequence \in Int

ASSUME CollectionAssumption ==
  /\ None \notin Int \cup {Malformed, "object"} /\ Malformed # "object"
  /\ \A e \in Exports : e.rangeFrom \in Int /\ \A l \in e.records : IsEvent(l)

VARIABLES
  export,    \* the bundle
  phase,     \* "records", "done" or "hard"
  results,   \* run.results
  streams,   \* the state of each receipt stream
  seen       \* auxiliary: the events so far

vars == <<export, phase, results, streams, seen>>

Init ==
  /\ export \in Exports
  /\ phase = "records"
  /\ results = FailIf(export.connection = Malformed, NewResults, "content_integrity")
  /\ streams = <<>>
  /\ seen = <<>>

\* The event after those seen: its sequence and its entry hash are its place's.
Placed(l) ==
  [f \in DOMAIN l \cup {"seq", "entry"} |->
     IF f \in {"seq", "entry"} THEN export.rangeFrom + Len(seen) ELSE l[f]]

Reading == phase = "records" /\ Len(seen) < MaxRecords

\* An event that is no collection record.
PassOther(l) ==
  /\ Reading /\ ~IsRecord(l)
  /\ seen' = Append(seen, Placed(l))
  /\ UNCHANGED <<export, phase, results, streams>>

PassRecord(l) ==
  LET s == StreamOf(streams, l.key)
      record == Placed(l)
  IN /\ Reading /\ IsRecord(l)
     /\ results' = FailIf(RecordProblem(s, record, export.rangeFrom), results,
                          "content_integrity")
     /\ streams' = Put(streams, l.key, AfterRecord(s, record, export.rangeFrom))
     /\ seen' = Append(seen, record)
     /\ UNCHANGED <<export, phase>>

\* End of file: connection.json against the chain.
EndRecords ==
  /\ phase = "records"
  /\ phase' = "done"
  /\ results' = FailIf(ConnectionProblem(export.connection, streams, export.rangeFrom),
                       results, "content_integrity")
  /\ UNCHANGED <<export, streams, seen>>

\* The file that was walked a moment ago cannot be read again.
ReadFails ==
  /\ phase = "records"
  /\ phase' = "hard"
  /\ UNCHANGED <<export, results, streams, seen>>

Next ==
  \/ \E l \in export.records : PassOther(l) \/ PassRecord(l)
  \/ EndRecords
  \/ ReadFails

Spec == Init /\ [][Next]_vars
-----------------------------------------------------------------------------
Clean == results["content_integrity"] = "pass"

Anchored == export.rangeFrom = 1

Shown(l) == l.payload = "object"

\* Where among the events the receipts of a stream are, and those that say
\* something of one of its gaps or days.
Receipts(events, key) ==
  {j \in DOMAIN events : events[j].action = "collection.receipt" /\ events[j].key = key}

GapEvents(events, key, action, gap) ==
  {j \in DOMAIN events : /\ events[j].action = action /\ events[j].key = key
                         /\ Shown(events[j]) /\ events[j].gap = gap}

Settlements(events, key, day) ==
  {j \in DOMAIN events : /\ events[j].action = "stream.settled" /\ events[j].key = key
                         /\ Shown(events[j]) /\ events[j].day = day}

Latest(i, places) == i \in places /\ \A j \in places : j <= i

\* The events before place i.
Before(i) == SubSeq(seen, 1, i - 1)

\* A receipt l against the receipts among the events before it.
FollowsReceipts(l, events, anchored) ==
  LET receipts == Receipts(events, l.key) IN
  /\ \A j \in receipts : Latest(j, receipts) =>
       /\ l.prev = events[j].entry
       /\ Shown(events[j]) => /\ l.index = events[j].index + 1
                             /\ events[j].cursor_after \in {None, l.cursor_before}
  /\ anchored /\ receipts = {} => l.prev = ZeroHash
  /\ anchored /\ (\A j \in receipts : Shown(events[j])) =>
       l.index = Cardinality(receipts) + 1

\* "a receipt is missing or repeated", "a collection is missing between them"
\* (collection.go): while content integrity stands, every receipt of a stream
\* names the receipt before it, and between two whose payloads are shown neither
\* an index nor any of the collection is left out; in a range from 1 the first is
\* the first, so after receipts that are all shown the i-th receipt is receipt i.
ReceiptsAreOneChain ==
  Clean => \A i \in DOMAIN seen :
    seen[i].action = "collection.receipt" /\ Shown(seen[i]) =>
      FollowsReceipts(seen[i], Before(i), Anchored)

\* What a settlement l says is so of the events before it.
TellsTheTruth(l, events) ==
  LET receipts == Receipts(events, l.key)
      Declared(gap) == GapEvents(events, l.key, "stream.gap", gap)
      Healed(gap)   == GapEvents(events, l.key, "stream.gap_healed", gap)
  IN /\ l.count = Cardinality(receipts)
     /\ receipts = {} => l.head = None
     /\ \A j \in receipts : Latest(j, receipts) => l.head = events[j].entry
     /\ \A k \in DOMAIN l.gaps :
          LET item == l.gaps[k] IN
          /\ \E j \in Declared(item.gap) : events[j].bounds = item.bounds
          /\ item.healed <=> Healed(item.gap) # {}
     /\ l.state = "settled" <=> \A k \in DOMAIN l.gaps : l.gaps[k].healed

\* "The chain says otherwise", "which the chain never declared" (collection.go):
\* in a range from 1 a settlement that passes names the receipts before it by
\* head and number, lists only gaps that were declared, with their bounds, says
\* healed of exactly the healed ones, and is settled only when all of them are.
SettlementsTellTheTruth ==
  Clean /\ Anchored => \A i \in DOMAIN seen :
    seen[i].action = "stream.settled" /\ Shown(seen[i]) =>
      TellsTheTruth(seen[i], Before(i))

\* A settlement l against the settlements of its day among the events before it.
FollowsSettlements(l, events, anchored) ==
  LET settlements == Settlements(events, l.key, l.day) IN
  /\ \A j \in settlements : Latest(j, settlements) =>
       /\ l.supplement = events[j].supplement + 1
       /\ l.previous = [sequence |-> events[j].seq, hash |-> events[j].entry]
  /\ anchored /\ settlements = {} => l.supplement = 0 \/ l.previous.sequence < 1

\* "does not follow the previous settlement in the chain" (collection.go): the
\* settlements of a day that pass are one chain - each supplement is the next
\* number and names the settlement before it - so a day is settled once.  Only a
\* range that starts later can begin a day in the middle, or a settlement that
\* names one before the first sequence of all, which collection.go lets pass.
SupplementsAreOneChain ==
  Clean => \A i \in DOMAIN seen :
    seen[i].action = "stream.settled" /\ Shown(seen[i]) =>
      FollowsSettlements(seen[i], Before(i), Anchored)
=============================================================================
