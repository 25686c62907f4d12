----------------------------- MODULE Collection -----------------------------
(***************************************************************************)
(* checkCollectionRecords (src/verify/collection.go): the second pass over *)
(* events.ndjson of a format 1.6 bundle, which keeps, for each receipt     *)
(* stream of a connection, the head of its receipt chain, the gaps it      *)
(* declared and the days it settled.                                       *)
(*                                                                         *)
(* The pass comes after the walk, whose verdict already covers the order   *)
(* and the hashes of the events: here an event's sequence is its place in  *)
(* the file and its entry hash is that sequence, or None when the event    *)
(* states none that is a digest.  The fields of a record that are checked  *)
(* on their own (versions, counts, dates, methods) are the flag sound.     *)
(* Streams are kept apart by their resource in the code and here.          *)
(***************************************************************************)
EXTENDS Verdict, Sequences, SequencesExt

CONSTANTS
  None,       \* a field that is absent, null, or not of its type
  Malformed,  \* a value that is there and cannot be read
  ZeroHash    \* the hash the first receipt of a stream chains from

\* A map with one more entry; an entry that was there is replaced.
Put(map, key, value) ==
  [k \in DOMAIN map \cup {key} |-> IF k = key THEN value ELSE map[k]]

NewStream ==
  [configured |-> FALSE, recordsStream |-> None, receipts |-> 0, lastHash |-> None,
   lastIndex |-> 0, indexKnown |-> FALSE, lastCursor |-> None, cursorKnown |-> FALSE,
   gaps |-> <<>>, days |-> <<>>]
-----------------------------------------------------------------------------
(* One record against the state s of its stream.  For every kind of record *)
(* there is what the code reports (a problem demotes content integrity)    *)
(* and what it remembers; it remembers a record it has reported too.       *)

\* The receipt before a redacted one stays the head.
AfterRedactedKeepsHead(s, l) ==
  IF l.action # "collection.receipt" THEN s ELSE [s EXCEPT !.receipts = @ + 1]

\* Rule 6: a record without a payload counts as a receipt if it is one, and the
\* next receipt chains from its entry hash; its index and its cursor are gone.
AfterRedacted(s, l) ==
  IF l.action # "collection.receipt" THEN s
  ELSE [s EXCEPT !.receipts = @ + 1, !.lastHash = l.entry,
                 !.indexKnown = FALSE, !.cursorKnown = FALSE]

\* The configuration: every one names the same stream of records.
Renamed(s, l) == s.recordsStream # None /\ s.recordsStream # l.records_stream

ConfigProblem(s, l) == ~l.sound \/ l.records_stream = None \/ Renamed(s, l)

AfterConfig(s, l) ==
  [s EXCEPT !.configured = TRUE,
            !.recordsStream = IF l.records_stream = None \/ Renamed(s, l)
                              THEN @ ELSE l.records_stream]

\* collectionSame: a value that cannot be canonicalised equals nothing.
SameValue(a, b) == a = b /\ a # Malformed

\* Rule 2: a receipt names the one before it, is its successor by index, and
\* starts where it stopped.  With none before it in the range the first of the
\* stream names the zero hash, and any other needs a range that starts later.
LinkBroken(s, l) ==
  \/ l.prev # None /\ l.prev # s.lastHash
  \/ l.index # None /\ s.indexKnown /\ l.index # s.lastIndex + 1
  \/ s.cursorKnown /\ ~SameValue(l.cursor_before, s.lastCursor)

ReceiptProblem(s, l, anchored) ==
  \/ ~l.sound \/ l.index = None \/ l.prev = None
  \/ s.lastHash # None /\ LinkBroken(s, l)
  \/ s.lastHash = None /\ l.index = 1 /\ l.prev \notin {None, ZeroHash}
  \/ s.lastHash = None /\ l.index \notin {None, 1} /\ anchored

\* Forgets which index the receipt had.
AfterReceiptKeepsIndex(s, l) ==
  [s EXCEPT !.receipts = @ + 1, !.lastHash = l.entry,
            !.lastCursor = l.cursor_after, !.cursorKnown = l.cursor_after # None]

AfterReceipt(s, l) ==
  [s EXCEPT !.receipts = @ + 1, !.lastHash = l.entry,
            !.lastIndex = IF l.index = None THEN 0 ELSE l.index,
            !.indexKnown = l.index # None,
            !.lastCursor = l.cursor_after, !.cursorKnown = l.cursor_after # None]

\* Rule 3: a gap names the latest receipt before it.
Misplaced(s, l, anchored) ==
  \/ l.after = None
  \/ s.lastHash # None /\ l.after # s.lastHash
  \/ s.lastHash = None /\ anchored /\ l.after # ZeroHash

\* A gap may be declared again.
GapProblemRedeclared(s, l, anchored) ==
  ~l.sound \/ l.gap = None \/ Misplaced(s, l, anchored)

GapProblem(s, l, anchored) ==
  \/ ~l.sound \/ l.gap = None
  \/ Misplaced(s, l, anchored)
  \/ l.gap # None /\ l.gap \in DOMAIN s.gaps

\* A gap declared again is a new one: what healed the first does not heal it.
AfterGap(s, l) ==
  IF l.gap = None THEN s
  ELSE [s EXCEPT !.gaps = Put(@, l.gap, [bounds |-> l.bounds, healed |-> FALSE])]

HealProblem(s, l, anchored) ==
  l.gap = None \/ (l.gap \notin DOMAIN s.gaps /\ anchored)

\* A gap declared before the range is healed with bounds nobody knows.
AfterHeal(s, l, anchored) ==
  IF l.gap = None THEN s
  ELSE IF l.gap \in DOMAIN s.gaps THEN [s EXCEPT !.gaps[l.gap].healed = TRUE]
  ELSE IF anchored THEN s
  ELSE [s EXCEPT !.gaps = Put(@, l.gap, [bounds |-> None, healed |-> TRUE])]

\* Rule 4: the head and the number of the receipts before a settlement.
ReceiptsProblem(s, l, anchored) ==
  \/ s.lastHash # None /\ l.head # s.lastHash
  \/ s.lastHash = None /\ anchored /\ l.head # None
  \/ l.count = None
  \/ l.count # None /\ anchored /\ l.count # s.receipts
  \/ l.count # None /\ ~anchored /\ l.count < s.receipts

\* A gap a settlement lists, against its declaration.
ListedProblem(s, item, anchored) ==
  \/ item.gap = None
  \/ item.healed \notin BOOLEAN
  \/ item.gap # None /\ item.gap \notin DOMAIN s.gaps /\ anchored
  \/ /\ item.gap \in DOMAIN s.gaps
     /\ \/ s.gaps[item.gap].bounds \notin {None, item.bounds}
        \/ s.gaps[item.gap].healed # (item.healed = TRUE)

\* A listed gap that is named and not healed; a healed that is no boolean is not.
ListsUnhealed(l) ==
  \E i \in DOMAIN l.gaps : l.gaps[i].gap # None /\ l.gaps[i].healed # TRUE

\* Asks a supplement only to name a settlement of the day, of any number.
SupplementProblemUncounted(s, l, rangeFrom) ==
  IF l.supplement = 0 THEN l.previous # None
  ELSE IF l.previous \in {None, Malformed} THEN TRUE
  ELSE l.day \notin DOMAIN s.days /\ l.previous.sequence >= rangeFrom

\* A supplement follows the day's settlement before it, in the range or before.
SupplementProblem(s, l, rangeFrom) ==
  IF l.supplement = 0 THEN l.previous # None \/ l.day \in DOMAIN s.days
  ELSE IF l.previous \in {None, Malformed} THEN TRUE
  ELSE IF l.day \in DOMAIN s.days
  THEN \/ l.previous # [sequence |-> s.days[l.day].seq, hash |-> s.days[l.day].hash]
       \/ l.supplement # s.days[l.day].supplement + 1
  ELSE l.previous.sequence >= rangeFrom

SettlementProblem(s, l, rangeFrom) ==
  LET anchored == rangeFrom = 1 IN
  \/ ~l.sound \/ l.day = None \/ l.supplement = None \/ l.state = None
  \/ ReceiptsProblem(s, l, anchored)
  \/ \E i \in DOMAIN l.gaps : ListedProblem(s, l.gaps[i], anchored)
  \/ l.state # None /\ (l.state = "gapped") # ListsUnhealed(l)
  \/ l.day # None /\ l.supplement # None /\ SupplementProblem(s, l, rangeFrom)

AfterSettlement(s, l) ==
  IF l.day = None \/ l.supplement = None THEN s
  ELSE [s EXCEPT !.days = Put(@, l.day, [supplement |-> l.supplement, seq |-> l.seq,
                                         hash |-> l.entry])]
-----------------------------------------------------------------------------
(* The pass, one event at a time.                                          *)

\* Rule 5: in a range that starts at 1 nothing precedes the configuration.
Unconfigured(s, l, anchored) ==
  anchored /\ l.action # "stream.config" /\ ~s.configured

RecordProblem(s, l, rangeFrom) ==
  LET anchored == rangeFrom = 1 IN
  CASE l.payload = None      -> FALSE
    [] l.payload = Malformed -> TRUE
    [] OTHER ->
       \/ Unconfigured(s, l, anchored)
       \/ l.action = "stream.config"      /\ ConfigProblem(s, l)
       \/ l.action = "collection.receipt" /\ ReceiptProblem(s, l, anchored)
       \/ l.action = "stream.gap"         /\ GapProblem(s, l, anchored)
       \/ l.action = "stream.gap_healed"  /\ HealProblem(s, l, anchored)
       \/ l.action = "stream.settled"     /\ SettlementProblem(s, l, rangeFrom)

AfterRecord(s, l, rangeFrom) ==
  CASE l.payload = None      -> AfterRedacted(s, l)
    [] l.payload = Malformed -> s
    [] l.payload = "object" /\ l.action = "stream.config"      -> AfterConfig(s, l)
    [] l.payload = "object" /\ l.action = "collection.receipt" -> AfterReceipt(s, l)
    [] l.payload = "object" /\ l.action = "stream.gap"         -> AfterGap(s, l)
    [] l.payload = "object" /\ l.action = "stream.gap_healed"  ->
         AfterHeal(s, l, rangeFrom = 1)
    [] l.payload = "object" /\ l.action = "stream.settled"     -> AfterSettlement(s, l)

\* The state of a stream, which begins with its first record.
StreamOf(streams, key) == IF key \in DOMAIN streams THEN streams[key] ELSE NewStream

\* An event that is no collection record is passed over.
IsRecord(l) == l.action # "other"

\* The pass over one event: pass holds the streams and whether all is well.
CheckRecord(pass, l, rangeFrom) ==
  IF ~IsRecord(l) THEN pass
  ELSE LET s == StreamOf(pass.streams, l.key) IN
       [streams |-> Put(pass.streams, l.key, AfterRecord(s, l, rangeFrom)),
        ok |-> pass.ok /\ ~RecordProblem(s, l, rangeFrom)]

\* connection.json: None when absent, Malformed when of no known role.
NewPass(connection) == [streams |-> <<>>, ok |-> connection # Malformed]

\* Rule 7: a receipts export lists the streams its chain configures.
ConnectionProblem(connection, streams, rangeFrom) ==
  /\ connection \notin {None, Malformed} /\ connection.role = "receipts"
  /\ \/ streams = <<>>
     \/ \E k \in DOMAIN streams :
          /\ streams[k].recordsStream # None
          /\ \/ k \notin DOMAIN connection.listed
             \/ connection.listed[k] # streams[k].recordsStream
     \/ rangeFrom = 1 /\ ~(DOMAIN connection.listed \subseteq DOMAIN streams)

\* The whole pass over the events of a range.
PassOver(events, connection, rangeFrom) ==
  LET pass[n \in 0..Len(events)] ==
        IF n = 0 THEN NewPass(connection)
        ELSE CheckRecord(pass[n - 1], events[n], rangeFrom)
  IN pass[Len(events)]

CollectionPasses(events, connection, rangeFrom) ==
  LET pass == PassOver(events, connection, rangeFrom)
  IN pass.ok /\ ~ConnectionProblem(connection, pass.streams, rangeFrom)
=============================================================================
