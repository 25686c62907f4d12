--------------------------- MODULE ReceiptStream ---------------------------
(***************************************************************************)
(* A connection that keeps its receipt stream as it should, and the export *)
(* of any stretch of it that reaches the present.  The connection itself   *)
(* is not under src/: it is modelled from what checkCollectionRecords asks *)
(* of the records (src/verify/collection.go).  Nothing it emits is wrong,  *)
(* so nothing the check reports can be right.                              *)
(***************************************************************************)
EXTENDS Collection, FiniteSets

CONSTANTS
  Gaps,         \* the gaps the connection may declare
  Days,         \* the days it settles
  Redactable,   \* the actions whose records may have their payloads redacted
  MaxEvents     \* bound: the events of the stream

Connection == [role |-> "receipts", listed |-> [k \in {"a"} |-> "r"]]

\* What is missing or cannot be read is no value of a record.
ASSUME ReceiptStreamAssumption ==
  /\ MaxEvents \in Nat
  /\ None \notin Int \cup Gaps \cup Days
                  \cup {Malformed, ZeroHash, "object", "settled", "gapped", "r"}
  /\ Malformed \notin Int \cup {"object", Connection}
  /\ \A i \in 1..MaxEvents : [sequence |-> i, hash |-> i] \notin {None, Malformed}

VARIABLE log   \* the events so far, the record of sequence i in place i

StreamInit == log = <<>>

Places(action) == {i \in DOMAIN log : log[i].action = action}
LastOf(places) == CHOOSE i \in places : \A j \in places : j <= i

ReceiptPlaces == Places("collection.receipt")
LastReceipt == IF ReceiptPlaces = {} THEN ZeroHash ELSE LastOf(ReceiptPlaces)

DeclaredGaps == {log[i].gap : i \in Places("stream.gap")}
HealedGaps == {log[i].gap : i \in Places("stream.gap_healed")}
SettlementsOf(day) == {i \in Places("stream.settled") : log[i].day = day}

\* The next event, with the fields of its kind: its entry hash is its sequence.
NextEvent(action, fields) ==
  LET common == [action |-> action, seq |-> Len(log) + 1, entry |-> Len(log) + 1,
                 key |-> "a", payload |-> "object", sound |-> TRUE]
  IN [f \in DOMAIN common \cup DOMAIN fields |->
        IF f \in DOMAIN common THEN common[f] ELSE fields[f]]

Emit(action, fields) ==
  /\ Len(log) < MaxEvents
  /\ log' = Append(log, NextEvent(action, fields))

Configured == Places("stream.config") # {}

Configure == Emit("stream.config", [records_stream |-> "r"])

\* A page of records collected: the cursor runs on from the receipt before it.
Collect ==
  /\ Configured
  /\ \E after \in {Len(log), None} :
       Emit("collection.receipt",
            [index |-> Cardinality(ReceiptPlaces) + 1, prev |-> LastReceipt,
             cursor_before |-> IF ReceiptPlaces = {} THEN 0
                               ELSE log[LastReceipt].cursor_after,
             cursor_after |-> after])

DeclareGap(gap) ==
  /\ Configured
  /\ gap \notin DeclaredGaps
  /\ Emit("stream.gap", [gap |-> gap, bounds |-> gap, after |-> LastReceipt])

HealGap(gap) ==
  /\ gap \in DeclaredGaps \ HealedGaps
  /\ Emit("stream.gap_healed", [gap |-> gap])

\* A settlement lists gaps of the day; later ones are supplements to it.
Settle(day, gaps) ==
  /\ Configured
  /\ gaps \subseteq DeclaredGaps
  /\ LET earlier == SettlementsOf(day) IN
     Emit("stream.settled",
       [day |-> day, supplement |-> Cardinality(earlier),
        previous |-> IF earlier = {} THEN None
                     ELSE [sequence |-> LastOf(earlier), hash |-> LastOf(earlier)],
        head |-> IF ReceiptPlaces = {} THEN None ELSE LastReceipt,
        count |-> Cardinality(ReceiptPlaces),
        gaps |-> SetToSeq({[gap |-> g, bounds |-> g, healed |-> g \in HealedGaps] :
                             g \in gaps}),
        state |-> IF gaps \subseteq HealedGaps THEN "settled" ELSE "gapped"])

\* The payload of a record is redacted; its hashes, and the chain, stay.
Redact(i) ==
  /\ log[i].action \in Redactable
  /\ log[i].payload # None
  /\ log' = [log EXCEPT ![i].payload = None]

StreamNext ==
  \/ Configure
  \/ Collect
  \/ \E g \in Gaps : DeclareGap(g) \/ HealGap(g)
  \/ \E d \in Days, gaps \in SUBSET Gaps : Settle(d, gaps)
  \/ \E i \in DOMAIN log : Redact(i)

StreamSpec == StreamInit /\ [][StreamNext]_log
-----------------------------------------------------------------------------
\* The export of the stream from one of its sequences to its end.
ExportFrom(start) == SubSeq(log, start, Len(log))

\* "Links to records before the range are noted and never failed" (collection.go):
\* wherever the range of an export begins - between a gap and its healing, a day
\* and its supplement, a receipt and the next - an honest stream passes.
HonestExportPasses ==
  \A start \in DOMAIN log : CollectionPasses(ExportFrom(start), Connection, start)

\* "A redacted record is noted; later records chain from its entry hash"
\* (collection.go): redacting the payload of a record makes no check of the
\* records after it fail.
RedactionIsOnlyNoted ==
  log # <<>> => CollectionPasses(log, Connection, 1)
=============================================================================
