-------------------------- MODULE MCCollectionPass --------------------------
(***************************************************************************)
(* Records of one or two receipt streams, right and wrong ones, for ranges *)
(* that start at sequence 1 and for ranges that start at 3.                *)
(***************************************************************************)
EXTENDS CollectionPass

Record(action, fields) ==
  fields @@ [action |-> action, key |-> "a", payload |-> "object", sound |-> TRUE]

Other == [action |-> "other"]
Config(name) == Record("stream.config", [records_stream |-> name])
Receipt(index, prev, before, after) ==
  Record("collection.receipt",
         [index |-> index, prev |-> prev, cursor_before |-> before, cursor_after |-> after])
Gap(gap, after) == Record("stream.gap", [gap |-> gap, after |-> after, bounds |-> "b"])
Heal(gap) == Record("stream.gap_healed", [gap |-> gap])
Settle(state, head, count, gaps, supplement, previous) ==
  Record("stream.settled",
         [day |-> "d", state |-> state, head |-> head, count |-> count, gaps |-> gaps,
          supplement |-> supplement, previous |-> previous])

Item(healed) == [gap |-> "g", healed |-> healed, bounds |-> "b"]
At(seq) == [sequence |-> seq, hash |-> seq]
Redacted(l) == [l EXCEPT !.payload = None]

\* Receipts, where the first one is event n of the file.
ReceiptLines(n) ==
  {Config("r"), Other,
   Receipt(1, ZeroHash, "start", "one"), Receipt(2, n, "one", "two"),
   Receipt(3, n + 1, "two", None), Receipt(2, n + 1, "one", "two"),
   Receipt(3, n, "two", Malformed), Receipt(2, n, "two", "one"),
   Receipt(4, n + 2, Malformed, "end"), Redacted(Receipt(1, n, "one", "two")),
   [Receipt(2, n, "one", "two") EXCEPT !.payload = Malformed],
   Receipt(None, None, "one", "two")}

\* Gaps and settlements after one receipt, event n of the file.
GapLines(n) ==
  {Config("r"), Receipt(1, ZeroHash, "start", "one"), Gap("g", n), Gap("g", ZeroHash),
   Gap(None, None), Heal("g"), Heal(None),
   Settle("settled", n, 1, <<>>, 0, None), Settle("gapped", n, 1, <<Item(FALSE)>>, 0, None),
   Settle("settled", n, 1, <<Item(TRUE)>>, 0, None),
   Settle("gapped", None, 0, <<Item(FALSE)>>, 0, None),
   Settle("settled", n, None, <<[Item(TRUE) EXCEPT !.bounds = "c"], Item(None)>>, 0, None),
   Settle(None, n, 1, <<[Item(None) EXCEPT !.gap = None]>>, 0, None)}

\* Settlements of one day, the first of them event n of the file.
DayLines(n) ==
  LET First == Settle("settled", None, 0, <<>>, 0, None) IN
  {Config("r"), First, Redacted(First), [First EXCEPT !.previous = At(n)],
   [First EXCEPT !.supplement = None], [First EXCEPT !.supplement = 1],
   [First EXCEPT !.supplement = 1, !.previous = Malformed]}
    \cup {[First EXCEPT !.supplement = i, !.previous = At(seq)] :
            i \in 1..2, seq \in {n, n + 1}}
    \cup {[First EXCEPT !.supplement = 1, !.previous = At(0)]}

Streams ==
  {Config("r"), Config("s"), Config(None), [Config("s") EXCEPT !.key = "b"],
   [Receipt(1, ZeroHash, "start", "one") EXCEPT !.key = "b"]}

Connections ==
  {None, Malformed, [role |-> "records", listed |-> <<>>]}
    \cup {[role |-> "receipts", listed |-> listed] :
            listed \in {<<>>, "a" :> "r", "a" :> "r" @@ "b" :> "s"}}

Bundle(rangeFrom, connection, records) ==
  [rangeFrom |-> rangeFrom, connection |-> connection, records |-> records]

MCExports ==
  UNION {{Bundle(from, None, ReceiptLines(from + 1)), Bundle(from, None, GapLines(from + 1)),
          Bundle(from, None, DayLines(from + 1))}
         \cup {Bundle(from, connection, Streams) : connection \in Connections} :
           from \in {1, 3}}
=============================================================================
