--------------------------- MODULE MCVerifierRun ---------------------------
(***************************************************************************)
(* Exports of a log of up to five events and of logs that diverge from it, *)
(* states recorded of them, consistency.json files about them, and short   *)
(* streams of signing and document events with the files that name them.   *)
(***************************************************************************)
EXTENDS VerifierRun

MaxSize == 5

Payload(sha, email, mark) == [sha |-> sha, email |-> email, mark |-> mark]
Event(seq, action, signing, payload, entry) ==
  [seq |-> seq, action |-> action, signing |-> signing, payload |-> payload,
   entry |-> entry]

\* Event n of the log that diverges at d (and does not when d > MaxSize).
LogEvent(stream, n, d) ==
  Event(n, "noted", None, None, <<stream, n, IF d <= n THEN d ELSE 0>>)

Export(stream, from, to, d, trouble) ==
  [stream |-> stream, from |-> from, to |-> to,
   events |-> [i \in 1..(to - from + 1) |-> LogEvent(stream, from + i - 1, d)],
   seals |-> {to}, trouble |-> trouble,
   documents |-> None, signatures |-> None, links |-> None, consistency |-> None]

TheLog == MaxSize + 1
Plain(to) == Export("s", 1, to, TheLog, "none")

Troubles == {"unconfirmed", "fail", "error"}
Olds == {Plain(n) : n \in 1..MaxSize} \cup {Export("s", 2, 3, TheLog, "none")}
          \cup {Export("s", 1, 3, TheLog, t) : t \in Troubles}
News == {Export("s", 1, n, d, "none") : n \in 1..MaxSize, d \in 1..TheLog}
          \cup {Export("s", 2, 4, TheLog, "none"), Export("t", 1, 4, TheLog, "none")}
          \cup {Export("s", 1, 4, TheLog, t) : t \in Troubles}
          \* an event is missing, and the walk has said so
          \cup {[Export("s", 1, 4, TheLog, "fail") EXCEPT !.events = RemoveAt(@, i)] : i \in 1..4}

Args(flags, root, size, targets) ==
  [help |-> "help" \in flags, loads |-> "unreadable" \notin flags,
   receipt |-> "receipt" \in flags, reconcile |-> "reconcile" \in flags,
   consistency |-> "consistency" \in flags,
   root |-> root, size |-> size, targets |-> targets]

Comparisons == {Args({"consistency"}, None, None, <<o, n>>) : o \in Olds, n \in News}

Root(n) == MerkleRoot(Prefix(Plain(MaxSize), n))
WrongRoot == MerkleRoot(Entries(Export("s", 1, 3, 2, "none")))

RecordedComparisons ==
  {Args({"consistency"}, root, size, <<b>>) :
     b \in Olds, size \in 0..(MaxSize + 1),
     root \in {Root(n) : n \in 1..MaxSize} \cup {WrongRoot, Malformed}}

\* Every combination of options, most of them usage errors.
CommandLines ==
  {Args(flags, root, size, [i \in 1..n |-> Plain(2)]) :
     flags \in SUBSET {"help", "unreadable", "receipt", "reconcile", "consistency"},
     root \in {None, Root(1)}, size \in {None, 1}, n \in 0..3}

ConsistencyFiles(to) ==
  LET file(root, states, proof) == [root |-> root, states |-> states, proof |-> proof]
      state(size, root) == [size |-> size, root |-> root]
  IN {Malformed, file(WrongRoot, <<>>, None)}
       \cup {file(Root(to), <<state(n, Root(m)), state(1, Root(1))>>, None) :
               n \in {None} \cup 0..(MaxSize + 1), m \in 1..to}
       \cup {file(Root(to), <<>>,
                  [from |-> from, to |-> top,
                   nodes |-> ConsistencyProof(Prefix(Plain(MaxSize), to), old)]) :
               from \in 0..to, top \in 1..(MaxSize + 1), old \in 1..to}

WithConsistencyFile ==
  {[Export("s", from, to, TheLog, "none") EXCEPT !.consistency = file] :
     from \in 1..2, to \in {3, 4}, file \in ConsistencyFiles(3) \cup ConsistencyFiles(4)}

-----------------------------------------------------------------------------
Publishings ==
  {<<"document.published", None, Payload("x", None, None)>>,
   <<"document.published", None, None>>,
   <<"document.linked", None, Payload("x", None, None)>>,
   <<"document.unlinked", None, Payload("y", None, None)>>}
Signings ==
  {<<"signature.viewed", "a", Payload("x", "e", None)>>,
   <<"signature.viewed", "a", Payload("y", "e", None)>>,
   <<"signature.signed", "a", Payload("x", "e", "m")>>,
   <<"signature.signed", "a", Payload("y", "e", None)>>,
   <<"signature.signed", "a", Payload("x", None, None)>>,
   <<"signature.signed", "a", Payload("x", "", None)>>,
   <<"signature.signed", "a", None>>}

Stream(happenings) ==
  [i \in DOMAIN happenings |->
     Event(i, happenings[i][1], happenings[i][2], happenings[i][3], <<"s", happenings>>)]

Happened(happenings) ==
  [Export("s", 1, Len(happenings), TheLog, "none") EXCEPT !.events = Stream(happenings)]

Documents ==
  {Malformed} \cup {<<[sequence |-> n, sha |-> "x"]>> : n \in {None, 1, 2}}
Signatures ==
  {Malformed}
    \cup {<<[id |-> id, sha |-> sha, signers |-> <<>>]>> : id \in {None, "a"}, sha \in {None, "x"}}
    \cup {<<[id |-> "a", sha |-> sha,
             signers |-> <<[email |-> email, status |-> status, mark |-> mark]>>]>> :
            email \in {None, "e"}, sha \in {None, "x"}, status \in {"signed", "pending"}, mark \in {None, "m", "n"}}
Links ==
  {Malformed} \cup {<<[linked |-> n, unlinked |-> u, sha |-> sha]>> :
                      n \in {None, Malformed, 1, 2}, u \in {None, Malformed, 2, 3}, sha \in {None, "x"}}

WithSigilSign ==
  {[Happened(h) EXCEPT !.documents = d] : h \in [1..2 -> Publishings], d \in Documents}
    \cup {[Happened(h) EXCEPT !.links = l] : h \in [1..2 -> Publishings], l \in Links}
    \cup {[Happened(h) EXCEPT !.signatures = s] :
            h \in UNION {[1..n -> Signings] : n \in 1..3}, s \in Signatures}

MCInvocations ==
  Comparisons \cup RecordedComparisons \cup CommandLines
    \cup {Args({}, None, None, <<b>>) : b \in WithConsistencyFile \cup WithSigilSign}
=============================================================================
