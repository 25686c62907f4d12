--------------------------- MODULE MCSealedRange ---------------------------
(***************************************************************************)
(* A sealed log of three events under two checkpoints, and bundles that    *)
(* claim to export it: honest ones, ones whose events, checkpoints or      *)
(* manifest were changed, and ones sealed again by a key nobody trusts.    *)
(***************************************************************************)
EXTENDS SealedRange, TLC

CONSTANTS Trusted, Other, Junk

MCStream == "s"
Never == [created |-> None, retired |-> None]

\* The trusted key was retired at time 2; the manifest may say it was not.
MCTrustedKeys == Trusted :> [created |-> 1, retired |-> 2]

Line(seq, payload, prev) ==
  LET ph == PayloadHash(payload) IN
  [kind |-> "event", seq |-> seq, payload |-> payload, payload_hash |-> ph,
   payload_state |-> "present", absence |-> "redacted", prev |-> prev,
   entry |-> EntryHash(MCStream, seq, ph, prev)]

\* A log of n events, the payload "q" from event d on and "p" before it.
Chain(n, d) ==
  LET chain[i \in 1..n] ==
        Line(i, IF i >= d THEN "q" ELSE "p",
             IF i = 1 THEN ZeroHash ELSE chain[i - 1].entry)
  IN chain

MCLog == Chain(3, 4)
Honest == {MCLog[i] : i \in 1..3}
Diverged == {Chain(3, d)[i] : d \in 1..3, i \in 1..3} \ Honest

Redacted(l, kind) ==
  [l EXCEPT !.payload = None, !.payload_state = "redacted", !.absence = kind]

Garbage == [Line(1, "p", None) EXCEPT !.kind = "garbage"]
Unnumbered == [Line(1, "p", None) EXCEPT !.kind = "unnumbered"]

\* One thing changed in the line of event 2, its entry hash recomputed or not.
Altered ==
  LET l == MCLog[2] IN
  {[l EXCEPT !.payload = "q"], [l EXCEPT !.payload_hash = PayloadHash("q")],
   [Line(2, "q", l.prev) EXCEPT !.entry = l.entry],
   Line(2, "p", Junk), [l EXCEPT !.prev = Junk],
   [l EXCEPT !.entry = None], [l EXCEPT !.entry = Malformed], [l EXCEPT !.entry = Junk],
   [l EXCEPT !.payload = None], [l EXCEPT !.payload_state = "redacted"],
   [l EXCEPT !.payload_state = "unknown"], Garbage, Unnumbered}

\* Events numbered where the sealed log has none, up to the largest integer.
Misnumbered == {Line(0, "p", None), Line(4, "p", MCLog[3].entry)}

Edge == {Line(4, "p", None), Line(-5, "p", None), Line(-5, "p", ZeroHash)}

Seal(key, from, to, leaves, prev, at) ==
  LET cp == [hasRange |-> TRUE, from |-> from, to |-> to, root |-> leaves,
             prev |-> prev, created_at |-> at, key |-> key, hash |-> None,
             signature |-> None]
      hash == CheckpointHash(MCStream, cp)
  IN [cp EXCEPT !.hash = hash, !.signature = Signature(key, hash)]

Leaves(log, from, to) == [k \in 1..(to - from + 1) |-> log[from + k - 1].entry]

\* The two checkpoints over a log, sealed at two times.
Sealing(key, log, t, u) ==
  LET first == Seal(key, 1, 2, Leaves(log, 1, 2), ZeroHash, t)
  IN <<first, Seal(key, 3, 3, Leaves(log, 3, 3), first.hash, u)>>

Genuine == Sealing(Trusted, MCLog, 1, 2)
MCSeals == {Genuine[1], Genuine[2]}

\* Sealed after the trusted key was retired; the signature itself is good.
Late == Seal(Other, 3, 3, Leaves(MCLog, 3, 3), Genuine[1].hash, 3)

Resealed == Sealing(Other, Chain(3, 2), 1, 2)

\* A log that is not the sealed one, under seals the trusted key made outside its
\* window: one of them, or both.
OutsideWindow == {Sealing(Trusted, Chain(3, d), t, 3) : d \in {1, 2}, t \in {0, 3}}

Base ==
  [format |-> "sigilbase-evidence/1.7", hasRange |-> TRUE, stream |-> MCStream,
   from |-> 1, to |-> 3, keys |-> Trusted :> Never, redactions |-> {},
   badRedactions |-> FALSE, retain |-> {}, wanted |-> {1}, checkpoints |-> Genuine,
   lines |-> Honest \cup Diverged]

With1(cp) == [Base EXCEPT !.checkpoints = <<Genuine[1], cp>>, !.lines = Honest]

EventBundles ==
  {Base,
   [Base EXCEPT !.to = 2, !.checkpoints = <<Genuine[1]>>, !.lines = Honest \cup Altered],
   [Base EXCEPT !.lines = Honest \cup Misnumbered \cup {Garbage, Unnumbered}],
   [Base EXCEPT !.from = 3, !.checkpoints = <<Genuine[2]>>, !.lines = Honest \cup Misnumbered],
   [Base EXCEPT !.redactions = {2, 7}, !.retain = {3},
      !.lines = Honest \cup {Redacted(MCLog[2], "redacted"), Redacted(MCLog[2], "erased"),
                             Redacted(MCLog[3], "erased")}]}

CheckpointBundles ==
  {[Base EXCEPT !.checkpoints = seals] : seals \in OutsideWindow}
    \cup
  {[Base EXCEPT !.checkpoints = <<Genuine[2], Genuine[1]>>, !.lines = Honest],
   [Base EXCEPT !.checkpoints = <<Genuine[1]>>, !.lines = Honest],
   [Base EXCEPT !.checkpoints = <<Genuine[2]>>, !.lines = Honest],
   [Base EXCEPT !.checkpoints = <<Genuine[1], Genuine[1], Genuine[2]>>, !.lines = Honest],
   [Base EXCEPT !.checkpoints = Resealed, !.keys = (Other :> Never)],
   [Base EXCEPT !.keys = (Other :> Never), !.lines = Honest],
   [Base EXCEPT !.to = 2, !.lines = Honest], [Base EXCEPT !.stream = "t", !.lines = Honest],
   With1([Genuine[2] EXCEPT !.hasRange = FALSE]), With1([Genuine[2] EXCEPT !.hash = None]),
   With1([Genuine[2] EXCEPT !.signature = Junk]), With1([Genuine[2] EXCEPT !.prev = Junk]),
   With1([Genuine[2] EXCEPT !.root = <<Junk>>]), With1([Genuine[2] EXCEPT !.created_at = 3]),
   With1([Genuine[2] EXCEPT !.from = 2]),
   [With1(Late) EXCEPT !.keys = @ @@ (Other :> Never)],
   [With1(Late) EXCEPT !.keys = @ @@ (Other :> [created |-> 1, retired |-> 2])]}

OpeningBundles ==
  {[Base EXCEPT !.format = "sigilbase-evidence/9"], [Base EXCEPT !.hasRange = FALSE],
   [Base EXCEPT !.keys = <<>>, !.badRedactions = TRUE], [Base EXCEPT !.checkpoints = <<>>],
   [Base EXCEPT !.checkpoints = <<>>, !.badRedactions = TRUE],
   [Base EXCEPT !.badRedactions = TRUE, !.lines = Honest]}

\* Ranges that touch the ends of the integers: MaxInt is 4, MinInt -5.
EdgeBundles ==
  {[Base EXCEPT !.from = r[1], !.to = r[2], !.lines = Edge \cup {Unnumbered},
      !.keys = Other :> Never,
      !.checkpoints = <<Seal(Other, r[1], r[2], leaves, None, 1)>>] :
     r \in {<<4, 4>>, <<-5, 4>>, <<-5, -5>>}, leaves \in {<<>>, <<Line(4, "p", None).entry>>}}

\* A checkpoint whose range runs backwards, one that runs forwards over the
\* largest length there is, and one over the whole log, sealed by a key of its own.
Backwards ==
  LET first == Seal(Other, 1, -5, Leaves(MCLog, 1, 3), ZeroHash, 1)
      second == Seal(Other, -4, 0, <<>>, first.hash, 1)
  IN [Base EXCEPT !.keys = Other :> Never, !.lines = Honest,
        !.checkpoints = <<first, second,
                          Seal(Other, 1, 3, Leaves(MCLog, 1, 3), second.hash, 1)>>]

MCBundles ==
  EventBundles \cup CheckpointBundles \cup OpeningBundles \cup EdgeBundles \cup {Backwards}
MCLines == UNION {b.lines : b \in MCBundles}
MCCheckpoints == UNION {{b.checkpoints[i] : i \in DOMAIN b.checkpoints} : b \in MCBundles}
=============================================================================
