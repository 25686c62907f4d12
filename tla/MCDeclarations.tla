--------------------------- MODULE MCDeclarations ---------------------------
(***************************************************************************)
(* A stream of four events exported from 1 to 4 or from 1 to 3, another    *)
(* stream that declares some of them gone, and files that list these       *)
(* declarations, altered ones, and some sealed by a key nobody trusts:     *)
(* in a proof, or in a chain of their own.                                 *)
(***************************************************************************)
EXTENDS Declarations

CONSTANTS Trusted, Other, Junk

MCTrustedKeys == Trusted :> [created |-> 1, retired |-> 2]

Run(from, to) == {[stream |-> "s", from |-> from, to |-> to]}

Declaration(stream, seq, action, targets, original) ==
  LET d == [kind |-> "record", stream |-> stream, seq |-> seq, action |-> action,
            targets |-> targets, original |-> original, entry |-> None]
  IN [d EXCEPT !.entry = DeclarationHash(d)]

\* Sealed in the exported stream, the second over what comes after it.
Redaction == Declaration("s", 3, "payload.redacted", Run(1, 1), None)
Hasty     == Declaration("s", 4, "payload.redacted", Run(2, 4), None)

\* Sealed in another stream.
Erasure    == Declaration("t", 1, "pii.subject_erased", Run(2, 2), None)
Supplement == Declaration("t", 2, "declaration.supplemented", Run(1, 2), Erasure.entry)
Wide       == Declaration("t", 3, "payload.redacted", Run(1, 4), None)

MCGenuine == {Redaction, Hasty, Erasure, Supplement, Wide}

\* Never sealed: the place is another event's, the record was altered.
Invented == Declaration("s", 2, "payload.redacted", Run(1, 1), None)
Altered  == [Erasure EXCEPT !.targets = Run(1, 4)]
Unsealed == Declaration("t", 9, "pii.subject_erased", Run(1, 4), None)
NoPlace  == Declaration("s", None, "payload.redacted", Run(1, 4), None)
Garbage  == [Erasure EXCEPT !.kind = "garbage"]

Checkpoint(root, key, at) ==
  LET cp == [stream |-> "t", from |-> 1, to |-> 3, root |-> root, prev |-> None,
             created_at |-> at, key |-> key, hash |-> None, signature |-> None]
      hash == CheckpointHash("t", cp)
  IN [cp EXCEPT !.hash = hash, !.signature = Signature(key, hash)]

\* The tree over the three declarations of the other stream.
Pair == NodeHash(LeafHash(Erasure.entry), LeafHash(Supplement.entry))
Root == NodeHash(Pair, LeafHash(Wide.entry))

Step(sibling, left) == [sibling |-> sibling, left |-> left]

Paths ==
  Erasure.entry :> <<Step(LeafHash(Supplement.entry), FALSE), Step(LeafHash(Wide.entry), FALSE)>>
    @@ Supplement.entry :> <<Step(LeafHash(Erasure.entry), TRUE), Step(LeafHash(Wide.entry), FALSE)>>
    @@ Wide.entry :> <<Step(Pair, TRUE)>>
    @@ Hasty.entry :> <<>>

Proof(path, checkpoint) == [path |-> path, checkpoint |-> checkpoint]

HonestProofs ==
  [h \in {Erasure.entry, Supplement.entry, Wide.entry} |->
     Proof(Paths[h], Checkpoint(Root, Trusted, 2))]
    @@ Hasty.entry :> Proof(<<>>, Checkpoint(LeafHash(Hasty.entry), Trusted, 2))

\* Proofs that prove nothing, and one by a key outside the trusted set.
WrongProofs ==
  {Proof(Paths[Erasure.entry], Checkpoint(Root, Trusted, 1)),
   Proof(Malformed, Checkpoint(Root, Trusted, 2)),
   Proof(<<>>, [Checkpoint(LeafHash(Unsealed.entry), Trusted, 2) EXCEPT !.signature = Junk]),
   Proof(<<>>, [Checkpoint(Root, Trusted, 2) EXCEPT !.root = LeafHash(Unsealed.entry)]),
   Proof(<<>>, None),
   Proof(<<>>, Checkpoint(LeafHash(Unsealed.entry), Other, 2))}

\* A seal of the other stream after the trusted key was retired.
Retired == [h \in DOMAIN HonestProofs |-> Proof(HonestProofs[h].path, Checkpoint(Root, Trusted, 3))]

Absence(seq, kind) == [seq |-> seq, kind |-> kind]

Chain(to) == [i \in 1..to |-> IF i = 3 THEN Redaction.entry
                             ELSE IF i = 4 THEN Hasty.entry ELSE [event |-> i]]

Base ==
  [stream |-> "s", from |-> 1, to |-> 4, format |-> 5, hasFile |-> TRUE, chain |-> Chain(4),
   absent |-> <<Absence(1, "redacted")>>, walked |-> NewResults, proofs |-> HonestProofs,
   lines |-> MCGenuine \cup {Garbage, Altered}]

Short == [Base EXCEPT !.to = 3, !.chain = Chain(3)]

\* What the walk leaves of a chain whose checkpoints are not all by trusted keys,
\* or not all inside their windows.
Elsewhere(state) == [NewResults EXCEPT !["signing_identity"] = state]

\* A chain that somebody else sealed: its third event is no declaration of
\* Sigilbase's, and names what Sigilbase never declared gone.
Fabricated == Declaration("s", 3, "payload.redacted", Run(1, 2), None)

Fabrication(walked) ==
  [Base EXCEPT !.walked = walked, !.absent = <<Absence(2, "redacted")>>,
     !.chain = [Chain(4) EXCEPT ![3] = Fabricated.entry], !.lines = {Fabricated, Redaction, Wide}]

MCBundles ==
  {Base, Short, [Base EXCEPT !.format = 4], [Base EXCEPT !.hasFile = FALSE],
   [Base EXCEPT !.walked = Elsewhere("unconfirmed")],
   [Base EXCEPT !.absent = <<Absence(2, "redacted"), Absence(4, "redacted")>>],
   [Base EXCEPT !.absent = <<Absence(1, "redacted"), Absence(2, "erased")>>],
   [Short EXCEPT !.absent = <<Absence(1, "erased"), Absence(3, "redacted")>>],
   [Base EXCEPT !.lines = {Redaction, Invented, NoPlace}],
   [Base EXCEPT !.chain = [i \in {1, 2, 4} |-> Chain(4)[i]]],
   Fabrication(Elsewhere("unconfirmed")), Fabrication(Elsewhere("fail")),
   Fabrication([NewResults EXCEPT !["content_integrity"] = "fail"]),
   Fabrication([NewResults EXCEPT !["scope"] = "fail"]),
   [Base EXCEPT !.proofs = Retired], [Short EXCEPT !.proofs = <<>>]}
    \cup {[Base EXCEPT !.absent = <<Absence(2, "erased")>>, !.lines = {Unsealed, Erasure},
             !.proofs = HonestProofs @@ (Unsealed.entry :> proof)] : proof \in WrongProofs}
=============================================================================
