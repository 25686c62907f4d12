---------------------------- MODULE MerkleStream ----------------------------
(***************************************************************************)
(* The Merkle state the walk over events.ndjson carries from line to line: *)
(* the cumulative stack, the stack of the open checkpoint (reset whenever  *)
(* a checkpoint closes) and the collector of a consistency proof.  None of *)
(* them keeps the leaves.  The auxiliary variables do, and the properties  *)
(* compare what was streamed with the tree rebuilt from all the leaves.    *)
(***************************************************************************)
EXTENDS Merkle

CONSTANT MaxLeaves   \* bound: the leaves of the largest tree streamed

ASSUME MerkleStreamAssumption == MaxLeaves \in Nat \ {0}

VARIABLES
  cumulativeStack,   \* the tree of the whole log
  checkpointStack,   \* the tree of the open checkpoint
  proofCollector,    \* collector, the proof asked for by --consistency
  oldSize,           \* the size it starts from
  leaves,            \* auxiliary: every leaf appended, the n-th being n
  sinceReset         \* auxiliary: the leaves of the open checkpoint

streamVars == <<cumulativeStack, checkpointStack, proofCollector, oldSize, leaves, sinceReset>>

StreamInit ==
  /\ cumulativeStack = EmptyStack
  /\ checkpointStack = EmptyStack
  /\ \E new \in 1..MaxLeaves : \E old \in 1..new :
       oldSize = old /\ proofCollector = NewCollector(old, new)
  /\ leaves = <<>>
  /\ sinceReset = <<>>

\* One event whose entry hash is 32 bytes of hex: it feeds all three.
AppendLeaf ==
  LET data == Len(leaves) + 1 IN
  /\ Len(leaves) < MaxLeaves
  /\ cumulativeStack' = StackAppend(cumulativeStack, data)
  /\ checkpointStack' = StackAppend(checkpointStack, data)
  /\ proofCollector' = CollectorAppend(proofCollector, data)
  /\ leaves' = Append(leaves, data)
  /\ sinceReset' = Append(sinceReset, data)
  /\ UNCHANGED oldSize

\* A reset that is forgotten.
KeepStack(stack) == stack

Reset(stack) == EmptyStack

CloseCheckpoint ==
  /\ checkpointStack' = Reset(checkpointStack)
  /\ sinceReset' = <<>>
  /\ UNCHANGED <<cumulativeStack, proofCollector, oldSize, leaves>>

StreamNext == AppendLeaf \/ CloseCheckpoint

StreamSpec == StreamInit /\ [][StreamNext]_streamVars
-----------------------------------------------------------------------------
IsRootOf(stack, data) ==
  IF data = <<>> THEN stack = EmptyStack ELSE StackRoot(stack) = MerkleRoot(data)

\* "That fold is byte-identical to Root over the same leaves" (merkle.go): at
\* every size, and whatever resets went before, the two stacks hold the root of
\* exactly the leaves they were given, in order.
StreamedRootIsTreeRoot ==
  /\ IsRootOf(cumulativeStack, leaves)
  /\ IsRootOf(checkpointStack, sinceReset)

\* "One perfect subtree root per set bit of the leaf count, sizes strictly
\* descending" (merkle.go): the memory of a stack is logarithmic in its leaves.
OneSubtreePerBit ==
  \A p \in {<<cumulativeStack, leaves>>, <<checkpointStack, sinceReset>>} :
    LET stack == p[1]
        total[i \in 0..Len(stack)] == IF i = 0 THEN 0 ELSE total[i - 1] + stack[i].size
    IN
    /\ \A i \in DOMAIN stack : IsPowerOfTwo(stack[i].size)
    /\ \A i, j \in DOMAIN stack : i < j => stack[i].size > stack[j].size
    /\ total[Len(stack)] = Len(p[2])

\* The tree the collector is for, once all its leaves have streamed past.
Collected == SubSeq(leaves, 1, proofCollector.newSize)

\* The proof collected while the leaves stream past is node for node the proof
\* ConsistencyProof builds from all of them, it is offered as soon as the new
\* tree is complete and never before, and leaves beyond it change nothing.
CollectedProofIsTheProof ==
  /\ Complete(proofCollector) <=> Len(leaves) >= proofCollector.newSize
  /\ Complete(proofCollector) => Nodes(proofCollector) = ConsistencyProof(Collected, oldSize)

\* What a verifier may be shown in place of the proof: one node replaced by
\* another hash of the tree, a node dropped, two exchanged, one added.
Altered(proof) ==
  {[proof EXCEPT ![i] = LeafHash(0)] : i \in DOMAIN proof}
    \cup {[proof EXCEPT ![i] = proof[j], ![j] = proof[i]] : i, j \in DOMAIN proof}
    \cup {RemoveAt(proof, i) : i \in DOMAIN proof}
    \cup {InsertAt(proof, i, LeafHash(0)) : i \in 1..(Len(proof) + 1)}

\* ConsistencyVerify accepts the true proof between the true roots, and refuses
\* every other old root (the root of another prefix, or of a prefix that
\* diverged), every other new root and every altered proof.
OnlyATruePrefixVerifies ==
  Len(leaves) = proofCollector.newSize =>
    LET new      == proofCollector.newSize
        proof    == ConsistencyProof(leaves, oldSize)
        oldRoot  == MerkleRoot(SubSeq(leaves, 1, oldSize))
        newRoot  == MerkleRoot(leaves)
        diverged == {MerkleRoot([SubSeq(leaves, 1, oldSize) EXCEPT ![i] = 0]) :
                       i \in 1..oldSize}
        others   == {MerkleRoot(SubSeq(leaves, 1, n)) : n \in 1..new} \cup diverged
    IN /\ ConsistencyVerify(oldSize, new, oldRoot, newRoot, proof)
       /\ \A r \in others \ {oldRoot} :
            ~ConsistencyVerify(oldSize, new, r, newRoot, proof)
       /\ \A r \in others \ {newRoot} :
            ~ConsistencyVerify(oldSize, new, oldRoot, r, proof)
       /\ \A p \in Altered(proof) \ {proof} :
            ~ConsistencyVerify(oldSize, new, oldRoot, newRoot, p)
=============================================================================
