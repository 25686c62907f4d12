------------------------------- MODULE Merkle -------------------------------
(***************************************************************************)
(* The RFC 6962 Merkle tree as src/internal/merkle computes it: the whole  *)
(* tree at once, the hash stack that rebuilds it leaf by leaf, consistency *)
(* proofs generated from the leaves or collected while they stream past,   *)
(* and their verification.                                                 *)
(***************************************************************************)
EXTENDS MerkleHash, Integers

\* The split is doubled from 1 on.
Power[k \in Nat] == IF k = 0 THEN 1 ELSE 2 * Power[k - 1]

\* The largest power of two strictly smaller than n, for n > 1.
SplitPoint(n) == CHOOSE s \in {Power[k] : k \in 0..n} : s < n /\ 2 * s >= n

\* A half-open run of leaves [from, to), the first of all being leaf 0.
Span(from, to) == [from |-> from, to |-> to]
Spans(n)       == [from : 0..n, to : 0..n]
Size(r)        == r.to - r.from

Cut(r)       == r.from + SplitPoint(Size(r))
LeftHalf(r)  == Span(r.from, Cut(r))
RightHalf(r) == Span(Cut(r), r.to)

\* The root of every run of the leaves.
Roots(leaves) ==
  LET root[r \in Spans(Len(leaves))] ==
        IF Size(r) <= 1 THEN LeafHash(leaves[r.to])
        ELSE NodeHash(root[LeftHalf(r)], root[RightHalf(r)])
  IN root

MerkleRoot(leaves) == Roots(leaves)[Span(0, Len(leaves))]
-----------------------------------------------------------------------------
(* The hash stack: one perfect subtree per entry, the largest first.       *)

EmptyStack == <<>>

\* One round of the loop in Append: the last two subtrees, if of one size.
MergeTop(stack) ==
  LET top == Len(stack) IN
  IF top > 1 /\ stack[top - 1].size = stack[top].size
  THEN Append(SubSeq(stack, 1, top - 2),
              [size |-> 2 * stack[top].size,
               hash |-> NodeHash(stack[top - 1].hash, stack[top].hash)])
  ELSE stack

\* All rounds: once there is nothing to merge a further one changes nothing.
Merge(stack) ==
  LET merged[k \in 0..Len(stack)] ==
        IF k = 0 THEN stack ELSE MergeTop(merged[k - 1])
  IN merged[Len(stack)]

Pushed(stack, data) == Append(stack, [size |-> 1, hash |-> LeafHash(data)])

\* Merges one pair at most: the carry of a second equal pair is forgotten.
StackAppendMergeOnce(stack, data) == MergeTop(Pushed(stack, data))

StackAppend(stack, data) == Merge(Pushed(stack, data))

\* Folds the subtree roots smallest first; only for a stack that is not empty.
StackRoot(stack) ==
  LET folded[i \in 1..Len(stack)] ==
        IF i = Len(stack) THEN stack[i].hash
        ELSE NodeHash(stack[i].hash, folded[i + 1])
  IN folded[1]
-----------------------------------------------------------------------------
(* Consistency proofs (RFC 6962 section 2.1.2), from all the leaves.       *)

\* What is asked for: the proof from the first old leaves of a run, whose
\* root the verifier has (complete) or not.
Asked(old, of, complete) == [old |-> old, of |-> of, complete |-> complete]
Questions(n)             == [old : 1..n, of : Spans(n), complete : BOOLEAN]

InLeft(q)     == q.old <= SplitPoint(Size(q.of))
LeftAsked(q)  == Asked(q.old, LeftHalf(q.of), q.complete)
RightAsked(q) == Asked(q.old - SplitPoint(Size(q.of)), RightHalf(q.of), FALSE)

Subproofs(leaves) ==
  LET proof[q \in Questions(Len(leaves))] ==
        IF q.old >= Size(q.of)
        THEN IF q.complete THEN <<>> ELSE <<Roots(leaves)[q.of]>>
        ELSE IF InLeft(q)
        THEN Append(proof[LeftAsked(q)], Roots(leaves)[RightHalf(q.of)])
        ELSE Append(proof[RightAsked(q)], Roots(leaves)[LeftHalf(q.of)])
  IN proof

\* For 1 <= oldSize <= Len(leaves): anything else is ErrOldSizeOutOfRange.
ConsistencyProof(leaves, oldSize) ==
  Subproofs(leaves)[Asked(oldSize, Span(0, Len(leaves)), TRUE)]

\* The same recursion, recording where each subtree sits.
Subranges(n) ==
  LET ranges[q \in Questions(n)] ==
        IF q.old >= Size(q.of) THEN IF q.complete THEN <<>> ELSE <<q.of>>
        ELSE IF InLeft(q) THEN Append(ranges[LeftAsked(q)], RightHalf(q.of))
        ELSE Append(ranges[RightAsked(q)], LeftHalf(q.of))
  IN ranges

ProofRanges(oldSize, newSize) ==
  Subranges(newSize)[Asked(oldSize, Span(0, newSize), TRUE)]
-----------------------------------------------------------------------------
(* Verification (RFC 9162 section 2.1.4.2).                                *)

IsPowerOfTwo(n) == \E k \in 0..n : n = Power[k]
Odd(n) == n % 2 = 1

\* How far the two sizes less one are shifted before the first node.
AfterOnes[p \in Nat \X Nat] ==
  IF Odd(p[1]) THEN AfterOnes[<<p[1] \div 2, p[2] \div 2>>] ELSE p

\* And at a node that closes a run of zeros.
AfterZeros[p \in Nat \X Nat] ==
  IF p[1] # 0 /\ ~Odd(p[1]) THEN AfterZeros[<<p[1] \div 2, p[2] \div 2>>] ELSE p

\* One node of the proof: state holds fn, sn, the two running roots fr and sr,
\* and whether the walk has run past the new tree's root.
VerifyNode(state, node) ==
  IF ~state.ok \/ state.sn = 0 THEN [state EXCEPT !.ok = FALSE]
  ELSE IF Odd(state.fn) \/ state.fn = state.sn
  THEN LET up == AfterZeros[<<state.fn, state.sn>>]
       IN [fn |-> up[1] \div 2, sn |-> up[2] \div 2, ok |-> TRUE,
           fr |-> NodeHash(node, state.fr), sr |-> NodeHash(node, state.sr)]
  ELSE [state EXCEPT !.fn = @ \div 2, !.sn = @ \div 2, !.sr = NodeHash(@, node)]

\* The walk over the nodes, the first of which both running roots start from.
Walk(oldSize, newSize, nodes) ==
  LET start == AfterOnes[<<oldSize - 1, newSize - 1>>]
      walk[i \in 1..Len(nodes)] ==
        IF i = 1 THEN [fn |-> start[1], sn |-> start[2], ok |-> TRUE,
                       fr |-> nodes[1], sr |-> nodes[1]]
        ELSE VerifyNode(walk[i - 1], nodes[i])
  IN walk[Len(nodes)]

\* A complete old tree: its root is the first node of the path.
Path(oldSize, oldRoot, proof) ==
  IF IsPowerOfTwo(oldSize) THEN <<oldRoot>> \o proof ELSE proof

\* Compares only the new root: the old root is taken on trust.
ConsistencyVerifyNewOnly(oldSize, newSize, oldRoot, newRoot, proof) ==
  IF oldSize = newSize THEN proof = <<>> /\ oldRoot = newRoot
  ELSE LET end == Walk(oldSize, newSize, Path(oldSize, oldRoot, proof))
       IN end.ok /\ end.sn = 0 /\ newRoot = end.sr

ConsistencyVerify(oldSize, newSize, oldRoot, newRoot, proof) ==
  IF oldSize < 1 \/ newSize < oldSize THEN FALSE
  ELSE IF oldSize = newSize THEN proof = <<>> /\ oldRoot = newRoot
  ELSE IF proof = <<>> THEN FALSE
  ELSE LET end == Walk(oldSize, newSize, Path(oldSize, oldRoot, proof))
       IN end.ok /\ end.sn = 0 /\ oldRoot = end.fr /\ newRoot = end.sr
-----------------------------------------------------------------------------
(* The collector: one stack per proof range, fed as the leaves go past.    *)

\* The range indexes in the order the ranges begin.
ByFrom(ranges) ==
  CHOOSE order \in [DOMAIN ranges -> DOMAIN ranges] :
    \A i, j \in DOMAIN ranges :
      i < j => ranges[order[i]].from < ranges[order[j]].from

\* Walks the ranges in proof order, as if that were the order of the leaves.
NewCollectorUnsorted(oldSize, newSize) ==
  LET ranges == ProofRanges(oldSize, newSize) IN
  [newSize |-> newSize, ranges |-> ranges, order |-> [i \in DOMAIN ranges |-> i],
   stacks |-> [i \in DOMAIN ranges |-> EmptyStack], cursor |-> 1, count |-> 0]

NewCollector(oldSize, newSize) ==
  LET ranges == ProofRanges(oldSize, newSize) IN
  [newSize |-> newSize, ranges |-> ranges, order |-> ByFrom(ranges),
   stacks |-> [i \in DOMAIN ranges |-> EmptyStack], cursor |-> 1, count |-> 0]

CollectorAppend(c, data) ==
  LET past(k) == k > Len(c.order) \/ c.count < c.ranges[c.order[k]].to
      cursor  == CHOOSE k \in c.cursor..(Len(c.order) + 1) :
                   past(k) /\ \A j \in c.cursor..(k - 1) : ~past(j)
      stacks  == IF cursor > Len(c.order)
                    \/ c.count < c.ranges[c.order[cursor]].from THEN c.stacks
                 ELSE [c.stacks EXCEPT ![c.order[cursor]] = StackAppend(@, data)]
  IN [c EXCEPT !.count = @ + 1, !.cursor = cursor, !.stacks = stacks]

\* Nodes fails with ErrIncomplete until every leaf was seen.
Complete(c) == c.count >= c.newSize /\ \A i \in DOMAIN c.stacks : c.stacks[i] # <<>>
Nodes(c)    == [i \in DOMAIN c.ranges |-> StackRoot(c.stacks[i])]
=============================================================================
