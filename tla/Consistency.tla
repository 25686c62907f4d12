---------------------------- MODULE Consistency ----------------------------
(***************************************************************************)
(* What src/verify/consistency.go compares: the tree states that           *)
(* consistency.json records with the roots captured as the events streamed *)
(* past, one walked bundle with another, and a walked bundle with a state  *)
(* recorded before.  A walked bundle is [stream, from, to, roots, nodes]:  *)
(* roots maps a tree size to its cumulative root, and nodes is None when   *)
(* no proof was built.  consistency.json is [root, states, proof], with    *)
(* states a sequence of [size, root] and proof None or [from, to, nodes].  *)
(***************************************************************************)
EXTENDS BundleFiles, Merkle, Verdict

\* consistencyTreeSizes: every tree size the file names.
TreeSizes(file) ==
  IF file \in {None, Malformed} THEN {}
  ELSE {file.states[i].size : i \in DOMAIN file.states}
         \cup (IF file.proof = None THEN {} ELSE {file.proof.from, file.proof.to})

\* The root captured at a size, or None.
RootAt(roots, size) == IF size \in DOMAIN roots THEN roots[size] ELSE None

StateProblem(state, to, roots) ==
  \/ state.size = None \/ state.size < 1 \/ state.size > to
  \/ RootAt(roots, state.size) # state.root

\* A plausible bug: the size the proof is said to lead to is taken on trust.
RecordedProofProblemAnySize(proof, to, roots) ==
  ~(/\ proof.from >= 1 /\ RootAt(roots, proof.from) # None
    /\ ConsistencyVerify(proof.from, proof.to, roots[proof.from], roots[to], proof.nodes))

RecordedProofProblem(proof, to, roots) ==
  ~(/\ proof.from >= 1 /\ proof.to = to /\ RootAt(roots, proof.from) # None
    /\ ConsistencyVerify(proof.from, proof.to, roots[proof.from], roots[to], proof.nodes))

\* checkConsistencyFile: only a log walked from its beginning has roots.
ConsistencyFileProblem(file, from, to, roots) ==
  /\ file \notin {None, Malformed} /\ from = 1 /\ RootAt(roots, to) # None
  /\ \/ file.root # roots[to]
     \/ \E i \in DOMAIN file.states : StateProblem(file.states[i], to, roots)
     \/ file.proof # None /\ RecordedProofProblem(file.proof, to, roots)

-----------------------------------------------------------------------------
(* Two bundles, or a bundle and a state.                                   *)

OrderProblem(old, newer) ==
  \/ old.stream # newer.stream
  \/ old.from # 1 \/ newer.from # 1
  \/ old.to > newer.to

Captured(old, newer) ==
  /\ RootAt(old.roots, old.to) # None
  /\ {old.to, newer.to} \subseteq DOMAIN newer.roots
  /\ newer.nodes # None

\* A plausible bug: the prefix of the new bundle is compared with itself.
ExtendsItself(old, newer) ==
  /\ Captured(old, newer)
  /\ ConsistencyVerify(old.to, newer.to, newer.roots[old.to], newer.roots[newer.to],
                       newer.nodes)

\* The new bundle's prefix has the old one's root, and the proof verifies.
Extends(old, newer) ==
  /\ Captured(old, newer)
  /\ old.roots[old.to] = newer.roots[old.to]
  /\ ConsistencyVerify(old.to, newer.to, old.roots[old.to], newer.roots[newer.to],
                       newer.nodes)

\* failed: a failure was reported before; then the trees are not compared.
ConsistencyProblem(old, newer, failed) ==
  OrderProblem(old, newer) \/ (~failed /\ ~Extends(old, newer))

\* root is Malformed unless it is 64 hex characters.
RecordedStateProblem(walked, size, root) ==
  \/ walked.from # 1
  \/ size < 1 \/ size > walked.to
  \/ root = Malformed
  \/ root # RootAt(walked.roots, size)

\* The state a verification offers to be recorded, for a later --consistency.
OfferedState(walked, results) ==
  IF ExitCode(results) # ExitFail /\ walked.from = 1 /\ RootAt(walked.roots, walked.to) # None
  THEN [size |-> walked.to, root |-> walked.roots[walked.to]] ELSE None
=============================================================================
