----------------------------- MODULE MerkleHash -----------------------------
(***************************************************************************)
(* The hashes of an RFC 6962 tree (src/internal/merkle/merkle.go) and the  *)
(* audit path that leads from one leaf to the root.                        *)
(*                                                                         *)
(* A hash is the term it was computed from, so two hashes are equal only   *)
(* when their inputs are: SHA-256 without collisions.  The leaf and node   *)
(* prefixes are the tags that keep a leaf apart from an interior node.     *)
(***************************************************************************)
EXTENDS Sequences, SequencesExt

LeafHash(data)        == <<"leaf", data>>
NodeHash(left, right) == <<"node", left, right>>

\* The root a path of siblings leads to, each on the left or on the right.
AuditPath(leaf, path) ==
  FoldLeft(LAMBDA node, step : IF step.left THEN NodeHash(step.sibling, node)
                               ELSE NodeHash(node, step.sibling),
           LeafHash(leaf), path)
=============================================================================
