------------------------------- MODULE Seals -------------------------------
(***************************************************************************)
(* What makes a checkpoint a seal: its hash (src/verify/walk.go), its      *)
(* Ed25519 signature and the window of the key that made it                *)
(* (src/verify/keys.go).  A hash is the record of the fields it was        *)
(* computed over: SHA-256 without collisions.  A signature is the pair of  *)
(* the key that made it and the hash it is over.                           *)
(***************************************************************************)
EXTENDS Integers

CONSTANTS
  TrustedKeys,  \* the trusted set: a key's window, for every key in it
  None,         \* a field that is absent or null
  Malformed     \* a hash that is not 32 bytes of hex, a time that is no date

ASSUME SealsAssumption == None # Malformed

CheckpointHash(stream, cp) ==
  [stream |-> stream, from |-> cp.from, to |-> cp.to, root |-> cp.root,
   prev |-> cp.prev, created_at |-> cp.created_at]

Signature(key, hash) == [key |-> key, over |-> hash]

IsDigest(hash) == hash \notin {None, Malformed}

SignatureValid(cp) == IsDigest(cp.hash) /\ cp.signature = Signature(cp.key, cp.hash)
-----------------------------------------------------------------------------
(* Key windows.                                                            *)

\* A bound that is written down and can be read.
Bound(t) == t \notin {None, Malformed}

\* Both ends excluded: a checkpoint sealed at the moment of retirement is refused.
WindowProblemExclusive(window, sealedAt) ==
  \/ ~Bound(sealedAt)
  \/ Malformed \in {window.created, window.retired}
  \/ Bound(window.created) /\ sealedAt <= window.created
  \/ Bound(window.retired) /\ sealedAt >= window.retired

\* windowProblems: a key vouches for what was sealed inside its window, both
\* ends included; an absent end is open, a time that cannot be read is a problem.
WindowProblem(window, sealedAt) ==
  \/ ~Bound(sealedAt)
  \/ Malformed \in {window.created, window.retired}
  \/ Bound(window.created) /\ sealedAt < window.created
  \/ Bound(window.retired) /\ sealedAt > window.retired
=============================================================================
