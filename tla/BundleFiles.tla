---------------------------- MODULE BundleFiles ----------------------------
(***************************************************************************)
(* The optional files of a bundle, as decodeOptional returns them: None    *)
(* when there is no such file, Malformed when it does not hold what it     *)
(* should, and what it holds otherwise.                                    *)
(***************************************************************************)
CONSTANTS
  None,       \* a file, or a field, that is not there or not of its type
  Malformed

\* A file that is there is a list, and none of its records has a problem.
ListProblem(file, Problem(_)) ==
  file # None /\ (file = Malformed \/ \E i \in DOMAIN file : Problem(file[i]))
=============================================================================
