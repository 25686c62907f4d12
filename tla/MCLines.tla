------------------------------ MODULE MCLines -------------------------------
(***************************************************************************)
(* Every file of up to MaxFileBytes bytes: with a limit of three bytes and *)
(* a buffer of two there are lines shorter than the buffer, lines that     *)
(* cross it, and lines one byte at and over the limit.                     *)
(***************************************************************************)
EXTENDS Lines, SequencesExt

CONSTANT MaxFileBytes

MCFiles == BoundedSeq(Bytes, MaxFileBytes)
=============================================================================
