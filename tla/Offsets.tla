-------------------------------- MODULE Offsets --------------------------------
(***************************************************************************)
(* Where the parts of an .obj begin that follow one another, each with a   *)
(* length of its own.                                                      *)
(***************************************************************************)
EXTENDS Integers, Sequences

(* The sums of the first 0, 1, 2, ... of some numbers. *)
Sums(seq) ==
  LET sums[n \in 0 .. Len(seq)] == IF n = 0 THEN 0 ELSE sums[n - 1] + seq[n]
  IN sums
=============================================================================
