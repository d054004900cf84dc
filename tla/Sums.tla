-------------------------------- MODULE Sums --------------------------------
(***************************************************************************)
(* The total of a sequence of numbers, as a recursive function: the folds  *)
(* of the community modules compute the same, but nothing can be proved of *)
(* them here.                                                              *)
(***************************************************************************)
EXTENDS Integers, Sequences

SumOf(w) ==
  LET sum[i \in 0..Len(w)] == IF i = 0 THEN 0 ELSE sum[i - 1] + w[i]
  IN  sum[Len(w)]
=============================================================================
