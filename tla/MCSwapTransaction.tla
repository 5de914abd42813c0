------------------------- MODULE MCSwapTransaction -------------------------
(* Instances of SwapTransaction: the server commands are interchangeable.  *)
EXTENDS SwapTransaction

CommandSymmetry == Permutations(Commands)
=============================================================================
