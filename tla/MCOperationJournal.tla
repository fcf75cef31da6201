------------------------- MODULE MCOperationJournal -------------------------
(* OperationJournal for TLC.                                               *)
EXTENDS OperationJournal, TLC

OpSymmetry == Permutations(Op)
=============================================================================
