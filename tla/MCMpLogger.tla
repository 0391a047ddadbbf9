------------------------------ MODULE MCMpLogger ------------------------------
(***************************************************************************)
(* Small instances of MpLogger for TLC.  Producers are interchangeable and *)
(* nothing but their identity tells their messages apart, so the safety    *)
(* runs take them up to permutation.                                       *)
(***************************************************************************)
EXTENDS MpLogger, TLC

ProducerSymmetry == Permutations(Producers)
===============================================================================
