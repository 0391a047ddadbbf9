----------------------------- MODULE MCStatsReader -----------------------------
(***************************************************************************)
(* Small instances of StatsReader for TLC.                                 *)
(***************************************************************************)
EXTENDS StatsReader, TLC

ProducerSymmetry == Permutations(Producers)
===============================================================================
