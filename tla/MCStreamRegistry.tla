--------------------------- MODULE MCStreamRegistry ---------------------------
(***************************************************************************)
(* Instances of StreamRegistry for TLC.  Callers differ in nothing.        *)
(***************************************************************************)
EXTENDS StreamRegistry, TLC

CallerSymmetry == Permutations(Callers)
===============================================================================
