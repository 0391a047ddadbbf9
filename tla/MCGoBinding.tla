------------------------------ MODULE MCGoBinding ------------------------------
(***************************************************************************)
(* Instances of GoBinding for TLC.  Timeouts are none, half a millisecond  *)
(* and one millisecond.                                                    *)
(***************************************************************************)
EXTENDS GoBinding, TLC

MCTimeouts == {0, 1, 2}
===============================================================================
