------------------------------ MODULE BoundedLog ------------------------------
(***************************************************************************)
(* What mp_logger promises about the records it admits, with no thread,    *)
(* lock, ring or counter in sight: producers admit messages one after the  *)
(* other, at most Capacity admitted messages wait at any time, and one     *)
(* drain takes them in admission order and hands each one, stamped with    *)
(* its admission number, to the sinks.  docs/architecture.md:16-18 is the  *)
(* decision this module states; MpLogger.tla implements it.                *)
(***************************************************************************)
EXTENDS Naturals, Sequences

CONSTANTS
  Messages,   \* what a caller can log
  Capacity    \* config.buffer_capacity

VARIABLES
  admitted,   \* every message admitted so far, in admission order
  taken,      \* how many of them the drain has taken out of the queue
  dispatched  \* the records handed to the sinks, in that order

logVars == <<admitted, taken, dispatched>>

Init ==
  /\ admitted = << >>
  /\ taken = 0
  /\ dispatched = << >>

\* A message is admitted only while fewer than Capacity messages wait.
Admit(m) ==
  /\ Len(admitted) - taken < Capacity
  /\ admitted' = Append(admitted, m)
  /\ UNCHANGED <<taken, dispatched>>

\* The drain holds at most one record that the sinks have not seen yet.
Take ==
  /\ taken = Len(dispatched)
  /\ taken < Len(admitted)
  /\ taken' = taken + 1
  /\ UNCHANGED <<admitted, dispatched>>

Dispatch ==
  /\ Len(dispatched) < taken
  /\ dispatched' = Append(dispatched,
                          [sequence_id |-> taken, message |-> admitted[taken]])
  /\ UNCHANGED <<admitted, taken>>

Next ==
  \/ \E m \in Messages : Admit(m)
  \/ Take
  \/ Dispatch

Spec == Init /\ [][Next]_logVars
===============================================================================
