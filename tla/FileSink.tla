-------------------------------- MODULE FileSink --------------------------------
(***************************************************************************)
(* The built-in file sink between the worker and a device that may fill up *)
(* and be freed again: fwrite, fwrite, fflush, and a process that may be   *)
(* killed (src/src/mp_logger_streams.c:299-331, mp_logger.c:377-399).      *)
(* A line is some pieces and a newline: what stdio may part.               *)
(***************************************************************************)
EXTENDS Integers, Sequences

CONSTANTS
  Pieces,      \* of an entry without its newline
  MaxEntries   \* bound: entries handed to the sink

ASSUME SinkAssumption == Pieces \in Nat \ {0} /\ MaxEntries \in Nat

VARIABLES
  file,    \* the pieces in the file
  held,    \* those in the FILE's buffer
  full,    \* the device does not take all it is given
  pc,      \* the next call of the write
  entry,   \* the last entry handed over
  failed   \* history: entries the write answered IO_ERROR for, which the
           \* worker reports to the backup logger

vars == <<file, held, full, pc, entry, failed>>
sink == <<file, held>>

Body == [k \in 1 .. Pieces |-> <<entry, k>>]
Newline == << <<entry, Pieces + 1>> >>

Init ==
  /\ file = << >> /\ held = << >>
  /\ full \in BOOLEAN
  /\ pc = "idle"
  /\ entry = 0 /\ failed = {}

-------------------------------------------------------------------------------
(* stdio.                                                                  *)

\* Some of the buffer goes out, never all on a full device; the rest waits.
GoesOut(buffer) ==
  \E n \in 0 .. Len(buffer) :
    /\ full /\ buffer # << >> => n < Len(buffer)
    /\ file' = file \o SubSeq(buffer, 1, n)
    /\ held' = SubSeq(buffer, n + 1, Len(buffer))

\* fwrite falls short only when it has to make room on a full device.
Fwrite(pieces) ==
  \E n \in 0 .. Len(pieces) :
    /\ n < Len(pieces) => full
    /\ GoesOut(held \o SubSeq(pieces, 1, n))

-------------------------------------------------------------------------------
(* mp_logger_write_file_stream and the worker around it.                   *)

Moves(from, to) == pc = from /\ pc' = to

HandOver ==
  /\ Moves("idle", "body")
  /\ entry < MaxEntries
  /\ entry' = entry + 1
  /\ UNCHANGED <<sink, full, failed>>

\* Wrong: what fwrite did not take is tried again, from the start.
WriteBodyAgain ==
  /\ pc = "body"
  /\ Fwrite(Body)
  /\ pc' = IF full /\ Len(held') < Len(held) + Pieces THEN "body"
                                                      ELSE "newline"
  /\ UNCHANGED <<full, entry, failed>>

\* How much fwrite has taken is not looked at.
WriteBody ==
  /\ Moves("body", "newline")
  /\ Fwrite(Body)
  /\ UNCHANGED <<full, entry, failed>>

\* Wrong: the write ends with the newline.
WriteNewlineLast ==
  /\ Moves("newline", "idle")
  /\ Fwrite(Newline)
  /\ UNCHANGED <<full, entry, failed>>

WriteNewline ==
  /\ Moves("newline", "flush")
  /\ Fwrite(Newline)
  /\ UNCHANGED <<full, entry, failed>>

Flush ==
  /\ Moves("flush", "idle")
  /\ full => held = << >>
  /\ file' = file \o held
  /\ held' = << >>
  /\ UNCHANGED <<full, entry, failed>>

\* What did not go out stays, to be written with the next entry.
FlushFails ==
  /\ Moves("flush", "idle")
  /\ full /\ held # << >>
  /\ GoesOut(held)
  /\ failed' = failed \cup {entry}
  /\ UNCHANGED <<full, entry>>

\* mp_logger_destroy_file_stream: fclose writes what it can.
Destroy ==
  /\ Moves("idle", "closed")
  /\ \E n \in 0 .. Len(held) :
       /\ n < Len(held) => full
       /\ file' = file \o SubSeq(held, 1, n)
  /\ held' = << >>
  /\ UNCHANGED <<full, entry, failed>>

-------------------------------------------------------------------------------
(* The world around.                                                       *)

Device ==
  /\ full' = ~full
  /\ UNCHANGED <<sink, pc, entry, failed>>

\* The process is killed.
Crash ==
  /\ pc' = "closed"
  /\ held' = << >>
  /\ UNCHANGED <<file, full, entry, failed>>

Next ==
  \/ HandOver \/ WriteBody \/ WriteNewline \/ Flush \/ FlushFails
  \/ Destroy \/ Device \/ Crash

Spec == Init /\ [][Next]_vars

-------------------------------------------------------------------------------
(* Properties.                                                             *)

Before(x, y) ==
  \/ x[1] < y[1]
  \/ x[1] = y[1] /\ x[2] < y[2]

\* Whatever the device refuses, and when, nothing comes out twice and no entry
\* comes out within or before an earlier one; the late rest of an entry that
\* failed stands before the next.
InOrder ==
  LET out == file \o held
  IN  \A i, j \in 1 .. Len(out) : i < j => Before(out[i], out[j])

\* Between two writes a crash loses nothing of an entry that was answered OK,
\* so far as fwrite took it (mp_logger_streams.c:313).
CrashLosesOnlyFailed ==
  pc = "idle" => \A i \in 1 .. Len(held) : held[i][1] \in failed
===============================================================================
