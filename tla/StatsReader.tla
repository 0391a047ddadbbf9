------------------------------ MODULE StatsReader ------------------------------
(***************************************************************************)
(* mp_logger_get_stats beside everything of MpLogger: another thread loads *)
(* the counters one by one, without a lock, while the others go on         *)
(* (src/src/mp_logger.c:955-966).  A call that finds nothing but its       *)
(* counters to read never waits, so one reader at a time stands for all.   *)
(* The number of streams, which it copies last, is left out.               *)
(***************************************************************************)
EXTENDS MpLogger

VARIABLES
  loads,   \* how many of its loads the call has made; idle when all are
  seen,    \* its out_stats
  settled, \* history: log calls that had returned when the call began
  waiting  \* history: records on their way when it loaded the queued total

statsVars == <<loads, seen, settled, waiting>>
allVars == <<vars, statsVars>>

\* Wrong: the loads in another order.
OrderProcessedFirst == <<"processed", "queued", "busy", "full">>

Order == <<"queued", "processed", "busy", "full">>
Counters ==
  [queued |-> queued_records_total, processed |-> processed_records_total,
   busy |-> dropped_busy_total, full |-> dropped_full_total]

Idle == loads = 4

\* An out_stats nothing has been loaded into.
Unread == [c \in {"queued", "processed", "busy", "full"} |-> 0]

\* The records that have their number and are not counted as processed: one
\* that is being put, those in the ring, and the one in the worker's hands.
OnTheirWay ==
  queue_count + (IF \E p \in Producers : ppc[p] = "copy" THEN 1 ELSE 0)
              + (IF WorkerHasRecord \/ wpc = "count" THEN 1 ELSE 0)

StatsInit ==
  /\ loads = 4
  /\ seen = Unread
  /\ settled = 0
  /\ waiting = 0

StatsEnter ==
  /\ Idle /\ ~destroying
  /\ loads' = 0 /\ seen' = Unread /\ waiting' = 0
  /\ settled' = calls - Cardinality({p \in Producers : ppc[p] # "idle"})

Load ==
  /\ ~Idle
  /\ loads' = loads + 1
  /\ LET c == Order[loads']
     IN /\ seen' = [seen EXCEPT ![c] = Counters[c]]
        /\ waiting' = IF c = "queued" THEN OnTheirWay ELSE waiting
  /\ UNCHANGED settled

StatsStep == (StatsEnter \/ Load) /\ UNCHANGED vars

\* Destroy is of a logger on which no other call is under way.
LoggerStep ==
  /\ Next
  /\ destroying' # destroying => Idle
  /\ UNCHANGED statsVars

AllInit == Init /\ StatsInit
AllNext == LoggerStep \/ StatsStep
AllSpec == AllInit /\ [][AllNext]_allVars

-------------------------------------------------------------------------------
(* Properties.                                                             *)

\* A backlog computed from one answer is never more than was really waiting
\* when the queued total was loaded, however much was logged and processed
\* between the loads (mp_logger.c:959-960): a reader is not alarmed by records
\* that were handled before they were waited for.
BacklogReal == Idle => seen.queued <= seen.processed + waiting

\* Every log call that had returned before the answer was asked for is in one
\* of its counters, and none is in two (include/mp_logger.h:259-260).
CallsCovered ==
  Idle => LET told == seen.queued + seen.busy + seen.full
          IN settled <= told /\ told <= calls
===============================================================================
