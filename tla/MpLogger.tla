------------------------------- MODULE MpLogger -------------------------------
(***************************************************************************)
(* The queue, the worker thread and the lifecycle of one mp_logger_t       *)
(* (src/src/mp_logger.c), step by step as its threads interleave:          *)
(*                                                                         *)
(*   producers    mp_logger_log / mp_logger_log_fields                     *)
(*   the worker   mp_logger_worker_main                                    *)
(*   a controller add_stream, start, shutdown and destroy, called one at a *)
(*                time by one thread                                       *)
(*   flushers     mp_logger_flush                                          *)
(*                                                                         *)
(* A step is the code between two accesses another thread can observe.     *)
(* shutdown_requested, worker_started and queue_count are plain fields     *)
(* that some functions read without queue_mutex; every such read is a step *)
(* of its own, so it returns the value before or after any racing write.   *)
(***************************************************************************)
EXTENDS Naturals, Sequences, FiniteSets

CONSTANTS
  Producers,       \* threads that log; a producer stands for its message too
  Flushers,        \* threads that flush
  BufferCapacity,  \* config.buffer_capacity
  MaxStreams,      \* MP_LOGGER_MAX_STREAMS
  MaxCalls,        \* bound: log calls that get past the running check
  Worker,          \* the worker thread, as an owner of queue_mutex
  None             \* no owner, no message

ASSUME ConstantsAssumption ==
  /\ BufferCapacity \in Nat \ {0}
  /\ MaxStreams \in Nat \ {0}
  /\ MaxCalls \in Nat
  /\ Worker \notin Producers
  /\ None \notin Producers \cup {Worker}

VARIABLES
  slots, queue_head, queue_tail, queue_count,   \* the ring
  queue_mutex,                                  \* its owner, or None
  queued_records_total, processed_records_total,
  dropped_busy_total, dropped_full_total,
  shutdown_requested, worker_started, stream_count,
  wpc,              \* where the worker is
  wrec,             \* the record the worker copied out of the ring
  last_busy_total, last_full_total,  \* the worker's locals
  warned_busy, warned_full,  \* totals last handed to mp_logger_backup_write
  ppc,              \* where each producer is
  cpc, destroying,  \* where the controller is; is it inside destroy
  fpc, ftarget,     \* where each flusher is; its target_processed
  calls,            \* log calls that got past the running check
  \* History, read by properties only:
  admitted,         \* messages published in the ring, in that order
  dispatched,       \* records that went through the fan-out loop
  atShutdown,       \* what had happened when the last shutdown began
  floor             \* Len(admitted) when each flusher's call began

ring == <<slots, queue_head, queue_tail, queue_count>>
totals == <<queued_records_total, processed_records_total>>
drops == <<dropped_busy_total, dropped_full_total>>
queue == <<ring, queue_mutex, totals, drops>>
mirror == <<last_busy_total, last_full_total, warned_busy, warned_full>>
worker == <<wpc, wrec, mirror>>
flags == <<shutdown_requested, worker_started, stream_count, destroying,
           atShutdown>>
flushing == <<fpc, ftarget, floor>>
history == <<admitted, dispatched>>
vars == <<queue, worker, ppc, calls, cpc, flags, flushing, history>>

Slot == [sequence_id : Nat, message : Producers \cup {None}]
EmptySlot == [sequence_id |-> 0, message |-> None]

Init ==
  /\ slots = [i \in 0 .. BufferCapacity - 1 |-> EmptySlot]
  /\ queue_head = 0 /\ queue_tail = 0 /\ queue_count = 0
  /\ queue_mutex = None
  /\ queued_records_total = 0 /\ processed_records_total = 0
  /\ dropped_busy_total = 0 /\ dropped_full_total = 0
  /\ shutdown_requested = FALSE /\ worker_started = FALSE
  /\ stream_count \in 0 .. MaxStreams    \* built-in streams of create
  /\ wpc = "none" /\ wrec = EmptySlot
  /\ last_busy_total = 0 /\ last_full_total = 0
  /\ warned_busy = 0 /\ warned_full = 0
  /\ ppc = [p \in Producers |-> "idle"] /\ calls = 0
  /\ cpc = "idle" /\ destroying = FALSE
  /\ fpc = [f \in Flushers |-> "idle"]
  /\ ftarget = [f \in Flushers |-> 0] /\ floor = [f \in Flushers |-> 0]
  /\ admitted = << >> /\ dispatched = << >>
  /\ atShutdown = [admitted |-> 0, busy |-> 0, full |-> 0]

-------------------------------------------------------------------------------
(* Producers: mp_logger_enqueue_record.  A call refused for its arguments  *)
(* or because shutdown was requested changes nothing and is no step.       *)

Moves(p, from, to) ==
  /\ ppc[p] = from
  /\ ppc' = [ppc EXCEPT ![p] = to]
  /\ UNCHANGED <<cpc, flags, flushing>>

\* pthread_cond_signal(&queue_cond): only the worker ever waits there, and a
\* signal while it does not is lost.
CondSignal == wpc' = IF wpc = "waiting" THEN "lock" ELSE wpc

LogEnter(p) ==
  /\ ~destroying
  /\ ~shutdown_requested
  /\ calls < MaxCalls
  /\ Moves(p, "idle", "trylock")
  /\ calls' = calls + 1
  /\ UNCHANGED <<queue, worker, history>>

\* Wrong: a lock that blocks instead of trylock.
TryLockBusyBlocks(p) == FALSE /\ ppc[p] = "busy"

\* pthread_mutex_trylock fails whoever the owner is.
TryLockBusy(p) ==
  /\ queue_mutex # None
  /\ Moves(p, "trylock", "busy")
  /\ UNCHANGED <<queue, worker, calls, history>>

CountBusy(p) ==
  /\ Moves(p, "busy", "idle")
  /\ dropped_busy_total' = dropped_busy_total + 1
  /\ UNCHANGED <<ring, queue_mutex, totals, dropped_full_total, worker, calls,
                 history>>

TryLock(p) ==
  /\ queue_mutex = None
  /\ Moves(p, "trylock", "locked")
  /\ queue_mutex' = p
  /\ UNCHANGED <<ring, totals, drops, worker, calls, history>>

\* Wrong: one record too many.
HasRoomOffByOne == queue_count <= BufferCapacity

HasRoom == queue_count < BufferCapacity

\* Wrong: a full queue that is not counted.
QueueFullUncounted(p) ==
  /\ ~HasRoom
  /\ Moves(p, "locked", "idle")
  /\ queue_mutex' = None
  /\ UNCHANGED <<ring, totals, drops, worker, calls, history>>

\* Wrong: the record is numbered before the room is tested.
QueueFullNumbered(p) ==
  /\ ~HasRoom
  /\ Moves(p, "locked", "full")
  /\ queue_mutex' = None
  /\ queued_records_total' = queued_records_total + 1
  /\ UNCHANGED <<ring, processed_records_total, drops, worker, calls, history>>

QueueFull(p) ==
  /\ ~HasRoom
  /\ Moves(p, "locked", "full")
  /\ queue_mutex' = None
  /\ UNCHANGED <<ring, totals, drops, worker, calls, history>>

CountFull(p) ==
  /\ Moves(p, "full", "idle")
  /\ dropped_full_total' = dropped_full_total + 1
  /\ UNCHANGED <<ring, queue_mutex, totals, dropped_busy_total, worker, calls,
                 history>>

\* Wrong: the slot is copied after the lock is given back.
StampSlotUnlocks(p) ==
  /\ HasRoom
  /\ Moves(p, "locked", "copy")
  /\ queue_mutex' = None
  /\ queued_records_total' = queued_records_total + 1
  /\ slots' = [slots EXCEPT ![queue_tail] =
                 [sequence_id |-> queued_records_total', message |-> @.message]]
  /\ UNCHANGED <<queue_head, queue_tail, queue_count, processed_records_total,
                 drops, worker, calls, history>>

\* The atomic fetch_add that numbers the record: flushers and get_stats see
\* the new total before the record is published.
StampSlot(p) ==
  /\ HasRoom
  /\ Moves(p, "locked", "copy")
  /\ queued_records_total' = queued_records_total + 1
  /\ slots' = [slots EXCEPT ![queue_tail] =
                 [sequence_id |-> queued_records_total', message |-> @.message]]
  /\ UNCHANGED <<queue_head, queue_tail, queue_count, queue_mutex,
                 processed_records_total, drops, worker, calls, history>>

\* Copy the message, advance the tail, count the record, unlock.
PublishSlot(p) ==
  /\ Moves(p, "copy", "signal")
  /\ slots' = [slots EXCEPT ![queue_tail] =
                 [sequence_id |-> @.sequence_id, message |-> p]]
  /\ queue_tail' = (queue_tail + 1) % BufferCapacity
  /\ queue_count' = queue_count + 1
  /\ queue_mutex' = None
  /\ admitted' = Append(admitted, p)
  /\ UNCHANGED <<queue_head, totals, drops, worker, calls, dispatched>>

\* Wrong: the record is published and nobody is told.
SignalWorkerForgotten(p) ==
  /\ Moves(p, "signal", "idle")
  /\ UNCHANGED <<queue, worker, calls, history>>

SignalWorker(p) ==
  /\ Moves(p, "signal", "idle")
  /\ CondSignal
  /\ UNCHANGED <<queue, wrec, mirror, calls, history>>

\* The steps of a call that has begun.
ProducerStep(p) ==
  \/ TryLockBusy(p) \/ CountBusy(p)
  \/ TryLock(p) \/ QueueFull(p) \/ CountFull(p)
  \/ StampSlot(p) \/ PublishSlot(p) \/ SignalWorker(p)

-------------------------------------------------------------------------------
(* The worker: mp_logger_worker_main, for as long as the logger it points  *)
(* at is allocated.                                                        *)

WorkerMoves(from, to) ==
  /\ cpc # "gone"
  /\ wpc = from
  /\ wpc' = to
  /\ UNCHANGED <<ppc, calls, cpc, flags, flushing>>

WorkerUnlocks == queue_mutex' = None /\ UNCHANGED <<ring, totals, drops>>

WorkerAllocates ==
  /\ WorkerMoves("spawned", "lock")
  /\ last_busy_total' = 0 /\ last_full_total' = 0
  /\ UNCHANGED <<queue, wrec, warned_busy, warned_full, history>>

\* A scratch buffer cannot be allocated: the thread returns.
WorkerAllocFails ==
  /\ WorkerMoves("spawned", "allocFailed")
  /\ UNCHANGED <<queue, wrec, mirror, history>>

WorkerLock ==
  /\ queue_mutex = None
  /\ WorkerMoves("lock", "test")
  /\ queue_mutex' = Worker
  /\ UNCHANGED <<ring, totals, drops, wrec, mirror, history>>

\* Wrong: a loop condition that does not look at the flag.
WorkerFindsNothingEver ==
  /\ queue_count = 0
  /\ WorkerMoves("test", "enterWait")
  /\ UNCHANGED <<queue, wrec, mirror, history>>

\* The loop condition was read with shutdown_requested still zero; the
\* worker is about to call pthread_cond_wait.
WorkerFindsNothing ==
  /\ queue_count = 0 /\ ~shutdown_requested
  /\ WorkerMoves("test", "enterWait")
  /\ UNCHANGED <<queue, wrec, mirror, history>>

WorkerWaits ==
  /\ WorkerMoves("enterWait", "waiting")
  /\ WorkerUnlocks
  /\ UNCHANGED <<wrec, mirror, history>>

SpuriousWakeup ==
  /\ WorkerMoves("waiting", "lock")
  /\ UNCHANGED <<queue, wrec, mirror, history>>

\* Wrong: the head is not advanced.
WorkerTakesSameHead ==
  /\ queue_count > 0
  /\ WorkerMoves("test", "mirrorBusy")
  /\ wrec' = slots[queue_head]
  /\ queue_count' = queue_count - 1
  /\ queue_mutex' = None
  /\ UNCHANGED <<slots, queue_head, queue_tail, totals, drops, mirror,
                 history>>

WorkerTakes ==
  /\ queue_count > 0
  /\ WorkerMoves("test", "mirrorBusy")
  /\ wrec' = slots[queue_head]
  /\ queue_head' = (queue_head + 1) % BufferCapacity
  /\ queue_count' = queue_count - 1
  /\ queue_mutex' = None
  /\ UNCHANGED <<slots, queue_tail, totals, drops, mirror, history>>

\* Wrong: the flag is tested before the queue.
WorkerLeavesAtOnce ==
  /\ shutdown_requested
  /\ WorkerMoves("test", "lastBusy")
  /\ WorkerUnlocks
  /\ UNCHANGED <<wrec, mirror, history>>

\* Wrong: no last look at the drop counters.
WorkerLeavesQuietly ==
  /\ queue_count = 0 /\ shutdown_requested
  /\ WorkerMoves("test", "ended")
  /\ WorkerUnlocks
  /\ UNCHANGED <<wrec, mirror, history>>

WorkerLeaves ==
  /\ queue_count = 0 /\ shutdown_requested
  /\ WorkerMoves("test", "lastBusy")
  /\ WorkerUnlocks
  /\ UNCHANGED <<wrec, mirror, history>>

\* mp_logger_flush_drop_counters, its two halves; after every record and
\* once more after the loop.  The worker hands a warning over and takes its
\* total for mirrored: mp_logger_backup_write discards the result of write()
\* (mp_logger_streams.c:836), so what reaches the file is no state of the core.
MirrorBusy ==
  /\ \/ WorkerMoves("mirrorBusy", "mirrorFull")
     \/ WorkerMoves("lastBusy", "lastFull")
  /\ IF dropped_busy_total > last_busy_total
     THEN /\ warned_busy' = dropped_busy_total
          /\ last_busy_total' = dropped_busy_total
     ELSE UNCHANGED <<warned_busy, last_busy_total>>
  /\ UNCHANGED <<queue, wrec, last_full_total, warned_full, history>>

MirrorFull ==
  /\ \/ WorkerMoves("mirrorFull", "render")
     \/ WorkerMoves("lastFull", "ended")
  /\ IF dropped_full_total > last_full_total
     THEN /\ warned_full' = dropped_full_total
          /\ last_full_total' = dropped_full_total
     ELSE UNCHANGED <<warned_full, last_full_total>>
  /\ UNCHANGED <<queue, wrec, last_busy_total, warned_busy, history>>

\* From WorkerRenders to WorkerFansOut the worker owns stream_mutex.
StreamMutexHeld == wpc = "fanOut"

WorkerRenders ==
  /\ WorkerMoves("render", "fanOut")
  /\ UNCHANGED <<queue, wrec, mirror, history>>

\* Every stream that takes the level has been written, or has failed and
\* been reported to the backup logger; unlock stream_mutex.
WorkerFansOut ==
  /\ WorkerMoves("fanOut", "count")
  /\ dispatched' = Append(dispatched, wrec)
  /\ UNCHANGED <<queue, wrec, mirror, admitted>>

WorkerCounts ==
  /\ WorkerMoves("count", "lock")
  /\ processed_records_total' = processed_records_total + 1
  /\ UNCHANGED <<ring, queue_mutex, queued_records_total, drops, wrec, mirror,
                 history>>

WorkerStep ==
  \/ WorkerAllocates \/ WorkerAllocFails
  \/ WorkerLock \/ WorkerFindsNothing \/ WorkerWaits
  \/ WorkerTakes \/ WorkerLeaves
  \/ MirrorBusy \/ MirrorFull
  \/ WorkerRenders \/ WorkerFansOut \/ WorkerCounts

-------------------------------------------------------------------------------
(* The controller: mp_logger_add_stream, start, shutdown and destroy.      *)

ControllerMoves(from, to) ==
  /\ cpc = from
  /\ cpc' = to
  /\ UNCHANGED <<queue, wrec, mirror, ppc, calls, flushing, history>>

\* mp_logger_add_owned_stream; a duplicate name or a full table is refused
\* and changes nothing.
AddStream ==
  /\ ~StreamMutexHeld
  /\ stream_count < MaxStreams
  /\ ControllerMoves("idle", "idle")
  /\ stream_count' = stream_count + 1
  /\ UNCHANGED <<wpc, shutdown_requested, worker_started, destroying,
                 atShutdown>>

StartEnter ==
  /\ ~worker_started
  /\ stream_count > 0
  /\ ControllerMoves("idle", "create")
  /\ shutdown_requested' = FALSE
  /\ UNCHANGED <<wpc, worker_started, stream_count, destroying, atShutdown>>

ThreadCreate ==
  /\ ControllerMoves("create", "created")
  /\ wpc' = "spawned"
  /\ UNCHANGED flags

ThreadCreateFails ==
  /\ ControllerMoves("create", "idle")
  /\ UNCHANGED <<wpc, flags>>

StartReturns ==
  /\ ControllerMoves("created", "idle")
  /\ worker_started' = TRUE
  /\ UNCHANGED <<wpc, shutdown_requested, stream_count, destroying, atShutdown>>

\* The first statement of mp_logger_shutdown.
RequestShutdown ==
  /\ ControllerMoves("idle", "signal")
  /\ shutdown_requested' = TRUE
  /\ atShutdown' = IF shutdown_requested THEN atShutdown
                   ELSE [admitted |-> Len(admitted),
                         busy |-> dropped_busy_total,
                         full |-> dropped_full_total]
  /\ UNCHANGED <<wpc, worker_started, stream_count>>

Shutdown == RequestShutdown /\ UNCHANGED destroying

\* Signal without queue_mutex, then return, join, or join with a deadline.
SignalShutdown ==
  /\ CondSignal
  /\ \/ ~worker_started /\ ControllerMoves("signal", "idle")
     \/ worker_started /\ ~destroying /\ ControllerMoves("signal", "join")
     \/ worker_started /\ ControllerMoves("signal", "timedJoin")
  /\ UNCHANGED flags

AfterShutdown == IF destroying THEN "destroyStreams" ELSE "idle"

Join ==
  /\ \/ wpc = "ended" /\ wpc' = "joined"
     \/ wpc = "allocFailed" /\ wpc' = "none"
  /\ \/ ControllerMoves("join", AfterShutdown)
     \/ ControllerMoves("timedJoin", AfterShutdown)
  /\ worker_started' = FALSE
  /\ UNCHANGED <<shutdown_requested, stream_count, destroying, atShutdown>>

\* The deadline passes first: shutdown returns an error, destroy goes on.
JoinTimesOut ==
  /\ wpc \notin {"ended", "allocFailed"}
  /\ ControllerMoves("timedJoin", AfterShutdown)
  /\ UNCHANGED <<wpc, flags>>

Returned == {"idle", "drained", "empty", "notRunning", "timedOut"}

\* mp_logger_destroy, of a logger on which no other call is under way.
Destroy ==
  /\ \A p \in Producers : ppc[p] = "idle"
  /\ \A f \in Flushers : fpc[f] \in Returned
  /\ destroying' = TRUE
  /\ \/ worker_started /\ RequestShutdown
     \/ /\ ~worker_started
        /\ ControllerMoves("idle", "destroyStreams")
        /\ UNCHANGED <<wpc, shutdown_requested, worker_started, stream_count,
                       atShutdown>>

DestroyStreams ==
  /\ ~StreamMutexHeld
  /\ ControllerMoves("destroyStreams", "release")
  /\ stream_count' = 0
  /\ UNCHANGED <<wpc, shutdown_requested, worker_started, destroying,
                 atShutdown>>

\* The locks are destroyed and the memory is freed; nothing runs after it.
Release ==
  /\ ControllerMoves("release", "gone")
  /\ UNCHANGED <<wpc, flags>>

\* The steps of a call that has begun; a timed join waits for no one.
ControllerStep ==
  \/ ThreadCreate \/ ThreadCreateFails \/ StartReturns
  \/ SignalShutdown \/ Join \/ JoinTimesOut
  \/ DestroyStreams \/ Release

-------------------------------------------------------------------------------
(* Flushers: mp_logger_flush.                                              *)

FlusherMoves(f, from, to) ==
  /\ fpc[f] \in from
  /\ fpc' = [fpc EXCEPT ![f] = to]
  /\ UNCHANGED <<queue, worker, ppc, calls, cpc, flags, history>>

FlushEnter(f) ==
  /\ ~destroying
  /\ FlusherMoves(f, Returned, IF worker_started THEN "sample" ELSE "unstarted")
  /\ floor' = [floor EXCEPT ![f] = Len(admitted)]
  /\ UNCHANGED ftarget

\* Wrong: the answer is looked up in the worker's state only.
FlushUnstartedAlwaysEmpty(f) ==
  /\ FlusherMoves(f, {"unstarted"}, "empty")
  /\ UNCHANGED <<ftarget, floor>>

FlushUnstarted(f) ==
  /\ FlusherMoves(f, {"unstarted"},
                  IF queue_count = 0 THEN "empty" ELSE "notRunning")
  /\ UNCHANGED <<ftarget, floor>>

\* Wrong: the target is the counter the loop then compares with.
FlushSampleProcessed(f) ==
  /\ FlusherMoves(f, {"sample"}, "poll")
  /\ ftarget' = [ftarget EXCEPT ![f] = processed_records_total]
  /\ UNCHANGED floor

FlushSample(f) ==
  /\ FlusherMoves(f, {"sample"}, "poll")
  /\ ftarget' = [ftarget EXCEPT ![f] = queued_records_total]
  /\ UNCHANGED floor

FlushDone(f) ==
  /\ processed_records_total >= ftarget[f]
  /\ FlusherMoves(f, {"poll"}, "drained")
  /\ UNCHANGED <<ftarget, floor>>

FlushTimesOut(f) ==
  /\ processed_records_total < ftarget[f]
  /\ FlusherMoves(f, {"poll"}, "timedOut")
  /\ UNCHANGED <<ftarget, floor>>

-------------------------------------------------------------------------------
Terminated == cpc = "gone" /\ UNCHANGED vars

Next ==
  \/ \E p \in Producers : LogEnter(p) \/ ProducerStep(p)
  \/ WorkerStep \/ SpuriousWakeup
  \/ AddStream \/ StartEnter \/ Shutdown \/ Destroy \/ ControllerStep
  \/ \E f \in Flushers : \/ FlushEnter(f) \/ FlushUnstarted(f)
                         \/ FlushSample(f) \/ FlushDone(f) \/ FlushTimesOut(f)
  \/ Terminated

Spec == Init /\ [][Next]_vars

\* A caller's thread that runs; nobody has to begin a call.
ProducerFairness == \A p \in Producers : WF_vars(ProducerStep(p))

\* The other threads run, sinks return and the ring's lock is granted.  Calls
\* are bounded, so weak fairness of the worker's lock never means more than
\* that.  A timed join ends one way or the other; a flush is taken to have no
\* deadline, and no wakeup has to be spurious.
OthersRun ==
  /\ WF_vars(WorkerStep)
  /\ WF_vars(ControllerStep)
  /\ \A f \in Flushers :
       WF_vars(FlushUnstarted(f) \/ FlushSample(f) \/ FlushDone(f))

FairSpec == Spec /\ ProducerFairness /\ OthersRun

\* Only the callers' threads are sure to run: the worker may stay for ever in
\* a sink, or between any two of its statements.
ProducerFairSpec == Spec /\ ProducerFairness

-------------------------------------------------------------------------------
(* Properties.                                                             *)

RecordAt(n) == [sequence_id |-> n, message |-> admitted[n]]
Taken == Len(admitted) - queue_count
WorkerPcs == {"none", "spawned", "lock", "test", "enterWait", "waiting",
              "mirrorBusy", "mirrorFull", "render", "fanOut", "count",
              "lastBusy", "lastFull", "ended", "allocFailed", "joined"}
WorkerServes == wpc \in {"lock", "test", "enterWait", "waiting", "mirrorBusy",
                         "mirrorFull", "render", "fanOut", "count"}
WorkerHasRecord == wpc \in {"mirrorBusy", "mirrorFull", "render", "fanOut"}

(* Type correctness, one part per kind of state. *)
QueueType ==
  /\ slots \in [0 .. BufferCapacity - 1 -> Slot]
  /\ queue_head \in 0 .. BufferCapacity - 1
  /\ queue_tail \in 0 .. BufferCapacity - 1
  /\ queue_count \in 0 .. BufferCapacity
  /\ queue_mutex \in Producers \cup {Worker, None}

CounterType ==
  /\ queued_records_total \in Nat /\ processed_records_total \in Nat
  /\ dropped_busy_total \in Nat /\ dropped_full_total \in Nat
  /\ last_busy_total \in Nat /\ last_full_total \in Nat
  /\ warned_busy \in Nat /\ warned_full \in Nat
  /\ calls \in Nat

ThreadType ==
  /\ wpc \in WorkerPcs
  /\ ppc \in [Producers -> {"idle", "trylock", "busy", "locked", "full",
                            "copy", "signal"}]
  /\ cpc \in {"idle", "create", "created", "signal", "join", "timedJoin",
              "destroyStreams", "release", "gone"}
  /\ fpc \in [Flushers -> Returned \cup {"unstarted", "sample", "poll"}]

FlagType ==
  /\ shutdown_requested \in BOOLEAN /\ worker_started \in BOOLEAN
  /\ destroying \in BOOLEAN
  /\ stream_count \in 0 .. MaxStreams
  /\ atShutdown \in [admitted : Nat, busy : Nat, full : Nat]

FlushType == ftarget \in [Flushers -> Nat] /\ floor \in [Flushers -> Nat]

LogType ==
  /\ wrec \in Slot
  /\ admitted \in Seq(Producers)
  /\ dispatched \in Seq(Slot)

\* Every variable has the type the code declares for it; in particular the
\* ring's indices stay inside it and queue_count never leaves
\* 0 .. buffer_capacity.
TypeOK ==
  /\ QueueType /\ CounterType /\ ThreadType
  /\ FlagType /\ FlushType /\ LogType

(* The inductive invariant, part by part. *)

\* queue_mutex has exactly the owner whose code is between lock and unlock.
LockOwner ==
  /\ \A p \in Producers : queue_mutex = p <=> ppc[p] \in {"locked", "copy"}
  /\ queue_mutex = Worker <=> wpc \in {"test", "enterWait"}

\* The occupied slots are the queue_count slots from head to tail, around the
\* end of the array.
Wrap(i) == IF i < BufferCapacity THEN i ELSE i - BufferCapacity
RingShape ==
  /\ queue_count <= Len(admitted)
  /\ queue_tail = Wrap(queue_head + queue_count)

\* The numbers handed out are the positions in the log, one ahead only while
\* the lock's owner copies the record that has the number.
Numbering ==
  /\ (\A p \in Producers : ppc[p] # "copy") =>
        queued_records_total = Len(admitted)
  /\ \A p \in Producers : ppc[p] = "copy" =>
        /\ HasRoom
        /\ queued_records_total = Len(admitted) + 1
        /\ slots[queue_tail].sequence_id = queued_records_total

\* They hold the records not yet taken, whole and in order.
RingContents ==
  \A k \in 0 .. queue_count - 1 :
    slots[Wrap(queue_head + k)] = RecordAt(Taken + k + 1)

\* The worker's copy is the last record taken, and all before it are out.
RecordInHand ==
  /\ WorkerHasRecord => /\ Taken = Len(dispatched) + 1
                        /\ wrec = RecordAt(Taken)
  /\ ~WorkerHasRecord => Taken = Len(dispatched)

\* At most one worker thread exists, it exists exactly while worker_started
\* says so (start's last statement aside), and a start in progress has none.
ThreadFlag ==
  /\ wpc \in {"none", "joined"} <=> (~worker_started /\ cpc # "created")
  /\ cpc \in {"create", "created"} => ~worker_started
  /\ cpc \in {"join", "timedJoin"} => worker_started

\* Records reach the sinks in admission order, numbered from 1 with no gap,
\* none lost, none twice and none torn by the producer that reuses its slot
\* (mp_logger.c:289-293), whatever the restarts in between.
InOrderDispatch ==
  /\ Len(dispatched) <= Len(admitted)
  /\ \A i \in 1 .. Len(dispatched) : dispatched[i] = RecordAt(i)

IInv ==
  /\ TypeOK
  /\ LockOwner
  /\ RingShape
  /\ Numbering
  /\ RingContents
  /\ RecordInHand
  /\ ThreadFlag
  /\ InOrderDispatch

\* Every call that passed the running check ends in exactly one of the
\* cumulative counters: queued, busy or full (include/mp_logger.h:259).
CallAccounting ==
  calls = queued_records_total + dropped_busy_total + dropped_full_total
          + Cardinality({p \in Producers :
                           ppc[p] \in {"trylock", "busy", "locked", "full"}})

\* A flush that returns OK because the counters met means what
\* include/mp_logger.h:253 promises: every record admitted before the call has
\* been to the sinks.
FlushDrained ==
  \A f \in Flushers : fpc[f] = "drained" => Len(dispatched) >= floor[f]

\* A flush that finds no worker is told from queue_count alone.  Its OK then
\* means what FlushDrained means if no worker was there when it looked; while
\* start has made one and not said so, or a flag was read before a start, the
\* record may be in the new worker's hands (mp_logger.c:938).
EmptyAnswer ==
  [][\A f \in Flushers :
       fpc[f] = "unstarted" /\ fpc'[f] = "empty" /\ wpc \in {"none", "joined"}
         => Len(dispatched) >= floor[f]]_vars

\* A worker that leaves its loop has dispatched every record admitted before
\* the shutdown that made it leave (README.md:119).
DrainedBeforeStop ==
  wpc \in {"lastBusy", "lastFull", "ended"} =>
    Len(dispatched) >= atShutdown.admitted

\* When the worker's thread ends, every drop counted before the shutdown has
\* been in the total of a warning that was handed to the backup logger
\* (standards.md:86).  Handed over, not written: a write that fails, on a full
\* device say, loses the warning, and nobody tries again until the next drop
\* (mp_logger_streams.c:836, mp_logger.c:273-274).
DropsWarnedOfAtStop ==
  wpc = "ended" => /\ warned_busy >= atShutdown.busy
                   /\ warned_full >= atShutdown.full

\* Until destroy clears the table a worker always has a stream to write to:
\* start refuses without one (include/mp_logger.h:219), none is ever removed.
WorkerHasStream ==
  wpc \notin {"none", "joined"} /\ cpc \notin {"release", "gone"} =>
    stream_count > 0

(* What makes FlushDrained, DrainedBeforeStop, DropsWarnedOfAtStop and      *)
(* WorkerHasStream inductive, given IInv.                                  *)
FlushInv ==
  /\ Len(dispatched) =
       processed_records_total + (IF wpc = "count" THEN 1 ELSE 0)
  /\ \A f \in Flushers :
       /\ floor[f] <= Len(admitted)
       /\ fpc[f] = "poll" => floor[f] <= ftarget[f]
       /\ fpc[f] = "drained" => floor[f] <= Len(dispatched)

StopInv ==
  /\ /\ atShutdown.admitted <= Len(admitted)
     /\ atShutdown.busy <= dropped_busy_total
     /\ atShutdown.full <= dropped_full_total
  /\ last_busy_total <= warned_busy /\ last_full_total <= warned_full
  /\ wpc \in {"lastBusy", "lastFull", "ended"} =>
       shutdown_requested /\ atShutdown.admitted <= Len(dispatched)
  /\ wpc \in {"lastFull", "ended"} => atShutdown.busy <= warned_busy
  /\ wpc = "ended" => atShutdown.full <= warned_full

StreamInv == (cpc \in {"create", "created"} => stream_count > 0) /\ WorkerHasStream

\* The whole of it implements the abstract log: each step admits, takes or
\* dispatches one message, or leaves all three counts alone.
Log == INSTANCE BoundedLog WITH Messages <- Producers,
                                Capacity <- BufferCapacity,
                                taken <- Taken
ImplementsBoundedLog == Log!Spec

\* A record admitted while the worker serves reaches the sinks, even when
\* shutdown is requested meanwhile and even when its own signal finds nobody
\* waiting (include/mp_logger.h:265); only freeing the logger can stop it.
AdmittedIsDispatched ==
  OthersRun =>
    \A n \in 1 .. MaxCalls :
      (Len(admitted) >= n /\ WorkerServes) ~>
        (Len(dispatched) >= n \/ cpc = "gone")

\* Shutdown stops a worker that has not begun to wait, whatever the ring
\* holds.  (A worker about to wait can miss it: ShutdownStopsWorker.)
ShutdownSeenStops ==
  OthersRun =>
    ((shutdown_requested /\ WorkerServes /\ wpc \notin {"enterWait", "waiting"})
       ~> (wpc \in {"ended", "joined"} \/ cpc = "gone"))

\* A flush without a deadline that polls while the worker serves returns,
\* although its target may count a record that is still being copied.
FlushReturns ==
  OthersRun =>
    \A f \in Flushers :
      (fpc[f] = "poll" /\ WorkerServes) ~> (fpc[f] # "poll")

\* A log call returns even if the worker never takes another step and a sink
\* never returns (README.md, "producers never block"; mp_logger.c:891-894).
CallsReturn == \A p \in Producers : (ppc[p] # "idle") ~> (ppc[p] = "idle")

(* What the documentation says and the code does not do; each is the       *)
(* property of a run that finds the counterexample.                        *)

\* README.md:119: shutdown stops the worker after draining the queue.  The
\* flag is set and signalled outside queue_mutex, so the signal can fall
\* between the worker's test and its wait.
ShutdownStopsWorker ==
  (cpc = "join") ~> (wpc \in {"ended", "joined", "allocFailed", "none"})

\* include/mp_logger.h:270: destroy is safe on a running logger.  When its
\* own shutdown times out the logger is freed under the worker.
WorkerGoneBeforeFree ==
  cpc = "gone" => wpc \in {"none", "ended", "allocFailed", "joined"}
===============================================================================
