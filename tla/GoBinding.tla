------------------------------- MODULE GoBinding -------------------------------
(***************************************************************************)
(* The Go binding (src/bindings/go/logger.go): goroutines that share one   *)
(* Logger, its RWMutex, and Close.  Behind the lock stands the C logger,   *)
(* reduced to what its calls wait for: the unprocessed records, the        *)
(* stream_mutex its worker holds while it is in a sink, and the worker's   *)
(* end (MpLogger.tla has the detail).                                      *)
(*                                                                         *)
(* sync.RWMutex prefers writers: once one has announced itself no reader   *)
(* gets in, and when it unlocks, the readers that were waiting go first.   *)
(***************************************************************************)
EXTENDS Integers, FiniteSets

CONSTANTS
  Goroutines,
  None,        \* nobody
  Timeouts,    \* time.Durations of Flush and Shutdown, in half milliseconds
  Threads,     \* bound: identities of worker threads
  MaxRecords,  \* bound: records admitted
  MaxCalls     \* bound: calls begun, Close included

ASSUME GoAssumption ==
  /\ None \notin Goroutines \cup Threads
  /\ Timeouts \subseteq Nat
  /\ Threads # {} /\ MaxRecords \in Nat /\ MaxCalls \in Nat

VARIABLES
  ptr,             \* logger.ptr # nil
  readers, writer, \* of logger.mu; writer from the moment it is announced
  pc, op, timeout, \* where each goroutine is, in which call; its Duration
  target,          \* target_processed of its mp_logger_flush
  worker_started, shutdown_requested,
  worker_thread,   \* the thread a shutdown joins
  workers, fresh,  \* live threads; those that have not taken a record yet
  queued, processed,       \* queued_ and processed_records_total
  inSink,          \* the worker that holds stream_mutex, or None
  freed,           \* mp_logger_destroy has returned
  late,            \* history: the call began on a closed Logger
  overlapped,      \* history: two Starts were in the C library at once
  made             \* history: calls begun

lock == <<ptr, readers, writer>>
calls == <<pc, op, timeout, target>>
lifecycle == <<worker_started, shutdown_requested, worker_thread>>
threads == <<workers, fresh>>
records == <<queued, processed, inSink>>
clib == <<lifecycle, threads, records, freed>>
history == <<late, overlapped, made>>
vars == <<lock, calls, clib, history>>

Ops == {"Log", "Config", "Start", "Flush", "Shutdown"}
Waits(o) == o \in {"Flush", "Shutdown"}

\* Wrong: C gets whole seconds.
MillisOfSeconds(duration) == duration \div 2000

\* durationToMillis: C gets whole milliseconds.
Millis(duration) == duration \div 2

\* A thread's identity means nothing.
NewThread(T) == CHOOSE t \in T : TRUE
Unused == Threads \ (workers \cup {worker_thread})

\* Create has returned a C logger with streams and no worker, or
\* CreateFromBootstrap one with a worker; whoever has it may have logged before
\* the other goroutines get it.
Init ==
  /\ ptr = TRUE /\ readers = {} /\ writer = None
  /\ pc = [g \in Goroutines |-> "idle"]
  /\ op = [g \in Goroutines |-> "Log"]
  /\ timeout = [g \in Goroutines |-> 0]
  /\ target = [g \in Goroutines |-> 0]
  /\ worker_thread \in {NewThread(Threads), None}
  /\ workers = {worker_thread} \ {None} /\ fresh = workers
  /\ worker_started = (worker_thread # None) /\ shutdown_requested = FALSE
  /\ queued \in 0 .. MaxRecords /\ processed = 0 /\ inSink = None
  /\ freed = FALSE
  /\ late = [g \in Goroutines |-> FALSE] /\ overlapped = FALSE /\ made = 0

-------------------------------------------------------------------------------
(* withPtr, and Config and Stats, which repeat it.  Config stands for       *)
(* Configure too.                                                          *)

Moves(g, from, to) == pc[g] = from /\ pc' = [pc EXCEPT ![g] = to]

Begins == made < MaxCalls /\ made' = made + 1

\* A call: RLock.  A timeout that is negative or too long is refused before.
Call(g, o, d) ==
  /\ ~Waits(o) => d = 0
  /\ IF writer = None
     THEN Moves(g, "idle", "check") /\ readers' = readers \cup {g}
     ELSE Moves(g, "idle", "blocked") /\ UNCHANGED readers
  /\ op' = [op EXCEPT ![g] = o]
  /\ timeout' = [timeout EXCEPT ![g] = d]
  /\ late' = [late EXCEPT ![g] = ~ptr]
  /\ Begins
  /\ UNCHANGED <<ptr, writer, target, clib, overlapped>>

CheckPtr(g) ==
  /\ ptr
  /\ Moves(g, "check", "inC")
  /\ UNCHANGED <<lock, op, timeout, target, clib, history>>

ErrClosed(g) ==
  /\ ~ptr
  /\ Moves(g, "check", "runlock")
  /\ UNCHANGED <<lock, op, timeout, target, clib, history>>

\* The call returns; its variables are gone.
RUnlock(g) ==
  /\ Moves(g, "runlock", "idle")
  /\ readers' = readers \ {g}
  /\ op' = [op EXCEPT ![g] = "Log"]
  /\ timeout' = [timeout EXCEPT ![g] = 0]
  /\ target' = [target EXCEPT ![g] = 0]
  /\ late' = [late EXCEPT ![g] = FALSE]
  /\ UNCHANGED <<ptr, writer, clib, overlapped, made>>

-------------------------------------------------------------------------------
(* The C library, called under the read lock.                              *)

Enters(g, o, to) ==
  /\ op[g] = o
  /\ Moves(g, "inC", to)
  /\ UNCHANGED <<lock, op, timeout, late, made>>

Goes(g, from, to) ==
  /\ Moves(g, from, to)
  /\ UNCHANGED <<lock, op, timeout, late, made>>

\* mp_logger_log and mp_logger_log_fields: admitted, or not, at once.  Stats is
\* a Log that is not admitted: mp_logger_get_stats waits for no one either.
CLog(g) ==
  /\ Enters(g, "Log", "runlock")
  /\ \/ /\ ~shutdown_requested /\ queued < MaxRecords
        /\ queued' = queued + 1
     \/ UNCHANGED queued
  /\ UNCHANGED <<target, lifecycle, threads, processed, inSink, freed,
                 overlapped>>

\* mp_logger_get_config and mp_logger_configure lock stream_mutex.
CConfig(g) ==
  /\ inSink = None
  /\ Enters(g, "Config", "runlock")
  /\ UNCHANGED <<target, clib, overlapped>>

\* mp_logger_start reads worker_started without a lock ...
CStartRunning(g) ==
  /\ worker_started
  /\ Enters(g, "Start", "runlock")
  /\ UNCHANGED <<target, clib, overlapped>>

\* Wrong: no look at the flag.
CStartUnchecked(g) ==
  /\ Enters(g, "Start", "create")
  /\ shutdown_requested' = FALSE
  /\ overlapped' = (overlapped \/ \E h \in Goroutines : pc[h] = "create")
  /\ UNCHANGED <<target, worker_started, worker_thread, threads, records,
                 freed>>

CStart(g) ==
  /\ ~worker_started
  /\ Enters(g, "Start", "create")
  /\ shutdown_requested' = FALSE
  /\ overlapped' = (overlapped \/ \E h \in Goroutines : pc[h] = "create")
  /\ UNCHANGED <<target, worker_started, worker_thread, threads, records,
                 freed>>

\* ... and sets it after pthread_create, which may fail.
CCreate(g) ==
  /\ Goes(g, "create", "runlock")
  /\ \/ /\ Unused # {}
        /\ worker_thread' = NewThread(Unused)
        /\ workers' = workers \cup {worker_thread'}
        /\ fresh' = fresh \cup {worker_thread'}
        /\ worker_started' = TRUE
     \/ UNCHANGED <<threads, worker_thread, worker_started>>
  /\ UNCHANGED <<target, shutdown_requested, records, freed, overlapped>>

CFlush(g) ==
  /\ Enters(g, "Flush", IF worker_started THEN "poll" ELSE "runlock")
  /\ target' = [target EXCEPT ![g] = IF worker_started THEN queued ELSE 0]
  /\ UNCHANGED <<clib, overlapped>>

CFlushDone(g) ==
  /\ processed >= target[g]
  /\ Goes(g, "poll", "runlock")
  /\ UNCHANGED <<target, clib, overlapped>>

\* Zero milliseconds are no deadline.
CFlushTimesOut(g) ==
  /\ Millis(timeout[g]) > 0 /\ processed < target[g]
  /\ Goes(g, "poll", "runlock")
  /\ UNCHANGED <<target, clib, overlapped>>

CShutdown(g) ==
  /\ Enters(g, "Shutdown", IF worker_started THEN "join" ELSE "runlock")
  /\ shutdown_requested' = TRUE
  /\ UNCHANGED <<target, worker_started, worker_thread, threads, records,
                 freed, overlapped>>

\* The thread has ended.
CJoin(g) ==
  /\ worker_thread \notin workers
  /\ Goes(g, "join", "runlock")
  /\ worker_started' = FALSE
  /\ UNCHANGED <<target, shutdown_requested, worker_thread, threads, records,
                 freed, overlapped>>

\* The deadline passes, or the thread is not this call's to join: another
\* goroutine joins it, or has.
CJoinFails(g) ==
  /\ \/ Millis(timeout[g]) > 0 /\ worker_thread \in workers
     \/ \E h \in Goroutines \ {g} : pc[h] = "join"
     \/ ~worker_started
  /\ Goes(g, "join", "runlock")
  /\ UNCHANGED <<target, clib, overlapped>>

-------------------------------------------------------------------------------
(* Close.                                                                  *)

CloseCall(g) ==
  /\ Moves(g, "idle", "lock")
  /\ Begins
  /\ UNCHANGED <<lock, op, timeout, target, clib, late, overlapped>>

\* The first half of Lock: no reader gets in from now on.
AnnounceWriter(g) ==
  /\ writer = None
  /\ Moves(g, "lock", "drain")
  /\ writer' = g
  /\ UNCHANGED <<ptr, readers, op, timeout, target, clib, history>>

\* The readers that wait get the lock when the writer gives it back.
Unblocked(g, to) ==
  [h \in Goroutines |-> IF h = g THEN to
                        ELSE IF pc[h] = "blocked" THEN "check" ELSE pc[h]]

\* Wrong: Close takes the pointer without waiting for the readers.
TakePtrAtOnce(g) ==
  /\ pc[g] = "drain"
  /\ pc' = Unblocked(g, IF ptr THEN "destroy" ELSE "idle")
  /\ ptr' = FALSE
  /\ writer' = None
  /\ readers' = readers \cup {h \in Goroutines : pc[h] = "blocked"}
  /\ UNCHANGED <<op, timeout, target, clib, history>>

\* The rest of Lock, the pointer taken and cleared, Unlock.
TakePtr(g) ==
  /\ pc[g] = "drain" /\ readers = {}
  /\ pc' = Unblocked(g, IF ptr THEN "destroy" ELSE "idle")
  /\ ptr' = FALSE
  /\ writer' = None
  /\ readers' = {h \in Goroutines : pc[h] = "blocked"}
  /\ UNCHANGED <<op, timeout, target, clib, history>>

\* mp_logger_destroy, outside the lock: shutdown with 5000 ms if started ...
Destroy(g) ==
  /\ Moves(g, "destroy", IF worker_started THEN "destroyJoin"
                         ELSE "destroyStreams")
  /\ shutdown_requested' = (shutdown_requested \/ worker_started)
  /\ UNCHANGED <<lock, op, timeout, target, worker_started, worker_thread,
                 threads, records, freed, history>>

\* ... whose result is not looked at ...
DestroyJoin(g) ==
  /\ Moves(g, "destroyJoin", "destroyStreams")
  /\ worker_started' = (worker_thread \in workers)
  /\ UNCHANGED <<lock, op, timeout, target, shutdown_requested, worker_thread,
                 threads, records, freed, history>>

\* ... then the streams, under stream_mutex, and the memory.
DestroyStreams(g) ==
  /\ inSink = None
  /\ Moves(g, "destroyStreams", "idle")
  /\ freed' = TRUE
  /\ UNCHANGED <<lock, op, timeout, target, lifecycle, threads, records,
                 history>>

-------------------------------------------------------------------------------
(* The worker threads, while there is a logger.                            *)

WorkerMoves ==
  /\ ~freed
  /\ UNCHANGED <<lock, calls, lifecycle, queued, freed, history>>

\* Wrong: an empty queue is not noticed.
WorkerTakesAnything(t) ==
  /\ WorkerMoves
  /\ t \in workers /\ inSink = None
  /\ inSink' = t
  /\ fresh' = fresh \ {t}
  /\ UNCHANGED <<workers, processed>>

WorkerTakes(t) ==
  /\ WorkerMoves
  /\ t \in workers /\ inSink = None /\ processed < queued
  /\ inSink' = t
  /\ fresh' = fresh \ {t}
  /\ UNCHANGED <<workers, processed>>

\* The sinks have returned.
WorkerCounts(t) ==
  /\ WorkerMoves
  /\ inSink = t
  /\ inSink' = None
  /\ processed' = processed + 1
  /\ UNCHANGED threads

WorkerGone(t) ==
  /\ WorkerMoves
  /\ workers' = workers \ {t} /\ fresh' = fresh \ {t}
  /\ UNCHANGED <<processed, inSink>>

WorkerEnds(t) ==
  /\ t \in workers /\ inSink # t
  /\ shutdown_requested /\ processed = queued
  /\ WorkerGone(t)

\* No memory for its copy of a record: it ends before it takes one.
WorkerAllocFails(t) ==
  /\ t \in fresh
  /\ WorkerGone(t)

-------------------------------------------------------------------------------
\* A goroutine that is in a call goes on; Lock's queue is first come first
\* served, so that a Close gets its turn.
CStep(g) ==
  \/ CLog(g) \/ CConfig(g)
  \/ CStartRunning(g) \/ CStart(g) \/ CCreate(g)
  \/ CFlush(g) \/ CFlushDone(g) \/ CFlushTimesOut(g)
  \/ CShutdown(g) \/ CJoin(g) \/ CJoinFails(g)

CloseStep(g) == TakePtr(g) \/ Destroy(g) \/ DestroyJoin(g) \/ DestroyStreams(g)

GoStep(g) ==
  CheckPtr(g) \/ ErrClosed(g) \/ RUnlock(g) \/ CStep(g) \/ CloseStep(g)

Next ==
  \/ \E g \in Goroutines :
       \/ \E o \in Ops, d \in Timeouts : Call(g, o, d)
       \/ CloseCall(g) \/ AnnounceWriter(g) \/ GoStep(g)
  \/ \E t \in Threads :
       WorkerTakes(t) \/ WorkerCounts(t) \/ WorkerEnds(t) \/ WorkerAllocFails(t)

Spec == Init /\ [][Next]_vars

\* No fairness for the worker: it may stay in a sink for ever, or asleep
\* (MpLogger!ShutdownStopsWorker).
FairSpec ==
  /\ Spec
  /\ \A g \in Goroutines : WF_vars(GoStep(g)) /\ SF_vars(AnnounceWriter(g))

-------------------------------------------------------------------------------
(* Properties.                                                             *)

InC(g) == pc[g] \in {"inC", "create", "poll", "join"}
HoldsRead(g) == InC(g) \/ pc[g] \in {"check", "runlock"}
Destroys(g) == pc[g] \in {"destroy", "destroyJoin", "destroyStreams"}

\* The fields' types; no record is counted twice, or before its sinks return.
TypeOK ==
  /\ ptr \in BOOLEAN /\ readers \in SUBSET Goroutines
  /\ writer \in Goroutines \cup {None}
  /\ pc \in [Goroutines -> {"idle", "blocked", "check", "inC", "create",
                            "poll", "join", "runlock", "lock", "drain",
                            "destroy", "destroyJoin", "destroyStreams"}]
  /\ op \in [Goroutines -> Ops]
  /\ timeout \in [Goroutines -> Nat]
  /\ target \in [Goroutines -> Nat]
  /\ worker_started \in BOOLEAN /\ shutdown_requested \in BOOLEAN
  /\ workers \in SUBSET Threads /\ fresh \in SUBSET workers
  /\ worker_thread \in Threads \cup {None}
  /\ queued \in 0 .. MaxRecords /\ processed \in 0 .. queued
  /\ inSink \in Threads \cup {None} /\ (inSink # None => processed < queued)
  /\ freed \in BOOLEAN
  /\ late \in [Goroutines -> BOOLEAN] /\ overlapped \in BOOLEAN /\ made \in Nat

\* The lock's state is where the goroutines are: a reader waits only behind an
\* announced writer.
LockState ==
  /\ readers = {g \in Goroutines : HoldsRead(g)}
  /\ \A g \in Goroutines : writer = g <=> pc[g] = "drain"
  /\ \A g \in Goroutines : pc[g] = "blocked" => writer # None

\* The C logger has one owner from Create on: the pointer, then the one Close
\* that took it, then nobody, and it is freed.  Nothing leaks and nothing is
\* destroyed twice, however many goroutines close (logger.go:462-472).
OneOwner ==
  /\ ptr => ~freed /\ \A g \in Goroutines : ~Destroys(g)
  /\ freed => \A g \in Goroutines : ~Destroys(g)
  /\ \A g, h \in Goroutines : Destroys(g) /\ Destroys(h) => g = h
  /\ ptr \/ freed \/ \E g \in Goroutines : Destroys(g)

\* No goroutine is in the C library once a Close has begun to destroy what it
\* works on: the binding keeps what mp_logger_destroy expects of its callers
\* (the guard of MpLogger!Destroy; logger.go:681-688).
NoUseAfterClose ==
  \A g \in Goroutines :
    InC(g) => ptr /\ ~freed /\ \A h \in Goroutines : ~Destroys(h)

\* A call that begins on a closed Logger never reaches the C library
\* (logger.go:462).
LateCallsRefused == \A g \in Goroutines : late[g] => ~InC(g)

GoInv == LockState /\ OneOwner /\ NoUseAfterClose
           /\ \A g \in Goroutines : late[g] => ~ptr

\* Two worker threads need two Starts at once: the binding's read lock lets
\* them in together, and the C flag they both read has no lock
\* (logger.go:335-339, mp_logger.c:824-834).
OneWorker == Cardinality(workers) <= 1 \/ overlapped

Calling(g) == HoldsRead(g) \/ pc[g] = "blocked"

\* The calls the documents let nobody keep: a Log "without blocking on sink
\* I/O" (logger.go:368, README.md:115), and Stats with it; a Flush or Shutdown
\* with a timeout (logger.go:416, 450), of a millisecond or more.
Promised(g) ==
  Calling(g) /\ (op[g] = "Log" \/ (Waits(op[g]) /\ timeout[g] >= 2))

\* The calls that may stay in the C library as long as a sink does: without a
\* timeout, or with one below a millisecond, which becomes none, or on
\* stream_mutex.
WaitsForSinks(g) ==
  \/ pc[g] \in {"poll", "join"} /\ timeout[g] < 2
  \/ pc[g] = "inC" /\ op[g] = "Config"

\* Though the sinks never return, a promised call does, but for one case: a
\* Close waits for the lock behind a call that waits for the sinks, and whoever
\* calls after Close waits behind it.  Calls are bounded: if there is always
\* one under way, one never returns.
PromisedCallsEnd ==
  <>[](\E g \in Goroutines : Promised(g)) =>
    <>[](\E h, k \in Goroutines : pc[h] = "drain" /\ WaitsForSinks(k))
===============================================================================
