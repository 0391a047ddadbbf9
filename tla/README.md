# mp_logger in TLA+

A formal model of `mp_logger`, the bounded asynchronous logger in `src/src/`,
with a worker thread, pluggable sinks and a Go binding. TLC checks the modules
on small instances; TLAPS proves the central facts for every capacity and any
number of threads. Line numbers below are those of the repository's files.

## The system

| Component | State | Operations | Talks to |
|---|---|---|---|
| Queue and producers (`mp_logger.c:839-915`) | ring `slots` with head, tail, count; `queue_mutex`; four cumulative totals | `log`, `log_fields`, `get_stats` | worker: ring, `queue_cond` |
| Worker (`mp_logger.c:294-414`) | scratch buffers, drop totals last warned of | wait, take, warn of drops, render, fan out, count | ring, streams under `stream_mutex`, backup file |
| Lifecycle (`mp_logger.c:820-836, 971-1033`) | `shutdown_requested`, `worker_started`, the thread | `start`, `shutdown`, `destroy` | worker: flag, signal, join |
| Flush (`mp_logger.c:932-953`) | target and deadline of one call | `flush` polls the processed total | totals only |
| Stream registry (`mp_logger.c:481-625`) | `streams`, `stream_count`, `enabled_level_mask`, thresholds and format in `config` | `add_stream`, `configure`, `get_config`, `is_level_enabled` | fan-out, under `stream_mutex` |
| Construction (`mp_logger.c:417-478, 730-814`) | allocations, descriptors, built-in streams | `create`, `create_from_bootstrap` | sinks, backup logger, `start` |
| Rendering (`mp_logger_streams.c:17-250, 502-772`) | none; one buffer of `render_capacity` | `render_record` | worker |
| Built-in sinks (`mp_logger_streams.c:253-500, 863-919`) | `FILE*`, sockets | `write`, `destroy` callbacks | worker, `destroy_streams` |
| Backup logger (`mp_logger_streams.c:775-838`) | a descriptor and its mutex | `backup_write` | worker, construction |
| Bootstrap loader (`mp_logger_bootstrap.c`) | current section, values found | `bootstrap_load` | file system, `create_from_bootstrap` |
| Validation (`mp_logger.c:65-130, 417-433, 513-531`) | none | pure checks of configurations and fields | `create`, `configure`, `log_fields` |
| Go binding (`bindings/go/logger.go`) | pointer under an `RWMutex` | every call, `Close` | the C API |

**What makes it hard.** Producers only ever *try* `queue_mutex`; the running
check, the shutdown signal and flush's not-started answer read or write plain
fields with no lock at all; the total a flush waits for is raised before its
record is in the ring; drops are counted outside the lock and warned of by the
worker on its own schedule; a shutdown can time out behind a slow sink and be
followed by another shutdown, by `start` or by `destroy`; after a shutdown the
logger can be started again with a ring that is not empty.

**What makes each component correct.**
*Queue and worker*: FIFO, nothing lost, torn or repeated, at most
`buffer_capacity` waiting, every call accounted for, no call blocked by the
worker. *Lifecycle*: one worker at most, drained when it stops, drops handed to
the backup logger by then. *Flush*: OK means that what was admitted before has gone out.
*Registry*: the mask answers what the fan-out does, a record meets one version of
the configuration and every matching stream once, one failing sink does not
silence another. *Construction*: after a failure exactly what was acquired is
released. *Rendering*: a record that fits its capacities keeps its shape.
*Loader and validation*: what is accepted is what the documents say.
*Go binding*: no use after `Close`; `Log`, and a call with a timeout, return
though a sink does not.

## Modules

| Module | Content |
|---|---|
| `BoundedLog` | what the core promises: admit, take, dispatch over one sequence; no thread, lock, ring or counter |
| `MpLogger` | the core: producers, worker, controller and flushers of one logger, their properties and the inductive invariant |
| `MCMpLogger` | the instances for TLC, producers up to permutation |
| `MpLoggerProofs` | TLAPS proofs about `MpLogger` and, behind them, `StatsReader` |
| `StatsReader`, `MCStatsReader` | `get_stats` load by load, composed with all of `MpLogger` |
| `StreamRegistry` | the table of streams, thresholds, cached mask, `configure` and the fan-out of one record after the other, stream by stream |
| `MCStreamRegistry` | the instances for TLC, callers up to permutation |
| `StreamRegistryProofs` | TLAPS proofs about `StreamRegistry` |
| `Construction`, `ConstructionProofs` | what `create`, `create_from_bootstrap` and `destroy` acquire and release, with every call failing or not |
| `BootstrapLoader`, `BootstrapLoaderProofs` | the loader, line by line, against what the documents say of the file |
| `Bootstrap`, `MCBootstrap` | the two composed: loader, then `create`, then `start` |
| `RuntimeConfig`, `MCRuntimeConfig`, `RuntimeConfigProofs` | what `create` and `configure` accept and make of it, `get_config`, with several callers |
| `RecordPath`, `MCRecordPath`, `RecordPathProofs` | one record from the call's arguments to the rendered line: field validation, slot, scratch buffers, escaping, capacity |
| `FileSink`, `FileSinkProofs` | the file sink's `fwrite`, `fwrite`, `fflush` over a device that fills up, `destroy`, and a killed process |
| `GoBinding`, `MCGoBinding`, `GoBindingProofs` | goroutines, the `RWMutex`, `Close`, and the C library reduced to what its calls wait for |

### MpLogger and the code

Variables have the names of the C fields; `queue_mutex` is its owner or `None`,
`stream_mutex` is held exactly while `wpc = "fanOut"`. `wpc`, `ppc`, `cpc` and
`fpc` say between which two statements each thread is, `wrec` is the worker's
scratch copy, `warned_busy` and `warned_full` are the totals in the last drop
warnings handed to `mp_logger_backup_write`. Whether the write it makes succeeds
is nowhere in the model, as it is nowhere in the code: its result is discarded
(`mp_logger_streams.c:836`), the total counts as reported either way. A slot keeps its number and its message; a message
is the producer that logged it, since nothing in the queue looks inside.
`admitted`, `dispatched`, `atShutdown` and `floor` are history: no guard reads
them.

A step is the code between two accesses that another thread can observe:

| Code | Actions |
|---|---|
| `enqueue_record`, running check | `LogEnter` |
| trylock fails; count | `TryLockBusy`, `CountBusy` |
| trylock; full; count after unlock | `TryLock`, `QueueFull`, `CountFull` |
| number the record; copy, publish, unlock; signal | `StampSlot`, `PublishSlot`, `SignalWorker` |
| worker allocations | `WorkerAllocates`, `WorkerAllocFails` |
| lock; loop condition; `cond_wait` | `WorkerLock`, `WorkerFindsNothing`, `WorkerWaits`, `SpuriousWakeup` |
| dequeue or leave, with the unlock | `WorkerTakes`, `WorkerLeaves` |
| `flush_drop_counters`, per counter, in the loop and after it | `MirrorBusy`, `MirrorFull` |
| lock `stream_mutex` and render; write all, unlock; count | `WorkerRenders`, `WorkerFansOut`, `WorkerCounts` |
| `start` | `StartEnter`, `ThreadCreate` or `ThreadCreateFails`, `StartReturns` |
| `shutdown` | `Shutdown`, `SignalShutdown`, `Join` or `JoinTimesOut` |
| `destroy` | `Destroy`, the steps of its shutdown, `DestroyStreams`, `Release` |
| `add_stream` | `AddStream` |
| `flush` | `FlushEnter`, `FlushUnstarted` or `FlushSample`, `FlushDone`, `FlushTimesOut` |

A plain field read without a lock is a data race in C. Each such read is a step
of its own, so it sees the value before or after any write: the two values a
build for the supported platforms can produce for an aligned `int` or `size_t`.

Assumptions on the callers, all of them in guards: the controller's calls come
one at a time (the API has no lock for two concurrent `start` or `shutdown`;
what the Go binding lets happen there is in `GoBinding`); `destroy` is not
called while `log`, `flush` or `get_stats` is running, nor they after it. `start`, `shutdown`, `log` and
`flush` overlap freely, a logger is logged to before `start` as the tests do,
and shutdown and restart may repeat for ever. Calls refused for an argument
change nothing and are no steps.

### StreamRegistry and the code

The core holds `stream_mutex` over the whole fan-out and knows only how many
streams there are; `StreamRegistry` looks inside and leaves the queue out: a
record of any level may come at any time. The two share the lock discipline
(`WorkerRenders` .. `WorkerFansOut` is `Render` .. `EndFanOut`) and
`DestroyStreams`.

| Code | Actions |
|---|---|
| `add_owned_stream`: search and insert; `fetch_or` of its levels, unlock | `AddStream`, `AddMask` |
| `configure`: fields of `config`; thresholds, mask, unlock | `Configure`, `ApplyConfig` |
| fan-out: lock and render; per stream, skip or write; unlock | `Render`, `SkipStream`, `WriteStream`, `EndFanOut` |
| `destroy_streams` | `DestroyStreams` |

The mask is atomic and read without the lock, so an insertion and its
`fetch_or` are two steps. A stream has its origin in the model, which the code
does not keep: `configure` tells built-in streams by their names, so a custom
stream that took the name of an inactive built-in one gets that one's
thresholds (541). `CustomsPreserved` is about all the others, and
`BuiltinsFollowConfig` about those. A configuration is
its thresholds and one value for all that the renderer takes from it. Levels
run to one value beyond `MP_LOG_LEVEL_FATAL`, since nothing validates them.
`config.active_streams` may name any of the built-in streams in any order, and
any of them may fail to be made: `Init` takes every such table. `add_stream`
and `configure` do not overlap `destroy`; a worker that outlived its shutdown
does, up to the release, and finds an empty table.

### Construction and the code

A resource is a kind (each of the six arrays, the logger, its locks, the backup
file; a sink's state, handle, socket, looked-up addresses) and the position in
`active_streams` it was made for. `AllocateBuffers` takes any subset of the
arrays, since the code tries all six before it looks. `Acquires` and `GivesUp`
are the two ways a step of a `make` function goes; after the second, the loop
hands a warning to the backup logger (`warned`), whose write is best effort, and
goes on. A name given twice,
an unknown name, too many names, a missing backup file, and a bootstrap whose
`start` fails go to `DestroyStreams`, as `destroy` itself does. `Destroy` joins
its worker here; the timeout is the core's.

### BootstrapLoader and the code

A line is blank, has no colon, or is a name and a value. Values are classes by
what the parsers do with them; `strtoull` takes a sign, so a negative size is
stored `wrapped`, and a pair of quotes in quotes, unquoted by the loader and
again by `config_apply_override`, is stored empty where a key takes any text. A
line of more than 511 bytes reaches the code as two lines, and so it does the
model. `fgets` returns NULL at the end of the file (`EndOfFile`) or because it
could not read (`ReadError`, which sets the history variable `cut`); the code
treats both alike.

`read` is history: the reference definitions (`IsHeader`, `SectionAt`, `Means`,
`Good`, `Says`) look at it as a whole, the actions never. They are written from
the documents (`README.md:53-107`, `mp_logger_bootstrap.c:73`) and share nothing
with the loader: only a known section's name opens a section, a text may be
empty, a size has no sign, quotes come off once. The loader does something else
with the lines that `Misread` names, and from the first of them on (`Parted`)
`LoadedIsWhatFileSays` and `AllOrNothing` claim nothing; `LoadedAsDocumented`,
without these exceptions, is what the run `as_documented` refutes.

### Bootstrap and the code

`create_from_bootstrap` loads (`Load`), gives what it loaded to `create`
(`HandOver`), or returns the loader's status (`LoadRefused`), and `create` and
`start` go on as for any caller (`Build`). The text of `active_streams` is split
into any list, except the default and the empty one, which are known
(`SplitsTo`). Its steps are those of the two components: every behaviour is one
of `LoadSpec`, with the frame left, followed by one of `Construction`'s `Spec`
from the list handed over, or from a logger that is gone. The theorems are about
the two specifications, the run checks the composition.

### StatsReader and the code

`StatsEnter` is the call and `Load` one of its reads of the four totals, in the
order of 959-962; between any two of them every step of `MpLogger` may happen.
The number of streams, read last (963), is left out: nothing relates it to the
totals. One
reader is enough: it has no effect on anybody. `settled` is the number of log
calls that had returned when the call began, `waiting` what was on its way to a
sink when the first counter was loaded; both are history.

### RuntimeConfig and the code

A text is one of eight that trimming and sanitizing tell apart; a size or a
runtime field is a number. `Check` is `configure` up to the lock, where it reads
only fields that never change, and `Apply` what it does under the lock; another
caller's `Apply` may come between. A caller's request is its own or a former
answer of `get_config`. `applied` is the request of the last call that answered
OK. `Apply` copies names and runtime fields only, as the code does, so that a
field neither copied nor compared would be an ignored request.

### RecordPath and the code

A text is a length and a class: plain, characters with a short escape, control
characters. A key has an identity, so that equal keys can be told, and whether
it is well-formed and not reserved.

| Code | Definitions |
|---|---|
| `validate_fields`, with the key tests | `FieldStatus`, `FieldsAccepted`, `Refusal`, `Refuse` |
| `copy_truncated`, `copy_fields_to_slot`, the rest of `enqueue_record` | `Cut`, `CopyField`, `CopyFields`, `Store`, `Enqueue`, `QueueFull` |
| `copy_record_from_slot` | `Dequeue` |
| `render_capacity` in `create` | `RenderCapacity` |
| `append_json_escaped`, `append_text_escaped`, keys and values | `Escaped`, `JsonPair`, `TextPair`, `FieldValue`, `FieldWidth` |
| `render_record` | `RenderHeader`, `RenderField`, `RenderEnd` |
| `configure` of names and format between two records | `Configure` |

Slots and scratch buffers are not cleared between records: `CopyFields` leaves
the entries behind `field_count` as they were, and `HandedAsAccepted` is about
what that can do. `used` is the logical length the renderer counts beyond the
end of the buffer; a timestamp, a level, a sequence number and a number are
taken at their longest. The lock and the worker's life are `MpLogger`'s.

### FileSink and the code

An entry is two pieces and a newline, each written out or not. `Device` fills
and frees the disk at any time, `Fwrite` may fall short only on a full one, and
what a failed `Flush` left in the `FILE` goes out before the next entry. `Crash` loses the buffer of the `FILE`.

### GoBinding and the code

| Code | Actions |
|---|---|
| `withPtr`: RLock; test of `ptr`; unlock | `Call`, `CheckPtr` or `ErrClosed`, `RUnlock` |
| `Log`, `LogFields`, `Stats` | `CLog` |
| `Config`, `Configure` | `CConfig` |
| `Start` | `CStartRunning`, or `CStart` and `CCreate` |
| `Flush`, `Shutdown` | `CFlush`, `CFlushDone`, `CFlushTimesOut`; `CShutdown`, `CJoin`, `CJoinFails` |
| `Close`: Lock; take `ptr`, Unlock; `destroy` | `CloseCall`, `AnnounceWriter`, `TakePtr`; `Destroy`, `DestroyJoin`, `DestroyStreams` |
| the worker | `WorkerTakes`, `WorkerCounts`, `WorkerEnds`, `WorkerAllocFails` |

The mutex is Go's: an announced writer keeps new readers out, and readers that
waited go before the next writer. `timeout` is the caller's `Duration`, in half
milliseconds; the C calls see `Millis` of it, so that `durationToMillis` can
truncate one to zero, which C takes for no deadline. `fresh` are the threads
that have not dequeued yet, which may give up for want of memory. `Shutdown`
honours its timeout here, as the Linux build does (`mp_logger.c:980`). A
join of a thread that another goroutine joins is undefined in C; it is modelled
as a refusal.

## Runs

| Run | Instance | Shows |
|---|---|---|
| `core_safety` | 2 producers and a reader of the statistics, capacity 2, 3 calls, up to 1 stream | the ring, the numbering, what a stopping worker promises, the refinement of `BoundedLog`; a backlog computed from an answer was there, and every call that had returned is in one of its counters |
| `core_liveness` | 1 producer, 1 flusher, capacity 1, 2 calls | admitted records go out, a shutdown the worker can see stops it, flush returns, and its OK means what it says; a log call returns with no help from worker or sinks |
| `lost_wakeup` | 1 producer, 1 call | a counterexample: see below |
| `destroy_running` | 1 producer, 1 call | a counterexample: see below |
| `registry_safety` | 1 built-in name, 1 custom name, 2 levels and one beyond, a table of 2, 2 formats, 2 callers | unique names, `is_level_enabled` that answers what the fan-out does, thresholds that follow the configuration, custom streams that keep theirs, a fan-out that is complete and of one configuration |
| `bootstrap` | root and 3 sections, a key of each kind, `minimum_level` in two sections, files of up to 4 lines; 2 stdio names, file, UDP and an unknown name; lists of up to 4, a table of 3, 2 custom contexts | the loader hands over what the file says, or nothing; then nothing leaked, nothing released twice, complete or gone |
| `as_documented` | the same | a counterexample: see below |
| `runtime_config` | 2 callers, requests that differ from a plain one in each kind of field | a request that answered OK is in effect, init-only fields stay, an answer of `get_config` is taken back |
| `record_path` | 1 slot, 2 records, up to 3 fields of each kind and each complaint, names at their longest | no overrun, records handed over as accepted, exactly the wrong calls refused, distinct keys, plain records never cut |
| `json_cut` | the default capacities, 8 fields | a counterexample |
| `file_sink` | 4 entries of 2 pieces | nothing twice or out of order, a crash between writes loses only what was answered IO_ERROR |
| `go_binding` | 3 goroutines, 3 calls, 2 thread identities, 1 record; no timeout, half a millisecond, one | no use after `Close`, one owner, one worker; a `Log` and a call with a timeout return though the sinks do not, unless a `Close` stands between |

**Bounds.** `MaxCalls` limits the log calls that pass the running check; it is
the only counter that needs a bound, since the totals grow only with it. Three
calls on two slots make the ring wrap, two producers make it busy and a
capacity of two with three calls makes it full, before, during and after the
worker's life. A capacity of one makes head and tail meet at every record.
`core_liveness` has one producer, whose two calls meet a full ring and a lock
that is the worker's; `core_safety` has the producers that compete. Liveness is
checked for one flusher, which nobody waits for.
`MaxStreams` is 1 because the core only asks whether there is a stream. Starts,
shutdowns, flushes and spurious wakeups are not bounded. The registry needs no
bound but the sizes of its constants: a table of two is full with one stream of
each origin or two names of either, two callers race for the last entry and the
same name, and a record of either level, or beyond, meets every range.
`MaxNames` is one more than `MaxStreams` in `bootstrap`, so that the list is
too long, full with and without a failed sink, and names a stream twice around
another. A ring of one slot makes every record of `record_path` reuse slot and
scratch buffers, after more fields and after fewer. The reader's loads wrap
around a whole life of the logger. Three goroutines are a `Flush`, a `Close`
and one more, or two `Start`s and a `Close`. `Threads` is two, so a second
`Start` after a shutdown finds one. Four entries are one that fails, one
written behind its rest, one that fails again and one after. `MaxLines` is 4: a
key before, between and after two headers, and a key set twice in one section.

**Fairness.** `FairSpec` lets every thread that is inside a call, and the
worker, go on: weak fairness per thread, which stands for the scheduler, for
sinks that return (`standards.md:87` leaves their latency to their authors) and
for a granted `pthread_mutex_lock`. Weak fairness is enough for the lock because
calls are bounded; it says nothing of a worker starved by endless producers.
Nobody has to begin a call, wake spuriously or meet a flush deadline.
`core_liveness` checks under `ProducerFairSpec`, which has only the producers'
fairness: that makes `CallsReturn` mean "non-blocking". The other properties of
the run name the rest, `OthersRun`, as what they are conditional on.
In `GoBinding`, `FairSpec` lets goroutines go on and a `Close` get the lock
(strong fairness: Go's mutex is first come first served among writers); the
worker has none, it may stay in a sink for ever.

**Deadlock** is checked in every run but two. In `MpLogger` and the modules
beside it a final state stutters in `Terminated`; before it something is always
enabled. In `go_binding` the calls are bounded and a `Flush` without a deadline
may wait for a worker that has ended, for ever; in `file_sink` the sink is
closed or its process killed.

### Where the code and its documents disagree

| Run | What happens |
|---|---|
| `lost_wakeup` | `shutdown` sets the flag and signals without `queue_mutex` (`mp_logger.c:975-976`). Between the worker's test (341) and its wait (342) the signal finds nobody; the worker sleeps with the flag set and an unlimited join never returns. `README.md:119` promises a stopped worker |
| `destroy_running` | `destroy` ignores that its 5 s shutdown timed out (1018) and frees the logger under the worker, although `mp_logger.h:270` calls it safe on a running logger |
| `json_cut` | eight values of 127 control characters, accepted at the default capacities, render to six times their length; the line is cut and its brace lost, against `README.md:130` |
| `as_documented` | the loader accepts what `mp_logger.h:184` and `README.md:53` say is rejected, or reads it otherwise. The trace: `fgets` fails (534), nobody asks `ferror`, and the lines read so far, or the defaults, are loaded with OK. TLC run with `-continue` finds the other ways: an unknown section with no key in it (552), an empty text, which opens a section instead (552), a negative size, which wraps (82, against the comment at 73); quotes taken off twice (371, 551) |

What holds beside them is a passing property: `ShutdownSeenStops`,
`DrainedBeforeStop`, `PlainIsWhole`, and `LoadedIsWhatFileSays` with `AllOrNothing`.

Other behaviours that a reader of the documents may not expect are in the
models, and the passing properties are stated so as to say how far one can
rely on the code:

- A producer that read the flag as zero (`mp_logger.c:856`) publishes after the
  worker has left: status OK, and not drained unless the logger is started
  again. `DrainedBeforeStop` speaks of what was admitted before the shutdown.
- `get_stats` loads the queued total first (959), so an answer may show more
  processed than queued: `BacklogReal` and `CallsCovered` are what it is good
  for.
- A flush between `pthread_create` and `worker_started = 1` answers by
  `queue_count` (938), so OK with a record in the new worker's hands:
  `EmptyAnswer` says when its OK can be relied on.
- `configure` tests names (588) before it trims them (600), so a name of blanks
  becomes an empty one: `SnapshotTakenBack` has the exception.
- A custom stream under a built-in name follows the built-in thresholds (541):
  `CustomsPreserved` is about the others.
- A threshold above FATAL, which nothing refuses, sets no bit of the mask
  (`mp_logger.c:486-490`) while the fan-out takes it for a range like any other
  (`mp_logger_streams.c:603-608`): such a stream gets records of levels that
  `is_level_enabled` denies, against `mp_logger.h:247` and `README.md:117`.
  `EnabledIsAccepted` states the promise with this exception (`BeyondMask`), and
  without one in the other direction.
- A drop total counts as reported once `mp_logger_backup_write` has been called;
  a write that fails (836) loses the warning until the next drop, although
  `standards.md:86` wants queue pressure visible in the backup warnings.
  `DropsWarnedOfAtStop` speaks of the warning that was handed over.
- The results of `fwrite` are discarded (`mp_logger_streams.c:312-314`): when
  the device takes data again before the `fflush`, an entry that is cut or gone
  counts as written. `CrashLosesOnlyFailed` speaks of what `fwrite` took.
- A Go `Log` waits in `RLock` behind a `Close` that waits for a call that waits
  for a sink, so it does block on sink I/O, against `logger.go:368, 384` and
  `README.md:115`; and so do a `Flush` and a `Shutdown` with a timeout, which
  starts to run only in C (`logger.go:416, 450`). A timeout below a millisecond
  is none at all. `PromisedCallsEnd` says that the documents' promises hold but
  for these two cases.
- Two Go `Start`s at once make two workers, since the flag that both read has no
  lock, and two `Shutdown`s at once join one thread twice, which C leaves
  undefined. `OneWorker` has the exception `overlapped`.
- The worker's thread may give up for want of memory after `start` has returned
  (`WorkerAllocFails`), and a worker started after a shutdown warns again of
  drops already mirrored.

## Proofs

`MpLoggerProofs` proves, for every `BufferCapacity` and `MaxStreams` above
zero, every `MaxCalls` and any sets of producers and flushers
(`ConstantsAssumption` is all it assumes):

- `Invariance`: `IInv`, whose parts are the types, the ownership of
  `queue_mutex` by program counters, the shape and contents of the ring, the
  numbering, the record in the worker's hands, the agreement of
  `worker_started` with the thread, and dispatch in order. `InOrderDispatch`
  alone is not inductive: that the worker's copy is the next record needs the
  contents of the occupied slots, which need the producers' mutual exclusion
  and a slot that is not overwritten while occupied, which needs the ring's
  shape; that a new thread has nothing in hand needs `ThreadFlag`.
- `TypeCorrect` and `DispatchInOrder` follow from it.
- `Refinement`: each step is a step of `BoundedLog` or a stutter, with
  `taken` mapped to `Len(admitted) - queue_count`.
- `FlushKeepsPromise`, `StopIsDrained`, `StopWarnsOfDrops` and
  `WorkerNeverStreamless`, from `FlushInv`, `StopInv` and `StreamInv`, inductive
  given `IInv`; `EmptyMeansDispatched`, an action property, from `IInv` and
  `FlushInv`.
- `RecordWakeupNotLost` (`WakeupPending`, inductive given `IInv`): the worker
  sleeps over a record only while the producer that published it has still to
  signal. Between test and wait the worker owns the lock that an admission
  needs; shutdown's signal needs no lock, which is what `lost_wakeup` finds.
- `FlushWaitsForRecords`: a flush whose target is not met polls for a record
  that exists, in the ring, with the worker, or being copied under the lock
  (`TargetNumbered`, `Numbering` and `FlushInv`). These two are the safety halves
  of `AdmittedIsDispatched` and `FlushReturns`; what is left to fairness is that
  a thread with something to do does it.
- `WorkerLeftOnlyByTimeout`, an action property beside `destroy_running`:
  `destroy` gets past its shutdown with a worker still there only when the timed
  join ran out.
- `CallsAccounted`: the sum of the totals against the calls begun and the
  threads that are between the decision and the count, by the cardinality of
  that set.

Four actions touch the log (`StampSlot`, `PublishSlot`, `WorkerTakes`,
`WorkerFansOut`) and have a lemma each; all others are `Quiet`. The ring's
indices are compared through `Wrap` (subtract the capacity once) instead of a
modulus, so that only `NextIndex` has to reason about `%`.

`StreamRegistryProofs` proves `RegistryInvariance` for any names, any table
size, highest level and callers (`RegistryAssumption`). `MaskCurrent` (the
mask is the union of the registered streams' ranges) and
`WrittenOnceEach` are not inductive alone: both need `MutexOwner`, which ties
the lock to the callers' and the worker's places, so that nobody touches the
table during a fan-out and at most one stream is half added; the fan-out also
needs `UniqueNames` for the size of the table. `EnabledMeansAccepted` compares
the bits of `MaskCurrent` with the fan-out's test, level by level;
`FanOutComplete` and `FanOutConsistent` follow, as do `TypeCorrect`,
`NamesUnique`, `ThresholdsFollow` and `RegistrationsPreserved`.

The last part takes the core's invariants over to `StatsReader`, the composition:
`ReaderOnlyReads` says that a logger with a reader is a logger. `BacklogIsReal`
and `CallsAreCovered` then need, for each number of loads made, how the values
read bound the totals of now: what was read earlier is no larger than the total
now, and `BacklogNow` says that queued less processed is, at any moment, what is
being put, in the ring and in the worker's hands. `BacklogIsBounded` follows: an
answer never shows more than the ring and one record.

`RecordPathProofs`, for any capacities and inputs: `TypeCorrect`; that a record
with nothing to escape fits (`PlainStaysWhole`: the length of the header is at
most 384 with both texts at their longest, each field at most its share,
multiplied out by the loop's index); `AnswersFollowContract`, which is about the
first of several complaints; `HandedWhole` from an invariant that gives every
occupied slot the call it was filled by; and `KeysStayDistinct` from it.

`RuntimeConfigProofs`: `ConfigInvariance` says that the configuration is a
normal form, that a request between check and lock is still compatible with it,
and that every snapshot is. The theorems follow.

`GoBindingProofs`: `GoInvariance` (lock, one owner, nobody in C when `destroy`
begins) is inductive as it stands, with the types; `LateCallsStayOut` needs that
a late call finds the pointer cleared; `SingleWorker` that outside an
overlapping `Start` there is a worker only if the flag says so. `SomeoneHasLock`
is the part of `PromisedCallsEnd` that is about the lock: whenever a goroutine
waits for the `RWMutex`, another has it and is past waiting for it.

`ConstructionProofs`, for any table size, any list of names up to `MaxNames` and
any number of custom streams. `ConstructionAssumption` says besides that "file",
"udp" and unknown names are no stdio names. `OwnsExactly` is not inductive
alone: that giving a sink up releases nothing of another needs that its position
is not yet in the table, which `Loop` says (positions below `index` have a
stream or a warning, those from it on neither); what a stream's destroy callback
releases needs that the function running makes the sink that is named there
(`Named`). `Storage` ties arrays and backup file to the step that is reached, and
`TakenOver` says that a context the logger owns is in the table, from which
`NothingLeaked` follows when the table is walked. Acquiring, giving up and going
to the teardown have a lemma each (`AcquiresKeeps`, `GivesUpKeeps`, `GivenUp`);
every action of a `make` function is an instance of the first two.

`BootstrapLoaderProofs`, for any sections and keys and files of any length
(`MaxLines` is not used): `LoaderInv` says that, as long as no line read is
`Misread`, the loader's section is `SectionAt` the next line, its configuration
what the lines read say (`Follows`), and every line `Good`. A step appends a
line, so the lemmas are about what
one more line does to the reference definitions, which look at all of them:
`LinesStay`, `PartedBehind`, `SectionBehind`, `GoodBehind` and `SaysBehind`. They
speak of the last line with some property; that there is one is `LastExists`, by
the well-foundedness of the naturals instead of induction. `SectionIsKnown` says
that the documents' section is always one of theirs, so that the loader's is one
of its own. `ResultIsMeant` compares a parser's result with what the documents
mean by the value. `LoaderAssumption` (each key of a section has one parser)
makes the value that is stored the only one, `KeyAssumption` (no key is the
empty text) that a line without a name is refused.

`FileSinkProofs`, for lines of any number of pieces and any number of entries:
`SinkInv` says that what is in the file and behind it in the buffer is in order,
how far the write under way has come, and what may wait in the buffer: rests of
failed entries, and the entry being written. Order alone is not inductive, since
the next piece must be new; and a crash loses nothing else because of the last
part.

A conjunction of invariants that are checked one by one (`IInv`, `RegistryInv`,
`ConstructionInv`), an invariant that a proof needs (`LoaderInv`, `SinkInv`), and
what a checked property contains (`LateCallsRefused` in `GoInv`, `KeysDistinct`
in `HandedAsAccepted` and `AnswerIsContract`, `CallAccounting` beside
`CallsCovered`) are no properties of a run; they and `WorkerHasStream` are
proved. So are the four that stand beside the liveness properties and the
findings (`WakeupPending`, `FlushHasRecord`, `LeftOnlyByTimeout`,
`LockNotCircular`), which the proof modules define where they prove them. Every
safety property of a passing run has its theorem. Model-checked only is everything about liveness (`core_liveness` but for what an OK of `flush`
means, and `PromisedCallsEnd`), which is beyond the prover.

## Not modelled

- A sink that calls back into the logger: no document forbids or permits it, and
  `stream_mutex` is not recursive.
- Sizes at which sums and products wrap in `size_t` (`mp_logger.c:749`):
  `RecordPath` takes sizes that do not.
- The UDP sink's datagrams, one `sendto` each, resolution of its endpoint,
  timestamps, path building: system interfaces and formatting without state of
  their own. That only the last component of the log directory is created is a
  matter of the file system, which `Construction` lets fail at any step.
- Whether a warning handed to the backup logger reaches its file.
- The characters of texts, and the text of a line that was cut.
- The copying of configurations and fields between Go and C memory.
- `config_apply_override` called by the application: it is `ApplyValue` of the
  loader without a file.
- Tests, benchmarks, scripts and build files.
