----------------------------- MODULE Construction -----------------------------
(***************************************************************************)
(* What a logger owns while create or create_from_bootstrap builds it, in  *)
(* use, and while destroy takes it down (src/src/mp_logger.c:417-461,      *)
(* 730-836, 1013-1033; src/src/mp_logger_streams.c:355-500, 775-816,       *)
(* 841-919).                                                               *)
(*                                                                         *)
(* Every call that can fail may fail.  One thread runs here: what happens  *)
(* when destroy cannot join its worker is in MpLogger, the loader that     *)
(* goes before create is in Bootstrap.                                     *)
(***************************************************************************)
EXTENDS Integers, Sequences

CONSTANTS
  StdioNames,  \* "stdout" and "stderr"
  Customs,     \* contexts of the caller's streams, each under a name of its own
  MaxStreams,  \* MP_LOGGER_MAX_STREAMS
  MaxNames     \* bound on the names in config.active_streams

ASSUME ConstructionAssumption ==
  /\ MaxStreams \in Nat
  /\ MaxNames \in Nat
  /\ StdioNames \cap {"file", "udp", "other"} = {}  \* each name has one maker

\* "other" is a name mp_logger_build_builtin_streams does not know.
Names == StdioNames \cup {"file", "udp", "other"}

Arrays == {"slots", "message_storage", "context_storage", "field_storage",
           "field_key_storage", "field_string_storage"}

\* A resource is a kind and the position, in active_streams, of the stream it
\* belongs to; 0 for the logger's own.
Own(kind) == <<kind, 0>>
Resource ==
  {Own(kind) : kind \in Arrays \cup {"logger", "locks", "backup"}}
    \cup {"state", "handle", "socket", "addresses"} \X (1 .. MaxNames)

VARIABLES
  pc,         \* the next step of create, start or destroy
  bootstrap,  \* is this create_from_bootstrap
  active,     \* config.active_streams, split; blank names are skipped there
  index,      \* the position being built
  held,       \* what was acquired and not yet released
  backup_fd,  \* -1 none, 0 as calloc leaves it, 1 the backup file's
  streams,    \* the table: [position, context], position 0 for custom streams
  warned,     \* positions whose failure was handed to mp_logger_backup_write
  custom,     \* whose each custom context is
  worker_started

vars == <<pc, bootstrap, active, index, held, backup_fd, streams, warned,
          custom, worker_started>>

Init ==
  /\ pc = "idle"
  /\ bootstrap \in BOOLEAN
  /\ active \in UNION {[1 .. n -> Names] : n \in 0 .. MaxNames}
  /\ index = 1
  /\ held = {}
  /\ backup_fd = 0
  /\ streams = << >>
  /\ warned = {}
  /\ custom = [c \in Customs |-> "caller"]
  /\ worker_started = FALSE

-------------------------------------------------------------------------------
(* create, up to the sinks. *)

\* The logger, its locks and its condition.
CreateLogger ==
  /\ pc = "idle"
  /\ held' = {Own("logger"), Own("locks")}
  /\ backup_fd' = -1
  /\ pc' = "buffers"
  /\ UNCHANGED <<bootstrap, active, index, streams, warned, custom,
                 worker_started>>

\* The configuration is refused, or calloc fails.
CreateRefused ==
  /\ pc = "idle"
  /\ pc' = "gone"
  /\ UNCHANGED <<bootstrap, active, index, held, backup_fd, streams, warned,
                 custom, worker_started>>

\* mp_logger_allocate_buffers tries all six before it looks at any.
AllocateBuffers ==
  /\ pc = "buffers"
  /\ \E got \in SUBSET Arrays :
       /\ held' = held \cup {Own(kind) : kind \in got}
       /\ pc' = IF got = Arrays THEN "backup" ELSE "destroyStreams"
  /\ UNCHANGED <<bootstrap, active, index, backup_fd, streams, warned, custom,
                 worker_started>>

BackupOpen ==
  /\ pc = "backup"
  /\ held' = held \cup {Own("backup")}
  /\ backup_fd' = 1
  /\ pc' = "split"
  /\ UNCHANGED <<bootstrap, active, index, streams, warned, custom,
                 worker_started>>

\* The directory, the path or the file.
BackupOpenFails ==
  /\ pc = "backup"
  /\ pc' = "destroyStreams"
  /\ UNCHANGED <<bootstrap, active, index, held, backup_fd, streams, warned,
                 custom, worker_started>>

-------------------------------------------------------------------------------
(* mp_logger_build_builtin_streams. *)

Of(kind) == <<kind, index>>

BuildUnchanged ==
  UNCHANGED <<bootstrap, active, backup_fd, custom, worker_started>>

\* mp_logger_split_stream_list refuses more names than the table holds.
SplitStreamList ==
  /\ pc = "split"
  /\ pc' = IF Len(active) <= MaxStreams THEN "sink" ELSE "destroyStreams"
  /\ UNCHANGED <<index, held, streams, warned>>
  /\ BuildUnchanged

\* One step of a make function that goes on.
Acquires(from, name, kinds, to) ==
  /\ pc = from
  /\ index <= Len(active) /\ active[index] \in name
  /\ held' = held \cup {Of(kind) : kind \in kinds}
  /\ pc' = to
  /\ UNCHANGED <<index, streams, warned>>
  /\ BuildUnchanged

\* One that fails: it releases what it has; the loop warns and goes on.
GivesUp(from, name, kinds) ==
  /\ pc = from
  /\ index <= Len(active) /\ active[index] \in name
  /\ held' = held \ {Of(kind) : kind \in kinds}
  /\ warned' = warned \cup {index}
  /\ index' = index + 1
  /\ pc' = "sink"
  /\ UNCHANGED streams
  /\ BuildUnchanged

MakeStdioStream == Acquires("sink", StdioNames, {"state"}, "add")
MakeStdioStreamFails == GivesUp("sink", StdioNames, {})

FileState == Acquires("sink", {"file"}, {"state"}, "open")
FileStateFails == GivesUp("sink", {"file"}, {})

FileOpen == Acquires("open", {"file"}, {"handle"}, "add")

\* Wrong: the path is too long, or fopen fails, and the state is forgotten.
FileOpenFailsLeaky == GivesUp("open", {"file"}, {})

FileOpenFails == GivesUp("open", {"file"}, {"state"})

UdpResolve == Acquires("sink", {"udp"}, {"addresses"}, "socket")
UdpResolveFails == GivesUp("sink", {"udp"}, {})

UdpSocket == Acquires("socket", {"udp"}, {"socket"}, "udpState")
UdpSocketFails == GivesUp("socket", {"udp"}, {"addresses"})

UdpState == Acquires("udpState", {"udp"}, {"state"}, "freeAddresses")
UdpStateFails == GivesUp("udpState", {"udp"}, {"socket", "addresses"})

UdpFreeAddresses ==
  /\ pc = "freeAddresses"
  /\ held' = held \ {Of("addresses")}
  /\ pc' = "add"
  /\ UNCHANGED <<index, streams, warned>>
  /\ BuildUnchanged

\* What the destroy callback of the stream at a position releases: the handle
\* of stdout and stderr is not its own.
Context(i) ==
  {<<"state", i>>}
    \cup (IF active[i] = "file" THEN {<<"handle", i>>} ELSE {})
    \cup (IF active[i] = "udp" THEN {<<"socket", i>>} ELSE {})

NameFree(i) ==
  \A k \in 1 .. Len(streams) :
    streams[k].position = 0 \/ active[streams[k].position] # active[i]

\* Wrong: the table has the stream before its name is looked up.
AddBuiltinRefusedInserted ==
  /\ pc = "add"
  /\ ~(Len(streams) < MaxStreams /\ NameFree(index))
  /\ streams' = Append(streams, [position |-> index, context |-> "builtin"])
  /\ held' = held \ Context(index)
  /\ pc' = "destroyStreams"
  /\ UNCHANGED <<index, warned>>
  /\ BuildUnchanged

AddBuiltin ==
  /\ pc = "add"
  /\ Len(streams) < MaxStreams
  /\ NameFree(index)
  /\ streams' = Append(streams, [position |-> index, context |-> "builtin"])
  /\ index' = index + 1
  /\ pc' = "sink"
  /\ UNCHANGED <<held, warned>>
  /\ BuildUnchanged

\* A name given twice: the new stream is destroyed, and create fails.
AddBuiltinRefused ==
  /\ pc = "add"
  /\ ~(Len(streams) < MaxStreams /\ NameFree(index))
  /\ held' = held \ Context(index)
  /\ pc' = "destroyStreams"
  /\ UNCHANGED <<index, streams, warned>>
  /\ BuildUnchanged

UnknownName ==
  /\ pc = "sink"
  /\ index <= Len(active) /\ active[index] = "other"
  /\ pc' = "destroyStreams"
  /\ UNCHANGED <<index, held, streams, warned>>
  /\ BuildUnchanged

\* Wrong: a stream that could not be made ends the loop.
CreateReturnsEarly ==
  /\ pc = "sink"
  /\ index > Len(active) \/ index - 1 \in warned
  /\ pc' = IF bootstrap THEN "start" ELSE "ready"
  /\ UNCHANGED <<index, held, streams, warned>>
  /\ BuildUnchanged

CreateReturns ==
  /\ pc = "sink"
  /\ index > Len(active)
  /\ pc' = IF bootstrap THEN "start" ELSE "ready"
  /\ UNCHANGED <<index, held, streams, warned>>
  /\ BuildUnchanged

-------------------------------------------------------------------------------
(* The created logger. *)

LoggerUnchanged ==
  UNCHANGED <<bootstrap, active, index, held, backup_fd, warned>>

\* mp_logger_start, called by create_from_bootstrap or by the user.
Start ==
  /\ pc \in {"start", "ready"}
  /\ ~worker_started
  /\ Len(streams) > 0
  /\ worker_started' = TRUE
  /\ pc' = "ready"
  /\ UNCHANGED <<streams, custom>>
  /\ LoggerUnchanged

\* No stream, or no thread.  Only create_from_bootstrap gives the logger up.
BootstrapStartFails ==
  /\ pc = "start"
  /\ pc' = "destroyStreams"
  /\ UNCHANGED <<streams, custom, worker_started>>
  /\ LoggerUnchanged

\* Wrong: a full table is not looked for.
AddCustomUnchecked(c) ==
  /\ pc = "ready"
  /\ custom[c] = "caller"
  /\ streams' = Append(streams, [position |-> 0, context |-> c])
  /\ \E taken \in {"logger", "lent"} : custom' = [custom EXCEPT ![c] = taken]
  /\ UNCHANGED <<pc, worker_started>>
  /\ LoggerUnchanged

\* add_stream takes the context over only together with a destroy callback.
AddCustom(c) ==
  /\ pc = "ready"
  /\ custom[c] = "caller"
  /\ Len(streams) < MaxStreams
  /\ streams' = Append(streams, [position |-> 0, context |-> c])
  /\ \E taken \in {"logger", "lent"} : custom' = [custom EXCEPT ![c] = taken]
  /\ UNCHANGED <<pc, worker_started>>
  /\ LoggerUnchanged

\* destroy, with the shutdown of a running worker, which ends.
Destroy ==
  /\ pc = "ready"
  /\ worker_started' = FALSE
  /\ pc' = "destroyStreams"
  /\ UNCHANGED <<streams, custom>>
  /\ LoggerUnchanged

-------------------------------------------------------------------------------
(* mp_logger_destroy from its second step on, where failed creates end, too. *)

DestroyStreams ==
  /\ pc = "destroyStreams"
  /\ held' = held \ UNION {Context(streams[k].position) :
                             k \in {j \in 1 .. Len(streams) :
                                      streams[j].position # 0}}
  /\ custom' = [c \in Customs |->
                  IF /\ custom[c] = "logger"
                     /\ \E k \in 1 .. Len(streams) : streams[k].context = c
                  THEN "destroyed" ELSE custom[c]]
  /\ streams' = << >>
  /\ pc' = "closeBackup"
  /\ UNCHANGED <<bootstrap, active, index, backup_fd, warned, worker_started>>

BackupClose ==
  /\ pc = "closeBackup"
  /\ IF backup_fd >= 0 THEN /\ held' = held \ {Own("backup")}
                            /\ backup_fd' = -1
                       ELSE UNCHANGED <<held, backup_fd>>
  /\ pc' = "free"
  /\ UNCHANGED <<bootstrap, active, index, streams, warned, custom,
                 worker_started>>

Free ==
  /\ pc = "free"
  /\ held' = held \ {Own(kind) : kind \in Arrays \cup {"logger", "locks"}}
  /\ pc' = "gone"
  /\ UNCHANGED <<bootstrap, active, index, backup_fd, streams, warned, custom,
                 worker_started>>

Terminated == pc = "gone" /\ UNCHANGED vars

Next ==
  \/ CreateLogger \/ CreateRefused \/ AllocateBuffers
  \/ BackupOpen \/ BackupOpenFails \/ SplitStreamList
  \/ MakeStdioStream \/ MakeStdioStreamFails
  \/ FileState \/ FileStateFails \/ FileOpen \/ FileOpenFails
  \/ UdpResolve \/ UdpResolveFails \/ UdpSocket \/ UdpSocketFails
  \/ UdpState \/ UdpStateFails \/ UdpFreeAddresses
  \/ AddBuiltin \/ AddBuiltinRefused \/ UnknownName \/ CreateReturns
  \/ Start \/ BootstrapStartFails \/ (\E c \in Customs : AddCustom(c)) \/ Destroy
  \/ DestroyStreams \/ BackupClose \/ Free \/ Terminated

Spec == Init /\ [][Next]_vars

-------------------------------------------------------------------------------
(* Properties.                                                             *)

TypeOK ==
  /\ pc \in {"idle", "buffers", "backup", "split", "sink", "open", "socket",
             "udpState", "freeAddresses", "add", "start", "ready", "destroyStreams",
             "closeBackup", "free", "gone"}
  /\ bootstrap \in BOOLEAN
  /\ active \in Seq(Names) /\ Len(active) <= MaxNames
  /\ index \in 1 .. MaxNames + 1
  /\ held \subseteq Resource
  /\ backup_fd \in {-1, 0, 1}
  /\ streams \in Seq([position : 0 .. MaxNames, context : Customs \cup {"builtin"}])
  /\ Len(streams) <= MaxStreams
  /\ warned \subseteq 1 .. MaxNames
  /\ custom \in [Customs -> {"caller", "logger", "lent", "destroyed"}]
  /\ worker_started \in BOOLEAN

\* What the make function that is running has acquired so far.
UnderConstruction ==
  (IF pc \in {"open", "freeAddresses"} THEN {Of("state")} ELSE {})
    \cup (IF pc \in {"socket", "udpState", "freeAddresses"}
          THEN {Of("addresses")} ELSE {})
    \cup (IF pc \in {"udpState", "freeAddresses"} THEN {Of("socket")} ELSE {})
    \cup (IF pc = "add" THEN Context(index) ELSE {})

Registered == {streams[k].position : k \in 1 .. Len(streams)} \ {0}

Reached == UNION {Context(i) : i \in Registered}

\* Everything the sinks hold is reached from the table or from the function
\* that is building it, or nobody could ever release it; and everything the
\* table or backup_fd reaches is held, or destroy would release it again.  The
\* locks that destroy takes down are initialised however early create gave up.
OwnsExactly ==
  /\ {r \in held : r[2] # 0} = Reached \cup UnderConstruction
  /\ backup_fd = 1 <=> Own("backup") \in held
  /\ backup_fd = 0 => pc \in {"idle", "gone"}
  /\ pc \notin {"idle", "gone"} => {Own("logger"), Own("locks")} \subseteq held

\* After a failed create, a failed bootstrap or a destroy nothing is left, and
\* every context that add_stream took over has been destroyed
\* (mp_logger.c:728, include/mp_logger.h:197, 130-131).
NothingLeaked ==
  pc = "gone" => held = {} /\ \A c \in Customs : custom[c] # "logger"

\* A logger that is handed out has all its storage and a backup file; its
\* table has the streams the configuration names, in that order, but for those
\* whose failure was handed to the backup logger, which writes it if it can
\* (mp_logger_streams.c:836, 858-862).  One made by create_from_bootstrap has a
\* worker.
ReadyIsComplete ==
  pc = "ready" =>
    /\ {Own(kind) : kind \in Arrays \cup {"backup"}} \subseteq held
    /\ Registered = (1 .. Len(active)) \ warned
    /\ \A j, k \in 1 .. Len(streams) :
         j < k /\ streams[k].position # 0 =>
           streams[j].position \in 1 .. streams[k].position - 1
    /\ bootstrap => worker_started
===============================================================================
