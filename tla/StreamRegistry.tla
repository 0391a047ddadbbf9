---------------------------- MODULE StreamRegistry ----------------------------
(***************************************************************************)
(* The table of streams of one logger, the thresholds a configuration      *)
(* gives the built-in ones, the cached mask of enabled levels and the      *)
(* fan-out of one record after the other (src/src/mp_logger.c:377-400,     *)
(* 481-625, 921-929).                                                      *)
(*                                                                         *)
(* Everything here is guarded by stream_mutex except the mask, which       *)
(* mp_logger_is_level_enabled reads at any moment.  A step is therefore    *)
(* the code between two changes of the mask or of stream_mutex, or one     *)
(* turn of the fan-out loop, whose sinks take their time.                  *)
(***************************************************************************)
EXTENDS Integers, Sequences

CONSTANTS
  Builtins,    \* the names "stdout", "stderr", "file", "udp"
  Customs,     \* names that are none of these
  MaxLevel,    \* MP_LOG_LEVEL_FATAL; MP_LOG_LEVEL_TRACE is 0
  MaxStreams,  \* MP_LOGGER_MAX_STREAMS
  Formats,     \* config.format, and all else the renderer takes from config
  Callers,     \* threads that add streams or configure
  Worker, None \* owners of stream_mutex

ASSUME RegistryAssumption ==
  /\ MaxLevel \in Nat
  /\ MaxStreams \in Nat
  /\ Worker \notin Callers
  /\ None \notin Callers \cup {Worker}

Levels == 0 .. MaxLevel

\* Neither thresholds nor the level of a record are validated.  The enumeration
\* has no negative member, so compilers give it an unsigned type and one value
\* beyond MP_LOG_LEVEL_FATAL stands for all the others.
AnyLevel == 0 .. MaxLevel + 1
LevelRange == [minimum_level : AnyLevel, maximum_level : AnyLevel]
Stream == [name : Builtins \cup Customs, range : LevelRange,
           origin : {"builtin", "custom"}]
Config == [format : Formats, thresholds : [Builtins -> LevelRange]]

VARIABLES
  streams,             \* streams[1 .. stream_count]
  enabled_level_mask,  \* the levels whose bit is set
  config,
  stream_mutex,        \* its owner, or None
  cpc,                 \* where each caller is
  destroyed,           \* has mp_logger_destroy_streams run
  windex, wlevel,      \* the worker's loop, 0 outside it; the record's level
  rendered,            \* the format the record was rendered in
  written              \* how often each stream was handed the record

vars == <<streams, enabled_level_mask, config, stream_mutex, cpc, destroyed,
          windex, wlevel, rendered, written>>
fanOut == <<windex, wlevel, rendered, written>>

\* Wrong: bits beyond MP_LOG_LEVEL_FATAL.
RangeMaskUnchecked(r) == r.minimum_level .. r.maximum_level

\* mp_logger_level_range_mask, as a set of levels.
RangeMask(r) ==
  IF r.maximum_level > MaxLevel THEN {}
  ELSE r.minimum_level .. r.maximum_level

\* mp_logger_level_in_range, the fan-out's own test.
Accepts(s, level) ==
  level >= s.range.minimum_level /\ level <= s.range.maximum_level

\* mp_logger_is_level_enabled, before a shutdown.
IsLevelEnabled(level) == level \in Levels /\ level \in enabled_level_mask

StreamMask(table) == UNION {RangeMask(table[i].range) : i \in 1 .. Len(table)}

\* The built-in streams create registers, of the active ones those whose sink
\* could be made, in the order of config.active_streams.
BuiltinTables(thresholds) ==
  {[i \in 1 .. Len(a) |-> [name |-> a[i], range |-> thresholds[a[i]],
                           origin |-> "builtin"]] :
     a \in {b \in UNION {[1 .. n -> Builtins] : n \in 0 .. MaxStreams} :
              \A i, j \in DOMAIN b : b[i] = b[j] => i = j}}

Init ==
  /\ config \in Config
  /\ streams \in BuiltinTables(config.thresholds)
  /\ enabled_level_mask = StreamMask(streams)
  /\ stream_mutex = None
  /\ cpc = [c \in Callers |-> "idle"]
  /\ destroyed = FALSE
  /\ windex = 0 /\ wlevel = 0 /\ rendered = config.format
  /\ written = [i \in 1 .. MaxStreams |-> 0]

-------------------------------------------------------------------------------
Lock(t) == stream_mutex = None /\ stream_mutex' = t
Unlock(t) == stream_mutex = t /\ stream_mutex' = None

CallerMoves(c, from, to) ==
  /\ cpc[c] = from
  /\ cpc' = [cpc EXCEPT ![c] = to]
  /\ UNCHANGED <<destroyed, fanOut>>

\* Wrong: the search stops one entry early.
NameFreeOffByOne(name) ==
  \A i \in 1 .. Len(streams) - 1 : streams[i].name # name

NameFree(name) == \A i \in 1 .. Len(streams) : streams[i].name # name

\* mp_logger_add_owned_stream: a full table and a name in use are refused with
\* nothing changed; otherwise the stream is in the table before its levels are
\* in the mask.
AddStream(c, name, range) ==
  /\ ~destroyed
  /\ Lock(c)
  /\ Len(streams) < MaxStreams
  /\ NameFree(name)
  /\ CallerMoves(c, "idle", "addMask")
  /\ streams' = Append(streams, [name |-> name, range |-> range,
                                 origin |-> "custom"])
  /\ UNCHANGED <<enabled_level_mask, config>>

\* Wrong: the mask is left to the next configure.
AddMaskForgotten(c) ==
  /\ Unlock(c)
  /\ CallerMoves(c, "addMask", "idle")
  /\ UNCHANGED <<enabled_level_mask, streams, config>>

\* fetch_or of the new stream's levels, unlock.
AddMask(c) ==
  /\ Unlock(c)
  /\ CallerMoves(c, "addMask", "idle")
  /\ enabled_level_mask' =
       enabled_level_mask \cup RangeMask(streams[Len(streams)].range)
  /\ UNCHANGED <<streams, config>>

\* Wrong: configure does not wait for the fan-out.
ConfigureUnlocked(c, new) ==
  /\ ~destroyed
  /\ stream_mutex' = c
  /\ CallerMoves(c, "idle", "apply")
  /\ config' = new
  /\ UNCHANGED <<enabled_level_mask, streams>>

\* mp_logger_configure with a compatible configuration: the fields of config.
Configure(c, new) ==
  /\ ~destroyed
  /\ Lock(c)
  /\ CallerMoves(c, "idle", "apply")
  /\ config' = new
  /\ UNCHANGED <<enabled_level_mask, streams>>

\* Wrong: one of the two thresholds is forgotten.
ReconfiguredHalf(s) ==
  IF s.name \in Builtins
  THEN [name |-> s.name, origin |-> s.origin,
        range |-> [minimum_level |-> config.thresholds[s.name].minimum_level,
                   maximum_level |-> s.range.maximum_level]]
  ELSE s

\* Wrong: the last branch of the chain of names takes all the others too.
ReconfiguredOthers(s) ==
  LET b == IF s.name \in Builtins THEN s.name ELSE CHOOSE x \in Builtins : TRUE
  IN [name |-> s.name, range |-> config.thresholds[b], origin |-> s.origin]

\* apply_config_to_streams goes by the name alone.
Reconfigured(s) ==
  IF s.name \in Builtins
  THEN [name |-> s.name, range |-> config.thresholds[s.name],
        origin |-> s.origin]
  ELSE s

\* The thresholds, then the mask rebuilt from all of them, unlock.
ApplyConfig(c) ==
  /\ Unlock(c)
  /\ CallerMoves(c, "apply", "idle")
  /\ streams' = [i \in 1 .. Len(streams) |-> Reconfigured(streams[i])]
  /\ enabled_level_mask' = StreamMask(streams')
  /\ UNCHANGED config

\* mp_logger_destroy_streams, when no caller is under way.  A worker that
\* outlived the shutdown may still be: the lock keeps it out of the loop.
DestroyStreams ==
  /\ ~destroyed
  /\ stream_mutex = None
  /\ destroyed' = TRUE
  /\ streams' = << >>
  /\ enabled_level_mask' = {}
  /\ UNCHANGED <<config, stream_mutex, cpc, fanOut>>

-------------------------------------------------------------------------------
(* The worker, from the lock before rendering to the unlock. *)

WorkerMoves == UNCHANGED <<streams, enabled_level_mask, config, cpc, destroyed>>

Render(level) ==
  /\ Lock(Worker)
  /\ windex' = 1
  /\ wlevel' = level
  /\ rendered' = config.format
  /\ written' = [i \in 1 .. MaxStreams |-> 0]
  /\ WorkerMoves

SkipStream ==
  /\ stream_mutex = Worker
  /\ windex \in 1 .. Len(streams)
  /\ ~Accepts(streams[windex], wlevel)
  /\ windex' = windex + 1
  /\ UNCHANGED <<stream_mutex, wlevel, rendered, written>>
  /\ WorkerMoves

\* Wrong: a sink that fails ends the fan-out.
WriteStreamOrStop ==
  /\ stream_mutex = Worker
  /\ windex \in 1 .. Len(streams)
  /\ Accepts(streams[windex], wlevel)
  /\ windex' \in {windex + 1, Len(streams) + 1}
  /\ written' = [written EXCEPT ![windex] = @ + 1]
  /\ UNCHANGED <<stream_mutex, wlevel, rendered>>
  /\ WorkerMoves

\* The sink's write callback; its failure only adds a line to the backup file.
WriteStream ==
  /\ stream_mutex = Worker
  /\ windex \in 1 .. Len(streams)
  /\ Accepts(streams[windex], wlevel)
  /\ windex' = windex + 1
  /\ written' = [written EXCEPT ![windex] = @ + 1]
  /\ UNCHANGED <<stream_mutex, wlevel, rendered>>
  /\ WorkerMoves

EndFanOut ==
  /\ windex = Len(streams) + 1
  /\ Unlock(Worker)
  /\ windex' = 0
  /\ UNCHANGED <<wlevel, rendered, written>>
  /\ WorkerMoves

Next ==
  \/ \E c \in Callers :
       \/ \E name \in Builtins \cup Customs, range \in LevelRange :
            AddStream(c, name, range)
       \/ \E new \in Config : Configure(c, new)
       \/ AddMask(c) \/ ApplyConfig(c)
  \/ DestroyStreams
  \/ \E level \in AnyLevel : Render(level)
  \/ SkipStream \/ WriteStream \/ EndFanOut

Spec == Init /\ [][Next]_vars

-------------------------------------------------------------------------------
(* Properties.                                                             *)

TypeOK ==
  /\ streams \in Seq(Stream)
  /\ enabled_level_mask \subseteq Levels
  /\ config \in Config
  /\ stream_mutex \in Callers \cup {Worker, None}
  /\ cpc \in [Callers -> {"idle", "addMask", "apply"}]
  /\ destroyed \in BOOLEAN
  /\ windex \in Nat
  /\ wlevel \in AnyLevel
  /\ rendered \in Formats
  /\ written \in [1 .. MaxStreams -> Nat]

\* No two streams have one name (include/mp_logger.h:204), however many callers
\* search the table at a time, and the table never outgrows its array.
UniqueNames ==
  /\ Len(streams) <= MaxStreams
  /\ \A i, j \in 1 .. Len(streams) :
       streams[i].name = streams[j].name => i = j

\* stream_mutex has the owner whose code is between lock and unlock.
MutexOwner ==
  /\ \A c \in Callers : stream_mutex = c <=> cpc[c] # "idle"
  /\ stream_mutex = Worker <=> windex # 0

BeingAdded == \E c \in Callers : cpc[c] = "addMask"

\* The mask is that of the table, but for the stream that is being added.
MaskCurrent ==
  /\ enabled_level_mask =
       UNION {RangeMask(streams[i].range) :
                i \in 1 .. (IF BeingAdded THEN Len(streams) - 1
                                          ELSE Len(streams))}
  /\ BeingAdded => Len(streams) > 0

\* The streams whose add_stream has returned, and those of create.
Registered == 1 .. (IF BeingAdded THEN Len(streams) - 1 ELSE Len(streams))

\* A threshold above MP_LOG_LEVEL_FATAL, which nothing refuses, accepts every
\* level from the lower one on in the fan-out (mp_logger_streams.c:603-608) and
\* has no bit in the mask (mp_logger.c:486-490).
BeyondMask(s) == s.range.maximum_level > MaxLevel

\* At every moment a lock-free reader can choose, the answer of
\* mp_logger_is_level_enabled is what the fan-out would do: a level that is
\* enabled is accepted by a registered stream (include/mp_logger.h:247), and
\* one that is not is accepted by none but those BeyondMask.  There the answer
\* is no although records of the level are written: code and documents
\* disagree (README.md:117).
EnabledIsAccepted ==
  \A level \in AnyLevel :
    /\ IsLevelEnabled(level) =>
         \E i \in Registered : Accepts(streams[i], level)
    /\ level \in Levels /\ ~IsLevelEnabled(level) =>
         \A i \in Registered :
           Accepts(streams[i], level) => BeyondMask(streams[i])

\* Outside configure, and so whenever get_config or the fan-out has the lock,
\* built-in streams have the thresholds of the configuration.
BuiltinsFollowConfig ==
  \A i \in 1 .. Len(streams) :
    streams[i].origin = "builtin" =>
      /\ streams[i].name \in Builtins
      /\ (\A c \in Callers : cpc[c] # "apply") =>
           streams[i].range = config.thresholds[streams[i].name]

\* The record is handed once to each stream of the table that takes its
\* level, in order, whatever other sinks return and whoever waits to change
\* the table meanwhile (docs/architecture.md:19).
WrittenOnceEach ==
  windex > 0 =>
    /\ windex <= Len(streams) + 1
    /\ \A i \in 1 .. MaxStreams :
         written[i] =
           IF i < windex /\ Accepts(streams[i], wlevel) THEN 1 ELSE 0

\* All sinks see a record rendered under one configuration, the one in force
\* until the last of them has it.
OneConfigPerRecord == windex > 0 => rendered = config.format

RegistryInv ==
  /\ TypeOK /\ UniqueNames /\ MutexOwner /\ MaskCurrent
  /\ BuiltinsFollowConfig /\ WrittenOnceEach /\ OneConfigPerRecord

\* configure preserves the registrations of custom streams (mp_logger.c:533), of
\* those at least whose name no built-in stream could have.  One registered
\* under the name of an inactive built-in stream is taken for it, and nothing
\* refuses that name; which index a stream has never changes either.
CustomsPreserved ==
  [][\A i \in 1 .. Len(streams) :
       ~destroyed' =>
         /\ streams'[i].name = streams[i].name
         /\ streams'[i].origin = streams[i].origin
         /\ streams[i].name \in Customs => streams'[i] = streams[i]]_vars
===============================================================================
