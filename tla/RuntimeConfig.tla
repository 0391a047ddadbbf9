----------------------------- MODULE RuntimeConfig -----------------------------
(***************************************************************************)
(* The configuration of a logger from create on: what create and configure *)
(* accept, what they make of it, and what get_config hands back, with      *)
(* several threads configuring (src/src/mp_logger.c:417-433, 513-531,      *)
(* 584-635, 735-749).  What a configuration does to the streams is         *)
(* StreamRegistry's matter.                                                *)
(***************************************************************************)
EXTENDS Integers

CONSTANTS
  Callers,
  None,      \* no configuration yet
  Requests   \* configurations that callers make up themselves

\* What trimming and sanitizing tell apart, each by a text of its kind.
Texts == {"", " ", " a", "a", "a.", "_", "_a", "a_"}

SizeFields == {"buffer_capacity", "message_capacity", "context_capacity",
               "field_capacity", "field_key_capacity", "field_value_capacity"}
NameFields == {"service_name", "environment_name", "build_version"}
PrefixFields == {"file_name_prefix", "backup_file_name_prefix"}
PlaceFields == {"log_directory", "active_streams", "udp_host", "udp_port"}
RuntimeFields == {"format", "pretty_output", "thresholds"}

Config == [size : [SizeFields -> Nat], name : [NameFields -> Texts],
           prefix : [PrefixFields -> Texts], place : [PlaceFields -> Texts],
           runtime : [RuntimeFields -> Nat]]

ASSUME ConfigAssumption == None \notin Config /\ Requests \subseteq Config

VARIABLES
  config,    \* logger->config
  checked,   \* by caller: the request that waits for stream_mutex, or None
  snapshot,  \* by caller: what its last get_config gave it, or None
  applied    \* history: the request of the last call that answered OK

vars == <<config, checked, snapshot, applied>>

\* Wrong: one byte for a text is enough.
MinimumOne(f) == 1

\* mp_logger_validate_config: a text needs a character and its terminator.
Minimum(f) == IF f \in {"buffer_capacity", "field_capacity"} THEN 1 ELSE 2
Valid(c) ==
  /\ \A f \in SizeFields : c.size[f] >= Minimum(f)
  /\ \A f \in NameFields : c.name[f] # ""
  /\ \A f \in PrefixFields : c.prefix[f] # ""
  /\ c.place["log_directory"] # ""

\* mp_logger_copy_trimmed and mp_logger_sanitize_file_component.
Trimmed(t) == CASE t = " " -> "" [] t = " a" -> "a" [] OTHER -> t
Sanitized(t) ==
  CASE t = " " -> "_" [] t = " a" -> "_a" [] t = "a." -> "a_" [] OTHER -> t

Normalized(c) ==
  [c EXCEPT !.prefix = [f \in PrefixFields |-> Sanitized(c.prefix[f])]]

\* Wrong: a place that is not compared.
CompatibleAnywhere(c) == c.size = config.size /\ c.prefix = config.prefix

\* mp_logger_runtime_config_is_compatible.
Compatible(c) ==
  c.size = config.size /\ c.prefix = config.prefix /\ c.place = config.place

\* Wrong: create keeps the prefixes as they are.
InitAsIs ==
  \E c \in Requests :
    /\ Valid(c)
    /\ config = c
    /\ applied = c
    /\ checked = [t \in Callers |-> None]
    /\ snapshot = [t \in Callers |-> None]

\* mp_logger_create has returned a logger.
Init ==
  \E c \in Requests :
    /\ Valid(c)
    /\ config = Normalized(c)
    /\ applied = c
    /\ checked = [t \in Callers |-> None]
    /\ snapshot = [t \in Callers |-> None]

\* A caller's own configuration, or one it got from the logger.
Known(t) == Requests \cup ({snapshot[t]} \ {None})

\* configure without the lock: only init-only fields of the logger are read.
Check(t, c) ==
  /\ checked[t] = None
  /\ Valid(c) /\ Compatible(Normalized(c))
  /\ checked' = [checked EXCEPT ![t] = c]
  /\ UNCHANGED <<config, snapshot, applied>>

Refuse(t, c) ==
  /\ checked[t] = None
  /\ ~(Valid(c) /\ Compatible(Normalized(c)))
  /\ UNCHANGED vars

\* Wrong: the whole of what the caller passed.
ApplyWhole(t) ==
  /\ checked[t] # None
  /\ config' = checked[t]
  /\ applied' = checked[t]
  /\ checked' = [checked EXCEPT ![t] = None]
  /\ UNCHANGED snapshot

\* configure under stream_mutex.
Apply(t) ==
  LET c == Normalized(checked[t]) IN
  /\ checked[t] # None
  /\ config' = [config EXCEPT
       !.name = [f \in NameFields |-> Trimmed(c.name[f])],
       !.runtime = c.runtime]
  /\ applied' = checked[t]
  /\ checked' = [checked EXCEPT ![t] = None]
  /\ UNCHANGED snapshot

GetConfig(t) ==
  /\ checked[t] = None
  /\ snapshot' = [snapshot EXCEPT ![t] = config]
  /\ UNCHANGED <<config, checked, applied>>

Next ==
  \E t \in Callers :
    \/ \E c \in Known(t) : Check(t, c) \/ Refuse(t, c)
    \/ Apply(t) \/ GetConfig(t)

Spec == Init /\ [][Next]_vars

-------------------------------------------------------------------------------
(* Properties.                                                             *)

\* The fields' types, with the sizes that the queue's storage needs.
TypeOK ==
  /\ config \in Config /\ applied \in Config
  /\ \A f \in SizeFields :
       config.size[f] > 0 /\ (f \notin {"buffer_capacity", "field_capacity"}
                                => config.size[f] > 1)
  /\ checked \in [Callers -> Config \cup {None}]
  /\ snapshot \in [Callers -> Config \cup {None}]

\* A call that answers OK ignores no field of its request: each is in effect,
\* a name perhaps trimmed and a prefix sanitized, though configure copies some
\* fields and only compares the others, before it has the lock
\* (include/mp_logger.h:209-211, mp_logger.c:584-625).
NothingIgnored ==
  /\ config.size = applied.size /\ config.place = applied.place
  /\ config.runtime = applied.runtime
  /\ \A f \in PrefixFields : config.prefix[f] = Sanitized(applied.prefix[f])
  /\ \A f \in NameFields :
       config.name[f] \in {applied.name[f], Trimmed(applied.name[f])}

\* Queue capacities, storage paths, streams and endpoint are those of create
\* for ever: the queue and the open files were made from them
\* (include/mp_logger.h:211).
InitOnlyKept ==
  [][config'.size = config.size /\ config'.prefix = config.prefix
       /\ config'.place = config.place]_config

\* What get_config gave is accepted by configure at any later time, whatever
\* others configured meanwhile, if no name in it has been trimmed to nothing
\* (include/mp_logger.h:214, mp_logger.c:588-596).
SnapshotTakenBack ==
  \A t \in Callers :
    snapshot[t] # None /\ (\A f \in NameFields : snapshot[t].name[f] # "")
      => Valid(snapshot[t]) /\ Compatible(Normalized(snapshot[t]))
===============================================================================
