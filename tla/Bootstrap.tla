------------------------------- MODULE Bootstrap -------------------------------
(***************************************************************************)
(* mp_logger_create_from_bootstrap: the loader, then create with what it   *)
(* loaded, then start (src/src/mp_logger.c:798-816).  A caller of          *)
(* mp_logger_create brings a configuration of its own and has no loader.   *)
(***************************************************************************)
EXTENDS Construction, BootstrapLoader

StreamsKey == <<"logger", "active_streams">>

\* MP_LOGGER_DEFAULT_ACTIVE_STREAMS.
DefaultStreams == <<"stdout", "stderr", "file">>

ASSUME BootstrapAssumption ==
  /\ StreamsKey[2] \in TextKeys[StreamsKey[1]]
  /\ {"stdout", "stderr"} \subseteq StdioNames
  /\ MaxNames >= Len(DefaultStreams)

\* mp_logger_split_stream_list of a text of the file: any names, but for the
\* default and for no text at all.
SplitsTo(text) ==
  {list \in UNION {[1 .. n -> Names] : n \in 0 .. MaxNames} :
     /\ text = "default" => list = DefaultStreams
     /\ text = "empty" => list = << >>}

bootVars == <<vars, loadVars>>

BootInit ==
  /\ Init /\ LoadInit
  /\ bootstrap => active = << >>

Loading == bootstrap /\ lpc # "returned"

\* The loader's frame is left.
LoaderReturns ==
  /\ lpc' = "returned"
  /\ section' = Root /\ config' = Defaults /\ out_config' = << >>
  /\ read' = << >> /\ cut' = FALSE

Load == Loading /\ LoadNext /\ UNCHANGED vars

\* create is given what was loaded.
HandOver ==
  /\ Loading /\ lpc = "OK"
  /\ active' \in SplitsTo(out_config[StreamsKey])
  /\ LoaderReturns
  /\ UNCHANGED <<pc, bootstrap, index, held, backup_fd, streams, warned, custom,
                 worker_started>>

\* The loader's status is returned, and no logger.
LoadRefused ==
  /\ Loading /\ lpc = "error"
  /\ pc' = "gone"
  /\ LoaderReturns
  /\ UNCHANGED <<bootstrap, active, index, held, backup_fd, streams, warned,
                 custom, worker_started>>

Build == ~Loading /\ Next /\ UNCHANGED loadVars

BootNext == Load \/ HandOver \/ LoadRefused \/ Build

BootSpec == BootInit /\ [][BootNext]_bootVars
===============================================================================
