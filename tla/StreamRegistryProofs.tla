------------------------- MODULE StreamRegistryProofs -------------------------
(***************************************************************************)
(* RegistryInv is inductive, for any table size, names, levels and any     *)
(* number of callers: one lemma per part, one step per action.             *)
(***************************************************************************)
EXTENDS StreamRegistry, TLAPS

\* The table at create holds one stream per active built-in name, with the
\* thresholds of the configuration (mp_logger_build_builtin_streams).
LEMMA InitialTable ==
  ASSUME NEW thresholds \in [Builtins -> LevelRange],
         NEW table \in BuiltinTables(thresholds)
  PROVE  /\ table \in Seq(Stream)
         /\ Len(table) <= MaxStreams
         /\ \A i, j \in 1 .. Len(table) : table[i].name = table[j].name => i = j
         /\ \A i \in 1 .. Len(table) :
              /\ table[i].name \in Builtins
              /\ table[i].range = thresholds[table[i].name]
<1>0. PICK a \in {b \in UNION {[1 .. n -> Builtins] : n \in 0 .. MaxStreams} :
                     \A i, j \in DOMAIN b : b[i] = b[j] => i = j} :
        table = [i \in 1 .. Len(a) |->
                   [name |-> a[i], range |-> thresholds[a[i]],
                    origin |-> "builtin"]]
  BY DEF BuiltinTables
<1>1. PICK n \in 0 .. MaxStreams : a \in [1 .. n -> Builtins]
  BY <1>0
<1>2. n \in Nat /\ n <= MaxStreams
  BY RegistryAssumption
<1>3. a \in Seq(Builtins) /\ Len(a) = n
  BY <1>1, <1>2
<1> DEFINE entry(i) == [name |-> a[i], range |-> thresholds[a[i]],
                        origin |-> "builtin"]
<1>4. table = [i \in 1 .. n |-> entry(i)] /\ \A i \in 1 .. n : entry(i) \in Stream
  BY <1>0, <1>1, <1>3 DEF Stream
<1>5. table \in Seq(Stream) /\ Len(table) = n
  <2> HIDE DEF entry
  <2> QED
    BY <1>2, <1>4
<1>6. \A i \in 1 .. n :
        /\ a[i] \in Builtins
        /\ table[i].name = a[i]
        /\ table[i].range = thresholds[a[i]]
  <2> TAKE i \in 1 .. n
  <2>1. table[i] = [name |-> a[i], range |-> thresholds[a[i]],
                    origin |-> "builtin"]
    BY <1>0, <1>2, <1>3
  <2> QED
    BY <1>1, <2>1
<1>7. \A i, j \in 1 .. n : a[i] = a[j] => i = j
  BY <1>0, <1>1
<1> QED
  BY <1>2, <1>5, <1>6, <1>7

\* A configuration leaves a stream a stream, with its name and origin
\* (mp_logger_apply_config_to_streams).
LEMMA ReconfiguredKeeps ==
  ASSUME TypeOK, NEW s \in Stream
  PROVE  /\ Reconfigured(s) \in Stream
         /\ Reconfigured(s).name = s.name
         /\ Reconfigured(s).origin = s.origin
         /\ s.name \in Builtins =>
              Reconfigured(s).range = config.thresholds[s.name]
  BY DEF TypeOK, Reconfigured, Stream, Config

\* The table after configure, stream by stream.
LEMMA AppliedTable ==
  ASSUME TypeOK, NEW c \in Callers, ApplyConfig(c)
  PROVE  /\ streams' \in Seq(Stream)
         /\ Len(streams') = Len(streams)
         /\ \A i \in 1 .. Len(streams) :
              /\ streams[i] \in Stream
              /\ streams'[i] = Reconfigured(streams[i])
<1>1. streams \in Seq(Stream)
  BY DEF TypeOK
<1>2. \A i \in 1 .. Len(streams) :
        streams[i] \in Stream /\ Reconfigured(streams[i]) \in Stream
  BY <1>1, ReconfiguredKeeps
<1>3. streams' = [i \in 1 .. Len(streams) |-> Reconfigured(streams[i])]
  BY DEF ApplyConfig
<1> QED
  BY <1>1, <1>2, <1>3

-------------------------------------------------------------------------------
\* The masks are sets of levels.
LEMMA MaskOfTable ==
  ASSUME NEW table \in Seq(Stream)
  PROVE  /\ StreamMask(table) \subseteq Levels
         /\ \A i \in 1 .. Len(table) : RangeMask(table[i].range) \subseteq Levels
<1>1. \A r \in LevelRange : RangeMask(r) \subseteq Levels
  BY RegistryAssumption DEF RangeMask, LevelRange, AnyLevel, Levels
<1>2. \A i \in 1 .. Len(table) : table[i].range \in LevelRange
  <2>1. \A s \in Stream : s.range \in LevelRange
    BY DEF Stream
  <2> QED
    BY <2>1
<1>3. \A i \in 1 .. Len(table) : RangeMask(table[i].range) \subseteq Levels
  BY <1>1, <1>2
<1> QED
  BY <1>3 DEF StreamMask

\* Types are kept.
LEMMA TypeStep ==
  ASSUME RegistryInv, [Next]_vars
  PROVE  TypeOK'
<1> USE DEF RegistryInv
<1>1. ASSUME NEW c \in Callers, NEW name \in Builtins \cup Customs,
             NEW range \in LevelRange, AddStream(c, name, range)
      PROVE  TypeOK'
  <2>1. [name |-> name, range |-> range, origin |-> "custom"] \in Stream
    BY DEF Stream
  <2>2. streams' \in Seq(Stream)
    BY <1>1, <2>1 DEF TypeOK, AddStream
  <2> QED
    BY <1>1, <2>2 DEF TypeOK, AddStream, Lock, CallerMoves, fanOut
<1>2. ASSUME NEW c \in Callers, AddMask(c)
      PROVE  TypeOK'
  <2>1. BeingAdded
    BY <1>2 DEF AddMask, CallerMoves, BeingAdded
  <2>2. Len(streams) \in 1 .. Len(streams)
    BY <2>1 DEF MaskCurrent, TypeOK
  <2>3. enabled_level_mask' \subseteq Levels
    BY <1>2, <2>2, MaskOfTable DEF TypeOK, AddMask
  <2> QED
    BY <1>2, <2>3 DEF TypeOK, AddMask, Unlock, CallerMoves, fanOut
<1>3. ASSUME NEW c \in Callers, NEW new \in Config, Configure(c, new)
      PROVE  TypeOK'
  BY <1>3 DEF TypeOK, Configure, Lock, CallerMoves, fanOut
<1>4. ASSUME NEW c \in Callers, ApplyConfig(c)
      PROVE  TypeOK'
  <2>1. streams' \in Seq(Stream)
    BY <1>4, AppliedTable
  <2>2. enabled_level_mask' \subseteq Levels
    BY <1>4, <2>1, MaskOfTable DEF ApplyConfig
  <2> QED
    BY <1>4, <2>1, <2>2 DEF TypeOK, ApplyConfig, Unlock, CallerMoves, fanOut
<1>5. CASE DestroyStreams
  BY <1>5 DEF TypeOK, DestroyStreams, fanOut
<1>6. ASSUME NEW level \in AnyLevel, Render(level)
      PROVE  TypeOK'
  BY <1>6 DEF TypeOK, Render, Lock, WorkerMoves, Config
<1>7. CASE SkipStream
  BY <1>7 DEF TypeOK, SkipStream, WorkerMoves
<1>8. CASE WriteStream
  <2>1. written' \in [1 .. MaxStreams -> Nat]
    <3>1. written \in [1 .. MaxStreams -> Nat] /\ MaxStreams \in Nat
      BY RegistryAssumption DEF TypeOK
    <3>2. windex \in 1 .. MaxStreams
      BY <1>8, <3>1 DEF TypeOK, UniqueNames, WriteStream
    <3> QED
      BY <1>8, <3>1, <3>2 DEF WriteStream
  <2> QED
    BY <1>8, <2>1 DEF TypeOK, WriteStream, WorkerMoves
<1>9. CASE EndFanOut
  BY <1>9 DEF TypeOK, EndFanOut, Unlock, WorkerMoves
<1>10. CASE UNCHANGED vars
  BY <1>10 DEF TypeOK, vars
<1> QED
  BY <1>1, <1>2, <1>3, <1>4, <1>5, <1>6, <1>7, <1>8, <1>9, <1>10 DEF Next

\* stream_mutex has the owner whose code is between lock and unlock.
LEMMA OwnerStep ==
  ASSUME RegistryInv, [Next]_vars
  PROVE  MutexOwner'
<1> USE RegistryAssumption DEF RegistryInv
<1>1. ASSUME NEW c \in Callers,
             \/ \E name \in Builtins \cup Customs, range \in LevelRange :
                  AddStream(c, name, range)
             \/ \E new \in Config : Configure(c, new)
             \/ AddMask(c)
             \/ ApplyConfig(c)
      PROVE  MutexOwner'
  <2>1. UNCHANGED windex
    BY <1>1 DEF AddStream, Configure, AddMask, ApplyConfig, CallerMoves, fanOut
  <2>2. \/ /\ stream_mutex = None /\ stream_mutex' = c
           /\ \E to \in {"addMask", "apply"} :
                cpc' = [cpc EXCEPT ![c] = to]
        \/ /\ stream_mutex = c /\ stream_mutex' = None
           /\ cpc' = [cpc EXCEPT ![c] = "idle"]
    BY <1>1 DEF AddStream, Configure, AddMask, ApplyConfig, CallerMoves, Lock, Unlock
  <2>3. cpc \in [Callers -> {"idle", "addMask", "apply"}]
    BY DEF TypeOK
  <2> QED
    BY <2>1, <2>2, <2>3 DEF MutexOwner
<1>2. CASE DestroyStreams \/ SkipStream \/ WriteStream \/ EndFanOut
           \/ \E level \in AnyLevel : Render(level)
  <2>1. UNCHANGED cpc
    BY <1>2 DEF DestroyStreams, SkipStream, WriteStream, EndFanOut, Render, WorkerMoves
  <2>2. \/ UNCHANGED <<stream_mutex, windex>>
        \/ stream_mutex = Worker /\ UNCHANGED stream_mutex
           /\ windex' = windex + 1
        \/ stream_mutex = Worker /\ stream_mutex' = None /\ windex' = 0
        \/ stream_mutex = None /\ stream_mutex' = Worker /\ windex' = 1
    BY <1>2 DEF DestroyStreams, SkipStream, WriteStream, EndFanOut, Render,
                Lock, Unlock, fanOut
  <2>3. windex \in Nat
    BY DEF TypeOK
  <2> QED
    BY <2>1, <2>2, <2>3 DEF MutexOwner
<1>3. CASE UNCHANGED vars
  BY <1>3 DEF MutexOwner, vars
<1> QED
  BY <1>1, <1>2, <1>3 DEF Next

-------------------------------------------------------------------------------
\* What each part of the invariant sees of a step: the table grows by one, is
\* reconfigured, is emptied, or stays, and it stays while the worker has it.
LEMMA TableSteps ==
  ASSUME RegistryInv, [Next]_vars
  PROVE  \/ \E c \in Callers, name \in Builtins \cup Customs,
               range \in LevelRange : AddStream(c, name, range)
         \/ \E c \in Callers : ApplyConfig(c)
         \/ DestroyStreams
         \/ UNCHANGED streams
  BY DEF Next, AddMask, Configure, Render, SkipStream, WriteStream, EndFanOut,
         WorkerMoves, vars

\* The search of the table and the insertion are one critical section.
LEMMA NamesStep ==
  ASSUME RegistryInv, [Next]_vars
  PROVE  UniqueNames'
<1> USE DEF RegistryInv
<1>0. streams \in Seq(Stream) /\ MaxStreams \in Nat
  BY RegistryAssumption DEF TypeOK
<1>1. ASSUME NEW c \in Callers, NEW name \in Builtins \cup Customs,
             NEW range \in LevelRange, AddStream(c, name, range)
      PROVE  UniqueNames'
  <2> DEFINE new == [name |-> name, range |-> range, origin |-> "custom"]
  <2>1. Len(streams') = Len(streams) + 1
    BY <1>0, <1>1 DEF AddStream
  <2>2. \A i \in 1 .. Len(streams) : streams'[i] = streams[i]
    BY <1>0, <1>1 DEF AddStream
  <2>3. streams'[Len(streams) + 1].name = name
    <3>1. streams'[Len(streams) + 1] = new
      BY <1>0, <1>1 DEF AddStream
    <3> QED
      BY <3>1
  <2>4. Len(streams) < MaxStreams /\ NameFree(name)
    BY <1>1 DEF AddStream
  <2>5. Len(streams) \in Nat
    BY <1>0
  <2> QED
    BY <1>0, <2>1, <2>2, <2>3, <2>4, <2>5 DEF UniqueNames, NameFree
<1>2. ASSUME NEW c \in Callers, ApplyConfig(c)
      PROVE  UniqueNames'
  <2>1. /\ Len(streams') = Len(streams)
        /\ \A i \in 1 .. Len(streams) : streams'[i].name = streams[i].name
    BY <1>2, AppliedTable, ReconfiguredKeeps
  <2> QED
    BY <2>1 DEF UniqueNames
<1>3. CASE DestroyStreams
  BY <1>0, <1>3 DEF UniqueNames, DestroyStreams
<1>4. CASE UNCHANGED streams
  BY <1>4 DEF UniqueNames
<1> QED
  BY <1>1, <1>2, <1>3, <1>4, TableSteps

\* The mask is that of the table, but for the stream being added: between the
\* insertion and the fetch_or, no lock-free reader sees a wrong bit.
LEMMA MaskStep ==
  ASSUME RegistryInv, [Next]_vars
  PROVE  MaskCurrent'
<1> USE DEF RegistryInv
<1>0. /\ streams \in Seq(Stream)
      /\ cpc \in [Callers -> {"idle", "addMask", "apply"}]
  BY DEF TypeOK
<1> DEFINE MaskUpTo(n) == UNION {RangeMask(streams[i].range) : i \in 1 .. n}
<1>1. ASSUME NEW c \in Callers, NEW name \in Builtins \cup Customs,
             NEW range \in LevelRange, AddStream(c, name, range)
      PROVE  MaskCurrent'
  <2>1. ~BeingAdded /\ BeingAdded'
    BY <1>0, <1>1, RegistryAssumption
       DEF AddStream, Lock, CallerMoves, BeingAdded, MutexOwner
  <2>2. enabled_level_mask' = MaskUpTo(Len(streams))
    BY <1>1, <2>1 DEF MaskCurrent, AddStream
  <2>3. /\ Len(streams') = Len(streams) + 1 /\ Len(streams) \in Nat
        /\ \A i \in 1 .. Len(streams) : streams'[i] = streams[i]
    BY <1>0, <1>1 DEF AddStream
  <2>4. MaskUpTo(Len(streams))
          = UNION {RangeMask(streams'[i].range) : i \in 1 .. Len(streams') - 1}
    BY <2>3
  <2> QED
    BY <2>1, <2>2, <2>3, <2>4 DEF MaskCurrent
<1>2. ASSUME NEW c \in Callers, AddMask(c)
      PROVE  MaskCurrent'
  <2>1. BeingAdded /\ ~BeingAdded'
    BY <1>0, <1>2, RegistryAssumption
       DEF AddMask, Unlock, CallerMoves, BeingAdded, MutexOwner
  <2>2. /\ Len(streams) \in Nat /\ Len(streams) > 0
        /\ enabled_level_mask = MaskUpTo(Len(streams) - 1)
    BY <1>0, <2>1 DEF MaskCurrent
  <2>3. enabled_level_mask' = MaskUpTo(Len(streams))
    BY <1>2, <2>2 DEF AddMask
  <2> QED
    BY <1>2, <2>1, <2>3 DEF MaskCurrent, AddMask
<1>3. ASSUME NEW c \in Callers, ApplyConfig(c)
      PROVE  MaskCurrent'
  <2>1. ~BeingAdded'
    BY <1>0, <1>3, RegistryAssumption
       DEF ApplyConfig, Unlock, CallerMoves, BeingAdded, MutexOwner
  <2> QED
    BY <1>3, <2>1 DEF MaskCurrent, ApplyConfig, StreamMask
<1>4. CASE DestroyStreams
  <2>1. ~BeingAdded /\ ~BeingAdded'
    BY <1>4, RegistryAssumption DEF DestroyStreams, BeingAdded, MutexOwner
  <2> QED
    BY <1>4, <2>1 DEF MaskCurrent, DestroyStreams
<1>5. ASSUME NEW c \in Callers, NEW new \in Config, Configure(c, new)
      PROVE  MaskCurrent'
  <2>1. ~BeingAdded /\ ~BeingAdded'
    BY <1>0, <1>5, RegistryAssumption
       DEF Configure, Lock, CallerMoves, BeingAdded, MutexOwner
  <2> QED
    BY <1>5, <2>1 DEF MaskCurrent, Configure
<1>6. CASE UNCHANGED <<streams, enabled_level_mask, cpc>>
  BY <1>6 DEF MaskCurrent, BeingAdded
<1> QED
  BY <1>1, <1>2, <1>3, <1>4, <1>5, <1>6
     DEF Next, Render, SkipStream, WriteStream, EndFanOut, WorkerMoves, vars

-------------------------------------------------------------------------------
\* Thresholds are read back only after they were applied.
LEMMA ConfigStep ==
  ASSUME RegistryInv, [Next]_vars
  PROVE  BuiltinsFollowConfig'
<1> USE DEF RegistryInv
<1>0. /\ streams \in Seq(Stream)
      /\ cpc \in [Callers -> {"idle", "addMask", "apply"}]
  BY DEF TypeOK
<1>1. ASSUME NEW c \in Callers, NEW name \in Builtins \cup Customs,
             NEW range \in LevelRange, AddStream(c, name, range)
      PROVE  BuiltinsFollowConfig'
  <2>1. \A d \in Callers : cpc[d] # "apply"
    BY <1>0, <1>1, RegistryAssumption DEF AddStream, Lock, MutexOwner
  <2>2. /\ Len(streams') = Len(streams) + 1 /\ Len(streams) \in Nat
        /\ \A i \in 1 .. Len(streams) : streams'[i] = streams[i]
    BY <1>0, <1>1 DEF AddStream
  <2>3. streams'[Len(streams) + 1].origin = "custom"
    <3>1. streams'[Len(streams) + 1]
            = [name |-> name, range |-> range, origin |-> "custom"]
      BY <1>0, <1>1 DEF AddStream
    <3> QED
      BY <3>1
  <2> QED
    BY <1>1, <2>1, <2>2, <2>3 DEF BuiltinsFollowConfig, AddStream
<1>2. ASSUME NEW c \in Callers, ApplyConfig(c)
      PROVE  BuiltinsFollowConfig'
  BY <1>2, AppliedTable, ReconfiguredKeeps DEF BuiltinsFollowConfig, ApplyConfig
<1>3. CASE DestroyStreams
  BY <1>3 DEF BuiltinsFollowConfig, DestroyStreams
<1>4. ASSUME NEW c \in Callers, NEW new \in Config, Configure(c, new)
      PROVE  BuiltinsFollowConfig'
  <2>1. cpc'[c] = "apply"
    BY <1>0, <1>4 DEF Configure, CallerMoves
  <2> QED
    BY <1>4, <2>1 DEF BuiltinsFollowConfig, Configure
<1>5. ASSUME NEW c \in Callers, AddMask(c)
      PROVE  BuiltinsFollowConfig'
  <2>1. \A d \in Callers : cpc[d] # "apply"
    BY <1>0, <1>5, RegistryAssumption DEF AddMask, Unlock, CallerMoves, MutexOwner
  <2> QED
    BY <1>5, <2>1 DEF BuiltinsFollowConfig, AddMask
<1>6. CASE UNCHANGED <<streams, config, cpc>>
  BY <1>6 DEF BuiltinsFollowConfig
<1> QED
  BY <1>1, <1>2, <1>3, <1>4, <1>5, <1>6
     DEF Next, Render, SkipStream, WriteStream, EndFanOut, WorkerMoves, vars

-------------------------------------------------------------------------------
\* One turn of the loop handles one stream, and nobody changes the table in
\* between.
LEMMA WrittenStep ==
  ASSUME RegistryInv, [Next]_vars
  PROVE  WrittenOnceEach'
<1> USE DEF RegistryInv
<1>0. /\ streams \in Seq(Stream) /\ MaxStreams \in Nat /\ windex \in Nat
      /\ written \in [1 .. MaxStreams -> Nat]
      /\ cpc \in [Callers -> {"idle", "addMask", "apply"}]
  BY RegistryAssumption DEF TypeOK
<1>1. ASSUME NEW c \in Callers,
             \/ \E name \in Builtins \cup Customs, range \in LevelRange :
                  AddStream(c, name, range)
             \/ \E new \in Config : Configure(c, new)
             \/ AddMask(c)
             \/ ApplyConfig(c)
      PROVE  WrittenOnceEach'
  <2>1. stream_mutex \in {c, None} /\ UNCHANGED windex
    BY <1>1 DEF AddStream, Configure, AddMask, ApplyConfig, Lock, Unlock, CallerMoves,
                fanOut
  <2>2. stream_mutex # Worker
    BY <2>1, RegistryAssumption
  <2> QED
    BY <1>0, <2>1, <2>2 DEF MutexOwner, WrittenOnceEach
<1>2. CASE DestroyStreams
  <2>1. stream_mutex # Worker /\ UNCHANGED windex
    BY <1>2, RegistryAssumption DEF DestroyStreams, fanOut
  <2> QED
    BY <1>0, <2>1 DEF MutexOwner, WrittenOnceEach
<1>3. ASSUME NEW level \in AnyLevel, Render(level)
      PROVE  WrittenOnceEach'
  BY <1>0, <1>3 DEF Render, WorkerMoves, WrittenOnceEach, Accepts
<1>4. CASE SkipStream
  <2>1. /\ windex \in 1 .. Len(streams) /\ windex' = windex + 1
        /\ ~Accepts(streams[windex], wlevel)
        /\ UNCHANGED <<streams, wlevel, written>>
    BY <1>4 DEF SkipStream, WorkerMoves
  <2> QED
    BY <1>0, <2>1 DEF WrittenOnceEach, Accepts
<1>5. CASE WriteStream
  <2>1. /\ windex \in 1 .. Len(streams) /\ windex' = windex + 1
        /\ Accepts(streams[windex], wlevel)
        /\ written' = [written EXCEPT ![windex] = @ + 1]
        /\ UNCHANGED <<streams, wlevel>>
    BY <1>5 DEF WriteStream, WorkerMoves
  <2>2. windex \in 1 .. MaxStreams
    BY <1>0, <2>1 DEF UniqueNames
  <2>3. /\ written'[windex] = written[windex] + 1
        /\ \A i \in 1 .. MaxStreams : i # windex => written'[i] = written[i]
    BY <1>0, <2>1, <2>2
  <2>4. written[windex] = 0
    BY <1>0, <2>1, <2>2 DEF WrittenOnceEach
  <2> QED
    BY <1>0, <2>1, <2>2, <2>3, <2>4 DEF WrittenOnceEach, Accepts
<1>6. CASE EndFanOut
  BY <1>6 DEF EndFanOut, WrittenOnceEach
<1>7. CASE UNCHANGED vars
  BY <1>7 DEF vars, WrittenOnceEach, Accepts
<1> QED
  BY <1>1, <1>2, <1>3, <1>4, <1>5, <1>6, <1>7 DEF Next

\* configure waits for the worker's unlock.
LEMMA RenderedStep ==
  ASSUME RegistryInv, [Next]_vars
  PROVE  OneConfigPerRecord'
<1> USE DEF RegistryInv
<1>1. ASSUME NEW c \in Callers, NEW new \in Config, Configure(c, new)
      PROVE  OneConfigPerRecord'
  <2>1. stream_mutex # Worker /\ UNCHANGED windex
    BY <1>1, RegistryAssumption DEF Configure, Lock, CallerMoves, fanOut
  <2> QED
    BY <2>1 DEF MutexOwner, OneConfigPerRecord, TypeOK
<1>2. ASSUME NEW level \in AnyLevel, Render(level)
      PROVE  OneConfigPerRecord'
  BY <1>2 DEF Render, WorkerMoves, OneConfigPerRecord
<1>3. CASE SkipStream \/ WriteStream
  BY <1>3 DEF SkipStream, WriteStream, WorkerMoves, OneConfigPerRecord, TypeOK
<1>4. CASE EndFanOut
  BY <1>4 DEF EndFanOut, OneConfigPerRecord
<1>5. CASE UNCHANGED <<config, windex, rendered>>
  BY <1>5 DEF OneConfigPerRecord
<1> QED
  BY <1>1, <1>2, <1>3, <1>4, <1>5
     DEF Next, AddStream, AddMask, ApplyConfig, DestroyStreams, CallerMoves, fanOut, vars

-------------------------------------------------------------------------------
\* A created logger satisfies every part.
LEMMA Initially ==
  ASSUME Init
  PROVE  RegistryInv
<1>1. config.thresholds \in [Builtins -> LevelRange] /\ config.format \in Formats
  BY DEF Init, Config
<1>2. /\ streams \in Seq(Stream) /\ Len(streams) <= MaxStreams
      /\ \A i, j \in 1 .. Len(streams) : streams[i].name = streams[j].name => i = j
      /\ \A i \in 1 .. Len(streams) :
           /\ streams[i].name \in Builtins
           /\ streams[i].range = config.thresholds[streams[i].name]
  BY <1>1, InitialTable DEF Init
<1>3. TypeOK
  <2>1. enabled_level_mask \subseteq Levels
    BY <1>2, MaskOfTable DEF Init
  <2>2. wlevel \in AnyLevel
    BY RegistryAssumption DEF Init, AnyLevel
  <2>3. written \in [1 .. MaxStreams -> Nat]
    BY DEF Init
  <2>4. cpc \in [Callers -> {"idle", "addMask", "apply"}]
    BY DEF Init
  <2> QED
    BY <1>1, <1>2, <2>1, <2>2, <2>3, <2>4 DEF Init, TypeOK
<1>4. ~BeingAdded /\ MutexOwner
  BY RegistryAssumption DEF Init, BeingAdded, MutexOwner
<1>5. MaskCurrent
  BY <1>4 DEF Init, MaskCurrent, StreamMask
<1>6. UniqueNames /\ BuiltinsFollowConfig
  BY <1>2 DEF UniqueNames, BuiltinsFollowConfig
<1>7. WrittenOnceEach /\ OneConfigPerRecord
  BY DEF Init, WrittenOnceEach, OneConfigPerRecord
<1> QED
  BY <1>3, <1>4, <1>5, <1>6, <1>7 DEF RegistryInv

\* Every state of the registry, its lock and the fan-out satisfies every part.
THEOREM RegistryInvariance == Spec => []RegistryInv
<1>1. Init => RegistryInv
  BY Initially
<1>2. RegistryInv /\ [Next]_vars => RegistryInv'
  BY TypeStep, NamesStep, OwnerStep, MaskStep, ConfigStep, WrittenStep, RenderedStep
     DEF RegistryInv
<1> QED
  BY <1>1, <1>2, PTL DEF Spec

\* Whenever a thread asks, is_level_enabled says of a level what the fan-out
\* does with it, but for streams with a threshold above the highest level
\* (include/mp_logger.h:247, mp_logger.c:486-490).
THEOREM EnabledMeansAccepted == Spec => []EnabledIsAccepted
<1>1. ASSUME RegistryInv, NEW level \in AnyLevel
      PROVE  /\ IsLevelEnabled(level) =>
                  \E i \in Registered : Accepts(streams[i], level)
             /\ level \in Levels /\ ~IsLevelEnabled(level) =>
                  \A i \in Registered :
                    Accepts(streams[i], level) => BeyondMask(streams[i])
  <2>1. \A i \in Registered :
          /\ i \in 1 .. Len(streams)
          /\ streams[i].range.minimum_level \in 0 .. MaxLevel + 1
          /\ streams[i].range.maximum_level \in 0 .. MaxLevel + 1
    <3>1. streams \in Seq(Stream) /\ (BeingAdded => Len(streams) > 0)
      BY <1>1 DEF RegistryInv, TypeOK, MaskCurrent
    <3>2. \A i \in Registered : i \in 1 .. Len(streams)
      BY <3>1 DEF Registered
    <3>3. \A i \in 1 .. Len(streams) : streams[i].range \in LevelRange
      <4>1. \A i \in 1 .. Len(streams) : streams[i] \in Stream
        BY <3>1
      <4> QED
        BY <4>1 DEF Stream
    <3> QED
      BY <3>2, <3>3 DEF LevelRange, AnyLevel
  <2>2. level \in enabled_level_mask <=>
          \E i \in Registered : level \in RangeMask(streams[i].range)
    BY <1>1 DEF RegistryInv, MaskCurrent, Registered
  <2>3. \A i \in Registered :
          level \in RangeMask(streams[i].range) <=>
            Accepts(streams[i], level) /\ ~BeyondMask(streams[i])
    BY <2>1, RegistryAssumption DEF AnyLevel, RangeMask, Accepts, BeyondMask
  <2> QED
    BY <2>2, <2>3 DEF IsLevelEnabled
<1>2. RegistryInv => EnabledIsAccepted
  BY <1>1 DEF EnabledIsAccepted
<1> QED
  BY <1>2, RegistryInvariance, PTL

\* Each stream that takes the record's level is handed it once per fan-out.
THEOREM FanOutComplete == Spec => []WrittenOnceEach
<1>1. RegistryInv => WrittenOnceEach
  BY DEF RegistryInv
<1> QED
  BY <1>1, RegistryInvariance, PTL

\* No configure comes between two sinks of one record.
THEOREM FanOutConsistent == Spec => []OneConfigPerRecord
<1>1. RegistryInv => OneConfigPerRecord
  BY DEF RegistryInv
<1> QED
  BY <1>1, RegistryInvariance, PTL

\* Table, mask, configuration and fan-out keep their types.
THEOREM TypeCorrect == Spec => []TypeOK
<1>1. RegistryInv => TypeOK
  BY DEF RegistryInv
<1> QED
  BY <1>1, RegistryInvariance, PTL

\* However many callers search the table at a time, no name is in it twice and
\* it never outgrows its array.
THEOREM NamesUnique == Spec => []UniqueNames
<1>1. RegistryInv => UniqueNames
  BY DEF RegistryInv
<1> QED
  BY <1>1, RegistryInvariance, PTL

\* Outside configure the built-in streams have the configuration's thresholds.
THEOREM ThresholdsFollow == Spec => []BuiltinsFollowConfig
<1>1. RegistryInv => BuiltinsFollowConfig
  BY DEF RegistryInv
<1> QED
  BY <1>1, RegistryInvariance, PTL

\* No step moves, renames or, unless its name is a built-in one, changes a
\* stream that is registered.
THEOREM RegistrationsPreserved ==
  ASSUME Customs \cap Builtins = {}
  PROVE  Spec => CustomsPreserved
<1> DEFINE Kept == \A i \in 1 .. Len(streams) :
              ~destroyed' =>
                /\ streams'[i].name = streams[i].name
                /\ streams'[i].origin = streams[i].origin
                /\ streams[i].name \in Customs => streams'[i] = streams[i]
<1>1. RegistryInv /\ [Next]_vars => Kept
  <2> SUFFICES ASSUME RegistryInv, [Next]_vars,
                      NEW i \in 1 .. Len(streams), ~destroyed'
               PROVE  /\ streams'[i].name = streams[i].name
                      /\ streams'[i].origin = streams[i].origin
                      /\ streams[i].name \in Customs => streams'[i] = streams[i]
    OBVIOUS
  <2>0. streams \in Seq(Stream)
    BY DEF RegistryInv, TypeOK
  <2>1. CASE \E c \in Callers, name \in Builtins \cup Customs,
                range \in LevelRange : AddStream(c, name, range)
    BY <2>0, <2>1 DEF AddStream
  <2>2. CASE \E c \in Callers : ApplyConfig(c)
    <3>1. streams'[i] = Reconfigured(streams[i])
      BY <2>0, <2>2 DEF ApplyConfig
    <3>2. streams[i].name \notin Builtins => streams'[i] = streams[i]
      BY <3>1 DEF Reconfigured
    <3>3. /\ streams'[i].name = streams[i].name
          /\ streams'[i].origin = streams[i].origin
      BY <3>1 DEF Reconfigured
    <3> QED
      BY <3>2, <3>3
  <2>3. CASE DestroyStreams
    BY <2>3 DEF DestroyStreams
  <2>4. CASE UNCHANGED streams
    BY <2>4
  <2> QED
    BY <2>1, <2>2, <2>3, <2>4 DEF Next, vars, Configure, AddMask, Render,
       SkipStream, WriteStream, EndFanOut, WorkerMoves
<1>2. [][Kept]_vars <=> CustomsPreserved
  BY PTL DEF Kept, CustomsPreserved
<1> QED
  BY <1>1, <1>2, RegistryInvariance, PTL DEF Spec
===============================================================================
