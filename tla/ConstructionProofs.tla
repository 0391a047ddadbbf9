-------------------------- MODULE ConstructionProofs --------------------------
(***************************************************************************)
(* Proofs about Construction, for any table size, any list of names and    *)
(* any number of custom streams.                                           *)
(*                                                                         *)
(* What the make functions do comes down to three lemmas: a step that      *)
(* acquires (AcquiresKeeps), one that gives the sink up (GivesUpKeeps),    *)
(* and the end of a sink (AddStep).                                        *)
(***************************************************************************)
EXTENDS Construction, SequenceTheorems, TLAPS

\* A make function is running, the loop over the names is, or it may still.
Making == {"open", "socket", "udpState", "freeAddresses", "add"}
Building == {"split", "sink"} \cup Making
Built == {"start", "ready"}
Down == {"closeBackup", "free", "gone"}

\* Which sink a make function makes.
Named ==
  /\ pc \in Making => index <= Len(active)
  /\ pc = "open" => active[index] = "file"
  /\ pc \in {"socket", "udpState", "freeAddresses"} => active[index] = "udp"

\* The loop has passed each position below index with a stream or a warning.
Loop ==
  /\ index <= Len(active) + 1 /\ warned \subseteq 1 .. index - 1
  /\ pc = "idle" => index = 1
  /\ pc \in {"idle", "buffers", "backup"} \cup Down => streams = << >>
  /\ pc \in {"buffers", "backup", "split"} => index = 1 /\ streams = << >>
  /\ pc \in Building \cup {"start"} =>
       \A k \in 1 .. Len(streams) : streams[k].position \in 1 .. index - 1
  /\ pc \in Building \cup Built => Registered = (1 .. index - 1) \ warned
  /\ pc \in Built => index = Len(active) + 1

\* Builtin streams stand in the table in the order of their names.
InOrder ==
  \A j, k \in 1 .. Len(streams) :
    j < k /\ streams[k].position # 0 =>
      streams[j].position \in 1 .. streams[k].position - 1

\* The storage is complete before any sink is built, and nothing is freed
\* before the table is empty and the backup file closed.
Storage ==
  /\ pc \in {"backup"} \cup Building \cup Built =>
       {Own(kind) : kind \in Arrays} \subseteq held
  /\ pc \in Building \cup Built => Own("backup") \in held
  /\ pc = "free" => backup_fd = -1
  /\ pc \in {"idle", "gone"} => held = {}

\* A context that was taken over is reached from the table.
TakenOver ==
  \A c \in Customs :
    custom[c] = "logger" => \E k \in 1 .. Len(streams) : streams[k].context = c

ConstructionInv ==
  /\ TypeOK /\ OwnsExactly /\ Named /\ Loop /\ InOrder /\ Storage /\ TakenOver
  /\ pc = "ready" /\ bootstrap => worker_started

-------------------------------------------------------------------------------
(* Resources and the table.                                                *)

Sinks(h) == {r \in h : r[2] # 0}

LEMMA ContextHasPosition ==
  ASSUME NEW i, NEW r \in Context(i)
  PROVE  r = <<r[1], i>> /\ r[1] \in {"state", "handle", "socket"}
BY DEF Context

\* A sink that is not in the table has nothing there.
LEMMA ReachedElsewhere ==
  ASSUME ConstructionInv, index \notin Registered, NEW r \in Reached
  PROVE  r[2] # index
<1>1. PICK i \in Registered : r \in Context(i)
  BY DEF Reached
<1> QED
  BY <1>1, ContextHasPosition

LEMMA AppendedStream ==
  ASSUME TypeOK, NEW s \in [position : Nat, context : Customs \cup {"builtin"}],
         streams' = Append(streams, s)
  PROVE  /\ Len(streams') = Len(streams) + 1 /\ Len(streams) \in Nat
         /\ \A k \in 1 .. Len(streams) : streams'[k] = streams[k]
         /\ streams'[Len(streams) + 1] = s
         /\ Registered' = (Registered \cup {s.position}) \ {0}
<1>1. /\ Len(streams') = Len(streams) + 1 /\ Len(streams) \in Nat
      /\ \A k \in 1 .. Len(streams) : streams'[k] = streams[k]
      /\ streams'[Len(streams) + 1] = s
  BY AppendProperties, LenProperties DEF TypeOK
<1> DEFINE n == Len(streams)
           P == {streams[k].position : k \in 1 .. n}
           Q == {streams'[k].position : k \in 1 .. n + 1}
<1>2. Q = P \cup {s.position}
  <2>1. \A k \in 1 .. n + 1 : k \in 1 .. n \/ k = n + 1
    BY <1>1
  <2>2. n + 1 \in 1 .. n + 1 /\ \A k \in 1 .. n : k \in 1 .. n + 1
    BY <1>1
  <2>3. Q \subseteq P \cup {s.position}
    BY <1>1, <2>1
  <2>4. P \cup {s.position} \subseteq Q
    BY <1>1, <2>2
  <2> QED
    BY <2>3, <2>4
<1>3. Registered' = Q \ {0} /\ Registered = P \ {0}
  BY <1>1 DEF Registered
<1> QED
  BY <1>1, <1>2, <1>3

\* The table starts, and ends, with nothing in it.
LEMMA EmptyTable ==
  ASSUME streams = << >>
  PROVE  Registered = {} /\ Reached = {} /\ Len(streams) = 0 /\ InOrder
BY DEF Registered, Reached, InOrder

LEMMA ConstructionInit == Init => ConstructionInv
<1> SUFFICES ASSUME Init PROVE ConstructionInv
  OBVIOUS
<1>1. active \in Seq(Names) /\ Len(active) \in 0 .. MaxNames
  <2>1. PICK n \in 0 .. MaxNames : active \in [1 .. n -> Names]
    BY DEF Init
  <2> QED
    BY <2>1, ConstructionAssumption
<1>2. Registered = {} /\ Reached = {} /\ Len(streams) = 0 /\ InOrder
  BY EmptyTable DEF Init
<1>3. TypeOK
  <2>1. custom \in [Customs -> {"caller", "logger", "lent", "destroyed"}]
    BY DEF Init
  <2>2. streams \in Seq([position : 0 .. MaxNames,
                         context : Customs \cup {"builtin"}])
    BY DEF Init
  <2>3. /\ Len(streams) <= MaxStreams /\ index \in 1 .. MaxNames + 1
        /\ Len(active) <= MaxNames
        /\ pc = "idle" /\ backup_fd \in {-1, 0, 1}
    BY <1>1, <1>2, ConstructionAssumption DEF Init
  <2>4. held = {} /\ warned = {} /\ bootstrap \in BOOLEAN
        /\ worker_started \in BOOLEAN
    BY DEF Init
  <2> QED
    BY <1>1, <2>1, <2>2, <2>3, <2>4, Zenon DEF TypeOK
<1>4. OwnsExactly
  BY <1>2 DEF Init, OwnsExactly, UnderConstruction, Reached
<1>5. Named /\ Loop /\ Storage /\ TakenOver
  BY <1>1, <1>2, ConstructionAssumption DEF Init, Named, Loop, Storage, TakenOver, Making,
     Building, Built
<1> QED
  BY <1>2, <1>3, <1>4, <1>5 DEF ConstructionInv, Init

-------------------------------------------------------------------------------
(* The make functions.                                                     *)

\* What is left of type correctness when the caller's side stays.
LEMMA BuildType ==
  ASSUME TypeOK, BuildUnchanged, held' \subseteq Resource,
         pc' \in {"destroyStreams"} \cup Building \cup Built,
         index' \in 1 .. MaxNames + 1, warned' \subseteq 1 .. MaxNames,
         streams' \in Seq([position : 0 .. MaxNames,
                           context : Customs \cup {"builtin"}]),
         Len(streams') <= MaxStreams
  PROVE  TypeOK'
<1>1. pc' \in {"idle", "buffers", "backup", "split", "sink", "open", "socket",
               "udpState", "freeAddresses", "add", "start", "ready",
               "destroyStreams", "closeBackup", "free", "gone"}
  BY DEF Building, Making, Built
<1>2. /\ bootstrap' \in BOOLEAN /\ worker_started' \in BOOLEAN
      /\ active' \in Seq(Names) /\ Len(active') <= MaxNames
      /\ backup_fd' \in {-1, 0, 1}
      /\ custom' \in [Customs -> {"caller", "logger", "lent", "destroyed"}]
  BY Zenon DEF TypeOK, BuildUnchanged
<1> QED
  BY <1>1, <1>2, Zenon DEF TypeOK

\* OwnsExactly with names for its two sides.
LEMMA SinksHeld ==
  ASSUME OwnsExactly PROVE Sinks(held) = Reached \cup UnderConstruction
BY DEF OwnsExactly, Sinks

\* A position that is being built.
LEMMA PositionBounds ==
  ASSUME TypeOK, index <= Len(active)
  PROVE  /\ index \in 1 .. Len(active) /\ index \in 1 .. MaxNames
         /\ Len(active) \in Nat /\ Len(active) <= MaxNames /\ MaxNames \in Nat
<1>1. Len(active) \in Nat /\ Len(active) <= MaxNames /\ MaxNames \in Nat
  BY ConstructionAssumption, LenProperties DEF TypeOK
<1>2. index \in 1 .. MaxNames + 1
  BY DEF TypeOK
<1> QED
  BY <1>1, <1>2

\* A step within the loop that leaves the table alone keeps everything, if what
\* it does to the sink under construction is what the next step expects.
LEMMA SinkKeeps ==
  ASSUME ConstructionInv, BuildUnchanged, streams' = streams,
         pc \in {"sink"} \cup Making, pc' \in {"sink"} \cup Making,
         index \in 1 .. Len(active), held' \subseteq Resource,
         \A r \in Resource : r[2] = 0 => (r \in held' <=> r \in held),
         Sinks(held') = Reached \cup UnderConstruction',
         \/ index' = index /\ warned' = warned
         \/ index' = index + 1 /\ warned' = warned \cup {index},
         Named'
  PROVE  ConstructionInv'
<1>1. /\ TypeOK /\ OwnsExactly /\ Loop /\ InOrder /\ Storage /\ TakenOver
      /\ Len(active) \in Nat /\ Len(active) <= MaxNames /\ MaxNames \in Nat
      /\ Len(streams) <= MaxStreams /\ warned \subseteq 1 .. MaxNames
  <2>1. TypeOK /\ index <= Len(active)
    BY LenProperties DEF ConstructionInv, TypeOK
  <2>2. Len(streams) <= MaxStreams /\ warned \subseteq 1 .. MaxNames
    BY <2>1 DEF TypeOK
  <2> QED
    BY <2>1, <2>2, PositionBounds DEF ConstructionInv
<1>2. TypeOK'
  <2>1. index' \in 1 .. MaxNames + 1 /\ warned' \subseteq 1 .. MaxNames
    <3>1. index \in 1 .. MaxNames /\ index' \in {index, index + 1}
      BY <1>1
    <3>2. warned' \subseteq warned \cup {index}
      OBVIOUS
    <3> QED
      BY <1>1, <3>1, <3>2
  <2>2. pc' \in {"destroyStreams"} \cup Building \cup Built
    BY DEF Building
  <2>3. streams' \in Seq([position : 0 .. MaxNames,
                          context : Customs \cup {"builtin"}])
    BY <1>1 DEF TypeOK
  <2> QED
    BY <1>1, <2>1, <2>2, <2>3, BuildType
<1>3. Registered' = Registered
  BY DEF Registered
<1>4. Reached' = Reached
  BY <1>3 DEF Reached, Context, BuildUnchanged
<1>5. OwnsExactly'
  <2>1. {r \in held' : r[2] # 0} = Reached' \cup UnderConstruction'
    BY <1>4 DEF Sinks
  <2>2. \A kind \in Arrays \cup {"logger", "locks", "backup"} :
          Own(kind) \in held' <=> Own(kind) \in held
    BY DEF Own, Resource
  <2>3. pc # "idle" /\ pc # "gone" /\ pc' # "idle" /\ pc' # "gone"
    BY DEF Making
  <2>4. Own("backup") \in held' <=> Own("backup") \in held
    BY <2>2
  <2>5. {Own("logger"), Own("locks")} \subseteq held'
    <3>1. {Own("logger"), Own("locks")} \subseteq held
      BY <1>1, <2>3 DEF OwnsExactly
    <3> QED
      BY <2>2, <3>1
  <2>6. backup_fd' = backup_fd /\ backup_fd # 0
    BY <1>1, <2>3 DEF OwnsExactly, BuildUnchanged
  <2>7. backup_fd = 1 <=> Own("backup") \in held
    BY <1>1 DEF OwnsExactly
  <2> QED
    BY <2>1, <2>4, <2>5, <2>6, <2>7, Zenon DEF OwnsExactly
<1>6. Loop'
  <2>1. /\ warned \subseteq 1 .. index - 1
        /\ \A k \in 1 .. Len(streams) : streams[k].position \in 1 .. index - 1
        /\ Registered = (1 .. index - 1) \ warned
    BY <1>1 DEF Loop, Building
  <2>2. /\ index' <= Len(active') + 1 /\ warned' \subseteq 1 .. index' - 1
        /\ 1 .. index - 1 \subseteq 1 .. index' - 1
    <3>1. CASE index' = index /\ warned' = warned
      BY <1>1, <2>1, <3>1 DEF BuildUnchanged
    <3>2. CASE index' = index + 1 /\ warned' = warned \cup {index}
      <4>1. index \in Int /\ (index + 1) - 1 = index
        OBVIOUS
      <4>2. 1 .. index - 1 \subseteq 1 .. index /\ index \in 1 .. index
        BY <4>1
      <4>3. warned' \subseteq 1 .. index
        BY <2>1, <3>2, <4>2
      <4> QED
        BY <1>1, <3>2, <4>1, <4>2, <4>3 DEF BuildUnchanged
    <3> QED
      BY <3>1, <3>2
  <2>3. Registered' = (1 .. index' - 1) \ warned'
    <3>1. (1 .. index) \ {index} = 1 .. index - 1 /\ index - 1 \in Int
          /\ (index + 1) - 1 = index
      OBVIOUS
    <3> QED
      BY <1>3, <2>1, <3>1
  <2>4. \A k \in 1 .. Len(streams') : streams'[k].position \in 1 .. index' - 1
    BY <2>1, <2>2
  <2>5. pc' \notin {"idle", "buffers", "backup", "split"} \cup Down \cup Built
    BY DEF Making, Down, Built
  <2> QED
    BY <2>2, <2>3, <2>4, <2>5 DEF Loop
<1>7. InOrder'
  BY <1>1 DEF InOrder
<1>8. Storage'
  <2>1. \A kind \in Arrays \cup {"logger", "locks", "backup"} :
          Own(kind) \in held' <=> Own(kind) \in held
    BY DEF Own, Resource
  <2> QED
    BY <1>1, <2>1 DEF Storage, Building, Making, Built
<1>9. TakenOver'
  BY <1>1 DEF TakenOver, BuildUnchanged
<1> QED
  BY <1>2, <1>5, <1>6, <1>7, <1>8, <1>9 DEF ConstructionInv, Making

\* Acquiring adds to the sink at index and to nothing else.
LEMMA AcquiresKeeps ==
  ASSUME ConstructionInv, NEW from \in {"sink"} \cup Making, NEW to \in Making,
         NEW name, NEW kinds \in SUBSET {"state", "handle", "socket", "addresses"},
         Acquires(from, name, kinds, to),
         UnderConstruction' = UnderConstruction \cup {Of(kind) : kind \in kinds},
         Named'
  PROVE  ConstructionInv'
<1>1. /\ index \in 1 .. Len(active) /\ index \in 1 .. MaxNames
      /\ Sinks(held) = Reached \cup UnderConstruction
      /\ held \subseteq Resource
  <2>1. TypeOK /\ OwnsExactly /\ index <= Len(active)
    BY DEF Acquires, ConstructionInv
  <2>2. held \subseteq Resource
    BY <2>1 DEF TypeOK
  <2>3. Sinks(held) = Reached \cup UnderConstruction
    BY <2>1, SinksHeld
  <2> QED
    BY <2>1, <2>2, <2>3, PositionBounds
<1>2. \A kind \in kinds : Of(kind) \in Resource /\ Of(kind)[2] # 0
  <2>1. ASSUME NEW kind \in kinds PROVE <<kind, index>> \in Resource
    BY <1>1 DEF Resource
  <2>2. \A kind \in kinds : Of(kind) = <<kind, index>> /\ index # 0
    BY <1>1 DEF Of
  <2> QED
    BY <2>1, <2>2
<1>3. held' = held \cup {Of(kind) : kind \in kinds}
  BY DEF Acquires
<1>4. Sinks(held') = Reached \cup UnderConstruction'
  BY <1>1, <1>2, <1>3 DEF Sinks
<1> QED
  BY <1>1, <1>2, <1>3, <1>4, SinkKeeps DEF Acquires

\* Giving up releases what was acquired for the sink, and nothing else.
LEMMA GivesUpKeeps ==
  ASSUME ConstructionInv, NEW from \in {"sink"} \cup Making, NEW name, NEW kinds,
         GivesUp(from, name, kinds),
         UnderConstruction = {Of(kind) : kind \in kinds}
  PROVE  ConstructionInv'
<1>1. /\ index \in 1 .. Len(active) /\ index \in 1 .. MaxNames
      /\ Sinks(held) = Reached \cup UnderConstruction
      /\ held \subseteq Resource
      /\ pc \in {"sink"} \cup Making /\ Loop
  <2>1. /\ TypeOK /\ OwnsExactly /\ Loop /\ index <= Len(active)
        /\ pc \in {"sink"} \cup Making
    BY DEF GivesUp, ConstructionInv
  <2>2. held \subseteq Resource
    BY <2>1 DEF TypeOK
  <2>3. Sinks(held) = Reached \cup UnderConstruction
    BY <2>1, SinksHeld
  <2> QED
    BY <2>1, <2>2, <2>3, PositionBounds
<1>2. \A kind \in kinds : Of(kind)[2] = index
  BY DEF Of
<1>3. index \notin Registered
  BY <1>1 DEF Loop, Building
<1>4. \A r \in Reached : r \notin {Of(kind) : kind \in kinds}
  BY <1>2, <1>3, ReachedElsewhere
<1>5. held' = held \ {Of(kind) : kind \in kinds} /\ pc' = "sink"
  BY DEF GivesUp
<1>6. UnderConstruction' = {}
  BY <1>5 DEF UnderConstruction
<1>7. Sinks(held') = Reached \cup UnderConstruction'
  BY <1>1, <1>4, <1>5, <1>6 DEF Sinks
<1>8. \A r \in Resource : r[2] = 0 => (r \in held' <=> r \in held)
  BY <1>1, <1>2, <1>5
<1>9. Named'
  BY <1>5 DEF Named, Making
<1> QED
  BY <1>1, <1>5, <1>7, <1>8, <1>9, SinkKeeps DEF GivesUp

\* Every make function, step by step.
LEMMA MakeStep ==
  ASSUME ConstructionInv,
         \/ MakeStdioStream \/ MakeStdioStreamFails
         \/ FileState \/ FileStateFails \/ FileOpen \/ FileOpenFails
         \/ UdpResolve \/ UdpResolveFails \/ UdpSocket \/ UdpSocketFails
         \/ UdpState \/ UdpStateFails
  PROVE  ConstructionInv'
<1> USE DEF Making
<1>0. /\ \A name \in StdioNames : name \notin {"file", "udp", "other"}
      /\ \A from, name, kinds, to : Acquires(from, name, kinds, to) =>
           /\ pc = from /\ pc' = to /\ index <= Len(active)
           /\ active[index] \in name /\ active' = active /\ index' = index
      /\ \A from, name, kinds : GivesUp(from, name, kinds) => pc = from
  BY ConstructionAssumption DEF Acquires, GivesUp, BuildUnchanged
<1>1. CASE MakeStdioStream
  <2>1. /\ Acquires("sink", StdioNames, {"state"}, "add")
        /\ pc = "sink" /\ pc' = "add" /\ index <= Len(active)
        /\ active[index] \in StdioNames /\ active' = active /\ index' = index
    BY <1>0, <1>1 DEF MakeStdioStream
  <2>2. UnderConstruction' = UnderConstruction \cup {Of(k) : k \in {"state"}}
    BY <1>0, <2>1 DEF UnderConstruction, Context, Of
  <2>3. Named'
    BY <2>1 DEF Named
  <2> QED
    BY <2>1, <2>2, <2>3, AcquiresKeeps
<1>2. CASE FileState
  <2>1. /\ Acquires("sink", {"file"}, {"state"}, "open")
        /\ pc = "sink" /\ pc' = "open" /\ index <= Len(active)
        /\ active[index] \in {"file"} /\ active' = active /\ index' = index
    BY <1>0, <1>2 DEF FileState
  <2>2. UnderConstruction' = UnderConstruction \cup {Of(k) : k \in {"state"}}
    BY <2>1 DEF UnderConstruction, Of
  <2>3. Named'
    BY <2>1 DEF Named
  <2> QED
    BY <2>1, <2>2, <2>3, AcquiresKeeps
<1>3. CASE FileOpen
  <2>1. /\ Acquires("open", {"file"}, {"handle"}, "add")
        /\ pc = "open" /\ pc' = "add" /\ index <= Len(active)
        /\ active[index] \in {"file"} /\ active' = active /\ index' = index
    BY <1>0, <1>3 DEF FileOpen
  <2>2. UnderConstruction' = UnderConstruction \cup {Of(k) : k \in {"handle"}}
    BY <2>1 DEF UnderConstruction, Context, Of
  <2>3. Named'
    BY <2>1 DEF Named
  <2> QED
    BY <2>1, <2>2, <2>3, AcquiresKeeps
<1>4. CASE UdpResolve
  <2>1. /\ Acquires("sink", {"udp"}, {"addresses"}, "socket")
        /\ pc = "sink" /\ pc' = "socket" /\ index <= Len(active)
        /\ active[index] \in {"udp"} /\ active' = active /\ index' = index
    BY <1>0, <1>4 DEF UdpResolve
  <2>2. UnderConstruction' = UnderConstruction \cup {Of(k) : k \in {"addresses"}}
    BY <2>1 DEF UnderConstruction, Of
  <2>3. Named'
    BY <2>1 DEF Named
  <2> QED
    BY <2>1, <2>2, <2>3, AcquiresKeeps
<1>5. CASE UdpSocket
  <2>1. /\ Acquires("socket", {"udp"}, {"socket"}, "udpState")
        /\ pc = "socket" /\ pc' = "udpState" /\ index <= Len(active)
        /\ active[index] \in {"udp"} /\ active' = active /\ index' = index
    BY <1>0, <1>5 DEF UdpSocket
  <2>2. UnderConstruction' = UnderConstruction \cup {Of(k) : k \in {"socket"}}
    BY <2>1 DEF UnderConstruction, Of
  <2>3. Named'
    BY <2>1 DEF Named
  <2> QED
    BY <2>1, <2>2, <2>3, AcquiresKeeps
<1>6. CASE UdpState
  <2>1. /\ Acquires("udpState", {"udp"}, {"state"}, "freeAddresses")
        /\ pc = "udpState" /\ pc' = "freeAddresses" /\ index <= Len(active)
        /\ active[index] \in {"udp"} /\ active' = active /\ index' = index
    BY <1>0, <1>6 DEF UdpState
  <2>2. UnderConstruction' = UnderConstruction \cup {Of(k) : k \in {"state"}}
    BY <2>1 DEF UnderConstruction, Of
  <2>3. Named'
    BY <2>1 DEF Named
  <2> QED
    BY <2>1, <2>2, <2>3, AcquiresKeeps
<1>7. CASE MakeStdioStreamFails \/ FileStateFails \/ UdpResolveFails
  <2>1. PICK name : GivesUp("sink", name, {}) /\ pc = "sink"
    BY <1>0, <1>7 DEF MakeStdioStreamFails, FileStateFails, UdpResolveFails
  <2>2. UnderConstruction = {Of(k) : k \in {}}
    BY <2>1 DEF UnderConstruction
  <2> QED
    BY <2>1, <2>2, GivesUpKeeps
<1>8. CASE FileOpenFails
  <2>1. GivesUp("open", {"file"}, {"state"}) /\ pc = "open"
    BY <1>0, <1>8 DEF FileOpenFails
  <2>2. UnderConstruction = {Of(k) : k \in {"state"}}
    BY <2>1 DEF UnderConstruction
  <2> QED
    BY <2>1, <2>2, GivesUpKeeps
<1>9. CASE UdpSocketFails
  <2>1. GivesUp("socket", {"udp"}, {"addresses"}) /\ pc = "socket"
    BY <1>0, <1>9 DEF UdpSocketFails
  <2>2. UnderConstruction = {Of(k) : k \in {"addresses"}}
    BY <2>1 DEF UnderConstruction
  <2> QED
    BY <2>1, <2>2, GivesUpKeeps
<1>10. CASE UdpStateFails
  <2>1. GivesUp("udpState", {"udp"}, {"socket", "addresses"}) /\ pc = "udpState"
    BY <1>0, <1>10 DEF UdpStateFails
  <2>2. UnderConstruction = {Of(k) : k \in {"socket", "addresses"}}
    BY <2>1 DEF UnderConstruction
  <2> QED
    BY <2>1, <2>2, GivesUpKeeps
<1> QED
  BY <1>1, <1>2, <1>3, <1>4, <1>5, <1>6, <1>7, <1>8, <1>9, <1>10

\* The addresses are gone before the stream is added.
LEMMA FreeAddressesStep ==
  ASSUME ConstructionInv, UdpFreeAddresses
  PROVE  ConstructionInv'
<1>1. /\ pc = "freeAddresses" /\ pc' = "add" /\ active' = active
      /\ index' = index /\ index <= Len(active) /\ active[index] = "udp"
      /\ held' = held \ {Of("addresses")} /\ TypeOK /\ OwnsExactly /\ Loop
  BY DEF UdpFreeAddresses, BuildUnchanged, ConstructionInv, Named, Making
<1>2. /\ index \in 1 .. Len(active) /\ index \in 1 .. MaxNames
      /\ held \subseteq Resource
      /\ Sinks(held) = Reached \cup UnderConstruction
  BY <1>1, PositionBounds, SinksHeld DEF TypeOK
<1>3. index \notin Registered
  BY <1>1, <1>2 DEF Loop, Building, Making
<1>4. Of("addresses") \notin Reached /\ Of("addresses")[2] = index
  BY <1>3, ReachedElsewhere DEF Of
<1>5. UnderConstruction' = UnderConstruction \ {Of("addresses")}
  BY <1>1 DEF UnderConstruction, Context, Of
<1>6. Sinks(held') = Reached \cup UnderConstruction'
  BY <1>1, <1>2, <1>4, <1>5 DEF Sinks
<1>7. \A r \in Resource : r[2] = 0 => (r \in held' <=> r \in held)
  BY <1>1, <1>2, <1>4
<1>8. Named'
  BY <1>1 DEF Named
<1>9. /\ pc \in {"sink"} \cup Making /\ pc' \in {"sink"} \cup Making
      /\ held' \subseteq Resource
  BY <1>1, <1>2 DEF Making
<1> QED
  BY <1>1, <1>2, <1>6, <1>7, <1>8, <1>9, SinkKeeps DEF UdpFreeAddresses

-------------------------------------------------------------------------------
(* The end of a sink, and the end of everything.                           *)

\* Whoever leaves for the teardown has the table's sinks and no other.
LEMMA GivenUp ==
  ASSUME ConstructionInv, pc \notin {"idle"} \cup Down, pc' = "destroyStreams",
         UNCHANGED <<bootstrap, active, index, backup_fd, streams, warned, custom>>,
         worker_started' \in BOOLEAN, held' \subseteq Resource,
         \A kind \in {"logger", "locks", "backup"} :
           Own(kind) \in held' <=> Own(kind) \in held,
         Sinks(held') = Reached
  PROVE  ConstructionInv'
<1>1. TypeOK /\ OwnsExactly /\ Loop /\ InOrder /\ TakenOver
  BY DEF ConstructionInv
<1>2. TypeOK'
  <2>1. /\ bootstrap' \in BOOLEAN /\ index' \in 1 .. MaxNames + 1
        /\ active' \in Seq(Names) /\ Len(active') <= MaxNames
        /\ backup_fd' \in {-1, 0, 1} /\ warned' \subseteq 1 .. MaxNames
        /\ streams' \in Seq([position : 0 .. MaxNames,
                             context : Customs \cup {"builtin"}])
        /\ Len(streams') <= MaxStreams
        /\ custom' \in [Customs -> {"caller", "logger", "lent", "destroyed"}]
    BY <1>1, Zenon DEF TypeOK
  <2> QED
    BY <2>1, Zenon DEF TypeOK
<1>3. OwnsExactly'
  <2>1. Reached' = Reached
    BY DEF Reached, Registered, Context
  <2>2. UnderConstruction' = {}
    BY DEF UnderConstruction
  <2>3. {r \in held' : r[2] # 0} = Reached' \cup UnderConstruction'
    BY <2>1, <2>2 DEF Sinks
  <2>4. pc # "idle" /\ pc # "gone" /\ pc' # "idle" /\ pc' # "gone"
    BY DEF Down
  <2>5. {Own("logger"), Own("locks")} \subseteq held /\ backup_fd # 0
    BY <1>1, <2>4 DEF OwnsExactly
  <2>6. backup_fd = 1 <=> Own("backup") \in held
    BY <1>1 DEF OwnsExactly
  <2>7. backup_fd' = backup_fd /\ (Own("backup") \in held' <=> Own("backup") \in held)
        /\ {Own("logger"), Own("locks")} \subseteq held'
    BY <2>5
  <2> QED
    BY <2>3, <2>4, <2>5, <2>6, <2>7, Zenon DEF OwnsExactly
<1>4. Loop' /\ Named' /\ Storage'
  BY <1>1 DEF Loop, Named, Storage, Making, Building, Built, Down
<1>5. InOrder' /\ TakenOver'
  BY <1>1 DEF InOrder, TakenOver
<1> QED
  BY <1>2, <1>3, <1>4, <1>5 DEF ConstructionInv

LEMMA GivingUpStep ==
  ASSUME ConstructionInv,
         \/ BackupOpenFails \/ UnknownName \/ BootstrapStartFails \/ Destroy
         \/ (SplitStreamList /\ pc' = "destroyStreams")
  PROVE  ConstructionInv'
<1>1. /\ pc \in {"backup", "split", "sink", "start", "ready"}
      /\ pc' = "destroyStreams" /\ held' = held
      /\ UNCHANGED <<bootstrap, active, index, backup_fd, streams, warned, custom>>
      /\ worker_started' \in {worker_started, FALSE}
  BY DEF BackupOpenFails, SplitStreamList, UnknownName, BootstrapStartFails,
     Destroy, BuildUnchanged, LoggerUnchanged
<1>2. TypeOK /\ OwnsExactly
  BY DEF ConstructionInv
<1>3. held \subseteq Resource /\ worker_started \in BOOLEAN
  BY <1>2 DEF TypeOK
<1>4. UnderConstruction = {}
  BY <1>1 DEF UnderConstruction
<1>5. Sinks(held') = Reached
  BY <1>1, <1>2, <1>4, SinksHeld
<1>6. pc \notin {"idle"} \cup Down
  BY <1>1 DEF Down
<1>7. worker_started' \in BOOLEAN
  BY <1>1, <1>3
<1> QED
  BY <1>1, <1>3, <1>5, <1>6, <1>7, GivenUp

\* A second stream of one name: its context is destroyed, and nothing else.
LEMMA AddRefusedStep ==
  ASSUME ConstructionInv, AddBuiltinRefused
  PROVE  ConstructionInv'
<1>1. /\ pc = "add" /\ pc' = "destroyStreams" /\ index <= Len(active)
      /\ held' = held \ Context(index) /\ TypeOK /\ OwnsExactly /\ Loop
      /\ UNCHANGED <<bootstrap, active, index, backup_fd, streams, warned, custom,
                     worker_started>>
  BY DEF AddBuiltinRefused, BuildUnchanged, ConstructionInv, Named, Making
<1>2. /\ index \in 1 .. Len(active) /\ index \in 1 .. MaxNames
      /\ held \subseteq Resource /\ worker_started \in BOOLEAN
      /\ Sinks(held) = Reached \cup UnderConstruction
  BY <1>1, PositionBounds, SinksHeld DEF TypeOK
<1>3. index \notin Registered
  BY <1>1, <1>2 DEF Loop, Building, Making
<1>4. \A r \in Reached : r \notin Context(index)
  BY <1>3, ReachedElsewhere, ContextHasPosition
<1>5. UnderConstruction = Context(index)
  BY <1>1 DEF UnderConstruction
<1>6. Sinks(held') = Reached
  BY <1>1, <1>2, <1>4, <1>5 DEF Sinks
<1>7. \A r \in Context(index) : r[2] = index
  BY ContextHasPosition
<1>8. \A kind \in {"logger", "locks", "backup"} :
        Own(kind) \in held' <=> Own(kind) \in held
  BY <1>1, <1>2, <1>7 DEF Own
<1>9. pc \notin {"idle"} \cup Down /\ held' \subseteq Resource
  BY <1>1, <1>2 DEF Down
<1> QED
  BY <1>1, <1>2, <1>6, <1>8, <1>9, GivenUp

\* The sink that was built is the table's from here on.
LEMMA AddStep ==
  ASSUME ConstructionInv, AddBuiltin
  PROVE  ConstructionInv'
<1> DEFINE s == [position |-> index, context |-> "builtin"]
<1>1. /\ pc = "add" /\ pc' = "sink" /\ index <= Len(active)
      /\ TypeOK /\ OwnsExactly /\ Loop /\ InOrder /\ Storage /\ TakenOver
      /\ streams' = Append(streams, s) /\ Len(streams) < MaxStreams
      /\ index' = index + 1 /\ BuildUnchanged
      /\ UNCHANGED <<held, warned, bootstrap, active, backup_fd, custom>>
  BY DEF AddBuiltin, BuildUnchanged, ConstructionInv, Named, Making
<1>2. /\ index \in 1 .. Len(active) /\ index \in 1 .. MaxNames
      /\ Len(active) \in Nat /\ Len(active) <= MaxNames /\ MaxNames \in Nat
      /\ s \in [position : 0 .. MaxNames, context : Customs \cup {"builtin"}]
  BY <1>1, PositionBounds
<1>3. /\ Len(streams') = Len(streams) + 1 /\ Len(streams) \in Nat
      /\ \A k \in 1 .. Len(streams) : streams'[k] = streams[k]
      /\ streams'[Len(streams) + 1] = s
      /\ Registered' = (Registered \cup {index}) \ {0}
  <2>1. s \in [position : Nat, context : Customs \cup {"builtin"}]
    BY <1>2
  <2> QED
    BY <1>1, <2>1, AppendedStream
<1>4. /\ warned \subseteq 1 .. index - 1
      /\ \A k \in 1 .. Len(streams) : streams[k].position \in 1 .. index - 1
      /\ Registered = (1 .. index - 1) \ warned
  BY <1>1 DEF Loop, Building, Making
<1>5. Registered' = Registered \cup {index}
  BY <1>2, <1>3 DEF Registered
<1>6. TypeOK'
  <2>1. /\ held' \subseteq Resource /\ warned' \subseteq 1 .. MaxNames
        /\ streams \in Seq([position : 0 .. MaxNames,
                            context : Customs \cup {"builtin"}])
    BY <1>1 DEF TypeOK
  <2>2. streams' \in Seq([position : 0 .. MaxNames,
                          context : Customs \cup {"builtin"}])
    BY <1>1, <1>2, <2>1, AppendProperties
  <2>3. Len(streams') <= MaxStreams /\ index' \in 1 .. MaxNames + 1
    BY <1>1, <1>2, <1>3, ConstructionAssumption
  <2>4. pc' \in {"destroyStreams"} \cup Building \cup Built
    BY <1>1 DEF Building
  <2> QED
    BY <1>1, <2>1, <2>2, <2>3, <2>4, BuildType
<1>7. OwnsExactly'
  <2>1. UnderConstruction = Context(index) /\ UnderConstruction' = {}
    BY <1>1 DEF UnderConstruction
  <2>2. \A i : Context(i)' = Context(i)
    BY <1>1 DEF Context
  <2>3. Reached' = Reached \cup Context(index)
    BY <1>5, <2>2 DEF Reached
  <2>4. {r \in held' : r[2] # 0} = Reached' \cup UnderConstruction'
    BY <1>1, <2>1, <2>3 DEF OwnsExactly
  <2> QED
    BY <1>1, <2>4 DEF OwnsExactly
<1>8. Loop'
  <2>1. index \in Int /\ (index + 1) - 1 = index /\ index \in 1 .. index
        /\ 1 .. index - 1 \subseteq 1 .. index
        /\ 1 .. index = (1 .. index - 1) \cup {index} /\ index \notin 1 .. index - 1
    BY <1>2
  <2>2. Registered' = (1 .. index' - 1) \ warned'
    BY <1>1, <1>4, <1>5, <2>1
  <2>3. \A k \in 1 .. Len(streams') : streams'[k].position \in 1 .. index' - 1
    <3>1. \A k \in 1 .. Len(streams') : k \in 1 .. Len(streams) \/ k = Len(streams) + 1
      BY <1>3
    <3> QED
      BY <1>1, <1>3, <1>4, <2>1, <3>1
  <2>4. index' <= Len(active') + 1 /\ warned' \subseteq 1 .. index' - 1
    BY <1>1, <1>2, <1>4, <2>1
  <2> QED
    BY <1>1, <2>2, <2>3, <2>4 DEF Loop, Built, Down
<1>9. InOrder'
  <2> SUFFICES ASSUME NEW j \in 1 .. Len(streams'), NEW k \in 1 .. Len(streams'),
                      j < k, streams'[k].position # 0
               PROVE  streams'[j].position \in 1 .. streams'[k].position - 1
    BY DEF InOrder
  <2>1. j \in 1 .. Len(streams)
    BY <1>3
  <2>2. CASE k \in 1 .. Len(streams)
    BY <1>1, <1>3, <2>1, <2>2 DEF InOrder
  <2>3. CASE k = Len(streams) + 1
    BY <1>3, <1>4, <2>1, <2>3
  <2> QED
    BY <1>3, <2>2, <2>3
<1>10. Named' /\ Storage'
  BY <1>1 DEF Named, Storage, Making, Building, Built
<1>11. TakenOver'
  <2>1. \A k \in 1 .. Len(streams) : k \in 1 .. Len(streams')
    BY <1>3
  <2> QED
    BY <1>1, <1>3, <2>1 DEF TakenOver
<1> QED
  BY <1>1, <1>6, <1>7, <1>8, <1>9, <1>10, <1>11 DEF ConstructionInv

-------------------------------------------------------------------------------
(* Before the sinks.                                                       *)

\* What a step says of the variables it leaves alone, kept with their types.
LEMMA TypeParts ==
  ASSUME TypeOK
  PROVE  /\ bootstrap \in BOOLEAN /\ worker_started \in BOOLEAN
         /\ active \in Seq(Names) /\ Len(active) <= MaxNames
         /\ Len(active) \in Nat /\ MaxNames \in Nat /\ MaxStreams \in Nat
         /\ index \in 1 .. MaxNames + 1 /\ held \subseteq Resource
         /\ backup_fd \in {-1, 0, 1} /\ warned \subseteq 1 .. MaxNames
         /\ streams \in Seq([position : 0 .. MaxNames,
                             context : Customs \cup {"builtin"}])
         /\ Len(streams) <= MaxStreams
         /\ custom \in [Customs -> {"caller", "logger", "lent", "destroyed"}]
<1>1. Len(active) \in Nat
  BY LenProperties DEF TypeOK
<1> QED
  BY <1>1, ConstructionAssumption, Zenon DEF TypeOK

\* The logger's own resources are nobody's sink.
LEMMA OwnResources ==
  /\ \A kind \in Arrays \cup {"logger", "locks", "backup"} :
       Own(kind) \in Resource /\ Own(kind)[2] = 0
  /\ \A k, l : Own(k) = Own(l) <=> k = l
  /\ "backup" \notin Arrays /\ "logger" \notin Arrays /\ "locks" \notin Arrays
BY DEF Own, Resource, Arrays

LEMMA CreateStep ==
  ASSUME ConstructionInv, CreateLogger \/ CreateRefused
  PROVE  ConstructionInv'
<1>1. /\ pc = "idle" /\ TypeOK /\ OwnsExactly /\ Loop /\ Storage /\ TakenOver
      /\ InOrder
      /\ UNCHANGED <<bootstrap, active, index, streams, warned, custom, worker_started>>
  BY DEF CreateLogger, CreateRefused, ConstructionInv
<1>2. \/ /\ pc' = "buffers" /\ backup_fd' = -1
         /\ held' = {Own("logger"), Own("locks")}
      \/ pc' = "gone" /\ backup_fd' = backup_fd /\ held' = held
  BY DEF CreateLogger, CreateRefused
<1>3. held = {} /\ streams = << >> /\ index = 1
  BY <1>1 DEF Storage, Loop
<1>4. TypeOK'
  <2>1. held' \subseteq Resource /\ backup_fd' \in {-1, 0, 1}
    BY <1>1, <1>2, <1>3, TypeParts, OwnResources
  <2>2. pc' \in {"buffers", "gone"}
    BY <1>2
  <2>3. /\ bootstrap' \in BOOLEAN /\ worker_started' \in BOOLEAN
        /\ active' \in Seq(Names) /\ Len(active') <= MaxNames
        /\ index' \in 1 .. MaxNames + 1 /\ warned' \subseteq 1 .. MaxNames
        /\ streams' \in Seq([position : 0 .. MaxNames,
                             context : Customs \cup {"builtin"}])
        /\ Len(streams') <= MaxStreams
        /\ custom' \in [Customs -> {"caller", "logger", "lent", "destroyed"}]
    BY <1>1, Zenon DEF TypeOK
  <2> QED
    BY <2>1, <2>2, <2>3, Zenon DEF TypeOK
<1>5. OwnsExactly'
  <2>1. Reached' = {} /\ UnderConstruction' = {}
    BY <1>1, <1>2, <1>3, EmptyTable DEF UnderConstruction, Reached, Registered
  <2>2. {r \in held' : r[2] # 0} = {}
    BY <1>2, <1>3, OwnResources
  <2>3. backup_fd = 1 <=> Own("backup") \in held
    BY <1>1 DEF OwnsExactly
  <2>4. Own("backup") \notin {Own("logger"), Own("locks")}
    BY OwnResources
  <2>5. CASE pc' = "buffers"
    BY <1>2, <2>1, <2>2, <2>4, <2>5 DEF OwnsExactly
  <2>6. CASE pc' = "gone"
    BY <1>2, <2>1, <2>2, <2>3, <2>6 DEF OwnsExactly
  <2> QED
    BY <1>2, <2>5, <2>6
<1>6. Loop' /\ Named' /\ Storage'
  BY <1>1, <1>2, <1>3 DEF Loop, Named, Storage, Making, Building, Built, Down
<1>7. InOrder' /\ TakenOver'
  BY <1>1 DEF InOrder, TakenOver
<1> QED
  BY <1>2, <1>4, <1>5, <1>6, <1>7 DEF ConstructionInv

\* Storage and the backup file: the steps that go on.
LEMMA PreparesKeeps ==
  ASSUME ConstructionInv, pc \in {"buffers", "backup", "split"},
         NEW kinds \in SUBSET (Arrays \cup {"backup"}),
         held' = held \cup {Own(kind) : kind \in kinds},
         \/ pc = "buffers" /\ pc' = "backup" /\ kinds = Arrays
         \/ pc = "backup" /\ pc' = "split" /\ kinds = {"backup"}
         \/ pc = "split" /\ pc' = "sink" /\ kinds = {},
         backup_fd' = IF "backup" \in kinds THEN 1 ELSE backup_fd,
         UNCHANGED <<bootstrap, active, index, streams, warned, custom,
                     worker_started>>
  PROVE  ConstructionInv'
<1>1. TypeOK /\ OwnsExactly /\ Loop /\ Storage /\ TakenOver /\ InOrder
  BY DEF ConstructionInv
<1>2. streams = << >> /\ index = 1 /\ warned = {}
  BY <1>1 DEF Loop
<1>3. \A kind \in kinds : Own(kind) \in Resource /\ Own(kind)[2] = 0
  BY OwnResources
<1>4. TypeOK'
  <2>1. held' \subseteq Resource /\ backup_fd' \in {-1, 0, 1}
    BY <1>1, <1>3, TypeParts
  <2>2. pc' \in {"backup", "split", "sink"}
    OBVIOUS
  <2>3. /\ bootstrap' \in BOOLEAN /\ worker_started' \in BOOLEAN
        /\ active' \in Seq(Names) /\ Len(active') <= MaxNames
        /\ index' \in 1 .. MaxNames + 1 /\ warned' \subseteq 1 .. MaxNames
        /\ streams' \in Seq([position : 0 .. MaxNames,
                             context : Customs \cup {"builtin"}])
        /\ Len(streams') <= MaxStreams
        /\ custom' \in [Customs -> {"caller", "logger", "lent", "destroyed"}]
    BY <1>1, Zenon DEF TypeOK
  <2> QED
    BY <2>1, <2>2, <2>3, Zenon DEF TypeOK
<1>5. OwnsExactly'
  <2>1. Reached' = {} /\ UnderConstruction' = {}
    BY <1>2, EmptyTable DEF UnderConstruction, Reached, Registered
  <2>2. Reached = {} /\ UnderConstruction = {}
    BY <1>2, EmptyTable DEF UnderConstruction
  <2>3. {r \in held' : r[2] # 0} = {}
    BY <1>1, <1>3, <2>2 DEF OwnsExactly
  <2>4. /\ backup_fd = 1 <=> Own("backup") \in held
        /\ backup_fd # 0
        /\ {Own("logger"), Own("locks")} \subseteq held
    BY <1>1 DEF OwnsExactly
  <2>5. Own("backup") \in held' <=> Own("backup") \in held \/ "backup" \in kinds
    BY OwnResources
  <2>6. backup_fd' = 1 <=> Own("backup") \in held'
    BY <2>4, <2>5
  <2> QED
    BY <2>1, <2>3, <2>4, <2>6 DEF OwnsExactly
<1>6. Loop'
  <2>1. Registered = {} /\ Len(streams) = 0 /\ Registered' = {}
    BY <1>2, EmptyTable DEF Registered
  <2> QED
    BY <1>1, <1>2, <2>1, TypeParts DEF Loop, Building, Making, Built, Down
<1>7. Storage'
  <2>1. CASE pc = "buffers"
    BY <2>1 DEF Storage, Building, Making, Built
  <2>2. CASE pc = "backup"
    BY <1>1, <2>2 DEF Storage, Building, Making, Built
  <2>3. CASE pc = "split"
    BY <1>1, <2>3 DEF Storage, Building, Making, Built
  <2> QED
    BY <2>1, <2>2, <2>3
<1>8. Named' /\ InOrder' /\ TakenOver'
  BY <1>1 DEF Named, Making, InOrder, TakenOver
<1> QED
  BY <1>4, <1>5, <1>6, <1>7, <1>8 DEF ConstructionInv

\* Six allocations, of which any may have failed.
LEMMA AllocateStep ==
  ASSUME ConstructionInv, AllocateBuffers
  PROVE  ConstructionInv'
<1>1. PICK got \in SUBSET Arrays :
        /\ held' = held \cup {Own(kind) : kind \in got}
        /\ pc' = IF got = Arrays THEN "backup" ELSE "destroyStreams"
  BY DEF AllocateBuffers
<1>2. /\ pc = "buffers"
      /\ UNCHANGED <<bootstrap, active, index, backup_fd, streams, warned,
                     custom, worker_started>>
  BY DEF AllocateBuffers
<1>3. CASE got = Arrays
  <2>1. "backup" \notin got /\ got \in SUBSET (Arrays \cup {"backup"})
    BY <1>3, OwnResources
  <2> QED
    BY <1>1, <1>2, <1>3, <2>1, PreparesKeeps
<1>4. CASE got # Arrays
  <2>1. TypeOK /\ OwnsExactly
    BY DEF ConstructionInv
  <2>2. \A kind \in got : Own(kind) \in Resource /\ Own(kind)[2] = 0
    BY OwnResources
  <2>3. held' \subseteq Resource /\ worker_started' \in BOOLEAN
    BY <1>1, <1>2, <2>1, <2>2, TypeParts
  <2>4. UnderConstruction = {}
    BY <1>2 DEF UnderConstruction
  <2>5. Sinks(held') = Reached
    BY <1>1, <2>1, <2>2, <2>4, SinksHeld DEF Sinks
  <2>6. \A kind \in {"logger", "locks", "backup"} :
          Own(kind) \in held' <=> Own(kind) \in held
    BY <1>1, OwnResources
  <2>7. pc \notin {"idle"} \cup Down /\ pc' = "destroyStreams"
    BY <1>1, <1>2, <1>4 DEF Down
  <2> QED
    BY <1>2, <2>3, <2>5, <2>6, <2>7, GivenUp
<1> QED
  BY <1>3, <1>4

LEMMA BackupStep ==
  ASSUME ConstructionInv, BackupOpen
  PROVE  ConstructionInv'
<1>1. /\ pc = "backup" /\ pc' = "split" /\ backup_fd' = 1
      /\ held' = held \cup {Own(kind) : kind \in {"backup"}}
      /\ UNCHANGED <<bootstrap, active, index, streams, warned, custom, worker_started>>
  BY DEF BackupOpen
<1>2. {"backup"} \in SUBSET (Arrays \cup {"backup"})
  OBVIOUS
<1> QED
  BY <1>1, <1>2, PreparesKeeps

LEMMA SplitStep ==
  ASSUME ConstructionInv, SplitStreamList
  PROVE  ConstructionInv'
<1>1. /\ pc = "split" /\ pc' \in {"sink", "destroyStreams"}
      /\ held' = held \cup {Own(kind) : kind \in {}} /\ backup_fd' = backup_fd
      /\ UNCHANGED <<bootstrap, active, index, streams, warned, custom, worker_started>>
  BY DEF SplitStreamList, BuildUnchanged
<1>2. CASE pc' = "destroyStreams"
  BY <1>2, GivingUpStep
<1>3. CASE pc' = "sink"
  <2>1. {} \in SUBSET (Arrays \cup {"backup"}) /\ "backup" \notin {}
    OBVIOUS
  <2> QED
    BY <1>1, <1>3, <2>1, PreparesKeeps
<1> QED
  BY <1>1, <1>2, <1>3

-------------------------------------------------------------------------------
(* The created logger.                                                     *)

\* The logger passes from create to start to its user as it is.
LEMMA HandedOver ==
  ASSUME ConstructionInv, pc \in {"sink", "start", "ready"},
         pc' \in {"start", "ready"}, worker_started' \in BOOLEAN,
         pc = "sink" => index > Len(active),
         pc = "ready" => pc' = "ready",
         pc' = "ready" /\ bootstrap => worker_started',
         UNCHANGED <<bootstrap, active, index, held, backup_fd, streams, warned,
                     custom>>
  PROVE  ConstructionInv'
<1>1. TypeOK /\ OwnsExactly /\ Loop /\ Storage /\ TakenOver /\ InOrder
  BY DEF ConstructionInv
<1>2. TypeOK'
  <2>1. /\ bootstrap' \in BOOLEAN /\ held' \subseteq Resource
        /\ active' \in Seq(Names) /\ Len(active') <= MaxNames
        /\ index' \in 1 .. MaxNames + 1 /\ warned' \subseteq 1 .. MaxNames
        /\ backup_fd' \in {-1, 0, 1}
        /\ streams' \in Seq([position : 0 .. MaxNames,
                             context : Customs \cup {"builtin"}])
        /\ Len(streams') <= MaxStreams
        /\ custom' \in [Customs -> {"caller", "logger", "lent", "destroyed"}]
    BY <1>1, Zenon DEF TypeOK
  <2> QED
    BY <2>1, Zenon DEF TypeOK
<1>3. OwnsExactly'
  <2>1. Reached' = Reached
    BY DEF Reached, Registered, Context
  <2>2. UnderConstruction' = {} /\ UnderConstruction = {}
    BY DEF UnderConstruction
  <2>3. {r \in held' : r[2] # 0} = Reached' \cup UnderConstruction'
    BY <1>1, <2>1, <2>2 DEF OwnsExactly
  <2> QED
    BY <1>1, <2>3 DEF OwnsExactly
<1>4. Loop'
  <2>1. index \in Int /\ Len(active) \in Nat /\ index <= Len(active) + 1
    BY <1>1, TypeParts DEF Loop
  <2>2. pc' \in Built => index' = Len(active') + 1
    <3>1. CASE pc = "sink"
      BY <2>1, <3>1
    <3>2. CASE pc # "sink"
      BY <1>1, <3>2 DEF Loop, Built
    <3> QED
      BY <3>1, <3>2
  <2>3. Registered' = (1 .. index' - 1) \ warned'
    BY <1>1 DEF Loop, Registered, Building, Built
  <2>4. pc' = "start" =>
          \A k \in 1 .. Len(streams') : streams'[k].position \in 1 .. index' - 1
    BY <1>1 DEF Loop, Building
  <2>5. /\ index' <= Len(active') + 1 /\ warned' \subseteq 1 .. index' - 1
    BY <1>1 DEF Loop
  <2> QED
    BY <2>2, <2>3, <2>4, <2>5 DEF Loop, Building, Making, Built, Down
<1>5. Named' /\ Storage'
  BY <1>1 DEF Named, Storage, Making, Building, Built
<1>6. InOrder' /\ TakenOver'
  BY <1>1 DEF InOrder, TakenOver
<1> QED
  BY <1>2, <1>3, <1>4, <1>5, <1>6 DEF ConstructionInv

LEMMA HandOverStep ==
  ASSUME ConstructionInv, CreateReturns \/ Start
  PROVE  ConstructionInv'
<1>1. bootstrap \in BOOLEAN /\ worker_started \in BOOLEAN
  BY TypeParts DEF ConstructionInv
<1>2. CASE CreateReturns
  <2>1. /\ pc = "sink" /\ pc' \in {"start", "ready"} /\ index > Len(active)
        /\ pc' = "ready" => ~bootstrap
        /\ UNCHANGED <<bootstrap, active, index, held, backup_fd, streams, warned,
                       custom, worker_started>>
    BY <1>2 DEF CreateReturns, BuildUnchanged
  <2> QED
    BY <1>1, <2>1, HandedOver
<1>3. CASE Start
  <2>1. /\ pc \in {"start", "ready"} /\ pc' = "ready" /\ worker_started' = TRUE
        /\ UNCHANGED <<bootstrap, active, index, held, backup_fd, streams, warned,
                       custom>>
    BY <1>3 DEF Start, LoggerUnchanged
  <2> QED
    BY <1>1, <2>1, HandedOver
<1> QED
  BY <1>2, <1>3

\* A custom stream comes behind all others and belongs to no position.
LEMMA AddCustomStep ==
  ASSUME ConstructionInv, NEW c \in Customs, AddCustom(c)
  PROVE  ConstructionInv'
<1> DEFINE s == [position |-> 0, context |-> c]
<1>1. /\ pc = "ready" /\ pc' = "ready" /\ Len(streams) < MaxStreams
      /\ streams' = Append(streams, s)
      /\ UNCHANGED <<bootstrap, active, index, held, backup_fd, warned,
                     worker_started>>
      /\ TypeOK /\ OwnsExactly /\ Loop /\ InOrder /\ Storage /\ TakenOver
      /\ bootstrap => worker_started
  BY DEF AddCustom, LoggerUnchanged, ConstructionInv
<1>2. PICK taken \in {"logger", "lent"} : custom' = [custom EXCEPT ![c] = taken]
  BY DEF AddCustom
<1>3. /\ Len(streams') = Len(streams) + 1 /\ Len(streams) \in Nat
      /\ \A k \in 1 .. Len(streams) : streams'[k] = streams[k]
      /\ streams'[Len(streams) + 1] = s
      /\ Registered' = (Registered \cup {0}) \ {0}
  BY <1>1, AppendedStream
<1>4. Registered' = Registered
  BY <1>3 DEF Registered
<1>5. TypeOK'
  <2>1. s \in [position : 0 .. MaxNames, context : Customs \cup {"builtin"}]
    BY ConstructionAssumption
  <2>2. streams' \in Seq([position : 0 .. MaxNames,
                          context : Customs \cup {"builtin"}])
    BY <1>1, <2>1, TypeParts, AppendProperties
  <2>3. Len(streams') <= MaxStreams
    BY <1>1, <1>3, ConstructionAssumption
  <2>4. custom' \in [Customs -> {"caller", "logger", "lent", "destroyed"}]
    BY <1>1, <1>2, TypeParts
  <2>5. /\ bootstrap' \in BOOLEAN /\ held' \subseteq Resource
        /\ active' \in Seq(Names) /\ Len(active') <= MaxNames
        /\ index' \in 1 .. MaxNames + 1 /\ warned' \subseteq 1 .. MaxNames
        /\ backup_fd' \in {-1, 0, 1} /\ worker_started' \in BOOLEAN
    BY <1>1, Zenon DEF TypeOK
  <2> QED
    BY <1>1, <2>2, <2>3, <2>4, <2>5, Zenon DEF TypeOK
<1>6. OwnsExactly'
  <2>1. Reached' = Reached
    BY <1>1, <1>4 DEF Reached, Context
  <2>2. UnderConstruction' = {} /\ UnderConstruction = {}
    BY <1>1 DEF UnderConstruction
  <2>3. {r \in held' : r[2] # 0} = Reached' \cup UnderConstruction'
    BY <1>1, <2>1, <2>2 DEF OwnsExactly
  <2> QED
    BY <1>1, <2>3 DEF OwnsExactly
<1>7. Loop'
  BY <1>1, <1>4 DEF Loop, Building, Making, Built, Down
<1>8. InOrder'
  <2> SUFFICES ASSUME NEW j \in 1 .. Len(streams'), NEW k \in 1 .. Len(streams'),
                      j < k, streams'[k].position # 0
               PROVE  streams'[j].position \in 1 .. streams'[k].position - 1
    BY DEF InOrder
  <2>1. k # Len(streams) + 1
    BY <1>3
  <2>2. j \in 1 .. Len(streams) /\ k \in 1 .. Len(streams)
    BY <1>3, <2>1
  <2> QED
    BY <1>1, <1>3, <2>2 DEF InOrder
<1>9. TakenOver'
  <2>1. /\ Len(streams) + 1 \in 1 .. Len(streams')
        /\ \A k \in 1 .. Len(streams) : k \in 1 .. Len(streams')
    BY <1>3
  <2>2. \A d \in Customs : d # c => custom'[d] = custom[d]
    BY <1>1, <1>2, TypeParts
  <2> QED
    BY <1>1, <1>3, <2>1, <2>2 DEF TakenOver
<1>10. Named' /\ Storage'
  BY <1>1 DEF Named, Storage, Making, Building, Built
<1> QED
  BY <1>1, <1>5, <1>6, <1>7, <1>8, <1>9, <1>10 DEF ConstructionInv

-------------------------------------------------------------------------------
(* The teardown.                                                           *)

\* The table's walk destroys every sink, and every context taken over.
LEMMA DestroyStreamsStep ==
  ASSUME ConstructionInv, DestroyStreams
  PROVE  ConstructionInv'
<1> DEFINE At == {j \in 1 .. Len(streams) : streams[j].position # 0}
           Walked == UNION {Context(streams[k].position) : k \in At}
<1>1. /\ pc = "destroyStreams" /\ pc' = "closeBackup" /\ streams' = << >>
      /\ held' = held \ Walked
      /\ UNCHANGED <<bootstrap, active, index, backup_fd, warned, worker_started>>
      /\ TypeOK /\ OwnsExactly /\ Loop /\ InOrder /\ Storage /\ TakenOver
  BY DEF DestroyStreams, ConstructionInv
<1>2. custom' = [c \in Customs |->
                  IF /\ custom[c] = "logger"
                     /\ \E k \in 1 .. Len(streams) : streams[k].context = c
                  THEN "destroyed" ELSE custom[c]]
  BY DEF DestroyStreams
<1>3. Walked = Reached
  <2>1. Registered = {streams[k].position : k \in At}
    BY DEF Registered
  <2> QED
    BY <2>1 DEF Reached
<1>4. Sinks(held) = Reached
  <2>1. UnderConstruction = {}
    BY <1>1 DEF UnderConstruction
  <2> QED
    BY <1>1, <2>1, SinksHeld
<1> HIDE DEF Walked
<1>5. \A r \in held : r \in held' <=> r[2] = 0
  BY <1>1, <1>3, <1>4 DEF Sinks
<1>6. \A kind : Own(kind) \in held' <=> Own(kind) \in held
  BY <1>1, <1>5 DEF Own
<1>7. \A c \in Customs : custom'[c] # "logger"
  BY <1>1, <1>2 DEF TakenOver
<1>8. TypeOK'
  <2>1. custom' \in [Customs -> {"caller", "logger", "lent", "destroyed"}]
    <3>1. custom \in [Customs -> {"caller", "logger", "lent", "destroyed"}]
      BY <1>1, TypeParts
    <3> QED
      BY <1>2, <3>1
  <2>2. streams' \in Seq([position : 0 .. MaxNames,
                          context : Customs \cup {"builtin"}])
        /\ Len(streams') <= MaxStreams
    BY <1>1, ConstructionAssumption
  <2>3. /\ bootstrap' \in BOOLEAN /\ held' \subseteq Resource
        /\ active' \in Seq(Names) /\ Len(active') <= MaxNames
        /\ index' \in 1 .. MaxNames + 1 /\ warned' \subseteq 1 .. MaxNames
        /\ backup_fd' \in {-1, 0, 1} /\ worker_started' \in BOOLEAN
    <3>1. held' \subseteq Resource
      BY <1>1, TypeParts
    <3> QED
      BY <1>1, <3>1, Zenon DEF TypeOK
  <2> QED
    BY <1>1, <2>1, <2>2, <2>3, Zenon DEF TypeOK
<1>9. OwnsExactly'
  <2>1. Reached' = {} /\ UnderConstruction' = {}
    BY <1>1 DEF UnderConstruction, Reached, Registered
  <2>2. {r \in held' : r[2] # 0} = {}
    BY <1>1, <1>5
  <2> QED
    BY <1>1, <1>6, <2>1, <2>2 DEF OwnsExactly
<1>10. Loop' /\ Named' /\ Storage'
  BY <1>1 DEF Loop, Named, Storage, Making, Building, Built, Down
<1>11. InOrder' /\ TakenOver'
  BY <1>1, <1>7 DEF InOrder, TakenOver
<1> QED
  BY <1>1, <1>8, <1>9, <1>10, <1>11 DEF ConstructionInv

\* After the walk only the logger's own resources are left.
LEMMA OnlyOwn ==
  ASSUME ConstructionInv, pc \in {"closeBackup", "free"}, NEW r \in held
  PROVE  \E kind \in Arrays \cup {"logger", "locks", "backup"} : r = Own(kind)
<1>1. TypeOK /\ OwnsExactly /\ streams = << >>
  BY DEF ConstructionInv, Loop, Down
<1>2. Reached = {} /\ UnderConstruction = {}
  BY <1>1, EmptyTable DEF UnderConstruction
<1>3. r[2] = 0
  BY <1>1, <1>2 DEF OwnsExactly
<1>4. r \in Resource
  BY <1>1, TypeParts
<1> QED
  BY <1>3, <1>4, ConstructionAssumption DEF Resource

LEMMA TeardownStep ==
  ASSUME ConstructionInv, BackupClose \/ Free
  PROVE  ConstructionInv'
<1>1. /\ pc \in {"closeBackup", "free"}
      /\ TypeOK /\ OwnsExactly /\ Loop /\ InOrder /\ Storage /\ TakenOver
      /\ held' \subseteq held
      /\ UNCHANGED <<bootstrap, active, index, streams, warned, custom, worker_started>>
  BY DEF BackupClose, Free, ConstructionInv
<1>2. \/ /\ pc = "closeBackup" /\ pc' = "free" /\ backup_fd' = -1
         /\ held' = held \ {Own("backup")}
      \/ /\ pc = "free" /\ pc' = "gone" /\ backup_fd' = backup_fd /\ held' = {}
  <2>1. CASE BackupClose
    <3>1. backup_fd \in {-1, 1} /\ (backup_fd = 1 <=> Own("backup") \in held)
      <4>1. pc = "closeBackup" /\ backup_fd \in {-1, 0, 1}
        BY <1>1, <2>1, TypeParts DEF BackupClose
      <4> QED
        BY <1>1, <4>1 DEF OwnsExactly
    <3>2. CASE backup_fd = 1
      BY <2>1, <3>2 DEF BackupClose
    <3>3. CASE backup_fd = -1
      BY <2>1, <3>1, <3>3 DEF BackupClose
    <3> QED
      BY <3>1, <3>2, <3>3
  <2>2. CASE Free
    <3>1. pc = "free" /\ pc' = "gone" /\ backup_fd' = backup_fd
          /\ held' = held \ {Own(kind) : kind \in Arrays \cup {"logger", "locks"}}
      BY <2>2 DEF Free
    <3>2. Own("backup") \notin held
      BY <1>1, <3>1 DEF OwnsExactly, Storage
    <3>3. held' = {}
      BY <1>1, <3>1, <3>2, OnlyOwn
    <3> QED
      BY <3>1, <3>3
  <2> QED
    BY <2>1, <2>2
<1>3. TypeOK'
  <2>1. held' \subseteq Resource /\ backup_fd' \in {-1, 0, 1}
    BY <1>1, <1>2, TypeParts
  <2>2. pc' \in {"free", "gone"}
    BY <1>2
  <2>3. /\ bootstrap' \in BOOLEAN /\ worker_started' \in BOOLEAN
        /\ active' \in Seq(Names) /\ Len(active') <= MaxNames
        /\ index' \in 1 .. MaxNames + 1 /\ warned' \subseteq 1 .. MaxNames
        /\ streams' \in Seq([position : 0 .. MaxNames,
                             context : Customs \cup {"builtin"}])
        /\ Len(streams') <= MaxStreams
        /\ custom' \in [Customs -> {"caller", "logger", "lent", "destroyed"}]
    BY <1>1, Zenon DEF TypeOK
  <2> QED
    BY <2>1, <2>2, <2>3, Zenon DEF TypeOK
<1>4. OwnsExactly'
  <2>1. streams = << >> /\ Reached = {} /\ UnderConstruction = {}
    BY <1>1, EmptyTable DEF Loop, Down, UnderConstruction
  <2>2. Reached' = {} /\ UnderConstruction' = {}
    BY <1>1, <1>2, <2>1 DEF UnderConstruction, Reached, Registered
  <2>3. {r \in held' : r[2] # 0} = {}
    BY <1>1, <2>1 DEF OwnsExactly
  <2>4. CASE pc' = "free"
    <3>1. {Own("logger"), Own("locks")} \subseteq held'
      BY <1>1, <1>2, <2>4, OwnResources DEF OwnsExactly
    <3> QED
      BY <1>2, <2>2, <2>3, <2>4, <3>1 DEF OwnsExactly
  <2>5. CASE pc' = "gone"
    <3>1. backup_fd # 1
      BY <1>1, <1>2, <2>5 DEF Storage
    <3> QED
      BY <1>2, <2>2, <2>3, <2>5, <3>1 DEF OwnsExactly
  <2> QED
    BY <1>2, <2>4, <2>5
<1>5. Loop' /\ Named' /\ Storage'
  BY <1>1, <1>2 DEF Loop, Named, Storage, Making, Building, Built, Down
<1>6. InOrder' /\ TakenOver'
  BY <1>1 DEF InOrder, TakenOver
<1> QED
  BY <1>2, <1>3, <1>4, <1>5, <1>6 DEF ConstructionInv

LEMMA ConstructionStutters ==
  ASSUME ConstructionInv, UNCHANGED vars
  PROVE  ConstructionInv'
<1>1. TypeOK'
  BY Zenon DEF ConstructionInv, TypeOK, vars
<1>2. OwnsExactly'
  <2>1. Reached' = Reached /\ UnderConstruction' = UnderConstruction
    BY DEF vars, Reached, Registered, Context, UnderConstruction, Of
  <2> QED
    BY <2>1 DEF ConstructionInv, OwnsExactly, vars
<1>3. Named' /\ Loop' /\ InOrder' /\ Storage' /\ TakenOver'
  BY DEF ConstructionInv, vars, Named, Loop, InOrder, Storage, TakenOver, Registered
<1> QED
  BY <1>1, <1>2, <1>3 DEF ConstructionInv, vars

LEMMA ConstructionStep == ConstructionInv /\ [Next]_vars => ConstructionInv'
<1> SUFFICES ASSUME ConstructionInv, [Next]_vars PROVE ConstructionInv'
  OBVIOUS
<1>1. CASE CreateLogger \/ CreateRefused
  BY <1>1, CreateStep
<1>2. CASE AllocateBuffers
  BY <1>2, AllocateStep
<1>3. CASE BackupOpen \/ SplitStreamList
  BY <1>3, BackupStep, SplitStep
<1>4. CASE \/ MakeStdioStream \/ MakeStdioStreamFails
           \/ FileState \/ FileStateFails \/ FileOpen \/ FileOpenFails
           \/ UdpResolve \/ UdpResolveFails \/ UdpSocket \/ UdpSocketFails
           \/ UdpState \/ UdpStateFails
  BY <1>4, MakeStep
<1>5. CASE UdpFreeAddresses
  BY <1>5, FreeAddressesStep
<1>6. CASE AddBuiltin \/ AddBuiltinRefused
  BY <1>6, AddStep, AddRefusedStep
<1>7. CASE BackupOpenFails \/ UnknownName \/ BootstrapStartFails \/ Destroy
  BY <1>7, GivingUpStep
<1>8. CASE CreateReturns \/ Start
  BY <1>8, HandOverStep
<1>9. CASE \E c \in Customs : AddCustom(c)
  BY <1>9, AddCustomStep
<1>10. CASE DestroyStreams
  BY <1>10, DestroyStreamsStep
<1>11. CASE BackupClose \/ Free
  BY <1>11, TeardownStep
<1>12. CASE Terminated \/ UNCHANGED vars
  BY <1>12, ConstructionStutters DEF Terminated
<1> QED
  BY <1>1, <1>2, <1>3, <1>4, <1>5, <1>6, <1>7, <1>8, <1>9, <1>10, <1>11, <1>12
     DEF Next

-------------------------------------------------------------------------------
(* Theorems.                                                               *)

\* The bookkeeping of create, start and destroy holds at every step.
THEOREM ConstructionInvariance == Spec => []ConstructionInv
BY ConstructionInit, ConstructionStep, PTL DEF Spec

\* Every variable has its type: no position outside active_streams, no table
\* longer than MP_LOGGER_MAX_STREAMS, nothing held that is not a resource.
THEOREM ConstructionTypes == Spec => []TypeOK
<1>1. ConstructionInv => TypeOK
  BY DEF ConstructionInv
<1> QED
  BY <1>1, ConstructionInvariance, PTL

\* Whatever fails, what the sinks hold is what the table and the running make
\* function reach, so that nothing is lost and nothing released twice.
THEOREM HeldIsReached == Spec => []OwnsExactly
<1>1. ConstructionInv => OwnsExactly
  BY DEF ConstructionInv
<1> QED
  BY <1>1, ConstructionInvariance, PTL

\* However create, create_from_bootstrap or the logger's life ends, nothing is
\* left, and every context that was taken over has been destroyed.
THEOREM NothingIsLeaked == Spec => []NothingLeaked
<1>1. ConstructionInv => NothingLeaked
  <2> SUFFICES ASSUME ConstructionInv, pc = "gone" PROVE NothingLeaked
    BY DEF NothingLeaked
  <2>1. held = {} /\ streams = << >>
    BY DEF ConstructionInv, Storage, Loop, Down
  <2>2. Len(streams) = 0
    BY <2>1, EmptyTable
  <2>3. \A c \in Customs : custom[c] # "logger"
    BY <2>2 DEF ConstructionInv, TakenOver
  <2> QED
    BY <2>1, <2>3 DEF NothingLeaked
<1> QED
  BY <1>1, ConstructionInvariance, PTL

\* A logger that is handed out has its storage, its backup file, every sink the
\* configuration names but those warned of, in that order, and, made by
\* create_from_bootstrap, a worker.
THEOREM ReadyComplete == Spec => []ReadyIsComplete
<1>1. ConstructionInv => ReadyIsComplete
  <2> SUFFICES ASSUME ConstructionInv, pc = "ready" PROVE ReadyIsComplete
    BY DEF ReadyIsComplete
  <2>1. {Own(kind) : kind \in Arrays \cup {"backup"}} \subseteq held
    BY DEF ConstructionInv, Storage, Built
  <2>2. Registered = (1 .. Len(active)) \ warned
    <3>1. Len(active) \in Nat
      BY TypeParts DEF ConstructionInv
    <3>2. (Len(active) + 1) - 1 = Len(active)
      BY <3>1
    <3> QED
      BY <3>2 DEF ConstructionInv, Loop, Built
  <2>3. InOrder /\ (bootstrap => worker_started)
    BY DEF ConstructionInv
  <2> QED
    BY <2>1, <2>2, <2>3 DEF ReadyIsComplete, InOrder
<1> QED
  BY <1>1, ConstructionInvariance, PTL
===============================================================================
