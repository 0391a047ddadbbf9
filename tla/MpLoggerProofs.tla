---------------------------- MODULE MpLoggerProofs ----------------------------
(***************************************************************************)
(* Proofs about MpLogger for every capacity, number of producers and       *)
(* flushers and bound on calls.  IInv is inductive; type correctness and   *)
(* dispatch in admission order follow from it.  The last part is about the *)
(* reader of the statistics, composed with the logger in StatsReader.      *)
(*                                                                         *)
(* Four actions touch the ring, the numbering or the log: StampSlot,       *)
(* PublishSlot, WorkerTakes and WorkerFansOut.  Each has a lemma.  Every   *)
(* other step is quiet (QuietSteps) and keeps those parts of IInv at once  *)
(* (QuietKeeps).                                                           *)
(***************************************************************************)
EXTENDS StatsReader, FiniteSetTheorems, TLAPS

USE DEF ring, totals, drops, queue, mirror, worker, flags, flushing, history

(* What the modulus does to the index behind the last slot. *)
LEMMA NextIndex ==
  ASSUME NEW N \in Nat \ {0}, NEW i \in 0 .. N - 1
  PROVE  (i + 1) % N = IF i + 1 = N THEN 0 ELSE i + 1
BY SMT

LEMMA InitInvariant == Init => IInv
<1> SUFFICES ASSUME Init PROVE IInv
  OBVIOUS
<1> USE ConstantsAssumption DEF Init
<1>1. TypeOK
  <2>1. QueueType
    BY DEF QueueType, Slot, EmptySlot
  <2>2. CounterType
    BY DEF CounterType
  <2>3. ThreadType
    BY DEF ThreadType, WorkerPcs, Returned
  <2>4. FlagType
    BY DEF FlagType
  <2>5. FlushType
    BY DEF FlushType
  <2>6. LogType
    BY DEF LogType, Slot, EmptySlot
  <2> QED
    BY <2>1, <2>2, <2>3, <2>4, <2>5, <2>6 DEF TypeOK
<1>2. LockOwner
  BY DEF LockOwner
<1>3. RingShape
  BY DEF RingShape, Wrap
<1>4. Numbering
  BY DEF Numbering
<1>5. RingContents
  BY DEF RingContents
<1>6. RecordInHand
  BY DEF RecordInHand, WorkerHasRecord, Taken
<1>7. ThreadFlag
  BY DEF ThreadFlag
<1>8. InOrderDispatch
  BY DEF InOrderDispatch
<1> QED
  BY <1>1, <1>2, <1>3, <1>4, <1>5, <1>6, <1>7, <1>8 DEF IInv

-------------------------------------------------------------------------------
(* A call of mp_logger_flush only looks: it changes nothing but its own state. *)

LEMMA FlusherFrame ==
  ASSUME NEW f \in Flushers,
         \/ FlushEnter(f) \/ FlushUnstarted(f) \/ FlushSample(f)
         \/ FlushDone(f) \/ FlushTimesOut(f)
  PROVE  UNCHANGED <<queue, worker, ppc, calls, cpc, flags, history>>
BY DEF FlushEnter, FlushUnstarted, FlushSample, FlushDone, FlushTimesOut,
   FlusherMoves

-------------------------------------------------------------------------------
(* Type correctness is preserved, part by part. *)

LEMMA QueueTypeStep == IInv /\ [Next]_vars => QueueType'
<1> SUFFICES ASSUME IInv, [Next]_vars PROVE QueueType'
  OBVIOUS
<1>0. QueueType /\ CounterType /\ Numbering
  BY DEF IInv, TypeOK
<1> USE <1>0, ConstantsAssumption DEF QueueType
<1>1. ASSUME NEW p \in Producers, LogEnter(p) \/ ProducerStep(p)
      PROVE  QueueType'
  <2>1. CASE StampSlot(p)
    BY <2>1 DEF StampSlot, Moves, Slot, CounterType
  <2>2. CASE PublishSlot(p)
    <3>1. queue_count < BufferCapacity
      BY <2>2 DEF PublishSlot, Moves, Numbering, HasRoom
    <3>2. queue_tail' \in 0 .. BufferCapacity - 1
      BY <2>2, NextIndex DEF PublishSlot
    <3> QED
      BY <2>2, <3>1, <3>2 DEF PublishSlot, Moves, Slot
  <2>3. CASE ~StampSlot(p) /\ ~PublishSlot(p)
    BY <1>1, <2>3 DEF ProducerStep, LogEnter, TryLockBusy, CountBusy, TryLock,
       QueueFull, CountFull, SignalWorker
  <2> QED
    BY <2>1, <2>2, <2>3
<1>2. CASE WorkerStep \/ SpuriousWakeup
  <2>1. CASE WorkerTakes
    <3>1. queue_head' \in 0 .. BufferCapacity - 1
      BY <2>1, NextIndex DEF WorkerTakes
    <3> QED
      BY <2>1, <3>1 DEF WorkerTakes
  <2>2. CASE ~WorkerTakes
    BY <1>2, <2>2 DEF WorkerStep, SpuriousWakeup, WorkerAllocates,
       WorkerAllocFails, WorkerLock, WorkerFindsNothing, WorkerWaits,
       WorkerLeaves, WorkerUnlocks, MirrorBusy, MirrorFull, WorkerRenders,
       WorkerFansOut, WorkerCounts
  <2> QED
    BY <2>1, <2>2
<1>3. CASE AddStream \/ StartEnter \/ Shutdown \/ Destroy \/ ControllerStep
  BY <1>3 DEF AddStream, StartEnter, Shutdown, RequestShutdown, Destroy,
     ControllerStep, ThreadCreate, ThreadCreateFails, StartReturns,
     SignalShutdown, Join, JoinTimesOut, DestroyStreams, Release,
     ControllerMoves
<1>4. ASSUME NEW f \in Flushers,
             \/ FlushEnter(f) \/ FlushUnstarted(f) \/ FlushSample(f)
             \/ FlushDone(f) \/ FlushTimesOut(f)
      PROVE  QueueType'
  BY <1>4, FlusherFrame
<1>5. CASE UNCHANGED vars
  BY <1>5 DEF vars
<1> QED
  BY <1>1, <1>2, <1>3, <1>4, <1>5 DEF Next, Terminated

LEMMA CounterTypeStep == IInv /\ [Next]_vars => CounterType'
<1> SUFFICES ASSUME IInv, [Next]_vars PROVE CounterType'
  OBVIOUS
<1>0. CounterType
  BY DEF IInv, TypeOK
<1> USE <1>0 DEF CounterType
<1>1. ASSUME NEW p \in Producers, LogEnter(p) \/ ProducerStep(p)
      PROVE  CounterType'
  <2>1. CASE LogEnter(p) \/ CountBusy(p) \/ CountFull(p) \/ StampSlot(p)
    BY <2>1 DEF LogEnter, CountBusy, CountFull, StampSlot, Moves
  <2>2. CASE ~(LogEnter(p) \/ CountBusy(p) \/ CountFull(p) \/ StampSlot(p))
    <3>1. UNCHANGED <<totals, drops, mirror, calls>>
      BY <1>1, <2>2 DEF PublishSlot, TryLockBusy, TryLock, QueueFull,
         SignalWorker, ProducerStep, Moves
    <3> QED
      BY <3>1
  <2> QED
    BY <2>1, <2>2
<1>2. CASE WorkerStep \/ SpuriousWakeup
  <2>1. CASE MirrorBusy
    BY <2>1 DEF MirrorBusy, WorkerMoves
  <2>2. CASE MirrorFull
    BY <2>2 DEF MirrorFull, WorkerMoves
  <2>3. CASE WorkerCounts \/ WorkerAllocates
    BY <2>3 DEF WorkerCounts, WorkerAllocates, WorkerMoves
  <2>4. CASE ~(MirrorBusy \/ MirrorFull \/ WorkerCounts \/ WorkerAllocates)
    <3>1. UNCHANGED <<totals, drops, mirror, calls>>
      BY <1>2, <2>4 DEF WorkerStep, SpuriousWakeup, WorkerAllocFails,
         WorkerLock, WorkerFindsNothing, WorkerWaits, WorkerTakes,
         WorkerLeaves, WorkerUnlocks, WorkerRenders, WorkerFansOut, WorkerMoves
    <3> QED
      BY <3>1
  <2> QED
    BY <2>1, <2>2, <2>3, <2>4
<1>3. CASE AddStream \/ StartEnter \/ Shutdown \/ Destroy \/ ControllerStep
  BY <1>3 DEF AddStream, StartEnter, Shutdown, RequestShutdown, Destroy,
     ControllerStep, ThreadCreate, ThreadCreateFails, StartReturns,
     SignalShutdown, Join, JoinTimesOut, DestroyStreams, Release,
     ControllerMoves
<1>4. ASSUME NEW f \in Flushers,
             \/ FlushEnter(f) \/ FlushUnstarted(f) \/ FlushSample(f)
             \/ FlushDone(f) \/ FlushTimesOut(f)
      PROVE  CounterType'
  BY <1>4, FlusherFrame
<1>5. CASE UNCHANGED vars
  BY <1>5 DEF vars
<1> QED
  BY <1>1, <1>2, <1>3, <1>4, <1>5 DEF Next, Terminated

LEMMA ThreadTypeStep == IInv /\ [Next]_vars => ThreadType'
<1> SUFFICES ASSUME IInv, [Next]_vars PROVE ThreadType'
  OBVIOUS
<1> USE DEF IInv, TypeOK, ThreadType, WorkerPcs, Returned
<1>1. ASSUME NEW p \in Producers, LogEnter(p) \/ ProducerStep(p)
      PROVE  ThreadType'
  BY <1>1, SMTT(30) DEF StampSlot, PublishSlot, LogEnter, TryLockBusy, CountBusy,
     TryLock, QueueFull, CountFull, SignalWorker, ProducerStep, Moves,
     CondSignal
<1>2. CASE WorkerStep \/ SpuriousWakeup
  BY <1>2 DEF WorkerStep, SpuriousWakeup, WorkerAllocates, WorkerAllocFails,
     WorkerLock, WorkerFindsNothing, WorkerWaits, WorkerTakes, WorkerLeaves,
     WorkerUnlocks, MirrorBusy, MirrorFull, WorkerRenders, WorkerFansOut,
     WorkerCounts, WorkerMoves
<1>3. CASE AddStream \/ StartEnter \/ Shutdown \/ Destroy \/ ControllerStep
  BY <1>3 DEF AddStream, StartEnter, Shutdown, RequestShutdown, Destroy,
     ControllerStep, ThreadCreate, ThreadCreateFails, StartReturns,
     SignalShutdown, Join, JoinTimesOut, DestroyStreams, Release,
     ControllerMoves, CondSignal, AfterShutdown
<1>4. ASSUME NEW f \in Flushers,
             \/ FlushEnter(f) \/ FlushUnstarted(f) \/ FlushSample(f)
             \/ FlushDone(f) \/ FlushTimesOut(f)
      PROVE  ThreadType'
  BY <1>4 DEF FlushEnter, FlushUnstarted, FlushSample, FlushDone,
     FlushTimesOut, FlusherMoves
<1>5. CASE UNCHANGED vars
  BY <1>5 DEF vars
<1> QED
  BY <1>1, <1>2, <1>3, <1>4, <1>5 DEF Next, Terminated

LEMMA FlagTypeStep == IInv /\ [Next]_vars => FlagType'
<1> SUFFICES ASSUME IInv, [Next]_vars PROVE FlagType'
  OBVIOUS
<1> USE ConstantsAssumption DEF IInv, TypeOK, FlagType, CounterType, LogType
<1>1. ASSUME NEW p \in Producers, LogEnter(p) \/ ProducerStep(p)
      PROVE  FlagType'
  BY <1>1 DEF StampSlot, PublishSlot, LogEnter, TryLockBusy, CountBusy,
     TryLock, QueueFull, CountFull, SignalWorker, ProducerStep, Moves
<1>2. CASE WorkerStep \/ SpuriousWakeup
  BY <1>2 DEF WorkerStep, SpuriousWakeup, WorkerAllocates, WorkerAllocFails,
     WorkerLock, WorkerFindsNothing, WorkerWaits, WorkerTakes, WorkerLeaves,
     WorkerUnlocks, MirrorBusy, MirrorFull, WorkerRenders, WorkerFansOut,
     WorkerCounts, WorkerMoves
<1>3. CASE AddStream \/ StartEnter \/ Shutdown \/ Destroy \/ ControllerStep
  <2>1. CASE RequestShutdown /\ destroying' \in BOOLEAN
    <3>1. atShutdown' \in [admitted : Nat, busy : Nat, full : Nat]
      <4>1. Len(admitted) \in Nat
        OBVIOUS
      <4> QED
        BY <2>1, <4>1 DEF RequestShutdown
    <3>2. shutdown_requested' \in BOOLEAN /\ UNCHANGED <<worker_started, stream_count>>
      BY <2>1 DEF RequestShutdown
    <3> QED
      BY <2>1, <3>1, <3>2
  <2>2. CASE AddStream \/ DestroyStreams
    BY <2>2 DEF AddStream, DestroyStreams
  <2>3. CASE StartEnter \/ StartReturns \/ Join
    BY <2>3, Zenon DEF StartEnter, StartReturns, Join
  <2>4. CASE Destroy /\ ~RequestShutdown
    BY <2>4, Zenon DEF Destroy
  <2>5. CASE ThreadCreate \/ ThreadCreateFails \/ SignalShutdown
             \/ JoinTimesOut \/ Release
    BY <2>5, Zenon DEF ThreadCreate, ThreadCreateFails, SignalShutdown,
       JoinTimesOut, Release
  <2> QED
    BY <1>3, <2>1, <2>2, <2>3, <2>4, <2>5, Zenon
       DEF Shutdown, Destroy, ControllerStep
<1>4. ASSUME NEW f \in Flushers,
             \/ FlushEnter(f) \/ FlushUnstarted(f) \/ FlushSample(f)
             \/ FlushDone(f) \/ FlushTimesOut(f)
      PROVE  FlagType'
  BY <1>4, FlusherFrame
<1>5. CASE UNCHANGED vars
  BY <1>5 DEF vars
<1> QED
  BY <1>1, <1>2, <1>3, <1>4, <1>5 DEF Next, Terminated

LEMMA FlushTypeStep == IInv /\ [Next]_vars => FlushType'
<1> SUFFICES ASSUME IInv, [Next]_vars PROVE FlushType'
  OBVIOUS
<1>0. FlushType /\ queued_records_total \in Nat /\ Len(admitted) \in Nat
  BY DEF IInv, TypeOK, CounterType, LogType
<1> USE <1>0 DEF FlushType
<1>1. ASSUME NEW p \in Producers, LogEnter(p) \/ ProducerStep(p)
      PROVE  FlushType'
  BY <1>1 DEF StampSlot, PublishSlot, LogEnter, TryLockBusy, CountBusy,
     TryLock, QueueFull, CountFull, SignalWorker, ProducerStep, Moves
<1>2. CASE WorkerStep \/ SpuriousWakeup
  BY <1>2 DEF WorkerStep, SpuriousWakeup, WorkerAllocates, WorkerAllocFails,
     WorkerLock, WorkerFindsNothing, WorkerWaits, WorkerTakes, WorkerLeaves,
     WorkerUnlocks, MirrorBusy, MirrorFull, WorkerRenders, WorkerFansOut,
     WorkerCounts, WorkerMoves
<1>3. CASE AddStream \/ StartEnter \/ Shutdown \/ Destroy \/ ControllerStep
  BY <1>3 DEF AddStream, StartEnter, Shutdown, RequestShutdown, Destroy,
     ControllerStep, ThreadCreate, ThreadCreateFails, StartReturns,
     SignalShutdown, Join, JoinTimesOut, DestroyStreams, Release,
     ControllerMoves
<1>4. ASSUME NEW f \in Flushers,
             \/ FlushEnter(f) \/ FlushUnstarted(f) \/ FlushSample(f)
             \/ FlushDone(f) \/ FlushTimesOut(f)
      PROVE  FlushType'
  <2>1. CASE FlushEnter(f)
    BY <2>1 DEF FlushEnter
  <2>2. CASE FlushSample(f)
    BY <2>2 DEF FlushSample
  <2>3. CASE FlushUnstarted(f) \/ FlushDone(f) \/ FlushTimesOut(f)
    BY <2>3 DEF FlushUnstarted, FlushDone, FlushTimesOut, FlusherMoves
  <2> QED
    BY <1>4, <2>1, <2>2, <2>3
<1>5. CASE UNCHANGED vars
  BY <1>5 DEF vars
<1> QED
  BY <1>1, <1>2, <1>3, <1>4, <1>5 DEF Next, Terminated

LEMMA LogTypeStep == IInv /\ [Next]_vars => LogType'
<1> SUFFICES ASSUME IInv, [Next]_vars PROVE LogType'
  OBVIOUS
<1> USE DEF IInv, TypeOK, LogType, QueueType
<1>1. ASSUME NEW p \in Producers, LogEnter(p) \/ ProducerStep(p)
      PROVE  LogType'
  <2>1. CASE PublishSlot(p)
    BY <2>1 DEF PublishSlot, Moves
  <2>2. CASE ~PublishSlot(p)
    BY <1>1, <2>2 DEF ProducerStep, LogEnter, TryLockBusy, CountBusy, TryLock,
       QueueFull, CountFull, StampSlot, SignalWorker
  <2> QED
    BY <2>1, <2>2
<1>2. CASE WorkerStep \/ SpuriousWakeup
  <2>1. CASE WorkerTakes
    BY <2>1 DEF WorkerTakes
  <2>2. CASE WorkerFansOut
    BY <2>2 DEF WorkerFansOut
  <2>3. CASE ~WorkerTakes /\ ~WorkerFansOut
    BY <1>2, <2>3 DEF WorkerStep, SpuriousWakeup, WorkerAllocates,
       WorkerAllocFails, WorkerLock, WorkerFindsNothing, WorkerWaits,
       WorkerLeaves, MirrorBusy, MirrorFull, WorkerRenders, WorkerCounts
  <2> QED
    BY <2>1, <2>2, <2>3
<1>3. CASE AddStream \/ StartEnter \/ Shutdown \/ Destroy \/ ControllerStep
  BY <1>3 DEF AddStream, StartEnter, Shutdown, RequestShutdown, Destroy,
     ControllerStep, ThreadCreate, ThreadCreateFails, StartReturns,
     SignalShutdown, Join, JoinTimesOut, DestroyStreams, Release,
     ControllerMoves
<1>4. ASSUME NEW f \in Flushers,
             \/ FlushEnter(f) \/ FlushUnstarted(f) \/ FlushSample(f)
             \/ FlushDone(f) \/ FlushTimesOut(f)
      PROVE  LogType'
  BY <1>4, FlusherFrame
<1>5. CASE UNCHANGED vars
  BY <1>5 DEF vars
<1> QED
  BY <1>1, <1>2, <1>3, <1>4, <1>5 DEF Next, Terminated

LEMMA LockOwnerStep == IInv /\ [Next]_vars => LockOwner'
<1> SUFFICES ASSUME IInv, [Next]_vars PROVE LockOwner'
  OBVIOUS
<1> USE ConstantsAssumption DEF IInv, TypeOK, LockOwner, ThreadType
<1>1. ASSUME NEW p \in Producers, LogEnter(p) \/ ProducerStep(p)
      PROVE  LockOwner'
  <2>1. CASE TryLock(p)
    BY <2>1 DEF TryLock, Moves
  <2>2. CASE QueueFull(p)
    BY <2>2 DEF QueueFull, Moves
  <2>3. CASE StampSlot(p)
    BY <2>3 DEF StampSlot, Moves
  <2>4. CASE PublishSlot(p)
    BY <2>4 DEF PublishSlot, Moves
  <2>5. CASE SignalWorker(p)
    BY <2>5 DEF SignalWorker, Moves, CondSignal
  <2>6. CASE LogEnter(p) \/ TryLockBusy(p) \/ CountBusy(p) \/ CountFull(p)
    BY <2>6 DEF LogEnter, TryLockBusy, CountBusy, CountFull, Moves
  <2> QED
    BY <1>1, <2>1, <2>2, <2>3, <2>4, <2>5, <2>6 DEF ProducerStep
<1>2. CASE WorkerStep \/ SpuriousWakeup
  BY <1>2 DEF WorkerStep, SpuriousWakeup, WorkerAllocates, WorkerAllocFails,
     WorkerLock, WorkerFindsNothing, WorkerWaits, WorkerTakes, WorkerLeaves,
     WorkerUnlocks, MirrorBusy, MirrorFull, WorkerRenders, WorkerFansOut,
     WorkerCounts, WorkerMoves
<1>3. CASE AddStream \/ StartEnter \/ Shutdown \/ Destroy \/ ControllerStep
  <2>1. queue_mutex' = queue_mutex /\ ppc' = ppc
    BY <1>3 DEF AddStream, StartEnter, Shutdown, RequestShutdown, Destroy,
       ControllerStep, ThreadCreate, ThreadCreateFails, StartReturns,
       SignalShutdown, Join, JoinTimesOut, DestroyStreams, Release,
       ControllerMoves
  <2>2. CASE ThreadCreate
    BY <2>1, <2>2 DEF ThreadCreate, ControllerMoves, ThreadFlag
  <2>3. CASE SignalShutdown \/ Join
    BY <2>1, <2>3 DEF SignalShutdown, CondSignal, Join
  <2>4. CASE ~ThreadCreate /\ ~SignalShutdown /\ ~Join
    <3>1. wpc' = wpc
      BY <1>3, <2>4 DEF AddStream, StartEnter, Shutdown, RequestShutdown,
         Destroy, ControllerStep, ThreadCreateFails, StartReturns,
         JoinTimesOut, DestroyStreams, Release
    <3> QED
      BY <2>1, <3>1
  <2> QED
    BY <2>2, <2>3, <2>4
<1>4. ASSUME NEW f \in Flushers,
             \/ FlushEnter(f) \/ FlushUnstarted(f) \/ FlushSample(f)
             \/ FlushDone(f) \/ FlushTimesOut(f)
      PROVE  LockOwner'
  BY <1>4, FlusherFrame
<1>5. CASE UNCHANGED vars
  BY <1>5 DEF vars
<1> QED
  BY <1>1, <1>2, <1>3, <1>4, <1>5 DEF Next, Terminated

LEMMA ThreadFlagStep == IInv /\ [Next]_vars => ThreadFlag'
<1> SUFFICES ASSUME IInv, [Next]_vars PROVE ThreadFlag'
  OBVIOUS
<1> USE DEF IInv, TypeOK, ThreadFlag
<1>1. ASSUME NEW p \in Producers, LogEnter(p) \/ ProducerStep(p)
      PROVE  ThreadFlag'
  BY <1>1 DEF StampSlot, PublishSlot, LogEnter, TryLockBusy, CountBusy,
     TryLock, QueueFull, CountFull, SignalWorker, ProducerStep, Moves,
     CondSignal
<1>2. CASE WorkerStep \/ SpuriousWakeup
  BY <1>2 DEF WorkerStep, SpuriousWakeup, WorkerAllocates, WorkerAllocFails,
     WorkerLock, WorkerFindsNothing, WorkerWaits, WorkerTakes, WorkerLeaves,
     WorkerUnlocks, MirrorBusy, MirrorFull, WorkerRenders, WorkerFansOut,
     WorkerCounts, WorkerMoves
<1>3. CASE AddStream \/ StartEnter \/ Shutdown \/ Destroy \/ ControllerStep
  BY <1>3 DEF AddStream, StartEnter, Shutdown, RequestShutdown, Destroy,
     ControllerStep, ThreadCreate, ThreadCreateFails, StartReturns,
     SignalShutdown, Join, JoinTimesOut, DestroyStreams, Release,
     ControllerMoves, CondSignal, AfterShutdown
<1>4. ASSUME NEW f \in Flushers,
             \/ FlushEnter(f) \/ FlushUnstarted(f) \/ FlushSample(f)
             \/ FlushDone(f) \/ FlushTimesOut(f)
      PROVE  ThreadFlag'
  BY <1>4, FlusherFrame
<1>5. CASE UNCHANGED vars
  BY <1>5 DEF vars
<1> QED
  BY <1>1, <1>2, <1>3, <1>4, <1>5 DEF Next, Terminated

-------------------------------------------------------------------------------
(* The ring, the numbering and the log. *)

LogState == RingShape /\ Numbering /\ RingContents /\ RecordInHand
            /\ InOrderDispatch

\* A step the log does not notice.
Quiet ==
  /\ UNCHANGED <<ring, queued_records_total, wrec, history>>
  /\ WorkerHasRecord' <=> WorkerHasRecord
  /\ \A p \in Producers : ppc'[p] = "copy" <=> ppc[p] = "copy"

LEMMA QuietKeeps == IInv /\ Quiet => LogState'
<1> SUFFICES ASSUME IInv, Quiet PROVE LogState'
  OBVIOUS
<1>1. Taken' = Taken /\ \A n : RecordAt(n)' = RecordAt(n)
  BY DEF Quiet, Taken, RecordAt
<1>2. RingShape'
  BY DEF IInv, Quiet, RingShape, Wrap
<1>3. Numbering'
  BY DEF IInv, Quiet, Numbering, HasRoom
<1>4. RingContents'
  BY <1>1 DEF IInv, Quiet, RingContents, Wrap
<1>5. RecordInHand'
  BY <1>1 DEF IInv, Quiet, RecordInHand
<1>6. InOrderDispatch'
  BY <1>1 DEF IInv, Quiet, InOrderDispatch
<1> QED
  BY <1>2, <1>3, <1>4, <1>5, <1>6 DEF LogState

LEMMA QuietSteps ==
  ASSUME IInv, [Next]_vars,
         \A p \in Producers : ~StampSlot(p) /\ ~PublishSlot(p),
         ~WorkerTakes, ~WorkerFansOut
  PROVE  Quiet
<1> USE DEF IInv, TypeOK, ThreadType
<1>1. ASSUME NEW p \in Producers, LogEnter(p) \/ ProducerStep(p)
      PROVE  Quiet
  <2>1. /\ UNCHANGED <<ring, queued_records_total, wrec, history>>
        /\ wpc' = wpc \/ (wpc = "waiting" /\ wpc' = "lock")
    BY <1>1 DEF ProducerStep, LogEnter, TryLockBusy, CountBusy, TryLock,
       QueueFull, CountFull, SignalWorker, CondSignal
  <2>2. \A q \in Producers : ppc'[q] = "copy" <=> ppc[q] = "copy"
    BY <1>1 DEF ProducerStep, LogEnter, TryLockBusy, CountBusy, TryLock,
       QueueFull, CountFull, SignalWorker, Moves
  <2> QED
    BY <2>1, <2>2 DEF Quiet, WorkerHasRecord
<1>2. CASE WorkerStep \/ SpuriousWakeup
  BY <1>2 DEF Quiet, WorkerHasRecord, WorkerStep, SpuriousWakeup,
     WorkerAllocates, WorkerAllocFails, WorkerLock, WorkerFindsNothing,
     WorkerWaits, WorkerLeaves, WorkerUnlocks, MirrorBusy, MirrorFull,
     WorkerRenders, WorkerCounts, WorkerMoves
<1>3. CASE AddStream \/ StartEnter \/ Shutdown \/ Destroy \/ ControllerStep
  <2>1. UNCHANGED <<ring, queued_records_total, wrec, history, ppc>>
    BY <1>3 DEF AddStream, StartEnter, Shutdown, RequestShutdown, Destroy,
       ControllerStep, ThreadCreate, ThreadCreateFails, StartReturns,
       SignalShutdown, Join, JoinTimesOut, DestroyStreams, Release,
       ControllerMoves
  <2>2. WorkerHasRecord' <=> WorkerHasRecord
    <3>1. CASE ThreadCreate
      BY <3>1 DEF ThreadCreate, ControllerMoves, ThreadFlag, WorkerHasRecord
    <3>2. CASE SignalShutdown \/ Join
      BY <3>2 DEF SignalShutdown, CondSignal, Join, WorkerHasRecord
    <3>3. CASE ~ThreadCreate /\ ~SignalShutdown /\ ~Join
      <4>1. wpc' = wpc
        BY <1>3, <3>3 DEF AddStream, StartEnter, Shutdown, RequestShutdown,
           Destroy, ControllerStep, ThreadCreateFails, StartReturns,
           JoinTimesOut, DestroyStreams, Release
      <4> QED
        BY <4>1 DEF WorkerHasRecord
    <3> QED
      BY <3>1, <3>2, <3>3
  <2> QED
    BY <2>1, <2>2 DEF Quiet
<1>4. ASSUME NEW f \in Flushers,
             \/ FlushEnter(f) \/ FlushUnstarted(f) \/ FlushSample(f)
             \/ FlushDone(f) \/ FlushTimesOut(f)
      PROVE  Quiet
  BY <1>4 DEF Quiet, WorkerHasRecord, FlushEnter, FlushUnstarted, FlushSample,
     FlushDone, FlushTimesOut, FlusherMoves
<1>5. CASE UNCHANGED vars
  BY <1>5 DEF Quiet, WorkerHasRecord, vars
<1> QED
  BY <1>1, <1>2, <1>3, <1>4, <1>5 DEF Next, Terminated

\* The slot that is stamped is none of the occupied ones.
LEMMA StampSlotStep ==
  ASSUME IInv, NEW p \in Producers, StampSlot(p)
  PROVE  LogState'
<1> USE ConstantsAssumption DEF IInv, TypeOK
<1>1. /\ UNCHANGED <<queue_head, queue_tail, queue_count, wpc, wrec, history>>
      /\ queue_count < BufferCapacity
      /\ ppc[p] = "locked"
  BY DEF StampSlot, Moves, HasRoom
<1>2. \A q \in Producers : (ppc[q] # "copy") /\ (ppc'[q] = "copy" <=> q = p)
  BY <1>1 DEF StampSlot, Moves, LockOwner, ThreadType
<1>3. \A k \in 0 .. queue_count - 1 :
        slots'[Wrap(queue_head + k)] = slots[Wrap(queue_head + k)]
  BY <1>1, SMTT(30) DEF StampSlot, RingShape, Wrap, QueueType
<1>4. Taken' = Taken /\ \A n : RecordAt(n)' = RecordAt(n)
  BY <1>1 DEF Taken, RecordAt
<1>5. RingShape'
  BY <1>1 DEF RingShape, Wrap
<1>6. Numbering'
  BY <1>1, <1>2 DEF Numbering, HasRoom, StampSlot, QueueType
<1>7. RingContents'
  BY <1>1, <1>3, <1>4 DEF RingContents, Wrap
<1>8. RecordInHand'
  BY <1>1, <1>4 DEF RecordInHand, WorkerHasRecord
<1>9. InOrderDispatch'
  BY <1>1, <1>4 DEF InOrderDispatch
<1> QED
  BY <1>5, <1>6, <1>7, <1>8, <1>9 DEF LogState

\* The record published completes the slot behind the occupied ones.
LEMMA PublishSlotStep ==
  ASSUME IInv, NEW p \in Producers, PublishSlot(p)
  PROVE  LogState'
<1> USE ConstantsAssumption DEF IInv, TypeOK
<1>1. /\ UNCHANGED <<queue_head, queued_records_total, wpc, wrec, dispatched>>
      /\ queue_count' = queue_count + 1
      /\ admitted' = Append(admitted, p)
      /\ ppc[p] = "copy"
  BY DEF PublishSlot, Moves
<1>2. \A q \in Producers : ppc'[q] # "copy"
  BY <1>1 DEF PublishSlot, Moves, LockOwner, ThreadType
<1>3. /\ queue_count < BufferCapacity
      /\ slots[queue_tail].sequence_id = Len(admitted) + 1
      /\ queued_records_total = Len(admitted) + 1
  BY <1>1 DEF Numbering, HasRoom
<1>4. /\ Len(admitted') = Len(admitted) + 1
      /\ \A n \in 1 .. Len(admitted) : admitted'[n] = admitted[n]
      /\ admitted'[Len(admitted) + 1] = p
  BY <1>1 DEF LogType
<1>5. Taken' = Taken /\ Taken \in 0 .. Len(admitted)
  <2>1. queue_count \in Nat /\ Len(admitted) \in Nat /\ queue_count <= Len(admitted)
    BY DEF QueueType, LogType, RingShape
  <2> QED
    BY <1>1, <1>4, <2>1 DEF Taken
<1>6. \A n \in 1 .. Len(admitted) : RecordAt(n)' = RecordAt(n)
  BY <1>4 DEF RecordAt
<1>7. \A n : n = Len(admitted) + 1 =>
              RecordAt(n)' = [sequence_id |-> n, message |-> p]
  BY <1>4 DEF RecordAt
<1>8. RingShape'
  <2>1. queue_tail' = Wrap(queue_tail + 1)
    <3>1. queue_tail \in 0 .. BufferCapacity - 1 /\ BufferCapacity \in Nat \ {0}
      BY DEF QueueType
    <3> HIDE DEF IInv, TypeOK
    <3> QED
      BY <3>1, NextIndex DEF PublishSlot, Wrap
  <2>2. queue_tail' = Wrap(queue_head + queue_count + 1)
    BY <1>3, <2>1 DEF RingShape, Wrap, QueueType
  <2> QED
    BY <1>1, <1>4, <2>2 DEF RingShape, Wrap, QueueType, LogType
<1>9. Numbering'
  BY <1>1, <1>2, <1>3, <1>4 DEF Numbering
<1>10. RingContents'
  <2> SUFFICES ASSUME NEW k \in 0 .. queue_count
               PROVE  slots'[Wrap(queue_head + k)] = RecordAt(Taken + k + 1)'
    BY <1>1, <1>5 DEF RingContents, Wrap, QueueType
  <2> DEFINE n == Taken + k + 1
  <2>1. CASE k = queue_count
    <3>1. slots'[Wrap(queue_head + k)] =
            [sequence_id |-> Len(admitted) + 1, message |-> p]
      BY <1>3, <2>1 DEF PublishSlot, RingShape, QueueType
    <3>2. n = Len(admitted) + 1
      BY <2>1 DEF Taken, QueueType, LogType
    <3>3. RecordAt(n)' = [sequence_id |-> n, message |-> p]
      BY <1>5, <1>7, <3>2 DEF RecordAt
    <3> QED
      BY <3>1, <3>2, <3>3
  <2>2. CASE k < queue_count
    <3>1. slots'[Wrap(queue_head + k)] = slots[Wrap(queue_head + k)]
      <4>1. /\ Wrap(queue_head + k) # queue_tail
            /\ Wrap(queue_head + k) \in 0 .. BufferCapacity - 1
        BY <1>3, <2>2 DEF RingShape, Wrap, QueueType
      <4> QED
        BY <4>1 DEF PublishSlot, QueueType
    <3>2. n \in 1 .. Len(admitted)
      BY <1>5, <2>2 DEF Taken, QueueType, LogType
    <3>3. RecordAt(n)' = RecordAt(n)
      BY <1>4, <1>5, <3>2 DEF RecordAt
    <3>4. slots[Wrap(queue_head + k)] = RecordAt(n)
      BY <2>2 DEF RingContents, QueueType
    <3> QED
      BY <3>1, <3>3, <3>4
  <2> QED
    BY <2>1, <2>2 DEF QueueType
<1>11. RecordInHand'
  BY <1>1, <1>5, <1>6 DEF RecordInHand, WorkerHasRecord, LogType
<1>12. InOrderDispatch'
  BY <1>1, <1>4, <1>6 DEF InOrderDispatch, LogType
<1> QED
  BY <1>8, <1>9, <1>10, <1>11, <1>12 DEF LogState

\* The record taken is the oldest, and the others move up by one.
LEMMA WorkerTakesStep == IInv /\ WorkerTakes => LogState'
<1> SUFFICES ASSUME IInv, WorkerTakes PROVE LogState'
  OBVIOUS
<1> USE ConstantsAssumption DEF IInv, TypeOK
<1>1. /\ UNCHANGED <<slots, queue_tail, queued_records_total, history, ppc>>
      /\ queue_count > 0 /\ queue_count' = queue_count - 1
      /\ wpc = "test" /\ wpc' = "mirrorBusy"
      /\ wrec' = slots[queue_head]
  BY DEF WorkerTakes, WorkerMoves
<1>2. queue_head' = Wrap(queue_head + 1) /\ queue_head' \in 0 .. BufferCapacity - 1
  BY NextIndex DEF WorkerTakes, Wrap, QueueType
<1>3. Taken' = Taken + 1 /\ \A n : RecordAt(n)' = RecordAt(n)
  BY <1>1 DEF Taken, RecordAt, QueueType, LogType
<1>4. RingShape'
  BY <1>1, <1>2 DEF RingShape, Wrap, QueueType, LogType
<1>5. Numbering'
  BY <1>1 DEF Numbering, LockOwner, ThreadType
<1>6. RingContents'
  <2> SUFFICES ASSUME NEW k \in 0 .. queue_count - 2
               PROVE  slots[Wrap(queue_head' + k)] = RecordAt(Taken + 1 + k + 1)
    BY <1>1, <1>3 DEF RingContents, Wrap, QueueType
  <2>1. Wrap(queue_head' + k) = Wrap(queue_head + (k + 1))
    BY <1>1, <1>2 DEF Wrap, QueueType
  <2>2. slots[Wrap(queue_head + (k + 1))] = RecordAt(Taken + (k + 1) + 1)
    BY DEF RingContents, QueueType
  <2> QED
    BY <2>1, <2>2 DEF Taken, QueueType, LogType
<1>7. RecordInHand'
  <2>1. slots[Wrap(queue_head + 0)] = RecordAt(Taken + 0 + 1)
    BY <1>1 DEF RingContents, QueueType
  <2>2. wrec' = RecordAt(Taken + 1)
    BY <1>1, <2>1 DEF Wrap, QueueType, Taken, LogType
  <2> QED
    BY <1>1, <1>3, <2>2 DEF RecordInHand, WorkerHasRecord
<1>8. InOrderDispatch'
  BY <1>1, <1>3 DEF InOrderDispatch
<1> QED
  BY <1>4, <1>5, <1>6, <1>7, <1>8 DEF LogState

\* The record dispatched is the next one of the log.
LEMMA WorkerFansOutStep == IInv /\ WorkerFansOut => LogState'
<1> SUFFICES ASSUME IInv, WorkerFansOut PROVE LogState'
  OBVIOUS
<1> USE DEF IInv, TypeOK
<1>1. /\ UNCHANGED <<ring, queued_records_total, wrec, admitted, ppc>>
      /\ wpc = "fanOut" /\ wpc' = "count"
      /\ dispatched' = Append(dispatched, wrec)
  BY DEF WorkerFansOut, WorkerMoves
<1>2. Taken' = Taken /\ \A n : RecordAt(n)' = RecordAt(n)
  BY <1>1 DEF Taken, RecordAt
<1>3. /\ Taken = Len(dispatched) + 1
      /\ wrec = RecordAt(Len(dispatched) + 1)
      /\ Taken <= Len(admitted)
  BY <1>1 DEF RecordInHand, WorkerHasRecord, Taken, QueueType, LogType
<1>4. /\ Len(dispatched') = Len(dispatched) + 1
      /\ \A n \in 1 .. Len(dispatched) : dispatched'[n] = dispatched[n]
      /\ dispatched'[Len(dispatched) + 1] = wrec
  BY <1>1 DEF LogType
<1>5. RingShape'
  BY <1>1 DEF RingShape, Wrap
<1>6. Numbering'
  BY <1>1 DEF Numbering, HasRoom
<1>7. RingContents'
  BY <1>1, <1>2 DEF RingContents, Wrap
<1>8. RecordInHand'
  BY <1>1, <1>2, <1>3, <1>4 DEF RecordInHand, WorkerHasRecord
<1>9. InOrderDispatch'
  BY <1>1, <1>2, <1>3, <1>4 DEF InOrderDispatch, LogType
<1> QED
  BY <1>5, <1>6, <1>7, <1>8, <1>9 DEF LogState

-------------------------------------------------------------------------------
LEMMA InvariantStep == IInv /\ [Next]_vars => IInv'
<1> SUFFICES ASSUME IInv, [Next]_vars PROVE IInv'
  OBVIOUS
<1>1. TypeOK'
  BY QueueTypeStep, CounterTypeStep, ThreadTypeStep, FlagTypeStep,
     FlushTypeStep, LogTypeStep DEF TypeOK
<1>2. LogState'
  BY QuietSteps, QuietKeeps, StampSlotStep, PublishSlotStep, WorkerTakesStep,
     WorkerFansOutStep
<1> QED
  BY <1>1, <1>2, LockOwnerStep, ThreadFlagStep DEF IInv, LogState

\* The invariant of the core: every part of it holds in every reachable state,
\* for every capacity and any number of threads.
THEOREM Invariance == Spec => []IInv
BY InitInvariant, InvariantStep, PTL DEF Spec

\* The ring's indices, its count and every other field keep their types; no
\* step overruns the ring (mp_logger.c:863-885, 340-357).
THEOREM TypeCorrect == Spec => []TypeOK
<1>1. IInv => TypeOK
  BY DEF IInv
<1> QED
  BY <1>1, Invariance, PTL

\* Records go out in admission order, whole, none lost and none twice.
THEOREM DispatchInOrder == Spec => []InOrderDispatch
<1>1. IInv => InOrderDispatch
  BY DEF IInv
<1> QED
  BY <1>1, Invariance, PTL

-------------------------------------------------------------------------------
(* The core implements the abstract log: publishing admits, taking takes,  *)
(* the fan-out dispatches, and every other step stutters.                  *)

LEMMA StepRefines == IInv /\ [Next]_vars => [Log!Next]_(Log!logVars)
<1> SUFFICES ASSUME IInv, [Next]_vars PROVE [Log!Next]_(Log!logVars)
  OBVIOUS
<1> USE ConstantsAssumption DEF IInv, TypeOK, Log!Next, Log!logVars
<1>1. ASSUME NEW p \in Producers, StampSlot(p) PROVE UNCHANGED Log!logVars
  BY <1>1 DEF StampSlot, Taken
<1>2. ASSUME NEW p \in Producers, PublishSlot(p) PROVE Log!Admit(p)
  <2>1. /\ queue_count' = queue_count + 1 /\ dispatched' = dispatched
        /\ admitted' = Append(admitted, p)
        /\ queue_count < BufferCapacity
    BY <1>2 DEF PublishSlot, Moves, Numbering, HasRoom
  <2>2. Taken' = Taken /\ Len(admitted) - Taken < BufferCapacity
    BY <2>1 DEF Taken, QueueType, LogType, RingShape
  <2> QED
    BY <2>1, <2>2 DEF Log!Admit
<1>3. CASE WorkerTakes
  <2>1. /\ UNCHANGED history /\ wpc = "test"
        /\ queue_count > 0 /\ queue_count' = queue_count - 1
    BY <1>3 DEF WorkerTakes, WorkerMoves
  <2>2. /\ Taken' = Taken + 1 /\ Taken < Len(admitted)
        /\ Taken = Len(dispatched)
    BY <2>1 DEF Taken, RecordInHand, WorkerHasRecord, QueueType, LogType
  <2> QED
    BY <2>1, <2>2 DEF Log!Take
<1>4. CASE WorkerFansOut
  <2>1. /\ UNCHANGED <<queue_count, admitted>> /\ wpc = "fanOut"
        /\ dispatched' = Append(dispatched, wrec)
    BY <1>4 DEF WorkerFansOut, WorkerMoves
  <2>2. /\ Taken' = Taken /\ Taken = Len(dispatched) + 1
        /\ wrec = RecordAt(Taken)
    BY <2>1 DEF Taken, RecordInHand, WorkerHasRecord
  <2>3. Len(dispatched) < Taken
    BY <2>2 DEF LogType
  <2> QED
    BY <2>1, <2>2, <2>3 DEF Log!Dispatch, RecordAt
<1>5. CASE Quiet
  BY <1>5 DEF Quiet, Taken
<1> QED
  BY <1>1, <1>2, <1>3, <1>4, <1>5, QuietSteps

\* Every behaviour of the threads is a behaviour of the abstract log: FIFO
\* order, at most buffer_capacity records waiting and at most one in the
\* worker's hands, whatever is started, stopped or abandoned.
THEOREM Refinement == Spec => ImplementsBoundedLog
<1>1. Init => Log!Init
  BY ConstantsAssumption DEF Init, Log!Init, Taken
<1> QED
  BY <1>1, StepRefines, Invariance, PTL DEF Spec, ImplementsBoundedLog, Log!Spec

-------------------------------------------------------------------------------
(* What a flush promises, and what is left behind by a worker that stops.  *)

LEMMA FlushInvStep == IInv /\ FlushInv /\ [Next]_vars => FlushInv'
<1> SUFFICES ASSUME IInv, FlushInv, [Next]_vars PROVE FlushInv'
  OBVIOUS
<1>0. /\ CounterType /\ FlushType /\ LogType /\ ThreadType
      /\ Numbering /\ ThreadFlag
  BY DEF IInv, TypeOK
<1> USE <1>0 DEF FlushInv, CounterType, FlushType, LogType
<1>1. CASE WorkerFansOut
  BY <1>1 DEF WorkerFansOut, WorkerMoves
<1>2. CASE WorkerCounts
  BY <1>2 DEF WorkerCounts, WorkerMoves
<1>3. ASSUME NEW p \in Producers, PublishSlot(p) PROVE FlushInv'
  <2>1. Len(admitted') = Len(admitted) + 1
    BY <1>3 DEF PublishSlot
  <2>2. UNCHANGED <<dispatched, totals, wpc, flushing>>
    BY <1>3 DEF PublishSlot, Moves
  <2> QED
    BY <2>1, <2>2
<1>4. ASSUME NEW f \in Flushers, FlushSample(f) PROVE FlushInv'
  <2>1. Len(admitted) <= queued_records_total
    BY DEF Numbering
  <2>2. /\ UNCHANGED <<history, totals, wpc, floor>>
        /\ ftarget'[f] = queued_records_total /\ fpc'[f] = "poll"
        /\ \A g \in Flushers : g # f => ftarget'[g] = ftarget[g] /\ fpc'[g] = fpc[g]
    BY <1>4 DEF FlushSample, FlusherMoves, ThreadType
  <2>3. \A g \in Flushers :
          /\ floor'[g] <= Len(admitted')
          /\ fpc'[g] = "poll" => floor'[g] <= ftarget'[g]
          /\ fpc'[g] = "drained" => floor'[g] <= Len(dispatched')
    <3> SUFFICES
          ASSUME NEW g \in Flushers
          PROVE  /\ floor'[g] <= Len(admitted')
                 /\ fpc'[g] = "poll" => floor'[g] <= ftarget'[g]
                 /\ fpc'[g] = "drained" => floor'[g] <= Len(dispatched')
      OBVIOUS
    <3>1. CASE g = f
      <4>1. /\ floor[f] \in Nat /\ Len(admitted) \in Nat
            /\ floor[f] <= Len(admitted)
        OBVIOUS
      <4> QED
        BY <2>1, <2>2, <3>1, <4>1
    <3>2. CASE g # f
      BY <2>2, <3>2
    <3> QED
      BY <3>1, <3>2
  <2> QED
    BY <2>2, <2>3
<1>5. ASSUME NEW f \in Flushers, FlushEnter(f) PROVE FlushInv'
  BY <1>5 DEF FlushEnter, FlusherMoves, ThreadType
<1>6. ASSUME NEW f \in Flushers,
             FlushUnstarted(f) \/ FlushDone(f) \/ FlushTimesOut(f)
      PROVE  FlushInv'
  <2>1. /\ UNCHANGED <<history, totals, wpc, floor, ftarget>>
        /\ fpc'[f] # "poll"
        /\ fpc'[f] = "drained" => /\ fpc[f] = "poll"
                                  /\ processed_records_total >= ftarget[f]
        /\ \A g \in Flushers : g # f => fpc'[g] = fpc[g]
    BY <1>6 DEF FlushUnstarted, FlushDone, FlushTimesOut, FlusherMoves,
       ThreadType
  <2>2. processed_records_total <= Len(dispatched)
    OBVIOUS
  <2>3. /\ floor[f] <= Len(admitted)
        /\ fpc'[f] = "drained" => floor[f] <= Len(dispatched)
    <3>1. /\ floor[f] \in Nat /\ ftarget[f] \in Nat
          /\ Len(dispatched) \in Nat /\ processed_records_total \in Nat
      OBVIOUS
    <3>2. /\ floor[f] <= Len(admitted)
          /\ fpc[f] = "poll" => floor[f] <= ftarget[f]
      OBVIOUS
    <3> QED
      BY <2>1, <2>2, <3>1, <3>2
  <2>4. \A g \in Flushers :
          /\ floor'[g] <= Len(admitted')
          /\ fpc'[g] = "poll" => floor'[g] <= ftarget'[g]
          /\ fpc'[g] = "drained" => floor'[g] <= Len(dispatched')
    BY <2>1, <2>3
  <2> QED
    BY <2>1, <2>4
<1>7. ASSUME NEW p \in Producers, LogEnter(p) \/ ProducerStep(p), ~PublishSlot(p)
      PROVE  FlushInv'
  <2>1. /\ UNCHANGED <<history, processed_records_total, flushing>>
        /\ wpc' = wpc \/ (wpc = "waiting" /\ wpc' = "lock")
    BY <1>7 DEF ProducerStep, LogEnter, TryLockBusy, CountBusy, TryLock,
       QueueFull, CountFull, StampSlot, SignalWorker, CondSignal, Moves
  <2> QED
    BY <2>1
<1>8. CASE (WorkerStep \/ SpuriousWakeup) /\ ~WorkerFansOut /\ ~WorkerCounts
  <2>1. /\ UNCHANGED <<history, processed_records_total, flushing>>
        /\ wpc # "count" /\ wpc' # "count"
    BY <1>8 DEF WorkerStep, SpuriousWakeup, WorkerAllocates, WorkerAllocFails,
       WorkerLock, WorkerFindsNothing, WorkerWaits, WorkerTakes, WorkerLeaves,
       WorkerUnlocks, MirrorBusy, MirrorFull, WorkerRenders, WorkerMoves
  <2> QED
    BY <2>1
<1>9. CASE AddStream \/ StartEnter \/ Shutdown \/ Destroy \/ ControllerStep
  <2>1. UNCHANGED <<history, totals, flushing>>
    BY <1>9 DEF AddStream, StartEnter, Shutdown, RequestShutdown, Destroy,
       ControllerStep, ThreadCreate, ThreadCreateFails, StartReturns,
       SignalShutdown, Join, JoinTimesOut, DestroyStreams, Release,
       ControllerMoves
  <2>2. wpc' = "count" <=> wpc = "count"
    BY <1>9 DEF AddStream, StartEnter, Shutdown, RequestShutdown, Destroy,
       ControllerStep, ThreadCreate, ThreadCreateFails, StartReturns,
       SignalShutdown, CondSignal, Join, JoinTimesOut, DestroyStreams, Release,
       ControllerMoves, ThreadFlag
  <2> QED
    BY <2>1, <2>2
<1>10. CASE UNCHANGED vars
  BY <1>10 DEF vars
<1> QED
  BY <1>1, <1>2, <1>3, <1>4, <1>5, <1>6, <1>7, <1>8, <1>9, <1>10
     DEF Next, Terminated

LEMMA StopInvStep == IInv /\ StopInv /\ [Next]_vars => StopInv'
<1> SUFFICES ASSUME IInv, StopInv, [Next]_vars PROVE StopInv'
  OBVIOUS
<1>0. CounterType /\ FlagType /\ LogType /\ RecordInHand /\ ThreadFlag
  BY DEF IInv, TypeOK
<1> USE <1>0 DEF StopInv, CounterType, FlagType, LogType
<1>1. ASSUME NEW p \in Producers, LogEnter(p) \/ ProducerStep(p)
      PROVE  StopInv'
  <2>1. CASE PublishSlot(p)
    <3>1. Len(admitted') = Len(admitted) + 1
      BY <2>1 DEF PublishSlot
    <3>2. UNCHANGED <<dispatched, drops, wpc, mirror, flags>>
      BY <2>1 DEF PublishSlot, Moves
    <3> QED
      BY <3>1, <3>2
  <2>2. CASE ~PublishSlot(p)
    <3>1. /\ UNCHANGED <<history, mirror, flags>>
          /\ wpc' = wpc \/ (wpc = "waiting" /\ wpc' = "lock")
      BY <1>1, <2>2 DEF ProducerStep, LogEnter, TryLockBusy, CountBusy,
         TryLock, QueueFull, CountFull, StampSlot, SignalWorker, CondSignal,
         Moves
    <3>2. /\ dropped_busy_total' >= dropped_busy_total
          /\ dropped_full_total' >= dropped_full_total
      <4>1. dropped_busy_total \in Nat /\ dropped_full_total \in Nat
        OBVIOUS
      <4>2. CASE CountBusy(p)
        BY <4>1, <4>2 DEF CountBusy
      <4>3. CASE CountFull(p)
        BY <4>1, <4>3 DEF CountFull
      <4>4. CASE ~CountBusy(p) /\ ~CountFull(p)
        <5>1. UNCHANGED drops
          BY <1>1, <2>2, <4>4 DEF ProducerStep, LogEnter, TryLockBusy, TryLock,
             QueueFull, StampSlot, SignalWorker
        <5> QED
          BY <4>1, <5>1
      <4> QED
        BY <4>2, <4>3, <4>4
    <3>3. dropped_busy_total' \in Nat /\ dropped_full_total' \in Nat
      BY CounterTypeStep
    <3> QED
      BY <3>1, <3>2, <3>3
  <2> QED
    BY <2>1, <2>2
<1>2. CASE WorkerLeaves
  <2>1. Len(dispatched) = Len(admitted)
    BY <1>2 DEF WorkerLeaves, WorkerMoves, RecordInHand, WorkerHasRecord, Taken
  <2> QED
    BY <1>2, <2>1 DEF WorkerLeaves, WorkerMoves, WorkerUnlocks
<1>3. CASE MirrorBusy
  BY <1>3, SMTT(30) DEF MirrorBusy, WorkerMoves
<1>4. CASE MirrorFull
  BY <1>4, SMTT(30) DEF MirrorFull, WorkerMoves
<1>5. CASE WorkerFansOut
  BY <1>5 DEF WorkerFansOut, WorkerMoves
<1>6. CASE WorkerAllocates
  BY <1>6 DEF WorkerAllocates, WorkerMoves
<1>7. CASE WorkerAllocFails \/ WorkerLock \/ WorkerFindsNothing \/ WorkerWaits
           \/ WorkerTakes \/ WorkerRenders \/ WorkerCounts \/ SpuriousWakeup
  <2>1. /\ UNCHANGED <<history, drops, mirror, flags>>
        /\ wpc' \notin {"lastBusy", "lastFull", "ended"}
    BY <1>7 DEF SpuriousWakeup, WorkerAllocFails, WorkerLock,
       WorkerFindsNothing, WorkerWaits, WorkerTakes, WorkerUnlocks,
       WorkerRenders, WorkerCounts, WorkerMoves
  <2> QED
    BY <2>1
<1>8. CASE AddStream \/ StartEnter \/ Shutdown \/ Destroy \/ ControllerStep
  <2>1. UNCHANGED <<history, drops, mirror>>
    BY <1>8 DEF AddStream, StartEnter, Shutdown, RequestShutdown, Destroy,
       ControllerStep, ThreadCreate, ThreadCreateFails, StartReturns,
       SignalShutdown, Join, JoinTimesOut, DestroyStreams, Release,
       ControllerMoves
  <2>2. CASE RequestShutdown
    BY <2>1, <2>2 DEF RequestShutdown
  <2>3. CASE StartEnter
    BY <2>1, <2>3 DEF StartEnter, ControllerMoves, ThreadFlag
  <2>4. CASE ThreadCreate \/ SignalShutdown \/ Join
    <3>1. /\ UNCHANGED <<shutdown_requested, atShutdown>>
          /\ wpc' = wpc \/ wpc' \notin {"lastBusy", "lastFull", "ended"}
      BY <2>4 DEF ThreadCreate, SignalShutdown, CondSignal, Join
    <3> QED
      BY <2>1, <3>1
  <2>5. CASE \/ AddStream \/ ThreadCreateFails \/ StartReturns \/ JoinTimesOut
             \/ DestroyStreams \/ Release \/ (Destroy /\ ~RequestShutdown)
    <3>1. UNCHANGED <<wpc, shutdown_requested, atShutdown>>
      BY <2>5 DEF AddStream, ThreadCreateFails, StartReturns, JoinTimesOut,
         DestroyStreams, Release, Destroy
    <3> QED
      BY <2>1, <3>1
  <2> QED
    BY <1>8, <2>2, <2>3, <2>4, <2>5 DEF Shutdown, ControllerStep
<1>9. ASSUME NEW f \in Flushers,
             \/ FlushEnter(f) \/ FlushUnstarted(f) \/ FlushSample(f)
             \/ FlushDone(f) \/ FlushTimesOut(f)
      PROVE  StopInv'
  BY <1>9, FlusherFrame
<1>10. CASE UNCHANGED vars
  BY <1>10 DEF vars
<1> QED
  BY <1>1, <1>2, <1>3, <1>4, <1>5, <1>6, <1>7, <1>8, <1>9, <1>10
     DEF Next, Terminated, WorkerStep

LEMMA StreamInvStep == IInv /\ StreamInv /\ [Next]_vars => StreamInv'
<1> SUFFICES ASSUME IInv, StreamInv, [Next]_vars PROVE StreamInv'
  OBVIOUS
<1> USE DEF IInv, TypeOK, StreamInv, WorkerHasStream, FlagType
<1>1. ASSUME NEW p \in Producers, LogEnter(p) \/ ProducerStep(p)
      PROVE  StreamInv'
  BY <1>1 DEF ProducerStep, LogEnter, TryLockBusy, CountBusy, TryLock,
     QueueFull, CountFull, StampSlot, PublishSlot, SignalWorker, CondSignal,
     Moves
<1>2. CASE WorkerStep \/ SpuriousWakeup
  BY <1>2 DEF WorkerStep, SpuriousWakeup, WorkerAllocates, WorkerAllocFails,
     WorkerLock, WorkerFindsNothing, WorkerWaits, WorkerTakes, WorkerLeaves,
     WorkerUnlocks, MirrorBusy, MirrorFull, WorkerRenders, WorkerFansOut,
     WorkerCounts, WorkerMoves
<1>3. CASE AddStream \/ StartEnter \/ Shutdown \/ Destroy \/ ControllerStep
  BY <1>3 DEF AddStream, StartEnter, Shutdown, RequestShutdown, Destroy,
     ControllerStep, ThreadCreate, ThreadCreateFails, StartReturns,
     SignalShutdown, CondSignal, Join, JoinTimesOut, DestroyStreams, Release,
     ControllerMoves, ThreadFlag, AfterShutdown
<1>4. ASSUME NEW f \in Flushers,
             \/ FlushEnter(f) \/ FlushUnstarted(f) \/ FlushSample(f)
             \/ FlushDone(f) \/ FlushTimesOut(f)
      PROVE  StreamInv'
  BY <1>4, FlusherFrame
<1>5. CASE UNCHANGED vars
  BY <1>5 DEF vars
<1> QED
  BY <1>1, <1>2, <1>3, <1>4, <1>5 DEF Next, Terminated

LEMMA PromisesHold == Spec => [](FlushInv /\ StopInv /\ StreamInv)
<1>1. Init => FlushInv /\ StopInv /\ StreamInv
  BY DEF Init, FlushInv, StopInv, StreamInv, WorkerHasStream
<1> QED
  BY <1>1, FlushInvStep, StopInvStep, StreamInvStep, Invariance, PTL DEF Spec

\* A flush that returns OK because the processed total reached its target has
\* seen every record admitted before it was called go out.
THEOREM FlushKeepsPromise == Spec => []FlushDrained
<1>1. IInv /\ FlushInv => FlushDrained
  BY DEF IInv, TypeOK, FlushType, LogType, FlushInv, FlushDrained
<1> QED
  BY <1>1, Invariance, PromisesHold, PTL

\* A worker leaves its loop only with every record admitted before the
\* shutdown dispatched.
THEOREM StopIsDrained == Spec => []DrainedBeforeStop
<1>1. IInv /\ StopInv => DrainedBeforeStop
  BY DEF IInv, TypeOK, FlagType, LogType, StopInv, DrainedBeforeStop
<1> QED
  BY <1>1, Invariance, PromisesHold, PTL

\* When the worker has ended, the last warnings handed to the backup logger had
\* totals that include every drop counted before the shutdown.
THEOREM StopWarnsOfDrops == Spec => []DropsWarnedOfAtStop
<1>1. IInv /\ StopInv => DropsWarnedOfAtStop
  BY DEF IInv, TypeOK, FlagType, CounterType, StopInv, DropsWarnedOfAtStop
<1> QED
  BY <1>1, Invariance, PromisesHold, PTL

\* No worker ever runs over an empty stream table before destroy clears it.
THEOREM WorkerNeverStreamless == Spec => []WorkerHasStream
<1>1. StreamInv => WorkerHasStream
  BY DEF StreamInv
<1> QED
  BY <1>1, PromisesHold, PTL

\* A flush that finds no worker and an empty ring has nothing left to wait for.
THEOREM EmptyMeansDispatched == Spec => EmptyAnswer
<1> DEFINE Answer ==
      \A f \in Flushers :
        fpc[f] = "unstarted" /\ fpc'[f] = "empty" /\ wpc \in {"none", "joined"}
          => Len(dispatched) >= floor[f]
<1>1. IInv /\ FlushInv /\ [Next]_vars => Answer
  <2> SUFFICES ASSUME IInv, FlushInv, [Next]_vars, NEW f \in Flushers,
                      fpc[f] = "unstarted", fpc'[f] = "empty",
                      wpc \in {"none", "joined"}
               PROVE  Len(dispatched) >= floor[f]
    OBVIOUS
  <2>1. queue_count = 0
    <3>1. PICK g \in Flushers : \/ FlushEnter(g) \/ FlushUnstarted(g)
                                \/ FlushSample(g) \/ FlushDone(g)
                                \/ FlushTimesOut(g)
      BY DEF Next, vars, Terminated, flushing,
         ProducerStep, LogEnter, TryLockBusy, CountBusy, TryLock, QueueFull,
         CountFull, StampSlot, PublishSlot, SignalWorker, Moves,
         WorkerStep, SpuriousWakeup, WorkerAllocates, WorkerAllocFails,
         WorkerLock, WorkerFindsNothing, WorkerWaits, WorkerTakes,
         WorkerLeaves, MirrorBusy, MirrorFull, WorkerRenders, WorkerFansOut,
         WorkerCounts, WorkerMoves,
         AddStream, StartEnter, Shutdown, RequestShutdown, Destroy,
         ControllerStep, ThreadCreate, ThreadCreateFails, StartReturns,
         SignalShutdown, Join, JoinTimesOut, DestroyStreams, Release,
         ControllerMoves
    <3>2. fpc \in [Flushers -> Returned \cup {"unstarted", "sample", "poll"}]
      BY DEF IInv, TypeOK, ThreadType
    <3> QED
      BY <3>1, <3>2 DEF FlushEnter, FlushUnstarted, FlushSample, FlushDone,
         FlushTimesOut, FlusherMoves, Returned
  <2>2. ~WorkerHasRecord
    BY DEF WorkerHasRecord
  <2>3. Len(dispatched) = Len(admitted)
    BY <2>1, <2>2 DEF IInv, TypeOK, LogType, RecordInHand, Taken
  <2> QED
    BY <2>3 DEF IInv, TypeOK, LogType, FlushType, FlushInv
<1>2. [][Answer]_vars <=> EmptyAnswer
  BY PTL DEF Answer, EmptyAnswer
<1> QED
  BY <1>1, <1>2, Invariance, PromisesHold, PTL DEF Spec

-------------------------------------------------------------------------------
(* What a waiting thread waits for.                                        *)

\* The worker sleeps over a record only while the producer that published one
\* has still to signal: waits begin with the ring empty and the lock held
\* (mp_logger.c:340-343), so no admission's wakeup falls between the test and
\* the wait.  The wakeup of shutdown, sent without the lock, is not so: see
\* ShutdownStopsWorker.
WakeupPending ==
  /\ wpc = "enterWait" => queue_count = 0
  /\ wpc = "waiting" /\ queue_count > 0 =>
       \E p \in Producers : ppc[p] = "signal"

LEMMA WakeupStep == IInv /\ WakeupPending /\ [Next]_vars => WakeupPending'
<1> SUFFICES ASSUME IInv, WakeupPending, [Next]_vars PROVE WakeupPending'
  OBVIOUS
<1>0. /\ queue_count \in Nat /\ LockOwner
      /\ ppc \in [Producers -> {"idle", "trylock", "busy", "locked", "full",
                                "copy", "signal"}]
  BY ConstantsAssumption DEF IInv, TypeOK, QueueType, ThreadType
<1>1. ASSUME NEW p \in Producers, PublishSlot(p)
      PROVE  WakeupPending'
  <2>1. wpc' = wpc /\ ppc'[p] = "signal"
    BY <1>0, <1>1 DEF PublishSlot, Moves
  <2>2. wpc # "enterWait"
    BY <1>0, <1>1, ConstantsAssumption DEF PublishSlot, Moves, LockOwner
  <2> QED
    BY <2>1, <2>2 DEF WakeupPending
<1>2. ASSUME NEW p \in Producers, SignalWorker(p)
      PROVE  WakeupPending'
  <2>1. wpc' # "waiting" /\ (wpc' = "enterWait" => wpc = "enterWait")
        /\ queue_count' = queue_count
    BY <1>2 DEF SignalWorker, CondSignal
  <2> QED
    BY <2>1 DEF WakeupPending
<1>3. ASSUME NEW p \in Producers, LogEnter(p) \/ ProducerStep(p),
             ~PublishSlot(p), ~SignalWorker(p)
      PROVE  WakeupPending'
  <2>1. wpc' = wpc /\ queue_count' = queue_count
    BY <1>3 DEF LogEnter, ProducerStep, TryLockBusy, CountBusy, TryLock,
       QueueFull, CountFull, StampSlot
  <2>2. \A q \in Producers : ppc[q] = "signal" => ppc'[q] = "signal"
    BY <1>0, <1>3 DEF LogEnter, ProducerStep, TryLockBusy, CountBusy, TryLock,
       QueueFull, CountFull, StampSlot, Moves
  <2> QED
    BY <2>1, <2>2 DEF WakeupPending
<1>4. CASE WorkerFindsNothing
  BY <1>4 DEF WorkerFindsNothing, WorkerMoves, WakeupPending
<1>5. CASE WorkerWaits
  <2>1. wpc' = "waiting" /\ queue_count' = 0
    BY <1>5 DEF WorkerWaits, WorkerMoves, WorkerUnlocks, WakeupPending
  <2> QED
    BY <2>1 DEF WakeupPending
<1>6. CASE (WorkerStep \/ SpuriousWakeup) /\ ~WorkerFindsNothing /\ ~WorkerWaits
  <2>1. wpc' \notin {"enterWait", "waiting"}
    BY <1>6 DEF WorkerStep, SpuriousWakeup, WorkerAllocates, WorkerAllocFails,
       WorkerLock, WorkerTakes, WorkerLeaves, MirrorBusy, MirrorFull,
       WorkerRenders, WorkerFansOut, WorkerCounts, WorkerMoves
  <2> QED
    BY <2>1 DEF WakeupPending
<1>7. CASE AddStream \/ StartEnter \/ Shutdown \/ Destroy \/ ControllerStep
  <2>1. UNCHANGED <<queue_count, ppc>>
    BY <1>7 DEF AddStream, StartEnter, Shutdown, RequestShutdown, Destroy,
       ControllerStep, ThreadCreate, ThreadCreateFails, StartReturns,
       SignalShutdown, Join, JoinTimesOut, DestroyStreams, Release,
       ControllerMoves
  <2>2. wpc' = wpc \/ wpc' \notin {"enterWait", "waiting"}
    BY <1>7 DEF AddStream, StartEnter, Shutdown, RequestShutdown, Destroy,
       ControllerStep, ThreadCreate, ThreadCreateFails, StartReturns,
       SignalShutdown, CondSignal, Join, JoinTimesOut, DestroyStreams, Release
  <2> QED
    BY <2>1, <2>2 DEF WakeupPending
<1>8. ASSUME NEW f \in Flushers,
             \/ FlushEnter(f) \/ FlushUnstarted(f) \/ FlushSample(f)
             \/ FlushDone(f) \/ FlushTimesOut(f)
      PROVE  WakeupPending'
  BY <1>8, FlusherFrame DEF WakeupPending
<1>9. CASE UNCHANGED vars
  BY <1>9 DEF vars, WakeupPending
<1> QED
  BY <1>1, <1>2, <1>3, <1>4, <1>5, <1>6, <1>7, <1>8, <1>9 DEF Next, Terminated

\* An admitted record never waits for a worker that nobody is about to wake:
\* the safety half of AdmittedIsDispatched.
THEOREM RecordWakeupNotLost == Spec => []WakeupPending
<1>1. Init => WakeupPending
  BY DEF Init, WakeupPending
<1> QED
  BY <1>1, WakeupStep, Invariance, PTL DEF Spec

\* What a flush polls for exists: its target counts no record that is not in
\* the ring, in the worker's hands, or just being copied into its slot under
\* the ring's lock (mp_logger.c:941).
TargetNumbered ==
  \A f \in Flushers : fpc[f] = "poll" => ftarget[f] <= queued_records_total
FlushHasRecord ==
  \A f \in Flushers :
    fpc[f] = "poll" /\ processed_records_total < ftarget[f] =>
      \/ queue_count > 0
      \/ WorkerHasRecord \/ wpc = "count"
      \/ \E p \in Producers : ppc[p] = "copy"

LEMMA TargetStep == IInv /\ TargetNumbered /\ [Next]_vars => TargetNumbered'
<1> SUFFICES ASSUME IInv, TargetNumbered, [Next]_vars PROVE TargetNumbered'
  OBVIOUS
<1>0. /\ queued_records_total \in Nat /\ ftarget \in [Flushers -> Nat]
      /\ fpc \in [Flushers -> Returned \cup {"unstarted", "sample", "poll"}]
  BY DEF IInv, TypeOK, CounterType, FlushType, ThreadType
<1>1. ASSUME NEW f \in Flushers, FlushSample(f)
      PROVE  TargetNumbered'
  BY <1>0, <1>1 DEF FlushSample, FlusherMoves, TargetNumbered
<1>2. ASSUME NEW f \in Flushers,
             \/ FlushEnter(f) \/ FlushUnstarted(f)
             \/ FlushDone(f) \/ FlushTimesOut(f)
      PROVE  TargetNumbered'
  <2>1. UNCHANGED <<queued_records_total, ftarget>>
    BY <1>2 DEF FlushEnter, FlushUnstarted, FlushDone, FlushTimesOut,
       FlusherMoves
  <2>2. \A g \in Flushers : fpc'[g] = "poll" => fpc[g] = "poll"
    BY <1>0, <1>2 DEF FlushEnter, FlushUnstarted, FlushDone, FlushTimesOut,
       FlusherMoves
  <2> QED
    BY <2>1, <2>2 DEF TargetNumbered
<1>3. ASSUME NEW p \in Producers, LogEnter(p) \/ ProducerStep(p)
      PROVE  TargetNumbered'
  <2>1. UNCHANGED flushing /\ queued_records_total' >= queued_records_total
    BY <1>0, <1>3 DEF LogEnter, ProducerStep, TryLockBusy, CountBusy, TryLock,
       QueueFull, CountFull, StampSlot, PublishSlot, SignalWorker, Moves
  <2>2. queued_records_total' \in Nat
    BY CounterTypeStep DEF CounterType
  <2> QED
    BY <1>0, <2>1, <2>2 DEF TargetNumbered
<1>4. CASE WorkerStep \/ SpuriousWakeup
  <2>1. UNCHANGED <<flushing, queued_records_total>>
    BY <1>4 DEF WorkerStep, SpuriousWakeup, WorkerAllocates, WorkerAllocFails,
       WorkerLock, WorkerFindsNothing, WorkerWaits, WorkerTakes, WorkerLeaves,
       WorkerUnlocks, MirrorBusy, MirrorFull, WorkerRenders, WorkerFansOut,
       WorkerCounts, WorkerMoves
  <2> QED
    BY <2>1 DEF TargetNumbered
<1>5. CASE AddStream \/ StartEnter \/ Shutdown \/ Destroy \/ ControllerStep
  <2>1. UNCHANGED <<flushing, queued_records_total>>
    BY <1>5 DEF AddStream, StartEnter, Shutdown, RequestShutdown, Destroy,
       ControllerStep, ThreadCreate, ThreadCreateFails, StartReturns,
       SignalShutdown, Join, JoinTimesOut, DestroyStreams, Release,
       ControllerMoves
  <2> QED
    BY <2>1 DEF TargetNumbered
<1>6. CASE UNCHANGED vars
  BY <1>6 DEF vars, TargetNumbered
<1> QED
  BY <1>1, <1>2, <1>3, <1>4, <1>5, <1>6 DEF Next, Terminated

\* A flush with an unmet target never polls for a record that does not exist:
\* the safety half of FlushReturns.
THEOREM FlushWaitsForRecords == Spec => []FlushHasRecord
<1>1. Init => TargetNumbered
  BY DEF Init, TargetNumbered
<1>2. IInv /\ FlushInv /\ TargetNumbered => FlushHasRecord
  <2> SUFFICES ASSUME IInv, FlushInv, TargetNumbered, NEW f \in Flushers,
                      fpc[f] = "poll", processed_records_total < ftarget[f],
                      queue_count = 0, ~WorkerHasRecord, wpc # "count",
                      \A p \in Producers : ppc[p] # "copy"
               PROVE  FALSE
    BY ConstantsAssumption DEF FlushHasRecord, IInv, TypeOK, QueueType
  <2>1. /\ queued_records_total \in Nat /\ processed_records_total \in Nat
        /\ ftarget[f] \in Nat /\ Len(admitted) \in Nat
    BY DEF IInv, TypeOK, CounterType, FlushType, LogType
  <2>2. queued_records_total = Len(admitted)
    BY DEF IInv, Numbering
  <2>3. Len(dispatched) = Len(admitted)
    BY <2>1 DEF IInv, RecordInHand, Taken
  <2>4. processed_records_total = Len(dispatched)
    BY <2>1 DEF FlushInv
  <2>5. ftarget[f] <= queued_records_total
    BY DEF TargetNumbered
  <2> QED
    BY <2>1, <2>2, <2>3, <2>4, <2>5
<1> QED
  BY <1>1, <1>2, TargetStep, Invariance, PromisesHold, PTL DEF Spec

\* destroy comes to its streams with a worker still there on one path only, the
\* join whose 5000 ms ran out (mp_logger.c:1017-1020): what WorkerGoneBeforeFree
\* finds wrong needs a sink, or a sleep, that outlasts them.
LeftOnlyByTimeout ==
  [][cpc # "destroyStreams" /\ cpc' = "destroyStreams"
       /\ wpc' \notin {"none", "joined"} => JoinTimesOut]_vars

THEOREM WorkerLeftOnlyByTimeout == Spec => LeftOnlyByTimeout
<1> DEFINE Left == cpc # "destroyStreams" /\ cpc' = "destroyStreams"
                     /\ wpc' \notin {"none", "joined"} => JoinTimesOut
<1>1. IInv /\ [Next]_vars => Left
  <2> SUFFICES ASSUME IInv, [Next]_vars, cpc # "destroyStreams",
                      cpc' = "destroyStreams", ~JoinTimesOut
               PROVE  wpc' \in {"none", "joined"}
    OBVIOUS
  <2>1. CASE Join
    BY <2>1 DEF Join
  <2>2. CASE Destroy
    <3>1. cpc = "idle" /\ ~worker_started /\ wpc' = wpc
      BY <2>2 DEF Destroy, RequestShutdown, ControllerMoves
    <3>2. ThreadFlag
      BY DEF IInv
    <3> QED
      BY <3>1, <3>2 DEF ThreadFlag
  <2>3. ~(AddStream \/ StartEnter \/ Shutdown)
    BY DEF AddStream, StartEnter, Shutdown, RequestShutdown, ControllerMoves
  <2>4. ~(ThreadCreate \/ ThreadCreateFails \/ StartReturns \/ SignalShutdown
          \/ DestroyStreams \/ Release)
    BY DEF ThreadCreate, ThreadCreateFails, StartReturns, SignalShutdown,
       DestroyStreams, Release, ControllerMoves
  <2>5. ASSUME NEW p \in Producers, LogEnter(p) \/ ProducerStep(p)
        PROVE  FALSE
    BY <2>5 DEF LogEnter, ProducerStep, TryLockBusy, CountBusy, TryLock,
       QueueFull, CountFull, StampSlot, PublishSlot, SignalWorker, Moves
  <2>6. ~WorkerStep /\ ~SpuriousWakeup
    BY DEF WorkerStep, SpuriousWakeup, WorkerAllocates, WorkerAllocFails,
       WorkerLock, WorkerFindsNothing, WorkerWaits, WorkerTakes, WorkerLeaves,
       MirrorBusy, MirrorFull, WorkerRenders, WorkerFansOut, WorkerCounts,
       WorkerMoves
  <2>7. ASSUME NEW f \in Flushers,
               \/ FlushEnter(f) \/ FlushUnstarted(f) \/ FlushSample(f)
               \/ FlushDone(f) \/ FlushTimesOut(f)
        PROVE  FALSE
    BY <2>7, FlusherFrame
  <2>8. ~UNCHANGED vars
    BY DEF vars
  <2> QED
    BY <2>1, <2>2, <2>3, <2>4, <2>5, <2>6, <2>7, <2>8
       DEF Next, ControllerStep, Terminated
<1>2. [][Left]_vars <=> LeftOnlyByTimeout
  BY PTL DEF Left, LeftOnlyByTimeout
<1> QED
  BY <1>1, <1>2, Invariance, PTL DEF Spec

-------------------------------------------------------------------------------
(* The accounting of calls: those under way are finite in number, as each  *)
(* of them began.                                                          *)
Pending == {p \in Producers : ppc[p] \in {"trylock", "busy", "locked", "full"}}
Accounting == IsFiniteSet(Pending) /\ CallAccounting

LEMMA AccountingStep == IInv /\ Accounting /\ [Next]_vars => Accounting'
<1> SUFFICES ASSUME IInv, Accounting, [Next]_vars PROVE Accounting'
  OBVIOUS
<1>0. /\ calls \in Nat /\ queued_records_total \in Nat
      /\ dropped_busy_total \in Nat /\ dropped_full_total \in Nat
      /\ ppc \in [Producers -> {"idle", "trylock", "busy", "locked", "full",
                                "copy", "signal"}]
  BY DEF IInv, TypeOK, CounterType, ThreadType
<1>1. /\ IsFiniteSet(Pending) /\ Cardinality(Pending) \in Nat
      /\ calls = queued_records_total + dropped_busy_total
                 + dropped_full_total + Cardinality(Pending)
  BY FS_CardinalityType DEF Accounting, CallAccounting, Pending
<1>2. SUFFICES /\ IsFiniteSet(Pending')
               /\ calls' = queued_records_total' + dropped_busy_total'
                           + dropped_full_total' + Cardinality(Pending')
  BY DEF Accounting, CallAccounting, Pending
<1>3. CASE \E p \in Producers : LogEnter(p)
  <2>1. PICK p \in Producers : LogEnter(p)
    BY <1>3
  <2>2. p \notin Pending /\ Pending' = Pending \cup {p}
    BY <1>0, <2>1 DEF LogEnter, Moves, Pending
  <2>3. /\ IsFiniteSet(Pending')
        /\ Cardinality(Pending') = Cardinality(Pending) + 1
    BY <1>1, <2>2, FS_AddElement
  <2> QED
    BY <1>0, <1>1, <2>1, <2>3 DEF LogEnter, queue, totals, drops
<1>4. CASE \E p \in Producers : CountBusy(p) \/ CountFull(p) \/ StampSlot(p)
  <2>1. PICK p \in Producers : CountBusy(p) \/ CountFull(p) \/ StampSlot(p)
    BY <1>4
  <2>2. p \in Pending /\ Pending' = Pending \ {p}
    BY <1>0, <2>1 DEF CountBusy, CountFull, StampSlot, Moves, Pending
  <2>3. /\ IsFiniteSet(Pending')
        /\ Cardinality(Pending') = Cardinality(Pending) - 1
    BY <1>1, <2>2, FS_RemoveElement
  <2>4. CASE CountBusy(p)
    <3>1. /\ calls' = calls /\ queued_records_total' = queued_records_total
          /\ dropped_busy_total' = dropped_busy_total + 1
          /\ dropped_full_total' = dropped_full_total
      BY <2>4 DEF CountBusy
    <3> QED
      BY <1>0, <1>1, <2>3, <3>1
  <2>5. CASE CountFull(p)
    <3>1. /\ calls' = calls /\ queued_records_total' = queued_records_total
          /\ dropped_busy_total' = dropped_busy_total
          /\ dropped_full_total' = dropped_full_total + 1
      BY <2>5 DEF CountFull
    <3> QED
      BY <1>0, <1>1, <2>3, <3>1
  <2>6. CASE StampSlot(p)
    <3>1. /\ calls' = calls
          /\ queued_records_total' = queued_records_total + 1
          /\ dropped_busy_total' = dropped_busy_total
          /\ dropped_full_total' = dropped_full_total
      BY <2>6 DEF StampSlot
    <3> QED
      BY <1>0, <1>1, <2>3, <3>1
  <2> QED
    BY <2>1, <2>4, <2>5, <2>6
<1>5. CASE \E p \in Producers : \/ TryLockBusy(p) \/ TryLock(p)
                                \/ QueueFull(p) \/ PublishSlot(p)
                                \/ SignalWorker(p)
  <2>1. PICK p \in Producers : \/ TryLockBusy(p) \/ TryLock(p)
                               \/ QueueFull(p) \/ PublishSlot(p)
                               \/ SignalWorker(p)
    BY <1>5
  <2>2. Pending' = Pending
    BY <1>0, <2>1 DEF TryLockBusy, TryLock, QueueFull, PublishSlot,
       SignalWorker, Moves, Pending
  <2>3. UNCHANGED <<calls, queued_records_total, drops>>
    BY <2>1 DEF TryLockBusy, TryLock, QueueFull, PublishSlot, SignalWorker,
       queue, totals
  <2> QED
    BY <1>1, <2>2, <2>3 DEF drops
<1>6. CASE UNCHANGED <<ppc, calls, queued_records_total, drops>>
  BY <1>1, <1>6 DEF drops, Pending
<1> QED
  <2>1. CASE WorkerStep \/ SpuriousWakeup
    <3>1. UNCHANGED <<ppc, calls, queued_records_total, drops>>
      BY <2>1 DEF WorkerStep, SpuriousWakeup, WorkerAllocates,
         WorkerAllocFails, WorkerLock, WorkerFindsNothing, WorkerWaits,
         WorkerTakes, WorkerLeaves, MirrorBusy, MirrorFull, WorkerRenders,
         WorkerFansOut, WorkerCounts, WorkerMoves, WorkerUnlocks, queue, totals
    <3> QED
      BY <3>1, <1>6
  <2>2. CASE AddStream \/ StartEnter \/ Shutdown \/ Destroy \/ ControllerStep
    <3>1. UNCHANGED <<ppc, calls, queued_records_total, drops>>
      BY <2>2 DEF AddStream, StartEnter, Shutdown, RequestShutdown, Destroy,
         ControllerStep, ThreadCreate, ThreadCreateFails, StartReturns,
         SignalShutdown, Join, JoinTimesOut, DestroyStreams, Release,
         ControllerMoves, queue, totals
    <3> QED
      BY <3>1, <1>6
  <2>3. CASE \E f \in Flushers : \/ FlushEnter(f) \/ FlushUnstarted(f)
                                 \/ FlushSample(f) \/ FlushDone(f)
                                 \/ FlushTimesOut(f)
    <3>1. UNCHANGED <<ppc, calls, queued_records_total, drops>>
      BY <2>3, FlusherFrame
    <3> QED
      BY <3>1, <1>6
  <2>4. CASE UNCHANGED vars
    <3>1. UNCHANGED <<ppc, calls, queued_records_total, drops>>
      BY <2>4 DEF vars
    <3> QED
      BY <3>1, <1>6
  <2> QED
    BY <1>3, <1>4, <1>5, <2>1, <2>2, <2>3, <2>4
       DEF Next, Terminated, ProducerStep

\* Every call that passed the running check is queued, dropped for a busy lock,
\* dropped for a full ring, or still under way.
THEOREM CallsAccounted == Spec => []CallAccounting
<1>1. Init => Accounting
  <2>1. Init => Pending = {} /\ Cardinality(Pending) = 0 /\ IsFiniteSet(Pending)
    BY FS_EmptySet DEF Init, Pending
  <2> QED
    BY <2>1 DEF Init, Accounting, CallAccounting, Pending
<1>2. Accounting => CallAccounting
  BY DEF Accounting
<1> QED
  BY <1>1, <1>2, AccountingStep, Invariance, PTL DEF Spec
-------------------------------------------------------------------------------
(* StatsReader: what an answer of mp_logger_get_stats can be relied on     *)
(* for, whatever happened between its loads.                               *)

USE DEF statsVars

\* The calls that have begun and not returned: finite in number.
UnderWay == {p \in Producers : ppc[p] # "idle"}

LoggerInv == IInv /\ FlushInv /\ Accounting /\ IsFiniteSet(UnderWay)

CounterNames == {"queued", "processed", "busy", "full"}

\* A counter as the call knows it: its load, once it has made it.
KnownQueued == IF loads >= 1 THEN seen.queued ELSE queued_records_total
KnownBusy == IF loads >= 3 THEN seen.busy ELSE dropped_busy_total
KnownFull == IF loads >= 4 THEN seen.full ELSE dropped_full_total

\* What the loads so far are worth.  No counter goes back, so a load made is
\* never above the counter, and what the call began with is never above the
\* sum of loads made and counters still to be loaded.
StatsInv ==
  /\ loads \in 0 .. 4 /\ settled \in Int
  /\ seen \in [CounterNames -> Nat]
  /\ seen.queued <= queued_records_total
  /\ seen.busy <= dropped_busy_total /\ seen.full <= dropped_full_total
  /\ waiting \in 0 .. BufferCapacity + 1
  /\ loads = 1 => seen.queued <= processed_records_total + waiting
  /\ loads >= 2 => seen.queued <= seen.processed + waiting
  /\ settled <= KnownQueued + KnownBusy + KnownFull

-------------------------------------------------------------------------------
(* The logger's side.                                                      *)

\* No cumulative counter goes back, and finitely many calls are under way.
LEMMA CountersGrow ==
  IInv /\ [Next]_vars /\ IsFiniteSet(UnderWay) =>
    /\ queued_records_total <= queued_records_total'
    /\ processed_records_total <= processed_records_total'
    /\ dropped_busy_total <= dropped_busy_total'
    /\ dropped_full_total <= dropped_full_total'
    /\ IsFiniteSet(UnderWay')
<1> SUFFICES ASSUME IInv, [Next]_vars, IsFiniteSet(UnderWay)
             PROVE  /\ queued_records_total <= queued_records_total'
                    /\ processed_records_total <= processed_records_total'
                    /\ dropped_busy_total <= dropped_busy_total'
                    /\ dropped_full_total <= dropped_full_total'
                    /\ IsFiniteSet(UnderWay')
  OBVIOUS
<1> DEFINE Grow == /\ queued_records_total <= queued_records_total'
                   /\ processed_records_total <= processed_records_total'
                   /\ dropped_busy_total <= dropped_busy_total'
                   /\ dropped_full_total <= dropped_full_total'
<1>0. /\ queued_records_total \in Nat /\ processed_records_total \in Nat
      /\ dropped_busy_total \in Nat /\ dropped_full_total \in Nat
      /\ ppc \in [Producers -> {"idle", "trylock", "busy", "locked", "full",
                                "copy", "signal"}]
  BY DEF IInv, TypeOK, CounterType, ThreadType
<1>1. ASSUME NEW p \in Producers, LogEnter(p) \/ ProducerStep(p)
      PROVE  Grow /\ IsFiniteSet(UnderWay')
  <2>1. Grow
    BY <1>0, <1>1 DEF StampSlot, PublishSlot, LogEnter, TryLockBusy, CountBusy,
       TryLock, QueueFull, CountFull, SignalWorker, ProducerStep, Moves
  <2>2. \A q \in Producers : q # p => ppc'[q] = ppc[q]
    BY <1>0, <1>1 DEF StampSlot, PublishSlot, LogEnter, TryLockBusy, CountBusy,
       TryLock, QueueFull, CountFull, SignalWorker, ProducerStep, Moves
  <2>3. UnderWay' \subseteq UnderWay \cup {p}
    BY <2>2 DEF UnderWay
  <2>4. IsFiniteSet(UnderWay \cup {p})
    BY FS_AddElement
  <2> QED
    BY <2>1, <2>3, <2>4, FS_Subset
<1>2. CASE WorkerStep \/ SpuriousWakeup
  <2>1. Grow /\ ppc' = ppc
    BY <1>0, <1>2 DEF WorkerStep, SpuriousWakeup, WorkerAllocates,
       WorkerAllocFails, WorkerLock, WorkerFindsNothing, WorkerWaits,
       WorkerTakes, WorkerLeaves, WorkerUnlocks, MirrorBusy, MirrorFull,
       WorkerRenders, WorkerFansOut, WorkerCounts, WorkerMoves
  <2> QED
    BY <2>1 DEF UnderWay
<1>3. CASE UNCHANGED <<ppc, totals, drops>>
  BY <1>0, <1>3 DEF UnderWay
<1>4. CASE AddStream \/ StartEnter \/ Shutdown \/ Destroy \/ ControllerStep
  <2>1. UNCHANGED <<ppc, totals, drops>>
    BY <1>4 DEF AddStream, StartEnter, Shutdown, RequestShutdown, Destroy,
       ControllerStep, ThreadCreate, ThreadCreateFails, StartReturns,
       SignalShutdown, Join, JoinTimesOut, DestroyStreams, Release,
       ControllerMoves
  <2> QED
    BY <2>1, <1>3
<1>5. ASSUME NEW f \in Flushers,
             \/ FlushEnter(f) \/ FlushUnstarted(f) \/ FlushSample(f)
             \/ FlushDone(f) \/ FlushTimesOut(f)
      PROVE  UNCHANGED <<ppc, totals, drops>>
  BY <1>5, FlusherFrame
<1>6. CASE UNCHANGED vars
  <2>1. UNCHANGED <<ppc, totals, drops>>
    BY <1>6 DEF vars
  <2> QED
    BY <2>1, <1>3
<1> QED
  BY <1>1, <1>2, <1>3, <1>4, <1>5, <1>6 DEF Next, Terminated

\* Every record that has its number and is not counted as processed is being
\* put, in the ring or in the worker's hands; the one being put has a free slot.
LEMMA BacklogNow ==
  IInv /\ FlushInv =>
    /\ OnTheirWay \in 0 .. BufferCapacity + 1
    /\ queued_records_total = processed_records_total + OnTheirWay
<1> SUFFICES ASSUME IInv, FlushInv
             PROVE  /\ OnTheirWay \in 0 .. BufferCapacity + 1
                    /\ queued_records_total
                         = processed_records_total + OnTheirWay
  OBVIOUS
<1> DEFINE put == IF \E p \in Producers : ppc[p] = "copy" THEN 1 ELSE 0
           hand == IF WorkerHasRecord \/ wpc = "count" THEN 1 ELSE 0
<1>0. /\ queued_records_total \in Nat /\ processed_records_total \in Nat
      /\ queue_count \in 0 .. BufferCapacity /\ BufferCapacity \in Nat
      /\ Len(admitted) \in Nat /\ Len(dispatched) \in Nat
  BY ConstantsAssumption
     DEF IInv, TypeOK, CounterType, QueueType, LogType
<1>1. hand \in {0, 1} /\ put \in {0, 1}
  OBVIOUS
<1>2. Len(admitted) - queue_count = processed_records_total + hand
  <2>1. CASE WorkerHasRecord
    BY <1>0, <2>1 DEF IInv, RecordInHand, FlushInv, WorkerHasRecord, Taken
  <2>2. CASE ~WorkerHasRecord
    BY <1>0, <2>2 DEF IInv, RecordInHand, FlushInv, Taken
  <2> QED
    BY <2>1, <2>2
<1>3. queued_records_total = Len(admitted) + put
        /\ queue_count + put <= BufferCapacity
  <2>1. CASE \A p \in Producers : ppc[p] # "copy"
    BY <1>0, <2>1 DEF IInv, Numbering
  <2>2. CASE \E p \in Producers : ppc[p] = "copy"
    BY <1>0, <2>2 DEF IInv, Numbering, HasRoom
  <2> QED
    BY <2>1, <2>2
<1>4. OnTheirWay = queue_count + put + hand
  BY DEF OnTheirWay
<1> HIDE DEF put, hand
<1> QED
  BY <1>0, <1>1, <1>2, <1>3, <1>4

LEMMA LoggerInit == AllInit => LoggerInv
<1>1. Init => Pending = {} /\ UnderWay = {} /\ Cardinality({}) = 0
                /\ IsFiniteSet({})
  BY FS_EmptySet DEF Init, Pending, UnderWay
<1>2. Init => FlushInv
  BY DEF Init, FlushInv
<1> QED
  <2> SUFFICES ASSUME Init PROVE LoggerInv
    BY DEF AllInit
  <2>1. IInv /\ FlushInv
    BY <1>2, InitInvariant
  <2>2. /\ calls = 0 /\ queued_records_total = 0
        /\ dropped_busy_total = 0 /\ dropped_full_total = 0
    BY DEF Init
  <2>3. Accounting
    BY <1>1, <2>2, SMTT(30) DEF Accounting, CallAccounting, Pending
  <2> QED
    BY <1>1, <2>1, <2>3 DEF LoggerInv

LEMMA LoggerStepKeeps == LoggerInv /\ [AllNext]_allVars => LoggerInv'
<1>1. [AllNext]_allVars => [Next]_vars
  BY DEF AllNext, LoggerStep, StatsStep, allVars
<1> QED
  BY <1>1, InvariantStep, FlushInvStep, AccountingStep, CountersGrow
     DEF LoggerInv

-------------------------------------------------------------------------------
(* The reader's side.                                                      *)

LEMMA StatsInvInit == AllInit => StatsInv
<1> SUFFICES ASSUME AllInit PROVE StatsInv
  OBVIOUS
<1>1. /\ queued_records_total = 0 /\ processed_records_total = 0
      /\ dropped_busy_total = 0 /\ dropped_full_total = 0
  BY DEF AllInit, Init
<1>2. /\ loads = 4 /\ settled = 0 /\ waiting = 0
      /\ seen = [c \in CounterNames |-> 0]
  BY DEF AllInit, StatsInit, Unread, CounterNames
<1>3. BufferCapacity \in Nat
  BY ConstantsAssumption
<1> QED
  BY <1>1, <1>2, <1>3
     DEF StatsInv, CounterNames, KnownQueued, KnownBusy, KnownFull

\* While the logger takes a step, what the call has loaded stays good.
LEMMA LoggerStepStats == LoggerInv /\ StatsInv /\ LoggerStep => StatsInv'
<1> SUFFICES ASSUME LoggerInv, StatsInv, LoggerStep PROVE StatsInv'
  OBVIOUS
<1>1. /\ queued_records_total \in Nat /\ processed_records_total \in Nat
      /\ dropped_busy_total \in Nat /\ dropped_full_total \in Nat
      /\ BufferCapacity \in Nat
  BY ConstantsAssumption DEF LoggerInv, IInv, TypeOK, CounterType
<1>2. /\ queued_records_total <= queued_records_total'
      /\ processed_records_total <= processed_records_total'
      /\ dropped_busy_total <= dropped_busy_total'
      /\ dropped_full_total <= dropped_full_total'
  BY CountersGrow DEF LoggerInv, LoggerStep
<1>3. /\ queued_records_total' \in Nat /\ processed_records_total' \in Nat
      /\ dropped_busy_total' \in Nat /\ dropped_full_total' \in Nat
  <2>1. CounterType'
    BY CounterTypeStep DEF LoggerInv, LoggerStep
  <2> QED
    BY <2>1 DEF CounterType
<1>4. UNCHANGED <<loads, seen, settled, waiting>>
  BY DEF LoggerStep
<1>5. /\ seen.queued \in Nat /\ seen.busy \in Nat /\ seen.full \in Nat
      /\ seen.processed \in Nat /\ loads \in 0 .. 4 /\ settled \in Int
      /\ waiting \in 0 .. BufferCapacity + 1
  BY DEF StatsInv, CounterNames
<1>6. settled' <= KnownQueued' + KnownBusy' + KnownFull'
  <2>1. settled <= KnownQueued + KnownBusy + KnownFull
    BY DEF StatsInv
  <2> QED
    BY <1>1, <1>2, <1>3, <1>4, <1>5, <2>1
       DEF KnownQueued, KnownBusy, KnownFull
<1> QED
  BY <1>1, <1>2, <1>3, <1>4, <1>5, <1>6 DEF StatsInv

\* A new call begins with what the counters hold of the calls that returned.
LEMMA EnterStats ==
  LoggerInv /\ StatsInv /\ StatsEnter /\ UNCHANGED vars => StatsInv'
<1> SUFFICES ASSUME LoggerInv, StatsInv, StatsEnter, UNCHANGED vars
             PROVE  StatsInv'
  OBVIOUS
<1>1. /\ queued_records_total \in Nat /\ processed_records_total \in Nat
      /\ dropped_busy_total \in Nat /\ dropped_full_total \in Nat
      /\ calls \in Nat
  BY DEF LoggerInv, IInv, TypeOK, CounterType
<1>2. UNCHANGED <<queued_records_total, processed_records_total,
                 dropped_busy_total, dropped_full_total>>
  BY DEF vars
<1>3. /\ loads' = 0 /\ waiting' = 0 /\ seen' = [c \in CounterNames |-> 0]
      /\ settled' = calls - Cardinality(UnderWay)
  BY DEF StatsEnter, UnderWay, Unread, CounterNames
<1>4. /\ Pending \subseteq UnderWay /\ IsFiniteSet(UnderWay)
      /\ calls = queued_records_total + dropped_busy_total
                 + dropped_full_total + Cardinality(Pending)
  BY DEF LoggerInv, Accounting, CallAccounting, Pending, UnderWay
<1>5. /\ Cardinality(UnderWay) \in Nat /\ Cardinality(Pending) \in Nat
      /\ Cardinality(Pending) <= Cardinality(UnderWay)
  BY <1>4, FS_Subset, FS_CardinalityType
<1>6. settled' <= queued_records_total + dropped_busy_total
                    + dropped_full_total
  BY <1>1, <1>3, <1>4, <1>5
<1>7. settled' \in Int
  BY <1>1, <1>3, <1>5
<1>8. waiting' \in 0 .. BufferCapacity + 1
  BY <1>3, ConstantsAssumption
<1> QED
  BY <1>1, <1>2, <1>3, <1>6, <1>7, <1>8
     DEF StatsInv, CounterNames, KnownQueued, KnownBusy, KnownFull

\* Which counter is loaded when.
LEMMA LoadOrder ==
  /\ Order[1] = "queued" /\ Order[2] = "processed" /\ Order[3] = "busy"
  /\ Order[4] = "full"
  /\ Counters["queued"] = queued_records_total
  /\ Counters["processed"] = processed_records_total
  /\ Counters["busy"] = dropped_busy_total
  /\ Counters["full"] = dropped_full_total
BY DEF Order, Counters

\* One load: its counter is what it is now, the others as they were.
LEMMA LoadStats ==
  LoggerInv /\ StatsInv /\ Load /\ UNCHANGED vars => StatsInv'
<1> SUFFICES ASSUME LoggerInv, StatsInv, Load, UNCHANGED vars
             PROVE  StatsInv'
  OBVIOUS
<1>1. /\ queued_records_total \in Nat /\ processed_records_total \in Nat
      /\ dropped_busy_total \in Nat /\ dropped_full_total \in Nat
      /\ BufferCapacity \in Nat
  BY ConstantsAssumption DEF LoggerInv, IInv, TypeOK, CounterType
<1>2. UNCHANGED <<queued_records_total, processed_records_total,
                 dropped_busy_total, dropped_full_total>>
  BY DEF vars
<1>3. /\ loads \in 0 .. 3 /\ loads' = loads + 1 /\ settled' = settled
      /\ seen' = [seen EXCEPT ![Order[loads']] = Counters[Order[loads']]]
      /\ waiting' = IF Order[loads'] = "queued" THEN OnTheirWay ELSE waiting
  BY DEF Load, Idle, StatsInv
<1>4. /\ OnTheirWay \in 0 .. BufferCapacity + 1
      /\ queued_records_total = processed_records_total + OnTheirWay
  BY BacklogNow DEF LoggerInv
<1>5. /\ seen \in [CounterNames -> Nat] /\ settled \in Int
      /\ waiting \in 0 .. BufferCapacity + 1
  BY DEF StatsInv
<1>6. CASE loads = 0
  <2>1. loads' = 1
    BY <1>3, <1>6
  <2>2. seen' = [seen EXCEPT !["queued"] = queued_records_total]
    BY <1>3, <2>1, LoadOrder, Zenon
  <2>3. waiting' = OnTheirWay
    BY <1>3, <2>1, LoadOrder
  <2>4. /\ seen' \in [CounterNames -> Nat]
        /\ seen'.queued = queued_records_total
        /\ seen'.busy = seen.busy /\ seen'.full = seen.full
    BY <2>2, <1>1, <1>5 DEF CounterNames
  <2>5. seen'.queued = processed_records_total' + waiting'
          /\ waiting' \in 0 .. BufferCapacity + 1
    BY <2>3, <2>4, <1>2, <1>4
  <2>6. settled' <= KnownQueued' + KnownBusy' + KnownFull'
    BY <2>1, <2>4, <1>1, <1>2, <1>3, <1>6
       DEF StatsInv, KnownQueued, KnownBusy, KnownFull
  <2>7. seen'.queued <= processed_records_total' + waiting'
    BY <2>4, <2>5, <1>1
  <2>8. /\ loads' \in 0 .. 4 /\ settled' \in Int
        /\ ~(loads' >= 2)
    BY <2>1, <1>3, <1>5
  <2>9. /\ seen'.queued <= queued_records_total'
        /\ seen'.busy <= dropped_busy_total'
        /\ seen'.full <= dropped_full_total'
    BY <2>4, <1>1, <1>2 DEF StatsInv
  <2> QED
    BY <2>4, <2>5, <2>6, <2>7, <2>8, <2>9 DEF StatsInv
<1>7. CASE loads = 1
  <2>1. loads' = 2
    BY <1>3, <1>7
  <2>2. seen' = [seen EXCEPT !["processed"] = processed_records_total]
    BY <1>3, <2>1, LoadOrder, Zenon
  <2>3. waiting' = waiting
    BY <1>3, <2>1, LoadOrder
  <2> QED
    BY <2>1, <2>2, <2>3, <1>1, <1>2, <1>3, <1>4, <1>5, <1>7
       DEF StatsInv, CounterNames, KnownQueued, KnownBusy, KnownFull
<1>8. CASE loads = 2
  <2>1. loads' = 3
    BY <1>3, <1>8
  <2>2. seen' = [seen EXCEPT !["busy"] = dropped_busy_total]
    BY <1>3, <2>1, LoadOrder, Zenon
  <2>3. waiting' = waiting
    BY <1>3, <2>1, LoadOrder
  <2> QED
    BY <2>1, <2>2, <2>3, <1>1, <1>2, <1>3, <1>4, <1>5, <1>8
       DEF StatsInv, CounterNames, KnownQueued, KnownBusy, KnownFull
<1>9. CASE loads = 3
  <2>1. loads' = 4
    BY <1>3, <1>9
  <2>2. seen' = [seen EXCEPT !["full"] = dropped_full_total]
    BY <1>3, <2>1, LoadOrder, Zenon
  <2>3. waiting' = waiting
    BY <1>3, <2>1, LoadOrder
  <2> QED
    BY <2>1, <2>2, <2>3, <1>1, <1>2, <1>3, <1>4, <1>5, <1>9
       DEF StatsInv, CounterNames, KnownQueued, KnownBusy, KnownFull
<1> QED
  BY <1>3, <1>6, <1>7, <1>8, <1>9

\* What the counters and one reader's loads keep between any two steps.
LEMMA StatsInvariance == AllSpec => [](LoggerInv /\ StatsInv)
<1>1. LoggerInv /\ StatsInv /\ [AllNext]_allVars => StatsInv'
  <2> SUFFICES ASSUME LoggerInv, StatsInv, [AllNext]_allVars
               PROVE  StatsInv'
    OBVIOUS
  <2>1. CASE LoggerStep
    BY <2>1, LoggerStepStats
  <2>2. CASE StatsStep
    BY <2>2, EnterStats, LoadStats DEF StatsStep
  <2>3. CASE UNCHANGED allVars
    BY <2>3 DEF allVars, vars, StatsInv, KnownQueued, KnownBusy, KnownFull
  <2> QED
    BY <2>1, <2>2, <2>3 DEF AllNext
<1> QED
  BY <1>1, LoggerInit, LoggerStepKeeps, StatsInvInit, PTL DEF AllSpec

-------------------------------------------------------------------------------
(* The properties that the runs check.                                     *)

\* A backlog computed from one answer is at most what was waiting when the
\* queued total was loaded (mp_logger.c:959-960).
THEOREM BacklogIsReal == AllSpec => []BacklogReal
<1>1. StatsInv => BacklogReal
  BY DEF StatsInv, BacklogReal, Idle
<1> QED
  BY <1>1, StatsInvariance, PTL

\* And so never more than can wait: the ring and the record in the worker's
\* hands (mp_logger.c:863, 959-960).
THEOREM BacklogIsBounded ==
  AllSpec => [](Idle => seen.queued <= seen.processed + BufferCapacity + 1)
<1>1. StatsInv =>
        (Idle => seen.queued <= seen.processed + BufferCapacity + 1)
  <2>1. StatsInv => seen.queued \in Nat /\ seen.processed \in Nat
    BY DEF StatsInv, CounterNames
  <2> QED
    BY <2>1, ConstantsAssumption DEF StatsInv, Idle
<1> QED
  BY <1>1, StatsInvariance, PTL

\* An answer has every call that returned before it was asked for, once.
THEOREM CallsAreCovered == AllSpec => []CallsCovered
<1>1. LoggerInv /\ StatsInv => CallsCovered
  <2> SUFFICES ASSUME LoggerInv, StatsInv, Idle
               PROVE  /\ settled <= seen.queued + seen.busy + seen.full
                      /\ seen.queued + seen.busy + seen.full <= calls
    BY DEF CallsCovered
  <2>1. /\ queued_records_total \in Nat /\ dropped_busy_total \in Nat
        /\ dropped_full_total \in Nat
    BY DEF LoggerInv, IInv, TypeOK, CounterType
  <2>2. /\ Cardinality(Pending) \in Nat
        /\ calls = queued_records_total + dropped_busy_total
                   + dropped_full_total + Cardinality(Pending)
    BY FS_CardinalityType
       DEF LoggerInv, Accounting, CallAccounting, Pending
  <2>3. seen.queued \in Nat /\ seen.busy \in Nat /\ seen.full \in Nat
    BY DEF StatsInv, CounterNames
  <2> QED
    BY <2>1, <2>2, <2>3
       DEF StatsInv, Idle, KnownQueued, KnownBusy, KnownFull
<1> QED
  BY <1>1, StatsInvariance, PTL

\* The reader disturbs nobody: the logger beside it keeps all it has alone.
THEOREM ReaderOnlyReads == AllSpec => Spec
<1>1. AllInit => Init
  BY DEF AllInit
<1>2. [AllNext]_allVars => [Next]_vars
  BY DEF AllNext, LoggerStep, StatsStep, allVars
<1> QED
  BY <1>1, <1>2, PTL DEF AllSpec, Spec
===============================================================================
