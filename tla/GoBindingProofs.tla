---------------------------- MODULE GoBindingProofs ----------------------------
(***************************************************************************)
(* Proofs about GoBinding for any goroutines, timeouts and threads: the    *)
(* types, the lock and the ownership of the C logger (GoInv), and the      *)
(* single worker thread of Starts that do not overlap.                     *)
(*                                                                         *)
(* Only the steps of withPtr and of Close change the lock or the pointer;  *)
(* a step inside the C library leaves both alone and moves one goroutine   *)
(* between places where it holds the read lock (InsideC).                  *)
(***************************************************************************)
EXTENDS GoBinding, FiniteSetTheorems, TLAPS

USE DEF lock, calls, lifecycle, threads, records, clib, history

WorkerSteps ==
  \E t \in Threads :
    WorkerTakes(t) \/ WorkerCounts(t) \/ WorkerEnds(t) \/ WorkerAllocFails(t)

PCs == {"idle", "blocked", "check", "inC", "create", "poll", "join", "runlock",
        "lock", "drain", "destroy", "destroyJoin", "destroyStreams"}

\* A new thread is one that was not there.
LEMMA FreshThread ==
  ASSUME NEW S, S # {} PROVE NewThread(S) \in S
BY DEF NewThread

LEMMA InitType == Init => TypeOK
<1> SUFFICES ASSUME Init PROVE TypeOK
  OBVIOUS
<1>1. NewThread(Threads) \in Threads
  BY GoAssumption, FreshThread
<1>2. /\ queued \in 0 .. MaxRecords /\ MaxRecords \in Nat
      /\ processed \in 0 .. queued
  BY GoAssumption DEF Init
<1> QED
  BY <1>1, <1>2 DEF Init, TypeOK, Ops

LEMMA TypeStep == TypeOK /\ [Next]_vars => TypeOK'
<1> SUFFICES ASSUME TypeOK, [Next]_vars PROVE TypeOK'
  OBVIOUS
<1> USE DEF TypeOK
<1>1. ASSUME NEW g \in Goroutines, NEW o \in Ops, NEW d \in Timeouts,
             Call(g, o, d)
      PROVE  TypeOK'
  <2>1. d \in Nat
    BY GoAssumption
  <2> QED
    BY <1>1, <2>1 DEF Call, Moves, Begins
<1>2. ASSUME NEW g \in Goroutines,
             \/ CloseCall(g) \/ AnnounceWriter(g) \/ CheckPtr(g)
             \/ ErrClosed(g) \/ RUnlock(g)
      PROVE  TypeOK'
  <2>1. CASE CloseCall(g) \/ AnnounceWriter(g)
    BY <1>2, <2>1 DEF CloseCall, AnnounceWriter, Moves, Begins
  <2>2. CASE CheckPtr(g) \/ ErrClosed(g)
    BY <1>2, <2>2 DEF CheckPtr, ErrClosed, Moves
  <2>3. CASE RUnlock(g)
    <3>1. "Log" \in Ops
      BY DEF Ops
    <3> QED
      BY <2>3, <3>1 DEF RUnlock, Moves
  <2> QED
    BY <1>2, <2>1, <2>2, <2>3
<1>3. ASSUME NEW g \in Goroutines, CloseStep(g)
      PROVE  TypeOK'
  <2>1. CASE TakePtr(g)
    <3>1. \A h \in Goroutines :
            Unblocked(g, IF ptr THEN "destroy" ELSE "idle")[h] \in PCs
      BY DEF Unblocked, PCs
    <3>2. pc' \in [Goroutines -> PCs]
      BY <2>1, <3>1 DEF TakePtr, Unblocked
    <3> QED
      BY <2>1, <3>2 DEF TakePtr, PCs
  <2>2. CASE Destroy(g)
    <3>1. shutdown_requested' \in BOOLEAN
      BY <2>2, Zenon DEF Destroy
    <3>2. pc' \in [Goroutines -> PCs]
      BY <2>2 DEF Destroy, Moves, PCs
    <3> QED
      BY <2>2, <3>1, <3>2 DEF Destroy, PCs
  <2>3. CASE DestroyJoin(g) \/ DestroyStreams(g)
    <3>1. worker_started' \in BOOLEAN
      <4>1. CASE DestroyJoin(g)
        <5>1. worker_started' = (worker_thread \in workers)
          BY <4>1, Zenon DEF DestroyJoin
        <5>2. (worker_thread \in workers) \in BOOLEAN
          OBVIOUS
        <5> QED
          BY <5>1, <5>2, Zenon
      <4>2. CASE DestroyStreams(g)
        BY <4>2 DEF DestroyStreams
      <4> QED
        BY <2>3, <4>1, <4>2
    <3>2. pc' \in [Goroutines -> PCs]
      BY <2>3 DEF DestroyJoin, DestroyStreams, Moves, PCs
    <3>3. freed' \in BOOLEAN
      BY <2>3 DEF DestroyJoin, DestroyStreams
    <3> QED
      BY <2>3, <3>1, <3>2, <3>3 DEF DestroyJoin, DestroyStreams, PCs
  <2> QED
    BY <1>3, <2>1, <2>2, <2>3 DEF CloseStep
<1>4. ASSUME NEW g \in Goroutines, CStep(g)
      PROVE  TypeOK'
  <2>1. CASE CCreate(g)
    <3>1. Unused # {} => NewThread(Unused) \in Threads
      BY FreshThread DEF Unused
    <3> QED
      BY <2>1, <3>1, ZenonT(60) DEF CCreate, Goes, Moves
  <2>2. CASE CLog(g)
    BY <2>2, GoAssumption DEF CLog, Enters, Moves
  <2>3. CASE CFlush(g) \/ CFlushDone(g) \/ CFlushTimesOut(g)
    BY <2>3 DEF CFlush, CFlushDone, CFlushTimesOut, Enters, Goes, Moves
  <2>4. CASE CConfig(g) \/ CStartRunning(g) \/ CStart(g) \/ CShutdown(g)
    BY <2>4, ZenonT(60)
       DEF CConfig, CStartRunning, CStart, CShutdown, Enters, Moves
  <2>5. CASE CJoin(g) \/ CJoinFails(g)
    BY <2>5, ZenonT(60) DEF CJoin, CJoinFails, Goes, Moves
  <2> QED
    BY <1>4, <2>1, <2>2, <2>3, <2>4, <2>5 DEF CStep
<1>5. CASE WorkerSteps
  BY <1>5, GoAssumption
     DEF WorkerSteps, WorkerTakes, WorkerCounts, WorkerEnds, WorkerAllocFails,
     WorkerGone, WorkerMoves
<1>6. CASE UNCHANGED vars
  BY <1>6 DEF vars
<1> QED
  BY <1>1, <1>2, <1>3, <1>4, <1>5, <1>6 DEF Next, GoStep, WorkerSteps

\* Every field keeps its type.
THEOREM TypeCorrect == Spec => []TypeOK
BY InitType, TypeStep, PTL DEF Spec

-------------------------------------------------------------------------------
(* The lock and the owner of the C logger.                                 *)

\* A step of g inside the C library.
LEMMA InsideC ==
  ASSUME TypeOK, NEW g \in Goroutines, CStep(g)
  PROVE  /\ InC(g)
         /\ pc' = [pc EXCEPT ![g] = pc'[g]]
         /\ pc'[g] \in {"create", "poll", "join", "runlock"}
         /\ UNCHANGED <<ptr, readers, writer, late, freed>>
<1> USE DEF TypeOK, InC
<1>1. CASE CLog(g)
  BY <1>1 DEF CLog, Enters, Moves
<1>2. CASE CCreate(g)
  BY <1>2 DEF CCreate, Goes, Moves
<1>3. CASE CFlush(g) \/ CFlushDone(g) \/ CFlushTimesOut(g)
  BY <1>3 DEF CFlush, CFlushDone, CFlushTimesOut, Enters, Goes, Moves
<1>4. CASE CConfig(g) \/ CStartRunning(g) \/ CStart(g) \/ CShutdown(g)
  BY <1>4 DEF CConfig, CStartRunning, CStart, CShutdown, Enters, Moves
<1>5. CASE CJoin(g) \/ CJoinFails(g)
  BY <1>5 DEF CJoin, CJoinFails, Goes, Moves
<1> QED
  BY <1>1, <1>2, <1>3, <1>4, <1>5 DEF CStep

LEMMA LockStateStep == TypeOK /\ LockState /\ [Next]_vars => LockState'
<1> SUFFICES ASSUME TypeOK, LockState, [Next]_vars PROVE LockState'
  OBVIOUS
<1> USE GoAssumption DEF TypeOK, LockState, HoldsRead, InC
<1>1. ASSUME NEW g \in Goroutines, NEW o \in Ops, NEW d \in Timeouts,
             Call(g, o, d)
      PROVE  LockState'
  BY <1>1 DEF Call, Moves
<1>2. ASSUME NEW g \in Goroutines, CloseCall(g) PROVE LockState'
  BY <1>2 DEF CloseCall, Moves
<1>3. ASSUME NEW g \in Goroutines, AnnounceWriter(g) PROVE LockState'
  BY <1>3 DEF AnnounceWriter, Moves
<1>4. ASSUME NEW g \in Goroutines, CheckPtr(g) \/ ErrClosed(g) PROVE LockState'
  BY <1>4 DEF CheckPtr, ErrClosed, Moves
<1>5. ASSUME NEW g \in Goroutines, RUnlock(g) PROVE LockState'
  BY <1>5 DEF RUnlock, Moves
<1>6. ASSUME NEW g \in Goroutines, CStep(g) PROVE LockState'
  BY <1>6, InsideC
<1>7. ASSUME NEW g \in Goroutines, TakePtr(g) PROVE LockState'
  BY <1>7 DEF TakePtr, Unblocked
<1>8. ASSUME NEW g \in Goroutines,
             Destroy(g) \/ DestroyJoin(g) \/ DestroyStreams(g)
      PROVE  LockState'
  BY <1>8 DEF Destroy, DestroyJoin, DestroyStreams, Moves
<1>9. CASE WorkerSteps
  BY <1>9 DEF WorkerSteps, WorkerTakes, WorkerCounts, WorkerEnds, WorkerAllocFails,
     WorkerGone, WorkerMoves
<1>10. CASE UNCHANGED vars
  BY <1>10 DEF vars
<1> QED
  BY <1>1, <1>2, <1>3, <1>4, <1>5, <1>6, <1>7, <1>8, <1>9, <1>10
     DEF Next, GoStep, CloseStep, WorkerSteps

Ownership == OneOwner /\ NoUseAfterClose /\ \A g \in Goroutines : late[g] => ~ptr

LEMMA OwnershipStep ==
  TypeOK /\ LockState /\ Ownership /\ [Next]_vars => Ownership'
<1> SUFFICES ASSUME TypeOK, LockState, Ownership, [Next]_vars PROVE Ownership'
  OBVIOUS
<1> USE DEF TypeOK, Ownership, OneOwner, NoUseAfterClose, InC, Destroys
<1>1. ASSUME NEW g \in Goroutines, NEW o \in Ops, NEW d \in Timeouts,
             Call(g, o, d)
      PROVE  Ownership'
  BY <1>1 DEF Call, Moves
<1>2. ASSUME NEW g \in Goroutines,
             \/ CloseCall(g) \/ AnnounceWriter(g) \/ CheckPtr(g) \/ ErrClosed(g)
      PROVE  Ownership'
  BY <1>2 DEF CloseCall, AnnounceWriter, CheckPtr, ErrClosed, Moves
<1>3. ASSUME NEW g \in Goroutines, RUnlock(g) PROVE Ownership'
  BY <1>3 DEF RUnlock, Moves
<1>4. ASSUME NEW g \in Goroutines, CStep(g) PROVE Ownership'
  BY <1>4, InsideC
<1>5. ASSUME NEW g \in Goroutines, TakePtr(g) PROVE Ownership'
  <2>1. \A h \in Goroutines : ~InC(h)
    BY <1>5 DEF TakePtr, LockState, HoldsRead
  <2>2. \A h \in Goroutines :
          /\ ~InC(h)'
          /\ Destroys(h)' <=> Destroys(h) \/ (h = g /\ ptr)
    BY <1>5, <2>1 DEF TakePtr, Unblocked
  <2>3. ~ptr' /\ UNCHANGED <<freed, late>>
    BY <1>5 DEF TakePtr
  <2> QED
    BY <2>2, <2>3
<1>6. ASSUME NEW g \in Goroutines, Destroy(g) \/ DestroyJoin(g)
      PROVE  Ownership'
  BY <1>6 DEF Destroy, DestroyJoin, Moves
<1>7. ASSUME NEW g \in Goroutines, DestroyStreams(g) PROVE Ownership'
  BY <1>7 DEF DestroyStreams, Moves
<1>8. CASE WorkerSteps
  BY <1>8 DEF WorkerSteps, WorkerTakes, WorkerCounts, WorkerEnds, WorkerAllocFails,
     WorkerGone, WorkerMoves
<1>9. CASE UNCHANGED vars
  BY <1>9 DEF vars
<1> QED
  BY <1>1, <1>2, <1>3, <1>4, <1>5, <1>6, <1>7, <1>8, <1>9
     DEF Next, GoStep, CloseStep, WorkerSteps

\* Whatever the goroutines do, the lock is held by those whose code is between
\* lock and unlock, the C logger has one owner until it is freed, and nobody is
\* in the C library when a Close has begun to destroy it.
THEOREM GoInvariance == Spec => []GoInv
<1>1. Init => LockState /\ Ownership
  BY GoAssumption DEF Init, LockState, HoldsRead, InC, Ownership, OneOwner,
     NoUseAfterClose, Destroys
<1>2. LockState /\ Ownership => GoInv
  BY DEF Ownership, GoInv
<1> QED
  BY <1>1, <1>2, LockStateStep, OwnershipStep, TypeCorrect, PTL DEF Spec

\* A call that begins on a closed Logger never reaches the C library.
THEOREM LateCallsStayOut == Spec => []LateCallsRefused
<1>1. GoInv => LateCallsRefused
  BY DEF GoInv, NoUseAfterClose, LateCallsRefused
<1> QED
  BY <1>1, GoInvariance, PTL

\* The binding's lock never has everyone wait for everyone: whoever waits for
\* it, some goroutine has it and goes on without it, a reader up to RUnlock or
\* the Close whose turn has come (logger.go:462-472).  What that reader may wait
\* for in the C library is WaitsForSinks.
WaitsForLock(g) ==
  \/ pc[g] = "blocked"
  \/ pc[g] = "lock" /\ writer # None
  \/ pc[g] = "drain" /\ readers # {}
HasLock(g) == HoldsRead(g) \/ (pc[g] = "drain" /\ readers = {})
LockNotCircular ==
  (\E g \in Goroutines : WaitsForLock(g)) => \E h \in Goroutines : HasLock(h)

\* The lock's part of PromisedCallsEnd: its safety half.
THEOREM SomeoneHasLock == Spec => []LockNotCircular
<1>1. TypeOK /\ GoInv => LockNotCircular
  <2> SUFFICES ASSUME TypeOK, GoInv, NEW g \in Goroutines, WaitsForLock(g)
               PROVE  \E h \in Goroutines : HasLock(h)
    BY DEF LockNotCircular
  <2>1. /\ readers = {h \in Goroutines : HoldsRead(h)}
        /\ \A h \in Goroutines : writer = h <=> pc[h] = "drain"
        /\ \A h \in Goroutines : pc[h] = "blocked" => writer # None
        /\ writer \in Goroutines \cup {None}
    BY DEF GoInv, LockState, TypeOK
  <2>2. CASE readers # {}
    BY <2>1, <2>2 DEF HasLock
  <2>3. CASE readers = {}
    <3>1. writer \in Goroutines
      BY <2>1, <2>3 DEF WaitsForLock
    <3> QED
      BY <2>1, <2>3, <3>1 DEF HasLock
  <2> QED
    BY <2>2, <2>3
<1> QED
  BY <1>1, TypeCorrect, GoInvariance, PTL

-------------------------------------------------------------------------------
(* One worker thread.                                                      *)

SoleStart ==
  ~overlapped =>
    /\ workers \subseteq {worker_thread}
    /\ workers # {} => worker_started
    /\ \A g, h \in Goroutines : pc[g] = "create" /\ pc[h] = "create" => g = h
    /\ \A g \in Goroutines : pc[g] = "create" => ~worker_started

LEMMA SoleStartStep == TypeOK /\ SoleStart /\ [Next]_vars => SoleStart'
<1> SUFFICES ASSUME TypeOK, SoleStart, [Next]_vars, ~overlapped' PROVE SoleStart'
  BY DEF SoleStart
<1> USE DEF TypeOK, SoleStart
<1>1. ASSUME NEW g \in Goroutines, NEW o \in Ops, NEW d \in Timeouts,
             Call(g, o, d)
      PROVE  SoleStart'
  BY <1>1 DEF Call, Moves
<1>2. ASSUME NEW g \in Goroutines,
             \/ CloseCall(g) \/ AnnounceWriter(g) \/ CheckPtr(g) \/ ErrClosed(g)
             \/ RUnlock(g)
      PROVE  SoleStart'
  BY <1>2 DEF CloseCall, AnnounceWriter, CheckPtr, ErrClosed, RUnlock, Moves
<1>3. ASSUME NEW g \in Goroutines, TakePtr(g) PROVE SoleStart'
  BY <1>3 DEF TakePtr, Unblocked
<1>4. ASSUME NEW g \in Goroutines,
             Destroy(g) \/ DestroyJoin(g) \/ DestroyStreams(g)
      PROVE  SoleStart'
  BY <1>4 DEF Destroy, DestroyJoin, DestroyStreams, Moves
<1>5. ASSUME NEW g \in Goroutines, CStart(g) PROVE SoleStart'
  BY <1>5 DEF CStart, Enters, Moves
<1>6. ASSUME NEW g \in Goroutines, CCreate(g) PROVE SoleStart'
  <2>1. workers = {} /\ \A h \in Goroutines : pc'[h] # "create"
    BY <1>6 DEF CCreate, Goes, Moves
  <2> QED
    BY <1>6, <2>1 DEF CCreate, Goes
<1>7. ASSUME NEW g \in Goroutines,
             \/ CLog(g) \/ CConfig(g) \/ CStartRunning(g) \/ CFlush(g)
             \/ CFlushDone(g) \/ CFlushTimesOut(g) \/ CShutdown(g) \/ CJoin(g)
             \/ CJoinFails(g)
      PROVE  SoleStart'
  <2>1. /\ pc' = [pc EXCEPT ![g] = pc'[g]] /\ pc'[g] # "create"
        /\ UNCHANGED <<threads, worker_thread, overlapped>>
    BY <1>7 DEF CLog, CConfig, CStartRunning, CFlush, CFlushDone,
       CFlushTimesOut, CShutdown, CJoin, CJoinFails, Enters, Goes, Moves
  <2>2. \/ UNCHANGED worker_started
        \/ worker_started' = FALSE /\ worker_thread \notin workers
    BY <1>7 DEF CLog, CConfig, CStartRunning, CFlush, CFlushDone,
       CFlushTimesOut, CShutdown, CJoin, CJoinFails
  <2> QED
    BY <2>1, <2>2
<1>8. CASE WorkerSteps
  BY <1>8 DEF WorkerSteps, WorkerTakes, WorkerCounts, WorkerEnds, WorkerAllocFails,
     WorkerGone, WorkerMoves
<1>9. CASE UNCHANGED vars
  BY <1>9 DEF vars
<1> QED
  BY <1>1, <1>2, <1>3, <1>4, <1>5, <1>6, <1>7, <1>8, <1>9
     DEF Next, GoStep, CStep, CloseStep, WorkerSteps

\* As long as no two Starts are in the C library at once, there is never a
\* second worker thread, whatever Shutdowns and restarts come between.
THEOREM SingleWorker == Spec => []OneWorker
<1>1. Init => SoleStart
  BY DEF Init, SoleStart
<1>2. TypeOK /\ SoleStart => OneWorker
  <2> SUFFICES ASSUME TypeOK, SoleStart, ~overlapped
               PROVE  Cardinality(workers) <= 1
    BY DEF OneWorker
  <2>1. workers = {} \/ workers = {worker_thread}
    BY DEF SoleStart
  <2>2. CASE workers = {}
    <3>1. Cardinality(workers) = 0
      BY <2>2, FS_EmptySet
    <3> QED
      BY <3>1
  <2>3. CASE workers = {worker_thread}
    <3>1. Cardinality(workers) = 1
      BY <2>3, FS_Singleton
    <3> QED
      BY <3>1
  <2> QED
    BY <2>1, <2>2, <2>3
<1> QED
  BY <1>1, <1>2, SoleStartStep, TypeCorrect, PTL DEF Spec
===============================================================================
