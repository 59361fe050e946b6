-------------------------- MODULE ThreadPoolProofs --------------------------
(***************************************************************************)
(* Proofs about ThreadPool for any finite set of workers and any producers, *)
(* tasks and number of shutdowns.                                           *)
(***************************************************************************)
EXTENDS ThreadPool, FiniteSetTheorems, TLAPS

(* Shutdown has closed the pool before it does anything else. *)
ClosedFirst == spc # "none" \/ shutdowns > 0 => isClosed

(* Until phase 2 drops the queue, the tasks submitted are those started      *)
(* followed by those queued.                                                 *)
Fifo ==
    shutdowns = 0 =>
        /\ Len(submitted) = Len(started) + Len(tasks)
        /\ \A i \in 1..Len(tasks) : tasks[i] = submitted[Len(started) + i]

(* A task that was started has finished or is held by a running worker. *)
Accounted ==
    \A i \in 1..Len(started) :
        started[i] \in finished \/ \E w \in Worker : wpc[w] = "run" /\ cur[w] = started[i]

RunHasTask == \A w \in Worker : wpc[w] = "run" => cur[w] \in Task

EarlySubmitted == early \subseteq {submitted[i] : i \in 1..Len(submitted)}

(* The inductive invariant. *)
IInv ==
    /\ TypeOK
    /\ ActiveExact
    /\ NoLostWakeup
    /\ ClosedFirst
    /\ StartOrder
    /\ Fifo
    /\ Accounted
    /\ RunHasTask
    /\ EarlySubmitted
    /\ GracefulIsTrue

-----------------------------------------------------------------------------

LEMMA BusyFinite == IsFiniteSet(Busy) /\ Cardinality(Busy) \in Nat
  BY WorkerAssumption, FS_Subset, FS_CardinalityType DEF Busy

(* A busy worker is counted. *)
LEMMA BusyCounted ==
    ASSUME TypeOK, ActiveExact, NEW w \in Worker, wpc[w] \in {"run", "back"}
    PROVE  activeThreads - 1 \in Nat
<1>1. Busy # {}
  BY DEF Busy
<1>2. Cardinality(Busy) # 0
  BY <1>1, BusyFinite, FS_EmptySet
<1> QED
  BY <1>2, BusyFinite DEF ActiveExact, TypeOK

(* The initial states satisfy the invariant. *)
LEMMA InitInv == Init => IInv
<1> SUFFICES ASSUME Init PROVE IInv
  OBVIOUS
<1>1. TypeOK
  <2>1. isClosed \in BOOLEAN /\ graceful \in BOOLEAN
    BY DEF Init
  <2>2. /\ tasks \in Seq(Task) /\ submitted \in Seq(Task) /\ started \in Seq(Task)
        /\ activeThreads \in Nat /\ shutdowns \in Nat
    BY DEF Init
  <2>3. /\ wpc \in [Worker -> WorkerStates] /\ cur \in [Worker -> Task \cup {NoTask}]
        /\ ppc \in [Producer -> {"idle", "notify"}] /\ spc \in ShutdownStates
        /\ finished \in SUBSET Task /\ early \in SUBSET Task
    BY DEF Init, WorkerStates, ShutdownStates
  <2> QED
    BY <2>1, <2>2, <2>3 DEF TypeOK
<1>2. Busy = {}
  BY DEF Init, Busy
<1>3. ActiveExact
  BY <1>2, FS_EmptySet DEF Init, ActiveExact
<1>4. StartOrder /\ Fifo /\ Accounted /\ RunHasTask /\ EarlySubmitted
  BY DEF Init, StartOrder, Fifo, Accounted, RunHasTask, EarlySubmitted, NoTask
<1> QED
  BY <1>1, <1>3, <1>4 DEF IInv, Init, NoLostWakeup, ClosedFirst, GracefulIsTrue

-----------------------------------------------------------------------------
(* The counter of active threads *)

LEMMA BusyWorkerStep ==
    ASSUME TypeOK, ActiveExact, NEW w \in Worker, WorkerStep(w)
    PROVE  ActiveExact' /\ activeThreads' \in Nat
<1> USE BusyFinite DEF WorkerStates
<1>1. CASE WorkerTop(w)
  <2>1. CASE LoopPop(w, activeThreads)
    <3>1. w \notin Busy
      BY <1>1 DEF WorkerTop, Busy
    <3>2. Busy' = Busy \cup {w}
      BY <2>1 DEF LoopPop, Pop, Busy, TypeOK
    <3>3. Cardinality(Busy') = Cardinality(Busy) + 1
      BY <3>1, <3>2, FS_AddElement
    <3> QED
      BY <2>1, <3>3 DEF LoopPop, Pop, ActiveExact, TypeOK
  <2>2. CASE LoopExit(w, activeThreads) \/ LoopWait(w, activeThreads)
    <3>1. Busy' = Busy
      BY <1>1, <2>2 DEF WorkerTop, LoopExit, LoopWait, Busy, TypeOK
    <3> QED
      BY <2>2, <3>1 DEF LoopExit, LoopWait, ActiveExact, TypeOK
  <2> QED
    BY <1>1, <2>1, <2>2 DEF WorkerTop, Loop
<1>2. CASE WorkerFinish(w)
  <2>1. Busy' = Busy
    BY <1>2 DEF WorkerFinish, Busy, TypeOK
  <2> QED
    BY <1>2, <2>1 DEF WorkerFinish, ActiveExact, TypeOK
<1>3. CASE WorkerBack(w)
  <2>1. w \in Busy /\ activeThreads - 1 \in Nat
    BY <1>3, BusyCounted DEF WorkerBack, Busy
  <2>2. CASE LoopPop(w, activeThreads - 1)
    <3>1. Busy' = Busy
      BY <1>3, <2>2 DEF WorkerBack, LoopPop, Pop, Busy, TypeOK
    <3> QED
      BY <2>1, <2>2, <3>1 DEF LoopPop, Pop, ActiveExact, TypeOK
  <2>3. CASE LoopExit(w, activeThreads - 1) \/ LoopWait(w, activeThreads - 1)
    <3>1. Busy' = Busy \ {w}
      BY <2>3 DEF LoopExit, LoopWait, Busy, TypeOK
    <3>2. Cardinality(Busy') = Cardinality(Busy) - 1
      BY <2>1, <3>1, FS_RemoveElement
    <3> QED
      BY <2>1, <2>3, <3>2 DEF LoopExit, LoopWait, ActiveExact, TypeOK
  <2> QED
    BY <1>3, <2>2, <2>3 DEF WorkerBack, Loop
<1> QED
  BY <1>1, <1>2, <1>3 DEF WorkerStep

(* Every other step leaves the busy workers and their count alone. *)
LEMMA BusyOtherStep ==
    ASSUME TypeOK, ActiveExact,
           \/ \E w \in Worker : SpuriousWakeup(w)
           \/ \E p \in Producer : NotifyOne(p) \/ \E t \in Task : AddTask(p, t)
           \/ ShutdownClose \/ ShutdownStep \/ ShutdownSpurious
           \/ UNCHANGED vars
    PROVE  ActiveExact' /\ activeThreads' = activeThreads
<1>1. activeThreads' = activeThreads
  BY DEF SpuriousWakeup, NotifyOne, AddTask, ShutdownClose, ShutdownStep, ShutdownSpurious,
         ShutdownCheck, ShutdownExpire, ShutdownResult, ShutdownDrain, vars
<1>2. \A w \in Worker : wpc'[w] \in {"run", "back"} <=> wpc[w] \in {"run", "back"}
  <2>1. CASE \E w \in Worker : SpuriousWakeup(w)
    BY <2>1 DEF SpuriousWakeup, TypeOK
  <2>2. CASE \E p \in Producer : NotifyOne(p)
    BY <2>2 DEF NotifyOne, TypeOK
  <2>3. CASE ShutdownClose
    BY <2>3 DEF ShutdownClose, NotifyAll, TypeOK
  <2>4. CASE (\E p \in Producer, t \in Task : AddTask(p, t)) \/ UNCHANGED vars
             \/ ShutdownStep \/ ShutdownSpurious
    BY <2>4 DEF AddTask, ShutdownStep, ShutdownSpurious, ShutdownCheck, ShutdownExpire,
                ShutdownResult, ShutdownDrain, vars
  <2> QED
    BY <2>1, <2>2, <2>3, <2>4
<1>3. Busy' = Busy
  BY <1>2 DEF Busy
<1> QED
  BY <1>1, <1>3 DEF ActiveExact

-----------------------------------------------------------------------------
(* Types *)

LEMMA LoopType ==
    ASSUME TypeOK, NEW w \in Worker, NEW active \in Nat, Loop(w, active)
    PROVE  TypeOK'
<1> USE DEF WorkerStates
<1>1. UNCHANGED <<isClosed, ppc, shut, submitted, finished, early>>
  BY DEF Loop
<1>2. /\ tasks' \in Seq(Task) /\ started' \in Seq(Task) /\ activeThreads' \in Nat
      /\ wpc' \in [Worker -> WorkerStates] /\ cur' \in [Worker -> Task \cup {NoTask}]
  <2>1. CASE LoopPop(w, active)
    <3>1. tasks # <<>> /\ Head(tasks) \in Task /\ Tail(tasks) \in Seq(Task)
      BY <2>1 DEF LoopPop, Pop, TypeOK
    <3> QED
      BY <2>1, <3>1 DEF LoopPop, Pop, TypeOK
  <2>2. CASE LoopExit(w, active) \/ LoopWait(w, active)
    BY <2>2 DEF LoopExit, LoopWait, TypeOK
  <2> QED
    BY <2>1, <2>2 DEF Loop
<1> QED
  BY <1>1, <1>2 DEF TypeOK, shut

LEMMA TypeStep ==
    ASSUME TypeOK, ActiveExact, RunHasTask, [Next]_vars
    PROVE  TypeOK'
<1>1. ASSUME NEW w \in Worker, WorkerStep(w) PROVE TypeOK'
  <2>1. CASE WorkerTop(w)
    BY <2>1, LoopType DEF WorkerTop, TypeOK
  <2>2. CASE WorkerBack(w)
    BY <2>2, LoopType, BusyCounted DEF WorkerBack
  <2>3. CASE WorkerFinish(w)
    <3>1. cur[w] \in Task
      BY <2>3 DEF WorkerFinish, RunHasTask
    <3>2. finished' \in SUBSET Task
      BY <2>3, <3>1 DEF WorkerFinish, TypeOK
    <3> QED
      BY <2>3, <3>2 DEF WorkerFinish, TypeOK, WorkerStates, shut
  <2> QED
    BY <1>1, <2>1, <2>2, <2>3 DEF WorkerStep
<1>2. ASSUME NEW w \in Worker, SpuriousWakeup(w) PROVE TypeOK'
  BY <1>2 DEF SpuriousWakeup, TypeOK, WorkerStates, shut, hist
<1>3. ASSUME NEW p \in Producer, NotifyOne(p) PROVE TypeOK'
  BY <1>3 DEF NotifyOne, TypeOK, WorkerStates, ShutdownStates, hist
<1>4. ASSUME NEW p \in Producer, NEW t \in Task, AddTask(p, t) PROVE TypeOK'
  BY <1>4 DEF AddTask, TypeOK, shut
<1>5. CASE ShutdownClose
  BY <1>5 DEF ShutdownClose, NotifyAll, TypeOK, WorkerStates, ShutdownStates, hist
<1>6. CASE ShutdownStep \/ ShutdownSpurious
  <2>1. AllDone = TRUE \/ AllDone = FALSE
    BY DEF AllDone
  <2>2. graceful' = AllDone \/ graceful' = graceful
    BY <1>6, Zenon DEF ShutdownStep, ShutdownSpurious, ShutdownCheck, ShutdownExpire,
                       ShutdownResult, ShutdownDrain
  <2>3. graceful' \in BOOLEAN
    BY <2>1, <2>2 DEF TypeOK
  <2>4. /\ spc' \in ShutdownStates
        /\ shutdowns' = shutdowns \/ shutdowns' = shutdowns + 1
        /\ tasks' = tasks \/ tasks' = <<>>
    BY <1>6, Zenon DEF ShutdownStep, ShutdownSpurious, ShutdownCheck, ShutdownExpire,
                       ShutdownResult, ShutdownDrain, ShutdownStates
  <2>5. UNCHANGED <<isClosed, activeThreads, wpc, cur, ppc, hist>>
    BY <1>6 DEF ShutdownStep, ShutdownSpurious, ShutdownCheck, ShutdownExpire,
                ShutdownResult, ShutdownDrain
  <2> QED
    <3>1. shutdowns \in Nat /\ tasks \in Seq(Task)
      BY DEF TypeOK
    <3>2. shutdowns' \in Nat
      BY <2>4, <3>1
    <3>3. tasks' \in Seq(Task)
      <4>1. <<>> \in Seq(Task)
        OBVIOUS
      <4> QED
        BY <2>4, <3>1, <4>1, Zenon
    <3> QED
      BY <2>3, <2>4, <2>5, <3>2, <3>3, Zenon DEF TypeOK, hist
<1>7. CASE UNCHANGED vars
  BY <1>7 DEF vars, TypeOK, shut, hist
<1> QED
  BY <1>1, <1>2, <1>3, <1>4, <1>5, <1>6, <1>7 DEF Next

-----------------------------------------------------------------------------
(* Steps of Shutdown after it closed the pool *)

LEMMA ShutdownFrame ==
    ASSUME ShutdownStep \/ ShutdownSpurious
    PROVE  /\ spc # "none"
           /\ UNCHANGED <<isClosed, activeThreads, wpc, cur, ppc, submitted, started, finished, early>>
           /\ \/ ShutdownDrain
              \/ UNCHANGED <<tasks, shutdowns>>
  BY Zenon DEF ShutdownStep, ShutdownSpurious, ShutdownCheck, ShutdownExpire, ShutdownResult,
               ShutdownDrain, hist

LEMMA ClosedFirstStep ==
    ASSUME ClosedFirst, [Next]_vars
    PROVE  ClosedFirst' /\ (isClosed => isClosed')
<1>1. CASE \E w \in Worker : WorkerStep(w) \/ SpuriousWakeup(w)
  BY <1>1 DEF WorkerStep, SpuriousWakeup, WorkerTop, WorkerFinish, WorkerBack, Loop, shut, ClosedFirst
<1>2. CASE \E p \in Producer : NotifyOne(p) \/ \E t \in Task : AddTask(p, t)
  BY <1>2 DEF NotifyOne, AddTask, shut, ClosedFirst
<1>3. CASE ShutdownClose
  BY <1>3 DEF ShutdownClose, ClosedFirst
<1>4. CASE ShutdownStep \/ ShutdownSpurious
  BY <1>4, ShutdownFrame DEF ClosedFirst
<1>5. CASE UNCHANGED vars
  BY <1>5 DEF vars, shut, ClosedFirst
<1> QED
  BY <1>1, <1>2, <1>3, <1>4, <1>5 DEF Next

-----------------------------------------------------------------------------
(* Wakeups *)

LEMMA WakeupStep ==
    ASSUME TypeOK, ClosedFirst, NoLostWakeup, [Next]_vars
    PROVE  NoLostWakeup'
<1> SUFFICES ASSUME ~isClosed', tasks' # <<>>
             PROVE  (\E v \in Worker : wpc'[v] # "wait") \/ (\E q \in Producer : ppc'[q] = "notify")
  BY DEF NoLostWakeup
<1>0. ~isClosed /\ spc' = "none"
  BY ClosedFirstStep DEF ClosedFirst
<1>1. ASSUME NEW w \in Worker, WorkerStep(w) \/ SpuriousWakeup(w)
      PROVE  wpc'[w] # "wait"
  BY <1>0, <1>1 DEF WorkerStep, SpuriousWakeup, WorkerTop, WorkerFinish, WorkerBack, Loop,
                    LoopExit, LoopPop, Pop, LoopWait, TypeOK
<1>2. ASSUME NEW p \in Producer, NotifyOne(p)
      PROVE  \E v \in Worker : wpc'[v] # "wait"
  <2>1. spc # "wait"
    BY <1>0 DEF ClosedFirst
  <2>2. CASE NobodyWaits /\ UNCHANGED wpc
    BY <2>2, WorkerAssumption DEF NobodyWaits
  <2>3. CASE \E w \in Worker : wpc' = [wpc EXCEPT ![w] = "top"]
    BY <2>3 DEF TypeOK
  <2> QED
    BY <1>2, <2>1, <2>2, <2>3 DEF NotifyOne
<1>3. ASSUME NEW p \in Producer, NEW t \in Task, AddTask(p, t)
      PROVE  ppc'[p] = "notify"
  BY <1>3 DEF AddTask, TypeOK
<1>4. CASE ShutdownClose
  BY <1>0, <1>4 DEF ShutdownClose
<1>5. CASE ShutdownStep \/ ShutdownSpurious
  BY <1>0, <1>5, ShutdownFrame DEF ClosedFirst
<1>6. CASE UNCHANGED vars
  BY <1>0, <1>6 DEF vars, NoLostWakeup
<1> QED
  BY <1>1, <1>2, <1>3, <1>4, <1>5, <1>6 DEF Next

-----------------------------------------------------------------------------
(* Order *)

LEMMA OrderStep ==
    ASSUME TypeOK, ClosedFirst, StartOrder, Fifo, [Next]_vars
    PROVE  StartOrder' /\ Fifo'
<1> USE DEF StartOrder, Fifo
<1>1. ASSUME NEW w \in Worker, NEW active, LoopPop(w, active), Loop(w, active)
      PROVE  StartOrder' /\ Fifo'
  <2>1. shutdowns = 0 /\ tasks # <<>> /\ shutdowns' = shutdowns /\ submitted' = submitted
    BY <1>1 DEF Loop, LoopPop, Pop, shut, ClosedFirst, TypeOK
  <2>2. /\ Len(tasks) > 0 /\ Head(tasks) = tasks[1]
        /\ Len(tasks') = Len(tasks) - 1
        /\ \A i \in 1..Len(tasks') : tasks'[i] = tasks[i + 1]
    BY <1>1, <2>1 DEF LoopPop, Pop, TypeOK
  <2>3. /\ Len(started') = Len(started) + 1
        /\ started'[Len(started) + 1] = tasks[1]
        /\ \A i \in 1..Len(started) : started'[i] = started[i]
    BY <1>1, <2>2 DEF LoopPop, Pop, TypeOK
  <2>4. Len(started) \in Nat /\ Len(tasks) \in Nat /\ Len(submitted) \in Nat
    BY DEF TypeOK
  <2>5. tasks[1] = submitted[Len(started) + 1]
    BY <2>1, <2>2, <2>4
  <2>6. StartOrder'
    BY <2>1, <2>2, <2>3, <2>4, <2>5
  <2>7. Fifo'
    BY <2>1, <2>2, <2>3, <2>4
  <2> QED
    BY <2>6, <2>7
<1>2. ASSUME NEW p \in Producer, NEW t \in Task, AddTask(p, t)
      PROVE  StartOrder' /\ Fifo'
  <2>1. /\ Len(tasks') = Len(tasks) + 1 /\ tasks'[Len(tasks) + 1] = t
        /\ \A i \in 1..Len(tasks) : tasks'[i] = tasks[i]
    BY <1>2 DEF AddTask, TypeOK
  <2>2. /\ Len(submitted') = Len(submitted) + 1 /\ submitted'[Len(submitted) + 1] = t
        /\ \A i \in 1..Len(submitted) : submitted'[i] = submitted[i]
    BY <1>2 DEF AddTask, TypeOK
  <2>3. started' = started /\ shutdowns' = shutdowns
    BY <1>2 DEF AddTask, shut
  <2>4. Len(started) \in Nat /\ Len(tasks) \in Nat /\ Len(submitted) \in Nat
    BY DEF TypeOK
  <2>5. StartOrder'
    BY <2>2, <2>3, <2>4
  <2>6. ASSUME shutdowns = 0
        PROVE  /\ Len(submitted') = Len(started') + Len(tasks')
               /\ \A i \in 1..Len(tasks') : tasks'[i] = submitted'[Len(started') + i]
    <3>1. Len(submitted) = Len(started) + Len(tasks)
      BY <2>6
    <3>2. ASSUME NEW i \in 1..Len(tasks') PROVE tasks'[i] = submitted'[Len(started') + i]
      <4>1. CASE i = Len(tasks) + 1
        BY <2>1, <2>2, <2>3, <2>4, <3>1, <4>1
      <4>2. CASE i \in 1..Len(tasks)
        <5>1. tasks'[i] = tasks[i] /\ tasks[i] = submitted[Len(started) + i]
          BY <2>1, <2>6, <4>2
        <5>2. Len(started) + i \in 1..Len(submitted)
          BY <2>4, <3>1, <4>2
        <5> QED
          BY <2>2, <2>3, <5>1, <5>2
      <4> QED
        BY <2>1, <2>4, <4>1, <4>2
    <3>3. Len(started') = Len(started)
      BY <2>3
    <3>4. Len(tasks') = Len(tasks) + 1 /\ Len(submitted') = Len(submitted) + 1
      BY <2>1, <2>2
    <3>5. Len(submitted') = Len(started') + Len(tasks')
      BY <2>4, <3>1, <3>3, <3>4
    <3> QED
      BY <3>2, <3>5, Zenon
  <2> QED
    BY <2>3, <2>5, <2>6
<1>3. CASE ShutdownDrain
  BY <1>3 DEF ShutdownDrain, hist, TypeOK
<1>4. CASE UNCHANGED <<tasks, submitted, started, shutdowns>>
  BY <1>4
<1>5. ASSUME NEW w \in Worker, WorkerStep(w)
      PROVE  \/ UNCHANGED <<tasks, submitted, started, shutdowns>>
             \/ \E active \in {activeThreads, activeThreads - 1} : LoopPop(w, active) /\ Loop(w, active)
  BY <1>5 DEF WorkerStep, WorkerTop, WorkerFinish, WorkerBack, Loop, LoopExit, LoopWait, shut
<1>6. ASSUME NEW w \in Worker, SpuriousWakeup(w)
      PROVE  UNCHANGED <<tasks, submitted, started, shutdowns>>
  BY <1>6 DEF SpuriousWakeup, shut, hist
<1>7. ASSUME NEW p \in Producer, NotifyOne(p)
      PROVE  UNCHANGED <<tasks, submitted, started, shutdowns>>
  BY <1>7 DEF NotifyOne, hist
<1>8. CASE ShutdownClose
  BY <1>4, <1>8 DEF ShutdownClose, hist
<1>9. CASE ShutdownStep \/ ShutdownSpurious
  BY <1>3, <1>4, <1>9, ShutdownFrame
<1>10. CASE UNCHANGED vars
  BY <1>4, <1>10 DEF vars, shut, hist
<1> QED
  BY <1>1, <1>2, <1>4, <1>5, <1>6, <1>7, <1>8, <1>9, <1>10 DEF Next

-----------------------------------------------------------------------------
(* What became of the tasks *)

LEMMA AccountedStep ==
    ASSUME TypeOK, Accounted, RunHasTask, [Next]_vars
    PROVE  Accounted' /\ RunHasTask'
<1>1. ASSUME NEW w \in Worker, wpc[w] # "run", NEW active, Loop(w, active)
      PROVE  Accounted' /\ RunHasTask'
  <2>1. finished' = finished
    BY <1>1 DEF Loop
  <2>2. CASE LoopPop(w, active)
    <3>1. tasks # <<>> /\ Head(tasks) \in Task
      BY <2>2 DEF LoopPop, Pop, TypeOK
    <3>2. /\ wpc'[w] = "run" /\ cur'[w] = Head(tasks)
          /\ \A v \in Worker \ {w} : wpc'[v] = wpc[v] /\ cur'[v] = cur[v]
      BY <2>2 DEF LoopPop, Pop, TypeOK
    <3>3. RunHasTask'
      BY <3>1, <3>2 DEF RunHasTask
    <3>4. ASSUME NEW i \in 1..Len(started')
          PROVE  started'[i] = Head(tasks) \/ (i \in 1..Len(started) /\ started'[i] = started[i])
      BY <2>2, <3>1 DEF LoopPop, Pop, TypeOK
    <3>5. ASSUME NEW i \in 1..Len(started')
          PROVE  started'[i] \in finished' \/ \E v \in Worker : wpc'[v] = "run" /\ cur'[v] = started'[i]
      BY <1>1, <2>1, <3>2, <3>4 DEF Accounted
    <3> QED
      BY <3>3, <3>5 DEF Accounted
  <2>3. CASE LoopExit(w, active) \/ LoopWait(w, active)
    <3>1. /\ started' = started /\ cur' = cur /\ wpc'[w] # "run"
          /\ \A v \in Worker \ {w} : wpc'[v] = wpc[v]
      BY <2>3 DEF LoopExit, LoopWait, TypeOK
    <3> QED
      BY <1>1, <2>1, <3>1 DEF Accounted, RunHasTask
  <2> QED
    BY <1>1, <2>2, <2>3 DEF Loop
<1>2. ASSUME NEW w \in Worker, WorkerFinish(w) PROVE Accounted' /\ RunHasTask'
  <2>1. /\ started' = started /\ finished' = finished \cup {cur[w]} /\ wpc'[w] = "back"
        /\ \A v \in Worker \ {w} : wpc'[v] = wpc[v] /\ cur'[v] = cur[v]
    BY <1>2 DEF WorkerFinish, TypeOK
  <2> QED
    BY <2>1 DEF Accounted, RunHasTask
<1>3. ASSUME UNCHANGED <<started, finished, cur>>,
             \A v \in Worker : wpc'[v] = "run" <=> wpc[v] = "run"
      PROVE  Accounted' /\ RunHasTask'
  BY <1>3 DEF Accounted, RunHasTask
<1>4. ASSUME NEW w \in Worker, WorkerStep(w) PROVE Accounted' /\ RunHasTask'
  BY <1>1, <1>2, <1>4 DEF WorkerStep, WorkerTop, WorkerBack
<1>5. ASSUME NEW w \in Worker, SpuriousWakeup(w) PROVE Accounted' /\ RunHasTask'
  BY <1>3, <1>5 DEF SpuriousWakeup, hist, TypeOK
<1>6. ASSUME NEW p \in Producer, NotifyOne(p) PROVE Accounted' /\ RunHasTask'
  BY <1>3, <1>6 DEF NotifyOne, hist, TypeOK
<1>7. ASSUME NEW p \in Producer, NEW t \in Task, AddTask(p, t) PROVE Accounted' /\ RunHasTask'
  BY <1>3, <1>7 DEF AddTask
<1>8. CASE ShutdownClose
  BY <1>3, <1>8 DEF ShutdownClose, NotifyAll, hist
<1>9. CASE ShutdownStep \/ ShutdownSpurious
  BY <1>3, <1>9, ShutdownFrame
<1>10. CASE UNCHANGED vars
  BY <1>3, <1>10 DEF vars, hist
<1> QED
  BY <1>4, <1>5, <1>6, <1>7, <1>8, <1>9, <1>10 DEF Next

LEMMA EarlyStep ==
    ASSUME TypeOK, EarlySubmitted, [Next]_vars
    PROVE  EarlySubmitted' /\ (isClosed => early' = early)
<1>1. ASSUME UNCHANGED <<early, submitted>> PROVE EarlySubmitted' /\ early' = early
  BY <1>1 DEF EarlySubmitted
<1>2. ASSUME NEW p \in Producer, NEW t \in Task, AddTask(p, t)
      PROVE  EarlySubmitted' /\ (isClosed => early' = early)
  <2>1. /\ Len(submitted') = Len(submitted) + 1 /\ submitted'[Len(submitted) + 1] = t
        /\ \A i \in 1..Len(submitted) : submitted'[i] = submitted[i]
        /\ Len(submitted) \in Nat
    BY <1>2 DEF AddTask, TypeOK
  <2>2. early' \subseteq early \cup {t}
    BY <1>2 DEF AddTask
  <2>3. \A i \in 1..Len(submitted) : i \in 1..Len(submitted')
    BY <2>1
  <2>4. Len(submitted) + 1 \in 1..Len(submitted')
    BY <2>1
  <2>5. EarlySubmitted'
    BY <2>1, <2>2, <2>3, <2>4 DEF EarlySubmitted
  <2> QED
    BY <1>2, <2>5 DEF AddTask
<1>3. ASSUME NEW w \in Worker, WorkerStep(w) \/ SpuriousWakeup(w)
      PROVE  UNCHANGED <<early, submitted>>
  BY <1>3 DEF WorkerStep, SpuriousWakeup, WorkerTop, WorkerFinish, WorkerBack, Loop, hist
<1>4. ASSUME NEW p \in Producer, NotifyOne(p) PROVE UNCHANGED <<early, submitted>>
  BY <1>4 DEF NotifyOne, hist
<1>5. CASE ShutdownClose
  BY <1>1, <1>5 DEF ShutdownClose, hist
<1>6. CASE ShutdownStep \/ ShutdownSpurious
  BY <1>1, <1>6, ShutdownFrame
<1>7. CASE UNCHANGED vars
  BY <1>1, <1>7 DEF vars, hist
<1> QED
  BY <1>1, <1>2, <1>3, <1>4, <1>5, <1>6, <1>7 DEF Next

(* When nothing is queued and nothing is counted as running, and the queue   *)
(* was never dropped, every submitted task has finished.                     *)
LEMMA AllDoneMeansFinished ==
    ASSUME IInv, AllDone, shutdowns = 0
    PROVE  early \subseteq finished
<1>1. Busy = {}
  BY BusyFinite, FS_EmptySet DEF IInv, ActiveExact, AllDone
<1>2. \A i \in 1..Len(started) : started[i] \in finished
  BY <1>1 DEF IInv, Accounted, Busy
<1>3. Len(submitted) = Len(started)
  <2>1. Len(tasks) = 0 /\ Len(started) \in Nat
    BY DEF AllDone, IInv, TypeOK
  <2> QED
    BY <2>1 DEF IInv, Fifo
<1>4. \A i \in 1..Len(submitted) : submitted[i] \in finished
  BY <1>2, <1>3 DEF IInv, StartOrder
<1> QED
  BY <1>4 DEF IInv, EarlySubmitted

LEMMA GracefulStep ==
    ASSUME IInv, [Next]_vars
    PROVE  GracefulIsTrue'
<1> SUFFICES ASSUME spc' = "drain", graceful', shutdowns' = 0 PROVE early' \subseteq finished'
  BY DEF GracefulIsTrue
<1>1. ASSUME UNCHANGED <<spc, graceful, shutdowns>>, finished \subseteq finished'
      PROVE  early' \subseteq finished'
  <2>1. spc = "drain" /\ shutdowns = 0 /\ early \subseteq finished
    BY <1>1 DEF IInv, GracefulIsTrue
  <2>2. early' = early
    BY <2>1, EarlyStep DEF IInv, ClosedFirst
  <2> QED
    BY <1>1, <2>1, <2>2
<1>2. ASSUME NEW w \in Worker, WorkerStep(w) \/ SpuriousWakeup(w) PROVE early' \subseteq finished'
  <2>1. UNCHANGED <<spc, graceful, shutdowns>> /\ finished \subseteq finished'
    BY <1>2 DEF WorkerStep, SpuriousWakeup, WorkerTop, WorkerFinish, WorkerBack, Loop, shut, hist
  <2> QED
    BY <1>1, <2>1
<1>3. ASSUME NEW p \in Producer, NEW t \in Task, AddTask(p, t) PROVE early' \subseteq finished'
  BY <1>1, <1>3 DEF AddTask, shut
<1>4. ASSUME NEW p \in Producer, NotifyOne(p) PROVE early' \subseteq finished'
  <2>1. UNCHANGED <<spc, graceful, shutdowns>> /\ finished' = finished
    BY <1>4 DEF NotifyOne, hist
  <2> QED
    BY <1>1, <2>1
<1>5. CASE ShutdownClose
  BY <1>5 DEF ShutdownClose
<1>6. CASE ShutdownStep \/ ShutdownSpurious
  <2>1. AllDone /\ UNCHANGED <<shutdowns, early, finished>>
    BY <1>6, Zenon DEF ShutdownStep, ShutdownSpurious, ShutdownCheck, ShutdownExpire,
                       ShutdownResult, ShutdownDrain, hist
  <2> QED
    BY <2>1, AllDoneMeansFinished
<1>7. CASE UNCHANGED vars
  BY <1>1, <1>7 DEF vars, shut, hist
<1> QED
  BY <1>2, <1>3, <1>4, <1>5, <1>6, <1>7 DEF Next

-----------------------------------------------------------------------------

LEMMA InvStep == IInv /\ [Next]_vars => IInv'
<1> SUFFICES ASSUME IInv, [Next]_vars PROVE IInv'
  OBVIOUS
<1>1. ActiveExact'
  BY BusyWorkerStep, BusyOtherStep DEF IInv, Next
<1> QED
  BY <1>1, TypeStep, WakeupStep, ClosedFirstStep, OrderStep, AccountedStep, EarlyStep,
     GracefulStep DEF IInv

LEMMA Invariance == Spec => []IInv
  BY InitInv, InvStep, PTL DEF Spec

(* The pool keeps its types: in particular activeThreads never goes below    *)
(* zero, whatever the workers and Shutdown interleave.                       *)
THEOREM TypeCorrect == Spec => []TypeOK
  BY Invariance, PTL DEF IInv

(* activeThreads of the pool always is the number of workers between pop and *)
(* decrement, for any number of workers.                                     *)
THEOREM ActiveIsExact == Spec => []ActiveExact
  BY Invariance, PTL DEF IInv

(* Workers start the tasks of AddTask in order, none twice, none skipped.    *)
THEOREM StartsInOrder == Spec => []StartOrder
  BY Invariance, PTL DEF IInv

(* notify_one outside the mutex and a wait without a predicate lose no       *)
(* wakeup of a worker, for any number of workers and producers.              *)
THEOREM WakeupsAreKept == Spec => []NoLostWakeup
  BY Invariance, PTL DEF IInv

(* "All tasks completed gracefully" is true when the first Shutdown says it. *)
THEOREM GracefulIsHonest == Spec => []GracefulIsTrue
  BY Invariance, PTL DEF IInv
=============================================================================
