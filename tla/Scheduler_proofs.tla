-------------------------- MODULE Scheduler_proofs --------------------------
(***************************************************************************)
(* The safety of Scheduler for any set of clients, any limit of the queue  *)
(* and any number of restarts.                                             *)
(*                                                                         *)
(* That each promise is set once rests on where a task may be: at one      *)
(* place in the queue, or in the worker's hands, or with a submit() that   *)
(* has not pushed it, and its promise is open in each of these places.     *)
(***************************************************************************)
EXTENDS Scheduler, SequenceTheorems, TLAPS

Running(t) == worker = "run" /\ task = t

\* A task that nobody submitted has no promise yet, and one that submit() has
\* not pushed is nowhere else.
ClientView ==
  \A t \in Tasks :
    /\ client[t] = "idle" => promise[t] = "none"
    /\ client[t] = "checked" => promise[t] = "pending" /\ ~Queued(t) /\ ~Running(t)

\* What is queued is open, and not being run.
QueueView == \A t \in Tasks : Queued(t) => promise[t] = "pending" /\ ~Running(t)

\* What is being run is open.
WorkerView == \A t \in Tasks : Running(t) => promise[t] = "pending"

\* No task is queued twice.
QueuedOnce == \A i, j \in DOMAIN queue : queue[i] = queue[j] => i = j

\* Once joined, the worker is gone until start() makes another.
OwnerView == owner \in {"joined", "down", "starting", "spawning"} => worker = "joined"

Placement ==
  /\ NoTaskMislaid
  /\ ClientView
  /\ QueueView
  /\ WorkerView
  /\ QueuedOnce

\* The inductive invariant.
IInv ==
  /\ TypeOK
  /\ OwnerView
  /\ QueueBounded
  /\ Placement

-----------------------------------------------------------------------------
(* What Append and Tail do to the tasks of a queue.                        *)

LEMMA AppendQueues ==
  ASSUME queue \in Seq(Tasks), NEW t \in Tasks, queue' = Append(queue, t)
  PROVE  /\ Len(queue') = Len(queue) + 1
         /\ \A u \in Tasks : Queued(u)' <=> Queued(u) \/ u = t
         /\ QueuedOnce /\ ~Queued(t) => QueuedOnce'
<1>1. /\ Len(queue') = Len(queue) + 1
      /\ \A i \in 1 .. Len(queue) : queue'[i] = queue[i]
      /\ queue'[Len(queue) + 1] = t
      /\ queue' \in Seq(Tasks)
  BY AppendProperties
<1>2. /\ Len(queue) \in Nat
      /\ DOMAIN queue = 1 .. Len(queue)
      /\ DOMAIN queue' = 1 .. Len(queue) + 1
  BY <1>1, LenProperties
<1>3. ASSUME NEW u \in Tasks PROVE Queued(u)' <=> Queued(u) \/ u = t
  BY <1>1, <1>2 DEF Queued
<1>4. ASSUME QueuedOnce, ~Queued(t) PROVE QueuedOnce'
  BY <1>1, <1>2, <1>4 DEF Queued, QueuedOnce
<1> QED BY <1>1, <1>3, <1>4

LEMMA TailUnqueues ==
  ASSUME queue \in Seq(Tasks), queue # <<>>, QueuedOnce, queue' = Tail(queue)
  PROVE  /\ Len(queue') = Len(queue) - 1
         /\ queue' \in Seq(Tasks)
         /\ Head(queue) \in Tasks
         /\ Queued(Head(queue))
         /\ \A u \in Tasks : Queued(u)' <=> Queued(u) /\ u # Head(queue)
         /\ QueuedOnce'
<1>1. /\ Len(queue') = Len(queue) - 1
      /\ queue' \in Seq(Tasks)
      /\ Head(queue) \in Tasks
      /\ \A i \in 1 .. Len(queue') : queue'[i] = queue[i + 1]
  BY HeadTailProperties
<1>2. /\ Len(queue) \in Nat \ {0}
      /\ DOMAIN queue = 1 .. Len(queue)
      /\ DOMAIN queue' = 1 .. Len(queue')
      /\ Head(queue) = queue[1]
  BY <1>1, LenProperties, EmptySeq
<1>3. QueuedOnce'
  BY <1>1, <1>2 DEF QueuedOnce
<1>4. Queued(Head(queue))
  BY <1>2 DEF Queued
<1>5. ASSUME NEW u \in Tasks PROVE Queued(u)' <=> Queued(u) /\ u # Head(queue)
  <2>1. ASSUME Queued(u)' PROVE Queued(u) /\ u # Head(queue)
    <3>1. PICK i \in 1 .. Len(queue) - 1 : queue[i + 1] = u
      BY <1>1, <1>2, <2>1 DEF Queued
    <3>2. i + 1 \in DOMAIN queue /\ 1 \in DOMAIN queue /\ i + 1 # 1
      BY <1>2, <3>1
    <3> QED BY <1>2, <3>1, <3>2 DEF Queued, QueuedOnce
  <2>2. ASSUME Queued(u), u # Head(queue) PROVE Queued(u)'
    <3>1. PICK i \in 1 .. Len(queue) : queue[i] = u
      BY <1>2, <2>2 DEF Queued
    <3>2. i # 1 /\ i - 1 \in 1 .. Len(queue')
      BY <1>1, <1>2, <2>2, <3>1
    <3>3. queue'[i - 1] = u
      BY <1>1, <3>1, <3>2
    <3> QED BY <1>2, <3>2, <3>3 DEF Queued
  <2> QED BY <2>1, <2>2
<1> QED BY <1>1, <1>3, <1>4, <1>5

LEMMA EmptyUnqueues ==
  ASSUME queue' = <<>>
  PROVE  /\ \A u \in Tasks : ~Queued(u)'
         /\ QueuedOnce'
         /\ Len(queue') = 0
BY DEF Queued, QueuedOnce

-----------------------------------------------------------------------------
(* The types.                                                              *)

LEMMA InitTyped == Init => TypeOK /\ OwnerView
<1> SUFFICES ASSUME Init PROVE TypeOK /\ OwnerView
  OBVIOUS
<1>1. queue \in Seq(Tasks) /\ starts \in 0 .. MaxStarts
  BY EmptySeq, SchedulerAssumption DEF Init
<1>2. running \in BOOLEAN /\ stopRequested \in BOOLEAN
  BY Zenon DEF Init
<1> QED BY <1>1, <1>2 DEF Init, TypeOK, NoTask, OwnerView

LEMMA StepTyped ==
  ASSUME TypeOK, OwnerView, [Next]_vars
  PROVE  TypeOK' /\ OwnerView'
<1> USE DEF TypeOK, NoTask, OwnerView
<1>1. ASSUME NEW t \in Tasks, Submit(t) PROVE TypeOK' /\ OwnerView'
  <2>1. CASE SubmitCheck(t)
    BY <2>1 DEF SubmitCheck
  <2>2. CASE SubmitPush(t)
    <3>1. queue' \in Seq(Tasks)
      BY <2>2, AppendProperties DEF SubmitPush
    <3> QED BY <2>2, <3>1 DEF SubmitPush
  <2>3. CASE SubmitNotify(t)
    BY <2>3 DEF SubmitNotify, NotifyWorker
  <2> QED BY <1>1, <2>1, <2>2, <2>3 DEF Submit
<1>2. CASE WorkerStep
  <2>1. CASE LoopTest
    BY <2>1 DEF LoopTest
  <2>2. CASE WaitTest \/ WaitBlock \/ WaitStopped
    BY <2>2 DEF WaitTest, WaitBlock, WaitStopped
  <2>3. CASE WaitPop
    <3>1. queue' \in Seq(Tasks) /\ Head(queue) \in Tasks
      BY <2>3, HeadTailProperties DEF WaitPop
    <3> QED BY <2>3, <3>1 DEF WaitPop
  <2>4. CASE Run
    BY <2>4 DEF Run
  <2>5. CASE Drain
    <3>1. queue' \in Seq(Tasks)
      BY <2>5, EmptySeq DEF Drain
    <3>2. promise' \in [Tasks -> {"none", "pending", "value", "error"}]
      BY <2>5 DEF Drain
    <3> QED BY <2>5, <3>1, <3>2 DEF Drain
  <2> QED BY <1>2, <2>1, <2>2, <2>3, <2>4, <2>5 DEF WorkerStep
<1>3. CASE SpuriousWakeup
  BY <1>3 DEF SpuriousWakeup
<1>4. CASE StopRequest
  BY <1>4 DEF StopRequest
<1>5. CASE StartRunning
  BY <1>5, SchedulerAssumption DEF StartRunning
<1>6. CASE OwnerGoesOn
  <2>1. CASE StopNotify
    BY <2>1 DEF StopNotify, NotifyWorker
  <2>2. CASE StopJoin \/ StopDone
    BY <2>2 DEF StopJoin, StopDone
  <2>3. CASE StartClear \/ StartSpawn
    BY <2>3 DEF StartClear, StartSpawn
  <2> QED BY <1>6, <2>1, <2>2, <2>3 DEF OwnerGoesOn
<1>7. CASE UNCHANGED vars
  BY <1>7 DEF vars
<1> QED BY <1>1, <1>2, <1>3, <1>4, <1>5, <1>6, <1>7 DEF Next

-----------------------------------------------------------------------------
(* Where the tasks are.                                                    *)

\* A step that moves no task, sets no promise and takes no client further.
LEMMA NobodyMoves ==
  ASSUME QueueBounded, Placement,
         UNCHANGED <<queue, promise, client>>,
         \A t \in Tasks : Running(t)' <=> Running(t)
  PROVE  QueueBounded' /\ Placement'
<1>1. QueueBounded' /\ QueuedOnce'
  BY DEF QueueBounded, Placement, QueuedOnce
<1>2. \A t \in Tasks : Queued(t)' <=> Queued(t)
  BY DEF Queued
<1>3. NoTaskMislaid'
  BY <1>2 DEF Placement, NoTaskMislaid, Running
<1>4. ClientView' /\ QueueView' /\ WorkerView'
  BY <1>2 DEF Placement, ClientView, QueueView, WorkerView
<1> QED BY <1>1, <1>3, <1>4 DEF Placement

LEMMA CheckPlaces ==
  ASSUME IInv, NEW t \in Tasks, SubmitCheck(t)
  PROVE  QueueBounded' /\ Placement'
<1> USE DEF IInv, Placement
<1>1. UNCHANGED <<queue, worker, task>> /\ client[t] = "idle" /\ promise[t] = "none"
  BY DEF SubmitCheck, ClientView
<1>2. QueueBounded' /\ QueuedOnce'
  BY <1>1 DEF QueueBounded, QueuedOnce
<1>3. \A u \in Tasks : (Queued(u)' <=> Queued(u)) /\ (Running(u)' <=> Running(u))
  BY <1>1 DEF Queued, Running
<1>4. /\ ~Queued(t) /\ ~Running(t)
      /\ \A u \in Tasks \ {t} : promise'[u] = promise[u] /\ client'[u] = client[u]
      /\ \/ promise'[t] = "error" /\ client'[t] = "returned"
         \/ promise'[t] = "pending" /\ client'[t] = "checked"
  BY <1>1 DEF SubmitCheck, TypeOK, QueueView, WorkerView
<1>5. NoTaskMislaid'
  BY <1>3, <1>4 DEF NoTaskMislaid, Running
<1>6. ClientView' /\ QueueView' /\ WorkerView'
  BY <1>3, <1>4 DEF ClientView, QueueView, WorkerView
<1> QED BY <1>2, <1>5, <1>6

LEMMA PushPlaces ==
  ASSUME IInv, NEW t \in Tasks, SubmitPush(t)
  PROVE  QueueBounded' /\ Placement'
<1> USE DEF IInv, Placement
<1>1. /\ UNCHANGED <<worker, task>>
      /\ promise[t] = "pending" /\ ~Queued(t) /\ ~Running(t)
      /\ \A u \in Tasks \ {t} : promise'[u] = promise[u] /\ client'[u] = client[u]
  BY DEF SubmitPush, ClientView, TypeOK
<1>2. \A u \in Tasks : Running(u)' <=> Running(u)
  BY <1>1 DEF Running
<1>3. CASE Len(queue) >= MaxQueue
  <2>1. UNCHANGED queue /\ promise'[t] = "error" /\ client'[t] = "returned"
    BY <1>3 DEF SubmitPush, TypeOK
  <2>2. QueueBounded' /\ QueuedOnce'
    BY <2>1 DEF QueueBounded, QueuedOnce
  <2>3. \A u \in Tasks : Queued(u)' <=> Queued(u)
    BY <2>1 DEF Queued
  <2>4. NoTaskMislaid'
    BY <1>1, <1>2, <2>1, <2>3 DEF NoTaskMislaid, Running
  <2>5. ClientView' /\ QueueView' /\ WorkerView'
    BY <1>1, <1>2, <2>1, <2>3 DEF ClientView, QueueView, WorkerView
  <2> QED BY <2>2, <2>4, <2>5
<1>4. CASE ~(Len(queue) >= MaxQueue)
  <2>1. queue' = Append(queue, t) /\ UNCHANGED promise /\ client'[t] = "pushed"
    BY <1>4 DEF SubmitPush, TypeOK
  <2>2. /\ Len(queue') = Len(queue) + 1
        /\ \A u \in Tasks : Queued(u)' <=> Queued(u) \/ u = t
        /\ QueuedOnce'
    BY <1>1, <2>1, AppendQueues DEF TypeOK
  <2>3. QueueBounded'
    <3>1. Len(queue) \in Nat
      BY LenProperties DEF TypeOK
    <3> QED BY <1>4, <2>2, <3>1, SchedulerAssumption DEF QueueBounded
  <2>4. NoTaskMislaid'
    BY <1>1, <1>2, <2>1, <2>2 DEF NoTaskMislaid, Running
  <2>5. ClientView' /\ QueueView' /\ WorkerView'
    BY <1>1, <1>2, <2>1, <2>2 DEF ClientView, QueueView, WorkerView
  <2> QED BY <2>2, <2>3, <2>4, <2>5
<1> QED BY <1>3, <1>4

LEMMA NotifyPlaces ==
  ASSUME IInv, NEW t \in Tasks, SubmitNotify(t)
  PROVE  QueueBounded' /\ Placement'
<1> USE DEF IInv, Placement
<1>1. /\ UNCHANGED <<queue, promise, task>>
      /\ client[t] = "pushed" /\ client'[t] = "returned"
      /\ \A u \in Tasks \ {t} : client'[u] = client[u]
      /\ worker' = "run" <=> worker = "run"
  BY DEF SubmitNotify, NotifyWorker, TypeOK
<1>2. QueueBounded' /\ QueuedOnce'
  BY <1>1 DEF QueueBounded, QueuedOnce
<1>3. \A u \in Tasks : (Queued(u)' <=> Queued(u)) /\ (Running(u)' <=> Running(u))
  BY <1>1 DEF Queued, Running
<1>4. NoTaskMislaid'
  BY <1>1, <1>3 DEF NoTaskMislaid, Running
<1>5. ClientView' /\ QueueView' /\ WorkerView'
  BY <1>1, <1>3 DEF ClientView, QueueView, WorkerView
<1> QED BY <1>2, <1>4, <1>5

LEMMA PopPlaces ==
  ASSUME IInv, WaitPop
  PROVE  QueueBounded' /\ Placement'
<1> USE DEF IInv, Placement
<1>1. /\ Len(queue') = Len(queue) - 1
      /\ Head(queue) \in Tasks
      /\ Queued(Head(queue))
      /\ \A u \in Tasks : Queued(u)' <=> Queued(u) /\ u # Head(queue)
      /\ QueuedOnce'
  BY TailUnqueues DEF WaitPop, TypeOK
<1>2. /\ UNCHANGED <<promise, client>>
      /\ \A u \in Tasks : ~Running(u) /\ (Running(u)' <=> u = Head(queue))
  BY DEF WaitPop, Running
<1>3. QueueBounded'
  <2>1. Len(queue) \in Nat
    BY LenProperties DEF TypeOK
  <2> QED BY <1>1, <2>1, SchedulerAssumption DEF QueueBounded
<1>4. NoTaskMislaid'
  <2> SUFFICES ASSUME NEW u \in Tasks, promise[u] = "pending", client[u] # "checked"
               PROVE  Queued(u)' \/ Running(u)'
    BY <1>2 DEF NoTaskMislaid, Running
  <2>1. Queued(u)
    BY <1>2 DEF NoTaskMislaid, Running
  <2> QED BY <1>1, <1>2, <2>1
<1>5. ClientView' /\ QueueView' /\ WorkerView'
  BY <1>1, <1>2 DEF ClientView, QueueView, WorkerView
<1> QED BY <1>1, <1>3, <1>4, <1>5

LEMMA RunPlaces ==
  ASSUME IInv, Run
  PROVE  QueueBounded' /\ Placement'
<1> USE DEF IInv, Placement
<1>1. /\ UNCHANGED <<queue, client>>
      /\ task \in Tasks /\ Running(task) /\ promise[task] = "pending"
      /\ promise'[task] \in {"value", "error"}
      /\ \A u \in Tasks \ {task} : promise'[u] = promise[u] /\ ~Running(u)
      /\ \A u \in Tasks : ~Running(u)'
  BY DEF Run, Running, TypeOK, WorkerView
<1>2. QueueBounded' /\ QueuedOnce'
  BY <1>1 DEF QueueBounded, QueuedOnce
<1>3. \A u \in Tasks : Queued(u)' <=> Queued(u)
  BY <1>1 DEF Queued
<1>4. ~Queued(task) /\ client[task] # "checked" /\ client[task] # "idle"
  BY <1>1 DEF QueueView, ClientView
<1>5. NoTaskMislaid'
  BY <1>1, <1>3 DEF NoTaskMislaid, Running
<1>6. ClientView' /\ QueueView' /\ WorkerView'
  BY <1>1, <1>3, <1>4 DEF ClientView, QueueView, WorkerView
<1> QED BY <1>2, <1>5, <1>6

LEMMA DrainPlaces ==
  ASSUME IInv, Drain
  PROVE  QueueBounded' /\ Placement'
<1> USE DEF IInv, Placement
<1>1. /\ \A u \in Tasks : ~Queued(u)'
      /\ QueuedOnce'
      /\ Len(queue') = 0
  BY EmptyUnqueues DEF Drain
<1>2. /\ UNCHANGED client
      /\ \A u \in Tasks : promise'[u] = IF Queued(u) THEN "error" ELSE promise[u]
      /\ \A u \in Tasks : ~Running(u) /\ ~Running(u)'
  BY DEF Drain, Running
<1>3. QueueBounded'
  BY <1>1, SchedulerAssumption DEF QueueBounded
<1>4. NoTaskMislaid'
  BY <1>2 DEF NoTaskMislaid, Running
<1>5. ClientView'
  BY <1>1, <1>2 DEF ClientView, QueueView
<1>6. QueueView' /\ WorkerView'
  BY <1>1, <1>2 DEF QueueView, WorkerView
<1> QED BY <1>1, <1>3, <1>4, <1>5, <1>6

-----------------------------------------------------------------------------
(* The theorems.                                                           *)

LEMMA InitHolds == Init => IInv
<1> SUFFICES ASSUME Init PROVE IInv
  OBVIOUS
<1>1. QueueBounded /\ \A t \in Tasks : ~Queued(t) /\ ~Running(t)
  BY EmptySeq, SchedulerAssumption DEF Init, QueueBounded, Queued, Running
<1>2. Placement
  BY <1>1 DEF Init, Placement, NoTaskMislaid, ClientView, QueueView, WorkerView, QueuedOnce
<1> QED BY <1>1, <1>2, InitTyped DEF IInv

LEMMA StepHolds ==
  ASSUME IInv, [Next]_vars
  PROVE  IInv'
<1> SUFFICES QueueBounded' /\ Placement'
  BY StepTyped DEF IInv
<1>1. ASSUME UNCHANGED <<queue, promise, client>>,
             \A t \in Tasks : Running(t)' <=> Running(t)
      PROVE  QueueBounded' /\ Placement'
  BY <1>1, NobodyMoves DEF IInv
<1>2. ASSUME NEW t \in Tasks, Submit(t) PROVE QueueBounded' /\ Placement'
  BY <1>2, CheckPlaces, PushPlaces, NotifyPlaces DEF Submit
<1>3. CASE WorkerStep
  <2>1. CASE LoopTest \/ WaitTest \/ WaitBlock \/ WaitStopped
    BY <1>1, <2>1 DEF LoopTest, WaitTest, WaitBlock, WaitStopped, Running
  <2> QED BY <1>3, <2>1, PopPlaces, RunPlaces, DrainPlaces DEF WorkerStep
<1>4. CASE SpuriousWakeup
  BY <1>1, <1>4 DEF SpuriousWakeup, Running
<1>5. CASE StopRequest \/ StartRunning
  BY <1>1, <1>5 DEF StopRequest, StartRunning, Running
<1>6. CASE OwnerGoesOn
  <2>1. CASE StopNotify
    BY <1>1, <2>1 DEF StopNotify, NotifyWorker, Running
  <2>2. CASE StopJoin \/ StopDone \/ StartClear
    BY <1>1, <2>2 DEF StopJoin, StopDone, StartClear, Running
  <2>3. CASE StartSpawn
    BY <1>1, <2>3 DEF StartSpawn, Running, IInv, OwnerView
  <2> QED BY <1>6, <2>1, <2>2, <2>3 DEF OwnerGoesOn
<1>7. CASE UNCHANGED vars
  BY <1>1, <1>7 DEF vars, Running
<1> QED BY <1>2, <1>3, <1>4, <1>5, <1>6, <1>7 DEF Next

\* The invariant holds in every reachable state.
THEOREM Invariance == Safety => []IInv
<1> QED BY InitHolds, StepHolds, PTL DEF Safety

\* Every variable keeps its type, and the worker holds a task exactly while it
\* runs one.
THEOREM TypeCorrect == Safety => []TypeOK
<1>1. IInv => TypeOK
  BY DEF IInv
<1> QED BY <1>1, Invariance, PTL

\* The queue keeps to its limit though any number of threads test it at once
\* (scheduler.cpp:44-47, 72-75).
THEOREM QueueKeepsLimit == Safety => []QueueBounded
<1>1. IInv => QueueBounded
  BY DEF IInv
<1> QED BY <1>1, Invariance, PTL

\* Every open future is with its submit(), in the queue or in the worker's
\* hands, across stops and restarts.
THEOREM NothingMislaid == Safety => []NoTaskMislaid
<1>1. IInv => NoTaskMislaid
  BY DEF IInv, Placement
<1> QED BY <1>1, Invariance, PTL

LEMMA StepAnswersOnce ==
  ASSUME IInv, [Next]_vars, NEW t \in Tasks, Answered(t)
  PROVE  promise'[t] = promise[t]
<1> USE DEF IInv, Placement
<1>1. promise[t] \notin {"none", "pending"}
  BY DEF Answered
<1>2. ASSUME NEW u \in Tasks, Submit(u) PROVE promise'[t] = promise[t]
  <2>1. CASE client[u] = "pushed"
    BY <1>2, <2>1 DEF Submit, SubmitCheck, SubmitPush, SubmitNotify
  <2>2. CASE client[u] # "pushed"
    <3>1. u # t
      BY <1>1, <1>2, <2>2 DEF Submit, SubmitCheck, SubmitPush, SubmitNotify, ClientView
    <3> QED BY <1>2, <2>2, <3>1 DEF Submit, SubmitCheck, SubmitPush, SubmitNotify, TypeOK
  <2> QED BY <2>1, <2>2
<1>3. CASE WorkerStep
  <2>1. CASE LoopTest \/ WaitTest \/ WaitBlock \/ WaitStopped \/ WaitPop
    BY <2>1 DEF LoopTest, WaitTest, WaitBlock, WaitStopped, WaitPop
  <2>2. CASE Run
    <3>1. task # t
      BY <1>1, <2>2 DEF Run, WorkerView, Running
    <3> QED BY <2>2, <3>1 DEF Run, TypeOK
  <2>3. CASE Drain
    <3>1. ~Queued(t)
      BY <1>1 DEF QueueView
    <3> QED BY <2>3, <3>1 DEF Drain
  <2> QED BY <1>3, <2>1, <2>2, <2>3 DEF WorkerStep
<1>4. CASE SpuriousWakeup \/ StopRequest \/ StartRunning
  BY <1>4 DEF SpuriousWakeup, StopRequest, StartRunning
<1>5. CASE OwnerGoesOn
  BY <1>5 DEF OwnerGoesOn, StopNotify, StopJoin, StopDone, StartClear, StartSpawn
<1>6. CASE UNCHANGED vars
  BY <1>6 DEF vars
<1> QED BY <1>2, <1>3, <1>4, <1>5, <1>6 DEF Next

\* No promise is set twice, whoever answers it: the worker, its drain or a
\* submit() that refuses (scheduler.cpp:115-128, 136-146).
THEOREM PromisesSetOnce == Safety => AnsweredOnce
<1>1. IInv /\ [Next]_vars => [\A t \in Tasks : Answered(t) => promise'[t] = promise[t]]_vars
  BY StepAnswersOnce
<1> QED BY <1>1, Invariance, PTL DEF Safety, AnsweredOnce
=============================================================================
