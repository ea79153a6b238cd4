----------------------------- MODULE Scheduler ------------------------------
(***************************************************************************)
(* src/scheduler.cpp, include/llm/scheduler.h: the request queue in front  *)
(* of the one Runtime.  Any number of threads submit; one worker runs the  *)
(* tasks; the owner starts and stops it.                                   *)
(*                                                                         *)
(* submit() tests the two flags without the mutex, then the queue under    *)
(* it.  stop() sets its flag and notifies without the mutex, so its steps  *)
(* fall between the worker's test of the predicate and its going to sleep, *)
(* which only the mutex keeps together.  A task stands for its future; the *)
(* prompt, the callback and the result are left out, and so is which of    *)
(* the two submit functions was called: they differ in the type only.      *)
(***************************************************************************)
EXTENDS Integers, Sequences, FiniteSets

CONSTANTS
  Tasks,     \* what the clients submit, one submitting thread each
  MaxQueue,  \* max_queue_
  MaxStarts  \* bound: how often the owner starts the worker again

ASSUME SchedulerAssumption ==
  /\ IsFiniteSet(Tasks)
  /\ MaxQueue \in Nat
  /\ MaxStarts \in Nat

VARIABLES
  running, stopRequested,  \* running_, stop_requested_
  queue,                   \* queue_
  promise,                 \* the promise of each task
  client,                  \* where each submitting thread is
  worker, task,            \* worker_loop: where it is, the task it holds
  owner, starts            \* where the owner is; how often it called start

vars == <<running, stopRequested, queue, promise, client, worker, task, owner, starts>>

NoTask == "none"
Answered(t) == promise[t] \in {"value", "error"}
Queued(t)   == \E i \in DOMAIN queue : queue[i] = t

\* The worker has evaluated its predicate and still holds mutex_.
Held == worker = "blocking"

\* cv_.notify_one and notify_all: there is one thread to wake.
NotifyWorker == worker' = IF worker = "asleep" THEN "test" ELSE worker

\* The constructor has called start().
Init ==
  /\ running = TRUE
  /\ stopRequested = FALSE
  /\ queue = <<>>
  /\ promise = [t \in Tasks |-> "none"]
  /\ client = [t \in Tasks |-> "idle"]
  /\ worker = "loop"
  /\ task = NoTask
  /\ owner = "up"
  /\ starts = 0

-----------------------------------------------------------------------------
(* submit, submit_fn.                                                      *)

\* The flags are read before the mutex is taken.
SubmitCheck(t) ==
  /\ client[t] = "idle"
  /\ IF stopRequested \/ ~running
       THEN /\ promise' = [promise EXCEPT ![t] = "error"]
            /\ client' = [client EXCEPT ![t] = "returned"]
       ELSE /\ promise' = [promise EXCEPT ![t] = "pending"]
            /\ client' = [client EXCEPT ![t] = "checked"]
  /\ UNCHANGED <<running, stopRequested, queue, worker, task, owner, starts>>

\* Mutant: the queue is allowed one too many.
SubmitPushOver(t) ==
  /\ client[t] = "checked"
  /\ ~Held
  /\ IF Len(queue) > MaxQueue
       THEN /\ promise' = [promise EXCEPT ![t] = "error"]
            /\ client' = [client EXCEPT ![t] = "returned"]
            /\ UNCHANGED queue
       ELSE /\ queue' = Append(queue, t)
            /\ client' = [client EXCEPT ![t] = "pushed"]
            /\ UNCHANGED promise
  /\ UNCHANGED <<running, stopRequested, worker, task, owner, starts>>

SubmitPush(t) ==
  /\ client[t] = "checked"
  /\ ~Held
  /\ IF Len(queue) >= MaxQueue
       THEN /\ promise' = [promise EXCEPT ![t] = "error"]
            /\ client' = [client EXCEPT ![t] = "returned"]
            /\ UNCHANGED queue
       ELSE /\ queue' = Append(queue, t)
            /\ client' = [client EXCEPT ![t] = "pushed"]
            /\ UNCHANGED promise
  /\ UNCHANGED <<running, stopRequested, worker, task, owner, starts>>

\* Mutant: cv_.notify_one is forgotten.
SubmitSilently(t) ==
  /\ client[t] = "pushed"
  /\ client' = [client EXCEPT ![t] = "returned"]
  /\ UNCHANGED <<running, stopRequested, queue, promise, worker, task, owner, starts>>

SubmitNotify(t) ==
  /\ client[t] = "pushed"
  /\ client' = [client EXCEPT ![t] = "returned"]
  /\ NotifyWorker
  /\ UNCHANGED <<running, stopRequested, queue, promise, task, owner, starts>>

-----------------------------------------------------------------------------
(* worker_loop.                                                            *)

LoopTest ==
  /\ worker = "loop"
  /\ worker' = IF stopRequested THEN "drain" ELSE "test"
  /\ UNCHANGED <<running, stopRequested, queue, promise, client, task, owner, starts>>

\* cv_.wait, under the mutex: nothing to do, so the worker is about to block...
WaitTest ==
  /\ worker = "test"
  /\ ~stopRequested
  /\ queue = <<>>
  /\ worker' = "blocking"
  /\ UNCHANGED <<running, stopRequested, queue, promise, client, task, owner, starts>>

\* ... and blocks, releasing the mutex.
WaitBlock ==
  /\ worker = "blocking"
  /\ worker' = "asleep"
  /\ UNCHANGED <<running, stopRequested, queue, promise, client, task, owner, starts>>

SpuriousWakeup ==
  /\ worker = "asleep"
  /\ worker' = "test"
  /\ UNCHANGED <<running, stopRequested, queue, promise, client, task, owner, starts>>

\* The predicate is true: stopped and nothing queued...
WaitStopped ==
  /\ worker = "test"
  /\ stopRequested
  /\ queue = <<>>
  /\ worker' = "drain"
  /\ UNCHANGED <<running, stopRequested, queue, promise, client, task, owner, starts>>

\* ... or something queued, which is run even if the stop was requested.
WaitPop ==
  /\ worker = "test"
  /\ queue # <<>>
  /\ task' = Head(queue)
  /\ queue' = Tail(queue)
  /\ worker' = "run"
  /\ UNCHANGED <<running, stopRequested, promise, client, owner, starts>>

\* Mutant: the task of this round is kept for the next one.
RunKeepingTask ==
  /\ worker = "run"
  /\ \E outcome \in {"value", "error"} : promise' = [promise EXCEPT ![task] = outcome]
  /\ worker' = "loop"
  /\ UNCHANGED <<running, stopRequested, queue, client, task, owner, starts>>

\* The task ran, or threw; either way its promise is set.
Run ==
  /\ worker = "run"
  /\ \E outcome \in {"value", "error"} : promise' = [promise EXCEPT ![task] = outcome]
  /\ task' = NoTask
  /\ worker' = "loop"
  /\ UNCHANGED <<running, stopRequested, queue, client, owner, starts>>

\* Mutant: what was queued is answered but left in the queue.
DrainKeeping ==
  /\ worker = "drain"
  /\ promise' = [t \in Tasks |-> IF Queued(t) THEN "error" ELSE promise[t]]
  /\ worker' = "exited"
  /\ UNCHANGED <<running, stopRequested, queue, client, task, owner, starts>>

\* Mutant: the worker returns without draining.
DrainNothing ==
  /\ worker = "drain"
  /\ queue' = <<>>
  /\ worker' = "exited"
  /\ UNCHANGED <<running, stopRequested, promise, client, task, owner, starts>>

\* The drain, under the mutex: everything still queued is refused.
Drain ==
  /\ worker = "drain"
  /\ promise' = [t \in Tasks |-> IF Queued(t) THEN "error" ELSE promise[t]]
  /\ queue' = <<>>
  /\ worker' = "exited"
  /\ UNCHANGED <<running, stopRequested, client, task, owner, starts>>

-----------------------------------------------------------------------------
(* stop and start, called by the owner.                                    *)

StopRequest ==
  /\ owner = "up"
  /\ stopRequested' = TRUE
  /\ owner' = "notifying"
  /\ UNCHANGED <<running, queue, promise, client, worker, task, starts>>

StopNotify ==
  /\ owner = "notifying"
  /\ owner' = "joining"
  /\ NotifyWorker
  /\ UNCHANGED <<running, stopRequested, queue, promise, client, task, starts>>

StopJoin ==
  /\ owner = "joining"
  /\ worker = "exited"
  /\ worker' = "joined"
  /\ owner' = "joined"
  /\ UNCHANGED <<running, stopRequested, queue, promise, client, task, starts>>

StopDone ==
  /\ owner = "joined"
  /\ running' = FALSE
  /\ owner' = "down"
  /\ UNCHANGED <<stopRequested, queue, promise, client, worker, task, starts>>

\* running_ is set first, the stop request withdrawn next, then the thread made.
StartRunning ==
  /\ owner = "down"
  /\ starts < MaxStarts
  /\ starts' = starts + 1
  /\ running' = TRUE
  /\ owner' = "starting"
  /\ UNCHANGED <<stopRequested, queue, promise, client, worker, task>>

StartClear ==
  /\ owner = "starting"
  /\ stopRequested' = FALSE
  /\ owner' = "spawning"
  /\ UNCHANGED <<running, queue, promise, client, worker, task, starts>>

StartSpawn ==
  /\ owner = "spawning"
  /\ worker' = "loop"
  /\ owner' = "up"
  /\ UNCHANGED <<running, stopRequested, queue, promise, client, task, starts>>

-----------------------------------------------------------------------------
Submit(t) == SubmitCheck(t) \/ SubmitPush(t) \/ SubmitNotify(t)

\* submit(), once called, runs to its end.
SubmitGoesOn(t) == SubmitPush(t) \/ SubmitNotify(t)

WorkerStep ==
  \/ LoopTest
  \/ WaitTest \/ WaitBlock \/ WaitStopped \/ WaitPop
  \/ Run
  \/ Drain

OwnerGoesOn == StopNotify \/ StopJoin \/ StopDone \/ StartClear \/ StartSpawn

Next ==
  \/ \E t \in Tasks : Submit(t)
  \/ WorkerStep
  \/ SpuriousWakeup
  \/ StopRequest
  \/ StartRunning
  \/ OwnerGoesOn

\* Threads that can run do; nobody has to submit, to stop or to start, and no
\* wakeup comes but by a notify.
Fairness ==
  /\ WF_vars(WorkerStep)
  /\ WF_vars(OwnerGoesOn)
  /\ \A t \in Tasks : WF_vars(SubmitGoesOn(t))

Safety == Init /\ [][Next]_vars
Spec   == Safety /\ Fairness

-----------------------------------------------------------------------------
(* Properties.                                                             *)

\* Types of the queue, the flags and the three kinds of thread; the worker holds
\* a task exactly while it runs one.
TypeOK ==
  /\ running \in BOOLEAN /\ stopRequested \in BOOLEAN
  /\ queue \in Seq(Tasks)
  /\ promise \in [Tasks -> {"none", "pending", "value", "error"}]
  /\ client \in [Tasks -> {"idle", "checked", "pushed", "returned"}]
  /\ worker \in {"loop", "test", "blocking", "asleep", "run", "drain", "exited", "joined"}
  /\ task \in IF worker = "run" THEN Tasks ELSE {NoTask}
  /\ owner \in {"up", "notifying", "joining", "joined", "down", "starting", "spawning"}
  /\ starts \in 0 .. MaxStarts

\* However many threads test the limit at once, the queue keeps to it
\* (scheduler.cpp:44-47, 72-75).
QueueBounded == Len(queue) <= MaxQueue

\* A promise is set once, across stops and restarts: setting one again throws
\* inside the worker's catch block (scheduler.cpp:115-128, 136-146).
AnsweredOnce == [][\A t \in Tasks : Answered(t) => promise'[t] = promise[t]]_vars

\* No accepted task is mislaid: while its future is open, the task is queued or
\* the worker runs it, or submit has not pushed it yet.
NoTaskMislaid ==
  \A t \in Tasks : promise[t] = "pending" =>
    client[t] = "checked" \/ Queued(t) \/ (worker = "run" /\ task = t)

\* A task queued before any stop is requested is answered, though the owner may
\* stop (and start) the scheduler right after (scheduler.cpp:94-147).
AcceptedIsAnswered ==
  \A t \in Tasks : (Queued(t) /\ ~stopRequested) ~> Answered(t)

\* scheduler.h:42, "Stop the worker thread": stop() returns.
StopReturns == (owner = "notifying") ~> (owner = "down")

\* scheduler.h:42, "drain remaining or reject new tasks": once stop() has
\* returned, no future is left open by a submit() that has returned.
StoppedMeansAnswered ==
  owner = "down" => \A t \in Tasks : client[t] = "returned" => Answered(t)
=============================================================================
