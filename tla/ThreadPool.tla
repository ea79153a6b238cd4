----------------------------- MODULE ThreadPool -----------------------------
(***************************************************************************)
(* include/llm/threadpool.h: the persistent workers, the hand-off of a     *)
(* parallel loop through an atomic generation counter, the barrier on      *)
(* remaining_, and the two condition variables threads fall back to after  *)
(* spinning.                                                               *)
(*                                                                         *)
(* Thread 0 is the caller, which works too; 1 .. NThreads-1 are workers.   *)
(* fn_, total_, chunk_ and static_ are plain fields that workers read      *)
(* without the mutex; they are read at the start of a chunk.  Every atomic *)
(* access is a step of its own but two: the caller's description of a loop *)
(* (the plain fields and next_row_, which no worker looks at before the    *)
(* new generation) is one step, and so is a worker's section under m_.  Of *)
(* the mutex only the caller's sections span several steps (Held).  How    *)
(* long a thread spins is left open: it may give up at any check.  A       *)
(* parallel body does not throw.  The statistics counters are left out.    *)
(***************************************************************************)
EXTENDS Integers, FiniteSets

CONSTANTS
  NThreads,    \* n_: the caller and n_-1 workers; a pool of one runs the body
               \* inline and is not modelled
  MaxTotal,    \* bound: items of a call
  MaxCalls,    \* bound: calls of parallel_for
  Fixed,       \* the chunk of FixedN (8, 16 or 32 in the code)
  Parts,       \* ProportionalN: N chunks per thread (2 or 4)
  AdaptiveMin  \* the least chunk of Adaptive (16)

ASSUME PoolAssumption ==
  /\ NThreads \in Nat \ {0, 1}
  /\ MaxTotal \in Nat
  /\ MaxCalls \in Nat
  /\ Fixed \in Nat \ {0}
  /\ Parts \in Nat \ {0}
  /\ AdaptiveMin \in Nat \ {0}

Threads == 0 .. NThreads - 1
Workers == Threads \ {0}
Policies == {"Static", "Fixed", "Proportional", "Adaptive"}

VARIABLES
  fn,          \* fn_: the number of the call whose body it is, 0 for nullptr
  total, chunk, static,     \* total_, chunk_, static_
  nextRow,     \* next_row_
  remaining,   \* remaining_
  generation,  \* generation_
  sleepers,    \* sleepers_
  mainWaiting, \* main_waiting_
  stop,        \* stop_
  pc,          \* where each thread is
  seen, g,     \* worker_loop: the generation last run, the one just read
  range,       \* the chunk [begin, end) a thread has claimed
  calls,       \* calls begun so far
  done         \* how often the body got each item in the current call, one
               \* item past the last of the longest call among them

fields  == <<fn, total, chunk, static>>
atomics == <<nextRow, remaining, generation, sleepers, mainWaiting, stop>>
vars == <<fn, total, chunk, static, nextRow, remaining, generation, sleepers,
          mainWaiting, stop, pc, seen, g, range, calls, done>>

NoRange == <<0, 0>>
LargerOf(a, b)  == IF a > b THEN a ELSE b
SmallerOf(a, b) == IF a < b THEN a ELSE b

\* Where the caller holds m_ between two steps.
Held == pc[0] \in {"setRemaining", "setGeneration", "testDone", "blocking", "waited"}

GoTo(t, where) == pc' = [pc EXCEPT ![t] = where]

Init ==
  /\ fn = 0 /\ total = 0 /\ chunk = 0 /\ static = FALSE
  /\ nextRow = 0
  /\ remaining = 0
  /\ generation = 0
  /\ sleepers = 0
  /\ mainWaiting = FALSE
  /\ stop = FALSE
  /\ pc = [t \in Threads |-> IF t = 0 THEN "idle" ELSE "spin"]
  /\ seen = [w \in Workers |-> 0]
  /\ g = [w \in Workers |-> 0]
  /\ range = [t \in Threads |-> NoRange]
  /\ calls = 0
  /\ done = [i \in 0 .. MaxTotal |-> 0]

-----------------------------------------------------------------------------
(* parallel_for.                                                           *)

\* The chunk of a call; an override fixes it (0 means none).
ChunkOf(n, policy, override) ==
  CASE override > 0            -> override
    [] policy = "Static"       -> (n + NThreads - 1) \div NThreads
    [] policy = "Fixed"        -> Fixed
    [] policy = "Proportional" -> LargerOf(1, n \div (NThreads * Parts))
    [] policy = "Adaptive"     -> LargerOf(AdaptiveMin, n \div (NThreads * Parts))

\* Mutant: an override keeps the one-chunk-per-thread split.
StaticSplitAlways(policy, override) == policy = "Static"

StaticSplit(policy, override) == override <= 0 /\ policy = "Static"

\* Nothing to do.
CallNothing ==
  /\ pc[0] = "idle"
  /\ calls < MaxCalls
  /\ calls' = calls + 1
  /\ UNCHANGED <<fields, atomics, pc, seen, g, range, done>>

\* Under m_: the loop is described; no worker looks at it yet.
Call(n, policy, override) ==
  /\ pc[0] = "idle"
  /\ calls < MaxCalls
  /\ calls' = calls + 1
  /\ fn' = calls + 1
  /\ total' = n
  /\ nextRow' = 0
  /\ static' = StaticSplit(policy, override)
  /\ chunk' = ChunkOf(n, policy, override)
  /\ done' = [i \in DOMAIN done |-> 0]
  /\ GoTo(0, "setRemaining")
  /\ UNCHANGED <<remaining, generation, sleepers, mainWaiting, stop, seen, g, range>>

\* Mutant: the count is left as the last call's barrier ended.
SkipRemaining ==
  /\ pc[0] = "setRemaining"
  /\ GoTo(0, "setGeneration")
  /\ UNCHANGED <<fields, atomics, seen, g, range, calls, done>>

\* Mutant: off by one, the last worker is not waited for.
SetRemainingShort ==
  /\ pc[0] = "setRemaining"
  /\ remaining' = NThreads - 2
  /\ GoTo(0, "setGeneration")
  /\ UNCHANGED <<fields, nextRow, generation, sleepers, mainWaiting, stop,
                 seen, g, range, calls, done>>

SetRemaining ==
  /\ pc[0] = "setRemaining"
  /\ remaining' = NThreads - 1
  /\ GoTo(0, "setGeneration")
  /\ UNCHANGED <<fields, nextRow, generation, sleepers, mainWaiting, stop,
                 seen, g, range, calls, done>>

SetGeneration ==
  /\ pc[0] = "setGeneration"
  /\ generation' = generation + 1
  /\ GoTo(0, "wake")
  /\ UNCHANGED <<fields, nextRow, remaining, sleepers, mainWaiting, stop,
                 seen, g, range, calls, done>>

\* cv_.notify_all.
WakeAll == [t \in Threads |-> IF pc[t] = "asleep" /\ t # 0 THEN "lock" ELSE pc[t]]

\* Only if somebody sleeps, and without the mutex.
Wake ==
  /\ pc[0] = "wake"
  /\ pc' = [(IF sleepers > 0 THEN WakeAll ELSE pc) EXCEPT ![0] = "run"]
  /\ UNCHANGED <<fields, atomics, seen, g, range, calls, done>>

\* Mutant: off by one, the caller does not wait for the last worker.
SpinAlmostDone ==
  /\ pc[0] = "barrier"
  /\ remaining <= 1
  /\ GoTo(0, "return")
  /\ UNCHANGED <<fields, atomics, seen, g, range, calls, done>>

\* Spinning on remaining_; or the caller is tired of it.
SpinDone ==
  /\ pc[0] = "barrier"
  /\ remaining = 0
  /\ GoTo(0, "return")
  /\ UNCHANGED <<fields, atomics, seen, g, range, calls, done>>

SpinTired ==
  /\ pc[0] = "barrier"
  /\ remaining # 0
  /\ GoTo(0, "tired")
  /\ UNCHANGED <<fields, atomics, seen, g, range, calls, done>>

\* It takes m_ and says that it waits.
Announce ==
  /\ pc[0] = "tired"
  /\ mainWaiting' = TRUE
  /\ GoTo(0, "testDone")
  /\ UNCHANGED <<fields, nextRow, remaining, generation, sleepers, stop,
                 seen, g, range, calls, done>>

\* done_cv_.wait: the predicate is evaluated under m_, at first and when woken;
\* m_ is released as the caller blocks.
WaitOver ==
  /\ pc[0] \in {"testDone", "woken"}
  /\ remaining = 0
  /\ GoTo(0, "waited")
  /\ UNCHANGED <<fields, atomics, seen, g, range, calls, done>>

\* It waits no more, and lets go of m_.
Withdraw ==
  /\ pc[0] = "waited"
  /\ mainWaiting' = FALSE
  /\ GoTo(0, "return")
  /\ UNCHANGED <<fields, nextRow, remaining, generation, sleepers, stop,
                 seen, g, range, calls, done>>

WaitMore ==
  /\ pc[0] \in {"testDone", "woken"}
  /\ remaining # 0
  /\ GoTo(0, "blocking")
  /\ UNCHANGED <<fields, atomics, seen, g, range, calls, done>>

Block ==
  /\ pc[0] = "blocking"
  /\ GoTo(0, "asleep")
  /\ UNCHANGED <<fields, atomics, seen, g, range, calls, done>>

\* fn_ = nullptr; the body may cease to exist.
Return ==
  /\ pc[0] = "return"
  /\ fn' = 0
  /\ GoTo(0, "idle")
  /\ UNCHANGED <<total, chunk, static, atomics, seen, g, range, calls, done>>

-----------------------------------------------------------------------------
(* run_chunk, by the caller and by the workers.                            *)

\* What a thread does when it has no more chunks.
AfterRun(t) == IF t = 0 THEN "barrier" ELSE "leave"

\* Static: the thread's own chunk, or none; it makes no second round.
ClaimStatic(t) ==
  LET begin == t * chunk IN
  /\ pc[t] = "run"
  /\ static
  /\ IF begin >= total
       THEN GoTo(t, AfterRun(t)) /\ UNCHANGED range
       ELSE /\ GoTo(t, "body")
            /\ range' = [range EXCEPT ![t] = <<begin, SmallerOf(begin + chunk, total)>>]
  /\ UNCHANGED <<fields, atomics, seen, g, calls, done>>

\* Mutant: the counter goes on by one item, not by the chunk.
ClaimByOne(t) ==
  /\ pc[t] = "run"
  /\ ~static
  /\ nextRow' = nextRow + 1
  /\ IF nextRow >= total
       THEN GoTo(t, AfterRun(t)) /\ UNCHANGED range
       ELSE /\ GoTo(t, "body")
            /\ range' = [range EXCEPT ![t] = <<nextRow, SmallerOf(nextRow + chunk, total)>>]
  /\ UNCHANGED <<fields, remaining, generation, sleepers, mainWaiting, stop,
                 seen, g, calls, done>>

\* Dynamic: next_row_.fetch_add.
ClaimDynamic(t) ==
  /\ pc[t] = "run"
  /\ ~static
  /\ nextRow' = nextRow + chunk
  /\ IF nextRow >= total
       THEN GoTo(t, AfterRun(t)) /\ UNCHANGED range
       ELSE /\ GoTo(t, "body")
            /\ range' = [range EXCEPT ![t] = <<nextRow, SmallerOf(nextRow + chunk, total)>>]
  /\ UNCHANGED <<fields, remaining, generation, sleepers, mainWaiting, stop,
                 seen, g, calls, done>>

\* (*fn_)(tid, begin, end).
Body(t) ==
  /\ pc[t] = "body"
  /\ done' = [i \in DOMAIN done |->
                done[i] + (IF range[t][1] <= i /\ i < range[t][2] THEN 1 ELSE 0)]
  /\ range' = [range EXCEPT ![t] = NoRange]
  /\ GoTo(t, IF static THEN AfterRun(t) ELSE "run")
  /\ UNCHANGED <<fields, atomics, seen, g, calls>>

-----------------------------------------------------------------------------
(* worker_loop.                                                            *)

\* The spin ends because a new generation or the stop is seen...
SpinSees(w) ==
  /\ pc[w] = "spin"
  /\ generation # seen[w] \/ stop
  /\ g' = [g EXCEPT ![w] = generation]
  /\ GoTo(w, "check")
  /\ UNCHANGED <<fields, atomics, seen, range, calls, done>>

\* ... or the worker gives up spinning, with nothing new seen.
SpinGivesUp(w) ==
  /\ pc[w] = "spin"
  /\ generation = seen[w]
  /\ ~stop
  /\ GoTo(w, "tired")
  /\ UNCHANGED <<fields, atomics, seen, g, range, calls, done>>

\* m_ taken, sleepers_ counted while it is worth sleeping, the predicate of
\* cv_.wait evaluated, all in one section.
Sleep(w) ==
  /\ pc[w] = "tired"
  /\ ~Held
  /\ IF stop \/ generation # seen[w]
       THEN /\ g' = [g EXCEPT ![w] = generation]
            /\ GoTo(w, "check")
            /\ UNCHANGED sleepers
       ELSE /\ sleepers' = sleepers + 1
            /\ GoTo(w, "asleep")
            /\ UNCHANGED g
  /\ UNCHANGED <<fields, nextRow, remaining, generation, mainWaiting, stop,
                 seen, range, calls, done>>

\* Notified (or woken for nothing): m_ retaken, the predicate evaluated again.
Recheck(w) ==
  /\ pc[w] = "lock"
  /\ ~Held
  /\ IF stop \/ generation # seen[w]
       THEN /\ sleepers' = sleepers - 1
            /\ g' = [g EXCEPT ![w] = generation]
            /\ GoTo(w, "check")
       ELSE /\ GoTo(w, "asleep")
            /\ UNCHANGED <<sleepers, g>>
  /\ UNCHANGED <<fields, nextRow, remaining, generation, mainWaiting, stop,
                 seen, range, calls, done>>

\* stop_ is looked at before the new generation is run.
Check(w) ==
  /\ pc[w] = "check"
  /\ IF stop THEN GoTo(w, "exited") /\ UNCHANGED seen
             ELSE /\ seen' = [seen EXCEPT ![w] = g[w]]
                  /\ GoTo(w, "run")
  /\ UNCHANGED <<fields, atomics, g, range, calls, done>>

\* remaining_.fetch_sub(1): the last one out looks whether the caller waits.
Leave(w) ==
  /\ pc[w] = "leave"
  /\ remaining' = remaining - 1
  /\ GoTo(w, IF remaining = 1 THEN "last" ELSE "spin")
  /\ UNCHANGED <<fields, nextRow, generation, sleepers, mainWaiting, stop,
                 seen, g, range, calls, done>>

Last(w) ==
  /\ pc[w] = "last"
  /\ GoTo(w, IF mainWaiting THEN "notify" ELSE "spin")
  /\ UNCHANGED <<fields, atomics, seen, g, range, calls, done>>

\* Mutant: done_cv_.notify_one without the mutex.
NotifyUnlocked(w) ==
  /\ pc[w] = "notify"
  /\ pc' = [pc EXCEPT ![w] = "spin", ![0] = IF @ = "asleep" THEN "woken" ELSE @]
  /\ UNCHANGED <<fields, atomics, seen, g, range, calls, done>>

\* Under m_, so that the caller is asleep or will test remaining_ again.
Notify(w) ==
  /\ pc[w] = "notify"
  /\ ~Held
  /\ pc' = [pc EXCEPT ![w] = "spin", ![0] = IF @ = "asleep" THEN "woken" ELSE @]
  /\ UNCHANGED <<fields, atomics, seen, g, range, calls, done>>

\* A condition variable may wake its waiters for nothing.
SpuriousWakeup(t) ==
  /\ pc[t] = "asleep"
  /\ GoTo(t, IF t = 0 THEN "woken" ELSE "lock")
  /\ UNCHANGED <<fields, atomics, seen, g, range, calls, done>>

-----------------------------------------------------------------------------
(* ~ThreadPool.                                                            *)

\* Under m_.
Destroy ==
  /\ pc[0] = "idle"
  /\ stop' = TRUE
  /\ GoTo(0, "stopping")
  /\ UNCHANGED <<fields, nextRow, remaining, generation, sleepers, mainWaiting,
                 seen, g, range, calls, done>>

\* Mutant: nobody is told.
DestroySilently ==
  /\ pc[0] = "stopping"
  /\ GoTo(0, "join")
  /\ UNCHANGED <<fields, atomics, seen, g, range, calls, done>>

DestroyNotify ==
  /\ pc[0] = "stopping"
  /\ pc' = [WakeAll EXCEPT ![0] = "join"]
  /\ UNCHANGED <<fields, atomics, seen, g, range, calls, done>>

Join ==
  /\ pc[0] = "join"
  /\ \A w \in Workers : pc[w] = "exited"
  /\ GoTo(0, "gone")
  /\ UNCHANGED <<fields, atomics, seen, g, range, calls, done>>

-----------------------------------------------------------------------------
RunChunk(t) == ClaimStatic(t) \/ ClaimDynamic(t) \/ Body(t)

CallerStep ==
  \/ SetRemaining \/ SetGeneration \/ Wake
  \/ RunChunk(0)
  \/ SpinDone \/ SpinTired \/ Announce \/ WaitMore \/ Block \/ WaitOver \/ Withdraw
  \/ Return
  \/ DestroyNotify \/ Join

\* A worker spins until there is something to see; that it gives up is not
\* something it must do.
WorkerStep(w) ==
  \/ SpinSees(w)
  \/ Sleep(w) \/ Recheck(w)
  \/ Check(w)
  \/ RunChunk(w)
  \/ Leave(w) \/ Last(w) \/ Notify(w)

TakesMutex(w) == Sleep(w) \/ Recheck(w) \/ Notify(w)

AnyCall ==
  \/ CallNothing
  \/ \E n \in 1 .. MaxTotal, policy \in Policies, override \in {0, 1} :
       Call(n, policy, override)

Gone == pc[0] = "gone" /\ UNCHANGED vars

Next ==
  \/ AnyCall
  \/ CallerStep
  \/ \E w \in Workers : WorkerStep(w) \/ SpinGivesUp(w)
  \/ \E t \in Threads : SpuriousWakeup(t)
  \/ Destroy
  \/ Gone

\* The operating system runs every thread that can run, and a thread that asks
\* for m_ again and again gets it, though the caller may be woken for nothing
\* and retake it for ever.  Nobody has to call parallel_for or to destroy the
\* pool, and no wakeup is promised.
Fairness ==
  /\ WF_vars(CallerStep)
  /\ \A w \in Workers : /\ WF_vars(WorkerStep(w))
                        /\ SF_vars(TakesMutex(w))

Safety == Init /\ [][Next]_vars
Spec   == Safety /\ Fairness

-----------------------------------------------------------------------------
(* Properties.                                                             *)

PcOfCaller == {"idle", "setRemaining", "setGeneration", "wake", "run", "body", "barrier",
               "tired", "testDone", "blocking", "asleep", "woken", "waited", "return",
               "stopping", "join", "gone"}
PcOfWorker == {"spin", "tired", "asleep", "lock", "check", "run", "body", "leave",
               "last", "notify", "exited"}

\* Types of the pool's fields, its threads and its loop.
TypeOK ==
  /\ fn \in Nat /\ total \in 0 .. MaxTotal /\ chunk \in Nat /\ static \in BOOLEAN
  /\ nextRow \in Nat
  /\ remaining \in 0 .. NThreads - 1
  /\ generation \in Nat
  /\ sleepers \in 0 .. NThreads - 1
  /\ mainWaiting \in BOOLEAN
  /\ stop \in BOOLEAN
  /\ pc \in [Threads -> PcOfCaller \cup PcOfWorker]
  /\ pc[0] \in PcOfCaller
  /\ \A w \in Workers : pc[w] \in PcOfWorker
  /\ seen \in [Workers -> Nat]
  /\ g \in [Workers -> Nat]
  /\ range \in [Threads -> Nat \X Nat]
  /\ calls \in Nat
  /\ done \in [0 .. MaxTotal -> Nat]

InCall == pc[0] \notin {"idle", "stopping", "join", "gone"}

\* The caller has published the loop and not passed the barrier.
Open == pc[0] \in {"wake", "run", "body", "barrier", "tired", "testDone", "blocking",
                   "asleep", "woken"}

\* The workers that are through with the current generation.
Through(w) == seen[w] = generation /\ pc[w] \notin {"run", "body", "leave"}

\* Nobody reads fn_, total_, chunk_ or static_, or runs the body, but while the
\* call that wrote them is at or before its barrier: neither the call's return,
\* after which the body is gone, nor the next call can race with a worker
\* (threadpool.h:101-118, 135, 139-158).
FieldsStable ==
  \A w \in Workers : pc[w] \in {"run", "body"} => Open /\ fn = calls /\ seen[w] = generation

\* remaining_ counts exactly the workers that have not finished this loop, and
\* no worker misses a loop (threadpool.h:118-119, 182-187).
BarrierCounts ==
  /\ Open => remaining = Cardinality({w \in Workers : ~Through(w)})
  /\ pc[0] \in {"idle", "waited", "return"} => \A w \in Workers : Through(w)

\* parallel_for returns: no wakeup of a worker or of the caller is lost between
\* a check and the sleep that follows it (threadpool.h:121-133, 173-190).
CallReturns == InCall ~> ~InCall

\* The destructor's joins end (threadpool.h:50-57).
DestructorReturns == (pc[0] = "stopping") ~> (pc[0] = "gone")

Loop == INSTANCE ParallelLoop WITH
  busy   <- InCall,
  given  <- done,
  closed <- pc[0] \in {"stopping", "join", "gone"}

\* Whatever the policy and the override, the pool hands every item of a call to
\* the body once and never again, hands it nothing past the last item, and
\* returns only then (threadpool.h:85-90, 139-158).
ImplementsParallelLoop == Loop!Spec
=============================================================================
