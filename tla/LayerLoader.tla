---------------------------- MODULE LayerLoader ----------------------------
(***************************************************************************)
(* src/loader.cpp, include/llm/loader.h: the ring of layer buffers, the    *)
(* prefetch worker and loadLayer.                                          *)
(*                                                                         *)
(* Two threads.  The caller (the forward pass) runs loadLayer, then reads  *)
(* the weights of the active slot; the worker pops jobs and fills slots    *)
(* with the mutex released.  Everything done under mutex_ is one step; a   *)
(* fill is one step per role, because the caller computes meanwhile.  The  *)
(* two condition variables are explicit: a thread whose predicate is false *)
(* sleeps and only a notify (or a spurious wakeup) makes it look again.    *)
(*                                                                         *)
(* Data: a weight is the layer it was read from, so buf[s][r] is the layer *)
(* whose role r the buffer holds.  The statistics counters are left out.   *)
(***************************************************************************)
EXTENDS Integers, Sequences

CONSTANTS
  LayerBegin, LayerEnd,  \* Options.layer_begin, layer_end: [begin, end)
  NBuffers,              \* Options.n_buffers
  NRoles,                \* weights per layer (Role::COUNT)
  MaxCalls               \* bound: loadLayer calls of a behaviour

ASSUME ConfigAssumption ==
  /\ LayerBegin \in Nat /\ LayerEnd \in Nat /\ LayerBegin < LayerEnd
  /\ NBuffers \in Nat \ {0}
  /\ NRoles \in Nat \ {0}
  /\ MaxCalls \in Nat

VARIABLES
  async,     \* Options.async
  pinned,    \* pinned_mask_: the layers kept resident, fixed by the constructor
  layer,     \* Slot::layer of each ring slot
  state,     \* Slot::state of each ring slot
  ticket,    \* Slot::ticket of each ring slot
  buf,       \* Slot::buf of each ring slot and of each pinned_ slot
  jobs,      \* jobs_
  stop,      \* stop_
  current,   \* current_
  active,    \* active_: a ring slot, a pinned slot or NoSlot
  wpc, wjob, wrole, werr,        \* worker_loop: where it is, job, next role, err
  cpc, want, await, crole, calls \* the caller: where it is, its argument, the
                                 \* slot it waits for, next role, calls so far

ringVars   == <<layer, state, ticket>>
workerVars == <<wpc, wjob, wrole, werr>>
cfgVars    == <<async, pinned>>
vars == <<async, pinned, layer, state, ticket, buf, jobs, stop, current, active,
          wpc, wjob, wrole, werr, cpc, want, await, crole, calls>>

NoLayer == -1
NoSlot  == -1
Owned   == LayerBegin .. LayerEnd - 1
Span    == LayerEnd - LayerBegin
Slots   == 0 .. NBuffers - 1
Roles   == 0 .. NRoles - 1
\* pinned_[l] is a slot of its own, which no job ever names.
PinSlot(l) == NBuffers + l
PinSlots   == {PinSlot(l) : l \in Owned}
AllSlots   == Slots \cup PinSlots

Whole(l) == [r \in Roles |-> l]
NoJob    == [slot |-> NoSlot, layer |-> NoLayer, ticket |-> 0]

\* The worker is started only if cold layers remain to stream.
HasWorker == async /\ NBuffers > 1 /\ pinned # Owned

-----------------------------------------------------------------------------
(* Helpers of loadLayer.                                                   *)

\* Mutant: off by one, the buffer after the current one is the current one.
OtherSlotSame(s) == s % NBuffers

OtherSlot(s) == (s + 1) % NBuffers

\* Mutant: the prefetch policy forgets to wrap at the end of the range.
AheadNoWrap(l, i) == l + i

\* Mutant: off by one, the policy starts at the current layer.
AheadFromHere(l, i) == LayerBegin + ((l - LayerBegin + i - 1) % Span)

Ahead(l, i) == LayerBegin + ((l - LayerBegin + i) % Span)

\* Mutant: the policy ignores the pinned mask.
NextLayerPinnedToo(l) == IF Owned \subseteq pinned THEN NoLayer ELSE Ahead(l, 1)

\* SequentialWrapPolicy::next and RangeWrapPolicy::next: the first layer after
\* l, wrapping inside the range, that is not pinned; NoLayer if all are.
NextLayer(l) ==
  LET hops == {i \in 1 .. Span : Ahead(l, i) \notin pinned}
  IN  IF hops = {} THEN NoLayer
                   ELSE Ahead(l, CHOOSE i \in hops : \A j \in hops : i <= j)

\* Mutant: a layer in flight counts as absent.
HoldingReadyOnly(l) == {s \in Slots : layer[s] = l /\ state[s] = "Ready"}

Holding(l) == {s \in Slots : layer[s] = l /\ state[s] \in {"Ready", "Loading"}}
\* The first slot, in index order, that holds l or is being filled with it.
FirstHolding(l) == CHOOSE s \in Holding(l) : \A t \in Holding(l) : s <= t

\* loadLayer: any slot but the one still being consumed.
Victim ==
  LET s == IF current # NoSlot THEN OtherSlot(current) ELSE 0
  IN  IF s = current THEN OtherSlot(s) ELSE s

NotifyWorker == wpc' = IF wpc = "asleep" THEN "loop" ELSE wpc

\* claim(): label the slot, bump its ticket, queue the job, cv_job_.notify_one.
Claim(s, l, front) ==
  LET job == [slot |-> s, layer |-> l, ticket |-> ticket[s] + 1] IN
  /\ layer'  = [layer  EXCEPT ![s] = l]
  /\ state'  = [state  EXCEPT ![s] = "Loading"]
  /\ ticket' = [ticket EXCEPT ![s] = @ + 1]
  /\ jobs'   = IF front THEN <<job>> \o jobs ELSE Append(jobs, job)
  /\ NotifyWorker

\* Mutant: the prefetch does not look whether the slot has the layer already.
ActivateAndRefetch(s, l) ==
  LET next == NextLayer(l) IN
  /\ current' = s
  /\ active'  = s
  /\ cpc'     = "using"
  /\ IF next # NoLayer
       THEN Claim(OtherSlot(s), next, FALSE)
       ELSE UNCHANGED <<ringVars, jobs, wpc>>

\* The tail of loadLayer once slot s is Ready for l: make it current, then
\* enqueue() the next cold layer into the following slot unless that slot is
\* labelled with it already.
ActivateAndPrefetch(s, l) ==
  LET next == NextLayer(l)
      nb   == OtherSlot(s)
  IN  /\ current' = s
      /\ active'  = s
      /\ cpc'     = "using"
      /\ IF next # NoLayer /\ layer[nb] # next
           THEN Claim(nb, next, FALSE)
           ELSE UNCHANGED <<ringVars, jobs, wpc>>

-----------------------------------------------------------------------------
(* The constructor has run: a leading run of layers is pinned (possibly    *)
(* none, possibly all), the ring is empty, the worker runs if needed.      *)

Init ==
  /\ async \in BOOLEAN
  /\ pinned \in {LayerBegin .. n - 1 : n \in LayerBegin .. LayerEnd}
  /\ layer  = [s \in Slots |-> NoLayer]
  /\ state  = [s \in Slots |-> "Empty"]
  /\ ticket = [s \in Slots |-> 0]
  /\ buf = [s \in AllSlots |->
              Whole(IF s >= NBuffers /\ s - NBuffers \in pinned
                      THEN s - NBuffers ELSE NoLayer)]
  /\ jobs = <<>>
  /\ stop = FALSE
  /\ current = NoSlot
  /\ active = NoSlot
  /\ wpc = IF HasWorker THEN "loop" ELSE "none"
  /\ wjob = NoJob
  /\ wrole = 0
  /\ werr = FALSE
  /\ cpc = "idle"
  /\ want = NoLayer
  /\ await = NoSlot
  /\ crole = 0
  /\ calls = 0

-----------------------------------------------------------------------------
(* loadLayer(l).  The caller may have been reading another layer.          *)

Begin(l) ==
  /\ cpc \in {"idle", "using"}
  /\ calls < MaxCalls
  /\ calls' = calls + 1
  /\ want' = l
  /\ UNCHANGED <<cfgVars, stop, wjob, wrole, werr>>

LoadPinned(l) ==
  /\ Begin(l)
  /\ l \in pinned
  /\ active' = PinSlot(l)
  /\ current' = NoSlot
  /\ cpc' = "using"
  /\ UNCHANGED <<ringVars, buf, jobs, wpc, await, crole>>

OnRing(l) == l \notin pinned /\ async /\ NBuffers > 1
OnOneBuffer(l) == l \notin pinned /\ (~async \/ NBuffers = 1)

\* The layer is Ready in some slot: no wait, and the next one is prefetched.
LoadHit(l) ==
  /\ Begin(l)
  /\ OnRing(l)
  /\ Holding(l) # {}
  /\ state[FirstHolding(l)] = "Ready"
  /\ ActivateAndPrefetch(FirstHolding(l), l)
  /\ UNCHANGED <<buf, await, crole>>

\* The layer is on its way: wait for that claim.
LoadInFlight(l) ==
  /\ Begin(l)
  /\ OnRing(l)
  /\ Holding(l) # {}
  /\ state[FirstHolding(l)] = "Loading"
  /\ await' = FirstHolding(l)
  /\ cpc' = "asleep"
  /\ UNCHANGED <<ringVars, buf, jobs, wpc, current, active, crole>>

\* No slot has it: claim a victim in front of the queue and wait.
LoadMiss(l) ==
  /\ Begin(l)
  /\ OnRing(l)
  /\ Holding(l) = {}
  /\ Claim(Victim, l, TRUE)
  /\ await' = Victim
  /\ cpc' = "asleep"
  /\ UNCHANGED <<buf, current, active, crole>>

\* cv_ready_.wait: awake, the predicate is evaluated under the mutex.
WaitAgain ==
  /\ cpc = "woken"
  /\ state[await] = "Loading"
  /\ cpc' = "asleep"
  /\ UNCHANGED <<cfgVars, ringVars, buf, jobs, stop, current, active, workerVars,
                 want, await, crole, calls>>

WaitDone ==
  /\ cpc = "woken"
  /\ state[await] = "Ready"
  /\ ActivateAndPrefetch(await, want)
  /\ UNCHANGED <<cfgVars, buf, stop, wjob, wrole, werr, want, await, crole, calls>>

\* The read failed: free the slot and rethrow; current_ and active_ stay.
WaitFailed ==
  /\ cpc = "woken"
  /\ state[await] = "Failed"
  /\ state' = [state EXCEPT ![await] = "Empty"]
  /\ layer' = [layer EXCEPT ![await] = NoLayer]
  /\ cpc' = "idle"
  /\ UNCHANGED <<cfgVars, ticket, buf, jobs, stop, current, active, workerVars,
                 want, await, crole, calls>>

SpuriousCallerWakeup ==
  /\ cpc = "asleep"
  /\ cpc' = "woken"
  /\ UNCHANGED <<cfgVars, ringVars, buf, jobs, stop, current, active, workerVars,
                 want, await, crole, calls>>

\* Synchronous path: slot 0, unlabelled before it is refilled by the caller.
LoadSyncHit(l) ==
  /\ Begin(l)
  /\ OnOneBuffer(l)
  /\ layer[0] = l
  /\ current' = 0
  /\ active' = 0
  /\ cpc' = "using"
  /\ UNCHANGED <<ringVars, buf, jobs, wpc, await, crole>>

\* Mutant: the slot keeps its new label although the read may still throw.
LoadSyncMissLabelled(l) ==
  /\ Begin(l)
  /\ OnOneBuffer(l)
  /\ layer[0] # l
  /\ layer' = [layer EXCEPT ![0] = l]
  /\ crole' = 0
  /\ cpc' = "reading"
  /\ UNCHANGED <<state, ticket, buf, jobs, wpc, current, active, await>>

LoadSyncMiss(l) ==
  /\ Begin(l)
  /\ OnOneBuffer(l)
  /\ layer[0] # l
  /\ layer' = [layer EXCEPT ![0] = NoLayer]
  /\ crole' = 0
  /\ cpc' = "reading"
  /\ UNCHANGED <<state, ticket, buf, jobs, wpc, current, active, await>>

SyncRead ==
  /\ cpc = "reading"
  /\ crole < NRoles
  /\ buf' = [buf EXCEPT ![0][crole] = want]
  /\ crole' = crole + 1
  /\ UNCHANGED <<cfgVars, ringVars, jobs, stop, current, active, workerVars,
                 cpc, want, await, calls>>

\* A read that throws leaves the role's buffer half written.
SyncReadFails ==
  /\ cpc = "reading"
  /\ crole < NRoles
  /\ buf' = [buf EXCEPT ![0][crole] = NoLayer]
  /\ cpc' = "idle"
  /\ UNCHANGED <<cfgVars, ringVars, jobs, stop, current, active, workerVars,
                 want, await, crole, calls>>

SyncDone ==
  /\ cpc = "reading"
  /\ crole = NRoles
  /\ layer' = [layer EXCEPT ![0] = want]
  /\ state' = [state EXCEPT ![0] = "Ready"]
  /\ current' = 0
  /\ active' = 0
  /\ cpc' = "using"
  /\ UNCHANGED <<cfgVars, ticket, buf, jobs, stop, workerVars, want, await, crole, calls>>

Load(l) ==
  \/ LoadPinned(l)
  \/ LoadHit(l)
  \/ LoadInFlight(l)
  \/ LoadMiss(l)
  \/ LoadSyncHit(l)
  \/ LoadSyncMiss(l)

-----------------------------------------------------------------------------
(* ~LayerLoader: stop_ is set under the mutex, then notify_all, then join. *)

DestroyBegin ==
  /\ cpc \in {"idle", "using"}
  /\ IF HasWorker THEN stop' = TRUE /\ cpc' = "stopping"
                  ELSE cpc' = "gone" /\ UNCHANGED stop
  /\ UNCHANGED <<cfgVars, ringVars, buf, jobs, current, active, workerVars,
                 want, await, crole, calls>>

\* Mutant: the destructor forgets cv_job_.notify_all.
DestroySilently ==
  /\ cpc = "stopping"
  /\ cpc' = "joining"
  /\ UNCHANGED <<cfgVars, ringVars, buf, jobs, stop, current, active, workerVars,
                 want, await, crole, calls>>

DestroyNotify ==
  /\ cpc = "stopping"
  /\ cpc' = "joining"
  /\ NotifyWorker
  /\ UNCHANGED <<cfgVars, ringVars, buf, jobs, stop, current, active,
                 wjob, wrole, werr, want, await, crole, calls>>

DestroyJoin ==
  /\ cpc = "joining"
  /\ wpc = "exited"
  /\ cpc' = "gone"
  /\ UNCHANGED <<cfgVars, ringVars, buf, jobs, stop, current, active, workerVars,
                 want, await, crole, calls>>

-----------------------------------------------------------------------------
(* worker_loop.                                                            *)

\* cv_job_.wait, then the pop; a job whose slot was claimed again is skipped.
WorkerTake ==
  /\ wpc = "loop"
  /\ ~stop
  /\ jobs # <<>>
  /\ jobs' = Tail(jobs)
  /\ IF ticket[Head(jobs).slot] = Head(jobs).ticket
       THEN /\ wpc' = "fill"
            /\ wjob' = Head(jobs)
            /\ wrole' = 0
            /\ werr' = FALSE
       ELSE UNCHANGED workerVars
  /\ UNCHANGED <<cfgVars, ringVars, buf, stop, current, active,
                 cpc, want, await, crole, calls>>

WorkerSleep ==
  /\ wpc = "loop"
  /\ ~stop
  /\ jobs = <<>>
  /\ wpc' = "asleep"
  /\ UNCHANGED <<cfgVars, ringVars, buf, jobs, stop, current, active,
                 wjob, wrole, werr, cpc, want, await, crole, calls>>

WorkerExit ==
  /\ wpc = "loop"
  /\ stop
  /\ wpc' = "exited"
  /\ UNCHANGED <<cfgVars, ringVars, buf, jobs, stop, current, active,
                 wjob, wrole, werr, cpc, want, await, crole, calls>>

SpuriousWorkerWakeup ==
  /\ wpc = "asleep"
  /\ wpc' = "loop"
  /\ UNCHANGED <<cfgVars, ringVars, buf, jobs, stop, current, active,
                 wjob, wrole, werr, cpc, want, await, crole, calls>>

\* fill_slot, mutex released: one role read and dequantized into the slot.
WorkerRead ==
  /\ wpc = "fill"
  /\ wrole < NRoles
  /\ buf' = [buf EXCEPT ![wjob.slot][wrole] = wjob.layer]
  /\ wrole' = wrole + 1
  /\ UNCHANGED <<cfgVars, ringVars, jobs, stop, current, active, wpc, wjob, werr,
                 cpc, want, await, crole, calls>>

WorkerReadFails ==
  /\ wpc = "fill"
  /\ wrole < NRoles
  /\ buf' = [buf EXCEPT ![wjob.slot][wrole] = NoLayer]
  /\ werr' = TRUE
  /\ wpc' = "mark"
  /\ UNCHANGED <<cfgVars, ringVars, jobs, stop, current, active, wjob, wrole,
                 cpc, want, await, crole, calls>>

WorkerFilled ==
  /\ wpc = "fill"
  /\ wrole = NRoles
  /\ wpc' = "mark"
  /\ UNCHANGED <<cfgVars, ringVars, buf, jobs, stop, current, active, wjob, wrole,
                 werr, cpc, want, await, crole, calls>>

\* Mutant: the worker marks the slot without comparing tickets.
WorkerMarkAnyway ==
  /\ wpc = "mark"
  /\ state' = [state EXCEPT ![wjob.slot] = IF werr THEN "Failed" ELSE "Ready"]
  /\ wpc' = "notify"
  /\ UNCHANGED <<cfgVars, layer, ticket, buf, jobs, stop, current, active,
                 wjob, wrole, werr, cpc, want, await, crole, calls>>

\* Mutant: a failed read leaves the slot as it was.
WorkerMarkSuccess ==
  /\ wpc = "mark"
  /\ IF ticket[wjob.slot] = wjob.ticket /\ ~werr
       THEN state' = [state EXCEPT ![wjob.slot] = "Ready"]
       ELSE UNCHANGED state
  /\ wpc' = "notify"
  /\ UNCHANGED <<cfgVars, layer, ticket, buf, jobs, stop, current, active,
                 wjob, wrole, werr, cpc, want, await, crole, calls>>

\* Under the mutex: only the slot's current owner may mark it.
WorkerMark ==
  /\ wpc = "mark"
  /\ IF ticket[wjob.slot] = wjob.ticket
       THEN state' = [state EXCEPT ![wjob.slot] = IF werr THEN "Failed" ELSE "Ready"]
       ELSE UNCHANGED state
  /\ wpc' = "notify"
  /\ UNCHANGED <<cfgVars, layer, ticket, buf, jobs, stop, current, active,
                 wjob, wrole, werr, cpc, want, await, crole, calls>>

\* Mutant: the caller is only woken when the read succeeded.
WorkerNotifySuccess ==
  /\ wpc = "notify"
  /\ wpc' = "loop"
  /\ cpc' = IF cpc = "asleep" /\ ~werr THEN "woken" ELSE cpc
  /\ UNCHANGED <<cfgVars, ringVars, buf, jobs, stop, current, active,
                 wjob, wrole, werr, want, await, crole, calls>>

\* cv_ready_.notify_all, after the mutex is released.
WorkerNotify ==
  /\ wpc = "notify"
  /\ wpc' = "loop"
  /\ cpc' = IF cpc = "asleep" THEN "woken" ELSE cpc
  /\ UNCHANGED <<cfgVars, ringVars, buf, jobs, stop, current, active,
                 wjob, wrole, werr, want, await, crole, calls>>

-----------------------------------------------------------------------------
CallerStep ==
  \/ WaitAgain \/ WaitDone \/ WaitFailed
  \/ SyncRead \/ SyncReadFails \/ SyncDone
  \/ DestroyNotify \/ DestroyJoin

WorkerStep ==
  \/ WorkerTake \/ WorkerSleep \/ WorkerExit
  \/ WorkerRead \/ WorkerReadFails \/ WorkerFilled
  \/ WorkerMark \/ WorkerNotify

\* Everything but the call itself.
Internal ==
  \/ CallerStep
  \/ WorkerStep
  \/ SpuriousCallerWakeup
  \/ SpuriousWorkerWakeup
  \/ DestroyBegin

\* The object is destroyed: nothing is left to do.
Gone == cpc = "gone" /\ UNCHANGED vars

Next ==
  \/ \E l \in Owned : Load(l)
  \/ Internal
  \/ Gone

\* The operating system runs both threads; nobody has to call loadLayer or to
\* destroy the loader, and no wakeup is promised but by a notify.
Fairness == WF_vars(CallerStep) /\ WF_vars(WorkerStep)

Safety == Init /\ [][Next]_vars
Spec   == Safety /\ Fairness

-----------------------------------------------------------------------------
(* Properties.                                                             *)

JobRecord == [slot : Slots, layer : Owned, ticket : Nat]

\* Types of every variable of the loader, its worker and its caller.
TypeOK ==
  /\ async \in BOOLEAN
  /\ pinned \subseteq Owned
  /\ layer \in [Slots -> Owned \cup {NoLayer}]
  /\ state \in [Slots -> {"Empty", "Loading", "Ready", "Failed"}]
  /\ ticket \in [Slots -> Nat]
  /\ buf \in [AllSlots -> [Roles -> Owned \cup {NoLayer}]]
  /\ jobs \in Seq(JobRecord)
  /\ stop \in BOOLEAN
  /\ current \in Slots \cup {NoSlot}
  /\ active \in AllSlots \cup {NoSlot}
  /\ wpc \in {"none", "loop", "asleep", "fill", "mark", "notify", "exited"}
  /\ wjob \in JobRecord \cup {NoJob}
  /\ wrole \in 0 .. NRoles
  /\ werr \in BOOLEAN
  /\ cpc \in {"idle", "using", "asleep", "woken", "reading", "stopping", "joining", "gone"}
  /\ want \in Owned \cup {NoLayer}
  /\ await \in Slots \cup {NoSlot}
  /\ crole \in 0 .. NRoles
  /\ calls \in Nat

\* Between the return of loadLayer(l) and the next call, whatever the worker
\* does, every role that getWeight hands out is layer l's, and no fill writes
\* the slot being read (loader.cpp:571-573, 591-592, 614-617).
ConsumerSafe ==
  cpc = "using" =>
    /\ active \in AllSlots
    /\ buf[active] = Whole(want)
    /\ wpc = "fill" => wjob.slot # active

\* A slot marked Ready holds its label's weights in full, though claims and
\* fills of the same slot interleave (the tickets of loader.cpp:488 and 502).
ReadyIsWhole ==
  \A s \in Slots : state[s] = "Ready" /\ layer[s] # NoLayer => buf[s] = Whole(layer[s])

\* The latest claim of a slot is in the queue, in the worker's hands, or
\* settled: a slot never stays Loading with nobody to load it, which would
\* leave loadLayer waiting for ever.
NoLostClaim ==
  \A s \in Slots : state[s] = "Loading" =>
    \/ \E i \in DOMAIN jobs : jobs[i].slot = s /\ jobs[i].ticket = ticket[s]
    \/ wpc \in {"fill", "mark"} /\ wjob.slot = s /\ wjob.ticket = ticket[s]

\* Every loadLayer returns or throws, and the destructor's join ends
\* (loader.cpp:576-590, 390-395): no notify is lost, no job dropped.
CallsReturn == (cpc \in {"asleep", "woken", "reading"}) ~> (cpc \in {"using", "idle"})
DestructorReturns == (cpc = "stopping") ~> (cpc = "gone")

Phase ==
  CASE cpc \in {"idle", "using"} -> cpc
    [] cpc \in {"asleep", "woken", "reading"} -> "busy"
    [] OTHER -> "closed"
View == IF cpc = "using" THEN buf[active] ELSE Whole(NoLayer)

Service == INSTANCE WeightService
             WITH Layers <- Owned, phase <- Phase, view <- View

\* The ring, the worker and the tickets implement the plain weight service:
\* an answered call shows one layer's weights until the next call.
ImplementsService == Service!Spec
=============================================================================
