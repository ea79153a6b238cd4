--------------------------- MODULE Loader_proofs ---------------------------
(***************************************************************************)
(* What holds of LayerLoader, and of it under ForwardPass, for every layer *)
(* range, number of buffers and number of roles.  LayerLoader first: its   *)
(* types, and that the caller only ever reads whole layers (ConsumerSafe), *)
(* by the inductive invariant IInv.                                        *)
(*                                                                         *)
(* The argument.  Every claim bumps the slot's ticket, so a slot has at    *)
(* most one live job, in the queue or in the worker's hands; a slot being  *)
(* filled is Loading, hence never the Ready slot the caller reads; and the *)
(* roles filled so far are the job's layer, so a slot becomes Ready whole. *)
(***************************************************************************)
EXTENDS ForwardPass, SequenceTheorems, WellFoundedInduction, FiniteSetTheorems, TLAPS

Ring == async /\ NBuffers > 1
Working == wpc \in {"fill", "mark"}

\* A pinned slot holds its layer for good.
PinnedWhole == \A l \in pinned : buf[PinSlot(l)] = Whole(l)

\* Without a ring there is no worker and no job, and slot 0 is labelled only
\* when it is Ready.
NoRing ==
  ~Ring =>
    /\ wpc = "none"
    /\ jobs = <<>>
    /\ layer[0] # NoLayer => state[0] = "Ready"

\* What the worker holds: its slot is Loading, labelled with its layer as long
\* as the ticket is current, and filled up to the next role.
WorkerOwns ==
  Working =>
    /\ wjob \in JobRecord
    /\ state[wjob.slot] = "Loading"
    /\ wjob.ticket <= ticket[wjob.slot]
    /\ wjob.ticket = ticket[wjob.slot] => layer[wjob.slot] = wjob.layer
    /\ wpc = "fill" => ~werr
    /\ wpc = "mark" /\ ~werr => wrole = NRoles
    /\ ~werr => \A r \in Roles : r < wrole => buf[wjob.slot][r] = wjob.layer

\* A queued job with a current ticket is the claim its slot waits for.
JobsLive ==
  \A i \in 1 .. Len(jobs) :
    /\ jobs[i].ticket <= ticket[jobs[i].slot]
    /\ jobs[i].ticket = ticket[jobs[i].slot] =>
         state[jobs[i].slot] = "Loading" /\ layer[jobs[i].slot] = jobs[i].layer

SameClaim(j, k) == j.slot = k.slot /\ j.ticket = k.ticket

\* No claim has two jobs.
JobsDistinct ==
  /\ \A i, j \in 1 .. Len(jobs) : SameClaim(jobs[i], jobs[j]) => i = j
  /\ Working => \A i \in 1 .. Len(jobs) : ~SameClaim(jobs[i], wjob)

\* What the caller relies on, wherever it is.
CallerView ==
  /\ cpc = "using" =>
       /\ want \in Owned
       /\ \/ want \in pinned /\ active = PinSlot(want)
          \/ active \in Slots /\ state[active] = "Ready" /\ layer[active] = want
  /\ cpc \in {"asleep", "woken"} =>
       /\ want \in Owned
       /\ Ring
       /\ await \in Slots
       /\ layer[await] = want
       /\ state[await] \in {"Loading", "Ready", "Failed"}
  /\ cpc = "reading" =>
       /\ want \in Owned
       /\ ~Ring
       /\ layer[0] = NoLayer
       /\ \A r \in Roles : r < crole => buf[0][r] = want

RingInv ==
  /\ PinnedWhole
  /\ ReadyIsWhole
  /\ NoRing
  /\ WorkerOwns
  /\ JobsLive
  /\ JobsDistinct

IInv == TypeOK /\ RingInv /\ CallerView

-----------------------------------------------------------------------------
(* The helpers of loadLayer stay inside the ring and the layer range.      *)

\* A nonempty set of naturals has a least element.
LEMMA LeastOf ==
  ASSUME NEW T \in SUBSET Nat, T # {}
  PROVE  \E i \in T : \A j \in T : i <= j
<1>1. PICK i \in T : \A j \in T : ~(<<j, i>> \in OpToRel(<, Nat))
  BY NatLessThanWellFounded, WFMin
<1>2. \A j \in T : <<j, i>> \in Nat \X Nat
  OBVIOUS
<1>3. \A j \in T : <<j, i>>[1] < <<j, i>>[2] => <<j, i>> \in OpToRel(<, Nat)
  BY <1>2, Zenon DEF OpToRel
<1>4. \A j \in T : ~(j < i)
  BY <1>1, <1>3
<1> QED BY <1>4

\* other_slot yields another slot of a ring of two or more.
LEMMA OtherSlotProps ==
  ASSUME NEW s \in Slots, NBuffers > 1
  PROVE  OtherSlot(s) \in Slots /\ OtherSlot(s) # s
<1> USE ConfigAssumption DEF Slots, OtherSlot
<1>1. CASE s + 1 < NBuffers
  <2>1. (s + 1) % NBuffers = s + 1
    BY <1>1
  <2> QED BY <1>1, <2>1
<1>2. CASE s + 1 = NBuffers
  <2>1. NBuffers % NBuffers = 0
    OBVIOUS
  <2> QED BY <1>2, <2>1
<1> QED BY <1>1, <1>2

\* The prefetch policy names a layer of the node's range, or none.
LEMMA NextLayerType ==
  ASSUME NEW l \in Owned
  PROVE  NextLayer(l) \in Owned \cup {NoLayer}
<1> DEFINE hops == {i \in 1 .. Span : Ahead(l, i) \notin pinned}
<1>1. CASE hops = {}
  BY <1>1 DEF NextLayer
<1>2. CASE hops # {}
  <2>1. hops \in SUBSET Nat
    BY ConfigAssumption DEF Span
  <2>2. \E i \in hops : \A j \in hops : i <= j
    BY <1>2, <2>1, LeastOf
  <2>3. PICK i \in hops : i = CHOOSE k \in hops : \A j \in hops : k <= j
    BY <2>2
  <2>4. Ahead(l, i) \in Owned
    BY ConfigAssumption DEF Ahead, Owned, Span
  <2> QED BY <1>2, <2>3, <2>4 DEF NextLayer
<1> QED BY <1>1, <1>2

\* loadLayer's search returns a slot that holds the layer.
LEMMA FirstHoldingProps ==
  ASSUME NEW l, Holding(l) # {}
  PROVE  FirstHolding(l) \in Holding(l)
<1>1. Holding(l) \in SUBSET Nat
  BY ConfigAssumption DEF Holding, Slots
<1>2. \E s \in Holding(l) : \A t \in Holding(l) : s <= t
  BY <1>1, LeastOf
<1> QED BY <1>2 DEF FirstHolding

\* The victim of a miss is a slot of the ring.
LEMMA VictimType ==
  ASSUME TypeOK, NBuffers > 1
  PROVE  Victim \in Slots
<1>1. 0 \in Slots
  BY ConfigAssumption DEF Slots
<1> QED BY <1>1, OtherSlotProps DEF Victim, TypeOK, NoSlot

-----------------------------------------------------------------------------
(* The queue: a push at either end, a pop at the front.                    *)

Pushed(q, j, front) == IF front THEN <<j>> \o q ELSE Append(q, j)

\* p is q with j put in somewhere.
Inserted(p, q, j) ==
  \E k \in 1 .. Len(q) + 1 :
    /\ p[k] = j
    /\ \A i \in 1 .. Len(q) + 1 :
         \/ i = k
         \/ i < k /\ i \in 1 .. Len(q) /\ p[i] = q[i]
         \/ i > k /\ i - 1 \in 1 .. Len(q) /\ p[i] = q[i - 1]

\* A push adds one element and keeps the others, in order.
LEMMA PushProps ==
  ASSUME NEW S, NEW q \in Seq(S), NEW j \in S, NEW front \in BOOLEAN
  PROVE  /\ Pushed(q, j, front) \in Seq(S)
         /\ Len(Pushed(q, j, front)) = Len(q) + 1
         /\ Inserted(Pushed(q, j, front), q, j)
<1>1. Len(q) \in Nat
  BY LenProperties
<1>2. CASE front
  <2>1. <<j>> \in Seq(S) /\ Len(<<j>>) = 1 /\ <<j>>[1] = j
    OBVIOUS
  <2>2. /\ <<j>> \o q \in Seq(S)
        /\ Len(<<j>> \o q) = Len(q) + 1
        /\ \A i \in 1 .. Len(q) + 1 :
             (<<j>> \o q)[i] = IF i <= 1 THEN <<j>>[i] ELSE q[i - 1]
    BY <1>1, <2>1, ConcatProperties
  <2>3. Pushed(q, j, front) = <<j>> \o q
    BY <1>2 DEF Pushed
  <2>4. 1 \in 1 .. Len(q) + 1 /\ Pushed(q, j, front)[1] = j
    BY <1>1, <2>1, <2>2, <2>3
  <2>5. ASSUME NEW i \in 1 .. Len(q) + 1
        PROVE  \/ i = 1
               \/ i > 1 /\ i - 1 \in 1 .. Len(q) /\ Pushed(q, j, front)[i] = q[i - 1]
    BY <1>1, <2>2, <2>3
  <2> QED BY <1>1, <2>2, <2>3, <2>4, <2>5 DEF Inserted
<1>3. CASE ~front
  <2>1. Pushed(q, j, front) = Append(q, j)
    BY <1>3 DEF Pushed
  <2>2. Len(q) + 1 \in 1 .. Len(q) + 1 /\ Pushed(q, j, front)[Len(q) + 1] = j
    BY <1>1, <2>1, AppendProperties
  <2>3. ASSUME NEW i \in 1 .. Len(q) + 1
        PROVE  \/ i = Len(q) + 1
               \/ i < Len(q) + 1 /\ i \in 1 .. Len(q) /\ Pushed(q, j, front)[i] = q[i]
    BY <1>1, <2>1, AppendProperties
  <2>4. /\ Pushed(q, j, front) \in Seq(S)
        /\ Len(Pushed(q, j, front)) = Len(q) + 1
    BY <2>1, AppendProperties
  <2> QED BY <1>1, <2>2, <2>3, <2>4 DEF Inserted
<1> QED BY <1>2, <1>3

-----------------------------------------------------------------------------
(* What a claim keeps, whichever call makes it.                            *)

LEMMA ClaimKeeps ==
  ASSUME IInv, Ring,
         NEW s \in Slots, NEW l \in Owned, NEW front \in BOOLEAN,
         Claim(s, l, front),
         UNCHANGED <<async, pinned, buf, wjob, wrole, werr>>
  PROVE  /\ RingInv'
         /\ layer' \in [Slots -> Owned \cup {NoLayer}]
         /\ state' \in [Slots -> {"Empty", "Loading", "Ready", "Failed"}]
         /\ ticket' \in [Slots -> Nat]
         /\ jobs' \in Seq(JobRecord)
         /\ wpc' \in {"none", "loop", "asleep", "fill", "mark", "notify", "exited"}
<1> DEFINE job == [slot |-> s, layer |-> l, ticket |-> ticket[s] + 1]
<1>1. TypeOK /\ RingInv
  BY DEF IInv
<1>2. job \in JobRecord
  BY <1>1 DEF TypeOK, JobRecord
<1>3. /\ layer' = [layer EXCEPT ![s] = l]
      /\ state' = [state EXCEPT ![s] = "Loading"]
      /\ ticket' = [ticket EXCEPT ![s] = @ + 1]
      /\ jobs' = Pushed(jobs, job, front)
      /\ wpc' = IF wpc = "asleep" THEN "loop" ELSE wpc
  BY DEF Claim, NotifyWorker, Pushed
<1>4. jobs \in Seq(JobRecord) /\ Len(jobs) \in Nat
  BY <1>1, LenProperties DEF TypeOK
<1>5. /\ jobs' \in Seq(JobRecord)
      /\ Len(jobs') = Len(jobs) + 1
      /\ Inserted(jobs', jobs, job)
  BY <1>2, <1>3, <1>4, PushProps
<1>6. PICK k \in 1 .. Len(jobs) + 1 :
        /\ jobs'[k] = job
        /\ \A i \in 1 .. Len(jobs) + 1 :
             \/ i = k
             \/ i < k /\ i \in 1 .. Len(jobs) /\ jobs'[i] = jobs[i]
             \/ i > k /\ i - 1 \in 1 .. Len(jobs) /\ jobs'[i] = jobs[i - 1]
  BY <1>5 DEF Inserted
<1> HIDE DEF job
<1>7. job.slot = s /\ job.layer = l /\ job.ticket = ticket[s] + 1
  BY DEF job
<1>8. \A i \in 1 .. Len(jobs) : jobs[i] \in JobRecord
  BY <1>4, ElementOfSeq
<1>9. /\ layer' \in [Slots -> Owned \cup {NoLayer}]
      /\ state' \in [Slots -> {"Empty", "Loading", "Ready", "Failed"}]
      /\ ticket' \in [Slots -> Nat]
      /\ wpc' \in {"none", "loop", "asleep", "fill", "mark", "notify", "exited"}
  BY <1>1, <1>3 DEF TypeOK
<1>10. \A t \in Slots : t # s => /\ layer'[t] = layer[t]
                                /\ state'[t] = state[t]
                                /\ ticket'[t] = ticket[t]
  BY <1>1, <1>3 DEF TypeOK
<1>11. layer'[s] = l /\ state'[s] = "Loading" /\ ticket'[s] = ticket[s] + 1
  BY <1>1, <1>3 DEF TypeOK
<1>12. Working' <=> Working
  BY <1>3 DEF Working
<1>13. PinnedWhole'
  BY <1>1 DEF RingInv, PinnedWhole
<1>14. ReadyIsWhole'
  BY <1>1, <1>10, <1>11 DEF RingInv, ReadyIsWhole
<1>15. NoRing'
  BY DEF NoRing, Ring
<1>16. WorkerOwns'
  <2> SUFFICES ASSUME Working'
               PROVE  WorkerOwns'
    BY DEF WorkerOwns
  <2>1. wpc' = wpc /\ Working
    BY <1>3, <1>12 DEF Working
  <2>2. wjob \in JobRecord /\ wjob.slot \in Slots /\ wjob.ticket \in Nat
    BY <1>1, <2>1 DEF RingInv, WorkerOwns, JobRecord
  <2>3. ticket[wjob.slot] \in Nat
    BY <1>1, <2>2 DEF TypeOK
  <2> QED BY <1>1, <1>10, <1>11, <2>1, <2>2, <2>3 DEF RingInv, WorkerOwns
<1>17. \A i \in 1 .. Len(jobs) :
         /\ jobs[i].slot \in Slots
         /\ jobs[i].ticket \in Nat
         /\ ticket[jobs[i].slot] \in Nat
         /\ jobs[i].ticket <= ticket[jobs[i].slot]
         /\ jobs[i].ticket = ticket[jobs[i].slot] =>
              state[jobs[i].slot] = "Loading" /\ layer[jobs[i].slot] = jobs[i].layer
  BY <1>1, <1>8 DEF RingInv, JobsLive, JobRecord, TypeOK
<1>18. \A i \in 1 .. Len(jobs) : ~SameClaim(jobs[i], job)
  BY <1>7, <1>17 DEF SameClaim
<1>19. JobsLive'
  <2> SUFFICES ASSUME NEW i \in 1 .. Len(jobs')
               PROVE  /\ jobs'[i].ticket <= ticket'[jobs'[i].slot]
                      /\ jobs'[i].ticket = ticket'[jobs'[i].slot] =>
                           /\ state'[jobs'[i].slot] = "Loading"
                           /\ layer'[jobs'[i].slot] = jobs'[i].layer
    BY DEF JobsLive
  <2>1. CASE i = k
    BY <1>1, <1>6, <1>7, <1>11, <2>1 DEF TypeOK
  <2>2. ASSUME NEW m \in 1 .. Len(jobs), jobs'[i] = jobs[m]
        PROVE  /\ jobs'[i].ticket <= ticket'[jobs'[i].slot]
               /\ jobs'[i].ticket = ticket'[jobs'[i].slot] =>
                    /\ state'[jobs'[i].slot] = "Loading"
                    /\ layer'[jobs'[i].slot] = jobs'[i].layer
    BY <1>10, <1>11, <1>17, <2>2
  <2> QED BY <1>5, <1>6, <2>1, <2>2
<1>20. JobsDistinct'
  <2>1. ASSUME NEW i \in 1 .. Len(jobs'), NEW j \in 1 .. Len(jobs'),
               SameClaim(jobs'[i], jobs'[j])
        PROVE  i = j
    <3>1. \A m, n \in 1 .. Len(jobs) : SameClaim(jobs[m], jobs[n]) => m = n
      BY <1>1 DEF RingInv, JobsDistinct
    <3>2. \A a, b : SameClaim(a, b) => SameClaim(b, a)
      BY DEF SameClaim
    <3>3. i \in 1 .. Len(jobs) + 1 /\ j \in 1 .. Len(jobs) + 1
      BY <1>5
    <3> QED BY <1>4, <1>6, <1>18, <2>1, <3>1, <3>2, <3>3
  <2>2. ASSUME Working', NEW i \in 1 .. Len(jobs')
        PROVE  ~SameClaim(jobs'[i], wjob)
    <3>1. Working /\ wjob \in JobRecord /\ wjob.ticket <= ticket[wjob.slot]
      BY <1>1, <1>12, <2>2 DEF RingInv, WorkerOwns
    <3>2. ~SameClaim(job, wjob)
      BY <1>1, <1>7, <3>1 DEF SameClaim, JobRecord, TypeOK
    <3>3. \A m \in 1 .. Len(jobs) : ~SameClaim(jobs[m], wjob)
      BY <1>1, <3>1 DEF RingInv, JobsDistinct
    <3> QED BY <1>5, <1>6, <3>2, <3>3
  <2> QED BY <2>1, <2>2 DEF JobsDistinct, SameClaim
<1> QED BY <1>5, <1>9, <1>13, <1>14, <1>15, <1>16, <1>19, <1>20 DEF RingInv

\* Nothing the ring invariant speaks of has changed.
LEMMA RingUnchanged ==
  ASSUME RingInv,
         UNCHANGED <<async, pinned, layer, state, ticket, buf, jobs, wjob, wrole, werr>>,
         wpc' \in {"fill", "mark"} => wpc' = wpc,
         wpc = "none" => wpc' = "none"
  PROVE  RingInv'
<1>1. Working' => Working /\ wpc' = wpc
  BY DEF Working
<1>2. PinnedWhole' /\ ReadyIsWhole' /\ JobsLive'
  BY DEF RingInv, PinnedWhole, ReadyIsWhole, JobsLive
<1>3. NoRing'
  BY DEF RingInv, NoRing, Ring
<1>4. WorkerOwns'
  BY <1>1 DEF RingInv, WorkerOwns
<1>5. JobsDistinct'
  BY <1>1 DEF RingInv, JobsDistinct, SameClaim
<1> QED BY <1>2, <1>3, <1>4, <1>5 DEF RingInv

\* The tail of loadLayer keeps the ring and shows the caller its layer.
LEMMA ActivateKeeps ==
  ASSUME IInv, Ring,
         NEW s \in Slots, NEW l \in Owned,
         state[s] = "Ready", layer[s] = l,
         ActivateAndPrefetch(s, l), want' = l,
         UNCHANGED <<cfgVars, buf, stop, wjob, wrole, werr, await, crole>>,
         calls' \in Nat
  PROVE  IInv'
<1>1. TypeOK /\ RingInv
  BY DEF IInv
<1>2. /\ current' = s
      /\ active' = s
      /\ cpc' = "using"
  BY DEF ActivateAndPrefetch
<1>3. async' = async /\ pinned' = pinned /\ UNCHANGED <<async, pinned, buf, wjob, wrole, werr>>
  BY DEF cfgVars
<1>4. NBuffers > 1
  BY DEF Ring
<1>5. OtherSlot(s) \in Slots /\ OtherSlot(s) # s
  BY <1>4, OtherSlotProps
<1>6. CASE NextLayer(l) # NoLayer /\ layer[OtherSlot(s)] # NextLayer(l)
  <2>1. NextLayer(l) \in Owned
    BY <1>6, NextLayerType
  <2>2. Claim(OtherSlot(s), NextLayer(l), FALSE)
    BY <1>6 DEF ActivateAndPrefetch
  <2>3. /\ RingInv'
        /\ layer' \in [Slots -> Owned \cup {NoLayer}]
        /\ state' \in [Slots -> {"Empty", "Loading", "Ready", "Failed"}]
        /\ ticket' \in [Slots -> Nat]
        /\ jobs' \in Seq(JobRecord)
        /\ wpc' \in {"none", "loop", "asleep", "fill", "mark", "notify", "exited"}
    BY <1>3, <1>5, <2>1, <2>2, ClaimKeeps
  <2>4. layer'[s] = l /\ state'[s] = "Ready"
    BY <1>1, <1>5, <2>2 DEF Claim, TypeOK
  <2>5. CallerView'
    BY <1>2, <2>4 DEF CallerView
  <2>6. TypeOK'
    BY <1>1, <1>2, <1>3, <2>3 DEF TypeOK, AllSlots, cfgVars
  <2> QED BY <2>3, <2>5, <2>6 DEF IInv
<1>7. CASE ~(NextLayer(l) # NoLayer /\ layer[OtherSlot(s)] # NextLayer(l))
  <2>1. UNCHANGED <<ringVars, jobs, wpc>>
    BY <1>7 DEF ActivateAndPrefetch
  <2>2. CallerView'
    BY <1>2, <2>1 DEF CallerView, ringVars
  <2>3. TypeOK'
    BY <1>1, <1>2, <2>1 DEF TypeOK, AllSlots, ringVars, cfgVars
  <2>4. RingInv'
    BY <1>1, <2>1, <1>3, RingUnchanged DEF ringVars
  <2> QED BY <2>2, <2>3, <2>4 DEF IInv
<1> QED BY <1>6, <1>7

-----------------------------------------------------------------------------
(* The invariant holds at first and every step keeps it.                   *)

\* The constructor leaves an empty ring: the invariant holds at first.
LEMMA InitIInv == Init => IInv
<1> SUFFICES ASSUME Init PROVE IInv
  OBVIOUS
<1> USE ConfigAssumption DEF Init
<1>1. pinned \subseteq Owned
  BY DEF Owned
<1>2. \A l \in Owned : PinSlot(l) \in AllSlots /\ PinSlot(l) >= NBuffers /\ PinSlot(l) - NBuffers = l
  BY DEF PinSlot, PinSlots, AllSlots, Owned
<1>3. buf \in [AllSlots -> [Roles -> Owned \cup {NoLayer}]]
  BY <1>1 DEF Whole
<1>4. TypeOK
  <2>1. /\ layer \in [Slots -> Owned \cup {NoLayer}]
        /\ state \in [Slots -> {"Empty", "Loading", "Ready", "Failed"}]
        /\ ticket \in [Slots -> Nat]
    OBVIOUS
  <2>2. jobs \in Seq(JobRecord) /\ wrole \in 0 .. NRoles /\ crole \in 0 .. NRoles
    OBVIOUS
  <2>3. wpc \in {"none", "loop", "asleep", "fill", "mark", "notify", "exited"}
    BY DEF HasWorker
  <2> QED BY <1>1, <1>3, <2>1, <2>2, <2>3 DEF TypeOK
<1>5. PinnedWhole
  BY <1>1, <1>2 DEF PinnedWhole
<1>6. ReadyIsWhole /\ ~Working /\ 0 \in Slots /\ Len(jobs) = 0
  BY DEF ReadyIsWhole, Working, Slots
<1>7. NoRing
  BY <1>6 DEF NoRing, Ring, HasWorker
<1>8. JobsLive /\ JobsDistinct /\ WorkerOwns
  BY <1>6 DEF JobsLive, JobsDistinct, WorkerOwns
<1>9. CallerView
  BY DEF CallerView
<1> QED BY <1>4, <1>5, <1>6, <1>7, <1>8, <1>9 DEF IInv, RingInv

\* loadLayer up to its first wait or its return.
LEMMA LoadKeeps ==
  ASSUME IInv, NEW l \in Owned, Load(l)
  PROVE  IInv'
<1>1. TypeOK /\ RingInv /\ CallerView
  BY DEF IInv
<1>2. calls' \in Nat /\ want' = l
  <2>1. Begin(l)
    BY DEF Load, LoadPinned, LoadHit, LoadInFlight, LoadMiss, LoadSyncHit, LoadSyncMiss
  <2>2. calls \in Nat
    BY <1>1 DEF TypeOK
  <2> QED BY <2>1, <2>2 DEF Begin
<1>3. PinSlot(l) \in AllSlots
  BY DEF PinSlots, AllSlots
<1>4. 0 \in Slots
  BY ConfigAssumption DEF Slots
<1>5. CASE LoadPinned(l)
  <2> USE <1>5 DEF LoadPinned, Begin, cfgVars, ringVars
  <2>1. TypeOK'
    BY <1>1, <1>2, <1>3 DEF TypeOK
  <2>2. RingInv'
    BY <1>1, RingUnchanged
  <2>3. CallerView'
    BY <1>2 DEF CallerView
  <2> QED BY <2>1, <2>2, <2>3 DEF IInv
<1>6. CASE LoadHit(l)
  <2>1. Ring
    BY <1>6 DEF LoadHit, OnRing, Ring
  <2>2. /\ FirstHolding(l) \in Slots
        /\ layer[FirstHolding(l)] = l
        /\ state[FirstHolding(l)] = "Ready"
    BY <1>6, FirstHoldingProps DEF LoadHit, Holding
  <2> QED BY <1>2, <1>6, <2>1, <2>2, ActivateKeeps DEF LoadHit, Begin
<1>7. CASE LoadInFlight(l)
  <2> USE <1>7 DEF LoadInFlight, Begin, cfgVars, ringVars
  <2>1. Ring
    BY DEF OnRing, Ring
  <2>2. /\ FirstHolding(l) \in Slots
        /\ layer[FirstHolding(l)] = l
        /\ state[FirstHolding(l)] = "Loading"
    BY FirstHoldingProps DEF Holding
  <2>3. TypeOK'
    BY <1>1, <1>2, <2>2 DEF TypeOK
  <2>4. RingInv'
    BY <1>1, RingUnchanged
  <2>5. CallerView'
    BY <1>2, <2>1, <2>2 DEF CallerView, Ring
  <2> QED BY <2>3, <2>4, <2>5 DEF IInv
<1>8. CASE LoadMiss(l)
  <2>1. Ring /\ NBuffers > 1
    BY <1>8 DEF LoadMiss, OnRing, Ring
  <2>2. Victim \in Slots
    BY <1>1, <2>1, VictimType
  <2>3. /\ Claim(Victim, l, TRUE)
        /\ await' = Victim
        /\ cpc' = "asleep"
        /\ UNCHANGED <<async, pinned, buf, stop, current, active, wjob, wrole, werr, crole>>
    BY <1>8 DEF LoadMiss, Begin, cfgVars
  <2>4. /\ RingInv'
        /\ layer' \in [Slots -> Owned \cup {NoLayer}]
        /\ state' \in [Slots -> {"Empty", "Loading", "Ready", "Failed"}]
        /\ ticket' \in [Slots -> Nat]
        /\ jobs' \in Seq(JobRecord)
        /\ wpc' \in {"none", "loop", "asleep", "fill", "mark", "notify", "exited"}
    BY <2>1, <2>2, <2>3, ClaimKeeps
  <2>5. layer'[Victim] = l /\ state'[Victim] = "Loading"
    BY <1>1, <2>2, <2>3 DEF Claim, TypeOK
  <2>6. CallerView'
    BY <1>2, <2>1, <2>2, <2>3, <2>5 DEF CallerView, Ring
  <2>7. TypeOK'
    BY <1>1, <1>2, <2>2, <2>3, <2>4 DEF TypeOK
  <2> QED BY <2>4, <2>6, <2>7 DEF IInv
<1>9. CASE LoadSyncHit(l)
  <2> USE <1>9 DEF LoadSyncHit, Begin, cfgVars, ringVars
  <2>1. TypeOK'
    BY <1>1, <1>2, <1>4 DEF TypeOK, AllSlots
  <2>2. RingInv'
    BY <1>1, RingUnchanged
  <2>3. state[0] = "Ready"
    BY <1>1, ConfigAssumption DEF RingInv, NoRing, Ring, OnOneBuffer, Owned, NoLayer
  <2>4. CallerView'
    BY <1>2, <1>4, <2>3 DEF CallerView
  <2> QED BY <2>1, <2>2, <2>4 DEF IInv
<1>10. CASE LoadSyncMiss(l)
  <2> USE <1>10 DEF LoadSyncMiss, Begin, cfgVars, ringVars
  <2>1. TypeOK'
    BY <1>1, <1>2, <1>4, ConfigAssumption DEF TypeOK
  <2>2. ~Ring /\ wpc = "none" /\ jobs = <<>>
    BY <1>1 DEF OnOneBuffer, Ring, RingInv, NoRing
  <2>3. layer'[0] = NoLayer /\ \A s \in Slots : s # 0 => layer'[s] = layer[s]
    BY <1>1, <1>4 DEF TypeOK
  <2>4. RingInv'
    BY <1>1, <1>4, <2>2, <2>3
       DEF RingInv, PinnedWhole, ReadyIsWhole, NoRing, Ring, WorkerOwns, Working,
           JobsLive, JobsDistinct
  <2>5. CallerView'
    BY <1>2, <2>2, <2>3, ConfigAssumption DEF CallerView, Ring, Roles
  <2> QED BY <2>1, <2>4, <2>5 DEF IInv
<1> QED BY <1>5, <1>6, <1>7, <1>8, <1>9, <1>10 DEF Load

\* The steps of a waiting, a reading or a destroying caller.
LEMMA CallerKeeps ==
  ASSUME IInv,
         CallerStep \/ SpuriousCallerWakeup \/ DestroyBegin
  PROVE  IInv'
<1>1. TypeOK /\ RingInv /\ CallerView
  BY DEF IInv
<1>2. 0 \in Slots
  BY ConfigAssumption DEF Slots
<1> DEFINE Waits ==
      /\ UNCHANGED <<cfgVars, ringVars, buf, jobs, current, active, wjob, wrole, werr,
                     want, await, crole, calls>>
      /\ stop' \in BOOLEAN
      /\ (wpc' = wpc) \/ (wpc = "asleep" /\ wpc' = "loop")
      /\ \/ cpc' \in {"stopping", "joining", "gone"}
         \/ cpc \in {"asleep", "woken"} /\ cpc' \in {"asleep", "woken"}
<1>3. CASE Waits
  <2> USE <1>3 DEF cfgVars, ringVars
  <2>1. TypeOK'
    BY <1>1 DEF TypeOK
  <2>2. RingInv'
    BY <1>1, RingUnchanged
  <2>3. CallerView'
    BY <1>1 DEF CallerView, Ring
  <2> QED BY <2>1, <2>2, <2>3 DEF IInv
<1>4. CASE WaitAgain
  <2>1. stop' \in BOOLEAN
    BY <1>1, <1>4 DEF WaitAgain, TypeOK
  <2>2. Waits
    BY <1>4, <2>1 DEF WaitAgain, cfgVars, ringVars, workerVars
  <2> QED BY <1>3, <2>2
<1>5. CASE SpuriousCallerWakeup
  <2>1. stop' \in BOOLEAN
    BY <1>1, <1>5 DEF SpuriousCallerWakeup, TypeOK
  <2>2. Waits
    BY <1>5, <2>1 DEF SpuriousCallerWakeup, cfgVars, ringVars, workerVars
  <2> QED BY <1>3, <2>2
<1>6. CASE DestroyBegin
  <2>1. stop' \in BOOLEAN
    BY <1>1, <1>6 DEF DestroyBegin, TypeOK
  <2>2. Waits
    BY <1>6, <2>1 DEF DestroyBegin, cfgVars, ringVars, workerVars
  <2> QED BY <1>3, <2>2
<1>7. CASE DestroyNotify
  <2>1. stop' \in BOOLEAN
    BY <1>1, <1>7 DEF DestroyNotify, TypeOK
  <2>2. Waits
    BY <1>7, <2>1 DEF DestroyNotify, NotifyWorker, cfgVars, ringVars
  <2> QED BY <1>3, <2>2
<1>8. CASE DestroyJoin
  <2>1. stop' \in BOOLEAN
    BY <1>1, <1>8 DEF DestroyJoin, TypeOK
  <2>2. Waits
    BY <1>8, <2>1 DEF DestroyJoin, cfgVars, ringVars, workerVars
  <2> QED BY <1>3, <2>2
<1>9. CASE WaitDone
  <2>1. /\ Ring
        /\ want \in Owned
        /\ await \in Slots
        /\ layer[await] = want
        /\ state[await] = "Ready"
    BY <1>1, <1>9 DEF WaitDone, CallerView
  <2>2. calls' \in Nat
    BY <1>1, <1>9 DEF WaitDone, TypeOK
  <2> QED BY <1>9, <2>1, <2>2, ActivateKeeps DEF WaitDone
<1>10. CASE WaitFailed
  <2> USE <1>10 DEF WaitFailed, cfgVars, workerVars
  <2>1. await \in Slots /\ state[await] = "Failed" /\ Ring
    BY <1>1 DEF CallerView
  <2>2. TypeOK'
    BY <1>1, <2>1 DEF TypeOK
  <2>3. /\ state'[await] = "Empty"
        /\ \A s \in Slots : s # await => layer'[s] = layer[s] /\ state'[s] = state[s]
    BY <1>1, <2>1 DEF TypeOK
  <2>4. PinnedWhole' /\ ReadyIsWhole' /\ NoRing'
    BY <1>1, <2>1, <2>3 DEF RingInv, PinnedWhole, ReadyIsWhole, NoRing, Ring
  <2>5. WorkerOwns'
    BY <1>1, <2>1, <2>3 DEF RingInv, WorkerOwns, Working, JobRecord
  <2>6. \A i \in 1 .. Len(jobs) : jobs[i] \in JobRecord
    BY <1>1, ElementOfSeq DEF TypeOK
  <2>7. JobsLive'
    BY <1>1, <2>1, <2>3, <2>6 DEF RingInv, JobsLive, JobRecord
  <2>8. JobsDistinct'
    BY <1>1 DEF RingInv, JobsDistinct, Working, SameClaim
  <2>9. CallerView'
    BY DEF CallerView
  <2> QED BY <2>2, <2>4, <2>5, <2>7, <2>8, <2>9 DEF IInv, RingInv
<1>11. ASSUME cpc = "reading"
       PROVE  ~Ring /\ want \in Owned /\ wpc = "none" /\ jobs = <<>> /\ layer[0] = NoLayer
  BY <1>1, <1>11 DEF CallerView, RingInv, NoRing
<1>12. ASSUME cpc = "reading",
              NEW v \in Owned \cup {NoLayer}, crole \in Roles,
              buf' = [buf EXCEPT ![0][crole] = v],
              UNCHANGED <<cfgVars, ringVars, jobs, workerVars>>
       PROVE  /\ RingInv'
              /\ buf' \in [AllSlots -> [Roles -> Owned \cup {NoLayer}]]
              /\ \A r \in Roles : buf'[0][r] = IF r = crole THEN v ELSE buf[0][r]
  <2> USE <1>12 DEF cfgVars, ringVars, workerVars
  <2>1. /\ buf' \in [AllSlots -> [Roles -> Owned \cup {NoLayer}]]
        /\ \A t \in AllSlots : t # 0 => buf'[t] = buf[t]
        /\ \A r \in Roles : buf'[0][r] = IF r = crole THEN v ELSE buf[0][r]
    BY <1>1, <1>2 DEF TypeOK, AllSlots
  <2>2. \A l \in pinned : PinSlot(l) \in AllSlots /\ PinSlot(l) # 0
    BY <1>1, ConfigAssumption DEF TypeOK, AllSlots, PinSlots, PinSlot, Owned
  <2>3. PinnedWhole' /\ ReadyIsWhole'
    BY <1>1, <1>11, <2>1, <2>2 DEF RingInv, PinnedWhole, ReadyIsWhole, AllSlots
  <2>4. NoRing' /\ WorkerOwns' /\ JobsLive' /\ JobsDistinct'
    BY <1>1, <1>11 DEF RingInv, NoRing, Ring, WorkerOwns, Working, JobsLive, JobsDistinct
  <2> QED BY <2>1, <2>3, <2>4 DEF RingInv
<1>13. CASE SyncRead
  <2> USE <1>13 DEF SyncRead
  <2>1. want \in Owned /\ crole \in Roles
    BY <1>1, <1>11, ConfigAssumption DEF TypeOK, Roles
  <2>2. /\ RingInv'
        /\ buf' \in [AllSlots -> [Roles -> Owned \cup {NoLayer}]]
        /\ \A r \in Roles : buf'[0][r] = IF r = crole THEN want ELSE buf[0][r]
    BY <1>12, <2>1
  <2>3. TypeOK'
    BY <1>1, <2>1, <2>2, ConfigAssumption
       DEF TypeOK, Roles, cfgVars, ringVars, workerVars
  <2>4. CallerView'
    <3>1. /\ cpc' = "reading"
          /\ want' \in Owned
          /\ ~Ring'
          /\ layer'[0] = NoLayer
      BY <1>11 DEF cfgVars, ringVars, Ring
    <3>2. \A r \in Roles : r < crole' => buf'[0][r] = want'
      BY <1>1, <2>1, <2>2 DEF CallerView, Roles
    <3> QED BY <3>1, <3>2 DEF CallerView
  <2> QED BY <2>2, <2>3, <2>4 DEF IInv
<1>14. CASE SyncReadFails
  <2> USE <1>14 DEF SyncReadFails
  <2>1. crole \in Roles
    BY <1>1, ConfigAssumption DEF TypeOK, Roles
  <2>2. RingInv' /\ buf' \in [AllSlots -> [Roles -> Owned \cup {NoLayer}]]
    BY <1>12, <2>1
  <2>3. TypeOK'
    BY <1>1, <2>2 DEF TypeOK, cfgVars, ringVars, workerVars
  <2>4. CallerView'
    BY DEF CallerView
  <2> QED BY <2>2, <2>3, <2>4 DEF IInv
<1>15. CASE SyncDone
  <2> USE <1>15 DEF SyncDone, cfgVars, workerVars
  <2>1. ~Ring /\ want \in Owned /\ wpc = "none" /\ jobs = <<>>
    BY <1>11
  <2>2. TypeOK'
    BY <1>1, <1>2, <2>1 DEF TypeOK, AllSlots
  <2>3. /\ layer'[0] = want /\ state'[0] = "Ready"
        /\ \A s \in Slots : s # 0 => layer'[s] = layer[s] /\ state'[s] = state[s]
    BY <1>1, <1>2 DEF TypeOK
  <2>4. buf[0] = Whole(want)
    <3>1. \A r \in Roles : buf[0][r] = want
      BY <1>1, ConfigAssumption DEF CallerView, Roles
    <3>2. buf[0] \in [Roles -> Owned \cup {NoLayer}]
      BY <1>1, <1>2 DEF TypeOK, AllSlots
    <3> QED BY <3>1, <3>2 DEF Whole
  <2>5. PinnedWhole' /\ ReadyIsWhole' /\ NoRing'
    BY <1>1, <2>1, <2>3, <2>4 DEF RingInv, PinnedWhole, ReadyIsWhole, NoRing, Ring
  <2>6. WorkerOwns' /\ JobsLive' /\ JobsDistinct'
    BY <2>1 DEF WorkerOwns, Working, JobsLive, JobsDistinct
  <2>7. CallerView'
    BY <1>2, <2>1, <2>3 DEF CallerView
  <2> QED BY <2>2, <2>5, <2>6, <2>7 DEF IInv, RingInv
<1> QED BY <1>4, <1>5, <1>6, <1>7, <1>8, <1>9, <1>10, <1>13, <1>14, <1>15 DEF CallerStep

\* A read or a failed read of the job in hand, seen from the ring and the caller.
LEMMA FillKeeps ==
  ASSUME IInv, wpc = "fill", wrole \in Roles,
         NEW v \in Owned \cup {NoLayer},
         buf' = [buf EXCEPT ![wjob.slot][wrole] = v],
         UNCHANGED <<cfgVars, ringVars, jobs, stop, current, active, wjob,
                     cpc, want, await, crole, calls>>,
         \/ wpc' = "fill" /\ werr' = werr /\ wrole' = wrole + 1 /\ v = wjob.layer
         \/ wpc' = "mark" /\ werr' = TRUE /\ wrole' = wrole
  PROVE  IInv'
<1> USE DEF cfgVars, ringVars
<1>1. TypeOK /\ RingInv /\ CallerView
  BY DEF IInv
<1>2. /\ Working /\ Working'
      /\ wjob \in JobRecord
      /\ wjob.slot \in Slots
      /\ state[wjob.slot] = "Loading"
      /\ ~werr
  BY <1>1 DEF RingInv, WorkerOwns, Working, JobRecord
<1>3. /\ buf' \in [AllSlots -> [Roles -> Owned \cup {NoLayer}]]
      /\ \A t \in AllSlots : t # wjob.slot => buf'[t] = buf[t]
      /\ \A r \in Roles : buf'[wjob.slot][r] = IF r = wrole THEN v ELSE buf[wjob.slot][r]
  BY <1>1, <1>2 DEF TypeOK, AllSlots
<1>4. \A l \in pinned : PinSlot(l) \in AllSlots /\ PinSlot(l) \notin Slots
  BY <1>1, ConfigAssumption DEF TypeOK, AllSlots, PinSlots, PinSlot, Owned, Slots
<1>5. wrole \in Nat /\ wrole + 1 \in 0 .. NRoles
  BY ConfigAssumption DEF Roles
<1>6. TypeOK'
  <2>1. wrole' \in 0 .. NRoles
    BY <1>1, <1>5 DEF TypeOK
  <2>2. wpc' \in {"fill", "mark"}
    OBVIOUS
  <2>3. werr' \in BOOLEAN
    BY <1>1, Zenon DEF TypeOK
  <2> QED BY <1>1, <1>3, <2>1, <2>2, <2>3 DEF TypeOK
<1>7. PinnedWhole' /\ ReadyIsWhole'
  BY <1>1, <1>2, <1>3, <1>4 DEF RingInv, PinnedWhole, ReadyIsWhole, AllSlots
<1>8. NoRing'
  BY <1>1, <1>2 DEF RingInv, NoRing, Ring, Working
<1>9. WorkerOwns'
  <2>1. /\ wjob.ticket <= ticket[wjob.slot]
        /\ wjob.ticket = ticket[wjob.slot] => layer[wjob.slot] = wjob.layer
        /\ \A r \in Roles : r < wrole => buf[wjob.slot][r] = wjob.layer
    BY <1>1, <1>2 DEF RingInv, WorkerOwns
  <2>2. ~werr' => \A r \in Roles : r < wrole' => buf'[wjob.slot][r] = wjob.layer
    BY <1>3, <1>5, <2>1 DEF Roles
  <2> QED BY <1>2, <2>1, <2>2 DEF WorkerOwns
<1>10. JobsLive' /\ JobsDistinct'
  BY <1>1, <1>2 DEF RingInv, JobsLive, JobsDistinct, SameClaim
<1>11. CallerView'
  <2>1. Ring
    BY <1>1, <1>2 DEF RingInv, NoRing, Working
  <2> QED BY <1>1, <2>1 DEF CallerView, Ring
<1> QED BY <1>6, <1>7, <1>8, <1>9, <1>10, <1>11 DEF IInv, RingInv

\* The worker's steps: a pop, a fill, a mark, a notify, a sleep, an exit.
LEMMA WorkerKeeps ==
  ASSUME IInv,
         WorkerStep \/ SpuriousWorkerWakeup
  PROVE  IInv'
<1>1. TypeOK /\ RingInv /\ CallerView
  BY DEF IInv
<1> DEFINE Moves ==
      /\ UNCHANGED <<cfgVars, ringVars, buf, jobs, stop, current, active, wjob, wrole, werr,
                     want, await, crole, calls>>
      /\ wpc # "none"
      /\ wpc' \in {"loop", "asleep", "exited"}
      /\ (cpc' = cpc) \/ (cpc = "asleep" /\ cpc' = "woken")
<1>2. CASE Moves
  <2> USE <1>2 DEF cfgVars, ringVars
  <2>1. TypeOK'
    BY <1>1 DEF TypeOK
  <2>2. RingInv'
    BY <1>1, RingUnchanged
  <2>3. CallerView'
    BY <1>1 DEF CallerView, Ring
  <2> QED BY <2>1, <2>2, <2>3 DEF IInv
<1>3. CASE WorkerSleep \/ WorkerExit \/ SpuriousWorkerWakeup \/ WorkerNotify
  <2>1. Moves
    BY <1>3 DEF WorkerSleep, WorkerExit, SpuriousWorkerWakeup, WorkerNotify, cfgVars, ringVars
  <2> QED BY <1>2, <2>1
<1>4. CASE WorkerRead
  <2>1. wrole \in Roles /\ wjob \in JobRecord /\ ~werr
    BY <1>1, <1>4, ConfigAssumption
       DEF WorkerRead, TypeOK, Roles, RingInv, WorkerOwns, Working
  <2>2. wjob.layer \in Owned \cup {NoLayer}
    BY <2>1 DEF JobRecord
  <2> QED BY <1>4, <2>1, <2>2, FillKeeps DEF WorkerRead
<1>5. CASE WorkerReadFails
  <2>1. wrole \in Roles
    BY <1>1, <1>5, ConfigAssumption DEF WorkerReadFails, TypeOK, Roles
  <2> QED BY <1>5, <2>1, FillKeeps DEF WorkerReadFails
<1>6. CASE WorkerFilled
  <2> USE <1>6 DEF WorkerFilled, cfgVars, ringVars
  <2>1. TypeOK'
    BY <1>1 DEF TypeOK
  <2>2. PinnedWhole' /\ ReadyIsWhole' /\ NoRing' /\ JobsLive' /\ JobsDistinct'
    BY <1>1 DEF RingInv, PinnedWhole, ReadyIsWhole, NoRing, Ring, JobsLive, JobsDistinct,
                Working, SameClaim
  <2>3. WorkerOwns'
    BY <1>1 DEF RingInv, WorkerOwns, Working
  <2>4. CallerView'
    BY <1>1 DEF CallerView, Ring
  <2> QED BY <2>1, <2>2, <2>3, <2>4 DEF IInv, RingInv
<1>7. CASE WorkerMark
  <2> USE <1>7 DEF WorkerMark, cfgVars
  <2>1. /\ Working /\ ~Working' /\ Ring
        /\ wjob \in JobRecord /\ wjob.slot \in Slots
        /\ state[wjob.slot] = "Loading"
        /\ wjob.ticket = ticket[wjob.slot] => layer[wjob.slot] = wjob.layer
        /\ ~werr => wrole = NRoles /\ \A r \in Roles : r < wrole => buf[wjob.slot][r] = wjob.layer
    BY <1>1 DEF RingInv, NoRing, WorkerOwns, Working, JobRecord
  <2>2. /\ state' \in [Slots -> {"Empty", "Loading", "Ready", "Failed"}]
        /\ \A s \in Slots : s # wjob.slot \/ wjob.ticket # ticket[s] => state'[s] = state[s]
        /\ state'[wjob.slot] = "Ready" => wjob.ticket = ticket[wjob.slot] /\ ~werr
        /\ state'[wjob.slot] \in {"Loading", "Ready", "Failed"}
    BY <1>1, <2>1 DEF TypeOK
  <2>3. TypeOK'
    BY <1>1, <2>2 DEF TypeOK
  <2>4. ~werr => buf[wjob.slot] = Whole(wjob.layer)
    <3>1. ~werr => \A r \in Roles : buf[wjob.slot][r] = wjob.layer
      BY <2>1, ConfigAssumption DEF Roles
    <3>2. buf[wjob.slot] \in [Roles -> Owned \cup {NoLayer}]
      BY <1>1, <2>1 DEF TypeOK, AllSlots
    <3> QED BY <3>1, <3>2 DEF Whole
  <2>5. PinnedWhole' /\ NoRing' /\ WorkerOwns' /\ JobsDistinct'
    BY <1>1, <2>1 DEF RingInv, PinnedWhole, NoRing, Ring, WorkerOwns, JobsDistinct, SameClaim
  <2>6. ReadyIsWhole'
    BY <1>1, <2>1, <2>2, <2>4 DEF RingInv, ReadyIsWhole
  <2>7. \A i \in 1 .. Len(jobs) : jobs[i] \in JobRecord /\ ~SameClaim(jobs[i], wjob)
    BY <1>1, <2>1, ElementOfSeq DEF TypeOK, RingInv, JobsDistinct
  <2>8. JobsLive'
    BY <1>1, <2>1, <2>2, <2>7 DEF RingInv, JobsLive, SameClaim, JobRecord
  <2>9. CallerView'
    BY <1>1, <2>1, <2>2 DEF CallerView, Ring
  <2> QED BY <2>3, <2>5, <2>6, <2>8, <2>9 DEF IInv, RingInv
<1>8. CASE WorkerTake
  <2> USE <1>8 DEF WorkerTake, cfgVars, ringVars
  <2>1. /\ jobs' \in Seq(JobRecord) /\ Len(jobs') = Len(jobs) - 1 /\ Len(jobs) \in Nat \ {0}
        /\ \A i \in 1 .. Len(jobs') : i + 1 \in 1 .. Len(jobs) /\ jobs'[i] = jobs[i + 1]
        /\ Head(jobs) = jobs[1] /\ jobs[1] \in JobRecord
    BY <1>1, HeadTailProperties, ElementOfSeq, LenProperties, EmptySeq DEF TypeOK
  <2>2. CASE ticket[Head(jobs).slot] = Head(jobs).ticket
    <3>1. wpc' = "fill" /\ wjob' = jobs[1] /\ wrole' = 0 /\ werr' = FALSE /\ Working'
      BY <2>1, <2>2 DEF Working
    <3>2. TypeOK'
      <4>1. wrole' \in 0 .. NRoles /\ wjob' \in JobRecord
        BY <2>1, <3>1, ConfigAssumption
      <4>2. wpc' \in {"fill"} /\ werr' \in BOOLEAN
        BY <3>1
      <4>3. UNCHANGED <<async, pinned, layer, state, ticket, buf, stop, current, active,
                        cpc, want, await, crole, calls>>
        OBVIOUS
      <4> HIDE DEF WorkerTake
      <4> HIDE <1>8
      <4> QED BY <1>1, <2>1, <4>1, <4>2, <4>3 DEF TypeOK
    <3>3. PinnedWhole' /\ ReadyIsWhole' /\ NoRing'
      BY <1>1 DEF RingInv, PinnedWhole, ReadyIsWhole, NoRing, Ring
    <3>4. JobsLive'
      BY <1>1, <2>1 DEF RingInv, JobsLive
    <3>5. JobsDistinct'
      BY <1>1, <2>1, <3>1 DEF RingInv, JobsDistinct, SameClaim
    <3>6. WorkerOwns'
      <4>1. /\ jobs[1].ticket = ticket[jobs[1].slot]
            /\ state[jobs[1].slot] = "Loading"
            /\ layer[jobs[1].slot] = jobs[1].layer
        BY <1>1, <2>1, <2>2 DEF RingInv, JobsLive
      <4> QED BY <2>1, <3>1, <4>1 DEF WorkerOwns, Roles, JobRecord
    <3>7. CallerView'
      BY <1>1 DEF CallerView, Ring
    <3> QED BY <3>2, <3>3, <3>4, <3>5, <3>6, <3>7 DEF IInv, RingInv
  <2>3. CASE ticket[Head(jobs).slot] # Head(jobs).ticket
    <3>1. UNCHANGED <<wpc, wjob, wrole, werr>> /\ ~Working'
      BY <2>3 DEF workerVars, Working
    <3>2. TypeOK'
      BY <1>1, <2>1, <3>1 DEF TypeOK
    <3>3. PinnedWhole' /\ ReadyIsWhole' /\ NoRing' /\ WorkerOwns'
      BY <1>1, <3>1 DEF RingInv, PinnedWhole, ReadyIsWhole, NoRing, Ring, WorkerOwns
    <3>4. JobsLive'
      BY <1>1, <2>1 DEF RingInv, JobsLive
    <3>5. JobsDistinct'
      BY <1>1, <2>1, <3>1 DEF RingInv, JobsDistinct, SameClaim
    <3>6. CallerView'
      BY <1>1 DEF CallerView, Ring
    <3> QED BY <3>2, <3>3, <3>4, <3>5, <3>6 DEF IInv, RingInv
  <2> QED BY <2>2, <2>3
<1> QED BY <1>3, <1>4, <1>5, <1>6, <1>7, <1>8 DEF WorkerStep

\* Steps that touch nothing.
LEMMA StutterKeeps ==
  ASSUME IInv, UNCHANGED vars
  PROVE  IInv'
<1> USE DEF vars
<1>1. TypeOK'
  BY DEF IInv, TypeOK
<1>2. RingInv'
  BY RingUnchanged DEF IInv
<1>3. CallerView'
  BY DEF IInv, CallerView, Ring
<1> QED BY <1>1, <1>2, <1>3 DEF IInv

\* The inductive invariant holds in every reachable state.
THEOREM Invariance == Safety => []IInv
<1>1. Init => IInv
  BY InitIInv
<1>2. IInv /\ [Next]_vars => IInv'
  <2> SUFFICES ASSUME IInv, [Next]_vars PROVE IInv'
    OBVIOUS
  <2> QED BY LoadKeeps, CallerKeeps, WorkerKeeps, StutterKeeps DEF Next, Internal, Gone
<1> QED BY <1>1, <1>2, PTL DEF Safety

\* Every variable of the loader, its worker and its caller keeps its type.
THEOREM TypeCorrect == Safety => []TypeOK
<1>1. IInv => TypeOK
  BY DEF IInv
<1> QED BY <1>1, Invariance, PTL

\* A slot marked Ready holds its label's weights in full.
THEOREM ReadySlotsWhole == Safety => []ReadyIsWhole
<1>1. IInv => ReadyIsWhole
  BY DEF IInv, RingInv
<1> QED BY <1>1, Invariance, PTL

\* The caller's view, read off the inductive invariant.
LEMMA SafeByInvariant == IInv => ConsumerSafe
<1> SUFFICES ASSUME IInv, cpc = "using"
             PROVE  /\ active \in AllSlots
                    /\ buf[active] = Whole(want)
                    /\ wpc = "fill" => wjob.slot # active
  BY DEF ConsumerSafe
<1>1. TypeOK /\ RingInv /\ CallerView
  BY DEF IInv
<1>2. want \in Owned /\ want # NoLayer
  BY <1>1, ConfigAssumption DEF CallerView, Owned, NoLayer
<1>3. wpc = "fill" => wjob.slot \in Slots /\ state[wjob.slot] = "Loading"
  BY <1>1 DEF RingInv, WorkerOwns, Working, JobRecord
<1>4. CASE want \in pinned /\ active = PinSlot(want)
  <2>1. active \in AllSlots /\ active \notin Slots
    BY <1>2, <1>4, ConfigAssumption DEF PinSlot, PinSlots, AllSlots, Slots, Owned
  <2> QED BY <1>1, <1>3, <1>4, <2>1 DEF RingInv, PinnedWhole
<1>5. CASE active \in Slots /\ state[active] = "Ready" /\ layer[active] = want
  BY <1>1, <1>2, <1>3, <1>5 DEF RingInv, ReadyIsWhole, AllSlots
<1> QED BY <1>1, <1>4, <1>5 DEF CallerView

\* What getWeight hands out between two calls of loadLayer is the layer asked
\* for, whole, and no fill touches it (loader.cpp:571-573, 591-592, 614-617).
THEOREM ConsumerIsSafe == Safety => []ConsumerSafe
BY SafeByInvariant, Invariance, PTL

-----------------------------------------------------------------------------
(* No claim is lost.  A step that takes a claim out of the queue puts it   *)
(* in the worker's hands or finds its ticket stale; one that takes it from *)
(* the worker settles the slot.                                            *)

\* Nothing leaves the queue or the worker's hands, and no slot starts loading.
LEMMA ClaimsStay ==
  ASSUME NoLostClaim,
         UNCHANGED <<ticket, jobs, wjob>>,
         Working => Working',
         \A s \in Slots : state'[s] = "Loading" => state[s] = "Loading"
  PROVE  NoLostClaim'
BY DEF NoLostClaim, Working

\* A new claim is in the queue, and the older ones stay where they are.
LEMMA ClaimIsQueued ==
  ASSUME TypeOK, NoLostClaim,
         NEW s \in Slots, NEW l \in Owned, NEW front \in BOOLEAN,
         Claim(s, l, front), wjob' = wjob
  PROVE  NoLostClaim'
<1> DEFINE job == [slot |-> s, layer |-> l, ticket |-> ticket[s] + 1]
<1>1. /\ state' = [state EXCEPT ![s] = "Loading"]
      /\ ticket' = [ticket EXCEPT ![s] = @ + 1]
      /\ jobs' = Pushed(jobs, job, front)
      /\ Working => Working'
  BY DEF Claim, NotifyWorker, Pushed, Working
<1>2. job \in JobRecord /\ jobs \in Seq(JobRecord) /\ Len(jobs) \in Nat
  BY LenProperties DEF TypeOK, JobRecord
<1>3. /\ jobs' \in Seq(JobRecord)
      /\ Len(jobs') = Len(jobs) + 1
      /\ Inserted(jobs', jobs, job)
  BY <1>1, <1>2, PushProps
<1>4. DOMAIN jobs = 1 .. Len(jobs) /\ DOMAIN jobs' = 1 .. Len(jobs) + 1
  BY <1>2, <1>3, LenProperties
<1>5. job.slot = s /\ job.ticket = ticket[s] + 1
  OBVIOUS
<1> HIDE DEF job
<1>6. PICK k \in 1 .. Len(jobs) + 1 :
        /\ jobs'[k] = job
        /\ \A i \in 1 .. Len(jobs) + 1 :
             \/ i = k
             \/ i < k /\ i \in 1 .. Len(jobs) /\ jobs'[i] = jobs[i]
             \/ i > k /\ i - 1 \in 1 .. Len(jobs) /\ jobs'[i] = jobs[i - 1]
  BY <1>3 DEF Inserted
<1>7. ASSUME NEW m \in 1 .. Len(jobs)
      PROVE  \E i \in 1 .. Len(jobs) + 1 : jobs'[i] = jobs[m]
  <2>1. CASE m < k
    <3>1. m \in 1 .. Len(jobs) + 1 /\ m # k /\ ~(m > k)
      BY <1>2, <2>1
    <3> QED BY <1>6, <3>1
  <2>2. CASE m >= k
    <3>1. m + 1 \in 1 .. Len(jobs) + 1 /\ m + 1 # k /\ ~(m + 1 < k) /\ (m + 1) - 1 = m
      BY <1>2, <2>2
    <3> QED BY <1>6, <3>1
  <2> QED BY <1>2, <2>1, <2>2
<1> SUFFICES ASSUME NEW t \in Slots, state'[t] = "Loading"
             PROVE  \/ \E i \in DOMAIN jobs' : jobs'[i].slot = t /\ jobs'[i].ticket = ticket'[t]
                    \/ Working' /\ wjob'.slot = t /\ wjob'.ticket = ticket'[t]
  BY DEF NoLostClaim, Working
<1>8. CASE t = s
  <2>1. ticket'[t] = ticket[s] + 1
    BY <1>1, <1>8 DEF TypeOK
  <2> QED BY <1>4, <1>5, <1>6, <1>8, <2>1
<1>9. CASE t # s
  <2>1. ticket'[t] = ticket[t] /\ state[t] = "Loading"
    BY <1>1, <1>9 DEF TypeOK
  <2>2. \/ \E m \in 1 .. Len(jobs) : jobs[m].slot = t /\ jobs[m].ticket = ticket[t]
        \/ Working /\ wjob.slot = t /\ wjob.ticket = ticket[t]
    BY <1>4, <2>1 DEF NoLostClaim, Working
  <2> QED BY <1>1, <1>4, <1>7, <2>1, <2>2
<1> QED BY <1>8, <1>9

\* The tail of loadLayer claims at most one slot.
LEMMA ActivateLosesNone ==
  ASSUME IInv, NoLostClaim, NBuffers > 1,
         NEW s \in Slots, NEW l \in Owned,
         ActivateAndPrefetch(s, l), wjob' = wjob
  PROVE  NoLostClaim'
<1>1. TypeOK
  BY DEF IInv
<1>2. CASE NextLayer(l) # NoLayer /\ layer[OtherSlot(s)] # NextLayer(l)
  <2>1. Claim(OtherSlot(s), NextLayer(l), FALSE)
    BY <1>2 DEF ActivateAndPrefetch
  <2>2. NextLayer(l) \in Owned /\ OtherSlot(s) \in Slots
    BY <1>2, NextLayerType, OtherSlotProps
  <2> QED BY <1>1, <2>1, <2>2, ClaimIsQueued
<1>3. CASE ~(NextLayer(l) # NoLayer /\ layer[OtherSlot(s)] # NextLayer(l))
  <2>1. UNCHANGED <<state, ticket, jobs, wpc>>
    BY <1>3 DEF ActivateAndPrefetch, ringVars
  <2> QED BY <2>1, ClaimsStay DEF Working
<1> QED BY <1>2, <1>3

\* One step per group of actions.
LEMMA StepLosesNone ==
  ASSUME IInv, NoLostClaim, [Next]_vars
  PROVE  NoLostClaim'
<1>1. TypeOK /\ RingInv /\ CallerView
  BY DEF IInv
<1>2. ASSUME NEW l \in Owned, Load(l)
      PROVE  NoLostClaim'
  <2>1. CASE LoadHit(l)
    <3>1. FirstHolding(l) \in Slots /\ NBuffers > 1
      BY <2>1, FirstHoldingProps DEF LoadHit, Holding, OnRing
    <3>2. ActivateAndPrefetch(FirstHolding(l), l) /\ wjob' = wjob
      BY <2>1 DEF LoadHit, Begin
    <3> QED BY <3>1, <3>2, ActivateLosesNone
  <2>2. CASE LoadMiss(l)
    <3>1. Victim \in Slots
      BY <1>1, <2>2, VictimType DEF LoadMiss, OnRing
    <3>2. Claim(Victim, l, TRUE) /\ wjob' = wjob
      BY <2>2 DEF LoadMiss, Begin
    <3> QED BY <1>1, <3>1, <3>2, ClaimIsQueued
  <2>3. CASE LoadPinned(l) \/ LoadInFlight(l) \/ LoadSyncHit(l) \/ LoadSyncMiss(l)
    <3>1. UNCHANGED <<state, ticket, jobs, wjob, wpc>>
      BY <2>3 DEF LoadPinned, LoadInFlight, LoadSyncHit, LoadSyncMiss, Begin, ringVars
    <3> QED BY <3>1, ClaimsStay DEF Working
  <2> QED BY <1>2, <2>1, <2>2, <2>3 DEF Load
<1>3. CASE WaitDone
  <2>1. await \in Slots /\ want \in Owned /\ NBuffers > 1
    BY <1>1, <1>3 DEF WaitDone, CallerView, Ring
  <2>2. ActivateAndPrefetch(await, want) /\ wjob' = wjob
    BY <1>3 DEF WaitDone
  <2> QED BY <2>1, <2>2, ActivateLosesNone
<1>4. CASE WaitFailed
  <2>1. \A s \in Slots : state'[s] = "Loading" => state[s] = "Loading"
    BY <1>1, <1>4 DEF WaitFailed, TypeOK
  <2>2. UNCHANGED <<ticket, jobs, wjob, wpc>>
    BY <1>4 DEF WaitFailed, workerVars
  <2> QED BY <2>1, <2>2, ClaimsStay DEF Working
<1>5. CASE SyncDone
  <2>1. \A s \in Slots : state'[s] = "Loading" => state[s] = "Loading"
    BY <1>1, <1>5 DEF SyncDone, TypeOK
  <2>2. UNCHANGED <<ticket, jobs, wjob, wpc>>
    BY <1>5 DEF SyncDone, workerVars
  <2> QED BY <2>1, <2>2, ClaimsStay DEF Working
<1>6. CASE \/ WaitAgain \/ SpuriousCallerWakeup \/ SyncRead \/ SyncReadFails
           \/ DestroyBegin \/ DestroyNotify \/ DestroyJoin
  <2>1. /\ UNCHANGED <<state, ticket, jobs, wjob>>
        /\ wpc' = wpc \/ (wpc = "asleep" /\ wpc' = "loop")
    BY <1>6 DEF WaitAgain, SpuriousCallerWakeup, SyncRead, SyncReadFails, DestroyBegin,
                DestroyNotify, DestroyJoin, NotifyWorker, ringVars, workerVars
  <2> QED BY <2>1, ClaimsStay DEF Working
<1>7. CASE \/ WorkerSleep \/ WorkerExit \/ SpuriousWorkerWakeup \/ WorkerNotify
           \/ WorkerRead \/ WorkerReadFails \/ WorkerFilled
  <2>1. /\ UNCHANGED <<state, ticket, jobs, wjob>>
        /\ Working => Working'
    BY <1>7 DEF WorkerSleep, WorkerExit, SpuriousWorkerWakeup, WorkerNotify, WorkerRead,
                WorkerReadFails, WorkerFilled, Working, ringVars
  <2> QED BY <2>1, ClaimsStay
<1>8. CASE WorkerMark
  <2> USE <1>8 DEF WorkerMark
  <2>1. wjob.slot \in Slots /\ UNCHANGED <<ticket, jobs, wjob>>
    BY <1>1 DEF RingInv, WorkerOwns, Working, JobRecord
  <2>2. ASSUME NEW s \in Slots, state'[s] = "Loading"
        PROVE  state[s] = "Loading" /\ ~(wjob.slot = s /\ wjob.ticket = ticket[s])
    BY <1>1, <2>1, <2>2 DEF TypeOK
  <2> QED BY <2>1, <2>2 DEF NoLostClaim
<1>9. CASE WorkerTake
  <2> USE <1>9 DEF WorkerTake, ringVars, workerVars
  <2>1. /\ jobs \in Seq(JobRecord) /\ Len(jobs) \in Nat \ {0}
        /\ jobs' \in Seq(JobRecord) /\ Len(jobs') = Len(jobs) - 1
        /\ \A i \in 1 .. Len(jobs') : jobs'[i] = jobs[i + 1]
        /\ Head(jobs) = jobs[1]
    BY <1>1, HeadTailProperties, LenProperties, EmptySeq DEF TypeOK
  <2>2. DOMAIN jobs = 1 .. Len(jobs) /\ DOMAIN jobs' = 1 .. Len(jobs) - 1
    BY <2>1, LenProperties
  <2>3. ASSUME NEW m \in 1 .. Len(jobs), m # 1
        PROVE  \E i \in 1 .. Len(jobs) - 1 : jobs'[i] = jobs[m]
    <3>1. m - 1 \in 1 .. Len(jobs) - 1 /\ (m - 1) + 1 = m
      BY <2>1, <2>3
    <3> QED BY <2>1, <3>1
  <2> SUFFICES ASSUME NEW t \in Slots, state[t] = "Loading"
               PROVE  \/ \E i \in DOMAIN jobs' : jobs'[i].slot = t /\ jobs'[i].ticket = ticket[t]
                      \/ Working' /\ wjob'.slot = t /\ wjob'.ticket = ticket[t]
    BY DEF NoLostClaim, Working
  <2>4. PICK m \in 1 .. Len(jobs) : jobs[m].slot = t /\ jobs[m].ticket = ticket[t]
    BY <2>2 DEF NoLostClaim
  <2>5. CASE m = 1
    BY <2>1, <2>4, <2>5 DEF Working
  <2>6. CASE m # 1
    BY <2>2, <2>3, <2>4, <2>6
  <2> QED BY <2>5, <2>6
<1>10. CASE UNCHANGED vars
  BY <1>10, ClaimsStay DEF vars, Working
<1> QED
  BY <1>2, <1>3, <1>4, <1>5, <1>6, <1>7, <1>8, <1>9, <1>10
     DEF Next, Internal, CallerStep, WorkerStep, Gone

\* A slot that is Loading has its latest claim in the queue or in the worker's
\* hands: loadLayer never waits for a load nobody will do (loader.cpp:484-508,
\* 520-529, 576-581).
THEOREM NoClaimLost == Safety => []NoLostClaim
<1>1. Init => NoLostClaim
  BY DEF Init, NoLostClaim
<1>2. IInv /\ NoLostClaim /\ [Next]_vars => NoLostClaim'
  BY StepLosesNone
<1> QED BY <1>1, <1>2, Invariance, PTL DEF Safety

-----------------------------------------------------------------------------
(* The loader implements the weight service.  Since the caller's view is   *)
(* always the whole layer it asked for, a step is judged by what it does   *)
(* to the phase and to the layer wanted.                                   *)

\* Seen through the refinement mapping, the view depends on the layer wanted only.
LEMMA ViewIsWanted ==
  IInv => View = IF cpc = "using" THEN Whole(want) ELSE Whole(NoLayer)
BY SafeByInvariant DEF View, ConsumerSafe

\* A step of the loader is a step of the weight service or leaves it alone.
LEMMA StepRefines ==
  ASSUME IInv, IInv', [Next]_vars
  PROVE  [Service!Next]_(Service!svcVars)
<1> USE DEF Service!svcVars
<1>1. View = IF cpc = "using" THEN Whole(want) ELSE Whole(NoLayer)
  BY ViewIsWanted
<1>2. (View = IF cpc = "using" THEN Whole(want) ELSE Whole(NoLayer))'
  BY ViewIsWanted, PTL
<1>3. /\ Service!NoView = Whole(NoLayer)
      /\ \A l : Service!Whole(l) = Whole(l)
      /\ Whole(want)' = Whole(want')
      /\ Whole(NoLayer)' = Whole(NoLayer)
  BY DEF Service!NoView, Service!Whole, Service!Roles, Service!NoLayer, Whole, Roles, NoLayer
<1>4. ASSUME want' = want, cpc' = cpc
      PROVE  UNCHANGED <<Phase, want, View>>
  BY <1>1, <1>2, <1>3, <1>4 DEF Phase
<1>5. ASSUME NEW l \in Owned, Load(l)
      PROVE  Service!Serve(l) \/ Service!Ask(l)
  <2>1. cpc \in {"idle", "using"} /\ want' = l
    BY <1>5 DEF Load, LoadPinned, LoadHit, LoadInFlight, LoadMiss, LoadSyncHit,
                LoadSyncMiss, Begin
  <2>2. cpc' \in {"using", "asleep", "reading"}
    BY <1>5 DEF Load, LoadPinned, LoadHit, LoadInFlight, LoadMiss, LoadSyncHit,
                LoadSyncMiss, ActivateAndPrefetch
  <2>3. CASE cpc' = "using"
    BY <1>2, <1>3, <2>1, <2>3 DEF Service!Serve, Phase
  <2>4. CASE cpc' \in {"asleep", "reading"}
    BY <1>2, <1>3, <2>1, <2>4 DEF Service!Ask, Phase
  <2> QED BY <2>2, <2>3, <2>4
<1>6. CASE WaitDone \/ SyncDone
  <2>1. cpc \in {"woken", "reading"} /\ cpc' = "using" /\ want' = want
    BY <1>6 DEF WaitDone, SyncDone, ActivateAndPrefetch
  <2>2. Service!Deliver
    BY <1>2, <1>3, <2>1 DEF Service!Deliver, Phase
  <2> QED BY <2>2 DEF Service!Next, Service!Answer
<1>7. CASE WaitFailed \/ SyncReadFails
  <2>1. cpc \in {"woken", "reading"} /\ cpc' = "idle" /\ want' = want
    BY <1>7 DEF WaitFailed, SyncReadFails
  <2>2. Service!Refuse
    BY <1>1, <1>2, <1>3, <2>1 DEF Service!Refuse, Phase
  <2> QED BY <2>2 DEF Service!Next, Service!Answer
<1>8. CASE DestroyBegin
  <2>1. cpc \in {"idle", "using"} /\ cpc' \in {"stopping", "gone"} /\ want' = want
    BY <1>8 DEF DestroyBegin
  <2>2. Service!Close
    BY <1>2, <1>3, <2>1 DEF Service!Close, Phase
  <2> QED BY <2>2 DEF Service!Next
<1>9. ASSUME want' = want,
             \/ cpc' = cpc
             \/ cpc \in {"asleep", "woken"} /\ cpc' \in {"asleep", "woken"}
             \/ cpc \in {"stopping", "joining"} /\ cpc' \in {"joining", "gone"}
      PROVE  UNCHANGED <<Phase, want, View>>
  BY <1>1, <1>2, <1>3, <1>4, <1>9 DEF Phase
<1>10. CASE WaitAgain \/ SpuriousCallerWakeup \/ SyncRead \/ DestroyNotify \/ DestroyJoin
  BY <1>9, <1>10 DEF WaitAgain, SpuriousCallerWakeup, SyncRead, DestroyNotify, DestroyJoin
<1>11. CASE WorkerStep \/ SpuriousWorkerWakeup
  <2>1. want' = want
    BY <1>11 DEF WorkerStep, WorkerTake, WorkerSleep, WorkerExit, WorkerRead,
                 WorkerReadFails, WorkerFilled, WorkerMark, WorkerNotify,
                 SpuriousWorkerWakeup
  <2>2. cpc' = cpc \/ (cpc = "asleep" /\ cpc' = "woken")
    BY <1>11 DEF WorkerStep, WorkerTake, WorkerSleep, WorkerExit, WorkerRead,
                 WorkerReadFails, WorkerFilled, WorkerMark, WorkerNotify,
                 SpuriousWorkerWakeup
  <2> QED BY <1>9, <2>1, <2>2
<1>12. CASE UNCHANGED vars
  BY <1>4, <1>12 DEF vars
<1> QED
  BY <1>5, <1>6, <1>7, <1>8, <1>10, <1>11, <1>12
     DEF Next, Internal, CallerStep, Gone, Service!Next

\* Every behaviour of the loader, projected on what its caller sees, is one of
\* the abstract weight service: no call is answered with a mixed layer, and
\* nothing but a call changes what getWeight returns.
THEOREM LoaderRefinesService == Safety => Service!Safety
<1>1. Init => Service!Init
  BY DEF Init, Service!Init, Phase, View, Service!NoView, Service!Roles, Service!NoLayer,
         Whole, Roles, NoLayer
<1>2. IInv /\ IInv' /\ [Next]_vars => [Service!Next]_(Service!svcVars)
  BY StepRefines
<1> QED BY <1>1, <1>2, Invariance, PTL DEF Safety, Service!Safety

-----------------------------------------------------------------------------
(***************************************************************************)
(* What holds of the loader under the forward pass for every layer range   *)
(* and number of buffers.  NextIsOnItsWay holds of every ring; that at     *)
(* most one job is queued, that the caller's layer is not the one being    *)
(* read, and that nothing held is read again are proved of Regular rings.  *)
(*                                                                         *)
(* The argument.  A pass asks for the layer its last call prefetched, so a *)
(* claim is only made once the previous read has settled: there is never   *)
(* more than one read (Calm).  Where the layers stand in the ring decides  *)
(* what a claim may hit: with a buffer for every cold layer each layer has *)
(* a slot of its own (Layout); with fewer, the layers go round the ring in *)
(* order, at least as far apart as their slots (Spread).                   *)
(***************************************************************************)

\* The unpinned layers are First .. LayerEnd - 1.
First == LayerBegin + Cardinality(pinned)
NCold == LayerEnd - First

Waiting == cpc \in {"asleep", "woken"}
Held(s) == state[s] \in {"Loading", "Ready"}

\* How far t is from s, and layer m from layer l, going upward and round.
Gap(s, t) == IF s <= t THEN t - s ELSE t - s + NBuffers
Way(l, m) == IF l <= m THEN m - l ELSE m - l + NCold

\* The pinned layers are the node's first ones.
PinnedRun == pinned = LayerBegin .. First - 1 /\ First \in LayerBegin .. LayerEnd

\* The layer a pass loads after l, and the one it streams next.
After(l) == IF l + 1 = LayerEnd THEN LayerBegin ELSE l + 1
Expected == IF at < First THEN First ELSE at

PassAt ==
  /\ at \in Owned
  /\ cpc = "idle" => at = LayerBegin
  /\ cpc \in {"using", "asleep", "woken", "reading"} => at = After(want)

Labels ==
  \A s \in Slots :
    /\ layer[s] # NoLayer => layer[s] \in First .. LayerEnd - 1
    /\ state[s] = "Empty" <=> layer[s] = NoLayer

\* What the buffers hold for the caller: the streamed layer it computes, the
\* next one behind it, and while it waits the layer before.
Consumer ==
  /\ current \in Slots => state[current] = "Ready"
  /\ cpc = "using" /\ First <= want =>
       /\ current \in Slots
       /\ layer[current] = want
       /\ layer[OtherSlot(current)] = NextLayer(want)
  /\ cpc = "using" /\ want < First => current = NoSlot
  /\ Waiting /\ First < want => current \in Slots /\ layer[current] = want - 1

PassInv == PinnedRun /\ PassAt /\ (Ring => Labels /\ Consumer)

\* One read at a time, and the only job there is asks for it.
OneRead ==
  /\ \A s, t \in Slots : state[s] = "Loading" /\ state[t] = "Loading" => s = t
  /\ \A i \in 1 .. Len(jobs) : jobs[i].ticket = ticket[jobs[i].slot]
  /\ Working => wjob.ticket = ticket[wjob.slot]

\* It reads the layer the caller waits for, or the one the pass streams next.
ReadWanted ==
  \A s \in Slots : state[s] = "Loading" =>
    /\ cpc # "idle"
    /\ Waiting => s = await
    /\ cpc = "using" => s = NCold \/ layer[s] = Expected

Calm == OneRead /\ ReadWanted

\* A buffer for every cold layer: each has a slot of its own, filled in order,
\* and only the slot after them may hold the first layer a second time.
Layout ==
  /\ \A s \in Slots : layer[s] # NoLayer =>
       \/ s < NCold /\ layer[s] = First + s
       \/ /\ s = NCold
          /\ layer[s] = First
          /\ \A t \in Slots : t < s => state[t] = "Ready"
  /\ current \in Slots => current < NCold /\ \A t \in Slots : t <= current => state[t] = "Ready"
  /\ Waiting => await = want - First

\* Fewer buffers than cold layers: going round the ring, the layers held run at
\* least as far apart as their slots.
Spread ==
  \A s, t \in Slots : s # t /\ Held(s) /\ Held(t) => Gap(s, t) <= Way(layer[s], layer[t])

\* Without pinned layers the slots behind the current one still hold the layers
\* the pass has just streamed.
Trail ==
  /\ current \in Slots =>
       \A s \in Slots :
         Gap(s, current) <= NBuffers - 2 /\ Gap(s, current) <= layer[current] - First =>
           state[s] = "Ready" /\ layer[s] = layer[current] - Gap(s, current)
  /\ current = NoSlot => \A s \in Slots : Held(s) => Waiting /\ s = await

Rotation == Spread /\ (pinned = {} => Trail)

RingOrder ==
  Regular /\ Ring =>
    /\ Calm
    /\ NCold <= NBuffers => Layout
    /\ NBuffers < NCold => Rotation

FInv == IInv /\ PassInv /\ RingOrder

-----------------------------------------------------------------------------
(* The order of the ring and of the pass.                                  *)

\* Taking a remainder once round.
LEMMA OnceRound ==
  ASSUME NEW d \in Nat \ {0}, NEW x \in 0 .. d - 1
  PROVE  x % d = x /\ (d + x) % d = x
OBVIOUS

\* Among integers, what is least is unique.
LEMMA ChooseLeast ==
  ASSUME NEW T \in SUBSET Int, NEW m \in T, \A j \in T : m <= j
  PROVE  (CHOOSE i \in T : \A j \in T : i <= j) = m
<1>1. \A i \in T : (\A j \in T : i <= j) => i = m
  OBVIOUS
<1> QED BY <1>1

\* other_slot goes round the ring.
LEMMA OtherSlotIs ==
  ASSUME NEW s \in Slots, NBuffers > 1
  PROVE  OtherSlot(s) = IF s + 1 = NBuffers THEN 0 ELSE s + 1
<1> USE ConfigAssumption DEF Slots, OtherSlot
<1>1. CASE s + 1 < NBuffers
  <2>1. (s + 1) % NBuffers = s + 1
    BY <1>1
  <2> QED BY <1>1, <2>1
<1>2. CASE s + 1 = NBuffers
  <2>1. NBuffers % NBuffers = 0
    OBVIOUS
  <2> QED BY <1>2, <2>1
<1> QED BY <1>1, <1>2

\* The pinned layers, and how many remain cold.
LEMMA PinnedFacts ==
  ASSUME PinnedRun
  PROVE  /\ First \in Nat /\ LayerBegin <= First /\ First <= LayerEnd
         /\ NCold \in Nat /\ NCold = LayerEnd - First
         /\ \A l \in Owned : l \in pinned <=> l < First
         /\ pinned = {} <=> First = LayerBegin
         /\ ColdLayers = First .. LayerEnd - 1
         /\ Cardinality(ColdLayers) = NCold
<1> DEFINE F == First
<1>1. pinned = LayerBegin .. F - 1 /\ F \in LayerBegin .. LayerEnd
  BY DEF PinnedRun
<1>2. NCold = LayerEnd - F
  BY DEF NCold
<1> HIDE DEF F
<1>3. /\ F \in Nat /\ LayerBegin <= F /\ F <= LayerEnd
      /\ NCold \in Nat
      /\ \A l \in Owned : l \in pinned <=> l < F
      /\ pinned = {} <=> F = LayerBegin
      /\ Owned \ pinned = F .. LayerEnd - 1
  BY <1>1, <1>2, ConfigAssumption DEF Owned
<1>4. Cardinality(F .. LayerEnd - 1) = IF F > LayerEnd - 1 THEN 0 ELSE (LayerEnd - 1) - F + 1
  BY <1>3, ConfigAssumption, FS_Interval
<1>5. Cardinality(F .. LayerEnd - 1) = NCold
  BY <1>2, <1>3, <1>4, ConfigAssumption
<1> QED BY <1>2, <1>3, <1>5 DEF ColdLayers, F

\* The prefetch policy goes round the cold layers.
LEMMA NextLayerIs ==
  ASSUME PinnedRun, NEW l \in First .. LayerEnd - 1
  PROVE  NextLayer(l) = IF l + 1 = LayerEnd THEN First ELSE l + 1
<1> DEFINE hops == {i \in 1 .. Span : Ahead(l, i) \notin pinned}
           F    == First
<1>1. /\ F \in Nat /\ LayerBegin <= F /\ F <= l /\ l < LayerEnd /\ l \in Nat
      /\ \A k \in Owned : k \in pinned <=> k < F
  BY PinnedFacts, ConfigAssumption
<1>2. Span \in Nat \ {0} /\ Span = LayerEnd - LayerBegin
  BY ConfigAssumption DEF Span
<1> HIDE DEF F
<1>3. ASSUME NEW m \in hops, \A j \in hops : m <= j
      PROVE  NextLayer(l) = Ahead(l, m)
  <2>1. hops \in SUBSET Int /\ hops # {}
    BY <1>2
  <2>2. (CHOOSE i \in hops : \A j \in hops : i <= j) = m
    BY <1>3, <2>1, ChooseLeast
  <2> QED BY <2>1, <2>2 DEF NextLayer
<1>4. CASE l + 1 < LayerEnd
  <2>1. (l - LayerBegin + 1) % Span = l - LayerBegin + 1
    BY <1>1, <1>2, <1>4, OnceRound, ConfigAssumption
  <2>2. Ahead(l, 1) = l + 1
    BY <1>1, <2>1, ConfigAssumption DEF Ahead
  <2>3. 1 \in hops
    BY <1>1, <1>2, <1>4, <2>2, ConfigAssumption DEF Owned
  <2>4. \A j \in hops : 1 <= j
    BY <1>2
  <2>5. NextLayer(l) = l + 1
    BY <1>3, <2>2, <2>3, <2>4
  <2> QED BY <1>1, <1>4, <2>5, ConfigAssumption
<1>5. CASE l + 1 = LayerEnd
  <2>1. ASSUME NEW i \in 1 .. Span
        PROVE  Ahead(l, i) = LayerBegin + (i - 1) /\ (i \in hops <=> i > F - LayerBegin)
    <3>1. l - LayerBegin + i = Span + (i - 1) /\ i - 1 \in 0 .. Span - 1
      BY <1>1, <1>2, <1>5, ConfigAssumption
    <3>2. (Span + (i - 1)) % Span = i - 1
      BY <1>2, <3>1, OnceRound
    <3>3. Ahead(l, i) = LayerBegin + (i - 1)
      BY <3>1, <3>2 DEF Ahead
    <3>4. LayerBegin + (i - 1) \in Owned
      BY <1>2, ConfigAssumption DEF Owned
    <3> QED BY <1>1, <3>3, <3>4, ConfigAssumption
  <2>2. F - LayerBegin + 1 \in 1 .. Span
    BY <1>1, <1>2, <1>5, ConfigAssumption
  <2>3. F - LayerBegin + 1 \in hops
    BY <1>1, <2>1, <2>2, ConfigAssumption
  <2>4. \A j \in hops : j \in 1 .. Span
    OBVIOUS
  <2> HIDE DEF hops
  <2>5. \A j \in hops : F - LayerBegin + 1 <= j
    BY <1>1, <2>1, <2>4, ConfigAssumption
  <2>6. NextLayer(l) = Ahead(l, F - LayerBegin + 1)
    BY <1>3, <2>3, <2>5
  <2>7. Ahead(l, F - LayerBegin + 1) = F
    BY <1>1, <2>1, <2>2, ConfigAssumption
  <2> QED BY <1>5, <2>6, <2>7 DEF F
<1> QED BY <1>1, <1>4, <1>5, ConfigAssumption DEF F

\* It names what the pass streams next.
LEMMA PolicyFollowsPass ==
  ASSUME PinnedRun, NEW l \in First .. LayerEnd - 1
  PROVE  NextStreamed(l) = NextLayer(l)
<1> DEFINE F == First
<1>1. /\ F \in Nat /\ F <= l /\ l < LayerEnd /\ l \in Nat
      /\ ColdLayers = F .. LayerEnd - 1
      /\ NextLayer(l) = IF l + 1 = LayerEnd THEN F ELSE l + 1
  BY PinnedFacts, NextLayerIs, ConfigAssumption
<1> HIDE DEF F
<1>2. CASE l + 1 = LayerEnd
  <2>1. Above(l) = {}
    BY <1>1, <1>2, ConfigAssumption DEF Above
  <2>2. ColdLayers \in SUBSET Int /\ F \in ColdLayers /\ \A j \in ColdLayers : F <= j
    BY <1>1, ConfigAssumption
  <2>3. (CHOOSE k \in ColdLayers : \A j \in ColdLayers : k <= j) = F
    BY <2>2, ChooseLeast
  <2> QED BY <1>1, <1>2, <2>1, <2>3 DEF NextStreamed
<1>3. CASE l + 1 # LayerEnd
  <2>1. Above(l) \in SUBSET Int /\ l + 1 \in Above(l) /\ \A j \in Above(l) : l + 1 <= j
    BY <1>1, <1>3, ConfigAssumption DEF Above
  <2>2. (CHOOSE k \in Above(l) : \A j \in Above(l) : k <= j) = l + 1
    BY <2>1, ChooseLeast
  <2> QED BY <1>1, <1>3, <2>1, <2>2 DEF NextStreamed
<1> QED BY <1>2, <1>3

-----------------------------------------------------------------------------
(* The pass and the buffers the caller sees.                               *)

\* Where the pass stands follows from the last layer asked for.
LEMMA PassAtKeeps ==
  ASSUME PassAt, [PassNext]_passVars
  PROVE  PassAt'
<1> USE DEF PassAt
<1>1. at \in Owned /\ LayerBegin \in Owned /\ After(at) \in Owned
  BY ConfigAssumption DEF Owned, After
<1>2. CASE PassLoad
  <2>1. at' = After(at) /\ want' = at
    BY <1>2 DEF PassLoad, After, Load, LoadPinned, LoadHit, LoadInFlight, LoadMiss,
                LoadSyncHit, LoadSyncMiss, Begin
  <2>2. cpc' # "idle"
    BY <1>2 DEF PassLoad, Load, LoadPinned, LoadHit, LoadInFlight, LoadMiss,
                LoadSyncHit, LoadSyncMiss, ActivateAndPrefetch
  <2>3. After(want)' = After(want')
    BY DEF After
  <2> QED BY <1>1, <2>1, <2>2, <2>3
<1>3. CASE PassAbandoned
  <2>1. cpc' = "idle" /\ at' = LayerBegin
    BY <1>3 DEF PassAbandoned, WaitFailed, SyncReadFails
  <2> QED BY <1>1, <2>1
<1>4. CASE PassWaits
  <2>1. at' = at /\ want' = want
    BY <1>4 DEF PassWaits, WaitAgain, WaitDone, SyncRead, SyncDone, DestroyBegin,
                DestroyNotify, DestroyJoin, WorkerStep, WorkerTake, WorkerSleep, WorkerExit,
                WorkerRead, WorkerReadFails, WorkerFilled, WorkerMark, WorkerNotify,
                SpuriousCallerWakeup, SpuriousWorkerWakeup, Gone, vars
  <2>2. \/ cpc' = cpc
        \/ cpc \in {"asleep", "woken", "reading"} /\ cpc' \in {"asleep", "woken", "using"}
        \/ cpc' \in {"stopping", "joining", "gone"}
    BY <1>4 DEF PassWaits, WaitAgain, WaitDone, SyncRead, SyncDone, DestroyBegin,
                DestroyNotify, DestroyJoin, WorkerStep, WorkerTake, WorkerSleep, WorkerExit,
                WorkerRead, WorkerReadFails, WorkerFilled, WorkerMark, WorkerNotify,
                SpuriousCallerWakeup, SpuriousWorkerWakeup, Gone, vars, ActivateAndPrefetch
  <2>3. After(want)' = After(want')
    BY DEF After
  <2> QED BY <1>1, <2>1, <2>2, <2>3
<1>5. CASE UNCHANGED passVars
  BY <1>5 DEF passVars, vars, After
<1> QED BY <1>2, <1>3, <1>4, <1>5 DEF PassNext

\* The types of the ring's variables.
LEMMA RingTypes ==
  ASSUME TypeOK
  PROVE  /\ layer \in [Slots -> Owned \cup {NoLayer}]
         /\ state \in [Slots -> {"Empty", "Loading", "Ready", "Failed"}]
         /\ ticket \in [Slots -> Nat]
         /\ current \in Slots \cup {NoSlot}
BY DEF TypeOK

\* A streamed layer about to be asked for: the one before it is current, and
\* the next slot is labelled with it.
LEMMA AskedInOrder ==
  ASSUME IInv, PassInv, Ring, cpc \in {"idle", "using"}, First <= at
  PROVE  /\ at \in First .. LayerEnd - 1
         /\ First < at =>
              /\ cpc = "using"
              /\ current \in Slots
              /\ state[current] = "Ready"
              /\ layer[current] = at - 1
              /\ layer[OtherSlot(current)] = at
         /\ at = First /\ cpc = "using" /\ current \in Slots =>
              /\ layer[current] = LayerEnd - 1
              /\ layer[OtherSlot(current)] = First
         /\ cpc = "idle" => at = First /\ pinned = {}
<1> DEFINE F == First
<1>1. PinnedRun /\ PassAt /\ Consumer
  BY DEF PassInv
<1>2. /\ F \in Nat /\ LayerBegin <= F /\ F <= LayerEnd
      /\ pinned = {} <=> F = LayerBegin
      /\ \A l \in F .. LayerEnd - 1 : NextLayer(l) = IF l + 1 = LayerEnd THEN F ELSE l + 1
  BY <1>1, PinnedFacts, NextLayerIs
<1>3. /\ at \in LayerBegin .. LayerEnd - 1
      /\ cpc = "idle" => at = LayerBegin
      /\ cpc = "using" => at = IF want + 1 = LayerEnd THEN LayerBegin ELSE want + 1
  BY <1>1 DEF PassAt, Owned, After
<1>4. /\ current \in Slots => state[current] = "Ready"
      /\ cpc = "using" /\ F <= want =>
           /\ current \in Slots
           /\ layer[current] = want
           /\ layer[OtherSlot(current)] = NextLayer(want)
      /\ cpc = "using" /\ want < F => current = NoSlot
  BY <1>1 DEF Consumer
<1>5. F <= at /\ NoSlot \notin Slots
  BY ConfigAssumption DEF NoSlot, Slots
<1>6. cpc = "using" => want \in LayerBegin .. LayerEnd - 1
  BY DEF IInv, CallerView, Owned
<1> HIDE DEF F
<1>7. at \in F .. LayerEnd - 1 /\ (cpc = "idle" => at = F /\ pinned = {})
  BY <1>2, <1>3, <1>5, ConfigAssumption
<1>8. ASSUME F < at
      PROVE  cpc = "using" /\ want = at - 1 /\ F <= want /\ want + 1 # LayerEnd
  BY <1>2, <1>3, <1>5, <1>6, <1>7, <1>8, ConfigAssumption
<1>9. ASSUME at = F, cpc = "using", current \in Slots
      PROVE  want = LayerEnd - 1 /\ F <= want
  BY <1>2, <1>3, <1>4, <1>5, <1>6, <1>9, ConfigAssumption
<1>10. ASSUME F < at
       PROVE  /\ cpc = "using"
              /\ current \in Slots
              /\ state[current] = "Ready"
              /\ layer[current] = at - 1
              /\ layer[OtherSlot(current)] = at
  <2>1. want \in F .. LayerEnd - 1 /\ at = want + 1
    BY <1>2, <1>3, <1>6, <1>8, <1>10, ConfigAssumption
  <2> QED BY <1>2, <1>4, <1>8, <1>10, <2>1
<1>11. ASSUME at = F, cpc = "using", current \in Slots
       PROVE  layer[current] = LayerEnd - 1 /\ layer[OtherSlot(current)] = F
  <2>1. want \in F .. LayerEnd - 1 /\ want + 1 = LayerEnd
    BY <1>2, <1>6, <1>9, <1>11, ConfigAssumption
  <2> QED BY <1>2, <1>4, <1>9, <1>11, <2>1
<1> QED BY <1>7, <1>10, <1>11 DEF F

\* The slot a claim labels, and the others.
LEMMA ClaimEffect ==
  ASSUME TypeOK, NEW s \in Slots, NEW l \in Owned, NEW front, Claim(s, l, front)
  PROVE  /\ layer'[s] = l /\ state'[s] = "Loading" /\ ticket'[s] = ticket[s] + 1
         /\ \A t \in Slots : t # s => /\ layer'[t] = layer[t]
                                      /\ state'[t] = state[t]
                                      /\ ticket'[t] = ticket[t]
BY RingTypes DEF Claim

\* The pinned layers never change.
LEMMA SamePlan ==
  ASSUME pinned' = pinned
  PROVE  /\ First' = First /\ NCold' = NCold
         /\ \A l : NextLayer(l)' = NextLayer(l)
         /\ PinnedRun <=> PinnedRun'
         /\ Regular <=> Regular'
BY DEF First, NCold, NextLayer, PinnedRun, Regular, ColdLayers

\* Serving a streamed layer shows it and labels the next slot.
LEMMA ServedView ==
  ASSUME IInv, PassInv, Ring, NEW s \in Slots, NEW l \in First .. LayerEnd - 1,
         state[s] = "Ready", layer[s] = l, ActivateAndPrefetch(s, l),
         want' = l, pinned' = pinned
  PROVE  (Labels /\ Consumer)'
<1>1. PinnedRun /\ Labels /\ Consumer /\ TypeOK
  BY DEF PassInv, IInv
<1>2. OtherSlot(s) \in Slots /\ OtherSlot(s) # s
  BY OtherSlotProps DEF Ring
<1>3. /\ First' = First /\ \A k : NextLayer(k)' = NextLayer(k)
      /\ First \in Nat /\ l \in Owned
      /\ First <= l
  BY <1>1, SamePlan, PinnedFacts, ConfigAssumption DEF Owned
<1>4. NextLayer(l) \in First .. LayerEnd - 1 /\ NextLayer(l) \in Owned /\ NextLayer(l) # NoLayer
  BY <1>1, NextLayerIs, PinnedFacts, ConfigAssumption, SMTT(30) DEF Owned, NoLayer
<1>5. current' = s /\ cpc' = "using"
  BY DEF ActivateAndPrefetch
<1>6. CASE layer[OtherSlot(s)] # NextLayer(l)
  <2>1. Claim(OtherSlot(s), NextLayer(l), FALSE)
    BY <1>4, <1>6 DEF ActivateAndPrefetch
  <2>2. /\ layer'[OtherSlot(s)] = NextLayer(l) /\ state'[OtherSlot(s)] = "Loading"
        /\ \A t \in Slots : t # OtherSlot(s) => layer'[t] = layer[t] /\ state'[t] = state[t]
    BY <1>1, <1>2, <1>4, <2>1, ClaimEffect
  <2>3. Labels'
    BY <1>1, <1>2, <1>3, <1>4, <2>2 DEF Labels
  <2>4. Consumer'
    BY <1>2, <1>3, <1>5, <2>2, ConfigAssumption DEF Consumer, Waiting, OtherSlot
  <2> QED BY <2>3, <2>4
<1>7. CASE layer[OtherSlot(s)] = NextLayer(l)
  <2>1. UNCHANGED <<layer, state>>
    BY <1>4, <1>7 DEF ActivateAndPrefetch, ringVars
  <2>2. Labels'
    BY <1>1, <1>3, <2>1 DEF Labels
  <2>3. Consumer'
    BY <1>3, <1>5, <1>7, <2>1, ConfigAssumption DEF Consumer, Waiting, OtherSlot
  <2> QED BY <2>2, <2>3
<1> QED BY <1>6, <1>7

\* The victim of a miss is not the current slot.
LEMMA VictimIs ==
  ASSUME TypeOK, NBuffers > 1
  PROVE  /\ Victim \in Slots
         /\ current \in Slots => Victim = OtherSlot(current) /\ Victim # current
         /\ current = NoSlot => Victim = 0
<1>1. 0 \in Slots /\ NoSlot \notin Slots /\ 0 # NoSlot
  BY ConfigAssumption DEF Slots, NoSlot
<1>2. Victim \in Slots
  BY VictimType
<1>3. CASE current \in Slots
  <2>1. OtherSlot(current) # current /\ current # NoSlot
    BY <1>1, <1>3, OtherSlotProps
  <2> QED BY <1>1, <1>2, <1>3, <2>1 DEF Victim
<1>4. CASE current = NoSlot
  BY <1>1, <1>2, <1>4 DEF Victim
<1> QED BY <1>2, <1>3, <1>4, RingTypes

\* A miss labels its victim and leaves the current slot alone.
LEMMA MissView ==
  ASSUME IInv, PassInv, Ring, LoadMiss(at)
  PROVE  (Labels /\ Consumer)'
<1> USE DEF LoadMiss, Begin, OnRing
<1>1. PinnedRun /\ PassAt /\ Labels /\ Consumer /\ TypeOK /\ NBuffers > 1
  BY DEF PassInv, IInv, Ring
<1>2. pinned' = pinned /\ want' = at /\ current' = current /\ Claim(Victim, at, TRUE)
  BY DEF cfgVars
<1>3. /\ First' = First /\ First \in Nat /\ at \in Owned /\ First <= at
      /\ at \in First .. LayerEnd - 1 /\ at # NoLayer
  BY <1>1, <1>2, SamePlan, PinnedFacts, ConfigAssumption DEF PassAt, Owned, NoLayer
<1>4. Victim \in Slots /\ (current \in Slots => Victim # current)
  BY <1>1, VictimIs
<1>5. /\ layer'[Victim] = at /\ state'[Victim] = "Loading"
      /\ \A t \in Slots : t # Victim => layer'[t] = layer[t] /\ state'[t] = state[t]
  BY <1>1, <1>2, <1>3, <1>4, ClaimEffect
<1>6. Labels'
  BY <1>1, <1>3, <1>4, <1>5 DEF Labels
<1>7. First < at => current \in Slots /\ layer[current] = at - 1
  BY <1>3, AskedInOrder
<1>8. Consumer'
  BY <1>1, <1>2, <1>3, <1>4, <1>5, <1>7 DEF Consumer, Waiting
<1> QED BY <1>6, <1>8

\* So does a call for a layer on its way.
LEMMA InFlightView ==
  ASSUME IInv, PassInv, Ring, LoadInFlight(at)
  PROVE  (Labels /\ Consumer)'
<1> USE DEF LoadInFlight, Begin, OnRing, ringVars
<1>1. PinnedRun /\ PassAt /\ Labels /\ Consumer
  BY DEF PassInv
<1>2. pinned' = pinned /\ want' = at /\ UNCHANGED <<layer, state, current>>
  BY DEF cfgVars
<1>3. First' = First /\ First <= at
  BY <1>1, <1>2, SamePlan, PinnedFacts, ConfigAssumption DEF PassAt, Owned
<1>4. Labels'
  BY <1>1, <1>2, <1>3 DEF Labels
<1>5. First < at => current \in Slots /\ layer[current] = at - 1
  BY <1>3, AskedInOrder
<1>6. Consumer'
  BY <1>1, <1>2, <1>3, <1>5 DEF Consumer, Waiting
<1> QED BY <1>4, <1>6

\* A pinned layer takes the ring out of the caller's sight.
LEMMA PinnedView ==
  ASSUME IInv, PassInv, Ring, LoadPinned(at)
  PROVE  (Labels /\ Consumer)'
<1> USE DEF LoadPinned, Begin, ringVars
<1>1. PinnedRun /\ PassAt /\ Labels /\ Consumer
  BY DEF PassInv
<1>2. pinned' = pinned /\ want' = at /\ UNCHANGED <<layer, state>> /\ current' = NoSlot
  BY DEF cfgVars
<1>3. First' = First /\ First \in Nat /\ at < First /\ at \in Int /\ NoSlot \notin Slots
  BY <1>1, <1>2, SamePlan, PinnedFacts, ConfigAssumption DEF PassAt, Owned, Slots, NoSlot
<1>4. Labels'
  BY <1>1, <1>2, <1>3 DEF Labels
<1>5. Consumer'
  BY <1>2, <1>3 DEF Consumer, Waiting
<1> QED BY <1>4, <1>5

\* A failed read frees a slot that is not the current one.
LEMMA FailedView ==
  ASSUME IInv, PassInv, Ring, WaitFailed
  PROVE  (Labels /\ Consumer)'
<1> USE DEF WaitFailed
<1>1. Labels /\ Consumer /\ TypeOK /\ await \in Slots
  BY DEF PassInv, IInv, CallerView
<1>2. First' = First /\ current' = current /\ cpc' = "idle"
  BY SamePlan DEF cfgVars
<1>3. /\ layer'[await] = NoLayer /\ state'[await] = "Empty"
      /\ \A t \in Slots : t # await => layer'[t] = layer[t] /\ state'[t] = state[t]
  BY <1>1, RingTypes
<1>4. Labels'
  BY <1>1, <1>2, <1>3 DEF Labels
<1>5. Consumer'
  BY <1>1, <1>2, <1>3 DEF Consumer, Waiting
<1> QED BY <1>4, <1>5

\* The worker marks a slot that was loading.
LEMMA MarkView ==
  ASSUME IInv, PassInv, Ring, WorkerMark
  PROVE  (Labels /\ Consumer)'
<1> USE DEF WorkerMark
<1>1. Labels /\ Consumer /\ TypeOK /\ wjob.slot \in Slots /\ state[wjob.slot] = "Loading"
  BY DEF PassInv, IInv, RingInv, WorkerOwns, Working, JobRecord
<1>2. /\ First' = First /\ \A l : NextLayer(l)' = NextLayer(l)
      /\ UNCHANGED <<layer, current, cpc, want>>
  BY SamePlan DEF cfgVars
<1>3. /\ state'[wjob.slot] # "Empty"
      /\ \A t \in Slots : t # wjob.slot => state'[t] = state[t]
  BY <1>1, RingTypes
<1>4. Labels'
  BY <1>1, <1>2, <1>3 DEF Labels
<1>5. Consumer'
  BY <1>1, <1>2, <1>3 DEF Consumer, Waiting, OtherSlot
<1> QED BY <1>4, <1>5

\* Steps that touch neither the ring nor what the caller wants of it.
LEMMA QuietView ==
  ASSUME Labels, Consumer,
         UNCHANGED <<pinned, layer, state, current, want>>,
         cpc' = "using" => cpc = "using",
         Waiting' => Waiting
  PROVE  (Labels /\ Consumer)'
<1>1. First' = First /\ \A l : NextLayer(l)' = NextLayer(l)
  BY SamePlan
<1>2. Labels'
  BY <1>1 DEF Labels
<1>3. Consumer'
  BY <1>1 DEF Consumer, OtherSlot
<1> QED BY <1>2, <1>3

\* Every step of a pass is one of the loader's.
LEMMA PassStepIsStep ==
  ASSUME PassAt, [PassNext]_passVars
  PROVE  [Next]_vars
BY DEF PassNext, PassLoad, PassAbandoned, PassWaits, passVars, PassAt, Next, Internal,
       CallerStep, Gone

\* What a call that finds its layer, or a wait that ends well, serves.
LEMMA HitServes ==
  ASSUME IInv, PassInv, Ring, LoadHit(at)
  PROVE  /\ FirstHolding(at) \in Slots /\ at \in First .. LayerEnd - 1
         /\ state[FirstHolding(at)] = "Ready" /\ layer[FirstHolding(at)] = at
         /\ ActivateAndPrefetch(FirstHolding(at), at)
         /\ want' = at /\ pinned' = pinned
<1>1. PinnedRun /\ PassAt
  BY DEF PassInv
<1>2. FirstHolding(at) \in Holding(at)
  BY FirstHoldingProps DEF LoadHit
<1>3. at \in First .. LayerEnd - 1
  BY <1>1, PinnedFacts, ConfigAssumption DEF LoadHit, OnRing, PassAt, Owned
<1> QED BY <1>2, <1>3 DEF LoadHit, Begin, Holding, cfgVars

LEMMA WaitServes ==
  ASSUME IInv, PassInv, Ring, WaitDone
  PROVE  /\ await \in Slots /\ want \in First .. LayerEnd - 1
         /\ state[await] = "Ready" /\ layer[await] = want
         /\ ActivateAndPrefetch(await, want)
         /\ want' = want /\ pinned' = pinned
<1>1. Labels /\ await \in Slots /\ layer[await] = want /\ want \in Owned
  BY DEF PassInv, IInv, CallerView, WaitDone
<1>2. want # NoLayer
  BY <1>1, ConfigAssumption DEF Owned, NoLayer
<1> QED BY <1>1, <1>2 DEF Labels, WaitDone, cfgVars

\* A pass keeps its place, the labels and the caller's view.
LEMMA PassKeeps ==
  ASSUME IInv, PassInv, [PassNext]_passVars
  PROVE  PassInv'
<1>1. PassAt'
  BY PassAtKeeps DEF PassInv
<1>2. async' = async /\ pinned' = pinned
  BY DEF PassNext, PassLoad, PassAbandoned, PassWaits, passVars, vars, Load, LoadPinned,
         LoadHit, LoadInFlight, LoadMiss, LoadSyncHit, LoadSyncMiss, Begin, WaitAgain,
         WaitDone, WaitFailed, SyncRead, SyncReadFails, SyncDone, DestroyBegin,
         DestroyNotify, DestroyJoin, WorkerStep, WorkerTake, WorkerSleep, WorkerExit,
         WorkerRead, WorkerReadFails, WorkerFilled, WorkerMark, WorkerNotify,
         SpuriousCallerWakeup, SpuriousWorkerWakeup, Gone, cfgVars
<1>3. PinnedRun'
  BY <1>2, SamePlan DEF PassInv
<1>4. ASSUME Ring
      PROVE  (Labels /\ Consumer)'
  <2>1. Labels /\ Consumer /\ CallerView
    BY <1>4 DEF PassInv, IInv
  <2>2. CASE LoadPinned(at)
    BY <1>4, <2>2, PinnedView
  <2>3. CASE LoadHit(at)
    <3>1. /\ FirstHolding(at) \in Slots /\ at \in First .. LayerEnd - 1
          /\ state[FirstHolding(at)] = "Ready" /\ layer[FirstHolding(at)] = at
          /\ ActivateAndPrefetch(FirstHolding(at), at)
          /\ want' = at /\ pinned' = pinned
      BY <1>4, <2>3, HitServes
    <3> QED BY <1>4, <3>1, ServedView
  <2>4. CASE LoadInFlight(at)
    BY <1>4, <2>4, InFlightView
  <2>5. CASE LoadMiss(at)
    BY <1>4, <2>5, MissView
  <2>6. CASE WaitDone
    <3>1. /\ await \in Slots /\ want \in First .. LayerEnd - 1
          /\ state[await] = "Ready" /\ layer[await] = want
          /\ ActivateAndPrefetch(await, want)
          /\ want' = want /\ pinned' = pinned
      BY <1>4, <2>6, WaitServes
    <3> QED BY <1>4, <3>1, ServedView
  <2>7. CASE WaitFailed
    BY <1>4, <2>7, FailedView
  <2>8. CASE WorkerMark
    BY <1>4, <2>8, MarkView
  <2>9. CASE \/ WaitAgain \/ SpuriousCallerWakeup \/ DestroyBegin \/ DestroyNotify
             \/ DestroyJoin \/ WorkerTake \/ WorkerSleep \/ WorkerExit \/ WorkerRead
             \/ WorkerReadFails \/ WorkerFilled \/ WorkerNotify \/ SpuriousWorkerWakeup
             \/ Gone \/ UNCHANGED passVars
    <3>1. /\ UNCHANGED <<pinned, layer, state, current, want>>
          /\ cpc' = "using" => cpc = "using"
          /\ Waiting' => Waiting
      BY <2>9 DEF WaitAgain, SpuriousCallerWakeup, DestroyBegin, DestroyNotify, DestroyJoin,
                  WorkerTake, WorkerSleep, WorkerExit, WorkerRead, WorkerReadFails,
                  WorkerFilled, WorkerNotify, SpuriousWorkerWakeup, Gone, passVars, vars,
                  cfgVars, ringVars, Waiting
    <3> QED BY <2>1, <3>1, QuietView
  <2>10. ~LoadSyncHit(at) /\ ~LoadSyncMiss(at) /\ ~SyncRead /\ ~SyncReadFails /\ ~SyncDone
    BY <1>4, <2>1 DEF LoadSyncHit, LoadSyncMiss, OnOneBuffer, SyncRead, SyncReadFails,
                      SyncDone, CallerView, Ring
  <2> QED
    BY <2>2, <2>3, <2>4, <2>5, <2>6, <2>7, <2>8, <2>9, <2>10
       DEF PassNext, PassLoad, PassAbandoned, PassWaits, Load, WorkerStep
<1> QED BY <1>1, <1>2, <1>3, <1>4 DEF PassInv, Ring

\* The pass starts at the first layer with an empty ring.
LEMMA PassStarts == PassInit => PassInv
<1> SUFFICES ASSUME PassInit PROVE PassInv
  OBVIOUS
<1> USE DEF PassInit, Init
<1>1. PICK n \in LayerBegin .. LayerEnd : pinned = LayerBegin .. n - 1
  OBVIOUS
<1>2. Cardinality(LayerBegin .. n - 1) = IF LayerBegin > n - 1 THEN 0 ELSE (n - 1) - LayerBegin + 1
  BY ConfigAssumption, FS_Interval
<1>3. First = n
  BY <1>1, <1>2, ConfigAssumption DEF First
<1>4. PinnedRun
  BY <1>1, <1>3 DEF PinnedRun
<1>5. PassAt
  BY ConfigAssumption DEF PassAt, Owned
<1>6. Labels /\ Consumer
  BY ConfigAssumption DEF Labels, Consumer, Waiting, Slots, NoSlot, NoLayer
<1> QED BY <1>4, <1>5, <1>6 DEF PassInv

\* The loader's invariant and the pass's hold in every reachable state.
THEOREM PassInvariance == PassSpec => [](IInv /\ PassInv)
<1>1. PassInit => IInv /\ PassInv
  BY InitIInv, PassStarts DEF PassInit
<1>2. IInv /\ PassInv /\ [PassNext]_passVars => (IInv /\ PassInv)'
  <2> SUFFICES ASSUME IInv, PassInv, [PassNext]_passVars
               PROVE  IInv' /\ PassInv'
    OBVIOUS
  <2>1. [Next]_vars
    BY PassStepIsStep DEF PassInv
  <2>2. IInv'
    BY <2>1, LoadKeeps, CallerKeeps, WorkerKeeps, StutterKeeps DEF Next, Internal, Gone
  <2> QED BY <2>2, PassKeeps
<1> QED BY <1>1, <1>2, PTL DEF PassSpec

\* While a streamed layer is computed, the one the pass streams next is in
\* another buffer or being fetched into one, unless that very read has failed
\* (loader.cpp:594-603): the overlap of I/O and compute is never lost.
THEOREM NextAlwaysOnItsWay == PassSpec => []NextIsOnItsWay
<1>1. IInv /\ PassInv => NextIsOnItsWay
  <2> SUFFICES ASSUME IInv, PassInv, cpc = "using", OnRing(want)
               PROVE  \E s \in Slots \ {current} :
                        /\ layer[s] = NextStreamed(want)
                        /\ state[s] \in {"Loading", "Ready", "Failed"}
    BY DEF NextIsOnItsWay
  <2>1. Ring /\ PinnedRun /\ Labels /\ Consumer /\ TypeOK /\ want \in Owned
    BY DEF OnRing, Ring, PassInv, IInv, CallerView
  <2>2. want \in First .. LayerEnd - 1
    BY <2>1, PinnedFacts, ConfigAssumption DEF OnRing, Owned
  <2>3. /\ NextStreamed(want) = NextLayer(want)
        /\ NextLayer(want) \in First .. LayerEnd - 1
        /\ NextLayer(want) # NoLayer
    BY <2>1, <2>2, PolicyFollowsPass, NextLayerIs, PinnedFacts, ConfigAssumption DEF NoLayer
  <2>4. current \in Slots /\ layer[OtherSlot(current)] = NextLayer(want)
    BY <2>1, <2>2, PinnedFacts, ConfigAssumption DEF Consumer
  <2>5. OtherSlot(current) \in Slots \ {current}
    BY <2>1, <2>4, OtherSlotProps DEF Ring
  <2>6. state[OtherSlot(current)] # "Empty"
    BY <2>1, <2>3, <2>4, <2>5 DEF Labels
  <2> QED BY <2>1, <2>3, <2>4, <2>5, <2>6, RingTypes
<1> QED BY <1>1, PassInvariance, PTL

\* What is proved of the loader holds under the pass.
THEOREM PassIsACaller == PassSpec => Safety
<1>1. PassInit => Init
  BY DEF PassInit
<1>2. PassInv /\ [PassNext]_passVars => [Next]_vars
  BY PassStepIsStep DEF PassInv
<1> QED BY <1>1, <1>2, PassInvariance, PTL DEF PassSpec, Safety

-----------------------------------------------------------------------------
(* One read at a time.                                                     *)

NoRead == \A s \in Slots : state[s] # "Loading"

\* What the queue holds, each job being the current claim of a loading slot.
LEMMA QueuedAreLoading ==
  ASSUME IInv, OneRead
  PROVE  /\ jobs \in Seq(JobRecord) /\ Len(jobs) \in Nat
         /\ \A i \in 1 .. Len(jobs) :
              jobs[i].slot \in Slots /\ state[jobs[i].slot] = "Loading"
         /\ Working => wjob.slot \in Slots /\ state[wjob.slot] = "Loading"
<1>1. TypeOK /\ JobsLive /\ WorkerOwns
  BY DEF IInv, RingInv
<1>2. jobs \in Seq(JobRecord) /\ Len(jobs) \in Nat
  BY <1>1, LenProperties DEF TypeOK
<1>3. \A i \in 1 .. Len(jobs) : jobs[i] \in JobRecord
  BY <1>2, ElementOfSeq
<1> QED BY <1>1, <1>2, <1>3 DEF JobsLive, WorkerOwns, OneRead, JobRecord

\* With nothing being read, nothing is queued and the worker is idle.
LEMMA NothingQueued ==
  ASSUME IInv, OneRead, NoRead
  PROVE  jobs = <<>> /\ ~Working
<1>1. jobs \in Seq(JobRecord) /\ Len(jobs) \in Nat /\ 1 .. Len(jobs) = {} /\ ~Working
  BY QueuedAreLoading DEF NoRead
<1>2. \A n \in Nat : 1 .. n = {} => n = 0
  OBVIOUS
<1> QED BY <1>1, <1>2, EmptySeq

\* A claim made then is the only read.
LEMMA ClaimIsOnlyRead ==
  ASSUME IInv, OneRead, NoRead, NEW s \in Slots, NEW l \in Owned, NEW front \in BOOLEAN,
         Claim(s, l, front), wjob' = wjob
  PROVE  OneRead' /\ \A t \in Slots : state'[t] = "Loading" => t = s
<1> DEFINE job == [slot |-> s, layer |-> l, ticket |-> ticket[s] + 1]
<1>1. TypeOK /\ jobs = <<>> /\ ~Working
  BY NothingQueued DEF IInv
<1>2. /\ ticket'[s] = ticket[s] + 1
      /\ \A t \in Slots : t # s => state'[t] = state[t]
  BY <1>1, ClaimEffect
<1>3. jobs' = <<job>>
  <2>1. CASE front
    BY <1>1, <2>1 DEF Claim
  <2>2. CASE ~front
    BY <1>1, <2>2 DEF Claim
  <2> QED BY <2>1, <2>2
<1>4. ~Working'
  BY <1>1 DEF Claim, NotifyWorker, Working
<1>5. job.slot = s /\ job.ticket = ticket[s] + 1
  OBVIOUS
<1> HIDE DEF job
<1>6. Len(jobs') = 1 /\ jobs'[1] = job
  BY <1>3
<1>7. \A t \in Slots : state'[t] = "Loading" => t = s
  BY <1>2 DEF NoRead
<1>8. \A i \in 1 .. Len(jobs') : jobs'[i].ticket = ticket'[jobs'[i].slot]
  BY <1>2, <1>5, <1>6
<1> QED BY <1>4, <1>7, <1>8 DEF OneRead

\* Steps that neither claim nor take a job.
LEMMA ReadsEnd ==
  ASSUME OneRead, UNCHANGED <<ticket, jobs, wjob>>, Working' => Working,
         \A s \in Slots : state'[s] = "Loading" => state[s] = "Loading"
  PROVE  OneRead'
BY DEF OneRead

\* The job taken is the one read that is asked for.
LEMMA TakeKeepsOne ==
  ASSUME IInv, OneRead, WorkerTake
  PROVE  OneRead'
<1> USE DEF WorkerTake, ringVars, workerVars
<1>1. TypeOK
  BY DEF IInv
<1>2. /\ jobs \in Seq(JobRecord) /\ Len(jobs) \in Nat \ {0}
      /\ Len(jobs') = Len(jobs) - 1
      /\ \A i \in 1 .. Len(jobs') : jobs'[i] = jobs[i + 1]
      /\ Head(jobs) = jobs[1]
  BY <1>1, HeadTailProperties, LenProperties, EmptySeq DEF TypeOK
<1>3. jobs[1].ticket = ticket[jobs[1].slot]
  BY <1>2 DEF OneRead
<1>4. wjob' = jobs[1] /\ UNCHANGED <<ticket, state>>
  BY <1>2, <1>3
<1>5. \A i \in 1 .. Len(jobs') : jobs'[i].ticket = ticket'[jobs'[i].slot]
  <2> SUFFICES ASSUME NEW i \in 1 .. Len(jobs')
               PROVE  jobs'[i].ticket = ticket'[jobs'[i].slot]
    OBVIOUS
  <2>1. i + 1 \in 1 .. Len(jobs) /\ jobs'[i] = jobs[i + 1]
    BY <1>2
  <2> QED BY <1>4, <2>1 DEF OneRead
<1> QED BY <1>3, <1>4, <1>5 DEF OneRead

\* Two queued jobs would be two reads, or one claim asked for twice.
LEMMA OneReadOneJob ==
  ASSUME IInv, OneRead
  PROVE  JobsBounded
<1>1. /\ Len(jobs) \in Nat
      /\ \A i \in 1 .. Len(jobs) : jobs[i].slot \in Slots /\ state[jobs[i].slot] = "Loading"
  BY QueuedAreLoading
<1>2. \A i, j \in 1 .. Len(jobs) : jobs[i].slot = jobs[j].slot
  BY <1>1 DEF OneRead
<1>3. \A i, j \in 1 .. Len(jobs) : jobs[i].ticket = jobs[j].ticket
  BY <1>2 DEF OneRead
<1>4. \A i, j \in 1 .. Len(jobs) : i = j
  BY <1>2, <1>3 DEF IInv, RingInv, JobsDistinct, SameClaim
<1> QED BY <1>1, <1>4 DEF JobsBounded

-----------------------------------------------------------------------------
(* Serving a streamed layer.                                               *)

\* loadLayer is about to return layer l from slot s: what it finds, and does.
Serving(s, l) ==
  /\ state[s] = "Ready" /\ layer[s] = l
  /\ First < l => current \in Slots /\ state[current] = "Ready" /\ layer[current] = l - 1
  /\ \A t \in Slots : state[t] = "Loading" => t = NCold \/ layer[t] = l
  /\ ActivateAndPrefetch(s, l)
  /\ want' = l /\ at' = After(l) /\ UNCHANGED <<pinned, wjob>>

LEMMA HitIsServing ==
  ASSUME IInv, PassInv, Ring, Calm, PassLoad, LoadHit(at)
  PROVE  /\ FirstHolding(at) \in Slots /\ at \in First .. LayerEnd - 1
         /\ Serving(FirstHolding(at), at)
<1>1. /\ FirstHolding(at) \in Slots /\ at \in First .. LayerEnd - 1
      /\ state[FirstHolding(at)] = "Ready" /\ layer[FirstHolding(at)] = at
      /\ ActivateAndPrefetch(FirstHolding(at), at)
      /\ want' = at /\ pinned' = pinned
  BY HitServes
<1>2. cpc \in {"idle", "using"} /\ wjob' = wjob
  BY DEF LoadHit, Begin
<1>3. First \in Nat /\ First <= at /\ at \in Nat
  BY <1>1, PinnedFacts, ConfigAssumption DEF PassInv
<1>4. First < at => current \in Slots /\ state[current] = "Ready" /\ layer[current] = at - 1
  BY <1>2, <1>3, AskedInOrder
<1>5. at' = After(at)
  BY DEF PassLoad, After
<1>6. Expected = at
  BY <1>3 DEF Expected
<1>7. \A t \in Slots : state[t] = "Loading" => t = NCold \/ layer[t] = at
  BY <1>2, <1>6 DEF Calm, ReadWanted
<1> QED BY <1>1, <1>2, <1>4, <1>5, <1>7 DEF Serving

LEMMA WaitIsServing ==
  ASSUME IInv, PassInv, Ring, Calm, WaitDone, at' = at
  PROVE  await \in Slots /\ want \in First .. LayerEnd - 1 /\ Serving(await, want)
<1>1. /\ await \in Slots /\ want \in First .. LayerEnd - 1
      /\ state[await] = "Ready" /\ layer[await] = want
      /\ ActivateAndPrefetch(await, want)
      /\ want' = want /\ pinned' = pinned
  BY WaitServes
<1>2. cpc = "woken" /\ wjob' = wjob
  BY DEF WaitDone
<1>3. First < want => current \in Slots /\ state[current] = "Ready" /\ layer[current] = want - 1
  BY <1>2 DEF PassInv, Consumer, Waiting
<1>4. at' = After(want)
  BY <1>2 DEF PassInv, PassAt
<1>5. \A t \in Slots : state[t] # "Loading"
  BY <1>1, <1>2 DEF Calm, ReadWanted, Waiting
<1> QED BY <1>1, <1>2, <1>3, <1>4, <1>5 DEF Serving

\* The layer after l, and the slot it goes to.
LEMMA ServingEffect ==
  ASSUME TypeOK, PinnedRun, NBuffers > 1,
         NEW s \in Slots, NEW l \in First .. LayerEnd - 1, Serving(s, l)
  PROVE  /\ NextLayer(l) = IF l + 1 = LayerEnd THEN First ELSE l + 1
         /\ OtherSlot(s) = IF s + 1 = NBuffers THEN 0 ELSE s + 1
         /\ OtherSlot(s) \in Slots
         /\ First' = First /\ NCold' = NCold
         /\ cpc' = "using" /\ current' = s /\ Expected' = NextLayer(l)
         /\ \/ /\ layer[OtherSlot(s)] # NextLayer(l)
               /\ NextLayer(l) \in Owned
               /\ Claim(OtherSlot(s), NextLayer(l), FALSE)
               /\ layer'[OtherSlot(s)] = NextLayer(l)
               /\ state'[OtherSlot(s)] = "Loading"
               /\ \A t \in Slots : t # OtherSlot(s) => /\ layer'[t] = layer[t]
                                                       /\ state'[t] = state[t]
                                                       /\ ticket'[t] = ticket[t]
            \/ /\ layer[OtherSlot(s)] = NextLayer(l)
               /\ UNCHANGED <<layer, state, ticket, jobs, wpc>>
<1>1. /\ NextLayer(l) = IF l + 1 = LayerEnd THEN First ELSE l + 1
      /\ OtherSlot(s) = IF s + 1 = NBuffers THEN 0 ELSE s + 1
      /\ OtherSlot(s) \in Slots
      /\ First' = First /\ NCold' = NCold
      /\ First \in Nat /\ LayerBegin <= First
  BY NextLayerIs, OtherSlotIs, OtherSlotProps, PinnedFacts, SamePlan DEF Serving
<1>2. NextLayer(l) \in Owned /\ NextLayer(l) # NoLayer
  BY <1>1, ConfigAssumption DEF Owned, NoLayer
<1>3. cpc' = "using" /\ current' = s /\ at' = After(l)
  BY DEF Serving, ActivateAndPrefetch
<1>4. Expected' = NextLayer(l)
  BY <1>1, <1>3, ConfigAssumption DEF Expected, After
<1>5. CASE layer[OtherSlot(s)] # NextLayer(l)
  <2>1. Claim(OtherSlot(s), NextLayer(l), FALSE)
    BY <1>2, <1>5 DEF Serving, ActivateAndPrefetch
  <2> QED BY <1>1, <1>2, <1>3, <1>4, <1>5, <2>1, ClaimEffect
<1>6. CASE layer[OtherSlot(s)] = NextLayer(l)
  <2>1. UNCHANGED <<layer, state, ticket, jobs, wpc>>
    BY <1>2, <1>6 DEF Serving, ActivateAndPrefetch, ringVars
  <2> QED BY <1>1, <1>3, <1>4, <1>6, <2>1
<1> QED BY <1>5, <1>6

\* Whatever is being read is wanted after a call served from slot s.
ServedWell(s, l) ==
  /\ ReadWanted'
  /\ layer[OtherSlot(s)] # NextLayer(l) =>
       /\ NoRead
       /\ NBuffers <= NCold =>
            \A t \in Slots : layer[t] = NextLayer(l) => state[t] # "Ready"

-----------------------------------------------------------------------------
(* A buffer for every cold layer.                                          *)

\* The first cold layers are in their slots when the next one is served.
LEMMA ServedInOrder ==
  ASSUME PinnedRun, Labels, Layout, NEW s \in Slots, NEW l \in First .. LayerEnd - 1,
         Serving(s, l), s < NCold
  PROVE  l = First + s /\ \A t \in Slots : t <= s => state[t] = "Ready"
<1> DEFINE F == First
           N == NCold
<1>1. F \in Nat /\ N \in Nat /\ N = LayerEnd - F /\ l \in Nat
  BY PinnedFacts, ConfigAssumption
<1>2. /\ state[s] = "Ready" /\ layer[s] = l
      /\ F < l => current \in Slots /\ layer[current] = l - 1
  BY DEF Serving
<1>3. /\ \A t \in Slots : layer[t] # NoLayer => (t < N /\ layer[t] = F + t) \/ t = N
      /\ current \in Slots => current < N /\ \A t \in Slots : t <= current => state[t] = "Ready"
  BY DEF Layout
<1>4. s < N
  OBVIOUS
<1> HIDE DEF F, N
<1>5. NoLayer \notin Nat /\ \A t \in Slots : t \in Nat
  BY ConfigAssumption DEF NoLayer, Slots
<1>6. l = F + s
  BY <1>1, <1>2, <1>3, <1>4, <1>5
<1>7. CASE s = 0
  BY <1>2, <1>5, <1>6, <1>7 DEF F
<1>8. CASE s # 0
  <2>1. current \in Slots /\ layer[current] = l - 1 /\ l - 1 \in Nat
    BY <1>1, <1>2, <1>5, <1>6, <1>8
  <2>2. layer[current] = F + current
    BY <1>1, <1>3, <1>5, <2>1
  <2>3. current = s - 1
    BY <1>1, <1>5, <1>6, <2>1, <2>2
  <2> QED BY <1>2, <1>3, <1>5, <1>6, <2>1, <2>3 DEF F
<1> QED BY <1>5, <1>7, <1>8

LEMMA ServeLaidOut ==
  ASSUME TypeOK, PinnedRun, Labels, NBuffers > 1, NCold <= NBuffers, Layout,
         NEW s \in Slots, NEW l \in First .. LayerEnd - 1, Serving(s, l), s < NCold
  PROVE  Layout' /\ ServedWell(s, l)
<1> DEFINE F  == First
           N  == NCold
           nb == OtherSlot(s)
           nl == NextLayer(l)
<1>1. /\ F \in Nat /\ N \in Nat /\ N = LayerEnd - F /\ l \in Nat
      /\ \A t \in Slots : t \in Nat /\ t < NBuffers
  BY PinnedFacts, ConfigAssumption DEF Slots
<1>2. l = F + s /\ \A t \in Slots : t <= s => state[t] = "Ready"
  BY ServedInOrder
<1>3. /\ nl = IF s + 1 = N THEN F ELSE F + s + 1
      /\ nb = IF s + 1 = NBuffers THEN 0 ELSE s + 1
      /\ nb \in Slots /\ NoLayer \notin Nat /\ nl \in Nat
      /\ F' = F /\ N' = N /\ s < N /\ N <= NBuffers /\ NBuffers > 1
      /\ NBuffers \in Nat
  <2>1. /\ nl = IF l + 1 = LayerEnd THEN F ELSE l + 1
        /\ nb = IF s + 1 = NBuffers THEN 0 ELSE s + 1
        /\ nb \in Slots /\ F' = F /\ N' = N /\ s < N
    BY ServingEffect
  <2> HIDE DEF F, N, nb, nl
  <2> QED BY <1>1, <1>2, <2>1, ConfigAssumption DEF NoLayer, F, N
<1>4. /\ cpc' = "using" /\ current' = s /\ Expected' = nl /\ ~Waiting'
      /\ layer[s] = l
      /\ \A t \in Slots : state[t] = "Loading" => t = N \/ layer[t] = l
  BY ServingEffect DEF Waiting, Serving
<1>5. \/ /\ layer[nb] # nl
         /\ layer'[nb] = nl
         /\ state'[nb] = "Loading"
         /\ \A t \in Slots : t # nb => layer'[t] = layer[t] /\ state'[t] = state[t]
      \/ /\ layer[nb] = nl
         /\ UNCHANGED <<layer, state>>
  BY ServingEffect
<1>6. \A t \in Slots : layer[t] # NoLayer =>
        \/ t < N /\ layer[t] = F + t
        \/ t = N /\ layer[t] = F /\ \A u \in Slots : u < t => state[u] = "Ready"
  BY DEF Layout
<1>7. \A t \in Slots : state[t] # "Empty" => layer[t] # NoLayer
  BY DEF Labels
<1> HIDE DEF F, N, nb, nl
<1>8. ASSUME layer[nb] # nl
      PROVE  /\ nb = s + 1
             /\ layer[nb] = NoLayer
             /\ nb < N => nl = F + nb
             /\ nb >= N => nb = N /\ nl = F
             /\ \A t \in Slots : t = N => layer[t] = NoLayer
  <2>1. nb = s + 1
    BY <1>1, <1>2, <1>3, <1>6, <1>7, <1>8
  <2>2. layer[nb] = NoLayer
    BY <1>1, <1>3, <1>6, <1>8, <2>1
  <2>3. ASSUME NEW t \in Slots, t = N
        PROVE  layer[t] = NoLayer
    BY <1>1, <1>3, <1>6, <1>7, <2>1, <2>2, <2>3
  <2> QED BY <1>1, <1>3, <2>1, <2>2, <2>3
<1>9. ASSUME layer[nb] # nl
      PROVE  NoRead
  <2> SUFFICES ASSUME NEW t \in Slots, state[t] = "Loading"
               PROVE  FALSE
    BY DEF NoRead
  <2>1. layer[t] # NoLayer
    BY <1>7
  <2>2. t < N /\ layer[t] = F + t /\ layer[t] = l
    BY <1>1, <1>4, <1>6, <1>8, <1>9, <2>1
  <2>3. t = s
    BY <1>1, <1>2, <2>2
  <2> QED BY <1>2, <1>1, <2>3
<1>10. ASSUME layer[nb] # nl, NBuffers <= N, NEW t \in Slots, layer[t] = nl
       PROVE  FALSE
  BY <1>1, <1>3, <1>6, <1>8, <1>10
<1>11. ReadWanted'
  <2>1. ASSUME NEW t \in Slots, state'[t] = "Loading"
        PROVE  t = N \/ layer'[t] = nl
    <3>1. CASE layer[nb] # nl
      BY <1>5, <1>9, <2>1, <3>1 DEF NoRead
    <3>2. CASE layer[nb] = nl
      <4>1. state[t] = "Loading" /\ layer'[t] = layer[t]
        BY <1>5, <2>1, <3>2
      <4> QED BY <1>1, <1>2, <1>4, <1>6, <1>7, <4>1
    <3> QED BY <3>1, <3>2
  <2> QED BY <1>3, <1>4, <2>1 DEF ReadWanted, N
<1>12. \A t \in Slots : t <= s => state'[t] = "Ready"
  <2>1. CASE layer[nb] # nl
    BY <1>1, <1>2, <1>5, <1>8, <2>1
  <2>2. CASE layer[nb] = nl
    BY <1>2, <1>5, <2>2
  <2> QED BY <2>1, <2>2
<1>13. ASSUME NEW t \in Slots, layer'[t] # NoLayer
       PROVE  \/ t < N /\ layer'[t] = F + t
              \/ t = N /\ layer'[t] = F /\ \A u \in Slots : u < t => state'[u] = "Ready"
  <2>1. CASE layer[nb] # nl
    <3>1. CASE t = nb
      BY <1>1, <1>3, <1>5, <1>8, <1>12, <2>1, <3>1
    <3>2. CASE t # nb
      BY <1>1, <1>5, <1>6, <1>8, <1>13, <2>1, <3>2
    <3> QED BY <3>1, <3>2
  <2>2. CASE layer[nb] = nl
    BY <1>5, <1>6, <1>13, <2>2
  <2> QED BY <2>1, <2>2
<1>14. Layout'
  BY <1>3, <1>4, <1>12, <1>13 DEF Layout, F, N
<1> QED BY <1>9, <1>10, <1>11, <1>14 DEF ServedWell, nb, nl, N

\* When a streamed layer is asked for, the read under way is of that layer or of
\* the slot no layer owns.
LEMMA ReadAtCall ==
  ASSUME PassInv, Calm, cpc \in {"idle", "using"}, First <= at, NEW t \in Slots,
         state[t] = "Loading"
  PROVE  cpc = "using" /\ (t = NCold \/ layer[t] = at)
<1>1. Expected = at
  BY PinnedFacts, ConfigAssumption DEF Expected, PassInv, PassAt, Owned
<1> QED BY <1>1 DEF Calm, ReadWanted

\* A call for a layer of the ring asks for a cold one.
LEMMA ColdCall ==
  ASSUME PassInv, OnRing(at)
  PROVE  at \in First .. LayerEnd - 1 /\ First <= at /\ at \in Owned
BY PinnedFacts, ConfigAssumption DEF PassInv, PassAt, OnRing, Owned

\* A miss finds the layer's own slot free, and takes it.
LEMMA MissLaidOut ==
  ASSUME IInv, PassInv, Ring, Calm, NCold <= NBuffers, Layout, LoadMiss(at)
  PROVE  Layout' /\ ReadWanted' /\ NoRead
<1> DEFINE F == First
           N == NCold
<1>1. TypeOK /\ PinnedRun /\ Labels /\ NBuffers > 1 /\ NBuffers \in Nat
  BY ConfigAssumption DEF PassInv, IInv, Ring
<1>2. /\ cpc \in {"idle", "using"} /\ OnRing(at) /\ Holding(at) = {}
      /\ Claim(Victim, at, TRUE) /\ await' = Victim /\ cpc' = "asleep"
      /\ want' = at /\ UNCHANGED <<pinned, current>>
  BY DEF LoadMiss, Begin, cfgVars
<1>3. /\ F \in Nat /\ N \in Nat /\ N = LayerEnd - F /\ at \in F .. LayerEnd - 1
      /\ F <= at /\ at \in Nat /\ at \in Owned
      /\ F' = F /\ N' = N
      /\ \A t \in Slots : t \in Nat /\ t < NBuffers
  BY <1>1, <1>2, ColdCall, PinnedFacts, SamePlan, ConfigAssumption DEF Slots
<1>4. \A t \in Slots : layer[t] = at => state[t] \notin {"Loading", "Ready"}
  BY <1>2 DEF Holding
<1>5. /\ F < at =>
           /\ current \in Slots
           /\ layer[current] = at - 1
  BY <1>2, <1>3, AskedInOrder
<1>6. /\ Victim \in Slots
      /\ current \in Slots =>
           Victim = IF current + 1 = NBuffers THEN 0 ELSE current + 1
      /\ current = NoSlot => Victim = 0
      /\ current \in Slots \cup {NoSlot}
  BY <1>1, VictimIs, OtherSlotIs, RingTypes
<1>7. /\ \A t \in Slots : layer[t] # NoLayer =>
           \/ t < N /\ layer[t] = F + t
           \/ t = N /\ layer[t] = F /\ \A u \in Slots : u < t => state[u] = "Ready"
      /\ current \in Slots => current < N /\ \A t \in Slots : t <= current => state[t] = "Ready"
  BY DEF Layout
<1>8. \A t \in Slots : state[t] # "Empty" => layer[t] # NoLayer
  BY <1>1 DEF Labels
<1>9. \A t \in Slots : state[t] = "Loading" => t = N \/ layer[t] = at
  BY <1>2, <1>3, ReadAtCall
<1>10. N <= NBuffers
  OBVIOUS
<1> HIDE DEF F, N
<1>11. at - F \in Slots /\ at - F < N
  BY <1>1, <1>3, <1>10, ConfigAssumption DEF Slots
<1>12. state[at - F] # "Ready" /\ NoLayer \notin Nat
  BY <1>3, <1>4, <1>7, <1>8, <1>11 DEF NoLayer
<1>13. \A t \in Slots : t = N => layer[t] = NoLayer
  BY <1>3, <1>7, <1>11, <1>12
<1>14. NoRead
  BY <1>4, <1>8, <1>9, <1>13 DEF NoRead
<1>15. Victim = at - F /\ (current \in Slots => current = (at - F) - 1)
  <2>1. CASE F < at
    <3>1. current = (at - F) - 1
      BY <1>3, <1>5, <1>7, <1>12, <2>1
    <3> QED BY <1>3, <1>5, <1>6, <1>11, <2>1, <3>1
  <2>2. CASE F = at
    <3>1. current \notin Slots
      BY <1>3, <1>7, <1>11, <1>12, <2>2
    <3> QED BY <1>3, <1>6, <2>2, <3>1
  <2> QED BY <1>3, <2>1, <2>2
<1>16. /\ layer'[at - F] = at /\ state'[at - F] = "Loading"
       /\ \A t \in Slots : t # at - F => layer'[t] = layer[t] /\ state'[t] = state[t]
  BY <1>1, <1>2, <1>3, <1>11, <1>15, ClaimEffect
<1>17. ASSUME NEW t \in Slots, layer'[t] # NoLayer
       PROVE  t < N /\ layer'[t] = F + t
  BY <1>3, <1>7, <1>11, <1>13, <1>16, <1>17
<1>18. current \in Slots => current < N /\ \A t \in Slots : t <= current => state'[t] = "Ready"
  BY <1>3, <1>7, <1>11, <1>15, <1>16
<1>19. Layout'
  BY <1>2, <1>3, <1>15, <1>17, <1>18 DEF Layout, F, N
<1>20. ReadWanted'
  BY <1>2, <1>14, <1>15, <1>16 DEF ReadWanted, NoRead, Waiting
<1> QED BY <1>14, <1>19, <1>20

\* The search for a layer held finds the layer's own slot.
LEMMA OwnSlotFirst ==
  ASSUME PinnedRun, Labels, Layout, NEW l \in First .. LayerEnd - 1, Holding(l) # {}
  PROVE  FirstHolding(l) = l - First /\ FirstHolding(l) < NCold
<1> DEFINE F == First
           N == NCold
           h == FirstHolding(l)
<1>1. h \in Slots /\ layer[h] = l /\ state[h] \in {"Loading", "Ready"}
  BY FirstHoldingProps DEF Holding
<1>2. /\ F \in Nat /\ N \in Nat /\ N = LayerEnd - F /\ l \in F .. LayerEnd - 1 /\ l \in Nat
      /\ \A t \in Slots : t \in Nat
  BY PinnedFacts, ConfigAssumption DEF Slots
<1>3. \A t \in Holding(l) : h <= t
  <2>1. Holding(l) \in SUBSET Nat
    BY ConfigAssumption DEF Holding, Slots
  <2>2. \E u \in Holding(l) : \A t \in Holding(l) : u <= t
    BY <2>1, LeastOf
  <2> QED BY <2>2 DEF FirstHolding
<1>4. \A t \in Slots : layer[t] # NoLayer =>
        \/ t < N /\ layer[t] = F + t
        \/ t = N /\ layer[t] = F /\ \A u \in Slots : u < t => state[u] = "Ready"
  BY DEF Layout
<1>5. \A t \in Slots : state[t] # "Empty" => layer[t] # NoLayer
  BY DEF Labels
<1> HIDE DEF F, N, h
<1>6. NoLayer \notin Nat
  BY DEF NoLayer
<1>7. h = l - F
  <2>1. CASE h < N
    BY <1>1, <1>2, <1>4, <1>6, <2>1
  <2>2. CASE ~(h < N)
    <3>1. h = N /\ l = F /\ 0 \in Slots /\ 0 < h
      BY <1>1, <1>2, <1>4, <1>6, <2>2, ConfigAssumption DEF Slots
    <3>2. state[0] = "Ready" /\ layer[0] = F
      BY <1>1, <1>2, <1>4, <1>5, <1>6, <3>1
    <3>3. 0 \in Holding(l)
      BY <3>1, <3>2 DEF Holding
    <3> QED BY <1>2, <1>3, <3>1, <3>3
  <2> QED BY <2>1, <2>2
<1>8. h < N
  BY <1>2, <1>7, ConfigAssumption
<1> QED BY <1>7, <1>8 DEF F, N, h

\* A call for a layer on its way waits for the layer's own slot.
LEMMA InFlightLaidOut ==
  ASSUME IInv, PassInv, Ring, Layout, LoadInFlight(at)
  PROVE  Layout'
<1>1. PinnedRun /\ Labels
  BY DEF PassInv
<1>2. /\ OnRing(at) /\ Holding(at) # {}
      /\ await' = FirstHolding(at) /\ want' = at
      /\ UNCHANGED <<pinned, current, layer, state>>
  BY DEF LoadInFlight, Begin, cfgVars, ringVars
<1>3. at \in First .. LayerEnd - 1 /\ First' = First /\ NCold' = NCold
  BY <1>1, <1>2, ColdCall, SamePlan
<1>4. FirstHolding(at) = at - First
  BY <1>1, <1>2, <1>3, OwnSlotFirst
<1> QED BY <1>2, <1>3, <1>4 DEF Layout

\* The read waited for is the only one.
LEMMA InFlightWanted ==
  ASSUME IInv, OneRead, LoadInFlight(at)
  PROVE  ReadWanted'
<1>1. /\ FirstHolding(at) \in Slots /\ state[FirstHolding(at)] = "Loading"
      /\ await' = FirstHolding(at) /\ cpc' = "asleep" /\ state' = state
  BY FirstHoldingProps DEF LoadInFlight, Holding, ringVars
<1> QED BY <1>1 DEF ReadWanted, OneRead, Waiting

\* A pinned layer leaves the ring alone, and what is read is still to come.
LEMMA PinnedCalm ==
  ASSUME PassInv, Calm, PassLoad, LoadPinned(at)
  PROVE  ReadWanted' /\ (Layout => Layout')
<1> DEFINE F == First
<1>1. /\ cpc \in {"idle", "using"} /\ at \in pinned /\ cpc' = "using" /\ current' = NoSlot
      /\ UNCHANGED <<pinned, layer, state>> /\ at' = After(at)
  BY DEF PassLoad, LoadPinned, Begin, cfgVars, ringVars, After
<1>2. /\ F \in Nat /\ LayerBegin <= F /\ at \in Int /\ at < F
      /\ F' = F /\ NCold' = NCold
  BY <1>1, PinnedFacts, SamePlan, ConfigAssumption DEF PassInv, PassAt, Owned
<1>3. Expected = F /\ Expected' = F
  BY <1>1, <1>2, ConfigAssumption DEF Expected, After
<1>4. ReadWanted'
  BY <1>1, <1>2, <1>3 DEF Calm, ReadWanted, Waiting
<1>5. NoSlot \notin Slots
  BY ConfigAssumption DEF NoSlot, Slots
<1>6. Layout => Layout'
  BY <1>1, <1>2, <1>5 DEF Layout, Waiting
<1> QED BY <1>4, <1>6

\* The caller of a failed read frees the slot; nothing else is being read.
LEMMA FailedKeeps ==
  ASSUME IInv, PassInv, Ring, Calm, WaitFailed
  PROVE  Calm' /\ (Layout => Layout') /\ (Rotation => Rotation')
<1> DEFINE F == First
           N == NCold
<1>1. /\ cpc = "woken" /\ state[await] = "Failed" /\ cpc' = "idle"
      /\ UNCHANGED <<pinned, ticket, jobs, current, want, await, wpc, wjob>>
  BY DEF WaitFailed, cfgVars, workerVars
<1>2. /\ await \in Slots /\ layer[await] = want /\ want \in Owned
      /\ TypeOK /\ PinnedRun /\ Labels
  BY <1>1 DEF IInv, CallerView, PassInv
<1>3. /\ layer'[await] = NoLayer /\ state'[await] = "Empty"
      /\ \A t \in Slots : t # await => layer'[t] = layer[t] /\ state'[t] = state[t]
  BY <1>2, RingTypes DEF WaitFailed
<1>4. /\ F \in Nat /\ N \in Nat /\ N = LayerEnd - F /\ F' = F /\ N' = N
      /\ \A t \in Slots : t \in Nat
  BY <1>1, <1>2, PinnedFacts, SamePlan, ConfigAssumption DEF Slots
<1>5. want \in F .. LayerEnd - 1 /\ want \in Nat /\ NoLayer \notin Nat
  BY <1>2, <1>4, ConfigAssumption DEF Labels, Owned, NoLayer
<1>6. NoRead
  BY <1>1 DEF Calm, ReadWanted, Waiting, NoRead
<1>7. \A t \in Slots : state'[t] # "Loading"
  BY <1>3, <1>6 DEF NoRead
<1>8. Calm'
  <2>1. OneRead'
    BY <1>1, <1>7 DEF Calm, OneRead, Working
  <2>2. ReadWanted'
    BY <1>7 DEF ReadWanted
  <2> QED BY <2>1, <2>2 DEF Calm
<1>9. ASSUME Layout
      PROVE  Layout'
  <2>1. /\ \A t \in Slots : layer[t] # NoLayer =>
             \/ t < N /\ layer[t] = F + t
             \/ t = N /\ layer[t] = F /\ \A u \in Slots : u < t => state[u] = "Ready"
        /\ current \in Slots =>
             current < N /\ \A t \in Slots : t <= current => state[t] = "Ready"
        /\ await = want - F
    BY <1>1, <1>9 DEF Layout, Waiting
  <2> HIDE DEF F, N
  <2>2. await < N
    BY <1>4, <1>5, <2>1, ConfigAssumption
  <2>3. \A t \in Slots : t = N => layer[t] = NoLayer
    BY <1>1, <1>2, <1>4, <2>1, <2>2
  <2>4. \A t \in Slots : layer'[t] # NoLayer => t < N /\ layer'[t] = F + t
    BY <1>2, <1>3, <1>4, <2>1, <2>3
  <2>5. current \in Slots => current < N /\ \A t \in Slots : t <= current => state'[t] = "Ready"
    BY <1>1, <1>2, <1>3, <1>4, <2>1
  <2> QED BY <1>1, <1>4, <2>4, <2>5 DEF Layout, Waiting, F, N
<1>10. ASSUME Rotation
       PROVE  Rotation'
  <2>1. \A t \in Slots : Held(t)' => Held(t) /\ t # await /\ layer'[t] = layer[t]
    BY <1>2, <1>3 DEF Held
  <2>2. \A t \in Slots : state[t] = "Ready" => state'[t] = "Ready" /\ layer'[t] = layer[t]
    BY <1>1, <1>2, <1>3
  <2>3. Spread'
    BY <1>4, <1>10, <2>1 DEF Rotation, Spread, Gap, Way
  <2>4. ASSUME Trail
        PROVE  Trail'
    <3>1. /\ current \in Slots => state[current] = "Ready"
          /\ current = NoSlot => \A t \in Slots : ~Held(t)'
      BY <1>1, <1>2, <2>1, <2>4 DEF PassInv, Consumer, Trail
    <3> QED BY <1>1, <1>4, <2>2, <2>4, <3>1 DEF Trail, Gap
  <2> QED BY <1>1, <1>10, <2>3, <2>4 DEF Rotation
<1> QED BY <1>8, <1>9, <1>10

\* Steps that claim nothing and free nothing: reads settle, threads wake and
\* sleep, the object goes.
LEMMA SettlingKeeps ==
  ASSUME UNCHANGED <<pinned, layer, current, want, await, at>>,
         \A t \in Slots :
           /\ state[t] = "Ready" => state'[t] = "Ready"
           /\ state'[t] = "Loading" => state[t] = "Loading"
           /\ Held(t)' => Held(t),
         Waiting' <=> Waiting,
         cpc' \in {"idle", "using"} => cpc' = cpc
  PROVE  /\ ReadWanted => ReadWanted'
         /\ Layout => Layout'
         /\ Rotation => Rotation'
<1>1. First' = First /\ NCold' = NCold
  BY SamePlan
<1>2. ReadWanted => ReadWanted'
  BY <1>1 DEF ReadWanted, Expected
<1>3. Layout => Layout'
  BY <1>1 DEF Layout
<1>4. Spread => Spread'
  BY <1>1 DEF Spread, Gap, Way
<1>5. Trail => Trail'
  BY <1>1 DEF Trail, Gap
<1> QED BY <1>2, <1>3, <1>4, <1>5 DEF Rotation

-----------------------------------------------------------------------------
(* Fewer buffers than cold layers.                                         *)

\* A claim of the slot behind a held one, for the layer after its layer, leaves
\* the layers held as far apart as their slots.
LEMMA ClaimBehind ==
  ASSUME TypeOK, PinnedRun, Labels, NBuffers > 1, NBuffers < NCold, Spread, pinned' = pinned,
         NEW s \in Slots, Held(s), NEW v \in Slots, NEW m,
         v = OtherSlot(s), m = NextLayer(layer[s]), layer'[v] = m,
         \A t \in Slots : t # v => layer'[t] = layer[t] /\ state'[t] = state[t]
  PROVE  Spread'
<1> DEFINE F == First
           N == NCold
           K == NBuffers
           x == layer[s]
<1>1. /\ F \in Nat /\ N \in Nat /\ F + N = LayerEnd /\ F' = F /\ N' = N
      /\ K \in Nat /\ K > 1 /\ K < N
      /\ \A t \in Slots : t \in Nat /\ t < K
  BY PinnedFacts, SamePlan, ConfigAssumption DEF Slots
<1>2. \A t \in Slots : Held(t) => layer[t] \in F .. LayerEnd - 1
  BY DEF Labels, Held
<1>3. /\ x \in F .. LayerEnd - 1
      /\ m = IF x + 1 = LayerEnd THEN F ELSE x + 1
      /\ v = IF s + 1 = K THEN 0 ELSE s + 1
  BY <1>2, NextLayerIs, OtherSlotIs
<1>4. \A t, u \in Slots : t # u /\ Held(t) /\ Held(u) =>
        (IF t <= u THEN u - t ELSE u - t + K)
          <= (IF layer[t] <= layer[u] THEN layer[u] - layer[t] ELSE layer[u] - layer[t] + N)
  BY DEF Spread, Gap, Way
<1>5. layer[s] = x /\ Held(s)
  OBVIOUS
<1> HIDE DEF F, N, K, x
<1>6. ASSUME NEW t \in Slots, t # v, Held(t)
      PROVE  /\ (IF t <= v THEN v - t ELSE v - t + K)
                   <= (IF layer[t] <= m THEN m - layer[t] ELSE m - layer[t] + N)
             /\ (IF v <= t THEN t - v ELSE t - v + K)
                   <= (IF m <= layer[t] THEN layer[t] - m ELSE layer[t] - m + N)
  <2>1. layer[t] \in F .. F + N - 1 /\ x \in F .. F + N - 1
    BY <1>1, <1>2, <1>3, <1>6
  <2>2. CASE t = s
    <3>1. layer[t] = x /\ s \in Nat /\ s < K
      BY <1>1, <1>5, <2>2
    <3>2. (IF s <= v THEN v - s ELSE v - s + K) = 1
      BY <1>1, <1>3, <3>1
    <3>3. (IF v <= s THEN s - v ELSE s - v + K) = K - 1
      BY <1>1, <1>3, <3>1
    <3>4. (IF x <= m THEN m - x ELSE m - x + N) = 1
      BY <1>1, <1>3, <2>1
    <3>5. (IF m <= x THEN x - m ELSE x - m + N) = N - 1
      BY <1>1, <1>3, <2>1
    <3> QED BY <1>1, <2>2, <3>1, <3>2, <3>3, <3>4, <3>5
  <2>3. CASE t # s
    <3>1. /\ (IF t <= s THEN s - t ELSE s - t + K)
               <= (IF layer[t] <= x THEN x - layer[t] ELSE x - layer[t] + N)
          /\ (IF s <= t THEN t - s ELSE t - s + K)
               <= (IF x <= layer[t] THEN layer[t] - x ELSE layer[t] - x + N)
      BY <1>4, <1>5, <1>6, <2>3
    <3> QED BY <1>1, <1>3, <1>6, <2>1, <2>3, <3>1
  <2> QED BY <2>2, <2>3
<1>7. \A t \in Slots : t # v => (Held(t)' <=> Held(t)) /\ layer'[t] = layer[t]
  BY DEF Held
<1>8. ASSUME NEW t \in Slots, NEW u \in Slots, t # u, Held(t)', Held(u)'
      PROVE  (IF t <= u THEN u - t ELSE u - t + K)
               <= (IF layer'[t] <= layer'[u] THEN layer'[u] - layer'[t]
                                             ELSE layer'[u] - layer'[t] + N)
  <2>1. CASE t # v /\ u # v
    BY <1>4, <1>7, <1>8, <2>1
  <2>2. CASE u = v
    BY <1>6, <1>7, <1>8, <2>2
  <2>3. CASE t = v
    BY <1>6, <1>7, <1>8, <2>3
  <2> QED BY <2>1, <2>2, <2>3
<1> QED BY <1>1, <1>8 DEF Spread, Gap, Way, N, K

\* Only the slot behind a held one may hold the layer after its layer.
LEMMA NextIsBehind ==
  ASSUME PinnedRun, Labels, NBuffers > 1, NBuffers < NCold, Spread,
         NEW s \in Slots, Held(s), NEW t \in Slots, Held(t), layer[t] = NextLayer(layer[s])
  PROVE  t = OtherSlot(s)
<1> DEFINE F == First
           N == NCold
           x == layer[s]
           y == layer[t]
<1>1. /\ F \in Nat /\ N \in Nat /\ F + N = LayerEnd
      /\ NBuffers \in Nat /\ NBuffers > 1 /\ NBuffers < N
      /\ s \in Nat /\ s < NBuffers /\ t \in Nat /\ t < NBuffers
  BY PinnedFacts, ConfigAssumption DEF Slots
<1>2. x \in F .. LayerEnd - 1
  BY DEF Labels, Held
<1>3. /\ y = IF x + 1 = LayerEnd THEN F ELSE x + 1
      /\ OtherSlot(s) = IF s + 1 = NBuffers THEN 0 ELSE s + 1
  BY <1>2, NextLayerIs, OtherSlotIs
<1>4. s # t => (IF s <= t THEN t - s ELSE t - s + NBuffers)
                 <= (IF x <= y THEN y - x ELSE y - x + N)
  BY DEF Spread, Gap, Way
<1>5. s = t => x = y
  OBVIOUS
<1> HIDE DEF F, N, x, y
<1> QED BY <1>1, <1>2, <1>3, <1>4, <1>5

\* No two slots hold one layer.
LEMMA HeldOnce ==
  ASSUME PinnedRun, NBuffers > 1, Spread, NEW s \in Slots, Held(s), NEW t \in Slots, Held(t),
         layer[s] = layer[t], layer[s] \in Int
  PROVE  s = t
<1>1. NBuffers \in Nat /\ s \in Nat /\ s < NBuffers /\ t \in Nat /\ t < NBuffers
  BY ConfigAssumption DEF Slots
<1>2. s # t => (IF s <= t THEN t - s ELSE t - s + NBuffers)
                 <= (IF layer[s] <= layer[t] THEN layer[t] - layer[s]
                                             ELSE layer[t] - layer[s] + NCold)
  BY DEF Spread, Gap, Way
<1> QED BY <1>1, <1>2

LEMMA ServeRotates ==
  ASSUME TypeOK, PinnedRun, Labels, NBuffers > 1, NBuffers < NCold, Rotation,
         NEW s \in Slots, NEW l \in First .. LayerEnd - 1, Serving(s, l)
  PROVE  Rotation' /\ ServedWell(s, l)
<1> DEFINE F  == First
           N  == NCold
           K  == NBuffers
           nb == OtherSlot(s)
           nl == NextLayer(l)
<1>1. /\ F \in Nat /\ N \in Nat /\ F + N = LayerEnd /\ l \in Nat /\ F <= l
      /\ K \in Nat /\ K > 1 /\ K < N
      /\ \A t \in Slots : t \in Nat /\ t < K
  BY PinnedFacts, ConfigAssumption DEF Slots
<1>2. /\ nl = IF l + 1 = LayerEnd THEN F ELSE l + 1
      /\ nb = IF s + 1 = K THEN 0 ELSE s + 1
      /\ nb \in Slots
      /\ F' = F /\ N' = N
      /\ cpc' = "using" /\ current' = s /\ Expected' = nl
  BY ServingEffect
<1>3. \/ /\ layer[nb] # nl
         /\ layer'[nb] = nl
         /\ state'[nb] = "Loading"
         /\ \A t \in Slots : t # nb => layer'[t] = layer[t] /\ state'[t] = state[t]
      \/ /\ layer[nb] = nl
         /\ UNCHANGED <<layer, state>>
  BY ServingEffect
<1>4. /\ state[s] = "Ready" /\ layer[s] = l
      /\ F < l => current \in Slots /\ state[current] = "Ready" /\ layer[current] = l - 1
      /\ pinned' = pinned
  BY DEF Serving
<1>5. Spread
  BY DEF Rotation
<1>6. NoRead
  <2> SUFFICES ASSUME NEW t \in Slots, state[t] = "Loading"
               PROVE  FALSE
    BY DEF NoRead
  <2>1. layer[t] = l
    BY <1>1 DEF Serving
  <2>2. s = t
    BY <1>1, <1>4, <1>5, <2>1, HeldOnce DEF Held
  <2> QED BY <1>4, <2>2
<1>7. \A t \in Slots : layer[t] = nl /\ state[t] = "Ready" => t = nb
  BY <1>4, <1>5, NextIsBehind DEF Held
<1>8. nb # s /\ nl # l
  <2> HIDE DEF F, N, K, nb, nl
  <2> QED BY <1>1, <1>2
<1>9. Spread'
  <2>1. CASE layer[nb] # nl
    BY <1>2, <1>3, <1>4, <1>5, <2>1, ClaimBehind DEF Held
  <2>2. CASE layer[nb] = nl
    BY <1>2, <1>3, <1>5, <2>2 DEF Spread, Held, Gap, Way
  <2> QED BY <2>1, <2>2
<1>10. ASSUME Trail
       PROVE  Trail'
  <2>1. \A t \in Slots : t # nb => layer'[t] = layer[t] /\ state'[t] = state[t]
    BY <1>3
  <2>2. current \in Slots =>
          \A t \in Slots :
            /\ (IF t <= current THEN current - t ELSE current - t + K) <= K - 2
            /\ (IF t <= current THEN current - t ELSE current - t + K) <= layer[current] - F
            => /\ state[t] = "Ready"
               /\ layer[t] = layer[current] - (IF t <= current THEN current - t ELSE current - t + K)
    BY <1>10 DEF Trail, Gap
  <2>3. F < l => s = IF current + 1 = K THEN 0 ELSE current + 1
    <3> SUFFICES ASSUME F < l
                 PROVE  s = IF current + 1 = K THEN 0 ELSE current + 1
      OBVIOUS
    <3>1. layer[current] \in First .. LayerEnd - 1 /\ layer[current] + 1 # LayerEnd
      BY <1>1, <1>4, ConfigAssumption
    <3>2. NextLayer(layer[current]) = l
      BY <1>1, <1>4, <3>1, NextLayerIs
    <3>3. s = OtherSlot(current)
      BY <1>4, <1>5, <3>2, NextIsBehind DEF Held
    <3> QED BY <1>4, <3>3, OtherSlotIs
  <2> HIDE DEF F, N, K, nb, nl
  <2>4. ASSUME NEW t \in Slots, NEW g, g = (IF t <= s THEN s - t ELSE s - t + K),
               g <= K - 2, g <= l - F
        PROVE  state'[t] = "Ready" /\ layer'[t] = l - g
    <3>1. t # nb
      BY <1>1, <1>2, <2>4
    <3>2. CASE t = s
      BY <1>1, <1>4, <1>8, <2>1, <2>4, <3>2
    <3>3. CASE t # s
      <4>1. g >= 1 /\ g \in Nat /\ F < l
        BY <1>1, <2>4, <3>3
      <4>2. current \in Slots /\ layer[current] = l - 1
        BY <1>4, <4>1
      <4>3. (IF t <= current THEN current - t ELSE current - t + K) = g - 1
        BY <1>1, <2>3, <2>4, <3>3, <4>1, <4>2
      <4>4. state[t] = "Ready" /\ layer[t] = (l - 1) - (g - 1)
        BY <1>1, <2>2, <2>4, <4>1, <4>2, <4>3
      <4> QED BY <1>1, <2>1, <3>1, <4>1, <4>4
    <3> QED BY <3>2, <3>3
  <2>5. layer'[s] = l /\ NoSlot \notin Slots
    BY <1>4, <1>8, <2>1, ConfigAssumption DEF NoSlot, Slots
  <2> QED BY <1>2, <2>4, <2>5 DEF Trail, Gap, F, K
<1>11. ReadWanted'
  BY <1>2, <1>3, <1>6 DEF ReadWanted, NoRead, Waiting
<1>12. ServedWell(s, l)
  BY <1>6, <1>7, <1>11 DEF ServedWell
<1> QED BY <1>4, <1>9, <1>10, <1>12 DEF Rotation

\* Starting over after a failed read, without pinned layers: either the first
\* layer is still held, or every other slot holds one the pass has streamed.
LEMMA RestartSpreads ==
  ASSUME TypeOK, PinnedRun, Labels, NBuffers > 1, NBuffers < NCold, Trail, pinned' = pinned,
         current \in Slots, Holding(First) = {}, layer[current] \in First .. LayerEnd - 1,
         layer'[OtherSlot(current)] = First,
         \A t \in Slots : t # OtherSlot(current) =>
           layer'[t] = layer[t] /\ state'[t] = state[t]
  PROVE  Spread'
<1> DEFINE F == First
           N == NCold
           K == NBuffers
           c == current
           x == layer[current]
           v == OtherSlot(current)
<1>1. /\ F \in Nat /\ N \in Nat /\ F + N = LayerEnd /\ F' = F /\ N' = N
      /\ K \in Nat /\ K > 1 /\ K < N
      /\ \A t \in Slots : t \in Nat /\ t < K
  BY PinnedFacts, SamePlan, ConfigAssumption DEF Slots
<1>2. x \in F .. F + N - 1 /\ c \in Slots /\ layer'[v] = F
  BY <1>1
<1>3. v = (IF c + 1 = K THEN 0 ELSE c + 1) /\ v \in Slots
  BY OtherSlotIs, OtherSlotProps
<1>4. \A t \in Slots :
        /\ (IF t <= c THEN c - t ELSE c - t + K) <= K - 2
        /\ (IF t <= c THEN c - t ELSE c - t + K) <= x - F
        => state[t] = "Ready" /\ layer[t] = x - (IF t <= c THEN c - t ELSE c - t + K)
  BY DEF Trail, Gap
<1>5. \A t \in Slots : state[t] = "Ready" => layer[t] # F
  BY DEF Holding
<1>6. \A t \in Slots : t # v => layer'[t] = layer[t]
  OBVIOUS
<1> HIDE DEF F, N, K, c, x, v
<1>7. x - F >= K - 1
  <2> SUFFICES ASSUME x - F <= K - 2
               PROVE  FALSE
    BY <1>1, <1>2
  <2>1. PICK t \in Slots : (IF t <= c THEN c - t ELSE c - t + K) = x - F
    <3>1. CASE x - F <= c
      <4>1. c - (x - F) \in Slots
        BY <1>1, <1>2, <3>1 DEF Slots, K
      <4> QED BY <1>1, <1>2, <3>1, <4>1
    <3>2. CASE ~(x - F <= c)
      <4>1. c - (x - F) + K \in Slots
        BY <1>1, <1>2, <3>2 DEF Slots, K
      <4> QED BY <1>1, <1>2, <3>2, <4>1
    <3> QED BY <3>1, <3>2
  <2>2. state[t] = "Ready" /\ layer[t] = x - (x - F)
    BY <1>1, <1>2, <1>4, <2>1
  <2> QED BY <1>1, <1>2, <1>5, <2>2
<1>8. ASSUME NEW t \in Slots, t # v
      PROVE  layer'[t] = x - (IF t <= c THEN c - t ELSE c - t + K)
  <2>1. (IF t <= c THEN c - t ELSE c - t + K) <= K - 2
    BY <1>1, <1>2, <1>3, <1>8
  <2>2. (IF t <= c THEN c - t ELSE c - t + K) \in Nat
    BY <1>1, <1>2
  <2> QED BY <1>1, <1>2, <1>4, <1>6, <1>7, <1>8, <2>1, <2>2
<1>9. ASSUME NEW t \in Slots, NEW u \in Slots, t # u
      PROVE  (IF t <= u THEN u - t ELSE u - t + K)
               <= (IF layer'[t] <= layer'[u] THEN layer'[u] - layer'[t]
                                             ELSE layer'[u] - layer'[t] + N)
  <2>1. t \in Nat /\ t < K /\ u \in Nat /\ u < K /\ c \in Nat /\ c < K
    BY <1>1, <1>2
  <2>2. CASE t # v /\ u # v
    <3>1. /\ layer'[t] = x - (IF t <= c THEN c - t ELSE c - t + K)
          /\ layer'[u] = x - (IF u <= c THEN c - u ELSE c - u + K)
      BY <1>8, <2>2
    <3> QED BY <1>1, <1>2, <1>3, <1>7, <1>9, <2>1, <2>2, <3>1
  <2>3. CASE u = v
    <3>1. /\ layer'[t] = x - (IF t <= c THEN c - t ELSE c - t + K)
          /\ layer'[u] = F
      BY <1>2, <1>8, <1>9, <2>3
    <3> QED BY <1>1, <1>2, <1>3, <1>7, <1>9, <2>1, <2>3, <3>1
  <2>4. CASE t = v
    <3>1. /\ layer'[u] = x - (IF u <= c THEN c - u ELSE c - u + K)
          /\ layer'[t] = F
      BY <1>2, <1>8, <1>9, <2>4
    <3> QED BY <1>1, <1>2, <1>3, <1>7, <1>9, <2>1, <2>4, <3>1
  <2> QED BY <2>2, <2>3, <2>4
<1> QED BY <1>1, <1>9 DEF Spread, Gap, Way, N, K

LEMMA MissRotates ==
  ASSUME IInv, PassInv, Ring, Calm, Regular, NBuffers < NCold, Rotation, LoadMiss(at)
  PROVE  Rotation' /\ ReadWanted' /\ NoRead
<1> DEFINE F == First
           N == NCold
           K == NBuffers
<1>1. TypeOK /\ PinnedRun /\ Labels /\ K > 1 /\ Spread
  BY DEF PassInv, IInv, Ring, Rotation
<1>2. /\ cpc \in {"idle", "using"} /\ OnRing(at) /\ Holding(at) = {}
      /\ Claim(Victim, at, TRUE) /\ await' = Victim /\ cpc' = "asleep"
      /\ want' = at /\ UNCHANGED <<pinned, current>>
  BY DEF LoadMiss, Begin, cfgVars
<1>3. /\ F \in Nat /\ N \in Nat /\ F + N = LayerEnd /\ at \in F .. LayerEnd - 1
      /\ F <= at /\ at \in Nat /\ at \in Owned
      /\ F' = F /\ N' = N /\ K \in Nat /\ K < N
      /\ \A t \in Slots : t \in Nat /\ t < K
  BY <1>1, <1>2, ColdCall, PinnedFacts, SamePlan, ConfigAssumption DEF Slots
<1>4. \A t \in Slots : Held(t) => layer[t] # at /\ layer[t] \in F .. LayerEnd - 1
  BY <1>1, <1>2 DEF Holding, Held, Labels
<1>5. /\ Victim \in Slots
      /\ current \in Slots => Victim = OtherSlot(current) /\ Victim # current
      /\ current = NoSlot => Victim = 0
      /\ current \in Slots \cup {NoSlot}
      /\ current \in Slots => state[current] = "Ready"
  BY <1>1, VictimIs, RingTypes DEF PassInv, Consumer
<1>6. /\ layer'[Victim] = at /\ state'[Victim] = "Loading"
      /\ \A t \in Slots : t # Victim => layer'[t] = layer[t] /\ state'[t] = state[t]
  BY <1>1, <1>2, <1>3, <1>5, ClaimEffect
<1>7. NoRead
  BY <1>2, <1>3, <1>4, ReadAtCall DEF NoRead, Held
<1>8. ReadWanted'
  BY <1>2, <1>6, <1>7 DEF ReadWanted, NoRead, Waiting
<1>9. CASE current \in Slots
  <2>1. layer[current] \in F .. LayerEnd - 1
    BY <1>4, <1>5, <1>9 DEF Held
  <2>2. Spread'
    <3>1. CASE cpc = "using"
      <4>1. NextLayer(layer[current]) = at
        <5>1. \/ F < at /\ layer[current] = at - 1
              \/ at = F /\ layer[current] = LayerEnd - 1
          BY <1>2, <1>3, <1>9, <3>1, AskedInOrder
        <5> QED BY <1>1, <1>3, <2>1, <5>1, NextLayerIs, ConfigAssumption
      <4> QED BY <1>1, <1>2, <1>5, <1>6, <1>9, <4>1, ClaimBehind DEF Held
    <3>2. CASE cpc = "idle"
      <4>1. at = F /\ pinned = {}
        BY <1>3, <3>2, AskedInOrder
      <4>2. Trail
        BY <4>1 DEF Rotation
      <4> QED BY <1>1, <1>2, <1>5, <1>6, <1>9, <2>1, <4>1, <4>2, RestartSpreads
    <3> QED BY <1>2, <3>1, <3>2
  <2>3. ASSUME Trail
        PROVE  Trail'
    <3>1. \A t \in Slots : Gap(t, current) <= K - 2 => t # Victim
      <4>1. Victim = IF current + 1 = K THEN 0 ELSE current + 1
        BY <1>1, <1>5, <1>9, OtherSlotIs
      <4> QED BY <1>3, <1>9, <4>1 DEF Gap
    <3>2. current' = current /\ layer'[current] = layer[current] /\ NoSlot \notin Slots
      BY <1>2, <1>5, <1>6, <1>9, ConfigAssumption DEF NoSlot, Slots
    <3> QED BY <1>3, <1>6, <1>9, <2>3, <3>1, <3>2 DEF Trail, Gap
  <2> QED BY <1>2, <1>7, <1>8, <2>2, <2>3 DEF Rotation
<1>10. CASE current = NoSlot
  <2>1. at = F
    BY <1>2, <1>3, <1>10, AskedInOrder, ConfigAssumption DEF NoSlot, Slots
  <2>2. CASE pinned = {}
    <3>1. \A t \in Slots : ~Held(t)
      BY <1>2, <1>10, <2>2 DEF Rotation, Trail, Waiting
    <3>2. \A t \in Slots : Held(t)' => t = Victim
      BY <1>6, <3>1 DEF Held
    <3>3. Spread'
      BY <3>2 DEF Spread
    <3>4. Trail'
      BY <1>2, <1>10, <3>2, ConfigAssumption DEF Trail, Waiting, NoSlot, Slots
    <3> QED BY <1>7, <1>8, <3>3, <3>4 DEF Rotation
  <2>3. CASE pinned # {}
    <3>1. K = 2
      BY <1>1, <1>3, <2>3, PinnedFacts DEF Regular
    <3>2. ASSUME NEW t \in Slots, NEW u \in Slots, t # u, Held(t)', Held(u)'
          PROVE  (IF t <= u THEN u - t ELSE u - t + K)
                   <= (IF layer'[t] <= layer'[u] THEN layer'[u] - layer'[t]
                                                 ELSE layer'[u] - layer'[t] + N)
      <4>1. /\ (IF t <= u THEN u - t ELSE u - t + K) = 1
            /\ t = Victim \/ u = Victim
        BY <1>3, <1>5, <3>1, <3>2
      <4>2. /\ layer'[t] \in F .. LayerEnd - 1 /\ layer'[u] \in F .. LayerEnd - 1
            /\ layer'[t] # layer'[u]
        BY <1>3, <1>4, <1>6, <3>2, <4>1 DEF Held
      <4> HIDE DEF F, N, K
      <4> QED BY <1>3, <4>1, <4>2
    <3>3. Spread'
      BY <1>3, <3>2 DEF Spread, Gap, Way
    <3> QED BY <1>2, <1>7, <1>8, <2>3, <3>3 DEF Rotation
  <2> QED BY <2>2, <2>3
<1> QED BY <1>5, <1>9, <1>10

\* A call for a layer on its way leaves the ring alone.
LEMMA InFlightRotates ==
  ASSUME IInv, PassInv, Rotation, LoadInFlight(at)
  PROVE  Rotation'
<1>1. /\ cpc \in {"idle", "using"}
      /\ FirstHolding(at) \in Slots /\ Held(FirstHolding(at))
      /\ UNCHANGED <<pinned, current, layer, state>>
  BY FirstHoldingProps DEF LoadInFlight, Begin, cfgVars, ringVars, Holding, Held
<1>2. First' = First /\ NCold' = NCold
  BY <1>1, SamePlan
<1>3. Spread'
  BY <1>1, <1>2 DEF Rotation, Spread, Held, Gap, Way
<1>4. ASSUME Trail
      PROVE  Trail'
  <2>1. current # NoSlot
    BY <1>1, <1>4 DEF Trail, Waiting
  <2> QED BY <1>1, <1>2, <1>4, <2>1 DEF Trail, Gap
<1> QED BY <1>1, <1>3, <1>4 DEF Rotation

\* So does one for a pinned layer.
LEMMA PinnedRotates ==
  ASSUME Rotation, LoadPinned(at)
  PROVE  Rotation'
<1>1. UNCHANGED <<pinned, layer, state>> /\ pinned # {}
  BY DEF LoadPinned, Begin, cfgVars, ringVars
<1>2. Spread'
  BY <1>1, SamePlan DEF Rotation, Spread, Held, Gap, Way
<1> QED BY <1>1, <1>2 DEF Rotation

-----------------------------------------------------------------------------
(* Every step of the pass.                                                 *)

\* What a step of a regular ring leaves behind.
OrderKept ==
  /\ Calm'
  /\ NCold <= NBuffers => Layout'
  /\ NBuffers < NCold => Rotation'

\* The buffers claimed anew hold what no other buffer holds.
ClaimsFresh ==
  NBuffers <= NCold =>
    \A s, t \in Slots : ticket'[s] # ticket[s] => ~(layer[t] = layer'[s] /\ state[t] = "Ready")

LEMMA ServeKeeps ==
  ASSUME IInv, PassInv, Ring, RingOrder, Regular,
         NEW s \in Slots, NEW l \in First .. LayerEnd - 1, Serving(s, l),
         NCold <= NBuffers => s < NCold
  PROVE  OrderKept /\ ClaimsFresh
<1>1. /\ TypeOK /\ PinnedRun /\ Labels /\ NBuffers > 1 /\ Calm /\ wjob' = wjob
      /\ NCold <= NBuffers => Layout
      /\ NBuffers < NCold => Rotation
      /\ NCold \in Nat /\ NBuffers \in Nat
  BY PinnedFacts, ConfigAssumption DEF IInv, PassInv, Ring, RingOrder, Serving
<1>2. /\ ServedWell(s, l)
      /\ NCold <= NBuffers => Layout'
      /\ NBuffers < NCold => Rotation'
  <2>1. CASE NCold <= NBuffers
    <3>1. Layout' /\ ServedWell(s, l)
      BY <1>1, <2>1, ServeLaidOut
    <3> QED BY <1>1, <2>1, <3>1
  <2>2. CASE NBuffers < NCold
    <3>1. Rotation' /\ ServedWell(s, l)
      BY <1>1, <2>2, ServeRotates
    <3> QED BY <1>1, <2>2, <3>1
  <2> QED BY <1>1, <2>1, <2>2
<1>3. OneRead' /\ ClaimsFresh
  <2>1. CASE layer[OtherSlot(s)] # NextLayer(l)
    <3>1. /\ OtherSlot(s) \in Slots /\ NextLayer(l) \in Owned
          /\ Claim(OtherSlot(s), NextLayer(l), FALSE)
          /\ layer'[OtherSlot(s)] = NextLayer(l)
          /\ \A t \in Slots : t # OtherSlot(s) => ticket'[t] = ticket[t]
      BY <1>1, <2>1, ServingEffect
    <3>2. /\ NoRead
          /\ NBuffers <= NCold =>
               \A t \in Slots : layer[t] = NextLayer(l) => state[t] # "Ready"
      BY <1>2, <2>1 DEF ServedWell
    <3>3. OneRead'
      BY <1>1, <3>1, <3>2, ClaimIsOnlyRead DEF Calm
    <3>4. ClaimsFresh
      BY <3>1, <3>2 DEF ClaimsFresh
    <3> QED BY <3>3, <3>4
  <2>2. CASE layer[OtherSlot(s)] = NextLayer(l)
    <3>1. UNCHANGED <<state, ticket, jobs, wpc, wjob>>
      BY <1>1, <2>2, ServingEffect
    <3> QED BY <1>1, <3>1, ReadsEnd DEF Calm, Working, ClaimsFresh
  <2> QED BY <2>1, <2>2
<1> QED BY <1>2, <1>3 DEF OrderKept, ServedWell, Calm

LEMMA MissKeeps ==
  ASSUME IInv, PassInv, Ring, RingOrder, Regular, LoadMiss(at)
  PROVE  OrderKept /\ ClaimsFresh
<1>1. /\ TypeOK /\ PinnedRun /\ NBuffers > 1 /\ Calm
      /\ NCold <= NBuffers => Layout
      /\ NBuffers < NCold => Rotation
      /\ NCold \in Nat /\ NBuffers \in Nat
  BY PinnedFacts, ConfigAssumption DEF IInv, PassInv, Ring, RingOrder
<1>2. /\ ReadWanted' /\ NoRead
      /\ NCold <= NBuffers => Layout'
      /\ NBuffers < NCold => Rotation'
  <2>1. CASE NCold <= NBuffers
    <3>1. Layout' /\ ReadWanted' /\ NoRead
      BY <1>1, <2>1, MissLaidOut
    <3> QED BY <1>1, <2>1, <3>1
  <2>2. CASE NBuffers < NCold
    <3>1. Rotation' /\ ReadWanted' /\ NoRead
      BY <1>1, <2>2, MissRotates
    <3> QED BY <1>1, <2>2, <3>1
  <2> QED BY <1>1, <2>1, <2>2
<1>3. /\ Victim \in Slots /\ at \in Owned
      /\ Claim(Victim, at, TRUE) /\ wjob' = wjob /\ Holding(at) = {}
  BY <1>1, VictimIs DEF LoadMiss, Begin, PassInv, PassAt
<1>4. OneRead'
  BY <1>1, <1>2, <1>3, ClaimIsOnlyRead DEF Calm
<1>5. ClaimsFresh
  BY <1>1, <1>3, ClaimEffect DEF ClaimsFresh, Holding
<1> QED BY <1>2, <1>4, <1>5 DEF OrderKept, Calm

LEMMA OrderStep ==
  ASSUME FInv, Ring, Regular, [PassNext]_passVars
  PROVE  OrderKept /\ ClaimsFresh
<1>1. /\ IInv /\ PassInv /\ RingOrder /\ Calm /\ OneRead /\ ReadWanted
      /\ PinnedRun /\ PassAt /\ Labels /\ TypeOK /\ CallerView /\ WorkerOwns
      /\ NCold <= NBuffers => Layout
      /\ NBuffers < NCold => Rotation
  BY DEF FInv, RingOrder, PassInv, IInv, RingInv, Calm
<1>2. CASE PassLoad /\ LoadHit(at)
  <2>1. /\ FirstHolding(at) \in Slots /\ at \in First .. LayerEnd - 1
        /\ Serving(FirstHolding(at), at)
    BY <1>1, <1>2, HitIsServing
  <2>2. NCold <= NBuffers => FirstHolding(at) < NCold
    BY <1>1, <1>2, <2>1, OwnSlotFirst DEF LoadHit
  <2> QED BY <1>1, <2>1, <2>2, ServeKeeps
<1>3. CASE WaitDone /\ at' = at
  <2>1. await \in Slots /\ want \in First .. LayerEnd - 1 /\ Serving(await, want)
    BY <1>1, <1>3, WaitIsServing
  <2>2. NCold <= NBuffers => await < NCold
    <3>1. Waiting
      BY <1>3 DEF WaitDone, Waiting
    <3> QED BY <1>1, <2>1, <3>1, PinnedFacts, ConfigAssumption DEF Layout
  <2> QED BY <1>1, <2>1, <2>2, ServeKeeps
<1>4. CASE LoadMiss(at)
  BY <1>1, <1>4, MissKeeps
<1>5. CASE LoadInFlight(at)
  <2>1. UNCHANGED <<state, ticket, jobs, wpc, wjob>>
    BY <1>5 DEF LoadInFlight, Begin, ringVars
  <2>2. OneRead' /\ ClaimsFresh
    BY <1>1, <2>1, ReadsEnd DEF Working, ClaimsFresh
  <2>3. ReadWanted'
    BY <1>1, <1>5, InFlightWanted
  <2>4. (Layout => Layout') /\ (Rotation => Rotation')
    BY <1>1, <1>5, InFlightLaidOut, InFlightRotates
  <2> QED BY <1>1, <2>2, <2>3, <2>4 DEF OrderKept, Calm
<1>6. CASE PassLoad /\ LoadPinned(at)
  <2>1. UNCHANGED <<state, ticket, jobs, wpc, wjob>>
    BY <1>6 DEF LoadPinned, Begin, ringVars
  <2>2. OneRead' /\ ClaimsFresh
    BY <1>1, <2>1, ReadsEnd DEF Working, ClaimsFresh
  <2>3. ReadWanted' /\ (Layout => Layout')
    BY <1>1, <1>6, PinnedCalm
  <2>4. Rotation => Rotation'
    BY <1>6, PinnedRotates
  <2> QED BY <1>1, <2>2, <2>3, <2>4 DEF OrderKept, Calm
<1>7. CASE WaitFailed
  <2>1. Calm' /\ (Layout => Layout') /\ (Rotation => Rotation')
    BY <1>1, <1>7, FailedKeeps
  <2>2. ticket' = ticket
    BY <1>7 DEF WaitFailed
  <2> QED BY <1>1, <2>1, <2>2 DEF OrderKept, ClaimsFresh
<1>8. ASSUME UNCHANGED <<pinned, layer, ticket, current, want, await, at>>,
             \A t \in Slots :
               /\ state[t] = "Ready" => state'[t] = "Ready"
               /\ state'[t] = "Loading" => state[t] = "Loading"
               /\ Held(t)' => Held(t),
             Waiting' <=> Waiting,
             cpc' \in {"idle", "using"} => cpc' = cpc,
             OneRead'
      PROVE  OrderKept /\ ClaimsFresh
  <2>1. (ReadWanted => ReadWanted') /\ (Layout => Layout') /\ (Rotation => Rotation')
    BY <1>8, SettlingKeeps
  <2> QED BY <1>1, <1>8, <2>1 DEF OrderKept, ClaimsFresh, Calm
<1>9. CASE WorkerMark /\ UNCHANGED at
  <2> USE <1>9 DEF WorkerMark
  <2>1. wjob.slot \in Slots /\ state[wjob.slot] = "Loading"
    BY <1>1 DEF WorkerOwns, Working, JobRecord
  <2>2. UNCHANGED <<pinned, layer, ticket, current, want, await, at, cpc, jobs, wjob>>
    BY DEF cfgVars
  <2>3. ASSUME NEW t \in Slots
        PROVE  /\ state[t] = "Ready" => state'[t] = "Ready"
               /\ state'[t] = "Loading" => state[t] = "Loading"
               /\ Held(t)' => Held(t)
    BY <1>1, <2>1, RingTypes DEF Held
  <2>4. OneRead'
    BY <1>1, <2>2, <2>3, ReadsEnd DEF Working
  <2> QED BY <1>8, <2>2, <2>3, <2>4 DEF Waiting
<1>10. CASE WorkerTake /\ UNCHANGED at
  <2>1. UNCHANGED <<pinned, layer, state, ticket, current, want, await, at, cpc>>
    BY <1>10 DEF WorkerTake, cfgVars, ringVars
  <2>2. OneRead'
    BY <1>1, <1>10, TakeKeepsOne
  <2> QED BY <1>8, <2>1, <2>2 DEF Waiting, Held
<1>11. CASE /\ \/ WaitAgain \/ SpuriousCallerWakeup \/ DestroyBegin \/ DestroyNotify
               \/ DestroyJoin \/ WorkerSleep \/ WorkerExit \/ WorkerRead \/ WorkerReadFails
               \/ WorkerFilled \/ WorkerNotify \/ SpuriousWorkerWakeup \/ UNCHANGED vars
            /\ UNCHANGED at
  <2>1. /\ UNCHANGED <<pinned, layer, state, ticket, current, want, await, at, jobs, wjob>>
        /\ Waiting' <=> Waiting
        /\ cpc' \in {"idle", "using"} => cpc' = cpc
        /\ Working' => Working
    BY <1>11 DEF WaitAgain, SpuriousCallerWakeup, DestroyBegin, DestroyNotify, DestroyJoin,
                 WorkerSleep, WorkerExit, WorkerRead, WorkerReadFails, WorkerFilled,
                 WorkerNotify, SpuriousWorkerWakeup, NotifyWorker, vars, cfgVars, ringVars,
                 workerVars, Waiting, Working
  <2>2. OneRead'
    BY <1>1, <2>1, ReadsEnd
  <2> QED BY <1>8, <2>1, <2>2 DEF Held
<1>12. ~LoadSyncHit(at) /\ ~LoadSyncMiss(at) /\ ~SyncRead /\ ~SyncReadFails /\ ~SyncDone
  BY <1>1 DEF LoadSyncHit, LoadSyncMiss, OnOneBuffer, SyncRead, SyncReadFails, SyncDone,
              CallerView, Ring
<1> QED
  BY <1>2, <1>3, <1>4, <1>5, <1>6, <1>7, <1>9, <1>10, <1>11, <1>12
     DEF PassNext, PassLoad, PassAbandoned, PassWaits, Load, WorkerStep, Gone, passVars

\* The order of a regular ring holds in every reachable state.
THEOREM PassOrder == PassSpec => []FInv
<1>1. PassInit => RingOrder
  <2> SUFFICES ASSUME PassInit PROVE RingOrder
    OBVIOUS
  <2> USE DEF PassInit, Init
  <2>1. /\ \A s \in Slots : state[s] = "Empty" /\ layer[s] = NoLayer
        /\ Len(jobs) = 0 /\ wpc \in {"loop", "none"} /\ cpc = "idle"
        /\ current = NoSlot /\ NoSlot \notin Slots
    BY ConfigAssumption DEF NoSlot, Slots
  <2>2. OneRead
    <3>1. 1 .. 0 = {}
      OBVIOUS
    <3> QED BY <2>1, <3>1 DEF OneRead, Working
  <2>3. ReadWanted /\ Layout /\ Spread /\ Trail
    BY <2>1 DEF ReadWanted, Layout, Spread, Trail, Held, Waiting
  <2> QED BY <2>2, <2>3 DEF RingOrder, Calm, Rotation
<1>2. FInv /\ (IInv /\ PassInv)' /\ [PassNext]_passVars => FInv'
  <2> SUFFICES ASSUME FInv, (IInv /\ PassInv)', [PassNext]_passVars, Regular', Ring'
               PROVE  Calm' /\ (NCold <= NBuffers => Layout)' /\ (NBuffers < NCold => Rotation)'
    BY DEF FInv, RingOrder
  <2>1. async' = async /\ pinned' = pinned
    BY DEF PassNext, PassLoad, PassAbandoned, PassWaits, passVars, vars, Load, LoadPinned,
           LoadHit, LoadInFlight, LoadMiss, LoadSyncHit, LoadSyncMiss, Begin, WaitAgain,
           WaitDone, WaitFailed, SyncRead, SyncReadFails, SyncDone, DestroyBegin,
           DestroyNotify, DestroyJoin, WorkerStep, WorkerTake, WorkerSleep, WorkerExit,
           WorkerRead, WorkerReadFails, WorkerFilled, WorkerMark, WorkerNotify,
           SpuriousCallerWakeup, SpuriousWorkerWakeup, Gone, cfgVars
  <2>2. Regular /\ Ring /\ NCold' = NCold
    BY <2>1, SamePlan DEF Ring
  <2>3. OrderKept
    BY <2>2, OrderStep
  <2> QED BY <2>2, <2>3 DEF OrderKept
<1>3. FInv <=> IInv /\ PassInv /\ RingOrder
  BY DEF FInv
<1> QED BY <1>1, <1>2, <1>3, PassInvariance, PTL DEF PassSpec

\* A call never finds more than one job in the queue of a regular ring: an
\* ordered caller leaves no work behind, whatever reads fail (loader.cpp:484-488,
\* 520-521).
THEOREM PassBoundsJobs == PassSpec => [](Regular => JobsBounded)
<1>1. FInv => (Regular => JobsBounded)
  <2> SUFFICES ASSUME FInv, Regular PROVE JobsBounded
    OBVIOUS
  <2>1. CASE Ring
    BY <2>1, OneReadOneJob DEF FInv, RingOrder, Calm
  <2>2. CASE ~Ring
    <3>1. jobs = <<>>
      BY <2>2 DEF FInv, IInv, RingInv, NoRing
    <3> QED BY <3>1 DEF JobsBounded
  <2> QED BY <2>1, <2>2
<1> QED BY <1>1, PassOrder, PTL

\* The worker never reads the layer the caller computes, so its statistics are
\* not shared (loader.cpp:469-473, transformer.cpp:843).
THEOREM PassSharesNoStats == PassSpec => [](Regular => StatsUnshared)
<1>1. FInv => (Regular => StatsUnshared)
  <2> SUFFICES ASSUME FInv, Regular, Cardinality(ColdLayers) >= NBuffers,
                      cpc = "using", wpc = "fill", want = wjob.layer
               PROVE  FALSE
    BY DEF StatsUnshared
  <2>1. Ring /\ PinnedRun /\ PassAt /\ Labels /\ Calm /\ wjob.slot \in Slots
    BY DEF FInv, IInv, RingInv, NoRing, WorkerOwns, Working, JobRecord, PassInv, RingOrder
  <2>2. state[wjob.slot] = "Loading" /\ layer[wjob.slot] = want
    BY DEF FInv, IInv, RingInv, WorkerOwns, RingOrder, Calm, OneRead, Working, Ring, NoRing
  <2>3. want \in Owned /\ at = After(want)
    BY DEF FInv, IInv, CallerView, PassInv, PassAt
  <2>4. NCold >= NBuffers /\ NBuffers > 1 /\ NBuffers \in Nat
    BY <2>1, PinnedFacts, ConfigAssumption DEF Ring
  <2>5. wjob.slot # NCold
    BY <2>1, <2>4, PinnedFacts DEF Slots
  <2>6. want = Expected
    BY <2>1, <2>2, <2>5 DEF Calm, ReadWanted
  <2>7. /\ First \in Nat /\ LayerBegin <= First /\ First <= LayerEnd
        /\ NCold = LayerEnd - First
    BY <2>1, PinnedFacts
  <2> QED BY <2>3, <2>4, <2>6, <2>7, ConfigAssumption DEF Expected, After, Owned
<1> QED BY <1>1, PassOrder, PTL

\* No claim of a regular ring rereads a layer some buffer holds: a pass streams
\* each cold layer once (loader.cpp:556-563, 599-601).
THEOREM PassWastesNoRead == PassSpec => NoWastedRead
<1>1. FInv /\ [PassNext]_passVars =>
        [\A s, t \in Slots :
           /\ Regular
           /\ Cardinality(ColdLayers) >= NBuffers
           /\ ticket'[s] # ticket[s]
           => ~(layer[t] = layer'[s] /\ state[t] = "Ready")]_passVars
  <2> SUFFICES ASSUME FInv, [PassNext]_passVars, NEW s \in Slots, NEW t \in Slots,
                      Regular, Cardinality(ColdLayers) >= NBuffers, ticket'[s] # ticket[s]
               PROVE  ~(layer[t] = layer'[s] /\ state[t] = "Ready")
    OBVIOUS
  <2>1. NBuffers <= NCold
    BY PinnedFacts, ConfigAssumption DEF FInv, PassInv
  <2>2. CASE Ring
    BY <2>1, <2>2, OrderStep DEF ClaimsFresh
  <2>3. CASE ~Ring
    <3>1. ticket' = ticket
      BY <2>3, RingTypes DEF FInv, IInv, CallerView, PassNext, PassLoad, PassAbandoned,
         PassWaits, passVars, vars, Load, LoadPinned, LoadHit, LoadInFlight, LoadMiss,
         LoadSyncHit, LoadSyncMiss, OnRing, WaitAgain, WaitDone, WaitFailed, SyncRead,
         SyncReadFails, SyncDone, DestroyBegin, DestroyNotify, DestroyJoin, WorkerStep,
         WorkerTake, WorkerSleep, WorkerExit, WorkerRead, WorkerReadFails, WorkerFilled,
         WorkerMark, WorkerNotify, SpuriousCallerWakeup, SpuriousWorkerWakeup, Gone,
         ringVars, Ring
    <3> QED BY <3>1
  <2> QED BY <2>2, <2>3
<1> QED BY <1>1, PassOrder, PTL DEF PassSpec, NoWastedRead

=============================================================================
