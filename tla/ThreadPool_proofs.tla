-------------------------- MODULE ThreadPool_proofs --------------------------
(***************************************************************************)
(* The thread pool's types, its barrier and the safety of its plain fields *)
(* for any number of threads, any number of calls and any chunks.          *)
(***************************************************************************)
EXTENDS ThreadPool, FiniteSetTheorems, TLAPS

(* The types, without the bounds on the two counters, which follow from    *)
(* what they count.                                                        *)
Scalars ==
  /\ fn \in Nat /\ total \in 0 .. MaxTotal /\ chunk \in Nat
  /\ nextRow \in Nat /\ remaining \in Int /\ generation \in Nat
  /\ sleepers \in Int /\ calls \in Nat

Flags == static \in BOOLEAN /\ mainWaiting \in BOOLEAN /\ stop \in BOOLEAN

Places ==
  /\ pc \in [Threads -> PcOfCaller \cup PcOfWorker]
  /\ pc[0] \in PcOfCaller
  /\ \A w \in Workers : pc[w] \in PcOfWorker

Locals ==
  /\ seen \in [Workers -> Nat]
  /\ g \in [Workers -> Nat]
  /\ range \in [Threads -> Nat \X Nat]
  /\ done \in [0 .. MaxTotal -> Nat]

Types == Scalars /\ Flags /\ Places /\ Locals

LEMMA ThreadsSplit ==
  /\ 0 \in Threads /\ Threads = {0} \cup Workers /\ 0 \notin Workers
  /\ Workers = 1 .. NThreads - 1
  /\ \A t \in Threads : t \in Nat
  BY PoolAssumption DEF Threads, Workers

(* Moving one thread to a place of its own kind keeps the places' types. *)
LEMMA MovePreservesPlaces ==
  ASSUME Places, NEW t \in Threads, NEW where,
         GoTo(t, where),
         t = 0 => where \in PcOfCaller,
         t # 0 => where \in PcOfWorker
  PROVE  Places'
  BY ThreadsSplit DEF Places, GoTo

LEMMA ChunkIsNat ==
  ASSUME NEW n \in 1 .. MaxTotal, NEW policy \in Policies, NEW override \in {0, 1}
  PROVE  ChunkOf(n, policy, override) \in Nat
  <1>1. /\ NThreads \in Nat /\ NThreads > 0 /\ NThreads * Parts \in Nat
        /\ NThreads * Parts > 0 /\ n \in Nat
    <2>1. NThreads \in Nat /\ NThreads > 0 /\ Parts \in Nat /\ Parts > 0
      BY PoolAssumption
    <2> QED BY <2>1
  <1>2. (n + NThreads - 1) \div NThreads \in Nat
    BY <1>1
  <1>3. n \div (NThreads * Parts) \in Nat
    BY <1>1
  <1> QED BY <1>2, <1>3, PoolAssumption DEF ChunkOf, LargerOf, Policies

LEMMA StartTypes == Init => Types
  <1> SUFFICES ASSUME Init PROVE Types
    OBVIOUS
  <1>1. Places
    BY ThreadsSplit DEF Init, Places, PcOfCaller, PcOfWorker
  <1>2. Scalars
    BY PoolAssumption DEF Init, Scalars
  <1>3. Flags
    BY DEF Init, Flags
  <1>4. Locals
    BY DEF Init, Locals, NoRange
  <1> QED BY <1>1, <1>2, <1>3, <1>4 DEF Types

(* A caller's step outside the chunks of the loop. *)
CallerQuiet ==
  \/ SetRemaining \/ SetGeneration \/ SpinDone \/ SpinTired \/ Announce
  \/ WaitMore \/ Block \/ WaitOver \/ Withdraw \/ Return \/ Join \/ Destroy

LEMMA CallerTypes ==
  ASSUME Types, CallerQuiet
  PROVE  Types'
  <1> USE DEF fields, atomics
  <1>1. Places'
    <2>1. \E where \in PcOfCaller : GoTo(0, where)
      BY DEF CallerQuiet, SetRemaining, SetGeneration, SpinDone, SpinTired,
             Announce, WaitMore, Block, WaitOver, Withdraw, Return, Join, Destroy, PcOfCaller
    <2> QED BY <2>1, MovePreservesPlaces, ThreadsSplit DEF Types
  <1>2. Scalars'
    <2>1. NThreads - 1 \in Int
      BY PoolAssumption
    <2>2. /\ fn' \in {fn, 0} /\ remaining' \in {remaining, NThreads - 1}
          /\ generation' \in {generation, generation + 1}
          /\ UNCHANGED <<total, chunk, nextRow, sleepers, calls>>
      BY DEF CallerQuiet, SetRemaining, SetGeneration, SpinDone, SpinTired,
             Announce, WaitMore, Block, WaitOver, Withdraw, Return, Join, Destroy
    <2> QED BY <2>1, <2>2 DEF Types, Scalars
  <1>3. Flags'
    BY DEF CallerQuiet, SetRemaining, SetGeneration, SpinDone, SpinTired,
           Announce, WaitMore, Block, WaitOver, Withdraw, Return, Join, Destroy, Types, Flags
  <1>4. Locals'
    <2>1. UNCHANGED <<seen, g, range, done>>
      BY DEF CallerQuiet, SetRemaining, SetGeneration, SpinDone, SpinTired,
             Announce, WaitMore, Block, WaitOver, Withdraw, Return, Join, Destroy
    <2> QED BY <2>1 DEF Types, Locals
  <1> QED BY <1>1, <1>2, <1>3, <1>4 DEF Types

LEMMA CallTypes ==
  ASSUME Types, AnyCall
  PROVE  Types'
  <1> USE DEF fields, atomics
  <1>1. CASE CallNothing
    BY <1>1 DEF CallNothing, Types, Scalars, Flags, Places, Locals
  <1>2. ASSUME NEW n \in 1 .. MaxTotal, NEW policy \in Policies,
               NEW override \in {0, 1}, Call(n, policy, override)
        PROVE  Types'
    <2>1. Places'
      <3>1. GoTo(0, "setRemaining") /\ "setRemaining" \in PcOfCaller
        BY <1>2 DEF Call, PcOfCaller
      <3> QED BY <3>1, MovePreservesPlaces, ThreadsSplit DEF Types
    <2>2. Scalars'
      <3>1. chunk' \in Nat
        BY <1>2, ChunkIsNat DEF Call
      <3>2. total' \in 0 .. MaxTotal
        BY <1>2, PoolAssumption DEF Call
      <3>3. /\ fn' = calls + 1 /\ calls' = calls + 1 /\ nextRow' = 0
            /\ UNCHANGED <<remaining, generation, sleepers>>
        BY <1>2 DEF Call
      <3> QED BY <3>1, <3>2, <3>3 DEF Types, Scalars
    <2>3. Flags'
      BY <1>2 DEF Call, StaticSplit, Types, Flags
    <2>4. Locals'
      BY <1>2 DEF Call, Types, Locals
    <2> QED BY <2>1, <2>2, <2>3, <2>4 DEF Types
  <1> QED BY <1>1, <1>2 DEF AnyCall

LEMMA WakeTypes ==
  ASSUME Types, Wake \/ DestroyNotify
  PROVE  Types'
  <1> USE DEF fields, atomics
  <1>1. PICK where \in PcOfCaller :
          pc' = [WakeAll EXCEPT ![0] = where] \/ pc' = [pc EXCEPT ![0] = where]
    BY DEF Wake, DestroyNotify, PcOfCaller
  <1>2. /\ WakeAll \in [Threads -> PcOfCaller \cup PcOfWorker]
        /\ \A w \in Workers : WakeAll[w] \in PcOfWorker
    BY ThreadsSplit DEF Types, Places, WakeAll, PcOfWorker
  <1>3. Places'
    BY <1>1, <1>2, ThreadsSplit DEF Types, Places
  <1> QED BY <1>3 DEF Wake, DestroyNotify, Types, Scalars, Flags, Locals

LEMMA ChunkTypes ==
  ASSUME Types, NEW t \in Threads, RunChunk(t)
  PROVE  Types'
  <1> USE DEF fields, atomics
  <1>1. PICK where \in {"run", "body", "barrier", "leave"} :
          GoTo(t, where) /\ (t = 0 => where # "leave") /\ (t # 0 => where # "barrier")
    BY DEF RunChunk, ClaimStatic, ClaimDynamic, Body, AfterRun
  <1>2. Places'
    BY <1>1, MovePreservesPlaces DEF PcOfCaller, PcOfWorker, Types
  <1>3. t \in Nat /\ chunk \in Nat /\ total \in Nat /\ nextRow \in Nat
        /\ t * chunk \in Nat
    BY ThreadsSplit DEF Types, Scalars
  <1>4. range' \in [Threads -> Nat \X Nat]
    <2>1. \/ UNCHANGED range
          \/ \E r \in Nat \X Nat : range' = [range EXCEPT ![t] = r]
      <3>1. CASE ClaimStatic(t)
        <4>1. SmallerOf(t * chunk + chunk, total) \in Nat
          BY <1>3 DEF SmallerOf
        <4> QED BY <1>3, <3>1, <4>1 DEF ClaimStatic
      <3>2. CASE ClaimDynamic(t)
        <4>1. SmallerOf(nextRow + chunk, total) \in Nat
          BY <1>3 DEF SmallerOf
        <4> QED BY <1>3, <3>2, <4>1 DEF ClaimDynamic
      <3>3. CASE Body(t)
        BY <3>3 DEF Body, NoRange
      <3> QED BY <3>1, <3>2, <3>3 DEF RunChunk
    <2> QED BY <2>1 DEF Types, Locals
  <1>5. nextRow' \in Nat
    BY <1>3 DEF RunChunk, ClaimStatic, ClaimDynamic, Body
  <1>6. done' \in [0 .. MaxTotal -> Nat]
    BY DEF RunChunk, ClaimStatic, ClaimDynamic, Body, Types, Locals
  <1>7. UNCHANGED <<fields, remaining, generation, sleepers, mainWaiting, stop,
                    seen, g, calls>>
    BY DEF RunChunk, ClaimStatic, ClaimDynamic, Body
  <1>8. Scalars'
    BY <1>5, <1>7 DEF Types, Scalars
  <1>9. Flags'
    BY <1>7 DEF Types, Flags
  <1> QED BY <1>2, <1>4, <1>6, <1>7, <1>8, <1>9 DEF Types, Locals

LEMMA WorkerTypes ==
  ASSUME Types, NEW w \in Workers,
         \/ SpinSees(w) \/ SpinGivesUp(w) \/ Sleep(w) \/ Recheck(w) \/ Check(w)
         \/ Leave(w) \/ Last(w)
  PROVE  Types'
  <1> USE DEF fields, atomics
  <1>1. PICK where \in PcOfWorker : GoTo(w, where)
    BY DEF SpinSees, SpinGivesUp, Sleep, Recheck, Check, Leave, Last, PcOfWorker
  <1>2. Places'
    BY <1>1, MovePreservesPlaces, ThreadsSplit DEF Types
  <1>3. /\ remaining' \in {remaining, remaining - 1}
        /\ sleepers' \in {sleepers, sleepers + 1, sleepers - 1}
        /\ seen' \in {seen, [seen EXCEPT ![w] = g[w]]}
        /\ g' \in {g, [g EXCEPT ![w] = generation]}
    BY DEF SpinSees, SpinGivesUp, Sleep, Recheck, Check, Leave, Last
  <1>4. UNCHANGED <<fields, nextRow, generation, mainWaiting, stop, range,
                    calls, done>>
    BY DEF SpinSees, SpinGivesUp, Sleep, Recheck, Check, Leave, Last
  <1>5. Scalars'
    BY <1>3, <1>4 DEF Types, Scalars
  <1>6. Flags'
    BY <1>4 DEF Types, Flags
  <1>7. Locals'
    BY <1>3, <1>4 DEF Types, Locals, Scalars
  <1> QED BY <1>2, <1>5, <1>6, <1>7 DEF Types

LEMMA WakeupTypes ==
  ASSUME Types, NEW t \in Threads,
         SpuriousWakeup(t) \/ (t \in Workers /\ Notify(t))
  PROVE  Types'
  <1> USE DEF fields, atomics
  <1>1. Places'
    BY ThreadsSplit DEF SpuriousWakeup, Notify, GoTo, Types, Places, PcOfCaller, PcOfWorker
  <1> QED BY <1>1 DEF SpuriousWakeup, Notify, Types, Scalars, Flags, Locals

LEMMA StepTypes == Types /\ [Next]_vars => Types'
  <1> SUFFICES ASSUME Types, [Next]_vars PROVE Types'
    OBVIOUS
  <1>1. CASE AnyCall
    BY <1>1, CallTypes
  <1>2. CASE CallerStep
    BY <1>2, ThreadsSplit, CallerTypes, WakeTypes, ChunkTypes
       DEF CallerStep, CallerQuiet
  <1>3. ASSUME NEW w \in Workers, WorkerStep(w) \/ SpinGivesUp(w)
        PROVE  Types'
    BY <1>3, ThreadsSplit, WorkerTypes, ChunkTypes, WakeupTypes DEF WorkerStep
  <1>4. ASSUME NEW t \in Threads, SpuriousWakeup(t) PROVE Types'
    BY <1>4, WakeupTypes
  <1>5. CASE Destroy
    BY <1>5, CallerTypes DEF CallerQuiet
  <1>6. CASE Gone \/ UNCHANGED vars
    BY <1>6 DEF Gone, vars, Types, Scalars, Flags, Places, Locals
  <1> QED BY <1>1, <1>2, <1>3, <1>4, <1>5, <1>6 DEF Next

-----------------------------------------------------------------------------
(* The protocol.  A worker in the loop runs the current generation; what a *)
(* worker is about to check is the current generation, and new to it       *)
(* unless the pool stops; outside Open all are through with the current    *)
(* generation, and within it remaining_ is the number of those that are    *)
(* not.                                                                    *)
Working(w) == pc[w] \in {"run", "body", "leave"}
Shut == pc[0] \in {"stopping", "join", "gone"}
Unfinished == {w \in Workers : ~Through(w)}

RunsCurrent == \A w \in Workers : Working(w) => seen[w] = generation
ChecksNew ==
  \A w \in Workers :
    pc[w] = "check" => g[w] = generation /\ (stop \/ seen[w] # generation)
AllThrough == ~Open => \A w \in Workers : Through(w)
Described ==
  Open \/ pc[0] \in {"setRemaining", "setGeneration"} => fn = calls
Reset == pc[0] = "setGeneration" => remaining = NThreads - 1
StopsLast == stop => Shut
ExitsLast == \A w \in Workers : pc[w] = "exited" => stop
Counted == Open => remaining = Cardinality(Unfinished)

Protocol ==
  RunsCurrent /\ ChecksNew /\ AllThrough /\ Described /\ Reset /\ StopsLast
    /\ ExitsLast /\ Counted

LEMMA StartProtocol == Init => Protocol
  <1> SUFFICES ASSUME Init PROVE Protocol
    OBVIOUS
  <1>1. pc[0] = "idle" /\ (\A w \in Workers : pc[w] = "spin") /\ stop = FALSE
    BY ThreadsSplit DEF Init
  <1>2. generation = 0 /\ \A w \in Workers : seen[w] = 0
    BY DEF Init
  <1> QED
    BY <1>1, <1>2
       DEF Protocol, RunsCurrent, ChecksNew, AllThrough, Described, Reset,
           StopsLast, ExitsLast, Counted, Open, Working, Through, Shut

(* A step that only moves a thread, neither into nor out of the loop, the  *)
(* call or the end of the pool, keeps the protocol.                        *)
LEMMA QuietKeeps ==
  ASSUME Protocol,
         UNCHANGED <<generation, remaining, seen, g, fn, calls, stop>>,
         \A w \in Workers :
           \/ pc'[w] = pc[w]
           \/ Working(w) /\ Working(w)'
           \/ ~Working(w) /\ ~Working(w)' /\ pc'[w] \notin {"check", "exited"},
         \/ pc'[0] = pc[0]
         \/ Open /\ Open'
         \/ Shut /\ Shut'
  PROVE  Protocol'
  <1>1. \A w \in Workers : Through(w)' <=> Through(w)
    BY DEF Through, Working
  <1>2. Unfinished' = Unfinished
    BY <1>1 DEF Unfinished
  <1>3. (Open' <=> Open) /\ (Shut' <=> Shut)
    BY DEF Open, Shut
  <1>4. pc'[0] \in {"setRemaining", "setGeneration"} => pc'[0] = pc[0]
    BY DEF Open, Shut
  <1>5. RunsCurrent'
    BY DEF Protocol, RunsCurrent, Working
  <1>6. ChecksNew'
    BY DEF Protocol, ChecksNew, Working
  <1>7. AllThrough'
    BY <1>1, <1>3 DEF Protocol, AllThrough
  <1>8. Described' /\ Reset' /\ StopsLast'
    BY <1>3, <1>4 DEF Protocol, Described, Reset, StopsLast
  <1>9. ExitsLast'
    BY DEF Protocol, ExitsLast, Working
  <1>10. Counted'
    BY <1>2, <1>3 DEF Protocol, Counted
  <1> QED BY <1>5, <1>6, <1>7, <1>8, <1>9, <1>10 DEF Protocol

(* What the other threads do to a thread that is not moved. *)
LEMMA Moves ==
  ASSUME Types, NEW t \in Threads, NEW where, GoTo(t, where)
  PROVE  /\ pc'[t] = where
         /\ \A u \in Threads : u # t => pc'[u] = pc[u]
         /\ t # 0 => pc'[0] = pc[0]
         /\ t = 0 => \A w \in Workers : pc'[w] = pc[w]
  BY ThreadsSplit DEF Types, Places, GoTo

LEMMA WakingMoves ==
  ASSUME Types, Wake \/ DestroyNotify, NEW w \in Workers
  PROVE  pc'[w] = pc[w] \/ (pc[w] = "asleep" /\ pc'[w] = "lock")
  <1>1. w \in Threads /\ w # 0
    BY ThreadsSplit
  <1>2. WakeAll[w] = IF pc[w] = "asleep" THEN "lock" ELSE pc[w]
    BY <1>1 DEF WakeAll
  <1>3. pc'[w] = pc[w] \/ pc'[w] = WakeAll[w]
    <2>1. CASE Wake
      <3>1. CASE sleepers > 0
        <4>1. pc' = [WakeAll EXCEPT ![0] = "run"]
          BY <2>1, <3>1 DEF Wake
        <4> QED BY <1>1, <4>1 DEF WakeAll
      <3>2. CASE ~(sleepers > 0)
        <4>1. pc' = [pc EXCEPT ![0] = "run"]
          BY <2>1, <3>2 DEF Wake
        <4> QED BY <1>1, <4>1 DEF Types, Places
      <3> QED BY <3>1, <3>2
    <2>2. CASE DestroyNotify
      <3>1. pc' = [WakeAll EXCEPT ![0] = "join"]
        BY <2>2 DEF DestroyNotify
      <3> QED BY <1>1, <3>1 DEF WakeAll
    <2> QED BY <2>1, <2>2
  <1> QED BY <1>2, <1>3

LEMMA QuietSteps ==
  ASSUME Types, Protocol,
         \/ Wake \/ DestroyNotify \/ SpinTired \/ Announce \/ WaitMore \/ Block \/ Join
         \/ \E t \in Threads : RunChunk(t) \/ SpuriousWakeup(t)
         \/ \E w \in Workers : SpinGivesUp(w) \/ Last(w) \/ Notify(w)
         \/ Gone \/ UNCHANGED vars
  PROVE  Protocol'
  <1> USE DEF fields, atomics
  <1>1. CASE Wake \/ DestroyNotify
    <2>1. pc'[0] \in {"run", "join"} /\ (Wake => pc[0] = "wake" /\ pc'[0] = "run")
          /\ (DestroyNotify => pc[0] = "stopping" /\ pc'[0] = "join")
      BY <1>1, ThreadsSplit DEF Wake, DestroyNotify, WakeAll, Types, Places
    <2>2. \A w \in Workers :
            \/ pc'[w] = pc[w]
            \/ ~Working(w) /\ ~Working(w)' /\ pc'[w] \notin {"check", "exited"}
      BY <1>1, WakingMoves DEF Working
    <2>3. (Open /\ Open') \/ (Shut /\ Shut')
      BY <1>1, <2>1 DEF Open, Shut
    <2> QED BY <1>1, <2>2, <2>3, QuietKeeps DEF Wake, DestroyNotify
  <1>2. CASE SpinTired \/ Announce \/ WaitMore \/ Block \/ Join
    <2>1. PICK where : GoTo(0, where) /\ where \in
            {"tired", "testDone", "blocking", "asleep", "gone"} /\ (where = "gone" <=> pc[0] = "join")
      BY <1>2 DEF SpinTired, Announce, WaitMore, Block, Join
    <2>2. pc'[0] = where /\ \A w \in Workers : pc'[w] = pc[w]
      BY <2>1, Moves, ThreadsSplit
    <2>3. (Open /\ Open') \/ (Shut /\ Shut')
      BY <1>2, <2>1, <2>2 DEF Open, Shut, SpinTired, Announce, WaitMore, Block, Join
    <2> QED BY <1>2, <2>2, <2>3, QuietKeeps DEF SpinTired, Announce, WaitMore, Block, Join
  <1>3. ASSUME NEW t \in Threads, RunChunk(t) PROVE Protocol'
    <2>1. PICK where \in {"run", "body", "barrier", "leave"} :
            GoTo(t, where) /\ (t = 0 => where # "leave") /\ (t # 0 => where # "barrier")
      BY <1>3 DEF RunChunk, ClaimStatic, ClaimDynamic, Body, AfterRun
    <2>2. pc[t] \in {"run", "body"}
      BY <1>3 DEF RunChunk, ClaimStatic, ClaimDynamic, Body
    <2>3. UNCHANGED <<generation, remaining, seen, g, fn, calls, stop>>
      BY <1>3 DEF RunChunk, ClaimStatic, ClaimDynamic, Body
    <2>4. CASE t = 0
      <3>1. Open /\ Open' /\ \A w \in Workers : pc'[w] = pc[w]
        BY <2>1, <2>2, <2>4, Moves DEF Open
      <3> QED BY <2>3, <3>1, QuietKeeps
    <2>5. CASE t # 0
      <3>1. /\ Working(t) /\ Working(t)' /\ pc'[0] = pc[0]
            /\ \A w \in Workers : w # t => pc'[w] = pc[w]
        BY <2>1, <2>2, <2>5, Moves, ThreadsSplit DEF Working
      <3> QED BY <2>3, <3>1, QuietKeeps
    <2> QED BY <2>4, <2>5
  <1>4. ASSUME NEW t \in Threads, SpuriousWakeup(t) PROVE Protocol'
    <2>1. /\ pc[t] = "asleep"
          /\ GoTo(t, IF t = 0 THEN "woken" ELSE "lock")
          /\ UNCHANGED <<generation, remaining, seen, g, fn, calls, stop>>
      BY <1>4 DEF SpuriousWakeup
    <2>2. CASE t = 0
      <3>1. Open /\ Open' /\ \A w \in Workers : pc'[w] = pc[w]
        BY <2>1, <2>2, Moves DEF Open
      <3> QED BY <2>1, <3>1, QuietKeeps
    <2>3. CASE t # 0
      <3>1. /\ ~Working(t) /\ ~Working(t)' /\ pc'[t] = "lock" /\ pc'[0] = pc[0]
            /\ \A w \in Workers : w # t => pc'[w] = pc[w]
        BY <2>1, <2>3, Moves, ThreadsSplit DEF Working
      <3> QED BY <2>1, <3>1, QuietKeeps
    <2> QED BY <2>2, <2>3
  <1>5. ASSUME NEW w \in Workers, SpinGivesUp(w) \/ Last(w) PROVE Protocol'
    <2>1. PICK where \in {"tired", "notify", "spin"} : GoTo(w, where)
      BY <1>5 DEF SpinGivesUp, Last
    <2>2. /\ pc[w] \in {"spin", "last"}
          /\ UNCHANGED <<generation, remaining, seen, g, fn, calls, stop>>
      BY <1>5 DEF SpinGivesUp, Last
    <2>3. /\ ~Working(w) /\ ~Working(w)' /\ pc'[w] \notin {"check", "exited"}
          /\ pc'[0] = pc[0] /\ \A v \in Workers : v # w => pc'[v] = pc[v]
      BY <2>1, <2>2, Moves, ThreadsSplit DEF Working
    <2> QED BY <2>2, <2>3, QuietKeeps
  <1>6. ASSUME NEW w \in Workers, Notify(w) PROVE Protocol'
    <2>1. /\ pc[w] = "notify" /\ pc'[w] = "spin"
          /\ pc'[0] = pc[0] \/ (pc[0] = "asleep" /\ pc'[0] = "woken")
          /\ \A v \in Workers : v # w => pc'[v] = pc[v]
          /\ UNCHANGED <<generation, remaining, seen, g, fn, calls, stop>>
      BY <1>6, ThreadsSplit DEF Notify, Types, Places
    <2>2. /\ ~Working(w) /\ ~Working(w)'
          /\ pc'[0] = pc[0] \/ (Open /\ Open')
      BY <2>1 DEF Working, Open
    <2> QED BY <2>1, <2>2, QuietKeeps
  <1>7. CASE Gone \/ UNCHANGED vars
    <2>1. UNCHANGED <<generation, remaining, seen, g, fn, calls, stop, pc>>
      BY <1>7 DEF Gone, vars
    <2> QED BY <2>1, QuietKeeps
  <1> QED BY <1>1, <1>2, <1>3, <1>4, <1>5, <1>6, <1>7

(* The workers are finitely many, and so are those not through. *)
LEMMA Counting ==
  /\ IsFiniteSet(Workers) /\ Cardinality(Workers) = NThreads - 1
  /\ \A S \in SUBSET Workers :
       IsFiniteSet(S) /\ Cardinality(S) \in 0 .. NThreads - 1
  <1>1. NThreads - 1 \in Nat /\ NThreads - 1 >= 1
    BY PoolAssumption
  <1>2. IsFiniteSet(Workers) /\ Cardinality(Workers) = NThreads - 1
    BY <1>1, ThreadsSplit, FS_Interval
  <1>3. ASSUME NEW S \in SUBSET Workers
        PROVE  IsFiniteSet(S) /\ Cardinality(S) \in 0 .. NThreads - 1
    <2>1. IsFiniteSet(S) /\ Cardinality(S) <= NThreads - 1
      BY <1>2, FS_Subset
    <2>2. Cardinality(S) \in Nat
      BY <2>1, FS_CardinalityType
    <2> QED BY <1>1, <2>1, <2>2
  <1> QED BY <1>2, <1>3

LEMMA BarrierPassed ==
  ASSUME Counted, Open, remaining = 0
  PROVE  \A w \in Workers : Through(w)
  <1>1. Unfinished \in SUBSET Workers /\ Cardinality(Unfinished) = 0
    BY DEF Counted, Unfinished
  <1>2. IsFiniteSet(Unfinished)
    BY <1>1, Counting
  <1>3. Unfinished = {}
    BY <1>1, <1>2, FS_EmptySet
  <1> QED BY <1>3 DEF Unfinished

(* The caller's steps that the protocol is about. *)
LEMMA CallerKeeps ==
  ASSUME Types, Protocol,
         AnyCall \/ SetRemaining \/ SetGeneration \/ SpinDone \/ WaitOver
           \/ Withdraw \/ Return \/ Destroy
  PROVE  Protocol'
  <1> USE DEF fields, atomics
  <1>1. /\ AllThrough /\ ChecksNew /\ RunsCurrent /\ ExitsLast /\ StopsLast
        /\ Described /\ Reset /\ Counted
    BY DEF Protocol
  <1>2. ASSUME UNCHANGED <<generation, seen, g, stop>>,
               \A w \in Workers : pc'[w] = pc[w]
        PROVE  RunsCurrent' /\ ChecksNew' /\ ExitsLast'
               /\ (\A w \in Workers : Through(w)' <=> Through(w))
    BY <1>1, <1>2 DEF RunsCurrent, ChecksNew, ExitsLast, Working, Through
  <1>3. CASE CallNothing
    <2>1. UNCHANGED <<generation, seen, g, stop, pc, remaining>> /\ pc[0] = "idle"
      BY <1>3 DEF CallNothing
    <2>2. ~Open /\ ~Open'
      BY <2>1 DEF Open
    <2> QED
      BY <1>1, <1>2, <2>1, <2>2
         DEF Protocol, AllThrough, Described, Reset, StopsLast, Counted, Shut
  <1>4. ASSUME NEW n \in 1 .. MaxTotal, NEW policy \in Policies,
               NEW override \in {0, 1}, Call(n, policy, override)
        PROVE  Protocol'
    <2>1. /\ UNCHANGED <<generation, seen, g, stop, remaining>>
          /\ GoTo(0, "setRemaining") /\ pc[0] = "idle"
          /\ fn' = calls + 1 /\ calls' = calls + 1
      BY <1>4 DEF Call
    <2>2. pc'[0] = "setRemaining" /\ \A w \in Workers : pc'[w] = pc[w]
      BY <2>1, Moves, ThreadsSplit
    <2>3. ~Open /\ ~Open' /\ ~stop
      BY <1>1, <2>1, <2>2 DEF Open, StopsLast, Shut
    <2> QED
      BY <1>1, <1>2, <2>1, <2>2, <2>3
         DEF Protocol, AllThrough, Described, Reset, StopsLast, Counted
  <1>5. CASE SetRemaining
    <2>1. /\ UNCHANGED <<generation, seen, g, stop, fn, calls>>
          /\ GoTo(0, "setGeneration") /\ pc[0] = "setRemaining"
          /\ remaining' = NThreads - 1
      BY <1>5 DEF SetRemaining
    <2>2. pc'[0] = "setGeneration" /\ \A w \in Workers : pc'[w] = pc[w]
      BY <2>1, Moves, ThreadsSplit
    <2>3. ~Open /\ ~Open' /\ ~stop
      BY <1>1, <2>1, <2>2 DEF Open, StopsLast, Shut
    <2> QED
      BY <1>1, <1>2, <2>1, <2>2, <2>3
         DEF Protocol, AllThrough, Described, Reset, StopsLast, Counted
  <1>6. CASE SetGeneration
    <2>1. /\ UNCHANGED <<seen, g, stop, fn, calls, remaining>>
          /\ generation' = generation + 1 /\ generation \in Nat
          /\ GoTo(0, "wake") /\ pc[0] = "setGeneration"
          /\ remaining = NThreads - 1
      BY <1>1, <1>6 DEF SetGeneration, Types, Scalars, Reset
    <2>2. pc'[0] = "wake" /\ \A w \in Workers : pc'[w] = pc[w]
      BY <2>1, Moves, ThreadsSplit
    <2>3. ~Open /\ Open' /\ ~stop
      BY <1>1, <2>1, <2>2 DEF Open, StopsLast, Shut
    <2>4. \A w \in Workers : /\ ~Working(w) /\ seen[w] = generation
                             /\ pc[w] # "check"
      BY <1>1, <2>3 DEF AllThrough, Through, Working, ChecksNew
    <2>5. \A w \in Workers : ~Working(w)' /\ pc'[w] # "check" /\ ~Through(w)'
      BY <2>1, <2>2, <2>4 DEF Working, Through
    <2>6. Unfinished' = Workers
      BY <2>5 DEF Unfinished
    <2>7. Counted'
      BY <2>1, <2>6, Counting DEF Counted
    <2>8. ExitsLast'
      BY <1>1, <2>1, <2>2 DEF ExitsLast
    <2> QED
      BY <1>1, <2>1, <2>2, <2>3, <2>5, <2>7, <2>8
         DEF Protocol, RunsCurrent, ChecksNew, AllThrough, Described, Reset, StopsLast
  <1>7. CASE SpinDone \/ WaitOver
    <2>1. /\ UNCHANGED <<generation, seen, g, stop, fn, calls, remaining>>
          /\ pc[0] \in {"barrier", "testDone", "woken"} /\ remaining = 0
          /\ \E where \in {"return", "waited"} : GoTo(0, where)
      BY <1>7 DEF SpinDone, WaitOver
    <2>2. pc'[0] \in {"return", "waited"} /\ \A w \in Workers : pc'[w] = pc[w]
      BY <2>1, Moves, ThreadsSplit
    <2>3. Open /\ ~Open' /\ ~stop
      BY <1>1, <2>1, <2>2 DEF Open, StopsLast, Shut
    <2>4. \A w \in Workers : Through(w)
      BY <1>1, <2>1, <2>3, BarrierPassed
    <2> QED
      BY <1>1, <1>2, <2>1, <2>2, <2>3, <2>4
         DEF Protocol, AllThrough, Described, Reset, StopsLast, Counted
  <1>8. CASE Withdraw
    <2>1. /\ UNCHANGED <<generation, seen, g, stop, fn, calls, remaining>>
          /\ GoTo(0, "return") /\ pc[0] = "waited"
      BY <1>8 DEF Withdraw
    <2>2. pc'[0] = "return" /\ \A w \in Workers : pc'[w] = pc[w]
      BY <2>1, Moves, ThreadsSplit
    <2>3. ~Open /\ ~Open' /\ ~stop
      BY <1>1, <2>1, <2>2 DEF Open, StopsLast, Shut
    <2> QED
      BY <1>1, <1>2, <2>1, <2>2, <2>3
         DEF Protocol, AllThrough, Described, Reset, StopsLast, Counted
  <1>9. CASE Return
    <2>1. /\ UNCHANGED <<generation, seen, g, stop, calls, remaining>>
          /\ GoTo(0, "idle") /\ pc[0] = "return"
      BY <1>9 DEF Return
    <2>2. pc'[0] = "idle" /\ \A w \in Workers : pc'[w] = pc[w]
      BY <2>1, Moves, ThreadsSplit
    <2>3. ~Open /\ ~Open' /\ ~stop
      BY <1>1, <2>1, <2>2 DEF Open, StopsLast, Shut
    <2> QED
      BY <1>1, <1>2, <2>1, <2>2, <2>3
         DEF Protocol, AllThrough, Described, Reset, StopsLast, Counted
  <1>10. CASE Destroy
    <2>1. /\ UNCHANGED <<generation, seen, g, fn, calls, remaining>>
          /\ stop' = TRUE /\ GoTo(0, "stopping") /\ pc[0] = "idle"
      BY <1>10 DEF Destroy
    <2>2. pc'[0] = "stopping" /\ \A w \in Workers : pc'[w] = pc[w]
      BY <2>1, Moves, ThreadsSplit
    <2>3. ~Open /\ ~Open' /\ Shut' /\ stop'
      BY <1>1, <2>1, <2>2 DEF Open, Shut
    <2>4. RunsCurrent' /\ ChecksNew' /\ ExitsLast' /\ AllThrough'
      BY <1>1, <2>1, <2>2, <2>3
         DEF RunsCurrent, ChecksNew, ExitsLast, AllThrough, Working, Through
    <2> QED
      BY <1>1, <2>1, <2>2, <2>3, <2>4
         DEF Protocol, Described, Reset, StopsLast, Counted
  <1> QED BY <1>3, <1>4, <1>5, <1>6, <1>7, <1>8, <1>9, <1>10 DEF AnyCall

(* A worker that sees the new generation, or the stop. *)
LEMMA SeeingKeeps ==
  ASSUME Types, Protocol, NEW w \in Workers,
         SpinSees(w) \/ Sleep(w) \/ Recheck(w)
  PROVE  Protocol'
  <1> USE DEF fields, atomics
  <1>1. /\ pc[w] \in {"spin", "tired", "lock"}
        /\ UNCHANGED <<generation, remaining, seen, fn, calls, stop>>
        /\ \/ GoTo(w, "asleep") /\ UNCHANGED g
           \/ /\ GoTo(w, "check") /\ g' = [g EXCEPT ![w] = generation]
              /\ stop \/ generation # seen[w]
    BY DEF SpinSees, Sleep, Recheck
  <1>2. CASE GoTo(w, "asleep") /\ UNCHANGED g
    <2>1. /\ ~Working(w) /\ ~Working(w)' /\ pc'[w] = "asleep" /\ pc'[0] = pc[0]
          /\ \A v \in Workers : v # w => pc'[v] = pc[v]
      BY <1>1, <1>2, Moves, ThreadsSplit DEF Working
    <2> QED BY <1>1, <1>2, <2>1, QuietKeeps
  <1>3. CASE /\ GoTo(w, "check") /\ g' = [g EXCEPT ![w] = generation]
             /\ stop \/ generation # seen[w]
    <2>1. /\ pc'[w] = "check" /\ pc'[0] = pc[0]
          /\ \A v \in Workers : v # w => pc'[v] = pc[v]
          /\ g'[w] = generation /\ \A v \in Workers : v # w => g'[v] = g[v]
      BY <1>3, Moves, ThreadsSplit DEF Types, Locals
    <2>2. /\ \A v \in Workers : (Working(v)' <=> Working(v)) /\ (Through(v)' <=> Through(v))
          /\ (Open' <=> Open) /\ (Shut' <=> Shut)
      BY <1>1, <2>1 DEF Working, Through, Open, Shut
    <2>3. Unfinished' = Unfinished
      BY <2>2 DEF Unfinished
    <2>4. ChecksNew'
      BY <1>1, <1>3, <2>1 DEF Protocol, ChecksNew
    <2>5. RunsCurrent' /\ AllThrough' /\ ExitsLast'
      BY <1>1, <2>1, <2>2 DEF Protocol, RunsCurrent, AllThrough, ExitsLast
    <2>6. Described' /\ Reset' /\ StopsLast' /\ Counted'
      BY <1>1, <2>1, <2>2, <2>3 DEF Protocol, Described, Reset, StopsLast, Counted
    <2> QED BY <2>4, <2>5, <2>6 DEF Protocol
  <1> QED BY <1>1, <1>2, <1>3

LEMMA CheckKeeps ==
  ASSUME Types, Protocol, NEW w \in Workers, Check(w)
  PROVE  Protocol'
  <1> USE DEF fields, atomics
  <1>1. /\ pc[w] = "check" /\ g[w] = generation /\ (stop \/ seen[w] # generation)
        /\ UNCHANGED <<generation, remaining, g, fn, calls, stop>>
    BY DEF Check, Protocol, ChecksNew
  <1>2. CASE stop
    <2>1. GoTo(w, "exited") /\ UNCHANGED seen
      BY <1>2 DEF Check
    <2>2. /\ pc'[w] = "exited" /\ pc'[0] = pc[0]
          /\ \A v \in Workers : v # w => pc'[v] = pc[v]
      BY <2>1, Moves, ThreadsSplit
    <2>3. /\ \A v \in Workers : (Working(v)' <=> Working(v)) /\ (Through(v)' <=> Through(v))
          /\ (Open' <=> Open) /\ (Shut' <=> Shut)
      BY <1>1, <2>1, <2>2 DEF Working, Through, Open, Shut
    <2>4. Unfinished' = Unfinished
      BY <2>3 DEF Unfinished
    <2>5. RunsCurrent' /\ ChecksNew' /\ AllThrough'
      BY <1>1, <2>1, <2>2, <2>3 DEF Protocol, RunsCurrent, ChecksNew, AllThrough
    <2>6. ExitsLast'
      BY <1>1, <1>2 DEF ExitsLast
    <2>7. Described' /\ Reset' /\ StopsLast' /\ Counted'
      BY <1>1, <2>2, <2>3, <2>4 DEF Protocol, Described, Reset, StopsLast, Counted
    <2> QED BY <2>5, <2>6, <2>7 DEF Protocol
  <1>3. CASE ~stop
    <2>1. GoTo(w, "run") /\ seen' = [seen EXCEPT ![w] = g[w]]
      BY <1>3 DEF Check
    <2>2. /\ pc'[w] = "run" /\ pc'[0] = pc[0]
          /\ \A v \in Workers : v # w => pc'[v] = pc[v]
          /\ seen'[w] = generation /\ \A v \in Workers : v # w => seen'[v] = seen[v]
      BY <1>1, <2>1, Moves, ThreadsSplit DEF Types, Locals
    <2>3. /\ ~Through(w) /\ ~Through(w)' /\ Open
          /\ \A v \in Workers : Through(v)' <=> Through(v)
          /\ (Open' <=> Open) /\ (Shut' <=> Shut)
      BY <1>1, <1>3, <2>2 DEF Through, Open, Shut, Protocol, AllThrough
    <2>4. Unfinished' = Unfinished
      BY <2>3 DEF Unfinished
    <2>5. RunsCurrent' /\ ChecksNew' /\ ExitsLast'
      BY <1>1, <2>2 DEF Protocol, RunsCurrent, ChecksNew, ExitsLast, Working
    <2>6. AllThrough' /\ Described' /\ Reset' /\ StopsLast' /\ Counted'
      BY <1>1, <2>2, <2>3, <2>4
         DEF Protocol, AllThrough, Described, Reset, StopsLast, Counted
    <2> QED BY <2>5, <2>6 DEF Protocol
  <1> QED BY <1>2, <1>3

LEMMA LeaveKeeps ==
  ASSUME Types, Protocol, NEW w \in Workers, Leave(w)
  PROVE  Protocol' /\ Open
  <1> USE DEF fields, atomics
  <1>1. /\ pc[w] = "leave" /\ remaining' = remaining - 1
        /\ UNCHANGED <<generation, seen, g, fn, calls, stop>>
        /\ GoTo(w, IF remaining = 1 THEN "last" ELSE "spin")
    BY DEF Leave
  <1>2. /\ pc'[w] \in {"last", "spin"} /\ pc'[0] = pc[0]
        /\ \A v \in Workers : v # w => pc'[v] = pc[v]
    BY <1>1, Moves, ThreadsSplit
  <1>3. /\ ~Through(w) /\ Open /\ Open' /\ ~Working(w)' /\ seen[w] = generation
    BY <1>1, <1>2
       DEF Through, Open, Protocol, AllThrough, RunsCurrent, Working
  <1>4. Unfinished' = Unfinished \ {w} /\ w \in Unfinished
    BY <1>1, <1>2, <1>3 DEF Unfinished, Through
  <1>5. Cardinality(Unfinished') = Cardinality(Unfinished) - 1
    <2>1. IsFiniteSet(Unfinished)
      BY Counting DEF Unfinished
    <2> QED BY <1>4, <2>1, FS_RemoveElement
  <1>6. Counted'
    BY <1>1, <1>3, <1>5 DEF Protocol, Counted
  <1>7. RunsCurrent' /\ ChecksNew' /\ ExitsLast'
    BY <1>1, <1>2 DEF Protocol, RunsCurrent, ChecksNew, ExitsLast, Working
  <1>8. AllThrough' /\ Described' /\ Reset' /\ StopsLast'
    BY <1>1, <1>2, <1>3 DEF Protocol, AllThrough, Described, Reset, StopsLast, Shut, Open
  <1> QED BY <1>3, <1>6, <1>7, <1>8 DEF Protocol

LEMMA StepProtocol == Types /\ Protocol /\ [Next]_vars => Protocol'
  <1> SUFFICES ASSUME Types, Protocol, [Next]_vars PROVE Protocol'
    OBVIOUS
  <1>1. CASE AnyCall \/ Destroy
    BY <1>1, CallerKeeps
  <1>2. CASE CallerStep
    BY <1>2, ThreadsSplit, CallerKeeps, QuietSteps DEF CallerStep
  <1>3. ASSUME NEW w \in Workers, WorkerStep(w) \/ SpinGivesUp(w)
        PROVE  Protocol'
    BY <1>3, ThreadsSplit, SeeingKeeps, CheckKeeps, LeaveKeeps, QuietSteps
       DEF WorkerStep
  <1>4. CASE (\E t \in Threads : SpuriousWakeup(t)) \/ Gone \/ UNCHANGED vars
    BY <1>4, QuietSteps
  <1> QED BY <1>1, <1>2, <1>3, <1>4 DEF Next

-----------------------------------------------------------------------------
(* sleepers_ counts the workers between the wait and the end of it, asleep *)
(* or about to retake the mutex, and so stays within the pool.             *)
Sleeping == {w \in Workers : pc[w] \in {"asleep", "lock"}}

SleepersCounted == sleepers = Cardinality(Sleeping)

LEMMA AwakeKeeps ==
  ASSUME SleepersCounted, UNCHANGED sleepers,
         \A w \in Workers :
           pc'[w] \in {"asleep", "lock"} <=> pc[w] \in {"asleep", "lock"}
  PROVE  SleepersCounted'
  <1>1. Sleeping' = Sleeping
    BY DEF Sleeping
  <1> QED BY <1>1 DEF SleepersCounted

LEMMA DozeKeeps ==
  ASSUME Types, SleepersCounted, NEW w \in Workers, Sleep(w) \/ Recheck(w)
  PROVE  SleepersCounted'
  <1>1. IsFiniteSet(Sleeping) /\ Sleeping \subseteq Workers
    BY Counting DEF Sleeping
  <1>2. CASE GoTo(w, "check") /\ pc[w] = "tired" /\ UNCHANGED sleepers
    <2>1. /\ pc'[w] = "check"
          /\ \A v \in Workers : v # w => pc'[v] = pc[v]
      BY <1>2, Moves, ThreadsSplit
    <2> QED BY <1>2, <2>1, AwakeKeeps
  <1>3. CASE GoTo(w, "asleep") /\ pc[w] = "tired" /\ sleepers' = sleepers + 1
    <2>1. /\ pc'[w] = "asleep"
          /\ \A v \in Workers : v # w => pc'[v] = pc[v]
      BY <1>3, Moves, ThreadsSplit
    <2>2. Sleeping' = Sleeping \cup {w} /\ w \notin Sleeping
      BY <1>3, <2>1 DEF Sleeping
    <2> QED BY <1>1, <1>3, <2>2, FS_AddElement DEF SleepersCounted
  <1>4. CASE GoTo(w, "check") /\ pc[w] = "lock" /\ sleepers' = sleepers - 1
    <2>1. /\ pc'[w] = "check"
          /\ \A v \in Workers : v # w => pc'[v] = pc[v]
      BY <1>4, Moves, ThreadsSplit
    <2>2. Sleeping' = Sleeping \ {w} /\ w \in Sleeping
      BY <1>4, <2>1 DEF Sleeping
    <2> QED BY <1>1, <1>4, <2>2, FS_RemoveElement DEF SleepersCounted
  <1>5. CASE GoTo(w, "asleep") /\ pc[w] = "lock" /\ UNCHANGED sleepers
    <2>1. /\ pc'[w] = "asleep"
          /\ \A v \in Workers : v # w => pc'[v] = pc[v]
      BY <1>5, Moves, ThreadsSplit
    <2> QED BY <1>5, <2>1, AwakeKeeps
  <1> QED BY <1>2, <1>3, <1>4, <1>5 DEF Sleep, Recheck

LEMMA StepSleepers ==
  Types /\ SleepersCounted /\ [Next]_vars => SleepersCounted'
  <1> SUFFICES ASSUME Types, SleepersCounted, [Next]_vars PROVE SleepersCounted'
    OBVIOUS
  <1> USE DEF fields, atomics
  <1>1. CASE AnyCall \/ CallerQuiet
    <2>1. \/ UNCHANGED <<pc, sleepers>>
          \/ \E where \in PcOfCaller : GoTo(0, where) /\ UNCHANGED sleepers
      BY <1>1
         DEF AnyCall, CallNothing, Call, CallerQuiet, SetRemaining,
             SetGeneration, SpinDone, SpinTired, Announce, WaitMore, Block,
             WaitOver, Withdraw, Return, Join, Destroy, PcOfCaller
    <2>2. \A w \in Workers : pc'[w] = pc[w]
      BY <2>1, Moves, ThreadsSplit
    <2> QED BY <2>1, <2>2, AwakeKeeps
  <1>2. CASE Wake \/ DestroyNotify
    <2>1. UNCHANGED sleepers
      BY <1>2 DEF Wake, DestroyNotify
    <2> QED BY <1>2, <2>1, WakingMoves, AwakeKeeps
  <1>3. ASSUME NEW t \in Threads, RunChunk(t) PROVE SleepersCounted'
    <2>1. PICK where \in {"run", "body", "barrier", "leave"} : GoTo(t, where)
      BY <1>3 DEF RunChunk, ClaimStatic, ClaimDynamic, Body, AfterRun
    <2>2. pc[t] \in {"run", "body"} /\ UNCHANGED sleepers
      BY <1>3 DEF RunChunk, ClaimStatic, ClaimDynamic, Body
    <2>3. \A w \in Workers : pc'[w] = pc[w] \/ (w = t /\ pc'[w] = where)
      BY <2>1, Moves, ThreadsSplit
    <2> QED BY <2>2, <2>3, AwakeKeeps
  <1>4. ASSUME NEW t \in Threads, SpuriousWakeup(t) PROVE SleepersCounted'
    <2>1. /\ pc[t] = "asleep" /\ UNCHANGED sleepers
          /\ GoTo(t, IF t = 0 THEN "woken" ELSE "lock")
      BY <1>4 DEF SpuriousWakeup
    <2>2. \A w \in Workers : pc'[w] = pc[w] \/ (w = t /\ pc'[w] = "lock")
      BY <2>1, Moves, ThreadsSplit
    <2> QED BY <2>1, <2>2, AwakeKeeps
  <1>5. ASSUME NEW w \in Workers,
               SpinSees(w) \/ SpinGivesUp(w) \/ Check(w) \/ Leave(w) \/ Last(w)
        PROVE  SleepersCounted'
    <2>1. PICK where \in PcOfWorker \ {"asleep", "lock"} : GoTo(w, where)
      BY <1>5 DEF SpinSees, SpinGivesUp, Check, Leave, Last, PcOfWorker
    <2>2. pc[w] \notin {"asleep", "lock"} /\ UNCHANGED sleepers
      BY <1>5 DEF SpinSees, SpinGivesUp, Check, Leave, Last
    <2>3. \A v \in Workers : pc'[v] = pc[v] \/ (v = w /\ pc'[v] = where)
      BY <2>1, Moves, ThreadsSplit
    <2> QED BY <2>2, <2>3, AwakeKeeps
  <1>6. ASSUME NEW w \in Workers, Notify(w) PROVE SleepersCounted'
    <2>1. /\ pc[w] = "notify" /\ UNCHANGED sleepers
          /\ \A v \in Workers : pc'[v] = pc[v] \/ (v = w /\ pc'[v] = "spin")
      BY <1>6, ThreadsSplit DEF Notify, Types, Places
    <2> QED BY <2>1, AwakeKeeps
  <1>7. CASE Gone \/ UNCHANGED vars
    <2>1. UNCHANGED <<pc, sleepers>>
      BY <1>7 DEF Gone, vars
    <2> QED BY <2>1, AwakeKeeps
  <1>8. CASE CallerStep
    BY <1>1, <1>2, <1>3, <1>8, ThreadsSplit DEF CallerStep, CallerQuiet
  <1>9. ASSUME NEW w \in Workers, WorkerStep(w) PROVE SleepersCounted'
    BY <1>3, <1>5, <1>6, <1>9, ThreadsSplit, DozeKeeps DEF WorkerStep
  <1> QED BY <1>1, <1>4, <1>5, <1>7, <1>8, <1>9 DEF Next, CallerQuiet

-----------------------------------------------------------------------------
(* remaining_ counts down from NThreads - 1 and never below zero: within a *)
(* call because it counts workers, and nobody leaves outside one.          *)
RemainingBounded == remaining \in 0 .. NThreads - 1

LEMMA StepRemaining ==
  Types /\ Protocol /\ RemainingBounded /\ [Next]_vars => RemainingBounded'
  <1> SUFFICES ASSUME Types, Protocol, RemainingBounded, [Next]_vars
               PROVE  RemainingBounded'
    OBVIOUS
  <1>1. ASSUME NEW w \in Workers, Leave(w) PROVE RemainingBounded'
    <2>1. Protocol' /\ Open
      BY <1>1, LeaveKeeps
    <2>2. Open'
      <3>1. GoTo(w, IF remaining = 1 THEN "last" ELSE "spin")
        BY <1>1 DEF Leave
      <3> QED BY <2>1, <3>1, Moves, ThreadsSplit DEF Open
    <2>3. remaining' = Cardinality(Unfinished') /\ Unfinished' \in SUBSET Workers
      BY <2>1, <2>2 DEF Protocol, Counted, Unfinished
    <2> QED BY <2>3, Counting DEF RemainingBounded
  <1>2. CASE UNCHANGED remaining
    BY <1>2 DEF RemainingBounded
  <1>3. CASE SetRemaining
    <2>1. remaining' = NThreads - 1 /\ NThreads - 1 \in Nat
      BY <1>3, PoolAssumption DEF SetRemaining
    <2> QED BY <2>1 DEF RemainingBounded
  <1>4. \/ UNCHANGED remaining
        \/ SetRemaining
        \/ \E w \in Workers : Leave(w)
    BY DEF Next, AnyCall, CallNothing, Call, CallerStep, WorkerStep, RunChunk,
           SetGeneration, Wake, SpinDone, SpinTired, Announce, WaitMore, Block,
           WaitOver, Withdraw, Return, DestroyNotify, Join, ClaimStatic, ClaimDynamic, Body,
           SpinSees, SpinGivesUp, Sleep, Recheck, Check, Last, Notify,
           SpuriousWakeup, Destroy, Gone, vars, atomics
  <1> QED BY <1>1, <1>2, <1>3, <1>4

-----------------------------------------------------------------------------
(* The theorems.                                                           *)
IInv == Types /\ Protocol /\ SleepersCounted /\ RemainingBounded

LEMMA Inductive == Safety => []IInv
  <1>1. Init => IInv
    <2> SUFFICES ASSUME Init PROVE IInv
      OBVIOUS
    <2>1. Sleeping = {} /\ sleepers = 0
      BY ThreadsSplit DEF Init, Sleeping
    <2>2. SleepersCounted
      BY <2>1, FS_EmptySet DEF SleepersCounted
    <2>3. RemainingBounded
      <3>1. NThreads - 1 \in Nat
        BY PoolAssumption
      <3> QED BY <3>1 DEF Init, RemainingBounded
    <2> QED BY <2>2, <2>3, StartTypes, StartProtocol DEF IInv
  <1>2. IInv /\ [Next]_vars => IInv'
    BY StepTypes, StepProtocol, StepSleepers, StepRemaining DEF IInv
  <1> QED BY <1>1, <1>2, PTL DEF Safety

(* The fields have their types, and both counters stay within the pool:    *)
(* remaining_ never goes below zero and sleepers_ never exceeds the number *)
(* of workers (threadpool.h:118, 174-190).                                 *)
THEOREM TypeCorrect == Safety => []TypeOK
  <1>1. IInv => TypeOK
    <2> SUFFICES ASSUME IInv PROVE TypeOK
      OBVIOUS
    <2>1. sleepers \in 0 .. NThreads - 1
      <3>1. Sleeping \in SUBSET Workers
        BY DEF Sleeping
      <3> QED BY <3>1, Counting DEF IInv, SleepersCounted
    <2>2. remaining \in 0 .. NThreads - 1
      BY DEF IInv, RemainingBounded
    <2>3. Scalars /\ Flags /\ Places /\ Locals
      BY DEF IInv, Types
    <2> QED BY <2>1, <2>2, <2>3 DEF TypeOK, Scalars, Flags, Places, Locals
  <1> QED BY <1>1, Inductive, PTL

(* A worker reads the plain fields of a loop, or runs its body, only while *)
(* the call that wrote them is at or before its barrier, for any number of *)
(* threads and calls (threadpool.h:101-118, 135, 139-158).                 *)
THEOREM FieldsAreStable == Safety => []FieldsStable
  <1>1. IInv => FieldsStable
    <2> SUFFICES ASSUME IInv, NEW w \in Workers, pc[w] \in {"run", "body"}
                 PROVE  Open /\ fn = calls /\ seen[w] = generation
      BY DEF FieldsStable
    <2>1. ~Through(w) /\ Working(w)
      BY DEF Through, Working
    <2> QED BY <2>1 DEF IInv, Protocol, RunsCurrent, AllThrough, Described
  <1> QED BY <1>1, Inductive, PTL

(* Within a call remaining_ is the number of workers that have not         *)
(* finished the loop, and a call returns only when all have, for any       *)
(* number of threads (threadpool.h:118-119, 182-187).                      *)
THEOREM BarrierIsExact == Safety => []BarrierCounts
  <1>1. IInv => BarrierCounts
    <2> SUFFICES ASSUME IInv PROVE BarrierCounts
      OBVIOUS
    <2>1. Open => remaining = Cardinality({w \in Workers : ~Through(w)})
      BY DEF IInv, Protocol, Counted, Unfinished
    <2>2. pc[0] \in {"idle", "waited", "return"} => \A w \in Workers : Through(w)
      BY DEF IInv, Protocol, AllThrough, Open
    <2> QED BY <2>1, <2>2 DEF BarrierCounts
  <1> QED BY <1>1, Inductive, PTL
=============================================================================
