------------------------------ MODULE MemPlan ------------------------------
(***************************************************************************)
(* The memory budget, from the request to the layers held: plan_memory()   *)
(* (src/mem_plan.cpp) prices every configuration and takes the best that   *)
(* fits, the Runtime constructor (src/runtime.cpp) hands the choice to the *)
(* layer loader, and LayerLoader::plan_and_pin_layers (src/loader.cpp)     *)
(* spends the weight ceiling on pinned layers.                             *)
(*                                                                         *)
(* All sizes are bytes.  Parts of the ledger that no decision tells apart  *)
(* are one constant: Process is base, scratch and logits; PerCtx[c] is the *)
(* attention scores, the residual streams and the KV cache of context c.   *)
(* A budget is set (budget_bytes > 0), no layer is on a GPU, and sizes do  *)
(* not wrap at 64 bits.                                                    *)
(***************************************************************************)
EXTENDS Integers

CONSTANTS
  Budget,        \* budget_bytes
  Ctxs,          \* ctx_candidates: the context asked for, or 128 steps below it
  N,             \* layers of the node
  BuffersReq,    \* ring depth asked for
  Async,         \* FALSE: --no-async
  StreamHeadReq, \* --stream-lm-head
  Forced,        \* --ram-budget-force
  Tied,          \* the model has no output matrix of its own
  Process, PerCtx,
  OutNorm,       \* the output norm
  Positions,     \* its bias and GPT-2's position embeddings
  Embeddings,    \* the embedding table when tied, else 0
  HeadResident,  \* the whole output matrix (0 when tied)
  HeadWindow,    \* the rows read at a time when it is streamed (0 when tied)
  Layer,         \* what the planner takes a layer for: the tensors of blk.0
  Estimate,      \* estimate_layer_bytes of each layer
  Actual         \* the buffers fill_slot makes for each layer

VARIABLES phase, plan, ceiling, perLayer, target, nPinned, pinnedBytes

vars == <<phase, plan, ceiling, perLayer, target, nPinned, pinnedBytes>>

-----------------------------------------------------------------------------
(* plan_memory *)

Head(streamed) == IF streamed THEN HeadWindow ELSE HeadResident

HeadOptions ==
  {StreamHeadReq} \cup (IF ~StreamHeadReq /\ ~Tied THEN {TRUE} ELSE {})

BufferOptions == {1} \cup (IF Async THEN {BuffersReq} ELSE {})

NonWeights(ctx) == Process + PerCtx[ctx]

(* base_cost: everything but the layers. *)
BaseCost(ctx, streamed) ==
  NonWeights(ctx) + OutNorm + Positions + Embeddings + Head(streamed)

Total(c) == BaseCost(c.ctx, c.streamHead) + c.buffers * Layer + c.pinned * Layer

Configs == [ctx : Ctxs, streamHead : HeadOptions,
            buffers : BufferOptions \cup {0}, pinned : 0..N]

(* Every layer pinned, no ring. *)
AllPinned == {c \in Configs : c.buffers = 0 /\ c.pinned = N /\ Total(c) <= Budget}

(* A ring, and as many of the other layers pinned as fit beside it. *)
Streaming ==
  {c \in Configs :
     /\ c.buffers \in BufferOptions
     /\ c.pinned < N
     /\ Total(c) <= Budget
     /\ c.pinned < N - 1 => Total(c) + Layer > Budget}

Candidates == AllPinned \cup Streaming

Score(c) ==
  c.ctx * 1000000
    + (IF c.buffers = 0 /\ c.pinned > 0 THEN 50000000 ELSE 0)
    + (IF c.streamHead THEN 0 ELSE 5000000)
    + (IF c.buffers > 1 THEN 1000000 ELSE 0)
    + c.pinned * 1000

IsBest(c) == c \in Candidates /\ \A d \in Candidates : Score(d) <= Score(c)

(* The smallest configuration, which --ram-budget-force runs anyway. *)
Smallest(ctx) == [ctx |-> ctx, streamHead |-> TRUE, buffers |-> 1, pinned |-> 0]

-----------------------------------------------------------------------------
(* The loader: LayerLoader() and plan_and_pin_layers() *)

(* opt_.n_buffers: the plan never hands the loader an empty ring. *)
Buffers == IF plan.buffers = 0 THEN 1 ELSE plan.buffers

(* The resident tables the loader counts against its ceiling. *)
Globals == OutNorm + Embeddings + (IF plan.streamHead THEN 0 ELSE HeadResident)

(* A layer is sized by the largest of the range. *)
Largest(q) ==
  /\ \E l \in 0..N-1 : Estimate[l] = q
  /\ \A l \in 0..N-1 : Estimate[l] <= q

Ring(p) == Buffers * p

(* How many layers it means to pin: all, or as many as fit beside the ring. *)
IsTarget(p, t) ==
  \/ p = 0 /\ t = 0
  \/ p > 0 /\ ceiling >= Globals + N * p /\ t = N
  \/ /\ p > 0 /\ ceiling < Globals + N * p
     /\ ceiling <= Globals + Ring(p)
     /\ t = 0
  \/ /\ p > 0 /\ ceiling < Globals + N * p
     /\ ceiling > Globals + Ring(p)
     /\ Globals + Ring(p) + t * p <= ceiling
     /\ t < N => Globals + Ring(p) + (t + 1) * p > ceiling

RingReserve == IF target < N THEN Ring(perLayer) ELSE 0

FitsCeiling == Globals + pinnedBytes + Actual[nPinned] + RingReserve <= ceiling

-----------------------------------------------------------------------------
Init ==
  /\ phase = "planning"
  /\ plan \in {Smallest(ctx) : ctx \in Ctxs}
  /\ ceiling = 0
  /\ perLayer = 0
  /\ target = 0
  /\ nPinned = 0
  /\ pinnedBytes = 0

(* plan_memory finds a configuration that fits. *)
Plan ==
  /\ phase = "planning"
  /\ \E c \in Candidates :
       /\ IsBest(c)
       /\ plan' = c
       /\ ceiling' = Budget - NonWeights(c.ctx)
  /\ phase' = "sizing"
  /\ UNCHANGED <<perLayer, target, nPinned, pinnedBytes>>

(* It finds none, and the constructor throws the report. *)
Refuse ==
  /\ phase = "planning"
  /\ Candidates = {}
  /\ ~Forced
  /\ phase' = "refused"
  /\ UNCHANGED <<plan, ceiling, perLayer, target, nPinned, pinnedBytes>>

(* It finds none and --ram-budget-force runs the smallest one anyway. *)
Override ==
  /\ phase = "planning"
  /\ Candidates = {}
  /\ Forced
  /\ \E ctx \in Ctxs :
       /\ \A other \in Ctxs : ctx <= other
       /\ plan' = Smallest(ctx)
  /\ ceiling' = OutNorm + Positions + Embeddings + HeadWindow + Layer
  /\ phase' = "sizing"
  /\ UNCHANGED <<perLayer, target, nPinned, pinnedBytes>>

(* The loader works out how many leading layers it means to pin. *)
Size ==
  /\ phase = "sizing"
  /\ \E p \in {Estimate[l] : l \in 0..N-1}, t \in 0..N :
       /\ Largest(p)
       /\ IsTarget(p, t)
       /\ perLayer' = p
       /\ target' = t
  /\ phase' = "pinning"
  /\ UNCHANGED <<plan, ceiling, nPinned, pinnedBytes>>

(* The next layer is read and kept. *)
Pin ==
  /\ phase = "pinning"
  /\ nPinned < target
  /\ FitsCeiling
  /\ nPinned' = nPinned + 1
  /\ pinnedBytes' = pinnedBytes + Actual[nPinned]
  /\ UNCHANGED <<phase, plan, ceiling, perLayer, target>>

(* The ceiling guard: the layer read does not fit, or all are pinned. *)
StopPinning ==
  /\ phase = "pinning"
  /\ nPinned = target \/ (nPinned < target /\ ~FitsCeiling)
  /\ phase' = "running"
  /\ UNCHANGED <<plan, ceiling, perLayer, target, nPinned, pinnedBytes>>

Next == Plan \/ Refuse \/ Override \/ Size \/ Pin \/ StopPinning

Spec == Init /\ [][Next]_vars

-----------------------------------------------------------------------------
TypeOK ==
  /\ phase \in {"planning", "refused", "sizing", "pinning", "running"}
  /\ plan \in [ctx : Ctxs, streamHead : BOOLEAN, buffers : Nat, pinned : Nat]
  /\ ceiling \in Int
  /\ perLayer \in Nat
  /\ target \in 0..N
  /\ nPinned \in 0..N
  /\ pinnedBytes \in Nat

(* What the process holds once layers are pinned and the ring is warm: the *)
(* tables, the pinned layers, a ring if some layer still streams, what the *)
(* context needs, and the two the loader's Globals leaves out.             *)
Unseen == Positions + (IF plan.streamHead THEN HeadWindow ELSE 0)

Held ==
  NonWeights(plan.ctx) + Globals + Unseen + pinnedBytes
    + (IF nPinned < N THEN Ring(perLayer) ELSE 0)

(* The guard's promise (src/src/loader.cpp:196-200): while a layer is      *)
(* pinned, the tables, the pinned layers and the ring kept in reserve fit  *)
(* the ceiling, whatever each layer turned out to take.                    *)
PinsFitCeiling ==
  nPinned > 0 => Globals + pinnedBytes + RingReserve <= ceiling

(* The contract of src/include/llm/mem_plan.h:12 as the code keeps it: a   *)
(* plan that was not forced holds at most the budget and the allocations   *)
(* the loader's own sum leaves out.                                        *)
HeldWithinBudget ==
  phase = "running" /\ Candidates # {} => Held <= Budget + Unseen

(* The loader pins at least the layers the plan reported pinned.           *)
PlanIsKept ==
  phase = "running" /\ Candidates # {} => nPinned >= plan.pinned
=============================================================================
