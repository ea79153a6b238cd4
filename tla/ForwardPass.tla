---------------------------- MODULE ForwardPass ----------------------------
(***************************************************************************)
(* src/transformer.cpp: forward, prefill, spec_forward and run_layers all  *)
(* drive the LayerLoader the same way: the node's layers in ascending      *)
(* order, one loadLayer and one block each, pass after pass.  An exception *)
(* out of loadLayer abandons the pass; the next one starts at the first    *)
(* layer again.  Against that caller the loader promises more than to an   *)
(* arbitrary one: work is bounded and the next layer is always on its way. *)
(***************************************************************************)
EXTENDS LayerLoader, FiniteSets

VARIABLE at  \* the layer the pass loads next

passVars == <<vars, at>>

PassInit == Init /\ at = LayerBegin

\* The loop variable of the pass, back at the first layer after the last.
PassLoad ==
  /\ Load(at)
  /\ at' = IF at + 1 = LayerEnd THEN LayerBegin ELSE at + 1

\* loadLayer threw: the exception leaves forward().
PassAbandoned ==
  /\ WaitFailed \/ SyncReadFails
  /\ at' = LayerBegin

PassWaits ==
  /\ \/ WaitAgain \/ WaitDone \/ SyncRead \/ SyncDone
     \/ DestroyBegin \/ DestroyNotify \/ DestroyJoin
     \/ WorkerStep \/ SpuriousCallerWakeup \/ SpuriousWorkerWakeup
     \/ Gone
  /\ UNCHANGED at

PassNext == PassLoad \/ PassAbandoned \/ PassWaits

PassSpec == PassInit /\ [][PassNext]_passVars

-----------------------------------------------------------------------------
(* Properties.                                                             *)

ColdLayers == Owned \ pinned

\* An ordered caller never leaves work behind: whatever reads fail, a request
\* finds at most the one job still queued, so the deque cannot grow and no
\* stale job is ever skipped (loader.cpp:484-488, 520-521).
JobsBounded == Len(jobs) <= 1

\* The layer a pass streams after l: the next one up that is not pinned, or
\* the lowest of the next pass.
Above(l) == {k \in ColdLayers : k > l}
NextStreamed(l) ==
  LET pool == IF Above(l) # {} THEN Above(l) ELSE ColdLayers
  IN  CHOOSE k \in pool : \A j \in pool : k <= j

\* While a streamed layer is being computed, the one the pass streams next is
\* in another buffer or being fetched into one, unless that very read has
\* failed: this is the overlap of I/O and compute (loader.cpp:594-603).
NextIsOnItsWay ==
  cpc = "using" /\ OnRing(want) =>
    \E s \in Slots \ {current} :
      layer[s] = NextStreamed(want) /\ state[s] \in {"Loading", "Ready", "Failed"}

\* The rings of two buffers, of an unpinned range, or with a buffer for every
\* cold layer.  In the others a miss right after a pinned layer starts over in
\* slot 0 (loader.cpp:540, 571) wherever the rotation stood, and later claims
\* may reread what a higher slot holds.
Regular ==
  \/ NBuffers = 2
  \/ pinned = {}
  \/ Cardinality(ColdLayers) <= NBuffers

\* In a regular ring with at least as many cold layers as buffers, no claim
\* rereads a layer some buffer holds already, so a pass streams each cold layer
\* once (loader.cpp:556-563, 599-601).
NoWastedRead ==
  [][\A s, t \in Slots :
       /\ Regular
       /\ Cardinality(ColdLayers) >= NBuffers
       /\ ticket'[s] # ticket[s]
       => ~(layer[t] = layer'[s] /\ state[t] = "Ready")]_passVars

\* Likewise the worker keeps out of layer_stats_[want] while the profiling pass
\* reads it without the mutex (loader.cpp:469-473, transformer.cpp:843).
StatsUnshared ==
  /\ Cardinality(ColdLayers) >= NBuffers
  /\ cpc = "using"
  /\ wpc = "fill"
  => want # wjob.layer
=============================================================================
