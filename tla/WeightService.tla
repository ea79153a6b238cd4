--------------------------- MODULE WeightService ---------------------------
(***************************************************************************)
(* What LayerLoader promises to the forward pass (include/llm/loader.h,    *)
(* the comments on loadLayer and getWeight): after a call for a layer      *)
(* returns, every role the pass reads is that layer's weight, and stays so *)
(* until the next call; a call that cannot read the weights raises an      *)
(* error instead; every call is answered.  Nothing here says how: no       *)
(* buffers, no worker, no queue.                                           *)
(***************************************************************************)
EXTENDS Integers

CONSTANTS
  Layers,    \* the layers this node owns
  NRoles     \* how many weights a layer has

VARIABLES
  phase,     \* "idle", "busy" (inside loadLayer), "using" or "closed"
  want,      \* the layer of the latest call
  view       \* what getWeight returns for each role while "using"

svcVars == <<phase, want, view>>

NoLayer == -1
Roles   == 0 .. NRoles - 1
NoView  == [r \in Roles |-> NoLayer]
Whole(l) == [r \in Roles |-> l]

Init ==
  /\ phase = "idle"
  /\ want = NoLayer
  /\ view = NoView

\* The layer is resident already: the call returns at once.
Serve(l) ==
  /\ phase \in {"idle", "using"}
  /\ phase' = "using"
  /\ want' = l
  /\ view' = Whole(l)

\* The call has to wait for the weights.
Ask(l) ==
  /\ phase \in {"idle", "using"}
  /\ phase' = "busy"
  /\ want' = l
  /\ view' = NoView

Deliver ==
  /\ phase = "busy"
  /\ phase' = "using"
  /\ view' = Whole(want)
  /\ UNCHANGED want

\* A read error: loadLayer throws and hands out nothing.
Refuse ==
  /\ phase = "busy"
  /\ phase' = "idle"
  /\ UNCHANGED <<want, view>>

Close ==
  /\ phase \in {"idle", "using"}
  /\ phase' = "closed"
  /\ view' = NoView
  /\ UNCHANGED want

Answer == Deliver \/ Refuse

Next ==
  \/ \E l \in Layers : Serve(l) \/ Ask(l)
  \/ Answer
  \/ Close

Safety == Init /\ [][Next]_svcVars
Spec   == Safety /\ WF_svcVars(Answer)
=============================================================================
