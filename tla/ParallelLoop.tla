---------------------------- MODULE ParallelLoop ----------------------------
(***************************************************************************)
(* What ThreadPool::parallel_for promises to a kernel (threadpool.h:1-11): *)
(* the items 0 .. total-1 are each handed to the body exactly once, in any *)
(* order and by any thread, nothing else is, and the call returns when all *)
(* of them are done.  A pool that is destroyed does nothing more.          *)
(*                                                                         *)
(* How often the body got each item is kept, so that a second handing of   *)
(* an item, or one of an item past the last, is a step that no action      *)
(* allows and not one that leaves the state as it was.                     *)
(***************************************************************************)
EXTENDS Integers

CONSTANT MaxTotal  \* bound: items of a call

VARIABLES
  busy,   \* a call is running
  total,  \* its items are 0 .. total - 1
  given,  \* how often the body was given each item in it
  closed  \* the pool is destroyed

loopVars == <<busy, total, given, closed>>

\* One item more than the longest call has, for what must not be given.
Items == 0 .. MaxTotal

Init ==
  /\ busy = FALSE
  /\ total = 0
  /\ given = [i \in Items |-> 0]
  /\ closed = FALSE

\* A call of no items returns at once and is no step.
Call(n) ==
  /\ ~busy
  /\ ~closed
  /\ busy' = TRUE
  /\ total' = n
  /\ given' = [i \in Items |-> 0]
  /\ UNCHANGED closed

Left == {i \in 0 .. total - 1 : given[i] = 0}

\* One thread hands one range of items to the body.
Body(items) ==
  /\ busy
  /\ items # {}
  /\ items \subseteq Left
  /\ given' = [i \in Items |-> IF i \in items THEN 1 ELSE given[i]]
  /\ UNCHANGED <<busy, total, closed>>

Return ==
  /\ busy
  /\ Left = {}
  /\ busy' = FALSE
  /\ UNCHANGED <<total, given, closed>>

Close ==
  /\ ~busy
  /\ ~closed
  /\ closed' = TRUE
  /\ UNCHANGED <<busy, total, given>>

Range(a, b) == a .. b - 1

Work == \E a, b \in 0 .. MaxTotal : Body(Range(a, b))

Next ==
  \/ \E n \in 1 .. MaxTotal : Call(n)
  \/ Work
  \/ Return
  \/ Close

Safety == Init /\ [][Next]_loopVars
Spec   == Safety /\ WF_loopVars(Work) /\ WF_loopVars(Return)
=============================================================================
