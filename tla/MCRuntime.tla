----------------------------- MODULE MCRuntime ------------------------------
EXTENDS Runtime

\* Full layers with speculation, then with a semantic cache; sliding-window
\* layers without; a prefill that may fail, and a decode pass.
MCSetups ==
  {[window |-> 0, drafts |-> 2, cache |-> 0, faults |-> {"prefill"}],
   [window |-> 0, drafts |-> 2, cache |-> 4, faults |-> {"prefill"}],
   [window |-> 2, drafts |-> 0, cache |-> 0, faults |-> {"prefill"}],
   [window |-> 3, drafts |-> 0, cache |-> 0, faults |-> {}],
   [window |-> 0, drafts |-> 0, cache |-> 0, faults |-> {"decode"}]}

FaultySetups == {[window |-> 0, drafts |-> 0, cache |-> 0, faults |-> {"decode"}]}

SpecOnRing == {[window |-> 2, drafts |-> 2, cache |-> 0, faults |-> {}]}
=============================================================================
