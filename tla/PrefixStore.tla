---------------------------- MODULE PrefixStore -----------------------------
(***************************************************************************)
(* What src/semantic_cache.cpp promises, without tree or list: a lookup is *)
(* answered with the rows of the longest prefix held, a commit adds all of *)
(* its tokens, and forgets only when there are more than the budget holds. *)
(***************************************************************************)
EXTENDS PrefixRows

CONSTANTS
  Queries,  \* the sequences looked up and committed
  Capacity  \* the budget, in tokens

VARIABLES
  rows,    \* the row of each prefix held
  phase,   \* what the call in progress does
  query,   \* its tokens
  answer   \* the rows a lookup found

storeVars == <<rows, phase, query, answer>>

\* The row a caller's own cache holds at each position of tokens.
RowsOf(tokens) == [i \in 1 .. Len(tokens) |-> SubSeq(tokens, 1, i)]

Init ==
  /\ rows = <<>>
  /\ phase = "idle"
  /\ query = <<>>
  /\ answer = <<>>

Call(tokens, what) ==
  /\ phase = "idle"
  /\ phase' = what
  /\ query' = tokens
  /\ UNCHANGED <<rows, answer>>

Return ==
  /\ phase' = "idle"
  /\ query' = <<>>
  /\ answer' = <<>>
  /\ UNCHANGED rows

Answer ==
  /\ phase = "finding"
  /\ answer' = HeldRows(rows, query)
  /\ phase' = "found"
  /\ UNCHANGED <<rows, query>>

Answered == phase = "found" /\ Return

Add ==
  /\ phase = "adding"
  /\ rows' = Remember(rows, query, RowsOf(query))
  /\ phase' = "trimming"
  /\ UNCHANGED <<query, answer>>

Drop ==
  /\ phase = "trimming"
  /\ Cardinality(DOMAIN rows) > Capacity
  /\ Forgets(rows, rows')
  /\ UNCHANGED <<phase, query, answer>>

Committed ==
  /\ phase = "trimming"
  /\ Cardinality(DOMAIN rows) <= Capacity
  /\ Return

Next ==
  \/ \E tokens \in Queries : Call(tokens, "finding") \/ Call(tokens, "adding")
  \/ Answer \/ Answered
  \/ Add \/ Drop \/ Committed

Spec == Init /\ [][Next]_storeVars
=============================================================================
