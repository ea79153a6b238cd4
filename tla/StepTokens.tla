------------------------------ MODULE StepTokens ------------------------------
(***************************************************************************)
(* The thought block of one step of the native loop: StepTokenGuard        *)
(* (src/nishachar.cpp), which bans control tokens before each sample and   *)
(* counts the tokens of a thought, and the caller that closes a thought    *)
(* over its budget and generates on (tools/nishachar.cpp:230-264).  The    *)
(* sampler is external: it may choose any token that is not banned, and    *)
(* end the generation at any time.  The proofs are in AgentLoops_proofs.   *)
(***************************************************************************)
EXTENDS Integers

CONSTANTS
  Prefilled,   \* the prompt ends with an opened thought block
  Budget       \* think_budget, 0 for none

VARIABLES
  open,        \* thought_open_
  generated,   \* generated_
  thoughts,    \* thought_tokens_
  blocks,      \* thought blocks the model's turn holds
  phase        \* "first" generation, "tripped" its budget, "second", "over"

vars == <<open, generated, thoughts, blocks, phase>>

Init ==
  /\ open = Prefilled
  /\ generated = 0 /\ thoughts = 0
  /\ blocks = IF Prefilled THEN 1 ELSE 0
  /\ phase = "first"

Generating == phase \in {"first", "second"}

\* "<|channel>": only as the first token, and not in a prefilled block.
Opens ==
  /\ Generating
  /\ generated = 0 /\ ~Prefilled
  /\ generated' = 1
  /\ open' = TRUE /\ thoughts' = 0
  /\ blocks' = blocks + 1
  /\ UNCHANGED phase

\* "<channel|>": only in an open block.
Closes ==
  /\ Generating
  /\ open
  /\ generated' = generated + 1
  /\ open' = FALSE
  /\ UNCHANGED <<thoughts, blocks, phase>>

\* Any other token; on_token returns false on the one past the budget, which
\* ends the generation.
Text ==
  /\ Generating
  /\ generated' = generated + 1
  /\ thoughts' = IF open THEN thoughts + 1 ELSE thoughts
  /\ phase' = IF open /\ Budget > 0 /\ thoughts + 1 > Budget
                THEN (IF phase = "first" THEN "tripped" ELSE "over")
                ELSE phase
  /\ UNCHANGED <<open, blocks>>

\* force_close: "<channel|>" is fed for the model, which goes on.
ForceClose ==
  /\ phase = "tripped"
  /\ open' = FALSE
  /\ phase' = "second"
  /\ UNCHANGED <<generated, thoughts, blocks>>

\* The call is complete, the turn ends, the cap is hit, or the text is a rut.
Ends ==
  /\ Generating
  /\ phase' = "over"
  /\ UNCHANGED <<open, generated, thoughts, blocks>>

Next == Opens \/ Closes \/ Text \/ ForceClose \/ Ends

Spec == Init /\ [][Next]_vars

-----------------------------------------------------------------------------
(* Properties.                                                             *)

TypeOK ==
  /\ open \in BOOLEAN
  /\ generated \in Nat /\ thoughts \in Nat /\ blocks \in Nat
  /\ phase \in {"first", "tripped", "second", "over"}

\* One thought per step, prefilled, opened by the model or none: the model
\* cannot open another after the first is closed, by itself or for it
\* (nishachar.h:184-186).
OneThought == blocks <= 1

\* A thought never runs more than one token past its budget, and once it was
\* closed for the model none is ever open again in the step, so the second
\* generation cannot be stopped by a budget that nobody would handle
\* (nishachar.h:187-188, tools/nishachar.cpp:244-258).
BudgetHeld ==
  /\ Budget > 0 => thoughts <= Budget + 1
  /\ phase = "second" => ~open
=============================================================================
