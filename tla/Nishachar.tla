------------------------------ MODULE Nishachar ------------------------------
(***************************************************************************)
(* Nishachar::run (src/nishachar.cpp), the goal-driven loop: generate,     *)
(* parse, run the tool, feed its result back.  The model's text and the    *)
(* tools are external: each iteration takes any output the parser can      *)
(* classify, and a tool succeeds or fails as it likes.  A call stands for  *)
(* its canonical name and arguments (raw_json).                            *)
(***************************************************************************)
EXTENDS Integers, Sequences

CONSTANTS
  Calls,             \* calls the model may make
  MaxSteps,          \* cfg.max_steps
  RepeatLimit,       \* cfg.loop_repeat_limit, 0 for off
  StopOnToolError,   \* cfg.stop_on_tool_error
  RequireTool        \* cfg.require_tool_before_done

VARIABLES
  steps,     \* result.steps: kind of step, its call, whether the tool ran
  messages,  \* the roles of the conversation rendered into the next prompt
  lastSig,   \* last_sig, NoCall when cleared
  repeat,    \* identical calls in a row, the last one included
  nudged,    \* the one nudge has been spent
  stop       \* result.stop; "MaxSteps" until the loop breaks

vars == <<steps, messages, lastSig, repeat, nudged, stop>>

NoCall == "no call"

Init ==
  /\ steps = <<>>
  /\ messages = <<"system", "user">>
  /\ lastSig = NoCall /\ repeat = 0
  /\ nudged = FALSE
  /\ stop = "MaxSteps"

\* Every iteration but the last records one step, so the loop variable is the
\* number of steps recorded.
Going == stop = "MaxSteps" /\ Len(steps) < MaxSteps

Record(kind, call, ran) ==
  steps' = Append(steps, [kind |-> kind, call |-> call, ran |-> ran])

FeedBack(role) == messages' = Append(Append(messages, "assistant"), role)

EmptyOutput ==
  /\ Going
  /\ stop' = "Empty"
  /\ UNCHANGED <<steps, messages, lastSig, repeat, nudged>>

\* A call that does not parse is answered with the reason.
Malformed ==
  /\ Going
  /\ lastSig' = NoCall /\ repeat' = 0
  /\ Record("malformed", NoCall, FALSE)
  /\ FeedBack("tool")
  /\ UNCHANGED <<nudged, stop>>

\* How many times in a row `call` has now been made.
Again(call) == IF call = lastSig THEN repeat + 1 ELSE 1

Guarded(call) == RepeatLimit > 0 /\ Again(call) >= RepeatLimit

Counted(call) == repeat' = Again(call) /\ lastSig' = call

\* The tool runs, and succeeds or throws.
RunCall(call, ok) ==
  /\ Going
  /\ ~Guarded(call)
  /\ Counted(call)
  /\ Record("call", call, TRUE)
  /\ FeedBack("tool")
  /\ stop' = IF ~ok /\ StopOnToolError THEN "ToolError" ELSE stop
  /\ UNCHANGED nudged

\* The loop guard: the call is refused, and fails as a tool would.
RefuseCall(call) ==
  /\ Going
  /\ Guarded(call) /\ Again(call) = RepeatLimit
  /\ Counted(call)
  /\ Record("call", call, FALSE)
  /\ FeedBack("tool")
  /\ stop' = IF StopOnToolError THEN "ToolError" ELSE stop
  /\ UNCHANGED nudged

\* Refused once already, and made again.
GiveUp(call) ==
  /\ Going
  /\ Guarded(call) /\ Again(call) > RepeatLimit
  /\ Counted(call)
  /\ Record("call", call, FALSE)
  /\ stop' = "Loop"
  /\ UNCHANGED <<messages, nudged>>

Called == \E i \in DOMAIN steps : steps[i].kind = "call"

Nudges == RequireTool /\ ~nudged /\ ~Called

\* Text without a call, before any tool was used.
Nudge ==
  /\ Going
  /\ Nudges
  /\ lastSig' = NoCall /\ repeat' = 0
  /\ nudged' = TRUE
  /\ Record("nudge", NoCall, FALSE)
  /\ FeedBack("user")
  /\ UNCHANGED stop

\* Text without a call: the answer.
Final ==
  /\ Going
  /\ ~Nudges
  /\ lastSig' = NoCall /\ repeat' = 0
  /\ Record("final", NoCall, FALSE)
  /\ stop' = "Done"
  /\ UNCHANGED <<messages, nudged>>

Next ==
  \/ EmptyOutput \/ Malformed \/ Nudge \/ Final
  \/ \E call \in Calls :
       \/ \E ok \in BOOLEAN : RunCall(call, ok)
       \/ RefuseCall(call)
       \/ GiveUp(call)

Spec == Init /\ [][Next]_vars

-----------------------------------------------------------------------------
(* Properties.                                                             *)

Kinds == {"malformed", "call", "nudge", "final"}
Step == [kind : Kinds, call : Calls \cup {NoCall}, ran : BOOLEAN]
Stops == {"MaxSteps", "Empty", "ToolError", "Loop", "Done"}

\* Types; the loop never exceeds its bound.
TypeOK ==
  /\ steps \in Seq(Step) /\ Len(steps) <= MaxSteps
  /\ messages \in Seq({"system", "user", "assistant", "tool"})
  /\ lastSig \in Calls \cup {NoCall}
  /\ repeat \in Nat
  /\ nudged \in BOOLEAN
  /\ stop \in Stops

\* Elements i to j of s are all calls, and all the same one.
SameCall(s, i, j) ==
  \A k \in i..j : s[k].kind = "call" /\ s[k].call = s[j].call

\* However calls, errors and answers alternate, the same call is never run
\* RepeatLimit times in a row (nishachar.h:259-262).
NeverSpins ==
  RepeatLimit > 0 =>
    \A i, j \in DOMAIN steps :
      j = i + RepeatLimit - 1 /\ SameCall(steps, i, j) => ~steps[j].ran

\* The loop guard stops a run only over a call that was refused and then made
\* again: the last RepeatLimit + 1 steps are that call (src/nishachar.cpp:795-802).
LoopIsALoop ==
  stop = "Loop" =>
    /\ Len(steps) > RepeatLimit
    /\ SameCall(steps, Len(steps) - RepeatLimit, Len(steps))
    /\ ~steps[Len(steps)].ran /\ ~steps[Len(steps) - 1].ran

\* Required tool use: an answer is accepted after a call, or after the one
\* nudge was spent on an earlier answer; and no nudge follows a call
\* (src/nishachar.cpp:833-844).
AnswerIsEarned ==
  /\ stop = "Done" /\ RequireTool =>
       \E i \in 1..(Len(steps) - 1) : steps[i].kind \in {"call", "nudge"}
  /\ \A i, j \in DOMAIN steps :
       i < j /\ steps[j].kind = "nudge" => steps[i].kind \notin {"call", "nudge"}

\* The steps whose output and result the model has been shown.
Fed == Len(steps) - (IF stop \in {"Done", "Loop"} THEN 1 ELSE 0)

\* What the model is shown is what happened: an assistant turn and its answer
\* for every recorded step, in their order, except the step that ended the run
\* as Done or Loop (src/nishachar.cpp:780-781, 820-821, 841-842).
TranscriptFollows ==
  /\ Len(messages) = 2 + 2 * Fed
  /\ \A n \in 1..Fed :
       /\ messages[2 * n + 1] = "assistant"
       /\ messages[2 * n + 2] = IF steps[n].kind = "nudge" THEN "user" ELSE "tool"
=============================================================================
