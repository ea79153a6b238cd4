----------------------------- MODULE DartRuntime -----------------------------
(***************************************************************************)
(* The Flutter plugin's runtime: SipllmRuntime and one SipllmAgent on the  *)
(* UI isolate, the worker isolate that owns the native context, the C ABI  *)
(* (ffi/sipllm_ffi.cpp) and the AgentSession behind it                     *)
(* (src/nishachar.cpp).                                                    *)
(*                                                                         *)
(* The UI isolate handles one event at a time and runs to its next await;  *)
(* commands reach the worker in the order they were sent.  Each request    *)
(* has a port of its own, so a reply finds its request or nobody; streamed *)
(* tokens only show that a native call goes on, and are left out, as is    *)
(* reset(), which sends a command and changes nothing here.  op is what    *)
(* the UI isolate is in the middle of; the agent runs while op is one of   *)
(* AgentOps.  Only cancel() reaches past the worker, to a native flag.     *)
(***************************************************************************)
EXTENDS Integers, Sequences

CONSTANTS
  MaxSteps,         \* cfg.max_steps of the agent
  StopOnToolError   \* cfg.stop_on_tool_error

VARIABLES
  closed, busy,        \* _closed, _busy of SipllmRuntime
  cancelled, disposed, \* _cancelled, _disposed of SipllmAgent
  op,                  \* what a caller of the runtime awaits
  closing,             \* close(): "no", "waiting" for the worker, "over"
  inbox,               \* commands the worker has not handled
  reply,               \* the last answer to op, not handled yet
  exitNotice,          \* the worker's death notice, not handled yet
  worker,              \* "idle", the native call it is in, or "gone"
  killed,              \* Isolate.kill has been called
  flag,                \* sipllm_ctx::cancel
  ctx, agent,          \* the native objects: "live" or "freed"
  session, steps       \* AgentSession: where it stands, steps recorded

ui  == <<closed, busy, cancelled, disposed, op, closing>>
wires == <<inbox, reply, exitNotice>>
native == <<flag, ctx, agent, session, steps>>
vars == <<closed, busy, cancelled, disposed, op, closing, inbox, reply,
          exitNotice, worker, killed, flag, ctx, agent, session, steps>>

AgentRequests == {"start", "step", "submit"}
Requests == {"generate", "embed"} \cup AgentRequests
AgentOps == AgentRequests \cup {"tool"}

None == "none"
Running == op \in AgentOps

Send(command) == inbox' = Append(inbox, command)

Init ==
  /\ closed = FALSE /\ busy = FALSE
  /\ cancelled = FALSE /\ disposed = FALSE
  /\ op = None
  /\ closing = "no"
  /\ inbox = <<>>
  /\ reply = None
  /\ exitNotice = FALSE
  /\ worker = "idle"
  /\ killed = FALSE
  /\ flag = FALSE
  /\ ctx = "live" /\ agent = "live"
  /\ session = "none" /\ steps = 0

-----------------------------------------------------------------------------
(* The UI isolate: what the app calls.                                     *)

\* generate() and embed(); refused while the runtime is busy or closed.
Ask(request) ==
  /\ ~closed /\ ~busy
  /\ busy' = TRUE
  /\ op' = request
  /\ Send(request)
  /\ UNCHANGED <<closed, cancelled, disposed, closing, reply, exitNotice,
                 worker, killed, native>>

Run ==
  /\ ~disposed /\ ~Running /\ ~closed /\ ~busy
  /\ busy' = TRUE
  /\ cancelled' = FALSE
  /\ op' = "start"
  /\ Send("start")
  /\ UNCHANGED <<closed, disposed, closing, reply, exitNotice, worker, killed,
                 native>>

\* SipllmRuntime.cancel, also when the listener of a generation goes.
Cancel ==
  /\ ~closed
  /\ flag' = TRUE
  /\ UNCHANGED <<ui, wires, worker, killed, ctx, agent, session, steps>>

AgentCancel ==
  /\ Running
  /\ cancelled' = TRUE
  /\ flag' = (flag \/ ~closed)
  /\ UNCHANGED <<closed, busy, disposed, op, closing, wires, worker, killed,
                 ctx, agent, session, steps>>

\* dispose(): cancels a run and has the native agent freed.
Dispose ==
  /\ ~disposed
  /\ disposed' = TRUE
  /\ cancelled' = (cancelled \/ Running)
  /\ flag' = (flag \/ (Running /\ ~closed))
  /\ IF closed THEN UNCHANGED inbox ELSE Send("free")
  /\ UNCHANGED <<closed, busy, op, closing, reply, exitNotice, worker, killed,
                 ctx, agent, session, steps>>

Close ==
  /\ ~closed
  /\ flag' = (flag \/ busy)
  /\ closed' = TRUE
  /\ closing' = "waiting"
  /\ Send("close")
  /\ UNCHANGED <<busy, cancelled, disposed, op, reply, exitNotice, worker,
                 killed, ctx, agent, session, steps>>

-----------------------------------------------------------------------------
(* The UI isolate: what it is told.                                        *)

\* The stream or future ends; `finally` clears the busy flags.
Over == op' = None /\ busy' = FALSE

\* The top of the agent's loop: stop if cancelled, else ask for a step, which
\* fails at once on a closed runtime.
NextStep ==
  IF cancelled \/ closed
    THEN Over /\ UNCHANGED inbox
    ELSE op' = "step" /\ Send("step") /\ UNCHANGED busy

\* The answer to the request that op awaits.
Answered ==
  /\ reply # None
  /\ CASE reply \in {"started", "more"} -> NextStep
       [] reply = "call" -> op' = "tool" /\ UNCHANGED <<busy, inbox>>
       [] OTHER -> Over /\ UNCHANGED inbox
  /\ reply' = None
  /\ UNCHANGED <<closed, cancelled, disposed, closing, exitNotice, worker,
                 killed, native>>

\* The app's executor has returned or thrown.  The result is told to the
\* model, unless the run was cancelled meanwhile or the runtime closed.
ToolDone ==
  /\ op = "tool"
  /\ IF cancelled \/ closed
       THEN Over /\ UNCHANGED inbox
       ELSE op' = "submit" /\ Send("submit") /\ UNCHANGED busy
  /\ UNCHANGED <<closed, cancelled, disposed, closing, reply, exitNotice,
                 worker, killed, native>>

\* The worker's exit: every request in flight fails.
WorkerExited ==
  /\ exitNotice
  /\ exitNotice' = FALSE
  /\ closed' = TRUE
  /\ busy' = FALSE
  /\ op' = IF op \in Requests THEN None ELSE op
  /\ reply' = None
  /\ UNCHANGED <<cancelled, disposed, closing, inbox, worker, killed, native>>

\* close() ends with the worker's reply, or kills it after the timeout.
CloseAnswered ==
  /\ closing = "waiting"
  /\ ctx = "freed"
  /\ closing' = "over"
  /\ UNCHANGED <<closed, busy, cancelled, disposed, op, wires, worker, killed,
                 native>>

CloseTimeout ==
  /\ closing = "waiting"
  /\ closing' = "over"
  /\ killed' = TRUE
  /\ UNCHANGED <<closed, busy, cancelled, disposed, op, wires, worker, native>>

-----------------------------------------------------------------------------
(* The worker isolate and the native code it calls.                        *)

Takes(command) ==
  /\ worker = "idle"
  /\ inbox # <<>>
  /\ Head(inbox) = command
  /\ inbox' = Tail(inbox)

\* sipllm_generate starts: whatever was cancelled before is forgotten.
GenerateBegins ==
  /\ Takes("generate")
  /\ worker' = "generate"
  /\ flag' = FALSE
  /\ UNCHANGED <<ui, reply, exitNotice, killed, ctx, agent, session, steps>>

GenerateEnds ==
  /\ worker = "generate"
  /\ worker' = "idle"
  /\ reply' \in {"done", "error"}
  /\ UNCHANGED <<ui, inbox, exitNotice, killed, native>>

Embed ==
  /\ Takes("embed")
  /\ reply' \in {"done", "error"}
  /\ UNCHANGED <<ui, exitNotice, worker, killed, native>>

\* sipllm_agent_start: a new session, or none if its construction throws.
Start ==
  /\ Takes("start")
  /\ \/ agent = "freed" /\ reply' = "error" /\ UNCHANGED session
     \/ agent = "live" /\ reply' = "started" /\ session' = "ready"
     \/ agent = "live" /\ reply' = "error" /\ session' = "none"
  /\ steps' = IF session' = "ready" THEN 0 ELSE steps
  /\ UNCHANGED <<ui, exitNotice, worker, killed, flag, ctx, agent>>

\* sipllm_agent_step begins; the flag is cleared here too.
StepBegins ==
  /\ Takes("step")
  /\ agent = "live" /\ session = "ready"
  /\ worker' = "step"
  /\ flag' = FALSE
  /\ UNCHANGED <<ui, reply, exitNotice, killed, ctx, agent, session, steps>>

\* A step nobody should have asked for: no agent, no session, one that has
\* ended, or one that waits for a tool's result.
StepRefused ==
  /\ Takes("step")
  /\ ~(agent = "live" /\ session = "ready")
  /\ reply' = IF agent = "live" /\ session = "ended" THEN "ended" ELSE "error"
  /\ UNCHANGED <<ui, exitNotice, worker, killed, native>>

\* submit_output: a tool call, an answer, or nothing; a cancelled generation
\* and one that throws leave the session as it was.
StepEnds ==
  /\ worker = "step"
  /\ worker' = "idle"
  /\ \/ reply' = "call" /\ session' = "awaiting" /\ UNCHANGED steps
     \/ reply' = "ended" /\ session' = "ended" /\ steps' \in {steps, steps + 1}
     \/ reply' = "cancelled" /\ flag /\ UNCHANGED <<session, steps>>
     \/ reply' = "error" /\ UNCHANGED <<session, steps>>
  /\ UNCHANGED <<ui, inbox, exitNotice, killed, flag, ctx, agent>>

\* sipllm_agent_submit_result, and submit_result: the step is recorded.
Submit(ok) ==
  /\ Takes("submit")
  /\ agent = "live" /\ session = "awaiting"
  /\ steps' = steps + 1
  /\ IF (~ok /\ StopOnToolError) \/ steps + 1 >= MaxSteps
       THEN session' = "ended" /\ reply' = "ended"
       ELSE session' = "ready" /\ reply' = "more"
  /\ UNCHANGED <<ui, exitNotice, worker, killed, flag, ctx, agent>>

\* A result nobody waits for is answered -1, which run() takes for "go on".
SubmitRefused ==
  /\ Takes("submit")
  /\ ~(agent = "live" /\ session = "awaiting")
  /\ reply' = IF agent = "live" THEN "more" ELSE "error"
  /\ UNCHANGED <<ui, exitNotice, worker, killed, native>>

Free ==
  /\ Takes("free")
  /\ agent' = "freed"
  /\ session' = "none"
  /\ UNCHANGED <<ui, reply, exitNotice, worker, killed, flag, ctx, steps>>

\* Agents, then the context, then the isolate.
CloseContext ==
  /\ Takes("close")
  /\ agent' = "freed"
  /\ session' = "none"
  /\ ctx' = "freed"
  /\ worker' = "gone"
  /\ exitNotice' = TRUE
  /\ UNCHANGED <<ui, reply, killed, flag, steps>>

\* An error nobody catches, or the kill, ends the isolate where it is; the
\* context stays allocated.
WorkerDies ==
  /\ worker # "gone"
  /\ worker' = "gone"
  /\ exitNotice' = TRUE
  /\ UNCHANGED <<ui, inbox, reply, killed, native>>

-----------------------------------------------------------------------------
AppCalls ==
  \/ \E request \in {"generate", "embed"} : Ask(request)
  \/ Run \/ Cancel \/ AgentCancel \/ Dispose \/ Close

UiHandles ==
  Answered \/ ToolDone \/ WorkerExited \/ CloseAnswered \/ CloseTimeout

WorkerHandles ==
  \/ GenerateBegins \/ GenerateEnds \/ Embed
  \/ Start \/ StepBegins \/ StepRefused \/ StepEnds
  \/ (\E ok \in BOOLEAN : Submit(ok)) \/ SubmitRefused
  \/ Free \/ CloseContext

Next == AppCalls \/ UiHandles \/ WorkerHandles \/ WorkerDies

Spec == Init /\ [][Next]_vars

-----------------------------------------------------------------------------
(* Properties.                                                             *)

Replies == {"done", "error", "started", "call", "ended", "cancelled", "more"}

\* Types of the flags.
FlagsOK ==
  /\ closed \in BOOLEAN /\ busy \in BOOLEAN
  /\ cancelled \in BOOLEAN /\ disposed \in BOOLEAN
  /\ exitNotice \in BOOLEAN /\ killed \in BOOLEAN /\ flag \in BOOLEAN

\* Types of the rest; a session that may be stepped has steps left.
PlacesOK ==
  /\ op \in Requests \cup {"tool", None}
  /\ closing \in {"no", "waiting", "over"}
  /\ inbox \in Seq(Requests \cup {"free", "close"})
  /\ reply \in Replies \cup {None}
  /\ worker \in {"idle", "generate", "step", "gone"}
  /\ ctx \in {"live", "freed"} /\ agent \in {"live", "freed"}
  /\ session \in {"none", "ready", "awaiting", "ended"}
  /\ steps \in 0..MaxSteps
  /\ session \in {"ready", "awaiting"} => steps < MaxSteps

\* Types of the flags, the wires and the native objects; a session that may be
\* stepped has steps left.
TypeOK == FlagsOK /\ PlacesOK

\* The native context is freed only by a worker that is gone and a runtime
\* that is closed: no native call is under way, and cancel() no longer touches
\* the flag inside it (sipllm_runtime.dart:223-226, 316-321).
FreedIsUnused == ctx = "freed" => closed /\ worker = "gone"

\* An open runtime that says it is not busy is at rest: no request of an
\* earlier generation, embedding or run is queued, running or unanswered, so
\* two callers never meet on the context (sipllm_runtime.dart:154-161, 233).
NotBusyIsIdle ==
  ~closed /\ ~busy =>
    /\ op = None /\ reply = None
    /\ worker \in {"idle", "gone"}
    /\ \A i \in DOMAIN inbox : inbox[i] \notin Requests

\* Whatever is awaited is on its way: queued at a worker that lives, being
\* computed, answered, or about to fail with the worker's death notice; no
\* caller waits for nobody (sipllm_runtime.dart:48-63, 270-300).
NobodyWaitsInVain ==
  op \in Requests =>
    \/ worker = op
    \/ worker # "gone" /\ \E i \in DOMAIN inbox : inbox[i] = op
    \/ reply # None
    \/ exitNotice

\* The Dart loop and the native session keep step through cancel, dispose and
\* close: a step is asked of a session that may take one, a result is submitted
\* to one that waits for it, and no agent is used after its disposal, so none
\* of the session's refusals happens (sipllm_ffi.cpp:433-445, 509-518).
InStep == [][~StepRefused /\ ~SubmitRefused
             /\ (Start => agent = "live")]_vars
=============================================================================
