------------------------------ MODULE NativeLoop ------------------------------
(***************************************************************************)
(* run_gemma4_native (tools/nishachar.cpp), the agent loop over Gemma 4's  *)
(* own tool-call format, with its guards LoopGuards and FailedCallTracker  *)
(* (src/nishachar.cpp).  One action is one iteration.  What the model      *)
(* writes and how a tool ends are external: an iteration takes any kind    *)
(* that classify_native_step can give, and any outcome of the tool.  The   *)
(* texts fed back and the thought block (StepTokens) are left out.         *)
(***************************************************************************)
EXTENDS Integers, Sequences, FiniteSets

CONSTANTS
  MaxSteps,      \* cfg.max_steps
  MaxJunkNudges, \* LoopGuardConfig::max_junk_nudges
  Errors         \* keys of failures: the tool and the first line of its error

VARIABLES
  steps,         \* result.steps: what each iteration came to
  edited,        \* LoopGuards::edited_since_check_
  verifyNudged,  \* LoopGuards::verify_nudged_
  junkNudges,    \* LoopGuards::junk_nudges_
  fails,         \* FailedCallTracker::fails_
  stop           \* result.stop; "MaxSteps" until the loop breaks

vars == <<steps, edited, verifyNudged, junkNudges, fails, stop>>
guards == <<edited, verifyNudged, junkNudges>>

NoError == "no error"

Init ==
  /\ steps = <<>>
  /\ edited = FALSE /\ verifyNudged = FALSE /\ junkNudges = 0
  /\ fails = [e \in Errors |-> 0]
  /\ stop = "MaxSteps"

\* Every iteration but the last records one step.
Going == stop = "MaxSteps" /\ Len(steps) < MaxSteps

Record(kind, error) == steps' = Append(steps, [kind |-> kind, error |-> error])

\* generate() throws, for one on a full context.
GenerateFails ==
  /\ Going
  /\ stop' = "Empty"
  /\ UNCHANGED <<steps, guards, fails>>

\* A reply without a call that the token limit cut off, or that was caught
\* repeating itself: discarded, and asked for again without limit.
Discarded(kind) ==
  /\ Going
  /\ Record(kind, NoError)
  /\ UNCHANGED <<guards, fails, stop>>

\* An empty answer, nudged or the last straw.
Junk ==
  /\ Going
  /\ junkNudges < MaxJunkNudges
  /\ junkNudges' = junkNudges + 1
  /\ Record("junk", NoError)
  /\ UNCHANGED <<edited, verifyNudged, fails, stop>>

GiveUp ==
  /\ Going
  /\ junkNudges >= MaxJunkNudges
  /\ stop' = "Empty"
  /\ Record("gave up", NoError)
  /\ UNCHANGED <<guards, fails>>

\* An answer over unchecked edits, held back once to ask for the checks.
Remind ==
  /\ Going
  /\ edited /\ ~verifyNudged
  /\ verifyNudged' = TRUE
  /\ Record("reminder", NoError)
  /\ UNCHANGED <<edited, junkNudges, fails, stop>>

Final ==
  /\ Going
  /\ ~(edited /\ ~verifyNudged)
  /\ stop' = "Done"
  /\ Record("final", NoError)
  /\ UNCHANGED <<guards, fails>>

\* A call that was cut off, does not parse, names no tool, throws, or whose
\* result is an error: counted under its key, and the guards are not told.
Error(e) ==
  /\ Going
  /\ fails' = [fails EXCEPT ![e] = @ + 1]
  /\ Record("error", e)
  /\ UNCHANGED <<guards, stop>>

\* write_file or edit_file went through: a new edit earns a new reminder.
Edit ==
  /\ Going
  /\ edited' = TRUE /\ verifyNudged' = FALSE
  /\ Record("edit", NoError)
  /\ UNCHANGED <<junkNudges, fails, stop>>

\* A bash command that counts as the checks, whatever the checks say.
Check ==
  /\ Going
  /\ edited' = FALSE
  /\ Record("check", NoError)
  /\ UNCHANGED <<verifyNudged, junkNudges, fails, stop>>

OtherCall ==
  /\ Going
  /\ Record("call", NoError)
  /\ UNCHANGED <<guards, fails, stop>>

Next ==
  \/ GenerateFails
  \/ \E kind \in {"rut", "cut"} : Discarded(kind)
  \/ Junk \/ GiveUp \/ Remind \/ Final
  \/ \E e \in Errors : Error(e)
  \/ Edit \/ Check \/ OtherCall

Spec == Init /\ [][Next]_vars

-----------------------------------------------------------------------------
(* Properties.                                                             *)

Kinds == {"rut", "cut", "junk", "gave up", "reminder", "final", "error",
          "edit", "check", "call"}
Step == [kind : Kinds, error : Errors \cup {NoError}]

\* Types; the loop never exceeds its bound.
TypeOK ==
  /\ steps \in Seq(Step) /\ Len(steps) <= MaxSteps
  /\ edited \in BOOLEAN /\ verifyNudged \in BOOLEAN
  /\ junkNudges \in 0..MaxJunkNudges
  /\ fails \in [Errors -> Nat]
  /\ stop \in {"MaxSteps", "Empty", "Done"}

IsAt(s, kind, i) == i \in DOMAIN s /\ s[i].kind = kind

\* An answer is accepted as Done only if every edit was followed by a check or
\* by the reminder to run one, however edits, checks, failures and discarded
\* replies alternate (src/nishachar.cpp:116-127, 140-144; nishachar.h:149-150).
DoneWasChecked ==
  stop = "Done" =>
    \A i \in DOMAIN steps : IsAt(steps, "edit", i) =>
      \E k \in DOMAIN steps : k > i /\ (IsAt(steps, "check", k) \/ IsAt(steps, "reminder", k))

\* The reminder comes once for an unchecked edit: between two reminders there
\* is another edit (src/nishachar.cpp:120).
RemindersAreEarned ==
  \A i, j \in DOMAIN steps :
    i < j /\ IsAt(steps, "reminder", i) /\ IsAt(steps, "reminder", j) =>
      \E k \in DOMAIN steps : i < k /\ k < j /\ IsAt(steps, "edit", k)

\* Steps that nudge an empty answer.
JunkSteps == {i \in DOMAIN steps : steps[i].kind = "junk"}

\* The run gives up over empty answers only after every nudge was spent, and
\* never spends more (nishachar.h:146, src/nishachar.cpp:134-139).
JunkIsBounded ==
  /\ Cardinality(JunkSteps) <= MaxJunkNudges
  /\ \A i \in DOMAIN steps :
       IsAt(steps, "gave up", i) => Cardinality(JunkSteps) = MaxJunkNudges

\* A failure's count is the number of steps that failed that way, so its note
\* (from the second on) tells the truth (src/nishachar.cpp:22-29,
\* tools/nishachar.cpp:359-363).
FailuresCounted ==
  \A e \in Errors : fails[e] = Cardinality({i \in DOMAIN steps : steps[i].error = e})
=============================================================================
