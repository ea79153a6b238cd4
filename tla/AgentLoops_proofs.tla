-------------------------- MODULE AgentLoops_proofs --------------------------
(***************************************************************************)
(* Proofs about the agent loops: NativeLoop, for every bound on the steps, *)
(* every number of nudges and every set of errors; StepTokens, for every   *)
(* budget; and Nishachar, under the name Goal.                             *)
(***************************************************************************)
EXTENDS NativeLoop, FiniteSetTheorems, TLAPS

\* Bounds are not negative; an error has a text of its own.
Settings ==
  /\ MaxSteps \in Nat /\ MaxJunkNudges \in Nat
  /\ NoError \notin Errors

Last == Len(steps)

Answers(s, k, i) == k > i /\ (IsAt(s, "check", k) \/ IsAt(s, "reminder", k))

\* Every edit has had its check or reminder, unless one is known to wait.
EditsWatched ==
  (edited => verifyNudged) =>
    \A i \in DOMAIN steps : IsAt(steps, "edit", i) =>
      \E k \in DOMAIN steps : Answers(steps, k, i)

\* The next reminder will be about an edit after the last one.
ReminderFresh ==
  ~verifyNudged =>
    \A i \in DOMAIN steps : IsAt(steps, "reminder", i) =>
      \E k \in DOMAIN steps : k > i /\ IsAt(steps, "edit", k)

\* Giving up is the last step, once the nudges are spent.
JunkCounted ==
  /\ Cardinality(JunkSteps) = junkNudges
  /\ \A i \in DOMAIN steps :
       IsAt(steps, "gave up", i) => stop = "Empty" /\ junkNudges = MaxJunkNudges

IInv ==
  /\ TypeOK
  /\ EditsWatched /\ DoneWasChecked
  /\ ReminderFresh /\ RemindersAreEarned
  /\ JunkCounted
  /\ FailuresCounted

-----------------------------------------------------------------------------
(* One more step.                                                           *)

LEMMA Recorded ==
  ASSUME Settings, TypeOK, Going, NEW kind \in Kinds, NEW error \in Errors \cup {NoError},
         Record(kind, error)
  PROVE  /\ steps' \in Seq(Step) /\ Len(steps') <= MaxSteps
         /\ Last \in Nat /\ Last' = Last + 1
         /\ DOMAIN steps = 1..Last /\ DOMAIN steps' = 1..(Last + 1)
         /\ \A i \in 1..Last : steps'[i] = steps[i]
         /\ steps'[Last + 1].kind = kind /\ steps'[Last + 1].error = error
<1>1. [kind |-> kind, error |-> error] \in Step
  BY DEF Step
<1> QED
  BY <1>1, SMT DEF Record, Last, TypeOK, Going, Settings

\* The steps as the properties see them: the old ones, and one at the end.
LEMMA Seen ==
  ASSUME Settings, TypeOK, Going, NEW kind \in Kinds, NEW error \in Errors \cup {NoError},
         Record(kind, error)
  PROVE  /\ Last + 1 \in DOMAIN steps' /\ Last + 1 \notin DOMAIN steps
         /\ \A i \in DOMAIN steps : i \in DOMAIN steps' /\ i < Last + 1 /\ ~(Last + 1 < i)
         /\ \A i \in DOMAIN steps' : i \in DOMAIN steps \/ i = Last + 1
         /\ \A k \in Kinds : \A i \in DOMAIN steps : IsAt(steps', k, i) <=> IsAt(steps, k, i)
         /\ \A k \in Kinds : IsAt(steps', k, Last + 1) <=> k = kind
<1>1. /\ Last \in Nat
      /\ DOMAIN steps = 1..Last /\ DOMAIN steps' = 1..(Last + 1)
      /\ \A i \in 1..Last : steps'[i] = steps[i]
      /\ steps'[Last + 1].kind = kind
  BY Recorded
<1> QED
  BY <1>1, SMT DEF IsAt

\* Steps picked by what they are: a new one joins them or not.
LEMMA Picked ==
  ASSUME Settings, TypeOK, Going, NEW kind \in Kinds, NEW error \in Errors \cup {NoError},
         Record(kind, error)
  PROVE  /\ IsFiniteSet(JunkSteps)
         /\ kind # "junk" => JunkSteps' = JunkSteps
         /\ kind = "junk" => Cardinality(JunkSteps') = Cardinality(JunkSteps) + 1
         /\ \A e \in Errors :
              LET Old == {i \in DOMAIN steps : steps[i].error = e}
                  New == {i \in DOMAIN steps' : steps'[i].error = e}
              IN  Cardinality(New) = IF error = e THEN Cardinality(Old) + 1 ELSE Cardinality(Old)
<1>1. /\ Last \in Nat
      /\ DOMAIN steps = 1..Last /\ DOMAIN steps' = 1..(Last + 1)
      /\ \A i \in 1..Last : steps'[i] = steps[i]
      /\ steps'[Last + 1].kind = kind /\ steps'[Last + 1].error = error
  BY Recorded
<1>2. IsFiniteSet(1..Last) /\ Last + 1 \notin 1..Last
  BY <1>1, FS_Interval, SMT
<1>3. IsFiniteSet(JunkSteps)
  BY <1>1, <1>2, FS_Subset, Zenon DEF JunkSteps
<1>4. kind # "junk" => JunkSteps' = JunkSteps
  BY <1>1, SMT DEF JunkSteps
<1>5. kind = "junk" => JunkSteps' = JunkSteps \cup {Last + 1}
  BY <1>1, SMT DEF JunkSteps
<1>6. Last + 1 \notin JunkSteps
  BY <1>1, <1>2 DEF JunkSteps
<1>7. kind = "junk" => Cardinality(JunkSteps') = Cardinality(JunkSteps) + 1
  BY <1>3, <1>5, <1>6, FS_AddElement
<1>8. ASSUME NEW e \in Errors
      PROVE  LET Old == {i \in DOMAIN steps : steps[i].error = e}
                 New == {i \in DOMAIN steps' : steps'[i].error = e}
             IN  Cardinality(New) = IF error = e THEN Cardinality(Old) + 1 ELSE Cardinality(Old)
  <2> DEFINE Old == {i \in DOMAIN steps : steps[i].error = e}
             New == {i \in DOMAIN steps' : steps'[i].error = e}
  <2>1. IsFiniteSet(Old) /\ Last + 1 \notin Old
    <3>1. Old \subseteq 1..Last
      BY <1>1
    <3> QED
      BY <1>2, <3>1, FS_Subset
  <2>2. error = e => New = Old \cup {Last + 1}
    BY <1>1, SMT
  <2>3. error # e => New = Old
    BY <1>1, SMT
  <2> HIDE DEF Old, New
  <2>4. Cardinality(New) = IF error = e THEN Cardinality(Old) + 1 ELSE Cardinality(Old)
    BY <2>1, <2>2, <2>3, FS_AddElement
  <2> QED
    BY <2>4 DEF Old, New
<1> QED
  BY <1>3, <1>4, <1>7, <1>8

-----------------------------------------------------------------------------
(* The parts of the invariant.                                              *)

\* Iterations that neither edit, check nor remind.
LEMMA Unmarked ==
  ASSUME Settings, IInv, Going, NEW kind \in Kinds \ {"edit", "check", "reminder"},
         NEW error \in Errors \cup {NoError}, Record(kind, error),
         edited' = edited, verifyNudged' = verifyNudged
  PROVE  EditsWatched' /\ ReminderFresh' /\ RemindersAreEarned'
<1> DEFINE n == Last + 1
<1>1. /\ \A i \in DOMAIN steps : i \in DOMAIN steps'
      /\ \A i \in DOMAIN steps' : i \in DOMAIN steps \/ i = n
      /\ \A k \in Kinds : \A i \in DOMAIN steps : IsAt(steps', k, i) <=> IsAt(steps, k, i)
      /\ \A k \in Kinds : IsAt(steps', k, n) <=> k = kind
  BY Seen, Zenon DEF IInv
<1>2. {"edit", "check", "reminder"} \subseteq Kinds
  BY DEF Kinds
<1> HIDE DEF n
<1>3. EditsWatched'
  BY <1>1, <1>2, Zenon DEF EditsWatched, Answers, IInv
<1>4. ReminderFresh'
  BY <1>1, <1>2, Zenon DEF ReminderFresh, IInv
<1>5. RemindersAreEarned'
  BY <1>1, <1>2, Zenon DEF RemindersAreEarned, IInv
<1> QED
  BY <1>3, <1>4, <1>5

LEMMA Edited ==
  ASSUME Settings, IInv, Edit
  PROVE  EditsWatched' /\ ReminderFresh' /\ RemindersAreEarned'
<1> DEFINE n == Last + 1
<1>0. Going /\ Record("edit", NoError) /\ edited' = TRUE /\ verifyNudged' = FALSE
  BY DEF Edit
<1>1. /\ n \in DOMAIN steps'
      /\ \A i \in DOMAIN steps : i \in DOMAIN steps' /\ i < n
      /\ \A i \in DOMAIN steps' : i \in DOMAIN steps \/ i = n
      /\ \A k \in Kinds : \A i \in DOMAIN steps : IsAt(steps', k, i) <=> IsAt(steps, k, i)
      /\ \A k \in Kinds : IsAt(steps', k, n) <=> k = "edit"
  BY <1>0, Seen, Zenon DEF IInv, Kinds
<1>2. {"edit", "check", "reminder"} \subseteq Kinds
  BY DEF Kinds
<1>3. \A i \in DOMAIN steps : n > i
  <2>1. Last \in Nat /\ DOMAIN steps = 1..Last
    BY <1>0, Recorded, Zenon DEF IInv, Kinds
  <2> QED
    BY <2>1, SMT
<1> HIDE DEF n
<1>4. EditsWatched'
  BY <1>0, Zenon DEF EditsWatched
<1>5. ReminderFresh'
  BY <1>1, <1>2, <1>3, Zenon DEF ReminderFresh
<1>6. RemindersAreEarned'
  BY <1>1, <1>2, Zenon DEF RemindersAreEarned, IInv
<1> QED
  BY <1>4, <1>5, <1>6

LEMMA Checked ==
  ASSUME Settings, IInv, Check
  PROVE  EditsWatched' /\ ReminderFresh' /\ RemindersAreEarned'
<1> DEFINE n == Last + 1
<1>0. /\ Going /\ Record("check", NoError) /\ edited' = FALSE
      /\ verifyNudged' = verifyNudged
  BY DEF Check
<1>1. /\ n \in DOMAIN steps'
      /\ \A i \in DOMAIN steps : i \in DOMAIN steps' /\ i < n
      /\ \A i \in DOMAIN steps' : i \in DOMAIN steps \/ i = n
      /\ \A k \in Kinds : \A i \in DOMAIN steps : IsAt(steps', k, i) <=> IsAt(steps, k, i)
      /\ \A k \in Kinds : IsAt(steps', k, n) <=> k = "check"
  BY <1>0, Seen, Zenon DEF IInv, Kinds
<1>2. {"edit", "check", "reminder"} \subseteq Kinds
  BY DEF Kinds
<1>3. \A i \in DOMAIN steps : n > i
  <2>1. Last \in Nat /\ DOMAIN steps = 1..Last
    BY <1>0, Recorded, Zenon DEF IInv, Kinds
  <2> QED
    BY <2>1, SMT
<1> HIDE DEF n
<1>4. EditsWatched'
  BY <1>1, <1>2, <1>3, Zenon DEF EditsWatched, Answers
<1>5. ReminderFresh'
  BY <1>0, <1>1, <1>2, Zenon DEF ReminderFresh, IInv
<1>6. RemindersAreEarned'
  BY <1>1, <1>2, Zenon DEF RemindersAreEarned, IInv
<1> QED
  BY <1>4, <1>5, <1>6

LEMMA Reminded ==
  ASSUME Settings, IInv, Remind
  PROVE  EditsWatched' /\ ReminderFresh' /\ RemindersAreEarned'
<1> DEFINE n == Last + 1
<1>0. /\ Going /\ Record("reminder", NoError) /\ ~verifyNudged
      /\ verifyNudged' = TRUE
  BY DEF Remind
<1>1. /\ n \in DOMAIN steps'
      /\ \A i \in DOMAIN steps : i \in DOMAIN steps' /\ i < n /\ ~(n < i)
      /\ \A i \in DOMAIN steps' : i \in DOMAIN steps \/ i = n
      /\ \A k \in Kinds : \A i \in DOMAIN steps : IsAt(steps', k, i) <=> IsAt(steps, k, i)
      /\ \A k \in Kinds : IsAt(steps', k, n) <=> k = "reminder"
  BY <1>0, Seen, Zenon DEF IInv, Kinds
<1>2. {"edit", "check", "reminder"} \subseteq Kinds
  BY DEF Kinds
<1>3. /\ \A i, k \in DOMAIN steps : k > i => i < k
      /\ \A i \in DOMAIN steps : n > i
      /\ ~(n < n)
  <2>1. Last \in Nat /\ DOMAIN steps = 1..Last
    BY <1>0, Recorded, Zenon DEF IInv, Kinds
  <2> QED
    BY <2>1, SMT
<1> HIDE DEF n
<1>4. EditsWatched'
  BY <1>1, <1>2, <1>3, Zenon DEF EditsWatched, Answers
<1>5. ReminderFresh'
  BY <1>0, Zenon DEF ReminderFresh
<1>6. RemindersAreEarned'
  <2> SUFFICES ASSUME NEW i \in DOMAIN steps', NEW j \in DOMAIN steps', i < j,
                      IsAt(steps', "reminder", i), IsAt(steps', "reminder", j)
               PROVE  \E k \in DOMAIN steps' : i < k /\ k < j /\ IsAt(steps', "edit", k)
    BY DEF RemindersAreEarned
  <2>1. i \in DOMAIN steps
    BY <1>1, <1>3, Zenon
  <2>2. CASE j \in DOMAIN steps
    <3>1. \E k \in DOMAIN steps : i < k /\ k < j /\ IsAt(steps, "edit", k)
      BY <1>1, <1>2, <2>1, <2>2, Zenon DEF RemindersAreEarned, IInv
    <3> QED
      BY <1>1, <1>2, <3>1, Zenon
  <2>3. CASE j = n
    <3>1. \E k \in DOMAIN steps : k > i /\ IsAt(steps, "edit", k)
      BY <1>0, <1>1, <1>2, <2>1, Zenon DEF ReminderFresh, IInv
    <3> QED
      BY <1>1, <1>2, <1>3, <2>1, <2>3, <3>1, Zenon
  <2> QED
    BY <1>1, <2>2, <2>3, Zenon
<1> QED
  BY <1>4, <1>5, <1>6

LEMMA Full ==
  ASSUME NEW m \in Nat, NEW a \in 0..m, a >= m
  PROVE  a = m
  OBVIOUS

LEMMA Room ==
  ASSUME NEW m \in Nat, NEW a \in 0..m, a < m
  PROVE  a + 1 \in 0..m
  OBVIOUS

LEMMA Bumped ==
  ASSUME NEW f \in [Errors -> Nat], NEW e \in Errors
  PROVE  [f EXCEPT ![e] = @ + 1] = [d \in Errors |-> IF d = e THEN f[d] + 1 ELSE f[d]]
  OBVIOUS

\* The run gives up only in the step that spends no nudge.
LEMMA JunkKept ==
  ASSUME Settings, IInv, Going, NEW kind \in Kinds, NEW error \in Errors \cup {NoError},
         Record(kind, error),
         junkNudges' = IF kind = "junk" THEN junkNudges + 1 ELSE junkNudges,
         kind = "gave up" => stop' = "Empty" /\ junkNudges >= MaxJunkNudges
  PROVE  JunkCounted'
<1> DEFINE n == Last + 1
<1>1. /\ \A i \in DOMAIN steps' : i \in DOMAIN steps \/ i = n
      /\ \A i \in DOMAIN steps : IsAt(steps', "gave up", i) <=> IsAt(steps, "gave up", i)
      /\ IsAt(steps', "gave up", n) <=> kind = "gave up"
  BY Seen, Zenon DEF IInv, Kinds
<1> HIDE DEF n
<1>2. \A i \in DOMAIN steps : ~IsAt(steps, "gave up", i)
  BY DEF IInv, JunkCounted, Going
<1>3. /\ kind # "junk" => JunkSteps' = JunkSteps
      /\ kind = "junk" => Cardinality(JunkSteps') = Cardinality(JunkSteps) + 1
  BY Picked, Zenon DEF IInv
<1>4. Cardinality(JunkSteps') = junkNudges'
  BY <1>3 DEF IInv, JunkCounted
<1>5. kind = "gave up" => junkNudges' = MaxJunkNudges
  <2> SUFFICES ASSUME kind = "gave up" PROVE junkNudges' = MaxJunkNudges
    OBVIOUS
  <2>1. junkNudges \in 0..MaxJunkNudges
    BY DEF IInv, TypeOK
  <2>2. MaxJunkNudges \in Nat
    BY DEF Settings
  <2>3. junkNudges' = junkNudges /\ junkNudges >= MaxJunkNudges
    OBVIOUS
  <2> QED
    BY <2>1, <2>2, <2>3, Full, Zenon
<1>6. JunkCounted'
  BY <1>1, <1>2, <1>4, <1>5, Zenon DEF JunkCounted
<1> QED
  BY <1>6

\* The counts of failures follow the steps.
LEMMA FailuresKept ==
  ASSUME Settings, IInv, Going, NEW kind \in Kinds, NEW error \in Errors \cup {NoError},
         Record(kind, error),
         fails' = [e \in Errors |-> IF e = error THEN fails[e] + 1 ELSE fails[e]]
  PROVE  FailuresCounted' /\ fails' \in [Errors -> Nat]
<1>1. \A e \in Errors :
        Cardinality({i \in DOMAIN steps' : steps'[i].error = e}) =
          IF error = e
            THEN Cardinality({i \in DOMAIN steps : steps[i].error = e}) + 1
            ELSE Cardinality({i \in DOMAIN steps : steps[i].error = e})
  BY Picked, Zenon DEF IInv
<1>2. \A e \in Errors : fails'[e] = IF e = error THEN fails[e] + 1 ELSE fails[e]
  OBVIOUS
<1>3. \A e \in Errors :
        fails'[e] = Cardinality({i \in DOMAIN steps' : steps'[i].error = e})
  <2> SUFFICES ASSUME NEW e \in Errors
               PROVE  fails'[e] = Cardinality({i \in DOMAIN steps' : steps'[i].error = e})
    OBVIOUS
  <2>1. fails[e] = Cardinality({i \in DOMAIN steps : steps[i].error = e})
    BY DEF IInv, FailuresCounted
  <2> QED
    BY <1>1, <1>2, <2>1, Zenon
<1>4. fails \in [Errors -> Nat]
  BY DEF IInv, TypeOK
<1>5. fails' \in [Errors -> Nat]
  BY <1>4, SMT
<1> QED
  BY <1>3, <1>5 DEF FailuresCounted

\* No failure, no count.
LEMMA NoFailure ==
  ASSUME Settings, IInv, fails' = fails
  PROVE  fails' = [e \in Errors |-> IF e = NoError THEN fails[e] + 1 ELSE fails[e]]
<1>1. fails \in [Errors -> Nat]
  BY DEF IInv, TypeOK
<1> QED
  BY <1>1, SMT DEF Settings

-----------------------------------------------------------------------------
(* Every iteration keeps the invariant.                                     *)

LEMMA Kept ==
  ASSUME Settings, IInv, Going, NEW kind \in Kinds, NEW error \in Errors \cup {NoError},
         Record(kind, error),
         EditsWatched', ReminderFresh', RemindersAreEarned',
         edited' \in BOOLEAN, verifyNudged' \in BOOLEAN,
         junkNudges' = IF kind = "junk" THEN junkNudges + 1 ELSE junkNudges,
         kind = "junk" => junkNudges < MaxJunkNudges,
         kind = "gave up" => stop' = "Empty" /\ junkNudges >= MaxJunkNudges,
         fails' = [e \in Errors |-> IF e = error THEN fails[e] + 1 ELSE fails[e]],
         stop' \in {"MaxSteps", "Empty", "Done"},
         stop' = "Done" => (edited' => verifyNudged')
  PROVE  IInv'
<1>1. steps' \in Seq(Step) /\ Len(steps') <= MaxSteps
  BY Recorded, Zenon DEF IInv
<1>2. JunkCounted'
  BY JunkKept
<1>3. FailuresCounted' /\ fails' \in [Errors -> Nat]
  BY FailuresKept
<1>4. junkNudges' \in 0..MaxJunkNudges
  <2>1. junkNudges \in 0..MaxJunkNudges
    BY DEF IInv, TypeOK
  <2>2. MaxJunkNudges \in Nat
    BY DEF Settings
  <2>3. CASE kind = "junk"
    <3>1. junkNudges' = junkNudges + 1 /\ junkNudges < MaxJunkNudges
      BY <2>3
    <3> QED
      BY <2>1, <2>2, <3>1, Room, Zenon
  <2>4. CASE kind # "junk"
    BY <2>1, <2>4
  <2> QED
    BY <2>3, <2>4
<1>5. TypeOK'
  BY <1>1, <1>3, <1>4 DEF TypeOK
<1>6. DoneWasChecked'
  BY Zenon DEF DoneWasChecked, EditsWatched, Answers
<1> QED
  BY <1>2, <1>3, <1>5, <1>6 DEF IInv

LEMMA KeepsDiscarded ==
  ASSUME Settings, IInv, NEW kind \in {"rut", "cut"}, Discarded(kind)
  PROVE  IInv'
<1>1. /\ Going /\ Record(kind, NoError) /\ kind \in Kinds \ {"edit", "check", "reminder"}
      /\ edited' = edited /\ verifyNudged' = verifyNudged
      /\ junkNudges' = junkNudges /\ fails' = fails /\ stop' = "MaxSteps"
      /\ kind # "junk" /\ kind # "gave up"
  BY DEF Discarded, guards, Kinds, Going
<1> QED
  BY <1>1, Unmarked, NoFailure, Kept, Zenon DEF IInv, TypeOK

LEMMA KeepsJunk ==
  ASSUME Settings, IInv, Junk
  PROVE  IInv'
<1>1. /\ Going /\ Record("junk", NoError) /\ "junk" \in Kinds \ {"edit", "check", "reminder"}
      /\ edited' = edited /\ verifyNudged' = verifyNudged
      /\ junkNudges' = junkNudges + 1 /\ junkNudges < MaxJunkNudges
      /\ fails' = fails /\ stop' = "MaxSteps"
  BY DEF Junk, Kinds, Going
<1> QED
  BY <1>1, Unmarked, NoFailure, Kept, Zenon DEF IInv, TypeOK

LEMMA KeepsGiveUp ==
  ASSUME Settings, IInv, GiveUp
  PROVE  IInv'
<1>1. /\ Going /\ Record("gave up", NoError)
      /\ "gave up" \in Kinds \ {"edit", "check", "reminder"}
      /\ edited' = edited /\ verifyNudged' = verifyNudged
      /\ junkNudges' = junkNudges /\ junkNudges >= MaxJunkNudges
      /\ fails' = fails /\ stop' = "Empty"
  BY DEF GiveUp, guards, Kinds
<1> QED
  BY <1>1, Unmarked, NoFailure, Kept, Zenon DEF IInv, TypeOK

LEMMA KeepsFinal ==
  ASSUME Settings, IInv, Final
  PROVE  IInv'
<1>1. /\ Going /\ Record("final", NoError)
      /\ "final" \in Kinds \ {"edit", "check", "reminder"}
      /\ edited' = edited /\ verifyNudged' = verifyNudged
      /\ junkNudges' = junkNudges /\ fails' = fails /\ stop' = "Done"
      /\ (edited => verifyNudged)
  BY DEF Final, guards, Kinds
<1> QED
  BY <1>1, Unmarked, NoFailure, Kept, Zenon DEF IInv, TypeOK

LEMMA KeepsError ==
  ASSUME Settings, IInv, NEW e \in Errors, Error(e)
  PROVE  IInv'
<1>1. /\ Going /\ Record("error", e)
      /\ "error" \in Kinds \ {"edit", "check", "reminder"}
      /\ edited' = edited /\ verifyNudged' = verifyNudged
      /\ junkNudges' = junkNudges /\ stop' = "MaxSteps"
  BY DEF Error, guards, Kinds, Going
<1>2. fails' = [d \in Errors |-> IF d = e THEN fails[d] + 1 ELSE fails[d]]
  <2>1. fails \in [Errors -> Nat]
    BY DEF IInv, TypeOK
  <2>2. fails' = [fails EXCEPT ![e] = @ + 1]
    BY Zenon DEF Error
  <2> QED
    BY <2>1, <2>2, Bumped, Zenon
<1> QED
  BY <1>1, <1>2, Unmarked, Kept, Zenon DEF IInv, TypeOK

LEMMA KeepsOtherCall ==
  ASSUME Settings, IInv, OtherCall
  PROVE  IInv'
<1>1. /\ Going /\ Record("call", NoError)
      /\ "call" \in Kinds \ {"edit", "check", "reminder"}
      /\ edited' = edited /\ verifyNudged' = verifyNudged
      /\ junkNudges' = junkNudges /\ fails' = fails /\ stop' = "MaxSteps"
  BY DEF OtherCall, guards, Kinds, Going
<1> QED
  BY <1>1, Unmarked, NoFailure, Kept, Zenon DEF IInv, TypeOK

LEMMA KeepsMarks ==
  ASSUME Settings, IInv, Edit \/ Check \/ Remind
  PROVE  IInv'
<1>1. PICK kind \in {"edit", "check", "reminder"} :
        /\ Going /\ Record(kind, NoError) /\ kind \in Kinds
        /\ junkNudges' = junkNudges /\ fails' = fails /\ stop' = "MaxSteps"
        /\ kind # "junk" /\ kind # "gave up"
  <2>1. {"edit", "check", "reminder"} \subseteq Kinds
    BY DEF Kinds
  <2> QED
    BY <2>1 DEF Edit, Check, Remind, Going
<1>2. edited' \in BOOLEAN /\ verifyNudged' \in BOOLEAN
  BY Zenon DEF Edit, Check, Remind, IInv, TypeOK
<1>3. EditsWatched' /\ ReminderFresh' /\ RemindersAreEarned'
  BY Edited, Checked, Reminded
<1> QED
  BY <1>1, <1>2, <1>3, NoFailure, Kept, Zenon

LEMMA Iterates ==
  ASSUME Settings, IInv, [Next]_vars
  PROVE  IInv'
<1>1. CASE GenerateFails
  <2>1. /\ UNCHANGED <<steps, edited, verifyNudged, junkNudges, fails>>
        /\ stop = "MaxSteps" /\ stop' = "Empty"
    BY <1>1 DEF GenerateFails, guards, Going
  <2>2. TypeOK' /\ EditsWatched' /\ ReminderFresh' /\ RemindersAreEarned' /\ FailuresCounted'
    BY <2>1, Zenon DEF IInv, TypeOK, EditsWatched, ReminderFresh, RemindersAreEarned,
       FailuresCounted
  <2>3. DoneWasChecked' /\ JunkCounted'
    BY <2>1, Zenon DEF IInv, DoneWasChecked, JunkCounted, JunkSteps
  <2> QED
    BY <2>2, <2>3 DEF IInv
<1>2. CASE UNCHANGED vars
  BY <1>2, Zenon DEF vars, IInv, TypeOK, EditsWatched, DoneWasChecked, ReminderFresh,
     RemindersAreEarned, JunkCounted, JunkSteps, FailuresCounted
<1> QED
  BY <1>1, <1>2, KeepsDiscarded, KeepsJunk, KeepsGiveUp, KeepsFinal, KeepsError,
     KeepsOtherCall, KeepsMarks DEF Next

LEMMA Starts ==
  ASSUME Settings, Init
  PROVE  IInv
<1>1. DOMAIN steps = {} /\ Len(steps) = 0 /\ steps \in Seq(Step)
  BY SMT DEF Init
<1>2. JunkSteps = {} /\ \A e \in Errors : {i \in DOMAIN steps : steps[i].error = e} = {}
  BY <1>1 DEF JunkSteps
<1>3. Cardinality({}) = 0
  BY FS_EmptySet
<1>4. TypeOK
  <2>1. edited \in BOOLEAN /\ verifyNudged \in BOOLEAN
    BY Zenon DEF Init
  <2>2. fails \in [Errors -> Nat] /\ junkNudges \in 0..MaxJunkNudges
    BY SMT DEF Init, Settings
  <2> QED
    BY <1>1, <2>1, <2>2 DEF Init, TypeOK, Settings
<1>5. FailuresCounted
  BY <1>2, <1>3 DEF Init, FailuresCounted
<1>6. JunkCounted
  BY <1>1, <1>2, <1>3 DEF Init, JunkCounted
<1>7. EditsWatched /\ DoneWasChecked /\ ReminderFresh /\ RemindersAreEarned
  BY <1>1, Zenon DEF EditsWatched, DoneWasChecked, ReminderFresh, RemindersAreEarned
<1> QED
  BY <1>4, <1>5, <1>6, <1>7 DEF IInv

LEMMA Inductive ==
  ASSUME Settings
  PROVE  Spec => []IInv
<1>1. Init => IInv
  BY Starts
<1>2. IInv /\ [Next]_vars => IInv'
  BY Iterates
<1> QED
  BY <1>1, <1>2, PTL DEF Spec

-----------------------------------------------------------------------------
(* The theorems.                                                            *)

\* An answer is accepted only over edits that were checked or reminded of, and
\* no edit is reminded of twice (src/nishachar.cpp:116-127, 140-144).
THEOREM AnswersFollowChecks ==
  ASSUME Settings
  PROVE  Spec => [](DoneWasChecked /\ RemindersAreEarned)
<1>1. IInv => DoneWasChecked /\ RemindersAreEarned
  BY DEF IInv
<1> QED
  BY <1>1, Inductive, PTL

\* Empty answers are nudged MaxJunkNudges times over a whole run, no more and
\* no fewer before the run gives up (src/nishachar.cpp:134-139).
THEOREM NudgesAreBounded ==
  ASSUME Settings
  PROVE  Spec => []JunkIsBounded
<1>1. IInv => JunkIsBounded
  <2> SUFFICES ASSUME IInv PROVE JunkIsBounded
    OBVIOUS
  <2>1. junkNudges \in 0..MaxJunkNudges /\ Cardinality(JunkSteps) = junkNudges
    BY DEF IInv, TypeOK, JunkCounted
  <2>2. Cardinality(JunkSteps) <= MaxJunkNudges
    BY <2>1, SMT
  <2> QED
    BY <2>1, <2>2, Zenon DEF IInv, JunkCounted, JunkIsBounded
<1> QED
  BY <1>1, Inductive, PTL

\* Types, the bound on the steps, and the failure counts that the notes quote
\* (tools/nishachar.cpp:221, 359-363).
THEOREM CountsAreTrue ==
  ASSUME Settings
  PROVE  Spec => [](TypeOK /\ FailuresCounted)
<1>1. IInv => TypeOK /\ FailuresCounted
  BY DEF IInv
<1> QED
  BY <1>1, Inductive, PTL

-----------------------------------------------------------------------------
(* The thought block of a step (StepTokens), for every budget.              *)

CONSTANTS Prefilled, Budget

VARIABLES open, generated, thoughts, blocks, phase

Tokens == INSTANCE StepTokens

TokenSettings == Prefilled \in BOOLEAN /\ Budget \in Nat

\* The block the model may still open is the first, and a budget that is spent
\* has been noticed.
TokenInv ==
  /\ blocks <= 1
  /\ generated = 0 /\ ~Prefilled => blocks = 0
  /\ phase \in {"tripped", "second"} => generated > 0
  /\ phase = "second" => ~open
  /\ Budget > 0 => thoughts <= Budget + 1
  /\ Budget > 0 /\ Tokens!Generating /\ open => thoughts <= Budget

TokenIInv == Tokens!TypeOK /\ TokenInv

LEMMA TokenStarts ==
  ASSUME TokenSettings, Tokens!Init
  PROVE  TokenIInv
<1>1. Tokens!TypeOK
  <2>1. open \in BOOLEAN
    BY Zenon DEF Tokens!Init, TokenSettings
  <2>2. generated \in Nat /\ thoughts \in Nat /\ blocks \in Nat
    BY SMT DEF Tokens!Init
  <2> QED
    BY <2>1, <2>2 DEF Tokens!TypeOK, Tokens!Init
<1>2. TokenInv
  BY SMT DEF TokenInv, Tokens!Init, TokenSettings, Tokens!Generating
<1> QED
  BY <1>1, <1>2 DEF TokenIInv

LEMMA TokenSteps ==
  ASSUME TokenSettings, TokenIInv, [Tokens!Next]_(Tokens!vars)
  PROVE  TokenIInv'
<1> USE DEF TokenIInv
<1>1. open' \in BOOLEAN
  BY Zenon DEF Tokens!TypeOK, Tokens!Next, Tokens!Opens, Tokens!Closes,
               Tokens!Text, Tokens!ForceClose, Tokens!Ends, Tokens!vars
<1>2. /\ generated' \in Nat /\ thoughts' \in Nat /\ blocks' \in Nat
      /\ phase' \in {"first", "tripped", "second", "over"}
  BY SMT DEF Tokens!TypeOK, Tokens!Next, Tokens!Opens, Tokens!Closes, Tokens!Text,
             Tokens!ForceClose, Tokens!Ends, Tokens!vars, Tokens!Generating
<1>3. Tokens!TypeOK'
  BY <1>1, <1>2 DEF Tokens!TypeOK
<1>4. TokenInv'
  <2>1. CASE Tokens!Opens
    BY <2>1, SMT DEF Tokens!TypeOK, TokenInv, Tokens!Opens, Tokens!Generating,
        TokenSettings
  <2>2. CASE Tokens!Closes
    BY <2>2, SMT DEF Tokens!TypeOK, TokenInv, Tokens!Closes, Tokens!Generating,
        TokenSettings
  <2>3. CASE Tokens!Text
    BY <2>3, SMT DEF Tokens!TypeOK, TokenInv, Tokens!Text, Tokens!Generating,
        TokenSettings
  <2>4. CASE Tokens!ForceClose
    BY <2>4, SMT DEF Tokens!TypeOK, TokenInv, Tokens!ForceClose, Tokens!Generating,
        TokenSettings
  <2>5. CASE Tokens!Ends
    BY <2>5, SMT DEF Tokens!TypeOK, TokenInv, Tokens!Ends, Tokens!Generating,
        TokenSettings
  <2>6. CASE UNCHANGED Tokens!vars
    BY <2>6, SMT DEF TokenInv, Tokens!vars, Tokens!Generating
  <2> QED
    BY <2>1, <2>2, <2>3, <2>4, <2>5, <2>6 DEF Tokens!Next
<1> QED
  BY <1>3, <1>4

\* At most one thought block a step, never more than one token past its budget,
\* and none after the one that was closed for the model
\* (nishachar.h:181-188, tools/nishachar.cpp:244-258).
THEOREM ThoughtsAreBounded ==
  ASSUME TokenSettings
  PROVE  Tokens!Spec => [](Tokens!TypeOK /\ Tokens!OneThought /\ Tokens!BudgetHeld)
<1>1. Tokens!Init => TokenIInv
  BY TokenStarts
<1>2. TokenIInv /\ [Tokens!Next]_(Tokens!vars) => TokenIInv'
  BY TokenSteps
<1>3. TokenIInv => Tokens!TypeOK /\ Tokens!OneThought /\ Tokens!BudgetHeld
  BY DEF TokenIInv, TokenInv, Tokens!OneThought, Tokens!BudgetHeld
<1> QED
  BY <1>1, <1>2, <1>3, PTL DEF Tokens!Spec

-----------------------------------------------------------------------------
(* The goal-driven loop (Nishachar), for every set of calls, every bound    *)
(* on the steps and every setting of the guards.                            *)

CONSTANTS Calls, RepeatLimit, StopOnToolError, RequireTool

VARIABLES messages, lastSig, repeat, nudged

Goal == INSTANCE Nishachar

\* What AgentConfig can hold.
GoalSettings ==
  /\ Goal!NoCall \notin Calls
  /\ MaxSteps \in Nat /\ RepeatLimit \in Nat
  /\ StopOnToolError \in BOOLEAN /\ RequireTool \in BOOLEAN

GoalLast == Len(steps)

\* lastSig and repeat describe the calls at the end of the steps: exactly the
\* last `repeat` steps are that call, and a repeat at the limit did not run.
Trailing ==
  /\ repeat <= GoalLast
  /\ lastSig = Goal!NoCall <=> repeat = 0
  /\ repeat > 0 => steps[GoalLast].call = lastSig /\ Goal!SameCall(steps, GoalLast - repeat + 1, GoalLast)
  /\ \A i \in DOMAIN steps : Goal!SameCall(steps, i, GoalLast) => repeat >= GoalLast - i + 1
  /\ RepeatLimit > 0 /\ repeat >= RepeatLimit => ~steps[GoalLast].ran

\* The nudge is spent exactly when a step records it.
NudgeRecorded ==
  nudged <=> \E i \in DOMAIN steps : steps[i].kind = "nudge"

GoalIInv ==
  /\ Goal!TypeOK
  /\ Trailing
  /\ Goal!NeverSpins
  /\ Goal!LoopIsALoop
  /\ NudgeRecorded
  /\ Goal!AnswerIsEarned
  /\ Goal!TranscriptFollows

-----------------------------------------------------------------------------
(* One more step.                                                           *)

LEMMA GoalRecorded ==
  ASSUME steps \in Seq(Goal!Step), NEW kind \in Goal!Kinds, NEW call \in Calls \cup {Goal!NoCall},
         NEW ran \in BOOLEAN, Goal!Record(kind, call, ran)
  PROVE  /\ steps' \in Seq(Goal!Step)
         /\ GoalLast \in Nat /\ GoalLast' = GoalLast + 1
         /\ DOMAIN steps = 1..GoalLast /\ DOMAIN steps' = 1..(GoalLast + 1)
         /\ \A i \in 1..GoalLast : steps'[i] = steps[i]
         /\ steps'[GoalLast + 1].kind = kind /\ steps'[GoalLast + 1].call = call
         /\ steps'[GoalLast + 1].ran = ran
<1>1. [kind |-> kind, call |-> call, ran |-> ran] \in Goal!Step
  BY DEF Goal!Step
<1> QED
  BY <1>1, SMT DEF Goal!Record, GoalLast

\* The runs of one call that a new step leaves, lengthens or starts.
LEMMA Windows ==
  ASSUME steps \in Seq(Goal!Step), NEW kind \in Goal!Kinds, NEW call \in Calls \cup {Goal!NoCall},
         NEW ran \in BOOLEAN, Goal!Record(kind, call, ran)
  PROVE  /\ \A i, j \in 1..GoalLast : Goal!SameCall(steps', i, j) <=> Goal!SameCall(steps, i, j)
         /\ \A i \in 1..GoalLast :
              Goal!SameCall(steps', i, GoalLast + 1) <=>
                kind = "call" /\ steps[GoalLast].call = call /\ Goal!SameCall(steps, i, GoalLast)
         /\ Goal!SameCall(steps', GoalLast + 1, GoalLast + 1) <=> kind = "call"
<1> DEFINE n == GoalLast + 1
<1>1. /\ GoalLast \in Nat
      /\ \A i \in 1..GoalLast : steps'[i] = steps[i]
      /\ steps'[n].kind = kind /\ steps'[n].call = call
  BY GoalRecorded, Zenon
<1>2. \A i, j \in 1..GoalLast : Goal!SameCall(steps', i, j) <=> Goal!SameCall(steps, i, j)
  BY <1>1, SMT DEF Goal!SameCall
<1>3. ASSUME NEW i \in 1..GoalLast
      PROVE  Goal!SameCall(steps', i, n) <=>
               kind = "call" /\ steps[GoalLast].call = call /\ Goal!SameCall(steps, i, GoalLast)
  <2>1. ASSUME Goal!SameCall(steps', i, n)
        PROVE  kind = "call" /\ steps[GoalLast].call = call /\ Goal!SameCall(steps, i, GoalLast)
    <3>1. \A k \in i..n : steps'[k].kind = "call" /\ steps'[k].call = call
      BY <1>1, <2>1, SMT DEF Goal!SameCall
    <3>2. \A k \in i..GoalLast : steps[k].kind = "call" /\ steps[k].call = call
      BY <1>1, <3>1, SMT
    <3>3. n \in i..n /\ GoalLast \in i..GoalLast
      BY <1>1, SMT
    <3> QED
      BY <1>1, <3>1, <3>2, <3>3 DEF Goal!SameCall
  <2>2. ASSUME kind = "call", steps[GoalLast].call = call, Goal!SameCall(steps, i, GoalLast)
        PROVE  Goal!SameCall(steps', i, n)
    <3>1. \A k \in i..GoalLast : steps'[k].kind = "call" /\ steps'[k].call = call
      BY <1>1, <2>2, SMT DEF Goal!SameCall
    <3>2. \A k \in i..n : k \in i..GoalLast \/ k = n
      BY <1>1, SMT
    <3> QED
      BY <1>1, <2>2, <3>1, <3>2 DEF Goal!SameCall
  <2> QED
    BY <2>1, <2>2
<1>4. Goal!SameCall(steps', n, n) <=> kind = "call"
  <2>1. n..n = {n}
    BY <1>1, SMT
  <2> QED
    BY <1>1, <2>1 DEF Goal!SameCall
<1> HIDE DEF n
<1>5. \A i \in 1..GoalLast :
        Goal!SameCall(steps', i, n) <=>
          kind = "call" /\ steps[GoalLast].call = call /\ Goal!SameCall(steps, i, GoalLast)
  BY <1>3
<1> QED
  BY <1>2, <1>4, <1>5 DEF n

\* A step without a call clears the count.
LEMMA Cleared ==
  ASSUME GoalSettings, Goal!TypeOK, Trailing, Goal!NeverSpins, NEW kind \in Goal!Kinds, kind # "call",
         Goal!Record(kind, Goal!NoCall, FALSE), lastSig' = Goal!NoCall, repeat' = 0
  PROVE  Trailing' /\ Goal!NeverSpins'
<1> USE GoalRecorded, Windows
<1>1. /\ GoalLast \in Nat /\ GoalLast' = GoalLast + 1
      /\ DOMAIN steps = 1..GoalLast /\ DOMAIN steps' = 1..(GoalLast + 1)
      /\ \A i \in 1..GoalLast : steps'[i] = steps[i]
      /\ steps'[GoalLast + 1].ran = FALSE
  BY DEF Goal!TypeOK
<1>2. /\ \A i, j \in 1..GoalLast : Goal!SameCall(steps', i, j) <=> Goal!SameCall(steps, i, j)
      /\ \A i \in 1..(GoalLast + 1) : ~Goal!SameCall(steps', i, GoalLast + 1)
  <2>1. /\ \A i, j \in 1..GoalLast : Goal!SameCall(steps', i, j) <=> Goal!SameCall(steps, i, j)
        /\ \A i \in 1..GoalLast : ~Goal!SameCall(steps', i, GoalLast + 1)
        /\ ~Goal!SameCall(steps', GoalLast + 1, GoalLast + 1)
    BY DEF Goal!TypeOK
  <2>2. \A i \in 1..(GoalLast + 1) : i \in 1..GoalLast \/ i = GoalLast + 1
    BY <1>1, SMT
  <2> QED
    BY <2>1, <2>2
<1>3. Trailing'
  BY <1>1, <1>2, SMT DEF Trailing, GoalSettings
<1>4. Goal!NeverSpins'
  BY <1>1, <1>2, SMT DEF Goal!NeverSpins, GoalSettings
<1> QED
  BY <1>3, <1>4

\* A call is counted; the tool does not run once the count is at the limit.
LEMMA CallCounted ==
  ASSUME GoalSettings, Goal!TypeOK, Trailing, Goal!NeverSpins, NEW call \in Calls,
         NEW ran \in BOOLEAN, Goal!Guarded(call) => ~ran,
         Goal!Record("call", call, ran), Goal!Counted(call)
  PROVE  /\ Trailing' /\ Goal!NeverSpins'
         /\ repeat' = Goal!Again(call)
         /\ lastSig' = call
         /\ GoalLast \in Nat /\ GoalLast' = GoalLast + 1
         /\ steps'[GoalLast + 1].ran = ran
         /\ \A i \in 1..GoalLast : steps'[i] = steps[i]
<1>1. /\ GoalLast \in Nat /\ GoalLast' = GoalLast + 1
      /\ DOMAIN steps = 1..GoalLast /\ DOMAIN steps' = 1..(GoalLast + 1)
      /\ \A i \in 1..GoalLast : steps'[i] = steps[i]
      /\ steps'[GoalLast + 1].call = call /\ steps'[GoalLast + 1].ran = ran
  BY GoalRecorded, Zenon DEF Goal!TypeOK, Goal!Kinds
<1>2. /\ \A i, j \in 1..GoalLast : Goal!SameCall(steps', i, j) <=> Goal!SameCall(steps, i, j)
      /\ \A i \in 1..GoalLast :
           Goal!SameCall(steps', i, GoalLast + 1) <=>
             steps[GoalLast].call = call /\ Goal!SameCall(steps, i, GoalLast)
      /\ Goal!SameCall(steps', GoalLast + 1, GoalLast + 1)
  BY Windows DEF Goal!TypeOK, Goal!Kinds
<1>3. /\ repeat' = Goal!Again(call) /\ lastSig' = call /\ repeat \in Nat
      /\ repeat' \in Nat /\ repeat' > 0 /\ repeat' <= GoalLast + 1
      /\ call # Goal!NoCall /\ RepeatLimit \in Nat
  BY <1>1, SMT DEF Goal!Counted, Goal!Again, Trailing, GoalSettings, Goal!TypeOK
<1>4. \A i \in 1..GoalLast : Goal!SameCall(steps', i, GoalLast + 1) => repeat' >= GoalLast + 1 - i + 1
  <2> SUFFICES ASSUME NEW i \in 1..GoalLast, Goal!SameCall(steps', i, GoalLast + 1)
               PROVE  repeat' >= GoalLast + 1 - i + 1
    OBVIOUS
  <2>1. steps[GoalLast].call = call /\ Goal!SameCall(steps, i, GoalLast)
    BY <1>2
  <2>2. repeat >= GoalLast - i + 1
    BY <1>1, <2>1 DEF Trailing
  <2>3. repeat > 0
    BY <1>1, <1>3, <2>2, SMT
  <2>4. lastSig = call
    BY <2>1, <2>3 DEF Trailing
  <2> QED
    BY <1>1, <1>3, <2>2, <2>4, SMT DEF Goal!Again
<1>5. Goal!SameCall(steps', GoalLast + 1 - repeat' + 1, GoalLast + 1)
  <2>1. CASE call = lastSig
    <3>1. repeat' = repeat + 1 /\ repeat > 0
      BY <1>3, <2>1, SMT DEF Goal!Again, Trailing
    <3>2. steps[GoalLast].call = call /\ Goal!SameCall(steps, GoalLast - repeat + 1, GoalLast)
      BY <2>1, <3>1 DEF Trailing
    <3>3. GoalLast - repeat + 1 \in 1..GoalLast /\ GoalLast + 1 - repeat' + 1 = GoalLast - repeat + 1
      BY <1>1, <1>3, <3>1, SMT DEF Trailing
    <3> HIDE DEF GoalLast
    <3> QED
      BY <1>2, <3>2, <3>3
  <2>2. CASE call # lastSig
    <3>1. GoalLast + 1 - repeat' + 1 = GoalLast + 1
      BY <1>1, <1>3, <2>2, SMT DEF Goal!Again
    <3> QED
      BY <1>2, <3>1
  <2> QED
    BY <2>1, <2>2
<1>6. RepeatLimit > 0 /\ repeat' >= RepeatLimit => ~steps'[GoalLast + 1].ran
  <2>1. RepeatLimit > 0 /\ repeat' >= RepeatLimit => Goal!Guarded(call)
    BY <1>3 DEF Goal!Guarded
  <2> QED
    BY <1>1, <2>1, Zenon
<1>7. \A i \in DOMAIN steps' : Goal!SameCall(steps', i, GoalLast + 1) => repeat' >= GoalLast + 1 - i + 1
  BY <1>1, <1>3, <1>4, SMT
<1>8. Trailing'
  BY <1>1, <1>3, <1>5, <1>6, <1>7 DEF Trailing
<1>9. Goal!NeverSpins'
  <2> SUFFICES ASSUME RepeatLimit > 0, NEW i \in DOMAIN steps', NEW j \in DOMAIN steps',
                      j = i + RepeatLimit - 1, Goal!SameCall(steps', i, j)
               PROVE  ~steps'[j].ran
    BY DEF Goal!NeverSpins
  <2>1. CASE j \in 1..GoalLast
    <3>1. i \in 1..GoalLast
      BY <1>1, <1>3, <2>1, SMT
    <3> QED
      BY <1>1, <1>2, <2>1, <3>1 DEF Goal!NeverSpins
  <2>2. CASE j = GoalLast + 1
    <3>1. repeat' >= RepeatLimit
      BY <1>1, <1>3, <1>7, <2>2, SMT
    <3> QED
      BY <1>6, <2>2, <3>1
  <2> QED
    BY <1>1, <2>1, <2>2, SMT
<1> QED
  BY <1>1, <1>3, <1>8, <1>9

-----------------------------------------------------------------------------
(* The conversation and the nudge.                                          *)

\* A step that is fed back adds its two messages.
LEMMA Shown ==
  ASSUME Goal!TypeOK, Goal!TranscriptFollows, NEW kind \in Goal!Kinds, NEW call \in Calls \cup {Goal!NoCall},
         NEW ran \in BOOLEAN, Goal!Record(kind, call, ran),
         NEW role \in {"user", "tool"}, Goal!FeedBack(role),
         role = IF kind = "nudge" THEN "user" ELSE "tool",
         stop \notin {"Done", "Loop"}, stop' \notin {"Done", "Loop"}
  PROVE  /\ messages' \in Seq({"system", "user", "assistant", "tool"})
         /\ Goal!TranscriptFollows'
<1>1. /\ GoalLast \in Nat /\ GoalLast' = GoalLast + 1
      /\ \A i \in 1..GoalLast : steps'[i] = steps[i]
      /\ steps'[GoalLast + 1].kind = kind
  BY GoalRecorded, Zenon DEF Goal!TypeOK
<1>2. Goal!Fed = GoalLast /\ Goal!Fed' = GoalLast + 1
  BY <1>1, SMT DEF Goal!Fed, GoalLast
<1>3. /\ messages' \in Seq({"system", "user", "assistant", "tool"})
      /\ Len(messages) = 2 + 2 * GoalLast /\ Len(messages') = 4 + 2 * GoalLast
      /\ messages'[2 * (GoalLast + 1) + 1] = "assistant"
      /\ messages'[2 * (GoalLast + 1) + 2] = role
      /\ \A i \in 1..(2 + 2 * GoalLast) : messages'[i] = messages[i]
  BY <1>1, <1>2, SMT DEF Goal!TypeOK, Goal!TranscriptFollows, Goal!FeedBack
<1>4. ASSUME NEW n \in 1..(GoalLast + 1)
      PROVE  /\ messages'[2 * n + 1] = "assistant"
             /\ messages'[2 * n + 2] = IF steps'[n].kind = "nudge" THEN "user" ELSE "tool"
  <2>1. CASE n \in 1..GoalLast
    <3>1. 2 * n + 1 \in 1..(2 + 2 * GoalLast) /\ 2 * n + 2 \in 1..(2 + 2 * GoalLast)
      BY <1>1, <2>1, SMT
    <3> QED
      BY <1>1, <1>2, <1>3, <2>1, <3>1, SMTT(30) DEF Goal!TranscriptFollows
  <2>2. CASE n = GoalLast + 1
    BY <1>1, <1>3, <2>2
  <2> QED
    BY <1>1, <2>1, <2>2, SMT
<1> QED
  BY <1>1, <1>2, <1>3, <1>4, SMT DEF Goal!TranscriptFollows

\* The step that ends a run as Done or Loop is not fed back.
LEMMA NotShown ==
  ASSUME Goal!TypeOK, Goal!TranscriptFollows, NEW kind \in Goal!Kinds, NEW call \in Calls \cup {Goal!NoCall},
         NEW ran \in BOOLEAN, Goal!Record(kind, call, ran), messages' = messages,
         stop \notin {"Done", "Loop"}, stop' \in {"Done", "Loop"}
  PROVE  Goal!TranscriptFollows'
<1>1. /\ GoalLast \in Nat /\ GoalLast' = GoalLast + 1
      /\ \A i \in 1..GoalLast : steps'[i] = steps[i]
  BY GoalRecorded, Zenon DEF Goal!TypeOK
<1>2. Goal!Fed = GoalLast /\ Goal!Fed' = GoalLast
  BY <1>1, SMT DEF Goal!Fed, GoalLast
<1> QED
  BY <1>1, <1>2, SMT DEF Goal!TranscriptFollows

\* Calls and malformed calls leave the nudge as it was.
LEMMA NotNudged ==
  ASSUME Goal!TypeOK, NudgeRecorded, Goal!AnswerIsEarned, NEW kind \in Goal!Kinds \ {"nudge"},
         NEW call \in Calls \cup {Goal!NoCall}, NEW ran \in BOOLEAN,
         Goal!Record(kind, call, ran), nudged' = nudged, stop' # "Done"
  PROVE  NudgeRecorded' /\ Goal!AnswerIsEarned'
<1>1. /\ GoalLast \in Nat /\ GoalLast' = GoalLast + 1
      /\ DOMAIN steps = 1..GoalLast /\ DOMAIN steps' = 1..(GoalLast + 1)
      /\ \A i \in 1..GoalLast : steps'[i] = steps[i]
      /\ steps'[GoalLast + 1].kind = kind
  BY GoalRecorded, Zenon DEF Goal!TypeOK
<1>2. \A i \in DOMAIN steps' : i \in DOMAIN steps \/ i = GoalLast + 1
  BY <1>1, SMT
<1>3. \A i \in DOMAIN steps : i \in DOMAIN steps'
  BY <1>1, SMT
<1>4. NudgeRecorded'
  BY <1>1, <1>2, <1>3, Zenon DEF NudgeRecorded
<1>5. \A i, j \in DOMAIN steps' :
        i < j /\ steps'[j].kind = "nudge" => steps'[i].kind \notin {"call", "nudge"}
  BY <1>1, SMT DEF Goal!AnswerIsEarned
<1> QED
  BY <1>4, <1>5 DEF Goal!AnswerIsEarned

\* A running loop has room for one more step.
LEMMA Bounded ==
  ASSUME GoalSettings, Goal!TypeOK, Goal!Going,
         NEW kind \in Goal!Kinds, NEW call \in Calls \cup {Goal!NoCall},
         NEW ran \in BOOLEAN, Goal!Record(kind, call, ran)
  PROVE  steps' \in Seq(Goal!Step) /\ Len(steps') <= MaxSteps
<1>1. steps' \in Seq(Goal!Step) /\ GoalLast \in Nat /\ GoalLast' = GoalLast + 1
  BY GoalRecorded, Zenon DEF Goal!TypeOK
<1> QED
  BY <1>1, SMT DEF Goal!Going, GoalSettings, GoalLast

-----------------------------------------------------------------------------
(* Every iteration keeps the invariant.                                     *)

LEMMA KeepsEmptyOutput ==
  ASSUME GoalSettings, GoalIInv, Goal!EmptyOutput
  PROVE  GoalIInv'
<1>1. Goal!TypeOK'
  BY Zenon DEF GoalIInv, Goal!TypeOK, Goal!EmptyOutput, Goal!Stops
<1>2. Trailing' /\ Goal!NeverSpins' /\ NudgeRecorded'
  BY Zenon DEF GoalIInv, Trailing, Goal!NeverSpins, NudgeRecorded,
      Goal!EmptyOutput, GoalLast
<1>3. Goal!LoopIsALoop' /\ Goal!AnswerIsEarned'
  BY DEF GoalIInv, Goal!LoopIsALoop, Goal!AnswerIsEarned, Goal!EmptyOutput
<1>4. Goal!TranscriptFollows'
  BY SMT DEF GoalIInv, Goal!TranscriptFollows, Goal!Fed, Goal!EmptyOutput, Goal!Going
<1> QED
  BY <1>1, <1>2, <1>3, <1>4 DEF GoalIInv

LEMMA KeepsMalformed ==
  ASSUME GoalSettings, GoalIInv, Goal!Malformed
  PROVE  GoalIInv'
<1> USE DEF GoalIInv, Goal!Malformed
<1>1. Goal!Record("malformed", Goal!NoCall, FALSE) /\ "malformed" \in Goal!Kinds
  BY DEF Goal!Kinds
<1>2. stop = "MaxSteps" /\ stop' = stop
  BY DEF Goal!Going
<1>3. Trailing' /\ Goal!NeverSpins'
  BY <1>1, Cleared
<1>4. NudgeRecorded' /\ Goal!AnswerIsEarned'
  BY <1>1, <1>2, NotNudged
<1>5. /\ messages' \in Seq({"system", "user", "assistant", "tool"})
      /\ Goal!TranscriptFollows'
  BY <1>1, <1>2, Shown
<1>6. Goal!TypeOK'
  <2>1. steps' \in Seq(Goal!Step) /\ Len(steps') <= MaxSteps
    BY <1>1, Bounded, Zenon
  <2>2. nudged' \in BOOLEAN
    BY Zenon DEF Goal!TypeOK
  <2> QED
    BY <1>2, <1>5, <2>1, <2>2 DEF Goal!TypeOK
<1>7. Goal!LoopIsALoop'
  BY <1>2 DEF Goal!LoopIsALoop
<1> QED
  BY <1>3, <1>4, <1>5, <1>6, <1>7

LEMMA KeepsNudge ==
  ASSUME GoalSettings, GoalIInv, Goal!Nudge
  PROVE  GoalIInv'
<1> USE DEF GoalIInv, Goal!Nudge
<1>1. Goal!Record("nudge", Goal!NoCall, FALSE) /\ "nudge" \in Goal!Kinds
  BY DEF Goal!Kinds
<1>2. stop = "MaxSteps" /\ stop' = stop
  BY DEF Goal!Going
<1>3. Trailing' /\ Goal!NeverSpins'
  BY <1>1, Cleared
<1>4. /\ GoalLast \in Nat /\ GoalLast' = GoalLast + 1
      /\ DOMAIN steps = 1..GoalLast /\ DOMAIN steps' = 1..(GoalLast + 1)
      /\ \A i \in 1..GoalLast : steps'[i] = steps[i]
      /\ steps'[GoalLast + 1].kind = "nudge"
  BY <1>1, GoalRecorded, Zenon DEF Goal!TypeOK
<1>5. \A i \in 1..GoalLast : steps'[i].kind \notin {"call", "nudge"}
  BY <1>4, Zenon DEF NudgeRecorded, Goal!Nudges, Goal!Called
<1>6. NudgeRecorded'
  <2>1. GoalLast + 1 \in DOMAIN steps'
    BY <1>4, SMT
  <2> QED
    BY <1>4, <2>1, Zenon DEF NudgeRecorded
<1>7. Goal!AnswerIsEarned'
  <2>1. \A i, j \in DOMAIN steps' :
          i < j /\ steps'[j].kind = "nudge" => steps'[i].kind \notin {"call", "nudge"}
    BY <1>4, <1>5, SMT
  <2> QED
    BY <1>2, <2>1 DEF Goal!AnswerIsEarned
<1>8. /\ messages' \in Seq({"system", "user", "assistant", "tool"})
      /\ Goal!TranscriptFollows'
  BY <1>1, <1>2, Shown
<1>9. Goal!TypeOK'
  <2>1. steps' \in Seq(Goal!Step) /\ Len(steps') <= MaxSteps
    BY <1>1, Bounded, Zenon
  <2>2. nudged' \in BOOLEAN
    BY Zenon
  <2> QED
    BY <1>2, <1>8, <2>1, <2>2 DEF Goal!TypeOK
<1>10. Goal!LoopIsALoop'
  BY <1>2 DEF Goal!LoopIsALoop
<1> QED
  BY <1>3, <1>6, <1>7, <1>8, <1>9, <1>10

LEMMA GoalKeepsFinal ==
  ASSUME GoalSettings, GoalIInv, Goal!Final
  PROVE  GoalIInv'
<1> USE DEF GoalIInv, Goal!Final
<1>1. Goal!Record("final", Goal!NoCall, FALSE) /\ "final" \in Goal!Kinds
  BY DEF Goal!Kinds
<1>2. stop = "MaxSteps" /\ stop' = "Done"
  BY DEF Goal!Going
<1>3. Trailing' /\ Goal!NeverSpins'
  BY <1>1, Cleared
<1>4. /\ GoalLast \in Nat /\ GoalLast' = GoalLast + 1
      /\ DOMAIN steps = 1..GoalLast /\ DOMAIN steps' = 1..(GoalLast + 1)
      /\ \A i \in 1..GoalLast : steps'[i] = steps[i]
      /\ steps'[GoalLast + 1].kind = "final"
  BY <1>1, GoalRecorded, Zenon DEF Goal!TypeOK
<1>5. NudgeRecorded'
  <2>1. \A i \in DOMAIN steps' : i \in DOMAIN steps \/ i = GoalLast + 1
    BY <1>4, SMT
  <2>2. \A i \in DOMAIN steps : i \in DOMAIN steps'
    BY <1>4, SMT
  <2> QED
    BY <1>4, <2>1, <2>2, Zenon DEF NudgeRecorded
<1>6. Goal!AnswerIsEarned'
  <2>1. \A i, j \in DOMAIN steps' :
          i < j /\ steps'[j].kind = "nudge" => steps'[i].kind \notin {"call", "nudge"}
    BY <1>4, SMT DEF Goal!AnswerIsEarned
  <2>2. RequireTool => \E i \in 1..GoalLast : steps[i].kind \in {"call", "nudge"}
    BY <1>4, Zenon DEF NudgeRecorded, Goal!Nudges, Goal!Called
  <2>3. RequireTool => \E i \in 1..(GoalLast' - 1) : steps'[i].kind \in {"call", "nudge"}
    <3>1. GoalLast' - 1 = GoalLast
      BY <1>4, SMT
    <3> QED
      BY <1>4, <2>2, <3>1, Zenon
  <2> QED
    BY <2>1, <2>3 DEF Goal!AnswerIsEarned, GoalLast
<1>7. Goal!TranscriptFollows'
  BY <1>1, <1>2, NotShown
<1>8. Goal!TypeOK'
  <2>1. steps' \in Seq(Goal!Step) /\ Len(steps') <= MaxSteps
    BY <1>1, Bounded, Zenon
  <2>2. nudged' \in BOOLEAN
    BY Zenon DEF Goal!TypeOK
  <2> QED
    BY <1>2, <2>1, <2>2 DEF Goal!TypeOK, Goal!Stops
<1>9. Goal!LoopIsALoop'
  BY <1>2 DEF Goal!LoopIsALoop
<1> QED
  BY <1>3, <1>5, <1>6, <1>7, <1>8, <1>9

\* A call that is fed back, whether the tool ran or the guard refused it.
LEMMA KeepsCall ==
  ASSUME GoalSettings, GoalIInv, Goal!Going, NEW call \in Calls, NEW ran \in BOOLEAN,
         Goal!Guarded(call) => ~ran, Goal!Record("call", call, ran), Goal!Counted(call),
         Goal!FeedBack("tool"), stop' \in {"MaxSteps", "ToolError"}, nudged' = nudged
  PROVE  GoalIInv'
<1> USE DEF GoalIInv
<1>1. "call" \in Goal!Kinds /\ stop = "MaxSteps"
  BY DEF Goal!Kinds, Goal!Going
<1>2. Trailing' /\ Goal!NeverSpins' /\ repeat' = Goal!Again(call) /\ lastSig' = call
  BY CallCounted
<1>3. NudgeRecorded' /\ Goal!AnswerIsEarned'
  BY <1>1, NotNudged
<1>4. /\ messages' \in Seq({"system", "user", "assistant", "tool"})
      /\ Goal!TranscriptFollows'
  BY <1>1, Shown
<1>5. Goal!TypeOK'
  <2>1. steps' \in Seq(Goal!Step) /\ Len(steps') <= MaxSteps
    BY <1>1, Bounded, Zenon
  <2>2. nudged' \in BOOLEAN
    BY Zenon DEF Goal!TypeOK
  <2>3. repeat' \in Nat
    BY <1>2, SMT DEF Goal!TypeOK, Goal!Again
  <2> QED
    BY <1>2, <1>4, <2>1, <2>2, <2>3 DEF Goal!TypeOK, Goal!Stops
<1>6. Goal!LoopIsALoop'
  BY DEF Goal!LoopIsALoop
<1> QED
  BY <1>2, <1>3, <1>4, <1>5, <1>6

LEMMA GoalKeepsGiveUp ==
  ASSUME GoalSettings, GoalIInv, NEW call \in Calls, Goal!GiveUp(call)
  PROVE  GoalIInv'
<1> USE DEF GoalIInv, Goal!GiveUp
<1>1. /\ "call" \in Goal!Kinds /\ stop = "MaxSteps" /\ stop' = "Loop"
      /\ Goal!Record("call", call, FALSE) /\ Goal!Counted(call)
  BY DEF Goal!Kinds, Goal!Going
<1>2. /\ Trailing' /\ Goal!NeverSpins' /\ repeat' = Goal!Again(call) /\ lastSig' = call
      /\ GoalLast \in Nat /\ GoalLast' = GoalLast + 1
      /\ steps'[GoalLast + 1].ran = FALSE
      /\ \A i \in 1..GoalLast : steps'[i] = steps[i]
  BY <1>1, CallCounted
<1>3. NudgeRecorded' /\ Goal!AnswerIsEarned'
  BY <1>1, NotNudged
<1>4. Goal!TranscriptFollows'
  BY <1>1, NotShown
<1>5. Goal!TypeOK'
  <2>1. steps' \in Seq(Goal!Step) /\ Len(steps') <= MaxSteps
    BY <1>1, Bounded, Zenon
  <2>2. nudged' \in BOOLEAN
    BY Zenon DEF Goal!TypeOK
  <2>3. repeat' \in Nat
    BY <1>2, SMT DEF Goal!TypeOK, Goal!Again
  <2> QED
    BY <1>1, <1>2, <2>1, <2>2, <2>3 DEF Goal!TypeOK, Goal!Stops
<1>6. Goal!LoopIsALoop'
  <2>1. RepeatLimit \in Nat /\ RepeatLimit > 0 /\ repeat \in Nat
    BY DEF GoalSettings, Goal!TypeOK, Goal!Guarded
  <2>2. repeat >= RepeatLimit /\ repeat' >= RepeatLimit + 1 /\ repeat' \in Nat
    BY <1>2, <2>1, SMT DEF Goal!Again
  <2>3. repeat <= GoalLast /\ GoalLast >= 1 /\ ~steps[GoalLast].ran
    BY <1>2, <2>1, <2>2, SMT DEF Trailing
  <2>4. repeat' <= GoalLast' /\ Goal!SameCall(steps', GoalLast' - repeat' + 1, GoalLast')
    <3>1. repeat' > 0 /\ GoalLast' - repeat' + 1 = GoalLast' - repeat' + 1
      BY <2>1, <2>2, SMT
    <3> QED
      BY <1>2, <3>1 DEF Trailing
  <2>5. Goal!SameCall(steps', GoalLast' - RepeatLimit, GoalLast')
    <3>1. \A k \in (GoalLast' - RepeatLimit)..GoalLast' : k \in (GoalLast' - repeat' + 1)..GoalLast'
      BY <1>2, <2>1, <2>2, SMT
    <3> QED
      BY <2>4, <3>1 DEF Goal!SameCall
  <2>6. ~steps'[GoalLast'].ran /\ ~steps'[GoalLast' - 1].ran
    <3>1. GoalLast' - 1 = GoalLast /\ GoalLast \in 1..GoalLast
      BY <1>2, <2>3, SMT
    <3> QED
      BY <1>2, <2>3, <3>1, Zenon
  <2>7. GoalLast' > RepeatLimit
    BY <1>2, <2>1, <2>2, <2>4, SMT
  <2> QED
    BY <2>5, <2>6, <2>7 DEF Goal!LoopIsALoop, GoalLast
<1> QED
  BY <1>2, <1>3, <1>4, <1>5, <1>6

LEMMA GoalIterates ==
  ASSUME GoalSettings, GoalIInv, [Goal!Next]_(Goal!vars)
  PROVE  GoalIInv'
<1>1. CASE \E call \in Calls : \E ok \in BOOLEAN : Goal!RunCall(call, ok)
  <2>1. PICK call \in Calls, ok \in BOOLEAN : Goal!RunCall(call, ok)
    BY <1>1
  <2>2. /\ Goal!Going /\ Goal!Record("call", call, TRUE) /\ Goal!Counted(call) /\ Goal!FeedBack("tool")
        /\ nudged' = nudged /\ ~Goal!Guarded(call)
    BY <2>1 DEF Goal!RunCall
  <2>3. stop' \in {"MaxSteps", "ToolError"}
    BY <2>1 DEF Goal!RunCall, Goal!Going
  <2> QED
    BY <2>2, <2>3, KeepsCall
<1>2. CASE \E call \in Calls : Goal!RefuseCall(call)
  <2>1. PICK call \in Calls : Goal!RefuseCall(call)
    BY <1>2
  <2>2. /\ Goal!Going /\ Goal!Record("call", call, FALSE) /\ Goal!Counted(call) /\ Goal!FeedBack("tool")
        /\ nudged' = nudged /\ stop' \in {"MaxSteps", "ToolError"}
    BY <2>1 DEF Goal!RefuseCall, Goal!Going
  <2> QED
    BY <2>2, KeepsCall
<1>3. CASE UNCHANGED Goal!vars
  <2>1. Goal!TypeOK' /\ Trailing' /\ Goal!NeverSpins' /\ NudgeRecorded' /\ Goal!AnswerIsEarned'
    BY <1>3, Zenon DEF Goal!vars, GoalIInv, Goal!TypeOK, Trailing, Goal!NeverSpins,
        NudgeRecorded,
       Goal!AnswerIsEarned, GoalLast
  <2>2. Goal!LoopIsALoop' /\ Goal!TranscriptFollows'
    BY <1>3, Zenon DEF Goal!vars, GoalIInv, Goal!LoopIsALoop,
        Goal!TranscriptFollows, Goal!Fed
  <2> QED
    BY <2>1, <2>2 DEF GoalIInv
<1> QED
  BY <1>1, <1>2, <1>3, KeepsEmptyOutput, KeepsMalformed, KeepsNudge, GoalKeepsFinal,
     GoalKeepsGiveUp DEF Goal!Next

LEMMA GoalStarts ==
  ASSUME GoalSettings, Goal!Init
  PROVE  GoalIInv
<1>1. Len(steps) = 0 /\ DOMAIN steps = {} /\ steps \in Seq(Goal!Step)
  BY SMT DEF Goal!Init
<1>2. /\ messages \in Seq({"system", "user", "assistant", "tool"})
      /\ Len(messages) = 2
  BY SMT DEF Goal!Init
<1>3. Goal!TypeOK
  <2>1. nudged \in BOOLEAN
    BY Zenon DEF Goal!Init
  <2> QED
    BY <1>1, <1>2, <2>1 DEF Goal!Init, Goal!TypeOK, Goal!Stops, GoalSettings
<1>4. Trailing /\ Goal!NeverSpins
  BY <1>1, SMT DEF Goal!Init, Trailing, Goal!NeverSpins, GoalSettings, GoalLast
<1>5. NudgeRecorded
  BY <1>1, Zenon DEF Goal!Init, NudgeRecorded
<1>6. Goal!LoopIsALoop /\ Goal!AnswerIsEarned
  BY <1>1, SMT DEF Goal!Init, Goal!LoopIsALoop, Goal!AnswerIsEarned
<1>7. Goal!TranscriptFollows
  BY <1>1, <1>2, SMT DEF Goal!Init, Goal!TranscriptFollows, Goal!Fed
<1> QED
  BY <1>3, <1>4, <1>5, <1>6, <1>7 DEF GoalIInv

LEMMA GoalInductive ==
  ASSUME GoalSettings
  PROVE  Goal!Spec => []GoalIInv
<1>1. Goal!Init => GoalIInv
  BY GoalStarts
<1>2. GoalIInv /\ [Goal!Next]_(Goal!vars) => GoalIInv'
  BY GoalIterates
<1> QED
  BY <1>1, <1>2, PTL DEF Goal!Spec

-----------------------------------------------------------------------------
(* The theorems.                                                            *)

\* Types, and the bound on the steps (src/nishachar.cpp:754).
THEOREM TypeCorrect ==
  ASSUME GoalSettings
  PROVE  Goal!Spec => []Goal!TypeOK
<1>1. GoalIInv => Goal!TypeOK
  BY DEF GoalIInv
<1> QED
  BY <1>1, GoalInductive, PTL

\* No call is run RepeatLimit times in a row, and a run that stops for a loop
\* ended on RepeatLimit + 1 identical calls of which the last two were refused
\* (nishachar.h:259-262).
THEOREM GuardIsExact ==
  ASSUME GoalSettings
  PROVE  Goal!Spec => [](Goal!NeverSpins /\ Goal!LoopIsALoop)
<1>1. GoalIInv => Goal!NeverSpins /\ Goal!LoopIsALoop
  BY DEF GoalIInv
<1> QED
  BY <1>1, GoalInductive, PTL

\* Under require_tool_before_done an answer is accepted only after a call or
\* the single nudge (src/nishachar.cpp:833-844).
THEOREM NoIdleAnswer ==
  ASSUME GoalSettings
  PROVE  Goal!Spec => []Goal!AnswerIsEarned
<1>1. GoalIInv => Goal!AnswerIsEarned
  BY DEF GoalIInv
<1> QED
  BY <1>1, GoalInductive, PTL

\* The conversation shown to the model is the record of the run
\* (src/nishachar.cpp:780-781, 820-821, 841-842).
THEOREM TranscriptIsTheRecord ==
  ASSUME GoalSettings
  PROVE  Goal!Spec => []Goal!TranscriptFollows
<1>1. GoalIInv => Goal!TranscriptFollows
  BY DEF GoalIInv
<1> QED
  BY <1>1, GoalInductive, PTL

-----------------------------------------------------------------------------
(***************************************************************************)
(* DartRuntime, for every step limit and both tool-error settings.         *)
(***************************************************************************)
VARIABLES
  closed, busy, cancelled, disposed, op, closing, inbox, reply, exitNotice,
  worker, killed, flag, ctx, agent, session, recorded

Dart == INSTANCE DartRuntime WITH steps <- recorded

\* The settings sipllm_agent_new may build an agent from; a limit that is not
\* positive is replaced by the default there.
DartSettings ==
  /\ MaxSteps \in Nat \ {0}
  /\ StopOnToolError \in BOOLEAN

Commands == Dart!Requests \cup {"free", "close"}

Alive == worker # "gone"

Queue == DOMAIN inbox

\* What may answer each request.
Fits(request) ==
  CASE request \in {"generate", "embed"} -> {"done", "error"}
    [] request = "start" -> {"started", "error"}
    [] request = "step" -> {"call", "ended", "cancelled", "error"}
    [] request = "submit" -> {"more", "ended", "error"}
    [] OTHER -> {}

\* One request at a time: it is queued, running or answered, never two of
\* these at once, unless the runtime is over.
OneRequest ==
  /\ closed \/ (busy <=> op # Dart!None)
  /\ ~(closed /\ worker = "gone") =>
       \A i \in Queue : inbox[i] \in Dart!Requests =>
         /\ inbox[i] = op /\ worker \in {"idle", "gone"} /\ reply = Dart!None
         /\ \A j \in Queue : inbox[j] \in Dart!Requests => i = j
  /\ worker \in {"generate", "step"} => op = worker /\ reply = Dart!None
  /\ reply # Dart!None => reply \in Fits(op)

\* How the runtime ends.
Ending ==
  /\ exitNotice => worker = "gone"
  /\ worker = "gone" => exitNotice \/ closed
  /\ \A i \in Queue : inbox[i] = "close" => closed

\* The agent is freed by its disposal, behind every request of its run.
Disposal ==
  /\ agent = "freed" => disposed \/ worker = "gone"
  /\ disposed /\ Dart!Running => cancelled
  /\ \A i \in Queue : inbox[i] = "free" => disposed
  /\ \A i, j \in Queue : i < j /\ inbox[i] = "free" =>
       inbox[j] \notin Dart!AgentRequests

\* Where the native session stands when the Dart loop is about to use it.
Agreement ==
  Alive =>
    /\ \A i \in Queue :
         /\ inbox[i] \in Dart!AgentRequests => agent = "live"
         /\ inbox[i] = "step" => session = "ready"
         /\ inbox[i] = "submit" => session = "awaiting"
    /\ worker = "step" => agent = "live" /\ session = "ready"
    /\ reply \in {"started", "more"} => session = "ready" \/ disposed
    /\ reply = "call" \/ op = "tool" => session = "awaiting" \/ disposed

DartIInv ==
  /\ Dart!TypeOK
  /\ OneRequest
  /\ Ending
  /\ Disposal
  /\ Agreement
  /\ Dart!FreedIsUnused
  /\ Dart!NobodyWaitsInVain

\* Names of commands and replies: expanded in every proof below.
USE DEF Dart!Requests, Dart!AgentRequests, Dart!AgentOps, Commands, Dart!None,
    Dart!Replies, Dart!Running

-----------------------------------------------------------------------------
(* Queues.                                                                  *)

\* A command sent goes to the end of the queue.
LEMMA Appended ==
  ASSUME inbox \in Seq(Commands), NEW c \in Commands, Dart!Send(c)
  PROVE  /\ inbox' \in Seq(Commands)
         /\ \E n \in Queue' :
              /\ Queue' = Queue \cup {n} /\ n \notin Queue
              /\ inbox'[n] = c
              /\ \A i \in Queue : inbox'[i] = inbox[i]
              /\ \A i \in Queue' : ~(n < i)
  BY SMT DEF Dart!Send, Queue

\* A command taken leaves the rest in their order.
LEMMA Taken ==
  ASSUME inbox \in Seq(Commands), NEW c, Dart!Takes(c)
  PROVE  /\ inbox' \in Seq(Commands)
         /\ worker = "idle"
         /\ 1 \in Queue /\ inbox[1] = c
         /\ \A i \in Queue' : i + 1 \in Queue /\ i + 1 # 1 /\ inbox'[i] = inbox[i + 1]
         /\ \A i \in Queue : i # 1 => \E k \in Queue' : inbox'[k] = inbox[i]
  <1> inbox # <<>> /\ Head(inbox) = c /\ inbox' = Tail(inbox) /\ worker = "idle"
    BY DEF Dart!Takes
  <1>1. \A i \in Queue : i # 1 => i - 1 \in Queue' /\ inbox'[i - 1] = inbox[i]
    BY SMT DEF Queue
  <1> QED
    BY <1>1, SMT DEF Queue

-----------------------------------------------------------------------------
(* One lemma per action: the step keeps every part of the invariant.        *)

LEMMA KeepsCancel ==
  ASSUME DartSettings, DartIInv, Dart!Cancel
  PROVE  DartIInv'
<1>1. Dart!TypeOK'
  BY SMTT(20) DEF Dart!Cancel, Dart!ui, Dart!wires, DartIInv, Dart!TypeOK,
      Dart!FlagsOK, Dart!PlacesOK
<1>2. OneRequest'
  BY SMTT(20) DEF Dart!Cancel, Dart!ui, Dart!wires, DartIInv, OneRequest, Queue
<1>3. Ending'
  BY SMTT(20) DEF Dart!Cancel, Dart!ui, Dart!wires, DartIInv, Ending, Queue
<1>4. Disposal'
  BY SMTT(20) DEF Dart!Cancel, Dart!ui, Dart!wires, DartIInv, Disposal, Queue
<1>5. Agreement'
  BY SMTT(20) DEF Dart!Cancel, Dart!ui, Dart!wires, DartIInv, Agreement, Queue, Alive
<1>6. Dart!FreedIsUnused'
  BY SMTT(20) DEF Dart!Cancel, Dart!ui, Dart!wires, DartIInv, Dart!FreedIsUnused
<1>7. Dart!NobodyWaitsInVain'
  BY SMTT(20) DEF Dart!Cancel, Dart!ui, Dart!wires, DartIInv, Dart!NobodyWaitsInVain
<1> QED
  BY <1>1, <1>2, <1>3, <1>4, <1>5, <1>6, <1>7 DEF DartIInv

LEMMA KeepsAgentCancel ==
  ASSUME DartSettings, DartIInv, Dart!AgentCancel
  PROVE  DartIInv'
<1>1. Dart!TypeOK'
  BY SMTT(20) DEF Dart!AgentCancel, Dart!wires, DartIInv, Dart!TypeOK,
      Dart!FlagsOK, Dart!PlacesOK
<1>2. OneRequest'
  BY SMTT(20) DEF Dart!AgentCancel, Dart!wires, DartIInv, OneRequest, Queue
<1>3. Ending'
  BY SMTT(20) DEF Dart!AgentCancel, Dart!wires, DartIInv, Ending, Queue
<1>4. Disposal'
  BY SMTT(20) DEF Dart!AgentCancel, Dart!wires, DartIInv, Disposal, Queue
<1>5. Agreement'
  BY SMTT(20) DEF Dart!AgentCancel, Dart!wires, DartIInv, Agreement, Queue, Alive
<1>6. Dart!FreedIsUnused'
  BY SMTT(20) DEF Dart!AgentCancel, Dart!wires, DartIInv, Dart!FreedIsUnused
<1>7. Dart!NobodyWaitsInVain'
  BY SMTT(20) DEF Dart!AgentCancel, Dart!wires, DartIInv, Dart!NobodyWaitsInVain
<1> QED
  BY <1>1, <1>2, <1>3, <1>4, <1>5, <1>6, <1>7 DEF DartIInv

LEMMA KeepsWorkerExited ==
  ASSUME DartSettings, DartIInv, Dart!WorkerExited
  PROVE  DartIInv'
<1>1. Dart!TypeOK'
  <2>1. Dart!FlagsOK'
    BY ZenonT(20) DEF Dart!WorkerExited, Dart!native, DartIInv, Dart!TypeOK, Dart!FlagsOK
  <2>2. Dart!PlacesOK'
    BY SMTT(20) DEF Dart!WorkerExited, Dart!native, DartIInv, Dart!TypeOK, Dart!PlacesOK
  <2> QED
    BY <2>1, <2>2 DEF Dart!TypeOK
<1>2. OneRequest'
  BY SMTT(20) DEF Dart!WorkerExited, Dart!native, DartIInv, OneRequest, Ending
<1>3. Ending'
  BY SMTT(20) DEF Dart!WorkerExited, Dart!native, DartIInv, Ending
<1>4. Disposal'
  BY SMTT(20) DEF Dart!WorkerExited, Dart!native, DartIInv, Disposal, Queue
<1>5. Agreement'
  BY SMTT(20) DEF Dart!WorkerExited, Dart!native, DartIInv, Agreement, Queue, Alive
<1>6. Dart!FreedIsUnused'
  BY SMTT(20) DEF Dart!WorkerExited, Dart!native, DartIInv, Dart!FreedIsUnused
<1>7. Dart!NobodyWaitsInVain'
  BY SMTT(20) DEF Dart!WorkerExited, Dart!native, DartIInv, Dart!NobodyWaitsInVain
<1> QED
  BY <1>1, <1>2, <1>3, <1>4, <1>5, <1>6, <1>7 DEF DartIInv

LEMMA KeepsCloseAnswered ==
  ASSUME DartSettings, DartIInv, Dart!CloseAnswered
  PROVE  DartIInv'
<1>1. Dart!TypeOK'
  BY SMTT(20) DEF Dart!CloseAnswered, Dart!wires, Dart!native, DartIInv,
      Dart!TypeOK, Dart!FlagsOK, Dart!PlacesOK
<1>2. OneRequest'
  BY SMTT(20) DEF Dart!CloseAnswered, Dart!wires, Dart!native, DartIInv, OneRequest, Queue
<1>3. Ending'
  BY SMTT(20) DEF Dart!CloseAnswered, Dart!wires, Dart!native, DartIInv, Ending, Queue
<1>4. Disposal'
  BY SMTT(20) DEF Dart!CloseAnswered, Dart!wires, Dart!native, DartIInv, Disposal, Queue
<1>5. Agreement'
  BY SMTT(20) DEF Dart!CloseAnswered, Dart!wires, Dart!native, DartIInv, Agreement,
      Queue, Alive
<1>6. Dart!FreedIsUnused'
  BY SMTT(20) DEF Dart!CloseAnswered, Dart!wires, Dart!native, DartIInv,
      Dart!FreedIsUnused
<1>7. Dart!NobodyWaitsInVain'
  BY SMTT(20) DEF Dart!CloseAnswered, Dart!wires, Dart!native, DartIInv,
      Dart!NobodyWaitsInVain
<1> QED
  BY <1>1, <1>2, <1>3, <1>4, <1>5, <1>6, <1>7 DEF DartIInv

LEMMA KeepsCloseTimeout ==
  ASSUME DartSettings, DartIInv, Dart!CloseTimeout
  PROVE  DartIInv'
<1>1. Dart!TypeOK'
  BY SMTT(20) DEF Dart!CloseTimeout, Dart!wires, Dart!native, DartIInv,
      Dart!TypeOK, Dart!FlagsOK, Dart!PlacesOK
<1>2. OneRequest'
  BY SMTT(20) DEF Dart!CloseTimeout, Dart!wires, Dart!native, DartIInv, OneRequest, Queue
<1>3. Ending'
  BY SMTT(20) DEF Dart!CloseTimeout, Dart!wires, Dart!native, DartIInv, Ending, Queue
<1>4. Disposal'
  BY SMTT(20) DEF Dart!CloseTimeout, Dart!wires, Dart!native, DartIInv, Disposal, Queue
<1>5. Agreement'
  BY SMTT(20) DEF Dart!CloseTimeout, Dart!wires, Dart!native, DartIInv, Agreement,
      Queue, Alive
<1>6. Dart!FreedIsUnused'
  BY SMTT(20) DEF Dart!CloseTimeout, Dart!wires, Dart!native, DartIInv, Dart!FreedIsUnused
<1>7. Dart!NobodyWaitsInVain'
  BY SMTT(20) DEF Dart!CloseTimeout, Dart!wires, Dart!native, DartIInv,
      Dart!NobodyWaitsInVain
<1> QED
  BY <1>1, <1>2, <1>3, <1>4, <1>5, <1>6, <1>7 DEF DartIInv

LEMMA KeepsGenerateEnds ==
  ASSUME DartSettings, DartIInv, Dart!GenerateEnds
  PROVE  DartIInv'
<1>1. Dart!TypeOK'
  BY SMTT(20) DEF Dart!GenerateEnds, Dart!ui, Dart!native, DartIInv, Dart!TypeOK,
      Dart!FlagsOK, Dart!PlacesOK
<1>2. OneRequest'
  BY SMTT(20) DEF Dart!GenerateEnds, Dart!ui, Dart!native, DartIInv, OneRequest,
      Fits, Queue
<1>3. Ending'
  BY SMTT(20) DEF Dart!GenerateEnds, Dart!ui, Dart!native, DartIInv, Ending, Queue
<1>4. Disposal'
  BY SMTT(20) DEF Dart!GenerateEnds, Dart!ui, Dart!native, DartIInv, Disposal, Queue
<1>5. Agreement'
  BY SMTT(20) DEF Dart!GenerateEnds, Dart!ui, Dart!native, DartIInv, Agreement,
      Queue, Alive
<1>6. Dart!FreedIsUnused'
  BY SMTT(20) DEF Dart!GenerateEnds, Dart!ui, Dart!native, DartIInv, Dart!FreedIsUnused
<1>7. Dart!NobodyWaitsInVain'
  BY SMTT(20) DEF Dart!GenerateEnds, Dart!ui, Dart!native, DartIInv,
      Dart!NobodyWaitsInVain
<1> QED
  BY <1>1, <1>2, <1>3, <1>4, <1>5, <1>6, <1>7 DEF DartIInv

LEMMA KeepsStepEnds ==
  ASSUME DartSettings, DartIInv, Dart!StepEnds
  PROVE  DartIInv'
<1>1. Dart!TypeOK'
  BY SMTT(20) DEF Dart!StepEnds, Dart!ui, DartSettings, DartIInv, Dart!TypeOK,
      Dart!FlagsOK, Dart!PlacesOK, Agreement,
      Alive
<1>2. OneRequest'
  BY SMTT(20) DEF Dart!StepEnds, Dart!ui, DartIInv, OneRequest, Fits, Queue
<1>3. Ending'
  BY SMTT(20) DEF Dart!StepEnds, Dart!ui, DartIInv, Ending, Queue
<1>4. Disposal'
  BY SMTT(20) DEF Dart!StepEnds, Dart!ui, DartIInv, Disposal, Queue
<1>5. Agreement'
  BY SMTT(20) DEF Dart!StepEnds, Dart!ui, DartIInv, OneRequest, Agreement, Queue
<1>6. Dart!FreedIsUnused'
  BY SMTT(20) DEF Dart!StepEnds, Dart!ui, DartIInv, Dart!FreedIsUnused
<1>7. Dart!NobodyWaitsInVain'
  BY SMTT(20) DEF Dart!StepEnds, Dart!ui, DartIInv, Dart!NobodyWaitsInVain
<1> QED
  BY <1>1, <1>2, <1>3, <1>4, <1>5, <1>6, <1>7 DEF DartIInv

LEMMA KeepsWorkerDies ==
  ASSUME DartSettings, DartIInv, Dart!WorkerDies
  PROVE  DartIInv'
<1>1. Dart!TypeOK'
  BY SMTT(20) DEF Dart!WorkerDies, Dart!ui, Dart!native, DartIInv, Dart!TypeOK,
      Dart!FlagsOK, Dart!PlacesOK
<1>2. OneRequest'
  BY SMTT(20) DEF Dart!WorkerDies, Dart!ui, Dart!native, DartIInv, OneRequest, Queue
<1>3. Ending'
  BY SMTT(20) DEF Dart!WorkerDies, Dart!ui, Dart!native, DartIInv, Ending, Queue
<1>4. Disposal'
  BY SMTT(20) DEF Dart!WorkerDies, Dart!ui, Dart!native, DartIInv, Disposal, Queue
<1>5. Agreement'
  BY SMTT(20) DEF Dart!WorkerDies, Dart!ui, Dart!native, DartIInv, Agreement, Alive
<1>6. Dart!FreedIsUnused'
  BY SMTT(20) DEF Dart!WorkerDies, Dart!ui, Dart!native, DartIInv, Dart!FreedIsUnused
<1>7. Dart!NobodyWaitsInVain'
  BY SMTT(20) DEF Dart!WorkerDies, Dart!ui, Dart!native, DartIInv, Dart!NobodyWaitsInVain
<1> QED
  BY <1>1, <1>2, <1>3, <1>4, <1>5, <1>6, <1>7 DEF DartIInv

LEMMA KeepsGenerateBegins ==
  ASSUME DartSettings, DartIInv, Dart!GenerateBegins
  PROVE  DartIInv'
<1>q. /\ inbox' \in Seq(Commands)
      /\ worker = "idle"
      /\ 1 \in Queue /\ inbox[1] = "generate"
      /\ \A i \in Queue' : i + 1 \in Queue /\ i + 1 # 1 /\ inbox'[i] = inbox[i + 1]
      /\ \A i \in Queue : i # 1 => \E k \in Queue' : inbox'[k] = inbox[i]
  BY Taken, SMT DEF Dart!GenerateBegins, DartIInv, Dart!TypeOK, Dart!PlacesOK
<1>1. Dart!TypeOK'
  <2>1. Dart!FlagsOK'
    BY ZenonT(20) DEF Dart!GenerateBegins, Dart!ui, DartIInv, Dart!TypeOK, Dart!FlagsOK
  <2>2. Dart!PlacesOK'
    BY <1>q, SMTT(20) DEF Dart!GenerateBegins, Dart!ui, DartIInv, Dart!TypeOK,
        Dart!PlacesOK
  <2> QED
    BY <2>1, <2>2 DEF Dart!TypeOK
<1>2. OneRequest'
  BY <1>q, SMTT(20) DEF Dart!GenerateBegins, Dart!ui, DartIInv, OneRequest
<1>3. Ending'
  BY <1>q, SMTT(20) DEF Dart!GenerateBegins, Dart!ui, DartIInv, Ending
<1>4. Disposal'
  BY <1>q, SMTT(20) DEF Dart!GenerateBegins, Dart!ui, DartIInv, Disposal, Queue
<1>5. Agreement'
  BY <1>q, SMTT(20) DEF Dart!GenerateBegins, Dart!ui, DartIInv, Agreement, Alive
<1>6. Dart!FreedIsUnused'
  BY <1>q, SMTT(20) DEF Dart!GenerateBegins, Dart!ui, DartIInv, Dart!FreedIsUnused
<1>7. Dart!NobodyWaitsInVain'
  BY <1>q, SMTT(20) DEF Dart!GenerateBegins, Dart!ui, DartIInv,
      Dart!NobodyWaitsInVain, Queue
<1> QED
  BY <1>1, <1>2, <1>3, <1>4, <1>5, <1>6, <1>7 DEF DartIInv

LEMMA KeepsEmbed ==
  ASSUME DartSettings, DartIInv, Dart!Embed
  PROVE  DartIInv'
<1>q. /\ inbox' \in Seq(Commands)
      /\ worker = "idle"
      /\ 1 \in Queue /\ inbox[1] = "embed"
      /\ \A i \in Queue' : i + 1 \in Queue /\ i + 1 # 1 /\ inbox'[i] = inbox[i + 1]
      /\ \A i \in Queue : i # 1 => \E k \in Queue' : inbox'[k] = inbox[i]
  BY Taken, SMT DEF Dart!Embed, DartIInv, Dart!TypeOK, Dart!PlacesOK
<1>1. Dart!TypeOK'
  BY <1>q, SMTT(20) DEF Dart!Embed, Dart!ui, Dart!native, DartIInv, Dart!TypeOK,
      Dart!FlagsOK, Dart!PlacesOK
<1>2. OneRequest'
  BY <1>q, SMTT(20) DEF Dart!Embed, Dart!ui, Dart!native, DartIInv, OneRequest, Fits
<1>3. Ending'
  BY <1>q, SMTT(20) DEF Dart!Embed, Dart!ui, Dart!native, DartIInv, Ending
<1>4. Disposal'
  BY <1>q, SMTT(20) DEF Dart!Embed, Dart!ui, Dart!native, DartIInv, Disposal, Queue
<1>5. Agreement'
  BY <1>q, SMTT(20) DEF Dart!Embed, Dart!ui, Dart!native, DartIInv, Agreement, Alive
<1>6. Dart!FreedIsUnused'
  BY SMTT(20) DEF Dart!Embed, Dart!ui, Dart!native, DartIInv, Dart!FreedIsUnused
<1>7. Dart!NobodyWaitsInVain'
  BY SMTT(20) DEF Dart!Embed, Dart!ui, Dart!native, DartIInv, Dart!NobodyWaitsInVain
<1> QED
  BY <1>1, <1>2, <1>3, <1>4, <1>5, <1>6, <1>7 DEF DartIInv

LEMMA KeepsStart ==
  ASSUME DartSettings, DartIInv, Dart!Start
  PROVE  DartIInv'
<1>q. /\ inbox' \in Seq(Commands)
      /\ worker = "idle"
      /\ 1 \in Queue /\ inbox[1] = "start"
      /\ \A i \in Queue' : i + 1 \in Queue /\ i + 1 # 1 /\ inbox'[i] = inbox[i + 1]
      /\ \A i \in Queue : i # 1 => \E k \in Queue' : inbox'[k] = inbox[i]
  BY Taken, SMT DEF Dart!Start, DartIInv, Dart!TypeOK, Dart!PlacesOK
<1>1. Dart!TypeOK'
  BY <1>q, SMTT(20) DEF Dart!Start, Dart!ui, DartSettings, DartIInv, Dart!TypeOK,
      Dart!FlagsOK, Dart!PlacesOK
<1>2. OneRequest'
  BY <1>q, SMTT(20) DEF Dart!Start, Dart!ui, DartIInv, OneRequest, Fits
<1>3. Ending'
  BY <1>q, SMTT(20) DEF Dart!Start, Dart!ui, DartIInv, Ending
<1>4. Disposal'
  BY <1>q, SMTT(20) DEF Dart!Start, Dart!ui, DartIInv, Disposal, Queue
<1>5. Agreement'
  BY <1>q, SMTT(20) DEF Dart!Start, Dart!ui, DartIInv, OneRequest, Agreement
<1>6. Dart!FreedIsUnused'
  BY SMTT(20) DEF Dart!Start, Dart!ui, DartIInv, Dart!FreedIsUnused
<1>7. Dart!NobodyWaitsInVain'
  BY SMTT(20) DEF Dart!Start, Dart!ui, DartIInv, Dart!NobodyWaitsInVain
<1> QED
  BY <1>1, <1>2, <1>3, <1>4, <1>5, <1>6, <1>7 DEF DartIInv

LEMMA KeepsStepBegins ==
  ASSUME DartSettings, DartIInv, Dart!StepBegins
  PROVE  DartIInv'
<1>q. /\ inbox' \in Seq(Commands)
      /\ worker = "idle"
      /\ 1 \in Queue /\ inbox[1] = "step"
      /\ \A i \in Queue' : i + 1 \in Queue /\ i + 1 # 1 /\ inbox'[i] = inbox[i + 1]
      /\ \A i \in Queue : i # 1 => \E k \in Queue' : inbox'[k] = inbox[i]
  BY Taken, SMT DEF Dart!StepBegins, DartIInv, Dart!TypeOK, Dart!PlacesOK
<1>1. Dart!TypeOK'
  <2>1. Dart!FlagsOK'
    BY ZenonT(20) DEF Dart!StepBegins, Dart!ui, DartIInv, Dart!TypeOK, Dart!FlagsOK
  <2>2. Dart!PlacesOK'
    BY <1>q, SMTT(20) DEF Dart!StepBegins, Dart!ui, DartIInv, Dart!TypeOK, Dart!PlacesOK
  <2> QED
    BY <2>1, <2>2 DEF Dart!TypeOK
<1>2. OneRequest'
  BY <1>q, SMTT(20) DEF Dart!StepBegins, Dart!ui, DartIInv, OneRequest
<1>3. Ending'
  BY <1>q, SMTT(20) DEF Dart!StepBegins, Dart!ui, DartIInv, Ending
<1>4. Disposal'
  BY <1>q, SMTT(20) DEF Dart!StepBegins, Dart!ui, DartIInv, Disposal, Queue
<1>5. Agreement'
  BY <1>q, SMTT(20) DEF Dart!StepBegins, Dart!ui, DartIInv, Agreement, Alive
<1>6. Dart!FreedIsUnused'
  BY <1>q, SMTT(20) DEF Dart!StepBegins, Dart!ui, DartIInv, Dart!FreedIsUnused
<1>7. Dart!NobodyWaitsInVain'
  BY <1>q, SMTT(20) DEF Dart!StepBegins, Dart!ui, DartIInv, Dart!NobodyWaitsInVain, Queue
<1> QED
  BY <1>1, <1>2, <1>3, <1>4, <1>5, <1>6, <1>7 DEF DartIInv

LEMMA KeepsStepRefused ==
  ASSUME DartSettings, DartIInv, Dart!StepRefused
  PROVE  DartIInv'
<1>q. /\ inbox' \in Seq(Commands)
      /\ worker = "idle"
      /\ 1 \in Queue /\ inbox[1] = "step"
      /\ \A i \in Queue' : i + 1 \in Queue /\ i + 1 # 1 /\ inbox'[i] = inbox[i + 1]
      /\ \A i \in Queue : i # 1 => \E k \in Queue' : inbox'[k] = inbox[i]
  BY Taken, SMT DEF Dart!StepRefused, DartIInv, Dart!TypeOK, Dart!PlacesOK
<1>1. Dart!TypeOK'
  BY <1>q, SMTT(20) DEF Dart!StepRefused, Dart!ui, Dart!native, DartIInv,
      Dart!TypeOK, Dart!FlagsOK, Dart!PlacesOK
<1>2. OneRequest'
  BY <1>q, SMTT(20) DEF Dart!StepRefused, Dart!ui, Dart!native, DartIInv, OneRequest, Fits
<1>3. Ending'
  BY <1>q, SMTT(20) DEF Dart!StepRefused, Dart!ui, Dart!native, DartIInv, Ending
<1>4. Disposal'
  BY <1>q, SMTT(20) DEF Dart!StepRefused, Dart!ui, Dart!native, DartIInv, Disposal, Queue
<1>5. Agreement'
  BY <1>q, SMTT(20) DEF Dart!StepRefused, Dart!ui, Dart!native, DartIInv, Agreement, Alive
<1>6. Dart!FreedIsUnused'
  BY SMTT(20) DEF Dart!StepRefused, Dart!ui, Dart!native, DartIInv, Dart!FreedIsUnused
<1>7. Dart!NobodyWaitsInVain'
  BY SMTT(20) DEF Dart!StepRefused, Dart!ui, Dart!native, DartIInv, Dart!NobodyWaitsInVain
<1> QED
  BY <1>1, <1>2, <1>3, <1>4, <1>5, <1>6, <1>7 DEF DartIInv

LEMMA KeepsSubmitRefused ==
  ASSUME DartSettings, DartIInv, Dart!SubmitRefused
  PROVE  DartIInv'
<1>q. /\ inbox' \in Seq(Commands)
      /\ worker = "idle"
      /\ 1 \in Queue /\ inbox[1] = "submit"
      /\ \A i \in Queue' : i + 1 \in Queue /\ i + 1 # 1 /\ inbox'[i] = inbox[i + 1]
      /\ \A i \in Queue : i # 1 => \E k \in Queue' : inbox'[k] = inbox[i]
  BY Taken, SMT DEF Dart!SubmitRefused, DartIInv, Dart!TypeOK, Dart!PlacesOK
<1>1. Dart!TypeOK'
  BY <1>q, SMTT(20) DEF Dart!SubmitRefused, Dart!ui, Dart!native, DartIInv,
      Dart!TypeOK, Dart!FlagsOK, Dart!PlacesOK
<1>2. OneRequest'
  BY <1>q, SMTT(20) DEF Dart!SubmitRefused, Dart!ui, Dart!native, DartIInv,
      OneRequest, Fits
<1>3. Ending'
  BY <1>q, SMTT(20) DEF Dart!SubmitRefused, Dart!ui, Dart!native, DartIInv, Ending
<1>4. Disposal'
  BY <1>q, SMTT(20) DEF Dart!SubmitRefused, Dart!ui, Dart!native, DartIInv,
      Disposal, Queue
<1>5. Agreement'
  BY <1>q, SMTT(20) DEF Dart!SubmitRefused, Dart!ui, Dart!native, DartIInv,
      Agreement, Alive
<1>6. Dart!FreedIsUnused'
  BY SMTT(20) DEF Dart!SubmitRefused, Dart!ui, Dart!native, DartIInv, Dart!FreedIsUnused
<1>7. Dart!NobodyWaitsInVain'
  BY SMTT(20) DEF Dart!SubmitRefused, Dart!ui, Dart!native, DartIInv,
      Dart!NobodyWaitsInVain
<1> QED
  BY <1>1, <1>2, <1>3, <1>4, <1>5, <1>6, <1>7 DEF DartIInv

LEMMA KeepsFree ==
  ASSUME DartSettings, DartIInv, Dart!Free
  PROVE  DartIInv'
<1>q. /\ inbox' \in Seq(Commands)
      /\ worker = "idle"
      /\ 1 \in Queue /\ inbox[1] = "free"
      /\ \A i \in Queue' : i + 1 \in Queue /\ i + 1 # 1 /\ inbox'[i] = inbox[i + 1]
      /\ \A i \in Queue : i # 1 => \E k \in Queue' : inbox'[k] = inbox[i]
  BY Taken, SMT DEF Dart!Free, DartIInv, Dart!TypeOK, Dart!PlacesOK
<1>1. Dart!TypeOK'
  BY <1>q, SMTT(20) DEF Dart!Free, Dart!ui, DartIInv, Dart!TypeOK, Dart!FlagsOK,
      Dart!PlacesOK
<1>2. OneRequest'
  BY <1>q, SMTT(20) DEF Dart!Free, Dart!ui, DartIInv, Dart!FlagsOK, OneRequest,
      Ending, Disposal, Agreement,
      Dart!FreedIsUnused, Dart!NobodyWaitsInVain, Queue
<1>3. Ending'
  BY <1>q, SMTT(20) DEF Dart!Free, Dart!ui, DartIInv, Ending
<1>4. Disposal'
  BY <1>q, SMTT(20) DEF Dart!Free, Dart!ui, DartIInv, Dart!FlagsOK, Ending,
      Disposal, Agreement, Dart!FreedIsUnused,
      Dart!NobodyWaitsInVain, Queue
<1>5. Agreement'
  BY <1>q, SMTT(20) DEF Dart!Free, Dart!ui, DartIInv, Disposal, Agreement, Queue
<1>6. Dart!FreedIsUnused'
  BY SMTT(20) DEF Dart!Free, Dart!ui, DartIInv, Dart!FreedIsUnused
<1>7. Dart!NobodyWaitsInVain'
  BY <1>q, SMTT(20) DEF Dart!Free, Dart!ui, DartIInv, Dart!NobodyWaitsInVain, Queue
<1> QED
  BY <1>1, <1>2, <1>3, <1>4, <1>5, <1>6, <1>7 DEF DartIInv

LEMMA KeepsCloseContext ==
  ASSUME DartSettings, DartIInv, Dart!CloseContext
  PROVE  DartIInv'
<1>q. /\ inbox' \in Seq(Commands)
      /\ worker = "idle"
      /\ 1 \in Queue /\ inbox[1] = "close"
      /\ \A i \in Queue' : i + 1 \in Queue /\ i + 1 # 1 /\ inbox'[i] = inbox[i + 1]
      /\ \A i \in Queue : i # 1 => \E k \in Queue' : inbox'[k] = inbox[i]
  BY Taken, SMT DEF Dart!CloseContext, DartIInv, Dart!TypeOK, Dart!PlacesOK
<1>1. Dart!TypeOK'
  BY <1>q, SMTT(20) DEF Dart!CloseContext, Dart!ui, DartIInv, Dart!TypeOK,
      Dart!FlagsOK, Dart!PlacesOK
<1>2. OneRequest'
  BY <1>q, SMTT(20) DEF Dart!CloseContext, Dart!ui, DartIInv, OneRequest, Ending
<1>3. Ending'
  BY <1>q, SMTT(20) DEF Dart!CloseContext, Dart!ui, DartIInv, Ending
<1>4. Disposal'
  BY <1>q, SMTT(20) DEF Dart!CloseContext, Dart!ui, DartIInv, Dart!FlagsOK,
      Disposal, Agreement, Queue
<1>5. Agreement'
  BY SMTT(20) DEF Dart!CloseContext, Dart!ui, DartIInv, Agreement, Alive
<1>6. Dart!FreedIsUnused'
  BY <1>q, SMTT(20) DEF Dart!CloseContext, Dart!ui, DartIInv, Ending, Dart!FreedIsUnused
<1>7. Dart!NobodyWaitsInVain'
  BY SMTT(20) DEF Dart!CloseContext, Dart!ui, DartIInv, Dart!NobodyWaitsInVain
<1> QED
  BY <1>1, <1>2, <1>3, <1>4, <1>5, <1>6, <1>7 DEF DartIInv

LEMMA KeepsSubmit ==
  ASSUME DartSettings, DartIInv, NEW ok \in BOOLEAN, Dart!Submit(ok)
  PROVE  DartIInv'
<1>q. /\ inbox' \in Seq(Commands)
      /\ worker = "idle"
      /\ 1 \in Queue /\ inbox[1] = "submit"
      /\ \A i \in Queue' : i + 1 \in Queue /\ i + 1 # 1 /\ inbox'[i] = inbox[i + 1]
      /\ \A i \in Queue : i # 1 => \E k \in Queue' : inbox'[k] = inbox[i]
  BY Taken, SMT DEF Dart!Submit, DartIInv, Dart!TypeOK, Dart!PlacesOK
<1>1. Dart!TypeOK'
  BY <1>q, SMTT(20) DEF Dart!Submit, Dart!ui, DartSettings, DartIInv, Dart!TypeOK,
      Dart!FlagsOK, Dart!PlacesOK
<1>2. OneRequest'
  BY <1>q, SMTT(20) DEF Dart!Submit, Dart!ui, DartIInv, OneRequest, Fits
<1>3. Ending'
  BY <1>q, SMTT(20) DEF Dart!Submit, Dart!ui, DartIInv, Ending
<1>4. Disposal'
  BY <1>q, SMTT(20) DEF Dart!Submit, Dart!ui, DartIInv, Disposal, Queue
<1>5. Agreement'
  BY <1>q, SMTT(20) DEF Dart!Submit, Dart!ui, DartIInv, OneRequest, Agreement
<1>6. Dart!FreedIsUnused'
  BY SMTT(20) DEF Dart!Submit, Dart!ui, DartIInv, Dart!FreedIsUnused
<1>7. Dart!NobodyWaitsInVain'
  BY SMTT(20) DEF Dart!Submit, Dart!ui, DartIInv, Dart!NobodyWaitsInVain
<1> QED
  BY <1>1, <1>2, <1>3, <1>4, <1>5, <1>6, <1>7 DEF DartIInv

LEMMA KeepsRun ==
  ASSUME DartSettings, DartIInv, Dart!Run
  PROVE  DartIInv'
<1>q. /\ inbox' \in Seq(Commands)
      /\ \E n \in Queue' :
           /\ Queue' = Queue \cup {n} /\ n \notin Queue
           /\ inbox'[n] = "start"
           /\ \A i \in Queue : inbox'[i] = inbox[i]
           /\ \A i \in Queue' : ~(n < i)
  BY Appended, SMT DEF Dart!Run, DartIInv, Dart!TypeOK, Dart!PlacesOK
<1>1. Dart!TypeOK'
  <2>1. Dart!FlagsOK'
    BY ZenonT(20) DEF Dart!Run, Dart!native, DartIInv, Dart!TypeOK, Dart!FlagsOK
  <2>2. Dart!PlacesOK'
    BY <1>q, SMTT(20) DEF Dart!Run, Dart!native, DartIInv, Dart!TypeOK, Dart!PlacesOK
  <2> QED
    BY <2>1, <2>2 DEF Dart!TypeOK
<1>2. OneRequest'
  BY <1>q, SMTT(20) DEF Dart!Run, Dart!native, DartIInv, Dart!TypeOK,
      Dart!PlacesOK, OneRequest, Fits
<1>3. Ending'
  BY <1>q, SMTT(20) DEF Dart!Run, Dart!native, DartIInv, Ending
<1>4. Disposal'
  BY <1>q, SMTT(20) DEF Dart!Run, Dart!native, DartIInv, Disposal
<1>5. Agreement'
  BY <1>q, SMTT(20) DEF Dart!Run, Dart!native, DartIInv, Dart!TypeOK,
      Dart!PlacesOK, Disposal, Agreement, Alive
<1>6. Dart!FreedIsUnused'
  BY SMTT(20) DEF Dart!Run, Dart!native, DartIInv, Dart!FreedIsUnused
<1>7. Dart!NobodyWaitsInVain'
  BY <1>q, SMTT(20) DEF Dart!Run, Dart!native, DartIInv, Ending,
      Dart!NobodyWaitsInVain, Queue
<1> QED
  BY <1>1, <1>2, <1>3, <1>4, <1>5, <1>6, <1>7 DEF DartIInv

LEMMA KeepsClose ==
  ASSUME DartSettings, DartIInv, Dart!Close
  PROVE  DartIInv'
<1>q. /\ inbox' \in Seq(Commands)
      /\ \E n \in Queue' :
           /\ Queue' = Queue \cup {n} /\ n \notin Queue
           /\ inbox'[n] = "close"
           /\ \A i \in Queue : inbox'[i] = inbox[i]
           /\ \A i \in Queue' : ~(n < i)
  BY Appended, SMT DEF Dart!Close, DartIInv, Dart!TypeOK, Dart!PlacesOK
<1>1. Dart!TypeOK'
  BY <1>q, SMTT(20) DEF Dart!Close, DartIInv, Dart!TypeOK, Dart!FlagsOK, Dart!PlacesOK
<1>2. OneRequest'
  BY <1>q, SMTT(20) DEF Dart!Close, DartIInv, OneRequest
<1>3. Ending'
  BY SMTT(20) DEF Dart!Close, DartIInv, Ending
<1>4. Disposal'
  BY <1>q, SMTT(20) DEF Dart!Close, DartIInv, Disposal
<1>5. Agreement'
  BY <1>q, SMTT(20) DEF Dart!Close, DartIInv, Agreement, Alive
<1>6. Dart!FreedIsUnused'
  BY SMTT(20) DEF Dart!Close, DartIInv, Dart!FreedIsUnused
<1>7. Dart!NobodyWaitsInVain'
  BY <1>q, SMTT(20) DEF Dart!Close, DartIInv, Dart!NobodyWaitsInVain, Queue
<1> QED
  BY <1>1, <1>2, <1>3, <1>4, <1>5, <1>6, <1>7 DEF DartIInv

LEMMA KeepsAsk ==
  ASSUME DartSettings, DartIInv, NEW request \in {"generate", "embed"}, Dart!Ask(request)
  PROVE  DartIInv'
<1>q. /\ inbox' \in Seq(Commands)
      /\ \E n \in Queue' :
           /\ Queue' = Queue \cup {n} /\ n \notin Queue
           /\ inbox'[n] = request
           /\ \A i \in Queue : inbox'[i] = inbox[i]
           /\ \A i \in Queue' : ~(n < i)
  BY Appended, SMT DEF Dart!Ask, DartIInv, Dart!TypeOK, Dart!PlacesOK
<1>1. Dart!TypeOK'
  <2>1. Dart!FlagsOK'
    BY ZenonT(20) DEF Dart!Ask, Dart!native, DartIInv, Dart!TypeOK, Dart!FlagsOK
  <2>2. Dart!PlacesOK'
    BY <1>q, SMTT(20) DEF Dart!Ask, Dart!native, DartIInv, Dart!TypeOK, Dart!PlacesOK
  <2> QED
    BY <2>1, <2>2 DEF Dart!TypeOK
<1>2. OneRequest'
  BY <1>q, SMTT(20) DEF Dart!Ask, Dart!native, DartIInv, Dart!TypeOK,
      Dart!PlacesOK, OneRequest, Fits
<1>3. Ending'
  BY <1>q, SMTT(20) DEF Dart!Ask, Dart!native, DartIInv, Ending
<1>4. Disposal'
  BY <1>q, SMTT(20) DEF Dart!Ask, Dart!native, DartIInv, Disposal
<1>5. Agreement'
  BY <1>q, SMTT(20) DEF Dart!Ask, Dart!native, DartIInv, Agreement, Alive
<1>6. Dart!FreedIsUnused'
  BY SMTT(20) DEF Dart!Ask, Dart!native, DartIInv, Dart!FreedIsUnused
<1>7. Dart!NobodyWaitsInVain'
  BY <1>q, SMTT(20) DEF Dart!Ask, Dart!native, DartIInv, Ending,
      Dart!NobodyWaitsInVain, Queue
<1> QED
  BY <1>1, <1>2, <1>3, <1>4, <1>5, <1>6, <1>7 DEF DartIInv

LEMMA KeepsDispose ==
  ASSUME DartSettings, DartIInv, Dart!Dispose
  PROVE  DartIInv'
<1>1. CASE ~closed
  <2>q. /\ inbox' \in Seq(Commands)
        /\ \E n \in Queue' :
             /\ Queue' = Queue \cup {n} /\ n \notin Queue
             /\ inbox'[n] = "free"
             /\ \A i \in Queue : inbox'[i] = inbox[i]
             /\ \A i \in Queue' : ~(n < i)
    BY <1>1, Appended, SMT DEF Dart!Dispose, DartIInv, Dart!TypeOK, Dart!PlacesOK
  <2>1. Dart!TypeOK'
    <3>1. Dart!FlagsOK'
      BY ZenonT(20) DEF Dart!Dispose, DartIInv, Dart!TypeOK, Dart!FlagsOK
    <3>2. Dart!PlacesOK'
      BY <2>q, SMTT(20) DEF Dart!Dispose, DartIInv, Dart!TypeOK, Dart!PlacesOK
    <3> QED
      BY <3>1, <3>2 DEF Dart!TypeOK
  <2>2. OneRequest'
    BY <2>q, SMTT(20) DEF Dart!Dispose, DartIInv, OneRequest
  <2>3. Ending'
    BY <2>q, SMTT(20) DEF Dart!Dispose, DartIInv, Ending
  <2>4. Disposal'
    <3>1. disposed' /\ (Dart!Running' => cancelled')
      BY DEF Dart!Dispose
    <3>2. agent' = "freed" => disposed' \/ worker' = "gone"
      BY <3>1
    <3>3. \A i, j \in Queue' : i < j /\ inbox'[i] = "free" => inbox'[j] \notin Dart!AgentRequests
      BY <1>1, <2>q, SMTT(20) DEF DartIInv, Disposal, Queue
    <3> QED
      BY <3>1, <3>2, <3>3 DEF Disposal
  <2>5. Agreement'
    BY <2>q, SMTT(20) DEF Dart!Dispose, DartIInv, Agreement, Alive
  <2>6. Dart!FreedIsUnused'
    BY SMTT(20) DEF Dart!Dispose, DartIInv, Dart!FreedIsUnused
  <2>7. Dart!NobodyWaitsInVain'
    BY <2>q, SMTT(20) DEF Dart!Dispose, DartIInv, Dart!NobodyWaitsInVain, Queue
  <2> QED
    BY <2>1, <2>2, <2>3, <2>4, <2>5, <2>6, <2>7 DEF DartIInv
<1>2. CASE ~(~closed)
  <2>q. UNCHANGED inbox
    BY <1>2, SMT DEF Dart!Dispose
  <2>1. Dart!TypeOK'
    <3>1. Dart!FlagsOK'
      BY ZenonT(20) DEF Dart!Dispose, DartIInv, Dart!TypeOK, Dart!FlagsOK
    <3>2. Dart!PlacesOK'
      BY <1>2, SMTT(20) DEF Dart!Dispose, DartIInv, Dart!TypeOK, Dart!PlacesOK
    <3> QED
      BY <3>1, <3>2 DEF Dart!TypeOK
  <2>2. OneRequest'
    BY <1>2, SMTT(20) DEF Dart!Dispose, DartIInv, OneRequest, Queue
  <2>3. Ending'
    BY <1>2, SMTT(20) DEF Dart!Dispose, DartIInv, Ending
  <2>4. Disposal'
    <3>1. disposed' /\ (Dart!Running' => cancelled')
      BY DEF Dart!Dispose
    <3>2. agent' = "freed" => disposed' \/ worker' = "gone"
      BY <3>1
    <3>3. \A i, j \in Queue' : i < j /\ inbox'[i] = "free" => inbox'[j] \notin Dart!AgentRequests
      BY <1>2, <2>q, SMTT(20) DEF DartIInv, Disposal, Queue
    <3> QED
      BY <3>1, <3>2, <3>3 DEF Disposal
  <2>5. Agreement'
    BY <1>2, SMTT(20) DEF Dart!Dispose, DartIInv, Agreement, Queue, Alive
  <2>6. Dart!FreedIsUnused'
    BY SMTT(20) DEF Dart!Dispose, DartIInv, Dart!FreedIsUnused
  <2>7. Dart!NobodyWaitsInVain'
    BY <1>2, SMTT(20) DEF Dart!Dispose, DartIInv, Dart!NobodyWaitsInVain
  <2> QED
    BY <2>1, <2>2, <2>3, <2>4, <2>5, <2>6, <2>7 DEF DartIInv
<1> QED
  BY <1>1, <1>2

LEMMA KeepsToolDone ==
  ASSUME DartSettings, DartIInv, Dart!ToolDone
  PROVE  DartIInv'
<1>1. CASE ~(cancelled \/ closed)
  <2>q. /\ inbox' \in Seq(Commands)
        /\ \E n \in Queue' :
             /\ Queue' = Queue \cup {n} /\ n \notin Queue
             /\ inbox'[n] = "submit"
             /\ \A i \in Queue : inbox'[i] = inbox[i]
             /\ \A i \in Queue' : ~(n < i)
    BY <1>1, Appended, SMT DEF Dart!ToolDone, Dart!Over, DartIInv, Dart!TypeOK,
        Dart!PlacesOK
  <2>1. Dart!TypeOK'
    <3>1. Dart!FlagsOK'
      BY ZenonT(20) DEF Dart!ToolDone, Dart!native, Dart!Over, DartIInv,
          Dart!TypeOK, Dart!FlagsOK
    <3>2. Dart!PlacesOK'
      BY <2>q, SMTT(20) DEF Dart!ToolDone, Dart!native, Dart!Over, DartIInv,
          Dart!TypeOK, Dart!PlacesOK
    <3> QED
      BY <3>1, <3>2 DEF Dart!TypeOK
  <2>2. OneRequest'
    BY <1>1, <2>q, SMTT(20) DEF Dart!ToolDone, Dart!native, Dart!Over, DartIInv,
        Dart!TypeOK, Dart!PlacesOK, OneRequest, Fits
  <2>3. Ending'
    BY <2>q, SMTT(20) DEF Dart!ToolDone, Dart!native, Dart!Over, DartIInv, Ending
  <2>4. Disposal'
    BY <1>1, <2>q, SMTT(20) DEF Dart!ToolDone, Dart!native, Dart!Over, DartIInv, Disposal
  <2>5. Agreement'
    BY <1>1, <2>q, SMTT(20) DEF Dart!ToolDone, Dart!native, Dart!Over, DartIInv,
        Dart!TypeOK, Dart!PlacesOK, Disposal, Agreement,
        Alive
  <2>6. Dart!FreedIsUnused'
    BY SMTT(20) DEF Dart!ToolDone, Dart!native, Dart!Over, DartIInv, Dart!FreedIsUnused
  <2>7. Dart!NobodyWaitsInVain'
    BY <2>q, SMTT(20) DEF Dart!ToolDone, Dart!native, Dart!Over, DartIInv, Ending,
        Dart!NobodyWaitsInVain, Queue
  <2> QED
    BY <2>1, <2>2, <2>3, <2>4, <2>5, <2>6, <2>7 DEF DartIInv
<1>2. CASE ~(~(cancelled \/ closed))
  <2>q. UNCHANGED inbox
    BY <1>2, SMT DEF Dart!ToolDone, Dart!Over
  <2>1. Dart!TypeOK'
    <3>1. Dart!FlagsOK'
      BY ZenonT(20) DEF Dart!ToolDone, Dart!native, Dart!Over, DartIInv,
          Dart!TypeOK, Dart!FlagsOK
    <3>2. Dart!PlacesOK'
      BY <1>2, SMTT(20) DEF Dart!ToolDone, Dart!native, Dart!Over, DartIInv,
          Dart!TypeOK, Dart!PlacesOK
    <3> QED
      BY <3>1, <3>2 DEF Dart!TypeOK
  <2>2. OneRequest'
    BY <1>2, SMTT(20) DEF Dart!ToolDone, Dart!native, Dart!Over, DartIInv,
        OneRequest, Fits, Queue
  <2>3. Ending'
    BY <1>2, SMTT(20) DEF Dart!ToolDone, Dart!native, Dart!Over, DartIInv, Ending, Queue
  <2>4. Disposal'
    BY <1>2, SMTT(20) DEF Dart!ToolDone, Dart!native, Dart!Over, DartIInv, Disposal, Queue
  <2>5. Agreement'
    BY <1>2, SMTT(20) DEF Dart!ToolDone, Dart!native, Dart!Over, DartIInv,
        Agreement, Queue, Alive
  <2>6. Dart!FreedIsUnused'
    BY SMTT(20) DEF Dart!ToolDone, Dart!native, Dart!Over, DartIInv, Dart!FreedIsUnused
  <2>7. Dart!NobodyWaitsInVain'
    BY <1>2, SMTT(20) DEF Dart!ToolDone, Dart!native, Dart!Over, DartIInv,
        Dart!NobodyWaitsInVain
  <2> QED
    BY <2>1, <2>2, <2>3, <2>4, <2>5, <2>6, <2>7 DEF DartIInv
<1> QED
  BY <1>1, <1>2

LEMMA KeepsAnswered ==
  ASSUME DartSettings, DartIInv, Dart!Answered
  PROVE  DartIInv'
<1>1. CASE reply \in {"started", "more"} /\ ~(cancelled \/ closed)
  <2>q. /\ inbox' \in Seq(Commands)
        /\ \E n \in Queue' :
             /\ Queue' = Queue \cup {n} /\ n \notin Queue
             /\ inbox'[n] = "step"
             /\ \A i \in Queue : inbox'[i] = inbox[i]
             /\ \A i \in Queue' : ~(n < i)
    BY <1>1, Appended, SMT DEF Dart!Answered, Dart!NextStep, Dart!Over, DartIInv,
        Dart!TypeOK, Dart!PlacesOK
  <2>1. Dart!TypeOK'
    <3>1. Dart!FlagsOK'
      BY ZenonT(20) DEF Dart!Answered, Dart!native, Dart!Over, Dart!NextStep,
          DartIInv, Dart!TypeOK, Dart!FlagsOK
    <3>2. Dart!PlacesOK'
      BY <2>q, SMTT(20) DEF Dart!Answered, Dart!native, Dart!Over, Dart!NextStep,
          DartIInv, Dart!TypeOK, Dart!PlacesOK
    <3> QED
      BY <3>1, <3>2 DEF Dart!TypeOK
  <2>2. OneRequest'
    BY <1>1, <2>q, SMTT(20) DEF Dart!Answered, Dart!native, Dart!Over,
        Dart!NextStep, DartIInv, Dart!TypeOK, Dart!PlacesOK, OneRequest,
        Fits
  <2>3. Ending'
    BY <2>q, SMTT(20) DEF Dart!Answered, Dart!native, Dart!Over, Dart!NextStep,
        DartIInv, Ending
  <2>4. Disposal'
    BY <1>1, <2>q, SMTT(20) DEF Dart!Answered, Dart!native, Dart!Over,
        Dart!NextStep, DartIInv, OneRequest, Disposal, Fits
  <2>5. Agreement'
    BY <1>1, <2>q, SMTT(20) DEF Dart!Answered, Dart!native, Dart!Over,
        Dart!NextStep, DartIInv, Dart!TypeOK, Dart!PlacesOK, OneRequest,
        Disposal, Agreement, Fits, Alive
  <2>6. Dart!FreedIsUnused'
    BY SMTT(20) DEF Dart!Answered, Dart!native, Dart!Over, Dart!NextStep, DartIInv,
        Dart!FreedIsUnused
  <2>7. Dart!NobodyWaitsInVain'
    BY <2>q, SMTT(20) DEF Dart!Answered, Dart!native, Dart!Over, Dart!NextStep,
        DartIInv, Ending, Dart!NobodyWaitsInVain,
        Queue
  <2> QED
    BY <2>1, <2>2, <2>3, <2>4, <2>5, <2>6, <2>7 DEF DartIInv
<1>2. CASE ~(reply \in {"started", "more"} /\ ~(cancelled \/ closed))
  <2>q. UNCHANGED inbox
    BY <1>2, SMT DEF Dart!Answered, Dart!NextStep, Dart!Over
  <2>1. Dart!TypeOK'
    <3>1. Dart!FlagsOK'
      BY ZenonT(20) DEF Dart!Answered, Dart!native, Dart!Over, Dart!NextStep,
          DartIInv, Dart!TypeOK, Dart!FlagsOK
    <3>2. Dart!PlacesOK'
      BY <1>2, SMTT(20) DEF Dart!Answered, Dart!native, Dart!Over, Dart!NextStep,
          DartIInv, Dart!TypeOK, Dart!PlacesOK
    <3> QED
      BY <3>1, <3>2 DEF Dart!TypeOK
  <2>2. OneRequest'
    BY <1>2, SMTT(20) DEF Dart!Answered, Dart!native, Dart!Over, Dart!NextStep,
        DartIInv, OneRequest, Fits, Queue
  <2>3. Ending'
    BY <1>2, SMTT(20) DEF Dart!Answered, Dart!native, Dart!Over, Dart!NextStep,
        DartIInv, Ending, Queue
  <2>4. Disposal'
    BY <1>2, SMTT(20) DEF Dart!Answered, Dart!native, Dart!Over, Dart!NextStep,
        DartIInv, OneRequest, Disposal, Fits,
        Queue
  <2>5. Agreement'
    BY <1>2, SMTT(20) DEF Dart!Answered, Dart!native, Dart!Over, Dart!NextStep,
        DartIInv, Agreement, Queue, Alive
  <2>6. Dart!FreedIsUnused'
    BY SMTT(20) DEF Dart!Answered, Dart!native, Dart!Over, Dart!NextStep, DartIInv,
        Dart!FreedIsUnused
  <2>7. Dart!NobodyWaitsInVain'
    BY <1>2, SMTT(20) DEF Dart!Answered, Dart!native, Dart!Over, Dart!NextStep,
        DartIInv, Dart!NobodyWaitsInVain
  <2> QED
    BY <2>1, <2>2, <2>3, <2>4, <2>5, <2>6, <2>7 DEF DartIInv
<1> QED
  BY <1>1, <1>2

-----------------------------------------------------------------------------
(* The invariant and the theorems.                                          *)

LEMMA DartStarts ==
  ASSUME DartSettings, Dart!Init
  PROVE  DartIInv
<1>1. Dart!FlagsOK
  BY Zenon DEF Dart!Init, Dart!FlagsOK
<1>2. Dart!PlacesOK
  BY SMT DEF Dart!Init, Dart!PlacesOK, DartSettings
<1>3. Queue = {}
  BY SMT DEF Dart!Init, Queue
<1>4. OneRequest /\ Ending /\ Disposal /\ Agreement
  BY <1>3, SMT DEF Dart!Init, OneRequest, Ending, Disposal, Agreement
<1>5. Dart!FreedIsUnused /\ Dart!NobodyWaitsInVain
  BY SMT DEF Dart!Init, Dart!FreedIsUnused, Dart!NobodyWaitsInVain
<1> QED
  BY <1>1, <1>2, <1>4, <1>5 DEF DartIInv, Dart!TypeOK

LEMMA Stutters ==
  ASSUME DartIInv, UNCHANGED Dart!vars
  PROVE  DartIInv'
<1>1. Dart!TypeOK'
  <2>1. Dart!FlagsOK'
    BY Zenon DEF Dart!vars, DartIInv, Dart!TypeOK, Dart!FlagsOK
  <2>2. Dart!PlacesOK'
    BY SMT DEF Dart!vars, DartIInv, Dart!TypeOK, Dart!PlacesOK
  <2> QED
    BY <2>1, <2>2 DEF Dart!TypeOK
<1>2. OneRequest' /\ Ending' /\ Disposal' /\ Agreement'
  BY Zenon DEF Dart!vars, DartIInv, OneRequest, Ending, Disposal, Agreement, Queue, Alive
<1>3. Dart!FreedIsUnused' /\ Dart!NobodyWaitsInVain'
  BY Zenon DEF Dart!vars, DartIInv, Dart!FreedIsUnused, Dart!NobodyWaitsInVain
<1> QED
  BY <1>1, <1>2, <1>3 DEF DartIInv

LEMMA Steps ==
  ASSUME DartSettings, DartIInv, [Dart!Next]_(Dart!vars)
  PROVE  DartIInv'
<1>1. CASE Dart!AppCalls
  BY <1>1, KeepsAsk, KeepsRun, KeepsCancel, KeepsAgentCancel, KeepsDispose,
     KeepsClose DEF Dart!AppCalls
<1>2. CASE Dart!UiHandles
  BY <1>2, KeepsAnswered, KeepsToolDone, KeepsWorkerExited, KeepsCloseAnswered,
     KeepsCloseTimeout DEF Dart!UiHandles
<1>3. CASE Dart!WorkerHandles
  BY <1>3, KeepsGenerateBegins, KeepsGenerateEnds, KeepsEmbed, KeepsStart,
     KeepsStepBegins, KeepsStepRefused, KeepsStepEnds, KeepsSubmit,
     KeepsSubmitRefused, KeepsFree, KeepsCloseContext DEF Dart!WorkerHandles
<1>4. CASE Dart!WorkerDies
  BY <1>4, KeepsWorkerDies
<1>5. CASE UNCHANGED Dart!vars
  BY <1>5, Stutters
<1> QED
  BY <1>1, <1>2, <1>3, <1>4, <1>5 DEF Dart!Next

LEMMA DartInductive ==
  ASSUME DartSettings
  PROVE  Dart!Spec => []DartIInv
<1>1. Dart!Init => DartIInv
  BY DartStarts
<1>2. DartIInv /\ [Dart!Next]_(Dart!vars) => DartIInv'
  BY Steps
<1> QED
  BY <1>1, <1>2, PTL DEF Dart!Spec

\* Type correctness of the runtime, the agent and the session
\* (sipllm_runtime.dart, sipllm_agent.dart, src/nishachar.cpp:878-930).
THEOREM DartTypeCorrect ==
  ASSUME DartSettings
  PROVE  Dart!Spec => []Dart!TypeOK
<1>1. DartIInv => Dart!TypeOK
  BY DEF DartIInv
<1> QED
  BY <1>1, DartInductive, PTL

\* The native context is never freed under a call, nor before the runtime is
\* closed (sipllm_isolate.dart:110-119, sipllm_runtime.dart:315-329).
THEOREM ContextOutlivesItsUse ==
  ASSUME DartSettings
  PROVE  Dart!Spec => []Dart!FreedIsUnused
<1>1. DartIInv => Dart!FreedIsUnused
  BY DEF DartIInv
<1> QED
  BY <1>1, DartInductive, PTL

\* The busy flag of the UI isolate tells the truth about the worker: two
\* callers never meet on the native context (sipllm_runtime.dart:154-161).
THEOREM OneCallerAtATime ==
  ASSUME DartSettings
  PROVE  Dart!Spec => []Dart!NotBusyIsIdle
<1>1. DartIInv => Dart!NotBusyIsIdle
  <2> SUFFICES ASSUME DartIInv, ~closed, ~busy PROVE
        /\ op = Dart!None /\ reply = Dart!None
        /\ worker \in {"idle", "gone"}
        /\ \A i \in DOMAIN inbox : inbox[i] \notin Dart!Requests
    BY DEF Dart!NotBusyIsIdle
  <2>1. op = Dart!None
    BY DEF DartIInv, OneRequest
  <2>2. reply = Dart!None
    BY <2>1, SMT DEF DartIInv, OneRequest, Fits
  <2>3. worker \in {"idle", "gone"}
    BY <2>1, SMT DEF DartIInv, OneRequest, Dart!TypeOK, Dart!PlacesOK
  <2>4. \A i \in DOMAIN inbox : inbox[i] \notin Dart!Requests
    BY <2>1, SMT DEF DartIInv, OneRequest, Queue
  <2> QED
    BY <2>1, <2>2, <2>3, <2>4
<1> QED
  BY <1>1, DartInductive, PTL

\* Every awaited request is on its way or about to fail; no caller waits for a
\* worker that will never answer (sipllm_runtime.dart:48-63, 270-300).
THEOREM EveryWaitIsServed ==
  ASSUME DartSettings
  PROVE  Dart!Spec => []Dart!NobodyWaitsInVain
<1>1. DartIInv => Dart!NobodyWaitsInVain
  BY DEF DartIInv
<1> QED
  BY <1>1, DartInductive, PTL

\* The Dart loop never asks the native session for something it refuses,
\* whatever cancels, disposals and closes come in between
\* (sipllm_ffi.cpp:433-445, 509-518).
THEOREM LoopAndSessionAgree ==
  ASSUME DartSettings
  PROVE  Dart!Spec => Dart!InStep
<1> DEFINE A == ~Dart!StepRefused /\ ~Dart!SubmitRefused /\ (Dart!Start => agent = "live")
<1>1. DartIInv => A
  <2> SUFFICES ASSUME DartIInv PROVE A
    OBVIOUS
  <2>1. ~Dart!StepRefused
    BY SMT DEF DartIInv, Dart!TypeOK, Dart!PlacesOK, Agreement, Alive, Queue,
        Dart!StepRefused, Dart!Takes
  <2>2. ~Dart!SubmitRefused
    BY SMT DEF DartIInv, Dart!TypeOK, Dart!PlacesOK, Agreement, Alive, Queue,
        Dart!SubmitRefused, Dart!Takes
  <2>3. Dart!Start => agent = "live"
    BY SMT DEF DartIInv, Dart!TypeOK, Dart!PlacesOK, Agreement, Alive, Queue,
        Dart!Start, Dart!Takes
  <2> QED
    BY <2>1, <2>2, <2>3
<1>2. A => [A]_(Dart!vars)
  OBVIOUS
<1> QED
  BY <1>1, <1>2, DartInductive, PTL DEF Dart!InStep

==============================================================================
