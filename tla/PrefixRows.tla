----------------------------- MODULE PrefixRows -----------------------------
(***************************************************************************)
(* A set of token sequences closed under prefixes, with the KV row of the  *)
(* last token of each: what src/semantic_cache.cpp keeps, apart from how.  *)
(***************************************************************************)
EXTENDS Integers, Sequences, SequencesExt, FiniteSets, Functions

\* Every position of a sequence of tokens, as the tokens up to it.
Stems(tokens) == Prefixes(tokens) \ {<<>>}

Closed(stems) == \A s \in stems : Stems(s) \subseteq stems

\* How many tokens of prompt are held from its start.
HeldLength(rows, prompt) ==
  CHOOSE n \in 0 .. Len(prompt) :
    /\ Stems(SubSeq(prompt, 1, n)) \subseteq DOMAIN rows
    /\ n < Len(prompt) => SubSeq(prompt, 1, n + 1) \notin DOMAIN rows

\* The rows of the longest prefix held.
HeldRows(rows, prompt) ==
  [i \in 1 .. HeldLength(rows, prompt) |-> rows[SubSeq(prompt, 1, i)]]

\* What is held keeps its row; the rest of tokens comes with new rows.
Remember(rows, tokens, new) ==
  [s \in DOMAIN rows \cup Stems(tokens) |-> IF s \in DOMAIN rows THEN rows[s] ELSE new[Len(s)]]

\* Some of it forgotten, whole ends of sequences at a time.
Forgets(rows, less) ==
  /\ DOMAIN less \subseteq DOMAIN rows
  /\ Closed(DOMAIN less)
  /\ less = Restrict(rows, DOMAIN less)
=============================================================================
