------------------------------ MODULE Runtime -------------------------------
(***************************************************************************)
(* src/runtime.cpp generate, reset, save_session and load_session, with    *)
(* the KV cache (include/llm/kv_cache.h), the passes that fill it          *)
(* (src/transformer.cpp forward, prefill, spec_forward), prompt lookup     *)
(* (src/spec_decoder.cpp) and the session file (src/session.cpp).          *)
(*                                                                         *)
(* Data: what a KV row, or the logits of a position, were computed from is *)
(* the sequence of tokens up to that position; <<>> stands for rows that   *)
(* are none of one conversation (torn, or computed over foreign rows).     *)
(* kv.full stands for every layer that keeps the whole context, kv.ring    *)
(* for every sliding-window layer.  Growing the arrays keeps their rows    *)
(* and is left out, and so are numerics, plugins and remote layers.  A     *)
(* sampler may pick any token.  The semantic cache is the abstract store   *)
(* of PrefixStore, which SemanticCache implements; a runtime that has one  *)
(* has full layers only, see README.                                       *)
(***************************************************************************)
EXTENDS PrefixRows, FiniteSetsExt

CONSTANTS
  Tokens,              \* the vocabulary
  Eog,                 \* the token that ends a generation
  MaxCtx,              \* max_ctx_
  MinNgram, MaxNgram,  \* of PromptLookupDecoder (2 and 5)
  Setups,              \* how a runtime may be set up: ring window (0: no ring
                       \* layers), draft length (0: no speculation), the budget
                       \* of the semantic cache in tokens (0: no cache), and
                       \* the passes in which reading weights may fail
  MaxPrompt,           \* bound: tokens of a prompt
  MaxNew,              \* bound: max_new of a call
  MaxTurns             \* bound: calls of generate

ASSUME RuntimeAssumption ==
  /\ Eog \in Tokens
  /\ MaxCtx \in Nat \ {0}
  /\ MinNgram \in Nat \ {0} /\ MaxNgram \in Nat
  /\ MaxPrompt \in Nat /\ MaxNew \in Nat /\ MaxTurns \in Nat
  /\ Setups \subseteq [window : 0 .. MaxCtx - 1, drafts : Nat, cache : Nat,
                       faults : SUBSET {"prefill", "decode"}]
  /\ \A s \in Setups : s.cache > 0 => s.window = 0

VARIABLES
  setup,      \* the setup of this runtime
  pos,        \* pos_
  committed,  \* committed_
  kv,         \* the rows of kv_: full[position], ring[position % window]
  pc,         \* "idle" between calls, "decode" at the top of the decode loop
  next,       \* the token sampled last, NoToken for none
  basis,      \* what the logits it was sampled from were computed from
  left,       \* max_new - n
  store,      \* semantic_cache_: the row of each prefix it holds
  saved,      \* the session file
  broken,     \* history: a call failed and left rows that are not committed's
  turns       \* calls of generate so far

vars == <<setup, pos, committed, kv, pc, next, basis, left, store, saved, broken, turns>>

NoToken == "none"
Junk    == <<>>
NoFile  == [kind |-> "none"]
CutFile == [kind |-> "cut"]

Window    == setup.window
Positions == 0 .. MaxCtx - 1

\* The oldest position a sliding-window layer attends to from position p.
Oldest(p) == IF p >= Window THEN p - Window + 1 ELSE 0

FirstValid(len) == IF Window > 0 /\ len > Window THEN len - Window ELSE 0

EmptyKV == [full |-> [p \in Positions |-> Junk],
            ring |-> [i \in 0 .. MaxCtx - 1 |-> Junk]]

Init ==
  /\ setup \in Setups
  /\ pos = 0
  /\ committed = <<>>
  /\ kv = EmptyKV
  /\ pc = "idle" /\ next = NoToken /\ basis = Junk /\ left = 0
  /\ store = <<>>
  /\ saved = NoFile
  /\ broken = FALSE
  /\ turns = 0

-----------------------------------------------------------------------------
(* The transformer over the cache.                                         *)

\* The rows position p attends to are those of ctx, its own tokens.
Attends(rows, p, ctx) ==
  /\ Len(ctx) = p + 1
  /\ \A t \in 0 .. p - 1 : rows.full[t] = SubSeq(ctx, 1, t + 1)
  /\ Window > 0 => \A t \in Oldest(p) .. p - 1 :
                     rows.ring[t % Window] = SubSeq(ctx, 1, t + 1)

\* What position p computes from its token and the rows behind it.
Context(rows, p, token) ==
  LET ctx == Append(IF p = 0 THEN <<>> ELSE rows.full[p - 1], token)
  IN  IF Attends(rows, p, ctx) THEN ctx ELSE Junk

Write(rows, p, ctx) ==
  [full |-> [rows.full EXCEPT ![p] = ctx],
   ring |-> IF Window > 0 THEN [rows.ring EXCEPT ![p % Window] = ctx] ELSE rows.ring]

\* Mutant: a ring layer, too, writes the whole batch before it attends.
FeedBatchFirst(rows, start, tokens) ==
  LET Ctx(i) == (IF start = 0 THEN <<>> ELSE rows.full[start - 1]) \o SubSeq(tokens, 1, i)
      All[i \in 0 .. Len(tokens)] ==
        IF i = 0 THEN rows ELSE Write(All[i - 1], start + i - 1, Ctx(i))
      Got(i) == IF Attends(All[Len(tokens)], start + i - 1, Ctx(i)) THEN Ctx(i) ELSE Junk
      Res[i \in 0 .. Len(tokens)] ==
        IF i = 0 THEN rows ELSE Write(Res[i - 1], start + i - 1, Got(i))
  IN  [rows |-> Res[Len(tokens)], ctxs |-> [i \in 1 .. Len(tokens) |-> Got(i)]]

\* One pass over tokens at positions start, start+1, ...: the rows after it
\* and what each position computed.  Full layers write the batch and attend, to
\* earlier positions only; ring layers write and attend token by token, or
\* attend to the batch's own rows before writing it: the same rows either way.
Feed(rows, start, tokens) ==
  LET F[i \in 0 .. Len(tokens)] ==
        IF i = 0 THEN [rows |-> rows, ctxs |-> <<>>]
        ELSE LET ctx == Context(F[i - 1].rows, start + i - 1, tokens[i])
             IN  [rows |-> Write(F[i - 1].rows, start + i - 1, ctx),
                  ctxs |-> Append(F[i - 1].ctxs, ctx)]
  IN  F[Len(tokens)]

\* A read of weights failed on the way: what some layers hold at the n
\* positions from start is new, in others old.
Torn(rows, start, n) ==
  LET hit == {p \in Positions : start <= p /\ p < start + n}
      full == [p \in Positions |-> IF p \in hit THEN Junk ELSE rows.full[p]]
      ring == [i \in DOMAIN rows.ring |->
                 IF Window > 0 /\ (\E p \in hit : p % Window = i) THEN Junk ELSE rows.ring[i]]
  IN  {[full |-> f, ring |-> r] : f \in {rows.full, full}, r \in {rows.ring, ring}}

-----------------------------------------------------------------------------
(* Prompt lookup.                                                          *)

\* The last place, 0-based, before the final n tokens of context where they
\* occur as a whole.
Matches(context, n) ==
  {i \in 0 .. Len(context) - 2 * n :
     SubSeq(context, i + 1, i + n) = SubSeq(context, Len(context) - n + 1, Len(context))}

\* The tokens that followed the longest repeated n-gram, at most maxDraft.
Draft(context, maxDraft) ==
  LET grams == {n \in MinNgram .. Min({MaxNgram, Len(context) - 1}) : Matches(context, n) # {}}
      n     == Max(grams)
      from  == Max(Matches(context, n)) + n
  IN  IF grams = {} THEN <<>>
      ELSE SubSeq(context, from + 1, Min({from + maxDraft, Len(context)}))

-----------------------------------------------------------------------------
(* generate: up to and including the prefill.                              *)

\* Mutant: any rewind is thought possible.
CanRewindAlways(to, written) == TRUE

CanRewind(to, written) == Window = 0 \/ written <= Window \/ to >= written - 1

\* The prefix already in the cache, less the token that must be run again.
Reused(prompt) ==
  LET common == Len(LongestCommonPrefix({prompt, committed}))
      r      == IF common = Len(prompt) /\ common > 0 THEN common - 1 ELSE common
  IN  IF CanRewind(r, Len(committed)) THEN r ELSE 0

Rewound(prompt, reuse) == IF reuse THEN Reused(prompt) ELSE 0

\* How many tokens the semantic cache supplies: more than were rewound to, but
\* not the last; 0 if it is not used.
Hit(prompt, reuse) ==
  LET hit == Min({HeldLength(store, prompt), Len(prompt) - 1})
  IN  IF hit > Rewound(prompt, reuse) THEN hit ELSE 0

\* Where the prefill starts, over which rows, and what it runs.  With reuse_
\* the prompt is the whole conversation, without it is appended; a hit replaces
\* the conversation in either case.
Start(prompt, reuse) ==
  IF Hit(prompt, reuse) > 0 THEN Hit(prompt, reuse)
  ELSE IF reuse THEN Reused(prompt) ELSE pos

Kept(prompt, reuse) ==
  IF Hit(prompt, reuse) > 0 THEN SubSeq(prompt, 1, Hit(prompt, reuse))
  ELSE IF reuse THEN SubSeq(committed, 1, Reused(prompt)) ELSE committed

\* Mutant: the last row of the hit is not injected.
InjectedShort(prompt, reuse) ==
  [kv EXCEPT !.full = [p \in Positions |-> IF p < Hit(prompt, reuse) - 1
                                           THEN store[SubSeq(prompt, 1, p + 1)] ELSE @[p]]]

Injected(prompt, reuse) ==
  [kv EXCEPT !.full = [p \in Positions |-> IF p < Hit(prompt, reuse)
                                           THEN store[SubSeq(prompt, 1, p + 1)] ELSE @[p]]]

Delta(prompt, reuse) ==
  SubSeq(prompt, Max({Hit(prompt, reuse), Rewound(prompt, reuse)}) + 1, Len(prompt))

Fits(prompt, reuse) == Start(prompt, reuse) + Len(Delta(prompt, reuse)) - 1 < MaxCtx

\* The call ends, by returning or by throwing.
CallOver == pc' = "idle" /\ next' = NoToken /\ basis' = Junk /\ left' = 0

\* Before it returns, the semantic cache is given what was committed, and keeps
\* at most its budget of it.
Remembers(tokens, rows) ==
  LET all == Remember(store, tokens, [i \in 1 .. Len(tokens) |-> rows.full[i - 1]])
  IN  store' \in IF setup.cache = 0 THEN {store}
                 ELSE IF Cardinality(DOMAIN all) <= setup.cache THEN {all}
                 ELSE {Restrict(all, stems) : stems \in
                         {c \in SUBSET DOMAIN all : Closed(c) /\ Cardinality(c) <= setup.cache}}

\* The call is over before its first row is written, but the rewind went behind
\* rows of a ring that have taken the place of others.
LosesRows(prompt, reuse) ==
  Window > 0 /\ Len(committed) > Window /\ Start(prompt, reuse) \in 1 .. Len(committed) - 1

Called ==
  /\ pc = "idle"
  /\ turns < MaxTurns
  /\ turns' = turns + 1
  /\ UNCHANGED <<setup, saved>>

Prefill(prompt, reuse, maxNew) ==
  LET start == Start(prompt, reuse)
      delta == Delta(prompt, reuse)
      pass  == Feed(Injected(prompt, reuse), start, delta)
  IN  /\ Called
      /\ delta # <<>>
      /\ Fits(prompt, reuse)
      /\ kv' = pass.rows
      /\ pos' = start + Len(delta)
      /\ committed' = Kept(prompt, reuse) \o delta
      /\ next' \in Tokens
      /\ basis' = Last(pass.ctxs)
      /\ left' = maxNew
      /\ pc' = "decode"
      /\ UNCHANGED <<store, broken>>

\* Nothing to run: nothing is sampled.
NoPrefill(prompt, reuse) ==
  /\ Called
  /\ Delta(prompt, reuse) = <<>>
  /\ pos' = Start(prompt, reuse)
  /\ committed' = Kept(prompt, reuse)
  /\ kv' = Injected(prompt, reuse)
  /\ Remembers(committed', kv')
  /\ CallOver
  /\ UNCHANGED broken

\* More than the context holds: it throws after the rewind or the injection.
Overflows(prompt, reuse) ==
  /\ Called
  /\ Delta(prompt, reuse) # <<>>
  /\ ~Fits(prompt, reuse)
  /\ pos' = Start(prompt, reuse)
  /\ committed' = Kept(prompt, reuse)
  /\ kv' = Injected(prompt, reuse)
  /\ broken' = (broken \/ LosesRows(prompt, reuse))
  /\ CallOver
  /\ UNCHANGED store

PrefillFails(prompt, reuse) ==
  LET start == Start(prompt, reuse)
      delta == Delta(prompt, reuse)
  IN  /\ Called
      /\ "prefill" \in setup.faults
      /\ delta # <<>>
      /\ Fits(prompt, reuse)
      /\ pos' = start
      /\ committed' = Kept(prompt, reuse)
      /\ kv' \in Torn(Injected(prompt, reuse), start, Len(delta))
      /\ broken' = (broken \/ Window > 0)
      /\ CallOver
      /\ UNCHANGED store

-----------------------------------------------------------------------------
(* generate: the decode loop.                                              *)

\* Mutant: the loop does not look whether the context is full.
EmitsPastEnd ==
  /\ pc = "decode"
  /\ left > 0
  /\ next \notin {NoToken, Eog}

\* The loop goes on, and the token goes to the callback.
Emits ==
  /\ pc = "decode"
  /\ left > 0
  /\ next \notin {NoToken, Eog}
  /\ pos < MaxCtx

DecodeEnds ==
  /\ pc = "decode"
  /\ ~Emits
  /\ CallOver
  /\ Remembers(committed, kv)
  /\ UNCHANGED <<setup, pos, committed, kv, saved, broken, turns>>

\* The callback asks to stop: the token stays out of the cache.
CallbackStops ==
  /\ Emits
  /\ CallOver
  /\ Remembers(committed, kv)
  /\ UNCHANGED <<setup, pos, committed, kv, saved, broken, turns>>

\* The token is committed, then a draft is looked up.
History == Append(committed, next)
DraftNow ==
  IF setup.drafts > 0 /\ left - 1 > 0 /\ pos + setup.drafts < MaxCtx
    THEN Draft(History, Min({setup.drafts, left - 1}))
    ELSE <<>>

Step ==
  LET pass == Feed(kv, pos, <<next>>) IN
  /\ Emits
  /\ DraftNow = <<>>
  /\ committed' = History
  /\ kv' = pass.rows
  /\ pos' = pos + 1
  /\ next' \in Tokens
  /\ basis' = Last(pass.ctxs)
  /\ left' = left - 1
  /\ UNCHANGED <<setup, pc, store, saved, broken, turns>>

\* One pass over the token and its draft, of which the first m are accepted:
\* each was what the sampler picked there, not an end, and within max_new.
Batch == <<next>> \o DraftNow
Accepted(m) ==
  /\ Emits
  /\ DraftNow # <<>>
  /\ m <= Len(DraftNow)
  /\ \A i \in 1 .. m : DraftNow[i] # Eog /\ left - i > 0
  /\ kv' = Feed(kv, pos, Batch).rows
  /\ pos' = pos + m + 1
  /\ committed' = History \o SubSeq(DraftNow, 1, m)
  /\ UNCHANGED <<setup, saved, broken, turns>>

\* The sampler picks something else than the next draft token...
VerifyRejects(m) ==
  /\ Accepted(m)
  /\ m < Len(DraftNow)
  /\ next' \in Tokens \ {DraftNow[m + 1]}
  /\ basis' = Feed(kv, pos, Batch).ctxs[m + 1]
  /\ left' = left - 1 - m
  /\ UNCHANGED <<pc, store>>

\* ... or there is none left: the last position's logits give the next token...
VerifyAccepts ==
  LET m == Len(DraftNow) IN
  /\ Accepted(m)
  /\ next' \in Tokens
  /\ basis' = Feed(kv, pos, Batch).ctxs[m + 1]
  /\ left' = left - 1 - m
  /\ UNCHANGED <<pc, store>>

\* ... or the next draft token is picked, but ends the call: it is an end, or
\* the callback stops.
VerifyStops(m) ==
  /\ Accepted(m)
  /\ m < Len(DraftNow)
  /\ CallOver
  /\ Remembers(committed', kv')

\* A read fails in forward or spec_forward: the token is committed already.
StepFails ==
  /\ Emits
  /\ "decode" \in setup.faults
  /\ committed' = History
  /\ kv' \in Torn(kv, pos, IF DraftNow = <<>> THEN 1 ELSE Len(Batch))
  /\ broken' = TRUE
  /\ CallOver
  /\ UNCHANGED <<setup, pos, store, saved, turns>>

-----------------------------------------------------------------------------
(* reset, and the session file.                                            *)

Reset ==
  /\ pc = "idle"
  /\ pos' = 0
  /\ committed' = <<>>
  /\ broken' = FALSE
  /\ UNCHANGED <<setup, kv, pc, next, basis, left, store, saved, turns>>

Row(p) == IF p < MaxCtx THEN kv.full[p] ELSE Junk

\* session_write: the tokens, and the rows still resident of each layer.
SaveSession ==
  /\ pc = "idle"
  /\ saved' = LET len == Len(committed) IN
       [kind |-> "whole", tokens |-> committed, broken |-> broken,
        full |-> [p \in 0 .. len - 1 |-> Row(p)],
        ring |-> IF Window > 0 THEN [p \in FirstValid(len) .. len - 1 |-> kv.ring[p % Window]]
                               ELSE <<>>]
  /\ UNCHANGED <<setup, pos, committed, kv, pc, next, basis, left, store, broken, turns>>

\* The file is truncated when it is opened; the write stops half way.
SaveCut ==
  /\ pc = "idle"
  /\ saved' = CutFile
  /\ UNCHANGED <<setup, pos, committed, kv, pc, next, basis, left, store, broken, turns>>

Loadable == saved.kind = "whole" /\ Len(saved.tokens) <= MaxCtx

\* session_read: each row goes back to the slot of its position.
LoadSession ==
  /\ pc = "idle"
  /\ Loadable
  /\ committed' = saved.tokens
  /\ pos' = Len(saved.tokens)
  /\ kv' = [full |-> [p \in Positions |-> IF p < Len(saved.tokens) THEN saved.full[p]
                                          ELSE kv.full[p]],
            ring |-> [i \in DOMAIN kv.ring |->
                        LET from == {p \in DOMAIN saved.ring : p % Window = i}
                        IN  IF from # {} THEN saved.ring[Max(from)] ELSE kv.ring[i]]]
  /\ broken' = saved.broken
  /\ UNCHANGED <<setup, pc, next, basis, left, store, saved, turns>>

\* No file, a cut one or one too long: the runtime is reset, whatever the rows
\* read so far have overwritten.
LoadFails ==
  /\ pc = "idle"
  /\ ~Loadable
  /\ pos' = 0
  /\ committed' = <<>>
  /\ kv' \in {kv, EmptyKV}
  /\ broken' = FALSE
  /\ UNCHANGED <<setup, pc, next, basis, left, store, saved, turns>>

\* The process ends, at any point, and is started again.
Restart ==
  /\ pos' = 0
  /\ committed' = <<>>
  /\ kv' = EmptyKV
  /\ CallOver
  /\ store' = <<>>
  /\ broken' = FALSE
  /\ UNCHANGED <<setup, saved, turns>>

-----------------------------------------------------------------------------
Prompts == BoundedSeq(Tokens, MaxPrompt)

Generate ==
  \E prompt \in Prompts, reuse \in BOOLEAN :
    \/ \E maxNew \in 0 .. MaxNew : Prefill(prompt, reuse, maxNew)
    \/ NoPrefill(prompt, reuse)
    \/ Overflows(prompt, reuse)
    \/ PrefillFails(prompt, reuse)

Decode ==
  \/ DecodeEnds \/ CallbackStops
  \/ Step
  \/ \E m \in 0 .. setup.drafts : VerifyRejects(m) \/ VerifyStops(m)
  \/ VerifyAccepts
  \/ StepFails

Session == SaveSession \/ SaveCut \/ LoadSession \/ LoadFails

Next == Generate \/ Decode \/ Reset \/ Session \/ Restart

Spec == Init /\ [][Next]_vars

-----------------------------------------------------------------------------
(* Properties.                                                             *)

\* Types; the position is one of the context, but for the rewind of a
\* conversation that failed calls have made longer.
TypeOK ==
  /\ setup \in Setups
  /\ pos \in Nat /\ (pos <= MaxCtx \/ broken)
  /\ committed \in Seq(Tokens)
  /\ kv.full \in [Positions -> Seq(Tokens)]
  /\ kv.ring \in [0 .. MaxCtx - 1 -> Seq(Tokens)]
  /\ pc \in {"idle", "decode"}
  /\ next \in Tokens \cup {NoToken}
  /\ basis \in Seq(Tokens)
  /\ left \in 0 .. MaxNew
  /\ \A s \in DOMAIN store : s \in Seq(Tokens) /\ store[s] \in Seq(Tokens)
  /\ saved.kind \in {"none", "cut", "whole"}
  /\ broken \in BOOLEAN
  /\ turns \in 0 .. MaxTurns

\* runtime.h:187, "mirrors tokens in KV [0,pos_)": the cache holds, at every
\* position a later query attends to, the row of exactly the committed tokens.
MirrorsKV ==
  /\ Len(committed) = pos
  /\ \A t \in 0 .. pos - 1 : kv.full[t] = SubSeq(committed, 1, t + 1)
  /\ Window > 0 => \A t \in Oldest(pos) .. pos - 1 :
                     kv.ring[t % Window] = SubSeq(committed, 1, t + 1)

\* The same while no decode pass has failed after its token was committed, and,
\* over a ring, no prefill has failed or been refused behind a rewind; reset()
\* and a session saved before the failure restore it (runtime.cpp:241-257,
\* 286-294, 322-396, 470-493).
KeepsMirror == ~broken => MirrorsKV

\* Every token is sampled from logits computed over the whole history before
\* it, and nothing else: what speculation, rewinding and a resumed session must
\* not change (test_spec_equiv.cpp:3-7).
LogitsFromHistory == pc = "decode" /\ ~broken => basis = committed
=============================================================================
