---------------------------- MODULE Runtime_proofs ----------------------------
(***************************************************************************)
(* What the runtime's cache, logits and session promise (Runtime), for     *)
(* every vocabulary, context, window, draft length and number of turns,    *)
(* and what the memory plan promises (MemPlan), for every budget.          *)
(*                                                                         *)
(* A pass is followed token by token (FeedRight), then what a call starts  *)
(* from (StartRight), then one lemma per action says that it keeps the     *)
(* inductive invariant IInv.                                               *)
(***************************************************************************)
EXTENDS Runtime, SequenceTheorems, WellFoundedInduction, TLAPS

\* What one more token makes of the rows of a pass and of what it computed.
Ran(f, p, token) ==
  LET ctx == Context(f.rows, p, token)
  IN  [rows |-> Write(f.rows, p, ctx), ctxs |-> Append(f.ctxs, ctx)]

\* Feed's function of the tokens run so far, up to the n-th.
Pass(F, n, rows, start, tokens) ==
  [i \in 0 .. n |-> IF i = 0 THEN [rows |-> rows, ctxs |-> <<>>]
                    ELSE Ran(F[i - 1], start + i - 1, tokens[i])]
IsPass(F, n, rows, start, tokens) == F = Pass(F, n, rows, start, tokens)

\* A nonempty set of naturals has a least element.
LEMMA LeastOf ==
  ASSUME NEW T \in SUBSET Nat, T # {}
  PROVE  \E i \in T : \A j \in T : i <= j
<1>1. PICK i \in T : \A j \in T : ~(<<j, i>> \in OpToRel(<, Nat))
  BY NatLessThanWellFounded, WFMin
<1>2. \A j \in T : <<j, i>> \in Nat \X Nat
  OBVIOUS
<1>3. \A j \in T : <<j, i>>[1] < <<j, i>>[2] => <<j, i>> \in OpToRel(<, Nat)
  BY <1>2, Zenon DEF OpToRel
<1>4. \A j \in T : ~(j < i)
  BY <1>1, <1>3
<1> QED BY <1>4

\* Induction up to n: what holds of 0 and passes on to the next holds of n.
LEMMA UpTo ==
  ASSUME NEW n \in Nat, NEW T, 0 \in T, \A i \in 0 .. n - 1 : i \in T => i + 1 \in T
  PROVE  \A i \in 0 .. n : i \in T
<1> DEFINE missed == {i \in 0 .. n : i \notin T}
<1>1. SUFFICES ASSUME missed # {} PROVE FALSE
  OBVIOUS
<1>2. missed \in SUBSET Nat
  OBVIOUS
<1> HIDE DEF missed
<1>3. PICK i \in missed : \A j \in missed : i <= j
  BY <1>1, <1>2, LeastOf
<1>4. i \in 0 .. n /\ i \notin T
  BY DEF missed
<1>5. i # 0 /\ i - 1 \in 0 .. n - 1
  BY <1>4
<1>6. i - 1 \notin missed
  BY <1>2, <1>3, <1>5
<1>7. i - 1 \in T
  BY <1>5, <1>6 DEF missed
<1> QED
  BY <1>4, <1>5, <1>7

\* Feed is the last value of the function it defines by recursion.
LEMMA FeedIs ==
  ASSUME NEW rows, NEW start, NEW tokens
  PROVE  Feed(rows, start, tokens)
           = (CHOOSE F : IsPass(F, Len(tokens), rows, start, tokens))[Len(tokens)]
  BY DEF Feed, IsPass, Pass, Ran

\* There is such a function, for every batch: a longer one from a shorter one.
LEMMA PassExists ==
  ASSUME NEW rows, NEW start \in Nat, NEW tokens, NEW m \in Nat
  PROVE  \E F : IsPass(F, m, rows, start, tokens)
<1> DEFINE T == {n \in Nat : \E F : IsPass(F, n, rows, start, tokens)}
<1>1. 0 \in T
  <2> DEFINE F == [i \in 0 .. 0 |-> [rows |-> rows, ctxs |-> <<>>]]
  <2>1. IsPass(F, 0, rows, start, tokens)
    BY DEF IsPass, Pass
  <2> QED BY <2>1
<1>2. ASSUME NEW n \in Nat, n \in T PROVE n + 1 \in T
  <2>1. PICK F : IsPass(F, n, rows, start, tokens)
    BY <1>2
  <2> DEFINE G == [i \in 0 .. n + 1 |->
                     IF i <= n THEN F[i]
                     ELSE Ran(F[n], start + n, tokens[n + 1])]
  <2>2. DOMAIN G = 0 .. n + 1 /\ DOMAIN Pass(G, n + 1, rows, start, tokens) = 0 .. n + 1
    BY DEF Pass
  <2>3. ASSUME NEW i \in 0 .. n + 1 PROVE G[i] = Pass(G, n + 1, rows, start, tokens)[i]
    <3>1. CASE i <= n
      <4>1. i \in 0 .. n /\ G[i] = F[i]
        BY <1>2, <3>1
      <4>2. F[i] = Pass(F, n, rows, start, tokens)[i]
        BY <2>1 DEF IsPass
      <4>3. i # 0 => i - 1 \in 0 .. n /\ G[i - 1] = F[i - 1]
        BY <1>2, <4>1
      <4> HIDE DEF G
      <4> QED
        BY <1>2, <4>1, <4>2, <4>3 DEF Pass
    <3>2. CASE i = n + 1
      <4>1. /\ i # 0 /\ i - 1 = n /\ start + i - 1 = start + n /\ tokens[i] = tokens[n + 1]
        BY <1>2, <3>2
      <4>2. G[n] = F[n]
        BY <1>2
      <4>3. G[i] = Ran(F[n], start + n, tokens[n + 1])
        BY <1>2, <3>2
      <4> HIDE DEF G
      <4> QED
        BY <4>1, <4>2, <4>3 DEF Pass
    <3> QED
      BY <1>2, <3>1, <3>2
  <2>0. G = [i \in 0 .. n + 1 |-> G[i]]
    OBVIOUS
  <2> HIDE DEF G
  <2>4. IsPass(G, n + 1, rows, start, tokens)
    BY <2>0, <2>2, <2>3 DEF IsPass, Pass
  <2> QED BY <2>4
<1> HIDE DEF T
<1>3. m \in T
  BY <1>1, <1>2, UpTo
<1> QED BY <1>3 DEF T

\* F[i] is what the first i of n tokens make of the rows.
Runs(F, n, rows, start, tokens) ==
  /\ F[0] = [rows |-> rows, ctxs |-> <<>>]
  /\ \A i \in 0 .. n - 1 : F[i + 1] = Ran(F[i], start + i, tokens[i + 1])

\* What Feed computes, token by token.
LEMMA FeedRuns ==
  ASSUME NEW rows, NEW start \in Nat, NEW tokens, NEW n \in Nat, n = Len(tokens)
  PROVE  \E F : Feed(rows, start, tokens) = F[n] /\ Runs(F, n, rows, start, tokens)
<1>0. \E G : IsPass(G, n, rows, start, tokens)
  BY PassExists
<1> DEFINE F == CHOOSE G : IsPass(G, n, rows, start, tokens)
<1>1. IsPass(F, n, rows, start, tokens)
  BY <1>0
<1>2. Feed(rows, start, tokens) = F[n]
  BY FeedIs
<1> HIDE DEF F
<1>3. F[0] = [rows |-> rows, ctxs |-> <<>>]
  <2>1. F[0] = Pass(F, n, rows, start, tokens)[0]
    BY <1>1 DEF IsPass
  <2> QED BY <2>1 DEF Pass
<1>4. ASSUME NEW i \in 0 .. n - 1
      PROVE  F[i + 1] = Ran(F[i], start + i, tokens[i + 1])
  <2>1. i + 1 \in 0 .. n /\ i + 1 # 0 /\ (i + 1) - 1 = i /\ start + (i + 1) - 1 = start + i
    OBVIOUS
  <2>2. F[i + 1] = Pass(F, n, rows, start, tokens)[i + 1]
    BY <1>1 DEF IsPass
  <2> QED BY <2>1, <2>2 DEF Pass
<1> QED BY <1>2, <1>3, <1>4 DEF Runs

\* A nonempty bounded set of naturals has its maximum.
LEMMA MaxOf ==
  ASSUME NEW S \in SUBSET Nat, S # {}, NEW b \in Nat, \A x \in S : x <= b
  PROVE  Max(S) \in S /\ \A x \in S : x <= Max(S)
<1> DEFINE below == {b - x : x \in S}
<1>0. \A x \in S : b - x \in Nat
  OBVIOUS
<1>1. below \in SUBSET Nat /\ below # {}
  BY <1>0
<1>2. PICK i \in below : \A j \in below : i <= j
  BY <1>1, LeastOf
<1>3. PICK m \in S : i = b - m
  BY <1>2
<1>4. \A x \in S : m >= x
  BY <1>2, <1>3
<1> QED BY <1>3, <1>4 DEF Max

\* The lesser of two integers.
LEMMA MinOf ==
  ASSUME NEW x \in Int, NEW y \in Int
  PROVE  Min({x, y}) = IF x <= y THEN x ELSE y
<1>1. \E m \in {x, y} : \A z \in {x, y} : m =< z
  OBVIOUS
<1>2. Min({x, y}) \in {x, y} /\ \A z \in {x, y} : Min({x, y}) =< z
  BY <1>1 DEF Min
<1> QED BY <1>2

\* A prefix of a prefix is a prefix.
LEMMA PrefixOfPrefix ==
  ASSUME NEW S, NEW s \in Seq(S), NEW n \in 0 .. Len(s), NEW k \in 0 .. n
  PROVE  /\ SubSeq(s, 1, n) \in Seq(S) /\ Len(SubSeq(s, 1, n)) = n
         /\ SubSeq(SubSeq(s, 1, n), 1, k) = SubSeq(s, 1, k)
  OBVIOUS

\* A piece of a sequence, its length and its elements.
LEMMA PieceOf ==
  ASSUME NEW S, NEW s \in Seq(S), NEW a \in Nat, NEW b \in Int, b <= Len(s)
  PROVE  /\ SubSeq(s, a + 1, b) \in Seq(S)
         /\ Len(SubSeq(s, a + 1, b)) = IF a < b THEN b - a ELSE 0
         /\ \A i \in 1 .. b - a : SubSeq(s, a + 1, b)[i] = s[a + i]
<1>1. CASE a < b
  BY <1>1
<1>2. CASE ~(a < b)
  <2>1. SubSeq(s, a + 1, b) = <<>>
    BY <1>2, SubSeqEmpty
  <2> QED BY <1>2, <2>1
<1> QED BY <1>1, <1>2

\* A sequence followed by another: the first is a prefix of the whole.
LEMMA FollowedBy ==
  ASSUME NEW S, NEW s \in Seq(S), NEW t \in Seq(S)
  PROVE  /\ s \o t \in Seq(S) /\ Len(s \o t) = Len(s) + Len(t)
         /\ \A i \in 1 .. Len(t) : t[i] = (s \o t)[Len(s) + i]
         /\ \A k \in 0 .. Len(s) : SubSeq(s \o t, 1, k) = SubSeq(s, 1, k)
<1>1. PICK u : u = s \o t
  OBVIOUS
<1>2. /\ u \in Seq(S) /\ Len(u) = Len(s) + Len(t)
      /\ \A i \in 1 .. Len(s) + Len(t) : u[i] = IF i <= Len(s) THEN s[i] ELSE t[i - Len(s)]
  BY <1>1, ConcatProperties
<1>3. \A i \in 1 .. Len(t) : t[i] = u[Len(s) + i]
  <2> SUFFICES ASSUME NEW i \in 1 .. Len(t) PROVE t[i] = u[Len(s) + i]
    OBVIOUS
  <2>1. /\ Len(s) + i \in 1 .. Len(s) + Len(t) /\ ~(Len(s) + i <= Len(s))
        /\ (Len(s) + i) - Len(s) = i
    OBVIOUS
  <2> QED BY <1>2, <2>1
<1>4. \A k \in 0 .. Len(s) : SubSeq(u, 1, k) = SubSeq(s, 1, k)
  BY <1>2
<1> QED BY <1>1, <1>2, <1>3, <1>4

\* A prefix of a concatenation that reaches into the second sequence.
LEMMA PartOfSecond ==
  ASSUME NEW S, NEW s \in Seq(S), NEW t \in Seq(S), NEW m \in 0 .. Len(t)
  PROVE  /\ s \o SubSeq(t, 1, m) = SubSeq(s \o t, 1, Len(s) + m)
         /\ Len(s \o SubSeq(t, 1, m)) = Len(s) + m
<1>1. PICK a \in Nat, b \in Nat, n \in Nat : a = Len(s) /\ b = Len(t) /\ n = a + m
  OBVIOUS
<1>2. PICK d : d = SubSeq(t, 1, m)
  OBVIOUS
<1>3. d \in Seq(S) /\ Len(d) = m /\ \A i \in 1 .. m : d[i] = t[i]
  BY <1>2
<1>4. PICK u : u = s \o t
  OBVIOUS
<1>5. /\ u \in Seq(S) /\ Len(u) = a + b
      /\ \A i \in 1 .. a + b : u[i] = IF i <= a THEN s[i] ELSE t[i - a]
  BY <1>1, <1>4, ConcatProperties
<1>6. PICK v : v = s \o d
  OBVIOUS
<1>7. /\ v \in Seq(S) /\ Len(v) = n
      /\ \A i \in 1 .. n : v[i] = IF i <= a THEN s[i] ELSE d[i - a]
  <2>1. /\ v \in Seq(S) /\ Len(v) = Len(s) + Len(d)
        /\ \A i \in 1 .. Len(s) + Len(d) : v[i] = IF i <= Len(s) THEN s[i] ELSE d[i - Len(s)]
    BY <1>3, <1>6, ConcatProperties
  <2> QED BY <1>1, <1>3, <2>1
<1>8. \A i \in 1 .. n : v[i] = u[i]
  <2> SUFFICES ASSUME NEW i \in 1 .. n PROVE v[i] = u[i]
    OBVIOUS
  <2>1. i \in 1 .. a + b /\ i \in Nat
    BY <1>1
  <2>2. CASE i <= a
    BY <1>5, <1>7, <2>1, <2>2
  <2>3. CASE ~(i <= a)
    <3>1. i - a \in 1 .. m
      BY <1>1, <2>1, <2>3
    <3> QED BY <1>3, <1>5, <1>7, <2>1, <2>3, <3>1
  <2> QED BY <2>2, <2>3
<1>9. PICK w : w = SubSeq(u, 1, n)
  OBVIOUS
<1>10. w \in Seq(S) /\ Len(w) = n /\ \A i \in 1 .. n : w[i] = u[i]
  <2>1. n <= Len(u)
    BY <1>1, <1>5
  <2> QED BY <1>5, <1>9, <2>1
<1>11. v = w
  BY <1>7, <1>8, <1>10
<1> QED BY <1>1, <1>2, <1>4, <1>6, <1>7, <1>9, <1>11

\* A sequence followed by one more element.
LEMMA AppendedIs ==
  ASSUME NEW S, NEW s \in Seq(S), NEW x \in S
  PROVE  /\ Append(s, x) \in Seq(S) /\ Len(Append(s, x)) = Len(s) + 1
         /\ Append(s, x)[Len(s) + 1] = x /\ Append(s, x) = s \o <<x>>
  BY AppendProperties, AppendIsConcat

\* The slots of a ring of w rows at fewer than w positions are different.
LEMMA SlotsDiffer ==
  ASSUME NEW w \in Nat \ {0}, NEW t \in Nat, NEW p \in Nat, t < p, p < t + w
  PROVE  t % w # p % w
<1> DEFINE a == t \div w
           b == p \div w
<1>1. /\ a \in Int /\ b \in Int
      /\ t = w * a + (t % w) /\ p = w * b + (p % w)
  <2>1. \A n \in Nat : n \div w \in Int /\ n = w * (n \div w) + (n % w)
    OBVIOUS
  <2> QED BY <2>1, Zenon
<1> HIDE DEF a, b
<1>2. SUFFICES ASSUME t % w = p % w PROVE FALSE
  OBVIOUS
<1>3. 0 < w * (b - a) /\ w * (b - a) < w
  BY <1>1, <1>2
<1>4. b - a \in Int
  BY <1>1
<1>5. \A k \in Int : ~(0 < w * k /\ w * k < w)
  <2> SUFFICES ASSUME NEW k \in Int PROVE ~(0 < w * k /\ w * k < w)
    OBVIOUS
  <2>1. CASE k <= 0
    BY <2>1
  <2>2. CASE k >= 1
    BY <2>2
  <2> QED BY <2>1, <2>2
<1> QED BY <1>3, <1>4, <1>5

-----------------------------------------------------------------------------
(* One pass over the cache.                                                *)

\* The caches there can be.
KV == [full : [Positions -> Seq(Tokens)], ring : [0 .. MaxCtx - 1 -> Seq(Tokens)]]

\* The rows that position n attends to are those of hist ...
Mirrors(rows, n, hist) ==
  /\ \A t \in 0 .. n - 1 : rows.full[t] = SubSeq(hist, 1, t + 1)
  /\ Window > 0 => \A t \in Oldest(n) .. n - 1 :
                     rows.ring[t % Window] = SubSeq(hist, 1, t + 1)

\* ... and so are all that n positions leave, one more of a ring.
Held(rows, n, hist) ==
  /\ \A t \in 0 .. n - 1 : rows.full[t] = SubSeq(hist, 1, t + 1)
  /\ Window > 0 => \A t \in FirstValid(n) .. n - 1 :
                     rows.ring[t % Window] = SubSeq(hist, 1, t + 1)

\* What RuntimeAssumption says of a setup: a window shorter than the context, and
\* none beside a semantic cache.
LEMMA SetupFacts ==
  ASSUME setup \in Setups
  PROVE  /\ Window \in Nat /\ Window < MaxCtx /\ MaxCtx \in Nat \ {0}
         /\ setup.drafts \in Nat /\ setup.cache \in Nat
         /\ setup.cache > 0 => Window = 0
  BY RuntimeAssumption DEF Window

\* All that n positions leave includes all that position n attends to: the row a
\* ring has let go of last is the one its next position takes the slot of.
LEMMA HeldMirrors ==
  ASSUME setup \in Setups, NEW rows, NEW n \in Nat, NEW hist, Held(rows, n, hist)
  PROVE  Mirrors(rows, n, hist)
<1>1. Window \in Nat
  BY SetupFacts
<1>2. Window > 0 => FirstValid(n) \in Int /\ Oldest(n) \in Int /\ FirstValid(n) <= Oldest(n)
  BY <1>1 DEF FirstValid, Oldest
<1>3. Window > 0 => Oldest(n) .. n - 1 \subseteq FirstValid(n) .. n - 1
  BY <1>2
<1> QED
  BY <1>3 DEF Mirrors, Held

\* One position is written, to its slot in a ring, and nothing else.
OneRow(new, rows, p, ctx) ==
  /\ new \in KV
  /\ new.full[p] = ctx /\ \A q \in Positions \ {p} : new.full[q] = rows.full[q]
  /\ Window > 0 => /\ p % Window \in 0 .. MaxCtx - 1
                   /\ new.ring[p % Window] = ctx
  /\ \A i \in 0 .. MaxCtx - 1 : (Window > 0 /\ i = p % Window) \/ new.ring[i] = rows.ring[i]

\* Write fills the row of one position and, in a ring, its slot.
LEMMA WriteIs ==
  ASSUME setup \in Setups, NEW rows \in KV, NEW p \in Positions, NEW ctx \in Seq(Tokens)
  PROVE  OneRow(Write(rows, p, ctx), rows, p, ctx)
<1> DEFINE new == Write(rows, p, ctx)
<1>1. rows.full \in [Positions -> Seq(Tokens)] /\ rows.ring \in [0 .. MaxCtx - 1 -> Seq(Tokens)]
  BY DEF KV
<1>2. Window \in Nat /\ Window < MaxCtx /\ p \in Nat /\ MaxCtx \in Nat
  BY SetupFacts DEF Positions
<1>3. Window > 0 => p % Window \in 0 .. MaxCtx - 1
  BY <1>2
<1>4. /\ new.full = [rows.full EXCEPT ![p] = ctx]
      /\ new.ring = IF Window > 0 THEN [rows.ring EXCEPT ![p % Window] = ctx] ELSE rows.ring
      /\ new = [full |-> new.full, ring |-> new.ring]
  BY DEF Write
<1> HIDE DEF new
<1>5. /\ new.full \in [Positions -> Seq(Tokens)]
      /\ new.full[p] = ctx /\ \A q \in Positions \ {p} : new.full[q] = rows.full[q]
  BY <1>1, <1>4
<1>6. CASE Window > 0
  <2>1. /\ new.ring \in [0 .. MaxCtx - 1 -> Seq(Tokens)]
        /\ new.ring[p % Window] = ctx
        /\ \A i \in 0 .. MaxCtx - 1 : i # p % Window => new.ring[i] = rows.ring[i]
    BY <1>1, <1>3, <1>4, <1>6
  <2>2. new \in KV
    BY <1>4, <1>5, <2>1 DEF KV
  <2> QED
    BY <1>3, <1>5, <1>6, <2>1, <2>2 DEF OneRow, new
<1>7. CASE ~(Window > 0)
  <2>1. new.ring = rows.ring
    BY <1>4, <1>7
  <2>2. new \in KV
    BY <1>1, <1>4, <1>5, <2>1 DEF KV
  <2> QED
    BY <1>5, <1>7, <2>1, <2>2 DEF OneRow, new
<1> QED BY <1>6, <1>7

\* What a position computes is a sequence of tokens, whatever the rows are.
LEMMA ContextType ==
  ASSUME NEW rows \in KV, NEW p \in Positions, NEW token \in Tokens
  PROVE  Context(rows, p, token) \in Seq(Tokens)
<1>1. p = 0 \/ p - 1 \in Positions
  BY RuntimeAssumption DEF Positions
<1>2. (IF p = 0 THEN <<>> ELSE rows.full[p - 1]) \in Seq(Tokens)
  BY <1>1 DEF KV
<1>3. /\ Append(IF p = 0 THEN <<>> ELSE rows.full[p - 1], token) \in Seq(Tokens)
      /\ Junk \in Seq(Tokens)
  BY <1>2 DEF Junk
<1> QED
  BY <1>3, Zenon DEF Context

\* Over the rows of hist, position p computes from hist up to p
\* (src/src/transformer.cpp, attention over the rows before the position).
LEMMA ContextIs ==
  ASSUME setup \in Setups, NEW rows \in KV, NEW p \in Positions, NEW hist \in Seq(Tokens),
         p < Len(hist), Mirrors(rows, p, hist)
  PROVE  Context(rows, p, hist[p + 1]) = SubSeq(hist, 1, p + 1)
<1>1. p \in Nat /\ Window \in Nat
  BY SetupFacts DEF Positions
<1> DEFINE old == IF p = 0 THEN <<>> ELSE rows.full[p - 1]
           ctx == SubSeq(hist, 1, p + 1)
<1>2. old = SubSeq(hist, 1, p)
  <2>1. CASE p = 0
    BY <2>1
  <2>2. CASE p # 0
    BY <1>1, <2>2 DEF Mirrors
  <2> QED BY <2>1, <2>2
<1>3. Append(old, hist[p + 1]) = ctx
  BY <1>1, <1>2
<1>4. Len(ctx) = p + 1
  BY <1>1
<1>5. \A t \in 0 .. p - 1 : SubSeq(ctx, 1, t + 1) = SubSeq(hist, 1, t + 1)
  BY <1>1, PrefixOfPrefix
<1>6. Window > 0 => Oldest(p) \in Nat
  BY <1>1 DEF Oldest
<1> HIDE DEF ctx
<1>7. Attends(rows, p, ctx)
  <2>1. \A t \in 0 .. p - 1 : rows.full[t] = SubSeq(ctx, 1, t + 1)
    BY <1>5 DEF Mirrors
  <2>2. ASSUME Window > 0, NEW t \in Oldest(p) .. p - 1
        PROVE  rows.ring[t % Window] = SubSeq(ctx, 1, t + 1)
    <3>1. t \in 0 .. p - 1
      BY <1>1, <1>6, <2>2
    <3>2. rows.ring[t % Window] = SubSeq(hist, 1, t + 1)
      BY <2>2 DEF Mirrors
    <3> QED BY <1>5, <3>1, <3>2
  <2> QED BY <1>4, <2>1, <2>2, Zenon DEF Attends
<1> QED
  BY <1>3, <1>7, Zenon DEF Context, ctx

\* Written over the rows of hist, the next row makes them one more; a ring loses
\* the one row that nobody attends to any more (src/include/llm/kv_cache.h:194-196).
LEMMA WriteHolds ==
  ASSUME setup \in Setups, NEW rows \in KV, NEW p \in Positions, NEW hist \in Seq(Tokens),
         p < Len(hist), Mirrors(rows, p, hist)
  PROVE  Held(Write(rows, p, SubSeq(hist, 1, p + 1)), p + 1, hist)
<1> DEFINE ctx == SubSeq(hist, 1, p + 1)
           new == Write(rows, p, ctx)
<1>1. p \in Nat /\ Window \in Nat /\ Window < MaxCtx /\ MaxCtx \in Nat /\ p < MaxCtx
  BY SetupFacts DEF Positions
<1>2. ctx \in Seq(Tokens)
  BY <1>1
<1> HIDE DEF ctx
<1>3. /\ new.full[p] = ctx /\ \A q \in Positions \ {p} : new.full[q] = rows.full[q]
      /\ Window > 0 => new.ring[p % Window] = ctx
      /\ \A i \in 0 .. MaxCtx - 1 :
           (Window > 0 /\ i = p % Window) \/ new.ring[i] = rows.ring[i]
  BY <1>2, WriteIs DEF OneRow
<1> HIDE DEF new
<1>4. ASSUME NEW t \in 0 .. p PROVE new.full[t] = SubSeq(hist, 1, t + 1)
  <2>1. CASE t = p
    BY <1>3, <2>1 DEF ctx
  <2>2. CASE t # p
    <3>1. t \in Positions \ {p} /\ t \in 0 .. p - 1
      BY <1>1, <2>2 DEF Positions
    <3> QED BY <1>3, <3>1 DEF Mirrors
  <2> QED BY <2>1, <2>2
<1>5. ASSUME Window > 0, NEW t \in FirstValid(p + 1) .. p
      PROVE  new.ring[t % Window] = SubSeq(hist, 1, t + 1)
  <2>1. CASE t = p
    BY <1>3, <1>5, <2>1 DEF ctx
  <2>2. CASE t # p
    <3>1. /\ t \in Nat /\ t < p /\ p < t + Window
          /\ t \in Oldest(p) .. p - 1
      BY <1>1, <1>5, <2>2 DEF FirstValid, Oldest
    <3>2. t % Window # p % Window
      <4>1. Window \in Nat \ {0}
        BY <1>1, <1>5
      <4> QED BY <1>1, <3>1, <4>1, SlotsDiffer
    <3>3. t % Window \in 0 .. MaxCtx - 1
      BY <1>1, <1>5, <3>1
    <3>4. rows.ring[t % Window] = SubSeq(hist, 1, t + 1)
      BY <1>5, <3>1 DEF Mirrors
    <3> QED BY <1>3, <3>2, <3>3, <3>4
  <2> QED BY <2>1, <2>2
<1>6. (p + 1) - 1 = p
  BY <1>1
<1>7. Held(new, p + 1, hist)
  <2>1. \A t \in 0 .. (p + 1) - 1 : new.full[t] = SubSeq(hist, 1, t + 1)
    BY <1>4, <1>6
  <2>2. Window > 0 => \A t \in FirstValid(p + 1) .. (p + 1) - 1 :
                        new.ring[t % Window] = SubSeq(hist, 1, t + 1)
    BY <1>5, <1>6, Zenon
  <2> QED BY <2>1, <2>2, Zenon DEF Held
<1> QED
  BY <1>7 DEF new, ctx

\* What a pass has made so far is i positions' rows and contexts.
Typed(f, i) == f.rows \in KV /\ f.ctxs \in Seq(Seq(Tokens)) /\ Len(f.ctxs) = i

\* One more position is one more row and one more context.
LEMMA RanTyped ==
  ASSUME setup \in Setups, NEW f, NEW i \in Nat, Typed(f, i),
         NEW p \in Positions, NEW token \in Tokens
  PROVE  Typed(Ran(f, p, token), i + 1)
<1>1. PICK ctx : ctx = Context(f.rows, p, token)
  OBVIOUS
<1>2. f.rows \in KV /\ f.ctxs \in Seq(Seq(Tokens)) /\ Len(f.ctxs) = i
  BY DEF Typed
<1>3. ctx \in Seq(Tokens)
  BY <1>1, <1>2, ContextType
<1>4. Write(f.rows, p, ctx) \in KV
  BY <1>2, <1>3, WriteIs DEF OneRow
<1>5. Append(f.ctxs, ctx) \in Seq(Seq(Tokens)) /\ Len(Append(f.ctxs, ctx)) = i + 1
  BY <1>2, <1>3
<1>6. Ran(f, p, token) = [rows |-> Write(f.rows, p, ctx), ctxs |-> Append(f.ctxs, ctx)]
  BY <1>1 DEF Ran
<1> QED BY <1>4, <1>5, <1>6 DEF Typed

\* A pass fills the positions it runs, whatever the rows were.
LEMMA FeedTyped ==
  ASSUME setup \in Setups, NEW rows \in KV, NEW start \in Nat, NEW tokens \in Seq(Tokens),
         start + Len(tokens) <= MaxCtx
  PROVE  Typed(Feed(rows, start, tokens), Len(tokens))
<1>1. PICK n \in Nat : n = Len(tokens)
  OBVIOUS
<1>a. MaxCtx \in Nat
  BY SetupFacts
<1>2. PICK F : Feed(rows, start, tokens) = F[n] /\ Runs(F, n, rows, start, tokens)
  BY <1>1, FeedRuns
<1> DEFINE T == {i \in 0 .. n : Typed(F[i], i)}
<1>3. 0 \in T
  <2>1. F[0] = [rows |-> rows, ctxs |-> <<>>]
    BY <1>2 DEF Runs
  <2>2. Typed(F[0], 0)
    BY <2>1 DEF Typed
  <2> QED BY <1>1, <2>2
<1>4. \A i \in 0 .. n - 1 : i \in T => i + 1 \in T
  <2> SUFFICES ASSUME NEW i \in 0 .. n - 1, i \in T PROVE i + 1 \in T
    OBVIOUS
  <2>1. /\ i \in Nat /\ i + 1 \in 0 .. n
        /\ start + i \in Positions /\ tokens[i + 1] \in Tokens
    BY <1>1, <1>a DEF Positions
  <2>2. F[i + 1] = Ran(F[i], start + i, tokens[i + 1])
    BY <1>2 DEF Runs
  <2>3. Typed(F[i + 1], i + 1)
    BY <2>1, <2>2, RanTyped
  <2> QED BY <2>1, <2>3
<1> HIDE DEF T
<1>5. n \in T
  BY <1>1, <1>3, <1>4, UpTo
<1> QED
  BY <1>1, <1>2, <1>5 DEF T

\* What a pass has made so far is what hist calls for, from position start to p.
Right(f, start, p, hist) ==
  /\ Typed(f, p - start)
  /\ Mirrors(f.rows, p, hist)
  /\ p > start => Held(f.rows, p, hist)
  /\ \A j \in 1 .. p - start : f.ctxs[j] = SubSeq(hist, 1, start + j)

\* One more position over the right rows is right.
LEMMA RanRight ==
  ASSUME setup \in Setups, NEW f, NEW start \in Nat, NEW p \in Positions, start <= p,
         NEW hist \in Seq(Tokens), p < Len(hist), Right(f, start, p, hist)
  PROVE  Right(Ran(f, p, hist[p + 1]), start, p + 1, hist)
<1>1. PICK ctx : ctx = SubSeq(hist, 1, p + 1)
  OBVIOUS
<1>2. p \in Nat /\ ctx \in Seq(Tokens) /\ hist[p + 1] \in Tokens
  BY <1>1 DEF Positions
<1>3. f.rows \in KV /\ f.ctxs \in Seq(Seq(Tokens)) /\ Len(f.ctxs) = p - start
  BY DEF Right, Typed
<1>4. Mirrors(f.rows, p, hist) /\ \A j \in 1 .. p - start : f.ctxs[j] = SubSeq(hist, 1, start + j)
  BY DEF Right
<1>5. Context(f.rows, p, hist[p + 1]) = ctx
  BY <1>1, <1>3, <1>4, ContextIs
<1>6. Ran(f, p, hist[p + 1]) = [rows |-> Write(f.rows, p, ctx), ctxs |-> Append(f.ctxs, ctx)]
  BY <1>5 DEF Ran
<1>7. Held(Write(f.rows, p, ctx), p + 1, hist)
  BY <1>1, <1>3, <1>4, WriteHolds
<1>8. Mirrors(Write(f.rows, p, ctx), p + 1, hist)
  BY <1>2, <1>7, HeldMirrors
<1>9. Typed(Ran(f, p, hist[p + 1]), (p + 1) - start)
  <2>1. PICK i \in Nat : i = p - start
    BY <1>2
  <2>2. Typed(f, i)
    BY <2>1 DEF Right
  <2>3. Typed(Ran(f, p, hist[p + 1]), i + 1)
    BY <1>2, <2>2, RanTyped
  <2> QED BY <1>2, <2>1, <2>3
<1>10. \A j \in 1 .. (p + 1) - start : Append(f.ctxs, ctx)[j] = SubSeq(hist, 1, start + j)
  <2> SUFFICES ASSUME NEW j \in 1 .. (p + 1) - start
               PROVE  Append(f.ctxs, ctx)[j] = SubSeq(hist, 1, start + j)
    OBVIOUS
  <2>1. CASE j = (p + 1) - start
    <3>1. start + j = p + 1 /\ j = Len(f.ctxs) + 1
      BY <1>2, <1>3, <2>1
    <3>2. Append(f.ctxs, ctx)[j] = ctx
      BY <1>2, <1>3, <3>1
    <3> QED BY <1>1, <3>1, <3>2
  <2>2. CASE j # (p + 1) - start
    <3>1. j \in 1 .. p - start
      BY <1>2, <2>2
    <3>2. Append(f.ctxs, ctx)[j] = f.ctxs[j]
      BY <1>2, <1>3, <3>1
    <3> QED BY <1>4, <3>1, <3>2
  <2> QED BY <2>1, <2>2
<1>11. PICK g : g = Ran(f, p, hist[p + 1])
  OBVIOUS
<1>12. g.rows = Write(f.rows, p, ctx) /\ g.ctxs = Append(f.ctxs, ctx)
  BY <1>6, <1>11
<1>13. Right(g, start, p + 1, hist)
  BY <1>7, <1>8, <1>9, <1>10, <1>11, <1>12, Zenon DEF Right
<1> QED
  BY <1>11, <1>13

\* Over the rows of its history, each position computes from the whole history.
LEMMA FeedRight ==
  ASSUME setup \in Setups, NEW rows \in KV, NEW start \in Nat, NEW hist \in Seq(Tokens),
         NEW tokens \in Seq(Tokens), start + Len(tokens) = Len(hist), Len(hist) <= MaxCtx,
         \A i \in 1 .. Len(tokens) : tokens[i] = hist[start + i],
         Mirrors(rows, start, hist)
  PROVE  Right(Feed(rows, start, tokens), start, Len(hist), hist)
<1>1. PICK n \in Nat : n = Len(tokens)
  OBVIOUS
<1>a. MaxCtx \in Nat
  BY SetupFacts
<1>2. PICK F : Feed(rows, start, tokens) = F[n] /\ Runs(F, n, rows, start, tokens)
  BY <1>1, FeedRuns
<1> DEFINE T == {i \in 0 .. n : Right(F[i], start, start + i, hist)}
<1>3. 0 \in T
  <2>1. F[0].rows = rows /\ F[0].ctxs = <<>>
    BY <1>2 DEF Runs
  <2>2. start + 0 = start /\ start - start = 0 /\ ~(start > start) /\ 1 .. 0 = {}
    OBVIOUS
  <2>3. Typed(F[0], 0)
    BY <2>1 DEF Typed
  <2>4. Right(F[0], start, start, hist)
    BY <2>1, <2>2, <2>3 DEF Right
  <2> QED BY <1>1, <2>2, <2>4
<1>4. \A i \in 0 .. n - 1 : i \in T => i + 1 \in T
  <2> SUFFICES ASSUME NEW i \in 0 .. n - 1, i \in T PROVE i + 1 \in T
    OBVIOUS
  <2>1. PICK p \in Positions : p = start + i
    BY <1>1, <1>a DEF Positions
  <2>2. /\ i + 1 \in 1 .. n /\ p < Len(hist) /\ start <= p
        /\ p + 1 = start + (i + 1)
    BY <1>1, <2>1
  <2>3. tokens[i + 1] = hist[p + 1]
    BY <1>1, <2>2
  <2>4. F[i + 1] = Ran(F[i], p, hist[p + 1])
    BY <1>2, <2>1, <2>3 DEF Runs
  <2>5. Right(F[i], start, p, hist)
    BY <2>1
  <2>6. Right(F[i + 1], start, p + 1, hist)
    BY <2>2, <2>4, <2>5, RanRight
  <2> QED BY <2>2, <2>6
<1> HIDE DEF T
<1>5. n \in T
  <2>1. \A i \in 0 .. n : i \in T
    BY <1>1, <1>3, <1>4, UpTo, Zenon
  <2> QED BY <1>1, <2>1
<1> QED
  BY <1>1, <1>2, <1>5 DEF T
-----------------------------------------------------------------------------
(* What generate starts from.                                              *)

\* a and b begin with the same n tokens.
Agree(a, b, n) == n \in 0 .. Len(a) /\ n <= Len(b) /\ SubSeq(a, 1, n) = SubSeq(b, 1, n)

\* The common prefix of two conversations is a prefix of both.
LEMMA CommonIs ==
  ASSUME NEW S, NEW a \in Seq(S), NEW b \in Seq(S)
  PROVE  Agree(a, b, Len(LongestCommonPrefix({a, b})))
<1> DEFINE C == CommonPrefixes({a, b})
<1>1. \A c \in C : c \in Seq(S) /\ IsPrefix(c, a) /\ IsPrefix(c, b)
  BY DEF CommonPrefixes, Prefixes
<1>2. <<>> \in C
  <2>1. SubSeq(a, 1, 0) = <<>> /\ 0 \in 0 .. Len(a)
    OBVIOUS
  <2>2. <<>> \in Prefixes(a)
    BY <2>1 DEF Prefixes
  <2>3. \A t \in {a, b} : IsPrefix(<<>>, t)
    BY DEF IsPrefix
  <2> QED BY <2>2, <2>3 DEF CommonPrefixes
<1> HIDE DEF C
<1>3. \A c \in C : Len(c) \in Nat /\ Len(c) <= Len(a)
  BY <1>1 DEF IsPrefix
<1> DEFINE lens == {Len(c) : c \in C}
<1>4. lens \in SUBSET Nat /\ lens # {} /\ Len(a) \in Nat /\ \A x \in lens : x <= Len(a)
  <2>1. Len(<<>>) \in lens
    BY <1>2
  <2>2. \A x \in lens : x \in Nat /\ x <= Len(a)
    BY <1>3
  <2>3. Len(a) \in Nat
    OBVIOUS
  <2> HIDE DEF lens
  <2> QED BY <2>1, <2>2, <2>3
<1>5. Max(lens) \in lens /\ \A x \in lens : x <= Max(lens)
  <2> HIDE DEF lens
  <2> QED BY <1>4, MaxOf
<1>6. \E c \in C : \A d \in C : Len(d) <= Len(c)
  BY <1>5
<1>7. LongestCommonPrefix({a, b}) \in C
  BY <1>6, Zenon DEF LongestCommonPrefix, C
<1>8. PICK c \in C : c = LongestCommonPrefix({a, b})
  BY <1>7
<1>9. /\ c \in Seq(S) /\ Len(c) <= Len(a) /\ Len(c) <= Len(b)
      /\ SubSeq(c, 1, Len(c)) = SubSeq(a, 1, Len(c))
      /\ SubSeq(c, 1, Len(c)) = SubSeq(b, 1, Len(c))
  BY <1>1, Zenon DEF IsPrefix
<1>10. Len(c) \in Nat
  BY <1>9
<1>11. Len(c) \in 0 .. Len(a) /\ SubSeq(a, 1, Len(c)) = SubSeq(b, 1, Len(c))
  BY <1>9, <1>10
<1>12. Agree(a, b, Len(c))
  BY <1>9, <1>11, Zenon DEF Agree
<1> QED
  BY <1>8, <1>12, Zenon

\* What the cache holds of a prompt, it holds from the start on.
LEMMA HeldLengthIs ==
  ASSUME NEW S, NEW held, NEW prompt \in Seq(S)
  PROVE  /\ HeldLength(held, prompt) \in 0 .. Len(prompt)
         /\ \A k \in 1 .. HeldLength(held, prompt) : SubSeq(prompt, 1, k) \in DOMAIN held
<1> DEFINE ends == {n \in 0 .. Len(prompt) :
                      n < Len(prompt) => SubSeq(prompt, 1, n + 1) \notin DOMAIN held}
<1>1. Len(prompt) \in ends /\ ends \in SUBSET Nat
  OBVIOUS
<1>2. PICK n \in ends : \A j \in ends : n <= j
  BY <1>1, LeastOf
<1>3. \A k \in 1 .. n : SubSeq(prompt, 1, k) \in DOMAIN held
  <2> SUFFICES ASSUME NEW k \in 1 .. n PROVE SubSeq(prompt, 1, k) \in DOMAIN held
    OBVIOUS
  <2>1. k - 1 \notin ends /\ k - 1 \in 0 .. Len(prompt) /\ (k - 1) + 1 = k
    BY <1>2
  <2> QED BY <2>1
<1>4. \A m \in 0 .. Len(prompt) :
        Stems(SubSeq(prompt, 1, m)) = {SubSeq(prompt, 1, k) : k \in 1 .. m}
  <2> SUFFICES ASSUME NEW m \in 0 .. Len(prompt)
               PROVE  Stems(SubSeq(prompt, 1, m)) = {SubSeq(prompt, 1, k) : k \in 1 .. m}
    OBVIOUS
  <2>1. PICK p : p = SubSeq(prompt, 1, m)
    OBVIOUS
  <2>2. p \in Seq(S) /\ Len(p) = m /\ \A k \in 0 .. m : SubSeq(p, 1, k) = SubSeq(prompt, 1, k)
    BY <2>1, PrefixOfPrefix
  <2>3. \A k \in 0 .. m : SubSeq(p, 1, k) = <<>> <=> k = 0
    BY <2>2
  <2> QED BY <2>1, <2>2, <2>3 DEF Stems, Prefixes
<1> DEFINE Fit(m) == /\ Stems(SubSeq(prompt, 1, m)) \subseteq DOMAIN held
                     /\ m < Len(prompt) => SubSeq(prompt, 1, m + 1) \notin DOMAIN held
<1>5. n \in 0 .. Len(prompt) /\ Fit(n)
  <2>1. n \in 0 .. Len(prompt)
    BY <1>2
  <2>2. Stems(SubSeq(prompt, 1, n)) \subseteq DOMAIN held
    <3>1. Stems(SubSeq(prompt, 1, n)) = {SubSeq(prompt, 1, k) : k \in 1 .. n}
      BY <1>4, <2>1, Zenon
    <3> QED BY <1>3, <3>1, Zenon
  <2>3. n < Len(prompt) => SubSeq(prompt, 1, n + 1) \notin DOMAIN held
    BY <1>2, Zenon
  <2> QED BY <2>1, <2>2, <2>3
<1>6. PICK h \in 0 .. Len(prompt) : h = HeldLength(held, prompt) /\ Fit(h)
  BY <1>5, Zenon DEF HeldLength
<1> QED BY <1>4, <1>6

\* The prefixes of a conversation but the empty one.
LEMMA StemsIs ==
  ASSUME NEW S, NEW tokens \in Seq(S), NEW s \in Stems(tokens)
  PROVE  /\ s \in Seq(S) /\ s # <<>> /\ Len(s) \in 1 .. Len(tokens)
         /\ s = SubSeq(tokens, 1, Len(s))
<1>1. PICK k \in 0 .. Len(tokens) : s = SubSeq(tokens, 1, k)
  BY DEF Stems, Prefixes
<1>2. s # <<>>
  BY DEF Stems
<1> QED BY <1>1, <1>2

\* A draft is tokens of the conversation, and at most as many as asked for.
LEMMA DraftIs ==
  ASSUME NEW context \in Seq(Tokens), NEW maxDraft \in Nat
  PROVE  Draft(context, maxDraft) \in Seq(Tokens) /\ Len(Draft(context, maxDraft)) <= maxDraft
<1> DEFINE grams == {n \in MinNgram .. Min({MaxNgram, Len(context) - 1}) : Matches(context, n) # {}}
           from  == Max(Matches(context, Max(grams))) + Max(grams)
           last  == Min({from + maxDraft, Len(context)})
<1>1. Len(context) \in Nat /\ MinNgram \in Nat /\ MaxNgram \in Nat
  BY RuntimeAssumption
<1>2. CASE grams = {}
  <2>1. Draft(context, maxDraft) = <<>>
    BY <1>2, Zenon DEF Draft
  <2> QED BY <2>1
<1>3. CASE grams # {}
  <2>1. Min({MaxNgram, Len(context) - 1}) \in Int /\ Min({MaxNgram, Len(context) - 1}) <= MaxNgram
    <3>1. Len(context) - 1 \in Int
      BY <1>1
    <3>2. Min({MaxNgram, Len(context) - 1})
            = IF MaxNgram <= Len(context) - 1 THEN MaxNgram ELSE Len(context) - 1
      BY <1>1, <3>1, MinOf
    <3> QED BY <1>1, <3>2
  <2>2. PICK n \in grams : n = Max(grams)
    <3>1. \A x \in grams : x \in Nat /\ x <= MaxNgram
      BY <1>1, <2>1
    <3> HIDE DEF grams
    <3>2. grams \in SUBSET Nat
      BY <3>1
    <3> QED BY <1>1, <1>3, <3>1, <3>2, MaxOf
  <2>3. n \in Nat /\ Matches(context, n) # {}
    <3>1. \A x \in grams : x \in Nat /\ Matches(context, x) # {}
      BY <1>1, <2>1
    <3> QED BY <3>1, Zenon
  <2>4. PICK m \in Matches(context, n) : m = Max(Matches(context, n))
    <3>1. \A x \in Matches(context, n) : x \in Nat /\ x <= Len(context)
      BY <1>1, <2>3 DEF Matches
    <3>2. Matches(context, n) \in SUBSET Nat
      BY <3>1
    <3> QED BY <1>1, <2>3, <3>1, <3>2, MaxOf
  <2>5. m \in Nat
    <3>1. \A x \in Matches(context, n) : x \in Nat
      BY <1>1, <2>3 DEF Matches
    <3> QED BY <3>1
  <2>6. PICK k \in Nat : k = m + n
    BY <2>3, <2>5
  <2>7. from = k
    BY <2>2, <2>4, <2>6
  <2>8. PICK l \in Int : /\ l = Min({k + maxDraft, Len(context)})
                         /\ l <= k + maxDraft /\ l <= Len(context)
    <3>1. k + maxDraft \in Int
      BY <2>6
    <3>2. Min({k + maxDraft, Len(context)})
            = IF k + maxDraft <= Len(context) THEN k + maxDraft ELSE Len(context)
      BY <1>1, <3>1, MinOf
    <3> QED BY <1>1, <3>1, <3>2
  <2>9. Draft(context, maxDraft) = SubSeq(context, k + 1, l)
    <3>1. Draft(context, maxDraft) = SubSeq(context, from + 1, last)
      BY <1>3, Zenon DEF Draft
    <3> QED BY <2>7, <2>8, <3>1, Zenon
  <2>10. PICK d : d = SubSeq(context, k + 1, l)
    OBVIOUS
  <2>11. d \in Seq(Tokens) /\ Len(d) = IF k < l THEN l - k ELSE 0
    BY <2>8, <2>10, PieceOf
  <2>12. Len(d) <= maxDraft
    BY <2>8, <2>11
  <2> QED BY <2>9, <2>10, <2>11, <2>12
<1> QED BY <1>2, <1>3

\* What is looked up fits the context and the call.
LEMMA DraftNowIs ==
  ASSUME setup \in Setups, committed \in Seq(Tokens), next \in Tokens, left \in Nat, left > 0,
         pos \in Nat
  PROVE  /\ DraftNow \in Seq(Tokens)
         /\ DraftNow # <<>> => /\ setup.drafts > 0
                               /\ pos + Len(DraftNow) < MaxCtx
                               /\ Len(DraftNow) < left
<1>1. setup.drafts \in Nat /\ MaxCtx \in Nat
  BY SetupFacts
<1>2. CASE setup.drafts > 0 /\ left - 1 > 0 /\ pos + setup.drafts < MaxCtx
  <2>1. PICK m \in Nat : m = Min({setup.drafts, left - 1}) /\ m <= setup.drafts /\ m <= left - 1
    <3>1. Min({setup.drafts, left - 1})
            = IF setup.drafts <= left - 1 THEN setup.drafts ELSE left - 1
      BY <1>1, MinOf
    <3> QED BY <1>1, <1>2, <3>1
  <2>2. History \in Seq(Tokens)
    BY DEF History
  <2>3. DraftNow = Draft(History, m)
    BY <1>2, <2>1 DEF DraftNow
  <2>4. DraftNow \in Seq(Tokens) /\ Len(DraftNow) <= m /\ Len(DraftNow) \in Nat
    BY <2>1, <2>2, <2>3, DraftIs
  <2> QED BY <1>1, <1>2, <2>1, <2>4
<1>3. CASE ~(setup.drafts > 0 /\ left - 1 > 0 /\ pos + setup.drafts < MaxCtx)
  <2>1. DraftNow = <<>>
    BY <1>3, Zenon DEF DraftNow
  <2> QED BY <2>1
<1> QED BY <1>2, <1>3

-----------------------------------------------------------------------------
(* The inductive invariant.                                                *)

\* Types, the session file and the semantic cache apart.
Types ==
  /\ setup \in Setups
  /\ pos \in Nat
  /\ committed \in Seq(Tokens)
  /\ kv \in KV
  /\ pc \in {"idle", "decode"}
  /\ next \in Tokens \cup {NoToken}
  /\ basis \in Seq(Tokens)
  /\ left \in 0 .. MaxNew
  /\ broken \in BOOLEAN
  /\ turns \in 0 .. MaxTurns

\* The committed tokens are those of the cache, every row that is still there.
RowsRight == ~broken => Len(committed) = pos /\ pos <= MaxCtx /\ Held(kv, pos, committed)

\* What the semantic cache holds are rows of the prefix they are held for.
StoreRight ==
  /\ setup.cache = 0 => DOMAIN store = {}
  /\ \A s \in DOMAIN store : s \in Seq(Tokens) /\ s # <<>> /\ Len(s) <= MaxCtx /\ store[s] = s

\* What is reused of the cache is a common prefix, shorter than the prompt, that a
\* ring allows to rewind to (src/src/runtime.cpp:241-257).
LEMMA ReusedIs ==
  ASSUME committed \in Seq(Tokens), NEW prompt \in Seq(Tokens)
  PROVE  /\ Agree(prompt, committed, Reused(prompt))
         /\ prompt # <<>> => Reused(prompt) < Len(prompt)
         /\ Reused(prompt) = 0 \/ CanRewind(Reused(prompt), Len(committed))
<1>1. PICK n : n = Len(LongestCommonPrefix({prompt, committed})) /\ Agree(prompt, committed, n)
  BY CommonIs
<1>2. PICK r : r = IF n = Len(prompt) /\ n > 0 THEN n - 1 ELSE n
  OBVIOUS
<1>3. /\ n \in 0 .. Len(prompt) /\ n <= Len(committed)
      /\ SubSeq(prompt, 1, n) = SubSeq(committed, 1, n)
  BY <1>1 DEF Agree
<1>4. /\ r \in 0 .. n /\ r <= Len(committed)
      /\ prompt # <<>> => r < Len(prompt)
  BY <1>2, <1>3
<1>5. \A k \in 0 .. n : SubSeq(prompt, 1, k) = SubSeq(committed, 1, k)
  <2> SUFFICES ASSUME NEW k \in 0 .. n PROVE SubSeq(prompt, 1, k) = SubSeq(committed, 1, k)
    OBVIOUS
  <2>1. SubSeq(SubSeq(prompt, 1, n), 1, k) = SubSeq(prompt, 1, k)
    BY <1>3, PrefixOfPrefix
  <2>2. SubSeq(SubSeq(committed, 1, n), 1, k) = SubSeq(committed, 1, k)
    BY <1>3, PrefixOfPrefix
  <2> QED BY <1>3, <2>1, <2>2
<1>6. Agree(prompt, committed, r) /\ Agree(prompt, committed, 0)
  <2>1. r \in 0 .. Len(prompt) /\ 0 \in 0 .. Len(prompt) /\ 0 <= Len(committed) /\ 0 \in 0 .. n
    BY <1>3, <1>4
  <2> QED BY <1>4, <1>5, <2>1 DEF Agree
<1>7. Reused(prompt) = IF CanRewind(r, Len(committed)) THEN r ELSE 0
  BY <1>1, <1>2, Zenon DEF Reused
<1>8. prompt # <<>> => 0 < Len(prompt)
  OBVIOUS
<1> QED BY <1>4, <1>6, <1>7, <1>8

\* How much of a prompt the semantic cache supplies.
LEMMA HitIs ==
  ASSUME setup \in Setups, committed \in Seq(Tokens), StoreRight,
         NEW prompt \in Seq(Tokens), NEW reuse \in BOOLEAN
  PROVE  /\ Rewound(prompt, reuse) \in Nat
         /\ prompt # <<>> => Rewound(prompt, reuse) < Len(prompt)
         /\ prompt = <<>> => Rewound(prompt, reuse) = 0
         /\ Hit(prompt, reuse) \in Nat
         /\ Hit(prompt, reuse) > 0 =>
              /\ Hit(prompt, reuse) < Len(prompt) /\ Hit(prompt, reuse) <= MaxCtx
              /\ Rewound(prompt, reuse) < Hit(prompt, reuse)
              /\ setup.cache > 0 /\ Window = 0
              /\ \A k \in 1 .. Hit(prompt, reuse) :
                   SubSeq(prompt, 1, k) \in DOMAIN store
                   /\ store[SubSeq(prompt, 1, k)] = SubSeq(prompt, 1, k)
<1>1. PICK w \in Nat : /\ w = Rewound(prompt, reuse)
                       /\ prompt # <<>> => w < Len(prompt)
                       /\ prompt = <<>> => w = 0
  <2>1. Reused(prompt) \in 0 .. Len(prompt) /\ (prompt # <<>> => Reused(prompt) < Len(prompt))
    BY ReusedIs DEF Agree
  <2>2. prompt = <<>> => Len(prompt) = 0
    OBVIOUS
  <2>3. prompt # <<>> => 0 < Len(prompt)
    OBVIOUS
  <2> QED BY <2>1, <2>2, <2>3 DEF Rewound
<1>2. PICK h \in 0 .. Len(prompt) : /\ h = HeldLength(store, prompt)
                                    /\ \A k \in 1 .. h : SubSeq(prompt, 1, k) \in DOMAIN store
  BY HeldLengthIs
<1>3. PICK m \in Int : m = Min({h, Len(prompt) - 1}) /\ m <= h /\ m < Len(prompt)
  <2>1. Len(prompt) - 1 \in Int /\ h \in Int /\ Len(prompt) \in Nat
    OBVIOUS
  <2>2. Min({h, Len(prompt) - 1}) = IF h <= Len(prompt) - 1 THEN h ELSE Len(prompt) - 1
    BY <2>1, MinOf
  <2> QED BY <2>1, <2>2
<1>4. Hit(prompt, reuse) = IF m > w THEN m ELSE 0
  BY <1>1, <1>2, <1>3, Zenon DEF Hit
<1>5. ASSUME m > w
      PROVE  /\ m \in Nat /\ m <= MaxCtx /\ setup.cache > 0 /\ Window = 0
             /\ \A k \in 1 .. m : /\ SubSeq(prompt, 1, k) \in DOMAIN store
                                  /\ store[SubSeq(prompt, 1, k)] = SubSeq(prompt, 1, k)
  <2>1. m \in Nat \ {0} /\ m \in 1 .. h
    BY <1>3, <1>5
  <2>2. \A k \in 1 .. m : SubSeq(prompt, 1, k) \in DOMAIN store
    BY <1>2, <1>3
  <2>3. \A k \in 1 .. m : store[SubSeq(prompt, 1, k)] = SubSeq(prompt, 1, k)
    BY <2>2, Zenon DEF StoreRight
  <2>4. SubSeq(prompt, 1, m) \in DOMAIN store /\ Len(SubSeq(prompt, 1, m)) = m
    BY <1>2, <2>1, PrefixOfPrefix
  <2>5. m <= MaxCtx
    BY <2>4 DEF StoreRight
  <2>6. setup.cache # 0
    BY <2>4 DEF StoreRight
  <2> QED BY <2>1, <2>2, <2>3, <2>5, <2>6, SetupFacts
<1> QED
  <2>1. CASE m > w
    BY <1>1, <1>3, <1>4, <1>5, <2>1
  <2>2. CASE ~(m > w)
    BY <1>1, <1>4, <2>2
  <2> QED BY <2>1, <2>2

\* Rewound to k positions, the cache holds the rows of that prefix: all of them
\* unless a ring has let go of some, those attended to if it may be rewound.
LEMMA HeldPrefix ==
  ASSUME setup \in Setups, NEW rows, NEW hist \in Seq(Tokens), NEW n \in Nat, n = Len(hist),
         Held(rows, n, hist), NEW k \in 0 .. n
  PROVE  /\ Window = 0 \/ n <= Window \/ k = 0 \/ k = n => Held(rows, k, SubSeq(hist, 1, k))
         /\ k = 0 \/ CanRewind(k, n) => Mirrors(rows, k, SubSeq(hist, 1, k))
<1>1. Window \in Nat
  BY SetupFacts
<1>2. PICK h : h = SubSeq(hist, 1, k)
  OBVIOUS
<1>3. \A t \in 0 .. k - 1 : SubSeq(h, 1, t + 1) = SubSeq(hist, 1, t + 1)
  <2> SUFFICES ASSUME NEW t \in 0 .. k - 1
               PROVE  SubSeq(h, 1, t + 1) = SubSeq(hist, 1, t + 1)
    OBVIOUS
  <2>1. t + 1 \in 0 .. k /\ k \in 0 .. Len(hist)
    OBVIOUS
  <2> QED BY <1>2, <2>1, PrefixOfPrefix
<1>4. \A t \in 0 .. k - 1 : rows.full[t] = SubSeq(h, 1, t + 1)
  <2>1. \A t \in 0 .. k - 1 : t \in 0 .. n - 1
    OBVIOUS
  <2> QED BY <1>3, <2>1 DEF Held
<1>5. ASSUME Window > 0, NEW t \in Nat, t < k, FirstValid(n) <= t
      PROVE  rows.ring[t % Window] = SubSeq(h, 1, t + 1)
  <2>1. t \in FirstValid(n) .. n - 1 /\ t \in 0 .. k - 1
    BY <1>1, <1>5 DEF FirstValid
  <2> QED BY <1>3, <1>5, <2>1 DEF Held
<1>6. ASSUME Window = 0 \/ n <= Window \/ k = 0 \/ k = n PROVE Held(rows, k, h)
  <2>1. ASSUME Window > 0, NEW t \in FirstValid(k) .. k - 1
        PROVE  rows.ring[t % Window] = SubSeq(h, 1, t + 1)
    <3>1. t \in Nat /\ t < k /\ FirstValid(n) <= t
      BY <1>1, <1>6, <2>1 DEF FirstValid
    <3> QED BY <1>5, <2>1, <3>1
  <2> QED BY <1>4, <2>1 DEF Held
<1>7. ASSUME k = 0 \/ CanRewind(k, n) PROVE Mirrors(rows, k, h)
  <2>1. ASSUME Window > 0, NEW t \in Oldest(k) .. k - 1
        PROVE  rows.ring[t % Window] = SubSeq(h, 1, t + 1)
    <3>1. t \in Nat /\ t < k /\ FirstValid(n) <= t
      BY <1>1, <1>7, <2>1 DEF FirstValid, Oldest, CanRewind
    <3> QED BY <1>5, <2>1, <3>1
  <2> QED BY <1>4, <2>1 DEF Mirrors
<1> QED BY <1>2, <1>6, <1>7

\* The injected rows are those of the hit, all others are left as they were
\* (src/include/llm/kv_cache.h:166).
LEMMA InjectedIs ==
  ASSUME setup \in Setups, committed \in Seq(Tokens), kv \in KV, StoreRight,
         NEW prompt \in Seq(Tokens), NEW reuse \in BOOLEAN
  PROVE  /\ Injected(prompt, reuse) \in KV
         /\ Hit(prompt, reuse) = 0 => Injected(prompt, reuse) = kv
         /\ \A p \in 0 .. Hit(prompt, reuse) - 1 :
              Injected(prompt, reuse).full[p] = SubSeq(prompt, 1, p + 1)
<1>1. PICK h \in Nat : h = Hit(prompt, reuse)
  BY HitIs
<1>2. MaxCtx \in Nat /\ h < MaxCtx + 1
  BY <1>1, HitIs, SetupFacts
<1>3. \A k \in 1 .. h : SubSeq(prompt, 1, k) \in Seq(Tokens)
                       /\ store[SubSeq(prompt, 1, k)] = SubSeq(prompt, 1, k)
  <2>1. h > 0 => /\ h < Len(prompt)
                 /\ \A k \in 1 .. h : store[SubSeq(prompt, 1, k)] = SubSeq(prompt, 1, k)
    BY <1>1, HitIs
  <2> SUFFICES ASSUME NEW k \in 1 .. h
               PROVE  /\ SubSeq(prompt, 1, k) \in Seq(Tokens)
                      /\ store[SubSeq(prompt, 1, k)] = SubSeq(prompt, 1, k)
    OBVIOUS
  <2>2. SubSeq(prompt, 1, k) \in Seq(Tokens)
    BY <2>1
  <2> QED BY <2>1, <2>2
<1>4. PICK full : full = [p \in Positions |-> IF p < h THEN store[SubSeq(prompt, 1, p + 1)]
                                              ELSE kv.full[p]]
  OBVIOUS
<1>5. /\ kv = [full |-> kv.full, ring |-> kv.ring]
      /\ kv.full \in [Positions -> Seq(Tokens)] /\ kv.ring \in [0 .. MaxCtx - 1 -> Seq(Tokens)]
  BY DEF KV
<1>6. Injected(prompt, reuse) = [full |-> full, ring |-> kv.ring]
  <2>1. Injected(prompt, reuse) = [kv EXCEPT !.full = full]
    BY <1>1, <1>4, Zenon DEF Injected
  <2>2. kv \in [full : [Positions -> Seq(Tokens)], ring : [0 .. MaxCtx - 1 -> Seq(Tokens)]]
    BY DEF KV
  <2>3. [kv EXCEPT !.full = full] = [full |-> full, ring |-> kv.ring]
    BY <2>2
  <2> QED BY <2>1, <2>3
<1>7. ASSUME NEW p \in Positions
      PROVE  /\ full[p] \in Seq(Tokens)
             /\ p < h => full[p] = SubSeq(prompt, 1, p + 1)
             /\ ~(p < h) => full[p] = kv.full[p]
  <2>1. CASE p < h
    <3>1. p + 1 \in 1 .. h
      BY <2>1 DEF Positions
    <3> QED BY <1>3, <1>4, <2>1, <3>1
  <2>2. CASE ~(p < h)
    BY <1>4, <1>5, <2>2
  <2> QED BY <2>1, <2>2
<1>8. full = [p \in Positions |-> full[p]] /\ kv.full = [p \in Positions |-> kv.full[p]]
  BY <1>4, <1>5
<1>9. Injected(prompt, reuse) \in KV
  <2>1. full \in [Positions -> Seq(Tokens)]
    BY <1>7, <1>8
  <2> QED BY <1>5, <1>6, <2>1 DEF KV
<1>10. h = 0 => Injected(prompt, reuse) = kv
  <2>1. h = 0 => \A p \in Positions : full[p] = kv.full[p]
    BY <1>7 DEF Positions
  <2>2. h = 0 => full = kv.full
    BY <1>8, <2>1
  <2> QED BY <1>5, <1>6, <2>2
<1>11. \A p \in 0 .. h - 1 : full[p] = SubSeq(prompt, 1, p + 1)
  <2>1. \A p \in 0 .. h - 1 : p \in Positions /\ p < h
    BY <1>2 DEF Positions
  <2> QED BY <1>7, <2>1
<1> QED BY <1>1, <1>6, <1>9, <1>10, <1>11

\* What a call starts from, whatever failed before.
LEMMA StartIs ==
  ASSUME Types, StoreRight, NEW prompt \in Seq(Tokens), NEW reuse \in BOOLEAN
  PROVE  /\ Start(prompt, reuse) \in Nat
         /\ Kept(prompt, reuse) \in Seq(Tokens)
         /\ Delta(prompt, reuse) \in Seq(Tokens)
         /\ Delta(prompt, reuse) = <<>> => prompt = <<>>
         /\ Injected(prompt, reuse) \in KV
<1>1. setup \in Setups /\ committed \in Seq(Tokens) /\ kv \in KV /\ pos \in Nat
  BY DEF Types
<1>2. PICK h \in Nat : /\ h = Hit(prompt, reuse)
                       /\ h > 0 => h < Len(prompt)
  BY <1>1, HitIs
<1>3. PICK w \in Nat : /\ w = Rewound(prompt, reuse)
                       /\ prompt # <<>> => w < Len(prompt)
  BY <1>1, HitIs
<1>4. Reused(prompt) \in Nat /\ Reused(prompt) <= Len(committed)
  BY <1>1, ReusedIs DEF Agree
<1>5. Start(prompt, reuse) \in Nat
  BY <1>1, <1>2, <1>4, Zenon DEF Start
<1>6. Kept(prompt, reuse) \in Seq(Tokens)
  <2>1. h > 0 => SubSeq(prompt, 1, h) \in Seq(Tokens)
    BY <1>2
  <2>2. SubSeq(committed, 1, Reused(prompt)) \in Seq(Tokens)
    BY <1>1, <1>4
  <2> QED BY <1>1, <1>2, <2>1, <2>2, Zenon DEF Kept
<1>7. PICK f \in Nat : f = Max({h, w}) /\ (prompt # <<>> => f < Len(prompt))
  <2>1. {h, w} \in SUBSET Nat /\ {h, w} # {} /\ h + w \in Nat /\ \A x \in {h, w} : x <= h + w
    OBVIOUS
  <2>2. Max({h, w}) \in {h, w}
    BY <2>1, MaxOf
  <2>3. prompt # <<>> => 0 < Len(prompt)
    OBVIOUS
  <2> QED BY <1>2, <1>3, <2>2, <2>3
<1>8. PICK d : d = SubSeq(prompt, f + 1, Len(prompt))
  OBVIOUS
<1>9. d = Delta(prompt, reuse)
  BY <1>2, <1>3, <1>7, <1>8, Zenon DEF Delta
<1>10. d \in Seq(Tokens) /\ Len(d) = IF f < Len(prompt) THEN Len(prompt) - f ELSE 0
  BY <1>8, PieceOf
<1>11. d = <<>> => prompt = <<>>
  BY <1>7, <1>10
<1>12. Injected(prompt, reuse) \in KV
  BY <1>1, InjectedIs
<1> QED BY <1>5, <1>6, <1>9, <1>10, <1>11, <1>12

\* While no call has failed, it is the rows of a conversation as long as the
\* position it starts at.
LEMMA StartRight ==
  ASSUME Types, StoreRight, RowsRight, ~broken, NEW prompt \in Seq(Tokens), NEW reuse \in BOOLEAN
  PROVE  /\ Len(Kept(prompt, reuse)) = Start(prompt, reuse) /\ Start(prompt, reuse) <= MaxCtx
         /\ Mirrors(Injected(prompt, reuse), Start(prompt, reuse), Kept(prompt, reuse))
         /\ ~LosesRows(prompt, reuse) =>
              Held(Injected(prompt, reuse), Start(prompt, reuse), Kept(prompt, reuse))
<1>1. /\ setup \in Setups /\ committed \in Seq(Tokens) /\ kv \in KV /\ pos \in Nat
      /\ pos = Len(committed) /\ pos <= MaxCtx /\ Held(kv, pos, committed)
      /\ Window \in Nat
  BY SetupFacts DEF Types, RowsRight
<1>2. PICK h \in Nat : /\ h = Hit(prompt, reuse)
                       /\ h > 0 => h < Len(prompt) /\ h <= MaxCtx /\ Window = 0
  BY <1>1, HitIs
<1>3. PICK rows : /\ rows = Injected(prompt, reuse)
                  /\ h = 0 => rows = kv
                  /\ \A p \in 0 .. h - 1 : rows.full[p] = SubSeq(prompt, 1, p + 1)
  BY <1>1, <1>2, InjectedIs
<1>4. CASE h > 0
  <2>1. Start(prompt, reuse) = h /\ Kept(prompt, reuse) = SubSeq(prompt, 1, h)
    BY <1>2, <1>4 DEF Start, Kept
  <2>2. PICK k : k = SubSeq(prompt, 1, h)
    OBVIOUS
  <2>3. Len(k) = h /\ \A p \in 0 .. h - 1 : SubSeq(k, 1, p + 1) = SubSeq(prompt, 1, p + 1)
    <3>1. h \in 0 .. Len(prompt)
      BY <1>2, <1>4
    <3>2. ASSUME NEW p \in 0 .. h - 1 PROVE SubSeq(k, 1, p + 1) = SubSeq(prompt, 1, p + 1)
      <4>1. p + 1 \in 0 .. h
        OBVIOUS
      <4> QED BY <2>2, <3>1, <4>1, PrefixOfPrefix
    <3> QED BY <2>2, <3>1, <3>2, PrefixOfPrefix
  <2>4. Held(rows, h, k)
    BY <1>2, <1>3, <1>4, <2>3 DEF Held
  <2>5. Mirrors(rows, h, k)
    BY <1>1, <2>4, HeldMirrors
  <2> QED BY <1>2, <1>3, <1>4, <2>1, <2>2, <2>3, <2>4, <2>5
<1>5. CASE h = 0 /\ reuse
  <2>1. PICK r \in 0 .. pos : r = Reused(prompt) /\ (r = 0 \/ CanRewind(r, pos))
    <3>1. Agree(prompt, committed, Reused(prompt))
          /\ (Reused(prompt) = 0 \/ CanRewind(Reused(prompt), pos))
      BY <1>1, ReusedIs
    <3> QED BY <1>1, <3>1 DEF Agree
  <2>2. Start(prompt, reuse) = r /\ Kept(prompt, reuse) = SubSeq(committed, 1, r)
    <3>1. ~(h > 0)
      BY <1>5
    <3>2. ~(Hit(prompt, reuse) > 0)
      BY <1>2, <3>1, Zenon
    <3> QED BY <1>5, <2>1, <3>2, Zenon DEF Start, Kept
  <2>3. Len(SubSeq(committed, 1, r)) = r
    BY <1>1
  <2>4. Mirrors(kv, r, SubSeq(committed, 1, r))
    BY <1>1, <2>1, HeldPrefix
  <2>5. ~LosesRows(prompt, reuse) => Window = 0 \/ pos <= Window \/ r = 0 \/ r = pos
    BY <1>1, <2>1, <2>2 DEF LosesRows
  <2>6. ~LosesRows(prompt, reuse) => Held(kv, r, SubSeq(committed, 1, r))
    BY <1>1, <2>5, HeldPrefix
  <2>7. rows = kv
    BY <1>3, <1>5
  <2>8. r <= MaxCtx
    BY <1>1, <2>1, SetupFacts
  <2> QED BY <1>3, <2>2, <2>3, <2>4, <2>6, <2>7, <2>8, Zenon
<1>6. CASE h = 0 /\ ~reuse
  <2>1. Start(prompt, reuse) = pos /\ Kept(prompt, reuse) = committed /\ rows = kv
    BY <1>2, <1>3, <1>6 DEF Start, Kept
  <2>2. Mirrors(kv, pos, committed)
    BY <1>1, HeldMirrors
  <2> QED BY <1>1, <1>3, <2>1, <2>2
<1> QED BY <1>4, <1>5, <1>6

\* A conversation that goes on begins with the same rows.
LEMMA MirrorsLonger ==
  ASSUME setup \in Setups, NEW rows, NEW hist \in Seq(Tokens), NEW more \in Seq(Tokens),
         NEW n \in Nat, n = Len(hist), Mirrors(rows, n, hist)
  PROVE  Mirrors(rows, n, hist \o more)
<1>1. \A t \in 0 .. n - 1 : SubSeq(hist \o more, 1, t + 1) = SubSeq(hist, 1, t + 1)
  OBVIOUS
<1>2. PICK h : h = hist \o more
  OBVIOUS
<1>3. Window \in Nat /\ (Window > 0 => \A t \in Oldest(n) .. n - 1 : t \in 0 .. n - 1)
  BY SetupFacts DEF Oldest
<1>4. Mirrors(rows, n, h)
  BY <1>1, <1>2, <1>3 DEF Mirrors
<1> QED BY <1>2, <1>4

\* What a torn pass leaves are rows, and those before it are what they were.
LEMMA TornIs ==
  ASSUME setup \in Setups, NEW rows \in KV, NEW start \in Nat, NEW n \in Nat,
         NEW torn \in Torn(rows, start, n)
  PROVE  /\ torn \in KV
         /\ \A p \in Positions : p < start => torn.full[p] = rows.full[p]
<1> DEFINE hit == {p \in Positions : start <= p /\ p < start + n}
           full == [p \in Positions |-> IF p \in hit THEN Junk ELSE rows.full[p]]
           ring == [i \in DOMAIN rows.ring |->
                 IF Window > 0 /\ (\E p \in hit : p % Window = i) THEN Junk ELSE rows.ring[i]]
<1>1. PICK f \in {rows.full, full}, r \in {rows.ring, ring} : torn = [full |-> f, ring |-> r]
  BY DEF Torn
<1>2. rows.full \in [Positions -> Seq(Tokens)] /\ rows.ring \in [0 .. MaxCtx - 1 -> Seq(Tokens)]
      /\ Junk \in Seq(Tokens)
  BY DEF KV, Junk
<1>3. full \in [Positions -> Seq(Tokens)] /\ ring \in [0 .. MaxCtx - 1 -> Seq(Tokens)]
  <2>1. full \in [Positions -> Seq(Tokens)]
    <3> HIDE DEF hit
    <3> QED BY <1>2
  <2>2. ring \in [0 .. MaxCtx - 1 -> Seq(Tokens)]
    <3> HIDE DEF hit
    <3>1. DOMAIN rows.ring = 0 .. MaxCtx - 1
      BY <1>2
    <3> DEFINE Lost(i) == Window > 0 /\ (\E p \in hit : p % Window = i)
    <3>2. ring = [i \in 0 .. MaxCtx - 1 |-> IF Lost(i) THEN Junk ELSE rows.ring[i]]
      BY <3>1
    <3> HIDE DEF Lost, ring
    <3> QED BY <1>2, <3>2
  <2> QED BY <2>1, <2>2
<1>4. \A p \in Positions : p < start => full[p] = rows.full[p]
  BY DEF Positions
<1> HIDE DEF full, ring
<1>5. torn \in KV
  BY <1>1, <1>2, <1>3 DEF KV
<1> QED BY <1>1, <1>4, <1>5

\* What the semantic cache is given at the end of a call it may keep.
LEMMA RemembersRight ==
  ASSUME setup \in Setups, setup' = setup, StoreRight, NEW tokens, NEW rows,
         setup.cache > 0 => /\ tokens \in Seq(Tokens) /\ Len(tokens) <= MaxCtx
                            /\ \A t \in 0 .. Len(tokens) - 1 :
                                 rows.full[t] = SubSeq(tokens, 1, t + 1),
         Remembers(tokens, rows)
  PROVE  StoreRight'
<1> DEFINE new == [i \in 1 .. Len(tokens) |-> rows.full[i - 1]]
           all == Remember(store, tokens, new)
<1>1. setup.cache \in Nat
  BY SetupFacts
<1>2. CASE setup.cache = 0
  <2>1. store' = store
    BY <1>2 DEF Remembers
  <2> QED BY <2>1 DEF StoreRight
<1>3. CASE setup.cache > 0
  <2>1. /\ tokens \in Seq(Tokens) /\ Len(tokens) <= MaxCtx
        /\ \A t \in 0 .. Len(tokens) - 1 : rows.full[t] = SubSeq(tokens, 1, t + 1)
    BY <1>3
  <2>2. \A s \in Stems(tokens) : /\ s \in Seq(Tokens) /\ s # <<>> /\ Len(s) <= MaxCtx
                                 /\ new[Len(s)] = s
    <3> SUFFICES ASSUME NEW s \in Stems(tokens)
                 PROVE  s \in Seq(Tokens) /\ s # <<>> /\ Len(s) <= MaxCtx /\ new[Len(s)] = s
      OBVIOUS
    <3>1. /\ s \in Seq(Tokens) /\ s # <<>> /\ Len(s) \in 1 .. Len(tokens)
          /\ s = SubSeq(tokens, 1, Len(s))
      BY <2>1, StemsIs
    <3>2. PICK k \in Nat : k = Len(s) - 1
      <4>1. Len(s) \in Nat /\ 1 <= Len(s)
        BY <3>1
      <4> QED BY <4>1
    <3>3. k \in 0 .. Len(tokens) - 1 /\ k + 1 = Len(s)
      BY <2>1, <3>1, <3>2
    <3>4. new[Len(s)] = rows.full[k]
      BY <3>1, <3>2
    <3>5. rows.full[k] = SubSeq(tokens, 1, k + 1)
      BY <2>1, <3>3
    <3> HIDE DEF new
    <3>6. Len(s) <= MaxCtx
      BY <2>1, <3>1, SetupFacts
    <3> QED BY <3>1, <3>3, <3>4, <3>5, <3>6
  <2> HIDE DEF new
  <2>3. DOMAIN all = DOMAIN store \cup Stems(tokens)
    BY DEF Remember
  <2>4. \A s \in DOMAIN all : all[s] = IF s \in DOMAIN store THEN store[s] ELSE new[Len(s)]
    BY DEF Remember
  <2> HIDE DEF all
  <2>5. \A s \in DOMAIN all : s \in Seq(Tokens) /\ s # <<>> /\ Len(s) <= MaxCtx /\ all[s] = s
    BY <2>2, <2>3, <2>4, Zenon DEF StoreRight
  <2>6. \/ store' = all
        \/ \E stems \in SUBSET DOMAIN all : store' = Restrict(all, stems)
    <3>1. ~(setup.cache = 0)
      BY <1>3
    <3> QED BY <3>1, Zenon DEF Remembers, all, new
  <2>7. DOMAIN store' \subseteq DOMAIN all /\ \A s \in DOMAIN store' : store'[s] = all[s]
    <3>1. ASSUME NEW stems \in SUBSET DOMAIN all, store' = Restrict(all, stems)
          PROVE  DOMAIN store' \subseteq DOMAIN all /\ \A s \in DOMAIN store' : store'[s] = all[s]
      BY <3>1 DEF Restrict
    <3> QED BY <2>6, <3>1, Zenon
  <2>8. ~(setup'.cache = 0)
    BY <1>3
  <2> QED
    BY <2>5, <2>7, <2>8, Zenon DEF StoreRight
<1> QED BY <1>1, <1>2, <1>3

\* A session file holds the rows of its tokens that a ring had not let go of.
SavedRight ==
  /\ saved.kind \in {"none", "cut", "whole"}
  /\ saved.kind = "whole" =>
       /\ saved.tokens \in Seq(Tokens) /\ saved.broken \in BOOLEAN
       /\ saved.full \in [0 .. Len(saved.tokens) - 1 -> Seq(Tokens)]
       /\ DOMAIN saved.ring =
            IF Window > 0 THEN FirstValid(Len(saved.tokens)) .. Len(saved.tokens) - 1 ELSE {}
       /\ \A t \in DOMAIN saved.ring : saved.ring[t] \in Seq(Tokens)
       /\ ~saved.broken =>
            /\ \A t \in 0 .. Len(saved.tokens) - 1 : saved.full[t] = SubSeq(saved.tokens, 1, t + 1)
            /\ \A t \in DOMAIN saved.ring : saved.ring[t] = SubSeq(saved.tokens, 1, t + 1)

\* Logits are those of the committed tokens.
Sampled == pc = "decode" => next \in Tokens /\ (~broken => basis = committed)

\* A runtime with a semantic cache has no torn rows to give it.
Cached == setup.cache > 0 => ~broken /\ (saved.kind = "whole" => ~saved.broken)

\* The setups that are exact: no speculation over a ring, and no semantic cache
\* where a decode pass may leave torn rows.
Exact ==
  /\ Window > 0 => setup.drafts = 0
  /\ setup.cache > 0 => "decode" \notin setup.faults

Good == Types /\ RowsRight /\ StoreRight /\ SavedRight /\ Sampled /\ Cached

IInv == Exact => Good

\* RowsRight after a step, without the primes on the setup.
LEMMA RowsNext ==
  ASSUME setup' = setup,
         ~broken' => Len(committed') = pos' /\ pos' <= MaxCtx /\ Held(kv', pos', committed')
  PROVE  RowsRight'
  BY DEF RowsRight, Held, FirstValid, Window

\* A step that leaves the semantic cache alone keeps it right.
LEMMA StoreKept ==
  ASSUME StoreRight, UNCHANGED <<setup, store>>
  PROVE  StoreRight'
  BY DEF StoreRight

\* A step that leaves the session file alone keeps it right.
LEMMA SavedKept ==
  ASSUME SavedRight, UNCHANGED <<setup, saved>>
  PROVE  SavedRight'
  BY DEF SavedRight, FirstValid, Window

\* A step that fails nothing where there is a semantic cache keeps Cached.
LEMMA CachedKept ==
  ASSUME Cached, UNCHANGED <<setup, saved>>, setup.cache > 0 => ~broken'
  PROVE  Cached'
  BY DEF Cached

\* A call that is over has no logits to be right.
LEMMA OverIs ==
  ASSUME CallOver
  PROVE  /\ Sampled' /\ pc' \in {"idle", "decode"} /\ next' \in Tokens \cup {NoToken}
         /\ basis' \in Seq(Tokens) /\ left' \in 0 .. MaxNew
<1>1. MaxNew \in Nat
  BY RuntimeAssumption
<1>2. pc' = "idle" /\ next' = NoToken /\ basis' = Junk /\ left' = 0
  BY DEF CallOver
<1>3. basis' \in Seq(Tokens)
  BY <1>2 DEF Junk
<1>4. left' \in 0 .. MaxNew
  BY <1>1, <1>2
<1> QED BY <1>2, <1>3, <1>4 DEF Sampled

\* Every part of the state but the rows is one of its type after a step.
LEMMA TypesNext ==
  ASSUME Types, setup' = setup, pos' \in Nat, committed' \in Seq(Tokens), kv' \in KV,
         pc' \in {"idle", "decode"}, next' \in Tokens \cup {NoToken}, basis' \in Seq(Tokens),
         left' \in 0 .. MaxNew, broken' \in BOOLEAN, turns' \in 0 .. MaxTurns
  PROVE  Types'
  BY DEF Types, KV, Positions

-----------------------------------------------------------------------------
(* Every step keeps it: generate up to the prefill.                        *)

\* A call of generate leaves setup and session file alone.
LEMMA CalledIs ==
  ASSUME Good, Called
  PROVE  /\ setup' = setup /\ saved' = saved /\ turns' \in 0 .. MaxTurns /\ SavedRight'
         /\ pc = "idle"
<1>1. turns \in 0 .. MaxTurns /\ MaxTurns \in Nat
  BY RuntimeAssumption DEF Good, Types
<1>2. turns < MaxTurns /\ turns' = turns + 1 /\ setup' = setup /\ saved' = saved /\ pc = "idle"
  BY DEF Called
<1>3. turns' \in 0 .. MaxTurns
  BY <1>1, <1>2
<1>4. SavedRight'
  BY <1>2, SavedKept DEF Good
<1> QED BY <1>2, <1>3, <1>4

\* A prefill runs what the cache lacks of the prompt, and samples from all of it
\* (src/src/runtime.cpp:285-303).
LEMMA PrefillRight ==
  ASSUME Good, NEW prompt \in Seq(Tokens), NEW reuse \in BOOLEAN, NEW maxNew \in 0 .. MaxNew,
         Prefill(prompt, reuse, maxNew)
  PROVE  Good'
<1>1. /\ setup' = setup /\ saved' = saved /\ turns' \in 0 .. MaxTurns /\ SavedRight'
      /\ UNCHANGED <<store, broken>> /\ StoreRight'
  BY CalledIs, StoreKept DEF Prefill, Good
<1>2. PICK start \in Nat, kept \in Seq(Tokens), delta \in Seq(Tokens), rows \in KV :
        /\ start = Start(prompt, reuse) /\ kept = Kept(prompt, reuse)
        /\ delta = Delta(prompt, reuse) /\ rows = Injected(prompt, reuse)
  BY StartIs DEF Good
<1>3. PICK pass : pass = Feed(rows, start, delta)
  OBVIOUS
<1>4. /\ delta # <<>> /\ Fits(prompt, reuse)
      /\ kv' = pass.rows /\ pos' = start + Len(delta) /\ committed' = kept \o delta
      /\ next' \in Tokens /\ basis' = Last(pass.ctxs) /\ left' = maxNew /\ pc' = "decode"
  BY <1>2, <1>3, Zenon DEF Prefill
<1>5. MaxCtx \in Nat /\ setup \in Setups
  BY SetupFacts DEF Good, Types
<1>6. start + Len(delta) <= MaxCtx /\ Len(delta) \in Nat \ {0}
  <2>1. start + Len(delta) - 1 < MaxCtx
    BY <1>2, <1>4, Zenon DEF Fits
  <2>2. Len(delta) \in Nat \ {0}
    BY <1>4
  <2> QED BY <1>5, <2>1, <2>2
<1>7. pass.rows \in KV /\ pass.ctxs \in Seq(Seq(Tokens)) /\ Len(pass.ctxs) = Len(delta)
  BY <1>3, <1>5, <1>6, FeedTyped DEF Typed
<1>8. basis' = pass.ctxs[Len(delta)] /\ basis' \in Seq(Tokens)
  <2>1. basis' = pass.ctxs[Len(delta)]
    BY <1>4, <1>7, Zenon DEF Last
  <2>2. Len(delta) \in 1 .. Len(pass.ctxs)
    BY <1>6, <1>7
  <2> QED BY <1>7, <2>1, <2>2
<1>9. Types'
  <2>1. pos' \in Nat /\ committed' \in Seq(Tokens) /\ kv' \in KV
    BY <1>4, <1>7
  <2>2. broken' \in BOOLEAN
    BY <1>1, Zenon DEF Good, Types
  <2> QED BY <1>1, <1>4, <1>8, <2>1, <2>2, TypesNext DEF Good
<1>10. ASSUME ~broken
       PROVE  /\ Len(committed') = pos' /\ pos' <= MaxCtx /\ Held(kv', pos', committed')
              /\ basis' = committed'
  <2>1. Len(kept) = start /\ Mirrors(rows, start, kept)
    BY <1>2, <1>10, StartRight DEF Good
  <2>2. PICK hist \in Seq(Tokens) :
          /\ hist = kept \o delta
          /\ Len(hist) = Len(kept) + Len(delta)
          /\ \A i \in 1 .. Len(delta) : delta[i] = hist[Len(kept) + i]
    <3>1. /\ kept \o delta \in Seq(Tokens) /\ Len(kept \o delta) = Len(kept) + Len(delta)
          /\ \A i \in 1 .. Len(delta) : delta[i] = (kept \o delta)[Len(kept) + i]
      BY FollowedBy, Zenon
    <3> QED BY <3>1, Zenon
  <2>3. Len(hist) = start + Len(delta) /\ \A i \in 1 .. Len(delta) : delta[i] = hist[start + i]
    BY <2>1, <2>2
  <2>4. Mirrors(rows, start, hist)
    BY <1>5, <2>1, <2>2, MirrorsLonger
  <2>5. Right(pass, start, Len(hist), hist)
    BY <1>3, <1>5, <1>6, <2>3, <2>4, FeedRight
  <2>6. Held(pass.rows, Len(hist), hist)
    <3>1. Len(hist) > start
      BY <1>6, <2>3
    <3> QED BY <2>5, <3>1, Zenon DEF Right
  <2>7. pass.ctxs[Len(delta)] = SubSeq(hist, 1, Len(hist))
    <3>1. Len(delta) \in 1 .. Len(hist) - start
      BY <1>6, <2>3
    <3>2. pass.ctxs[Len(delta)] = SubSeq(hist, 1, start + Len(delta))
      BY <2>5, <3>1, Zenon DEF Right
    <3> QED BY <2>3, <3>2
  <2>8. SubSeq(hist, 1, Len(hist)) = hist
    OBVIOUS
  <2> QED BY <1>4, <1>6, <1>8, <2>2, <2>3, <2>6, <2>7, <2>8, Zenon
<1>11. RowsRight'
  BY <1>1, <1>10, RowsNext
<1>12. Sampled'
  BY <1>1, <1>4, <1>10, Zenon DEF Sampled
<1>13. Cached'
  BY <1>1, CachedKept DEF Good, Cached
<1> QED BY <1>1, <1>9, <1>11, <1>12, <1>13 DEF Good

\* A call that runs nothing, or that ends before its first row is written.
LEMMA BackIs ==
  ASSUME Good, NEW prompt \in Seq(Tokens), NEW reuse \in BOOLEAN, Called,
         pos' = Start(prompt, reuse), committed' = Kept(prompt, reuse), kv' \in KV,
         CallOver, broken' \in BOOLEAN, store' = store, setup.cache > 0 => ~broken',
         ~broken' => ~broken /\ ~LosesRows(prompt, reuse)
                     /\ \A rows \in KV, k \in Nat, hist \in Seq(Tokens) :
                          /\ rows = Injected(prompt, reuse) /\ k = Start(prompt, reuse)
                          /\ hist = Kept(prompt, reuse) /\ Held(rows, k, hist)
                          => Held(kv', k, hist)
  PROVE  Good'
<1>1. setup' = setup /\ saved' = saved /\ turns' \in 0 .. MaxTurns /\ SavedRight' /\ StoreRight'
  BY CalledIs, StoreKept DEF Good
<1>2. PICK start \in Nat, kept \in Seq(Tokens), rows \in KV :
        start = Start(prompt, reuse) /\ kept = Kept(prompt, reuse) /\ rows = Injected(prompt, reuse)
  BY StartIs DEF Good
<1>3. Types'
  BY <1>1, <1>2, OverIs, TypesNext DEF Good
<1>4. RowsRight'
  <2>1. ASSUME ~broken'
        PROVE  Len(committed') = pos' /\ pos' <= MaxCtx /\ Held(kv', pos', committed')
    <3>1. Len(kept) = start /\ start <= MaxCtx /\ Held(rows, start, kept)
      BY <1>2, <2>1, StartRight DEF Good
    <3>2. Held(kv', start, kept)
      BY <1>2, <2>1, <3>1
    <3> QED BY <1>2, <3>1, <3>2
  <2> QED BY <1>1, <2>1, RowsNext
<1>5. Sampled' /\ Cached'
  BY <1>1, OverIs, CachedKept DEF Good
<1> QED BY <1>1, <1>3, <1>4, <1>5 DEF Good

\* A prompt too long throws after the rewind (src/src/runtime.cpp:288-289): what a
\* ring had overwritten behind it is then missing, and broken says so.
LEMMA OverflowsRight ==
  ASSUME Good, NEW prompt \in Seq(Tokens), NEW reuse \in BOOLEAN, Overflows(prompt, reuse)
  PROVE  Good'
<1>1. /\ Called /\ pos' = Start(prompt, reuse) /\ committed' = Kept(prompt, reuse)
      /\ kv' = Injected(prompt, reuse) /\ broken' = (broken \/ LosesRows(prompt, reuse))
      /\ CallOver /\ store' = store
  BY DEF Overflows
<1>2. kv' \in KV
  BY <1>1, StartIs DEF Good
<1>3. broken \in BOOLEAN /\ broken' \in BOOLEAN
  BY <1>1 DEF Good, Types
<1>4. setup.cache > 0 => ~broken'
  <2>1. setup.cache > 0 => Window = 0 /\ ~broken
    BY SetupFacts DEF Good, Types, Cached
  <2>2. setup.cache > 0 => ~LosesRows(prompt, reuse)
    BY <2>1 DEF LosesRows
  <2> QED BY <1>1, <2>1, <2>2
<1> QED BY <1>1, <1>2, <1>3, <1>4, BackIs

\* A prefill that throws leaves full layers right up to the rewound position; on
\* ring layers nothing is promised.
LEMMA PrefillFailsRight ==
  ASSUME Good, NEW prompt \in Seq(Tokens), NEW reuse \in BOOLEAN, PrefillFails(prompt, reuse)
  PROVE  Good'
<1>1. PICK start \in Nat, delta \in Seq(Tokens), rows \in KV :
        /\ start = Start(prompt, reuse) /\ delta = Delta(prompt, reuse)
        /\ rows = Injected(prompt, reuse)
  BY StartIs DEF Good
<1>2. /\ Called /\ pos' = Start(prompt, reuse) /\ committed' = Kept(prompt, reuse)
      /\ kv' \in Torn(rows, start, Len(delta)) /\ broken' = (broken \/ Window > 0)
      /\ CallOver /\ store' = store
  BY <1>1 DEF PrefillFails
<1>3. setup \in Setups /\ Window \in Nat /\ MaxCtx \in Nat
  BY SetupFacts DEF Good, Types
<1>4. kv' \in KV /\ \A p \in Positions : p < start => kv'.full[p] = rows.full[p]
  <2>1. Len(delta) \in Nat
    OBVIOUS
  <2> QED BY <1>2, <1>3, <2>1, TornIs
<1>5. broken \in BOOLEAN /\ broken' \in BOOLEAN
  BY <1>2 DEF Good, Types
<1>6. setup.cache > 0 => ~broken'
  <2>1. setup.cache > 0 => ~(Window > 0)
    BY <1>3, SetupFacts
  <2> QED BY <1>2, <2>1, Zenon DEF Good, Cached
<1>7. ASSUME ~broken' PROVE ~broken /\ Window = 0 /\ ~LosesRows(prompt, reuse)
  <2>1. ~broken /\ ~(Window > 0)
    BY <1>2, <1>7, Zenon
  <2>2. Window = 0
    BY <1>3, <2>1
  <2> QED BY <2>1, <2>2, Zenon DEF LosesRows
<1>8. ASSUME ~broken', NEW hist \in Seq(Tokens), hist = Kept(prompt, reuse),
             Held(rows, start, hist)
      PROVE  Held(kv', start, hist)
  <2>1. start <= MaxCtx
    BY <1>1, <1>7, <1>8, StartRight DEF Good
  <2>2. \A t \in 0 .. start - 1 : t \in Positions /\ t < start
    BY <1>3, <2>1 DEF Positions
  <2>3. \A t \in 0 .. start - 1 : kv'.full[t] = SubSeq(hist, 1, t + 1)
    BY <1>4, <1>8, <2>2 DEF Held
  <2> QED BY <1>7, <1>8, <2>3 DEF Held
<1> QED
  <2>1. ~broken' => \A r \in KV, k \in Nat, hist \in Seq(Tokens) :
                      /\ r = Injected(prompt, reuse) /\ k = Start(prompt, reuse)
                      /\ hist = Kept(prompt, reuse) /\ Held(r, k, hist)
                      => Held(kv', k, hist)
    BY <1>1, <1>8
  <2> QED BY <1>2, <1>4, <1>5, <1>6, <1>7, <2>1, BackIs

\* Nothing to run: the cache is the prompt, or what it was.
LEMMA NoPrefillRight ==
  ASSUME Good, NEW prompt \in Seq(Tokens), NEW reuse \in BOOLEAN, NoPrefill(prompt, reuse)
  PROVE  Good'
<1>1. /\ Called /\ pos' = Start(prompt, reuse) /\ committed' = Kept(prompt, reuse)
      /\ kv' = Injected(prompt, reuse) /\ Remembers(committed', kv') /\ CallOver
      /\ broken' = broken /\ Delta(prompt, reuse) = <<>>
  BY DEF NoPrefill
<1>2. setup' = setup /\ saved' = saved /\ turns' \in 0 .. MaxTurns /\ SavedRight'
  BY <1>1, CalledIs
<1>3. setup \in Setups /\ committed \in Seq(Tokens) /\ Window \in Nat
  BY SetupFacts DEF Good, Types
<1>4. kv' \in KV /\ pos' \in Nat /\ committed' \in Seq(Tokens) /\ prompt = <<>>
  BY <1>1, StartIs DEF Good
<1>5. Types'
  <2>1. broken' \in BOOLEAN
    BY <1>1, Zenon DEF Good, Types
  <2> QED BY <1>1, <1>2, <1>4, <2>1, OverIs, TypesNext DEF Good
<1>6. ASSUME ~broken
      PROVE  Len(committed') = pos' /\ pos' <= MaxCtx /\ Held(kv', pos', committed')
  <2>1. pos = Len(committed)
    BY <1>6 DEF Good, RowsRight
  <2>2. Rewound(prompt, reuse) = 0 /\ Hit(prompt, reuse) \in Nat /\ ~(Hit(prompt, reuse) > 0)
    <3>1. Len(prompt) = 0
      BY <1>4
    <3>2. PICK h \in Nat : /\ h = Hit(prompt, reuse) /\ (h > 0 => h < Len(prompt))
                           /\ prompt = <<>> => Rewound(prompt, reuse) = 0
      BY <1>3, HitIs DEF Good
    <3>3. ~(h > 0)
      BY <3>1, <3>2
    <3> QED BY <1>4, <3>2, <3>3, Zenon
  <2>3. Start(prompt, reuse) = IF reuse THEN 0 ELSE pos
    BY <2>2, Zenon DEF Start, Rewound
  <2>4. ~LosesRows(prompt, reuse)
    <3>1. Start(prompt, reuse) = 0 \/ Start(prompt, reuse) = Len(committed)
      BY <2>1, <2>3
    <3> QED BY <3>1 DEF LosesRows
  <2> QED BY <1>1, <1>6, <2>4, StartRight DEF Good
<1>7. RowsRight'
  BY <1>1, <1>2, <1>6, RowsNext
<1>8. StoreRight'
  <2>1. setup.cache > 0 => /\ committed' \in Seq(Tokens) /\ Len(committed') <= MaxCtx
                           /\ \A t \in 0 .. Len(committed') - 1 :
                                kv'.full[t] = SubSeq(committed', 1, t + 1)
    BY <1>4, <1>6 DEF Held, Good, Cached
  <2> QED BY <1>1, <1>2, <1>3, <2>1, RemembersRight DEF Good
<1>9. Sampled' /\ Cached'
  BY <1>1, <1>2, OverIs, CachedKept DEF Good, Cached
<1> QED BY <1>2, <1>5, <1>7, <1>8, <1>9 DEF Good

-----------------------------------------------------------------------------
(* Every step keeps it: the decode loop.                                   *)

\* What is known at the top of the decode loop.
LEMMA EmitsIs ==
  ASSUME Good, Emits
  PROVE  /\ pc = "decode" /\ left \in 0 .. MaxNew /\ left > 0 /\ next \in Tokens
         /\ pos \in Nat /\ pos < MaxCtx /\ MaxCtx \in Nat /\ MaxNew \in Nat
         /\ committed \in Seq(Tokens) /\ kv \in KV /\ setup \in Setups
         /\ broken \in BOOLEAN /\ turns \in 0 .. MaxTurns
         /\ History \in Seq(Tokens) /\ Len(History) = Len(committed) + 1
<1>1. pc = "decode" /\ left > 0 /\ pos < MaxCtx /\ next \in Tokens
  BY DEF Emits, Good, Sampled
<1>2. /\ left \in 0 .. MaxNew /\ pos \in Nat /\ committed \in Seq(Tokens) /\ kv \in KV
      /\ setup \in Setups /\ broken \in BOOLEAN /\ turns \in 0 .. MaxTurns
  BY Zenon DEF Good, Types
<1>3. MaxCtx \in Nat /\ MaxNew \in Nat
  BY RuntimeAssumption
<1>4. History \in Seq(Tokens) /\ Len(History) = Len(committed) + 1
  BY <1>1, <1>2 DEF History
<1> QED BY <1>1, <1>2, <1>3, <1>4

\* The call is over and its conversation given to the semantic cache.
LEMMA EndRight ==
  ASSUME Good, CallOver, Remembers(committed, kv),
         UNCHANGED <<setup, pos, committed, kv, saved, broken, turns>>
  PROVE  Good'
<1>1. Types'
  BY OverIs, TypesNext DEF Good, Types
<1>2. RowsRight'
  BY RowsNext DEF Good, RowsRight
<1>3. SavedRight' /\ Sampled' /\ Cached'
  BY SavedKept, OverIs, CachedKept DEF Good, Cached
<1>4. StoreRight'
  <2>1. setup.cache > 0 => /\ committed \in Seq(Tokens) /\ Len(committed) <= MaxCtx
                           /\ \A t \in 0 .. Len(committed) - 1 :
                                kv.full[t] = SubSeq(committed, 1, t + 1)
    BY DEF Good, Types, RowsRight, Held, Cached
  <2>2. setup \in Setups
    BY DEF Good, Types
  <2> QED BY <2>1, <2>2, RemembersRight DEF Good
<1> QED BY <1>1, <1>2, <1>3, <1>4 DEF Good

\* One token, committed and computed over all tokens before it.
LEMMA StepRight ==
  ASSUME Good, Step
  PROVE  Good'
<1>1. PICK pass : pass = Feed(kv, pos, <<next>>)
  OBVIOUS
<1>2. /\ Emits /\ committed' = History /\ kv' = pass.rows /\ pos' = pos + 1
      /\ next' \in Tokens /\ basis' = Last(pass.ctxs) /\ left' = left - 1
      /\ UNCHANGED <<setup, pc, store, saved, broken, turns>>
  BY <1>1, Zenon DEF Step
<1>3. /\ pc = "decode" /\ left \in 0 .. MaxNew /\ left > 0 /\ next \in Tokens
      /\ pos \in Nat /\ pos < MaxCtx /\ MaxCtx \in Nat /\ MaxNew \in Nat
      /\ committed \in Seq(Tokens) /\ kv \in KV /\ setup \in Setups
      /\ broken \in BOOLEAN /\ turns \in 0 .. MaxTurns
      /\ History \in Seq(Tokens) /\ Len(History) = Len(committed) + 1
  BY <1>2, EmitsIs
<1>4. PICK tokens \in Seq(Tokens) : tokens = <<next>> /\ Len(tokens) = 1 /\ tokens[1] = next
  <2>1. next \in Tokens
    BY <1>3
  <2>2. <<next>> \in Seq(Tokens) /\ Len(<<next>>) = 1 /\ <<next>>[1] = next
    BY <2>1
  <2> QED BY <2>2
<1>5. pass.rows \in KV /\ pass.ctxs \in Seq(Seq(Tokens)) /\ Len(pass.ctxs) = 1
  <2>1. pos + Len(tokens) <= MaxCtx
    BY <1>3, <1>4
  <2>2. Typed(pass, 1)
    BY <1>1, <1>3, <1>4, <2>1, FeedTyped
  <2> QED BY <2>2 DEF Typed
<1>6. basis' = pass.ctxs[1] /\ basis' \in Seq(Tokens)
  <2>1. basis' = pass.ctxs[1]
    BY <1>2, <1>5 DEF Last
  <2> QED BY <1>5, <2>1
<1>7. Types'
  <2>1. left' \in 0 .. MaxNew /\ pos' \in Nat
    BY <1>2, <1>3
  <2> QED BY <1>2, <1>3, <1>5, <1>6, <2>1, TypesNext DEF Good
<1>8. ASSUME ~broken
      PROVE  /\ Len(committed') = pos' /\ pos' <= MaxCtx /\ Held(kv', pos', committed')
             /\ basis' = committed'
  <2>1. Len(committed) = pos /\ Held(kv, pos, committed)
    BY <1>8 DEF Good, RowsRight
  <2>2. PICK hist \in Seq(Tokens) : /\ hist = History /\ hist = committed \o <<next>>
                                    /\ Len(hist) = pos + 1 /\ hist[pos + 1] = next
    BY <1>3, <2>1, AppendedIs DEF History
  <2>3. Mirrors(kv, pos, hist)
    <3>1. hist = committed \o <<next>>
      BY <2>2
    <3>2. Mirrors(kv, pos, committed)
      BY <1>3, <2>1, HeldMirrors
    <3> QED BY <1>3, <1>4, <2>1, <3>1, <3>2, MirrorsLonger
  <2>4. Right(pass, pos, Len(hist), hist)
    <3>1. pos + Len(tokens) = Len(hist) /\ Len(hist) <= MaxCtx
          /\ \A i \in 1 .. Len(tokens) : tokens[i] = hist[pos + i]
      BY <1>3, <1>4, <2>2
    <3> QED BY <1>1, <1>3, <1>4, <2>3, <3>1, FeedRight
  <2>5. Held(pass.rows, pos + 1, hist) /\ pass.ctxs[1] = SubSeq(hist, 1, pos + 1)
    <3>1. Len(hist) > pos /\ 1 \in 1 .. Len(hist) - pos /\ Len(hist) = pos + 1
      BY <1>3, <2>2
    <3> QED BY <2>4, <3>1, Zenon DEF Right
  <2>6. SubSeq(hist, 1, pos + 1) = hist
    BY <2>2
  <2>7. pos' <= MaxCtx
    BY <1>2, <1>3
  <2> QED BY <1>2, <1>6, <2>2, <2>5, <2>6, <2>7, Zenon
<1>9. RowsRight'
  BY <1>2, <1>8, RowsNext
<1>10. Sampled' /\ StoreRight' /\ SavedRight' /\ Cached'
  <2>1. Sampled'
    BY <1>2, <1>8, Zenon DEF Sampled
  <2> QED BY <1>2, <2>1, StoreKept, SavedKept, CachedKept DEF Good, Cached
<1> QED BY <1>7, <1>9, <1>10 DEF Good

\* A pass over a token and its draft, of which the first m are accepted.
LEMMA AcceptedRight ==
  ASSUME Good, Exact, NEW m \in Nat, Accepted(m)
  PROVE  /\ m <= Len(DraftNow) /\ pos' \in Nat /\ committed' \in Seq(Tokens) /\ kv' \in KV
         /\ Feed(kv, pos, Batch).ctxs[m + 1] \in Seq(Tokens)
         /\ left - 1 - m \in 0 .. MaxNew
         /\ ~broken => /\ Len(committed') = pos' /\ pos' <= MaxCtx
                       /\ Held(kv', pos', committed')
                       /\ Feed(kv, pos, Batch).ctxs[m + 1] = committed'
<1>1. PICK draft, tokens, pass : draft = DraftNow /\ tokens = Batch /\ pass = Feed(kv, pos, Batch)
  OBVIOUS
<1>2. /\ Emits /\ draft # <<>> /\ m <= Len(draft)
      /\ \A i \in 1 .. m : left - i > 0
      /\ kv' = pass.rows /\ pos' = pos + m + 1
      /\ committed' = History \o SubSeq(draft, 1, m)
  BY <1>1 DEF Accepted
<1>3. /\ pc = "decode" /\ left \in 0 .. MaxNew /\ left > 0 /\ next \in Tokens
      /\ pos \in Nat /\ pos < MaxCtx /\ MaxCtx \in Nat /\ MaxNew \in Nat
      /\ committed \in Seq(Tokens) /\ kv \in KV /\ setup \in Setups
      /\ History \in Seq(Tokens) /\ Len(History) = Len(committed) + 1
  BY <1>2, EmitsIs
<1>4. /\ draft \in Seq(Tokens) /\ setup.drafts > 0 /\ pos + Len(draft) < MaxCtx
      /\ Len(draft) < left
  <2>1. left \in Nat
    BY <1>3
  <2> QED BY <1>1, <1>2, <1>3, <2>1, DraftNowIs
<1>5. Window = 0
  BY <1>3, <1>4, SetupFacts DEF Exact
<1>6. PICK n \in Nat : n = Len(draft) /\ m \in 0 .. n
  BY <1>2, <1>4
<1>7. /\ tokens \in Seq(Tokens) /\ Len(tokens) = n + 1 /\ tokens[1] = next
      /\ \A i \in 1 .. n : tokens[i + 1] = draft[i]
  BY <1>1, <1>3, <1>4, <1>6 DEF Batch
<1>8. pass.rows \in KV /\ pass.ctxs \in Seq(Seq(Tokens)) /\ Len(pass.ctxs) = n + 1
  <2>1. pos + Len(tokens) <= MaxCtx
    BY <1>3, <1>4, <1>6, <1>7
  <2>2. Typed(pass, n + 1)
    BY <1>1, <1>3, <1>7, <2>1, FeedTyped
  <2> QED BY <2>2 DEF Typed
<1>9. pass.ctxs[m + 1] \in Seq(Tokens)
  BY <1>6, <1>8
<1>10. left - 1 - m \in 0 .. MaxNew
  BY <1>3, <1>4, <1>6
<1>11. committed' \in Seq(Tokens) /\ pos' \in Nat
  <2>1. SubSeq(draft, 1, m) \in Seq(Tokens)
    BY <1>4, <1>6
  <2>2. History \o SubSeq(draft, 1, m) \in Seq(Tokens)
    BY <1>3, <2>1, ConcatProperties
  <2> QED BY <1>2, <1>3, <2>2
<1>12. ASSUME ~broken
       PROVE  /\ Len(committed') = pos' /\ pos' <= MaxCtx /\ Held(kv', pos', committed')
              /\ pass.ctxs[m + 1] = committed'
  <2>1. Len(committed) = pos /\ Held(kv, pos, committed)
    BY <1>12 DEF Good, RowsRight
  <2>2. PICK hist : hist = History \o draft
    OBVIOUS
  <2>3. /\ hist \in Seq(Tokens) /\ Len(hist) = Len(History) + Len(draft)
        /\ \A i \in 1 .. Len(draft) : draft[i] = hist[Len(History) + i]
        /\ \A k \in 0 .. Len(History) : SubSeq(hist, 1, k) = SubSeq(History, 1, k)
    BY <1>3, <1>4, <2>2, FollowedBy
  <2>4. Len(hist) = pos + n + 1 /\ Len(History) = pos + 1
    <3>1. Len(History) = pos + 1
      BY <1>3, <2>1
    <3>2. Len(hist) = Len(History) + Len(draft)
      BY <2>3
    <3>3. Len(draft) = n /\ pos \in Nat
      BY <1>3, <1>6
    <3> QED BY <3>1, <3>2, <3>3
  <2>5. hist[pos + 1] = next
    <3>1. History[pos + 1] = next
      BY <1>3, <2>1 DEF History
    <3>2. hist[pos + 1] = History[pos + 1]
      <4>1. SubSeq(hist, 1, pos + 1)[pos + 1] = hist[pos + 1]
        BY <1>3, <2>3, <2>4
      <4>2. SubSeq(History, 1, pos + 1)[pos + 1] = History[pos + 1]
        BY <1>3, <2>4
      <4>3. SubSeq(hist, 1, pos + 1) = SubSeq(History, 1, pos + 1)
        BY <1>3, <2>3, <2>4
      <4> QED BY <4>1, <4>2, <4>3
    <3> QED BY <3>1, <3>2
  <2>6. \A i \in 1 .. Len(tokens) : tokens[i] = hist[pos + i]
    <3> SUFFICES ASSUME NEW i \in 1 .. Len(tokens) PROVE tokens[i] = hist[pos + i]
      OBVIOUS
    <3>1. CASE i = 1
      BY <1>7, <2>5, <3>1
    <3>2. CASE i # 1
      <4>1. PICK j \in 1 .. n : i = j + 1
        <5>1. i - 1 \in 1 .. n /\ i = (i - 1) + 1
          BY <1>7, <3>2
        <5> QED BY <5>1
      <4>2. hist[Len(History) + j] = draft[j]
        BY <1>6, <2>3
      <4>3. Len(History) + j = pos + i
        BY <1>3, <2>4, <4>1
      <4> QED BY <1>7, <4>1, <4>2, <4>3
    <3> QED BY <3>1, <3>2
  <2>7. Mirrors(kv, pos, hist)
    <3>1. History = committed \o <<next>> /\ <<next>> \in Seq(Tokens)
      BY <1>3, AppendIsConcat DEF History
    <3>2. Mirrors(kv, pos, committed)
      BY <1>3, <2>1, HeldMirrors
    <3>3. Mirrors(kv, pos, History)
      BY <1>3, <2>1, <3>1, <3>2, MirrorsLonger
    <3>4. \A t \in 0 .. pos - 1 : SubSeq(hist, 1, t + 1) = SubSeq(History, 1, t + 1)
      BY <1>3, <2>3, <2>4
    <3> QED BY <1>5, <3>3, <3>4 DEF Mirrors
  <2>8. Right(pass, pos, Len(hist), hist)
    <3>1. pos + Len(tokens) = Len(hist) /\ Len(hist) <= MaxCtx
      BY <1>3, <1>4, <1>6, <1>7, <2>4
    <3> QED BY <1>1, <1>3, <1>7, <2>3, <2>6, <2>7, <3>1, FeedRight
  <2>9. PICK k \in 0 .. Len(hist) : k = pos + m + 1 /\ k = pos + (m + 1) /\ k = Len(History) + m
    BY <1>3, <1>6, <2>4
  <2>10. committed' = SubSeq(hist, 1, k) /\ Len(committed') = k
    BY <1>2, <1>3, <1>4, <1>6, <2>2, <2>9, PartOfSecond
  <2>11. Held(pass.rows, k, SubSeq(hist, 1, k))
    <3>1. Len(hist) > pos /\ Len(hist) \in Nat
      BY <1>3, <2>4
    <3>2. Held(pass.rows, Len(hist), hist)
      BY <2>8, <3>1, Zenon DEF Right
    <3> QED BY <1>3, <1>5, <2>3, <2>9, <3>1, <3>2, HeldPrefix
  <2>12. pass.ctxs[m + 1] = SubSeq(hist, 1, k)
    <3>1. m + 1 \in 1 .. Len(hist) - pos
      BY <1>3, <1>6, <2>4
    <3> QED BY <2>8, <2>9, <3>1, Zenon DEF Right
  <2>13. pos' = k /\ k <= MaxCtx
    BY <1>2, <1>3, <1>4, <1>6, <2>9
  <2> QED BY <1>2, <2>10, <2>11, <2>12, <2>13
<1> QED BY <1>1, <1>2, <1>8, <1>9, <1>10, <1>11, <1>12, Zenon

\* After a verified batch the next token is sampled from the logits of the last
\* token accepted, which were computed over all committed tokens.
LEMMA VerifyRight ==
  ASSUME Good, Exact, NEW m \in Nat, Accepted(m), pc = "decode",
         UNCHANGED <<setup, saved, broken, turns>>,
         next' \in Tokens, basis' = Feed(kv, pos, Batch).ctxs[m + 1], left' = left - 1 - m,
         UNCHANGED <<pc, store>>
  PROVE  Good'
<1>1. /\ pos' \in Nat /\ committed' \in Seq(Tokens) /\ kv' \in KV
      /\ basis' \in Seq(Tokens) /\ left' \in 0 .. MaxNew
      /\ ~broken => /\ Len(committed') = pos' /\ pos' <= MaxCtx /\ Held(kv', pos', committed')
                    /\ basis' = committed'
  BY AcceptedRight
<1>2. broken \in BOOLEAN /\ turns \in 0 .. MaxTurns
  BY Zenon DEF Good, Types
<1>3. Types'
  BY <1>1, <1>2, TypesNext DEF Good
<1>4. RowsRight'
  BY <1>1, RowsNext
<1>5. Sampled'
  BY <1>1, Zenon DEF Sampled
<1>6. StoreRight' /\ SavedRight' /\ Cached'
  BY StoreKept, SavedKept, CachedKept DEF Good, Cached
<1> QED BY <1>3, <1>4, <1>5, <1>6 DEF Good

\* A call that a draft token ends keeps what was accepted before it.
LEMMA VerifyStopsRight ==
  ASSUME Good, Exact, NEW m \in Nat, VerifyStops(m)
  PROVE  Good'
<1>1. /\ Accepted(m) /\ CallOver /\ Remembers(committed', kv')
      /\ UNCHANGED <<setup, saved, broken, turns>>
  BY DEF VerifyStops, Accepted
<1>2. /\ pos' \in Nat /\ committed' \in Seq(Tokens) /\ kv' \in KV
      /\ ~broken => Len(committed') = pos' /\ pos' <= MaxCtx /\ Held(kv', pos', committed')
  BY <1>1, AcceptedRight
<1>3. setup \in Setups /\ broken \in BOOLEAN /\ turns \in 0 .. MaxTurns
  BY Zenon DEF Good, Types
<1>4. Types'
  BY <1>1, <1>2, <1>3, OverIs, TypesNext DEF Good
<1>5. RowsRight'
  BY <1>1, <1>2, RowsNext
<1>6. StoreRight'
  <2>1. setup.cache > 0 => /\ committed' \in Seq(Tokens) /\ Len(committed') <= MaxCtx
                           /\ \A t \in 0 .. Len(committed') - 1 :
                                kv'.full[t] = SubSeq(committed', 1, t + 1)
    BY <1>2 DEF Held, Good, Cached
  <2> QED BY <1>1, <1>3, <2>1, RemembersRight DEF Good
<1>7. SavedRight' /\ Sampled' /\ Cached'
  BY <1>1, OverIs, SavedKept, CachedKept DEF Good, Cached
<1> QED BY <1>4, <1>5, <1>6, <1>7 DEF Good

\* A failed decode pass: of the rows only the types are left.
LEMMA StepFailsRight ==
  ASSUME Good, Exact, StepFails
  PROVE  Good'
<1>1. PICK n : n = IF DraftNow = <<>> THEN 1 ELSE Len(Batch)
  OBVIOUS
<1>2. /\ Emits /\ "decode" \in setup.faults /\ committed' = History
      /\ kv' \in Torn(kv, pos, n) /\ broken' = TRUE /\ CallOver
      /\ UNCHANGED <<setup, pos, store, saved, turns>>
  BY <1>1, Zenon DEF StepFails
<1>3. /\ left \in 0 .. MaxNew /\ left > 0 /\ next \in Tokens /\ MaxNew \in Nat
      /\ pos \in Nat /\ committed \in Seq(Tokens) /\ kv \in KV /\ setup \in Setups
      /\ turns \in 0 .. MaxTurns /\ History \in Seq(Tokens)
  BY <1>2, EmitsIs
<1>4. n \in Nat
  <2>1. DraftNow \in Seq(Tokens)
    <3>1. left \in Nat
      BY <1>3
    <3> QED BY <1>3, <3>1, DraftNowIs
  <2>2. Batch \in Seq(Tokens)
    <3>1. <<next>> \in Seq(Tokens)
      BY <1>3
    <3> QED BY <2>1, <3>1, ConcatProperties DEF Batch
  <2>3. Len(Batch) \in Nat
    BY <2>2
  <2> QED BY <1>1, <2>3
<1>5. kv' \in KV
  BY <1>2, <1>3, <1>4, TornIs
<1>6. Types'
  BY <1>2, <1>3, <1>5, OverIs, TypesNext DEF Good
<1>7. RowsRight' /\ StoreRight' /\ SavedRight' /\ Sampled'
  BY <1>2, RowsNext, StoreKept, SavedKept, OverIs DEF Good
<1>8. Cached'
  <2>1. ~(setup.cache > 0)
    BY <1>2, Zenon DEF Exact
  <2> QED BY <1>2, <2>1, CachedKept DEF Good
<1> QED BY <1>6, <1>7, <1>8 DEF Good

-----------------------------------------------------------------------------
(* Every step keeps it: reset, the session file, restart.                  *)

\* Nothing is committed.
LEMMA EmptyRight ==
  ASSUME Good, UNCHANGED setup, pos' = 0, committed' = <<>>, kv' \in KV, broken' = FALSE,
         StoreRight', SavedRight', UNCHANGED saved, UNCHANGED turns,
         \/ pc = "idle" /\ UNCHANGED <<pc, next, basis, left>>
         \/ CallOver
  PROVE  Good'
<1>1. /\ pc' \in {"idle", "decode"} /\ next' \in Tokens \cup {NoToken}
      /\ basis' \in Seq(Tokens) /\ left' \in 0 .. MaxNew /\ Sampled'
  <2>1. CASE pc = "idle" /\ UNCHANGED <<pc, next, basis, left>>
    <3>1. Sampled'
      BY <2>1 DEF Sampled
    <3> QED BY <2>1, <3>1 DEF Good, Types
  <2>2. CASE CallOver
    BY <2>2, OverIs
  <2> QED BY <2>1, <2>2
<1>2. committed' \in Seq(Tokens) /\ Len(committed') = pos' /\ pos' \in Nat
  OBVIOUS
<1>3. MaxCtx \in Nat /\ Window \in Nat
  BY SetupFacts DEF Good, Types
<1>4. turns' \in 0 .. MaxTurns
  BY DEF Good, Types
<1>5. Types'
  BY <1>1, <1>2, <1>4, TypesNext DEF Good
<1>6. RowsRight'
  <2>1. Held(kv', 0, <<>>)
    BY <1>3 DEF Held, FirstValid
  <2> QED BY <1>2, <1>3, <2>1, RowsNext
<1>7. Cached'
  BY CachedKept DEF Good
<1> QED BY <1>1, <1>5, <1>6, <1>7 DEF Good

\* The cache of a fresh runtime.
LEMMA EmptyKVIs == EmptyKV \in KV
  BY DEF EmptyKV, KV, Junk

\* Nothing committed is always right, whatever the rows are.
LEMMA ResetRight ==
  ASSUME Good, Reset
  PROVE  Good'
<1>1. kv' \in KV /\ StoreRight' /\ SavedRight'
  BY StoreKept, SavedKept DEF Reset, Good, Types
<1> QED BY <1>1, EmptyRight DEF Reset

\* A session that does not load leaves a reset runtime.
LEMMA LoadFailsRight ==
  ASSUME Good, LoadFails
  PROVE  Good'
<1>1. kv' \in KV /\ StoreRight' /\ SavedRight'
  BY StoreKept, SavedKept, EmptyKVIs DEF LoadFails, Good, Types
<1> QED BY <1>1, EmptyRight DEF LoadFails

\* A new process starts from nothing but the session file.
LEMMA RestartRight ==
  ASSUME Good, Restart
  PROVE  Good'
<1>1. /\ setup' = setup /\ saved' = saved /\ turns' = turns /\ store' = <<>> /\ kv' = EmptyKV
      /\ pos' = 0 /\ committed' = <<>> /\ broken' = FALSE /\ CallOver
  BY DEF Restart
<1>2. kv' \in KV /\ SavedRight'
  BY <1>1, SavedKept, EmptyKVIs DEF Good
<1>3. StoreRight'
  BY <1>1 DEF StoreRight
<1> QED BY <1>1, <1>2, <1>3, EmptyRight

\* What a session leaves alone while it writes the file.
LEMMA WrittenRight ==
  ASSUME Good, UNCHANGED <<setup, pos, committed, kv, pc, next, basis, left, store, broken, turns>>,
         SavedRight', setup.cache > 0 /\ saved'.kind = "whole" => ~saved'.broken
  PROVE  Good'
<1>1. Types'
  BY TypesNext DEF Good, Types
<1>2. RowsRight' /\ StoreRight'
  BY RowsNext, StoreKept DEF Good, RowsRight
<1>3. Sampled' /\ Cached'
  BY DEF Good, Sampled, Cached
<1> QED BY <1>1, <1>2, <1>3 DEF Good

\* A file cut short holds no rows.
LEMMA SaveCutRight ==
  ASSUME Good, SaveCut
  PROVE  Good'
<1>1. saved' = [kind |-> "cut"]
  BY DEF SaveCut, CutFile
<1>2. saved'.kind = "cut"
  BY <1>1
<1>3. SavedRight'
  BY <1>2 DEF SavedRight
<1> QED BY <1>2, <1>3, WrittenRight DEF SaveCut

\* What is saved is what is committed, with every row still resident
\* (src/src/session.cpp, first_valid of src/include/llm/kv_cache.h).
LEMMA SaveSessionRight ==
  ASSUME Good, SaveSession
  PROVE  Good'
<1>1. PICK len \in Nat : len = Len(committed)
  BY DEF Good, Types
<1>2. PICK full, ring :
        /\ full = [p \in 0 .. len - 1 |-> Row(p)]
        /\ ring = IF Window > 0 THEN [p \in FirstValid(len) .. len - 1 |-> kv.ring[p % Window]]
                  ELSE <<>>
  OBVIOUS
<1>3. saved' = [kind |-> "whole", tokens |-> committed, broken |-> broken,
                full |-> full, ring |-> ring]
  BY <1>1, <1>2 DEF SaveSession
<1>4. /\ saved'.kind = "whole" /\ saved'.tokens = committed /\ saved'.broken = broken
      /\ saved'.full = full /\ saved'.ring = ring
  BY <1>3
<1>5. /\ setup \in Setups /\ committed \in Seq(Tokens) /\ broken \in BOOLEAN
      /\ kv.full \in [Positions -> Seq(Tokens)] /\ kv.ring \in [0 .. MaxCtx - 1 -> Seq(Tokens)]
      /\ MaxCtx \in Nat /\ Window \in Nat /\ Window < MaxCtx
  BY SetupFacts DEF Good, Types, KV
<1>6. full \in [0 .. len - 1 -> Seq(Tokens)]
  <2>1. ASSUME NEW p \in 0 .. len - 1 PROVE Row(p) \in Seq(Tokens)
    <3>1. p < MaxCtx => p \in Positions
      BY <1>1, <1>5 DEF Positions
    <3> QED BY <1>5, <3>1 DEF Row, Junk
  <2> QED BY <1>2, <2>1
<1>7. /\ DOMAIN ring = IF Window > 0 THEN FirstValid(len) .. len - 1 ELSE {}
      /\ \A p \in DOMAIN ring : /\ ring[p] = kv.ring[p % Window] /\ ring[p] \in Seq(Tokens)
                                /\ p \in 0 .. len - 1
  <2>1. CASE Window > 0
    <3>1. ring = [p \in FirstValid(len) .. len - 1 |-> kv.ring[p % Window]]
      BY <1>2, <2>1
    <3>2. ASSUME NEW p \in FirstValid(len) .. len - 1
          PROVE  p \in 0 .. len - 1 /\ p % Window \in 0 .. MaxCtx - 1
      <4>1. p \in Nat /\ p \in 0 .. len - 1
        BY <1>1, <1>5, <3>2 DEF FirstValid
      <4> QED BY <1>5, <2>1, <4>1
    <3> QED BY <1>5, <2>1, <3>1, <3>2
  <2>2. CASE ~(Window > 0)
    <3>1. ring = <<>>
      BY <1>2, <2>2
    <3> QED BY <2>2, <3>1
  <2> QED BY <2>1, <2>2
<1>8. ASSUME ~broken
      PROVE  /\ \A t \in 0 .. len - 1 : full[t] = SubSeq(committed, 1, t + 1)
             /\ \A t \in DOMAIN ring : ring[t] = SubSeq(committed, 1, t + 1)
  <2>1. len <= MaxCtx /\ Held(kv, len, committed)
    BY <1>1, <1>8 DEF Good, RowsRight
  <2>2. \A t \in 0 .. len - 1 : full[t] = kv.full[t]
    BY <1>1, <1>2, <1>5, <2>1 DEF Row
  <2>3. \A t \in 0 .. len - 1 : kv.full[t] = SubSeq(committed, 1, t + 1)
    BY <2>1 DEF Held
  <2>4. \A t \in DOMAIN ring : kv.ring[t % Window] = SubSeq(committed, 1, t + 1)
    BY <1>7, <2>1 DEF Held
  <2> QED BY <1>7, <2>2, <2>3, <2>4, Zenon
<1>9. setup' = setup
  BY DEF SaveSession
<1>10. SavedRight'
  <2>1. Window' = Window /\ FirstValid(len)' = FirstValid(len)
    BY <1>9 DEF FirstValid, Window
  <2>2. PICK file : file = saved'
    OBVIOUS
  <2>3. /\ file.kind = "whole" /\ file.tokens = committed /\ file.broken = broken
        /\ file.full = full /\ file.ring = ring
    BY <1>4, <2>2
  <2> QED BY <1>1, <1>5, <1>6, <1>7, <1>8, <1>9, <2>2, <2>3 DEF SavedRight, FirstValid, Window
<1> QED BY <1>4, <1>10, WrittenRight DEF SaveSession, Good, Cached

\* Each row of the file goes back to the slot of its position, and no two of a
\* ring to one, so a loaded session is as right as the one that was saved.
LEMMA LoadSessionRight ==
  ASSUME Good, LoadSession
  PROVE  Good'
<1>1. /\ pc = "idle" /\ saved.kind = "whole" /\ Len(saved.tokens) <= MaxCtx
      /\ committed' = saved.tokens /\ pos' = Len(saved.tokens) /\ broken' = saved.broken
      /\ UNCHANGED <<setup, pc, next, basis, left, store, saved, turns>>
  BY DEF LoadSession, Loadable
<1>2. /\ setup \in Setups /\ turns \in 0 .. MaxTurns /\ MaxCtx \in Nat
      /\ Window \in Nat /\ Window < MaxCtx
      /\ kv.full \in [Positions -> Seq(Tokens)] /\ kv.ring \in [0 .. MaxCtx - 1 -> Seq(Tokens)]
  BY SetupFacts DEF Good, Types, KV
<1>3. PICK tokens \in Seq(Tokens), len \in Nat : tokens = saved.tokens /\ len = Len(tokens)
  BY <1>1 DEF Good, SavedRight
<1>4. PICK old : old = saved.ring
  OBVIOUS
<1>5. /\ saved.full \in [0 .. len - 1 -> Seq(Tokens)] /\ saved.broken \in BOOLEAN
      /\ DOMAIN old = IF Window > 0 THEN FirstValid(len) .. len - 1 ELSE {}
      /\ \A t \in DOMAIN old : old[t] \in Seq(Tokens)
      /\ ~saved.broken => /\ \A t \in 0 .. len - 1 : saved.full[t] = SubSeq(tokens, 1, t + 1)
                          /\ \A t \in DOMAIN old : old[t] = SubSeq(tokens, 1, t + 1)
  BY <1>1, <1>3, <1>4, Zenon DEF Good, SavedRight
<1> DEFINE From(i) == {p \in DOMAIN old : p % Window = i}
<1>6. PICK full, ring :
        /\ full = [p \in Positions |-> IF p < len THEN saved.full[p] ELSE kv.full[p]]
        /\ ring = [i \in 0 .. MaxCtx - 1 |-> IF From(i) # {} THEN old[Max(From(i))] ELSE kv.ring[i]]
  OBVIOUS
<1>7. kv' = [full |-> full, ring |-> ring]
  <2>1. DOMAIN kv.ring = 0 .. MaxCtx - 1
    BY <1>2
  <2>2. kv' = [full |-> [p \in Positions |-> IF p < len THEN saved.full[p] ELSE kv.full[p]],
               ring |-> [i \in DOMAIN kv.ring |-> IF From(i) # {} THEN old[Max(From(i))]
                                                  ELSE kv.ring[i]]]
    BY <1>3, <1>4, Zenon DEF LoadSession
  <2> QED BY <1>6, <2>1, <2>2, Zenon
<1>8. full \in [Positions -> Seq(Tokens)] /\ \A p \in 0 .. len - 1 : full[p] = saved.full[p]
  <2>1. \A p \in Positions : p < len => p \in 0 .. len - 1
    BY DEF Positions
  <2>2. \A p \in 0 .. len - 1 : p \in Positions /\ p < len
    BY <1>1, <1>2, <1>3 DEF Positions
  <2> QED BY <1>2, <1>5, <1>6, <2>1, <2>2
<1>9. \A t \in DOMAIN old : t \in Nat /\ t < len /\ Window \in Nat \ {0} /\ len <= t + Window
  BY <1>2, <1>5 DEF FirstValid
<1>10. ASSUME NEW i \in 0 .. MaxCtx - 1, From(i) # {}
       PROVE  Max(From(i)) \in From(i)
  <2>1. From(i) \in SUBSET Nat /\ \A x \in From(i) : x <= len
    BY <1>9
  <2> HIDE DEF From
  <2> QED BY <1>10, <2>1, MaxOf
<1>11. ring \in [0 .. MaxCtx - 1 -> Seq(Tokens)]
  <2>1. ASSUME NEW i \in 0 .. MaxCtx - 1
        PROVE  (IF From(i) # {} THEN old[Max(From(i))] ELSE kv.ring[i]) \in Seq(Tokens)
    <3>1. CASE From(i) # {}
      <4>1. Max(From(i)) \in DOMAIN old
        BY <1>10, <3>1
      <4> HIDE DEF From
      <4> QED BY <1>5, <3>1, <4>1
    <3>2. CASE ~(From(i) # {})
      <4> HIDE DEF From
      <4> QED BY <1>2, <3>2
    <3> QED BY <3>1, <3>2
  <2> HIDE DEF From
  <2> QED BY <1>6, <2>1
<1>12. ASSUME NEW t \in DOMAIN old PROVE ring[t % Window] = old[t]
  <2>1. t \in Nat /\ t < len /\ Window \in Nat \ {0} /\ len <= t + Window
    BY <1>9
  <2>2. PICK i \in 0 .. MaxCtx - 1 : i = t % Window
    <3>1. t % Window \in 0 .. MaxCtx - 1
      BY <1>2, <2>1
    <3> QED BY <3>1
  <2>3. t \in From(i)
    BY <2>2
  <2>4. Max(From(i)) \in From(i)
    BY <1>10, <2>3
  <2>5. PICK m : m = Max(From(i))
    OBVIOUS
  <2>6. m \in DOMAIN old /\ m % Window = t % Window
    BY <2>2, <2>4, <2>5
  <2>7. m \in Nat /\ m < len /\ len <= m + Window
    BY <1>9, <2>6
  <2>8. m = t
    <3>1. ~(m < t)
      BY <2>1, <2>6, <2>7, SlotsDiffer
    <3>2. ~(t < m)
      BY <2>1, <2>6, <2>7, SlotsDiffer
    <3> QED BY <2>1, <2>7, <3>1, <3>2
  <2> HIDE DEF From
  <2>9. ring[i] = old[Max(From(i))]
    BY <1>6, <2>3
  <2> QED BY <2>2, <2>5, <2>8, <2>9
<1>13. kv' \in KV /\ kv'.full = full /\ kv'.ring = ring
  BY <1>7, <1>8, <1>11 DEF KV
<1>14. Types'
  <2>1. pos' \in Nat /\ committed' \in Seq(Tokens)
    BY <1>1, <1>3
  <2> QED BY <1>1, <1>5, <1>13, <2>1, TypesNext DEF Good, Types
<1>15. ASSUME ~broken'
       PROVE  Len(committed') = pos' /\ pos' <= MaxCtx /\ Held(kv', pos', committed')
  <2>1. /\ \A t \in 0 .. len - 1 : saved.full[t] = SubSeq(tokens, 1, t + 1)
        /\ \A t \in DOMAIN old : old[t] = SubSeq(tokens, 1, t + 1)
    BY <1>1, <1>5, <1>15
  <2>2. \A t \in 0 .. len - 1 : full[t] = SubSeq(tokens, 1, t + 1)
    BY <1>8, <2>1
  <2>3. Window > 0 => \A t \in FirstValid(len) .. len - 1 :
                        ring[t % Window] = SubSeq(tokens, 1, t + 1)
    BY <1>5, <1>12, <2>1
  <2>4. Held(kv', len, tokens)
    BY <1>13, <2>2, <2>3, Zenon DEF Held
  <2> QED BY <1>1, <1>3, <2>4
<1>16. RowsRight'
  BY <1>1, <1>15, RowsNext
<1>17. StoreRight' /\ SavedRight'
  BY <1>1, StoreKept, SavedKept DEF Good
<1>18. Sampled' /\ Cached'
  BY <1>1, CachedKept DEF Good, Sampled, Cached
<1> QED BY <1>14, <1>16, <1>17, <1>18 DEF Good

-----------------------------------------------------------------------------
(* The theorems.                                                           *)

\* A fresh runtime is right.
LEMMA InitRight == Init => IInv
<1> SUFFICES ASSUME Init PROVE Good
  BY DEF IInv
<1>1. /\ setup \in Setups /\ pos = 0 /\ committed = <<>> /\ kv = EmptyKV /\ pc = "idle"
      /\ next = NoToken /\ basis = Junk /\ left = 0 /\ store = <<>> /\ saved = NoFile
      /\ broken = FALSE /\ turns = 0
  BY DEF Init
<1>2. MaxNew \in Nat /\ MaxTurns \in Nat /\ MaxCtx \in Nat /\ Window \in Nat
  BY <1>1, SetupFacts, RuntimeAssumption
<1>3. Types
  <2>1. committed \in Seq(Tokens) /\ basis \in Seq(Tokens)
    BY <1>1 DEF Junk
  <2>2. left \in 0 .. MaxNew /\ turns \in 0 .. MaxTurns /\ pos \in Nat
    BY <1>1, <1>2
  <2>3. kv \in KV /\ broken \in BOOLEAN
    BY <1>1, EmptyKVIs
  <2> QED BY <1>1, <2>1, <2>2, <2>3 DEF Types
<1>4. RowsRight
  <2>1. Held(kv, 0, <<>>)
    BY <1>2 DEF Held, FirstValid
  <2> QED BY <1>1, <1>2, <2>1 DEF RowsRight
<1>5. StoreRight
  BY <1>1 DEF StoreRight
<1>6. saved.kind = "none"
  BY <1>1 DEF NoFile
<1>7. SavedRight /\ Cached
  BY <1>1, <1>6 DEF SavedRight, Cached
<1>8. Sampled
  BY <1>1 DEF Sampled
<1> QED BY <1>3, <1>4, <1>5, <1>7, <1>8 DEF Good

\* Every way a call of generate may begin keeps the invariant.
LEMMA GenerateRight ==
  ASSUME Good, Generate
  PROVE  Good'
<1>1. PICK prompt \in Prompts, reuse \in BOOLEAN :
        \/ \E maxNew \in 0 .. MaxNew : Prefill(prompt, reuse, maxNew)
        \/ NoPrefill(prompt, reuse)
        \/ Overflows(prompt, reuse)
        \/ PrefillFails(prompt, reuse)
  BY DEF Generate
<1>2. prompt \in Seq(Tokens)
  <2>1. PICK n \in 0 .. MaxPrompt : prompt \in [1 .. n -> Tokens]
    BY <1>1 DEF Prompts, BoundedSeq, SeqOf
  <2>2. MaxPrompt \in Nat
    BY RuntimeAssumption
  <2> QED BY <2>1, <2>2
<1>3. ASSUME NEW maxNew \in 0 .. MaxNew, Prefill(prompt, reuse, maxNew) PROVE Good'
  BY <1>2, <1>3, PrefillRight
<1>4. ASSUME NoPrefill(prompt, reuse) PROVE Good'
  BY <1>2, <1>4, NoPrefillRight
<1>5. ASSUME Overflows(prompt, reuse) PROVE Good'
  BY <1>2, <1>5, OverflowsRight
<1>6. ASSUME PrefillFails(prompt, reuse) PROVE Good'
  BY <1>2, <1>6, PrefillFailsRight
<1> QED BY <1>1, <1>3, <1>4, <1>5, <1>6

\* Every way through the decode loop keeps the invariant.
LEMMA DecodeRight ==
  ASSUME Good, Exact, Decode
  PROVE  Good'
<1>1. CASE DecodeEnds
  BY <1>1, EndRight DEF DecodeEnds
<1>2. CASE CallbackStops
  BY <1>2, EndRight DEF CallbackStops
<1>3. CASE Step
  BY <1>3, StepRight
<1>4. ASSUME NEW m \in 0 .. setup.drafts, VerifyRejects(m) PROVE Good'
  <2>1. m \in Nat /\ pc = "decode" /\ next' \in Tokens
    BY <1>4 DEF VerifyRejects, Accepted, Emits
  <2> QED BY <1>4, <2>1, VerifyRight DEF VerifyRejects, Accepted
<1>5. ASSUME NEW m \in 0 .. setup.drafts, VerifyStops(m) PROVE Good'
  <2>1. m \in Nat
    OBVIOUS
  <2> QED BY <1>5, <2>1, VerifyStopsRight
<1>6. CASE VerifyAccepts
  <2>1. PICK m : m = Len(DraftNow)
    OBVIOUS
  <2>2. /\ Accepted(m) /\ next' \in Tokens /\ basis' = Feed(kv, pos, Batch).ctxs[m + 1]
        /\ left' = left - 1 - m /\ UNCHANGED <<pc, store>>
    BY <1>6, <2>1, Zenon DEF VerifyAccepts
  <2>3. Emits /\ UNCHANGED <<setup, saved, broken, turns>>
    BY <2>2 DEF Accepted
  <2>4. m \in Nat
    <3>1. /\ setup \in Setups /\ committed \in Seq(Tokens) /\ next \in Tokens
          /\ left \in Nat /\ left > 0 /\ pos \in Nat
      BY <2>3, EmitsIs
    <3>2. DraftNow \in Seq(Tokens)
      BY <3>1, DraftNowIs
    <3> QED BY <2>1, <3>2
  <2>5. pc = "decode"
    BY <2>3 DEF Emits
  <2> QED BY <2>2, <2>3, <2>4, <2>5, VerifyRight
<1>7. CASE StepFails
  BY <1>7, StepFailsRight
<1> QED BY <1>1, <1>2, <1>3, <1>4, <1>5, <1>6, <1>7, Zenon DEF Decode

\* The invariant is inductive; Exact is a matter of the setup, which no step changes.
LEMMA NextRight == IInv /\ [Next]_vars => IInv'
<1> SUFFICES ASSUME IInv, [Next]_vars, Exact' PROVE Good'
  BY DEF IInv
<1>1. setup' = setup
  BY DEF Next, Generate, Prefill, NoPrefill, Overflows, PrefillFails, Called, Decode, DecodeEnds,
         CallbackStops, Step, VerifyRejects, VerifyStops, VerifyAccepts, Accepted, StepFails,
         Reset, Session, SaveSession, SaveCut, LoadSession, LoadFails, Restart, vars
<1>2. Exact /\ Good
  BY <1>1 DEF IInv, Exact, Window
<1>3. CASE Generate
  BY <1>2, <1>3, GenerateRight
<1>4. CASE Decode
  BY <1>2, <1>4, DecodeRight
<1>5. CASE Reset
  BY <1>2, <1>5, ResetRight
<1>6. CASE Session
  BY <1>2, <1>6, SaveSessionRight, SaveCutRight, LoadSessionRight, LoadFailsRight DEF Session
<1>7. CASE Restart
  BY <1>2, <1>7, RestartRight
<1>8. CASE UNCHANGED vars
  <2>1. Types' /\ RowsRight' /\ StoreRight'
    BY <1>2, <1>8, TypesNext, RowsNext, StoreKept DEF vars, Good, Types, RowsRight
  <2>2. SavedRight' /\ Cached' /\ Sampled'
    BY <1>2, <1>8, SavedKept, CachedKept DEF vars, Good, Sampled, Cached
  <2> QED BY <2>1, <2>2 DEF Good
<1> QED BY <1>3, <1>4, <1>5, <1>6, <1>7, <1>8 DEF Next

(* Every variable of the runtime keeps its type, over any sequence of       *)
(* turns, failures, resets, saves, loads and restarts (src/src/runtime.cpp), *)
(* and the position stays within the context while no call has failed.      *)
THEOREM TypeCorrect == Spec => [](Exact => TypeOK)
<1>1. IInv => (Exact => TypeOK)
  <2> SUFFICES ASSUME Good PROVE TypeOK
    BY DEF IInv
  <2>1. pos \in Nat /\ (pos <= MaxCtx \/ broken) /\ broken \in BOOLEAN
    BY DEF Good, Types, RowsRight
  <2>2. kv.full \in [Positions -> Seq(Tokens)] /\ kv.ring \in [0 .. MaxCtx - 1 -> Seq(Tokens)]
    BY DEF Good, Types, KV
  <2>3. \A s \in DOMAIN store : s \in Seq(Tokens) /\ store[s] \in Seq(Tokens)
    BY DEF Good, StoreRight
  <2> QED BY <2>1, <2>2, <2>3 DEF TypeOK, Good, Types, SavedRight
<1> QED BY <1>1, InitRight, NextRight, PTL DEF Spec

(* src/include/llm/runtime.h:187, "mirrors tokens in KV [0,pos_)": for any   *)
(* vocabulary, context and window, at every position a later query attends  *)
(* to the cache holds the row of exactly the committed tokens, whatever was *)
(* reused, injected, drafted, rejected, saved and loaded before.            *)
THEOREM KVMirrored == Spec => [](Exact => KeepsMirror)
<1>1. IInv => (Exact => KeepsMirror)
  <2> SUFFICES ASSUME Good, ~broken PROVE MirrorsKV
    BY DEF IInv, KeepsMirror
  <2>1. setup \in Setups /\ pos \in Nat /\ Len(committed) = pos /\ Held(kv, pos, committed)
    BY DEF Good, Types, RowsRight
  <2>2. Mirrors(kv, pos, committed)
    BY <2>1, HeldMirrors
  <2> QED BY <2>1, <2>2 DEF MirrorsKV, Mirrors
<1> QED BY <1>1, InitRight, NextRight, PTL DEF Spec

(* Every token is sampled from logits computed over all the tokens before   *)
(* it: on full layers speculation changes nothing                           *)
(* (src/tests/test_spec_equiv.cpp:3-7), and neither does prefix reuse or a  *)
(* resumed session (src/src/runtime.cpp:241-300, 322-396).                  *)
THEOREM LogitsExact == Spec => [](Exact => LogitsFromHistory)
<1>1. IInv => (Exact => LogitsFromHistory)
  BY DEF IInv, Good, Sampled, LogitsFromHistory
<1> QED BY <1>1, InitRight, NextRight, PTL DEF Spec
-----------------------------------------------------------------------------
(* The memory plan and the pinning of layers (MemPlan), for every budget,  *)
(* model and number of layers.                                             *)

CONSTANTS Budget, Ctxs, N, BuffersReq, Async, StreamHeadReq, Forced, Tied, Process, PerCtx,
          OutNorm, TablePositions, Embeddings, HeadResident, HeadWindow, Layer, Estimate,
          Actual

VARIABLES phase, plan, ceiling, perLayer, target, nPinned, pinnedBytes

Memory == INSTANCE MemPlan WITH Positions <- TablePositions

(* What sizes are: natural numbers, at least one layer, and a ring of at   *)
(* least one buffer asked for.                                             *)
SizesOK ==
  /\ Budget \in Nat /\ Ctxs \subseteq Nat /\ N \in Nat \ {0}
  /\ BuffersReq \in Nat \ {0}
  /\ Async \in BOOLEAN /\ StreamHeadReq \in BOOLEAN
  /\ Forced \in BOOLEAN /\ Tied \in BOOLEAN
  /\ Process \in Nat /\ PerCtx \in [Ctxs -> Nat]
  /\ OutNorm \in Nat /\ TablePositions \in Nat /\ Embeddings \in Nat
  /\ HeadResident \in Nat /\ HeadWindow \in Nat
  /\ Layer \in Nat \ {0}
  /\ Estimate \in [0..N-1 -> Nat] /\ Actual \in [0..N-1 -> Nat]

(* No layer is larger than blk.0, by which the planner prices all of them, *)
(* and fill_slot makes no larger buffers than estimate_layer_bytes says.   *)
LayersFitBlk0 ==
  \A l \in 0..N-1 : Estimate[l] \in 1..Layer /\ Actual[l] <= Estimate[l]

-----------------------------------------------------------------------------
(* More things of one size, or as many larger ones, take more room. *)
LEMMA TimesGrows ==
  ASSUME NEW a \in Nat, NEW b \in Nat, NEW c \in Nat, a <= b
  PROVE  a * c <= b * c /\ c * a <= c * b /\ a * c \in Nat /\ c * a \in Nat
  <1>1. PICK d \in Nat : b = a + d
    <2>1. b - a \in Nat /\ b = a + (b - a)  OBVIOUS
    <2> QED BY <2>1
  <1>2. b * c = a * c + d * c /\ c * b = c * a + c * d
    BY <1>1, Z3
  <1>3. d * c \in Nat /\ c * d \in Nat /\ a * c \in Nat /\ c * a \in Nat
    OBVIOUS
  <1> QED BY <1>2, <1>3

(* What a candidate is made of. *)
LEMMA CandidateType ==
  ASSUME SizesOK, NEW c \in Memory!Candidates
  PROVE  /\ c \in Memory!Configs
         /\ c.ctx \in Ctxs /\ c.streamHead \in BOOLEAN
         /\ c.buffers \in Nat /\ c.pinned \in 0..N
         /\ c = [ctx |-> c.ctx, streamHead |-> c.streamHead,
                 buffers |-> c.buffers, pinned |-> c.pinned]
         /\ Memory!Total(c) <= Budget
  <1>1. c \in Memory!Configs /\ Memory!Total(c) <= Budget
    BY DEF Memory!Candidates, Memory!AllPinned, Memory!Streaming
  <1>2. Memory!HeadOptions \subseteq BOOLEAN
    BY DEF SizesOK, Memory!HeadOptions
  <1>3. Memory!BufferOptions \cup {0} \subseteq Nat
    BY DEF SizesOK, Memory!BufferOptions
  <1>4. /\ c.ctx \in Ctxs /\ c.streamHead \in Memory!HeadOptions
        /\ c.buffers \in Memory!BufferOptions \cup {0} /\ c.pinned \in 0..N
        /\ c = [ctx |-> c.ctx, streamHead |-> c.streamHead,
                buffers |-> c.buffers, pinned |-> c.pinned]
    BY <1>1 DEF Memory!Configs
  <1> QED BY <1>1, <1>2, <1>3, <1>4

-----------------------------------------------------------------------------
(* The tiers of Candidate::score (src/src/mem_plan.cpp:120-140) are strict *)
(* while a node has fewer than 1000 layers: the longest context, then all  *)
(* layers pinned, then a resident head, then a ring of two buffers, then   *)
(* more pinned layers; no lower tier ever makes up for a higher one.       *)
THEOREM TiersAreStrict ==
  ASSUME SizesOK, N < 1000,
         \A a, b \in Ctxs : a > b => a >= b + 128,
         NEW c \in Memory!Candidates, NEW d \in Memory!Candidates
  PROVE  /\ c.ctx > d.ctx => Memory!Score(c) > Memory!Score(d)
         /\ c.ctx = d.ctx =>
              /\ c \in Memory!AllPinned /\ d \notin Memory!AllPinned
                   => Memory!Score(c) > Memory!Score(d)
              /\ c \notin Memory!AllPinned /\ d \notin Memory!AllPinned =>
                   /\ ~c.streamHead /\ d.streamHead => Memory!Score(c) > Memory!Score(d)
                   /\ c.streamHead = d.streamHead =>
                        /\ c.buffers > 1 /\ d.buffers <= 1
                             => Memory!Score(c) > Memory!Score(d)
                        /\ c.buffers = d.buffers /\ c.pinned > d.pinned
                             => Memory!Score(c) > Memory!Score(d)
  <1>1. \A e \in Memory!Candidates :
          /\ e.ctx \in Nat /\ e.pinned \in 0..N /\ e.buffers \in Nat
          /\ e \in Memory!AllPinned => e.buffers = 0 /\ e.pinned = N
          /\ e \notin Memory!AllPinned => e.buffers > 0 /\ e.pinned < N
    <2> SUFFICES ASSUME NEW e \in Memory!Candidates
                 PROVE  /\ e.ctx \in Nat /\ e.pinned \in 0..N /\ e.buffers \in Nat
                        /\ e \in Memory!AllPinned => e.buffers = 0 /\ e.pinned = N
                        /\ e \notin Memory!AllPinned => e.buffers > 0 /\ e.pinned < N
      OBVIOUS
    <2>1. e.ctx \in Nat /\ e.pinned \in 0..N /\ e.buffers \in Nat
      BY CandidateType DEF SizesOK
    <2>2. e \in Memory!AllPinned => e.buffers = 0 /\ e.pinned = N
      BY DEF Memory!AllPinned
    <2>3. e \notin Memory!AllPinned => e.buffers \in Memory!BufferOptions /\ e.pinned < N
      BY DEF Memory!Candidates, Memory!Streaming
    <2>4. \A b \in Memory!BufferOptions : b > 0
      BY DEF Memory!BufferOptions, SizesOK
    <2> QED BY <2>1, <2>2, <2>3, <2>4
  <1>2. N \in Nat
    BY DEF SizesOK
  <1>3. c.ctx > d.ctx => c.ctx >= d.ctx + 128
    BY CandidateType
  <1> DEFINE HeadPart(e) == IF e.streamHead THEN 0 ELSE 5000000
             RingPart(e) == IF e.buffers > 1 THEN 1000000 ELSE 0
  <1>4. \A e \in Memory!Candidates :
          /\ HeadPart(e) \in {0, 5000000} /\ RingPart(e) \in {0, 1000000}
          /\ e \in Memory!AllPinned =>
               /\ RingPart(e) = 0
               /\ Memory!Score(e) = e.ctx * 1000000 + 50000000 + HeadPart(e) + N * 1000
          /\ e \notin Memory!AllPinned =>
               Memory!Score(e) = e.ctx * 1000000 + HeadPart(e) + RingPart(e)
                            + e.pinned * 1000
    <2> SUFFICES ASSUME NEW e \in Memory!Candidates
                 PROVE
          /\ HeadPart(e) \in {0, 5000000} /\ RingPart(e) \in {0, 1000000}
          /\ e \in Memory!AllPinned =>
               /\ RingPart(e) = 0
               /\ Memory!Score(e) = e.ctx * 1000000 + 50000000 + HeadPart(e) + N * 1000
          /\ e \notin Memory!AllPinned =>
               Memory!Score(e) = e.ctx * 1000000 + HeadPart(e) + RingPart(e)
                            + e.pinned * 1000
      OBVIOUS
    <2> DEFINE FullPart == IF e.buffers = 0 /\ e.pinned > 0 THEN 50000000 ELSE 0
    <2>1. HeadPart(e) \in {0, 5000000} /\ RingPart(e) \in {0, 1000000}
      BY SMT
    <2>2. e \in Memory!AllPinned => RingPart(e) = 0 /\ FullPart = 50000000
      BY <1>1, SMT DEF SizesOK
    <2>3. e \notin Memory!AllPinned => FullPart = 0
      BY <1>1, SMT
    <2>4. Memory!Score(e) = e.ctx * 1000000 + FullPart + HeadPart(e) + RingPart(e)
                       + e.pinned * 1000
      BY SMT DEF Memory!Score
    <2> HIDE DEF HeadPart, RingPart, FullPart
    <2> QED BY <1>1, <1>2, <2>1, <2>2, <2>3, <2>4, SMT
  <1>5. c.ctx > d.ctx => Memory!Score(c) > Memory!Score(d)
    <2> HIDE DEF HeadPart, RingPart
    <2>1. \A e \in Memory!Candidates :
            /\ Memory!Score(e) >= e.ctx * 1000000
            /\ Memory!Score(e) < e.ctx * 1000000 + 60000000
      BY <1>1, <1>2, <1>4, SMTT(30)
    <2>2. Memory!Score(c) \in Int /\ Memory!Score(d) \in Int
      BY <1>1, <1>2, <1>4, SMTT(30)
    <2> QED BY <1>1, <1>3, <2>1, <2>2, SMTT(30)
  <1>6. ASSUME c.ctx = d.ctx, c \in Memory!AllPinned, d \notin Memory!AllPinned
        PROVE  Memory!Score(c) > Memory!Score(d)
    <2> HIDE DEF HeadPart, RingPart
    <2> QED BY <1>1, <1>2, <1>4, <1>6, SMTT(30)
  <1>7. ASSUME c.ctx = d.ctx, c \notin Memory!AllPinned, d \notin Memory!AllPinned,
               ~c.streamHead, d.streamHead
        PROVE  Memory!Score(c) > Memory!Score(d)
    <2>1. HeadPart(c) = 5000000 /\ HeadPart(d) = 0
      BY <1>7, SMTT(30)
    <2> HIDE DEF HeadPart, RingPart
    <2> QED BY <1>1, <1>2, <1>4, <1>7, <2>1, SMTT(30)
  <1>8. ASSUME c.ctx = d.ctx, c \notin Memory!AllPinned, d \notin Memory!AllPinned,
               c.streamHead = d.streamHead, c.buffers > 1, d.buffers <= 1
        PROVE  Memory!Score(c) > Memory!Score(d)
    <2>1. /\ HeadPart(c) = HeadPart(d)
          /\ RingPart(c) = 1000000 /\ RingPart(d) = 0
      BY <1>1, <1>8, SMTT(30)
    <2> HIDE DEF HeadPart, RingPart
    <2> QED BY <1>1, <1>2, <1>4, <1>8, <2>1, SMTT(30)
  <1>9. ASSUME c.ctx = d.ctx, c \notin Memory!AllPinned, d \notin Memory!AllPinned,
               c.streamHead = d.streamHead, c.buffers = d.buffers,
               c.pinned > d.pinned
        PROVE  Memory!Score(c) > Memory!Score(d)
    <2>1. HeadPart(c) = HeadPart(d) /\ RingPart(c) = RingPart(d)
      BY <1>1, <1>9, SMTT(30)
    <2> HIDE DEF HeadPart, RingPart
    <2> QED BY <1>1, <1>2, <1>4, <1>9, <2>1, SMTT(30)
  <1> QED BY <1>5, <1>6, <1>7, <1>8, <1>9

(* The plan that wins has the longest context any configuration that fits  *)
(* has, so "ctx_capped" is reported only when it must be.                  *)
THEOREM LongestContextWins ==
  ASSUME SizesOK, N < 1000,
         \A a, b \in Ctxs : a > b => a >= b + 128,
         NEW c, Memory!IsBest(c), NEW d \in Memory!Candidates
  PROVE  d.ctx <= c.ctx
  <1>1. c \in Memory!Candidates /\ Memory!Score(d) <= Memory!Score(c)
    BY DEF Memory!IsBest
  <1>2. d.ctx > c.ctx => Memory!Score(d) > Memory!Score(c)
    BY <1>1, TiersAreStrict
  <1>3. \A e \in Memory!Candidates : e.ctx \in Nat /\ e.pinned \in Int
    BY CandidateType DEF SizesOK
  <1>4. Memory!Score(c) \in Int /\ Memory!Score(d) \in Int
    BY <1>1, <1>3, SMTT(30) DEF Memory!Score
  <1> QED BY <1>1, <1>2, <1>3, <1>4

-----------------------------------------------------------------------------
\* At the start, planner and loader hold values of their types.
LEMMA MemoryTypedAtStart ==
  ASSUME SizesOK
  PROVE  Memory!Init => Memory!TypeOK
  <1>1. \A ctx \in Ctxs : Memory!Smallest(ctx) \in
          [ctx : Ctxs, streamHead : BOOLEAN, buffers : Nat, pinned : Nat]
    BY DEF Memory!Smallest
  <1>2. 0 \in 0..N
    BY DEF SizesOK
  <1> QED BY <1>1, <1>2 DEF Memory!Init, Memory!TypeOK

(* The planner and the loader keep their variables in their types; pins    *)
(* never pass the number of layers.                                        *)
THEOREM MemoryTyped ==
  ASSUME SizesOK
  PROVE  Memory!Spec => []Memory!TypeOK
  <1>1. Memory!Init => Memory!TypeOK
    BY MemoryTypedAtStart
  <1>2. Memory!TypeOK /\ [Memory!Next]_Memory!vars => Memory!TypeOK'
    <2> SUFFICES ASSUME Memory!TypeOK, [Memory!Next]_Memory!vars PROVE Memory!TypeOK'
      OBVIOUS
    <2>1. CASE Memory!Plan
      <3>1. PICK c \in Memory!Candidates :
              plan' = c /\ ceiling' = Budget - Memory!NonWeights(c.ctx)
        BY <2>1 DEF Memory!Plan
      <3>2. c \in [ctx : Ctxs, streamHead : BOOLEAN, buffers : Nat, pinned : Nat]
        <4>1. c.pinned \in Nat
          BY CandidateType DEF SizesOK
        <4> QED BY <4>1, CandidateType
      <3>3. Budget - Memory!NonWeights(c.ctx) \in Int
        BY CandidateType DEF SizesOK, Memory!NonWeights
      <3> QED BY <2>1, <3>1, <3>2, <3>3 DEF Memory!Plan, Memory!TypeOK
    <2>2. CASE Memory!Refuse
      BY <2>2 DEF Memory!Refuse, Memory!TypeOK
    <2>3. CASE Memory!Override
      BY <2>3 DEF Memory!Override, Memory!TypeOK, Memory!Smallest, SizesOK
    <2>4. CASE Memory!Size
      <3>1. \A l \in 0..N-1 : Estimate[l] \in Nat
        BY DEF SizesOK
      <3> QED BY <2>4, <3>1 DEF Memory!Size, Memory!TypeOK
    <2>5. CASE Memory!Pin
      <3>1. nPinned \in 0..N-1 /\ Actual[nPinned] \in Nat
        BY <2>5 DEF Memory!Pin, Memory!TypeOK, SizesOK
      <3> QED BY <2>5, <3>1 DEF Memory!Pin, Memory!TypeOK, SizesOK
    <2>6. CASE Memory!StopPinning
      BY <2>6 DEF Memory!StopPinning, Memory!TypeOK
    <2>7. CASE UNCHANGED Memory!vars
      BY <2>7 DEF Memory!vars, Memory!TypeOK
    <2> QED BY <2>1, <2>2, <2>3, <2>4, <2>5, <2>6, <2>7 DEF Memory!Next
  <1> QED BY <1>1, <1>2, PTL DEF Memory!Spec

(* Whatever the layers really take, pinning stops before the tables, the   *)
(* pinned layers and the reserved ring pass the ceiling                    *)
(* (src/src/loader.cpp:238-254).                                           *)
THEOREM CeilingGuarded ==
  ASSUME SizesOK
  PROVE  Memory!Spec => []Memory!PinsFitCeiling
  <1> DEFINE I == /\ Memory!PinsFitCeiling
                  /\ nPinned > 0 => phase \in {"pinning", "running"}
  <1>1. Memory!Init => I
    BY DEF Memory!Init, Memory!PinsFitCeiling
  <1>2. Memory!TypeOK /\ I /\ [Memory!Next]_Memory!vars => I'
    <2> SUFFICES ASSUME Memory!TypeOK, I, [Memory!Next]_Memory!vars PROVE I'
      OBVIOUS
    <2>1. CASE Memory!Plan \/ Memory!Override \/ Memory!Refuse \/ Memory!Size
      <3>1. nPinned = 0 /\ nPinned' = 0
        BY <2>1 DEF Memory!Plan, Memory!Override, Memory!Refuse, Memory!Size, Memory!TypeOK
      <3> QED BY <3>1 DEF Memory!PinsFitCeiling
    <2>2. CASE Memory!Pin
      <3>1. /\ Memory!Globals' = Memory!Globals /\ Memory!RingReserve' = Memory!RingReserve
            /\ ceiling' = ceiling /\ phase' = "pinning"
        BY <2>2 DEF Memory!Pin, Memory!Globals, Memory!RingReserve, Memory!Ring, Memory!Buffers
      <3>2. Memory!Globals \in Int /\ Memory!RingReserve \in Int /\ Actual[nPinned] \in Int
        <4>1. Memory!Buffers \in Nat /\ Memory!Ring(perLayer) \in Nat
          BY DEF Memory!TypeOK, Memory!Buffers, Memory!Ring
        <4>2. nPinned \in 0..N-1
          BY <2>2 DEF Memory!Pin, Memory!TypeOK, SizesOK
        <4> QED BY <4>1, <4>2 DEF Memory!Globals, Memory!RingReserve, Memory!TypeOK, SizesOK
      <3>3. pinnedBytes' = pinnedBytes + Actual[nPinned] /\ Memory!FitsCeiling
        BY <2>2 DEF Memory!Pin
      <3>4. Memory!Globals' + pinnedBytes' + Memory!RingReserve' <= ceiling'
        BY <3>1, <3>2, <3>3 DEF Memory!FitsCeiling, Memory!TypeOK
      <3> QED BY <3>1, <3>4 DEF Memory!PinsFitCeiling
    <2>3. CASE Memory!StopPinning \/ UNCHANGED Memory!vars
      <3>1. /\ Memory!Globals' = Memory!Globals /\ Memory!RingReserve' = Memory!RingReserve
            /\ UNCHANGED <<ceiling, nPinned, pinnedBytes>>
            /\ phase' = phase \/ phase' = "running"
        BY <2>3 DEF Memory!StopPinning, Memory!vars, Memory!Globals, Memory!RingReserve,
                     Memory!Ring, Memory!Buffers
      <3> QED BY <3>1 DEF Memory!PinsFitCeiling
    <2> QED BY <2>1, <2>2, <2>3 DEF Memory!Next
  <1> QED BY <1>1, <1>2, MemoryTyped, PTL DEF Memory!Spec

-----------------------------------------------------------------------------
(* A plan that fits, and what the loader has made of it so far. *)
Planned ==
  phase \in {"sizing", "pinning", "running"} /\ Memory!Candidates # {}
    => plan \in Memory!Candidates /\ ceiling = Budget - Memory!NonWeights(plan.ctx)

Sized ==
  phase \in {"pinning", "running"} =>
    /\ perLayer \in 1..Layer
    /\ \A l \in 0..N-1 : Actual[l] <= perLayer
    /\ Memory!IsTarget(perLayer, target)
    /\ nPinned <= target
    /\ pinnedBytes <= nPinned * perLayer

Unpinned ==
  phase \in {"planning", "refused", "sizing"} => nPinned = 0 /\ pinnedBytes = 0

MemoryIInv == Memory!TypeOK /\ Planned /\ Sized /\ Unpinned

\* Each decision of constructor and loader keeps the invariant.
LEMMA StepsKeepIInv ==
  ASSUME SizesOK, LayersFitBlk0, MemoryIInv, Memory!TypeOK', [Memory!Next]_Memory!vars
  PROVE  MemoryIInv'
  <1> USE DEF MemoryIInv
  <1>1. CASE Memory!Plan
    <2>1. PICK c \in Memory!Candidates :
            plan' = c /\ ceiling' = Budget - Memory!NonWeights(c.ctx)
      BY <1>1 DEF Memory!Plan
    <2> QED BY <1>1, <2>1 DEF Memory!Plan, Planned, Sized, Unpinned
  <1>2. CASE Memory!Refuse
    BY <1>2 DEF Memory!Refuse, Planned, Sized, Unpinned
  <1>3. CASE Memory!Override
    BY <1>3 DEF Memory!Override, Planned, Sized, Unpinned
  <1>4. CASE Memory!Size
    <2>1. PICK p \in {Estimate[l] : l \in 0..N-1}, t \in 0..N :
            /\ Memory!Largest(p) /\ Memory!IsTarget(p, t)
            /\ perLayer' = p /\ target' = t
      BY <1>4 DEF Memory!Size
    <2>2. p \in 1..Layer /\ \A l \in 0..N-1 : Actual[l] <= p
      <3>1. \A l \in 0..N-1 : /\ Estimate[l] \in 1..Layer /\ Actual[l] \in Nat
                              /\ Actual[l] <= Estimate[l] /\ Estimate[l] <= p
        BY <2>1 DEF LayersFitBlk0, Memory!Largest, SizesOK
      <3>2. p \in 1..Layer
        BY <2>1, <3>1
      <3> QED BY <3>1, <3>2 DEF SizesOK
    <2>3. Memory!IsTarget(perLayer, target)'
      BY <1>4, <2>1 DEF Memory!Size, Memory!IsTarget, Memory!Globals, Memory!Ring, Memory!Buffers
    <2>4. nPinned' = 0 /\ pinnedBytes' = 0 /\ target' \in 0..N
      BY <1>4, <2>1 DEF Memory!Size, Unpinned
    <2>5. Sized'
      <3>1. pinnedBytes' <= nPinned' * perLayer' /\ nPinned' <= target'
        BY <2>1, <2>2, <2>4 DEF SizesOK
      <3> QED BY <2>1, <2>2, <2>3, <3>1 DEF Sized
    <2> QED BY <1>4, <2>5 DEF Memory!Size, Planned, Unpinned
  <1>5. CASE Memory!Pin
    <2>1. nPinned \in 0..N-1 /\ nPinned < target
      BY <1>5 DEF Memory!Pin, Memory!TypeOK, SizesOK
    <2>2. /\ perLayer \in 1..Layer /\ perLayer \in Nat
          /\ Actual[nPinned] \in Nat /\ Actual[nPinned] <= perLayer
          /\ pinnedBytes <= nPinned * perLayer
      BY <1>5, <2>1 DEF Memory!Pin, Sized, SizesOK, Memory!TypeOK
    <2>3. (nPinned + 1) * perLayer = nPinned * perLayer + perLayer
      BY <2>1, <2>2
    <2>4. /\ pinnedBytes' = pinnedBytes + Actual[nPinned]
          /\ nPinned' = nPinned + 1
      BY <1>5 DEF Memory!Pin
    <2>5. nPinned * perLayer \in Nat
      BY <2>1, <2>2
    <2>6. pinnedBytes' <= nPinned' * perLayer
      <3> HIDE DEF MemoryIInv
      <3>1. pinnedBytes \in Nat
        BY DEF MemoryIInv, Memory!TypeOK
      <3> QED BY <3>1, <2>2, <2>3, <2>4, <2>5
    <2>7. nPinned' <= target
      BY <2>1, <2>4 DEF Memory!TypeOK
    <2>8. Memory!IsTarget(perLayer, target)'
      BY <1>5 DEF Memory!Pin, Sized, Memory!IsTarget, Memory!Globals, Memory!Ring, Memory!Buffers
    <2>9. Sized'
      BY <1>5, <2>2, <2>6, <2>7, <2>8 DEF Memory!Pin, Sized
    <2> QED BY <1>5, <2>9 DEF Memory!Pin, Planned, Unpinned
  <1>6. CASE Memory!StopPinning \/ UNCHANGED Memory!vars
    <2>1. /\ UNCHANGED <<plan, ceiling, perLayer, target, nPinned, pinnedBytes>>
          /\ \/ phase' = phase
             \/ phase = "pinning" /\ phase' = "running"
      BY <1>6 DEF Memory!StopPinning, Memory!vars
    <2>2. Memory!IsTarget(perLayer, target)' <=> Memory!IsTarget(perLayer, target)
      BY <2>1 DEF Memory!IsTarget, Memory!Globals, Memory!Ring, Memory!Buffers
    <2>3. Sized'
      BY <2>1, <2>2 DEF Sized
    <2> QED BY <2>1, <2>3 DEF Planned, Unpinned
  <1> QED BY <1>1, <1>2, <1>3, <1>4, <1>5, <1>6 DEF Memory!Next

(* The tables, the pinned layers and the ring have types to reckon with. *)
LEMMA Reckoning ==
  ASSUME SizesOK, Memory!TypeOK
  PROVE  /\ Memory!Globals \in Nat /\ Memory!Buffers \in Nat \ {0}
         /\ Memory!Ring(perLayer) \in Nat /\ Memory!RingReserve \in Nat
  <1>1. Memory!Buffers \in Nat \ {0}
    BY DEF Memory!TypeOK, Memory!Buffers
  <1>2. Memory!Ring(perLayer) \in Nat
    BY <1>1 DEF Memory!TypeOK, Memory!Ring
  <1> QED BY <1>1, <1>2 DEF Memory!TypeOK, SizesOK, Memory!Globals, Memory!RingReserve

(* With layers no larger than the estimate the guard never fires: it is a  *)
(* second line of defence.                                                 *)
LEMMA TargetFits ==
  ASSUME SizesOK, MemoryIInv, phase = "pinning", nPinned < target
  PROVE  Memory!FitsCeiling
  <1>1. /\ perLayer \in Nat /\ perLayer > 0 /\ Memory!IsTarget(perLayer, target)
        /\ pinnedBytes <= nPinned * perLayer
        /\ target \in 0..N /\ nPinned \in 0..N-1 /\ N \in Nat
        /\ Actual[nPinned] \in Nat /\ Actual[nPinned] <= perLayer
        /\ pinnedBytes \in Nat /\ ceiling \in Int
    BY DEF MemoryIInv, Sized, Memory!TypeOK, SizesOK
  <1>2. (nPinned + 1) * perLayer <= target * perLayer
    <2>1. nPinned + 1 \in Nat /\ target \in Nat /\ nPinned + 1 <= target
      BY <1>1
    <2> QED BY <1>1, <2>1, TimesGrows
  <1>3. (nPinned + 1) * perLayer = nPinned * perLayer + perLayer
    BY <1>1
  <1>4. nPinned * perLayer \in Nat /\ target * perLayer \in Nat
    BY <1>1
  <1>5. pinnedBytes + Actual[nPinned] <= target * perLayer
    BY <1>1, <1>2, <1>3, <1>4
  <1>6. Memory!Globals + target * perLayer + Memory!RingReserve <= ceiling
    <2>1. CASE target = N
      <3>1. Memory!RingReserve = 0
        BY <2>1, <1>1 DEF Memory!RingReserve
      <3>2. ceiling >= Memory!Globals + N * perLayer
        BY <1>1, <2>1, <1>4, Reckoning DEF Memory!IsTarget, MemoryIInv
      <3> QED BY <3>1, <3>2, <2>1, <1>4, <1>1, Reckoning DEF MemoryIInv
    <2>2. CASE target < N
      <3>1. Memory!RingReserve = Memory!Ring(perLayer)
        BY <2>2 DEF Memory!RingReserve
      <3>2. Memory!Globals + Memory!Ring(perLayer) + target * perLayer <= ceiling
        BY <1>1, <2>2 DEF Memory!IsTarget
      <3> QED BY <3>1, <3>2, <1>1, <1>4, Reckoning DEF MemoryIInv
    <2> QED BY <1>1, <2>1, <2>2
  <1> QED BY <1>1, <1>4, <1>5, <1>6, Reckoning DEF Memory!FitsCeiling, MemoryIInv

\* A loader that runs has reached its target.
PinsAll == phase = "running" => nPinned = target

\* Under layers no larger than estimated, pinning ends with the target reached.
LEMMA StepsPinAll ==
  ASSUME SizesOK, MemoryIInv, PinsAll, [Memory!Next]_Memory!vars
  PROVE  PinsAll'
  <1>1. CASE Memory!StopPinning
    BY <1>1, TargetFits DEF Memory!StopPinning, PinsAll
  <1>2. CASE \/ Memory!Plan \/ Memory!Refuse \/ Memory!Override \/ Memory!Size \/ Memory!Pin
             \/ UNCHANGED Memory!vars
    BY <1>2 DEF Memory!Plan, Memory!Refuse, Memory!Override, Memory!Size, Memory!Pin,
                Memory!vars, PinsAll
  <1> QED BY <1>1, <1>2 DEF Memory!Next

(* What a plan that fits leaves for the layers. *)
LEMMA RoomForLayers ==
  ASSUME SizesOK, MemoryIInv, phase = "running", Memory!Candidates # {}
  PROVE  /\ plan.pinned \in 0..N /\ plan.pinned \in Nat /\ Memory!Buffers \in Nat
         /\ plan.buffers = 0 => plan.pinned = N
         /\ plan.buffers # 0 =>
              /\ plan.pinned < N /\ Memory!Buffers = plan.buffers
              /\ Memory!Globals + Memory!Buffers * Layer + plan.pinned * Layer <= ceiling
         /\ plan.buffers = 0 => Memory!Globals + N * Layer <= ceiling
         /\ Memory!NonWeights(plan.ctx) \in Nat
         /\ ceiling = Budget - Memory!NonWeights(plan.ctx)
  <1>1. plan \in Memory!Candidates /\ ceiling = Budget - Memory!NonWeights(plan.ctx)
    BY DEF MemoryIInv, Planned
  <1>2. /\ plan.ctx \in Ctxs /\ plan.streamHead \in BOOLEAN
        /\ plan.buffers \in Nat /\ plan.pinned \in 0..N
        /\ Memory!Total(plan) <= Budget
    BY <1>1, CandidateType
  <1>3. Memory!NonWeights(plan.ctx) \in Nat
    <2>1. PerCtx[plan.ctx] \in Nat /\ Process \in Nat
      BY <1>2 DEF SizesOK
    <2> QED BY <2>1 DEF Memory!NonWeights
  <1>4. Memory!Buffers \in Nat \ {0}
    <2>1. Memory!TypeOK
      BY DEF MemoryIInv
    <2> QED BY <2>1, Reckoning
  <1>5. plan.buffers = 0 => plan.pinned = N
    <2>1. 0 \notin Memory!BufferOptions
      BY DEF Memory!BufferOptions, SizesOK
    <2> QED BY <1>1, <2>1 DEF Memory!Candidates, Memory!AllPinned, Memory!Streaming
  <1>6. plan.buffers # 0 => plan.pinned < N /\ Memory!Buffers = plan.buffers
    BY <1>1, <1>2 DEF Memory!Candidates, Memory!AllPinned, Memory!Streaming, Memory!Buffers
  <1>7. Memory!Globals + plan.buffers * Layer + plan.pinned * Layer <= ceiling
    <2>1. /\ Memory!Globals \in Nat /\ TablePositions \in Nat /\ HeadWindow \in Nat
          /\ OutNorm \in Nat /\ Embeddings \in Nat /\ HeadResident \in Nat
          /\ Budget \in Nat
      BY Reckoning DEF MemoryIInv, SizesOK
    <2>2. plan.buffers * Layer \in Nat /\ plan.pinned * Layer \in Nat
      BY <1>2 DEF SizesOK
    <2>3. Memory!BaseCost(plan.ctx, plan.streamHead)
            >= Memory!NonWeights(plan.ctx) + Memory!Globals
      BY <1>2, <1>3, <2>1 DEF Memory!BaseCost, Memory!Head, Memory!Globals
    <2>4. Memory!BaseCost(plan.ctx, plan.streamHead) \in Nat
      BY <1>2, <1>3, <2>1 DEF Memory!BaseCost, Memory!Head
    <2>5. Memory!BaseCost(plan.ctx, plan.streamHead) + plan.buffers * Layer
            + plan.pinned * Layer <= Budget
      BY <1>2 DEF Memory!Total
    <2> QED BY <1>1, <1>3, <2>1, <2>2, <2>3, <2>4, <2>5
  <1>8. plan.buffers = 0 => Memory!Globals + N * Layer <= ceiling
    <2>1. plan.buffers = 0 => plan.buffers * Layer = 0
      <3>1. Layer \in Nat
        BY DEF SizesOK
      <3> QED BY <3>1
    <2>2. Memory!Globals \in Nat /\ ceiling \in Int /\ plan.pinned * Layer \in Nat
      BY <1>2, Reckoning DEF MemoryIInv, Memory!TypeOK, SizesOK
    <2> QED BY <1>5, <1>7, <2>1, <2>2
  <1>9. plan.pinned \in Nat
    BY <1>2 DEF SizesOK
  <1> QED BY <1>1, <1>2, <1>3, <1>4, <1>5, <1>6, <1>7, <1>8, <1>9

\* What the loader holds once it runs is within the budget and Unseen.
LEMMA HeldFits ==
  ASSUME SizesOK, MemoryIInv, PinsAll
  PROVE  Memory!HeldWithinBudget
  <1> SUFFICES ASSUME phase = "running", Memory!Candidates # {}
               PROVE  Memory!Held <= Budget + Memory!Unseen
    BY DEF Memory!HeldWithinBudget
  <1>1. /\ perLayer \in 1..Layer /\ Memory!IsTarget(perLayer, target)
        /\ pinnedBytes <= nPinned * perLayer /\ nPinned = target
        /\ target \in 0..N /\ pinnedBytes \in Nat /\ ceiling \in Int
    BY DEF MemoryIInv, Sized, PinsAll, Memory!TypeOK
  <1>2. /\ Memory!NonWeights(plan.ctx) \in Nat
        /\ ceiling = Budget - Memory!NonWeights(plan.ctx)
    BY RoomForLayers
  <1>3. Memory!Globals \in Nat /\ Memory!Ring(perLayer) \in Nat /\ Memory!Unseen \in Nat
    <2>1. Memory!Unseen \in Nat
      BY DEF Memory!Unseen, SizesOK, MemoryIInv, Memory!TypeOK
    <2> QED BY <2>1, Reckoning DEF MemoryIInv
  <1>4. Memory!Globals + pinnedBytes + (IF nPinned < N THEN Memory!Ring(perLayer) ELSE 0)
          <= ceiling
    <2>1. nPinned * perLayer \in Nat
      BY <1>1
    <2>2. CASE target = N
      <3>1. ceiling >= Memory!Globals + N * perLayer
        <4>1. N \in Nat /\ N > 0 /\ perLayer \in Nat /\ perLayer > 0
          BY <1>1 DEF SizesOK
        <4> QED BY <1>1, <1>3, <2>2, <4>1 DEF Memory!IsTarget
      <3> QED BY <1>1, <1>3, <2>1, <2>2, <3>1 DEF SizesOK
    <2>3. CASE target < N /\ ceiling > Memory!Globals + Memory!Ring(perLayer)
      <3>1. Memory!Globals + Memory!Ring(perLayer) + target * perLayer <= ceiling
        BY <1>1, <1>3, <2>3 DEF Memory!IsTarget, SizesOK
      <3> QED BY <1>1, <1>3, <2>1, <2>3, <3>1
    <2>4. CASE target < N /\ ceiling <= Memory!Globals + Memory!Ring(perLayer)
      <3>1. target = 0 /\ ceiling < Memory!Globals + N * perLayer
        BY <1>1, <1>3, <2>4 DEF Memory!IsTarget, SizesOK
      <3>2. perLayer \in Nat /\ Layer \in Nat /\ perLayer <= Layer /\ N \in Nat
        BY <1>1 DEF SizesOK
      <3>3. N * perLayer <= N * Layer /\ N * perLayer \in Nat /\ N * Layer \in Nat
        BY <3>2, TimesGrows
      <3>4. plan.buffers # 0
        BY <3>1, <3>3, <1>1, <1>3, RoomForLayers
      <3>5. /\ plan.pinned \in Nat /\ Memory!Buffers \in Nat
            /\ Memory!Globals + Memory!Buffers * Layer + plan.pinned * Layer <= ceiling
        BY <3>4, RoomForLayers
      <3>6. Memory!Ring(perLayer) <= Memory!Buffers * Layer /\ Memory!Buffers * Layer \in Nat
        BY <3>2, <3>5, TimesGrows DEF Memory!Ring
      <3>7. plan.pinned * Layer \in Nat
        BY <3>2, <3>5
      <3>8. Memory!Globals + Memory!Ring(perLayer) <= ceiling
        BY <3>5, <3>6, <3>7, <1>1, <1>3
      <3>9. pinnedBytes = 0
        <4>1. nPinned * perLayer = 0
          BY <3>1, <3>2, <1>1
        <4> QED BY <4>1, <1>1
      <3> QED BY <3>1, <3>8, <3>9, <1>1, <1>3
    <2> QED BY <1>1, <1>3, <2>2, <2>3, <2>4 DEF SizesOK
  <1>5. Budget \in Nat /\ pinnedBytes \in Nat
    BY <1>1 DEF SizesOK
  <1> QED BY <1>1, <1>2, <1>3, <1>4, <1>5 DEF Memory!Held

\* What the loader pins is no less than what the plan reported.
LEMMA EnoughPinned ==
  ASSUME SizesOK, MemoryIInv, PinsAll
  PROVE  Memory!PlanIsKept
  <1> SUFFICES ASSUME phase = "running", Memory!Candidates # {}, target < plan.pinned
               PROVE  FALSE
    <2>1. plan.pinned \in Nat /\ target \in Int
      BY DEF MemoryIInv, Memory!TypeOK
    <2> QED BY <2>1 DEF Memory!PlanIsKept, PinsAll
  <1>1. /\ perLayer \in 1..Layer /\ Memory!IsTarget(perLayer, target)
        /\ target \in 0..N /\ ceiling \in Int
        /\ perLayer \in Nat /\ Layer \in Nat /\ perLayer <= Layer /\ N \in Nat
    BY DEF MemoryIInv, Sized, Memory!TypeOK, SizesOK
  <1>2. plan.pinned \in 0..N /\ target < N
    BY <1>1, RoomForLayers
  <1>3. Memory!Globals \in Nat /\ Memory!Ring(perLayer) \in Nat
    BY Reckoning DEF MemoryIInv
  <1>4. /\ ceiling < Memory!Globals + N * perLayer
        /\ \/ ceiling <= Memory!Globals + Memory!Ring(perLayer)
           \/ Memory!Globals + Memory!Ring(perLayer) + (target + 1) * perLayer > ceiling
    BY <1>1, <1>2, <1>3 DEF Memory!IsTarget
  <1>5. N * perLayer <= N * Layer /\ N * perLayer \in Nat /\ N * Layer \in Nat
    BY <1>1, TimesGrows
  <1>6. plan.buffers # 0
    BY <1>1, <1>3, <1>4, <1>5, RoomForLayers
  <1>7. /\ Memory!Buffers \in Nat
        /\ Memory!Globals + Memory!Buffers * Layer + plan.pinned * Layer <= ceiling
    BY <1>6, RoomForLayers
  <1>8. Memory!Ring(perLayer) <= Memory!Buffers * Layer /\ Memory!Buffers * Layer \in Nat
    BY <1>1, <1>7, TimesGrows DEF Memory!Ring
  <1>9. /\ (target + 1) * perLayer <= plan.pinned * Layer
        /\ plan.pinned * Layer \in Nat /\ (target + 1) * perLayer \in Nat
        /\ plan.pinned * Layer > 0
    <2>1. target + 1 \in Nat /\ plan.pinned \in Nat /\ target + 1 <= plan.pinned
      BY <1>1, <1>2
    <2>2. (target + 1) * perLayer <= plan.pinned * perLayer
      BY <1>1, <2>1, TimesGrows
    <2>3. plan.pinned * perLayer <= plan.pinned * Layer
      BY <1>1, <2>1, TimesGrows
    <2>4. /\ (target + 1) * perLayer \in Nat /\ plan.pinned * perLayer \in Nat
          /\ plan.pinned * Layer \in Nat
      BY <1>1, <2>1
    <2>5. (target + 1) * perLayer = target * perLayer + perLayer
      BY <1>1
    <2>6. target * perLayer \in Nat
      BY <1>1
    <2> QED BY <1>1, <2>2, <2>3, <2>4, <2>5, <2>6
  <1> QED BY <1>1, <1>3, <1>4, <1>7, <1>8, <1>9

(* The contract of src/include/llm/mem_plan.h:12 as far as the code keeps  *)
(* it: a plan that fits holds no more than the budget and the allocations  *)
(* the loader's sum leaves out (Unseen).                                   *)
THEOREM BudgetKept ==
  ASSUME SizesOK, LayersFitBlk0
  PROVE  Memory!Spec => []Memory!HeldWithinBudget
  <1>1. Memory!Init => MemoryIInv /\ PinsAll
    BY MemoryTypedAtStart DEF Memory!Init, MemoryIInv, Planned, Sized, Unpinned, PinsAll
  <1>2. Memory!TypeOK /\ Memory!TypeOK' /\ MemoryIInv /\ PinsAll /\ [Memory!Next]_Memory!vars
          => MemoryIInv' /\ PinsAll'
    BY StepsKeepIInv, StepsPinAll
  <1>3. MemoryIInv /\ PinsAll => Memory!HeldWithinBudget
    BY HeldFits
  <1> QED BY <1>1, <1>2, <1>3, MemoryTyped, PTL DEF Memory!Spec

(* At least the layers that the plan reports pinned are pinned             *)
(* (src/src/mem_plan.cpp:237, src/src/loader.cpp:222-230).                 *)
THEOREM PlanKept ==
  ASSUME SizesOK, LayersFitBlk0
  PROVE  Memory!Spec => []Memory!PlanIsKept
  <1>1. Memory!Init => MemoryIInv /\ PinsAll
    BY MemoryTypedAtStart DEF Memory!Init, MemoryIInv, Planned, Sized, Unpinned, PinsAll
  <1>2. Memory!TypeOK /\ Memory!TypeOK' /\ MemoryIInv /\ PinsAll /\ [Memory!Next]_Memory!vars
          => MemoryIInv' /\ PinsAll'
    BY StepsKeepIInv, StepsPinAll
  <1>3. MemoryIInv /\ PinsAll => Memory!PlanIsKept
    BY EnoughPinned
  <1> QED BY <1>1, <1>2, <1>3, MemoryTyped, PTL DEF Memory!Spec
=============================================================================
