------------------------- MODULE SemanticCache_proofs -------------------------
(***************************************************************************)
(* Proofs about SemanticCache, for every vocabulary, budget and set of     *)
(* prompts: its types, its books, what eviction spares, and that it        *)
(* implements PrefixStore.                                                 *)
(*                                                                         *)
(* The first part is about trees alone: what a split, a new leaf and an    *)
(* eviction do to the tokens and rows a tree holds, to the order of its    *)
(* list and to the nodes a sequence passes.  The second states the         *)
(* inductive invariant and that the steps of the cache keep it; the third  *)
(* maps each of them to a step of the store.                               *)
(***************************************************************************)
EXTENDS SemanticCache, FiniteSetTheorems, SequenceTheorems, WellFoundedInduction, TLAPS

\* What a node of a tree is.
NodeType == [prefix : Seq(Tokens), rows : Seq(Seq(Tokens)),
             children : UNION {[T -> Nat] : T \in SUBSET Tokens}, parent : Nat]

\* The nodes of a tree t below the root.
Below(t) == DOMAIN t \ {Root}

\* Numbered nodes, the root among them.
Typed(t) ==
  /\ DOMAIN t \in SUBSET Nat /\ IsFiniteSet(DOMAIN t) /\ Root \in DOMAIN t
  /\ t \in [DOMAIN t -> NodeType]
  /\ t[Root].prefix = <<>>

\* A node below the root is the child its parent has for its first token.
IsJoined(t, n) ==
  /\ t[n].prefix # <<>> /\ Len(t[n].rows) = Len(t[n].prefix)
  /\ t[n].parent \in DOMAIN t
  /\ t[n].prefix[1] \in DOMAIN t[t[n].parent].children
  /\ t[t[n].parent].children[t[n].prefix[1]] = n

\* And the other way round.
IsParent(t, n, a) ==
  /\ t[n].children[a] \in Below(t)
  /\ t[t[n].children[a]].parent = n
  /\ t[t[n].children[a]].prefix[1] = a

Joined(t) ==
  /\ \A n \in Below(t) : IsJoined(t, n)
  /\ \A n \in DOMAIN t : \A a \in DOMAIN t[n].children : IsParent(t, n, a)

\* r goes up from parent to child, to b at most.
Ranks(t, b, r) ==
  /\ b \in Nat /\ r \in [DOMAIN t -> 0 .. b]
  /\ \A n \in Below(t) : r[t[n].parent] < r[n]

Ranked(t) == \E b, r : Ranks(t, b, r)

Tree(t) == Typed(t) /\ Joined(t) /\ Ranked(t)

\* A nonempty set of naturals has a least element.
LEMMA LeastOf ==
  ASSUME NEW T \in SUBSET Nat, T # {}
  PROVE  \E i_0 \in T : \A j_0 \in T : i_0 <= j_0
<1>1. PICK i_0 \in T : \A j_0 \in T : ~(<<j_0, i_0>> \in OpToRel(<, Nat))
  BY NatLessThanWellFounded, WFMin
<1>2. \A j_0 \in T : <<j_0, i_0>> \in Nat \X Nat
  OBVIOUS
<1>3. \A j_0 \in T : <<j_0, i_0>>[1] < <<j_0, i_0>>[2] => <<j_0, i_0>> \in OpToRel(<, Nat)
  BY <1>2, Zenon DEF OpToRel
<1>4. \A j_0 \in T : ~(j_0 < i_0)
  BY <1>1, <1>3
<1> QED BY <1>4

\* make_shared returns a node that is not in use.
LEMMA FreshIs ==
  ASSUME NEW from \in SUBSET Nat, IsFiniteSet(from)
  PROVE  Fresh(from) \in Nat \ from
<1> DEFINE spare == 0 .. Cardinality(from) \ from
<1>1. Cardinality(from) \in Nat
  BY FS_CardinalityType
<1>2. IsFiniteSet(0 .. Cardinality(from)) /\ Cardinality(0 .. Cardinality(from)) = Cardinality(from) + 1
  BY <1>1, FS_Interval
<1>3. spare # {}
  <2>1. SUFFICES ASSUME spare = {} PROVE FALSE
    OBVIOUS
  <2>2. 0 .. Cardinality(from) \in SUBSET from
    BY <2>1
  <2>3. Cardinality(0 .. Cardinality(from)) <= Cardinality(from)
    BY <2>2, FS_Subset
  <2> QED BY <1>1, <1>2, <2>3
<1>4. spare \in SUBSET Nat
  BY <1>1
<1> HIDE DEF spare
<1>5. \E m \in spare : \A j \in spare : m <= j
  BY <1>3, <1>4, LeastOf
<1>6. Min(spare) \in spare
  BY <1>5 DEF Min
<1> QED BY <1>4, <1>6 DEF Fresh, spare

-----------------------------------------------------------------------------
(* The three changes of a tree.                                            *)

\* t with the child ch of c split after k tokens, s above what is left of it.
SplitTree(t, c, ch, k, s) ==
  With([t EXCEPT ![ch].prefix = SubSeq(t[ch].prefix, k + 1, Len(t[ch].prefix)),
                 ![ch].rows = SubSeq(@, k + 1, Len(@)),
                 ![ch].parent = s,
                 ![c].children = With(@, t[ch].prefix[1], s)],
       s,
       [prefix |-> SubSeq(t[ch].prefix, 1, k),
        rows |-> SubSeq(t[ch].rows, 1, k),
        children |-> [a \in {t[ch].prefix[k + 1]} |-> ch],
        parent |-> c])

\* t with a leaf l below c.
GrownTree(t, c, l, e) == With([t EXCEPT ![c].children = With(@, e.prefix[1], l)], l, e)

\* t without the leaf l.
PrunedTree(t, l) ==
  Restrict([t EXCEPT ![t[l].parent].children = Restrict(@, DOMAIN @ \ {t[l].prefix[1]})],
           DOMAIN t \ {l})

\* All fields but the children.
SameBut(e, f) == e.prefix = f.prefix /\ e.rows = f.rows /\ e.parent = f.parent

IsSplit(t, u, c, ch, k, s) ==
  /\ DOMAIN u = DOMAIN t \cup {s}
  /\ u \in [DOMAIN u -> NodeType]
  /\ u[s].prefix = SubSeq(t[ch].prefix, 1, k)
  /\ u[s].rows = SubSeq(t[ch].rows, 1, k)
  /\ u[s].children = [a \in {t[ch].prefix[k + 1]} |-> ch]
  /\ u[s].parent = c
  /\ u[ch].prefix = SubSeq(t[ch].prefix, k + 1, Len(t[ch].prefix))
  /\ u[ch].rows = SubSeq(t[ch].rows, k + 1, Len(t[ch].rows))
  /\ u[ch].children = t[ch].children
  /\ u[ch].parent = s
  /\ SameBut(u[c], t[c])
  /\ u[c].children = With(t[c].children, t[ch].prefix[1], s)
  /\ \A n \in DOMAIN t \ {c, ch} : u[n] = t[n]

IsGrown(t, u, c, l, e) ==
  /\ DOMAIN u = DOMAIN t \cup {l}
  /\ u \in [DOMAIN u -> NodeType]
  /\ u[l] = e
  /\ SameBut(u[c], t[c])
  /\ u[c].children = With(t[c].children, e.prefix[1], l)
  /\ \A n \in DOMAIN t \ {c} : u[n] = t[n]

IsPruned(t, u, l) ==
  LET c == t[l].parent
  IN  /\ DOMAIN u = DOMAIN t \ {l}
      /\ u \in [DOMAIN u -> NodeType]
      /\ SameBut(u[c], t[c])
      /\ u[c].children = Restrict(t[c].children, DOMAIN t[c].children \ {t[l].prefix[1]})
      /\ \A n \in DOMAIN t \ {c, l} : u[n] = t[n]

\* What a node's fields are.
LEMMA NodeIs ==
  ASSUME NEW e \in NodeType
  PROVE  /\ e.prefix \in Seq(Tokens) /\ e.rows \in Seq(Seq(Tokens)) /\ e.parent \in Nat
         /\ DOMAIN e.children \in SUBSET Tokens
         /\ e.children \in [DOMAIN e.children -> Nat]
  BY DEF NodeType

\* children may be given one more entry, or fewer.
LEMMA ChildrenMay ==
  ASSUME NEW e \in NodeType, NEW a \in Tokens, NEW n \in Nat
  PROVE  /\ [e EXCEPT !.children = With(@, a, n)] \in NodeType
         /\ [e EXCEPT !.children = Restrict(@, DOMAIN @ \ {a})] \in NodeType
<1>1. With(e.children, a, n) \in UNION {[T -> Nat] : T \in SUBSET Tokens}
  <2>1. DOMAIN e.children \cup {a} \in SUBSET Tokens
    BY NodeIs
  <2>2. With(e.children, a, n) \in [DOMAIN e.children \cup {a} -> Nat]
    BY NodeIs DEF With
  <2> QED BY <2>1, <2>2
<1>2. Restrict(e.children, DOMAIN e.children \ {a}) \in UNION {[T -> Nat] : T \in SUBSET Tokens}
  <2>1. DOMAIN e.children \ {a} \in SUBSET Tokens
    BY NodeIs
  <2>2. Restrict(e.children, DOMAIN e.children \ {a}) \in [DOMAIN e.children \ {a} -> Nat]
    BY NodeIs DEF Restrict
  <2> QED BY <2>1, <2>2
<1> QED BY <1>1, <1>2 DEF NodeType

\* The parts of a sequence cut after k.
LEMMA CutIs ==
  ASSUME NEW S, NEW s \in Seq(S), NEW k \in 0 .. Len(s)
  PROVE  /\ SubSeq(s, 1, k) \in Seq(S) /\ Len(SubSeq(s, 1, k)) = k
         /\ \A j \in 1 .. k : SubSeq(s, 1, k)[j] = s[j]
         /\ SubSeq(s, k + 1, Len(s)) \in Seq(S) /\ Len(SubSeq(s, k + 1, Len(s))) = Len(s) - k
         /\ \A j \in 1 .. Len(s) - k : SubSeq(s, k + 1, Len(s))[j] = s[k + j]
         /\ SubSeq(s, 1, k) \o SubSeq(s, k + 1, Len(s)) = s
<1>0. Len(s) \in Nat /\ k \in Nat /\ k <= Len(s)
  OBVIOUS
<1>1. \A j \in 1 .. k : s[j] \in S
  OBVIOUS
<1>2. \A j \in k + 1 .. Len(s) : s[j] \in S
  OBVIOUS
<1>3. /\ SubSeq(s, 1, k) \in Seq(S) /\ Len(SubSeq(s, 1, k)) = IF 1 <= k THEN k - 1 + 1 ELSE 0
      /\ \A j \in 1 .. k - 1 + 1 : SubSeq(s, 1, k)[j] = s[1 + j - 1]
  BY <1>0, <1>1, SubSeqProperties
<1>4. /\ SubSeq(s, k + 1, Len(s)) \in Seq(S)
      /\ Len(SubSeq(s, k + 1, Len(s))) = IF k + 1 <= Len(s) THEN Len(s) - (k + 1) + 1 ELSE 0
      /\ \A j \in 1 .. Len(s) - (k + 1) + 1 : SubSeq(s, k + 1, Len(s))[j] = s[k + 1 + j - 1]
  BY <1>0, <1>2, SubSeqProperties
<1>5. SubSeq(s, 1, k) \o SubSeq(s, k + 1, Len(s)) = SubSeq(s, 1, Len(s))
  <2>1. 1 \in 1 .. Len(s) + 1 /\ k \in 1 - 1 .. Len(s) /\ Len(s) \in k .. Len(s)
    BY <1>0
  <2> QED BY <2>1, ConcatAdjacentSubSeq
<1>6. SubSeq(s, 1, Len(s)) = s
  BY SubSeqFull
<1>7. \A j \in 1 .. k : SubSeq(s, 1, k)[j] = s[j]
  <2> TAKE j \in 1 .. k
  <2>1. j \in 1 .. k - 1 + 1 /\ 1 + j - 1 = j
    BY <1>0
  <2> QED BY <1>3, <2>1
<1>8. \A j \in 1 .. Len(s) - k : SubSeq(s, k + 1, Len(s))[j] = s[k + j]
  <2> TAKE j \in 1 .. Len(s) - k
  <2>1. j \in 1 .. Len(s) - (k + 1) + 1 /\ k + 1 + j - 1 = k + j
    BY <1>0
  <2> QED BY <1>4, <2>1
<1>9. Len(SubSeq(s, 1, k)) = k
  BY <1>0, <1>3
<1>10. Len(SubSeq(s, k + 1, Len(s))) = Len(s) - k
  BY <1>0, <1>4
<1> QED BY <1>3, <1>4, <1>5, <1>6, <1>7, <1>8, <1>9, <1>10

\* SplitTree splits.
LEMMA SplitIs ==
  ASSUME NEW t, Typed(t), NEW c \in DOMAIN t, NEW ch \in DOMAIN t, c # ch,
         NEW k \in 1 .. Len(t[ch].prefix) - 1, Len(t[ch].rows) = Len(t[ch].prefix),
         NEW s \in Nat \ DOMAIN t
  PROVE  IsSplit(t, SplitTree(t, c, ch, k, s), c, ch, k, s)
<1> DEFINE u == SplitTree(t, c, ch, k, s)
           v == [t EXCEPT ![ch].prefix = SubSeq(t[ch].prefix, k + 1, Len(t[ch].prefix)),
                          ![ch].rows = SubSeq(@, k + 1, Len(@)),
                          ![ch].parent = s,
                          ![c].children = With(@, t[ch].prefix[1], s)]
           lower == [t[ch] EXCEPT !.prefix = SubSeq(t[ch].prefix, k + 1, Len(t[ch].prefix)),
                                  !.rows = SubSeq(t[ch].rows, k + 1, Len(t[ch].rows)),
                                  !.parent = s]
           above == [t[c] EXCEPT !.children = With(@, t[ch].prefix[1], s)]
           upper == [prefix |-> SubSeq(t[ch].prefix, 1, k),
                     rows |-> SubSeq(t[ch].rows, 1, k),
                     children |-> [a \in {t[ch].prefix[k + 1]} |-> ch],
                     parent |-> c]
<1>1. t[ch] \in NodeType /\ t[c] \in NodeType /\ c \in Nat /\ ch \in Nat /\ s \in Nat
  BY DEF Typed
<1>2. /\ t[ch].prefix \in Seq(Tokens) /\ t[ch].rows \in Seq(Seq(Tokens))
      /\ Len(t[ch].prefix) \in Nat /\ k \in 0 .. Len(t[ch].prefix) /\ k \in 0 .. Len(t[ch].rows)
      /\ t[ch].prefix[1] \in Tokens /\ t[ch].prefix[k + 1] \in Tokens
  <2>1. t[ch].prefix \in Seq(Tokens) /\ t[ch].rows \in Seq(Seq(Tokens))
    BY <1>1, NodeIs
  <2>2. Len(t[ch].prefix) \in Nat
    BY <2>1
  <2>3. 1 \in 1 .. Len(t[ch].prefix) /\ k + 1 \in 1 .. Len(t[ch].prefix)
    BY <2>2
  <2> QED BY <2>1, <2>2, <2>3
<1>3. lower \in NodeType
  <2>1. SubSeq(t[ch].prefix, k + 1, Len(t[ch].prefix)) \in Seq(Tokens)
    BY <1>2, CutIs
  <2>2. SubSeq(t[ch].rows, k + 1, Len(t[ch].rows)) \in Seq(Seq(Tokens))
    BY <1>2, CutIs
  <2> QED BY <1>1, <2>1, <2>2 DEF NodeType
<1>4. above \in NodeType
  BY <1>1, <1>2, ChildrenMay
<1>5. upper \in NodeType
  <2>1. SubSeq(t[ch].prefix, 1, k) \in Seq(Tokens) /\ SubSeq(t[ch].rows, 1, k) \in Seq(Seq(Tokens))
    BY <1>2, CutIs
  <2>2. [a \in {t[ch].prefix[k + 1]} |-> ch] \in UNION {[T -> Nat] : T \in SUBSET Tokens}
    <3>1. {t[ch].prefix[k + 1]} \in SUBSET Tokens
      BY <1>2
    <3>2. [a \in {t[ch].prefix[k + 1]} |-> ch] \in [{t[ch].prefix[k + 1]} -> Nat]
      BY <1>1
    <3> QED BY <3>1, <3>2
  <2> QED BY <1>1, <2>1, <2>2 DEF NodeType
<1>6. /\ DOMAIN v = DOMAIN t /\ v[ch] = lower /\ v[c] = above
      /\ \A n \in DOMAIN t \ {c, ch} : v[n] = t[n]
  BY <1>1 DEF Typed, NodeType
<1>7. u = With(v, s, upper)
  BY DEF SplitTree
<1>8. /\ DOMAIN u = DOMAIN t \cup {s} /\ u[s] = upper /\ u[ch] = lower /\ u[c] = above
      /\ \A n \in DOMAIN t \ {c, ch} : u[n] = t[n]
  <2> HIDE DEF u, v, upper, lower, above
  <2>1. /\ DOMAIN u = DOMAIN v \cup {s} /\ u[s] = upper
        /\ \A n \in DOMAIN v : n # s => u[n] = v[n]
    <3>1. /\ DOMAIN With(v, s, upper) = DOMAIN v \cup {s}
          /\ With(v, s, upper)[s] = upper
          /\ \A n \in DOMAIN v : n # s => With(v, s, upper)[n] = v[n]
      BY DEF With
    <3> QED BY <1>7, <3>1, Zenon
  <2>2. \A n \in DOMAIN t : n # s
    OBVIOUS
  <2> QED BY <1>6, <2>1, <2>2
<1>9. u = [n \in DOMAIN u |-> u[n]]
  BY DEF SplitTree, With
<1>10. u \in [DOMAIN u -> NodeType]
  <2>1. \A n \in DOMAIN u : u[n] \in NodeType
    <3> HIDE DEF u, v, upper, lower, above
    <3> QED BY <1>3, <1>4, <1>5, <1>8 DEF Typed
  <2> HIDE DEF u
  <2> QED BY <1>9, <2>1
<1>11. /\ lower.prefix = SubSeq(t[ch].prefix, k + 1, Len(t[ch].prefix))
       /\ lower.rows = SubSeq(t[ch].rows, k + 1, Len(t[ch].rows))
       /\ lower.children = t[ch].children /\ lower.parent = s
  BY <1>1 DEF NodeType
<1>12. SameBut(above, t[c]) /\ above.children = With(t[c].children, t[ch].prefix[1], s)
  BY <1>1 DEF NodeType, SameBut
<1>13. /\ upper.prefix = SubSeq(t[ch].prefix, 1, k) /\ upper.rows = SubSeq(t[ch].rows, 1, k)
       /\ upper.children = [a \in {t[ch].prefix[k + 1]} |-> ch] /\ upper.parent = c
  OBVIOUS
<1> HIDE DEF u, v, upper, lower, above
<1>14. IsSplit(t, u, c, ch, k, s)
  BY <1>8, <1>10, <1>11, <1>12, <1>13 DEF IsSplit
<1> QED BY <1>14 DEF u

\* GrownTree adds a leaf.
LEMMA GrownIs ==
  ASSUME NEW t, Typed(t), NEW c \in DOMAIN t, NEW e \in NodeType, e.prefix # <<>>,
         NEW l \in Nat \ DOMAIN t
  PROVE  IsGrown(t, GrownTree(t, c, l, e), c, l, e)
<1> DEFINE u == GrownTree(t, c, l, e)
           v == [t EXCEPT ![c].children = With(@, e.prefix[1], l)]
           above == [t[c] EXCEPT !.children = With(@, e.prefix[1], l)]
<1>1. t[c] \in NodeType /\ l # c
  BY DEF Typed
<1>2. e.prefix[1] \in Tokens
  <2>1. e.prefix \in Seq(Tokens)
    BY NodeIs
  <2>2. 1 \in 1 .. Len(e.prefix)
    BY <2>1
  <2> QED BY <2>1, <2>2
<1>3. above \in NodeType
  BY <1>1, <1>2, ChildrenMay
<1>4. DOMAIN v = DOMAIN t /\ v[c] = above /\ \A n \in DOMAIN t \ {c} : v[n] = t[n]
  BY <1>1 DEF Typed, NodeType
<1>5. u = With(v, l, e)
  BY DEF GrownTree
<1>6. /\ DOMAIN u = DOMAIN t \cup {l} /\ u[l] = e /\ u[c] = above
      /\ \A n \in DOMAIN t \ {c} : u[n] = t[n]
  <2> HIDE DEF u, v, above
  <2>1. /\ DOMAIN u = DOMAIN v \cup {l} /\ u[l] = e
        /\ \A n \in DOMAIN v : n # l => u[n] = v[n]
    <3>1. /\ DOMAIN With(v, l, e) = DOMAIN v \cup {l}
          /\ With(v, l, e)[l] = e
          /\ \A n \in DOMAIN v : n # l => With(v, l, e)[n] = v[n]
      BY DEF With
    <3> QED BY <1>5, <3>1, Zenon
  <2>2. \A n \in DOMAIN t : n # l
    OBVIOUS
  <2> QED BY <1>4, <2>1, <2>2
<1>7. u = [n \in DOMAIN u |-> u[n]]
  BY DEF GrownTree, With
<1>8. u \in [DOMAIN u -> NodeType]
  <2>1. \A n \in DOMAIN u : u[n] \in NodeType
    <3> HIDE DEF u, v, above
    <3> QED BY <1>3, <1>6 DEF Typed
  <2> HIDE DEF u
  <2> QED BY <1>7, <2>1
<1>9. SameBut(above, t[c]) /\ above.children = With(t[c].children, e.prefix[1], l)
  BY <1>1 DEF NodeType, SameBut
<1> HIDE DEF u, v, above
<1>10. IsGrown(t, u, c, l, e)
  BY <1>6, <1>8, <1>9 DEF IsGrown
<1> QED BY <1>10 DEF u

\* PrunedTree takes a leaf away.
LEMMA PrunedIs ==
  ASSUME NEW t, Typed(t), NEW l \in Below(t), IsJoined(t, l), t[l].parent # l
  PROVE  IsPruned(t, PrunedTree(t, l), l)
<1> DEFINE u == PrunedTree(t, l)
           c == t[l].parent
           v == [t EXCEPT ![c].children = Restrict(@, DOMAIN @ \ {t[l].prefix[1]})]
           above == [t[c] EXCEPT !.children = Restrict(@, DOMAIN @ \ {t[l].prefix[1]})]
<1>1. c \in DOMAIN t /\ t[c] \in NodeType /\ l \in DOMAIN t /\ l # c /\ t[l].prefix[1] \in Tokens
  <2>1. c \in DOMAIN t /\ l \in DOMAIN t /\ l # c
    BY DEF IsJoined, Below
  <2>2. t[c] \in NodeType /\ t[l] \in NodeType
    BY <2>1 DEF Typed
  <2>3. t[l].prefix[1] \in Tokens
    BY <2>2, NodeIs DEF IsJoined
  <2> QED BY <2>1, <2>2, <2>3
<1>2. above \in NodeType
  BY <1>1, ChildrenMay
<1>3. DOMAIN v = DOMAIN t /\ v[c] = above /\ \A n \in DOMAIN t \ {c} : v[n] = t[n]
  BY <1>1 DEF Typed, NodeType
<1>4. u = [n \in DOMAIN t \ {l} |-> v[n]]
  BY DEF PrunedTree, Restrict
<1>5. /\ DOMAIN u = DOMAIN t \ {l} /\ u[c] = above
      /\ \A n \in DOMAIN t \ {c, l} : u[n] = t[n]
  <2> HIDE DEF u, v, above, c
  <2> QED BY <1>1, <1>3, <1>4
<1>6. u \in [DOMAIN u -> NodeType]
  <2>1. \A n \in DOMAIN u : u[n] \in NodeType
    <3> HIDE DEF u, v, above, c
    <3> QED BY <1>1, <1>2, <1>5 DEF Typed
  <2> HIDE DEF u, v
  <2> QED BY <1>4, <2>1
<1>7. /\ SameBut(above, t[c])
      /\ above.children = Restrict(t[c].children, DOMAIN t[c].children \ {t[l].prefix[1]})
  BY <1>1 DEF NodeType, SameBut
<1>8. IsPruned(t, u, l)
  <2> HIDE DEF u, v, above
  <2> QED BY <1>5, <1>6, <1>7 DEF IsPruned
<1> QED BY <1>8

-----------------------------------------------------------------------------
(* They keep it a tree.                                                    *)

\* No node is above itself.
LEMMA Apart ==
  ASSUME NEW t, Tree(t), NEW n \in Below(t)
  PROVE  t[n].parent # n /\ (t[n].parent # Root => t[t[n].parent].parent # n)
<1>1. PICK b, r : Ranks(t, b, r)
  BY DEF Tree, Ranked
<1>2. \A m \in DOMAIN t : r[m] \in Nat
  BY <1>1 DEF Ranks
<1>3. t[n].parent \in DOMAIN t /\ n \in DOMAIN t
  BY DEF Tree, Joined, IsJoined, Below
<1>4. r[t[n].parent] < r[n]
  BY <1>1 DEF Ranks
<1>5. t[n].parent # Root => r[t[t[n].parent].parent] < r[t[n].parent]
  BY <1>1, <1>3 DEF Ranks, Below
<1>6. t[n].parent # Root => t[t[n].parent].parent \in DOMAIN t
  BY <1>3 DEF Tree, Joined, IsJoined, Below
<1>7. t[n].parent # n
  BY <1>2, <1>3, <1>4
<1>8. ASSUME t[n].parent # Root, t[t[n].parent].parent = n PROVE FALSE
  <2>1. r[n] < r[t[n].parent]
    BY <1>5, <1>8
  <2> QED BY <1>2, <1>3, <1>4, <2>1
<1> QED BY <1>7, <1>8

\* A child found by its token.
LEMMA ChildIs ==
  ASSUME NEW t, Tree(t), NEW c \in DOMAIN t, NEW a \in DOMAIN t[c].children
  PROVE  /\ t[c].children[a] \in Below(t) /\ t[c].children[a] \in DOMAIN t
         /\ t[c].children[a] # c /\ t[t[c].children[a]].parent = c
         /\ IsJoined(t, t[c].children[a])
         /\ t[t[c].children[a]].prefix[1] = a /\ a \in Tokens
<1>1. IsParent(t, c, a)
  BY DEF Tree, Joined
<1>2. t[c].children[a] \in Below(t) /\ t[t[c].children[a]].parent = c /\ t[t[c].children[a]].prefix[1] = a
  BY <1>1 DEF IsParent
<1>3. IsJoined(t, t[c].children[a])
  BY <1>2 DEF Tree, Joined
<1>4. t[c].children[a] # c
  BY <1>2, Apart
<1>5. t[c] \in NodeType
  BY DEF Tree, Typed
<1> QED BY <1>2, <1>3, <1>4, <1>5, NodeIs DEF Below

\* What is split has tokens on both sides of the split.
LEMMA SplitKeepsTree ==
  ASSUME NEW t, Tree(t), NEW c \in DOMAIN t, NEW a \in DOMAIN t[c].children,
         NEW ch, ch = t[c].children[a], NEW k \in 1 .. Len(t[ch].prefix) - 1,
         NEW s \in Nat \ DOMAIN t, NEW u, IsSplit(t, u, c, ch, k, s)
  PROVE  Tree(u)
<1>1. /\ ch \in Below(t) /\ ch \in DOMAIN t /\ ch # c /\ t[ch].parent = c /\ IsJoined(t, ch)
      /\ t[ch].prefix[1] = a /\ a \in Tokens
  BY ChildIs
<1>2. t[ch] \in NodeType /\ c \in Nat /\ ch \in Nat /\ s # Root /\ s \notin DOMAIN t /\ s # ch /\ s # c
  BY <1>1 DEF Tree, Typed
<1>3. /\ t[ch].prefix \in Seq(Tokens) /\ t[ch].rows \in Seq(Seq(Tokens))
      /\ Len(t[ch].prefix) \in Nat /\ Len(t[ch].rows) = Len(t[ch].prefix)
      /\ k \in Nat /\ k > 0 /\ k < Len(t[ch].prefix)
  <2>1. t[ch].prefix \in Seq(Tokens) /\ t[ch].rows \in Seq(Seq(Tokens))
    BY <1>2, NodeIs
  <2> QED BY <1>1, <2>1 DEF IsJoined
<1>4. /\ u[s].prefix # <<>> /\ Len(u[s].rows) = Len(u[s].prefix) /\ u[s].prefix[1] = a
      /\ u[ch].prefix # <<>> /\ Len(u[ch].rows) = Len(u[ch].prefix)
      /\ u[ch].prefix[1] = t[ch].prefix[k + 1]
  <2>1. k \in 0 .. Len(t[ch].prefix) /\ k \in 0 .. Len(t[ch].rows)
    BY <1>3
  <2>2. Len(u[s].prefix) = k /\ Len(u[s].rows) = k
    <3>1. Len(SubSeq(t[ch].prefix, 1, k)) = k
      BY <1>3, <2>1, CutIs
    <3>2. Len(SubSeq(t[ch].rows, 1, k)) = k
      BY <1>3, <2>1, CutIs
    <3>3. u[s].prefix = SubSeq(t[ch].prefix, 1, k) /\ u[s].rows = SubSeq(t[ch].rows, 1, k)
      BY Zenon DEF IsSplit
    <3> QED BY <3>1, <3>2, <3>3
  <2>3. /\ Len(u[ch].prefix) = Len(t[ch].prefix) - k
        /\ Len(u[ch].rows) = Len(t[ch].rows) - k
    <3>0. \A x \in Seq(Tokens) : k \in 0 .. Len(x)
                => Len(SubSeq(x, k + 1, Len(x))) = Len(x) - k
      BY CutIs
    <3>1. Len(SubSeq(t[ch].prefix, k + 1, Len(t[ch].prefix))) = Len(t[ch].prefix) - k
      BY <1>3, <2>1, <3>0
    <3>2. Len(SubSeq(t[ch].rows, k + 1, Len(t[ch].rows))) = Len(t[ch].rows) - k
      BY <1>3, <2>1, CutIs
    <3> QED BY <3>1, <3>2 DEF IsSplit
  <2>4. 1 \in 1 .. k /\ 1 \in 1 .. Len(t[ch].prefix) - k
    BY <1>3
  <2>5. u[s].prefix[1] = t[ch].prefix[1]
    <3>1. SubSeq(t[ch].prefix, 1, k)[1] = t[ch].prefix[1]
      BY <1>3, <2>1, <2>4, CutIs
    <3>2. u[s].prefix = SubSeq(t[ch].prefix, 1, k)
      BY Zenon DEF IsSplit
    <3> QED BY <3>1, <3>2
  <2>6. u[ch].prefix[1] = t[ch].prefix[k + 1]
    <3>1. SubSeq(t[ch].prefix, k + 1, Len(t[ch].prefix))[1] = t[ch].prefix[k + 1]
      BY <1>3, <2>1, <2>4, CutIs
    <3> QED BY <3>1 DEF IsSplit
  <2>7. Len(<<>>) = 0
    OBVIOUS
  <2>8. u[s].prefix # <<>>
    <3>1. Len(u[s].prefix) # 0
      BY <1>3, <2>2
    <3> QED BY <2>7, <3>1
  <2>9. u[ch].prefix # <<>>
    <3>1. Len(u[ch].prefix) # 0
      BY <1>3, <2>3
    <3> QED BY <2>7, <3>1
  <2> QED BY <1>1, <1>3, <2>2, <2>3, <2>5, <2>6, <2>8, <2>9
<1>5. Typed(u)
  <2>1. DOMAIN u \in SUBSET Nat /\ Root \in DOMAIN u
    BY DEF IsSplit, Tree, Typed
  <2>2. IsFiniteSet(DOMAIN u)
    <3>1. DOMAIN u = DOMAIN t \cup {s}
      BY Zenon DEF IsSplit
    <3>2. IsFiniteSet(DOMAIN t)
      BY DEF Tree, Typed
    <3> QED BY <3>1, <3>2, FS_AddElement
  <2>3. u[Root].prefix = <<>>
    <3>1. Root # ch
      BY <1>1 DEF Below
    <3> QED BY <3>1, ZenonT(30) DEF IsSplit, SameBut, Tree, Typed
  <2> QED BY <2>1, <2>2, <2>3 DEF IsSplit, Typed
<1>6. /\ u[c].prefix = t[c].prefix /\ u[c].rows = t[c].rows /\ u[c].parent = t[c].parent
      /\ DOMAIN u[c].children = DOMAIN t[c].children \cup {a}
      /\ u[c].children[a] = s
      /\ \A b \in DOMAIN t[c].children : b # a => u[c].children[b] = t[c].children[b]
  <2>1. /\ u[c].children = With(t[c].children, t[ch].prefix[1], s)
        /\ SameBut(u[c], t[c])
    BY Zenon DEF IsSplit
  <2> QED BY <1>1, <2>1 DEF SameBut, With
<1>7. ASSUME NEW n \in Below(u) PROVE IsJoined(u, n)
  <2>1. CASE n = s
    <3>1. u[s].parent = c /\ c \in DOMAIN u
      BY DEF IsSplit
    <3> QED BY <1>4, <1>6, <2>1, <3>1 DEF IsJoined
  <2>2. CASE n = ch
    <3>1. u[ch].parent = s /\ s \in DOMAIN u
      BY DEF IsSplit
    <3>2. u[s].children = [x \in {t[ch].prefix[k + 1]} |-> ch]
      BY DEF IsSplit
    <3>3. /\ t[ch].prefix[k + 1] \in DOMAIN u[s].children
          /\ u[s].children[t[ch].prefix[k + 1]] = ch
      BY <3>2
    <3> QED BY <1>4, <2>2, <3>1, <3>3 DEF IsJoined
  <2>3. CASE n # s /\ n # ch
    <3>1. n \in Below(t) /\ IsJoined(t, n)
      BY <2>3 DEF IsSplit, Below, Tree, Joined
    <3>2. u[n].prefix = t[n].prefix /\ u[n].rows = t[n].rows /\ u[n].parent = t[n].parent
      <4>1. CASE n = c
        BY <1>6, <4>1
      <4>2. CASE n # c
        BY <2>3, <3>1, <4>2 DEF IsSplit, Below
      <4> QED BY <4>1, <4>2
    <3> DEFINE p == t[n].parent
               x == t[n].prefix[1]
    <3>3. p \in DOMAIN t /\ x \in DOMAIN t[p].children /\ t[p].children[x] = n
      BY <3>1 DEF IsJoined
    <3>4. x \in DOMAIN u[p].children /\ u[p].children[x] = n
      <4>1. CASE p = c
        <5>1. x # a
          BY <2>3, <3>3, <4>1
        <5> QED BY <1>6, <3>3, <4>1, <5>1
      <4>2. CASE p = ch
        BY <3>3, <4>2 DEF IsSplit
      <4>3. CASE p # c /\ p # ch
        BY <3>3, <4>3 DEF IsSplit
      <4> QED BY <4>1, <4>2, <4>3
    <3>5. p \in DOMAIN u
      BY <3>3 DEF IsSplit
    <3> QED BY <3>1, <3>2, <3>4, <3>5 DEF IsJoined
  <2> QED BY <2>1, <2>2, <2>3
<1>8. ASSUME NEW n \in DOMAIN u, NEW b \in DOMAIN u[n].children PROVE IsParent(u, n, b)
  <2>1. CASE n = s
    <3>1. b = t[ch].prefix[k + 1] /\ u[s].children[b] = ch
      BY <1>8, <2>1 DEF IsSplit
    <3>2. ch \in Below(u) /\ u[ch].parent = s
      BY <1>1 DEF IsSplit, Below
    <3> QED BY <1>4, <2>1, <3>1, <3>2 DEF IsParent
  <2>2. CASE n = c /\ b = a
    <3>1. s \in Below(u) /\ u[s].parent = c
      BY <1>2 DEF IsSplit, Below
    <3> QED BY <1>4, <1>6, <2>2, <3>1 DEF IsParent
  <2>3. CASE n # s /\ ~(n = c /\ b = a)
    <3>1. n \in DOMAIN t
      <4>1. DOMAIN u = DOMAIN t \cup {s}
        BY Zenon DEF IsSplit
      <4> QED BY <2>3, <4>1
    <3>2. b \in DOMAIN t[n].children /\ u[n].children[b] = t[n].children[b]
      <4>1. CASE n = c
        BY <1>6, <1>8, <2>3, <4>1
      <4>2. CASE n = ch
        BY <1>8, <4>2 DEF IsSplit
      <4>3. CASE n # c /\ n # ch
        BY <1>8, <3>1, <4>3 DEF IsSplit
      <4> QED BY <4>1, <4>2, <4>3
    <3> DEFINE m == t[n].children[b]
    <3>3. m \in Below(t) /\ t[m].parent = n /\ t[m].prefix[1] = b
      BY <3>1, <3>2, ChildIs
    <3>4. m # ch
      BY <1>1, <2>3, <3>3
    <3>5. u[m].parent = n /\ u[m].prefix = t[m].prefix
      <4>1. CASE m = c
        BY <1>6, <3>3, <4>1
      <4>2. CASE m # c
        BY <3>3, <3>4, <4>2 DEF IsSplit, Below
      <4> QED BY <4>1, <4>2
    <3>6. m \in Below(u)
      BY <3>3 DEF IsSplit, Below
    <3> QED BY <3>2, <3>3, <3>5, <3>6 DEF IsParent
  <2> QED BY <2>1, <2>2, <2>3
<1>9. Ranked(u)
  <2>1. PICK b, r : Ranks(t, b, r)
    BY DEF Tree, Ranked
  <2>2. b \in Nat /\ r \in [DOMAIN t -> 0 .. b] /\ r[c] < r[ch]
    BY <1>1, <2>1 DEF Ranks
  <2> DEFINE q == [n \in DOMAIN u |-> IF n = s THEN 2 * r[ch] - 1 ELSE 2 * r[n]]
  <2>3. \A n \in DOMAIN t : r[n] \in Nat /\ r[n] <= b
    BY <2>2
  <2>4. r[ch] \in Nat /\ r[c] \in Nat /\ r[ch] > 0 /\ r[ch] <= b
    BY <1>1, <2>2, <2>3
  <2>5. q[s] = 2 * r[ch] - 1 /\ \A n \in DOMAIN t : q[n] = 2 * r[n]
    BY <1>2 DEF IsSplit
  <2>6. q \in [DOMAIN u -> 0 .. 2 * b]
    <3>1. ASSUME NEW n \in DOMAIN u PROVE q[n] \in 0 .. 2 * b
      <4>1. CASE n = s
        <5> HIDE DEF q
        <5> QED BY <2>2, <2>4, <2>5, <4>1
      <4>2. CASE n # s
        <5>1. n \in DOMAIN t
          <6>1. DOMAIN u = DOMAIN t \cup {s}
            BY Zenon DEF IsSplit
          <6> QED BY <4>2, <6>1
        <5> HIDE DEF q
        <5>2. q[n] = 2 * r[n] /\ r[n] \in Nat /\ r[n] <= b
          BY <2>3, <2>5, <5>1
        <5> QED BY <2>2, <5>2
      <4> QED BY <4>1, <4>2
    <3> QED BY <3>1
  <2> HIDE DEF q
  <2>7. ASSUME NEW n \in Below(u) PROVE q[u[n].parent] < q[n]
    <3>1. CASE n = s
      <4>1. u[n].parent = c
        BY <3>1 DEF IsSplit
      <4> QED BY <2>2, <2>4, <2>5, <3>1, <4>1
    <3>2. CASE n = ch
      <4>1. u[n].parent = s
        BY <3>2 DEF IsSplit
      <4> QED BY <1>1, <2>4, <2>5, <3>2, <4>1
    <3>3. CASE n # s /\ n # ch
      <4>1. n \in Below(t) /\ n \in DOMAIN t
        BY <3>3 DEF IsSplit, Below
      <4>2. u[n].parent = t[n].parent
        <5>1. CASE n = c
          BY <1>6, <5>1
        <5>2. CASE n # c
          BY <3>3, <4>1, <5>2 DEF IsSplit
        <5> QED BY <5>1, <5>2
      <4>3. r[t[n].parent] < r[n] /\ t[n].parent \in DOMAIN t
        BY <2>1, <4>1 DEF Ranks, Tree, Joined, IsJoined
      <4>4. /\ r[t[n].parent] \in Nat /\ r[n] \in Nat
            /\ q[t[n].parent] = 2 * r[t[n].parent] /\ q[n] = 2 * r[n]
        BY <2>3, <2>5, <4>1, <4>3
      <4> QED BY <4>2, <4>3, <4>4
    <3> QED BY <3>1, <3>2, <3>3
  <2>8. Ranks(u, 2 * b, q)
    BY <2>2, <2>6, <2>7 DEF Ranks
  <2> QED BY <2>8 DEF Ranked
<1> QED BY <1>5, <1>7, <1>8, <1>9 DEF Tree, Joined

\* The new leaf's first token was not yet a child of c.
LEMMA GrownKeepsTree ==
  ASSUME NEW t, Tree(t), NEW c \in DOMAIN t, NEW e \in NodeType,
         e.prefix # <<>>, Len(e.rows) = Len(e.prefix), e.parent = c, e.children = <<>>,
         e.prefix[1] \notin DOMAIN t[c].children,
         NEW l \in Nat \ DOMAIN t, NEW u, IsGrown(t, u, c, l, e)
  PROVE  Tree(u)
<1>1. l # Root /\ l # c /\ l \notin DOMAIN t /\ u[l] = e
  BY DEF Tree, Typed, IsGrown
<1>2. Typed(u)
  <2>1. DOMAIN u \in SUBSET Nat /\ Root \in DOMAIN u
    BY DEF IsGrown, Tree, Typed
  <2>2. IsFiniteSet(DOMAIN u)
    BY FS_AddElement DEF IsGrown, Tree, Typed
  <2>3. u[Root].prefix = <<>>
    BY DEF IsGrown, SameBut, Tree, Typed
  <2> QED BY <2>1, <2>2, <2>3 DEF IsGrown, Typed
<1>3. /\ u[c].prefix = t[c].prefix /\ u[c].rows = t[c].rows /\ u[c].parent = t[c].parent
      /\ DOMAIN u[c].children = DOMAIN t[c].children \cup {e.prefix[1]}
      /\ u[c].children[e.prefix[1]] = l
      /\ \A b \in DOMAIN t[c].children : u[c].children[b] = t[c].children[b]
  BY DEF IsGrown, SameBut, With
<1>4. ASSUME NEW n \in Below(t)
      PROVE  u[n].prefix = t[n].prefix /\ u[n].rows = t[n].rows /\ u[n].parent = t[n].parent
  <2>1. CASE n = c
    BY <1>3, <2>1
  <2>2. CASE n # c
    BY <2>2 DEF IsGrown, Below
  <2> QED BY <2>1, <2>2
<1>5. ASSUME NEW n \in Below(u) PROVE IsJoined(u, n)
  <2>1. CASE n = l
    <3>1. c \in DOMAIN u
      BY DEF IsGrown
    <3> QED BY <1>1, <1>3, <2>1, <3>1 DEF IsJoined
  <2>2. CASE n # l
    <3>1. n \in Below(t) /\ IsJoined(t, n)
      BY <2>2 DEF IsGrown, Below, Tree, Joined
    <3> DEFINE p == t[n].parent
               x == t[n].prefix[1]
    <3>2. p \in DOMAIN t /\ x \in DOMAIN t[p].children /\ t[p].children[x] = n
      BY <3>1 DEF IsJoined
    <3>3. x \in DOMAIN u[p].children /\ u[p].children[x] = n
      <4>1. CASE p = c
        BY <1>3, <3>2, <4>1
      <4>2. CASE p # c
        BY <3>2, <4>2 DEF IsGrown
      <4> QED BY <4>1, <4>2
    <3>4. p \in DOMAIN u
      BY <3>2 DEF IsGrown
    <3> QED BY <1>4, <3>1, <3>3, <3>4 DEF IsJoined
  <2> QED BY <2>1, <2>2
<1>6. ASSUME NEW n \in DOMAIN u, NEW b \in DOMAIN u[n].children PROVE IsParent(u, n, b)
  <2>1. n # l
    BY <1>1, <1>6
  <2>2. n \in DOMAIN t
    BY <2>1 DEF IsGrown
  <2>3. CASE n = c /\ b = e.prefix[1]
    <3>1. l \in Below(u)
      BY <1>1 DEF IsGrown, Below
    <3> QED BY <1>1, <1>3, <2>3, <3>1 DEF IsParent
  <2>4. CASE ~(n = c /\ b = e.prefix[1])
    <3>1. b \in DOMAIN t[n].children /\ u[n].children[b] = t[n].children[b]
      <4>1. CASE n = c
        BY <1>3, <1>6, <2>4, <4>1
      <4>2. CASE n # c
        BY <1>6, <2>2, <4>2 DEF IsGrown
      <4> QED BY <4>1, <4>2
    <3> DEFINE m == t[n].children[b]
    <3>2. m \in Below(t) /\ t[m].parent = n /\ t[m].prefix[1] = b
      BY <2>2, <3>1, ChildIs
    <3>3. m \in Below(u)
      BY <3>2 DEF IsGrown, Below
    <3>4. u[m].prefix = t[m].prefix /\ u[m].parent = t[m].parent
      BY <1>4, <3>2
    <3> HIDE DEF m
    <3>5. u[n].children[b] = m
      BY <3>1 DEF m
    <3> QED BY <3>2, <3>3, <3>4, <3>5 DEF IsParent
  <2> QED BY <2>3, <2>4
<1>7. Ranked(u)
  <2>1. PICK b, r : Ranks(t, b, r)
    BY DEF Tree, Ranked
  <2>2. b \in Nat /\ r \in [DOMAIN t -> 0 .. b]
    BY <2>1 DEF Ranks
  <2> DEFINE q == [n \in DOMAIN u |-> IF n = l THEN r[c] + 1 ELSE r[n]]
  <2>3. \A n \in DOMAIN t : r[n] \in Nat /\ r[n] <= b
    BY <2>2
  <2>4. q[l] = r[c] + 1 /\ \A n \in DOMAIN t : q[n] = r[n]
    BY <1>1 DEF IsGrown
  <2>5. q \in [DOMAIN u -> 0 .. b + 1]
    <3>1. ASSUME NEW n \in DOMAIN u PROVE q[n] \in 0 .. b + 1
      <4>1. CASE n = l
        <5> HIDE DEF q
        <5> QED BY <2>2, <2>3, <2>4, <4>1
      <4>2. CASE n # l
        <5>1. n \in DOMAIN t
          BY <4>2 DEF IsGrown
        <5> HIDE DEF q
        <5>2. q[n] = r[n] /\ r[n] \in Nat /\ r[n] <= b
          BY <2>3, <2>4, <5>1
        <5> QED BY <2>2, <5>2
      <4> QED BY <4>1, <4>2
    <3> QED BY <3>1
  <2> HIDE DEF q
  <2>6. ASSUME NEW n \in Below(u) PROVE q[u[n].parent] < q[n]
    <3>1. CASE n = l
      BY <1>1, <2>3, <2>4, <3>1
    <3>2. CASE n # l
      <4>1. n \in Below(t) /\ n \in DOMAIN t
        BY <3>2 DEF IsGrown, Below
      <4>2. u[n].parent = t[n].parent
        BY <1>4, <4>1
      <4>3. r[t[n].parent] < r[n] /\ t[n].parent \in DOMAIN t
        BY <2>1, <4>1 DEF Ranks, Tree, Joined, IsJoined
      <4> QED BY <2>4, <4>1, <4>2, <4>3
    <3> QED BY <3>1, <3>2
  <2>7. b + 1 \in Nat
    BY <2>2
  <2>8. Ranks(u, b + 1, q)
    BY <2>5, <2>6, <2>7 DEF Ranks
  <2> QED BY <2>8 DEF Ranked
<1> QED BY <1>2, <1>5, <1>6, <1>7 DEF Tree, Joined

\* Only a leaf is taken away.
LEMMA PrunedKeepsTree ==
  ASSUME NEW t, Tree(t), NEW l \in Below(t), t[l].children = <<>>,
         NEW u, IsPruned(t, u, l)
  PROVE  Tree(u)
<1> DEFINE c == t[l].parent
           a == t[l].prefix[1]
<1>1. /\ c \in DOMAIN t /\ c # l /\ l \in DOMAIN t /\ l # Root
      /\ a \in DOMAIN t[c].children /\ t[c].children[a] = l
  BY Apart DEF Tree, Joined, IsJoined, Below
<1>2. /\ u[c].prefix = t[c].prefix /\ u[c].rows = t[c].rows /\ u[c].parent = t[c].parent
      /\ DOMAIN u[c].children = DOMAIN t[c].children \ {a}
      /\ \A b \in DOMAIN t[c].children : b # a => u[c].children[b] = t[c].children[b]
  BY DEF IsPruned, SameBut, Restrict
<1>3. DOMAIN u = DOMAIN t \ {l} /\ \A n \in DOMAIN t \ {c, l} : u[n] = t[n]
  BY DEF IsPruned
<1>4. \A n \in DOMAIN t : DOMAIN t[l].children = {}
  OBVIOUS
<1> HIDE DEF c, a
<1>5. Typed(u)
  <2>1. DOMAIN u \in SUBSET Nat /\ Root \in DOMAIN u
    BY <1>1, <1>3 DEF Tree, Typed
  <2>2. IsFiniteSet(DOMAIN u)
    BY <1>3, FS_RemoveElement DEF Tree, Typed
  <2>3. u[Root].prefix = <<>>
    BY <1>1, <1>2, <1>3 DEF Tree, Typed
  <2> QED BY <2>1, <2>2, <2>3 DEF IsPruned, Typed
<1>6. ASSUME NEW n \in DOMAIN u
      PROVE  u[n].prefix = t[n].prefix /\ u[n].rows = t[n].rows /\ u[n].parent = t[n].parent
  <2>1. CASE n = c
    BY <1>2, <2>1
  <2>2. CASE n # c
    BY <1>3, <2>2
  <2> QED BY <2>1, <2>2
<1>7. ASSUME NEW n \in Below(u) PROVE IsJoined(u, n)
  <2>1. n \in Below(t) /\ IsJoined(t, n) /\ n # l /\ n \in DOMAIN u
    BY <1>3 DEF Below, Tree, Joined
  <2> DEFINE p == t[n].parent
             x == t[n].prefix[1]
  <2>2. p \in DOMAIN t /\ x \in DOMAIN t[p].children /\ t[p].children[x] = n
    BY <2>1 DEF IsJoined
  <2>3. p # l
    BY <1>1, <1>4, <2>2
  <2>4. x \in DOMAIN u[p].children /\ u[p].children[x] = n
    <3>1. CASE p = c
      <4>1. x # a
        BY <1>1, <2>1, <2>2, <3>1
      <4> QED BY <1>2, <2>2, <3>1, <4>1
    <3>2. CASE p # c
      BY <1>3, <2>2, <2>3, <3>2
    <3> QED BY <3>1, <3>2
  <2>5. p \in DOMAIN u
    BY <1>3, <2>2, <2>3
  <2> QED BY <1>6, <2>1, <2>4, <2>5 DEF IsJoined
<1>8. ASSUME NEW n \in DOMAIN u, NEW b \in DOMAIN u[n].children PROVE IsParent(u, n, b)
  <2>1. n \in DOMAIN t /\ n # l
    BY <1>3
  <2>2. /\ b \in DOMAIN t[n].children /\ u[n].children[b] = t[n].children[b]
        /\ n = c => b # a
    <3>1. CASE n = c
      BY <1>2, <1>8, <3>1
    <3>2. CASE n # c
      BY <1>3, <1>8, <2>1, <3>2
    <3> QED BY <3>1, <3>2
  <2> DEFINE m == t[n].children[b]
  <2>3. m \in Below(t) /\ t[m].parent = n /\ t[m].prefix[1] = b
    BY <2>1, <2>2, ChildIs
  <2>4. m # l
    BY <2>2, <2>3 DEF c, a
  <2> HIDE DEF m
  <2>5. m \in Below(u) /\ m \in DOMAIN u
    BY <1>3, <2>3, <2>4 DEF Below
  <2>6. u[n].children[b] = m
    BY <2>2 DEF m
  <2> QED BY <1>6, <2>3, <2>5, <2>6 DEF IsParent
<1>9. Ranked(u)
  <2>1. PICK b, r : Ranks(t, b, r)
    BY DEF Tree, Ranked
  <2> DEFINE q == [n \in DOMAIN u |-> r[n]]
  <2>2. q \in [DOMAIN u -> 0 .. b]
    BY <1>3, <2>1 DEF Ranks
  <2>3. ASSUME NEW n \in Below(u) PROVE q[u[n].parent] < q[n]
    <3>1. n \in Below(t) /\ n \in DOMAIN u
      BY <1>3 DEF Below
    <3>2. u[n].parent \in DOMAIN u /\ u[n].parent = t[n].parent
      BY <1>6, <1>7, <3>1 DEF IsJoined
    <3>3. r[t[n].parent] < r[n]
      BY <2>1, <3>1 DEF Ranks
    <3> QED BY <3>1, <3>2, <3>3
  <2> HIDE DEF q
  <2>4. Ranks(u, b, q)
    BY <2>1, <2>2, <2>3 DEF Ranks
  <2> QED BY <2>4 DEF Ranked
<1> QED BY <1>5, <1>7, <1>8, <1>9 DEF Tree, Joined

-----------------------------------------------------------------------------
(* The tokens from the root to a node.                                     *)

\* What PathOf's definition says of the function p.
IsPaths(t, p) ==
  p = [n \in DOMAIN t |-> IF n = Root THEN <<>> ELSE p[t[n].parent] \o t[n].prefix]
Paths(t) == CHOOSE p : IsPaths(t, p)

PathsOf(t, p) ==
  /\ p \in [DOMAIN t -> Seq(Tokens)]
  /\ p[Root] = <<>>
  /\ \A n \in Below(t) : p[n] = p[t[n].parent] \o t[n].prefix

\* The same for some of the nodes, those above each with it.
Part(t, D, f) ==
  /\ D \subseteq DOMAIN t /\ Root \in D /\ \A n \in D \ {Root} : t[n].parent \in D
  /\ DOMAIN f = D /\ f[Root] = <<>>
  /\ \A n \in D \ {Root} : f[n] = f[t[n].parent] \o t[n].prefix

\* What holds of the root and passes on to the children holds of all nodes.
LEMMA DownTheTree ==
  ASSUME NEW t, Tree(t), NEW T, Root \in T, \A n \in Below(t) : t[n].parent \in T => n \in T
  PROVE  DOMAIN t \subseteq T
<1> DEFINE missed == DOMAIN t \ T
<1>1. SUFFICES ASSUME missed # {} PROVE FALSE
  OBVIOUS
<1>2. PICK b, r : Ranks(t, b, r)
  BY DEF Tree, Ranked
<1>3. \A n \in DOMAIN t : r[n] \in Nat
  BY <1>2 DEF Ranks
<1> DEFINE heights == {r[n] : n \in missed}
<1>4. heights \in SUBSET Nat /\ heights # {}
  BY <1>1, <1>3
<1>5. PICK h \in heights : \A j \in heights : h <= j
  <2> HIDE DEF heights
  <2> QED BY <1>4, LeastOf
<1>6. PICK n \in missed : h = r[n]
  BY <1>5
<1>7. n \in Below(t) /\ n \in DOMAIN t /\ t[n].parent \notin T
  BY <1>6 DEF Below
<1>8. t[n].parent \in DOMAIN t /\ r[t[n].parent] < r[n]
  BY <1>2, <1>7 DEF Ranks, Tree, Joined, IsJoined
<1>9. r[t[n].parent] \in heights
  BY <1>7, <1>8
<1>10. r[n] <= r[t[n].parent]
  BY <1>5, <1>6, <1>9
<1> QED BY <1>3, <1>7, <1>8, <1>10

\* Two such functions agree where both are defined.
LEMMA PartsAgree ==
  ASSUME NEW t, Tree(t), NEW D, NEW f, Part(t, D, f), NEW E, NEW g, Part(t, E, g)
  PROVE  \A n \in D \cap E : f[n] = g[n]
<1> DEFINE T == {n \in DOMAIN t : n \in D \cap E => f[n] = g[n]}
<1>1. Root \in T
  BY DEF Part
<1>2. \A n \in Below(t) : t[n].parent \in T => n \in T
  BY DEF Part, Below
<1> HIDE DEF T
<1>3. DOMAIN t \subseteq T
  BY <1>1, <1>2, DownTheTree
<1>4. D \subseteq DOMAIN t
  BY DEF Part
<1> QED BY <1>3, <1>4 DEF T

\* Each node is in the domain of one.
LEMMA PartsExist ==
  ASSUME NEW t, Tree(t), NEW m \in DOMAIN t
  PROVE  \E D, f : Part(t, D, f) /\ m \in D
<1> DEFINE T == {n \in DOMAIN t : \E D, f : Part(t, D, f) /\ n \in D}
<1>1. Root \in T
  <2> DEFINE f == [n \in {Root} |-> <<>>]
  <2>1. Part(t, {Root}, f)
    BY DEF Part, Tree, Typed
  <2>2. Root \in DOMAIN t /\ Root \in {Root}
    BY DEF Tree, Typed
  <2> QED BY <2>1, <2>2
<1>2. ASSUME NEW n \in Below(t), t[n].parent \in T PROVE n \in T
  <2>1. PICK D, f : Part(t, D, f) /\ t[n].parent \in D
    BY <1>2
  <2>2. n \in DOMAIN t /\ n # Root
    BY DEF Below
  <2>3. CASE n \in D
    BY <2>1, <2>2, <2>3
  <2>4. CASE n \notin D
    <3> DEFINE g == [m_1 \in D \cup {n} |-> IF m_1 = n THEN f[t[n].parent] \o t[n].prefix ELSE f[m_1]]
    <3>1. DOMAIN g = D \cup {n} /\ g[n] = f[t[n].parent] \o t[n].prefix /\ \A m_1 \in D : g[m_1] = f[m_1]
      BY <2>4
    <3> HIDE DEF g
    <3>2. Part(t, D \cup {n}, g)
      BY <2>1, <2>2, <2>4, <3>1 DEF Part
    <3>3. n \in D \cup {n}
      OBVIOUS
    <3> QED BY <2>2, <3>2, <3>3
  <2> QED BY <2>3, <2>4
<1> HIDE DEF T
<1>3. m \in T
  BY <1>1, <1>2, DownTheTree
<1> QED BY <1>3 DEF T

\* There is one function that does what PathOf's definition says.
LEMMA PathsExist ==
  ASSUME NEW t, Tree(t)
  PROVE  \E p : PathsOf(t, p)
<1> DEFINE F(n) == CHOOSE f : \E D : Part(t, D, f) /\ n \in D
           p == [n \in DOMAIN t |-> F(n)[n]]
<1>1. ASSUME NEW n \in DOMAIN t PROVE \E D : Part(t, D, F(n)) /\ n \in D
  <2>1. \E f : \E D : Part(t, D, f) /\ n \in D
    BY PartsExist
  <2> QED BY <2>1
<1> HIDE DEF F
<1>2. ASSUME NEW D, NEW f, Part(t, D, f), NEW n \in D PROVE p[n] = f[n]
  <2>1. n \in DOMAIN t
    BY <1>2 DEF Part
  <2>2. PICK E : Part(t, E, F(n)) /\ n \in E
    BY <1>1, <2>1
  <2>3. F(n)[n] = f[n]
    BY <1>2, <2>2, PartsAgree
  <2> QED BY <2>1, <2>3
<1>3. DOMAIN p = DOMAIN t /\ p = [n \in DOMAIN p |-> p[n]]
  OBVIOUS
<1> HIDE DEF p
<1>4. p[Root] = <<>>
  <2>1. Root \in DOMAIN t
    BY DEF Tree, Typed
  <2>2. PICK D, f : Part(t, D, f) /\ Root \in D
    BY <2>1, PartsExist
  <2>3. f[Root] = <<>>
    BY <2>2 DEF Part
  <2> QED BY <1>2, <2>2, <2>3
<1>5. ASSUME NEW n \in Below(t) PROVE p[n] = p[t[n].parent] \o t[n].prefix
  <2>1. n \in DOMAIN t /\ n # Root
    BY DEF Below
  <2>2. PICK D, f : Part(t, D, f) /\ n \in D
    BY <2>1, PartsExist
  <2>3. t[n].parent \in D /\ f[n] = f[t[n].parent] \o t[n].prefix
    BY <2>1, <2>2 DEF Part
  <2>4. p[n] = f[n] /\ p[t[n].parent] = f[t[n].parent]
    <3>1. \A m \in D : p[m] = f[m]
      BY <1>2, <2>2
    <3> QED BY <2>2, <2>3, <3>1
  <2> QED BY <2>3, <2>4
<1> DEFINE T == {n \in DOMAIN t : p[n] \in Seq(Tokens)}
<1>6. Root \in T
  <2>1. Root \in DOMAIN t /\ <<>> \in Seq(Tokens)
    BY DEF Tree, Typed
  <2> QED BY <1>4, <2>1
<1>7. ASSUME NEW n \in Below(t), t[n].parent \in T PROVE n \in T
  <2>1. n \in DOMAIN t
    BY DEF Below
  <2>2. t[n] \in NodeType
    BY <2>1 DEF Tree, Typed
  <2>3. t[n].prefix \in Seq(Tokens)
    BY <2>2, NodeIs
  <2> QED BY <1>5, <1>7, <2>1, <2>3, ConcatProperties
<1> HIDE DEF T
<1>8. DOMAIN t \subseteq T
  BY <1>6, <1>7, DownTheTree
<1>9. p \in [DOMAIN t -> Seq(Tokens)]
  BY <1>3, <1>8 DEF T
<1> QED BY <1>4, <1>5, <1>9 DEF PathsOf

\* And only one.
LEMMA PathsUnique ==
  ASSUME NEW t, Tree(t), NEW p, PathsOf(t, p), NEW q, PathsOf(t, q)
  PROVE  p = q
<1> DEFINE T == {n \in DOMAIN t : p[n] = q[n]}
<1>1. Root \in T
  BY DEF PathsOf, Tree, Typed
<1>2. \A n \in Below(t) : t[n].parent \in T => n \in T
  BY DEF PathsOf, Below
<1> HIDE DEF T
<1>3. DOMAIN t \subseteq T
  BY <1>1, <1>2, DownTheTree
<1>4. \A n \in DOMAIN t : p[n] = q[n]
  BY <1>3 DEF T
<1>5. p \in [DOMAIN t -> Seq(Tokens)] /\ q \in [DOMAIN t -> Seq(Tokens)]
  BY DEF PathsOf
<1> QED BY <1>4, <1>5

\* The two ways to say it.
LEMMA IsPathsIs ==
  ASSUME NEW t, Tree(t), NEW p
  PROVE  /\ PathsOf(t, p) => IsPaths(t, p)
         /\ IsPaths(t, p) => Part(t, DOMAIN t, p)
<1>1. Root \in DOMAIN t /\ \A n \in Below(t) : t[n].parent \in DOMAIN t
  BY DEF Tree, Typed, Joined, IsJoined
<1>2. ASSUME PathsOf(t, p) PROVE IsPaths(t, p)
  <2>1. p = [n \in DOMAIN t |-> p[n]]
    BY <1>2 DEF PathsOf
  <2>2. \A n \in DOMAIN t : p[n] = IF n = Root THEN <<>> ELSE p[t[n].parent] \o t[n].prefix
    BY <1>2 DEF PathsOf, Below
  <2> QED BY <2>1, <2>2, Zenon DEF IsPaths
<1>3. ASSUME IsPaths(t, p) PROVE Part(t, DOMAIN t, p)
  <2>1. DOMAIN p = DOMAIN t
    BY <1>3, Zenon DEF IsPaths
  <2>2. \A n \in DOMAIN t : p[n] = IF n = Root THEN <<>> ELSE p[t[n].parent] \o t[n].prefix
    BY <1>3, Zenon DEF IsPaths
  <2> QED BY <1>1, <2>1, <2>2 DEF Part, Below
<1> QED BY <1>2, <1>3

\* Paths is it.
LEMMA PathsAre ==
  ASSUME NEW t, Tree(t)
  PROVE  PathsOf(t, Paths(t))
<1>1. PICK p : PathsOf(t, p)
  BY PathsExist
<1>2. IsPaths(t, p)
  BY <1>1, IsPathsIs
<1>3. IsPaths(t, Paths(t))
  BY <1>2 DEF Paths
<1>4. Part(t, DOMAIN t, Paths(t)) /\ Part(t, DOMAIN t, p)
  BY <1>2, <1>3, IsPathsIs
<1>5. \A n \in DOMAIN t : p[n] = Paths(t)[n]
  BY <1>4, PartsAgree
<1>6. Paths(t) = [n \in DOMAIN t |-> Paths(t)[n]]
  <2> DEFINE q == Paths(t)
  <2>1. q = [n \in DOMAIN t |-> IF n = Root THEN <<>> ELSE q[t[n].parent] \o t[n].prefix]
    BY <1>3, Zenon DEF IsPaths
  <2> HIDE DEF q
  <2>2. q = [n \in DOMAIN t |-> q[n]]
    BY <2>1
  <2> QED BY <2>2 DEF q
<1>7. p = [n \in DOMAIN t |-> p[n]]
  BY <1>1 DEF PathsOf
<1>8. Paths(t) = p
  BY <1>5, <1>6, <1>7
<1> QED BY <1>1, <1>8

\* PathOf is the paths of the cache's tree.
LEMMA PathOfIs == PathOf = Paths(node)
  BY DEF PathOf, Paths, IsPaths

-----------------------------------------------------------------------------
(* The prefixes a tree holds.                                              *)

IsSpot(t, n, k) == n \in Below(t) /\ k \in 1 .. Len(t[n].prefix)

\* The tokens from the root to the k-th of n.
At(t, n, k) == Paths(t)[t[n].parent] \o SubSeq(t[n].prefix, 1, k)

Held(t) == {s \in Seq(Tokens) : \E n, k : IsSpot(t, n, k) /\ s = At(t, n, k)}

\* The positions of a sequence.
LEMMA StemsAre ==
  ASSUME NEW S, NEW s \in Seq(S)
  PROVE  /\ Stems(s) = {SubSeq(s, 1, k) : k \in 1 .. Len(s)}
         /\ \A k \in 1 .. Len(s) : SubSeq(s, 1, k) # <<>> /\ SubSeq(s, 1, k) \in Seq(S)
<1>1. \A k \in 0 .. Len(s) : SubSeq(s, 1, k) \in Seq(S) /\ Len(SubSeq(s, 1, k)) = k
  BY CutIs
<1>2. SubSeq(s, 1, 0) = <<>>
  BY SubSeqEmpty
<1>3. \A k \in 1 .. Len(s) : SubSeq(s, 1, k) # <<>> /\ SubSeq(s, 1, k) \in Seq(S)
  BY <1>1
<1>4. ASSUME NEW x PROVE x \in Stems(s) <=> x \in {SubSeq(s, 1, k) : k \in 1 .. Len(s)}
  <2>1. ASSUME x \in Stems(s) PROVE x \in {SubSeq(s, 1, k) : k \in 1 .. Len(s)}
    <3>1. PICK k \in 0 .. Len(s) : x = SubSeq(s, 1, k)
      BY <2>1 DEF Stems, Prefixes
    <3>2. k # 0
      BY <1>2, <2>1, <3>1 DEF Stems
    <3> QED BY <3>1, <3>2
  <2>2. ASSUME x \in {SubSeq(s, 1, k) : k \in 1 .. Len(s)} PROVE x \in Stems(s)
    <3>1. PICK k \in 1 .. Len(s) : x = SubSeq(s, 1, k)
      BY <2>2
    <3>2. x # <<>> /\ k \in 0 .. Len(s)
      BY <1>3, <3>1
    <3> QED BY <3>1, <3>2 DEF Stems, Prefixes
  <2> QED BY <2>1, <2>2
<1> QED BY <1>3, <1>4

\* What a concatenation begins with.
LEMMA CutOfConcat ==
  ASSUME NEW S, NEW s \in Seq(S), NEW z \in Seq(S)
  PROVE  /\ \A k \in 0 .. Len(s) : SubSeq(s \o z, 1, k) = SubSeq(s, 1, k)
         /\ \A k \in 0 .. Len(z) : SubSeq(s \o z, 1, Len(s) + k) = s \o SubSeq(z, 1, k)
<1>1. /\ s \o z \in Seq(S) /\ Len(s \o z) = Len(s) + Len(z)
      /\ \A j \in 1 .. Len(s) + Len(z) : (s \o z)[j] = IF j <= Len(s) THEN s[j] ELSE z[j - Len(s)]
  BY ConcatProperties
<1>2. Len(s) \in Nat /\ Len(z) \in Nat
  OBVIOUS
<1>3. ASSUME NEW k \in 0 .. Len(s) PROVE SubSeq(s \o z, 1, k) = SubSeq(s, 1, k)
  <2>1. k \in 0 .. Len(s \o z)
    BY <1>1, <1>2
  <2>2. /\ SubSeq(s \o z, 1, k) \in Seq(S) /\ Len(SubSeq(s \o z, 1, k)) = k
        /\ \A j \in 1 .. k : SubSeq(s \o z, 1, k)[j] = (s \o z)[j]
    BY <1>1, <2>1, CutIs
  <2>3. /\ SubSeq(s, 1, k) \in Seq(S) /\ Len(SubSeq(s, 1, k)) = k
        /\ \A j \in 1 .. k : SubSeq(s, 1, k)[j] = s[j]
    BY CutIs
  <2>4. \A j \in 1 .. k : (s \o z)[j] = s[j]
    BY <1>1, <1>2
  <2> QED BY <2>2, <2>3, <2>4, SeqEqual
<1>4. ASSUME NEW k \in 0 .. Len(z) PROVE SubSeq(s \o z, 1, Len(s) + k) = s \o SubSeq(z, 1, k)
  <2>1. Len(s) + k \in 0 .. Len(s \o z)
    BY <1>1, <1>2
  <2>2. /\ SubSeq(s \o z, 1, Len(s) + k) \in Seq(S) /\ Len(SubSeq(s \o z, 1, Len(s) + k)) = Len(s) + k
        /\ \A j \in 1 .. Len(s) + k : SubSeq(s \o z, 1, Len(s) + k)[j] = (s \o z)[j]
    BY <1>1, <2>1, CutIs
  <2>3. /\ SubSeq(z, 1, k) \in Seq(S) /\ Len(SubSeq(z, 1, k)) = k
        /\ \A j \in 1 .. k : SubSeq(z, 1, k)[j] = z[j]
    BY CutIs
  <2>4. /\ s \o SubSeq(z, 1, k) \in Seq(S) /\ Len(s \o SubSeq(z, 1, k)) = Len(s) + k
        /\ \A j \in 1 .. Len(s) + k : (s \o SubSeq(z, 1, k))[j]
             = IF j <= Len(s) THEN s[j] ELSE SubSeq(z, 1, k)[j - Len(s)]
    BY <2>3, ConcatProperties
  <2>5. ASSUME NEW j \in 1 .. Len(s) + k PROVE (s \o z)[j] = (s \o SubSeq(z, 1, k))[j]
    <3>1. j \in 1 .. Len(s) + Len(z)
      BY <1>2
    <3>2. CASE j <= Len(s)
      BY <1>1, <2>4, <3>1, <3>2
    <3>3. CASE ~(j <= Len(s))
      <4>1. j - Len(s) \in 1 .. k
        BY <1>2, <3>3
      <4>2. (s \o z)[j] = z[j - Len(s)] /\ (s \o SubSeq(z, 1, k))[j] = SubSeq(z, 1, k)[j - Len(s)]
        BY <1>1, <2>4, <3>1, <3>3
      <4> QED BY <2>3, <4>1, <4>2
    <3> QED BY <3>2, <3>3
  <2> QED BY <2>2, <2>4, <2>5, SeqEqual
<1> QED BY <1>3, <1>4

\* The nodes' paths.
LEMMA PathsFacts ==
  ASSUME NEW t, Tree(t)
  PROVE  /\ Root \in DOMAIN t /\ Paths(t)[Root] = <<>>
         /\ \A n \in DOMAIN t : Paths(t)[n] \in Seq(Tokens)
         /\ \A n \in DOMAIN t : t[n].prefix \in Seq(Tokens) /\ t[n].rows \in Seq(Seq(Tokens))
         /\ \A n \in Below(t) : /\ n \in DOMAIN t /\ n # Root
                                /\ t[n].parent \in DOMAIN t
                                /\ Paths(t)[n] = Paths(t)[t[n].parent] \o t[n].prefix
                                /\ t[n].prefix # <<>> /\ Len(t[n].rows) = Len(t[n].prefix)
<1>1. PathsOf(t, Paths(t))
  BY PathsAre
<1>2. \A n \in DOMAIN t : t[n].prefix \in Seq(Tokens) /\ t[n].rows \in Seq(Seq(Tokens))
  <2> TAKE n \in DOMAIN t
  <2>1. t[n] \in NodeType
    BY DEF Tree, Typed
  <2> QED BY <2>1, NodeIs
<1> QED BY <1>1, <1>2 DEF PathsOf, Tree, Typed, Joined, IsJoined, Below

\* The tokens up to a spot.
LEMMA AtIs ==
  ASSUME NEW t, Tree(t), NEW n, NEW k, IsSpot(t, n, k)
  PROVE  /\ At(t, n, k) \in Seq(Tokens) /\ At(t, n, k) # <<>>
         /\ Len(At(t, n, k)) = Len(Paths(t)[t[n].parent]) + k
         /\ At(t, n, k)[Len(At(t, n, k))] = t[n].prefix[k]
         /\ \A j \in 1 .. k : SubSeq(At(t, n, k), 1, Len(Paths(t)[t[n].parent]) + j) = At(t, n, j)
         /\ SubSeq(At(t, n, k), 1, Len(Paths(t)[t[n].parent])) = Paths(t)[t[n].parent]
         /\ k = Len(t[n].prefix) => At(t, n, k) = Paths(t)[n]
<1> DEFINE s == Paths(t)[t[n].parent]
           z == t[n].prefix
           y == SubSeq(z, 1, k)
<1>1. /\ s \in Seq(Tokens) /\ z \in Seq(Tokens) /\ z # <<>> /\ Paths(t)[n] = s \o z
      /\ k \in 1 .. Len(z)
  BY PathsFacts DEF IsSpot
<1>2. At(t, n, k) = s \o y /\ \A j \in 1 .. k : At(t, n, j) = s \o SubSeq(z, 1, j)
  BY DEF At
<1> HIDE DEF s, z
<1>3. Len(s) \in Nat /\ Len(z) \in Nat /\ k \in Nat /\ k >= 1 /\ k <= Len(z) /\ k \in 0 .. Len(z)
  BY <1>1
<1>4. y \in Seq(Tokens) /\ Len(y) = k /\ \A j \in 1 .. k : y[j] = z[j]
  BY <1>1, <1>3, CutIs
<1>5. \A j \in 0 .. k : SubSeq(y, 1, j) = SubSeq(z, 1, j)
  <2> TAKE j \in 0 .. k
  <2>1. j \in 0 .. Len(z) /\ j \in 0 .. Len(y)
    BY <1>3, <1>4
  <2>2. /\ SubSeq(z, 1, j) \in Seq(Tokens) /\ Len(SubSeq(z, 1, j)) = j
        /\ \A x \in 1 .. j : SubSeq(z, 1, j)[x] = z[x]
    BY <1>1, <2>1, CutIs
  <2>3. /\ SubSeq(y, 1, j) \in Seq(Tokens) /\ Len(SubSeq(y, 1, j)) = j
        /\ \A x \in 1 .. j : SubSeq(y, 1, j)[x] = y[x]
    BY <1>4, <2>1, CutIs
  <2>4. \A x \in 1 .. j : y[x] = z[x]
    BY <1>3, <1>4
  <2> HIDE DEF y
  <2> QED BY <2>2, <2>3, <2>4, SeqEqual
<1> HIDE DEF y
<1>6. /\ s \o y \in Seq(Tokens) /\ Len(s \o y) = Len(s) + k
      /\ \A j \in 1 .. Len(s) + k : (s \o y)[j] = IF j <= Len(s) THEN s[j] ELSE y[j - Len(s)]
  BY <1>1, <1>4, ConcatProperties
<1>7. s \o y # <<>>
  BY <1>3, <1>6
<1>8. (s \o y)[Len(s) + k] = z[k]
  <2>1. Len(s) + k \in 1 .. Len(s) + k /\ ~(Len(s) + k <= Len(s)) /\ Len(s) + k - Len(s) = k /\ k \in 1 .. k
    BY <1>3
  <2> QED BY <1>4, <1>6, <2>1
<1>9. \A j \in 1 .. k : SubSeq(s \o y, 1, Len(s) + j) = s \o SubSeq(z, 1, j)
  <2> TAKE j \in 1 .. k
  <2>1. j \in 0 .. Len(y) /\ j \in 0 .. k
    BY <1>3, <1>4
  <2>2. SubSeq(s \o y, 1, Len(s) + j) = s \o SubSeq(y, 1, j)
    BY <1>1, <1>4, <2>1, CutOfConcat, SMTT(30)
  <2> QED BY <1>5, <2>1, <2>2
<1>10. SubSeq(s \o y, 1, Len(s)) = s
  <2>1. Len(s) \in 0 .. Len(s)
    BY <1>3
  <2>2. SubSeq(s \o y, 1, Len(s)) = SubSeq(s, 1, Len(s))
    BY <1>1, <1>4, <2>1, CutOfConcat
  <2> QED BY <1>1, <2>2, SubSeqFull
<1>11. k = Len(z) => y = z
  BY <1>1, SubSeqFull DEF y
<1>12. s \o y = At(t, n, k) /\ Paths(t)[t[n].parent] = s /\ t[n].prefix = z
  BY <1>2 DEF s, z
<1> QED BY <1>1, <1>2, <1>6, <1>7, <1>8, <1>9, <1>10, <1>11, <1>12

\* The end of a node's prefix is the node's path.
LEMMA EndIs ==
  ASSUME NEW t, Tree(t), NEW n \in Below(t)
  PROVE  /\ IsSpot(t, n, Len(t[n].prefix)) /\ At(t, n, Len(t[n].prefix)) = Paths(t)[n]
         /\ IsSpot(t, n, 1)
<1>1. t[n].prefix \in Seq(Tokens) /\ t[n].prefix # <<>>
  BY PathsFacts
<1>2. Len(t[n].prefix) \in 1 .. Len(t[n].prefix) /\ 1 \in 1 .. Len(t[n].prefix)
  BY <1>1, EmptySeq
<1>3. IsSpot(t, n, Len(t[n].prefix)) /\ IsSpot(t, n, 1)
  BY <1>2 DEF IsSpot
<1> QED BY <1>3, AtIs

\* What precedes a spot: the spot before it in the node, or the node above.
LEMMA BeforeIs ==
  ASSUME NEW t, Tree(t), NEW n, NEW k, IsSpot(t, n, k), NEW s \in Seq(Tokens),
         s = SubSeq(At(t, n, k), 1, Len(At(t, n, k)) - 1)
  PROVE  /\ k = 1 => s = Paths(t)[t[n].parent]
         /\ k > 1 => IsSpot(t, n, k - 1) /\ s = At(t, n, k - 1)
<1>1. /\ Len(At(t, n, k)) = Len(Paths(t)[t[n].parent]) + k
      /\ \A j \in 1 .. k : SubSeq(At(t, n, k), 1, Len(Paths(t)[t[n].parent]) + j) = At(t, n, j)
      /\ SubSeq(At(t, n, k), 1, Len(Paths(t)[t[n].parent])) = Paths(t)[t[n].parent]
  BY AtIs
<1>2. Paths(t)[t[n].parent] \in Seq(Tokens) /\ t[n].prefix \in Seq(Tokens)
  BY PathsFacts DEF IsSpot
<1>3. Len(Paths(t)[t[n].parent]) \in Nat /\ Len(t[n].prefix) \in Nat /\ k \in Nat
  BY <1>2 DEF IsSpot
<1>4. CASE k = 1
  BY <1>1, <1>3, <1>4
<1>5. CASE k > 1
  <2>1. k - 1 \in 1 .. k /\ Len(At(t, n, k)) - 1 = Len(Paths(t)[t[n].parent]) + (k - 1)
    BY <1>1, <1>3, <1>5
  <2>2. IsSpot(t, n, k - 1)
    BY <1>3, <2>1 DEF IsSpot
  <2> QED BY <1>1, <1>5, <2>1, <2>2, SMTT(30)
<1> QED BY <1>3, <1>4, <1>5

\* Two spots with the same tokens, of that length.
Clash(t, len, n, k, m, l) ==
  /\ IsSpot(t, n, k) /\ IsSpot(t, m, l) /\ At(t, n, k) = At(t, m, l)
  /\ len = Len(At(t, n, k))
  /\ ~(n = m /\ k = l)

\* No two spots have the same tokens: the children of a node differ in their
\* first token.
LEMMA AtUnique ==
  ASSUME NEW t, Tree(t), NEW n, NEW k, IsSpot(t, n, k), NEW m, NEW l, IsSpot(t, m, l),
         At(t, n, k) = At(t, m, l)
  PROVE  n = m /\ k = l
<1> DEFINE T == {len \in Nat : \E n1, k1, m1, l1 : Clash(t, len, n1, k1, m1, l1)}
<1>1. SUFFICES ASSUME ~(n = m /\ k = l) PROVE FALSE
  OBVIOUS
<1>2. Len(At(t, n, k)) \in T
  <2>1. Clash(t, Len(At(t, n, k)), n, k, m, l)
    BY <1>1 DEF Clash
  <2>2. Len(At(t, n, k)) \in Nat
    BY AtIs, LenProperties
  <2> QED BY <2>1, <2>2
<1>3. PICK len \in T : \A x \in T : len <= x
  <2>1. T \in SUBSET Nat /\ T # {}
    BY <1>2
  <2> HIDE DEF T
  <2> QED BY <2>1, LeastOf
<1>4. PICK n1, k1, m1, l1 : Clash(t, len, n1, k1, m1, l1)
  BY <1>3
<1>5. /\ IsSpot(t, n1, k1) /\ IsSpot(t, m1, l1) /\ At(t, n1, k1) = At(t, m1, l1)
      /\ len = Len(At(t, n1, k1)) /\ len \in Nat /\ ~(n1 = m1 /\ k1 = l1)
  BY <1>3, <1>4 DEF Clash
<1>6. ASSUME NEW n2, NEW k2, NEW m2, NEW l2, IsSpot(t, n2, k2), IsSpot(t, m2, l2),
             At(t, n2, k2) = At(t, m2, l2), Len(At(t, n2, k2)) < len
      PROVE  n2 = m2 /\ k2 = l2
  <2>1. SUFFICES ASSUME ~(n2 = m2 /\ k2 = l2) PROVE FALSE
    OBVIOUS
  <2>2. Clash(t, Len(At(t, n2, k2)), n2, k2, m2, l2)
    BY <1>6, <2>1 DEF Clash
  <2>3. Len(At(t, n2, k2)) \in Nat
    BY <1>6, AtIs, LenProperties
  <2>4. Len(At(t, n2, k2)) \in T
    BY <2>2, <2>3
  <2>5. len <= Len(At(t, n2, k2))
    BY <1>3, <2>4
  <2> QED BY <1>5, <1>6, <2>3, <2>5
<1> HIDE DEF T
<1> DEFINE s == SubSeq(At(t, n1, k1), 1, len - 1)
<1>7. /\ At(t, n1, k1) \in Seq(Tokens) /\ len >= 1 /\ len - 1 \in 0 .. len
      /\ s \in Seq(Tokens) /\ Len(s) = len - 1
  <2>1. At(t, n1, k1) \in Seq(Tokens) /\ At(t, n1, k1) # <<>>
    BY <1>5, AtIs
  <2>2. len >= 1 /\ len - 1 \in 0 .. len
    BY <1>5, <2>1, EmptySeq
  <2> QED BY <1>5, <2>1, <2>2, CutIs
<1>8. /\ s = SubSeq(At(t, n1, k1), 1, Len(At(t, n1, k1)) - 1)
      /\ s = SubSeq(At(t, m1, l1), 1, Len(At(t, m1, l1)) - 1)
  BY <1>5
<1> HIDE DEF s
<1>9. /\ k1 = 1 => s = Paths(t)[t[n1].parent]
      /\ k1 > 1 => IsSpot(t, n1, k1 - 1) /\ s = At(t, n1, k1 - 1)
  BY <1>5, <1>7, <1>8, BeforeIs
<1>10. /\ l1 = 1 => s = Paths(t)[t[m1].parent]
       /\ l1 > 1 => IsSpot(t, m1, l1 - 1) /\ s = At(t, m1, l1 - 1)
  BY <1>5, <1>7, <1>8, BeforeIs
<1>11. /\ n1 \in Below(t) /\ m1 \in Below(t) /\ k1 \in 1 .. Len(t[n1].prefix)
       /\ l1 \in 1 .. Len(t[m1].prefix)
       /\ Len(t[n1].prefix) \in Nat /\ Len(t[m1].prefix) \in Nat
  BY <1>5, PathsFacts DEF IsSpot
<1>12. t[n1].prefix[k1] = t[m1].prefix[l1]
  <2>1. At(t, n1, k1)[Len(At(t, n1, k1))] = t[n1].prefix[k1]
    BY <1>5, AtIs
  <2>2. At(t, m1, l1)[Len(At(t, m1, l1))] = t[m1].prefix[l1]
    BY <1>5, AtIs
  <2> QED BY <1>5, <2>1, <2>2
<1> DEFINE p == t[n1].parent
           q == t[m1].parent
<1>13. /\ p \in DOMAIN t /\ q \in DOMAIN t
       /\ p # Root => p \in Below(t) /\ Paths(t)[p] # <<>>
       /\ q # Root => q \in Below(t) /\ Paths(t)[q] # <<>>
       /\ Paths(t)[Root] = <<>>
  <2>1. p \in DOMAIN t /\ q \in DOMAIN t /\ Paths(t)[Root] = <<>>
    BY <1>11, PathsFacts
  <2>2. \A x \in Below(t) : Paths(t)[x] # <<>>
    <3> TAKE x \in Below(t)
    <3>1. IsSpot(t, x, Len(t[x].prefix)) /\ At(t, x, Len(t[x].prefix)) = Paths(t)[x]
      BY EndIs
    <3> QED BY <3>1, AtIs
  <2> QED BY <2>1, <2>2 DEF Below
<1>14. ASSUME NEW x \in Below(t)
       PROVE  IsSpot(t, x, Len(t[x].prefix)) /\ At(t, x, Len(t[x].prefix)) = Paths(t)[x]
  BY EndIs
<1> HIDE DEF p, q
<1>15. CASE k1 > 1 /\ l1 > 1
  <2>1. n1 = m1 /\ k1 - 1 = l1 - 1
    BY <1>5, <1>6, <1>7, <1>9, <1>10, <1>15
  <2> QED BY <1>5, <1>11, <2>1
<1>16. CASE k1 = 1 /\ l1 = 1
  <2>1. s = Paths(t)[p] /\ s = Paths(t)[q]
    BY <1>9, <1>10, <1>16 DEF p, q
  <2>2. p = q
    <3>1. CASE p = Root \/ q = Root
      BY <1>13, <2>1, <3>1
    <3>2. CASE p # Root /\ q # Root
      <4>1. p \in Below(t) /\ q \in Below(t)
        BY <1>13, <3>2
      <4>2. /\ IsSpot(t, p, Len(t[p].prefix)) /\ At(t, p, Len(t[p].prefix)) = s
            /\ IsSpot(t, q, Len(t[q].prefix)) /\ At(t, q, Len(t[q].prefix)) = s
        BY <1>14, <2>1, <4>1
      <4>3. Len(s) < len
        BY <1>5, <1>7
      <4> QED BY <1>6, <4>2, <4>3
    <3> QED BY <3>1, <3>2
  <2>3. t[n1].prefix[1] = t[m1].prefix[1]
    BY <1>12, <1>16
  <2>4. t[p].children[t[n1].prefix[1]] = n1 /\ t[q].children[t[m1].prefix[1]] = m1
    BY <1>11 DEF p, q, Tree, Joined, IsJoined
  <2>5. n1 = m1
    BY <2>2, <2>3, <2>4
  <2> QED BY <1>5, <1>16, <2>5
<1>17. ASSUME NEW n2, NEW m2, NEW j, n2 \in Below(t), j > 1, j \in 1 .. Len(t[m2].prefix),
              Len(t[m2].prefix) \in Nat, IsSpot(t, m2, j - 1), s = At(t, m2, j - 1),
              s = Paths(t)[t[n2].parent], t[n2].parent # Root => t[n2].parent \in Below(t)
       PROVE  FALSE
  <2>1. s # <<>>
    BY <1>17, AtIs
  <2>2. t[n2].parent \in Below(t)
    BY <1>13, <1>17, <2>1
  <2>3. t[n2].parent = m2 /\ Len(t[t[n2].parent].prefix) = j - 1
    BY <1>5, <1>6, <1>7, <1>14, <1>17, <2>2
  <2> QED BY <1>17, <2>3
<1>18. CASE k1 = 1 /\ l1 > 1
  BY <1>9, <1>10, <1>11, <1>13, <1>17, <1>18 DEF p
<1>19. CASE k1 > 1 /\ l1 = 1
  BY <1>9, <1>10, <1>11, <1>13, <1>17, <1>19 DEF q
<1> QED BY <1>11, <1>15, <1>16, <1>18, <1>19

\* So no two nodes have the same path.
LEMMA PathsInject ==
  ASSUME NEW t, Tree(t), NEW n \in DOMAIN t, NEW m \in DOMAIN t, Paths(t)[n] = Paths(t)[m]
  PROVE  n = m
<1>1. ASSUME NEW x \in Below(t) PROVE Paths(t)[x] # <<>>
  <2>1. IsSpot(t, x, Len(t[x].prefix)) /\ At(t, x, Len(t[x].prefix)) = Paths(t)[x]
    BY EndIs
  <2> QED BY <2>1, AtIs
<1>2. Paths(t)[Root] = <<>>
  BY PathsFacts
<1>3. CASE n = Root \/ m = Root
  BY <1>1, <1>2, <1>3 DEF Below
<1>4. CASE n # Root /\ m # Root
  <2>1. n \in Below(t) /\ m \in Below(t)
    BY <1>4 DEF Below
  <2>2. /\ IsSpot(t, n, Len(t[n].prefix)) /\ At(t, n, Len(t[n].prefix)) = Paths(t)[n]
        /\ IsSpot(t, m, Len(t[m].prefix)) /\ At(t, m, Len(t[m].prefix)) = Paths(t)[m]
    BY <2>1, EndIs
  <2> QED BY <2>2, AtUnique
<1> QED BY <1>3, <1>4

\* What is held, by spots.
LEMMA HeldIs ==
  ASSUME NEW t, Tree(t)
  PROVE  /\ \A n, k : IsSpot(t, n, k) => At(t, n, k) \in Held(t)
         /\ \A s \in Held(t) : s \in Seq(Tokens) /\ s # <<>> /\ \E n, k : IsSpot(t, n, k) /\ s = At(t, n, k)
         /\ \A n \in Below(t) : Paths(t)[n] \in Held(t)
<1>1. ASSUME NEW n, NEW k, IsSpot(t, n, k) PROVE At(t, n, k) \in Held(t)
  BY <1>1, AtIs DEF Held
<1>2. ASSUME NEW s \in Held(t)
      PROVE  s \in Seq(Tokens) /\ s # <<>> /\ \E n, k : IsSpot(t, n, k) /\ s = At(t, n, k)
  BY AtIs DEF Held
<1>3. ASSUME NEW n \in Below(t) PROVE Paths(t)[n] \in Held(t)
  BY <1>1, EndIs
<1> QED BY <1>1, <1>2, <1>3

\* The beginnings of a path.
LEMMA StemsOfPath ==
  ASSUME NEW t, Tree(t), NEW n \in Below(t)
  PROVE  /\ Stems(Paths(t)[n]) = Stems(Paths(t)[t[n].parent]) \cup {At(t, n, k) : k \in 1 .. Len(t[n].prefix)}
         /\ \A k \in 1 .. Len(t[n].prefix) :
              Stems(At(t, n, k)) = Stems(Paths(t)[t[n].parent]) \cup {At(t, n, j) : j \in 1 .. k}
<1> DEFINE s == Paths(t)[t[n].parent]
<1>1. s \in Seq(Tokens) /\ Len(s) \in Nat
  <2>1. t[n].parent \in DOMAIN t
    BY PathsFacts
  <2>2. s \in Seq(Tokens)
    BY <2>1, PathsFacts
  <2> QED BY <2>2, LenProperties
<1>2. ASSUME NEW k \in 1 .. Len(t[n].prefix)
      PROVE  Stems(At(t, n, k)) = Stems(s) \cup {At(t, n, j) : j \in 1 .. k}
  <2> DEFINE z == At(t, n, k)
  <2>1. IsSpot(t, n, k)
    BY DEF IsSpot
  <2>2. /\ z \in Seq(Tokens) /\ Len(z) = Len(s) + k
        /\ \A j \in 1 .. k : SubSeq(z, 1, Len(s) + j) = At(t, n, j)
        /\ SubSeq(z, 1, Len(s)) = s
    BY <2>1, AtIs
  <2> HIDE DEF z, s
  <2>3. Stems(z) = {SubSeq(z, 1, j) : j \in 1 .. Len(z)} /\ Stems(s) = {SubSeq(s, 1, j) : j \in 1 .. Len(s)}
    BY <1>1, <2>2, StemsAre
  <2>4. k \in Nat
    OBVIOUS
  <2>5. ASSUME NEW j \in 1 .. Len(s) PROVE SubSeq(z, 1, j) = SubSeq(s, 1, j)
    <3>1. SubSeq(SubSeq(z, 1, Len(s)), 1, j) = SubSeq(z, 1, j)
      <4>1. /\ 1 \in 1 .. Len(z) /\ Len(s) \in 1 .. Len(z)
            /\ 1 \in 1 .. Len(s) - 1 + 1 /\ j \in 1 .. Len(s) - 1 + 1
        BY <1>1, <2>2, <2>4
      <4>2. SubSeq(SubSeq(z, 1, Len(s)), 1, j) = SubSeq(z, 1 + 1 - 1, 1 + j - 1)
        BY <2>2, <4>1, SubSeqOfSubSeq
      <4>3. 1 + 1 - 1 = 1 /\ 1 + j - 1 = j
        OBVIOUS
      <4> QED BY <4>2, <4>3
    <3> QED BY <2>2, <3>1
  <2>6. ASSUME NEW x PROVE x \in Stems(z) <=> x \in Stems(s) \cup {At(t, n, j) : j \in 1 .. k}
    <3>1. ASSUME x \in Stems(z) PROVE x \in Stems(s) \cup {At(t, n, j) : j \in 1 .. k}
      <4>1. PICK j \in 1 .. Len(z) : x = SubSeq(z, 1, j)
        BY <2>3, <3>1
      <4>2. CASE j <= Len(s)
        <5>1. j \in 1 .. Len(s)
          BY <1>1, <4>2
        <5> QED BY <2>3, <2>5, <4>1, <5>1
      <4>3. CASE ~(j <= Len(s))
        <5>1. j - Len(s) \in 1 .. k /\ j = Len(s) + (j - Len(s))
          BY <1>1, <2>2, <2>4, <4>3
        <5>2. x = At(t, n, j - Len(s))
          BY <2>2, <4>1, <5>1
        <5> QED BY <5>1, <5>2
      <4> QED BY <4>2, <4>3
    <3>2. ASSUME x \in Stems(s) PROVE x \in Stems(z)
      <4>1. PICK j \in 1 .. Len(s) : x = SubSeq(s, 1, j)
        BY <2>3, <3>2
      <4>2. j \in 1 .. Len(z)
        BY <1>1, <2>2, <2>4
      <4> QED BY <2>3, <2>5, <4>1, <4>2
    <3>3. ASSUME x \in {At(t, n, j) : j \in 1 .. k} PROVE x \in Stems(z)
      <4>1. PICK j \in 1 .. k : x = At(t, n, j)
        BY <3>3
      <4>2. Len(s) + j \in 1 .. Len(z)
        BY <1>1, <2>2, <2>4
      <4> QED BY <2>2, <2>3, <4>1, <4>2
    <3> QED BY <3>1, <3>2, <3>3
  <2>7. Stems(z) = Stems(s) \cup {At(t, n, j) : j \in 1 .. k}
    BY <2>6
  <2> QED BY <2>7 DEF z
<1>3. /\ IsSpot(t, n, Len(t[n].prefix)) /\ At(t, n, Len(t[n].prefix)) = Paths(t)[n]
  BY EndIs
<1>4. Len(t[n].prefix) \in 1 .. Len(t[n].prefix)
  BY <1>3 DEF IsSpot
<1> QED BY <1>2, <1>3, <1>4

\* Nothing precedes the empty sequence.
LEMMA NoStems == Stems(<<>>) = {}
<1>1. <<>> \in Seq(Tokens) /\ Len(<<>>) = 0
  OBVIOUS
<1>2. Stems(<<>>) = {SubSeq(<<>>, 1, k) : k \in 1 .. 0}
  BY <1>1, StemsAre
<1> QED BY <1>2

\* What is held is closed under prefixes.
LEMMA HeldClosed ==
  ASSUME NEW t, Tree(t)
  PROVE  Closed(Held(t)) /\ \A n \in DOMAIN t : Stems(Paths(t)[n]) \subseteq Held(t)
<1> DEFINE T == {n \in DOMAIN t : Stems(Paths(t)[n]) \subseteq Held(t)}
<1>1. Root \in T
  BY NoStems, PathsFacts
<1>2. ASSUME NEW n \in Below(t), t[n].parent \in T PROVE n \in T
  <2>1. Stems(Paths(t)[n]) = Stems(Paths(t)[t[n].parent]) \cup {At(t, n, k) : k \in 1 .. Len(t[n].prefix)}
    BY StemsOfPath
  <2>2. \A k \in 1 .. Len(t[n].prefix) : At(t, n, k) \in Held(t)
    BY HeldIs DEF IsSpot
  <2>3. n \in DOMAIN t
    BY DEF Below
  <2> QED BY <1>2, <2>1, <2>2, <2>3
<1> HIDE DEF T
<1>3. DOMAIN t \subseteq T
  BY <1>1, <1>2, DownTheTree
<1>4. \A n \in DOMAIN t : Stems(Paths(t)[n]) \subseteq Held(t)
  BY <1>3 DEF T
<1>5. ASSUME NEW s \in Held(t) PROVE Stems(s) \subseteq Held(t)
  <2>1. PICK n, k : IsSpot(t, n, k) /\ s = At(t, n, k)
    BY HeldIs
  <2>2. n \in Below(t) /\ k \in 1 .. Len(t[n].prefix) /\ t[n].parent \in DOMAIN t
    BY <2>1, PathsFacts DEF IsSpot
  <2>3. Stems(s) = Stems(Paths(t)[t[n].parent]) \cup {At(t, n, j) : j \in 1 .. k}
    BY <2>1, <2>2, StemsOfPath
  <2>4. \A j \in 1 .. k : IsSpot(t, n, j)
    <3>1. Len(t[n].prefix) \in Nat
      BY <2>2, PathsFacts
    <3> QED BY <2>2, <3>1 DEF IsSpot
  <2> QED BY <1>4, <2>2, <2>3, <2>4, HeldIs
<1> QED BY <1>4, <1>5 DEF Closed

-----------------------------------------------------------------------------
(* The rows of what a tree holds.                                          *)

SpotsOf(t) == UNION {{n} \X DOMAIN t[n].prefix : n \in Below(t)}

RowsIn(t) ==
  [s \in {At(t, x[1], x[2]) : x \in SpotsOf(t)} |->
     LET x == CHOOSE y \in SpotsOf(t) : At(t, y[1], y[2]) = s IN t[x[1]].rows[x[2]]]

\* Rows is the rows of the cache's tree.
LEMMA RowsIs == Rows = RowsIn(node)
  BY PathOfIs DEF Rows, RowsIn, SpotsOf, At, Nodes, Below

\* The spots as pairs.
LEMMA SpotsAre ==
  ASSUME NEW t, Tree(t)
  PROVE  \A n, k : <<n, k>> \in SpotsOf(t) <=> IsSpot(t, n, k)
<1> TAKE n, k
<1>1. ASSUME NEW m \in Below(t) PROVE DOMAIN t[m].prefix = 1 .. Len(t[m].prefix)
  <2>1. t[m].prefix \in Seq(Tokens)
    BY PathsFacts
  <2> QED BY <2>1, LenProperties
<1>2. ASSUME <<n, k>> \in SpotsOf(t) PROVE IsSpot(t, n, k)
  <2>1. PICK m \in Below(t) : <<n, k>> \in {m} \X DOMAIN t[m].prefix
    BY <1>2 DEF SpotsOf
  <2> QED BY <1>1, <2>1 DEF IsSpot
<1>3. ASSUME IsSpot(t, n, k) PROVE <<n, k>> \in SpotsOf(t)
  <2>1. n \in Below(t) /\ <<n, k>> \in {n} \X DOMAIN t[n].prefix
    BY <1>1, <1>3 DEF IsSpot
  <2> QED BY <2>1 DEF SpotsOf
<1> QED BY <1>2, <1>3

\* A spot's tokens have the row the node has there.
LEMMA RowsInIs ==
  ASSUME NEW t, Tree(t)
  PROVE  /\ DOMAIN RowsIn(t) = Held(t)
         /\ RowsIn(t) = [s \in Held(t) |-> RowsIn(t)[s]]
         /\ \A n, k : IsSpot(t, n, k) => RowsIn(t)[At(t, n, k)] = t[n].rows[k]
<1> DEFINE D == {At(t, x[1], x[2]) : x \in SpotsOf(t)}
           C(s) == CHOOSE y \in SpotsOf(t) : At(t, y[1], y[2]) = s
           F(s) == t[C(s)[1]].rows[C(s)[2]]
<1>1. RowsIn(t) = [s \in D |-> F(s)]
  BY DEF RowsIn
<1>2. \A x \in SpotsOf(t) : x = <<x[1], x[2]>>
  BY DEF SpotsOf
<1>3. \A x \in SpotsOf(t) : IsSpot(t, x[1], x[2])
  BY <1>2, SpotsAre
<1>4. ASSUME NEW s PROVE s \in D <=> s \in Held(t)
  <2>1. ASSUME s \in D PROVE s \in Held(t)
    <3>1. PICK x \in SpotsOf(t) : s = At(t, x[1], x[2])
      BY <2>1
    <3> QED BY <1>3, <3>1, HeldIs
  <2>2. ASSUME s \in Held(t) PROVE s \in D
    <3>1. PICK n, k : IsSpot(t, n, k) /\ s = At(t, n, k)
      BY <2>2, HeldIs
    <3>2. <<n, k>> \in SpotsOf(t) /\ <<n, k>>[1] = n /\ <<n, k>>[2] = k
      BY <3>1, SpotsAre
    <3> QED BY <3>1, <3>2
  <2> QED BY <2>1, <2>2
<1>5. ASSUME NEW n, NEW k, IsSpot(t, n, k) PROVE F(At(t, n, k)) = t[n].rows[k]
  <2>1. <<n, k>> \in SpotsOf(t) /\ At(t, <<n, k>>[1], <<n, k>>[2]) = At(t, n, k)
    BY <1>5, SpotsAre
  <2> DEFINE s == At(t, n, k)
  <2>2. C(s) \in SpotsOf(t) /\ At(t, C(s)[1], C(s)[2]) = s
    BY <2>1
  <2> HIDE DEF C
  <2>3. IsSpot(t, C(s)[1], C(s)[2])
    BY <1>3, <2>2
  <2>4. C(s)[1] = n /\ C(s)[2] = k
    BY <1>5, <2>2, <2>3, AtUnique
  <2> QED BY <2>4
<1> HIDE DEF D, F
<1>6. D = Held(t)
  BY <1>4
<1>7. DOMAIN RowsIn(t) = Held(t)
  BY <1>1, <1>6
<1>8. \A s \in Held(t) : RowsIn(t)[s] = F(s)
  BY <1>1, <1>6
<1>9. RowsIn(t) = [s \in Held(t) |-> RowsIn(t)[s]]
  BY <1>1, <1>6, <1>8
<1>10. ASSUME NEW n, NEW k, IsSpot(t, n, k) PROVE RowsIn(t)[At(t, n, k)] = t[n].rows[k]
  <2>1. At(t, n, k) \in Held(t)
    BY <1>10, HeldIs
  <2> QED BY <1>5, <1>8, <1>10, <2>1
<1> QED BY <1>7, <1>9, <1>10

\* The k-th of n in u is the l-th of m in t.
Stands(t, u, n, k, m, l) ==
  IsSpot(t, m, l) /\ At(u, n, k) = At(t, m, l) /\ u[n].rows[k] = t[m].rows[l]

\* A tree whose spots all stand for spots of another holds no more than that one.
LEMMA RowsFrom ==
  ASSUME NEW t, Tree(t), NEW u, Tree(u),
         \A n, k : IsSpot(u, n, k) => \E m, l : Stands(t, u, n, k, m, l)
  PROVE  Held(u) \subseteq Held(t) /\ \A s \in Held(u) : RowsIn(u)[s] = RowsIn(t)[s]
<1>1. ASSUME NEW s \in Held(u) PROVE s \in Held(t) /\ RowsIn(u)[s] = RowsIn(t)[s]
  <2>1. PICK n, k : IsSpot(u, n, k) /\ s = At(u, n, k)
    BY HeldIs
  <2>2. PICK m, l : Stands(t, u, n, k, m, l)
    BY <2>1
  <2>3. IsSpot(t, m, l) /\ s = At(t, m, l) /\ u[n].rows[k] = t[m].rows[l]
    BY <2>1, <2>2 DEF Stands
  <2>4. RowsIn(u)[s] = u[n].rows[k]
    BY <2>1, RowsInIs
  <2>5. RowsIn(t)[s] = t[m].rows[l]
    BY <2>3, RowsInIs
  <2>6. s \in Held(t)
    BY <2>3, HeldIs
  <2> QED BY <2>3, <2>4, <2>5, <2>6
<1> QED BY <1>1

\* Putting sequences of tokens together is associative.
LEMMA TokensAssoc == \A x, y, z \in Seq(Tokens) : (x \o y) \o z = x \o (y \o z)
  BY ConcatAssociative

\* Sequences of tokens put together and cut.
LEMMA TokensConcat ==
  /\ \A x, y, z \in Seq(Tokens) : (x \o y) \o z = x \o (y \o z)
  /\ \A x, y \in Seq(Tokens) : x \o y \in Seq(Tokens) /\ Len(x \o y) = Len(x) + Len(y)
  /\ \A x \in Seq(Tokens) : \A k \in 0 .. Len(x) :
       /\ SubSeq(x, 1, k) \in Seq(Tokens) /\ SubSeq(x, k + 1, Len(x)) \in Seq(Tokens)
       /\ SubSeq(x, 1, k) \o SubSeq(x, k + 1, Len(x)) = x
       /\ \A j \in 0 .. k : SubSeq(SubSeq(x, 1, k), 1, j) = SubSeq(x, 1, j)
       /\ \A j \in 0 .. Len(x) - k :
            SubSeq(x, 1, k + j) = SubSeq(x, 1, k) \o SubSeq(SubSeq(x, k + 1, Len(x)), 1, j)
<1>1. \A x, y, z \in Seq(Tokens) : (x \o y) \o z = x \o (y \o z)
  BY ConcatAssociative
<1>2. \A x, y \in Seq(Tokens) : x \o y \in Seq(Tokens) /\ Len(x \o y) = Len(x) + Len(y)
  BY ConcatProperties
<1>a. \A y, z \in Seq(Tokens) :
        /\ \A j \in 0 .. Len(y) : SubSeq(y \o z, 1, j) = SubSeq(y, 1, j)
        /\ \A j \in 0 .. Len(z) : SubSeq(y \o z, 1, Len(y) + j) = y \o SubSeq(z, 1, j)
  BY CutOfConcat
<1>3. ASSUME NEW x \in Seq(Tokens), NEW k \in 0 .. Len(x)
      PROVE  /\ SubSeq(x, 1, k) \in Seq(Tokens) /\ SubSeq(x, k + 1, Len(x)) \in Seq(Tokens)
             /\ SubSeq(x, 1, k) \o SubSeq(x, k + 1, Len(x)) = x
             /\ \A j \in 0 .. k : SubSeq(SubSeq(x, 1, k), 1, j) = SubSeq(x, 1, j)
             /\ \A j \in 0 .. Len(x) - k :
                  SubSeq(x, 1, k + j) = SubSeq(x, 1, k) \o SubSeq(SubSeq(x, k + 1, Len(x)), 1, j)
  <2> DEFINE y == SubSeq(x, 1, k)
             z == SubSeq(x, k + 1, Len(x))
  <2>1. /\ y \in Seq(Tokens) /\ z \in Seq(Tokens) /\ Len(y) = k /\ Len(z) = Len(x) - k
        /\ y \o z = x
    BY CutIs
  <2> HIDE DEF y, z
  <2>a. /\ \A j \in 0 .. Len(y) : SubSeq(y \o z, 1, j) = SubSeq(y, 1, j)
        /\ \A j \in 0 .. Len(z) : SubSeq(y \o z, 1, Len(y) + j) = y \o SubSeq(z, 1, j)
    BY <1>a, <2>1
  <2>2. \A j \in 0 .. k : SubSeq(y \o z, 1, j) = SubSeq(y, 1, j)
    BY <2>1, <2>a
  <2>3. \A j \in 0 .. Len(x) - k : SubSeq(y \o z, 1, k + j) = y \o SubSeq(z, 1, j)
    BY <2>1, <2>a
  <2>4. /\ \A j \in 0 .. k : SubSeq(y, 1, j) = SubSeq(x, 1, j)
        /\ \A j \in 0 .. Len(x) - k : SubSeq(x, 1, k + j) = y \o SubSeq(z, 1, j)
    BY <2>1, <2>2, <2>3
  <2> QED BY <2>1, <2>4 DEF y, z
<1> QED BY <1>1, <1>2, <1>3

-----------------------------------------------------------------------------
(* What the changes of a tree do to what it holds.                         *)

\* u holds what t holds, and t's nodes are where they were.
SameRows(t, u) ==
  /\ \A n \in DOMAIN t : n \in DOMAIN u /\ Paths(u)[n] = Paths(t)[n]
  /\ Held(u) = Held(t) /\ RowsIn(u) = RowsIn(t)

\* The functions and the trees that agree in both directions.
LEMMA RowsSame ==
  ASSUME NEW t, Tree(t), NEW u, Tree(u),
         \A n, k : IsSpot(u, n, k) => \E m, l : Stands(t, u, n, k, m, l),
         \A n, k : IsSpot(t, n, k) => \E m, l : Stands(u, t, n, k, m, l)
  PROVE  Held(u) = Held(t) /\ RowsIn(u) = RowsIn(t)
<1>1. Held(u) \subseteq Held(t) /\ \A s \in Held(u) : RowsIn(u)[s] = RowsIn(t)[s]
  BY RowsFrom
<1>2. Held(t) \subseteq Held(u)
  BY RowsFrom
<1>3. RowsIn(u) = [s \in Held(u) |-> RowsIn(u)[s]] /\ RowsIn(t) = [s \in Held(t) |-> RowsIn(t)[s]]
  BY RowsInIs
<1>4. Held(u) = Held(t)
  BY <1>1, <1>2
<1>5. \A s \in Held(u) : RowsIn(u)[s] = RowsIn(t)[s]
  BY <1>1
<1> HIDE DEF Held, RowsIn
<1> DEFINE H == Held(u)
           f == RowsIn(u)
           g == RowsIn(t)
<1>6. f = [s \in H |-> f[s]] /\ g = [s \in H |-> g[s]] /\ \A s \in H : f[s] = g[s]
  BY <1>3, <1>4, <1>5
<1> HIDE DEF H, f, g
<1>7. f = g
  BY <1>6
<1> QED BY <1>4, <1>7 DEF f, g

\* A node split keeps what is held, where it was.
LEMMA SplitRows ==
  ASSUME NEW t, Tree(t), NEW c \in DOMAIN t, NEW a \in DOMAIN t[c].children,
         NEW ch, ch = t[c].children[a], NEW k \in 1 .. Len(t[ch].prefix) - 1,
         NEW s \in Nat \ DOMAIN t, NEW u, IsSplit(t, u, c, ch, k, s)
  PROVE  /\ Tree(u) /\ SameRows(t, u)
         /\ IsSpot(t, ch, k) /\ Paths(u)[s] = At(t, ch, k)
         /\ Paths(u)[s] = Paths(t)[c] \o SubSeq(t[ch].prefix, 1, k)
<1>1. /\ ch \in Below(t) /\ ch \in DOMAIN t /\ ch # c /\ t[ch].parent = c /\ ch # Root
  BY ChildIs DEF Below
<1>2. Tree(u)
  BY SplitKeepsTree
<1> DEFINE P == Paths(t)
           whole == t[ch].prefix
           upper == SubSeq(whole, 1, k)
           lower == SubSeq(whole, k + 1, Len(whole))
<1>3. whole \in Seq(Tokens) /\ P[ch] = P[c] \o whole /\ P[c] \in Seq(Tokens) /\ Len(t[ch].rows) = Len(whole)
      /\ t[ch].rows \in Seq(Seq(Tokens)) /\ P[Root] = <<>> /\ Root \in DOMAIN t
  BY <1>1, PathsFacts
<1>4. Len(whole) \in Nat /\ k \in Nat /\ k > 0 /\ k < Len(whole) /\ k \in 0 .. Len(whole)
  BY <1>3, SMTT(30)
<1>5. /\ DOMAIN u = DOMAIN t \cup {s} /\ s \notin DOMAIN t /\ s # ch /\ s # c /\ s # Root
      /\ u[s].prefix = upper /\ u[s].rows = SubSeq(t[ch].rows, 1, k) /\ u[s].parent = c
      /\ u[ch].prefix = lower /\ u[ch].rows = SubSeq(t[ch].rows, k + 1, Len(t[ch].rows))
      /\ u[ch].parent = s
      /\ \A n \in DOMAIN t \ {ch} : SameBut(u[n], t[n])
  BY <1>1, <1>3 DEF IsSplit, SameBut
<1>6. /\ upper \in Seq(Tokens) /\ lower \in Seq(Tokens) /\ upper \o lower = whole /\ Len(upper) = k /\ Len(lower) = Len(whole) - k
      /\ \A j \in 0 .. k : SubSeq(upper, 1, j) = SubSeq(whole, 1, j)
      /\ \A j \in 0 .. Len(whole) - k : SubSeq(whole, 1, k + j) = upper \o SubSeq(lower, 1, j)
  <2>1. Len(upper) = k /\ Len(lower) = Len(whole) - k
    BY <1>3, <1>4, CutIs
  <2>2. whole \in Seq(Tokens) /\ k \in 0 .. Len(whole)
    BY <1>3, <1>4
  <2> HIDE DEF whole
  <2>3. /\ upper \in Seq(Tokens) /\ lower \in Seq(Tokens) /\ upper \o lower = whole
        /\ \A j \in 0 .. k : SubSeq(upper, 1, j) = SubSeq(whole, 1, j)
        /\ \A j \in 0 .. Len(whole) - k : SubSeq(whole, 1, k + j) = upper \o SubSeq(lower, 1, j)
    BY <2>2, TokensConcat
  <2> QED BY <2>1, <2>3
<1> HIDE DEF upper, lower
<1> DEFINE g == [n \in DOMAIN u |-> IF n = s THEN P[c] \o upper ELSE P[n]]
<1>7. /\ g[s] = P[c] \o upper /\ \A n \in DOMAIN t : g[n] = P[n]
  BY <1>5
<1>8. g \in [DOMAIN u -> Seq(Tokens)]
  <2>1. P[c] \o upper \in Seq(Tokens)
    BY <1>3, <1>6, TokensConcat
  <2>2. \A n \in DOMAIN t : P[n] \in Seq(Tokens)
    BY PathsFacts
  <2> QED BY <1>5, <2>1, <2>2
<1> HIDE DEF g
<1>9. PathsOf(u, g)
  <2>1. g[Root] = <<>>
    BY <1>3, <1>7
  <2>2. ASSUME NEW n \in Below(u) PROVE g[n] = g[u[n].parent] \o u[n].prefix
    <3>1. CASE n = s
      <4>1. g[n] = P[c] \o upper /\ u[n].parent = c /\ g[c] = P[c] /\ u[n].prefix = upper
        BY <1>5, <1>7, <3>1
      <4> QED BY <4>1
    <3>2. CASE n = ch
      <4>1. g[n] = P[c] \o whole /\ u[n].parent = s /\ g[s] = P[c] \o upper /\ u[n].prefix = lower
        BY <1>1, <1>3, <1>5, <1>7, <3>2
      <4>2. (P[c] \o upper) \o lower = P[c] \o (upper \o lower)
        <5> DEFINE pc == P[c]
        <5>1. pc \in Seq(Tokens) /\ upper \in Seq(Tokens) /\ lower \in Seq(Tokens)
          BY <1>3, <1>6
        <5> HIDE DEF pc
        <5>2. (pc \o upper) \o lower = pc \o (upper \o lower)
          BY <5>1, TokensAssoc
        <5> QED BY <5>2 DEF pc
      <4> QED BY <1>6, <4>1, <4>2
    <3>3. CASE n # s /\ n # ch
      <4>1. n \in Below(t) /\ n \in DOMAIN t
        BY <1>5, <3>3 DEF Below
      <4>2. SameBut(u[n], t[n]) /\ t[n].parent \in DOMAIN t /\ P[n] = P[t[n].parent] \o t[n].prefix
        BY <1>5, <3>3, <4>1, PathsFacts
      <4>3. g[n] = P[n] /\ g[t[n].parent] = P[t[n].parent]
        BY <1>7, <4>1, <4>2
      <4> QED BY <4>2, <4>3 DEF SameBut
    <3> QED BY <3>1, <3>2, <3>3
  <2> QED BY <1>8, <2>1, <2>2 DEF PathsOf
<1>10. Paths(u) = g
  BY <1>2, <1>9, PathsAre, PathsUnique
<1>11. IsSpot(t, ch, k)
  BY <1>1, <1>4 DEF IsSpot
<1>12. At(t, ch, k) = P[c] \o upper
  BY <1>1 DEF At, upper
<1>13. Paths(u)[s] = P[c] \o upper
  BY <1>7, <1>10
<1>14. \A n \in DOMAIN t : n \in DOMAIN u /\ Paths(u)[n] = Paths(t)[n]
  BY <1>5, <1>7, <1>10
<1>15. ASSUME NEW j \in 1 .. k
       PROVE  /\ IsSpot(u, s, j) /\ IsSpot(t, ch, j) /\ At(u, s, j) = At(t, ch, j)
              /\ u[s].rows[j] = t[ch].rows[j]
  <2>1. IsSpot(u, s, j) /\ IsSpot(t, ch, j)
    BY <1>1, <1>4, <1>5, <1>6 DEF IsSpot, Below
  <2>2. At(u, s, j) = P[c] \o SubSeq(upper, 1, j)
    BY <1>5, <1>14 DEF At
  <2>3. At(t, ch, j) = P[c] \o SubSeq(whole, 1, j)
    BY <1>1 DEF At
  <2>4. j \in 0 .. k
    BY <1>4
  <2>5. k \in 0 .. Len(t[ch].rows)
    BY <1>3, <1>4
  <2>6. SubSeq(t[ch].rows, 1, k)[j] = t[ch].rows[j]
    BY <1>3, <2>5, CutIs
  <2> QED BY <1>5, <1>6, <2>1, <2>2, <2>3, <2>4, <2>6
<1>16. ASSUME NEW j \in 1 .. Len(whole) - k
       PROVE  /\ IsSpot(u, ch, j) /\ IsSpot(t, ch, k + j) /\ At(u, ch, j) = At(t, ch, k + j)
              /\ u[ch].rows[j] = t[ch].rows[k + j]
  <2>1. IsSpot(u, ch, j) /\ IsSpot(t, ch, k + j)
    <3>1. k + j \in 1 .. Len(whole)
      BY <1>4
    <3> QED BY <1>1, <1>5, <1>6, <3>1 DEF IsSpot, Below
  <2>2. At(u, ch, j) = (P[c] \o upper) \o SubSeq(lower, 1, j)
    BY <1>5, <1>13 DEF At
  <2>3. At(t, ch, k + j) = P[c] \o SubSeq(whole, 1, k + j)
    BY <1>1 DEF At
  <2>4. j \in 0 .. Len(whole) - k /\ j \in 0 .. Len(lower)
    BY <1>4, <1>6
  <2>5. SubSeq(whole, 1, k + j) = upper \o SubSeq(lower, 1, j)
    BY <1>6, <2>4
  <2>6. SubSeq(lower, 1, j) \in Seq(Tokens)
    BY <1>6, <2>4, TokensConcat
  <2>7. (P[c] \o upper) \o SubSeq(lower, 1, j) = P[c] \o (upper \o SubSeq(lower, 1, j))
    <3> DEFINE pc == P[c]
               zj == SubSeq(lower, 1, j)
    <3>1. pc \in Seq(Tokens) /\ zj \in Seq(Tokens) /\ upper \in Seq(Tokens)
      BY <1>3, <1>6, <2>6
    <3> HIDE DEF pc, zj
    <3>2. (pc \o upper) \o zj = pc \o (upper \o zj)
      BY <3>1, TokensAssoc
    <3> QED BY <3>2 DEF pc, zj
  <2>8. k \in 0 .. Len(t[ch].rows) /\ j \in 1 .. Len(t[ch].rows) - k
    BY <1>3, <1>4
  <2>9. SubSeq(t[ch].rows, k + 1, Len(t[ch].rows))[j] = t[ch].rows[k + j]
    BY <1>3, <2>8, CutIs
  <2> QED BY <1>5, <2>1, <2>2, <2>3, <2>5, <2>7, <2>9
<1>17. ASSUME NEW n \in Below(t), n # ch
       PROVE  /\ n \in Below(u) /\ u[n].prefix = t[n].prefix /\ u[n].rows = t[n].rows
              /\ \A j : At(u, n, j) = At(t, n, j)
  <2>1. n \in DOMAIN t /\ t[n].parent \in DOMAIN t
    BY PathsFacts
  <2>2. SameBut(u[n], t[n])
    BY <1>5, <1>17, <2>1
  <2> QED BY <1>5, <1>14, <2>1, <2>2, ZenonT(30) DEF SameBut, At, Below
<1>18. \A n, j : IsSpot(u, n, j) => \E m, l : Stands(t, u, n, j, m, l)
  <2>1. SUFFICES ASSUME NEW n, NEW j, IsSpot(u, n, j) PROVE \E m, l : Stands(t, u, n, j, m, l)
    OBVIOUS
  <2>2. CASE n = s
    <3>1. j \in 1 .. k
      BY <1>5, <1>6, <2>1, <2>2 DEF IsSpot
    <3>2. Stands(t, u, n, j, ch, j)
      BY <1>15, <2>2, <3>1 DEF Stands
    <3> QED BY <3>2
  <2>3. CASE n = ch
    <3>1. j \in 1 .. Len(whole) - k
      BY <1>5, <1>6, <2>1, <2>3 DEF IsSpot
    <3>2. Stands(t, u, n, j, ch, k + j)
      BY <1>16, <2>3, <3>1 DEF Stands
    <3> QED BY <3>2
  <2>4. CASE n # s /\ n # ch
    <3>1. n \in Below(t)
      BY <1>5, <2>1, <2>4 DEF Below, IsSpot
    <3>2. Stands(t, u, n, j, n, j)
      BY <1>17, <2>1, <2>4, <3>1 DEF Stands, IsSpot
    <3> QED BY <3>2
  <2> QED BY <2>2, <2>3, <2>4
<1>19. \A n, j : IsSpot(t, n, j) => \E m, l : Stands(u, t, n, j, m, l)
  <2>1. SUFFICES ASSUME NEW n, NEW j, IsSpot(t, n, j) PROVE \E m, l : Stands(u, t, n, j, m, l)
    OBVIOUS
  <2>2. CASE n = ch /\ j <= k
    <3>1. j \in 1 .. k
      BY <1>4, <2>1, <2>2 DEF IsSpot
    <3>2. Stands(u, t, n, j, s, j)
      BY <1>15, <2>2, <3>1 DEF Stands
    <3> QED BY <3>2
  <2>3. CASE n = ch /\ ~(j <= k)
    <3>1. j - k \in 1 .. Len(whole) - k /\ k + (j - k) = j
      BY <1>4, <2>1, <2>3 DEF IsSpot
    <3>2. Stands(u, t, n, j, ch, j - k)
      BY <1>16, <2>3, <3>1 DEF Stands
    <3> QED BY <3>2
  <2>4. CASE n # ch
    <3>1. Stands(u, t, n, j, n, j)
      BY <1>17, <2>1, <2>4 DEF Stands, IsSpot
    <3> QED BY <3>1
  <2> QED BY <2>2, <2>3, <2>4
<1>20. Held(u) = Held(t) /\ RowsIn(u) = RowsIn(t)
  BY <1>2, <1>18, <1>19, RowsSame
<1> QED BY <1>2, <1>11, <1>12, <1>13, <1>14, <1>20 DEF SameRows, upper

\* The positions in a node.
SpotsAt(t, l) == {At(t, l, j) : j \in 1 .. Len(t[l].prefix)}

GrowDone(t, u, c, l, e) ==
  /\ Tree(u)
  /\ \A n \in DOMAIN t : n \in DOMAIN u /\ Paths(u)[n] = Paths(t)[n]
  /\ Paths(u)[l] = Paths(t)[c] \o e.prefix
  /\ Held(u) = Held(t) \cup SpotsAt(u, l)
  /\ \A s \in Held(t) : RowsIn(u)[s] = RowsIn(t)[s]
  /\ \A j \in 1 .. Len(e.prefix) :
       /\ At(u, l, j) = Paths(t)[c] \o SubSeq(e.prefix, 1, j)
       /\ At(u, l, j) \notin Held(t)
       /\ RowsIn(u)[At(u, l, j)] = e.rows[j]

PruneDone(t, u, l) ==
  /\ Tree(u) /\ DOMAIN u = DOMAIN t \ {l}
  /\ \A n \in DOMAIN u : Paths(u)[n] = Paths(t)[n] /\ SameBut(u[n], t[n])
  /\ Held(u) = Held(t) \ SpotsAt(t, l)
  /\ \A s \in Held(u) : RowsIn(u)[s] = RowsIn(t)[s]

\* A new leaf adds its own prefixes, none of them held before.
LEMMA GrownRows ==
  ASSUME NEW t, Tree(t), NEW c \in DOMAIN t, NEW e \in NodeType,
         e.prefix # <<>>, Len(e.rows) = Len(e.prefix), e.parent = c, e.children = <<>>,
         e.prefix[1] \notin DOMAIN t[c].children,
         NEW l \in Nat \ DOMAIN t, NEW u, IsGrown(t, u, c, l, e)
  PROVE  GrowDone(t, u, c, l, e)
<1>1. Tree(u)
  BY GrownKeepsTree
<1> DEFINE P == Paths(t)
<1>2. /\ DOMAIN u = DOMAIN t \cup {l} /\ l \notin DOMAIN t /\ l # c /\ l # Root /\ u[l] = e
      /\ \A n \in DOMAIN t : SameBut(u[n], t[n])
  BY DEF IsGrown, SameBut, Tree, Typed
<1>3. /\ P[Root] = <<>> /\ Root \in DOMAIN t /\ P[c] \in Seq(Tokens) /\ e.prefix \in Seq(Tokens)
      /\ \A n \in DOMAIN t : P[n] \in Seq(Tokens)
  <2>1. e.prefix \in Seq(Tokens)
    BY NodeIs
  <2>2. \A n \in DOMAIN t : P[n] \in Seq(Tokens)
    BY PathsFacts
  <2>3. P[Root] = <<>> /\ Root \in DOMAIN t
    BY PathsFacts
  <2> QED BY <2>1, <2>2, <2>3
<1> DEFINE g == [n \in DOMAIN u |-> IF n = l THEN P[c] \o e.prefix ELSE P[n]]
<1>4. g[l] = P[c] \o e.prefix /\ \A n \in DOMAIN t : g[n] = P[n]
  BY <1>2
<1>5. g \in [DOMAIN u -> Seq(Tokens)]
  <2>1. P[c] \o e.prefix \in Seq(Tokens)
    BY <1>3, ConcatProperties
  <2> QED BY <1>2, <1>3, <2>1
<1> HIDE DEF g
<1>6. PathsOf(u, g)
  <2>1. g[Root] = <<>>
    BY <1>3, <1>4
  <2>2. ASSUME NEW n \in Below(u) PROVE g[n] = g[u[n].parent] \o u[n].prefix
    <3>1. CASE n = l
      BY <1>2, <1>4, <3>1
    <3>2. CASE n # l
      <4>1. n \in Below(t) /\ n \in DOMAIN t
        BY <1>2, <3>2 DEF Below
      <4>2. SameBut(u[n], t[n]) /\ t[n].parent \in DOMAIN t /\ P[n] = P[t[n].parent] \o t[n].prefix
        BY <1>2, <4>1, PathsFacts
      <4>3. g[n] = P[n] /\ g[t[n].parent] = P[t[n].parent]
        BY <1>4, <4>1, <4>2
      <4> QED BY <4>2, <4>3 DEF SameBut
    <3> QED BY <3>1, <3>2
  <2> QED BY <1>5, <2>1, <2>2 DEF PathsOf
<1>7. Paths(u) = g
  BY <1>1, <1>6, PathsAre, PathsUnique
<1>8. Paths(u)[l] = P[c] \o e.prefix /\ \A n \in DOMAIN t : n \in DOMAIN u /\ Paths(u)[n] = Paths(t)[n]
  BY <1>2, <1>4, <1>7
<1>9. ASSUME NEW n \in Below(t)
       PROVE  /\ n \in Below(u) /\ n # l /\ u[n].prefix = t[n].prefix /\ u[n].rows = t[n].rows
              /\ \A j : At(u, n, j) = At(t, n, j)
  <2>1. n \in DOMAIN t /\ t[n].parent \in DOMAIN t
    BY PathsFacts
  <2>2. SameBut(u[n], t[n])
    BY <1>2, <2>1
  <2> QED BY <1>2, <1>8, <2>1, <2>2, ZenonT(30) DEF SameBut, At, Below
<1>10. \A n, j : IsSpot(t, n, j) => \E m, i_1 : Stands(u, t, n, j, m, i_1)
  <2>1. SUFFICES ASSUME NEW n, NEW j, IsSpot(t, n, j) PROVE \E m, i_1 : Stands(u, t, n, j, m, i_1)
    OBVIOUS
  <2>2. Stands(u, t, n, j, n, j)
    BY <1>9, <2>1 DEF Stands, IsSpot
  <2> QED BY <2>2
<1>11. Held(t) \subseteq Held(u) /\ \A s \in Held(t) : RowsIn(t)[s] = RowsIn(u)[s]
  BY <1>1, <1>10, RowsFrom
<1>12. ASSUME NEW j \in 1 .. Len(e.prefix)
       PROVE  /\ IsSpot(u, l, j)
              /\ At(u, l, j) = P[c] \o SubSeq(e.prefix, 1, j)
              /\ RowsIn(u)[At(u, l, j)] = e.rows[j] /\ At(u, l, j) \in Held(u)
  <2>1. IsSpot(u, l, j)
    BY <1>2 DEF IsSpot, Below
  <2>2. At(u, l, j) = P[c] \o SubSeq(e.prefix, 1, j)
    BY <1>2, <1>8 DEF At
  <2>3. RowsIn(u)[At(u, l, j)] = e.rows[j] /\ At(u, l, j) \in Held(u)
    BY <1>1, <1>2, <2>1, RowsInIs, HeldIs
  <2> QED BY <2>1, <2>2, <2>3
<1>13. ASSUME NEW j \in 1 .. Len(e.prefix) PROVE At(u, l, j) \notin Held(t)
  <2>1. SUFFICES ASSUME At(u, l, j) \in Held(t) PROVE FALSE
    OBVIOUS
  <2>2. PICK n, k : IsSpot(t, n, k) /\ At(u, l, j) = At(t, n, k)
    BY <2>1, HeldIs
  <2>3. n \in Below(t)
    BY <2>2 DEF IsSpot
  <2>4. IsSpot(u, n, k) /\ At(u, n, k) = At(t, n, k) /\ n # l
    BY <1>9, <2>2, <2>3 DEF IsSpot
  <2>5. IsSpot(u, l, j)
    BY <1>12
  <2> QED BY <1>1, <2>2, <2>4, <2>5, AtUnique
<1>14. Held(u) = Held(t) \cup {At(u, l, j) : j \in 1 .. Len(e.prefix)}
  <2>1. ASSUME NEW s \in Held(u) PROVE s \in Held(t) \cup {At(u, l, j) : j \in 1 .. Len(e.prefix)}
    <3>1. PICK n, k : IsSpot(u, n, k) /\ s = At(u, n, k)
      BY <1>1, HeldIs
    <3>2. CASE n = l
      BY <1>2, <3>1, <3>2 DEF IsSpot
    <3>3. CASE n # l
      <4>1. n \in Below(t)
        BY <1>2, <3>1, <3>3 DEF IsSpot, Below
      <4>2. IsSpot(t, n, k) /\ s = At(t, n, k)
        BY <1>9, <3>1, <4>1 DEF IsSpot
      <4> QED BY <4>2, HeldIs
    <3> QED BY <3>2, <3>3
  <2>2. ASSUME NEW s \in {At(u, l, j) : j \in 1 .. Len(e.prefix)} PROVE s \in Held(u)
    BY <1>12
  <2> QED BY <1>11, <2>1, <2>2
<1>15. Held(u) = Held(t) \cup SpotsAt(u, l)
  BY <1>2, <1>14 DEF SpotsAt
<1> QED BY <1>1, <1>8, <1>11, <1>12, <1>13, <1>15 DEF GrowDone

\* A leaf taken away takes its own prefixes along, and no others.
LEMMA PrunedRows ==
  ASSUME NEW t, Tree(t), NEW l \in Below(t), t[l].children = <<>>, NEW u, IsPruned(t, u, l)
  PROVE  PruneDone(t, u, l)
<1>1. Tree(u)
  BY PrunedKeepsTree
<1> DEFINE P == Paths(t)
<1>2. /\ DOMAIN u = DOMAIN t \ {l}
      /\ \A n \in DOMAIN u : SameBut(u[n], t[n])
  BY DEF IsPruned, SameBut
<1>3. /\ P[Root] = <<>> /\ Root \in DOMAIN t
      /\ \A n \in DOMAIN t : P[n] \in Seq(Tokens)
  BY PathsFacts
<1>4. ASSUME NEW n \in DOMAIN u, n # Root
      PROVE  n \in Below(t) /\ t[n].parent \in DOMAIN u /\ t[n].parent # l /\ u[n].parent = t[n].parent
  <2>1. n \in Below(u) /\ n \in Below(t)
    BY <1>2, <1>4 DEF Below
  <2>2. u[n].parent \in DOMAIN u
    BY <1>1, <2>1, PathsFacts
  <2> QED BY <1>2, <2>1, <2>2 DEF SameBut
<1> DEFINE g == [n \in DOMAIN u |-> P[n]]
<1>5. \A n \in DOMAIN u : g[n] = P[n]
  OBVIOUS
<1>6. g \in [DOMAIN u -> Seq(Tokens)]
  BY <1>2, <1>3
<1> HIDE DEF g
<1>7. PathsOf(u, g)
  <2>1. g[Root] = <<>>
    BY <1>2, <1>3, <1>5 DEF Below
  <2>2. ASSUME NEW n \in Below(u) PROVE g[n] = g[u[n].parent] \o u[n].prefix
    <3>1. n \in DOMAIN u /\ n # Root
      BY DEF Below
    <3>2. n \in Below(t) /\ t[n].parent \in DOMAIN u /\ u[n].parent = t[n].parent
      BY <1>4, <3>1
    <3>3. P[n] = P[t[n].parent] \o t[n].prefix
      BY <3>2, PathsFacts
    <3>4. u[n].prefix = t[n].prefix
      BY <1>2, <3>1 DEF SameBut
    <3> QED BY <1>5, <3>1, <3>2, <3>3, <3>4
  <2> QED BY <1>6, <2>1, <2>2 DEF PathsOf
<1>8. Paths(u) = g
  BY <1>1, <1>7, PathsAre, PathsUnique
<1>9. \A n \in DOMAIN u : Paths(u)[n] = Paths(t)[n]
  BY <1>5, <1>8
<1>10. ASSUME NEW n \in Below(u)
       PROVE  /\ n \in Below(t) /\ n # l /\ u[n].prefix = t[n].prefix /\ u[n].rows = t[n].rows
              /\ \A j : At(u, n, j) = At(t, n, j)
  <2>1. n \in DOMAIN u /\ n # Root
    BY DEF Below
  <2>2. n \in Below(t) /\ t[n].parent \in DOMAIN u /\ u[n].parent = t[n].parent
    BY <1>4, <2>1
  <2>3. SameBut(u[n], t[n])
    BY <1>2, <2>1
  <2>4. u[n].prefix = t[n].prefix /\ u[n].rows = t[n].rows
    BY <2>3 DEF SameBut
  <2>5. Paths(u)[u[n].parent] = Paths(t)[t[n].parent]
    BY <1>9, <2>2
  <2>6. \A j : At(u, n, j) = At(t, n, j)
    BY <2>4, <2>5 DEF At
  <2>7. n # l
    BY <1>2, <2>1
  <2> QED BY <2>2, <2>4, <2>6, <2>7
<1>11. \A n, j : IsSpot(u, n, j) => \E m, k : Stands(t, u, n, j, m, k)
  <2>1. SUFFICES ASSUME NEW n, NEW j, IsSpot(u, n, j) PROVE \E m, k : Stands(t, u, n, j, m, k)
    OBVIOUS
  <2>2. Stands(t, u, n, j, n, j)
    BY <1>10, <2>1 DEF Stands, IsSpot
  <2> QED BY <2>2
<1>12. Held(u) \subseteq Held(t) /\ \A s \in Held(u) : RowsIn(u)[s] = RowsIn(t)[s]
  BY <1>1, <1>11, RowsFrom
<1>13. ASSUME NEW s \in Held(u) PROVE s \notin {At(t, l, j) : j \in 1 .. Len(t[l].prefix)}
  <2>1. SUFFICES ASSUME NEW j \in 1 .. Len(t[l].prefix), s = At(t, l, j) PROVE FALSE
    OBVIOUS
  <2>2. PICK n, k : IsSpot(u, n, k) /\ s = At(u, n, k)
    BY <1>1, HeldIs
  <2>3. n \in Below(u)
    BY <2>2 DEF IsSpot
  <2>4. IsSpot(t, n, k) /\ At(u, n, k) = At(t, n, k) /\ n # l
    BY <1>10, <2>2, <2>3 DEF IsSpot
  <2>5. IsSpot(t, l, j)
    BY DEF IsSpot
  <2> QED BY <2>1, <2>2, <2>4, <2>5, AtUnique
<1>14. ASSUME NEW s \in Held(t), s \notin {At(t, l, j) : j \in 1 .. Len(t[l].prefix)}
       PROVE  s \in Held(u)
  <2>1. PICK n, k : IsSpot(t, n, k) /\ s = At(t, n, k)
    BY HeldIs
  <2>2. n # l
    BY <1>14, <2>1 DEF IsSpot
  <2>3. n \in Below(u)
    BY <1>2, <2>1, <2>2 DEF IsSpot, Below
  <2>4. IsSpot(u, n, k) /\ s = At(u, n, k)
    BY <1>10, <2>1, <2>3 DEF IsSpot
  <2> QED BY <1>1, <2>4, HeldIs
<1>15. Held(u) = Held(t) \ {At(t, l, j) : j \in 1 .. Len(t[l].prefix)}
  BY <1>12, <1>13, <1>14
<1>16. Held(u) = Held(t) \ SpotsAt(t, l)
  BY <1>15 DEF SpotsAt
<1> QED BY <1>1, <1>2, <1>9, <1>12, <1>16 DEF PruneDone

-----------------------------------------------------------------------------
(* How much a tree holds.                                                  *)

\* The spots of the nodes in N.
SpotsIn(t, N) == UNION {{n} \X (1 .. Len(t[n].prefix)) : n \in N}

\* The lengths of the nodes in N, added up.
Lengths(t, N) == MapThenSumSet(LAMBDA n : Len(t[n].prefix), N)

\* What the definition of a sum says of the function g.
IsSum(t, N, g) ==
  g = [s \in SUBSET N |-> IF s = {} THEN 0
                          ELSE LET x == CHOOSE x \in s : TRUE
                               IN  Len(t[x].prefix) + g[s \ {x}]]

\* The sum is such a function's.
LEMMA LengthsBy == \A t, N : Lengths(t, N) = (CHOOSE g : IsSum(t, N, g))[N]
  BY DEF Lengths, MapThenSumSet, MapThenFoldSet, IsSum

\* A node's spots come to those of the others.
LEMMA SpotsCount ==
  ASSUME NEW t, NEW N, IsFiniteSet(N), \A n \in N : Len(t[n].prefix) \in Nat
  PROVE  /\ IsFiniteSet(SpotsIn(t, N)) /\ Cardinality(SpotsIn(t, N)) \in Nat
         /\ SpotsIn(t, {}) = {}
         /\ \A n \in N : Cardinality(SpotsIn(t, N))
                           = Len(t[n].prefix) + Cardinality(SpotsIn(t, N \ {n}))
<1> DEFINE Own(n) == {n} \X (1 .. Len(t[n].prefix))
<1>1. \A n \in N : IsFiniteSet(Own(n)) /\ Cardinality(Own(n)) = Len(t[n].prefix)
  <2> SUFFICES ASSUME NEW n \in N
               PROVE  IsFiniteSet(Own(n)) /\ Cardinality(Own(n)) = Len(t[n].prefix)
    OBVIOUS
  <2>1. Len(t[n].prefix) \in Nat
    OBVIOUS
  <2>2. IsFiniteSet(1 .. Len(t[n].prefix)) /\ Cardinality(1 .. Len(t[n].prefix)) = Len(t[n].prefix)
    BY <2>1, FS_Interval
  <2>3. IsFiniteSet({n}) /\ Cardinality({n}) = 1
    BY FS_Singleton
  <2>4. Cardinality(Own(n)) = 1 * Len(t[n].prefix) /\ IsFiniteSet(Own(n))
    BY <2>2, <2>3, FS_Product, ZenonT(30)
  <2> QED BY <2>1, <2>4
<1>2. ASSUME NEW M \in SUBSET N PROVE IsFiniteSet(SpotsIn(t, M))
  <2> DEFINE owns == {Own(n) : n \in M}
  <2>1. IsFiniteSet(M)
    BY FS_Subset
  <2>2. IsFiniteSet(owns)
    <3> DEFINE f == [n \in M |-> Own(n)]
    <3> HIDE DEF Own
    <3>1. f \in [M -> owns] /\ \A T \in owns : \E n \in M : f[n] = T
      OBVIOUS
    <3> HIDE DEF f, owns
    <3>2. f \in Surjection(M, owns)
      BY <3>1 DEF Surjection
    <3> QED BY <2>1, <3>2, FS_Surjection
  <2>3. \A T \in owns : IsFiniteSet(T)
    BY <1>1
  <2>4. IsFiniteSet(UNION owns)
    <3> HIDE DEF owns
    <3> QED BY <2>2, <2>3, FS_UNION
  <2> QED BY <2>4 DEF SpotsIn
<1>3. SpotsIn(t, {}) = {}
  BY DEF SpotsIn
<1>4. ASSUME NEW n \in N
      PROVE  Cardinality(SpotsIn(t, N)) = Len(t[n].prefix) + Cardinality(SpotsIn(t, N \ {n}))
  <2> DEFINE rest == SpotsIn(t, N \ {n})
  <2>1. SpotsIn(t, N) = Own(n) \cup rest
    BY DEF SpotsIn
  <2>2. Own(n) \cap rest = {}
    BY DEF SpotsIn
  <2>3. IsFiniteSet(rest) /\ IsFiniteSet(Own(n)) /\ Cardinality(Own(n)) = Len(t[n].prefix)
    BY <1>1, <1>2
  <2>4. Cardinality(rest) \in Nat /\ Len(t[n].prefix) \in Nat /\ Cardinality({}) = 0
    BY <2>3, FS_CardinalityType, FS_EmptySet
  <2> HIDE DEF Own, rest
  <2>5. Cardinality(Own(n) \cup rest) = Cardinality(Own(n)) + Cardinality(rest) - Cardinality({})
    BY <2>2, <2>3, FS_Union
  <2>6. Cardinality(SpotsIn(t, N)) = Len(t[n].prefix) + Cardinality(rest)
    BY <2>1, <2>3, <2>4, <2>5
  <2> QED BY <2>6 DEF rest
<1> QED BY <1>2, <1>3, <1>4, FS_CardinalityType

\* So the sum counts the spots.
LEMMA LengthsAre ==
  ASSUME NEW t, NEW N, IsFiniteSet(N), \A n \in N : Len(t[n].prefix) \in Nat
  PROVE  Lengths(t, N) = Cardinality(SpotsIn(t, N))
<1> DEFINE F(s) == Cardinality(SpotsIn(t, s))
           g0 == [s \in SUBSET N |-> F(s)]
           Pick(s) == CHOOSE x \in s : TRUE
<1>1. ASSUME NEW s \in SUBSET N
      PROVE  /\ F(s) \in Nat /\ F({}) = 0
             /\ s # {} => Pick(s) \in s /\ F(s) = Len(t[Pick(s)].prefix) + F(s \ {Pick(s)})
  <2>1. IsFiniteSet(s)
    BY FS_Subset
  <2>2. \A n \in s : Len(t[n].prefix) \in Nat
    OBVIOUS
  <2>3. s # {} => Pick(s) \in s
    OBVIOUS
  <2> HIDE DEF Pick
  <2>4. /\ F(s) \in Nat /\ SpotsIn(t, {}) = {}
        /\ \A n \in s : F(s) = Len(t[n].prefix) + F(s \ {n})
    BY <2>1, <2>2, SpotsCount, SMTT(30)
  <2>5. F({}) = 0
    BY <2>4, FS_EmptySet
  <2> HIDE DEF F
  <2> QED BY <2>3, <2>4, <2>5
<1> HIDE DEF F
<1>2. IsSum(t, N, g0)
  <2>1. \A s \in SUBSET N : g0[s] = IF s = {} THEN 0 ELSE Len(t[Pick(s)].prefix) + g0[s \ {Pick(s)}]
    <3> TAKE s \in SUBSET N
    <3>1. CASE s = {}
      BY <1>1, <3>1
    <3>2. CASE s # {}
      <4>1. s \ {Pick(s)} \in SUBSET N
        OBVIOUS
      <4>2. F(s) = Len(t[Pick(s)].prefix) + F(s \ {Pick(s)})
        BY <1>1, <3>2
      <4> HIDE DEF Pick
      <4> QED BY <3>2, <4>1, <4>2
    <3> QED BY <3>1, <3>2
  <2>2. g0 = [s \in SUBSET N |-> g0[s]]
    OBVIOUS
  <2> HIDE DEF g0
  <2> QED BY <2>1, <2>2, Zenon DEF IsSum
<1>3. PICK g : g = CHOOSE h : IsSum(t, N, h)
  OBVIOUS
<1>4. IsSum(t, N, g)
  BY <1>2, <1>3
<1>5. \A s \in SUBSET N : g[s] = IF s = {} THEN 0 ELSE Len(t[Pick(s)].prefix) + g[s \ {Pick(s)}]
  BY <1>4, Zenon DEF IsSum
<1> DEFINE wrong == {s \in SUBSET N : g[s] # F(s)}
           sizes == {Cardinality(s) : s \in wrong}
<1>6. \A s \in SUBSET N : IsFiniteSet(s) /\ Cardinality(s) \in Nat
  BY FS_Subset, FS_CardinalityType
<1>7. wrong = {}
  <2>1. SUFFICES ASSUME wrong # {} PROVE FALSE
    OBVIOUS
  <2>2. sizes \in SUBSET Nat /\ sizes # {}
    BY <1>6, <2>1
  <2>3. PICK c \in sizes : \A d \in sizes : c <= d
    <3> HIDE DEF sizes
    <3> QED BY <2>2, LeastOf
  <2>4. PICK s \in wrong : c = Cardinality(s)
    BY <2>3
  <2>5. s \in SUBSET N /\ g[s] # F(s)
    BY <2>4
  <2>6. s # {}
    BY <1>1, <1>5, <2>5
  <2>7. Pick(s) \in s
    BY <2>6
  <2>8. s \ {Pick(s)} \in SUBSET N /\ Cardinality(s \ {Pick(s)}) = Cardinality(s) - 1
    <3> HIDE DEF Pick
    <3> QED BY <1>6, <2>5, <2>7, FS_RemoveElement
  <2>9. s \ {Pick(s)} \notin wrong
    <3>1. SUFFICES ASSUME s \ {Pick(s)} \in wrong PROVE FALSE
      OBVIOUS
    <3>2. Cardinality(s \ {Pick(s)}) \in sizes
      BY <3>1
    <3>3. Cardinality(s) <= Cardinality(s) - 1
      BY <2>3, <2>4, <2>8, <3>2
    <3>4. Cardinality(s) \in Nat
      BY <1>6, <2>5
    <3> QED BY <3>3, <3>4
  <2>10. g[s \ {Pick(s)}] = F(s \ {Pick(s)})
    BY <2>8, <2>9
  <2> QED BY <1>1, <1>5, <2>5, <2>6, <2>10
<1>8. g[N] = F(N)
  BY <1>7
<1>9. Lengths(t, N) = g[N]
  BY <1>3, LengthsBy
<1> QED BY <1>8, <1>9 DEF F

\* A tree's lengths add up to the number of the prefixes it holds.
LEMMA LengthsHeld ==
  ASSUME NEW t, Tree(t)
  PROVE  /\ IsFiniteSet(Held(t)) /\ Cardinality(Held(t)) \in Nat
         /\ Lengths(t, Below(t)) = Cardinality(Held(t))
<1> DEFINE S == SpotsIn(t, Below(t))
           f == [x \in S |-> At(t, x[1], x[2])]
<1>1. IsFiniteSet(Below(t))
  BY FS_RemoveElement DEF Below, Tree, Typed
<1>2. \A n \in Below(t) : Len(t[n].prefix) \in Nat
  BY PathsFacts
<1>3. IsFiniteSet(S) /\ Lengths(t, Below(t)) = Cardinality(S)
  BY <1>1, <1>2, SpotsCount, LengthsAre
<1>4. \A x \in S : x = <<x[1], x[2]>> /\ IsSpot(t, x[1], x[2])
  BY DEF SpotsIn, IsSpot
<1>5. \A n, k : IsSpot(t, n, k) => <<n, k>> \in S
  BY DEF SpotsIn, IsSpot
<1> HIDE DEF S
<1>6. \A x \in S : f[x] = At(t, x[1], x[2])
  OBVIOUS
<1>7. f \in [S -> Held(t)]
  BY <1>4, HeldIs
<1> HIDE DEF f
<1>8. ASSUME NEW x \in S, NEW y \in S, f[x] = f[y] PROVE x = y
  <2>1. IsSpot(t, x[1], x[2]) /\ IsSpot(t, y[1], y[2]) /\ At(t, x[1], x[2]) = At(t, y[1], y[2])
    BY <1>4, <1>6, <1>8
  <2>2. x[1] = y[1] /\ x[2] = y[2]
    BY <2>1, AtUnique
  <2> QED BY <1>4, <2>2
<1>9. ASSUME NEW s \in Held(t) PROVE \E x \in S : f[x] = s
  <2>1. PICK n, k : IsSpot(t, n, k) /\ s = At(t, n, k)
    BY HeldIs
  <2>2. <<n, k>> \in S /\ f[<<n, k>>] = s
    BY <1>5, <1>6, <2>1
  <2> QED BY <2>2
<1>10. f \in Bijection(S, Held(t))
  BY <1>7, <1>8, <1>9 DEF Bijection, Injection, Surjection, IsInjective
<1>11. ExistsBijection(S, Held(t))
  BY <1>10 DEF ExistsBijection
<1> QED BY <1>3, <1>11, FS_Bijection, FS_CardinalityType

\* A sequence of all elements of T, without repetitions.
Counts(f, m, T) ==
  /\ f \in [1 .. m -> T]
  /\ \A j, k \in 1 .. m : f[j] = f[k] => j = k
  /\ \A y \in T : \E j \in 1 .. m : f[j] = y

\* It has as many elements as places.
LEMMA CountOf ==
  ASSUME NEW T, NEW m, NEW f, m \in Nat, Counts(f, m, T)
  PROVE  IsFiniteSet(T) /\ Cardinality(T) = m
<1>1. f \in Bijection(1 .. m, T)
  BY DEF Counts, Bijection, Injection, Surjection, IsInjective
<1>2. ExistsBijection(1 .. m, T)
  BY <1>1 DEF ExistsBijection
<1>3. IsFiniteSet(1 .. m) /\ Cardinality(1 .. m) = m
  BY FS_Interval
<1> QED BY <1>2, <1>3, FS_Bijection

\* Sets with nothing in common are counted apart.
LEMMA DisjointCount ==
  ASSUME NEW A, NEW B, IsFiniteSet(A), IsFiniteSet(B), A \cap B = {}
  PROVE  Cardinality(A \cup B) = Cardinality(A) + Cardinality(B)
<1>1. Cardinality(A \cup B) = Cardinality(A) + Cardinality(B) - Cardinality(A \cap B)
  BY FS_Union
<1>2. Cardinality(A) \in Nat /\ Cardinality(B) \in Nat /\ Cardinality(A \cap B) = 0
  BY FS_CardinalityType, FS_EmptySet
<1> QED BY <1>1, <1>2

\* A node has as many positions as tokens.
LEMMA SpotsAtCount ==
  ASSUME NEW t, Tree(t), NEW l \in Below(t), NEW m, m = Len(t[l].prefix)
  PROVE  IsFiniteSet(SpotsAt(t, l)) /\ Cardinality(SpotsAt(t, l)) = m
<1>1. m \in Nat
  BY PathsFacts
<1>2. \A j \in 1 .. m : IsSpot(t, l, j)
  BY DEF IsSpot
<1>3. PICK f : f = [j \in 1 .. m |-> At(t, l, j)]
  OBVIOUS
<1>4. f \in [1 .. m -> SpotsAt(t, l)] /\ \A y \in SpotsAt(t, l) : \E j \in 1 .. m : f[j] = y
  BY <1>3 DEF SpotsAt
<1>5. ASSUME NEW j \in 1 .. m, NEW k \in 1 .. m, f[j] = f[k]
      PROVE  j = k
  BY <1>2, <1>3, <1>5, AtUnique
<1>6. PICK T : T = SpotsAt(t, l)
  OBVIOUS
<1>7. f \in [1 .. m -> T] /\ \A y \in T : \E j \in 1 .. m : f[j] = y
  BY <1>4, <1>6, Zenon
<1>8. Counts(f, m, T)
  BY <1>5, <1>7, Zenon DEF Counts
<1>9. IsFiniteSet(T) /\ Cardinality(T) = m
  BY <1>1, <1>8, CountOf, Zenon
<1> QED BY <1>6, <1>9, Zenon

\* How a new leaf, or one taken away, changes the count.
LEMMA LeafCount ==
  ASSUME NEW t, Tree(t), NEW l \in Below(t), NEW old,
         Held(t) = old \cup SpotsAt(t, l), \A s \in SpotsAt(t, l) : s \notin old
  PROVE  /\ IsFiniteSet(old) /\ Cardinality(old) \in Nat
         /\ Cardinality(Held(t)) = Cardinality(old) + Len(t[l].prefix)
<1>1. IsFiniteSet(SpotsAt(t, l)) /\ Cardinality(SpotsAt(t, l)) = Len(t[l].prefix)
  BY SpotsAtCount
<1>2. IsFiniteSet(Held(t))
  BY LengthsHeld
<1>3. IsFiniteSet(old) /\ Cardinality(old) \in Nat
  <2>1. old \in SUBSET Held(t)
    OBVIOUS
  <2> QED BY <1>2, <2>1, FS_Subset, FS_CardinalityType
<1>4. old \cap SpotsAt(t, l) = {}
  OBVIOUS
<1>5. Cardinality(old \cup SpotsAt(t, l)) = Cardinality(old) + Cardinality(SpotsAt(t, l))
  BY <1>1, <1>3, <1>4, DisjointCount
<1> QED BY <1>1, <1>3, <1>5

-----------------------------------------------------------------------------
(* The list of the nodes by their last use.                                *)

\* list has every node of N, once.
Lists(list, N) ==
  /\ list \in Seq(N)
  /\ \A j, k \in 1 .. Len(list) : list[j] = list[k] => j = k
  /\ \A n \in N : \E j \in 1 .. Len(list) : list[j] = n

\* The nodes of N come before the others.
Ahead(list, N) == \A j, k \in 1 .. Len(list) : j < k /\ list[k] \in N => list[j] \in N

\* short is list without its p-th.
IsCut(list, p, short) ==
  /\ Len(short) = Len(list) - 1
  /\ \A j \in 1 .. Len(short) : short[j] = IF j < p THEN list[j] ELSE list[j + 1]

\* Removing a node that is in the list once.
LEMMA RemoveIs ==
  ASSUME NEW S, NEW list \in Seq(S), NEW p \in 1 .. Len(list),
         \A j \in 1 .. Len(list) : list[j] = list[p] => j = p
  PROVE  /\ RemoveFirst(list, list[p]) \in Seq(S)
         /\ IsCut(list, p, RemoveFirst(list, list[p]))
<1> DEFINE places == {j \in 1 .. Len(list) : list[j] = list[p]}
           front == SubSeq(list, 1, p - 1)
           back == SubSeq(list, p + 1, Len(list))
<1>1. places = {p}
  OBVIOUS
<1>2. Min(places) = p
  <2>1. Min({p}) = p
    BY DEF Min
  <2> QED BY <1>1, <2>1
<1>3. SelectInSeq(list, LAMBDA v : v = list[p]) = p
  BY <1>1, <1>2 DEF SelectInSeq
<1>4. RemoveFirst(list, list[p]) = front \o back
  BY <1>3 DEF RemoveFirst, RemoveAt
<1>5. Len(list) \in Nat /\ p \in Nat /\ p >= 1 /\ p <= Len(list) /\ p - 1 \in 0 .. Len(list)
      /\ p \in 0 .. Len(list)
  OBVIOUS
<1>6. /\ front \in Seq(S) /\ Len(front) = p - 1
      /\ \A j \in 1 .. p - 1 : front[j] = list[j]
  BY <1>5, CutIs
<1>7. /\ back \in Seq(S) /\ Len(back) = Len(list) - p
      /\ \A j \in 1 .. Len(list) - p : back[j] = list[p + j]
  BY <1>5, CutIs
<1> HIDE DEF places, front, back
<1>8. /\ front \o back \in Seq(S) /\ Len(front \o back) = Len(front) + Len(back)
      /\ \A j \in 1 .. Len(front) + Len(back) :
           (front \o back)[j] = IF j <= Len(front) THEN front[j] ELSE back[j - Len(front)]
  BY <1>6, <1>7, ConcatProperties
<1>9. Len(front \o back) = Len(list) - 1
  BY <1>5, <1>6, <1>7, <1>8
<1>10. ASSUME NEW j \in 1 .. Len(front \o back)
       PROVE  (front \o back)[j] = IF j < p THEN list[j] ELSE list[j + 1]
  <2>1. j \in 1 .. Len(front) + Len(back)
    BY <1>8
  <2>2. CASE j < p
    <3>1. j <= Len(front) /\ j \in 1 .. p - 1
      BY <1>5, <1>6, <2>2
    <3> QED BY <1>6, <1>8, <2>1, <2>2, <3>1
  <2>3. CASE ~(j < p)
    <3>1. ~(j <= Len(front)) /\ j - Len(front) \in 1 .. Len(list) - p /\ p + (j - Len(front)) = j + 1
      BY <1>5, <1>6, <1>9, <2>3
    <3>2. (front \o back)[j] = back[j - Len(front)]
      BY <1>8, <2>1, <3>1
    <3> QED BY <1>7, <2>3, <3>1, <3>2
  <2> QED BY <2>2, <2>3
<1> QED BY <1>4, <1>8, <1>9, <1>10 DEF IsCut

\* A list with a place less.
LEMMA CutKeeps ==
  ASSUME NEW N, NEW list, Lists(list, N), NEW p \in 1 .. Len(list),
         NEW short \in Seq(N), IsCut(list, p, short)
  PROVE  /\ Lists(short, N \ {list[p]})
         /\ \A T : Ahead(list, T) => Ahead(short, T)
<1>1. /\ Len(list) \in Nat /\ p \in Nat /\ p >= 1 /\ p <= Len(list)
      /\ Len(short) = Len(list) - 1 /\ Len(short) \in Nat
      /\ \A j, k \in 1 .. Len(list) : list[j] = list[k] => j = k
  BY DEF Lists, IsCut
<1> DEFINE M(j) == IF j < p THEN j ELSE j + 1
<1>2. \A j \in 1 .. Len(short) : M(j) \in 1 .. Len(list) /\ M(j) # p /\ short[j] = list[M(j)]
  BY <1>1 DEF IsCut
<1>3. \A j, k \in 1 .. Len(short) : (j < k <=> M(j) < M(k)) /\ (M(j) = M(k) => j = k)
  BY <1>1
<1>4. \A q \in 1 .. Len(list) : q # p => \E j \in 1 .. Len(short) : M(j) = q
  <2> SUFFICES ASSUME NEW q \in 1 .. Len(list), q # p
               PROVE  \E j \in 1 .. Len(short) : M(j) = q
    OBVIOUS
  <2>1. CASE q < p
    <3>1. q \in 1 .. Len(short) /\ M(q) = q
      BY <1>1, <2>1
    <3> QED BY <3>1
  <2>2. CASE ~(q < p)
    <3>1. q - 1 \in 1 .. Len(short) /\ M(q - 1) = q
      BY <1>1, <2>2
    <3> QED BY <3>1
  <2> QED BY <2>1, <2>2
<1> HIDE DEF M
<1>5. \A j \in 1 .. Len(short) : short[j] \in N \ {list[p]}
  <2> TAKE j \in 1 .. Len(short)
  <2>1. M(j) \in 1 .. Len(list) /\ M(j) # p /\ short[j] = list[M(j)]
    BY <1>2
  <2>2. list[M(j)] \in N
    BY <2>1 DEF Lists
  <2>3. list[M(j)] # list[p]
    BY <1>1, <2>1
  <2> QED BY <2>1, <2>2, <2>3
<1>6. short \in Seq(N \ {list[p]})
  BY <1>5, IsASeq, LenProperties
<1>7. \A j, k \in 1 .. Len(short) : short[j] = short[k] => j = k
  BY <1>1, <1>2, <1>3
<1>8. ASSUME NEW n \in N \ {list[p]} PROVE \E j \in 1 .. Len(short) : short[j] = n
  <2>1. PICK q \in 1 .. Len(list) : list[q] = n
    BY DEF Lists
  <2>2. PICK j \in 1 .. Len(short) : M(j) = q
    BY <1>4, <2>1
  <2> QED BY <1>2, <2>1, <2>2
<1>9. ASSUME NEW T, Ahead(list, T) PROVE Ahead(short, T)
  <2>1. ASSUME NEW j \in 1 .. Len(short), NEW k \in 1 .. Len(short), j < k, short[k] \in T
        PROVE  short[j] \in T
    <3>1. M(j) \in 1 .. Len(list) /\ M(k) \in 1 .. Len(list) /\ M(j) < M(k)
      BY <1>2, <1>3, <2>1
    <3>2. list[M(k)] \in T /\ short[j] = list[M(j)]
      BY <1>2, <2>1
    <3>3. list[M(j)] \in T
      BY <1>9, <3>1, <3>2 DEF Ahead
    <3> QED BY <3>2, <3>3
  <2> QED BY <2>1 DEF Ahead
<1> QED BY <1>6, <1>7, <1>8, <1>9 DEF Lists

\* A list without one of its nodes.
LEMMA RemovedIs ==
  ASSUME NEW N, NEW list, Lists(list, N), NEW n \in N
  PROVE  /\ Lists(RemoveFirst(list, n), N \ {n})
         /\ \A T : Ahead(list, T) => Ahead(RemoveFirst(list, n), T)
<1>1. PICK p \in 1 .. Len(list) : list[p] = n
  BY DEF Lists
<1>2. list \in Seq(N) /\ \A j \in 1 .. Len(list) : list[j] = list[p] => j = p
  BY DEF Lists
<1>3. RemoveFirst(list, n) \in Seq(N) /\ IsCut(list, p, RemoveFirst(list, n))
  BY <1>1, <1>2, RemoveIs
<1> QED BY <1>1, <1>3, CutKeeps

\* And a list that never had it.
LEMMA NotRemoved ==
  ASSUME NEW N, NEW list, Lists(list, N), NEW n, n \notin N
  PROVE  RemoveFirst(list, n) = list
<1>1. \A j \in 1 .. Len(list) : list[j] # n
  BY DEF Lists
<1> QED BY <1>1 DEF RemoveFirst

\* A node put in front.
LEMMA InFront ==
  ASSUME NEW N, NEW list, Lists(list, N), NEW n, n \notin N
  PROVE  /\ Lists(<<n>> \o list, N \cup {n})
         /\ \A T : Ahead(list, T) => Ahead(<<n>> \o list, T \cup {n})
<1> DEFINE long == <<n>> \o list
<1>1. <<n>> \in Seq(N \cup {n}) /\ list \in Seq(N \cup {n}) /\ Len(<<n>>) = 1 /\ <<n>>[1] = n
      /\ Len(list) \in Nat
  BY SeqMonotonic DEF Lists
<1>2. /\ long \in Seq(N \cup {n}) /\ Len(long) = Len(list) + 1
      /\ long[1] = n
      /\ \A j \in 1 .. Len(list) : long[j + 1] = list[j]
  <2>1. /\ long \in Seq(N \cup {n}) /\ Len(long) = 1 + Len(list)
        /\ \A j \in 1 .. 1 + Len(list) : long[j] = IF j <= 1 THEN <<n>>[j] ELSE list[j - 1]
    BY <1>1, ConcatProperties
  <2> HIDE DEF long
  <2>2. 1 \in 1 .. 1 + Len(list)
    BY <1>1
  <2>3. \A j \in 1 .. Len(list) : j + 1 \in 1 .. 1 + Len(list) /\ ~(j + 1 <= 1) /\ j + 1 - 1 = j
    BY <1>1
  <2> QED BY <1>1, <2>1, <2>2, <2>3
<1> HIDE DEF long
<1>3. \A j \in 1 .. Len(long) : j = 1 \/ (j - 1 \in 1 .. Len(list) /\ long[j] = list[j - 1])
  <2> TAKE j \in 1 .. Len(long)
  <2>1. j = 1 \/ (j - 1 \in 1 .. Len(list) /\ (j - 1) + 1 = j)
    BY <1>1, <1>2
  <2> QED BY <1>2, <2>1
<1>4. \A j \in 1 .. Len(list) : list[j] \in N
  BY DEF Lists
<1>5. ASSUME NEW j \in 1 .. Len(long), NEW k \in 1 .. Len(long), long[j] = long[k] PROVE j = k
  <2>1. CASE j = 1 \/ k = 1
    BY <1>2, <1>3, <1>4, <1>5, <2>1
  <2>2. CASE j # 1 /\ k # 1
    <3>1. j - 1 \in 1 .. Len(list) /\ k - 1 \in 1 .. Len(list) /\ list[j - 1] = list[k - 1]
      BY <1>3, <1>5, <2>2
    <3>2. j - 1 = k - 1
      BY <3>1 DEF Lists
    <3> QED BY <1>1, <1>2, <3>2
  <2> QED BY <2>1, <2>2
<1>6. ASSUME NEW x \in N \cup {n} PROVE \E j \in 1 .. Len(long) : long[j] = x
  <2>1. CASE x = n
    BY <1>1, <1>2, <2>1
  <2>2. CASE x \in N
    <3>1. PICK j \in 1 .. Len(list) : list[j] = x
      BY <2>2 DEF Lists
    <3>2. j + 1 \in 1 .. Len(long) /\ long[j + 1] = x
      BY <1>1, <1>2, <3>1
    <3> QED BY <3>2
  <2> QED BY <2>1, <2>2
<1>7. ASSUME NEW T, Ahead(list, T) PROVE Ahead(long, T \cup {n})
  <2>1. ASSUME NEW j \in 1 .. Len(long), NEW k \in 1 .. Len(long), j < k, long[k] \in T \cup {n}
        PROVE  long[j] \in T \cup {n}
    <3>1. CASE j = 1
      BY <1>2, <3>1
    <3>2. CASE j # 1
      <4>1. k # 1
        BY <1>1, <1>2, <2>1
      <4>2. j - 1 \in 1 .. Len(list) /\ k - 1 \in 1 .. Len(list) /\ long[j] = list[j - 1]
            /\ long[k] = list[k - 1]
        BY <1>3, <3>2, <4>1
      <4>3. j - 1 < k - 1
        BY <1>1, <1>2, <2>1
      <4>4. list[k - 1] \in T
        BY <1>4, <2>1, <4>2
      <4>5. list[j - 1] \in T
        BY <1>7, <4>2, <4>3, <4>4 DEF Ahead
      <4> QED BY <4>2, <4>5
    <3> QED BY <3>1, <3>2
  <2> QED BY <2>1 DEF Ahead
<1> QED BY <1>2, <1>5, <1>6, <1>7 DEF Lists, long

\* mark_used puts a node in front, new or not.
LEMMA MarkedIs ==
  ASSUME NEW N, NEW list, Lists(list, N), NEW n
  PROVE  /\ Lists(MarkUsed(list, n), N \cup {n})
         /\ \A T : Ahead(list, T) => Ahead(MarkUsed(list, n), T \cup {n})
<1>1. CASE n \in N
  <2> DEFINE short == RemoveFirst(list, n)
  <2>1. Lists(short, N \ {n}) /\ \A T : Ahead(list, T) => Ahead(short, T)
    BY <1>1, RemovedIs
  <2> HIDE DEF short
  <2>2. n \notin N \ {n} /\ (N \ {n}) \cup {n} = N \cup {n}
    OBVIOUS
  <2>3. /\ Lists(<<n>> \o short, (N \ {n}) \cup {n})
        /\ \A T : Ahead(short, T) => Ahead(<<n>> \o short, T \cup {n})
    BY <2>1, <2>2, InFront
  <2>4. MarkUsed(list, n) = <<n>> \o short
    BY DEF MarkUsed, short
  <2> QED BY <2>1, <2>2, <2>3, <2>4
<1>2. CASE n \notin N
  <2>1. RemoveFirst(list, n) = list
    BY <1>2, NotRemoved
  <2> QED BY <1>2, <2>1, InFront DEF MarkUsed
<1> QED BY <1>1, <1>2

\* The list's length is the number of its nodes.
LEMMA ListCount ==
  ASSUME NEW N, NEW list, Lists(list, N)
  PROVE  /\ ToSet(list) = N /\ Len(list) = Cardinality(N) /\ DOMAIN list = 1 .. Len(list)
<1>1. /\ list \in Seq(N) /\ Len(list) \in Nat /\ DOMAIN list = 1 .. Len(list)
      /\ \A j, k \in 1 .. Len(list) : list[j] = list[k] => j = k
      /\ \A n \in N : \E j \in 1 .. Len(list) : list[j] = n
      /\ list \in [1 .. Len(list) -> N]
  BY DEF Lists
<1>2. ToSet(list) = N
  BY <1>1 DEF ToSet
<1>3. Cardinality(N) = Len(list)
  <2>1. Counts(list, Len(list), N)
    BY <1>1, Zenon DEF Counts
  <2> QED BY <1>1, <2>1, CountOf, Zenon
<1> QED BY <1>1, <1>2, <1>3

-----------------------------------------------------------------------------
(* Following a sequence down the tree.                                     *)

\* a and b begin with the same k tokens, and no more.
AgreeFor(a, b, k) ==
  /\ k \in 0 .. Len(a) /\ k <= Len(b) /\ SubSeq(a, 1, k) = SubSeq(b, 1, k)
  /\ k < Len(a) /\ k < Len(b) => a[k + 1] # b[k + 1]

\* The longest common prefix ends where they differ.
LEMMA CommonIs ==
  ASSUME NEW S, NEW a \in Seq(S), NEW b \in Seq(S)
  PROVE  AgreeFor(a, b, Len(LongestCommonPrefix({a, b})))
<1> DEFINE C == CommonPrefixes({a, b})
<1>1. \A c \in C : c \in Seq(S) /\ IsPrefix(c, a) /\ IsPrefix(c, b)
  BY DEF CommonPrefixes, Prefixes
<1>2. <<>> \in C
  <2>1. SubSeq(a, 1, 0) = <<>> /\ 0 \in 0 .. Len(a)
    OBVIOUS
  <2>2. <<>> \in Prefixes(a)
    BY <2>1 DEF Prefixes
  <2>3. \A t \in {a, b} : IsPrefix(<<>>, t)
    BY DEF IsPrefix
  <2> QED BY <2>2, <2>3 DEF CommonPrefixes
<1>3. ASSUME NEW k \in 0 .. Len(a), k <= Len(b), SubSeq(a, 1, k) = SubSeq(b, 1, k)
      PROVE  SubSeq(a, 1, k) \in C /\ Len(SubSeq(a, 1, k)) = k
  <2> DEFINE c == SubSeq(a, 1, k)
  <2>1. c \in Seq(S) /\ Len(c) = k /\ c \in Prefixes(a)
    BY CutIs DEF Prefixes
  <2>2. c = SubSeq(b, 1, k)
    BY <1>3
  <2>3. k <= Len(a)
    OBVIOUS
  <2>4. SubSeq(c, 1, k) = c
    <3> HIDE DEF c
    <3> QED BY <2>1, SubSeqFull
  <2>5. c = SubSeq(a, 1, k)
    OBVIOUS
  <2> HIDE DEF c
  <2>6. IsPrefix(c, a) /\ IsPrefix(c, b)
    BY <1>3, <2>1, <2>2, <2>3, <2>4, <2>5, Zenon DEF IsPrefix
  <2>7. c \in C
    BY <2>1, <2>6 DEF CommonPrefixes
  <2> QED BY <2>1, <2>7 DEF c
<1> HIDE DEF C
<1>4. \A c \in C : Len(c) \in Nat /\ Len(c) <= Len(a)
  BY <1>1 DEF IsPrefix
<1>5. \E c \in C : \A d \in C : Len(d) <= Len(c)
  <2> DEFINE lacks == {Len(a) - Len(c) : c \in C}
  <2>1. lacks \in SUBSET Nat /\ lacks # {}
    <3>1. Len(a) \in Nat
      OBVIOUS
    <3> QED BY <1>2, <1>4, <3>1
  <2>2. PICK m \in lacks : \A j \in lacks : m <= j
    <3> HIDE DEF lacks
    <3> QED BY <2>1, LeastOf
  <2>3. PICK c \in C : m = Len(a) - Len(c)
    BY <2>2
  <2>4. ASSUME NEW d \in C PROVE Len(d) <= Len(c)
    <3>1. Len(a) - Len(d) \in lacks
      OBVIOUS
    <3>2. Len(a) - Len(c) <= Len(a) - Len(d)
      BY <2>2, <2>3, <3>1
    <3>3. Len(a) \in Nat /\ Len(c) \in Nat /\ Len(d) \in Nat
      BY <1>4
    <3> QED BY <3>2, <3>3
  <2> QED BY <2>4
<1>6. /\ LongestCommonPrefix({a, b}) \in C
      /\ \A d \in C : Len(d) <= Len(LongestCommonPrefix({a, b}))
  BY <1>5, Zenon DEF LongestCommonPrefix, C
<1>7. PICK c \in C : c = LongestCommonPrefix({a, b}) /\ \A d \in C : Len(d) <= Len(c)
  BY <1>6
<1>8. /\ c \in Seq(S) /\ Len(c) <= Len(a) /\ Len(c) <= Len(b)
      /\ SubSeq(c, 1, Len(c)) = SubSeq(a, 1, Len(c))
      /\ SubSeq(c, 1, Len(c)) = SubSeq(b, 1, Len(c))
  BY <1>1, Zenon DEF IsPrefix
<1>9. Len(c) \in Nat /\ Len(a) \in Nat /\ Len(b) \in Nat
  BY <1>8
<1>10. Len(c) \in 0 .. Len(a) /\ SubSeq(a, 1, Len(c)) = SubSeq(b, 1, Len(c))
  BY <1>8, <1>9
<1> DEFINE k == Len(c)
<1>11. ASSUME k < Len(a), k < Len(b), a[k + 1] = b[k + 1] PROVE FALSE
  <2>1. /\ k \in 0 .. Len(a) /\ k \in 0 .. Len(b)
        /\ k + 1 \in 0 .. Len(a) /\ k + 1 \in 0 .. Len(b) /\ k + 1 <= Len(b)
    BY <1>8, <1>9, <1>11
  <2> HIDE DEF k
  <2>2. /\ Len(SubSeq(a, 1, k + 1)) = k + 1 /\ SubSeq(a, 1, k + 1) \in Seq(S)
        /\ \A j \in 1 .. k + 1 : SubSeq(a, 1, k + 1)[j] = a[j]
    BY <2>1, CutIs
  <2>3. /\ Len(SubSeq(b, 1, k + 1)) = k + 1 /\ SubSeq(b, 1, k + 1) \in Seq(S)
        /\ \A j \in 1 .. k + 1 : SubSeq(b, 1, k + 1)[j] = b[j]
    BY <2>1, CutIs
  <2>4. \A j \in 1 .. k : SubSeq(a, 1, k)[j] = a[j] /\ SubSeq(b, 1, k)[j] = b[j]
    BY <2>1, CutIs
  <2>5. SubSeq(a, 1, k) = SubSeq(b, 1, k)
    BY <1>10 DEF k
  <2>6. \A j \in 1 .. k + 1 : a[j] = b[j]
    <3> TAKE j \in 1 .. k + 1
    <3>1. j \in 1 .. k \/ j = k + 1
      BY <2>1
    <3> QED BY <1>11, <2>4, <2>5, <3>1
  <2>7. SubSeq(a, 1, k + 1) = SubSeq(b, 1, k + 1)
    BY <2>2, <2>3, <2>6, SeqEqual
  <2>8. SubSeq(a, 1, k + 1) \in C
    BY <1>3, <2>1, <2>7
  <2>9. k + 1 <= k
    <3>1. Len(SubSeq(a, 1, k + 1)) <= Len(c)
      BY <1>7, <2>8
    <3> QED BY <2>2, <3>1 DEF k
  <2> QED BY <2>1, <2>9
<1>12. AgreeFor(a, b, Len(c))
  BY <1>8, <1>10, <1>11, Zenon DEF AgreeFor, k
<1> QED
  BY <1>7, <1>12, Zenon

\* The child ch of c agrees for k tokens with what follows the i-th of q.
Follows(t, c, q, i_0, ch, k) ==
  /\ ch \in Below(t) /\ ch \in DOMAIN t /\ t[ch].parent = c /\ IsSpot(t, ch, k)
  /\ k \in Nat /\ k >= 1 /\ k <= Len(t[ch].prefix) /\ Len(t[ch].prefix) \in Nat
  /\ i_0 + k \in 0 .. Len(q)
  /\ \A j \in 1 .. k : IsSpot(t, ch, j) /\ At(t, ch, j) = SubSeq(q, 1, i_0 + j)
  /\ k < Len(t[ch].prefix) /\ i_0 + k < Len(q) => q[i_0 + k + 1] # t[ch].prefix[k + 1]
  /\ k = Len(t[ch].prefix) => Paths(t)[ch] = SubSeq(q, 1, i_0 + k)
  /\ Paths(t)[ch] = Paths(t)[c] \o t[ch].prefix

\* Match is how far the child's prefix agrees with the rest of the query.
LEMMA MatchIs ==
  ASSUME NEW t, Tree(t), NEW c \in DOMAIN t, NEW q \in Seq(Tokens), NEW i_0 \in 0 .. Len(q),
         i_0 < Len(q), q[i_0 + 1] \in DOMAIN t[c].children, Paths(t)[c] = SubSeq(q, 1, i_0)
  PROVE  LET ch == t[c].children[q[i_0 + 1]]
         IN  Follows(t, c, q, i_0, ch,
                     Len(LongestCommonPrefix({t[ch].prefix, SubSeq(q, i_0 + 1, Len(q))})))
<1> DEFINE ch == t[c].children[q[i_0 + 1]]
           x == t[ch].prefix
           rest == SubSeq(q, i_0 + 1, Len(q))
           k == Len(LongestCommonPrefix({x, rest}))
<1>1. /\ ch \in Below(t) /\ ch \in DOMAIN t /\ t[ch].parent = c /\ x[1] = q[i_0 + 1] /\ x # <<>>
  <2>1. ch \in Below(t) /\ ch \in DOMAIN t /\ t[ch].parent = c /\ x[1] = q[i_0 + 1]
    BY ChildIs
  <2>2. IsJoined(t, ch)
    BY ChildIs
  <2> QED BY <2>1, <2>2 DEF IsJoined
<1>2. x \in Seq(Tokens) /\ Paths(t)[ch] = Paths(t)[c] \o x
  BY <1>1, PathsFacts
<1>3. Len(q) \in Nat /\ i_0 \in Nat
  OBVIOUS
<1>4. /\ rest \in Seq(Tokens) /\ Len(rest) = Len(q) - i_0
      /\ \A j \in 1 .. Len(q) - i_0 : rest[j] = q[i_0 + j]
  BY CutIs
<1> HIDE DEF ch, x, rest
<1>5. AgreeFor(x, rest, k)
  BY <1>2, <1>4, CommonIs
<1> HIDE DEF k
<1>6. Len(x) \in Nat /\ Len(x) >= 1 /\ 1 \in 1 .. Len(q) - i_0
  BY <1>1, <1>2, <1>3, EmptySeq
<1>7. k \in Nat /\ k <= Len(x) /\ k <= Len(rest) /\ k \in 0 .. Len(x) /\ k \in 0 .. Len(rest)
  BY <1>4, <1>5, <1>6 DEF AgreeFor
<1>8. k >= 1
  <2>1. SUFFICES ASSUME k = 0 PROVE FALSE
    BY <1>7
  <2>2. x[1] # rest[1]
    BY <1>3, <1>4, <1>5, <1>6, <2>1 DEF AgreeFor
  <2> QED BY <1>1, <1>4, <1>6, <2>2
<1>9. i_0 + k \in 0 .. Len(q)
  BY <1>3, <1>4, <1>7
<1>10. \A j \in 1 .. k : j \in 1 .. Len(x) /\ j \in 0 .. k /\ j \in 0 .. Len(x) /\ j \in 0 .. Len(q) - i_0
  BY <1>3, <1>4, <1>6, <1>7
<1>11. \A j \in 1 .. k : IsSpot(t, ch, j)
  BY <1>1, <1>10 DEF IsSpot, x
<1>12. ASSUME NEW j \in 1 .. k PROVE At(t, ch, j) = SubSeq(q, 1, i_0 + j)
  <2>1. SubSeq(x, 1, k) = SubSeq(rest, 1, k)
    BY <1>5 DEF AgreeFor
  <2>2. SubSeq(SubSeq(x, 1, k), 1, j) = SubSeq(x, 1, j)
    BY <1>2, <1>7, <1>10, TokensConcat
  <2>3. SubSeq(SubSeq(rest, 1, k), 1, j) = SubSeq(rest, 1, j)
    BY <1>4, <1>7, <1>10, TokensConcat
  <2>4. SubSeq(x, 1, j) = SubSeq(rest, 1, j)
    BY <2>1, <2>2, <2>3
  <2>5. SubSeq(q, 1, i_0 + j) = SubSeq(q, 1, i_0) \o SubSeq(rest, 1, j)
    BY <1>10, TokensConcat DEF rest
  <2>6. At(t, ch, j) = Paths(t)[c] \o SubSeq(x, 1, j)
    BY <1>1 DEF At, x
  <2> QED BY <2>4, <2>5, <2>6
<1>13. k < Len(x) /\ i_0 + k < Len(q) => q[i_0 + k + 1] # x[k + 1]
  <2>1. SUFFICES ASSUME k < Len(x), i_0 + k < Len(q) PROVE q[i_0 + k + 1] # x[k + 1]
    OBVIOUS
  <2>2. k < Len(rest) /\ k + 1 \in 1 .. Len(q) - i_0 /\ i_0 + (k + 1) = i_0 + k + 1
    BY <1>3, <1>4, <1>7, <2>1
  <2>3. x[k + 1] # rest[k + 1]
    BY <1>5, <2>1, <2>2 DEF AgreeFor
  <2>4. rest[k + 1] = q[i_0 + (k + 1)]
    BY <1>4, <2>2
  <2> QED BY <2>2, <2>3, <2>4
<1>14. k \in 1 .. k
  BY <1>7, <1>8
<1>15. k = Len(x) => Paths(t)[ch] = SubSeq(q, 1, i_0 + k)
  <2>1. At(t, ch, Len(x)) = Paths(t)[ch]
    BY <1>1, EndIs DEF x
  <2> QED BY <1>12, <1>14, <2>1
<1>16. Follows(t, c, q, i_0, ch, k)
  BY <1>1, <1>2, <1>6, <1>7, <1>8, <1>9, <1>11, <1>12, <1>13, <1>14, <1>15 DEF Follows, x
<1> QED BY <1>16 DEF ch, x, rest, k

-----------------------------------------------------------------------------
(* Where following ends.                                                   *)

\* s goes on after z by one token.
Next1(s, z) == s \in Seq(Tokens) /\ s # <<>> /\ SubSeq(s, 1, Len(s) - 1) = z

\* After a node, what is held goes on in one of its children.
LEMMA AfterNode ==
  ASSUME NEW t, Tree(t), NEW c \in DOMAIN t, NEW s \in Held(t), Next1(s, Paths(t)[c])
  PROVE  s[Len(s)] \in DOMAIN t[c].children
<1>1. PICK n, k : IsSpot(t, n, k) /\ s = At(t, n, k)
  BY HeldIs
<1>2. Paths(t)[c] \in Seq(Tokens)
  BY PathsFacts
<1>3. /\ k = 1 => Paths(t)[c] = Paths(t)[t[n].parent]
      /\ k > 1 => IsSpot(t, n, k - 1) /\ Paths(t)[c] = At(t, n, k - 1)
  BY <1>1, <1>2, BeforeIs DEF Next1
<1>4. n \in Below(t) /\ k \in 1 .. Len(t[n].prefix) /\ t[n].parent \in DOMAIN t /\ Len(t[n].prefix) \in Nat
  <2>1. n \in Below(t) /\ k \in 1 .. Len(t[n].prefix)
    BY <1>1 DEF IsSpot
  <2>2. t[n].parent \in DOMAIN t /\ t[n].prefix \in Seq(Tokens)
    BY <2>1, PathsFacts
  <2> QED BY <2>1, <2>2
<1>5. s[Len(s)] = t[n].prefix[k]
  BY <1>1, AtIs
<1>6. CASE k = 1
  <2>1. t[n].parent = c
    BY <1>3, <1>4, <1>6, PathsInject
  <2>2. IsJoined(t, n)
    BY <1>4 DEF Tree, Joined
  <2> QED BY <1>5, <1>6, <2>1, <2>2 DEF IsJoined
<1>7. CASE k > 1
  <2>1. IsSpot(t, n, k - 1) /\ Paths(t)[c] = At(t, n, k - 1)
    BY <1>3, <1>7
  <2>2. c \in Below(t)
    <3>1. Paths(t)[c] # <<>>
      BY <2>1, AtIs
    <3> QED BY <3>1, PathsFacts DEF Below
  <2>3. IsSpot(t, c, Len(t[c].prefix)) /\ At(t, c, Len(t[c].prefix)) = Paths(t)[c]
    BY <2>2, EndIs
  <2>4. n = c /\ k - 1 = Len(t[c].prefix)
    BY <2>1, <2>3, AtUnique
  <2> QED BY <1>4, <2>4
<1> QED BY <1>4, <1>6, <1>7

\* Inside a node, it goes on with the node's next token.
LEMMA AfterSpot ==
  ASSUME NEW t, Tree(t), NEW ch, NEW j, IsSpot(t, ch, j), j < Len(t[ch].prefix),
         NEW s \in Held(t), Next1(s, At(t, ch, j))
  PROVE  s[Len(s)] = t[ch].prefix[j + 1]
<1>1. PICK n, k : IsSpot(t, n, k) /\ s = At(t, n, k)
  BY HeldIs
<1>2. At(t, ch, j) \in Seq(Tokens) /\ At(t, ch, j) # <<>>
  BY AtIs
<1>3. /\ k = 1 => At(t, ch, j) = Paths(t)[t[n].parent]
      /\ k > 1 => IsSpot(t, n, k - 1) /\ At(t, ch, j) = At(t, n, k - 1)
  BY <1>1, <1>2, BeforeIs DEF Next1
<1>4. n \in Below(t) /\ k \in 1 .. Len(t[n].prefix) /\ t[n].parent \in DOMAIN t /\ Len(t[n].prefix) \in Nat
      /\ Len(t[ch].prefix) \in Nat /\ j \in Nat
  <2>1. n \in Below(t) /\ k \in 1 .. Len(t[n].prefix) /\ ch \in Below(t) /\ j \in 1 .. Len(t[ch].prefix)
    BY <1>1 DEF IsSpot
  <2>2. t[n].parent \in DOMAIN t /\ t[n].prefix \in Seq(Tokens) /\ t[ch].prefix \in Seq(Tokens)
    BY <2>1, PathsFacts
  <2> QED BY <2>1, <2>2
<1>5. s[Len(s)] = t[n].prefix[k]
  BY <1>1, AtIs
<1>6. CASE k = 1
  <2>1. t[n].parent \in Below(t)
    BY <1>2, <1>3, <1>4, <1>6, PathsFacts DEF Below
  <2>2. IsSpot(t, t[n].parent, Len(t[t[n].parent].prefix))
        /\ At(t, t[n].parent, Len(t[t[n].parent].prefix)) = Paths(t)[t[n].parent]
    BY <2>1, EndIs
  <2>3. t[n].parent = ch /\ Len(t[t[n].parent].prefix) = j
    BY <1>3, <1>6, <2>2, AtUnique
  <2> QED BY <1>4, <2>3
<1>7. CASE k > 1
  <2>1. n = ch /\ k - 1 = j
    BY <1>3, <1>7, AtUnique
  <2> QED BY <1>4, <1>5, <2>1
<1> QED BY <1>4, <1>6, <1>7

\* The longest prefix held ends where the next one is not held.
LEMMA HeldRowsAre ==
  ASSUME NEW f, NEW q \in Seq(Tokens), NEW n \in 0 .. Len(q),
         \A j \in 1 .. n : SubSeq(q, 1, j) \in DOMAIN f,
         n < Len(q) => SubSeq(q, 1, n + 1) \notin DOMAIN f
  PROVE  HeldRows(f, q) = [j \in 1 .. n |-> f[SubSeq(q, 1, j)]]
<1> DEFINE Fit(m) == /\ Stems(SubSeq(q, 1, m)) \subseteq DOMAIN f
                     /\ m < Len(q) => SubSeq(q, 1, m + 1) \notin DOMAIN f
<1>1. ASSUME NEW m \in 0 .. Len(q)
      PROVE  Stems(SubSeq(q, 1, m)) = {SubSeq(q, 1, j) : j \in 1 .. m}
  <2> DEFINE z == SubSeq(q, 1, m)
  <2>1. z \in Seq(Tokens) /\ Len(z) = m
    BY CutIs
  <2>2. \A j \in 0 .. m : SubSeq(z, 1, j) = SubSeq(q, 1, j)
    BY TokensConcat
  <2> HIDE DEF z
  <2>3. Stems(z) = {SubSeq(z, 1, j) : j \in 1 .. m}
    BY <2>1, StemsAre
  <2>4. \A j \in 1 .. m : SubSeq(z, 1, j) = SubSeq(q, 1, j)
    <3>1. \A j \in 1 .. m : j \in 0 .. m
      OBVIOUS
    <3> QED BY <2>2, <3>1
  <2>5. {SubSeq(z, 1, j) : j \in 1 .. m} = {SubSeq(q, 1, j) : j \in 1 .. m}
    BY <2>4
  <2> QED BY <2>3, <2>5 DEF z
<1>2. Fit(n)
  <2>1. Stems(SubSeq(q, 1, n)) = {SubSeq(q, 1, j) : j \in 1 .. n}
    BY <1>1
  <2> QED BY <2>1
<1>3. ASSUME NEW m \in 0 .. Len(q), Fit(m) PROVE m = n
  <2>1. m \in Nat /\ n \in Nat /\ Len(q) \in Nat
    OBVIOUS
  <2>2. ASSUME m < n PROVE FALSE
    <3>1. m + 1 \in 1 .. n /\ m < Len(q)
      BY <2>1, <2>2
    <3> QED BY <1>3, <3>1
  <2>3. ASSUME n < m PROVE FALSE
    <3>1. n + 1 \in 1 .. m /\ n < Len(q)
      BY <2>1, <2>3
    <3>2. SubSeq(q, 1, n + 1) \in Stems(SubSeq(q, 1, m))
      BY <1>1, <3>1
    <3> QED BY <1>3, <3>1, <3>2
  <2> QED BY <2>1, <2>2, <2>3
<1> HIDE DEF Fit
<1>4. (CHOOSE m \in 0 .. Len(q) : Fit(m)) = n
  BY <1>2, <1>3
<1>5. HeldLength(f, q) = n
  BY <1>4 DEF HeldLength, Fit
<1> QED BY <1>5 DEF HeldRows

\* The prefixes of a prefix are among them.
LEMMA StemsClosed ==
  ASSUME NEW q \in Seq(Tokens)
  PROVE  Closed(Stems(q)) /\ Stems(q) \subseteq Seq(Tokens)
<1>1. ASSUME NEW x \in Stems(q) PROVE x \in Seq(Tokens) /\ Stems(x) \subseteq Stems(q)
  <2>1. PICK k \in 1 .. Len(q) : x = SubSeq(q, 1, k)
    BY StemsAre
  <2>2. k \in 0 .. Len(q) /\ Len(q) \in Nat
    OBVIOUS
  <2>3. x \in Seq(Tokens) /\ Len(x) = k
    BY <2>1, <2>2, CutIs
  <2>4. \A j \in 0 .. k : SubSeq(x, 1, j) = SubSeq(q, 1, j)
    BY <2>1, <2>2, TokensConcat
  <2>5. Stems(x) = {SubSeq(x, 1, j) : j \in 1 .. k}
    BY <2>3, StemsAre
  <2>6. \A j \in 1 .. k : SubSeq(x, 1, j) \in Stems(q)
    <3> TAKE j \in 1 .. k
    <3>1. j \in 0 .. k /\ j \in 1 .. Len(q)
      BY <2>2
    <3>2. SubSeq(x, 1, j) = SubSeq(q, 1, j)
      BY <2>4, <3>1
    <3>3. Stems(q) = {SubSeq(q, 1, j_1) : j_1 \in 1 .. Len(q)}
      BY StemsAre
    <3> QED BY <3>1, <3>2, <3>3
  <2> QED BY <2>3, <2>5, <2>6
<1> QED BY <1>1 DEF Closed

\* There are as many as the sequence is long.
LEMMA StemsFinite ==
  ASSUME NEW q \in Seq(Tokens)
  PROVE  IsFiniteSet(Stems(q))
<1> DEFINE f == [k \in 1 .. Len(q) |-> SubSeq(q, 1, k)]
<1>1. Stems(q) = {SubSeq(q, 1, k) : k \in 1 .. Len(q)}
  BY StemsAre
<1>2. f \in [1 .. Len(q) -> Stems(q)] /\ \A x \in Stems(q) : \E k \in 1 .. Len(q) : f[k] = x
  BY <1>1
<1> HIDE DEF f
<1>3. f \in Surjection(1 .. Len(q), Stems(q))
  BY <1>2 DEF Surjection
<1>4. IsFiniteSet(1 .. Len(q))
  BY FS_Interval
<1> QED BY <1>3, <1>4, FS_Surjection

-----------------------------------------------------------------------------
(* The nodes a sequence passes.                                            *)

\* The nodes that end in S.
On(t, S) == {n \in Below(t) : Paths(t)[n] \in S}

\* S has all of a node's prefixes, or none.
WholeIn(t, S) == \A n \in Below(t) : At(t, n, 1) \in S => Paths(t)[n] \in S

\* A node's path has all of the nodes above it.
LEMMA WholePath ==
  ASSUME NEW t, Tree(t), NEW m \in DOMAIN t
  PROVE  WholeIn(t, Stems(Paths(t)[m]))
<1> DEFINE T == {x \in DOMAIN t : WholeIn(t, Stems(Paths(t)[x]))}
<1>1. Root \in T
  BY PathsFacts, NoStems DEF WholeIn
<1>2. ASSUME NEW x \in Below(t), t[x].parent \in T PROVE x \in T
  <2>1. Stems(Paths(t)[x]) = Stems(Paths(t)[t[x].parent]) \cup {At(t, x, k) : k \in 1 .. Len(t[x].prefix)}
    BY StemsOfPath
  <2>2. ASSUME NEW n \in Below(t), At(t, n, 1) \in Stems(Paths(t)[x])
        PROVE  Paths(t)[n] \in Stems(Paths(t)[x])
    <3>1. CASE At(t, n, 1) \in Stems(Paths(t)[t[x].parent])
      BY <1>2, <2>1, <3>1 DEF WholeIn
    <3>2. CASE At(t, n, 1) \in {At(t, x, k) : k \in 1 .. Len(t[x].prefix)}
      <4>1. PICK k \in 1 .. Len(t[x].prefix) : At(t, n, 1) = At(t, x, k)
        BY <3>2
      <4>2. IsSpot(t, n, 1) /\ IsSpot(t, x, k)
        BY EndIs DEF IsSpot
      <4>3. n = x
        BY <4>1, <4>2, AtUnique
      <4>4. IsSpot(t, x, Len(t[x].prefix)) /\ At(t, x, Len(t[x].prefix)) = Paths(t)[x]
        BY EndIs
      <4>5. Len(t[x].prefix) \in 1 .. Len(t[x].prefix)
        BY <4>4 DEF IsSpot
      <4> QED BY <2>1, <4>3, <4>4, <4>5
    <3> QED BY <2>1, <2>2, <3>1, <3>2
  <2>3. x \in DOMAIN t
    BY DEF Below
  <2> QED BY <2>2, <2>3 DEF WholeIn
<1> HIDE DEF T
<1>3. DOMAIN t \subseteq T
  BY <1>1, <1>2, DownTheTree
<1> QED BY <1>3 DEF T

\* A node's path passes the node and what its parent's passes.
LEMMA OnPath ==
  ASSUME NEW t, Tree(t), NEW m \in Below(t), NEW S
  PROVE  On(t, Stems(Paths(t)[m]) \cup S) = On(t, Stems(Paths(t)[t[m].parent]) \cup S) \cup {m}
<1>1. Stems(Paths(t)[m]) = Stems(Paths(t)[t[m].parent]) \cup {At(t, m, k) : k \in 1 .. Len(t[m].prefix)}
  BY StemsOfPath
<1>2. ASSUME NEW n \in Below(t), NEW k \in 1 .. Len(t[m].prefix), Paths(t)[n] = At(t, m, k) PROVE n = m
  <2>1. IsSpot(t, n, Len(t[n].prefix)) /\ At(t, n, Len(t[n].prefix)) = Paths(t)[n]
    BY EndIs
  <2>2. IsSpot(t, m, k)
    BY DEF IsSpot
  <2> QED BY <1>2, <2>1, <2>2, AtUnique
<1>3. Paths(t)[m] \in Stems(Paths(t)[m])
  <2>1. IsSpot(t, m, Len(t[m].prefix)) /\ At(t, m, Len(t[m].prefix)) = Paths(t)[m]
    BY EndIs
  <2>2. Len(t[m].prefix) \in 1 .. Len(t[m].prefix)
    BY <2>1 DEF IsSpot
  <2> QED BY <1>1, <2>1, <2>2
<1> DEFINE A == Stems(Paths(t)[m])
           B == Stems(Paths(t)[t[m].parent])
           C == {At(t, m, k) : k \in 1 .. Len(t[m].prefix)}
<1>4. A = B \cup C /\ \A n \in Below(t) : Paths(t)[n] \in C => n = m
  BY <1>1, <1>2
<1>5. Paths(t)[m] \in A
  BY <1>3
<1> HIDE DEF A, B, C
<1>6. On(t, A \cup S) = On(t, B \cup S) \cup {m}
  BY <1>4, <1>5 DEF On
<1> QED BY <1>6 DEF A, B

-----------------------------------------------------------------------------
(* What the changes of a tree do to them.                                  *)

\* A node that keeps its place.
LEMMA SameAt ==
  ASSUME NEW t, NEW u, NEW n, SameBut(u[n], t[n]), Paths(u)[t[n].parent] = Paths(t)[t[n].parent]
  PROVE  \A j : At(u, n, j) = At(t, n, j)
  BY DEF SameBut, At

\* Splitting a node leaves sequences that have all of it, or none.
LEMMA SplitWhole ==
  ASSUME NEW t, Tree(t), NEW c \in DOMAIN t, NEW a \in DOMAIN t[c].children,
         NEW ch, ch = t[c].children[a], NEW k \in 1 .. Len(t[ch].prefix) - 1,
         NEW s \in Nat \ DOMAIN t, NEW u, IsSplit(t, u, c, ch, k, s),
         NEW S, Closed(S), WholeIn(t, S)
  PROVE  WholeIn(u, S)
<1>1. /\ Tree(u) /\ SameRows(t, u) /\ IsSpot(t, ch, k) /\ Paths(u)[s] = At(t, ch, k)
  BY SplitRows
<1>2. ch \in Below(t) /\ ch \in DOMAIN t /\ ch # c /\ t[ch].parent = c
  BY ChildIs
<1>3. \A n \in DOMAIN t : Paths(u)[n] = Paths(t)[n]
  BY <1>1 DEF SameRows
<1>4. DOMAIN u = DOMAIN t \cup {s} /\ u[s].parent = c /\ u[ch].parent = s /\ s \notin DOMAIN t
  BY DEF IsSplit
<1>5. \A n \in DOMAIN t \ {ch} : SameBut(u[n], t[n])
  BY <1>2 DEF IsSplit, SameBut
<1>6. k \in 1 .. Len(t[ch].prefix) /\ Len(t[ch].prefix) \in Nat
  BY <1>1, <1>2, PathsFacts DEF IsSpot
<1>7. /\ At(t, ch, k) \in Stems(Paths(t)[ch]) /\ At(t, ch, 1) \in Stems(At(t, ch, k))
  <2>1. Stems(Paths(t)[ch]) = Stems(Paths(t)[t[ch].parent]) \cup {At(t, ch, j) : j \in 1 .. Len(t[ch].prefix)}
    <3>1. \A n \in Below(t) : Stems(Paths(t)[n]) =
            Stems(Paths(t)[t[n].parent]) \cup {At(t, n, j) : j \in 1 .. Len(t[n].prefix)}
      BY StemsOfPath
    <3> QED BY ONLY <1>2, <3>1
  <2>2. Stems(At(t, ch, k)) = Stems(Paths(t)[t[ch].parent]) \cup {At(t, ch, j) : j \in 1 .. k}
    <3>1. \A j \in 1 .. Len(t[ch].prefix) :
            Stems(At(t, ch, j)) = Stems(Paths(t)[t[ch].parent]) \cup {At(t, ch, l) : l \in 1 .. j}
      BY <1>2, StemsOfPath
    <3> QED BY <1>6, <3>1
  <2>3. 1 \in 1 .. k
    BY <1>6
  <2> QED BY <1>6, <2>1, <2>2, <2>3
<1>8. ASSUME NEW n \in Below(u), At(u, n, 1) \in S PROVE Paths(u)[n] \in S
  <2>1. n \in DOMAIN u /\ n # Root
    BY DEF Below
  <2>2. CASE n = s
    <3>1. At(u, s, 1) = At(t, ch, 1)
      <4>1. SubSeq(u[s].prefix, 1, 1) = SubSeq(t[ch].prefix, 1, 1)
        <5> DEFINE x == t[ch].prefix
        <5>1. x \in Seq(Tokens)
          BY <1>2, PathsFacts
        <5>4. k \in 0 .. Len(x) /\ 1 \in 0 .. k
          BY <1>6
        <5>2. u[s].prefix = SubSeq(x, 1, k)
          BY DEF IsSplit
        <5> HIDE DEF x
        <5>3. SubSeq(SubSeq(x, 1, k), 1, 1) = SubSeq(x, 1, 1)
          BY <5>1, <5>4, TokensConcat
        <5> QED BY <5>2, <5>3 DEF x
      <4> QED BY <1>2, <1>3, <1>4, <4>1 DEF At
    <3>2. Paths(t)[ch] \in S
      BY <1>2, <1>8, <2>2, <3>1 DEF WholeIn
    <3>3. At(t, ch, k) \in S
      BY <1>7, <3>2 DEF Closed
    <3> QED BY <1>1, <2>2, <3>3
  <2>3. CASE n = ch
    <3>1. ch \in Below(u) /\ IsSpot(u, ch, 1)
      BY <1>1, <2>3, EndIs
    <3>2. 1 \in 1 .. Len(u[ch].prefix)
      BY <3>1 DEF IsSpot
    <3>3. Stems(At(u, ch, 1)) = Stems(Paths(u)[u[ch].parent]) \cup {At(u, ch, j) : j \in 1 .. 1}
      BY <1>1, <3>1, <3>2, StemsOfPath
    <3>4. At(t, ch, 1) \in Stems(At(u, ch, 1))
      BY <1>1, <1>4, <1>7, <3>3
    <3>5. At(t, ch, 1) \in S
      BY <1>8, <2>3, <3>4 DEF Closed
    <3> QED BY <1>2, <1>3, <2>3, <3>5 DEF WholeIn
  <2>4. CASE n # s /\ n # ch
    <3>1. n \in Below(t) /\ n \in DOMAIN t /\ SameBut(u[n], t[n])
      BY <1>4, <1>5, <2>1, <2>4 DEF Below
    <3>2. t[n].parent \in DOMAIN t
      BY <3>1, PathsFacts
    <3>3. At(u, n, 1) = At(t, n, 1)
      BY <1>3, <3>1, <3>2, SameAt
    <3> QED BY <1>3, <1>8, <3>1, <3>3 DEF WholeIn
  <2> QED BY <2>2, <2>3, <2>4
<1> QED BY <1>8 DEF WholeIn

\* So does a new leaf, if the sequence was held.
LEMMA GrownWhole ==
  ASSUME NEW t, Tree(t), NEW u, NEW l, NEW S, WholeIn(t, S), S \subseteq Held(t),
         DOMAIN u = DOMAIN t \cup {l}, \A n \in DOMAIN t : SameBut(u[n], t[n]),
         \A n \in DOMAIN t : Paths(u)[n] = Paths(t)[n], At(u, l, 1) \notin Held(t)
  PROVE  WholeIn(u, S)
<1>1. ASSUME NEW n \in Below(u), At(u, n, 1) \in S PROVE Paths(u)[n] \in S
  <2>1. n # l /\ n \in Below(t)
    BY <1>1 DEF Below
  <2>2. n \in DOMAIN t /\ t[n].parent \in DOMAIN t
    BY <2>1, PathsFacts
  <2>3. At(u, n, 1) = At(t, n, 1)
    BY <2>2, SameAt
  <2> QED BY <1>1, <2>1, <2>2, <2>3 DEF WholeIn
<1> QED BY <1>1 DEF WholeIn

\* And a leaf taken away.
LEMMA PrunedWhole ==
  ASSUME NEW t, Tree(t), NEW u, Tree(u), NEW S, WholeIn(t, S), DOMAIN u \subseteq DOMAIN t,
         \A n \in DOMAIN u : SameBut(u[n], t[n]) /\ Paths(u)[n] = Paths(t)[n]
  PROVE  WholeIn(u, S)
<1>1. ASSUME NEW n \in Below(u), At(u, n, 1) \in S PROVE Paths(u)[n] \in S
  <2>1. n \in DOMAIN u /\ n \in Below(t) /\ SameBut(u[n], t[n])
    BY DEF Below
  <2>2. u[n].parent \in DOMAIN u /\ u[n].parent = t[n].parent
    BY <2>1, PathsFacts DEF SameBut
  <2>3. At(u, n, 1) = At(t, n, 1)
    BY <2>1, <2>2, SameAt
  <2> QED BY <1>1, <2>1, <2>3 DEF WholeIn
<1> QED BY <1>1 DEF WholeIn

-----------------------------------------------------------------------------
(* The leaf that is evicted.                                               *)

\* A nonempty set of naturals with a bound has a greatest element.
LEMMA GreatestOf ==
  ASSUME NEW b \in Nat, NEW T \in SUBSET (0 .. b), T # {}
  PROVE  \E m \in T : \A j \in T : j <= m
<1> DEFINE U == {x \in 0 .. b : b - x \in T}
<1>1. U \in SUBSET Nat
  OBVIOUS
<1>2. U # {}
  <2>1. PICK j \in T : TRUE
    OBVIOUS
  <2>2. b - j \in 0 .. b /\ b - (b - j) = j
    OBVIOUS
  <2> QED BY <2>1, <2>2
<1>3. PICK x \in U : \A y \in U : x <= y
  <2> HIDE DEF U
  <2> QED BY <1>1, <1>2, LeastOf
<1>4. b - x \in T /\ x \in 0 .. b
  BY <1>3
<1>5. ASSUME NEW j \in T PROVE j <= b - x
  <2>1. b - j \in 0 .. b /\ b - (b - j) = j /\ j \in 0 .. b
    OBVIOUS
  <2>2. b - j \in U
    BY <2>1
  <2>3. x <= b - j
    BY <1>3, <2>2
  <2> QED BY <1>4, <2>1, <2>3
<1> QED BY <1>4, <1>5

\* What is held and not in R is held by a node that is not, and below it there
\* is nothing in R.
LEMMA LeafOutside ==
  ASSUME NEW t, Tree(t), NEW R, Closed(R), ~(Held(t) \subseteq R)
  PROVE  \E n \in Below(t) : n \notin On(t, R) /\ t[n].children = <<>>
<1> DEFINE Out == Below(t) \ On(t, R)
<1>1. PICK b, r : Ranks(t, b, r)
  BY DEF Tree, Ranked
<1>2. Out # {}
  <2>1. PICK s \in Held(t) : s \notin R
    OBVIOUS
  <2>2. PICK n, k : IsSpot(t, n, k) /\ s = At(t, n, k)
    BY HeldIs
  <2>3. n \in Below(t) /\ k \in 1 .. Len(t[n].prefix)
    BY <2>2 DEF IsSpot
  <2>4. s \in Stems(Paths(t)[n])
    BY <2>2, <2>3, StemsOfPath
  <2>5. Paths(t)[n] \notin R
    BY <2>1, <2>4 DEF Closed
  <2> QED BY <2>3, <2>5 DEF On
<1>3. PICK n \in Out : \A m \in Out : r[m] <= r[n]
  <2> DEFINE T == {r[m] : m \in Out}
  <2>1. T \in SUBSET (0 .. b) /\ T # {} /\ b \in Nat
    BY <1>1, <1>2 DEF Ranks, Below
  <2>2. PICK x \in T : \A y \in T : y <= x
    <3> HIDE DEF T
    <3> QED BY <2>1, GreatestOf
  <2> QED BY <2>2
<1>4. n \in Below(t) /\ n \notin On(t, R) /\ n \in DOMAIN t
  BY DEF Below
<1>5. ASSUME NEW a \in DOMAIN t[n].children PROVE FALSE
  <2> DEFINE ch == t[n].children[a]
  <2>1. ch \in Below(t) /\ t[ch].parent = n
    BY <1>4, ChildIs
  <2>2. r[n] < r[ch] /\ r[ch] \in Nat /\ r[n] \in Nat
    BY <1>1, <1>4, <2>1 DEF Ranks, Below
  <2>3. ch \in On(t, R)
    <3> HIDE DEF ch
    <3>1. ~(r[ch] <= r[n])
      BY <2>2
    <3> QED BY <1>3, <2>1, <3>1
  <2> HIDE DEF ch
  <2>4. Stems(Paths(t)[ch]) \subseteq R
    BY <2>3 DEF On, Closed
  <2>5. Stems(Paths(t)[n]) \subseteq Stems(Paths(t)[ch])
    BY <2>1, StemsOfPath
  <2>6. Paths(t)[n] \in Stems(Paths(t)[n])
    <3>1. IsSpot(t, n, Len(t[n].prefix)) /\ At(t, n, Len(t[n].prefix)) = Paths(t)[n]
      BY <1>4, EndIs
    <3>2. Len(t[n].prefix) \in 1 .. Len(t[n].prefix)
      BY <3>1 DEF IsSpot
    <3> QED BY <1>4, <3>1, <3>2, StemsOfPath
  <2> QED BY <1>4, <2>4, <2>5, <2>6 DEF On
<1>6. t[n].children = <<>>
  <2>1. t[n] \in NodeType
    BY <1>4 DEF Tree, Typed
  <2>2. t[n].children \in [DOMAIN t[n].children -> Nat] /\ DOMAIN t[n].children = {}
    BY <1>5, <2>1, NodeIs
  <2> QED BY <2>2
<1> QED BY <1>4, <1>6

\* The leaf evicted is not among the nodes ahead of all others.
LEMMA OldestIs ==
  ASSUME Tree(node), Lists(lru, Below(node)), ~(Held(node) \subseteq {})
  PROVE  /\ Leaves # {} /\ OldestLeaf \in Below(node) /\ node[OldestLeaf].children = <<>>
         /\ \A R : Closed(R) /\ ~(Held(node) \subseteq R) /\ Ahead(lru, On(node, R))
                     => OldestLeaf \notin On(node, R)
<1> DEFINE J == {j \in DOMAIN lru : lru[j] \in Leaves}
<1>1. /\ lru \in Seq(Below(node)) /\ DOMAIN lru = 1 .. Len(lru) /\ Len(lru) \in Nat
      /\ ToSet(lru) = Below(node)
  BY ListCount DEF Lists
<1>2. \A n \in Leaves : n \in Below(node) /\ node[n].children = <<>>
  BY <1>1 DEF Leaves
<1>3. \A n \in Below(node) : node[n].children = <<>> => n \in Leaves /\ \E j \in J : lru[j] = n
  BY <1>1 DEF Leaves, Lists
<1>4. J \in SUBSET (0 .. Len(lru))
  BY <1>1
<1>5. Closed({})
  BY DEF Closed
<1>6. J # {} /\ Leaves # {}
  BY <1>3, <1>5, LeafOutside
<1>7. PICK m \in J : \A j \in J : j <= m
  <2> HIDE DEF J
  <2> QED BY <1>1, <1>4, <1>6, GreatestOf
<1>8. Max(J) \in J /\ \A j \in J : j <= Max(J)
  <2>1. \A j \in J : m >= j
    BY <1>4, <1>7
  <2>2. Max(J) \in J /\ \A j \in J : Max(J) >= j
    <3> HIDE DEF J
    <3> QED BY <1>7, <2>1 DEF Max
  <2> QED BY <1>4, <2>2
<1>9. OldestLeaf = lru[Max(J)]
  BY DEF OldestLeaf
<1> DEFINE p == Max(J)
<1> HIDE DEF p
<1>10. p \in J /\ \A j \in J : j <= p
  BY <1>8 DEF p
<1>11. OldestLeaf = lru[p]
  BY <1>9 DEF p
<1>12. ASSUME NEW R, Closed(R), ~(Held(node) \subseteq R), Ahead(lru, On(node, R)), lru[p] \in On(node, R)
       PROVE  FALSE
  <2>1. PICK n \in Below(node) : n \notin On(node, R) /\ node[n].children = <<>>
    BY <1>12, LeafOutside
  <2>2. PICK j \in J : lru[j] = n
    BY <1>3, <2>1
  <2>3. j < p /\ j \in 1 .. Len(lru) /\ p \in 1 .. Len(lru)
    <3>1. j # p
      BY <1>12, <2>1, <2>2
    <3>2. j \in 1 .. Len(lru) /\ p \in 1 .. Len(lru) /\ j <= p
      BY <1>1, <1>10, <2>2
    <3> QED BY <3>1, <3>2
  <2> QED BY <1>12, <2>1, <2>2, <2>3 DEF Ahead
<1> QED BY <1>2, <1>6, <1>10, <1>11, <1>12

-----------------------------------------------------------------------------
(* The list, ahead of all others the nodes a call and the one before used. *)

\* A node marked used stands with the nodes above it.
LEMMA MarkDown ==
  ASSUME NEW t, Tree(t), NEW list, Lists(list, Below(t)), NEW m \in Below(t), NEW S,
         Ahead(list, On(t, Stems(Paths(t)[t[m].parent]) \cup S))
  PROVE  /\ Lists(MarkUsed(list, m), Below(t))
         /\ Ahead(MarkUsed(list, m), On(t, Stems(Paths(t)[m]) \cup S))
<1>1. Below(t) \cup {m} = Below(t)
  OBVIOUS
<1>2. On(t, Stems(Paths(t)[m]) \cup S) = On(t, Stems(Paths(t)[t[m].parent]) \cup S) \cup {m}
  BY OnPath
<1>3. Lists(MarkUsed(list, m), Below(t) \cup {m})
  BY MarkedIs
<1>4. Ahead(MarkUsed(list, m), On(t, Stems(Paths(t)[t[m].parent]) \cup S) \cup {m})
  BY MarkedIs
<1> QED BY <1>1, <1>2, <1>3, <1>4

\* So does a node that is new.
LEMMA MarkNew ==
  ASSUME NEW t, Root \in DOMAIN t, NEW u, Tree(u), NEW s, s \notin DOMAIN t,
         DOMAIN u = DOMAIN t \cup {s}, u[s].parent \in DOMAIN t,
         \A n \in DOMAIN t : Paths(u)[n] = Paths(t)[n],
         NEW list, Lists(list, Below(t)), NEW S,
         Ahead(list, On(t, Stems(Paths(t)[u[s].parent]) \cup S))
  PROVE  /\ Lists(MarkUsed(list, s), Below(u))
         /\ Ahead(MarkUsed(list, s), On(u, Stems(Paths(u)[s]) \cup S))
<1>1. Below(u) = Below(t) \cup {s} /\ s \in Below(u)
  BY DEF Below
<1> DEFINE z == Paths(t)[u[s].parent]
           R == Stems(z) \cup S
<1>2. Paths(u)[u[s].parent] = z
  OBVIOUS
<1>3. On(u, Stems(Paths(u)[s]) \cup S) = On(u, R) \cup {s}
  <2>1. On(u, Stems(Paths(u)[s]) \cup S) = On(u, Stems(Paths(u)[u[s].parent]) \cup S) \cup {s}
    BY <1>1, OnPath, ZenonT(30)
  <2> QED BY <1>2, <2>1
<1>4. On(u, R) \cup {s} = On(t, R) \cup {s}
  <2> HIDE DEF R
  <2> QED BY <1>1 DEF On, Below
<1>5. Lists(MarkUsed(list, s), Below(t) \cup {s})
  BY MarkedIs
<1>6. Ahead(MarkUsed(list, s), On(t, R) \cup {s})
  BY MarkedIs
<1> QED BY <1>1, <1>3, <1>4, <1>5, <1>6

\* A node taken off leaves the others as they stood.
LEMMA TakeOff ==
  ASSUME NEW t, NEW u, NEW l \in Below(t), DOMAIN u = DOMAIN t \ {l},
         \A n \in DOMAIN u : Paths(u)[n] = Paths(t)[n],
         NEW list, Lists(list, Below(t))
  PROVE  /\ Lists(RemoveFirst(list, l), Below(u))
         /\ \A R : Ahead(list, On(t, R)) => Ahead(RemoveFirst(list, l), On(u, R))
<1> DEFINE short == RemoveFirst(list, l)
<1>1. Below(u) = Below(t) \ {l}
  BY DEF Below
<1>2. Lists(short, Below(t) \ {l})
  BY RemovedIs
<1>3. ASSUME NEW R, Ahead(list, On(t, R)) PROVE Ahead(short, On(u, R))
  <2>1. Ahead(short, On(t, R))
    BY <1>3, RemovedIs
  <2> HIDE DEF short
  <2>2. \A j \in 1 .. Len(short) : short[j] \in Below(u)
    BY <1>1, <1>2 DEF Lists
  <2>3. \A n \in Below(u) : n \in On(t, R) <=> n \in On(u, R)
    BY <1>1 DEF On, Below
  <2> QED BY <2>1, <2>2, <2>3 DEF Ahead
<1> QED BY <1>1, <1>2, <1>3

\* A node that does not end in R has nothing of R.
LEMMA NoneOf ==
  ASSUME NEW t, Tree(t), NEW l \in Below(t), NEW R, Closed(R), WholeIn(t, R), l \notin On(t, R)
  PROVE  \A j \in 1 .. Len(t[l].prefix) : At(t, l, j) \notin R
<1>1. ASSUME NEW j \in 1 .. Len(t[l].prefix), At(t, l, j) \in R PROVE FALSE
  <2>1. \A k \in 1 .. Len(t[l].prefix) :
          Stems(At(t, l, k)) = Stems(Paths(t)[t[l].parent]) \cup {At(t, l, m) : m \in 1 .. k}
    BY StemsOfPath
  <2>2. Stems(At(t, l, j)) = Stems(Paths(t)[t[l].parent]) \cup {At(t, l, m) : m \in 1 .. j}
    BY <2>1
  <2>3. 1 \in 1 .. j
    OBVIOUS
  <2>4. At(t, l, 1) \in Stems(At(t, l, j))
    BY <2>2, <2>3
  <2>5. At(t, l, 1) \in R
    BY <1>1, <2>4 DEF Closed
  <2> QED BY <2>5 DEF WholeIn, On
<1> QED BY <1>1

\* The union of two such sets is one.
LEMMA BothWhole ==
  ASSUME NEW t, NEW S, NEW R, WholeIn(t, S), WholeIn(t, R)
  PROVE  WholeIn(t, S \cup R)
  BY DEF WholeIn

\* The shorter prefixes of two sequences' prefixes are among them.
LEMMA BothClosed ==
  ASSUME NEW S, NEW R, Closed(S), Closed(R)
  PROVE  Closed(S \cup R)
  BY DEF Closed

-----------------------------------------------------------------------------
(* The inductive invariant.                                                *)

WP == Stems(path)
W1 == Stems(used[1])
W2 == Stems(used[2])

\* A set small enough for the budget is held.
Kept(R) == Cardinality(R) <= Capacity => R \subseteq Held(node)

\* The tree, the list and the count.
BooksInv ==
  /\ Tree(node)
  /\ Lists(lru, Below(node))
  /\ bytes = Cardinality(Held(node))

\* Where the call in progress is.
CallInv ==
  /\ op \in {"none", "find", "found", "commit", "insert", "evict"}
  /\ query \in Queries \cup {<<>>}
  /\ i \in 0 .. Len(query)
  /\ path \in Seq(Tokens)
  /\ op # "evict" => curr \in DOMAIN node
  /\ op = "none" => query = <<>> /\ path = <<>> /\ curr = Root /\ i = 0 /\ found = <<>>
  /\ op \in {"commit", "insert", "evict"} => query # <<>>
  /\ op \in {"find", "commit", "insert"} =>
       Paths(node)[curr] = SubSeq(query, 1, i) /\ path = Paths(node)[curr]
  /\ op = "insert" /\ i < Len(query) => query[i + 1] \notin DOMAIN node[curr].children
  /\ op = "find" => found = [j \in 1 .. i |-> RowsIn(node)[SubSeq(query, 1, j)]]
  /\ op = "found" => found = HeldRows(RowsIn(node), query)

\* What the call in progress and the calls before it used.
UsedInv ==
  /\ used \in Seq(Tokens) \X Seq(Tokens)
  /\ Ahead(lru, On(node, WP)) /\ Ahead(lru, On(node, WP \cup W1))
  /\ WholeIn(node, WP)
  /\ Cardinality(W1) <= Capacity => WholeIn(node, W1)
  /\ op # "evict" => WP \subseteq Held(node) /\ Kept(W1) /\ Kept(W1 \cup W2)
  /\ op = "evict" => path # NoUse /\ Kept(WP) /\ Kept(WP \cup W1)

IInv == BooksInv /\ CallInv /\ UsedInv

-----------------------------------------------------------------------------
(* What the invariant says of the values it is about.                      *)

\* The tree, the locals and what the call used have their types.
LEMMA InvTypes ==
  ASSUME IInv
  PROVE  /\ Tree(node) /\ Root \in DOMAIN node /\ DOMAIN node \in SUBSET Nat /\ IsFiniteSet(DOMAIN node)
         /\ query \in Seq(Tokens) /\ i \in 0 .. Len(query) /\ i \in Nat /\ Len(query) \in Nat
         /\ Closed(WP) /\ Closed(W1) /\ Closed(W2)
         /\ IsFiniteSet(WP) /\ IsFiniteSet(W1) /\ IsFiniteSet(W2)
         /\ Capacity \in Nat
<1>1. query \in Seq(Tokens)
  <2>1. query \in Queries \/ query = <<>>
    BY DEF IInv, CallInv
  <2>2. <<>> \in Seq(Tokens)
    OBVIOUS
  <2> QED BY <2>1, <2>2, SemanticCacheAssumption
<1>2. path \in Seq(Tokens) /\ used[1] \in Seq(Tokens) /\ used[2] \in Seq(Tokens)
  BY DEF IInv, CallInv, UsedInv
<1>3. Closed(WP) /\ Closed(W1) /\ Closed(W2)
  BY <1>2, StemsClosed DEF WP, W1, W2
<1>4. IsFiniteSet(WP) /\ IsFiniteSet(W1) /\ IsFiniteSet(W2)
  BY <1>2, StemsFinite DEF WP, W1, W2
<1>5. i \in 0 .. Len(query) /\ i \in Nat /\ Len(query) \in Nat
  BY <1>1 DEF IInv, CallInv
<1>6. Tree(node) /\ Root \in DOMAIN node /\ DOMAIN node \in SUBSET Nat /\ IsFiniteSet(DOMAIN node)
  BY DEF IInv, BooksInv, Tree, Typed
<1> QED BY <1>1, <1>3, <1>4, <1>5, <1>6, SemanticCacheAssumption

-----------------------------------------------------------------------------
(* The steps, by what they do to the tree.                                 *)

\* A step down into ch, of which k tokens are in the query.
StepAs(ch, k) ==
  /\ op \in {"find", "commit"}
  /\ Follows(node, curr, query, i, ch, k)
  /\ UNCHANGED <<node, bytes, query, used>>
  /\ lru' = MarkUsed(lru, ch)
  /\ path' = Paths(node)[ch]
  /\ i' = i + k
  /\ \/ k = Len(node[ch].prefix) /\ curr' = ch /\ op' = op
     \/ k < Len(node[ch].prefix) /\ curr' = curr /\ op = "find" /\ op' = "found"
  /\ op = "find" => found' = found \o SubSeq(node[ch].rows, 1, k)
  /\ op = "commit" => found' = found

\* The child ch split after k tokens, with s above.
SplitAs(ch, k, s) ==
  /\ op = "commit" /\ op' = "insert"
  /\ query[i + 1] \in DOMAIN node[curr].children /\ ch = node[curr].children[query[i + 1]]
  /\ Follows(node, curr, query, i, ch, k)
  /\ k \in 1 .. Len(node[ch].prefix) - 1
  /\ s \in Nat \ DOMAIN node
  /\ IsSplit(node, node', curr, ch, k, s)
  /\ lru' = MarkUsed(lru, s)
  /\ path' = path \o SubSeq(node[ch].prefix, 1, k)
  /\ curr' = s /\ i' = i + k
  /\ UNCHANGED <<bytes, query, found, used>>

\* The rest of the query in a new leaf l.
GrowAs(l, e) ==
  /\ op \in {"commit", "insert"} /\ op' = "evict"
  /\ i < Len(query)
  /\ e.prefix = SubSeq(query, i + 1, Len(query))
  /\ e.rows = [p \in 1 .. Len(query) - i |-> SubSeq(query, 1, i + p)]
  /\ e.children = <<>> /\ e.parent = curr
  /\ e \in NodeType /\ Len(e.rows) = Len(e.prefix) /\ Len(e.prefix) = Len(query) - i
  /\ e.prefix # <<>> /\ e.prefix[1] \notin DOMAIN node[curr].children
  /\ l \in Nat \ DOMAIN node
  /\ IsGrown(node, node', curr, l, e)
  /\ bytes' = bytes + Len(e.prefix)
  /\ lru' = MarkUsed(lru, l)
  /\ path' = query
  /\ UNCHANGED <<query, curr, i, found, used>>

\* Nothing left to add.
NothingToAdd ==
  /\ op \in {"commit", "insert"} /\ op' = "evict"
  /\ i = Len(query)
  /\ UNCHANGED <<node, lru, bytes, path, query, curr, i, found, used>>

\* The leaf l evicted.
PruneAs(l) ==
  /\ op = "evict" /\ bytes > Capacity
  /\ l = OldestLeaf /\ l \in Below(node) /\ node[l].children = <<>>
  /\ IsPruned(node, node', l)
  /\ lru' = RemoveFirst(lru, l)
  /\ bytes' = bytes - Len(node[l].prefix)
  /\ UNCHANGED <<op, query, curr, i, found, path, used>>

\* The child the call has come to agrees with the query for Match tokens.
LEMMA ChildFacts ==
  ASSUME IInv, op \in {"find", "commit"}, HasChild
  PROVE  /\ Follows(node, curr, query, i, Child, Match)
         /\ curr \in DOMAIN node
         /\ query[i + 1] \in DOMAIN node[curr].children
<1>1. curr \in DOMAIN node /\ Paths(node)[curr] = SubSeq(query, 1, i)
  BY DEF IInv, CallInv
<1>2. i < Len(query) /\ query[i + 1] \in DOMAIN node[curr].children
  BY DEF HasChild
<1>3. Tree(node) /\ query \in Seq(Tokens) /\ i \in 0 .. Len(query)
  BY InvTypes
<1> QED BY <1>1, <1>2, <1>3, MatchIs DEF Child, Match

\* A step down is FindWhole or CommitWhole.
LEMMA StepIs ==
  ASSUME IInv, FindStep \/ CommitDescend
  PROVE  StepAs(Child, Match)
<1>1. op \in {"find", "commit"} /\ HasChild
  BY DEF FindStep, CommitDescend
<1>2. Follows(node, curr, query, i, Child, Match)
  BY <1>1, ChildFacts
<1>3. path \o node[Child].prefix = Paths(node)[Child]
  <2>1. path = Paths(node)[curr]
    BY <1>1 DEF IInv, CallInv
  <2> QED BY <1>2, <2>1 DEF Follows
<1>4. Match = Len(node[Child].prefix) \/ Match < Len(node[Child].prefix)
  BY <1>2 DEF Follows
<1>5. CASE FindStep
  BY <1>2, <1>3, <1>4, <1>5 DEF FindStep, StepAs, Whole
<1>6. CASE CommitDescend
  BY <1>2, <1>3, <1>6 DEF CommitDescend, StepAs, Whole
<1> QED BY <1>5, <1>6

\* Both loops split alike, but for the rows found.
LEMMA SplitStepIs ==
  ASSUME IInv, CommitSplit
  PROVE  SplitAs(Child, Match, Fresh(DOMAIN node))
<1> DEFINE s == Fresh(DOMAIN node)
<1>1. op = "commit" /\ HasChild /\ ~Whole
  BY DEF CommitSplit
<1>2. /\ Follows(node, curr, query, i, Child, Match) /\ curr \in DOMAIN node
      /\ query[i + 1] \in DOMAIN node[curr].children
  BY <1>1, ChildFacts
<1>3. Match \in 1 .. Len(node[Child].prefix) - 1
  BY <1>1, <1>2 DEF Follows, Whole
<1>4. s \in Nat \ DOMAIN node
  BY InvTypes, FreshIs
<1>5. Tree(node)
  BY InvTypes
<1>6. Child = node[curr].children[query[i + 1]]
  BY DEF Child
<1>7. Child \in DOMAIN node /\ Child # curr /\ Len(node[Child].rows) = Len(node[Child].prefix)
  <2>1. Child \in DOMAIN node /\ Child # curr /\ IsJoined(node, Child)
    BY <1>2, <1>5, <1>6, ChildIs
  <2> QED BY <2>1 DEF IsJoined
<1>8. IsSplit(node, SplitTree(node, curr, Child, Match, s), curr, Child, Match, s)
  BY <1>2, <1>3, <1>4, <1>5, <1>7, SplitIs DEF Tree
<1>9. node' = SplitTree(node, curr, Child, Match, s)
  BY DEF CommitSplit, SplitTree
<1>10. /\ lru' = MarkUsed(lru, s) /\ path' = path \o SubSeq(node[Child].prefix, 1, Match)
       /\ curr' = s /\ i' = i + Match /\ op' = "insert"
       /\ UNCHANGED <<bytes, query, found, used>>
  BY DEF CommitSplit
<1> QED BY <1>1, <1>2, <1>3, <1>4, <1>6, <1>8, <1>9, <1>10 DEF SplitAs

\* Where the rest goes, no child begins like it.
LEMMA NoChild ==
  ASSUME IInv, op = "insert" \/ (op = "commit" /\ ~HasChild), i < Len(query)
  PROVE  query[i + 1] \notin DOMAIN node[curr].children
  BY DEF IInv, CallInv, HasChild

\* What commit inserts is a new leaf, or nothing.
LEMMA InsertIs ==
  ASSUME IInv, CommitInsert
  PROVE  NothingToAdd \/ \E l, e : GrowAs(l, e)
<1> DEFINE rest == SubSeq(query, i + 1, Len(query))
           l == Fresh(DOMAIN node)
           rows == [p \in 1 .. Len(rest) |-> SubSeq(query, 1, i + p)]
           e == [prefix |-> rest, rows |-> rows, children |-> <<>>, parent |-> curr]
<1>1. op = "insert" \/ (op = "commit" /\ ~HasChild)
  BY DEF CommitInsert
<1>2. Tree(node) /\ query \in Seq(Tokens) /\ i \in 0 .. Len(query) /\ i \in Nat /\ Len(query) \in Nat
  BY InvTypes
<1>3. curr \in DOMAIN node /\ curr \in Nat
  BY <1>1, <1>2 DEF IInv, CallInv, Tree, Typed
<1>4. rest \in Seq(Tokens) /\ Len(rest) = Len(query) - i
  BY <1>2, CutIs
<1>5. CASE i = Len(query)
  <2>1. rest = <<>>
    BY <1>2, <1>4, <1>5
  <2> QED BY <1>1, <1>5, <2>1 DEF CommitInsert, NothingToAdd
<1>6. CASE i < Len(query)
  <2>1. rest # <<>> /\ rest[1] = query[i + 1] /\ Len(rest) \in Nat
    <3>1. Len(rest) \in Nat /\ Len(rest) # 0
      BY <1>2, <1>4, <1>6
    <3>2. rest[1] = query[i + 1]
      BY <1>2, <1>6
    <3>3. rest # <<>>
      <4> HIDE DEF rest
      <4> QED BY <3>1
    <3> QED BY <3>1, <3>2, <3>3
  <2>2. rows \in Seq(Seq(Tokens)) /\ Len(rows) = Len(rest)
    <3>1. \A p \in 1 .. Len(rest) : i + p \in 0 .. Len(query)
      BY <1>2, <1>4
    <3>2. \A k \in 0 .. Len(query) : SubSeq(query, 1, k) \in Seq(Tokens)
      BY <1>2, CutIs
    <3>3. \A p \in 1 .. Len(rest) : SubSeq(query, 1, i + p) \in Seq(Tokens)
      BY <3>1, <3>2
    <3> HIDE DEF rest
    <3> QED BY <2>1, <3>3
  <2>3. e \in NodeType
    <3>1. <<>> \in UNION {[T -> Nat] : T \in SUBSET Tokens}
      <4>1. <<>> \in [{} -> Nat]
        OBVIOUS
      <4> QED BY <4>1
    <3> HIDE DEF rest, rows
    <3> QED BY <1>3, <1>4, <2>2, <3>1 DEF NodeType
  <2>4. l \in Nat \ DOMAIN node
    BY InvTypes, FreshIs
  <2>5. query[i + 1] \notin DOMAIN node[curr].children
    BY <1>1, <1>6, NoChild
  <2>6. IsGrown(node, GrownTree(node, curr, l, e), curr, l, e)
    <3>1. Typed(node) /\ e.prefix # <<>>
      BY <1>2, <2>1 DEF Tree
    <3> HIDE DEF e, l
    <3> QED BY <1>3, <2>3, <2>4, <3>1, GrownIs
  <2>7. node' = GrownTree(node, curr, l, e)
    BY <2>1 DEF CommitInsert, GrownTree
  <2>8. /\ bytes' = bytes + Len(rest) /\ lru' = MarkUsed(lru, l) /\ path' = query
        /\ op' = "evict" /\ UNCHANGED <<query, curr, i, found, used>>
    BY <2>1 DEF CommitInsert
  <2>9. /\ e.prefix = rest /\ e.rows = rows /\ e.children = <<>> /\ e.parent = curr
        /\ rows = [p \in 1 .. Len(query) - i |-> SubSeq(query, 1, i + p)]
    BY <1>4
  <2>10. op \in {"commit", "insert"}
    BY <1>1
  <2> HIDE DEF e, l
  <2>11. GrowAs(l, e)
    <3> HIDE DEF rows
    <3>1. Len(e.rows) = Len(e.prefix) /\ e.prefix # <<>> /\ e.prefix[1] = query[i + 1]
      BY <2>1, <2>2, <2>9
    <3>2. e.prefix = SubSeq(query, i + 1, Len(query)) /\ Len(e.prefix) = Len(query) - i
      BY <1>4, <2>9
    <3> HIDE DEF rest
    <3> QED BY <1>6, <2>3, <2>4, <2>5, <2>6, <2>7, <2>8, <2>9, <2>10, <3>1, <3>2 DEF GrowAs
  <2> QED BY <2>11
<1> QED BY <1>2, <1>5, <1>6

\* What eviction removes is the last of the leaves in the list.
LEMMA EvictIs ==
  ASSUME IInv, EvictLeaf
  PROVE  PruneAs(OldestLeaf)
<1> DEFINE l == OldestLeaf
<1>1. Tree(node) /\ Lists(lru, Below(node)) /\ bytes = Cardinality(Held(node)) /\ Capacity \in Nat
  BY InvTypes DEF IInv, BooksInv
<1>2. bytes > Capacity /\ op = "evict"
  BY DEF EvictLeaf
<1>3. ~(Held(node) \subseteq {})
  <2>1. SUFFICES ASSUME Held(node) \subseteq {} PROVE FALSE
    OBVIOUS
  <2>2. Held(node) = {}
    BY <2>1
  <2>3. bytes = 0
    BY <1>1, <2>2, FS_EmptySet
  <2> QED BY <1>1, <1>2, <2>3
<1>4. l \in Below(node) /\ node[l].children = <<>>
  BY <1>1, <1>3, OldestIs
<1>5. IsJoined(node, l) /\ node[l].parent # l
  BY <1>1, <1>4, Apart DEF Tree, Joined
<1>6. IsPruned(node, PrunedTree(node, l), l)
  BY <1>1, <1>4, <1>5, PrunedIs DEF Tree
<1>7. node' = PrunedTree(node, l)
  BY DEF EvictLeaf, PrunedTree
<1>8. /\ lru' = RemoveFirst(lru, l) /\ bytes' = bytes - Len(node[l].prefix)
      /\ UNCHANGED <<op, query, curr, i, found, path, used>>
  BY DEF EvictLeaf
<1> HIDE DEF l
<1>9. l = OldestLeaf
  BY DEF l
<1>10. PruneAs(l)
  BY <1>2, <1>4, <1>6, <1>7, <1>8, <1>9 DEF PruneAs
<1> QED BY <1>10 DEF l

-----------------------------------------------------------------------------
(* What the changes of a tree need and do, in a word each.                 *)

\* s splits ch, the child of c by a, after k tokens: the tree is u then.
SplitMay(t, u, c, a, ch, k, s) ==
  /\ Tree(t) /\ c \in DOMAIN t /\ a \in DOMAIN t[c].children /\ ch = t[c].children[a]
  /\ k \in 1 .. Len(t[ch].prefix) - 1 /\ s \in Nat \ DOMAIN t
  /\ IsSplit(t, u, c, ch, k, s)

\* What that leaves.
SplitDone(t, u, c, ch, k, s) ==
  /\ Tree(u) /\ SameRows(t, u) /\ Paths(u)[s] = At(t, ch, k)
  /\ Paths(u)[s] = Paths(t)[c] \o SubSeq(t[ch].prefix, 1, k)
  /\ \A S : Closed(S) /\ WholeIn(t, S) => WholeIn(u, S)

\* A split is one of the changes proved above.
LEMMA SplitDoes ==
  ASSUME NEW t, NEW u, NEW c, NEW a, NEW ch, NEW k, NEW s, SplitMay(t, u, c, a, ch, k, s)
  PROVE  SplitDone(t, u, c, ch, k, s)
<1>1. Tree(t) /\ c \in DOMAIN t
  BY DEF SplitMay
<1>2. a \in DOMAIN t[c].children /\ ch = t[c].children[a]
  BY DEF SplitMay
<1>3. k \in 1 .. Len(t[ch].prefix) - 1 /\ s \in Nat \ DOMAIN t /\ IsSplit(t, u, c, ch, k, s)
  BY DEF SplitMay
<1>4. /\ Tree(u) /\ SameRows(t, u) /\ Paths(u)[s] = At(t, ch, k)
      /\ Paths(u)[s] = Paths(t)[c] \o SubSeq(t[ch].prefix, 1, k)
  BY <1>1, <1>2, <1>3, SplitRows, SMTT(30)
<1>5. ASSUME NEW S, Closed(S), WholeIn(t, S) PROVE WholeIn(u, S)
  BY <1>1, <1>2, <1>3, <1>5, SplitWhole
<1> QED BY <1>4, <1>5 DEF SplitDone

\* c gets the leaf l, which is e: the tree is u then.
GrowMay(t, u, c, l, e) ==
  /\ Tree(t) /\ c \in DOMAIN t /\ e \in NodeType
  /\ e.prefix # <<>> /\ Len(e.rows) = Len(e.prefix) /\ e.parent = c /\ e.children = <<>>
  /\ e.prefix[1] \notin DOMAIN t[c].children
  /\ l \in Nat \ DOMAIN t /\ IsGrown(t, u, c, l, e)

\* So is a new leaf.
LEMMA GrowDoes ==
  ASSUME NEW t, NEW u, NEW c, NEW l, NEW e, GrowMay(t, u, c, l, e)
  PROVE  GrowDone(t, u, c, l, e)
<1>1. Tree(t) /\ c \in DOMAIN t /\ e \in NodeType
  BY DEF GrowMay
<1>2. /\ e.prefix # <<>> /\ Len(e.rows) = Len(e.prefix) /\ e.parent = c /\ e.children = <<>>
      /\ e.prefix[1] \notin DOMAIN t[c].children
  BY DEF GrowMay
<1>3. l \in Nat \ DOMAIN t /\ IsGrown(t, u, c, l, e)
  BY DEF GrowMay
<1> QED BY <1>1, <1>2, <1>3, GrownRows

\* The leaf l goes: the tree is u then.
PruneMay(t, u, l) ==
  Tree(t) /\ l \in Below(t) /\ t[l].children = <<>> /\ IsPruned(t, u, l)

\* And so is a leaf that goes.
LEMMA PruneDoes ==
  ASSUME NEW t, NEW u, NEW l, PruneMay(t, u, l)
  PROVE  PruneDone(t, u, l)
<1>1. Tree(t) /\ l \in Below(t) /\ t[l].children = <<>> /\ IsPruned(t, u, l)
  BY DEF PruneMay
<1> QED BY <1>1, PrunedRows

-----------------------------------------------------------------------------
(* What a step leaves of what was held.                                    *)

\* A split keeps what is held, and whole what was whole.
LEMMA SplitFacts ==
  ASSUME IInv, NEW ch, NEW k, NEW s, SplitAs(ch, k, s)
  PROVE  /\ Tree(node') /\ SameRows(node, node')
         /\ Paths(node')[s] = path' /\ path' = SubSeq(query, 1, i + k)
         /\ DOMAIN node' = DOMAIN node \cup {s} /\ node'[s].parent = curr
         /\ s \in Nat \ DOMAIN node /\ curr \in DOMAIN node
         /\ path = Paths(node)[curr]
         /\ \A S : Closed(S) /\ WholeIn(node, S) => WholeIn(node', S)
<1>1. Tree(node) /\ curr \in DOMAIN node /\ path = Paths(node)[curr]
  BY InvTypes DEF SplitAs, IInv, CallInv
<1>2. /\ query[i + 1] \in DOMAIN node[curr].children /\ ch = node[curr].children[query[i + 1]]
      /\ k \in 1 .. Len(node[ch].prefix) - 1 /\ s \in Nat \ DOMAIN node
      /\ IsSplit(node, node', curr, ch, k, s)
  BY DEF SplitAs
<1>7. path' = path \o SubSeq(node[ch].prefix, 1, k)
  BY DEF SplitAs
<1>8. Follows(node, curr, query, i, ch, k)
  BY DEF SplitAs
<1>3. /\ Tree(node') /\ SameRows(node, node') /\ Paths(node')[s] = At(node, ch, k)
      /\ Paths(node')[s] = Paths(node)[curr] \o SubSeq(node[ch].prefix, 1, k)
  <2>1. SplitMay(node, node', curr, query[i + 1], ch, k, s)
    BY <1>1, <1>2 DEF SplitMay
  <2>2. SplitDone(node, node', curr, ch, k, s)
    BY <2>1, SplitDoes
  <2> QED BY <2>2 DEF SplitDone
<1>4. At(node, ch, k) = SubSeq(query, 1, i + k)
  <2>1. k \in 1 .. k
    BY <1>8 DEF Follows
  <2> QED BY <1>8, <2>1 DEF Follows
<1>5. \A S : Closed(S) /\ WholeIn(node, S) => WholeIn(node', S)
  <2>1. SplitMay(node, node', curr, query[i + 1], ch, k, s)
    BY <1>1, <1>2 DEF SplitMay
  <2>2. SplitDone(node, node', curr, ch, k, s)
    BY <2>1, SplitDoes
  <2> QED BY <2>2 DEF SplitDone
<1>6. DOMAIN node' = DOMAIN node \cup {s} /\ node'[s].parent = curr
  BY <1>2 DEF IsSplit
<1> QED BY <1>1, <1>2, <1>3, <1>4, <1>5, <1>6, <1>7

\* The new spots are the query's prefixes after i.
LEMMA GrowFacts ==
  ASSUME IInv, NEW l, NEW e, GrowAs(l, e)
  PROVE  /\ Tree(node')
         /\ \A n \in DOMAIN node : n \in DOMAIN node' /\ Paths(node')[n] = Paths(node)[n]
         /\ Paths(node')[l] = query
         /\ DOMAIN node' = DOMAIN node \cup {l} /\ node'[l].parent = curr
         /\ l \in Nat \ DOMAIN node /\ l \in Below(node') /\ curr \in DOMAIN node
         /\ path = Paths(node)[curr] /\ path = SubSeq(query, 1, i)
         /\ Held(node') = Held(node) \cup SpotsAt(node', l)
         /\ Len(node'[l].prefix) = Len(query) - i /\ bytes' = bytes + Len(node'[l].prefix)
         /\ \A s \in SpotsAt(node', l) : s \notin Held(node)
         /\ \A j \in 1 .. Len(node'[l].prefix) :
              /\ At(node', l, j) = SubSeq(query, 1, i + j)
              /\ RowsIn(node')[At(node', l, j)] = SubSeq(query, 1, i + j)
         /\ \A x \in Held(node) : RowsIn(node')[x] = RowsIn(node)[x]
         /\ \A S : S \subseteq Held(node) /\ WholeIn(node, S) => WholeIn(node', S)
<1>1. /\ Tree(node) /\ curr \in DOMAIN node /\ Paths(node)[curr] = SubSeq(query, 1, i)
      /\ path = Paths(node)[curr] /\ Root \in DOMAIN node
      /\ query \in Seq(Tokens) /\ i \in 0 .. Len(query)
  BY InvTypes DEF GrowAs, IInv, CallInv
<1>2. /\ e \in NodeType /\ e.prefix # <<>> /\ Len(e.rows) = Len(e.prefix) /\ e.parent = curr
      /\ e.children = <<>> /\ e.prefix[1] \notin DOMAIN node[curr].children
      /\ l \in Nat \ DOMAIN node /\ IsGrown(node, node', curr, l, e)
      /\ e.prefix = SubSeq(query, i + 1, Len(query)) /\ Len(e.prefix) = Len(query) - i
      /\ e.rows = [p \in 1 .. Len(query) - i |-> SubSeq(query, 1, i + p)]
      /\ bytes' = bytes + Len(e.prefix)
  BY DEF GrowAs
<1>3. /\ Tree(node')
      /\ \A n \in DOMAIN node : n \in DOMAIN node' /\ Paths(node')[n] = Paths(node)[n]
      /\ Paths(node')[l] = Paths(node)[curr] \o e.prefix
      /\ Held(node') = Held(node) \cup SpotsAt(node', l)
      /\ \A s \in Held(node) : RowsIn(node')[s] = RowsIn(node)[s]
      /\ \A j \in 1 .. Len(e.prefix) :
           /\ At(node', l, j) = Paths(node)[curr] \o SubSeq(e.prefix, 1, j)
           /\ At(node', l, j) \notin Held(node)
           /\ RowsIn(node')[At(node', l, j)] = e.rows[j]
  <2>1. GrowMay(node, node', curr, l, e)
    BY <1>1, <1>2 DEF GrowMay
  <2>2. GrowDone(node, node', curr, l, e)
    BY <2>1, GrowDoes
  <2> QED BY <2>2 DEF GrowDone
<1>4. DOMAIN node' = DOMAIN node \cup {l} /\ node'[l] = e /\ node'[l].parent = curr
  BY <1>2 DEF IsGrown
<1>5. l \in Below(node')
  BY <1>1, <1>2, <1>4 DEF Below
<1>6. /\ SubSeq(query, 1, i) \o SubSeq(query, i + 1, Len(query)) = query
      /\ \A j \in 0 .. Len(query) - i :
           SubSeq(query, 1, i + j) = SubSeq(query, 1, i) \o SubSeq(SubSeq(query, i + 1, Len(query)), 1, j)
  BY <1>1, TokensConcat
<1>7. Paths(node')[l] = query
  BY <1>1, <1>2, <1>3, <1>6
<1>8. ASSUME NEW j \in 1 .. Len(e.prefix)
      PROVE  /\ At(node', l, j) = SubSeq(query, 1, i + j)
             /\ RowsIn(node')[At(node', l, j)] = SubSeq(query, 1, i + j)
  <2>1. j \in 0 .. Len(query) - i /\ j \in 1 .. Len(query) - i
    <3>1. Len(e.prefix) = Len(query) - i
      BY <1>2
    <3> QED BY <3>1
  <2>2. At(node', l, j) = Paths(node)[curr] \o SubSeq(e.prefix, 1, j)
    BY <1>3
  <2>3. SubSeq(query, 1, i + j) = SubSeq(query, 1, i) \o SubSeq(e.prefix, 1, j)
    BY <1>2, <1>6, <2>1
  <2>4. RowsIn(node')[At(node', l, j)] = e.rows[j] /\ e.rows[j] = SubSeq(query, 1, i + j)
    BY <1>2, <1>3, <2>1
  <2> QED BY <1>1, <2>2, <2>3, <2>4
<1>9. ASSUME NEW S, S \subseteq Held(node), WholeIn(node, S) PROVE WholeIn(node', S)
  <2>1. \A n \in DOMAIN node : SameBut(node'[n], node[n])
    BY <1>2 DEF IsGrown, SameBut
  <2>2. 1 \in 1 .. Len(e.prefix)
    <3>1. IsSpot(node', l, 1)
      BY <1>3, <1>5, EndIs
    <3> QED BY <1>4, <3>1 DEF IsSpot
  <2>3. At(node', l, 1) \notin Held(node)
    BY <1>3, <2>2
  <2>4. \A n \in DOMAIN node : Paths(node')[n] = Paths(node)[n]
    BY <1>3
  <2> QED BY <1>1, <1>4, <1>9, <2>1, <2>3, <2>4, GrownWhole
<1> HIDE DEF RowsIn
<1>10. Held(node') = Held(node) \cup SpotsAt(node', l)
  BY <1>3, <1>4
<1>11. Len(node'[l].prefix) = Len(query) - i /\ bytes' = bytes + Len(node'[l].prefix)
  BY <1>2, <1>4
<1>14. \A s \in SpotsAt(node', l) : s \notin Held(node)
  BY <1>3, <1>4 DEF SpotsAt
<1>12. \A j \in 1 .. Len(node'[l].prefix) :
         /\ At(node', l, j) = SubSeq(query, 1, i + j)
         /\ RowsIn(node')[At(node', l, j)] = SubSeq(query, 1, i + j)
  BY <1>3, <1>4, <1>8
<1>13. path = Paths(node)[curr] /\ path = SubSeq(query, 1, i) /\ curr \in DOMAIN node /\ l \in Nat \ DOMAIN node
  BY <1>1, <1>2
<1> QED BY <1>3, <1>4, <1>5, <1>7, <1>9, <1>10, <1>11, <1>12, <1>13, <1>14

\* An eviction forgets the positions of one leaf.
LEMMA PruneFacts ==
  ASSUME IInv, NEW l, PruneAs(l)
  PROVE  /\ Tree(node') /\ DOMAIN node' = DOMAIN node \ {l} /\ l \in Below(node)
         /\ \A n \in DOMAIN node' : Paths(node')[n] = Paths(node)[n]
         /\ Held(node') = Held(node) \ SpotsAt(node, l)
         /\ \A s \in Held(node') : RowsIn(node')[s] = RowsIn(node)[s]
         /\ \A S : WholeIn(node, S) => WholeIn(node', S)
<1>1. /\ Tree(node) /\ l \in Below(node) /\ node[l].children = <<>>
      /\ IsPruned(node, node', l)
  BY InvTypes DEF PruneAs
<1>2. /\ Tree(node')
      /\ DOMAIN node' = DOMAIN node \ {l}
      /\ \A n \in DOMAIN node' : Paths(node')[n] = Paths(node)[n] /\ SameBut(node'[n], node[n])
      /\ Held(node') = Held(node) \ SpotsAt(node, l)
      /\ \A s \in Held(node') : RowsIn(node')[s] = RowsIn(node)[s]
  <2>1. PruneMay(node, node', l)
    BY <1>1 DEF PruneMay
  <2>2. PruneDone(node, node', l)
    BY <2>1, PruneDoes
  <2> QED BY <2>2 DEF PruneDone
<1>3. ASSUME NEW S, WholeIn(node, S) PROVE WholeIn(node', S)
  <2>1. DOMAIN node' \subseteq DOMAIN node
    BY <1>2
  <2>2. \A n \in DOMAIN node' : SameBut(node'[n], node[n]) /\ Paths(node')[n] = Paths(node)[n]
    BY <1>2
  <2> QED BY <1>1, <1>2, <1>3, <2>1, <2>2, PrunedWhole
<1> QED BY <1>1, <1>2, <1>3

-----------------------------------------------------------------------------
(* The tree, the list and the count.                                       *)

\* A step down changes no tree, list or count.
LEMMA BooksStep ==
  ASSUME IInv, NEW ch, NEW k, StepAs(ch, k)
  PROVE  BooksInv'
<1>1. ch \in Below(node) /\ Lists(lru, Below(node)) /\ node' = node /\ bytes' = bytes
      /\ lru' = MarkUsed(lru, ch)
  BY DEF StepAs, Follows, IInv, BooksInv
<1>2. Lists(MarkUsed(lru, ch), Below(node) \cup {ch}) /\ Below(node) \cup {ch} = Below(node)
  BY <1>1, MarkedIs
<1> QED BY <1>1, <1>2 DEF IInv, BooksInv

\* A split puts the new node where its child is in the list.
LEMMA BooksSplit ==
  ASSUME IInv, NEW ch, NEW k, NEW s, SplitAs(ch, k, s)
  PROVE  BooksInv'
<1>1. /\ Tree(node') /\ SameRows(node, node') /\ DOMAIN node' = DOMAIN node \cup {s}
      /\ s \in Nat \ DOMAIN node
  BY SplitFacts
<1>2. Lists(lru, Below(node)) /\ bytes = Cardinality(Held(node)) /\ Root \in DOMAIN node
  BY InvTypes DEF IInv, BooksInv
<1>3. Lists(MarkUsed(lru, s), Below(node) \cup {s}) /\ Below(node') = Below(node) \cup {s}
  BY <1>1, <1>2, MarkedIs DEF Below
<1>4. lru' = MarkUsed(lru, s) /\ bytes' = bytes
  BY DEF SplitAs
<1> QED BY <1>1, <1>2, <1>3, <1>4 DEF BooksInv, SameRows

\* A new leaf is put first and its tokens are counted.
LEMMA BooksGrow ==
  ASSUME IInv, NEW l, NEW e, GrowAs(l, e)
  PROVE  BooksInv'
<1>1. /\ Tree(node') /\ DOMAIN node' = DOMAIN node \cup {l} /\ l \in Nat \ DOMAIN node /\ l \in Below(node')
      /\ Held(node') = Held(node) \cup SpotsAt(node', l)
      /\ bytes' = bytes + Len(node'[l].prefix)
      /\ \A s \in SpotsAt(node', l) : s \notin Held(node)
  BY GrowFacts
<1>2. Lists(lru, Below(node)) /\ bytes = Cardinality(Held(node)) /\ Root \in DOMAIN node
  BY InvTypes DEF IInv, BooksInv
<1>3. Lists(MarkUsed(lru, l), Below(node) \cup {l}) /\ Below(node') = Below(node) \cup {l}
  BY <1>1, <1>2, MarkedIs DEF Below
<1>4. lru' = MarkUsed(lru, l)
  BY DEF GrowAs
<1>5. Cardinality(Held(node')) = Cardinality(Held(node)) + Len(node'[l].prefix)
  BY <1>1, LeafCount
<1> QED BY <1>1, <1>2, <1>3, <1>4, <1>5 DEF BooksInv

\* A leaf evicted leaves the list and its tokens the count.
LEMMA BooksPrune ==
  ASSUME IInv, NEW l, PruneAs(l)
  PROVE  BooksInv'
<1>1. /\ Tree(node') /\ DOMAIN node' = DOMAIN node \ {l} /\ l \in Below(node)
      /\ \A n \in DOMAIN node' : Paths(node')[n] = Paths(node)[n]
      /\ Held(node') = Held(node) \ SpotsAt(node, l)
  BY PruneFacts
<1>2. Lists(lru, Below(node)) /\ bytes = Cardinality(Held(node)) /\ Tree(node)
  BY InvTypes DEF IInv, BooksInv
<1>3. Lists(RemoveFirst(lru, l), Below(node'))
  BY <1>1, <1>2, TakeOff
<1>4. lru' = RemoveFirst(lru, l) /\ bytes' = bytes - Len(node[l].prefix)
  BY DEF PruneAs
<1>5. Held(node) = Held(node') \cup SpotsAt(node, l) /\ \A s \in SpotsAt(node, l) : s \notin Held(node')
  <2>1. SpotsAt(node, l) \subseteq Held(node)
    <3>1. \A j \in 1 .. Len(node[l].prefix) : IsSpot(node, l, j)
      BY <1>1 DEF IsSpot
    <3> QED BY <1>2, <3>1, HeldIs DEF SpotsAt
  <2> QED BY <1>1, <2>1
<1>6. Cardinality(Held(node)) = Cardinality(Held(node')) + Len(node[l].prefix) /\ Cardinality(Held(node')) \in Nat
  BY <1>1, <1>2, <1>5, LeafCount
<1>7. Len(node[l].prefix) \in Nat
  BY <1>1, <1>2, PathsFacts
<1>8. bytes' = Cardinality(Held(node'))
  BY <1>2, <1>4, <1>6, <1>7
<1> QED BY <1>1, <1>3, <1>4, <1>8 DEF BooksInv

-----------------------------------------------------------------------------
(* Where the call in progress is.                                          *)

\* The prefixes of a prefix.
LEMMA CutStems ==
  ASSUME NEW q \in Seq(Tokens), NEW n \in 0 .. Len(q)
  PROVE  \A j \in 1 .. n : SubSeq(q, 1, j) \in Stems(SubSeq(q, 1, n))
<1> DEFINE z == SubSeq(q, 1, n)
<1>1. z \in Seq(Tokens) /\ Len(z) = n
  BY CutIs
<1>2. \A j \in 0 .. n : SubSeq(z, 1, j) = SubSeq(q, 1, j)
  BY TokensConcat
<1> HIDE DEF z
<1>3. ASSUME NEW j \in 1 .. n PROVE SubSeq(q, 1, j) \in Stems(z)
  <2>1. j \in 0 .. n /\ j \in 1 .. Len(z)
    BY <1>1
  <2>2. Stems(z) = {SubSeq(z, 1, k) : k \in 1 .. Len(z)}
    BY <1>1, StemsAre
  <2>3. SubSeq(q, 1, j) = SubSeq(z, 1, j)
    BY <1>2, <2>1
  <2> QED BY <2>1, <2>2, <2>3
<1> QED BY <1>3 DEF z

\* One token more.
LEMMA NextOf ==
  ASSUME NEW q \in Seq(Tokens), NEW n \in 0 .. Len(q), n < Len(q)
  PROVE  /\ Next1(SubSeq(q, 1, n + 1), SubSeq(q, 1, n))
         /\ SubSeq(q, 1, n + 1)[Len(SubSeq(q, 1, n + 1))] = q[n + 1]
<1> DEFINE z == SubSeq(q, 1, n + 1)
<1>1. n + 1 \in 0 .. Len(q) /\ n + 1 \in 1 .. n + 1 /\ n \in 0 .. n + 1
  OBVIOUS
<1>2. z \in Seq(Tokens) /\ Len(z) = n + 1 /\ z[n + 1] = q[n + 1]
  BY <1>1, CutIs
<1>3. SubSeq(z, 1, n) = SubSeq(q, 1, n)
  BY <1>1, TokensConcat
<1> HIDE DEF z
<1>4. z # <<>> /\ Len(z) - 1 = n
  BY <1>2
<1>5. SubSeq(z, 1, Len(z) - 1) = SubSeq(q, 1, n)
  BY <1>3, <1>4
<1>6. Next1(z, SubSeq(q, 1, n)) /\ z[Len(z)] = q[n + 1]
  BY <1>2, <1>4, <1>5 DEF Next1
<1> QED BY <1>6 DEF z

\* The rows of more tokens put behind those of the first.
LEMMA RowsOn ==
  ASSUME NEW S, NEW m \in Nat, NEW k \in Nat, NEW f \in [1 .. m + k -> S],
         NEW z \in Seq(S), k <= Len(z), \A j \in 1 .. k : z[j] = f[m + j]
  PROVE  [j \in 1 .. m |-> f[j]] \o SubSeq(z, 1, k) = f
<1> DEFINE x == [j \in 1 .. m |-> f[j]]
           y == SubSeq(z, 1, k)
<1>1. \A j \in 1 .. m : j \in 1 .. m + k
  OBVIOUS
<1>2. x \in Seq(S) /\ Len(x) = m /\ \A j \in 1 .. m : x[j] = f[j]
  BY <1>1
<1>3. k \in 0 .. Len(z)
  OBVIOUS
<1>4. y \in Seq(S) /\ Len(y) = k /\ \A j \in 1 .. k : y[j] = z[j]
  BY <1>3, CutIs
<1> HIDE DEF x, y
<1>5. x \o y \in Seq(S) /\ Len(x \o y) = m + k
  <2>1. x \in Seq(S) /\ y \in Seq(S) /\ Len(x) = m /\ Len(y) = k
    BY <1>2, <1>4
  <2> QED BY <2>1, ConcatProperties
<1>6. ASSUME NEW j \in 1 .. m + k PROVE (x \o y)[j] = f[j]
  <2>1. CASE j <= m
    BY <1>2, <1>4, <2>1
  <2>2. CASE j > m
    <3>1. j - m \in 1 .. k /\ m + (j - m) = j
      BY <2>2
    <3>2. (x \o y)[j] = y[j - m]
      BY <1>2, <1>4, <2>2, SMTT(30)
    <3>3. y[j - m] = z[j - m] /\ z[j - m] = f[m + (j - m)]
      BY <1>4, <3>1
    <3> QED BY <3>1, <3>2, <3>3
  <2>3. j <= m \/ j > m
    OBVIOUS
  <2> QED BY <2>1, <2>2, <2>3
<1>7. f \in Seq(S) /\ Len(f) = m + k
  OBVIOUS
<1>8. x \o y = f
  <2> DEFINE w == x \o y
  <2>1. w \in Seq(S) /\ Len(w) = m + k /\ \A j \in 1 .. m + k : w[j] = f[j]
    BY <1>5, <1>6
  <2> HIDE DEF w
  <2>2. w = f
    BY <1>7, <2>1
  <2> QED BY <2>2 DEF w
<1> QED BY <1>8 DEF x, y

\* What the call has passed is held, each token with its row.
LEMMA PassedHeld ==
  ASSUME IInv, op \in {"find", "commit", "insert"}
  PROVE  /\ curr \in DOMAIN node /\ Paths(node)[curr] = SubSeq(query, 1, i)
         /\ \A j \in 1 .. i : SubSeq(query, 1, j) \in Held(node)
<1>1. curr \in DOMAIN node /\ Paths(node)[curr] = SubSeq(query, 1, i)
  BY DEF IInv, CallInv
<1>2. Stems(SubSeq(query, 1, i)) \subseteq Held(node)
  <2>1. \A n \in DOMAIN node : Stems(Paths(node)[n]) \subseteq Held(node)
    BY InvTypes, HeldClosed
  <2> QED BY <1>1, <2>1
<1>3. query \in Seq(Tokens) /\ i \in 0 .. Len(query)
  BY InvTypes
<1>4. \A j \in 1 .. i : SubSeq(query, 1, j) \in Stems(SubSeq(query, 1, i))
  BY <1>3, CutStems
<1> QED BY <1>1, <1>2, <1>4

\* So is what a step down passes.
LEMMA StepHeld ==
  ASSUME IInv, NEW ch, NEW k, StepAs(ch, k)
  PROVE  /\ \A j \in 1 .. i + k : SubSeq(query, 1, j) \in Held(node)
         /\ op = "find" => found' = [j \in 1 .. i + k |-> RowsIn(node)[SubSeq(query, 1, j)]]
<1>1. /\ Tree(node) /\ query \in Seq(Tokens) /\ i \in 0 .. Len(query) /\ i \in Nat
      /\ op \in {"find", "commit"}
  BY InvTypes DEF StepAs
<1>2. \A j \in 1 .. i : SubSeq(query, 1, j) \in Held(node)
  BY <1>1, PassedHeld
<1>3. /\ k \in Nat /\ k <= Len(node[ch].prefix) /\ ch \in Below(node) /\ ch \in DOMAIN node
      /\ \A j \in 1 .. k : IsSpot(node, ch, j) /\ At(node, ch, j) = SubSeq(query, 1, i + j)
  BY DEF StepAs, Follows
<1>4. ASSUME NEW j \in 1 .. k
      PROVE  /\ SubSeq(query, 1, i + j) \in Held(node)
             /\ RowsIn(node)[SubSeq(query, 1, i + j)] = node[ch].rows[j]
  <2>1. IsSpot(node, ch, j) /\ At(node, ch, j) = SubSeq(query, 1, i + j)
    BY <1>3
  <2>2. At(node, ch, j) \in Held(node)
    BY <1>1, <2>1, HeldIs
  <2>3. RowsIn(node)[At(node, ch, j)] = node[ch].rows[j]
    <3>1. \A n, l : IsSpot(node, n, l) => RowsIn(node)[At(node, n, l)] = node[n].rows[l]
      BY <1>1, RowsInIs
    <3> QED BY <2>1, <3>1
  <2> QED BY <2>1, <2>2, <2>3
<1>5. ASSUME NEW j \in 1 .. i + k PROVE SubSeq(query, 1, j) \in Held(node)
  <2>1. CASE j <= i
    BY <1>1, <1>2, <2>1
  <2>2. CASE j > i
    <3>1. j - i \in 1 .. k /\ i + (j - i) = j
      BY <1>1, <1>3, <2>2
    <3> QED BY <1>4, <3>1
  <2> QED BY <1>1, <2>1, <2>2
<1>6. ASSUME op = "find"
      PROVE  found' = [j \in 1 .. i + k |-> RowsIn(node)[SubSeq(query, 1, j)]]
  <2>1. PICK f : f = [j \in 1 .. i + k |-> RowsIn(node)[SubSeq(query, 1, j)]]
    OBVIOUS
  <2>2. PICK z : z = node[ch].rows
    OBVIOUS
  <2>3. z \in Seq(Seq(Tokens)) /\ k <= Len(z)
    BY <1>1, <1>3, <2>2, PathsFacts
  <2>4. f \in [1 .. i + k -> Seq(Tokens)]
    <3>1. \A s \in Held(node) : RowsIn(node)[s] \in Seq(Tokens)
      <4>1. ASSUME NEW n, NEW l, IsSpot(node, n, l) PROVE node[n].rows[l] \in Seq(Tokens)
        <5>1. n \in Below(node) /\ l \in 1 .. Len(node[n].prefix)
          BY <4>1 DEF IsSpot
        <5>2. node[n].rows \in Seq(Seq(Tokens)) /\ Len(node[n].rows) = Len(node[n].prefix)
          BY <1>1, <5>1, PathsFacts
        <5> QED BY <5>1, <5>2
      <4>2. \A n, l : IsSpot(node, n, l) => RowsIn(node)[At(node, n, l)] = node[n].rows[l]
        BY <1>1, RowsInIs
      <4>3. \A s \in Held(node) : \E n, l : IsSpot(node, n, l) /\ s = At(node, n, l)
        BY <1>1, HeldIs
      <4> QED BY <4>1, <4>2, <4>3
    <3> QED BY <1>5, <2>1, <3>1
  <2>5. \A j \in 1 .. k : z[j] = f[i + j]
    <3>1. \A j \in 1 .. k : i + j \in 1 .. i + k
      BY <1>1, <1>3
    <3> QED BY <1>4, <2>1, <2>2, <3>1
  <2>6. [j \in 1 .. i |-> f[j]] \o SubSeq(z, 1, k) = f
    BY <1>1, <1>3, <2>3, <2>4, <2>5, RowsOn
  <2>7. found = [j \in 1 .. i |-> f[j]]
    <3>1. found = [j \in 1 .. i |-> RowsIn(node)[SubSeq(query, 1, j)]]
      BY <1>6 DEF IInv, CallInv
    <3>2. \A j \in 1 .. i : j \in 1 .. i + k
      BY <1>1, <1>3
    <3>3. \A j \in 1 .. i : f[j] = RowsIn(node)[SubSeq(query, 1, j)]
      BY <2>1, <3>2
    <3> QED BY <3>1, <3>3
  <2>8. found' = found \o SubSeq(z, 1, k)
    BY <1>6, <2>2 DEF StepAs
  <2> QED BY <2>1, <2>6, <2>7, <2>8
<1> QED BY <1>5, <1>6

\* A lookup that ends inside a node has found all that is held.
LEMMA PartIsAll ==
  ASSUME IInv, NEW ch, NEW k, StepAs(ch, k), k < Len(node[ch].prefix)
  PROVE  found' = HeldRows(RowsIn(node), query) /\ op = "find" /\ op' = "found"
<1>1. Tree(node) /\ query \in Seq(Tokens) /\ Len(query) \in Nat
  BY InvTypes
<1>2. op = "find" /\ op' = "found"
  BY DEF StepAs, Follows
<1>3. /\ i + k \in 0 .. Len(query) /\ IsSpot(node, ch, k) /\ At(node, ch, k) = SubSeq(query, 1, i + k)
      /\ i + k < Len(query) => query[i + k + 1] # node[ch].prefix[k + 1]
  BY DEF StepAs, Follows
<1>4. ASSUME i + k < Len(query), SubSeq(query, 1, i + k + 1) \in Held(node) PROVE FALSE
  <2>1. /\ Next1(SubSeq(query, 1, i + k + 1), SubSeq(query, 1, i + k))
        /\ SubSeq(query, 1, i + k + 1)[Len(SubSeq(query, 1, i + k + 1))] = query[i + k + 1]
    BY <1>1, <1>3, <1>4, NextOf
  <2>2. SubSeq(query, 1, i + k + 1)[Len(SubSeq(query, 1, i + k + 1))] = node[ch].prefix[k + 1]
    <3> DEFINE s == SubSeq(query, 1, i + k + 1)
    <3>1. s \in Held(node) /\ Next1(s, At(node, ch, k))
      BY <1>3, <1>4, <2>1
    <3> HIDE DEF s
    <3>2. s[Len(s)] = node[ch].prefix[k + 1]
      BY <1>1, <1>3, <3>1, AfterSpot
    <3> QED BY <3>2 DEF s
  <2> QED BY <1>3, <1>4, <2>1, <2>2
<1>5. /\ \A j \in 1 .. i + k : SubSeq(query, 1, j) \in Held(node)
      /\ found' = [j \in 1 .. i + k |-> RowsIn(node)[SubSeq(query, 1, j)]]
  BY <1>2, StepHeld
<1>6. DOMAIN RowsIn(node) = Held(node)
  BY <1>1, RowsInIs
<1>7. HeldRows(RowsIn(node), query) = [j \in 1 .. i + k |-> RowsIn(node)[SubSeq(query, 1, j)]]
  BY <1>1, <1>3, <1>4, <1>5, <1>6, HeldRowsAre
<1> QED BY <1>2, <1>5, <1>7

\* So has one that ends with no child to go to.
LEMMA NoMoreIsAll ==
  ASSUME IInv, FindNoMore
  PROVE  found' = HeldRows(RowsIn(node), query) /\ op = "find" /\ op' = "found"
<1>1. Tree(node) /\ query \in Seq(Tokens) /\ i \in 0 .. Len(query) /\ Len(query) \in Nat
  BY InvTypes
<1>2. op = "find" /\ op' = "found" /\ found' = found /\ ~HasChild
  BY DEF FindNoMore
<1>3. /\ curr \in DOMAIN node /\ Paths(node)[curr] = SubSeq(query, 1, i)
      /\ \A j \in 1 .. i : SubSeq(query, 1, j) \in Held(node)
  BY <1>2, PassedHeld
<1>4. ASSUME i < Len(query), SubSeq(query, 1, i + 1) \in Held(node) PROVE FALSE
  <2>1. /\ Next1(SubSeq(query, 1, i + 1), SubSeq(query, 1, i))
        /\ SubSeq(query, 1, i + 1)[Len(SubSeq(query, 1, i + 1))] = query[i + 1]
    BY <1>1, <1>4, NextOf
  <2>2. SubSeq(query, 1, i + 1)[Len(SubSeq(query, 1, i + 1))] \in DOMAIN node[curr].children
    BY <1>1, <1>3, <1>4, <2>1, AfterNode
  <2> QED BY <1>2, <1>4, <2>1, <2>2 DEF HasChild
<1>5. found = [j \in 1 .. i |-> RowsIn(node)[SubSeq(query, 1, j)]]
  BY <1>2 DEF IInv, CallInv
<1>6. DOMAIN RowsIn(node) = Held(node)
  BY <1>1, RowsInIs
<1>7. HeldRows(RowsIn(node), query) = [j \in 1 .. i |-> RowsIn(node)[SubSeq(query, 1, j)]]
  BY <1>1, <1>3, <1>4, <1>6, HeldRowsAre
<1> QED BY <1>2, <1>5, <1>7

\* A step down moves the call by the child's tokens.
LEMMA CallStep ==
  ASSUME IInv, NEW ch, NEW k, StepAs(ch, k)
  PROVE  CallInv'
<1>1. /\ Tree(node) /\ query \in Seq(Tokens) /\ i \in Nat /\ Len(query) \in Nat
  BY InvTypes
<1>2. /\ node' = node /\ query' = query /\ i' = i + k /\ path' = Paths(node)[ch]
      /\ ch \in DOMAIN node /\ i + k \in 0 .. Len(query) /\ op \in {"find", "commit"}
      /\ k = Len(node[ch].prefix) => Paths(node)[ch] = SubSeq(query, 1, i + k)
  BY DEF StepAs, Follows
<1>3. query' \in Queries \cup {<<>>} /\ i' \in 0 .. Len(query')
  BY <1>2 DEF IInv, CallInv
<1>4. path' \in Seq(Tokens)
  BY <1>1, <1>2, PathsFacts
<1>5. op = "commit" => query # <<>>
  BY DEF IInv, CallInv
<1>6. CASE k = Len(node[ch].prefix)
  <2>1. curr' = ch /\ op' = op
    BY <1>6 DEF StepAs
  <2>2. op = "find" => found' = [j \in 1 .. i' |-> RowsIn(node')[SubSeq(query', 1, j)]]
    BY <1>2, StepHeld
  <2>3. Paths(node')[curr'] = SubSeq(query', 1, i') /\ path' = Paths(node')[curr'] /\ curr' \in DOMAIN node'
    BY <1>2, <1>6, <2>1
  <2> HIDE DEF RowsIn, HeldRows
  <2> QED BY <1>2, <1>3, <1>4, <1>5, <2>1, <2>2, <2>3 DEF CallInv
<1>7. CASE k < Len(node[ch].prefix)
  <2>1. found' = HeldRows(RowsIn(node), query) /\ op = "find" /\ op' = "found"
    BY <1>7, PartIsAll
  <2>2. curr' = curr /\ curr \in DOMAIN node
    BY <1>7, <2>1 DEF StepAs, IInv, CallInv
  <2> QED BY <1>2, <1>3, <1>4, <2>1, <2>2 DEF CallInv
<1>8. k = Len(node[ch].prefix) \/ k < Len(node[ch].prefix)
  BY DEF StepAs
<1> QED BY <1>6, <1>7, <1>8

\* A split moves it by those that agreed.
LEMMA CallSplit ==
  ASSUME IInv, NEW ch, NEW k, NEW s, SplitAs(ch, k, s)
  PROVE  CallInv'
<1>1. /\ Tree(node') /\ Paths(node')[s] = path' /\ path' = SubSeq(query, 1, i + k)
      /\ DOMAIN node' = DOMAIN node \cup {s}
  BY SplitFacts
<1>2. /\ op = "commit" /\ op' = "insert" /\ query' = query /\ curr' = s /\ i' = i + k
  BY DEF SplitAs
<1>3. /\ i + k \in 0 .. Len(query)
      /\ i + k < Len(query) => query[i + k + 1] # node[ch].prefix[k + 1]
  <2>1. Follows(node, curr, query, i, ch, k) /\ k \in 1 .. Len(node[ch].prefix) - 1
    BY DEF SplitAs
  <2>2. k < Len(node[ch].prefix)
    BY <2>1 DEF Follows
  <2> QED BY <2>1, <2>2 DEF Follows
<1>4. DOMAIN node'[s].children = {node[ch].prefix[k + 1]}
  BY DEF SplitAs, IsSplit
<1>5. query' \in Queries \cup {<<>>} /\ i' \in 0 .. Len(query') /\ query # <<>>
  BY <1>2, <1>3 DEF IInv, CallInv
<1>6. path' \in Seq(Tokens)
  <2>1. s \in DOMAIN node' /\ \A n \in DOMAIN node' : Paths(node')[n] \in Seq(Tokens)
    BY <1>1, PathsFacts
  <2>2. Paths(node')[s] = path'
    BY <1>1
  <2> QED BY <2>1, <2>2
<1>7. i' < Len(query') => query'[i' + 1] \notin DOMAIN node'[curr'].children
  BY <1>2, <1>3, <1>4
<1> QED BY <1>1, <1>2, <1>5, <1>6, <1>7 DEF CallInv

\* An insertion ends the commit's walk.
LEMMA CallGrow ==
  ASSUME IInv, (\E l, e : GrowAs(l, e)) \/ NothingToAdd
  PROVE  CallInv'
<1>1. /\ query' = query /\ i' = i /\ op' = "evict" /\ op \in {"commit", "insert"}
      /\ path' = query \/ path' = path
  BY DEF GrowAs, NothingToAdd
<1>2. query \in Seq(Tokens)
  BY InvTypes
<1> QED BY <1>1, <1>2 DEF IInv, CallInv

\* The other steps.
LEMMA CallOther ==
  ASSUME IInv,
         \/ \E tokens \in Queries : Begin(tokens, "find")
         \/ \E tokens \in Queries \ {<<>>} : Begin(tokens, "commit")
         \/ FindNoMore \/ FindReturn \/ CommitReturn
         \/ \E l : PruneAs(l)
         \/ UNCHANGED vars
  PROVE  CallInv'
<1>1. /\ Tree(node) /\ Root \in DOMAIN node /\ Paths(node)[Root] = <<>>
  <2>1. Tree(node)
    BY InvTypes
  <2> QED BY <2>1, PathsFacts
<1>2. ASSUME NEW tokens \in Queries, NEW what \in {"find", "commit"}, Begin(tokens, what),
             what = "commit" => tokens # <<>>
      PROVE  CallInv'
  <2>1. /\ op' = what /\ query' = tokens /\ op = "none"
        /\ UNCHANGED <<node, lru, bytes, curr, i, found, path, used>>
    BY <1>2 DEF Begin
  <2>2. /\ curr = Root /\ i = 0 /\ path = <<>> /\ found = <<>>
    BY <2>1 DEF IInv, CallInv
  <2>3. tokens \in Seq(Tokens)
    BY SemanticCacheAssumption
  <2>4. SubSeq(tokens, 1, 0) = <<>> /\ i' \in 0 .. Len(query')
    BY <2>1, <2>2, <2>3
  <2>5. found' = [j \in 1 .. i' |-> RowsIn(node')[SubSeq(query', 1, j)]]
    <3>1. 1 .. i' = {}
      BY <2>1, <2>2
    <3> DEFINE f == [j \in 1 .. i' |-> RowsIn(node')[SubSeq(query', 1, j)]]
    <3>2. f = [j \in {} |-> RowsIn(node')[SubSeq(query', 1, j)]]
      BY <3>1
    <3>3. f = <<>>
      BY <3>2
    <3> QED BY <2>1, <2>2, <3>3
  <2>6. Paths(node')[curr'] = SubSeq(query', 1, i') /\ path' = Paths(node')[curr'] /\ curr' \in DOMAIN node'
    BY <1>1, <2>1, <2>2, <2>4
  <2>7. path' \in Seq(Tokens) /\ query' \in Queries \cup {<<>>}
    BY <2>1, <2>2
  <2> QED BY <1>2, <2>1, <2>4, <2>5, <2>6, <2>7 DEF CallInv
<1>3. CASE FindNoMore
  <2>1. found' = HeldRows(RowsIn(node), query) /\ op = "find" /\ op' = "found"
    BY <1>3, NoMoreIsAll
  <2>2. UNCHANGED <<node, lru, bytes, query, curr, i, found, path, used>>
    BY <1>3 DEF FindNoMore
  <2>3. /\ query \in Queries \cup {<<>>} /\ i \in 0 .. Len(query) /\ path \in Seq(Tokens)
        /\ curr \in DOMAIN node
    BY <2>1 DEF IInv, CallInv
  <2> QED BY <2>1, <2>2, <2>3 DEF CallInv
<1>4. CASE FindReturn \/ CommitReturn
  <2>1. Return /\ UNCHANGED <<node, lru, bytes>>
    BY <1>4 DEF FindReturn, CommitReturn
  <2>2. /\ op' = "none" /\ query' = <<>> /\ curr' = Root /\ i' = 0 /\ found' = <<>> /\ path' = <<>>
        /\ node' = node
    BY <2>1 DEF Return, NoUse
  <2>3. Len(<<>>) = 0 /\ <<>> \in Seq(Tokens)
    OBVIOUS
  <2> QED BY <1>1, <2>2, <2>3 DEF CallInv
<1>5. CASE \E l : PruneAs(l)
  <2>1. op = "evict" /\ UNCHANGED <<op, query, curr, i, found, path, used>>
    BY <1>5 DEF PruneAs
  <2> QED BY <2>1 DEF IInv, CallInv
<1>6. CASE UNCHANGED vars
  BY <1>6 DEF IInv, CallInv, vars
<1> QED BY <1>2, <1>3, <1>4, <1>5, <1>6

-----------------------------------------------------------------------------
(* What the calls used.                                                    *)

\* Of two sets of prefixes that fit, each does.
LEMMA FitsBoth ==
  ASSUME NEW R, NEW S, IsFiniteSet(R), IsFiniteSet(S), Cardinality(R \cup S) <= Capacity
  PROVE  Cardinality(R) <= Capacity /\ Cardinality(S) <= Capacity
<1>1. IsFiniteSet(R \cup S)
  BY FS_Union
<1>2. R \in SUBSET (R \cup S) /\ S \in SUBSET (R \cup S)
  OBVIOUS
<1>3. Cardinality(R) <= Cardinality(R \cup S) /\ Cardinality(S) <= Cardinality(R \cup S)
  BY <1>1, <1>2, FS_Subset
<1>4. Cardinality(R) \in Nat /\ Cardinality(S) \in Nat /\ Cardinality(R \cup S) \in Nat
  BY <1>1, FS_CardinalityType
<1> QED BY <1>3, <1>4, SemanticCacheAssumption

\* A step down puts the child first, with the nodes above it.
LEMMA UsedStep ==
  ASSUME IInv, NEW ch, NEW k, StepAs(ch, k)
  PROVE  UsedInv'
<1>1. Tree(node) /\ Lists(lru, Below(node))
  BY DEF IInv, BooksInv
<1>2. /\ op \in {"find", "commit"} /\ op' \in {"find", "found", "commit"} /\ node' = node /\ used' = used
      /\ ch \in Below(node) /\ ch \in DOMAIN node /\ node[ch].parent = curr
      /\ lru' = MarkUsed(lru, ch) /\ path' = Paths(node)[ch]
  BY DEF StepAs, Follows
<1>3. path = Paths(node)[node[ch].parent]
  BY <1>2 DEF IInv, CallInv
<1>4. Ahead(lru, On(node, WP)) /\ Ahead(lru, On(node, WP \cup W1))
  BY DEF IInv, UsedInv
<1>5. WP = Stems(Paths(node)[node[ch].parent]) /\ WP' = Stems(Paths(node)[ch]) /\ W1' = W1 /\ W2' = W2
  BY <1>2, <1>3 DEF WP, W1, W2
<1>6. ASSUME NEW S, Ahead(lru, On(node, WP \cup S))
      PROVE  Ahead(lru', On(node', WP' \cup S))
  <2>1. Ahead(lru, On(node, Stems(Paths(node)[node[ch].parent]) \cup S))
    BY <1>5, <1>6
  <2>2. Ahead(MarkUsed(lru, ch), On(node, Stems(Paths(node)[ch]) \cup S))
    BY <1>1, <1>2, <2>1, MarkDown
  <2> QED BY <1>2, <1>5, <2>2
<1>7. Ahead(lru', On(node', WP')) /\ Ahead(lru', On(node', WP' \cup W1'))
  <2>1. WP \cup {} = WP /\ WP' \cup {} = WP'
    OBVIOUS
  <2>2. Ahead(lru', On(node', WP' \cup {}))
    BY <1>4, <1>6, <2>1
  <2> QED BY <1>4, <1>5, <1>6, <2>1, <2>2
<1>8. WholeIn(node', WP')
  BY <1>1, <1>2, <1>5, WholePath
<1>9. WP' \subseteq Held(node')
  <2>1. \A n \in DOMAIN node : Stems(Paths(node)[n]) \subseteq Held(node)
    BY <1>1, HeldClosed
  <2> QED BY <1>2, <1>5, <2>1
<1>10. /\ used' \in Seq(Tokens) \X Seq(Tokens)
       /\ Cardinality(W1') <= Capacity => WholeIn(node', W1')
       /\ Kept(W1)' /\ Kept(W1 \cup W2)'
  BY <1>2, <1>5 DEF IInv, UsedInv, Kept
<1>11. op' # "evict"
  BY <1>2
<1> QED BY <1>7, <1>8, <1>9, <1>10, <1>11 DEF UsedInv

\* A split does so with its own node, and the child stays behind it.
LEMMA UsedSplit ==
  ASSUME IInv, NEW ch, NEW k, NEW s, SplitAs(ch, k, s)
  PROVE  UsedInv'
<1>1. Lists(lru, Below(node)) /\ Root \in DOMAIN node /\ Closed(W1)
  BY InvTypes DEF IInv, BooksInv
<1>2. /\ Tree(node') /\ SameRows(node, node') /\ Paths(node')[s] = path'
      /\ DOMAIN node' = DOMAIN node \cup {s} /\ node'[s].parent = curr
      /\ s \in Nat \ DOMAIN node /\ curr \in DOMAIN node
      /\ path = Paths(node)[curr]
      /\ \A S : Closed(S) /\ WholeIn(node, S) => WholeIn(node', S)
  BY SplitFacts
<1>3. op = "commit" /\ op' = "insert" /\ used' = used /\ lru' = MarkUsed(lru, s)
  BY DEF SplitAs
<1>4. Held(node') = Held(node) /\ \A n \in DOMAIN node : Paths(node')[n] = Paths(node)[n]
  BY <1>2 DEF SameRows
<1>5. /\ WP = Stems(Paths(node)[node'[s].parent]) /\ WP' = Stems(Paths(node')[s])
      /\ W1' = W1 /\ W2' = W2
  BY <1>2, <1>3 DEF WP, W1, W2
<1>6. ASSUME NEW S, Ahead(lru, On(node, WP \cup S))
      PROVE  Ahead(lru', On(node', WP' \cup S))
  <2>1. Ahead(lru, On(node, Stems(Paths(node)[node'[s].parent]) \cup S))
    BY <1>5, <1>6
  <2>2. Ahead(MarkUsed(lru, s), On(node', Stems(Paths(node')[s]) \cup S))
    BY <1>1, <1>2, <1>4, <2>1, MarkNew
  <2> QED BY <1>3, <1>5, <2>2
<1>7. Ahead(lru', On(node', WP')) /\ Ahead(lru', On(node', WP' \cup W1'))
  <2>1. WP \cup {} = WP /\ WP' \cup {} = WP'
    OBVIOUS
  <2>2. Ahead(lru, On(node, WP)) /\ Ahead(lru, On(node, WP \cup W1))
    BY DEF IInv, UsedInv
  <2>3. Ahead(lru', On(node', WP' \cup {}))
    BY <1>6, <2>1, <2>2
  <2> QED BY <1>5, <1>6, <2>1, <2>2, <2>3
<1>8. s \in DOMAIN node'
  BY <1>2
<1>9. WholeIn(node', WP')
  BY <1>2, <1>5, <1>8, WholePath
<1>10. WP' \subseteq Held(node')
  <2>1. \A n \in DOMAIN node' : Stems(Paths(node')[n]) \subseteq Held(node')
    BY <1>2, HeldClosed
  <2> QED BY <1>5, <1>8, <2>1
<1>11. Cardinality(W1') <= Capacity => WholeIn(node', W1')
  BY <1>1, <1>2, <1>5 DEF IInv, UsedInv
<1>12. used' \in Seq(Tokens) \X Seq(Tokens) /\ Kept(W1)' /\ Kept(W1 \cup W2)'
  BY <1>3, <1>4, <1>5 DEF IInv, UsedInv, Kept
<1>13. op' # "evict"
  BY <1>3
<1> QED BY <1>7, <1>9, <1>10, <1>11, <1>12, <1>13 DEF UsedInv

\* An insertion ends what the call used, and the budget is checked.
LEMMA UsedGrow ==
  ASSUME IInv, NEW l, NEW e, GrowAs(l, e)
  PROVE  UsedInv'
<1>1. Lists(lru, Below(node)) /\ Root \in DOMAIN node /\ IsFiniteSet(W1)
  BY InvTypes DEF IInv, BooksInv
<1>2. /\ Tree(node') /\ Paths(node')[l] = query
      /\ \A n \in DOMAIN node : Paths(node')[n] = Paths(node)[n]
      /\ DOMAIN node' = DOMAIN node \cup {l} /\ node'[l].parent = curr
      /\ l \in Nat \ DOMAIN node /\ curr \in DOMAIN node
      /\ path = Paths(node)[curr]
      /\ Held(node') = Held(node) \cup SpotsAt(node', l)
      /\ \A S : S \subseteq Held(node) /\ WholeIn(node, S) => WholeIn(node', S)
  BY GrowFacts
<1>3. /\ op \in {"commit", "insert"} /\ op' = "evict" /\ used' = used /\ lru' = MarkUsed(lru, l)
      /\ path' = query
  BY DEF GrowAs
<1>4. /\ WP = Stems(Paths(node)[node'[l].parent]) /\ WP' = Stems(Paths(node')[l])
      /\ W1' = W1 /\ W2' = W2
  BY <1>2, <1>3 DEF WP, W1, W2
<1>5. ASSUME NEW S, Ahead(lru, On(node, WP \cup S))
      PROVE  Ahead(lru', On(node', WP' \cup S))
  <2>1. Ahead(lru, On(node, Stems(Paths(node)[node'[l].parent]) \cup S))
    BY <1>4, <1>5
  <2>2. Ahead(MarkUsed(lru, l), On(node', Stems(Paths(node')[l]) \cup S))
    BY <1>1, <1>2, <2>1, MarkNew
  <2> QED BY <1>3, <1>4, <2>2
<1>6. Ahead(lru', On(node', WP')) /\ Ahead(lru', On(node', WP' \cup W1'))
  <2>1. WP \cup {} = WP /\ WP' \cup {} = WP'
    OBVIOUS
  <2>2. Ahead(lru, On(node, WP)) /\ Ahead(lru, On(node, WP \cup W1))
    BY DEF IInv, UsedInv
  <2>3. Ahead(lru', On(node', WP' \cup {}))
    BY <1>5, <2>1, <2>2
  <2> QED BY <1>4, <1>5, <2>1, <2>2, <2>3
<1>7. l \in DOMAIN node'
  BY <1>2
<1>8. WholeIn(node', WP')
  BY <1>2, <1>4, <1>7, WholePath
<1>9. WP' \subseteq Held(node')
  <2>1. \A n \in DOMAIN node' : Stems(Paths(node')[n]) \subseteq Held(node')
    BY <1>2, HeldClosed
  <2> QED BY <1>4, <1>7, <2>1
<1>10. Cardinality(W1) <= Capacity => WholeIn(node, W1) /\ W1 \subseteq Held(node)
  BY <1>3 DEF IInv, UsedInv, Kept
<1>11. Cardinality(W1') <= Capacity => WholeIn(node', W1')
  BY <1>2, <1>4, <1>10
<1>12. Kept(WP)' /\ Kept(WP \cup W1)'
  <2>1. ASSUME Cardinality(WP' \cup W1) <= Capacity PROVE W1 \subseteq Held(node')
    <3>1. IsFiniteSet(WP')
      <4>1. WP' = Stems(query) /\ query \in Seq(Tokens)
        BY <1>2, <1>4, InvTypes
      <4> QED BY <4>1, StemsFinite
    <3>2. Cardinality(W1) <= Capacity
      BY <1>1, <2>1, <3>1, FitsBoth
    <3> QED BY <1>2, <1>10, <3>2
  <2> QED BY <1>4, <1>9, <2>1 DEF Kept
<1>13. path' # NoUse
  BY <1>3 DEF IInv, CallInv, NoUse
<1>14. used' \in Seq(Tokens) \X Seq(Tokens)
  BY <1>3 DEF IInv, UsedInv
<1> QED BY <1>3, <1>6, <1>8, <1>11, <1>12, <1>13, <1>14 DEF UsedInv

\* So does a commit that had nothing to insert.
LEMMA UsedNothing ==
  ASSUME IInv, NothingToAdd
  PROVE  UsedInv'
<1>1. /\ op \in {"commit", "insert"} /\ op' = "evict" /\ i = Len(query)
      /\ UNCHANGED <<node, lru, bytes, path, query, curr, i, found, used>>
  BY DEF NothingToAdd
<1>2. WP' = WP /\ W1' = W1 /\ W2' = W2
  BY <1>1 DEF WP, W1, W2
<1>3. query \in Seq(Tokens) /\ IsFiniteSet(WP) /\ IsFiniteSet(W1)
  BY InvTypes
<1>4. path # NoUse
  <2>1. path = SubSeq(query, 1, i) /\ query # <<>>
    BY <1>1 DEF IInv, CallInv
  <2>2. SubSeq(query, 1, Len(query)) = query
    BY <1>3
  <2> QED BY <1>1, <2>1, <2>2 DEF NoUse
<1>5. WP \subseteq Held(node) /\ Kept(W1)
  BY <1>1 DEF IInv, UsedInv
<1>6. ASSUME Cardinality(WP \cup W1) <= Capacity PROVE W1 \subseteq Held(node)
  <2>1. Cardinality(W1) <= Capacity
    BY <1>3, <1>6, FitsBoth
  <2> QED BY <1>5, <2>1 DEF Kept
<1>7. Kept(WP)' /\ Kept(WP \cup W1)'
  BY <1>1, <1>2, <1>5, <1>6 DEF Kept
<1> QED BY <1>1, <1>2, <1>4, <1>7 DEF IInv, UsedInv

\* An eviction spares what both calls used, if the budget holds it.
LEMMA UsedPrune ==
  ASSUME IInv, NEW l, PruneAs(l)
  PROVE  UsedInv'
<1>1. /\ Tree(node) /\ Lists(lru, Below(node)) /\ bytes = Cardinality(Held(node))
      /\ Closed(WP) /\ Closed(W1) /\ IsFiniteSet(WP) /\ IsFiniteSet(W1) /\ Capacity \in Nat
  BY InvTypes DEF IInv, BooksInv
<1>2. /\ op = "evict" /\ bytes > Capacity /\ l = OldestLeaf /\ l \in Below(node)
      /\ lru' = RemoveFirst(lru, l)
      /\ UNCHANGED <<op, query, curr, i, found, path, used>>
  BY DEF PruneAs
<1>3. /\ Tree(node') /\ DOMAIN node' = DOMAIN node \ {l}
      /\ \A n \in DOMAIN node' : Paths(node')[n] = Paths(node)[n]
      /\ Held(node') = Held(node) \ SpotsAt(node, l)
      /\ \A S : WholeIn(node, S) => WholeIn(node', S)
  BY PruneFacts
<1>4. WP' = WP /\ W1' = W1 /\ W2' = W2
  BY <1>2 DEF WP, W1, W2
<1>5. \A R : Ahead(lru, On(node, R)) => Ahead(lru', On(node', R))
  <2>1. \A R : Ahead(lru, On(node, R)) => Ahead(RemoveFirst(lru, l), On(node', R))
    BY <1>1, <1>2, <1>3, TakeOff
  <2> QED BY <1>2, <2>1
<1>6. ASSUME NEW R, Closed(R), IsFiniteSet(R), WholeIn(node, R), Ahead(lru, On(node, R)),
             Cardinality(R) <= Capacity, R \subseteq Held(node)
      PROVE  R \subseteq Held(node')
  <2>1. ASSUME NEW S, IsFiniteSet(S), Cardinality(S) <= Capacity PROVE ~(Held(node) \subseteq S)
    <3>1. SUFFICES ASSUME Held(node) \subseteq S PROVE FALSE
      OBVIOUS
    <3>2. Held(node) \in SUBSET S
      BY <3>1
    <3>3. Cardinality(Held(node)) <= Cardinality(S)
      BY <2>1, <3>2, FS_Subset
    <3>4. Cardinality(Held(node)) \in Nat /\ Cardinality(S) \in Nat
      BY <1>1, <2>1, LengthsHeld, FS_CardinalityType
    <3> QED BY <1>1, <1>2, <2>1, <3>3, <3>4
  <2>2. ~(Held(node) \subseteq {})
    BY <1>1, <2>1, FS_EmptySet
  <2>3. ~(Held(node) \subseteq R)
    BY <1>6, <2>1
  <2>4. l \notin On(node, R)
    BY <1>1, <1>2, <1>6, <2>2, <2>3, OldestIs
  <2>5. \A j \in 1 .. Len(node[l].prefix) : At(node, l, j) \notin R
    BY <1>1, <1>2, <1>6, <2>4, NoneOf
  <2>6. R \cap SpotsAt(node, l) = {}
    BY <2>5 DEF SpotsAt
  <2> QED BY <1>3, <1>6, <2>6
<1>7. /\ Ahead(lru, On(node, WP)) /\ Ahead(lru, On(node, WP \cup W1)) /\ WholeIn(node, WP)
      /\ Cardinality(W1) <= Capacity => WholeIn(node, W1)
      /\ path # NoUse /\ Kept(WP) /\ Kept(WP \cup W1)
      /\ used \in Seq(Tokens) \X Seq(Tokens)
  BY <1>2 DEF IInv, UsedInv
<1>8. Kept(WP)'
  <2>1. ASSUME Cardinality(WP) <= Capacity PROVE WP \subseteq Held(node')
    BY <1>1, <1>6, <1>7, <2>1 DEF Kept
  <2> QED BY <1>4, <2>1 DEF Kept
<1>9. Kept(WP \cup W1)'
  <2>1. ASSUME Cardinality(WP \cup W1) <= Capacity PROVE WP \cup W1 \subseteq Held(node')
    <3>1. Cardinality(W1) <= Capacity
      BY <1>1, <2>1, FitsBoth
    <3>2. WholeIn(node, WP \cup W1) /\ Closed(WP \cup W1)
      BY <1>1, <1>7, <3>1, BothWhole, BothClosed
    <3>3. IsFiniteSet(WP \cup W1)
      BY <1>1, FS_Union
    <3>4. WP \cup W1 \subseteq Held(node)
      BY <1>7, <2>1 DEF Kept
    <3> QED BY <1>6, <1>7, <2>1, <3>2, <3>3, <3>4
  <2> QED BY <1>4, <2>1 DEF Kept
<1>10. /\ Ahead(lru', On(node', WP')) /\ Ahead(lru', On(node', WP' \cup W1'))
       /\ WholeIn(node', WP')
       /\ Cardinality(W1') <= Capacity => WholeIn(node', W1')
  BY <1>3, <1>4, <1>5, <1>7
<1> QED BY <1>2, <1>7, <1>8, <1>9, <1>10 DEF UsedInv

\* A call that begins, a lookup that ends and a stutter use nothing.
LEMMA UsedOther ==
  ASSUME IInv,
         \/ \E tokens \in Queries : Begin(tokens, "find")
         \/ \E tokens \in Queries \ {<<>>} : Begin(tokens, "commit")
         \/ FindNoMore
         \/ UNCHANGED vars
  PROVE  UsedInv'
<1>1. /\ UNCHANGED <<node, lru, bytes, path, used>>
      /\ op' = op \/ (op # "evict" /\ op' # "evict")
  BY DEF Begin, FindNoMore, vars
<1>2. WP' = WP /\ W1' = W1 /\ W2' = W2
  BY <1>1 DEF WP, W1, W2
<1> QED BY <1>1, <1>2 DEF IInv, UsedInv, Kept

\* A return makes the call the last one.
LEMMA UsedReturn ==
  ASSUME IInv, FindReturn \/ CommitReturn
  PROVE  UsedInv'
<1>1. /\ Return /\ UNCHANGED <<node, lru, bytes>>
      /\ op \in {"found", "evict"}
  BY DEF FindReturn, CommitReturn
<1>2. /\ op' = "none" /\ path' = <<>> /\ node' = node /\ lru' = lru
      /\ used' = IF path = <<>> THEN used ELSE <<path, used[1]>>
  BY <1>1 DEF Return, NoUse
<1>3. WP' = {}
  BY <1>2, NoStems DEF WP
<1>4. /\ IsFiniteSet(WP) /\ IsFiniteSet(W1) /\ path \in Seq(Tokens)
  BY InvTypes DEF IInv, CallInv
<1>5. /\ Ahead(lru, On(node, WP)) /\ Ahead(lru, On(node, WP \cup W1)) /\ WholeIn(node, WP)
      /\ used \in Seq(Tokens) \X Seq(Tokens)
  BY DEF IInv, UsedInv
<1>6. Cardinality(W1) <= Capacity => WholeIn(node, W1)
  BY DEF IInv, UsedInv
<1>7. op # "evict" => WP \subseteq Held(node) /\ Kept(W1) /\ Kept(W1 \cup W2)
  BY DEF IInv, UsedInv
<1>8. op = "evict" => path # <<>> /\ Kept(WP) /\ Kept(WP \cup W1)
  BY DEF IInv, UsedInv, NoUse
<1>9. Ahead(lru', On(node', WP')) /\ WholeIn(node', WP') /\ WP' \subseteq Held(node')
  BY <1>3 DEF Ahead, On, WholeIn
<1>10. CASE path = <<>>
  <2>1. WP = {} /\ W1' = W1 /\ W2' = W2 /\ used' = used /\ op # "evict"
    BY <1>2, <1>8, <1>10, NoStems DEF WP, W1, W2
  <2>2. Ahead(lru', On(node', WP' \cup W1'))
    BY <1>2, <1>3, <1>5, <2>1
  <2>3. Kept(W1)' /\ Kept(W1 \cup W2)'
    BY <1>2, <1>7, <2>1 DEF Kept
  <2> QED BY <1>2, <1>5, <1>6, <1>9, <2>1, <2>2, <2>3 DEF UsedInv
<1>11. CASE path # <<>>
  <2>1. used' = <<path, used[1]>>
    BY <1>2, <1>11
  <2>2. W1' = WP /\ W2' = W1
    BY <2>1 DEF WP, W1, W2
  <2>3. WP' \cup W1' = WP
    BY <1>3, <2>2
  <2>4. Ahead(lru', On(node', WP' \cup W1'))
    BY <1>2, <1>5, <2>3
  <2>5. Kept(WP) /\ Kept(WP \cup W1)
    <3>1. CASE op = "found"
      <4>1. WP \subseteq Held(node) /\ Kept(W1)
        BY <1>7, <3>1
      <4>2. ASSUME Cardinality(WP \cup W1) <= Capacity PROVE W1 \subseteq Held(node)
        <5>1. Cardinality(W1) <= Capacity
          BY <1>4, <4>2, FitsBoth
        <5> QED BY <4>1, <5>1 DEF Kept
      <4> QED BY <4>1, <4>2 DEF Kept
    <3> QED BY <1>1, <1>8, <3>1
  <2>6. Kept(W1)' /\ Kept(W1 \cup W2)'
    BY <1>2, <2>2, <2>5 DEF Kept
  <2>7. used' \in Seq(Tokens) \X Seq(Tokens)
    BY <1>4, <1>5, <2>1
  <2>8. Cardinality(W1') <= Capacity => WholeIn(node', W1')
    BY <1>2, <1>5, <2>2
  <2> QED BY <1>2, <1>9, <2>4, <2>6, <2>7, <2>8 DEF UsedInv
<1> QED BY <1>10, <1>11

-----------------------------------------------------------------------------
(* The invariant.                                                          *)

\* The empty cache.
LEMMA InitHolds ==
  ASSUME Init
  PROVE  IInv
<1>1. /\ node = [n \in {Root} |-> NoNode]
      /\ lru = <<>> /\ bytes = 0
      /\ op = "none" /\ query = <<>> /\ curr = Root /\ i = 0 /\ found = <<>>
      /\ path = <<>> /\ used = <<<<>>, <<>>>>
  BY DEF Init, NoUse
<1>2. DOMAIN node = {Root} /\ Below(node) = {} /\ node[Root] = NoNode
  BY <1>1 DEF Below
<1>3. NoNode \in NodeType /\ NoNode.prefix = <<>> /\ DOMAIN NoNode.children = {}
  <2>1. <<>> \in UNION {[T -> Nat] : T \in SUBSET Tokens}
    <3>1. <<>> \in [{} -> Nat]
      OBVIOUS
    <3> QED BY <3>1
  <2>2. <<>> \in Seq(Tokens) /\ <<>> \in Seq(Seq(Tokens)) /\ Root \in Nat
    BY DEF Root
  <2>3. NoNode \in NodeType
    BY <2>1, <2>2 DEF NoNode, NodeType
  <2>4. NoNode.prefix = <<>> /\ NoNode.children = <<>>
    BY DEF NoNode
  <2>5. DOMAIN <<>> = {}
    OBVIOUS
  <2> QED BY <2>3, <2>4, <2>5
<1>4. Typed(node)
  <2>1. DOMAIN node \in SUBSET Nat /\ Root \in DOMAIN node
    BY <1>2 DEF Root
  <2>2. IsFiniteSet(DOMAIN node)
    BY <1>2, FS_Singleton
  <2>3. node \in [DOMAIN node -> NodeType]
    BY <1>1, <1>2, <1>3
  <2>4. node[Root].prefix = <<>>
    BY <1>2, <1>3
  <2> QED BY <2>1, <2>2, <2>3, <2>4 DEF Typed
<1>5. Joined(node)
  BY <1>2, <1>3 DEF Joined
<1>6. Ranked(node)
  <2>1. PICK r : r = [n \in DOMAIN node |-> 0]
    OBVIOUS
  <2>2. Ranks(node, 0, r)
    BY <1>2, <2>1 DEF Ranks
  <2> QED BY <2>2 DEF Ranked
<1>7. Tree(node)
  BY <1>4, <1>5, <1>6 DEF Tree
<1>8. Held(node) = {}
  BY <1>2 DEF Held, IsSpot
<1>9. BooksInv
  <2>1. Lists(lru, Below(node))
    <3>1. lru \in Seq(Below(node)) /\ Len(lru) = 0
      <4>1. <<>> \in Seq(Below(node)) /\ Len(<<>>) = 0
        OBVIOUS
      <4> QED BY <1>1, <4>1
    <3>2. 1 .. Len(lru) = {}
      BY <3>1
    <3> QED BY <1>2, <3>1, <3>2 DEF Lists
  <2>2. bytes = Cardinality(Held(node))
    BY <1>1, <1>8, FS_EmptySet
  <2> QED BY <1>7, <2>1, <2>2 DEF BooksInv
<1>10. CallInv
  <2>1. Len(query) = 0 /\ i \in 0 .. Len(query) /\ path \in Seq(Tokens)
    BY <1>1
  <2> QED BY <1>1, <1>2, <2>1 DEF CallInv
<1>11. UsedInv
  <2>1. WP = {} /\ W1 = {} /\ W2 = {}
    BY <1>1, NoStems DEF WP, W1, W2
  <2>2. used \in Seq(Tokens) \X Seq(Tokens)
    <3>1. <<>> \in Seq(Tokens)
      OBVIOUS
    <3>2. used = <<<<>>, <<>>>>
      BY <1>1
    <3>3. \A x, y \in Seq(Tokens) : <<x, y>> \in Seq(Tokens) \X Seq(Tokens)
      OBVIOUS
    <3> QED BY <3>1, <3>2, <3>3
  <2>3. \A R : On(node, R) = {}
    BY <1>2 DEF On
  <2>4. \A R : Ahead(lru, On(node, R))
    BY <2>3 DEF Ahead
  <2>5. \A R : WholeIn(node, R)
    BY <1>2 DEF WholeIn
  <2>6. Kept(W1) /\ Kept(W1 \cup W2)
    BY <2>1 DEF Kept
  <2> QED BY <1>1, <2>1, <2>2, <2>4, <2>5, <2>6 DEF UsedInv
<1> QED BY <1>9, <1>10, <1>11 DEF IInv

\* The other steps leave tree, list and count.
LEMMA BooksOther ==
  ASSUME IInv,
         \/ \E tokens \in Queries : Begin(tokens, "find")
         \/ \E tokens \in Queries \ {<<>>} : Begin(tokens, "commit")
         \/ FindNoMore \/ FindReturn \/ CommitReturn
         \/ NothingToAdd
         \/ UNCHANGED vars
  PROVE  BooksInv'
<1>1. UNCHANGED <<node, lru, bytes>>
  BY DEF Begin, FindNoMore, FindReturn, CommitReturn, NothingToAdd, vars
<1> QED BY <1>1 DEF IInv, BooksInv

\* Every step keeps it.
LEMMA NextKeeps ==
  ASSUME IInv, [Next]_vars
  PROVE  IInv'
<1>1. CASE FindStep \/ CommitDescend
  <2>1. StepAs(Child, Match)
    BY <1>1, StepIs
  <2> QED BY <2>1, BooksStep, CallStep, UsedStep DEF IInv
<1>2. CASE CommitSplit
  <2>1. SplitAs(Child, Match, Fresh(DOMAIN node))
    BY <1>2, SplitStepIs
  <2> QED BY <2>1, BooksSplit, CallSplit, UsedSplit DEF IInv
<1>3. CASE CommitInsert
  <2>1. NothingToAdd \/ \E l, e : GrowAs(l, e)
    BY <1>3, InsertIs
  <2>2. CallInv'
    BY <2>1, CallGrow
  <2>3. BooksInv'
    BY <2>1, BooksGrow, BooksOther
  <2>4. UsedInv'
    BY <2>1, UsedGrow, UsedNothing
  <2> QED BY <2>2, <2>3, <2>4 DEF IInv
<1>4. CASE EvictLeaf
  <2>1. PruneAs(OldestLeaf)
    BY <1>4, EvictIs
  <2>2. CallInv'
    BY <2>1, CallOther
  <2> QED BY <2>1, <2>2, BooksPrune, UsedPrune DEF IInv
<1>5. CASE FindReturn \/ CommitReturn
  BY <1>5, BooksOther, CallOther, UsedReturn DEF IInv
<1>6. CASE \/ \E tokens \in Queries : Begin(tokens, "find")
           \/ \E tokens \in Queries \ {<<>>} : Begin(tokens, "commit")
           \/ FindNoMore \/ UNCHANGED vars
  BY <1>6, BooksOther, CallOther, UsedOther DEF IInv
<1> QED BY <1>1, <1>2, <1>3, <1>4, <1>5, <1>6 DEF Next, Find, Commit

\* The invariant holds in every reachable state of the cache, whatever is
\* looked up and committed (src/semantic_cache.cpp:11-221).
THEOREM Inductive == Spec => []IInv
<1>1. Init => IInv
  BY InitHolds
<1>2. IInv /\ [Next]_vars => IInv'
  BY NextKeeps
<1> QED BY <1>1, <1>2, PTL DEF Spec

-----------------------------------------------------------------------------
(* What follows from it.                                                   *)

\* The types are part of the invariant.
LEMMA TypesFollow == IInv => TypeOK
<1> SUFFICES ASSUME IInv PROVE TypeOK
  OBVIOUS
<1>1. /\ Tree(node) /\ Lists(lru, Below(node)) /\ bytes = Cardinality(Held(node))
  BY DEF IInv, BooksInv
<1>2. Nodes = Below(node)
  BY DEF Nodes, Below
<1>3. bytes \in Nat
  BY <1>1, LengthsHeld
<1>4. \A n \in Nodes : /\ node[n].prefix \in Seq(Tokens) \ {<<>>}
                       /\ Len(node[n].rows) = Len(node[n].prefix)
                       /\ node[n].parent \in DOMAIN node
  <2>1. \A n \in Below(node) : /\ n \in DOMAIN node /\ node[n].prefix # <<>>
                               /\ Len(node[n].rows) = Len(node[n].prefix)
                               /\ node[n].parent \in DOMAIN node
    BY <1>1, PathsFacts
  <2>2. \A n \in DOMAIN node : node[n].prefix \in Seq(Tokens)
    BY <1>1, PathsFacts
  <2> QED BY <1>2, <2>1, <2>2
<1>5. lru \in Seq(Nodes)
  BY <1>1, <1>2 DEF Lists
<1> QED BY <1>3, <1>4, <1>5 DEF TypeOK, IInv, CallInv

\* The byte count is the sum of the nodes' lengths.
LEMMA SumIs == MapThenSumSet(LAMBDA n : Len(node[n].prefix), Nodes) = Lengths(node, Below(node))
  BY DEF Lengths, Nodes, Below, MapThenSumSet, MapThenFoldSet

\* The books agree: a tree whose list has each node once.
LEMMA BooksFollow == IInv => BooksAgree
<1> SUFFICES ASSUME IInv PROVE BooksAgree
  OBVIOUS
<1>1. /\ Tree(node) /\ Lists(lru, Below(node)) /\ bytes = Cardinality(Held(node))
  BY DEF IInv, BooksInv
<1>2. Nodes = Below(node)
  BY DEF Nodes, Below
<1>3. \A n \in Nodes : /\ node[n].prefix[1] \in DOMAIN node[node[n].parent].children
                       /\ node[node[n].parent].children[node[n].prefix[1]] = n
  BY <1>1, <1>2 DEF Tree, Joined, IsJoined
<1>4. \A n \in DOMAIN node : Range(node[n].children) \subseteq Nodes
  BY <1>1, <1>2 DEF Tree, Joined, IsParent, Range
<1>5. ToSet(lru) = Nodes /\ Len(lru) = Cardinality(Nodes)
  BY <1>1, <1>2, ListCount
<1>6. bytes = MapThenSumSet(LAMBDA n : Len(node[n].prefix), Nodes)
  <2>1. bytes = Lengths(node, Below(node))
    BY <1>1, LengthsHeld
  <2> QED BY <2>1, SumIs
<1> QED BY <1>3, <1>4, <1>5, <1>6 DEF BooksAgree

\* Between calls the invariant keeps what the last two used.
LEMMA RecentFollows == IInv => RecentKept
<1> SUFFICES ASSUME IInv, op = "none", Cardinality(Stems(used[1]) \cup Stems(used[2])) <= Capacity
             PROVE  Stems(used[1]) \cup Stems(used[2]) \subseteq DOMAIN Rows
  BY DEF RecentKept
<1>1. DOMAIN Rows = Held(node)
  BY InvTypes, RowsIs, RowsInIs
<1>2. Kept(W1 \cup W2)
  BY DEF IInv, UsedInv
<1> QED BY <1>1, <1>2 DEF Kept, W1, W2

\* TypeOK: the cache keeps its types; no node below the root is empty, and each
\* has a row for every token (src/semantic_cache.cpp:11-57, 117-187).
THEOREM Typing == Spec => []TypeOK
  BY Inductive, TypesFollow, PTL

\* BooksAgree: whatever is split, inserted and evicted, every node is its
\* parent's child, stands once in the LRU list, and current_bytes_ counts the
\* nodes there are (src/semantic_cache.cpp:11-57, 149-187, 211-214).
THEOREM BooksKept == Spec => []BooksAgree
  BY Inductive, BooksFollow, PTL

\* RecentKept: eviction never takes what the last two calls used while the
\* budget holds both, though a split puts nodes above older ones
\* (include/llm/semantic_cache.h:8-9, src/semantic_cache.cpp:189-221).
THEOREM RecentStays == Spec => []RecentKept
  BY Inductive, RecentFollows, PTL

-----------------------------------------------------------------------------
(* The cache implements the store.                                         *)

\* The store's phase, by where the call is.
PhaseFor(o) == CASE o = "none" -> "idle"
                 [] o = "find" -> "finding"
                 [] o = "found" -> "found"
                 [] o \in {"commit", "insert"} -> "adding"
                 [] o = "evict" -> "trimming"

\* The store's phase in each place of a call.
LEMMA Phases ==
  /\ PhaseFor("none") = "idle" /\ PhaseFor("find") = "finding" /\ PhaseFor("found") = "found"
  /\ PhaseFor("commit") = "adding" /\ PhaseFor("insert") = "adding" /\ PhaseFor("evict") = "trimming"
  BY DEF PhaseFor

\* Phase follows op.
LEMMA PhaseIs == Phase = PhaseFor(op) /\ Phase' = PhaseFor(op')
  BY DEF Phase, PhaseFor

\* The store's answer is what a lookup found.
LEMMA AnswerIs ==
  /\ Answer = IF op = "found" THEN found ELSE <<>>
  /\ Answer' = IF op' = "found" THEN found' ELSE <<>>
  BY DEF Answer

\* The rows of the next tree.
LEMMA RowsNext == Rows' = RowsIn(node')
<1>1. PathOf' = Paths(node')
  BY DEF PathOf, Paths, IsPaths
<1> QED BY <1>1 DEF Rows, RowsIn, SpotsOf, At, Nodes, Below

\* The store's operators are the cache's.
LEMMA SameHeldRows == \A r, q : Store!HeldRows(r, q) = HeldRows(r, q)
  BY DEF Store!HeldRows, Store!HeldLength, Store!Stems, HeldRows, HeldLength, Stems, Store!Prefixes, Prefixes

\* The store's stems are the cache's,
LEMMA SameStems == \A q : Store!Stems(q) = Stems(q)
  BY DEF Store!Stems, Stems, Store!Prefixes, Prefixes

\* and so are its closed sets.
LEMMA SameClosed == \A S : Store!Closed(S) <=> Closed(S)
  BY SameStems DEF Store!Closed, Closed

\* A commit adds all of its tokens, with the caller's rows.
LEMMA GrowAdds ==
  ASSUME IInv, NEW l, NEW e, GrowAs(l, e)
  PROVE  RowsIn(node') = Store!Remember(RowsIn(node), query, Store!RowsOf(query))
<1>1. /\ Tree(node) /\ query \in Seq(Tokens) /\ i \in 0 .. Len(query) /\ i \in Nat /\ Len(query) \in Nat
  BY InvTypes
<1>2. /\ Tree(node') /\ Paths(node')[l] = query
      /\ \A n \in DOMAIN node : Paths(node')[n] = Paths(node)[n]
      /\ node'[l].parent = curr /\ l \in Below(node') /\ curr \in DOMAIN node
      /\ Held(node') = Held(node) \cup SpotsAt(node', l)
      /\ Len(node'[l].prefix) = Len(query) - i
      /\ \A x \in Held(node) : RowsIn(node')[x] = RowsIn(node)[x]
  BY GrowFacts
<1>3. \A j \in 1 .. Len(node'[l].prefix) :
        /\ At(node', l, j) = SubSeq(query, 1, i + j)
        /\ RowsIn(node')[At(node', l, j)] = SubSeq(query, 1, i + j)
  BY GrowFacts
<1>4. Held(node') = Held(node) \cup Stems(query)
  <2>1. \A n \in Below(node') :
          Stems(Paths(node')[n]) = Stems(Paths(node')[node'[n].parent]) \cup SpotsAt(node', n)
    BY <1>2, StemsOfPath DEF SpotsAt
  <2>2. Stems(query) = Stems(Paths(node)[curr]) \cup SpotsAt(node', l)
    BY <1>2, <2>1
  <2>3. \A n \in DOMAIN node : Stems(Paths(node)[n]) \subseteq Held(node)
    BY <1>1, HeldClosed
  <2> QED BY <1>2, <2>2, <2>3
<1>5. ASSUME NEW s \in SpotsAt(node', l)
      PROVE  RowsIn(node')[s] = s /\ Store!RowsOf(query)[Len(s)] = s
  <2>1. PICK j \in 1 .. Len(node'[l].prefix) : s = At(node', l, j)
    BY DEF SpotsAt
  <2>2. i + j \in 0 .. Len(query) /\ i + j \in 1 .. Len(query)
    BY <1>1, <1>2
  <2>3. s = SubSeq(query, 1, i + j) /\ RowsIn(node')[s] = SubSeq(query, 1, i + j)
    BY <1>3, <2>1
  <2>4. Len(SubSeq(query, 1, i + j)) = i + j
    BY <1>1, <2>2, CutIs
  <2>5. Store!RowsOf(query)[i + j] = SubSeq(query, 1, i + j)
    BY <2>2 DEF Store!RowsOf
  <2> QED BY <2>3, <2>4, <2>5
<1>6. /\ DOMAIN RowsIn(node) = Held(node)
      /\ RowsIn(node') = [s \in Held(node') |-> RowsIn(node')[s]]
  BY <1>1, <1>2, RowsInIs
<1>7. \A s \in Held(node') :
        RowsIn(node')[s] = IF s \in Held(node) THEN RowsIn(node)[s] ELSE Store!RowsOf(query)[Len(s)]
  BY <1>2, <1>5
<1>8. Store!Remember(RowsIn(node), query, Store!RowsOf(query))
        = [s \in Held(node') |-> IF s \in Held(node) THEN RowsIn(node)[s] ELSE Store!RowsOf(query)[Len(s)]]
  BY <1>4, <1>6, SameStems DEF Store!Remember
<1> QED BY <1>6, <1>7, <1>8

\* So does one that had nothing to add.
LEMMA NothingAdds ==
  ASSUME IInv, NothingToAdd
  PROVE  RowsIn(node) = Store!Remember(RowsIn(node), query, Store!RowsOf(query))
<1>1. Tree(node) /\ query \in Seq(Tokens) /\ op \in {"commit", "insert"} /\ i = Len(query)
  BY InvTypes DEF NothingToAdd
<1>2. Stems(query) \subseteq Held(node)
  <2>1. curr \in DOMAIN node /\ Paths(node)[curr] = SubSeq(query, 1, Len(query))
    BY <1>1, PassedHeld
  <2>2. SubSeq(query, 1, Len(query)) = query
    BY <1>1
  <2>3. \A n \in DOMAIN node : Stems(Paths(node)[n]) \subseteq Held(node)
    BY <1>1, HeldClosed
  <2> QED BY <2>1, <2>2, <2>3
<1>3. /\ DOMAIN RowsIn(node) = Held(node)
      /\ RowsIn(node) = [s \in Held(node) |-> RowsIn(node)[s]]
  BY <1>1, RowsInIs
<1>4. Held(node) \cup Stems(query) = Held(node)
  BY <1>2
<1>5. Store!Remember(RowsIn(node), query, Store!RowsOf(query))
        = [s \in Held(node) |-> IF s \in Held(node) THEN RowsIn(node)[s] ELSE Store!RowsOf(query)[Len(s)]]
  BY <1>3, <1>4, SameStems DEF Store!Remember
<1> QED BY <1>3, <1>5

\* Eviction forgets a whole end.
LEMMA PruneForgets ==
  ASSUME IInv, NEW l, PruneAs(l)
  PROVE  Store!Forgets(RowsIn(node), RowsIn(node'))
<1>1. Tree(node)
  BY InvTypes
<1>2. /\ Tree(node') /\ Held(node') = Held(node) \ SpotsAt(node, l)
      /\ \A s \in Held(node') : RowsIn(node')[s] = RowsIn(node)[s]
  BY PruneFacts
<1>3. DOMAIN RowsIn(node) = Held(node)
  BY <1>1, RowsInIs
<1>4. DOMAIN RowsIn(node') = Held(node') /\ RowsIn(node') = [s \in Held(node') |-> RowsIn(node')[s]]
  BY <1>2, RowsInIs
<1>5. Closed(Held(node'))
  BY <1>2, HeldClosed
<1>6. RowsIn(node') = Restrict(RowsIn(node), Held(node'))
  BY <1>2, <1>4 DEF Restrict
<1> QED BY <1>2, <1>3, <1>4, <1>5, <1>6, SameClosed DEF Store!Forgets, Store!Restrict, Restrict

\* What is counted is counted the same.
LEMMA SameCount == \A S : Store!Cardinality(S) = Cardinality(S)
  BY DEF Store!Cardinality, Cardinality

\* The empty cache is the empty store.
LEMMA InitMaps == Init => Store!Init
<1> SUFFICES ASSUME Init PROVE Store!Init
  OBVIOUS
<1>1. IInv
  BY InitHolds
<1>2. Tree(node) /\ bytes = 0 /\ bytes = Cardinality(Held(node)) /\ op = "none" /\ query = <<>>
  BY <1>1 DEF IInv, BooksInv, Init
<1>3. Held(node) = {}
  BY <1>2, LengthsHeld, FS_EmptySet
<1>4. RowsIn(node) = <<>>
  <2>1. RowsIn(node) = [s \in {} |-> RowsIn(node)[s]]
    BY <1>2, <1>3, RowsInIs
  <2>2. [s \in {} |-> RowsIn(node)[s]] = <<>>
    OBVIOUS
  <2> QED BY <2>1, <2>2
<1> QED BY <1>2, <1>4, RowsIs, PhaseIs, Phases, AnswerIs DEF Store!Init

\* The variables of the store that a step of the cache leaves alone.
LEMMA Stutters ==
  ASSUME RowsIn(node') = RowsIn(node), PhaseFor(op') = PhaseFor(op), query' = query,
         op # "found", op' # "found"
  PROVE  UNCHANGED Store!storeVars
  BY RowsIs, RowsNext, PhaseIs, AnswerIs DEF Store!storeVars

\* A call of the cache begins one of the store.
LEMMA BeginMaps ==
  ASSUME IInv, NEW tokens \in Queries, NEW what \in {"find", "commit"}, Begin(tokens, what)
  PROVE  Store!Next
<1>1. /\ op = "none" /\ op' = what /\ query' = tokens /\ node' = node
  BY DEF Begin
<1>2. Rows' = Rows /\ Answer' = Answer
  BY <1>1, RowsIs, RowsNext, AnswerIs
<1>3. CASE what = "find"
  <2>1. Store!Call(tokens, "finding")
    BY <1>1, <1>2, <1>3, PhaseIs, Phases DEF Store!Call
  <2> QED BY <2>1 DEF Store!Next
<1>4. CASE what = "commit"
  <2>1. Store!Call(tokens, "adding")
    BY <1>1, <1>2, <1>4, PhaseIs, Phases DEF Store!Call
  <2> QED BY <2>1 DEF Store!Next
<1> QED BY <1>3, <1>4

\* A step down is a stutter, or the answer.
LEMMA StepMaps ==
  ASSUME IInv, NEW ch, NEW k, StepAs(ch, k)
  PROVE  [Store!Next]_(Store!storeVars)
<1>1. node' = node /\ query' = query /\ op \in {"find", "commit"}
  BY DEF StepAs
<1>2. CASE k = Len(node[ch].prefix)
  <2>1. op' = op
    BY <1>2 DEF StepAs
  <2> QED BY <1>1, <2>1, Stutters
<1>3. CASE k < Len(node[ch].prefix)
  <2>1. found' = HeldRows(RowsIn(node), query) /\ op = "find" /\ op' = "found"
    BY <1>3, PartIsAll
  <2>2. Store!Answer
    BY <1>1, <2>1, RowsIs, RowsNext, PhaseIs, Phases, AnswerIs, SameHeldRows DEF Store!Answer
  <2> QED BY <2>2 DEF Store!Next
<1>4. k = Len(node[ch].prefix) \/ k < Len(node[ch].prefix)
  BY DEF StepAs
<1> QED BY <1>2, <1>3, <1>4

\* A lookup that ends answers with the rows of the longest prefix held.
LEMMA NoMoreMaps ==
  ASSUME IInv, FindNoMore
  PROVE  Store!Next
<1>1. found' = HeldRows(RowsIn(node), query) /\ op = "find" /\ op' = "found"
  BY NoMoreIsAll
<1>2. node' = node /\ query' = query
  BY DEF FindNoMore
<1>3. Store!Answer
  BY <1>1, <1>2, RowsIs, RowsNext, PhaseIs, Phases, AnswerIs, SameHeldRows DEF Store!Answer
<1> QED BY <1>3 DEF Store!Next

\* A node split is nothing the store sees.
LEMMA SplitMaps ==
  ASSUME IInv, NEW ch, NEW k, NEW s, SplitAs(ch, k, s)
  PROVE  [Store!Next]_(Store!storeVars)
<1>1. SameRows(node, node')
  BY SplitFacts
<1>2. op = "commit" /\ op' = "insert" /\ query' = query
  BY DEF SplitAs
<1> QED BY <1>1, <1>2, Phases, Stutters DEF SameRows

\* An insertion adds the query's prefixes.
LEMMA InsertMaps ==
  ASSUME IInv, CommitInsert
  PROVE  Store!Next
<1>1. NothingToAdd \/ \E l, e : GrowAs(l, e)
  BY InsertIs
<1>2. RowsIn(node') = Store!Remember(RowsIn(node), query, Store!RowsOf(query))
  <2>1. CASE NothingToAdd
    <3>1. node' = node
      BY <2>1 DEF NothingToAdd
    <3> QED BY <2>1, <3>1, NothingAdds
  <2>2. CASE \E l, e : GrowAs(l, e)
    BY <2>2, GrowAdds
  <2> QED BY <1>1, <2>1, <2>2
<1>3. op \in {"commit", "insert"} /\ op' = "evict" /\ query' = query
  BY DEF CommitInsert
<1>4. Store!Add
  BY <1>2, <1>3, RowsIs, RowsNext, PhaseIs, Phases, AnswerIs DEF Store!Add
<1> QED BY <1>4 DEF Store!Next

\* An eviction forgets prefixes that no other held one extends.
LEMMA EvictMaps ==
  ASSUME IInv, EvictLeaf
  PROVE  Store!Next
<1>1. PruneAs(OldestLeaf)
  BY EvictIs
<1>2. Store!Forgets(RowsIn(node), RowsIn(node'))
  BY <1>1, PruneForgets
<1>3. op = "evict" /\ op' = "evict" /\ query' = query /\ bytes > Capacity
  BY DEF EvictLeaf
<1>4. Cardinality(DOMAIN RowsIn(node)) = bytes
  <2>1. DOMAIN RowsIn(node) = Held(node)
    BY InvTypes, RowsInIs
  <2> QED BY <2>1 DEF IInv, BooksInv
<1>5. Store!Drop
  BY <1>2, <1>3, <1>4, RowsIs, RowsNext, PhaseIs, Phases, AnswerIs, SameCount DEF Store!Drop
<1> QED BY <1>5 DEF Store!Next

\* A lookup returns, or a commit that is within the budget.
LEMMA ReturnMaps ==
  ASSUME IInv, FindReturn \/ CommitReturn
  PROVE  Store!Next
<1>1. Return /\ node' = node
  BY DEF FindReturn, CommitReturn
<1>2. op' = "none" /\ query' = <<>>
  BY <1>1 DEF Return
<1>3. Store!Return
  BY <1>1, <1>2, RowsIs, RowsNext, PhaseIs, Phases, AnswerIs DEF Store!Return
<1>4. CASE FindReturn
  <2>1. op = "found"
    BY <1>4 DEF FindReturn
  <2>2. Store!Answered
    BY <1>3, <2>1, PhaseIs, Phases DEF Store!Answered
  <2> QED BY <2>2 DEF Store!Next
<1>5. CASE CommitReturn
  <2>1. op = "evict" /\ (bytes <= Capacity \/ lru = <<>>)
    BY <1>5 DEF CommitReturn
  <2>2. /\ Tree(node) /\ Lists(lru, Below(node)) /\ bytes = Cardinality(Held(node)) /\ Capacity \in Nat
    BY InvTypes DEF IInv, BooksInv
  <2>3. bytes <= Capacity
    <3>1. CASE lru = <<>>
      <4>1. Len(lru) = 0
        BY <3>1
      <4>2. Below(node) = {}
        BY <2>2, <4>1 DEF Lists
      <4>3. Held(node) = {}
        BY <4>2 DEF Held, IsSpot
      <4> QED BY <2>2, <4>3, FS_EmptySet
    <3> QED BY <2>1, <3>1
  <2>4. DOMAIN RowsIn(node) = Held(node)
    BY <2>2, RowsInIs
  <2>5. Store!Committed
    BY <1>3, <2>1, <2>2, <2>3, <2>4, RowsIs, PhaseIs, Phases, SameCount DEF Store!Committed
  <2> QED BY <2>5 DEF Store!Next
<1> QED BY <1>4, <1>5

\* Every step of the cache is a step of the store or leaves it alone.
LEMMA NextMaps ==
  ASSUME IInv, [Next]_vars
  PROVE  [Store!Next]_(Store!storeVars)
<1>1. CASE FindStep \/ CommitDescend
  <2>1. StepAs(Child, Match)
    BY <1>1, StepIs
  <2> QED BY <2>1, StepMaps
<1>2. CASE CommitSplit
  <2>1. SplitAs(Child, Match, Fresh(DOMAIN node))
    BY <1>2, SplitStepIs
  <2> QED BY <2>1, SplitMaps
<1>3. CASE CommitInsert
  BY <1>3, InsertMaps
<1>4. CASE EvictLeaf
  BY <1>4, EvictMaps
<1>5. CASE FindReturn \/ CommitReturn
  BY <1>5, ReturnMaps
<1>6. CASE FindNoMore
  BY <1>6, NoMoreMaps
<1>7. CASE \/ \E tokens \in Queries : Begin(tokens, "find")
           \/ \E tokens \in Queries \ {<<>>} : Begin(tokens, "commit")
  BY <1>7, BeginMaps
<1>8. CASE UNCHANGED vars
  <2>1. UNCHANGED <<Rows, Phase, query, Answer>>
    BY <1>8, RowsIs, RowsNext, PhaseIs, AnswerIs DEF vars
  <2> QED BY <2>1 DEF Store!storeVars
<1> QED BY <1>1, <1>2, <1>3, <1>4, <1>5, <1>6, <1>7, <1>8 DEF Next, Find, Commit

\* StoreSpec: the cache implements PrefixStore.  A lookup answers with the rows
\* of the longest prefix held, each token with its own row; a commit adds the
\* prompt's prefixes and ends within the budget; splits and the list do not
\* show (src/semantic_cache.cpp:11-221).
THEOREM Implements == Spec => StoreSpec
<1>1. Init => Store!Init
  BY InitMaps
<1>2. IInv /\ [Next]_vars => [Store!Next]_(Store!storeVars)
  BY NextMaps
<1> QED BY <1>1, <1>2, Inductive, PTL DEF Spec, StoreSpec, Store!Spec

===============================================================================
