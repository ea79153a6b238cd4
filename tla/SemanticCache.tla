--------------------------- MODULE SemanticCache ----------------------------
(***************************************************************************)
(* src/semantic_cache.cpp, include/llm/semantic_cache.h: the radix tree of *)
(* KV rows, its LRU list and its byte count.                               *)
(*                                                                         *)
(* A node is a number, the root 0; the tree is in the fields the code has, *)
(* children by first token and parent, so that the two may disagree.  The  *)
(* mutex is held from call to return; a step is one iteration of a loop.   *)
(* Bytes are counted in tokens, since a node's bytes() is proportional to  *)
(* its length; a row stands for the K and V of one token in all layers,    *)
(* and is the tokens it was computed from.                                 *)
(***************************************************************************)
EXTENDS PrefixRows, FiniteSetsExt

CONSTANTS
  Tokens,    \* the vocabulary
  Capacity,  \* max_budget_bytes_, in tokens
  Queries    \* bound: the prompts looked up and the contexts committed

ASSUME SemanticCacheAssumption ==
  /\ Queries \subseteq Seq(Tokens)
  /\ Capacity \in Nat \ {0}

VARIABLES
  node,    \* the nodes alive, each [prefix, rows, children, parent]
  lru,     \* lru_queue_, the newest first
  bytes,   \* current_bytes_
  op,      \* where the call in progress is, "none" between calls
  query,   \* its tokens
  curr, i, \* its locals
  found,   \* find: the rows of matched_nodes so far
  path,    \* history: the nodes this call has marked used, as tokens
  used     \* history: the paths of the last two calls that marked any

vars == <<node, lru, bytes, op, query, curr, i, found, path, used>>

Root  == 0
NoUse == <<>>

NoNode == [prefix |-> <<>>, rows |-> <<>>, children |-> <<>>, parent |-> Root]

Init ==
  /\ node = [n \in {Root} |-> NoNode]
  /\ lru = <<>> /\ bytes = 0
  /\ op = "none" /\ query = <<>> /\ curr = Root /\ i = 0
  /\ found = <<>>
  /\ path = NoUse /\ used = <<NoUse, NoUse>>

-----------------------------------------------------------------------------
(* The tree and the list.                                                  *)

\* What make_shared returns.
Fresh(from) == Min(0 .. Cardinality(from) \ from)

HasChild == i < Len(query) /\ query[i + 1] \in DOMAIN node[curr].children
Child    == node[curr].children[query[i + 1]]

\* How far the child's prefix agrees with the rest of the query.
Match == Len(LongestCommonPrefix({node[Child].prefix, SubSeq(query, i + 1, Len(query))}))
Whole == Match = Len(node[Child].prefix)

\* f[x] = v, where f may have had no x.
With(f, x, v) == [y \in DOMAIN f \cup {x} |-> IF y = x THEN v ELSE f[y]]

\* Mutant: a node used again goes to the old end.
MarkOldest(list, n) == Append(RemoveFirst(list, n), n)

\* mark_used
MarkUsed(list, n) == <<n>> \o RemoveFirst(list, n)

-----------------------------------------------------------------------------
(* find_longest_prefix.                                                    *)

Begin(tokens, what) ==
  /\ op = "none"
  /\ op' = what
  /\ query' = tokens
  /\ UNCHANGED <<node, lru, bytes, curr, i, found, path, used>>

\* The call marked path, if any node.
Return ==
  /\ op' = "none"
  /\ query' = <<>> /\ curr' = Root /\ i' = 0
  /\ found' = <<>>
  /\ path' = NoUse
  /\ used' = IF path = NoUse THEN used ELSE <<path, used[1]>>

\* Mutant: all rows of a node are copied though only a part of it matches.
FindWholeNodes ==
  /\ op = "find"
  /\ HasChild
  /\ found' = found \o node[Child].rows
  /\ i' = i + Match
  /\ lru' = MarkUsed(lru, Child)
  /\ path' = path \o node[Child].prefix
  /\ curr' = IF Whole THEN Child ELSE curr
  /\ op' = IF Whole THEN "find" ELSE "found"
  /\ UNCHANGED <<node, bytes, query, used>>

FindStep ==
  /\ op = "find"
  /\ HasChild
  /\ found' = found \o SubSeq(node[Child].rows, 1, Match)
  /\ i' = i + Match
  /\ lru' = MarkUsed(lru, Child)
  /\ path' = path \o node[Child].prefix
  /\ curr' = IF Whole THEN Child ELSE curr
  /\ op' = IF Whole THEN "find" ELSE "found"
  /\ UNCHANGED <<node, bytes, query, used>>

FindNoMore ==
  /\ op = "find"
  /\ ~HasChild
  /\ op' = "found"
  /\ UNCHANGED <<node, lru, bytes, query, curr, i, found, path, used>>

FindReturn ==
  /\ op = "found"
  /\ Return
  /\ UNCHANGED <<node, lru, bytes>>

-----------------------------------------------------------------------------
(* commit.                                                                 *)

CommitDescend ==
  /\ op = "commit"
  /\ HasChild
  /\ Whole
  /\ curr' = Child
  /\ i' = i + Match
  /\ lru' = MarkUsed(lru, Child)
  /\ path' = path \o node[Child].prefix
  /\ UNCHANGED <<node, bytes, op, query, found, used>>

\* Mutant: the lower half keeps its link to the node above the split.
CommitSplitOrphan ==
  LET child  == Child
      prefix == node[child].prefix
      split  == Fresh(DOMAIN node)
      upper  == [prefix |-> SubSeq(prefix, 1, Match),
                 rows |-> SubSeq(node[child].rows, 1, Match),
                 children |-> [a \in {prefix[Match + 1]} |-> child],
                 parent |-> curr]
  IN  /\ op = "commit"
      /\ HasChild
      /\ ~Whole
      /\ node' = With([node EXCEPT ![child].prefix = SubSeq(prefix, Match + 1, Len(prefix)),
                                   ![child].rows = SubSeq(@, Match + 1, Len(@)),
                                   ![curr].children = With(@, prefix[1], split)],
                      split, upper)
      /\ lru' = MarkUsed(lru, split)
      /\ path' = path \o upper.prefix
      /\ curr' = split
      /\ i' = i + Match
      /\ op' = "insert"
      /\ UNCHANGED <<bytes, query, found, used>>

\* The child keeps the lower part of its prefix; a new node takes the upper.
\* Their bytes add up to what the child had.
CommitSplit ==
  LET child  == Child
      prefix == node[child].prefix
      split  == Fresh(DOMAIN node)
      upper  == [prefix |-> SubSeq(prefix, 1, Match),
                 rows |-> SubSeq(node[child].rows, 1, Match),
                 children |-> [a \in {prefix[Match + 1]} |-> child],
                 parent |-> curr]
  IN  /\ op = "commit"
      /\ HasChild
      /\ ~Whole
      /\ node' = With([node EXCEPT ![child].prefix = SubSeq(prefix, Match + 1, Len(prefix)),
                                   ![child].rows = SubSeq(@, Match + 1, Len(@)),
                                   ![child].parent = split,
                                   ![curr].children = With(@, prefix[1], split)],
                      split, upper)
      /\ lru' = MarkUsed(lru, split)
      /\ path' = path \o upper.prefix
      /\ curr' = split
      /\ i' = i + Match
      /\ op' = "insert"
      /\ UNCHANGED <<bytes, query, found, used>>

\* The rest of the tokens becomes a leaf, its rows read from the caller's cache.
CommitInsert ==
  LET rest == SubSeq(query, i + 1, Len(query))
      leaf == Fresh(DOMAIN node)
  IN  /\ op = "insert" \/ (op = "commit" /\ ~HasChild)
      /\ op' = "evict"
      /\ IF rest = <<>>
           THEN UNCHANGED <<node, lru, bytes, path>>
           ELSE /\ node' = With([node EXCEPT ![curr].children = With(@, rest[1], leaf)], leaf,
                                [prefix |-> rest,
                                 rows |-> [p \in 1 .. Len(rest) |-> SubSeq(query, 1, i + p)],
                                 children |-> <<>>, parent |-> curr])
                /\ bytes' = bytes + Len(rest)
                /\ lru' = MarkUsed(lru, leaf)
                /\ path' = query
      /\ UNCHANGED <<query, curr, i, found, used>>

Leaves == {n \in ToSet(lru) : node[n].children = <<>>}

\* Mutant: the node furthest back, leaf or not.
OldestNode == lru[Len(lru)]

\* evict_until_fits takes the leaf furthest back in the list.
OldestLeaf == lru[Max({j \in DOMAIN lru : lru[j] \in Leaves})]

\* remove_leaf.  There is always a leaf: the code's fallback is never reached.
EvictLeaf ==
  LET leaf   == OldestLeaf
      parent == node[leaf].parent
  IN  /\ op = "evict"
      /\ bytes > Capacity
      /\ Leaves # {}
      /\ lru' = RemoveFirst(lru, leaf)
      /\ bytes' = bytes - Len(node[leaf].prefix)
      /\ node' = Restrict([node EXCEPT ![parent].children =
                             Restrict(@, DOMAIN @ \ {node[leaf].prefix[1]})],
                          DOMAIN node \ {leaf})
      /\ UNCHANGED <<op, query, curr, i, found, path, used>>

CommitReturn ==
  /\ op = "evict"
  /\ bytes <= Capacity \/ lru = <<>>
  /\ Return
  /\ UNCHANGED <<node, lru, bytes>>

-----------------------------------------------------------------------------
Find   == FindStep \/ FindNoMore \/ FindReturn
Commit == CommitDescend \/ CommitSplit \/ CommitInsert \/ EvictLeaf \/ CommitReturn

Next ==
  \/ \E tokens \in Queries : Begin(tokens, "find")
  \/ \E tokens \in Queries \ {<<>>} : Begin(tokens, "commit")
  \/ Find
  \/ Commit

Spec == Init /\ [][Next]_vars

-----------------------------------------------------------------------------
(* Properties.                                                             *)

Nodes == DOMAIN node \ {Root}

\* The tokens from the root to the end of a node, by the links upward.
PathOf[n \in DOMAIN node] ==
  IF n = Root THEN <<>> ELSE PathOf[node[n].parent] \o node[n].prefix

\* Types; a node below the root is not empty and has a row for each token.
TypeOK ==
  /\ \A n \in Nodes : /\ node[n].prefix \in Seq(Tokens) \ {<<>>}
                      /\ Len(node[n].rows) = Len(node[n].prefix)
                      /\ node[n].parent \in DOMAIN node
  /\ lru \in Seq(Nodes)
  /\ bytes \in Nat
  /\ op \in {"none", "find", "found", "commit", "insert", "evict"}
  /\ query \in Queries \cup {<<>>}
  /\ op # "evict" => curr \in DOMAIN node
  /\ i \in 0 .. Len(query)

\* The tree, the list and the byte count agree after every step: each node is
\* its parent's child and once in the list, and the bytes are those of the
\* nodes (semantic_cache.cpp:11-57, 149-187, 211-214).
BooksAgree ==
  /\ \A n \in Nodes : /\ node[n].prefix[1] \in DOMAIN node[node[n].parent].children
                      /\ node[node[n].parent].children[node[n].prefix[1]] = n
  /\ \A n \in DOMAIN node : Range(node[n].children) \subseteq Nodes
  /\ ToSet(lru) = Nodes /\ Len(lru) = Cardinality(Nodes)
  /\ bytes = MapThenSumSet(LAMBDA n : Len(node[n].prefix), Nodes)

\* The row of every prefix held.
Rows ==
  LET At(n, k) == PathOf[node[n].parent] \o SubSeq(node[n].prefix, 1, k)
      spots    == UNION {{n} \X DOMAIN node[n].prefix : n \in Nodes}
  IN  [s \in {At(x[1], x[2]) : x \in spots} |->
         LET x == CHOOSE y \in spots : At(y[1], y[2]) = s IN node[x[1]].rows[x[2]]]

\* What the last two calls used stays, if the budget holds both: eviction
\* takes the least recently used ends (semantic_cache.h:8-9, "discarding oldest
\* leaves"), though splits put new nodes above old ones.
RecentKept ==
  LET recent == Stems(used[1]) \cup Stems(used[2])
  IN  op = "none" /\ Cardinality(recent) <= Capacity => recent \subseteq DOMAIN Rows

\* The cache implements the abstract store: lookups return the longest prefix
\* held, each token with its own row, and a commit ends within the budget.
Phase == CASE op = "none" -> "idle"
           [] op = "find" -> "finding"
           [] op = "found" -> "found"
           [] op \in {"commit", "insert"} -> "adding"
           [] op = "evict" -> "trimming"

Answer == IF op = "found" THEN found ELSE <<>>

Store == INSTANCE PrefixStore WITH rows <- Rows, phase <- Phase, answer <- Answer
StoreSpec == Store!Spec
=============================================================================
