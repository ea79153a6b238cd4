------------------------------ MODULE Lan_proofs ------------------------------
(***************************************************************************)
(* The two systems that share work or files over a link: the types of Lan  *)
(* and the exactness of the split, for every number of workers and         *)
(* coordinators and every bound, and at the end the Wear transfer.         *)
(*                                                                         *)
(* The argument.  A worker serves one coordinator until their connection   *)
(* is shut, so the rows a coordinator finds at a worker it still has are   *)
(* its own.  One that never timed out has at most one RUN under way, at    *)
(* the worker it waits for, and reads only the answer to it.               *)
(***************************************************************************)
EXTENDS Lan, SequenceTheorems, TLAPS

Rows == {rows \in Seq(Int) : Len(rows) <= MaxCtx}
Pass == [stamp : Nat, start : Nat, n : Nat]

RunOf(start, n, stamp, right, below) ==
  [type |-> "RUN", start |-> start, n |-> n, stamp |-> stamp, right |-> right, below |-> below]
ResultOf(n, stamp, right) ==
  [type |-> "RESULT", n |-> n, stamp |-> stamp, right |-> right]

\* What a frame may be, each way.
Asked == {m \in [type : {"RUN"}, start : Nat, n : Nat, stamp : Nat, right : BOOLEAN,
                 below : Seq(Int)] : m.start + m.n <= MaxCtx}
Calls == {Plain("HELLO"), Plain("BYE")} \cup Asked
Answers == {Plain("HELLO_OK"), Plain("ERROR"), Plain("JUNK")}
             \cup [type : {"RESULT"}, n : Nat, stamp : Nat, right : BOOLEAN]

CoordRec ==
  [pc : {"connect", "hello", "idle", "send", "wait", "gone"}, at : W, pos : Nat,
   rows : Rows, pass : Pass, right : BOOLEAN, owed : SUBSET W, fits : BOOLEAN]
WorkerRec ==
  [pc : {"accept", "hello", "serve", "compute"}, with : Coords \cup {Nobody},
   rows : Rows, run : Asked \cup {NoPass}]
ConnRec == [toWorker : Seq(Calls), toCoord : Seq(Answers), gone : BOOLEAN, shut : BOOLEAN]

Shapes ==
  /\ coord \in [Coords -> CoordRec]
  /\ worker \in [W -> WorkerRec]
  /\ backlog \in [W -> Seq(Coords)]
  /\ conn \in [Coords -> [W -> ConnRec]]
  /\ passes \in Nat

\* A coordinator: the context is in its rows, those of a pass under way carry
\* its stamp, and what it has taken is right.
Sound(c) ==
  /\ coord[c].pos <= Len(coord[c].rows)
  /\ coord[c].pc \in {"connect", "hello"} => coord[c].pos = 0
  /\ coord[c].pc \in {"send", "wait"} =>
       /\ coord[c].pass.start = coord[c].pos
       /\ coord[c].pos + coord[c].pass.n <= Len(coord[c].rows)
       /\ \A p \in coord[c].pos + 1 .. coord[c].pos + coord[c].pass.n :
            coord[c].rows[p] = coord[c].pass.stamp
  /\ Unowed(c) => coord[c].right = TRUE

\* A worker: it has a peer but for when it accepts one, and a run when it
\* computes; nobody waits for it twice.
Busy(w) ==
  /\ worker[w].pc = "accept" <=> worker[w].with = Nobody
  /\ worker[w].pc = "compute" => worker[w].run \in Asked
  /\ \A i, j \in DOMAIN backlog[w] : backlog[w][i] = backlog[w][j] => i = j

Waits(c, w) == \E i \in DOMAIN backlog[w] : backlog[w][i] = c
Owner(c, w) == worker[w].with = c

\* The workers the coordinator has not tried, has been welcomed by.
Fresh(c, w) ==
  \/ coord[c].pc = "connect" /\ At(c) <= w
  \/ coord[c].pc = "hello" /\ At(c) < w
Open(c, w) ==
  \/ coord[c].pc \in {"idle", "send", "wait"}
  \/ coord[c].pc \in {"connect", "hello"} /\ w < At(c)

\* A connection lasts as long as the worker has the coordinator or will take it.
Owned(c, w) ==
  /\ coord[c].pc = "gone" <=> conn[c][w].gone
  /\ ~conn[c][w].gone => \A i \in DOMAIN conn[c][w].toWorker : conn[c][w].toWorker[i].type # "BYE"
  /\ conn[c][w].shut \/ Fresh(c, w) => ~Waits(c, w) /\ ~Owner(c, w)
  /\ Fresh(c, w) => conn[c][w] = NoConn
  /\ Owner(c, w) => ~Waits(c, w)

\* The handshake: asked, welcomed, or over.
Asking(c, w) ==
  /\ conn[c][w].toWorker = <<Plain("HELLO")>> /\ conn[c][w].toCoord = <<>>
  /\ Waits(c, w) \/ (Owner(c, w) /\ worker[w].pc = "hello")
Welcomed(c, w) ==
  /\ conn[c][w].toWorker = <<>> /\ conn[c][w].toCoord = <<Plain("HELLO_OK")>>
  /\ Owner(c, w) /\ worker[w].pc = "serve"
Greeted(c, w) ==
  coord[c].pc = "hello" /\ w = At(c) =>
    IF conn[c][w].shut
      THEN conn[c][w].toCoord \in {<<>>, <<Plain("HELLO_OK")>>, <<Plain("ERROR")>>}
      ELSE Asking(c, w) \/ Welcomed(c, w)

\* The RUN under way, and what answers it.
Out(c, w) == coord[c].pc = "wait" /\ At(c) = w
Ask(c)   == RunOf(coord[c].pass.start, coord[c].pass.n, coord[c].pass.stamp, TRUE,
                  SubSeq(coord[c].rows, 1, coord[c].pass.start))
Reply(c) == ResultOf(coord[c].pass.n, coord[c].pass.stamp, TRUE)

Idle(c, w) ==
  /\ conn[c][w].toCoord = <<>>
  /\ ~conn[c][w].shut => conn[c][w].toWorker = <<>> /\ worker[w].pc = "serve"
Underway(c, w) ==
  /\ conn[c][w].toCoord \in {<<>>, <<Reply(c)>>, <<Plain("ERROR")>>}
  /\ ~conn[c][w].shut =>
       \/ /\ conn[c][w].toWorker = <<Ask(c)>> /\ conn[c][w].toCoord = <<>>
          /\ worker[w].pc = "serve"
       \/ /\ conn[c][w].toWorker = <<>> /\ conn[c][w].toCoord = <<>>
          /\ worker[w].pc = "compute" /\ worker[w].run = Ask(c)
       \/ /\ conn[c][w].toWorker = <<>> /\ conn[c][w].toCoord = <<Reply(c)>>
          /\ worker[w].pc = "serve"

\* The rows the worker shares with the coordinator: those of the context, and
\* of the pass once it is through.
Agree(k, s, t) == k <= Len(s) /\ k <= Len(t) /\ \A p \in 1 .. k : s[p] = t[p]
Passed(c, w) ==
  \/ coord[c].pc \in {"send", "wait"} /\ w < At(c)
  \/ Out(c, w) /\ conn[c][w].toCoord # <<>>
Upto(c, w) == IF Passed(c, w) THEN coord[c].pos + coord[c].pass.n ELSE coord[c].pos

Served(c, w) ==
  Open(c, w) /\ Unowed(c) =>
    /\ ~conn[c][w].shut => Owner(c, w) /\ Agree(Upto(c, w), coord[c].rows, worker[w].rows)
    /\ IF Out(c, w) THEN Underway(c, w) ELSE Idle(c, w)

Pair(c, w) == Owned(c, w) /\ Greeted(c, w) /\ Served(c, w)

IInv ==
  /\ Shapes
  /\ \A c \in Coords : Sound(c)
  /\ \A w \in W : Busy(w)
  /\ \A c \in Coords, w \in W : Pair(c, w)

-----------------------------------------------------------------------------
(* The invariant gives the properties.                                      *)

LEMMA PrefixAgrees ==
  ASSUME NEW s \in Seq(Int), NEW t \in Seq(Int), NEW k \in Nat, k <= Len(s)
  PROVE  IsPrefix(SubSeq(s, 1, k), t) <=> Agree(k, s, t)
<1> DEFINE a == SubSeq(s, 1, k)
<1>1. a \in Seq(Int) /\ Len(a) = k /\ \A p \in 1 .. k : a[p] = s[p]
  OBVIOUS
<1>2. SubSeq(a, 1, Len(a)) = a
  BY <1>1, SMT
<1>3. k <= Len(t) => /\ SubSeq(t, 1, k) \in Seq(Int) /\ Len(SubSeq(t, 1, k)) = k
                     /\ \A p \in 1 .. k : SubSeq(t, 1, k)[p] = t[p]
  OBVIOUS
<1> HIDE DEF a
<1>4. IsPrefix(a, t) <=> k <= Len(t) /\ a = SubSeq(t, 1, k)
  BY <1>1, <1>2, Zenon DEF IsPrefix
<1>5. ASSUME k <= Len(t), \A p \in 1 .. k : s[p] = t[p]
      PROVE  a = SubSeq(t, 1, k)
  BY <1>1, <1>3, <1>5, SeqEqual, Z3
<1>6. ASSUME k <= Len(t), a = SubSeq(t, 1, k)
      PROVE  \A p \in 1 .. k : s[p] = t[p]
  BY <1>1, <1>3, <1>6
<1>7. IsPrefix(a, t) <=> Agree(k, s, t)
  BY <1>4, <1>5, <1>6, Zenon DEF Agree
<1> QED
  BY <1>7 DEF a

LEMMA Implies ==
  ASSUME IInv
  PROVE  TypeOK /\ SplitIsExact
<1>1. TypeOK
  <2>1. ASSUME NEW c \in Coords
        PROVE  /\ coord[c].pc \in {"connect", "hello", "idle", "send", "wait", "gone"}
               /\ coord[c].at \in W /\ coord[c].pos \in 0 .. MaxCtx
               /\ Len(coord[c].rows) <= MaxCtx
    <3>1. coord[c] \in CoordRec /\ Sound(c)
      BY DEF IInv, Shapes
    <3>2. coord[c].pos \in Nat /\ coord[c].rows \in Rows /\ coord[c].pos <= Len(coord[c].rows)
      BY <3>1 DEF CoordRec, Sound
    <3>3. coord[c].pos \in 0 .. MaxCtx /\ Len(coord[c].rows) <= MaxCtx
      BY <3>2, LanAssumption DEF Rows
    <3> QED
      BY <3>1, <3>3 DEF CoordRec
  <2>2. ASSUME NEW w \in W
        PROVE  /\ worker[w].pc \in {"accept", "hello", "serve", "compute"}
               /\ worker[w].with \in Coords \cup {Nobody}
               /\ Len(worker[w].rows) <= MaxCtx
    BY DEF IInv, Shapes, WorkerRec, Rows
  <2> QED
    BY <2>1, <2>2 DEF TypeOK
<1>2. SplitIsExact
  <2> SUFFICES ASSUME NEW c \in Coords, Unowed(c)
               PROVE  /\ coord[c].right
                      /\ coord[c].pc = "idle" =>
                           \A w \in W : ~conn[c][w].shut =>
                             IsPrefix(SubSeq(coord[c].rows, 1, coord[c].pos), worker[w].rows)
    BY DEF SplitIsExact
  <2>1. coord[c].right
    BY DEF IInv, Sound
  <2>2. ASSUME coord[c].pc = "idle", NEW w \in W, ~conn[c][w].shut
        PROVE  IsPrefix(SubSeq(coord[c].rows, 1, coord[c].pos), worker[w].rows)
    <3>1. Agree(Upto(c, w), coord[c].rows, worker[w].rows)
      BY <2>2, Zenon DEF IInv, Pair, Served, Open
    <3>2. Upto(c, w) = coord[c].pos
      BY <2>2 DEF Upto, Passed, Out
    <3>3. /\ coord[c].rows \in Seq(Int) /\ worker[w].rows \in Seq(Int)
          /\ coord[c].pos \in Nat /\ coord[c].pos <= Len(coord[c].rows)
      BY DEF IInv, Shapes, CoordRec, WorkerRec, Rows, Sound
    <3> QED
      BY <3>1, <3>2, <3>3, PrefixAgrees
  <2> QED
    BY <2>1, <2>2
<1> QED
  BY <1>1, <1>2

-----------------------------------------------------------------------------
(* What a step leaves alone.                                                *)

LEMMA FarAway ==
  ASSUME IInv, NEW d \in Coords, NEW v \in W,
         coord'[d] = coord[d], conn'[d][v] = conn[d][v],
         Waits(d, v)' <=> Waits(d, v),
         worker'[v] = worker[v] \/ (worker[v].with # d /\ worker'[v].with # d)
  PROVE  Pair(d, v)'
<1>0. Owned(d, v) /\ Greeted(d, v) /\ Served(d, v)
  BY DEF IInv, Pair
<1>1. Fresh(d, v)' <=> Fresh(d, v)
  BY Zenon DEF Fresh, At
<1>2. Open(d, v)' <=> Open(d, v)
  BY Zenon DEF Open, At
<1>3. Out(d, v)' <=> Out(d, v)
  BY Zenon DEF Out, At
<1>4. Unowed(d)' <=> Unowed(d)
  BY Zenon DEF Unowed
<1>5. Upto(d, v)' = Upto(d, v)
  BY <1>3, Zenon DEF Upto, Passed, At
<1>6. Ask(d)' = Ask(d) /\ Reply(d)' = Reply(d)
  BY Zenon DEF Ask, Reply
<1>7. CASE worker'[v] = worker[v]
  <2>1. Owned(d, v)'
    BY <1>0, <1>1, <1>7, Zenon DEF Owned, Owner
  <2>2. Greeted(d, v)'
    BY <1>0, <1>7, Zenon DEF Greeted, Asking, Welcomed, Owner, At
  <2>3. Served(d, v)'
    BY <1>0, <1>2, <1>3, <1>4, <1>5, <1>6, <1>7, Zenon DEF Served, Idle, Underway, Owner
  <2> QED
    BY <2>1, <2>2, <2>3 DEF Pair
<1>8. CASE worker[v].with # d /\ worker'[v].with # d
  <2>1. Owned(d, v)'
    BY <1>0, <1>1, <1>8, Zenon DEF Owned, Owner
  <2>2. Greeted(d, v)'
    BY <1>0, <1>8, Zenon DEF Greeted, Asking, Welcomed, Owner, At
  <2>3. Served(d, v)'
    <3> SUFFICES ASSUME Open(d, v), Unowed(d) PROVE Served(d, v)'
      BY <1>2, <1>4, Zenon DEF Served
    <3>1. conn[d][v].shut
      BY <1>0, <1>8, Zenon DEF Served, Owner
    <3> QED
      BY <1>0, <1>3, <1>6, <3>1, Zenon DEF Served, Idle, Underway
  <2> QED
    BY <2>1, <2>2, <2>3 DEF Pair
<1> QED
  BY <1>7, <1>8

\* A step of one coordinator, of which the workers learn nothing yet.
LEMMA CoordinatorActs ==
  ASSUME IInv, NEW c \in Coords,
         coord' \in [Coords -> CoordRec], conn' \in [Coords -> [W -> ConnRec]], passes' \in Nat,
         worker' = worker, backlog' = backlog,
         \A d \in Coords \ {c} : coord'[d] = coord[d] /\ conn'[d] = conn[d],
         Sound(c)', \A v \in W : Pair(c, v)'
  PROVE  IInv'
<1>1. Shapes'
  BY DEF IInv, Shapes
<1>2. \A d \in Coords : Sound(d)'
  <2> SUFFICES ASSUME NEW d \in Coords \ {c} PROVE Sound(d)'
    OBVIOUS
  <2>1. coord'[d] = coord[d] /\ Sound(d)
    BY DEF IInv
  <2> QED
    BY <2>1, Zenon DEF Sound, Unowed
<1>3. \A v \in W : Busy(v)'
  BY Zenon DEF IInv, Busy
<1>4. \A d \in Coords, v \in W : Pair(d, v)'
  <2> SUFFICES ASSUME NEW d \in Coords \ {c}, NEW v \in W PROVE Pair(d, v)'
    OBVIOUS
  <2>1. Waits(d, v)' <=> Waits(d, v)
    BY Zenon DEF Waits
  <2> QED
    BY <2>1, FarAway, Zenon
<1> QED
  BY <1>1, <1>2, <1>3, <1>4 DEF IInv

\* A step of one worker, with its peer or with one that waits.
LEMMA WorkerActs ==
  ASSUME IInv, NEW w \in W, coord' = coord, passes' = passes, Shapes',
         \A v \in W \ {w} : /\ worker'[v] = worker[v] /\ backlog'[v] = backlog[v]
                            /\ \A d \in Coords : conn'[d][v] = conn[d][v],
         Busy(w)', \A d \in Coords : Pair(d, w)'
  PROVE  IInv'
<1>1. \A d \in Coords : Sound(d)'
  BY Zenon DEF IInv, Sound, Unowed
<1>2. \A v \in W : Busy(v)'
  <2> SUFFICES ASSUME NEW v \in W \ {w} PROVE Busy(v)'
    OBVIOUS
  <2>1. Busy(v) /\ worker'[v] = worker[v] /\ backlog'[v] = backlog[v]
    BY DEF IInv
  <2> QED
    BY <2>1, Zenon DEF Busy
<1>3. \A d \in Coords, v \in W : Pair(d, v)'
  <2> SUFFICES ASSUME NEW d \in Coords, NEW v \in W \ {w} PROVE Pair(d, v)'
    OBVIOUS
  <2>1. Waits(d, v)' <=> Waits(d, v)
    BY Zenon DEF Waits
  <2> QED
    BY <2>1, FarAway, Zenon
<1> QED
  BY <1>1, <1>2, <1>3 DEF IInv

-----------------------------------------------------------------------------
(* Changes of one record.                                                   *)

LEMMA LineSet ==
  ASSUME NEW f \in [Coords -> [W -> ConnRec]], NEW c \in Coords, NEW w \in W,
         NEW l \in ConnRec
  PROVE  LET g == [f EXCEPT ![c][w] = l]
         IN  /\ g \in [Coords -> [W -> ConnRec]]
             /\ \A d \in Coords \ {c} : g[d] = f[d]
             /\ \A v \in W \ {w} : g[c][v] = f[c][v]
             /\ g[c][w] = l
<1> DEFINE g == [f EXCEPT ![c][w] = l]
<1>1. g = [f EXCEPT ![c] = [f[c] EXCEPT ![w] = l]]
  OBVIOUS
<1> DEFINE h == [f[c] EXCEPT ![w] = l]
<1>2. f[c] \in [W -> ConnRec]
  OBVIOUS
<1>3. h \in [W -> ConnRec] /\ (\A v \in W \ {w} : h[v] = f[c][v]) /\ h[w] = l
  BY <1>2, Zenon
<1> HIDE DEF h
<1>4. g = [f EXCEPT ![c] = h]
  BY <1>1 DEF h
<1> HIDE DEF g
<1>5. /\ g \in [Coords -> [W -> ConnRec]]
      /\ \A d \in Coords \ {c} : g[d] = f[d]
      /\ \A v \in W \ {w} : g[c][v] = f[c][v]
      /\ g[c][w] = l
  BY <1>3, <1>4, Zenon
<1> QED
  BY <1>5 DEF g

LEMMA ToCoordSet ==
  ASSUME NEW k \in ConnRec, NEW s \in Seq(Answers)
  PROVE  LET l == [k EXCEPT !.toCoord = s]
         IN  /\ l \in ConnRec /\ l.toCoord = s
             /\ l.toWorker = k.toWorker /\ l.gone = k.gone /\ l.shut = k.shut
  BY SMT DEF ConnRec

LEMMA ToWorkerSet ==
  ASSUME NEW k \in ConnRec, NEW s \in Seq(Calls)
  PROVE  LET l == [k EXCEPT !.toWorker = s]
         IN  /\ l \in ConnRec /\ l.toWorker = s
             /\ l.toCoord = k.toCoord /\ l.gone = k.gone /\ l.shut = k.shut
  BY SMT DEF ConnRec

\* The line between c and w holds these calls and answers now, and nothing else
\* about it or any other line has changed.
Wire(c, w, calls, answers) ==
  /\ conn' \in [Coords -> [W -> ConnRec]]
  /\ \A d \in Coords \ {c} : conn'[d] = conn[d]
  /\ \A v \in W \ {w} : conn'[c][v] = conn[c][v]
  /\ conn'[c][w].toWorker = calls
  /\ conn'[c][w].toCoord = answers
  /\ conn'[c][w].gone = conn[c][w].gone /\ conn'[c][w].shut = conn[c][w].shut

\* What the coordinator sends or reads on the line in use.
LEMMA Reads ==
  ASSUME Shapes, NEW c \in Coords, NEW w \in W, NEW s \in Seq(Answers),
         conn' = [conn EXCEPT ![c][w].toCoord = s]
  PROVE  Wire(c, w, conn[c][w].toWorker, s)
<1> DEFINE l == [conn[c][w] EXCEPT !.toCoord = s]
<1>1. conn \in [Coords -> [W -> ConnRec]] /\ conn[c][w] \in ConnRec
  BY DEF Shapes
<1>2. /\ l \in ConnRec /\ l.toCoord = s /\ l.toWorker = conn[c][w].toWorker
      /\ l.gone = conn[c][w].gone /\ l.shut = conn[c][w].shut
  BY <1>1, ToCoordSet, Zenon
<1> DEFINE g == [conn EXCEPT ![c][w] = l]
<1>3. conn' = g
  OBVIOUS
<1> HIDE DEF l
<1>4. /\ g \in [Coords -> [W -> ConnRec]]
      /\ \A d \in Coords \ {c} : g[d] = conn[d]
      /\ \A v \in W \ {w} : g[c][v] = conn[c][v]
      /\ g[c][w] = l
  BY <1>1, <1>2, LineSet
<1> HIDE DEF g
<1> QED
  BY <1>2, <1>3, <1>4, Zenon DEF Wire

LEMMA Writes ==
  ASSUME Shapes, NEW c \in Coords, NEW w \in W, NEW s \in Seq(Calls),
         conn' = [conn EXCEPT ![c][w].toWorker = s]
  PROVE  Wire(c, w, s, conn[c][w].toCoord)
<1> DEFINE l == [conn[c][w] EXCEPT !.toWorker = s]
<1>1. conn \in [Coords -> [W -> ConnRec]] /\ conn[c][w] \in ConnRec
  BY DEF Shapes
<1>2. /\ l \in ConnRec /\ l.toWorker = s /\ l.toCoord = conn[c][w].toCoord
      /\ l.gone = conn[c][w].gone /\ l.shut = conn[c][w].shut
  BY <1>1, ToWorkerSet, Zenon
<1> DEFINE g == [conn EXCEPT ![c][w] = l]
<1>3. conn' = g
  OBVIOUS
<1> HIDE DEF l
<1>4. /\ g \in [Coords -> [W -> ConnRec]]
      /\ \A d \in Coords \ {c} : g[d] = conn[d]
      /\ \A v \in W \ {w} : g[c][v] = conn[c][v]
      /\ g[c][w] = l
  BY <1>1, <1>2, LineSet
<1> HIDE DEF g
<1> QED
  BY <1>2, <1>3, <1>4, Zenon DEF Wire

-----------------------------------------------------------------------------
(* The coordinator's steps.                                                 *)

\* What a connection that a step of its coordinator does not use is to it.
LEMMA LineKept ==
  ASSUME IInv, NEW c \in Coords, NEW v \in W, conn'[c][v] = conn[c][v],
         worker'[v] = worker[v], backlog'[v] = backlog[v],
         coord'[c].pc = "gone" <=> coord[c].pc = "gone",
         Fresh(c, v)' => Fresh(c, v),
         ~(coord'[c].pc = "hello" /\ v = At(c)'),
         Open(c, v)' /\ Unowed(c)' =>
           /\ Open(c, v) /\ Unowed(c) /\ ~Out(c, v) /\ ~Out(c, v)'
           /\ ~conn[c][v].shut => Agree(Upto(c, v)', coord'[c].rows, worker[v].rows)
  PROVE  Pair(c, v)'
<1>0. Owned(c, v) /\ Served(c, v)
  BY DEF IInv, Pair
<1>1. Waits(c, v)' <=> Waits(c, v)
  BY Zenon DEF Waits
<1>2. Owned(c, v)'
  BY <1>0, <1>1, Zenon DEF Owned, Owner
<1>3. Greeted(c, v)'
  BY Zenon DEF Greeted
<1>4. Served(c, v)'
  BY <1>0, Zenon DEF Served, Idle, Owner
<1> QED
  BY <1>2, <1>3, <1>4 DEF Pair

LEMMA KeepsWelcome ==
  ASSUME IInv, NEW c \in Coords, Welcome(c)
  PROVE  IInv'
<1>a. coord[c] \in CoordRec /\ At(c) \in W
  BY DEF IInv, Shapes, At, CoordRec
<1>b. PICK w \in W : w = At(c)
  BY <1>a
<1>0. /\ Shapes /\ coord[c] \in CoordRec /\ conn[c][w] \in ConnRec
      /\ coord[c].pc = "hello" /\ At(c) = w
      /\ Sound(c) /\ Owned(c, w) /\ Greeted(c, w)
      /\ worker' = worker /\ backlog' = backlog /\ passes' \in Nat
  BY <1>a, <1>b DEF IInv, Shapes, Pair, Welcome
<1>1. w \in Nat /\ 1 <= w /\ w <= Workers /\ Workers \in Nat
  BY <1>0, LanAssumption DEF W
<1>2. PICK pc \in {"connect", "idle"}, at \in W :
        /\ IF w < Workers THEN pc = "connect" /\ at = w + 1 ELSE pc = "idle" /\ at = w
        /\ coord' \in [Coords -> CoordRec]
        /\ \A d \in Coords \ {c} : coord'[d] = coord[d]
        /\ coord'[c].pc = pc /\ coord'[c].at = at
        /\ coord'[c].pos = coord[c].pos /\ coord'[c].rows = coord[c].rows
        /\ coord'[c].pass = coord[c].pass /\ coord'[c].right = coord[c].right
        /\ coord'[c].owed = coord[c].owed
  <2>1. CASE w < Workers
    <3>0. PICK at \in W : at = w + 1
      BY <1>1, <2>1 DEF W
    <3>1. coord[c].at + 1 = at
      BY <1>0, <3>0 DEF At
    <3>2. coord' = [coord EXCEPT ![c].pc = "connect", ![c].at = coord[c].at + 1]
      BY <1>0, <2>1, Zenon DEF Welcome
    <3> QED
      BY <1>0, <2>1, <3>0, <3>1, <3>2, Zenon DEF Shapes, CoordRec
  <2>2. CASE ~(w < Workers)
    <3>1. coord' = [coord EXCEPT ![c].pc = "idle"]
      BY <1>0, <2>2, Zenon DEF Welcome
    <3> QED
      BY <1>0, <2>2, <3>1, Zenon DEF Shapes, CoordRec, At
  <2> QED
    BY <2>1, <2>2
<1>3. /\ conn[c][w].toCoord # <<>> /\ Head(conn[c][w].toCoord).type = "HELLO_OK"
      /\ conn' = [conn EXCEPT ![c][w].toCoord = Tail(conn[c][w].toCoord)]
  BY <1>0 DEF Welcome, Line, At
<1>4. Tail(conn[c][w].toCoord) \in Seq(Answers) /\ conn[c][w].toCoord = <<Plain("HELLO_OK")>>
      /\ Tail(conn[c][w].toCoord) = <<>>
  <2>1. conn[c][w].toCoord \in Seq(Answers)
    BY <1>0 DEF ConnRec
  <2>2. conn[c][w].toCoord \in {<<Plain("HELLO_OK")>>, <<Plain("ERROR")>>}
    BY <1>0, <1>3, Zenon DEF Greeted, Asking, Welcomed
  <2>3. conn[c][w].toCoord = <<Plain("HELLO_OK")>>
    BY <1>3, <2>2 DEF Plain
  <2> QED
    BY <1>3, <2>1, <2>3
<1>5. /\ conn' \in [Coords -> [W -> ConnRec]]
      /\ \A d \in Coords \ {c} : conn'[d] = conn[d]
      /\ \A v \in W \ {w} : conn'[c][v] = conn[c][v]
      /\ conn'[c][w].toCoord = <<>>
      /\ conn'[c][w].toWorker = conn[c][w].toWorker
      /\ conn'[c][w].gone = conn[c][w].gone /\ conn'[c][w].shut = conn[c][w].shut
  <2>1. conn' = [conn EXCEPT ![c][w].toCoord = <<>>] /\ <<>> \in Seq(Answers)
    BY <1>3, <1>4
  <2> QED
    <3>1. Wire(c, w, conn[c][w].toWorker, <<>>)
      BY <1>0, <2>1, Reads, Zenon
    <3> QED
      BY <3>1, Zenon DEF Wire
<1>6. Sound(c)'
  BY <1>0, <1>2, Zenon DEF Sound, Unowed
<1>7. ASSUME NEW v \in W \ {w} PROVE Pair(c, v)'
  <2>1. v \in Nat /\ v # w /\ v <= Workers
    BY <1>1 DEF W
  <2>2. Fresh(c, v)' => Fresh(c, v)
    BY <1>0, <1>1, <1>2, <2>1, SMT DEF Fresh, At
  <2>3. Open(c, v)' => Open(c, v)
    BY <1>0, <1>1, <1>2, <2>1, SMT DEF Open, At
  <2>4. ~Out(c, v) /\ ~Out(c, v)' /\ Upto(c, v)' = coord[c].pos /\ Upto(c, v) = coord[c].pos
    BY <1>0, <1>2 DEF Out, Upto, Passed
  <2>5. Unowed(c)' <=> Unowed(c)
    BY <1>2, Zenon DEF Unowed
  <2>6. Served(c, v)
    BY DEF IInv, Pair
  <2> QED
    BY <1>0, <1>2, <1>5, <2>2, <2>3, <2>4, <2>5, <2>6, LineKept, Zenon DEF Served
<1>8. Pair(c, w)'
  <2>1. Waits(c, w)' <=> Waits(c, w)
    BY <1>0, Zenon DEF Waits
  <2>2. ~Fresh(c, w)'
    BY <1>0, <1>1, <1>2, SMT DEF Fresh, At
  <2>3. Owned(c, w)'
    BY <1>0, <1>2, <1>5, <2>1, <2>2, Zenon DEF Owned, Owner
  <2>4. Greeted(c, w)' /\ ~Out(c, w)'
    BY <1>2, Zenon DEF Greeted, Out
  <2>5. ~conn[c][w].shut => Welcomed(c, w)
    BY <1>0, <1>3, Zenon DEF Greeted, Asking, At
  <2>6. Upto(c, w)' = 0
    BY <1>0, <1>2 DEF Upto, Passed, Sound, Out
  <2>7. ~conn[c][w].shut => Idle(c, w)' /\ Owner(c, w)'
    BY <1>0, <1>5, <2>5, Zenon DEF Welcomed, Idle, Owner
  <2>8. Idle(c, w)'
    BY <1>5, <2>7, Zenon DEF Idle
  <2>9. Agree(0, coord'[c].rows, worker'[w].rows)
    BY <1>0, <1>2, SMT DEF Agree, Shapes, WorkerRec, CoordRec, Rows
  <2> QED
    BY <1>5, <2>3, <2>4, <2>6, <2>7, <2>8, <2>9, Zenon DEF Pair, Served
<1> QED
  BY <1>0, <1>2, <1>5, <1>6, <1>7, <1>8, CoordinatorActs, Zenon

LEMMA Here ==
  ASSUME IInv, NEW c \in Coords
  PROVE  /\ Shapes /\ Sound(c) /\ coord[c] \in CoordRec /\ passes \in Nat
         /\ \A v \in W : /\ conn[c][v] \in ConnRec /\ worker[v] \in WorkerRec
                         /\ Owned(c, v) /\ Greeted(c, v) /\ Served(c, v)
         /\ \E w \in W : w = At(c)
<1>1. coord[c] \in CoordRec
  BY DEF IInv, Shapes
<1>2. At(c) \in W
  BY <1>1 DEF At, CoordRec
<1> QED
  BY <1>1, <1>2 DEF IInv, Shapes, Pair

LEMMA KeepsLeave ==
  ASSUME IInv, NEW c \in Coords, NEW says \in Seq(Calls), Leave(c, says),
         worker' = worker, backlog' = backlog, passes' = passes
  PROVE  IInv'
<1>0. /\ Shapes /\ Sound(c) /\ coord[c] \in CoordRec /\ passes \in Nat
      /\ \A v \in W : conn[c][v] \in ConnRec /\ Owned(c, v)
  BY Here
<1>1. /\ coord' \in [Coords -> CoordRec]
      /\ \A d \in Coords \ {c} : coord'[d] = coord[d]
      /\ coord'[c].pc = "gone" /\ coord'[c].pos = coord[c].pos /\ coord'[c].rows = coord[c].rows
      /\ coord'[c].right = coord[c].right /\ coord'[c].owed = coord[c].owed
  BY <1>0, Zenon DEF Leave, Shapes, CoordRec
<1>2. \A v \in W : conn[c][v].toWorker \o says \in Seq(Calls)
  BY <1>0 DEF ConnRec
<1> DEFINE l(v) == [conn[c][v] EXCEPT !.gone = TRUE, !.toWorker = @ \o says]
<1>3. \A v \in W : l(v) \in ConnRec /\ l(v).gone = TRUE /\ l(v).shut = conn[c][v].shut
  BY <1>0, <1>2, Zenon DEF ConnRec
<1>4. conn' = [conn EXCEPT ![c] = [v \in W |-> l(v)]]
  BY Zenon DEF Leave
<1> HIDE DEF l
<1>5. /\ conn' \in [Coords -> [W -> ConnRec]]
      /\ \A d \in Coords \ {c} : conn'[d] = conn[d]
      /\ \A v \in W : conn'[c][v] = l(v)
  BY <1>0, <1>3, <1>4, Zenon DEF Shapes
<1>6. Sound(c)'
  BY <1>0, <1>1, Zenon DEF Sound, Unowed
<1>7. ASSUME NEW v \in W PROVE Pair(c, v)'
  <2>1. Waits(c, v)' <=> Waits(c, v)
    BY Zenon DEF Waits
  <2>2. ~Fresh(c, v)' /\ ~Open(c, v)'
    BY <1>1 DEF Fresh, Open
  <2>3. Owned(c, v)'
    BY <1>0, <1>1, <1>3, <1>5, <2>1, <2>2, Zenon DEF Owned, Owner
  <2>4. Greeted(c, v)' /\ Served(c, v)'
    BY <1>1, <2>2 DEF Greeted, Served
  <2> QED
    BY <2>3, <2>4 DEF Pair
<1> QED
  BY <1>0, <1>1, <1>5, <1>6, <1>7, CoordinatorActs, Zenon

LEMMA KeepsHandshakeFails ==
  ASSUME IInv, NEW c \in Coords, HandshakeFails(c) \/ Exit(c) \/ Crash(c)
  PROVE  IInv'
<1>1. <<Plain("BYE")>> \in Seq(Calls) /\ <<>> \in Seq(Calls)
  BY DEF Calls
<1> QED
  BY <1>1, KeepsLeave DEF HandshakeFails, Exit, Crash

\* The rows new are those of rows up to start, then n of stamp, and no fewer.
Over(new, rows, start, n, stamp) ==
  /\ new \in Rows
  /\ start + n <= Len(new) /\ Len(rows) <= Len(new)
  /\ \A p \in 1 .. Len(rows) : p <= start => new[p] = rows[p]
  /\ \A p \in start + 1 .. start + n : new[p] = stamp

LEMMA WrittenRows ==
  ASSUME NEW rows \in Rows, NEW start \in Nat, NEW n \in Nat, NEW stamp \in Int,
         start + n <= MaxCtx
  PROVE  Over(Written(rows, start, n, stamp), rows, start, n, stamp)
<1> DEFINE len == IF start + n > Len(rows) THEN start + n ELSE Len(rows)
           new == Written(rows, start, n, stamp)
<1>1. rows \in Seq(Int) /\ Len(rows) \in Nat /\ Len(rows) <= MaxCtx
  BY DEF Rows
<1>2. len \in Nat /\ len <= MaxCtx /\ start + n <= len /\ Len(rows) <= len
  BY <1>1, LanAssumption
<1> HIDE DEF len
<1>3. new = [p \in 1 .. len |-> IF p \in start + 1 .. start + n THEN stamp
                                ELSE IF p <= Len(rows) THEN rows[p] ELSE NoRow]
  BY DEF Written, len
<1>4. new \in Seq(Int) /\ Len(new) = len
  BY <1>1, <1>2, <1>3, IsASeq DEF NoRow
<1>5. \A p \in 1 .. len : new[p] = IF p \in start + 1 .. start + n THEN stamp
                                   ELSE IF p <= Len(rows) THEN rows[p] ELSE NoRow
  BY <1>3
<1> HIDE DEF new
<1>6. Over(new, rows, start, n, stamp)
  BY <1>1, <1>2, <1>4, <1>5 DEF Rows, Over
<1> QED
  BY <1>6 DEF new

\* Agreement shrinks.
LEMMA AgreeLess ==
  ASSUME NEW s \in Seq(Int), NEW t \in Seq(Int), NEW k \in Nat, NEW j \in Nat, j <= k,
         Agree(k, s, t)
  PROVE  Agree(j, s, t)
  BY DEF Agree

\* The context is the least that a coordinator and its workers agree on.
LEMMA ContextAgrees ==
  ASSUME IInv, NEW c \in Coords, NEW v \in W, Open(c, v), Unowed(c), ~conn[c][v].shut
  PROVE  /\ Agree(coord[c].pos, coord[c].rows, worker[v].rows)
         /\ \A j \in 0 .. coord[c].pos : Agree(j, coord[c].rows, worker[v].rows)
<1>0. /\ coord[c] \in CoordRec /\ worker[v] \in WorkerRec /\ Served(c, v)
  BY Here
<1>1. /\ coord[c].rows \in Seq(Int) /\ worker[v].rows \in Seq(Int)
      /\ coord[c].pos \in Nat /\ coord[c].pass.n \in Nat
  BY <1>0 DEF CoordRec, WorkerRec, Rows, Pass
<1>2. Agree(Upto(c, v), coord[c].rows, worker[v].rows)
  BY <1>0, Zenon DEF Served
<1>3. Upto(c, v) \in Nat /\ coord[c].pos <= Upto(c, v)
  BY <1>1 DEF Upto
<1>4. \A j \in 0 .. coord[c].pos : j \in Nat /\ j <= Upto(c, v)
  BY <1>1, <1>3
<1>5. \A j \in 0 .. coord[c].pos : Agree(j, coord[c].rows, worker[v].rows)
  BY <1>1, <1>2, <1>3, <1>4, AgreeLess, Zenon
<1> QED
  BY <1>1, <1>5

\* A pass that ends in an exception leaves the line empty, unless it is lost.
LEMMA KeepsThrows ==
  ASSUME IInv, NEW c \in Coords, coord[c].pc \in {"send", "wait"}, Throws(c),
         worker' = worker, backlog' = backlog, passes' = passes,
         conn' \in [Coords -> [W -> ConnRec]],
         \A d \in Coords \ {c} : conn'[d] = conn[d],
         \A v \in W : /\ conn'[c][v].toWorker = conn[c][v].toWorker
                      /\ conn'[c][v].gone = conn[c][v].gone /\ conn'[c][v].shut = conn[c][v].shut
                      /\ v # At(c) => conn'[c][v] = conn[c][v],
         Unowed(c) => \A v \in W : v = At(c) =>
           conn'[c][v].toCoord = <<>> /\ (conn[c][v].shut \/ ~Out(c, v))
  PROVE  IInv'
<1>0. /\ Shapes /\ Sound(c) /\ coord[c] \in CoordRec /\ passes \in Nat
      /\ \A v \in W : /\ conn[c][v] \in ConnRec /\ worker[v] \in WorkerRec
                      /\ Owned(c, v) /\ Served(c, v)
  BY Here
<1>1. /\ coord' \in [Coords -> CoordRec]
      /\ \A d \in Coords \ {c} : coord'[d] = coord[d]
      /\ coord'[c].pc = "idle" /\ coord'[c].pos = coord[c].pos /\ coord'[c].rows = coord[c].rows
      /\ coord'[c].right = TRUE /\ coord'[c].owed = coord[c].owed /\ coord'[c].at = coord[c].at
  <2>1. NoPass \in Pass
    BY DEF NoPass, Pass
  <2> QED
    BY <1>0, <2>1, Zenon DEF Throws, Shapes, CoordRec
<1>2. Sound(c)'
  BY <1>0, <1>1, Zenon DEF Sound, Unowed
<1>3. ASSUME NEW v \in W PROVE Pair(c, v)'
  <2>1. Waits(c, v)' <=> Waits(c, v)
    BY Zenon DEF Waits
  <2>2. ~Fresh(c, v)'
    BY <1>1 DEF Fresh
  <2>3. Owned(c, v)'
    <3>1. /\ conn'[c][v].toWorker = conn[c][v].toWorker /\ conn'[c][v].gone = conn[c][v].gone
          /\ conn'[c][v].shut = conn[c][v].shut /\ worker'[v] = worker[v]
      OBVIOUS
    <3>2. coord'[c].pc # "gone" /\ coord[c].pc # "gone"
      BY <1>1
    <3> QED
      BY <1>0, <2>1, <2>2, <3>1, <3>2, Zenon DEF Owned, Owner
  <2>4. Greeted(c, v)' /\ ~Out(c, v)' /\ Upto(c, v)' = coord[c].pos
    BY <1>1 DEF Greeted, Out, Upto, Passed
  <2>5. Open(c, v)
    BY DEF Open
  <2>6. ASSUME Unowed(c) PROVE Idle(c, v)'
    <3>1. CASE v = At(c)
      <4>1. ~conn[c][v].shut => Idle(c, v)
        BY <1>0, <2>5, <2>6, <3>1, Zenon DEF Served
      <4> QED
        BY <2>6, <3>1, <4>1, Zenon DEF Idle
    <3>2. CASE v # At(c)
      <4>1. ~Out(c, v)
        BY <3>2 DEF Out
      <4>2. Idle(c, v)
        BY <1>0, <2>5, <2>6, <4>1, Zenon DEF Served
      <4> QED
        BY <3>2, <4>2, Zenon DEF Idle
    <3> QED
      BY <3>1, <3>2
  <2>7. Unowed(c)' <=> Unowed(c)
    BY <1>1, Zenon DEF Unowed
  <2>8. Unowed(c) /\ ~conn[c][v].shut =>
          Owner(c, v) /\ Agree(coord[c].pos, coord[c].rows, worker[v].rows)
    BY <1>0, <2>5, ContextAgrees, Zenon DEF Served
  <2>9. Served(c, v)'
    BY <1>1, <2>4, <2>6, <2>7, <2>8, Zenon DEF Served, Owner
  <2> QED
    BY <2>3, <2>4, <2>9 DEF Pair
<1> QED
  BY <1>0, <1>1, <1>2, <1>3, CoordinatorActs, Zenon

LEMMA KeepsTooLarge ==
  ASSUME IInv, NEW c \in Coords, TooLarge(c)
  PROVE  IInv'
<1>1. /\ coord[c].pc = "send" /\ Throws(c) /\ conn' = conn
      /\ worker' = worker /\ backlog' = backlog /\ passes' = passes
  BY DEF TooLarge
<1>2. /\ conn \in [Coords -> [W -> ConnRec]] /\ \A v \in W : Served(c, v)
  BY Here DEF Shapes
<1>3. \A v \in W : Open(c, v) /\ ~Out(c, v)
  BY <1>1 DEF Open, Out
<1>4. Unowed(c) => \A v \in W : conn[c][v].toCoord = <<>>
  BY <1>2, <1>3, Zenon DEF Served, Idle
<1> QED
  BY <1>1, <1>2, <1>3, <1>4, KeepsThrows, Zenon

LEMMA KeepsLost ==
  ASSUME IInv, NEW c \in Coords, Lost(c)
  PROVE  IInv'
<1>0. PICK w \in W : w = At(c)
  BY Here
<1>1. /\ coord[c].pc \in {"send", "wait"} /\ Throws(c) /\ conn' = conn
      /\ worker' = worker /\ backlog' = backlog /\ passes' = passes
      /\ conn[c][w].shut /\ (coord[c].pc = "wait" => conn[c][w].toCoord = <<>>)
  BY <1>0 DEF Lost, Line
<1>2. /\ conn \in [Coords -> [W -> ConnRec]] /\ Served(c, w)
  BY Here DEF Shapes
<1>3. Open(c, w) /\ (coord[c].pc = "send" => ~Out(c, w))
  BY <1>1 DEF Open, Out
<1>4. Unowed(c) => conn[c][w].toCoord = <<>>
  BY <1>1, <1>2, <1>3, Zenon DEF Served, Idle
<1> QED
  BY <1>0, <1>1, <1>2, <1>4, KeepsThrows, Zenon

LEMMA KeepsBadAnswer ==
  ASSUME IInv, NEW c \in Coords, BadAnswer(c)
  PROVE  IInv'
<1>0. PICK w \in W : w = At(c)
  BY Here
<1> DEFINE inbox == conn[c][w].toCoord
<1>1. /\ coord[c].pc = "wait" /\ Throws(c)
      /\ worker' = worker /\ backlog' = backlog /\ passes' = passes
      /\ inbox # <<>> /\ ~Fits(c)
  BY <1>0 DEF BadAnswer, Line
<1>2. /\ Shapes /\ conn[c][w] \in ConnRec /\ Served(c, w)
  BY Here
<1>3. inbox \in Seq(Answers)
  BY <1>2 DEF ConnRec
<1>4. PICK left \in {<<>>, <<Plain("JUNK")>>} :
        /\ conn' = [conn EXCEPT ![c][w].toCoord = left \o Tail(inbox)]
        /\ Head(inbox).type = "ERROR" => left = <<>>
  BY <1>0 DEF BadAnswer, Answer, Line
<1>5. left \o Tail(inbox) \in Seq(Answers)
  <2>1. Tail(inbox) \in Seq(Answers) /\ Plain("JUNK") \in Answers
    BY <1>1, <1>3 DEF Answers
  <2>2. left \in Seq(Answers)
    <3>1. <<>> \in Seq(Answers) /\ \A m \in Answers : <<m>> \in Seq(Answers)
      OBVIOUS
    <3>2. <<>> \in Seq(Answers) /\ <<Plain("JUNK")>> \in Seq(Answers)
      BY <2>1, <3>1
    <3> QED
      BY <3>2, Zenon
  <2> HIDE DEF inbox
  <2> QED
    BY <2>1, <2>2
<1>6. /\ conn' \in [Coords -> [W -> ConnRec]]
      /\ \A d \in Coords \ {c} : conn'[d] = conn[d]
      /\ \A v \in W \ {w} : conn'[c][v] = conn[c][v]
      /\ conn'[c][w].toCoord = left \o Tail(inbox)
      /\ conn'[c][w].toWorker = conn[c][w].toWorker
      /\ conn'[c][w].gone = conn[c][w].gone /\ conn'[c][w].shut = conn[c][w].shut
  <2>1. Wire(c, w, conn[c][w].toWorker, left \o Tail(inbox))
    BY <1>2, <1>4, <1>5, Reads, Zenon
  <2> QED
    BY <2>1, Zenon DEF Wire
<1>7. ASSUME Unowed(c)
      PROVE  conn'[c][w].toCoord = <<>> /\ conn[c][w].shut
  <2>1. Underway(c, w)
    BY <1>0, <1>1, <1>2, <1>7, Zenon DEF Served, Open, Out
  <2>2. inbox # <<Reply(c)>>
    <3>1. Head(<<Reply(c)>>) = Reply(c)
      OBVIOUS
    <3> QED
      BY <1>0, <1>1, <3>1 DEF Fits, Answer, Line, Reply, ResultOf
  <2>3. inbox = <<Plain("ERROR")>>
    BY <1>1, <2>1, <2>2, Zenon DEF Underway
  <2>4. Head(inbox).type = "ERROR" /\ Tail(inbox) = <<>>
    BY <2>3 DEF Plain
  <2>5. conn[c][w].shut
    BY <1>1, <2>1, <2>2, Zenon DEF Underway
  <2>6. <<>> \o <<>> = <<>>
    OBVIOUS
  <2> QED
    BY <1>4, <1>6, <2>4, <2>5, <2>6, Zenon
<1> QED
  BY <1>0, <1>1, <1>6, <1>7, KeepsThrows, Zenon

LEMMA KeepsTimeout ==
  ASSUME IInv, NEW c \in Coords, Timeout(c)
  PROVE  IInv'
<1>0. PICK w \in W : w = At(c)
  BY Here
<1>1. /\ Shapes /\ Sound(c) /\ coord[c] \in CoordRec /\ passes' \in Nat
      /\ coord[c].pc = "wait" /\ worker' = worker /\ backlog' = backlog
      /\ \A v \in W : conn[c][v] \in ConnRec /\ Owned(c, v)
  BY Here DEF Timeout
<1> DEFINE inbox == conn[c][w].toCoord
           junk  == IF inbox = <<>> THEN inbox ELSE <<Plain("JUNK")>> \o Tail(inbox)
<1>2. junk \in Seq(Answers)
  <2>1. inbox \in Seq(Answers) /\ Plain("JUNK") \in Answers
    BY <1>1 DEF ConnRec, Answers
  <2> QED
    BY <2>1
<1>3. conn' = [conn EXCEPT ![c][w].toCoord = junk]
  BY <1>0 DEF Timeout
<1> HIDE DEF junk
<1>4. /\ conn' \in [Coords -> [W -> ConnRec]]
      /\ \A d \in Coords \ {c} : conn'[d] = conn[d]
      /\ \A v \in W : /\ conn'[c][v].toWorker = conn[c][v].toWorker
                      /\ conn'[c][v].gone = conn[c][v].gone
                      /\ conn'[c][v].shut = conn[c][v].shut
  <2>1. /\ conn' \in [Coords -> [W -> ConnRec]]
        /\ \A d \in Coords \ {c} : conn'[d] = conn[d]
        /\ \A v \in W \ {w} : conn'[c][v] = conn[c][v]
        /\ conn'[c][w].toWorker = conn[c][w].toWorker
        /\ conn'[c][w].gone = conn[c][w].gone /\ conn'[c][w].shut = conn[c][w].shut
    <3>1. Wire(c, w, conn[c][w].toWorker, junk)
      BY <1>1, <1>2, <1>3, Reads, Zenon
    <3> QED
      BY <3>1, Zenon DEF Wire
  <2> QED
    BY <2>1, Zenon
<1>5. /\ coord' \in [Coords -> CoordRec]
      /\ \A d \in Coords \ {c} : coord'[d] = coord[d]
      /\ coord'[c].pc = "idle" /\ coord'[c].pos = coord[c].pos /\ coord'[c].rows = coord[c].rows
      /\ coord'[c].owed = coord[c].owed \cup {w}
  <2>1. NoPass \in Pass
    BY DEF NoPass, Pass
  <2>2. coord[c].owed \cup {w} \in SUBSET W
    BY <1>1 DEF CoordRec
  <2> QED
    BY <1>0, <1>1, <2>1, <2>2, Zenon DEF Timeout, Shapes, CoordRec
<1>6. ~Unowed(c)'
  BY <1>5 DEF Unowed
<1>7. Sound(c)'
  BY <1>1, <1>5, <1>6, Zenon DEF Sound
<1>8. ASSUME NEW v \in W PROVE Pair(c, v)'
  <2>1. Waits(c, v)' <=> Waits(c, v)
    BY <1>1, Zenon DEF Waits
  <2>2. ~Fresh(c, v)' /\ Greeted(c, v)'
    BY <1>5 DEF Fresh, Greeted
  <2>3. Owned(c, v)'
    BY <1>1, <1>4, <1>5, <2>1, <2>2, Zenon DEF Owned, Owner
  <2> QED
    BY <1>6, <2>2, <2>3 DEF Pair, Served
<1> QED
  BY <1>1, <1>4, <1>5, <1>7, <1>8, CoordinatorActs, Zenon

LEMMA KeepsBegin ==
  ASSUME IInv, NEW c \in Coords, Begin(c)
  PROVE  IInv'
<1>0. /\ Shapes /\ Sound(c) /\ coord[c] \in CoordRec /\ passes \in Nat
      /\ \A v \in W : worker[v] \in WorkerRec
  BY Here
<1>1. /\ coord[c].pc = "idle" /\ passes' \in Nat
      /\ worker' = worker /\ backlog' = backlog /\ conn' = conn
  BY <1>0 DEF Begin
<1>a. PICK stamp \in Nat : stamp = passes'
  BY <1>1
<1>2. PICK start \in 0 .. coord[c].pos, n \in Batches :
        /\ start + n <= MaxCtx
        /\ coord' = [coord EXCEPT
             ![c].pc = "send", ![c].at = 1, ![c].pos = start, ![c].right = TRUE,
             ![c].rows = Written(coord[c].rows, start, n, stamp),
             ![c].pass = [stamp |-> stamp, start |-> start, n |-> n]]
  BY <1>a DEF Begin
<1>3. /\ start \in Nat /\ start <= coord[c].pos /\ n \in Nat /\ stamp \in Nat
      /\ coord[c].rows \in Rows /\ coord[c].rows \in Seq(Int)
      /\ coord[c].pos \in Nat /\ coord[c].pos <= Len(coord[c].rows)
  BY <1>0, <1>1, LanAssumption DEF CoordRec, Rows, Sound
<1> DEFINE rows == coord[c].rows
<1>b. PICK new : new = Written(rows, start, n, stamp)
  OBVIOUS
<1>4. Over(new, rows, start, n, stamp)
  BY <1>2, <1>3, <1>b, WrittenRows
<1> DEFINE pass == [stamp |-> stamp, start |-> start, n |-> n]
<1>5. pass \in Pass /\ pass.start = start /\ pass.n = n /\ pass.stamp = stamp
  BY <1>3 DEF Pass
<1>6. 1 \in W
  BY LanAssumption DEF W
<1>7. coord' = [coord EXCEPT ![c].pc = "send", ![c].at = 1, ![c].pos = start, ![c].right = TRUE,
                             ![c].rows = new, ![c].pass = pass]
  BY <1>2, <1>b
<1> HIDE DEF pass
<1>8. /\ coord' \in [Coords -> CoordRec]
      /\ \A d \in Coords \ {c} : coord'[d] = coord[d]
      /\ coord'[c].pc = "send" /\ coord'[c].at = 1 /\ coord'[c].pos = start
      /\ coord'[c].rows = new /\ coord'[c].pass = pass
      /\ coord'[c].right = TRUE /\ coord'[c].owed = coord[c].owed
  BY <1>0, <1>3, <1>4, <1>5, <1>6, <1>7, Zenon DEF Shapes, CoordRec, Over
<1>9. Sound(c)'
  <2>1. start <= Len(new)
    BY <1>3, <1>4 DEF Rows, Over
  <2>2. \A p \in start + 1 .. start + n : new[p] = stamp
    BY <1>4 DEF Over
  <2>3. start + n <= Len(new)
    BY <1>4 DEF Over
  <2> QED
    BY <1>5, <1>8, <2>1, <2>2, <2>3, Zenon DEF Sound
<1>10. ASSUME NEW v \in W PROVE Pair(c, v)'
  <2>1. v \in Nat /\ 1 <= v
    BY LanAssumption DEF W
  <2>2. ~Out(c, v) /\ ~Out(c, v)' /\ Open(c, v) /\ ~Fresh(c, v)'
    BY <1>1, <1>8 DEF Out, Open, Fresh
  <2>3. Upto(c, v)' = start
    BY <1>8, <2>1, <2>2 DEF Upto, Passed, At
  <2>4. Unowed(c)' <=> Unowed(c)
    BY <1>8, Zenon DEF Unowed
  <2>5. ASSUME Unowed(c), ~conn[c][v].shut
        PROVE  Agree(start, new, worker[v].rows)
    <3>1. start \in 0 .. coord[c].pos
      OBVIOUS
    <3>2. Agree(start, rows, worker[v].rows)
      BY <2>2, <2>5, <3>1, ContextAgrees, Zenon
    <3>3. \A p \in 1 .. start : new[p] = rows[p]
      <4>1. \A p \in 1 .. Len(rows) : p <= start => new[p] = rows[p]
        BY <1>4 DEF Over
      <4>2. start \in Nat /\ Len(rows) \in Nat /\ start <= Len(rows)
        BY <1>3
      <4> HIDE DEF rows
      <4> QED
        BY <4>1, <4>2
    <3>4. start <= Len(new)
      BY <1>3, <1>4 DEF Rows, Over
    <3> QED
      BY <3>2, <3>3, <3>4, Zenon DEF Agree
  <2> QED
    BY <1>1, <1>8, <2>2, <2>3, <2>4, <2>5, LineKept, Zenon
<1> QED
  BY <1>0, <1>1, <1>8, <1>9, <1>10, CoordinatorActs, Zenon DEF Shapes

LEMMA KeepsSend ==
  ASSUME IInv, NEW c \in Coords, Send(c)
  PROVE  IInv'
<1>a. PICK w \in W : w = At(c)
  BY Here
<1>0. /\ Shapes /\ Sound(c) /\ coord[c] \in CoordRec /\ passes' \in Nat
      /\ coord[c].pc = "send" /\ worker' = worker /\ backlog' = backlog
      /\ conn[c][w] \in ConnRec /\ Owned(c, w) /\ Served(c, w) /\ worker[w] \in WorkerRec
  BY Here DEF Send
<1> DEFINE m == RunOf(coord[c].pass.start, coord[c].pass.n, coord[c].pass.stamp, coord[c].right,
                      SubSeq(coord[c].rows, 1, coord[c].pass.start))
           calls == conn[c][w].toWorker
<1>1. m \in Asked /\ m.type = "RUN"
  <2>1. /\ coord[c].pass.start \in Nat /\ coord[c].pass.n \in Nat /\ coord[c].pass.stamp \in Nat
        /\ coord[c].rows \in Seq(Int) /\ Len(coord[c].rows) <= MaxCtx
    BY <1>0 DEF CoordRec, Pass, Rows
  <2>2. coord[c].pass.start + coord[c].pass.n <= MaxCtx
    BY <1>0, <2>1, LanAssumption DEF Sound
  <2>3. coord[c].right \in BOOLEAN
    BY <1>0, Zenon DEF CoordRec
  <2>4. SubSeq(coord[c].rows, 1, coord[c].pass.start) \in Seq(Int)
    BY <2>1, <1>0, <2>2 DEF Sound
  <2> QED
    BY <2>1, <2>2, <2>3, <2>4 DEF RunOf, Asked
<1>2. conn' = [conn EXCEPT ![c][w].toWorker = Append(calls, m)]
  BY <1>a DEF Send, RunOf
<1>3. Unowed(c) => m = Ask(c)
  BY <1>0 DEF Sound, Ask
<1> HIDE DEF m
<1>4. Append(calls, m) \in Seq(Calls) /\ calls \in Seq(Calls)
  BY <1>0, <1>1 DEF ConnRec, Calls
<1>5. /\ conn' \in [Coords -> [W -> ConnRec]]
      /\ \A d \in Coords \ {c} : conn'[d] = conn[d]
      /\ \A v \in W \ {w} : conn'[c][v] = conn[c][v]
      /\ conn'[c][w].toWorker = Append(calls, m)
      /\ conn'[c][w].toCoord = conn[c][w].toCoord
      /\ conn'[c][w].gone = conn[c][w].gone /\ conn'[c][w].shut = conn[c][w].shut
  <2>1. Wire(c, w, Append(calls, m), conn[c][w].toCoord)
    BY <1>0, <1>2, <1>4, Writes, Zenon
  <2> QED
    BY <2>1, Zenon DEF Wire
<1>6. /\ coord' \in [Coords -> CoordRec]
      /\ \A d \in Coords \ {c} : coord'[d] = coord[d]
      /\ coord'[c].pc = "wait" /\ coord'[c].at = coord[c].at /\ coord'[c].pos = coord[c].pos
      /\ coord'[c].rows = coord[c].rows /\ coord'[c].pass = coord[c].pass
      /\ coord'[c].right = coord[c].right /\ coord'[c].owed = coord[c].owed
  BY <1>0, Zenon DEF Send, Shapes, CoordRec
<1>7. Sound(c)'
  BY <1>0, <1>6, Zenon DEF Sound, Unowed
<1>b. Unowed(c)' <=> Unowed(c)
  BY <1>6, Zenon DEF Unowed
<1>c. At(c)' = w /\ w \in Nat /\ w <= Workers
  BY <1>a, <1>6, LanAssumption DEF At, W
<1>8. ASSUME NEW v \in W \ {w} PROVE Pair(c, v)'
  <2>1. ~Out(c, v) /\ ~Out(c, v)' /\ Open(c, v) /\ ~Fresh(c, v)'
    BY <1>a, <1>0, <1>c, <1>6 DEF Out, Open, Fresh
  <2>2. Upto(c, v)' = Upto(c, v)
    BY <1>a, <1>0, <1>c, <1>6, <2>1, Zenon DEF Upto, Passed
  <2>3. Served(c, v)
    BY Here
  <2> QED
    BY <1>0, <1>b, <1>5, <1>6, <2>1, <2>2, <2>3, LineKept, Zenon DEF Served
<1>9. Pair(c, w)'
  <2>1. Waits(c, w)' <=> Waits(c, w)
    BY <1>0, Zenon DEF Waits
  <2>2. ~Fresh(c, w)' /\ Open(c, w) /\ ~Out(c, w) /\ Out(c, w)'
    BY <1>a, <1>0, <1>c, <1>6 DEF Fresh, Open, Out
  <2>3. coord[c].pc # "gone" /\ coord'[c].pc # "gone"
    BY <1>0, <1>6
  <2>4. ~conn[c][w].gone /\ \A i \in DOMAIN calls : calls[i].type # "BYE"
    BY <1>0, <2>3, Zenon DEF Owned
  <2>5. \A i \in DOMAIN Append(calls, m) : Append(calls, m)[i].type # "BYE"
    BY <1>1, <1>4, <2>4, SMT
  <2>6. Owned(c, w)'
    BY <1>0, <1>5, <2>1, <2>2, <2>3, <2>5, Zenon DEF Owned, Owner
  <2>7. Greeted(c, w)'
    BY <1>6 DEF Greeted
  <2>8. Unowed(c) => Idle(c, w)
    BY <1>0, <2>2, Zenon DEF Served
  <2>9. Ask(c)' = Ask(c)
    BY <1>6, Zenon DEF Ask
  <2>10. Append(<<>>, m) = <<m>>
    OBVIOUS
  <2>11. Unowed(c) => Underway(c, w)'
    BY <1>0, <1>3, <1>5, <2>8, <2>9, <2>10, Zenon DEF Idle, Underway
  <2>12. Unowed(c) => Upto(c, w)' = coord[c].pos
    <3>1. Unowed(c) => conn'[c][w].toCoord = <<>>
      BY <1>5, <2>8, Zenon DEF Idle
    <3> QED
      BY <1>c, <1>6, <3>1 DEF Upto, Passed
  <2>13. Unowed(c) /\ ~conn[c][w].shut =>
           Owner(c, w) /\ Agree(coord[c].pos, coord[c].rows, worker[w].rows)
    BY <1>0, <2>2, ContextAgrees, Zenon DEF Served
  <2>14. Served(c, w)'
    BY <1>0, <1>b, <1>5, <1>6, <2>2, <2>11, <2>12, <2>13, Zenon DEF Served, Owner
  <2> QED
    BY <2>6, <2>7, <2>14 DEF Pair
<1> QED
  BY <1>0, <1>5, <1>6, <1>7, <1>8, <1>9, CoordinatorActs, Zenon

LEMMA KeepsReceive ==
  ASSUME IInv, NEW c \in Coords, Receive(c)
  PROVE  IInv'
<1>a. PICK w \in W : w = At(c)
  BY Here
<1>0. /\ Shapes /\ Sound(c) /\ coord[c] \in CoordRec /\ passes' \in Nat
      /\ coord[c].pc = "wait" /\ worker' = worker /\ backlog' = backlog
      /\ conn[c][w] \in ConnRec /\ Owned(c, w) /\ Served(c, w)
  BY Here DEF Receive
<1> DEFINE inbox == conn[c][w].toCoord
           right == coord[c].right /\ Head(inbox).right /\ Head(inbox).stamp = coord[c].pass.stamp
<1>1. /\ inbox # <<>> /\ Head(inbox).type = "RESULT"
      /\ conn' = [conn EXCEPT ![c][w].toCoord = Tail(inbox)]
      /\ coord' = IF w < Workers
                    THEN [coord EXCEPT ![c].pc = "send", ![c].at = @ + 1, ![c].right = right]
                    ELSE [coord EXCEPT ![c].pc = "idle", ![c].pos = @ + coord[c].pass.n,
                                       ![c].right = right]
  BY <1>a, Zenon DEF Receive, Fits, Answer, Line
<1>2. Tail(inbox) \in Seq(Answers)
  BY <1>0, <1>1 DEF ConnRec
<1>3. /\ conn' \in [Coords -> [W -> ConnRec]]
      /\ \A d \in Coords \ {c} : conn'[d] = conn[d]
      /\ \A v \in W \ {w} : conn'[c][v] = conn[c][v]
      /\ conn'[c][w].toCoord = Tail(inbox)
      /\ conn'[c][w].toWorker = conn[c][w].toWorker
      /\ conn'[c][w].gone = conn[c][w].gone /\ conn'[c][w].shut = conn[c][w].shut
  <2>1. Wire(c, w, conn[c][w].toWorker, Tail(inbox))
    BY <1>0, <1>1, <1>2, Reads, Zenon
  <2> QED
    BY <2>1, Zenon DEF Wire
<1>4. Unowed(c) =>
        /\ inbox = <<Reply(c)>> /\ Tail(inbox) = <<>>
        /\ ~conn[c][w].shut => conn[c][w].toWorker = <<>> /\ worker[w].pc = "serve"
  <2>1. Unowed(c) => Underway(c, w)
    BY <1>a, <1>0, Zenon DEF Served, Open, Out
  <2>2. inbox # <<Plain("ERROR")>>
    BY <1>1 DEF Plain
  <2>3. Unowed(c) => inbox = <<Reply(c)>>
    BY <1>1, <2>1, <2>2, Zenon DEF Underway
  <2>4. inbox = <<Reply(c)>> => Tail(inbox) = <<>>
    OBVIOUS
  <2> QED
    BY <1>1, <2>1, <2>3, <2>4, Zenon DEF Underway
<1>5. right \in BOOLEAN /\ (Unowed(c) => right = TRUE)
  <2>1. Unowed(c) => Head(inbox) = Reply(c)
    BY <1>4
  <2>2. Unowed(c) => coord[c].right = TRUE
    BY <1>0 DEF Sound
  <2>3. Unowed(c) => Head(inbox).right = TRUE /\ Head(inbox).stamp = coord[c].pass.stamp
    BY <2>1 DEF Reply, ResultOf
  <2> QED
    BY <2>2, <2>3, Zenon
<1> HIDE DEF right
<1>c. w \in Nat /\ 1 <= w /\ w <= Workers /\ Workers \in Nat
  BY LanAssumption DEF W
<1>d. coord[c].pos \in Nat /\ coord[c].pass.n \in Nat /\ coord[c].at = w
  BY <1>0, <1>a DEF CoordRec, Pass, At
<1>6. PICK pc \in {"send", "idle"}, at \in W, pos \in Nat :
        /\ IF w < Workers THEN pc = "send" /\ at = w + 1 /\ pos = coord[c].pos
           ELSE pc = "idle" /\ at = w /\ pos = coord[c].pos + coord[c].pass.n
        /\ coord' \in [Coords -> CoordRec]
        /\ \A d \in Coords \ {c} : coord'[d] = coord[d]
        /\ coord'[c].pc = pc /\ coord'[c].at = at /\ coord'[c].pos = pos
        /\ coord'[c].rows = coord[c].rows /\ coord'[c].pass = coord[c].pass
        /\ coord'[c].right = right /\ coord'[c].owed = coord[c].owed
  <2>1. CASE w < Workers
    <3>1. PICK at \in W : at = w + 1
      BY <1>c, <2>1 DEF W
    <3>2. coord' = [coord EXCEPT ![c].pc = "send", ![c].at = at, ![c].right = right]
      BY <1>1, <1>d, <2>1, <3>1, Zenon
    <3> QED
      BY <1>0, <1>5, <1>d, <2>1, <3>1, <3>2, Zenon DEF Shapes, CoordRec
  <2>2. CASE ~(w < Workers)
    <3>1. PICK pos \in Nat : pos = coord[c].pos + coord[c].pass.n
      BY <1>d
    <3>2. coord' = [coord EXCEPT ![c].pc = "idle", ![c].pos = pos, ![c].right = right]
      BY <1>1, <2>2, <3>1, Zenon
    <3> QED
      BY <1>0, <1>5, <1>d, <2>2, <3>1, <3>2, Zenon DEF Shapes, CoordRec
  <2> QED
    BY <2>1, <2>2
<1>b. Unowed(c)' <=> Unowed(c)
  BY <1>6, Zenon DEF Unowed
<1>7. Sound(c)'
  <2>1. pos <= Len(coord[c].rows)
    BY <1>0, <1>6 DEF Sound
  <2>2. pc = "send" => pos = coord[c].pos
    BY <1>6
  <2> QED
    BY <1>0, <1>b, <1>5, <1>6, <2>1, <2>2, Zenon DEF Sound
<1>8. \A v \in W : ~Fresh(c, v)' /\ ~Out(c, v)'
  BY <1>6 DEF Fresh, Out
<1>9. ASSUME NEW v \in W \ {w} PROVE Pair(c, v)'
  <2>1. v \in Nat /\ v # w /\ v <= Workers
    BY LanAssumption DEF W
  <2>2. ~Out(c, v) /\ Open(c, v)
    BY <1>a, <1>0 DEF Out, Open
  <2>3. Upto(c, v)' = Upto(c, v)
    <3>1. Passed(c, v) <=> v < w
      BY <1>0, <1>a, <2>2 DEF Passed
    <3>2. CASE w < Workers
      <4>1. Passed(c, v)' <=> v < w
        BY <1>6, <1>8, <1>c, <2>1, <3>2 DEF Passed, At
      <4> QED
        BY <1>6, <3>1, <3>2, <4>1, Zenon DEF Upto
    <3>3. CASE ~(w < Workers)
      <4>1. ~Passed(c, v)' /\ Passed(c, v)
        BY <1>6, <1>8, <1>c, <2>1, <3>1, <3>3 DEF Passed
      <4> QED
        BY <1>6, <3>3, <4>1, Zenon DEF Upto
    <3> QED
      BY <3>2, <3>3
  <2>4. Served(c, v)
    BY Here
  <2> QED
    BY <1>0, <1>b, <1>3, <1>6, <1>8, <2>2, <2>3, <2>4, LineKept, Zenon DEF Served
<1>10. Pair(c, w)'
  <2>1. Waits(c, w)' <=> Waits(c, w)
    BY <1>0, Zenon DEF Waits
  <2>2. coord[c].pc # "gone" /\ coord'[c].pc # "gone"
    BY <1>0, <1>6
  <2>3. Owned(c, w)'
    BY <1>0, <1>3, <1>8, <2>1, <2>2, Zenon DEF Owned, Owner
  <2>4. Open(c, w) /\ Passed(c, w)
    BY <1>0, <1>1, <1>a DEF Open, Passed, Out
  <2>5. Upto(c, w)' = Upto(c, w)
    <3>1. CASE w < Workers
      <4>1. Passed(c, w)'
        BY <1>6, <1>c, <3>1 DEF Passed, At
      <4> QED
        BY <1>6, <2>4, <3>1, <4>1, Zenon DEF Upto
    <3>2. CASE ~(w < Workers)
      <4>1. ~Passed(c, w)'
        BY <1>6, <1>8, <3>2 DEF Passed
      <4> QED
        BY <1>6, <2>4, <3>2, <4>1, Zenon DEF Upto
    <3> QED
      BY <3>1, <3>2
  <2>6. Unowed(c) => Idle(c, w)'
    BY <1>0, <1>3, <1>4, Zenon DEF Idle
  <2>7. Served(c, w)'
    BY <1>0, <1>b, <1>3, <1>6, <1>8, <2>4, <2>5, <2>6, Zenon DEF Served, Owner
  <2>8. Greeted(c, w)'
    BY <1>6 DEF Greeted
  <2> QED
    BY <2>3, <2>7, <2>8 DEF Pair
<1> QED
  BY <1>0, <1>3, <1>6, <1>7, <1>9, <1>10, CoordinatorActs, Zenon

LEMMA KeepsConnect ==
  ASSUME IInv, NEW c \in Coords, Connect(c)
  PROVE  IInv'
<1>a. PICK w \in W : w = At(c)
  BY Here
<1>0. /\ Shapes /\ Sound(c) /\ coord[c] \in CoordRec /\ passes' \in Nat
      /\ coord[c].pc = "connect" /\ worker' = worker
      /\ conn[c][w] \in ConnRec /\ Owned(c, w)
  BY Here DEF Connect
<1>1. conn[c][w] = NoConn /\ ~Waits(c, w) /\ ~Owner(c, w)
  <2>1. Fresh(c, w)
    BY <1>a, <1>0, LanAssumption DEF Fresh, W
  <2> QED
    BY <1>0, <2>1, Zenon DEF Owned
<1>2. /\ conn[c][w].toCoord = <<>> /\ conn[c][w].gone = FALSE /\ conn[c][w].shut = FALSE
  BY <1>1 DEF NoConn
<1>3. /\ conn' \in [Coords -> [W -> ConnRec]]
      /\ \A d \in Coords \ {c} : conn'[d] = conn[d]
      /\ \A v \in W \ {w} : conn'[c][v] = conn[c][v]
      /\ conn'[c][w].toWorker = <<Plain("HELLO")>> /\ conn'[c][w].toCoord = <<>>
      /\ conn'[c][w].gone = FALSE /\ conn'[c][w].shut = FALSE
  <2>0. <<Plain("HELLO")>> \in Seq(Calls)
    BY DEF Calls
  <2>1. PICK s \in Seq(Calls) : s = <<Plain("HELLO")>>
    BY <2>0, Zenon
  <2>2. conn' = [conn EXCEPT ![c][w].toWorker = s]
    BY <1>a, <2>1 DEF Connect
  <2>3. /\ conn' \in [Coords -> [W -> ConnRec]]
        /\ \A d \in Coords \ {c} : conn'[d] = conn[d]
        /\ \A v \in W \ {w} : conn'[c][v] = conn[c][v]
        /\ conn'[c][w].toWorker = s /\ conn'[c][w].toCoord = conn[c][w].toCoord
        /\ conn'[c][w].gone = conn[c][w].gone /\ conn'[c][w].shut = conn[c][w].shut
    <3>1. Wire(c, w, s, conn[c][w].toCoord)
      BY <1>0, <2>2, Writes, Zenon
    <3> QED
      BY <3>1, Zenon DEF Wire
  <2> QED
    BY <1>2, <2>1, <2>3, Zenon
<1>4. /\ coord' \in [Coords -> CoordRec]
      /\ \A d \in Coords \ {c} : coord'[d] = coord[d]
      /\ coord'[c].pc = "hello" /\ coord'[c].at = coord[c].at /\ coord'[c].pos = coord[c].pos
      /\ coord'[c].rows = coord[c].rows /\ coord'[c].right = coord[c].right
      /\ coord'[c].owed = coord[c].owed
  BY <1>0, Zenon DEF Connect, Shapes, CoordRec
<1> DEFINE line == backlog[w]
<1>5. line \in Seq(Coords) /\ Append(line, c) \in Seq(Coords)
  BY <1>0 DEF Shapes
<1>6. /\ backlog' \in [W -> Seq(Coords)] /\ backlog'[w] = Append(line, c)
      /\ \A v \in W \ {w} : backlog'[v] = backlog[v]
  <2>1. backlog' = [backlog EXCEPT ![w] = Append(line, c)]
    BY <1>a DEF Connect
  <2> QED
    BY <1>0, <1>5, <2>1, Zenon DEF Shapes
<1>7. /\ DOMAIN line = 1 .. Len(line) /\ DOMAIN Append(line, c) = 1 .. Len(line) + 1
      /\ Append(line, c)[Len(line) + 1] = c /\ Len(line) \in Nat
      /\ \A i \in 1 .. Len(line) : Append(line, c)[i] = line[i]
  BY <1>5
<1>8. \A i \in DOMAIN line : line[i] # c
  BY <1>1, Zenon DEF Waits
<1> HIDE DEF line
<1>9. Shapes'
  BY <1>0, <1>3, <1>4, <1>6, Zenon DEF Shapes
<1>10. ASSUME NEW d \in Coords PROVE Sound(d)'
  <2>1. CASE d = c
    BY <1>0, <1>4, <2>1, Zenon DEF Sound, Unowed
  <2>2. CASE d # c
    <3>1. Sound(d) /\ coord'[d] = coord[d]
      BY <1>4, <2>2 DEF IInv
    <3> QED
      BY <3>1, Zenon DEF Sound, Unowed
  <2> QED
    BY <2>1, <2>2
<1>11. ASSUME NEW v \in W PROVE Busy(v)'
  <2>1. Busy(v) /\ worker'[v] = worker[v]
    BY <1>0 DEF IInv
  <2>2. CASE v = w
    <3>1. \A i, j \in DOMAIN line : line[i] = line[j] => i = j
      BY <2>1, <2>2, Zenon DEF Busy, line
    <3>2. \A i, j \in DOMAIN Append(line, c) : Append(line, c)[i] = Append(line, c)[j] => i = j
      BY <1>7, <1>8, <3>1
    <3> QED
      BY <1>6, <2>1, <2>2, <3>2, Zenon DEF Busy
  <2>3. CASE v # w
    BY <1>6, <2>1, <2>3, Zenon DEF Busy
  <2> QED
    BY <2>2, <2>3
<1>12. ASSUME NEW d \in Coords \ {c}, NEW v \in W PROVE Pair(d, v)'
  <2>1. Waits(d, v)' <=> Waits(d, v)
    <3>1. CASE v = w
      <4>1. (\E i \in DOMAIN Append(line, c) : Append(line, c)[i] = d) <=>
            (\E i \in DOMAIN line : line[i] = d)
        BY <1>7
      <4> QED
        BY <1>6, <3>1, <4>1, Zenon DEF Waits, line
    <3>2. CASE v # w
      BY <1>6, <3>2, Zenon DEF Waits
    <3> QED
      BY <3>1, <3>2
  <2> QED
    BY <1>0, <1>3, <1>4, <2>1, FarAway, Zenon
<1>13. ASSUME NEW v \in W \ {w} PROVE Pair(c, v)'
  <2>1. v \in Nat /\ w \in Nat /\ v # w /\ coord[c].at = w
    BY <1>a, LanAssumption DEF W, At
  <2>2. Fresh(c, v)' => Fresh(c, v)
    BY <1>0, <1>4, <2>1 DEF Fresh, At
  <2>3. Open(c, v)' => Open(c, v)
    BY <1>0, <1>4, <2>1 DEF Open, At
  <2>4. /\ ~Out(c, v) /\ ~Out(c, v)' /\ Upto(c, v) = coord[c].pos /\ Upto(c, v)' = coord[c].pos
        /\ ~(coord'[c].pc = "hello" /\ v = At(c)')
    BY <1>0, <1>4, <2>1 DEF Out, Upto, Passed, At
  <2>5. Unowed(c)' <=> Unowed(c)
    BY <1>4, Zenon DEF Unowed
  <2>6. Served(c, v)
    BY Here
  <2>7. coord'[c].pc = "gone" <=> coord[c].pc = "gone"
    BY <1>0, <1>4
  <2> QED
    BY <1>0, <1>3, <1>4, <1>6, <2>2, <2>3, <2>4, <2>5, <2>6, <2>7, LineKept, Zenon DEF Served
<1>14. Pair(c, w)'
  <2>1. Waits(c, w)'
    BY <1>6, <1>7 DEF Waits
  <2>2. ~Fresh(c, w)' /\ ~Open(c, w)'
    BY <1>a, <1>4, LanAssumption DEF Fresh, Open, At, W
  <2>3. ~Owner(c, w)'
    BY <1>0, <1>1, Zenon DEF Owner
  <2>4. \A i \in DOMAIN <<Plain("HELLO")>> : <<Plain("HELLO")>>[i].type # "BYE"
    BY DEF Plain
  <2>5. coord'[c].pc # "gone"
    BY <1>4
  <2>6. Owned(c, w)'
    BY <1>3, <2>1, <2>2, <2>3, <2>4, <2>5, Zenon DEF Owned
  <2>7. Greeted(c, w)'
    BY <1>3, <2>1, Zenon DEF Greeted, Asking
  <2>8. Served(c, w)'
    BY <2>2, Zenon DEF Served
  <2> QED
    BY <2>6, <2>7, <2>8 DEF Pair
<1> QED
  BY <1>9, <1>10, <1>11, <1>12, <1>13, <1>14, Zenon DEF IInv

-----------------------------------------------------------------------------
(* The worker's steps.                                                      *)

\* A step of a worker and its peer.
LEMMA PeerActs ==
  ASSUME IInv, NEW w \in W, NEW c \in Coords, worker[w].with = c,
         coord' = coord, backlog' = backlog, passes' = passes,
         worker' \in [W -> WorkerRec], \A v \in W \ {w} : worker'[v] = worker[v],
         worker'[w].with \in {c, Nobody},
         worker'[w].pc = "accept" <=> worker'[w].with = Nobody,
         worker'[w].pc = "compute" => worker'[w].run \in Asked,
         conn' \in [Coords -> [W -> ConnRec]], \A d \in Coords \ {c} : conn'[d] = conn[d],
         \A v \in W \ {w} : conn'[c][v] = conn[c][v],
         Pair(c, w)'
  PROVE  IInv'
<1>1. Shapes'
  BY Zenon DEF IInv, Shapes
<1>2. Busy(w)'
  BY Zenon DEF IInv, Busy
<1>3. ASSUME NEW d \in Coords PROVE Pair(d, w)'
  <2>1. CASE d = c
    BY <2>1
  <2>2. CASE d # c
    <3>1. Waits(d, w)' <=> Waits(d, w)
      BY Zenon DEF Waits
    <3>2. worker[w].with # d /\ worker'[w].with # d
      BY <2>2, LanAssumption
    <3>3. d \in Coords \ {c}
      BY <2>2
    <3> QED
      BY <3>1, <3>2, <3>3, FarAway, Zenon
  <2> QED
    BY <2>1, <2>2
<1>4. \A v \in W \ {w} : \A d \in Coords : conn'[d][v] = conn[d][v]
  OBVIOUS
<1> QED
  BY <1>1, <1>2, <1>3, <1>4, WorkerActs, Zenon

\* What a worker with a peer has.
LEMMA There ==
  ASSUME IInv, NEW w \in W, worker[w].pc # "accept"
  PROVE  \E c \in Coords :
           /\ c = Peer(w) /\ worker[w].with = c
           /\ Shapes /\ Sound(c) /\ Busy(w) /\ worker[w] \in WorkerRec /\ coord[c] \in CoordRec
           /\ conn[c][w] \in ConnRec /\ Owned(c, w) /\ Greeted(c, w) /\ Served(c, w)
           /\ ~conn[c][w].shut /\ ~Fresh(c, w) /\ ~Waits(c, w)
<1>1. Shapes /\ Busy(w) /\ worker[w] \in WorkerRec
  BY DEF IInv, Shapes
<1>2. worker[w].with \in Coords
  <2>1. worker[w].with \in Coords \cup {Nobody} /\ worker[w].with # Nobody
    BY <1>1 DEF WorkerRec, Busy
  <2> QED
    BY <2>1
<1>3. PICK c \in Coords : c = worker[w].with
  BY <1>2, Zenon
<1>4. /\ Sound(c) /\ coord[c] \in CoordRec
      /\ conn[c][w] \in ConnRec /\ Owned(c, w) /\ Greeted(c, w) /\ Served(c, w)
  BY DEF IInv, Shapes, Pair
<1>5. ~conn[c][w].shut /\ ~Fresh(c, w) /\ ~Waits(c, w)
  BY <1>3, <1>4, Zenon DEF Owned, Owner
<1> QED
  BY <1>1, <1>3, <1>4, <1>5, Zenon DEF Peer

\* The worker gives the connection up.
LEMMA CloseSet ==
  ASSUME Shapes, NEW c \in Coords, NEW w \in W, NEW s \in Seq(Answers),
         conn' = [conn EXCEPT ![c][w].toCoord = s, ![c][w].shut = TRUE]
  PROVE  /\ conn' \in [Coords -> [W -> ConnRec]]
         /\ \A d \in Coords \ {c} : conn'[d] = conn[d]
         /\ \A v \in W \ {w} : conn'[c][v] = conn[c][v]
         /\ conn'[c][w].toCoord = s /\ conn'[c][w].toWorker = conn[c][w].toWorker
         /\ conn'[c][w].gone = conn[c][w].gone /\ conn'[c][w].shut = TRUE
<1> DEFINE l == [conn[c][w] EXCEPT !.toCoord = s, !.shut = TRUE]
           g == [conn EXCEPT ![c][w] = l]
<1>1. conn \in [Coords -> [W -> ConnRec]] /\ conn[c][w] \in ConnRec
  BY DEF Shapes
<1>2. conn' = g
  BY <1>1
<1>3. l \in ConnRec /\ l.toCoord = s /\ l.toWorker = conn[c][w].toWorker
      /\ l.gone = conn[c][w].gone /\ l.shut = TRUE
  BY <1>1, Zenon DEF ConnRec
<1> HIDE DEF l
<1>4. /\ g \in [Coords -> [W -> ConnRec]]
      /\ \A d \in Coords \ {c} : g[d] = conn[d]
      /\ \A v \in W \ {w} : g[c][v] = conn[c][v]
      /\ g[c][w] = l
  BY <1>1, <1>3, LineSet
<1> HIDE DEF g
<1> QED
  BY <1>2, <1>3, <1>4, Zenon

LEMMA GreetSet ==
  ASSUME Shapes, NEW c \in Coords, NEW w \in W, NEW s \in Seq(Calls), NEW t \in Seq(Answers),
         conn' = [conn EXCEPT ![c][w].toWorker = s, ![c][w].toCoord = t]
  PROVE  Wire(c, w, s, t)
<1> DEFINE l == [conn[c][w] EXCEPT !.toWorker = s, !.toCoord = t]
           g == [conn EXCEPT ![c][w] = l]
<1>1. conn \in [Coords -> [W -> ConnRec]] /\ conn[c][w] \in ConnRec
  BY DEF Shapes
<1>2. conn' = g
  BY <1>1
<1>3. l \in ConnRec /\ l.toWorker = s /\ l.toCoord = t
      /\ l.gone = conn[c][w].gone /\ l.shut = conn[c][w].shut
  BY <1>1, Zenon DEF ConnRec
<1> HIDE DEF l
<1>4. /\ g \in [Coords -> [W -> ConnRec]]
      /\ \A d \in Coords \ {c} : g[d] = conn[d]
      /\ \A v \in W \ {w} : g[c][v] = conn[c][v]
      /\ g[c][w] = l
  BY <1>1, <1>3, LineSet
<1> HIDE DEF g
<1> QED
  BY <1>2, <1>3, <1>4, Zenon DEF Wire

LEMMA KeepsCloses ==
  ASSUME IInv, NEW w \in W, NEW c \in Coords, c = Peer(w), worker[w].pc # "accept",
         coord' = coord, backlog' = backlog, passes' = passes,
         worker' \in [W -> WorkerRec], \A v \in W \ {w} : worker'[v] = worker[v],
         worker'[w].pc = "accept", worker'[w].with = Nobody,
         NEW says \in {<<>>, <<Plain("ERROR")>>}, worker[w].pc = "serve" => says = <<>>,
         Closes(w, says)
  PROVE  IInv'
<1>0. /\ worker[w].with = c /\ Shapes
      /\ conn[c][w] \in ConnRec /\ Owned(c, w) /\ Greeted(c, w) /\ Served(c, w)
      /\ ~conn[c][w].shut /\ ~Fresh(c, w) /\ ~Waits(c, w)
  BY There, Zenon
<1> DEFINE old == conn[c][w].toCoord
           new == old \o says
<1>1. old \in Seq(Answers) /\ new \in Seq(Answers)
  <2>1. old \in Seq(Answers)
    BY <1>0 DEF ConnRec
  <2>2. <<>> \in Seq(Answers) /\ <<Plain("ERROR")>> \in Seq(Answers)
    BY DEF Answers
  <2>3. says \in Seq(Answers)
    BY <2>2, Zenon
  <2> QED
    BY <2>1, <2>3
<1>2. (says = <<>> => new = old) /\ (old = <<>> => new = says)
  <2>1. \A s \in Seq(Answers) : s \o <<>> = s
    OBVIOUS
  <2>2. says \in Seq(Answers) => <<>> \o says = says
    OBVIOUS
  <2>3. <<>> \in Seq(Answers) /\ <<Plain("ERROR")>> \in Seq(Answers)
    BY DEF Answers
  <2> QED
    BY <1>1, <2>1, <2>2, <2>3, Zenon
<1>3. conn' = [conn EXCEPT ![c][w].toCoord = new, ![c][w].shut = TRUE]
  BY Zenon DEF Closes
<1> HIDE DEF new
<1>4. /\ conn' \in [Coords -> [W -> ConnRec]]
      /\ \A d \in Coords \ {c} : conn'[d] = conn[d]
      /\ \A v \in W \ {w} : conn'[c][v] = conn[c][v]
      /\ conn'[c][w].toCoord = new /\ conn'[c][w].toWorker = conn[c][w].toWorker
      /\ conn'[c][w].gone = conn[c][w].gone /\ conn'[c][w].shut = TRUE
  BY <1>0, <1>1, <1>3, CloseSet
<1>5. Pair(c, w)'
  <2>1. ~Waits(c, w)' /\ ~Fresh(c, w)'
    BY <1>0, Zenon DEF Waits, Fresh, At
  <2>2. ~Owner(c, w)'
    BY LanAssumption DEF Owner
  <2>3. Owned(c, w)'
    BY <1>0, <1>4, <2>1, <2>2, Zenon DEF Owned
  <2>4. Greeted(c, w)'
    <3> SUFFICES ASSUME coord[c].pc = "hello", w = At(c)
                 PROVE  new \in {<<>>, <<Plain("HELLO_OK")>>, <<Plain("ERROR")>>}
      BY <1>4, Zenon DEF Greeted, At
    <3>1. Asking(c, w) \/ Welcomed(c, w)
      BY <1>0, Zenon DEF Greeted
    <3> QED
      BY <1>2, <3>1, Zenon DEF Asking, Welcomed
  <2>5. Served(c, w)'
    <3> SUFFICES ASSUME Open(c, w), Unowed(c)
                 PROVE  (IF Out(c, w) THEN Underway(c, w) ELSE Idle(c, w))'
      BY <1>4, Zenon DEF Served, Open, Unowed, At
    <3>1. Out(c, w)' <=> Out(c, w)
      BY Zenon DEF Out, At
    <3>2. CASE Out(c, w)
      <4>1. Underway(c, w)
        BY <1>0, <3>2, Zenon DEF Served
      <4>2. new \in {<<>>, <<Reply(c)>>, <<Plain("ERROR")>>}
        BY <1>0, <1>2, <4>1, Zenon DEF Underway
      <4>3. Reply(c)' = Reply(c)
        BY Zenon DEF Reply
      <4> QED
        BY <1>4, <3>1, <3>2, <4>2, <4>3, Zenon DEF Underway
    <3>3. CASE ~Out(c, w)
      <4>1. Idle(c, w)
        BY <1>0, <3>3, Zenon DEF Served
      <4>2. new = <<>>
        BY <1>0, <1>2, <4>1, Zenon DEF Idle
      <4> QED
        BY <1>4, <3>1, <3>3, <4>2, Zenon DEF Idle
    <3> QED
      BY <3>2, <3>3
  <2> QED
    BY <2>3, <2>4, <2>5 DEF Pair
<1>6. worker'[w].pc = "accept" <=> worker'[w].with = Nobody
  OBVIOUS
<1>7. worker'[w].pc = "compute" => worker'[w].run \in Asked
  OBVIOUS
<1> QED
  BY <1>0, <1>4, <1>5, <1>6, <1>7, PeerActs, Zenon

LEMMA KeepsRefuse ==
  ASSUME IInv, NEW w \in W, Refuse(w) \/ Hangup(w)
  PROVE  IInv'
<1>1. worker[w].pc \in {"hello", "serve"} /\ Frees(w)
  BY DEF Refuse, Hangup
<1>2. PICK c \in Coords : c = Peer(w)
  BY <1>1, There, Zenon
<1>3. /\ worker' \in [W -> WorkerRec] /\ \A v \in W \ {w} : worker'[v] = worker[v]
      /\ worker'[w].pc = "accept" /\ worker'[w].with = Nobody
  <2>1. worker \in [W -> WorkerRec] /\ NoPass \in Asked \cup {NoPass}
    BY DEF IInv, Shapes
  <2> QED
    BY <1>1, <2>1, Zenon DEF Frees, WorkerRec
<1>4. coord' = coord /\ backlog' = backlog /\ passes' = passes
  BY DEF Refuse, Hangup
<1>5. PICK says \in {<<>>, <<Plain("ERROR")>>} :
        Closes(w, says) /\ (worker[w].pc = "serve" => says = <<>>)
  BY Zenon DEF Refuse, Hangup
<1>6. worker[w].pc # "accept"
  BY <1>1
<1> QED
  BY <1>2, <1>3, <1>4, <1>5, <1>6, KeepsCloses, Zenon

LEMMA KeepsFails ==
  ASSUME IInv, NEW w \in W, Fails(w)
  PROVE  IInv'
<1>1. /\ worker[w].pc = "compute" /\ coord' = coord /\ backlog' = backlog /\ passes' = passes
      /\ Closes(w, <<Plain("ERROR")>>)
  BY DEF Fails
<1>2. PICK c \in Coords : c = Peer(w) /\ Busy(w) /\ worker[w] \in WorkerRec
  BY <1>1, There, Zenon
<1> DEFINE new == Written(worker[w].rows, Run(w).start, Run(w).n, NoRow)
<1>3. new \in Rows
  <2>1. /\ worker[w].rows \in Rows /\ Run(w).start \in Nat /\ Run(w).n \in Nat
        /\ Run(w).start + Run(w).n <= MaxCtx
    BY <1>1, <1>2 DEF WorkerRec, Busy, Asked, Run
  <2>2. NoRow \in Int
    BY DEF NoRow
  <2>3. Over(new, worker[w].rows, Run(w).start, Run(w).n, NoRow)
    BY <2>1, <2>2, WrittenRows
  <2> QED
    BY <2>3 DEF Over
<1> DEFINE rec == [pc |-> "accept", with |-> Nobody, run |-> NoPass, rows |-> new]
<1>4. worker' = [worker EXCEPT ![w] = rec]
  BY DEF Fails
<1>5. rec \in WorkerRec /\ rec.pc = "accept" /\ rec.with = Nobody
  BY <1>3 DEF WorkerRec
<1> HIDE DEF rec
<1>6. /\ worker' \in [W -> WorkerRec] /\ \A v \in W \ {w} : worker'[v] = worker[v]
      /\ worker'[w].pc = "accept" /\ worker'[w].with = Nobody
  BY <1>4, <1>5, Zenon DEF IInv, Shapes
<1>7. worker[w].pc # "accept" /\ worker[w].pc # "serve"
  BY <1>1
<1> QED
  BY <1>1, <1>2, <1>6, <1>7, KeepsCloses, Zenon

\* A message taken leaves no BYE behind.
LEMMA TakesNoBye ==
  ASSUME NEW calls \in Seq(Calls), calls # <<>>
  PROVE  /\ Head(calls) \in Calls /\ Tail(calls) \in Seq(Calls)
         /\ (\A i \in DOMAIN calls : calls[i].type # "BYE") =>
              \A i \in DOMAIN Tail(calls) : Tail(calls)[i].type # "BYE"
<1>1. Head(calls) \in Calls /\ Tail(calls) \in Seq(Calls)
  OBVIOUS
<1>2. \A i \in DOMAIN Tail(calls) : i + 1 \in DOMAIN calls /\ Tail(calls)[i] = calls[i + 1]
  OBVIOUS
<1> QED
  BY <1>1, <1>2, Zenon

LEMMA KeepsGreet ==
  ASSUME IInv, NEW w \in W, Greet(w)
  PROVE  IInv'
<1>1. worker[w].pc = "hello" /\ coord' = coord /\ backlog' = backlog /\ passes' = passes
  BY DEF Greet
<1>2. PICK c \in Coords :
        /\ c = Peer(w) /\ worker[w].with = c /\ Shapes
        /\ conn[c][w] \in ConnRec /\ Owned(c, w) /\ Greeted(c, w) /\ Served(c, w)
        /\ ~conn[c][w].shut /\ ~Fresh(c, w) /\ ~Waits(c, w)
  BY <1>1, There, Zenon
<1> DEFINE calls == conn[c][w].toWorker
           old   == conn[c][w].toCoord
           new   == Append(old, Plain("HELLO_OK"))
<1>3. calls \in Seq(Calls) /\ calls # <<>> /\ old \in Seq(Answers)
  BY <1>2 DEF Greet, Ahead, Inbox, ConnRec
<1>4. new \in Seq(Answers)
  BY <1>3 DEF Answers
<1>5. /\ Tail(calls) \in Seq(Calls)
      /\ (\A i \in DOMAIN calls : calls[i].type # "BYE") =>
           \A i \in DOMAIN Tail(calls) : Tail(calls)[i].type # "BYE"
  BY <1>3, TakesNoBye
<1>6. conn' = [conn EXCEPT ![c][w].toWorker = Tail(calls), ![c][w].toCoord = new]
  BY <1>2, Zenon DEF Greet
<1>a. old = <<>> => new = <<Plain("HELLO_OK")>>
  OBVIOUS
<1>b. calls = <<Plain("HELLO")>> => Tail(calls) = <<>>
  OBVIOUS
<1> HIDE DEF new
<1>7. /\ conn' \in [Coords -> [W -> ConnRec]]
      /\ \A d \in Coords \ {c} : conn'[d] = conn[d]
      /\ \A v \in W \ {w} : conn'[c][v] = conn[c][v]
      /\ conn'[c][w].toWorker = Tail(calls) /\ conn'[c][w].toCoord = new
      /\ conn'[c][w].gone = conn[c][w].gone /\ conn'[c][w].shut = conn[c][w].shut
  <2>1. PICK rest \in Seq(Calls) : rest = Tail(calls)
    BY <1>5, Zenon
  <2>2. conn' = [conn EXCEPT ![c][w].toWorker = rest, ![c][w].toCoord = new]
    BY <1>6, <2>1, Zenon
  <2>3. /\ conn' \in [Coords -> [W -> ConnRec]]
        /\ \A d \in Coords \ {c} : conn'[d] = conn[d]
        /\ \A v \in W \ {w} : conn'[c][v] = conn[c][v]
        /\ conn'[c][w].toWorker = rest /\ conn'[c][w].toCoord = new
        /\ conn'[c][w].gone = conn[c][w].gone /\ conn'[c][w].shut = conn[c][w].shut
    <3>1. Shapes
      BY <1>2
    <3>2. Wire(c, w, rest, new)
      BY <1>4, <2>2, <3>1, GreetSet, Zenon
    <3> QED
      BY <3>2, Zenon DEF Wire
  <2> QED
    BY <2>1, <2>3, Zenon
<1>8. /\ worker' \in [W -> WorkerRec] /\ \A v \in W \ {w} : worker'[v] = worker[v]
      /\ worker'[w].pc = "serve" /\ worker'[w].with = c
  BY <1>2, Zenon DEF Greet, Shapes, WorkerRec
<1>9. Pair(c, w)'
  <2>1. ~Waits(c, w)' /\ ~Fresh(c, w)'
    BY <1>1, <1>2, Zenon DEF Waits, Fresh, At
  <2>2. Owned(c, w)'
    BY <1>1, <1>2, <1>5, <1>7, <2>1, Zenon DEF Owned
  <2>3. Greeted(c, w)'
    <3> SUFFICES ASSUME coord[c].pc = "hello", w = At(c)
                 PROVE  Welcomed(c, w)'
      BY <1>1, <1>2, <1>7, Zenon DEF Greeted, At
    <3>1. Asking(c, w)
      BY <1>1, <1>2, Zenon DEF Greeted, Welcomed
    <3> QED
      BY <1>a, <1>b, <1>7, <1>8, <3>1, Zenon DEF Asking, Welcomed, Owner
  <2>4. Served(c, w)'
    <3>1. ~(Open(c, w) /\ Unowed(c))
      BY <1>1, <1>2, Zenon DEF Served, Idle, Underway
    <3> QED
      BY <1>1, <3>1, Zenon DEF Served, Open, Unowed, At
  <2> QED
    BY <2>2, <2>3, <2>4 DEF Pair
<1>10. worker'[w].pc = "accept" <=> worker'[w].with = Nobody
  BY <1>8, LanAssumption
<1>11. worker'[w].pc # "compute" /\ worker'[w].with \in {c, Nobody}
  BY <1>8
<1> QED
  BY <1>1, <1>2, <1>7, <1>8, <1>9, <1>10, <1>11, PeerActs, Zenon

LEMMA KeepsTake ==
  ASSUME IInv, NEW w \in W, Take(w)
  PROVE  IInv'
<1>1. worker[w].pc = "serve" /\ coord' = coord /\ backlog' = backlog /\ passes' = passes
  BY DEF Take
<1>2. PICK c \in Coords :
        /\ c = Peer(w) /\ worker[w].with = c /\ Shapes
        /\ conn[c][w] \in ConnRec /\ Owned(c, w) /\ Greeted(c, w) /\ Served(c, w)
        /\ ~conn[c][w].shut /\ ~Fresh(c, w) /\ ~Waits(c, w)
  BY <1>1, There, Zenon
<1> DEFINE calls == conn[c][w].toWorker
<1>3. calls \in Seq(Calls) /\ calls # <<>> /\ Head(calls).type = "RUN"
  BY <1>2 DEF Take, Ahead, Inbox, ConnRec
<1>4. /\ Head(calls) \in Calls /\ Tail(calls) \in Seq(Calls)
      /\ (\A i \in DOMAIN calls : calls[i].type # "BYE") =>
           \A i \in DOMAIN Tail(calls) : Tail(calls)[i].type # "BYE"
  BY <1>3, TakesNoBye
<1>5. Head(calls) \in Asked
  BY <1>3, <1>4 DEF Calls, Plain
<1>6. conn' = [conn EXCEPT ![c][w].toWorker = Tail(calls)]
  BY <1>2, Zenon DEF Take
<1>7. /\ conn' \in [Coords -> [W -> ConnRec]]
      /\ \A d \in Coords \ {c} : conn'[d] = conn[d]
      /\ \A v \in W \ {w} : conn'[c][v] = conn[c][v]
      /\ conn'[c][w].toWorker = Tail(calls) /\ conn'[c][w].toCoord = conn[c][w].toCoord
      /\ conn'[c][w].gone = conn[c][w].gone /\ conn'[c][w].shut = conn[c][w].shut
  <2>1. PICK rest \in Seq(Calls) : rest = Tail(calls)
    BY <1>4, Zenon
  <2>2. conn' = [conn EXCEPT ![c][w].toWorker = rest]
    BY <1>6, <2>1, Zenon
  <2>3. /\ conn' \in [Coords -> [W -> ConnRec]]
        /\ \A d \in Coords \ {c} : conn'[d] = conn[d]
        /\ \A v \in W \ {w} : conn'[c][v] = conn[c][v]
        /\ conn'[c][w].toWorker = rest /\ conn'[c][w].toCoord = conn[c][w].toCoord
        /\ conn'[c][w].gone = conn[c][w].gone /\ conn'[c][w].shut = conn[c][w].shut
    <3>1. Shapes
      BY <1>2
    <3>2. Wire(c, w, rest, conn[c][w].toCoord)
      BY <2>2, <3>1, Writes, Zenon
    <3> QED
      BY <3>2, Zenon DEF Wire
  <2> QED
    BY <2>1, <2>3, Zenon
<1>8. /\ worker' \in [W -> WorkerRec] /\ \A v \in W \ {w} : worker'[v] = worker[v]
      /\ worker'[w].pc = "compute" /\ worker'[w].with = c
      /\ worker'[w].run = Head(calls) /\ worker'[w].rows = worker[w].rows
  <2>1. worker' = [worker EXCEPT ![w].pc = "compute", ![w].run = Head(calls)]
    BY <1>2, Zenon DEF Take, Inbox
  <2> QED
    BY <1>2, <1>5, <2>1, Zenon DEF Shapes, WorkerRec
<1>9. Pair(c, w)'
  <2>1. ~Waits(c, w)' /\ ~Fresh(c, w)'
    BY <1>1, <1>2, Zenon DEF Waits, Fresh, At
  <2>2. Owned(c, w)'
    BY <1>1, <1>2, <1>4, <1>7, <2>1, Zenon DEF Owned
  <2>3. Greeted(c, w)'
    <3>1. ~(coord[c].pc = "hello" /\ w = At(c))
      BY <1>1, <1>2, <1>3, Zenon DEF Greeted, Asking, Welcomed
    <3> QED
      BY <1>1, <3>1, Zenon DEF Greeted, At
  <2>4. Served(c, w)'
    <3> SUFFICES ASSUME Open(c, w), Unowed(c)
                 PROVE  /\ Out(c, w)' /\ Underway(c, w)' /\ Owner(c, w)'
                        /\ Agree(Upto(c, w), coord[c].rows, worker[w].rows)'
      BY <1>1, Zenon DEF Served, Open, Unowed, At
    <3>1. Out(c, w)
      BY <1>2, <1>3, Zenon DEF Served, Idle
    <3>2. Underway(c, w)
      BY <1>2, <3>1, Zenon DEF Served
    <3>3. calls = <<Ask(c)>> /\ conn[c][w].toCoord = <<>>
      BY <1>1, <1>2, <1>3, <3>2, Zenon DEF Underway
    <3>4. Head(calls) = Ask(c) /\ Tail(calls) = <<>>
      BY <3>3
    <3>5. Out(c, w)' /\ Ask(c)' = Ask(c) /\ Reply(c)' = Reply(c)
      BY <1>1, <3>1, Zenon DEF Out, At, Ask, Reply
    <3>6. Underway(c, w)'
      BY <1>7, <1>8, <3>3, <3>4, <3>5, Zenon DEF Underway
    <3>7. Upto(c, w)' = Upto(c, w)
      BY <1>1, <1>7, Zenon DEF Upto, Passed, Out, At
    <3>8. Owner(c, w)'
      BY <1>8, Zenon DEF Owner
    <3>9. Agree(Upto(c, w), coord[c].rows, worker[w].rows)
      BY <1>2, Zenon DEF Served
    <3> QED
      BY <1>1, <1>8, <3>5, <3>6, <3>7, <3>8, <3>9, Zenon
  <2> QED
    BY <2>2, <2>3, <2>4 DEF Pair
<1>10. worker'[w].pc = "accept" <=> worker'[w].with = Nobody
  BY <1>8, LanAssumption
<1>11. worker'[w].run \in Asked /\ worker'[w].with \in {c, Nobody}
  BY <1>5, <1>8
<1> QED
  BY <1>1, <1>2, <1>7, <1>8, <1>9, <1>10, <1>11, PeerActs, Zenon

\* Two that agree up to a pass agree on it once both have written it.
LEMMA AgreesFurther ==
  ASSUME NEW s \in Seq(Int), NEW t \in Rows, NEW start \in Nat, NEW n \in Nat, NEW stamp \in Int,
         NEW new, Over(new, t, start, n, stamp), Agree(start, s, t), start + n <= Len(s),
         \A p \in start + 1 .. start + n : s[p] = stamp
  PROVE  Agree(start + n, s, new)
<1>1. t \in Seq(Int) /\ Len(t) \in Nat /\ start <= Len(t)
  BY DEF Rows, Agree
<1>2. \A p \in 1 .. start : p \in 1 .. Len(t) /\ p <= start /\ s[p] = t[p]
  BY <1>1 DEF Agree
<1>3. \A p \in 1 .. start : s[p] = new[p]
  BY <1>2 DEF Over
<1>4. \A p \in start + 1 .. start + n : s[p] = new[p]
  BY DEF Over
<1>5. start + n <= Len(new)
  BY DEF Over
<1> QED
  BY <1>3, <1>4, <1>5 DEF Agree

LEMMA KeepsFinish ==
  ASSUME IInv, NEW w \in W, Finish(w)
  PROVE  IInv'
<1>1. worker[w].pc = "compute" /\ coord' = coord /\ backlog' = backlog /\ passes' = passes
  BY DEF Finish
<1>2. PICK c \in Coords :
        /\ c = Peer(w) /\ worker[w].with = c /\ Shapes /\ Sound(c) /\ Busy(w)
        /\ worker[w] \in WorkerRec /\ coord[c] \in CoordRec
        /\ conn[c][w] \in ConnRec /\ Owned(c, w) /\ Greeted(c, w) /\ Served(c, w)
        /\ ~conn[c][w].shut /\ ~Fresh(c, w) /\ ~Waits(c, w)
  BY <1>1, There, Zenon
<1>3. PICK run \in Asked : run = worker[w].run
  BY <1>1, <1>2, Zenon DEF Busy
<1>4. /\ run.start \in Nat /\ run.n \in Nat /\ run.stamp \in Nat /\ run.stamp \in Int
      /\ run.start + run.n <= MaxCtx
      /\ worker[w].rows \in Rows
  BY <1>2 DEF Asked, WorkerRec
<1>5. PICK rows : rows = Written(worker[w].rows, run.start, run.n, run.stamp)
  OBVIOUS
<1>6. Over(rows, worker[w].rows, run.start, run.n, run.stamp) /\ rows \in Rows
  <2>1. Over(rows, worker[w].rows, run.start, run.n, run.stamp)
    BY <1>4, <1>5, WrittenRows
  <2> QED
    BY <2>1 DEF Over
<1>7. /\ worker' \in [W -> WorkerRec] /\ \A v \in W \ {w} : worker'[v] = worker[v]
      /\ worker'[w].pc = "serve" /\ worker'[w].with = c /\ worker'[w].rows = rows
  <2>1. worker' = [worker EXCEPT ![w].pc = "serve", ![w].run = NoPass, ![w].rows = rows]
    BY <1>3, <1>5, Zenon DEF Finish, Run
  <2>2. NoPass \in Asked \cup {NoPass}
    OBVIOUS
  <2> QED
    BY <1>2, <1>6, <2>1, <2>2, Zenon DEF Shapes, WorkerRec
<1> DEFINE m   == ResultOf(run.n, run.stamp, run.right /\ Agrees(w))
           old == conn[c][w].toCoord
<1>8. m \in Answers
  <2>1. (run.right /\ Agrees(w)) \in BOOLEAN
    BY Zenon
  <2>2. PICK right \in BOOLEAN : right = (run.right /\ Agrees(w))
    BY <2>1, Zenon
  <2>3. ResultOf(run.n, run.stamp, right) \in Answers
    BY <1>4 DEF ResultOf, Answers
  <2> QED
    BY <2>2, <2>3, Zenon
<1>9. conn' = [conn EXCEPT ![c][w].toCoord = Append(old, m)]
  BY <1>2, <1>3, Zenon DEF Finish, Replies, Run, ResultOf
<1> HIDE DEF m
<1>10. Append(old, m) \in Seq(Answers) /\ (old = <<>> => Append(old, m) = <<m>>)
  <2>1. old \in Seq(Answers)
    BY <1>2, Zenon DEF ConnRec
  <2> HIDE DEF old
  <2>2. Append(old, m) \in Seq(Answers)
    BY <1>8, <2>1
  <2>3. old = <<>> => Append(old, m) = <<m>>
    OBVIOUS
  <2> QED
    BY <2>2, <2>3
<1>11. /\ conn' \in [Coords -> [W -> ConnRec]]
       /\ \A d \in Coords \ {c} : conn'[d] = conn[d]
       /\ \A v \in W \ {w} : conn'[c][v] = conn[c][v]
       /\ conn'[c][w].toCoord = Append(old, m) /\ conn'[c][w].toWorker = conn[c][w].toWorker
       /\ conn'[c][w].gone = conn[c][w].gone /\ conn'[c][w].shut = conn[c][w].shut
  <2>1. Shapes
    BY <1>2
  <2>2. PICK new \in Seq(Answers) : new = Append(old, m)
    BY <1>10, Zenon
  <2>3. conn' = [conn EXCEPT ![c][w].toCoord = new]
    BY <1>9, <2>2, Zenon
  <2>4. /\ conn' \in [Coords -> [W -> ConnRec]]
        /\ \A d \in Coords \ {c} : conn'[d] = conn[d]
        /\ \A v \in W \ {w} : conn'[c][v] = conn[c][v]
        /\ conn'[c][w].toCoord = new /\ conn'[c][w].toWorker = conn[c][w].toWorker
        /\ conn'[c][w].gone = conn[c][w].gone /\ conn'[c][w].shut = conn[c][w].shut
    <3>1. Wire(c, w, conn[c][w].toWorker, new)
      BY <2>1, <2>3, Reads, Zenon
    <3> QED
      BY <3>1, Zenon DEF Wire
  <2> QED
    BY <2>2, <2>4, Zenon
<1>12. Pair(c, w)'
  <2>1. ~Waits(c, w)' /\ ~Fresh(c, w)'
    BY <1>1, <1>2, Zenon DEF Waits, Fresh, At
  <2>2. Owned(c, w)'
    BY <1>1, <1>2, <1>11, <2>1, Zenon DEF Owned
  <2>3. Greeted(c, w)'
    <3>1. ~(coord[c].pc = "hello" /\ w = At(c))
      BY <1>1, <1>2, Zenon DEF Greeted, Asking, Welcomed
    <3> QED
      BY <1>1, <3>1, Zenon DEF Greeted, At
  <2>4. Served(c, w)'
    <3> SUFFICES ASSUME Open(c, w), Unowed(c)
                 PROVE  /\ Out(c, w)' /\ Underway(c, w)' /\ Owner(c, w)'
                        /\ Agree(Upto(c, w), coord[c].rows, worker[w].rows)'
      BY <1>1, Zenon DEF Served, Open, Unowed, At
    <3>1. Out(c, w)
      BY <1>1, <1>2, Zenon DEF Served, Idle
    <3>2. Underway(c, w)
      BY <1>2, <3>1, Zenon DEF Served
    <3>3. conn[c][w].toWorker = <<>> /\ old = <<>> /\ run = Ask(c)
      BY <1>1, <1>2, <1>3, <3>2, Zenon DEF Underway
    <3>4. coord[c].pc = "wait" /\ At(c) = w
      BY <3>1 DEF Out
    <3>5. /\ run.start = coord[c].pos /\ run.n = coord[c].pass.n
          /\ run.stamp = coord[c].pass.stamp /\ run.right = TRUE
          /\ run.below = SubSeq(coord[c].rows, 1, coord[c].pos)
      BY <1>2, <3>3, <3>4 DEF Ask, RunOf, Sound
    <3>6. /\ coord[c].rows \in Seq(Int) /\ worker[w].rows \in Seq(Int)
          /\ coord[c].pos \in Nat /\ coord[c].pos <= Len(coord[c].rows)
          /\ coord[c].pos + coord[c].pass.n <= Len(coord[c].rows)
      BY <1>2, <1>4, <3>4 DEF CoordRec, Rows, Sound
    <3>7. Agree(coord[c].pos, coord[c].rows, worker[w].rows)
      BY <1>2, ContextAgrees
    <3>8. Agrees(w)
      <4>1. IsPrefix(SubSeq(coord[c].rows, 1, coord[c].pos), worker[w].rows)
        BY <3>6, <3>7, PrefixAgrees
      <4> QED
        BY <1>3, <3>5, <4>1, Zenon DEF Agrees, Run
    <3>9. m = Reply(c)
      BY <3>5, <3>8, Zenon DEF m, Reply
    <3>10. Reply(c)' = Reply(c) /\ Out(c, w)' /\ Owner(c, w)'
      BY <1>1, <1>7, <3>1, Zenon DEF Reply, Out, At, Owner
    <3>11. Append(old, m) = <<Reply(c)>>
      BY <1>10, <3>3, <3>9, Zenon
    <3>12. Underway(c, w)'
      BY <1>7, <1>11, <3>3, <3>10, <3>11, Zenon DEF Underway
    <3>13. Upto(c, w)' = coord[c].pos + coord[c].pass.n
      <4>1. conn'[c][w].toCoord # <<>>
        BY <1>11, <3>11
      <4> QED
        BY <1>1, <3>10, <4>1, Zenon DEF Upto, Passed
    <3>14. \A p \in coord[c].pos + 1 .. coord[c].pos + coord[c].pass.n :
             coord[c].rows[p] = coord[c].pass.stamp
      BY <1>2, <3>4 DEF Sound
    <3>15. Agree(run.start + run.n, coord[c].rows, rows)
      BY <1>4, <1>6, <3>5, <3>6, <3>7, <3>14, AgreesFurther
    <3> QED
      BY <1>1, <1>7, <3>5, <3>10, <3>12, <3>13, <3>15, Zenon
  <2> QED
    BY <2>2, <2>3, <2>4 DEF Pair
<1>13. worker'[w].pc = "accept" <=> worker'[w].with = Nobody
  BY <1>7, LanAssumption
<1>14. worker'[w].pc # "compute" /\ worker'[w].with \in {c, Nobody}
  BY <1>7
<1> QED
  BY <1>1, <1>2, <1>7, <1>11, <1>12, <1>13, <1>14, PeerActs, Zenon

LEMMA KeepsAccept ==
  ASSUME IInv, NEW w \in W, Accept(w)
  PROVE  IInv'
<1>1. /\ worker[w].pc = "accept" /\ coord' = coord /\ conn' = conn /\ passes' = passes
      /\ Shapes /\ Busy(w) /\ backlog[w] # <<>>
  BY DEF Accept, IInv
<1> DEFINE line == backlog[w]
<1>2. line \in Seq(Coords) /\ line # <<>>
  BY <1>1 DEF Shapes
<1>3. /\ Head(line) \in Coords /\ Tail(line) \in Seq(Coords)
      /\ 1 \in DOMAIN line /\ Head(line) = line[1]
      /\ \A i \in DOMAIN Tail(line) : i + 1 \in DOMAIN line /\ Tail(line)[i] = line[i + 1]
                                      /\ i + 1 # 1
      /\ \A i \in DOMAIN line : i # 1 => \E j \in DOMAIN Tail(line) : Tail(line)[j] = line[i]
  <2>1. \A i \in DOMAIN line : i # 1 => i - 1 \in DOMAIN Tail(line) /\ Tail(line)[i - 1] = line[i]
    BY <1>2
  <2>2. Head(line) \in Coords /\ Tail(line) \in Seq(Coords)
    BY <1>2
  <2>3. 1 \in DOMAIN line /\ Head(line) = line[1]
    BY <1>2
  <2>4. \A i \in DOMAIN Tail(line) : i + 1 \in DOMAIN line /\ Tail(line)[i] = line[i + 1]
                                     /\ i + 1 # 1
    BY <1>2
  <2> QED
    BY <2>1, <2>2, <2>3, <2>4, Zenon
<1>4. PICK c \in Coords : c = Head(line)
  BY <1>3, Zenon
<1>5. /\ backlog' \in [W -> Seq(Coords)] /\ backlog'[w] = Tail(line)
      /\ \A v \in W \ {w} : backlog'[v] = backlog[v]
  <2>1. backlog' = [backlog EXCEPT ![w] = Tail(line)]
    BY DEF Accept
  <2> QED
    BY <1>1, <1>3, <2>1, Zenon DEF Shapes
<1>6. /\ worker' \in [W -> WorkerRec] /\ \A v \in W \ {w} : worker'[v] = worker[v]
      /\ worker'[w].pc = "hello" /\ worker'[w].with = c
  <2>1. worker' = [worker EXCEPT ![w].pc = "hello", ![w].with = c]
    BY <1>4, Zenon DEF Accept
  <2> QED
    BY <1>1, <2>1, Zenon DEF Shapes, WorkerRec
<1>7. \A i, j \in DOMAIN line : line[i] = line[j] => i = j
  BY <1>1, Zenon DEF Busy
<1>8. worker[w].with = Nobody /\ c # Nobody
  BY <1>1, LanAssumption DEF Busy
<1> HIDE DEF line
<1>9. Shapes'
  BY <1>1, <1>5, <1>6, Zenon DEF Shapes
<1>10. Busy(w)'
  <2>1. \A i, j \in DOMAIN Tail(line) : i + 1 = j + 1 => i = j
    BY <1>2
  <2>2. \A i, j \in DOMAIN Tail(line) : Tail(line)[i] = Tail(line)[j] => i = j
    <3> TAKE i, j \in DOMAIN Tail(line)
    <3>1. /\ i + 1 \in DOMAIN line /\ Tail(line)[i] = line[i + 1]
          /\ j + 1 \in DOMAIN line /\ Tail(line)[j] = line[j + 1]
      BY <1>3, Zenon
    <3>2. line[i + 1] = line[j + 1] => i + 1 = j + 1
      BY <1>7, <3>1, Zenon
    <3> QED
      BY <2>1, <3>1, <3>2, Zenon
  <2>3. worker'[w].pc # "accept" /\ worker'[w].pc # "compute"
    BY <1>6
  <2> QED
    BY <1>5, <1>6, <1>8, <2>2, <2>3, Zenon DEF Busy
<1>11. ASSUME NEW d \in Coords \ {c} PROVE Pair(d, w)'
  <2>1. Waits(d, w)' <=> Waits(d, w)
    <3>1. (\E i \in DOMAIN Tail(line) : Tail(line)[i] = d) <=> (\E i \in DOMAIN line : line[i] = d)
      BY <1>3, <1>4, Zenon
    <3> QED
      BY <1>5, <3>1, Zenon DEF Waits, line
  <2>2. worker[w].with # d /\ worker'[w].with # d
    BY <1>6, <1>8, LanAssumption
  <2> QED
    BY <1>1, <2>1, <2>2, FarAway, Zenon
<1>12. Pair(c, w)'
  <2>1. Owned(c, w) /\ Greeted(c, w) /\ Served(c, w)
    BY DEF IInv, Pair
  <2>2. Waits(c, w) /\ ~Owner(c, w)
    BY <1>3, <1>4, <1>8, Zenon DEF Waits, Owner, line
  <2>3. ~conn[c][w].shut /\ ~Fresh(c, w)
    BY <2>1, <2>2, Zenon DEF Owned
  <2>4. ~Waits(c, w)'
    <3>1. \A i \in DOMAIN Tail(line) : Tail(line)[i] # c
      BY <1>3, <1>4, <1>7, Zenon
    <3> QED
      BY <1>5, <3>1, Zenon DEF Waits
  <2>5. ~Fresh(c, w)'
    BY <1>1, <2>3, Zenon DEF Fresh, At
  <2>6. Owned(c, w)'
    BY <1>1, <2>1, <2>3, <2>4, <2>5, Zenon DEF Owned
  <2>7. Greeted(c, w)'
    <3> SUFFICES ASSUME coord[c].pc = "hello", w = At(c)
                 PROVE  Asking(c, w)'
      BY <1>1, <2>3, Zenon DEF Greeted, At
    <3>1. Asking(c, w)
      BY <2>1, <2>2, <2>3, Zenon DEF Greeted, Welcomed
    <3> QED
      BY <1>1, <1>6, <3>1, Zenon DEF Asking, Owner
  <2>8. Served(c, w)'
    <3>1. ~(Open(c, w) /\ Unowed(c))
      BY <2>1, <2>2, <2>3, Zenon DEF Served
    <3> QED
      BY <1>1, <3>1, Zenon DEF Served, Open, Unowed, At
  <2> QED
    BY <2>6, <2>7, <2>8 DEF Pair
<1>13. \A v \in W \ {w} : /\ worker'[v] = worker[v] /\ backlog'[v] = backlog[v]
                          /\ \A d \in Coords : conn'[d][v] = conn[d][v]
  BY <1>1, <1>5, <1>6, Zenon
<1>14. \A d \in Coords : Pair(d, w)'
  BY <1>11, <1>12
<1> QED
  BY <1>1, <1>9, <1>10, <1>13, <1>14, WorkerActs, Zenon

LEMMA KeepsRestart ==
  ASSUME IInv, NEW w \in W, Restart(w)
  PROVE  IInv'
<1>1. coord' = coord /\ passes' = passes /\ Shapes
  BY DEF Restart, IInv
<1> DEFINE rec == [pc |-> "accept", with |-> Nobody, rows |-> <<>>, run |-> NoPass]
<1>2. rec \in WorkerRec /\ rec.pc = "accept" /\ rec.with = Nobody
  <2>1. <<>> \in Rows
    BY LanAssumption DEF Rows
  <2> QED
    BY <2>1 DEF WorkerRec
<1>3. worker' = [worker EXCEPT ![w] = rec]
  BY DEF Restart
<1> HIDE DEF rec
<1>4. /\ worker' \in [W -> WorkerRec] /\ \A v \in W \ {w} : worker'[v] = worker[v]
      /\ worker'[w].pc = "accept" /\ worker'[w].with = Nobody
  BY <1>1, <1>2, <1>3, Zenon DEF Shapes
<1>5. /\ backlog' \in [W -> Seq(Coords)] /\ backlog'[w] = <<>>
      /\ \A v \in W \ {w} : backlog'[v] = backlog[v]
  <2>1. <<>> \in Seq(Coords)
    OBVIOUS
  <2> QED
    BY <1>1, <2>1, Zenon DEF Restart, Shapes
<1> DEFINE Met(d) == d = Peer(w) \/ d \in ToSet(backlog[w])
<1>6. PICK lost \in BOOLEAN :
        conn' = [d \in Coords |->
          IF Met(d)
            THEN [conn[d] EXCEPT ![w].shut = TRUE,
                                 ![w].toCoord = IF lost THEN <<>> ELSE @]
            ELSE conn[d]]
  BY Zenon DEF Restart
<1>7. \A d \in Coords : Met(d) <=> Owner(d, w) \/ Waits(d, w)
  BY Zenon DEF Peer, ToSet, Owner, Waits
<1> HIDE DEF Met
<1>8. ASSUME NEW d \in Coords, Met(d)
      PROVE  /\ conn'[d] \in [W -> ConnRec]
             /\ \A v \in W \ {w} : conn'[d][v] = conn[d][v]
             /\ conn'[d][w].toCoord \in {<<>>, conn[d][w].toCoord}
             /\ conn'[d][w].toWorker = conn[d][w].toWorker
             /\ conn'[d][w].gone = conn[d][w].gone /\ conn'[d][w].shut = TRUE
  <2>1. conn[d] \in [W -> ConnRec] /\ conn[d][w] \in ConnRec
    BY <1>1 DEF Shapes
  <2>2. PICK s \in Seq(Answers) : s = IF lost THEN <<>> ELSE conn[d][w].toCoord
    <3>1. <<>> \in Seq(Answers) /\ conn[d][w].toCoord \in Seq(Answers)
      BY <2>1 DEF ConnRec
    <3> QED
      BY <3>1, Zenon
  <2> DEFINE l == [conn[d][w] EXCEPT !.shut = TRUE, !.toCoord = s]
  <2>3. conn'[d] = [conn[d] EXCEPT ![w] = l]
    <3>1. conn'[d] = [conn[d] EXCEPT ![w].shut = TRUE,
                                     ![w].toCoord = IF lost THEN <<>> ELSE @]
      BY <1>6, <1>8, Zenon
    <3> QED
      BY <2>1, <2>2, <3>1
  <2>4. /\ l \in ConnRec /\ l.toCoord = s /\ l.toWorker = conn[d][w].toWorker
        /\ l.gone = conn[d][w].gone /\ l.shut = TRUE
    BY <2>1, Zenon DEF ConnRec
  <2> HIDE DEF l
  <2> QED
    BY <2>1, <2>2, <2>3, <2>4, Zenon
<1>9. ASSUME NEW d \in Coords, ~Met(d) PROVE conn'[d] = conn[d]
  BY <1>6, <1>9, Zenon
<1>10. conn' \in [Coords -> [W -> ConnRec]]
  <2>1. \A d \in Coords : conn'[d] \in [W -> ConnRec]
    BY <1>1, <1>8, <1>9, Zenon DEF Shapes
  <2>2. conn' = [d \in Coords |-> conn'[d]]
    BY <1>6, Zenon
  <2> QED
    BY <2>1, <2>2, Zenon
<1>11. Shapes'
  BY <1>1, <1>4, <1>5, <1>10, Zenon DEF Shapes
<1>12. Busy(w)'
  <2>1. DOMAIN backlog'[w] = {}
    BY <1>5
  <2>2. worker'[w].pc # "compute"
    BY <1>4
  <2> QED
    BY <1>4, <2>1, <2>2, Zenon DEF Busy
<1>13. ASSUME NEW d \in Coords PROVE Pair(d, w)'
  <2>1. ~Waits(d, w)' /\ worker'[w].with # d
    BY <1>4, <1>5, LanAssumption DEF Waits
  <2>2. CASE ~Met(d)
    <3>1. ~Waits(d, w) /\ worker[w].with # d
      BY <1>7, <2>2, Zenon DEF Owner
    <3>2. conn'[d] = conn[d]
      BY <1>9, <2>2
    <3> QED
      BY <1>1, <2>1, <3>1, <3>2, FarAway, Zenon
  <2>3. CASE Met(d)
    <3>1. Owned(d, w) /\ Greeted(d, w) /\ Served(d, w)
      BY DEF IInv, Pair
    <3>2. ~conn[d][w].shut /\ ~Fresh(d, w)
      BY <1>7, <2>3, <3>1, Zenon DEF Owned
    <3>3. /\ conn'[d][w].toCoord \in {<<>>, conn[d][w].toCoord}
          /\ conn'[d][w].toWorker = conn[d][w].toWorker
          /\ conn'[d][w].gone = conn[d][w].gone /\ conn'[d][w].shut = TRUE
      BY <1>8, <2>3
    <3>4. ~Fresh(d, w)'
      BY <1>1, <3>2, Zenon DEF Fresh, At
    <3>5. Owned(d, w)'
      BY <1>1, <2>1, <3>1, <3>3, <3>4, Zenon DEF Owned, Owner
    <3>6. Greeted(d, w)'
      BY <1>1, <3>1, <3>2, <3>3, Zenon DEF Greeted, Asking, Welcomed, At
    <3>7. Served(d, w)'
      <4>1. Out(d, w)' <=> Out(d, w)
        BY <1>1, Zenon DEF Out, At
      <4>2. Reply(d)' = Reply(d)
        BY <1>1, Zenon DEF Reply
      <4>3. Underway(d, w) => Underway(d, w)'
        BY <3>3, <4>2, Zenon DEF Underway
      <4>4. Idle(d, w) => Idle(d, w)'
        BY <3>3, Zenon DEF Idle
      <4>5. (Open(d, w)' <=> Open(d, w)) /\ (Unowed(d)' <=> Unowed(d))
        BY <1>1, Zenon DEF Open, Unowed, At
      <4> QED
        BY <3>1, <3>3, <4>1, <4>3, <4>4, <4>5, Zenon DEF Served
    <3> QED
      BY <3>5, <3>6, <3>7 DEF Pair
  <2> QED
    BY <2>2, <2>3
<1>14. \A v \in W \ {w} : /\ worker'[v] = worker[v] /\ backlog'[v] = backlog[v]
                          /\ \A d \in Coords : conn'[d][v] = conn[d][v]
  BY <1>4, <1>5, <1>8, <1>9, Zenon
<1> QED
  BY <1>1, <1>11, <1>12, <1>13, <1>14, WorkerActs, Zenon

-----------------------------------------------------------------------------
(* The whole.                                                               *)

LEMMA Starts ==
  ASSUME Init
  PROVE  IInv
<1>1. PICK fit \in SUBSET Misfits :
        coord = [c \in Coords |-> [pc |-> "connect", at |-> 1, pos |-> 0, rows |-> <<>>,
                                   pass |-> NoPass, right |-> TRUE, owed |-> {},
                                   fits |-> c \in fit \/ c \notin Misfits]]
  BY Zenon DEF Init
<1>2. /\ 1 \in W /\ <<>> \in Rows /\ NoPass \in Pass /\ 0 \in Nat
      /\ <<>> \in Seq(Calls) /\ <<>> \in Seq(Answers) /\ <<>> \in Seq(Coords) /\ Len(<<>>) = 0
      /\ DOMAIN <<>> = {}
  BY LanAssumption DEF W, Rows, NoPass, Pass
<1>3. \A c \in Coords :
        /\ coord[c].pc = "connect" /\ coord[c].at = 1 /\ coord[c].pos = 0
        /\ coord[c].rows = <<>> /\ coord[c].right = TRUE
  BY <1>1
<1>4. \A w \in W : /\ worker[w].pc = "accept" /\ worker[w].with = Nobody
                   /\ backlog[w] = <<>>
  BY DEF Init
<1>5. \A c \in Coords, w \in W : conn[c][w] = NoConn
  BY DEF Init
<1>6. NoConn.toWorker = <<>> /\ NoConn.gone = FALSE /\ NoConn.shut = FALSE
  BY DEF NoConn
<1>7. Shapes
  <2>1. coord \in [Coords -> CoordRec]
    BY <1>1, <1>2, Zenon DEF CoordRec
  <2>2. worker \in [W -> WorkerRec]
    BY <1>2, Zenon DEF Init, WorkerRec
  <2>3. backlog \in [W -> Seq(Coords)] /\ passes \in Nat
    BY <1>2, Zenon DEF Init
  <2>4. NoConn \in ConnRec
    BY <1>2, Zenon DEF NoConn, ConnRec
  <2>5. conn \in [Coords -> [W -> ConnRec]]
    BY <2>4, Zenon DEF Init
  <2> QED
    BY <2>1, <2>2, <2>3, <2>5 DEF Shapes
<1>8. \A c \in Coords : Sound(c)
  BY <1>2, <1>3 DEF Sound
<1>9. \A w \in W : Busy(w)
  BY <1>2, <1>4 DEF Busy
<1>10. ASSUME NEW c \in Coords, NEW w \in W PROVE Pair(c, w)
  <2>1. ~Waits(c, w) /\ ~Owner(c, w)
    BY <1>2, <1>4, LanAssumption DEF Waits, Owner
  <2>2. Owned(c, w)
    <3>1. coord[c].pc # "gone"
      BY <1>3
    <3> QED
      BY <1>2, <1>5, <1>6, <2>1, <3>1, Zenon DEF Owned
  <2>3. ~Open(c, w) /\ coord[c].pc # "hello"
    BY <1>3, LanAssumption DEF Open, At, W
  <2> QED
    BY <2>2, <2>3 DEF Pair, Greeted, Served
<1> QED
  BY <1>7, <1>8, <1>9, <1>10 DEF IInv

LEMMA Iterates ==
  ASSUME IInv, [Next]_vars
  PROVE  IInv'
<1>1. ASSUME NEW c \in Coords, CoordStep(c) \/ Timeout(c) \/ User(c) PROVE IInv'
  BY <1>1, KeepsConnect, KeepsWelcome, KeepsHandshakeFails, KeepsBegin, KeepsTooLarge, KeepsSend,
     KeepsReceive, KeepsBadAnswer, KeepsLost, KeepsTimeout, Zenon DEF CoordStep, User
<1>2. ASSUME NEW w \in W, WorkerStep(w) \/ Fails(w) \/ Restart(w) PROVE IInv'
  BY <1>2, KeepsAccept, KeepsGreet, KeepsRefuse, KeepsTake, KeepsFinish, KeepsFails,
     KeepsRestart, Zenon DEF WorkerStep
<1>3. CASE UNCHANGED vars
  <2>1. /\ coord' = coord /\ worker' = worker /\ backlog' = backlog /\ conn' = conn
        /\ passes' = passes
    BY <1>3 DEF vars
  <2>2. Shapes'
    BY <2>1, Zenon DEF IInv, Shapes
  <2>3. \A c \in Coords : Sound(c)'
    BY <2>1, Zenon DEF IInv, Sound, Unowed
  <2>4. \A w \in W : Busy(w)'
    BY <2>1, Zenon DEF IInv, Busy
  <2>5. ASSUME NEW c \in Coords, NEW w \in W PROVE Pair(c, w)'
    <3>1. Waits(c, w)' <=> Waits(c, w)
      BY <2>1, Zenon DEF Waits
    <3> QED
      BY <2>1, <3>1, FarAway, Zenon
  <2> QED
    BY <2>2, <2>3, <2>4, <2>5 DEF IInv
<1> QED
  BY <1>1, <1>2, <1>3, Zenon DEF Next

\* Types: what TypeOK says of the coordinators and workers (lan.cpp:173-182,
\* 337-345), and of what the connections hold.
THEOREM TypeCorrect == Spec => []TypeOK
<1>1. Init => IInv
  BY Starts
<1>2. IInv /\ [Next]_vars => IInv'
  BY Iterates
<1>3. IInv => TypeOK
  BY Implies
<1> QED
  BY <1>1, <1>2, <1>3, PTL DEF Spec

\* Splitting the layers does not change the arithmetic (lan.h:43-44,
\* tests/test_lan.cpp:1-9), whatever fails and however many workers and
\* coordinators there are: a coordinator that never timed out has taken only
\* right answers, and the workers it still has keep the rows of its context.
THEOREM SplitExact == Spec => []SplitIsExact
<1>1. Init => IInv
  BY Starts
<1>2. IInv /\ [Next]_vars => IInv'
  BY Iterates
<1>3. IInv => SplitIsExact
  BY Implies
<1> QED
  BY <1>1, <1>2, <1>3, PTL DEF Spec

-----------------------------------------------------------------------------
(* The Wear transfer (WearTransfer), for every set of contents of the      *)
(* source, any number of jobs and channels, and every loss at a close.     *)

CONSTANTS Byte, Versions, Content

VARIABLES jobs, send, todo, pc, sending, paused, canceled, chans, received, listening,
          next, wpc, wcanceled, wstate

Wear == INSTANCE WearTransfer WITH job <- sending, dest <- received

Settings == Content \in [Versions -> Seq(Byte)]

\* The io threads at work on a channel.
Dialing == pc \in {"ack", "stream"}
Receiving == wpc \in {"loop", "read"}

\* Only the phone's own channel is up, and it carries the running job.
OneChannel ==
  /\ \A k \in DOMAIN chans : chans[k].open => k = Wear!Last /\ Dialing
  /\ Dialing => chans # <<>> /\ chans[Wear!Last].job = sending
  /\ pc # "idle" => sending \in DOMAIN jobs

\* A length promised is that of some version.
TotalsReal == \A j \in DOMAIN jobs : \E v \in Versions : jobs[j].total = Len(Content[v])

\* Nothing is on its way in a channel whose header has not been answered.
Unanswered ==
  /\ wpc # "idle" => wstate = "connecting"
  /\ wstate # "none" => Wear!Serving \in DOMAIN chans
  /\ \A k \in DOMAIN chans :
       k >= next \/ (wpc = "head" /\ k = Wear!Serving) => chans[k].bytes = <<>>

\* What the watch has and what it will read are in place, and not too much.
Received ==
  Receiving =>
    /\ Wear!Placed(chans[Wear!Serving].bytes, Len(received))
    /\ Len(received) + Len(chans[Wear!Serving].bytes) <= Wear!Sent.total

\* The phone and the watch mean the same channel, and the same position in it.
InStep ==
  Dialing /\ chans[Wear!Last].open =>
    /\ pc = "ack" => chans[Wear!Last].bytes = <<>>
    /\ pc = "stream" \/ chans[Wear!Last].ack # Wear!NoAck => Receiving /\ Wear!Serving = Wear!Last
    /\ pc = "ack" /\ chans[Wear!Last].ack # Wear!NoAck => chans[Wear!Last].ack = Len(received)
    /\ Wear!PositionsAgree

WearIInv ==
  /\ Wear!TypeOK
  /\ OneChannel /\ TotalsReal /\ Unanswered /\ Received /\ InStep
  /\ Wear!BytesInPlace /\ Wear!CompletedIsExact /\ Wear!UnchangedIsAccepted

-----------------------------------------------------------------------------
(* Bytes in place.                                                          *)

LEMMA PlacedJoined ==
  ASSUME NEW s \in Seq(Byte), NEW t \in Seq(Byte), NEW from \in Nat,
         Wear!Placed(s, from), Wear!Placed(t, from + Len(s))
  PROVE  Wear!Placed(s \o t, from)
<1> SUFFICES ASSUME NEW i \in DOMAIN (s \o t)
             PROVE  \E v \in Versions :
                      /\ from + i <= Len(Content[v])
                      /\ (s \o t)[i] = Content[v][from + i]
  BY DEF Wear!Placed
<1>0. i \in 1..(Len(s) + Len(t))
  BY SMT
<1>1. CASE i <= Len(s)
  <2>1. i \in DOMAIN s /\ (s \o t)[i] = s[i]
    BY <1>0, <1>1, SMT
  <2> QED
    BY <2>1 DEF Wear!Placed
<1>2. CASE i > Len(s)
  <2>1. i - Len(s) \in DOMAIN t /\ (s \o t)[i] = t[i - Len(s)]
    BY <1>0, <1>2, SMT
  <2>2. from + Len(s) + (i - Len(s)) = from + i
    BY <1>0, SMT
  <2> QED
    BY <2>1, <2>2 DEF Wear!Placed
<1> QED
  BY <1>0, <1>1, <1>2, SMT

LEMMA PlacedFirst ==
  ASSUME NEW s \in Seq(Byte), NEW t \in Seq(Byte), NEW from \in Nat,
         Wear!Placed(s, from), Len(t) <= Len(s), \A i \in 1..Len(t) : t[i] = s[i]
  PROVE  Wear!Placed(t, from)
<1>1. \A i \in DOMAIN t : i \in DOMAIN s /\ t[i] = s[i]
  BY SMT
<1> QED
  BY <1>1 DEF Wear!Placed

LEMMA Cut ==
  ASSUME NEW s \in Seq(Byte), NEW n \in 1..Len(s)
  PROVE  /\ SubSeq(s, 1, n) \in Seq(Byte) /\ Len(SubSeq(s, 1, n)) = n
         /\ \A i \in 1..n : SubSeq(s, 1, n)[i] = s[i]
         /\ SubSeq(s, n + 1, Len(s)) \in Seq(Byte)
         /\ Len(SubSeq(s, n + 1, Len(s))) = Len(s) - n
         /\ \A i \in 1..(Len(s) - n) : SubSeq(s, n + 1, Len(s))[i] = s[n + i]
BY SMT

LEMMA PlacedRest ==
  ASSUME NEW s \in Seq(Byte), NEW n \in 1..Len(s), NEW from \in Nat,
         Wear!Placed(s, from)
  PROVE  Wear!Placed(SubSeq(s, n + 1, Len(s)), from + n)
<1> DEFINE t == SubSeq(s, n + 1, Len(s))
<1> SUFFICES ASSUME NEW i \in DOMAIN t
             PROVE  \E v \in Versions :
                      /\ from + n + i <= Len(Content[v])
                      /\ t[i] = Content[v][from + n + i]
  BY DEF Wear!Placed
<1>1. i \in 1..(Len(s) - n) /\ t[i] = s[n + i] /\ n + i \in DOMAIN s
  BY Cut, SMT
<1>2. from + n + i = from + (n + i)
  BY <1>1, SMT
<1> QED
  BY <1>1, <1>2 DEF Wear!Placed

LEMMA PlacedRead ==
  ASSUME Settings, NEW v \in Versions, NEW from \in Nat, NEW n \in Nat,
         from + n <= Len(Content[v])
  PROVE  LET t == SubSeq(Content[v], from + 1, from + n)
         IN  t \in Seq(Byte) /\ Len(t) = n /\ Wear!Placed(t, from)
<1> DEFINE t == SubSeq(Content[v], from + 1, from + n)
<1>1. Content[v] \in Seq(Byte)
  BY DEF Settings
<1>2. t \in Seq(Byte) /\ Len(t) = n /\ \A i \in 1..n : t[i] = Content[v][from + i]
  BY <1>1, SMT
<1>3. \A i \in DOMAIN t : from + i <= Len(Content[v]) /\ t[i] = Content[v][from + i]
  BY <1>1, <1>2, SMT
<1> QED
  BY <1>2, <1>3 DEF Wear!Placed

LEMMA Nothing ==
  ASSUME NEW from
  PROVE  Wear!Placed(<<>>, from)
BY SMT DEF Wear!Placed

LEMMA SameBytes ==
  ASSUME NEW s \in Seq(Byte), NEW t \in Seq(Byte),
         Len(s) = Len(t), \A i \in 1..Len(s) : s[i] = t[i]
  PROVE  s = t
BY SMT

\* With one content, a file of its length that is in place is that content.
LEMMA WholeIsExact ==
  ASSUME Settings, NEW s \in Seq(Byte), Wear!Placed(s, 0),
         \A v, w \in Versions : Content[v] = Content[w],
         NEW u \in Versions, NEW w \in Versions, Len(s) = Len(Content[u])
  PROVE  s = Content[w]
<1>1. Content[w] \in Seq(Byte) /\ Len(s) = Len(Content[w])
  BY DEF Settings
<1>2. \A i \in 1..Len(s) : s[i] = Content[w][i]
  <2> TAKE i \in 1..Len(s)
  <2>1. PICK v \in Versions : s[i] = Content[v][0 + i]
    BY SMT DEF Wear!Placed
  <2>2. 0 + i = i
    BY SMT
  <2> QED
    BY <2>1, <2>2
<1> QED
  BY <1>1, <1>2, SameBytes

-----------------------------------------------------------------------------
(* Steps that leave the channels up to losses.                              *)

\* No channel gets bytes or comes up; one that stays up loses none.
Faded ==
  /\ chans' \in Seq(Wear!Channel) /\ Len(chans') = Len(chans)
  /\ \A k \in DOMAIN chans :
       /\ chans'[k].job = chans[k].job /\ chans'[k].ack = chans[k].ack
       /\ chans'[k].open => chans[k].open /\ chans'[k].bytes = chans[k].bytes
       /\ Len(chans'[k].bytes) <= Len(chans[k].bytes)
       /\ \A i \in 1..Len(chans'[k].bytes) : chans'[k].bytes[i] = chans[k].bytes[i]

WearJobsKept ==
  \A j \in DOMAIN jobs :
    /\ j \in DOMAIN jobs'
    /\ jobs'[j].total = jobs[j].total /\ jobs'[j].sha256 = jobs[j].sha256

LEMMA WearTyping ==
  ASSUME Wear!TypeOK
  PROVE  /\ jobs \in Seq(Wear!Job) /\ chans \in Seq(Wear!Channel) /\ received \in Seq(Byte)
         /\ \A k \in DOMAIN chans : chans[k].job \in DOMAIN jobs
         /\ next \in 1..(Wear!Last + 1)
BY Zenon DEF Wear!TypeOK

LEMMA Parts ==
  ASSUME Wear!TypeOK, NEW k \in DOMAIN chans
  PROVE  /\ chans[k] \in Wear!Channel /\ chans[k].bytes \in Seq(Byte)
         /\ chans[k].job \in DOMAIN jobs
         /\ jobs[chans[k].job] \in Wear!Job /\ jobs[chans[k].job].total \in Nat
<1>1. chans[k] \in Wear!Channel /\ chans[k].job \in DOMAIN jobs
  BY WearTyping, SMT
<1>2. jobs[chans[k].job] \in Wear!Job
  BY <1>1, WearTyping, SMT
<1> QED
  BY <1>1, <1>2 DEF Wear!Channel, Wear!Job

LEMMA Same ==
  ASSUME Wear!TypeOK, UNCHANGED chans
  PROVE  Faded
<1>1. chans \in Seq(Wear!Channel)
  BY WearTyping
<1>2. \A k \in DOMAIN chans : Len(chans[k].bytes) <= Len(chans[k].bytes)
  BY Parts, SMT
<1> QED
  BY <1>1, <1>2 DEF Faded

LEMMA Closed ==
  ASSUME Wear!TypeOK, NEW k \in DOMAIN chans, Wear!Close(k)
  PROVE  Faded /\ ~chans'[k].open
<1>1. PICK m \in 0..Len(chans[k].bytes) :
        chans' = [chans EXCEPT ![k].open = FALSE, ![k].bytes = SubSeq(@, 1, m)]
  BY DEF Wear!Close
<1>2. chans \in Seq(Wear!Channel) /\ chans[k] \in Wear!Channel /\ chans[k].bytes \in Seq(Byte)
  BY WearTyping, Parts
<1> DEFINE b == SubSeq(chans[k].bytes, 1, m)
<1>3. b \in Seq(Byte) /\ Len(b) = m /\ \A i \in 1..m : b[i] = chans[k].bytes[i]
  BY <1>2, SMT
<1> DEFINE c == [chans[k] EXCEPT !.open = FALSE, !.bytes = b]
<1>4. c \in Wear!Channel /\ c.open = FALSE /\ c.bytes = b
      /\ c.job = chans[k].job /\ c.ack = chans[k].ack
  BY <1>2, <1>3, Zenon DEF Wear!Channel
<1>5. chans' = [chans EXCEPT ![k] = c]
  BY <1>1, Zenon
<1> HIDE DEF b, c
<1>6. /\ chans' \in Seq(Wear!Channel) /\ Len(chans') = Len(chans)
      /\ chans'[k] = c
      /\ \A i \in DOMAIN chans : i # k => chans'[i] = chans[i]
  BY <1>2, <1>4, <1>5, SMT
<1>7. Len(c.bytes) <= Len(chans[k].bytes)
      /\ \A i \in 1..Len(c.bytes) : c.bytes[i] = chans[k].bytes[i]
  BY <1>3, <1>4, SMT
<1>8. \A i \in DOMAIN chans : chans[i].bytes \in Seq(Byte)
  BY Parts
<1>9. \A i \in DOMAIN chans :
       /\ chans'[i].job = chans[i].job /\ chans'[i].ack = chans[i].ack
       /\ chans'[i].open => chans[i].open /\ chans'[i].bytes = chans[i].bytes
       /\ Len(chans'[i].bytes) <= Len(chans[i].bytes)
       /\ \A j \in 1..Len(chans'[i].bytes) : chans'[i].bytes[j] = chans[i].bytes[j]
  <2> TAKE i \in DOMAIN chans
  <2>1. CASE i = k
    BY <2>1, <1>4, <1>6, <1>7
  <2>2. CASE i # k
    <3>1. chans'[i] = chans[i] /\ Len(chans[i].bytes) <= Len(chans[i].bytes)
      BY <2>2, <1>6, <1>8, SMT
    <3> QED
      BY <3>1
  <2> QED
    BY <2>1, <2>2
<1> QED
  BY <1>4, <1>6, <1>9, Zenon DEF Faded

LEMMA ClosedActive ==
  ASSUME Wear!TypeOK, NEW active \in BOOLEAN, NEW k, active => k \in DOMAIN chans,
         Wear!CloseActive(active, k)
  PROVE  Faded /\ (active => ~chans'[k].open)
BY Same, Closed, Zenon DEF Wear!CloseActive

\* What only the watch and the channels decide, as seen by a step that lets
\* both be, but for losses.
WatchInv ==
  /\ Unanswered /\ Received
  /\ Wear!BytesInPlace /\ Wear!CompletedIsExact /\ Wear!UnchangedIsAccepted

LEMMA WatchFrame ==
  ASSUME Settings, WearIInv, Wear!TypeOK', Faded, WearJobsKept,
         UNCHANGED <<received, next, wpc, wstate>>
  PROVE  WatchInv'
<1> USE DEF WearIInv
<1>1. DOMAIN chans' = DOMAIN chans /\ Wear!Serving' = Wear!Serving /\ Wear!Last' = Wear!Last
  BY WearTyping, SMT DEF Faded, Wear!Serving, Wear!Last
<1>0. \A k \in DOMAIN chans' : chans'[k] \in Wear!Channel
  BY SMT DEF Faded
<1>2. \A k \in DOMAIN chans : /\ chans[k].bytes \in Seq(Byte) /\ chans'[k].bytes \in Seq(Byte)
                             /\ chans[k].job \in DOMAIN jobs
  BY <1>0, <1>1, Parts DEF Wear!Channel
<1>3. Wear!Serving \in DOMAIN chans =>
        Wear!Sent'.total = Wear!Sent.total /\ Wear!Sent'.sha256 = Wear!Sent.sha256
  BY <1>1, <1>2 DEF Faded, WearJobsKept, Wear!Sent
<1>4. Unanswered'
  <2>1. \A k \in DOMAIN chans : chans[k].bytes = <<>> => chans'[k].bytes = <<>>
    BY <1>2, SMT DEF Faded
  <2> QED
    BY <1>1, <2>1 DEF Unanswered
<1>5. Received'
  <2> SUFFICES ASSUME Receiving
               PROVE  /\ Wear!Placed(chans'[Wear!Serving].bytes, Len(received))
                      /\ Len(received) + Len(chans'[Wear!Serving].bytes) <= Wear!Sent'.total
    BY <1>1 DEF Received, Receiving, Wear!Placed
  <2>1. Wear!Serving \in DOMAIN chans
    BY DEF Unanswered, Receiving
  <2>2. /\ Wear!Placed(chans[Wear!Serving].bytes, Len(received))
        /\ Len(received) + Len(chans[Wear!Serving].bytes) <= Wear!Sent.total
    BY DEF Received
  <2>3. /\ chans[Wear!Serving].bytes \in Seq(Byte) /\ chans'[Wear!Serving].bytes \in Seq(Byte)
        /\ Len(chans'[Wear!Serving].bytes) <= Len(chans[Wear!Serving].bytes)
        /\ \A i \in 1..Len(chans'[Wear!Serving].bytes) :
              chans'[Wear!Serving].bytes[i] = chans[Wear!Serving].bytes[i]
        /\ Wear!Sent'.total = Wear!Sent.total
    BY <1>2, <1>3, <2>1 DEF Faded
  <2>4. Len(received) \in Nat /\ Wear!Sent.total \in Nat
    BY <2>1, Parts, WearTyping, SMT DEF Wear!Sent
  <2>5. Wear!Placed(chans'[Wear!Serving].bytes, Len(received))
    BY <2>2, <2>3, <2>4, PlacedFirst
  <2>6. Len(received) + Len(chans'[Wear!Serving].bytes) <= Wear!Sent'.total
    BY <2>2, <2>3, <2>4, SMT
  <2> QED
    BY <2>5, <2>6
<1>6. Wear!BytesInPlace'
  BY DEF Wear!BytesInPlace, Wear!Placed
<1>7. Wear!CompletedIsExact'
  BY <1>3 DEF Wear!CompletedIsExact, Unanswered
<1>8. Wear!UnchangedIsAccepted'
  BY DEF Wear!UnchangedIsAccepted
<1> QED
  BY <1>4, <1>5, <1>6, <1>7, <1>8 DEF WatchInv

PhoneInv == OneChannel /\ TotalsReal /\ InStep

\* The phone goes on as it was, or gives its channel up.
LEMMA PhoneFrame ==
  ASSUME WearIInv, Wear!TypeOK', Faded, UNCHANGED <<jobs, sending, received, next, wpc>>,
         \/ pc' = pc
         \/ pc' = "idle" /\ (Dialing => ~chans'[Wear!Last].open)
  PROVE  PhoneInv'
<1> USE DEF WearIInv
<1>1. DOMAIN chans' = DOMAIN chans /\ Wear!Serving' = Wear!Serving /\ Wear!Last' = Wear!Last
  BY WearTyping, SMT DEF Faded, Wear!Serving, Wear!Last
<1>2. chans # <<>> => Wear!Last \in DOMAIN chans /\ chans' # <<>>
  BY <1>1, WearTyping, SMT DEF Wear!Last
<1>3. OneChannel'
  BY <1>1, <1>2 DEF OneChannel, Faded, Dialing
<1>4. TotalsReal'
  BY DEF TotalsReal
<1>5. InStep'
  <2> SUFFICES ASSUME Dialing', chans'[Wear!Last].open
               PROVE  InStep'
    BY <1>1 DEF InStep
  <2>1. pc' = pc /\ Dialing /\ Wear!Last \in DOMAIN chans
    BY <1>2 DEF Dialing, OneChannel
  <2>2. chans[Wear!Last].open /\ chans'[Wear!Last].bytes = chans[Wear!Last].bytes
        /\ chans'[Wear!Last].ack = chans[Wear!Last].ack
    BY <2>1 DEF Faded
  <2> QED
    BY <1>1, <2>1, <2>2 DEF InStep, Dialing, Receiving, Wear!PositionsAgree
<1> QED
  BY <1>3, <1>4, <1>5 DEF PhoneInv

LEMMA Kept ==
  ASSUME UNCHANGED jobs
  PROVE  WearJobsKept
BY DEF WearJobsKept

-----------------------------------------------------------------------------
(* Types, one part at a time.                                               *)

FlagsOK ==
  /\ pc \in {"idle", "open", "ack", "stream"}
  /\ paused \in BOOLEAN /\ canceled \in BOOLEAN
  /\ listening \in BOOLEAN /\ wcanceled \in BOOLEAN
  /\ wpc \in {"idle", "head", "loop", "read"}
  /\ wstate \in {"none", "connecting", "canceled", "paused", "completed",
                 "rejected", "failed"}

JobsOK == jobs \in Seq(Wear!Job) /\ send \in 0..Len(jobs) /\ sending \in 0..Len(jobs)
TodoOK == todo \in Seq(Wear!Task) /\ \A i \in DOMAIN todo : todo[i].job <= Len(jobs)
ChansOK ==
  /\ chans \in Seq(Wear!Channel) /\ \A k \in DOMAIN chans : chans[k].job \in DOMAIN jobs
  /\ next \in 1..(Wear!Last + 1)

LEMMA TypesFromParts ==
  ASSUME FlagsOK', JobsOK', TodoOK', ChansOK', received' \in Seq(Byte)
  PROVE  Wear!TypeOK'
BY Zenon DEF Wear!TypeOK, FlagsOK, JobsOK, TodoOK, ChansOK

LEMMA PartsFromTypes ==
  ASSUME Wear!TypeOK
  PROVE  FlagsOK /\ JobsOK /\ TodoOK /\ ChansOK /\ received \in Seq(Byte)
BY Zenon DEF Wear!TypeOK, FlagsOK, JobsOK, TodoOK, ChansOK

LEMMA FlagsStep ==
  ASSUME Wear!TypeOK, [Wear!Next]_Wear!vars
  PROVE  FlagsOK'
<1>0. FlagsOK
  BY PartsFromTypes
<1>1. CASE Wear!PhoneMain \/ Wear!LinkLost
  BY <1>0, <1>1, Zenon DEF FlagsOK, Wear!PhoneMain, Wear!LinkLost, Wear!SendModel,
     Wear!ResumeSend, Wear!Pause, Wear!CancelSend, Wear!phone, Wear!watch
<1>2. CASE Wear!PhoneIo
  <2>1. ASSUME NEW v, NEW w, Wear!Start(v, w)
        PROVE  FlagsOK'
    BY <1>0, <2>1, Zenon DEF FlagsOK, Wear!Start, Wear!watch
  <2>2. ASSUME NEW v, NEW n, Wear!Write(v, n)
        PROVE  FlagsOK'
    BY <1>0, <2>2, Zenon DEF FlagsOK, Wear!Write, Wear!watch
  <2>3. CASE Wear!StartFails \/ Wear!Rerun \/ Wear!Open
    BY <1>0, <2>3, Zenon DEF FlagsOK, Wear!StartFails, Wear!Rerun, Wear!Open, Wear!watch
  <2>4. CASE Wear!AckReceived \/ Wear!AckMissing
    BY <1>0, <2>4, Zenon DEF FlagsOK, Wear!AckReceived, Wear!AckMissing, Wear!watch
  <2>5. CASE Wear!StreamEnds \/ Wear!PhoneFails \/ Wear!PhoneCrash
    BY <1>0, <2>5, Zenon DEF FlagsOK, Wear!StreamEnds, Wear!PhoneFails, Wear!PhoneCrash,
       Wear!watch
  <2> QED
    BY <1>2, <2>1, <2>2, <2>3, <2>4, <2>5 DEF Wear!PhoneIo
<1>3. CASE Wear!Watch
  BY <1>0, <1>3, Zenon DEF FlagsOK, Wear!Watch, Wear!Listen, Wear!Take, Wear!Greet, Wear!Look,
     Wear!Discard, Wear!Read, Wear!Eof, Wear!Verify,
       Wear!WatchFails, Wear!WatchCancel, Wear!WatchCrash, Wear!Ends, Wear!phone
<1>4. CASE UNCHANGED Wear!vars
  BY <1>0, <1>4, Zenon DEF FlagsOK, Wear!vars, Wear!phone, Wear!watch
<1> QED
  BY <1>1, <1>2, <1>3, <1>4 DEF Wear!Next

\* A task more, or the first one less.
LEMMA Queued ==
  ASSUME Wear!TypeOK, NEW request \in Wear!Task, request.job <= Len(jobs),
         todo' = Append(todo, request), UNCHANGED jobs
  PROVE  TodoOK'
BY PartsFromTypes, SMT DEF TodoOK

LEMMA Dequeued ==
  ASSUME Wear!TypeOK, todo # <<>>
  PROVE  /\ Tail(todo) \in Seq(Wear!Task) /\ Head(todo) \in Wear!Task
         /\ Head(todo).job \in 0..Len(jobs)
         /\ \A i \in DOMAIN Tail(todo) : Tail(todo)[i].job <= Len(jobs)
<1>1. TodoOK
  BY PartsFromTypes
<1>2. /\ Tail(todo) \in Seq(Wear!Task) /\ Head(todo) \in Wear!Task /\ Head(todo).job <= Len(jobs)
      /\ \A i \in DOMAIN Tail(todo) : Tail(todo)[i].job <= Len(jobs)
  BY <1>1, SMT DEF TodoOK
<1>3. Head(todo).job \in Nat
  BY <1>2, Zenon DEF Wear!Task
<1> QED
  BY <1>2, <1>3, SMT

\* Jobs only ever get one more, or another offset.
LEMMA Offset ==
  ASSUME Wear!TypeOK, sending \in DOMAIN jobs, NEW n \in Nat,
         jobs' = [jobs EXCEPT ![sending].offset = n], UNCHANGED <<send, sending>>
  PROVE  JobsOK' /\ WearJobsKept /\ DOMAIN jobs' = DOMAIN jobs /\ Len(jobs') = Len(jobs)
         /\ jobs'[sending].offset = n
<1>1. jobs \in Seq(Wear!Job) /\ JobsOK /\ jobs[sending] \in Wear!Job
  BY PartsFromTypes, SMT DEF JobsOK
<1> DEFINE j == [jobs[sending] EXCEPT !.offset = n]
<1>2. /\ j \in Wear!Job
      /\ j.total = jobs[sending].total
      /\ j.sha256 = jobs[sending].sha256
      /\ j.offset = n
  BY <1>1, Zenon DEF Wear!Job
<1>3. jobs' = [jobs EXCEPT ![sending] = j]
  BY Zenon
<1> HIDE DEF j
<1>4. /\ jobs' \in Seq(Wear!Job) /\ DOMAIN jobs' = DOMAIN jobs /\ Len(jobs') = Len(jobs)
      /\ jobs'[sending] = j /\ \A i \in DOMAIN jobs : i # sending => jobs'[i] = jobs[i]
  BY <1>1, <1>2, <1>3, SMT
<1>5. WearJobsKept
  <2> SUFFICES ASSUME NEW i \in DOMAIN jobs
               PROVE  jobs'[i].total = jobs[i].total /\ jobs'[i].sha256 = jobs[i].sha256
    BY <1>4 DEF WearJobsKept
  <2>1. CASE i = sending
    BY <2>1, <1>2, <1>4
  <2>2. CASE i # sending
    BY <2>2, <1>4
  <2> QED
    BY <2>1, <2>2
<1> QED
  BY <1>1, <1>2, <1>4, <1>5 DEF JobsOK

LEMMA FadedTyped ==
  ASSUME Wear!TypeOK, Faded, UNCHANGED next, DOMAIN jobs \subseteq DOMAIN jobs'
  PROVE  ChansOK'
<1>1. ChansOK /\ DOMAIN chans' = DOMAIN chans
  BY PartsFromTypes, SMT DEF Faded, ChansOK
<1> QED
  BY <1>1, SMT DEF Faded, ChansOK, Wear!Last

-----------------------------------------------------------------------------
(* The phone's steps.                                                       *)

FrameInv == Wear!TypeOK /\ PhoneInv /\ WatchInv

LEMMA Frames ==
  /\ WearIInv => FrameInv
  /\ FrameInv' => WearIInv'
BY Zenon DEF WearIInv, FrameInv, PhoneInv, WatchInv

\* Steps that only raise flags, queue, or lose what is in flight.
LEMMA QuietSteps ==
  ASSUME Settings, WearIInv, [Wear!Next]_Wear!vars,
         UNCHANGED <<jobs, sending, received, next, wpc, wstate>>, Faded,
         JobsOK', TodoOK',
         \/ pc' = pc
         \/ pc' = "idle" /\ (Dialing => ~chans'[Wear!Last].open)
  PROVE  WearIInv'
<1>1. Wear!TypeOK /\ received' \in Seq(Byte)
  BY PartsFromTypes DEF WearIInv
<1>2. Wear!TypeOK'
  BY <1>1, FlagsStep, FadedTyped, TypesFromParts
<1>3. PhoneInv'
  BY <1>2, PhoneFrame
<1>4. WatchInv'
  BY <1>2, Kept, WatchFrame
<1> QED
  BY <1>2, <1>3, <1>4, Frames DEF FrameInv

LEMMA LastIn ==
  ASSUME WearIInv, Dialing
  PROVE  Wear!Last \in DOMAIN chans
BY WearTyping, SMT DEF WearIInv, OneChannel, Wear!Last

LEMMA PhoneMainStep ==
  ASSUME Settings, WearIInv, [Wear!Next]_Wear!vars, Wear!PhoneMain
  PROVE  WearIInv'
<1>0. Wear!TypeOK /\ JobsOK /\ TodoOK
  BY PartsFromTypes DEF WearIInv
<1>1. ASSUME NEW resume \in BOOLEAN, Wear!SendModel(resume)
      PROVE  WearIInv'
  <2>1. /\ [job |-> 0, resume |-> resume] \in Wear!Task
        /\ [job |-> 0, resume |-> resume].job <= Len(jobs)
    <3>1. [job |-> 0, resume |-> resume] \in Wear!Task
      BY SMT DEF Wear!Task
    <3>2. 0 <= Len(jobs)
      BY <1>0, SMT DEF JobsOK
    <3> QED
      BY <3>1, <3>2
  <2>2. TodoOK' /\ JobsOK'
    BY <1>0, <1>1, <2>1, Queued DEF Wear!SendModel, JobsOK
  <2> QED
    BY <1>0, <1>1, <2>2, Same, QuietSteps DEF Wear!SendModel, Wear!watch
<1>2. CASE Wear!ResumeSend
  <2>1. send \in DOMAIN jobs /\ send \in Nat /\ send <= Len(jobs) /\ jobs[send] \in Wear!Job
    BY <1>0, <1>2, SMT DEF Wear!ResumeSend, JobsOK
  <2>2. [job |-> send, resume |-> jobs[send].resume] \in Wear!Task
    BY <2>1, Zenon DEF Wear!Task, Wear!Job
  <2>3. TodoOK' /\ JobsOK'
    BY <1>0, <1>2, <2>1, <2>2, Queued DEF Wear!ResumeSend, JobsOK
  <2> QED
    BY <1>0, <1>2, <2>3, Same, QuietSteps DEF Wear!ResumeSend, Wear!watch
<1>3. CASE Wear!Pause
  BY <1>0, <1>3, Same, QuietSteps DEF Wear!Pause, Wear!watch, JobsOK, TodoOK
<1>4. CASE Wear!CancelSend
  <2>1. Faded
    <3>1. /\ (pc \in {"ack", "stream"}) \in BOOLEAN
          /\ Wear!CloseActive(pc \in {"ack", "stream"}, Wear!Last)
      BY <1>4 DEF Wear!CancelSend
    <3> QED
      BY <1>0, <3>1, LastIn, ClosedActive DEF Dialing
  <2> QED
    BY <1>0, <1>4, <2>1, QuietSteps DEF Wear!CancelSend, Wear!watch, JobsOK, TodoOK
<1> QED
  BY <1>1, <1>2, <1>3, <1>4 DEF Wear!PhoneMain

LEMMA PhoneStops ==
  ASSUME Settings, WearIInv, [Wear!Next]_Wear!vars,
         Wear!StartFails \/ Wear!StreamEnds \/ Wear!PhoneFails \/ Wear!PhoneCrash \/ Wear!LinkLost
  PROVE  WearIInv'
<1>0. Wear!TypeOK /\ JobsOK /\ TodoOK
  BY PartsFromTypes DEF WearIInv
<1>1. CASE Wear!StartFails
  <2>1. TodoOK'
    BY <1>0, <1>1, Dequeued DEF Wear!StartFails, TodoOK
  <2> QED
    BY <1>0, <1>1, <2>1, Same, QuietSteps DEF Wear!StartFails, Wear!watch, JobsOK
<1>2. CASE Wear!StreamEnds
  <2>1. Dialing /\ Wear!Close(Wear!Last)
    BY <1>2 DEF Wear!StreamEnds, Dialing
  <2>2. Faded /\ ~chans'[Wear!Last].open
    BY <1>0, <2>1, LastIn, Closed
  <2>3. JobsOK'
    BY <1>0, <1>2, SMT DEF Wear!StreamEnds, JobsOK
  <2> QED
    BY <1>0, <1>2, <2>2, <2>3, QuietSteps DEF Wear!StreamEnds, Wear!watch, TodoOK
<1>3. CASE Wear!PhoneFails
  <2>1. /\ (pc # "open") \in BOOLEAN
        /\ (pc # "open" => Dialing)
        /\ Wear!CloseActive(pc # "open", Wear!Last)
    BY <1>0, <1>3, PartsFromTypes DEF Wear!PhoneFails, Dialing, FlagsOK
  <2>2. Faded /\ (Dialing => ~chans'[Wear!Last].open)
    BY <1>0, <2>1, LastIn, ClosedActive DEF Dialing
  <2>3. JobsOK'
    BY <1>0, <1>3, SMT DEF Wear!PhoneFails, JobsOK
  <2> QED
    BY <1>0, <1>3, <2>2, <2>3, QuietSteps DEF Wear!PhoneFails, Wear!watch, TodoOK
<1>4. CASE Wear!PhoneCrash
  <2>1. Dialing \in BOOLEAN /\ Wear!CloseActive(Dialing, Wear!Last)
    BY <1>4 DEF Wear!PhoneCrash, Dialing
  <2>2. Faded /\ (Dialing => ~chans'[Wear!Last].open)
    BY <1>0, <2>1, LastIn, ClosedActive
  <2>3. JobsOK' /\ TodoOK'
    BY <1>0, <1>4, SMT DEF Wear!PhoneCrash, JobsOK, TodoOK
  <2> QED
    BY <1>0, <1>4, <2>2, <2>3, QuietSteps DEF Wear!PhoneCrash, Wear!watch
<1>5. CASE Wear!LinkLost
  <2>1. Wear!Last \in DOMAIN chans /\ Wear!Close(Wear!Last)
    BY <1>0, <1>5, WearTyping, SMT DEF Wear!LinkLost, Wear!Last
  <2>2. Faded
    BY <1>0, <2>1, Closed
  <2> QED
    BY <1>0, <1>5, <2>2, QuietSteps DEF Wear!LinkLost, Wear!phone, Wear!watch, JobsOK, TodoOK
<1> QED
  BY <1>1, <1>2, <1>3, <1>4, <1>5

LEMMA StartStep ==
  ASSUME Settings, WearIInv, [Wear!Next]_Wear!vars, NEW v \in Versions,
         NEW w \in Versions, Wear!Start(v, w)
  PROVE  WearIInv'
<1>0. Wear!TypeOK /\ JobsOK /\ TodoOK /\ received \in Seq(Byte)
  BY PartsFromTypes DEF WearIInv
<1> DEFINE j == [total |-> Len(Content[v]), sha256 |-> w, resume |-> Head(todo).resume,
                 offset |-> 0]
<1>1. /\ Tail(todo) \in Seq(Wear!Task) /\ Head(todo) \in Wear!Task
      /\ \A i \in DOMAIN Tail(todo) : Tail(todo)[i].job <= Len(jobs)
  BY <1>0, Dequeued DEF Wear!Start
<1>2. j \in Wear!Job /\ j.total = Len(Content[v])
  <2>1. Len(Content[v]) \in Nat
    BY SMT DEF Settings
  <2>2. Head(todo).resume \in BOOLEAN
    BY <1>1, Zenon DEF Wear!Task
  <2>3. 0 \in Nat
    BY SMT
  <2> QED
    BY <2>1, <2>2, <2>3, Zenon DEF Wear!Job
<1>3. jobs' = Append(jobs, j) /\ send' = Len(jobs) + 1 /\ sending' = Len(jobs) + 1
  BY DEF Wear!Start
<1> HIDE DEF j
<1>4. /\ JobsOK' /\ Len(jobs') = Len(jobs) + 1 /\ sending' \in DOMAIN jobs' /\ jobs'[sending'] = j
      /\ DOMAIN jobs \subseteq DOMAIN jobs'
      /\ \A i \in DOMAIN jobs : jobs'[i] = jobs[i]
      /\ \A i \in DOMAIN jobs' : i \in DOMAIN jobs \/ i = sending'
  BY <1>0, <1>2, <1>3, SMT DEF JobsOK
<1>5. TodoOK'
  <2>1. \A i \in DOMAIN Tail(todo) : Tail(todo)[i].job \in Nat
    <3>1. \A i \in DOMAIN Tail(todo) : Tail(todo)[i] \in Wear!Task
      BY <1>1, SMT
    <3> QED
      BY <3>1, Zenon DEF Wear!Task
  <2>2. todo' = Tail(todo) /\ Len(jobs) \in Nat /\ Len(jobs') = Len(jobs) + 1
    BY <1>0, <1>4, SMT DEF Wear!Start, JobsOK
  <2>3. \A i \in DOMAIN Tail(todo) : Tail(todo)[i].job <= Len(jobs')
    BY <1>1, <2>1, <2>2, SMT
  <2> QED
    BY <1>1, <2>2, <2>3 DEF TodoOK
<1>6. Faded /\ WearJobsKept
  BY <1>0, <1>4, Same DEF Wear!Start, WearJobsKept
<1>7. Wear!TypeOK'
  BY <1>0, <1>4, <1>5, <1>6, FlagsStep, FadedTyped, TypesFromParts DEF Wear!Start, Wear!watch
<1>8. WatchInv'
  BY <1>6, <1>7, WatchFrame DEF Wear!Start, Wear!watch
<1>9. OneChannel'
  BY <1>4 DEF WearIInv, OneChannel, Wear!Start, Dialing, Wear!Last
<1>10. TotalsReal'
  BY <1>2, <1>4 DEF WearIInv, TotalsReal
<1>11. InStep'
  BY DEF InStep, Dialing, Wear!Start
<1> QED
  BY <1>7, <1>8, <1>9, <1>10, <1>11, Frames DEF FrameInv, PhoneInv

LEMMA RerunStep ==
  ASSUME Settings, WearIInv, [Wear!Next]_Wear!vars, Wear!Rerun
  PROVE  WearIInv'
<1>0. Wear!TypeOK /\ JobsOK /\ TodoOK /\ received \in Seq(Byte)
  BY PartsFromTypes DEF WearIInv
<1>1. /\ Tail(todo) \in Seq(Wear!Task) /\ Head(todo).job \in 0..Len(jobs)
      /\ \A i \in DOMAIN Tail(todo) : Tail(todo)[i].job <= Len(jobs)
  BY <1>0, Dequeued DEF Wear!Rerun
<1>2. JobsOK' /\ sending' \in DOMAIN jobs' /\ TodoOK'
  BY <1>0, <1>1, SMT DEF Wear!Rerun, JobsOK, TodoOK
<1>3. Faded /\ WearJobsKept
  BY <1>0, Same, Kept DEF Wear!Rerun
<1>4. Wear!TypeOK'
  BY <1>0, <1>2, <1>3, FlagsStep, FadedTyped, TypesFromParts DEF Wear!Rerun, Wear!watch
<1>5. WatchInv'
  BY <1>3, <1>4, WatchFrame DEF Wear!Rerun, Wear!watch
<1>6. OneChannel' /\ TotalsReal' /\ InStep'
  BY <1>2 DEF WearIInv, OneChannel, TotalsReal, InStep, Wear!Rerun, Dialing, Wear!Last
<1> QED
  BY <1>4, <1>5, <1>6, Frames DEF FrameInv, PhoneInv

LEMMA AckStep ==
  ASSUME Settings, WearIInv, [Wear!Next]_Wear!vars, Wear!AckReceived \/ Wear!AckMissing
  PROVE  WearIInv'
<1>0. Wear!TypeOK /\ JobsOK /\ TodoOK /\ received \in Seq(Byte)
  BY PartsFromTypes DEF WearIInv
<1>1. /\ sending \in DOMAIN jobs /\ Wear!Last \in DOMAIN chans /\ chans[Wear!Last].job = sending
      /\ jobs[sending].total \in Nat
  <2>1. Dialing /\ pc # "idle"
    BY DEF Wear!AckReceived, Wear!AckMissing, Dialing
  <2> QED
    BY <1>0, <2>1, LastIn, Parts DEF WearIInv, OneChannel
<1>2. /\ Faded
      /\ UNCHANGED <<send, sending, todo, chans, received, next, wpc, wstate>>
      /\ pc' = "stream"
  BY <1>0, Same DEF Wear!AckReceived, Wear!AckMissing, Wear!watch
<1>3. /\ JobsOK' /\ WearJobsKept /\ DOMAIN jobs' = DOMAIN jobs /\ Len(jobs') = Len(jobs)
      /\ chans[Wear!Last].open =>
           jobs'[sending].offset = Len(received) /\ chans[Wear!Last].bytes = <<>>
                              /\ Receiving /\ Wear!Serving = Wear!Last
  <2>1. CASE Wear!AckReceived
    <3> DEFINE n == IF chans[Wear!Last].ack <= jobs[sending].total THEN chans[Wear!Last].ack
                                                         ELSE jobs[sending].total
    <3>1. chans[Wear!Last].ack \in Nat \cup {Wear!NoAck}
      BY <1>0, <1>1, Parts, Zenon DEF Wear!Channel
    <3>2. n \in Nat
      BY <1>1, <2>1, <3>1, SMT DEF Wear!AckReceived
    <3>3. jobs' = [jobs EXCEPT ![sending].offset = n]
      BY <2>1 DEF Wear!AckReceived
    <3>4. /\ JobsOK' /\ WearJobsKept /\ DOMAIN jobs' = DOMAIN jobs /\ Len(jobs') = Len(jobs)
          /\ jobs'[sending].offset = n
      BY <1>0, <1>1, <1>2, <3>2, <3>3, Offset
    <3>5. ASSUME chans[Wear!Last].open
          PROVE  /\ n = Len(received) /\ chans[Wear!Last].bytes = <<>>
                 /\ Receiving /\ Wear!Serving = Wear!Last
      <4>1. /\ chans[Wear!Last].bytes = <<>> /\ Receiving /\ Wear!Serving = Wear!Last
            /\ chans[Wear!Last].ack = Len(received)
        BY <2>1, <3>5 DEF WearIInv, InStep, Wear!AckReceived, Dialing
      <4>2. Len(received) + Len(<<>>) <= jobs[sending].total
        BY <1>1, <4>1 DEF WearIInv, Received, Wear!Sent
      <4> QED
        BY <1>0, <1>1, <4>1, <4>2, SMT
    <3> QED
      BY <3>4, <3>5
  <2>2. CASE Wear!AckMissing
    BY <1>0, <2>2, Kept DEF Wear!AckMissing, JobsOK
  <2> QED
    BY <2>1, <2>2
<1>4. Wear!TypeOK'
  <2>1. TodoOK'
    BY <1>0, <1>2, <1>3 DEF TodoOK
  <2> QED
    BY <1>0, <1>2, <1>3, <2>1, FlagsStep, FadedTyped, TypesFromParts
<1>5. WatchInv'
  BY <1>2, <1>3, <1>4, WatchFrame
<1>6. OneChannel'
  BY <1>1, <1>2, <1>3 DEF WearIInv, OneChannel, Dialing, Wear!Last
<1>7. TotalsReal'
  BY <1>3 DEF WearIInv, TotalsReal, WearJobsKept
<1>8. InStep'
  <2> SUFFICES ASSUME chans[Wear!Last].open
               PROVE  /\ Receiving /\ Wear!Serving = Wear!Last
                      /\ jobs'[sending].offset = Len(received) + Len(chans[Wear!Last].bytes)
    BY <1>2, SMT DEF InStep, Wear!PositionsAgree, Wear!Last, Receiving, Wear!Serving
  <2> QED
    BY <1>0, <1>3, SMT
<1> QED
  BY <1>4, <1>5, <1>6, <1>7, <1>8, Frames DEF FrameInv, PhoneInv

LEMMA OpenStep ==
  ASSUME Settings, WearIInv, [Wear!Next]_Wear!vars, Wear!Open
  PROVE  WearIInv'
<1>0. Wear!TypeOK /\ JobsOK /\ TodoOK /\ ChansOK /\ FlagsOK /\ received \in Seq(Byte)
      /\ sending \in DOMAIN jobs
  BY PartsFromTypes DEF WearIInv, OneChannel, Wear!Open
<1> DEFINE c == [job |-> sending, heard |-> listening, open |-> TRUE,
                  ack |-> Wear!NoAck, bytes |-> <<>>]
<1>1. c \in Wear!Channel /\ c.job = sending /\ c.ack = Wear!NoAck /\ c.bytes = <<>>
  <2>1. sending \in Nat /\ <<>> \in Seq(Byte)
    BY <1>0, SMT DEF JobsOK
  <2> QED
    BY <1>0, <2>1, Zenon DEF Wear!Channel, FlagsOK
<1>2. chans' = Append(chans, c)
  BY DEF Wear!Open
<1> HIDE DEF c
<1>3. /\ chans' \in Seq(Wear!Channel) /\ Wear!Last' = Wear!Last + 1 /\ Wear!Last' \in DOMAIN chans'
      /\ chans' # <<>> /\ chans'[Wear!Last'] = c
      /\ DOMAIN chans \subseteq DOMAIN chans' /\ Wear!Last' \notin DOMAIN chans
      /\ \A k \in DOMAIN chans : chans'[k] = chans[k]
      /\ \A k \in DOMAIN chans' : k \in DOMAIN chans \/ k = Wear!Last'
      /\ next \in 1..(Wear!Last' + 1)
  BY <1>0, <1>1, <1>2, SMT DEF ChansOK, Wear!Last
<1>4. /\ UNCHANGED <<jobs, send, todo, sending, received, next, wpc, wstate>>
      /\ pc = "open"
      /\ pc' = "ack"
  BY DEF Wear!Open, Wear!watch
<1>5. ChansOK'
  BY <1>0, <1>1, <1>3, <1>4 DEF ChansOK, Wear!Last
<1>6. Wear!TypeOK'
  BY <1>0, <1>4, <1>5, FlagsStep, TypesFromParts DEF JobsOK, TodoOK
<1>7. OneChannel'
  BY <1>0, <1>1, <1>3, <1>4 DEF WearIInv, OneChannel, Dialing
<1>8. TotalsReal'
  BY <1>4 DEF WearIInv, TotalsReal
<1>9. InStep'
  BY <1>1, <1>3, <1>4 DEF InStep, Wear!PositionsAgree
<1>10. Unanswered'
  BY <1>1, <1>3, <1>4 DEF WearIInv, Unanswered, Wear!Serving
<1>11. Received'
  <2>1. Receiving' => Receiving /\ Wear!Serving' = Wear!Serving /\ Wear!Serving \in DOMAIN chans
    BY <1>4 DEF WearIInv, Unanswered, Receiving, Wear!Serving
  <2> QED
    BY <1>3, <1>4, <2>1 DEF WearIInv, Received, Wear!Placed, Wear!Sent
<1>12. Wear!BytesInPlace' /\ Wear!UnchangedIsAccepted'
  BY <1>4 DEF WearIInv, Wear!BytesInPlace, Wear!Placed, Wear!UnchangedIsAccepted
<1>13. Wear!CompletedIsExact'
  BY <1>3, <1>4 DEF WearIInv, Wear!CompletedIsExact, Unanswered, Wear!Sent, Wear!Serving
<1> QED
  BY <1>6, <1>7, <1>8, <1>9, <1>10, <1>11, <1>12, <1>13, Frames DEF FrameInv, PhoneInv, WatchInv

\* One channel gets other bytes, and all the rest of it stays.
LEMMA BytesJoined ==
  ASSUME Wear!TypeOK, NEW k \in DOMAIN chans, NEW b \in Seq(Byte),
         chans' = [chans EXCEPT ![k].bytes = b]
  PROVE  /\ chans' \in Seq(Wear!Channel) /\ Wear!Last' = Wear!Last /\ DOMAIN chans' = DOMAIN chans
         /\ chans'[k].bytes = b /\ chans'[k].job = chans[k].job
         /\ chans'[k].ack = chans[k].ack /\ (chans'[k].open <=> chans[k].open)
         /\ \A i \in DOMAIN chans : i # k => chans'[i] = chans[i]
<1>1. chans \in Seq(Wear!Channel) /\ chans[k] \in Wear!Channel
  BY WearTyping, Parts
<1> DEFINE c == [chans[k] EXCEPT !.bytes = b]
<1>2. c \in Wear!Channel /\ c.bytes = b /\ c.job = chans[k].job /\ c.ack = chans[k].ack
      /\ (c.open <=> chans[k].open)
  BY <1>1, Zenon DEF Wear!Channel
<1>3. chans' = [chans EXCEPT ![k] = c]
  BY Zenon
<1> HIDE DEF c
<1>4. /\ chans' \in Seq(Wear!Channel) /\ Len(chans') = Len(chans) /\ DOMAIN chans' = DOMAIN chans
      /\ chans'[k] = c /\ \A i \in DOMAIN chans : i # k => chans'[i] = chans[i]
  BY <1>1, <1>2, <1>3, SMTT(30)
<1> QED
  BY <1>2, <1>4 DEF Wear!Last

LEMMA WriteStep ==
  ASSUME Settings, WearIInv, [Wear!Next]_Wear!vars, NEW v \in Versions,
         NEW n \in Nat \ {0}, Wear!Write(v, n)
  PROVE  WearIInv'
<1>0. Wear!TypeOK /\ JobsOK /\ TodoOK /\ ChansOK /\ FlagsOK /\ received \in Seq(Byte)
  BY PartsFromTypes DEF WearIInv
<1>1. /\ sending \in DOMAIN jobs /\ Wear!Last \in DOMAIN chans /\ chans[Wear!Last].job = sending
      /\ Dialing /\ pc = "stream"
  <2>1. Dialing /\ pc = "stream"
    BY DEF Wear!Write, Dialing
  <2> QED
    BY <2>1, LastIn DEF WearIInv, OneChannel
<1> DEFINE from == jobs[sending].offset
           b == SubSeq(Content[v], from + 1, from + n)
<1>2. from \in Nat /\ jobs[sending].total \in Nat /\ n \in Nat /\ from + n \in Nat
      /\ from + n <= jobs[sending].total
  <2>1. jobs[sending] \in Wear!Job
    BY <1>0, <1>1, SMT DEF JobsOK
  <2>2. from \in Nat /\ jobs[sending].total \in Nat
    BY <2>1 DEF Wear!Job
  <2> QED
    BY <2>2, SMT DEF Wear!Write
<1>3. UNCHANGED <<send, todo, sending, received, next, wpc, wstate, pc>>
  BY DEF Wear!Write, Wear!watch
<1>4. /\ JobsOK' /\ WearJobsKept /\ DOMAIN jobs' = DOMAIN jobs /\ Len(jobs') = Len(jobs)
      /\ jobs'[sending].offset = from + n
  <2>1. jobs' = [jobs EXCEPT ![sending].offset = from + n]
    BY DEF Wear!Write
  <2> QED
    BY <1>0, <1>1, <1>2, <1>3, <2>1, Offset
<1>5. b \in Seq(Byte) /\ Len(b) = n /\ Wear!Placed(b, from)
  BY <1>2, PlacedRead DEF Wear!Write
<1>6. CASE ~chans[Wear!Last].open
  <2>1. UNCHANGED chans /\ Faded
    BY <1>0, <1>6, Same DEF Wear!Write
  <2>2. TodoOK'
    BY <1>0, <1>3, <1>4 DEF TodoOK
  <2>3. Wear!TypeOK'
    BY <1>0, <1>3, <1>4, <2>1, <2>2, FlagsStep, FadedTyped, TypesFromParts
  <2>4. WatchInv'
    BY <1>3, <1>4, <2>1, <2>3, WatchFrame
  <2>5. PhoneInv'
    BY <1>1, <1>3, <1>4, <1>6, <2>1
       DEF WearIInv, PhoneInv, OneChannel, TotalsReal, InStep, Dialing, Wear!Last, WearJobsKept
  <2> QED
    BY <2>3, <2>4, <2>5, Frames DEF FrameInv
<1>7. CASE chans[Wear!Last].open
  <2> DEFINE old == chans[Wear!Last].bytes
  <2>1. Receiving /\ Wear!Serving = Wear!Last /\ from = Len(received) + Len(old)
    BY <1>1, <1>7 DEF WearIInv, InStep, Wear!PositionsAgree
  <2>2. /\ old \in Seq(Byte)
        /\ Wear!Placed(old, Len(received))
        /\ Len(received) \in Nat
        /\ Len(old) \in Nat
    BY <1>0, <1>1, <2>1, Parts, SMT DEF WearIInv, Received
  <2>3. old \o b \in Seq(Byte) /\ Len(old \o b) = Len(old) + n
    BY <1>5, <2>2, SMT
  <2>4. Wear!Placed(old \o b, Len(received))
    BY <1>5, <2>1, <2>2, PlacedJoined
  <2>5. chans' = [chans EXCEPT ![Wear!Last].bytes = old \o b]
    BY <1>7 DEF Wear!Write
  <2> HIDE DEF old, b, from
  <2>6. Len(received) + Len(old \o b) = from + n
    <3>1. \A x, y, z \in Nat : x + (y + z) = (x + y) + z
      BY SMT
    <3> QED
      BY <1>2, <2>1, <2>2, <2>3, <3>1
  <2> DEFINE new == old \o b
  <2>7. /\ chans' \in Seq(Wear!Channel) /\ Wear!Last' = Wear!Last /\ DOMAIN chans' = DOMAIN chans
        /\ chans'[Wear!Last].bytes = new /\ chans'[Wear!Last].job = chans[Wear!Last].job
        /\ chans'[Wear!Last].ack = chans[Wear!Last].ack
        /\ (chans'[Wear!Last].open <=> chans[Wear!Last].open)
        /\ \A i \in DOMAIN chans : i # Wear!Last => chans'[i] = chans[i]
    BY <1>0, <1>1, <2>3, <2>5, BytesJoined
  <2> HIDE DEF new
  <2>8. ChansOK'
    BY <1>0, <1>3, <1>4, <2>7 DEF ChansOK
  <2>9. Wear!TypeOK'
    <3>1. TodoOK'
      BY <1>0, <1>3, <1>4 DEF TodoOK
    <3> QED
      BY <1>0, <1>3, <1>4, <2>8, <3>1, FlagsStep, TypesFromParts
  <2>10. OneChannel' /\ TotalsReal'
    BY <1>1, <1>3, <1>4, <2>7 DEF WearIInv, OneChannel, TotalsReal, Dialing, WearJobsKept
  <2>11. /\ Wear!Serving' = Wear!Serving
         /\ Wear!Sent'.total = jobs[sending].total
         /\ Wear!Sent'.sha256 = Wear!Sent.sha256
    BY <1>1, <1>3, <1>4, <2>1, <2>7 DEF Wear!Serving, Wear!Sent, WearJobsKept
  <2>12. InStep'
    BY <1>1, <1>3, <1>4, <2>1, <2>6, <2>7
       DEF InStep, Wear!PositionsAgree, Receiving, Wear!Serving, new
  <2>13. Unanswered'
    <3>1. wpc # "head" /\ ~(Wear!Last >= next)
      BY <1>0, <2>1, SMT DEF Receiving, Wear!Serving, ChansOK
    <3> QED
      BY <1>3, <2>7, <2>11, <3>1 DEF WearIInv, Unanswered
  <2>14. Received'
    <3>1. Wear!Placed(new, Len(received)) /\ Len(received) + Len(new) <= jobs[sending].total
      BY <1>2, <2>4, <2>6 DEF new, from
    <3> QED
      BY <1>3, <2>1, <2>7, <2>11, <3>1 DEF Received, Wear!Placed
  <2>15. Wear!BytesInPlace' /\ Wear!UnchangedIsAccepted' /\ Wear!CompletedIsExact'
    BY <1>3, <2>11 DEF WearIInv, Wear!BytesInPlace, Wear!Placed, Wear!UnchangedIsAccepted,
       Wear!CompletedIsExact
  <2> QED
    BY <2>9, <2>10, <2>12, <2>13, <2>14, <2>15, Frames DEF FrameInv, PhoneInv, WatchInv
<1> QED
  BY <1>6, <1>7

-----------------------------------------------------------------------------
(* The watch's steps.                                                       *)

LEMMA AtWork ==
  ASSUME WearIInv, wpc # "idle"
  PROVE  /\ Wear!Serving \in DOMAIN chans /\ Wear!Sent.total \in Nat
         /\ chans[Wear!Serving].bytes \in Seq(Byte)
BY Parts DEF WearIInv, Unanswered, Wear!Sent

LEMMA WatchQuiet ==
  ASSUME Settings, WearIInv, [Wear!Next]_Wear!vars, Wear!Listen \/ Wear!WatchCancel
  PROVE  WearIInv'
<1>0. Wear!TypeOK /\ JobsOK /\ TodoOK
  BY PartsFromTypes DEF WearIInv
<1>1. CASE Wear!Listen
  BY <1>0, <1>1, Same, QuietSteps DEF Wear!Listen, Wear!phone, JobsOK, TodoOK
<1>2. CASE Wear!WatchCancel
  <2>1. Faded
    <3>1. (wpc # "idle") \in BOOLEAN /\ Wear!CloseActive(wpc # "idle", Wear!Serving)
      BY <1>2 DEF Wear!WatchCancel
    <3> QED
      BY <1>0, <3>1, AtWork, ClosedActive
  <2> QED
    BY <1>0, <1>2, <2>1, QuietSteps DEF Wear!WatchCancel, Wear!phone, JobsOK, TodoOK
<1> QED
  BY <1>1, <1>2

LEMMA TakeStep ==
  ASSUME Settings, WearIInv, [Wear!Next]_Wear!vars, NEW k \in DOMAIN chans, Wear!Take(k)
  PROVE  WearIInv'
<1>0. Wear!TypeOK /\ JobsOK /\ TodoOK /\ ChansOK /\ received \in Seq(Byte)
  BY PartsFromTypes DEF WearIInv
<1>1. /\ UNCHANGED <<jobs, send, todo, pc, sending, chans, received>>
      /\ wpc = "idle" /\ wpc' = "head"
      /\ wstate' = "connecting"
  BY DEF Wear!Take, Wear!phone
<1>2. k \in 1..Wear!Last /\ next' = k + 1 /\ k >= next /\ next \in Nat
  BY <1>0, SMT DEF Wear!Take, ChansOK, Wear!Last
<1>3. Wear!Serving' = k /\ \A i \in DOMAIN chans : i >= next' => i >= next
  BY <1>0, <1>2, SMT DEF Wear!Serving, ChansOK, Wear!Last
<1>4. ChansOK'
  BY <1>0, <1>1, <1>2, SMT DEF ChansOK, Wear!Last
<1>5. Wear!TypeOK'
  BY <1>0, <1>1, <1>4, FlagsStep, TypesFromParts DEF JobsOK, TodoOK
<1>6. OneChannel' /\ TotalsReal'
  BY <1>1 DEF WearIInv, OneChannel, TotalsReal, Dialing, Wear!Last
<1>7. InStep'
  BY <1>1 DEF WearIInv, InStep, Receiving, Dialing, Wear!PositionsAgree, Wear!Last
<1>8. Unanswered'
  BY <1>1, <1>2, <1>3 DEF WearIInv, Unanswered
<1>9. Received' /\ Wear!BytesInPlace' /\ Wear!CompletedIsExact' /\ Wear!UnchangedIsAccepted'
  BY <1>1 DEF WearIInv, Received, Receiving, Wear!BytesInPlace, Wear!Placed,
     Wear!CompletedIsExact,
      Wear!UnchangedIsAccepted
<1> QED
  BY <1>5, <1>6, <1>7, <1>8, <1>9, Frames DEF FrameInv, PhoneInv, WatchInv

LEMMA LookStep ==
  ASSUME Settings, WearIInv, [Wear!Next]_Wear!vars, Wear!Look
  PROVE  WearIInv'
<1>0. Wear!TypeOK /\ JobsOK /\ TodoOK /\ ChansOK /\ received \in Seq(Byte)
  BY PartsFromTypes DEF WearIInv
<1>1. /\ UNCHANGED <<jobs, send, todo, pc, sending, chans, received, next, wstate>>
      /\ wpc = "loop" /\ wpc' = "read"
  BY DEF Wear!Look, Wear!phone
<1>2. Wear!TypeOK'
  BY <1>0, <1>1, FlagsStep, TypesFromParts DEF JobsOK, TodoOK, ChansOK, Wear!Last
<1>3. OneChannel' /\ TotalsReal' /\ InStep'
  BY <1>1 DEF WearIInv, OneChannel, TotalsReal, InStep, Receiving, Dialing, Wear!PositionsAgree,
              Wear!Last, Wear!Serving
<1>4. /\ Unanswered'
      /\ Received'
      /\ Wear!BytesInPlace'
      /\ Wear!CompletedIsExact'
      /\ Wear!UnchangedIsAccepted'
  BY <1>1 DEF WearIInv, Unanswered, Received, Receiving, Wear!BytesInPlace, Wear!Placed,
     Wear!CompletedIsExact,
      Wear!UnchangedIsAccepted, Wear!Serving, Wear!Sent
<1> QED
  BY <1>2, <1>3, <1>4, Frames DEF FrameInv, PhoneInv, WatchInv

LEMMA GreetStep ==
  ASSUME Settings, WearIInv, [Wear!Next]_Wear!vars, Wear!Greet
  PROVE  WearIInv'
<1>0. Wear!TypeOK /\ JobsOK /\ TodoOK /\ ChansOK /\ received \in Seq(Byte)
  BY PartsFromTypes DEF WearIInv
<1>1. /\ UNCHANGED <<jobs, send, todo, pc, sending, next, wstate>>
      /\ wpc = "head" /\ wpc' = "loop"
      /\ chans' = [chans EXCEPT ![Wear!Serving].ack = Len(received')]
  BY DEF Wear!Greet, Wear!phone
<1>2. /\ Wear!Serving \in DOMAIN chans
      /\ Wear!Sent.total \in Nat
      /\ chans[Wear!Serving].bytes = <<>>
  BY <1>1, AtWork DEF WearIInv, Unanswered
<1>3. received' \in Seq(Byte) /\ Len(received') \in Nat /\ Len(received') <= Wear!Sent.total
      /\ (received' = <<>> \/ received' = received)
  BY <1>0, <1>2, SMT DEF Wear!Greet
<1> DEFINE c == [chans[Wear!Serving] EXCEPT !.ack = Len(received')]
<1>4. /\ c \in Wear!Channel
      /\ c.ack = Len(received')
      /\ c.bytes = <<>>
      /\ c.job = chans[Wear!Serving].job
      /\ (c.open <=> chans[Wear!Serving].open)
  <2>1. chans[Wear!Serving] \in Wear!Channel
    BY <1>0, <1>2, Parts
  <2> QED
    BY <1>2, <1>3, <2>1, Zenon DEF Wear!Channel
<1>5. chans' = [chans EXCEPT ![Wear!Serving] = c]
  BY <1>1, Zenon
<1> HIDE DEF c
<1>6. /\ chans' \in Seq(Wear!Channel) /\ Wear!Last' = Wear!Last /\ DOMAIN chans' = DOMAIN chans
      /\ chans'[Wear!Serving] = c
      /\ \A i \in DOMAIN chans : i # Wear!Serving => chans'[i] = chans[i]
  BY <1>0, <1>2, <1>4, <1>5, SMT DEF ChansOK, Wear!Last
<1>7. \A i \in DOMAIN chans : /\ chans'[i].job = chans[i].job
                             /\ chans'[i].bytes = chans[i].bytes
                             /\ chans'[i].open <=> chans[i].open
  BY <1>2, <1>4, <1>6
<1>8. Wear!Serving' = Wear!Serving /\ Wear!Sent' = Wear!Sent
  <2>1. chans'[Wear!Serving].job = chans[Wear!Serving].job
    BY <1>4, <1>6
  <2>2. Wear!Serving' = Wear!Serving
    BY <1>1 DEF Wear!Serving
  <2> QED
    BY <1>1, <2>1, <2>2 DEF Wear!Sent
<1>9. Wear!TypeOK'
  <2>1. ChansOK'
    BY <1>0, <1>1, <1>6, <1>7 DEF ChansOK
  <2> QED
    BY <1>0, <1>1, <1>3, <2>1, FlagsStep, TypesFromParts DEF JobsOK, TodoOK
<1>10. OneChannel' /\ TotalsReal'
  <2>1. chans # <<>> => Wear!Last \in DOMAIN chans /\ chans' # <<>>
    BY <1>0, <1>6, SMT DEF ChansOK, Wear!Last
  <2> QED
    BY <1>1, <1>6, <1>7, <2>1 DEF WearIInv, OneChannel, TotalsReal, Dialing
<1>11. InStep'
  <2> SUFFICES ASSUME Dialing, chans[Wear!Last].open
               PROVE  InStep'
    BY <1>1, <1>6, <1>7, LastIn DEF InStep, Dialing
  <2>1. Wear!Last \in DOMAIN chans
    BY LastIn
  <2>2. pc = "ack" /\ chans[Wear!Last].ack = Wear!NoAck /\ chans[Wear!Last].bytes = <<>>
    BY <1>1 DEF WearIInv, InStep, Receiving, Dialing
  <2>3. Receiving' /\ pc' = "ack" /\ chans'[Wear!Last].bytes = <<>>
    BY <1>1, <1>7, <2>1, <2>2 DEF Receiving
  <2>4. CASE Wear!Serving = Wear!Last
    BY <1>4, <1>6, <1>8, <2>3, <2>4 DEF InStep, Wear!PositionsAgree
  <2>5. CASE Wear!Serving # Wear!Last
    BY <1>6, <2>1, <2>2, <2>3, <2>5 DEF InStep, Wear!PositionsAgree
  <2> QED
    BY <2>4, <2>5
<1>12. Unanswered'
  BY <1>1, <1>2, <1>6, <1>7, <1>8 DEF WearIInv, Unanswered
<1>13. Received'
  <2>1. Len(received') + Len(<<>>) <= Wear!Sent.total
    BY <1>3, SMT
  <2>2. Wear!Placed(<<>>, Len(received'))
    BY Nothing
  <2> QED
    BY <1>4, <1>6, <1>8, <2>1, <2>2 DEF Received, Wear!Placed
<1>14. Wear!BytesInPlace'
  BY <1>3, Nothing DEF WearIInv, Wear!BytesInPlace, Wear!Placed
<1>15. wstate' = "connecting"
  BY <1>1 DEF WearIInv, Unanswered
<1>16. Wear!CompletedIsExact' /\ Wear!UnchangedIsAccepted'
  BY <1>15 DEF Wear!CompletedIsExact, Wear!UnchangedIsAccepted
<1> QED
  BY <1>9, <1>10, <1>11, <1>12, <1>13, <1>14, <1>16, Frames DEF FrameInv, PhoneInv, WatchInv

LEMMA ReadStep ==
  ASSUME Settings, WearIInv, [Wear!Next]_Wear!vars, wpc = "read",
         NEW n \in 1..Len(chans[Wear!Serving].bytes), Wear!Read(n)
  PROVE  WearIInv'
<1>0. Wear!TypeOK /\ JobsOK /\ TodoOK /\ ChansOK /\ received \in Seq(Byte)
  BY PartsFromTypes DEF WearIInv
<1>1. /\ Wear!Serving \in DOMAIN chans
      /\ Wear!Sent.total \in Nat
      /\ chans[Wear!Serving].bytes \in Seq(Byte)
  BY AtWork
<1> DEFINE old == chans[Wear!Serving].bytes
           got == SubSeq(old, 1, n)
           rest == SubSeq(old, n + 1, Len(old))
<1>2. /\ UNCHANGED <<jobs, send, todo, pc, sending, next, wstate>>
      /\ wpc' = "loop" /\ received' = received \o got
      /\ chans' = [chans EXCEPT ![Wear!Serving].bytes = rest]
  BY DEF Wear!Read, Wear!phone
<1>3. /\ Receiving
      /\ Wear!Placed(old, Len(received))
      /\ Len(received) + Len(old) <= Wear!Sent.total
  BY DEF WearIInv, Received, Receiving
<1>4. /\ got \in Seq(Byte) /\ Len(got) = n /\ \A i \in 1..n : got[i] = old[i]
      /\ rest \in Seq(Byte) /\ Len(rest) = Len(old) - n
      /\ n \in Nat /\ n <= Len(old) /\ Len(old) \in Nat /\ Len(received) \in Nat
  BY <1>0, <1>1, Cut, SMT
<1>5. Wear!Placed(got, Len(received)) /\ Wear!Placed(rest, Len(received) + n)
  BY <1>1, <1>3, <1>4, PlacedFirst, PlacedRest
<1>6. received' \in Seq(Byte) /\ Len(received') = Len(received) + n
  BY <1>0, <1>2, <1>4, SMT
<1>7. Wear!Placed(received \o got, 0)
  <2>1. Wear!Placed(received, 0) /\ 0 + Len(received) = Len(received)
    BY <1>4, SMT DEF WearIInv, Wear!BytesInPlace
  <2> QED
    BY <1>0, <1>4, <1>5, <2>1, PlacedJoined
<1> HIDE DEF old, got, rest
<1>8. Len(received') + Len(rest) = Len(received) + Len(old)
  <2>1. \A x, y, z \in Nat : z <= y => (x + z) + (y - z) = x + y
    BY SMT
  <2> QED
    BY <1>4, <1>6, <2>1
<1>9. /\ chans' \in Seq(Wear!Channel) /\ Wear!Last' = Wear!Last /\ DOMAIN chans' = DOMAIN chans
      /\ chans'[Wear!Serving].bytes = rest /\ chans'[Wear!Serving].job = chans[Wear!Serving].job
      /\ chans'[Wear!Serving].ack = chans[Wear!Serving].ack
      /\ (chans'[Wear!Serving].open <=> chans[Wear!Serving].open)
      /\ \A i \in DOMAIN chans : i # Wear!Serving => chans'[i] = chans[i]
  BY <1>0, <1>1, <1>2, <1>4, BytesJoined
<1>10. \A i \in DOMAIN chans : /\ chans'[i].job = chans[i].job /\ chans'[i].ack = chans[i].ack
                              /\ chans'[i].open <=> chans[i].open
  BY <1>9
<1>11. Wear!Serving' = Wear!Serving /\ Wear!Sent' = Wear!Sent
  <2>1. Wear!Serving' = Wear!Serving
    BY <1>2 DEF Wear!Serving
  <2> QED
    BY <1>2, <1>9, <2>1 DEF Wear!Sent
<1>12. Wear!TypeOK'
  <2>1. ChansOK'
    BY <1>0, <1>2, <1>9, <1>10 DEF ChansOK
  <2> QED
    BY <1>0, <1>2, <1>6, <2>1, FlagsStep, TypesFromParts DEF JobsOK, TodoOK
<1>13. OneChannel' /\ TotalsReal'
  <2>1. chans # <<>> => Wear!Last \in DOMAIN chans /\ chans' # <<>>
    BY <1>0, <1>9, SMT DEF ChansOK, Wear!Last
  <2> QED
    BY <1>2, <1>9, <1>10, <2>1 DEF WearIInv, OneChannel, TotalsReal, Dialing
<1>14. InStep'
  <2> SUFFICES ASSUME Dialing, chans[Wear!Last].open
               PROVE  InStep'
    BY <1>2, <1>9, <1>10, LastIn DEF InStep, Dialing
  <2>1. Wear!Last \in DOMAIN chans /\ Receiving'
    BY <1>2, LastIn DEF Receiving
  <2>2. CASE pc = "stream"
    <3>1. Wear!Serving = Wear!Last /\ jobs[sending].offset = Len(received) + Len(old)
      BY <2>2 DEF WearIInv, InStep, Wear!PositionsAgree, old
    <3> QED
      BY <1>2, <1>8, <1>9, <1>11, <2>1, <2>2, <3>1 DEF InStep, Wear!PositionsAgree
  <2>3. CASE pc = "ack"
    <3>1. /\ chans[Wear!Last].bytes = <<>>
          /\ (chans[Wear!Last].ack # Wear!NoAck => Wear!Serving = Wear!Last)
      BY <2>3 DEF WearIInv, InStep, Dialing
    <3>2. Wear!Serving # Wear!Last
      BY <1>4, <3>1, SMT DEF old
    <3> QED
      BY <1>2, <1>9, <2>1, <2>3, <3>1, <3>2 DEF InStep, Wear!PositionsAgree
  <2> QED
    BY <2>2, <2>3 DEF Dialing
<1>15. Unanswered'
  <2>1. ~(Wear!Serving >= next)
    BY <1>0, SMT DEF Wear!Serving, ChansOK
  <2>2. \A k \in DOMAIN chans : k >= next => k # Wear!Serving
    BY <2>1
  <2> QED
    BY <1>2, <1>9, <1>11, <2>2 DEF WearIInv, Unanswered
<1>16. Received'
  BY <1>3, <1>5, <1>6, <1>8, <1>9, <1>11 DEF Received, Wear!Placed
<1>17. Wear!BytesInPlace'
  BY <1>2, <1>7 DEF Wear!BytesInPlace, Wear!Placed
<1>18. wstate' = "connecting"
  BY <1>2 DEF WearIInv, Unanswered
<1>19. Wear!CompletedIsExact' /\ Wear!UnchangedIsAccepted'
  BY <1>18 DEF Wear!CompletedIsExact, Wear!UnchangedIsAccepted
<1> QED
  BY <1>12, <1>13, <1>14, <1>15, <1>16, <1>17, <1>19, Frames DEF FrameInv, PhoneInv, WatchInv

\* The watch is done with a channel, in whatever way.
LEMMA EndsStep ==
  ASSUME Settings, WearIInv, [Wear!Next]_Wear!vars, wpc # "idle", NEW state, Wear!Ends(state),
         received' \in Seq(Byte), Wear!BytesInPlace',
         state = "completed" => received' = Content[Wear!Sent.sha256],
         (\A v, w \in Versions : Content[v] = Content[w]) => state # "rejected"
  PROVE  WearIInv'
<1>0. Wear!TypeOK /\ JobsOK /\ TodoOK /\ ChansOK
  BY PartsFromTypes DEF WearIInv
<1>1. Wear!Serving \in DOMAIN chans
  BY AtWork
<1>2. /\ UNCHANGED <<jobs, send, todo, pc, sending, next>>
      /\ wpc' = "idle" /\ wstate' = state
  BY DEF Wear!Ends, Wear!phone
<1>3. Faded /\ ~chans'[Wear!Serving].open
  BY <1>0, <1>1, Closed DEF Wear!Ends
<1>4. DOMAIN chans' = DOMAIN chans /\ Wear!Last' = Wear!Last /\ chans' \in Seq(Wear!Channel)
  BY <1>0, <1>3, SMT DEF Faded, Wear!Last, ChansOK
<1>5. Wear!TypeOK'
  BY <1>0, <1>2, <1>3, FlagsStep, FadedTyped, TypesFromParts DEF JobsOK, TodoOK
<1>6. OneChannel' /\ TotalsReal'
  <2>1. chans # <<>> => Wear!Last \in DOMAIN chans /\ chans' # <<>>
    BY <1>0, <1>4, SMT DEF ChansOK, Wear!Last
  <2> QED
    BY <1>2, <1>3, <1>4, <2>1 DEF WearIInv, OneChannel, TotalsReal, Dialing, Faded
<1>7. InStep'
  <2> SUFFICES ASSUME Dialing, chans'[Wear!Last].open
               PROVE  InStep'
    BY <1>2, <1>4 DEF InStep, Dialing
  <2>1. chans[Wear!Last].open /\ chans'[Wear!Last].bytes = chans[Wear!Last].bytes
        /\ chans'[Wear!Last].ack = chans[Wear!Last].ack
    BY <1>3, LastIn DEF Faded
  <2>2. Wear!Serving # Wear!Last
    BY <1>3
  <2>3. pc = "ack" /\ chans[Wear!Last].ack = Wear!NoAck /\ chans[Wear!Last].bytes = <<>>
    BY <2>1, <2>2 DEF WearIInv, InStep, Dialing
  <2> QED
    BY <1>2, <1>4, <2>1, <2>3 DEF InStep, Wear!PositionsAgree
<1>8. Unanswered'
  <2>1. \A k \in DOMAIN chans : chans[k].bytes = <<>> => chans'[k].bytes = <<>>
    <3> TAKE k \in DOMAIN chans
    <3>1. chans'[k] \in Wear!Channel
      BY <1>4, SMT
    <3>2. chans'[k].bytes \in Seq(Byte)
      BY <3>1 DEF Wear!Channel
    <3> QED
      BY <1>3, <3>2, SMT DEF Faded
  <2> QED
    BY <1>1, <1>2, <1>4, <2>1 DEF WearIInv, Unanswered, Wear!Serving
<1>9. Received'
  BY <1>2 DEF Received, Receiving
<1>10. Wear!CompletedIsExact' /\ Wear!UnchangedIsAccepted'
  <2>1. Wear!Serving' = Wear!Serving /\ Wear!Sent' = Wear!Sent
    <3>1. Wear!Serving' = Wear!Serving /\ chans'[Wear!Serving].job = chans[Wear!Serving].job
      BY <1>1, <1>2, <1>3 DEF Wear!Serving, Faded
    <3> QED
      BY <1>2, <3>1 DEF Wear!Sent
  <2> QED
    BY <1>2, <2>1 DEF Wear!CompletedIsExact, Wear!UnchangedIsAccepted
<1> QED
  BY <1>5, <1>6, <1>7, <1>8, <1>9, <1>10, Frames DEF FrameInv, PhoneInv, WatchInv

LEMMA Placing ==
  /\ received' = received /\ Wear!BytesInPlace => Wear!BytesInPlace'
  /\ received' = <<>> => Wear!BytesInPlace'
<1>1. received' = <<>> => Wear!BytesInPlace'
  BY Nothing DEF Wear!BytesInPlace, Wear!Placed
<1> QED
  BY <1>1 DEF Wear!BytesInPlace, Wear!Placed

LEMMA WatchEnds ==
  ASSUME Settings, WearIInv, [Wear!Next]_Wear!vars,
         Wear!Discard \/ Wear!Eof \/ Wear!Verify \/ Wear!WatchFails
  PROVE  WearIInv'
<1>0. received \in Seq(Byte) /\ <<>> \in Seq(Byte) /\ Wear!BytesInPlace
  BY PartsFromTypes, SMT DEF WearIInv
<1>1. CASE Wear!Discard
  <2>1. wpc # "idle" /\ received' = <<>> /\ Wear!Ends("canceled")
    BY <1>1 DEF Wear!Discard
  <2> QED
    BY <1>0, <2>1, Placing, EndsStep
<1>2. CASE Wear!Eof
  <2>1. wpc # "idle" /\ received' = received /\ Wear!Ends("paused")
    BY <1>2 DEF Wear!Eof
  <2> QED
    BY <1>0, <2>1, Placing, EndsStep
<1>3. CASE Wear!WatchFails
  <2>1. wpc # "idle" /\ received' = received /\ Wear!Ends("failed")
    BY <1>3 DEF Wear!WatchFails
  <2> QED
    BY <1>0, <2>1, Placing, EndsStep
<1>4. CASE Wear!Verify /\ received = Content[Wear!Sent.sha256]
  <2>1. wpc # "idle" /\ received' = received /\ Wear!Ends("completed")
    BY <1>4 DEF Wear!Verify
  <2> QED
    BY <1>0, <1>4, <2>1, Placing, EndsStep
<1>5. CASE Wear!Verify /\ received # Content[Wear!Sent.sha256]
  <2>1. wpc # "idle" /\ Receiving /\ received' = <<>> /\ Wear!Ends("rejected")
        /\ Len(received) >= Wear!Sent.total
    BY <1>5 DEF Wear!Verify, Receiving
  <2>2. /\ Wear!Serving \in DOMAIN chans
        /\ Wear!Sent.total \in Nat
        /\ chans[Wear!Serving].bytes \in Seq(Byte)
    BY <2>1, AtWork
  <2>3. Wear!Sent \in Wear!Job /\ chans[Wear!Serving].job \in DOMAIN jobs
    BY <2>2, Parts DEF WearIInv, Wear!Sent
  <2>4. PICK u \in Versions : Wear!Sent.total = Len(Content[u])
    BY <2>3 DEF WearIInv, TotalsReal, Wear!Sent
  <2>5. Len(received) = Len(Content[u])
    <3>1. Len(received) + Len(chans[Wear!Serving].bytes) <= Wear!Sent.total
      BY <2>1 DEF WearIInv, Received
    <3>2. Len(received) \in Nat /\ Len(chans[Wear!Serving].bytes) \in Nat
      BY <1>0, <2>2, SMT
    <3>3. Len(received) = Wear!Sent.total
      BY <2>1, <2>2, <3>1, <3>2, SMT
    <3> QED
      BY <2>4, <3>3
  <2>6. Wear!Sent.sha256 \in Versions
    BY <2>3 DEF Wear!Job
  <2>7. ~(\A v, w \in Versions : Content[v] = Content[w])
    BY <1>0, <1>5, <2>5, <2>6, WholeIsExact DEF Wear!BytesInPlace
  <2> QED
    BY <1>0, <2>1, <2>7, Placing, EndsStep
<1> QED
  BY <1>1, <1>2, <1>3, <1>4, <1>5

LEMMA WatchCrashStep ==
  ASSUME Settings, WearIInv, [Wear!Next]_Wear!vars, Wear!WatchCrash
  PROVE  WearIInv'
<1>0. Wear!TypeOK /\ JobsOK /\ TodoOK /\ ChansOK /\ received \in Seq(Byte)
  BY PartsFromTypes DEF WearIInv
<1>1. /\ UNCHANGED <<jobs, send, todo, pc, sending, received>>
      /\ wpc' = "idle" /\ wstate' = "none" /\ next' = Wear!Last + 1
  BY DEF Wear!WatchCrash, Wear!phone
<1>2. chans # <<>> => Wear!Last \in DOMAIN chans
  BY <1>0, SMT DEF ChansOK, Wear!Last
<1>3. Faded /\ (chans # <<>> => ~chans'[Wear!Last].open)
  <2>1. (chans # <<>>) \in BOOLEAN /\ Wear!CloseActive(chans # <<>>, Wear!Last)
    BY DEF Wear!WatchCrash
  <2> QED
    BY <1>0, <1>2, <2>1, ClosedActive
<1>4. /\ DOMAIN chans' = DOMAIN chans /\ Wear!Last' = Wear!Last /\ chans' \in Seq(Wear!Channel)
      /\ Wear!Last \in Nat /\ DOMAIN chans = 1..Wear!Last /\ (chans # <<>> => chans' # <<>>)
  BY <1>0, <1>3, SMT DEF Faded, Wear!Last, ChansOK
<1>5. ChansOK'
  <2>1. \A k \in DOMAIN chans' : chans'[k].job \in DOMAIN jobs
    BY <1>0, <1>3, <1>4 DEF Faded, ChansOK
  <2>2. next' \in 1..(Wear!Last' + 1)
    BY <1>1, <1>4, SMT
  <2> QED
    BY <1>1, <1>4, <2>1, <2>2 DEF ChansOK
<1>6. Wear!TypeOK'
  BY <1>0, <1>1, <1>5, FlagsStep, TypesFromParts DEF JobsOK, TodoOK
<1>7. OneChannel' /\ TotalsReal'
  BY <1>1, <1>2, <1>3, <1>4 DEF WearIInv, OneChannel, TotalsReal, Dialing, Faded
<1>8. InStep'
  <2>1. Dialing' => chans # <<>>
    BY <1>1 DEF WearIInv, OneChannel, Dialing
  <2> QED
    BY <1>3, <1>4, <2>1 DEF InStep
<1>9. Unanswered'
  <2>1. \A k \in DOMAIN chans : ~(k >= next')
    BY <1>1, <1>4, SMT
  <2> QED
    BY <1>1, <1>4, <2>1 DEF Unanswered
<1>10. Received' /\ Wear!CompletedIsExact' /\ Wear!UnchangedIsAccepted'
  BY <1>1 DEF Received, Receiving, Wear!CompletedIsExact, Wear!UnchangedIsAccepted
<1>11. Wear!BytesInPlace'
  BY <1>1, Placing DEF WearIInv
<1> QED
  BY <1>6, <1>7, <1>8, <1>9, <1>10, <1>11, Frames DEF FrameInv, PhoneInv, WatchInv

-----------------------------------------------------------------------------
(* The invariant.                                                           *)

LEMMA WearStarts ==
  ASSUME Wear!Init
  PROVE  WearIInv
<1>1. FlagsOK
  BY Zenon DEF Wear!Init, FlagsOK
<1>2. JobsOK /\ TodoOK /\ ChansOK /\ received \in Seq(Byte)
  BY SMT DEF Wear!Init, JobsOK, TodoOK, ChansOK, Wear!Last
<1>3. Wear!TypeOK
  BY <1>1, <1>2, Zenon DEF Wear!TypeOK, FlagsOK, JobsOK, TodoOK, ChansOK
<1>4. DOMAIN chans = {} /\ DOMAIN jobs = {}
  BY SMT DEF Wear!Init
<1>5. OneChannel /\ TotalsReal /\ Unanswered /\ Received /\ InStep
  BY <1>4 DEF Wear!Init, OneChannel, TotalsReal, Unanswered, Received, InStep, Dialing,
     Receiving
<1>6. Wear!BytesInPlace /\ Wear!CompletedIsExact /\ Wear!UnchangedIsAccepted
  BY Nothing DEF Wear!Init, Wear!BytesInPlace, Wear!CompletedIsExact, Wear!UnchangedIsAccepted
<1> QED
  BY <1>3, <1>5, <1>6 DEF WearIInv

LEMMA Steps ==
  ASSUME Settings, WearIInv, [Wear!Next]_Wear!vars
  PROVE  WearIInv'
<1>1. CASE Wear!PhoneMain
  BY <1>1, PhoneMainStep
<1>2. CASE Wear!PhoneIo
  BY <1>2, PhoneStops, StartStep, RerunStep, OpenStep, AckStep, WriteStep DEF Wear!PhoneIo
<1>3. CASE Wear!LinkLost
  BY <1>3, PhoneStops
<1>4. CASE Wear!Watch
  BY <1>4, WatchQuiet, TakeStep, GreetStep, LookStep, ReadStep, WatchEnds, WatchCrashStep
     DEF Wear!Watch
<1>5. CASE UNCHANGED Wear!vars
  <2>1. Wear!TypeOK /\ JobsOK /\ TodoOK
    BY PartsFromTypes DEF WearIInv
  <2> QED
    BY <1>5, <2>1, Same, QuietSteps DEF Wear!vars, Wear!phone, Wear!watch, JobsOK, TodoOK
<1> QED
  BY <1>1, <1>2, <1>3, <1>4, <1>5 DEF Wear!Next

LEMMA Always ==
  ASSUME Settings
  PROVE  Wear!Spec => []WearIInv
<1>1. Wear!Init => WearIInv
  BY WearStarts
<1>2. WearIInv /\ [Wear!Next]_Wear!vars => WearIInv'
  BY Steps
<1> QED
  BY <1>1, <1>2, PTL DEF Wear!Spec

\* The types and the references between jobs, tasks and channels hold
\* (WearModelTransfer.kt:83-104).
THEOREM WearTyped ==
  ASSUME Settings
  PROVE  Wear!Spec => []Wear!TypeOK
<1>1. WearIInv => Wear!TypeOK
  BY DEF WearIInv
<1> QED
  BY <1>1, Always, PTL

\* Whatever interrupts it, a resumed transfer neither repeats, skips nor moves
\* a byte, and both ends agree where they are while the channel is up
\* (WearModelTransfer.kt:41-47, 249-257, 380).
THEOREM ResumeIsSound ==
  ASSUME Settings
  PROVE  Wear!Spec => [](Wear!BytesInPlace /\ Wear!PositionsAgree)
<1>1. WearIInv => Wear!BytesInPlace
  BY DEF WearIInv
<1>2. WearIInv => Wear!PositionsAgree
  BY DEF WearIInv, InStep, Wear!PositionsAgree, Dialing
<1> QED
  BY <1>1, <1>2, Always, PTL

\* The watch's verdict is right both ways: what it reports complete is the
\* announced file, and a file that did not change is never rejected
\* (WearModelTransfer.kt:44, 413-421).
THEOREM VerdictIsRight ==
  ASSUME Settings
  PROVE  Wear!Spec => [](Wear!CompletedIsExact /\ Wear!UnchangedIsAccepted)
<1>1. WearIInv => Wear!CompletedIsExact /\ Wear!UnchangedIsAccepted
  BY DEF WearIInv
<1> QED
  BY <1>1, Always, PTL
=============================================================================
