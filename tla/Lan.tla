--------------------------------- MODULE Lan ---------------------------------
(***************************************************************************)
(* LAN pooling (src/lan.cpp, include/llm/lan.h; the passes of              *)
(* src/transformer.cpp that cross machines; main.cpp): a coordinator runs  *)
(* the first layers itself and hands the residual to each worker in turn,  *)
(* and every machine keeps the KV rows of its own layers.  Coordinators    *)
(* come one after the other, or compete for a worker; one that is gone     *)
(* does not come back, a new one takes its place.                          *)
(*                                                                         *)
(* Data: what a pass computes is named by a stamp of that pass, and a KV   *)
(* row holds the stamp of the pass that wrote it.  A RUN names the rows    *)
(* below it as the coordinator has them; what a worker computes is right   *)
(* if its input is, over the same rows.  TCP is external: a connection     *)
(* delivers in order, then its end; what a machine that dies had in flight *)
(* may be lost.                                                            *)
(***************************************************************************)
EXTENDS Integers, Sequences, SequencesExt

CONSTANTS
  Workers,   \* number of workers, in the order of their layers
  Coords,    \* coordinators
  Misfits,   \* those of them that may have another token, model or settings
  MaxCtx,    \* max_ctx
  Batches,   \* tokens a pass may have
  FrameMax,  \* tokens that fit in a frame (kMaxPayload)
  MaxPasses, \* bound: passes of all coordinators
  MaxFaults  \* bound: crashes, failed passes and timeouts

Nobody == "nobody"

ASSUME LanAssumption ==
  /\ Workers \in Nat \ {0} /\ Misfits \subseteq Coords /\ Nobody \notin Coords
  /\ MaxCtx \in Nat /\ Batches \subseteq Nat \ {0} /\ FrameMax \in Nat
  /\ MaxPasses \in Nat /\ MaxFaults \in Nat

VARIABLES
  coord,   \* the coordinators
  worker,  \* the workers
  backlog, \* the connections a worker has not accepted
  conn,    \* the connections: the messages each way, and who has closed it
  passes,  \* counts the passes: the last stamp
  faults   \* counts what MaxFaults bounds

vars == <<coord, worker, backlog, conn, passes, faults>>

W     == 1 .. Workers
NoRow == -1   \* what a row holds that no pass has written to its end

Plain(type) == [type |-> type]
NoPass  == [stamp |-> 0, start |-> 0, n |-> 0]
NoConn  == [toWorker |-> <<>>, toCoord |-> <<>>, gone |-> FALSE, shut |-> FALSE]

Init ==
  /\ \E fit \in SUBSET Misfits :
       coord = [c \in Coords |-> [pc |-> "connect", at |-> 1, pos |-> 0, rows |-> <<>>, pass |-> NoPass,
                                  right |-> TRUE, owed |-> {}, fits |-> c \in fit \/ c \notin Misfits]]
  /\ worker = [w \in W |-> [pc |-> "accept", with |-> Nobody, rows |-> <<>>, run |-> NoPass]]
  /\ backlog = [w \in W |-> <<>>]
  /\ conn = [c \in Coords |-> [w \in W |-> NoConn]]
  /\ passes = 0 /\ faults = 0

Fault == faults < MaxFaults /\ faults' = faults + 1

\* Mutant: one row too many.
WrittenPast(rows, start, n, stamp) ==
  [p \in 1 .. start + n + 1 |->
     IF p > Len(rows) \/ p \in start + 1 .. start + n THEN stamp ELSE rows[p]]

\* Rows start + 1 .. start + n hold stamp; what is above may stay.
Written(rows, start, n, stamp) ==
  [p \in 1 .. (IF start + n > Len(rows) THEN start + n ELSE Len(rows)) |->
     IF p \in start + 1 .. start + n THEN stamp ELSE IF p <= Len(rows) THEN rows[p] ELSE NoRow]

-----------------------------------------------------------------------------
(* The coordinator: RemoteExecutor, and what main.cpp does with it.        *)

At(c)   == coord[c].at
Line(c) == conn[c][At(c)]

\* Its process ends: every connection is closed, after a BYE if it can send one.
Leave(c, says) ==
  /\ coord' = [coord EXCEPT ![c].pc = "gone"]
  /\ conn' = [conn EXCEPT ![c] = [w \in W |->
       [conn[c][w] EXCEPT !.gone = TRUE, !.toWorker = @ \o says]]]

Connect(c) ==
  /\ coord[c].pc = "connect"
  /\ coord' = [coord EXCEPT ![c].pc = "hello"]
  /\ backlog' = [backlog EXCEPT ![At(c)] = Append(@, c)]
  /\ conn' = [conn EXCEPT ![c][At(c)].toWorker = <<Plain("HELLO")>>]
  /\ UNCHANGED <<worker, passes, faults>>

\* The next worker, or all are there (set_remote_segments).
Welcome(c) ==
  /\ coord[c].pc = "hello"
  /\ Line(c).toCoord # <<>> /\ Head(Line(c).toCoord).type = "HELLO_OK"
  /\ conn' = [conn EXCEPT ![c][At(c)].toCoord = Tail(@)]
  /\ coord' = IF At(c) < Workers THEN [coord EXCEPT ![c].pc = "connect", ![c].at = @ + 1]
              ELSE [coord EXCEPT ![c].pc = "idle"]
  /\ UNCHANGED <<worker, backlog, passes, faults>>

\* Refused, disconnected, or not answered in ten seconds.  The constructor
\* throws and the process ends with the executors it has.
HandshakeFails(c) ==
  /\ coord[c].pc \in {"connect", "hello"}
  /\ Leave(c, <<Plain("BYE")>>)
  /\ UNCHANGED <<worker, backlog, passes, faults>>

\* forward or prefill: a new position, or one the context was cut back to.  The
\* coordinator's own layers come first.
Begin(c) ==
  /\ coord[c].pc = "idle" /\ passes < MaxPasses
  /\ passes' = passes + 1
  /\ \E start \in 0 .. coord[c].pos, n \in Batches :
       /\ start + n <= MaxCtx
       /\ coord' = [coord EXCEPT
            ![c].pc = "send", ![c].at = 1, ![c].pos = start, ![c].right = TRUE,
            ![c].rows = Written(@, start, n, passes'),
            ![c].pass = [stamp |-> passes', start |-> start, n |-> n]]
  /\ UNCHANGED <<worker, backlog, conn, faults>>

\* Mutant: the context has grown all the same.
ThrowsLate(c) ==
  coord' = [coord EXCEPT ![c].pc = "idle", ![c].pos = @ + coord[c].pass.n,
                         ![c].pass = NoPass, ![c].right = TRUE]

\* An exception ends the pass; the context stays as it was, and so do the
\* connections.
Throws(c) == coord' = [coord EXCEPT ![c].pc = "idle", ![c].pass = NoPass, ![c].right = TRUE]

TooLarge(c) ==
  /\ coord[c].pc = "send" /\ coord[c].pass.n > FrameMax
  /\ Throws(c)
  /\ UNCHANGED <<worker, backlog, conn, passes, faults>>

Send(c) ==
  /\ coord[c].pc = "send" /\ coord[c].pass.n <= FrameMax
  /\ coord' = [coord EXCEPT ![c].pc = "wait"]
  /\ conn' = [conn EXCEPT ![c][At(c)].toWorker = Append(@,
       [type  |-> "RUN", start |-> coord[c].pass.start, n |-> coord[c].pass.n,
        stamp |-> coord[c].pass.stamp, right |-> coord[c].right,
        below |-> SubSeq(coord[c].rows, 1, coord[c].pass.start)])]
  /\ UNCHANGED <<worker, backlog, passes, faults>>

Answer(c) == Head(Line(c).toCoord)
Fits(c)   == Answer(c).type = "RESULT" /\ Answer(c).n = coord[c].pass.n

\* The answer is taken for the residual: to the next worker, or the pass is
\* complete.
Receive(c) ==
  /\ coord[c].pc = "wait"
  /\ Line(c).toCoord # <<>> /\ Fits(c)
  /\ conn' = [conn EXCEPT ![c][At(c)].toCoord = Tail(@)]
  /\ LET right == coord[c].right /\ Answer(c).right /\ Answer(c).stamp = coord[c].pass.stamp
     IN  coord' =
           IF At(c) < Workers
             THEN [coord EXCEPT ![c].pc = "send", ![c].at = @ + 1, ![c].right = right]
             ELSE [coord EXCEPT ![c].pc = "idle", ![c].pos = @ + coord[c].pass.n, ![c].right = right]
  /\ UNCHANGED <<worker, backlog, passes, faults>>

\* An ERROR, or a RESULT of another size.  The body of one that is larger is not
\* read, and what is left passes for headers.
BadAnswer(c) ==
  /\ coord[c].pc = "wait"
  /\ Line(c).toCoord # <<>> /\ ~Fits(c)
  /\ conn' \in {[conn EXCEPT ![c][At(c)].toCoord = left \o Tail(@)] :
                  left \in IF Answer(c).type = "ERROR" THEN {<<>>}
                           ELSE IF Answer(c).type = "JUNK" \/ Answer(c).n > coord[c].pass.n
                             THEN {<<Plain("JUNK")>>, <<>>} ELSE {<<>>}}
  /\ Throws(c)
  /\ UNCHANGED <<worker, backlog, passes, faults>>

\* The connection is found closed, by the send or by the read.
Lost(c) ==
  /\ coord[c].pc = "send" \/ (coord[c].pc = "wait" /\ Line(c).toCoord = <<>>)
  /\ Line(c).shut
  /\ Throws(c)
  /\ UNCHANGED <<worker, backlog, conn, passes, faults>>

\* 300 seconds are over; the answer is still owed, or half read.
Timeout(c) ==
  /\ coord[c].pc = "wait"
  /\ Fault
  /\ conn' = [conn EXCEPT ![c][At(c)].toCoord =
       IF @ = <<>> THEN @ ELSE <<Plain("JUNK")>> \o Tail(@)]
  /\ coord' = [coord EXCEPT ![c].pc = "idle", ![c].pass = NoPass, ![c].right = TRUE,
                            ![c].owed = @ \cup {At(c)}]
  /\ UNCHANGED <<worker, backlog, passes>>

\* The chat is left, or the process dies.
Exit(c) ==
  /\ coord[c].pc = "idle"
  /\ Leave(c, <<Plain("BYE")>>)
  /\ UNCHANGED <<worker, backlog, passes, faults>>

Crash(c) ==
  /\ coord[c].pc # "gone"
  /\ Fault
  /\ Leave(c, <<>>)
  /\ UNCHANGED <<worker, backlog, passes>>

-----------------------------------------------------------------------------
(* The worker: serve_worker, one coordinator at a time.                    *)

Peer(w)   == worker[w].with
Inbox(w)  == conn[Peer(w)][w].toWorker
Ahead(w)  == Inbox(w) # <<>>
Frees(w)  == worker' = [worker EXCEPT ![w].pc = "accept", ![w].with = Nobody, ![w].run = NoPass]
Replies(w, m) == conn' = [conn EXCEPT ![Peer(w)][w].toCoord = Append(@, m)]
Closes(w, says) ==
  conn' = [conn EXCEPT ![Peer(w)][w].toCoord = @ \o says, ![Peer(w)][w].shut = TRUE]

Accept(w) ==
  /\ worker[w].pc = "accept" /\ backlog[w] # <<>>
  /\ worker' = [worker EXCEPT ![w].pc = "hello", ![w].with = Head(backlog[w])]
  /\ backlog' = [backlog EXCEPT ![w] = Tail(@)]
  /\ UNCHANGED <<coord, conn, passes, faults>>

Greet(w) ==
  /\ worker[w].pc = "hello" /\ Ahead(w) /\ coord[Peer(w)].fits
  /\ worker' = [worker EXCEPT ![w].pc = "serve"]
  /\ conn' = [conn EXCEPT ![Peer(w)][w].toWorker = Tail(@),
                          ![Peer(w)][w].toCoord = Append(@, Plain("HELLO_OK"))]
  /\ UNCHANGED <<coord, backlog, passes, faults>>

Refuse(w) ==
  /\ worker[w].pc = "hello" /\ ~coord[Peer(w)].fits
  /\ Frees(w) /\ Closes(w, <<Plain("ERROR")>>)
  /\ UNCHANGED <<coord, backlog, passes, faults>>

Take(w) ==
  /\ worker[w].pc = "serve" /\ Ahead(w) /\ Head(Inbox(w)).type = "RUN"
  /\ worker' = [worker EXCEPT ![w].pc = "compute", ![w].run = Head(Inbox(w))]
  /\ conn' = [conn EXCEPT ![Peer(w)][w].toWorker = Tail(@)]
  /\ UNCHANGED <<coord, backlog, passes, faults>>

Run(w) == worker[w].run
\* The rows below are those the residual was computed with.
Agrees(w) == IsPrefix(Run(w).below, worker[w].rows)

\* run_layers, and the RESULT.
Finish(w) ==
  /\ worker[w].pc = "compute"
  /\ worker' = [worker EXCEPT ![w].pc = "serve", ![w].run = NoPass,
                              ![w].rows = Written(@, Run(w).start, Run(w).n, Run(w).stamp)]
  /\ Replies(w, [type  |-> "RESULT", n |-> Run(w).n, stamp |-> Run(w).stamp,
                 right |-> Run(w).right /\ Agrees(w)])
  /\ UNCHANGED <<coord, backlog, passes, faults>>

\* Mutant: the coordinator is not told.
FailsQuietly(w) ==
  /\ worker[w].pc = "compute"
  /\ Fault
  /\ worker' = [worker EXCEPT ![w].pc = "serve", ![w].run = NoPass]
  /\ UNCHANGED <<coord, backlog, conn, passes>>

\* run_layers throws, with some of the layers done.
Fails(w) ==
  /\ worker[w].pc = "compute"
  /\ Fault
  /\ worker' = [worker EXCEPT ![w] = [pc |-> "accept", with |-> Nobody, run |-> NoPass,
                                      rows |-> Written(@.rows, Run(w).start, Run(w).n, NoRow)]]
  /\ Closes(w, <<Plain("ERROR")>>)
  /\ UNCHANGED <<coord, backlog, passes>>

\* Mutant: only a BYE ends the service.
HangupOnBye(w) ==
  /\ worker[w].pc = "serve" /\ Ahead(w) /\ Head(Inbox(w)).type = "BYE"
  /\ Frees(w) /\ Closes(w, <<>>)
  /\ UNCHANGED <<coord, backlog, passes, faults>>

\* A BYE, or the end of the connection.
Hangup(w) ==
  /\ worker[w].pc \in {"hello", "serve"}
  /\ conn[Peer(w)][w].gone \/ (Ahead(w) /\ Head(Inbox(w)).type = "BYE")
  /\ Frees(w) /\ Closes(w, <<>>)
  /\ UNCHANGED <<coord, backlog, passes, faults>>

\* The worker dies and is started again: its rows are gone, and so is every
\* connection to it.
Restart(w) ==
  /\ Fault
  /\ worker' = [worker EXCEPT ![w] = [pc |-> "accept", with |-> Nobody, rows |-> <<>>, run |-> NoPass]]
  /\ backlog' = [backlog EXCEPT ![w] = <<>>]
  /\ \E lost \in BOOLEAN :
       conn' = [c \in Coords |->
         IF c = Peer(w) \/ c \in ToSet(backlog[w])
           THEN [conn[c] EXCEPT ![w].shut = TRUE, ![w].toCoord = IF lost THEN <<>> ELSE @]
           ELSE conn[c]]
  /\ UNCHANGED <<coord, passes>>

-----------------------------------------------------------------------------
CoordStep(c) ==
  Welcome(c) \/ HandshakeFails(c) \/ TooLarge(c) \/ Send(c) \/ Receive(c) \/ BadAnswer(c) \/ Lost(c)
User(c)       == Connect(c) \/ Begin(c) \/ Exit(c) \/ Crash(c)
WorkerStep(w) == Accept(w) \/ Greet(w) \/ Refuse(w) \/ Take(w) \/ Finish(w) \/ Hangup(w)

Next ==
  \/ \E c \in Coords : CoordStep(c) \/ Timeout(c) \/ User(c)
  \/ \E w \in W : WorkerStep(w) \/ Fails(w) \/ Restart(w)

\* Processes run, TCP delivers, and the ten seconds of a handshake pass.  Nobody
\* needs to start a pass or to leave, and the 300 seconds of a RUN never pass.
Fairness ==
  /\ \A c \in Coords : WF_vars(CoordStep(c))
  /\ \A w \in W : WF_vars(WorkerStep(w))

Spec == Init /\ [][Next]_vars /\ Fairness

-----------------------------------------------------------------------------
(* Properties.                                                             *)

\* Types.
TypeOK ==
  /\ \A c \in Coords :
       /\ coord[c].pc \in {"connect", "hello", "idle", "send", "wait", "gone"}
       /\ coord[c].at \in W /\ coord[c].pos \in 0 .. MaxCtx /\ Len(coord[c].rows) <= MaxCtx
  /\ \A w \in W : /\ worker[w].pc \in {"accept", "hello", "serve", "compute"}
                  /\ worker[w].with \in Coords \cup {Nobody}
                  /\ Len(worker[w].rows) <= MaxCtx

\* lan.h:43-44 and tests/test_lan.cpp:1-9, "splitting layers across machines must
\* not change the arithmetic": whatever fails, ends and comes back, and whoever
\* had the workers before, a coordinator that never timed out has taken only
\* right answers, each to the RUN it had just sent, and between two passes every
\* worker it still has keeps, below pos, rows of the same passes as its own.
Unowed(c) == coord[c].owed = {}
SplitIsExact ==
  \A c \in Coords : Unowed(c) =>
    /\ coord[c].right
    /\ coord[c].pc = "idle" =>
         \A w \in W : ~conn[c][w].shut =>
           IsPrefix(SubSeq(coord[c].rows, 1, coord[c].pos), worker[w].rows)

\* A RUN is answered, or its connection is seen to end, without the timeout
\* (lan.cpp:415, 444-447): the worker fails aloud and serves only one at a time.
WaitsEnd == \A c \in Coords : coord[c].pc = "wait" ~> coord[c].pc # "wait"

\* lan.cpp:331-333: a coordinator holds its worker until it disconnects, and no
\* longer, whether it says BYE, crashes, or gives up before it is accepted.
Abandoned(w) == worker[w].with # Nobody /\ conn[Peer(w)][w].gone
WorkerFreed  == \A w \in W : Abandoned(w) ~> ~Abandoned(w)
=============================================================================
