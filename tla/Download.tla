------------------------------ MODULE Download -------------------------------
(***************************************************************************)
(* bindings/flutter/sipllm_flutter/lib/src/download: one file downloaded   *)
(* by DownloadTask objects (download_task.dart) of a DownloadManager       *)
(* (hf_download_manager.dart), one object after the other or, if the app   *)
(* does not wait, at once.  A step runs from one await to the next, which  *)
(* is what Dart's event loop makes atomic.                                 *)
(*                                                                         *)
(* Data: byte k of the resource is the number k, a byte nobody wrote is    *)
(* Zero, a chunk is one byte.  A file that does not exist is a name        *)
(* outside the domain of part, or an empty set.  Progress samples, headers *)
(* and redirects are left out.  dart:io is external: appending continues   *)
(* at the end of the file, closing a file under a pending write fails and  *)
(* the write goes on.                                                      *)
(***************************************************************************)
EXTENDS Integers, Sequences, FiniteSets, SequencesExt

CONSTANTS
  Setups,   \* how a download may be set up: total (bytes of the resource),
            \* connections, permits (_maxConnections), ranged (the server
            \* answers ranges), sha (a digest is given), patient (the app waits
            \* for a task to settle before it starts or resumes another), the
            \* faults that may occur, and a bound, runs: the calls of _runLoop
  MaxRuns   \* the largest of these bounds

Faults == {"error",  \* a request or a stream fails
           "short",  \* a stream ends early and no length tells
           "whole",  \* a ranged request is answered with 200 and all bytes
           "disk",   \* a chunk cannot be written
           "crash"}  \* the process ends

ASSUME DownloadAssumption ==
  /\ MaxRuns \in Nat
  /\ Setups \subseteq [total : Nat \ {0}, connections : Nat \ {0}, permits : Nat \ {0},
                       ranged : BOOLEAN, sha : BOOLEAN, patient : BOOLEAN, faults : SUBSET Faults,
                       runs : 1 .. MaxRuns]

VARIABLES
  setup,     \* the setup of this download
  part,      \* the part files on disk: their bytes
  sidecar,   \* the sidecar on disk: {}, {bytes written per segment} or Corrupt
  dest,      \* the file at destPath: {} or {its bytes}
  task,      \* the task objects, each named by its first run
  loop,      \* the calls of _runLoop
  job,       \* the calls of _runSegment or _runSingle, by run and segment
  permits,   \* _permits
  waiters,   \* _waiters
  mishaps    \* history: what went wrong outside the task, or ran into it

disk == <<part, sidecar, dest>>
pool == <<permits, waiters>>
vars == <<setup, part, sidecar, dest, task, loop, job, permits, waiters, mishaps>>

Zero    == -1
Corrupt == {<<>>}
Runs    == 1 .. MaxRuns
NoRun   == 0

Occurs(fault) == fault \in setup.faults

\* _split: contiguous ranges, the last one takes the remainder.
Split ==
  LET per == setup.total \div setup.connections
  IN  IF per = 0 \/ ~setup.ranged THEN <<[start |-> 0, end |-> setup.total - 1]>>
      ELSE [i \in 1 .. setup.connections |->
              [start |-> (i - 1) * per,
               end   |-> IF i = setup.connections THEN setup.total - 1 ELSE i * per - 1]]

Segs      == DOMAIN Split
Length(s) == Split[s].end - Split[s].start + 1
Resource  == [k \in 1 .. setup.total |-> k - 1]
Piece(s)  == SubSeq(Resource, Split[s].start + 1, Split[s].end + 1)

NoTask == [state |-> "none", stop |-> FALSE, cancel |-> FALSE, done |-> "open",
           written |-> <<>>, sub |-> <<>>, completer |-> <<>>,
           current |-> NoRun, finish |-> "no"]
NoLoop == [of |-> NoRun, pc |-> "off", keep |-> FALSE, snap |-> <<>>]
NoJob  == [pc |-> "none", next |-> 0, last |-> 0, live |-> FALSE, over |-> FALSE,
           err |-> FALSE, hand |-> "none", snap |-> <<>>]

Init ==
  /\ setup \in Setups
  /\ part = <<>> /\ sidecar = {} /\ dest = {}
  /\ task = [t \in Runs |-> NoTask]
  /\ loop = [r \in Runs |-> NoLoop]
  /\ job = [r \in Runs |-> [s \in Segs |-> NoJob]]
  /\ permits = setup.permits /\ waiters = <<>>
  /\ mishaps = {}

-----------------------------------------------------------------------------
(* Files.                                                                  *)

\* Mutant: what is on disk past the offset stays.
NotCut(bytes, n) ==
  IF n <= Len(bytes) THEN bytes ELSE bytes \o [k \in 1 .. n - Len(bytes) |-> Zero]

\* truncate(n) cuts a file, or extends it with zeros.
Resized(bytes, n) == [k \in 1 .. n |-> IF k <= Len(bytes) THEN bytes[k] ELSE Zero]

Bytes(s) == IF s \in DOMAIN part THEN part[s] ELSE <<>>

PartsAt(lengths) == [s \in Segs |-> Resized(Bytes(s), lengths[s])]

\* _writeSidecar lands: a temporary file, renamed.  Writes that overlap share
\* the temporary file: the result may be garbled, or one rename finds nothing.
Lands(snap, others) ==
  sidecar' \in {{snap}} \cup (IF others THEN {Corrupt, sidecar} ELSE {})

\* Other sidecar writes are under way.
OthersWrite(me) ==
  \/ \E r \in Runs : loop[r].pc \in {"flush", "fresh"} /\ <<r>> # me
  \/ \E r \in Runs, s \in Segs : job[r][s].hand = "commit" /\ <<r, s>> # me

-----------------------------------------------------------------------------
(* The connection permits, shared by all tasks.                            *)

\* Mutant: the permit goes to the first waiter and back to the pool as well.
ReleaseTwice(jobs) ==
  /\ permits' = permits + 1
  /\ IF waiters = <<>>
       THEN job' = jobs /\ UNCHANGED waiters
       ELSE LET w == Head(waiters)
            IN  job' = [jobs EXCEPT ![w[1]][w[2]].pc = "granted"] /\ waiters' = Tail(waiters)

\* Mutant: nobody is woken.
ReleaseToPool(jobs) == permits' = permits + 1 /\ job' = jobs /\ UNCHANGED waiters

\* _release: the first waiter has it, or the pool.
Release(jobs) ==
  IF waiters = <<>>
    THEN permits' = permits + 1 /\ job' = jobs /\ UNCHANGED waiters
    ELSE LET w == Head(waiters)
         IN  /\ job' = [jobs EXCEPT ![w[1]][w[2]].pc = "granted"]
             /\ waiters' = Tail(waiters)
             /\ UNCHANGED permits

\* The segments that are not complete; without ranges the only one always
\* starts again.
Todo(written) == {s \in Segs : ~setup.ranged \/ written[s] < Length(s)}

\* Where a segment stands among them.
Place(s, todo) == Cardinality({q \in todo : q <= s})

\* The run asks for one permit for each, in their order.
Spread(r, written) ==
  LET todo == Todo(written)
      n    == Min({Cardinality(todo), permits})
  IN  /\ job' = [job EXCEPT ![r] = [s \in Segs |->
                   IF s \notin todo THEN NoJob
                   ELSE [NoJob EXCEPT !.pc = IF Place(s, todo) <= n THEN "granted" ELSE "queued"]]]
      /\ permits' = permits - n
      /\ waiters' = waiters \o [i \in 1 .. Cardinality(todo) - n |->
                                  <<r, CHOOSE s \in todo : Place(s, todo) = n + i>>]

-----------------------------------------------------------------------------
(* What the app calls.                                                     *)

Used == {r \in Runs : loop[r].of # NoRun}
Free == (1 .. setup.runs) \ Used
Settled(t) == \A r \in Runs : loop[r].of = t => loop[r].pc = "off"
Quiet(t) == Settled(t) /\ task[t].finish \in {"no", "end"}
Superseded(t) == \E r \in Runs : loop[r].of > t
Noted(what, when) == mishaps' = IF when THEN mishaps \cup {what} ELSE mishaps

\* enqueue: a new task for the same file, started at once.  The app does so
\* when there is none, or the last one is at rest or gone.
Enqueue ==
  LET quiet == \A t \in Runs : Quiet(t) IN
  \E r \in Free :
    /\ \A q \in Free : r <= q
    /\ \A t \in Runs : task[t].state # "running"
    /\ setup.patient => quiet
    /\ Noted("overlap", ~quiet)
    /\ task' = [task EXCEPT ![r] =
         [NoTask EXCEPT !.state = "running", !.current = r,
                        !.sub = [s \in Segs |-> NoRun], !.completer = [s \in Segs |-> NoRun]]]
    /\ loop' = [loop EXCEPT ![r] = [NoLoop EXCEPT !.of = r, !.pc = "probe"]]
    /\ UNCHANGED <<setup, disk, job, pool>>

\* resume: another _runLoop, whatever the last one is doing.
Resume(t) ==
  \E r \in Free :
    /\ \A q \in Free : r <= q
    /\ task[t].state \in {"paused", "failed"}
    /\ setup.patient => Quiet(t) /\ ~Superseded(t)
    /\ mishaps' = mishaps \cup (IF Quiet(t) /\ ~Superseded(t) THEN {} ELSE {"overlap"})
                           \cup (IF task[t].state = "failed" THEN {"revived"} ELSE {})
    /\ task' = [task EXCEPT ![t].state = "running", ![t].stop = FALSE, ![t].cancel = FALSE,
                            ![t].current = r]
    /\ IF task[t].written = <<>>
         THEN /\ loop' = [loop EXCEPT ![r] = [NoLoop EXCEPT !.of = t, !.pc = "probe"]]
              /\ UNCHANGED <<job, pool>>
         ELSE /\ loop' = [loop EXCEPT ![r] = [NoLoop EXCEPT !.of = t, !.pc = "work"]]
              /\ Spread(r, task[t].written)
    /\ UNCHANGED <<setup, disk>>

\* Mutant: the subscriptions are cancelled, but nobody is told.
AbortQuietly(t) ==
  [r \in Runs |-> [s \in Segs |->
     IF task[t].sub # <<>> /\ task[t].sub[s] = r
       THEN [job[r][s] EXCEPT !.live = FALSE] ELSE job[r][s]]]

\* _abortActive: the registered subscriptions are cancelled, the registered
\* completers complete.
Abort(t) ==
  [r \in Runs |-> [s \in Segs |->
     [job[r][s] EXCEPT !.live = @ /\ task[t].sub[s] # r,
                       !.over = @ \/ task[t].completer[s] = r]]]

Pause(t) ==
  /\ task[t].state = "running"
  /\ task' = [task EXCEPT ![t].state = "paused", ![t].stop = TRUE,
                          ![t].sub = [s \in Segs |-> NoRun]]
  /\ job' = Abort(t)
  /\ UNCHANGED <<setup, disk, loop, pool, mishaps>>

Cancel(t) ==
  /\ task[t].state \in {"running", "paused", "failed"}
  /\ task' = [task EXCEPT ![t].state = "canceled", ![t].stop = TRUE, ![t].cancel = TRUE,
                          ![t].sub = [s \in Segs |-> NoRun], ![t].finish = "wait"]
  /\ setup.patient => ~Superseded(t)
  /\ job' = Abort(t)
  /\ Noted("overlap", Superseded(t))
  /\ UNCHANGED <<setup, disk, loop, pool>>

-----------------------------------------------------------------------------
(* _runLoop, up to the parts.                                              *)

Of(r) == loop[r].of
Stopped(r) == task[Of(r)].stop
Goes(r, pc) == loop' = [loop EXCEPT ![r].pc = pc]

\* The catch clause: a cancellation owns its own cleanup, any other error fails
\* the task and deletes everything.
Throws(r) ==
  IF task[Of(r)].cancel
    THEN Goes(r, "off") /\ UNCHANGED task
    ELSE /\ loop' = [loop EXCEPT ![r].pc = "parts", ![r].keep = FALSE]
         /\ task' = [task EXCEPT ![Of(r)].state = "failed"]

Probe(r) ==
  /\ loop[r].pc = "probe"
  /\ Goes(r, "prepare")
  /\ UNCHANGED <<setup, disk, task, job, pool, mishaps>>

ProbeFails(r) ==
  /\ loop[r].pc = "probe"
  /\ Occurs("error")
  /\ Throws(r)
  /\ mishaps' = mishaps \cup {"error"}
  /\ UNCHANGED <<setup, disk, job, pool>>

\* A task object takes over the offsets; its parts are cut, or extended, to them.
TakeOver(r, written) ==
  /\ part' = PartsAt(written)
  /\ task' = [task EXCEPT ![Of(r)].written = written]

Readable == sidecar \ Corrupt

\* _prepareSegments: from the sidecar if it can be read...
PrepareFromSidecar(r) ==
  /\ loop[r].pc = "prepare"
  /\ task[Of(r)].written = <<>>
  /\ \E written \in Readable : TakeOver(r, written) /\ Spread(r, written)
  /\ Goes(r, "work")
  /\ UNCHANGED <<setup, sidecar, dest, mishaps>>

\* ... from nothing if not: empty parts, then the first sidecar...
PrepareFresh(r) ==
  /\ loop[r].pc = "prepare"
  /\ task[Of(r)].written = <<>>
  /\ Readable = {}
  /\ TakeOver(r, [s \in Segs |-> 0])
  /\ loop' = [loop EXCEPT ![r].pc = "fresh", ![r].snap = [s \in Segs |-> 0]]
  /\ UNCHANGED <<setup, sidecar, dest, job, pool, mishaps>>

FreshWritten(r) ==
  /\ loop[r].pc = "fresh"
  /\ Lands(loop[r].snap, OthersWrite(<<r>>))
  /\ Spread(r, task[Of(r)].written)
  /\ loop' = [loop EXCEPT ![r].pc = "work", ![r].snap = <<>>]
  /\ UNCHANGED <<setup, part, dest, task, mishaps>>

\* ... or not at all, when another run of the task has done so meanwhile.
Prepared(r) ==
  /\ loop[r].pc = "prepare"
  /\ task[Of(r)].written # <<>>
  /\ Spread(r, task[Of(r)].written)
  /\ Goes(r, "work")
  /\ UNCHANGED <<setup, disk, task, mishaps>>

-----------------------------------------------------------------------------
(* _runSegment, and _runSingle where the server has no ranges.             *)

\* The permit is there.  A ranged segment looks whether it is still wanted; a
\* single stream starts from zero, whatever was stopped or written.  The part
\* is created if need be and cut to what was written (_openPartAppend).
Granted(r, s) ==
  LET t     == Of(r)
      wants == ~setup.ranged \/ (~Stopped(r) /\ task[t].written[s] < Length(s))
      done  == IF setup.ranged THEN task[t].written[s] ELSE 0
  IN  /\ job[r][s].pc = "granted"
      /\ IF wants
           THEN /\ job' = [job EXCEPT ![r][s].pc = "get", ![r][s].next = Split[s].start + done,
                                      ![r][s].last = Split[s].end]
                /\ part' = [q \in DOMAIN part \cup {s} |->
                              IF q = s THEN Resized(Bytes(s), done) ELSE part[q]]
           ELSE job' = [job EXCEPT ![r][s].pc = "leave"] /\ UNCHANGED part
      /\ task' = [task EXCEPT ![t].completer[s] = r, ![t].written[s] = done]
      /\ UNCHANGED <<setup, sidecar, dest, loop, pool, mishaps>>

\* The response is there.  If the completer was completed meanwhile its first
\* chunk at most is used.
Get(r, s) ==
  /\ job[r][s].pc = "get"
  /\ IF job[r][s].over
       THEN /\ \E hand \in {"none", "write"} :
                 job' = [job EXCEPT ![r][s].pc = "leave", ![r][s].hand = hand]
            /\ UNCHANGED <<task, mishaps>>
       ELSE \E whole \in {FALSE} \cup (IF Occurs("whole") /\ setup.ranged THEN {TRUE} ELSE {}) :
              /\ job' = [job EXCEPT ![r][s].pc = "stream", ![r][s].live = TRUE,
                                    ![r][s].next = IF whole THEN 0 ELSE @,
                                    ![r][s].last = IF whole THEN setup.total - 1 ELSE @]
              /\ task' = [task EXCEPT ![Of(r)].sub[s] = r]
              /\ Noted("whole", whole)
  /\ UNCHANGED <<setup, disk, loop, pool>>

GetFails(r, s) ==
  /\ job[r][s].pc = "get"
  /\ Occurs("error")
  /\ job' = [job EXCEPT ![r][s].pc = "leave", ![r][s].err = TRUE]
  /\ mishaps' = mishaps \cup {"error"}
  /\ UNCHANGED <<setup, disk, task, loop, pool>>

\* A chunk: the subscription pauses while it is written.
Chunk(r, s) ==
  /\ job[r][s].pc = "stream" /\ job[r][s].live /\ job[r][s].hand = "none"
  /\ job[r][s].next <= job[r][s].last
  /\ job' = [job EXCEPT ![r][s].hand = "write"]
  /\ UNCHANGED <<setup, disk, task, loop, pool, mishaps>>

\* The handler is through: it looks whether to stop.
Handled(j, stop) ==
  IF j.pc \in {"done", "threw"} THEN [NoJob EXCEPT !.pc = j.pc]
  ELSE [j EXCEPT !.hand = "none", !.snap = <<>>, !.live = @ /\ ~stop, !.over = @ \/ stop]

\* The chunk is on disk.  _maybeCommit may think a commit due; a single stream
\* commits nothing.  The handle may belong to a part deleted since.
Wrote(r, s) ==
  LET t    == Of(r)
      now  == [task[t].written EXCEPT ![s] = @ + 1]
      j    == [job[r][s] EXCEPT !.next = @ + 1]
  IN  /\ job[r][s].hand = "write"
      /\ task' = [task EXCEPT ![t].written = now]
      /\ part' = [q \in DOMAIN part |-> IF q = s THEN Append(part[q], job[r][s].next) ELSE part[q]]
      /\ \/ job' = [job EXCEPT ![r][s] = Handled(j, Stopped(r))]
         \/ /\ setup.ranged
            /\ job' = [job EXCEPT ![r][s] = [j EXCEPT !.hand = "commit", !.snap = now]]
      /\ Noted("late", \E q \in Used : q > r)
      /\ UNCHANGED <<setup, sidecar, dest, loop, pool>>

WriteFails(r, s) ==
  /\ job[r][s].hand = "write"
  /\ Occurs("disk")
  /\ job' = [job EXCEPT ![r][s].hand = "none", ![r][s].live = FALSE, ![r][s].over = TRUE,
                        ![r][s].err = ~job[r][s].over]
  /\ mishaps' = mishaps \cup {"disk"}
  /\ UNCHANGED <<setup, disk, task, loop, pool>>

\* The sidecar of a commit lands, which may be after the run has ended.
Commit(r, s) ==
  /\ job[r][s].hand = "commit"
  /\ Lands(job[r][s].snap, OthersWrite(<<r, s>>))
  /\ job' = [job EXCEPT ![r][s] = Handled(@, Stopped(r))]
  /\ Noted("late", loop[r].pc # "work")
  /\ UNCHANGED <<setup, part, dest, task, loop, pool>>

\* onDone, at the end or, when no length tells, before.
StreamEnds(r, s) ==
  /\ job[r][s].pc = "stream" /\ job[r][s].live /\ job[r][s].hand = "none"
  /\ job[r][s].next <= job[r][s].last => Occurs("short")
  /\ job' = [job EXCEPT ![r][s].live = FALSE, ![r][s].over = TRUE]
  /\ Noted("short", job[r][s].next <= job[r][s].last)
  /\ UNCHANGED <<setup, disk, task, loop, pool>>

StreamFails(r, s) ==
  /\ job[r][s].pc = "stream" /\ job[r][s].live /\ job[r][s].hand = "none"
  /\ Occurs("error")
  /\ job' = [job EXCEPT ![r][s].live = FALSE, ![r][s].over = TRUE, ![r][s].err = ~job[r][s].over]
  /\ mishaps' = mishaps \cup {"error"}
  /\ UNCHANGED <<setup, disk, task, loop, pool>>

\* The finally clause: the file is closed and the permit given back.
Leave(r, s) ==
  /\ job[r][s].pc = "leave" \/ (job[r][s].pc = "stream" /\ job[r][s].over)
  /\ LET pc == IF job[r][s].err THEN "threw" ELSE "done"
         j  == job[r][s]
     IN  Release([job EXCEPT ![r][s] = [NoJob EXCEPT !.pc = pc, !.hand = j.hand, !.snap = j.snap,
                                          !.next = IF j.hand = "write" THEN j.next ELSE 0]])
  /\ task' = [task EXCEPT ![Of(r)].sub[s] = NoRun,
                          ![Of(r)].completer[s] = IF @ = r THEN NoRun ELSE @]
  /\ UNCHANGED <<setup, disk, loop, mishaps>>

-----------------------------------------------------------------------------
(* _runLoop, after the parts.                                              *)

Ended(r) == \A s \in Segs : job[r][s].pc \in {"none", "done", "threw"}

\* Mutant: a stopped run assembles what it has.
JoinUnstopped(r) ==
  /\ loop[r].pc = "work"
  /\ Ended(r)
  /\ IF \E s \in Segs : job[r][s].pc = "threw" THEN Throws(r)
     ELSE Goes(r, "assemble") /\ UNCHANGED task
  /\ UNCHANGED <<setup, disk, job, pool, mishaps>>

\* Future.wait waits for all segments, then reports the first error.
Join(r) ==
  /\ loop[r].pc = "work"
  /\ Ended(r)
  /\ IF \E s \in Segs : job[r][s].pc = "threw" THEN Throws(r)
     ELSE IF Stopped(r)
       THEN /\ loop' = [loop EXCEPT ![r].pc = "flush", ![r].snap = task[Of(r)].written]
            /\ UNCHANGED task
       ELSE Goes(r, "assemble") /\ UNCHANGED task
  /\ UNCHANGED <<setup, disk, job, pool, mishaps>>

Flush(r) ==
  /\ loop[r].pc = "flush"
  /\ Lands(loop[r].snap, OthersWrite(<<r>>))
  /\ loop' = [loop EXCEPT ![r].pc = "off", ![r].snap = <<>>]
  /\ UNCHANGED <<setup, part, dest, task, job, pool, mishaps>>

\* _assemble: destPath is truncated, then filled.
OpenDest(r) ==
  /\ loop[r].pc = "assemble"
  /\ dest' = {<<>>}
  /\ Goes(r, "concat")
  /\ UNCHANGED <<setup, part, sidecar, task, job, pool, mishaps>>

Concat(r) ==
  /\ loop[r].pc = "concat"
  /\ IF DOMAIN part = Segs
       THEN dest' = {FlattenSeq(part)} /\ Goes(r, "verify") /\ UNCHANGED task
       ELSE Throws(r) /\ UNCHANGED dest
  /\ UNCHANGED <<setup, part, sidecar, job, pool, mishaps>>

\* _verify: the size if the server has ranges, the digest if one is given.
Verified(bytes) ==
  /\ setup.ranged => Len(bytes) = setup.total
  /\ setup.sha => bytes = Resource

Verify(r) ==
  /\ loop[r].pc = "verify"
  /\ IF \E bytes \in dest : Verified(bytes)
       THEN loop' = [loop EXCEPT ![r].pc = "parts", ![r].keep = TRUE] /\ UNCHANGED task
       ELSE Throws(r)
  /\ UNCHANGED <<setup, disk, job, pool, mishaps>>

\* _cleanup: the parts this task knows of, then the sidecar, then the file.
PartsGone(t) == part' = IF task[t].written = <<>> THEN part ELSE <<>>

SweepParts(r) ==
  /\ loop[r].pc = "parts"
  /\ PartsGone(Of(r))
  /\ Goes(r, "sidecar")
  /\ UNCHANGED <<setup, sidecar, dest, task, job, pool, mishaps>>

\* Mutant: the sidecar stays.
KeepSidecar(r) ==
  /\ loop[r].pc = "sidecar"
  /\ Goes(r, "end")
  /\ UNCHANGED <<setup, disk, task, job, pool, mishaps>>

SweepSidecar(r) ==
  /\ loop[r].pc = "sidecar"
  /\ sidecar' = {}
  /\ Goes(r, "end")
  /\ UNCHANGED <<setup, part, dest, task, job, pool, mishaps>>

\* done settles once.
Settles(t, how) == IF task[t].done = "open" THEN how ELSE task[t].done

Complete(r) ==
  /\ loop[r].pc = "end" /\ loop[r].keep
  /\ task' = [task EXCEPT ![Of(r)].state = "completed", ![Of(r)].done = Settles(Of(r), "ok")]
  /\ Goes(r, "off")
  /\ UNCHANGED <<setup, disk, job, pool, mishaps>>

GiveUp(r) ==
  /\ loop[r].pc = "end" /\ ~loop[r].keep
  /\ dest' = {}
  /\ task' = [task EXCEPT ![Of(r)].done = Settles(Of(r), "error")]
  /\ Goes(r, "off")
  /\ UNCHANGED <<setup, part, sidecar, job, pool, mishaps>>

\* Mutant: a cancellation deletes while its run goes on.
UnwoundAtOnce(t) == TRUE

\* _finishCancel awaits the current run...
Unwound(t) == loop[task[t].current].pc = "off"

\* ... then deletes the same, and the file.
FinishCancel(t) ==
  /\ CASE task[t].finish = "wait" ->
            /\ Unwound(t)
            /\ task' = [task EXCEPT ![t].finish = "parts"]
            /\ UNCHANGED disk
       [] task[t].finish = "parts" ->
            PartsGone(t) /\ task' = [task EXCEPT ![t].finish = "sidecar"] /\ UNCHANGED <<sidecar, dest>>
       [] task[t].finish = "sidecar" ->
            sidecar' = {} /\ task' = [task EXCEPT ![t].finish = "dest"] /\ UNCHANGED <<part, dest>>
       [] task[t].finish = "dest" ->
            /\ dest' = {}
            /\ task' = [task EXCEPT ![t].finish = "end", ![t].done = Settles(t, "ok")]
            /\ UNCHANGED <<part, sidecar>>
       [] OTHER -> FALSE
  /\ UNCHANGED <<setup, loop, job, pool, mishaps>>

\* The parts are deleted, and the sidecar is not yet.
Sweeping(r) == loop[r].pc = "sidecar" \/ task[r].finish = "sidecar"

\* The process ends; what was in flight is lost.
Crash ==
  /\ Occurs("crash")
  /\ \E t \in Runs : ~Quiet(t)
  /\ task' = [t \in Runs |-> NoTask]
  /\ loop' = [r \in Runs |-> [NoLoop EXCEPT !.of = loop[r].of]]
  /\ job' = [r \in Runs |-> [s \in Segs |-> NoJob]]
  /\ permits' = setup.permits /\ waiters' = <<>>
  /\ Noted("cut", \E r \in Runs : Sweeping(r))
  /\ UNCHANGED <<setup, disk>>

-----------------------------------------------------------------------------
SegmentStep(r, s) ==
  \/ Granted(r, s) \/ Get(r, s) \/ GetFails(r, s)
  \/ Wrote(r, s) \/ WriteFails(r, s) \/ Commit(r, s) \/ Leave(r, s)

Arrives(r, s) == Chunk(r, s) \/ StreamEnds(r, s) \/ StreamFails(r, s)

LoopStep(r) ==
  \/ Probe(r) \/ ProbeFails(r) \/ PrepareFromSidecar(r) \/ PrepareFresh(r) \/ FreshWritten(r)
  \/ Prepared(r) \/ Join(r) \/ Flush(r) \/ OpenDest(r) \/ Concat(r) \/ Verify(r)
  \/ SweepParts(r) \/ SweepSidecar(r) \/ Complete(r) \/ GiveUp(r)

App == Enqueue \/ \E t \in Runs : Resume(t) \/ Pause(t) \/ Cancel(t)

Next ==
  \/ App
  \/ \E r \in Runs : LoopStep(r) \/ FinishCancel(r) \/ \E s \in Segs : SegmentStep(r, s) \/ Arrives(r, s)
  \/ Crash

\* A request is under way: the probe of a run, or the GET of a segment.
Probing(r)   == loop[r].pc = "probe"
Requesting(r, s) == job[r][s].pc = "get"

\* The event loop and the disk go on.  The server owes nobody anything: it may
\* never answer a request, for which no code waits with a timeout (the
\* connectionTimeout of the client ends with the connection), nor send the next
\* chunk of a stream, its end or its failure.
Fairness ==
  \A r \in Runs :
    /\ WF_vars(~Probing(r) /\ LoopStep(r))
    /\ WF_vars(FinishCancel(r))
    /\ \A s \in 1 .. Max({u.connections : u \in Setups}) :
         WF_vars(s \in Segs /\ ~Requesting(r, s) /\ SegmentStep(r, s))

Spec == Init /\ [][Next]_vars /\ Fairness

-----------------------------------------------------------------------------
(* Properties.                                                             *)

\* Types.
TypeOK ==
  /\ setup \in Setups
  /\ DOMAIN part \subseteq Segs
  /\ \A s \in DOMAIN part : part[s] \in Seq(Zero .. setup.total - 1)
  /\ Cardinality(sidecar) <= 1 /\ Cardinality(dest) <= 1
  /\ \A t \in Runs : /\ task[t].state \in {"none", "running", "paused", "completed", "failed", "canceled"}
                     /\ task[t].done \in {"open", "ok", "error"}
                     /\ task[t].current \in Runs \cup {NoRun}
  /\ \A r \in Runs, s \in Segs : job[r][s].hand \in {"none", "write", "commit"}
  /\ permits \in 0 .. setup.permits
  /\ mishaps \subseteq Faults \cup {"overlap", "revived", "late", "cut"}

\* hf_download_manager.dart:70-73: a permit is with one connection or in the pool, never
\* twice and never lost, whatever is paused, cancelled, resumed or fails, and
\* nobody waits while the pool has one (:96-112).
Jobs(pcs) == {x \in Runs \X Segs : job[x[1]][x[2]].pc \in pcs}
Holders   == Jobs({"granted", "get", "stream", "leave"})
PermitsConserved ==
  /\ permits + Cardinality(Holders) = setup.permits
  /\ waiters # <<>> => permits = 0
  /\ ToSet(waiters) = Jobs({"queued"})

\* What undoes the guarantees below, each by itself: two runs over the same
\* files at once, a failed task started again (its parts are gone), a write or
\* commit that lands after its run, a process that ends between deleting the parts and
\* the sidecar, and a server that answers a range with everything.
Undone == mishaps \cap {"overlap", "revived", "late", "cut", "whole"} # {}

\* download_task.dart:15-17, "the resume cursor": what the sidecar counts as
\* written is on disk, and right, whenever the process may end, so that the
\* next one resumes from it; but for the moment between two deletions.
SidecarBacked ==
  setup.ranged /\ ~Undone /\ (\A r \in Runs : ~Sweeping(r)) =>
    \A written \in Readable : \A s \in Segs :
      /\ written[s] <= Len(Bytes(s))
      /\ \A k \in 1 .. written[s] : Bytes(s)[k] = Piece(s)[k]

\* A task becomes completed only when the file is, byte for byte, the resource,
\* through pauses, restarts and failures (download_task.dart:212-215); with a
\* digest whatever happened but two tasks at once.
CompletedIsRight ==
  [][\A t \in Runs : task[t].state # "completed" /\ task'[t].state = "completed" =>
       \/ dest' = {Resource}
       \/ IF setup.sha THEN "overlap" \in mishaps
          ELSE Undone \/ (~setup.ranged /\ "short" \in mishaps)]_vars

\* What can make a task fail: a fault of the network, the server or the disk; a
\* process that ended between deleting the parts and the sidecar; two runs at
\* once; and a chunk in hand when its run was stopped, whose write lands after
\* the next run has measured the part, or whose commit lands after the run's end
\* (download_task.dart:424-427).  The last is the app's doing and the code's: a
\* pause, awaited, and a resume are enough.
Causes == {"error", "short", "whole", "disk", "cut", "overlap", "late"}

\* A task fails (a size or digest that does not match, a missing part) only from
\* one of these causes.  But for writes that land late, pausing, awaiting and
\* resuming, cancelling, starting anew and ending the process between two
\* deletions of different runs lead to no failure; and to start a failed task
\* again is not the first cause of any.
FailureHasCause ==
  (\E t \in Runs : task[t].state = "failed") => mishaps \cap Causes # {}

\* cancel(): "leaving no trace" (download_task.dart:171-172).  When done settles
\* no part, sidecar or file is left.  Excepted are two runs at once, a commit
\* that lands later, and a probe that fails: the task does not know its parts.
CancelLeavesNothing ==
  [][\A t \in Runs : task[t].finish = "dest" /\ task'[t].finish = "end" =>
       \/ part' = <<>> /\ sidecar' = {} /\ dest' = {}
       \/ task[t].written = <<>> \/ mishaps \cap {"overlap", "late"} # {}]_vars

\* A request of the task is under way.
Awaits(t) == \E r \in Runs : Of(r) = t /\ (Probing(r) \/ \E s \in Segs : Requesting(r, s))

\* pause() stops its streams and settled resolves, cancel() ends in done
\* (download_task.dart:149-156, 171-182), though no stream ever brings another
\* byte.  The task settles unless it asks the server for ever: a stop ends no
\* request that is not answered (:257, 281, 409), though pause() says "promptly".
\* Also excepted are a single stream, which does not look at _stopRequested
\* before its first chunk, and two runs at once, of which one may wait for a
\* permit the other's silent stream holds.
StopsSettle ==
  \A t \in Runs :
    \/ <>[]Awaits(t)
    \/ task[t].stop /\ setup.ranged ~> Quiet(t) \/ ~task[t].stop \/ "overlap" \in mishaps
=============================================================================
