----------------------------- MODULE WearTransfer -----------------------------
(***************************************************************************)
(* WearModelTransfer (Kotlin): a phone copies one model file to a watch    *)
(* over channels, one for every attempt, and an attempt goes on where the  *)
(* watch's partial file ends.  Each device has its main thread, which      *)
(* raises flags, closes the active channel and queues tasks, and one io    *)
(* thread, which runs them.  The channels are external: bytes arrive in    *)
(* order, a close by either side (or a lost link) may swallow the tail of  *)
(* what is in flight, and whatever is written afterwards is dropped or     *)
(* fails.  The source file is external too: it may be rewritten at any     *)
(* time, so a read takes bytes of any of its versions.  The watch only     *)
(* receives.                                                               *)
(***************************************************************************)
EXTENDS Integers, Sequences

CONSTANTS
  Byte,
  Versions,  \* contents the source file takes over time
  Content    \* the bytes of each

VARIABLES
  jobs,      \* the SendState objects made so far
  send,      \* the one that `send` refers to, 0 for null
  todo,      \* tasks queued on the phone's io thread; job 0 is a startSend
  pc,        \* where the phone's io thread is
  job,       \* the job it runs
  paused, canceled,
  chans,     \* the channels the phone opened, the last one being its own
  dest,      \* the watch's file; <<>> also when it does not exist
  listening, \* the watch's receiverCallback is registered
  next,      \* the first channel that its io thread has not come to
  wpc,       \* where the watch's io thread is
  wcanceled,
  wstate     \* the last state the watch reported

phone == <<jobs, send, todo, pc, job, paused, canceled>>
watch == <<dest, listening, next, wpc, wcanceled, wstate>>
vars == <<phone, chans, watch>>

NoAck == -1
Last == Len(chans)
Serving == next - 1

Init ==
  /\ jobs = <<>> /\ send = 0 /\ todo = <<>>
  /\ pc = "idle" /\ job = 0
  /\ paused = FALSE /\ canceled = FALSE
  /\ chans = <<>>
  /\ dest = <<>>
  /\ listening = FALSE /\ next = 1
  /\ wpc = "idle" /\ wcanceled = FALSE /\ wstate = "none"

\* A channel goes down, and only some of what was in flight still arrives.
Close(k) ==
  \E m \in 0..Len(chans[k].bytes) :
    chans' = [chans EXCEPT ![k].open = FALSE, ![k].bytes = SubSeq(@, 1, m)]

-----------------------------------------------------------------------------
(* The phone's main thread.                                                *)

SendModel(resume) ==
  /\ paused' = FALSE /\ canceled' = FALSE
  /\ todo' = Append(todo, [job |-> 0, resume |-> resume])
  /\ UNCHANGED <<jobs, send, pc, job, chans, watch>>

ResumeSend ==
  /\ send # 0
  /\ paused' = FALSE /\ canceled' = FALSE
  /\ todo' = Append(todo, [job |-> send, resume |-> jobs[send].resume])
  /\ UNCHANGED <<jobs, send, pc, job, chans, watch>>

Pause ==
  /\ paused' = TRUE
  /\ UNCHANGED <<jobs, send, todo, pc, job, canceled, chans, watch>>

\* The channel that is open, if one is.
CloseActive(active, k) == IF active THEN Close(k) ELSE UNCHANGED chans

CancelSend ==
  /\ canceled' = TRUE
  /\ CloseActive(pc \in {"ack", "stream"}, Last)
  /\ UNCHANGED <<jobs, send, todo, pc, job, paused, watch>>

-----------------------------------------------------------------------------
(* The phone's io thread.                                                  *)

\* The source is missing, or there is no node.
StartFails ==
  /\ pc = "idle" /\ todo # <<>> /\ Head(todo).job = 0
  /\ todo' = Tail(todo)
  /\ UNCHANGED <<jobs, send, pc, job, paused, canceled, chans, watch>>

\* The length and the digest are read one after the other.
Start(v, w) ==
  /\ pc = "idle" /\ todo # <<>> /\ Head(todo).job = 0
  /\ todo' = Tail(todo)
  /\ jobs' = Append(jobs, [total |-> Len(Content[v]), sha256 |-> w,
                           resume |-> Head(todo).resume, offset |-> 0])
  /\ send' = Len(jobs) + 1 /\ job' = Len(jobs) + 1
  /\ pc' = "open"
  /\ UNCHANGED <<paused, canceled, chans, watch>>

Rerun ==
  /\ pc = "idle" /\ todo # <<>> /\ Head(todo).job # 0
  /\ todo' = Tail(todo)
  /\ job' = Head(todo).job
  /\ pc' = "open"
  /\ UNCHANGED <<jobs, send, paused, canceled, chans, watch>>

\* The header goes out with the job's parameters.
Open ==
  /\ pc = "open"
  /\ chans' = Append(chans, [job |-> job, heard |-> listening, open |-> TRUE,
                             ack |-> NoAck, bytes |-> <<>>])
  /\ pc' = "ack"
  /\ UNCHANGED <<jobs, send, todo, job, paused, canceled, watch>>

AckReceived ==
  /\ pc = "ack"
  /\ chans[Last].ack # NoAck
  /\ jobs' = [jobs EXCEPT ![job].offset =
                IF chans[Last].ack <= jobs[job].total THEN chans[Last].ack
                                                      ELSE jobs[job].total]
  /\ pc' = "stream"
  /\ UNCHANGED <<send, todo, job, paused, canceled, chans, watch>>

\* The stream ends before the ack: the retained offset is kept.
AckMissing ==
  /\ pc = "ack"
  /\ ~chans[Last].open
  /\ pc' = "stream"
  /\ UNCHANGED <<jobs, send, todo, job, paused, canceled, chans, watch>>

Unsent == jobs[job].offset < jobs[job].total

\* One buffer: n bytes of what the source holds now.
Write(v, n) ==
  /\ pc = "stream" /\ Unsent
  /\ ~canceled /\ ~paused
  /\ jobs[job].offset + n <= jobs[job].total
  /\ jobs[job].offset + n <= Len(Content[v])
  /\ jobs' = [jobs EXCEPT ![job].offset = @ + n]
  /\ chans' = IF chans[Last].open
                THEN [chans EXCEPT ![Last].bytes =
                        @ \o SubSeq(Content[v], jobs[job].offset + 1, jobs[job].offset + n)]
                ELSE chans
  /\ UNCHANGED <<send, todo, pc, job, paused, canceled, watch>>

\* All is sent, a flag is up, or the source got shorter than it was.
StreamEnds ==
  /\ pc = "stream"
  /\ \/ ~Unsent
     \/ canceled
     \/ paused
     \/ \E v \in Versions : Len(Content[v]) <= jobs[job].offset
  /\ send' = IF ~Unsent \/ canceled THEN 0 ELSE send
  /\ pc' = "idle"
  /\ Close(Last)
  /\ UNCHANGED <<jobs, todo, job, paused, canceled, watch>>

\* Any call throws: the channel does not open, or is gone, or the file is.
PhoneFails ==
  /\ pc # "idle"
  /\ send' = IF canceled THEN 0 ELSE send
  /\ pc' = "idle"
  /\ CloseActive(pc # "open", Last)
  /\ UNCHANGED <<jobs, todo, job, paused, canceled, watch>>

\* The process dies, or the plugin is detached (dispose).
PhoneCrash ==
  /\ send' = 0 /\ todo' = <<>> /\ pc' = "idle"
  /\ paused' = FALSE /\ canceled' = FALSE
  /\ CloseActive(pc \in {"ack", "stream"}, Last)
  /\ UNCHANGED <<jobs, job, watch>>

LinkLost ==
  /\ chans # <<>> /\ chans[Last].open
  /\ Close(Last)
  /\ UNCHANGED <<phone, watch>>

-----------------------------------------------------------------------------
(* The watch.                                                              *)

Listen ==
  /\ wpc = "idle"
  /\ listening' = TRUE
  /\ UNCHANGED <<phone, chans, dest, next, wpc, wcanceled, wstate>>

\* Channels are received one at a time, in the order they opened.
Take(k) ==
  /\ wpc = "idle" /\ listening
  /\ k >= next /\ chans[k].heard
  /\ \A i \in next..(k - 1) : ~chans[i].heard
  /\ next' = k + 1
  /\ wpc' = "head" /\ wstate' = "connecting"
  /\ UNCHANGED <<phone, chans, dest, listening, wcanceled>>

Sent == jobs[chans[Serving].job]

\* The header is read and answered; a partial that may not be resumed, or that
\* is too long for this file, goes first.
Greet ==
  /\ wpc = "head"
  /\ dest' = IF ~Sent.resume \/ Len(dest) > Sent.total THEN <<>> ELSE dest
  /\ chans' = [chans EXCEPT ![Serving].ack = Len(dest')]
  /\ wpc' = "loop"
  /\ UNCHANGED <<phone, listening, next, wcanceled, wstate>>

Look ==
  /\ wpc = "loop" /\ Len(dest) < Sent.total
  /\ ~wcanceled
  /\ wpc' = "read"
  /\ UNCHANGED <<phone, chans, dest, listening, next, wcanceled, wstate>>

Ends(state) ==
  /\ wpc' = "idle" /\ wstate' = state
  /\ Close(Serving)
  /\ UNCHANGED <<phone, listening, next, wcanceled>>

Discard ==
  /\ wpc = "loop" /\ Len(dest) < Sent.total
  /\ wcanceled
  /\ dest' = <<>>
  /\ Ends("canceled")

Read(n) ==
  /\ wpc = "read"
  /\ LET bytes == chans[Serving].bytes
     IN  /\ dest' = dest \o SubSeq(bytes, 1, n)
         /\ chans' = [chans EXCEPT ![Serving].bytes = SubSeq(bytes, n + 1, Len(bytes))]
  /\ wpc' = "loop"
  /\ UNCHANGED <<phone, listening, next, wcanceled, wstate>>

Eof ==
  /\ wpc = "read"
  /\ chans[Serving].bytes = <<>> /\ ~chans[Serving].open
  /\ dest' = dest
  /\ Ends("paused")

Verify ==
  /\ wpc = "loop" /\ Len(dest) >= Sent.total
  /\ IF dest = Content[Sent.sha256]
       THEN dest' = dest /\ Ends("completed")
       ELSE dest' = <<>> /\ Ends("rejected")

\* Any call throws, for one because the channel is gone.
WatchFails ==
  /\ wpc # "idle"
  /\ dest' = dest
  /\ Ends("failed")

\* Nothing on a watch that only receives takes the flag down again.
WatchCancel ==
  /\ wcanceled' = TRUE
  /\ CloseActive(wpc # "idle", Serving)
  /\ UNCHANGED <<phone, dest, listening, next, wpc, wstate>>

\* The same here; the Data Layer closes the channels of a process that is gone.
WatchCrash ==
  /\ listening' = FALSE /\ next' = Last + 1
  /\ wpc' = "idle" /\ wcanceled' = FALSE /\ wstate' = "none"
  /\ CloseActive(chans # <<>>, Last)
  /\ UNCHANGED <<phone, dest>>

-----------------------------------------------------------------------------

PhoneMain == (\E resume \in BOOLEAN : SendModel(resume)) \/ ResumeSend \/ Pause \/ CancelSend
PhoneIo ==
  \/ StartFails
  \/ \E v, w \in Versions : Start(v, w)
  \/ Rerun \/ Open \/ AckReceived \/ AckMissing
  \/ \E v \in Versions : \E n \in Nat \ {0} : Write(v, n)
  \/ StreamEnds \/ PhoneFails \/ PhoneCrash
Watch ==
  \/ Listen
  \/ \E k \in DOMAIN chans : Take(k)
  \/ Greet \/ Look \/ Discard
  \/ wpc = "read" /\ \E n \in 1..Len(chans[Serving].bytes) : Read(n)
  \/ Eof \/ Verify \/ WatchFails \/ WatchCancel \/ WatchCrash

Next == PhoneMain \/ PhoneIo \/ LinkLost \/ Watch

Spec == Init /\ [][Next]_vars

-----------------------------------------------------------------------------
(* Properties.                                                             *)

Job == [total : Nat, sha256 : Versions, resume : BOOLEAN, offset : Nat]
Task == [job : Nat, resume : BOOLEAN]
Channel == [job : Nat, heard : BOOLEAN, open : BOOLEAN,
            ack : Nat \cup {NoAck}, bytes : Seq(Byte)]

\* Types, and the references between jobs, tasks and channels.
TypeOK ==
  /\ jobs \in Seq(Job)
  /\ send \in 0..Len(jobs) /\ job \in 0..Len(jobs)
  /\ todo \in Seq(Task) /\ \A i \in DOMAIN todo : todo[i].job <= Len(jobs)
  /\ pc \in {"idle", "open", "ack", "stream"}
  /\ paused \in BOOLEAN /\ canceled \in BOOLEAN
  /\ chans \in Seq(Channel) /\ \A k \in DOMAIN chans : chans[k].job \in DOMAIN jobs
  /\ dest \in Seq(Byte)
  /\ listening \in BOOLEAN /\ wcanceled \in BOOLEAN
  /\ next \in 1..(Last + 1)
  /\ wpc \in {"idle", "head", "loop", "read"}
  /\ wstate \in {"none", "connecting", "canceled", "paused", "completed",
                 "rejected", "failed"}

\* The bytes of s stand where some version of the source has them, s coming
\* after the first `from` bytes.
Placed(s, from) ==
  \A i \in DOMAIN s : \E v \in Versions :
    from + i <= Len(Content[v]) /\ s[i] = Content[v][from + i]

\* However attempts are paused, cancelled, lost, repeated or begun while the
\* watch still drains the one before, no byte is ever written twice, skipped or
\* put in another's place: byte i of the watch's file is byte i of the source
\* (WearModelTransfer.kt:41-47, 249-257, 380).
BytesInPlace == Placed(dest, 0)

\* While the channel is up, what the phone has sent is what the watch has
\* written and what is on its way (WearModelTransfer.kt:45-47).
PositionsAgree ==
  pc = "stream" /\ chans[Last].open =>
    jobs[job].offset = Len(dest) + Len(chans[Last].bytes)

\* The watch reports a model complete only if it is, byte for byte, the one
\* whose digest the phone announced, and it stays so until the next transfer
\* (WearModelTransfer.kt:44, 413-421).
CompletedIsExact ==
  wstate = "completed" => dest = Content[Sent.sha256]

\* The digest never rejects a file that did not change under the transfer, so
\* no sequence of interruptions costs the watch what it has received
\* (WearModelTransfer.kt:214-217, 413-419).
UnchangedIsAccepted ==
  (\A v, w \in Versions : Content[v] = Content[w]) => wstate # "rejected"
=============================================================================
