--------------------------- MODULE Download_proofs -----------------------------
(***************************************************************************)
(* Proofs about the download of a model: its types and permits, what a     *)
(* cancellation leaves, the resume cursor, what completes and what fails,  *)
(* for every setup.                                                        *)
(***************************************************************************)
EXTENDS Download, FiniteSetTheorems, SequenceTheorems, WellFoundedInduction, TLAPS

-----------------------------------------------------------------------------
(* Segments.                                                               *)

\* The segments are numbered from 1, and each is a range of the resource.
LEMMA SegsAre ==
  ASSUME setup \in Setups
  PROVE  /\ setup.total \in Nat \ {0} /\ setup.permits \in Nat \ {0}
         /\ \E k \in Nat \ {0} : Segs = 1 .. k
         /\ \A s \in Segs : /\ Split[s].start \in Nat /\ Split[s].end \in 0 .. setup.total - 1
                            /\ Split[s].start <= Split[s].end
         /\ ~setup.ranged => Segs = {1} /\ Split[1].start = 0 /\ Split[1].end = setup.total - 1
<1>1. PICK a \in Nat \ {0}, b \in Nat \ {0} : a = setup.total /\ b = setup.connections
  BY DownloadAssumption
<1>2. PICK q \in Nat : q = a \div b /\ b * q <= a
  OBVIOUS
<1>3. setup.total \in Nat \ {0} /\ setup.permits \in Nat \ {0} /\ setup.ranged \in BOOLEAN
  BY DownloadAssumption
<1>4. CASE q = 0 \/ ~setup.ranged
  <2>1. Split = <<[start |-> 0, end |-> setup.total - 1]>>
    BY <1>1, <1>2, <1>4 DEF Split
  <2>2. Segs = 1 .. 1 /\ Segs = {1}
    BY <2>1 DEF Segs
  <2> QED BY <1>3, <2>1, <2>2
<1>5. CASE q # 0 /\ setup.ranged
  <2>1. Split = [i \in 1 .. b |-> [start |-> (i - 1) * q,
                                   end |-> IF i = b THEN a - 1 ELSE i * q - 1]]
    BY <1>1, <1>2, <1>5 DEF Split
  <2>2. Segs = 1 .. b
    BY <2>1 DEF Segs
  <2>3. ASSUME NEW s \in Segs
        PROVE  /\ Split[s].start \in Nat /\ Split[s].end \in 0 .. setup.total - 1
               /\ Split[s].start <= Split[s].end
    <3>1. PICK c \in Nat : s = c + 1 /\ c < b
      BY <2>2, <2>3
    <3>2. c * q \in Nat /\ s * q = c * q + q /\ s * q \in Nat
      BY <3>1
    <3>3. c * q + q <= b * q
      BY <3>1
    <3>4. Split[s].start = c * q /\ Split[s].end = IF s = b THEN a - 1 ELSE s * q - 1
      BY <2>1, <2>2, <3>1
    <3>5. s * q <= a /\ c * q <= a - 1
      BY <1>2, <1>5, <3>2, <3>3
    <3> QED BY <1>1, <1>5, <3>2, <3>4, <3>5
  <2> QED BY <1>1, <1>3, <1>5, <2>2, <2>3
<1> QED BY <1>2, <1>4, <1>5

\* Where each of some numbers stands among them.
LEMMA PlaceIs ==
  ASSUME NEW k \in Nat, NEW T \in SUBSET (1 .. k)
  PROVE  /\ IsFiniteSet(T) /\ Cardinality(T) \in Nat
         /\ \A s \in T : Place(s, T) \in 1 .. Cardinality(T)
         /\ \A s, q \in T : Place(s, T) = Place(q, T) => s = q
         /\ \A i \in 1 .. Cardinality(T) : \E s \in T : Place(s, T) = i
<1>0. \A x \in T : x \in Nat
  OBVIOUS
<1>1. IsFiniteSet(T) /\ Cardinality(T) \in Nat
  <2>1. IsFiniteSet(1 .. k)
    BY FS_Interval
  <2>2. IsFiniteSet(T)
    BY <2>1, FS_Subset
  <2> QED BY <2>2, FS_CardinalityType
<1> DEFINE upTo(s) == {q \in T : q <= s}
<1>2. ASSUME NEW s \in T PROVE /\ IsFiniteSet(upTo(s)) /\ Cardinality(upTo(s)) \in Nat
                                /\ Cardinality(upTo(s)) <= Cardinality(T)
                                /\ Cardinality(upTo(s)) # 0
  <2>1. IsFiniteSet(upTo(s)) /\ Cardinality(upTo(s)) <= Cardinality(T)
    BY <1>1, FS_Subset
  <2>2. s \in upTo(s)
    OBVIOUS
  <2> QED BY <2>1, <2>2, FS_CardinalityType, FS_EmptySet
<1>3. ASSUME NEW s \in T PROVE Place(s, T) \in 1 .. Cardinality(T)
  BY <1>1, <1>2 DEF Place
<1>4. ASSUME NEW s \in T, NEW q \in T, s < q PROVE Place(s, T) # Place(q, T)
  <2>1. upTo(s) \in SUBSET upTo(q) /\ q \in upTo(q) /\ q \notin upTo(s)
    <3>1. \A x \in Nat : x <= s => x <= q
      BY <1>0, <1>4
    <3>2. q <= q /\ ~(q <= s)
      BY <1>0, <1>4
    <3> QED BY <1>0, <3>1, <3>2, Zenon
  <2>2. Cardinality(upTo(s)) # Cardinality(upTo(q))
    BY <1>2, <2>1, FS_Subset
  <2> QED BY <2>2 DEF Place
<1>5. ASSUME NEW s \in T, NEW q \in T, Place(s, T) = Place(q, T) PROVE s = q
  <2>1. s \in Int /\ q \in Int
    OBVIOUS
  <2> QED BY <1>4, <1>5, <2>1
<1>6. ASSUME NEW i \in 1 .. Cardinality(T) PROVE \E s \in T : Place(s, T) = i
  <2> DEFINE f == [s \in T |-> Place(s, T)]
  <2>1. f \in Injection(T, 1 .. Cardinality(T))
    BY <1>3, <1>5 DEF Injection, IsInjective
  <2>2. IsFiniteSet(1 .. Cardinality(T)) /\ Cardinality(1 .. Cardinality(T)) = Cardinality(T)
    BY <1>1, FS_Interval
  <2>3. f \in Surjection(T, 1 .. Cardinality(T))
    BY <2>1, <2>2, FS_Injection
  <2> QED BY <2>3 DEF Surjection
<1> QED BY <1>1, <1>3, <1>5, <1>6

-----------------------------------------------------------------------------
(* The inductive invariant.                                                *)

Snaps  == [Segs -> Nat] \cup {<<>>}
Owners == [Segs -> Runs \cup {NoRun}] \cup {<<>>}

TaskType ==
  [state : {"none", "running", "paused", "completed", "failed", "canceled"},
   stop : BOOLEAN, cancel : BOOLEAN, done : {"open", "ok", "error"},
   written : Snaps, sub : Owners, completer : Owners, current : Runs \cup {NoRun},
   finish : {"no", "wait", "parts", "sidecar", "dest", "end"}]

LoopType ==
  [of : Runs \cup {NoRun},
   pc : {"off", "probe", "prepare", "fresh", "work", "flush", "assemble", "concat", "verify",
         "parts", "sidecar", "end"},
   keep : BOOLEAN, snap : Snaps]

JobType ==
  [pc : {"none", "queued", "granted", "get", "stream", "leave", "done", "threw"},
   next : Nat, last : Nat, live : BOOLEAN, over : BOOLEAN, err : BOOLEAN,
   hand : {"none", "write", "commit"}, snap : Snaps]

PartsTyped   == /\ DOMAIN part \subseteq Segs
                /\ \A s \in DOMAIN part : part[s] \in Seq(Zero .. setup.total - 1)
SidecarTyped == sidecar = {} \/ \E x \in Snaps : sidecar = {x}
DestTyped    == dest = {} \/ \E x : dest = {x}

Mishaps == Faults \cup {"overlap", "revived", "late", "cut"}

Types ==
  /\ setup \in Setups
  /\ task \in [Runs -> TaskType]
  /\ loop \in [Runs -> LoopType]
  /\ job \in [Runs -> [Segs -> JobType]]
  /\ PartsTyped /\ SidecarTyped /\ DestTyped
  /\ mishaps \subseteq Mishaps

\* What a handler writes is a byte of the resource, and nothing before its
\* request is answered.
InRange(j) ==
  /\ j.hand = "write" \/ j.pc = "get" => j.next < setup.total
  /\ j.pc \in {"get", "stream"} => j.last < setup.total
  /\ j.pc \in {"none", "queued", "granted", "get"} => j.hand = "none"

JobsInRange == \A r \in Runs, s \in Segs : InRange(job[r][s])

\* A run is one of a task, and knows how far it is before it asks for parts.
Linked ==
  /\ \A r \in Runs : loop[r].pc # "off" => Of(r) \in Runs /\ task[Of(r)].state # "none"
  /\ \A r \in Runs : loop[r].pc \in {"fresh", "work"} => task[Of(r)].written # <<>>
  /\ \A r \in Runs, s \in Segs : job[r][s].pc # "none" =>
       /\ loop[r].pc \notin {"probe", "prepare", "fresh"}
       /\ Of(r) \in Runs /\ task[Of(r)].state # "none" /\ task[Of(r)].written # <<>>
  /\ \A t \in Runs : task[t].state # "none" =>
       task[t].sub # <<>> /\ task[t].completer # <<>> /\ Of(t) # NoRun
  /\ \A r \in Runs : Of(r) \in Runs => Of(Of(r)) # NoRun

Distinct(q) == \A i, j \in DOMAIN q : q[i] = q[j] => i = j

Pool ==
  /\ permits \in Nat
  /\ waiters \in Seq(Runs \X Segs) /\ Distinct(waiters)
  /\ PermitsConserved

Good == Types /\ JobsInRange /\ Linked /\ Pool

LEMMA SetupKept ==
  ASSUME setup' = setup
  PROVE  /\ Split' = Split /\ Segs' = Segs /\ Snaps' = Snaps /\ Owners' = Owners
         /\ TaskType' = TaskType /\ LoopType' = LoopType /\ JobType' = JobType
<1>1. Split' = Split /\ Segs' = Segs
  BY DEF Split, Segs
<1>2. Snaps' = Snaps /\ Owners' = Owners
  BY <1>1 DEF Snaps, Owners
<1> QED BY <1>1, <1>2 DEF TaskType, LoopType, JobType

LEMMA TypesNext ==
  ASSUME Types, setup' = setup, task' \in [Runs -> TaskType], loop' \in [Runs -> LoopType],
         job' \in [Runs -> [Segs -> JobType]], PartsTyped', SidecarTyped', DestTyped',
         mishaps' \subseteq Mishaps
  PROVE  Types'
  BY SetupKept DEF Types, Mishaps

\* A step that leaves the jobs alone leaves the permits alone.
LEMMA JobsKept ==
  ASSUME JobsInRange, setup' = setup, job' = job
  PROVE  JobsInRange'
  BY SetupKept DEF JobsInRange, InRange

LEMMA PoolKept ==
  ASSUME Pool, setup' = setup, UNCHANGED <<permits, waiters>>,
         \A r \in Runs, s \in Segs :
           \/ job'[r][s].pc = job[r][s].pc
           \/ /\ job[r][s].pc \in {"granted", "get", "stream", "leave"}
              /\ job'[r][s].pc \in {"granted", "get", "stream", "leave"}
           \/ /\ job[r][s].pc \in {"none", "done", "threw"}
              /\ job'[r][s].pc \in {"none", "done", "threw"}
  PROVE  Pool'
<1>1. Segs' = Segs
  BY SetupKept
<1>2. Holders' = Holders
  BY <1>1 DEF Holders, Jobs
<1>3. Jobs({"queued"})' = Jobs({"queued"})
  BY <1>1 DEF Jobs
<1> QED BY <1>1, <1>2, <1>3 DEF Pool, PermitsConserved, Distinct

-----------------------------------------------------------------------------
(* Steps of a run that leave its handlers alone.                           *)

\* They move one run on, and may tell its task.
LEMMA LoopMoves ==
  ASSUME Good, NEW r \in Runs, loop[r].pc # "off",
         setup' = setup, UNCHANGED <<job, permits, waiters>>,
         loop' \in [Runs -> LoopType], task' \in [Runs -> TaskType],
         PartsTyped', SidecarTyped', DestTyped', mishaps' \subseteq Mishaps,
         loop'[r].of = Of(r), \A q \in Runs : q # r => loop'[q] = loop[q],
         \A t \in Runs : /\ task'[t].state = "none" <=> task[t].state = "none"
                         /\ task'[t].sub = task[t].sub /\ task'[t].completer = task[t].completer
                         /\ task[t].written # <<>> => task'[t].written # <<>>,
         loop'[r].pc \in {"probe", "prepare", "fresh"} =>
           loop[r].pc \in {"probe", "prepare", "fresh"},
         loop'[r].pc \in {"fresh", "work"} => task'[Of(r)].written # <<>>
  PROVE  Good'
<1>1. Segs' = Segs
  BY SetupKept
<1>2. Types'
  BY TypesNext DEF Good, Types
<1>3. JobsInRange' /\ Pool'
  BY JobsKept, PoolKept DEF Good
<1>4. Linked'
  <2>1. \A q \in Runs : loop'[q].of = loop[q].of
    BY DEF Of
  <2>2. \A q \in Runs : loop'[q].pc # "off" => loop[q].pc # "off"
    OBVIOUS
  <2> QED BY <1>1, <2>1, <2>2 DEF Good, Linked, Of
<1> QED BY <1>2, <1>3, <1>4 DEF Good

\* What LoopMoves asks of loop and task.
LoopOn(r) ==
  /\ loop' \in [Runs -> LoopType]
  /\ loop'[r].of = Of(r) /\ \A q \in Runs : q # r => loop'[q] = loop[q]
  /\ loop'[r].pc \in {"probe", "prepare", "fresh"} =>
       loop[r].pc \in {"probe", "prepare", "fresh"}

TaskOn ==
  /\ task' \in [Runs -> TaskType]
  /\ \A t \in Runs : /\ task'[t].state = "none" <=> task[t].state = "none"
                     /\ task'[t].sub = task[t].sub /\ task'[t].completer = task[t].completer
                     /\ task[t].written # <<>> => task'[t].written # <<>>

Moves(r) ==
  /\ LoopOn(r) /\ TaskOn
  /\ loop'[r].pc \in {"fresh", "work"} => task'[Of(r)].written # <<>>

LEMMA TaskSame ==
  ASSUME Types, task' = task
  PROVE  TaskOn
  BY DEF Types, TaskOn

LEMMA TaskTold ==
  ASSUME Types, NEW t \in Runs, task[t].state # "none",
         NEW state \in {"completed", "failed"}, NEW done \in {"open", "ok", "error"},
         \/ task' = [task EXCEPT ![t].state = state]
         \/ task' = [task EXCEPT ![t].done = done]
         \/ task' = [task EXCEPT ![t].state = state, ![t].done = done]
  PROVE  TaskOn
<1> DEFINE e == task'[t]
<1>1. /\ task[t] \in TaskType /\ DOMAIN task' = Runs
      /\ \A q \in Runs : q # t => task'[q] = task[q] /\ task[q] \in TaskType
      /\ \/ e = [task[t] EXCEPT !.state = state]
         \/ e = [task[t] EXCEPT !.done = done]
         \/ e = [task[t] EXCEPT !.state = state, !.done = done]
  BY DEF Types
<1> HIDE DEF e
<1>2. /\ e \in TaskType /\ e.state # "none" /\ e.sub = task[t].sub
      /\ e.completer = task[t].completer /\ e.written = task[t].written
  <2>1. CASE e = [task[t] EXCEPT !.state = state]
    <3>1. e \in TaskType
      BY <1>1, <2>1 DEF TaskType
    <3> QED BY <1>1, <2>1, <3>1 DEF TaskType
  <2>2. CASE e = [task[t] EXCEPT !.done = done]
    <3>1. e \in TaskType
      BY <1>1, <2>2 DEF TaskType
    <3> QED BY <1>1, <2>2, <3>1 DEF TaskType
  <2>3. CASE e = [task[t] EXCEPT !.state = state, !.done = done]
    <3>0. PICK d : d = [task[t] EXCEPT !.state = state]
      OBVIOUS
    <3>a. /\ d \in TaskType /\ d.state = state /\ d.sub = task[t].sub
          /\ d.completer = task[t].completer /\ d.written = task[t].written
      BY <1>1, <3>0 DEF TaskType
    <3>b. e = [d EXCEPT !.done = done]
      BY <2>3, <3>0
    <3>1. e \in TaskType
      BY <3>a, <3>b DEF TaskType
    <3>2. /\ e.state = state /\ e.sub = task[t].sub
          /\ e.completer = task[t].completer /\ e.written = task[t].written
      BY <3>a, <3>b DEF TaskType
    <3> QED BY <3>1, <3>2
  <2> QED BY <1>1, <2>1, <2>2, <2>3
<1>3. task' = [q \in Runs |-> task'[q]]
  BY DEF Types
<1>4. \A q \in Runs : task'[q] \in TaskType
  BY <1>1, <1>2 DEF e
<1> QED BY <1>1, <1>2, <1>3, <1>4 DEF TaskOn, e

\* A run becomes l.
LEMMA LoopBecomes ==
  ASSUME Types, NEW r \in Runs, NEW l \in LoopType, l.of = Of(r),
         l.pc \notin {"probe", "prepare", "fresh"}, loop' = [loop EXCEPT ![r] = l]
  PROVE  LoopOn(r) /\ loop'[r].pc = l.pc
<1>1. /\ loop' \in [Runs -> LoopType] /\ loop'[r] = l
      /\ \A q \in Runs : q # r => loop'[q] = loop[q]
  BY DEF Types
<1> QED BY <1>1 DEF LoopOn

LEMMA GoesIs ==
  ASSUME Types, NEW r \in Runs,
         NEW pc \in {"off", "prepare", "flush", "assemble", "concat", "verify", "parts",
                     "sidecar", "end"},
         pc = "prepare" => loop[r].pc = "probe",
         Goes(r, pc), task' = task
  PROVE  Moves(r)
<1>1. LoopOn(r) /\ loop'[r].pc = pc
  BY DEF Types, Goes, LoopOn, LoopType, Of
<1> QED BY <1>1, TaskSame DEF Moves

LEMMA ThrowsIs ==
  ASSUME Types, NEW r \in Runs, Throws(r), Of(r) \in Runs, task[Of(r)].state # "none"
  PROVE  Moves(r)
<1>1. CASE task[Of(r)].cancel
  BY <1>1, GoesIs DEF Throws
<1>2. CASE ~task[Of(r)].cancel
  <2>1. /\ loop' = [loop EXCEPT ![r].pc = "parts", ![r].keep = FALSE]
        /\ task' = [task EXCEPT ![Of(r)].state = "failed"]
    BY <1>2 DEF Throws
  <2>2. LoopOn(r) /\ loop'[r].pc = "parts"
    <3>1. PICK l : l = [loop[r] EXCEPT !.pc = "parts", !.keep = FALSE]
      OBVIOUS
    <3>2. l \in LoopType /\ l.pc = "parts" /\ l.of = Of(r)
      BY <3>1 DEF Types, LoopType, Of
    <3>3. loop' = [loop EXCEPT ![r] = l]
      BY <2>1, <3>1 DEF Types
    <3> QED BY <3>2, <3>3, LoopBecomes
  <2>3. TaskOn
    BY <2>1, TaskTold
  <2> QED BY <2>2, <2>3 DEF Moves
<1> QED BY <1>1, <1>2

\* The disk is as typed as it was.
DiskTyped == PartsTyped /\ SidecarTyped /\ DestTyped

LEMMA DiskKept ==
  ASSUME Types, setup' = setup
  PROVE  /\ part' = part \/ part' = <<>> => PartsTyped'
         /\ sidecar' = sidecar \/ sidecar' = {} => SidecarTyped'
         /\ dest' = dest \/ dest' = {} \/ (\E x : dest' = {x}) => DestTyped'
<1>1. Segs' = Segs /\ Snaps' = Snaps
  BY SetupKept
<1>2. part' = part \/ part' = <<>> => PartsTyped'
  BY <1>1 DEF Types, PartsTyped
<1>3. sidecar' = sidecar \/ sidecar' = {} => SidecarTyped'
  BY <1>1 DEF Types, SidecarTyped
<1> QED BY <1>2, <1>3 DEF Types, DestTyped

\* A sidecar that lands is one of the snapshots, or garbled.
LEMMA LandsIs ==
  ASSUME Types, setup' = setup, NEW snap \in Snaps, NEW others, Lands(snap, others)
  PROVE  SidecarTyped'
<1>1. Snaps' = Snaps /\ <<>> \in Snaps
  BY SetupKept DEF Snaps
<1>2. sidecar' = {snap} \/ sidecar' = Corrupt \/ sidecar' = sidecar
  BY DEF Lands
<1> QED BY <1>1, <1>2 DEF Types, SidecarTyped, Corrupt

\* The steps of LoopStep that ask for no permit.
LEMMA LoopGood ==
  ASSUME Good, NEW r \in Runs,
         \/ Probe(r) \/ ProbeFails(r) \/ Join(r) \/ Flush(r) \/ OpenDest(r) \/ Concat(r)
         \/ Verify(r) \/ SweepParts(r) \/ SweepSidecar(r) \/ Complete(r) \/ GiveUp(r)
  PROVE  Good'
<1>0. /\ loop[r].pc # "off" /\ setup' = setup /\ UNCHANGED <<job, permits, waiters>>
      /\ Types /\ Of(r) \in Runs /\ task[Of(r)].state # "none"
  BY DEF Probe, ProbeFails, Join, Flush, OpenDest, Concat, Verify, SweepParts, SweepSidecar,
         Complete, GiveUp, pool, Good, Linked
<1>1. Moves(r)
  <2>1. CASE Probe(r)
    BY <1>0, <2>1, GoesIs DEF Probe
  <2>2. CASE ProbeFails(r)
    BY <1>0, <2>2, ThrowsIs DEF ProbeFails
  <2>3. CASE Join(r)
    <3>1. CASE \E s \in Segs : job[r][s].pc = "threw"
      BY <1>0, <2>3, <3>1, ThrowsIs DEF Join
    <3>2. CASE Stopped(r) /\ ~\E s \in Segs : job[r][s].pc = "threw"
      <4>1. /\ loop' = [loop EXCEPT ![r].pc = "flush", ![r].snap = task[Of(r)].written]
            /\ task' = task
        BY <2>3, <3>2 DEF Join
      <4>2. LoopOn(r) /\ loop'[r].pc = "flush"
        <5>1. PICK l : l = [loop[r] EXCEPT !.pc = "flush", !.snap = task[Of(r)].written]
          OBVIOUS
        <5>2. task[Of(r)].written \in Snaps
          BY <1>0 DEF Types, TaskType
        <5>3. l \in LoopType /\ l.pc = "flush" /\ l.of = Of(r)
          BY <1>0, <5>1, <5>2 DEF Types, LoopType, Of
        <5>4. loop' = [loop EXCEPT ![r] = l]
          BY <1>0, <4>1, <5>1 DEF Types
        <5> QED BY <1>0, <5>3, <5>4, LoopBecomes
      <4> QED BY <1>0, <4>1, <4>2, TaskSame DEF Moves
    <3>3. CASE ~Stopped(r) /\ ~\E s \in Segs : job[r][s].pc = "threw"
      BY <1>0, <2>3, <3>3, GoesIs DEF Join
    <3> QED BY <3>1, <3>2, <3>3
  <2>4. CASE Flush(r)
    <3>1. <<>> \in Snaps
      BY DEF Snaps
    <3>2. loop' = [loop EXCEPT ![r].pc = "off", ![r].snap = <<>>] /\ task' = task
      BY <2>4 DEF Flush
    <3>3. LoopOn(r) /\ loop'[r].pc = "off"
      <4>1. PICK l : l = [loop[r] EXCEPT !.pc = "off", !.snap = <<>>]
        OBVIOUS
      <4>2. l \in LoopType /\ l.pc = "off" /\ l.of = Of(r)
        BY <1>0, <3>1, <4>1 DEF Types, LoopType, Of
      <4>3. loop' = [loop EXCEPT ![r] = l]
        BY <1>0, <3>2, <4>1 DEF Types
      <4> QED BY <1>0, <4>2, <4>3, LoopBecomes
    <3> QED BY <1>0, <3>2, <3>3, TaskSame DEF Moves
  <2>5. CASE OpenDest(r)
    BY <1>0, <2>5, GoesIs DEF OpenDest
  <2>6. CASE Concat(r)
    BY <1>0, <2>6, GoesIs, ThrowsIs DEF Concat
  <2>7. CASE Verify(r)
    <3>1. CASE \E bytes \in dest : Verified(bytes)
      <4>1. loop' = [loop EXCEPT ![r].pc = "parts", ![r].keep = TRUE] /\ task' = task
        BY <2>7, <3>1 DEF Verify
      <4>2. LoopOn(r) /\ loop'[r].pc = "parts"
        <5>1. PICK l : l = [loop[r] EXCEPT !.pc = "parts", !.keep = TRUE]
          OBVIOUS
        <5>2. l \in LoopType /\ l.pc = "parts" /\ l.of = Of(r)
          BY <1>0, <5>1 DEF Types, LoopType, Of
        <5>3. loop' = [loop EXCEPT ![r] = l]
          BY <1>0, <4>1, <5>1 DEF Types
        <5> QED BY <1>0, <5>2, <5>3, LoopBecomes
      <4> QED BY <1>0, <4>1, <4>2, TaskSame DEF Moves
    <3>2. CASE ~\E bytes \in dest : Verified(bytes)
      BY <1>0, <2>7, <3>2, ThrowsIs DEF Verify
    <3> QED BY <3>1, <3>2
  <2>8. CASE SweepParts(r)
    BY <1>0, <2>8, GoesIs DEF SweepParts
  <2>9. CASE SweepSidecar(r)
    BY <1>0, <2>9, GoesIs DEF SweepSidecar
  <2>10. CASE Complete(r)
    <3>1. /\ loop' = [loop EXCEPT ![r].pc = "off"]
          /\ task' = [task EXCEPT ![Of(r)].state = "completed",
                                  ![Of(r)].done = Settles(Of(r), "ok")]
      BY <2>10 DEF Complete, Goes
    <3>2. Settles(Of(r), "ok") \in {"open", "ok", "error"}
      BY <1>0 DEF Settles, Types, TaskType
    <3>3. LoopOn(r) /\ loop'[r].pc = "off"
      BY <1>0, <3>1 DEF Types, LoopType, LoopOn, Of
    <3>4. TaskOn
      BY <1>0, <3>1, <3>2, TaskTold
    <3> QED BY <3>3, <3>4 DEF Moves
  <2>11. CASE GiveUp(r)
    <3>1. /\ loop' = [loop EXCEPT ![r].pc = "off"]
          /\ task' = [task EXCEPT ![Of(r)].done = Settles(Of(r), "error")]
      BY <2>11 DEF GiveUp, Goes
    <3>2. Settles(Of(r), "error") \in {"open", "ok", "error"}
      BY <1>0 DEF Settles, Types, TaskType
    <3>3. LoopOn(r) /\ loop'[r].pc = "off"
      BY <1>0, <3>1 DEF Types, LoopType, LoopOn, Of
    <3>4. TaskOn
      BY <1>0, <3>1, <3>2, TaskTold
    <3> QED BY <3>3, <3>4 DEF Moves
  <2> QED BY <2>1, <2>2, <2>3, <2>4, <2>5, <2>6, <2>7, <2>8, <2>9, <2>10, <2>11
<1>2. PartsTyped'
  BY <1>0, DiskKept DEF Probe, ProbeFails, Join, Flush, OpenDest, Concat, Verify, SweepParts,
     SweepSidecar, Complete, GiveUp, disk, PartsGone
<1>3. SidecarTyped'
  <2>1. CASE Flush(r)
    <3>1. loop[r].snap \in Snaps
      BY <1>0 DEF Types, LoopType
    <3> QED BY <1>0, <2>1, <3>1, LandsIs DEF Flush
  <2>2. CASE ~Flush(r)
    BY <1>0, <2>2, DiskKept DEF Probe, ProbeFails, Join, OpenDest, Concat, Verify, SweepParts,
       SweepSidecar, Complete, GiveUp, disk
  <2> QED BY <2>1, <2>2
<1>4. DestTyped'
  BY <1>0, DiskKept DEF Probe, ProbeFails, Join, Flush, OpenDest, Concat, Verify, SweepParts,
     SweepSidecar, Complete, GiveUp, disk
<1>5. mishaps' \subseteq Mishaps
  BY <1>0 DEF Types, Probe, ProbeFails, Join, Flush, OpenDest, Concat, Verify, SweepParts,
     SweepSidecar, Complete, GiveUp, Mishaps, Faults
<1> QED BY <1>0, <1>1, <1>2, <1>3, <1>4, <1>5, LoopMoves DEF Moves, LoopOn, TaskOn

\* The first run of a task over empty parts.
LEMMA PrepareFreshGood ==
  ASSUME Good, NEW r \in Runs, PrepareFresh(r)
  PROVE  Good'
<1>0. /\ loop[r].pc = "prepare" /\ setup' = setup /\ UNCHANGED <<job, permits, waiters, mishaps>>
      /\ UNCHANGED <<sidecar, dest>>
      /\ Types /\ Of(r) \in Runs /\ task[Of(r)].state # "none"
  BY DEF PrepareFresh, pool, Good, Linked
<1>1. PICK zeros : zeros = [s \in Segs |-> 0]
  OBVIOUS
<1>2. PICK k \in Nat \ {0} : Segs = 1 .. k
  BY <1>0, SegsAre DEF Types
<1>3. zeros \in [Segs -> Nat] /\ zeros # <<>> /\ zeros \in Snaps
  BY <1>1, <1>2 DEF Snaps
<1>4. /\ part' = PartsAt(zeros) /\ task' = [task EXCEPT ![Of(r)].written = zeros]
      /\ loop' = [loop EXCEPT ![r].pc = "fresh", ![r].snap = zeros]
  BY <1>1 DEF PrepareFresh, TakeOver
<1>5. Moves(r)
  <2>1. LoopOn(r) /\ loop'[r].pc = "fresh"
    BY <1>0, <1>3, <1>4 DEF Types, LoopType, LoopOn, Of
  <2>2. TaskOn /\ task'[Of(r)].written = zeros
    <3>1. PICK e : e = [task[Of(r)] EXCEPT !.written = zeros]
      OBVIOUS
    <3>2. task[Of(r)] \in TaskType
      BY <1>0 DEF Types
    <3>3. /\ e \in TaskType /\ e.state = task[Of(r)].state /\ e.sub = task[Of(r)].sub
          /\ e.completer = task[Of(r)].completer /\ e.written = zeros
      BY <1>3, <3>1, <3>2 DEF TaskType
    <3>4. task' = [task EXCEPT ![Of(r)] = e]
      BY <1>0, <1>4, <3>1 DEF Types
    <3> QED BY <1>0, <1>3, <3>3, <3>4 DEF Types, TaskOn
  <2> QED BY <1>3, <2>1, <2>2 DEF Moves
<1>6. PartsTyped'
  <2>1. Segs' = Segs
    BY <1>0, SetupKept
  <2>2. \A s \in Segs : zeros[s] = 0
    BY <1>1
  <2>3. \A s \in Segs : Resized(Bytes(s), zeros[s]) = <<>>
    BY <2>2 DEF Resized
  <2>4. DOMAIN part' = Segs /\ \A s \in Segs : part'[s] = <<>>
    BY <1>4, <2>3 DEF PartsAt
  <2>5. <<>> \in Seq(Zero .. setup'.total - 1)
    OBVIOUS
  <2> QED BY <2>1, <2>4, <2>5 DEF PartsTyped
<1>7. SidecarTyped' /\ DestTyped'
  BY <1>0, DiskKept
<1> QED BY <1>0, <1>5, <1>6, <1>7, LoopMoves DEF Moves, LoopOn, TaskOn, Types

-----------------------------------------------------------------------------
(* Steps of one handler.                                                   *)

Holding == {"granted", "get", "stream", "leave"}
Over    == {"done", "threw"}

\* The handler becomes j, and holds a permit as it did.
Turns(r, s, j) ==
  /\ job' = [job EXCEPT ![r][s] = j]
  /\ j \in JobType /\ InRange(j)
  /\ j.pc = job[r][s].pc \/ (job[r][s].pc \in Holding /\ j.pc \in Holding)

\* A handler may register with its task, and say how far it is.
TaskHeld ==
  /\ task' \in [Runs -> TaskType]
  /\ \A t \in Runs : /\ task'[t].state = "none" <=> task[t].state = "none"
                     /\ task[t].sub # <<>> => task'[t].sub # <<>>
                     /\ task[t].completer # <<>> => task'[t].completer # <<>>
                     /\ task[t].written # <<>> => task'[t].written # <<>>

LEMMA JobMoves ==
  ASSUME Good, NEW r \in Runs, NEW s \in Segs, NEW j, Turns(r, s, j), TaskHeld,
         setup' = setup, UNCHANGED <<loop, permits, waiters>>,
         PartsTyped', SidecarTyped', DestTyped', mishaps' \subseteq Mishaps
  PROVE  Good'
<1>0. Segs' = Segs /\ Types /\ job \in [Runs -> [Segs -> JobType]]
  BY SetupKept DEF Good, Types
<1>1. /\ job' \in [Runs -> [Segs -> JobType]] /\ job'[r][s] = j
      /\ \A q \in Runs, p \in Segs : <<q, p>> # <<r, s>> => job'[q][p] = job[q][p]
  BY <1>0 DEF Turns
<1>2. Types'
  BY <1>0, <1>1, TypesNext DEF Types, TaskHeld
<1>3. JobsInRange'
  <2>1. \A q \in Runs, p \in Segs : InRange(job'[q][p])
    BY <1>1 DEF Turns, Good, JobsInRange
  <2> QED BY <1>0, <2>1 DEF JobsInRange, InRange
<1>4. Linked'
  <2>1. \A q \in Runs, p \in Segs : job'[q][p].pc # "none" => job[q][p].pc # "none"
    BY <1>1 DEF Turns, Holding
  <2> QED BY <1>0, <2>1 DEF Good, Linked, Of, TaskHeld
<1>5. Pool'
  <2>1. \A q \in Runs, p \in Segs :
          \/ job'[q][p].pc = job[q][p].pc
          \/ job[q][p].pc \in Holding /\ job'[q][p].pc \in Holding
    BY <1>1 DEF Turns
  <2> QED BY <2>1, PoolKept DEF Good, Holding
<1> QED BY <1>2, <1>3, <1>4, <1>5 DEF Good

LEMMA TaskHeldSame ==
  ASSUME Types, task' = task
  PROVE  TaskHeld
  BY DEF Types, TaskHeld

\* A handler that exists has a task with its offsets and its registers.
LEMMA JobOf ==
  ASSUME Good, NEW r \in Runs, NEW s \in Segs, job[r][s].pc # "none"
  PROVE  /\ Of(r) \in Runs /\ task[Of(r)] \in TaskType /\ task[Of(r)].state # "none"
         /\ task[Of(r)].written \in [Segs -> Nat]
         /\ task[Of(r)].sub \in [Segs -> Runs \cup {NoRun}]
         /\ task[Of(r)].completer \in [Segs -> Runs \cup {NoRun}]
<1>1. Of(r) \in Runs /\ task[Of(r)].state # "none" /\ task[Of(r)].written # <<>>
  BY DEF Good, Linked
<1>2. task[Of(r)] \in TaskType /\ task[Of(r)].sub # <<>> /\ task[Of(r)].completer # <<>>
  BY <1>1 DEF Good, Types, Linked
<1> QED BY <1>1, <1>2 DEF TaskType, Snaps, Owners

\* A function over the segments is not the empty sequence.
LEMMA NotEmpty ==
  ASSUME setup \in Setups, NEW f, DOMAIN f = Segs
  PROVE  f # <<>>
  BY SegsAre

\* A handler that is through with its chunk.
LEMMA HandledIs ==
  ASSUME NEW j \in JobType, NEW stop \in BOOLEAN,
         j.pc \in {"stream", "leave", "done", "threw"}, j.pc = "stream" => j.last < setup.total
  PROVE  /\ Handled(j, stop) \in JobType /\ InRange(Handled(j, stop))
         /\ Handled(j, stop).pc = j.pc
<1>0. <<>> \in Snaps
  BY DEF Snaps
<1>1. CASE j.pc \in {"done", "threw"}
  <2>1. Handled(j, stop) = [NoJob EXCEPT !.pc = j.pc]
    BY <1>1 DEF Handled
  <2>2. Handled(j, stop) = [pc |-> j.pc, next |-> 0, last |-> 0, live |-> FALSE, over |-> FALSE,
                            err |-> FALSE, hand |-> "none", snap |-> <<>>]
    BY <2>1 DEF NoJob
  <2>3. Handled(j, stop) \in JobType
    BY <1>0, <1>1, <2>2 DEF JobType
  <2> QED BY <1>1, <2>2, <2>3 DEF InRange
<1>2. CASE j.pc \in {"stream", "leave"}
  <2>1. Handled(j, stop) = [j EXCEPT !.hand = "none", !.snap = <<>>, !.live = @ /\ ~stop,
                                     !.over = @ \/ stop]
    BY <1>2 DEF Handled
  <2>2. Handled(j, stop) \in JobType
    BY <1>0, <2>1 DEF JobType
  <2>3. /\ Handled(j, stop).hand = "none" /\ Handled(j, stop).pc = j.pc
        /\ Handled(j, stop).last = j.last
    BY <2>1 DEF JobType
  <2> QED BY <1>2, <2>2, <2>3 DEF InRange
<1> QED BY <1>1, <1>2

\* What a part is cut or extended to holds bytes of the resource, or zeros.
LEMMA ResizedIs ==
  ASSUME Types, NEW s \in Segs, NEW n \in Nat
  PROVE  Resized(Bytes(s), n) \in Seq(Zero .. setup.total - 1)
<1>1. Bytes(s) \in Seq(Zero .. setup.total - 1)
  <2>1. CASE s \in DOMAIN part
    BY <2>1 DEF Types, PartsTyped, Bytes
  <2>2. CASE s \notin DOMAIN part
    <3>1. Bytes(s) = <<>>
      BY <2>2 DEF Bytes
    <3> QED BY <3>1
  <2> QED BY <2>1, <2>2
<1>2. PICK b \in Seq(Zero .. setup.total - 1) : b = Bytes(s)
  BY <1>1
<1>3. Zero \in Zero .. setup.total - 1
  BY SegsAre DEF Types, Zero
<1>4. \A k \in 1 .. n : (IF k <= Len(b) THEN b[k] ELSE Zero) \in Zero .. setup.total - 1
  <2>1. \A k \in 1 .. Len(b) : b[k] \in Zero .. setup.total - 1
    BY <1>2, ElementOfSeq
  <2>2. \A k \in 1 .. n : k <= Len(b) => k \in 1 .. Len(b)
    BY LenProperties
  <2> QED BY <1>3, <2>1, <2>2
<1>5. [k \in 1 .. n |-> IF k <= Len(b) THEN b[k] ELSE Zero] \in Seq(Zero .. setup.total - 1)
  BY <1>4, IsASeq
<1> QED BY <1>2, <1>5 DEF Resized

\* A permit is there.
LEMMA GrantedGood ==
  ASSUME Good, NEW r \in Runs, NEW s \in Segs, Granted(r, s)
  PROVE  Good'
<1>0. /\ job[r][s].pc = "granted" /\ setup' = setup /\ UNCHANGED <<loop, permits, waiters>>
      /\ UNCHANGED <<sidecar, dest, mishaps>> /\ Types /\ job[r][s] \in JobType
      /\ InRange(job[r][s])
  BY DEF Granted, pool, Good, Types, JobsInRange
<1>1. /\ Of(r) \in Runs /\ task[Of(r)] \in TaskType
      /\ task[Of(r)].written \in [Segs -> Nat]
      /\ task[Of(r)].sub \in [Segs -> Runs \cup {NoRun}]
      /\ task[Of(r)].completer \in [Segs -> Runs \cup {NoRun}]
  BY <1>0, JobOf
<1>2. PICK done \in Nat : done = IF setup.ranged THEN task[Of(r)].written[s] ELSE 0
  BY <1>1
<1>3. task' = [task EXCEPT ![Of(r)].completer[s] = r, ![Of(r)].written[s] = done]
  BY <1>2 DEF Granted
<1>4. TaskHeld
  <2>1. PICK w : w = [task[Of(r)].written EXCEPT ![s] = done]
    OBVIOUS
  <2>2. PICK c : c = [task[Of(r)].completer EXCEPT ![s] = r]
    OBVIOUS
  <2>3. w \in [Segs -> Nat] /\ c \in [Segs -> Runs \cup {NoRun}]
    BY <1>1, <2>1, <2>2
  <2>4. w # <<>> /\ c # <<>>
    BY <1>0, <2>3, NotEmpty DEF Types
  <2>5. task' = [task EXCEPT ![Of(r)] = [task[Of(r)] EXCEPT !.completer = c, !.written = w]]
    BY <1>0, <1>1, <1>3, <2>1, <2>2 DEF Types, TaskType
  <2>6. [task[Of(r)] EXCEPT !.completer = c, !.written = w] \in TaskType
    BY <1>1, <2>3 DEF TaskType, Owners, Snaps
  <2> QED BY <1>0, <1>1, <2>4, <2>5, <2>6 DEF Types, TaskHeld, TaskType
<1>5. CASE ~setup.ranged \/ (~Stopped(r) /\ task[Of(r)].written[s] < Length(s))
  <2>1. PICK next, last : next = Split[s].start + done /\ last = Split[s].end
    OBVIOUS
  <2>2. /\ job' = [job EXCEPT ![r][s].pc = "get", ![r][s].next = next, ![r][s].last = last]
        /\ part' = [q \in DOMAIN part \cup {s} |->
                      IF q = s THEN Resized(Bytes(s), done) ELSE part[q]]
    BY <1>0, <1>2, <1>5, <2>1 DEF Granted
  <2>3. /\ Split[s].start \in Nat /\ Split[s].end \in 0 .. setup.total - 1
        /\ Split[s].start <= Split[s].end /\ setup.total \in Nat
    BY <1>0, SegsAre DEF Types
  <2>4. Split[s].start + done <= Split[s].end
    <3>1. CASE setup.ranged
      BY <1>2, <1>5, <2>3, <3>1 DEF Length
    <3>2. CASE ~setup.ranged
      BY <1>2, <2>3, <3>2
    <3> QED BY <3>1, <3>2
  <2>5. next \in Nat /\ last \in Nat /\ next < setup.total /\ last < setup.total
    BY <2>1, <2>3, <2>4
  <2>6. PICK j : j = [job[r][s] EXCEPT !.pc = "get", !.next = next, !.last = last]
    OBVIOUS
  <2>7. /\ j \in JobType /\ j.pc = "get" /\ j.next = next /\ j.last = last
        /\ j.hand = job[r][s].hand
    BY <1>0, <2>5, <2>6 DEF JobType
  <2>a. job' = [job EXCEPT ![r][s] = j]
    BY <1>0, <2>2, <2>6 DEF Types
  <2>8. InRange(j)
    BY <1>0, <2>5, <2>7 DEF InRange
  <2>9. Turns(r, s, j)
    BY <1>0, <2>7, <2>8, <2>a DEF Turns, Holding
  <2>10. PartsTyped'
    <3>1. Segs' = Segs
      BY <1>0, SetupKept
    <3>2. Resized(Bytes(s), done) \in Seq(Zero .. setup.total - 1)
      BY <1>0, ResizedIs
    <3> QED BY <1>0, <2>2, <3>1, <3>2 DEF Types, PartsTyped
  <2> QED BY <1>0, <1>4, <2>9, <2>10, DiskKept, JobMoves DEF Types
<1>6. CASE ~(~setup.ranged \/ (~Stopped(r) /\ task[Of(r)].written[s] < Length(s)))
  <2>1. PICK j : j = [job[r][s] EXCEPT !.pc = "leave"]
    OBVIOUS
  <2>2. job' = [job EXCEPT ![r][s] = j] /\ part' = part
    BY <1>0, <1>6, <2>1 DEF Granted, Types
  <2>3. j \in JobType /\ j.pc = "leave" /\ j.hand = job[r][s].hand
    BY <1>0, <2>1 DEF JobType
  <2>4. InRange(j)
    BY <1>0, <2>3 DEF InRange
  <2>5. Turns(r, s, j)
    BY <1>0, <2>2, <2>3, <2>4 DEF Turns, Holding
  <2> QED BY <1>0, <1>4, <2>2, <2>5, DiskKept, JobMoves DEF Types
<1> QED BY <1>5, <1>6

\* A response is there, or fails, or its stream goes on.
LEMMA GetGood ==
  ASSUME Good, NEW r \in Runs, NEW s \in Segs, Get(r, s)
  PROVE  Good'
<1>0. /\ job[r][s].pc = "get" /\ setup' = setup /\ UNCHANGED <<loop, permits, waiters>>
      /\ UNCHANGED <<part, sidecar, dest>> /\ Types /\ job[r][s] \in JobType
      /\ InRange(job[r][s])
  <2>1. Types /\ JobsInRange
    BY DEF Good
  <2>2. job[r][s] \in JobType /\ InRange(job[r][s])
    BY <2>1 DEF Types, JobsInRange
  <2> QED BY <2>1, <2>2 DEF Get, pool, disk
<1>a. setup.total \in Nat \ {0}
  BY <1>0, SegsAre DEF Types
<1>1. /\ Of(r) \in Runs /\ task[Of(r)] \in TaskType
      /\ task[Of(r)].sub \in [Segs -> Runs \cup {NoRun}]
  BY <1>0, JobOf
<1>2. CASE job[r][s].over
  <2>1. PICK hand \in {"none", "write"} :
          /\ job' = [job EXCEPT ![r][s].pc = "leave", ![r][s].hand = hand]
          /\ task' = task /\ mishaps' = mishaps
    BY <1>2 DEF Get
  <2>2. PICK j : j = [job[r][s] EXCEPT !.pc = "leave", !.hand = hand]
    OBVIOUS
  <2>3. job' = [job EXCEPT ![r][s] = j]
    BY <1>0, <2>1, <2>2 DEF Types
  <2>4. /\ j \in JobType /\ j.pc = "leave" /\ j.next = job[r][s].next
    BY <1>0, <2>1, <2>2 DEF JobType
  <2>5. InRange(j)
    BY <1>0, <2>4 DEF InRange
  <2>6. Turns(r, s, j)
    BY <1>0, <2>3, <2>4, <2>5 DEF Turns, Holding
  <2> QED BY <1>0, <2>1, <2>6, TaskHeldSame, DiskKept, JobMoves DEF Types
<1>3. CASE ~job[r][s].over
  <2>1. PICK whole \in BOOLEAN :
          /\ job' = [job EXCEPT ![r][s].pc = "stream", ![r][s].live = TRUE,
                                ![r][s].next = IF whole THEN 0 ELSE @,
                                ![r][s].last = IF whole THEN setup.total - 1 ELSE @]
          /\ task' = [task EXCEPT ![Of(r)].sub[s] = r]
          /\ Noted("whole", whole)
    BY <1>3 DEF Get
  <2>2. PICK next, last : /\ next = IF whole THEN 0 ELSE job[r][s].next
                          /\ last = IF whole THEN setup.total - 1 ELSE job[r][s].last
    OBVIOUS
  <2>3. next \in Nat /\ last \in Nat /\ last < setup.total
    <3>1. job[r][s].next \in Nat /\ job[r][s].last \in Nat /\ job[r][s].last < setup.total
      BY <1>0 DEF JobType, InRange
    <3> QED BY <1>a, <2>2, <3>1
  <2>4. PICK j : j = [job[r][s] EXCEPT !.pc = "stream", !.live = TRUE, !.next = next, !.last = last]
    OBVIOUS
  <2>5. job' = [job EXCEPT ![r][s] = j]
    <3>1. job' = [job EXCEPT ![r][s].pc = "stream", ![r][s].live = TRUE,
                             ![r][s].next = next, ![r][s].last = last]
      BY <1>0, <2>1, <2>2 DEF Types, JobType
    <3> QED BY <1>0, <2>4, <3>1 DEF Types
  <2>6. Turns(r, s, j)
    <3>1. /\ j \in JobType /\ j.pc = "stream" /\ j.hand = job[r][s].hand /\ j.last = last
      BY <1>0, <2>3, <2>4 DEF JobType
    <3>2. InRange(j)
      BY <1>0, <2>3, <3>1 DEF InRange
    <3> QED BY <1>0, <2>5, <3>1, <3>2 DEF Turns, Holding
  <2>7. TaskHeld
    <3>1. PICK c : c = [task[Of(r)].sub EXCEPT ![s] = r]
      OBVIOUS
    <3>2. c \in [Segs -> Runs \cup {NoRun}]
      BY <1>1, <3>1
    <3>3. c # <<>>
      BY <1>0, <3>2, NotEmpty DEF Types
    <3>4. task' = [task EXCEPT ![Of(r)] = [task[Of(r)] EXCEPT !.sub = c]]
      BY <1>0, <1>1, <2>1, <3>1 DEF Types, TaskType
    <3>5. [task[Of(r)] EXCEPT !.sub = c] \in TaskType
      BY <1>1, <3>2 DEF TaskType, Owners
    <3> QED BY <1>0, <1>1, <3>3, <3>4, <3>5 DEF Types, TaskHeld, TaskType
  <2>8. mishaps' \subseteq Mishaps
    BY <1>0, <2>1 DEF Types, Noted, Mishaps, Faults
  <2> QED BY <1>0, <2>6, <2>7, <2>8, DiskKept, JobMoves
<1> QED BY <1>2, <1>3

\* A request that fails, a chunk, the end of a stream or its failure, a write
\* that fails.
LEMMA StreamGood ==
  ASSUME Good, NEW r \in Runs, NEW s \in Segs,
         GetFails(r, s) \/ Chunk(r, s) \/ StreamEnds(r, s) \/ StreamFails(r, s) \/ WriteFails(r, s)
  PROVE  Good'
<1>0. /\ setup' = setup /\ UNCHANGED <<loop, permits, waiters>>
      /\ UNCHANGED <<part, sidecar, dest>> /\ task' = task
      /\ Types /\ job[r][s] \in JobType /\ InRange(job[r][s])
  <2>1. Types /\ JobsInRange
    BY DEF Good
  <2>2. job[r][s] \in JobType /\ InRange(job[r][s])
    BY <2>1 DEF Types, JobsInRange
  <2> QED BY <2>1, <2>2 DEF GetFails, Chunk, StreamEnds, StreamFails, WriteFails, pool, disk
<1>1. ASSUME NEW j, Turns(r, s, j), mishaps' \subseteq Mishaps
      PROVE  Good'
  BY <1>0, <1>1, TaskHeldSame, DiskKept, JobMoves
<1>2. mishaps' \subseteq Mishaps
  BY <1>0 DEF Types, Noted, GetFails, Chunk, StreamEnds, StreamFails, WriteFails, Mishaps, Faults
<1>3. CASE GetFails(r, s)
  <2>1. PICK j : j = [job[r][s] EXCEPT !.pc = "leave", !.err = TRUE]
    OBVIOUS
  <2>2. job' = [job EXCEPT ![r][s] = j]
    BY <1>0, <1>3, <2>1 DEF Types, GetFails
  <2>3. /\ j \in JobType /\ j.pc = "leave" /\ j.next = job[r][s].next /\ j.hand = job[r][s].hand
    BY <1>0, <2>1 DEF JobType
  <2>4. Turns(r, s, j)
    BY <1>0, <1>3, <2>2, <2>3 DEF Turns, Holding, InRange, GetFails
  <2> QED BY <1>1, <1>2, <2>4
<1>4. CASE Chunk(r, s)
  <2>1. PICK j : j = [job[r][s] EXCEPT !.hand = "write"]
    OBVIOUS
  <2>2. job' = [job EXCEPT ![r][s] = j]
    BY <1>0, <1>4, <2>1 DEF Types, Chunk
  <2>3. /\ j \in JobType /\ j.pc = "stream" /\ j.next = job[r][s].next /\ j.last = job[r][s].last
        /\ j.next <= j.last /\ j.next \in Nat /\ j.last \in Nat
    BY <1>0, <1>4, <2>1 DEF JobType, Chunk
  <2>4. setup.total \in Nat \ {0} /\ j.last < setup.total
    BY <1>0, <1>4, <2>3, SegsAre DEF Types, InRange, Chunk
  <2>5. InRange(j)
    BY <2>3, <2>4 DEF InRange
  <2>6. Turns(r, s, j)
    BY <1>4, <2>2, <2>3, <2>5 DEF Turns, Chunk
  <2> QED BY <1>1, <1>2, <2>6
<1>5. CASE StreamEnds(r, s)
  <2>1. PICK j : j = [job[r][s] EXCEPT !.live = FALSE, !.over = TRUE]
    OBVIOUS
  <2>2. job' = [job EXCEPT ![r][s] = j]
    BY <1>0, <1>5, <2>1 DEF Types, StreamEnds
  <2>3. /\ j \in JobType /\ j.pc = "stream" /\ j.hand = "none" /\ j.last = job[r][s].last
    BY <1>0, <1>5, <2>1 DEF JobType, StreamEnds
  <2>4. Turns(r, s, j)
    BY <1>0, <1>5, <2>2, <2>3 DEF Turns, InRange, StreamEnds
  <2> QED BY <1>1, <1>2, <2>4
<1>6. CASE StreamFails(r, s)
  <2>1. PICK j : j = [job[r][s] EXCEPT !.live = FALSE, !.over = TRUE, !.err = ~job[r][s].over]
    OBVIOUS
  <2>2. job' = [job EXCEPT ![r][s] = j]
    BY <1>0, <1>6, <2>1 DEF Types, StreamFails
  <2>3. /\ j \in JobType /\ j.pc = "stream" /\ j.hand = "none" /\ j.last = job[r][s].last
    BY <1>0, <1>6, <2>1 DEF JobType, StreamFails
  <2>4. Turns(r, s, j)
    BY <1>0, <1>6, <2>2, <2>3 DEF Turns, InRange, StreamFails
  <2> QED BY <1>1, <1>2, <2>4
<1>7. CASE WriteFails(r, s)
  <2>0. PICK err \in BOOLEAN : err = ~job[r][s].over
    OBVIOUS
  <2>1. PICK j : j = [job[r][s] EXCEPT !.hand = "none", !.live = FALSE, !.over = TRUE, !.err = err]
    OBVIOUS
  <2>2. job' = [job EXCEPT ![r][s] = j]
    <3>1. job' = [job EXCEPT ![r][s].hand = "none", ![r][s].live = FALSE, ![r][s].over = TRUE,
                             ![r][s].err = err]
      BY <1>7, <2>0 DEF WriteFails
    <3> QED BY <1>0, <2>1, <3>1 DEF Types
  <2>3. /\ j \in JobType /\ j.pc = job[r][s].pc /\ j.hand = "none" /\ j.last = job[r][s].last
        /\ j.next = job[r][s].next
    BY <1>0, <1>7, <2>1 DEF JobType
  <2>4. Turns(r, s, j)
    BY <1>0, <1>7, <2>2, <2>3 DEF Turns, InRange
  <2> QED BY <1>1, <1>2, <2>4
<1> QED BY <1>3, <1>4, <1>5, <1>6, <1>7

\* A chunk is on disk.
LEMMA WroteGood ==
  ASSUME Good, NEW r \in Runs, NEW s \in Segs, Wrote(r, s)
  PROVE  Good'
<1>0. /\ job[r][s].hand = "write" /\ setup' = setup /\ UNCHANGED <<loop, permits, waiters>>
      /\ UNCHANGED <<sidecar, dest>>
      /\ Types /\ job[r][s] \in JobType /\ InRange(job[r][s])
  <2>1. Types /\ JobsInRange
    BY DEF Good
  <2>2. job[r][s] \in JobType /\ InRange(job[r][s])
    BY <2>1 DEF Types, JobsInRange
  <2> QED BY <2>1, <2>2 DEF Wrote, pool
<1>1. /\ Of(r) \in Runs /\ task[Of(r)] \in TaskType
      /\ task[Of(r)].written \in [Segs -> Nat]
  BY <1>0, JobOf DEF InRange
<1>2. PICK now : now = [task[Of(r)].written EXCEPT ![s] = @ + 1]
  OBVIOUS
<1>3. now \in [Segs -> Nat] /\ now # <<>>
  BY <1>0, <1>1, <1>2, NotEmpty DEF Types
<1>4. TaskHeld
  <2>1. task' = [task EXCEPT ![Of(r)].written = now]
    BY <1>2 DEF Wrote
  <2> QED BY <1>0, <1>1, <1>3, <2>1 DEF Types, TaskHeld, TaskType, Snaps
<1>5. PartsTyped'
  <2>1. Segs' = Segs /\ setup.total \in Nat \ {0}
    BY <1>0, SetupKept, SegsAre DEF Types
  <2>2. PICK n \in Zero .. setup.total - 1 : n = job[r][s].next
    BY <1>0, <2>1 DEF JobType, InRange, Zero
  <2>3. part' = [q \in DOMAIN part |-> IF q = s THEN Append(part[q], n) ELSE part[q]]
    BY <2>2 DEF Wrote
  <2>4. DOMAIN part' = DOMAIN part
    BY <2>3
  <2>5. ASSUME NEW q \in DOMAIN part PROVE part'[q] \in Seq(Zero .. setup.total - 1)
    <3>1. part[q] \in Seq(Zero .. setup.total - 1)
      BY <1>0 DEF Types, PartsTyped
    <3>2. Append(part[q], n) \in Seq(Zero .. setup.total - 1)
      BY <2>2, <3>1, AppendProperties
    <3> QED BY <2>3, <3>1, <3>2
  <2> QED BY <1>0, <2>1, <2>4, <2>5 DEF Types, PartsTyped
<1>6. PICK j : j = [job[r][s] EXCEPT !.next = @ + 1]
  OBVIOUS
<1>7. /\ j \in JobType /\ j.pc = job[r][s].pc /\ j.last = job[r][s].last /\ j.hand = "write"
  BY <1>0, <1>6 DEF JobType
<1>8. /\ j.pc \in {"stream", "leave", "done", "threw"}
      /\ j.pc = "stream" => j.last < setup.total
      /\ Stopped(r) \in BOOLEAN
  BY <1>0, <1>1, <1>7 DEF InRange, JobType, TaskType, Stopped
<1>9. \E k : Turns(r, s, k)
  <2>1. CASE job' = [job EXCEPT ![r][s] = Handled(j, Stopped(r))]
    <3>1. PICK k : k = Handled(j, Stopped(r))
      OBVIOUS
    <3>2. k \in JobType /\ InRange(k) /\ k.pc = job[r][s].pc
      BY <1>7, <1>8, <3>1, HandledIs
    <3>3. Turns(r, s, k)
      BY <2>1, <3>1, <3>2 DEF Turns
    <3> QED BY <3>3
  <2>2. CASE job' = [job EXCEPT ![r][s] = [j EXCEPT !.hand = "commit", !.snap = now]]
    <3>1. PICK k : k = [j EXCEPT !.hand = "commit", !.snap = now]
      OBVIOUS
    <3>2. /\ k \in JobType /\ k.pc = j.pc /\ k.hand = "commit" /\ k.last = j.last
      BY <1>3, <1>7, <3>1 DEF JobType, Snaps
    <3>3. InRange(k)
      BY <1>8, <3>2 DEF InRange
    <3>4. Turns(r, s, k)
      BY <1>7, <2>2, <3>1, <3>2, <3>3 DEF Turns
    <3> QED BY <3>4
  <2> QED BY <1>2, <1>6, <2>1, <2>2 DEF Wrote
<1>10. mishaps' \subseteq Mishaps
  BY <1>0 DEF Types, Noted, Wrote, Mishaps, Faults
<1> QED BY <1>0, <1>4, <1>5, <1>9, <1>10, DiskKept, JobMoves

\* A commit lands.
LEMMA CommitGood ==
  ASSUME Good, NEW r \in Runs, NEW s \in Segs, Commit(r, s)
  PROVE  Good'
<1>0. /\ job[r][s].hand = "commit" /\ setup' = setup /\ UNCHANGED <<loop, permits, waiters>>
      /\ UNCHANGED <<part, dest>> /\ task' = task
      /\ Types /\ job[r][s] \in JobType /\ InRange(job[r][s])
  <2>1. Types /\ JobsInRange
    BY DEF Good
  <2>2. job[r][s] \in JobType /\ InRange(job[r][s])
    BY <2>1 DEF Types, JobsInRange
  <2> QED BY <2>1, <2>2 DEF Commit, pool
<1>1. PICK k : k = Handled(job[r][s], Stopped(r))
  OBVIOUS
<1>2. Of(r) \in Runs /\ task[Of(r)] \in TaskType
  BY <1>0, JobOf DEF InRange
<1>3. k \in JobType /\ InRange(k) /\ k.pc = job[r][s].pc
  <2>1. /\ job[r][s].pc \in {"stream", "leave", "done", "threw"}
        /\ job[r][s].pc = "stream" => job[r][s].last < setup.total
        /\ Stopped(r) \in BOOLEAN
    BY <1>0, <1>2 DEF InRange, JobType, TaskType, Stopped
  <2> QED BY <1>0, <1>1, <2>1, HandledIs
<1>4. Turns(r, s, k)
  BY <1>0, <1>1, <1>3 DEF Turns, Commit, Types
<1>5. SidecarTyped'
  <2>1. job[r][s].snap \in Snaps
    BY <1>0 DEF JobType
  <2> QED BY <1>0, <2>1, LandsIs DEF Commit
<1>6. mishaps' \subseteq Mishaps
  BY <1>0 DEF Types, Noted, Commit, Mishaps, Faults
<1> QED BY <1>0, <1>4, <1>5, <1>6, TaskHeldSame, DiskKept, JobMoves

\* What the subscriptions and completers are told of leaves every handler where
\* it is.
LEMMA AbortGood ==
  ASSUME Good, NEW t \in Runs, job' = Abort(t), TaskHeld, setup' = setup,
         UNCHANGED <<disk, loop, permits, waiters>>, mishaps' \subseteq Mishaps
  PROVE  Good'
<1>0. /\ Segs' = Segs /\ Types /\ JobsInRange /\ UNCHANGED <<part, sidecar, dest>>
  BY SetupKept DEF Good, disk
<1>1. ASSUME NEW q \in Runs, NEW p \in Segs
      PROVE  /\ job'[q][p] \in JobType /\ InRange(job'[q][p])
             /\ job'[q][p].pc = job[q][p].pc
  <2>1. job[q][p] \in JobType /\ InRange(job[q][p])
    BY <1>0 DEF Types, JobsInRange
  <2>2. PICK live \in BOOLEAN, over \in BOOLEAN :
          /\ live = (job[q][p].live /\ task[t].sub[p] # q)
          /\ over = (job[q][p].over \/ task[t].completer[p] = q)
    OBVIOUS
  <2>3. job'[q][p] = [job[q][p] EXCEPT !.live = live, !.over = over]
    BY <2>2 DEF Abort
  <2>4. /\ job'[q][p] \in JobType /\ job'[q][p].pc = job[q][p].pc
        /\ job'[q][p].hand = job[q][p].hand /\ job'[q][p].next = job[q][p].next
        /\ job'[q][p].last = job[q][p].last
    BY <2>1, <2>2, <2>3 DEF JobType
  <2> QED BY <2>1, <2>4 DEF InRange
<1>2. job' \in [Runs -> [Segs -> JobType]]
  <2>1. job' = [q \in Runs |-> [p \in Segs |-> job'[q][p]]]
    BY DEF Abort
  <2> QED BY <1>1, <2>1
<1>3. Types'
  BY <1>0, <1>2, TypesNext, DiskKept DEF Types, TaskHeld
<1>4. JobsInRange'
  BY <1>0, <1>1 DEF JobsInRange, InRange
<1>5. Linked'
  BY <1>0, <1>1 DEF Good, Linked, Of, TaskHeld
<1>6. Pool'
  BY <1>1, PoolKept DEF Good
<1> QED BY <1>3, <1>4, <1>5, <1>6 DEF Good

\* A task that forgets its subscriptions.
LEMMA PauseGood ==
  ASSUME Good, NEW t \in Runs, Pause(t)
  PROVE  Good'
<1>0. /\ Types /\ job' = Abort(t) /\ setup' = setup /\ UNCHANGED <<disk, loop, permits, waiters>>
      /\ mishaps' = mishaps /\ task[t] \in TaskType
  BY DEF Good, Pause, pool, Types
<1>1. PICK none : none = [s \in Segs |-> NoRun]
  OBVIOUS
<1>2. none \in Owners /\ none # <<>>
  BY <1>0, <1>1, NotEmpty DEF Types, Owners
<1>3. PICK e : e = [task[t] EXCEPT !.state = "paused", !.stop = TRUE, !.sub = none]
  OBVIOUS
<1>4. task' = [task EXCEPT ![t] = e] /\ task[t].state # "none"
  BY <1>0, <1>1, <1>3 DEF Pause, Types
<1>5. /\ e \in TaskType /\ e.state = "paused" /\ e.sub = none
      /\ e.completer = task[t].completer /\ e.written = task[t].written
  BY <1>0, <1>2, <1>3 DEF TaskType
<1>6. TaskHeld
  BY <1>0, <1>2, <1>4, <1>5 DEF Types, TaskHeld
<1> QED BY <1>0, <1>6, AbortGood DEF Types

LEMMA CancelGood ==
  ASSUME Good, NEW t \in Runs, Cancel(t)
  PROVE  Good'
<1>0. /\ Types /\ job' = Abort(t) /\ setup' = setup /\ UNCHANGED <<disk, loop, permits, waiters>>
      /\ task[t] \in TaskType
  BY DEF Good, Cancel, pool, Types
<1>1. PICK none : none = [s \in Segs |-> NoRun]
  OBVIOUS
<1>2. none \in Owners /\ none # <<>>
  BY <1>0, <1>1, NotEmpty DEF Types, Owners
<1>3. PICK e : e = [task[t] EXCEPT !.state = "canceled", !.stop = TRUE, !.cancel = TRUE,
                                   !.sub = none, !.finish = "wait"]
  OBVIOUS
<1>4. task' = [task EXCEPT ![t] = e] /\ task[t].state # "none"
  BY <1>0, <1>1, <1>3 DEF Cancel, Types
<1>5. /\ e \in TaskType /\ e.state = "canceled" /\ e.sub = none
      /\ e.completer = task[t].completer /\ e.written = task[t].written
  BY <1>0, <1>2, <1>3 DEF TaskType
<1>6. TaskHeld
  BY <1>0, <1>2, <1>4, <1>5 DEF Types, TaskHeld
<1>7. mishaps' \subseteq Mishaps
  BY <1>0 DEF Types, Noted, Cancel, Mishaps, Faults
<1> QED BY <1>0, <1>6, <1>7, AbortGood

\* The cleanup of a cancellation touches its task and the disk.
LEMMA FinishCancelGood ==
  ASSUME Good, NEW t \in Runs, FinishCancel(t)
  PROVE  Good'
<1>0. /\ Types /\ JobsInRange /\ setup' = setup /\ UNCHANGED <<job, loop, permits, waiters>>
      /\ mishaps' = mishaps /\ task[t] \in TaskType /\ Segs' = Segs
  BY SetupKept DEF Good, FinishCancel, pool, Types
<1>1. PICK finish \in {"parts", "sidecar", "dest", "end"}, done \in {"open", "ok", "error"} :
        task' = [task EXCEPT ![t].finish = finish, ![t].done = done]
  <2>1. CASE task[t].finish \in {"wait", "parts", "sidecar"}
    <3>1. PICK finish \in {"parts", "sidecar", "dest"} : task' = [task EXCEPT ![t].finish = finish]
      BY <2>1 DEF FinishCancel
    <3>2. task' = [task EXCEPT ![t].finish = finish, ![t].done = task[t].done]
      BY <1>0, <3>1 DEF Types, TaskType
    <3> QED BY <1>0, <3>2 DEF TaskType
  <2>2. CASE task[t].finish = "dest"
    <3>1. task' = [task EXCEPT ![t].finish = "end", ![t].done = Settles(t, "ok")]
      BY <2>2 DEF FinishCancel
    <3>2. Settles(t, "ok") \in {"open", "ok", "error"}
      BY <1>0 DEF Settles, TaskType
    <3> QED BY <3>1, <3>2
  <2> QED BY <2>1, <2>2 DEF FinishCancel
<1>2. TaskHeld
  <2>1. PICK e : e = [task[t] EXCEPT !.finish = finish, !.done = done]
    OBVIOUS
  <2>2. task' = [task EXCEPT ![t] = e]
    BY <1>0, <1>1, <2>1 DEF Types
  <2>3. /\ e \in TaskType /\ e.state = task[t].state /\ e.sub = task[t].sub
        /\ e.completer = task[t].completer /\ e.written = task[t].written
    BY <1>0, <2>1 DEF TaskType
  <2> QED BY <1>0, <2>2, <2>3 DEF Types, TaskHeld
<1>3. /\ part' = part \/ part' = <<>>
      /\ sidecar' = sidecar \/ sidecar' = {}
      /\ dest' = dest \/ dest' = {}
  BY DEF FinishCancel, PartsGone, disk
<1>4. Types'
  BY <1>0, <1>2, <1>3, TypesNext, DiskKept DEF Types, TaskHeld
<1>5. JobsInRange' /\ Pool'
  BY <1>0, JobsKept, PoolKept DEF Good
<1>6. Linked'
  BY <1>0, <1>2 DEF Good, Linked, Of, TaskHeld
<1> QED BY <1>4, <1>5, <1>6 DEF Good

-----------------------------------------------------------------------------
(* Permits that change hands.                                              *)

\* Two queues without repetition and with nothing in common.
LEMMA Joined ==
  ASSUME NEW S, NEW q \in Seq(S), NEW e \in Seq(S), Distinct(q), Distinct(e),
         \A x \in ToSet(q) : x \notin ToSet(e)
  PROVE  q \o e \in Seq(S) /\ Distinct(q \o e) /\ ToSet(q \o e) = ToSet(q) \cup ToSet(e)
<1>1. PICK m \in Nat, n \in Nat : /\ m = Len(q) /\ n = Len(e) /\ DOMAIN q = 1 .. m
                                  /\ DOMAIN e = 1 .. n
  BY LenProperties
<1>2. PICK w : w = q \o e
  OBVIOUS
<1>3. /\ w \in Seq(S) /\ Len(w) = m + n /\ DOMAIN w = 1 .. m + n
      /\ \A i \in 1 .. m + n : w[i] = IF i <= m THEN q[i] ELSE e[i - m]
  BY <1>1, <1>2, ConcatProperties, LenProperties
<1>4. \A i \in 1 .. m : i \in 1 .. m + n /\ w[i] = q[i] /\ w[i] \in ToSet(q)
  BY <1>1, <1>3 DEF ToSet
<1>5. \A i \in 1 .. m + n : i \notin 1 .. m =>
        i - m \in 1 .. n /\ w[i] = e[i - m] /\ w[i] \in ToSet(e)
  <2>1. \A i \in 1 .. m + n : i \notin 1 .. m => i - m \in 1 .. n /\ ~(i <= m)
    BY <1>1
  <2>2. \A k \in 1 .. n : e[k] \in ToSet(e)
    BY <1>1 DEF ToSet
  <2> QED BY <1>3, <2>1, <2>2
<1>6. ToSet(w) = ToSet(q) \cup ToSet(e)
  <2>1. ToSet(w) \subseteq ToSet(q) \cup ToSet(e)
    BY <1>3, <1>4, <1>5 DEF ToSet
  <2>2. ToSet(q) \subseteq ToSet(w)
    BY <1>1, <1>3, <1>4 DEF ToSet
  <2>3. ASSUME NEW i \in 1 .. n PROVE e[i] \in ToSet(w)
    <3>1. m + i \in 1 .. m + n /\ m + i \notin 1 .. m /\ (m + i) - m = i
      BY <1>1
    <3> QED BY <1>3, <1>5, <3>1 DEF ToSet
  <2> QED BY <1>1, <2>1, <2>2, <2>3 DEF ToSet
<1>7. Distinct(w)
  <2>1. SUFFICES ASSUME NEW i \in 1 .. m + n, NEW j \in 1 .. m + n, w[i] = w[j]
                 PROVE  i = j
    BY <1>3 DEF Distinct
  <2>2. CASE i \in 1 .. m /\ j \in 1 .. m
    BY <1>1, <1>4, <2>1, <2>2 DEF Distinct
  <2>3. CASE i \notin 1 .. m /\ j \notin 1 .. m
    <3>1. i - m = j - m
      BY <1>1, <1>5, <2>1, <2>3 DEF Distinct
    <3> QED BY <3>1
  <2>4. CASE ~(i \in 1 .. m <=> j \in 1 .. m)
    BY <1>4, <1>5, <2>1, <2>4
  <2> QED BY <2>2, <2>3, <2>4
<1> QED BY <1>2, <1>3, <1>6, <1>7

\* There are finitely many handlers.
LEMMA JobsFinite ==
  ASSUME setup \in Setups, NEW pcs
  PROVE  IsFiniteSet(Jobs(pcs)) /\ Cardinality(Jobs(pcs)) \in Nat
<1>1. PICK k \in Nat : Segs = 1 .. k
  BY SegsAre
<1>2. IsFiniteSet(Segs) /\ IsFiniteSet(Runs)
  BY <1>1, FS_Interval, DownloadAssumption DEF Runs
<1>3. IsFiniteSet(Runs \X Segs)
  BY <1>2, FS_Product
<1>4. Jobs(pcs) \subseteq Runs \X Segs
  BY DEF Jobs
<1> QED BY <1>3, <1>4, FS_Subset, FS_CardinalityType

\* A run that has no handler yet asks for permits for what is left to fetch.
LEMMA SpreadIs ==
  ASSUME Good, setup' = setup, NEW r \in Runs, NEW written,
         \A s \in Segs : job[r][s].pc = "none", Spread(r, written)
  PROVE  /\ Pool'
         /\ job' \in [Runs -> [Segs -> JobType]]
         /\ \A q \in Runs : q # r => job'[q] = job[q]
         /\ \A s \in Segs : InRange(job'[r][s])
<1> DEFINE todo == Todo(written)
<1>0. /\ setup \in Setups /\ job \in [Runs -> [Segs -> JobType]] /\ Segs' = Segs
      /\ permits \in Nat /\ waiters \in Seq(Runs \X Segs) /\ Distinct(waiters)
      /\ PermitsConserved
  BY SetupKept DEF Good, Types, Pool
<1>1. PICK k \in Nat : Segs = 1 .. k
  BY <1>0, SegsAre
<1>2. todo \in SUBSET (1 .. k)
  BY <1>1 DEF Todo
<1>3. PICK c \in Nat : c = Cardinality(todo)
  BY <1>1, <1>2, PlaceIs
<1> HIDE DEF todo
<1>4. /\ \A s \in todo : Place(s, todo) \in 1 .. c
      /\ \A s, q \in todo : Place(s, todo) = Place(q, todo) => s = q
      /\ \A i \in 1 .. c : \E s \in todo : Place(s, todo) = i
  BY <1>2, <1>3, PlaceIs
<1>5. PICK n \in Nat : n = Min({c, permits}) /\ n <= c /\ n <= permits /\ (n = c \/ n = permits)
  <2>1. \E n \in {c, permits} : \A y \in {c, permits} : n <= y
    BY <1>0
  <2>2. PICK n : n = Min({c, permits})
    OBVIOUS
  <2>3. n \in {c, permits} /\ \A y \in {c, permits} : n <= y
    BY <2>1, <2>2 DEF Min
  <2> QED BY <1>0, <2>2, <2>3
<1>6. /\ job' = [job EXCEPT ![r] = [s \in Segs |->
                   IF s \notin todo THEN NoJob
                   ELSE [NoJob EXCEPT !.pc = IF Place(s, todo) <= n THEN "granted" ELSE "queued"]]]
      /\ permits' = permits - n
      /\ waiters' = waiters \o [i \in 1 .. c - n |->
                                  <<r, CHOOSE s \in todo : Place(s, todo) = n + i>>]
  BY <1>3, <1>5 DEF Spread, todo
<1>7. ASSUME NEW s \in Segs
      PROVE  /\ job'[r][s] \in JobType /\ InRange(job'[r][s])
             /\ job'[r][s].pc = IF s \notin todo THEN "none"
                                ELSE IF Place(s, todo) <= n THEN "granted" ELSE "queued"
  <2>1. job'[r][s] = IF s \notin todo THEN NoJob
                     ELSE [NoJob EXCEPT !.pc = IF Place(s, todo) <= n THEN "granted" ELSE "queued"]
    BY <1>0, <1>6
  <2>2. PICK pc \in {"none", "granted", "queued"} :
          pc = IF s \notin todo THEN "none"
               ELSE IF Place(s, todo) <= n THEN "granted" ELSE "queued"
    OBVIOUS
  <2>3. job'[r][s] = [pc |-> pc, next |-> 0, last |-> 0, live |-> FALSE, over |-> FALSE,
                      err |-> FALSE, hand |-> "none", snap |-> <<>>]
    BY <2>1, <2>2 DEF NoJob
  <2>4. job'[r][s] \in JobType
    BY <2>3 DEF JobType, Snaps
  <2> QED BY <2>2, <2>3, <2>4 DEF InRange
<1>8. \A q \in Runs : q # r => job'[q] = job[q]
  BY <1>0, <1>6
<1>9. job' \in [Runs -> [Segs -> JobType]]
  <2>1. DOMAIN job' = Runs /\ DOMAIN job'[r] = Segs /\ job'[r] = [s \in Segs |-> job'[r][s]]
    BY <1>0, <1>6
  <2>2. job'[r] \in [Segs -> JobType]
    BY <1>7, <2>1
  <2>3. job' = [q \in Runs |-> job'[q]]
    BY <1>0, <1>6
  <2> QED BY <1>0, <1>8, <2>2, <2>3
<1>10. permits' + Cardinality(Holders)' = setup'.permits
  <2> DEFINE G == {x \in {r} \X todo : Place(x[2], todo) <= n}
  <2>1. Holders' = Holders \cup G
    <3>1. \A x \in Runs \X Segs : x \in Holders' <=> x \in Holders \/ x \in G
      <4>1. ASSUME NEW q \in Runs, NEW p \in Segs
            PROVE  <<q, p>> \in Holders' <=> <<q, p>> \in Holders \/ <<q, p>> \in G
        <5>1. CASE q = r
          BY <1>0, <1>7, <5>1 DEF Holders, Jobs
        <5>2. CASE q # r
          BY <1>0, <1>8, <5>2 DEF Holders, Jobs
        <5> QED BY <5>1, <5>2
      <4> QED BY <4>1
    <3>2. G \subseteq Runs \X Segs /\ Holders \subseteq Runs \X Segs
      BY <1>1, <1>2 DEF Holders, Jobs
    <3>3. Holders' \subseteq Runs \X Segs
      BY <1>0 DEF Holders, Jobs
    <3> QED BY <3>1, <3>2, <3>3
  <2>2. Holders \cap G = {}
    BY <1>2, <1>1 DEF Holders, Jobs
  <2>3. IsFiniteSet(G) /\ Cardinality(G) = n
    <3> DEFINE f == [i \in 1 .. n |-> <<r, CHOOSE s \in todo : Place(s, todo) = i>>]
    <3>1. ASSUME NEW i \in 1 .. n
          PROVE  f[i] \in G /\ Place(f[i][2], todo) = i
      <4>1. i \in 1 .. c /\ i <= n
        BY <1>5
      <4>2. PICK s : s = CHOOSE p \in todo : Place(p, todo) = i
        OBVIOUS
      <4>3. s \in todo /\ Place(s, todo) = i
        BY <1>4, <4>1, <4>2
      <4> QED BY <4>1, <4>2, <4>3
    <3>2. f \in Injection(1 .. n, G)
      BY <3>1 DEF Injection, IsInjective
    <3>3. \A x \in G : \E i \in 1 .. n : f[i] = x
      <4>1. TAKE x \in G
      <4>2. x[2] \in todo /\ x = <<r, x[2]>> /\ Place(x[2], todo) \in 1 .. n
        BY <1>4, <1>5
      <4>3. /\ f[Place(x[2], todo)][2] \in todo
            /\ Place(f[Place(x[2], todo)][2], todo) = Place(x[2], todo)
        BY <3>1, <4>2
      <4>4. f[Place(x[2], todo)][2] = x[2] /\ f[Place(x[2], todo)][1] = r
        BY <1>4, <4>2, <4>3
      <4>5. f[Place(x[2], todo)] = x
        BY <4>2, <4>4
      <4> QED BY <4>2, <4>5
    <3>4. f \in Bijection(1 .. n, G)
      BY <3>2, <3>3 DEF Bijection, Surjection, Injection
    <3>5. IsFiniteSet(1 .. n) /\ Cardinality(1 .. n) = n
      BY FS_Interval
    <3> QED BY <3>4, <3>5, FS_Bijection DEF ExistsBijection
  <2>4. IsFiniteSet(Holders) /\ Cardinality(Holders) \in Nat
    BY <1>0, JobsFinite DEF Holders
  <2>5. Cardinality(Holders \cup G) = Cardinality(Holders) + n
    <3>1. Cardinality(Holders \cap G) = 0
      BY <2>2, FS_EmptySet
    <3>2. Cardinality(Holders \cup G) =
            Cardinality(Holders) + Cardinality(G) - Cardinality(Holders \cap G)
      BY <2>3, <2>4, FS_Union
    <3> HIDE DEF G
    <3> QED BY <2>3, <2>4, <3>1, <3>2
  <2>6. Cardinality(Holders)' = Cardinality(Holders \cup G)
    BY <2>1
  <2> QED BY <1>0, <1>5, <1>6, <2>4, <2>5, <2>6 DEF PermitsConserved
<1>11. PICK e : e = [i \in 1 .. c - n |-> <<r, CHOOSE s \in todo : Place(s, todo) = n + i>>]
  OBVIOUS
<1>12. /\ e \in Seq(Runs \X Segs) /\ Distinct(e)
       /\ ToSet(e) = {x \in {r} \X todo : Place(x[2], todo) > n}
  <2>1. ASSUME NEW i \in 1 .. c - n
        PROVE  e[i] \in {r} \X todo /\ Place(e[i][2], todo) = n + i
    <3>1. n + i \in 1 .. c
      BY <1>5
    <3>2. PICK s : s = CHOOSE p \in todo : Place(p, todo) = n + i
      OBVIOUS
    <3>3. s \in todo /\ Place(s, todo) = n + i
      BY <1>4, <3>1, <3>2
    <3> QED BY <1>11, <3>2, <3>3
  <2>2. c - n \in Nat /\ DOMAIN e = 1 .. c - n
    BY <1>5, <1>11
  <2>3. e \in Seq(Runs \X Segs)
    <3>1. \A i \in 1 .. c - n : e[i] \in Runs \X Segs
      BY <1>1, <1>2, <2>1
    <3>2. e = [i \in 1 .. c - n |-> e[i]]
      BY <1>11
    <3> QED BY <2>2, <3>1, <3>2
  <2>4. Distinct(e)
    <3>1. \A i, j \in 1 .. c - n : e[i] = e[j] => n + i = n + j
      BY <2>1
    <3>2. \A i, j \in 1 .. c - n : n + i = n + j => i = j
      BY <1>5
    <3> QED BY <2>2, <3>1, <3>2 DEF Distinct
  <2>5. \A i \in 1 .. c - n : n + i > n
    BY <1>5
  <2>6. ASSUME NEW x \in {r} \X todo, Place(x[2], todo) > n PROVE x \in ToSet(e)
    <3>1. PICK i \in 1 .. c - n : Place(x[2], todo) = n + i
      <4>1. Place(x[2], todo) \in 1 .. c
        BY <1>4
      <4>2. Place(x[2], todo) - n \in 1 .. c - n /\ Place(x[2], todo) = n + (Place(x[2], todo) - n)
        BY <1>5, <2>6, <4>1
      <4> QED BY <4>2
    <3>2. e[i][2] = x[2] /\ e[i][1] = r /\ x[1] = r
      BY <1>4, <2>1, <3>1
    <3>3. e[i] = x
      BY <2>1, <3>2
    <3> QED BY <2>2, <3>3 DEF ToSet
  <2> QED BY <2>1, <2>2, <2>3, <2>4, <2>5, <2>6 DEF ToSet
<1>13. \A x \in ToSet(waiters) : x \notin ToSet(e)
  <2>1. \A x \in ToSet(waiters) : x[1] # r
    BY <1>0 DEF PermitsConserved, Jobs
  <2> QED BY <1>12, <2>1
<1>14. /\ waiters' \in Seq(Runs \X Segs) /\ Distinct(waiters')
       /\ ToSet(waiters') = ToSet(waiters) \cup ToSet(e)
  <2>1. waiters' = waiters \o e
    BY <1>6, <1>11
  <2> QED BY <1>0, <1>12, <1>13, <2>1, Joined
<1>15. ToSet(waiters') = Jobs({"queued"})'
  <2>1. ASSUME NEW q \in Runs, NEW p \in Segs
        PROVE  <<q, p>> \in ToSet(waiters') <=> job'[q][p].pc = "queued"
    <3>1. CASE q = r
      <4>1. <<q, p>> \notin ToSet(waiters)
        BY <1>0, <3>1 DEF PermitsConserved, Jobs
      <4>2. <<q, p>> \in ToSet(e) <=> p \in todo /\ Place(p, todo) > n
        BY <1>12, <3>1
      <4>3. p \in todo => (Place(p, todo) > n <=> ~(Place(p, todo) <= n))
        BY <1>4, <1>5
      <4> QED BY <1>7, <1>14, <3>1, <4>1, <4>2, <4>3
    <3>2. CASE q # r
      <4>1. <<q, p>> \in ToSet(waiters) <=> job[q][p].pc = "queued"
        BY <1>0 DEF PermitsConserved, Jobs
      <4> QED BY <1>8, <1>12, <1>14, <3>2, <4>1
    <3> QED BY <3>1, <3>2
  <2>2. ToSet(waiters') \subseteq Runs \X Segs
    BY <1>14 DEF ToSet
  <2>3. Jobs({"queued"})' = {x \in Runs \X Segs : job'[x[1]][x[2]].pc = "queued"}
    BY <1>0 DEF Jobs
  <2> QED BY <2>1, <2>2, <2>3
<1>16. waiters' # <<>> => permits' = 0
  <2>1. CASE c = n
    <3>1. e = <<>>
      BY <1>11, <2>1
    <3>2. waiters' = waiters
      <4>1. waiters' = waiters \o <<>>
        BY <1>6, <1>11, <3>1
      <4> QED BY <1>0, <4>1, ConcatEmptySeq
    <3>3. waiters # <<>> => permits = 0
      BY <1>0 DEF PermitsConserved
    <3>4. permits = 0 => permits' = 0
      <4>1. permits' = permits - n
        BY <1>6
      <4> QED BY <1>5, <4>1
    <3> QED BY <3>2, <3>3, <3>4
  <2>2. CASE c # n
    BY <1>5, <1>6, <2>2
  <2> QED BY <2>1, <2>2
<1>17. Pool'
  <2>1. permits' \in Nat
    BY <1>0, <1>5, <1>6
  <2>2. PermitsConserved'
    BY <1>10, <1>15, <1>16 DEF PermitsConserved
  <2> QED BY <1>0, <1>14, <2>1, <2>2 DEF Pool, Distinct
<1> QED BY <1>7, <1>8, <1>9, <1>17

\* A run that starts on its parts.
LEMMA SpreadGood ==
  ASSUME Good, setup' = setup, NEW r \in Runs, NEW written,
         \A s \in Segs : job[r][s].pc = "none", Spread(r, written),
         loop' \in [Runs -> LoopType], \A q \in Runs : q # r => loop'[q] = loop[q],
         loop'[r].pc = "work", NEW t \in Runs, loop'[r].of = t, Of(t) # NoRun,
         task'[t].state # "none", task'[t].written # <<>>, TaskHeld,
         PartsTyped', SidecarTyped', DestTyped', mishaps' \subseteq Mishaps
  PROVE  Good'
<1>1. /\ Pool' /\ job' \in [Runs -> [Segs -> JobType]]
      /\ \A q \in Runs : q # r => job'[q] = job[q]
      /\ \A s \in Segs : InRange(job'[r][s])
  BY SpreadIs
<1>2. Segs' = Segs /\ JobsInRange /\ Types
  BY SetupKept DEF Good
<1>3. Types'
  BY <1>1, <1>2, TypesNext DEF TaskHeld
<1>4. JobsInRange'
  BY <1>1, <1>2 DEF JobsInRange, InRange
<1>5. Linked'
  <2>1. \A q \in Runs : q # r => loop'[q] = loop[q] /\ job'[q] = job[q]
    BY <1>1
  <2>2. loop'[t].of # NoRun
    BY <2>1 DEF Of, NoRun, Runs
  <2>3. \A q \in Runs : loop[q].of # NoRun => loop'[q].of # NoRun
    BY <2>1 DEF NoRun, Runs
  <2> QED BY <1>2, <2>1, <2>2, <2>3 DEF Good, Linked, Of, TaskHeld
<1> QED BY <1>1, <1>3, <1>4, <1>5 DEF Good

\* A run that has not asked for its parts has no handler.
LEMMA NoHandler ==
  ASSUME Good, NEW r \in Runs, loop[r].of = NoRun \/ loop[r].pc \in {"probe", "prepare", "fresh"}
  PROVE  \A s \in Segs : job[r][s].pc = "none"
<1>1. NoRun \notin Runs
  BY DEF NoRun, Runs
<1> QED BY <1>1 DEF Good, Linked, Of

\* A task that takes over its offsets.
LEMMA OffsetsTold ==
  ASSUME Good, NEW t \in Runs, NEW written \in [Segs -> Nat],
         task' = [task EXCEPT ![t].written = written]
  PROVE  TaskHeld /\ task'[t].written # <<>> /\ task'[t].state = task[t].state
<1>1. Types /\ task[t] \in TaskType
  BY DEF Good, Types
<1>2. written # <<>>
  BY <1>1, NotEmpty DEF Types
<1>3. PICK e : e = [task[t] EXCEPT !.written = written]
  OBVIOUS
<1>4. task' = [task EXCEPT ![t] = e]
  BY <1>1, <1>3 DEF Types
<1>5. /\ e \in TaskType /\ e.state = task[t].state /\ e.sub = task[t].sub
      /\ e.completer = task[t].completer /\ e.written = written
  BY <1>1, <1>3 DEF TaskType, Snaps
<1> QED BY <1>1, <1>2, <1>4, <1>5 DEF Types, TaskHeld

LEMMA PartsAtIs ==
  ASSUME Types, setup' = setup, NEW lengths \in [Segs -> Nat], part' = PartsAt(lengths)
  PROVE  PartsTyped'
<1>1. Segs' = Segs
  BY SetupKept
<1>2. DOMAIN part' = Segs /\ \A s \in Segs : part'[s] = Resized(Bytes(s), lengths[s])
  BY DEF PartsAt
<1>3. \A s \in Segs : part'[s] \in Seq(Zero .. setup.total - 1)
  BY <1>2, ResizedIs
<1> QED BY <1>1, <1>2, <1>3 DEF PartsTyped

\* The runs that find their offsets, on disk or in their task.
LEMMA PrepareGood ==
  ASSUME Good, NEW r \in Runs, PrepareFromSidecar(r) \/ FreshWritten(r) \/ Prepared(r)
  PROVE  Good'
<1>0. /\ Types /\ setup' = setup /\ loop[r].pc \in {"prepare", "fresh"} /\ mishaps' = mishaps
      /\ dest' = dest /\ mishaps \subseteq Mishaps /\ loop[r] \in LoopType
  BY DEF Good, Types, PrepareFromSidecar, FreshWritten, Prepared, disk
<1>1. /\ Of(r) \in Runs /\ Of(Of(r)) # NoRun /\ task[Of(r)].state # "none"
      /\ loop[r].pc = "fresh" => task[Of(r)].written # <<>>
  BY <1>0 DEF Good, Linked
<1>2. \A s \in Segs : job[r][s].pc = "none"
  BY <1>0, NoHandler
<1>3. DestTyped'
  BY <1>0, DiskKept
<1>4. /\ loop' \in [Runs -> LoopType] /\ \A q \in Runs : q # r => loop'[q] = loop[q]
      /\ loop'[r].pc = "work" /\ loop'[r].of = Of(r)
  <2>1. CASE PrepareFromSidecar(r) \/ Prepared(r)
    <3>1. loop' = [loop EXCEPT ![r].pc = "work"]
      BY <2>1 DEF PrepareFromSidecar, Prepared, Goes
    <3>2. [loop[r] EXCEPT !.pc = "work"] \in LoopType
      BY <1>0 DEF LoopType
    <3> QED BY <1>0, <3>1, <3>2 DEF Types, LoopType, Of
  <2>2. CASE FreshWritten(r)
    <3>1. loop' = [loop EXCEPT ![r].pc = "work", ![r].snap = <<>>]
      BY <2>2 DEF FreshWritten
    <3>2. [loop[r] EXCEPT !.pc = "work", !.snap = <<>>] \in LoopType
      BY <1>0 DEF LoopType, Snaps
    <3> QED BY <1>0, <3>1, <3>2 DEF Types, LoopType, Of
  <2> QED BY <2>1, <2>2
<1>5. CASE PrepareFromSidecar(r)
  <2>1. PICK written \in Readable : TakeOver(r, written) /\ Spread(r, written)
    BY <1>5 DEF PrepareFromSidecar
  <2>2. written \in [Segs -> Nat]
    <3>1. written \in Snaps /\ written # <<>>
      BY <1>0, <2>1 DEF Types, SidecarTyped, Readable, Corrupt
    <3> QED BY <3>1 DEF Snaps
  <2>3. part' = PartsAt(written) /\ task' = [task EXCEPT ![Of(r)].written = written]
    BY <2>1 DEF TakeOver
  <2>4. TaskHeld /\ task'[Of(r)].written # <<>> /\ task'[Of(r)].state # "none"
    BY <1>1, <2>2, <2>3, OffsetsTold
  <2>5. PartsTyped' /\ SidecarTyped'
    BY <1>0, <1>5, <2>2, <2>3, PartsAtIs, DiskKept DEF PrepareFromSidecar
  <2> QED BY <1>0, <1>1, <1>2, <1>3, <1>4, <2>1, <2>4, <2>5, SpreadGood
<1>6. CASE FreshWritten(r)
  <2>1. task' = task /\ part' = part /\ Lands(loop[r].snap, OthersWrite(<<r>>))
        /\ Spread(r, task[Of(r)].written) /\ loop[r].pc = "fresh"
    BY <1>6 DEF FreshWritten
  <2>2. PartsTyped' /\ SidecarTyped'
    <3>1. loop[r].snap \in Snaps
      BY <1>0 DEF LoopType
    <3> QED BY <1>0, <2>1, <3>1, LandsIs, DiskKept
  <2>3. TaskHeld
    BY <1>0, <2>1, TaskHeldSame
  <2> QED BY <1>0, <1>1, <1>2, <1>3, <1>4, <2>1, <2>2, <2>3, SpreadGood
<1>7. CASE Prepared(r)
  <2>1. /\ task' = task /\ part' = part /\ sidecar' = sidecar
        /\ Spread(r, task[Of(r)].written) /\ task[Of(r)].written # <<>>
    BY <1>7 DEF Prepared, disk
  <2>2. PartsTyped' /\ SidecarTyped'
    BY <1>0, <2>1, DiskKept
  <2>3. TaskHeld
    BY <1>0, <2>1, TaskHeldSame
  <2> QED BY <1>0, <1>1, <1>2, <1>3, <1>4, <2>1, <2>2, <2>3, SpreadGood
<1> QED BY <1>5, <1>6, <1>7

\* The calls of _runLoop are bounded by MaxRuns.
LEMMA SetupBounds ==
  ASSUME setup \in Setups
  PROVE  1 .. setup.runs \subseteq Runs
BY DownloadAssumption DEF Runs

\* A call of _runLoop begins.
LoopStarts(r, t, pc) ==
  /\ loop' \in [Runs -> LoopType]
  /\ \A q \in Runs : q # r => loop'[q] = loop[q]
  /\ loop'[r].pc = pc /\ loop'[r].of = t

LEMMA StartsIs ==
  ASSUME Types, NEW r \in Runs, NEW t \in Runs, NEW pc \in {"probe", "work"},
         loop' = [loop EXCEPT ![r] = [NoLoop EXCEPT !.of = t, !.pc = pc]]
  PROVE  LoopStarts(r, t, pc)
<1>1. NoLoop \in LoopType
  BY DEF NoLoop, LoopType, Snaps
<1>2. PICK l : l = [NoLoop EXCEPT !.of = t, !.pc = pc]
  OBVIOUS
<1>3. l \in LoopType /\ l.pc = pc /\ l.of = t
  BY <1>1, <1>2 DEF LoopType
<1> QED BY <1>2, <1>3 DEF Types, LoopStarts

\* ... of a task that does not know its offsets.
LEMMA ProbeGood ==
  ASSUME Good, setup' = setup, NEW r \in Runs, NEW t \in Runs, LoopStarts(r, t, "probe"),
         loop[r].of = NoRun, Of(t) # NoRun, task'[t].state # "none", TaskHeld,
         UNCHANGED <<job, permits, waiters>>,
         PartsTyped', SidecarTyped', DestTyped', mishaps' \subseteq Mishaps
  PROVE  Good'
<1>1. Segs' = Segs /\ Types
  BY SetupKept DEF Good
<1>2. Types'
  BY <1>1, TypesNext DEF TaskHeld, LoopStarts, Types
<1>3. JobsInRange' /\ Pool'
  BY JobsKept, PoolKept DEF Good
<1>4. Linked'
  <2>1. \A s \in Segs : job[r][s].pc = "none"
    BY NoHandler
  <2>2. loop'[t].of # NoRun
    BY DEF Of, NoRun, Runs, LoopStarts
  <2>3. \A q \in Runs : loop[q].of # NoRun => loop'[q].of # NoRun
    BY DEF NoRun, Runs, LoopStarts
  <2> QED BY <1>1, <2>1, <2>2, <2>3 DEF Good, Linked, Of, TaskHeld, LoopStarts
<1> QED BY <1>2, <1>3, <1>4 DEF Good

\* Without handlers the pool is full.
LEMMA PoolFresh ==
  ASSUME Types, setup' = setup, \A r \in Runs, s \in Segs : job'[r][s] = NoJob,
         permits' = setup.permits, waiters' = <<>>
  PROVE  Pool'
<1>1. Segs' = Segs /\ setup.permits \in Nat \ {0}
  BY SetupKept, SegsAre DEF Types
<1>2. Holders' = {} /\ Jobs({"queued"})' = {}
  BY <1>1 DEF Holders, Jobs, NoJob
<1>3. ToSet(waiters') = {} /\ waiters' \in Seq(Runs \X Segs) /\ Distinct(waiters')
  BY DEF ToSet, Distinct
<1>4. Cardinality(Holders)' = 0
  BY <1>2, FS_EmptySet
<1>5. permits' + Cardinality(Holders)' = setup'.permits /\ permits' \in Nat
  BY <1>1, <1>4
<1> QED BY <1>2, <1>3, <1>5 DEF Pool, PermitsConserved, Distinct

\* Another run of a task that was stopped, or has failed.
LEMMA ResumeGood ==
  ASSUME Good, NEW t \in Runs, Resume(t)
  PROVE  Good'
<1>0. /\ Types /\ JobsInRange /\ Linked /\ task[t].state \in {"paused", "failed"}
      /\ setup' = setup /\ UNCHANGED <<part, sidecar, dest>> /\ task[t] \in TaskType
      /\ Of(t) # NoRun /\ task[t].sub # <<>> /\ task[t].completer # <<>>
  BY DEF Good, Resume, disk, Types, Linked
<1>1. PICK r \in Free :
        /\ mishaps' = mishaps \cup (IF Quiet(t) /\ ~Superseded(t) THEN {} ELSE {"overlap"})
                              \cup (IF task[t].state = "failed" THEN {"revived"} ELSE {})
        /\ task' = [task EXCEPT ![t].state = "running", ![t].stop = FALSE, ![t].cancel = FALSE,
                                ![t].current = r]
        /\ IF task[t].written = <<>>
             THEN /\ loop' = [loop EXCEPT ![r] = [NoLoop EXCEPT !.of = t, !.pc = "probe"]]
                  /\ UNCHANGED <<job, pool>>
             ELSE /\ loop' = [loop EXCEPT ![r] = [NoLoop EXCEPT !.of = t, !.pc = "work"]]
                  /\ Spread(r, task[t].written)
  BY DEF Resume
<1>2. r \in Runs /\ loop[r].of = NoRun
  BY <1>0, <1>1, SetupBounds DEF Free, Used, Runs, Types
<1>3. mishaps' \subseteq Mishaps
  BY <1>0, <1>1 DEF Types, Mishaps
<1>4. PartsTyped' /\ SidecarTyped' /\ DestTyped'
  BY <1>0, DiskKept
<1>5. TaskHeld /\ task'[t].state = "running" /\ task'[t].written = task[t].written
  <2>1. PICK e : e = [task[t] EXCEPT !.state = "running", !.stop = FALSE, !.cancel = FALSE,
                                     !.current = r]
    OBVIOUS
  <2>2. task' = [task EXCEPT ![t] = e]
    BY <1>0, <1>1, <2>1 DEF Types
  <2>3. /\ e \in TaskType /\ e.state = "running" /\ e.sub = task[t].sub
        /\ e.completer = task[t].completer /\ e.written = task[t].written
    BY <1>0, <1>2, <2>1 DEF TaskType
  <2> QED BY <1>0, <2>2, <2>3 DEF Types, TaskHeld
<1>6. \A s \in Segs : job[r][s].pc = "none"
  BY <1>2, NoHandler
<1>7. CASE task[t].written = <<>>
  <2>1. /\ loop' = [loop EXCEPT ![r] = [NoLoop EXCEPT !.of = t, !.pc = "probe"]]
        /\ UNCHANGED <<job, permits, waiters>>
    BY <1>1, <1>7 DEF pool
  <2>2. LoopStarts(r, t, "probe")
    BY <1>0, <1>2, <2>1, StartsIs DEF Types
  <2> QED BY <1>0, <1>2, <1>3, <1>4, <1>5, <1>6, <2>1, <2>2, ProbeGood
<1>8. CASE task[t].written # <<>>
  <2>1. /\ loop' = [loop EXCEPT ![r] = [NoLoop EXCEPT !.of = t, !.pc = "work"]]
        /\ Spread(r, task[t].written)
    BY <1>1, <1>8
  <2>2. LoopStarts(r, t, "work")
    BY <1>0, <1>2, <2>1, StartsIs DEF Types
  <2> QED BY <1>0, <1>2, <1>3, <1>4, <1>5, <1>6, <1>8, <2>1, <2>2, SpreadGood DEF LoopStarts
<1> QED BY <1>7, <1>8

\* A new task, whose run has not begun.
LEMMA EnqueueGood ==
  ASSUME Good, Enqueue
  PROVE  Good'
<1>0. /\ Types /\ JobsInRange /\ Linked
      /\ setup' = setup /\ UNCHANGED <<part, sidecar, dest, job, permits, waiters>>
  BY DEF Good, Enqueue, disk, pool
<1>1. PICK none : none = [s \in Segs |-> NoRun]
  OBVIOUS
<1>2. PICK r \in Free :
        /\ Noted("overlap", ~(\A t \in Runs : Quiet(t)))
        /\ task' = [task EXCEPT ![r] =
             [NoTask EXCEPT !.state = "running", !.current = r, !.sub = none, !.completer = none]]
        /\ loop' = [loop EXCEPT ![r] = [NoLoop EXCEPT !.of = r, !.pc = "probe"]]
  BY <1>1 DEF Enqueue
<1>3. r \in Runs /\ loop[r].of = NoRun
  BY <1>0, <1>2, SetupBounds DEF Free, Used, Runs, Types
<1>4. mishaps' \subseteq Mishaps
  BY <1>0, <1>2 DEF Types, Mishaps, Noted
<1>5. PartsTyped' /\ SidecarTyped' /\ DestTyped'
  BY <1>0, DiskKept
<1>6. none \in Owners /\ none # <<>>
  BY <1>0, <1>1, NotEmpty DEF Types, Owners
<1>7. \A s \in Segs : job[r][s].pc = "none"
  BY <1>3, NoHandler
<1>8. /\ task' \in [Runs -> TaskType] /\ \A t \in Runs : t # r => task'[t] = task[t]
      /\ task'[r].state = "running" /\ task'[r].sub # <<>> /\ task'[r].completer # <<>>
  <2>1. PICK e : e = [NoTask EXCEPT !.state = "running", !.current = r, !.sub = none,
                                    !.completer = none]
    OBVIOUS
  <2>2. task' = [task EXCEPT ![r] = e]
    BY <1>2, <2>1
  <2>3. NoTask \in TaskType
    BY DEF NoTask, TaskType, Snaps, Owners
  <2>4. /\ e \in TaskType /\ e.state = "running" /\ e.sub = none /\ e.completer = none
    BY <1>3, <1>6, <2>1, <2>3 DEF TaskType
  <2> QED BY <1>0, <1>3, <1>6, <2>2, <2>4 DEF Types
<1>9. LoopStarts(r, r, "probe")
  BY <1>0, <1>2, <1>3, StartsIs DEF Types
<1>10. Types'
  BY <1>0, <1>4, <1>5, <1>8, <1>9, TypesNext DEF Types, LoopStarts
<1>11. JobsInRange' /\ Pool' /\ Segs' = Segs
  BY <1>0, JobsKept, PoolKept, SetupKept DEF Good
<1>12. Linked'
  <2>1. \A q \in Runs : Of(q) # r
    BY <1>0, <1>3 DEF Linked, Of
  <2>2. /\ \A q \in Runs : q # r => loop'[q] = loop[q]
        /\ loop'[r].of = r /\ loop'[r].pc = "probe" /\ r # NoRun
    BY <1>3, <1>9 DEF LoopStarts, Runs, NoRun
  <2>3. \A q \in Runs : loop[q].of # NoRun => loop'[q].of # NoRun
    BY <2>2
  <2> QED BY <1>0, <1>7, <1>8, <1>11, <2>1, <2>2, <2>3 DEF Linked, Of
<1> QED BY <1>10, <1>11, <1>12 DEF Good

\* Nothing is left of a process but what is on disk.
LEMMA CrashGood ==
  ASSUME Good, Crash
  PROVE  Good'
<1>0. /\ Types /\ Linked /\ setup' = setup /\ UNCHANGED <<part, sidecar, dest>>
      /\ task' = [t \in Runs |-> NoTask]
      /\ loop' = [r \in Runs |-> [NoLoop EXCEPT !.of = loop[r].of]]
      /\ job' = [r \in Runs |-> [s \in Segs |-> NoJob]]
      /\ permits' = setup.permits /\ waiters' = <<>>
      /\ setup.permits \in Nat \ {0} /\ Segs' = Segs
  BY SegsAre, SetupKept DEF Good, Types, Crash, disk
<1>1. mishaps' \subseteq Mishaps
  BY <1>0 DEF Types, Mishaps, Noted, Crash
<1>2. NoTask \in TaskType /\ NoJob \in JobType /\ InRange(NoJob)
  BY DEF NoTask, TaskType, NoJob, JobType, InRange, Snaps, Owners
<1>3. \A r \in Runs : [NoLoop EXCEPT !.of = loop[r].of] \in LoopType
  BY <1>0 DEF NoLoop, LoopType, Snaps, Types
<1>4. Types'
  BY <1>0, <1>1, <1>2, <1>3, TypesNext, DiskKept
<1>5. \A r \in Runs, s \in Segs : job'[r][s] = NoJob
  BY <1>0
<1>6. JobsInRange'
  BY <1>0, <1>2, <1>5 DEF JobsInRange, InRange
<1>7. Linked'
  <2>1. \A r \in Runs : task'[r].state = "none" /\ loop'[r].pc = "off" /\ loop'[r].of = loop[r].of
    BY <1>0 DEF NoTask, NoLoop
  <2>2. \A r \in Runs, s \in Segs : job'[r][s].pc = "none"
    BY <1>5 DEF NoJob
  <2> QED BY <1>0, <2>1, <2>2 DEF Linked, Of
<1>8. Pool'
  BY <1>0, <1>5, PoolFresh
<1> QED BY <1>4, <1>6, <1>7, <1>8 DEF Good

\* At first, nothing is there.
LEMMA InitGood ==
  ASSUME Init
  PROVE  Good
<1>0. /\ setup \in Setups /\ part = <<>> /\ sidecar = {} /\ dest = {}
      /\ task = [t \in Runs |-> NoTask] /\ loop = [r \in Runs |-> NoLoop]
      /\ job = [r \in Runs |-> [s \in Segs |-> NoJob]]
      /\ permits = setup.permits /\ waiters = <<>> /\ mishaps = {}
  BY DEF Init
<1>1. /\ NoTask \in TaskType /\ NoJob \in JobType /\ InRange(NoJob) /\ NoLoop \in LoopType
  BY DEF NoTask, TaskType, NoJob, JobType, InRange, Snaps, Owners, NoLoop, LoopType
<1>2. Types
  BY <1>0, <1>1 DEF Types, PartsTyped, SidecarTyped, DestTyped
<1>3. JobsInRange
  BY <1>0, <1>1 DEF JobsInRange
<1>4. Linked
  BY <1>0 DEF Linked, NoTask, NoLoop, NoJob, Of, NoRun, Runs
<1>5. Holders = {} /\ Jobs({"queued"}) = {}
  BY <1>0 DEF Holders, Jobs, NoJob
<1>6. Pool
  <2>1. setup.permits \in Nat \ {0}
    BY <1>0, SegsAre
  <2>2. ToSet(waiters) = {} /\ waiters \in Seq(Runs \X Segs) /\ Distinct(waiters)
    BY <1>0 DEF ToSet, Distinct
  <2>3. Cardinality(Holders) = 0
    BY <1>5, FS_EmptySet
  <2>4. permits + Cardinality(Holders) = setup.permits /\ permits \in Nat
    BY <1>0, <2>1, <2>3
  <2> QED BY <1>0, <1>5, <2>2, <2>4 DEF Pool, PermitsConserved
<1> QED BY <1>2, <1>3, <1>4, <1>6 DEF Good

\* A queue without its head.
LEMMA Served ==
  ASSUME NEW S, NEW q \in Seq(S), q # <<>>, Distinct(q)
  PROVE  /\ Head(q) \in S /\ Head(q) \in ToSet(q)
         /\ Tail(q) \in Seq(S) /\ Distinct(Tail(q)) /\ ToSet(Tail(q)) = ToSet(q) \ {Head(q)}
<1>1. PICK n \in Nat : n = Len(q) /\ DOMAIN q = 1 .. n /\ n # 0
  BY LenProperties, EmptySeq
<1>2. PICK w : w = Tail(q)
  OBVIOUS
<1>3. /\ w \in Seq(S) /\ DOMAIN w = 1 .. n - 1 /\ Head(q) = q[1] /\ Head(q) \in S
      /\ \A i \in 1 .. n - 1 : w[i] = q[i + 1]
  BY <1>1, <1>2, HeadTailProperties, LenProperties
<1>4. 1 \in 1 .. n /\ \A i \in 1 .. n - 1 : i + 1 \in 1 .. n /\ i + 1 # 1
  BY <1>1
<1>5. Distinct(w)
  <2>1. \A i, j \in 1 .. n - 1 : w[i] = w[j] => i + 1 = j + 1
    BY <1>1, <1>3, <1>4 DEF Distinct
  <2> QED BY <1>3, <2>1 DEF Distinct
<1>6. ToSet(w) = ToSet(q) \ {q[1]}
  <2>1. ASSUME NEW i \in 1 .. n - 1 PROVE w[i] \in ToSet(q) /\ w[i] # q[1]
    BY <1>1, <1>3, <1>4 DEF Distinct, ToSet
  <2>2. ASSUME NEW i \in 1 .. n, q[i] # q[1] PROVE q[i] \in ToSet(w)
    <3>1. i - 1 \in 1 .. n - 1 /\ (i - 1) + 1 = i
      BY <1>1, <2>2
    <3> QED BY <1>3, <3>1 DEF ToSet
  <2>3. ToSet(w) \subseteq ToSet(q) \ {q[1]}
    BY <1>3, <2>1 DEF ToSet
  <2>4. ToSet(q) \ {q[1]} \subseteq ToSet(w)
    <3>1. \A x \in ToSet(q) : \E i \in 1 .. n : x = q[i]
      BY <1>1 DEF ToSet
    <3> QED BY <2>2, <3>1
  <2> QED BY <2>3, <2>4
<1>7. q[1] \in ToSet(q)
  BY <1>1, <1>4 DEF ToSet
<1> QED BY <1>2, <1>3, <1>5, <1>6, <1>7

\* A handler gives its permit back: to the first that waits, or to the pool.
LEMMA ReleaseIs ==
  ASSUME Good, setup' = setup, NEW r \in Runs, NEW s \in Segs, NEW j \in JobType,
         job[r][s].pc \in Holding, j.pc \in Over, InRange(j),
         Release([job EXCEPT ![r][s] = j])
  PROVE  /\ Pool' /\ job' \in [Runs -> [Segs -> JobType]]
         /\ \A q \in Runs, p \in Segs : InRange(job'[q][p])
         /\ \A q \in Runs, p \in Segs : job'[q][p].pc # "none" => job[q][p].pc # "none"
<1>0. /\ setup \in Setups /\ job \in [Runs -> [Segs -> JobType]] /\ Segs' = Segs
      /\ permits \in Nat /\ waiters \in Seq(Runs \X Segs) /\ Distinct(waiters)
      /\ PermitsConserved /\ JobsInRange
  BY SetupKept DEF Good, Types, Pool
<1>1. PICK jobs : jobs = [job EXCEPT ![r][s] = j]
  OBVIOUS
<1>2. /\ jobs \in [Runs -> [Segs -> JobType]] /\ jobs[r][s] = j
      /\ \A q \in Runs, p \in Segs : <<q, p>> # <<r, s>> => jobs[q][p] = job[q][p]
  BY <1>0, <1>1
<1>3. /\ IsFiniteSet(Holders) /\ Cardinality(Holders) \in Nat /\ <<r, s>> \in Holders
      /\ Holders \subseteq Runs \X Segs
  BY <1>0, JobsFinite DEF Holders, Jobs, Holding
<1>4. PICK rest : rest = Holders \ {<<r, s>>}
  OBVIOUS
<1>5. IsFiniteSet(rest) /\ Cardinality(rest) = Cardinality(Holders) - 1
  BY <1>3, <1>4, FS_RemoveElement
<1>6. permits + Cardinality(Holders) = setup.permits
  BY <1>0 DEF PermitsConserved
<1>7. CASE waiters = <<>>
  <2>1. permits' = permits + 1 /\ job' = jobs /\ waiters' = waiters
    BY <1>1, <1>7 DEF Release
  <2>2. Holders' = rest
    <3>1. ASSUME NEW q \in Runs, NEW p \in Segs
          PROVE  <<q, p>> \in Holders' <=> <<q, p>> \in rest
      BY <1>0, <1>2, <1>4, <2>1 DEF Holders, Jobs, Over
    <3>2. Holders' \subseteq Runs \X Segs
      BY <1>0 DEF Holders, Jobs
    <3> QED BY <1>3, <1>4, <3>1, <3>2
  <2>3. Jobs({"queued"})' = Jobs({"queued"})
    BY <1>0, <1>2, <2>1 DEF Jobs, Holding, Over
  <2>4. permits' + Cardinality(Holders)' = setup'.permits /\ permits' \in Nat
    BY <1>0, <1>3, <1>5, <1>6, <2>1, <2>2
  <2>5. Pool'
    BY <1>0, <1>7, <2>1, <2>3, <2>4 DEF Pool, PermitsConserved, Distinct
  <2> QED BY <1>0, <1>2, <2>1, <2>5 DEF JobsInRange, Holding
<1>8. CASE waiters # <<>>
  <2>1. PICK q \in Runs, p \in Segs : Head(waiters) = <<q, p>>
    BY <1>0, <1>8, Served
  <2>2. <<q, p>> \in ToSet(waiters) /\ job[q][p].pc = "queued" /\ <<q, p>> # <<r, s>>
    <3>1. <<q, p>> \in Jobs({"queued"})
      BY <1>0, <1>8, <2>1, Served DEF PermitsConserved
    <3> QED BY <1>0, <3>1 DEF PermitsConserved, Jobs, Holding
  <2>3. /\ job' = [jobs EXCEPT ![q][p].pc = "granted"]
        /\ waiters' = Tail(waiters) /\ permits' = permits
    BY <1>1, <1>8, <2>1 DEF Release
  <2>4. PICK g : g = [job[q][p] EXCEPT !.pc = "granted"]
    OBVIOUS
  <2>5. g \in JobType /\ g.pc = "granted" /\ InRange(g)
    <3>1. job[q][p] \in JobType /\ InRange(job[q][p])
      BY <1>0 DEF JobsInRange
    <3>2. g \in JobType /\ g.pc = "granted" /\ g.hand = job[q][p].hand
      BY <2>4, <3>1 DEF JobType
    <3> QED BY <2>2, <3>1, <3>2 DEF InRange
  <2>6. /\ job' \in [Runs -> [Segs -> JobType]] /\ job'[r][s] = j /\ job'[q][p] = g
        /\ \A a \in Runs, b \in Segs :
             <<a, b>> # <<r, s>> /\ <<a, b>> # <<q, p>> => job'[a][b] = job[a][b]
    <3>1. jobs[q][p] = job[q][p]
      BY <1>2, <2>2
    <3>2. job' = [jobs EXCEPT ![q][p] = g]
      BY <1>2, <2>3, <2>4, <3>1
    <3> QED BY <1>2, <2>2, <2>5, <3>2
  <2>7. Holders' = rest \cup {<<q, p>>}
    <3>1. ASSUME NEW a \in Runs, NEW b \in Segs
          PROVE  <<a, b>> \in Holders' <=> <<a, b>> \in rest \/ <<a, b>> = <<q, p>>
      BY <1>0, <1>4, <2>2, <2>5, <2>6 DEF Holders, Jobs, Over
    <3>2. Holders' \subseteq Runs \X Segs
      BY <1>0 DEF Holders, Jobs
    <3> QED BY <1>3, <1>4, <3>1, <3>2
  <2>8. Cardinality(Holders)' = Cardinality(Holders)
    <3>1. <<q, p>> \notin rest
      BY <1>4, <2>2 DEF Holders, Jobs
    <3>2. Cardinality(rest \cup {<<q, p>>}) = Cardinality(rest) + 1
      BY <1>5, <3>1, FS_AddElement
    <3>3. Cardinality(Holders)' = Cardinality(rest \cup {<<q, p>>})
      BY <2>7
    <3> QED BY <1>3, <1>5, <3>2, <3>3
  <2>9. ToSet(waiters') = Jobs({"queued"})'
    <3>1. ToSet(waiters') = ToSet(waiters) \ {<<q, p>>}
      BY <1>0, <1>8, <2>1, <2>3, Served
    <3>2. ASSUME NEW a \in Runs, NEW b \in Segs
          PROVE  <<a, b>> \in Jobs({"queued"})' <=> <<a, b>> \in ToSet(waiters')
      <4>1. <<a, b>> \in ToSet(waiters) <=> job[a][b].pc = "queued"
        BY <1>0 DEF PermitsConserved, Jobs
      <4>2. <<a, b>> \in Jobs({"queued"})' <=> job'[a][b].pc = "queued"
        BY <1>0 DEF Jobs
      <4>3. CASE <<a, b>> = <<r, s>>
        BY <2>2, <2>6, <3>1, <4>1, <4>2, <4>3 DEF Over, Holding
      <4>4. CASE <<a, b>> = <<q, p>>
        BY <2>5, <2>6, <3>1, <4>2, <4>4
      <4>5. CASE <<a, b>> # <<r, s>> /\ <<a, b>> # <<q, p>>
        BY <2>6, <3>1, <4>1, <4>2, <4>5
      <4> QED BY <4>3, <4>4, <4>5
    <3>3. /\ Jobs({"queued"})' \subseteq Runs \X Segs
          /\ ToSet(waiters) \subseteq Runs \X Segs
      BY <1>0 DEF Jobs, PermitsConserved
    <3> QED BY <3>1, <3>2, <3>3
  <2>10. /\ waiters' \in Seq(Runs \X Segs) /\ Distinct(waiters')
    BY <1>0, <1>8, <2>3, Served
  <2>11. permits' = 0 /\ permits' + Cardinality(Holders)' = setup'.permits
    BY <1>0, <1>6, <1>8, <2>3, <2>8 DEF PermitsConserved
  <2>12. Pool'
    BY <1>0, <2>9, <2>10, <2>11 DEF Pool, PermitsConserved, Distinct
  <2>13. \A a \in Runs, b \in Segs : InRange(job'[a][b])
    BY <1>0, <2>5, <2>6 DEF JobsInRange
  <2>14. \A a \in Runs, b \in Segs : job'[a][b].pc # "none" => job[a][b].pc # "none"
    BY <2>2, <2>6 DEF Holding
  <2> QED BY <2>6, <2>12, <2>13, <2>14
<1> QED BY <1>7, <1>8

\* A handler is through.
LEMMA LeaveGood ==
  ASSUME Good, NEW r \in Runs, NEW s \in Segs, Leave(r, s)
  PROVE  Good'
<1>0. /\ Types /\ job[r][s].pc \in Holding /\ setup' = setup
      /\ UNCHANGED <<part, sidecar, dest, loop>> /\ mishaps' = mishaps
      /\ job[r][s] \in JobType /\ InRange(job[r][s])
  <2>1. Types /\ JobsInRange
    BY DEF Good
  <2>2. job[r][s] \in JobType /\ InRange(job[r][s])
    BY <2>1 DEF Types, JobsInRange
  <2> QED BY <2>1, <2>2 DEF Leave, disk, Holding
<1>1. /\ Of(r) \in Runs /\ task[Of(r)] \in TaskType
      /\ task[Of(r)].sub \in [Segs -> Runs \cup {NoRun}]
      /\ task[Of(r)].completer \in [Segs -> Runs \cup {NoRun}]
  BY <1>0, JobOf DEF Holding
<1>2. PICK pc \in Over : pc = IF job[r][s].err THEN "threw" ELSE "done"
  BY DEF Over
<1>3. PICK next \in Nat : next = IF job[r][s].hand = "write" THEN job[r][s].next ELSE 0
  BY <1>0 DEF JobType
<1>4. PICK j : j = [NoJob EXCEPT !.pc = pc, !.hand = job[r][s].hand, !.snap = job[r][s].snap,
                                 !.next = next]
  OBVIOUS
<1>5. Release([job EXCEPT ![r][s] = j])
  BY <1>2, <1>3, <1>4 DEF Leave
<1>6. j \in JobType /\ j.pc \in Over /\ InRange(j)
  <2>1. NoJob \in JobType
    BY DEF NoJob, JobType, Snaps
  <2>2. /\ j \in JobType /\ j.pc = pc /\ j.hand = job[r][s].hand /\ j.next = next
    BY <1>0, <1>2, <1>3, <1>4, <2>1 DEF JobType, Over
  <2> QED BY <1>0, <1>2, <1>3, <2>2 DEF InRange, Over
<1>7. /\ Pool' /\ job' \in [Runs -> [Segs -> JobType]]
      /\ \A q \in Runs, p \in Segs : InRange(job'[q][p])
      /\ \A q \in Runs, p \in Segs : job'[q][p].pc # "none" => job[q][p].pc # "none"
  BY <1>0, <1>5, <1>6, ReleaseIs
<1>8. TaskHeld
  <2>1. PICK b : b = [task[Of(r)].sub EXCEPT ![s] = NoRun]
    OBVIOUS
  <2>2. PICK c : c = [task[Of(r)].completer EXCEPT ![s] = IF @ = r THEN NoRun ELSE @]
    OBVIOUS
  <2>3. b \in [Segs -> Runs \cup {NoRun}] /\ c \in [Segs -> Runs \cup {NoRun}]
    BY <1>1, <2>1, <2>2
  <2>4. b # <<>> /\ c # <<>>
    BY <1>0, <2>3, NotEmpty DEF Types
  <2>5. PICK e : e = [task[Of(r)] EXCEPT !.sub = b, !.completer = c]
    OBVIOUS
  <2>6. task' = [task EXCEPT ![Of(r)] = e]
    BY <1>0, <1>1, <2>1, <2>2, <2>5 DEF Leave, Types, TaskType
  <2>7. /\ e \in TaskType /\ e.state = task[Of(r)].state /\ e.sub = b
        /\ e.completer = c /\ e.written = task[Of(r)].written
    BY <1>1, <2>3, <2>5 DEF TaskType, Owners
  <2> QED BY <1>0, <1>1, <2>4, <2>6, <2>7 DEF Types, TaskHeld
<1>9. Segs' = Segs
  BY <1>0, SetupKept
<1>10. Types'
  BY <1>0, <1>7, <1>8, TypesNext, DiskKept DEF Types, TaskHeld
<1>11. JobsInRange'
  BY <1>0, <1>7, <1>9 DEF JobsInRange, InRange
<1>12. Linked'
  BY <1>0, <1>7, <1>8, <1>9 DEF Good, Linked, Of, TaskHeld
<1> QED BY <1>7, <1>10, <1>11, <1>12 DEF Good

\* Nothing happens.
LEMMA StutterGood ==
  ASSUME Good, UNCHANGED vars
  PROVE  Good'
<1>1. /\ setup' = setup /\ UNCHANGED <<part, sidecar, dest, task, loop, job, permits, waiters>>
      /\ mishaps' = mishaps /\ Types
  BY DEF vars, Good
<1>2. TaskHeld /\ PartsTyped' /\ SidecarTyped' /\ DestTyped'
  BY <1>1, TaskHeldSame, DiskKept
<1>3. Types'
  BY <1>1, <1>2, TypesNext DEF Types
<1>4. JobsInRange' /\ Pool' /\ Segs' = Segs
  BY <1>1, JobsKept, PoolKept, SetupKept DEF Good
<1>5. Linked'
  BY <1>1, <1>4 DEF Good, Linked, Of
<1> QED BY <1>3, <1>4, <1>5 DEF Good

\* Every step.
LEMMA NextGood ==
  ASSUME Good, [Next]_vars
  PROVE  Good'
<1>1. CASE Enqueue
  BY <1>1, EnqueueGood
<1>2. ASSUME NEW t \in Runs, Resume(t) \/ Pause(t) \/ Cancel(t) PROVE Good'
  BY <1>2, ResumeGood, PauseGood, CancelGood
<1>3. ASSUME NEW r \in Runs, LoopStep(r) PROVE Good'
  BY <1>3, LoopGood, PrepareFreshGood, PrepareGood DEF LoopStep
<1>4. ASSUME NEW r \in Runs, FinishCancel(r) PROVE Good'
  BY <1>4, FinishCancelGood
<1>5. ASSUME NEW r \in Runs, NEW s \in Segs, SegmentStep(r, s) PROVE Good'
  BY <1>5, GrantedGood, GetGood, StreamGood, WroteGood, CommitGood, LeaveGood DEF SegmentStep
<1>6. ASSUME NEW r \in Runs, NEW s \in Segs, Arrives(r, s) PROVE Good'
  BY <1>6, StreamGood DEF Arrives
<1>7. CASE Crash
  BY <1>7, CrashGood
<1>8. CASE UNCHANGED vars
  BY <1>8, StutterGood
<1> QED BY <1>1, <1>2, <1>3, <1>4, <1>5, <1>6, <1>7, <1>8 DEF Next, App

LEMMA AlwaysGood == Spec => []Good
<1>1. Init => Good
  BY InitGood
<1>2. Good /\ [Next]_vars => Good'
  BY NextGood
<1> QED BY <1>1, <1>2, PTL DEF Spec

\* The part files hold bytes of the resource or zeros, the sidecar and the file
\* are one or none, and the pool never holds more than _maxConnections
\* (download_task.dart, hf_download_manager.dart:70-112).
THEOREM TypeCorrect == Spec => []TypeOK
<1>1. Good => TypeOK
  <2>1. SUFFICES ASSUME Good PROVE TypeOK
    OBVIOUS
  <2>2. Types /\ Pool
    BY <2>1 DEF Good
  <2>3. Cardinality(sidecar) <= 1 /\ Cardinality(dest) <= 1
    <3>1. \A x : Cardinality({x}) = 1
      BY FS_Singleton
    <3>2. Cardinality({}) = 0
      BY FS_EmptySet
    <3>3. Cardinality(sidecar) = 0 \/ Cardinality(sidecar) = 1
      BY <2>2, <3>1, <3>2 DEF Types, SidecarTyped
    <3>4. Cardinality(dest) = 0 \/ Cardinality(dest) = 1
      BY <2>2, <3>1, <3>2 DEF Types, DestTyped
    <3> QED BY <3>3, <3>4
  <2>4. permits \in 0 .. setup.permits
    <3>1. setup.permits \in Nat
      BY <2>2, SegsAre DEF Types
    <3>2. Cardinality(Holders) \in Nat
      BY <2>2, JobsFinite DEF Types, Holders
    <3> QED BY <2>2, <3>1, <3>2 DEF Pool, PermitsConserved
  <2>5. \A t \in Runs : /\ task[t].state \in {"none", "running", "paused", "completed",
                                            "failed", "canceled"}
                        /\ task[t].done \in {"open", "ok", "error"}
                        /\ task[t].current \in Runs \cup {NoRun}
    BY <2>2 DEF Types, TaskType
  <2>6. \A r \in Runs, s \in Segs : job[r][s].hand \in {"none", "write", "commit"}
    BY <2>2 DEF Types, JobType
  <2> QED BY <2>2, <2>3, <2>4, <2>5, <2>6 DEF TypeOK, Types, PartsTyped, Mishaps
<1> QED BY <1>1, AlwaysGood, PTL

\* A permit is with one connection or in the pool, never twice and never lost,
\* and nobody waits while the pool has one, for every number of tasks, segments
\* and permits and every fault (hf_download_manager.dart:70-73, 96-112).
THEOREM PermitsKept == Spec => []PermitsConserved
<1>1. Good => PermitsConserved
  BY DEF Good, Pool
<1> QED BY <1>1, AlwaysGood, PTL

-----------------------------------------------------------------------------
(* The disk: what every step does to the tasks, the runs and the handlers. *)

\* Only one task, one run, one handler changes.
OnlyTask(t)   == \A q \in Runs : q # t => task'[q] = task[q]
OnlyLoop(r)   == \A q \in Runs : q # r => loop'[q] = loop[q]
OnlyJob(r, s) == \A q \in Runs, p \in Segs : <<q, p>> # <<r, s>> => job'[q][p] = job[q][p]

\* What a task keeps that only its connections tell.
Steady(t) ==
  /\ task'[t].state = task[t].state /\ task'[t].stop = task[t].stop
  /\ task'[t].cancel = task[t].cancel /\ task'[t].current = task[t].current
  /\ task'[t].finish = task[t].finish

\* The run goes on, or ends, at pc; keep says whether the file is kept.
At(r, pc, keep) ==
  /\ OnlyLoop(r)
  /\ loop'[r].of = Of(r) /\ loop'[r].pc = pc /\ loop'[r].keep = keep

\* A run that goes on.
LEMMA GoesAt ==
  ASSUME Types, NEW r \in Runs, NEW pc, Goes(r, pc)
  PROVE  At(r, pc, loop[r].keep) /\ loop'[r].snap = loop[r].snap
  BY DEF Types, Goes, At, OnlyLoop, LoopType, Of

LEMMA PauseIs ==
  ASSUME Good, NEW t \in Runs, Pause(t)
  PROVE  /\ task[t].state = "running" /\ OnlyTask(t)
         /\ task'[t].state = "paused" /\ task'[t].stop /\ task'[t].cancel = task[t].cancel
         /\ task'[t].current = task[t].current /\ task'[t].finish = task[t].finish
         /\ task'[t].written = task[t].written /\ task'[t].completer = task[t].completer
<1>1. task \in [Runs -> TaskType] /\ task[t] \in TaskType
  BY DEF Good, Types
<1>2. PICK none : none = [s \in Segs |-> NoRun]
  OBVIOUS
<1>3. PICK e : e = [task[t] EXCEPT !.state = "paused", !.stop = TRUE, !.sub = none]
  OBVIOUS
<1>4. /\ e.state = "paused" /\ e.stop /\ e.cancel = task[t].cancel
      /\ e.current = task[t].current /\ e.finish = task[t].finish
      /\ e.written = task[t].written /\ e.completer = task[t].completer
  BY <1>1, <1>3 DEF TaskType
<1>5. task' = [task EXCEPT ![t] = e] /\ task[t].state = "running"
  BY <1>1, <1>2, <1>3 DEF Pause
<1>6. task'[t] = e /\ \A q \in Runs : q # t => task'[q] = task[q]
  BY <1>1, <1>5, Zenon
<1> QED BY <1>4, <1>5, <1>6 DEF OnlyTask

LEMMA CancelIs ==
  ASSUME Good, NEW t \in Runs, Cancel(t)
  PROVE  /\ task[t].state \in {"running", "paused", "failed"} /\ OnlyTask(t)
         /\ task'[t].state = "canceled" /\ task'[t].stop /\ task'[t].cancel
         /\ task'[t].current = task[t].current /\ task'[t].finish = "wait"
         /\ task'[t].written = task[t].written /\ task'[t].completer = task[t].completer
<1>1. task \in [Runs -> TaskType] /\ task[t] \in TaskType
  BY DEF Good, Types
<1>2. PICK none : none = [s \in Segs |-> NoRun]
  OBVIOUS
<1>3. PICK e : e = [task[t] EXCEPT !.state = "canceled", !.stop = TRUE, !.cancel = TRUE,
                                   !.sub = none, !.finish = "wait"]
  OBVIOUS
<1>4. /\ e.state = "canceled" /\ e.stop /\ e.cancel
      /\ e.current = task[t].current /\ e.finish = "wait"
      /\ e.written = task[t].written /\ e.completer = task[t].completer
  BY <1>1, <1>3 DEF TaskType
<1>5. task' = [task EXCEPT ![t] = e] /\ task[t].state \in {"running", "paused", "failed"}
  BY <1>1, <1>2, <1>3 DEF Cancel
<1>6. task'[t] = e /\ \A q \in Runs : q # t => task'[q] = task[q]
  BY <1>1, <1>5, Zenon
<1> QED BY <1>4, <1>5, <1>6 DEF OnlyTask

\* A handler that is told to stop keeps what it is at.
Told(t) ==
  \A q \in Runs, p \in Segs :
    /\ job'[q][p].pc = job[q][p].pc /\ job'[q][p].next = job[q][p].next
    /\ job'[q][p].last = job[q][p].last /\ job'[q][p].err = job[q][p].err
    /\ job'[q][p].hand = job[q][p].hand /\ job'[q][p].snap = job[q][p].snap
    /\ job'[q][p].live => job[q][p].live
    /\ job'[q][p].over = (job[q][p].over \/ task[t].completer[p] = q)

LEMMA AbortIs ==
  ASSUME Good, NEW t \in Runs, job' = Abort(t)
  PROVE  Told(t)
<1>1. SUFFICES ASSUME NEW q \in Runs, NEW p \in Segs
               PROVE  /\ job'[q][p].pc = job[q][p].pc /\ job'[q][p].next = job[q][p].next
                      /\ job'[q][p].last = job[q][p].last /\ job'[q][p].err = job[q][p].err
                      /\ job'[q][p].hand = job[q][p].hand /\ job'[q][p].snap = job[q][p].snap
                      /\ job'[q][p].live => job[q][p].live
                      /\ job'[q][p].over = (job[q][p].over \/ task[t].completer[p] = q)
  BY DEF Told
<1>2. job[q][p] \in JobType
  BY DEF Good, Types
<1>3. PICK live \in BOOLEAN, over \in BOOLEAN :
        /\ live = (job[q][p].live /\ task[t].sub[p] # q)
        /\ over = (job[q][p].over \/ task[t].completer[p] = q)
  OBVIOUS
<1>4. job'[q][p] = [job[q][p] EXCEPT !.live = live, !.over = over]
  BY <1>3 DEF Abort
<1> QED BY <1>2, <1>3, <1>4 DEF JobType

\* The cleanup of a cancellation goes one step on.
LEMMA FinishIs ==
  ASSUME Good, NEW t \in Runs, FinishCancel(t)
  PROVE  /\ OnlyTask(t) /\ UNCHANGED <<setup, loop, job, mishaps>>
         /\ task'[t].state = task[t].state /\ task'[t].stop = task[t].stop
         /\ task'[t].cancel = task[t].cancel /\ task'[t].current = task[t].current
         /\ task'[t].written = task[t].written /\ task'[t].completer = task[t].completer
         /\ \/ /\ task[t].finish = "wait" /\ Unwound(t) /\ task'[t].finish = "parts"
               /\ UNCHANGED <<part, sidecar, dest>>
            \/ /\ task[t].finish = "parts" /\ PartsGone(t) /\ task'[t].finish = "sidecar"
               /\ UNCHANGED <<sidecar, dest>>
            \/ /\ task[t].finish = "sidecar" /\ sidecar' = {} /\ task'[t].finish = "dest"
               /\ UNCHANGED <<part, dest>>
            \/ /\ task[t].finish = "dest" /\ dest' = {} /\ task'[t].finish = "end"
               /\ UNCHANGED <<part, sidecar>>
<1>1. task \in [Runs -> TaskType] /\ task[t] \in TaskType
  BY DEF Good, Types
<1>2. PICK finish, done :
        /\ task' = [task EXCEPT ![t].finish = finish, ![t].done = done]
        /\ \/ /\ task[t].finish = "wait" /\ Unwound(t) /\ finish = "parts"
              /\ UNCHANGED <<part, sidecar, dest>>
           \/ /\ task[t].finish = "parts" /\ PartsGone(t) /\ finish = "sidecar"
              /\ UNCHANGED <<sidecar, dest>>
           \/ /\ task[t].finish = "sidecar" /\ sidecar' = {} /\ finish = "dest"
              /\ UNCHANGED <<part, dest>>
           \/ /\ task[t].finish = "dest" /\ dest' = {} /\ finish = "end"
              /\ UNCHANGED <<part, sidecar>>
  <2>0. ASSUME NEW finish, task' = [task EXCEPT ![t].finish = finish]
        PROVE  task' = [task EXCEPT ![t].finish = finish, ![t].done = task[t].done]
    BY <1>1, <2>0 DEF TaskType
  <2>1. CASE task[t].finish = "wait"
    BY <2>0, <2>1 DEF FinishCancel, disk
  <2>2. CASE task[t].finish = "parts"
    BY <2>0, <2>2 DEF FinishCancel
  <2>3. CASE task[t].finish = "sidecar"
    BY <2>0, <2>3 DEF FinishCancel
  <2>4. CASE task[t].finish = "dest"
    <3>1. PICK done : done = Settles(t, "ok")
      OBVIOUS
    <3>2. /\ task' = [task EXCEPT ![t].finish = "end", ![t].done = done]
          /\ dest' = {} /\ UNCHANGED <<part, sidecar>>
      BY <2>4, <3>1 DEF FinishCancel
    <3> QED BY <2>4, <3>2
  <2> QED BY <2>1, <2>2, <2>3, <2>4 DEF FinishCancel
<1>3. PICK e : e = [task[t] EXCEPT !.finish = finish, !.done = done]
  OBVIOUS
<1>4. /\ e.state = task[t].state /\ e.stop = task[t].stop /\ e.cancel = task[t].cancel
      /\ e.current = task[t].current /\ e.finish = finish
      /\ e.written = task[t].written /\ e.completer = task[t].completer
  BY <1>1, <1>3 DEF TaskType
<1>5. task' = [task EXCEPT ![t] = e]
  BY <1>1, <1>2, <1>3
<1>6. task'[t] = e /\ \A q \in Runs : q # t => task'[q] = task[q]
  BY <1>1, <1>5, Zenon
<1>7. UNCHANGED <<setup, loop, job, mishaps>>
  BY DEF FinishCancel
<1> QED BY <1>2, <1>4, <1>6, <1>7 DEF OnlyTask

\* The next run, of a new task or of one that goes on.
First(r) == r \in Runs /\ loop[r].of = NoRun /\ \A q \in Runs : q < r => loop[q].of # NoRun

LEMMA FreeIs ==
  ASSUME Types, NEW r \in Free, \A q \in Free : r <= q
  PROVE  First(r)
<1>1. r \in 1 .. setup.runs /\ r \notin Used /\ 1 .. setup.runs \subseteq Runs
  BY SetupBounds DEF Types, Free
<1>2. r \in Runs /\ loop[r].of = NoRun
  BY <1>1 DEF Used
<1>3. ASSUME NEW q \in Runs, q < r PROVE loop[q].of # NoRun
  <2>1. q \in 1 .. setup.runs
    BY <1>1, <1>3, DownloadAssumption DEF Types, Runs
  <2>2. q \in Free => r <= q
    OBVIOUS
  <2> QED BY <1>1, <1>3, <2>1, <2>2, DownloadAssumption DEF Free, Used, Runs
<1> QED BY <1>2, <1>3 DEF First

LEMMA EnqueueIs ==
  ASSUME Good, Enqueue
  PROVE  /\ UNCHANGED <<setup, part, sidecar, dest, job>>
         /\ \A t \in Runs : task[t].state # "running"
         /\ "overlap" \notin mishaps' => \A t \in Runs : Quiet(t)
         /\ mishaps' = mishaps \/ mishaps' = mishaps \cup {"overlap"}
         /\ \E r \in Runs :
              /\ First(r) /\ OnlyTask(r) /\ OnlyLoop(r)
              /\ loop'[r].of = r /\ loop'[r].pc = "probe" /\ ~loop'[r].keep
              /\ task'[r].state = "running" /\ ~task'[r].stop /\ ~task'[r].cancel
              /\ task'[r].current = r /\ task'[r].finish = "no" /\ task'[r].written = <<>>
              /\ \A s \in Segs : task'[r].completer[s] = NoRun
<1>1. /\ Types /\ task \in [Runs -> TaskType] /\ loop \in [Runs -> LoopType]
  BY DEF Good, Types
<1>2. PICK none : none = [s \in Segs |-> NoRun]
  OBVIOUS
<1>3. PICK r \in Free :
        /\ \A q \in Free : r <= q
        /\ \A t \in Runs : task[t].state # "running"
        /\ Noted("overlap", ~(\A t \in Runs : Quiet(t)))
        /\ task' = [task EXCEPT ![r] =
             [NoTask EXCEPT !.state = "running", !.current = r, !.sub = none, !.completer = none]]
        /\ loop' = [loop EXCEPT ![r] = [NoLoop EXCEPT !.of = r, !.pc = "probe"]]
  BY <1>2 DEF Enqueue
<1>4. First(r) /\ r \in Runs
  BY <1>1, <1>3, FreeIs DEF First
<1>5. PICK e : e = [NoTask EXCEPT !.state = "running", !.current = r, !.sub = none, !.completer = none]
  OBVIOUS
<1>6. PICK l : l = [NoLoop EXCEPT !.of = r, !.pc = "probe"]
  OBVIOUS
<1>7. /\ task'[r] = e /\ loop'[r] = l
      /\ \A q \in Runs : q # r => task'[q] = task[q] /\ loop'[q] = loop[q]
  BY <1>1, <1>3, <1>4, <1>5, <1>6, Zenon
<1>8. /\ e.state = "running" /\ ~e.stop /\ ~e.cancel /\ e.current = r /\ e.finish = "no"
      /\ e.written = <<>> /\ e.completer = none
  BY <1>5 DEF NoTask
<1>9. l.of = r /\ l.pc = "probe" /\ ~l.keep
  BY <1>6 DEF NoLoop
<1>10. \A s \in Segs : none[s] = NoRun
  BY <1>2
<1>11. UNCHANGED <<setup, part, sidecar, dest, job>>
  BY DEF Enqueue, disk
<1>12. /\ "overlap" \notin mishaps' => \A t \in Runs : Quiet(t)
       /\ mishaps' = mishaps \/ mishaps' = mishaps \cup {"overlap"}
  BY <1>3 DEF Noted
<1> QED BY <1>3, <1>4, <1>7, <1>8, <1>9, <1>10, <1>11, <1>12 DEF OnlyTask, OnlyLoop

LEMMA ResumeIs ==
  ASSUME Good, NEW t \in Runs, Resume(t)
  PROVE  /\ UNCHANGED <<setup, part, sidecar, dest>>
         /\ task[t].state \in {"paused", "failed"}
         /\ "overlap" \notin mishaps' => Quiet(t) /\ ~Superseded(t)
         /\ mishaps \subseteq mishaps' /\ (mishaps' = {} => task[t].state = "paused")
         /\ "revived" \notin mishaps' => task[t].state = "paused"
         /\ mishaps' \subseteq mishaps \cup {"overlap", "revived"}
         /\ OnlyTask(t) /\ task'[t].state = "running" /\ ~task'[t].stop /\ ~task'[t].cancel
         /\ task'[t].finish = task[t].finish /\ task'[t].written = task[t].written
         /\ task'[t].completer = task[t].completer
         /\ \E r \in Runs :
              /\ First(r) /\ OnlyLoop(r) /\ task'[t].current = r
              /\ loop'[r].of = t /\ ~loop'[r].keep
              /\ \/ task[t].written = <<>> /\ loop'[r].pc = "probe" /\ job' = job
                 \/ /\ task[t].written # <<>> /\ loop'[r].pc = "work"
                    /\ Spread(r, task[t].written)
<1>1. /\ Types /\ task \in [Runs -> TaskType] /\ loop \in [Runs -> LoopType]
      /\ task[t] \in TaskType
  BY DEF Good, Types
<1>2. PICK r \in Free :
        /\ \A q \in Free : r <= q
        /\ task[t].state \in {"paused", "failed"}
        /\ mishaps' = mishaps \cup (IF Quiet(t) /\ ~Superseded(t) THEN {} ELSE {"overlap"})
                              \cup (IF task[t].state = "failed" THEN {"revived"} ELSE {})
        /\ task' = [task EXCEPT ![t].state = "running", ![t].stop = FALSE, ![t].cancel = FALSE,
                                ![t].current = r]
        /\ IF task[t].written = <<>>
             THEN /\ loop' = [loop EXCEPT ![r] = [NoLoop EXCEPT !.of = t, !.pc = "probe"]]
                  /\ UNCHANGED <<job, pool>>
             ELSE /\ loop' = [loop EXCEPT ![r] = [NoLoop EXCEPT !.of = t, !.pc = "work"]]
                  /\ Spread(r, task[t].written)
  BY DEF Resume
<1>3. First(r) /\ r \in Runs
  BY <1>1, <1>2, FreeIs DEF First
<1>4. PICK e : e = [task[t] EXCEPT !.state = "running", !.stop = FALSE, !.cancel = FALSE,
                                   !.current = r]
  OBVIOUS
<1>5. /\ e.state = "running" /\ ~e.stop /\ ~e.cancel /\ e.current = r
      /\ e.finish = task[t].finish /\ e.written = task[t].written
      /\ e.completer = task[t].completer
  BY <1>1, <1>4 DEF TaskType
<1>6. task' = [task EXCEPT ![t] = e]
  BY <1>1, <1>2, <1>4
<1>7. task'[t] = e /\ \A q \in Runs : q # t => task'[q] = task[q]
  BY <1>1, <1>6, Zenon
<1>8. /\ "overlap" \notin mishaps' => Quiet(t) /\ ~Superseded(t)
      /\ mishaps \subseteq mishaps' /\ (mishaps' = {} => task[t].state = "paused")
      /\ "revived" \notin mishaps' => task[t].state = "paused"
      /\ mishaps' \subseteq mishaps \cup {"overlap", "revived"}
  BY <1>2
<1>9. UNCHANGED <<setup, part, sidecar, dest>>
  BY DEF Resume, disk
<1>10. PICK pc : pc = IF task[t].written = <<>> THEN "probe" ELSE "work"
  OBVIOUS
<1>11. PICK l : l = [NoLoop EXCEPT !.of = t, !.pc = pc]
  OBVIOUS
<1>12. loop' = [loop EXCEPT ![r] = l]
  BY <1>2, <1>10, <1>11
<1>13. loop'[r] = l /\ \A q \in Runs : q # r => loop'[q] = loop[q]
  BY <1>1, <1>3, <1>12, Zenon
<1>14. l.of = t /\ l.pc = pc /\ ~l.keep
  BY <1>11 DEF NoLoop
<1>15. \/ task[t].written = <<>> /\ pc = "probe" /\ job' = job
       \/ task[t].written # <<>> /\ pc = "work" /\ Spread(r, task[t].written)
  BY <1>2, <1>10
<1> QED BY <1>2, <1>3, <1>5, <1>7, <1>8, <1>9, <1>13, <1>14, <1>15 DEF OnlyTask, OnlyLoop

\* What a run tells its task: its state, its offsets.
Tells(t, state, written) ==
  /\ OnlyTask(t)
  /\ task'[t].state = state /\ task'[t].stop = task[t].stop
  /\ task'[t].cancel = task[t].cancel /\ task'[t].current = task[t].current
  /\ task'[t].finish = task[t].finish /\ task'[t].written = written
  /\ task'[t].completer = task[t].completer

LEMMA TellsNothing ==
  ASSUME NEW t \in Runs, task' = task
  PROVE  Tells(t, task[t].state, task[t].written)
  BY DEF Tells, OnlyTask

\* A run that throws: nothing if the task is cancelled, else the task fails.
Failing(r) ==
  \/ /\ task[Of(r)].cancel /\ At(r, "off", loop[r].keep) /\ task' = task
  \/ /\ ~task[Of(r)].cancel /\ At(r, "parts", FALSE)
     /\ Tells(Of(r), "failed", task[Of(r)].written)

LEMMA FailingIs ==
  ASSUME Types, NEW r \in Runs, Of(r) \in Runs, Throws(r)
  PROVE  Failing(r)
<1>1. CASE task[Of(r)].cancel
  BY <1>1, GoesAt DEF Throws, Failing
<1>2. CASE ~task[Of(r)].cancel
  <2>1. /\ loop' = [loop EXCEPT ![r].pc = "parts", ![r].keep = FALSE]
        /\ task' = [task EXCEPT ![Of(r)].state = "failed"]
    BY <1>2 DEF Throws
  <2>2. At(r, "parts", FALSE)
    <3>1. PICK l : l = [loop[r] EXCEPT !.pc = "parts", !.keep = FALSE]
      OBVIOUS
    <3>2. l.pc = "parts" /\ l.keep = FALSE /\ l.of = Of(r)
      BY <3>1 DEF Types, LoopType, Of
    <3>3. loop' = [loop EXCEPT ![r] = l]
      BY <2>1, <3>1 DEF Types
    <3>4. loop'[r] = l /\ \A q \in Runs : q # r => loop'[q] = loop[q]
      BY <3>3, Zenon DEF Types
    <3> QED BY <3>2, <3>4 DEF At, OnlyLoop
  <2>3. Tells(Of(r), "failed", task[Of(r)].written)
    <3>1. PICK e : e = [task[Of(r)] EXCEPT !.state = "failed"]
      OBVIOUS
    <3>2. task[Of(r)] \in TaskType
      BY DEF Types
    <3>3. /\ e.state = "failed" /\ e.stop = task[Of(r)].stop /\ e.cancel = task[Of(r)].cancel
          /\ e.current = task[Of(r)].current /\ e.finish = task[Of(r)].finish
          /\ e.written = task[Of(r)].written /\ e.completer = task[Of(r)].completer
      BY <3>1, <3>2 DEF TaskType
    <3>4. task' = [task EXCEPT ![Of(r)] = e]
      BY <2>1, <3>1
    <3>5. task'[Of(r)] = e /\ \A q \in Runs : q # Of(r) => task'[q] = task[q]
      BY <3>4, Zenon DEF Types
    <3> QED BY <3>3, <3>5 DEF Tells, OnlyTask
  <2> QED BY <1>2, <2>2, <2>3 DEF Failing
<1> QED BY <1>1, <1>2

\* A task that is told only how far it is.
LEMMA OffsetsAre ==
  ASSUME Types, NEW t \in Runs, NEW written, task' = [task EXCEPT ![t].written = written]
  PROVE  Tells(t, task[t].state, written)
<1>1. PICK e : e = [task[t] EXCEPT !.written = written]
  OBVIOUS
<1>2. task[t] \in TaskType
  BY DEF Types
<1>3. /\ e.state = task[t].state /\ e.stop = task[t].stop /\ e.cancel = task[t].cancel
      /\ e.current = task[t].current /\ e.finish = task[t].finish
      /\ e.written = written /\ e.completer = task[t].completer
  BY <1>1, <1>2 DEF TaskType
<1>4. task'[t] = e /\ \A q \in Runs : q # t => task'[q] = task[q]
  BY <1>1, Zenon DEF Types
<1> QED BY <1>3, <1>4 DEF Tells, OnlyTask

\* What a run that is not off knows.
LEMMA RunIs ==
  ASSUME Good, NEW r \in Runs, loop[r].pc # "off"
  PROVE  Types /\ Of(r) \in Runs /\ task[Of(r)] \in TaskType /\ task[Of(r)].state # "none"
  BY DEF Good, Types, Linked

LEMMA FreshIs ==
  ASSUME Good, NEW r \in Runs, PrepareFresh(r)
  PROVE  /\ loop[r].pc = "prepare" /\ task[Of(r)].written = <<>> /\ Readable = {}
         /\ \E zeros : /\ zeros = [s \in Segs |-> 0] /\ part' = PartsAt(zeros)
                       /\ Tells(Of(r), task[Of(r)].state, zeros)
                       /\ At(r, "fresh", loop[r].keep) /\ loop'[r].snap = zeros
         /\ UNCHANGED <<setup, sidecar, dest, job, mishaps>>
<1>1. Types /\ Of(r) \in Runs
  BY RunIs DEF PrepareFresh
<1>2. PICK zeros : zeros = [s \in Segs |-> 0]
  OBVIOUS
<1>3. /\ part' = PartsAt(zeros) /\ task' = [task EXCEPT ![Of(r)].written = zeros]
      /\ loop' = [loop EXCEPT ![r].pc = "fresh", ![r].snap = zeros]
      /\ UNCHANGED <<setup, sidecar, dest, job, mishaps>>
      /\ loop[r].pc = "prepare" /\ task[Of(r)].written = <<>> /\ Readable = {}
  BY <1>2 DEF PrepareFresh, TakeOver
<1>4. Tells(Of(r), task[Of(r)].state, zeros)
  BY <1>1, <1>3, OffsetsAre
<1>5. At(r, "fresh", loop[r].keep) /\ loop'[r].snap = zeros
  BY <1>1, <1>3 DEF Types, At, OnlyLoop, LoopType, Of
<1> QED BY <1>2, <1>3, <1>4, <1>5

LEMMA FromSidecarIs ==
  ASSUME Good, NEW r \in Runs, PrepareFromSidecar(r)
  PROVE  /\ loop[r].pc = "prepare" /\ task[Of(r)].written = <<>>
         /\ \E w \in Readable :
              /\ w \in [Segs -> Nat] /\ part' = PartsAt(w) /\ Spread(r, w)
              /\ Tells(Of(r), task[Of(r)].state, w)
         /\ At(r, "work", loop[r].keep)
         /\ UNCHANGED <<setup, sidecar, dest, mishaps>>
<1>1. Types /\ Of(r) \in Runs
  BY RunIs DEF PrepareFromSidecar
<1>2. PICK w \in Readable : TakeOver(r, w) /\ Spread(r, w)
  BY DEF PrepareFromSidecar
<1>3. w \in [Segs -> Nat]
  <2>1. w \in Snaps /\ w # <<>>
    BY <1>1, <1>2 DEF Types, SidecarTyped, Readable, Corrupt
  <2> QED BY <2>1 DEF Snaps
<1>4. Tells(Of(r), task[Of(r)].state, w) /\ part' = PartsAt(w)
  BY <1>1, <1>2, OffsetsAre DEF TakeOver
<1>5. At(r, "work", loop[r].keep)
  BY <1>1, GoesAt DEF PrepareFromSidecar
<1>6. UNCHANGED <<setup, sidecar, dest, mishaps>>
  BY DEF PrepareFromSidecar
<1> QED BY <1>2, <1>3, <1>4, <1>5, <1>6 DEF PrepareFromSidecar

LEMMA FreshWrittenIs ==
  ASSUME Good, NEW r \in Runs, FreshWritten(r)
  PROVE  /\ loop[r].pc = "fresh" /\ Spread(r, task[Of(r)].written)
         /\ Lands(loop[r].snap, OthersWrite(<<r>>)) /\ At(r, "work", loop[r].keep)
         /\ UNCHANGED <<setup, part, dest, task, mishaps>>
<1>1. Types
  BY DEF Good
<1>2. loop' = [loop EXCEPT ![r].pc = "work", ![r].snap = <<>>]
  BY DEF FreshWritten
<1>3. At(r, "work", loop[r].keep)
  BY <1>1, <1>2 DEF Types, At, OnlyLoop, LoopType, Of
<1> QED BY <1>3 DEF FreshWritten

LEMMA PreparedIs ==
  ASSUME Good, NEW r \in Runs, Prepared(r)
  PROVE  /\ loop[r].pc = "prepare" /\ task[Of(r)].written # <<>>
         /\ Spread(r, task[Of(r)].written) /\ At(r, "work", loop[r].keep)
         /\ UNCHANGED <<setup, part, sidecar, dest, task, mishaps>>
<1>1. At(r, "work", loop[r].keep)
  BY GoesAt DEF Good, Prepared
<1> QED BY <1>1 DEF Prepared, disk

LEMMA JoinIs ==
  ASSUME Good, NEW r \in Runs, Join(r)
  PROVE  /\ loop[r].pc = "work" /\ Ended(r) /\ UNCHANGED <<setup, part, sidecar, dest, job, mishaps>>
         /\ \/ (\E s \in Segs : job[r][s].pc = "threw") /\ Failing(r)
            \/ /\ ~\E s \in Segs : job[r][s].pc = "threw"
               /\ Stopped(r) /\ At(r, "flush", loop[r].keep)
               /\ loop'[r].snap = task[Of(r)].written /\ task' = task
            \/ /\ ~\E s \in Segs : job[r][s].pc = "threw"
               /\ ~Stopped(r) /\ At(r, "assemble", loop[r].keep) /\ task' = task
<1>1. Types /\ Of(r) \in Runs
  BY RunIs DEF Join
<1>2. loop[r].pc = "work" /\ Ended(r) /\ UNCHANGED <<setup, part, sidecar, dest, job, mishaps>>
  BY DEF Join, disk
<1>3. CASE \E s \in Segs : job[r][s].pc = "threw"
  BY <1>1, <1>2, <1>3, FailingIs DEF Join
<1>4. CASE Stopped(r) /\ ~\E s \in Segs : job[r][s].pc = "threw"
  <2>1. /\ loop' = [loop EXCEPT ![r].pc = "flush", ![r].snap = task[Of(r)].written]
        /\ task' = task
    BY <1>4 DEF Join
  <2>2. At(r, "flush", loop[r].keep) /\ loop'[r].snap = task[Of(r)].written
    BY <1>1, <2>1 DEF Types, At, OnlyLoop, LoopType, Of
  <2> QED BY <1>2, <1>4, <2>1, <2>2
<1>5. CASE ~Stopped(r) /\ ~\E s \in Segs : job[r][s].pc = "threw"
  BY <1>1, <1>2, <1>5, GoesAt DEF Join
<1> QED BY <1>3, <1>4, <1>5

LEMMA FlushIs ==
  ASSUME Good, NEW r \in Runs, Flush(r)
  PROVE  /\ loop[r].pc = "flush" /\ Lands(loop[r].snap, OthersWrite(<<r>>))
         /\ At(r, "off", loop[r].keep)
         /\ UNCHANGED <<setup, part, dest, task, job, mishaps>>
<1>1. Types
  BY DEF Good
<1>2. loop' = [loop EXCEPT ![r].pc = "off", ![r].snap = <<>>]
  BY DEF Flush
<1>3. At(r, "off", loop[r].keep)
  BY <1>1, <1>2 DEF Types, At, OnlyLoop, LoopType, Of
<1> QED BY <1>3 DEF Flush

LEMMA VerifyIs ==
  ASSUME Good, NEW r \in Runs, Verify(r)
  PROVE  /\ loop[r].pc = "verify" /\ UNCHANGED <<setup, part, sidecar, dest, job, mishaps>>
         /\ \/ (\E bytes \in dest : Verified(bytes)) /\ At(r, "parts", TRUE) /\ task' = task
            \/ (~\E bytes \in dest : Verified(bytes)) /\ Failing(r)
<1>1. Types /\ Of(r) \in Runs
  BY RunIs DEF Verify
<1>2. loop[r].pc = "verify" /\ UNCHANGED <<setup, part, sidecar, dest, job, mishaps>>
  BY DEF Verify, disk
<1>3. CASE \E bytes \in dest : Verified(bytes)
  <2>1. loop' = [loop EXCEPT ![r].pc = "parts", ![r].keep = TRUE] /\ task' = task
    BY <1>3 DEF Verify
  <2>2. At(r, "parts", TRUE)
    BY <1>1, <2>1 DEF Types, At, OnlyLoop, LoopType, Of
  <2> QED BY <1>2, <1>3, <2>1, <2>2
<1>4. CASE ~\E bytes \in dest : Verified(bytes)
  BY <1>1, <1>2, <1>4, FailingIs DEF Verify
<1> QED BY <1>3, <1>4

\* The last steps of a run tell its task the outcome.
LEMMA EndIs ==
  ASSUME Good, NEW r \in Runs, Complete(r) \/ GiveUp(r)
  PROVE  /\ loop[r].pc = "end" /\ At(r, "off", loop[r].keep)
         /\ UNCHANGED <<setup, part, sidecar, job, mishaps>>
         /\ \/ /\ loop[r].keep /\ dest' = dest
               /\ Tells(Of(r), "completed", task[Of(r)].written)
            \/ /\ ~loop[r].keep /\ dest' = {}
               /\ Tells(Of(r), task[Of(r)].state, task[Of(r)].written)
<1>1. Types /\ Of(r) \in Runs /\ task[Of(r)] \in TaskType
  BY RunIs DEF Complete, GiveUp
<1>2. At(r, "off", loop[r].keep)
  BY <1>1, GoesAt DEF Complete, GiveUp
<1>3. PICK state, done : /\ task' = [task EXCEPT ![Of(r)].state = state, ![Of(r)].done = done]
                         /\ \/ loop[r].keep /\ dest' = dest /\ state = "completed"
                            \/ ~loop[r].keep /\ dest' = {} /\ state = task[Of(r)].state
  <2>1. CASE Complete(r)
    <3>1. PICK done : done = Settles(Of(r), "ok")
      OBVIOUS
    <3> QED BY <2>1, <3>1 DEF Complete, disk
  <2>2. CASE GiveUp(r)
    <3>1. PICK done : done = Settles(Of(r), "error")
      OBVIOUS
    <3>2. task' = [task EXCEPT ![Of(r)].done = done]
      BY <2>2, <3>1 DEF GiveUp
    <3>3. task' = [task EXCEPT ![Of(r)].state = task[Of(r)].state, ![Of(r)].done = done]
      BY <1>1, <3>2 DEF TaskType
    <3> QED BY <2>2, <3>3 DEF GiveUp
  <2> QED BY <2>1, <2>2
<1>4. PICK e : e = [task[Of(r)] EXCEPT !.state = state, !.done = done]
  OBVIOUS
<1>5. /\ e.state = state /\ e.stop = task[Of(r)].stop /\ e.cancel = task[Of(r)].cancel
      /\ e.current = task[Of(r)].current /\ e.finish = task[Of(r)].finish
      /\ e.written = task[Of(r)].written /\ e.completer = task[Of(r)].completer
  BY <1>1, <1>4 DEF TaskType
<1>6. task' = [task EXCEPT ![Of(r)] = e]
  BY <1>1, <1>3, <1>4
<1>7. task'[Of(r)] = e /\ \A q \in Runs : q # Of(r) => task'[q] = task[q]
  BY <1>1, <1>6, Zenon DEF Types
<1>8. Tells(Of(r), state, task[Of(r)].written)
  BY <1>5, <1>7 DEF Tells, OnlyTask
<1>9. loop[r].pc = "end" /\ UNCHANGED <<setup, part, sidecar, job, mishaps>>
  BY DEF Complete, GiveUp, disk
<1> QED BY <1>2, <1>3, <1>8, <1>9

LEMMA ConcatIs ==
  ASSUME Good, NEW r \in Runs, Concat(r)
  PROVE  /\ loop[r].pc = "concat" /\ UNCHANGED <<setup, part, sidecar, job, mishaps>>
         /\ \/ /\ DOMAIN part = Segs /\ dest' = {FlattenSeq(part)} /\ task' = task
               /\ At(r, "verify", loop[r].keep)
            \/ DOMAIN part # Segs /\ dest' = dest /\ Failing(r)
<1>1. Types /\ Of(r) \in Runs
  BY RunIs DEF Concat
<1>2. loop[r].pc = "concat" /\ UNCHANGED <<setup, part, sidecar, job, mishaps>>
  BY DEF Concat
<1>3. CASE DOMAIN part = Segs
  BY <1>1, <1>2, <1>3, GoesAt DEF Concat
<1>4. CASE DOMAIN part # Segs
  BY <1>1, <1>2, <1>4, FailingIs DEF Concat
<1> QED BY <1>3, <1>4

\* The steps that only go on.
LEMMA PlainIs ==
  ASSUME Good, NEW r \in Runs, Probe(r) \/ OpenDest(r) \/ SweepParts(r) \/ SweepSidecar(r)
  PROVE  /\ task' = task /\ UNCHANGED <<setup, job, mishaps>>
         /\ \/ /\ loop[r].pc = "probe" /\ At(r, "prepare", loop[r].keep)
               /\ UNCHANGED <<part, sidecar, dest>>
            \/ /\ loop[r].pc = "assemble" /\ At(r, "concat", loop[r].keep)
               /\ dest' = {<<>>} /\ UNCHANGED <<part, sidecar>>
            \/ /\ loop[r].pc = "parts" /\ At(r, "sidecar", loop[r].keep)
               /\ PartsGone(Of(r)) /\ UNCHANGED <<sidecar, dest>>
            \/ /\ loop[r].pc = "sidecar" /\ At(r, "end", loop[r].keep)
               /\ sidecar' = {} /\ UNCHANGED <<part, dest>>
<1>0. Types
  BY DEF Good
<1>1. CASE Probe(r)
  BY <1>0, <1>1, GoesAt DEF Probe, disk
<1>2. CASE OpenDest(r)
  BY <1>0, <1>2, GoesAt DEF OpenDest
<1>3. CASE SweepParts(r)
  BY <1>0, <1>3, GoesAt DEF SweepParts
<1>4. CASE SweepSidecar(r)
  BY <1>0, <1>4, GoesAt DEF SweepSidecar
<1> QED BY <1>1, <1>2, <1>3, <1>4

LEMMA ProbeFailsIs ==
  ASSUME Good, NEW r \in Runs, ProbeFails(r)
  PROVE  /\ loop[r].pc = "probe" /\ UNCHANGED <<setup, part, sidecar, dest, job>>
         /\ mishaps' = mishaps \cup {"error"} /\ Failing(r)
<1>1. Types /\ Of(r) \in Runs
  BY RunIs DEF ProbeFails
<1> QED BY <1>1, FailingIs DEF ProbeFails, disk

\* Nothing is left of the process.
LEMMA CrashIs ==
  ASSUME Good, Crash
  PROVE  /\ UNCHANGED <<setup, part, sidecar, dest>>
         /\ \A t \in Runs : task'[t] = NoTask
         /\ \A r \in Runs : loop'[r].of = Of(r) /\ loop'[r].pc = "off" /\ ~loop'[r].keep
         /\ \A r \in Runs, s \in Segs : job'[r][s] = NoJob
         /\ Noted("cut", \E r \in Runs : Sweeping(r))
<1>1. \A r \in Runs : loop'[r] = [NoLoop EXCEPT !.of = loop[r].of]
  BY DEF Crash
<1>2. ASSUME NEW r \in Runs
      PROVE  loop'[r].of = Of(r) /\ loop'[r].pc = "off" /\ ~loop'[r].keep
  <2>1. PICK l : l = [NoLoop EXCEPT !.of = loop[r].of]
    OBVIOUS
  <2>2. l.of = Of(r) /\ l.pc = "off" /\ ~l.keep
    BY <2>1 DEF NoLoop, Of
  <2> QED BY <1>1, <2>1, <2>2
<1> QED BY <1>2 DEF Crash, disk

LEMMA JobSet ==
  ASSUME Good, NEW r \in Runs, NEW s \in Segs, NEW j, job' = [job EXCEPT ![r][s] = j]
  PROVE  OnlyJob(r, s) /\ job'[r][s] = j
<1>1. job \in [Runs -> [Segs -> JobType]]
  BY DEF Good, Types
<1> QED BY <1>1 DEF OnlyJob

\* The handler keeps where it is reading.
LEMMA GrantedIs ==
  ASSUME Good, NEW r \in Runs, NEW s \in Segs, Granted(r, s)
  PROVE  /\ job[r][s].pc = "granted" /\ job[r][s].hand = "none"
         /\ OnlyJob(r, s) /\ OnlyTask(Of(r)) /\ Steady(Of(r))
         /\ UNCHANGED <<setup, sidecar, dest, loop, mishaps>>
         /\ task'[Of(r)].completer = [task[Of(r)].completer EXCEPT ![s] = r]
         /\ job'[r][s].hand = "none" /\ job'[r][s].live = job[r][s].live
         /\ job'[r][s].over = job[r][s].over /\ job'[r][s].err = job[r][s].err
         /\ \E done \in Nat :
              /\ done = IF setup.ranged THEN task[Of(r)].written[s] ELSE 0
              /\ task'[Of(r)].written = [task[Of(r)].written EXCEPT ![s] = done]
              /\ \/ /\ ~setup.ranged \/ (~Stopped(r) /\ task[Of(r)].written[s] < Length(s))
                    /\ job'[r][s].pc = "get" /\ job'[r][s].next = Split[s].start + done
                    /\ job'[r][s].last = Split[s].end
                    /\ part' = [q \in DOMAIN part \cup {s} |->
                                  IF q = s THEN Resized(Bytes(s), done) ELSE part[q]]
                 \/ /\ setup.ranged /\ (Stopped(r) \/ ~(task[Of(r)].written[s] < Length(s)))
                    /\ job'[r][s].pc = "leave" /\ part' = part
<1>1. /\ job \in [Runs -> [Segs -> JobType]] /\ task \in [Runs -> TaskType]
      /\ job[r][s] \in JobType /\ job[r][s].pc = "granted" /\ InRange(job[r][s])
  BY DEF Good, Types, JobsInRange, Granted
<1>2. /\ Of(r) \in Runs /\ task[Of(r)] \in TaskType /\ job[r][s].hand = "none"
      /\ task[Of(r)].written \in [Segs -> Nat]
  BY <1>1, JobOf DEF InRange
<1>3. PICK done \in Nat : done = IF setup.ranged THEN task[Of(r)].written[s] ELSE 0
  BY <1>2
<1>4. PICK w, c : /\ w = [task[Of(r)].written EXCEPT ![s] = done]
                  /\ c = [task[Of(r)].completer EXCEPT ![s] = r]
  OBVIOUS
<1>5. PICK e : e = [task[Of(r)] EXCEPT !.completer = c, !.written = w]
  OBVIOUS
<1>6. /\ e.state = task[Of(r)].state /\ e.stop = task[Of(r)].stop /\ e.cancel = task[Of(r)].cancel
      /\ e.current = task[Of(r)].current /\ e.finish = task[Of(r)].finish
      /\ e.written = w /\ e.completer = c
  BY <1>2, <1>5 DEF TaskType
<1>7. task' = [task EXCEPT ![Of(r)] = e]
  <2>1. task' = [task EXCEPT ![Of(r)].completer[s] = r, ![Of(r)].written[s] = done]
    BY <1>3 DEF Granted
  <2> QED BY <1>1, <1>2, <1>4, <1>5, <2>1 DEF TaskType
<1>8. task'[Of(r)] = e /\ \A q \in Runs : q # Of(r) => task'[q] = task[q]
  BY <1>1, <1>2, <1>7, Zenon
<1>9. UNCHANGED <<setup, sidecar, dest, loop, mishaps>>
  BY DEF Granted
<1>10. /\ OnlyTask(Of(r)) /\ Steady(Of(r))
       /\ task'[Of(r)].completer = [task[Of(r)].completer EXCEPT ![s] = r]
       /\ task'[Of(r)].written = [task[Of(r)].written EXCEPT ![s] = done]
  BY <1>4, <1>6, <1>8 DEF OnlyTask, Steady
<1> DEFINE wants == ~setup.ranged \/ (~Stopped(r) /\ task[Of(r)].written[s] < Length(s))
<1>11. /\ OnlyJob(r, s) /\ job'[r][s].hand = job[r][s].hand /\ job'[r][s].live = job[r][s].live
       /\ job'[r][s].over = job[r][s].over /\ job'[r][s].err = job[r][s].err
       /\ \/ /\ wants
             /\ job'[r][s].pc = "get" /\ job'[r][s].next = Split[s].start + done
             /\ job'[r][s].last = Split[s].end
             /\ part' = [q \in DOMAIN part \cup {s} |->
                           IF q = s THEN Resized(Bytes(s), done) ELSE part[q]]
          \/ ~wants /\ job'[r][s].pc = "leave" /\ part' = part
  <2>1. CASE wants
    <3>1. PICK next, last : next = Split[s].start + done /\ last = Split[s].end
      OBVIOUS
    <3>2. /\ job' = [job EXCEPT ![r][s].pc = "get", ![r][s].next = next, ![r][s].last = last]
          /\ part' = [q \in DOMAIN part \cup {s} |->
                        IF q = s THEN Resized(Bytes(s), done) ELSE part[q]]
      BY <1>3, <2>1, <3>1 DEF Granted
    <3>3. PICK j : j = [job[r][s] EXCEPT !.pc = "get", !.next = next, !.last = last]
      OBVIOUS
    <3>4. /\ j.pc = "get" /\ j.next = next /\ j.last = last /\ j.hand = job[r][s].hand
          /\ j.live = job[r][s].live /\ j.over = job[r][s].over /\ j.err = job[r][s].err
      BY <1>1, <3>3 DEF JobType
    <3>5. job' = [job EXCEPT ![r][s] = j]
      BY <1>1, <3>2, <3>3
    <3>6. OnlyJob(r, s) /\ job'[r][s] = j
      BY <3>5, JobSet
    <3> QED BY <2>1, <3>1, <3>2, <3>4, <3>6, Zenon
  <2>2. CASE ~wants
    <3>1. PICK j : j = [job[r][s] EXCEPT !.pc = "leave"]
      OBVIOUS
    <3>2. job' = [job EXCEPT ![r][s] = j] /\ part' = part
      BY <1>1, <2>2, <3>1 DEF Granted
    <3>3. /\ j.pc = "leave" /\ j.hand = job[r][s].hand
          /\ j.live = job[r][s].live /\ j.over = job[r][s].over /\ j.err = job[r][s].err
      BY <1>1, <3>1 DEF JobType
    <3>4. OnlyJob(r, s) /\ job'[r][s] = j
      BY <3>2, JobSet
    <3> QED BY <2>2, <3>2, <3>3, <3>4, Zenon
  <2> QED BY <2>1, <2>2
<1>12. setup.ranged \in BOOLEAN
  BY DownloadAssumption DEF Good, Types
<1>13. ~wants => setup.ranged /\ (Stopped(r) \/ ~(task[Of(r)].written[s] < Length(s)))
  BY <1>12
<1>14. job[r][s].pc = "granted" /\ job[r][s].hand = "none" /\ job'[r][s].hand = "none"
  BY <1>1, <1>2, <1>11
<1> QED BY <1>3, <1>9, <1>10, <1>11, <1>13, <1>14, Zenon

LEMMA GetIs ==
  ASSUME Good, NEW r \in Runs, NEW s \in Segs, Get(r, s)
  PROVE  /\ job[r][s].pc = "get" /\ job[r][s].hand = "none"
         /\ OnlyJob(r, s) /\ OnlyTask(Of(r)) /\ Steady(Of(r))
         /\ UNCHANGED <<setup, part, sidecar, dest, loop>>
         /\ task'[Of(r)].completer = task[Of(r)].completer
         /\ task'[Of(r)].written = task[Of(r)].written
         /\ job'[r][s].over = job[r][s].over /\ job'[r][s].err = job[r][s].err
         /\ \/ /\ job[r][s].over /\ job'[r][s].pc = "leave" /\ job'[r][s].hand \in {"none", "write"}
               /\ job'[r][s].next = job[r][s].next /\ job'[r][s].live = job[r][s].live
               /\ mishaps' = mishaps
            \/ /\ ~job[r][s].over /\ job'[r][s].pc = "stream" /\ job'[r][s].hand = "none"
               /\ \/ /\ mishaps' = mishaps /\ job'[r][s].next = job[r][s].next
                     /\ job'[r][s].last = job[r][s].last
                  \/ mishaps' = mishaps \cup {"whole"}
<1>1. /\ job \in [Runs -> [Segs -> JobType]] /\ task \in [Runs -> TaskType]
      /\ job[r][s] \in JobType /\ job[r][s].pc = "get" /\ InRange(job[r][s])
  <2>1. Types /\ JobsInRange /\ job[r][s].pc = "get"
    BY DEF Good, Get
  <2> QED BY <2>1 DEF Types, JobsInRange
<1>2. /\ Of(r) \in Runs /\ task[Of(r)] \in TaskType /\ job[r][s].hand = "none"
  BY <1>1, JobOf DEF InRange
<1>3. UNCHANGED <<setup, part, sidecar, dest, loop>>
  BY DEF Get, disk
<1>4. CASE job[r][s].over
  <2>1. PICK hand \in {"none", "write"} :
          /\ job' = [job EXCEPT ![r][s].pc = "leave", ![r][s].hand = hand]
          /\ task' = task /\ mishaps' = mishaps
    BY <1>4 DEF Get
  <2>2. PICK j : j = [job[r][s] EXCEPT !.pc = "leave", !.hand = hand]
    OBVIOUS
  <2>3. job' = [job EXCEPT ![r][s] = j]
    BY <1>1, <2>1, <2>2
  <2>4. /\ j.pc = "leave" /\ j.hand = hand /\ j.next = job[r][s].next
        /\ j.live = job[r][s].live /\ j.over = job[r][s].over /\ j.err = job[r][s].err
    BY <1>1, <2>2 DEF JobType
  <2>5. OnlyJob(r, s) /\ job'[r][s] = j
    BY <2>3, JobSet
  <2>6. OnlyTask(Of(r)) /\ Steady(Of(r))
    BY <2>1 DEF OnlyTask, Steady
  <2> QED BY <1>1, <1>2, <1>3, <1>4, <2>1, <2>4, <2>5, <2>6
<1>5. CASE ~job[r][s].over
  <2>1. PICK whole \in BOOLEAN :
          /\ job' = [job EXCEPT ![r][s].pc = "stream", ![r][s].live = TRUE,
                                ![r][s].next = IF whole THEN 0 ELSE @,
                                ![r][s].last = IF whole THEN setup.total - 1 ELSE @]
          /\ task' = [task EXCEPT ![Of(r)].sub[s] = r]
          /\ Noted("whole", whole)
    BY <1>5 DEF Get
  <2>2. PICK next, last : /\ next = IF whole THEN 0 ELSE job[r][s].next
                          /\ last = IF whole THEN setup.total - 1 ELSE job[r][s].last
    OBVIOUS
  <2>3. PICK j : j = [job[r][s] EXCEPT !.pc = "stream", !.live = TRUE, !.next = next, !.last = last]
    OBVIOUS
  <2>4. job' = [job EXCEPT ![r][s] = j]
    <3>1. job' = [job EXCEPT ![r][s].pc = "stream", ![r][s].live = TRUE,
                             ![r][s].next = next, ![r][s].last = last]
      BY <1>1, <2>1, <2>2 DEF JobType
    <3> QED BY <1>1, <2>3, <3>1
  <2>5. /\ j.pc = "stream" /\ j.hand = job[r][s].hand /\ j.next = next /\ j.last = last
        /\ j.over = job[r][s].over /\ j.err = job[r][s].err
    BY <1>1, <2>3 DEF JobType
  <2>6. OnlyJob(r, s) /\ job'[r][s] = j
    BY <2>4, JobSet
  <2>7. PICK b : b = [task[Of(r)].sub EXCEPT ![s] = r]
    OBVIOUS
  <2>8. PICK e : e = [task[Of(r)] EXCEPT !.sub = b]
    OBVIOUS
  <2>9. task' = [task EXCEPT ![Of(r)] = e]
    BY <1>1, <1>2, <2>1, <2>7, <2>8 DEF TaskType
  <2>10. /\ e.state = task[Of(r)].state /\ e.stop = task[Of(r)].stop /\ e.cancel = task[Of(r)].cancel
         /\ e.current = task[Of(r)].current /\ e.finish = task[Of(r)].finish
         /\ e.written = task[Of(r)].written /\ e.completer = task[Of(r)].completer
    BY <1>2, <2>8 DEF TaskType
  <2>11. task'[Of(r)] = e /\ \A q \in Runs : q # Of(r) => task'[q] = task[q]
    BY <1>1, <1>2, <2>9, Zenon
  <2>12. /\ OnlyTask(Of(r)) /\ Steady(Of(r)) /\ task'[Of(r)].completer = task[Of(r)].completer
         /\ task'[Of(r)].written = task[Of(r)].written
    BY <2>10, <2>11 DEF OnlyTask, Steady
  <2>13. \/ /\ mishaps' = mishaps /\ next = job[r][s].next /\ last = job[r][s].last
         \/ mishaps' = mishaps \cup {"whole"}
    BY <2>1, <2>2 DEF Noted
  <2> QED BY <1>1, <1>2, <1>3, <1>5, <2>5, <2>6, <2>12, <2>13
<1> QED BY <1>4, <1>5

\* A request, a stream or a write that fails, the end of a stream, a chunk.
LEMMA StreamIs ==
  ASSUME Good, NEW r \in Runs, NEW s \in Segs,
         GetFails(r, s) \/ Chunk(r, s) \/ StreamEnds(r, s) \/ StreamFails(r, s) \/ WriteFails(r, s)
  PROVE  /\ OnlyJob(r, s) /\ UNCHANGED <<setup, part, sidecar, dest, loop, task>>
         /\ job'[r][s].next = job[r][s].next /\ job'[r][s].last = job[r][s].last
         /\ \/ /\ job[r][s].pc = "get" /\ job'[r][s].pc = "leave" /\ job'[r][s].err
               /\ job'[r][s].hand = job[r][s].hand /\ job'[r][s].over = job[r][s].over
               /\ job'[r][s].live = job[r][s].live /\ mishaps' = mishaps \cup {"error"}
            \/ /\ job[r][s].pc = "stream" /\ job'[r][s].pc = "stream"
               /\ job[r][s].live /\ job'[r][s].live /\ job[r][s].hand = "none"
               /\ job[r][s].next <= job[r][s].last /\ job'[r][s].hand = "write"
               /\ job'[r][s].over = job[r][s].over /\ job'[r][s].err = job[r][s].err
               /\ mishaps' = mishaps
            \/ /\ job[r][s].pc = "stream" /\ job'[r][s].pc = "stream"
               /\ job[r][s].live /\ ~job'[r][s].live /\ job[r][s].hand = "none"
               /\ job'[r][s].hand = "none" /\ job'[r][s].over
               /\ \/ /\ job'[r][s].err = job[r][s].err
                     /\ Noted("short", job[r][s].next <= job[r][s].last)
                  \/ /\ job'[r][s].err = ~job[r][s].over
                     /\ mishaps' = mishaps \cup {"error"}
            \/ /\ job[r][s].hand = "write" /\ job'[r][s].pc = job[r][s].pc
               /\ job'[r][s].hand = "none" /\ ~job'[r][s].live /\ job'[r][s].over
               /\ job'[r][s].err = ~job[r][s].over /\ mishaps' = mishaps \cup {"disk"}
<1>1. job \in [Runs -> [Segs -> JobType]] /\ job[r][s] \in JobType
  BY DEF Good, Types
<1>0. UNCHANGED <<setup, part, sidecar, dest, loop, task>>
  BY DEF GetFails, Chunk, StreamEnds, StreamFails, WriteFails, disk
<1>2. CASE GetFails(r, s)
  <2>1. PICK j : j = [job[r][s] EXCEPT !.pc = "leave", !.err = TRUE]
    OBVIOUS
  <2>2. job' = [job EXCEPT ![r][s] = j]
    BY <1>1, <1>2, <2>1 DEF GetFails
  <2>3. OnlyJob(r, s) /\ job'[r][s] = j
    BY <2>2, JobSet
  <2>4. /\ j.pc = "leave" /\ j.err /\ j.next = job[r][s].next /\ j.last = job[r][s].last
        /\ j.hand = job[r][s].hand /\ j.over = job[r][s].over /\ j.live = job[r][s].live
    BY <1>1, <2>1 DEF JobType
  <2>5. job[r][s].pc = "get" /\ mishaps' = mishaps \cup {"error"}
    BY <1>2 DEF GetFails
  <2> QED BY <1>0, <2>3, <2>4, <2>5
<1>3. CASE Chunk(r, s)
  <2>1. PICK j : j = [job[r][s] EXCEPT !.hand = "write"]
    OBVIOUS
  <2>2. job' = [job EXCEPT ![r][s] = j]
    BY <1>1, <1>3, <2>1 DEF Chunk
  <2>3. OnlyJob(r, s) /\ job'[r][s] = j
    BY <2>2, JobSet
  <2>4. /\ j.pc = job[r][s].pc /\ j.err = job[r][s].err /\ j.next = job[r][s].next
        /\ j.last = job[r][s].last
        /\ j.hand = "write" /\ j.over = job[r][s].over /\ j.live = job[r][s].live
    BY <1>1, <2>1 DEF JobType
  <2>5. /\ job[r][s].pc = "stream" /\ job[r][s].live /\ job[r][s].hand = "none"
        /\ job[r][s].next <= job[r][s].last /\ mishaps' = mishaps
    BY <1>3 DEF Chunk
  <2> QED BY <1>0, <2>3, <2>4, <2>5
<1>4. CASE StreamEnds(r, s)
  <2>1. PICK j : j = [job[r][s] EXCEPT !.live = FALSE, !.over = TRUE]
    OBVIOUS
  <2>2. job' = [job EXCEPT ![r][s] = j]
    BY <1>1, <1>4, <2>1 DEF StreamEnds
  <2>3. OnlyJob(r, s) /\ job'[r][s] = j
    BY <2>2, JobSet
  <2>4. /\ j.pc = job[r][s].pc /\ j.err = job[r][s].err /\ j.next = job[r][s].next
        /\ j.last = job[r][s].last /\ j.hand = job[r][s].hand /\ j.over /\ ~j.live
    BY <1>1, <2>1 DEF JobType
  <2>5. /\ job[r][s].pc = "stream" /\ job[r][s].live /\ job[r][s].hand = "none"
        /\ Noted("short", job[r][s].next <= job[r][s].last)
    BY <1>4 DEF StreamEnds
  <2> QED BY <1>0, <2>3, <2>4, <2>5
<1>5. CASE StreamFails(r, s)
  <2>0. PICK err \in BOOLEAN : err = ~job[r][s].over
    OBVIOUS
  <2>1. PICK j : j = [job[r][s] EXCEPT !.live = FALSE, !.over = TRUE, !.err = err]
    OBVIOUS
  <2>2. job' = [job EXCEPT ![r][s] = j]
    BY <1>1, <1>5, <2>0, <2>1 DEF StreamFails
  <2>3. OnlyJob(r, s) /\ job'[r][s] = j
    BY <2>2, JobSet
  <2>4. /\ j.pc = job[r][s].pc /\ j.err = err /\ j.next = job[r][s].next
        /\ j.last = job[r][s].last /\ j.hand = job[r][s].hand /\ j.over /\ ~j.live
    BY <1>1, <2>1 DEF JobType
  <2>5. /\ job[r][s].pc = "stream" /\ job[r][s].live /\ job[r][s].hand = "none"
        /\ mishaps' = mishaps \cup {"error"}
    BY <1>5 DEF StreamFails
  <2> QED BY <1>0, <2>0, <2>3, <2>4, <2>5
<1>6. CASE WriteFails(r, s)
  <2>0. PICK err \in BOOLEAN : err = ~job[r][s].over
    OBVIOUS
  <2>1. PICK j : j = [job[r][s] EXCEPT !.hand = "none", !.live = FALSE, !.over = TRUE, !.err = err]
    OBVIOUS
  <2>2. job' = [job EXCEPT ![r][s] = j]
    <3>1. job' = [job EXCEPT ![r][s].hand = "none", ![r][s].live = FALSE, ![r][s].over = TRUE,
                             ![r][s].err = err]
      BY <1>6, <2>0 DEF WriteFails
    <3> QED BY <1>1, <2>1, <3>1
  <2>3. OnlyJob(r, s) /\ job'[r][s] = j
    BY <2>2, JobSet
  <2>4. /\ j.pc = job[r][s].pc /\ j.err = err /\ j.next = job[r][s].next
        /\ j.last = job[r][s].last /\ j.hand = "none" /\ j.over /\ ~j.live
    BY <1>1, <2>1 DEF JobType
  <2>5. job[r][s].hand = "write" /\ mishaps' = mishaps \cup {"disk"}
    BY <1>6 DEF WriteFails
  <2> QED BY <1>0, <2>0, <2>3, <2>4, <2>5
<1> QED BY <1>2, <1>3, <1>4, <1>5, <1>6

\* A handler of a run that has ended forgets; the others look whether to stop.
LEMMA HandledAs ==
  ASSUME NEW j \in JobType, NEW stop \in BOOLEAN
  PROVE  /\ Handled(j, stop).pc = j.pc /\ Handled(j, stop).hand = "none"
         /\ j.pc \notin Over =>
              /\ Handled(j, stop).next = j.next /\ Handled(j, stop).last = j.last
              /\ Handled(j, stop).err = j.err
              /\ Handled(j, stop).live = (j.live /\ ~stop)
              /\ Handled(j, stop).over = (j.over \/ stop)
         /\ j.pc \in Over => ~Handled(j, stop).err /\ ~Handled(j, stop).over
<1>1. CASE j.pc \in Over
  <2>1. Handled(j, stop) = [NoJob EXCEPT !.pc = j.pc]
    BY <1>1 DEF Handled, Over
  <2> QED BY <1>1, <2>1 DEF NoJob
<1>2. CASE j.pc \notin Over
  <2>1. PICK live \in BOOLEAN, over \in BOOLEAN : live = (j.live /\ ~stop) /\ over = (j.over \/ stop)
    OBVIOUS
  <2>2. Handled(j, stop) = [j EXCEPT !.hand = "none", !.snap = <<>>, !.live = live, !.over = over]
    BY <1>2, <2>1 DEF Handled, Over
  <2> QED BY <1>2, <2>1, <2>2 DEF JobType
<1> QED BY <1>1, <1>2

\* The handler of a chunk or a commit is through.
Resolved(r, s, next) ==
  /\ job'[r][s].pc = job[r][s].pc /\ job'[r][s].hand = "none"
  /\ job[r][s].pc \notin Over =>
       /\ job'[r][s].next = next /\ job'[r][s].last = job[r][s].last
       /\ job'[r][s].err = job[r][s].err
       /\ job'[r][s].live = (job[r][s].live /\ ~Stopped(r))
       /\ job'[r][s].over = (job[r][s].over \/ Stopped(r))
  /\ job[r][s].pc \in Over => ~job'[r][s].err /\ ~job'[r][s].over

LEMMA WroteIs ==
  ASSUME Good, NEW r \in Runs, NEW s \in Segs, Wrote(r, s)
  PROVE  /\ job[r][s].hand = "write" /\ job[r][s].pc \in {"stream", "leave", "done", "threw"}
         /\ OnlyJob(r, s)
         /\ \E now :
              /\ now = [task[Of(r)].written EXCEPT ![s] = @ + 1]
              /\ Tells(Of(r), task[Of(r)].state, now)
              /\ \/ Resolved(r, s, job[r][s].next + 1)
                 \/ /\ setup.ranged /\ job'[r][s].pc = job[r][s].pc
                    /\ job'[r][s].hand = "commit" /\ job'[r][s].snap = now
                    /\ job'[r][s].next = job[r][s].next + 1 /\ job'[r][s].last = job[r][s].last
                    /\ job'[r][s].err = job[r][s].err /\ job'[r][s].live = job[r][s].live
                    /\ job'[r][s].over = job[r][s].over
         /\ part' = [q \in DOMAIN part |-> IF q = s THEN Append(part[q], job[r][s].next) ELSE part[q]]
         /\ Noted("late", \E q \in Used : q > r)
         /\ UNCHANGED <<setup, sidecar, dest, loop>>
<1>1. /\ job \in [Runs -> [Segs -> JobType]] /\ task \in [Runs -> TaskType]
      /\ job[r][s] \in JobType /\ job[r][s].hand = "write" /\ InRange(job[r][s]) /\ Types
  <2>1. Types /\ JobsInRange /\ job[r][s].hand = "write"
    BY DEF Good, Wrote
  <2> QED BY <2>1 DEF Types, JobsInRange
<1>2. /\ Of(r) \in Runs /\ task[Of(r)] \in TaskType
      /\ job[r][s].pc \in {"stream", "leave", "done", "threw"}
  BY <1>1, JobOf DEF InRange, JobType
<1>3. PICK now : now = [task[Of(r)].written EXCEPT ![s] = @ + 1]
  OBVIOUS
<1>4. Tells(Of(r), task[Of(r)].state, now)
  <2>1. task' = [task EXCEPT ![Of(r)].written = now]
    BY <1>3 DEF Wrote
  <2> QED BY <1>1, <1>2, <2>1, OffsetsAre
<1>a. PICK n \in Nat : n = job[r][s].next + 1
  BY <1>1 DEF JobType
<1>5. PICK j : j = [job[r][s] EXCEPT !.next = n]
  OBVIOUS
<1>6. /\ j \in JobType /\ j.pc = job[r][s].pc /\ j.last = job[r][s].last /\ j.hand = "write"
      /\ j.next = job[r][s].next + 1 /\ j.err = job[r][s].err /\ j.live = job[r][s].live
      /\ j.over = job[r][s].over
  BY <1>1, <1>a, <1>5 DEF JobType
<1>7. \/ job' = [job EXCEPT ![r][s] = Handled(j, Stopped(r))]
      \/ setup.ranged /\ job' = [job EXCEPT ![r][s] = [j EXCEPT !.hand = "commit", !.snap = now]]
  BY <1>1, <1>3, <1>a, <1>5 DEF Wrote, JobType
<1>8. /\ OnlyJob(r, s)
      /\ \/ Resolved(r, s, job[r][s].next + 1)
         \/ /\ setup.ranged /\ job'[r][s].pc = job[r][s].pc
            /\ job'[r][s].hand = "commit" /\ job'[r][s].snap = now
            /\ job'[r][s].next = job[r][s].next + 1 /\ job'[r][s].last = job[r][s].last
            /\ job'[r][s].err = job[r][s].err /\ job'[r][s].live = job[r][s].live
            /\ job'[r][s].over = job[r][s].over
  <2>1. CASE job' = [job EXCEPT ![r][s] = Handled(j, Stopped(r))]
    <3>1. OnlyJob(r, s) /\ job'[r][s] = Handled(j, Stopped(r))
      BY <2>1, JobSet
    <3>2. Stopped(r) \in BOOLEAN
      BY <1>2 DEF TaskType, Stopped
    <3>3. PICK k : k = Handled(j, Stopped(r))
      OBVIOUS
    <3>4. /\ k.pc = j.pc /\ k.hand = "none"
          /\ j.pc \notin Over =>
               /\ k.next = j.next /\ k.last = j.last /\ k.err = j.err
               /\ k.live = (j.live /\ ~Stopped(r)) /\ k.over = (j.over \/ Stopped(r))
          /\ j.pc \in Over => ~k.err /\ ~k.over
      BY <1>6, <3>2, <3>3, HandledAs
    <3>5. Resolved(r, s, job[r][s].next + 1)
      BY <1>6, <3>1, <3>3, <3>4, Zenon DEF Resolved
    <3> QED BY <3>1, <3>5
  <2>2. CASE setup.ranged /\ job' = [job EXCEPT ![r][s] = [j EXCEPT !.hand = "commit", !.snap = now]]
    <3>1. PICK k : k = [j EXCEPT !.hand = "commit", !.snap = now]
      OBVIOUS
    <3>2. OnlyJob(r, s) /\ job'[r][s] = k
      BY <2>2, <3>1, JobSet
    <3>3. /\ k.pc = j.pc /\ k.hand = "commit" /\ k.snap = now /\ k.next = j.next
          /\ k.last = j.last /\ k.err = j.err /\ k.live = j.live /\ k.over = j.over
      BY <1>6, <3>1 DEF JobType
    <3> QED BY <1>6, <2>2, <3>2, <3>3, Zenon
  <2> QED BY <1>7, <2>1, <2>2
<1>9. /\ part' = [q \in DOMAIN part |-> IF q = s THEN Append(part[q], job[r][s].next) ELSE part[q]]
      /\ Noted("late", \E q \in Used : q > r)
      /\ UNCHANGED <<setup, sidecar, dest, loop>>
  BY DEF Wrote
<1> QED BY <1>1, <1>2, <1>3, <1>4, <1>8, <1>9, Zenon

LEMMA CommitIs ==
  ASSUME Good, NEW r \in Runs, NEW s \in Segs, Commit(r, s)
  PROVE  /\ job[r][s].hand = "commit" /\ job[r][s].pc \in {"stream", "leave", "done", "threw"}
         /\ OnlyJob(r, s) /\ Resolved(r, s, job[r][s].next)
         /\ Lands(job[r][s].snap, OthersWrite(<<r, s>>)) /\ Noted("late", loop[r].pc # "work")
         /\ UNCHANGED <<setup, part, dest, task, loop>>
<1>1. /\ job[r][s] \in JobType /\ job[r][s].hand = "commit" /\ InRange(job[r][s]) /\ Types
  <2>1. Types /\ JobsInRange /\ job[r][s].hand = "commit"
    BY DEF Good, Commit
  <2> QED BY <2>1 DEF Types, JobsInRange
<1>2. /\ Of(r) \in Runs /\ task[Of(r)] \in TaskType
      /\ job[r][s].pc \in {"stream", "leave", "done", "threw"}
  BY <1>1, JobOf DEF InRange, JobType
<1>3. PICK k : k = Handled(job[r][s], Stopped(r))
  OBVIOUS
<1>4. OnlyJob(r, s) /\ job'[r][s] = k
  <2>1. job' = [job EXCEPT ![r][s] = k]
    BY <1>1, <1>3 DEF Commit, Types
  <2> QED BY <2>1, JobSet
<1>5. Stopped(r) \in BOOLEAN
  BY <1>2 DEF TaskType, Stopped
<1>6. /\ k.pc = job[r][s].pc /\ k.hand = "none"
      /\ job[r][s].pc \notin Over =>
           /\ k.next = job[r][s].next /\ k.last = job[r][s].last /\ k.err = job[r][s].err
           /\ k.live = (job[r][s].live /\ ~Stopped(r)) /\ k.over = (job[r][s].over \/ Stopped(r))
      /\ job[r][s].pc \in Over => ~k.err /\ ~k.over
  BY <1>1, <1>3, <1>5, HandledAs
<1>7. Resolved(r, s, job[r][s].next)
  BY <1>4, <1>6, Zenon DEF Resolved
<1> QED BY <1>1, <1>2, <1>4, <1>7 DEF Commit

\* A handler that waits is let in.
LetIn(q, p) ==
  /\ job[q][p].pc = "queued" /\ job'[q][p].pc = "granted"
  /\ job'[q][p].next = job[q][p].next /\ job'[q][p].last = job[q][p].last
  /\ job'[q][p].live = job[q][p].live /\ job'[q][p].over = job[q][p].over
  /\ job'[q][p].err = job[q][p].err /\ job'[q][p].hand = job[q][p].hand
  /\ job'[q][p].snap = job[q][p].snap

LEMMA LeaveIs ==
  ASSUME Good, NEW r \in Runs, NEW s \in Segs, Leave(r, s)
  PROVE  /\ job[r][s].pc = "leave" \/ (job[r][s].pc = "stream" /\ job[r][s].over)
         /\ job'[r][s].pc = (IF job[r][s].err THEN "threw" ELSE "done")
         /\ job'[r][s].hand = job[r][s].hand /\ job'[r][s].snap = job[r][s].snap
         /\ ~job'[r][s].live /\ ~job'[r][s].over /\ ~job'[r][s].err
         /\ job[r][s].hand = "write" => job'[r][s].next = job[r][s].next
         /\ \A q \in Runs, p \in Segs :
              <<q, p>> # <<r, s>> => job'[q][p] = job[q][p] \/ LetIn(q, p)
         /\ OnlyTask(Of(r)) /\ Steady(Of(r))
         /\ task'[Of(r)].written = task[Of(r)].written
         /\ \A p \in Segs : task'[Of(r)].completer[p] \in {task[Of(r)].completer[p], NoRun}
         /\ UNCHANGED <<setup, part, sidecar, dest, loop, mishaps>>
<1>1. /\ job \in [Runs -> [Segs -> JobType]] /\ task \in [Runs -> TaskType]
      /\ job[r][s] \in JobType /\ waiters \in Seq(Runs \X Segs) /\ PermitsConserved
  BY DEF Good, Types, Pool
<1>2. job[r][s].pc = "leave" \/ (job[r][s].pc = "stream" /\ job[r][s].over)
  BY DEF Leave
<1>3. /\ Of(r) \in Runs /\ task[Of(r)] \in TaskType
      /\ task[Of(r)].completer \in [Segs -> Runs \cup {NoRun}]
  BY <1>2, JobOf
<1>4. PICK pc : pc = IF job[r][s].err THEN "threw" ELSE "done"
  OBVIOUS
<1>5. PICK next : next = IF job[r][s].hand = "write" THEN job[r][s].next ELSE 0
  OBVIOUS
<1>6. PICK j : j = [NoJob EXCEPT !.pc = pc, !.hand = job[r][s].hand, !.snap = job[r][s].snap,
                                 !.next = next]
  OBVIOUS
<1>7. /\ j.pc = pc /\ j.hand = job[r][s].hand /\ j.snap = job[r][s].snap /\ j.next = next
      /\ ~j.live /\ ~j.over /\ ~j.err
  BY <1>6 DEF NoJob
<1>8. PICK jobs1 : jobs1 = [job EXCEPT ![r][s] = j]
  OBVIOUS
<1>9. Release(jobs1)
  BY <1>4, <1>5, <1>6, <1>8 DEF Leave
<1>10. /\ jobs1 \in [Runs -> [Segs -> JobType \cup {j}]]
       /\ jobs1[r][s] = j
       /\ \A q \in Runs, p \in Segs : <<q, p>> # <<r, s>> => jobs1[q][p] = job[q][p]
  BY <1>1, <1>8
<1>11. /\ job'[r][s] = j
       /\ \A q \in Runs, p \in Segs :
            <<q, p>> # <<r, s>> => job'[q][p] = job[q][p] \/ LetIn(q, p)
  <2>1. CASE waiters = <<>>
    BY <1>9, <1>10, <2>1 DEF Release
  <2>2. CASE waiters # <<>>
    <3>1. PICK q \in Runs, p \in Segs : Head(waiters) = <<q, p>>
      BY <1>1, <2>2, Served DEF Good, Pool
    <3>2. job[q][p].pc = "queued"
      <4>1. <<q, p>> \in ToSet(waiters)
        BY <1>1, <2>2, <3>1, Served DEF Good, Pool
      <4> QED BY <1>1, <4>1 DEF PermitsConserved, Jobs
    <3>3. job' = [jobs1 EXCEPT ![q][p].pc = "granted"]
      BY <1>9, <2>2, <3>1 DEF Release
    <3>4. <<q, p>> # <<r, s>> /\ jobs1[q][p] = job[q][p]
      BY <1>2, <1>10, <3>2
    <3>5. PICK g : g = [job[q][p] EXCEPT !.pc = "granted"]
      OBVIOUS
    <3>6. job' = [jobs1 EXCEPT ![q][p] = g]
      BY <1>10, <3>3, <3>4, <3>5
    <3>7. /\ job'[q][p] = g
          /\ \A a \in Runs, b \in Segs : <<a, b>> # <<q, p>> => job'[a][b] = jobs1[a][b]
      BY <1>10, <3>6
    <3>8. /\ g.pc = "granted" /\ g.next = job[q][p].next /\ g.last = job[q][p].last
          /\ g.live = job[q][p].live /\ g.over = job[q][p].over /\ g.err = job[q][p].err
          /\ g.hand = job[q][p].hand /\ g.snap = job[q][p].snap
      <4>1. job[q][p] \in JobType
        BY <1>1
      <4> QED BY <3>5, <4>1 DEF JobType
    <3>9. LetIn(q, p)
      BY <3>2, <3>7, <3>8 DEF LetIn
    <3> QED BY <1>10, <3>4, <3>7, <3>9
  <2> QED BY <2>1, <2>2
<1>12. PICK b : b = [task[Of(r)].sub EXCEPT ![s] = NoRun]
  OBVIOUS
<1>13. PICK c : c = [task[Of(r)].completer EXCEPT ![s] = IF @ = r THEN NoRun ELSE @]
  OBVIOUS
<1>14. PICK e : e = [task[Of(r)] EXCEPT !.sub = b, !.completer = c]
  OBVIOUS
<1>15. task' = [task EXCEPT ![Of(r)] = e]
  BY <1>1, <1>3, <1>12, <1>13, <1>14 DEF Leave, TaskType
<1>16. /\ e.state = task[Of(r)].state /\ e.stop = task[Of(r)].stop /\ e.cancel = task[Of(r)].cancel
       /\ e.current = task[Of(r)].current /\ e.finish = task[Of(r)].finish
       /\ e.written = task[Of(r)].written /\ e.completer = c
  BY <1>3, <1>14 DEF TaskType
<1>17. task'[Of(r)] = e /\ \A q \in Runs : q # Of(r) => task'[q] = task[q]
  BY <1>1, <1>3, <1>15, Zenon
<1>18. \A p \in Segs : c[p] \in {task[Of(r)].completer[p], NoRun}
  BY <1>3, <1>13
<1>19. /\ OnlyTask(Of(r)) /\ Steady(Of(r)) /\ task'[Of(r)].written = task[Of(r)].written
       /\ \A p \in Segs : task'[Of(r)].completer[p] \in {task[Of(r)].completer[p], NoRun}
  BY <1>16, <1>17, <1>18 DEF OnlyTask, Steady
<1>20. UNCHANGED <<setup, part, sidecar, dest, loop, mishaps>>
  BY DEF Leave, disk
<1>21. /\ job'[r][s].pc = (IF job[r][s].err THEN "threw" ELSE "done")
       /\ job'[r][s].hand = job[r][s].hand /\ job'[r][s].snap = job[r][s].snap
       /\ ~job'[r][s].live /\ ~job'[r][s].over /\ ~job'[r][s].err
       /\ job[r][s].hand = "write" => job'[r][s].next = job[r][s].next
  BY <1>4, <1>5, <1>7, <1>11
<1> QED BY <1>2, <1>11, <1>19, <1>20, <1>21, Zenon

\* The handlers of a run that starts on its parts.
Started(r, written) ==
  /\ \A q \in Runs : q # r => job'[q] = job[q]
  /\ \A s \in Segs :
       /\ ~job'[r][s].live /\ ~job'[r][s].over /\ ~job'[r][s].err /\ job'[r][s].hand = "none"
       /\ IF s \in Todo(written) THEN job'[r][s].pc \in {"granted", "queued"}
          ELSE job'[r][s].pc = "none"

LEMMA StartedIs ==
  ASSUME Good, NEW r \in Runs, NEW written, Spread(r, written)
  PROVE  Started(r, written)
<1> DEFINE todo1 == Todo(written)
<1>1. job \in [Runs -> [Segs -> JobType]]
  BY DEF Good, Types
<1>2. PICK n : n = Min({Cardinality(todo1), permits})
  OBVIOUS
<1>3. job' = [job EXCEPT ![r] = [s \in Segs |->
                   IF s \notin todo1 THEN NoJob
                   ELSE [NoJob EXCEPT !.pc = IF Place(s, todo1) <= n THEN "granted" ELSE "queued"]]]
  BY <1>2 DEF Spread
<1>4. \A q \in Runs : q # r => job'[q] = job[q]
  BY <1>1, <1>3
<1>5. ASSUME NEW s \in Segs
      PROVE  /\ ~job'[r][s].live /\ ~job'[r][s].over /\ ~job'[r][s].err /\ job'[r][s].hand = "none"
             /\ IF s \in todo1 THEN job'[r][s].pc \in {"granted", "queued"}
                ELSE job'[r][s].pc = "none"
  <2>1. PICK pc \in {"granted", "queued"} : pc = IF Place(s, todo1) <= n THEN "granted" ELSE "queued"
    OBVIOUS
  <2>2. job'[r][s] = IF s \notin todo1 THEN NoJob ELSE [NoJob EXCEPT !.pc = pc]
    BY <1>1, <1>3, <2>1
  <2> HIDE DEF todo1
  <2>3. PICK g : g = [NoJob EXCEPT !.pc = pc]
    OBVIOUS
  <2>4. g.pc = pc /\ ~g.live /\ ~g.over /\ ~g.err /\ g.hand = "none"
    BY <2>3 DEF NoJob
  <2>5. NoJob.pc = "none" /\ ~NoJob.live /\ ~NoJob.over /\ ~NoJob.err /\ NoJob.hand = "none"
    BY DEF NoJob
  <2> QED BY <2>1, <2>2, <2>3, <2>4, <2>5
<1> QED BY <1>4, <1>5 DEF Started

-----------------------------------------------------------------------------
(* One run at a time.                                                      *)

\* The latest call of _runLoop.
Newest(r) == r \in Used /\ \A q \in Used : q <= r

\* Runs are used in their order, each by a task named by its first run, and a
\* task's registers name runs of its own.
Order ==
  /\ Used # {} => \E r \in Used : Newest(r)
  /\ \A r \in Used, q \in Runs : q <= r => q \in Used
  /\ \A r \in Used : Of(r) \in Used /\ Of(r) <= r /\ Of(Of(r)) = Of(r)
  /\ \A t \in Runs : task[t].state # "none" => Of(t) = t
  /\ \A t \in Runs, s \in Segs :
       task[t].state # "none" /\ task[t].completer[s] # NoRun =>
         task[t].completer[s] \in Runs /\ Of(task[t].completer[s]) = t

\* Two tasks never work on the files at once.
Alone == "overlap" \notin mishaps

\* A cancellation cleans up, or waits to; it deletes.
Finishing(t) == task[t].finish \notin {"no", "end"}
Deleting(t)  == task[t].finish \in {"parts", "sidecar", "dest"}

\* The latest run only goes on, and is the one its task knows of.
Sequential ==
  /\ \A q, r \in Used : q <= r => Of(q) <= Of(r)
  /\ \A r \in Runs : loop[r].pc # "off" => Newest(r)
  /\ \A r \in Runs : Newest(r) /\ task[Of(r)].state # "none" => task[Of(r)].current = r

\* What was asked of a task, and what it is.
Asked ==
  /\ \A t \in Runs : task[t].cancel => task[t].stop /\ task[t].state \in {"canceled", "completed"}
  /\ \A t \in Runs : task[t].finish # "no" => task[t].cancel
  /\ \A t \in Runs : task[t].state = "paused" => task[t].stop
  /\ \A t \in Runs : task[t].state = "running" =>
       ~task[t].stop /\ \E r \in Runs : Newest(r) /\ Of(r) = t /\ loop[r].pc # "off"

\* A cancellation cleans up for the latest run, and deletes once it is off.
Cleaning ==
  /\ \A t \in Runs : Finishing(t) => \E r \in Runs : Newest(r) /\ Of(r) = t
  /\ \A t \in Runs : Deleting(t) => \A r \in Runs : loop[r].pc = "off"

\* Where a run is, and what its task and its handlers are then.
Held == {"fresh", "work", "flush", "assemble", "concat", "verify"}
Idle == {"none", "done", "threw"}

Staged ==
  /\ \A r \in Runs : loop[r].pc \in {"parts", "sidecar", "end"} /\ ~loop[r].keep =>
       task[Of(r)].state \in {"failed", "canceled"}
  /\ \A r \in Runs : loop[r].pc = "flush" => Stopped(r)
  /\ \A r \in Runs, s \in Segs : loop[r].pc # "work" => job[r][s].pc \in Idle
  /\ \A r \in Runs : loop[r].pc \in {"probe", "prepare"} => task[Of(r)].written = <<>>
  /\ \A r \in Runs : loop[r].pc \in Held => task[Of(r)].written # <<>>

One == Sequential /\ Asked /\ Cleaning /\ Staged

LEMMA RunsAre == Runs \subseteq Nat \ {0} /\ NoRun \notin Runs /\ NoRun = 0
  BY DownloadAssumption DEF Runs, NoRun

OfKept == \A q \in Runs : loop'[q].of = loop[q].of

LEMMA UsedKept ==
  ASSUME OfKept
  PROVE  Used' = Used /\ \A r \in Runs : Newest(r)' <=> Newest(r)
<1>1. Used' = Used
  BY DEF OfKept, Used
<1> QED BY <1>1 DEF Newest

\* A step of a handler: no run moves, no task is told more than how far it is.
Calm ==
  /\ setup' = setup /\ loop' = loop /\ mishaps \subseteq mishaps'
  /\ \A t \in Runs : /\ Steady(t) /\ (task'[t].written = <<>> <=> task[t].written = <<>>)
                     /\ \A s \in Segs : \/ task'[t].completer[s] \in {task[t].completer[s], NoRun}
                                        \/ /\ task'[t].completer[s] \in Runs
                                           /\ Of(task'[t].completer[s]) = t
  /\ \A r \in Runs, s \in Segs : job[r][s].pc \in Idle => job'[r][s].pc \in Idle

\* Handlers keep runs and tasks in order.
LEMMA CalmKeeps ==
  ASSUME Order, Alone => One, Calm
  PROVE  Order' /\ (Alone' => One')
<1>1. /\ Segs' = Segs /\ loop' = loop /\ OfKept /\ \A r : Of(r)' = Of(r)
  BY SetupKept DEF Calm, OfKept, Of
<1>2. Used' = Used /\ \A r \in Runs : Newest(r)' <=> Newest(r)
  BY <1>1, UsedKept
<1>3. Used \subseteq Runs /\ \A t \in Runs : Steady(t)
  BY DEF Used, Calm
<1>4. Order'
  <2>1. Used' # {} => \E r \in Used' : Newest(r)'
    BY <1>2, <1>3 DEF Order
  <2>2. \A t \in Runs : task'[t].state # "none" => Of(t)' = t
    BY <1>1, <1>3 DEF Order, Steady
  <2>3. \A t \in Runs, s \in Segs' :
          task'[t].state # "none" /\ task'[t].completer[s] # NoRun =>
            task'[t].completer[s] \in Runs /\ loop'[task'[t].completer[s]].of = t
    <3>1. SUFFICES ASSUME NEW t \in Runs, NEW s \in Segs, task'[t].state # "none",
                          task'[t].completer[s] # NoRun
                   PROVE  task'[t].completer[s] \in Runs /\ loop[task'[t].completer[s]].of = t
      BY <1>1
    <3>2. task[t].state # "none"
      BY <1>3, <3>1 DEF Steady
    <3> QED BY <3>1, <3>2 DEF Order, Calm, Of
  <2>4. \A r \in Used', q \in Runs : q <= r => q \in Used'
    BY <1>2 DEF Order
  <2>5. \A r \in Used' : Of(r)' \in Used' /\ Of(r)' <= r /\ Of(Of(r))' = Of(r)'
    BY <1>1, <1>2 DEF Order
  <2> QED BY <2>1, <2>2, <2>3, <2>4, <2>5 DEF Order, Of
<1>5. ASSUME Alone' PROVE One'
  <2>1. One
    BY <1>5 DEF Alone, Calm
  <2>2. Sequential'
    <3>1. \A q, r \in Used' : q <= r => Of(q)' <= Of(r)'
      BY <1>1, <1>2, <2>1 DEF One, Sequential
    <3>2. \A r \in Runs : loop'[r].pc # "off" => Newest(r)'
      BY <1>1, <1>2, <2>1 DEF One, Sequential
    <3>3. \A r \in Runs : Newest(r)' /\ task'[loop'[r].of].state # "none" =>
            task'[loop'[r].of].current = r
      <4>1. \A r \in Runs : Newest(r) => Of(r) \in Runs
        BY <1>3 DEF Order, Newest
      <4> QED BY <1>1, <1>2, <1>3, <2>1, <4>1 DEF One, Sequential, Steady, Of
    <3> QED BY <3>1, <3>2, <3>3 DEF Sequential, Of
  <2>3. Asked'
    BY <1>1, <1>2, <1>3, <2>1 DEF One, Asked, Steady
  <2>4. Cleaning'
    BY <1>1, <1>2, <1>3, <2>1 DEF One, Cleaning, Finishing, Deleting, Steady
  <2>5. Staged'
    <3>1. \A r \in Runs : loop[r].pc # "off" => Of(r) \in Runs
      BY <2>1, <1>3 DEF One, Sequential, Order, Newest
    <3> QED BY <1>1, <1>3, <2>1, <3>1 DEF One, Staged, Calm, Steady, Stopped, Held
  <2> QED BY <2>2, <2>3, <2>4, <2>5 DEF One
<1> QED BY <1>4, <1>5

\* What Calm asks of the tasks, and of the handlers.
TasksCalm ==
  \A t \in Runs : /\ Steady(t) /\ (task'[t].written = <<>> <=> task[t].written = <<>>)
                  /\ \A s \in Segs : \/ task'[t].completer[s] \in {task[t].completer[s], NoRun}
                                     \/ /\ task'[t].completer[s] \in Runs
                                        /\ Of(task'[t].completer[s]) = t

JobsCalm == \A r \in Runs, s \in Segs : job[r][s].pc \in Idle => job'[r][s].pc \in Idle

\* A task that is left alone is calm.
LEMMA TasksSame ==
  ASSUME NEW t \in Runs,
         OnlyTask(t), Steady(t), task'[t].written = <<>> <=> task[t].written = <<>>,
         \A s \in Segs : \/ task'[t].completer[s] \in {task[t].completer[s], NoRun}
                         \/ /\ task'[t].completer[s] \in Runs
                            /\ Of(task'[t].completer[s]) = t
  PROVE  TasksCalm
  BY DEF TasksCalm, OnlyTask, Steady

\* The offsets of a task with handlers stay offsets.
LEMMA StillTold ==
  ASSUME Good, NEW r \in Runs, NEW s \in Segs, job[r][s].pc # "none", NEW n,
         task'[Of(r)].written = [task[Of(r)].written EXCEPT ![s] = n]
  PROVE  task'[Of(r)].written = <<>> <=> task[Of(r)].written = <<>>
<1>1. task[Of(r)].written \in [Segs -> Nat]
  BY JobOf
<1>2. DOMAIN task[Of(r)].written = Segs /\ DOMAIN task'[Of(r)].written = Segs
  BY <1>1
<1> QED BY <1>2, NotEmpty DEF Good, Types

LEMMA GrantedCalm ==
  ASSUME Good, NEW r \in Runs, NEW s \in Segs, Granted(r, s)
  PROVE  Calm
<1>0. /\ job[r][s].pc = "granted"
      /\ OnlyJob(r, s) /\ OnlyTask(Of(r)) /\ Steady(Of(r))
      /\ UNCHANGED <<setup, loop, mishaps>>
      /\ task'[Of(r)].completer = [task[Of(r)].completer EXCEPT ![s] = r]
  BY GrantedIs
<1>a. \E done \in Nat : task'[Of(r)].written = [task[Of(r)].written EXCEPT ![s] = done]
  <2>1. \E done \in Nat :
          /\ done = IF setup.ranged THEN task[Of(r)].written[s] ELSE 0
          /\ task'[Of(r)].written = [task[Of(r)].written EXCEPT ![s] = done]
    BY GrantedIs
  <2> QED BY <2>1
<1>1. Of(r) \in Runs /\ task[Of(r)].completer \in [Segs -> Runs \cup {NoRun}]
  BY <1>0, JobOf
<1>2. task'[Of(r)].written = <<>> <=> task[Of(r)].written = <<>>
  BY <1>0, <1>a, StillTold
<1>3. \A p \in Segs : \/ task'[Of(r)].completer[p] \in {task[Of(r)].completer[p], NoRun}
                      \/ /\ task'[Of(r)].completer[p] \in Runs
                         /\ Of(task'[Of(r)].completer[p]) = Of(r)
  BY <1>0, <1>1
<1>4. TasksCalm
  BY <1>0, <1>1, <1>2, <1>3, TasksSame
<1>5. JobsCalm
  BY <1>0 DEF JobsCalm, OnlyJob, Idle
<1> QED BY <1>0, <1>4, <1>5 DEF Calm, TasksCalm, JobsCalm

LEMMA GetCalm ==
  ASSUME Good, NEW r \in Runs, NEW s \in Segs, Get(r, s)
  PROVE  Calm
<1>0. /\ job[r][s].pc = "get"
      /\ OnlyJob(r, s) /\ OnlyTask(Of(r)) /\ Steady(Of(r))
      /\ UNCHANGED <<setup, loop>>
      /\ task'[Of(r)].completer = task[Of(r)].completer
      /\ task'[Of(r)].written = task[Of(r)].written
      /\ mishaps' = mishaps \/ mishaps' = mishaps \cup {"whole"}
  BY GetIs
<1>1. Of(r) \in Runs
  BY <1>0, JobOf
<1>2. \A p \in Segs : \/ task'[Of(r)].completer[p] \in {task[Of(r)].completer[p], NoRun}
                      \/ /\ task'[Of(r)].completer[p] \in Runs
                         /\ Of(task'[Of(r)].completer[p]) = Of(r)
  BY <1>0
<1>3. TasksCalm
  BY <1>0, <1>1, <1>2, TasksSame
<1>4. JobsCalm
  BY <1>0 DEF JobsCalm, OnlyJob, Idle
<1> QED BY <1>0, <1>3, <1>4 DEF Calm, TasksCalm, JobsCalm

\* A task nobody tells anything is calm.
LEMMA TasksAlone ==
  ASSUME task' = task
  PROVE  TasksCalm
  BY DEF TasksCalm, Steady

LEMMA StreamCalm ==
  ASSUME Good, NEW r \in Runs, NEW s \in Segs,
         GetFails(r, s) \/ Chunk(r, s) \/ StreamEnds(r, s) \/ StreamFails(r, s) \/ WriteFails(r, s)
  PROVE  Calm
<1>0. /\ OnlyJob(r, s) /\ UNCHANGED <<setup, loop, task>>
      /\ \/ job[r][s].pc \in {"get", "stream"}
         \/ job'[r][s].pc = job[r][s].pc
  BY StreamIs
<1>1. mishaps \subseteq mishaps'
  BY DEF GetFails, Chunk, StreamEnds, StreamFails, WriteFails, Noted
<1>2. JobsCalm
  BY <1>0 DEF JobsCalm, OnlyJob, Idle
<1> QED BY <1>0, <1>1, <1>2, TasksAlone DEF Calm, TasksCalm, JobsCalm

LEMMA WroteCalm ==
  ASSUME Good, NEW r \in Runs, NEW s \in Segs, Wrote(r, s)
  PROVE  Calm
<1>0. /\ job[r][s].pc \in {"stream", "leave", "done", "threw"} /\ OnlyJob(r, s)
      /\ UNCHANGED <<setup, loop>> /\ Noted("late", \E q \in Used : q > r)
      /\ \E now : /\ now = [task[Of(r)].written EXCEPT ![s] = @ + 1]
                  /\ Tells(Of(r), task[Of(r)].state, now)
      /\ job'[r][s].pc = job[r][s].pc
  BY WroteIs DEF Resolved
<1>1. Of(r) \in Runs
  BY <1>0, JobOf
<1>2. PICK n : n = task[Of(r)].written[s] + 1
  OBVIOUS
<1>3. /\ OnlyTask(Of(r)) /\ Steady(Of(r)) /\ task'[Of(r)].completer = task[Of(r)].completer
      /\ task'[Of(r)].written = [task[Of(r)].written EXCEPT ![s] = n]
  BY <1>0, <1>2 DEF Tells, Steady
<1>4. task'[Of(r)].written = <<>> <=> task[Of(r)].written = <<>>
  BY <1>0, <1>3, StillTold
<1>5. \A p \in Segs : \/ task'[Of(r)].completer[p] \in {task[Of(r)].completer[p], NoRun}
                      \/ /\ task'[Of(r)].completer[p] \in Runs
                         /\ Of(task'[Of(r)].completer[p]) = Of(r)
  BY <1>3
<1>6. TasksCalm
  BY <1>1, <1>3, <1>4, <1>5, TasksSame
<1>7. JobsCalm
  BY <1>0 DEF JobsCalm, OnlyJob, Idle
<1>8. mishaps \subseteq mishaps'
  BY <1>0 DEF Noted
<1> QED BY <1>0, <1>6, <1>7, <1>8 DEF Calm, TasksCalm, JobsCalm

LEMMA CommitCalm ==
  ASSUME Good, NEW r \in Runs, NEW s \in Segs, Commit(r, s)
  PROVE  Calm
<1>0. /\ job[r][s].pc \in {"stream", "leave", "done", "threw"} /\ OnlyJob(r, s)
      /\ UNCHANGED <<setup, loop, task>> /\ Noted("late", loop[r].pc # "work")
      /\ job'[r][s].pc = job[r][s].pc
  BY CommitIs DEF Resolved
<1>1. mishaps \subseteq mishaps'
  BY <1>0 DEF Noted
<1>2. JobsCalm
  BY <1>0 DEF JobsCalm, OnlyJob, Idle
<1> QED BY <1>0, <1>1, <1>2, TasksAlone DEF Calm, TasksCalm, JobsCalm

LEMMA LeaveCalm ==
  ASSUME Good, NEW r \in Runs, NEW s \in Segs, Leave(r, s)
  PROVE  Calm
<1>0. /\ job[r][s].pc \in {"leave", "stream"} /\ job'[r][s].pc \in {"threw", "done"}
      /\ \A q \in Runs, p \in Segs :
           <<q, p>> # <<r, s>> => job'[q][p] = job[q][p] \/ LetIn(q, p)
      /\ OnlyTask(Of(r)) /\ Steady(Of(r))
      /\ task'[Of(r)].written = task[Of(r)].written
      /\ \A p \in Segs : task'[Of(r)].completer[p] \in {task[Of(r)].completer[p], NoRun}
      /\ UNCHANGED <<setup, loop, mishaps>>
  BY LeaveIs
<1>1. Of(r) \in Runs
  BY <1>0, JobOf
<1>2. TasksCalm
  BY <1>0, <1>1, TasksSame
<1>3. JobsCalm
  BY <1>0 DEF JobsCalm, LetIn, Idle
<1> QED BY <1>0, <1>2, <1>3 DEF Calm, TasksCalm, JobsCalm

\* Whatever a handler does is calm.
LEMMA HandlersCalm ==
  ASSUME Good, NEW r \in Runs, NEW s \in Segs, SegmentStep(r, s) \/ Arrives(r, s)
  PROVE  Calm
  BY GrantedCalm, GetCalm, StreamCalm, WroteCalm, CommitCalm, LeaveCalm DEF SegmentStep, Arrives

\* What a run makes of itself and of its task.
Outcome(r, pc, keep, state, written) ==
  /\ state \in {task[Of(r)].state, "completed", "failed"}
  /\ task[Of(r)].cancel => state \in {"canceled", "completed"}
  /\ pc = "off" => state # "running"
  /\ pc \in {"parts", "sidecar", "end"} /\ ~keep => state \in {"failed", "canceled"}
  /\ pc = "flush" => Stopped(r)
  /\ pc # "work" => \A s \in Segs : job[r][s].pc \in Idle
  /\ pc \in {"probe", "prepare"} => written = <<>>
  /\ pc \in Held => written # <<>>

\* A step of a run, which starts handlers or leaves them alone.
Going(r, pc, keep, state, written) ==
  /\ setup' = setup /\ mishaps \subseteq mishaps' /\ loop[r].pc # "off" /\ state # "none"
  /\ At(r, pc, keep) /\ Tells(Of(r), state, written)
  /\ \A q \in Runs : q # r => job'[q] = job[q]
  /\ pc # "work" => job' = job
  /\ Alone /\ One => Outcome(r, pc, keep, state, written)

\* Runs keep themselves and their tasks in order.
LEMMA GoingKeeps ==
  ASSUME Good, Order, Alone => One, NEW r \in Runs, NEW pc, NEW keep, NEW state, NEW written,
         Going(r, pc, keep, state, written)
  PROVE  Order' /\ (Alone' => One')
<1>0. Types /\ Of(r) \in Runs /\ task[Of(r)].state # "none"
  BY RunIs DEF Going
<1>1. Segs' = Segs /\ \A q \in Runs : loop'[q].of = Of(q)
  BY SetupKept DEF Going, At, OnlyLoop, Of
<1>2. Used' = Used /\ \A q \in Runs : Newest(q)' <=> Newest(q)
  BY <1>1, UsedKept DEF OfKept, Of
<1>3. Used \subseteq Runs
  BY DEF Used
<1>4. \A t \in Runs : /\ task'[t].state = "none" <=> task[t].state = "none"
                      /\ task'[t].completer = task[t].completer /\ task'[t].stop = task[t].stop
                      /\ task'[t].cancel = task[t].cancel /\ task'[t].current = task[t].current
                      /\ task'[t].finish = task[t].finish
  BY <1>0 DEF Going, Tells, OnlyTask
<1>5. /\ task'[Of(r)].state = state /\ task'[Of(r)].written = written
      /\ \A t \in Runs : t # Of(r) => task'[t] = task[t]
      /\ loop'[r].pc = pc /\ loop'[r].keep = keep
      /\ \A q \in Runs : q # r => loop'[q] = loop[q]
  BY DEF Going, Tells, OnlyTask, At, OnlyLoop
<1>6. Order'
  <2>1. Used' # {} => \E q \in Used' : Newest(q)'
    BY <1>2, <1>3 DEF Order
  <2>2. \A t \in Runs : task'[t].state # "none" => loop'[t].of = t
    BY <1>1, <1>4 DEF Order
  <2>3. \A t \in Runs, s \in Segs :
          task'[t].state # "none" /\ task'[t].completer[s] # NoRun =>
            task'[t].completer[s] \in Runs /\ loop'[task'[t].completer[s]].of = t
    BY <1>1, <1>4 DEF Order
  <2>4. \A p \in Used', q \in Runs : q <= p => q \in Used'
    BY <1>2 DEF Order
  <2>5. \A q \in Used' : loop'[q].of \in Used' /\ loop'[q].of <= q
                         /\ loop'[loop'[q].of].of = loop'[q].of
    BY <1>1, <1>2, <1>3 DEF Order
  <2> QED BY <1>1, <2>1, <2>2, <2>3, <2>4, <2>5 DEF Order, Of
<1>7. ASSUME Alone' PROVE One'
  <2>1. /\ One /\ Outcome(r, pc, keep, state, written)
        /\ loop[r].pc # "off"
    BY <1>7 DEF Alone, Going
  <2>2. Newest(r) /\ \A q \in Runs : q # r => loop[q].pc = "off"
    <3>1. Runs \subseteq Nat
      BY RunsAre
    <3> QED BY <1>3, <2>1, <3>1 DEF One, Sequential, Newest
  <2>3. Sequential'
    <3>1. \A p, q \in Used' : p <= q => loop'[p].of <= loop'[q].of
      BY <1>1, <1>2, <1>3, <2>1 DEF One, Sequential
    <3>2. \A q \in Runs : loop'[q].pc # "off" => Newest(q)'
      BY <1>2, <1>5, <2>2
    <3>3. \A q \in Runs : Newest(q)' /\ task'[loop'[q].of].state # "none" =>
            task'[loop'[q].of].current = q
      <4>1. \A q \in Runs : Newest(q) => Of(q) \in Runs
        BY <1>3 DEF Order, Newest
      <4> QED BY <1>1, <1>2, <1>4, <2>1, <4>1 DEF One, Sequential
    <3> QED BY <3>1, <3>2, <3>3 DEF Sequential, Of
  <2>4. Asked'
    <3>1. \A t \in Runs : task'[t].cancel => task'[t].stop /\ task'[t].state \in {"canceled", "completed"}
      BY <1>4, <1>5, <2>1 DEF One, Asked, Outcome
    <3>2. \A t \in Runs : task'[t].finish # "no" => task'[t].cancel
      BY <1>4, <2>1 DEF One, Asked
    <3>3. \A t \in Runs : task'[t].state = "paused" => task'[t].stop
      BY <1>4, <1>5, <2>1 DEF One, Asked, Outcome
    <3>4. \A t \in Runs : task'[t].state = "running" => task[t].state = "running"
      BY <1>5, <2>1 DEF Outcome
    <3>5. ASSUME NEW t \in Runs, task'[t].state = "running"
          PROVE  ~task'[t].stop /\ \E q \in Runs : Newest(q)' /\ loop'[q].of = t /\ loop'[q].pc # "off"
      <4>1. PICK q \in Runs : Newest(q) /\ Of(q) = t /\ loop[q].pc # "off"
        BY <2>1, <3>4, <3>5 DEF One, Asked
      <4>2. ~task[t].stop
        BY <2>1, <3>4, <3>5 DEF One, Asked
      <4>3. q = r /\ t = Of(r)
        BY <2>2, <4>1
      <4>4. pc # "off"
        BY <1>5, <2>1, <3>5, <4>3 DEF Outcome
      <4> QED BY <1>1, <1>2, <1>4, <1>5, <4>1, <4>2, <4>3, <4>4
    <3> QED BY <3>1, <3>2, <3>3, <3>5 DEF Asked, Of
  <2>5. Cleaning'
    <3>1. \A t \in Runs : ~Deleting(t)
      BY <2>1 DEF One, Cleaning
    <3>2. \A t \in Runs : task'[t].finish \notin {"no", "end"} =>
            \E q \in Runs : Newest(q)' /\ loop'[q].of = t
      BY <1>1, <1>2, <1>4, <2>1 DEF One, Cleaning, Finishing
    <3>3. \A t \in Runs : ~(task'[t].finish \in {"parts", "sidecar", "dest"})
      BY <1>4, <3>1 DEF Deleting
    <3> QED BY <3>2, <3>3 DEF Cleaning, Finishing, Deleting, Of
  <2>6. Staged'
    <3>1. \A q \in Runs : loop'[q].pc # "off" => q = r
      BY <1>5, <2>2
    <3>2. loop'[r].of = Of(r)
      BY <1>1
    <3>3. /\ pc \in {"parts", "sidecar", "end"} /\ ~keep => state \in {"failed", "canceled"}
          /\ pc = "flush" => task'[Of(r)].stop
          /\ pc \in {"probe", "prepare"} => written = <<>>
          /\ pc \in Held => written # <<>>
      BY <1>0, <1>4, <2>1 DEF Outcome, Stopped
    <3>4. \A q \in Runs : loop'[q].pc # "work" => \A s \in Segs : job'[q][s].pc \in Idle
      BY <1>5, <2>1, <2>2 DEF Outcome, Going, One, Staged
    <3>5. \A q \in Runs : loop'[q].pc \in {"parts", "sidecar", "end"} /\ ~loop'[q].keep =>
            task'[loop'[q].of].state \in {"failed", "canceled"}
      BY <1>5, <3>1, <3>2, <3>3
    <3>6. \A q \in Runs : loop'[q].pc = "flush" => task'[loop'[q].of].stop
      BY <1>5, <3>1, <3>2, <3>3
    <3>7. \A q \in Runs : loop'[q].pc \in {"probe", "prepare"} => task'[loop'[q].of].written = <<>>
      BY <1>5, <3>1, <3>2, <3>3
    <3>8. \A q \in Runs : loop'[q].pc \in Held => task'[loop'[q].of].written # <<>>
      BY <1>5, <3>1, <3>2, <3>3 DEF Held
    <3> QED BY <1>1, <3>4, <3>5, <3>6, <3>7, <3>8 DEF Staged, Of, Stopped, Idle, Held
  <2> QED BY <2>3, <2>4, <2>5, <2>6 DEF One
<1> QED BY <1>6, <1>7

\* A run goes on, and its task is told something or nothing.
Goings(r) == \E pc, keep, state, written : Going(r, pc, keep, state, written)

\* A step that only moves the run.
LEMMA GoingOn ==
  ASSUME Good, NEW r \in Runs, loop[r].pc # "off", setup' = setup, mishaps \subseteq mishaps',
         task' = task, NEW pc, NEW keep, At(r, pc, keep),
         \A q \in Runs : q # r => job'[q] = job[q],
         pc # "work" => job' = job,
         Alone /\ One => Outcome(r, pc, keep, task[Of(r)].state, task[Of(r)].written)
  PROVE  Goings(r)
<1>1. Of(r) \in Runs /\ task[Of(r)].state # "none"
  BY RunIs
<1>2. Tells(Of(r), task[Of(r)].state, task[Of(r)].written)
  BY <1>1, TellsNothing
<1>3. Going(r, pc, keep, task[Of(r)].state, task[Of(r)].written)
  BY <1>1, <1>2 DEF Going
<1> QED BY <1>3 DEF Goings

\* A step that throws.
LEMMA GoingDown ==
  ASSUME Good, NEW r \in Runs, loop[r].pc # "off", setup' = setup, mishaps \subseteq mishaps',
         job' = job, Failing(r), loop[r].pc # "work" \/ Ended(r)
  PROVE  Goings(r)
<1>1. Of(r) \in Runs /\ task[Of(r)].state # "none"
  BY RunIs
<1>2. Alone /\ One => \A s \in Segs : job[r][s].pc \in Idle
  BY DEF One, Staged, Ended, Idle
<1>3. CASE /\ task[Of(r)].cancel /\ At(r, "off", loop[r].keep) /\ task' = task
  <2>1. Alone /\ One => Outcome(r, "off", loop[r].keep, task[Of(r)].state, task[Of(r)].written)
    BY <1>1, <1>2, <1>3 DEF Outcome, One, Asked, Held
  <2> QED BY <1>3, <2>1, GoingOn
<1>4. CASE /\ ~task[Of(r)].cancel /\ At(r, "parts", FALSE)
           /\ Tells(Of(r), "failed", task[Of(r)].written)
  <2>1. Alone /\ One => Outcome(r, "parts", FALSE, "failed", task[Of(r)].written)
    BY <1>1, <1>2, <1>4 DEF Outcome, Held
  <2>2. Going(r, "parts", FALSE, "failed", task[Of(r)].written)
    BY <1>1, <1>4, <2>1 DEF Going
  <2> QED BY <2>2 DEF Goings
<1> QED BY <1>3, <1>4 DEF Failing

LEMMA PlainGoes ==
  ASSUME Good, NEW r \in Runs, Probe(r) \/ OpenDest(r) \/ SweepParts(r) \/ SweepSidecar(r)
  PROVE  Goings(r)
<1>1. /\ task' = task /\ setup' = setup /\ job' = job /\ mishaps' = mishaps
      /\ \/ loop[r].pc = "probe" /\ At(r, "prepare", loop[r].keep)
         \/ loop[r].pc = "assemble" /\ At(r, "concat", loop[r].keep)
         \/ loop[r].pc = "parts" /\ At(r, "sidecar", loop[r].keep)
         \/ loop[r].pc = "sidecar" /\ At(r, "end", loop[r].keep)
  BY PlainIs
<1>2. PICK pc : /\ At(r, pc, loop[r].keep)
                /\ \/ loop[r].pc = "probe" /\ pc = "prepare"
                   \/ loop[r].pc = "assemble" /\ pc = "concat"
                   \/ loop[r].pc = "parts" /\ pc = "sidecar"
                   \/ loop[r].pc = "sidecar" /\ pc = "end"
  BY <1>1
<1>3. loop[r].pc # "off" /\ Of(r) \in Runs
  BY <1>2, RunIs
<1>4. ASSUME One PROVE Outcome(r, pc, loop[r].keep, task[Of(r)].state, task[Of(r)].written)
  <2>1. \A s \in Segs : job[r][s].pc \in Idle
    BY <1>2, <1>4 DEF One, Staged
  <2>2. task[Of(r)].cancel => task[Of(r)].state \in {"canceled", "completed"}
    BY <1>3, <1>4 DEF One, Asked
  <2>3. pc \in {"parts", "sidecar", "end"} /\ ~loop[r].keep => task[Of(r)].state \in {"failed", "canceled"}
    BY <1>2, <1>4 DEF One, Staged
  <2>4. pc = "prepare" => task[Of(r)].written = <<>>
    BY <1>2, <1>4 DEF One, Staged
  <2>5. pc \in Held => task[Of(r)].written # <<>>
    BY <1>2, <1>4 DEF One, Staged, Held
  <2> QED BY <1>2, <2>1, <2>2, <2>3, <2>4, <2>5 DEF Outcome
<1> QED BY <1>1, <1>2, <1>3, <1>4, GoingOn

LEMMA ProbeFailsGoes ==
  ASSUME Good, NEW r \in Runs, ProbeFails(r)
  PROVE  Goings(r)
<1>1. /\ loop[r].pc = "probe" /\ setup' = setup /\ job' = job
      /\ mishaps' = mishaps \cup {"error"} /\ Failing(r)
  BY ProbeFailsIs
<1> QED BY <1>1, GoingDown

\* The run that finds its offsets.
LEMMA PrepareGoes ==
  ASSUME Good, NEW r \in Runs, PrepareFromSidecar(r) \/ PrepareFresh(r) \/ FreshWritten(r) \/ Prepared(r)
  PROVE  Goings(r)
<1>0. setup \in Setups
  BY DEF Good, Types
<1>1. CASE PrepareFromSidecar(r)
  <2>1. /\ loop[r].pc = "prepare" /\ task[Of(r)].written = <<>>
        /\ At(r, "work", loop[r].keep) /\ setup' = setup /\ mishaps' = mishaps
    BY <1>1, FromSidecarIs
  <2>2. PICK w : w \in [Segs -> Nat] /\ Spread(r, w) /\ Tells(Of(r), task[Of(r)].state, w)
    BY <1>1, FromSidecarIs
  <2>3. w # <<>> /\ Of(r) \in Runs /\ task[Of(r)].state # "none"
    BY <1>0, <2>1, <2>2, NotEmpty, RunIs
  <2>4. \A q \in Runs : q # r => job'[q] = job[q]
    BY <2>2, StartedIs DEF Started
  <2>5. Alone /\ One => Outcome(r, "work", loop[r].keep, task[Of(r)].state, w)
    BY <2>3 DEF One, Asked, Outcome
  <2>6. Going(r, "work", loop[r].keep, task[Of(r)].state, w)
    BY <2>1, <2>2, <2>3, <2>4, <2>5 DEF Going
  <2> QED BY <2>6 DEF Goings
<1>2. CASE PrepareFresh(r)
  <2>1. /\ loop[r].pc = "prepare" /\ task[Of(r)].written = <<>> /\ setup' = setup
        /\ job' = job /\ mishaps' = mishaps
    BY <1>2, FreshIs
  <2>2. PICK zeros : /\ zeros = [s \in Segs |-> 0]
                     /\ Tells(Of(r), task[Of(r)].state, zeros) /\ At(r, "fresh", loop[r].keep)
    BY <1>2, FreshIs
  <2>3. zeros # <<>> /\ Of(r) \in Runs /\ task[Of(r)].state # "none"
    BY <1>0, <2>1, <2>2, NotEmpty, RunIs
  <2>4. Alone /\ One => Outcome(r, "fresh", loop[r].keep, task[Of(r)].state, zeros)
    BY <2>1, <2>3 DEF One, Asked, Outcome, Staged
  <2>5. Going(r, "fresh", loop[r].keep, task[Of(r)].state, zeros)
    BY <2>1, <2>2, <2>3, <2>4 DEF Going
  <2> QED BY <2>5 DEF Goings
<1>3. CASE FreshWritten(r) \/ Prepared(r)
  <2>1. /\ loop[r].pc \in {"fresh", "prepare"} /\ Spread(r, task[Of(r)].written)
        /\ At(r, "work", loop[r].keep) /\ setup' = setup /\ mishaps' = mishaps /\ task' = task
    BY <1>3, FreshWrittenIs, PreparedIs
  <2>2. loop[r].pc = "prepare" => task[Of(r)].written # <<>>
    BY <1>3, FreshWrittenIs, PreparedIs
  <2>3. Of(r) \in Runs /\ loop[r].pc # "off"
    BY <2>1, RunIs
  <2>4. \A q \in Runs : q # r => job'[q] = job[q]
    BY <2>1, StartedIs DEF Started
  <2>5. Alone /\ One => Outcome(r, "work", loop[r].keep, task[Of(r)].state, task[Of(r)].written)
    BY <2>1, <2>2, <2>3 DEF One, Asked, Outcome, Staged, Held
  <2> QED BY <2>1, <2>3, <2>4, <2>5, GoingOn
<1> QED BY <1>1, <1>2, <1>3

\* The run that has waited for its handlers.
LEMMA JoinGoes ==
  ASSUME Good, NEW r \in Runs, Join(r)
  PROVE  Goings(r)
<1>1. /\ loop[r].pc = "work" /\ Ended(r) /\ setup' = setup /\ job' = job /\ mishaps' = mishaps
      /\ \/ Failing(r)
         \/ Stopped(r) /\ At(r, "flush", loop[r].keep) /\ task' = task
         \/ At(r, "assemble", loop[r].keep) /\ task' = task
  BY JoinIs
<1>2. CASE Failing(r)
  BY <1>1, <1>2, GoingDown
<1>3. CASE ~Failing(r)
  <2>1. PICK pc \in {"flush", "assemble"} :
          (pc = "flush" => Stopped(r)) /\ At(r, pc, loop[r].keep) /\ task' = task
    BY <1>1, <1>3
  <2>2. Of(r) \in Runs
    BY <1>1, RunIs
  <2>3. Alone /\ One => Outcome(r, pc, loop[r].keep, task[Of(r)].state, task[Of(r)].written)
    BY <1>1, <2>1, <2>2 DEF One, Asked, Outcome, Staged, Held, Ended, Idle
  <2> QED BY <1>1, <2>1, <2>3, GoingOn
<1> QED BY <1>2, <1>3

LEMMA AssembleGoes ==
  ASSUME Good, NEW r \in Runs, Concat(r) \/ Verify(r)
  PROVE  Goings(r)
<1>1. /\ loop[r].pc \in {"concat", "verify"} /\ setup' = setup /\ job' = job /\ mishaps' = mishaps
      /\ \/ Failing(r)
         \/ At(r, "verify", loop[r].keep) /\ task' = task
         \/ At(r, "parts", TRUE) /\ task' = task
  BY ConcatIs, VerifyIs
<1>2. CASE Failing(r)
  BY <1>1, <1>2, GoingDown
<1>3. CASE ~Failing(r)
  <2>1. PICK pc, keep :
          /\ pc \in {"verify", "parts"} /\ At(r, pc, keep) /\ task' = task
          /\ pc = "parts" => keep = TRUE
    BY <1>1, <1>3
  <2>2. Of(r) \in Runs
    BY <1>1, RunIs
  <2>3. Alone /\ One => Outcome(r, pc, keep, task[Of(r)].state, task[Of(r)].written)
    BY <1>1, <2>1, <2>2 DEF One, Asked, Outcome, Staged, Held
  <2> QED BY <1>1, <2>1, <2>3, GoingOn
<1> QED BY <1>2, <1>3

\* The run that ends.
LEMMA EndGoes ==
  ASSUME Good, NEW r \in Runs, Flush(r) \/ Complete(r) \/ GiveUp(r)
  PROVE  Goings(r)
<1>1. CASE Flush(r)
  <2>1. /\ loop[r].pc = "flush" /\ At(r, "off", loop[r].keep) /\ setup' = setup
        /\ job' = job /\ mishaps' = mishaps /\ task' = task
    BY <1>1, FlushIs
  <2>2. Of(r) \in Runs
    BY <2>1, RunIs
  <2>3. Alone /\ One => Outcome(r, "off", loop[r].keep, task[Of(r)].state, task[Of(r)].written)
    BY <2>1, <2>2 DEF One, Asked, Outcome, Staged, Held, Stopped
  <2> QED BY <2>1, <2>3, GoingOn
<1>2. CASE Complete(r) \/ GiveUp(r)
  <2>1. /\ loop[r].pc = "end" /\ At(r, "off", loop[r].keep) /\ setup' = setup
        /\ job' = job /\ mishaps' = mishaps
        /\ \/ loop[r].keep /\ Tells(Of(r), "completed", task[Of(r)].written)
           \/ ~loop[r].keep /\ Tells(Of(r), task[Of(r)].state, task[Of(r)].written)
    BY <1>2, EndIs
  <2>2. Of(r) \in Runs /\ task[Of(r)].state # "none"
    BY <2>1, RunIs
  <2>3. PICK state : /\ Tells(Of(r), state, task[Of(r)].written) /\ state # "none"
                     /\ \/ state = "completed"
                        \/ ~loop[r].keep /\ state = task[Of(r)].state
    BY <2>1, <2>2
  <2>4. Alone /\ One => Outcome(r, "off", loop[r].keep, state, task[Of(r)].written)
    BY <2>1, <2>2, <2>3 DEF One, Asked, Outcome, Staged, Held
  <2>5. Going(r, "off", loop[r].keep, state, task[Of(r)].written)
    BY <2>1, <2>2, <2>3, <2>4 DEF Going
  <2> QED BY <2>5 DEF Goings
<1> QED BY <1>1, <1>2

\* Whatever a run does, it goes on or ends.
LEMMA RunsGo ==
  ASSUME Good, NEW r \in Runs, LoopStep(r)
  PROVE  Goings(r)
  BY PlainGoes, ProbeFailsGoes, PrepareGoes, JoinGoes, AssembleGoes, EndGoes DEF LoopStep

\* There is no later run than the latest, and what it is of is no earlier.
LEMMA NewestIs ==
  ASSUME Order, Sequential, NEW t \in Used, ~Superseded(t), Of(t) = t
  PROVE  \E q \in Runs : Newest(q) /\ Of(q) = t
<1>1. PICK q \in Used : Newest(q)
  BY DEF Order
<1>2. t <= q /\ Of(t) <= Of(q)
  BY <1>1 DEF Newest, Sequential
<1>3. ~(Of(q) > t)
  BY DEF Superseded, Of, Used
<1>4. Of(q) \in Nat /\ t \in Nat /\ q \in Runs
  BY RunsAre DEF Order, Used
<1> QED BY <1>1, <1>2, <1>3, <1>4

\* The app stops a task.
LEMMA StopKeeps ==
  ASSUME Good, Order, Alone => One, NEW t \in Runs, Pause(t) \/ Cancel(t)
  PROVE  Order' /\ (Alone' => One')
<1>1. /\ setup' = setup /\ loop' = loop /\ Told(t)
      /\ mishaps' = mishaps \/ (mishaps' = IF Superseded(t) THEN mishaps \cup {"overlap"} ELSE mishaps)
      /\ Pause(t) => mishaps' = mishaps
      /\ Cancel(t) => mishaps' = IF Superseded(t) THEN mishaps \cup {"overlap"} ELSE mishaps
  BY AbortIs DEF Pause, Cancel, Noted
<1>2. /\ task[t].state \in {"running", "paused", "failed"} /\ OnlyTask(t)
      /\ task'[t].stop /\ task'[t].current = task[t].current
      /\ task'[t].written = task[t].written /\ task'[t].completer = task[t].completer
      /\ \/ /\ Pause(t) /\ task[t].state = "running" /\ task'[t].state = "paused"
            /\ task'[t].cancel = task[t].cancel /\ task'[t].finish = task[t].finish
         \/ /\ Cancel(t) /\ task'[t].state = "canceled" /\ task'[t].cancel
            /\ task'[t].finish = "wait"
  BY PauseIs, CancelIs
<1>3. Segs' = Segs /\ Used' = Used /\ \A r \in Runs : Newest(r)' <=> Newest(r)
  BY <1>1, SetupKept, UsedKept DEF OfKept
<1>4. Used \subseteq Runs
  BY DEF Used
<1>5. \A q \in Runs : q # t => task'[q] = task[q]
  BY <1>2 DEF OnlyTask
<1>6. Order'
  <2>1. Used' # {} => \E r \in Used' : Newest(r)'
    BY <1>3, <1>4 DEF Order
  <2>2. \A q \in Runs : task'[q].state # "none" => loop'[q].of = q
    BY <1>1, <1>2, <1>5 DEF Order, Of
  <2>3. \A q \in Runs, s \in Segs :
          task'[q].state # "none" /\ task'[q].completer[s] # NoRun =>
            task'[q].completer[s] \in Runs /\ loop'[task'[q].completer[s]].of = q
    <3>1. \A q \in Runs : task'[q].completer = task[q].completer
                          /\ (task'[q].state # "none" => task[q].state # "none")
      BY <1>2, <1>5
    <3> QED BY <1>1, <3>1 DEF Order, Of
  <2>4. \A p \in Used', q \in Runs : q <= p => q \in Used'
    BY <1>3 DEF Order
  <2>5. \A q \in Used' : loop'[q].of \in Used' /\ loop'[q].of <= q
                         /\ loop'[loop'[q].of].of = loop'[q].of
    BY <1>1, <1>3 DEF Order, Of
  <2> QED BY <1>3, <2>1, <2>2, <2>3, <2>4, <2>5 DEF Order, Of
<1>7. ASSUME Alone' PROVE One'
  <2>1. One
    BY <1>1, <1>7 DEF Alone
  <2>2. Sequential'
    <3>1. \A q, r \in Used' : q <= r => loop'[q].of <= loop'[r].of
      BY <1>1, <1>3, <2>1 DEF One, Sequential, Of
    <3>2. \A r \in Runs : loop'[r].pc # "off" => Newest(r)'
      BY <1>1, <1>3, <2>1 DEF One, Sequential
    <3>3. \A r \in Runs : Newest(r)' /\ task'[loop'[r].of].state # "none" =>
            task'[loop'[r].of].current = r
      <4>1. \A r \in Runs : Newest(r) => Of(r) \in Runs
        BY <1>4 DEF Order, Newest
      <4>2. \A q \in Runs : task'[q].current = task[q].current
                            /\ (task'[q].state # "none" => task[q].state # "none")
        BY <1>2, <1>5
      <4> QED BY <1>1, <1>3, <2>1, <4>1, <4>2 DEF One, Sequential, Of
    <3> QED BY <3>1, <3>2, <3>3 DEF Sequential, Of
  <2>3. task[t].state = "running" => ~task[t].cancel /\ task[t].finish = "no"
    BY <2>1 DEF One, Asked
  <2>4. Asked'
    <3>1. \A q \in Runs : task'[q].cancel => task'[q].stop /\ task'[q].state \in {"canceled", "completed"}
      BY <1>2, <1>5, <2>1, <2>3 DEF One, Asked
    <3>2. \A q \in Runs : task'[q].finish # "no" => task'[q].cancel
      BY <1>2, <1>5, <2>1, <2>3 DEF One, Asked
    <3>3. \A q \in Runs : task'[q].state = "paused" => task'[q].stop
      BY <1>2, <1>5, <2>1 DEF One, Asked
    <3>4. \A q \in Runs : task'[q].state = "running" =>
            ~task'[q].stop /\ \E r \in Runs : Newest(r)' /\ loop'[r].of = q /\ loop'[r].pc # "off"
      BY <1>1, <1>2, <1>3, <1>5, <2>1 DEF One, Asked, Of
    <3> QED BY <3>1, <3>2, <3>3, <3>4 DEF Asked, Of
  <2>5. Cleaning'
    <3>1. CASE Pause(t)
      <4>1. \A q \in Runs : task'[q].finish = task[q].finish
        <5>1. task'[t].state = "paused"
          BY <3>1, PauseIs
        <5> QED BY <1>2, <1>5, <5>1
      <4> QED BY <1>1, <1>3, <2>1, <4>1 DEF One, Cleaning, Finishing, Deleting, Of
    <3>2. CASE Cancel(t) /\ ~Pause(t)
      <4>1. ~Superseded(t)
        BY <1>1, <1>7, <3>2 DEF Alone
      <4>2. Of(t) = t /\ t \in Used
        <5>1. Of(t) = t
          BY <1>2 DEF Order
        <5>2. t # NoRun
          BY RunsAre
        <5> QED BY <5>1, <5>2 DEF Used, Of
      <4>3. \E q \in Runs : Newest(q) /\ Of(q) = t
        BY <2>1, <4>1, <4>2, NewestIs DEF One
      <4>4. task'[t].finish = "wait" /\ \A q \in Runs : q # t => task'[q].finish = task[q].finish
        BY <1>2, <1>5, <3>2
      <4>5. \A q \in Runs : task'[q].finish \notin {"no", "end"} =>
              \E r \in Runs : Newest(r)' /\ loop'[r].of = q
        BY <1>1, <1>3, <2>1, <4>3, <4>4 DEF One, Cleaning, Finishing, Of
      <4>6. \A q \in Runs : task'[q].finish \in {"parts", "sidecar", "dest"} =>
              \A r \in Runs : loop'[r].pc = "off"
        BY <1>1, <2>1, <4>4 DEF One, Cleaning, Deleting
      <4> QED BY <4>5, <4>6 DEF Cleaning, Finishing, Deleting, Of
    <3> QED BY <3>1, <3>2
  <2>6. Staged'
    <3>1. \A r \in Runs : loop[r].pc # "off" => Of(r) \in Runs
      BY DEF Good, Linked
    <3>2. \A r \in Runs : loop'[r].pc \in {"parts", "sidecar", "end"} /\ ~loop'[r].keep =>
            task'[loop'[r].of].state \in {"failed", "canceled"}
      <4>1. \A r \in Runs : loop'[r].pc \in {"parts", "sidecar", "end"} /\ ~loop'[r].keep =>
              Of(r) \in Runs /\ task[Of(r)].state \in {"failed", "canceled"}
        BY <1>1, <2>1, <3>1 DEF One, Staged
      <4>2. task[t].state \in {"failed", "canceled"} => task'[t].state = "canceled"
        BY <1>2
      <4> QED BY <1>1, <1>5, <4>1, <4>2 DEF Of
    <3>3. \A r \in Runs : loop'[r].pc = "flush" => task'[loop'[r].of].stop
      BY <1>1, <1>2, <1>5, <2>1, <3>1 DEF One, Staged, Of, Stopped
    <3>4. \A r \in Runs, s \in Segs : loop'[r].pc # "work" => job'[r][s].pc \in Idle
      BY <1>1, <2>1 DEF One, Staged, Told
    <3>5. \A q \in Runs : task'[q].written = task[q].written
      BY <1>2, <1>5
    <3>6. \A r \in Runs : loop'[r].pc \in {"probe", "prepare"} => task'[loop'[r].of].written = <<>>
      BY <1>1, <2>1, <3>1, <3>5 DEF One, Staged, Of
    <3>7. \A r \in Runs : loop'[r].pc \in Held => task'[loop'[r].of].written # <<>>
      BY <1>1, <2>1, <3>1, <3>5 DEF One, Staged, Of, Held
    <3> QED BY <1>3, <3>2, <3>3, <3>4, <3>6, <3>7 DEF Staged, Of, Stopped, Idle, Held
  <2> QED BY <2>2, <2>4, <2>5, <2>6 DEF One
<1> QED BY <1>6, <1>7

\* The cleanup of a cancellation starts when the latest run is off.
LEMMA FinishKeeps ==
  ASSUME Good, Order, Alone => One, NEW t \in Runs, FinishCancel(t)
  PROVE  Order' /\ (Alone' => One')
<1>1. /\ OnlyTask(t) /\ setup' = setup /\ loop' = loop /\ job' = job /\ mishaps' = mishaps
      /\ task'[t].state = task[t].state /\ task'[t].stop = task[t].stop
      /\ task'[t].cancel = task[t].cancel /\ task'[t].current = task[t].current
      /\ task'[t].written = task[t].written /\ task'[t].completer = task[t].completer
      /\ \/ task[t].finish = "wait" /\ Unwound(t) /\ task'[t].finish = "parts"
         \/ task[t].finish = "parts" /\ task'[t].finish = "sidecar"
         \/ task[t].finish = "sidecar" /\ task'[t].finish = "dest"
         \/ task[t].finish = "dest" /\ task'[t].finish = "end"
  BY FinishIs
<1>2. Segs' = Segs /\ Used' = Used /\ \A r \in Runs : Newest(r)' <=> Newest(r)
  BY <1>1, SetupKept, UsedKept DEF OfKept
<1>3. Used \subseteq Runs
  BY DEF Used
<1>4. \A q \in Runs : /\ task'[q].state = task[q].state /\ task'[q].stop = task[q].stop
                      /\ task'[q].cancel = task[q].cancel /\ task'[q].current = task[q].current
                      /\ task'[q].written = task[q].written /\ task'[q].completer = task[q].completer
                      /\ q # t => task'[q].finish = task[q].finish
  BY <1>1 DEF OnlyTask
<1>5. Order'
  <2>1. Used' # {} => \E r \in Used' : Newest(r)'
    BY <1>2, <1>3 DEF Order
  <2>2. \A q \in Runs : task'[q].state # "none" => loop'[q].of = q
    BY <1>1, <1>4 DEF Order, Of
  <2>3. \A q \in Runs, s \in Segs :
          task'[q].state # "none" /\ task'[q].completer[s] # NoRun =>
            task'[q].completer[s] \in Runs /\ loop'[task'[q].completer[s]].of = q
    BY <1>1, <1>4 DEF Order, Of
  <2>4. \A p \in Used', q \in Runs : q <= p => q \in Used'
    BY <1>2 DEF Order
  <2>5. \A q \in Used' : loop'[q].of \in Used' /\ loop'[q].of <= q
                         /\ loop'[loop'[q].of].of = loop'[q].of
    BY <1>1, <1>2 DEF Order, Of
  <2> QED BY <1>2, <2>1, <2>2, <2>3, <2>4, <2>5 DEF Order, Of
<1>6. ASSUME Alone' PROVE One'
  <2>1. One
    BY <1>1, <1>6 DEF Alone
  <2>2. Sequential'
    <3>1. \A q, r \in Used' : q <= r => loop'[q].of <= loop'[r].of
      BY <1>1, <1>2, <2>1 DEF One, Sequential, Of
    <3>2. \A r \in Runs : loop'[r].pc # "off" => Newest(r)'
      BY <1>1, <1>2, <2>1 DEF One, Sequential
    <3>3. \A r \in Runs : Newest(r)' /\ task'[loop'[r].of].state # "none" =>
            task'[loop'[r].of].current = r
      <4>1. \A r \in Runs : Newest(r) => Of(r) \in Runs
        BY <1>3 DEF Order, Newest
      <4> QED BY <1>1, <1>2, <1>4, <2>1, <4>1 DEF One, Sequential, Of
    <3> QED BY <3>1, <3>2, <3>3 DEF Sequential, Of
  <2>3. Asked'
    <3>1. \A q \in Runs : task'[q].finish # "no" => task[q].finish # "no"
      BY <1>1, <1>4
    <3> QED BY <1>1, <1>2, <1>4, <2>1, <3>1 DEF One, Asked, Of
  <2>4. Cleaning'
    <3>1. \A q \in Runs : task'[q].finish \notin {"no", "end"} => task[q].finish \notin {"no", "end"}
      BY <1>1, <1>4
    <3>2. \A q \in Runs : task'[q].finish \notin {"no", "end"} =>
            \E r \in Runs : Newest(r)' /\ loop'[r].of = q
      BY <1>1, <1>2, <2>1, <3>1 DEF One, Cleaning, Finishing, Of
    <3>3. task[t].finish = "wait" /\ Unwound(t) => \A r \in Runs : loop[r].pc = "off"
      <4>1. SUFFICES ASSUME task[t].finish = "wait", Unwound(t), NEW r \in Runs, loop[r].pc # "off"
                     PROVE  FALSE
        OBVIOUS
      <4>2. PICK q \in Runs : Newest(q) /\ Of(q) = t
        BY <2>1, <4>1 DEF One, Cleaning, Finishing
      <4>3. Newest(r)
        BY <2>1, <4>1 DEF One, Sequential
      <4>4. q = r
        BY <4>2, <4>3, RunsAre DEF Newest
      <4>5. task[t].state # "none"
        BY <2>1, <4>1 DEF One, Asked
      <4>6. task[t].current = q
        BY <2>1, <4>2, <4>5 DEF One, Sequential
      <4> QED BY <4>1, <4>4, <4>6 DEF Unwound
    <3>4. \A q \in Runs : task'[q].finish \in {"parts", "sidecar", "dest"} =>
            \A r \in Runs : loop'[r].pc = "off"
      BY <1>1, <1>4, <2>1, <3>3 DEF One, Cleaning, Deleting
    <3> QED BY <3>2, <3>4 DEF Cleaning, Finishing, Deleting, Of
  <2>5. Staged'
    <3>1. \A r \in Runs : loop[r].pc # "off" => Of(r) \in Runs
      BY DEF Good, Linked
    <3> QED BY <1>1, <1>2, <1>4, <2>1, <3>1 DEF One, Staged, Of, Stopped, Idle, Held
  <2> QED BY <2>2, <2>3, <2>4, <2>5 DEF One
<1> QED BY <1>5, <1>6

\* What a run is when it begins.
Beginning(r, t, pc) ==
  /\ First(r) /\ OnlyLoop(r) /\ OnlyTask(t) /\ loop'[r].of = t /\ loop'[r].pc = pc /\ ~loop'[r].keep
  /\ task'[t].state = "running" /\ ~task'[t].stop /\ ~task'[t].cancel /\ task'[t].current = r
  /\ \A q \in Runs : q # r => job'[q] = job[q]
  /\ pc # "work" => job' = job
  /\ setup' = setup /\ mishaps \subseteq mishaps'

\* A first run is later than all.
LEMMA FirstIs ==
  ASSUME Order, NEW r \in Runs, NEW t, NEW pc, Beginning(r, t, pc), t = r \/ t \in Used
  PROVE  /\ r \notin Used /\ Used' = Used \cup {r} /\ \A q \in Used : q < r
         /\ Newest(r)' /\ \A q \in Runs : Newest(q)' => q = r
         /\ t \in Runs
<1>1. /\ loop[r].of = NoRun /\ \A q \in Runs : q < r => loop[q].of # NoRun
      /\ loop'[r].of = t /\ \A q \in Runs : q # r => loop'[q] = loop[q]
  BY DEF Beginning, First, OnlyLoop
<1>2. r \notin Used /\ t \in Runs /\ t # NoRun /\ Used \subseteq Runs
  BY <1>1, RunsAre DEF Used
<1>3. Used' = Used \cup {r}
  BY <1>1, <1>2 DEF Used
<1>4. \A q \in Used : q < r
  <2>1. SUFFICES ASSUME NEW q \in Used, r <= q PROVE FALSE
    BY <1>2, RunsAre
  <2> QED BY <1>2, <2>1 DEF Order
<1>5. Newest(r)' /\ \A q \in Runs : Newest(q)' => q = r
  BY <1>2, <1>3, <1>4, RunsAre DEF Newest
<1> QED BY <1>2, <1>3, <1>4, <1>5

\* Order, when a run begins.
LEMMA BeginsInOrder ==
  ASSUME Good, Order, NEW r \in Runs, NEW t, NEW pc, Beginning(r, t, pc),
         \/ t = r /\ \A s \in Segs : task'[t].completer[s] = NoRun
         \/ t \in Used /\ Of(t) = t /\ task[t].state # "none" /\ task'[t].completer = task[t].completer
  PROVE  Order'
<1>1. /\ r \notin Used /\ Used' = Used \cup {r} /\ \A q \in Used : q < r
      /\ Newest(r)' /\ t \in Runs
  BY FirstIs
<1>2. /\ loop'[r].of = t /\ \A q \in Runs : q # r => loop'[q].of = Of(q)
      /\ \A q \in Runs : q # t => task'[q] = task[q]
      /\ Segs' = Segs /\ Used \subseteq Runs
      /\ \A q \in Runs : q < r => q \in Used
  BY SetupKept DEF Beginning, First, OnlyLoop, OnlyTask, Of, Used
<1>3. Runs \subseteq Nat \ {0} /\ NoRun = 0 /\ r \in Nat /\ t \in Nat
  BY <1>1, RunsAre
<1>4. \E q \in Used' : Newest(q)'
  BY <1>1
<1>5. \A p \in Used', q \in Runs : q <= p => q \in Used'
  <2>1. SUFFICES ASSUME NEW p \in Used', NEW q \in Runs, q <= p
                 PROVE  q \in Used \cup {r}
    BY <1>1
  <2>2. CASE p = r
    BY <1>2, <1>3, <2>1, <2>2
  <2>3. CASE p \in Used
    BY <2>1, <2>3 DEF Order
  <2> QED BY <1>1, <2>2, <2>3
<1>6. \A p \in Used' : loop'[p].of \in Used' /\ loop'[p].of <= p /\ loop'[loop'[p].of].of = loop'[p].of
  <2>1. ASSUME NEW p \in Used
        PROVE  loop'[p].of \in Used' /\ loop'[p].of <= p /\ loop'[loop'[p].of].of = loop'[p].of
    <3>1. Of(p) \in Used /\ Of(p) <= p /\ Of(Of(p)) = Of(p)
      BY DEF Order
    <3>2. p # r /\ Of(p) # r
      BY <1>1, <3>1
    <3> QED BY <1>1, <1>2, <3>1, <3>2
  <2>2. loop'[r].of \in Used' /\ loop'[r].of <= r /\ loop'[loop'[r].of].of = loop'[r].of
    <3>1. CASE t = r
      BY <1>1, <1>2, <1>3, <3>1
    <3>2. CASE t \in Used /\ Of(t) = t
      <4>1. t < r /\ t # r
        BY <1>1, <1>3, <3>2
      <4> QED BY <1>1, <1>2, <1>3, <3>2, <4>1
    <3> QED BY <3>1, <3>2
  <2> QED BY <1>1, <2>1, <2>2
<1>7. \A q \in Runs : task'[q].state # "none" => loop'[q].of = q
  <2>1. SUFFICES ASSUME NEW q \in Runs, task'[q].state # "none" PROVE loop'[q].of = q
    OBVIOUS
  <2>2. CASE q = t
    BY <1>2, <2>2
  <2>3. CASE q # t
    <3>1. Of(q) = q
      BY <1>2, <2>1, <2>3 DEF Order
    <3>2. q # r
      BY <1>1, <1>3, <3>1 DEF Used, Of
    <3> QED BY <1>2, <3>1, <3>2
  <2> QED BY <2>2, <2>3
<1>8. \A q \in Runs, s \in Segs :
        task'[q].state # "none" /\ task'[q].completer[s] # NoRun =>
          task'[q].completer[s] \in Runs /\ loop'[task'[q].completer[s]].of = q
  <2>1. SUFFICES ASSUME NEW q \in Runs, NEW s \in Segs, task'[q].state # "none",
                        task'[q].completer[s] # NoRun
                 PROVE  task'[q].completer[s] \in Runs /\ loop'[task'[q].completer[s]].of = q
    OBVIOUS
  <2>2. task[q].state # "none" /\ task'[q].completer = task[q].completer
    BY <1>2, <2>1
  <2>3. task[q].completer[s] \in Runs /\ Of(task[q].completer[s]) = q
    BY <2>1, <2>2 DEF Order
  <2>4. task[q].completer[s] # r
    BY <1>1, <1>3, <2>3 DEF Used, Of
  <2> QED BY <1>2, <2>2, <2>3, <2>4
<1> QED BY <1>2, <1>4, <1>5, <1>6, <1>7, <1>8 DEF Order, Of

\* Nothing else goes on when a run begins.
LEMMA BeginsAlone ==
  ASSUME Good, Order, One, NEW r \in Runs, NEW t, NEW pc \in {"probe", "work"}, Beginning(r, t, pc),
         t = r \/ t \in Used, \A q \in Used : Of(q) <= t,
         \A q \in Runs : loop[q].pc = "off" /\ ~Finishing(q),
         task'[t].finish = "no", pc = "probe" <=> task'[t].written = <<>>
  PROVE  One'
<1>1. /\ r \notin Used /\ Used' = Used \cup {r} /\ \A q \in Used : q < r
      /\ Newest(r)' /\ t \in Runs /\ \A q \in Runs : Newest(q)' => q = r
  BY FirstIs
<1>2. /\ loop'[r].of = t /\ loop'[r].pc = pc /\ ~loop'[r].keep
      /\ \A q \in Runs : q # r => loop'[q] = loop[q]
      /\ \A q \in Runs : q # t => task'[q] = task[q]
      /\ Segs' = Segs /\ Used \subseteq Runs
      /\ task'[t].state = "running" /\ ~task'[t].stop /\ ~task'[t].cancel /\ task'[t].current = r
      /\ \A q \in Runs : q # r => job'[q] = job[q]
      /\ pc # "work" => job' = job
  BY SetupKept DEF Beginning, OnlyLoop, OnlyTask, Used
<1>3. Runs \subseteq Nat \ {0} /\ NoRun = 0 /\ r \in Nat /\ t \in Nat
  BY <1>1, RunsAre
<1>4. Sequential'
  <2>1. \A p, q \in Used' : p <= q => loop'[p].of <= loop'[q].of
    <3>1. SUFFICES ASSUME NEW p \in Used', NEW q \in Used', p <= q
                   PROVE  loop'[p].of <= loop'[q].of
      OBVIOUS
    <3>2. CASE p = r /\ q = r
      BY <1>2, <1>3, <3>2
    <3>3. CASE p \in Used /\ q = r
      <4>1. p # r
        BY <1>1, <3>3
      <4> QED BY <1>2, <3>3, <4>1 DEF Of
    <3>4. CASE p \in Used /\ q \in Used
      <4>1. p # r /\ q # r
        BY <1>1, <3>4
      <4> QED BY <1>2, <3>1, <3>4, <4>1 DEF One, Sequential, Of
    <3>5. CASE p = r /\ q \in Used
      BY <1>1, <1>2, <1>3, <3>1, <3>5
    <3> QED BY <1>1, <3>2, <3>3, <3>4, <3>5
  <2>2. \A q \in Runs : loop'[q].pc # "off" => Newest(q)'
    BY <1>1, <1>2
  <2>3. \A q \in Runs : Newest(q)' /\ task'[loop'[q].of].state # "none" => task'[loop'[q].of].current = q
    BY <1>1, <1>2
  <2> QED BY <2>1, <2>2, <2>3 DEF Sequential, Of
<1>5. Asked'
  <2>1. \A q \in Runs : task'[q].state = "running" => q = t
    BY <1>2 DEF One, Asked
  <2>2. \A q \in Runs : task'[q].cancel => task'[q].stop /\ task'[q].state \in {"canceled", "completed"}
    BY <1>2 DEF One, Asked
  <2>3. \A q \in Runs : task'[q].finish # "no" => task'[q].cancel
    BY <1>2 DEF One, Asked
  <2>4. \A q \in Runs : task'[q].state = "paused" => task'[q].stop
    BY <1>2 DEF One, Asked
  <2>5. \A q \in Runs : task'[q].state = "running" =>
          ~task'[q].stop /\ \E p \in Runs : Newest(p)' /\ loop'[p].of = q /\ loop'[p].pc # "off"
    BY <1>1, <1>2, <2>1
  <2> QED BY <2>2, <2>3, <2>4, <2>5 DEF Asked, Of
<1>6. Cleaning'
  <2>1. \A q \in Runs : ~(task'[q].finish \notin {"no", "end"})
    BY <1>2 DEF Finishing
  <2> QED BY <2>1 DEF Cleaning, Finishing, Deleting
<1>7. Staged'
  <2>1. \A q \in Runs : loop'[q].pc # "off" => q = r
    BY <1>2
  <2>2. \A q \in Runs, s \in Segs : loop'[q].pc # "work" => job'[q][s].pc \in Idle
    <3>1. \A q \in Runs, s \in Segs : job[q][s].pc \in Idle
      BY DEF One, Staged
    <3> QED BY <1>2, <3>1
  <2>3. \A q \in Runs : loop'[q].pc \in {"parts", "sidecar", "end"} /\ ~loop'[q].keep =>
          task'[loop'[q].of].state \in {"failed", "canceled"}
    BY <1>2, <2>1
  <2>4. \A q \in Runs : loop'[q].pc # "flush"
    BY <1>2, <2>1
  <2>5. \A q \in Runs : loop'[q].pc \in {"probe", "prepare"} => task'[loop'[q].of].written = <<>>
    BY <1>2, <2>1
  <2>6. \A q \in Runs : loop'[q].pc \in Held => task'[loop'[q].of].written # <<>>
    BY <1>2, <2>1 DEF Held
  <2> QED BY <1>2, <2>2, <2>3, <2>4, <2>5, <2>6 DEF Staged, Of, Stopped, Idle, Held
<1> QED BY <1>4, <1>5, <1>6, <1>7 DEF One

LEMMA EnqueueKeeps ==
  ASSUME Good, Order, Alone => One, Enqueue
  PROVE  Order' /\ (Alone' => One')
<1>1. /\ setup' = setup /\ job' = job /\ \A t \in Runs : task[t].state # "running"
      /\ mishaps \subseteq mishaps' /\ ("overlap" \notin mishaps' => \A t \in Runs : Quiet(t))
  BY EnqueueIs
<1>2. PICK r \in Runs :
        /\ First(r) /\ OnlyTask(r) /\ OnlyLoop(r)
        /\ loop'[r].of = r /\ loop'[r].pc = "probe" /\ ~loop'[r].keep
        /\ task'[r].state = "running" /\ ~task'[r].stop /\ ~task'[r].cancel
        /\ task'[r].current = r /\ task'[r].finish = "no" /\ task'[r].written = <<>>
        /\ \A s \in Segs : task'[r].completer[s] = NoRun
  BY EnqueueIs
<1>3. Beginning(r, r, "probe")
  BY <1>1, <1>2 DEF Beginning
<1>4. Order'
  BY <1>2, <1>3, BeginsInOrder
<1>5. ASSUME Alone' PROVE One'
  <2>1. One /\ \A t \in Runs : Quiet(t)
    BY <1>1, <1>5 DEF Alone
  <2>2. \A q \in Runs : loop[q].pc = "off" /\ ~Finishing(q)
    <3>1. \A q \in Runs : loop[q].pc # "off" => Of(q) \in Runs
      BY DEF Good, Linked
    <3> QED BY <2>1, <3>1 DEF Quiet, Settled, Of, Finishing
  <2>3. \A q \in Used : q < r
    BY <1>3, FirstIs
  <2>4. \A q \in Used : Of(q) <= r
    <3>1. \A q \in Used : Of(q) \in Runs /\ q \in Runs /\ Of(q) <= q
      BY DEF Order, Used
    <3>2. \A q \in Used : Of(q) \in Nat /\ q \in Nat /\ r \in Nat
      BY <3>1, RunsAre
    <3>3. \A q \in Used : Of(q) <= q /\ q < r
      BY <2>3, <3>1
    <3> HIDE DEF Of, Used
    <3> QED BY <3>2, <3>3
  <2> QED BY <1>2, <1>3, <2>1, <2>2, <2>4, BeginsAlone
<1> QED BY <1>4, <1>5

LEMMA ResumeKeeps ==
  ASSUME Good, Order, Alone => One, NEW t \in Runs, Resume(t)
  PROVE  Order' /\ (Alone' => One')
<1>1. /\ setup' = setup /\ mishaps \subseteq mishaps' /\ task[t].state \in {"paused", "failed"}
      /\ "overlap" \notin mishaps' => Quiet(t) /\ ~Superseded(t)
      /\ OnlyTask(t) /\ task'[t].state = "running" /\ ~task'[t].stop /\ ~task'[t].cancel
      /\ task'[t].finish = task[t].finish /\ task'[t].written = task[t].written
      /\ task'[t].completer = task[t].completer
  BY ResumeIs
<1>2. PICK r \in Runs :
        /\ First(r) /\ OnlyLoop(r) /\ task'[t].current = r
        /\ loop'[r].of = t /\ ~loop'[r].keep
        /\ \/ task[t].written = <<>> /\ loop'[r].pc = "probe" /\ job' = job
           \/ /\ task[t].written # <<>> /\ loop'[r].pc = "work"
              /\ Spread(r, task[t].written)
  BY ResumeIs
<1>3. PICK pc \in {"probe", "work"} :
        /\ loop'[r].pc = pc /\ (pc = "probe" <=> task[t].written = <<>>)
        /\ \A q \in Runs : q # r => job'[q] = job[q]
        /\ pc # "work" => job' = job
  BY <1>2, StartedIs DEF Started
<1>4. Beginning(r, t, pc)
  BY <1>1, <1>2, <1>3 DEF Beginning
<1>5. Of(t) = t /\ t \in Used
  <2>1. Of(t) = t
    BY <1>1 DEF Order
  <2>2. t # NoRun
    BY RunsAre
  <2> QED BY <2>1, <2>2 DEF Used, Of
<1>6. Order'
  <2>1. task[t].state # "none"
    BY <1>1
  <2> QED BY <1>1, <1>4, <1>5, <2>1, BeginsInOrder
<1>7. ASSUME Alone' PROVE One'
  <2>1. One /\ Quiet(t) /\ ~Superseded(t)
    BY <1>1, <1>7 DEF Alone
  <2>2. PICK n \in Runs : Newest(n) /\ Of(n) = t
    BY <1>5, <2>1, NewestIs DEF One
  <2>3. loop[n].pc = "off" /\ task[t].finish \in {"no", "end"}
    BY <2>1, <2>2 DEF Quiet, Settled, Of
  <2>4. \A q \in Runs : Newest(q) => q = n
    BY <2>2, RunsAre DEF Newest
  <2>5. \A q \in Runs : loop[q].pc = "off" /\ ~Finishing(q)
    BY <2>1, <2>2, <2>3, <2>4 DEF One, Sequential, Cleaning, Finishing
  <2>6. \A q \in Used : Of(q) <= t
    <3>1. \A q \in Used : Of(q) \in Runs /\ q \in Runs /\ ~(Of(q) > t)
      BY <2>1 DEF Order, Used, Superseded, Of
    <3>2. \A q \in Used : Of(q) \in Nat /\ t \in Nat /\ ~(Of(q) > t)
      BY <3>1, RunsAre
    <3> HIDE DEF Of, Used
    <3> QED BY <3>2
  <2>7. task'[t].finish = "no"
    BY <1>1, <2>1 DEF One, Asked
  <2> QED BY <1>1, <1>3, <1>4, <1>5, <2>1, <2>5, <2>6, <2>7, BeginsAlone
<1> QED BY <1>6, <1>7

LEMMA CrashKeeps ==
  ASSUME Good, Order, Alone => One, Crash
  PROVE  Order' /\ (Alone' => One')
<1>1. /\ setup' = setup
      /\ \A t \in Runs : task'[t] = NoTask
      /\ \A r \in Runs : loop'[r].of = Of(r) /\ loop'[r].pc = "off" /\ ~loop'[r].keep
      /\ \A r \in Runs, s \in Segs : job'[r][s] = NoJob
      /\ mishaps \subseteq mishaps'
  BY CrashIs DEF Noted
<1>2. /\ Segs' = Segs /\ Used' = Used /\ \A r \in Runs : Newest(r)' <=> Newest(r)
      /\ Used \subseteq Runs
  BY <1>1, SetupKept, UsedKept DEF OfKept, Of, Used
<1>3. /\ NoTask.state = "none" /\ ~NoTask.cancel /\ NoTask.finish = "no" /\ NoJob.pc = "none"
  BY DEF NoTask, NoJob
<1>4. Order'
  <2>1. Used' # {} => \E r \in Used' : Newest(r)'
    BY <1>2 DEF Order
  <2>2. \A q \in Runs : task'[q].state = "none"
    BY <1>1, <1>3
  <2>3. \A p \in Used', q \in Runs : q <= p => q \in Used'
    BY <1>2 DEF Order
  <2>4. \A q \in Used' : loop'[q].of \in Used' /\ loop'[q].of <= q
                         /\ loop'[loop'[q].of].of = loop'[q].of
    BY <1>1, <1>2 DEF Order, Of
  <2> QED BY <2>1, <2>2, <2>3, <2>4 DEF Order, Of
<1>5. ASSUME Alone' PROVE One'
  <2>1. One
    BY <1>1, <1>5 DEF Alone
  <2>2. Sequential'
    <3>1. \A p, q \in Used' : p <= q => loop'[p].of <= loop'[q].of
      BY <1>1, <1>2, <2>1 DEF One, Sequential
    <3>2. \A r \in Runs : Newest(r)' => loop'[r].of \in Runs
      BY <1>1, <1>2 DEF Newest, Order
    <3> QED BY <1>1, <1>3, <3>1, <3>2 DEF Sequential, Of
  <2>3. Asked'
    BY <1>1, <1>3 DEF Asked
  <2>4. Cleaning'
    BY <1>1, <1>3 DEF Cleaning, Finishing, Deleting
  <2>5. Staged'
    BY <1>1, <1>2, <1>3 DEF Staged, Idle, Held
  <2> QED BY <2>2, <2>3, <2>4, <2>5 DEF One
<1> QED BY <1>4, <1>5

LEMMA InitOne == Init => Order /\ (Alone => One)
<1> SUFFICES ASSUME Init PROVE Order /\ One
  OBVIOUS
<1>1. /\ \A t \in Runs : task[t] = NoTask
      /\ \A r \in Runs : loop[r] = NoLoop
      /\ \A r \in Runs, s \in Segs : job[r][s] = NoJob
  BY DEF Init
<1>2. /\ NoTask.state = "none" /\ ~NoTask.cancel /\ NoTask.finish = "no" /\ NoJob.pc = "none"
      /\ NoLoop.of = NoRun /\ NoLoop.pc = "off"
  BY DEF NoTask, NoJob, NoLoop
<1>3. Used = {}
  BY <1>1, <1>2 DEF Used
<1>4. Order
  BY <1>1, <1>2, <1>3 DEF Order
<1>5. Sequential /\ Asked /\ Cleaning /\ Staged
  BY <1>1, <1>2, <1>3 DEF Sequential, Asked, Cleaning, Staged, Finishing, Deleting, Newest, Idle, Held
<1> QED BY <1>4, <1>5 DEF One

\* One run at a time, whatever happens.
LEMMA OneNext ==
  ASSUME Good, Order, Alone => One, [Next]_vars
  PROVE  Order' /\ (Alone' => One')
<1>1. CASE UNCHANGED vars
  <2>1. Calm
    BY <1>1 DEF Calm, vars, Steady
  <2> QED BY <2>1, CalmKeeps
<1>2. CASE App
  BY <1>2, EnqueueKeeps, ResumeKeeps, StopKeeps DEF App
<1>3. CASE Crash
  BY <1>3, CrashKeeps
<1>4. ASSUME NEW r \in Runs, LoopStep(r)
      PROVE  Order' /\ (Alone' => One')
  BY <1>4, RunsGo, GoingKeeps DEF Goings
<1>5. ASSUME NEW r \in Runs, FinishCancel(r)
      PROVE  Order' /\ (Alone' => One')
  BY <1>5, FinishKeeps
<1>6. ASSUME NEW r \in Runs, NEW s \in Segs, SegmentStep(r, s) \/ Arrives(r, s)
      PROVE  Order' /\ (Alone' => One')
  BY <1>6, HandlersCalm, CalmKeeps
<1> QED BY <1>1, <1>2, <1>3, <1>4, <1>5, <1>6 DEF Next

-----------------------------------------------------------------------------
(* A cancellation leaves nothing.                                          *)

\* Neither two tasks at once, nor a write or a commit after its run.
Kempt == mishaps \cap {"overlap", "late"} = {}

\* What a cancellation has deleted stays deleted.
Erased ==
  \A t \in Runs :
    /\ task[t].finish \in {"sidecar", "dest"} /\ task[t].written # <<>> => part = <<>>
    /\ task[t].finish = "dest" => sidecar = {}


\* While a cancellation deletes, a handler neither adds a part nor a sidecar.
LEMMA HandlersErase ==
  ASSUME Good, One, NEW r \in Runs, NEW s \in Segs, SegmentStep(r, s) \/ Arrives(r, s),
         \A q \in Runs : loop[q].pc = "off", "late" \notin mishaps'
  PROVE  sidecar' = sidecar /\ (part = <<>> => part' = <<>>)
<1>1. job[r][s].pc \in Idle
  BY DEF One, Staged
<1>2. CASE Granted(r, s)
  BY <1>1, <1>2 DEF Granted, Idle
<1>3. CASE Get(r, s) \/ GetFails(r, s) \/ WriteFails(r, s) \/ Leave(r, s) \/ Arrives(r, s)
  BY <1>3 DEF Get, GetFails, WriteFails, Leave, Arrives, Chunk, StreamEnds, StreamFails, disk
<1>4. CASE Wrote(r, s)
  <2>1. /\ sidecar' = sidecar
        /\ part' = [q \in DOMAIN part |-> IF q = s THEN Append(part[q], job[r][s].next) ELSE part[q]]
    BY <1>4 DEF Wrote
  <2>2. ASSUME part = <<>> PROVE part' = <<>>
    <3>1. DOMAIN part = {}
      BY <2>2
    <3> QED BY <2>1, <3>1
  <2> QED BY <2>1, <2>2
<1>5. CASE Commit(r, s)
  BY <1>5 DEF Commit, Noted
<1> QED BY <1>2, <1>3, <1>4, <1>5 DEF SegmentStep

LEMMA ErasedNext ==
  ASSUME Good, Alone => One, Kempt => Erased, [Next]_vars, Kempt'
  PROVE  Erased'
<1> USE DEF Erased
<1>0. ASSUME mishaps \subseteq mishaps'
      PROVE  Kempt /\ Alone /\ One /\ Erased /\ "late" \notin mishaps'
  BY <1>0 DEF Kempt, Alone
<1>1. CASE UNCHANGED vars
  BY <1>0, <1>1 DEF vars
<1>2. CASE Enqueue
  <2>1. /\ UNCHANGED <<part, sidecar>> /\ mishaps \subseteq mishaps'
    BY <1>2, EnqueueIs
  <2>2. PICK r \in Runs : OnlyTask(r) /\ task'[r].finish = "no"
    BY <1>2, EnqueueIs
  <2> QED BY <1>0, <2>1, <2>2 DEF OnlyTask
<1>3. ASSUME NEW t \in Runs, Resume(t)
      PROVE  Erased'
  <2>1. /\ UNCHANGED <<part, sidecar>> /\ mishaps \subseteq mishaps' /\ OnlyTask(t)
        /\ task'[t].finish = task[t].finish /\ task'[t].written = task[t].written
    BY <1>3, ResumeIs
  <2> QED BY <1>0, <2>1 DEF OnlyTask
<1>4. ASSUME NEW t \in Runs, Pause(t) \/ Cancel(t)
      PROVE  Erased'
  <2>1. UNCHANGED <<part, sidecar>> /\ mishaps \subseteq mishaps'
    BY <1>4 DEF Pause, Cancel, disk, Noted
  <2>2. /\ OnlyTask(t) /\ task'[t].written = task[t].written
        /\ task'[t].finish = task[t].finish \/ task'[t].finish = "wait"
    BY <1>4, PauseIs, CancelIs
  <2> QED BY <1>0, <2>1, <2>2 DEF OnlyTask
<1>5. ASSUME NEW r \in Runs, LoopStep(r)
      PROVE  Erased'
  <2>1. PICK pc, keep, state, written : Going(r, pc, keep, state, written)
    BY <1>5, RunsGo DEF Goings
  <2>2. loop[r].pc # "off" /\ mishaps \subseteq mishaps' /\ Of(r) \in Runs
    BY <2>1, RunIs DEF Going
  <2>3. \A t \in Runs : task'[t].finish = task[t].finish
    BY <2>1, <2>2 DEF Going, Tells, OnlyTask
  <2>4. \A t \in Runs : task[t].finish \notin {"sidecar", "dest"}
    BY <1>0, <2>2 DEF One, Cleaning, Deleting
  <2> QED BY <2>3, <2>4
<1>6. ASSUME NEW t \in Runs, FinishCancel(t)
      PROVE  Erased'
  <2>1. /\ OnlyTask(t) /\ mishaps' = mishaps /\ task'[t].written = task[t].written
        /\ \/ /\ task'[t].finish \in {"parts", "end"} /\ UNCHANGED <<part, sidecar>>
           \/ PartsGone(t) /\ task'[t].finish = "sidecar" /\ UNCHANGED sidecar
           \/ /\ task[t].finish = "sidecar" /\ sidecar' = {} /\ task'[t].finish = "dest"
              /\ UNCHANGED part
    BY <1>6, FinishIs
  <2> QED BY <1>0, <2>1 DEF OnlyTask, PartsGone
<1>7. ASSUME NEW r \in Runs, NEW s \in Segs, SegmentStep(r, s) \/ Arrives(r, s)
      PROVE  Erased'
  <2>1. Calm
    BY <1>7, HandlersCalm
  <2>2. \A t \in Runs : /\ task'[t].finish = task[t].finish
                        /\ task'[t].written = <<>> <=> task[t].written = <<>>
    BY <2>1 DEF Calm, Steady
  <2>3. mishaps \subseteq mishaps'
    BY <2>1 DEF Calm
  <2>4. SUFFICES ASSUME NEW t \in Runs, task[t].finish \in {"sidecar", "dest"}
                 PROVE  sidecar' = sidecar /\ (part = <<>> => part' = <<>>)
    BY <1>0, <2>2, <2>3
  <2>5. \A q \in Runs : loop[q].pc = "off"
    BY <1>0, <2>3, <2>4 DEF One, Cleaning, Deleting
  <2> QED BY <1>0, <1>7, <2>3, <2>5, HandlersErase
<1>8. CASE Crash
  BY <1>8, CrashIs DEF NoTask
<1> QED BY <1>1, <1>2, <1>3, <1>4, <1>5, <1>6, <1>7, <1>8 DEF Next, App

\* What a cancellation leaves when done settles.
LEMMA Leaves ==
  ASSUME Good, Alone => One, Kempt => Erased, [Next]_vars, NEW t \in Runs,
         task[t].finish = "dest", task'[t].finish = "end"
  PROVE  \/ part' = <<>> /\ sidecar' = {} /\ dest' = {}
         \/ task[t].written = <<>> \/ mishaps \cap {"overlap", "late"} # {}
<1>1. CASE UNCHANGED vars
  BY <1>1 DEF vars
<1>2. CASE Enqueue
  <2>1. PICK r \in Runs : OnlyTask(r) /\ task'[r].finish = "no"
    BY <1>2, EnqueueIs
  <2> QED BY <2>1 DEF OnlyTask
<1>3. ASSUME NEW q \in Runs, Resume(q) \/ Pause(q) \/ Cancel(q)
      PROVE  FALSE
  <2>1. OnlyTask(q) /\ (task'[q].finish = task[q].finish \/ task'[q].finish = "wait")
    BY <1>3, ResumeIs, PauseIs, CancelIs
  <2> QED BY <2>1 DEF OnlyTask
<1>4. ASSUME NEW r \in Runs, LoopStep(r)
      PROVE  FALSE
  <2>1. PICK pc, keep, state, written : Going(r, pc, keep, state, written)
    BY <1>4, RunsGo DEF Goings
  <2> QED BY <2>1 DEF Going, Tells, OnlyTask
<1>5. ASSUME NEW q \in Runs, FinishCancel(q)
      PROVE  \/ part' = <<>> /\ sidecar' = {} /\ dest' = {}
             \/ task[t].written = <<>> \/ mishaps \cap {"overlap", "late"} # {}
  <2>1. /\ OnlyTask(q)
        /\ task[q].finish = "dest" => dest' = {} /\ UNCHANGED <<part, sidecar>>
    BY <1>5, FinishIs
  <2>2. q = t
    BY <2>1 DEF OnlyTask
  <2> QED BY <2>1, <2>2 DEF Kempt, Erased
<1>6. ASSUME NEW r \in Runs, NEW s \in Segs, SegmentStep(r, s) \/ Arrives(r, s)
      PROVE  FALSE
  BY <1>6, HandlersCalm DEF Calm, Steady
<1>7. CASE Crash
  BY <1>7, CrashIs DEF NoTask
<1> QED BY <1>1, <1>2, <1>3, <1>4, <1>5, <1>6, <1>7 DEF Next, App

LEMMA AlwaysOne == Spec => [](Good /\ Order /\ (Alone => One))
<1>1. Init => Good /\ Order /\ (Alone => One)
  BY InitGood, InitOne
<1>2. Good /\ Order /\ (Alone => One) /\ [Next]_vars => (Good /\ Order /\ (Alone => One))'
  BY NextGood, OneNext
<1> QED BY <1>1, <1>2, PTL DEF Spec

\* download_task.dart:171-172: what a cancellation deletes stays deleted, and
\* when done settles no part, no sidecar and no file is left, but after two runs
\* at once, a commit that landed late, or a probe that failed.
THEOREM NothingKept == Spec => CancelLeavesNothing
<1>1. Init => (Kempt => Erased)
  BY DEF Init, NoTask, Erased
<1>2. Good /\ Order /\ (Alone => One) /\ (Kempt => Erased) /\ [Next]_vars => (Kempt => Erased)'
  BY ErasedNext
<1>3. Good /\ Order /\ (Alone => One) /\ (Kempt => Erased) /\ [Next]_vars =>
        [\A t \in Runs : task[t].finish = "dest" /\ task'[t].finish = "end" =>
          \/ part' = <<>> /\ sidecar' = {} /\ dest' = {}
          \/ task[t].written = <<>> \/ mishaps \cap {"overlap", "late"} # {}]_vars
  BY Leaves
<1> QED BY <1>1, <1>2, <1>3, AlwaysOne, PTL DEF Spec, CancelLeavesNothing

-----------------------------------------------------------------------------
(* The resume cursor.                                                      *)

\* The first n of the bytes are the first n of the segment.
Begins(bytes, s, n) ==
  n <= Length(s) /\ n <= Len(bytes) /\ \A k \in 1 .. n : bytes[k] = Piece(s)[k]

\* What a part holds.
PartBytes == Seq(Zero .. setup.total - 1)

\* The pieces of the resource, byte for byte.
LEMMA PieceIs ==
  ASSUME setup \in Setups, NEW s \in Segs
  PROVE  /\ Split[s].start \in Nat /\ Split[s].end \in Nat /\ Length(s) \in Nat \ {0}
         /\ Length(s) = Split[s].end - Split[s].start + 1
         /\ Split[s].end < setup.total
         /\ Piece(s) \in Seq(Nat) /\ Len(Piece(s)) = Length(s)
         /\ \A k \in 1 .. Length(s) : Piece(s)[k] = Split[s].start + k - 1
<1>1. PICK a \in Nat, b \in Nat, n \in Nat \ {0} :
        a = Split[s].start /\ b = Split[s].end /\ n = setup.total /\ a <= b /\ b <= n - 1
  BY SegsAre
<1>2. Resource = [k \in 1 .. n |-> k - 1]
  BY <1>1 DEF Resource
<1>3. Resource \in Seq(Nat) /\ Len(Resource) = n /\ \A k \in 1 .. n : Resource[k] = k - 1
  BY <1>2
<1>4. PICK p : p = SubSeq(Resource, a + 1, b + 1)
  OBVIOUS
<1>5. p \in Seq(Nat) /\ Len(p) = b - a + 1 /\ \A k \in 1 .. b - a + 1 : p[k] = Resource[a + k]
  <2>1. PICK lo \in Nat, hi \in Nat : lo = a + 1 /\ hi = b + 1
    BY <1>1
  <2>2. lo <= hi /\ hi <= n /\ 1 <= lo
    BY <1>1, <2>1
  <2>3. \A i \in lo .. hi : Resource[i] \in Nat
    BY <1>3, <2>2
  <2>4. p = SubSeq(Resource, lo, hi)
    BY <1>4, <2>1
  <2>5. /\ p \in Seq(Nat) /\ Len(p) = hi - lo + 1
        /\ \A k \in 1 .. hi - lo + 1 : p[k] = Resource[lo + k - 1]
    <3>1. /\ SubSeq(Resource, lo, hi) \in Seq(Nat)
          /\ Len(SubSeq(Resource, lo, hi)) = IF lo <= hi THEN hi - lo + 1 ELSE 0
          /\ \A k \in 1 .. hi - lo + 1 : SubSeq(Resource, lo, hi)[k] = Resource[lo + k - 1]
      BY <2>3, SubSeqProperties
    <3> QED BY <2>2, <2>4, <3>1
  <2>6. hi - lo + 1 = b - a + 1 /\ \A k \in 1 .. b - a + 1 : lo + k - 1 = a + k
    BY <2>1
  <2> QED BY <2>5, <2>6
<1>6. \A k \in 1 .. b - a + 1 : p[k] = a + k - 1
  <2>1. ASSUME NEW k \in 1 .. b - a + 1 PROVE p[k] = a + k - 1
    <3>1. a + k \in 1 .. n
      BY <1>1
    <3>2. Resource[a + k] = a + k - 1
      BY <1>3, <3>1
    <3> QED BY <1>5, <3>2
  <2> QED BY <2>1
<1>7. Length(s) = b - a + 1 /\ Piece(s) = p
  BY <1>1, <1>4 DEF Length, Piece
<1> QED BY <1>1, <1>5, <1>6, <1>7

\* The bytes of a part, if there is one.
LEMMA BytesAre ==
  ASSUME Types, NEW s \in Segs
  PROVE  Bytes(s) \in PartBytes
<1>1. CASE s \in DOMAIN part
  BY <1>1 DEF Types, PartsTyped, Bytes, PartBytes
<1>2. CASE s \notin DOMAIN part
  BY <1>2 DEF Bytes, PartBytes
<1> QED BY <1>1, <1>2

\* Fewer bytes are right too.
LEMMA BeginsLess ==
  ASSUME NEW bytes, NEW s, NEW n \in Nat, NEW m \in Nat, m <= n, Begins(bytes, s, n),
         Len(bytes) \in Nat, Length(s) \in Nat
  PROVE  Begins(bytes, s, m)
  BY DEF Begins

\* The next byte is right.
LEMMA BeginsMore ==
  ASSUME setup \in Setups, NEW s \in Segs, NEW bytes \in PartBytes, NEW n \in Nat, Begins(bytes, s, n),
         Len(bytes) = n, Split[s].start + n <= Split[s].end
  PROVE  LET more == Append(bytes, Split[s].start + n)
         IN  Begins(more, s, n + 1) /\ Len(more) = n + 1
<1>1. PICK a \in Nat, b \in Nat : a = Split[s].start /\ b = Split[s].end
  BY PieceIs
<1>2. PICK more : more = Append(bytes, a + n)
  OBVIOUS
<1>3. Len(more) = n + 1 /\ more[n + 1] = a + n /\ \A k \in 1 .. n : more[k] = bytes[k]
  <2>0. PICK total \in Nat : total = setup.total
    BY SegsAre
  <2>1. a + n \in Zero .. setup.total - 1
    <3>1. b < total /\ a + n <= b
      BY <1>1, <2>0, PieceIs
    <3> QED BY <3>1, <2>0 DEF Zero
  <2> QED BY <1>2, <2>1 DEF PartBytes
<1>4. Length(s) = b - a + 1 /\ n + 1 <= Length(s)
  BY <1>1, PieceIs
<1>5. Piece(s)[n + 1] = a + n
  <2>1. n + 1 \in 1 .. Length(s)
    BY <1>4, PieceIs
  <2>2. Piece(s)[n + 1] = a + (n + 1) - 1
    BY <1>1, <2>1, PieceIs
  <2> QED BY <2>2
<1>6. \A k \in 1 .. n + 1 : more[k] = Piece(s)[k]
  <2>1. SUFFICES ASSUME NEW k \in 1 .. n + 1 PROVE more[k] = Piece(s)[k]
    OBVIOUS
  <2>2. CASE k = n + 1
    BY <1>3, <1>5, <2>2
  <2>3. CASE k \in 1 .. n
    BY <1>3, <2>3 DEF Begins
  <2> QED BY <2>2, <2>3
<1> QED BY <1>1, <1>2, <1>3, <1>4, <1>6 DEF Begins

\* More bytes after them do no harm.
LEMMA BeginsLonger ==
  ASSUME NEW s, NEW bytes \in PartBytes, NEW n \in Nat, Begins(bytes, s, n),
         NEW x \in Zero .. setup.total - 1
  PROVE  Begins(Append(bytes, x), s, n)
<1>1. PICK more : more = Append(bytes, x)
  OBVIOUS
<1>2. PICK m \in Nat : m = Len(bytes)
  <2>1. Len(bytes) \in Nat
    BY LenProperties DEF PartBytes
  <2> QED BY <2>1
<1>4. Len(more) = m + 1 /\ \A k \in 1 .. m : more[k] = bytes[k]
  BY <1>1, <1>2 DEF PartBytes
<1>5. n <= m
  BY <1>2 DEF Begins
<1> QED BY <1>1, <1>2, <1>4, <1>5 DEF Begins

\* Cut to what is right, a part is right.
LEMMA BeginsCut ==
  ASSUME NEW s, NEW bytes \in PartBytes, NEW n \in Nat, Begins(bytes, s, n)
  PROVE  Begins(Resized(bytes, n), s, n) /\ Len(Resized(bytes, n)) = n
<1>1. PICK cut : cut = [k \in 1 .. n |-> IF k <= Len(bytes) THEN bytes[k] ELSE Zero]
  OBVIOUS
<1>2. PICK m \in Nat : m = Len(bytes)
  <2>1. Len(bytes) \in Nat
    BY LenProperties DEF PartBytes
  <2> QED BY <2>1
<1>3. n <= m
  BY <1>2 DEF Begins
<1>4. Len(cut) = n /\ \A k \in 1 .. n : cut[k] = bytes[k]
  BY <1>1, <1>2, <1>3
<1>5. Begins(cut, s, n)
  BY <1>4 DEF Begins
<1> QED BY <1>1, <1>4, <1>5 DEF Resized

LEMMA ResizedLen ==
  ASSUME NEW bytes, NEW n \in Nat
  PROVE  Len(Resized(bytes, n)) = n
  BY DEF Resized

LEMMA NoneBegins ==
  ASSUME Types, NEW s \in Segs, NEW bytes, Len(bytes) \in Nat
  PROVE  Begins(bytes, s, 0)
  BY PieceIs DEF Begins, Types

\* The latest run works on the parts, or its task is paused on them.
Holds(r) ==
  /\ Newest(r) /\ task[Of(r)].written # <<>>
  /\ loop[r].pc \in Held \/ (loop[r].pc = "off" /\ task[Of(r)].state = "paused")

\* The handlers that have asked, and cut their part if need be.
Asking == {"get", "stream", "leave", "done", "threw"}

\* Then each part is as long as its task believes, and right.
ExactAt(r, s) ==
  /\ s \in DOMAIN part /\ Len(part[s]) = task[Of(r)].written[s]
  /\ setup.ranged \/ job[r][s].pc \in Asking => Begins(part[s], s, task[Of(r)].written[s])

Exact == \A r \in Runs : Holds(r) => \A s \in Segs : ExactAt(r, s)

\* A handler reads where its part ends, and no further than its segment.
InPlace(j, s, n) ==
  j.pc \in {"get", "stream"} \/ j.hand = "write" =>
    /\ j.next = Split[s].start + n /\ j.next <= Split[s].end + 1
    /\ j.pc = "get" \/ j.hand = "write" => j.next <= Split[s].end
    /\ j.pc \in {"get", "stream"} => j.last = Split[s].end

Moving ==
  \A r \in Runs, s \in Segs : Newest(r) => InPlace(job[r][s], s, task[Of(r)].written[s])

\* What the sidecar counts is there, and right.
Backs(w) == \A s \in Segs : Begins(Bytes(s), s, w[s])

Backed == (\A r \in Runs : ~Sweeping(r)) => \A w \in Readable : Backs(w)

\* What the sidecar counts, or is to count, is no more than the task does.
Within(w, written) == \A s \in Segs : w[s] \in Nat /\ w[s] <= written[s]

Behind == \A r \in Runs : Holds(r) => \A w \in Readable : Within(w, task[Of(r)].written)

Snapped ==
  /\ \A r \in Runs : loop[r].pc \in {"fresh", "flush"} => Within(loop[r].snap, task[Of(r)].written)
  /\ \A r \in Runs, s \in Segs : loop[r].pc = "work" /\ job[r][s].hand = "commit" =>
       Within(job[r][s].snap, task[Of(r)].written)

Cursor == Exact /\ Moving /\ (setup.ranged => Backed /\ Behind /\ Snapped)

\* What the cursor asks of a handler, and of a run, that goes on.
JobFrame(q, s) ==
  /\ job'[q][s].pc \in Asking => setup.ranged \/ job[q][s].pc \in Asking
  /\ InPlace(job[q][s], s, task[Of(q)].written[s]) => InPlace(job'[q][s], s, task[Of(q)].written[s])
  /\ job'[q][s].hand = "commit" => job[q][s].hand = "commit" /\ job'[q][s].snap = job[q][s].snap

LoopFrame(q) ==
  /\ loop'[q].pc \in {"fresh", "flush"} =>
       \/ loop'[q].snap = task[Of(q)].written /\ task[Of(q)].written # <<>>
       \/ loop[q].pc \in {"fresh", "flush"} /\ loop'[q].snap = loop[q].snap
  /\ loop'[q].pc = "work" => loop[q].pc = "work" \/ \A s \in Segs : job'[q][s].hand # "commit"

\* What has landed counts what is there, and no more than the task does.
Fits(w) == Backs(w) /\ \A q \in Runs : Holds(q) => Within(w, task[Of(q)].written)

\* The offsets of a run with handlers, or that is to write them down.
LEMMA OffsetsOf ==
  ASSUME Good, NEW r \in Runs, Of(r) \in Runs, task[Of(r)].written # <<>>
  PROVE  task[Of(r)].written \in [Segs -> Nat]
  BY DEF Good, Types, TaskType, Snaps

\* A step that does not add to the parts, and to the sidecar what fits.
LEMMA CursorKept ==
  ASSUME Good, Order, Cursor, setup' = setup, OfKept,
         \A t \in Runs : task'[t].written = task[t].written,
         \A q \in Runs : Holds(q)' => Holds(q),
         \A q \in Runs, s \in Segs : JobFrame(q, s),
         \A q \in Runs : LoopFrame(q),
         sidecar' \subseteq sidecar \/ (part' = part /\ (setup.ranged => \A w \in Readable' : Fits(w))),
         part' = part \/ ((\A q \in Runs : ~Holds(q)') /\ \E q \in Runs : Sweeping(q)'),
         (\A q \in Runs : ~Sweeping(q)') => (\A q \in Runs : ~Sweeping(q)) \/ sidecar' = {},
         \A q \in Runs : loop'[q].pc \in {"fresh", "flush", "work"} => Of(q) \in Runs
  PROVE  Cursor'
<1>1. /\ Split' = Split /\ Segs' = Segs /\ \A q \in Runs : loop'[q].of = Of(q)
      /\ \A q \in Runs : Newest(q)' <=> Newest(q)
  BY SetupKept, UsedKept DEF OfKept, Of
<1>2. \A q \in Runs : Newest(q) => Of(q) \in Runs
  BY DEF Order, Newest, Used
<1>3. \A q \in Runs : Holds(q) => Of(q) \in Runs
  BY <1>2 DEF Holds
<1>4. /\ \A s : Length(s)' = Length(s)
      /\ \A s : Piece(s)' = Piece(s)
  BY <1>1 DEF Length, Piece, Resource
<1>5. Readable' \subseteq Readable \/ (part' = part /\ (setup.ranged => \A w \in Readable' : Fits(w)))
  BY DEF Readable, Corrupt
<1>6. Exact'
  <2>1. SUFFICES ASSUME NEW r \in Runs, Holds(r)', NEW s \in Segs
                 PROVE  ExactAt(r, s)'
    BY <1>1 DEF Exact
  <2>2. ExactAt(r, s) /\ part' = part /\ Of(r) \in Runs
    <3>1. Holds(r)
      BY <2>1
    <3>2. part' = part
      BY <2>1
    <3>3. ExactAt(r, s)
      BY <2>1, <3>1 DEF Cursor, Exact
    <3> QED BY <1>3, <3>1, <3>2, <3>3
  <2>3. /\ task'[loop'[r].of].written = task[Of(r)].written
        /\ job'[r][s].pc \in Asking => setup.ranged \/ job[r][s].pc \in Asking
    BY <1>1, <2>2 DEF JobFrame
  <2> QED BY <1>4, <2>2, <2>3 DEF ExactAt, Begins, Of
<1>7. Moving'
  <2>1. SUFFICES ASSUME NEW r \in Runs, NEW s \in Segs, Newest(r)'
                 PROVE  InPlace(job[r][s], s, task[Of(r)].written[s])'
    BY <1>1 DEF Moving
  <2>2. /\ InPlace(job[r][s], s, task[Of(r)].written[s])
        /\ task'[loop'[r].of].written = task[Of(r)].written
    <3>1. Newest(r) /\ Of(r) \in Runs
      BY <1>1, <1>2, <2>1
    <3>2. InPlace(job[r][s], s, task[Of(r)].written[s])
      BY <2>1, <3>1 DEF Cursor, Moving
    <3> QED BY <1>1, <3>1, <3>2
  <2>3. InPlace(job'[r][s], s, task[Of(r)].written[s])
    BY <2>2 DEF JobFrame
  <2> QED BY <1>1, <2>2, <2>3 DEF InPlace, Of
<1>8. ASSUME setup.ranged PROVE Backed' /\ Behind' /\ Snapped'
  <2>1. Backed'
    <3>1. SUFFICES ASSUME \A q \in Runs : ~Sweeping(q)', NEW w \in Readable'
                   PROVE  Backs(w)'
      BY DEF Backed
    <3>2. \A q \in Runs : ~Sweeping(q)
      BY <3>1 DEF Readable
    <3>3. Backs(w) /\ part' = part
      <4>1. part' = part
        BY <3>1
      <4>2. CASE Fits(w)
        BY <4>1, <4>2 DEF Fits
      <4>3. CASE w \in Readable
        BY <1>8, <3>2, <4>1, <4>3 DEF Cursor, Backed
      <4> QED BY <1>5, <1>8, <3>1, <4>1, <4>2, <4>3
    <3> QED BY <1>1, <1>4, <3>3 DEF Backs, Begins, Bytes
  <2>2. Behind'
    <3>1. SUFFICES ASSUME NEW r \in Runs, Holds(r)', NEW w \in Readable'
                   PROVE  \A s \in Segs' : w[s] \in Nat /\ w[s] <= task'[loop'[r].of].written[s]
      BY DEF Behind, Of, Within
    <3>2. Within(w, task[Of(r)].written) /\ Of(r) \in Runs
      <4>1. Holds(r) /\ Of(r) \in Runs
        BY <1>3, <3>1
      <4>2. CASE Fits(w)
        BY <4>1, <4>2 DEF Fits
      <4>3. CASE w \in Readable
        BY <1>8, <4>1, <4>3 DEF Cursor, Behind
      <4> QED BY <1>5, <1>8, <3>1, <4>1, <4>2, <4>3
    <3> QED BY <1>1, <3>2 DEF Within
  <2>3. Snapped'
    <3>1. ASSUME NEW r \in Runs, loop'[r].pc \in {"fresh", "flush"}
          PROVE  Within(loop'[r].snap, task'[loop'[r].of].written)
      <4>1. task'[loop'[r].of].written = task[Of(r)].written /\ Of(r) \in Runs
        BY <1>1, <3>1
      <4>2. CASE loop[r].pc \in {"fresh", "flush"} /\ loop'[r].snap = loop[r].snap
        BY <1>8, <4>1, <4>2 DEF Cursor, Snapped
      <4>3. CASE loop'[r].snap = task[Of(r)].written /\ task[Of(r)].written # <<>>
        <5>1. task[Of(r)].written \in [Segs -> Nat]
          BY <4>1, <4>3, OffsetsOf
        <5> QED BY <4>1, <4>3, <5>1 DEF Within
      <4> QED BY <3>1, <4>2, <4>3 DEF LoopFrame
    <3>2. ASSUME NEW r \in Runs, NEW s \in Segs, loop'[r].pc = "work", job'[r][s].hand = "commit"
          PROVE  Within(job'[r][s].snap, task'[loop'[r].of].written)
      <4>1. task'[loop'[r].of].written = task[Of(r)].written /\ Of(r) \in Runs
        BY <1>1, <3>2
      <4>2. loop[r].pc = "work" /\ job[r][s].hand = "commit" /\ job'[r][s].snap = job[r][s].snap
        BY <1>1, <3>2 DEF LoopFrame, JobFrame
      <4> QED BY <1>8, <4>1, <4>2 DEF Cursor, Snapped
    <3> QED BY <1>1, <3>1, <3>2 DEF Snapped, Within, Of
  <2> QED BY <2>1, <2>2, <2>3
<1> QED BY <1>6, <1>7, <1>8 DEF Cursor

\* There is one latest run, and it is of a task.
LEMMA LatestIs ==
  ASSUME Order, OfKept
  PROVE  /\ \A q \in Runs : Newest(q)' <=> Newest(q)
         /\ \A q \in Runs : Newest(q) => Of(q) \in Runs
         /\ \A p, q \in Runs : Newest(p) /\ Newest(q) => p = q
<1>1. \A q \in Runs : Newest(q)' <=> Newest(q)
  BY UsedKept
<1>2. \A q \in Runs : Newest(q) => Of(q) \in Runs
  BY DEF Order, Newest, Used
<1>3. \A p, q \in Runs : Newest(p) /\ Newest(q) => p = q
  <2>1. SUFFICES ASSUME NEW p \in Runs, NEW q \in Runs, Newest(p), Newest(q) PROVE p = q
    OBVIOUS
  <2>2. p <= q /\ q <= p
    BY <2>1 DEF Newest
  <2> QED BY <2>2, RunsAre
<1> QED BY <1>1, <1>2, <1>3

\* Handlers that keep the parts and the sidecar as they are.
LEMMA HandlersKeep ==
  ASSUME Good, Order, Cursor, Calm, part' = part, sidecar' = sidecar,
         \A t \in Runs : task'[t].written = task[t].written,
         \A q \in Runs, s \in Segs : JobFrame(q, s)
  PROVE  Cursor'
<1>1. /\ setup' = setup /\ loop' = loop /\ OfKept /\ \A q \in Runs : loop'[q].of = Of(q)
      /\ \A t \in Runs : Steady(t)
  BY DEF Calm, OfKept, Of
<1>2. \A q \in Runs : Newest(q)' <=> Newest(q)
  BY <1>1, UsedKept
<1>3. \A q \in Runs : Newest(q) => Of(q) \in Runs
  BY DEF Order, Newest, Used
<1>4. \A q \in Runs : Holds(q)' => Holds(q)
  BY <1>1, <1>2, <1>3 DEF Holds, Of, Steady, Held
<1>5. \A q \in Runs : LoopFrame(q)
  BY <1>1 DEF LoopFrame
<1>6. \A q \in Runs : Sweeping(q)' <=> Sweeping(q)
  BY <1>1 DEF Sweeping, Steady
<1>7. \A q \in Runs : loop'[q].pc \in {"fresh", "flush", "work"} => Of(q) \in Runs
  BY <1>1 DEF Good, Linked
<1> QED BY <1>1, <1>4, <1>5, <1>6, <1>7, CursorKept

\* A handler that is left alone, or let in.
LEMMA FrameSame ==
  ASSUME NEW q \in Runs, NEW s \in Segs, job'[q][s] = job[q][s] \/ LetIn(q, s)
  PROVE  JobFrame(q, s)
  BY DEF JobFrame, LetIn, InPlace, Asking

LEMMA GetCursor ==
  ASSUME Good, Order, Cursor, NEW r \in Runs, NEW s \in Segs, Get(r, s), ~Undone'
  PROVE  Cursor'
<1>1. Calm
  BY GetCalm
<1>2. /\ job[r][s].pc = "get" /\ job[r][s].hand = "none"
      /\ OnlyJob(r, s) /\ OnlyTask(Of(r))
      /\ UNCHANGED <<part, sidecar>>
      /\ task'[Of(r)].written = task[Of(r)].written
  BY GetIs
<1>3. \/ /\ job[r][s].over /\ job'[r][s].pc = "leave" /\ job'[r][s].hand \in {"none", "write"}
         /\ job'[r][s].next = job[r][s].next
      \/ /\ job'[r][s].pc = "stream" /\ job'[r][s].hand = "none"
         /\ \/ job'[r][s].next = job[r][s].next /\ job'[r][s].last = job[r][s].last
            \/ mishaps' = mishaps \cup {"whole"}
  BY GetIs
<1>4. JobFrame(r, s)
  <2>1. mishaps' # mishaps \cup {"whole"}
    BY DEF Undone
  <2> QED BY <1>2, <1>3, <2>1 DEF JobFrame, InPlace, Asking
<1>5. \A q \in Runs, p \in Segs : JobFrame(q, p)
  BY <1>2, <1>4, FrameSame DEF OnlyJob
<1>6. \A t \in Runs : task'[t].written = task[t].written
  BY <1>2 DEF OnlyTask
<1> QED BY <1>1, <1>2, <1>5, <1>6, HandlersKeep

LEMMA StreamCursor ==
  ASSUME Good, Order, Cursor, NEW r \in Runs, NEW s \in Segs,
         GetFails(r, s) \/ Chunk(r, s) \/ StreamEnds(r, s) \/ StreamFails(r, s) \/ WriteFails(r, s)
  PROVE  Cursor'
<1>1. Calm
  BY StreamCalm
<1>2. /\ OnlyJob(r, s) /\ UNCHANGED <<part, sidecar, task>>
      /\ job'[r][s].next = job[r][s].next /\ job'[r][s].last = job[r][s].last
      /\ \/ /\ job[r][s].pc = "get" /\ job'[r][s].pc = "leave" /\ job'[r][s].hand = job[r][s].hand
         \/ /\ job[r][s].pc = "stream" /\ job'[r][s].pc = "stream"
            /\ job[r][s].next <= job[r][s].last /\ job'[r][s].hand = "write"
         \/ /\ job[r][s].pc = "stream" /\ job'[r][s].pc = "stream" /\ job'[r][s].hand = "none"
         \/ /\ job[r][s].hand = "write" /\ job'[r][s].pc = job[r][s].pc
            /\ job'[r][s].hand = "none"
  BY StreamIs
<1>3. job[r][s].pc = "get" => job[r][s].hand = "none"
  BY DEF Good, JobsInRange, InRange
<1>4. JobFrame(r, s)
  BY <1>2, <1>3 DEF JobFrame, InPlace, Asking
<1>5. \A q \in Runs, p \in Segs : JobFrame(q, p)
  BY <1>2, <1>4, FrameSame DEF OnlyJob
<1> QED BY <1>1, <1>2, <1>5, HandlersKeep

LEMMA LeaveCursor ==
  ASSUME Good, Order, Cursor, NEW r \in Runs, NEW s \in Segs, Leave(r, s)
  PROVE  Cursor'
<1>1. Calm
  BY LeaveCalm
<1>2. /\ job[r][s].pc = "leave" \/ job[r][s].pc = "stream"
      /\ job'[r][s].pc \in {"threw", "done"}
      /\ job'[r][s].hand = job[r][s].hand /\ job'[r][s].snap = job[r][s].snap
      /\ job[r][s].hand = "write" => job'[r][s].next = job[r][s].next
      /\ OnlyTask(Of(r)) /\ task'[Of(r)].written = task[Of(r)].written
      /\ UNCHANGED <<part, sidecar>>
  BY LeaveIs
<1>a. \A q \in Runs, p \in Segs :
           <<q, p>> # <<r, s>> => job'[q][p] = job[q][p] \/ LetIn(q, p)
  BY LeaveIs
<1>3. JobFrame(r, s)
  BY <1>2 DEF JobFrame, InPlace, Asking
<1>4. \A q \in Runs, p \in Segs : JobFrame(q, p)
  BY <1>a, <1>3, FrameSame
<1>5. \A t \in Runs : task'[t].written = task[t].written
  BY <1>2 DEF OnlyTask
<1> QED BY <1>1, <1>2, <1>4, <1>5, HandlersKeep

\* The app stops a task.
LEMMA StopCursor ==
  ASSUME Good, Order, One, Cursor, NEW t \in Runs, Pause(t) \/ Cancel(t)
  PROVE  Cursor'
<1>1. /\ setup' = setup /\ loop' = loop /\ Told(t) /\ UNCHANGED <<part, sidecar>>
  BY AbortIs DEF Pause, Cancel, disk
<1>2. /\ OnlyTask(t) /\ task'[t].written = task[t].written
      /\ \/ task[t].state = "running" /\ task'[t].finish = task[t].finish
         \/ task'[t].state = "canceled" /\ task'[t].finish = "wait"
  BY PauseIs, CancelIs
<1>3. OfKept /\ \A q \in Runs : loop'[q].of = Of(q)
  BY <1>1 DEF OfKept, Of
<1>4. /\ \A q \in Runs : Newest(q)' <=> Newest(q)
      /\ \A q \in Runs : Newest(q) => Of(q) \in Runs
      /\ \A p, q \in Runs : Newest(p) /\ Newest(q) => p = q
  BY <1>3, LatestIs
<1>5. \A q \in Runs : task'[q].written = task[q].written
  BY <1>2 DEF OnlyTask
<1>6. ASSUME NEW q \in Runs, Holds(q)' PROVE Holds(q)
  <2>1. /\ Newest(q) /\ Of(q) \in Runs /\ task[Of(q)].written # <<>>
        /\ \/ loop[q].pc \in Held
           \/ loop[q].pc = "off" /\ task'[Of(q)].state = "paused"
    BY <1>1, <1>3, <1>4, <1>5, <1>6 DEF Holds, Of, Held
  <2>2. CASE Of(q) = t /\ task[t].state = "running"
    <3>1. loop[q].pc # "off"
      BY <1>4, <2>1, <2>2 DEF One, Asked
    <3> QED BY <2>1, <3>1 DEF Holds
  <2>3. CASE ~(Of(q) = t /\ task[t].state = "running")
    <3>1. task'[Of(q)].state = "paused" => task[Of(q)].state = "paused"
      BY <1>2, <2>1, <2>3 DEF OnlyTask
    <3> QED BY <2>1, <3>1 DEF Holds
  <2> QED BY <2>2, <2>3
<1>7. \A q \in Runs, s \in Segs : JobFrame(q, s)
  BY <1>1 DEF Told, JobFrame, InPlace
<1>8. \A q \in Runs : LoopFrame(q)
  BY <1>1 DEF LoopFrame
<1>9. \A q \in Runs : loop'[q].pc \in {"fresh", "flush", "work"} => Of(q) \in Runs
  BY <1>1 DEF Good, Linked
<1>10. (\A q \in Runs : ~Sweeping(q)') => (\A q \in Runs : ~Sweeping(q))
  <2>1. task[t].finish # "sidecar"
    <3>1. task[t].state \in {"running", "paused", "failed"}
      BY PauseIs, CancelIs
    <3> QED BY <3>1 DEF One, Asked
  <2> QED BY <1>1, <1>2, <2>1 DEF Sweeping, OnlyTask
<1> QED BY <1>1, <1>3, <1>5, <1>6, <1>7, <1>8, <1>9, <1>10, CursorKept

\* A cancellation deletes.
LEMMA FinishCursor ==
  ASSUME Good, Order, One, Cursor, NEW t \in Runs, FinishCancel(t)
  PROVE  Cursor'
<1>1. /\ OnlyTask(t) /\ setup' = setup /\ loop' = loop /\ job' = job
      /\ task'[t].state = task[t].state /\ task'[t].written = task[t].written
      /\ \/ /\ task[t].finish = "wait" /\ task'[t].finish = "parts" /\ UNCHANGED <<part, sidecar>>
         \/ /\ task[t].finish = "parts" /\ PartsGone(t) /\ task'[t].finish = "sidecar"
            /\ UNCHANGED sidecar
         \/ /\ task[t].finish = "sidecar" /\ sidecar' = {} /\ UNCHANGED part
         \/ task[t].finish = "dest" /\ UNCHANGED <<part, sidecar>>
  BY FinishIs
<1>3. OfKept /\ \A q \in Runs : loop'[q].of = Of(q)
  BY <1>1 DEF OfKept, Of
<1>4. /\ \A q \in Runs : Newest(q)' <=> Newest(q)
      /\ \A q \in Runs : Newest(q) => Of(q) \in Runs
      /\ \A p, q \in Runs : Newest(p) /\ Newest(q) => p = q
  BY <1>3, LatestIs
<1>5. \A q \in Runs : task'[q].written = task[q].written /\ task'[q].state = task[q].state
  BY <1>1 DEF OnlyTask
<1>6. \A q \in Runs : Holds(q)' => Holds(q)
  BY <1>1, <1>3, <1>4, <1>5 DEF Holds, Of, Held
<1>7. \A q \in Runs, s \in Segs : JobFrame(q, s)
  BY <1>1, FrameSame
<1>8. \A q \in Runs : LoopFrame(q)
  BY <1>1 DEF LoopFrame
<1>9. \A q \in Runs : loop'[q].pc \in {"fresh", "flush", "work"} => Of(q) \in Runs
  BY <1>1 DEF Good, Linked
<1>10. sidecar' \subseteq sidecar
  BY <1>1
<1>11. (\A q \in Runs : ~Sweeping(q)') => (\A q \in Runs : ~Sweeping(q)) \/ sidecar' = {}
  BY <1>1 DEF Sweeping, OnlyTask
<1>12. part' = part \/ ((\A q \in Runs : ~Holds(q)') /\ \E q \in Runs : Sweeping(q)')
  <2>1. SUFFICES ASSUME task[t].finish = "parts", task'[t].finish = "sidecar"
                 PROVE  (\A q \in Runs : ~Holds(q)) /\ Sweeping(t)'
    BY <1>1, <1>6
  <2>2. PICK n \in Runs : Newest(n) /\ Of(n) = t
    BY <2>1 DEF One, Cleaning, Finishing
  <2>3. loop[n].pc = "off" /\ task[t].state \in {"canceled", "completed"}
    BY <2>1 DEF One, Cleaning, Deleting, Asked
  <2>4. \A q \in Runs : ~Holds(q)
    BY <1>4, <2>2, <2>3 DEF Holds, Held
  <2>5. Sweeping(t)'
    BY <2>1 DEF Sweeping
  <2> QED BY <2>4, <2>5
<1> QED BY <1>1, <1>3, <1>5, <1>6, <1>7, <1>8, <1>9, <1>10, <1>11, <1>12, CursorKept

\* Runs that neither add to the parts nor to the sidecar.
LEMMA LoopKeeps ==
  ASSUME Good, Order, One, Cursor, NEW r \in Runs, loop[r].pc # "off", setup' = setup, job' = job,
         NEW pc, pc \notin {"fresh", "work"}, NEW keep, NEW state,
         At(r, pc, keep), Tells(Of(r), state, task[Of(r)].written),
         pc \in Held => loop[r].pc \in Held,
         pc = "off" => state # "paused",
         pc = "flush" => loop'[r].snap = task[Of(r)].written,
         part' = part \/ pc = "sidecar",
         sidecar' = sidecar \/ sidecar' = {},
         loop[r].pc = "sidecar" => sidecar' = {}
  PROVE  Cursor'
<1>1. /\ Of(r) \in Runs /\ task'[Of(r)].state = state
      /\ \A q \in Runs : q # Of(r) => task'[q] = task[q]
      /\ task'[Of(r)].finish = task[Of(r)].finish
      /\ task'[Of(r)].written = task[Of(r)].written
      /\ loop'[r].pc = pc /\ \A q \in Runs : q # r => loop'[q] = loop[q]
      /\ \A q \in Runs : loop'[q].of = Of(q)
  BY RunIs DEF At, Tells, OnlyTask, OnlyLoop, Of
<1>2. OfKept
  BY <1>1 DEF OfKept, Of
<1>3. /\ \A q \in Runs : Newest(q)' <=> Newest(q)
      /\ Newest(r) /\ \A q \in Runs : Newest(q) => q = r
  <2>1. Newest(r)
    BY DEF One, Sequential
  <2> QED BY <1>2, <2>1, LatestIs
<1>4. \A t \in Runs : task'[t].written = task[t].written /\ task'[t].finish = task[t].finish
  BY <1>1
<1>5. \A q \in Runs : Holds(q)' => q = r /\ pc \in Held
  BY <1>1, <1>3 DEF Holds, Held, Of
<1>6. Holds(r)' => Holds(r)
  BY <1>1, <1>3, <1>5 DEF Holds, Of
<1>7. \A q \in Runs, s \in Segs : JobFrame(q, s)
  BY FrameSame
<1>8. \A q \in Runs : LoopFrame(q)
  <2>1. pc = "flush" => task[Of(r)].written # <<>>
    BY DEF One, Staged, Held
  <2> QED BY <1>1, <2>1 DEF LoopFrame
<1>9. \A q \in Runs : loop'[q].pc \in {"fresh", "flush", "work"} => Of(q) \in Runs
  BY <1>1 DEF Good, Linked
<1>10. part' = part \/ ((\A q \in Runs : ~Holds(q)') /\ \E q \in Runs : Sweeping(q)')
  BY <1>1, <1>5 DEF Sweeping, Held
<1>11. (\A q \in Runs : ~Sweeping(q)') => (\A q \in Runs : ~Sweeping(q)) \/ sidecar' = {}
  BY <1>1, <1>4 DEF Sweeping
<1>12. sidecar' \subseteq sidecar
  OBVIOUS
<1> QED BY <1>2, <1>4, <1>5, <1>6, <1>7, <1>8, <1>9, <1>10, <1>11, <1>12, CursorKept

\* A run that throws.
LEMMA FailingCursor ==
  ASSUME Good, Order, One, Cursor, NEW r \in Runs, loop[r].pc \notin {"off", "sidecar"}, setup' = setup, job' = job,
         Failing(r), part' = part, sidecar' = sidecar
  PROVE  Cursor'
<1>1. Of(r) \in Runs
  BY RunIs
<1>2. CASE task[Of(r)].cancel /\ At(r, "off", loop[r].keep) /\ task' = task
  <2>1. Tells(Of(r), task[Of(r)].state, task[Of(r)].written)
    BY <1>1, <1>2, TellsNothing
  <2>2. task[Of(r)].state # "paused"
    BY <1>1, <1>2 DEF One, Asked
  <2> QED BY <1>2, <2>1, <2>2, LoopKeeps DEF Held
<1>3. CASE At(r, "parts", FALSE) /\ Tells(Of(r), "failed", task[Of(r)].written)
  BY <1>3, LoopKeeps DEF Held
<1> QED BY <1>2, <1>3 DEF Failing

\* A run that only moves on.
LEMMA MovingCursor ==
  ASSUME Good, Order, One, Cursor, NEW r \in Runs, loop[r].pc # "off", setup' = setup, job' = job,
         task' = task, NEW pc, pc \notin {"fresh", "work", "off"}, NEW keep, At(r, pc, keep),
         pc \in Held => loop[r].pc \in Held,
         pc = "flush" => loop'[r].snap = task[Of(r)].written,
         part' = part \/ pc = "sidecar",
         sidecar' = sidecar \/ sidecar' = {},
         loop[r].pc = "sidecar" => sidecar' = {}
  PROVE  Cursor'
<1>1. Of(r) \in Runs
  BY RunIs
<1>2. Tells(Of(r), task[Of(r)].state, task[Of(r)].written)
  BY <1>1, TellsNothing
<1> QED BY <1>2, LoopKeeps

LEMMA PlainCursor ==
  ASSUME Good, Order, One, Cursor, NEW r \in Runs,
         Probe(r) \/ OpenDest(r) \/ SweepParts(r) \/ SweepSidecar(r)
  PROVE  Cursor'
<1>1. task' = task /\ setup' = setup /\ job' = job
  BY PlainIs
<1>2. \/ loop[r].pc = "probe" /\ At(r, "prepare", loop[r].keep) /\ UNCHANGED <<part, sidecar>>
      \/ loop[r].pc = "assemble" /\ At(r, "concat", loop[r].keep) /\ UNCHANGED <<part, sidecar>>
      \/ loop[r].pc = "parts" /\ At(r, "sidecar", loop[r].keep) /\ UNCHANGED sidecar
      \/ loop[r].pc = "sidecar" /\ At(r, "end", loop[r].keep) /\ sidecar' = {} /\ UNCHANGED part
  BY PlainIs
<1>3. PICK pc \in {"prepare", "concat", "sidecar", "end"} :
        /\ At(r, pc, loop[r].keep)
        /\ pc = "concat" => loop[r].pc = "assemble"
        /\ part' = part \/ pc = "sidecar"
        /\ sidecar' = sidecar \/ sidecar' = {}
        /\ loop[r].pc = "sidecar" => sidecar' = {}
        /\ loop[r].pc # "off"
  BY <1>2
<1> QED BY <1>1, <1>3, MovingCursor DEF Held

LEMMA JoinCursor ==
  ASSUME Good, Order, One, Cursor, NEW r \in Runs, Join(r)
  PROVE  Cursor'
<1>1. /\ loop[r].pc = "work" /\ UNCHANGED <<setup, part, sidecar, job>>
      /\ \/ Failing(r)
         \/ /\ At(r, "flush", loop[r].keep) /\ loop'[r].snap = task[Of(r)].written /\ task' = task
         \/ At(r, "assemble", loop[r].keep) /\ task' = task
  BY JoinIs
<1>2. CASE Failing(r)
  BY <1>1, <1>2, FailingCursor
<1>3. CASE /\ At(r, "flush", loop[r].keep) /\ loop'[r].snap = task[Of(r)].written /\ task' = task
  BY <1>1, <1>3, MovingCursor DEF Held
<1>4. CASE At(r, "assemble", loop[r].keep) /\ task' = task
  BY <1>1, <1>4, MovingCursor DEF Held
<1> QED BY <1>1, <1>2, <1>3, <1>4

LEMMA AssembleCursor ==
  ASSUME Good, Order, One, Cursor, NEW r \in Runs, Concat(r) \/ Verify(r) \/ ProbeFails(r)
  PROVE  Cursor'
<1>1. /\ loop[r].pc \in {"concat", "verify", "probe"} /\ UNCHANGED <<setup, part, sidecar, job>>
      /\ \/ Failing(r)
         \/ loop[r].pc = "concat" /\ At(r, "verify", loop[r].keep) /\ task' = task
         \/ At(r, "parts", TRUE) /\ task' = task
  BY ConcatIs, VerifyIs, ProbeFailsIs
<1>2. CASE Failing(r)
  BY <1>1, <1>2, FailingCursor
<1>3. CASE loop[r].pc = "concat" /\ At(r, "verify", loop[r].keep) /\ task' = task
  BY <1>1, <1>3, MovingCursor DEF Held
<1>4. CASE At(r, "parts", TRUE) /\ task' = task
  BY <1>1, <1>4, MovingCursor DEF Held
<1> QED BY <1>1, <1>2, <1>3, <1>4

LEMMA EndCursor ==
  ASSUME Good, Order, One, Cursor, NEW r \in Runs, Complete(r) \/ GiveUp(r)
  PROVE  Cursor'
<1>1. /\ loop[r].pc = "end" /\ At(r, "off", loop[r].keep) /\ UNCHANGED <<setup, part, sidecar, job>>
      /\ \/ Tells(Of(r), "completed", task[Of(r)].written)
         \/ ~loop[r].keep /\ Tells(Of(r), task[Of(r)].state, task[Of(r)].written)
  BY EndIs
<1>2. ~loop[r].keep => task[Of(r)].state # "paused"
  BY <1>1 DEF One, Staged
<1>3. PICK state : Tells(Of(r), state, task[Of(r)].written) /\ state # "paused"
  BY <1>1, <1>2
<1> QED BY <1>1, <1>3, LoopKeeps DEF Held

\* A handler at work is one of the latest run, which holds the parts.
LEMMA HandlerAtWork ==
  ASSUME Good, Order, One, NEW r \in Runs, NEW s \in Segs, job[r][s].pc \notin Idle
  PROVE  /\ loop[r].pc = "work" /\ Newest(r) /\ \A q \in Runs : Newest(q) => q = r
         /\ Holds(r) /\ Of(r) \in Runs /\ task[Of(r)].written \in [Segs -> Nat]
<1>1. loop[r].pc = "work"
  BY DEF One, Staged
<1>2. Newest(r)
  BY <1>1 DEF One, Sequential
<1>3. \A q \in Runs : Newest(q) => q = r
  <2>1. SUFFICES ASSUME NEW q \in Runs, Newest(q) PROVE q = r
    OBVIOUS
  <2>2. q <= r /\ r <= q
    BY <1>2, <2>1 DEF Newest
  <2> QED BY <2>2, RunsAre
<1>4. Of(r) \in Runs /\ task[Of(r)].written # <<>>
  BY <1>1 DEF Good, Linked
<1>5. Holds(r)
  BY <1>1, <1>2, <1>4 DEF Holds, Held
<1> QED BY <1>1, <1>2, <1>3, <1>4, <1>5, OffsetsOf

LEMMA GrantedCursor ==
  ASSUME Good, Order, One, Cursor, NEW r \in Runs, NEW s \in Segs, Granted(r, s)
  PROVE  Cursor'
<1>0. Calm /\ Types
  BY GrantedCalm DEF Good
<1>1. /\ job[r][s].pc = "granted" /\ job[r][s].hand = "none" /\ OnlyJob(r, s) /\ OnlyTask(Of(r))
      /\ Steady(Of(r)) /\ UNCHANGED <<setup, sidecar, loop>> /\ job'[r][s].hand = "none"
  BY GrantedIs
<1>2. PICK done \in Nat :
        /\ done = IF setup.ranged THEN task[Of(r)].written[s] ELSE 0
        /\ task'[Of(r)].written = [task[Of(r)].written EXCEPT ![s] = done]
        /\ \/ /\ ~setup.ranged \/ (~Stopped(r) /\ task[Of(r)].written[s] < Length(s))
              /\ job'[r][s].pc = "get" /\ job'[r][s].next = Split[s].start + done
              /\ job'[r][s].last = Split[s].end
              /\ part' = [q \in DOMAIN part \cup {s} |->
                            IF q = s THEN Resized(Bytes(s), done) ELSE part[q]]
           \/ /\ setup.ranged /\ (Stopped(r) \/ ~(task[Of(r)].written[s] < Length(s)))
              /\ job'[r][s].pc = "leave" /\ part' = part
  BY GrantedIs
<1>3. /\ loop[r].pc = "work" /\ Newest(r) /\ \A q \in Runs : Newest(q) => q = r
      /\ Holds(r) /\ Of(r) \in Runs /\ task[Of(r)].written \in [Segs -> Nat]
  BY <1>1, HandlerAtWork DEF Idle
<1>4. setup.ranged => task'[Of(r)].written = task[Of(r)].written
  BY <1>2, <1>3
<1>5. /\ Split' = Split /\ Segs' = Segs /\ OfKept /\ \A q \in Runs : loop'[q].of = Of(q)
      /\ \A p : Length(p)' = Length(p) /\ Piece(p)' = Piece(p)
  BY <1>1, SetupKept DEF OfKept, Of, Length, Piece, Resource
<1>6. \A q \in Runs : Newest(q)' => q = r
  BY <1>3, <1>5, LatestIs
<1>7. CASE job'[r][s].pc = "leave" /\ setup.ranged /\ part' = part
  <2>1. \A t \in Runs : task'[t].written = task[t].written
    BY <1>1, <1>4, <1>7 DEF OnlyTask
  <2>2. JobFrame(r, s)
    BY <1>1, <1>7 DEF JobFrame, InPlace
  <2>3. \A q \in Runs, p \in Segs : JobFrame(q, p)
    BY <1>1, <2>2, FrameSame DEF OnlyJob
  <2> QED BY <1>0, <1>1, <1>7, <2>1, <2>3, HandlersKeep
<1>8. CASE /\ ~setup.ranged \/ task[Of(r)].written[s] < Length(s)
           /\ job'[r][s].pc = "get" /\ job'[r][s].next = Split[s].start + done
           /\ job'[r][s].last = Split[s].end
           /\ part' = [q \in DOMAIN part \cup {s} |->
                            IF q = s THEN Resized(Bytes(s), done) ELSE part[q]]
  <2>1. /\ \A p \in Segs : ExactAt(r, p)
        /\ \A p \in Segs : InPlace(job[r][p], p, task[Of(r)].written[p])
    BY <1>3 DEF Cursor, Exact, Moving
  <2>2. /\ s \in DOMAIN part /\ DOMAIN part' = DOMAIN part
        /\ part'[s] = Resized(Bytes(s), done)
        /\ \A p \in DOMAIN part : p # s => part'[p] = part[p]
        /\ Bytes(s) = part[s] /\ Bytes(s) \in PartBytes
    BY <1>0, <1>8, <2>1, BytesAre DEF ExactAt, Bytes
  <2>3. Begins(part'[s], s, done) /\ Len(part'[s]) = done
    <3>1. CASE setup.ranged
      <4>1. Begins(Bytes(s), s, done)
        BY <1>2, <2>1, <2>2, <3>1 DEF ExactAt
      <4> QED BY <2>2, <4>1, BeginsCut
    <3>2. CASE ~setup.ranged
      <4>1. done = 0 /\ Len(part'[s]) = 0
        BY <1>2, <2>2, <3>2, ResizedLen
      <4> QED BY <1>0, <4>1, NoneBegins
    <3> QED BY <3>1, <3>2
  <2>4. /\ task'[Of(r)].written[s] = done
        /\ \A p \in Segs : p # s => task'[Of(r)].written[p] = task[Of(r)].written[p]
    BY <1>2, <1>3
  <2>5. Exact'
    <3>1. SUFFICES ASSUME NEW q \in Runs, Holds(q)', NEW p \in Segs PROVE ExactAt(q, p)'
      BY <1>5 DEF Exact
    <3>2. q = r
      BY <1>6, <3>1 DEF Holds
    <3>3. /\ p \in DOMAIN part' /\ Len(part'[p]) = task'[Of(r)].written[p]
          /\ setup.ranged \/ job'[r][p].pc \in Asking => Begins(part'[p], p, task'[Of(r)].written[p])
      <4>1. CASE p = s
        BY <2>2, <2>3, <2>4, <4>1
      <4>2. CASE p # s
        BY <1>1, <2>1, <2>2, <2>4, <4>2 DEF ExactAt, OnlyJob
      <4> QED BY <4>1, <4>2
    <3> QED BY <1>1, <1>5, <3>2, <3>3 DEF ExactAt, Begins, Of
  <2>6. Moving'
    <3>1. SUFFICES ASSUME NEW q \in Runs, Newest(q)', NEW p \in Segs
                   PROVE  InPlace(job[q][p], p, task[Of(q)].written[p])'
      BY <1>5 DEF Moving
    <3>2. q = r
      BY <1>6, <3>1
    <3>3. InPlace(job'[r][p], p, task'[Of(r)].written[p])
      <4>1. CASE p = s
        <5>1. PICK a \in Nat, b \in Nat, m \in Nat \ {0} :
                a = Split[s].start /\ b = Split[s].end /\ m = Length(s) /\ m = b - a + 1
          BY <1>0, PieceIs DEF Types
        <5>2. done < m
          BY <1>2, <1>8, <5>1
        <5>3. a + done <= b /\ a + done <= b + 1
          BY <5>1, <5>2
        <5> QED BY <1>1, <1>8, <2>4, <4>1, <5>1, <5>3 DEF InPlace
      <4>2. CASE p # s
        BY <1>1, <2>1, <2>4, <4>2 DEF OnlyJob
      <4> QED BY <4>1, <4>2
    <3> QED BY <1>5, <3>2, <3>3 DEF InPlace, Of
  <2>7. ASSUME setup.ranged PROVE Backed' /\ Behind' /\ Snapped'
    <3>0. /\ Backed /\ Behind /\ Snapped /\ task'[Of(r)].written = task[Of(r)].written
          /\ \A q \in Runs : Sweeping(q)' = Sweeping(q)
          /\ Readable' = Readable
          /\ \A t \in Runs : task'[t].written = task[t].written
      BY <1>0, <1>1, <1>4, <2>7 DEF Cursor, Sweeping, Calm, Steady, Readable, Corrupt, OnlyTask
    <3>1. Backed'
      <4>1. SUFFICES ASSUME \A q \in Runs : ~Sweeping(q)', NEW w \in Readable', NEW p \in Segs
                     PROVE  Begins(Bytes(p), p, w[p])'
        BY <1>5 DEF Backed, Backs
      <4>2. Begins(Bytes(p), p, w[p]) /\ w[p] <= task[Of(r)].written[p]
        BY <1>3, <3>0, <4>1 DEF Backed, Backs, Behind, Within
      <4>3. Begins(Bytes(p)', p, w[p])
        <5>1. CASE p = s
          <6>1. w \in [Segs -> Nat]
            <7>1. w \in Snaps /\ w # <<>>
              BY <1>0, <3>0, <4>1 DEF Types, SidecarTyped, Readable, Corrupt
            <7> QED BY <7>1 DEF Snaps
          <6>2. w[s] \in Nat /\ w[s] <= done /\ Length(s) \in Nat
            BY <1>0, <1>2, <2>7, <4>2, <5>1, <6>1, PieceIs DEF Types
          <6>3. Begins(part'[s], s, w[s])
            BY <2>3, <6>2, BeginsLess
          <6>4. Bytes(s)' = part'[s]
            BY <2>2 DEF Bytes
          <6> QED BY <5>1, <6>3, <6>4
        <5>2. CASE p # s
          <6>1. Bytes(p)' = Bytes(p)
            BY <2>2, <5>2 DEF Bytes
          <6> QED BY <4>2, <6>1
        <5> QED BY <5>1, <5>2
      <4> QED BY <1>5, <4>3 DEF Begins
    <3>2. Behind'
      <4>1. SUFFICES ASSUME NEW q \in Runs, Holds(q)', NEW w \in Readable', NEW p \in Segs
                     PROVE  w[p] \in Nat /\ w[p] <= task'[loop'[q].of].written[p]
        BY <1>5 DEF Behind, Within, Of
      <4>2. q = r
        BY <1>6, <4>1 DEF Holds
      <4> QED BY <1>3, <1>5, <3>0, <4>1, <4>2 DEF Behind, Within
    <3>3. Snapped'
      <4>1. \A q \in Runs : loop[q].pc \in {"fresh", "flush", "work"} => Of(q) \in Runs
        BY DEF Good, Linked
      <4>2. \A q \in Runs, p \in Segs : job'[q][p].hand = "commit" => job'[q][p] = job[q][p]
        BY <1>1 DEF OnlyJob
      <4> QED BY <1>1, <1>5, <3>0, <4>1, <4>2 DEF Snapped, Within, Of
    <3> QED BY <3>1, <3>2, <3>3
  <2> QED BY <1>1, <2>5, <2>6, <2>7 DEF Cursor
<1> QED BY <1>2, <1>7, <1>8

\* What a run that holds the parts writes down, once it is on disk.
LEMMA LandsFit ==
  ASSUME Good, Order, One, Cursor, NEW r \in Runs, loop[r].pc \in Held, setup.ranged,
         NEW snap \in Snaps, NEW others, Lands(snap, others), Within(snap, task[Of(r)].written)
  PROVE  \A w \in Readable' : Fits(w)
<1>0. Types
  BY DEF Good
<1>1. /\ Newest(r) /\ \A q \in Runs : q # r => loop[q].pc = "off"
      /\ \A q \in Runs : Newest(q) => q = r
  <2>1. Newest(r)
    BY DEF One, Sequential, Held
  <2>2. \A q \in Runs : Newest(q) => q = r
    <3>1. SUFFICES ASSUME NEW q \in Runs, Newest(q) PROVE q = r
      OBVIOUS
    <3>2. q <= r /\ r <= q
      BY <2>1, <3>1 DEF Newest
    <3> QED BY <3>2, RunsAre
  <2> QED BY <2>1, <2>2 DEF One, Sequential
<1>2. Of(r) \in Runs /\ task[Of(r)].written # <<>> /\ task[Of(r)].written \in [Segs -> Nat]
  <2>1. Of(r) \in Runs /\ task[Of(r)].written # <<>>
    BY DEF Good, Linked, One, Staged, Held
  <2> QED BY <2>1, OffsetsOf
<1>3. Holds(r) /\ \A q \in Runs : Holds(q) => q = r
  BY <1>1, <1>2 DEF Holds
<1>4. \A q \in Runs : ~Sweeping(q)
  <2>1. \A q \in Runs : loop[q].pc # "sidecar"
    BY <1>1 DEF Held
  <2>2. \A q \in Runs : ~Deleting(q)
    BY DEF One, Cleaning, Held
  <2> QED BY <2>1, <2>2 DEF Sweeping, Deleting
<1>5. SUFFICES ASSUME NEW w \in Readable' PROVE Fits(w)
  OBVIOUS
<1>6. CASE w \in Readable
  BY <1>4, <1>6 DEF Cursor, Backed, Behind, Fits
<1>7. CASE w = snap /\ w # <<>>
  <2>1. w \in [Segs -> Nat]
    BY <1>7 DEF Snaps
  <2>2. ASSUME NEW s \in Segs PROVE Begins(Bytes(s), s, w[s])
    <3>1. ExactAt(r, s)
      BY <1>3 DEF Cursor, Exact
    <3>2. Bytes(s) = part[s] /\ Begins(Bytes(s), s, task[Of(r)].written[s])
      BY <3>1 DEF ExactAt, Bytes
    <3>3. w[s] \in Nat /\ task[Of(r)].written[s] \in Nat /\ w[s] <= task[Of(r)].written[s]
      BY <1>2, <1>7, <2>1 DEF Within
    <3>4. Len(Bytes(s)) \in Nat /\ Length(s) \in Nat
      BY <1>0, BytesAre, LenProperties, PieceIs DEF PartBytes, Types
    <3> QED BY <3>2, <3>3, <3>4, BeginsLess
  <2> QED BY <1>3, <1>7, <2>2 DEF Fits, Backs
<1>8. w \in Readable \/ (w = snap /\ w # <<>>)
  <2>1. sidecar' \in {{snap}, {<<>>}, sidecar}
    BY DEF Lands, Corrupt
  <2> QED BY <1>5, <2>1 DEF Readable, Corrupt
<1> QED BY <1>6, <1>7, <1>8

LEMMA CommitCursor ==
  ASSUME Good, Order, One, Cursor, NEW r \in Runs, NEW s \in Segs, Commit(r, s), ~Undone'
  PROVE  Cursor'
<1>0. Calm /\ Types
  BY CommitCalm DEF Good
<1>1. /\ job[r][s].hand = "commit" /\ job[r][s].pc \in {"stream", "leave", "done", "threw"}
      /\ OnlyJob(r, s) /\ Resolved(r, s, job[r][s].next)
      /\ Lands(job[r][s].snap, OthersWrite(<<r, s>>)) /\ Noted("late", loop[r].pc # "work")
      /\ UNCHANGED <<setup, part, task, loop>>
  BY CommitIs
<1>2. loop[r].pc = "work"
  BY <1>1 DEF Noted, Undone
<1>3. OfKept /\ \A q \in Runs : loop'[q].of = Of(q)
  BY <1>1 DEF OfKept, Of
<1>4. setup.ranged => \A w \in Readable' : Fits(w)
  <2>1. job[r][s].snap \in Snaps
    BY <1>0 DEF Types, JobType
  <2>2. setup.ranged => Within(job[r][s].snap, task[Of(r)].written)
    BY <1>1, <1>2 DEF Cursor, Snapped
  <2> QED BY <1>1, <1>2, <2>1, <2>2, LandsFit DEF Held
<1>5. \A q \in Runs : Holds(q)' => Holds(q)
  <2>1. \A q \in Runs : Newest(q)' <=> Newest(q)
    BY <1>3, LatestIs
  <2> QED BY <1>1, <2>1 DEF Holds, Of
<1>6. JobFrame(r, s)
  BY <1>1 DEF Resolved, Over, JobFrame, InPlace
<1>7. \A q \in Runs, p \in Segs : JobFrame(q, p)
  BY <1>1, <1>6, FrameSame DEF OnlyJob
<1>8. \A q \in Runs : LoopFrame(q)
  BY <1>1 DEF LoopFrame
<1>9. \A q \in Runs : loop'[q].pc \in {"fresh", "flush", "work"} => Of(q) \in Runs
  BY <1>1 DEF Good, Linked
<1>10. \A q \in Runs : Sweeping(q)' = Sweeping(q)
  BY <1>1 DEF Sweeping
<1>11. \A t \in Runs : task'[t].written = task[t].written
  BY <1>1
<1> QED BY <1>1, <1>3, <1>4, <1>5, <1>7, <1>8, <1>9, <1>10, <1>11, CursorKept

\* A run writes down how far its task is, and goes on.
LEMMA LandingCursor ==
  ASSUME Good, Order, One, Cursor, NEW r \in Runs, loop[r].pc \in {"fresh", "flush"},
         UNCHANGED <<setup, part, task>>, Lands(loop[r].snap, OthersWrite(<<r>>)),
         NEW pc \in {"work", "off"}, At(r, pc, loop[r].keep),
         \A s \in Segs : JobFrame(r, s),
         \A q \in Runs : q # r => job'[q] = job[q],
         pc = "work" => \A s \in Segs : job'[r][s].hand # "commit"
  PROVE  Cursor'
<1>0. Types
  BY DEF Good
<1>1. /\ loop'[r].pc = pc /\ \A q \in Runs : q # r => loop'[q] = loop[q]
      /\ \A q \in Runs : loop'[q].of = Of(q)
      /\ OfKept
  BY DEF At, OnlyLoop, Of, OfKept
<1>2. setup.ranged => \A w \in Readable' : Fits(w)
  <2>1. loop[r].snap \in Snaps
    BY <1>0 DEF Types, LoopType
  <2>2. setup.ranged => Within(loop[r].snap, task[Of(r)].written)
    BY DEF Cursor, Snapped
  <2> QED BY <2>1, <2>2, LandsFit DEF Held
<1>3. Newest(r) /\ \A q \in Runs : Newest(q)' <=> Newest(q)
  BY <1>1, LatestIs DEF One, Sequential
<1>4. \A q \in Runs : Holds(q)' => Holds(q)
  <2>1. Holds(r)' => Holds(r)
    BY <1>1, <1>3 DEF Holds, Of, Held
  <2>2. \A q \in Runs : q # r /\ Holds(q)' => Holds(q)
    BY <1>1, <1>3 DEF Holds, Of
  <2> QED BY <2>1, <2>2
<1>5. \A q \in Runs, s \in Segs : JobFrame(q, s)
  BY FrameSame
<1>6. \A q \in Runs : LoopFrame(q)
  BY <1>1 DEF LoopFrame
<1>7. \A q \in Runs : loop'[q].pc \in {"fresh", "flush", "work"} => Of(q) \in Runs
  BY <1>1 DEF Good, Linked
<1>8. \A q \in Runs : ~Sweeping(q)
  <2>1. \A q \in Runs : loop[q].pc # "sidecar"
    <3>1. SUFFICES ASSUME NEW q \in Runs, loop[q].pc = "sidecar" PROVE FALSE
      OBVIOUS
    <3>2. Newest(q)
      BY <3>1 DEF One, Sequential
    <3>3. q <= r /\ r <= q
      BY <1>3, <3>2 DEF Newest
    <3>4. q = r
      BY <3>3, RunsAre
    <3> QED BY <3>1, <3>4
  <2>2. \A q \in Runs : ~Deleting(q)
    BY DEF One, Cleaning
  <2> QED BY <2>1, <2>2 DEF Sweeping, Deleting
<1>9. \A t \in Runs : task'[t].written = task[t].written
  OBVIOUS
<1> QED BY <1>1, <1>2, <1>4, <1>5, <1>6, <1>7, <1>8, <1>9, CursorKept

LEMMA FlushCursor ==
  ASSUME Good, Order, One, Cursor, NEW r \in Runs, Flush(r)
  PROVE  Cursor'
<1>1. /\ loop[r].pc = "flush" /\ Lands(loop[r].snap, OthersWrite(<<r>>))
      /\ At(r, "off", loop[r].keep) /\ UNCHANGED <<setup, part, task, job>>
  BY FlushIs
<1>2. \A s \in Segs : JobFrame(r, s)
  BY <1>1, FrameSame
<1> QED BY <1>1, <1>2, LandingCursor

LEMMA FreshWrittenCursor ==
  ASSUME Good, Order, One, Cursor, NEW r \in Runs, FreshWritten(r)
  PROVE  Cursor'
<1>1. /\ loop[r].pc = "fresh" /\ Lands(loop[r].snap, OthersWrite(<<r>>))
      /\ At(r, "work", loop[r].keep) /\ UNCHANGED <<setup, part, task>>
      /\ Started(r, task[Of(r)].written)
  BY FreshWrittenIs, StartedIs
<1>2. /\ \A q \in Runs : q # r => job'[q] = job[q]
      /\ \A s \in Segs : /\ job'[r][s].hand = "none"
                         /\ job'[r][s].pc \in {"none", "queued", "granted"}
  BY <1>1 DEF Started
<1>3. \A s \in Segs : JobFrame(r, s)
  BY <1>2 DEF JobFrame, InPlace, Asking
<1> QED BY <1>1, <1>2, <1>3, LandingCursor

\* A chunk is on disk, and counted.
LEMMA WroteCursor ==
  ASSUME Good, Order, One, Cursor, NEW r \in Runs, NEW s \in Segs, Wrote(r, s), ~Undone'
  PROVE  Cursor'
<1>0. Calm /\ Types
  BY WroteCalm DEF Good
<1>1. /\ job[r][s].hand = "write" /\ job[r][s].pc \in {"stream", "leave", "done", "threw"}
      /\ OnlyJob(r, s)
      /\ part' = [q \in DOMAIN part |-> IF q = s THEN Append(part[q], job[r][s].next) ELSE part[q]]
      /\ Noted("late", \E q \in Used : q > r)
      /\ UNCHANGED <<setup, sidecar, loop>>
  BY WroteIs
<1>2. PICK now :
        /\ now = [task[Of(r)].written EXCEPT ![s] = @ + 1]
        /\ Tells(Of(r), task[Of(r)].state, now)
        /\ \/ Resolved(r, s, job[r][s].next + 1)
           \/ /\ setup.ranged /\ job'[r][s].pc = job[r][s].pc
              /\ job'[r][s].hand = "commit" /\ job'[r][s].snap = now
              /\ job'[r][s].next = job[r][s].next + 1 /\ job'[r][s].last = job[r][s].last
  <2>1. \E now :
          /\ now = [task[Of(r)].written EXCEPT ![s] = @ + 1]
          /\ Tells(Of(r), task[Of(r)].state, now)
          /\ \/ Resolved(r, s, job[r][s].next + 1)
             \/ /\ setup.ranged /\ job'[r][s].pc = job[r][s].pc
                /\ job'[r][s].hand = "commit" /\ job'[r][s].snap = now
                /\ job'[r][s].next = job[r][s].next + 1 /\ job'[r][s].last = job[r][s].last
                /\ job'[r][s].err = job[r][s].err /\ job'[r][s].live = job[r][s].live
                /\ job'[r][s].over = job[r][s].over
    BY WroteIs
  <2> QED BY <2>1
<1>3. Of(r) \in Runs /\ task[Of(r)].written \in [Segs -> Nat]
  BY <1>1, JobOf
<1>4. PICK old \in [Segs -> Nat] : old = task[Of(r)].written
  BY <1>3
<1>5. /\ now[s] = old[s] + 1 /\ \A p \in Segs : p # s => now[p] = old[p]
      /\ now \in [Segs -> Nat] /\ task'[Of(r)].written = now
  BY <1>2, <1>4 DEF Tells
<1>6. Within(old, now)
  BY <1>4, <1>5 DEF Within
<1>7. /\ Split' = Split /\ Segs' = Segs /\ OfKept /\ \A q \in Runs : loop'[q].of = Of(q)
      /\ \A p : Length(p)' = Length(p) /\ Piece(p)' = Piece(p)
  BY <1>1, SetupKept DEF OfKept, Of, Length, Piece, Resource
<1>8. Newest(r) /\ \A q \in Runs : Newest(q) => q = r
  <2>1. ~\E q \in Used : q > r
    BY <1>1 DEF Noted, Undone
  <2>2. r \in Used
    BY <1>3, RunsAre DEF Used, Of
  <2>3. Used \subseteq Runs
    BY DEF Used
  <2>4. Newest(r)
    <3>1. \A q \in Used : q \in Nat /\ r \in Nat /\ ~(q > r)
      BY <2>1, <2>3, RunsAre
    <3> HIDE DEF Used
    <3> QED BY <2>2, <3>1 DEF Newest
  <2> QED BY <1>7, <2>4, LatestIs
<1>9. \A q \in Runs : Newest(q)' => q = r
  BY <1>7, <1>8, LatestIs
<1>10. Holds(r)' => Holds(r)
  <2>1. task'[Of(r)].state = task[Of(r)].state
    BY <1>2 DEF Tells
  <2>2. task[Of(r)].written # <<>>
    <3>1. DOMAIN old = Segs /\ Segs # {} /\ DOMAIN (<<>>) = {}
      BY <1>4
    <3> QED BY <1>4, <3>1
  <2> QED BY <1>1, <1>7, <1>8, <2>1, <2>2 DEF Holds, Of
<1>11. /\ job[r][s].next \in Nat /\ job[r][s].next < setup.total
       /\ \A p \in Segs : InPlace(job[r][p], p, old[p])
       /\ job[r][s].next = Split[s].start + old[s] /\ job[r][s].next <= Split[s].end
  <2>1. job[r][s].next \in Nat /\ job[r][s].next < setup.total
    BY <1>0, <1>1 DEF Good, JobsInRange, InRange, Types, JobType
  <2>2. \A p \in Segs : InPlace(job[r][p], p, old[p])
    BY <1>4, <1>8 DEF Cursor, Moving
  <2> QED BY <1>1, <2>1, <2>2 DEF InPlace
<1>12. /\ DOMAIN part' = DOMAIN part
       /\ s \in DOMAIN part => part'[s] = Append(part[s], job[r][s].next)
       /\ \A p \in DOMAIN part : p # s => part'[p] = part[p]
  BY <1>1
<1>13. Exact'
  <2>1. SUFFICES ASSUME NEW q \in Runs, Holds(q)', NEW p \in Segs PROVE ExactAt(q, p)'
    BY <1>7 DEF Exact
  <2>2. q = r /\ Holds(r)
    BY <1>9, <1>10, <2>1 DEF Holds
  <2>3. \A m \in Segs : ExactAt(r, m)
    BY <2>2 DEF Cursor, Exact
  <2>4. /\ p \in DOMAIN part' /\ Len(part'[p]) = now[p]
        /\ setup.ranged \/ job'[r][p].pc \in Asking => Begins(part'[p], p, now[p])
    <3>1. CASE p = s
      <4>1. /\ s \in DOMAIN part /\ Len(part[s]) = old[s]
            /\ Begins(part[s], s, old[s])
        BY <1>1, <1>4, <2>3 DEF ExactAt, Asking
      <4>2. part[s] \in PartBytes /\ old[s] \in Nat
        BY <1>0, <1>4, <4>1, BytesAre DEF Bytes
      <4>3. LET more == Append(part[s], Split[s].start + old[s])
            IN  Begins(more, s, old[s] + 1) /\ Len(more) = old[s] + 1
        BY <1>0, <1>11, <4>1, <4>2, BeginsMore DEF Types
      <4> QED BY <1>5, <1>11, <1>12, <3>1, <4>1, <4>3
    <3>2. CASE p # s
      BY <1>1, <1>4, <1>5, <1>12, <2>3, <3>2 DEF ExactAt, OnlyJob
    <3> QED BY <3>1, <3>2
  <2> QED BY <1>1, <1>5, <1>7, <2>2, <2>4 DEF ExactAt, Begins, Of
<1>14. Moving'
  <2>1. SUFFICES ASSUME NEW q \in Runs, Newest(q)', NEW p \in Segs
                 PROVE  InPlace(job[q][p], p, task[Of(q)].written[p])'
    BY <1>7 DEF Moving
  <2>2. q = r
    BY <1>9, <2>1
  <2>3. InPlace(job'[r][p], p, now[p])
    <3>1. CASE p = s
      <4>1. PICK a \in Nat, b \in Nat, k \in Nat :
              a = Split[s].start /\ b = Split[s].end /\ k = old[s]
        BY <1>0, <1>4, PieceIs DEF Types
      <4>2. /\ job'[r][s].hand # "write" /\ job'[r][s].pc # "get"
            /\ job'[r][s].pc = "stream" =>
                 /\ job[r][s].pc = "stream"
                 /\ job'[r][s].next = job[r][s].next + 1 /\ job'[r][s].last = job[r][s].last
        BY <1>1, <1>2 DEF Resolved, Over
      <4>3. job[r][s].pc = "stream" => job[r][s].last = b
        BY <1>11, <4>1 DEF InPlace
      <4>4. (a + k) + 1 = a + (k + 1) /\ (a + k <= b => (a + k) + 1 <= b + 1)
        BY <4>1
      <4> QED BY <1>5, <1>11, <3>1, <4>1, <4>2, <4>3, <4>4 DEF InPlace
    <3>2. CASE p # s
      BY <1>1, <1>5, <1>11, <3>2 DEF OnlyJob
    <3> QED BY <3>1, <3>2
  <2> QED BY <1>5, <1>7, <2>2, <2>3 DEF InPlace, Of
<1>15. ASSUME setup.ranged PROVE Backed' /\ Behind' /\ Snapped'
  <2>0. /\ Backed /\ Behind /\ Snapped
        /\ \A q \in Runs : Sweeping(q)' = Sweeping(q)
        /\ Readable' = Readable
        /\ \A w \in Readable : w \in [Segs -> Nat]
    <3>1. \A w \in Readable : w \in [Segs -> Nat]
      <4>1. SUFFICES ASSUME NEW w \in Readable PROVE w \in [Segs -> Nat]
        OBVIOUS
      <4>2. w \in Snaps /\ w # <<>>
        BY <1>0, <4>1 DEF Types, SidecarTyped, Readable, Corrupt
      <4> QED BY <4>2 DEF Snaps
    <3> QED BY <1>0, <1>1, <1>15, <3>1 DEF Cursor, Sweeping, Calm, Steady, Readable, Corrupt
  <2>1. Backed'
    <3>1. SUFFICES ASSUME \A q \in Runs : ~Sweeping(q)', NEW w \in Readable', NEW p \in Segs
                   PROVE  Begins(Bytes(p), p, w[p])'
      BY <1>7 DEF Backed, Backs
    <3>2. Begins(Bytes(p), p, w[p]) /\ w[p] \in Nat
      BY <2>0, <3>1 DEF Backed, Backs
    <3>3. Begins(Bytes(p)', p, w[p])
      <4>1. CASE p = s /\ s \in DOMAIN part
        <5>1. Bytes(p) = part[s] /\ Bytes(p)' = Append(part[s], job[r][s].next)
          BY <1>12, <4>1 DEF Bytes
        <5>2. job[r][s].next \in Zero .. setup.total - 1
          <6>1. PICK total \in Nat : total = setup.total
            BY SegsAre, <1>0 DEF Types
          <6> QED BY <1>11, <6>1 DEF Zero
        <5>3. part[s] \in PartBytes
          BY <1>0, <5>1, <4>1, BytesAre
        <5> QED BY <3>2, <4>1, <5>1, <5>2, <5>3, BeginsLonger
      <4>2. CASE ~(p = s /\ s \in DOMAIN part)
        <5>1. Bytes(p)' = Bytes(p)
          BY <1>12, <4>2 DEF Bytes
        <5> QED BY <3>2, <5>1
      <4> QED BY <4>1, <4>2
    <3> QED BY <1>7, <3>3 DEF Begins
  <2>2. Behind'
    <3>1. SUFFICES ASSUME NEW q \in Runs, Holds(q)', NEW w \in Readable', NEW p \in Segs
                   PROVE  w[p] \in Nat /\ w[p] <= task'[loop'[q].of].written[p]
      BY <1>7 DEF Behind, Within, Of
    <3>2. q = r /\ Holds(r)
      BY <1>9, <1>10, <3>1 DEF Holds
    <3>3. w[p] \in Nat /\ w[p] <= old[p] /\ old[p] <= now[p] /\ old[p] \in Nat /\ now[p] \in Nat
      BY <1>4, <1>5, <1>6, <2>0, <3>1, <3>2 DEF Behind, Within
    <3> QED BY <1>5, <1>7, <3>2, <3>3
  <2>3. Snapped'
    <3>1. \A q \in Runs : loop[q].pc # "off" => q = r
      BY <1>8 DEF One, Sequential
    <3>2. ASSUME NEW snap, Within(snap, old) PROVE Within(snap, now)
      <4>1. \A p \in Segs : snap[p] \in Nat /\ snap[p] <= old[p] /\ old[p] <= now[p]
                            /\ old[p] \in Nat /\ now[p] \in Nat
        BY <1>4, <1>5, <1>6, <3>2 DEF Within
      <4> QED BY <4>1 DEF Within
    <3>3. ASSUME NEW q \in Runs, loop'[q].pc \in {"fresh", "flush"}
          PROVE  \A p \in Segs : loop'[q].snap[p] \in Nat /\ loop'[q].snap[p] <= task'[loop'[q].of].written[p]
      <4>1. q = r /\ Within(loop[q].snap, old)
        BY <1>1, <1>4, <2>0, <3>1, <3>3 DEF Snapped
      <4>2. Within(loop[q].snap, now)
        BY <3>2, <4>1
      <4> QED BY <1>1, <1>5, <1>7, <4>1, <4>2 DEF Within
    <3>4. ASSUME NEW q \in Runs, NEW m \in Segs, loop'[q].pc = "work", job'[q][m].hand = "commit"
          PROVE  \A p \in Segs : job'[q][m].snap[p] \in Nat /\ job'[q][m].snap[p] <= task'[loop'[q].of].written[p]
      <4>1. q = r /\ loop[r].pc = "work"
        BY <1>1, <3>1, <3>4
      <4>2. Within(job'[r][m].snap, now)
        <5>1. CASE m = s
          <6>1. job'[r][s].snap = now
            BY <1>2, <3>4, <4>1, <5>1 DEF Resolved
          <6>2. Within(now, now)
            BY <1>5 DEF Within
          <6> QED BY <5>1, <6>1, <6>2
        <5>2. CASE m # s
          <6>1. job'[r][m] = job[r][m]
            BY <1>1, <5>2 DEF OnlyJob
          <6>2. Within(job[r][m].snap, old)
            BY <1>4, <2>0, <3>4, <4>1, <6>1 DEF Snapped
          <6> QED BY <3>2, <6>1, <6>2
        <5> QED BY <5>1, <5>2
      <4> QED BY <1>5, <1>7, <4>1, <4>2 DEF Within
    <3> QED BY <1>7, <3>3, <3>4 DEF Snapped, Within, Of
  <2> QED BY <2>1, <2>2, <2>3
<1> QED BY <1>1, <1>13, <1>14, <1>15 DEF Cursor

\* A task takes over its offsets, and its parts are cut to them.
LEMMA TakenOver ==
  ASSUME Good, Order, One, NEW r \in Runs, loop[r].pc = "prepare",
         UNCHANGED <<setup, sidecar>>,
         NEW w \in [Segs -> Nat], part' = PartsAt(w), Tells(Of(r), task[Of(r)].state, w),
         NEW pc \in {"fresh", "work"}, At(r, pc, loop[r].keep),
         pc = "fresh" => loop'[r].snap = w,
         \A s \in Segs : job'[r][s].pc \in {"none", "queued", "granted"} /\ job'[r][s].hand = "none",
         setup.ranged => Readable \subseteq {w} /\ \A s \in Segs : Begins(Bytes(s), s, w[s])
  PROVE  Cursor'
<1>0. Types /\ Of(r) \in Runs
  BY RunIs
<1>1. /\ Split' = Split /\ Segs' = Segs /\ OfKept /\ \A q \in Runs : loop'[q].of = Of(q)
      /\ \A p : Length(p)' = Length(p) /\ Piece(p)' = Piece(p)
      /\ loop'[r].pc = pc /\ \A q \in Runs : q # r => loop'[q] = loop[q]
      /\ task'[Of(r)].written = w
  BY SetupKept DEF OfKept, Of, Length, Piece, Resource, At, OnlyLoop, Tells
<1>2. /\ Newest(r) /\ \A q \in Runs : Newest(q)' => q = r
      /\ \A q \in Runs : q # r => loop[q].pc = "off"
  <2>1. Newest(r)
    BY DEF One, Sequential
  <2>2. \A q \in Runs : Newest(q) => q = r
    BY <1>1, <2>1, LatestIs
  <2> QED BY <1>1, <2>1, <2>2, LatestIs DEF One, Sequential
<1>3. /\ DOMAIN part' = Segs
      /\ \A s \in Segs : /\ Len(part'[s]) = w[s]
                         /\ setup.ranged => Begins(part'[s], s, w[s])
  <2>1. /\ DOMAIN part' = Segs
        /\ \A s \in Segs : part'[s] = Resized(Bytes(s), w[s])
    BY DEF PartsAt
  <2>2. ASSUME NEW s \in Segs
        PROVE  Len(part'[s]) = w[s] /\ (setup.ranged => Begins(part'[s], s, w[s]))
    <3>1. w[s] \in Nat /\ Bytes(s) \in PartBytes
      BY <1>0, BytesAre
    <3>2. Len(part'[s]) = w[s]
      BY <2>1, <3>1, ResizedLen
    <3>3. setup.ranged => Begins(part'[s], s, w[s])
      BY <2>1, <3>1, BeginsCut
    <3> QED BY <3>2, <3>3
  <2> QED BY <2>1, <2>2
<1>4. Exact'
  <2>1. SUFFICES ASSUME NEW q \in Runs, Holds(q)', NEW s \in Segs PROVE ExactAt(q, s)'
    BY <1>1 DEF Exact
  <2>2. q = r
    BY <1>2, <2>1 DEF Holds
  <2>3. job'[r][s].pc \notin Asking
    BY DEF Asking
  <2> QED BY <1>1, <1>3, <2>2, <2>3 DEF ExactAt, Begins, Of
<1>5. Moving'
  <2>1. SUFFICES ASSUME NEW q \in Runs, Newest(q)', NEW s \in Segs
                 PROVE  InPlace(job[q][s], s, task[Of(q)].written[s])'
    BY <1>1 DEF Moving
  <2>2. q = r
    BY <1>2, <2>1
  <2>3. job'[r][s].pc \notin {"get", "stream"} /\ job'[r][s].hand # "write"
    OBVIOUS
  <2> QED BY <2>2, <2>3 DEF InPlace
<1>6. ASSUME setup.ranged PROVE Backed' /\ Behind' /\ Snapped'
  <2>1. \A v \in Readable' : v = w
    BY <1>6 DEF Readable, Corrupt
  <2>2. Backed'
    <3>1. SUFFICES ASSUME NEW s \in Segs PROVE Begins(Bytes(s), s, w[s])'
      BY <1>1, <2>1 DEF Backed, Backs
    <3>2. Bytes(s)' = part'[s]
      BY <1>3 DEF Bytes
    <3> QED BY <1>1, <1>3, <1>6, <3>2 DEF Begins
  <2>3. \A q \in Runs, s \in Segs : q = r => w[s] \in Nat /\ w[s] <= task'[loop'[q].of].written[s]
    BY <1>1
  <2>4. Behind'
    <3>1. SUFFICES ASSUME NEW q \in Runs, Holds(q)', NEW v \in Readable', NEW s \in Segs
                   PROVE  v[s] \in Nat /\ v[s] <= task'[loop'[q].of].written[s]
      BY <1>1 DEF Behind, Within, Of
    <3>2. q = r
      BY <1>2, <3>1 DEF Holds
    <3> QED BY <2>1, <2>3, <3>1, <3>2
  <2>5. Snapped'
    <3>1. \A q \in Runs : loop'[q].pc \in {"fresh", "flush"} => q = r /\ loop'[q].snap = w
      BY <1>1, <1>2
    <3>2. \A q \in Runs, s \in Segs : ~(loop'[q].pc = "work" /\ job'[q][s].hand = "commit")
      BY <1>1, <1>2
    <3> QED BY <1>1, <2>3, <3>1, <3>2 DEF Snapped, Within, Of
  <2> QED BY <2>2, <2>4, <2>5
<1> QED BY <1>4, <1>5, <1>6 DEF Cursor

LEMMA FromSidecarCursor ==
  ASSUME Good, Order, One, Cursor, NEW r \in Runs, PrepareFromSidecar(r)
  PROVE  Cursor'
<1>1. loop[r].pc = "prepare" /\ At(r, "work", loop[r].keep) /\ UNCHANGED <<setup, sidecar>>
  BY FromSidecarIs
<1>2. PICK w \in Readable :
        /\ w \in [Segs -> Nat] /\ part' = PartsAt(w) /\ Spread(r, w)
        /\ Tells(Of(r), task[Of(r)].state, w)
  BY FromSidecarIs
<1>3. \A s \in Segs : job'[r][s].pc \in {"none", "queued", "granted"} /\ job'[r][s].hand = "none"
  BY <1>2, StartedIs DEF Started
<1>4. Readable \subseteq {w}
  <2>1. SidecarTyped
    BY DEF Good, Types
  <2> QED BY <1>2, <2>1 DEF SidecarTyped, Readable
<1>5. \A q \in Runs : ~Sweeping(q)
  <2>1. \A q \in Runs : loop[q].pc # "sidecar"
    <3>1. SUFFICES ASSUME NEW q \in Runs, loop[q].pc = "sidecar" PROVE FALSE
      OBVIOUS
    <3>2. Newest(q) /\ Newest(r)
      BY <1>1, <3>1 DEF One, Sequential
    <3>3. q <= r /\ r <= q
      BY <3>2 DEF Newest
    <3>4. q = r
      BY <3>3, RunsAre
    <3> QED BY <1>1, <3>1, <3>4
  <2>2. \A q \in Runs : ~Deleting(q)
    BY <1>1 DEF One, Cleaning
  <2> QED BY <2>1, <2>2 DEF Sweeping, Deleting
<1>6. setup.ranged => \A s \in Segs : Begins(Bytes(s), s, w[s])
  BY <1>2, <1>5 DEF Cursor, Backed, Backs
<1> QED BY <1>1, <1>2, <1>3, <1>4, <1>6, TakenOver

LEMMA FreshCursor ==
  ASSUME Good, Order, One, Cursor, NEW r \in Runs, PrepareFresh(r)
  PROVE  Cursor'
<1>0. Types
  BY DEF Good
<1>1. /\ loop[r].pc = "prepare" /\ Readable = {} /\ UNCHANGED <<setup, sidecar, job>>
  BY FreshIs
<1>2. PICK zeros : /\ zeros = [s \in Segs |-> 0] /\ part' = PartsAt(zeros)
                   /\ Tells(Of(r), task[Of(r)].state, zeros)
                   /\ At(r, "fresh", loop[r].keep) /\ loop'[r].snap = zeros
  BY FreshIs
<1>3. zeros \in [Segs -> Nat] /\ \A s \in Segs : zeros[s] = 0
  BY <1>2
<1>4. \A s \in Segs : job'[r][s].pc = "none" /\ job'[r][s].hand = "none"
  <2>1. \A s \in Segs : job[r][s].pc = "none"
    BY <1>1, NoHandler
  <2> QED BY <1>1, <2>1 DEF Good, JobsInRange, InRange
<1>5. \A s \in Segs : Begins(Bytes(s), s, zeros[s])
  <2>1. SUFFICES ASSUME NEW s \in Segs PROVE Begins(Bytes(s), s, 0)
    BY <1>3
  <2>2. Len(Bytes(s)) \in Nat
    BY <1>0, BytesAre, LenProperties DEF PartBytes
  <2> QED BY <1>0, <2>2, NoneBegins
<1> QED BY <1>1, <1>2, <1>3, <1>4, <1>5, TakenOver

\* A run begins: of a new task, or of one that is paused.
LEMMA BeginsCursor ==
  ASSUME Good, Order, One, Cursor, NEW r \in Runs, NEW t, NEW pc \in {"probe", "work"},
         Beginning(r, t, pc), t = r \/ t \in Used, UNCHANGED <<part, sidecar>>,
         \A q \in Runs : loop[q].pc = "off" /\ ~Finishing(q),
         \A s \in Segs : job'[r][s].pc \in {"none", "queued", "granted"} /\ job'[r][s].hand = "none",
         pc = "work" => task'[t].written = task[t].written /\ \E n \in Runs : Holds(n) /\ Of(n) = t
  PROVE  Cursor'
<1>0. Types
  BY DEF Good
<1>1. /\ Newest(r)' /\ t \in Runs /\ \A q \in Runs : Newest(q)' => q = r
  BY FirstIs
<1>2. /\ loop'[r].of = t /\ loop'[r].pc = pc
      /\ \A q \in Runs : q # r => loop'[q].pc = "off"
      /\ setup' = setup
  BY DEF Beginning, OnlyLoop
<1>3. /\ Split' = Split /\ Segs' = Segs
      /\ \A p : Length(p)' = Length(p) /\ Piece(p)' = Piece(p) /\ Bytes(p)' = Bytes(p)
      /\ Readable' = Readable
  BY <1>2, SetupKept DEF Length, Piece, Resource, Bytes, Readable, Corrupt
<1>4. ASSUME NEW q \in Runs, Holds(q)'
      PROVE  /\ q = r /\ task'[t].written = task[t].written
             /\ \A s \in Segs : /\ s \in DOMAIN part /\ Len(part[s]) = task[t].written[s]
                                /\ setup.ranged => Begins(part[s], s, task[t].written[s])
             /\ setup.ranged => \A w \in Readable : Within(w, task[t].written)
  <2>1. q = r
    BY <1>1, <1>4 DEF Holds
  <2>2. pc = "work"
    BY <1>2, <1>4, <2>1 DEF Holds, Held
  <2>3. PICK n \in Runs : Holds(n) /\ Of(n) = t
    BY <2>2
  <2>4. \A s \in Segs : ExactAt(n, s)
    BY <2>3 DEF Cursor, Exact
  <2>5. setup.ranged => \A w \in Readable : Within(w, task[t].written)
    BY <2>3 DEF Cursor, Behind
  <2> QED BY <2>1, <2>2, <2>3, <2>4, <2>5 DEF ExactAt
<1>5. Exact'
  <2>1. SUFFICES ASSUME NEW q \in Runs, Holds(q)', NEW s \in Segs PROVE ExactAt(q, s)'
    BY <1>3 DEF Exact
  <2>2. q = r /\ job'[r][s].pc \notin Asking
    BY <1>4, <2>1 DEF Asking
  <2> QED BY <1>2, <1>3, <1>4, <2>1, <2>2 DEF ExactAt, Begins, Of
<1>6. Moving'
  <2>1. SUFFICES ASSUME NEW q \in Runs, Newest(q)', NEW s \in Segs
                 PROVE  InPlace(job[q][s], s, task[Of(q)].written[s])'
    BY <1>3 DEF Moving
  <2>2. q = r /\ job'[r][s].pc \notin {"get", "stream"} /\ job'[r][s].hand # "write"
    BY <1>1, <2>1
  <2> QED BY <2>2 DEF InPlace
<1>7. ASSUME setup.ranged PROVE Backed' /\ Behind' /\ Snapped'
  <2>1. \A q \in Runs : ~Sweeping(q)
    BY DEF Sweeping, Finishing
  <2>2. \A w \in Readable, s \in Segs : Begins(Bytes(s), s, w[s])
    BY <1>7, <2>1 DEF Cursor, Backed, Backs
  <2>3. Backed'
    BY <1>3, <2>2 DEF Backed, Backs, Begins
  <2>4. Behind'
    <3>1. SUFFICES ASSUME NEW q \in Runs, Holds(q)', NEW w \in Readable', NEW s \in Segs
                   PROVE  w[s] \in Nat /\ w[s] <= task'[loop'[q].of].written[s]
      BY <1>3 DEF Behind, Within, Of
    <3> QED BY <1>2, <1>3, <1>4, <1>7, <3>1 DEF Within
  <2>5. Snapped'
    <3>1. \A q \in Runs : loop'[q].pc \notin {"fresh", "flush"}
      BY <1>2
    <3>2. \A q \in Runs, s \in Segs : ~(loop'[q].pc = "work" /\ job'[q][s].hand = "commit")
      BY <1>2
    <3> QED BY <1>3, <3>1, <3>2 DEF Snapped
  <2> QED BY <2>3, <2>4, <2>5
<1> QED BY <1>2, <1>5, <1>6, <1>7 DEF Cursor

LEMMA EnqueueCursor ==
  ASSUME Good, Order, One, Cursor, Enqueue, ~Undone'
  PROVE  Cursor'
<1>1. /\ UNCHANGED <<setup, part, sidecar, job>> /\ mishaps \subseteq mishaps'
      /\ "overlap" \notin mishaps' => \A t \in Runs : Quiet(t)
  BY EnqueueIs
<1>2. PICK r \in Runs :
        /\ First(r) /\ OnlyTask(r) /\ OnlyLoop(r)
        /\ loop'[r].of = r /\ loop'[r].pc = "probe" /\ ~loop'[r].keep
        /\ task'[r].state = "running" /\ ~task'[r].stop /\ ~task'[r].cancel
        /\ task'[r].current = r
  BY EnqueueIs
<1>3. Beginning(r, r, "probe")
  BY <1>1, <1>2 DEF Beginning
<1>4. \A t \in Runs : Quiet(t)
  BY <1>1 DEF Undone
<1>5. \A q \in Runs : loop[q].pc = "off" /\ ~Finishing(q)
  <2>1. \A q \in Runs : loop[q].pc # "off" => Of(q) \in Runs
    BY DEF Good, Linked
  <2> QED BY <1>4, <2>1 DEF Quiet, Settled, Of, Finishing
<1>6. \A s \in Segs : job'[r][s].pc = "none" /\ job'[r][s].hand = "none"
  <2>1. \A s \in Segs : job[r][s].pc = "none"
    BY <1>2, NoHandler DEF First
  <2> QED BY <1>1, <2>1 DEF Good, JobsInRange, InRange
<1> QED BY <1>1, <1>3, <1>5, <1>6, BeginsCursor

LEMMA ResumeCursor ==
  ASSUME Good, Order, One, Cursor, NEW t \in Runs, Resume(t), ~Undone'
  PROVE  Cursor'
<1>1. /\ UNCHANGED <<setup, part, sidecar>> /\ mishaps \subseteq mishaps'
      /\ "overlap" \notin mishaps' => Quiet(t) /\ ~Superseded(t)
      /\ "revived" \notin mishaps' => task[t].state = "paused"
      /\ OnlyTask(t) /\ task'[t].state = "running" /\ ~task'[t].stop /\ ~task'[t].cancel
      /\ task'[t].written = task[t].written
  BY ResumeIs
<1>2. PICK r \in Runs :
        /\ First(r) /\ OnlyLoop(r) /\ task'[t].current = r
        /\ loop'[r].of = t /\ ~loop'[r].keep
        /\ \/ task[t].written = <<>> /\ loop'[r].pc = "probe" /\ job' = job
           \/ /\ task[t].written # <<>> /\ loop'[r].pc = "work"
              /\ Spread(r, task[t].written)
  BY ResumeIs
<1>3. Quiet(t) /\ ~Superseded(t) /\ task[t].state = "paused"
  BY <1>1 DEF Undone
<1>4. PICK pc \in {"probe", "work"} :
        /\ loop'[r].pc = pc /\ (pc = "work" => task[t].written # <<>>)
        /\ \A q \in Runs : q # r => job'[q] = job[q]
        /\ pc # "work" => job' = job
  BY <1>2, StartedIs DEF Started
<1>5. Beginning(r, t, pc)
  BY <1>1, <1>2, <1>4 DEF Beginning
<1>6. Of(t) = t /\ t \in Used
  <2>1. Of(t) = t
    BY <1>3 DEF Order
  <2>2. t # NoRun
    BY RunsAre
  <2> QED BY <2>1, <2>2 DEF Used, Of
<1>7. PICK n \in Runs : Newest(n) /\ Of(n) = t
  BY <1>3, <1>6, NewestIs DEF One
<1>8. loop[n].pc = "off" /\ task[t].finish \in {"no", "end"}
  BY <1>3, <1>7 DEF Quiet, Settled, Of
<1>9. \A q \in Runs : loop[q].pc = "off" /\ ~Finishing(q)
  <2>1. \A q \in Runs : Newest(q) => q = n
    BY <1>7, RunsAre DEF Newest
  <2> QED BY <1>7, <1>8, <2>1 DEF One, Sequential, Cleaning, Finishing
<1>10. \A s \in Segs : job'[r][s].pc \in {"none", "queued", "granted"} /\ job'[r][s].hand = "none"
  <2>1. CASE job' = job
    <3>1. \A s \in Segs : job[r][s].pc = "none"
      BY <1>2, NoHandler DEF First
    <3> QED BY <2>1, <3>1 DEF Good, JobsInRange, InRange
  <2>2. CASE Spread(r, task[t].written)
    BY <2>2, StartedIs DEF Started
  <2> QED BY <1>2, <2>1, <2>2
<1>11. pc = "work" => Holds(n)
  BY <1>3, <1>4, <1>7, <1>8 DEF Holds
<1> QED BY <1>1, <1>5, <1>6, <1>7, <1>9, <1>10, <1>11, BeginsCursor

\* The process ends, and nobody holds the parts.
LEMMA CrashCursor ==
  ASSUME Good, Order, Cursor, Crash, ~Undone'
  PROVE  Cursor'
<1>1. /\ UNCHANGED <<setup, part, sidecar>>
      /\ \A t \in Runs : task'[t] = NoTask
      /\ \A q \in Runs : loop'[q].of = Of(q) /\ loop'[q].pc = "off"
      /\ \A q \in Runs, s \in Segs : job'[q][s] = NoJob
      /\ Noted("cut", \E q \in Runs : Sweeping(q))
  BY CrashIs
<1>2. /\ Split' = Split /\ Segs' = Segs /\ Used' = Used
      /\ \A p : Length(p)' = Length(p) /\ Piece(p)' = Piece(p) /\ Bytes(p)' = Bytes(p)
      /\ Readable' = Readable
      /\ \A q \in Runs : Newest(q)' <=> Newest(q)
  BY <1>1, SetupKept, UsedKept DEF OfKept, Of, Length, Piece, Resource, Bytes, Readable, Corrupt
<1>3. \A q \in Runs : ~Holds(q)'
  <2>1. SUFFICES ASSUME NEW q \in Runs, Holds(q)' PROVE FALSE
    OBVIOUS
  <2>2. Of(q) \in Runs
    BY <1>2, <2>1 DEF Holds, Newest, Order, Used
  <2>3. task'[loop'[q].of].written = <<>>
    BY <1>1, <2>2 DEF NoTask
  <2> QED BY <2>1, <2>3 DEF Holds, Of
<1>4. Exact'
  BY <1>3 DEF Exact
<1>5. Moving'
  BY <1>1, <1>2 DEF Moving, InPlace, NoJob
<1>6. ASSUME setup.ranged PROVE Backed' /\ Behind' /\ Snapped'
  <2>1. \A q \in Runs : ~Sweeping(q)
    BY <1>1 DEF Noted, Undone
  <2>2. \A w \in Readable, s \in Segs : Begins(Bytes(s), s, w[s])
    BY <1>6, <2>1 DEF Cursor, Backed, Backs
  <2>3. Backed'
    BY <1>2, <2>2 DEF Backed, Backs, Begins
  <2>4. Behind'
    BY <1>3 DEF Behind
  <2>5. Snapped'
    BY <1>1, <1>2 DEF Snapped
  <2> QED BY <2>3, <2>4, <2>5
<1> QED BY <1>1, <1>4, <1>5, <1>6 DEF Cursor

LEMMA InitCursor == Init => Cursor
<1> SUFFICES ASSUME Init PROVE Cursor
  OBVIOUS
<1>1. /\ \A r \in Runs : loop[r] = NoLoop
      /\ NoLoop.of = NoRun /\ sidecar = {}
  BY DEF Init, NoLoop
<1>2. \A r \in Runs : ~Newest(r)
  BY <1>1 DEF Newest, Used
<1>3. Readable = {}
  BY <1>1 DEF Readable
<1>4. \A r \in Runs : loop[r].pc = "off"
  BY <1>1 DEF NoLoop
<1> QED BY <1>2, <1>3, <1>4 DEF Cursor, Exact, Moving, Backed, Behind, Snapped, Holds

LEMMA HandlersCursor ==
  ASSUME Good, Order, One, Cursor, NEW r \in Runs, NEW s \in Segs,
         SegmentStep(r, s) \/ Arrives(r, s), ~Undone'
  PROVE  Cursor'
  BY GrantedCursor, GetCursor, StreamCursor, WroteCursor, CommitCursor, LeaveCursor
  DEF SegmentStep, Arrives

LEMMA RunsCursor ==
  ASSUME Good, Order, One, Cursor, NEW r \in Runs, LoopStep(r)
  PROVE  Cursor'
<1>1. CASE Prepared(r)
  BY <1>1, PreparedIs DEF One, Staged
<1>2. CASE Probe(r) \/ OpenDest(r) \/ SweepParts(r) \/ SweepSidecar(r)
  BY <1>2, PlainCursor
<1>3. CASE Concat(r) \/ Verify(r) \/ ProbeFails(r)
  BY <1>3, AssembleCursor
<1>4. CASE Complete(r) \/ GiveUp(r)
  BY <1>4, EndCursor
<1>5. CASE \/ PrepareFromSidecar(r) \/ PrepareFresh(r) \/ FreshWritten(r) \/ Join(r) \/ Flush(r)
  BY <1>5, FromSidecarCursor, FreshCursor, FreshWrittenCursor, JoinCursor, FlushCursor
<1> QED BY <1>1, <1>2, <1>3, <1>4, <1>5 DEF LoopStep

\* What went wrong stays noted.
LEMMA MishapsStay ==
  ASSUME Good, [Next]_vars
  PROVE  mishaps \subseteq mishaps'
<1>1. CASE UNCHANGED vars
  BY <1>1 DEF vars
<1>2. CASE Enqueue
  BY <1>2, EnqueueIs
<1>3. ASSUME NEW t \in Runs, Resume(t) \/ Pause(t) \/ Cancel(t) \/ FinishCancel(t)
      PROVE  mishaps \subseteq mishaps'
  BY <1>3, ResumeIs, FinishIs DEF Pause, Cancel, Noted
<1>4. ASSUME NEW r \in Runs, LoopStep(r)
      PROVE  mishaps \subseteq mishaps'
  BY <1>4, RunsGo DEF Goings, Going
<1>5. ASSUME NEW r \in Runs, NEW s \in Segs, SegmentStep(r, s) \/ Arrives(r, s)
      PROVE  mishaps \subseteq mishaps'
  BY <1>5, HandlersCalm DEF Calm
<1>6. CASE Crash
  BY <1>6, CrashIs DEF Noted
<1> QED BY <1>1, <1>2, <1>3, <1>4, <1>5, <1>6 DEF Next, App

\* The resume cursor is right, as long as nothing undoes it.
LEMMA CursorNext ==
  ASSUME Good, Order, Alone => One, ~Undone => Cursor, [Next]_vars, ~Undone'
  PROVE  Cursor'
<1>1. ~Undone /\ One /\ Cursor
  BY MishapsStay DEF Undone, Alone
<1>2. CASE UNCHANGED vars
  <2>1. Calm
    BY <1>2 DEF Calm, vars, Steady
  <2>2. \A q \in Runs, s \in Segs : JobFrame(q, s)
    BY <1>2, FrameSame DEF vars
  <2>3. part' = part /\ sidecar' = sidecar /\ task' = task
    BY <1>2 DEF vars
  <2> QED BY <1>1, <2>1, <2>2, <2>3, HandlersKeep
<1>3. CASE App
  BY <1>1, <1>3, EnqueueCursor, ResumeCursor, StopCursor DEF App
<1>4. CASE Crash
  BY <1>1, <1>4, CrashCursor
<1>5. ASSUME NEW r \in Runs, LoopStep(r) \/ FinishCancel(r)
      PROVE  Cursor'
  BY <1>1, <1>5, RunsCursor, FinishCursor
<1>6. ASSUME NEW r \in Runs, NEW s \in Segs, SegmentStep(r, s) \/ Arrives(r, s)
      PROVE  Cursor'
  BY <1>1, <1>6, HandlersCursor
<1> QED BY <1>2, <1>3, <1>4, <1>5, <1>6 DEF Next

LEMMA AlwaysCursor == Spec => [](~Undone => Cursor)
<1>1. Init => (~Undone => Cursor)
  BY InitCursor
<1>2. Good /\ Order /\ (Alone => One) /\ (~Undone => Cursor) /\ [Next]_vars => (~Undone => Cursor)'
  BY CursorNext
<1> QED BY <1>1, <1>2, AlwaysOne, PTL DEF Spec

\* download_task.dart:15-17: what the sidecar counts as written is on disk, and
\* right, whenever the process may end, but between the deletion of the parts
\* and that of the sidecar, and after what Undone lists.
THEOREM ResumeCursorHolds == Spec => []SidecarBacked
<1>1. (~Undone => Cursor) => SidecarBacked
  BY DEF Cursor, Backed, Backs, Begins, SidecarBacked
<1> QED BY <1>1, AlwaysCursor, PTL

-----------------------------------------------------------------------------
(* The parts, one after the other.                                         *)

\* A nonempty set of naturals has a least element.
LEMMA LeastOf ==
  ASSUME NEW T \in SUBSET Nat, T # {}
  PROVE  \E i \in T : \A j \in T : i <= j
<1>1. PICK i \in T : \A j \in T : ~(<<j, i>> \in OpToRel(<, Nat))
  BY NatLessThanWellFounded, WFMin
<1>2. \A j \in T : <<j, i>> \in Nat \X Nat
  OBVIOUS
<1>3. \A j \in T : <<j, i>>[1] < <<j, i>>[2] => <<j, i>> \in OpToRel(<, Nat)
  BY <1>2, Zenon DEF OpToRel
<1>4. \A j \in T : ~(j < i)
  BY <1>1, <1>3
<1> QED BY <1>4

\* The first n bytes of the resource.
Initial(n) == [k \in 1 .. n |-> k - 1]

\* What FlattenSeq defines by recursion.
Flat(F, n, seqs) == [i \in 1 .. n |-> IF i = 1 THEN seqs[i] ELSE F[i - 1] \o seqs[i]]
IsFlat(F, n, seqs) == F = Flat(F, n, seqs)

LEMMA FlattenIs ==
  ASSUME NEW seqs, Len(seqs) # 0
  PROVE  FlattenSeq(seqs) = (CHOOSE F : IsFlat(F, Len(seqs), seqs))[Len(seqs)]
  BY DEF FlattenSeq, IsFlat, Flat

\* There is such a function for every sequence of sequences: a longer one from a
\* shorter one.
LEMMA FlatExists ==
  ASSUME NEW seqs, NEW m \in Nat
  PROVE  \E F : IsFlat(F, m, seqs)
<1> DEFINE lacking == {n \in Nat : ~\E F : IsFlat(F, n, seqs)}
<1>1. SUFFICES ASSUME lacking # {} PROVE FALSE
  OBVIOUS
<1>2. PICK n \in lacking : \A j \in lacking : n <= j
  <2>1. lacking \in SUBSET Nat
    OBVIOUS
  <2> HIDE DEF lacking
  <2> QED BY <1>1, <2>1, LeastOf
<1>3. n \in Nat /\ ~\E F : IsFlat(F, n, seqs)
  OBVIOUS
<1>4. n # 0
  <2>1. SUFFICES ASSUME n = 0 PROVE FALSE
    OBVIOUS
  <2> DEFINE F == [i \in 1 .. 0 |-> 0]
  <2>2. IsFlat(F, 0, seqs)
    BY DEF IsFlat, Flat
  <2> QED BY <1>3, <2>1, <2>2
<1>5. n - 1 \in Nat /\ n - 1 \notin lacking
  <2>1. lacking \subseteq Nat
    OBVIOUS
  <2> HIDE DEF lacking
  <2> QED BY <1>2, <1>3, <1>4, <2>1
<1>6. PICK G : IsFlat(G, n - 1, seqs)
  BY <1>5
<1> DEFINE F == [i \in 1 .. n |-> IF i = 1 THEN seqs[i] ELSE G[i - 1] \o seqs[i]]
<1>7. \A i \in 1 .. n - 1 : F[i] = G[i]
  <2>1. SUFFICES ASSUME NEW i \in 1 .. n - 1 PROVE F[i] = G[i]
    OBVIOUS
  <2>2. i \in 1 .. n
    BY <1>3
  <2>3. F[i] = IF i = 1 THEN seqs[i] ELSE G[i - 1] \o seqs[i]
    BY <2>2
  <2>4. G = Flat(G, n - 1, seqs)
    BY <1>6 DEF IsFlat
  <2>5. Flat(G, n - 1, seqs)[i] = IF i = 1 THEN seqs[i] ELSE G[i - 1] \o seqs[i]
    BY <2>1 DEF Flat
  <2> QED BY <2>3, <2>4, <2>5
<1>8. IsFlat(F, n, seqs)
  <2>1. \A i \in 1 .. n : F[i] = IF i = 1 THEN seqs[i] ELSE F[i - 1] \o seqs[i]
    <3>1. SUFFICES ASSUME NEW i \in 1 .. n
                   PROVE  F[i] = IF i = 1 THEN seqs[i] ELSE F[i - 1] \o seqs[i]
      OBVIOUS
    <3>2. F[i] = IF i = 1 THEN seqs[i] ELSE G[i - 1] \o seqs[i]
      OBVIOUS
    <3>3. i # 1 => i - 1 \in 1 .. n - 1
      BY <1>3
    <3> HIDE DEF F
    <3> QED BY <1>7, <3>2, <3>3
  <2>2. F = [i \in 1 .. n |-> F[i]]
    OBVIOUS
  <2> HIDE DEF F
  <2> QED BY <2>1, <2>2 DEF IsFlat, Flat
<1> QED BY <1>3, <1>8

\* The segments follow each other, from the first byte to the last.
LEMMA SegsFollow ==
  ASSUME setup \in Setups
  PROVE  \E n \in Nat \ {0} :
           /\ Segs = 1 .. n
           /\ Split[1].start = 0 /\ Split[n].end = setup.total - 1
           /\ \A i \in 1 .. n - 1 : Split[i + 1].start = Split[i].end + 1
<1>1. PICK a \in Nat \ {0}, b \in Nat \ {0} : a = setup.total /\ b = setup.connections
  BY DownloadAssumption
<1>2. PICK q \in Nat : q = a \div b
  OBVIOUS
<1>3. CASE q = 0 \/ ~setup.ranged
  <2>1. Split = <<[start |-> 0, end |-> a - 1]>>
    BY <1>1, <1>2, <1>3 DEF Split
  <2>2. /\ Segs = 1 .. 1
        /\ Split[1].start = 0 /\ Split[1].end = a - 1
    BY <2>1 DEF Segs
  <2>3. \A i \in 1 .. 1 - 1 : Split[i + 1].start = Split[i].end + 1
    OBVIOUS
  <2> QED BY <1>1, <2>2, <2>3
<1>4. CASE q # 0 /\ setup.ranged
  <2>1. Split = [i \in 1 .. b |-> [start |-> (i - 1) * q,
                                   end |-> IF i = b THEN a - 1 ELSE i * q - 1]]
    BY <1>1, <1>2, <1>4 DEF Split
  <2>2. Segs = 1 .. b
    BY <2>1 DEF Segs
  <2>3. Split[1].start = 0 /\ Split[b].end = a - 1
    BY <1>1, <2>1
  <2>4. ASSUME NEW i \in 1 .. b - 1
        PROVE  Split[i + 1].start = Split[i].end + 1
    <3>1. i \in 1 .. b /\ i + 1 \in 1 .. b /\ i # b /\ (i + 1) - 1 = i
      OBVIOUS
    <3>2. Split[i + 1].start = i * q
      BY <2>1, <3>1
    <3>3. Split[i].end = i * q - 1
      BY <2>1, <3>1
    <3>4. i * q \in Int
      BY <1>2
    <3> QED BY <3>2, <3>3, <3>4
  <2> QED BY <1>1, <2>2, <2>3, <2>4
<1> QED BY <1>2, <1>3, <1>4

\* What the parts up to one make: no more bytes than their segments have and,
\* if as many, the first of the resource.
Makes(bytes, e, full) ==
  /\ bytes \in Seq(Int) /\ Len(bytes) <= e + 1
  /\ Len(bytes) = e + 1 => bytes = Initial(e + 1)
  /\ full => Len(bytes) = e + 1

\* Sequences with the same elements.
LEMMA InitialIs ==
  ASSUME NEW bytes \in Seq(Int), NEW n \in Nat, Len(bytes) = n, \A k \in 1 .. n : bytes[k] = k - 1
  PROVE  bytes = Initial(n)
<1>1. bytes = [k \in 1 .. n |-> bytes[k]]
  OBVIOUS
<1> QED BY <1>1 DEF Initial

\* A part makes the bytes of its segment, if it has as many.
LEMMA PartMakes ==
  ASSUME setup \in Setups, NEW s \in Segs, NEW bytes \in PartBytes, Begins(bytes, s, Len(bytes))
  PROVE  /\ bytes \in Seq(Int) /\ Len(bytes) \in Nat /\ Len(bytes) <= Length(s)
         /\ Len(bytes) = Length(s) => \A k \in 1 .. Length(s) : bytes[k] = Split[s].start + k - 1
<1>1. bytes \in Seq(Int)
  <2>1. PICK total \in Nat : total = setup.total
    BY SegsAre
  <2>2. bytes \in Seq(Zero .. total - 1)
    BY <2>1 DEF PartBytes
  <2>3. Zero .. total - 1 \subseteq Int
    BY <2>1 DEF Zero
  <2> HIDE DEF Zero
  <2> QED BY <2>2, <2>3, SeqMonotonic
<1>2. Len(bytes) \in Nat /\ Len(bytes) <= Length(s)
  BY <1>1, LenProperties DEF Begins
<1>3. ASSUME Len(bytes) = Length(s), NEW k \in 1 .. Length(s)
      PROVE  bytes[k] = Split[s].start + k - 1
  BY <1>3, PieceIs DEF Begins
<1> QED BY <1>1, <1>2, <1>3

LEMMA FirstMakes ==
  ASSUME setup \in Setups, 1 \in Segs, Split[1].start = 0, NEW bytes \in PartBytes,
         Begins(bytes, 1, Len(bytes)), NEW full \in BOOLEAN, full => Len(bytes) = Length(1)
  PROVE  Makes(bytes, Split[1].end, full)
<1>1. PICK e \in Nat : e = Split[1].end /\ Length(1) = e + 1
  BY PieceIs
<1>2. /\ bytes \in Seq(Int) /\ Len(bytes) \in Nat /\ Len(bytes) <= e + 1
      /\ Len(bytes) = e + 1 => \A k \in 1 .. e + 1 : bytes[k] = 0 + k - 1
  BY <1>1, PartMakes
<1>3. Len(bytes) = e + 1 => bytes = Initial(e + 1)
  <2>1. SUFFICES ASSUME Len(bytes) = e + 1 PROVE bytes = Initial(e + 1)
    OBVIOUS
  <2>2. \A k \in 1 .. e + 1 : bytes[k] = k - 1
    BY <1>2, <2>1
  <2> QED BY <1>2, <2>1, <2>2, InitialIs
<1> QED BY <1>1, <1>2, <1>3 DEF Makes

LEMMA NextMakes ==
  ASSUME setup \in Setups, NEW s \in Segs, NEW e \in Nat, Split[s].start = e + 1,
         NEW bytes \in PartBytes, Begins(bytes, s, Len(bytes)),
         NEW full \in BOOLEAN, full => Len(bytes) = Length(s), NEW front, Makes(front, e, full)
  PROVE  Makes(front \o bytes, Split[s].end, full)
<1>1. PICK f \in Nat, m \in Nat : f = Split[s].end /\ Length(s) = m /\ m = f - (e + 1) + 1
  BY PieceIs
<1>2. /\ bytes \in Seq(Int) /\ Len(bytes) \in Nat /\ Len(bytes) <= m
      /\ Len(bytes) = m => \A k \in 1 .. m : bytes[k] = e + 1 + k - 1
  BY <1>1, PartMakes
<1>3. /\ front \in Seq(Int) /\ Len(front) \in Nat /\ Len(front) <= e + 1
      /\ Len(front) = e + 1 => front = Initial(e + 1)
      /\ full => Len(front) = e + 1
  BY LenProperties DEF Makes
<1>4. PICK both : both = front \o bytes
  OBVIOUS
<1>5. /\ both \in Seq(Int) /\ Len(both) = Len(front) + Len(bytes)
      /\ \A k \in 1 .. Len(front) : both[k] = front[k]
      /\ \A k \in 1 .. Len(bytes) : both[Len(front) + k] = bytes[k]
  BY <1>2, <1>3, <1>4
<1>6. PICK x \in Nat, y \in Nat : x = Len(front) /\ y = Len(bytes)
  BY <1>2, <1>3
<1>9. Len(both) = x + y /\ x <= e + 1 /\ y <= m /\ f + 1 = (e + 1) + m
  BY <1>1, <1>2, <1>3, <1>5, <1>6
<1>10. Len(both) <= f + 1
  BY <1>9
<1>7. ASSUME Len(both) = f + 1 PROVE both = Initial(f + 1)
  <2>1. Len(front) = e + 1 /\ Len(bytes) = m
    <3>1. x + y = (e + 1) + m
      BY <1>7, <1>9
    <3>2. x = e + 1 /\ y = m
      BY <1>9, <3>1
    <3> QED BY <1>6, <3>2
  <2>2. \A k \in 1 .. e + 1 : front[k] = k - 1
    BY <1>3, <2>1 DEF Initial
  <2>3. ASSUME NEW k \in 1 .. f + 1 PROVE both[k] = k - 1
    <3>1. CASE k <= e + 1
      <4>1. k \in 1 .. Len(front) /\ k \in 1 .. e + 1
        BY <2>1, <3>1
      <4> QED BY <1>5, <2>2, <4>1
    <3>2. CASE k > e + 1
      <4>1. PICK j \in 1 .. m : k = (e + 1) + j
        <5>1. k - (e + 1) \in 1 .. m /\ k = (e + 1) + (k - (e + 1))
          BY <1>1, <3>2
        <5> QED BY <5>1
      <4>2. both[Len(front) + j] = bytes[j] /\ bytes[j] = e + 1 + j - 1
        BY <1>2, <1>5, <2>1, <4>1
      <4> QED BY <2>1, <4>1, <4>2
    <3> QED BY <3>1, <3>2
  <2> QED BY <1>5, <1>7, <2>3, InitialIs
<1>8. full => Len(both) = f + 1
  <2>1. full => x = e + 1 /\ y = m
    BY <1>1, <1>3, <1>6
  <2> QED BY <1>9, <2>1
<1> QED BY <1>1, <1>4, <1>5, <1>7, <1>8, <1>10 DEF Makes

\* Parts that are right make no more than the resource and, if as much, make it.
LEMMA PartsMake ==
  ASSUME setup \in Setups, NEW p \in [Segs -> PartBytes], \A s \in Segs : Begins(p[s], s, Len(p[s]))
  PROVE  /\ Len(FlattenSeq(p)) = setup.total => FlattenSeq(p) = Resource
         /\ (\A s \in Segs : Len(p[s]) = Length(s)) =>
              FlattenSeq(p) = Resource /\ Len(FlattenSeq(p)) = setup.total
<1>0. PICK full \in BOOLEAN : full <=> \A s \in Segs : Len(p[s]) = Length(s)
  <2> DEFINE all == \A s \in Segs : Len(p[s]) = Length(s)
  <2>1. CASE all
    BY <2>1
  <2>2. CASE ~all
    BY <2>2
  <2> QED BY <2>1, <2>2
<1>1. PICK n \in Nat \ {0} :
        /\ Segs = 1 .. n
        /\ Split[1].start = 0 /\ Split[n].end = setup.total - 1
        /\ \A i \in 1 .. n - 1 : Split[i + 1].start = Split[i].end + 1
  BY SegsFollow
<1>2. p \in Seq(PartBytes) /\ Len(p) = n
  BY <1>1
<1>3. PICK F : IsFlat(F, n, p) /\ FlattenSeq(p) = F[n]
  <2>1. \E F : IsFlat(F, n, p)
    BY FlatExists
  <2>2. IsFlat(CHOOSE F : IsFlat(F, n, p), n, p)
    BY <2>1
  <2>3. FlattenSeq(p) = (CHOOSE F : IsFlat(F, n, p))[n]
    BY <1>2, FlattenIs
  <2> QED BY <2>2, <2>3
<1>4. \A i \in 1 .. n : F[i] = IF i = 1 THEN p[i] ELSE F[i - 1] \o p[i]
  BY <1>3 DEF IsFlat, Flat
<1> DEFINE lacking == {i \in 1 .. n : ~Makes(F[i], Split[i].end, full)}
<1>5. lacking = {}
  <2>1. SUFFICES ASSUME lacking # {} PROVE FALSE
    OBVIOUS
  <2>2. PICK i \in lacking : \A j \in lacking : i <= j
    <3>1. lacking \in SUBSET Nat
      OBVIOUS
    <3> HIDE DEF lacking
    <3> QED BY <2>1, <3>1, LeastOf
  <2>3. i \in 1 .. n /\ ~Makes(F[i], Split[i].end, full)
    OBVIOUS
  <2>4. i # 1
    <3>1. SUFFICES ASSUME i = 1 PROVE FALSE
      OBVIOUS
    <3>2. F[1] = p[1] /\ 1 \in Segs /\ p[1] \in PartBytes /\ Begins(p[1], 1, Len(p[1]))
      BY <1>1, <1>4, <2>3, <3>1
    <3>3. Makes(F[1], Split[1].end, full)
      BY <1>0, <1>1, <3>2, FirstMakes
    <3> QED BY <2>3, <3>1, <3>3
  <2>5. PICK j \in 1 .. n - 1 : i = j + 1
    <3>1. i - 1 \in 1 .. n - 1 /\ i = (i - 1) + 1
      BY <2>3, <2>4
    <3> QED BY <3>1
  <2>6. Makes(F[j], Split[j].end, full)
    <3>1. j \in 1 .. n /\ ~(i <= j)
      BY <2>3, <2>5
    <3>2. j \notin lacking
      BY <2>2, <3>1
    <3> QED BY <3>1, <3>2
  <2>7. /\ F[i] = F[j] \o p[i] /\ i \in Segs /\ p[i] \in PartBytes /\ Begins(p[i], i, Len(p[i]))
        /\ Split[i].start = Split[j].end + 1 /\ Split[j].end \in Nat
    <3>1. i - 1 = j /\ j \in Segs
      BY <1>1, <2>3, <2>5
    <3>2. Split[j].end \in Nat
      BY <3>1, PieceIs
    <3> QED BY <1>1, <1>4, <2>3, <2>4, <2>5, <3>1, <3>2
  <2>8. Makes(F[i], Split[i].end, full)
    BY <1>0, <2>6, <2>7, NextMakes
  <2> QED BY <2>3, <2>8
<1>6. Makes(FlattenSeq(p), setup.total - 1, full)
  <2>1. n \in 1 .. n /\ n \notin lacking
    BY <1>5
  <2> QED BY <1>1, <1>3, <2>1
<1>7. PICK total \in Nat : total = setup.total /\ (total - 1) + 1 = total
  BY SegsAre
<1>8. Resource = Initial(total)
  BY <1>7 DEF Resource, Initial
<1> QED BY <1>0, <1>6, <1>7, <1>8 DEF Makes

-----------------------------------------------------------------------------
(* What is assembled.                                                      *)

\* The parts are a function.
Filed == part = [s \in DOMAIN part |-> part[s]]

LEMMA FiledNext ==
  ASSUME Good, Filed, [Next]_vars
  PROVE  Filed'
<1>0. ASSUME part' = part PROVE Filed'
  BY <1>0 DEF Filed
<1>1. ASSUME part' = <<>> PROVE Filed'
  BY <1>1 DEF Filed
<1>2. ASSUME NEW w, part' = PartsAt(w) PROVE Filed'
  BY <1>2 DEF Filed, PartsAt
<1>3. ASSUME NEW t, PartsGone(t) PROVE Filed'
  BY <1>0, <1>1, <1>3 DEF PartsGone
<1>4. CASE UNCHANGED vars \/ App \/ Crash
  BY <1>0, <1>4, EnqueueIs, ResumeIs, CrashIs DEF vars, App, Pause, Cancel, disk
<1>5. ASSUME NEW r \in Runs, FinishCancel(r)
      PROVE  Filed'
  BY <1>0, <1>3, <1>5, FinishIs
<1>6. ASSUME NEW r \in Runs, LoopStep(r)
      PROVE  Filed'
  <2>1. CASE PrepareFresh(r) \/ PrepareFromSidecar(r)
    BY <1>2, <2>1, FreshIs, FromSidecarIs
  <2>2. CASE Probe(r) \/ OpenDest(r) \/ SweepParts(r) \/ SweepSidecar(r)
    BY <1>0, <1>3, <2>2, PlainIs
  <2>3. CASE \/ ProbeFails(r) \/ FreshWritten(r) \/ Prepared(r) \/ Join(r) \/ Flush(r)
             \/ Concat(r) \/ Verify(r) \/ Complete(r) \/ GiveUp(r)
    BY <1>0, <2>3, ProbeFailsIs, FreshWrittenIs, PreparedIs, JoinIs, FlushIs, ConcatIs, VerifyIs, EndIs
  <2> QED BY <1>6, <2>1, <2>2, <2>3 DEF LoopStep
<1>7. ASSUME NEW r \in Runs, NEW s \in Segs, SegmentStep(r, s) \/ Arrives(r, s)
      PROVE  Filed'
  <2>1. CASE Granted(r, s)
    BY <1>0, <2>1 DEF Granted, Filed
  <2>2. CASE Wrote(r, s)
    BY <2>2 DEF Wrote, Filed
  <2>3. CASE \/ Get(r, s) \/ GetFails(r, s) \/ WriteFails(r, s) \/ Commit(r, s) \/ Leave(r, s)
             \/ Arrives(r, s)
    BY <1>0, <2>3 DEF Get, GetFails, WriteFails, Commit, Leave, Arrives, Chunk, StreamEnds,
                      StreamFails, disk
  <2> QED BY <1>7, <2>1, <2>2, <2>3 DEF SegmentStep
<1> QED BY <1>4, <1>5, <1>6, <1>7 DEF Next

\* A handler that has returned, or will without an error.
Through(j) ==
  \/ j.pc \in {"none", "done"}
  \/ j.pc = "leave" /\ ~j.err
  \/ j.pc = "stream" /\ j.over /\ ~j.err

\* A handler that nobody stops has nothing in hand when its stream is over and,
\* unless a stream was cut short, its part is full then.
Filling(j, s, n, noted) ==
  /\ j.over \/ j.pc \in {"leave", "done", "threw", "none"} => j.hand = "none"
  /\ j.over => j.pc = "stream"
  /\ j.live => ~j.over
  /\ ~setup.ranged => j.pc # "none"
  /\ "short" \notin noted /\ Through(j) => n = Length(s)

\* When a run assembles, its handlers are through.
Filled(j, s, n, noted) ==
  /\ j.hand = "none" /\ j.pc \in {"none", "done"}
  /\ ~setup.ranged => j.pc # "none"
  /\ "short" \notin noted => n = Length(s)

Assembling == {"assemble", "concat", "verify"}

Fills ==
  \A r \in Runs, s \in Segs :
    /\ loop[r].pc = "work" /\ ~Stopped(r) =>
         Filling(job[r][s], s, task[Of(r)].written[s], mishaps)
    /\ loop[r].pc \in Assembling => Filled(job[r][s], s, task[Of(r)].written[s], mishaps)

\* A step of a handler.
LEMMA HandlersFill ==
  ASSUME Good, Order, One, Fills, Calm, NEW r \in Runs, NEW s \in Segs,
         \A q \in Runs, p \in Segs :
           <<q, p>> # <<r, s>> => job'[q][p] = job[q][p] \/ LetIn(q, p),
         \A t \in Runs, p \in Segs : \/ task'[t].written[p] = task[t].written[p]
                                     \/ Newest(r) /\ t = Of(r) /\ p = s,
         ~(job[r][s].pc \in {"none", "done"} /\ job[r][s].hand = "none"),
         loop[r].pc = "work" /\ ~Stopped(r) /\ Filling(job[r][s], s, task[Of(r)].written[s], mishaps)
           => Filling(job'[r][s], s, task'[Of(r)].written[s], mishaps')
  PROVE  Fills'
<1>1. /\ setup' = setup /\ Segs' = Segs /\ loop' = loop /\ mishaps \subseteq mishaps'
      /\ \A p : Length(p)' = Length(p)
      /\ \A t \in Runs : task'[t].stop = task[t].stop
  BY SetupKept DEF Calm, Steady, Length
<1>2. SUFFICES ASSUME NEW q \in Runs, NEW p \in Segs, loop[q].pc = "work" \/ loop[q].pc \in Assembling
               PROVE  /\ loop[q].pc = "work" /\ ~Stopped(q) =>
                           Filling(job'[q][p], p, task'[Of(q)].written[p], mishaps')
                      /\ loop[q].pc \in Assembling =>
                           Filled(job'[q][p], p, task'[Of(q)].written[p], mishaps')
  <2>1. ASSUME NEW q \in Runs, NEW p \in Segs, loop[q].pc = "work" \/ loop[q].pc \in Assembling
        PROVE  Of(q) \in Runs
    BY <2>1 DEF Good, Linked, Assembling
  <2> QED BY <1>1, <2>1 DEF Fills, Filling, Filled, Stopped, Of
<1>3. Newest(q) /\ Of(q) \in Runs
  BY <1>2 DEF One, Sequential, Good, Linked, Assembling
<1>4. /\ loop[q].pc = "work" /\ ~Stopped(q) => Filling(job[q][p], p, task[Of(q)].written[p], mishaps)
      /\ loop[q].pc \in Assembling => Filled(job[q][p], p, task[Of(q)].written[p], mishaps)
  BY DEF Fills
<1>5. CASE q = r /\ p = s
  BY <1>4, <1>5 DEF Filled, Assembling
<1>6. CASE ~(q = r /\ p = s)
  <2>1. job'[q][p] = job[q][p] \/ LetIn(q, p)
    BY <1>6
  <2>2. task'[Of(q)].written[p] = task[Of(q)].written[p]
    <3>1. Newest(r) => q = r
      <4>1. SUFFICES ASSUME Newest(r) PROVE q = r
        OBVIOUS
      <4>2. q <= r /\ r <= q
        BY <1>3, <4>1 DEF Newest
      <4> QED BY <4>2, RunsAre
    <3> QED BY <1>3, <1>6, <3>1
  <2>3. CASE job'[q][p] = job[q][p]
    BY <1>1, <1>4, <2>2, <2>3 DEF Filling, Filled
  <2>4. CASE LetIn(q, p)
    BY <1>1, <1>4, <2>2, <2>4 DEF Filling, Filled, LetIn, Through
  <2> QED BY <2>1, <2>3, <2>4
<1> QED BY <1>5, <1>6

LEMMA GrantedFills ==
  ASSUME Good, Order, One, Cursor, Fills, NEW r \in Runs, NEW s \in Segs, Granted(r, s)
  PROVE  Fills'
<1>0. Calm /\ Types
  BY GrantedCalm DEF Good
<1>1. /\ job[r][s].pc = "granted" /\ job[r][s].hand = "none" /\ OnlyJob(r, s) /\ OnlyTask(Of(r))
      /\ job'[r][s].hand = "none" /\ job'[r][s].live = job[r][s].live
      /\ job'[r][s].over = job[r][s].over /\ job'[r][s].err = job[r][s].err
  BY GrantedIs
<1>2. PICK done \in Nat :
        /\ done = IF setup.ranged THEN task[Of(r)].written[s] ELSE 0
        /\ task'[Of(r)].written = [task[Of(r)].written EXCEPT ![s] = done]
        /\ \/ job'[r][s].pc = "get"
           \/ /\ setup.ranged /\ (Stopped(r) \/ ~(task[Of(r)].written[s] < Length(s)))
              /\ job'[r][s].pc = "leave"
  <2>1. \E done \in Nat :
              /\ done = IF setup.ranged THEN task[Of(r)].written[s] ELSE 0
              /\ task'[Of(r)].written = [task[Of(r)].written EXCEPT ![s] = done]
              /\ \/ /\ ~setup.ranged \/ (~Stopped(r) /\ task[Of(r)].written[s] < Length(s))
                    /\ job'[r][s].pc = "get" /\ job'[r][s].next = Split[s].start + done
                    /\ job'[r][s].last = Split[s].end
                    /\ part' = [q \in DOMAIN part \cup {s} |->
                                  IF q = s THEN Resized(Bytes(s), done) ELSE part[q]]
                 \/ /\ setup.ranged /\ (Stopped(r) \/ ~(task[Of(r)].written[s] < Length(s)))
                    /\ job'[r][s].pc = "leave" /\ part' = part
    BY GrantedIs
  <2> QED BY <2>1
<1>3. /\ Newest(r) /\ Holds(r) /\ Of(r) \in Runs /\ task[Of(r)].written \in [Segs -> Nat]
  BY <1>1, HandlerAtWork DEF Idle
<1>4. \A t \in Runs, p \in Segs : \/ task'[t].written[p] = task[t].written[p]
                                  \/ Newest(r) /\ t = Of(r) /\ p = s
  BY <1>1, <1>2, <1>3 DEF OnlyTask
<1>5. ASSUME ~Stopped(r), Filling(job[r][s], s, task[Of(r)].written[s], mishaps)
      PROVE  Filling(job'[r][s], s, task'[Of(r)].written[s], mishaps')
  <2>1. ~job'[r][s].over
    BY <1>1, <1>5 DEF Filling
  <2>2. CASE job'[r][s].pc = "get"
    BY <1>1, <2>1, <2>2 DEF Filling, Through
  <2>3. CASE setup.ranged /\ ~(task[Of(r)].written[s] < Length(s)) /\ job'[r][s].pc = "leave"
    <3>1. ExactAt(r, s)
      BY <1>3 DEF Cursor, Exact
    <3>2. task[Of(r)].written[s] <= Length(s)
      BY <2>3, <3>1 DEF ExactAt, Begins
    <3>3. PICK n \in Nat, m \in Nat : n = task[Of(r)].written[s] /\ m = Length(s)
      BY <1>0, <1>3, PieceIs DEF Types
    <3>4. n = m
      BY <2>3, <3>2, <3>3
    <3>5. task'[Of(r)].written[s] = n
      BY <1>2, <1>3, <2>3, <3>3
    <3> QED BY <1>1, <2>1, <2>3, <3>3, <3>4, <3>5 DEF Filling
  <2> QED BY <1>2, <1>5, <2>2, <2>3
<1> QED BY <1>0, <1>1, <1>4, <1>5, HandlersFill DEF OnlyJob

LEMMA GetFills ==
  ASSUME Good, Order, One, Fills, NEW r \in Runs, NEW s \in Segs, Get(r, s)
  PROVE  Fills'
<1>0. Calm
  BY GetCalm
<1>1. /\ job[r][s].pc = "get" /\ job[r][s].hand = "none"
      /\ OnlyJob(r, s) /\ OnlyTask(Of(r)) /\ task'[Of(r)].written = task[Of(r)].written
      /\ job'[r][s].over = job[r][s].over
      /\ ~job[r][s].over => job'[r][s].pc = "stream" /\ job'[r][s].hand = "none"
  BY GetIs
<1>2. \A t \in Runs : task'[t].written = task[t].written
  BY <1>1 DEF OnlyTask
<1>3. Filling(job[r][s], s, task[Of(r)].written[s], mishaps)
        => Filling(job'[r][s], s, task'[Of(r)].written[s], mishaps')
  BY <1>1 DEF Filling, Through
<1> QED BY <1>0, <1>1, <1>2, <1>3, HandlersFill DEF OnlyJob

\* What a handler may have in hand, by where it is.
LEMMA HandsOf ==
  ASSUME Good, NEW r \in Runs, NEW s \in Segs
  PROVE  /\ job[r][s].pc = "get" => job[r][s].hand = "none"
         /\ job[r][s].hand # "none" => job[r][s].pc \in {"stream", "leave", "done", "threw"}
  BY DEF Good, JobsInRange, InRange, Types, JobType

\* The numbers of a stream at its end: the part is full.
LEMMA StreamFull ==
  ASSUME Good, Order, One, Cursor, NEW r \in Runs, NEW s \in Segs, job[r][s].pc = "stream",
         ~(job[r][s].next <= job[r][s].last)
  PROVE  task[Of(r)].written[s] = Length(s)
<1>1. Types /\ Newest(r) /\ task[Of(r)].written \in [Segs -> Nat]
  BY HandlerAtWork DEF Idle, Good
<1>2. InPlace(job[r][s], s, task[Of(r)].written[s])
  BY <1>1 DEF Cursor, Moving
<1>3. PICK n \in Nat, a \in Nat, b \in Nat, m \in Nat :
        /\ n = task[Of(r)].written[s] /\ a = Split[s].start /\ b = Split[s].end
        /\ m = Length(s) /\ m = b - a + 1
  BY <1>1, PieceIs DEF Types
<1>4. /\ job[r][s].next = a + n /\ job[r][s].next <= b + 1 /\ job[r][s].last = b
  BY <1>2, <1>3 DEF InPlace
<1>5. a + n <= b + 1 /\ ~(a + n <= b)
  BY <1>4
<1>6. n = m
  BY <1>3, <1>5
<1> QED BY <1>3, <1>6

LEMMA StreamFills ==
  ASSUME Good, Order, One, Cursor, Fills, NEW r \in Runs, NEW s \in Segs,
         GetFails(r, s) \/ Chunk(r, s) \/ StreamEnds(r, s) \/ StreamFails(r, s) \/ WriteFails(r, s)
  PROVE  Fills'
<1>0. Calm
  BY StreamCalm
<1>1. OnlyJob(r, s) /\ task' = task
  BY StreamIs
<1>2. \/ /\ job[r][s].pc = "get" /\ job'[r][s].pc = "leave" /\ job'[r][s].err
         /\ job'[r][s].hand = job[r][s].hand /\ job'[r][s].over = job[r][s].over
      \/ /\ job[r][s].pc = "stream" /\ job'[r][s].pc = "stream" /\ job[r][s].live
         /\ job'[r][s].hand = "write" /\ job'[r][s].over = job[r][s].over
      \/ /\ job[r][s].pc = "stream" /\ job'[r][s].pc = "stream" /\ job[r][s].live /\ ~job'[r][s].live
         /\ job'[r][s].hand = "none" /\ job'[r][s].over
         /\ \/ Noted("short", job[r][s].next <= job[r][s].last)
            \/ job'[r][s].err = ~job[r][s].over
      \/ /\ job[r][s].hand = "write" /\ job'[r][s].pc = job[r][s].pc
         /\ job'[r][s].hand = "none" /\ ~job'[r][s].live /\ job'[r][s].over
         /\ job'[r][s].err = ~job[r][s].over
  BY StreamIs
<1>3. ~(job[r][s].pc \in {"none", "done"} /\ job[r][s].hand = "none")
  BY <1>2
<1>4. ASSUME Filling(job[r][s], s, task[Of(r)].written[s], mishaps)
      PROVE  Filling(job'[r][s], s, task'[Of(r)].written[s], mishaps')
  <2>1. CASE /\ job[r][s].pc = "get" /\ job'[r][s].pc = "leave" /\ job'[r][s].err
             /\ job'[r][s].hand = job[r][s].hand /\ job'[r][s].over = job[r][s].over
    BY <1>4, <2>1, HandsOf DEF Filling, Through
  <2>2. CASE /\ job[r][s].pc = "stream" /\ job'[r][s].pc = "stream" /\ job[r][s].live
             /\ job'[r][s].hand = "write" /\ job'[r][s].over = job[r][s].over
    BY <1>4, <2>2 DEF Filling, Through
  <2>3. CASE /\ job[r][s].pc = "stream" /\ job'[r][s].pc = "stream" /\ job[r][s].live /\ ~job'[r][s].live
             /\ job'[r][s].hand = "none" /\ job'[r][s].over
             /\ job'[r][s].err = ~job[r][s].over
    BY <1>4, <2>3 DEF Filling, Through
  <2>4. CASE /\ job[r][s].pc = "stream" /\ job'[r][s].pc = "stream" /\ job[r][s].live /\ ~job'[r][s].live
             /\ job'[r][s].hand = "none" /\ job'[r][s].over
             /\ Noted("short", job[r][s].next <= job[r][s].last)
    <3>1. "short" \notin mishaps' => task[Of(r)].written[s] = Length(s)
      BY <2>4, StreamFull DEF Noted
    <3> QED BY <1>1, <2>4, <3>1 DEF Filling
  <2>5. CASE /\ job[r][s].hand = "write" /\ job'[r][s].pc = job[r][s].pc
             /\ job'[r][s].hand = "none" /\ ~job'[r][s].live /\ job'[r][s].over
             /\ job'[r][s].err = ~job[r][s].over
    <3>1. job[r][s].pc = "stream" /\ ~job[r][s].over
      BY <1>4, <2>5, HandsOf DEF Filling
    <3> QED BY <2>5, <3>1 DEF Filling, Through
  <2> QED BY <1>2, <2>1, <2>2, <2>3, <2>4, <2>5
<1> QED BY <1>0, <1>1, <1>3, <1>4, HandlersFill DEF OnlyJob

LEMMA WroteFills ==
  ASSUME Good, Order, One, Fills, NEW r \in Runs, NEW s \in Segs, Wrote(r, s), "late" \notin mishaps'
  PROVE  Fills'
<1>0. Calm
  BY WroteCalm
<1>1. /\ job[r][s].hand = "write" /\ OnlyJob(r, s) /\ UNCHANGED loop
      /\ Noted("late", \E q \in Used : q > r)
  BY WroteIs
<1>2. PICK now :
        /\ now = [task[Of(r)].written EXCEPT ![s] = @ + 1]
        /\ Tells(Of(r), task[Of(r)].state, now)
        /\ \/ Resolved(r, s, job[r][s].next + 1)
           \/ /\ job'[r][s].pc = job[r][s].pc /\ job'[r][s].hand = "commit"
              /\ job'[r][s].err = job[r][s].err /\ job'[r][s].live = job[r][s].live
              /\ job'[r][s].over = job[r][s].over
  <2>1. \E now :
          /\ now = [task[Of(r)].written EXCEPT ![s] = @ + 1]
          /\ Tells(Of(r), task[Of(r)].state, now)
          /\ \/ Resolved(r, s, job[r][s].next + 1)
             \/ /\ setup.ranged /\ job'[r][s].pc = job[r][s].pc
                /\ job'[r][s].hand = "commit" /\ job'[r][s].snap = now
                /\ job'[r][s].next = job[r][s].next + 1 /\ job'[r][s].last = job[r][s].last
                /\ job'[r][s].err = job[r][s].err /\ job'[r][s].live = job[r][s].live
                /\ job'[r][s].over = job[r][s].over
    BY WroteIs
  <2> QED BY <2>1
<1>3. Of(r) \in Runs /\ task[Of(r)].written \in [Segs -> Nat]
  <2>1. job[r][s].pc # "none"
    BY <1>1, HandsOf
  <2> QED BY <2>1, JobOf
<1>4. Newest(r)
  <2>1. ~\E q \in Used : q > r
    BY <1>1 DEF Noted
  <2>2. r \in Used
    BY <1>3, RunsAre DEF Used, Of
  <2>3. Used \subseteq Runs
    BY DEF Used
  <2>4. \A q \in Used : q \in Nat /\ r \in Nat /\ ~(q > r)
    BY <2>1, <2>3, RunsAre
  <2> HIDE DEF Used
  <2> QED BY <2>2, <2>4 DEF Newest
<1>5. \A t \in Runs, p \in Segs : \/ task'[t].written[p] = task[t].written[p]
                                  \/ Newest(r) /\ t = Of(r) /\ p = s
  <2>1. \A p \in Segs : p # s => now[p] = task[Of(r)].written[p]
    BY <1>2, <1>3
  <2>2. task'[Of(r)].written = now /\ \A t \in Runs : t # Of(r) => task'[t] = task[t]
    BY <1>2 DEF Tells, OnlyTask
  <2> QED BY <1>4, <2>1, <2>2
<1>6. ASSUME ~Stopped(r), Filling(job[r][s], s, task[Of(r)].written[s], mishaps)
      PROVE  Filling(job'[r][s], s, task'[Of(r)].written[s], mishaps')
  <2>1. job[r][s].pc = "stream" /\ ~job[r][s].over
    BY <1>1, <1>6, HandsOf DEF Filling
  <2>2. job'[r][s].pc = "stream" /\ ~job'[r][s].over
    BY <1>2, <1>6, <2>1 DEF Resolved, Over
  <2> QED BY <2>2 DEF Filling, Through
<1> QED BY <1>0, <1>1, <1>5, <1>6, HandlersFill DEF OnlyJob

LEMMA CommitFills ==
  ASSUME Good, Order, One, Fills, NEW r \in Runs, NEW s \in Segs, Commit(r, s)
  PROVE  Fills'
<1>0. Calm
  BY CommitCalm
<1>1. /\ job[r][s].hand = "commit" /\ OnlyJob(r, s) /\ Resolved(r, s, job[r][s].next)
      /\ UNCHANGED <<task, loop>>
  BY CommitIs
<1>2. ASSUME ~Stopped(r), Filling(job[r][s], s, task[Of(r)].written[s], mishaps)
      PROVE  Filling(job'[r][s], s, task'[Of(r)].written[s], mishaps')
  <2>1. job[r][s].pc = "stream" /\ ~job[r][s].over
    BY <1>1, <1>2, HandsOf DEF Filling
  <2>2. job'[r][s].pc = "stream" /\ ~job'[r][s].over
    BY <1>1, <1>2, <2>1 DEF Resolved, Over
  <2> QED BY <2>2 DEF Filling, Through
<1> QED BY <1>0, <1>1, <1>2, HandlersFill DEF OnlyJob

LEMMA LeaveFills ==
  ASSUME Good, Order, One, Fills, NEW r \in Runs, NEW s \in Segs, Leave(r, s)
  PROVE  Fills'
<1>0. Calm
  BY LeaveCalm
<1>1. /\ job[r][s].pc = "leave" \/ (job[r][s].pc = "stream" /\ job[r][s].over)
      /\ job'[r][s].pc = (IF job[r][s].err THEN "threw" ELSE "done")
      /\ job'[r][s].hand = job[r][s].hand
      /\ ~job'[r][s].live /\ ~job'[r][s].over
      /\ OnlyTask(Of(r)) /\ task'[Of(r)].written = task[Of(r)].written
      /\ mishaps' = mishaps
  BY LeaveIs
<1>a. \A q \in Runs, p \in Segs :
        <<q, p>> # <<r, s>> => job'[q][p] = job[q][p] \/ LetIn(q, p)
  BY LeaveIs
<1>2. \A t \in Runs : task'[t].written = task[t].written
  BY <1>1 DEF OnlyTask
<1>3. ASSUME Filling(job[r][s], s, task[Of(r)].written[s], mishaps)
      PROVE  Filling(job'[r][s], s, task'[Of(r)].written[s], mishaps')
  <2>1. CASE job[r][s].err
    BY <1>1, <1>3, <2>1 DEF Filling, Through
  <2>2. CASE ~job[r][s].err
    BY <1>1, <1>3, <2>2 DEF Filling, Through
  <2> QED BY <2>1, <2>2
<1>4. ~(job[r][s].pc \in {"none", "done"} /\ job[r][s].hand = "none")
  BY <1>1
<1> QED BY <1>0, <1>a, <1>2, <1>3, <1>4, HandlersFill

\* Whatever a handler does.
LEMMA SegmentsFill ==
  ASSUME Good, Order, One, Cursor, Fills, NEW r \in Runs, NEW s \in Segs,
         SegmentStep(r, s) \/ Arrives(r, s), "late" \notin mishaps'
  PROVE  Fills'
  BY GrantedFills, GetFills, StreamFills, WroteFills, CommitFills, LeaveFills
  DEF SegmentStep, Arrives

\* A step of a run: only what it is itself counts.
LEMMA LoopsFill ==
  ASSUME Good, One, NEW r \in Runs, loop[r].pc # "off", setup' = setup,
         NEW pc, NEW keep, At(r, pc, keep),
         \A s \in Segs :
           /\ pc = "work" => Filling(job'[r][s], s, task'[Of(r)].written[s], mishaps')
           /\ pc \in Assembling => Filled(job'[r][s], s, task'[Of(r)].written[s], mishaps')
  PROVE  Fills'
<1>1. /\ Segs' = Segs /\ \A p : Length(p)' = Length(p)
  BY SetupKept DEF Length
<1>2. \A q \in Runs : loop'[q].pc # "off" => q = r
  <2>1. SUFFICES ASSUME NEW q \in Runs, loop[q].pc # "off" PROVE q = r
    BY DEF At, OnlyLoop
  <2>2. Newest(q) /\ Newest(r)
    BY <2>1 DEF One, Sequential
  <2>3. q <= r /\ r <= q
    BY <2>2 DEF Newest
  <2> QED BY <2>3, RunsAre
<1>3. loop'[r].pc = pc /\ loop'[r].of = Of(r)
  BY DEF At
<1>4. SUFFICES ASSUME NEW q \in Runs, NEW s \in Segs, loop'[q].pc = "work" \/ loop'[q].pc \in Assembling
               PROVE  /\ loop'[q].pc = "work" =>
                           Filling(job'[q][s], s, task'[loop'[q].of].written[s], mishaps')
                      /\ loop'[q].pc \in Assembling =>
                           Filled(job'[q][s], s, task'[loop'[q].of].written[s], mishaps')
  BY <1>1 DEF Fills, Filling, Filled, Of
<1>5. q = r
  BY <1>2, <1>4 DEF Assembling
<1> QED BY <1>3, <1>5

\* A run that does not work on the parts, nor assembles.
LEMMA ElsewhereFills ==
  ASSUME Good, One, NEW r \in Runs, loop[r].pc # "off", setup' = setup,
         NEW pc, pc # "work", pc \notin Assembling, NEW keep, At(r, pc, keep)
  PROVE  Fills'
  BY LoopsFill

LEMMA FailingFills ==
  ASSUME Good, One, NEW r \in Runs, loop[r].pc # "off", setup' = setup, Failing(r)
  PROVE  Fills'
<1>1. CASE At(r, "off", loop[r].keep)
  BY <1>1, ElsewhereFills DEF Assembling
<1>2. CASE At(r, "parts", FALSE)
  BY <1>2, ElsewhereFills DEF Assembling
<1> QED BY <1>1, <1>2 DEF Failing

\* A run that assembles, step by step.
LEMMA AssembleFills ==
  ASSUME Good, One, Fills, NEW r \in Runs, setup' = setup, job' = job, task' = task,
         mishaps' = mishaps, loop[r].pc \in Assembling, NEW pc \in Assembling, NEW keep, At(r, pc, keep)
  PROVE  Fills'
<1>1. \A s \in Segs : Filled(job[r][s], s, task[Of(r)].written[s], mishaps)
  BY DEF Fills
<1> QED BY <1>1, LoopsFill DEF Assembling

LEMMA JoinFills ==
  ASSUME Good, One, Fills, NEW r \in Runs, Join(r)
  PROVE  Fills'
<1>1. /\ loop[r].pc = "work" /\ Ended(r) /\ UNCHANGED <<setup, job, mishaps>>
      /\ \/ Failing(r)
         \/ At(r, "flush", loop[r].keep)
         \/ /\ ~\E s \in Segs : job[r][s].pc = "threw"
            /\ ~Stopped(r) /\ At(r, "assemble", loop[r].keep) /\ task' = task
  BY JoinIs
<1>2. CASE Failing(r)
  BY <1>1, <1>2, FailingFills
<1>3. CASE At(r, "flush", loop[r].keep)
  BY <1>1, <1>3, ElsewhereFills DEF Assembling
<1>4. CASE /\ ~\E s \in Segs : job[r][s].pc = "threw"
           /\ ~Stopped(r) /\ At(r, "assemble", loop[r].keep) /\ task' = task
  <2>1. ASSUME NEW s \in Segs
        PROVE  Filled(job[r][s], s, task[Of(r)].written[s], mishaps)
    <3>1. Filling(job[r][s], s, task[Of(r)].written[s], mishaps)
      BY <1>1, <1>4 DEF Fills
    <3>2. job[r][s].pc \in {"none", "done"}
      BY <1>1, <1>4 DEF Ended
    <3> QED BY <3>1, <3>2 DEF Filling, Filled, Through
  <2> QED BY <1>1, <1>4, <2>1, LoopsFill
<1> QED BY <1>1, <1>2, <1>3, <1>4

\* Handlers that are started, for what is not complete.
LEMMA StartedFills ==
  ASSUME setup \in Setups, NEW r \in Runs, NEW w \in [Segs -> Nat], Started(r, w),
         setup.ranged => \A s \in Segs : w[s] <= Length(s)
  PROVE  \A s \in Segs : Filling(job'[r][s], s, w[s], mishaps')
<1>1. SUFFICES ASSUME NEW s \in Segs PROVE Filling(job'[r][s], s, w[s], mishaps')
  OBVIOUS
<1>2. /\ ~job'[r][s].live /\ ~job'[r][s].over /\ job'[r][s].hand = "none"
      /\ s \in Todo(w) => job'[r][s].pc \in {"granted", "queued"}
      /\ s \notin Todo(w) => job'[r][s].pc = "none"
  BY DEF Started
<1>3. CASE s \in Todo(w)
  BY <1>2, <1>3 DEF Filling, Through
<1>4. CASE s \notin Todo(w)
  <2>1. setup.ranged /\ ~(w[s] < Length(s)) /\ w[s] <= Length(s)
    BY <1>4 DEF Todo
  <2>2. PICK n \in Nat, m \in Nat : n = w[s] /\ m = Length(s)
    BY PieceIs
  <2>3. n = m
    BY <2>1, <2>2
  <2> QED BY <1>2, <1>4, <2>1, <2>2, <2>3 DEF Filling
<1> QED BY <1>3, <1>4

\* What the sidecar counts, or a run that holds the parts, is within the segments.
LEMMA HeldFit ==
  ASSUME Cursor, NEW r \in Runs, Holds(r), setup.ranged
  PROVE  \A s \in Segs : task[Of(r)].written[s] <= Length(s)
<1>1. \A s \in Segs : ExactAt(r, s)
  BY DEF Cursor, Exact
<1> QED BY <1>1 DEF ExactAt, Begins

LEMMA PrepareFills ==
  ASSUME Good, Order, One, Cursor, Fills, NEW r \in Runs,
         PrepareFromSidecar(r) \/ PrepareFresh(r) \/ FreshWritten(r)
  PROVE  Fills'
<1>0. Types /\ setup \in Setups
  BY DEF Good, Types
<1>1. CASE PrepareFromSidecar(r)
  <2>1. loop[r].pc = "prepare" /\ At(r, "work", loop[r].keep) /\ setup' = setup
    BY <1>1, FromSidecarIs
  <2>2. PICK w \in Readable :
          /\ w \in [Segs -> Nat] /\ Spread(r, w)
          /\ Tells(Of(r), task[Of(r)].state, w)
    <3>1. \E w \in Readable :
              /\ w \in [Segs -> Nat] /\ part' = PartsAt(w) /\ Spread(r, w)
              /\ Tells(Of(r), task[Of(r)].state, w)
      BY <1>1, FromSidecarIs
    <3> QED BY <3>1
  <2>3. \A q \in Runs : ~Sweeping(q)
    <3>1. \A q \in Runs : loop[q].pc # "sidecar"
      <4>1. SUFFICES ASSUME NEW q \in Runs, loop[q].pc = "sidecar" PROVE FALSE
        OBVIOUS
      <4>2. Newest(q) /\ Newest(r)
        BY <2>1, <4>1 DEF One, Sequential
      <4>3. q <= r /\ r <= q
        BY <4>2 DEF Newest
      <4>4. q = r
        BY <4>3, RunsAre
      <4> QED BY <2>1, <4>1, <4>4
    <3>2. \A q \in Runs : ~Deleting(q)
      BY <2>1 DEF One, Cleaning
    <3> QED BY <3>1, <3>2 DEF Sweeping, Deleting
  <2>4. setup.ranged => \A s \in Segs : w[s] <= Length(s)
    BY <2>2, <2>3 DEF Cursor, Backed, Backs, Begins
  <2>5. Started(r, w)
    BY <2>2, StartedIs
  <2>6. \A s \in Segs : Filling(job'[r][s], s, w[s], mishaps')
    BY <1>0, <2>2, <2>4, <2>5, StartedFills
  <2>7. task'[Of(r)].written = w
    BY <2>2 DEF Tells
  <2> QED BY <2>1, <2>6, <2>7, LoopsFill DEF Assembling
<1>2. CASE PrepareFresh(r)
  <2>1. loop[r].pc = "prepare" /\ At(r, "fresh", loop[r].keep) /\ setup' = setup
    BY <1>2, FreshIs
  <2> QED BY <2>1, ElsewhereFills DEF Assembling
<1>3. CASE FreshWritten(r)
  <2>1. /\ loop[r].pc = "fresh" /\ Spread(r, task[Of(r)].written) /\ At(r, "work", loop[r].keep)
        /\ UNCHANGED <<setup, task>>
    BY <1>3, FreshWrittenIs
  <2>2. Of(r) \in Runs /\ task[Of(r)].written # <<>> /\ Newest(r)
    BY <2>1 DEF Good, Linked, One, Staged, Held, Sequential
  <2>3. Holds(r) /\ task[Of(r)].written \in [Segs -> Nat]
    BY <2>1, <2>2, OffsetsOf DEF Holds, Held
  <2>4. PICK w \in [Segs -> Nat] : w = task[Of(r)].written
    BY <2>3
  <2>5. \A s \in Segs : Filling(job'[r][s], s, w[s], mishaps')
    BY <1>0, <2>1, <2>3, <2>4, HeldFit, StartedIs, StartedFills
  <2> QED BY <2>1, <2>4, <2>5, LoopsFill DEF Assembling
<1> QED BY <1>1, <1>2, <1>3

LEMMA RunsFill ==
  ASSUME Good, Order, One, Cursor, Fills, NEW r \in Runs, LoopStep(r)
  PROVE  Fills'
<1>1. CASE PrepareFromSidecar(r) \/ PrepareFresh(r) \/ FreshWritten(r)
  BY <1>1, PrepareFills
<1>2. CASE Join(r)
  BY <1>2, JoinFills
<1>3. CASE Prepared(r)
  BY <1>3, PreparedIs DEF One, Staged
<1>4. CASE Flush(r)
  BY <1>4, FlushIs, ElsewhereFills DEF Assembling
<1>5. CASE Complete(r) \/ GiveUp(r)
  BY <1>5, EndIs, ElsewhereFills DEF Assembling
<1>6. CASE ProbeFails(r)
  BY <1>6, ProbeFailsIs, FailingFills
<1>7. CASE Concat(r)
  <2>1. /\ loop[r].pc = "concat" /\ UNCHANGED <<setup, job, mishaps>>
        /\ Failing(r) \/ (task' = task /\ At(r, "verify", loop[r].keep))
    BY <1>7, ConcatIs
  <2> QED BY <2>1, FailingFills, AssembleFills DEF Assembling
<1>8. CASE Verify(r)
  <2>1. /\ loop[r].pc = "verify" /\ setup' = setup
        /\ Failing(r) \/ At(r, "parts", TRUE)
    BY <1>8, VerifyIs
  <2> QED BY <2>1, FailingFills, ElsewhereFills DEF Assembling
<1>9. CASE Probe(r) \/ OpenDest(r) \/ SweepParts(r) \/ SweepSidecar(r)
  <2>1. task' = task /\ UNCHANGED <<setup, job, mishaps>>
    BY <1>9, PlainIs
  <2>2. \/ loop[r].pc = "probe" /\ At(r, "prepare", loop[r].keep)
        \/ loop[r].pc = "assemble" /\ At(r, "concat", loop[r].keep)
        \/ loop[r].pc = "parts" /\ At(r, "sidecar", loop[r].keep)
        \/ loop[r].pc = "sidecar" /\ At(r, "end", loop[r].keep)
    BY <1>9, PlainIs
  <2>3. CASE loop[r].pc = "assemble" /\ At(r, "concat", loop[r].keep)
    BY <2>1, <2>3, AssembleFills DEF Assembling
  <2>4. CASE \/ loop[r].pc = "probe" /\ At(r, "prepare", loop[r].keep)
             \/ loop[r].pc = "parts" /\ At(r, "sidecar", loop[r].keep)
             \/ loop[r].pc = "sidecar" /\ At(r, "end", loop[r].keep)
    BY <2>1, <2>4, ElsewhereFills DEF Assembling
  <2> QED BY <2>2, <2>3, <2>4
<1> QED BY <1>1, <1>2, <1>3, <1>4, <1>5, <1>6, <1>7, <1>8, <1>9 DEF LoopStep

\* Nothing that a run or its handlers count on changes.
LEMMA SameFills ==
  ASSUME Good, Fills, setup' = setup, loop' = loop, job' = job, mishaps' = mishaps,
         \A t \in Runs : task'[t].written = task[t].written /\ task'[t].stop = task[t].stop
  PROVE  Fills'
<1>1. Segs' = Segs /\ \A p : Length(p)' = Length(p)
  BY SetupKept DEF Length
<1>2. \A q \in Runs : loop[q].pc = "work" \/ loop[q].pc \in Assembling => Of(q) \in Runs
  BY DEF Good, Linked, Assembling
<1>3. SUFFICES ASSUME NEW q \in Runs, NEW s \in Segs, loop[q].pc = "work" \/ loop[q].pc \in Assembling
               PROVE  /\ loop[q].pc = "work" /\ ~task'[Of(q)].stop =>
                           Filling(job[q][s], s, task'[Of(q)].written[s], mishaps)
                      /\ loop[q].pc \in Assembling =>
                           Filled(job[q][s], s, task'[Of(q)].written[s], mishaps)
  BY <1>1 DEF Fills, Filling, Filled, Stopped, Of
<1> QED BY <1>2, <1>3 DEF Fills, Stopped

\* The app stops a task: who is told to stop is stopped.
LEMMA StopFills ==
  ASSUME Good, Order, Fills, NEW t \in Runs, Pause(t) \/ Cancel(t)
  PROVE  Fills'
<1>1. /\ setup' = setup /\ loop' = loop /\ Told(t) /\ mishaps \subseteq mishaps'
  BY AbortIs DEF Pause, Cancel, Noted
<1>2. /\ OnlyTask(t) /\ task'[t].written = task[t].written /\ task'[t].stop
      /\ task[t].state # "none"
  BY PauseIs, CancelIs
<1>3. Segs' = Segs /\ \A p : Length(p)' = Length(p)
  BY <1>1, SetupKept DEF Length
<1>4. \A q \in Runs : task'[q].written = task[q].written
  BY <1>2 DEF OnlyTask
<1>5. SUFFICES ASSUME NEW q \in Runs, NEW s \in Segs, loop[q].pc = "work" \/ loop[q].pc \in Assembling
               PROVE  /\ loop[q].pc = "work" /\ ~task'[Of(q)].stop =>
                           Filling(job'[q][s], s, task[Of(q)].written[s], mishaps')
                      /\ loop[q].pc \in Assembling =>
                           Filled(job'[q][s], s, task[Of(q)].written[s], mishaps')
  <2>1. \A q \in Runs : loop[q].pc = "work" \/ loop[q].pc \in Assembling => Of(q) \in Runs
    BY DEF Good, Linked, Assembling
  <2> QED BY <1>1, <1>3, <1>4, <1>5, <2>1 DEF Fills, Filling, Filled, Stopped, Of
<1>6. /\ job'[q][s].pc = job[q][s].pc /\ job'[q][s].hand = job[q][s].hand
      /\ job'[q][s].err = job[q][s].err /\ (job'[q][s].live => job[q][s].live)
      /\ job'[q][s].over = (job[q][s].over \/ task[t].completer[s] = q)
  BY <1>1 DEF Told
<1>7. ASSUME loop[q].pc \in Assembling
      PROVE  Filled(job'[q][s], s, task[Of(q)].written[s], mishaps')
  BY <1>1, <1>6, <1>7 DEF Fills, Filled
<1>8. ASSUME loop[q].pc = "work", ~task'[Of(q)].stop
      PROVE  Filling(job'[q][s], s, task[Of(q)].written[s], mishaps')
  <2>1. Of(q) # t /\ Of(q) \in Runs
    BY <1>2, <1>8 DEF Good, Linked
  <2>2. task[t].completer[s] # q
    BY <1>2, <2>1, RunsAre DEF Order
  <2>3. ~Stopped(q)
    BY <1>2, <1>8, <2>1 DEF Stopped, OnlyTask
  <2>4. Filling(job[q][s], s, task[Of(q)].written[s], mishaps)
    BY <1>8, <2>3 DEF Fills
  <2>5. job'[q][s].over = job[q][s].over
    <3>1. job[q][s].over \in BOOLEAN
      BY DEF Good, Types, JobType
    <3> QED BY <1>6, <2>2, <3>1
  <2>6. Through(job'[q][s]) <=> Through(job[q][s])
    BY <1>6, <2>5 DEF Through
  <2>7. job'[q][s].live => ~job'[q][s].over
    BY <1>6, <2>4, <2>5 DEF Filling
  <2>8. "short" \notin mishaps' => "short" \notin mishaps
    BY <1>1
  <2> QED BY <1>6, <2>4, <2>5, <2>6, <2>7, <2>8 DEF Filling
<1> QED BY <1>7, <1>8

\* The only run that is not off.
LEMMA OnlyFills ==
  ASSUME setup' = setup, NEW r \in Runs, \A q \in Runs : q # r => loop'[q].pc = "off",
         loop'[r].pc # "work", loop'[r].pc \notin Assembling
  PROVE  Fills'
<1>1. Segs' = Segs
  BY SetupKept
<1>2. \A q \in Runs : loop'[q].pc # "work" /\ loop'[q].pc \notin Assembling
  BY DEF Assembling
<1> QED BY <1>1, <1>2 DEF Fills

LEMMA EnqueueFills ==
  ASSUME Good, Enqueue, ~Undone'
  PROVE  Fills'
<1>1. setup' = setup /\ ("overlap" \notin mishaps' => \A t \in Runs : Quiet(t))
  BY EnqueueIs
<1>2. PICK r \in Runs : OnlyLoop(r) /\ loop'[r].pc = "probe"
  BY EnqueueIs
<1>3. \A t \in Runs : Quiet(t)
  BY <1>1 DEF Undone
<1>4. \A q \in Runs : loop[q].pc = "off"
  <2>1. \A q \in Runs : loop[q].pc # "off" => Of(q) \in Runs
    BY DEF Good, Linked
  <2> QED BY <1>3, <2>1 DEF Quiet, Settled, Of
<1> QED BY <1>1, <1>2, <1>4, OnlyFills DEF OnlyLoop, Assembling

LEMMA ResumeFills ==
  ASSUME Good, Order, One, Cursor, NEW t \in Runs, Resume(t), ~Undone'
  PROVE  Fills'
<1>0. Types /\ setup \in Setups
  BY DEF Good, Types
<1>1. /\ setup' = setup
      /\ "overlap" \notin mishaps' => Quiet(t) /\ ~Superseded(t)
      /\ "revived" \notin mishaps' => task[t].state = "paused"
      /\ task'[t].written = task[t].written
  BY ResumeIs
<1>2. PICK r \in Runs :
        /\ OnlyLoop(r) /\ loop'[r].of = t
        /\ \/ loop'[r].pc = "probe"
           \/ /\ task[t].written # <<>> /\ loop'[r].pc = "work"
              /\ Spread(r, task[t].written)
  BY ResumeIs
<1>3. Quiet(t) /\ ~Superseded(t) /\ task[t].state = "paused"
  BY <1>1 DEF Undone
<1>4. Of(t) = t /\ t \in Used
  <2>1. Of(t) = t
    BY <1>3 DEF Order
  <2>2. t # NoRun
    BY RunsAre
  <2> QED BY <2>1, <2>2 DEF Used, Of
<1>5. PICK n \in Runs : Newest(n) /\ Of(n) = t
  BY <1>3, <1>4, NewestIs DEF One
<1>6. \A q \in Runs : loop[q].pc = "off"
  <2>1. loop[n].pc = "off"
    BY <1>3, <1>5 DEF Quiet, Settled, Of
  <2>2. \A q \in Runs : Newest(q) => q = n
    BY <1>5, RunsAre DEF Newest
  <2> QED BY <2>1, <2>2 DEF One, Sequential
<1>7. \A q \in Runs : q # r => loop'[q].pc = "off"
  BY <1>2, <1>6 DEF OnlyLoop
<1>8. CASE loop'[r].pc = "probe"
  BY <1>1, <1>7, <1>8, OnlyFills DEF Assembling
<1>9. CASE task[t].written # <<>> /\ loop'[r].pc = "work" /\ Spread(r, task[t].written)
  <2>1. Holds(n)
    BY <1>3, <1>5, <1>6, <1>9 DEF Holds
  <2>2. PICK w \in [Segs -> Nat] : w = task[t].written
    BY <1>5, <1>9, OffsetsOf
  <2>3. setup.ranged => \A s \in Segs : w[s] <= Length(s)
    BY <1>5, <2>1, <2>2, HeldFit
  <2>4. \A s \in Segs : Filling(job'[r][s], s, w[s], mishaps')
    BY <1>0, <1>9, <2>2, <2>3, StartedIs, StartedFills
  <2>5. Segs' = Segs /\ \A p : Length(p)' = Length(p)
    BY <1>1, SetupKept DEF Length
  <2>6. SUFFICES ASSUME NEW q \in Runs, NEW s \in Segs, loop'[q].pc = "work" \/ loop'[q].pc \in Assembling
                 PROVE  /\ loop'[q].pc = "work" =>
                             Filling(job'[q][s], s, task'[loop'[q].of].written[s], mishaps')
                        /\ loop'[q].pc \notin Assembling
    BY <1>1, <2>5 DEF Fills, Filling, Filled, Of
  <2>7. q = r
    BY <1>7, <2>6 DEF Assembling
  <2> QED BY <1>1, <1>2, <1>9, <2>2, <2>4, <2>7 DEF Assembling
<1> QED BY <1>2, <1>8, <1>9

LEMMA CrashFills ==
  ASSUME Good, Crash
  PROVE  Fills'
<1>1. setup' = setup /\ \A q \in Runs : loop'[q].pc = "off"
  BY CrashIs
<1>2. Segs' = Segs
  BY <1>1, SetupKept
<1> QED BY <1>1, <1>2 DEF Fills, Assembling

LEMMA FillsNext ==
  ASSUME Good, Order, One, Cursor, Fills, [Next]_vars, ~Undone'
  PROVE  Fills'
<1>1. CASE UNCHANGED vars
  BY <1>1, SameFills DEF vars
<1>2. CASE App
  BY <1>2, EnqueueFills, ResumeFills, StopFills DEF App
<1>3. CASE Crash
  BY <1>3, CrashFills
<1>4. ASSUME NEW r \in Runs, LoopStep(r)
      PROVE  Fills'
  BY <1>4, RunsFill
<1>5. ASSUME NEW t \in Runs, FinishCancel(t)
      PROVE  Fills'
  <2>1. /\ OnlyTask(t) /\ UNCHANGED <<setup, loop, job, mishaps>>
        /\ task'[t].stop = task[t].stop /\ task'[t].written = task[t].written
    BY <1>5, FinishIs
  <2>2. \A q \in Runs : task'[q].written = task[q].written /\ task'[q].stop = task[q].stop
    BY <2>1 DEF OnlyTask
  <2> QED BY <2>1, <2>2, SameFills
<1>6. ASSUME NEW r \in Runs, NEW s \in Segs, SegmentStep(r, s) \/ Arrives(r, s)
      PROVE  Fills'
  <2>1. "late" \notin mishaps'
    BY DEF Undone
  <2> QED BY <1>6, <2>1, SegmentsFill
<1> QED BY <1>1, <1>2, <1>3, <1>4, <1>5, <1>6 DEF Next

LEMMA InitFills == Init => Fills
<1>1. ASSUME Init PROVE \A r \in Runs : loop[r].pc = "off"
  BY <1>1 DEF Init, NoLoop
<1> QED BY <1>1 DEF Fills, Assembling

\* What is assembled is the resource, if it is as long or no stream was cut short.
Whole(bytes, noted) == Len(bytes) = setup.total \/ "short" \notin noted => bytes = Resource

Concatenated ==
  \A r \in Runs : loop[r].pc = "verify" => \E bytes : dest = {bytes} /\ Whole(bytes, mishaps)

\* A run that keeps the file has verified it.
Ending == {"parts", "sidecar", "end"}
Sure   == setup.sha \/ (~Undone /\ (setup.ranged \/ "short" \notin mishaps))

Proven ==
  \A r \in Runs : loop[r].pc \in Ending /\ loop[r].keep /\ Sure => dest = {Resource}

Dests == (~Undone => Concatenated) /\ (Alone => Proven)

\* A step that assembles nothing and verifies nothing.
LEMMA DestsKept ==
  ASSUME setup' = setup, mishaps \subseteq mishaps',
         \A q \in Runs : loop'[q].pc = "verify" => loop[q].pc = "verify" /\ dest' = dest,
         \A q \in Runs : loop'[q].pc \in Ending /\ loop'[q].keep =>
           loop[q].pc \in Ending /\ loop[q].keep /\ dest' = dest
  PROVE  (Concatenated => Concatenated') /\ (Proven => Proven')
<1>1. Resource' = Resource
  BY DEF Resource
<1>2. ASSUME Concatenated PROVE Concatenated'
  <2>1. SUFFICES ASSUME NEW q \in Runs, loop'[q].pc = "verify"
                 PROVE  \E bytes : dest' = {bytes} /\ (Len(bytes) = setup.total \/ "short" \notin mishaps' => bytes = Resource)
    BY <1>1 DEF Concatenated, Whole
  <2>2. PICK bytes : dest = {bytes} /\ Whole(bytes, mishaps)
    BY <1>2, <2>1 DEF Concatenated
  <2> QED BY <2>1, <2>2 DEF Whole
<1>3. ASSUME Proven PROVE Proven'
  <2>1. Sure' => Sure
    BY DEF Sure, Undone
  <2> QED BY <1>1, <1>3, <2>1 DEF Proven, Ending
<1> QED BY <1>2, <1>3

\* The other runs are off.
LEMMA OthersOff ==
  ASSUME One, NEW r \in Runs, loop[r].pc # "off", NEW pc, NEW keep, At(r, pc, keep)
  PROVE  /\ \A q \in Runs : q # r => loop[q].pc = "off" /\ loop'[q].pc = "off"
         /\ loop'[r].pc = pc /\ loop'[r].keep = keep
<1>1. \A q \in Runs : q # r => loop[q].pc = "off"
  <2>1. SUFFICES ASSUME NEW q \in Runs, loop[q].pc # "off" PROVE q = r
    OBVIOUS
  <2>2. Newest(q) /\ Newest(r)
    BY <2>1 DEF One, Sequential
  <2>3. q <= r /\ r <= q
    BY <2>2 DEF Newest
  <2>4. q \in Nat /\ r \in Nat
    BY RunsAre
  <2> QED BY <2>3, <2>4
<1> QED BY <1>1 DEF At, OnlyLoop

\* A run that neither assembles nor verifies.
LEMMA RunKeepsDests ==
  ASSUME One, Dests, NEW r \in Runs, loop[r].pc # "off", setup' = setup, mishaps \subseteq mishaps',
         NEW pc, pc # "verify", NEW keep, At(r, pc, keep),
         pc \in Ending /\ keep => loop[r].pc \in Ending /\ loop[r].keep /\ dest' = dest
  PROVE  Dests'
<1>1. /\ \A q \in Runs : loop'[q].pc = "verify" => FALSE
      /\ \A q \in Runs : loop'[q].pc \in Ending /\ loop'[q].keep =>
           loop[q].pc \in Ending /\ loop[q].keep /\ dest' = dest
  BY OthersOff DEF Ending
<1>2. (Concatenated => Concatenated') /\ (Proven => Proven')
  BY <1>1, DestsKept
<1>3. (~Undone' => ~Undone) /\ (Alone' => Alone)
  BY DEF Undone, Alone
<1> QED BY <1>2, <1>3 DEF Dests

LEMMA FailingDests ==
  ASSUME One, Dests, NEW r \in Runs, loop[r].pc # "off", setup' = setup, mishaps \subseteq mishaps',
         Failing(r)
  PROVE  Dests'
<1>1. CASE At(r, "off", loop[r].keep)
  BY <1>1, RunKeepsDests DEF Ending
<1>2. CASE At(r, "parts", FALSE)
  BY <1>2, RunKeepsDests
<1> QED BY <1>1, <1>2 DEF Failing

\* The parts of a run that has joined its handlers make the resource.
LEMMA ConcatWhole ==
  ASSUME Good, One, Cursor, Fills, Filed, NEW r \in Runs, loop[r].pc = "concat"
  PROVE  DOMAIN part = Segs /\ Whole(FlattenSeq(part), mishaps)
<1>1. Types /\ setup \in Setups /\ DOMAIN part \subseteq Segs
  BY DEF Good, Types, PartsTyped
<1>2. Newest(r) /\ task[Of(r)].written # <<>> /\ Holds(r)
  BY DEF One, Sequential, Staged, Held, Holds
<1>3. \A s \in Segs : ExactAt(r, s)
  BY <1>2 DEF Cursor, Exact
<1>4. DOMAIN part = Segs
  BY <1>1, <1>3 DEF ExactAt
<1>5. part \in [Segs -> PartBytes]
  <2>1. \A s \in Segs : part[s] \in PartBytes
    BY <1>1, <1>4, BytesAre DEF Bytes
  <2> QED BY <1>4, <2>1 DEF Filed
<1>6. \A s \in Segs : /\ ~setup.ranged => job[r][s].pc = "done"
                      /\ "short" \notin mishaps => task[Of(r)].written[s] = Length(s)
  BY DEF Fills, Filled, Assembling
<1>7. \A s \in Segs : Begins(part[s], s, Len(part[s]))
  BY <1>3, <1>6 DEF ExactAt, Asking
<1>8. "short" \notin mishaps => \A s \in Segs : Len(part[s]) = Length(s)
  BY <1>3, <1>6 DEF ExactAt
<1>9. /\ Len(FlattenSeq(part)) = setup.total => FlattenSeq(part) = Resource
      /\ (\A s \in Segs : Len(part[s]) = Length(s)) => FlattenSeq(part) = Resource
  BY <1>1, <1>5, <1>7, PartsMake
<1> QED BY <1>4, <1>8, <1>9 DEF Whole

LEMMA ConcatDests ==
  ASSUME Good, Alone => One, ~Undone => Cursor /\ Fills, Filed, Dests, NEW r \in Runs, Concat(r)
  PROVE  Dests'
<1>1. /\ loop[r].pc = "concat" /\ UNCHANGED <<setup, mishaps>>
      /\ \/ DOMAIN part = Segs /\ dest' = {FlattenSeq(part)} /\ At(r, "verify", loop[r].keep)
         \/ DOMAIN part # Segs /\ Failing(r)
  BY ConcatIs
<1>2. SUFFICES ASSUME Alone PROVE Dests'
  BY <1>1 DEF Dests, Alone, Undone
<1>3. CASE Failing(r)
  BY <1>1, <1>2, <1>3, FailingDests
<1>4. CASE dest' = {FlattenSeq(part)} /\ At(r, "verify", loop[r].keep)
  <2>1. /\ \A q \in Runs : q # r => loop'[q].pc = "off"
        /\ loop'[r].pc = "verify"
    BY <1>1, <1>2, <1>4, OthersOff
  <2>2. Proven'
    BY <2>1 DEF Proven, Ending
  <2>3. ASSUME ~Undone PROVE Concatenated'
    <3>1. Whole(FlattenSeq(part), mishaps)
      BY <1>1, <1>2, <2>3, ConcatWhole
    <3>2. Resource' = Resource
      BY <1>1 DEF Resource
    <3> QED BY <1>1, <1>4, <3>1, <3>2 DEF Concatenated, Whole
  <2> QED BY <1>1, <2>2, <2>3 DEF Dests, Undone
<1> QED BY <1>1, <1>3, <1>4

LEMMA VerifyDests ==
  ASSUME Good, Alone => One, Dests, NEW r \in Runs, Verify(r)
  PROVE  Dests'
<1>1. /\ loop[r].pc = "verify" /\ UNCHANGED <<setup, dest, mishaps>>
      /\ \/ (\E bytes \in dest : Verified(bytes)) /\ At(r, "parts", TRUE)
         \/ Failing(r)
  BY VerifyIs
<1>2. SUFFICES ASSUME Alone PROVE Dests'
  BY <1>1 DEF Dests, Alone, Undone
<1>3. CASE Failing(r)
  BY <1>1, <1>2, <1>3, FailingDests
<1>4. CASE (\E bytes \in dest : Verified(bytes)) /\ At(r, "parts", TRUE)
  <2>1. /\ \A q \in Runs : q # r => loop'[q].pc = "off"
        /\ loop'[r].pc = "parts"
    BY <1>1, <1>2, <1>4, OthersOff
  <2>2. Concatenated'
    BY <2>1 DEF Concatenated
  <2>3. ASSUME Sure PROVE dest = {Resource}
    <3>1. PICK bytes : dest = {bytes} /\ Verified(bytes)
      <4>1. PICK bytes \in dest : Verified(bytes)
        BY <1>4
      <4>2. dest = {bytes}
        BY <4>1 DEF Good, Types, DestTyped
      <4> QED BY <4>1, <4>2
    <3>2. CASE setup.sha
      BY <3>1, <3>2 DEF Verified
    <3>3. CASE ~Undone /\ (setup.ranged \/ "short" \notin mishaps)
      <4>1. Whole(bytes, mishaps)
        BY <1>1, <3>1, <3>3 DEF Dests, Concatenated
      <4> QED BY <3>1, <3>3, <4>1 DEF Verified, Whole
    <3> QED BY <2>3, <3>2, <3>3 DEF Sure
  <2>4. Resource' = Resource /\ (Sure' <=> Sure)
    BY <1>1 DEF Resource, Sure, Undone
  <2>5. Proven'
    BY <1>1, <2>3, <2>4 DEF Proven
  <2> QED BY <2>2, <2>5 DEF Dests
<1> QED BY <1>1, <1>3, <1>4

LEMMA RunsDests ==
  ASSUME Good, Alone => One, ~Undone => Cursor /\ Fills, Filed, Dests, NEW r \in Runs, LoopStep(r)
  PROVE  Dests'
<1>0. SUFFICES ASSUME Alone PROVE Dests'
  <2>1. mishaps \subseteq mishaps'
    BY RunsGo DEF Goings, Going
  <2> QED BY <2>1 DEF Dests, Alone, Undone
<1>1. CASE Concat(r)
  BY <1>1, ConcatDests
<1>2. CASE Verify(r)
  BY <1>2, VerifyDests
<1>3. CASE Join(r)
  <2>1. /\ loop[r].pc = "work" /\ UNCHANGED <<setup, mishaps>>
        /\ \/ Failing(r)
           \/ At(r, "flush", loop[r].keep)
           \/ At(r, "assemble", loop[r].keep)
    BY <1>3, JoinIs
  <2> QED BY <1>0, <2>1, FailingDests, RunKeepsDests DEF Ending
<1>4. CASE ProbeFails(r)
  <2>1. loop[r].pc = "probe" /\ setup' = setup /\ mishaps \subseteq mishaps' /\ Failing(r)
    BY <1>4, ProbeFailsIs
  <2> QED BY <1>0, <2>1, FailingDests
<1>5. CASE Flush(r) \/ Complete(r) \/ GiveUp(r)
  <2>1. /\ loop[r].pc # "off" /\ setup' = setup /\ mishaps \subseteq mishaps'
        /\ At(r, "off", loop[r].keep)
    BY <1>5, FlushIs, EndIs
  <2> QED BY <1>0, <2>1, RunKeepsDests DEF Ending
<1>6. CASE PrepareFromSidecar(r) \/ PrepareFresh(r) \/ FreshWritten(r) \/ Prepared(r)
  <2>1. PICK pc \in {"work", "fresh"} :
          /\ loop[r].pc # "off" /\ setup' = setup /\ mishaps \subseteq mishaps'
          /\ At(r, pc, loop[r].keep)
    BY <1>6, FromSidecarIs, FreshIs, FreshWrittenIs, PreparedIs
  <2> QED BY <1>0, <2>1, RunKeepsDests DEF Ending
<1>7. CASE Probe(r) \/ OpenDest(r) \/ SweepParts(r) \/ SweepSidecar(r)
  <2>1. /\ UNCHANGED <<setup, mishaps>>
        /\ \/ loop[r].pc = "probe" /\ At(r, "prepare", loop[r].keep)
           \/ loop[r].pc = "assemble" /\ At(r, "concat", loop[r].keep)
           \/ loop[r].pc = "parts" /\ At(r, "sidecar", loop[r].keep) /\ dest' = dest
           \/ loop[r].pc = "sidecar" /\ At(r, "end", loop[r].keep) /\ dest' = dest
    BY <1>7, PlainIs
  <2>2. PICK pc \in {"prepare", "concat", "sidecar", "end"} :
          /\ At(r, pc, loop[r].keep) /\ loop[r].pc # "off"
          /\ pc \in Ending => loop[r].pc \in Ending /\ dest' = dest
    BY <2>1 DEF Ending
  <2> QED BY <1>0, <2>1, <2>2, RunKeepsDests
<1> QED BY <1>1, <1>2, <1>3, <1>4, <1>5, <1>6, <1>7 DEF LoopStep

\* A step that leaves the file alone, and the runs, or lets one begin or all end.
LEMMA StillDests ==
  ASSUME Dests, setup' = setup, mishaps \subseteq mishaps',
         \A q \in Runs : (loop'[q] = loop[q] /\ dest' = dest) \/ loop'[q].pc \in {"off", "probe", "work"}
  PROVE  Dests'
<1>1. (Concatenated => Concatenated') /\ (Proven => Proven')
  BY DestsKept DEF Ending
<1>2. (~Undone' => ~Undone) /\ (Alone' => Alone)
  BY DEF Undone, Alone
<1> QED BY <1>1, <1>2 DEF Dests

\* A download keeps the setup it has.
LEMMA SetupStays ==
  ASSUME Good, [Next]_vars
  PROVE  setup' = setup
<1>1. CASE UNCHANGED vars \/ Crash
  BY <1>1 DEF vars, Crash
<1>2. CASE Enqueue
  BY <1>2, EnqueueIs
<1>3. ASSUME NEW t \in Runs, Resume(t) \/ Pause(t) \/ Cancel(t) \/ FinishCancel(t)
      PROVE  setup' = setup
  BY <1>3 DEF Resume, Pause, Cancel, FinishCancel
<1>4. ASSUME NEW r \in Runs, LoopStep(r)
      PROVE  setup' = setup
  BY <1>4, RunsGo DEF Goings, Going
<1>5. ASSUME NEW r \in Runs, NEW s \in Segs, SegmentStep(r, s) \/ Arrives(r, s)
      PROVE  setup' = setup
  BY <1>5, HandlersCalm DEF Calm
<1> QED BY <1>1, <1>2, <1>3, <1>4, <1>5 DEF Next, App

LEMMA DestsNext ==
  ASSUME Good, Alone => One, ~Undone => Cursor /\ Fills, Filed, Dests, [Next]_vars
  PROVE  Dests'
<1>0. setup' = setup /\ mishaps \subseteq mishaps'
  BY SetupStays, MishapsStay
<1>1. CASE UNCHANGED vars
  BY <1>0, <1>1, StillDests DEF vars
<1>2. ASSUME NEW t \in Runs, Pause(t) \/ Cancel(t)
      PROVE  Dests'
  BY <1>0, <1>2, StillDests DEF Pause, Cancel, disk
<1>3. CASE Enqueue
  <2>1. \E r \in Runs : OnlyLoop(r) /\ loop'[r].pc = "probe" /\ dest' = dest
    BY <1>3, EnqueueIs
  <2>2. \A q \in Runs : (loop'[q] = loop[q] /\ dest' = dest) \/ loop'[q].pc \in {"off", "probe", "work"}
    BY <2>1 DEF OnlyLoop
  <2> QED BY <1>0, <2>2, StillDests
<1>4. ASSUME NEW t \in Runs, Resume(t)
      PROVE  Dests'
  <2>1. dest' = dest /\ \E r \in Runs : OnlyLoop(r) /\ loop'[r].pc \in {"probe", "work"}
    BY <1>4, ResumeIs
  <2>2. \A q \in Runs : (loop'[q] = loop[q] /\ dest' = dest) \/ loop'[q].pc \in {"off", "probe", "work"}
    BY <2>1 DEF OnlyLoop
  <2> QED BY <1>0, <2>2, StillDests
<1>5. CASE Crash
  <2>1. \A q \in Runs : loop'[q].pc = "off"
    BY <1>5, CrashIs
  <2> QED BY <1>0, <2>1, StillDests
<1>6. ASSUME NEW r \in Runs, NEW s \in Segs, SegmentStep(r, s) \/ Arrives(r, s)
      PROVE  Dests'
  BY <1>0, <1>6, StillDests
  DEF SegmentStep, Granted, Get, GetFails, Wrote, WriteFails, Commit, Leave, Arrives, Chunk,
      StreamEnds, StreamFails, disk
<1>7. ASSUME NEW r \in Runs, LoopStep(r)
      PROVE  Dests'
  BY <1>7, RunsDests
<1>8. ASSUME NEW t \in Runs, FinishCancel(t)
      PROVE  Dests'
  <2>1. /\ loop' = loop /\ mishaps' = mishaps
        /\ dest' = dest \/ task[t].finish = "dest"
    BY <1>8, FinishIs
  <2>2. CASE dest' = dest
    BY <1>0, <2>1, <2>2, StillDests
  <2>3. CASE task[t].finish = "dest"
    <3>1. SUFFICES ASSUME Alone PROVE Dests'
      BY <2>1 DEF Dests, Alone, Undone
    <3>2. \A q \in Runs : loop'[q].pc = "off"
      BY <2>1, <2>3, <3>1 DEF One, Cleaning, Deleting
    <3> QED BY <1>0, <3>2, StillDests
  <2> QED BY <2>1, <2>2, <2>3
<1> QED BY <1>1, <1>2, <1>3, <1>4, <1>5, <1>6, <1>7, <1>8 DEF Next, App

LEMMA AlwaysDests ==
  Spec => [](Good /\ (Alone => One) /\ (~Undone => Cursor /\ Fills) /\ Filed /\ Dests)
<1>1. Init => (~Undone => Cursor) /\ (~Undone => Fills) /\ Filed /\ Dests
  <2>1. Init => Filed /\ Dests
    BY DEF Init, NoLoop, Filed, Dests, Concatenated, Proven, Ending
  <2> QED BY <2>1, InitFills, InitCursor
<1>2. Good /\ Order /\ (Alone => One) /\ (~Undone => Cursor) /\ (~Undone => Fills) /\ [Next]_vars
        => (~Undone => Fills)'
  <2>2. SUFFICES ASSUME Good, Order, Alone => One, ~Undone => Cursor, ~Undone => Fills, [Next]_vars,
                        ~Undone'
                 PROVE  Fills'
    OBVIOUS
  <2>3. ~Undone /\ One
    BY <2>2, MishapsStay DEF Undone, Alone
  <2> QED BY <2>2, <2>3, FillsNext
<1>3. Good /\ Filed /\ [Next]_vars => Filed'
  BY FiledNext
<1>4. Good /\ (Alone => One) /\ (~Undone => Cursor) /\ (~Undone => Fills) /\ Filed /\ Dests /\ [Next]_vars
        => Dests'
  BY DestsNext
<1>5. (~Undone => Cursor) /\ (~Undone => Fills) => (~Undone => Cursor /\ Fills)
  OBVIOUS
<1> QED BY <1>1, <1>2, <1>3, <1>4, <1>5, AlwaysOne, AlwaysCursor, PTL DEF Spec

\* Nobody tells a task that it is completed but a run that ends.
LEMMA WhoCompletes ==
  ASSUME Good, [Next]_vars, NEW t \in Runs, task[t].state # "completed", task'[t].state = "completed"
  PROVE  \E r \in Runs : /\ loop[r].pc = "end" /\ loop[r].keep
                         /\ UNCHANGED <<setup, dest, mishaps>>
<1>1. CASE UNCHANGED vars
  BY <1>1 DEF vars
<1>2. CASE Enqueue
  BY <1>2, EnqueueIs DEF OnlyTask
<1>3. ASSUME NEW q \in Runs, Resume(q) \/ Pause(q) \/ Cancel(q) \/ FinishCancel(q)
      PROVE  FALSE
  <2>1. OnlyTask(q) /\ task'[q].state \in {"running", "paused", "canceled", task[q].state}
    BY <1>3, ResumeIs, PauseIs, CancelIs, FinishIs
  <2> QED BY <2>1 DEF OnlyTask
<1>4. CASE Crash
  BY <1>4, CrashIs DEF NoTask
<1>5. ASSUME NEW r \in Runs, NEW s \in Segs, SegmentStep(r, s) \/ Arrives(r, s)
      PROVE  FALSE
  BY <1>5, HandlersCalm DEF Calm, Steady
<1>6. ASSUME NEW r \in Runs, LoopStep(r)
      PROVE  /\ loop[r].pc = "end" /\ loop[r].keep
             /\ UNCHANGED <<setup, dest, mishaps>>
  <2>0. ASSUME Failing(r) PROVE FALSE
    BY <2>0 DEF Failing, Tells, OnlyTask
  <2>1. CASE Complete(r) \/ GiveUp(r)
    <3>1. ~Tells(Of(r), task[Of(r)].state, task[Of(r)].written)
      BY DEF Tells, OnlyTask
    <3> QED BY <2>1, <3>1, EndIs
  <2>2. CASE ProbeFails(r) \/ Join(r) \/ Concat(r) \/ Verify(r)
    <3>1. task' = task \/ Failing(r)
      BY <2>2, ProbeFailsIs, JoinIs, ConcatIs, VerifyIs
    <3> QED BY <2>0, <3>1
  <2>3. CASE \/ Probe(r) \/ OpenDest(r) \/ SweepParts(r) \/ SweepSidecar(r)
             \/ Flush(r) \/ FreshWritten(r) \/ Prepared(r)
    <3>1. task' = task
      BY <2>3, PlainIs, FlushIs, FreshWrittenIs, PreparedIs
    <3> QED BY <3>1
  <2>4. CASE PrepareFromSidecar(r) \/ PrepareFresh(r)
    <3>1. \E w : Tells(Of(r), task[Of(r)].state, w)
      BY <2>4, FromSidecarIs, FreshIs
    <3> QED BY <3>1 DEF Tells, OnlyTask
  <2> QED BY <1>6, <2>1, <2>2, <2>3, <2>4 DEF LoopStep
<1> QED BY <1>1, <1>2, <1>3, <1>4, <1>5, <1>6 DEF Next, App

\* download_task.dart:212-215: a task becomes completed only when the file is,
\* byte for byte, the resource; with a digest whatever happened but two tasks at
\* once, without one but after what Undone lists or a single stream cut short.
THEOREM CompletedFilesAreRight == Spec => CompletedIsRight
<1>1. Good /\ Dests /\ [Next]_vars =>
        [\A t \in Runs : task[t].state # "completed" /\ task'[t].state = "completed" =>
           \/ dest' = {Resource}
           \/ IF setup.sha THEN "overlap" \in mishaps
              ELSE Undone \/ (~setup.ranged /\ "short" \in mishaps)]_vars
  <2>1. SUFFICES ASSUME Good, Dests, [Next]_vars, NEW t \in Runs,
                        task[t].state # "completed", task'[t].state = "completed",
                        ~(IF setup.sha THEN "overlap" \in mishaps
                          ELSE Undone \/ (~setup.ranged /\ "short" \in mishaps))
                 PROVE  dest' = {Resource}
    OBVIOUS
  <2>2. PICK r \in Runs : loop[r].pc = "end" /\ loop[r].keep /\ dest' = dest
    BY <2>1, WhoCompletes
  <2>3. Alone /\ Sure
    BY <2>1 DEF Alone, Sure, Undone
  <2> QED BY <2>1, <2>2, <2>3 DEF Dests, Proven, Ending
<1> QED BY <1>1, AlwaysDests, PTL DEF Spec, CompletedIsRight

-----------------------------------------------------------------------------
(* What a failure comes from.                                              *)

\* No handler has an error, and no task has failed.
Sound ==
  /\ \A r \in Runs, s \in Segs : ~job[r][s].err /\ job[r][s].pc # "threw"
  /\ \A t \in Runs : task[t].state # "failed"

\* A handler without a mishap has no error.
LEMMA HandlersSound ==
  ASSUME Good, Sound, NEW r \in Runs, NEW s \in Segs, SegmentStep(r, s) \/ Arrives(r, s), mishaps' = {}
  PROVE  Sound'
<1>1. setup' = setup /\ \A t \in Runs : task'[t].state = task[t].state
  BY HandlersCalm DEF Calm, Steady
<1>2. Segs' = Segs
  BY <1>1, SetupKept
<1>3. \A q \in Runs, p \in Segs : <<q, p>> # <<r, s>> => job'[q][p] = job[q][p] \/ LetIn(q, p)
  <2>1. CASE Leave(r, s)
    BY <2>1, LeaveIs
  <2>2. CASE Granted(r, s) \/ Get(r, s) \/ Wrote(r, s) \/ Commit(r, s)
    <3>1. OnlyJob(r, s)
      BY <2>2, GrantedIs, GetIs, WroteIs, CommitIs
    <3> QED BY <3>1 DEF OnlyJob
  <2>3. CASE GetFails(r, s) \/ Chunk(r, s) \/ StreamEnds(r, s) \/ StreamFails(r, s) \/ WriteFails(r, s)
    <3>1. OnlyJob(r, s)
      BY <2>3, StreamIs
    <3> QED BY <3>1 DEF OnlyJob
  <2> QED BY <2>1, <2>2, <2>3 DEF SegmentStep, Arrives
<1>4. ~job[r][s].err /\ job[r][s].pc # "threw"
  BY DEF Sound
<1>5. ~job'[r][s].err /\ job'[r][s].pc # "threw"
  <2>1. CASE Granted(r, s)
    <3>1. job'[r][s].err = job[r][s].err /\ job'[r][s].pc \in {"get", "leave"}
      BY <2>1, GrantedIs
    <3> QED BY <1>4, <3>1
  <2>2. CASE Get(r, s)
    <3>1. job'[r][s].err = job[r][s].err /\ job'[r][s].pc \in {"stream", "leave"}
      BY <2>2, GetIs
    <3> QED BY <1>4, <3>1
  <2>3. CASE GetFails(r, s) \/ Chunk(r, s) \/ StreamEnds(r, s) \/ StreamFails(r, s) \/ WriteFails(r, s)
    <3>1. job'[r][s].err = job[r][s].err /\ job'[r][s].pc = "stream"
      <4>1. \/ /\ job[r][s].pc = "get" /\ mishaps' = mishaps \cup {"error"}
            \/ /\ job[r][s].pc = "stream" /\ job'[r][s].pc = "stream"
               /\ job'[r][s].err = job[r][s].err
            \/ mishaps' = mishaps \cup {"error"} \/ mishaps' = mishaps \cup {"disk"}
        BY <2>3, StreamIs
      <4> QED BY <4>1
    <3> QED BY <1>4, <3>1
  <2>4. CASE Wrote(r, s)
    <3>1. \/ Resolved(r, s, job[r][s].next + 1)
          \/ job'[r][s].pc = job[r][s].pc /\ job'[r][s].err = job[r][s].err
      BY <2>4, WroteIs
    <3> QED BY <1>4, <3>1 DEF Resolved
  <2>5. CASE Commit(r, s)
    <3>1. Resolved(r, s, job[r][s].next)
      BY <2>5, CommitIs
    <3> QED BY <1>4, <3>1 DEF Resolved
  <2>6. CASE Leave(r, s)
    BY <1>4, <2>6, LeaveIs
  <2> QED BY <2>1, <2>2, <2>3, <2>4, <2>5, <2>6 DEF SegmentStep, Arrives
<1>6. \A q \in Runs, p \in Segs : ~job'[q][p].err /\ job'[q][p].pc # "threw"
  BY <1>3, <1>5 DEF Sound, LetIn
<1> QED BY <1>1, <1>2, <1>6 DEF Sound

\* A run that throws has a cause.
LEMMA ThrowsNone ==
  ASSUME Good, One, Cursor, Fills, Filed, Dests, Sound, mishaps = {}, mishaps' = {},
         NEW r \in Runs, ProbeFails(r) \/ Join(r) \/ Concat(r) \/ Verify(r)
  PROVE  task' = task
<1>1. CASE ProbeFails(r)
  BY <1>1, ProbeFailsIs
<1>2. CASE Join(r)
  BY <1>2, JoinIs DEF Sound
<1>3. CASE Concat(r)
  BY <1>3, ConcatIs, ConcatWhole
<1>4. CASE Verify(r)
  <2>1. loop[r].pc = "verify"
    BY <1>4, VerifyIs
  <2>2. PICK bytes : dest = {bytes} /\ Whole(bytes, mishaps)
    BY <2>1 DEF Dests, Undone, Concatenated
  <2>3. bytes = Resource
    BY <2>2 DEF Whole
  <2>4. Len(Resource) = setup.total
    <3>1. PICK total \in Nat : total = setup.total
      BY SegsAre DEF Good, Types
    <3> QED BY <3>1 DEF Resource
  <2>5. Verified(bytes)
    BY <2>3, <2>4 DEF Verified
  <2> QED BY <1>4, <2>2, <2>5, VerifyIs
<1> QED BY <1>1, <1>2, <1>3, <1>4

\* The handlers a run starts have no error.
LEMMA StartedSound ==
  ASSUME Good, Sound, NEW r \in Runs, setup' = setup, job' = job \/ \E w : Started(r, w),
         \A t \in Runs : task'[t].state \in {task[t].state, "running", "paused", "canceled", "completed"}
  PROVE  Sound'
<1>1. Segs' = Segs
  BY SetupKept
<1>2. \A q \in Runs, s \in Segs : ~job'[q][s].err /\ job'[q][s].pc # "threw"
  <2>1. CASE job' = job
    BY <2>1 DEF Sound
  <2>2. CASE \E w : Started(r, w)
    BY <2>2 DEF Started, Sound
  <2> QED BY <2>1, <2>2
<1>3. \A t \in Runs : task'[t].state # "failed"
  BY DEF Sound
<1> QED BY <1>1, <1>2, <1>3 DEF Sound

LEMMA SoundNext ==
  ASSUME Good, One, Cursor, Fills, Filed, Dests, Sound, [Next]_vars, mishaps = {}, mishaps' = {}
  PROVE  Sound'
<1>0. setup' = setup
  BY SetupStays
<1>1. CASE UNCHANGED vars
  BY <1>0, <1>1, SetupKept DEF vars, Sound
<1>2. CASE Enqueue
  <2>1. job' = job /\ \E r \in Runs : OnlyTask(r) /\ task'[r].state = "running"
    BY <1>2, EnqueueIs
  <2>2. \A t \in Runs : task'[t].state \in {task[t].state, "running"}
    BY <2>1 DEF OnlyTask
  <2> QED BY <1>0, <2>1, <2>2, StartedSound
<1>3. ASSUME NEW t \in Runs, Resume(t)
      PROVE  Sound'
  <2>1. OnlyTask(t) /\ task'[t].state = "running"
    BY <1>3, ResumeIs
  <2>2. \E r \in Runs : job' = job \/ Spread(r, task[t].written)
    BY <1>3, ResumeIs
  <2>3. PICK r \in Runs : job' = job \/ \E w : Started(r, w)
    BY <2>2, StartedIs
  <2>4. \A q \in Runs : task'[q].state \in {task[q].state, "running"}
    BY <2>1 DEF OnlyTask
  <2> QED BY <1>0, <2>3, <2>4, StartedSound
<1>4. ASSUME NEW t \in Runs, Pause(t) \/ Cancel(t)
      PROVE  Sound'
  <2>1. Told(t)
    BY <1>4, AbortIs DEF Pause, Cancel
  <2>2. OnlyTask(t) /\ task'[t].state \in {"paused", "canceled"}
    BY <1>4, PauseIs, CancelIs
  <2>3. \A q \in Runs, s \in Segs : ~job'[q][s].err /\ job'[q][s].pc # "threw"
    BY <2>1 DEF Told, Sound
  <2>4. \A q \in Runs : task'[q].state # "failed"
    BY <2>2 DEF OnlyTask, Sound
  <2> QED BY <1>0, <2>3, <2>4, SetupKept DEF Sound
<1>5. ASSUME NEW t \in Runs, FinishCancel(t)
      PROVE  Sound'
  <2>1. OnlyTask(t) /\ task'[t].state = task[t].state /\ job' = job
    BY <1>5, FinishIs
  <2>2. \A q \in Runs : task'[q].state = task[q].state
    BY <2>1 DEF OnlyTask
  <2> QED BY <1>0, <2>1, <2>2, StartedSound
<1>6. CASE Crash
  <2>1. \A q \in Runs, s \in Segs : ~job'[q][s].err /\ job'[q][s].pc # "threw"
    BY <1>6, CrashIs DEF NoJob
  <2>2. \A q \in Runs : task'[q].state # "failed"
    BY <1>6, CrashIs DEF NoTask
  <2> QED BY <1>0, <2>1, <2>2, SetupKept DEF Sound
<1>7. ASSUME NEW r \in Runs, NEW s \in Segs, SegmentStep(r, s) \/ Arrives(r, s)
      PROVE  Sound'
  BY <1>7, HandlersSound
<1>8. ASSUME NEW r \in Runs, LoopStep(r)
      PROVE  Sound'
  <2>1. CASE ProbeFails(r) \/ Join(r) \/ Concat(r) \/ Verify(r)
    <3>1. task' = task
      BY <2>1, ThrowsNone
    <3>2. job' = job
      BY <2>1, ProbeFailsIs, JoinIs, ConcatIs, VerifyIs
    <3> QED BY <1>0, <3>1, <3>2, StartedSound
  <2>2. CASE Probe(r) \/ OpenDest(r) \/ SweepParts(r) \/ SweepSidecar(r) \/ Flush(r)
    <3>1. task' = task /\ job' = job
      BY <2>2, PlainIs, FlushIs
    <3> QED BY <1>0, <3>1, StartedSound
  <2>3. CASE FreshWritten(r) \/ Prepared(r)
    <3>1. task' = task /\ \E w : Started(r, w)
      BY <2>3, FreshWrittenIs, PreparedIs, StartedIs
    <3> QED BY <1>0, <3>1, StartedSound
  <2>4. CASE Complete(r) \/ GiveUp(r)
    <3>1. job' = job /\ \E state, w : /\ Tells(Of(r), state, w)
                                      /\ state \in {task[Of(r)].state, "completed"}
      BY <2>4, EndIs
    <3>2. \A t \in Runs : task'[t].state \in {task[t].state, "completed"}
      BY <3>1 DEF Tells, OnlyTask
    <3> QED BY <1>0, <3>1, <3>2, StartedSound
  <2>5. CASE PrepareFresh(r)
    <3>1. job' = job /\ \E w : Tells(Of(r), task[Of(r)].state, w)
      BY <2>5, FreshIs
    <3>2. \A t \in Runs : task'[t].state \in {task[t].state, "completed"}
      BY <3>1 DEF Tells, OnlyTask
    <3> QED BY <1>0, <3>1, <3>2, StartedSound
  <2>6. CASE PrepareFromSidecar(r)
    <3>1. \E w : Spread(r, w) /\ Tells(Of(r), task[Of(r)].state, w)
      BY <2>6, FromSidecarIs
    <3>2. \E w : Started(r, w)
      BY <3>1, StartedIs
    <3>3. \A t \in Runs : task'[t].state \in {task[t].state, "completed"}
      BY <3>1 DEF Tells, OnlyTask
    <3> QED BY <1>0, <3>2, <3>3, StartedSound
  <2> QED BY <1>8, <2>1, <2>2, <2>3, <2>4, <2>5, <2>6 DEF LoopStep
<1> QED BY <1>1, <1>2, <1>3, <1>4, <1>5, <1>6, <1>7, <1>8 DEF Next, App

\* Nothing but a first cause is noted while none is there: a task that is started
\* again has failed, and so has one already.
LEMMA FirstMishap ==
  ASSUME Good, Sound, [Next]_vars, mishaps = {}
  PROVE  mishaps' \subseteq Causes
<1>1. CASE UNCHANGED vars
  BY <1>1 DEF vars
<1>2. CASE Enqueue
  BY <1>2 DEF Enqueue, Noted, Causes
<1>3. ASSUME NEW t \in Runs, Resume(t)
      PROVE  mishaps' \subseteq Causes
  <2>1. task[t].state # "failed"
    BY DEF Sound
  <2> QED BY <1>3, <2>1 DEF Resume, Causes
<1>4. ASSUME NEW t \in Runs, Pause(t) \/ Cancel(t) \/ FinishCancel(t)
      PROVE  mishaps' \subseteq Causes
  BY <1>4, FinishIs DEF Pause, Cancel, Noted, Causes
<1>5. ASSUME NEW r \in Runs, NEW s \in Segs, SegmentStep(r, s) \/ Arrives(r, s)
      PROVE  mishaps' \subseteq Causes
  <2>1. CASE Granted(r, s) \/ Chunk(r, s) \/ Leave(r, s)
    BY <2>1 DEF Granted, Chunk, Leave
  <2>2. CASE Get(r, s)
    <3>1. mishaps' = mishaps \/ mishaps' = mishaps \cup {"whole"}
      BY <2>2, GetIs
    <3> QED BY <3>1 DEF Causes
  <2>3. CASE GetFails(r, s) \/ StreamEnds(r, s) \/ StreamFails(r, s) \/ WriteFails(r, s)
    BY <2>3 DEF GetFails, StreamEnds, StreamFails, WriteFails, Noted, Causes
  <2>4. CASE Wrote(r, s) \/ Commit(r, s)
    BY <2>4 DEF Wrote, Commit, Noted, Causes
  <2> QED BY <1>5, <2>1, <2>2, <2>3, <2>4 DEF SegmentStep, Arrives
<1>6. ASSUME NEW r \in Runs, LoopStep(r)
      PROVE  mishaps' \subseteq Causes
  BY <1>6
     DEF LoopStep, Probe, ProbeFails, PrepareFromSidecar, PrepareFresh, FreshWritten, Prepared,
         Join, Flush, OpenDest, Concat, Verify, SweepParts, SweepSidecar, Complete, GiveUp, Causes
<1>7. CASE Crash
  BY <1>7 DEF Crash, Noted, Causes
<1> QED BY <1>1, <1>2, <1>3, <1>4, <1>5, <1>6, <1>7 DEF Next, App

\* download_task.dart:219-225: a task fails only after one of the causes listed:
\* a fault of the network, the server or the disk, a process that ended between
\* two deletions, two runs at once, or a chunk in hand when its run was stopped,
\* whose write or commit landed late.  The last needs no fault of anyone but the
\* app's pause and resume, and so is an exception to "nothing fails by itself".
\* That a failed task was started again is not the first cause of a failure.
THEOREM FailuresHaveCauses == Spec => []FailureHasCause
<1> DEFINE Blameless == mishaps \cap Causes = {}
           Step == Blameless => mishaps = {} /\ Sound
<1>1. Init => Step
  BY DEF Init, NoTask, NoJob, Sound
<1>2. Good /\ (Alone => One) /\ (~Undone => Cursor /\ Fills) /\ Filed /\ Dests /\ Step
        /\ [Next]_vars => Step'
  <2>1. SUFFICES ASSUME Good, Alone => One, ~Undone => Cursor /\ Fills, Filed, Dests,
                        Step, [Next]_vars, Blameless'
                 PROVE  mishaps' = {} /\ Sound'
    OBVIOUS
  <2>2. mishaps = {} /\ Sound
    <3>1. mishaps \subseteq mishaps' /\ Causes' = Causes
      BY <2>1, MishapsStay DEF Causes
    <3>2. Blameless
      BY <2>1, <3>1
    <3> QED BY <2>1, <3>2
  <2>3. One /\ Cursor /\ Fills
    BY <2>1, <2>2 DEF Alone, Undone
  <2>4. mishaps' = {}
    <3>1. mishaps' \subseteq Causes
      BY <2>1, <2>2, FirstMishap
    <3>2. mishaps' \cap Causes = {}
      BY <2>1 DEF Causes
    <3> QED BY <3>1, <3>2
  <2> QED BY <2>1, <2>2, <2>3, <2>4, SoundNext
<1>3. Step => FailureHasCause
  BY DEF Sound, FailureHasCause
<1> HIDE DEF Step
<1> QED BY <1>1, <1>2, <1>3, AlwaysDests, PTL DEF Spec
=============================================================================
