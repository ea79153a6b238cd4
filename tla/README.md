# SipLLM in TLA+

SipLLM runs language models in bounded memory: the layers of a model are
streamed from disk through a small ring of buffers while they are computed.
This directory holds TLA+ models of the parts of the C++ engine and of its Flutter
plugin where threads, processes, failures and stale state meet, TLC runs over
small instances, and proofs that TLAPS checks. Paths below are relative to the
repository.

## 1. Inventory

### Parts and how they interact

```
 clients --submit--> Scheduler --one task at a time--> Runtime.generate
                                                         |   |      |
                     Session file <--save/load-----------+   |      +--> SpecDecoder (drafts)
                                                             |      +--> SemanticCache
                                   Transformer.forward / prefill / spec_forward
                                      |            |              |
              loadLayer/getWeight     |   KVCache rows            |  parallel_for
                                LayerLoader                   ThreadPool
                                      | read_raw
                          WeightSource (file, mmap, remote)

 plan_memory --ceiling, buffers--> LayerLoader          coordinator ==TCP== workers (LAN)
 Nishachar agent loops --prompt--> Runtime.generate --text--> tool call --> tool

 Flutter: app -- SipllmRuntime, SipllmAgent == commands, replies == worker isolate
                      \______ cancel flag ______________________/  (C ABI, AgentSession)
          app -- DownloadManager -- DownloadTask == HTTP ranges, part files, sidecar
          phone's app -- WearModelTransfer == channels == WearModelTransfer -- watch's app
```

| Part | State | Operations | What is hard |
|---|---|---|---|
| `LayerLoader` (`loader.h`, `loader.cpp`) | ring of slots (label, state, ticket, buffers), pinned slots, job queue, current and active slot | constructor, `loadLayer`, `getWeight`, worker loop, destructor | two threads, fills without the mutex, stale jobs, read errors half way, two condition variables |
| Passes (`transformer.cpp`) | residual stream, position | `forward`, `prefill`, `spec_forward`, `run_layers`, `forward_multi` | the order in which rows are written and attended to |
| `ThreadPool` (`threadpool.h`) | generation, remaining, sleepers, the loop's fields | `parallel_for`, worker loop, destructor | lock-free hand-off, spin then sleep, fields read without the mutex |
| `Scheduler` (`scheduler.cpp`) | queue, two flags, promises | `submit`, `submit_fn`, `start`, `stop`, worker loop | flags outside the mutex, stop against submit |
| `Runtime` (`runtime.cpp`) | position, committed tokens | `generate`, `reset`, `save_session`, `load_session` | prefix reuse, drafts, a pass that throws |
| `KVCache` (`kv_cache.h`) | rows of full and of ring layers | `k_ptr`/`v_ptr`, `can_rewind`, `first_valid`, `inject`, growth | a ring overwrites what a rewind needs |
| Session file (`session.cpp`) | the file | `session_write`, `session_read` | truncated in place |
| `SemanticCache` | radix tree, LRU list, byte count | `find_longest_prefix`, `commit`, eviction | split and eviction keep rows, bytes and list in step |
| LAN pooling (`lan.cpp`) | connections, the workers' KV rows | HELLO, RUN, RESULT, ERROR, BYE | timeouts and late answers, failed workers, coordinators that compete or crash |
| Remote weight source | block cache, socket | `read_raw_at`, metadata | a failed exchange leaves the socket out of step |
| Chat of `main.cpp`, HTTP server | history, fed text; profile sink | turns; handlers on the scheduler | failed turns; references that outlive a handler |
| Download task and manager (Flutter) | part files, sidecar, permits, task state | enqueue, pause, resume, cancel, one loop per run, one handler per segment | awaits between any two steps, restarts, late writes |
| Wear transfer (Kotlin) | send state, flags, task queue; the watch's partial file | send, listen, pause, resume, cancel; stream out, receive | a partial file and a position agreed anew on each channel; flags of one thread read by another |
| Runtime and agent (Flutter), C ABI | busy and closed flags, command queue, cancel flag, native session | generate, embed, run, cancel, dispose, close; the worker's commands | two isolates, a worker that dies, a flag that reaches past the queue |
| Memory planner and pinning | sizes, the plan, the ceiling | `plan_memory`, the `Runtime` constructor, `plan_and_pin_layers` | two ledgers that must agree; arithmetic at the ceiling |
| Nishachar (`nishachar.cpp`) | transcript, guard counters | `run`, the native loop, its guards, the thought block of a step | long alternations of calls, errors, nudges and answers |
| Kernels, formats, tokenizer, tools, vision, device profile | none between calls | | numerics and text, not protocols |

### What makes each part correct

* Loader: what `getWeight` hands out is the layer asked for, in full, until the
  next call; a read error is reported and can be retried; every call returns;
  the passes' order of calls reads each streamed layer once and one layer ahead.
* Thread pool: each item goes to the body exactly once and nothing past the last does, nobody touches the loop's
  fields or body after `parallel_for` returned, no wakeup is lost.
* Scheduler: each accepted task is answered exactly once.
* Runtime, cache and session: the rows a position attends to are those of the
  tokens before it, whatever was reused, drafted, rejected, saved or loaded.
* Memory plan: the best configuration that fits is taken, and what the loader
  then holds stays within the budget the plan was made for.
* LAN: splitting the layers changes no result; every wait ends and every worker
  comes free, whoever crashes.
* Download: a completed file is the resource; what the sidecar counts is on
  disk; permits are neither lost nor given twice; a failure has a cause; a stop settles.
* Wear transfer: however often it is interrupted, the watch's file is built of the
  right bytes in the right places, and its verdict on the whole is right.
* Isolates: one caller on the native context at a time, nobody waits for a dead
  worker, nothing native is used after it was freed.
* Agent loops: an identical call is not run again and again, a run ends, and an
  answer is accepted only when it was earned.

The hazards of `PROJECT.json` list, by line, where these could fail.

## 2. Modules

| Module | Models | Abstract specification |
|---|---|---|
| `WeightService` | what the loader promises | - |
| `LayerLoader` | ring, worker, tickets, `loadLayer`, destructor | `WeightService` |
| `ForwardPass` | the passes as the loader's caller (composes with `LayerLoader`) | |
| `Loader_proofs` | theorems on `LayerLoader` and `ForwardPass` | |
| `ParallelLoop` | what `parallel_for` promises | - |
| `ThreadPool` | the pool, one step per atomic access outside a section under `m_` | `ParallelLoop` |
| `Scheduler` | queue, worker, owner and clients | |
| `Scheduler_proofs` | theorems on `Scheduler` | |
| `PrefixRows` | rows held per prefix (operators) | |
| `PrefixStore` | what the semantic cache promises | - |
| `SemanticCache` | radix tree, LRU list, byte count | `PrefixStore` |
| `SemanticCache_proofs` | theorems on `SemanticCache`, and that it implements `PrefixStore` | |
| `Runtime` | `generate` over KV cache, passes, prompt lookup, semantic cache and session file | |
| `MemPlan` | planner, constructor and pinning, as one sequence of decisions | |
| `Runtime_proofs` | theorems on `Runtime`, and on an instance of `MemPlan` | |
| `ThreadPool_proofs` | theorems on `ThreadPool` | |
| `Lan` | coordinators, workers and connections | |
| `Lan_proofs` | theorems on `Lan`, and on an instance of `WearTransfer` | |
| `Download` | tasks, their loops and handlers, the disk, the permits | |
| `Download_proofs` | theorems on `Download` | |
| `DartRuntime` | UI isolate, worker isolate, C ABI, `AgentSession` | |
| `Nishachar` | `Nishachar::run` | |
| `NativeLoop` | `run_gemma4_native` with its guards | |
| `StepTokens` | the thought block of one step of the native loop | |
| `AgentLoops_proofs` | theorems on `NativeLoop`, and on instances of `StepTokens`, `Nishachar` and `DartRuntime` | |
| `WearTransfer` | phone, channels, watch | |
| `MC...` | the same modules with the definitions a run needs | |

Definitions whose comment begins `Mutant:` (`OtherSlotSame`, `SkipRemaining`, ...)
are wrong on purpose: each stands beside the definition it spoils and shows
that some property notices.

### LayerLoader

One caller, one worker. Everything done under `mutex_` is one step; a fill is
one step per role, because the caller computes meanwhile. `cpc` is where the
caller is: `using` between the return of `loadLayer` and the next call, `asleep`
and `woken` in `cv_ready_.wait`, `reading` in the synchronous path. `wpc` is the
line the worker is at: `loop` (about to evaluate the predicate of `cv_job_`),
`asleep`, `fill`, `mark` (the fill is over, the mutex not yet taken), `notify`.
A thread on a condition variable sleeps until a notify, or a spurious wakeup,
makes it evaluate its predicate again. A buffer holds, per role, the layer it was
read from, `NoLayer` for a torn read; so mixed weights are visible. `pinned` is
any leading run of the node's layers, which is what the constructor's GPU
placement and budget planning produce.

`WeightService` has no buffers: a call is answered with one layer's weights, or
refused. The mapping shows `buf[active]` as the view while the caller uses it.

### ForwardPass

The four loops over layers of `transformer.cpp` are the same walk: layer by layer
upward, from the first again after the last or after an exception. Under this
caller, and not under an arbitrary one, the job queue is bounded and the
prefetch is always right. `NoWastedRead` and `StatsUnshared` say how many cold
layers that takes: with fewer of them than buffers a prefetch may load the
layer that is being used, into another slot. `Regular` names the rings in which
the slots are claimed in turn; section 5 says what happens in the others.

### ThreadPool

`pc[0]` is the caller, `pc[w]` a worker. Sequential consistency is what the code
asks for (every access that matters uses the default memory order; `next_row_`
is relaxed but only a counter). A plain field is read at the start of the
chunk's step, so `FieldsStable` states that no step that reads the fields can
overlap one that writes them. The caller's sections under `m_` span steps, a
worker's are one step each and wait until the caller has released it. Describing a
loop (plain fields and `next_row_`) is one step: no worker looks before the new
generation.

`done` counts how often the body got each item in the current call, and one item past
the longest loop. The abstract loop keeps the same counts (`given`), and
its only step that changes them inside a call takes items of `0 .. total-1` with count 0
to 1. So an item handed out twice, or one past the last, is a step the
abstract loop cannot take.

### Scheduler

`submit` is three steps (flags, push under the mutex, notify), `stop` four
(flag, notify, join, `running_`), `start` three. The worker's test of its
predicate and its going to sleep are two steps with the mutex held, since
`stop` does not take it. A task stands for its future.

### SemanticCache

A node is a number with the fields of `RadixNode`; children and parent are kept
apart, as in the code, so that a link can be wrong. The mutex is held for a
whole call, and a step is one iteration of one of its loops: `FindStep`,
`CommitDescend`, `CommitSplit`, `CommitInsert`, `EvictLeaf`. A node's bytes are
proportional to its tokens, so bytes and budget are counted in tokens. A row is
the tokens it was computed from. `PrefixStore` knows only which prefixes are
held: a lookup finds the longest, a commit adds all of its prefixes and, above
the budget, forgets ends of sequences. `Rows` maps the tree to it. What eviction
takes is said by `RecentKept`, with two history variables. The code's fallback
for a list without leaves has no action: were it ever needed, the run would
deadlock.

### Runtime

A KV row is the sequence of tokens it was computed from; a row computed over
rows that are not its own history is `<<>>`. So "the cache is right" is an
equation between rows and committed tokens, and needs no numbers. `kv.full`
stands for all layers that keep the whole context, `kv.ring` for all
sliding-window layers with one window. A pass that fails leaves each kind of
layer either old or torn. A sampler may return any token, so both acceptance and
rejection of a draft, an end of generation and a stop by the callback happen
everywhere. The semantic cache is the store of `PrefixStore`: `Hit` consults it,
`Injected` copies its rows, `Remembers` commits to it at the end of a call, and
may keep any part of it that the budget holds. `broken` remembers that a call left rows
of other tokens: a failed decode pass, and over a ring also a prefill that fails or is
refused behind a rewind (`LosesRows`). A restart may come at any point and leaves only the session file,
which a cut write leaves unreadable.

### MemPlan

Three pieces of code that each do a sum over the same bytes. `Candidates` is what
the loops of `plan_memory` collect, `Score` its ranking, and `Plan` picks a best
one (ties are broken either way); `Refuse` and `Override` are the two ways out
when nothing fits. The `Runtime` constructor turns the plan into a ceiling, a
ring depth and a context; `Size`, `Pin` and `StopPinning` are
`plan_and_pin_layers`. `Estimate` is what the loader thinks a layer takes,
`Actual` what it takes once read, `Layer` what the planner thought; the three
may differ, and the theorems say which of them must agree.

### Lan

A coordinator (`coord[c]`) walks its workers one after the other with one RUN
each; a worker (`worker[w]`) accepts one connection, serves it to its end and
accepts the next. A connection is two queues and who has closed it. What a pass
computes is its stamp, a KV row the stamp of the pass that wrote it, and `right`
says whether the coordinator's residual is what one machine would have computed.
So "splitting changes nothing" is an equation between the rows of coordinator
and worker. `JUNK` is a message read out of step after a timeout; `owed` names
the connections on which a timeout has left an answer to come.

### Download

A step runs from one `await` to the next, which is what Dart's event loop makes
atomic. `loop[r]` is the r-th call of `_runLoop`, `job[r][s]` its handler of segment
`s`; a `task` is a `DownloadTask`, and the app may start one after another over
the same files. `hand` is what a handler that was aborted has still in flight: a
write or a commit that lands later. The disk is the part files, the sidecar and
the destination; `Crash` keeps the disk and nothing else. A byte is its index, so
a file that is right equals the resource.

`mishaps` is a history variable: what has gone wrong outside the task, or what
the app has done that the code does not guard against. The properties name the
entries they except, and hold for everything else:
`overlap` (two runs over the same files, possible when the app resumes without
waiting), `revived` (a failed task resumed: its parts are deleted, its counts are
not), `late` (a write or commit that lands after its run), `cut` (the process
ends between deleting the parts and the sidecar), `whole` (the server answers a
range with all bytes), `short` (a single stream ends early), `disk`, `error`.

### DartRuntime

The UI isolate handles one event at a time, the worker one command at a time;
between them is a queue of commands, and one reply at most is under way because
each request has its own port. `op` is what the UI isolate awaits (an agent's run
goes through `start`, `step`, `tool`, `submit`), `closing` where `close()` is, and
`exitNotice` the worker's death on its way to the UI isolate. `flag` is the
native cancel flag, the only thing that reaches past the queue. `session` is
`AgentSession`: `ready` for a step, `awaiting` a tool's result, or `ended`. The
worker may die at any point, by an uncaught error or the kill of `CloseTimeout`.

### Nishachar, NativeLoop, StepTokens

One action is one iteration of the loop: what the model writes is external, so
an iteration takes any output the parser can classify. `steps` is `result.steps`,
from which the properties are read; `lastSig`, `repeat`, `nudged` and the guards'
counters are the code's own variables. `NativeLoop` keeps the two guards of the
native loop apart as the code does: `Edit` and `Check` are `on_tool`, `Junk`,
`GiveUp` and `Remind` are `on_no_call`, `Error` is `FailedCallTracker`.
`StepTokens` is one level down: the tokens of one step, with the bans of
`StepTokenGuard::filter` as guards.

### WearTransfer

`jobs` are the `SendState` objects (a queued resume refers to one, which an earlier
run may have moved on), `todo` the phone's executor queue, `pc` where its io thread
is: opening, waiting for the ack, streaming. Each attempt appends a channel to
`chans`, with the ack and the bytes still in flight; `Close` takes a channel down and
may swallow the tail of them. The watch takes the channels it was told of in their
order (`next`), one at a time, and `dest` is its file. The source is external and may
be rewritten between any two reads, so `Write` takes the next bytes of any version.
Position is never carried from one channel to the next but by `Greet`, which reads
it off the length of `dest`; that this is enough is what the theorems say.

## 3. Runs

| Run | Instance | Shows |
|---|---|---|
| `layer_loader` | layers 1..3 of a range that starts at 1, 2 buffers, 2 roles, 4 calls | typing, `ConsumerSafe`, `ReadyIsWhole`, `NoLostClaim`; every call and the destructor return; implements `WeightService` |
| `forward_pass` | 5 layers, 3 buffers, 13 calls | `JobsBounded`, `NextIsOnItsWay`, `StatsUnshared`, `NoWastedRead` |
| `thread_pool` | 3 threads, up to 5 items, 2 calls, chunks 3 / proportional / at least 2 | `FieldsStable`, `BarrierCounts`; calls and destructor return; implements `ParallelLoop` |
| `scheduler` | 3 tasks, queue of 2, one restart | `QueueBounded`, `NoTaskMislaid`, `AnsweredOnce`, `AcceptedIsAnswered` |
| `scheduler_stop` | the same | **violated**: `stop()` may never return |
| `scheduler_drain` | the same | **violated**: a future may stay open after `stop()` |
| `semantic_cache` | 8 sequences over 2 tokens, budget of 4 tokens | `BooksAgree`, `RecentKept`; implements `PrefixStore` |
| `runtime` | 2 tokens (one ends a generation), context 6, prompts up to 3, 2 turns; five setups | `KeepsMirror`, `LogitsFromHistory` |
| `download` | seven setups of one or two segments, up to 3 bytes, two runs (below) | `PermitsConserved`, `SidecarBacked`, `FailureHasCause`, `CompletedIsRight`, `CancelLeavesNothing`; stops settle |
| `lan` | two workers, two coordinators (one may not fit), context 3, passes of 1 to 3 tokens against frames of 2, 3 passes, one fault | `SplitIsExact`; waits end, workers are freed |
| `kv_after_failure` | full layers, decode may fail | **violated**: committed tokens and cache differ after a failed pass |
| `spec_on_ring` | ring of 2, drafts of 2 | **violated**: tokens sampled over overwritten rows |

### Bounds and why they are enough

* `layer_loader`: two buffers are the default; three layers and two buffers make
  hits, waits, misses with a victim, and stale jobs (a miss that claims a slot
  whose prefetch is queued) all occur within four calls. One leading run per
  length is pinned, so the synchronous, fully pinned and mixed loaders are all
  initial states. A range that starts at 1 tells an absolute layer number from
  one relative to the range.
* `forward_pass`: thirteen calls over five layers are two passes and three layers
  of the third, or more passes when some are abandoned; three buffers tell "the next
  slot" from "the other slot", and five layers with none, one or two of them pinned
  leave more cold layers than buffers, in regular rings and in others.
* `thread_pool`: three threads give two workers that can be at different places
  of the same loop; two calls let a worker of the first meet the second. Five
  items and chunks of 1 to 3 make uneven last chunks of the static and of the dynamic
  split, chunks larger than the loop and empty shares.
* `scheduler`: three tasks against a queue of two reach the limit, and leave one
  to be run meanwhile; one restart lets a task of the first life meet the second.
* `semantic_cache`: the sequences share one or two tokens, contain each other or
  share nothing, so that a commit descends, splits at either token, ends inside
  a node or at its end; one is longer than the budget and empties the cache, and
  many pairs of the others do not fit together. The number of calls is not bounded.
* `runtime`: the context of 6 is reached from both prefill and decode; a ring of
  2 or 3 wraps; n-grams of 1 and 2 give drafts that are accepted, cut and
  rejected; two turns let a second call reuse, rewind or follow a failure.

* `download`: a second run of the same files is what resume, restart and overlap
  need. Two segments with one permit take turns, with two they run at once; three
  bytes over two segments make the last one longer. Each setup allows the faults
  whose handling it is about, so that the causes of a failed task are told apart.
* `lan`: two workers make a pass cross three machines, and the second worker's
  rows depend on the first's; two coordinators compete for a worker, and the one
  that does not fit is refused. Passes of 1 to 3 tokens fill the context of 3, rewind
  it and overrun the frame. One fault (a crash, a failed pass or a timeout) and
  three passes are enough for a pass before, during and after it.

### Fairness

Weak fairness of each thread's steps: the operating system runs a thread that
can run. Not assumed: that anyone calls `loadLayer`, submits, stops or destroys,
and that a condition variable wakes without a notify, so a lost wakeup is seen
as a behaviour that hangs. The thread pool adds strong fairness of a worker's
taking `m_`, because a caller that is woken for nothing may retake the mutex
without end; a mutex that starves a thread for ever would be needed to break it.
`Runtime` has safety properties only. The scheduler's run allows the system to
rest, for its owner may leave it stopped with every task answered; so do
`download` (all tasks over) and `lan` (all coordinators gone).

In `Download` the event loop, the disk and the handlers go on. The server owes nobody
anything: neither the answer to a request (no code waits for one with a timeout;
`hf_download_manager.dart:82` limits the connecting only), nor a stream's next chunk, its
end or its failure. So `StopsSettle` is about streams that fall silent. It excepts a task
whose request stays unanswered for ever (`Awaits`, section 5), the single stream,
which looks at `_stopRequested` only when a chunk comes (`runSingle`), and two runs
at once, of which one may wait for the other's permit. In `Lan` processes run, TCP
delivers, and the 10 seconds of a handshake pass; the 300 seconds of a RUN are not
assumed to, so `WaitsEnd` shows that no failure the model knows has to wait for them.

## 4. What is proved

`Loader_proofs` proves, for every range of layers, number of buffers, roles
and calls allowed by `ConfigAssumption` (a non-empty range, at least one buffer
and one role):

* `TypeCorrect`: `Safety => []TypeOK`;
* `ReadySlotsWhole`: `Safety => []ReadyIsWhole`;
* `ConsumerIsSafe`: `Safety => []ConsumerSafe`;
* `NoClaimLost`: `Safety => []NoLostClaim`;
* `LoaderRefinesService`: `Safety => Service!Safety`, the loader's steps map to
  steps of `WeightService` or stutter.

None of the safety invariants is inductive alone. The invariant that is
(`Invariance`, `IInv`) is the types, `RingInv` and `CallerView`:

* `PinnedWhole`: a pinned slot holds its layer for good; `NoRing`: without a ring
  there is no worker and no job, and slot 0 has a label only when it is Ready;
* `WorkerOwns`: while the worker fills or marks a slot, the slot is Loading, its
  ticket is at least the job's, an equal ticket means the same label, and the
  roles read so far hold the job's layer;
* `JobsLive` and `JobsDistinct`: the same of the jobs in the queue, and no claim
  has two jobs, in the queue or in the worker's hands;
* `CallerView`: the slot in use is pinned, or Ready with the wanted label; the
  slot awaited bears the wanted label; the synchronous path has slot 0 to itself.

The argument: every claim bumps the slot's ticket, so a slot has at most one live
job; a slot being filled is Loading, hence never the Ready one in use; and a slot
becomes Ready only when all its roles hold the job's layer. The proof has one
lemma per action. `NoClaimLost` is an invariant over this one: a step that makes a
slot Loading queues its job, and a step that takes a job out of the queue or out of
the worker's hands settles the slot, unless a later claim has queued another.

Of `ForwardPass`, for the same constants and any number of pinned leading layers:

* `PassIsACaller`: `PassSpec => Safety`, so all of the above holds under a pass;
* `NextAlwaysOnItsWay`: `PassSpec => []NextIsOnItsWay`, for every ring;
* `PassBoundsJobs`, `PassSharesNoStats`: `PassSpec => [](Regular => JobsBounded)` and
  `[](Regular => StatsUnshared)`;
* `PassWastesNoRead`: `PassSpec => NoWastedRead`.

`PassInvariance` adds to `IInv` where the pass is, that the pinned layers are a
leading run, and that no two slots bear one label. From the last,
a call for the layer the pass streams next finds the slot the last call prefetched.
`PassOrder` is about regular rings: at most one read is under way when the pass
claims (`Calm`), because each call waits for what the one before it requested; and
the layers stand in the ring in the order of the pass. With a buffer for every cold layer
each layer has its own slot (`Layout`). With fewer buffers two labels are no nearer in the
ring than on the way of the pass (`Spread`), and in a ring without pinned layers the
slots behind the current one hold the layers just streamed (`Trail`). A claim that
reread a held layer would have its label twice, or nearer than the pass is to it.

`Scheduler_proofs` proves, for any finite set of clients, any limit and any number
of restarts:

* `TypeCorrect`: `Safety => []TypeOK`;
* `QueueKeepsLimit`: `Safety => []QueueBounded`;
* `NothingMislaid`: `Safety => []NoTaskMislaid`;
* `PromisesSetOnce`: `Safety => AnsweredOnce`.

Its invariant says where a task may be. A task that submit has not pushed is
neither queued nor running (`ClientView`), a queued one is not running
(`QueueView`) and is queued once (`QueuedOnce`), and in each of these places its
promise is open (`WorkerView` for the running one). Whoever sets a promise, the
worker, the drain or a refusing submit, takes the task from one of these places,
so the promise was open. `OwnerView` says that a joined worker is gone until
`start` makes another, without which not even the types are inductive. Two lemmas
say what `Append` and `Tail` do to the tasks of a queue.

`ThreadPool_proofs` proves, for any number of threads, items and calls:

* `TypeCorrect`: `Safety => []TypeOK`;
* `FieldsAreStable`: `Safety => []FieldsStable`;
* `BarrierIsExact`: `Safety => []BarrierCounts`.

`remaining_` and `sleepers_` are counters updated by every thread, and nothing in
one step says that they stay in range. `SleepersCounted` and the protocol
invariant tie each to the cardinality of a set of workers: while a call is open,
`remaining_` is the number of those that have the current generation still to
finish (`Unfinished`), and `sleepers_` is the number of those asleep or about to take
the mutex again. With that, a worker at work implies
`remaining_ > 0`, hence a caller that has not returned, hence stable fields.
That each item is handed out once is checked (`ImplementsParallelLoop`), not proved.

`Runtime_proofs` proves, for any vocabulary, context, ring window, draft and n-gram
lengths, budget of the semantic cache and number of turns (`RuntimeAssumption`):

* `TypeCorrect`: `Spec => [](Exact => TypeOK)`;
* `KVMirrored`: `Spec => [](Exact => KeepsMirror)`;
* `LogitsExact`: `Spec => [](Exact => LogitsFromHistory)`.

`Exact` leaves out two kinds of setup, in which the last two do not hold: drafts over a
ring (`spec_on_ring`), and a semantic cache beside failing decode passes, which is given
torn rows (section 6). A setup never changes, so this restricts the runtime and not
the behaviours of one. `KeepsMirror` is not inductive. A prompt that shares less
with the conversation rewinds, to a position that attends to rows before it; so the
invariant keeps, in place of the rows the next position attends to (`Mirrors`), all that
a ring has not let go of yet (`Held`, one row more). The argument:

* a position computes from its whole history over the rows of that history
  (`ContextIs`), and writing its row there makes `Held` one longer, for the row whose
  slot it takes is the one `Held` lets go of (`WriteHolds`);
* hence `FeedRight`: a pass of any length over the right rows leaves the right rows
  and every position computes from its whole history. `Feed` is a recursive function;
  `FeedRuns` takes it apart token by token, and the induction over the batch is one
  over a set of numbers (`UpTo`), which needs no operator as a parameter;
* a call starts from rows of a prefix of the prompt, or of the conversation it
  continues (`StartRight`): `can_rewind` lets go of at most the one row more
  (`HeldPrefix`), and the rows of a hit are rows of the prompt (`StoreRight`,
  `HitIs`);
* of a draft the accepted tokens are in the history and their rows right; the rows
  of the others lie behind the position (`AcceptedRight`);
* a session file holds what `Held` says (`SavedRight`), and loading puts it back:
  the positions of one window have different slots (`SlotsDiffer`).

`Cached` says that a runtime with a semantic cache has no torn rows to give it. There is
one lemma per action; `BackIs` deals with the calls that end before they write a row.

The same module proves of an instance of `MemPlan` (`Memory`), assuming `SizesOK`
(sizes are natural numbers, at least one layer, at least one buffer asked for) and, for the last two, `LayersFitBlk0` (no layer
is larger than `blk.0`, by which the planner prices all of them):

* `TiersAreStrict`: for stacks of fewer than 1000 layers the weights of the score
  are lexicographic, longer context first, then all pinned, resident head, two
  buffers, more pinned layers;
* `LongestContextWins`: no configuration that fits has a longer context than the
  one chosen;
* `MemoryTyped`: `Spec => []TypeOK`;
* `CeilingGuarded`: tables, pinned layers and reserved ring stay under the weight
  ceiling while anything is pinned, with no assumption on how large the layers
  turn out to be;
* `BudgetKept`: what is held is at most the budget and `Unseen`, the two
  allocations that the loader's own sum leaves out (section 5);
* `PlanKept`: the loader pins at least as many layers as the plan reported.

The step from plan to loader is the point: the loader does not get the plan's
number of layers but a ceiling, and chooses again with its own sum. The invariant
carries the plan's inequality (`Total(plan) <= Budget`) into the loader's.

`SemanticCache_proofs` proves, for any vocabulary, any budget and any set of prompts
(`SemanticCacheAssumption`):

* `Typing`: `Spec => []TypeOK`;
* `BooksKept`: `Spec => []BooksAgree`;
* `RecentStays`: `Spec => []RecentKept`;
* `Implements`: `Spec => StoreSpec`, every step of the tree is a step of `PrefixStore` or
  leaves the store alone.

All four come from one invariant (`Inductive`), in three parts.

* `BooksInv`: the nodes form a tree (`Tree`: finitely many of them, children and parents
  agree, and above a node there is a way up to the root), the list has each node once,
  and the count is the number of prefixes held. That the last is also the sum of the nodes' lengths,
  which is what `current_bytes_` adds up, is `LengthsHeld`, by induction over the set of
  nodes; it needs that no two positions in the tree have the same tokens (`Clash`).
* `CallInv`: the node the loop is at ends the first `i` tokens of the query, and a
  lookup has found their rows. Following a sequence down the tree ends where no longer
  prefix of it is held, because siblings begin with different tokens; so what a lookup
  answers is the longest prefix held, and what a commit inserts is new.
* `UsedInv`: what `RecentKept` needs. It speaks of prefixes, and eviction of nodes that
  hold many. So the invariant says that the nodes the call in progress passes, and
  those that the one before passed, stand ahead of all others in the list (`Ahead`), whatever
  was split since, and that what a call used ends where a node ends (`WholeIn`): a commit
  that stops inside a node splits it, and a lookup that does marks all of it. The leaf
  evicted is the last in the list. Were it a node these calls used, then every leaf
  would be, and the tree would hold nothing else, which the budget has room for
  (`OldestIs`). The same lemma says that a tree that holds anything has a leaf, so the
  code's fallback for a list without one is never reached.

What a split, a new leaf and an eviction do to tokens, rows, list and passed nodes is
stated for any tree `t` and what becomes of it, `u` (`SplitDone`, `GrowDone`, `PruneDone`), and
used for each action that does one. `PathOf` is a recursive function of the model; that it
has a value at every node, and only one, is proved from the way up to the root (`Ranked`).

`AgentLoops_proofs`, of `Nishachar`, for any set of calls and any setting of the guards:
`TypeCorrect`; `GuardIsExact` (`NeverSpins`, `LoopIsALoop`); `NoIdleAnswer`
(`AnswerIsEarned`); `TranscriptIsTheRecord` (`TranscriptFollows`). The invariant
`Trailing` says that `lastSig` and `repeat` describe exactly the equal calls at the
end of the steps. Of `NativeLoop`, for any bounds and any set of errors:
`AnswersFollowChecks` (`DoneWasChecked`, `RemindersAreEarned`), `NudgesAreBounded`,
`CountsAreTrue`; and, of an instance of `StepTokens`, `ThoughtsAreBounded` for any
budget, prefilled or not.

The same module proves of an instance of `DartRuntime` (`Dart`), for every step limit and
both settings of `stop_on_tool_error`:

* `DartTypeCorrect`: `Spec => []TypeOK`;
* `ContextOutlivesItsUse`: `Spec => []FreedIsUnused`;
* `OneCallerAtATime`: `Spec => []NotBusyIsIdle`;
* `EveryWaitIsServed`: `Spec => []NobodyWaitsInVain`;
* `LoopAndSessionAgree`: `Spec => InStep`, so the refusals of the native session
  (`sipllm_ffi.cpp:433-445`, `509-518`) are never met by the Dart code.

The invariant is about the queue: at most one request is in it, under way or
answered (`OneRequest`); `free` stands behind every request of the run it ends
(`Disposal`); and whatever request is in the queue finds the session in the state
it needs (`Agreement`). Two lemmas say what a send and a take do to a queue, and
there is one lemma per action.

`Download_proofs`, of `Download`, for every setup (`DownloadAssumption`: any number of
bytes, connections, permits and runs, any faults, an app that waits or does not):

* `TypeCorrect`: `Spec => []TypeOK`;
* `PermitsKept`: `Spec => []PermitsConserved`;
* `NothingKept`: `Spec => CancelLeavesNothing`;
* `ResumeCursorHolds`: `Spec => []SidecarBacked`;
* `CompletedFilesAreRight`: `Spec => CompletedIsRight`;
* `FailuresHaveCauses`: `Spec => []FailureHasCause`.

These are all the safety properties the run checks. The invariant has layers, each with
a theorem of its own under the ones below it, and each guarded by the mishaps that
really break it. `Good` (types, ranges, `Linked`, `Pool`) holds always.

A permit changes hands in four ways: a run asks for several at once (`SpreadIs`), a
handler passes its own on or returns it (`ReleaseIs`), a handler moves on with it
(`JobMoves`), or the process ends. Three facts about the whole keep these apart from what
the app does meanwhile (`Linked`): a run that has not come to its parts has no handler, so
asking never overwrites one that holds a permit; a handler's task knows its offsets; and a
run that is free is nobody's task, so a new task takes nothing from another. The queue
has no repetition (`Distinct`), or its head could be given two permits.

`Order` says that runs are numbered as they start, and `One` (unless two tasks overlapped)
that only the newest is at work, what its task's registers may then be, and that a
cancellation deletes once every run is off. Without it a handler left over could write to
a part another run has just measured. With it, what a cancellation deletes stays deleted
(`Erased`), unless a write or a commit lands late.

`Cursor` is the resume cursor (unless `Undone`): each part is as long as its task
believes and begins as the resource does (`Exact`); a handler reads where its part ends
(`Moving`), so a chunk extends what is there; what a readable sidecar counts is on disk
(`Backed`). That last part is not inductive by itself: a sidecar may be written later from a
snapshot taken now, or be read back after a crash, so both must lie behind the task's own
offsets (`Snapped`, `Behind`), which only grow while a run holds the parts.

`Fills` says that a handler which returns unstopped has filled its segment, unless a
stream was cut short; `Filed` that the parts are a function of their segments. Together with
`Cursor` they give what `_assemble` concatenates (`Concatenated`), and with the length
or the digest what a run keeps (`Proven`). That the segments of `Split` partition
the resource, and that right parts concatenate to it (`PartsMake`), is a fact about
`FlattenSeq`; it is proved from a least counterexample (`LeastOf`, `FlatExists`)
in place of an induction. `Sound` follows: while there is no mishap, no handler has an error and no
task has failed, as every length and digest that is compared is right. The first mishap is
one of `Causes` (`FirstMishap`), for a failed task that is started again has failed before.
`Causes` is a list of exceptions as much as of faults: beside the network, the server and the
disk it has the process that ended between two deletions, two runs at once, and the
chunk in hand at a stop that lands late, which the app brings about by
pausing and resuming (section 5). What the theorem excludes is a failure without any of
these, whatever is paused, resumed, cancelled, ended and started anew, and in what order.

TLC checked these layers as invariants of the `download` instance before they were proved.

`Lan_proofs`, for any number of workers and coordinators, any context, frame and batch
sizes, and any number of passes and faults (`LanAssumption`):

* `TypeCorrect`: `Spec => []TypeOK`;
* `SplitExact`: `Spec => []SplitIsExact`.

Neither is inductive. What a coordinator and a worker have agreed on can be spoilt by
another coordinator's pass, by the worker's restart or by an answer that is not the one
awaited, so the invariant has to say why none of these happens on a connection that is
not shut. It has a part for each pair of a coordinator and a worker (`Pair`):

* `Owned`: a connection that is shut, or not yet tried, is one the worker neither serves
  nor has waiting; with `Busy` (no coordinator waits twice), what a coordinator
  finds at a worker it still has is its own doing, whoever competes for it;
* `Greeted`: the handshake is asked, answered, or over, and at no time two of these;
* `Served`: to a coordinator that owes nothing to a timeout, a connection in use is empty,
  but for the one it waits for (`Underway`), where exactly one of the RUN, its
  computation and its RESULT is to be found; and worker and coordinator agree on the rows
  below `Upto`, which is `pos` until the worker has answered and the end of the
  pass from then on.

`Sound` says of the coordinator that the rows of the pass carry its stamp, which is what
a worker writes for it. That the RESULT is right then follows from the agreement:
the RUN names the coordinator's rows below `pos`, and the worker has these (`PrefixAgrees`).
A step of a coordinator is its own pairs' business (`CoordinatorActs`), a step of a worker
its peer's (`PeerActs`); `FarAway` is the frame of all other pairs.

The end of the module is about an instance of `WearTransfer`, for any contents of the
source (`Settings`: sequences of bytes) and any number of attempts: `WearTyped`;
`ResumeIsSound` (`BytesInPlace`,
`PositionsAgree`); `VerdictIsRight` (`CompletedIsExact`, `UnchangedIsAccepted`). That
bytes are in place is not inductive: the bytes in flight must be in place behind
the file (`Received`), which holds because a channel that is up is the phone's last
one and, once answered, the one the watch serves, at the same position (`OneChannel`,
`InStep`), and because a channel not yet answered carries nothing (`Unanswered`).
A step that only loses bytes or raises flags is dealt with once (`QuietSteps`).

`MemPlan`, `DartRuntime`, `Nishachar`, `NativeLoop`, `StepTokens` and `WearTransfer` have
no run of their own: all that is said of them is proved for every value of their
constants.

Only model-checked: liveness and the liveness half of the two refinements
(fairness is outside the prover's reach), `CallReturns` and `DestructorReturns` of
the pool and its refinement of `ParallelLoop`, `WaitsEnd` and `WorkerFreed` of `Lan`;
`JobsBounded` and `StatsUnshared` in irregular rings; `StopsSettle` of `Download`;
`Runtime` in the setups that are not `Exact`, and what `Scheduler` promises in the long
run.

## 5. Findings

1. `Scheduler::stop()` can hang: flag and notify come without the mutex
   (`scheduler_stop`).
2. A task submitted while the scheduler stops can stay unanswered for ever
   (`scheduler_drain`).
3. A decode pass that throws leaves `committed_` one longer than `pos_`
   (`kv_after_failure`). `KeepsMirror` shows what stays right: on full
   layers nothing else breaks the mirror, and `reset()` or a session saved before
   repairs it.
4. Speculation on a model with sliding-window layers samples from overwritten
   rows (`spec_on_ring`).

The four above have a run. Observed while modelling, in code whose properties are
stated so as to hold:

* `loader.cpp:540, 571`: a call for a pinned layer forgets which slot is current, and the
  miss that follows starts over in slot 0, wherever the rotation stood. With two
  buffers, or nothing pinned, this does no harm. With three or more buffers
  (`--buffers`, `main.cpp:220`; the default is two, `loader.h:66`), pinned layers and more
  cold layers than buffers, a pass after an abandoned one may claim a slot for a layer
  that a higher slot still holds, and read it again. `NoWastedRead` therefore names the
  rings in which the claim of `loader.cpp:599-601` holds (`Regular`). The weights handed
  out are right in every ring.
* `runtime.cpp:254-255`: with reuse, `pos_` and `committed_` are rewound before the
  check of 288-289 throws for a prompt that does not fit. `can_rewind` takes
  `committed_.size()` for the number of positions written (253), which after the
  refused call is less than what the ring has seen; so the next call may rewind by one
  more, behind a row that a later position has overwritten, and compute over it. That is
  what `kv_cache.h:97-100` rules out ("with every position a later query can attend
  still resident"). TLC finds it with a ring of 2, a context of 3 and three calls: one
  fills the context, one shares two tokens and is refused, one shares a single token.
  `LosesRows` names these calls and counts them as failures (`broken`).
* `mem_plan.h:12` calls a peak RSS within the budget guaranteed. The weight
  ceiling of a plan contains the window of a streamed head and the position
  embeddings; the loader's `globals` (`loader.cpp:210`) do not, so the loader may
  spend these bytes on one more pinned layer and hold up to `Unseen` bytes more
  than the budget. With a budget of 6, a process of 2, a streamed head and every
  other size 1 it holds 7. `BudgetKept` is the bound that does hold.
* The planner prices every layer as `blk.0`; the loader takes the largest.
* `ctx_candidates` is empty for a default context below 128, and
  `mem_plan.cpp:192` takes its last element. `--buffers 0` (`main.cpp:220`) prices a
  ring of nothing and earns the bonus of a pinned stack (`SizesOK` leaves both out).
* After a timeout a LAN connection stays open, and a RESULT that comes later may be
  read as the answer to the next RUN (`lan.cpp:444`): `SplitIsExact` excepts
  coordinators that are owed one.
* `download_task.dart:149` stops a task "promptly", but a stop ends only streams. While
  the probe (`:257`, `:281`) or the GET of a segment (`:409`) waits for its answer, nothing
  listens to the completer that `_abortActive` completes, so `settled` after `pause()`, and
  `done` after `cancel()`, wait for the server, and for ever if it never answers. Without
  its first disjunct `StopsSettle` fails: TLC finds a task that is enqueued, paused and
  cancelled during its probe, and then nothing more.
* `download_task.dart:424-427`: a chunk whose write is in hand when `pause()` cancels its
  stream lands after the run has settled. If the app resumes before, the next run has
  cut the part to a count without that chunk and asks for it again; the part comes out too
  long and the task fails, though network, server and disk had no fault and the app
  waited for each step to settle. TLC finds this when `late` is taken out of the causes of
  `FailureHasCause`: one segment of two bytes, a pause with the first byte in hand, and a
  resume whose run holds `<<0, 0, 1>>` when it verifies.
* `resume()` of a failed download counts bytes whose parts are gone
  (`download_task.dart:158`), and the parts are deleted before the sidecar (`:590`):
  the exceptions `revived` and `cut`.
* `sipllm_agent_step` and `sipllm_generate` clear the cancel flag when they start
  (`sipllm_ffi.cpp:448`, `236`): a cancel sent while the command is still queued is
  forgotten and the step runs to its end, where `sipllm_agent.dart:283` says that an
  in-flight step stops at the next token. And `run()` hands a call to `execute`
  without looking at `_cancelled` after the step's reply (`:241-244`), so a tool may
  start after `cancel()`.
* `run()` reads the refusal -1 of `sipllm_agent_submit_result` as "go on";
  `LoopAndSessionAgree` shows that it never sees one.
* `nishachar.h:273` says that `run()` is `AgentSession` driven synchronously; the
  session has neither the loop guard nor the nudge nor the answer to a malformed
  call. With `loop_repeat_limit` 1 no tool is ever run, and with
  `stop_on_tool_error` the guard's own refusal ends the run as ToolError, so Loop
  is unreachable.
* In the native loop a check that fails counts as a check (`LoopGuards::on_tool`);
  replies cut off, or caught repeating outside a call, are asked for again without
  limit; empty answers are counted over the whole run.
* In the Wear transfer nothing on a watch that only receives lowers `canceled`
  again, so after one cancel each later transfer is discarded with what it had
  received (`:158-162`, `:388-392`). A cancel that finds the watch blocked in `read`
  keeps the partial file, contrary to `:47-48` and `model_transfer.dart:53`. The phone
  reports `completed` when the last byte is written, before the watch has verified
  anything, contrary to `model_transfer.dart:47`, and waits for the ack without a
  timeout.

## 6. What is not modelled

Counters and statistics; numerics, GPU and SIMD code; growth of the KV arrays
(rows are copied verbatim); a pool of one thread; two owners of a scheduler, two
callers of one pool or loader (the engine has one of each); plugins, the logit
filter and the repetition history of the sampler. `resident_bytes()` reads the
slots' vectors without the mutex while the worker may resize them: this is
recorded as a hazard, not modelled. A runtime with a semantic cache has full layers only (`RuntimeAssumption`): on a
ring layer `commit` reads rows that were overwritten and `inject` copies past the
window, so nothing could hold. For the same reason that setup has no failing
decode pass: rows committed after one survive `reset()`. And a hit replaces the
conversation even when the caller meant to append to it; the model does so too
(`Kept`). The hazard at `runtime.cpp:419` lists all three.
Of the download: `disposeAll` (a pause of every task), `expectedSize`, redirects,
progress. Of LAN pooling: the parsing of `--nodes`, and the checks of a RUN that
equal fingerprints rule out. Of the memory plan: layers on a GPU, a run without
a budget, 64-bit wrap-around. Of the isolates: opening a context, `agent_new`,
more than one agent, `reset()`, tokens and statistics. Of the agent loops: how a
call is parsed, the texts fed back, `CheckDigest`, the tools. Of the Wear transfer:
`connectedNodes`, progress, a device that sends and receives at once, several files.

* Remote weight source: a block cache and a socket; what a failed exchange leaves
  unread is listed as a hazard, and planned.
* Chat turns of `main.cpp` and the HTTP server's handlers: two hazards are listed;
  planned over `Runtime`.
* Plugins (Kosh, RTK), `tools.cpp`, tokenizer, OpenAI API, file formats, vision:
  functions from text or bytes to text or bytes, with no state between calls that
  an order of steps could spoil.
* Kernels, quantization, GPU backends: floating point.
* Device profile, auto tuner: measurements of the host.

## 7. Plan

1. Loader with its service, the passes, and the theorems on both (done).
2. Thread pool with `ParallelLoop`, and its theorems (done).
3. Scheduler and its theorems (done).
4. Runtime with cache, prompt lookup and session (done).
5. Semantic cache with `PrefixStore`, consulted by `Runtime` (done); its
   books, what eviction spares and the refinement as theorems (done).
6. Download task and manager with restarts, LAN pooling with timeouts (done); the
   exactness of the split as a theorem (done).
7. The byte ceiling of planner and loader as theorems (done).
8. The isolate protocol, the agent loops and the Wear transfer, with theorems (done).
9. The remote weight source's exchange; chat turns of `main.cpp`; the profile sink
   of the server.
10. `KeepsMirror` and `LogitsFromHistory` of `Runtime` as theorems (done); the permits
   of `Download`, and what it says of the bytes on disk, as theorems (done).
