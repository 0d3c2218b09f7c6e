# scriptc: a TLA+ verification project

scriptc compiles TypeScript to native executables. The compiler (`packages/compiler`) is a
batch program; what runs afterwards is one of two runtimes: the Rust one
(`packages/runtime-rust`, the default) and the C one (`packages/runtime`). This project models
the parts whose correctness depends on order, interleaving and failure: the scheduling core of the
Rust runtime, its memory manager, the streams that embedded JavaScript ("islands") gets instead of Node's,
and the two protocols by which compiler processes on a machine coordinate: build slots and the executable cache.

## 1. Inventory

### The system

| Part | State | Operations | Hard behaviour |
|---|---|---|---|
| Event loop (`event_loop.rs`, `native_module.rs`) | tick, microtask, job and check queues; timers, immediates; turn, phase, the timer being fired | set/clear/ref/unref/refresh of timers, set/clear/ref of immediates, nextTick, queueMicrotask, import; one iteration of the loop | callbacks change the lists the loop works on; four exits; turns; lateness |
| Blocking waits (`event_loop.rs` 596-745, `network_wait.rs`, `dgram_wait.rs`, `stdin.rs`, ...) | which sources are pending, next deadline | choose one wait and its limit | one thread blocks on one source while others have events |
| Foreign callbacks (`ffi_foreign.rs`) | under a mutex: active tokens, queue, stopping; on the script thread: registrations | commit, release, post, dispatch, wait, finish, init | library threads race release, wait, teardown and restart |
| Promises (`promises.rs`, `promise_views.rs`) | state, reactions, handled and reported flags; deferred checks | settle, then, poll, map, flatMap, race, all, views | late handlers, script code called inside `promise_then`, reports at the right checkpoint |
| Heap (`heap.rs`) | nodes, reference counts, cycle candidates, drop pressure | new, clone, drop, store, collect, final pass | trial deletion with handles it cannot see; drops nested in a pass |
| Build slots (`native-build-slot.ts`) | lease and reaper files | acquire, reclaim, release | processes crash or exit between any two file operations |
| fs.rename pool (`filesystem.rs`) | requests, completions | request, complete, deliver, wait | worker threads; the loop must stay alive and wake up |
| Island streams (`island-js/13-stream.js`) | per stream: buffer, flowing, reading, write queue, needDrain, ended, destroyed; microtasks | push, read loop, write, drain, end, destroy, pipe, pipeline, async iterator | user code called inside emit and write; callbacks at once or later; errors in any stage |
| Executable cache (`executable-cache.ts`, `index.ts`, `linker.ts`, `input-tracker.ts`, `native-cache-prune.ts`, `bootstrap.ts`) | route, proof, stamp, translation unit and executable files; the outputs; per process a snapshot of what it read | routed lookup, lookup, restore, relink, compile, publish, prune | files change between being read and being vouched for; crashes between renames; overlapping builds |
| Generators, child processes, stdin, signals, native streams, network, HTTP agent, Effect, abort, emitters | per object state machines | not modelled yet | see the plan |
| Values, JSON, numbers, regex, compiler passes, CLI | data | pure or sequential | better served by the differential tests |

How they interact: the loop calls everything. Script code runs only on the loop's thread, inside a
callback of one of its sources; callbacks call back into timers, promises, the heap and the foreign
registrations. Island streams live on the microtask queue of the embedded engine. Threads other than the loop's (library threads, rename workers, reader threads) touch
only mutex-guarded queues. The heap is collected at safe points of the loop. Compiler processes
share only files: leases of build seats, the cache root, and the output paths.

The complete list of components, the ones left out included, is in `PROJECT.json`, and so is
the list of hazards with the line at which each bites.

### What makes each part correct

* Event loop: a cleared timer never fires; ref state survives the timer's own
  callback; no exit with referenced work; no timer fires twice while an immediate
  waits; referenced timers and immediates run; unreferenced ones let go.
* Waits: no unlimited wait is blind to a pending source; a blocked loop wakes for every event.
* Foreign callbacks: an accepted call is delivered exactly once, in order, to a closure that is
  still pinned; pins do not leak (but for one, see `FfiForeign`); no wake-up is lost; nothing crosses a session.
* Promises: a reaction runs at most once and in order; `all` counts right; every unhandled rejection is reported, no handled one is.
* Heap: nothing reachable is taken apart, nothing dangles, all garbage cycles are found and freed.
* Build slots: one build per seat; leases are not stolen; the dead never block the living.
* Island streams: what a pipe or an iterator delivers is what was pushed, in order, once, and "finish" or "end"
  comes after it; what a destination holds, but for its newest chunk, counts less than its highWaterMark; left alone the flow completes; a
  pipeline settles and is torn down.
* Executable cache: a hit is an executable of the sources, compiler and tools that are there; an exact repeat hits; no
  lookup fails for files another process is still publishing.

## 2. Modules

| Module | Models | Composes with |
|---|---|---|
| `FfiForeign` | `ffi_foreign.rs`, all of it | proofs in `FfiForeignProofs` |
| `EventLoop` | `run_event_loop_with_first_checkpoint`, timers, immediates, queues, renames | proofs in `EventLoopProofs` |
| `LoopWait` | the wait selection of the same function, and the `*_wait` functions | abstracts the sources; proofs in `LoopWaitProofs` |
| `Promises` | promises, combinators, views, rejection checks, with the checkpoints of the loop | proofs in `PromisesProofs` |
| `Heap` | `heap.rs`, all of it | proofs in `HeapProofs` |
| `BuildSlot` | `native-build-slot.ts` | proofs in `BuildSlotProofs` |
| `IslandStream` | `13-stream.js`: Readable, Writable, PassThrough, pipe, pipeline, iterator | implements `FifoChannel`; proofs in `IslandStreamProofs` |
| `FifoChannel` | the abstract specification: messages sent, received in order, done | refined by `IslandStream` |
| `ExeCache` | the early executable cache, from the routed lookup to the publication | proofs in `ExeCacheProofs` |

Each `MC*` module instantiates its component for TLC. Definitions whose comment begins with *Mutant* are
plausible mistakes in one definition of the code; each property is known to fail when one of them takes
the definition's place (`mutants` in `PROJECT.json`).

### FfiForeign

Every critical section of the mutex is one action. Delivery is three actions (`DispatchPop`, the
callback, `DispatchSweep`), because the mutex is free while the closure runs, and the closure may register,
release and post (`InScript`). `Post(t)` may come from any token ever handed out, at any time, also
after a teardown; `active` and `stopping` decide. `Wait` tests and blocks in one step, as the code does under the
lock; `WakeUp` may be spurious or a timeout. `Finish`/`InitSession` are the end of one session and the
beginning of the next in the same process; the token counter survives. `base`, `posted` and
`taken` are history. The arguments of a call are data and left out.

A closure that throws unwinds the dispatch before its sweep. The entry point the compiler emits (`program-entry.ts`) then ends the
process or, if the program's `uncaughtException` listeners take the exception, runs the loop a second time (`Resume`, once: nothing catches
a second throw). Nobody makes up for the sweep: a closure released before its last call threw stays pinned until teardown. `threw` remembers that
call, and `NoLeakedPin` says that it is the only leak.

### EventLoop

A program (`Programs`) is a module kind, whether it has `uncaughtException` listeners, the delays it uses (at most `MaxDelay`), and bounds
on its calls and on how late the loop may be. `pc` is either a place where script code runs (`Script`) or a place of the loop. In a script place any
runtime call may be made (`ScriptCall`, `app.calls` in all) until `Return`, which includes the re-arm of the
timer that fired. Callback queues are counters, since a callback may do anything. A task's
turn is kept as the number of turns it is ahead of the loop's (`ahead`), which is all that is ever compared. Deadlines are relative to now;
`Tick` lets time pass at any place of the loop, also between the scan of the timers and the sleep. Renames stand
for the sources polled before the timers. Left out: the hooks of embedded engines
(`timers_pump_once`, nested `run_event_loop_until`, V8 checkpoints) and read-only introspection.

Script code may throw anywhere (`Throw`), and the entry promise may fail (`Drained`). Either ends the process or, with listeners that were not called yet, runs
them and then the loop again (`RunAgain`): the timer whose callback threw is not armed again, its cells stay set, and the new loop counts its turns from 0 while
the pending tasks keep the turns they were given. Which turns these were is chosen anew: the loop was left in any turn up to `MaxTurn`, tasks that were not
ahead of it carry any turn up to that one. `OvertakenOnce` shows that tasks of several turns still fall behind one another in the right way.

### LoopWait

The sources are pending or not and ready or not; the loop polls them in `DispatchOrder`, then chooses one wait by
the code's priorities. The limit of a wait is `brief` (a quantum or the 50 ms cap), `deadline` or `forever`;
`Remaining` reproduces `event_loop_wait_timeout`, which maps a deadline already past to "no limit". A callback may open and
close anything. Unreferenced sources that still dispatch (signals, children that failed to start) are left out.

`NoBlindWait` is checked for the combinations in `MCPrograms`. It does **not** hold for all combinations: with
sockets and child processes pending and neither standard input nor a foreign callback, `net_poll` waits
without looking at the children's pipes; with a foreign callback and standard input, the wait for the
former does not see the latter (nor a completed rename). They are listed as hazards.

### Promises

One record per promise; `micro` and `checks` are the loop's queues, drained by `LoopControl`. A
`rejectionHandled` listener runs script code in the middle of `promise_then`, before the reaction is
queued: `attach` is the stack of such calls. Views forward to the promise behind them. Left out: listeners that
throw, view mappers that throw, the end of the loop when the entry promise fails (`EventLoop` has it), the trampoline of async
functions.

### Heap

A handle is a `Gc<T>` with an owner (a payload or the outside) and a target; it is traced or, if it sits in a
closure, not. `DropOne` is `Gc::drop`: the last reference frees the node and drops its payload's
handles in turn. `Pass` is `collect_cycles` up to the clearing of edges, whose drops run one at a time; `Unpin` is where the collector
lets go of its own references. Weak handles appear as `Clone` of any allocated node. The pressure
threshold is a constant; dead candidates, which the code prunes, are invisible in a set of live ones. The candidate flag
of a node and its entry in the buffer are one set, so a mismatch of the two cannot be expressed.

### BuildSlot

Each awaited file operation is one action of a process; creating a reaper is two (exclusive open, write), and
a reaper may be removed and created again by others in between. A process crashes anywhere (`Mortal`) or
exits after its build (`Exits`). Left out: reuse of pids, the reaper directories of earlier releases, file
operations that fail for reasons outside the protocol (one of them, the removal of the temporary file after the link, is a hazard).

### IslandStream and FifoChannel

JavaScript runs to completion, but a stream calls user code in the middle of its own methods: `emit("data")` calls the pipe's
listener, which calls `write()`, which calls `_write`, which may call back at once. `stack` holds the frames of the call under way,
innermost first; `ticks` is the queue `nextTick` fills. Every action is the top frame's next step (`Running`), the next microtask
(`Microtask`) or a call of the program between two microtasks (`Program`). A frame's name is the method it belongs to: `drain` and
`emitData` are `_drainData` and the rest of `_emitData`, `callRead`, `read` and `again` the three parts of the loop in `_callRead`
around the user's `_read`, `emit` and `wrote` the pipe's `onData` before and after `write()`, `write`, `transformed` and `final` the user's
`_write`, a PassThrough's callback and the user's `final()`, `ending` the pipe's `onEnd`, `tried` the iterator's `tryRead`, `teardown`
the loop of a pipeline's `settle` over its stages. `emit`, `ending` and `teardown` carry the listeners or stages still to come.

A program has a consumer (pipe, pipeline, async iterator), a source that pushes when chunks arrive, answers `_read` at once or later,
and streams whose `_write` and `final()` call back at once, later or with an error; `destroy()` may come between any two microtasks. It
is otherwise well behaved: one callback per call, nothing pushed after `push(null)`, a listener for "error". Its pipes form a
forest (`Forest`): no stream has two sources and chunks do not run in circles. A pipeline ends in a Writable.

Streams are in object mode. A Writable then counts 1 for each chunk it is written (`_wLen`, here `wLen`); a Duplex never sets `_wom`, so a PassThrough counts the chunk's
length whatever its options say. A program therefore has the total length `upto[n]` of its first `n` chunks, and `Counted` and `Weight` tell what a stream adds for
them. Chunks of length 0 never fill a PassThrough: with a late callback it may hold any number of them. `Backpressure` says what the counter does bound. Chunks are not
strings, which a PassThrough would turn into Buffers on the way.

`StreamsAreFifo` is the refinement: with `sent` the chunks pushed, `received` what each `_write` (or the iterator) got and `done` its
"finish" (or "end"), every behaviour is one of `FifoChannel`. The mapping needs no history variable beyond the event log.

### ExeCache

Every `await` is a step boundary. `out` are the two output files all builds of the program share, `cache[k]` the entry of compiler
implementation `k`, `route` and `proofs` the lightweight index. The bytes of a file are kept as what they were made from (sources and compiler;
translation unit and tools), so that comparing digests is comparing values; `Torn` is a file while `writeFile` is under
way. A process first follows the route (`bootstrap.ts`), then loads the compiler and looks again, and on a hit without executable compiles the file at `cPath`; on
a miss the frontend probes the files one at a time (`FrontendRead`; a probe that changed makes the snapshot unstable). Around them sources are edited, tools updated,
the compiler upgraded, cache files pruned, processes crash, and the installation of an executable fails. `Budget` bounds each kind.

Two history variables say under which circumstances a property is promised. `clash` becomes true when a process changes an output another one relies on, or
the compiler is upgraded between being loaded and being hashed. `warm` is non-empty from a complete publication until something
it depends on changes, and collects the processes that started meanwhile. Left out: the IR file, which travels with the translation unit; the
driver route through `compileC`, which has a cache of its own; renames that fail; probes that fail without a tool update, and linkers and
foreign libraries that cannot be cached, all of which publish the translation unit alone.

## 3. Runs

| Run | Instance | Shows |
|---|---|---|
| `ffi_foreign` | 2 keys, 3 tokens, 3 posts | all safety properties and `EventuallyTaken` |
| `event_loop` | 3 calls; ES module with listeners, 1 delay and lateness 1, CommonJS with 2 delays and lateness 2; exceptions in turns 0 and 1 | timers, exits, turns; the three liveness properties |
| `loop_wait` | five combinations of sources, a timer | `NoBlindWait`, `WakesForEvents` |
| `promises` | 3 promises, 6 calls | settling, reactions, `all`, reports |
| `heap` | 3 nodes, 4 handles (2 alike), threshold 2 | soundness and completeness of the collector |
| `build_slot` | 3 processes, 2 seats, 2 may crash, all exit | sharing, leases, progress |
| `island_stream` | a source, a PassThrough, two sinks; 2 or 3 chunks, of length 1 or of lengths 0 and 2, highWaterMark 1 or 2; one error or destroy | refinement, backpressure, completion, teardown |
| `exe_cache` | 2 processes, 3 invocations, 2 contents; 2 disturbances of all kinds | no stale hit, no failure, repeats hit |
| `wait_cap` | foreign callbacks, signal listener, timer | violation: a wait without limit although signals cap waits |
| `stream_later` | a piped source that answers `_read` later | violation: the pipe stops after one chunk |
| `exe_cache_overlap` | 2 processes, 3 invocations, one edit | violation: a hit restores an executable of old sources |
| `build_slot_exit` | 3 processes, 1 seat, exits only | violation: two builds in one seat |

The passing instances leave out exactly what the violations are about: in `island_stream` a source that answers `_read` later is
iterated but not piped, and `AloneIsRight` of `exe_cache` is silent once builds have shared their outputs (`clash`). `Backpressure` is
stated of destinations that are their source's only pipe; with two, the drain of the faster one resumes the source into the slower one (a hazard).

The four violations are disagreements between the code and what a document, test or changelog of the
repository says; `findings` quotes both sides.

*Why the bounds are enough.* Two keys and three tokens give two registrations of one key, a release of the older one, and a
token of an earlier session; three posts fill the queue across a release. Three script calls cover set, clear or
refresh inside the own callback, and a second timer or immediate beside it; an exception in turn 1 leaves tasks of three turns to the second loop. Three promises give a source, a view or a second
source, and a result. Three nodes and four handles give a cycle with a tail, a self-loop, a cycle held from a closure,
and two handles between the same pair; a threshold of 2 separates pressure from none. Three processes are what the race on a seat
needs: a former owner, a new one, and one that judges; two seats exercise the scan. A highWaterMark of 1 and three chunks give one
chunk in `_write`, one in the buffer of the paused source and one pushed between `resume()` and the delivery, the case in which order could be lost; a pipeline
of three has a stage that is neither source nor sink; one upset meets every state of the others. Three invocations give a publication, a disturbed
rebuild and a lookup of either; two processes overlap at every step; two disturbances of any two kinds (an edit undone by a second one
included) fall between any two steps. One probed file is enough for a snapshot to be mixed, since a probe can be repeated.
Symmetry is used in `exe_cache` only, for processes and contents, with invariants only.

*Fairness.* `FfiForeign`: the loop dispatches, closures end, a signalled wait returns and an unwinding
loop reaches the teardown or the listeners. Nothing is assumed of library threads or timeouts. `EventLoop`: the thread runs, callbacks
return, workers complete requests, time passes; whether script code makes further calls is free. `LoopWait`: the thread runs, time
passes, a worker ends each rename; no other event need arrive. `BuildSlot`: a process that lives goes on; exits and
crashes are free. `IslandStream`: the engine runs the stack and the microtasks; the program pushes what it has, answers every
`_read`, `_write` and `final()` it was asked for, and goes on iterating. These are the scheduler's and the clock's, not properties the code would have to establish.

`CHECK_DEADLOCK` is off where the system may simply stop, in `IslandStream` (a program whose flow is over) and `ExeCache` (no
invocation left). Every other component stops in a named final state.

## 4. Proofs

All for any value of the constants; the assumptions are the `ASSUME`s of the components, which say no more than that bounds
are numbers, that a program's bounds and delays lie in theirs, that the pipes of a program form a forest (`Forest`), and that `Nobody`, `None` and `Torn` are not values of the kind they stand beside.

* **`FfiForeignProofs`**: all seven invariants of `FfiForeign`. None is inductive alone. `IInv` adds that no two registrations
  share a token and all tokens lie between the session's first and the next one (`OneRegPerToken`,
  `TokensBelow`: a commit cannot revive a released token, a release deactivates one registration only) and that a
  stopped session is empty and a call is under dispatch exactly in a dispatch (`Quiescent`). `Pinned` then needs
  `ActiveMatchesRegs` (a post finds a registration), the sweep needs `NoLeakedPin`, and the bound on `taken` needs the order
  of the queue. One lemma per action, one step per conjunct it can disturb.
* **`EventLoopProofs`**: all safety properties of `EventLoop`. `Inv` adds to the types that ids are handed out in order (`IdsAreUsed`), that a timer is
  armed or firing, never both and never twice (`OneTask`), that the cells of the firing timer are set exactly during its
  callback, or once it threw, and know of its clearing (`FiringIsTracked`), and that every queue is empty where the loop decides to wait
  (`IdleIsQuiet`), from which each exit inherits it. `DueInRange` bounds the deadlines, which the types alone do not. `OvertakenOnce` rests on `RearmedLater`: a timer that
  overtook a waiting immediate has a task, if any, that is ahead of the immediate's, which a new turn, `refresh()` and a second loop preserve. `TimersFireInOrder`
  rests on `EarliestIsIn`: a non-empty set of deadlines has a least one (`LeastNat`, from the well-foundedness of `<`).
* **`LoopWaitProofs`**: types, and `CoveredMeansSeen`: `NoBlindWait` for every set of combinations each of which is `Covered`. `Covered` reads the condition off the chain
  of waits in `event_loop.rs`; it speaks of pending sources only, and the combinations it excludes are the ones listed as
  hazards, so the theorem says that there are no others.
* **`PromisesProofs`**: all safety properties of `Promises`. `Inv` is stated over constant operators of a snapshot (`Core`) and of the stack of interrupted calls,
  so that each primitive of the code (settle, observe, attach, run, check) has one lemma, used by every action that calls it. `Structure` says
  that each reaction is in one place and numbered by the call that attached it, and that waiting reactions sit on pending promises; `Ordered` that numbers ascend in every waiting
  list and in the queue per promise, up to the call that is being attached; `Counts` that a combinator's counter is the number of its live
  reactions; `Reports` that a rejected promise nobody looked at has a check in the queue or has been reported once. `NoFalseReport` is an action property: the check
  reads `handled`, and everything that adds to `seen` sets it.
* **`HeapProofs`**: types, `NoDangling`, `ReachableIntact`, `ClearedIsFreed`, `PassFindsAll`. The core is `TrialDeletion`: if the references counted
  on a snapshot node equal those the traced edges of the snapshot explain, then by finiteness these are all its handles, so each comes from the snapshot,
  and, as the live part is closed, from garbage. `BetweenPasses` carries this through the drops of a pass: every handle into a cleared
  node comes from a cleared node and is about to be dropped. The nodes not cleared are then a closed set that contains all roots.
  `PassFindsAll` is completeness, and needs another invariant: `Findable` says that every node is reachable from the targets of untraced
  handles and of handles being dropped, the candidates and the nodes being cleared (`Seeds`), which every drop that leaves a reference behind keeps true by making its target a
  candidate. At a safe point what is not held from outside is then in the snapshot, and what trial deletion keeps of it is held.
* **`BuildSlotProofs`**: types; `SharedOnlyAfterExit` and `LeaseIsKept`. `SlotInv` says that, while all processes live, a
  building process holds the lease of its seat and nobody is about to remove a lease, because an owner
  under judgement is a live process. The proof shows what the protocol rests on: all of it is the test of death, and that is
  where `build_slot_exit` breaks it.
* **`ExeCacheProofs`**: all properties of `ExeCache` that hold. `TypeInv` adds what a process carries at each step (`Shapes`). `RightInv`: while outputs are not shared,
  every stamp is `Sound` (its translation unit is the one of its own snapshot and of the compiler whose entry it is in, its
  executable the one of that unit and its own tools), a process that looks up or builds holds values of one such
  stamp, and from its link to its return the outputs are its own. `OthersKeep` shows that no step of another process disturbs
  this without setting `clash`. `WarmInv`: while `warm` is non-empty the entry of the current compiler is intact, and the processes in it are on the
  way to a hit, at whichever step of the routed or the full lookup they are.
* **`IslandStreamProofs`**: types, `Backpressure` and the refinement of `FifoChannel` (`StreamsImplementFifo`). The types are those of the chunks pushed so far. `Ordered` says
  that frames of a chunk under way (`emit`, `wrote`, `write`, `transformed`) lead away from the root of the pipes, by `Level`, and that no frame of the reading side is above
  one of them: so no two of one kind and stream are on the stack, and `_read`, `_drainData` and microtasks run with no chunk under way. `Account`
  counts: a writable side has taken the chunks it got and the one `_write` is called with (`Taken`), accepted the queued ones as well (`Accepted`); a pipe has passed
  on those and the one `emit` is handing over (`Passed`), which with the source's buffer is all the source was given (`Given`), each chunk at its own number.
  `Over` says that the end travels behind the last chunk; `Measured` that the counter is what the chunks from the first not yet written to the last accepted count, which gives that `done()` never takes it
  below 0; `Pressure`, for the only pipe of a source, that the counter is below the highWaterMark plus what the newest chunk added (`Newest`), that a full
  destination has a source that is paused or is about to be, and that a pending "drain" finds it empty. Steps that move no chunk are `Calm` and keep the invariant by
  one lemma (`CalmStep`); the others change one stream, and `ElsewhereKeeps` leaves only that stream to show. In the refinement, `_write` of a sink and
  the iterator's read take the chunk after the last one they got, by `Account`, and "finish" and "end" find everything received, by `Over`.

`FfiActiveMatchesRegs`, `HeapClearedIsFreed` and `TimersFireInOrder` are proved and not part of a run. The inductive invariants were checked with TLC
on the instances of the runs (or smaller ones) before they were proved.

Only model-checked: every liveness property (fairness and `ENABLED` are out of the prover's reach). `Backpressure` speaks of a
source with one pipe; a source with several resumes at the first "drain", which is among the hazards.

## 5. Plan

1. Extend: `AsyncGenerator` (`generators.rs`: the request queue and its states); child processes (reader and
   writer threads, backpressure, order of exit, end and close); the rename pool in detail; standard input; the native streams, for which `FifoChannel` is the
   abstract specification as well; HTTP agent; Effect latches and publish/subscribe; event emitters and abort.
2. Compose: `FfiForeign` with the turns of `EventLoop` (do foreign calls that keep arriving starve timers?).

Not planned: value libraries, number formatting, regular expressions, JSON, compiler passes and code
generation (sequential functions over unbounded data), the embedded engines (third-party), the command line.
