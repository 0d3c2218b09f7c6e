----------------------------- MODULE EventLoop -----------------------------
(***************************************************************************)
(* The event loop of the Rust runtime (runtime-rust/src/event_loop.rs):     *)
(* process.nextTick callbacks, microtasks, native-module jobs, deferred     *)
(* rejection checks, timers, immediates, and fs.rename completions, which   *)
(* stand for the I/O sources polled at the same place of the loop.          *)
(*                                                                         *)
(* Script code runs at the places in Script and may call the timer and     *)
(* queue functions any number of times before it returns.                   *)
(*                                                                         *)
(* A queue of callbacks is its length: what a callback does is arbitrary.   *)
(* A turn number is only ever compared with the current turn, so a task     *)
(* keeps how many turns it is ahead of it.                                 *)
(* Instants are relative to now: due falls as time passes, and a timer is   *)
(* due when it is not positive.                                            *)
(*                                                                         *)
(* Script code may throw.  The entry point of the program (the compiler's   *)
(* program-entry.ts) ends the process, or, once, calls the listeners of    *)
(* uncaughtException and runs the loop again.                               *)
(***************************************************************************)
EXTENDS Integers

CONSTANTS Programs,  \* the programs: see LoopAssumption
          MaxDelay,  \* bound: the longest delay (timer_delay: i32::MAX)
          MaxOps,    \* bound: calls of the runtime by script code
          MaxTurn    \* bound: the turn in which the loop is left to run again

\* A program: the timer delays it uses (after timer_delay: at least 1), whether
\* it is an ES module, whether it has uncaughtException listeners, how many
\* calls it makes and how late timers may be.
ASSUME LoopAssumption ==
    /\ MaxOps \in Nat /\ MaxDelay \in Nat /\ MaxTurn \in Nat
    /\ \A a \in Programs :
         /\ a.delays \subseteq 1..MaxDelay
         /\ a.esm \in BOOLEAN /\ a.listens \in BOOLEAN
         /\ a.calls \in 0..MaxOps /\ a.late \in Nat \ {0}

VARIABLES
    app,       \* the program that runs
    pc,        \* where the thread is
    first,     \* first_checkpoint
    phase,     \* EVENT_PHASE: 1 timer, 2 immediate, 3 microtask, 4 tick
    ticks, micros, jobs, checks,  \* lengths of the four checkpoint queues
    timers,    \* TIMER_TASKS
    firing,    \* the timer whose callback runs, and the FIRING_TIMER_* cells
    imms,      \* IMMEDIATE_TASKS
    renames,   \* fs.rename requests not yet called back
    done,      \* how many of them a worker has completed
    wait,      \* remaining time of a blocking wait
    failed,    \* an exception, or an unhandled rejection, ends the program
    resumed,   \* the listeners of uncaughtException have been called
    ops,       \* calls made so far; the last id handed out
    cleared,   \* history: timers cleared while armed or firing
    wantRef,   \* history: the last ref/unref of each timer
    overtaken  \* history: <<i, t>> if timer t fired while immediate i waited

queues == <<ticks, micros, jobs, checks>>
kept == <<app, resumed, cleared, wantRef, overtaken>>
vars == <<pc, first, phase, queues, timers, firing, imms, renames, done, wait,
          failed, ops, kept>>

Ids == 1..MaxOps
Delays == 1..MaxDelay
Forever == MaxDelay + 1
Script == {"main", "tick", "micro", "job", "check", "io", "timer", "imm", "listener"}
Places == Script \cup {"top", "drain", "checks", "idle", "sleep", "renameWait", "done", "finished"}
NoTimer == [id |-> 0, delay |-> 0, repeat |-> FALSE, ref |-> FALSE,
            refreshed |-> FALSE, cleared |-> FALSE]

Earlier(t, u) == t.due < u.due \/ (t.due = u.due /\ t.id < u.id)
EarliestOf(S) == CHOOSE t \in S : \A u \in S \ {t} : Earlier(t, u)
OldestOf(S) == CHOOSE t \in S : \A u \in S : t.id <= u.id
-----------------------------------------------------------------------------
\* Module evaluation runs before the loop, in phase 0.
Init ==
    /\ app \in Programs
    /\ pc = "main" /\ first = app.esm /\ phase = 0
    /\ ticks = 0 /\ micros = 0 /\ jobs = 0 /\ checks = 0
    /\ timers = {} /\ firing = NoTimer /\ imms = {}
    /\ renames = 0 /\ done = 0 /\ wait = 0 /\ failed = FALSE /\ ops = 0
    /\ cleared = {} /\ wantRef = [i \in Ids |-> TRUE] /\ overtaken = {}
    /\ resumed = FALSE

\* One call of the runtime by script code; the next id is ops + 1.
Call == pc \in Script /\ ops < app.calls /\ ops' = ops + 1

\* A timer armed by a timer or immediate callback waits for the next turn.
TimerTurn == IF phase \in {1, 2} THEN 1 ELSE 0

TimerSchedule(d, rep) ==
    /\ Call
    /\ timers' = timers \cup {[id |-> ops + 1, ahead |-> TimerTurn, due |-> d,
                               delay |-> d, repeat |-> rep, ref |-> TRUE]}
    /\ UNCHANGED <<pc, first, phase, queues, firing, imms, renames, done, wait, failed, kept>>

Known(i) == i = firing.id \/ \E t \in timers : t.id = i

TimerClear(i) ==
    /\ Call /\ Known(i)
    /\ timers' = {t \in timers : t.id # i}
    /\ firing' = [firing EXCEPT !.cleared = @ \/ firing.id = i]
    /\ cleared' = cleared \cup {i}
    /\ UNCHANGED <<pc, first, phase, queues, imms, renames, done, wait, failed,
                   app, resumed, wantRef, overtaken>>

TimerSetRef(i, b) ==
    /\ Call /\ Known(i)
    /\ timers' = {IF t.id = i THEN [t EXCEPT !.ref = b] ELSE t : t \in timers}
    /\ firing' = IF firing.id = i THEN [firing EXCEPT !.ref = b] ELSE firing
    /\ wantRef' = [wantRef EXCEPT ![i] = b]
    /\ UNCHANGED <<pc, first, phase, queues, imms, renames, done, wait, failed,
                   app, resumed, cleared, overtaken>>

\* A pending timer starts over from now, in place.
StartOver(i) == {IF t.id = i THEN [t EXCEPT !.due = t.delay] ELSE t : t \in timers}

TimerRefresh(i) ==
    /\ Call /\ Known(i)
    /\ timers' = StartOver(i)
    /\ firing' = [firing EXCEPT !.refreshed = @ \/ firing.id = i]
    /\ UNCHANGED <<pc, first, phase, queues, imms, renames, done, wait, failed, kept>>

\* An immediate armed by an immediate callback waits for the next turn.
ImmediateTurn == IF phase = 2 THEN 1 ELSE 0

SetImmediate ==
    /\ Call
    /\ imms' = imms \cup {[id |-> ops + 1, ahead |-> ImmediateTurn, ref |-> TRUE]}
    /\ UNCHANGED <<pc, first, phase, queues, timers, firing, renames, done, wait, failed, kept>>

ClearImmediate(i) ==
    /\ Call /\ \E t \in imms : t.id = i
    /\ imms' = {t \in imms : t.id # i}
    /\ UNCHANGED <<pc, first, phase, queues, timers, firing, renames, done, wait, failed, kept>>

SetImmediateRef(i, b) ==
    /\ Call /\ \E t \in imms : t.id = i
    /\ imms' = {IF t.id = i THEN [t EXCEPT !.ref = b] ELSE t : t \in imms}
    /\ UNCHANGED <<pc, first, phase, queues, timers, firing, renames, done, wait, failed, kept>>

ProcessNextTick ==
    /\ Call /\ ticks' = ticks + 1
    /\ UNCHANGED <<pc, first, phase, micros, jobs, checks, timers, firing, imms, renames,
                   done, wait, failed, kept>>

QueueMicrotask ==
    /\ Call /\ micros' = micros + 1
    /\ UNCHANGED <<pc, first, phase, ticks, jobs, checks, timers, firing, imms, renames,
                   done, wait, failed, kept>>

\* import() of a linked module.
ModuleImport ==
    /\ Call /\ jobs' = jobs + 1
    /\ UNCHANGED <<pc, first, phase, ticks, micros, checks, timers, firing, imms, renames,
                   done, wait, failed, kept>>

\* A rejection defers its unhandled-rejection check.
PromiseReject ==
    /\ Call /\ checks' = checks + 1
    /\ UNCHANGED <<pc, first, phase, ticks, micros, jobs, timers, firing, imms, renames,
                   done, wait, failed, kept>>

FsRename ==
    /\ Call /\ renames' = renames + 1
    /\ UNCHANGED <<pc, first, phase, queues, timers, firing, imms, done, wait, failed, kept>>

ScriptCall ==
    \/ \E d \in app.delays, rep \in BOOLEAN : TimerSchedule(d, rep)
    \/ \E i \in Ids : TimerClear(i) \/ TimerRefresh(i) \/ ClearImmediate(i)
    \/ \E i \in Ids, b \in BOOLEAN : TimerSetRef(i, b) \/ SetImmediateRef(i, b)
    \/ SetImmediate \/ ProcessNextTick \/ QueueMicrotask \/ ModuleImport
    \/ PromiseReject \/ FsRename

-----------------------------------------------------------------------------
\* Mutants: the clear, the unref of the own callback, or the turn is forgotten.
RearmedIfCleared ==
    {t \in {[id |-> firing.id, ahead |-> 1, due |-> firing.delay, delay |-> firing.delay,
             repeat |-> firing.repeat, ref |-> firing.ref]} :
        firing.repeat \/ firing.refreshed}
RearmedReferenced ==
    {t \in {[id |-> firing.id, ahead |-> 1, due |-> firing.delay, delay |-> firing.delay,
             repeat |-> firing.repeat, ref |-> TRUE]} :
        ~firing.cleared /\ (firing.repeat \/ firing.refreshed)}
RearmedThisTurn ==
    {t \in {[id |-> firing.id, ahead |-> 0, due |-> firing.delay, delay |-> firing.delay,
             repeat |-> firing.repeat, ref |-> firing.ref]} :
        ~firing.cleared /\ (firing.repeat \/ firing.refreshed)}

\* After a timer's callback: an interval, or a timer refreshed by its own
\* callback, is armed again for the next turn unless the callback cleared it.
Rearmed ==
    {t \in {[id |-> firing.id, ahead |-> 1, due |-> firing.delay, delay |-> firing.delay,
             repeat |-> firing.repeat, ref |-> firing.ref]} :
        ~firing.cleared /\ (firing.repeat \/ firing.refreshed)}

Return ==
    /\ pc \in Script \ {"listener"}
    /\ pc' = CASE pc = "micro" -> "drain" [] pc = "check" -> "checks" [] OTHER -> "top"
    /\ timers' = timers \cup (IF pc = "timer" THEN Rearmed ELSE {})
    /\ firing' = IF pc = "timer" THEN NoTimer ELSE firing
    /\ UNCHANGED <<first, phase, queues, imms, renames, done, wait, failed, ops, kept>>

\* The program has listeners that were not called yet.
Caught == app.listens /\ ~resumed

\* Script code throws and unwinds the loop.  The timer whose callback threw is
\* not armed again, and the FIRING_TIMER_* cells keep it.
Throw ==
    /\ pc \in Script
    /\ \/ Caught /\ pc' = "listener" /\ resumed' = TRUE /\ UNCHANGED failed
       \/ pc' = "done" /\ failed' = TRUE /\ UNCHANGED resumed
    /\ UNCHANGED <<first, phase, queues, timers, firing, imms, renames, done, wait, ops,
                   app, cleared, wantRef, overtaken>>

\* After the listeners the loop runs again and counts its turns from 0, while
\* the tasks keep the turns they were given: before the last turn n, in it, or
\* (ahead of it) n + 1.
Restarted(S, n, given) ==
    {[t EXCEPT !.ahead = IF t.ahead = 0 THEN given[t.id] ELSE n + 1] : t \in S}

RunAgain ==
    /\ pc = "listener"
    /\ pc' = "top" /\ first' = TRUE
    /\ \E n \in 0..MaxTurn : \E given \in [Ids -> 0..n] :
         timers' = Restarted(timers, n, given) /\ imms' = Restarted(imms, n, given)
    /\ UNCHANGED <<phase, queues, firing, renames, done, wait, failed, ops, kept>>

\* One nextTick callback, then the loop starts over.
RunTick ==
    /\ pc = "top" /\ ~first /\ ticks > 0
    /\ ticks' = ticks - 1 /\ phase' = 4 /\ pc' = "tick"
    /\ UNCHANGED <<first, micros, jobs, checks, timers, firing, imms, renames, done, wait,
                   failed, ops, kept>>

\* Microtasks are drained to the end, ticks queued meanwhile wait.
RunMicrotask ==
    /\ (pc = "top" /\ (first \/ ticks = 0)) \/ pc = "drain"
    /\ micros > 0
    /\ micros' = micros - 1 /\ phase' = 3 /\ pc' = "micro" /\ first' = FALSE
    /\ UNCHANGED <<ticks, jobs, checks, timers, firing, imms, renames, done, wait, failed,
                   ops, kept>>

\* The drain ends; promise_entry_failed (promises.rs) may end the loop, whose
\* caller treats the rejection like an exception.
Drained ==
    /\ pc = "drain" /\ micros = 0
    /\ \/ pc' = "top" /\ UNCHANGED <<phase, failed, resumed>>
       \/ pc' = "done" /\ failed' = TRUE /\ UNCHANGED <<phase, resumed>>
       \/ Caught /\ pc' = "listener" /\ resumed' = TRUE /\ phase' = 0 /\ UNCHANGED failed
    /\ UNCHANGED <<first, queues, timers, firing, imms, renames, done, wait, ops,
                   app, cleared, wantRef, overtaken>>

\* Nothing to drain at the first checkpoint, but its ticks were skipped.
SkippedTicks ==
    /\ pc = "top" /\ first /\ micros = 0 /\ ticks > 0
    /\ first' = FALSE
    /\ UNCHANGED <<pc, phase, queues, timers, firing, imms, renames, done, wait, failed, ops, kept>>

\* The loop is past the tick and microtask queues.
PastCheckpoint == pc = "top" /\ ticks = 0 /\ micros = 0

RunJob ==
    /\ PastCheckpoint /\ jobs > 0
    /\ jobs' = jobs - 1 /\ phase' = 3 /\ pc' = "job" /\ first' = FALSE
    /\ UNCHANGED <<ticks, micros, checks, timers, firing, imms, renames, done, wait, failed,
                   ops, kept>>

\* Deferred checks are drained to the end; one may find its rejection
\* unhandled, or run the script's unhandledRejection handler.
RunCheck ==
    /\ (PastCheckpoint /\ jobs = 0) \/ pc = "checks"
    /\ checks > 0
    /\ checks' = checks - 1 /\ first' = FALSE
    /\ \/ pc' = "check" /\ UNCHANGED failed
       \/ pc' = "checks" /\ failed' = TRUE
    /\ UNCHANGED <<phase, ticks, micros, jobs, timers, firing, imms, renames, done, wait, ops, kept>>

Checked ==
    /\ pc = "checks" /\ checks = 0
    /\ pc' = IF failed THEN "done" ELSE "top"
    /\ UNCHANGED <<first, phase, queues, timers, firing, imms, renames, done, wait, failed, ops, kept>>

\* All four queues are empty: the loop may take a macrotask.
Quiet == PastCheckpoint /\ jobs = 0 /\ checks = 0

\* fs_renames_dispatch_one.  EVENT_PHASE keeps the value of the last callback.
RunIo ==
    /\ Quiet /\ done > 0
    /\ done' = done - 1 /\ renames' = renames - 1 /\ pc' = "io" /\ first' = FALSE
    /\ UNCHANGED <<phase, queues, timers, firing, imms, wait, failed, ops, kept>>

AnyWork == timers # {} \/ imms # {} \/ renames > 0  \* Mutant: unref is ignored.
HasReferencedWork ==
    (\E t \in timers : t.ref) \/ (\E i \in imms : i.ref) \/ renames > 0

\* Unreferenced timers and immediates do not keep the loop alive.
NoWork ==
    /\ Quiet /\ done = 0 /\ ~HasReferencedWork
    /\ pc' = "done" /\ first' = FALSE
    /\ UNCHANGED <<phase, queues, timers, firing, imms, renames, done, wait, failed, ops, kept>>

Polling == Quiet /\ done = 0 /\ HasReferencedWork
TurnTimers == {t \in timers : t.ahead = 0}
TurnImms == {i \in imms : i.ahead = 0}
DueTimers == {t \in TurnTimers : t.due <= 0}

FireTimer ==
    /\ Polling /\ DueTimers # {}
    /\ LET t == EarliestOf(TurnTimers) IN
       /\ timers' = timers \ {t}
       /\ firing' = [id |-> t.id, delay |-> t.delay, repeat |-> t.repeat, ref |-> t.ref,
                     refreshed |-> FALSE, cleared |-> FALSE]
       /\ overtaken' = overtaken \cup {<<i.id, t.id>> : i \in TurnImms}
    /\ phase' = 1 /\ pc' = "timer" /\ first' = FALSE
    /\ UNCHANGED <<queues, imms, renames, done, wait, failed, ops,
                   app, resumed, cleared, wantRef>>

FireImmediate ==
    /\ Polling /\ DueTimers = {} /\ TurnImms # {}
    /\ imms' = imms \ {OldestOf(TurnImms)}
    /\ phase' = 2 /\ pc' = "imm" /\ first' = FALSE
    /\ UNCHANGED <<queues, timers, firing, renames, done, wait, failed, ops, kept>>

\* Nothing is due.  Between this test and the wait below time may pass.
Idle ==
    /\ Polling /\ DueTimers = {} /\ TurnImms = {}
    /\ pc' = "idle" /\ phase' = 0 /\ first' = FALSE
    /\ UNCHANGED <<queues, timers, firing, imms, renames, done, wait, failed, ops, kept>>

HasFutureTimer == \E t \in timers : t.ahead > 0  \* Mutant: immediates are forgotten.
HasFutureTurn == (\E t \in timers : t.ahead > 0) \/ (\E i \in imms : i.ahead > 0)
NextOf(n) == IF n > 0 THEN n - 1 ELSE n

NextTurn ==
    /\ pc = "idle" /\ HasFutureTurn
    /\ timers' = {[t EXCEPT !.ahead = NextOf(@)] : t \in timers}
    /\ imms' = {[i EXCEPT !.ahead = NextOf(@)] : i \in imms}
    /\ pc' = "top"
    /\ UNCHANGED <<first, phase, queues, firing, renames, done, wait, failed, ops, kept>>

NextDue == EarliestOf(TurnTimers).due

\* checked_duration_since yields nothing for an instant already past, and
\* fs_renames_wait without a timeout lasts until a completion.
SignedTimeout == IF TurnTimers # {} THEN NextDue ELSE Forever  \* Mutant: unchecked subtraction.
Timeout == IF TurnTimers # {} /\ NextDue >= 0 THEN NextDue ELSE Forever

RenamesWait ==
    /\ pc = "idle" /\ ~HasFutureTurn /\ renames > 0
    /\ wait' = Timeout
    /\ pc' = "renameWait"
    /\ UNCHANGED <<first, phase, queues, timers, firing, imms, renames, done, failed, ops, kept>>

\* Mutant: a deadline already past is slept on like a missing one.
SleepOnPast ==
    /\ pc = "idle" /\ ~HasFutureTurn /\ renames = 0
    /\ pc' = IF TurnTimers = {} THEN "done" ELSE "sleep"
    /\ wait' = IF pc' = "sleep" THEN Timeout ELSE 0
    /\ UNCHANGED <<first, phase, queues, timers, firing, imms, renames, done, failed, ops, kept>>

\* Only timers are left: sleep to the next one, or leave if there is none.
Sleep ==
    /\ pc = "idle" /\ ~HasFutureTurn /\ renames = 0
    /\ pc' = IF TurnTimers = {} THEN "done" ELSE IF NextDue < 0 THEN "top" ELSE "sleep"
    /\ wait' = IF pc' = "sleep" THEN NextDue ELSE 0
    /\ UNCHANGED <<first, phase, queues, timers, firing, imms, renames, done, failed, ops, kept>>

Awake ==
    /\ \/ pc \in {"sleep", "renameWait"} /\ wait = 0
       \/ pc = "renameWait" /\ done > 0
    /\ pc' = "top" /\ wait' = 0
    /\ UNCHANGED <<first, phase, queues, timers, firing, imms, renames, done, failed, ops, kept>>

\* The end of run_event_loop, and finish.
Finish ==
    /\ pc = "done"
    /\ pc' = "finished"
    /\ phase' = 0
    /\ ticks' = 0 /\ micros' = 0 /\ jobs' = 0 /\ checks' = 0
    /\ timers' = {} /\ imms' = {} /\ renames' = 0 /\ done' = 0
    /\ UNCHANGED <<first, firing, wait, failed, ops, kept>>

-----------------------------------------------------------------------------
\* A worker thread of the rename pool completes a request.
CompleteRename ==
    /\ pc # "finished" /\ done < renames
    /\ done' = done + 1
    /\ UNCHANGED <<pc, first, phase, queues, timers, firing, imms, renames, wait, failed, ops, kept>>

\* Time passes, also while script code runs.
Tick ==
    /\ pc \notin {"done", "finished"}
    /\ \A t \in timers : t.due > -app.late
    /\ timers' = {[t EXCEPT !.due = @ - 1] : t \in timers}
    /\ wait' = IF wait \in {0, Forever} THEN wait ELSE wait - 1
    /\ UNCHANGED <<pc, first, phase, queues, firing, imms, renames, done, failed, ops, kept>>

LoopStep ==
    \/ Return \/ RunAgain \/ RunTick \/ RunMicrotask \/ Drained \/ SkippedTicks \/ RunJob \/ RunCheck
    \/ Checked \/ RunIo \/ NoWork \/ FireTimer \/ FireImmediate \/ Idle \/ NextTurn
    \/ RenamesWait \/ Sleep \/ Awake \/ Finish

Terminated == pc = "finished" /\ UNCHANGED vars

Next == ScriptCall \/ Throw \/ LoopStep \/ CompleteRename \/ Tick \/ Terminated

\* The thread runs, callbacks return, workers work and time passes.
Fairness == WF_vars(LoopStep) /\ WF_vars(CompleteRename) /\ WF_vars(Tick)

Spec == Init /\ [][Next]_vars
FairSpec == Spec /\ Fairness
-----------------------------------------------------------------------------
Turns == 0..(MaxTurn + 1)
TimerTasks == [id : Ids, ahead : Turns, due : Int, delay : Delays,
               repeat : BOOLEAN, ref : BOOLEAN]

TypeOK ==
    /\ app \in Programs /\ pc \in Places /\ first \in BOOLEAN /\ phase \in 0..4
    /\ ticks \in Nat /\ micros \in Nat /\ jobs \in Nat /\ checks \in Nat
    /\ timers \subseteq TimerTasks
    /\ firing \in [id : Ids, delay : Delays, repeat : BOOLEAN, ref : BOOLEAN,
                   refreshed : BOOLEAN, cleared : BOOLEAN] \cup {NoTimer}
    /\ imms \subseteq [id : Ids, ahead : Turns, ref : BOOLEAN]
    /\ renames \in Nat /\ done \in Nat /\ wait \in 0..Forever
    /\ failed \in BOOLEAN /\ resumed \in BOOLEAN /\ ops \in 0..MaxOps
    /\ cleared \subseteq Ids /\ wantRef \in [Ids -> BOOLEAN]
    /\ overtaken \subseteq Ids \X Ids

\* A cleared timer is gone for good: no re-arm or refresh brings it back, also
\* when the timer's own callback cleared it (timer_clear, timer_refresh, the
\* re-arm of run_event_loop_with_first_checkpoint).
ClearedStaysDead == \A t \in timers : t.id \notin cleared

\* ref and unref are never lost, in particular not the ones made while the
\* timer's own callback runs and its task is out of TIMER_TASKS.
RefsAreKept ==
    /\ \A t \in timers : t.ref = wantRef[t.id]
    /\ firing # NoTimer => firing.ref = wantRef[firing.id]

\* The loop leaves, unless it failed, only when nothing referenced and nothing
\* queued is left, at whichever of its exits.
KeepsAlive == (\E t \in timers : t.ref) \/ (\E i \in imms : i.ref) \/ renames > 0
NoEarlyExit ==
    pc = "done" /\ ~failed =>
        /\ ~KeepsAlive
        /\ ticks = 0 /\ micros = 0 /\ jobs = 0 /\ checks = 0

\* An immediate that waits in its turn is overtaken by each timer at most once:
\* no interval, late, refreshed or re-armed by its own callback, fires again
\* before it, and neither does one that outlives an uncaught exception, although
\* the turns are then counted anew (the turns of timer_schedule,
\* timer_set_immediate and run_event_loop_with_first_checkpoint).
OvertakenOnce ==
    [][pc # "timer" /\ pc' = "timer" =>
          \A i \in imms : <<i.id, firing'.id>> \notin overtaken]_vars

\* A referenced timer fires unless it is cleared, unreferenced, or the loop
\* fails: whatever intervals, ticks, microtasks and renames do meanwhile.
TimerFires ==
    \A i \in Ids :
        (\E t \in timers : t.id = i /\ t.ref) ~>
            (pc = "finished" \/ ~ \E t \in timers : t.id = i /\ t.ref)

\* A referenced immediate runs: late intervals do not starve the check phase.
ImmediateRuns ==
    \A i \in Ids :
        (\E t \in imms : t.id = i /\ t.ref) ~>
            (pc = "finished" \/ ~ \E t \in imms : t.id = i /\ t.ref)

\* Unreferenced timers, intervals included, do not keep the process alive.
UnrefLetsGo == ~KeepsAlive ~> pc = "finished" \/ KeepsAlive
=============================================================================
