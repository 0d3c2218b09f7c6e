------------------------------ MODULE LoopWait ------------------------------
(***************************************************************************)
(* How the event loop of the Rust runtime chooses what to block on when it  *)
(* has nothing to run (event_loop.rs, lines 596 to 745, and the *_wait       *)
(* functions).  Each source is either pending (it keeps the loop alive) or   *)
(* not, and an event of it is ready or not.  The loop has one thread and     *)
(* blocks in the wait of one source only; the other sources are looked at     *)
(* when that wait ends.                                                     *)
(*                                                                         *)
(* One timer stands for the earliest deadline.  Time is abstracted to what   *)
(* the waits compare: the deadline lies ahead or is past.                   *)
(***************************************************************************)
EXTENDS Naturals, Sequences

CONSTANTS Programs,   \* sets of sources a program may have pending together
          Signals,    \* TRUE if the program has a process signal listener
          Timers      \* TRUE if the program arms a timer

AllSources == {"fs_renames", "fs_watchers", "stdin", "net", "dgram", "child_streams",
               "child_writers", "child_ipc", "children", "ffi"}

ASSUME WaitAssumption ==
    Programs \subseteq SUBSET AllSources /\ Signals \in BOOLEAN /\ Timers \in BOOLEAN

Sources == UNION Programs
Combinations == UNION {SUBSET P : P \in Programs}

VARIABLES pc,       \* "top", "idle" (nothing was ready), "wait", "exit"
          pending,  \* sources that keep the loop alive
          ready,    \* pending sources with an event to dispatch
          timer,    \* "none", "ahead" or "past"
          on,       \* the source whose wait blocks the loop, or "sleep"
          timeout   \* "brief" (a quantum or a cap), "deadline" or "forever"

vars == <<pc, pending, ready, timer, on, timeout>>

\* The order in which an iteration polls: children, the timer and ffi come
\* after the test for referenced work.
DispatchOrder == <<"fs_renames", "fs_watchers", "stdin", "net", "dgram", "child_streams",
                   "child_writers", "child_ipc", "children", "timer", "ffi">>
ReadyNow == ready \cup {x \in {"timer"} : timer = "past"}
FirstReady(s) ==
    \E i \in DOMAIN DispatchOrder :
        /\ DispatchOrder[i] = s /\ s \in ReadyNow
        /\ \A j \in 1..(i - 1) : DispatchOrder[j] \notin ReadyNow

HasReferencedWork == pending # {} \/ timer # "none"
TimerStates == IF Timers THEN {"none", "ahead"} ELSE {"none"}

Init ==
    /\ pc = "top" /\ ready = {} /\ on = "sleep" /\ timeout = "brief"
    /\ pending \in Combinations
    /\ timer \in TimerStates

\* Mutant: closing a source leaves its event behind.
CallbackKeepsReady(s) ==
    /\ pending' \in Combinations
    /\ ready' = ready \ {s}
    /\ timer' \in TimerStates \cup (IF s = "timer" THEN {} ELSE {timer})
    /\ pc' = "top"
    /\ UNCHANGED <<on, timeout>>

\* Dispatching an event runs script code, which may open or close any source
\* and arm or clear the timer.  A fired timer is gone unless armed again.
Callback(s) ==
    /\ pending' \in Combinations
    /\ ready' = (ready \ {s}) \cap pending'
    /\ timer' \in TimerStates \cup (IF s = "timer" THEN {} ELSE {timer})
    /\ pc' = "top"
    /\ UNCHANGED <<on, timeout>>

Dispatch(s) == pc = "top" /\ FirstReady(s) /\ Callback(s)

Leave ==
    /\ pc = "top" /\ ~HasReferencedWork
    /\ pc' = "exit"
    /\ UNCHANGED <<pending, ready, timer, on, timeout>>

\* Nothing was ready when the iteration looked; it goes on to choose a wait.
FoundNothing ==
    /\ pc = "top" /\ HasReferencedWork /\ ReadyNow = {}
    /\ pc' = "idle"
    /\ UNCHANGED <<pending, ready, timer, on, timeout>>

\* The remaining time up to next_due, the earlier of the timer's deadline and
\* the cap of the signal listeners.  A deadline already past has none, which
\* the waits take for no deadline at all.
Remaining ==
    IF timer = "past" THEN "forever"
    ELSE IF Signals THEN "brief"
    ELSE IF timer = "ahead" THEN "deadline" ELSE "forever"

\* The sources for which ffi_foreign_wait and stdin_wait poll with a quantum.
PolledSockets == {"net", "children", "child_writers", "child_ipc"}  \* Mutant: two are forgotten.
Polled == {"net", "dgram", "children", "child_streams", "child_writers", "child_ipc"}
Cooperative == pending \cap Polled # {}
ChildSources == {"children", "child_streams", "child_writers", "child_ipc"}

\* Block in the wait of s.  The network waits fall back to a quantum when
\* something of theirs cannot be polled (net_poll, dgram_poll).
BlockOn(s, lengths) ==
    /\ pc = "idle"
    /\ on' = s /\ timeout' \in lengths /\ pc' = "wait"
    /\ UNCHANGED <<pending, ready, timer>>

WaitFfi ==
    /\ "ffi" \in pending
    /\ IF "ffi" \in ready
         THEN pc = "idle" /\ pc' = "top" /\ UNCHANGED <<pending, ready, timer, on, timeout>>
         ELSE BlockOn("ffi", {IF Cooperative THEN "brief" ELSE Remaining})
WaitRenames ==
    /\ "ffi" \notin pending /\ "fs_renames" \in pending
    /\ BlockOn("fs_renames", {Remaining})
WaitWatchers ==
    /\ pending \cap {"ffi", "fs_renames"} = {} /\ "fs_watchers" \in pending
    /\ BlockOn("fs_watchers", {"brief"})
WaitStdin ==
    /\ pending \cap {"ffi", "fs_renames", "fs_watchers"} = {} /\ "stdin" \in pending
    /\ BlockOn("stdin", {IF Cooperative THEN "brief" ELSE Remaining})
WaitNet ==
    /\ pending \cap {"ffi", "fs_renames", "fs_watchers", "stdin"} = {} /\ "net" \in pending
    /\ BlockOn("net", {Remaining, "brief"})
WaitDgram ==
    /\ pending \cap {"ffi", "fs_renames", "fs_watchers", "stdin", "net"} = {}
    /\ "dgram" \in pending
    /\ BlockOn("dgram", {Remaining, "brief"})
WaitChildren ==
    /\ pending # {} /\ pending \subseteq ChildSources
    /\ BlockOn("children", {"brief"})

\* No source is pending: sleep to the deadline, if it is still ahead.
SleepOn ==
    /\ pc = "idle" /\ pending = {}
    /\ IF timer = "past"
         THEN pc' = "top" /\ UNCHANGED <<on, timeout>>
         ELSE pc' = "wait" /\ on' = "sleep" /\ timeout' = Remaining
    /\ UNCHANGED <<pending, ready, timer>>

\* The sources whose events end the wait: net_poll also polls dgram sockets;
\* the rest sleep.
WatchedButRenames(s) ==  \* Mutant: a completion does not notify the waiting loop.
    CASE s = "net" -> {"net", "dgram"}
      [] s \in {"ffi", "stdin", "dgram"} -> {s}
      [] OTHER -> {}
Watched(s) ==
    CASE s = "net" -> {"net", "dgram"}
      [] s \in {"ffi", "fs_renames", "stdin", "dgram"} -> {s}
      [] OTHER -> {}

EndOfWait ==
    /\ pc = "wait"
    /\ \/ ready \cap (Watched(on) \ {"stdin"}) # {}
       \/ timeout = "brief"
       \/ timeout = "deadline" /\ timer = "past"
    /\ pc' = "top"
    /\ UNCHANGED <<pending, ready, timer, on, timeout>>

\* stdin_wait hands the event it received to its listeners on the spot.
StdinReceived == pc = "wait" /\ on = "stdin" /\ "stdin" \in ready /\ Callback("stdin")

\* The outside world, at any time.
Arrive(s) ==
    /\ pc # "exit" /\ s \in pending \ ready
    /\ ready' = ready \cup {s}
    /\ UNCHANGED <<pc, pending, timer, on, timeout>>

Elapse ==
    /\ pc # "exit" /\ timer = "ahead"
    /\ timer' = "past"
    /\ UNCHANGED <<pc, pending, ready, on, timeout>>

Terminated == pc = "exit" /\ UNCHANGED vars

LoopStep ==
    \/ \E s \in Sources \cup {"timer"} : Dispatch(s)
    \/ Leave \/ FoundNothing
    \/ WaitFfi \/ WaitRenames \/ WaitWatchers \/ WaitStdin \/ WaitNet \/ WaitDgram
    \/ WaitChildren \/ SleepOn \/ EndOfWait \/ StdinReceived

Next == LoopStep \/ (\E s \in Sources : Arrive(s)) \/ Elapse \/ Terminated

\* The thread runs, time passes and a worker ends every rename; no other event
\* need ever arrive.
Fairness ==
    /\ WF_vars(LoopStep) /\ WF_vars(Elapse)
    /\ WF_vars("fs_renames" \in Sources /\ Arrive("fs_renames"))

Spec == Init /\ [][Next]_vars
FairSpec == Spec /\ Fairness
-----------------------------------------------------------------------------
TypeOK ==
    /\ pc \in {"top", "idle", "wait", "exit"}
    /\ pending \subseteq Sources /\ ready \subseteq pending
    /\ timer \in {"none", "ahead", "past"}
    /\ on \in Sources \cup {"children", "sleep"}
    /\ timeout \in {"brief", "deadline", "forever"}

\* A wait without limit sees the events of every pending source: those it does
\* not watch itself would be delivered only by accident.  The wait for a rename
\* has its limit in the rename.
NoBlindWait ==
    pc = "wait" /\ timeout = "forever" /\ on # "fs_renames" => pending \subseteq Watched(on)

\* A blocked loop wakes up for an event of any pending source.
WakesForEvents ==
    \A s \in Sources : (pc = "wait" /\ s \in ready) ~> pc # "wait"

\* tests/dogfood/rust-native.md: "Signal listeners cap blocking event-loop
\* waits at 50 ms."
SignalsCapWaits == Signals => ~(pc = "wait" /\ timeout = "forever")
=============================================================================
