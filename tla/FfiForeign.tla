----------------------------- MODULE FfiForeign -----------------------------
(***************************************************************************)
(* Retained native callbacks that a library invokes from its own threads    *)
(* (packages/runtime-rust/src/ffi_foreign.rs).  A foreign thread never runs  *)
(* script code: it posts a copy of its arguments to a queue guarded by a     *)
(* mutex, and the script thread's event loop delivers the queue later.       *)
(*                                                                         *)
(* Shared under the mutex: active, queue, stopping (FfiForeignShared).      *)
(* Confined to the script thread: regs (FFI_FOREIGN_REGISTRATIONS), cur and  *)
(* script (where the thread is).  Every critical section is one action; the  *)
(* delivery of a call is three, because the mutex is free while the closure  *)
(* runs.                                                                    *)
(***************************************************************************)
EXTENDS Naturals, Sequences, FiniteSets

CONSTANTS Keys,       \* a (binding key, closure identity) pair per element
          MaxTokens,  \* bound: registrations ever committed
          MaxPosts    \* bound: posts ever accepted

ASSUME FfiAssumption == MaxTokens \in Nat /\ MaxPosts \in Nat

VARIABLES active,     \* tokens a post is accepted for
          queue,      \* accepted calls, oldest first
          stopping,   \* posting is disarmed
          regs,       \* registrations; commit order is token order
          nextToken,  \* FFI_FOREIGN_NEXT_TOKEN, global: survives a session
          script,     \* what the script thread is doing
          cur,        \* the call popped by the dispatch under way
          notified,   \* the condition variable was signalled while it waited
          threw,      \* history: token of the call whose throw the loop survived
          base,       \* history: first token of the current session
          posted,     \* history: calls accepted so far
          taken       \* history: calls popped, or dropped by a teardown

shared == <<active, queue, stopping>>
vars == <<active, queue, stopping, regs, nextToken, script, cur, notified,
          threw, base, posted, taken>>

Tokens == 1..MaxTokens
Calls == [token : Tokens, no : 1..MaxPosts]
NoCall == [token |-> 0, no |-> 0]
Registrations == [key : Keys, token : Tokens, released : BOOLEAN]

\* Places of the script thread: user code or another part of the loop; the
\* closure of cur; the sweep after it; blocked in ffi_foreign_wait; unwinding
\* out of the loop after the closure threw; between two sessions.
ScriptStates == {"run", "callback", "sweep", "waiting", "unwound", "stopped"}

QueuedTokens == {queue[i].token : i \in DOMAIN queue}
LiveRegs(k) == {r \in regs : r.key = k /\ ~r.released}

\* ffi_foreign_callback: the first registration of the key not yet released.
FirstLive(k) == {r \in LiveRegs(k) : \A s \in LiveRegs(k) : r.token <= s.token}

-----------------------------------------------------------------------------
\* Mutant: token zero is handed out.
InitZeroToken ==
    /\ active = {} /\ queue = <<>> /\ stopping = FALSE
    /\ regs = {} /\ nextToken = 0
    /\ script = "run" /\ cur = NoCall /\ notified = FALSE
    /\ threw = 0 /\ base = 1 /\ posted = 0 /\ taken = 0

Init ==
    /\ active = {} /\ queue = <<>> /\ stopping = FALSE
    /\ regs = {} /\ nextToken = 1
    /\ script = "run" /\ cur = NoCall /\ notified = FALSE
    /\ threw = 0 /\ base = 1 /\ posted = 0 /\ taken = 0

\* Script code runs in a closure under dispatch and everywhere else in "run".
InScript == script \in {"run", "callback"}

\* A binding call with a closure: the token is taken and committed before the
\* native function learns it, so no post can precede its registration.
Commit(k) ==
    /\ InScript /\ nextToken <= MaxTokens
    /\ regs' = regs \cup {[key |-> k, token |-> nextToken, released |-> FALSE]}
    /\ active' = active \cup {nextToken}
    /\ nextToken' = nextToken + 1
    /\ UNCHANGED <<queue, stopping, script, cur, notified, threw, base, posted, taken>>

\* What is left of a registration once it is released: the pin stays, marked,
\* while calls of its token are queued.
Unpinned(r) == {}  \* Mutant: the pin goes at once.
StaysPinned(r) == {s \in {[r EXCEPT !.released = TRUE]} : r.token \in QueuedTokens}

\* Deactivating the token is what stops further posts.
Deactivate(t) == active \ {t}

\* The paired release binding.  Without a live registration it throws.
Release(k) ==
    /\ InScript
    /\ \E r \in FirstLive(k) :
       /\ active' = Deactivate(r.token)
       /\ regs' = (regs \ {r}) \cup StaysPinned(r)
    /\ UNCHANGED <<queue, stopping, nextToken, script, cur, notified, threw, base, posted, taken>>

\* notify_one wakes the script thread if it is blocked.
NoSignal == notified  \* Mutant: the post does not notify.
Signal == notified \/ script = "waiting"

\* ffi_foreign_post, from any thread that was ever handed the token t: library
\* threads may be late, also by a whole session.
Post(t) ==
    /\ t < nextToken /\ posted < MaxPosts
    /\ ~stopping /\ t \in active
    /\ queue' = Append(queue, [token |-> t, no |-> posted + 1])
    /\ posted' = posted + 1
    /\ notified' = Signal
    /\ UNCHANGED <<active, stopping, regs, nextToken, script, cur, threw, base, taken>>

\* Mutant: the newest call is taken first.
DispatchNewest ==
    /\ script = "run" /\ queue # <<>>
    /\ cur' = queue[Len(queue)]
    /\ queue' = SubSeq(queue, 1, Len(queue) - 1)
    /\ taken' = taken + 1
    /\ script' = IF \E r \in regs : r.token = queue[Len(queue)].token THEN "callback" ELSE "sweep"
    /\ UNCHANGED <<active, stopping, regs, nextToken, notified, threw, base, posted>>

\* ffi_foreign_dispatch_one, first critical section: pop, and look the closure
\* up by token.
DispatchPop ==
    /\ script = "run" /\ queue # <<>>
    /\ cur' = Head(queue)
    /\ queue' = Tail(queue)
    /\ taken' = taken + 1
    /\ script' = IF \E r \in regs : r.token = Head(queue).token THEN "callback" ELSE "sweep"
    /\ UNCHANGED <<active, stopping, regs, nextToken, notified, threw, base, posted>>

\* The closure returns, or throws and the unwind skips the sweep.
CallbackReturn ==
    /\ script = "callback"
    /\ script' = "sweep"
    /\ UNCHANGED <<shared, regs, nextToken, cur, notified, threw, base, posted, taken>>

CallbackThrow ==
    /\ script = "callback"
    /\ script' = "unwound"
    /\ UNCHANGED <<shared, regs, nextToken, cur, notified, threw, base, posted, taken>>

\* The entry point of the program catches the throw, once, when its
\* uncaughtException listeners take it: they run, then the loop runs on.
\* Nobody makes up for the sweep.
Resume ==
    /\ script = "unwound" /\ threw = 0
    /\ script' = "run" /\ cur' = NoCall
    /\ threw' = cur.token
    /\ UNCHANGED <<shared, regs, nextToken, notified, base, posted, taken>>

\* The registrations the sweep retains: a released pin goes with the last
\* queued call of its token.
RetainAll == regs  \* Mutant: the sweep is forgotten.
Retained ==
    {r \in regs : cur.token \in QueuedTokens \/ r.token # cur.token \/ ~r.released}

\* ffi_foreign_dispatch_one, last critical section.
DispatchSweep ==
    /\ script = "sweep"
    /\ regs' = Retained
    /\ script' = "run"
    /\ cur' = NoCall
    /\ UNCHANGED <<shared, nextToken, notified, threw, base, posted, taken>>

\* ffi_foreign_wait: the test and the wait are one critical section.
Wait ==
    /\ script = "run"
    /\ queue = <<>> /\ active # {} /\ ~stopping
    /\ script' = "waiting"
    /\ notified' = FALSE
    /\ UNCHANGED <<shared, regs, nextToken, cur, threw, base, posted, taken>>

\* The wait ends on a signal, and also on a timeout or spuriously.
WakeUp ==
    /\ script = "waiting"
    /\ script' = "run"
    /\ UNCHANGED <<shared, regs, nextToken, cur, notified, threw, base, posted, taken>>

\* Mutant: the calls still queued survive the teardown.
FinishKeepsQueue ==
    /\ script \in {"run", "unwound"}
    /\ stopping' = TRUE
    /\ active' = {} /\ regs' = {}
    /\ script' = "stopped"
    /\ cur' = NoCall /\ threw' = 0
    /\ UNCHANGED <<queue, nextToken, notified, base, posted, taken>>

\* ffi_foreign_finish, reached from the end of the loop or from an unwind.
Finish ==
    /\ script \in {"run", "unwound"}
    /\ stopping' = TRUE
    /\ active' = {} /\ queue' = <<>> /\ regs' = {}
    /\ script' = "stopped"
    /\ cur' = NoCall /\ threw' = 0
    /\ taken' = posted
    /\ UNCHANGED <<nextToken, notified, base, posted>>

\* ffi_foreign_init: the next session of the same process.
InitSession ==
    /\ script = "stopped"
    /\ stopping' = FALSE
    /\ active' = {} /\ queue' = <<>> /\ regs' = {}
    /\ script' = "run"
    /\ base' = nextToken /\ threw' = 0
    /\ UNCHANGED <<nextToken, cur, notified, posted, taken>>

Next ==
    \/ \E k \in Keys : Commit(k) \/ Release(k)
    \/ \E t \in Tokens : Post(t)
    \/ DispatchPop \/ CallbackReturn \/ CallbackThrow \/ Resume \/ DispatchSweep
    \/ Wait \/ WakeUp
    \/ Finish \/ InitSession

\* The loop keeps dispatching, closures end, and a signalled wait returns.
\* Nothing is assumed of the library threads, of timeouts or of teardown.
Fairness ==
    /\ WF_vars(DispatchPop)
    /\ WF_vars(CallbackReturn)
    /\ WF_vars(DispatchSweep)
    /\ WF_vars(notified /\ WakeUp)
    /\ WF_vars(script = "unwound" /\ (Finish \/ Resume))

Spec == Init /\ [][Next]_vars
FairSpec == Spec /\ Fairness
-----------------------------------------------------------------------------
TypeOK ==
    /\ active \subseteq Tokens
    /\ queue \in Seq(Calls)
    /\ stopping \in BOOLEAN
    /\ regs \subseteq Registrations
    /\ nextToken \in 1..(MaxTokens + 1)
    /\ script \in ScriptStates
    /\ cur \in Calls \cup {NoCall}
    /\ notified \in BOOLEAN /\ threw \in 0..MaxTokens
    /\ base \in 1..(MaxTokens + 1)
    /\ posted \in 0..MaxPosts /\ taken \in 0..MaxPosts

\* An accepted call always finds its closure: the registration of every queued
\* token is still pinned, whatever releases happened after the post
\* (ffi_release_foreign_callback, ffi_foreign_dispatch_one).
Pinned == \A i \in DOMAIN queue : \E r \in regs : r.token = queue[i].token

\* The mutex-guarded active set and the thread-confined registrations agree:
\* a token accepts posts exactly when it has an unreleased registration.
ActiveMatchesRegs == active = {r.token : r \in {s \in regs : ~s.released}}

\* A released closure is pinned only by calls still to be delivered or by the
\* one under dispatch, with one exception: when the last call of a released
\* closure throws and the loop runs on, its pin stays until teardown.
NoLeakedPin ==
    \A r \in regs : r.released => r.token \in QueuedTokens \cup {cur.token, threw}

\* Delivery is FIFO by enqueue order, with no call lost or repeated: the queue
\* is exactly the accepted calls not yet taken, in order.
FifoExactlyOnce ==
    /\ Len(queue) = posted - taken
    /\ \A i \in DOMAIN queue : queue[i].no = taken + i

\* A blocked script thread has nothing to deliver, or has been signalled.
NoLostWakeup == script = "waiting" /\ queue # <<>> => notified

\* No call crosses a teardown: a late post of a finished session is dropped,
\* also after the next session started with a reused shared state.
SessionIsolation ==
    /\ \A i \in DOMAIN queue : queue[i].token >= base
    /\ script = "stopped" => queue = <<>>

\* Every accepted call is eventually delivered, or dropped by a teardown.
EventuallyTaken == \A n \in 1..MaxPosts : posted >= n ~> taken >= n
=============================================================================
