-------------------------- MODULE FfiForeignProofs --------------------------
(***************************************************************************)
(* Proofs about FfiForeign, for any keys, tokens and numbers of posts.       *)
(***************************************************************************)
EXTENDS FfiForeign, TLAPS

-----------------------------------------------------------------------------
\* What the code relies on without saying so, and what the proofs need beyond the
\* properties: tokens are handed out once and in order (so two registrations
\* never share one), a disarmed queue is empty and nothing is under dispatch
\* outside a dispatch.
OneRegPerToken == \A r, s \in regs : r.token = s.token => r = s
TokensBelow ==
    /\ base <= nextToken
    /\ \A r \in regs : base <= r.token /\ r.token < nextToken
Quiescent ==
    /\ (script = "stopped") <=> stopping
    /\ stopping => active = {} /\ queue = <<>> /\ regs = {}
    /\ cur # NoCall <=> script \in {"callback", "sweep", "unwound"}

\* The inductive invariant.
IInv ==
    /\ TypeOK /\ OneRegPerToken /\ TokensBelow /\ Quiescent
    /\ Pinned /\ ActiveMatchesRegs /\ NoLeakedPin /\ FifoExactlyOnce
    /\ NoLostWakeup /\ SessionIsolation

\* A call is appended at the end, and leaves at the front.
LEMMA AppendedCalls ==
    ASSUME NEW q \in Seq(Calls), NEW c \in Calls
    PROVE  /\ Append(q, c) \in Seq(Calls)
           /\ Len(Append(q, c)) = Len(q) + 1
           /\ DOMAIN Append(q, c) = 1..(Len(q) + 1)
           /\ \A i \in DOMAIN q : Append(q, c)[i] = q[i]
           /\ Append(q, c)[Len(q) + 1] = c
  OBVIOUS

LEMMA RemainingCalls ==
    ASSUME NEW q \in Seq(Calls), q # <<>>
    PROVE  /\ Head(q) \in Calls /\ Head(q) = q[1]
           /\ Tail(q) \in Seq(Calls)
           /\ Len(Tail(q)) = Len(q) - 1
           /\ DOMAIN Tail(q) = 1..(Len(q) - 1)
           /\ \A i \in DOMAIN Tail(q) : i + 1 \in DOMAIN q /\ Tail(q)[i] = q[i + 1]
           /\ Len(q) > 0
  OBVIOUS

\* The initial state satisfies the invariant (ffi_foreign_init).
LEMMA InitIInv == Init => IInv
  <1> SUFFICES ASSUME Init PROVE IInv
    OBVIOUS
  <1> USE DEF Init
  <1>1. TypeOK
    <2>1. queue \in Seq(Calls)
      OBVIOUS
    <2>2. 1 \in 1..(MaxTokens + 1) /\ 0 \in 0..MaxPosts /\ 0 \in 0..MaxTokens
      BY FfiAssumption
    <2> QED
      BY <2>1, <2>2 DEF TypeOK, ScriptStates
  <1>2. OneRegPerToken /\ TokensBelow /\ Quiescent
    BY DEF OneRegPerToken, TokensBelow, Quiescent
  <1>3. Pinned /\ NoLeakedPin /\ FifoExactlyOnce /\ NoLostWakeup /\ SessionIsolation
    BY DEF Pinned, NoLeakedPin, FifoExactlyOnce, NoLostWakeup, SessionIsolation
  <1>4. ActiveMatchesRegs
    BY DEF ActiveMatchesRegs
  <1> QED
    BY <1>1, <1>2, <1>3, <1>4 DEF IInv

\* Every step keeps the types (all of ffi_foreign.rs).  That no more calls are
\* taken than were posted takes the order of the queue.
LEMMA NextTypeOK == TypeOK /\ FifoExactlyOnce /\ [Next]_vars => TypeOK'
  <1> SUFFICES ASSUME TypeOK, FifoExactlyOnce, [Next]_vars PROVE TypeOK'
    OBVIOUS
  <1> USE FfiAssumption DEF TypeOK, Tokens
  <1>1. ASSUME NEW k \in Keys, Commit(k) PROVE TypeOK'
    <2>1. nextToken \in Tokens
      BY <1>1 DEF Commit
    <2>2. [key |-> k, token |-> nextToken, released |-> FALSE] \in Registrations
      BY <2>1 DEF Registrations
    <2>3. nextToken' \in 1..(MaxTokens + 1)
      BY <1>1 DEF Commit
    <2> QED
      BY <1>1, <2>1, <2>2, <2>3 DEF Commit
  <1>2. ASSUME NEW k \in Keys, Release(k) PROVE TypeOK'
    <2>1. PICK r \in regs : active' = Deactivate(r.token)
                             /\ regs' = (regs \ {r}) \cup StaysPinned(r)
      BY <1>2 DEF Release, FirstLive, LiveRegs
    <2>2. [r EXCEPT !.released = TRUE] \in Registrations
      BY DEF Registrations
    <2> QED
      BY <1>2, <2>1, <2>2 DEF Release, StaysPinned, Deactivate
  <1>3. ASSUME NEW t \in Tokens, Post(t) PROVE TypeOK'
    <2>1. [token |-> t, no |-> posted + 1] \in Calls
      BY <1>3 DEF Post, Calls
    <2>2. queue' \in Seq(Calls)
      BY <1>3, <2>1, AppendedCalls DEF Post
    <2>3. notified' \in BOOLEAN
      BY <1>3 DEF Post, Signal
    <2> QED
      BY <1>3, <2>2, <2>3 DEF Post
  <1>4. CASE DispatchPop
    <2>1. Head(queue) \in Calls /\ Tail(queue) \in Seq(Calls) /\ Len(queue) > 0
      BY <1>4, RemainingCalls DEF DispatchPop
    <2>2. taken' \in 0..MaxPosts
      BY <1>4, <2>1 DEF DispatchPop, FifoExactlyOnce
    <2> QED
      BY <1>4, <2>1, <2>2 DEF DispatchPop, ScriptStates
  <1>5. CASE CallbackReturn \/ CallbackThrow \/ WakeUp
    BY <1>5 DEF CallbackReturn, CallbackThrow, WakeUp, shared, ScriptStates
  <1>11. CASE Resume
    <2>1. threw' \in 0..MaxTokens
      BY <1>11 DEF Resume, Calls, NoCall
    <2> QED
      BY <1>11, <2>1 DEF Resume, shared, ScriptStates
  <1>6. CASE DispatchSweep
    BY <1>6 DEF DispatchSweep, Retained, shared, ScriptStates
  <1>7. CASE Wait
    BY <1>7 DEF Wait, shared, ScriptStates
  <1>8. CASE Finish
    BY <1>8 DEF Finish, ScriptStates
  <1>9. CASE InitSession
    <2>1. queue' \in Seq(Calls) /\ base' \in 1..(MaxTokens + 1) /\ threw' \in 0..MaxTokens
      BY <1>9 DEF InitSession
    <2> QED
      BY <1>9, <2>1 DEF InitSession, ScriptStates
  <1>10. CASE UNCHANGED vars
    BY <1>10 DEF vars
  <1> QED
    BY <1>1, <1>2, <1>3, <1>4, <1>5, <1>6, <1>7, <1>8, <1>9, <1>10, <1>11 DEF Next

\* What the conjuncts of the invariant other than the types say together.
Safe ==
    /\ OneRegPerToken /\ TokensBelow /\ Quiescent
    /\ Pinned /\ ActiveMatchesRegs /\ NoLeakedPin /\ FifoExactlyOnce
    /\ NoLostWakeup /\ SessionIsolation

\* A new registration takes a token no other has (ffi_commit_foreign_callback).
LEMMA CommitSafe ==
    ASSUME IInv, NEW k \in Keys, Commit(k)
    PROVE  Safe'
  <1> DEFINE new == [key |-> k, token |-> nextToken, released |-> FALSE]
  <1> USE DEF IInv, Commit
  <1>1. \A r \in regs : r.token \in Nat /\ r.token # nextToken
    BY DEF TypeOK, TokensBelow, Registrations, Tokens
  <1>2. OneRegPerToken'
    <2> SUFFICES ASSUME NEW r \in regs \cup {new}, NEW s \in regs \cup {new},
                        r.token = s.token
                 PROVE  r = s
      BY DEF OneRegPerToken
    <2>1. new.token = nextToken
      OBVIOUS
    <2> QED
      BY <1>1, <2>1 DEF OneRegPerToken
  <1>3. TokensBelow'
    BY <1>1 DEF TypeOK, TokensBelow
  <1>4. Quiescent'
    BY DEF Quiescent, InScript
  <1>5. Pinned'
    BY DEF Pinned
  <1>6. ActiveMatchesRegs'
    <2>1. new.token = nextToken /\ ~new.released
      OBVIOUS
    <2>2. regs' = regs \cup {new} /\ active' = active \cup {nextToken}
      OBVIOUS
    <2> HIDE DEF new
    <2> QED
      BY <2>1, <2>2 DEF ActiveMatchesRegs
  <1>7. NoLeakedPin'
    BY DEF NoLeakedPin, QueuedTokens
  <1>8. FifoExactlyOnce' /\ NoLostWakeup' /\ SessionIsolation'
    BY DEF FifoExactlyOnce, NoLostWakeup, SessionIsolation
  <1> QED
    BY <1>2, <1>3, <1>4, <1>5, <1>6, <1>7, <1>8 DEF Safe

\* A release leaves the pin, marked, exactly when calls of its token are queued
\* (ffi_release_foreign_callback).
LEMMA ReleaseSafe ==
    ASSUME IInv, NEW k \in Keys, Release(k)
    PROVE  Safe'
  <1> USE DEF IInv
  <1>1. PICK r \in regs : /\ ~r.released
                          /\ active' = active \ {r.token}
                          /\ regs' = (regs \ {r}) \cup StaysPinned(r)
    BY DEF Release, FirstLive, LiveRegs, Deactivate
  <1> DEFINE marked == [r EXCEPT !.released = TRUE]
  <1>2. /\ marked.token = r.token /\ marked.released
        /\ regs' \subseteq (regs \ {r}) \cup {marked}
        /\ regs \ {r} \subseteq regs'
        /\ r.token \in QueuedTokens => marked \in regs'
        /\ marked \in regs' => r.token \in QueuedTokens
    <2>1. marked.token = r.token /\ marked.released
      BY DEF TypeOK, Registrations
    <2>2. marked \notin regs
      BY <1>1, <2>1 DEF OneRegPerToken
    <2> QED
      BY <1>1, <2>1, <2>2 DEF StaysPinned
  <1>3. OneRegPerToken'
    BY <1>2 DEF OneRegPerToken
  <1>4. TokensBelow'
    BY <1>2 DEF TokensBelow, Release
  <1>5. Quiescent'
    BY DEF Quiescent, Release, InScript
  <1>6. Pinned'
    <2> SUFFICES ASSUME NEW i \in DOMAIN queue
                 PROVE  \E s \in regs' : s.token = queue[i].token
      BY DEF Pinned, Release
    <2>1. PICK s \in regs : s.token = queue[i].token
      BY DEF Pinned
    <2>2. CASE s = r
      BY <1>2, <2>1, <2>2 DEF QueuedTokens
    <2> QED
      BY <1>2, <2>1, <2>2
  <1>7. ActiveMatchesRegs'
    <2> DEFINE Unreleased == {s \in regs : ~s.released}
               UnreleasedNext == {s \in regs' : ~s.released}
    <2>1. UnreleasedNext = Unreleased \ {r}
      BY <1>1, <1>2
    <2>2. \A s \in Unreleased \ {r} : s.token # r.token
      BY DEF OneRegPerToken
    <2>3. {s.token : s \in Unreleased \ {r}} = {s.token : s \in Unreleased} \ {r.token}
      BY <1>1, <2>2
    <2> QED
      BY <1>1, <2>1, <2>3 DEF ActiveMatchesRegs
  <1>8. NoLeakedPin'
    BY <1>2 DEF NoLeakedPin, QueuedTokens, Release
  <1>9. FifoExactlyOnce' /\ NoLostWakeup' /\ SessionIsolation'
    BY DEF FifoExactlyOnce, NoLostWakeup, SessionIsolation, Release
  <1> QED
    BY <1>3, <1>4, <1>5, <1>6, <1>7, <1>8, <1>9 DEF Safe

\* A post is accepted only for a pinned token of this session, goes to the end of
\* the queue and wakes the loop (ffi_foreign_post).
LEMMA PostSafe ==
    ASSUME IInv, NEW t \in Tokens, Post(t)
    PROVE  Safe'
  <1> DEFINE call == [token |-> t, no |-> posted + 1]
  <1> USE DEF IInv
  <1>1. call \in Calls
    BY FfiAssumption DEF Post, Calls, TypeOK
  <1>2. /\ Len(queue') = Len(queue) + 1
        /\ DOMAIN queue' = 1..(Len(queue) + 1)
        /\ \A i \in DOMAIN queue : queue'[i] = queue[i]
        /\ queue'[Len(queue) + 1] = call
    BY <1>1, AppendedCalls DEF Post, TypeOK
  <1>3. Len(queue) \in Nat /\ DOMAIN queue = 1..Len(queue)
    BY DEF TypeOK
  <1>4. \A i \in DOMAIN queue' : i \in DOMAIN queue \/ i = Len(queue) + 1
    BY <1>2, <1>3
  <1>5. PICK r \in regs : r.token = t
    BY DEF Post, ActiveMatchesRegs
  <1>6. OneRegPerToken' /\ TokensBelow' /\ ActiveMatchesRegs'
    BY DEF Post, OneRegPerToken, TokensBelow, ActiveMatchesRegs
  <1>7. Quiescent'
    BY DEF Post, Quiescent
  <1>8. Pinned'
    <2> SUFFICES ASSUME NEW i \in DOMAIN queue'
                 PROVE  \E s \in regs : s.token = queue'[i].token
      BY DEF Pinned, Post
    <2> QED
      BY <1>2, <1>4, <1>5 DEF Pinned
  <1>9. NoLeakedPin'
    <2>1. QueuedTokens \subseteq QueuedTokens'
      BY <1>2, <1>3 DEF QueuedTokens
    <2> QED
      BY <2>1 DEF NoLeakedPin, Post
  <1>10. FifoExactlyOnce'
    <2>1. Len(queue') = posted' - taken'
      BY <1>2, <1>3 DEF FifoExactlyOnce, Post, TypeOK
    <2>2. ASSUME NEW i \in DOMAIN queue' PROVE queue'[i].no = taken + i
      <3>1. CASE i \in DOMAIN queue
        BY <1>2, <3>1 DEF FifoExactlyOnce
      <3>2. CASE i = Len(queue) + 1
        <4>1. queue'[i].no = posted + 1
          BY <1>2, <3>2
        <4> QED
          BY <1>3, <3>2, <4>1 DEF FifoExactlyOnce, TypeOK
      <3> QED
        BY <1>4, <3>1, <3>2
    <2> QED
      BY <2>1, <2>2 DEF FifoExactlyOnce, Post
  <1>11. NoLostWakeup'
    BY DEF NoLostWakeup, Post, Signal
  <1>12. SessionIsolation'
    <2>1. t >= base /\ script' # "stopped" /\ base' = base
      BY <1>5 DEF Post, TokensBelow, Quiescent, TypeOK, Registrations, Tokens
    <2> QED
      BY <1>2, <1>4, <2>1 DEF SessionIsolation
  <1> QED
    BY <1>6, <1>7, <1>8, <1>9, <1>10, <1>11, <1>12 DEF Safe

\* Taking a call off the queue leaves its pin to the dispatch
\* (ffi_foreign_dispatch_one, first half).
LEMMA DispatchPopSafe ==
    ASSUME IInv, DispatchPop
    PROVE  Safe'
  <1> USE DEF IInv
  <1>1. /\ Head(queue) \in Calls /\ Head(queue) = queue[1]
        /\ Len(queue') = Len(queue) - 1
        /\ DOMAIN queue' = 1..(Len(queue) - 1)
        /\ \A i \in DOMAIN queue' : i + 1 \in DOMAIN queue /\ queue'[i] = queue[i + 1]
        /\ Len(queue) > 0 /\ Len(queue) \in Nat /\ DOMAIN queue = 1..Len(queue)
    BY RemainingCalls DEF DispatchPop, TypeOK
  <1>2. OneRegPerToken' /\ TokensBelow' /\ ActiveMatchesRegs'
    BY DEF DispatchPop, OneRegPerToken, TokensBelow, ActiveMatchesRegs
  <1>3. Quiescent'
    <2>1. cur' # NoCall
      BY <1>1 DEF DispatchPop, NoCall, Calls, Tokens
    <2> QED
      BY <2>1 DEF DispatchPop, Quiescent
  <1>4. Pinned'
    BY <1>1 DEF DispatchPop, Pinned
  <1>5. NoLeakedPin'
    <2> SUFFICES ASSUME NEW r \in regs, r.released
                 PROVE  r.token \in QueuedTokens' \cup {cur'.token, threw}
      BY DEF NoLeakedPin, DispatchPop
    <2>1. cur.token = 0 /\ r.token # 0
      BY DEF DispatchPop, Quiescent, NoCall, TypeOK, Registrations, Tokens
    <2>5. CASE r.token = threw
      BY <2>5
    <2>6. ASSUME r.token # threw PROVE \E i \in DOMAIN queue : r.token = queue[i].token
      BY <2>1, <2>6 DEF NoLeakedPin, QueuedTokens
    <2> SUFFICES ASSUME NEW i \in DOMAIN queue, r.token = queue[i].token
                 PROVE  r.token \in QueuedTokens' \cup {cur'.token}
      BY <2>5, <2>6
    <2>2. r.token = queue[i].token
      OBVIOUS
    <2>3. CASE i = 1
      BY <1>1, <2>2, <2>3 DEF DispatchPop
    <2>4. CASE i # 1
      <3>1. i - 1 \in DOMAIN queue' /\ queue'[i - 1] = queue[(i - 1) + 1]
        BY <1>1, <2>4
      <3>2. queue'[i - 1].token = r.token
        BY <1>1, <2>2, <3>1
      <3> QED
        BY <3>1, <3>2 DEF QueuedTokens
    <2> QED
      BY <2>3, <2>4
  <1>6. FifoExactlyOnce'
    <2>1. Len(queue') = posted' - taken'
      BY <1>1 DEF FifoExactlyOnce, DispatchPop, TypeOK
    <2>2. ASSUME NEW i \in DOMAIN queue' PROVE queue'[i].no = taken' + i
      <3>1. queue'[i].no = taken + (i + 1)
        BY <1>1 DEF FifoExactlyOnce
      <3> QED
        BY <1>1, <3>1 DEF DispatchPop, TypeOK
    <2> QED
      BY <2>1, <2>2 DEF FifoExactlyOnce
  <1>7. NoLostWakeup'
    BY DEF NoLostWakeup, DispatchPop
  <1>8. SessionIsolation'
    BY <1>1 DEF SessionIsolation, DispatchPop
  <1> QED
    BY <1>2, <1>3, <1>4, <1>5, <1>6, <1>7, <1>8 DEF Safe

\* The sweep drops a released registration with the last queued call of its
\* token, and no other (ffi_foreign_dispatch_one, second half).
LEMMA DispatchSweepSafe ==
    ASSUME IInv, DispatchSweep
    PROVE  Safe'
  <1> USE DEF IInv, DispatchSweep, shared
  <1>1. regs' \subseteq regs
    BY DEF Retained
  <1>2. OneRegPerToken' /\ TokensBelow'
    BY <1>1 DEF OneRegPerToken, TokensBelow
  <1>3. Quiescent'
    BY <1>1 DEF Quiescent
  <1>4. Pinned'
    BY DEF Pinned, Retained, QueuedTokens
  <1>5. ActiveMatchesRegs'
    BY DEF ActiveMatchesRegs, Retained
  <1>6. NoLeakedPin'
    BY DEF NoLeakedPin, Retained, QueuedTokens
  <1>7. FifoExactlyOnce' /\ NoLostWakeup' /\ SessionIsolation'
    BY DEF FifoExactlyOnce, NoLostWakeup, SessionIsolation
  <1> QED
    BY <1>2, <1>3, <1>4, <1>5, <1>6, <1>7 DEF Safe

\* Steps that touch neither the registrations nor the queue: the closure ends, the
\* loop blocks or wakes up (ffi_foreign_wait).
LEMMA ScriptStepSafe ==
    ASSUME IInv, CallbackReturn \/ CallbackThrow \/ Wait \/ WakeUp \/ UNCHANGED vars
    PROVE  Safe'
  <1> USE DEF IInv, CallbackReturn, CallbackThrow, Wait, WakeUp, shared, vars
  <1>1. OneRegPerToken' /\ TokensBelow' /\ Pinned' /\ ActiveMatchesRegs'
    BY DEF OneRegPerToken, TokensBelow, Pinned, ActiveMatchesRegs
  <1>2. Quiescent'
    BY DEF Quiescent
  <1>3. NoLeakedPin' /\ FifoExactlyOnce'
    BY DEF NoLeakedPin, QueuedTokens, FifoExactlyOnce
  <1>4. NoLostWakeup' /\ SessionIsolation'
    BY DEF NoLostWakeup, SessionIsolation
  <1> QED
    BY <1>1, <1>2, <1>3, <1>4 DEF Safe

\* A survived throw drops the call under dispatch without its sweep, and keeps in
\* mind whose (the entry point of the program).
LEMMA ResumeSafe ==
    ASSUME IInv, Resume
    PROVE  Safe'
  <1> USE DEF IInv, Resume, shared
  <1>1. OneRegPerToken' /\ TokensBelow' /\ Pinned' /\ ActiveMatchesRegs'
    BY DEF OneRegPerToken, TokensBelow, Pinned, ActiveMatchesRegs
  <1>2. Quiescent'
    BY DEF Quiescent
  <1>3. NoLeakedPin'
    <2>1. ASSUME NEW r \in regs, r.released
          PROVE  r.token \in QueuedTokens \cup {cur.token}
      <3>1. r.token # 0
        BY DEF TypeOK, Registrations, Tokens
      <3> QED
        BY <2>1, <3>1 DEF NoLeakedPin
    <2> QED
      BY <2>1 DEF NoLeakedPin, QueuedTokens
  <1>4. FifoExactlyOnce' /\ NoLostWakeup' /\ SessionIsolation'
    BY DEF FifoExactlyOnce, NoLostWakeup, SessionIsolation
  <1> QED
    BY <1>1, <1>2, <1>3, <1>4 DEF Safe

\* Teardown and the start of the next session leave nothing behind
\* (ffi_foreign_finish, ffi_foreign_init).
LEMMA SessionSafe ==
    ASSUME IInv, Finish \/ InitSession
    PROVE  Safe'
  <1> USE DEF IInv, Finish, InitSession
  <1>1. queue' = <<>> /\ regs' = {} /\ active' = {}
    OBVIOUS
  <1>2. OneRegPerToken' /\ Pinned' /\ ActiveMatchesRegs' /\ NoLeakedPin'
    BY <1>1 DEF OneRegPerToken, Pinned, ActiveMatchesRegs, NoLeakedPin
  <1>3. TokensBelow'
    BY <1>1 DEF TokensBelow, TypeOK
  <1>4. Quiescent'
    BY <1>1 DEF Quiescent
  <1>5. FifoExactlyOnce'
    BY <1>1 DEF FifoExactlyOnce, SessionIsolation, TypeOK
  <1>6. NoLostWakeup' /\ SessionIsolation'
    BY <1>1 DEF NoLostWakeup, SessionIsolation
  <1> QED
    BY <1>2, <1>3, <1>4, <1>5, <1>6 DEF Safe

\* The invariant is inductive.
LEMMA NextIInv == IInv /\ [Next]_vars => IInv'
  <1> SUFFICES ASSUME IInv, [Next]_vars PROVE IInv'
    OBVIOUS
  <1>1. TypeOK'
    BY NextTypeOK DEF IInv
  <1>2. Safe'
    BY CommitSafe, ReleaseSafe, PostSafe, DispatchPopSafe, DispatchSweepSafe,
       ScriptStepSafe, ResumeSafe, SessionSafe DEF Next
  <1> QED
    BY <1>1, <1>2 DEF IInv, Safe

\* The invariant holds in every state.
THEOREM FfiInvariant == Spec => []IInv
  <1> QED
    BY InitIInv, NextIInv, PTL DEF Spec

\* Types, for all keys, tokens and posts.
THEOREM FfiTypeOK == Spec => []TypeOK
  <1>1. IInv => TypeOK
    BY DEF IInv
  <1> QED
    BY FfiInvariant, <1>1, PTL

\* Every accepted call finds its closure, however releases, posts and dispatches
\* interleave.
THEOREM FfiPinned == Spec => []Pinned
  <1>1. IInv => Pinned
    BY DEF IInv
  <1> QED
    BY FfiInvariant, <1>1, PTL

\* No released closure stays pinned without a call to deliver, but for the one
\* whose last call threw out of a loop that runs on.
THEOREM FfiNoLeakedPin == Spec => []NoLeakedPin
  <1>1. IInv => NoLeakedPin
    BY DEF IInv
  <1> QED
    BY FfiInvariant, <1>1, PTL

\* The set the threads see and the registrations of the script thread agree.
THEOREM FfiActiveMatchesRegs == Spec => []ActiveMatchesRegs
  <1>1. IInv => ActiveMatchesRegs
    BY DEF IInv
  <1> QED
    BY FfiInvariant, <1>1, PTL

\* Calls are taken in the order they were accepted, none is lost or repeated.
THEOREM FfiFifo == Spec => []FifoExactlyOnce
  <1>1. IInv => FifoExactlyOnce
    BY DEF IInv
  <1> QED
    BY FfiInvariant, <1>1, PTL

\* The loop is never blocked with a call queued and no wake-up under way.
THEOREM FfiNoLostWakeup == Spec => []NoLostWakeup
  <1>1. IInv => NoLostWakeup
    BY DEF IInv
  <1> QED
    BY FfiInvariant, <1>1, PTL

\* No call of a finished session reaches the next one.
THEOREM FfiSessionIsolation == Spec => []SessionIsolation
  <1>1. IInv => SessionIsolation
    BY DEF IInv
  <1> QED
    BY FfiInvariant, <1>1, PTL
=============================================================================
