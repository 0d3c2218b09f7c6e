--------------------------- MODULE LoopWaitProofs ---------------------------
(***************************************************************************)
(* Theorems about LoopWait, for every set of programs, with and without     *)
(* signal listeners and timers.                                             *)
(***************************************************************************)
EXTENDS LoopWait, TLAPS

\* A combination of pending sources that the waits of event_loop.rs cover: the
\* wait the loop chooses for it is either limited or watches all of it.  The
\* wait for a rename needs no cover, nor do the ones with a fixed quantum.
Covered(P) ==
    /\ "ffi" \in P => P = {"ffi"} \/ P \cap Polled # {}
    /\ "stdin" \in P /\ P \cap {"ffi", "fs_renames", "fs_watchers"} = {} =>
          P = {"stdin"} \/ P \cap Polled # {}
    /\ "net" \in P /\ P \cap {"ffi", "fs_renames", "fs_watchers", "stdin"} = {} =>
          P \subseteq {"net", "dgram"}
    /\ "dgram" \in P /\ P \cap {"ffi", "fs_renames", "fs_watchers", "stdin", "net"} = {} =>
          P = {"dgram"}

\* What is pending is a combination the program can have, and the loop goes on
\* to choose a wait only with something to wait for.
WaitInv ==
    /\ pending \in Combinations
    /\ pc = "idle" => HasReferencedWork
    /\ NoBlindWait

\* Every variable keeps its type, and an event is only ready while its source
\* is pending: closing a source takes its event back (Callback).
THEOREM TypeCorrect == Spec => []TypeOK
<1>1. Init => TypeOK
  BY DEF Init, TypeOK, Combinations, Sources, TimerStates
<1>2. ASSUME TypeOK, Next PROVE TypeOK'
  <2>1. ASSUME NEW s, Callback(s) PROVE TypeOK'
    BY <1>2, <2>1 DEF TypeOK, Callback, TimerStates, Combinations, Sources
  <2>2. CASE \E s \in Sources \cup {"timer"} : Dispatch(s)
    BY <2>1, <2>2 DEF Dispatch
  <2>3. CASE StdinReceived
    BY <2>1, <2>3 DEF StdinReceived
  <2>4. CASE Leave \/ FoundNothing \/ EndOfWait
    BY <1>2, <2>4 DEF TypeOK, Leave, FoundNothing, EndOfWait
  <2>5. Remaining \in {"brief", "deadline", "forever"}
    BY DEF Remaining
  <2>6. CASE WaitFfi \/ WaitRenames \/ WaitWatchers \/ WaitStdin \/ WaitNet \/ WaitDgram
             \/ WaitChildren
    BY <1>2, <2>5, <2>6 DEF TypeOK, BlockOn, WaitFfi, WaitRenames, WaitWatchers, WaitStdin,
                            WaitNet, WaitDgram, WaitChildren
  <2>7. CASE SleepOn
    BY <1>2, <2>5, <2>7 DEF TypeOK, SleepOn
  <2>8. CASE \E s \in Sources : Arrive(s)
    BY <1>2, <2>8 DEF TypeOK, Arrive
  <2>9. CASE Elapse \/ Terminated
    BY <1>2, <2>9 DEF TypeOK, Elapse, Terminated, vars
  <2> QED
    BY <1>2, <2>2, <2>3, <2>4, <2>6, <2>7, <2>8, <2>9 DEF Next, LoopStep
<1>3. TypeOK /\ UNCHANGED vars => TypeOK'
  BY DEF TypeOK, vars
<1> QED
  BY <1>1, <1>2, <1>3, PTL DEF Spec

\* A wait that starts is limited, is the wait for a rename, or watches all that
\* is pending, provided that the pending sources are covered.
LEMMA ChosenWaitSees ==
    ASSUME TypeOK, WaitInv, Covered(pending),
           WaitFfi \/ WaitRenames \/ WaitWatchers \/ WaitStdin \/ WaitNet \/ WaitDgram
             \/ WaitChildren \/ SleepOn
    PROVE  NoBlindWait'
<1>1. pending' = pending
  BY DEF WaitFfi, WaitRenames, WaitWatchers, WaitStdin, WaitNet, WaitDgram, WaitChildren,
         SleepOn, BlockOn
<1>2. CASE WaitFfi
  BY <1>1, <1>2 DEF WaitFfi, BlockOn, Cooperative, Covered, NoBlindWait, Watched
<1>3. CASE WaitRenames \/ WaitWatchers \/ WaitChildren
  BY <1>3 DEF WaitRenames, WaitWatchers, WaitChildren, BlockOn, NoBlindWait
<1>4. CASE WaitStdin
  BY <1>1, <1>4 DEF WaitStdin, BlockOn, Cooperative, Covered, NoBlindWait, Watched
<1>5. CASE WaitNet
  BY <1>1, <1>5 DEF WaitNet, BlockOn, Covered, NoBlindWait, Watched
<1>6. CASE WaitDgram
  BY <1>1, <1>6 DEF WaitDgram, BlockOn, Covered, NoBlindWait, Watched
<1>7. CASE SleepOn
  <2>1. timer # "none"
    BY <1>7 DEF SleepOn, WaitInv, HasReferencedWork
  <2> QED
    BY <1>7, <2>1 DEF SleepOn, Remaining, NoBlindWait, TypeOK
<1> QED
  BY <1>2, <1>3, <1>4, <1>5, <1>6, <1>7

\* If the waits cover every combination of sources a program can have pending,
\* no wait without limit is ever blind for a pending source: the loop's chain
\* of waits (ffi_foreign_wait, fs_renames_wait, stdin_wait, net_poll, ...) and
\* its quanta leave out nothing else.
THEOREM CoveredMeansSeen ==
    (\A P \in Combinations : Covered(P)) => (Spec => []NoBlindWait)
<1> SUFFICES ASSUME \A P \in Combinations : Covered(P)
             PROVE  Spec => []NoBlindWait
  OBVIOUS
<1>1. Init => WaitInv
  BY DEF Init, WaitInv, NoBlindWait
<1>2. TypeOK /\ WaitInv /\ [Next]_vars => WaitInv'
  <2> SUFFICES ASSUME TypeOK, WaitInv, [Next]_vars
               PROVE  WaitInv'
    OBVIOUS
  <2>1. ASSUME NEW s, Callback(s) PROVE WaitInv'
    BY <2>1 DEF WaitInv, Callback, NoBlindWait
  <2>2. CASE \E s \in Sources \cup {"timer"} : Dispatch(s)
    BY <2>1, <2>2 DEF Dispatch
  <2>3. CASE StdinReceived
    BY <2>1, <2>3 DEF StdinReceived
  <2>4. CASE Leave \/ FoundNothing \/ EndOfWait
    BY <2>4 DEF WaitInv, NoBlindWait, HasReferencedWork, Leave, FoundNothing, EndOfWait
  <2>5. CASE WaitFfi \/ WaitRenames \/ WaitWatchers \/ WaitStdin \/ WaitNet \/ WaitDgram
             \/ WaitChildren \/ SleepOn
    <3>1. NoBlindWait'
      BY <2>5, ChosenWaitSees DEF WaitInv
    <3>2. pending' = pending /\ pc' # "idle"
      BY <2>5 DEF WaitFfi, WaitRenames, WaitWatchers, WaitStdin, WaitNet, WaitDgram,
                  WaitChildren, SleepOn, BlockOn
    <3> QED
      BY <3>1, <3>2 DEF WaitInv
  <2>6. CASE \E s \in Sources : Arrive(s)
    BY <2>6 DEF WaitInv, NoBlindWait, HasReferencedWork, Arrive
  <2>7. CASE Elapse
    BY <2>7 DEF WaitInv, NoBlindWait, HasReferencedWork, Elapse
  <2>8. CASE Terminated \/ UNCHANGED vars
    BY <2>8 DEF WaitInv, NoBlindWait, HasReferencedWork, Terminated, vars
  <2> QED
    BY <2>2, <2>3, <2>4, <2>5, <2>6, <2>7, <2>8 DEF Next, LoopStep
<1>3. WaitInv => NoBlindWait
  BY DEF WaitInv
<1> QED
  BY <1>1, <1>2, <1>3, TypeCorrect, PTL DEF Spec
=============================================================================
