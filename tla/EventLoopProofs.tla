-------------------------- MODULE EventLoopProofs --------------------------
(***************************************************************************)
(* Theorems about EventLoop, for every set of programs and every bound.     *)
(***************************************************************************)
EXTENDS EventLoop, WellFoundedInduction, TLAPS

\* An armed timer is at most its delay ahead and app.late behind.
DueInRange == \A t \in timers : -app.late <= t.due /\ t.due <= t.delay

\* Ids are handed out in order: none in use is newer than the last call.
IdsAreUsed ==
    /\ firing.id <= ops
    /\ \A t \in timers : t.id <= ops
    /\ \A i \in cleared : i <= ops
    /\ \A i \in Ids : i > ops => wantRef[i]

\* A timer has one task, or is firing, never both.
OneTask ==
    /\ \A t, u \in timers : t.id = u.id => t = u
    /\ \A t \in timers : t.id # firing.id

\* FIRING_TIMER_* describe a timer while its callback runs, and after it threw;
\* its cleared flag is set when it was cleared since.
FiringIsTracked ==
    /\ pc = "timer" => firing # NoTimer
    /\ firing # NoTimer /\ ~firing.cleared => firing.id \notin cleared

\* A request is completed once.
DoneWereAsked == done <= renames

\* Where the loop decides to wait, every queue is empty and so is the turn's
\* list of immediates.
IdleIsQuiet ==
    pc = "idle" =>
        /\ ticks = 0 /\ micros = 0 /\ jobs = 0 /\ checks = 0
        /\ \A i \in imms : i.ahead # 0

TimerInv ==
    /\ DueInRange /\ IdsAreUsed /\ OneTask /\ FiringIsTracked
    /\ ClearedStaysDead /\ RefsAreKept

LoopInv == DoneWereAsked /\ IdleIsQuiet /\ NoEarlyExit

\* A timer that overtook an immediate and is armed again is in a later turn.
RearmedLater ==
    /\ \A i \in imms, t \in timers : <<i.id, t.id>> \in overtaken => i.ahead < t.ahead
    /\ pc = "timer" => \A i \in imms : <<i.id, firing.id>> \in overtaken => i.ahead = 0

\* Only tasks with an id handed out already overtook or were overtaken.
OvertakenWereUsed == \A p \in overtaken : p[1] <= ops /\ p[2] <= ops

\* Until the loop is run again, a task is in this turn or in the next one.
OneTurnAhead ==
    ~resumed \/ pc = "listener" => \A t \in timers \cup imms : t.ahead <= 1

\* An immediate has one task, and an id handed out already.
OneImmediate ==
    /\ \A i, j \in imms : i.id = j.id => i = j
    /\ \A i \in imms : i.id <= ops

\* The listeners run once they are noted as called.
ListenersCalled == pc = "listener" => resumed

TurnInv == RearmedLater /\ OvertakenWereUsed /\ OneTurnAhead
ListInv == OneImmediate /\ ListenersCalled

Inv == TypeOK /\ TimerInv /\ LoopInv /\ ListInv /\ TurnInv
-----------------------------------------------------------------------------
\* A non-empty set of natural numbers has a least element.
LEMMA LeastNat ==
    ASSUME NEW T, T \subseteq Nat, T # {}
    PROVE  \E x \in T : \A y \in T : x <= y
<1> DEFINE R == {ss \in Nat \X Nat : ss[1] < ss[2]}
<1>1. IsWellFoundedOn(R, Nat)
  BY NatLessThanWellFounded, Zenon DEF OpToRel
<1>2. \A x, y \in Nat : y < x => <<y, x>> \in R
  OBVIOUS
<1> HIDE DEF R
<1>3. PICK x \in T : \A y \in T : <<y, x>> \notin R
  BY <1>1, WFMin
<1>4. ASSUME NEW y \in T PROVE ~(y < x)
  BY <1>2, <1>3, Zenon
<1>5. \A y \in T : x <= y
  BY <1>4
<1> QED
  BY <1>5

\* The scan for the earliest timer finds one in any non-empty set of armed
\* timers: instants are bounded below and no two tasks share an id.
LEMMA EarliestIsIn ==
    ASSUME TypeOK, DueInRange, OneTask, NEW S, S \subseteq timers, S # {}
    PROVE  EarliestOf(S) \in S /\ \A u \in S \ {EarliestOf(S)} : Earlier(EarliestOf(S), u)
<1>1. \A t \in S : t.id \in Nat /\ t.due \in Int /\ t.due + app.late \in Nat
  BY LoopAssumption DEF TypeOK, DueInRange, TimerTasks, Ids
<1>2. PICK t1 \in S : \A u \in S : t1.due <= u.due
  <2>1. PICK n \in {t.due + app.late : t \in S} : \A m \in {t.due + app.late : t \in S} : n <= m
    <3> {t.due + app.late : t \in S} # {} /\ {t.due + app.late : t \in S} \subseteq Nat
      BY <1>1
    <3> QED BY LeastNat
  <2>2. PICK t1 \in S : n = t1.due + app.late
    OBVIOUS
  <2>3. app.late \in Int
    BY LoopAssumption DEF TypeOK
  <2>4. ASSUME NEW u \in S PROVE t1.due <= u.due
    <3>1. t1.due + app.late <= u.due + app.late
      BY <2>1, <2>2
    <3> QED
      BY <1>1, <2>3, <3>1
  <2> QED BY <2>4
<1>3. PICK t \in {u \in S : u.due = t1.due} : \A u \in {v \in S : v.due = t1.due} : t.id <= u.id
  <2> DEFINE T == {u \in S : u.due = t1.due}
  <2>1. PICK n \in {u.id : u \in T} : \A m \in {u.id : u \in T} : n <= m
    <3> {u.id : u \in T} # {} /\ {u.id : u \in T} \subseteq Nat
      BY <1>1
    <3> QED BY LeastNat
  <2>2. PICK t \in T : n = t.id
    OBVIOUS
  <2>3. \A u \in T : t.id <= u.id
    BY <2>1, <2>2
  <2> QED BY <2>2, <2>3
<1>4. ASSUME NEW u \in S \ {t} PROVE Earlier(t, u)
  BY <1>1, <1>2, <1>3 DEF Earlier, OneTask
<1>5. \E x \in S : \A u \in S \ {x} : Earlier(x, u)
  BY <1>4
<1> QED BY <1>5 DEF EarliestOf

\* The state before module evaluation satisfies the invariant.
LEMMA LoopInit == Init => Inv
<1> SUFFICES ASSUME Init PROVE Inv
  OBVIOUS
<1> USE LoopAssumption DEF Init
<1>1. TypeOK
  <2>1. pc \in Places
    BY DEF Places, Script
  <2>2. first \in BOOLEAN
    OBVIOUS
  <2> QED
    <3>1. wait \in 0..Forever /\ ops \in 0..MaxOps /\ phase \in 0..4
      BY DEF Forever
    <3>2. wantRef \in [Ids -> BOOLEAN] /\ timers = {} /\ imms = {} /\ overtaken = {}
      OBVIOUS
    <3> QED
      BY <2>1, <2>2, <3>1, <3>2 DEF TypeOK
<1>2. TimerInv
  BY DEF TimerInv, DueInRange, IdsAreUsed, OneTask, FiringIsTracked, ClearedStaysDead,
         RefsAreKept, NoTimer
<1>3. LoopInv
  BY DEF LoopInv, DoneWereAsked, IdleIsQuiet, NoEarlyExit
<1>4. TurnInv
  BY DEF TurnInv, RearmedLater, OvertakenWereUsed, OneTurnAhead
<1>5. ListInv
  BY DEF ListInv, OneImmediate, ListenersCalled
<1> QED
  BY <1>1, <1>2, <1>3, <1>4, <1>5 DEF Inv

\* Every step keeps the types.
LEMMA TypeStep ==
    ASSUME Inv, Next
    PROVE  TypeOK'
<1> USE DEF Inv, TimerInv, LoopInv
<1>1. ASSUME NEW d \in app.delays, NEW rep \in BOOLEAN, TimerSchedule(d, rep)
      PROVE  TypeOK'
  <2> DEFINE new == [id |-> ops + 1, ahead |-> TimerTurn, due |-> d,
                     delay |-> d, repeat |-> rep, ref |-> TRUE]
  <2>1. ops + 1 \in Ids /\ d \in Delays /\ d \in Int
    BY <1>1, LoopAssumption DEF TypeOK, TimerSchedule, Call, Ids, Delays
  <2>2. new \in TimerTasks
    BY <2>1, LoopAssumption DEF TimerTasks, TimerTurn, Turns
  <2>3. timers' \subseteq TimerTasks
    BY <1>1, <2>2 DEF TypeOK, TimerSchedule
  <2> QED
    BY <1>1, <2>1, <2>3 DEF TypeOK, TimerSchedule, Call, Ids, queues, kept
<1>2. ASSUME NEW i \in Ids, TimerClear(i)
      PROVE  TypeOK'
  <2>1. firing' \in [id : Ids, delay : Delays, repeat : BOOLEAN, ref : BOOLEAN,
                     refreshed : BOOLEAN, cleared : BOOLEAN] \cup {NoTimer}
    <3>1. (firing.cleared \/ firing.id = i) \in BOOLEAN
      OBVIOUS
    <3>2. CASE firing = NoTimer
      <4>1. (firing.cleared \/ firing.id = i) = FALSE
        BY <3>2 DEF NoTimer, Ids
      <4>2. firing' = [firing EXCEPT !.cleared = FALSE]
        BY <1>2, <4>1 DEF TimerClear
      <4> QED
        BY <3>2, <4>2 DEF NoTimer
    <3>3. CASE firing # NoTimer
      BY <1>2, <3>1, <3>3 DEF TypeOK, TimerClear
    <3> QED
      BY <3>2, <3>3
  <2>2. timers' \subseteq TimerTasks /\ cleared' \subseteq Ids
    BY <1>2 DEF TypeOK, TimerClear
  <2> QED
    BY <1>2, <2>1, <2>2, LoopAssumption DEF TypeOK, TimerClear, Call, queues
<1>3. ASSUME NEW i \in Ids, TimerRefresh(i)
      PROVE  TypeOK'
  <2>1. firing' \in [id : Ids, delay : Delays, repeat : BOOLEAN, ref : BOOLEAN,
                     refreshed : BOOLEAN, cleared : BOOLEAN] \cup {NoTimer}
    <3>1. (firing.refreshed \/ firing.id = i) \in BOOLEAN
      OBVIOUS
    <3>2. CASE firing = NoTimer
      <4>1. (firing.refreshed \/ firing.id = i) = FALSE
        BY <3>2 DEF NoTimer, Ids
      <4>2. firing' = [firing EXCEPT !.refreshed = FALSE]
        BY <1>3, <4>1 DEF TimerRefresh
      <4> QED
        BY <3>2, <4>2 DEF NoTimer
    <3>3. CASE firing # NoTimer
      BY <1>3, <3>1, <3>3 DEF TypeOK, TimerRefresh
    <3> QED
      BY <3>2, <3>3
  <2>2. timers' \subseteq TimerTasks
    BY <1>3 DEF TypeOK, TimerRefresh, StartOver, TimerTasks, Delays
  <2> QED
    BY <1>3, <2>1, <2>2, LoopAssumption DEF TypeOK, TimerRefresh, Call, queues, kept
<1>4. ASSUME NEW i \in Ids, NEW b \in BOOLEAN, TimerSetRef(i, b)
      PROVE  TypeOK'
  <2>1. firing' \in [id : Ids, delay : Delays, repeat : BOOLEAN, ref : BOOLEAN,
                     refreshed : BOOLEAN, cleared : BOOLEAN] \cup {NoTimer}
    BY <1>4 DEF TypeOK, TimerSetRef, NoTimer, Ids
  <2>2. timers' \subseteq TimerTasks /\ wantRef' \in [Ids -> BOOLEAN]
    BY <1>4 DEF TypeOK, TimerSetRef, TimerTasks
  <2> QED
    BY <1>4, <2>1, <2>2, LoopAssumption DEF TypeOK, TimerSetRef, Call, queues
<1>5. CASE SetImmediate
  <2>1. ops + 1 \in Ids
    BY <1>5, LoopAssumption DEF TypeOK, SetImmediate, Call, Ids
  <2>2. imms' \subseteq [id : Ids, ahead : Turns, ref : BOOLEAN]
    <3> DEFINE new == [id |-> ops + 1, ahead |-> ImmediateTurn, ref |-> TRUE]
    <3>1. new \in [id : Ids, ahead : Turns, ref : BOOLEAN]
      BY <2>1, LoopAssumption DEF ImmediateTurn, Turns
    <3> QED
      BY <1>5, <3>1 DEF TypeOK, SetImmediate
  <2> QED
    BY <1>5, <2>1, <2>2 DEF TypeOK, SetImmediate, Call, Ids, queues, kept
<1>6. ASSUME NEW i \in Ids, ClearImmediate(i)
      PROVE  TypeOK'
  BY <1>6, LoopAssumption DEF TypeOK, ClearImmediate, Call, queues, kept
<1>7. ASSUME NEW i \in Ids, NEW b \in BOOLEAN, SetImmediateRef(i, b)
      PROVE  TypeOK'
  <2>1. imms' \subseteq [id : Ids, ahead : Turns, ref : BOOLEAN]
    BY <1>7 DEF TypeOK, SetImmediateRef
  <2> QED
    BY <1>7, <2>1, LoopAssumption DEF TypeOK, SetImmediateRef, Call, queues, kept
<1>8. CASE ProcessNextTick
  BY <1>8, LoopAssumption DEF TypeOK, ProcessNextTick, Call, queues, kept
<1>9. CASE QueueMicrotask
  BY <1>9, LoopAssumption DEF TypeOK, QueueMicrotask, Call, queues, kept
<1>10. CASE ModuleImport
  BY <1>10, LoopAssumption DEF TypeOK, ModuleImport, Call, queues, kept
<1>11. CASE PromiseReject
  BY <1>11, LoopAssumption DEF TypeOK, PromiseReject, Call, queues, kept
<1>12. CASE FsRename
  BY <1>12, LoopAssumption DEF TypeOK, FsRename, Call, queues, kept
<1>13. CASE Return
  <2>1. pc' \in Places
    BY <1>13 DEF TypeOK, Return, Places, Script
  <2>2. pc = "timer" => Rearmed \subseteq TimerTasks
    <3>1. SUFFICES ASSUME pc = "timer" PROVE Rearmed \subseteq TimerTasks
      OBVIOUS
    <3>2. firing.id \in Ids /\ firing.delay \in Delays /\ firing.repeat \in BOOLEAN
          /\ firing.ref \in BOOLEAN
      BY <3>1 DEF TypeOK, FiringIsTracked
    <3> QED
      <4> DEFINE again == [id |-> firing.id, ahead |-> 1, due |-> firing.delay,
                           delay |-> firing.delay, repeat |-> firing.repeat,
                           ref |-> firing.ref]
      <4>1. again \in TimerTasks
        BY <3>2, LoopAssumption DEF TimerTasks, Delays, Turns
      <4> QED
        BY <4>1 DEF Rearmed
  <2>3. timers' \subseteq TimerTasks
    BY <1>13, <2>2 DEF TypeOK, Return
  <2>4. firing' \in [id : Ids, delay : Delays, repeat : BOOLEAN, ref : BOOLEAN,
                     refreshed : BOOLEAN, cleared : BOOLEAN] \cup {NoTimer}
    BY <1>13 DEF TypeOK, Return
  <2> QED
    BY <1>13, <2>1, <2>3, <2>4 DEF TypeOK, Return, queues, kept
<1>14. CASE RunTick
  <2>1. pc' \in Places
    BY <1>14 DEF TypeOK, RunTick, Places, Script
  <2>2. first' \in BOOLEAN
    BY <1>14 DEF TypeOK, RunTick
  <2> QED
    BY <1>14, <2>1, <2>2 DEF TypeOK, RunTick, queues, kept
<1>15. CASE RunMicrotask
  <2>1. pc' \in Places
    BY <1>15 DEF TypeOK, RunMicrotask, Places, Script
  <2>2. first' \in BOOLEAN
    BY <1>15 DEF TypeOK, RunMicrotask
  <2> QED
    BY <1>15, <2>1, <2>2 DEF TypeOK, RunMicrotask, queues, kept
<1>16. CASE Drained
  <2>1. pc' \in Places
    BY <1>16 DEF TypeOK, Drained, Places, Script
  <2>2. first' \in BOOLEAN /\ failed' \in BOOLEAN /\ resumed' \in BOOLEAN
    BY <1>16 DEF TypeOK, Drained
  <2>3. phase' \in 0..4
    BY <1>16 DEF TypeOK, Drained
  <2> QED
    BY <1>16, <2>1, <2>2, <2>3 DEF TypeOK, Drained, queues, kept
<1>17. CASE SkippedTicks
  <2>1. pc' \in Places
    BY <1>17 DEF TypeOK, SkippedTicks, Places, Script
  <2>2. first' \in BOOLEAN
    BY <1>17 DEF TypeOK, SkippedTicks
  <2> QED
    BY <1>17, <2>1, <2>2 DEF TypeOK, SkippedTicks, queues, kept
<1>18. CASE RunJob
  <2>1. pc' \in Places
    BY <1>18 DEF TypeOK, RunJob, Places, Script
  <2>2. first' \in BOOLEAN
    BY <1>18 DEF TypeOK, RunJob
  <2> QED
    BY <1>18, <2>1, <2>2 DEF TypeOK, RunJob, PastCheckpoint, Quiet, Polling, queues, kept
<1>19. CASE RunCheck
  <2>1. pc' \in Places
    BY <1>19 DEF TypeOK, RunCheck, Places, Script
  <2>2. first' \in BOOLEAN /\ failed' \in BOOLEAN
    BY <1>19 DEF TypeOK, RunCheck
  <2> QED
    BY <1>19, <2>1, <2>2 DEF TypeOK, RunCheck, PastCheckpoint, Quiet, Polling, queues, kept
<1>20. CASE Checked
  <2>1. pc' \in Places
    BY <1>20 DEF TypeOK, Checked, Places, Script
  <2>2. first' \in BOOLEAN
    BY <1>20 DEF TypeOK, Checked
  <2> QED
    BY <1>20, <2>1, <2>2 DEF TypeOK, Checked, queues, kept
<1>21. CASE RunIo
  <2>1. pc' \in Places
    BY <1>21 DEF TypeOK, RunIo, Places, Script
  <2>2. first' \in BOOLEAN
    BY <1>21 DEF TypeOK, RunIo
  <2> QED
    BY <1>21, <2>1, <2>2 DEF TypeOK, RunIo, PastCheckpoint, Quiet, Polling, DoneWereAsked, queues, kept
<1>22. CASE NoWork
  <2>1. pc' \in Places
    BY <1>22 DEF TypeOK, NoWork, Places, Script
  <2>2. first' \in BOOLEAN
    BY <1>22 DEF TypeOK, NoWork
  <2> QED
    BY <1>22, <2>1, <2>2 DEF TypeOK, NoWork, PastCheckpoint, Quiet, Polling, queues, kept
<1>23. CASE FireTimer
  <2> DEFINE t == EarliestOf(TurnTimers)
  <2>1. pc' \in Places
    BY <1>23 DEF FireTimer, Places, Script
  <2>2. t \in timers
    BY <1>23, EarliestIsIn DEF FireTimer, DueTimers, TurnTimers
  <2>3. firing' \in [id : Ids, delay : Delays, repeat : BOOLEAN, ref : BOOLEAN,
                     refreshed : BOOLEAN, cleared : BOOLEAN]
    BY <1>23, <2>2 DEF TypeOK, FireTimer, TimerTasks
  <2>4. timers' \subseteq TimerTasks
    BY <1>23 DEF TypeOK, FireTimer
  <2>5. first' \in BOOLEAN
    BY <1>23, Zenon DEF FireTimer
  <2>6. overtaken' \subseteq Ids \X Ids
    <3>1. overtaken' = overtaken \cup {<<i.id, t.id>> : i \in TurnImms}
      BY <1>23 DEF FireTimer
    <3>2. t.id \in Ids /\ \A i \in TurnImms : i.id \in Ids
      BY <2>2 DEF TypeOK, TimerTasks, TurnImms
    <3> QED
      BY <3>1, <3>2 DEF TypeOK
  <2> HIDE DEF t
  <2>7. phase' \in 0..4
    BY <1>23 DEF FireTimer
  <2> QED
    BY <1>23, <2>1, <2>3, <2>4, <2>5, <2>6, <2>7 DEF TypeOK, FireTimer, queues
<1>24. CASE FireImmediate
  <2>1. pc' \in Places
    BY <1>24 DEF TypeOK, FireImmediate, Places, Script
  <2>2. first' \in BOOLEAN
    BY <1>24 DEF TypeOK, FireImmediate
  <2> QED
    BY <1>24, <2>1, <2>2 DEF TypeOK, FireImmediate, PastCheckpoint, Quiet, Polling, queues, kept
<1>25. CASE Idle
  <2>1. pc' \in Places
    BY <1>25 DEF TypeOK, Idle, Places, Script
  <2>2. first' \in BOOLEAN
    BY <1>25 DEF TypeOK, Idle
  <2> QED
    BY <1>25, <2>1, <2>2 DEF TypeOK, Idle, PastCheckpoint, Quiet, Polling, queues, kept
<1>26. CASE NextTurn
  <2>0. \A n \in Turns : NextOf(n) \in Turns
    BY LoopAssumption DEF NextOf, Turns
  <2>1. timers' \subseteq TimerTasks
    <3>1. \A t \in timers : [t EXCEPT !.ahead = NextOf(t.ahead)] \in TimerTasks
      BY <2>0 DEF TypeOK, TimerTasks
    <3> QED
      BY <1>26, <3>1 DEF NextTurn
  <2>2. imms' \subseteq [id : Ids, ahead : Turns, ref : BOOLEAN]
    <3>1. \A i \in imms : [i EXCEPT !.ahead = NextOf(i.ahead)]
                             \in [id : Ids, ahead : Turns, ref : BOOLEAN]
      BY <2>0 DEF TypeOK
    <3> QED
      BY <1>26, <3>1 DEF NextTurn
  <2>3. pc' \in Places
    BY <1>26 DEF NextTurn, Places
  <2> QED
    BY <1>26, <2>1, <2>2, <2>3 DEF TypeOK, NextTurn, queues, kept
<1>27. TurnTimers # {} => NextDue \in Int /\ NextDue <= MaxDelay
  <2>1. TurnTimers # {} => EarliestOf(TurnTimers) \in timers
    BY EarliestIsIn DEF TurnTimers
  <2> QED
    BY <2>1, LoopAssumption DEF NextDue, DueInRange, TypeOK, TimerTasks, Delays
<1>28. CASE RenamesWait
  <2>1. pc' \in Places
    BY <1>28 DEF RenamesWait, Places
  <2>2. wait' \in 0..Forever
    BY <1>27, <1>28, LoopAssumption DEF RenamesWait, Timeout, Forever
  <2> QED
    BY <1>28, <2>1, <2>2 DEF TypeOK, RenamesWait, queues, kept
<1>29. CASE Sleep
  <2>1. pc' \in Places
    BY <1>29 DEF Sleep, Places
  <2>2. wait' \in 0..Forever
    BY <1>27, <1>29, LoopAssumption DEF Sleep, Forever
  <2> QED
    BY <1>29, <2>1, <2>2 DEF TypeOK, Sleep, queues, kept
<1>30. CASE Awake
  <2>1. pc' \in Places
    BY <1>30 DEF TypeOK, Awake, Places, Script
  <2>2. first' \in BOOLEAN
    BY <1>30 DEF TypeOK, Awake
  <2> QED
    BY <1>30, <2>1, <2>2, LoopAssumption DEF TypeOK, Awake, queues, kept, Forever
<1>31. CASE Finish
  <2>1. pc' \in Places
    BY <1>31 DEF TypeOK, Finish, Places, Script
  <2>2. first' \in BOOLEAN
    BY <1>31 DEF TypeOK, Finish
  <2> QED
    BY <1>31, <2>1, <2>2 DEF TypeOK, Finish, queues, kept
<1>32. CASE CompleteRename
  <2>1. pc' \in Places
    BY <1>32 DEF TypeOK, CompleteRename, Places, Script
  <2>2. first' \in BOOLEAN
    BY <1>32 DEF TypeOK, CompleteRename
  <2> QED
    BY <1>32, <2>1, <2>2 DEF TypeOK, CompleteRename, DoneWereAsked, queues, kept
<1>33. CASE Tick
  <2>1. timers' \subseteq TimerTasks
    BY <1>33 DEF TypeOK, Tick, TimerTasks
  <2>2. wait' \in 0..Forever
    BY <1>33, LoopAssumption DEF TypeOK, Tick, Forever
  <2> QED
    BY <1>33, <2>1, <2>2 DEF TypeOK, Tick, queues, kept
<1>34. CASE Terminated
  BY <1>34 DEF TypeOK, Terminated, vars, queues, kept
<1>35. CASE Throw
  <2>1. pc' \in Places
    BY <1>35 DEF Throw, Places, Script
  <2>2. failed' \in BOOLEAN /\ resumed' \in BOOLEAN
    BY <1>35 DEF TypeOK, Throw
  <2> QED
    BY <1>35, <2>1, <2>2 DEF TypeOK, Throw, queues
<1>36. CASE RunAgain
  <2>0. PICK n \in 0..MaxTurn : \E given \in [Ids -> 0..n] :
           timers' = Restarted(timers, n, given) /\ imms' = Restarted(imms, n, given)
    BY <1>36 DEF RunAgain
  <2>1. PICK given \in [Ids -> 0..n] :
           timers' = Restarted(timers, n, given) /\ imms' = Restarted(imms, n, given)
    BY <2>0
  <2>2. n + 1 \in Turns /\ \A i \in Ids : given[i] \in Turns
    BY LoopAssumption DEF Turns
  <2>3. timers' \subseteq TimerTasks
    <3>1. \A t \in timers : [t EXCEPT !.ahead = IF t.ahead = 0 THEN given[t.id] ELSE n + 1]
                               \in TimerTasks
      BY <2>2 DEF TypeOK, TimerTasks
    <3> QED
      BY <2>1, <3>1 DEF Restarted
  <2>4. imms' \subseteq [id : Ids, ahead : Turns, ref : BOOLEAN]
    <3>1. \A i \in imms : [i EXCEPT !.ahead = IF i.ahead = 0 THEN given[i.id] ELSE n + 1]
                             \in [id : Ids, ahead : Turns, ref : BOOLEAN]
      BY <2>2 DEF TypeOK
    <3> QED
      BY <2>1, <3>1 DEF Restarted
  <2>5. pc' \in Places
    BY <1>36 DEF RunAgain, Places
  <2>6. first' \in BOOLEAN
    BY <1>36, Zenon DEF RunAgain
  <2> QED
    BY <1>36, <2>3, <2>4, <2>5, <2>6 DEF TypeOK, RunAgain, queues, kept
<1> QED
  BY <1>1, <1>2, <1>3, <1>4, <1>5, <1>6, <1>7, <1>8, <1>9, <1>10, <1>11, <1>12, <1>13, <1>14,
     <1>15, <1>16, <1>17, <1>18, <1>19, <1>20, <1>21, <1>22, <1>23, <1>24, <1>25, <1>26, <1>27,
     <1>28, <1>29, <1>30, <1>31, <1>32, <1>33, <1>34, <1>35, <1>36 DEF Next, ScriptCall, LoopStep

\* What leaves the timers, the firing timer and their history alone keeps what
\* is known of them.
LEMMA TimersAside ==
    ASSUME Inv, UNCHANGED <<app, timers, firing, cleared, wantRef>>,
           ops' \in {ops, ops + 1}, (pc' = "timer" => pc = "timer")
    PROVE  TimerInv'
<1> USE DEF Inv, TimerInv
<1>1. DueInRange'
  BY DEF DueInRange
<1>2. IdsAreUsed'
  BY LoopAssumption DEF IdsAreUsed, TypeOK, TimerTasks, Ids, NoTimer
<1>3. OneTask'
  BY DEF OneTask
<1>4. FiringIsTracked'
  BY DEF FiringIsTracked
<1>5. ClearedStaysDead' /\ RefsAreKept'
  BY DEF ClearedStaysDead, RefsAreKept
<1> QED
  BY <1>1, <1>2, <1>3, <1>4, <1>5

\* Every step keeps the timers' invariant.
LEMMA TimerStep ==
    ASSUME Inv, Next
    PROVE  TimerInv'
<1> USE DEF Inv, TimerInv
<1>0. /\ ops \in Nat /\ MaxOps \in Nat
      /\ \A t \in timers : t.id \in Ids
      /\ firing # NoTimer => firing.id \in Ids
      /\ NoTimer.id = 0 /\ \A i \in Ids : i \in Int /\ i > 0
  BY LoopAssumption DEF TypeOK, TimerTasks, Ids, NoTimer
<1>1. ASSUME NEW d \in app.delays, NEW rep \in BOOLEAN, TimerSchedule(d, rep)
      PROVE  TimerInv'
  <2> DEFINE new == [id |-> ops + 1, ahead |-> TimerTurn, due |-> d,
                     delay |-> d, repeat |-> rep, ref |-> TRUE]
  <2>1. /\ timers' = timers \cup {new} /\ ops' = ops + 1 /\ ops + 1 \in Ids
        /\ UNCHANGED <<app, pc, firing, cleared, wantRef>>
    BY <1>1, LoopAssumption DEF TimerSchedule, Call, kept, TypeOK, Ids
  <2>2. new.id = ops + 1 /\ new.due = d /\ new.delay = d /\ new.ref = TRUE
    OBVIOUS
  <2>3. d \in Nat /\ app.late \in Nat
    BY LoopAssumption DEF TypeOK
  <2> HIDE DEF new
  <2>4. DueInRange'
    BY <2>1, <2>2, <2>3 DEF DueInRange
  <2>5. IdsAreUsed'
    BY <1>0, <2>1, <2>2 DEF IdsAreUsed, TypeOK
  <2>6. OneTask'
    BY <1>0, <2>1, <2>2 DEF OneTask, IdsAreUsed
  <2>7. FiringIsTracked'
    BY <2>1 DEF FiringIsTracked
  <2>8. ClearedStaysDead'
    BY <1>0, <2>1, <2>2 DEF ClearedStaysDead, IdsAreUsed
  <2>9. RefsAreKept'
    <3>1. wantRef[ops + 1] = TRUE
      BY <1>0, <2>1 DEF IdsAreUsed, TypeOK
    <3> QED
      BY <1>0, <2>1, <2>2, <3>1 DEF RefsAreKept, TypeOK
  <2> QED
    BY <2>4, <2>5, <2>6, <2>7, <2>8, <2>9
<1>2. ASSUME NEW i \in Ids, TimerClear(i)
      PROVE  TimerInv'
  <2>1. /\ timers' = {t \in timers : t.id # i} /\ ops' = ops + 1
        /\ cleared' = cleared \cup {i} /\ UNCHANGED <<app, pc, wantRef>>
    BY <1>2 DEF TimerClear, Call
  <2>2. i <= ops
    BY <1>0, <1>2 DEF TimerClear, Known, IdsAreUsed
  <2>3. CASE firing = NoTimer
    <3>1. firing' = NoTimer
      <4>1. (firing.cleared \/ firing.id = i) = FALSE
        BY <2>3 DEF NoTimer, Ids
      <4>2. firing' = [firing EXCEPT !.cleared = FALSE]
        BY <1>2, <4>1 DEF TimerClear
      <4> QED
        BY <2>3, <4>2 DEF NoTimer
    <3> QED
      BY <1>0, <2>1, <2>2, <2>3, <3>1
         DEF DueInRange, IdsAreUsed, OneTask, FiringIsTracked, ClearedStaysDead, RefsAreKept, TypeOK
  <2>4. CASE firing # NoTimer
    <3>1. /\ firing'.id = firing.id /\ firing'.ref = firing.ref
          /\ firing'.cleared = (firing.cleared \/ firing.id = i)
      BY <1>2, <2>4 DEF TimerClear, TypeOK
    <3>2. firing' # NoTimer
      BY <1>0, <2>4, <3>1 DEF Ids
    <3>3. DueInRange' /\ OneTask' /\ ClearedStaysDead'
      BY <2>1, <3>1 DEF DueInRange, OneTask, ClearedStaysDead
    <3>4. IdsAreUsed'
      BY <1>0, <2>1, <2>2, <3>1 DEF IdsAreUsed, TypeOK
    <3>5. FiringIsTracked'
      BY <2>1, <2>4, <3>1, <3>2 DEF FiringIsTracked
    <3>6. RefsAreKept'
      BY <2>1, <2>4, <3>1 DEF RefsAreKept
    <3> QED
      BY <3>3, <3>4, <3>5, <3>6
  <2> QED
    BY <2>3, <2>4
<1>3. ASSUME NEW i \in Ids, TimerRefresh(i)
      PROVE  TimerInv'
  <2>1. timers' = StartOver(i) /\ ops' = ops + 1 /\ UNCHANGED <<app, pc, cleared, wantRef>>
    BY <1>3 DEF TimerRefresh, Call, kept
  <2>2. \A t \in timers' : \E u \in timers :
           /\ t.id = u.id /\ t.ref = u.ref /\ t.delay = u.delay
           /\ t = IF u.id = i THEN [u EXCEPT !.due = u.delay] ELSE u
           /\ t.due \in {u.due, u.delay}
    BY <2>1 DEF StartOver, TypeOK, TimerTasks
  <2>3. /\ firing'.id = firing.id /\ firing'.ref = firing.ref
        /\ firing'.cleared = firing.cleared
        /\ firing = NoTimer <=> firing' = NoTimer
    <3>1. CASE firing = NoTimer
      <4>1. (firing.refreshed \/ firing.id = i) = FALSE
        BY <3>1 DEF NoTimer, Ids
      <4>2. firing' = [firing EXCEPT !.refreshed = FALSE]
        BY <1>3, <4>1 DEF TimerRefresh
      <4> QED
        BY <3>1, <4>2 DEF NoTimer
    <3>2. CASE firing # NoTimer
      BY <1>0, <1>3, <3>2 DEF TimerRefresh, TypeOK
    <3> QED
      BY <3>1, <3>2
  <2>4. DueInRange'
    <3>1. \A u \in timers : -app.late <= u.delay /\ u.delay <= u.delay
      BY LoopAssumption DEF TypeOK, TimerTasks, Delays
    <3> QED
      BY <2>1, <2>2, <3>1 DEF DueInRange
  <2>5. IdsAreUsed'
    BY <1>0, <2>1, <2>2, <2>3 DEF IdsAreUsed, TypeOK
  <2>6. OneTask'
    BY <2>2, <2>3 DEF OneTask
  <2>7. FiringIsTracked'
    BY <2>1, <2>3 DEF FiringIsTracked
  <2>8. ClearedStaysDead' /\ RefsAreKept'
    BY <2>1, <2>2, <2>3 DEF ClearedStaysDead, RefsAreKept
  <2> QED
    BY <2>4, <2>5, <2>6, <2>7, <2>8
<1>4. ASSUME NEW i \in Ids, NEW b \in BOOLEAN, TimerSetRef(i, b)
      PROVE  TimerInv'
  <2>1. /\ ops' = ops + 1 /\ wantRef' = [wantRef EXCEPT ![i] = b]
        /\ UNCHANGED <<app, pc, cleared>>
    BY <1>4 DEF TimerSetRef, Call
  <2>2. \A t \in timers' : \E u \in timers :
           /\ t.id = u.id /\ t.due = u.due /\ t.delay = u.delay
           /\ t = IF u.id = i THEN [u EXCEPT !.ref = b] ELSE u
           /\ t.ref = IF u.id = i THEN b ELSE u.ref
    BY <1>4 DEF TimerSetRef, TypeOK, TimerTasks
  <2>3. /\ firing'.id = firing.id /\ firing'.cleared = firing.cleared
        /\ firing = NoTimer <=> firing' = NoTimer
        /\ firing # NoTimer => firing'.ref = IF firing.id = i THEN b ELSE firing.ref
    BY <1>0, <1>4 DEF TimerSetRef, TypeOK
  <2>4. i <= ops
    BY <1>0, <1>4 DEF TimerSetRef, Known, IdsAreUsed
  <2>5. DueInRange'
    BY <2>1, <2>2 DEF DueInRange
  <2>6. IdsAreUsed'
    BY <1>0, <2>1, <2>2, <2>3, <2>4 DEF IdsAreUsed, TypeOK
  <2>7. OneTask'
    BY <2>2, <2>3 DEF OneTask
  <2>8. FiringIsTracked'
    BY <2>1, <2>3 DEF FiringIsTracked
  <2>9. ClearedStaysDead'
    BY <2>1, <2>2 DEF ClearedStaysDead
  <2>10. RefsAreKept'
    BY <1>0, <2>1, <2>2, <2>3 DEF RefsAreKept, TypeOK
  <2> QED
    BY <2>5, <2>6, <2>7, <2>8, <2>9, <2>10
<1>5. CASE Return
  <2>0. /\ ops' = ops /\ pc' # "timer" /\ pc' \in {"drain", "checks", "top"}
        /\ UNCHANGED <<app, cleared, wantRef>>
    BY <1>5 DEF Return, kept
  <2>2. CASE pc # "timer"
    <3>1. UNCHANGED <<timers, firing>>
      BY <1>5, <2>2 DEF Return
    <3> QED
      BY <2>0, <3>1, TimersAside
  <2>3. CASE pc = "timer"
    <3>0. firing' = NoTimer
      BY <1>5, <2>3 DEF Return
    <3> DEFINE again == [id |-> firing.id, ahead |-> 1, due |-> firing.delay,
                         delay |-> firing.delay, repeat |-> firing.repeat,
                         ref |-> firing.ref]
    <3>1. \A t \in timers' : t \in timers \/ (t = again /\ ~firing.cleared)
      BY <1>5, <2>3 DEF Return, Rearmed
    <3>2. /\ again.id = firing.id /\ again.due = firing.delay /\ again.delay = firing.delay
          /\ again.ref = firing.ref
      OBVIOUS
    <3>3. firing # NoTimer /\ firing.delay \in Nat /\ app.late \in Nat
      BY <2>3, LoopAssumption DEF FiringIsTracked, TypeOK, Delays
    <3> HIDE DEF again
    <3>4. DueInRange'
      BY <2>0, <3>0, <3>1, <3>2, <3>3 DEF DueInRange
    <3>5. IdsAreUsed'
      BY <1>0, <2>0, <3>0, <3>1, <3>2 DEF IdsAreUsed
    <3>6. OneTask'
      BY <1>0, <2>0, <3>0, <3>1, <3>2, <3>3 DEF OneTask, Ids
    <3>7. FiringIsTracked'
      BY <2>0, <3>0 DEF FiringIsTracked
    <3>8. ClearedStaysDead'
      BY <2>0, <3>0, <3>1, <3>2, <3>3 DEF ClearedStaysDead, FiringIsTracked
    <3>9. RefsAreKept'
      BY <2>0, <3>0, <3>1, <3>2, <3>3 DEF RefsAreKept
    <3> QED
      BY <3>4, <3>5, <3>6, <3>7, <3>8, <3>9
  <2> QED
    BY <2>2, <2>3
<1>6. CASE FireTimer
  <2> DEFINE t == EarliestOf(TurnTimers)
  <2>1. t \in timers
    BY <1>6, EarliestIsIn DEF FireTimer, DueTimers, TurnTimers
  <2>2. /\ timers' = timers \ {t} /\ firing'.id = t.id /\ firing'.ref = t.ref
        /\ pc' = "timer" /\ ops' = ops /\ UNCHANGED <<app, cleared, wantRef>>
    BY <1>6 DEF FireTimer, kept
  <2>3. firing' # NoTimer
    BY <1>0, <2>1, <2>2
  <2> HIDE DEF t
  <2>4. DueInRange' /\ ClearedStaysDead' /\ RefsAreKept' /\ OneTask'
    BY <2>1, <2>2 DEF DueInRange, ClearedStaysDead, RefsAreKept, OneTask
  <2>5. IdsAreUsed'
    BY <2>1, <2>2 DEF IdsAreUsed
  <2>6. FiringIsTracked'
    BY <2>1, <2>2, <2>3 DEF FiringIsTracked, ClearedStaysDead
  <2> QED
    BY <2>4, <2>5, <2>6
<1>7. CASE NextTurn
  <2>1. \A t \in timers' : \E u \in timers :
           /\ t.id = u.id /\ t.due = u.due /\ t.delay = u.delay /\ t.ref = u.ref
           /\ t = [u EXCEPT !.ahead = NextOf(u.ahead)]
    BY <1>7 DEF NextTurn, TypeOK, TimerTasks
  <2>2. pc # "timer" /\ pc' # "timer" /\ ops' = ops /\ UNCHANGED <<app, firing, cleared, wantRef>>
    BY <1>7 DEF NextTurn, kept
  <2>3. OneTask'
    <3>1. ASSUME NEW t \in timers', NEW v \in timers', t.id = v.id
          PROVE  t = v
      <4>1. PICK u \in timers : t.id = u.id /\ t = [u EXCEPT !.ahead = NextOf(u.ahead)]
        BY <2>1
      <4>2. PICK w \in timers : v.id = w.id /\ v = [w EXCEPT !.ahead = NextOf(w.ahead)]
        BY <2>1
      <4> QED
        BY <3>1, <4>1, <4>2 DEF OneTask
    <3>2. \A t \in timers' : t.id # firing'.id
      BY <2>1, <2>2 DEF OneTask
    <3> QED
      BY <3>1, <3>2 DEF OneTask
  <2>4. DueInRange' /\ IdsAreUsed'
    BY <2>1, <2>2 DEF DueInRange, IdsAreUsed
  <2>5. FiringIsTracked' /\ ClearedStaysDead' /\ RefsAreKept'
    BY <2>1, <2>2 DEF FiringIsTracked, ClearedStaysDead, RefsAreKept
  <2> QED
    BY <2>3, <2>4, <2>5
<1>8. CASE Tick
  <2>1. \A t \in timers' : \E u \in timers :
           /\ t.id = u.id /\ t.due = u.due - 1 /\ t.delay = u.delay /\ t.ref = u.ref
           /\ t = [u EXCEPT !.due = u.due - 1]
    BY <1>8 DEF Tick, TypeOK, TimerTasks
  <2>2. pc' = pc /\ ops' = ops /\ UNCHANGED <<app, firing, cleared, wantRef>>
    BY <1>8 DEF Tick, kept
  <2>3. DueInRange'
    <3>1. app.late \in Nat /\ \A u \in timers : u.due > -app.late /\ u.due \in Int /\ u.delay \in Nat
      BY <1>8, LoopAssumption DEF Tick, TypeOK, TimerTasks, Delays
    <3> QED
      BY <2>1, <2>2, <3>1 DEF DueInRange
  <2>4. OneTask' /\ IdsAreUsed'
    BY <2>1, <2>2 DEF OneTask, IdsAreUsed
  <2>5. FiringIsTracked' /\ ClearedStaysDead' /\ RefsAreKept'
    BY <2>1, <2>2 DEF FiringIsTracked, ClearedStaysDead, RefsAreKept
  <2> QED
    BY <2>3, <2>4, <2>5
<1>9. CASE Finish
  BY <1>0, <1>9 DEF Finish, kept, DueInRange, IdsAreUsed, OneTask, FiringIsTracked,
                   ClearedStaysDead, RefsAreKept
<1>10. CASE SetImmediate
  BY <1>10, TimersAside DEF SetImmediate, Call, kept
<1>11. ASSUME NEW i \in Ids, ClearImmediate(i)
      PROVE  TimerInv'
  BY <1>11, TimersAside DEF ClearImmediate, Call, kept
<1>12. ASSUME NEW i \in Ids, NEW b \in BOOLEAN, SetImmediateRef(i, b)
      PROVE  TimerInv'
  BY <1>12, TimersAside DEF SetImmediateRef, Call, kept
<1>13. CASE ProcessNextTick
  BY <1>13, TimersAside DEF ProcessNextTick, Call, kept
<1>14. CASE QueueMicrotask
  BY <1>14, TimersAside DEF QueueMicrotask, Call, kept
<1>15. CASE ModuleImport
  BY <1>15, TimersAside DEF ModuleImport, Call, kept
<1>16. CASE PromiseReject
  BY <1>16, TimersAside DEF PromiseReject, Call, kept
<1>17. CASE FsRename
  BY <1>17, TimersAside DEF FsRename, Call, kept
<1>18. CASE RunTick
  BY <1>18, TimersAside DEF RunTick, kept
<1>19. CASE RunMicrotask
  BY <1>19, TimersAside DEF RunMicrotask, kept
<1>20. CASE Drained
  BY <1>20, TimersAside DEF Drained, kept
<1>21. CASE SkippedTicks
  BY <1>21, TimersAside DEF SkippedTicks, kept
<1>22. CASE RunJob
  BY <1>22, TimersAside DEF RunJob, PastCheckpoint, Quiet, Polling, kept
<1>23. CASE RunCheck
  BY <1>23, TimersAside DEF RunCheck, PastCheckpoint, Quiet, Polling, kept
<1>24. CASE Checked
  BY <1>24, TimersAside DEF Checked, kept
<1>25. CASE RunIo
  BY <1>25, TimersAside DEF RunIo, PastCheckpoint, Quiet, Polling, kept
<1>26. CASE NoWork
  BY <1>26, TimersAside DEF NoWork, PastCheckpoint, Quiet, Polling, kept
<1>27. CASE FireImmediate
  BY <1>27, TimersAside DEF FireImmediate, PastCheckpoint, Quiet, Polling, kept
<1>28. CASE Idle
  BY <1>28, TimersAside DEF Idle, PastCheckpoint, Quiet, Polling, kept
<1>29. CASE RenamesWait
  BY <1>29, TimersAside DEF RenamesWait, kept
<1>30. CASE Sleep
  BY <1>30, TimersAside DEF Sleep, kept
<1>31. CASE Awake
  BY <1>31, TimersAside DEF Awake, kept
<1>32. CASE CompleteRename
  BY <1>32, TimersAside DEF CompleteRename, kept
<1>33. CASE Terminated
  BY <1>33, TimersAside DEF Terminated, vars, kept
<1>34. CASE Throw
  BY <1>34, TimersAside DEF Throw
<1>35. CASE RunAgain
  <2>0. PICK n \in 0..MaxTurn : \E given \in [Ids -> 0..n] : timers' = Restarted(timers, n, given)
    BY <1>35 DEF RunAgain
  <2>1. PICK given \in [Ids -> 0..n] : timers' = Restarted(timers, n, given)
    BY <2>0
  <2>2. \A t \in timers' : \E u \in timers :
           /\ t.id = u.id /\ t.due = u.due /\ t.delay = u.delay /\ t.ref = u.ref
           /\ t = [u EXCEPT !.ahead = IF u.ahead = 0 THEN given[u.id] ELSE n + 1]
    BY <2>1 DEF Restarted, TypeOK, TimerTasks
  <2>3. pc # "timer" /\ pc' # "timer" /\ ops' = ops /\ UNCHANGED <<app, firing, cleared, wantRef>>
    BY <1>35 DEF RunAgain, kept
  <2>4. OneTask'
    <3>1. ASSUME NEW t \in timers', NEW v \in timers', t.id = v.id
          PROVE  t = v
      <4>1. PICK u \in timers : t.id = u.id
                 /\ t = [u EXCEPT !.ahead = IF u.ahead = 0 THEN given[u.id] ELSE n + 1]
        BY <2>2
      <4>2. PICK w \in timers : v.id = w.id
                 /\ v = [w EXCEPT !.ahead = IF w.ahead = 0 THEN given[w.id] ELSE n + 1]
        BY <2>2
      <4> QED
        BY <3>1, <4>1, <4>2 DEF OneTask
    <3>2. \A t \in timers' : t.id # firing'.id
      BY <2>2, <2>3 DEF OneTask
    <3> QED
      BY <3>1, <3>2 DEF OneTask
  <2>5. DueInRange' /\ IdsAreUsed'
    BY <2>2, <2>3 DEF DueInRange, IdsAreUsed
  <2>6. FiringIsTracked' /\ ClearedStaysDead' /\ RefsAreKept'
    BY <2>2, <2>3 DEF FiringIsTracked, ClearedStaysDead, RefsAreKept
  <2> QED
    BY <2>4, <2>5, <2>6
<1> QED
  BY <1>1, <1>2, <1>3, <1>4, <1>5, <1>6, <1>7, <1>8, <1>9, <1>10, <1>11, <1>12, <1>13, <1>14,
     <1>15, <1>16, <1>17, <1>18, <1>19, <1>20, <1>21, <1>22, <1>23, <1>24, <1>25, <1>26, <1>27,
     <1>28, <1>29, <1>30, <1>31, <1>32, <1>33, <1>34, <1>35 DEF Next, ScriptCall, LoopStep

\* The queues and the waits: a step that is neither at nor before a wait or an
\* exit keeps LoopInv when it keeps the count of completions.
LEMMA ElsewhereLoopInv ==
    ASSUME DoneWereAsked', pc' \notin {"idle", "done"}
    PROVE  LoopInv'
BY DEF LoopInv, IdleIsQuiet, NoEarlyExit

\* Every step keeps the loop's invariant.
LEMMA LoopInvStep ==
    ASSUME Inv, Next
    PROVE  LoopInv'
<1> USE DEF Inv, LoopInv
<1>1. CASE ScriptCall
  <2>1. pc' \notin {"idle", "done"}
    BY <1>1 DEF ScriptCall, Call, Script, TimerSchedule, TimerClear, TimerRefresh, TimerSetRef,
                SetImmediate, ClearImmediate, SetImmediateRef, ProcessNextTick, QueueMicrotask,
                ModuleImport, PromiseReject, FsRename
  <2>2. renames' \in {renames, renames + 1} /\ done' = done
    BY <1>1 DEF ScriptCall, TimerSchedule, TimerClear, TimerRefresh, TimerSetRef,
                SetImmediate, ClearImmediate, SetImmediateRef, ProcessNextTick, QueueMicrotask,
                ModuleImport, PromiseReject, FsRename
  <2>3. DoneWereAsked'
    BY <2>2 DEF DoneWereAsked, TypeOK
  <2> QED
    BY <2>1, <2>3, ElsewhereLoopInv
<1>2. CASE Return
  BY <1>2, ElsewhereLoopInv DEF Return, DoneWereAsked
<1>3. CASE RunTick
  BY <1>3, ElsewhereLoopInv DEF RunTick, DoneWereAsked
<1>4. CASE RunMicrotask
  BY <1>4, ElsewhereLoopInv DEF RunMicrotask, DoneWereAsked
<1>5. CASE SkippedTicks
  BY <1>5, ElsewhereLoopInv DEF SkippedTicks, DoneWereAsked, PastCheckpoint
<1>6. CASE RunJob
  BY <1>6, ElsewhereLoopInv DEF RunJob, DoneWereAsked
<1>7. CASE RunCheck
  BY <1>7, ElsewhereLoopInv DEF RunCheck, DoneWereAsked
<1>8. CASE RunIo
  BY <1>8, ElsewhereLoopInv DEF RunIo, DoneWereAsked, TypeOK
<1>9. CASE FireTimer
  BY <1>9, ElsewhereLoopInv DEF FireTimer, DoneWereAsked
<1>10. CASE FireImmediate
  BY <1>10, ElsewhereLoopInv DEF FireImmediate, DoneWereAsked
<1>11. CASE NextTurn
  BY <1>11, ElsewhereLoopInv DEF NextTurn, DoneWereAsked
<1>12. CASE RenamesWait
  BY <1>12, ElsewhereLoopInv DEF RenamesWait, DoneWereAsked
<1>13. CASE Awake
  BY <1>13, ElsewhereLoopInv DEF Awake, DoneWereAsked
<1>14. CASE Drained
  BY <1>14 DEF Drained, DoneWereAsked, IdleIsQuiet, NoEarlyExit
<1>15. CASE Checked
  BY <1>15 DEF Checked, DoneWereAsked, IdleIsQuiet, NoEarlyExit
<1>16. CASE NoWork
  BY <1>16 DEF NoWork, Quiet, PastCheckpoint, queues, HasReferencedWork, KeepsAlive,
               DoneWereAsked, IdleIsQuiet, NoEarlyExit
<1>17. CASE Idle
  <2>1. \A i \in imms : i.ahead # 0
    BY <1>17 DEF Idle, TurnImms
  <2> QED
    BY <1>17, <2>1 DEF Idle, Polling, Quiet, PastCheckpoint, queues,
                      DoneWereAsked, IdleIsQuiet, NoEarlyExit
<1>18. CASE Sleep
  <2>1. pc' # "idle" /\ DoneWereAsked'
    BY <1>18 DEF Sleep, DoneWereAsked
  <2>2. ASSUME pc' = "done"
        PROVE  timers = {} /\ imms = {}
    <3>1. TurnTimers = {} /\ ~HasFutureTurn
      BY <1>18, <2>2 DEF Sleep
    <3>2. \A i \in imms : i.ahead # 0
      BY <1>18 DEF Sleep, IdleIsQuiet
    <3>3. \A t \in timers \cup imms : t.ahead = 0 \/ t.ahead > 0
      BY LoopAssumption DEF TypeOK, TimerTasks, Turns
    <3> QED
      BY <3>1, <3>2, <3>3 DEF TurnTimers, HasFutureTurn
  <2>3. NoEarlyExit'
    BY <1>18, <2>2 DEF Sleep, IdleIsQuiet, NoEarlyExit, KeepsAlive, queues, TypeOK
  <2> QED
    BY <2>1, <2>3 DEF IdleIsQuiet
<1>19. CASE Finish
  BY <1>19, ElsewhereLoopInv DEF Finish, DoneWereAsked
<1>20. CASE CompleteRename
  <2>1. DoneWereAsked'
    BY <1>20 DEF CompleteRename, DoneWereAsked, TypeOK
  <2>2. IdleIsQuiet' /\ NoEarlyExit'
    BY <1>20 DEF CompleteRename, IdleIsQuiet, NoEarlyExit, KeepsAlive, queues
  <2> QED
    BY <2>1, <2>2
<1>21. CASE Tick
  BY <1>21 DEF Tick, DoneWereAsked, IdleIsQuiet, NoEarlyExit, queues
<1>22. CASE Terminated
  BY <1>22, ElsewhereLoopInv DEF Terminated, vars, DoneWereAsked
<1>23. CASE Throw
  BY <1>23 DEF Throw, DoneWereAsked, IdleIsQuiet, NoEarlyExit
<1>24. CASE RunAgain
  BY <1>24, ElsewhereLoopInv DEF RunAgain, DoneWereAsked
<1> QED
  BY <1>1, <1>2, <1>3, <1>4, <1>5, <1>6, <1>7, <1>8, <1>9, <1>10, <1>11, <1>12, <1>13, <1>14,
     <1>15, <1>16, <1>17, <1>18, <1>19, <1>20, <1>21, <1>22, <1>23, <1>24 DEF Next, LoopStep

\* A step that adds no immediate keeps what is known of the immediates.
LEMMA ImmediatesAside ==
    ASSUME Inv, imms' \subseteq imms, ops' \in {ops, ops + 1},
           (pc' = "listener" => resumed' \/ (pc = "listener" /\ resumed' = resumed))
    PROVE  ListInv'
<1>1. ops \in Int /\ \A i \in imms : i.id \in Int
  BY LoopAssumption DEF Inv, TypeOK, Ids
<1>2. OneImmediate'
  BY <1>1 DEF Inv, ListInv, OneImmediate
<1>3. ListenersCalled'
  BY DEF Inv, ListInv, ListenersCalled
<1> QED
  BY <1>2, <1>3 DEF ListInv

\* Every step keeps what is known of the immediates and the listeners.
LEMMA ListStep ==
    ASSUME Inv, Next
    PROVE  ListInv'
<1> USE DEF Inv, ListInv
<1>0. ops \in Int /\ \A i \in imms : i.id \in Int
  BY LoopAssumption DEF TypeOK, Ids
<1>1. CASE SetImmediate
  <2> DEFINE new == [id |-> ops + 1, ahead |-> ImmediateTurn, ref |-> TRUE]
  <2>1. imms' = imms \cup {new} /\ ops' = ops + 1 /\ UNCHANGED <<pc, resumed>>
    BY <1>1 DEF SetImmediate, Call, kept
  <2>2. new.id = ops + 1
    OBVIOUS
  <2> HIDE DEF new
  <2>3. OneImmediate'
    BY <1>0, <2>1, <2>2 DEF OneImmediate
  <2>4. ListenersCalled'
    BY <2>1 DEF ListenersCalled
  <2> QED
    BY <2>3, <2>4
<1>2. ASSUME NEW k \in Ids, NEW b \in BOOLEAN, SetImmediateRef(k, b)
      PROVE  ListInv'
  <2>1. \A i \in imms' : \E j \in imms :
           i.id = j.id /\ i = IF j.id = k THEN [j EXCEPT !.ref = b] ELSE j
    BY <1>2 DEF SetImmediateRef, TypeOK
  <2>2. ops' = ops + 1 /\ UNCHANGED <<pc, resumed>>
    BY <1>2 DEF SetImmediateRef, Call, kept
  <2>3. OneImmediate'
    BY <1>0, <2>1, <2>2 DEF OneImmediate
  <2>4. ListenersCalled'
    BY <2>2 DEF ListenersCalled
  <2> QED
    BY <2>3, <2>4
<1>3. CASE NextTurn
  <2>1. \A i \in imms' : \E j \in imms : i.id = j.id /\ i = [j EXCEPT !.ahead = NextOf(j.ahead)]
    BY <1>3 DEF NextTurn, TypeOK
  <2>2. ops' = ops /\ pc' = "top"
    BY <1>3 DEF NextTurn
  <2>3. OneImmediate'
    BY <2>1, <2>2 DEF OneImmediate
  <2>4. ListenersCalled'
    BY <2>2 DEF ListenersCalled
  <2> QED
    BY <2>3, <2>4
<1>4. CASE RunAgain
  <2>0. PICK n \in 0..MaxTurn : \E given \in [Ids -> 0..n] : imms' = Restarted(imms, n, given)
    BY <1>4 DEF RunAgain
  <2>1. PICK given \in [Ids -> 0..n] : imms' = Restarted(imms, n, given)
    BY <2>0
  <2>2. \A i \in imms' : \E j \in imms : i.id = j.id
           /\ i = [j EXCEPT !.ahead = IF j.ahead = 0 THEN given[j.id] ELSE n + 1]
    BY <2>1 DEF Restarted, TypeOK
  <2>3. ops' = ops /\ pc' = "top"
    BY <1>4 DEF RunAgain
  <2>4. OneImmediate'
    BY <2>2, <2>3 DEF OneImmediate
  <2>5. ListenersCalled'
    BY <2>3 DEF ListenersCalled
  <2> QED
    BY <2>4, <2>5
<1>5. ASSUME NEW d \in app.delays, NEW rep \in BOOLEAN, TimerSchedule(d, rep)
      PROVE  ListInv'
  BY <1>5, ImmediatesAside DEF TimerSchedule, Call, kept
<1>6. ASSUME NEW i \in Ids, TimerClear(i) \/ TimerRefresh(i) \/ ClearImmediate(i)
      PROVE  ListInv'
  BY <1>6, ImmediatesAside DEF TimerClear, TimerRefresh, ClearImmediate, Call, kept
<1>7. ASSUME NEW i \in Ids, NEW b \in BOOLEAN, TimerSetRef(i, b)
      PROVE  ListInv'
  BY <1>7, ImmediatesAside DEF TimerSetRef, Call, kept
<1>8. CASE ProcessNextTick
  BY <1>8, ImmediatesAside DEF ProcessNextTick, Call, kept
<1>9. CASE QueueMicrotask
  BY <1>9, ImmediatesAside DEF QueueMicrotask, Call, kept
<1>10. CASE ModuleImport
  BY <1>10, ImmediatesAside DEF ModuleImport, Call, kept
<1>11. CASE PromiseReject
  BY <1>11, ImmediatesAside DEF PromiseReject, Call, kept
<1>12. CASE FsRename
  BY <1>12, ImmediatesAside DEF FsRename, Call, kept
<1>13. CASE Return
  BY <1>13, ImmediatesAside DEF Return, kept
<1>14. CASE Throw
  BY <1>14, ImmediatesAside DEF Throw, kept
<1>15. CASE RunTick
  BY <1>15, ImmediatesAside DEF RunTick, kept
<1>16. CASE RunMicrotask
  BY <1>16, ImmediatesAside DEF RunMicrotask, kept
<1>17. CASE Drained
  BY <1>17, ImmediatesAside DEF Drained, kept
<1>18. CASE SkippedTicks
  BY <1>18, ImmediatesAside DEF SkippedTicks, PastCheckpoint, kept
<1>19. CASE RunJob
  BY <1>19, ImmediatesAside DEF RunJob, kept
<1>20. CASE RunCheck
  BY <1>20, ImmediatesAside DEF RunCheck, kept
<1>21. CASE Checked
  BY <1>21, ImmediatesAside DEF Checked, kept
<1>22. CASE RunIo
  BY <1>22, ImmediatesAside DEF RunIo, kept
<1>23. CASE NoWork
  BY <1>23, ImmediatesAside DEF NoWork, kept
<1>24. CASE FireTimer
  BY <1>24, ImmediatesAside DEF FireTimer, kept
<1>25. CASE FireImmediate
  BY <1>25, ImmediatesAside DEF FireImmediate, kept
<1>26. CASE Idle
  BY <1>26, ImmediatesAside DEF Idle, kept
<1>27. CASE RenamesWait
  BY <1>27, ImmediatesAside DEF RenamesWait, kept
<1>28. CASE Sleep
  BY <1>28, ImmediatesAside DEF Sleep, kept
<1>29. CASE Awake
  BY <1>29, ImmediatesAside DEF Awake, kept
<1>30. CASE Finish
  BY <1>30, ImmediatesAside DEF Finish, kept
<1>31. CASE CompleteRename
  BY <1>31, ImmediatesAside DEF CompleteRename, kept
<1>32. CASE Tick
  BY <1>32, ImmediatesAside DEF Tick, kept
<1>33. CASE Terminated
  BY <1>33, ImmediatesAside DEF Terminated, vars, kept
<1> QED
  BY <1>1, <1>2, <1>3, <1>4, <1>5, <1>6, <1>7, <1>8, <1>9, <1>10, <1>11, <1>12, <1>13, <1>14,
     <1>15, <1>16, <1>17, <1>18, <1>19, <1>20, <1>21, <1>22, <1>23, <1>24, <1>25, <1>26, <1>27, <1>28,
     <1>29, <1>30, <1>31, <1>32, <1>33 DEF Next, ScriptCall, LoopStep

\* A step that takes tasks away, or changes no more of them than their due and
\* ref, keeps what is known of the turns.
LEMMA TasksStay ==
    ASSUME Inv, UNCHANGED overtaken, ops' \in {ops, ops + 1},
           \A t \in timers' : \E u \in timers : t.id = u.id /\ t.ahead = u.ahead,
           \A i \in imms' : \E j \in imms : i.id = j.id /\ i.ahead = j.ahead,
           (pc' = "timer" => pc = "timer" /\ firing'.id = firing.id),
           (~resumed' \/ pc' = "listener" => ~resumed \/ pc = "listener")
    PROVE  TurnInv'
<1> USE DEF Inv, TurnInv
<1>1. RearmedLater'
  BY DEF RearmedLater
<1>2. OvertakenWereUsed'
  <2>1. ops \in Int /\ \A p \in overtaken : p[1] \in Int /\ p[2] \in Int
    BY LoopAssumption DEF TypeOK, Ids
  <2> QED
    BY <2>1 DEF OvertakenWereUsed
<1>3. OneTurnAhead'
  BY DEF OneTurnAhead
<1> QED
  BY <1>1, <1>2, <1>3

\* Every step keeps what is known of the turns.
LEMMA TurnStep ==
    ASSUME Inv, Next
    PROVE  TurnInv'
<1> USE DEF Inv, TurnInv
<1>0. /\ ops \in Nat
      /\ \A t \in timers : t.id \in Nat /\ t.ahead \in Nat
      /\ \A i \in imms : i.id \in Nat /\ i.ahead \in Nat
      /\ \A p \in overtaken : p[1] \in Nat /\ p[2] \in Nat
  BY LoopAssumption DEF TypeOK, TimerTasks, Ids, Turns
<1>1. ASSUME NEW d \in app.delays, NEW rep \in BOOLEAN, TimerSchedule(d, rep)
      PROVE  TurnInv'
  <2> DEFINE new == [id |-> ops + 1, ahead |-> TimerTurn, due |-> d,
                     delay |-> d, repeat |-> rep, ref |-> TRUE]
  <2>1. /\ timers' = timers \cup {new} /\ ops' = ops + 1
        /\ UNCHANGED <<pc, imms, firing, overtaken, resumed>>
    BY <1>1 DEF TimerSchedule, Call, kept
  <2>2. new.id = ops + 1 /\ new.ahead <= 1
    BY DEF TimerTurn
  <2> HIDE DEF new
  <2>3. RearmedLater'
    BY <1>0, <2>1, <2>2 DEF RearmedLater, OvertakenWereUsed
  <2>4. OvertakenWereUsed' /\ OneTurnAhead'
    BY <1>0, <2>1, <2>2 DEF OvertakenWereUsed, OneTurnAhead
  <2> QED
    BY <2>3, <2>4
<1>2. CASE SetImmediate
  <2> DEFINE new == [id |-> ops + 1, ahead |-> ImmediateTurn, ref |-> TRUE]
  <2>1. /\ imms' = imms \cup {new} /\ ops' = ops + 1
        /\ UNCHANGED <<pc, timers, firing, overtaken, resumed>>
    BY <1>2 DEF SetImmediate, Call, kept
  <2>2. new.id = ops + 1 /\ new.ahead <= 1
    BY DEF ImmediateTurn
  <2> HIDE DEF new
  <2>3. RearmedLater'
    BY <1>0, <2>1, <2>2 DEF RearmedLater, OvertakenWereUsed
  <2>4. OvertakenWereUsed' /\ OneTurnAhead'
    BY <1>0, <2>1, <2>2 DEF OvertakenWereUsed, OneTurnAhead
  <2> QED
    BY <2>3, <2>4
<1>3. CASE Return
  <2>1. UNCHANGED <<imms, ops, overtaken, resumed>> /\ pc' \notin {"timer", "listener"}
    BY <1>3 DEF Return, kept
  <2>2. CASE pc # "timer"
    BY <1>3, <2>1, <2>2, TasksStay DEF Return
  <2>3. CASE pc = "timer"
    <3>1. \A t \in timers' : t \in timers \/ (t.id = firing.id /\ t.ahead = 1)
      BY <1>3, <2>3 DEF Return, Rearmed
    <3>2. RearmedLater'
      BY <1>0, <2>1, <2>3, <3>1 DEF RearmedLater
    <3>3. OvertakenWereUsed' /\ OneTurnAhead'
      BY <1>0, <2>1, <2>3, <3>1 DEF OvertakenWereUsed, OneTurnAhead
    <3> QED
      BY <3>2, <3>3
  <2> QED
    BY <2>2, <2>3
<1>4. CASE RunAgain
  <2>0. PICK n \in 0..MaxTurn : \E given \in [Ids -> 0..n] :
           timers' = Restarted(timers, n, given) /\ imms' = Restarted(imms, n, given)
    BY <1>4 DEF RunAgain
  <2>1. PICK given \in [Ids -> 0..n] :
           timers' = Restarted(timers, n, given) /\ imms' = Restarted(imms, n, given)
    BY <2>0
  <2>2. /\ \A t \in timers' : \E u \in timers :
               t.id = u.id /\ t.ahead = (IF u.ahead = 0 THEN given[u.id] ELSE n + 1)
        /\ \A i \in imms' : \E j \in imms :
               i.id = j.id /\ i.ahead = (IF j.ahead = 0 THEN given[j.id] ELSE n + 1)
    BY <2>1 DEF Restarted, TypeOK, TimerTasks
  <2>3. /\ pc = "listener" /\ pc' = "top" /\ UNCHANGED <<ops, overtaken>>
        /\ resumed' = resumed
    BY <1>4 DEF RunAgain, kept
  <2>4. \A i \in imms, t \in timers : i.ahead <= 1 /\ t.ahead <= 1
    BY <2>3 DEF OneTurnAhead
  <2>5. RearmedLater'
    <3>1. ASSUME NEW i \in imms', NEW t \in timers', <<i.id, t.id>> \in overtaken
          PROVE  i.ahead < t.ahead
      <4>1. PICK u \in timers :
               t.id = u.id /\ t.ahead = (IF u.ahead = 0 THEN given[u.id] ELSE n + 1)
        BY <2>2
      <4>2. PICK j \in imms :
               i.id = j.id /\ i.ahead = (IF j.ahead = 0 THEN given[j.id] ELSE n + 1)
        BY <2>2
      <4>3. j.ahead < u.ahead
        BY <3>1, <4>1, <4>2 DEF RearmedLater
      <4>4. j.ahead = 0 /\ u.ahead # 0
        BY <1>0, <2>4, <4>3
      <4>5. given[j.id] \in 0..n
        BY DEF TypeOK
      <4> QED
        BY <4>1, <4>2, <4>4, <4>5
    <3> QED
      BY <2>3, <3>1 DEF RearmedLater
  <2>6. resumed
    BY <2>3 DEF ListInv, ListenersCalled
  <2>7. OvertakenWereUsed' /\ OneTurnAhead'
    BY <2>3, <2>6 DEF OvertakenWereUsed, OneTurnAhead
  <2> QED
    BY <2>5, <2>7
<1>5. CASE FireTimer
  <2> DEFINE t == EarliestOf(TurnTimers)
  <2>1. t \in timers /\ t.ahead = 0
    BY <1>5, EarliestIsIn DEF FireTimer, DueTimers, TurnTimers, TimerInv
  <2>2. /\ timers' = timers \ {t} /\ firing'.id = t.id /\ pc = "top" /\ pc' = "timer"
        /\ overtaken' = overtaken \cup {<<i.id, t.id>> : i \in TurnImms}
        /\ UNCHANGED <<imms, ops, resumed>>
    BY <1>5 DEF FireTimer, Polling, Quiet, PastCheckpoint
  <2>3. \A u \in timers' : u \in timers /\ u.id # t.id
    BY <2>1, <2>2 DEF TimerInv, OneTask
  <2> HIDE DEF t
  <2>4. \A i \in imms : <<i.id, t.id>> \notin overtaken
    BY <1>0, <2>1 DEF RearmedLater
  <2>5. \A i \in imms, u \in timers' : <<i.id, u.id>> \in overtaken' => i.ahead < u.ahead
    BY <2>2, <2>3 DEF RearmedLater
  <2>6. \A i \in imms : <<i.id, t.id>> \in overtaken' => \E j \in TurnImms : i.id = j.id
    BY <2>2, <2>4
  <2>7. RearmedLater'
    <3>1. ASSUME NEW i \in imms, <<i.id, t.id>> \in overtaken'
          PROVE  i.ahead = 0
      BY <2>6, <3>1 DEF TurnImms, ListInv, OneImmediate
    <3> QED
      BY <2>2, <2>5, <3>1 DEF RearmedLater
  <2>8. OvertakenWereUsed'
    <3>1. t.id <= ops /\ \A i \in TurnImms : i.id <= ops
      BY <2>1 DEF TimerInv, IdsAreUsed, TurnImms, ListInv, OneImmediate
    <3>2. \A p \in overtaken' : p \in overtaken \/ \E i \in TurnImms : p = <<i.id, t.id>>
      BY <2>2
    <3> QED
      BY <2>2, <3>1, <3>2 DEF OvertakenWereUsed
  <2>9. OneTurnAhead'
    BY <2>2, <2>3 DEF OneTurnAhead
  <2> QED
    BY <2>7, <2>8, <2>9
<1>6. CASE NextTurn
  <2>1. /\ \A t \in timers' : \E u \in timers : t.id = u.id /\ t.ahead = NextOf(u.ahead)
        /\ \A i \in imms' : \E j \in imms : i.id = j.id /\ i.ahead = NextOf(j.ahead)
    BY <1>6 DEF NextTurn, TypeOK, TimerTasks
  <2>2. /\ pc = "idle" /\ pc' = "top" /\ UNCHANGED <<ops, overtaken, resumed>>
    BY <1>6 DEF NextTurn, kept
  <2>3. \A i \in imms : i.ahead > 0
    BY <1>0, <2>2 DEF LoopInv, IdleIsQuiet
  <2>4. RearmedLater'
    BY <1>0, <2>1, <2>2, <2>3 DEF RearmedLater, NextOf
  <2>5. OvertakenWereUsed' /\ OneTurnAhead'
    BY <1>0, <2>1, <2>2 DEF OvertakenWereUsed, OneTurnAhead, NextOf
  <2> QED
    BY <2>4, <2>5
<1>7. ASSUME NEW i \in Ids, TimerClear(i)
      PROVE  TurnInv'
  <2>1. firing'.id = firing.id
    BY <1>7 DEF TimerClear, TypeOK, NoTimer
  <2> QED
    BY <1>7, <2>1, TasksStay DEF TimerClear, Call
<1>8. ASSUME NEW i \in Ids, TimerRefresh(i)
      PROVE  TurnInv'
  <2>1. firing'.id = firing.id
    BY <1>8 DEF TimerRefresh, TypeOK, NoTimer
  <2>2. \A t \in timers' : \E u \in timers : t.id = u.id /\ t.ahead = u.ahead
    BY <1>8 DEF TimerRefresh, StartOver, TypeOK, TimerTasks
  <2> QED
    BY <1>8, <2>1, <2>2, TasksStay DEF TimerRefresh, Call, kept
<1>9. ASSUME NEW i \in Ids, NEW b \in BOOLEAN, TimerSetRef(i, b)
      PROVE  TurnInv'
  <2>1. firing'.id = firing.id
    BY <1>9 DEF TimerSetRef, TypeOK, NoTimer
  <2>2. \A t \in timers' : \E u \in timers : t.id = u.id /\ t.ahead = u.ahead
    BY <1>9 DEF TimerSetRef, TypeOK, TimerTasks
  <2> QED
    BY <1>9, <2>1, <2>2, TasksStay DEF TimerSetRef, Call
<1>10. ASSUME NEW i \in Ids, ClearImmediate(i)
      PROVE  TurnInv'
  BY <1>10, TasksStay DEF ClearImmediate, Call, kept
<1>11. ASSUME NEW i \in Ids, NEW b \in BOOLEAN, SetImmediateRef(i, b)
      PROVE  TurnInv'
  <2>1. \A t \in imms' : \E u \in imms : t.id = u.id /\ t.ahead = u.ahead
    BY <1>11 DEF SetImmediateRef, TypeOK
  <2> QED
    BY <1>11, <2>1, TasksStay DEF SetImmediateRef, Call, kept
<1>12. CASE Tick
  <2>1. \A t \in timers' : \E u \in timers : t.id = u.id /\ t.ahead = u.ahead
    BY <1>12 DEF Tick, TypeOK, TimerTasks
  <2> QED
    BY <1>12, <2>1, TasksStay DEF Tick, kept
<1>13. CASE Throw
  <2>1. resumed' \/ resumed' = resumed
    BY <1>13 DEF Throw
  <2>2. ~resumed' \/ pc' = "listener" => ~resumed \/ pc = "listener"
    BY <1>13 DEF Throw, Caught, TypeOK
  <2> QED
    BY <1>13, <2>2, TasksStay DEF Throw
<1>14. CASE Drained
  <2>1. ~resumed' \/ pc' = "listener" => ~resumed \/ pc = "listener"
    BY <1>14 DEF Drained, Caught, TypeOK
  <2> QED
    BY <1>14, <2>1, TasksStay DEF Drained
<1>15. CASE ProcessNextTick
  BY <1>15, TasksStay DEF ProcessNextTick, Call, kept
<1>16. CASE QueueMicrotask
  BY <1>16, TasksStay DEF QueueMicrotask, Call, kept
<1>17. CASE ModuleImport
  BY <1>17, TasksStay DEF ModuleImport, Call, kept
<1>18. CASE PromiseReject
  BY <1>18, TasksStay DEF PromiseReject, Call, kept
<1>19. CASE FsRename
  BY <1>19, TasksStay DEF FsRename, Call, kept
<1>20. CASE RunTick
  BY <1>20, TasksStay DEF RunTick, kept
<1>21. CASE RunMicrotask
  BY <1>21, TasksStay DEF RunMicrotask, kept
<1>22. CASE SkippedTicks
  BY <1>22, TasksStay DEF SkippedTicks, kept
<1>23. CASE RunJob
  BY <1>23, TasksStay DEF RunJob, PastCheckpoint, kept
<1>24. CASE RunCheck
  BY <1>24, TasksStay DEF RunCheck, PastCheckpoint, kept
<1>25. CASE Checked
  BY <1>25, TasksStay DEF Checked, kept
<1>26. CASE RunIo
  BY <1>26, TasksStay DEF RunIo, Quiet, PastCheckpoint, kept
<1>27. CASE NoWork
  BY <1>27, TasksStay DEF NoWork, Quiet, PastCheckpoint, kept
<1>28. CASE FireImmediate
  BY <1>28, TasksStay DEF FireImmediate, Polling, Quiet, PastCheckpoint, kept
<1>29. CASE Idle
  BY <1>29, TasksStay DEF Idle, Polling, Quiet, PastCheckpoint, kept
<1>30. CASE RenamesWait
  BY <1>30, TasksStay DEF RenamesWait, kept
<1>31. CASE Sleep
  BY <1>31, TasksStay DEF Sleep, kept
<1>32. CASE Awake
  BY <1>32, TasksStay DEF Awake, kept
<1>33. CASE Finish
  BY <1>33, TasksStay DEF Finish, kept
<1>34. CASE CompleteRename
  BY <1>34, TasksStay DEF CompleteRename, kept
<1>35. CASE Terminated
  BY <1>35, TasksStay DEF Terminated, vars, kept
<1> QED
  BY <1>1, <1>2, <1>3, <1>4, <1>5, <1>6, <1>7, <1>8, <1>9, <1>10, <1>11, <1>12, <1>13, <1>14,
     <1>15, <1>16, <1>17, <1>18, <1>19, <1>20, <1>21, <1>22, <1>23, <1>24, <1>25, <1>26, <1>27, <1>28,
     <1>29, <1>30, <1>31, <1>32, <1>33, <1>34, <1>35 DEF Next, ScriptCall, LoopStep

\* The invariant is inductive.
LEMMA InvStep == Inv /\ [Next]_vars => Inv'
<1> SUFFICES ASSUME Inv, [Next]_vars PROVE Inv'
  OBVIOUS
<1>1. CASE Next
  BY <1>1, TypeStep, TimerStep, LoopInvStep, ListStep, TurnStep DEF Inv
<1>2. CASE UNCHANGED vars
  <2>1. (TypeOK /\ TimerInv /\ LoopInv)'
    BY <1>2 DEF vars, queues, kept, Inv, TypeOK, TimerInv, LoopInv, DueInRange, IdsAreUsed,
                OneTask, FiringIsTracked, ClearedStaysDead, RefsAreKept, DoneWereAsked,
                IdleIsQuiet, NoEarlyExit, KeepsAlive
  <2>2. TurnInv' /\ ListInv'
    BY <1>2, TasksStay, ImmediatesAside DEF vars, kept
  <2> QED
    BY <2>1, <2>2 DEF Inv
<1> QED
  BY <1>1, <1>2
-----------------------------------------------------------------------------
\* The inductive invariant holds in every state of every program: it relates
\* TIMER_TASKS, the FIRING_TIMER_* cells and the queues of the event loop.
THEOREM LoopInvariant == Spec => []Inv
BY LoopInit, InvStep, PTL DEF Spec

\* Every variable keeps its type; in particular a blocking wait of the loop
\* never lasts longer than the longest delay unless it has no timer to wait for.
THEOREM TypeCorrect == Spec => []TypeOK
<1>1. Inv => TypeOK
  BY DEF Inv
<1> QED
  BY <1>1, LoopInvariant, PTL

\* A timer that was cleared, by its own callback too, is never armed again
\* (timer_clear, timer_refresh and the re-arm after the callback).
THEOREM ClearedTimersStayDead == Spec => []ClearedStaysDead
<1>1. Inv => ClearedStaysDead
  BY DEF Inv, TimerInv
<1> QED
  BY <1>1, LoopInvariant, PTL

\* The last ref or unref of a timer is in force wherever the timer is: armed,
\* firing, or armed again (timer_set_ref and the FIRING_TIMER_* cells).
THEOREM RefsAreNeverLost == Spec => []RefsAreKept
<1>1. Inv => RefsAreKept
  BY DEF Inv, TimerInv
<1> QED
  BY <1>1, LoopInvariant, PTL

\* The loop leaves without a failure only when nothing referenced is pending
\* and every queue is empty, at each of its exits.
THEOREM NoExitWithWork == Spec => []NoEarlyExit
<1>1. Inv => NoEarlyExit
  BY DEF Inv, LoopInv
<1> QED
  BY <1>1, LoopInvariant, PTL

\* FireTimer is the only step into a timer's callback.
LEMMA OnlyFireTimer ==
    ASSUME Next, pc' = "timer", pc # "timer"
    PROVE  FireTimer
<1>1. CASE ScriptCall
  BY <1>1 DEF ScriptCall, TimerSchedule, TimerClear, TimerRefresh, TimerSetRef,
              SetImmediate, ClearImmediate, SetImmediateRef, ProcessNextTick,
              QueueMicrotask, ModuleImport, PromiseReject, FsRename
<1>2. CASE LoopStep /\ ~FireTimer
  BY <1>2 DEF LoopStep, Return, RunAgain, RunTick, RunMicrotask, Drained, SkippedTicks,
              RunJob, RunCheck, Checked, RunIo, NoWork, FireImmediate, Idle,
              NextTurn, RenamesWait, Sleep, Awake, Finish
<1>3. CASE Throw \/ CompleteRename \/ Tick \/ Terminated
  BY <1>3 DEF Throw, CompleteRename, Tick, Terminated, vars
<1> QED
  BY <1>1, <1>2, <1>3 DEF Next

\* Whichever way a timer came back, as an interval, refreshed by its own callback
\* or kept through an uncaught exception, it does not fire a second time before
\* an immediate it has overtaken (the turns of run_event_loop).
THEOREM NoTimerOvertakesTwice == Spec => OvertakenOnce
<1>1. Inv /\ [Next]_vars =>
        [pc # "timer" /\ pc' = "timer" =>
            \A i \in imms : <<i.id, firing'.id>> \notin overtaken]_vars
  <2> SUFFICES ASSUME Inv, Next, pc # "timer", pc' = "timer", NEW i \in imms
               PROVE  <<i.id, firing'.id>> \notin overtaken
    BY Zenon
  <2>1. FireTimer
    BY OnlyFireTimer
  <2> DEFINE t == EarliestOf(TurnTimers)
  <2>2. t \in timers /\ t.ahead = 0
    BY <2>1, EarliestIsIn DEF FireTimer, DueTimers, TurnTimers, Inv, TimerInv
  <2>3. firing'.id = t.id
    BY <2>1 DEF FireTimer
  <2> HIDE DEF t
  <2>4. i.ahead \in Nat
    BY LoopAssumption DEF Inv, TypeOK, Turns
  <2> QED
    BY <2>2, <2>3, <2>4 DEF Inv, TurnInv, RearmedLater
<1> QED
  BY <1>1, LoopInvariant, PTL DEF Spec, OvertakenOnce

\* The loop fires the earliest timer of the turn, and only once it is due.
TimersInOrder ==
    [][pc' = "timer" /\ pc # "timer" =>
         \E t \in timers :
            /\ firing'.id = t.id /\ t.ahead = 0 /\ t.due <= 0
            /\ \A u \in timers \ {t} : u.ahead = 0 => Earlier(t, u)]_vars

\* The earliest timer of a turn exists and is the one whose callback runs, and
\* it is due: the test that some timer is due and the choice of the timer
\* agree (the timer scan of run_event_loop_with_first_checkpoint).
THEOREM TimersFireInOrder == Spec => TimersInOrder
<1>1. Inv /\ [Next]_vars =>
        [pc' = "timer" /\ pc # "timer" =>
           \E t \in timers :
              /\ firing'.id = t.id /\ t.ahead = 0 /\ t.due <= 0
              /\ \A u \in timers \ {t} : u.ahead = 0 => Earlier(t, u)]_vars
  <2> SUFFICES ASSUME Inv, Next, pc' = "timer", pc # "timer"
               PROVE  \E t \in timers :
                         /\ firing'.id = t.id /\ t.ahead = 0 /\ t.due <= 0
                         /\ \A u \in timers \ {t} : u.ahead = 0 => Earlier(t, u)
    OBVIOUS
  <2>1. FireTimer
    BY OnlyFireTimer
  <2> DEFINE t == EarliestOf(TurnTimers)
  <2>2. /\ t \in TurnTimers
        /\ \A u \in TurnTimers \ {t} : Earlier(t, u)
    BY <2>1, EarliestIsIn DEF FireTimer, DueTimers, TurnTimers, Inv, TimerInv
  <2>3. firing'.id = t.id
    BY <2>1 DEF FireTimer
  <2> HIDE DEF t
  <2>4. t.due <= 0
    <3>1. PICK u \in TurnTimers : u.due <= 0
      BY <2>1 DEF FireTimer, DueTimers
    <3>2. u.due \in Int /\ t.due \in Int
      BY <2>2 DEF Inv, TypeOK, TurnTimers, TimerTasks
    <3> QED
      BY <2>2, <3>1, <3>2 DEF Earlier
  <2> QED
    BY <2>2, <2>3, <2>4 DEF TurnTimers
<1> QED
  BY <1>1, LoopInvariant, PTL DEF Spec, TimersInOrder
============================================================================
