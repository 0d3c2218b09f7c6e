--------------------------- MODULE BuildSlotProofs ---------------------------
(***************************************************************************)
(* Proofs about BuildSlot, for any processes and any number of seats.        *)
(***************************************************************************)
EXTENDS BuildSlot, TLAPS

Reapers == [by : Procs, written : BOOLEAN] \cup {NoReaper}

\* The scan stays within the seats.
LEMMA NextSeat == \A i \in Index : (i % Seats) + 1 \in Index
  BY SlotAssumption DEF Index

\* The initial state has its types (acquireNativeBuildSlot).
LEMMA InitTypeOK == Init => TypeOK
  <1> SUFFICES ASSUME Init PROVE TypeOK
    OBVIOUS
  <1>1. 1 \in Index
    BY SlotAssumption DEF Index
  <1> QED
    BY <1>1 DEF Init, TypeOK, Steps

\* Every step keeps the types (all of native-build-slot.ts).
LEMMA StepTypeOK ==
    ASSUME TypeOK, NEW p \in Procs, Step(p) \/ Die(p)
    PROVE  TypeOK'
  <1> USE DEF TypeOK
  <1>1. \A s \in Steps : Go(p, s) => pc' \in [Procs -> Steps]
    BY DEF Go
  <1>2. Onward(p) => pc' \in [Procs -> Steps] /\ seat' \in [Procs -> Index]
    BY <1>1, NextSeat DEF Onward, Steps
  <1>3. seat[p] \in Index /\ lease[seat[p]] \in Procs \cup {Nobody}
        /\ reaper[seat[p]] \in Reapers
    BY DEF Reapers
  <1>4. CASE Acquire(p)
    BY <1>1, <1>3, <1>4 DEF Acquire, Steps
  <1>5. CASE OpenReaper(p)
    <2>1. Reaper(p, FALSE) \in Reapers
      BY DEF Reaper, Reapers
    <2>2. reaper' \in [Index -> Reapers]
      BY <1>3, <1>5, <2>1 DEF OpenReaper, Reapers
    <2> QED
      BY <1>1, <1>5, <2>2 DEF OpenReaper, Steps, Reapers
  <1>6. CASE WriteReaper(p)
    <2>1. Reaper(p, TRUE) \in Reapers
      BY DEF Reaper, Reapers
    <2>2. reaper' \in [Index -> Reapers]
      BY <1>3, <1>6, <2>1 DEF WriteReaper, Reapers
    <2> QED
      BY <1>1, <1>6, <2>2 DEF WriteReaper, Steps, Reapers
  <1>7. CASE LookAtLease(p)
    BY <1>1, <1>3, <1>7 DEF LookAtLease, Steps
  <1>8. CASE JudgeOwner(p)
    BY <1>1, <1>8 DEF JudgeOwner, Steps
  <1>9. CASE RemoveLease(p)
    BY <1>1, <1>3, <1>9 DEF RemoveLease, Steps
  <1>10. CASE RemoveOwnReaper(p)
    BY <1>2, <1>3, <1>10 DEF RemoveOwnReaper
  <1>11. CASE LookAtReaper(p)
    <2>1. reaper[seat[p]].by \in Procs \cup {Nobody}
      BY <1>3 DEF Reapers, NoReaper, Reaper
    <2>2. read' \in [Procs -> Procs \cup {Nobody}]
      BY <1>11, <2>1 DEF LookAtReaper
    <2>3. pc' \in [Procs -> Steps] /\ seat' \in [Procs -> Index]
      BY <1>1, <1>2, <1>11 DEF LookAtReaper, Steps
    <2> QED
      BY <1>11, <2>2, <2>3 DEF LookAtReaper
  <1>12. CASE JudgeReaper(p)
    BY <1>1, <1>2, <1>12 DEF JudgeReaper, Steps
  <1>13. CASE RemoveReaper(p)
    BY <1>2, <1>3, <1>13 DEF RemoveReaper
  <1>14. CASE EndBuild(p)
    BY <1>1, <1>14 DEF EndBuild, Steps
  <1>15. CASE LookAtOwn(p)
    BY <1>1, <1>15 DEF LookAtOwn, Steps
  <1>16. CASE RemoveOwn(p)
    BY <1>1, <1>3, <1>16 DEF RemoveOwn, Steps
  <1>17. CASE Die(p)
    BY <1>1, <1>17 DEF Die, Steps
  <1> QED
    BY <1>4, <1>5, <1>6, <1>7, <1>8, <1>9, <1>10, <1>11, <1>12, <1>13, <1>14, <1>15,
       <1>16, <1>17 DEF Step

LEMMA NextTypeOK == TypeOK /\ [Next]_vars => TypeOK'
  <1> SUFFICES ASSUME TypeOK, [Next]_vars PROVE TypeOK'
    OBVIOUS
  <1>1. CASE UNCHANGED vars
    BY <1>1 DEF vars, TypeOK
  <1> QED
    BY <1>1, StepTypeOK DEF Next, Finished

\* Types, for any processes and any number of seats.
THEOREM SlotTypeOK == Spec => []TypeOK
  <1> QED
    BY InitTypeOK, NextTypeOK, PTL DEF Spec

-----------------------------------------------------------------------------
\* Why live processes never share a seat.  A build holds the lease of its seat, an
\* owner under judgement is a process, and so nobody is about to remove a lease
\* that belongs to another: that takes an owner found dead.
HoldsLease == \A p \in Building : lease[seat[p]] = p
JudgesOwner == \A p \in Procs : pc[p] = "judge" => read[p] \in Procs
NobodyRemoves == \A p \in Procs : pc[p] # "remove"
SlotInv == TypeOK /\ JudgesOwner /\ (AllAlive => HoldsLease /\ NobodyRemoves)

\* The dead stay dead.
LEMMA DeadStayDead ==
    ASSUME TypeOK, [Next]_vars, AllAlive'
    PROVE  AllAlive
  <1> USE DEF AllAlive, Alive, TypeOK
  <1>1. ASSUME NEW p \in Procs, Step(p) \/ Die(p) PROVE pc[p] # "dead"
    BY <1>1 DEF Step, Die, Acquire, OpenReaper, WriteReaper, LookAtLease, JudgeOwner,
       RemoveLease, RemoveOwnReaper, LookAtReaper, JudgeReaper, RemoveReaper, EndBuild,
       LookAtOwn, RemoveOwn
  <1>2. ASSUME NEW p \in Procs, Step(p) \/ Die(p), NEW q \in Procs, q # p
        PROVE pc'[q] = pc[q]
    BY <1>2 DEF Step, Die, Acquire, OpenReaper, WriteReaper, LookAtLease, JudgeOwner,
       RemoveLease, RemoveOwnReaper, LookAtReaper, JudgeReaper, RemoveReaper, EndBuild,
       LookAtOwn, RemoveOwn, Go, Onward
  <1>3. CASE UNCHANGED vars
    BY <1>3 DEF vars
  <1> QED
    BY <1>1, <1>2, <1>3 DEF Next, Finished

\* One step of a process keeps the argument, as long as all live.
LEMMA StepSlotInv ==
    ASSUME SlotInv, NEW p \in Procs, Step(p)
    PROVE  JudgesOwner' /\ (AllAlive => HoldsLease' /\ NobodyRemoves')
  <1> USE DEF SlotInv
  <1>1. \A q \in Procs \ {p} : pc'[q] = pc[q] /\ seat'[q] = seat[q] /\ read'[q] = read[q]
    BY DEF Step, Acquire, OpenReaper, WriteReaper, LookAtLease, JudgeOwner,
       RemoveLease, RemoveOwnReaper, LookAtReaper, JudgeReaper, RemoveReaper, EndBuild,
       LookAtOwn, RemoveOwn, Go, Onward, TypeOK
  <1>2. JudgesOwner'
    <2>1. pc'[p] = "judge" => read'[p] \in Procs
      BY DEF Step, Acquire, OpenReaper, WriteReaper, LookAtLease, JudgeOwner,
         RemoveLease, RemoveOwnReaper, LookAtReaper, JudgeReaper, RemoveReaper, EndBuild,
         LookAtOwn, RemoveOwn, Go, Onward, TypeOK
    <2> QED
      BY <1>1, <2>1 DEF JudgesOwner
  <1>3. ASSUME AllAlive PROVE NobodyRemoves'
    <2>1. pc'[p] # "remove"
      <3>1. JudgeOwner(p) => Alive(read[p])
        BY <1>3 DEF AllAlive, JudgesOwner, JudgeOwner
      <3> QED
        BY <3>1 DEF Step, Acquire, OpenReaper, WriteReaper, LookAtLease, JudgeOwner,
           RemoveLease, RemoveOwnReaper, LookAtReaper, JudgeReaper, RemoveReaper, EndBuild,
           LookAtOwn, RemoveOwn, Go, Onward, TypeOK
    <2> QED
      BY <1>1, <1>3, <2>1 DEF NobodyRemoves
  <1>4. ASSUME AllAlive PROVE HoldsLease'
    <2>1. \/ UNCHANGED lease /\ ~Acquire(p)
          \/ Acquire(p)
          \/ RemoveOwn(p)
      BY <1>4 DEF NobodyRemoves, RemoveLease, Step, OpenReaper, WriteReaper, LookAtLease,
         JudgeOwner, RemoveOwnReaper, LookAtReaper, JudgeReaper, RemoveReaper, EndBuild,
         LookAtOwn
    <2>2. CASE Acquire(p)
      BY <1>1, <1>4, <2>2, SlotAssumption DEF HoldsLease, Building, Acquire, Go, TypeOK
    <2>3. CASE RemoveOwn(p)
      BY <1>1, <1>4, <2>3 DEF HoldsLease, Building, RemoveOwn, Go, TypeOK
    <2>4. CASE UNCHANGED lease /\ ~Acquire(p)
      <3>1. p \in Building' => p \in Building /\ seat'[p] = seat[p]
        BY <2>4 DEF Building, Step, OpenReaper, WriteReaper, LookAtLease, JudgeOwner,
           RemoveLease, RemoveOwnReaper, LookAtReaper, JudgeReaper, RemoveReaper, EndBuild,
           LookAtOwn, RemoveOwn, Go, Onward, TypeOK
      <3> QED
        BY <1>1, <1>4, <2>4, <3>1 DEF HoldsLease, Building
    <2> QED
      BY <2>1, <2>2, <2>3, <2>4
  <1> QED
    BY <1>2, <1>3, <1>4

\* The strengthened invariant is inductive.
LEMMA InitSlotInv == Init => SlotInv
  <1> SUFFICES ASSUME Init PROVE SlotInv
    OBVIOUS
  <1>1. \A p \in Procs : pc[p] = "try"
    BY DEF Init
  <1> QED
    BY <1>1, InitTypeOK DEF SlotInv, JudgesOwner, HoldsLease, NobodyRemoves, Building

LEMMA NextSlotInv == SlotInv /\ [Next]_vars => SlotInv'
  <1> SUFFICES ASSUME SlotInv, [Next]_vars PROVE SlotInv'
    OBVIOUS
  <1>1. TypeOK' /\ (AllAlive' => AllAlive)
    BY NextTypeOK, DeadStayDead DEF SlotInv
  <1>2. ASSUME NEW p \in Procs, Step(p) PROVE SlotInv'
    BY <1>1, <1>2, StepSlotInv DEF SlotInv
  <1>3. ASSUME NEW p \in Procs, Die(p) PROVE SlotInv'
    <2>1. ~AllAlive'
      BY <1>3 DEF Die, Go, AllAlive, Alive, SlotInv, TypeOK
    <2>2. JudgesOwner'
      BY <1>3 DEF Die, Go, JudgesOwner, SlotInv, TypeOK
    <2> QED
      BY <1>1, <2>1, <2>2 DEF SlotInv
  <1>4. CASE UNCHANGED vars
    BY <1>1, <1>4 DEF vars, SlotInv, JudgesOwner, AllAlive, Alive, HoldsLease, Building,
       NobodyRemoves
  <1> QED
    BY <1>2, <1>3, <1>4 DEF Next, Finished

\* The invariant holds in every state.
THEOREM SlotInvariant == Spec => []SlotInv
  <1> QED
    BY InitSlotInv, NextSlotInv, PTL DEF Spec

\* As long as no process has ended, no two builds share a seat, for any number of
\* processes and seats: the lease protocol is sound but for its test of death.
THEOREM SlotShared == Spec => []SharedOnlyAfterExit
  <1>1. SlotInv => SharedOnlyAfterExit
    BY DEF SlotInv, SharedOnlyAfterExit, HoldsLease, OneBuildPerSeat, Building
  <1> QED
    BY SlotInvariant, <1>1, PTL

\* As long as no process has ended, a lease goes only when its owner gives it up.
THEOREM SlotLeaseIsKept == Spec => LeaseIsKept
  <1>1. ASSUME SlotInv, [Next]_vars, NEW i \in Index, AllAlive, lease[i] # Nobody,
               lease'[i] # lease[i]
        PROVE  pc[lease[i]] = "removeOwn" /\ pc'[lease[i]] = "built"
    <2>1. PICK p \in Procs : Step(p)
      BY <1>1 DEF Next, Finished, vars, Die
    <2>2. RemoveOwn(p)
      BY <1>1, <2>1 DEF SlotInv, NobodyRemoves, RemoveLease, Acquire, Step, OpenReaper,
         WriteReaper, LookAtLease, JudgeOwner, RemoveOwnReaper, LookAtReaper, JudgeReaper,
         RemoveReaper, EndBuild, LookAtOwn, TypeOK
    <2>3. lease[i] = p
      BY <1>1, <2>2 DEF RemoveOwn, SlotInv, HoldsLease, Building, TypeOK
    <2> QED
      BY <1>1, <2>2, <2>3 DEF RemoveOwn, Go, SlotInv, TypeOK
  <1>2. SlotInv /\ [Next]_vars =>
          [\A i \in Index : AllAlive /\ lease[i] # Nobody /\ lease'[i] # lease[i] =>
             pc[lease[i]] = "removeOwn" /\ pc'[lease[i]] = "built"]_vars
    BY <1>1
  <1> QED
    BY SlotInvariant, <1>2, PTL DEF Spec, LeaseIsKept
=============================================================================
