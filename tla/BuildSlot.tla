------------------------------ MODULE BuildSlot ------------------------------
(***************************************************************************)
(* The machine-wide gate for native builds of the compiler                 *)
(* (compiler/src/backend/native-build-slot.ts).  A process holds a seat      *)
(* while the seat's lease file names it.  A process that finds a seat taken  *)
(* looks whether its owner is still alive and removes the lease if not;      *)
(* a second file, the reaper, keeps two processes from doing so at once.     *)
(*                                                                         *)
(* Each file operation is one action: a process awaits every one of them,    *)
(* and the others go on meanwhile.  Creating a reaper takes two, the          *)
(* exclusive open and the write.  A lease comes into being complete, by      *)
(* link().  Each process builds once; no pid is reused.  The reapers of        *)
(* earlier releases, directories, are left out.                             *)
(***************************************************************************)
EXTENDS Naturals, FiniteSets

CONSTANTS Procs,   \* compiler processes
          Nobody,  \* no process
          Seats,   \* SCRIPTC_NATIVE_HOST_WORKERS
          Exits,   \* TRUE if a process that has built may exit
          Mortal   \* processes that may crash

ASSUME SlotAssumption ==
    /\ Nobody \notin Procs /\ IsFiniteSet(Procs)
    /\ Seats \in Nat \ {0} /\ Exits \in BOOLEAN /\ Mortal \subseteq Procs

VARIABLES pc,      \* where each process is
          seat,    \* the seat each process is looking at or holds
          read,    \* the owner each process found in the file it read last
          lease,   \* the process named by the lease of each seat, or nobody
          reaper   \* the reaper of each seat: its writer, and whether it is written

vars == <<pc, seat, read, lease, reaper>>

Reaper(p, written) == [by |-> p, written |-> written]
NoReaper == Reaper(Nobody, FALSE)
Index == 1..Seats
Steps == {"try", "open", "write", "look", "judge", "remove", "unreap",
          "lookReaper", "judgeReaper", "removeReaper",
          "build", "lookOwn", "removeOwn", "built", "dead"}

Alive(p) == pc[p] # "dead"
Go(p, step) == pc' = [pc EXCEPT ![p] = step]

OnwardPast(p) ==  \* Mutant: the scan goes past the last seat.
    /\ Go(p, "try")
    /\ seat' = [seat EXCEPT ![p] = @ + 1]

\* On to the next seat; after the last one the process sleeps and starts over.
Onward(p) ==
    /\ Go(p, "try")
    /\ seat' = [seat EXCEPT ![p] = (@ % Seats) + 1]

Init ==
    /\ pc = [p \in Procs |-> "try"]
    /\ seat = [p \in Procs |-> 1]
    /\ read = [p \in Procs |-> Nobody]
    /\ lease = [i \in Index |-> Nobody]
    /\ reaper = [i \in Index |-> NoReaper]

\* acquireNativeBuildSlot: link() takes a seat without a lease.
Acquire(p) ==
    /\ pc[p] = "try"
    /\ IF lease[seat[p]] = Nobody
         THEN lease' = [lease EXCEPT ![seat[p]] = p] /\ Go(p, "build")
         ELSE Go(p, "open") /\ UNCHANGED lease
    /\ UNCHANGED <<seat, read, reaper>>

\* reclaimDeadLease: the reaper is created unless there is one.
OpenReaper(p) ==
    /\ pc[p] = "open"
    /\ IF reaper[seat[p]] = NoReaper
         THEN reaper' = [reaper EXCEPT ![seat[p]] = Reaper(p, FALSE)] /\ Go(p, "write")
         ELSE Go(p, "lookReaper") /\ UNCHANGED reaper
    /\ UNCHANGED <<seat, read, lease>>

\* The write is lost if the file was removed meanwhile.
WriteReaper(p) ==
    /\ pc[p] = "write"
    /\ reaper' = [reaper EXCEPT ![seat[p]] = IF @.by = p THEN Reaper(p, TRUE) ELSE @]
    /\ Go(p, "look")
    /\ UNCHANGED <<seat, read, lease>>

LookAtLease(p) ==
    /\ pc[p] = "look"
    /\ read' = [read EXCEPT ![p] = lease[seat[p]]]
    /\ Go(p, IF lease[seat[p]] = Nobody THEN "unreap" ELSE "judge")
    /\ UNCHANGED <<seat, lease, reaper>>

\* The owner that was read is looked up among the processes.
JudgeAll(p) ==  \* Mutant: every owner is taken for dead.
    /\ pc[p] = "judge"
    /\ Go(p, "remove")
    /\ UNCHANGED <<seat, read, lease, reaper>>
JudgeNone(p) ==  \* Mutant: no owner is ever taken for dead.
    /\ pc[p] = "judge"
    /\ Go(p, "unreap")
    /\ UNCHANGED <<seat, read, lease, reaper>>
JudgeOwner(p) ==
    /\ pc[p] = "judge"
    /\ Go(p, IF Alive(read[p]) THEN "unreap" ELSE "remove")
    /\ UNCHANGED <<seat, read, lease, reaper>>

RemoveLease(p) ==
    /\ pc[p] = "remove"
    /\ lease' = [lease EXCEPT ![seat[p]] = Nobody]
    /\ Go(p, "unreap")
    /\ UNCHANGED <<seat, read, reaper>>

\* Whichever reaper is there.
RemoveOwnReaper(p) ==
    /\ pc[p] = "unreap"
    /\ reaper' = [reaper EXCEPT ![seat[p]] = NoReaper]
    /\ Onward(p)
    /\ UNCHANGED <<read, lease>>

\* reclaimAbandonedReaper: a reaper that cannot be parsed is removed, one that
\* can if its writer is dead.
LookAtReaper(p) ==
    /\ pc[p] = "lookReaper"
    /\ LET r == reaper[seat[p]] IN
       /\ read' = [read EXCEPT ![p] = r.by]
       /\ IF r = NoReaper THEN Onward(p)
          ELSE Go(p, IF r.written THEN "judgeReaper" ELSE "removeReaper") /\ UNCHANGED seat
    /\ UNCHANGED <<lease, reaper>>

JudgeReaper(p) ==
    /\ pc[p] = "judgeReaper"
    /\ IF Alive(read[p]) THEN Onward(p) ELSE Go(p, "removeReaper") /\ UNCHANGED seat
    /\ UNCHANGED <<read, lease, reaper>>

RemoveReaper(p) ==
    /\ pc[p] = "removeReaper"
    /\ reaper' = [reaper EXCEPT ![seat[p]] = NoReaper]
    /\ Onward(p)
    /\ UNCHANGED <<read, lease>>

\* The build ends, with success or not.
EndBuild(p) ==
    /\ pc[p] = "build"
    /\ Go(p, "lookOwn")
    /\ UNCHANGED <<seat, read, lease, reaper>>

\* releaseNativeBuildSlot: only a lease that still names the process is removed.
LookAtOwn(p) ==
    /\ pc[p] = "lookOwn"
    /\ Go(p, IF lease[seat[p]] = p THEN "removeOwn" ELSE "built")
    /\ UNCHANGED <<seat, read, lease, reaper>>

RemoveOwn(p) ==
    /\ pc[p] = "removeOwn"
    /\ lease' = [lease EXCEPT ![seat[p]] = Nobody]
    /\ Go(p, "built")
    /\ UNCHANGED <<seat, read, reaper>>

\* A process exits after its build, or crashes wherever it is.
Die(p) ==
    /\ pc[p] # "dead"
    /\ (pc[p] = "built" /\ Exits) \/ p \in Mortal
    /\ Go(p, "dead")
    /\ UNCHANGED <<seat, read, lease, reaper>>

Step(p) ==
    \/ Acquire(p) \/ OpenReaper(p) \/ WriteReaper(p) \/ LookAtLease(p) \/ JudgeOwner(p)
    \/ RemoveLease(p) \/ RemoveOwnReaper(p) \/ LookAtReaper(p) \/ JudgeReaper(p)
    \/ RemoveReaper(p) \/ EndBuild(p) \/ LookAtOwn(p) \/ RemoveOwn(p)

Finished == (\A p \in Procs : pc[p] \in {"built", "dead"}) /\ UNCHANGED vars

Next == (\E p \in Procs : Step(p) \/ Die(p)) \/ Finished

\* A process that lives goes on; nothing is assumed of exits and crashes.
Spec == Init /\ [][Next]_vars
FairSpec == Spec /\ \A p \in Procs : WF_vars(Step(p))
-----------------------------------------------------------------------------
TypeOK ==
    /\ pc \in [Procs -> Steps]
    /\ seat \in [Procs -> Index]
    /\ read \in [Procs -> Procs \cup {Nobody}]
    /\ lease \in [Index -> Procs \cup {Nobody}]
    /\ reaper \in [Index -> [by : Procs, written : BOOLEAN] \cup {NoReaper}]

\* No seat is shared: builds under way hold different seats (withNativeBuildSlot).
\* tests/harness/README.md: "C/LLVM and Rust build transactions additionally share
\* two host-wide seats across processes and worktrees".
Building == {p \in Procs : pc[p] \in {"build", "lookOwn", "removeOwn"}}
OneBuildPerSeat == \A p, q \in Building : p # q => seat[p] # seat[q]

\* The same for as long as no process has ended: no interleaving of live
\* processes lets two builds into a seat.
AllAlive == \A p \in Procs : Alive(p)
SharedOnlyAfterExit == AllAlive => OneBuildPerSeat

\* As long as no process has ended a lease is only ever taken away by its owner.
LeaseIsKept ==
    [][\A i \in Index : AllAlive /\ lease[i] # Nobody /\ lease'[i] # lease[i] =>
          pc[lease[i]] = "removeOwn" /\ pc'[lease[i]] = "built"]_vars

\* Every process that wants to build gets to build, unless it dies: seats and
\* reapers of the dead are reclaimed, wherever in the protocol they died.
EveryoneBuilds == \A p \in Procs : pc[p] = "try" ~> pc[p] \in {"build", "dead"}
=============================================================================
