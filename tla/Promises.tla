------------------------------ MODULE Promises ------------------------------
(***************************************************************************)
(* Promises of the Rust runtime (runtime-rust/src/promises.rs and            *)
(* promise_views.rs) under the checkpoints of the event loop: reactions,     *)
(* the combinators built on them, and the deferred reports of unhandled       *)
(* rejections.                                                              *)
(*                                                                         *)
(* Values are abstracted to the outcome.  A view is a promise of another     *)
(* representation: it has no reactions of its own and forwards to the        *)
(* promise it was made from.                                               *)
(*                                                                         *)
(* A rejectionHandled listener is called in the middle of promise_then and   *)
(* is script code itself: attach holds what the calls under way have still    *)
(* to do, innermost first.  Listeners that throw are left out.              *)
(***************************************************************************)
EXTENDS Naturals, Sequences, FiniteSets

CONSTANTS MaxPromises,  \* bound: promises ever created
          MaxOps        \* bound: calls made by script code

ASSUME PromisesAssumption == MaxPromises \in Nat \ {0} /\ MaxOps \in Nat

VARIABLES
    promises,  \* one PromiseData per promise created so far
    micro,     \* MICROTASKS: reactions with the outcome they were settled with
    checks,    \* PROMISE_CHECKS: rejected promises still to be looked at
    attach,    \* reactions being attached, the call under way first
    combined,  \* state of each Promise.all result: entries left, settled
    handler,   \* an unhandledRejection listener is installed
    late,      \* a rejectionHandled listener is installed
    crashed,   \* UNHANDLED_REJECTION
    pc, back,  \* where the thread is, and where a script callback returns to
    ops,       \* calls made so far; the last reaction id handed out
    ran,       \* history: ids of the reactions that ran
    seen,      \* history: promises a reaction was attached to, or polled
    told       \* history: reports made, TRUE for "unhandled", per promise

core == <<promises, micro, checks, told>>
listeners == <<handler, late>>
vars == <<core, attach, combined, listeners, crashed, pc, back, ops, ran, seen>>

Outcomes == {"fulfilled", "rejected"}
Ids == 1..MaxPromises
Created == 1..Len(promises)
Kinds == {"user", "map", "flatMap", "forward", "all"}
Reactions == [id : 1..2 * MaxOps, on : Ids, kind : Kinds, to : 0..MaxPromises]

\* promise_then forwards from a view to the promise behind it.
Behind(p) == IF promises[p].view = 0 THEN p ELSE promises[p].view

\* own: a promise script code settles, not the result of a combinator.
Fresh == [state |-> "pending", handled |-> FALSE, reported |-> FALSE, view |-> 0,
          own |-> FALSE, reactions |-> <<>>]

\* Mutant: the last reaction attached runs first.
JobsReversed(rs, outcome) ==
    [i \in DOMAIN rs |-> [reaction |-> rs[Len(rs) + 1 - i], outcome |-> outcome]]

\* One microtask per reaction, in the order they were attached.
Jobs(rs, outcome) == [i \in DOMAIN rs |-> [reaction |-> rs[i], outcome |-> outcome]]

\* The part of the state the operations below pass from one to the next.
Core == [promises |-> promises, micro |-> micro, checks |-> checks, told |-> told]
Become(s) ==
    /\ promises' = s.promises /\ micro' = s.micro
    /\ checks' = s.checks /\ told' = s.told

\* Mutant: the reactions are queued but not taken from the promise.
SettleKeeping(s, p, outcome) ==
    IF s.promises[p].view # 0 \/ s.promises[p].state # "pending" THEN s
    ELSE [s EXCEPT !.promises[p].state = outcome,
                   !.micro = @ \o Jobs(s.promises[p].reactions, outcome),
                   !.checks = IF outcome = "rejected" THEN Append(@, p) ELSE @]

\* promise_fulfill and promise_reject: nothing happens to a settled promise
\* or to a view.  A rejection defers its check.
Settle(s, p, outcome) ==
    IF s.promises[p].view # 0 \/ s.promises[p].state # "pending" THEN s
    ELSE [s EXCEPT !.promises[p] = [@ EXCEPT !.state = outcome, !.reactions = <<>>],
                   !.micro = @ \o Jobs(s.promises[p].reactions, outcome),
                   !.checks = IF outcome = "rejected" THEN Append(@, p) ELSE @]

\* promise_poll and the first half of promise_then: the rejection is handled
\* from here on, and a report already made is taken back (rejectionHandled).
Observe(s, p) ==
    [s EXCEPT !.promises[p] = [@ EXCEPT !.handled = TRUE, !.reported = FALSE],
              !.told[p] = IF s.promises[p].reported THEN Append(@, FALSE) ELSE @]

\* promise_then on a promise that is no view: a reaction is kept or, once
\* the promise is settled, queued.
ThenAtOnce(s, r) ==  \* Mutant: a reaction is queued before its promise is settled.
    [s EXCEPT !.micro = @ \o Jobs(<<r>>, s.promises[r.on].state)]
Then(s, r) ==
    IF s.promises[r.on].state = "pending"
      THEN [s EXCEPT !.promises[r.on].reactions = Append(@, r)]
      ELSE [s EXCEPT !.micro = @ \o Jobs(<<r>>, s.promises[r.on].state)]

Add(s) == [s EXCEPT !.promises = Append(@, Fresh), !.told = Append(@, <<>>)]
-----------------------------------------------------------------------------
Init ==
    /\ promises = <<>> /\ micro = <<>> /\ checks = <<>> /\ told = <<>>
    /\ attach = <<>> /\ combined = [p \in Ids |-> [left |-> 0, settled |-> FALSE]]
    /\ handler = FALSE /\ late = FALSE /\ crashed = FALSE
    /\ pc = "script" /\ back = "top" /\ ops = 0 /\ ran = {} /\ seen = {}

\* Script code runs, in a callback of the loop or in a rejectionHandled listener.
InScript == IF attach = <<>> THEN pc = "script" ELSE attach[1].listening
Call == InScript /\ ops < MaxOps /\ ops' = ops + 1
Room == Len(promises) < MaxPromises
NewId == Len(promises) + 1

\* Two reaction ids per call: a combinator attaches to two entries.
Reaction(n, p, kind, to) == [id |-> 2 * ops + n, on |-> Behind(p), kind |-> kind, to |-> to]

\* The calls of promise_then that the operation goes on to make.
Attach(rs) == attach' = [i \in DOMAIN rs |-> [reaction |-> rs[i], listening |-> FALSE]] \o attach

PromiseNew ==
    /\ Call /\ Room
    /\ Become([Add(Core) EXCEPT !.promises[NewId].own = TRUE])
    /\ UNCHANGED <<attach, combined, listeners, crashed, pc, back, ran, seen>>

\* Mutant: making a view counts as handling the promise behind it.
PromiseViewHandles(p) ==
    /\ Call /\ Room
    /\ Become([Add(Core) EXCEPT !.promises[NewId].view = Behind(p),
                                !.promises[NewId].handled = TRUE,
                                !.promises[Behind(p)].handled = TRUE])
    /\ UNCHANGED <<attach, combined, listeners, crashed, pc, back, ran, seen>>

\* promise_view_from_handle.
PromiseView(p) ==
    /\ Call /\ Room
    /\ Become([Add(Core) EXCEPT !.promises[NewId] = [@ EXCEPT !.view = Behind(p),
                                                              !.handled = TRUE]])
    /\ UNCHANGED <<attach, combined, listeners, crashed, pc, back, ran, seen>>

PromiseSettle(p, outcome) ==
    /\ Call /\ promises[p].own
    /\ Become(Settle(Core, p, outcome))
    /\ UNCHANGED <<attach, combined, listeners, crashed, pc, back, ran, seen>>

PromiseThen(p) ==
    /\ Call
    /\ Attach(<<Reaction(1, p, "user", 0)>>)
    /\ UNCHANGED <<core, combined, listeners, crashed, pc, back, ran, seen>>

\* The outcome is read before a listener runs.
PromisePoll(p) ==
    /\ Call
    /\ Become(Observe(Core, Behind(p)))
    /\ seen' = seen \cup {Behind(p)}
    /\ UNCHANGED <<attach, combined, listeners, crashed, pc, back, ran>>

\* promise_map and promise_flat_map.
PromiseMap(p, kind) ==
    /\ Call /\ Room
    /\ Become(Add(Core))
    /\ Attach(<<Reaction(1, p, kind, NewId)>>)
    /\ UNCHANGED <<combined, listeners, crashed, pc, back, ran, seen>>

\* The state promise_all shares between the reactions of its two entries.
OneLeft == [left |-> 1, settled |-> FALSE]  \* Mutant: off by one.
StartAll == [left |-> 2, settled |-> FALSE]

\* promise_race and promise_all of two entries.
Combine(p, q, kind) ==
    /\ Call /\ Room
    /\ Become(Add(Core))
    /\ Attach(<<Reaction(1, p, kind, NewId), Reaction(2, q, kind, NewId)>>)
    /\ combined' = IF kind = "all" THEN [combined EXCEPT ![NewId] = StartAll] ELSE combined
    /\ UNCHANGED <<listeners, crashed, pc, back, ran, seen>>

\* process.on and process.off of the two rejection events.
SetListener ==
    /\ Call
    /\ \/ handler' = ~handler /\ UNCHANGED late
       \/ late' = ~late /\ UNCHANGED handler
    /\ UNCHANGED <<core, attach, combined, crashed, pc, back, ran, seen>>

ScriptCall ==
    \/ PromiseNew \/ SetListener
    \/ \E p \in Created :
        \/ PromiseView(p) \/ PromiseThen(p) \/ PromisePoll(p)
        \/ \E o \in Outcomes : PromiseSettle(p, o)
        \/ \E k \in {"map", "flatMap"} : PromiseMap(p, k)
        \/ \E q \in Created, k \in {"forward", "all"} : Combine(p, q, k)

\* promise_then: if a report is taken back, the listener runs before the
\* reaction goes anywhere but on a pending promise, where none was reported.
AttachOne ==
    /\ attach # <<>> /\ ~attach[1].listening
    /\ LET r == attach[1].reaction IN
       /\ seen' = seen \cup {r.on}
       /\ IF promises[r.on].reported /\ late
            THEN Become(Observe(Core, r.on)) /\ attach' = [attach EXCEPT ![1].listening = TRUE]
            ELSE Become(Then(Observe(Core, r.on), r)) /\ attach' = Tail(attach)
    /\ UNCHANGED <<combined, listeners, crashed, pc, back, ops, ran>>

\* The listener returns and promise_then goes on.
ListenerReturn ==
    /\ attach # <<>> /\ attach[1].listening
    /\ Become(Then(Core, attach[1].reaction)) /\ attach' = Tail(attach)
    /\ UNCHANGED <<combined, listeners, crashed, pc, back, ops, ran, seen>>

Return ==
    /\ attach = <<>> /\ pc = "script" /\ pc' = back
    /\ UNCHANGED <<core, attach, combined, listeners, crashed, back, ops, ran, seen>>

-----------------------------------------------------------------------------
Popped == [Core EXCEPT !.micro = Tail(@)]
Running(kinds) ==
    attach = <<>> /\ pc = "drain" /\ micro # <<>> /\ Head(micro).reaction.kind \in kinds
Job == Head(micro)
Ran == ran' = ran \cup {Job.reaction.id}

\* A reaction that is script code.
RunUser ==
    /\ Running({"user"}) /\ Ran
    /\ Become(Popped)
    /\ pc' = "script" /\ back' = "drain"
    /\ UNCHANGED <<attach, combined, listeners, crashed, ops, seen>>

\* promise_map: the mapper may throw; promise_run_segment turns that into a
\* rejection of the result.
RunMap ==
    /\ Running({"map"}) /\ Ran
    /\ \E o \in IF Job.outcome = "fulfilled" THEN Outcomes ELSE {"rejected"} :
         Become(Settle(Popped, Job.reaction.to, o))
    /\ UNCHANGED <<attach, combined, listeners, crashed, pc, back, ops, seen>>

\* promise_flat_map: the mapper yields a promise whose outcome is forwarded by
\* a reaction of its own, or throws.  The second reaction reuses the id.
RunFlatMap ==
    /\ Running({"flatMap"})
    /\ \/ /\ Job.outcome = "fulfilled"
          /\ \E p \in Created :
               /\ Become(Popped)
               /\ Attach(<<[Job.reaction EXCEPT !.on = Behind(p), !.kind = "forward"]>>)
          /\ UNCHANGED ran
       \/ /\ Become(Settle(Popped, Job.reaction.to, "rejected"))
          /\ Ran /\ UNCHANGED attach
    /\ UNCHANGED <<combined, listeners, crashed, pc, back, ops, seen>>

\* promise_race, and the inner promise of promise_flat_map.
RunForward ==
    /\ Running({"forward"}) /\ Ran
    /\ Become(Settle(Popped, Job.reaction.to, Job.outcome))
    /\ UNCHANGED <<attach, combined, listeners, crashed, pc, back, ops, seen>>

\* promise_all, promise_all_void: the last fulfilment or the first rejection.
RunAll ==
    /\ Running({"all"}) /\ Ran
    /\ LET t == Job.reaction.to IN
       IF combined[t].settled THEN Become(Popped) /\ UNCHANGED combined
       ELSE IF Job.outcome = "rejected" THEN
         /\ combined' = [combined EXCEPT ![t].settled = TRUE]
         /\ Become(Settle(Popped, t, "rejected"))
       ELSE
         /\ combined' = [combined EXCEPT ![t] = [left |-> @.left - 1, settled |-> @.left = 1]]
         /\ Become(IF combined[t].left = 1 THEN Settle(Popped, t, "fulfilled") ELSE Popped)
    /\ UNCHANGED <<attach, listeners, crashed, pc, back, ops, seen>>

\* Mutant: a handler attached between the rejection and the check is ignored.
UnhandledAtReject(p) == ~promises[p].reported /\ promises[p].state = "rejected"

\* The check pushed by promise_reject.  Script code runs if a handler is told.
Unhandled(p) ==
    ~promises[p].handled /\ ~promises[p].reported /\ promises[p].state = "rejected"

RunCheck ==
    /\ attach = <<>> /\ pc = "checks" /\ checks # <<>>
    /\ LET p == Head(checks) IN
       IF ~Unhandled(p)
         THEN checks' = Tail(checks) /\ UNCHANGED <<promises, micro, told, crashed, pc, back>>
         ELSE /\ Become([Core EXCEPT !.checks = Tail(@),
                                     !.promises[p] = [@ EXCEPT !.reported = TRUE,
                                                               !.handled = promises[p].handled \/ handler],
                                     !.told[p] = Append(@, TRUE)])
              /\ IF handler
                   THEN pc' = "script" /\ back' = "checks" /\ UNCHANGED crashed
                   ELSE crashed' = TRUE /\ UNCHANGED <<pc, back>>
    /\ UNCHANGED <<attach, combined, listeners, ops, ran, seen>>

\* Once the checks are done, UNHANDLED_REJECTION leaves the loop.
AfterChecks == IF crashed THEN "done" ELSE "top"

\* The checkpoints of run_event_loop_with_first_checkpoint: drain microtasks,
\* then drain checks, then take the next macrotask, which runs script code.
LoopControl ==
    /\ attach = <<>>
    /\ \/ /\ pc = "top" /\ micro # <<>>
          /\ pc' = "drain" /\ UNCHANGED back
       \/ /\ pc = "drain" /\ micro = <<>>
          /\ pc' = "top" /\ UNCHANGED back
       \/ /\ pc = "top" /\ micro = <<>> /\ checks # <<>>
          /\ pc' = "checks" /\ UNCHANGED back
       \/ /\ pc = "checks" /\ checks = <<>>
          /\ pc' = AfterChecks
          /\ UNCHANGED back
       \/ /\ pc = "top" /\ micro = <<>> /\ checks = <<>>
          /\ pc' = "script" /\ back' = "top"
    /\ UNCHANGED <<core, attach, combined, listeners, crashed, ops, ran, seen>>

Terminated == pc = "done" /\ UNCHANGED vars

LoopStep ==
    \/ AttachOne \/ ListenerReturn \/ Return \/ RunUser \/ RunMap \/ RunFlatMap \/ RunForward \/ RunAll \/ RunCheck
    \/ LoopControl

Next == ScriptCall \/ LoopStep \/ Terminated

Spec == Init /\ [][Next]_vars
-----------------------------------------------------------------------------
Waiting == UNION {{promises[p].reactions[i] : i \in DOMAIN promises[p].reactions} : p \in Created}
Attaching == {attach[i].reaction : i \in DOMAIN attach}
Queued == {micro[i].reaction : i \in DOMAIN micro}

TypeOK ==
    /\ Len(promises) <= MaxPromises
    /\ \A p \in Created :
         /\ promises[p].state \in Outcomes \cup {"pending"}
         /\ promises[p].handled \in BOOLEAN /\ promises[p].reported \in BOOLEAN
         /\ promises[p].view \in 0..MaxPromises
    /\ Waiting \cup Queued \cup Attaching \subseteq Reactions
    /\ \A i \in DOMAIN micro : micro[i].outcome \in Outcomes
    /\ checks \in Seq(Created) /\ Len(told) = Len(promises)
    /\ combined \in [Ids -> [left : 0..2, settled : BOOLEAN]]
    /\ handler \in BOOLEAN /\ late \in BOOLEAN /\ crashed \in BOOLEAN
    /\ pc \in {"script", "top", "drain", "checks", "done"} /\ back \in {"top", "drain", "checks"}
    /\ ops \in 0..MaxOps /\ ran \subseteq 1..2 * MaxOps /\ seen \subseteq Created

\* A reaction is in one place only, being attached, waiting on its promise,
\* queued, or done: none runs twice, however promises are shared between
\* combinators and whatever a rejectionHandled listener does.
NoReactionTwice ==
    /\ \A r \in Waiting \cup Queued \cup Attaching : r.id \notin ran
    /\ \A r \in Waiting, s \in Queued \cup Attaching : r.id # s.id
    /\ \A r \in Queued, s \in Attaching : r.id # s.id
    /\ \A i, j \in DOMAIN micro : micro[i].reaction.id = micro[j].reaction.id => i = j

\* Reactions attached to one promise run in the order they were attached, unless
\* a report of its rejection was taken back: promise_then calls the listener of
\* rejectionHandled before it queues the reaction, so what the listener attaches
\* to that promise runs first.
ReactionsInOrder ==
    \A i, j \in DOMAIN micro :
        /\ i < j /\ micro[i].reaction.on = micro[j].reaction.on
        /\ FALSE \notin {told[micro[i].reaction.on][n] : n \in DOMAIN told[micro[i].reaction.on]}
        /\ micro[i].reaction.kind = "user" /\ micro[j].reaction.kind = "user"
        => micro[i].reaction.id < micro[j].reaction.id

\* Promise.all counts exactly the entries whose reaction has not run.
AllCountsEntries ==
    \A t \in Created :
        combined[t].left > 0 /\ ~combined[t].settled =>
            combined[t].left = Cardinality({r \in Waiting \cup Queued \cup Attaching :
                                             r.kind = "all" /\ r.to = t})

\* When a macrotask starts, every rejection that nobody has looked at has been
\* reported, exactly once: none slips between two checkpoints, and a view made
\* of the promise does not hide it (promise_reject, promise_view_from_handle).
Quiescent == pc = "top" /\ micro = <<>> /\ checks = <<>>
RejectionsReported ==
    Quiescent => \A p \in Created :
        promises[p].state = "rejected" /\ p \notin seen => told[p] = <<TRUE>>

\* No rejection is reported that somebody attached to, or polled, before the
\* check ran, however late after the rejection (promise_reject's closure).
NoFalseReport ==
    [][\A p \in Created :
        Len(told'[p]) > Len(told[p]) /\ told'[p][Len(told'[p])] => p \notin seen]_vars
=============================================================================
