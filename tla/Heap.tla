-------------------------------- MODULE Heap --------------------------------
(***************************************************************************)
(* The object heap of the Rust runtime (runtime-rust/src/heap.rs): reference *)
(* counted nodes, and the collector that finds garbage cycles by trial       *)
(* deletion among the nodes that lost a handle.                             *)
(*                                                                         *)
(* A handle is a Gc<T>: owned by a payload or from outside the heap (the     *)
(* stack, a queue, a static).  A payload reports its traced handles to the   *)
(* collector; one held in a closure is not traced and counts like an outside *)
(* one.  Dropping a handle runs to the end before script code goes on, one    *)
(* handle at a time.                                                       *)
(***************************************************************************)
EXTENDS Naturals, FiniteSets

CONSTANTS MaxNodes,   \* bound: nodes ever allocated
          MaxCopies,  \* bound: handles with the same owner and target
          MaxHandles, \* bound: handles at one time
          Threshold   \* CYCLE_PRESSURE_THRESHOLD, 4096 in the code

ASSUME HeapAssumption ==
    MaxNodes \in Nat /\ MaxCopies \in Nat /\ MaxHandles \in Nat /\ Threshold \in Nat \ {0}

VARIABLES nodes,    \* nodes not yet freed
          nextId,   \* NEXT_NODE_ID
          handles,  \* handles in existence
          cands,    \* CYCLE_CANDIDATES, as the live nodes it refers to
          drops,    \* CYCLE_DROPS, counted up to Threshold
          dropping, \* handles whose drop is under way
          pinned,   \* nodes the collector holds references to while it works
          cleared,  \* history: nodes not yet freed that the collector has cleared
          pc        \* "run", "sweep" (a pass under way), "exit" (the last one), "done"

vars == <<nodes, nextId, handles, cands, drops, dropping, pinned, cleared, pc>>

Outside == 0
Nodes == 1..MaxNodes
Handles == [from : {Outside} \cup Nodes, to : Nodes, traced : BOOLEAN, copy : 1..MaxCopies]

To(n) == {h \in handles : h.to = n}
From(S) == {h \in handles : h.from \in S}
Roots == {h \in handles : h.from = Outside}

\* The targets of a set of handles, and what is reachable from S along handles
\* of H: the nodes in every set that contains S and is closed under H.
Targets(H) == {h.to : h \in H}
Closed(T, H) == \A h \in H : h.from \in T => h.to \in T
Reach(S, H) == {n \in Nodes : \A T \in SUBSET Nodes : S \subseteq T /\ Closed(T, H) => n \in T}

Traced == {h \in handles : h.traced}
-----------------------------------------------------------------------------
Init ==
    /\ nodes = {} /\ nextId = 1 /\ handles = {} /\ cands = {} /\ drops = 0
    /\ dropping = {} /\ pinned = {} /\ cleared = {} /\ pc = "run"

Script == pc = "run" /\ dropping = {}

\* Replace the handles in H by one from f to n, under the first free number.
Handle(f, n, t, k) == [from |-> f, to |-> n, traced |-> t, copy |-> k]
AddHandle(H, f, n, t) ==
    \E k \in 1..MaxCopies :
        /\ Handle(f, n, t, k) \notin handles
        /\ \A j \in 1..(k - 1) : Handle(f, n, t, j) \in handles
        /\ handles' = (handles \ H) \cup {Handle(f, n, t, k)}

\* Gc::new
New ==
    /\ Script /\ Cardinality(handles) < MaxHandles /\ nextId <= MaxNodes
    /\ nodes' = nodes \cup {nextId}
    /\ nextId' = nextId + 1
    /\ AddHandle({}, Outside, nextId, FALSE)
    /\ UNCHANGED <<cands, drops, dropping, pinned, cleared, pc>>

\* Gc::clone of an outside handle, of one found in a payload that an outside
\* handle leads to, and GcWeak::upgrade, which also finds garbage not yet
\* collected.
Clone(n) ==
    /\ Script /\ Cardinality(handles) < MaxHandles /\ n \in nodes
    /\ AddHandle({}, Outside, n, FALSE)
    /\ UNCHANGED <<nodes, nextId, cands, drops, dropping, pinned, cleared, pc>>

\* The nodes whose payload can be borrowed by way of the outside handles in R.
Accessible(R) == Reach(Targets(R), handles)

\* An outside handle is moved into a payload, borrowed by way of another one.
Store(h, m, t) ==
    /\ Script /\ h \in Roots /\ m \in Accessible(Roots \ {h})
    /\ AddHandle({h}, m, h.to, t)
    /\ UNCHANGED <<nodes, nextId, cands, drops, dropping, pinned, cleared, pc>>

\* An outside handle goes out of scope, or a payload's is overwritten.
Drop(h) ==
    /\ Script /\ h \in handles
    /\ h.from \in {Outside} \cup Accessible(Roots)
    /\ dropping' = {h}
    /\ UNCHANGED <<nodes, nextId, handles, cands, drops, pinned, cleared, pc>>

\* Mutant: the collector's own reference is not counted.
StrongCountUnpinned(n) == Cardinality(To(n))

\* The references to n: its handles, and the collector's own.
StrongCount(n) == Cardinality(To(n)) + (IF n \in pinned THEN 1 ELSE 0)
CountDrop == drops' = IF drops < Threshold THEN drops + 1 ELSE drops

\* What a payload drops with its node.
OwnsNothing(n) == {}  \* Mutant: the payload's handles are leaked.
Owned(n) == From({n})

\* A node that loses one of several handles may be left to a cycle.
RememberOutside(h) == IF h.from = Outside THEN cands \cup {h.to} ELSE cands  \* Mutant
Remember(h) == cands \cup {h.to}

\* Drop for Gc: the last reference frees the node, which drops the handles of
\* its payload; another one makes the node a candidate.
DropOne(h) ==
    /\ h \in dropping
    /\ handles' = handles \ {h}
    /\ IF StrongCount(h.to) = 1
         THEN /\ nodes' = nodes \ {h.to}
              /\ cands' = cands \ {h.to}
              /\ dropping' = (dropping \cup Owned(h.to)) \ {h}
              /\ UNCHANGED drops
         ELSE /\ cands' = Remember(h)
              /\ dropping' = dropping \ {h}
              /\ CountDrop
              /\ UNCHANGED nodes
    /\ UNCHANGED <<nextId, pinned, cleared, pc>>

-----------------------------------------------------------------------------
\* collect_cycles.  The snapshot is what the candidates lead to.
Snapshot == Reach(cands, Traced)
Incoming(n) == Cardinality({h \in To(n) : h.traced /\ h.from \in Snapshot})

\* Mutant: one reference too many is subtracted.
OutsideCountOff(n) == Cardinality(To(n)) - (1 + Incoming(n))

\* References that no edge of the snapshot accounts for.  The collector's own
\* reference is subtracted: StrongCount(n) - (1 + Incoming(n)) in the code.
OutsideCount(n) == Cardinality(To(n)) - Incoming(n)
Live == Reach({n \in Snapshot : OutsideCount(n) > 0}, Traced)
Garbage == Snapshot \ Live

\* The pass up to clear_edges, which drops every handle the payload owns.
Pass ==
    /\ cands' = {} /\ drops' = 0
    /\ pinned' = Snapshot
    /\ cleared' = cleared \cup Garbage
    /\ dropping' = From(Garbage)
    /\ UNCHANGED <<nodes, nextId, handles>>

\* collect_cycles_if_pressured, at the safe points of the event loop, and the
\* last pass, in finish.
Collect == Script /\ drops >= Threshold /\ Pass /\ pc' = "sweep"
CollectAtExit == Script /\ Pass /\ pc' = "exit"

\* The collector lets go of its nodes: those without a handle are freed.
FreedNodes == {n \in pinned : To(n) = {}}

Unpin ==
    /\ pc \in {"sweep", "exit"} /\ dropping = {}
    /\ nodes' = nodes \ FreedNodes
    /\ cands' = cands \ FreedNodes
    /\ dropping' = From(FreedNodes)
    /\ cleared' = cleared \ FreedNodes
    /\ pinned' = {}
    /\ pc' = IF pc = "exit" THEN "done" ELSE "run"
    /\ UNCHANGED <<nextId, handles, drops>>

Terminated == pc = "done" /\ dropping = {} /\ UNCHANGED vars

Next ==
    \/ New
    \/ \E n \in Nodes : Clone(n)
    \/ \E h \in handles, m \in Nodes, t \in BOOLEAN : Store(h, m, t)
    \/ \E h \in handles : Drop(h) \/ DropOne(h)
    \/ Collect \/ CollectAtExit \/ Unpin \/ Terminated

Spec == Init /\ [][Next]_vars
-----------------------------------------------------------------------------
TypeOK ==
    /\ nodes \subseteq Nodes /\ nextId \in 1..(MaxNodes + 1)
    /\ handles \subseteq Handles /\ cands \subseteq nodes
    /\ drops \in 0..Threshold /\ dropping \subseteq handles
    /\ pinned \subseteq nodes /\ cleared \subseteq Nodes
    /\ pc \in {"run", "sweep", "exit", "done"}

\* The collector never takes apart an object the program can reach, whatever
\* handles its snapshot does not see (collect_cycles).
ReachableIntact == Accessible(Roots) \cap cleared = {}

\* No handle leads to a freed node, and none but those being dropped is owned by
\* one: clearing edges and freeing nodes meet in the same cycle (Gc::drop,
\* collect_cycles).
NoDangling ==
    /\ \A h \in handles : h.to \in nodes
    /\ \A h \in handles \ dropping : h.from \in nodes \cup {Outside}

\* What the collector took apart is gone when it is done: no node survives a pass
\* with its edges cleared, although clearing drops handles between the very nodes
\* of the pass (collect_cycles, Gc::drop).
ClearedIsFreed == pc \in {"run", "done"} /\ dropping = {} => cleared = {}

\* A pass at any safe point finds every garbage cycle: a node that no outside and
\* no untraced handle leads to is within reach of a candidate, and no reference to
\* it is taken for one from outside (CYCLE_CANDIDATES, collect_cycles).
Held == Reach(Targets({h \in handles : ~h.traced}), handles)
PassFindsAll == dropping = {} /\ pc = "run" => nodes \ Held \subseteq Garbage
=============================================================================
