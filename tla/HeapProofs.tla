----------------------------- MODULE HeapProofs -----------------------------
(***************************************************************************)
(* Proofs about Heap, for any number of nodes and handles and any threshold. *)
(***************************************************************************)
EXTENDS Heap, FiniteSetTheorems, TLAPS

-----------------------------------------------------------------------------
\* What is reachable contains its start, is closed, and is within every closed set
\* that contains the start.
LEMMA ReachBase ==
    ASSUME NEW S \in SUBSET Nodes, NEW H
    PROVE  S \subseteq Reach(S, H)
  BY DEF Reach

LEMMA ReachClosed ==
    ASSUME NEW S, NEW H, NEW h \in H, h.from \in Reach(S, H), h.to \in Nodes
    PROVE  h.to \in Reach(S, H)
  BY DEF Reach, Closed

LEMMA ReachWithin ==
    ASSUME NEW S, NEW H, NEW T \in SUBSET Nodes, S \subseteq T, Closed(T, H)
    PROVE  Reach(S, H) \subseteq T
  BY DEF Reach

\* What the passes of the collector leave between them.  While one is under way,
\* every handle into a node it has taken apart comes from another such node and is
\* about to be dropped; so none is left when it lets go of them.
BetweenPasses ==
    /\ pc \in {"run", "done"} => cleared = {} /\ pinned = {}
    /\ cleared \subseteq pinned
    /\ \A h \in handles : h.to \in cleared => h \in dropping /\ h.from \in cleared

\* The inductive invariant.
HeapInv == TypeOK /\ NoDangling /\ BetweenPasses /\ IsFiniteSet(handles)

-----------------------------------------------------------------------------
\* Trial deletion is right: a node without references from outside the snapshot is
\* held only by other garbage, whatever the snapshot does not see
\* (collect_cycles).
LEMMA TrialDeletion ==
    ASSUME HeapInv, NEW h \in handles, h.to \in Garbage
    PROVE  h.from \in Garbage
  <1> DEFINE n == h.to
             In == {g \in To(n) : g.traced /\ g.from \in Snapshot}
  <1>1. n \in Snapshot /\ n \notin Live /\ n \in Nodes
    BY DEF Garbage, Snapshot, Reach
  <1>2. IsFiniteSet(To(n)) /\ In \subseteq To(n) /\ h \in To(n)
    BY FS_Subset DEF HeapInv, To
  <1>3. /\ IsFiniteSet(In) /\ Cardinality(In) \in Nat /\ Cardinality(To(n)) \in Nat
        /\ Cardinality(In) <= Cardinality(To(n))
        /\ Cardinality(In) = Cardinality(To(n)) => In = To(n)
    BY <1>2, FS_Subset, FS_CardinalityType
  <1>4. ~(OutsideCount(n) > 0)
    <2> DEFINE S == {m \in Snapshot : OutsideCount(m) > 0}
    <2>1. S \subseteq Reach(S, Traced)
      BY ReachBase DEF Snapshot, Reach
    <2> QED
      BY <1>1, <2>1 DEF Live
  <1>5. OutsideCount(n) = Cardinality(To(n)) - Cardinality(In)
    BY DEF OutsideCount, Incoming
  <1>6. In = To(n)
    BY <1>3, <1>4, <1>5
  <1>7. h.traced /\ h.from \in Snapshot
    BY <1>2, <1>6
  <1>8. h.from \notin Live
    BY <1>1, <1>7, ReachClosed DEF Live, Traced
  <1> QED
    BY <1>7, <1>8 DEF Garbage

\* What can be reached is allocated (Gc::with).
LEMMA AccessibleAllocated ==
    ASSUME HeapInv, NEW R \in SUBSET handles
    PROVE  Accessible(R) \subseteq nodes
  <1>1. nodes \in SUBSET Nodes /\ Targets(R) \subseteq nodes /\ Closed(nodes, handles)
    BY DEF HeapInv, TypeOK, NoDangling, Targets, Closed
  <1> QED
    BY <1>1, ReachWithin DEF Accessible

\* So is what a pass looks at (collect_cycles).
LEMMA SnapshotAllocated ==
    ASSUME HeapInv
    PROVE  Snapshot \subseteq nodes /\ Garbage \subseteq Snapshot
  <1>1. nodes \in SUBSET Nodes /\ cands \subseteq nodes /\ Closed(nodes, Traced)
    BY DEF HeapInv, TypeOK, NoDangling, Traced, Closed
  <1> QED
    BY <1>1, ReachWithin DEF Snapshot, Garbage

\* A handle that is added leads where it says (Gc::clone).
LEMMA Added ==
    ASSUME HeapInv, NEW H \in SUBSET handles, NEW f \in {Outside} \cup Nodes,
           NEW n \in Nodes, NEW t \in BOOLEAN, AddHandle(H, f, n, t)
    PROVE  /\ handles' \subseteq Handles /\ IsFiniteSet(handles')
           /\ \A h \in handles' : h \in handles \/ (h.from = f /\ h.to = n)
  <1>1. PICK k \in 1..MaxCopies : handles' = (handles \ H) \cup {Handle(f, n, t, k)}
    BY DEF AddHandle
  <1>2. Handle(f, n, t, k) \in Handles
    BY DEF Handle, Handles
  <1>3. IsFiniteSet(handles')
    <2>1. IsFiniteSet(handles \ H)
      BY FS_Difference DEF HeapInv
    <2> QED
      BY <1>1, <2>1, FS_AddElement
  <1> QED
    BY <1>1, <1>2, <1>3 DEF HeapInv, TypeOK, Handle

\* The initial heap is empty.
LEMMA InitHeapInv == Init => HeapInv
  <1> SUFFICES ASSUME Init PROVE HeapInv
    OBVIOUS
  <1>1. IsFiniteSet(handles)
    BY FS_EmptySet DEF Init
  <1>2. TypeOK
    BY HeapAssumption DEF Init, TypeOK
  <1>3. NoDangling /\ BetweenPasses
    BY DEF Init, NoDangling, BetweenPasses
  <1> QED
    BY <1>1, <1>2, <1>3 DEF HeapInv

\* Script code allocates, clones, stores and drops only between passes.
LEMMA ScriptHeapInv ==
    ASSUME HeapInv,
           \/ New
           \/ \E n \in Nodes : Clone(n)
           \/ \E h \in handles, m \in Nodes, t \in BOOLEAN : Store(h, m, t)
           \/ \E h \in handles : Drop(h)
    PROVE  HeapInv'
  <1>1. pc = "run" /\ dropping = {} /\ cleared = {} /\ pinned = {}
    BY DEF New, Clone, Store, Drop, Script, HeapInv, BetweenPasses
  <1>2. CASE New
    <2>1. nextId \in Nodes /\ nextId + 1 \in 1..(MaxNodes + 1)
      BY <1>2, HeapAssumption DEF New, HeapInv, TypeOK, Nodes
    <2>2. /\ handles' \subseteq Handles /\ IsFiniteSet(handles')
          /\ \A h \in handles' : h \in handles \/ (h.from = Outside /\ h.to = nextId)
      <3>1. {} \in SUBSET handles /\ Outside \in {Outside} \cup Nodes
        OBVIOUS
      <3>2. AddHandle({}, Outside, nextId, FALSE)
        BY <1>2 DEF New
      <3> QED
        BY <2>1, <3>1, <3>2, Added
    <2>3. TypeOK'
      BY <1>1, <1>2, <2>1, <2>2 DEF New, HeapInv, TypeOK
    <2>4. NoDangling'
      BY <1>1, <1>2, <2>2 DEF New, HeapInv, NoDangling
    <2>5. BetweenPasses'
      BY <1>1, <1>2 DEF New, BetweenPasses
    <2> QED
      BY <2>2, <2>3, <2>4, <2>5 DEF HeapInv
  <1>3. ASSUME NEW n \in Nodes, Clone(n) PROVE HeapInv'
    <2>1. /\ handles' \subseteq Handles /\ IsFiniteSet(handles')
          /\ \A h \in handles' : h \in handles \/ (h.from = Outside /\ h.to = n)
      <3>1. {} \in SUBSET handles /\ Outside \in {Outside} \cup Nodes
        OBVIOUS
      <3>2. AddHandle({}, Outside, n, FALSE)
        BY <1>3 DEF Clone
      <3> QED
        BY <3>1, <3>2, Added
    <2>2. TypeOK'
      BY <1>1, <1>3, <2>1 DEF Clone, HeapInv, TypeOK
    <2>3. NoDangling'
      BY <1>1, <1>3, <2>1 DEF Clone, HeapInv, NoDangling
    <2>4. BetweenPasses'
      BY <1>1, <1>3 DEF Clone, BetweenPasses
    <2> QED
      BY <2>1, <2>2, <2>3, <2>4 DEF HeapInv
  <1>4. ASSUME NEW h \in handles, NEW m \in Nodes, NEW t \in BOOLEAN, Store(h, m, t)
        PROVE  HeapInv'
    <2>1. m \in nodes
      BY <1>4, AccessibleAllocated DEF Store, Roots
    <2>2. h.to \in nodes /\ h.to \in Nodes
      BY DEF HeapInv, TypeOK, NoDangling
    <2>3. /\ handles' \subseteq Handles /\ IsFiniteSet(handles')
          /\ \A g \in handles' : g \in handles \/ (g.from = m /\ g.to = h.to)
      <3>1. {h} \in SUBSET handles /\ m \in {Outside} \cup Nodes
        OBVIOUS
      <3>2. AddHandle({h}, m, h.to, TRUE) \/ AddHandle({h}, m, h.to, FALSE)
        <4>1. CASE t = TRUE
          BY <1>4, <4>1 DEF Store
        <4>2. CASE t = FALSE
          BY <1>4, <4>2 DEF Store
        <4> QED
          BY <4>1, <4>2
      <3>3. CASE AddHandle({h}, m, h.to, TRUE)
        BY <2>2, <3>1, <3>3, Added
      <3>4. CASE AddHandle({h}, m, h.to, FALSE)
        BY <2>2, <3>1, <3>4, Added
      <3> QED
        BY <3>2, <3>3, <3>4
    <2>4. TypeOK'
      BY <1>1, <1>4, <2>3 DEF Store, HeapInv, TypeOK
    <2>5. NoDangling'
      BY <1>1, <1>4, <2>1, <2>2, <2>3 DEF Store, HeapInv, NoDangling
    <2>6. BetweenPasses'
      BY <1>1, <1>4 DEF Store, BetweenPasses
    <2> QED
      BY <2>3, <2>4, <2>5, <2>6 DEF HeapInv
  <1>5. ASSUME NEW h \in handles, Drop(h) PROVE HeapInv'
    BY <1>1, <1>5 DEF Drop, HeapInv, TypeOK, NoDangling, BetweenPasses
  <1> QED
    BY <1>2, <1>3, <1>4, <1>5

\* Dropping a handle frees its node only if no other reference is left (Gc::drop).
LEMMA DropHeapInv ==
    ASSUME HeapInv, NEW h \in handles, DropOne(h)
    PROVE  HeapInv'
  <1>1. IsFiniteSet(handles') /\ handles' = handles \ {h}
    BY FS_RemoveElement DEF HeapInv, DropOne
  <1>2. h.to \in nodes /\ h \in dropping
    BY DEF HeapInv, NoDangling, DropOne
  <1>3. CASE StrongCount(h.to) = 1
    <2>1. To(h.to) = {h} /\ h.to \notin pinned
      <3>1. IsFiniteSet(To(h.to)) /\ h \in To(h.to)
        BY FS_Subset DEF HeapInv, To
      <3>2. Cardinality(To(h.to)) \in Nat /\ Cardinality(To(h.to)) # 0
        BY <3>1, FS_CardinalityType, FS_EmptySet
      <3>3. Cardinality(To(h.to)) = 1 /\ h.to \notin pinned
        BY <1>3, <3>2 DEF StrongCount
      <3> QED
        BY <3>1, <3>3, FS_Singleton
    <2>2. /\ nodes' = nodes \ {h.to} /\ cands' = cands \ {h.to} /\ drops' = drops
          /\ dropping' = (dropping \cup Owned(h.to)) \ {h}
          /\ UNCHANGED <<nextId, pinned, cleared, pc>>
      BY <1>3 DEF DropOne
    <2>3. TypeOK'
      BY <1>1, <2>1, <2>2 DEF HeapInv, TypeOK, Owned, From
    <2>4. NoDangling'
      BY <1>1, <2>1, <2>2 DEF HeapInv, NoDangling, Owned, From, To
    <2>5. BetweenPasses'
      BY <1>1, <2>2 DEF HeapInv, BetweenPasses
    <2> QED
      BY <1>1, <2>3, <2>4, <2>5 DEF HeapInv
  <1>4. CASE StrongCount(h.to) # 1
    <2>1. /\ cands' = cands \cup {h.to} /\ dropping' = dropping \ {h} /\ nodes' = nodes
          /\ CountDrop /\ UNCHANGED <<nextId, pinned, cleared, pc>>
      BY <1>4 DEF DropOne, Remember
    <2>2. drops' \in 0..Threshold
      BY <2>1, HeapAssumption DEF CountDrop, HeapInv, TypeOK
    <2>3. TypeOK'
      BY <1>1, <1>2, <2>1, <2>2 DEF HeapInv, TypeOK
    <2>4. NoDangling' /\ BetweenPasses'
      BY <1>1, <2>1 DEF HeapInv, NoDangling, BetweenPasses
    <2> QED
      BY <1>1, <2>3, <2>4 DEF HeapInv
  <1> QED
    BY <1>3, <1>4

\* A pass takes apart garbage only, and lets go of all of it (collect_cycles).
LEMMA PassHeapInv ==
    ASSUME HeapInv, Collect \/ CollectAtExit \/ Unpin
    PROVE  HeapInv'
  <1>1. CASE Collect \/ CollectAtExit
    <2>1. /\ pc = "run" /\ dropping = {} /\ cleared = {} /\ Pass /\ pc' \in {"sweep", "exit"}
      BY <1>1 DEF Collect, CollectAtExit, Script, HeapInv, BetweenPasses
    <2>2. Snapshot \subseteq nodes /\ Garbage \subseteq Snapshot
      BY SnapshotAllocated
    <2>3. TypeOK'
      BY <2>1, <2>2, HeapAssumption DEF Pass, HeapInv, TypeOK, From
    <2>4. NoDangling'
      BY <2>1 DEF Pass, HeapInv, NoDangling
    <2>5. BetweenPasses'
      <3>1. \A h \in handles : h.to \in Garbage => h.from \in Garbage
        BY TrialDeletion
      <3> QED
        BY <2>1, <2>2, <3>1 DEF Pass, BetweenPasses, From
    <2> QED
      BY <2>1, <2>3, <2>4, <2>5 DEF HeapInv, Pass
  <1>2. CASE Unpin
    <2>1. cleared \subseteq FreedNodes
      BY <1>2 DEF Unpin, HeapInv, BetweenPasses, FreedNodes, To
    <2>2. TypeOK'
      BY <1>2 DEF Unpin, HeapInv, TypeOK, From
    <2>3. NoDangling'
      BY <1>2 DEF Unpin, HeapInv, NoDangling, From, FreedNodes, To
    <2>4. BetweenPasses'
      BY <1>2, <2>1 DEF Unpin, BetweenPasses
    <2> QED
      BY <1>2, <2>2, <2>3, <2>4 DEF HeapInv, Unpin
  <1> QED
    BY <1>1, <1>2

\* The invariant is inductive.
LEMMA NextHeapInv == HeapInv /\ [Next]_vars => HeapInv'
  <1> SUFFICES ASSUME HeapInv, [Next]_vars PROVE HeapInv'
    OBVIOUS
  <1>1. CASE UNCHANGED vars
    BY <1>1 DEF vars, HeapInv, TypeOK, NoDangling, BetweenPasses
  <1> QED
    BY <1>1, ScriptHeapInv, DropHeapInv, PassHeapInv DEF Next, Terminated

\* The invariant holds in every state.
THEOREM HeapInvariant == Spec => []HeapInv
  <1> QED
    BY InitHeapInv, NextHeapInv, PTL DEF Spec

\* Types, for any number of nodes and handles.
THEOREM HeapTypeOK == Spec => []TypeOK
  <1>1. HeapInv => TypeOK
    BY DEF HeapInv
  <1> QED
    BY HeapInvariant, <1>1, PTL

\* No handle leads to a freed node, however drops and passes nest.
THEOREM HeapNoDangling == Spec => []NoDangling
  <1>1. HeapInv => NoDangling
    BY DEF HeapInv
  <1> QED
    BY HeapInvariant, <1>1, PTL

\* The collector never takes apart what the program can reach: the nodes it has not
\* taken apart contain every target of an outside handle and are closed.
THEOREM HeapReachableIntact == Spec => []ReachableIntact
  <1>1. ASSUME HeapInv PROVE ReachableIntact
    <2> DEFINE T == Nodes \ cleared
    <2>1. Targets(Roots) \subseteq T
      BY <1>1 DEF HeapInv, TypeOK, BetweenPasses, Targets, Roots, Handles, Outside, Nodes
    <2>2. Closed(T, handles)
      BY <1>1 DEF HeapInv, TypeOK, BetweenPasses, Closed, Handles
    <2> QED
      BY <2>1, <2>2, ReachWithin DEF ReachableIntact, Accessible
  <1> QED
    BY HeapInvariant, <1>1, PTL

\* What a pass took apart is freed when it is over.
THEOREM HeapClearedIsFreed == Spec => []ClearedIsFreed
  <1>1. HeapInv => ClearedIsFreed
    BY DEF HeapInv, BetweenPasses, ClearedIsFreed
  <1> QED
    BY HeapInvariant, <1>1, PTL

-----------------------------------------------------------------------------
\* Where a search for all nodes has to start: at what is held from outside or from
\* a closure, what is about to be dropped, the candidates, and what the collector
\* has taken apart.
Seeds == Targets({h \in handles : ~h.traced} \cup dropping) \cup cands \cup cleared

\* Nothing is lost: every node can be found from there.  Outside handles are not
\* traced.
Findable ==
    /\ nodes \subseteq Reach(Seeds, handles)
    /\ \A h \in handles : h.from = Outside => ~h.traced

\* A set of nodes that contains the seeds and is closed contains all nodes.
LEMMA AllFound ==
    ASSUME Findable, NEW T \in SUBSET Nodes, Seeds \subseteq T, Closed(T, handles)
    PROVE  nodes \subseteq T
  BY ReachWithin DEF Findable

\* With nothing being dropped or taken apart, what is not held is found from the
\* candidates along traced handles (collect_cycles).
LEMMA SnapshotComplete ==
    ASSUME HeapInv, Findable, dropping = {}, cleared = {}
    PROVE  nodes \subseteq Held \cup Snapshot
  <1> DEFINE T == Held \cup Snapshot
             U == {h \in handles : ~h.traced}
  <1>1. T \in SUBSET Nodes /\ Targets(U) \in SUBSET Nodes /\ cands \in SUBSET Nodes
    BY DEF Held, Snapshot, Reach, Targets, HeapInv, TypeOK, Handles
  <1>2. Targets(U) \subseteq Held /\ cands \subseteq Snapshot
    BY <1>1, ReachBase DEF Held, Snapshot
  <1>3. Seeds \subseteq T
    BY <1>2 DEF Seeds
  <1>4. ASSUME NEW h \in handles, h.from \in T PROVE h.to \in T
    <2>1. h.to \in Nodes
      BY DEF HeapInv, TypeOK, Handles
    <2>2. CASE h.from \in Held
      BY <2>1, <2>2, ReachClosed DEF Held
    <2>3. CASE h.from \in Snapshot /\ h.traced
      BY <2>1, <2>3, ReachClosed DEF Snapshot, Traced
    <2>4. CASE ~h.traced
      BY <1>2, <2>4 DEF Targets
    <2> QED
      BY <1>4, <2>2, <2>3, <2>4
  <1>5. Closed(T, handles)
    BY <1>4 DEF Closed
  <1> QED
    BY <1>1, <1>3, <1>5, AllFound

\* A reference the snapshot does not explain comes, in the end, from outside or
\* from a closure: what the pass keeps is held (collect_cycles).
LEMMA LiveIsHeld ==
    ASSUME HeapInv, Findable, dropping = {}, cleared = {}
    PROVE  Live \subseteq Held
  <1> DEFINE S == {n \in Snapshot : OutsideCount(n) > 0}
  <1>1. Held \in SUBSET Nodes
    BY DEF Held, Reach
  <1>2. ASSUME NEW h \in handles, h.from \in Held PROVE h.to \in Held
    <2>1. h.to \in Nodes
      BY DEF HeapInv, TypeOK, Handles
    <2> QED
      BY <1>2, <2>1, ReachClosed DEF Held
  <1>3. ASSUME NEW h \in handles, ~h.traced PROVE h.to \in Held
    <2> DEFINE U == {g \in handles : ~g.traced}
    <2>1. Targets(U) \in SUBSET Nodes /\ h.to \in Targets(U)
      BY <1>3 DEF Targets, HeapInv, TypeOK, Handles
    <2> QED
      BY <2>1, ReachBase DEF Held
  <1>4. ASSUME NEW n \in S PROVE n \in Held
    <2> DEFINE In == {g \in To(n) : g.traced /\ g.from \in Snapshot}
    <2>1. IsFiniteSet(To(n))
      BY FS_Subset DEF HeapInv, To
    <2>2. In # To(n)
      <3>1. OutsideCount(n) = Cardinality(To(n)) - Cardinality(In) /\ OutsideCount(n) > 0
        BY <1>4 DEF OutsideCount, Incoming
      <3>2. Cardinality(To(n)) \in Nat
        BY <2>1, FS_CardinalityType
      <3> HIDE DEF In
      <3> QED
        BY <3>1, <3>2
    <2>3. PICK h \in To(n) : ~(h.traced /\ h.from \in Snapshot)
      BY <2>2
    <2>4. h \in handles /\ h.to = n
      BY DEF To
    <2>5. CASE ~h.traced
      BY <1>3, <2>4, <2>5
    <2>6. CASE h.traced /\ h.from \notin Snapshot
      <3>1. h.from \in nodes
        BY <2>4, <2>6 DEF Findable, HeapInv, NoDangling
      <3>2. h.from \in Held
        BY <2>6, <3>1, SnapshotComplete
      <3> QED
        BY <1>2, <2>4, <3>2
    <2> QED
      BY <2>3, <2>5, <2>6
  <1>5. Closed(Held, Traced)
    BY <1>2 DEF Closed, Traced
  <1>6. S \subseteq Held
    BY <1>4
  <1> QED
    BY <1>1, <1>5, <1>6, ReachWithin DEF Live

\* A node is found again: it is in every closed set that contains the new seeds.
LEMMA FoundAgain ==
    ASSUME HeapInv', \A T \in SUBSET Nodes :
                       Seeds' \subseteq T /\ Closed(T, handles') => nodes' \subseteq T
    PROVE  nodes' \subseteq Reach(Seeds', handles')
  <1>1. nodes' \subseteq Nodes
    BY DEF HeapInv, TypeOK, Nodes
  <1> QED
    BY <1>1 DEF Reach

\* Allocating, cloning and storing keep what was found (Gc::new, Gc::clone).
LEMMA ScriptFindable ==
    ASSUME HeapInv, HeapInv', Findable,
           \/ New
           \/ \E n \in Nodes : Clone(n)
           \/ \E h \in handles, m \in Nodes, t \in BOOLEAN : Store(h, m, t)
           \/ \E h \in handles : Drop(h)
    PROVE  Findable'
  <1>1. CASE New \/ \E n \in Nodes : Clone(n)
    <2>1. PICK n : /\ nodes' \subseteq nodes \cup {n} /\ AddHandle({}, Outside, n, FALSE)
                   /\ UNCHANGED <<cands, dropping, cleared>>
      BY <1>1 DEF New, Clone
    <2>2. PICK k : handles' = handles \cup {Handle(Outside, n, FALSE, k)}
      BY <2>1 DEF AddHandle
    <2>3. \A h \in handles' : h.from = Outside => ~h.traced
      BY <2>2 DEF Findable, Handle
    <2>4. ASSUME NEW T \in SUBSET Nodes, Seeds' \subseteq T, Closed(T, handles')
          PROVE  nodes' \subseteq T
      <3>1. n \in T /\ Seeds \subseteq T
        <4> DEFINE g == Handle(Outside, n, FALSE, k)
        <4>1. g \in handles' /\ ~g.traced /\ g.to = n /\ handles \subseteq handles'
          BY <2>2 DEF Handle
        <4> HIDE DEF g
        <4> QED
          BY <2>1, <2>4, <4>1 DEF Seeds, Targets
      <3>2. Closed(T, handles)
        BY <2>2, <2>4 DEF Closed
      <3> QED
        BY <2>1, <3>1, <3>2, AllFound
    <2> QED
      BY <2>3, <2>4, FoundAgain DEF Findable
  <1>2. ASSUME NEW h \in handles, NEW m \in Nodes, NEW t \in BOOLEAN, Store(h, m, t)
        PROVE  Findable'
    <2>1. PICK k : handles' = (handles \ {h}) \cup {Handle(m, h.to, t, k)}
      BY <1>2 DEF Store, AddHandle
    <2>2. h.from = Outside /\ m # Outside /\ UNCHANGED <<nodes, cands, dropping, cleared>>
      BY <1>2 DEF Store, Roots, Nodes, Outside
    <2>3. \A g \in handles' : g.from = Outside => ~g.traced
      BY <2>1, <2>2 DEF Findable, Handle
    <2>4. ASSUME NEW T \in SUBSET Nodes, Seeds' \subseteq T, Closed(T, handles')
          PROVE  nodes' \subseteq T
      <3>1. Closed(T, handles)
        <4>1. h.from \notin T
          BY <2>2 DEF Nodes, Outside
        <4> QED
          BY <2>1, <2>4, <4>1 DEF Closed
      <3>2. Targets(Roots \ {h}) \subseteq T
        BY <2>1, <2>4 DEF Seeds, Targets, Roots, Findable
      <3>3. m \in T
        BY <1>2, <3>1, <3>2, ReachWithin DEF Store, Accessible
      <3>4. h.to \in T
        <4> DEFINE g == Handle(m, h.to, t, k)
        <4>1. g \in handles' /\ g.from = m /\ g.to = h.to
          BY <2>1 DEF Handle
        <4> HIDE DEF g
        <4> QED
          BY <2>4, <3>3, <4>1 DEF Closed
      <3>5. Seeds \subseteq T
        BY <1>2, <2>1, <2>2, <2>4, <3>4 DEF Seeds, Targets, Store, Script
      <3> QED
        BY <2>2, <3>1, <3>5, AllFound
    <2> QED
      BY <2>3, <2>4, FoundAgain DEF Findable
  <1>3. ASSUME NEW h \in handles, Drop(h) PROVE Findable'
    <2>1. dropping = {} /\ dropping' = {h} /\ UNCHANGED <<nodes, handles, cands, cleared>>
      BY <1>3 DEF Drop, Script
    <2>2. ASSUME NEW T \in SUBSET Nodes, Seeds' \subseteq T, Closed(T, handles')
          PROVE  nodes' \subseteq T
      <3>1. Seeds \subseteq T /\ Closed(T, handles)
        BY <2>1, <2>2 DEF Seeds, Targets
      <3> QED
        BY <2>1, <3>1, AllFound
    <2> QED
      BY <2>1, <2>2, FoundAgain DEF Findable
  <1> QED
    BY <1>1, <1>2, <1>3

\* A node that loses a handle is remembered, or freed, and then its handles are
\* dropped in turn (Gc::drop).
LEMMA DropFindable ==
    ASSUME HeapInv, HeapInv', Findable, NEW h \in handles, DropOne(h)
    PROVE  Findable'
  <1>1. handles' = handles \ {h} /\ cleared' = cleared /\ h.to \in Nodes
    BY DEF DropOne, HeapInv, TypeOK, Handles
  <1>2. ASSUME NEW T \in SUBSET Nodes, Seeds' \subseteq T, Closed(T, handles')
        PROVE  nodes' \subseteq T
    <2> DEFINE X == T \cup {h.to}
    <2>1. CASE StrongCount(h.to) = 1
      <3>1. /\ nodes' = nodes \ {h.to} /\ cands' = cands \ {h.to}
            /\ dropping' = (dropping \cup {g \in handles : g.from = h.to}) \ {h}
        BY <2>1 DEF DropOne, Owned, From
      <3>2. Seeds \subseteq X
        BY <1>1, <1>2, <3>1 DEF Seeds, Targets
      <3>3. Closed(X, handles)
        BY <1>1, <1>2, <3>1 DEF Closed, Seeds, Targets
      <3>4. nodes \subseteq X
        BY <1>1, <3>2, <3>3, AllFound
      <3> QED
        BY <3>1, <3>4
    <2>2. CASE StrongCount(h.to) # 1
      <3>1. nodes' = nodes /\ cands' = cands \cup {h.to} /\ dropping' = dropping \ {h}
        BY <2>2 DEF DropOne, Remember
      <3>2. Seeds \subseteq T /\ h.to \in T
        BY <1>1, <1>2, <3>1 DEF Seeds, Targets
      <3>3. Closed(T, handles)
        BY <1>1, <1>2, <3>2 DEF Closed
      <3> QED
        BY <3>1, <3>2, <3>3, AllFound
    <2> QED
      BY <2>1, <2>2
  <1> QED
    BY <1>1, <1>2, FoundAgain DEF Findable

\* A pass forgets the candidates: those it keeps are held (collect_cycles).  When
\* it lets go, only nodes without handles are freed.
LEMMA PassFindable ==
    ASSUME HeapInv, HeapInv', Findable, Collect \/ CollectAtExit \/ Unpin
    PROVE  Findable'
  <1>1. CASE Collect \/ CollectAtExit
    <2>1. dropping = {} /\ cleared = {} /\ Pass
      BY <1>1 DEF Collect, CollectAtExit, Script, HeapInv, BetweenPasses
    <2>2. nodes' = nodes /\ handles' = handles /\ cleared' = Garbage
      BY <2>1 DEF Pass
    <2>3. nodes \subseteq Held \cup Garbage
      BY <2>1, SnapshotComplete, LiveIsHeld DEF Garbage
    <2>4. ASSUME NEW T \in SUBSET Nodes, Seeds' \subseteq T, Closed(T, handles')
          PROVE  nodes' \subseteq T
      <3>1. Garbage \subseteq T /\ Targets({g \in handles : ~g.traced}) \subseteq T
        BY <2>2, <2>4 DEF Seeds, Targets
      <3>2. Held \subseteq T
        BY <2>2, <2>4, <3>1, ReachWithin DEF Held
      <3> QED
        BY <2>2, <2>3, <3>1, <3>2
    <2> QED
      BY <2>2, <2>4, FoundAgain DEF Findable
  <1>2. CASE Unpin
    <2>1. /\ dropping = {} /\ nodes' = nodes \ FreedNodes /\ cands' = cands \ FreedNodes
          /\ dropping' = {h \in handles : h.from \in FreedNodes} /\ handles' = handles
      BY <1>2 DEF Unpin, From
    <2>2. cleared \subseteq FreedNodes
      BY <1>2 DEF Unpin, HeapInv, BetweenPasses, FreedNodes, To
    <2>3. FreedNodes \subseteq Nodes
      BY DEF FreedNodes, HeapInv, TypeOK, Nodes
    <2>4. ASSUME NEW T \in SUBSET Nodes, Seeds' \subseteq T, Closed(T, handles')
          PROVE  nodes' \subseteq T
      <3> DEFINE X == T \cup FreedNodes
      <3>1. Seeds \subseteq X
        BY <2>1, <2>2, <2>4 DEF Seeds, Targets
      <3>2. Closed(X, handles)
        BY <2>1, <2>4 DEF Closed, Seeds, Targets
      <3>3. nodes \subseteq X
        BY <2>3, <3>1, <3>2, AllFound
      <3> QED
        BY <2>1, <3>3
    <2> QED
      BY <2>1, <2>4, FoundAgain DEF Findable
  <1> QED
    BY <1>1, <1>2

\* A pass at any safe point finds all garbage: a node that nothing from outside and
\* no closure leads to is found from a candidate, and what the pass keeps is held
\* (CYCLE_CANDIDATES, collect_cycles).
THEOREM HeapPassFindsAll == Spec => []PassFindsAll
  <1>1. Init => Findable
    BY DEF Init, Findable
  <1>2. HeapInv /\ HeapInv' /\ Findable /\ [Next]_vars => Findable'
    <2> SUFFICES ASSUME HeapInv, HeapInv', Findable, [Next]_vars PROVE Findable'
      OBVIOUS
    <2>1. CASE UNCHANGED vars
      BY <2>1 DEF vars, Findable, Seeds, Targets, Reach, Closed
    <2> QED
      BY <2>1, ScriptFindable, DropFindable, PassFindable DEF Next, Terminated
  <1>3. HeapInv /\ Findable => PassFindsAll
    <2> SUFFICES ASSUME HeapInv, Findable, dropping = {}, pc = "run"
                 PROVE  nodes \ Held \subseteq Garbage
      BY DEF PassFindsAll
    <2>1. cleared = {}
      BY DEF HeapInv, BetweenPasses
    <2> QED
      BY <2>1, SnapshotComplete, LiveIsHeld DEF Garbage
  <1> QED
    BY <1>1, <1>2, <1>3, HeapInvariant, PTL DEF Spec
=============================================================================
