---------------------------- MODULE ExeCacheProofs ----------------------------
(***************************************************************************)
(* Theorems about ExeCache, for any number of processes, files, contents   *)
(* and events.                                                             *)
(***************************************************************************)
EXTENDS ExeCache, TLAPS

(* Places in a process: its lookup uses the entry of a known compiler; its *)
(* lookup found a stamp; it has a translation unit of its own; its private *)
(* copies are complete.                                                    *)
Keyed      == PCs \ {"idle", "route", "load", "identify"}
Found      == {"fetch", "native", "restoreTu", "restore", "reread"}
Building   == {"emit", "snapshot", "link", "install", "recheck", "stage", "verify",
               "putTu", "putExe", "putStamp"}
Publishing == {"verify", "putTu", "putExe", "putStamp"}
Releasing  == {"putProof", "putRoute", "done"}

(* What the control flow alone guarantees of a process, also when others    *)
(* overwrite its outputs.                                                  *)
Shape(q) ==
  /\ q.pc \in Keyed => q.key \in Impls
  /\ q.pc \in {"identify", "frontend"} => ~q.routed
  /\ q.pc = "identify" \/ (q.pc \in Keyed \ {"proof"} /\ ~q.routed) => q.code \in Impls
  /\ q.pc \in Found => q.stamp # None
  /\ q.pc \in {"idle", "route", "proof", "identify", "stamp", "frontend"} => q.stamp = None
  /\ q.stamp # None => q.front = q.stamp.front
  /\ q.pc \in Building => q.tu # None /\ q.front \in [Files -> Contents]
  /\ q.pc \in {"install", "recheck", "stage"} \cup Publishing => q.exe # None
  /\ q.pc \in {"putProof", "putRoute"} => q.exe # None \/ q.stamp # None
  /\ q.pc = "stage" => "tu" \in q.todo \/ q.stage.tu # None
  /\ q.pc \in Publishing => q.stage.tu # None

Counted ==
  /\ tool + left["tool"] = Budget["tool"] + 1
  /\ impl + left["upgrade"] = Budget["upgrade"] + 1

Shapes == \A b \in Procs : Shape(p[b])

TypeInv == TypeOK /\ Counted /\ Shapes

(* A stamp of entry k that tells the truth: its translation unit comes from *)
(* its own snapshot and compiler k, its executable from that unit and its  *)
(* own tools.                                                              *)
Sound(s, k) ==
  /\ s.tu = TU(s.front, k)
  /\ s.exe # None => s.exe = Exe(s.tu, s.deps)

NoStage == [tu |-> None, exe |-> None]

(* What is true of a process as long as no other one interferes.           *)
Lookup(q) ==
  /\ q.pc = "identify" => q.code = impl
  /\ q.pc \in Keyed \ {"proof"} /\ ~q.routed => q.code = q.key
  /\ q.stamp # None => Sound(q.stamp, q.key)
  /\ q.pc \in {"idle", "route", "proof", "identify", "stamp", "fetch", "native", "frontend",
               "reread"} =>
        q.tu = None /\ q.exe = None /\ q.stage = NoStage
  /\ q.pc \in {"restoreTu", "restore"} =>
        /\ q.tu = None /\ q.stage = NoStage
        /\ q.exe # None => q.exe = q.stamp.exe /\ q.deps = q.stamp.deps
  /\ q.pc = "restore" => q.exe # None

Build(q) ==
  /\ q.pc \in Building => q.tu = TU(q.front, q.key)
  /\ q.pc \in {"emit", "snapshot", "link", "install", "recheck"} => q.stage = NoStage
  /\ q.pc = "link" => q.deps <= tool
  /\ q.pc \in {"install", "recheck"} => q.deps <= q.exe.tool /\ q.exe.tool <= tool
  /\ q.pc \in {"install", "recheck", "stage"} \cup Publishing => q.exe.tu = q.tu
  /\ q.pc \in {"stage"} \cup Publishing =>
        /\ q.stage.tu \in {None, q.tu} /\ q.stage.exe \in {None, q.exe}
        /\ q.stage.exe # None \/ "exe" \in q.todo => q.deps = q.exe.tool

Returns(q) ==
  /\ q.pc # "failed"
  /\ q.pc = "done" => q.exe # None
  /\ q.pc \in Releasing /\ q.exe = None => q.tu = None /\ q.stage = NoStage
  /\ q.pc \in Releasing /\ q.exe # None /\ q.stamp # None =>
        /\ q.exe.tu = TU(q.front, q.key)
        /\ q.tu = None => q.exe.tool = q.deps

Outputs(q) ==
  /\ q.pc \in {"restore", "reread"} \/ (q.pc \in Releasing /\ q.exe = None) =>
        out.tu = q.stamp.tu
  /\ q.pc \in Building \ {"emit"} => out.tu = q.tu
  /\ q.pc \in {"recheck", "stage"} \cup Publishing => out.exe = q.exe
  /\ q.pc \in Releasing /\ q.exe # None => out.exe = q.exe

Right ==
  /\ \A k \in Impls : cache[k].stamp # None => Sound(cache[k].stamp, k)
  /\ \A b \in Procs : Lookup(p[b]) /\ Build(p[b]) /\ Returns(p[b]) /\ Outputs(p[b])

RightInv == ~clash => Right

(* The last publication is intact while None is in warm, and the processes *)
(* that started since are on their way through it.                         *)
Intact ==
  LET e == cache[impl] IN
  /\ e.stamp # None /\ e.stamp.front = disk /\ e.stamp.exe # None /\ e.stamp.deps = tool
  /\ e.tu = e.stamp.tu /\ e.exe = e.stamp.exe

OnTheWay(q) ==
  /\ q.pc \in {"route", "proof", "load", "identify", "stamp", "fetch", "native", "restoreTu",
               "restore", "putProof", "putRoute", "done"}
  /\ q.pc \in {"stamp", "fetch", "native"} => q.key = impl
  /\ q.pc \in {"fetch", "native"} => q.stamp = cache[impl].stamp
  /\ q.pc \in {"restoreTu", "restore", "putProof", "putRoute"} => q.exe # None

WarmInv ==
  /\ warm # {} => None \in warm
  /\ None \in warm => Intact
  /\ \A b \in warm \ {None} : OnTheWay(p[b])

-------------------------------------------------------------------------------
(* A process that ends or is killed leaves an idle one.                    *)
LEMMA IdleFits == Idle \in Processes /\ Shape(Idle)
BY DEF Processes, PCs, Idle, Unread, Shape, Keyed, Found, Building, Publishing

(* A missed lookup leaves a process that starts to compile.                *)
LEMMA MissedFits ==
  ASSUME NEW b \in Procs, p[b] \in Processes, Shape(p[b]), p[b].pc \in {"stamp", "fetch"}
  PROVE  Missed(b) \in Processes /\ Shape(Missed(b))
<1>1. Unread \in [Files -> Contents \cup {None}]
  BY DEF Unread
<1>2. {"load", "frontend"} \subseteq PCs
  BY DEF PCs
<1>3. Missed(b) \in Processes
  BY ZenonT(60), <1>1, <1>2 DEF Missed, Processes
<1>4. Shape(Missed(b))
  BY DEF Missed, Processes, Shape, Keyed, PCs, Found, Building, Publishing
<1> QED
  BY <1>3, <1>4

(* The new state of process b has the type and the shape of a process.     *)
Fits(b) == p' = [p EXCEPT ![b] = p'[b]] /\ p'[b] \in Processes /\ Shape(p'[b])

(* A step of process b changes p[b] only, and keeps its type and shape.    *)
LEMMA ProcStep ==
  ASSUME TypeInv, NEW b \in Procs, Step(b)
  PROVE  Fits(b)
<1> DEFINE q == p[b]
<1>1. q \in Processes /\ Shape(q) /\ p \in [Procs -> Processes]
  BY DEF TypeInv, TypeOK, Shapes
<1>2. /\ impl \in Impls /\ tool \in Tools /\ route \in {0} \cup Impls
      /\ disk \in [Files -> Contents]
      /\ out \in [tu : TUs \cup {None, Torn}, exe : Exes \cup {None}]
      /\ cache \in [Impls -> [tu : TUs \cup {None, Torn}, exe : Exes \cup {None},
                              stamp : Stamps \cup {None}]]
  BY DEF TypeInv, TypeOK
<1>3. \A pc \in PCs : [q EXCEPT !.pc = pc] \in Processes
  BY <1>1 DEF Processes
<1> HIDE DEF q
<1>4. CASE Start(b)
  <2>1. /\ p' = [p EXCEPT ![b] = p'[b]]
        /\ p'[b] = [q EXCEPT !.pc = "route"]
    BY <1>1, <1>4 DEF Start, Set, Go, q
  <2>2. p'[b] \in Processes
    BY <1>3, <2>1 DEF PCs
  <2>3. Shape(p'[b])
    BY <1>1, <1>4, <2>1 DEF Start, q, At, Shape, Processes, Keyed, PCs, Found, Building,
       Publishing
  <2> QED
    BY <2>1, <2>2, <2>3 DEF Fits
<1>5. CASE ReadRoute(b)
  <2>1. CASE route = 0
    <3>1. /\ p' = [p EXCEPT ![b] = p'[b]]
          /\ p'[b] = [q EXCEPT !.pc = "load"]
      BY <1>1, <1>5, <2>1 DEF ReadRoute, Set, Go, q
    <3>2. "load" \in PCs
      BY <1>1, <1>2, <1>5, <2>1 DEF ReadRoute, q, PCs
    <3>3. p'[b] \in Processes
      BY <1>1, <3>1, <3>2 DEF Processes
    <3>4. Shape(p'[b])
      BY <1>1, <1>2, <1>5, <2>1, <3>1, <3>2 DEF ReadRoute, q, At, Shape, Processes, Keyed,
         PCs, Found, Building, Publishing
    <3> QED
      BY <3>1, <3>3, <3>4 DEF Fits
  <2>2. CASE ~(route = 0)
    <3>1. /\ p' = [p EXCEPT ![b] = p'[b]]
          /\ p'[b] = [q EXCEPT !.pc = "proof", !.key = route]
      BY <1>1, <1>5, <2>2 DEF ReadRoute, Set, Go, q
    <3>2. "proof" \in PCs /\ route \in Impls
      BY <1>1, <1>2, <1>5, <2>2 DEF ReadRoute, q, PCs
    <3>3. p'[b] \in Processes
      BY <1>1, <3>1, <3>2 DEF Processes
    <3>4. Shape(p'[b])
      BY <1>1, <1>2, <1>5, <2>2, <3>1, <3>2 DEF ReadRoute, q, At, Shape, Processes, Keyed,
         PCs, Found, Building, Publishing
    <3> QED
      BY <3>1, <3>3, <3>4 DEF Fits
  <2> QED
    BY <2>1, <2>2
<1>6. CASE ReadProof(b)
  <2>1. CASE q.key \in proofs /\ impl = q.key
    <3>1. /\ p' = [p EXCEPT ![b] = p'[b]]
          /\ p'[b] = [q EXCEPT !.pc = "stamp", !.routed = TRUE]
      BY <1>1, <1>6, <2>1 DEF ReadProof, Set, Go, q
    <3>2. "stamp" \in PCs
      BY <1>1, <1>2, <1>6, <2>1 DEF ReadProof, q, PCs
    <3>3. p'[b] \in Processes
      BY <1>1, <3>1, <3>2 DEF Processes
    <3>4. Shape(p'[b])
      BY <1>1, <1>2, <1>6, <2>1, <3>1, <3>2 DEF ReadProof, q, At, Shape, Processes, Keyed,
         PCs, Found, Building, Publishing
    <3> QED
      BY <3>1, <3>3, <3>4 DEF Fits
  <2>2. CASE ~(q.key \in proofs /\ impl = q.key)
    <3>1. /\ p' = [p EXCEPT ![b] = p'[b]]
          /\ p'[b] = [q EXCEPT !.pc = "load"]
      BY <1>1, <1>6, <2>2 DEF ReadProof, Set, Go, q
    <3>2. "load" \in PCs
      BY <1>1, <1>2, <1>6, <2>2 DEF ReadProof, q, PCs
    <3>3. p'[b] \in Processes
      BY <1>1, <3>1, <3>2 DEF Processes
    <3>4. Shape(p'[b])
      BY <1>1, <1>2, <1>6, <2>2, <3>1, <3>2 DEF ReadProof, q, At, Shape, Processes, Keyed,
         PCs, Found, Building, Publishing
    <3> QED
      BY <3>1, <3>3, <3>4 DEF Fits
  <2> QED
    BY <2>1, <2>2
<1>7. CASE Load(b)
  <2>1. /\ p' = [p EXCEPT ![b] = p'[b]]
        /\ p'[b] = [Idle EXCEPT !.pc = "identify", !.code = impl]
    BY <1>1, <1>7 DEF Load, Set, Go, q
  <2>2. "identify" \in PCs /\ Idle \in Processes /\ impl \in Impls
    BY <1>1, <1>2, <1>7 DEF Load, q, PCs, Processes, Idle, Unread
  <2>3. p'[b] \in Processes
    BY <1>1, <2>1, <2>2 DEF Processes
  <2>4. Shape(p'[b])
    BY <1>1, <1>2, <1>7, <2>1, <2>2 DEF Load, q, At, Shape, Processes, Keyed, PCs, Found,
       Building, Publishing, Idle
  <2> QED
    BY <2>1, <2>3, <2>4 DEF Fits
<1>8. CASE Identify(b)
  <2>1. /\ p' = [p EXCEPT ![b] = p'[b]]
        /\ p'[b] = [q EXCEPT !.pc = "stamp", !.key = impl]
    BY <1>1, <1>8 DEF Identify, Set, Go, q
  <2>2. "stamp" \in PCs /\ impl \in Impls
    BY <1>1, <1>2, <1>8 DEF Identify, q, PCs
  <2>3. p'[b] \in Processes
    BY <1>1, <2>1, <2>2 DEF Processes
  <2>4. Shape(p'[b])
    BY <1>1, <1>2, <1>8, <2>1, <2>2 DEF Identify, q, At, Shape, Processes, Keyed, PCs,
       Found, Building, Publishing
  <2> QED
    BY <2>1, <2>3, <2>4 DEF Fits
<1>9. CASE ReadStamp(b)
  <2>1. CASE cache[q.key].stamp # None /\ cache[q.key].stamp.front = disk
    <3>1. /\ p' = [p EXCEPT ![b] = p'[b]]
          /\ p'[b] = [q EXCEPT !.pc = "fetch", !.stamp = cache[q.key].stamp,
                               !.front = cache[q.key].stamp.front,
                               !.todo = {"tu"} \cup (IF cache[q.key].stamp.exe = None
                                                     THEN {} ELSE {"exe"})]
      BY <1>1, <1>9, <2>1 DEF ReadStamp, Set, Go, q
    <3>2. /\ "fetch" \in PCs /\ cache[q.key].stamp \in Stamps
          /\ cache[q.key].stamp.front \in [Files -> Contents \cup {None}]
          /\ {"tu"} \cup (IF cache[q.key].stamp.exe = None THEN {} ELSE {"exe"})
                \in SUBSET {"tu", "exe"}
      BY <1>1, <1>2, <1>9, <2>1 DEF ReadStamp, q, PCs, At, Shape, Keyed, Stamps
    <3>3. p'[b] \in Processes
      BY <1>1, <3>1, <3>2 DEF Processes
    <3>4. Shape(p'[b])
      BY <1>1, <1>2, <1>9, <2>1, <3>1, <3>2 DEF ReadStamp, q, At, Shape, Processes, Keyed,
         PCs, Found, Building, Publishing
    <3> QED
      BY <3>1, <3>3, <3>4 DEF Fits
  <2>2. CASE ~(cache[q.key].stamp # None /\ cache[q.key].stamp.front = disk)
    <3>1. /\ p' = [p EXCEPT ![b] = p'[b]]
          /\ p'[b] = Missed(b)
      BY <1>1, <1>9, <2>2 DEF ReadStamp, Set, Go, q
    <3> QED
      BY <1>1, <1>9, <3>1, MissedFits DEF Fits, ReadStamp, At, q
  <2> QED
    BY <2>1, <2>2
<1>10. ASSUME NEW g \in {"tu", "exe"}, Fetch(b, g)
      PROVE  Fits(b)
  <2>1. CASE cache[q.key][g] # q.stamp[g]
    <3>1. /\ p' = [p EXCEPT ![b] = p'[b]]
          /\ p'[b] = Missed(b)
      BY <1>1, <1>10, <2>1 DEF Fetch, Set, Go, q
    <3> QED
      BY <1>1, <1>10, <3>1, MissedFits DEF Fits, Fetch, At, q
  <2>2. CASE ~(cache[q.key][g] # q.stamp[g])
    <3>1. /\ p' = [p EXCEPT ![b] = p'[b]]
          /\ p'[b] = [q EXCEPT !.todo = @ \ {g}, !.pc = IF q.todo = {g} THEN "native" ELSE @]
      BY <1>1, <1>10, <2>2 DEF Fetch, Set, Go, q
    <3>2. "native" \in PCs
      BY <1>1, <1>2, <1>10, <2>2 DEF Fetch, q, PCs
    <3>3. p'[b] \in Processes
      BY ZenonT(60), <1>1, <3>1, <3>2 DEF Processes
    <3>4. Shape(p'[b])
      BY <1>1, <1>2, <1>10, <2>2, <3>1, <3>2 DEF Fetch, q, At, Shape, Processes, Keyed,
         PCs, Found, Building, Publishing
    <3> QED
      BY <3>1, <3>3, <3>4 DEF Fits
  <2> QED
    BY <2>1, <2>2
<1>11. CASE CheckNative(b)
  <2>1. CASE q.stamp.exe # None /\ q.stamp.deps = tool
    <3>1. /\ p' = [p EXCEPT ![b] = p'[b]]
          /\ p'[b] = [q EXCEPT !.pc = "restoreTu", !.exe = q.stamp.exe, !.deps = q.stamp.deps]
      BY <1>1, <1>11, <2>1 DEF CheckNative, Set, Go, q
    <3>2. "restoreTu" \in PCs /\ q.stamp.exe \in Exes /\ q.stamp.deps \in Tools
      BY <1>1, <1>2, <1>11, <2>1 DEF CheckNative, q, PCs, Processes, Stamps, At, Shape,
         Found
    <3>3. p'[b] \in Processes
      BY <1>1, <3>1, <3>2 DEF Processes
    <3>4. Shape(p'[b])
      BY <1>1, <1>2, <1>11, <2>1, <3>1, <3>2 DEF CheckNative, q, At, Shape, Processes,
         Keyed, PCs, Found, Building, Publishing
    <3> QED
      BY <3>1, <3>3, <3>4 DEF Fits
  <2>2. CASE ~(q.stamp.exe # None /\ q.stamp.deps = tool)
    <3>1. /\ p' = [p EXCEPT ![b] = p'[b]]
          /\ p'[b] = [q EXCEPT !.pc = "restoreTu"]
      BY <1>1, <1>11, <2>2 DEF CheckNative, Set, Go, q
    <3>2. "restoreTu" \in PCs
      BY <1>1, <1>2, <1>11, <2>2 DEF CheckNative, q, PCs
    <3>3. p'[b] \in Processes
      BY <1>1, <3>1, <3>2 DEF Processes
    <3>4. Shape(p'[b])
      BY <1>1, <1>2, <1>11, <2>2, <3>1, <3>2 DEF CheckNative, q, At, Shape, Processes,
         Keyed, PCs, Found, Building, Publishing
    <3> QED
      BY <3>1, <3>3, <3>4 DEF Fits
  <2> QED
    BY <2>1, <2>2
<1>12. CASE RestoreTu(b)
  <2>1. /\ p' = [p EXCEPT ![b] = p'[b]]
        /\ p'[b] = [q EXCEPT !.pc = IF q.exe # None THEN "restore" ELSE AfterRestore(q)]
    BY <1>1, <1>12 DEF RestoreTu, Set, Go, q
  <2>2. p'[b] \in Processes
    BY <1>3, <2>1 DEF PCs, AfterRestore
  <2>3. Shape(p'[b])
    BY <1>1, <1>12, <2>1 DEF RestoreTu, q, At, Shape, Processes, Keyed, PCs, Found,
       Building, Publishing, AfterRestore
  <2> QED
    BY <2>1, <2>2, <2>3 DEF Fits
<1>13. CASE RestoreExe(b)
  <2>1. /\ p' = [p EXCEPT ![b] = p'[b]]
        /\ p'[b] = [q EXCEPT !.pc = AfterRestore(q)]
    BY <1>1, <1>13 DEF RestoreExe, Set, Go, q
  <2>2. p'[b] \in Processes
    BY <1>3, <2>1 DEF PCs, AfterRestore
  <2>3. Shape(p'[b])
    BY <1>1, <1>13, <2>1 DEF RestoreExe, q, At, Shape, Processes, Keyed, PCs, Found,
       Building, Publishing, AfterRestore
  <2> QED
    BY <2>1, <2>2, <2>3 DEF Fits
<1>14. CASE RestoreFails(b)
  <2> DEFINE r == [q EXCEPT !.exe = None, !.deps = 0]
  <2>1. /\ p' = [p EXCEPT ![b] = p'[b]]
        /\ p'[b] = [r EXCEPT !.pc = AfterRestore(r)]
    BY <1>1, <1>14 DEF RestoreFails, Set, q
  <2>2. r \in Processes /\ AfterRestore(r) \in PCs
    BY ZenonT(60), <1>1 DEF Processes, PCs, AfterRestore
  <2>3. p'[b] \in Processes
    <3> HIDE DEF r
    <3> QED
      BY <2>1, <2>2 DEF Processes
  <2>4. Shape(p'[b])
    BY <1>1, <1>14, <2>1 DEF RestoreFails, q, AfterRestore, At, Shape, Processes, Keyed,
       PCs, Found, Building, Publishing
  <2> QED
    BY <2>1, <2>3, <2>4 DEF Fits
<1>15. CASE Reread(b)
  <2>1. CASE out.tu \in {None, Torn}
    <3>1. /\ p' = [p EXCEPT ![b] = p'[b]]
          /\ p'[b] = [q EXCEPT !.pc = "failed"]
      BY <1>1, <1>15, <2>1 DEF Reread, Set, Go, q
    <3>2. "failed" \in PCs
      BY <1>1, <1>2, <1>15, <2>1 DEF Reread, q, PCs
    <3>3. p'[b] \in Processes
      BY <1>1, <3>1, <3>2 DEF Processes
    <3>4. Shape(p'[b])
      BY <1>1, <1>2, <1>15, <2>1, <3>1, <3>2 DEF Reread, q, At, Shape, Processes, Keyed,
         PCs, Found, Building, Publishing
    <3> QED
      BY <3>1, <3>3, <3>4 DEF Fits
  <2>2. CASE ~(out.tu \in {None, Torn})
    <3>1. /\ p' = [p EXCEPT ![b] = p'[b]]
          /\ p'[b] = [q EXCEPT !.pc = "snapshot", !.tu = out.tu]
      BY <1>1, <1>15, <2>2 DEF Reread, Set, Go, q
    <3>2. /\ "snapshot" \in PCs /\ out.tu \in TUs
          /\ q.stamp \in Stamps /\ q.front \in [Files -> Contents]
      BY <1>1, <1>2, <1>15, <2>2 DEF Reread, q, PCs, Processes, At, Shape, Found, Stamps
    <3>3. p'[b] \in Processes
      BY <1>1, <3>1, <3>2 DEF Processes
    <3>4. Shape(p'[b])
      BY <1>1, <1>2, <1>15, <2>2, <3>1, <3>2 DEF Reread, q, At, Shape, Processes, Keyed,
         PCs, Found, Building, Publishing
    <3> QED
      BY <3>1, <3>3, <3>4 DEF Fits
  <2> QED
    BY <2>1, <2>2
<1>16. ASSUME NEW f \in Files, FrontendRead(b, f)
      PROVE  Fits(b)
  <2> DEFINE fr == [q.front EXCEPT ![f] = disk[f]]
             sb == q.stable /\ q.front[f] = None
  <2>1. /\ p' = [p EXCEPT ![b] = p'[b]]
        /\ p'[b] = [q EXCEPT !.front = fr, !.stable = sb]
    BY <1>1, <1>16 DEF FrontendRead, Set, q
  <2>2. fr \in [Files -> Contents \cup {None}] /\ sb \in BOOLEAN
    BY <1>1, <1>2 DEF Processes
  <2> HIDE DEF fr, sb
  <2>3. p'[b] \in Processes
    BY <1>1, <2>1, <2>2 DEF Processes
  <2>4. Shape(p'[b])
    BY <1>1, <1>16, <2>1 DEF FrontendRead, q, At, Shape, Processes, Keyed, PCs, Found,
       Building, Publishing
  <2> QED
    BY <2>1, <2>3, <2>4 DEF Fits
<1>17. CASE WriteTu(b)
  <2>1. /\ p' = [p EXCEPT ![b] = p'[b]]
        /\ p'[b] = [q EXCEPT !.pc = "emit", !.tu = TU(q.front, q.code)]
    BY <1>1, <1>17 DEF WriteTu, Set, Go, q
  <2>2. "emit" \in PCs /\ q.front \in [Files -> Contents] /\ TU(q.front, q.code) \in TUs
        /\ TU(q.front, q.code) # None
    BY <1>1, <1>2, <1>17, ExeCacheAssumption DEF WriteTu, q, PCs, Processes, At, Shape,
       Keyed, TU, TUs
  <2>3. p'[b] \in Processes
    BY <1>1, <2>1, <2>2 DEF Processes
  <2>4. Shape(p'[b])
    BY <1>1, <1>2, <1>17, <2>1, <2>2 DEF WriteTu, q, At, Shape, Processes, Keyed, PCs,
       Found, Building, Publishing
  <2> QED
    BY <2>1, <2>3, <2>4 DEF Fits
<1>18. CASE WroteTu(b)
  <2>1. /\ p' = [p EXCEPT ![b] = p'[b]]
        /\ p'[b] = [q EXCEPT !.pc = "snapshot"]
    BY <1>1, <1>18 DEF WroteTu, Set, Go, q
  <2>2. p'[b] \in Processes
    BY <1>3, <2>1 DEF PCs
  <2>3. Shape(p'[b])
    BY <1>1, <1>18, <2>1 DEF WroteTu, q, At, Shape, Processes, Keyed, PCs, Found,
       Building, Publishing
  <2> QED
    BY <2>1, <2>2, <2>3 DEF Fits
<1>19. CASE Snapshot(b)
  <2>1. /\ p' = [p EXCEPT ![b] = p'[b]]
        /\ p'[b] = [q EXCEPT !.pc = "link", !.deps = tool]
    BY <1>1, <1>19 DEF Snapshot, Set, Go, q
  <2>2. "link" \in PCs /\ tool \in Tools
    BY <1>1, <1>2, <1>19 DEF Snapshot, q, PCs
  <2>3. p'[b] \in Processes
    BY <1>1, <2>1, <2>2 DEF Processes
  <2>4. Shape(p'[b])
    BY <1>1, <1>2, <1>19, <2>1, <2>2 DEF Snapshot, q, At, Shape, Processes, Keyed, PCs,
       Found, Building, Publishing
  <2> QED
    BY <2>1, <2>3, <2>4 DEF Fits
<1>20. CASE Link(b)
  <2>1. /\ p' = [p EXCEPT ![b] = p'[b]]
        /\ p'[b] = [q EXCEPT !.pc = "install", !.exe = Exe(q.tu, tool)]
    BY <1>1, <1>20 DEF Link, Set, Go, q
  <2>2. "install" \in PCs /\ Exe(q.tu, tool) \in Exes /\ Exe(q.tu, tool) # None
    BY <1>1, <1>2, <1>20, ExeCacheAssumption DEF Link, q, PCs, Processes, At, Shape,
       Building, Exe, Exes
  <2>3. p'[b] \in Processes
    BY <1>1, <2>1, <2>2 DEF Processes
  <2>4. Shape(p'[b])
    BY <1>1, <1>2, <1>20, <2>1, <2>2 DEF Link, q, At, Shape, Processes, Keyed, PCs, Found,
       Building, Publishing
  <2> QED
    BY <2>1, <2>3, <2>4 DEF Fits
<1>21. CASE InstallExe(b)
  <2>1. /\ p' = [p EXCEPT ![b] = p'[b]]
        /\ p'[b] = [q EXCEPT !.pc = "recheck"]
    BY <1>1, <1>21 DEF InstallExe, Set, Go, q
  <2>2. p'[b] \in Processes
    BY <1>3, <2>1 DEF PCs
  <2>3. Shape(p'[b])
    BY <1>1, <1>21, <2>1 DEF InstallExe, q, At, Shape, Processes, Keyed, PCs, Found,
       Building, Publishing
  <2> QED
    BY <2>1, <2>2, <2>3 DEF Fits
<1>22. CASE Recheck(b)
  <2> DEFINE held == q.deps = tool
             publishes == q.stable /\ (held \/ q.stamp = None)
             pc == IF publishes THEN "stage" ELSE "done"
             deps == IF held THEN q.deps ELSE 0
             todo == IF ~publishes THEN {} ELSE IF held THEN {"tu", "exe"} ELSE {"tu"}
  <2>1. /\ p' = [p EXCEPT ![b] = p'[b]]
        /\ p'[b] = [q EXCEPT !.pc = pc, !.deps = deps, !.todo = todo]
    BY <1>1, <1>22 DEF Recheck, Set, q
  <2>2. /\ pc \in {"stage", "done"} /\ (pc = "stage" => "tu" \in todo)
        /\ deps \in {0} \cup Tools /\ todo \in SUBSET {"tu", "exe"}
    BY <1>1 DEF Processes
  <2> HIDE DEF publishes, held, pc, deps, todo
  <2>3. p'[b] \in Processes
    <3>1. pc \in PCs
      BY <2>2 DEF PCs
    <3> QED
      BY <1>1, <2>1, <2>2, <3>1 DEF Processes
  <2>4. Shape(p'[b])
    BY <1>1, <1>22, <2>1, <2>2 DEF Recheck, q, At, Shape, Processes, Keyed, PCs, Found,
       Building, Publishing
  <2> QED
    BY <2>1, <2>3, <2>4 DEF Fits
<1>23. ASSUME NEW g \in {"tu", "exe"}, Stage(b, g)
      PROVE  Fits(b)
  <2> DEFINE st == [q.stage EXCEPT ![g] = out[g]]
  <2>1. p' = [p EXCEPT ![b] = p'[b]]
        /\ p'[b] = [q EXCEPT !.stage = st, !.todo = @ \ {g},
                             !.pc = IF q.todo = {g} THEN "verify" ELSE @]
    BY <1>1, <1>23 DEF Stage, Set, q
  <2>2. st \in [tu : TUs \cup {None, Torn}, exe : Exes \cup {None}]
    BY <1>1, <1>2, <1>23 DEF Processes
  <2>3. st.tu = IF g = "tu" THEN out.tu ELSE q.stage.tu
    BY <1>1, <1>23 DEF Processes
  <2>4. out[g] # None /\ "verify" \in PCs
    BY <1>23 DEF Stage, PCs
  <2> HIDE DEF st
  <2>5. p'[b] \in Processes
    <3> DEFINE pc == IF q.todo = {g} THEN "verify" ELSE q.pc
               td == q.todo \ {g}
    <3>1. pc \in PCs /\ td \in SUBSET {"tu", "exe"}
      BY <1>1, <2>4 DEF Processes
    <3>2. p'[b] = [q EXCEPT !.stage = st, !.todo = td, !.pc = pc]
      BY <2>1
    <3> HIDE DEF pc, td
    <3> QED
      BY <1>1, <2>2, <3>1, <3>2 DEF Processes
  <2>6. Shape(p'[b])
    BY <1>1, <1>23, <2>1, <2>3, <2>4 DEF Stage, q, At, Shape, Processes, Keyed, PCs,
       Found, Building, Publishing
  <2> QED
    BY <2>1, <2>5, <2>6 DEF Fits
<1>24. ASSUME NEW g \in {"tu", "exe"}, StageFails(b, g)
      PROVE  Fits(b)
  <2>1. CASE q.deps # 0 /\ q.stamp = None
    <3>1. /\ p' = [p EXCEPT ![b] = p'[b]]
          /\ p'[b] = [q EXCEPT !.deps = 0, !.todo = {"tu"}, !.stage = Idle.stage]
      BY <1>1, <1>24, <2>1 DEF StageFails, Set, Go, q
    <3>2. Idle.stage \in [tu : TUs \cup {None, Torn}, exe : Exes \cup {None}]
      BY <1>1, <1>2, <1>24, <2>1 DEF StageFails, q, Idle
    <3>3. p'[b] \in Processes
      BY ZenonT(60), <1>1, <3>1, <3>2 DEF Processes
    <3>4. Shape(p'[b])
      BY <1>1, <1>2, <1>24, <2>1, <3>1, <3>2 DEF StageFails, q, At, Shape, Processes,
         Keyed, PCs, Found, Building, Publishing
    <3> QED
      BY <3>1, <3>3, <3>4 DEF Fits
  <2>2. CASE ~(q.deps # 0 /\ q.stamp = None)
    <3>1. /\ p' = [p EXCEPT ![b] = p'[b]]
          /\ p'[b] = [q EXCEPT !.pc = "done", !.todo = {}]
      BY <1>1, <1>24, <2>2 DEF StageFails, Set, Go, q
    <3>2. "done" \in PCs
      BY <1>1, <1>2, <1>24, <2>2 DEF StageFails, q, PCs
    <3>3. p'[b] \in Processes
      BY <1>1, <3>1, <3>2 DEF Processes
    <3>4. Shape(p'[b])
      BY <1>1, <1>2, <1>24, <2>2, <3>1, <3>2 DEF StageFails, q, At, Shape, Processes,
         Keyed, PCs, Found, Building, Publishing
    <3> QED
      BY <3>1, <3>3, <3>4 DEF Fits
  <2> QED
    BY <2>1, <2>2
<1>25. CASE Verify(b)
  <2>1. /\ p' = [p EXCEPT ![b] = p'[b]]
        /\ p'[b] = [q EXCEPT !.pc = IF q.front = disk THEN "putTu" ELSE "done"]
    BY <1>1, <1>25 DEF Verify, Set, Go, q
  <2>2. p'[b] \in Processes
    BY <1>3, <2>1 DEF PCs
  <2>3. Shape(p'[b])
    BY <1>1, <1>25, <2>1 DEF Verify, q, At, Shape, Processes, Keyed, PCs, Found, Building,
       Publishing
  <2> QED
    BY <2>1, <2>2, <2>3 DEF Fits
<1>26. CASE PutTu(b)
  <2>1. /\ p' = [p EXCEPT ![b] = p'[b]]
        /\ p'[b] = [q EXCEPT !.pc = IF q.stage.exe = None THEN "putStamp" ELSE "putExe"]
    BY <1>1, <1>26 DEF PutTu, Set, Go, q
  <2>2. p'[b] \in Processes
    BY <1>3, <2>1 DEF PCs
  <2>3. Shape(p'[b])
    BY <1>1, <1>26, <2>1 DEF PutTu, q, At, Shape, Processes, Keyed, PCs, Found, Building,
       Publishing
  <2> QED
    BY <2>1, <2>2, <2>3 DEF Fits
<1>27. CASE PutExe(b)
  <2>1. /\ p' = [p EXCEPT ![b] = p'[b]]
        /\ p'[b] = [q EXCEPT !.pc = "putStamp"]
    BY <1>1, <1>27 DEF PutExe, Set, Go, q
  <2>2. p'[b] \in Processes
    BY <1>3, <2>1 DEF PCs
  <2>3. Shape(p'[b])
    BY <1>1, <1>27, <2>1 DEF PutExe, q, At, Shape, Processes, Keyed, PCs, Found, Building,
       Publishing
  <2> QED
    BY <2>1, <2>2, <2>3 DEF Fits
<1>28. CASE PutStamp(b)
  <2>1. /\ p' = [p EXCEPT ![b] = p'[b]]
        /\ p'[b] = [q EXCEPT !.pc = "putProof"]
    BY <1>1, <1>28 DEF PutStamp, Set, Go, q
  <2>2. p'[b] \in Processes
    BY <1>3, <2>1 DEF PCs
  <2>3. Shape(p'[b])
    BY <1>1, <1>28, <2>1 DEF PutStamp, q, At, Shape, Processes, Keyed, PCs, Found,
       Building, Publishing
  <2> QED
    BY <2>1, <2>2, <2>3 DEF Fits
<1>29. CASE PutProof(b)
  <2>1. /\ p' = [p EXCEPT ![b] = p'[b]]
        /\ p'[b] = [q EXCEPT !.pc = "putRoute"]
    BY <1>1, <1>29 DEF PutProof, Set, Go, q
  <2>2. p'[b] \in Processes
    BY <1>3, <2>1 DEF PCs
  <2>3. Shape(p'[b])
    BY <1>1, <1>29, <2>1 DEF PutProof, q, At, Shape, Processes, Keyed, PCs, Found,
       Building, Publishing
  <2> QED
    BY <2>1, <2>2, <2>3 DEF Fits
<1>30. CASE PutRoute(b)
  <2>1. /\ p' = [p EXCEPT ![b] = p'[b]]
        /\ p'[b] = [q EXCEPT !.pc = IF q.exe = None THEN "reread" ELSE "done"]
    BY <1>1, <1>30 DEF PutRoute, Set, Go, q
  <2>2. p'[b] \in Processes
    BY <1>3, <2>1 DEF PCs
  <2>3. Shape(p'[b])
    BY <1>1, <1>30, <2>1 DEF PutRoute, q, At, Shape, Processes, Keyed, PCs, Found,
       Building, Publishing
  <2> QED
    BY <2>1, <2>2, <2>3 DEF Fits
<1>31. CASE Fail(b) \/ Crash(b) \/ \E keep \in BOOLEAN : Finish(b, keep)
  BY <1>1, <1>31, IdleFits DEF Fail, Crash, Finish, Set, Fits, q
<1> QED
  BY <1>4, <1>5, <1>6, <1>7, <1>8, <1>9, <1>10, <1>11, <1>12, <1>13, <1>14, <1>15, <1>16,
     <1>17, <1>18, <1>19, <1>20, <1>21, <1>22, <1>23, <1>24, <1>25, <1>26, <1>27, <1>28,
     <1>29, <1>30, <1>31 DEF Step

(* The types of everything but the processes.                              *)
Around ==
  /\ disk \in [Files -> Contents] /\ tool \in Tools /\ impl \in Impls
  /\ out \in [tu : TUs \cup {None, Torn}, exe : Exes \cup {None}]
  /\ cache \in [Impls -> [tu : TUs \cup {None, Torn}, exe : Exes \cup {None},
                          stamp : Stamps \cup {None}]]
  /\ proofs \subseteq Impls /\ route \in {0} \cup Impls
  /\ left \in [Kinds -> Nat] /\ clash \in BOOLEAN /\ warm \subseteq Procs \cup {None}
  /\ Counted

(* A write of one output keeps the type of both.                           *)
LEMMA WriteTypes ==
  ASSUME TypeInv, NEW b \in Procs, NEW f \in {"tu", "exe"}, NEW bytes, Write(b, f, bytes),
         f = "tu" => bytes \in TUs \cup {None, Torn},
         f = "exe" => bytes \in Exes \cup {None}
  PROVE  out' \in [tu : TUs \cup {None, Torn}, exe : Exes \cup {None}] /\ clash' \in BOOLEAN
<1>1. out' = [out EXCEPT ![f] = bytes]
  BY DEF Write
<1>2. out' \in [tu : TUs \cup {None, Torn}, exe : Exes \cup {None}]
  BY <1>1 DEF TypeInv, TypeOK
<1>3. clash' \in BOOLEAN
  BY DEF Write
<1> QED
  BY <1>2, <1>3

(* The other variables keep their types when a process takes a step.       *)
LEMMA AroundStep ==
  ASSUME TypeInv, NEW b \in Procs, Step(b)
  PROVE  Around'
<1>1. Around
  BY DEF TypeInv, TypeOK, Around
<1>2. p[b] \in Processes /\ Shape(p[b])
  BY DEF TypeInv, TypeOK, Shapes
<1>3. CASE ReadRoute(b)
  BY <1>1, <1>3 DEF ReadRoute, Around, Counted, world, entries
<1>4. CASE ReadProof(b)
  BY <1>1, <1>4 DEF ReadProof, Around, Counted, world, entries
<1>5. CASE Load(b)
  BY <1>1, <1>5 DEF Load, Around, Counted, world, entries
<1>6. CASE Identify(b)
  BY <1>1, <1>6 DEF Identify, Around, Counted, world, entries
<1>7. CASE ReadStamp(b)
  BY <1>1, <1>7 DEF ReadStamp, Around, Counted, world, entries
<1>8. CASE CheckNative(b)
  BY <1>1, <1>8 DEF CheckNative, Around, Counted, world, entries
<1>9. CASE Reread(b)
  BY <1>1, <1>9 DEF Reread, Around, Counted, world, entries
<1>10. CASE Snapshot(b)
  BY <1>1, <1>10 DEF Snapshot, Around, Counted, world, entries
<1>11. CASE Link(b)
  BY <1>1, <1>11 DEF Link, Around, Counted, world, entries
<1>12. CASE Recheck(b)
  BY <1>1, <1>12 DEF Recheck, Around, Counted, world, entries
<1>13. CASE Verify(b)
  BY <1>1, <1>13 DEF Verify, Around, Counted, world, entries
<1>14. CASE \E f \in Files : FrontendRead(b, f)
  BY <1>1, <1>14 DEF FrontendRead, Around, Counted, world, entries
<1>15. CASE \E f \in {"tu", "exe"} : Fetch(b, f)
  BY <1>1, <1>15 DEF Fetch, Around, Counted, world, entries
<1>16. CASE \E f \in {"tu", "exe"} : Stage(b, f)
  BY <1>1, <1>16 DEF Stage, Around, Counted, world, entries
<1>17. CASE \E f \in {"tu", "exe"} : StageFails(b, f)
  BY <1>1, <1>17 DEF StageFails, Around, Counted, world, entries
<1>18. CASE Start(b)
  <2>1. /\ left' \in [Kinds -> Nat] /\ left'["tool"] = left["tool"]
        /\ left'["upgrade"] = left["upgrade"]
    BY <1>1, <1>18 DEF Start, Around, Kinds
  <2>2. warm' \subseteq Procs \cup {None}
    BY <1>1, <1>18 DEF Start, Around
  <2> QED
    BY <1>1, <1>18, <2>1, <2>2 DEF Start, Around, Counted, world, entries
<1>19. CASE RestoreFails(b)
  <2>1. /\ left' \in [Kinds -> Nat] /\ left'["tool"] = left["tool"]
        /\ left'["upgrade"] = left["upgrade"]
    BY <1>1, <1>19 DEF RestoreFails, Spend, Around, Kinds
  <2>2. warm' \subseteq Procs \cup {None}
    BY <1>1, <1>19 DEF RestoreFails, Around
  <2> QED
    BY <1>1, <1>19, <2>1, <2>2 DEF RestoreFails, Around, Counted, world, entries
<1>20. CASE Crash(b)
  <2>1. /\ left' \in [Kinds -> Nat] /\ left'["tool"] = left["tool"]
        /\ left'["upgrade"] = left["upgrade"]
    BY <1>1, <1>20 DEF Crash, Spend, Around, Kinds
  <2>2. warm' \subseteq Procs \cup {None}
    BY <1>1, <1>20 DEF Crash, Around
  <2> QED
    BY <1>1, <1>20, <2>1, <2>2 DEF Crash, Around, Counted, world, entries
<1>21. CASE Fail(b)
  BY <1>1, <1>21 DEF Fail, Around, Counted, world, entries
<1>22. CASE RestoreTu(b)
  <2>1. p[b].stamp.tu \in TUs \cup {None, Torn}
    BY <1>2, <1>22 DEF RestoreTu, At, Shape, Found, Processes, Stamps
  <2>2. Write(b, "tu", p[b].stamp.tu)
    BY <1>22 DEF RestoreTu
  <2>3. out' \in [tu : TUs \cup {None, Torn}, exe : Exes \cup {None}] /\ clash' \in BOOLEAN
    BY <2>1, <2>2, WriteTypes
  <2> QED
    BY <1>1, <1>22, <2>3 DEF RestoreTu, Around, Counted, world, entries
<1>23. CASE RestoreExe(b)
  <2>1. p[b].exe \in Exes \cup {None}
    BY <1>2, <1>23 DEF RestoreExe, Processes
  <2>2. Write(b, "exe", p[b].exe)
    BY <1>23 DEF RestoreExe
  <2>3. out' \in [tu : TUs \cup {None, Torn}, exe : Exes \cup {None}] /\ clash' \in BOOLEAN
    BY <2>1, <2>2, WriteTypes
  <2> QED
    BY <1>1, <1>23, <2>3 DEF RestoreExe, Around, Counted, world, entries
<1>24. CASE WriteTu(b)
  <2>1. Torn \in TUs \cup {None, Torn}
    BY <1>2, <1>24 DEF WriteTu, Processes
  <2>2. Write(b, "tu", Torn)
    BY <1>24 DEF WriteTu
  <2>3. out' \in [tu : TUs \cup {None, Torn}, exe : Exes \cup {None}] /\ clash' \in BOOLEAN
    BY <2>1, <2>2, WriteTypes
  <2> QED
    BY <1>1, <1>24, <2>3 DEF WriteTu, Around, Counted, world, entries
<1>25. CASE WroteTu(b)
  <2>1. p[b].tu \in TUs \cup {None, Torn}
    BY <1>2, <1>25 DEF WroteTu, Processes
  <2>2. Write(b, "tu", p[b].tu)
    BY <1>25 DEF WroteTu
  <2>3. out' \in [tu : TUs \cup {None, Torn}, exe : Exes \cup {None}] /\ clash' \in BOOLEAN
    BY <2>1, <2>2, WriteTypes
  <2> QED
    BY <1>1, <1>25, <2>3 DEF WroteTu, Around, Counted, world, entries
<1>26. CASE InstallExe(b)
  <2>1. p[b].exe \in Exes \cup {None}
    BY <1>2, <1>26 DEF InstallExe, Processes
  <2>2. Write(b, "exe", p[b].exe)
    BY <1>26 DEF InstallExe
  <2>3. out' \in [tu : TUs \cup {None, Torn}, exe : Exes \cup {None}] /\ clash' \in BOOLEAN
    BY <2>1, <2>2, WriteTypes
  <2> QED
    BY <1>1, <1>26, <2>3 DEF InstallExe, Around, Counted, world, entries
<1>27. ASSUME NEW keep \in BOOLEAN, Finish(b, keep)
      PROVE  Around'
  <2>1. (IF keep THEN out.tu ELSE None) \in TUs \cup {None, Torn}
    BY <1>1 DEF Around
  <2>2. Write(b, "tu", IF keep THEN out.tu ELSE None)
    BY <1>27 DEF Finish
  <2>3. out' \in [tu : TUs \cup {None, Torn}, exe : Exes \cup {None}] /\ clash' \in BOOLEAN
    BY <2>1, <2>2, WriteTypes
  <2>4. warm' \subseteq Procs \cup {None}
    BY <1>1, <1>27 DEF Finish, Around
  <2> QED
    BY <1>1, <1>27, <2>3, <2>4 DEF Finish, Around, Counted, world, entries
<1>28. CASE PutTu(b)
  <2>1. p[b].key \in Impls
    BY <1>2, <1>28 DEF PutTu, At, Shape, Keyed, PCs
  <2>2. p[b].stage.tu \in TUs \cup {None, Torn}
    BY <1>2, <1>28 DEF PutTu, Processes
  <2>3. cache' = [cache EXCEPT ![p[b].key] = [cache[p[b].key] EXCEPT !.tu = p[b].stage.tu]]
    BY <1>28 DEF PutTu
  <2>4. cache' \in [Impls -> [tu : TUs \cup {None, Torn}, exe : Exes \cup {None},
                              stamp : Stamps \cup {None}]]
    BY <1>1, <2>1, <2>2, <2>3 DEF Around
  <2>5. warm' \subseteq Procs \cup {None}
    BY <1>28 DEF PutTu
  <2> QED
    BY <1>1, <1>28, <2>4, <2>5 DEF PutTu, Around, Counted, world
<1>29. CASE PutExe(b)
  <2>1. p[b].key \in Impls
    BY <1>2, <1>29 DEF PutExe, At, Shape, Keyed, PCs
  <2>2. p[b].stage.exe \in Exes \cup {None}
    BY <1>2, <1>29 DEF PutExe, Processes
  <2>3. cache' = [cache EXCEPT ![p[b].key] = [cache[p[b].key] EXCEPT !.exe = p[b].stage.exe]]
    BY <1>29 DEF PutExe
  <2>4. cache' \in [Impls -> [tu : TUs \cup {None, Torn}, exe : Exes \cup {None},
                              stamp : Stamps \cup {None}]]
    BY <1>1, <2>1, <2>2, <2>3 DEF Around
  <2>5. warm' \subseteq Procs \cup {None}
    BY <1>29 DEF PutExe
  <2> QED
    BY <1>1, <1>29, <2>4, <2>5 DEF PutExe, Around, Counted, world
<1>30. CASE PutStamp(b)
  <2>1. p[b].key \in Impls
    BY <1>2, <1>30 DEF PutStamp, At, Shape, Keyed, PCs
  <2>2. StampOf(p[b]) \in Stamps
    BY <1>2, <1>30 DEF PutStamp, Processes, At, Shape, Publishing, Building, StampOf,
       Stamps
  <2>3. cache' = [cache EXCEPT ![p[b].key] = [cache[p[b].key] EXCEPT !.stamp = StampOf(p[b])]]
    BY <1>30 DEF PutStamp
  <2>4. cache' \in [Impls -> [tu : TUs \cup {None, Torn}, exe : Exes \cup {None},
                              stamp : Stamps \cup {None}]]
    BY <1>1, <2>1, <2>2, <2>3 DEF Around
  <2>5. warm' \subseteq Procs \cup {None}
    BY <1>30 DEF PutStamp
  <2> QED
    BY <1>1, <1>30, <2>4, <2>5 DEF PutStamp, Around, Counted, world
<1>31. CASE PutProof(b)
  <2>1. p[b].key \in Impls
    BY <1>2, <1>31 DEF PutProof, At, Shape, Keyed, PCs
  <2> QED
    BY <1>1, <1>31, <2>1 DEF PutProof, Around, Counted, world
<1>32. CASE PutRoute(b)
  <2>1. p[b].key \in Impls
    BY <1>2, <1>32 DEF PutRoute, At, Shape, Keyed, PCs
  <2> QED
    BY <1>1, <1>32, <2>1 DEF PutRoute, Around, Counted, world
<1> QED
  BY <1>3, <1>4, <1>5, <1>6, <1>7, <1>8, <1>9, <1>10, <1>11, <1>12, <1>13, <1>14, <1>15,
     <1>16, <1>17, <1>18, <1>19, <1>20, <1>21, <1>22, <1>23, <1>24, <1>25, <1>26, <1>27,
     <1>28, <1>29, <1>30, <1>31, <1>32 DEF Step

(* ... and when something around the processes changes.                    *)
LEMMA AroundWorld ==
  ASSUME TypeInv, UNCHANGED vars \/ UpdateTool \/ Upgrade \/ PruneRoute
                  \/ (\E f \in Files, c \in Contents : Edit(f, c))
                  \/ (\E k \in Impls, f \in {"tu", "exe", "stamp"} : PruneEntry(k, f))
  PROVE  Around' /\ p' = p
<1>1. Around
  BY DEF TypeInv, TypeOK, Around
<1>2. /\ Budget["tool"] \in Nat /\ Budget["upgrade"] \in Nat
      /\ left["tool"] \in Nat /\ left["upgrade"] \in Nat /\ tool \in Nat /\ impl \in Nat
  BY <1>1, ExeCacheAssumption DEF Around, Kinds, Tools, Impls
<1>3. CASE UNCHANGED vars
  BY <1>1, <1>3 DEF vars, Around, Counted
<1>4. CASE UpdateTool
  <2>1. /\ left' \in [Kinds -> Nat] /\ left'["tool"] = left["tool"] - 1 /\ left["tool"] > 0
        /\ left'["upgrade"] = left["upgrade"]
    BY <1>1, <1>4 DEF UpdateTool, Spend, Around, Kinds
  <2>2. tool' \in Tools /\ Counted'
    BY <1>1, <1>2, <1>4, <2>1 DEF UpdateTool, Around, Counted, Tools
  <2> QED
    BY <1>1, <1>4, <2>1, <2>2 DEF UpdateTool, Around, entries
<1>5. CASE Upgrade
  <2>1. /\ left' \in [Kinds -> Nat] /\ left'["upgrade"] = left["upgrade"] - 1
        /\ left["upgrade"] > 0 /\ left'["tool"] = left["tool"]
    BY <1>1, <1>5 DEF Upgrade, Spend, Around, Kinds
  <2>2. impl' \in Impls /\ Counted'
    BY <1>1, <1>2, <1>5, <2>1 DEF Upgrade, Around, Counted, Impls
  <2>3. clash' \in BOOLEAN
    BY <1>5 DEF Upgrade
  <2> QED
    BY <1>1, <1>5, <2>1, <2>2, <2>3 DEF Upgrade, Around, entries
<1>6. CASE PruneRoute
  <2>1. /\ left' \in [Kinds -> Nat] /\ left'["tool"] = left["tool"]
        /\ left'["upgrade"] = left["upgrade"]
    BY <1>1, <1>6 DEF PruneRoute, Spend, Around, Kinds
  <2> QED
    BY <1>1, <1>6, <2>1 DEF PruneRoute, Around, Counted, world
<1>7. ASSUME NEW f \in Files, NEW c \in Contents, Edit(f, c)
      PROVE  Around' /\ p' = p
  <2>1. /\ left' \in [Kinds -> Nat] /\ left'["tool"] = left["tool"]
        /\ left'["upgrade"] = left["upgrade"]
    BY <1>1, <1>7 DEF Edit, Spend, Around, Kinds
  <2>2. disk' \in [Files -> Contents]
    BY <1>1, <1>7 DEF Edit, Around
  <2> QED
    BY <1>1, <1>7, <2>1, <2>2 DEF Edit, Around, Counted, entries
<1>8. ASSUME NEW k \in Impls, NEW f \in {"tu", "exe", "stamp"}, PruneEntry(k, f)
      PROVE  Around' /\ p' = p
  <2>1. /\ left' \in [Kinds -> Nat] /\ left'["tool"] = left["tool"]
        /\ left'["upgrade"] = left["upgrade"]
    BY <1>1, <1>8 DEF PruneEntry, Spend, Around, Kinds
  <2>2. cache' = [cache EXCEPT ![k] = [cache[k] EXCEPT ![f] = None]]
    BY <1>8 DEF PruneEntry
  <2>3. [cache[k] EXCEPT ![f] = None] \in
           [tu : TUs \cup {None, Torn}, exe : Exes \cup {None}, stamp : Stamps \cup {None}]
    BY <1>1 DEF Around
  <2>4. cache' \in [Impls -> [tu : TUs \cup {None, Torn}, exe : Exes \cup {None},
                              stamp : Stamps \cup {None}]]
    BY <1>1, <2>2, <2>3 DEF Around
  <2> QED
    BY <1>1, <1>8, <2>1, <2>4 DEF PruneEntry, Around, Counted, world
<1> QED
  BY <1>3, <1>4, <1>5, <1>6, <1>7, <1>8

(* Types and shapes are inductive.                                         *)
LEMMA TypeInvStep == TypeInv /\ [Next]_vars => TypeInv'
<1> SUFFICES ASSUME TypeInv, [Next]_vars PROVE TypeInv'
  OBVIOUS
<1>1. ASSUME NEW b \in Procs, Step(b)
      PROVE  TypeInv'
  <2>1. Fits(b) /\ Around'
    BY <1>1, ProcStep, AroundStep
  <2>2. p' \in [Procs -> Processes] /\ Shapes'
    BY <2>1 DEF Fits, TypeInv, TypeOK, Shapes
  <2> QED
    BY <2>1, <2>2 DEF Around, TypeInv, TypeOK
<1>2. CASE UNCHANGED vars \/ UpdateTool \/ Upgrade \/ PruneRoute
           \/ (\E f \in Files, c \in Contents : Edit(f, c))
           \/ (\E k \in Impls, f \in {"tu", "exe", "stamp"} : PruneEntry(k, f))
  <2>1. Around' /\ p' = p
    BY <1>2, AroundWorld
  <2> QED
    BY <2>1 DEF Around, TypeInv, TypeOK, Shapes
<1> QED
  BY <1>1, <1>2 DEF Next

(* They hold before the first step.                                        *)
LEMMA TypeInvInit == Init => TypeInv
<1> SUFFICES ASSUME Init PROVE TypeInv
  OBVIOUS
<1>1. /\ Budget \in [Kinds -> Nat] /\ Budget["tool"] \in Nat /\ Budget["upgrade"] \in Nat
  BY ExeCacheAssumption DEF Kinds
<1>2. tool \in Tools /\ impl \in Impls /\ Counted
  BY <1>1 DEF Init, Tools, Impls, Counted
<1>3. cache \in [Impls -> [tu : TUs \cup {None, Torn}, exe : Exes \cup {None},
                           stamp : Stamps \cup {None}]]
  BY DEF Init, Empty
<1>4. p \in [Procs -> Processes] /\ Shapes
  BY IdleFits DEF Init, Shapes
<1>5. out \in [tu : TUs \cup {None, Torn}, exe : Exes \cup {None}]
  BY DEF Init
<1> QED
  BY <1>1, <1>2, <1>3, <1>4, <1>5 DEF Init, TypeInv, TypeOK

-------------------------------------------------------------------------------
(* What RightInv says of one process.                                      *)
Good(q) == Lookup(q) /\ Build(q) /\ Returns(q) /\ Outputs(q)

(* A write that is no clash leaves the outputs of the processes that use    *)
(* them as they were.                                                      *)
LEMMA WriteKeeps ==
  ASSUME TypeInv, NEW b \in Procs, NEW f \in {"tu", "exe"}, NEW bytes, Write(b, f, bytes),
         ~clash', NEW c \in Procs \ {b}, Using(c)
  PROVE  out' = out
<1>1. out[f] = bytes /\ out' = [out EXCEPT ![f] = bytes]
  BY DEF Write
<1> QED
  BY <1>1 DEF TypeInv, TypeOK

(* So does every step of another process.                                  *)
LEMMA OutKept ==
  ASSUME TypeInv, NEW b \in Procs, Step(b), ~clash'
  PROVE  ~clash /\ \A c \in Procs \ {b} : Using(c) => out' = out
<1>1. CASE RestoreTu(b) \/ RestoreExe(b) \/ WriteTu(b) \/ WroteTu(b) \/ InstallExe(b)
           \/ \E keep \in BOOLEAN : Finish(b, keep)
  <2>1. PICK f \in {"tu", "exe"} : \E bytes : Write(b, f, bytes)
    BY <1>1 DEF RestoreTu, RestoreExe, WriteTu, WroteTu, InstallExe, Finish
  <2>2. ~clash
    BY <2>1 DEF Write
  <2> QED
    BY <2>1, <2>2, WriteKeeps
<1>2. CASE UNCHANGED <<out, clash>>
  BY <1>2
<1>3. \/ RestoreTu(b) \/ RestoreExe(b) \/ WriteTu(b) \/ WroteTu(b) \/ InstallExe(b)
      \/ \E keep \in BOOLEAN : Finish(b, keep)
      \/ UNCHANGED <<out, clash>>
  BY DEF Step, Start, ReadRoute, ReadProof, Load, Identify, ReadStamp, CheckNative,
     RestoreFails, Reread, Snapshot, Link, Recheck, Verify, PutTu, PutExe, PutStamp,
     PutProof, PutRoute, Fail, Crash, FrontendRead, Fetch, Stage, StageFails
<1> QED
  BY <1>1, <1>2, <1>3

(* A step of process b leaves what is true of the others.                  *)
LEMMA OthersKeep ==
  ASSUME TypeInv, Right, NEW b \in Procs, Step(b), ~clash', NEW c \in Procs \ {b}
  PROVE  Good(p[c])'
<1>1. p'[c] = p[c] /\ p[c] \in Processes
  BY ProcStep DEF Fits, TypeInv, TypeOK
<1>2. impl' = impl /\ tool' = tool
  BY DEF Step, Start, ReadRoute, ReadProof, Load, Identify, ReadStamp, CheckNative,
     RestoreTu, RestoreExe, RestoreFails, Reread, WriteTu, WroteTu, Snapshot, Link,
     InstallExe, Recheck, Verify, PutTu, PutExe, PutStamp, PutProof, PutRoute, Fail,
     Crash, FrontendRead, Fetch, Stage, StageFails, Finish, world
<1>3. Lookup(p[c])' /\ Build(p[c])' /\ Returns(p[c])'
  BY <1>1, <1>2 DEF Right, Lookup, Build, Returns
<1>4. Outputs(p[c])'
  <2>1. CASE Using(c)
    <3>1. out' = out
      BY <2>1, OutKept
    <3> QED
      BY <1>1, <3>1 DEF Right, Outputs
  <2>2. CASE ~Using(c)
    BY <1>1, <2>2 DEF Using, Outputs, Building, Publishing, Releasing
  <2> QED
    BY <2>1, <2>2
<1> QED
  BY <1>3, <1>4 DEF Good

(* ... and keeps it true of b itself.                                      *)
LEMMA OwnKeeps ==
  ASSUME TypeInv, Right, ~clash, ~clash', NEW b \in Procs, Step(b)
  PROVE  Good(p[b])'
<1> DEFINE q == p[b]
<1> USE DEF Keyed, PCs, Found, Building, Publishing, Releasing
<1>1. q \in Processes /\ Shape(q) /\ Good(q) /\ p \in [Procs -> Processes]
  BY DEF TypeInv, TypeOK, Shapes, Right, Good
<1>2. /\ impl \in Impls /\ tool \in Nat
      /\ out \in [tu : TUs \cup {None, Torn}, exe : Exes \cup {None}]
      /\ cache \in [Impls -> [tu : TUs \cup {None, Torn}, exe : Exes \cup {None},
                              stamp : Stamps \cup {None}]]
  BY DEF TypeInv, TypeOK, Tools
<1>3. CASE Start(b)
  <2>1. /\ p'[b] = [q EXCEPT !.pc = "route"]
        /\ impl' = impl /\ tool' = tool
    BY <1>1, <1>3 DEF Start, Set, Go, world
  <2>2. Lookup(p[b])'
    BY <1>1, <1>2, <1>3, <2>1 DEF Start, Good, Lookup, Returns, At, Shape, Processes,
       NoStage
  <2>3. Build(p[b])'
    BY <1>1, <1>2, <1>3, <2>1 DEF Start, Good, Build, Lookup, At, Shape, Processes,
       NoStage
  <2>4. Returns(p[b])'
    BY <1>1, <1>2, <1>3, <2>1 DEF Start, Good, Returns, Build, Lookup, Outputs, At, Shape,
       Processes, NoStage
  <2>5. Outputs(p[b])'
    BY <1>1, <1>2, <1>3, <2>1 DEF Start, Good, Outputs, Build, Returns, Lookup, At, Shape,
       Processes, NoStage
  <2> QED
    BY <2>2, <2>3, <2>4, <2>5 DEF Good
<1>4. CASE ReadRoute(b)
  <2>1. /\ p'[b] = IF route = 0
                   THEN [q EXCEPT !.pc = "load"]
                   ELSE [q EXCEPT !.pc = "proof", !.key = route]
        /\ impl' = impl /\ tool' = tool
    BY <1>1, <1>4 DEF ReadRoute, Set, Go, world
  <2>2. Lookup(p[b])'
    BY <1>1, <1>2, <1>4, <2>1 DEF ReadRoute, Good, Lookup, Returns, At, Shape, Processes,
       NoStage
  <2>3. Build(p[b])'
    BY <1>1, <1>2, <1>4, <2>1 DEF ReadRoute, Good, Build, Lookup, At, Shape, Processes,
       NoStage
  <2>4. Returns(p[b])'
    BY <1>1, <1>2, <1>4, <2>1 DEF ReadRoute, Good, Returns, Build, Lookup, Outputs, At,
       Shape, Processes, NoStage
  <2>5. Outputs(p[b])'
    BY <1>1, <1>2, <1>4, <2>1 DEF ReadRoute, Good, Outputs, Build, Returns, Lookup, At,
       Shape, Processes, NoStage
  <2> QED
    BY <2>2, <2>3, <2>4, <2>5 DEF Good
<1>5. CASE ReadProof(b)
  <2>1. /\ p'[b] = IF q.key \in proofs /\ impl = q.key
                   THEN [q EXCEPT !.pc = "stamp", !.routed = TRUE]
                   ELSE [q EXCEPT !.pc = "load"]
        /\ impl' = impl /\ tool' = tool
    BY <1>1, <1>5 DEF ReadProof, Set, Go, world
  <2>2. Lookup(p[b])'
    BY <1>1, <1>2, <1>5, <2>1 DEF ReadProof, Good, Lookup, Returns, At, Shape, Processes,
       NoStage
  <2>3. Build(p[b])'
    BY <1>1, <1>2, <1>5, <2>1 DEF ReadProof, Good, Build, Lookup, At, Shape, Processes,
       NoStage
  <2>4. Returns(p[b])'
    BY <1>1, <1>2, <1>5, <2>1 DEF ReadProof, Good, Returns, Build, Lookup, Outputs, At,
       Shape, Processes, NoStage
  <2>5. Outputs(p[b])'
    BY <1>1, <1>2, <1>5, <2>1 DEF ReadProof, Good, Outputs, Build, Returns, Lookup, At,
       Shape, Processes, NoStage
  <2> QED
    BY <2>2, <2>3, <2>4, <2>5 DEF Good
<1>6. CASE Load(b)
  <2>1. /\ p'[b] = [Idle EXCEPT !.pc = "identify", !.code = impl]
        /\ impl' = impl /\ tool' = tool
    BY <1>1, <1>6 DEF Load, Set, Go, world
  <2>2. Lookup(p[b])'
    BY <1>1, <1>2, <1>6, <2>1 DEF Load, Good, Lookup, Returns, At, Shape, Processes, Idle,
       NoStage
  <2>3. Build(p[b])'
    BY <1>1, <1>2, <1>6, <2>1 DEF Load, Good, Build, Lookup, At, Shape, Processes, Idle,
       NoStage
  <2>4. Returns(p[b])'
    BY <1>1, <1>2, <1>6, <2>1 DEF Load, Good, Returns, Build, Lookup, Outputs, At, Shape,
       Processes, Idle, NoStage
  <2>5. Outputs(p[b])'
    BY <1>1, <1>2, <1>6, <2>1 DEF Load, Good, Outputs, Build, Returns, Lookup, At, Shape,
       Processes, Idle, NoStage
  <2> QED
    BY <2>2, <2>3, <2>4, <2>5 DEF Good
<1>7. CASE Identify(b)
  <2>1. /\ p'[b] = [q EXCEPT !.pc = "stamp", !.key = impl]
        /\ impl' = impl /\ tool' = tool
    BY <1>1, <1>7 DEF Identify, Set, Go, world
  <2>2. Lookup(p[b])'
    BY <1>1, <1>2, <1>7, <2>1 DEF Identify, Good, Lookup, Returns, At, Shape, Processes,
       NoStage
  <2>3. Build(p[b])'
    BY <1>1, <1>2, <1>7, <2>1 DEF Identify, Good, Build, Lookup, At, Shape, Processes,
       NoStage
  <2>4. Returns(p[b])'
    BY <1>1, <1>2, <1>7, <2>1 DEF Identify, Good, Returns, Build, Lookup, Outputs, At,
       Shape, Processes, NoStage
  <2>5. Outputs(p[b])'
    BY <1>1, <1>2, <1>7, <2>1 DEF Identify, Good, Outputs, Build, Returns, Lookup, At,
       Shape, Processes, NoStage
  <2> QED
    BY <2>2, <2>3, <2>4, <2>5 DEF Good
<1>8. CASE ReadStamp(b)
  <2>1. /\ p'[b] = IF cache[q.key].stamp # None /\ cache[q.key].stamp.front = disk
                   THEN [q EXCEPT !.pc = "fetch", !.stamp = cache[q.key].stamp,
                                  !.front = cache[q.key].stamp.front,
                                  !.todo = {"tu"} \cup (IF cache[q.key].stamp.exe = None
                                                        THEN {} ELSE {"exe"})]
                   ELSE Missed(b)
        /\ impl' = impl /\ tool' = tool
    BY <1>1, <1>8 DEF ReadStamp, Set, Go, world
  <2>2. /\ q.key \in Impls
        /\ cache[q.key].stamp # None => Sound(cache[q.key].stamp, q.key)
    BY <1>1, <1>8 DEF ReadStamp, At, Shape, Right
  <2>3. Lookup(p[b])'
    BY SMTT(30), <1>1, <1>2, <1>8, <2>1, <2>2 DEF ReadStamp, Good, Lookup, Returns, At, Shape,
       Processes, Missed, NoStage, Sound, TU, Exe
  <2>4. Build(p[b])'
    BY <1>1, <1>2, <1>8, <2>1, <2>2 DEF ReadStamp, Good, Build, Lookup, At, Shape,
       Processes, Missed, NoStage, Sound, TU, Exe
  <2>5. Returns(p[b])'
    BY <1>1, <1>2, <1>8, <2>1, <2>2 DEF ReadStamp, Good, Returns, Build, Lookup, Outputs,
       At, Shape, Processes, Missed, NoStage, Sound, TU, Exe
  <2>6. Outputs(p[b])'
    BY <1>1, <1>2, <1>8, <2>1, <2>2 DEF ReadStamp, Good, Outputs, Build, Returns, Lookup,
       At, Shape, Processes, Missed, NoStage, Sound, TU, Exe
  <2> QED
    BY <2>3, <2>4, <2>5, <2>6 DEF Good
<1>9. CASE CheckNative(b)
  <2>1. /\ p'[b] = IF q.stamp.exe # None /\ q.stamp.deps = tool
                   THEN [q EXCEPT !.pc = "restoreTu", !.exe = q.stamp.exe, !.deps = q.stamp.deps]
                   ELSE [q EXCEPT !.pc = "restoreTu"]
        /\ impl' = impl /\ tool' = tool
    BY <1>1, <1>9 DEF CheckNative, Set, Go, world
  <2>2. Lookup(p[b])'
    BY <1>1, <1>2, <1>9, <2>1 DEF CheckNative, Good, Lookup, Returns, At, Shape,
       Processes, NoStage, Sound, TU, Exe
  <2>3. Build(p[b])'
    BY <1>1, <1>2, <1>9, <2>1 DEF CheckNative, Good, Build, Lookup, At, Shape, Processes,
       NoStage, Sound, TU, Exe
  <2>4. Returns(p[b])'
    BY <1>1, <1>2, <1>9, <2>1 DEF CheckNative, Good, Returns, Build, Lookup, Outputs, At,
       Shape, Processes, NoStage, Sound, TU, Exe
  <2>5. Outputs(p[b])'
    BY <1>1, <1>2, <1>9, <2>1 DEF CheckNative, Good, Outputs, Build, Returns, Lookup, At,
       Shape, Processes, NoStage, Sound, TU, Exe
  <2> QED
    BY <2>2, <2>3, <2>4, <2>5 DEF Good
<1>10. CASE RestoreTu(b)
  <2>1. /\ p'[b] = [q EXCEPT !.pc = IF q.exe # None THEN "restore" ELSE AfterRestore(q)]
        /\ impl' = impl /\ tool' = tool
    BY <1>1, <1>10 DEF RestoreTu, Set, Go, world
  <2>2. Lookup(p[b])'
    BY <1>1, <1>2, <1>10, <2>1 DEF RestoreTu, Good, Lookup, Returns, At, Shape, Processes,
       AfterRestore, NoStage, Sound, TU, Exe, Write
  <2>3. Build(p[b])'
    BY <1>1, <1>2, <1>10, <2>1 DEF RestoreTu, Good, Build, Lookup, At, Shape, Processes,
       AfterRestore, NoStage, Sound, TU, Exe, Write
  <2>4. Returns(p[b])'
    BY <1>1, <1>2, <1>10, <2>1 DEF RestoreTu, Good, Returns, Build, Lookup, Outputs, At,
       Shape, Processes, AfterRestore, NoStage, Sound, TU, Exe, Write
  <2>5. Outputs(p[b])'
    BY <1>1, <1>2, <1>10, <2>1 DEF RestoreTu, Good, Outputs, Build, Returns, Lookup, At,
       Shape, Processes, AfterRestore, NoStage, Sound, TU, Exe, Write
  <2> QED
    BY <2>2, <2>3, <2>4, <2>5 DEF Good
<1>11. CASE RestoreExe(b)
  <2>1. /\ p'[b] = [q EXCEPT !.pc = AfterRestore(q)]
        /\ impl' = impl /\ tool' = tool
    BY <1>1, <1>11 DEF RestoreExe, Set, Go, world
  <2>2. Lookup(p[b])'
    BY <1>1, <1>2, <1>11, <2>1 DEF RestoreExe, Good, Lookup, Returns, At, Shape,
       Processes, AfterRestore, NoStage, Sound, TU, Exe, Write
  <2>3. Build(p[b])'
    BY <1>1, <1>2, <1>11, <2>1 DEF RestoreExe, Good, Build, Lookup, At, Shape, Processes,
       AfterRestore, NoStage, Sound, TU, Exe, Write
  <2>4. Returns(p[b])'
    BY <1>1, <1>2, <1>11, <2>1 DEF RestoreExe, Good, Returns, Build, Lookup, Outputs, At,
       Shape, Processes, AfterRestore, NoStage, Sound, TU, Exe, Write
  <2>5. Outputs(p[b])'
    BY <1>1, <1>2, <1>11, <2>1 DEF RestoreExe, Good, Outputs, Build, Returns, Lookup, At,
       Shape, Processes, AfterRestore, NoStage, Sound, TU, Exe, Write
  <2> QED
    BY <2>2, <2>3, <2>4, <2>5 DEF Good
<1>12. CASE Reread(b)
  <2>1. /\ p'[b] = IF out.tu \in {None, Torn}
                   THEN [q EXCEPT !.pc = "failed"]
                   ELSE [q EXCEPT !.pc = "snapshot", !.tu = out.tu]
        /\ impl' = impl /\ tool' = tool
    BY <1>1, <1>12 DEF Reread, Set, Go, world
  <2>2. out.tu = TU(q.front, q.key) /\ out.tu \in TUs /\ out.tu \notin {None, Torn}
    <3>1. q.stamp \in Stamps /\ q.stamp.tu = TU(q.front, q.key) /\ out.tu = q.stamp.tu
    BY <1>1, <1>12 DEF Reread, At, Good, Lookup, Outputs, Shape, Sound, Processes
    <3>2. q.front \in [Files -> Contents] /\ q.key \in Impls
    BY <1>1, <1>12, <3>1 DEF Reread, At, Shape, Stamps, Processes
    <3> QED
      BY <3>1, <3>2, ExeCacheAssumption DEF TU, TUs
  <2>3. Lookup(p[b])'
    BY <1>1, <1>2, <1>12, <2>1, <2>2 DEF Reread, Good, Lookup, Returns, At, Shape,
       Processes, NoStage, Sound, TU, Exe
  <2>4. Build(p[b])'
    BY <1>1, <1>2, <1>12, <2>1, <2>2 DEF Reread, Good, Build, Lookup, At, Shape,
       Processes, NoStage, Sound, TU, Exe
  <2>5. Returns(p[b])'
    BY <1>1, <1>2, <1>12, <2>1, <2>2 DEF Reread, Good, Returns, Build, Lookup, Outputs,
       At, Shape, Processes, NoStage, Sound, TU, Exe
  <2>6. Outputs(p[b])'
    BY <1>1, <1>2, <1>12, <2>1, <2>2 DEF Reread, Good, Outputs, Build, Returns, Lookup,
       At, Shape, Processes, NoStage, Sound, TU, Exe
  <2> QED
    BY <2>3, <2>4, <2>5, <2>6 DEF Good
<1>13. ASSUME NEW f \in Files, FrontendRead(b, f)
      PROVE  Good(p[b])'
  <2>1. /\ p'[b] = [q EXCEPT !.front[f] = disk[f], !.stable = @ /\ q.front[f] = None]
        /\ impl' = impl /\ tool' = tool
    BY <1>1, <1>13 DEF FrontendRead, Set, Go, world
  <2>2. Lookup(p[b])'
    BY <1>1, <1>2, <1>13, <2>1 DEF FrontendRead, Good, Lookup, Returns, At, Shape,
       Processes, NoStage
  <2>3. Build(p[b])'
    BY <1>1, <1>2, <1>13, <2>1 DEF FrontendRead, Good, Build, Lookup, At, Shape,
       Processes, NoStage
  <2>4. Returns(p[b])'
    BY <1>1, <1>2, <1>13, <2>1 DEF FrontendRead, Good, Returns, Build, Lookup, Outputs,
       At, Shape, Processes, NoStage
  <2>5. Outputs(p[b])'
    BY <1>1, <1>2, <1>13, <2>1 DEF FrontendRead, Good, Outputs, Build, Returns, Lookup,
       At, Shape, Processes, NoStage
  <2> QED
    BY <2>2, <2>3, <2>4, <2>5 DEF Good
<1>14. CASE WriteTu(b)
  <2>1. /\ p'[b] = [q EXCEPT !.pc = "emit", !.tu = TU(q.front, q.code)]
        /\ impl' = impl /\ tool' = tool
    BY <1>1, <1>14 DEF WriteTu, Set, Go, world
  <2>2. Lookup(p[b])'
    BY <1>1, <1>2, <1>14, <2>1 DEF WriteTu, Good, Lookup, Returns, At, Shape, Processes,
       NoStage, Sound, TU, Exe, Write
  <2>3. Build(p[b])'
    BY <1>1, <1>2, <1>14, <2>1 DEF WriteTu, Good, Build, Lookup, At, Shape, Processes,
       NoStage, Sound, TU, Exe, Write
  <2>4. Returns(p[b])'
    BY <1>1, <1>2, <1>14, <2>1 DEF WriteTu, Good, Returns, Build, Lookup, Outputs, At,
       Shape, Processes, NoStage, Sound, TU, Exe, Write
  <2>5. Outputs(p[b])'
    BY <1>1, <1>2, <1>14, <2>1 DEF WriteTu, Good, Outputs, Build, Returns, Lookup, At,
       Shape, Processes, NoStage, Sound, TU, Exe, Write
  <2> QED
    BY <2>2, <2>3, <2>4, <2>5 DEF Good
<1>15. CASE WroteTu(b)
  <2>1. /\ p'[b] = [q EXCEPT !.pc = "snapshot"]
        /\ impl' = impl /\ tool' = tool
    BY <1>1, <1>15 DEF WroteTu, Set, Go, world
  <2>2. Lookup(p[b])'
    BY <1>1, <1>2, <1>15, <2>1 DEF WroteTu, Good, Lookup, Returns, At, Shape, Processes,
       NoStage, Write
  <2>3. Build(p[b])'
    BY <1>1, <1>2, <1>15, <2>1 DEF WroteTu, Good, Build, Lookup, At, Shape, Processes,
       NoStage, Write
  <2>4. Returns(p[b])'
    BY <1>1, <1>2, <1>15, <2>1 DEF WroteTu, Good, Returns, Build, Lookup, Outputs, At,
       Shape, Processes, NoStage, Write
  <2>5. Outputs(p[b])'
    BY <1>1, <1>2, <1>15, <2>1 DEF WroteTu, Good, Outputs, Build, Returns, Lookup, At,
       Shape, Processes, NoStage, Write
  <2> QED
    BY <2>2, <2>3, <2>4, <2>5 DEF Good
<1>16. CASE Snapshot(b)
  <2>1. /\ p'[b] = [q EXCEPT !.pc = "link", !.deps = tool]
        /\ impl' = impl /\ tool' = tool
    BY <1>1, <1>16 DEF Snapshot, Set, Go, world
  <2>2. Lookup(p[b])'
    BY <1>1, <1>2, <1>16, <2>1 DEF Snapshot, Good, Lookup, Returns, At, Shape, Processes,
       NoStage
  <2>3. Build(p[b])'
    BY <1>1, <1>2, <1>16, <2>1 DEF Snapshot, Good, Build, Lookup, At, Shape, Processes,
       NoStage
  <2>4. Returns(p[b])'
    BY <1>1, <1>2, <1>16, <2>1 DEF Snapshot, Good, Returns, Build, Lookup, Outputs, At,
       Shape, Processes, NoStage
  <2>5. Outputs(p[b])'
    BY <1>1, <1>2, <1>16, <2>1 DEF Snapshot, Good, Outputs, Build, Returns, Lookup, At,
       Shape, Processes, NoStage
  <2> QED
    BY <2>2, <2>3, <2>4, <2>5 DEF Good
<1>17. CASE Link(b)
  <2>1. /\ p'[b] = [q EXCEPT !.pc = "install", !.exe = Exe(q.tu, tool)]
        /\ impl' = impl /\ tool' = tool
    BY <1>1, <1>17 DEF Link, Set, Go, world
  <2>2. Lookup(p[b])'
    BY <1>1, <1>2, <1>17, <2>1 DEF Link, Good, Lookup, Returns, At, Shape, Processes,
       NoStage, Exe
  <2>3. Build(p[b])'
    BY <1>1, <1>2, <1>17, <2>1 DEF Link, Good, Build, Lookup, At, Shape, Processes,
       NoStage, Exe
  <2>4. Returns(p[b])'
    BY <1>1, <1>2, <1>17, <2>1 DEF Link, Good, Returns, Build, Lookup, Outputs, At, Shape,
       Processes, NoStage, Exe
  <2>5. Outputs(p[b])'
    BY <1>1, <1>2, <1>17, <2>1 DEF Link, Good, Outputs, Build, Returns, Lookup, At, Shape,
       Processes, NoStage, Exe
  <2> QED
    BY <2>2, <2>3, <2>4, <2>5 DEF Good
<1>18. CASE InstallExe(b)
  <2>1. /\ p'[b] = [q EXCEPT !.pc = "recheck"]
        /\ impl' = impl /\ tool' = tool
    BY <1>1, <1>18 DEF InstallExe, Set, Go, world
  <2>2. Lookup(p[b])'
    BY <1>1, <1>2, <1>18, <2>1 DEF InstallExe, Good, Lookup, Returns, At, Shape,
       Processes, NoStage, Write
  <2>3. Build(p[b])'
    BY <1>1, <1>2, <1>18, <2>1 DEF InstallExe, Good, Build, Lookup, At, Shape, Processes,
       NoStage, Write
  <2>4. Returns(p[b])'
    BY <1>1, <1>2, <1>18, <2>1 DEF InstallExe, Good, Returns, Build, Lookup, Outputs, At,
       Shape, Processes, NoStage, Write
  <2>5. Outputs(p[b])'
    BY <1>1, <1>2, <1>18, <2>1 DEF InstallExe, Good, Outputs, Build, Returns, Lookup, At,
       Shape, Processes, NoStage, Write
  <2> QED
    BY <2>2, <2>3, <2>4, <2>5 DEF Good
<1>19. CASE Verify(b)
  <2>1. /\ p'[b] = [q EXCEPT !.pc = IF q.front = disk THEN "putTu" ELSE "done"]
        /\ impl' = impl /\ tool' = tool
    BY <1>1, <1>19 DEF Verify, Set, Go, world
  <2>2. Lookup(p[b])'
    BY <1>1, <1>2, <1>19, <2>1 DEF Verify, Good, Lookup, Returns, At, Shape, Processes,
       NoStage
  <2>3. Build(p[b])'
    BY <1>1, <1>2, <1>19, <2>1 DEF Verify, Good, Build, Lookup, At, Shape, Processes,
       NoStage
  <2>4. Returns(p[b])'
    BY <1>1, <1>2, <1>19, <2>1 DEF Verify, Good, Returns, Build, Lookup, Outputs, At,
       Shape, Processes, NoStage
  <2>5. Outputs(p[b])'
    BY <1>1, <1>2, <1>19, <2>1 DEF Verify, Good, Outputs, Build, Returns, Lookup, At,
       Shape, Processes, NoStage
  <2> QED
    BY <2>2, <2>3, <2>4, <2>5 DEF Good
<1>20. CASE PutTu(b)
  <2>1. /\ p'[b] = [q EXCEPT !.pc = IF q.stage.exe = None THEN "putStamp" ELSE "putExe"]
        /\ impl' = impl /\ tool' = tool
    BY <1>1, <1>20 DEF PutTu, Set, Go, world
  <2>2. Lookup(p[b])'
    BY <1>1, <1>2, <1>20, <2>1 DEF PutTu, Good, Lookup, Returns, At, Shape, Processes,
       NoStage
  <2>3. Build(p[b])'
    BY <1>1, <1>2, <1>20, <2>1 DEF PutTu, Good, Build, Lookup, At, Shape, Processes,
       NoStage
  <2>4. Returns(p[b])'
    BY <1>1, <1>2, <1>20, <2>1 DEF PutTu, Good, Returns, Build, Lookup, Outputs, At,
       Shape, Processes, NoStage
  <2>5. Outputs(p[b])'
    BY <1>1, <1>2, <1>20, <2>1 DEF PutTu, Good, Outputs, Build, Returns, Lookup, At,
       Shape, Processes, NoStage
  <2> QED
    BY <2>2, <2>3, <2>4, <2>5 DEF Good
<1>21. CASE PutExe(b)
  <2>1. /\ p'[b] = [q EXCEPT !.pc = "putStamp"]
        /\ impl' = impl /\ tool' = tool
    BY <1>1, <1>21 DEF PutExe, Set, Go, world
  <2>2. Lookup(p[b])'
    BY <1>1, <1>2, <1>21, <2>1 DEF PutExe, Good, Lookup, Returns, At, Shape, Processes,
       NoStage
  <2>3. Build(p[b])'
    BY <1>1, <1>2, <1>21, <2>1 DEF PutExe, Good, Build, Lookup, At, Shape, Processes,
       NoStage
  <2>4. Returns(p[b])'
    BY <1>1, <1>2, <1>21, <2>1 DEF PutExe, Good, Returns, Build, Lookup, Outputs, At,
       Shape, Processes, NoStage
  <2>5. Outputs(p[b])'
    BY <1>1, <1>2, <1>21, <2>1 DEF PutExe, Good, Outputs, Build, Returns, Lookup, At,
       Shape, Processes, NoStage
  <2> QED
    BY <2>2, <2>3, <2>4, <2>5 DEF Good
<1>22. CASE PutStamp(b)
  <2>1. /\ p'[b] = [q EXCEPT !.pc = "putProof"]
        /\ impl' = impl /\ tool' = tool
    BY <1>1, <1>22 DEF PutStamp, Set, Go, world
  <2>2. Lookup(p[b])'
    BY <1>1, <1>2, <1>22, <2>1 DEF PutStamp, Good, Lookup, Returns, At, Shape, Processes,
       NoStage
  <2>3. Build(p[b])'
    BY <1>1, <1>2, <1>22, <2>1 DEF PutStamp, Good, Build, Lookup, At, Shape, Processes,
       NoStage
  <2>4. Returns(p[b])'
    BY <1>1, <1>2, <1>22, <2>1 DEF PutStamp, Good, Returns, Build, Lookup, Outputs, At,
       Shape, Processes, NoStage
  <2>5. Outputs(p[b])'
    BY <1>1, <1>2, <1>22, <2>1 DEF PutStamp, Good, Outputs, Build, Returns, Lookup, At,
       Shape, Processes, NoStage
  <2> QED
    BY <2>2, <2>3, <2>4, <2>5 DEF Good
<1>23. CASE PutProof(b)
  <2>1. /\ p'[b] = [q EXCEPT !.pc = "putRoute"]
        /\ impl' = impl /\ tool' = tool
    BY <1>1, <1>23 DEF PutProof, Set, Go, world
  <2>2. Lookup(p[b])'
    BY <1>1, <1>2, <1>23, <2>1 DEF PutProof, Good, Lookup, Returns, At, Shape, Processes,
       NoStage
  <2>3. Build(p[b])'
    BY <1>1, <1>2, <1>23, <2>1 DEF PutProof, Good, Build, Lookup, At, Shape, Processes,
       NoStage
  <2>4. Returns(p[b])'
    BY <1>1, <1>2, <1>23, <2>1 DEF PutProof, Good, Returns, Build, Lookup, Outputs, At,
       Shape, Processes, NoStage
  <2>5. Outputs(p[b])'
    BY <1>1, <1>2, <1>23, <2>1 DEF PutProof, Good, Outputs, Build, Returns, Lookup, At,
       Shape, Processes, NoStage
  <2> QED
    BY <2>2, <2>3, <2>4, <2>5 DEF Good
<1>24. CASE PutRoute(b)
  <2>1. /\ p'[b] = [q EXCEPT !.pc = IF q.exe = None THEN "reread" ELSE "done"]
        /\ impl' = impl /\ tool' = tool
    BY <1>1, <1>24 DEF PutRoute, Set, Go, world
  <2>2. Lookup(p[b])'
    BY <1>1, <1>2, <1>24, <2>1 DEF PutRoute, Good, Lookup, Returns, At, Shape, Processes,
       NoStage
  <2>3. Build(p[b])'
    BY <1>1, <1>2, <1>24, <2>1 DEF PutRoute, Good, Build, Lookup, At, Shape, Processes,
       NoStage
  <2>4. Returns(p[b])'
    BY <1>1, <1>2, <1>24, <2>1 DEF PutRoute, Good, Returns, Build, Lookup, Outputs, At,
       Shape, Processes, NoStage
  <2>5. Outputs(p[b])'
    BY <1>1, <1>2, <1>24, <2>1 DEF PutRoute, Good, Outputs, Build, Returns, Lookup, At,
       Shape, Processes, NoStage
  <2> QED
    BY <2>2, <2>3, <2>4, <2>5 DEF Good
<1>25. ASSUME NEW g \in {"tu", "exe"}, Stage(b, g)
      PROVE  Good(p[b])'
  <2> DEFINE st == [q.stage EXCEPT ![g] = out[g]]
  <2>1. /\ p'[b] = [q EXCEPT !.stage = st, !.todo = @ \ {g},
                             !.pc = IF q.todo = {g} THEN "verify" ELSE @]
        /\ impl' = impl /\ tool' = tool /\ out' = out
    BY <1>1, <1>25 DEF Stage, Set, world
  <2>2. /\ st.tu = IF g = "tu" THEN q.tu ELSE q.stage.tu
        /\ st.exe = IF g = "exe" THEN q.exe ELSE q.stage.exe
    BY <1>1, <1>25 DEF Stage, At, Processes, Good, Outputs
  <2>3. g \in q.todo
    BY <1>25 DEF Stage
  <2> HIDE DEF st
  <2>4. Lookup(p[b])'
    BY <1>1, <1>25, <2>1, <2>2, <2>3 DEF Good, Lookup, Stage, At, Shape, Processes,
       NoStage
  <2>5. Build(p[b])'
    BY <1>1, <1>25, <2>1, <2>2, <2>3 DEF Good, Build, Stage, At, Shape, Processes, NoStage
  <2>6. Returns(p[b])'
    BY <1>1, <1>25, <2>1, <2>2, <2>3 DEF Good, Returns, Stage, At, Shape, Processes,
       NoStage
  <2>7. Outputs(p[b])'
    BY <1>1, <1>25, <2>1, <2>2, <2>3 DEF Good, Outputs, Build, Stage, At, Shape,
       Processes, NoStage
  <2> QED
    BY <2>4, <2>5, <2>6, <2>7 DEF Good
<1>26. ASSUME NEW g \in {"tu", "exe"}, StageFails(b, g)
      PROVE  Good(p[b])'
  <2>1. /\ p'[b] = IF q.deps # 0 /\ q.stamp = None
                   THEN [q EXCEPT !.deps = 0, !.todo = {"tu"}, !.stage = Idle.stage]
                   ELSE [q EXCEPT !.pc = "done", !.todo = {}]
        /\ impl' = impl /\ tool' = tool
    BY <1>1, <1>26 DEF StageFails, Set, Go, world
  <2>2. Lookup(p[b])'
    BY <1>1, <1>2, <1>26, <2>1 DEF StageFails, Good, Lookup, Returns, At, Shape,
       Processes, Idle, NoStage
  <2>3. Build(p[b])'
    BY <1>1, <1>2, <1>26, <2>1 DEF StageFails, Good, Build, Lookup, At, Shape, Processes,
       Idle, NoStage
  <2>4. Returns(p[b])'
    BY <1>1, <1>2, <1>26, <2>1 DEF StageFails, Good, Returns, Build, Lookup, Outputs, At,
       Shape, Processes, Idle, NoStage
  <2>5. Outputs(p[b])'
    BY <1>1, <1>2, <1>26, <2>1 DEF StageFails, Good, Outputs, Build, Returns, Lookup, At,
       Shape, Processes, Idle, NoStage
  <2> QED
    BY <2>2, <2>3, <2>4, <2>5 DEF Good
<1>27. ASSUME NEW g \in {"tu", "exe"}, Fetch(b, g)
      PROVE  Good(p[b])'
  <2>1. /\ p'[b] = IF cache[q.key][g] # q.stamp[g] THEN Missed(b)
                   ELSE [q EXCEPT !.todo = @ \ {g}, !.pc = IF q.todo = {g} THEN "native" ELSE @]
        /\ impl' = impl /\ tool' = tool
    BY <1>1, <1>27 DEF Fetch, Set, Go, world
  <2>2. Lookup(p[b])'
    BY <1>1, <1>2, <1>27, <2>1 DEF Fetch, Good, Lookup, Returns, At, Shape, Processes,
       Missed, NoStage
  <2>3. Build(p[b])'
    BY <1>1, <1>2, <1>27, <2>1 DEF Fetch, Good, Build, Lookup, At, Shape, Processes,
       Missed, NoStage
  <2>4. Returns(p[b])'
    BY <1>1, <1>2, <1>27, <2>1 DEF Fetch, Good, Returns, Build, Lookup, Outputs, At,
       Shape, Processes, Missed, NoStage
  <2>5. Outputs(p[b])'
    BY <1>1, <1>2, <1>27, <2>1 DEF Fetch, Good, Outputs, Build, Returns, Lookup, At,
       Shape, Processes, Missed, NoStage
  <2> QED
    BY <2>2, <2>3, <2>4, <2>5 DEF Good
<1>28. ASSUME NEW keep \in BOOLEAN, Finish(b, keep)
      PROVE  Good(p[b])'
  <2>1. /\ p'[b] = Idle
        /\ impl' = impl /\ tool' = tool
    BY <1>1, <1>28 DEF Finish, Set, Go, world
  <2>2. Lookup(p[b])'
    BY <1>1, <1>2, <1>28, <2>1 DEF Finish, Good, Lookup, Returns, At, Shape, Processes,
       Idle, NoStage, Write
  <2>3. Build(p[b])'
    BY <1>1, <1>2, <1>28, <2>1 DEF Finish, Good, Build, Lookup, At, Shape, Processes,
       Idle, NoStage, Write
  <2>4. Returns(p[b])'
    BY <1>1, <1>2, <1>28, <2>1 DEF Finish, Good, Returns, Build, Lookup, Outputs, At,
       Shape, Processes, Idle, NoStage, Write
  <2>5. Outputs(p[b])'
    BY <1>1, <1>2, <1>28, <2>1 DEF Finish, Good, Outputs, Build, Returns, Lookup, At,
       Shape, Processes, Idle, NoStage, Write
  <2> QED
    BY <2>2, <2>3, <2>4, <2>5 DEF Good
<1>29. CASE Fail(b)
  <2>1. /\ p'[b] = Idle
        /\ impl' = impl /\ tool' = tool
    BY <1>1, <1>29 DEF Fail, Set, Go, world
  <2>2. Lookup(p[b])'
    BY <1>1, <1>2, <1>29, <2>1 DEF Fail, Good, Lookup, Returns, At, Shape, Processes,
       Idle, NoStage
  <2>3. Build(p[b])'
    BY <1>1, <1>2, <1>29, <2>1 DEF Fail, Good, Build, Lookup, At, Shape, Processes, Idle,
       NoStage
  <2>4. Returns(p[b])'
    BY <1>1, <1>2, <1>29, <2>1 DEF Fail, Good, Returns, Build, Lookup, Outputs, At, Shape,
       Processes, Idle, NoStage
  <2>5. Outputs(p[b])'
    BY <1>1, <1>2, <1>29, <2>1 DEF Fail, Good, Outputs, Build, Returns, Lookup, At, Shape,
       Processes, Idle, NoStage
  <2> QED
    BY <2>2, <2>3, <2>4, <2>5 DEF Good
<1>30. CASE Crash(b)
  <2>1. /\ p'[b] = Idle
        /\ impl' = impl /\ tool' = tool
    BY <1>1, <1>30 DEF Crash, Set, Go, world
  <2>2. Lookup(p[b])'
    BY <1>1, <1>2, <1>30, <2>1 DEF Crash, Good, Lookup, Returns, At, Shape, Processes,
       Idle, NoStage
  <2>3. Build(p[b])'
    BY <1>1, <1>2, <1>30, <2>1 DEF Crash, Good, Build, Lookup, At, Shape, Processes, Idle,
       NoStage
  <2>4. Returns(p[b])'
    BY <1>1, <1>2, <1>30, <2>1 DEF Crash, Good, Returns, Build, Lookup, Outputs, At,
       Shape, Processes, Idle, NoStage
  <2>5. Outputs(p[b])'
    BY <1>1, <1>2, <1>30, <2>1 DEF Crash, Good, Outputs, Build, Returns, Lookup, At,
       Shape, Processes, Idle, NoStage
  <2> QED
    BY <2>2, <2>3, <2>4, <2>5 DEF Good
<1>31. CASE RestoreFails(b)
  <2>1. /\ p'[b] = [[q EXCEPT !.exe = None, !.deps = 0] EXCEPT
                     !.pc = AfterRestore([q EXCEPT !.exe = None, !.deps = 0])]
        /\ impl' = impl /\ tool' = tool
    BY <1>1, <1>31 DEF RestoreFails, Set, Go, world
  <2>2. Lookup(p[b])'
    BY <1>1, <1>2, <1>31, <2>1 DEF RestoreFails, Good, Lookup, Returns, At, Shape,
       Processes, AfterRestore, NoStage, Sound, TU, Exe
  <2>3. Build(p[b])'
    BY <1>1, <1>2, <1>31, <2>1 DEF RestoreFails, Good, Build, Lookup, At, Shape,
       Processes, AfterRestore, NoStage, Sound, TU, Exe
  <2>4. Returns(p[b])'
    BY <1>1, <1>2, <1>31, <2>1 DEF RestoreFails, Good, Returns, Build, Lookup, Outputs,
       At, Shape, Processes, AfterRestore, NoStage, Sound, TU, Exe
  <2>5. Outputs(p[b])'
    BY <1>1, <1>2, <1>31, <2>1 DEF RestoreFails, Good, Outputs, Build, Returns, Lookup,
       At, Shape, Processes, AfterRestore, NoStage, Sound, TU, Exe
  <2> QED
    BY <2>2, <2>3, <2>4, <2>5 DEF Good
<1>32. CASE Recheck(b)
  <2> DEFINE held == q.deps = tool
             publishes == q.stable /\ (held \/ q.stamp = None)
             pc == IF publishes THEN "stage" ELSE "done"
             deps == IF held THEN q.deps ELSE 0
             todo == IF ~publishes THEN {} ELSE IF held THEN {"tu", "exe"} ELSE {"tu"}
  <2>1. /\ p'[b] = [q EXCEPT !.pc = pc, !.deps = deps, !.todo = todo]
        /\ impl' = impl /\ tool' = tool /\ out' = out
    BY <1>1, <1>32 DEF Recheck, Set, world
  <2>2. q.deps \in Nat /\ q.exe \in Exes /\ q.exe.tool \in Nat
    BY <1>1, <1>32 DEF Recheck, At, Shape, Processes, Exes, Tools
  <2>3. q.deps = tool => q.deps = q.exe.tool
    BY <1>1, <1>2, <1>32, <2>2 DEF Recheck, At, Good, Build
  <2>4. /\ pc \in {"stage", "done"} 
        /\ "exe" \in todo => deps = q.exe.tool
    BY <2>3
  <2> HIDE DEF publishes, held, pc, deps, todo
  <2>5. Lookup(p[b])'
    BY <1>1, <1>32, <2>1, <2>4 DEF Good, Lookup, Recheck, At, Shape, Processes, NoStage
  <2>6. Build(p[b])'
    BY <1>1, <1>32, <2>1, <2>4 DEF Good, Build, Recheck, At, Shape, Processes, NoStage
  <2>7. Returns(p[b])'
    BY <1>1, <1>32, <2>1, <2>4 DEF Good, Returns, Build, Recheck, At, Shape, Processes,
       NoStage
  <2>8. Outputs(p[b])'
    BY <1>1, <1>32, <2>1, <2>4 DEF Good, Outputs, Build, Recheck, At, Shape, Processes,
       NoStage
  <2> QED
    BY <2>5, <2>6, <2>7, <2>8 DEF Good
<1> QED
  BY <1>3, <1>4, <1>5, <1>6, <1>7, <1>8, <1>9, <1>10, <1>11, <1>12, <1>13, <1>14, <1>15,
     <1>16, <1>17, <1>18, <1>19, <1>20, <1>21, <1>22, <1>23, <1>24, <1>25, <1>26, <1>27,
     <1>28, <1>29, <1>30, <1>31, <1>32 DEF Step

(* Every step keeps the stamps in the cache sound: only PutStamp writes     *)
(* one, of a process whose private copies are those of its own build.      *)
LEMMA StampsKept ==
  ASSUME TypeInv, Right, NEW b \in Procs, Step(b), NEW k \in Impls, cache'[k].stamp # None
  PROVE  Sound(cache'[k].stamp, k)
<1>1. /\ cache \in [Impls -> [tu : TUs \cup {None, Torn}, exe : Exes \cup {None},
                              stamp : Stamps \cup {None}]]
      /\ p[b] \in Processes /\ Shape(p[b])
  BY DEF TypeInv, TypeOK, Shapes
<1>2. CASE PutStamp(b)
  <2>1. p[b].key \in Impls
    BY <1>1, <1>2 DEF PutStamp, At, Shape, Keyed, PCs
  <2>2. Sound(StampOf(p[b]), p[b].key)
    <3>1. /\ p[b].stage.tu = TU(p[b].front, p[b].key)
          /\ p[b].stage.exe # None =>
                p[b].stage.exe = p[b].exe /\ p[b].exe.tu = p[b].tu /\ p[b].deps = p[b].exe.tool
      BY <1>1, <1>2 DEF PutStamp, At, Right, Build, Building, Publishing, Shape, Processes
    <3>2. p[b].exe # None => p[b].exe = Exe(p[b].exe.tu, p[b].exe.tool)
      BY <1>1 DEF Processes, Exes, Exe
    <3>3. p[b].tu = TU(p[b].front, p[b].key)
      BY <1>2 DEF PutStamp, At, Right, Build, Building
    <3> QED
      BY <3>1, <3>2, <3>3 DEF Sound, StampOf
  <2>3. cache'[k].stamp = IF k = p[b].key THEN StampOf(p[b]) ELSE cache[k].stamp
    <3>1. cache' = [cache EXCEPT ![p[b].key] = [cache[p[b].key] EXCEPT !.stamp = StampOf(p[b])]]
      BY <1>2 DEF PutStamp
    <3> QED
      BY <1>1, <2>1, <3>1
  <2> QED
    BY <2>2, <2>3 DEF Right
<1>3. CASE PutTu(b)
  <2>1. cache' = [cache EXCEPT ![p[b].key] = [cache[p[b].key] EXCEPT !.tu = p[b].stage.tu]]
    BY <1>3 DEF PutTu
  <2>2. cache'[k].stamp = cache[k].stamp
    BY <1>1, <2>1
  <2> QED
    BY <2>2 DEF Right
<1>4. CASE PutExe(b)
  <2>1. cache' = [cache EXCEPT ![p[b].key] = [cache[p[b].key] EXCEPT !.exe = p[b].stage.exe]]
    BY <1>4 DEF PutExe
  <2>2. cache'[k].stamp = cache[k].stamp
    BY <1>1, <2>1
  <2> QED
    BY <2>2 DEF Right
<1>5. CASE cache' = cache
  BY <1>5 DEF Right
<1>6. PutStamp(b) \/ PutTu(b) \/ PutExe(b) \/ cache' = cache
  BY DEF Step, Start, ReadRoute, ReadProof, Load, Identify, ReadStamp, CheckNative,
     RestoreTu, RestoreExe, RestoreFails, Reread, WriteTu, WroteTu, Snapshot, Link,
     InstallExe, Recheck, Verify, PutProof, PutRoute, Fail, Crash, FrontendRead, Fetch,
     Stage, StageFails, Finish, entries
<1> QED
  BY <1>2, <1>3, <1>4, <1>5, <1>6

(* So do edits, updates, upgrades and prunes; an upgrade that falls between *)
(* loading and hashing the compiler is a clash.                            *)
LEMMA WorldKeeps ==
  ASSUME TypeInv, Right, ~clash, ~clash',
         UNCHANGED vars \/ UpdateTool \/ Upgrade \/ PruneRoute
           \/ (\E f \in Files, c \in Contents : Edit(f, c))
           \/ (\E k \in Impls, f \in {"tu", "exe", "stamp"} : PruneEntry(k, f))
  PROVE  Right'
<1>1. /\ tool \in Nat /\ impl \in Nat /\ p \in [Procs -> Processes]
      /\ cache \in [Impls -> [tu : TUs \cup {None, Torn}, exe : Exes \cup {None},
                              stamp : Stamps \cup {None}]]
  BY DEF TypeInv, TypeOK, Tools, Impls
<1>2. p' = p /\ out' = out
  BY AroundWorld DEF vars, UpdateTool, Upgrade, PruneRoute, Edit, PruneEntry
<1>3. tool' \in {tool, tool + 1}
  BY DEF vars, UpdateTool, Upgrade, PruneRoute, Edit, PruneEntry, world
<1>4. impl' = impl \/ \A b \in Procs : ~At(b, "identify")
  BY DEF vars, UpdateTool, Upgrade, PruneRoute, Edit, PruneEntry, world
<1>5. \A k \in Impls : cache'[k].stamp # None => Sound(cache'[k].stamp, k)
  <2>1. ASSUME NEW k \in Impls, NEW f \in {"tu", "exe", "stamp"}, PruneEntry(k, f)
        PROVE  \A j \in Impls : cache'[j].stamp \in {cache[j].stamp, None}
    <3>1. cache' = [cache EXCEPT ![k] = [cache[k] EXCEPT ![f] = None]]
      BY <2>1 DEF PruneEntry
    <3> QED
      BY <1>1, <3>1
  <2>2. \A j \in Impls : cache'[j].stamp \in {cache[j].stamp, None}
    BY <2>1 DEF vars, UpdateTool, Upgrade, PruneRoute, Edit, entries
  <2> QED
    BY <2>2 DEF Right
<1>6. ASSUME NEW b \in Procs
      PROVE  Good(p[b])'
  <2>1. p'[b] = p[b] /\ Good(p[b]) /\ p[b] \in Processes /\ Shape(p[b])
    BY <1>1, <1>2 DEF Right, Good, TypeInv, Shapes
  <2>2. Lookup(p[b])'
    BY <1>4, <2>1 DEF Good, Lookup, At
  <2>3. Build(p[b])'
    <3>1. /\ p[b].deps <= tool => p[b].deps <= tool'
          /\ p[b].exe # None /\ p[b].exe.tool <= tool => p[b].exe.tool <= tool'
      BY <1>1, <1>3, <2>1 DEF Processes, Tools, Exes
    <3> QED
      BY <2>1, <3>1 DEF Good, Build, Shape
  <2>4. Returns(p[b])' /\ Outputs(p[b])'
    BY <1>2, <2>1 DEF Good, Returns, Outputs
  <2> QED
    BY <2>2, <2>3, <2>4 DEF Good
<1> QED
  BY <1>5, <1>6 DEF Right, Good

(* RightInv is inductive relative to TypeInv.                              *)
LEMMA RightStep == TypeInv /\ RightInv /\ [Next]_vars => RightInv'
<1> SUFFICES ASSUME TypeInv, RightInv, [Next]_vars, ~clash' PROVE Right'
  BY DEF RightInv
<1>1. ASSUME NEW b \in Procs, Step(b)
      PROVE  Right'
  <2>1. ~clash /\ Right
    BY <1>1, OutKept DEF RightInv
  <2>2. ASSUME NEW c \in Procs
        PROVE  Good(p[c])'
    <3>1. CASE c = b
      BY <1>1, <2>1, <3>1, OwnKeeps
    <3>2. CASE c # b
      BY <1>1, <2>1, <3>2, OthersKeep
    <3> QED
      BY <3>1, <3>2
  <2>3. \A k \in Impls : cache'[k].stamp # None => Sound(cache'[k].stamp, k)
    BY <1>1, <2>1, StampsKept
  <2> QED
    BY <2>2, <2>3 DEF Right, Good
<1>2. CASE UNCHANGED vars \/ UpdateTool \/ Upgrade \/ PruneRoute
           \/ (\E f \in Files, c \in Contents : Edit(f, c))
           \/ (\E k \in Impls, f \in {"tu", "exe", "stamp"} : PruneEntry(k, f))
  <2>1. ~clash
    BY <1>2 DEF vars, UpdateTool, Upgrade, PruneRoute, Edit, PruneEntry
  <2> QED
    BY <1>2, <2>1, WorldKeeps DEF RightInv
<1> QED
  BY <1>1, <1>2 DEF Next

(* It holds before the first step.                                         *)
LEMMA RightInit == Init => RightInv
<1> SUFFICES ASSUME Init PROVE Right
  BY DEF RightInv
<1>1. \A k \in Impls : cache[k].stamp = None
  BY DEF Init, Empty
<1>2. Lookup(Idle) /\ Build(Idle) /\ Returns(Idle) /\ Outputs(Idle)
  BY DEF Idle, Lookup, Build, Returns, Outputs, NoStage, Keyed, PCs, Building, Publishing,
     Releasing
<1>3. \A b \in Procs : p[b] = Idle
  BY DEF Init
<1> QED
  BY <1>1, <1>2, <1>3 DEF Right

-------------------------------------------------------------------------------
(* A process that started after the last complete publication gets its     *)
(* executable from the cache, whichever way it looks it up.                *)
LEMMA WarmOwn ==
  ASSUME TypeInv, WarmInv, NEW b \in Procs, b \in warm, b # None, Step(b), b \in warm'
  PROVE  OnTheWay(p[b])'
<1> DEFINE q == p[b]
           e == cache[impl]
<1> USE DEF At
<1>1. /\ q \in Processes /\ Shape(q) /\ p \in [Procs -> Processes] /\ impl \in Impls
      /\ e \in [tu : TUs \cup {None, Torn}, exe : Exes \cup {None}, stamp : Stamps \cup {None}]
  BY DEF TypeInv, TypeOK, Shapes
<1>2. OnTheWay(q) /\ Intact
  BY DEF WarmInv
<1>3. CASE ReadRoute(b)
  BY <1>1, <1>2, <1>3 DEF ReadRoute, Set, OnTheWay, entries, world, Processes
<1>4. CASE ReadProof(b)
  BY <1>1, <1>2, <1>4 DEF ReadProof, Set, OnTheWay, entries, world, Processes
<1>5. CASE Load(b)
  BY <1>1, <1>2, <1>5 DEF Load, Set, OnTheWay, entries, world, Processes, Idle
<1>6. CASE Identify(b)
  BY <1>1, <1>2, <1>6 DEF Identify, Set, OnTheWay, entries, world, Processes
<1>7. CASE ReadStamp(b)
  <2>1. q.key = impl /\ e.stamp # None /\ e.stamp.front = disk
    BY <1>2, <1>7 DEF ReadStamp, OnTheWay, Intact
  <2>2. p'[b].pc = "fetch" /\ p'[b].key = impl /\ p'[b].stamp = e.stamp
    BY <1>1, <1>7, <2>1 DEF ReadStamp, Set, Processes
  <2> QED
    BY <1>7, <2>2 DEF ReadStamp, OnTheWay, entries, world
<1>8. ASSUME NEW f \in {"tu", "exe"}, Fetch(b, f)
      PROVE  OnTheWay(p[b])'
  <2>1. q.key = impl /\ q.stamp = e.stamp /\ e[f] = e.stamp[f]
    BY <1>2, <1>8 DEF Fetch, OnTheWay, Intact
  <2>2. p'[b].pc \in {"fetch", "native"} /\ p'[b].key = impl /\ p'[b].stamp = e.stamp
    BY <1>1, <1>8, <2>1 DEF Fetch, Set, Processes
  <2> QED
    BY <1>8, <2>2 DEF Fetch, OnTheWay, entries, world
<1>9. CASE CheckNative(b)
  <2>1. q.stamp = e.stamp /\ e.stamp.exe # None /\ e.stamp.deps = tool
    BY <1>2, <1>9 DEF CheckNative, OnTheWay, Intact
  <2>2. p'[b].pc = "restoreTu" /\ p'[b].exe # None
    BY <1>1, <1>9, <2>1 DEF CheckNative, Set, Processes
  <2> QED
    BY <2>2 DEF OnTheWay
<1>10. CASE RestoreTu(b)
  BY <1>1, <1>2, <1>10 DEF RestoreTu, Set, Go, OnTheWay, Processes
<1>11. CASE RestoreExe(b)
  BY <1>1, <1>2, <1>11 DEF RestoreExe, AfterRestore, Set, Go, OnTheWay, Processes
<1>12. CASE PutProof(b)
  BY <1>1, <1>2, <1>12 DEF PutProof, Set, Go, OnTheWay, Processes
<1>13. CASE PutRoute(b)
  BY <1>1, <1>2, <1>13 DEF PutRoute, Set, Go, OnTheWay, Processes
<1>14. \/ ReadRoute(b) \/ ReadProof(b) \/ Load(b) \/ Identify(b) \/ ReadStamp(b)
       \/ (\E f \in {"tu", "exe"} : Fetch(b, f)) \/ CheckNative(b) \/ RestoreTu(b)
       \/ RestoreExe(b) \/ PutProof(b) \/ PutRoute(b)
  BY <1>2 DEF OnTheWay, Step, Start, RestoreFails, Reread, WriteTu, WroteTu, Snapshot,
     Link, InstallExe, Recheck, Verify, PutTu, PutExe, PutStamp, Fail, Crash,
     FrontendRead, Stage, StageFails, Finish
<1> QED
  BY <1>3, <1>4, <1>5, <1>6, <1>7, <1>8, <1>9, <1>10, <1>11, <1>12, <1>13, <1>14

(* WarmInv is inductive relative to TypeInv.                               *)
LEMMA WarmStep == TypeInv /\ WarmInv /\ [Next]_vars => WarmInv'
<1> SUFFICES ASSUME TypeInv, WarmInv, [Next]_vars PROVE WarmInv'
  OBVIOUS
<1>1. CASE warm' = {}
  BY <1>1 DEF WarmInv
<1>2. ASSUME NEW b \in Procs, Step(b), ~PutStamp(b), UNCHANGED <<disk, tool, impl, cache>>
      PROVE  WarmInv'
  <2>1. \A c \in Procs \ {b} : p'[c] = p[c]
    BY <1>2, ProcStep DEF Fits, TypeInv, TypeOK
  <2>2. Intact' <=> Intact
    BY <1>2 DEF Intact
  <2>3. CASE Start(b)
    <3>1. p'[b].pc = "route"
      BY <2>3 DEF Start, Go, Set, TypeInv, TypeOK, Processes
    <3>2. warm' \subseteq warm \cup {b} /\ (None \in warm' <=> None \in warm)
          /\ (warm' # {} => warm # {})
      BY <2>3, ExeCacheAssumption DEF Start
    <3>3. ASSUME NEW c \in warm' \ {None}
          PROVE  OnTheWay(p[c])'
      <4>1. CASE c = b
        BY <3>1, <4>1 DEF OnTheWay
      <4>2. CASE c # b
        BY <1>2, <2>1, <3>2, <3>3, <4>2 DEF OnTheWay, WarmInv, TypeInv, TypeOK
      <4> QED
        BY <4>1, <4>2
    <3> QED
      BY <2>2, <3>2, <3>3 DEF WarmInv
  <2>4. CASE warm' \in {warm, warm \ {b}}
    <3>1. None \in warm' <=> None \in warm
      BY <2>4, ExeCacheAssumption
    <3>2. ASSUME NEW c \in warm' \ {None}
          PROVE  OnTheWay(p[c])'
      <4>1. CASE c = b
        BY <1>2, <2>4, <3>2, <4>1, WarmOwn
      <4>2. CASE c # b
        BY <1>2, <2>1, <2>4, <3>2, <4>2 DEF OnTheWay, WarmInv, TypeInv, TypeOK
      <4> QED
        BY <4>1, <4>2
    <3> QED
      BY <2>2, <2>4, <3>1, <3>2 DEF WarmInv
  <2>5. Start(b) \/ warm' \in {warm, warm \ {b}} \/ warm' = {}
    BY <1>2 DEF Step, ReadRoute, ReadProof, Load, Identify, ReadStamp, CheckNative,
       RestoreTu, RestoreExe, RestoreFails, Reread, WriteTu, WroteTu, Snapshot, Link,
       InstallExe, Recheck, Verify, PutTu, PutExe, PutProof, PutRoute, Fail, Crash,
       FrontendRead, Fetch, Stage, StageFails, Finish
  <2> QED
    BY <1>1, <2>3, <2>4, <2>5
<1>3. ASSUME NEW b \in Procs, PutStamp(b), warm' # {}
      PROVE  WarmInv'
  <2> DEFINE q == p[b]
  <2>1. /\ q.front = disk /\ q.key = impl /\ q.stage.exe # None /\ q.deps = tool
        /\ cache[impl].tu = q.stage.tu /\ cache[impl].exe = q.stage.exe /\ warm' = {None}
    BY <1>3 DEF PutStamp, Current
  <2>2. impl \in Impls /\ impl' = impl /\ disk' = disk /\ tool' = tool
    BY <1>3 DEF PutStamp, world, TypeInv, TypeOK
  <2>3. /\ cache'[impl].stamp = StampOf(q)
        /\ cache'[impl].tu = cache[impl].tu /\ cache'[impl].exe = cache[impl].exe
    <3>1. cache' = [cache EXCEPT ![impl] = [cache[impl] EXCEPT !.stamp = StampOf(q)]]
      BY <1>3, <2>1 DEF PutStamp
    <3> QED
      BY <2>2, <3>1 DEF TypeInv, TypeOK
  <2>4. StampOf(q) # None
    <3>1. StampOf(q) \in Stamps
      BY <1>3 DEF PutStamp, Processes, At, Shape, Shapes, Publishing, Building, StampOf,
         Stamps, TypeInv, TypeOK
    <3> QED
      BY <3>1, ExeCacheAssumption
  <2>5. Intact'
    BY <2>1, <2>2, <2>3, <2>4 DEF Intact, StampOf
  <2> QED
    BY <2>1, <2>5 DEF WarmInv
<1>4. ASSUME NEW b \in Procs, Step(b), ~PutStamp(b), warm' # {}
      PROVE  WarmInv'
  <2>1. UNCHANGED <<disk, tool, impl, cache>>
    BY <1>4 DEF Step, Start, ReadRoute, ReadProof, Load, Identify, ReadStamp, CheckNative,
       RestoreTu, RestoreExe, RestoreFails, Reread, WriteTu, WroteTu, Snapshot, Link,
       InstallExe, Recheck, Verify, PutTu, PutExe, PutProof, PutRoute, Fail, Crash,
       FrontendRead, Fetch, Stage, StageFails, Finish, world, entries
  <2> QED
    BY <1>2, <1>4, <2>1
<1>5. CASE PruneRoute \/ UNCHANGED vars
  BY <1>5 DEF PruneRoute, vars, world, WarmInv, Intact, OnTheWay
<1>6. CASE UpdateTool \/ Upgrade \/ (\E f \in Files, c \in Contents : Edit(f, c))
           \/ (\E k \in Impls, f \in {"tu", "exe", "stamp"} : PruneEntry(k, f))
  <2>1. warm' = {}
    BY <1>6 DEF UpdateTool, Upgrade, Edit, PruneEntry
  <2> QED
    BY <1>1, <2>1
<1> QED
  BY <1>1, <1>3, <1>4, <1>5, <1>6 DEF Next

-------------------------------------------------------------------------------
(* The types, and the shape of a process at each of its steps, hold in      *)
(* every reachable state: a stamp never lacks its translation unit, a      *)
(* process that publishes has the copies it publishes, and no executable   *)
(* is linked from a torn file, even while processes overwrite each other's *)
(* outputs.                                                                *)
THEOREM TypeCorrect == Spec => []TypeOK
<1>1. TypeInv => TypeOK
  BY DEF TypeInv
<1> QED
  BY <1>1, TypeInvInit, TypeInvStep, PTL DEF Spec

(* As long as no process writes outputs that another one uses, and no       *)
(* upgrade falls between loading and hashing the compiler, a hit returns    *)
(* the executable of the sources, compiler and tools its lookup validated:  *)
(* for any number of processes, and edits, updates, upgrades, prunes and    *)
(* crashes at any moment.                                                  *)
THEOREM AloneIsAlwaysRight == Spec => []AloneIsRight
<1>1. TypeInv /\ RightInv => AloneIsRight
  <2> SUFFICES ASSUME TypeInv, Right PROVE AloneIsRight
    BY DEF RightInv, AloneIsRight
  <2>1. HitsAreCurrent
    BY DEF Right, Returns, Releasing, HitsAreCurrent, Hit, At
  <2>2. \A b \in Procs : ~At(b, "failed") /\ (At(b, "done") => out.exe = p[b].exe)
    BY DEF Right, Returns, Outputs, Releasing, At
  <2> QED
    BY <2>1, <2>2 DEF AloneIsRight
<1> QED
  BY <1>1, TypeInvInit, TypeInvStep, RightInit, RightStep, PTL DEF Spec

(* While the last complete publication is intact, no process that started   *)
(* after it compiles or relinks, also when the route or its proof was       *)
(* evicted and whatever the other processes do with the outputs.           *)
THEOREM RepeatsAlwaysHit == Spec => []RepeatHits
<1>1. Init => WarmInv
  BY DEF Init, WarmInv
<1>2. WarmInv => RepeatHits
  BY DEF WarmInv, RepeatHits, OnTheWay
<1> QED
  BY <1>1, <1>2, TypeInvInit, TypeInvStep, WarmStep, PTL DEF Spec
===============================================================================
