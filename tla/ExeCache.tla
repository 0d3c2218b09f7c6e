------------------------------- MODULE ExeCache -------------------------------
(***************************************************************************)
(* The early executable cache: processes that build the same program with  *)
(* the same options into the same output paths, share one cache root, and  *)
(* run while sources, toolchain and compiler change on disk.               *)
(*                                                                         *)
(* A process follows the route file to a cached executable (bootstrap.ts), *)
(* loads the compiler when that fails, looks the program up once more,     *)
(* restores or relinks what it finds, or else compiles; then it publishes  *)
(* (executable-cache.ts, index.ts, linker.ts: the runtime-pack route).     *)
(* Every await is a step boundary.  A file's bytes stand for their digest. *)
(* The optional IR travels with the translation unit and is left out.      *)
(***************************************************************************)
EXTENDS Naturals, FiniteSets

CONSTANTS
  Procs,     \* processes, each runs one invocation after the other
  Files,     \* the files a frontend probes
  Contents,  \* what a probe may find; one of them may mean "missing"
  Budget,    \* bound on each kind of event: see Kinds
  Torn,      \* the bytes of a file whose writeFile() is not over
  None       \* no file

(* Invocations; changes of the world around them, of each kind and in all. *)
Kinds == {"run", "edit", "tool", "upgrade", "prune", "crash", "fail", "all"}

Impls == 1..(Budget["upgrade"] + 1)
Tools == 1..(Budget["tool"] + 1)

(* Translation units, executables and stamps, as types.                    *)
TUs == [src : [Files -> Contents], impl : Impls]
Exes == [tu : TUs, tool : Tools]
Stamps == [front : [Files -> Contents], tu : TUs \cup {Torn},
           exe : Exes \cup {None}, deps : {0} \cup Tools]

ASSUME ExeCacheAssumption ==
  /\ Budget \in [Kinds -> Nat]
  /\ Files # {} /\ Contents # {}
  /\ None \notin Contents \cup Procs \cup TUs \cup Exes \cup Stamps
  /\ Torn \notin TUs \cup {None}

VARIABLES
  disk,    \* disk[f]: content of a source file
  tool,    \* identity of linker, helper and runtime pack; grows
  impl,    \* digest of the compiler's own files; grows
  out,     \* the outputs: out.tu (cPath) and out.exe (outPath)
  cache,   \* cache[k]: early-exe directory of the entry for implementation k
  proofs,  \* implementations that have a proof file
  route,   \* implementation named by the route file, 0 if there is none
  p,       \* p[b]: process b
  left,    \* left[kind]: how many events of this kind may still happen
  clash,   \* history: outputs or compiler changed under a process using them
  warm     \* history: None if the last publication is intact; processes
           \* that started since

vars == <<disk, tool, impl, out, cache, proofs, route, p, left, clash, warm>>

TU(src, i) == [src |-> src, impl |-> i]
Exe(tu, t) == [tu |-> tu, tool |-> t]
Unread == [f \in Files |-> None]
Empty == [tu |-> None, exe |-> None, stamp |-> None]

(* A process: `front` is the snapshot of its frontend or of the stamp it   *)
(* found, `deps` the native dependencies, 0 when none are vouched for.     *)
Idle == [pc |-> "idle", code |-> 0, key |-> 0, routed |-> FALSE,
         front |-> Unread, stable |-> TRUE, stamp |-> None,
         tu |-> None, exe |-> None, deps |-> 0,
         todo |-> {}, stage |-> [tu |-> None, exe |-> None]]

Init ==
  /\ disk \in [Files -> Contents]
  /\ tool = 1 /\ impl = 1
  /\ out = [tu |-> None, exe |-> None]
  /\ cache = [k \in Impls |-> Empty]
  /\ proofs = {} /\ route = 0
  /\ p = [b \in Procs |-> Idle]
  /\ left = Budget
  /\ clash = FALSE /\ warm = {}

----------------------------------------------------------------------------
At(b, pc) == p[b].pc = pc
Set(b, q) == p' = [p EXCEPT ![b] = q]
Go(b, pc) == Set(b, [p[b] EXCEPT !.pc = pc])
Spend(kind) ==
  /\ left[kind] > 0 /\ left["all"] > 0
  /\ left' = [left EXCEPT ![kind] = @ - 1, !["all"] = @ - 1]

world   == <<disk, tool, impl>>
entries == <<cache, proofs, route>>

(* Between its first write to the outputs and its end a process relies on  *)
(* them.                                                                   *)
Using(b) == p[b].pc \notin {"idle", "route", "proof", "load", "identify", "stamp",
                            "fetch", "native", "restoreTu", "frontend"}
Write(b, f, bytes) ==
  /\ out' = [out EXCEPT ![f] = bytes]
  /\ clash' = (clash \/ (out[f] # bytes /\ \E q \in Procs \ {b} : Using(q)))

----------------------------------------------------------------------------
(* readRoutedExecutableCache: the route names an implementation, whose     *)
(* proof must match the compiler on disk.                                  *)
Start(b) ==
  /\ At(b, "idle") /\ left["run"] > 0
  /\ left' = [left EXCEPT !["run"] = @ - 1]
  /\ Go(b, "route")
  /\ warm' = IF None \in warm THEN warm \cup {b} ELSE warm
  /\ UNCHANGED <<world, out, entries, clash>>

ReadRoute(b) ==
  /\ At(b, "route")
  /\ Set(b, IF route = 0 THEN [p[b] EXCEPT !.pc = "load"]
                         ELSE [p[b] EXCEPT !.pc = "proof", !.key = route])
  /\ UNCHANGED <<world, out, entries, left, clash, warm>>

ReadProof(b) ==
  /\ At(b, "proof")
  /\ Set(b, IF p[b].key \in proofs /\ impl = p[b].key
            THEN [p[b] EXCEPT !.pc = "stamp", !.routed = TRUE]
            ELSE [p[b] EXCEPT !.pc = "load"])
  /\ UNCHANGED <<world, out, entries, left, clash, warm>>

(* The compiler is loaded, and hashes its own files afterwards.            *)
Load(b) ==
  /\ At(b, "load")
  /\ Set(b, [Idle EXCEPT !.pc = "identify", !.code = impl])
  /\ UNCHANGED <<world, out, entries, left, clash, warm>>

Identify(b) ==
  /\ At(b, "identify")
  /\ Set(b, [p[b] EXCEPT !.pc = "stamp", !.key = impl])
  /\ UNCHANGED <<world, out, entries, left, clash, warm>>

----------------------------------------------------------------------------
(* readEarlyExecutableCache.  A routed lookup that restores no executable  *)
(* goes on to the full compiler.                                           *)
Missed(b) == [p[b] EXCEPT !.pc = IF p[b].routed THEN "load" ELSE "frontend",
                          !.stamp = None, !.front = Unread, !.deps = 0, !.todo = {}]

ReadStamp(b) ==
  /\ At(b, "stamp")
  /\ LET s == cache[p[b].key].stamp IN
     Set(b, IF s # None /\ s.front = disk
            THEN [p[b] EXCEPT !.pc = "fetch", !.stamp = s, !.front = s.front,
                              !.todo = {"tu"} \cup (IF s.exe = None THEN {} ELSE {"exe"})]
            ELSE Missed(b))
  /\ UNCHANGED <<world, out, entries, left, clash, warm>>

Fetch(b, f) ==
  /\ At(b, "fetch") /\ f \in p[b].todo
  /\ Set(b, IF cache[p[b].key][f] # p[b].stamp[f]
            THEN Missed(b)
            ELSE [p[b] EXCEPT !.todo = @ \ {f},
                              !.pc = IF p[b].todo = {f} THEN "native" ELSE @])
  /\ UNCHANGED <<world, out, entries, left, clash, warm>>

(* The dependencies are compared twice; identities never come back, so the *)
(* second comparison decides.                                              *)
CheckNative(b) ==
  /\ At(b, "native")
  /\ LET s == p[b].stamp IN
     Set(b, IF s.exe # None /\ s.deps = tool
            THEN [p[b] EXCEPT !.pc = "restoreTu", !.exe = s.exe, !.deps = s.deps]
            ELSE [p[b] EXCEPT !.pc = "restoreTu"])
  /\ UNCHANGED <<world, out, entries, left, clash, warm>>

AfterRestore(q) == IF ~q.routed THEN "putProof" ELSE IF q.exe = None THEN "load" ELSE "done"

RestoreTu(b) ==
  /\ At(b, "restoreTu")
  /\ Write(b, "tu", p[b].stamp.tu)
  /\ Go(b, IF p[b].exe # None THEN "restore" ELSE AfterRestore(p[b]))
  /\ UNCHANGED <<world, entries, left, warm>>

RestoreExe(b) ==
  /\ At(b, "restore")
  /\ Write(b, "exe", p[b].exe)
  /\ Go(b, AfterRestore(p[b]))
  /\ UNCHANGED <<world, entries, left, warm>>

(* The executable cannot be replaced: only the translation unit counts.    *)
RestoreFails(b) ==
  /\ At(b, "restore") /\ Spend("fail")
  /\ LET q == [p[b] EXCEPT !.exe = None, !.deps = 0] IN
     Set(b, [q EXCEPT !.pc = AfterRestore(q)])
  /\ warm' = {}
  /\ UNCHANGED <<world, out, entries, clash>>

(* A hit without an executable compiles the file at cPath.                 *)
RereadTorn(b) ==  \* Mutant: a file still being written is taken for a translation unit.
  /\ At(b, "reread")
  /\ Set(b, IF out.tu = None THEN [p[b] EXCEPT !.pc = "failed"]
            ELSE [p[b] EXCEPT !.pc = "snapshot", !.tu = out.tu])
  /\ UNCHANGED <<world, out, entries, left, clash, warm>>

Reread(b) ==
  /\ At(b, "reread")
  /\ Set(b, IF out.tu \in {None, Torn} THEN [p[b] EXCEPT !.pc = "failed"]
            ELSE [p[b] EXCEPT !.pc = "snapshot", !.tu = out.tu])
  /\ UNCHANGED <<world, out, entries, left, clash, warm>>

----------------------------------------------------------------------------
(* A miss: the frontend probes the files, some of them repeatedly; a probe *)
(* that changed makes the snapshot unstable.                               *)
FrontendRead(b, f) ==
  /\ At(b, "frontend") /\ p[b].front[f] # disk[f]
  /\ Set(b, [p[b] EXCEPT !.front[f] = disk[f],
                         !.stable = @ /\ p[b].front[f] = None])
  /\ UNCHANGED <<world, out, entries, left, clash, warm>>

WriteTu(b) ==
  /\ At(b, "frontend") /\ \A f \in Files : p[b].front[f] # None
  /\ Set(b, [p[b] EXCEPT !.pc = "emit", !.tu = TU(p[b].front, p[b].code)])
  /\ Write(b, "tu", Torn)
  /\ UNCHANGED <<world, entries, left, warm>>

WroteTu(b) ==
  /\ At(b, "emit")
  /\ Write(b, "tu", p[b].tu)
  /\ Go(b, "snapshot")
  /\ UNCHANGED <<world, entries, left, warm>>

(* linkNativeExecutable: dependencies before the link, the link into a     *)
(* private file, the rename to outPath, and the dependencies once more.    *)
Snapshot(b) ==
  /\ At(b, "snapshot")
  /\ Set(b, [p[b] EXCEPT !.pc = "link", !.deps = tool])
  /\ UNCHANGED <<world, out, entries, left, clash, warm>>

Link(b) ==
  /\ At(b, "link")
  /\ Set(b, [p[b] EXCEPT !.pc = "install", !.exe = Exe(p[b].tu, tool)])
  /\ UNCHANGED <<world, out, entries, left, clash, warm>>

InstallExe(b) ==
  /\ At(b, "install")
  /\ Write(b, "exe", p[b].exe)
  /\ Go(b, "recheck")
  /\ UNCHANGED <<world, entries, left, warm>>

(* Publish the executable too if the dependencies held; a compile publishes *)
(* at least its translation unit, unless its snapshot is unstable.         *)
RecheckAfresh(b) ==  \* Mutant: the stamp vouches for the tools found after the link.
  /\ At(b, "recheck")
  /\ Set(b, [p[b] EXCEPT !.pc = IF p[b].stable THEN "stage" ELSE "done",
                         !.deps = tool,
                         !.todo = IF p[b].stable THEN {"tu", "exe"} ELSE {}])
  /\ UNCHANGED <<world, out, entries, left, clash, warm>>

Recheck(b) ==
  /\ At(b, "recheck")
  /\ LET held == p[b].deps = tool
         publishes == p[b].stable /\ (held \/ p[b].stamp = None)
     IN Set(b, [p[b] EXCEPT !.pc = IF publishes THEN "stage" ELSE "done",
                            !.deps = IF held THEN @ ELSE 0,
                            !.todo = IF ~publishes THEN {}
                                     ELSE IF held THEN {"tu", "exe"} ELSE {"tu"}])
  /\ UNCHANGED <<world, out, entries, left, clash, warm>>

----------------------------------------------------------------------------
(* publishEarlyExecutableCache: private copies of the outputs, the         *)
(* frontend's probes again, then the files one by one and the stamp last.  *)
Stage(b, f) ==
  /\ At(b, "stage") /\ f \in p[b].todo /\ out[f] # None
  /\ Set(b, [p[b] EXCEPT !.stage[f] = out[f], !.todo = @ \ {f},
                         !.pc = IF p[b].todo = {f} THEN "verify" ELSE @])
  /\ UNCHANGED <<world, out, entries, left, clash, warm>>

(* An output is gone: a compile tries again with the translation unit only. *)
StageFails(b, f) ==
  /\ At(b, "stage") /\ f \in p[b].todo /\ out[f] = None
  /\ Set(b, IF p[b].deps # 0 /\ p[b].stamp = None
            THEN [p[b] EXCEPT !.deps = 0, !.todo = {"tu"}, !.stage = Idle.stage]
            ELSE [p[b] EXCEPT !.pc = "done", !.todo = {}])
  /\ UNCHANGED <<world, out, entries, left, clash, warm>>

Verify(b) ==
  /\ At(b, "verify")
  /\ Go(b, IF p[b].front = disk THEN "putTu" ELSE "done")
  /\ UNCHANGED <<world, out, entries, left, clash, warm>>

PutTu(b) ==
  /\ At(b, "putTu")
  /\ cache' = [cache EXCEPT ![p[b].key].tu = p[b].stage.tu]
  /\ warm' = {}
  /\ Go(b, IF p[b].stage.exe = None THEN "putStamp" ELSE "putExe")
  /\ UNCHANGED <<world, out, proofs, route, left, clash>>

PutExe(b) ==
  /\ At(b, "putExe")
  /\ cache' = [cache EXCEPT ![p[b].key].exe = p[b].stage.exe]
  /\ warm' = {}
  /\ Go(b, "putStamp")
  /\ UNCHANGED <<world, out, proofs, route, left, clash>>

StampOf(q) == [front |-> q.front, tu |-> q.stage.tu, exe |-> q.stage.exe,
               deps |-> IF q.stage.exe = None THEN 0 ELSE q.deps]
Current(q) == q.front = disk /\ q.key = impl /\ q.stage.exe # None /\ q.deps = tool

PutStamp(b) ==
  /\ At(b, "putStamp")
  /\ cache' = [cache EXCEPT ![p[b].key].stamp = StampOf(p[b])]
  /\ warm' = IF Current(p[b]) /\ cache[p[b].key].tu = p[b].stage.tu
                /\ cache[p[b].key].exe = p[b].stage.exe
             THEN {None} ELSE {}
  /\ Go(b, "putProof")
  /\ UNCHANGED <<world, out, proofs, route, left, clash>>

(* publishEarlyExecutableRoute, after a publication and after a full hit.  *)
PutProof(b) ==
  /\ At(b, "putProof")
  /\ proofs' = proofs \cup {p[b].key}
  /\ Go(b, "putRoute")
  /\ UNCHANGED <<world, out, cache, route, left, clash, warm>>

PutRouteRereads(b) ==  \* Mutant: a full hit compiles although its executable is restored.
  /\ At(b, "putRoute")
  /\ route' = p[b].key
  /\ Go(b, IF p[b].stamp # None THEN "reread" ELSE "done")
  /\ UNCHANGED <<world, out, cache, proofs, left, clash, warm>>

PutRoute(b) ==
  /\ At(b, "putRoute")
  /\ route' = p[b].key
  /\ Go(b, IF p[b].exe = None THEN "reread" ELSE "done")
  /\ UNCHANGED <<world, out, cache, proofs, left, clash, warm>>

(* --no-keep-c removes the translation unit in the end.                    *)
Finish(b, keep) ==
  /\ At(b, "done")
  /\ Write(b, "tu", IF keep THEN out.tu ELSE None)
  /\ Set(b, Idle)
  /\ warm' = warm \ {b}
  /\ UNCHANGED <<world, entries, left>>

Fail(b) ==
  /\ At(b, "failed")
  /\ Set(b, Idle)
  /\ warm' = warm \ {b}
  /\ UNCHANGED <<world, out, entries, left, clash>>

----------------------------------------------------------------------------
(* What happens around the processes.                                      *)
Crash(b) ==
  /\ ~At(b, "idle") /\ Spend("crash")
  /\ Set(b, Idle)
  /\ warm' = warm \ {b}
  /\ UNCHANGED <<world, out, entries, clash>>

Edit(f, c) ==
  /\ disk[f] # c /\ Spend("edit")
  /\ disk' = [disk EXCEPT ![f] = c]
  /\ warm' = {}
  /\ UNCHANGED <<tool, impl, out, entries, p, clash>>

UpdateTool ==
  /\ Spend("tool")
  /\ tool' = tool + 1
  /\ warm' = {}
  /\ UNCHANGED <<disk, impl, out, entries, p, clash>>

Upgrade ==
  /\ Spend("upgrade")
  /\ impl' = impl + 1
  /\ warm' = {}
  /\ clash' = (clash \/ \E b \in Procs : At(b, "identify"))
  /\ UNCHANGED <<disk, tool, out, entries, p>>

(* pruneCache of any process on this cache root unlinks published files.   *)
PruneEntry(k, f) ==
  /\ cache[k][f] # None /\ Spend("prune")
  /\ cache' = [cache EXCEPT ![k][f] = None]
  /\ warm' = {}
  /\ UNCHANGED <<world, out, proofs, route, p, clash>>

PruneRoute ==
  /\ Spend("prune")
  /\ \/ \E k \in proofs : proofs' = proofs \ {k} /\ UNCHANGED route
     \/ route # 0 /\ route' = 0 /\ UNCHANGED proofs
  /\ UNCHANGED <<world, out, cache, p, clash, warm>>

Step(b) ==
  \/ Start(b) \/ ReadRoute(b) \/ ReadProof(b) \/ Load(b) \/ Identify(b) \/ ReadStamp(b)
  \/ CheckNative(b) \/ RestoreTu(b) \/ RestoreExe(b) \/ RestoreFails(b) \/ Reread(b)
  \/ WriteTu(b) \/ WroteTu(b) \/ Snapshot(b) \/ Link(b) \/ InstallExe(b) \/ Recheck(b)
  \/ Verify(b) \/ PutTu(b) \/ PutExe(b) \/ PutStamp(b) \/ PutProof(b) \/ PutRoute(b)
  \/ Fail(b) \/ Crash(b)
  \/ \E f \in Files : FrontendRead(b, f)
  \/ \E f \in {"tu", "exe"} : Fetch(b, f) \/ Stage(b, f) \/ StageFails(b, f)
  \/ \E keep \in BOOLEAN : Finish(b, keep)

Next ==
  \/ \E b \in Procs : Step(b)
  \/ \E f \in Files, c \in Contents : Edit(f, c)
  \/ UpdateTool \/ Upgrade \/ PruneRoute
  \/ \E k \in Impls, f \in {"tu", "exe", "stamp"} : PruneEntry(k, f)

Spec == Init /\ [][Next]_vars

----------------------------------------------------------------------------
PCs == {"idle", "route", "proof", "load", "identify", "stamp", "fetch", "native",
        "restoreTu", "restore", "reread", "frontend", "emit", "snapshot", "link",
        "install", "recheck", "stage", "verify", "putTu", "putExe", "putStamp",
        "putProof", "putRoute", "done", "failed"}

Processes ==
  [pc : PCs, code : {0} \cup Impls, key : {0} \cup Impls, routed : BOOLEAN,
   front : [Files -> Contents \cup {None}], stable : BOOLEAN, stamp : Stamps \cup {None},
   tu : TUs \cup {None}, exe : Exes \cup {None}, deps : {0} \cup Tools,
   todo : SUBSET {"tu", "exe"},
   stage : [tu : TUs \cup {None, Torn}, exe : Exes \cup {None}]]

(* Outputs, entries and processes keep their types; no stamp is without a  *)
(* translation unit and no executable is linked from a torn one.           *)
TypeOK ==
  /\ disk \in [Files -> Contents] /\ tool \in Tools /\ impl \in Impls
  /\ out \in [tu : TUs \cup {None, Torn}, exe : Exes \cup {None}]
  /\ cache \in [Impls -> [tu : TUs \cup {None, Torn}, exe : Exes \cup {None},
                          stamp : Stamps \cup {None}]]
  /\ proofs \subseteq Impls /\ route \in {0} \cup Impls
  /\ p \in [Procs -> Processes]
  /\ left \in [Kinds -> Nat] /\ clash \in BOOLEAN /\ warm \subseteq Procs \cup {None}

(* Found in the cache, built or restored: what process b is about to       *)
(* return stems from a stamp.                                              *)
Hit(b) == At(b, "done") /\ p[b].stamp # None

(* "Source edits, runtime and toolchain updates miss": the executable of a *)
(* hit was compiled from the sources the lookup validated, by the compiler *)
(* whose entry it used and, if restored, with the tools it validated.      *)
HitsAreCurrent ==
  \A b \in Procs : Hit(b) =>
    /\ p[b].exe.tu = TU(p[b].front, p[b].key)
    /\ p[b].tu = None => p[b].exe.tool = p[b].deps

(* Edits, tool updates, upgrades, prunes and crashes at any moment never   *)
(* make a hit wrong, as long as no process writes the outputs another one  *)
(* is using, and no upgrade falls between loading and hashing the compiler. *)
(* What it returns is then what lies at outPath, and no lookup that finds  *)
(* a translation unit fails for a missing or torn file.                    *)
AloneIsRight ==
  ~clash => /\ HitsAreCurrent
            /\ \A b \in Procs : ~At(b, "failed") /\ (At(b, "done") => out.exe = p[b].exe)

(* An exact repeat hits: while the last complete publication is neither    *)
(* pruned nor overtaken by a change, no process compiles or relinks, also  *)
(* when the route or the proof was evicted.                                *)
RepeatHits == \A b \in warm \ {None} : p[b].pc \notin {"frontend", "reread"}
=============================================================================
