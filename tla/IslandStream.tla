----------------------------- MODULE IslandStream -----------------------------
(***************************************************************************)
(* node:stream as the embedded JavaScript islands implement it             *)
(* (island-js/13-stream.js): Readable, Writable and PassThrough in object  *)
(* mode, joined by pipe() or pipeline() or read by an async iterator.      *)
(*                                                                         *)
(* JavaScript runs to completion, so the state is the fields of the stream *)
(* objects, the microtask queue that nextTick fills (`ticks`), and the     *)
(* call stack (`stack`, top first) of the code that is running now.  Only  *)
(* the top frame moves.  The program's own code runs inside _read and      *)
(* _write, and between microtasks; it is well behaved: it calls each       *)
(* callback once, pushes nothing after push(null), and listens for         *)
(* "error".                                                                *)
(*                                                                         *)
(* A chunk is a value other than a string, so write() passes it on as it   *)
(* is: a Buffer, an array, or an object without a length, which counts 1.  *)
(***************************************************************************)
EXTENDS Naturals, Sequences, SequencesExt, FiniteSets

CONSTANTS
  Streams,      \* every stream of the program
  Source,       \* the Readable that produces
  Transforms,   \* PassThrough streams
  Sinks,        \* Writables
  Programs,     \* how the program uses them: see ProgramOK
  Chunks,       \* bound on the chunks the source produces before push(null)
  MaxUpsets,    \* bound on errors and destroy() calls
  None          \* no chunk

ASSUME StreamsAssumption ==
  /\ Source \in Streams /\ Transforms \subseteq Streams /\ Sinks \subseteq Streams
  /\ Streams = {Source} \cup Transforms \cup Sinks
  /\ Source \notin Transforms \cup Sinks /\ Transforms \cap Sinks = {}
  /\ IsFiniteSet(Streams) /\ Chunks \in Nat /\ MaxUpsets \in Nat
  /\ None \notin 1..Chunks

(* A program: the consumer it attaches to the source ("pipe", "pipeline",  *)
(* "iterate"), what its read() does ("push": nothing, chunks are pushed    *)
(* when they arrive; "pull": pushes before it returns; "later": each call  *)
(* is answered by one later push), the streams in the order it joins them  *)
(* (pipeline()'s arguments), the pipes, the sources of the pipe() calls in *)
(* the order of the calls, the sinks that have a final() hook, the number  *)
(* of chunks, the total length upto[n] of the first n of them, the         *)
(* highWaterMark of the writable sides, and whether it calls destroy()     *)
(* without an error.                                                       *)
ProgramOK(p) ==
  /\ p.consumer \in {"pipe", "pipeline", "iterate"}
  /\ p.style \in {"push", "pull", "later"}
  /\ p.pipes \in [Streams -> Seq(Streams)]
  /\ p.stages \in Seq(Streams) /\ p.starts \in Seq(Streams)
  /\ p.finals \subseteq Sinks
  /\ p.chunks \in 0..Chunks /\ p.hwm \in Nat \ {0}
  /\ p.upto \in [0..Chunks -> Nat]
  /\ \A m, n \in 0..Chunks : m <= n => p.upto[m] <= p.upto[n]
  /\ p.quiet \in BOOLEAN
  /\ p.consumer = "pipeline" => p.stages # <<>> /\ Last(p.stages) \in Sinks

(* The pipes form a forest: no stream is the destination of two pipes, and *)
(* chunks do not run in circles.  An iterated source is not piped as well. *)
Forest(p) ==
  /\ \A s \in Streams :
       /\ Range(p.pipes[s]) \subseteq Transforms \cup Sinks
       /\ \A i, j \in 1..Len(p.pipes[s]) : p.pipes[s][i] = p.pipes[s][j] => i = j
       /\ \A t \in Streams : Range(p.pipes[s]) \cap Range(p.pipes[t]) # {} => s = t
  /\ \A s \in Sinks : p.pipes[s] = <<>>
  /\ \E depth \in [Streams -> 0..Cardinality(Streams)] :
       \A s \in Streams : \A d \in Range(p.pipes[s]) : depth[s] < depth[d]
  /\ p.consumer = "iterate" => p.pipes[Source] = <<>>

ASSUME ProgramsAssumption == \A p \in Programs : ProgramOK(p) /\ Forest(p)

VARIABLES
  app,       \* the program that runs
  st,        \* st[s]: the fields of stream s
  ticks,     \* microtasks queued by nextTick, oldest first
  stack,     \* frames of the running call, innermost first
  wLen,      \* wLen[s]: the counter _wLen of what s was written
  asked,     \* calls of _read that are still to be answered
  final,     \* sinks whose final() hook has not called back yet
  settled,   \* pipeline()'s callback: "no", "ok" or "err"
  iter,      \* the async iterator: "idle", "waiting", "done" or "failed"
  produced,  \* chunks pushed so far: 1..produced
  got,       \* got[s]: chunks _write (or the iterator) received, in order
  evs,       \* evs[s]: life-cycle events s emitted, in order
  upsets     \* errors and destroy() calls so far

vars == <<app, st, wLen, ticks, stack, asked, final, settled, iter, produced,
          got, evs, upsets>>

----------------------------------------------------------------------------
(* The other fields of a stream.  `closed` is _closeEmitted of a Readable   *)
(* or a Duplex and _wCloseEmitted of a Writable.                           *)
Fresh ==
  [buf |-> <<>>, flowing |-> "null", sync |-> TRUE, ended |-> FALSE,
   emittedEnd |-> FALSE, reading |-> FALSE, pushed |-> FALSE,
   queue |-> <<>>, writing |-> None, wEnded |-> FALSE, finished |-> FALSE,
   needDrain |-> FALSE, finalCalled |-> FALSE,
   destroyed |-> FALSE, closed |-> FALSE]

(* What write() counts for a chunk: 1 in a Writable in object mode.  A     *)
(* Duplex has no _wom, whatever its options, and counts the length.        *)
Counted(s, n) == IF s \in Transforms THEN app.upto[n] ELSE n
Weight(s, c) == Counted(s, c) - Counted(s, c - 1)
HasFinal(s) == s \in Transforms \cup app.finals

(* Each pipe() subscribes to "data": the flow starts, in a later tick.     *)
Init ==
  /\ app \in Programs
  /\ st = [s \in Streams |->
             [Fresh EXCEPT !.flowing = IF app.pipes[s] # <<>> THEN "on" ELSE "null"]]
  /\ ticks = [i \in 1..Len(app.starts) |-> <<"emitData", app.starts[i]>>]
  /\ stack = <<>>
  /\ wLen = [s \in Streams |-> 0]
  /\ asked = 0
  /\ final = {}
  /\ settled = "no"
  /\ iter = "idle"
  /\ produced = 0
  /\ got = [s \in Streams |-> <<>>]
  /\ evs = [s \in Streams |-> <<>>]
  /\ upsets = 0

(* A frame: the place of the code, the stream it belongs to, the chunk it  *)
(* hands on, the listeners still to call, what write() returned.           *)
Frame(at, s, c, to, ok) == [at |-> at, of |-> s, chunk |-> c, to |-> to, ok |-> ok]
Place(at, s) == Frame(at, s, None, <<>>, TRUE)
Emission(s, c, to) == Frame("emit", s, c, to, TRUE)

Call(frames, below) == stack' = frames \o below
Under == Tail(stack)
At(pc) == stack # <<>> /\ Head(stack).at = pc
Self == Head(stack).of
Rest == Head(stack).to
Tick(new) == ticks' = ticks \o new

----------------------------------------------------------------------------
(* _maybeEmitEnd *)
Ends(f) == f.ended /\ f.buf = <<>> /\ ~f.emittedEnd /\ ~f.destroyed
MaybeEmitEnd(f) == [f EXCEPT !.emittedEnd = f.emittedEnd \/ Ends(f)]
EndTick(s, f) == IF Ends(f) THEN <<<<"end", s>>>> ELSE <<>>

(* destroy(err): the error, then the close, each at most once per stream *)
Destroyed(f) == [f EXCEPT !.destroyed = TRUE, !.closed = TRUE]
DestroyTicks(s, f, err) ==
  IF f.destroyed THEN <<>>
  ELSE (IF err THEN <<<<"error", s>>>> ELSE <<>>)
       \o (IF f.closed THEN <<>> ELSE <<<<"close", s>>>>)

(* push(chunk) with `below` left on the stack *)
DirectPastBuffer(s) ==  \* Mutant: a chunk pushed overtakes the ones buffered.
  st[s].flowing = "on" /\ ~st[s].sync /\ ~st[s].reading
Direct(s) == /\ st[s].flowing = "on" /\ st[s].buf = <<>>
             /\ ~st[s].sync /\ ~st[s].reading
PushTick(s) ==
  CASE Direct(s)             -> <<>>
    [] st[s].flowing # "on"  -> <<<<"readable", s>>>>
    [] st[s].flowing = "on" /\ st[s].reading -> <<>>
    [] OTHER                 -> <<<<"emitData", s>>>>
Pushed(s, c) ==
  [st[s] EXCEPT !.pushed = TRUE,
                !.buf = IF Direct(s) THEN st[s].buf ELSE Append(st[s].buf, c)]
Push(s, c, below) ==
  /\ st' = [st EXCEPT ![s] = Pushed(s, c)]
  /\ Call(IF Direct(s) THEN <<Emission(s, c, app.pipes[s])>> ELSE <<>>, below)
  /\ Tick(PushTick(s))

(* push(null) *)
PushNull(s) == [st[s] EXCEPT !.ended = TRUE]

----------------------------------------------------------------------------
(* Readable: _drainData, _emitData, _callRead.                             *)
DrainData ==
  /\ At("drain")
  /\ LET s == Self  f == st[s] IN
     IF f.flowing = "on" /\ f.buf # <<>> /\ ~f.destroyed
     THEN /\ st' = [st EXCEPT ![s] = [f EXCEPT !.buf = Tail(f.buf)]]
          /\ Call(<<Emission(s, Head(f.buf), app.pipes[s])>>, stack)
          /\ UNCHANGED ticks
     ELSE /\ st' = [st EXCEPT ![s] = MaybeEmitEnd(f)]
          /\ Tick(EndTick(s, f))
          /\ Call(<<>>, Under)
  /\ UNCHANGED <<app, wLen, asked, final, settled, iter, produced, got, evs, upsets>>

EmitDataRest ==
  /\ At("emitData")
  /\ LET s == Self  f == st[s] IN
     Call(IF f.flowing = "on" /\ ~f.ended /\ ~f.destroyed
          THEN <<Place("callRead", s)>> ELSE <<>>, Under)
  /\ UNCHANGED <<app, wLen, st, ticks, asked, final, settled, iter, produced, got,
                 evs, upsets>>

CallRead ==
  /\ At("callRead")
  /\ LET s == Self  f == st[s] IN
     IF ~f.reading /\ ~f.ended /\ ~f.destroyed
     THEN /\ st' = [st EXCEPT ![s] = [f EXCEPT !.reading = TRUE, !.pushed = FALSE,
                                                 !.sync = TRUE]]
          /\ Call(<<Place("read", s)>>, Under)
     ELSE /\ Call(<<>>, Under) /\ UNCHANGED st
  /\ UNCHANGED <<app, wLen, ticks, asked, final, settled, iter, produced, got, evs, upsets>>

(* The program's read() pushes a chunk, or null, before it returns.        *)
ReadPushes ==
  /\ At("read") /\ Self = Source /\ app.style = "pull" /\ ~st[Source].ended
  /\ produced < app.chunks
  /\ produced' = produced + 1
  /\ Push(Source, produced + 1, stack)
  /\ UNCHANGED <<app, wLen, asked, final, settled, iter, got, evs, upsets>>

ReadEnds ==
  /\ At("read") /\ Self = Source /\ app.style = "pull" /\ ~st[Source].ended
  /\ produced = app.chunks
  /\ st' = [st EXCEPT ![Source] = MaybeEmitEnd(PushNull(Source))]
  /\ Tick(EndTick(Source, PushNull(Source)))
  /\ UNCHANGED <<app, wLen, stack, asked, final, settled, iter, produced, got, evs, upsets>>

(* ... and returns, or throws, which destroys the stream.                  *)
ReadReturns(throws) ==
  /\ At("read")
  /\ LET s == Self
         g == [st[s] EXCEPT !.sync = FALSE, !.reading = FALSE]
         f == IF throws THEN Destroyed(g) ELSE g
     IN
     /\ throws => s = Source /\ upsets < MaxUpsets
     /\ ~throws /\ s = Source /\ app.style = "pull" => st[s].pushed \/ st[s].ended
     /\ upsets' = IF throws THEN upsets + 1 ELSE upsets
     /\ asked' = IF s = Source /\ app.style = "later" /\ ~throws THEN asked + 1 ELSE asked
     /\ IF f.flowing = "on"
        THEN /\ st' = [st EXCEPT ![s] = f]
             /\ Call(<<Place("drain", s), Place("again", s)>>, Under)
        ELSE /\ st' = [st EXCEPT ![s] = MaybeEmitEnd(f)]
             /\ Call(<<Place("again", s)>>, Under)
     /\ Tick(IF throws THEN DestroyTicks(s, g, TRUE)
             ELSE IF f.flowing = "on" THEN <<>> ELSE EndTick(s, f))
  /\ UNCHANGED <<app, wLen, final, settled, iter, produced, got, evs>>

(* The loop of _callRead continues while the source keeps the flow going.  *)
ReadAgain ==
  /\ At("again")
  /\ LET s == Self  f == st[s] IN
     Call(IF f.flowing = "on" /\ f.pushed /\ ~f.ended /\ ~f.destroyed
          THEN <<Place("callRead", s)>> ELSE <<>>, Under)
  /\ UNCHANGED <<app, wLen, st, ticks, asked, final, settled, iter, produced, got,
                 evs, upsets>>

----------------------------------------------------------------------------
(* Writable: write, _processWrites, _runWrite, _runFinal, end.             *)
StartWrite(f) == [f EXCEPT !.writing = Head(f.queue), !.queue = Tail(f.queue)]
Starts(f) == f.writing = None /\ ~f.destroyed /\ f.queue # <<>>
Idles(f) == f.writing = None /\ ~f.destroyed /\ f.queue = <<>>
Finalizes(f) == Idles(f) /\ f.wEnded /\ ~f.finished /\ ~f.finalCalled
Drains(f) == Idles(f) /\ f.needDrain /\ ~f.wEnded

ProcessWrites(d, f) ==
  CASE Starts(f)    -> StartWrite(f)
    [] Finalizes(f) -> [f EXCEPT !.finalCalled = TRUE, !.finished = ~HasFinal(d)]
    [] Drains(f)    -> [f EXCEPT !.needDrain = FALSE]
    [] OTHER        -> f
ProcessTicks(d, f) ==
  CASE Finalizes(f) -> <<IF HasFinal(d) THEN <<"runFinal", d>> ELSE <<"finish", d>>>>
    [] Drains(f)    -> <<<<"drain", d>>>>
    [] OTHER        -> <<>>
ProcessFrames(d, f) == IF Starts(f) THEN <<Place("write", d)>> ELSE <<>>

(* emit("data"): the listeners are the pipes, whose onData writes the      *)
(* chunk; the source pauses when write() returned false.                   *)
Paused(s) == [st[s] EXCEPT !.flowing = "off"]
Written(d, c, ok) == [st[d] EXCEPT !.queue = Append(st[d].queue, c),
                                   !.needDrain = st[d].needDrain \/ ~ok]
EmitData ==
  /\ At("emit")
  /\ LET s == Self  c == Head(stack).chunk IN
     IF Rest = <<>>
     THEN Call(<<>>, Under) /\ UNCHANGED <<st, wLen, ticks>>
     ELSE LET d == Head(Rest)
              len == wLen[d] + Weight(d, c)
              ok == len < app.hwm
              f == Written(d, c, ok)
              rest == <<Emission(s, c, Tail(Rest))>>
          IN IF st[d].wEnded \/ st[d].destroyed
             THEN /\ Tick(<<<<"error", d>>>>)
                  /\ st' = [st EXCEPT ![s] = Paused(s)]
                  /\ Call(rest, Under)
                  /\ UNCHANGED wLen
             ELSE /\ st' = [st EXCEPT ![d] = ProcessWrites(d, f)]
                  /\ wLen' = [wLen EXCEPT ![d] = len]
                  /\ Tick(ProcessTicks(d, f))
                  /\ Call(ProcessFrames(d, f) \o <<Frame("wrote", s, None, <<>>, ok)>> \o rest,
                          Under)
  /\ UNCHANGED <<app, asked, final, settled, iter, produced, got, evs, upsets>>

WroteAnyway ==  \* Mutant: what write() returned is ignored.
  /\ At("wrote")
  /\ Call(<<>>, Under)
  /\ UNCHANGED <<app, wLen, st, ticks, asked, final, settled, iter, produced, got, evs, upsets>>

Wrote ==
  /\ At("wrote")
  /\ st' = IF Head(stack).ok THEN st ELSE [st EXCEPT ![Self] = Paused(Self)]
  /\ Call(<<>>, Under)
  /\ UNCHANGED <<app, wLen, ticks, asked, final, settled, iter, produced, got, evs, upsets>>

(* done(err) of _runWrite *)
Done(d, err, below) ==
  LET f == [st[d] EXCEPT !.writing = None] IN
  /\ st' = [st EXCEPT ![d] = IF err THEN Destroyed(f) ELSE f]
  /\ wLen' = [wLen EXCEPT ![d] = @ - Weight(d, st[d].writing)]
  /\ Tick(IF err THEN DestroyTicks(d, f, TRUE) ELSE <<<<"processWrites", d>>>>)
  /\ stack' = below
  /\ upsets' = IF err THEN upsets + 1 ELSE upsets
  /\ err => upsets < MaxUpsets

(* _write takes the chunk and calls back at once (err or not) ...          *)
WriteNow(err) ==
  /\ At("write")
  /\ LET d == Self  c == st[d].writing IN
     /\ got' = [got EXCEPT ![d] = Append(@, c)]
     /\ IF d \in Transforms /\ ~err
        THEN /\ Push(d, c, <<Place("transformed", d)>> \o Under)
             /\ UNCHANGED <<wLen, upsets>>
        ELSE Done(d, err, Under)
  /\ UNCHANGED <<app, asked, final, settled, iter, produced, evs>>

(* ... or keeps the callback for later.                                    *)
WriteLater ==
  /\ At("write")
  /\ got' = [got EXCEPT ![Self] = Append(@, st[Self].writing)]
  /\ Call(<<>>, Under)
  /\ UNCHANGED <<app, wLen, st, ticks, asked, final, settled, iter, produced, evs, upsets>>

Transformed ==
  /\ At("transformed")
  /\ Done(Self, FALSE, Under)
  /\ UNCHANGED <<app, asked, final, settled, iter, produced, got, evs>>

(* The final() hook of a sink calls back at once or later; an error         *)
(* destroys the sink.                                                       *)
Finish(d, err, below) ==
  /\ err => upsets < MaxUpsets
  /\ upsets' = IF err THEN upsets + 1 ELSE upsets
  /\ st' = [st EXCEPT ![d] = IF err THEN Destroyed(st[d])
                             ELSE [st[d] EXCEPT !.finished = TRUE]]
  /\ Tick(IF err THEN DestroyTicks(d, st[d], TRUE) ELSE <<<<"finish", d>>>>)
  /\ stack' = below

FinalNow(err) ==
  /\ At("final")
  /\ Finish(Self, err, Under)
  /\ UNCHANGED <<app, wLen, asked, final, settled, iter, produced, got, evs>>

FinalLater ==
  /\ At("final")
  /\ final' = final \cup {Self}
  /\ Call(<<>>, Under)
  /\ UNCHANGED <<app, wLen, st, ticks, asked, settled, iter, produced, got, evs, upsets>>

(* onEnd of the pipes calls end() on each destination, then the source     *)
(* closes.                                                                 *)
Ending ==
  /\ At("ending")
  /\ LET s == Self IN
     IF Rest = <<>>
     THEN LET closes == ~st[s].closed /\ ~st[s].destroyed IN
          /\ st' = [st EXCEPT ![s] = [st[s] EXCEPT !.closed = st[s].closed \/ closes]]
          /\ Tick(IF closes THEN <<<<"close", s>>>> ELSE <<>>)
          /\ Call(<<>>, Under)
     ELSE LET d == Head(Rest)  f == [st[d] EXCEPT !.wEnded = TRUE] IN
          /\ st' = [st EXCEPT ![d] = ProcessWrites(d, f)]
          /\ Tick(ProcessTicks(d, f))
          /\ Call(ProcessFrames(d, f) \o <<Frame("ending", s, None, Tail(Rest), TRUE)>>, Under)
  /\ UNCHANGED <<app, wLen, asked, final, settled, iter, produced, got, evs, upsets>>

----------------------------------------------------------------------------
(* The async iterator: next() tries to read, and otherwise waits for       *)
(* "readable", "end" or "error".                                           *)
TryRead == (IF st[Source].buf = <<>> THEN <<Place("callRead", Source)>> ELSE <<>>)
           \o <<Place("tried", Source)>>

Tried ==
  /\ At("tried")
  /\ LET f == st[Source]  g == MaybeEmitEnd(f) IN
     \/ /\ f.buf # <<>>
        /\ st' = [st EXCEPT ![Source] = [f EXCEPT !.buf = Tail(f.buf)]]
        /\ got' = [got EXCEPT ![Source] = Append(@, Head(f.buf))]
        /\ iter' = "idle"
        /\ UNCHANGED ticks
     \/ /\ f.buf = <<>> /\ (g.emittedEnd \/ g.ended)
        /\ st' = [st EXCEPT ![Source] = g]
        /\ Tick(EndTick(Source, f))
        /\ iter' = "done"
        /\ UNCHANGED got
     \/ /\ f.buf = <<>> /\ ~g.ended /\ ~g.emittedEnd
        /\ Tick(IF iter = "idle" THEN <<<<"callRead", Source>>>> ELSE <<>>)
        /\ iter' = "waiting"
        /\ UNCHANGED <<st, got>>
  /\ Call(<<>>, Under)
  /\ UNCHANGED <<app, wLen, asked, final, settled, produced, evs, upsets>>

----------------------------------------------------------------------------
(* Microtasks.                                                             *)
Take(tag) == stack = <<>> /\ ticks # <<>> /\ Head(ticks)[1] = tag
Of == Head(ticks)[2]
Then(new) == ticks' = Tail(ticks) \o new
Emit(s, e) == evs' = [evs EXCEPT ![s] = Append(@, e)]

(* pipeline()'s settle(err) destroys, in turn, every stage that still      *)
(* lives.                                                                  *)
Stages == Range(app.stages)
Settles == app.consumer = "pipeline" /\ settled = "no"
Settle(err) == Call(IF err THEN <<Frame("teardown", Source, None, app.stages, TRUE)>> ELSE <<>>, <<>>)

TeardownTail ==  \* Mutant: the last stage only.
  /\ At("teardown")
  /\ LET s == Last(app.stages) IN
     /\ st' = [st EXCEPT ![s] = Destroyed(st[s])]
     /\ Tick(DestroyTicks(s, st[s], TRUE))
     /\ Call(<<>>, Under)
  /\ UNCHANGED <<app, wLen, asked, final, settled, iter, produced, got, evs, upsets>>

Teardown ==
  /\ At("teardown")
  /\ IF Rest = <<>>
     THEN Call(<<>>, Under) /\ UNCHANGED <<st, ticks>>
     ELSE LET s == Head(Rest) IN
          /\ st' = [st EXCEPT ![s] = Destroyed(st[s])]
          /\ Tick(DestroyTicks(s, st[s], TRUE))
          /\ Call(<<Frame("teardown", Source, None, Tail(Rest), TRUE)>>, Under)
  /\ UNCHANGED <<app, wLen, asked, final, settled, iter, produced, got, evs, upsets>>

RunEmitData ==
  /\ Take("emitData")
  /\ Then(<<>>)
  /\ Call(<<Place("drain", Of), Place("emitData", Of)>>, <<>>)
  /\ UNCHANGED <<app, wLen, st, asked, final, settled, iter, produced, got, evs, upsets>>

RunCallRead ==
  /\ Take("callRead")
  /\ Then(<<>>)
  /\ Call(<<Place("callRead", Of)>>, <<>>)
  /\ UNCHANGED <<app, wLen, st, asked, final, settled, iter, produced, got, evs, upsets>>

RunReadable ==
  /\ Take("readable")
  /\ Then(<<>>)
  /\ Call(IF Of = Source /\ iter = "waiting" THEN TryRead ELSE <<>>, <<>>)
  /\ UNCHANGED <<app, wLen, st, asked, final, settled, iter, produced, got, evs, upsets>>

RunEnd ==
  /\ Take("end")
  /\ Then(<<>>)
  /\ Emit(Of, "end")
  /\ iter' = IF Of = Source /\ iter = "waiting" THEN "done" ELSE iter
  /\ Call(<<Frame("ending", Of, None, app.pipes[Of], TRUE)>>, <<>>)
  /\ UNCHANGED <<app, wLen, st, asked, final, settled, produced, got, upsets>>

RunProcessWrites ==
  /\ Take("processWrites")
  /\ LET d == Of  f == st[d] IN
     /\ st' = [st EXCEPT ![d] = ProcessWrites(d, f)]
     /\ Then(ProcessTicks(d, f))
     /\ Call(ProcessFrames(d, f), <<>>)
  /\ UNCHANGED <<app, wLen, asked, final, settled, iter, produced, got, evs, upsets>>

(* onDrain of the pipe into the destination resumes its source.            *)
Feeding(d) == {s \in Streams : d \in Range(app.pipes[s])}
Resumed(S) == [s \in Streams |-> IF s \in S THEN [st[s] EXCEPT !.flowing = "on"] ELSE st[s]]

RunDrainFlagOnly ==  \* Mutant: the source is flowing again, and nothing emits.
  /\ Take("drain")
  /\ st' = Resumed(Feeding(Of))
  /\ Then(<<>>)
  /\ UNCHANGED <<app, wLen, stack, asked, final, settled, iter, produced, got, evs, upsets>>

RunDrain ==
  /\ Take("drain")
  /\ LET paused == {s \in Feeding(Of) : st[s].flowing # "on"} IN
     /\ st' = Resumed(paused)
     /\ Then(SetToSeq({<<"emitData", s>> : s \in paused}))
  /\ UNCHANGED <<app, wLen, stack, asked, final, settled, iter, produced, got, evs, upsets>>

(* A PassThrough's _final pushes null and calls back; a sink's is the      *)
(* program's.                                                              *)
RunFinalPlain ==  \* Mutant: a PassThrough waits for a callback nobody makes.
  /\ Take("runFinal")
  /\ Then(<<>>) /\ Call(<<Place("final", Of)>>, <<>>)
  /\ UNCHANGED <<app, wLen, st, asked, final, settled, iter, produced, got, evs, upsets>>

RunFinal ==
  /\ Take("runFinal")
  /\ LET d == Of  f == PushNull(d) IN
     IF d \in Transforms
     THEN /\ st' = [st EXCEPT ![d] = [f EXCEPT !.emittedEnd = f.emittedEnd \/ Ends(f),
                                               !.finished = TRUE]]
          /\ Then(EndTick(d, f) \o <<<<"finish", d>>>>)
          /\ UNCHANGED stack
     ELSE /\ Then(<<>>) /\ Call(<<Place("final", d)>>, <<>>) /\ UNCHANGED st
  /\ UNCHANGED <<app, wLen, asked, final, settled, iter, produced, got, evs, upsets>>

(* _maybeCloseW: a Duplex does not close again once destroyed.  The last   *)
(* stage of a pipeline is a Writable: finished() waits for its "finish".   *)
RunFinish ==
  /\ Take("finish")
  /\ LET d == Of
         closes == ~st[d].closed /\ (d \in Transforms => ~st[d].destroyed)
     IN /\ Emit(d, "finish")
        /\ settled' = IF Settles /\ d = Last(app.stages) THEN "ok" ELSE settled
        /\ st' = [st EXCEPT ![d] = [st[d] EXCEPT !.closed = st[d].closed \/ closes]]
        /\ Then(IF closes THEN <<<<"close", d>>>> ELSE <<>>)
  /\ UNCHANGED <<app, wLen, stack, asked, final, iter, produced, got, upsets>>

RunError ==
  /\ Take("error")
  /\ Emit(Of, "error")
  /\ iter' = IF Of = Source /\ iter = "waiting" THEN "failed" ELSE iter
  /\ LET fails == Settles /\ Of \in Stages IN
     /\ settled' = IF fails THEN "err" ELSE settled
     /\ Settle(fails)
  /\ Then(<<>>)
  /\ UNCHANGED <<app, wLen, st, asked, final, produced, got, upsets>>

(* finished(tail) takes a close before the finish for a premature one.     *)
RunClose ==
  /\ Take("close")
  /\ LET early == Settles /\ Of = Last(app.stages) IN
     /\ Emit(Of, "close")
     /\ settled' = IF early THEN "err" ELSE settled
     /\ Then(<<>>)
     /\ Settle(early)
  /\ UNCHANGED <<app, wLen, st, asked, final, iter, produced, got, upsets>>

----------------------------------------------------------------------------
(* Calls of the program between microtasks.                                *)
Answers == app.style = "push" \/ (app.style = "later" /\ asked > 0)
Answered == IF app.style = "later" THEN asked - 1 ELSE asked

PushLater ==
  /\ stack = <<>> /\ Answers /\ ~st[Source].ended /\ produced < app.chunks
  /\ produced' = produced + 1
  /\ asked' = Answered
  /\ Push(Source, produced + 1, <<>>)
  /\ UNCHANGED <<app, wLen, final, settled, iter, got, evs, upsets>>

EndLater ==
  /\ stack = <<>> /\ Answers /\ ~st[Source].ended /\ produced = app.chunks
  /\ asked' = Answered
  /\ st' = [st EXCEPT ![Source] = MaybeEmitEnd(PushNull(Source))]
  /\ Tick(EndTick(Source, PushNull(Source)))
  /\ UNCHANGED <<app, wLen, stack, final, settled, iter, produced, got, evs, upsets>>

(* The callback _write kept is called now.                                 *)
WriteCallsBack(d, err) ==
  /\ stack = <<>> /\ st[d].writing # None
  /\ IF d \in Transforms /\ ~err
     THEN Push(d, st[d].writing, <<Place("transformed", d)>>) /\ UNCHANGED <<wLen, upsets>>
     ELSE Done(d, err, <<>>)
  /\ UNCHANGED <<app, asked, final, settled, iter, produced, got, evs>>

FinalCallsBack(d, err) ==
  /\ stack = <<>> /\ d \in final
  /\ final' = final \ {d}
  /\ Finish(d, err, <<>>)
  /\ UNCHANGED <<app, wLen, asked, settled, iter, produced, got, evs>>

Destroy(s, err) ==
  /\ stack = <<>> /\ ~st[s].destroyed /\ upsets < MaxUpsets
  /\ err \/ app.quiet
  /\ upsets' = upsets + 1
  /\ st' = [st EXCEPT ![s] = Destroyed(st[s])]
  /\ Tick(DestroyTicks(s, st[s], err))
  /\ UNCHANGED <<app, wLen, stack, asked, final, settled, iter, produced, got, evs>>

IterNext ==
  /\ stack = <<>> /\ app.consumer = "iterate" /\ iter = "idle"
  /\ IF st[Source].emittedEnd
     THEN iter' = "done" /\ UNCHANGED stack
     ELSE Call(TryRead, <<>>) /\ UNCHANGED iter
  /\ UNCHANGED <<app, wLen, st, ticks, asked, final, settled, produced, got, evs, upsets>>

IterReturn ==
  /\ stack = <<>> /\ app.consumer = "iterate" /\ iter = "idle" /\ upsets < MaxUpsets
  /\ upsets' = upsets + 1
  /\ iter' = "done"
  /\ st' = [st EXCEPT ![Source] = Destroyed(st[Source])]
  /\ Tick(DestroyTicks(Source, st[Source], FALSE))
  /\ UNCHANGED <<app, wLen, stack, asked, final, settled, produced, got, evs>>

----------------------------------------------------------------------------
Running ==
  \/ DrainData \/ EmitDataRest \/ CallRead \/ ReadPushes \/ ReadEnds \/ ReadAgain
  \/ EmitData \/ Wrote \/ WriteLater \/ Transformed \/ FinalLater \/ Ending \/ Tried
  \/ Teardown
  \/ \E e \in BOOLEAN : ReadReturns(e) \/ WriteNow(e) \/ FinalNow(e)
Microtask ==
  \/ RunEmitData \/ RunCallRead \/ RunReadable \/ RunEnd \/ RunProcessWrites
  \/ RunDrain \/ RunFinal \/ RunFinish \/ RunError \/ RunClose
Program ==
  \/ PushLater \/ EndLater \/ IterNext \/ IterReturn
  \/ \E d \in Streams, e \in BOOLEAN :
       WriteCallsBack(d, e) \/ FinalCallsBack(d, e) \/ Destroy(d, e)

Next == Running \/ Microtask \/ Program

Spec == Init /\ [][Next]_vars

(* The engine runs the stack and then the microtasks; the program answers  *)
(* every _read, _write and _final it was asked for and keeps iterating.    *)
Fairness ==
  /\ WF_vars(Running \/ Microtask)
  /\ WF_vars(PushLater \/ EndLater)
  /\ WF_vars(IterNext)
  /\ \A d \in Streams : WF_vars(WriteCallsBack(d, FALSE)) /\ WF_vars(FinalCallsBack(d, FALSE))

FairSpec == Spec /\ Fairness

----------------------------------------------------------------------------
StreamRecord ==
  [buf : Seq(1..Chunks), flowing : {"null", "on", "off"}, sync : BOOLEAN,
   ended : BOOLEAN, emittedEnd : BOOLEAN, reading : BOOLEAN, pushed : BOOLEAN,
   queue : Seq(1..Chunks), writing : {None} \cup 1..Chunks, wEnded : BOOLEAN,
   finished : BOOLEAN, needDrain : BOOLEAN, finalCalled : BOOLEAN,
   destroyed : BOOLEAN, closed : BOOLEAN]

Tasks == {"emitData", "callRead", "readable", "end", "processWrites", "drain", "runFinal",
          "finish", "error", "close"}
Places == {"drain", "emitData", "callRead", "read", "again", "emit", "wrote", "write",
           "transformed", "final", "ending", "tried", "teardown"}

(* Every field keeps its type; microtasks and frames belong to a stream.   *)
TypeOK ==
  /\ app \in Programs
  /\ st \in [Streams -> StreamRecord]
  /\ ticks \in Seq(Tasks \X Streams)
  /\ stack \in Seq([at : Places, of : Streams, chunk : {None} \cup 1..Chunks,
                     to : Seq(Streams), ok : BOOLEAN])
  /\ wLen \in [Streams -> Nat] /\ asked \in Nat /\ final \subseteq Sinks
  /\ settled \in {"no", "ok", "err"}
  /\ iter \in {"idle", "waiting", "done", "failed"}
  /\ produced \in 0..Chunks /\ upsets \in 0..MaxUpsets
  /\ got \in [Streams -> Seq(1..Chunks)]

Emitted(s, e) == e \in Range(evs[s])

(* Who receives the chunks: the sinks by _write, and the async iterator of *)
(* the source.  A sink is done at "finish", the iterator at "end".         *)
Told(r) == IF r = Source THEN app.consumer = "iterate" /\ Emitted(Source, "end")
                         ELSE Emitted(r, "finish")

Channel == INSTANCE FifoChannel WITH
             Receivers <- Sinks \cup {Source},
             sent      <- [i \in 1..produced |-> i],
             received  <- [r \in Sinks \cup {Source} |-> got[r]],
             done      <- [r \in Sinks \cup {Source} |-> Told(r)]

(* What a program relies on when it pipes or iterates: every receiver gets *)
(* the chunks pushed, in order, each once, through any number of pauses,   *)
(* drains, buffered writes and direct deliveries, and "finish" or "end"    *)
(* comes only after the last of them.                                      *)
StreamsAreFifo == Channel!Spec

(* Backpressure.  The counter of a destination that is its source's only   *)
(* pipe is exactly what write() counted for the chunks it holds, and those *)
(* but the newest stay below its highWaterMark: the source pauses at the   *)
(* write that returned false and every later delivery respects the pause,  *)
(* also when chunks of length 0 or above the mark went before.             *)
Held(d) == (IF st[d].writing = None THEN <<>> ELSE <<st[d].writing>>) \o st[d].queue
Backpressure ==
  \A s \in Streams : Len(app.pipes[s]) = 1 =>
    LET d == app.pipes[s][1]
        held == Held(d)
    IN IF held = <<>> THEN wLen[d] = 0
       ELSE /\ wLen[d] = Counted(d, Last(held)) - Counted(d, Head(held) - 1)
            /\ Counted(d, Last(held) - 1) - Counted(d, Head(held) - 1) < app.hwm

Complete ==
  CASE app.consumer = "iterate"  -> iter = "done"
    [] app.consumer = "pipeline" -> settled = "ok"
    [] OTHER -> \A d \in Range(app.stages) \cap Sinks : Emitted(d, "finish")
(* Left alone, the flow completes: whatever mixture of synchronous and     *)
(* late callbacks, every chunk arrives and the consumer is told so.        *)
FlowCompletes == <>(upsets > 0 \/ Complete)

(* pipeline() calls back whatever stage fails, and when it reports an      *)
(* error every stage is torn down to its "close"; a stage destroyed        *)
(* without an error is excepted.                                           *)
TornDown == \A s \in Stages : st[s].destroyed /\ Emitted(s, "close")
PipelineSettles ==
  <>(\/ app.quiet \/ app.consumer # "pipeline"
     \/ settled = "ok" \/ (settled = "err" /\ TornDown))
=============================================================================
