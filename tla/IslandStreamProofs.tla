------------------------- MODULE IslandStreamProofs -------------------------
(***************************************************************************)
(* Theorems about IslandStream, for every set of streams and every forest  *)
(* of pipes: its types, the backpressure of a pipe, and the refinement of  *)
(* FifoChannel.                                                            *)
(***************************************************************************)
EXTENDS IslandStream, TLAPS, SequenceTheorems, FiniteSetTheorems

(* How far a stream is from the root of its tree of pipes.                 *)
Depths(p) == {depth \in [Streams -> 0..Cardinality(Streams)] :
                \A s \in Streams : \A d \in Range(p.pipes[s]) : depth[s] < depth[d]}
Depth == CHOOSE depth \in Depths(app) : TRUE

Calls == Range(stack)

(* The frames of a chunk under way, and the order of frames: a call of the *)
(* reading side has none of them below it, and they lead away from the     *)
(* root, so no two of one kind and stream are on the stack.                *)
Flow == {"emit", "wrote", "write", "transformed"}
FlowCalls == {f \in Calls : f.at \in Flow}
Level(D, f) == 3 * D[f.of] + (IF f.at = "emit" THEN 1 ELSE IF f.at = "wrote" THEN 2 ELSE 0)
Above(D, f, g) == g.at \in Flow => f.at \in Flow /\ Level(D, g) < Level(D, f)
Ordered(D, S) == \A i, j \in 1..Len(S) : i < j => Above(D, S[i], S[j])

(* Types, with the chunks that exist so far.                               *)
Chunk == 1..produced
FieldsOf(C) ==
  [buf : Seq(C), flowing : {"null", "on", "off"}, sync : BOOLEAN,
   ended : BOOLEAN, emittedEnd : BOOLEAN, reading : BOOLEAN, pushed : BOOLEAN,
   queue : Seq(C), writing : {None} \cup C, wEnded : BOOLEAN,
   finished : BOOLEAN, needDrain : BOOLEAN, finalCalled : BOOLEAN,
   destroyed : BOOLEAN, closed : BOOLEAN]
FramesOf(C) == [at : Places, of : Streams, chunk : {None} \cup C, to : Seq(Streams),
                ok : BOOLEAN]
Events == {"end", "finish", "error", "close"}
Typed ==
  /\ app \in Programs
  /\ produced \in 0..app.chunks /\ upsets \in 0..MaxUpsets
  /\ st \in [Streams -> FieldsOf(Chunk)]
  /\ ticks \in Seq(Tasks \X Streams)
  /\ stack \in Seq(FramesOf(Chunk))
  /\ wLen \in [Streams -> Nat] /\ asked \in Nat /\ final \subseteq Sinks
  /\ settled \in {"no", "ok", "err"}
  /\ iter \in {"idle", "waiting", "done", "failed"}
  /\ got \in [Streams -> Seq(Chunk)]
  /\ evs \in [Streams -> Seq(Events)]

(* What a frame carries.                                                   *)
FrameOK(f) ==
  /\ f.at = "emit" => f.chunk \in Chunk
  /\ f.at \in {"emit", "ending"} =>
       /\ Range(f.to) \subseteq Range(app.pipes[f.of])
       /\ \A i, j \in 1..Len(f.to) : f.to[i] = f.to[j] => i = j
  /\ f.at \in {"write", "transformed"} => st[f.of].writing # None
  /\ f.at = "transformed" => f.of \in Transforms
  /\ f.at = "ending" => st[f.of].emittedEnd
  /\ f.at = "final" => f.of \in Sinks /\ st[f.of].finalCalled
  /\ f.at = "tried" => f.of = Source /\ app.consumer = "iterate"
TickOK(t) ==
  /\ t[1] = "end" => st[t[2]].emittedEnd
  /\ t[1] \in {"runFinal", "finish"} => st[t[2]].finalCalled

(* The source is not written to; only a piped stream flows.                *)
Plain ==
  /\ st[Source].writing = None /\ st[Source].queue = <<>> /\ ~st[Source].wEnded
  /\ ~st[Source].finalCalled /\ ~st[Source].needDrain
  /\ \A s \in Streams : st[s].flowing = "on" => app.pipes[s] # <<>>
  /\ iter = "waiting" => app.consumer = "iterate"

(* The account of chunks.  A writable side has taken the chunks it got and *)
(* the one _write is called with, and accepted the queued ones as well; a  *)
(* pipe has passed on those and the one it is handing over; a readable     *)
(* side was given all that was pushed.                                     *)
In(d) == \E f \in Calls : f.at = "write" /\ f.of = d
Passing(d) == \E f \in Calls : f.at = "transformed" /\ f.of = d
Offers(s, d) ==
  {f.chunk : f \in {e \in Calls : e.at = "emit" /\ e.of = s /\ d \in Range(e.to)}}
Handing(s, d) == Offers(s, d) # {}
Taken(d) == IF In(d) THEN Len(got[d]) + 1 ELSE Len(got[d])
Accepted(d) == Taken(d) + Len(st[d].queue)
Passed(s, d) == IF Handing(s, d) THEN Accepted(d) + 1 ELSE Accepted(d)
Given(s) == IF s = Source THEN produced
            ELSE IF st[s].writing # None /\ ~Passing(s) THEN Taken(s) - 1 ELSE Taken(s)
Exact(s) == s = Source \/ st[s].writing # None \/ ~st[s].destroyed \/ st[s].emittedEnd

(* The chunks before those d holds, and what the newest it accepted counts. *)
Past(d) == IF st[d].writing = None THEN Taken(d) ELSE Taken(d) - 1
Newest(d) == IF Accepted(d) = 0 THEN 0 ELSE Weight(d, Accepted(d))
Measured(d) == wLen[d] = Counted(d, Accepted(d)) - Counted(d, Past(d))
Written1(d) ==
  /\ \A i \in 1..Len(got[d]) : got[d][i] = i
  /\ In(d) => st[d].writing = Len(got[d]) + 1
  /\ st[d].writing # None /\ ~In(d) => st[d].writing = Len(got[d])
  /\ \A i \in 1..Len(st[d].queue) : st[d].queue[i] = Taken(d) + i
  /\ Measured(d)
Link(s, d) ==
  ~st[d].destroyed =>
    /\ \A c \in Offers(s, d) : c = Accepted(d) + 1
    /\ \A i \in 1..Len(st[s].buf) : st[s].buf[i] = Passed(s, d) + i
    /\ Exact(s) => Passed(s, d) + Len(st[s].buf) = Given(s)
Iterated ==
  app.consumer = "iterate" =>
    /\ \A i \in 1..Len(st[Source].buf) : st[Source].buf[i] = Len(got[Source]) + i
    /\ Len(got[Source]) + Len(st[Source].buf) = produced
Account ==
  /\ \A d \in Streams : Written1(d)
  /\ \A s \in Streams : \A d \in Range(app.pipes[s]) : Link(s, d)
  /\ Iterated

(* The end of the stream travels behind the last chunk.                    *)
Over(s) ==
  /\ st[s].emittedEnd => st[s].ended /\ st[s].buf = <<>>
  /\ st[s].ended /\ s # Source => st[s].finalCalled
  /\ st[s].wEnded => st[Source].ended
  /\ st[s].wEnded /\ ~st[s].destroyed => Accepted(s) = produced
  /\ st[s].finalCalled =>
       /\ st[s].wEnded /\ Len(got[s]) = produced
       /\ st[s].writing = None /\ st[s].queue = <<>>
  /\ "end" \in Range(evs[s]) => st[s].emittedEnd
  /\ "finish" \in Range(evs[s]) => st[s].finalCalled
Ended ==
  /\ \A s \in Streams : Over(s)
  /\ \A s \in final : st[s].finalCalled

(* The state of a pipe that is its source's only one: while the            *)
(* destination asks for a pause, its source is paused or about to be, and  *)
(* the "drain" that resumes it finds it empty.  What it holds but for the  *)
(* newest chunk is below the highWaterMark.                                *)
Once(t, q) == \A i, j \in 1..Len(q) : q[i] = t /\ q[j] = t => i = j
Only(s, d) == Len(app.pipes[s]) = 1 /\ d \in Range(app.pipes[s])
DrainTick(d) == <<"drain", d>> \in Range(ticks)
Full(d) == st[d].needDrain \/ DrainTick(d)
Pausing(s) == \E f \in Calls : f.at = "wrote" /\ f.of = s /\ ~f.ok
Pressure(s, d) ==
  /\ Full(d) => st[s].flowing # "on" \/ Pausing(s)
  /\ Handing(s, d) => ~Full(d)
  /\ DrainTick(d) => wLen[d] = 0 /\ ~st[d].needDrain
  /\ Once(<<"drain", d>>, ticks)
  /\ wLen[d] < app.hwm + Newest(d)
Pressed ==
  /\ \A d \in Streams : wLen[d] >= app.hwm => st[d].needDrain
  /\ \A s, d \in Streams : Only(s, d) => Pressure(s, d)

Structure ==
  /\ Typed /\ Ordered(Depth, stack) /\ Plain
  /\ \A f \in Calls : FrameOK(f)
  /\ \A t \in Range(ticks) : TickOK(t)

Inv == Structure /\ Account /\ Ended /\ Pressed
-----------------------------------------------------------------------------
(* What Range, \o and Tail do.                                             *)
LEMMA InRange ==
  ASSUME NEW S, NEW s \in Seq(S)
  PROVE  /\ Range(s) = {s[i] : i \in 1..Len(s)}
         /\ Range(s) \subseteq S
BY DEF Range

(* Range, element by element.                                              *)
LEMMA MemRange ==
  ASSUME NEW S, NEW s \in Seq(S)
  PROVE  /\ \A i \in 1..Len(s) : s[i] \in Range(s)
         /\ \A x \in Range(s) : \E i \in 1..Len(s) : x = s[i]
BY InRange

(* Range and concatenation.                                                *)
LEMMA RangeConcat ==
  ASSUME NEW S, NEW a \in Seq(S), NEW b \in Seq(S)
  PROVE  a \o b \in Seq(S) /\ Range(a \o b) = Range(a) \cup Range(b)
<1>1. a \o b \in Seq(S) /\ Len(a \o b) = Len(a) + Len(b)
  OBVIOUS
<1>2. ASSUME NEW x \in Range(a) PROVE x \in Range(a \o b)
  <2>1. PICK i \in 1..Len(a) : x = a[i]
    BY MemRange
  <2>2. i \in 1..Len(a \o b) /\ (a \o b)[i] = x
    BY <1>1, <2>1
  <2> QED
    BY <1>1, <2>2, MemRange
<1>3. ASSUME NEW x \in Range(b) PROVE x \in Range(a \o b)
  <2>1. PICK i \in 1..Len(b) : x = b[i]
    BY MemRange
  <2>2. Len(a) + i \in 1..Len(a \o b) /\ (a \o b)[Len(a) + i] = x
    BY <1>1, <2>1
  <2> QED
    BY <1>1, <2>2, MemRange
<1>4. ASSUME NEW x \in Range(a \o b) PROVE x \in Range(a) \cup Range(b)
  <2>1. PICK i \in 1..Len(a \o b) : x = (a \o b)[i]
    BY <1>1, MemRange
  <2>2. CASE i <= Len(a)
    <3>1. i \in 1..Len(a) /\ x = a[i]
      BY <1>1, <2>1, <2>2
    <3> QED
      BY <3>1, MemRange
  <2>3. CASE i > Len(a)
    <3>1. i - Len(a) \in 1..Len(b) /\ x = b[i - Len(a)]
      BY <1>1, <2>1, <2>3
    <3> QED
      BY <3>1, MemRange
  <2> QED
    BY <1>1, <2>2, <2>3
<1> QED
  BY <1>1, <1>2, <1>3, <1>4

(* Range, head and tail.                                                   *)
LEMMA RangeTail ==
  ASSUME NEW S, NEW s \in Seq(S), s # <<>>
  PROVE  /\ Tail(s) \in Seq(S) /\ Head(s) \in S
         /\ Range(s) = {Head(s)} \cup Range(Tail(s))
<1>1. /\ Tail(s) \in Seq(S) /\ Head(s) = s[1] /\ Len(Tail(s)) = Len(s) - 1 /\ Len(s) >= 1
      /\ \A i \in 1..Len(Tail(s)) : Tail(s)[i] = s[i + 1]
  OBVIOUS
<1>2. ASSUME NEW x \in Range(s) PROVE x \in {Head(s)} \cup Range(Tail(s))
  <2>1. PICK i \in 1..Len(s) : x = s[i]
    BY MemRange
  <2>2. CASE i # 1
    <3>1. i - 1 \in 1..Len(Tail(s)) /\ Tail(s)[i - 1] = x
      BY <1>1, <2>1, <2>2
    <3> QED
      BY <1>1, <3>1, MemRange
  <2> QED
    BY <1>1, <2>1, <2>2
<1>3. Head(s) \in Range(s)
  BY <1>1, MemRange
<1>4. ASSUME NEW x \in Range(Tail(s)) PROVE x \in Range(s)
  <2>1. PICK i \in 1..Len(Tail(s)) : x = Tail(s)[i]
    BY <1>1, MemRange
  <2>2. i + 1 \in 1..Len(s) /\ s[i + 1] = x
    BY <1>1, <2>1
  <2> QED
    BY <2>2, MemRange
<1> QED
  BY <1>1, <1>2, <1>3, <1>4

(* Range of the short sequences.                                           *)
LEMMA RangeFew ==
  /\ Range(<<>>) = {}
  /\ \A a : Range(<<a>>) = {a}
  /\ \A a, b : Range(<<a, b>>) = {a, b}
BY DEF Range

(* A distinct sequence has its head once.                                  *)
LEMMA HeadOnce ==
  ASSUME NEW S, NEW s \in Seq(S), s # <<>>, \A i, j \in 1..Len(s) : s[i] = s[j] => i = j
  PROVE  /\ Head(s) \notin Range(Tail(s))
         /\ \A i, j \in 1..Len(Tail(s)) : Tail(s)[i] = Tail(s)[j] => i = j
<1>1. /\ Tail(s) \in Seq(S) /\ Head(s) = s[1] /\ Len(Tail(s)) = Len(s) - 1 /\ Len(s) >= 1
      /\ \A i \in 1..Len(Tail(s)) : Tail(s)[i] = s[i + 1] /\ i + 1 \in 1..Len(s)
  OBVIOUS
<1>2. ASSUME Head(s) \in Range(Tail(s)) PROVE FALSE
  <2>1. PICK i \in 1..Len(Tail(s)) : Head(s) = Tail(s)[i]
    BY <1>1, <1>2, MemRange
  <2> QED
    BY <1>1, <2>1
<1>3. ASSUME NEW i \in 1..Len(Tail(s)), NEW j \in 1..Len(Tail(s)), Tail(s)[i] = Tail(s)[j]
      PROVE  i = j
  BY <1>1, <1>3
<1> QED
  BY <1>2, <1>3

(* The order of frames along \o and Tail.                                  *)
LEMMA OrderedConcat ==
  ASSUME NEW D, NEW S, NEW a \in Seq(S), NEW b \in Seq(S), Ordered(D, a), Ordered(D, b),
         \A f \in Range(a), g \in Range(b) : Above(D, f, g)
  PROVE  Ordered(D, a \o b)
<1>1. /\ Len(a \o b) = Len(a) + Len(b) /\ Len(a) \in Nat /\ Len(b) \in Nat
      /\ \A i \in 1..Len(a) : (a \o b)[i] = a[i]
      /\ \A i \in (Len(a) + 1)..(Len(a) + Len(b)) :
           (a \o b)[i] = b[i - Len(a)] /\ i - Len(a) \in 1..Len(b)
  OBVIOUS
<1>2. ASSUME NEW i \in 1..Len(a \o b), NEW j \in 1..Len(a \o b), i < j
      PROVE  Above(D, (a \o b)[i], (a \o b)[j])
  <2>1. CASE j <= Len(a)
    <3>1. i \in 1..Len(a) /\ j \in 1..Len(a)
      BY <1>1, <1>2, <2>1
    <3> QED
      BY <1>1, <1>2, <3>1 DEF Ordered
  <2>2. CASE i > Len(a)
    <3>1. /\ i - Len(a) \in 1..Len(b) /\ j - Len(a) \in 1..Len(b) /\ i - Len(a) < j - Len(a)
          /\ (a \o b)[i] = b[i - Len(a)] /\ (a \o b)[j] = b[j - Len(a)]
      BY <1>1, <1>2, <2>2
    <3> QED
      BY <3>1 DEF Ordered
  <2>3. CASE i <= Len(a) /\ j > Len(a)
    <3>1. (a \o b)[i] = a[i] /\ i \in 1..Len(a) /\ (a \o b)[j] = b[j - Len(a)] /\ j - Len(a) \in 1..Len(b)
      BY <1>1, <1>2, <2>3
    <3>2. a[i] \in Range(a) /\ b[j - Len(a)] \in Range(b)
      BY <3>1, MemRange
    <3> QED
      BY <3>1, <3>2
  <2> QED
    BY <1>1, <2>1, <2>2, <2>3
<1> QED
  BY <1>2 DEF Ordered

(* The order of frames survives a return.                                  *)
LEMMA OrderedTail ==
  ASSUME NEW D, NEW S, NEW s \in Seq(S), s # <<>>, Ordered(D, s)
  PROVE  Ordered(D, Tail(s)) /\ \A g \in Range(Tail(s)) : Above(D, Head(s), g)
<1>1. /\ Tail(s) \in Seq(S) /\ Head(s) = s[1] /\ Len(Tail(s)) = Len(s) - 1 /\ Len(s) >= 1
      /\ \A i \in 1..Len(Tail(s)) : Tail(s)[i] = s[i + 1] /\ i + 1 \in 1..Len(s)
  OBVIOUS
<1>2. ASSUME NEW i \in 1..Len(Tail(s)), NEW j \in 1..Len(Tail(s)), i < j
      PROVE  Above(D, Tail(s)[i], Tail(s)[j])
  <2>1. i + 1 \in 1..Len(s) /\ j + 1 \in 1..Len(s) /\ i + 1 < j + 1
    BY <1>1, <1>2
  <2> QED
    BY <1>1, <2>1 DEF Ordered
<1>3. ASSUME NEW g \in Range(Tail(s)) PROVE Above(D, Head(s), g)
  <2>1. PICK i \in 1..Len(Tail(s)) : g = Tail(s)[i]
    BY <1>1, MemRange
  <2>2. 1 \in 1..Len(s) /\ i + 1 \in 1..Len(s) /\ 1 < i + 1
    BY <1>1, <2>1
  <2> QED
    BY <1>1, <2>1, <2>2 DEF Ordered
<1> QED
  BY <1>2, <1>3 DEF Ordered

(* Short stacks are in order.                                              *)
LEMMA OrderedFew ==
  ASSUME NEW D
  PROVE  /\ Ordered(D, <<>>)
         /\ \A a : Ordered(D, <<a>>)
         /\ \A a, b : Above(D, a, b) => Ordered(D, <<a, b>>)
BY DEF Ordered

(* Short concatenations.                                                   *)
LEMMA Joined ==
  /\ \A a, b : <<a>> \o <<b>> = <<a, b>>
  /\ \A a : <<>> \o <<a>> = <<a>>
<1>1. ASSUME NEW a, NEW b PROVE <<a>> \o <<b>> = <<a, b>>
  <2> DEFINE p == <<a>>  q == <<b>>  r == <<a, b>>
  <2>1. p \in Seq({a, b}) /\ q \in Seq({a, b}) /\ r \in Seq({a, b})
    OBVIOUS
  <2>2. Len(p) = 1 /\ Len(q) = 1 /\ Len(r) = 2 /\ p[1] = a /\ q[1] = b /\ r[1] = a /\ r[2] = b
    OBVIOUS
  <2> HIDE DEF p, q, r
  <2> DEFINE z == p \o q
  <2>3. /\ z \in Seq({a, b}) /\ Len(z) = Len(p) + Len(q)
        /\ \A i \in 1..(Len(p) + Len(q)) : z[i] = IF i <= Len(p) THEN p[i] ELSE q[i - Len(p)]
    BY <2>1, ConcatProperties
  <2> HIDE DEF z
  <2>4. Len(z) = 2 /\ z[1] = a /\ z[2] = b
    BY <2>2, <2>3
  <2>5. \A i \in 1..Len(z) : z[i] = r[i]
    BY <2>2, <2>4
  <2>6. z = r
    BY <2>1, <2>2, <2>3, <2>4, <2>5, SeqEqual
  <2> QED
    BY <2>6 DEF p, q, r, z
<1>2. ASSUME NEW a PROVE <<>> \o <<a>> = <<a>>
  OBVIOUS
<1> QED
  BY <1>1, <1>2

(* Range and append.                                                       *)
LEMMA RangeAppend ==
  ASSUME NEW S, NEW s \in Seq(S), NEW e \in S
  PROVE  Append(s, e) \in Seq(S) /\ Range(Append(s, e)) = Range(s) \cup {e}
<1> DEFINE a == Append(s, e)
<1>1. /\ a \in Seq(S) /\ Len(a) = Len(s) + 1 /\ a[Len(s) + 1] = e
      /\ \A i \in 1..Len(s) : a[i] = s[i]
  OBVIOUS
<1> HIDE DEF a
<1>2. Range(a) = {a[i] : i \in 1..Len(a)} /\ Range(s) = {s[i] : i \in 1..Len(s)}
  BY <1>1, InRange
<1>3. 1..Len(a) = (1..Len(s)) \cup {Len(s) + 1}
  BY <1>1
<1>4. Range(a) = Range(s) \cup {e}
  BY <1>1, <1>2, <1>3
<1> QED
  BY <1>1, <1>4 DEF a
-----------------------------------------------------------------------------
(* What the updates of a stream's fields change.                           *)
LEMMA SetBuf ==
  ASSUME NEW C, NEW f \in FieldsOf(C), NEW b \in Seq(C)
  PROVE  LET g == [f EXCEPT !.buf = b] IN
         /\ g \in FieldsOf(C)
         /\ g.buf = b /\ g.flowing = f.flowing /\ g.sync = f.sync /\ g.ended = f.ended
         /\ g.emittedEnd = f.emittedEnd /\ g.reading = f.reading /\ g.pushed = f.pushed
         /\ g.queue = f.queue /\ g.writing = f.writing /\ g.wEnded = f.wEnded
         /\ g.finished = f.finished /\ g.needDrain = f.needDrain
         /\ g.finalCalled = f.finalCalled /\ g.destroyed = f.destroyed /\ g.closed = f.closed
BY DEF FieldsOf

(* pause() and resume().                                                   *)
LEMMA SetFlowing ==
  ASSUME NEW C, NEW f \in FieldsOf(C), NEW b \in {"null", "on", "off"}
  PROVE  LET g == [f EXCEPT !.flowing = b] IN
         /\ g \in FieldsOf(C)
         /\ g.buf = f.buf /\ g.flowing = b /\ g.sync = f.sync /\ g.ended = f.ended
         /\ g.emittedEnd = f.emittedEnd /\ g.reading = f.reading /\ g.pushed = f.pushed
         /\ g.queue = f.queue /\ g.writing = f.writing /\ g.wEnded = f.wEnded
         /\ g.finished = f.finished /\ g.needDrain = f.needDrain
         /\ g.finalCalled = f.finalCalled /\ g.destroyed = f.destroyed /\ g.closed = f.closed
BY DEF FieldsOf

(* _callRead before it calls _read.                                        *)
LEMMA SetReading ==
  ASSUME NEW C, NEW f \in FieldsOf(C)
  PROVE  LET g == [f EXCEPT !.reading = TRUE, !.pushed = FALSE, !.sync = TRUE] IN
         /\ g \in FieldsOf(C)
         /\ g.buf = f.buf /\ g.flowing = f.flowing /\ g.sync = TRUE /\ g.ended = f.ended
         /\ g.emittedEnd = f.emittedEnd /\ g.reading = TRUE /\ g.pushed = FALSE
         /\ g.queue = f.queue /\ g.writing = f.writing /\ g.wEnded = f.wEnded
         /\ g.finished = f.finished /\ g.needDrain = f.needDrain
         /\ g.finalCalled = f.finalCalled /\ g.destroyed = f.destroyed /\ g.closed = f.closed
BY DEF FieldsOf

(* _callRead after _read returned.                                         *)
LEMMA SetRead ==
  ASSUME NEW C, NEW f \in FieldsOf(C)
  PROVE  LET g == [f EXCEPT !.sync = FALSE, !.reading = FALSE] IN
         /\ g \in FieldsOf(C)
         /\ g.buf = f.buf /\ g.flowing = f.flowing /\ g.sync = FALSE /\ g.ended = f.ended
         /\ g.emittedEnd = f.emittedEnd /\ g.reading = FALSE /\ g.pushed = f.pushed
         /\ g.queue = f.queue /\ g.writing = f.writing /\ g.wEnded = f.wEnded
         /\ g.finished = f.finished /\ g.needDrain = f.needDrain
         /\ g.finalCalled = f.finalCalled /\ g.destroyed = f.destroyed /\ g.closed = f.closed
BY DEF FieldsOf

(* push(null).                                                             *)
LEMMA SetEnded ==
  ASSUME NEW C, NEW f \in FieldsOf(C)
  PROVE  LET g == [f EXCEPT !.ended = TRUE] IN
         /\ g \in FieldsOf(C)
         /\ g.buf = f.buf /\ g.flowing = f.flowing /\ g.sync = f.sync /\ g.ended = TRUE
         /\ g.emittedEnd = f.emittedEnd /\ g.reading = f.reading /\ g.pushed = f.pushed
         /\ g.queue = f.queue /\ g.writing = f.writing /\ g.wEnded = f.wEnded
         /\ g.finished = f.finished /\ g.needDrain = f.needDrain
         /\ g.finalCalled = f.finalCalled /\ g.destroyed = f.destroyed /\ g.closed = f.closed
BY DEF FieldsOf

(* _maybeEmitEnd.                                                          *)
LEMMA SetEmitted ==
  ASSUME NEW C, NEW f \in FieldsOf(C), NEW b \in BOOLEAN
  PROVE  LET g == [f EXCEPT !.emittedEnd = b] IN
         /\ g \in FieldsOf(C)
         /\ g.buf = f.buf /\ g.flowing = f.flowing /\ g.sync = f.sync /\ g.ended = f.ended
         /\ g.emittedEnd = b /\ g.reading = f.reading /\ g.pushed = f.pushed
         /\ g.queue = f.queue /\ g.writing = f.writing /\ g.wEnded = f.wEnded
         /\ g.finished = f.finished /\ g.needDrain = f.needDrain
         /\ g.finalCalled = f.finalCalled /\ g.destroyed = f.destroyed /\ g.closed = f.closed
BY DEF FieldsOf

(* destroy().                                                              *)
LEMMA SetDestroyed ==
  ASSUME NEW C, NEW f \in FieldsOf(C)
  PROVE  LET g == Destroyed(f) IN
         /\ g \in FieldsOf(C)
         /\ g.buf = f.buf /\ g.flowing = f.flowing /\ g.sync = f.sync /\ g.ended = f.ended
         /\ g.emittedEnd = f.emittedEnd /\ g.reading = f.reading /\ g.pushed = f.pushed
         /\ g.queue = f.queue /\ g.writing = f.writing /\ g.wEnded = f.wEnded
         /\ g.finished = f.finished /\ g.needDrain = f.needDrain
         /\ g.finalCalled = f.finalCalled /\ g.destroyed = TRUE /\ g.closed = TRUE
BY DEF FieldsOf, Destroyed

(* The close.                                                              *)
LEMMA SetClosed ==
  ASSUME NEW C, NEW f \in FieldsOf(C), NEW b \in BOOLEAN
  PROVE  LET g == [f EXCEPT !.closed = b] IN
         /\ g \in FieldsOf(C)
         /\ g.buf = f.buf /\ g.flowing = f.flowing /\ g.sync = f.sync /\ g.ended = f.ended
         /\ g.emittedEnd = f.emittedEnd /\ g.reading = f.reading /\ g.pushed = f.pushed
         /\ g.queue = f.queue /\ g.writing = f.writing /\ g.wEnded = f.wEnded
         /\ g.finished = f.finished /\ g.needDrain = f.needDrain
         /\ g.finalCalled = f.finalCalled /\ g.destroyed = f.destroyed /\ g.closed = b
BY DEF FieldsOf

(* final() has called back.                                                *)
LEMMA SetFinished ==
  ASSUME NEW C, NEW f \in FieldsOf(C)
  PROVE  LET g == [f EXCEPT !.finished = TRUE] IN
         /\ g \in FieldsOf(C)
         /\ g.buf = f.buf /\ g.flowing = f.flowing /\ g.sync = f.sync /\ g.ended = f.ended
         /\ g.emittedEnd = f.emittedEnd /\ g.reading = f.reading /\ g.pushed = f.pushed
         /\ g.queue = f.queue /\ g.writing = f.writing /\ g.wEnded = f.wEnded
         /\ g.finished = TRUE /\ g.needDrain = f.needDrain /\ g.finalCalled = f.finalCalled
         /\ g.destroyed = f.destroyed /\ g.closed = f.closed
BY DEF FieldsOf

(* end().                                                                  *)
LEMMA SetWEnded ==
  ASSUME NEW C, NEW f \in FieldsOf(C)
  PROVE  LET g == [f EXCEPT !.wEnded = TRUE] IN
         /\ g \in FieldsOf(C)
         /\ g.buf = f.buf /\ g.flowing = f.flowing /\ g.sync = f.sync /\ g.ended = f.ended
         /\ g.emittedEnd = f.emittedEnd /\ g.reading = f.reading /\ g.pushed = f.pushed
         /\ g.queue = f.queue /\ g.writing = f.writing /\ g.wEnded = TRUE
         /\ g.finished = f.finished /\ g.needDrain = f.needDrain
         /\ g.finalCalled = f.finalCalled /\ g.destroyed = f.destroyed /\ g.closed = f.closed
BY DEF FieldsOf

(* _write starts or is done.                                               *)
LEMMA SetWriting ==
  ASSUME NEW C, NEW f \in FieldsOf(C), NEW w \in {None} \cup C
  PROVE  LET g == [f EXCEPT !.writing = w] IN
         /\ g \in FieldsOf(C)
         /\ g.buf = f.buf /\ g.flowing = f.flowing /\ g.sync = f.sync /\ g.ended = f.ended
         /\ g.emittedEnd = f.emittedEnd /\ g.reading = f.reading /\ g.pushed = f.pushed
         /\ g.queue = f.queue /\ g.writing = w /\ g.wEnded = f.wEnded
         /\ g.finished = f.finished /\ g.needDrain = f.needDrain
         /\ g.finalCalled = f.finalCalled /\ g.destroyed = f.destroyed /\ g.closed = f.closed
BY DEF FieldsOf
-----------------------------------------------------------------------------
(* A microtask that is queued once.                                        *)
LEMMA OnceConcat ==
  ASSUME NEW S, NEW q \in Seq(S), NEW n \in Seq(S), NEW t, Once(t, q), t \notin Range(n)
  PROVE  Once(t, q \o n)
<1>1. /\ Len(q \o n) = Len(q) + Len(n) /\ Len(q) \in Nat /\ Len(n) \in Nat
      /\ \A i \in 1..Len(q) : (q \o n)[i] = q[i]
      /\ \A i \in (Len(q) + 1)..(Len(q) + Len(n)) :
           (q \o n)[i] = n[i - Len(q)] /\ i - Len(q) \in 1..Len(n)
  OBVIOUS
<1>2. \A i \in 1..Len(n) : n[i] # t
  BY MemRange
<1>3. ASSUME NEW i \in 1..Len(q \o n), (q \o n)[i] = t
      PROVE  i \in 1..Len(q) /\ q[i] = t
  BY <1>1, <1>2, <1>3
<1> QED
  BY <1>3 DEF Once

(* A task queued once stays so when another one is taken.                  *)
LEMMA OnceTail ==
  ASSUME NEW S, NEW q \in Seq(S), q # <<>>, NEW t, Once(t, q)
  PROVE  Once(t, Tail(q)) /\ (Head(q) = t => t \notin Range(Tail(q)))
<1>1. /\ Tail(q) \in Seq(S) /\ Head(q) = q[1] /\ Len(Tail(q)) = Len(q) - 1 /\ Len(q) >= 1
      /\ \A i \in 1..Len(Tail(q)) : Tail(q)[i] = q[i + 1] /\ i + 1 \in 1..Len(q)
  OBVIOUS
<1>2. Once(t, Tail(q))
  BY <1>1 DEF Once
<1>3. ASSUME Head(q) = t, t \in Range(Tail(q)) PROVE FALSE
  <2>1. PICK i \in 1..Len(Tail(q)) : t = Tail(q)[i]
    BY <1>1, <1>3, MemRange
  <2>2. 1 \in 1..Len(q) /\ q[1] = t /\ q[i + 1] = t /\ i + 1 \in 1..Len(q) /\ i + 1 # 1
    BY <1>1, <1>3, <2>1
  <2> QED
    BY <2>2 DEF Once
<1> QED
  BY <1>2, <1>3

(* A task that was not queued is queued once.                              *)
LEMMA OnceNew ==
  ASSUME NEW S, NEW q \in Seq(S), NEW t \in S, t \notin Range(q)
  PROVE  Once(t, q \o <<t>>)
<1>1. /\ Len(q \o <<t>>) = Len(q) + 1 /\ Len(q) \in Nat
      /\ \A i \in 1..Len(q) : (q \o <<t>>)[i] = q[i]
  OBVIOUS
<1>2. \A i \in 1..Len(q) : q[i] # t
  BY MemRange
<1>3. ASSUME NEW i \in 1..Len(q \o <<t>>), (q \o <<t>>)[i] = t
      PROVE  i = Len(q) + 1
  BY <1>1, <1>2, <1>3
<1> QED
  BY <1>3 DEF Once

-----------------------------------------------------------------------------
(* The program and its pipes.                                              *)
LEMMA Pipes ==
  ASSUME Typed
  PROVE  /\ app.pipes \in [Streams -> Seq(Streams)] /\ app.stages \in Seq(Streams)
         /\ app.starts \in Seq(Streams) /\ app.finals \subseteq Sinks
         /\ app.hwm \in Nat /\ app.hwm > 0 /\ app.chunks \in 0..Chunks /\ produced \in Nat
         /\ \A s \in Streams : \A d \in Range(app.pipes[s]) :
              d \in Streams /\ d # Source /\ d \in Transforms \cup Sinks
         /\ \A s \in Streams : \A i, j \in 1..Len(app.pipes[s]) :
              app.pipes[s][i] = app.pipes[s][j] => i = j
         /\ \A s, t \in Streams : \A d \in Range(app.pipes[s]) :
              d \in Range(app.pipes[t]) => s = t
         /\ \A s \in Streams : app.pipes[s] # <<>> => s = Source \/ s \in Transforms
         /\ app.consumer = "iterate" => app.pipes[Source] = <<>>
         /\ app.upto \in [0..Chunks -> Nat]
         /\ \A m, n \in 0..Chunks : m <= n => app.upto[m] <= app.upto[n]
<1>1. ProgramOK(app) /\ Forest(app)
  BY ProgramsAssumption DEF Typed
<1>2. produced \in Nat /\ app.chunks \in 0..Chunks
  BY <1>1, StreamsAssumption DEF Typed, ProgramOK
<1>3. /\ app.pipes \in [Streams -> Seq(Streams)] /\ app.stages \in Seq(Streams)
      /\ app.starts \in Seq(Streams) /\ app.finals \subseteq Sinks
      /\ app.hwm \in Nat /\ app.hwm > 0
  BY <1>1 DEF ProgramOK
<1>4. /\ \A s \in Streams : Range(app.pipes[s]) \subseteq Transforms \cup Sinks
      /\ \A s \in Streams : \A i, j \in 1..Len(app.pipes[s]) :
           app.pipes[s][i] = app.pipes[s][j] => i = j
      /\ \A s, t \in Streams : Range(app.pipes[s]) \cap Range(app.pipes[t]) # {} => s = t
      /\ \A s \in Sinks : app.pipes[s] = <<>>
      /\ app.consumer = "iterate" => app.pipes[Source] = <<>>
  BY <1>1 DEF Forest
<1>5. \A d \in Transforms \cup Sinks : d \in Streams /\ d # Source
  BY StreamsAssumption
<1>6. \A s \in Streams : app.pipes[s] # <<>> => s = Source \/ s \in Transforms
  BY <1>4, StreamsAssumption
<1>7. \A s, t \in Streams : \A d \in Range(app.pipes[s]) : d \in Range(app.pipes[t]) => s = t
  BY <1>4
<1>8. /\ app.upto \in [0..Chunks -> Nat]
      /\ \A m, n \in 0..Chunks : m <= n => app.upto[m] <= app.upto[n]
  BY <1>1 DEF ProgramOK
<1> QED
  BY <1>2, <1>3, <1>4, <1>5, <1>6, <1>7, <1>8

(* What write() counts for the first n chunks.                             *)
LEMMA Counts ==
  ASSUME Typed, NEW d
  PROVE  /\ \A n \in 0..Chunks : Counted(d, n) \in Nat
         /\ \A m, n \in 0..Chunks : m <= n => Counted(d, m) <= Counted(d, n)
<1>1. /\ app.upto \in [0..Chunks -> Nat]
      /\ \A m, n \in 0..Chunks : m <= n => app.upto[m] <= app.upto[n]
  BY Pipes
<1> QED
  BY <1>1, StreamsAssumption DEF Counted

(* Pipes lead away from the root.                                          *)
LEMMA DepthFacts ==
  ASSUME Typed
  PROVE  /\ Depth \in [Streams -> Nat]
         /\ \A s \in Streams : \A d \in Range(app.pipes[s]) : Depth[s] < Depth[d]
<1>1. Depths(app) # {}
  BY ProgramsAssumption DEF Typed, Forest, Depths
<1>2. Depth \in Depths(app)
  BY <1>1 DEF Depth
<1>3. 0..Cardinality(Streams) \subseteq Nat
  OBVIOUS
<1> QED
  BY <1>2, <1>3 DEF Depths

(* The forest does not change.                                             *)
LEMMA DepthKept ==
  ASSUME app' = app
  PROVE  Depth' = Depth
BY DEF Depth, Depths

(* More chunks, more values.                                               *)
LEMMA Grows ==
  ASSUME produced \in Nat, produced' \in Nat, produced <= produced'
  PROVE  /\ Chunk \subseteq Chunk'
         /\ FieldsOf(Chunk) \subseteq FieldsOf(Chunk')
         /\ FramesOf(Chunk) \subseteq FramesOf(Chunk')
         /\ Seq(Chunk) \subseteq Seq(Chunk')
         /\ Seq(FramesOf(Chunk)) \subseteq Seq(FramesOf(Chunk'))
<1>1. Chunk \subseteq Chunk'
  BY DEF Chunk
<1>2. Seq(Chunk) \subseteq Seq(Chunk')
  BY <1>1
<1>3. FramesOf(Chunk) \subseteq FramesOf(Chunk')
  BY <1>1 DEF FramesOf
<1>4. Seq(FramesOf(Chunk)) \subseteq Seq(FramesOf(Chunk'))
  BY <1>3
<1>5. FieldsOf(Chunk) \subseteq FieldsOf(Chunk')
  BY <1>1, <1>2 DEF FieldsOf
<1> QED
  BY <1>1, <1>2, <1>3, <1>4, <1>5

(* The running frame and what is below it.                                 *)
LEMMA Top ==
  ASSUME Structure, stack # <<>>
  PROVE  /\ Head(stack) \in FramesOf(Chunk) /\ FrameOK(Head(stack)) /\ Self \in Streams
         /\ Rest \in Seq(Streams)
         /\ Under \in Seq(FramesOf(Chunk)) /\ Ordered(Depth, Under)
         /\ Calls = {Head(stack)} \cup Range(Under)
         /\ \A g \in Range(Under) : g \in FramesOf(Chunk) /\ FrameOK(g) /\ Above(Depth, Head(stack), g)
<1>1. stack \in Seq(FramesOf(Chunk)) /\ Ordered(Depth, stack)
  BY DEF Structure, Typed
<1>2. /\ Tail(stack) \in Seq(FramesOf(Chunk)) /\ Head(stack) \in FramesOf(Chunk)
      /\ Range(stack) = {Head(stack)} \cup Range(Tail(stack))
  BY <1>1, RangeTail
<1>3. Ordered(Depth, Tail(stack)) /\ \A g \in Range(Tail(stack)) : Above(Depth, Head(stack), g)
  BY <1>1, OrderedTail
<1>4. \A g \in Range(Tail(stack)) : g \in FramesOf(Chunk)
  BY <1>2, InRange
<1>5. \A g \in Range(stack) : FrameOK(g)
  BY DEF Structure, Calls
<1>6. Self \in Streams /\ Rest \in Seq(Streams)
  BY <1>2 DEF Self, Rest, FramesOf
<1> QED
  BY <1>2, <1>3, <1>4, <1>5, <1>6 DEF Under, Calls

(* A new stack: frames F on top of B.                                      *)
LEMMA Stacked ==
  ASSUME app' = app, NEW C, NEW F \in Seq(FramesOf(C)), NEW B \in Seq(FramesOf(C)),
         Ordered(Depth, F), Ordered(Depth, B),
         \A f \in Range(F), g \in Range(B) : Above(Depth, f, g),
         stack' = F \o B
  PROVE  /\ stack' \in Seq(FramesOf(C)) /\ Ordered(Depth', stack')
         /\ Calls' = Range(F) \cup Range(B)
<1>1. stack' \in Seq(FramesOf(C)) /\ Range(stack') = Range(F) \cup Range(B)
  BY RangeConcat
<1>2. Ordered(Depth, stack')
  BY OrderedConcat
<1>3. Depth' = Depth
  BY DepthKept
<1> QED
  BY <1>1, <1>2, <1>3 DEF Calls
-----------------------------------------------------------------------------
(* Steps in general.  The program stays, chunks and events only grow in    *)
(* number; nothing that happened to a stream is undone.                    *)
Onward ==
  /\ app' = app /\ produced' \in 0..app.chunks /\ produced <= produced'
  /\ upsets' \in 0..MaxUpsets /\ asked' \in Nat /\ final' \subseteq Sinks
  /\ wLen' \in [Streams -> Nat]
  /\ settled' \in {"no", "ok", "err"} /\ iter' \in {"idle", "waiting", "done", "failed"}
  /\ iter' = "waiting" => app.consumer = "iterate"
  /\ got' \in [Streams -> Seq(Chunk')] /\ evs' \in [Streams -> Seq(Events)]
Kept(s, f, g) ==
  /\ f.emittedEnd => g.emittedEnd
  /\ f.finalCalled => g.finalCalled
  /\ g.flowing = "on" => app.pipes[s] # <<>>
  /\ s = Source => /\ g.writing = None /\ g.queue = <<>> /\ ~g.wEnded
                   /\ ~g.finalCalled /\ ~g.needDrain
FieldsKept ==
  /\ st' \in [Streams -> FieldsOf(Chunk')]
  /\ \A s \in Streams : Kept(s, st[s], st'[s])
TicksKept(Q, N) ==
  /\ Q \in Seq(Tasks \X Streams) /\ N \in Seq(Tasks \X Streams)
  /\ Range(Q) \subseteq Range(ticks) /\ ticks' = Q \o N
  /\ \A t \in Range(N) : TickOK(t)'
FramesKept(F, B) ==
  /\ F \in Seq(FramesOf(Chunk')) /\ B \in Seq(FramesOf(Chunk))
  /\ Range(B) \subseteq Calls /\ stack' = F \o B
  /\ Ordered(Depth, F) /\ Ordered(Depth, B)
  /\ \A f \in Range(F), g \in Range(B) : Above(Depth, f, g)
  /\ \A f \in Range(F) : FrameOK(f)'
  /\ \A f \in Range(B) : f.at \in {"write", "transformed"} => st'[f.of].writing # None

(* A step that keeps these keeps the structure.                            *)
LEMMA StructureStep ==
  ASSUME Structure, Onward, FieldsKept, NEW Q, NEW N, TicksKept(Q, N),
         NEW F, NEW B, FramesKept(F, B)
  PROVE  Structure' /\ Calls' = Range(F) \cup Range(B)
<1>1. app' = app /\ produced \in Nat /\ produced' \in Nat /\ produced <= produced'
  BY Pipes DEF Structure, Onward
<1>2. B \in Seq(FramesOf(Chunk'))
  BY <1>1, Grows DEF FramesKept
<1>3. /\ stack' \in Seq(FramesOf(Chunk')) /\ Ordered(Depth', stack')
      /\ Calls' = Range(F) \cup Range(B)
  <2>1. F \in Seq(FramesOf(Chunk')) /\ stack' = F \o B /\ Ordered(Depth, F) /\ Ordered(Depth, B)
    BY DEF FramesKept
  <2>2. \A f \in Range(F), g \in Range(B) : Above(Depth, f, g)
    BY DEF FramesKept
  <2> QED
    BY <1>1, <1>2, <2>1, <2>2, Stacked
<1>4. ticks' \in Seq(Tasks \X Streams) /\ Range(ticks') = Range(Q) \cup Range(N)
  <2>1. Q \in Seq(Tasks \X Streams) /\ N \in Seq(Tasks \X Streams) /\ ticks' = Q \o N
    BY DEF TicksKept
  <2> HIDE DEF TicksKept
  <2> QED
    BY <2>1, RangeConcat
<1>5. Typed'
  BY <1>1, <1>3, <1>4 DEF Structure, Typed, Onward, FieldsKept
<1>6. Plain'
  <2>1. Source \in Streams
    BY StreamsAssumption
  <2> QED
    BY <1>1, <2>1 DEF Plain, Onward, FieldsKept, Kept
<1>7. ASSUME NEW f \in Calls' PROVE FrameOK(f)'
  <2>1. CASE f \in Range(F)
    BY <2>1 DEF FramesKept
  <2>2. CASE f \in Range(B)
    <3>1. FrameOK(f) /\ f \in FramesOf(Chunk)
      BY <2>2, InRange DEF FramesKept, Structure
    <3>2. f.of \in Streams
      BY <3>1 DEF FramesOf
    <3>3. /\ st[f.of].emittedEnd => st'[f.of].emittedEnd
          /\ st[f.of].finalCalled => st'[f.of].finalCalled
      BY <3>2 DEF FieldsKept, Kept
    <3>4. f.at \in {"write", "transformed"} => st'[f.of].writing # None
      BY <2>2 DEF FramesKept
    <3>5. f.chunk \in Chunk => f.chunk \in Chunk'
      BY <1>1, Grows
    <3> QED
      BY <1>1, <3>1, <3>3, <3>4, <3>5 DEF FrameOK
  <2> QED
    BY <1>3, <2>1, <2>2
<1>8. ASSUME NEW t \in Range(ticks') PROVE TickOK(t)'
  <2>1. CASE t \in Range(N)
    BY <2>1 DEF TicksKept
  <2>2. CASE t \in Range(Q)
    <3>1. t \in Range(ticks) /\ t \in Tasks \X Streams
      BY <2>2, InRange DEF TicksKept
    <3>2. TickOK(t) /\ t[2] \in Streams
      BY <3>1 DEF Structure
    <3> QED
      BY <3>2 DEF TickOK, FieldsKept, Kept
  <2> QED
    BY <1>4, <2>1, <2>2
<1> QED
  BY <1>3, <1>5, <1>6, <1>7, <1>8 DEF Structure

(* The counts are numbers.                                                 *)
LEMMA Numbers ==
  ASSUME Typed, NEW d \in Streams
  PROVE  /\ produced \in Nat /\ app.hwm \in Nat /\ app.hwm > 0
         /\ Len(got[d]) \in Nat /\ Len(st[d].queue) \in Nat /\ Len(st[d].buf) \in Nat
         /\ st[d].buf \in Seq(Chunk) /\ st[d].queue \in Seq(Chunk) /\ got[d] \in Seq(Chunk)
         /\ st[d].writing # None => st[d].writing \in Nat
         /\ st[d] \in FieldsOf(Chunk)
         /\ Taken(d) \in Nat /\ Accepted(d) \in Nat /\ wLen[d] \in Nat
         /\ \A s : Passed(s, d) \in Nat
<1>1. produced \in Nat /\ app.hwm \in Nat /\ app.hwm > 0
  BY Pipes
<1>2. st[d] \in FieldsOf(Chunk) /\ got[d] \in Seq(Chunk)
  BY DEF Typed
<1>3. st[d].buf \in Seq(Chunk) /\ st[d].queue \in Seq(Chunk) /\ st[d].writing \in {None} \cup Chunk
  BY <1>2 DEF FieldsOf
<1>4. st[d].writing # None => st[d].writing \in Nat
  BY <1>3 DEF Chunk
<1>5. Len(got[d]) \in Nat /\ Len(st[d].queue) \in Nat /\ Len(st[d].buf) \in Nat
  BY <1>2, <1>3
<1>6. Taken(d) \in Nat
  BY <1>5 DEF Taken
<1>7. Accepted(d) \in Nat /\ wLen[d] \in Nat
  <2>1. Accepted(d) \in Nat
    BY <1>5, <1>6 DEF Accepted
  <2>2. wLen[d] \in Nat
    BY DEF Typed
  <2> QED
    BY <2>1, <2>2
<1>8. \A s : Passed(s, d) \in Nat
  BY <1>7 DEF Passed
<1> QED
  BY <1>1, <1>2, <1>3, <1>4, <1>5, <1>6, <1>7, <1>8
-----------------------------------------------------------------------------
(* What a step that leaves a writable side alone keeps of the account.     *)
SameWrites(d) ==
  /\ got'[d] = got[d] /\ st'[d].queue = st[d].queue /\ st'[d].writing = st[d].writing
  /\ app' = app /\ wLen'[d] = wLen[d]
  /\ In(d)' <=> In(d)

(* An untouched account keeps the counter right.                           *)
LEMMA MeasureKept ==
  ASSUME NEW d, app' = app, wLen'[d] = wLen[d], Accepted(d)' = Accepted(d),
         Past(d)' = Past(d), Measured(d)
  PROVE  Measured(d)'
BY DEF Measured, Counted

(* What the newest chunk counts, when none is accepted.                    *)
LEMMA NewestKept ==
  ASSUME NEW d, app' = app, Accepted(d)' = Accepted(d)
  PROVE  Newest(d)' = Newest(d)
BY DEF Newest, Weight, Counted

(* An untouched writable side keeps its account.                           *)
LEMMA WritesKept ==
  ASSUME NEW d, SameWrites(d)
  PROVE  /\ Written1(d) => Written1(d)'
         /\ Taken(d)' = Taken(d) /\ Accepted(d)' = Accepted(d) /\ wLen'[d] = wLen[d]
<1>1. Taken(d)' = Taken(d)
  BY DEF Taken, SameWrites
<1>2. Accepted(d)' = Accepted(d)
  BY <1>1 DEF Accepted, SameWrites
<1>3. wLen'[d] = wLen[d]
  BY DEF SameWrites
<1>4. Measured(d) => Measured(d)'
  BY <1>1, <1>2, MeasureKept DEF SameWrites, Past
<1>5. Written1(d) => Written1(d)'
  BY <1>1, <1>4 DEF Written1, SameWrites
<1> QED
  BY <1>1, <1>2, <1>3, <1>5

(* What an untouched readable side was given.                              *)
LEMMA GivenKept ==
  ASSUME NEW s, SameWrites(s), Passing(s)' <=> Passing(s), produced' = produced
  PROVE  Given(s)' = Given(s)
BY WritesKept DEF Given, SameWrites

(* A pipe between two untouched sides keeps its account.                   *)
LEMMA LinkKept ==
  ASSUME NEW s, NEW d, Link(s, d), Accepted(d)' = Accepted(d), Offers(s, d)' = Offers(s, d),
         st'[s].buf = st[s].buf, Given(s)' = Given(s), Exact(s)' => Exact(s),
         st[d].destroyed => st'[d].destroyed
  PROVE  Link(s, d)'
<1>1. Passed(s, d)' = Passed(s, d)
  BY DEF Passed, Handing
<1> QED
  BY <1>1 DEF Link

(* The account depends on the frames of the chunks under way only.         *)
LEMMA FlowKept ==
  ASSUME FlowCalls' = FlowCalls
  PROVE  /\ \A d : (In(d)' <=> In(d)) /\ (Passing(d)' <=> Passing(d))
         /\ \A s, d : Offers(s, d)' = Offers(s, d)
         /\ \A s : Pausing(s)' <=> Pausing(s)
<1>1. \A f : f \in Calls' /\ f.at \in Flow <=> f \in Calls /\ f.at \in Flow
  BY DEF FlowCalls
<1>2. \A d : (In(d)' <=> In(d)) /\ (Passing(d)' <=> Passing(d))
  BY <1>1 DEF In, Passing, Flow
<1>3. \A s : Pausing(s)' <=> Pausing(s)
  BY <1>1 DEF Pausing, Flow
<1>4. \A s, d : Offers(s, d)' = Offers(s, d)
  BY <1>1 DEF Offers, Flow
<1> QED
  BY <1>2, <1>3, <1>4

(* Microtasks other than "drain" come and go.                              *)
OtherTicks(Q, N) ==
  /\ N \in Seq(Tasks \X Streams) /\ ticks' = Q \o N
  /\ Q = ticks \/ (ticks # <<>> /\ Head(ticks)[1] # "drain" /\ Q = Tail(ticks))
  /\ \A t \in Range(N) : t[1] # "drain"

(* ... and leave the pending "drain" tasks alone.                          *)
LEMMA DrainsKept ==
  ASSUME ticks \in Seq(Tasks \X Streams), NEW Q, NEW N, OtherTicks(Q, N)
  PROVE  /\ Q \in Seq(Tasks \X Streams) /\ Range(Q) \subseteq Range(ticks)
         /\ \A d : /\ DrainTick(d)' <=> DrainTick(d)
                   /\ Once(<<"drain", d>>, ticks) => Once(<<"drain", d>>, ticks')
<1>1. N \in Seq(Tasks \X Streams) /\ ticks' = Q \o N /\ \A t \in Range(N) : t[1] # "drain"
  BY DEF OtherTicks
<1>2. /\ Q \in Seq(Tasks \X Streams) /\ Range(Q) \subseteq Range(ticks)
      /\ \A d : <<"drain", d>> \in Range(ticks) => <<"drain", d>> \in Range(Q)
      /\ \A d : Once(<<"drain", d>>, ticks) => Once(<<"drain", d>>, Q)
  <2>1. CASE Q = ticks
    BY <2>1
  <2>2. CASE ticks # <<>> /\ Head(ticks)[1] # "drain" /\ Q = Tail(ticks)
    <3>1. Q \in Seq(Tasks \X Streams) /\ Range(ticks) = {Head(ticks)} \cup Range(Q)
      BY <2>2, RangeTail
    <3>2. \A d : <<"drain", d>> # Head(ticks)
      BY <2>2
    <3>3. \A d : Once(<<"drain", d>>, ticks) => Once(<<"drain", d>>, Q)
      BY <2>2, OnceTail
    <3> QED
      BY <3>1, <3>2, <3>3
  <2> QED
    BY <2>1, <2>2 DEF OtherTicks
<1>3. Range(ticks') = Range(Q) \cup Range(N)
  BY <1>1, <1>2, RangeConcat
<1>4. \A d : <<"drain", d>> \notin Range(N)
  BY <1>1
<1>5. \A d : Once(<<"drain", d>>, ticks) => Once(<<"drain", d>>, ticks')
  BY <1>1, <1>2, <1>4, OnceConcat
<1> QED
  BY <1>2, <1>3, <1>4, <1>5 DEF DrainTick
-----------------------------------------------------------------------------
(* A calm step moves no chunk: it marks streams as ended, emitted, closed  *)
(* or destroyed, pauses them, and works on frames outside the flow.        *)
Calmed(s, f, g) ==
  /\ g.buf = f.buf /\ g.queue = f.queue /\ g.writing = f.writing
  /\ g.needDrain = f.needDrain /\ g.wEnded = f.wEnded /\ g.finalCalled = f.finalCalled
  /\ f.destroyed => g.destroyed
  /\ f.ended => g.ended
  /\ g.ended => f.ended \/ s = Source \/ f.finalCalled
  /\ f.emittedEnd => g.emittedEnd
  /\ g.emittedEnd => f.emittedEnd \/ (~f.destroyed /\ g.ended /\ f.buf = <<>>)
  /\ g.flowing = "on" => f.flowing = "on"
CalmFields ==
  /\ st' \in [Streams -> FieldsOf(Chunk)]
  /\ \A s \in Streams : Calmed(s, st[s], st'[s])
CalmRest ==
  /\ app' = app /\ produced' = produced /\ got' = got /\ wLen' = wLen
  /\ upsets' \in 0..MaxUpsets /\ asked' \in Nat /\ final' \subseteq Sinks
  /\ settled' \in {"no", "ok", "err"} /\ iter' \in {"idle", "waiting", "done", "failed"}
  /\ iter' = "waiting" => app.consumer = "iterate"
  /\ \A s \in final' : s \in final \/ st[s].finalCalled
  /\ evs' \in [Streams -> Seq(Events)]
  /\ \A s \in Streams :
       /\ "end" \in Range(evs'[s]) => "end" \in Range(evs[s]) \/ st[s].emittedEnd
       /\ "finish" \in Range(evs'[s]) => "finish" \in Range(evs[s]) \/ st[s].finalCalled
CalmTicks(Q, N) ==
  /\ OtherTicks(Q, N)
  /\ \A t \in Range(N) :
       /\ t[1] = "end" => st'[t[2]].emittedEnd
       /\ t[1] \in {"runFinal", "finish"} => st[t[2]].finalCalled
CalmFrames(F, B) ==
  /\ F \in Seq(FramesOf(Chunk)) /\ stack' = F \o B
  /\ \A f \in Range(F) : f.at \notin Flow /\ FrameOK(f)
  /\ \/ stack = <<>> /\ B = <<>>
     \/ F = <<>> /\ B = stack
     \/ stack # <<>> /\ Head(stack).at \notin Flow /\ B = Under

(* The chunks under way are below the frames of a calm step.               *)
LEMMA CalmBelow ==
  ASSUME Structure, NEW F, NEW B, CalmFrames(F, B)
  PROVE  /\ B \in Seq(FramesOf(Chunk)) /\ Range(B) \subseteq Calls /\ Ordered(Depth, B)
         /\ \A f \in Calls : f.at \in Flow => f \in Range(B)
         /\ Ordered(Depth, F)
         /\ \A f \in Range(F), g \in Range(B) : Above(Depth, f, g)
<1>1. stack \in Seq(FramesOf(Chunk)) /\ Ordered(Depth, stack) /\ <<>> \in Seq(FramesOf(Chunk))
  BY DEF Structure, Typed
<1>2. F \in Seq(FramesOf(Chunk)) /\ \A f \in Range(F) : f.at \notin Flow
  BY DEF CalmFrames
<1>3. /\ B \in Seq(FramesOf(Chunk)) /\ Range(B) \subseteq Calls /\ Ordered(Depth, B)
      /\ \A f \in Calls : f.at \in Flow => f \in Range(B)
      /\ F = <<>> \/ \A g \in Range(B) : g.at \notin Flow
  <2>1. CASE stack = <<>> /\ B = <<>>
    BY <1>1, <2>1, RangeFew, OrderedFew DEF Calls
  <2>2. CASE F = <<>> /\ B = stack
    BY <1>1, <2>2 DEF Calls
  <2>3. CASE stack # <<>> /\ Head(stack).at \notin Flow /\ B = Under
    BY <2>3, Top DEF Above
  <2> QED
    BY <2>1, <2>2, <2>3 DEF CalmFrames
<1>4. Ordered(Depth, F)
  <2>1. ASSUME NEW i \in 1..Len(F) PROVE F[i].at \notin Flow
    BY <1>2, MemRange
  <2> QED
    BY <2>1 DEF Ordered, Above
<1>5. \A f \in Range(F), g \in Range(B) : Above(Depth, f, g)
  <2>1. CASE F = <<>>
    BY <2>1, RangeFew
  <2>2. CASE \A g \in Range(B) : g.at \notin Flow
    BY <2>2 DEF Above
  <2> QED
    BY <1>3, <2>1, <2>2
<1> QED
  BY <1>3, <1>4, <1>5

(* A calm step keeps the structure,                                        *)
LEMMA CalmStructure ==
  ASSUME Structure, CalmFields, CalmRest, NEW Q, NEW N, CalmTicks(Q, N),
         NEW F, NEW B, CalmFrames(F, B)
  PROVE  Structure' /\ FlowCalls' = FlowCalls
<1>1. app' = app /\ produced' = produced /\ Chunk' = Chunk /\ produced \in Nat
  BY Pipes DEF CalmRest, Chunk, Structure
<1>2. Onward
  BY <1>1 DEF Onward, CalmRest, Structure, Typed
<1>3. FieldsKept
  <2>1. ASSUME NEW s \in Streams PROVE Kept(s, st[s], st'[s])
    <3>1. st'[s].flowing = "on" => app.pipes[s] # <<>>
      BY DEF CalmFields, Calmed, Structure, Plain
    <3> QED
      BY <3>1 DEF CalmFields, Calmed, Kept, Structure, Plain
  <2> QED
    BY <1>1, <2>1 DEF FieldsKept, CalmFields
<1>4. TicksKept(Q, N)
  <2>1. OtherTicks(Q, N) /\ ticks \in Seq(Tasks \X Streams)
    BY DEF CalmTicks, Structure, Typed
  <2>2. Q \in Seq(Tasks \X Streams) /\ Range(Q) \subseteq Range(ticks)
    BY <2>1, DrainsKept
  <2>3. ASSUME NEW t \in Range(N) PROVE TickOK(t)'
    <3>1. t \in Tasks \X Streams
      BY <2>1, InRange DEF OtherTicks
    <3>2. t[2] \in Streams
      BY <3>1
    <3> QED
      BY <3>2 DEF CalmTicks, TickOK, CalmFields, Calmed
  <2> QED
    BY <2>1, <2>2, <2>3 DEF TicksKept, OtherTicks
<1>5. /\ B \in Seq(FramesOf(Chunk)) /\ Range(B) \subseteq Calls /\ Ordered(Depth, B)
      /\ \A f \in Calls : f.at \in Flow => f \in Range(B)
      /\ Ordered(Depth, F)
      /\ \A f \in Range(F), g \in Range(B) : Above(Depth, f, g)
  BY CalmBelow
<1>6. FramesKept(F, B)
  <2>1. ASSUME NEW f \in Range(F) PROVE FrameOK(f)'
    <3>1. f.at \notin Flow /\ FrameOK(f) /\ f \in FramesOf(Chunk)
      BY InRange DEF CalmFrames
    <3>2. f.of \in Streams
      BY <3>1 DEF FramesOf
    <3>3. /\ st[f.of].emittedEnd => st'[f.of].emittedEnd
          /\ st[f.of].finalCalled => st'[f.of].finalCalled
      BY <3>2 DEF CalmFields, Calmed
    <3> QED
      BY <1>1, <3>1, <3>3 DEF FrameOK, Flow
  <2>2. ASSUME NEW f \in Range(B), f.at \in {"write", "transformed"}
        PROVE  st'[f.of].writing # None
    <3>1. FrameOK(f) /\ f \in FramesOf(Chunk)
      BY <1>5, InRange DEF Structure
    <3>2. f.of \in Streams /\ st[f.of].writing # None
      BY <2>2, <3>1 DEF FramesOf, FrameOK
    <3> QED
      BY <3>2 DEF CalmFields, Calmed
  <2> QED
    BY <1>1, <1>5, <2>1, <2>2 DEF FramesKept, CalmFrames
<1>7. Structure' /\ Calls' = Range(F) \cup Range(B)
  BY <1>2, <1>3, <1>4, <1>6, StructureStep
<1>8. \A f \in Range(F) : f.at \notin Flow
  BY DEF CalmFrames
<1> QED
  BY <1>5, <1>7, <1>8 DEF FlowCalls

(* ... the account,                                                        *)
LEMMA CalmAccount ==
  ASSUME Account, CalmFields, CalmRest, FlowCalls' = FlowCalls, Typed
  PROVE  Account' /\ \A d \in Streams : SameWrites(d)
<1>1. app' = app /\ produced' = produced /\ got' = got /\ wLen' = wLen
  BY DEF CalmRest
<1>2. ASSUME NEW d \in Streams PROVE SameWrites(d)
  BY <1>1, FlowKept DEF SameWrites, CalmFields, Calmed
<1>3. ASSUME NEW d \in Streams PROVE Written1(d)'
  BY <1>2, WritesKept DEF Account
<1>4. ASSUME NEW s \in Streams, NEW d \in Range(app.pipes[s]) PROVE Link(s, d)'
  <2>1. d \in Streams
    BY Pipes
  <2>2. Given(s)' = Given(s)
    BY <1>1, <1>2, FlowKept, GivenKept
  <2>3. Exact(s)' => Exact(s)
    BY DEF Exact, CalmFields, Calmed
  <2>4. st'[s].buf = st[s].buf /\ (st[d].destroyed => st'[d].destroyed)
    BY <2>1 DEF CalmFields, Calmed
  <2>5. Link(s, d)
    BY DEF Account
  <2>6. Offers(s, d)' = Offers(s, d)
    BY FlowKept
  <2>7. Accepted(d)' = Accepted(d)
    BY <1>2, <2>1, WritesKept
  <2> QED
    BY <2>2, <2>3, <2>4, <2>5, <2>6, <2>7, LinkKept
<1>5. Iterated'
  <2>1. st'[Source].buf = st[Source].buf
    BY StreamsAssumption DEF CalmFields, Calmed
  <2> QED
    BY <1>1, <2>1 DEF Account, Iterated
<1> QED
  BY <1>1, <1>2, <1>3, <1>4, <1>5 DEF Account

(* ... the end behind the last chunk,                                      *)
LEMMA CalmEnded ==
  ASSUME Ended, CalmFields, CalmRest, \A d \in Streams : SameWrites(d), Typed
  PROVE  Ended'
<1>1. produced' = produced /\ got' = got /\ final' \subseteq Sinks /\ Sinks \subseteq Streams
  BY StreamsAssumption DEF CalmRest
<1>2. ASSUME NEW s \in Streams PROVE Over(s)'
  <2>1. Over(s) /\ Calmed(s, st[s], st'[s]) /\ Accepted(s)' = Accepted(s)
    BY WritesKept DEF Ended, CalmFields
  <2>2. st[Source].ended => st'[Source].ended
    BY StreamsAssumption DEF CalmFields, Calmed
  <2>3. st'[s].emittedEnd => st'[s].ended /\ st'[s].buf = <<>>
    BY <2>1 DEF Over, Calmed
  <2>4. st'[s].ended /\ s # Source => st'[s].finalCalled
    BY <2>1 DEF Over, Calmed
  <2>5. st'[s].wEnded => st'[Source].ended
    BY <2>1, <2>2 DEF Over, Calmed
  <2>6. st'[s].wEnded /\ ~st'[s].destroyed => Accepted(s)' = produced'
    BY <1>1, <2>1 DEF Over, Calmed
  <2>7. st'[s].finalCalled => /\ st'[s].wEnded /\ Len(got'[s]) = produced'
                               /\ st'[s].writing = None /\ st'[s].queue = <<>>
    BY <1>1, <2>1 DEF Over, Calmed
  <2>8. /\ "end" \in Range(evs'[s]) => st'[s].emittedEnd
        /\ "finish" \in Range(evs'[s]) => st'[s].finalCalled
    BY <2>1 DEF Over, Calmed, CalmRest
  <2> QED
    BY <2>3, <2>4, <2>5, <2>6, <2>7, <2>8 DEF Over
<1>3. ASSUME NEW s \in final' PROVE st'[s].finalCalled
  <2>1. s \in Streams /\ st[s].finalCalled
    BY <1>1 DEF Ended, CalmRest
  <2> QED
    BY <2>1 DEF CalmFields, Calmed
<1> QED
  BY <1>2, <1>3 DEF Ended

(* ... and the pressure.                                                   *)
LEMMA CalmPressed ==
  ASSUME Pressed, CalmFields, CalmRest, FlowCalls' = FlowCalls, Typed,
         NEW Q, NEW N, OtherTicks(Q, N), \A d \in Streams : SameWrites(d)
  PROVE  Pressed'
<1>1. app' = app
  BY DEF CalmRest
<1>2. ASSUME NEW d \in Streams
      PROVE  /\ wLen'[d] = wLen[d] /\ st'[d].needDrain = st[d].needDrain
             /\ Newest(d)' = Newest(d)
  BY <1>1, WritesKept, NewestKept DEF CalmFields, Calmed
<1>3. ASSUME NEW s \in Streams, NEW d \in Streams, Only(s, d)' PROVE Pressure(s, d)'
  <2>1. Only(s, d) /\ Pressure(s, d)
    BY <1>1, <1>3 DEF Only, Pressed
  <2>2. /\ DrainTick(d)' <=> DrainTick(d)
        /\ Once(<<"drain", d>>, ticks) => Once(<<"drain", d>>, ticks')
    BY DrainsKept DEF Typed
  <2>3. Full(d)' <=> Full(d)
    BY <1>2, <2>2 DEF Full
  <2>4. (Pausing(s)' <=> Pausing(s)) /\ Offers(s, d)' = Offers(s, d)
    BY FlowKept
  <2>5. st'[s].flowing = "on" => st[s].flowing = "on"
    BY DEF CalmFields, Calmed
  <2> QED
    BY <1>1, <1>2, <2>1, <2>2, <2>3, <2>4, <2>5 DEF Pressure, Handing
<1> QED
  BY <1>1, <1>2, <1>3 DEF Pressed

(* So a calm step keeps the invariant.                                     *)
LEMMA CalmStep ==
  ASSUME Inv, CalmFields, CalmRest, NEW Q, NEW N, CalmTicks(Q, N),
         NEW F, NEW B, CalmFrames(F, B)
  PROVE  Inv'
<1>1. Structure /\ Account /\ Ended /\ Pressed /\ Typed
  BY DEF Inv, Structure
<1>2. Structure' /\ FlowCalls' = FlowCalls
  BY <1>1, CalmStructure
<1>3. Account' /\ \A d \in Streams : SameWrites(d)
  BY <1>1, <1>2, CalmAccount
<1>4. Ended'
  BY <1>1, <1>3, CalmEnded
<1>5. Pressed'
  BY <1>1, <1>2, <1>3, CalmPressed DEF CalmTicks
<1> QED
  BY <1>2, <1>3, <1>4, <1>5 DEF Inv
-----------------------------------------------------------------------------
(* The parts of a calm step.                                               *)
LEMMA FieldsSame ==
  ASSUME Inv, st' = st
  PROVE  CalmFields
BY DEF CalmFields, Calmed, Inv, Structure, Typed

(* A calm step changes at most one stream.                                 *)
LEMMA FieldsOne ==
  ASSUME Inv, NEW x \in Streams, NEW g \in FieldsOf(Chunk), Calmed(x, st[x], g),
         st' = [st EXCEPT ![x] = g]
  PROVE  CalmFields /\ st'[x] = g
<1>1. st \in [Streams -> FieldsOf(Chunk)]
  BY DEF Inv, Structure, Typed
<1>2. st' \in [Streams -> FieldsOf(Chunk)] /\ st'[x] = g
      /\ \A s \in Streams \ {x} : st'[s] = st[s]
  BY <1>1
<1>3. ASSUME NEW s \in Streams PROVE Calmed(s, st[s], st'[s])
  <2>1. CASE s = x
    BY <1>2, <2>1
  <2>2. CASE s # x
    <3>1. st'[s] = st[s]
      BY <1>2, <2>2
    <3> QED
      BY <3>1 DEF Calmed
  <2> QED
    BY <2>1, <2>2
<1> QED
  BY <1>2, <1>3 DEF CalmFields

(* Two calm changes of one stream are one.                                 *)
LEMMA CalmTwice ==
  ASSUME NEW s, NEW f, NEW g, NEW h, Calmed(s, f, g), Calmed(s, g, h)
  PROVE  Calmed(s, f, h)
BY Zenon DEF Calmed

(* Nothing else changes.                                                   *)
LEMMA RestSame ==
  ASSUME Inv, UNCHANGED <<app, wLen, asked, final, settled, iter, produced, got, evs, upsets>>
  PROVE  CalmRest
BY DEF CalmRest, Inv, Structure, Typed, Plain

(* No microtask comes or goes.                                             *)
LEMMA TicksSame ==
  ASSUME Inv, ticks' = ticks
  PROVE  CalmTicks(ticks, <<>>)
<1>1. ticks \in Seq(Tasks \X Streams)
  BY DEF Inv, Structure, Typed
<1>2. ticks = ticks \o <<>> /\ <<>> \in Seq(Tasks \X Streams)
  BY <1>1
<1> QED
  BY <1>2, RangeFew DEF CalmTicks, OtherTicks

(* Short queues of microtasks.                                             *)
LEMMA FewTicks ==
  /\ <<>> \in Seq(Tasks \X Streams)
  /\ \A t \in Tasks \X Streams : <<t>> \in Seq(Tasks \X Streams)
  /\ \A t, u \in Tasks \X Streams : <<t>> \o <<u>> \in Seq(Tasks \X Streams)
  /\ \A t, u \in Tasks \X Streams : Range(<<t>> \o <<u>>) = {t, u}
<1>1. /\ <<>> \in Seq(Tasks \X Streams)
      /\ \A t \in Tasks \X Streams : <<t>> \in Seq(Tasks \X Streams)
  OBVIOUS
<1>2. ASSUME NEW t \in Tasks \X Streams, NEW u \in Tasks \X Streams
      PROVE  <<t>> \o <<u>> \in Seq(Tasks \X Streams) /\ Range(<<t>> \o <<u>>) = {t, u}
  <2> DEFINE a == <<t>>  b == <<u>>
  <2>1. a \in Seq(Tasks \X Streams) /\ b \in Seq(Tasks \X Streams)
    BY <1>1
  <2>2. Range(a) = {t} /\ Range(b) = {u}
    BY RangeFew
  <2>3. a \o b \in Seq(Tasks \X Streams) /\ Range(a \o b) = {t, u}
    <3> HIDE DEF a, b
    <3> QED
      BY <2>1, <2>2, RangeConcat
  <2> QED
    BY <2>3
<1> QED
  BY <1>1, <1>2

(* One calm microtask is queued.                                           *)
LEMMA TicksOne ==
  ASSUME NEW Q, NEW N \in Seq(Tasks \X Streams), ticks' = Q \o N,
         NEW t, Range(N) \subseteq {t}, t[1] # "drain", t[1] # "end",
         t[1] \in {"runFinal", "finish"} => st[t[2]].finalCalled,
         Q = ticks \/ (ticks # <<>> /\ Head(ticks)[1] # "drain" /\ Q = Tail(ticks))
  PROVE  CalmTicks(Q, N)
<1>1. ASSUME NEW u \in Range(N) PROVE u = t
  OBVIOUS
<1> QED
  BY <1>1 DEF CalmTicks, OtherTicks

(* What _maybeEmitEnd queues.                                              *)
LEMMA EndTicks ==
  ASSUME NEW C, NEW s \in Streams, NEW f \in FieldsOf(C)
  PROVE  /\ MaybeEmitEnd(f) \in FieldsOf(C) /\ Calmed(s, f, MaybeEmitEnd(f))
         /\ EndTick(s, f) \in Seq(Tasks \X Streams)
         /\ \A t \in Range(EndTick(s, f)) :
              t = <<"end", s>> /\ MaybeEmitEnd(f).emittedEnd
<1>1. f.emittedEnd \in BOOLEAN /\ f.ended \in BOOLEAN /\ f.destroyed \in BOOLEAN
  BY DEF FieldsOf
<1> DEFINE b == f.emittedEnd \/ Ends(f)
<1>2. b \in BOOLEAN
  BY DEF Ends
<1>3. MaybeEmitEnd(f) = [f EXCEPT !.emittedEnd = b]
  BY DEF MaybeEmitEnd
<1>4. /\ f.emittedEnd => b
      /\ b => f.emittedEnd \/ (~f.destroyed /\ f.ended /\ f.buf = <<>>)
  BY DEF Ends
<1>5. MaybeEmitEnd(f) \in FieldsOf(C) /\ Calmed(s, f, MaybeEmitEnd(f))
  <2> HIDE DEF b
  <2> QED
    BY <1>2, <1>3, <1>4, SetEmitted DEF Calmed
<1>6. EndTick(s, f) \in Seq(Tasks \X Streams) /\ Range(EndTick(s, f)) \subseteq {<<"end", s>>}
  BY RangeFew, FewTicks DEF EndTick, Tasks
<1>7. \A t \in Range(EndTick(s, f)) : Ends(f)
  BY RangeFew DEF EndTick
<1>8. Ends(f) => b
  OBVIOUS
<1>9. MaybeEmitEnd(f).emittedEnd = b
  <2> HIDE DEF b
  <2> QED
    BY <1>2, <1>3, SetEmitted
<1> QED
  BY <1>5, <1>6, <1>7, <1>8, <1>9

(* destroy() is calm.                                                      *)
LEMMA DestroyCalm ==
  ASSUME NEW C, NEW s \in Streams, NEW f \in FieldsOf(C), NEW err \in BOOLEAN
  PROVE  /\ Destroyed(f) \in FieldsOf(C) /\ Calmed(s, f, Destroyed(f))
         /\ DestroyTicks(s, f, err) \in Seq(Tasks \X Streams)
         /\ \A t \in Range(DestroyTicks(s, f, err)) : t[1] \in {"error", "close"}
<1>1. Destroyed(f) \in FieldsOf(C) /\ Calmed(s, f, Destroyed(f))
  BY SetDestroyed DEF Calmed
<1> DEFINE a == IF err THEN <<<<"error", s>>>> ELSE <<>>
           b == IF f.closed THEN <<>> ELSE <<<<"close", s>>>>
<1>2. a \in Seq(Tasks \X Streams) /\ Range(a) \subseteq {<<"error", s>>}
  BY RangeFew, FewTicks DEF Tasks
<1>3. b \in Seq(Tasks \X Streams) /\ Range(b) \subseteq {<<"close", s>>}
  BY RangeFew, FewTicks DEF Tasks
<1>4. DestroyTicks(s, f, err) = IF f.destroyed THEN <<>> ELSE a \o b
  BY DEF DestroyTicks
<1> HIDE DEF a, b
<1>5. a \o b \in Seq(Tasks \X Streams) /\ Range(a \o b) = Range(a) \cup Range(b)
  BY <1>2, <1>3, RangeConcat
<1>6. \A t \in Range(a \o b) : t[1] \in {"error", "close"}
  BY <1>2, <1>3, <1>5
<1> QED
  BY <1>1, <1>4, <1>5, <1>6, FewTicks, RangeFew

(* Frames that are not of the flow.                                        *)
Harmless == {"drain", "emitData", "callRead", "read", "again"}

(* The frames of the reading side need nothing.                            *)
LEMMA PlaceOK ==
  ASSUME NEW s \in Streams, NEW a \in Harmless
  PROVE  /\ Place(a, s) \in FramesOf(Chunk) /\ FrameOK(Place(a, s))
         /\ Place(a, s).at \notin Flow
<1>1. Place(a, s) = [at |-> a, of |-> s, chunk |-> None, to |-> <<>>, ok |-> TRUE]
  BY DEF Place, Frame
<1>2. <<>> \in Seq(Streams) /\ a \in Places
  BY DEF Harmless, Places
<1>3. Place(a, s) \in FramesOf(Chunk)
  BY <1>1, <1>2 DEF FramesOf
<1>4. Place(a, s).at = a
  BY <1>1
<1> QED
  BY <1>3, <1>4 DEF FrameOK, Flow, Harmless

(* The stack stays.                                                        *)
LEMMA CalmStay ==
  ASSUME Inv, stack' = stack
  PROVE  CalmFrames(<<>>, stack)
<1>1. <<>> \in Seq(FramesOf(Chunk)) /\ stack \in Seq(FramesOf(Chunk))
  BY DEF Inv, Structure, Typed
<1>2. stack = <<>> \o stack
  BY <1>1
<1> QED
  BY <1>1, <1>2, RangeFew DEF CalmFrames

Freed(B) == \/ stack = <<>> /\ B = <<>>
            \/ stack # <<>> /\ Head(stack).at \notin Flow /\ B = Under

(* The running frame returns.                                              *)
LEMMA CalmEmpty ==
  ASSUME NEW B, Freed(B), stack' = <<>> \o B
  PROVE  CalmFrames(<<>>, B)
<1>1. <<>> \in Seq(FramesOf(Chunk))
  OBVIOUS
<1> QED
  BY <1>1, RangeFew DEF CalmFrames, Freed

(* The running frame gives way to another one.                             *)
LEMMA CalmPlace ==
  ASSUME NEW f \in FramesOf(Chunk), FrameOK(f), f.at \notin Flow, NEW B, Freed(B),
         stack' = <<f>> \o B
  PROVE  CalmFrames(<<f>>, B)
<1>1. <<f>> \in Seq(FramesOf(Chunk)) /\ Range(<<f>>) = {f}
  BY RangeFew
<1> QED
  BY <1>1 DEF CalmFrames, Freed

(* The running frame gives way to two others.                              *)
LEMMA CalmPlaces ==
  ASSUME NEW f \in FramesOf(Chunk), FrameOK(f), f.at \notin Flow,
         NEW g \in FramesOf(Chunk), FrameOK(g), g.at \notin Flow, NEW B, Freed(B),
         stack' = <<f, g>> \o B
  PROVE  CalmFrames(<<f, g>>, B)
<1>1. <<f, g>> \in Seq(FramesOf(Chunk)) /\ Range(<<f, g>>) = {f, g}
  BY RangeFew
<1> QED
  BY <1>1 DEF CalmFrames, Freed
-----------------------------------------------------------------------------
(* The calm actions of the reading side: the stack's top is a frame of     *)
(* _drainData, _emitData or _callRead.                                     *)
LEMMA AtTop ==
  ASSUME Inv, NEW a, At(a), a \notin Flow
  PROVE  /\ Freed(Under) /\ Self \in Streams /\ st[Self] \in FieldsOf(Chunk)
         /\ Head(stack).at = a /\ FrameOK(Head(stack)) /\ Rest \in Seq(Streams)
         /\ Head(stack) \in FramesOf(Chunk)
<1>1. stack # <<>> /\ Head(stack).at = a
  BY DEF At
<1>2. Self \in Streams /\ FrameOK(Head(stack)) /\ Rest \in Seq(Streams)
      /\ Head(stack) \in FramesOf(Chunk)
  BY <1>1, Top DEF Inv
<1>3. st[Self] \in FieldsOf(Chunk)
  BY <1>2 DEF Inv, Structure, Typed
<1> QED
  BY <1>1, <1>2, <1>3 DEF Freed

(* The microtask of _maybeEmitEnd.                                         *)
LEMMA TicksEnd ==
  ASSUME Inv, NEW s \in Streams, NEW f \in FieldsOf(Chunk),
         st'[s].emittedEnd = MaybeEmitEnd(f).emittedEnd, ticks' = ticks \o EndTick(s, f)
  PROVE  CalmTicks(ticks, EndTick(s, f))
<1>1. /\ EndTick(s, f) \in Seq(Tasks \X Streams)
      /\ \A t \in Range(EndTick(s, f)) : t = <<"end", s>> /\ MaybeEmitEnd(f).emittedEnd
  BY EndTicks
<1> QED
  BY <1>1 DEF CalmTicks, OtherTicks

(* The microtasks of destroy().                                            *)
LEMMA TicksDestroy ==
  ASSUME Inv, NEW s \in Streams, NEW f \in FieldsOf(Chunk), NEW err \in BOOLEAN,
         ticks' = ticks \o DestroyTicks(s, f, err)
  PROVE  CalmTicks(ticks, DestroyTicks(s, f, err))
<1>1. /\ DestroyTicks(s, f, err) \in Seq(Tasks \X Streams)
      /\ \A t \in Range(DestroyTicks(s, f, err)) : t[1] \in {"error", "close"}
  BY DestroyCalm
<1> QED
  BY <1>1 DEF CalmTicks, OtherTicks

(* _drainData has nothing to emit.                                         *)
LEMMA DrainDataEnds ==
  ASSUME Inv, DrainData, ~(st[Self].flowing = "on" /\ st[Self].buf # <<>> /\ ~st[Self].destroyed)
  PROVE  Inv'
<1> DEFINE s == Self  f == st[s]
<1>1. Freed(Under) /\ s \in Streams /\ f \in FieldsOf(Chunk)
  BY AtTop DEF DrainData, Flow
<1>2. /\ st' = [st EXCEPT ![s] = MaybeEmitEnd(f)] /\ ticks' = ticks \o EndTick(s, f)
      /\ stack' = <<>> \o Under
  BY DEF DrainData, Tick, Call
<1>3. UNCHANGED <<app, wLen, asked, final, settled, iter, produced, got, evs, upsets>>
  BY DEF DrainData
<1> HIDE DEF s, f
<1>4. MaybeEmitEnd(f) \in FieldsOf(Chunk) /\ Calmed(s, f, MaybeEmitEnd(f))
  BY <1>1, EndTicks
<1>5. CalmFields /\ st'[s] = MaybeEmitEnd(f)
  BY <1>1, <1>2, <1>4, FieldsOne DEF f
<1>6. CalmTicks(ticks, EndTick(s, f))
  BY <1>1, <1>2, <1>5, TicksEnd
<1>7. CalmFrames(<<>>, Under)
  BY <1>1, <1>2, CalmEmpty
<1> QED
  BY <1>3, <1>5, <1>6, <1>7, RestSame, CalmStep

(* _emitData, after the drain.                                             *)
LEMMA EmitDataRestKeeps ==
  ASSUME Inv, EmitDataRest
  PROVE  Inv'
<1>1. Freed(Under) /\ Self \in Streams
  BY AtTop DEF EmitDataRest, Flow
<1>2. /\ UNCHANGED <<app, wLen, asked, final, settled, iter, produced, got, evs, upsets>>
      /\ st' = st /\ ticks' = ticks
      /\ stack' = <<>> \o Under \/ stack' = <<Place("callRead", Self)>> \o Under
  BY DEF EmitDataRest, Call
<1>3. CalmFields /\ CalmRest /\ CalmTicks(ticks, <<>>)
  BY <1>2, FieldsSame, RestSame, TicksSame
<1>4. CASE stack' = <<>> \o Under
  BY <1>1, <1>3, <1>4, CalmEmpty, CalmStep
<1>5. CASE stack' = <<Place("callRead", Self)>> \o Under
  <2>1. CalmFrames(<<Place("callRead", Self)>>, Under)
    BY <1>1, <1>5, PlaceOK, CalmPlace DEF Harmless
  <2> QED
    BY <1>3, <2>1, CalmStep
<1> QED
  BY <1>2, <1>4, <1>5

(* The loop of _callRead.                                                  *)
LEMMA ReadAgainKeeps ==
  ASSUME Inv, ReadAgain
  PROVE  Inv'
<1>1. Freed(Under) /\ Self \in Streams
  BY AtTop DEF ReadAgain, Flow
<1>2. /\ UNCHANGED <<app, wLen, asked, final, settled, iter, produced, got, evs, upsets>>
      /\ st' = st /\ ticks' = ticks
      /\ stack' = <<>> \o Under \/ stack' = <<Place("callRead", Self)>> \o Under
  BY DEF ReadAgain, Call
<1>3. CalmFields /\ CalmRest /\ CalmTicks(ticks, <<>>)
  BY <1>2, FieldsSame, RestSame, TicksSame
<1>4. CASE stack' = <<>> \o Under
  BY <1>1, <1>3, <1>4, CalmEmpty, CalmStep
<1>5. CASE stack' = <<Place("callRead", Self)>> \o Under
  <2>1. CalmFrames(<<Place("callRead", Self)>>, Under)
    BY <1>1, <1>5, PlaceOK, CalmPlace DEF Harmless
  <2> QED
    BY <1>3, <2>1, CalmStep
<1> QED
  BY <1>2, <1>4, <1>5

(* _callRead.                                                              *)
LEMMA CallReadKeeps ==
  ASSUME Inv, CallRead
  PROVE  Inv'
<1> DEFINE s == Self  f == st[s]
           g == [f EXCEPT !.reading = TRUE, !.pushed = FALSE, !.sync = TRUE]
<1>1. Freed(Under) /\ s \in Streams /\ f \in FieldsOf(Chunk)
  BY AtTop DEF CallRead, Flow
<1>2. /\ UNCHANGED <<app, wLen, asked, final, settled, iter, produced, got, evs, upsets>>
      /\ ticks' = ticks
      /\ \/ st' = st /\ stack' = <<>> \o Under
         \/ st' = [st EXCEPT ![s] = g] /\ stack' = <<Place("read", s)>> \o Under
  BY DEF CallRead, Call
<1>3. g \in FieldsOf(Chunk) /\ Calmed(s, f, g)
  <2> HIDE DEF f, s
  <2> QED
    BY <1>1, SetReading, ZenonT(30) DEF Calmed
<1>4. CalmRest /\ CalmTicks(ticks, <<>>)
  BY <1>2, RestSame, TicksSame
<1> HIDE DEF g, f, s
<1>5. CASE st' = st /\ stack' = <<>> \o Under
  BY <1>1, <1>4, <1>5, FieldsSame, CalmEmpty, CalmStep
<1>6. CASE st' = [st EXCEPT ![s] = g] /\ stack' = <<Place("read", s)>> \o Under
  <2>1. CalmFields
    BY <1>1, <1>3, <1>6, FieldsOne DEF f
  <2>2. CalmFrames(<<Place("read", s)>>, Under)
    BY <1>1, <1>6, PlaceOK, CalmPlace DEF Harmless
  <2> QED
    BY <1>4, <2>1, <2>2, CalmStep
<1> QED
  BY <1>2, <1>5, <1>6

(* read() pushes null.                                                     *)
LEMMA ReadEndsKeeps ==
  ASSUME Inv, ReadEnds
  PROVE  Inv'
<1> DEFINE f == PushNull(Source)
<1>1. Source \in Streams /\ st[Source] \in FieldsOf(Chunk)
  BY StreamsAssumption DEF Inv, Structure, Typed
<1>2. f \in FieldsOf(Chunk) /\ Calmed(Source, st[Source], f)
  BY <1>1, SetEnded DEF PushNull, Calmed
<1>3. MaybeEmitEnd(f) \in FieldsOf(Chunk) /\ Calmed(Source, f, MaybeEmitEnd(f))
  BY <1>1, <1>2, EndTicks
<1>4. /\ UNCHANGED <<app, wLen, asked, final, settled, iter, produced, got, evs, upsets>>
      /\ st' = [st EXCEPT ![Source] = MaybeEmitEnd(f)] /\ ticks' = ticks \o EndTick(Source, f)
      /\ stack' = stack
  BY DEF ReadEnds, Tick
<1> HIDE DEF f
<1>5. Calmed(Source, st[Source], MaybeEmitEnd(f))
  BY <1>2, <1>3, CalmTwice
<1>6. CalmFields /\ st'[Source] = MaybeEmitEnd(f)
  BY <1>1, <1>3, <1>4, <1>5, FieldsOne
<1>7. CalmTicks(ticks, EndTick(Source, f))
  BY <1>1, <1>2, <1>4, <1>6, TicksEnd
<1> QED
  BY <1>4, <1>6, <1>7, RestSame, CalmStay, CalmStep

(* _read returns or throws.                                                *)
LEMMA ReadReturnsKeeps ==
  ASSUME Inv, NEW throws \in BOOLEAN, ReadReturns(throws)
  PROVE  Inv'
<1> DEFINE s == Self
           h == st[s]
           g == [h EXCEPT !.sync = FALSE, !.reading = FALSE]
           f == IF throws THEN Destroyed(g) ELSE g
<1>1. Freed(Under) /\ s \in Streams /\ h \in FieldsOf(Chunk)
  BY AtTop DEF ReadReturns, Flow
<1>2. g \in FieldsOf(Chunk) /\ Calmed(s, h, g)
  <2> HIDE DEF s, h
  <2> QED
    BY <1>1, SetRead, ZenonT(30) DEF Calmed
<1>3. /\ throws => upsets < MaxUpsets
      /\ upsets' = IF throws THEN upsets + 1 ELSE upsets
      /\ asked' \in {asked, asked + 1}
      /\ UNCHANGED <<app, wLen, final, settled, iter, produced, got, evs>>
  BY DEF ReadReturns
<1>4. IF f.flowing = "on"
      THEN st' = [st EXCEPT ![s] = f] /\ stack' = <<Place("drain", s), Place("again", s)>> \o Under
      ELSE st' = [st EXCEPT ![s] = MaybeEmitEnd(f)] /\ stack' = <<Place("again", s)>> \o Under
  BY DEF ReadReturns, Call
<1>5. ticks' = ticks \o (IF throws THEN DestroyTicks(s, g, TRUE)
                         ELSE IF f.flowing = "on" THEN <<>> ELSE EndTick(s, f))
  BY DEF ReadReturns, Tick
<1> HIDE DEF g, s
<1>6. f \in FieldsOf(Chunk) /\ Calmed(s, g, f)
  BY <1>1, <1>2, DestroyCalm DEF Calmed
<1>7. Calmed(s, st[s], f) /\ (throws => f.destroyed)
  BY <1>2, <1>6, CalmTwice, SetDestroyed
<1> HIDE DEF f
<1>8. MaybeEmitEnd(f) \in FieldsOf(Chunk) /\ Calmed(s, st[s], MaybeEmitEnd(f))
  BY <1>1, <1>6, <1>7, EndTicks, CalmTwice
<1>9. CalmRest
  <2>1. upsets' \in 0..MaxUpsets
    BY <1>3, StreamsAssumption DEF Inv, Structure, Typed
  <2>2. asked' \in Nat
    BY <1>3 DEF Inv, Structure, Typed
  <2> QED
    BY <1>3, <2>1, <2>2 DEF CalmRest, Inv, Structure, Typed, Plain
<1>10. PICK N : CalmTicks(ticks, N)
  <2>1. CASE throws
    <3>1. ticks' = ticks \o DestroyTicks(s, g, TRUE)
      BY <1>5, <2>1
    <3>2. CalmTicks(ticks, DestroyTicks(s, g, TRUE))
      BY <1>1, <1>2, <3>1, TicksDestroy
    <3> QED
      BY <3>2
  <2>2. CASE ~throws /\ f.flowing = "on"
    <3>1. ticks' = ticks \o <<>>
      BY <1>5, <2>2
    <3>2. ticks' = ticks
      BY <3>1 DEF Inv, Structure, Typed
    <3> QED
      BY <3>2, TicksSame
  <2>3. CASE ~throws /\ f.flowing # "on"
    <3>1. ticks' = ticks \o EndTick(s, f)
      BY <1>5, <2>3
    <3>2. st'[s] = MaybeEmitEnd(f)
      BY <1>1, <1>4, <1>8, <2>3, FieldsOne
    <3>3. CalmTicks(ticks, EndTick(s, f))
      BY <1>1, <1>6, <3>1, <3>2, TicksEnd
    <3> QED
      BY <3>3
  <2> QED
    BY <2>1, <2>2, <2>3
<1>11. CASE f.flowing = "on"
  <2>1. CalmFields
    BY <1>1, <1>4, <1>6, <1>7, <1>11, FieldsOne
  <2>2. CalmFrames(<<Place("drain", s), Place("again", s)>>, Under)
    BY <1>1, <1>4, <1>11, PlaceOK, CalmPlaces DEF Harmless
  <2> QED
    BY <1>9, <1>10, <2>1, <2>2, CalmStep
<1>12. CASE f.flowing # "on"
  <2>1. CalmFields
    BY <1>1, <1>4, <1>8, <1>12, FieldsOne
  <2>2. CalmFrames(<<Place("again", s)>>, Under)
    BY <1>1, <1>4, <1>12, PlaceOK, CalmPlace DEF Harmless
  <2> QED
    BY <1>9, <1>10, <2>1, <2>2, CalmStep
<1> QED
  BY <1>11, <1>12

(* push(null) between microtasks.                                          *)
LEMMA EndLaterKeeps ==
  ASSUME Inv, EndLater
  PROVE  Inv'
<1> DEFINE f == PushNull(Source)
<1>1. Source \in Streams /\ st[Source] \in FieldsOf(Chunk)
  BY StreamsAssumption DEF Inv, Structure, Typed
<1>2. f \in FieldsOf(Chunk) /\ Calmed(Source, st[Source], f)
  BY <1>1, SetEnded DEF PushNull, Calmed
<1>3. MaybeEmitEnd(f) \in FieldsOf(Chunk) /\ Calmed(Source, f, MaybeEmitEnd(f))
  BY <1>1, <1>2, EndTicks
<1>4. /\ UNCHANGED <<app, wLen, final, settled, iter, produced, got, evs, upsets>>
      /\ st' = [st EXCEPT ![Source] = MaybeEmitEnd(f)] /\ ticks' = ticks \o EndTick(Source, f)
      /\ stack' = stack
  BY DEF EndLater, Tick
<1> HIDE DEF f
<1>5. Calmed(Source, st[Source], MaybeEmitEnd(f))
  BY <1>2, <1>3, CalmTwice
<1>6. CalmFields /\ st'[Source] = MaybeEmitEnd(f)
  BY <1>1, <1>3, <1>4, <1>5, FieldsOne
<1>7. CalmTicks(ticks, EndTick(Source, f))
  BY <1>1, <1>2, <1>4, <1>6, TicksEnd
<1>8. CalmRest
  <2>1. asked' \in Nat
    BY DEF EndLater, Answers, Answered, Inv, Structure, Typed
  <2> QED
    BY <1>4, <2>1 DEF CalmRest, Inv, Structure, Typed, Plain
<1> QED
  BY <1>4, <1>6, <1>7, <1>8, CalmStay, CalmStep

(* destroy(), between two microtasks, by a pipeline, or by the iterator.   *)
LEMMA DestroyKeeps ==
  ASSUME Inv, NEW s \in Streams, NEW err \in BOOLEAN, Destroy(s, err)
  PROVE  Inv'
<1>1. st[s] \in FieldsOf(Chunk)
  BY DEF Inv, Structure, Typed
<1>2. /\ UNCHANGED <<app, wLen, stack, asked, final, settled, iter, produced, got, evs>>
      /\ upsets < MaxUpsets /\ upsets' = upsets + 1
      /\ st' = [st EXCEPT ![s] = Destroyed(st[s])]
      /\ ticks' = ticks \o DestroyTicks(s, st[s], err)
  BY DEF Destroy, Tick
<1>3. CalmFields
  BY <1>1, <1>2, DestroyCalm, FieldsOne
<1>4. CalmRest
  <2>1. upsets' \in 0..MaxUpsets
    BY <1>2, StreamsAssumption DEF Inv, Structure, Typed
  <2> QED
    BY <1>2, <2>1 DEF CalmRest, Inv, Structure, Typed, Plain
<1>5. CalmTicks(ticks, DestroyTicks(s, st[s], err))
  BY <1>1, <1>2, TicksDestroy
<1> QED
  BY <1>2, <1>3, <1>4, <1>5, CalmStay, CalmStep

(* The iterator stops early.                                               *)
LEMMA IterReturnKeeps ==
  ASSUME Inv, IterReturn
  PROVE  Inv'
<1>1. Source \in Streams /\ st[Source] \in FieldsOf(Chunk)
  BY StreamsAssumption DEF Inv, Structure, Typed
<1>2. /\ UNCHANGED <<app, wLen, stack, asked, final, settled, produced, got, evs>>
      /\ upsets < MaxUpsets /\ upsets' = upsets + 1 /\ iter' = "done"
      /\ st' = [st EXCEPT ![Source] = Destroyed(st[Source])]
      /\ ticks' = ticks \o DestroyTicks(Source, st[Source], FALSE)
  BY DEF IterReturn, Tick
<1>3. CalmFields
  BY <1>1, <1>2, DestroyCalm, FieldsOne
<1>4. CalmRest
  <2>1. upsets' \in 0..MaxUpsets
    BY <1>2, StreamsAssumption DEF Inv, Structure, Typed
  <2> QED
    BY <1>2, <2>1 DEF CalmRest, Inv, Structure, Typed, Plain
<1>5. CalmTicks(ticks, DestroyTicks(Source, st[Source], FALSE))
  BY <1>1, <1>2, TicksDestroy
<1> QED
  BY <1>2, <1>3, <1>4, <1>5, CalmStay, CalmStep

(* pipeline() destroys its stages.                                         *)
LEMMA TeardownKeeps ==
  ASSUME Inv, Teardown
  PROVE  Inv'
<1> DEFINE s == Head(Rest)
           f == Frame("teardown", Source, None, Tail(Rest), TRUE)
<1>1. Freed(Under) /\ Rest \in Seq(Streams)
  BY AtTop DEF Teardown, Flow
<1>2. CalmRest
  BY RestSame DEF Teardown
<1>3. CASE Rest = <<>>
  <2>1. st' = st /\ ticks' = ticks /\ stack' = <<>> \o Under
    BY <1>3 DEF Teardown, Call
  <2> QED
    BY <1>1, <1>2, <2>1, FieldsSame, TicksSame, CalmEmpty, CalmStep
<1>4. CASE Rest # <<>>
  <2>1. /\ st' = [st EXCEPT ![s] = Destroyed(st[s])]
        /\ ticks' = ticks \o DestroyTicks(s, st[s], TRUE) /\ stack' = <<f>> \o Under
    BY <1>4 DEF Teardown, Call, Tick
  <2>2. s \in Streams /\ Tail(Rest) \in Seq(Streams)
    BY <1>1, <1>4, RangeTail
  <2>3. f \in FramesOf(Chunk) /\ f.at = "teardown"
    BY <2>2, StreamsAssumption DEF Frame, FramesOf, Places
  <2>4. FrameOK(f) /\ f.at \notin Flow
    BY <2>3 DEF FrameOK, Flow
  <2> HIDE DEF s, f
  <2>5. st[s] \in FieldsOf(Chunk)
    BY <2>2 DEF Inv, Structure, Typed
  <2>6. CalmFields
    BY <2>1, <2>2, <2>5, DestroyCalm, FieldsOne
  <2>7. CalmTicks(ticks, DestroyTicks(s, st[s], TRUE))
    BY <2>1, <2>2, <2>5, TicksDestroy
  <2>8. CalmFrames(<<f>>, Under)
    BY <1>1, <2>1, <2>3, <2>4, CalmPlace
  <2> QED
    BY <1>2, <2>6, <2>7, <2>8, CalmStep
<1> QED
  BY <1>3, <1>4

(* The final() hook of a sink.                                             *)
LEMMA FinishKeeps ==
  ASSUME Inv, NEW d \in Streams, NEW err \in BOOLEAN, NEW B, Finish(d, err, B), Freed(B),
         st[d].finalCalled, UNCHANGED <<app, wLen, asked, settled, iter, produced, got, evs>>,
         final' \subseteq final
  PROVE  Inv'
<1> DEFINE f == st[d]
           g == IF err THEN Destroyed(f) ELSE [f EXCEPT !.finished = TRUE]
<1>1. f \in FieldsOf(Chunk)
  BY DEF Inv, Structure, Typed
<1>2. /\ err => upsets < MaxUpsets
      /\ upsets' = IF err THEN upsets + 1 ELSE upsets
      /\ st' = [st EXCEPT ![d] = g]
      /\ ticks' = ticks \o (IF err THEN DestroyTicks(d, f, TRUE) ELSE <<<<"finish", d>>>>)
      /\ stack' = B
  BY DEF Finish, Tick
<1>3. g \in FieldsOf(Chunk) /\ Calmed(d, f, g)
  <2> HIDE DEF f
  <2> QED
    BY <1>1, DestroyCalm, SetFinished DEF Calmed
<1> HIDE DEF g
<1>4. CalmFields
  BY <1>2, <1>3, FieldsOne
<1>5. CalmRest
  <2>1. upsets' \in 0..MaxUpsets
    BY <1>2, StreamsAssumption DEF Inv, Structure, Typed
  <2> QED
    BY <2>1 DEF CalmRest, Inv, Structure, Typed, Plain
<1>6. PICK N : CalmTicks(ticks, N)
  <2>1. CASE err
    <3>1. CalmTicks(ticks, DestroyTicks(d, f, TRUE))
      BY <1>1, <1>2, <2>1, TicksDestroy
    <3> QED
      BY <3>1
  <2>2. CASE ~err
    <3>1. ticks' = ticks \o <<<<"finish", d>>>>
      BY <1>2, <2>2
    <3> DEFINE n == <<<<"finish", d>>>>
    <3>2. n \in Seq(Tasks \X Streams) /\ Range(n) \subseteq {<<"finish", d>>}
      BY RangeFew, FewTicks DEF Tasks
    <3>3. ticks' = ticks \o n
      BY <3>1
    <3> HIDE DEF n
    <3>4. CalmTicks(ticks, n)
      BY <3>2, <3>3, TicksOne
    <3> QED
      BY <3>4
  <2> QED
    BY <2>1, <2>2
<1>7. CalmFrames(<<>>, B)
  <2>1. stack \in Seq(FramesOf(Chunk)) /\ <<>> \in Seq(FramesOf(Chunk))
    BY DEF Inv, Structure, Typed
  <2>2. B \in Seq(FramesOf(Chunk))
    BY <2>1, Top DEF Freed, Inv
  <2>3. stack' = <<>> \o B
    BY <1>2, <2>2
  <2> QED
    BY <2>3, CalmEmpty
<1> QED
  BY <1>4, <1>5, <1>6, <1>7, CalmStep

(* final() calls back at once,                                             *)
LEMMA FinalNowKeeps ==
  ASSUME Inv, NEW err \in BOOLEAN, FinalNow(err)
  PROVE  Inv'
<1>1. Freed(Under) /\ Self \in Streams /\ Head(stack).at = "final" /\ FrameOK(Head(stack))
  BY AtTop DEF FinalNow, Flow
<1>2. st[Self].finalCalled
  BY <1>1 DEF FrameOK, Self
<1> QED
  BY <1>1, <1>2, FinishKeeps DEF FinalNow

(* ... or later,                                                           *)
LEMMA FinalCallsBackKeeps ==
  ASSUME Inv, NEW d \in Streams, NEW err \in BOOLEAN, FinalCallsBack(d, err)
  PROVE  Inv'
<1>1. st[d].finalCalled
  BY DEF FinalCallsBack, Inv, Ended
<1>2. Freed(<<>>)
  BY DEF FinalCallsBack, Freed
<1> QED
  BY <1>1, <1>2, FinishKeeps DEF FinalCallsBack

(* ... and keeps the callback until then.                                  *)
LEMMA FinalLaterKeeps ==
  ASSUME Inv, FinalLater
  PROVE  Inv'
<1>1. Freed(Under) /\ Self \in Streams /\ Head(stack).at = "final" /\ FrameOK(Head(stack))
  BY AtTop DEF FinalLater, Flow
<1>2. st[Self].finalCalled /\ Self \in Sinks
  BY <1>1 DEF FrameOK, Self
<1>3. /\ UNCHANGED <<app, wLen, st, ticks, asked, settled, iter, produced, got, evs, upsets>>
      /\ final' = final \cup {Self} /\ stack' = <<>> \o Under
  BY DEF FinalLater, Call
<1>4. CalmRest
  BY <1>2, <1>3 DEF CalmRest, Inv, Structure, Typed, Plain
<1> QED
  BY <1>1, <1>3, <1>4, FieldsSame, TicksSame, CalmEmpty, CalmStep

(* onEnd was called for every pipe: the source of the pipes closes.        *)
LEMMA EndingCloses ==
  ASSUME Inv, Ending, Rest = <<>>
  PROVE  Inv'
<1> DEFINE s == Self  f == st[s]
           closes == ~f.closed /\ ~f.destroyed
           b == f.closed \/ closes
           g == [f EXCEPT !.closed = b]
           N == IF closes THEN <<<<"close", s>>>> ELSE <<>>
<1>1. Freed(Under) /\ s \in Streams /\ f \in FieldsOf(Chunk)
  BY AtTop DEF Ending, Flow
<1>2. /\ UNCHANGED <<app, wLen, asked, final, settled, iter, produced, got, evs, upsets>>
      /\ st' = [st EXCEPT ![s] = g] /\ ticks' = ticks \o N /\ stack' = <<>> \o Under
  BY DEF Ending, Tick, Call
<1>3. b \in BOOLEAN
  BY <1>1 DEF FieldsOf
<1>4. N \in Seq(Tasks \X Streams) /\ Range(N) \subseteq {<<"close", s>>}
  BY <1>1, RangeFew, FewTicks DEF Tasks
<1> HIDE DEF N, b
<1>5. g \in FieldsOf(Chunk) /\ Calmed(s, f, g)
  <2> HIDE DEF f, s
  <2> QED
    BY <1>1, <1>3, SetClosed DEF Calmed
<1> HIDE DEF g, s
<1>6. CalmFields
  BY <1>1, <1>2, <1>5, FieldsOne
<1>7. CalmTicks(ticks, N)
  BY <1>2, <1>4, TicksOne
<1> QED
  BY <1>1, <1>2, <1>6, <1>7, RestSame, CalmEmpty, CalmStep

(* The iterator finds nothing to read.                                     *)
LEMMA TriedNothing ==
  ASSUME Inv, Tried, st[Source].buf = <<>>
  PROVE  Inv'
<1> DEFINE f == st[Source]  g == MaybeEmitEnd(f)
<1>1. Freed(Under) /\ Head(stack).at = "tried" /\ FrameOK(Head(stack))
  BY AtTop DEF Tried, Flow
<1>2. Source \in Streams /\ f \in FieldsOf(Chunk) /\ app.consumer = "iterate"
  BY <1>1, StreamsAssumption DEF Inv, Structure, Typed, FrameOK
<1>3. /\ UNCHANGED <<app, wLen, asked, final, settled, produced, got, evs, upsets>>
      /\ stack' = <<>> \o Under
      /\ \/ /\ st' = [st EXCEPT ![Source] = g] /\ ticks' = ticks \o EndTick(Source, f)
            /\ iter' = "done"
         \/ /\ st' = st /\ iter' = "waiting"
            /\ ticks' = ticks \o (IF iter = "idle" THEN <<<<"callRead", Source>>>> ELSE <<>>)
  BY DEF Tried, Tick, Call
<1>4. g \in FieldsOf(Chunk) /\ Calmed(Source, f, g)
  BY <1>2, EndTicks
<1> HIDE DEF g
<1>5. CalmRest
  BY <1>2, <1>3 DEF CalmRest, Inv, Structure, Typed, Plain
<1>6. CASE st' = [st EXCEPT ![Source] = g] /\ ticks' = ticks \o EndTick(Source, f)
  <2>1. CalmFields /\ st'[Source] = g
    BY <1>2, <1>4, <1>6, FieldsOne
  <2>2. CalmTicks(ticks, EndTick(Source, f))
    BY <1>2, <1>6, <2>1, TicksEnd DEF g
  <2> QED
    BY <1>1, <1>3, <1>5, <2>1, <2>2, CalmEmpty, CalmStep
<1>7. CASE /\ st' = st
           /\ ticks' = ticks \o (IF iter = "idle" THEN <<<<"callRead", Source>>>> ELSE <<>>)
  <2> DEFINE N == IF iter = "idle" THEN <<<<"callRead", Source>>>> ELSE <<>>
  <2>1. N \in Seq(Tasks \X Streams) /\ Range(N) \subseteq {<<"callRead", Source>>}
    BY <1>2, RangeFew, FewTicks DEF Tasks
  <2>2. CalmTicks(ticks, N)
    <3>1. ticks' = ticks \o N
      BY <1>7
    <3> HIDE DEF N
    <3> QED
      BY <2>1, <3>1, TicksOne
  <2> QED
    BY <1>1, <1>3, <1>5, <1>7, <2>2, FieldsSame, CalmEmpty, CalmStep
<1> QED
  BY <1>3, <1>6, <1>7
-----------------------------------------------------------------------------
(* The calm microtasks.                                                    *)
LEMMA Task ==
  ASSUME Inv, NEW a, Take(a)
  PROVE  /\ stack = <<>> /\ ticks # <<>> /\ Head(ticks)[1] = a /\ Freed(<<>>)
         /\ ticks \in Seq(Tasks \X Streams)
         /\ Of \in Streams /\ st[Of] \in FieldsOf(Chunk) /\ TickOK(Head(ticks))
<1>1. stack = <<>> /\ ticks # <<>> /\ Head(ticks)[1] = a /\ ticks \in Seq(Tasks \X Streams)
  BY DEF Take, Inv, Structure, Typed
<1>2. Head(ticks) \in Tasks \X Streams /\ Head(ticks) \in Range(ticks)
  BY <1>1, RangeTail
<1>3. Of \in Streams /\ TickOK(Head(ticks))
  BY <1>2 DEF Of, Inv, Structure
<1>4. st[Of] \in FieldsOf(Chunk)
  BY <1>3 DEF Inv, Structure, Typed
<1> QED
  BY <1>1, <1>3, <1>4 DEF Freed

(* A microtask is taken and none is queued.                                *)
LEMMA TicksTaken ==
  ASSUME Inv, NEW a, Take(a), a # "drain", ticks' = Tail(ticks) \o <<>>
  PROVE  CalmTicks(Tail(ticks), <<>>)
<1>1. ticks # <<>> /\ Head(ticks)[1] # "drain"
  BY Task
<1> QED
  BY <1>1, FewTicks, RangeFew DEF CalmTicks, OtherTicks

(* The microtask of a flow that starts.                                    *)
LEMMA RunEmitDataKeeps ==
  ASSUME Inv, RunEmitData
  PROVE  Inv'
<1>1. Freed(<<>>) /\ Of \in Streams
  BY Task DEF RunEmitData
<1>2. /\ UNCHANGED <<app, wLen, st, asked, final, settled, iter, produced, got, evs, upsets>>
      /\ Take("emitData") /\ ticks' = Tail(ticks) \o <<>>
      /\ stack' = <<Place("drain", Of), Place("emitData", Of)>> \o <<>>
  BY DEF RunEmitData, Then, Call
<1>3. CalmFields /\ CalmRest /\ CalmTicks(Tail(ticks), <<>>)
  BY <1>2, FieldsSame, RestSame, TicksTaken
<1>4. CalmFrames(<<Place("drain", Of), Place("emitData", Of)>>, <<>>)
  BY <1>1, <1>2, PlaceOK, CalmPlaces DEF Harmless
<1> QED
  BY <1>3, <1>4, CalmStep

(* The microtask that asks for more.                                       *)
LEMMA RunCallReadKeeps ==
  ASSUME Inv, RunCallRead
  PROVE  Inv'
<1>1. Freed(<<>>) /\ Of \in Streams
  BY Task DEF RunCallRead
<1>2. /\ UNCHANGED <<app, wLen, st, asked, final, settled, iter, produced, got, evs, upsets>>
      /\ Take("callRead") /\ ticks' = Tail(ticks) \o <<>>
      /\ stack' = <<Place("callRead", Of)>> \o <<>>
  BY DEF RunCallRead, Then, Call
<1>3. CalmFields /\ CalmRest /\ CalmTicks(Tail(ticks), <<>>)
  BY <1>2, FieldsSame, RestSame, TicksTaken
<1>4. CalmFrames(<<Place("callRead", Of)>>, <<>>)
  BY <1>1, <1>2, PlaceOK, CalmPlace DEF Harmless
<1> QED
  BY <1>3, <1>4, CalmStep

(* The iterator's attempt to read.                                         *)
LEMMA TryReadCalm ==
  ASSUME Inv, app.consumer = "iterate", Freed(<<>>), stack' = TryRead \o <<>>
  PROVE  CalmFrames(TryRead, <<>>)
<1> DEFINE f == Place("callRead", Source)  g == Place("tried", Source)
<1>1. Source \in Streams
  BY StreamsAssumption
<1>2. f \in FramesOf(Chunk) /\ FrameOK(f) /\ f.at \notin Flow
  BY <1>1, PlaceOK DEF Harmless
<1>3. g \in FramesOf(Chunk) /\ FrameOK(g) /\ g.at \notin Flow
  <2>1. g = [at |-> "tried", of |-> Source, chunk |-> None, to |-> <<>>, ok |-> TRUE]
    BY DEF Place, Frame
  <2>2. g \in FramesOf(Chunk)
    <3>1. <<>> \in Seq(Streams) /\ "tried" \in Places
      BY DEF Places
    <3> HIDE DEF g
    <3> QED
      BY <1>1, <2>1, <3>1 DEF FramesOf
  <2>3. g.at = "tried" /\ g.of = Source
    BY <2>1
  <2> HIDE DEF g
  <2> QED
    BY <2>2, <2>3 DEF FrameOK, Flow
<1>4. TryRead = <<f, g>> \/ TryRead = <<g>>
  BY Joined DEF TryRead
<1> HIDE DEF f, g
<1> QED
  BY <1>2, <1>3, <1>4, CalmPlace, CalmPlaces

(* "readable".                                                             *)
LEMMA RunReadableKeeps ==
  ASSUME Inv, RunReadable
  PROVE  Inv'
<1>1. Freed(<<>>)
  BY Task DEF RunReadable
<1>2. /\ UNCHANGED <<app, wLen, st, asked, final, settled, iter, produced, got, evs, upsets>>
      /\ Take("readable") /\ ticks' = Tail(ticks) \o <<>>
      /\ \/ iter = "waiting" /\ stack' = TryRead \o <<>>
         \/ stack' = <<>> \o <<>>
  BY DEF RunReadable, Then, Call
<1>3. CalmFields /\ CalmRest /\ CalmTicks(Tail(ticks), <<>>)
  BY <1>2, FieldsSame, RestSame, TicksTaken
<1>4. CASE iter = "waiting" /\ stack' = TryRead \o <<>>
  <2>1. app.consumer = "iterate"
    BY <1>4 DEF Inv, Structure, Plain
  <2> QED
    BY <1>1, <1>3, <1>4, <2>1, TryReadCalm, CalmStep
<1>5. CASE stack' = <<>> \o <<>>
  BY <1>1, <1>3, <1>5, CalmEmpty, CalmStep
<1> QED
  BY <1>2, <1>4, <1>5

(* next() of the iterator.                                                 *)
LEMMA IterNextKeeps ==
  ASSUME Inv, IterNext
  PROVE  Inv'
<1>1. /\ UNCHANGED <<app, wLen, st, ticks, asked, final, settled, produced, got, evs, upsets>>
      /\ Freed(<<>>) /\ app.consumer = "iterate" /\ stack = <<>>
      /\ \/ iter' = "done" /\ stack' = stack
         \/ iter' = iter /\ stack' = TryRead \o <<>>
  BY DEF IterNext, Call, Freed
<1>2. CalmFields /\ CalmTicks(ticks, <<>>)
  BY <1>1, FieldsSame, TicksSame
<1>3. CalmRest
  BY <1>1 DEF CalmRest, Inv, Structure, Typed, Plain
<1> QED
  BY <1>1, <1>2, <1>3, TryReadCalm, CalmStay, CalmStep

(* The log of events.                                                      *)
LEMMA Emits ==
  ASSUME Inv, NEW s \in Streams, NEW e \in Events, Emit(s, e),
         e = "end" => st[s].emittedEnd, e = "finish" => st[s].finalCalled
  PROVE  /\ evs' \in [Streams -> Seq(Events)]
         /\ \A x \in Streams :
              /\ "end" \in Range(evs'[x]) => "end" \in Range(evs[x]) \/ st[x].emittedEnd
              /\ "finish" \in Range(evs'[x]) => "finish" \in Range(evs[x]) \/ st[x].finalCalled
<1>1. evs \in [Streams -> Seq(Events)] /\ evs' = [evs EXCEPT ![s] = Append(evs[s], e)]
  BY DEF Emit, Inv, Structure, Typed
<1> DEFINE q == Append(evs[s], e)
<1>2. q \in Seq(Events)
  BY <1>1
<1>3. Range(q) = Range(evs[s]) \cup {e}
  BY <1>1, RangeAppend
<1> HIDE DEF q
<1>4. evs' \in [Streams -> Seq(Events)] /\ evs'[s] = q /\ \A x \in Streams \ {s} : evs'[x] = evs[x]
  BY <1>1, <1>2 DEF q
<1> QED
  BY <1>3, <1>4

(* "end".                                                                  *)
LEMMA RunEndKeeps ==
  ASSUME Inv, RunEnd
  PROVE  Inv'
<1> DEFINE f == Frame("ending", Of, None, app.pipes[Of], TRUE)
<1>1. Freed(<<>>) /\ Of \in Streams /\ TickOK(Head(ticks)) /\ Head(ticks)[1] = "end"
  BY Task DEF RunEnd
<1>2. st[Of].emittedEnd
  BY <1>1 DEF TickOK, Of
<1>3. /\ UNCHANGED <<app, wLen, st, asked, final, settled, produced, got, upsets>>
      /\ Take("end") /\ ticks' = Tail(ticks) \o <<>> /\ stack' = <<f>> \o <<>>
      /\ iter' \in {iter, "done"} /\ Emit(Of, "end")
  BY DEF RunEnd, Then, Call
<1>4. f \in FramesOf(Chunk) /\ FrameOK(f) /\ f.at \notin Flow
  <2>1. /\ app.pipes[Of] \in Seq(Streams)
        /\ \A i, j \in 1..Len(app.pipes[Of]) : app.pipes[Of][i] = app.pipes[Of][j] => i = j
    BY <1>1, Pipes DEF Inv, Structure
  <2>2. f \in FramesOf(Chunk)
    BY <1>1, <2>1 DEF FramesOf, Places, Frame
  <2>3. f.at = "ending" /\ f.of = Of /\ f.to = app.pipes[Of]
    BY DEF Frame
  <2> HIDE DEF f
  <2> QED
    BY <1>2, <2>1, <2>2, <2>3 DEF FrameOK, Flow
<1> HIDE DEF f
<1>5. CalmFields /\ CalmTicks(Tail(ticks), <<>>)
  BY <1>3, FieldsSame, TicksTaken
<1>6. CalmRest
  <2>1. /\ evs' \in [Streams -> Seq(Events)]
        /\ \A x \in Streams :
             /\ "end" \in Range(evs'[x]) => "end" \in Range(evs[x]) \/ st[x].emittedEnd
             /\ "finish" \in Range(evs'[x]) => "finish" \in Range(evs[x]) \/ st[x].finalCalled
    BY <1>1, <1>2, <1>3, Emits DEF Events
  <2> QED
    BY <1>3, <2>1 DEF CalmRest, Inv, Structure, Typed, Plain
<1>7. CalmFrames(<<f>>, <<>>)
  BY <1>1, <1>3, <1>4, CalmPlace
<1> QED
  BY <1>5, <1>6, <1>7, CalmStep

(* "finish".                                                               *)
LEMMA RunFinishKeeps ==
  ASSUME Inv, RunFinish
  PROVE  Inv'
<1> DEFINE d == Of  f == st[d]
           closes == ~f.closed /\ (d \in Transforms => ~f.destroyed)
           b == f.closed \/ closes
           g == [f EXCEPT !.closed = b]
           N == IF closes THEN <<<<"close", d>>>> ELSE <<>>
<1>1. /\ stack = <<>> /\ ticks # <<>> /\ d \in Streams /\ f \in FieldsOf(Chunk)
      /\ TickOK(Head(ticks)) /\ Head(ticks)[1] = "finish"
  BY Task DEF RunFinish
<1>2. /\ UNCHANGED <<app, wLen, stack, asked, final, iter, produced, got, upsets>>
      /\ Emit(d, "finish") /\ settled' \in {settled, "ok"}
      /\ st' = [st EXCEPT ![d] = g] /\ ticks' = Tail(ticks) \o N
  BY DEF RunFinish, Then
<1>3. b \in BOOLEAN
  BY <1>1 DEF FieldsOf
<1>4. N \in Seq(Tasks \X Streams) /\ Range(N) \subseteq {<<"close", d>>}
  BY <1>1, RangeFew, FewTicks DEF Tasks
<1>5. f.finalCalled
  BY <1>1 DEF TickOK, Of
<1> HIDE DEF N, b
<1>6. g \in FieldsOf(Chunk) /\ Calmed(d, f, g)
  <2> HIDE DEF f, d
  <2> QED
    BY <1>1, <1>3, SetClosed DEF Calmed
<1> HIDE DEF g, d
<1>7. CalmFields
  BY <1>1, <1>2, <1>6, FieldsOne
<1>8. CalmTicks(Tail(ticks), N)
  BY <1>1, <1>2, <1>4, TicksOne
<1>9. CalmRest
  <2>1. /\ evs' \in [Streams -> Seq(Events)]
        /\ \A x \in Streams :
             /\ "end" \in Range(evs'[x]) => "end" \in Range(evs[x]) \/ st[x].emittedEnd
             /\ "finish" \in Range(evs'[x]) => "finish" \in Range(evs[x]) \/ st[x].finalCalled
    BY <1>1, <1>2, <1>5, Emits DEF Events
  <2> QED
    BY <1>2, <2>1 DEF CalmRest, Inv, Structure, Typed, Plain
<1> QED
  BY <1>2, <1>7, <1>8, <1>9, CalmStay, CalmStep

(* settle() of pipeline().                                                 *)
LEMMA SettleCalm ==
  ASSUME Inv, NEW err \in BOOLEAN, Settle(err), stack = <<>>
  PROVE  \E F : CalmFrames(F, <<>>)
<1> DEFINE f == Frame("teardown", Source, None, app.stages, TRUE)
<1>1. f \in FramesOf(Chunk) /\ f.at = "teardown"
  <2>1. app.stages \in Seq(Streams) /\ Source \in Streams
    BY Pipes, StreamsAssumption DEF Inv, Structure
  <2> QED
    BY <2>1 DEF Frame, FramesOf, Places
<1>2. FrameOK(f) /\ f.at \notin Flow
  BY <1>1 DEF FrameOK, Flow
<1>3. stack' = <<f>> \o <<>> \/ stack' = <<>> \o <<>>
  BY DEF Settle, Call
<1>4. Freed(<<>>)
  BY DEF Freed
<1> HIDE DEF f
<1> QED
  BY <1>1, <1>2, <1>3, <1>4, CalmPlace, CalmEmpty

(* "error".                                                                *)
LEMMA RunErrorKeeps ==
  ASSUME Inv, RunError
  PROVE  Inv'
<1>1. Of \in Streams /\ stack = <<>>
  BY Task DEF RunError
<1>2. /\ UNCHANGED <<app, wLen, st, asked, final, produced, got, upsets>>
      /\ Take("error") /\ ticks' = Tail(ticks) \o <<>> /\ Settle(Settles /\ Of \in Stages)
      /\ iter' \in {iter, "failed"} /\ settled' \in {settled, "err"} /\ Emit(Of, "error")
  BY DEF RunError, Then
<1>3. CalmFields /\ CalmTicks(Tail(ticks), <<>>)
  BY <1>2, FieldsSame, TicksTaken
<1>4. CalmRest
  <2>1. /\ evs' \in [Streams -> Seq(Events)]
        /\ \A x \in Streams :
             /\ "end" \in Range(evs'[x]) => "end" \in Range(evs[x]) \/ st[x].emittedEnd
             /\ "finish" \in Range(evs'[x]) => "finish" \in Range(evs[x]) \/ st[x].finalCalled
    BY <1>1, <1>2, Emits DEF Events
  <2> QED
    BY <1>2, <2>1 DEF CalmRest, Inv, Structure, Typed, Plain
<1>5. PICK F : CalmFrames(F, <<>>)
  <2>1. (Settles /\ Of \in Stages) \in BOOLEAN
    OBVIOUS
  <2> QED
    BY <1>1, <1>2, <2>1, SettleCalm
<1> QED
  BY <1>3, <1>4, <1>5, CalmStep

(* "close".                                                                *)
LEMMA RunCloseKeeps ==
  ASSUME Inv, RunClose
  PROVE  Inv'
<1> DEFINE early == Settles /\ Of = Last(app.stages)
<1>1. Of \in Streams /\ stack = <<>>
  BY Task DEF RunClose
<1>2. /\ UNCHANGED <<app, wLen, st, asked, final, iter, produced, got, upsets>>
      /\ Take("close") /\ ticks' = Tail(ticks) \o <<>> /\ Settle(early)
      /\ settled' \in {settled, "err"} /\ Emit(Of, "close")
  BY DEF RunClose, Then
<1>3. CalmFields /\ CalmTicks(Tail(ticks), <<>>)
  BY <1>2, FieldsSame, TicksTaken
<1>4. CalmRest
  <2>1. /\ evs' \in [Streams -> Seq(Events)]
        /\ \A x \in Streams :
             /\ "end" \in Range(evs'[x]) => "end" \in Range(evs[x]) \/ st[x].emittedEnd
             /\ "finish" \in Range(evs'[x]) => "finish" \in Range(evs[x]) \/ st[x].finalCalled
    BY <1>1, <1>2, Emits DEF Events
  <2> QED
    BY <1>2, <2>1 DEF CalmRest, Inv, Structure, Typed, Plain
<1>5. PICK F : CalmFrames(F, <<>>)
  <2>1. early \in BOOLEAN
    BY DEF Settles
  <2> HIDE DEF early
  <2> QED
    BY <1>1, <1>2, <2>1, SettleCalm
<1> QED
  BY <1>3, <1>4, <1>5, CalmStep

(* What a PassThrough's _final sets.                                       *)
LEMMA EndsFinished ==
  ASSUME NEW C, NEW s \in Streams, NEW f \in FieldsOf(C)
  PROVE  LET g == [f EXCEPT !.emittedEnd = f.emittedEnd \/ Ends(f), !.finished = TRUE] IN
         g \in FieldsOf(C) /\ Calmed(s, f, g) /\ g.emittedEnd = MaybeEmitEnd(f).emittedEnd
<1> DEFINE b == f.emittedEnd \/ Ends(f)
           m == [f EXCEPT !.emittedEnd = b]
           g == [f EXCEPT !.emittedEnd = b, !.finished = TRUE]
<1>1. MaybeEmitEnd(f) = m /\ Calmed(s, f, m)
  BY EndTicks DEF MaybeEmitEnd
<1>2. b \in BOOLEAN
  BY DEF Ends, FieldsOf
<1> HIDE DEF b
<1>3. m.emittedEnd = b
  BY <1>2, SetEmitted
<1>4. /\ g \in FieldsOf(C) /\ g.emittedEnd = b
      /\ g.buf = f.buf /\ g.flowing = f.flowing /\ g.ended = f.ended /\ g.queue = f.queue
      /\ g.writing = f.writing /\ g.wEnded = f.wEnded /\ g.needDrain = f.needDrain
      /\ g.finalCalled = f.finalCalled /\ g.destroyed = f.destroyed
  BY <1>2 DEF FieldsOf
<1>5. m.ended = f.ended
  BY <1>2, SetEmitted
<1> HIDE DEF m, g
<1>6. Calmed(s, f, g)
  BY <1>1, <1>3, <1>4, <1>5 DEF Calmed
<1> QED
  BY <1>1, <1>3, <1>4, <1>6 DEF g, b

(* _final.                                                                 *)
LEMMA RunFinalKeeps ==
  ASSUME Inv, RunFinal
  PROVE  Inv'
<1> DEFINE d == Of  f == PushNull(d)
           b == f.emittedEnd \/ Ends(f)
           g == [f EXCEPT !.emittedEnd = b, !.finished = TRUE]
           N == EndTick(d, f) \o <<<<"finish", d>>>>
           h == Place("final", d)
<1>1. /\ stack = <<>> /\ ticks # <<>> /\ d \in Streams /\ st[d] \in FieldsOf(Chunk)
      /\ TickOK(Head(ticks)) /\ Head(ticks)[1] = "runFinal" /\ Freed(<<>>)
  BY Task DEF RunFinal
<1>2. st[d].finalCalled
  BY <1>1 DEF TickOK, Of
<1>3. /\ UNCHANGED <<app, wLen, asked, final, settled, iter, produced, got, evs, upsets>>
      /\ Take("runFinal")
      /\ \/ st' = [st EXCEPT ![d] = g] /\ ticks' = Tail(ticks) \o N /\ stack' = stack
         \/ /\ d \notin Transforms /\ ticks' = Tail(ticks) \o <<>> /\ stack' = <<h>> \o <<>>
            /\ st' = st
  BY DEF RunFinal, Then, Call
<1>4. f \in FieldsOf(Chunk) /\ Calmed(d, st[d], f)
  <2> DEFINE k == st[d]
  <2>1. k \in FieldsOf(Chunk) /\ k.finalCalled /\ f = [k EXCEPT !.ended = TRUE]
    BY <1>1, <1>2 DEF PushNull
  <2> HIDE DEF k, f
  <2>2. f \in FieldsOf(Chunk) /\ Calmed(d, k, f)
    BY <2>1, SetEnded DEF Calmed
  <2> QED
    BY <2>2 DEF k
<1>5. /\ MaybeEmitEnd(f) \in FieldsOf(Chunk) /\ Calmed(d, f, MaybeEmitEnd(f))
      /\ EndTick(d, f) \in Seq(Tasks \X Streams)
      /\ \A t \in Range(EndTick(d, f)) : t = <<"end", d>> /\ MaybeEmitEnd(f).emittedEnd
  BY <1>1, <1>4, EndTicks
<1>6. g \in FieldsOf(Chunk) /\ Calmed(d, f, g) /\ g.emittedEnd = MaybeEmitEnd(f).emittedEnd
  BY <1>1, <1>4, EndsFinished
<1>7. Calmed(d, st[d], g)
  <2> HIDE DEF f, g
  <2> QED
    BY <1>4, <1>6, CalmTwice
<1>8. N \in Seq(Tasks \X Streams) /\ Range(N) = Range(EndTick(d, f)) \cup {<<"finish", d>>}
  <2> DEFINE n == <<<<"finish", d>>>>
  <2>1. n \in Seq(Tasks \X Streams) /\ Range(n) = {<<"finish", d>>}
    BY <1>1, FewTicks, RangeFew DEF Tasks
  <2>2. N = EndTick(d, f) \o n
    OBVIOUS
  <2> HIDE DEF n, N, f
  <2> QED
    BY <1>5, <2>1, <2>2, RangeConcat
<1>9. CalmRest
  BY <1>3, RestSame
<1> HIDE DEF d, f, g, N
<1>10. CASE st' = [st EXCEPT ![d] = g] /\ ticks' = Tail(ticks) \o N /\ stack' = stack
  <2>1. CalmFields /\ st'[d] = g
    BY <1>1, <1>6, <1>7, <1>10, FieldsOne
  <2>2. ASSUME NEW t \in Range(N)
        PROVE  /\ t[1] # "drain" /\ (t[1] = "end" => st'[t[2]].emittedEnd)
               /\ t[1] \in {"runFinal", "finish"} => st[t[2]].finalCalled
    <3>1. CASE t = <<"finish", d>>
      BY <1>2, <3>1
    <3>2. CASE t \in Range(EndTick(d, f))
      <4>1. t = <<"end", d>> /\ g.emittedEnd
        BY <1>5, <1>6, <3>2
      <4> QED
        BY <2>1, <4>1
    <3> QED
      BY <1>8, <3>1, <3>2
  <2>3. CalmTicks(Tail(ticks), N)
    BY <1>1, <1>8, <1>10, <2>2 DEF CalmTicks, OtherTicks
  <2> QED
    BY <1>9, <1>10, <2>1, <2>3, CalmStay, CalmStep
<1>11. CASE /\ d \notin Transforms /\ ticks' = Tail(ticks) \o <<>> /\ stack' = <<h>> \o <<>>
            /\ st' = st
  <2>1. d \in Sinks
    <3>1. d # Source
      BY <1>2 DEF Inv, Structure, Plain
    <3> QED
      BY <1>1, <1>11, <3>1, StreamsAssumption
  <2>2. h = [at |-> "final", of |-> d, chunk |-> None, to |-> <<>>, ok |-> TRUE]
    BY DEF Place, Frame
  <2> HIDE DEF h
  <2>3. <<>> \in Seq(Streams) /\ "final" \in Places
    BY DEF Places
  <2>4. h \in FramesOf(Chunk) /\ h.at = "final" /\ h.of = d
    BY <1>1, <2>2, <2>3 DEF FramesOf
  <2>5. FrameOK(h) /\ h.at \notin Flow
    BY <1>2, <2>1, <2>4 DEF FrameOK, Flow
  <2>6. CalmFrames(<<h>>, <<>>)
    BY <1>1, <1>11, <2>4, <2>5, CalmPlace
  <2>7. CalmFields /\ CalmTicks(Tail(ticks), <<>>)
    BY <1>3, <1>11, FieldsSame, TicksTaken
  <2> QED
    BY <1>9, <2>6, <2>7, CalmStep
<1> QED
  BY <1>3, <1>10, <1>11
-----------------------------------------------------------------------------
(* Steps that move chunks.  What they have in common.                      *)
LEMMA OnwardSame ==
  ASSUME Inv, UNCHANGED <<app, asked, final, settled, iter, produced, evs>>,
         wLen' \in [Streams -> Nat], upsets' \in 0..MaxUpsets, got' \in [Streams -> Seq(Chunk)]
  PROVE  Onward /\ Chunk' = Chunk
<1>1. produced' = produced /\ produced \in Nat /\ Chunk' = Chunk
  BY Pipes DEF Inv, Structure, Chunk
<1> QED
  BY <1>1 DEF Onward, Inv, Structure, Typed, Plain

(* The end is kept where no field of it changes.                           *)
LEMMA EndedKept ==
  ASSUME Inv, UNCHANGED <<produced, evs, final>>,
         \A s \in Streams :
           /\ st'[s].emittedEnd = st[s].emittedEnd /\ st'[s].ended = st[s].ended
           /\ st'[s].wEnded = st[s].wEnded /\ st'[s].finalCalled = st[s].finalCalled
           /\ st[s].destroyed => st'[s].destroyed
           /\ st[s].emittedEnd => st'[s].buf = <<>>
           /\ st[s].finalCalled => /\ got'[s] = got[s] /\ st'[s].writing = None
                                   /\ st'[s].queue = <<>>
           /\ st[s].wEnded /\ ~st'[s].destroyed => Accepted(s)' = Accepted(s)
  PROVE  Ended'
<1>1. final \subseteq Streams /\ Source \in Streams
  BY StreamsAssumption DEF Inv, Structure, Typed
<1>2. ASSUME NEW s \in Streams PROVE Over(s)'
  <2>1. Over(s)
    BY DEF Inv, Ended
  <2>2. st'[s].emittedEnd => st'[s].ended /\ st'[s].buf = <<>>
    BY <2>1 DEF Over
  <2>3. st'[s].ended /\ s # Source => st'[s].finalCalled
    BY <2>1 DEF Over
  <2>4. st'[s].wEnded => st'[Source].ended
    BY <1>1, <2>1 DEF Over
  <2>5. st'[s].wEnded /\ ~st'[s].destroyed => Accepted(s)' = produced'
    BY <2>1 DEF Over
  <2>6. st'[s].finalCalled => /\ st'[s].wEnded /\ Len(got'[s]) = produced'
                               /\ st'[s].writing = None /\ st'[s].queue = <<>>
    BY <2>1 DEF Over
  <2>7. /\ "end" \in Range(evs'[s]) => st'[s].emittedEnd
        /\ "finish" \in Range(evs'[s]) => st'[s].finalCalled
    BY <2>1 DEF Over
  <2> QED
    BY <2>2, <2>3, <2>4, <2>5, <2>6, <2>7 DEF Over
<1>3. ASSUME NEW s \in final' PROVE st'[s].finalCalled
  BY <1>1 DEF Inv, Ended
<1> QED
  BY <1>2, <1>3 DEF Ended

(* A chunk is being written while its frames are on the stack.             *)
LEMMA WritingBelow ==
  ASSUME Structure, NEW f \in Calls, f.at \in {"write", "transformed"}
  PROVE  f.of \in Streams /\ st[f.of].writing # None
<1>1. f \in FramesOf(Chunk) /\ FrameOK(f)
  BY InRange DEF Structure, Typed, Calls
<1> QED
  BY <1>1 DEF FramesOf, FrameOK

(* The chunks a writable side accepted exist, and those it holds are the   *)
(* last of them.                                                           *)
LEMMA Holdings ==
  ASSUME Inv, NEW d \in Streams
  PROVE  /\ Taken(d) \in 0..Accepted(d) /\ Accepted(d) \in 0..Chunks
         /\ Accepted(d) <= produced /\ Past(d) \in 0..Accepted(d)
         /\ st[d].writing # None => st[d].writing = Taken(d) /\ Past(d) = Taken(d) - 1
         /\ st[d].writing = None => Past(d) = Taken(d)
         /\ Newest(d) \in Nat /\ Measured(d)
<1>1. /\ Typed /\ Structure /\ Written1(d) /\ Taken(d) \in Nat /\ produced \in Nat
      /\ Len(got[d]) \in Nat /\ Len(st[d].queue) \in Nat
      /\ got[d] \in Seq(Chunk) /\ st[d].queue \in Seq(Chunk)
  BY Numbers DEF Inv, Structure, Account
<1>2. produced <= Chunks /\ Chunks \in Nat
  <2>1. produced \in 0..app.chunks /\ app.chunks \in 0..Chunks /\ Chunks \in Nat
    BY <1>1, Pipes, StreamsAssumption DEF Typed
  <2> QED
    BY <2>1
<1>3. st[d].writing \in {None} \cup Chunk
  BY <1>1, Numbers DEF FieldsOf
<1>4. st[d].writing # None => st[d].writing = Taken(d) /\ Taken(d) \in Chunk
  BY <1>1, <1>3 DEF Written1, Taken
<1>5. ASSUME In(d) PROVE st[d].writing # None
  BY <1>1, <1>5, WritingBelow DEF In
<1>6. ASSUME ~In(d), Taken(d) # 0 PROVE Taken(d) \in Chunk
  <2>1. Taken(d) = Len(got[d]) /\ Len(got[d]) \in 1..Len(got[d])
    BY <1>1, <1>6 DEF Taken
  <2>2. got[d][Len(got[d])] = Len(got[d])
    BY <1>1, <2>1 DEF Written1
  <2> QED
    BY <1>1, <2>1, <2>2
<1>7. Taken(d) \in 0..produced
  BY <1>1, <1>4, <1>5, <1>6 DEF Chunk
<1>8. Accepted(d) \in 0..produced /\ Taken(d) \in 0..Accepted(d)
  <2>1. CASE Len(st[d].queue) = 0
    BY <1>7, <2>1 DEF Accepted
  <2>2. CASE Len(st[d].queue) # 0
    <3>1. Len(st[d].queue) \in 1..Len(st[d].queue)
      BY <1>1, <2>2
    <3>2. /\ st[d].queue[Len(st[d].queue)] = Taken(d) + Len(st[d].queue)
          /\ st[d].queue[Len(st[d].queue)] \in Chunk
      BY <1>1, <3>1 DEF Written1
    <3> QED
      BY <1>1, <3>2 DEF Accepted, Chunk
  <2> QED
    BY <1>1, <2>1, <2>2
<1>9. /\ st[d].writing # None => Past(d) = Taken(d) - 1 /\ Taken(d) >= 1
      /\ st[d].writing = None => Past(d) = Taken(d)
  BY <1>1, <1>4 DEF Past, Chunk
<1>10. Past(d) \in 0..Accepted(d)
  BY <1>1, <1>8, <1>9
<1>11. Newest(d) \in Nat
  <2>1. CASE Accepted(d) = 0
    BY <2>1 DEF Newest
  <2>2. CASE Accepted(d) # 0
    <3> DEFINE a == Counted(d, Accepted(d))  b == Counted(d, Accepted(d) - 1)
    <3>1. Accepted(d) \in 0..Chunks /\ Accepted(d) - 1 \in 0..Chunks
      BY <1>1, <1>2, <1>8, <2>2
    <3>2. a \in Nat /\ b \in Nat /\ b <= a
      BY <1>1, <3>1, Counts
    <3>3. Newest(d) = a - b
      BY <2>2 DEF Newest, Weight
    <3> HIDE DEF a, b
    <3> QED
      BY <3>2, <3>3
  <2> QED
    BY <2>1, <2>2
<1> QED
  BY <1>1, <1>2, <1>4, <1>8, <1>9, <1>10, <1>11 DEF Written1

(* What a chunk adds to the counter.                                       *)
LEMMA Weighs ==
  ASSUME Typed, NEW d, NEW c \in Chunk
  PROVE  /\ Weight(d, c) \in Nat /\ Counted(d, c - 1) \in Nat
         /\ Counted(d, c) = Counted(d, c - 1) + Weight(d, c)
<1>1. /\ produced \in 0..app.chunks /\ app.chunks \in 0..Chunks /\ Chunks \in Nat
  BY Pipes, StreamsAssumption DEF Typed
<1>2. c \in 0..Chunks /\ c - 1 \in 0..Chunks /\ c - 1 <= c
  BY <1>1 DEF Chunk
<1> DEFINE a == Counted(d, c)  b == Counted(d, c - 1)
<1>3. a \in Nat /\ b \in Nat /\ b <= a
  BY <1>2, Counts
<1>4. Weight(d, c) = a - b
  BY DEF Weight
<1> HIDE DEF a, b
<1>5. Weight(d, c) \in Nat /\ a = b + Weight(d, c)
  BY <1>3, <1>4
<1> QED
  BY <1>3, <1>5 DEF a, b

(* write() adds to the counter what it accepts.                            *)
LEMMA MeasureGrows ==
  ASSUME Inv, NEW d \in Streams, NEW c \in Chunk, c = Accepted(d) + 1, app' = app,
         Accepted(d)' = Accepted(d) + 1, Past(d)' = Past(d),
         wLen'[d] = wLen[d] + Weight(d, c)
  PROVE  Measured(d)' /\ Newest(d)' = Weight(d, c)
<1>1. /\ Accepted(d) \in 0..Chunks /\ Past(d) \in 0..Accepted(d) /\ Measured(d) /\ Typed
      /\ Chunks \in Nat
  BY Holdings, StreamsAssumption DEF Inv, Structure
<1> DEFINE a == Counted(d, Accepted(d))  b == Counted(d, c)  p == Counted(d, Past(d))
           u == Weight(d, c)
<1>2. Accepted(d) = c - 1 /\ Past(d) \in 0..Chunks
  BY <1>1
<1>3. u \in Nat /\ a \in Nat /\ b = a + u /\ p \in Nat
  BY <1>1, <1>2, Counts, Weighs
<1>4. wLen[d] = a - p
  BY <1>1 DEF Measured
<1>5. Measured(d)' <=> wLen'[d] = b - p
  BY DEF Measured, Counted
<1>6. Newest(d)' = u
  BY <1>1 DEF Newest, Weight, Counted
<1>7. wLen'[d] = wLen[d] + u
  OBVIOUS
<1> HIDE DEF a, b, p, u
<1>8. wLen'[d] = b - p
  BY <1>3, <1>4, <1>7
<1> QED
  BY <1>5, <1>6, <1>8 DEF u

(* done() never takes the counter below 0.                                 *)
LEMMA Lightened ==
  ASSUME Inv, NEW d \in Streams, st[d].writing # None
  PROVE  LET v == wLen[d] - Weight(d, st[d].writing)
         IN /\ v \in Nat /\ v <= wLen[d]
            /\ v = Counted(d, Accepted(d)) - Counted(d, Taken(d))
<1>1. /\ Accepted(d) \in 0..Chunks /\ Taken(d) \in 0..Accepted(d) /\ Past(d) \in 0..Accepted(d)
      /\ st[d].writing = Taken(d) /\ Past(d) = Taken(d) - 1 /\ Measured(d) /\ Typed
      /\ Chunks \in Nat
  BY Holdings, StreamsAssumption DEF Inv, Structure
<1> DEFINE a == Counted(d, Accepted(d))  t == Counted(d, Taken(d))
           p == Counted(d, Taken(d) - 1)
<1>2. /\ Taken(d) \in 0..Chunks /\ Taken(d) - 1 \in 0..Chunks /\ Taken(d) - 1 <= Taken(d)
      /\ Taken(d) <= Accepted(d)
  BY <1>1
<1>3. a \in Nat /\ t \in Nat /\ p \in Nat /\ p <= t /\ t <= a
  BY <1>1, <1>2, Counts
<1>4. wLen[d] = a - p /\ Weight(d, st[d].writing) = t - p
  BY <1>1 DEF Measured, Weight
<1> HIDE DEF a, t, p
<1>5. PICK v : v = wLen[d] - Weight(d, st[d].writing)
  OBVIOUS
<1>6. v = a - t /\ v \in Nat /\ v <= wLen[d]
  BY <1>3, <1>4, <1>5
<1> QED
  BY <1>5, <1>6 DEF a, t

(* done() takes off what write() added.                                    *)
LEMMA MeasureShrinks ==
  ASSUME Inv, NEW d \in Streams, st[d].writing # None, app' = app,
         Accepted(d)' = Accepted(d), Past(d)' = Taken(d),
         wLen'[d] = wLen[d] - Weight(d, st[d].writing)
  PROVE  Measured(d)' /\ wLen'[d] \in Nat /\ wLen'[d] <= wLen[d]
<1>1. /\ wLen'[d] \in Nat /\ wLen'[d] <= wLen[d]
      /\ wLen'[d] = Counted(d, Accepted(d)) - Counted(d, Taken(d))
  BY Lightened
<1> QED
  BY <1>1 DEF Measured, Counted

(* The counter of a destination that holds nothing is 0.                   *)
LEMMA NothingHeld ==
  ASSUME Inv, NEW d \in Streams, st[d].writing = None, st[d].queue = <<>>
  PROVE  wLen[d] = 0
<1>1. /\ Accepted(d) \in 0..Chunks /\ Past(d) = Taken(d) /\ Measured(d) /\ Typed
      /\ Taken(d) \in 0..Accepted(d) /\ Chunks \in Nat
  BY Holdings, StreamsAssumption DEF Inv, Structure
<1>2. Accepted(d) = Taken(d)
  <2>1. Len(st[d].queue) = 0
    OBVIOUS
  <2>2. Accepted(d) = Taken(d) + 0
    BY <2>1 DEF Accepted
  <2> QED
    BY <1>1, <2>2
<1>3. Counted(d, Accepted(d)) \in Nat
  BY <1>1, Counts
<1> QED
  BY <1>1, <1>2, <1>3 DEF Measured

(* A pipe that gets no fuller keeps its pressure.                          *)
LEMMA PressureKept ==
  ASSUME Inv, NEW s, NEW d \in Streams, Pressure(s, d), app' = app,
         Accepted(d)' = Accepted(d), wLen'[d] \in Nat, wLen'[d] <= wLen[d],
         st'[d].needDrain = st[d].needDrain, DrainTick(d)' <=> DrainTick(d),
         Once(<<"drain", d>>, ticks) => Once(<<"drain", d>>, ticks'),
         st'[s].flowing = "on" => st[s].flowing = "on" /\ (Pausing(s) => Pausing(s)'),
         Handing(s, d)' => Handing(s, d)
  PROVE  Pressure(s, d)'
<1>1. Full(d)' <=> Full(d)
  BY DEF Full
<1>2. Full(d)' => st'[s].flowing # "on" \/ Pausing(s)'
  BY <1>1 DEF Pressure
<1>3. Handing(s, d)' => ~Full(d)'
  BY <1>1 DEF Pressure
<1>4. DrainTick(d)' => wLen'[d] = 0 /\ ~st'[d].needDrain
  BY DEF Pressure
<1>7. /\ Newest(d)' = Newest(d) /\ Newest(d) \in Nat
      /\ wLen[d] \in Nat /\ app.hwm \in Nat
  BY NewestKept, Holdings, Numbers DEF Inv, Structure
<1>5. Once(<<"drain", d>>, ticks')
  BY DEF Pressure
<1>6. wLen'[d] < app'.hwm + Newest(d)'
  BY <1>7 DEF Pressure
<1> QED
  BY <1>2, <1>3, <1>4, <1>5, <1>6 DEF Pressure

(* ... and so do all of them.                                              *)
LEMMA PressedKept ==
  ASSUME Inv, app' = app,
         \A d \in Streams : /\ Accepted(d)' = Accepted(d)
                            /\ wLen'[d] \in Nat /\ wLen'[d] <= wLen[d]
                            /\ st'[d].needDrain = st[d].needDrain,
         \A d : /\ DrainTick(d)' <=> DrainTick(d)
                /\ Once(<<"drain", d>>, ticks) => Once(<<"drain", d>>, ticks'),
         \A s \in Streams :
           st'[s].flowing = "on" => st[s].flowing = "on" /\ (Pausing(s) => Pausing(s)'),
         \A s, d : Handing(s, d)' => Handing(s, d)
  PROVE  Pressed'
<1>1. ASSUME NEW d \in Streams PROVE wLen[d] \in Nat /\ app.hwm \in Nat
  BY Numbers DEF Inv, Structure
<1>2. ASSUME NEW s \in Streams, NEW d \in Streams, Only(s, d)' PROVE Pressure(s, d)'
  <2>1. Pressure(s, d)
    BY <1>2 DEF Only, Inv, Pressed
  <2> QED
    BY <1>1, <2>1, PressureKept
<1>3. ASSUME NEW d \in Streams, wLen'[d] >= app'.hwm PROVE st'[d].needDrain
  BY <1>1, <1>3 DEF Inv, Pressed
<1> QED
  BY <1>2, <1>3 DEF Pressed

(* The frames of the flow below one of its own stream.                     *)
LEMMA Unique ==
  ASSUME Structure, stack # <<>>, Head(stack).at \in Flow, NEW g \in Range(Under),
         g.at \in Flow, g.of = Self
  PROVE  /\ Head(stack).at \notin {"write", "transformed"}
         /\ Head(stack).at = "emit" => g.at \notin {"emit", "wrote"}
         /\ Head(stack).at = "wrote" => g.at # "wrote"
<1>1. Above(Depth, Head(stack), g) /\ Self \in Streams
  BY Top
<1>2. Depth[Self] \in Nat
  BY <1>1, DepthFacts DEF Structure
<1>3. Level(Depth, g) < Level(Depth, Head(stack))
  BY <1>1 DEF Above
<1> DEFINE n == Depth[Self]
<1>4. /\ Level(Depth, g) = 3 * n + (IF g.at = "emit" THEN 1 ELSE IF g.at = "wrote" THEN 2 ELSE 0)
      /\ Level(Depth, Head(stack)) = 3 * n + (IF Head(stack).at = "emit" THEN 1
                                              ELSE IF Head(stack).at = "wrote" THEN 2 ELSE 0)
  BY DEF Level, Self
<1> HIDE DEF n
<1> QED
  BY <1>2, <1>3, <1>4 DEF Flow, n

(* The queue of microtasks is unchanged.                                   *)
LEMMA TicksStay ==
  ASSUME Inv, ticks' = ticks
  PROVE  TicksKept(ticks, <<>>)
<1>1. ticks \in Seq(Tasks \X Streams) /\ <<>> \in Seq(Tasks \X Streams)
  BY DEF Inv, Structure, Typed
<1>2. ticks' = ticks \o <<>>
  BY <1>1
<1> QED
  BY <1>1, <1>2, RangeFew DEF TicksKept

(* The running frame returns.                                              *)
LEMMA FramesPop ==
  ASSUME Structure, stack # <<>>, stack' = <<>> \o Under,
         \A f \in Range(Under) : f.at \in {"write", "transformed"} => st'[f.of].writing # None
  PROVE  FramesKept(<<>>, Under)
<1>1. /\ Under \in Seq(FramesOf(Chunk)) /\ Ordered(Depth, Under) /\ Range(Under) \subseteq Calls
      /\ <<>> \in Seq(FramesOf(Chunk'))
  BY Top
<1> QED
  BY <1>1, RangeFew, OrderedFew DEF FramesKept

(* Nothing but the flags and the listeners still to call.                  *)
Still ==
  /\ UNCHANGED <<app, wLen, produced, got, evs, final>>
  /\ \A s \in Streams :
       /\ st'[s].buf = st[s].buf /\ st'[s].queue = st[s].queue
       /\ st'[s].writing = st[s].writing /\ st'[s].destroyed = st[s].destroyed
       /\ st'[s].emittedEnd = st[s].emittedEnd /\ st'[s].ended = st[s].ended
       /\ st'[s].wEnded = st[s].wEnded /\ st'[s].finalCalled = st[s].finalCalled
       /\ st'[s].needDrain = st[s].needDrain
  /\ \A d : (In(d)' <=> In(d)) /\ (Passing(d)' <=> Passing(d))
  /\ \A s \in Streams : \A d \in Range(app.pipes[s]) :
       Offers(s, d)' = Offers(s, d) \/ st[d].destroyed

(* ... and the account, the end and the lengths are kept.                  *)
LEMMA StillKeeps ==
  ASSUME Inv, Still
  PROVE  /\ Account' /\ Ended'
         /\ \A d \in Streams : wLen'[d] = wLen[d] /\ Accepted(d)' = Accepted(d)
<1>1. app' = app /\ produced' = produced /\ got' = got /\ wLen' = wLen
  BY DEF Still
<1>2. ASSUME NEW d \in Streams PROVE SameWrites(d)
  BY <1>1 DEF SameWrites, Still
<1>3. ASSUME NEW d \in Streams
      PROVE  Written1(d)' /\ Accepted(d)' = Accepted(d) /\ wLen'[d] = wLen[d]
  BY <1>2, WritesKept DEF Inv, Account
<1>4. ASSUME NEW s \in Streams, NEW d \in Range(app.pipes[s]) PROVE Link(s, d)'
  <2>1. d \in Streams
    BY Pipes DEF Inv, Structure
  <2>2. CASE st[d].destroyed
    BY <2>1, <2>2 DEF Still, Link
  <2>3. CASE Offers(s, d)' = Offers(s, d)
    <3>1. Given(s)' = Given(s)
      BY <1>1, <1>2, GivenKept DEF Still
    <3>2. Exact(s)' => Exact(s)
      BY DEF Exact, Still
    <3>3. Link(s, d)
      BY DEF Inv, Account
    <3>4. st'[s].buf = st[s].buf /\ st'[d].destroyed = st[d].destroyed
      BY <2>1 DEF Still
    <3> QED
      BY <1>3, <2>1, <2>3, <3>1, <3>2, <3>3, <3>4, LinkKept
  <2> QED
    BY <2>2, <2>3 DEF Still
<1>5. Iterated'
  <2>1. st'[Source].buf = st[Source].buf
    BY StreamsAssumption DEF Still
  <2> QED
    BY <1>1, <2>1 DEF Inv, Account, Iterated
<1>6. Ended'
  <2>1. ASSUME NEW s \in Streams
        PROVE  /\ st'[s].emittedEnd = st[s].emittedEnd /\ st'[s].ended = st[s].ended
               /\ st'[s].wEnded = st[s].wEnded /\ st'[s].finalCalled = st[s].finalCalled
               /\ st[s].destroyed => st'[s].destroyed
               /\ st[s].emittedEnd => st'[s].buf = <<>>
               /\ st[s].finalCalled => /\ got'[s] = got[s] /\ st'[s].writing = None
                                       /\ st'[s].queue = <<>>
               /\ st[s].wEnded /\ ~st'[s].destroyed => Accepted(s)' = Accepted(s)
    BY <1>1, <1>3 DEF Still, Inv, Ended, Over
  <2>2. UNCHANGED <<produced, evs, final>>
    BY DEF Still
  <2> QED
    BY <2>1, <2>2, EndedKept
<1> QED
  BY <1>1, <1>3, <1>4, <1>5, <1>6 DEF Account

(* A step that changes one stream, as the rest of the stack sees it.       *)
LEMMA OneKept ==
  ASSUME Inv, Chunk' = Chunk, NEW x \in Streams, NEW g \in FieldsOf(Chunk),
         Kept(x, st[x], g), st' = [st EXCEPT ![x] = g]
  PROVE  FieldsKept /\ st'[x] = g /\ \A s \in Streams \ {x} : st'[s] = st[s]
<1>1. st \in [Streams -> FieldsOf(Chunk)]
  BY DEF Inv, Structure, Typed
<1>2. /\ st' \in [Streams -> FieldsOf(Chunk)] /\ st'[x] = g
      /\ \A s \in Streams \ {x} : st'[s] = st[s]
  BY <1>1
<1>3. ASSUME NEW s \in Streams, s # x PROVE Kept(s, st[s], st[s])
  BY DEF Kept, Inv, Structure, Plain
<1>4. ASSUME NEW s \in Streams PROVE Kept(s, st[s], st'[s])
  <2>1. CASE s = x
    BY <1>2, <2>1
  <2>2. CASE s # x
    <3>1. st'[s] = st[s]
      BY <1>2, <2>2
    <3> QED
      BY <1>3, <2>2, <3>1
  <2> QED
    BY <2>1, <2>2
<1> QED
  BY <1>2, <1>4 DEF FieldsKept

(* No stream changes.                                                      *)
LEMMA SameKept ==
  ASSUME Inv, Chunk' = Chunk, st' = st
  PROVE  FieldsKept
<1>1. ASSUME NEW s \in Streams PROVE Kept(s, st[s], st[s])
  BY DEF Kept, Inv, Structure, Plain
<1> QED
  BY <1>1 DEF FieldsKept, Inv, Structure, Typed
-----------------------------------------------------------------------------
(* The pipe's onData, as far as no chunk is accepted.                      *)
LEMMA AtFlow ==
  ASSUME Inv, NEW a, At(a), a \in Flow
  PROVE  /\ stack # <<>> /\ Head(stack).at = a /\ FrameOK(Head(stack))
         /\ Head(stack) \in FramesOf(Chunk) /\ Self \in Streams /\ st[Self] \in FieldsOf(Chunk)
         /\ Rest \in Seq(Streams) /\ Calls = {Head(stack)} \cup Range(Under)
         /\ Under \in Seq(FramesOf(Chunk)) /\ Ordered(Depth, Under)
         /\ \A g \in Range(Under) : Above(Depth, Head(stack), g)
<1>1. stack # <<>> /\ Head(stack).at = a /\ Structure
  BY DEF At, Inv
<1>2. Self \in Streams
  BY <1>1, Top
<1>3. st[Self] \in FieldsOf(Chunk)
  BY <1>2 DEF Inv, Structure, Typed
<1> QED
  BY <1>1, <1>2, <1>3, Top

(* onData pauses the source when write() returned false.                   *)
LEMMA WroteKeeps ==
  ASSUME Inv, Wrote
  PROVE  Inv'
<1> DEFINE s == Self  h == Head(stack)
<1>1. /\ stack # <<>> /\ h.at = "wrote" /\ h.of = s /\ s \in Streams /\ st[s] \in FieldsOf(Chunk)
      /\ Calls = {h} \cup Range(Under) /\ Structure
  BY AtFlow DEF Wrote, Flow, Self, Inv
<1>2. /\ UNCHANGED <<app, wLen, ticks, asked, final, settled, iter, produced, got, evs, upsets>>
      /\ stack' = <<>> \o Under
      /\ st' = IF h.ok THEN st ELSE [st EXCEPT ![s] = Paused(s)]
  BY DEF Wrote, Call
<1> HIDE DEF s, h
<1>3. Onward /\ Chunk' = Chunk
  BY <1>2, OnwardSame DEF Inv, Structure, Typed
<1>4. /\ FieldsKept /\ (~h.ok => st'[s].flowing = "off")
      /\ \A x \in Streams :
           /\ st'[x].buf = st[x].buf /\ st'[x].queue = st[x].queue
           /\ st'[x].writing = st[x].writing /\ st'[x].destroyed = st[x].destroyed
           /\ st'[x].emittedEnd = st[x].emittedEnd /\ st'[x].ended = st[x].ended
           /\ st'[x].wEnded = st[x].wEnded /\ st'[x].finalCalled = st[x].finalCalled
           /\ st'[x].needDrain = st[x].needDrain
           /\ st'[x].flowing = "on" => st[x].flowing = "on"
  <2>1. CASE h.ok
    BY <1>2, <1>3, <2>1, SameKept
  <2>2. CASE ~h.ok
    <3> DEFINE f == st[s]  g == Paused(s)
    <3>1. f \in FieldsOf(Chunk) /\ g = [f EXCEPT !.flowing = "off"]
      BY <1>1 DEF Paused
    <3>2. Kept(s, f, f)
      BY <1>1 DEF Kept, Structure, Plain
    <3> HIDE DEF f, g
    <3>3. /\ g \in FieldsOf(Chunk) /\ g.flowing = "off"
          /\ g.buf = f.buf /\ g.queue = f.queue /\ g.writing = f.writing
          /\ g.destroyed = f.destroyed /\ g.emittedEnd = f.emittedEnd /\ g.ended = f.ended
          /\ g.wEnded = f.wEnded /\ g.finalCalled = f.finalCalled /\ g.needDrain = f.needDrain
      BY <3>1, SetFlowing, ZenonT(30)
    <3>4. Kept(s, f, g)
      BY <3>2, <3>3 DEF Kept
    <3>5. FieldsKept /\ st'[s] = g /\ \A x \in Streams \ {s} : st'[x] = st[x]
      BY <1>1, <1>2, <1>3, <2>2, <3>3, <3>4, OneKept DEF f, g
    <3> QED
      BY <3>3, <3>5 DEF f
  <2> QED
    BY <2>1, <2>2
<1>5. TicksKept(ticks, <<>>)
  BY <1>2, TicksStay
<1>6. FramesKept(<<>>, Under)
  BY <1>1, <1>2, <1>4, WritingBelow, FramesPop
<1>7. Structure' /\ Calls' = Range(Under)
  <2>1. Structure' /\ Calls' = Range(<<>>) \cup Range(Under)
    BY <1>1, <1>3, <1>4, <1>5, <1>6, StructureStep
  <2> QED
    BY <2>1, RangeFew
<1>8. Still
  <2>1. \A d : (In(d)' <=> In(d)) /\ (Passing(d)' <=> Passing(d))
    BY <1>1, <1>7 DEF In, Passing
  <2>2. \A x, d : Offers(x, d)' = Offers(x, d)
    BY <1>1, <1>7 DEF Offers
  <2> QED
    BY <1>2, <1>4, <2>1, <2>2 DEF Still
<1>9. /\ Account' /\ Ended'
      /\ \A d \in Streams : wLen'[d] = wLen[d] /\ Accepted(d)' = Accepted(d)
  BY <1>8, StillKeeps
<1>10. Pressed'
  <2>1. ASSUME NEW x \in Streams
        PROVE  st'[x].flowing = "on" => st[x].flowing = "on" /\ (Pausing(x) => Pausing(x)')
    <3>1. CASE x = s /\ ~h.ok
      BY <1>4, <3>1
    <3>2. CASE x # s \/ h.ok
      BY <1>1, <1>4, <1>7, <3>2 DEF Pausing
    <3> QED
      BY <3>1, <3>2
  <2>2. \A x, d : Handing(x, d)' => Handing(x, d)
    BY <1>1, <1>7 DEF Handing, Offers
  <2>3. \A d : /\ DrainTick(d)' <=> DrainTick(d)
               /\ Once(<<"drain", d>>, ticks) => Once(<<"drain", d>>, ticks')
    BY <1>2 DEF DrainTick
  <2>4. \A d \in Streams : /\ Accepted(d)' = Accepted(d)
                           /\ wLen'[d] \in Nat /\ wLen'[d] <= wLen[d]
                           /\ st'[d].needDrain = st[d].needDrain
    BY <1>4, <1>9, Numbers DEF Inv, Structure
  <2> QED
    BY <1>2, <2>1, <2>2, <2>3, <2>4, PressedKept
<1> QED
  BY <1>7, <1>9, <1>10 DEF Inv

(* The order looks at the place and the stream of a frame only.            *)
LEMMA AboveLike ==
  ASSUME NEW D, NEW f, NEW h, NEW g, f.at = h.at, f.of = h.of, Above(D, h, g)
  PROVE  Above(D, f, g)
BY DEF Above, Level

(* emit("data") has called every listener.                                 *)
LEMMA EmitDataDone ==
  ASSUME Inv, EmitData, Rest = <<>>
  PROVE  Inv'
<1> DEFINE h == Head(stack)
<1>1. /\ stack # <<>> /\ h.at = "emit" /\ h.to = <<>>
      /\ Calls = {h} \cup Range(Under) /\ Structure
  BY AtFlow DEF EmitData, Flow, Rest, Inv
<1>2. /\ UNCHANGED <<app, wLen, st, ticks, asked, final, settled, iter, produced, got, evs, upsets>>
      /\ stack' = <<>> \o Under
  BY DEF EmitData, Call
<1> HIDE DEF h
<1>3. Onward /\ Chunk' = Chunk /\ FieldsKept /\ TicksKept(ticks, <<>>)
  BY <1>2, OnwardSame, SameKept, TicksStay DEF Inv, Structure, Typed
<1>4. FramesKept(<<>>, Under)
  BY <1>1, <1>2, WritingBelow, FramesPop
<1>5. Structure' /\ Calls' = Range(Under)
  <2>1. Structure' /\ Calls' = Range(<<>>) \cup Range(Under)
    BY <1>1, <1>3, <1>4, StructureStep
  <2> QED
    BY <2>1, RangeFew
<1>6. /\ \A d : (In(d)' <=> In(d)) /\ (Passing(d)' <=> Passing(d))
      /\ \A x, d : Offers(x, d)' = Offers(x, d)
      /\ \A x : Pausing(x)' <=> Pausing(x)
  <2>1. \A d : (In(d)' <=> In(d)) /\ (Passing(d)' <=> Passing(d))
    BY <1>1, <1>5 DEF In, Passing
  <2>2. \A x : Pausing(x)' <=> Pausing(x)
    BY <1>1, <1>5 DEF Pausing
  <2>3. \A d : d \notin Range(h.to)
    BY <1>1, RangeFew
  <2>4. \A x, d : Offers(x, d)' = Offers(x, d)
    BY <1>1, <1>5, <2>3 DEF Offers
  <2> QED
    BY <2>1, <2>2, <2>4
<1>7. Still
  BY <1>2, <1>6 DEF Still
<1>8. /\ Account' /\ Ended'
      /\ \A d \in Streams : wLen'[d] = wLen[d] /\ Accepted(d)' = Accepted(d)
  BY <1>7, StillKeeps
<1>9. Pressed'
  <2>1. \A d \in Streams : /\ Accepted(d)' = Accepted(d)
                           /\ wLen'[d] \in Nat /\ wLen'[d] <= wLen[d]
                           /\ st'[d].needDrain = st[d].needDrain
    BY <1>2, <1>8, Numbers DEF Inv, Structure
  <2>2. \A d : DrainTick(d)' <=> DrainTick(d)
    BY <1>2 DEF DrainTick
  <2>3. \A x, d : Handing(x, d)' => Handing(x, d)
    BY <1>6 DEF Handing
  <2> QED
    BY <1>2, <1>6, <2>1, <2>2, <2>3, PressedKept
<1> QED
  BY <1>5, <1>8, <1>9 DEF Inv

(* The destinations a chunk is still to be handed to.                      *)
LEMMA Onwards ==
  ASSUME Inv, At("emit"), Rest # <<>>
  PROVE  LET h == Head(stack)  s == Self  d == Head(Rest)
             f == Emission(s, h.chunk, Tail(Rest))
         IN
         /\ d \in Range(app.pipes[s]) /\ d \in Streams /\ d # Source /\ d # s
         /\ h.chunk \in Chunk /\ h.chunk = Head(stack).chunk
         /\ f \in FramesOf(Chunk) /\ f.at = "emit" /\ f.of = s /\ f.chunk = h.chunk
         /\ f.to = Tail(Rest) /\ Range(f.to) = Range(h.to) \ {d} /\ d \in Range(h.to)
         /\ Range(f.to) \subseteq Range(app.pipes[s])
         /\ \A i, j \in 1..Len(f.to) : f.to[i] = f.to[j] => i = j
<1> DEFINE h == Head(stack)  s == Self  d == Head(Rest)
           f == Emission(s, h.chunk, Tail(Rest))
<1>1. /\ h.at = "emit" /\ FrameOK(h) /\ h.of = s /\ h.to = Rest /\ s \in Streams
      /\ Rest \in Seq(Streams)
  BY AtFlow DEF Flow, Self, Rest
<1>2. /\ h.chunk \in Chunk /\ Range(Rest) \subseteq Range(app.pipes[s])
      /\ \A i, j \in 1..Len(Rest) : Rest[i] = Rest[j] => i = j
  BY <1>1 DEF FrameOK
<1>3. Tail(Rest) \in Seq(Streams) /\ Range(Rest) = {d} \cup Range(Tail(Rest))
  BY <1>1, RangeTail
<1>4. /\ d \notin Range(Tail(Rest))
      /\ \A i, j \in 1..Len(Tail(Rest)) : Tail(Rest)[i] = Tail(Rest)[j] => i = j
  BY <1>1, <1>2, HeadOnce
<1>5. d \in Range(app.pipes[s])
  BY <1>2, <1>3
<1>6. d \in Streams /\ d # Source
  BY <1>1, <1>5, Pipes DEF Inv, Structure
<1>7. d # s
  <2>1. Depth[s] < Depth[d] /\ Depth[s] \in Nat
    BY <1>1, <1>5, DepthFacts DEF Inv, Structure
  <2> QED
    BY <2>1
<1>8. f = [at |-> "emit", of |-> s, chunk |-> h.chunk, to |-> Tail(Rest), ok |-> TRUE]
  BY DEF Emission, Frame
<1> HIDE DEF f
<1>9. f \in FramesOf(Chunk)
  <2>1. "emit" \in Places
    BY DEF Places
  <2> HIDE DEF s, h
  <2> QED
    BY <1>1, <1>2, <1>3, <1>8, <2>1 DEF FramesOf
<1>10. f.at = "emit" /\ f.of = s /\ f.chunk = h.chunk /\ f.to = Tail(Rest)
  BY <1>8
<1>11. Range(f.to) = Range(h.to) \ {d} /\ d \in Range(h.to)
  BY <1>1, <1>3, <1>4, <1>10
<1>12. /\ Range(f.to) \subseteq Range(app.pipes[s])
       /\ \A i, j \in 1..Len(f.to) : f.to[i] = f.to[j] => i = j
  <2>1. Range(f.to) \subseteq Range(app.pipes[s])
    BY <1>1, <1>2, <1>11
  <2>2. \A i, j \in 1..Len(f.to) : f.to[i] = f.to[j] => i = j
    BY <1>4, <1>10
  <2> QED
    BY <2>1, <2>2
<1> QED
  BY <1>2, <1>5, <1>6, <1>7, <1>9, <1>10, <1>11, <1>12 DEF f

(* One destination less is still to be handed the chunk.                   *)
LEMMA OffersMove ==
  ASSUME Inv, At("emit"), Rest # <<>>, NEW s, NEW d, NEW h, NEW f,
         s = Self, d = Head(Rest), h = Head(stack), f = Emission(s, h.chunk, Tail(Rest)),
         NEW R, Calls' = R \cup Range(Under), f \in R, \A g \in R : g.at = "emit" => g = f
  PROVE  /\ \A x, e : x # s \/ e # d => Offers(x, e)' = Offers(x, e)
         /\ Offers(s, d)' = {} /\ Offers(s, d) = {h.chunk}
<1>1. /\ h.at = "emit" /\ h.of = s /\ Calls = {h} \cup Range(Under)
      /\ Structure /\ stack # <<>>
  BY AtFlow DEF Flow, Self, Inv
<1>2. /\ f.at = "emit" /\ f.of = s /\ f.chunk = h.chunk
      /\ Range(f.to) = Range(h.to) \ {d} /\ d \in Range(h.to)
  BY Onwards
<1>3. \A g \in Range(Under) : ~(g.at = "emit" /\ g.of = s)
  BY <1>1, Unique DEF Flow
<1>5. ASSUME NEW x, NEW e, x # s PROVE Offers(x, e)' = Offers(x, e)
  <2>1. \A g : /\ g \in Calls' /\ g.at = "emit" /\ g.of = x
               <=> g \in Calls /\ g.at = "emit" /\ g.of = x
    BY <1>1, <1>2, <1>5
  <2> QED
    BY <2>1 DEF Offers
<1>6. ASSUME NEW e PROVE /\ Offers(s, e) = IF e \in Range(h.to) THEN {h.chunk} ELSE {}
                         /\ Offers(s, e)' = IF e \in Range(f.to) THEN {h.chunk} ELSE {}
  <2>1. \A g : g \in Calls /\ g.at = "emit" /\ g.of = s <=> g = h
    BY <1>1, <1>3
  <2>2. \A g : g \in Calls' /\ g.at = "emit" /\ g.of = s <=> g = f
    BY <1>2, <1>3
  <2>3. {g \in Calls : g.at = "emit" /\ g.of = s /\ e \in Range(g.to)}
          = IF e \in Range(h.to) THEN {h} ELSE {}
    BY <2>1
  <2>4. {g \in Calls' : g.at = "emit" /\ g.of = s /\ e \in Range(g.to)}
          = IF e \in Range(f.to) THEN {f} ELSE {}
    BY <2>2
  <2>5. Offers(s, e) = IF e \in Range(h.to) THEN {h.chunk} ELSE {}
    BY <2>3 DEF Offers
  <2>6. Offers(s, e)' = IF e \in Range(f.to) THEN {f.chunk} ELSE {}
    BY <2>4 DEF Offers
  <2> QED
    BY <1>2, <2>5, <2>6
<1>7. Offers(s, d)' = {} /\ Offers(s, d) = {h.chunk}
  BY <1>2, <1>6
<1>8. ASSUME NEW e, e # d PROVE Offers(s, e)' = Offers(s, e)
  BY <1>2, <1>6, <1>8
<1> QED
  BY <1>5, <1>7, <1>8

(* write() refuses the chunk.                                              *)
LEMMA EmitDataRejected ==
  ASSUME Inv, EmitData, Rest # <<>>, st[Head(Rest)].wEnded \/ st[Head(Rest)].destroyed
  PROVE  Inv'
<1> SUFFICES ASSUME NEW h, NEW s, NEW d, NEW f, h = Head(stack), s = Self, d = Head(Rest),
                    f = Emission(s, h.chunk, Tail(Rest))
             PROVE  Inv'
  OBVIOUS
<1> DEFINE k == st[s]  g == Paused(s)  N == <<<<"error", d>>>>
<1>1. /\ stack # <<>> /\ h.at = "emit" /\ h.of = s /\ s \in Streams /\ k \in FieldsOf(Chunk)
      /\ Calls = {h} \cup Range(Under) /\ Structure /\ At("emit")
      /\ Under \in Seq(FramesOf(Chunk)) /\ Ordered(Depth, Under)
      /\ \A b \in Range(Under) : Above(Depth, h, b)
  BY AtFlow DEF EmitData, Flow, Self, Inv
<1>2. /\ UNCHANGED <<app, wLen, asked, final, settled, iter, produced, got, evs, upsets>>
      /\ ticks' = ticks \o N /\ st' = [st EXCEPT ![s] = g] /\ stack' = <<f>> \o Under
  BY DEF EmitData, Call, Tick
<1>3. /\ d \in Range(app.pipes[s]) /\ d \in Streams /\ d # Source /\ h.chunk \in Chunk
      /\ f \in FramesOf(Chunk) /\ f.at = "emit" /\ f.of = s /\ f.chunk = h.chunk
      /\ Range(f.to) \subseteq Range(app.pipes[s])
      /\ \A i, j \in 1..Len(f.to) : f.to[i] = f.to[j] => i = j
  BY <1>1, Onwards
<1>4. N \in Seq(Tasks \X Streams) /\ Range(N) = {<<"error", d>>}
  BY <1>3, RangeFew, FewTicks DEF Tasks
<1>5. g = [k EXCEPT !.flowing = "off"] /\ Kept(s, k, k)
  BY <1>1 DEF Paused, Kept, Structure, Plain
<1> HIDE DEF k, g, N
<1>6. Onward /\ Chunk' = Chunk
  BY <1>2, OnwardSame DEF Inv, Structure, Typed
<1>7. /\ g \in FieldsOf(Chunk) /\ g.flowing = "off"
      /\ g.buf = k.buf /\ g.queue = k.queue /\ g.writing = k.writing
      /\ g.destroyed = k.destroyed /\ g.emittedEnd = k.emittedEnd /\ g.ended = k.ended
      /\ g.wEnded = k.wEnded /\ g.finalCalled = k.finalCalled /\ g.needDrain = k.needDrain
  BY <1>1, <1>5, SetFlowing, ZenonT(30)
<1>8. FieldsKept /\ st'[s] = g /\ \A x \in Streams \ {s} : st'[x] = st[x]
  <2>1. Kept(s, k, g)
    BY <1>5, <1>7 DEF Kept
  <2> QED
    BY <1>1, <1>2, <1>6, <1>7, <2>1, OneKept DEF k
<1>9. \A x \in Streams :
        /\ st'[x].buf = st[x].buf /\ st'[x].queue = st[x].queue
        /\ st'[x].writing = st[x].writing /\ st'[x].destroyed = st[x].destroyed
        /\ st'[x].emittedEnd = st[x].emittedEnd /\ st'[x].ended = st[x].ended
        /\ st'[x].wEnded = st[x].wEnded /\ st'[x].finalCalled = st[x].finalCalled
        /\ st'[x].needDrain = st[x].needDrain
        /\ st'[x].flowing = "on" => st[x].flowing = "on"
  BY <1>7, <1>8 DEF k
<1>10. ticks \in Seq(Tasks \X Streams) /\ OtherTicks(ticks, N)
  BY <1>2, <1>4 DEF OtherTicks, Inv, Structure, Typed
<1>11. TicksKept(ticks, N)
  <2>1. \A t \in Range(N) : TickOK(t)'
    BY <1>4 DEF TickOK
  <2> QED
    BY <1>2, <1>4, <1>10, <2>1 DEF TicksKept
<1>12. FramesKept(<<f>>, Under)
  <2>1. <<f>> \in Seq(FramesOf(Chunk')) /\ Range(<<f>>) = {f} /\ Ordered(Depth, <<f>>)
    <3>1. f \in FramesOf(Chunk')
      BY <1>3, <1>6
    <3>2. <<f>> \in Seq(FramesOf(Chunk'))
      BY <3>1
    <3> QED
      BY <3>2, RangeFew, OrderedFew
  <2>2. \A b \in Range(Under) : Above(Depth, f, b)
    BY <1>1, <1>3, AboveLike
  <2>3. FrameOK(f)'
    BY <1>2, <1>3, <1>6 DEF FrameOK
  <2>4. ASSUME NEW b \in Range(Under), b.at \in {"write", "transformed"}
        PROVE  st'[b.of].writing # None
    BY <1>1, <1>9, <2>4, WritingBelow
  <2> QED
    BY <1>1, <1>2, <2>1, <2>2, <2>3, <2>4 DEF FramesKept
<1>13. Structure' /\ Calls' = {f} \cup Range(Under)
  <2>1. Structure' /\ Calls' = Range(<<f>>) \cup Range(Under)
    BY <1>1, <1>6, <1>8, <1>11, <1>12, StructureStep
  <2> QED
    BY <2>1, RangeFew
<1>14. /\ \A x, e : x # s \/ e # d => Offers(x, e)' = Offers(x, e)
       /\ Offers(s, d)' = {} /\ Offers(s, d) = {h.chunk}
  <2> DEFINE R == {f}
  <2>1. f \in R /\ (\A b \in R : b.at = "emit" => b = f) /\ Calls' = R \cup Range(Under)
    BY <1>13
  <2> HIDE DEF R
  <2> QED
    BY <1>1, <2>1, OffersMove
<1>15. st[d].destroyed
  <2>1. SUFFICES ASSUME st[d].wEnded, ~st[d].destroyed PROVE FALSE
    OBVIOUS
  <2>2. Accepted(d) = produced
    BY <1>3, <2>1 DEF Inv, Ended, Over
  <2>3. h.chunk = Accepted(d) + 1
    BY <1>1, <1>3, <1>14, <2>1 DEF Inv, Account, Link
  <2>4. produced \in Nat /\ h.chunk \in 1..produced
    BY <1>3, Pipes DEF Inv, Structure, Chunk
  <2> QED
    BY <2>2, <2>3, <2>4
<1>16. /\ \A e : (In(e)' <=> In(e)) /\ (Passing(e)' <=> Passing(e))
       /\ \A x : Pausing(x)' <=> Pausing(x)
  BY <1>1, <1>3, <1>13 DEF In, Passing, Pausing
<1>17. Still
  BY <1>2, <1>9, <1>14, <1>15, <1>16 DEF Still
<1>18. /\ Account' /\ Ended'
       /\ \A e \in Streams : wLen'[e] = wLen[e] /\ Accepted(e)' = Accepted(e)
  BY <1>17, StillKeeps
<1>19. Pressed'
  <2>1. \A e \in Streams : /\ Accepted(e)' = Accepted(e)
                           /\ wLen'[e] \in Nat /\ wLen'[e] <= wLen[e]
                           /\ st'[e].needDrain = st[e].needDrain
    BY <1>9, <1>18, Numbers DEF Inv, Structure
  <2>2. \A x, e : Handing(x, e)' => Handing(x, e)
    BY <1>14 DEF Handing
  <2>3. \A e : /\ DrainTick(e)' <=> DrainTick(e)
               /\ Once(<<"drain", e>>, ticks) => Once(<<"drain", e>>, ticks')
    BY <1>10, DrainsKept
  <2> QED
    BY <1>2, <1>9, <1>16, <2>1, <2>2, <2>3, PressedKept
<1> QED
  BY <1>13, <1>18, <1>19 DEF Inv
-----------------------------------------------------------------------------
(* A step that moves a chunk at stream x leaves the other streams alone.   *)
Elsewhere(x) ==
  /\ app' = app /\ evs' = evs /\ final' = final
  /\ produced' = produced \/ (x = Source /\ ~st[Source].ended)
  /\ \A s \in Streams \ {x} :
       /\ st'[s] = st[s] /\ got'[s] = got[s] /\ wLen'[s] = wLen[s]
       /\ In(s)' <=> In(s)
       /\ Passing(s)' <=> Passing(s)
  /\ \A s, d \in Streams : s # x /\ d # x => Offers(s, d)' = Offers(s, d)
  /\ \A s \in Streams : Pausing(s) => Pausing(s)'
  /\ \A d \in Streams \ {x} :
       /\ DrainTick(d)' <=> DrainTick(d)
       /\ Once(<<"drain", d>>, ticks) => Once(<<"drain", d>>, ticks')

(* What there is left to show of x itself: its account, its pipes on both  *)
(* sides, and its end.                                                     *)
Here(x) ==
  /\ Written1(x)' /\ Over(x)'
  /\ \A s \in Streams : x \in Range(app.pipes[s]) => Link(s, x)' /\ (Only(s, x) => Pressure(s, x)')
  /\ \A d \in Range(app.pipes[x]) : Link(x, d)' /\ (Only(x, d) => Pressure(x, d)')
  /\ wLen'[x] >= app.hwm => st'[x].needDrain
  /\ st[x].ended => st'[x].ended
  /\ st[x].finalCalled => st'[x].finalCalled

(* The other streams keep their account.                                   *)
LEMMA ElsewhereSame ==
  ASSUME Inv, NEW x \in Streams, Elsewhere(x), NEW d \in Streams, d # x
  PROVE  /\ SameWrites(d) /\ Written1(d)' /\ wLen'[d] = wLen[d] /\ Accepted(d)' = Accepted(d)
         /\ Given(d)' = Given(d) /\ Exact(d)' = Exact(d)
<1>1. st'[d] = st[d] /\ got'[d] = got[d] /\ (In(d)' <=> In(d)) /\ (Passing(d)' <=> Passing(d))
  BY DEF Elsewhere
<1>2. SameWrites(d)
  BY <1>1 DEF SameWrites, Elsewhere
<1>3. Taken(d)' = Taken(d) /\ Written1(d)' /\ wLen'[d] = wLen[d] /\ Accepted(d)' = Accepted(d)
  BY <1>2, WritesKept DEF Inv, Account
<1>4. d = Source => produced' = produced
  BY DEF Elsewhere
<1>5. Given(d)' = Given(d)
  BY <1>1, <1>3, <1>4 DEF Given
<1>6. Exact(d)' = Exact(d)
  BY <1>1 DEF Exact
<1> QED
  BY <1>2, <1>3, <1>5, <1>6

(* What holds of x then holds of all.                                      *)
LEMMA ElsewhereKeeps ==
  ASSUME Inv, NEW x \in Streams, Elsewhere(x), Here(x), Iterated'
  PROVE  Account' /\ Ended' /\ Pressed'
<1>1. app' = app /\ evs' = evs /\ final' = final /\ Source \in Streams /\ Typed
  BY StreamsAssumption DEF Elsewhere, Inv, Structure
<1>2. ASSUME NEW d \in Streams PROVE Written1(d)'
  BY ElsewhereSame DEF Here
<1>3. ASSUME NEW s \in Streams, NEW d \in Range(app.pipes[s]) PROVE Link(s, d)'
  <2>1. d \in Streams
    BY <1>1, Pipes
  <2>2. CASE s = x \/ d = x
    BY <2>2 DEF Here
  <2>3. CASE s # x /\ d # x
    <3>1. Accepted(d)' = Accepted(d) /\ Given(s)' = Given(s) /\ Exact(s)' = Exact(s)
      BY <2>1, <2>3, ElsewhereSame
    <3>2. st'[d] = st[d] /\ st'[s] = st[s] /\ Offers(s, d)' = Offers(s, d)
      BY <2>1, <2>3 DEF Elsewhere
    <3>3. Link(s, d)
      BY DEF Inv, Account
    <3> QED
      BY <3>1, <3>2, <3>3, LinkKept
  <2> QED
    BY <2>2, <2>3
<1>4. Account'
  BY <1>1, <1>2, <1>3 DEF Account
<1>5. st[Source].ended => st'[Source].ended /\ produced' = produced
  BY <1>1 DEF Elsewhere, Here
<1>6. ASSUME NEW s \in Streams, s # x PROVE Over(s)'
  <2>1. Over(s) /\ st'[s] = st[s] /\ got'[s] = got[s] /\ Accepted(s)' = Accepted(s)
    BY <1>6, ElsewhereSame DEF Inv, Ended, Elsewhere
  <2>2. st[s].finalCalled => st[s].wEnded
    BY <2>1 DEF Over
  <2>3. st[s].wEnded => st'[Source].ended /\ produced' = produced
    BY <1>5, <2>1 DEF Over
  <2>4. st'[s].emittedEnd => st'[s].ended /\ st'[s].buf = <<>>
    BY <2>1 DEF Over
  <2>5. st'[s].ended /\ s # Source => st'[s].finalCalled
    BY <2>1 DEF Over
  <2>6. st'[s].wEnded => st'[Source].ended
    BY <2>1, <2>3
  <2>7. st'[s].wEnded /\ ~st'[s].destroyed => Accepted(s)' = produced'
    BY <2>1, <2>3 DEF Over
  <2>8. st'[s].finalCalled => /\ st'[s].wEnded /\ Len(got'[s]) = produced'
                               /\ st'[s].writing = None /\ st'[s].queue = <<>>
    BY <2>1, <2>2, <2>3 DEF Over
  <2>9. /\ "end" \in Range(evs'[s]) => st'[s].emittedEnd
        /\ "finish" \in Range(evs'[s]) => st'[s].finalCalled
    BY <1>1, <2>1 DEF Over
  <2> QED
    BY <2>4, <2>5, <2>6, <2>7, <2>8, <2>9 DEF Over
<1>7. ASSUME NEW s \in final' PROVE st'[s].finalCalled
  <2>1. s \in Streams /\ st[s].finalCalled
    BY <1>1, StreamsAssumption DEF Inv, Ended, Typed
  <2> QED
    BY <2>1 DEF Elsewhere, Here
<1>8. Ended'
  BY <1>6, <1>7 DEF Ended, Here
<1>9. ASSUME NEW d \in Streams, wLen'[d] >= app'.hwm PROVE st'[d].needDrain
  <2>1. CASE d = x
    BY <1>1, <1>9, <2>1 DEF Here
  <2>2. CASE d # x
    <3>1. wLen'[d] = wLen[d] /\ st'[d] = st[d]
      BY <2>2, ElsewhereSame DEF Elsewhere
    <3> QED
      BY <1>1, <1>9, <3>1 DEF Inv, Pressed
  <2> QED
    BY <2>1, <2>2
<1>10. ASSUME NEW s \in Streams, NEW d \in Streams, Only(s, d)' PROVE Pressure(s, d)'
  <2>1. Only(s, d) /\ d \in Range(app.pipes[s])
    BY <1>1, <1>10 DEF Only
  <2>2. CASE s = x \/ d = x
    BY <2>1, <2>2 DEF Here
  <2>3. CASE s # x /\ d # x
    <3>1. Pressure(s, d)
      BY <2>1 DEF Inv, Pressed
    <3>2. st'[d] = st[d] /\ st'[s] = st[s] /\ Offers(s, d)' = Offers(s, d)
      BY <2>3 DEF Elsewhere
    <3>3. Handing(s, d)' => Handing(s, d)
      BY <3>2 DEF Handing
    <3>4. /\ wLen'[d] = wLen[d] /\ wLen[d] \in Nat /\ app.hwm \in Nat
          /\ Accepted(d)' = Accepted(d)
      BY <1>1, <2>3, ElsewhereSame, Numbers
    <3>5. /\ DrainTick(d)' <=> DrainTick(d)
          /\ Once(<<"drain", d>>, ticks) => Once(<<"drain", d>>, ticks')
          /\ Pausing(s) => Pausing(s)'
      BY <2>3 DEF Elsewhere
    <3> QED
      BY <1>1, <3>1, <3>2, <3>3, <3>4, <3>5, PressureKept
  <2> QED
    BY <2>2, <2>3
<1> QED
  BY <1>4, <1>8, <1>9, <1>10 DEF Pressed

(* The pipes into x, when x accepts nothing.                               *)
WriteSide(x) ==
  /\ Accepted(x)' = Accepted(x) /\ wLen'[x] \in Nat /\ wLen'[x] <= wLen[x]
  /\ st'[x].needDrain = st[x].needDrain /\ (st[x].destroyed => st'[x].destroyed)
  /\ DrainTick(x)' <=> DrainTick(x)
  /\ Once(<<"drain", x>>, ticks) => Once(<<"drain", x>>, ticks')
  /\ \A s \in Streams : s # x => Offers(s, x)' = Offers(s, x)

(* No stream is piped into itself.                                         *)
LEMMA Irreflexive ==
  ASSUME Typed, NEW s \in Streams, NEW d \in Range(app.pipes[s])
  PROVE  d \in Streams /\ d # s
<1>1. Depth[s] < Depth[d] /\ Depth[s] \in Nat /\ d \in Streams
  BY DepthFacts, Pipes
<1> QED
  BY <1>1

(* Pipes into x.                                                           *)
LEMMA WriteSideKept ==
  ASSUME Inv, NEW x \in Streams, Elsewhere(x), WriteSide(x)
  PROVE  /\ \A s \in Streams :
              x \in Range(app.pipes[s]) => Link(s, x)' /\ (Only(s, x) => Pressure(s, x)')
         /\ wLen'[x] >= app.hwm => st'[x].needDrain
<1>1. app' = app /\ Typed /\ wLen[x] \in Nat /\ app.hwm \in Nat
  BY Numbers DEF Elsewhere, Inv, Structure
<1>2. ASSUME NEW s \in Streams, x \in Range(app.pipes[s])
      PROVE  Link(s, x)' /\ (Only(s, x) => Pressure(s, x)')
  <2>1. s # x
    BY <1>1, <1>2, Irreflexive
  <2>2. Given(s)' = Given(s) /\ Exact(s)' = Exact(s) /\ st'[s] = st[s]
    BY <2>1, ElsewhereSame DEF Elsewhere
  <2>3. Offers(s, x)' = Offers(s, x) /\ Accepted(x)' = Accepted(x)
    BY <2>1 DEF WriteSide
  <2>4. Link(s, x)'
    <3>1. Link(s, x) /\ (st[x].destroyed => st'[x].destroyed)
      BY <1>2 DEF Inv, Account, WriteSide
    <3> QED
      BY <2>2, <2>3, <3>1, LinkKept
  <2>5. ASSUME Only(s, x) PROVE Pressure(s, x)'
    <3>1. Pressure(s, x)
      BY <2>5 DEF Inv, Pressed
    <3>2. Handing(s, x)' => Handing(s, x)
      BY <2>3 DEF Handing
    <3>3. Pausing(s) => Pausing(s)'
      BY DEF Elsewhere
    <3>4. /\ wLen'[x] \in Nat /\ wLen'[x] <= wLen[x]
          /\ st'[x].needDrain = st[x].needDrain
          /\ DrainTick(x)' <=> DrainTick(x)
          /\ Once(<<"drain", x>>, ticks) => Once(<<"drain", x>>, ticks')
      BY DEF WriteSide
    <3> QED
      BY <1>1, <2>2, <2>3, <3>1, <3>2, <3>3, <3>4, PressureKept
  <2> QED
    BY <2>4, <2>5
<1>3. wLen'[x] >= app.hwm => st'[x].needDrain
  BY <1>1 DEF WriteSide, Inv, Pressed
<1> QED
  BY <1>2, <1>3

(* The pipes out of x, when x is given nothing.                            *)
ReadSide(x) ==
  /\ st'[x].buf = st[x].buf /\ (st'[x].flowing = "on" => st[x].flowing = "on")
  /\ Exact(x)' => Exact(x) /\ Given(x)' = Given(x)
  /\ \A d \in Streams : Offers(x, d)' = Offers(x, d)

(* Pipes out of x.                                                         *)
LEMMA ReadSideKept ==
  ASSUME Inv, NEW x \in Streams, Elsewhere(x), app.pipes[x] = <<>> \/ ReadSide(x)
  PROVE  \A d \in Range(app.pipes[x]) : Link(x, d)' /\ (Only(x, d) => Pressure(x, d)')
<1>1. app' = app /\ Typed /\ app.hwm \in Nat
  BY Pipes DEF Elsewhere, Inv, Structure
<1>2. SUFFICES ASSUME NEW d \in Range(app.pipes[x])
               PROVE  Link(x, d)' /\ (Only(x, d) => Pressure(x, d)')
  OBVIOUS
<1>3. d \in Streams /\ d # x
  BY <1>1, <1>2, Irreflexive
<1>4. ReadSide(x)
  BY <1>2, RangeFew
<1>5. /\ Accepted(d)' = Accepted(d) /\ st'[d] = st[d] /\ Offers(x, d)' = Offers(x, d)
      /\ wLen'[d] = wLen[d] /\ wLen[d] \in Nat
  BY <1>1, <1>3, <1>4, ElsewhereSame, Numbers DEF Elsewhere, ReadSide
<1>6. Link(x, d)'
  <2>1. Link(x, d)
    BY <1>2 DEF Inv, Account
  <2>2. Passed(x, d)' = Passed(x, d)
    BY <1>5 DEF Passed, Handing
  <2> QED
    BY <1>4, <1>5, <2>1, <2>2 DEF Link, ReadSide
<1>7. ASSUME Only(x, d) PROVE Pressure(x, d)'
  <2>1. Pressure(x, d)
    BY <1>3, <1>7 DEF Inv, Pressed
  <2>2. Handing(x, d)' => Handing(x, d)
    BY <1>5 DEF Handing
  <2>3. /\ DrainTick(d)' <=> DrainTick(d)
        /\ Once(<<"drain", d>>, ticks) => Once(<<"drain", d>>, ticks')
        /\ Pausing(x) => Pausing(x)'
    BY <1>3 DEF Elsewhere
  <2>4. st'[x].flowing = "on" => st[x].flowing = "on"
    BY <1>4 DEF ReadSide
  <2> QED
    BY <1>1, <1>3, <1>5, <2>1, <2>2, <2>3, <2>4, PressureKept
<1> QED
  BY <1>6, <1>7
-----------------------------------------------------------------------------
(* The "drain" of a destination resumes the source that feeds it.          *)
LEMMA ListFew ==
  ASSUME NEW S, NEW a, S = {} \/ S = {a}
  PROVE  SetToSeq(S) \in Seq(S)
<1>1. PICK n \in Nat : Cardinality(S) = n /\ \E f \in [1..n -> S] : IsInjective(f)
  <2>1. CASE S = {}
    <3>1. Cardinality(S) = 0
      BY <2>1, FS_EmptySet
    <3>2. 1..0 = {}
      OBVIOUS
    <3>3. [i \in 1..0 |-> a] \in [1..0 -> S] /\ IsInjective([i \in 1..0 |-> a])
      BY <3>2 DEF IsInjective
    <3>4. \E f \in [1..0 -> S] : IsInjective(f)
      BY <3>3
    <3>5. 0 \in Nat
      OBVIOUS
    <3> QED
      BY <3>1, <3>4, <3>5, Zenon
  <2>2. CASE S = {a}
    <3>1. Cardinality(S) = 1
      BY <2>2, FS_Singleton
    <3>2. \A i, j \in 1..1 : i = j
      OBVIOUS
    <3>3. [i \in 1..1 |-> a] \in [1..1 -> S] /\ IsInjective([i \in 1..1 |-> a])
      BY <2>2, <3>2 DEF IsInjective
    <3>4. \E f \in [1..1 -> S] : IsInjective(f)
      BY <3>3
    <3> QED
      BY <3>1, <3>4
  <2> QED
    BY <2>1, <2>2
<1>2. SetToSeq(S) \in [1..n -> S]
  BY <1>1 DEF SetToSeq
<1> QED
  BY <1>2

(* The only pipe is the only pipe.                                         *)
LEMMA OnlyOne ==
  ASSUME Typed, NEW s \in Streams, NEW d, NEW e, Only(s, d), e \in Range(app.pipes[s])
  PROVE  e = d
<1>1. app.pipes[s] \in Seq(Streams) /\ Len(app.pipes[s]) = 1
  BY Pipes DEF Only
<1>2. PICK i \in 1..1 : d = app.pipes[s][i]
  BY <1>1, MemRange DEF Only
<1>3. PICK j \in 1..1 : e = app.pipes[s][j]
  BY <1>1, MemRange
<1> QED
  BY <1>2, <1>3

(* "drain" resumes the source.                                             *)
LEMMA RunDrainKeeps ==
  ASSUME Inv, RunDrain
  PROVE  Inv'
<1> SUFFICES ASSUME NEW d, d = Of
             PROVE  Inv'
  OBVIOUS
<1> DEFINE paused == {s \in Feeding(d) : st[s].flowing # "on"}
           W == {<<"emitData", s>> : s \in paused}
           N == SetToSeq(W)
           Q == Tail(ticks)
<1>1. /\ stack = <<>> /\ ticks # <<>> /\ d \in Streams
      /\ Head(ticks)[1] = "drain" /\ ticks \in Seq(Tasks \X Streams)
  BY Task DEF RunDrain
<1>2. /\ UNCHANGED <<app, wLen, stack, asked, final, settled, iter, produced, got, evs, upsets>>
      /\ st' = Resumed(paused) /\ ticks' = Q \o N
  BY DEF RunDrain, Then
<1>3. Typed /\ Structure
  BY DEF Inv, Structure
<1>4. PICK p : paused = {} \/ paused = {p}
  <2>1. \A s, t \in Feeding(d) : s = t
    BY <1>3, Pipes DEF Feeding
  <2>2. CASE paused = {}
    BY <2>2
  <2>3. CASE paused # {}
    <3>1. PICK s : s \in paused
      BY <2>3
    <3>2. paused = {s}
      BY <2>1, <3>1
    <3> QED
      BY <3>2
  <2> QED
    BY <2>2, <2>3
<1>5. /\ N \in Seq(Tasks \X Streams) /\ \A t \in Range(N) : t[1] = "emitData"
      /\ Q \in Seq(Tasks \X Streams) /\ Range(ticks) = {Head(ticks)} \cup Range(Q)
      /\ Head(ticks) = <<"drain", d>>
  <2>1. W = {} \/ W = {<<"emitData", p>>}
    BY <1>4
  <2>2. N \in Seq(W)
    <3> HIDE DEF W
    <3> QED
      BY <2>1, ListFew
  <2>3. W \subseteq Tasks \X Streams /\ \A t \in W : t[1] = "emitData"
    BY DEF Feeding, Tasks
  <2>4. N \in Seq(Tasks \X Streams) /\ \A t \in Range(N) : t[1] = "emitData"
    <3> HIDE DEF N, W
    <3>1. Range(N) \subseteq W
      BY <2>2, InRange
    <3> QED
      BY <2>2, <2>3, <3>1
  <2>5. Q \in Seq(Tasks \X Streams) /\ Range(ticks) = {Head(ticks)} \cup Range(Q)
    BY <1>1, RangeTail
  <2>6. Head(ticks) \in Tasks \X Streams
    BY <1>1, RangeTail
  <2>7. Head(ticks) = <<"drain", d>>
    BY <1>1, <2>6 DEF Of
  <2> QED
    BY <2>4, <2>5, <2>7
<1>6. \A s \in paused : s \in Streams /\ d \in Range(app.pipes[s]) /\ st[s].flowing # "on"
  BY DEF Feeding
<1> HIDE DEF N, Q, paused, W
<1>7. Onward /\ Chunk' = Chunk
  BY <1>2, OnwardSame DEF Inv, Structure, Typed
<1>8. ASSUME NEW x \in Streams
      PROVE  /\ st'[x] \in FieldsOf(Chunk) /\ Kept(x, st[x], st'[x])
             /\ st'[x].buf = st[x].buf /\ st'[x].queue = st[x].queue
             /\ st'[x].writing = st[x].writing /\ st'[x].destroyed = st[x].destroyed
             /\ st'[x].emittedEnd = st[x].emittedEnd /\ st'[x].ended = st[x].ended
             /\ st'[x].wEnded = st[x].wEnded /\ st'[x].finalCalled = st[x].finalCalled
             /\ st'[x].needDrain = st[x].needDrain
             /\ st'[x].flowing = "on" /\ st[x].flowing # "on" => d \in Range(app.pipes[x])
  <2> DEFINE f == st[x]  g == st'[x]
  <2>1. f \in FieldsOf(Chunk) /\ Kept(x, f, f)
    BY <1>3 DEF Typed, Kept, Structure, Plain
  <2>2. g = IF x \in paused THEN [f EXCEPT !.flowing = "on"] ELSE f
    BY <1>2 DEF Resumed
  <2> HIDE DEF f, g
  <2>3. CASE x \in paused
    <3>1. g = [f EXCEPT !.flowing = "on"]
      BY <2>2, <2>3
    <3>2. /\ g \in FieldsOf(Chunk) /\ g.buf = f.buf /\ g.queue = f.queue
          /\ g.writing = f.writing /\ g.destroyed = f.destroyed
          /\ g.emittedEnd = f.emittedEnd /\ g.ended = f.ended /\ g.wEnded = f.wEnded
          /\ g.finalCalled = f.finalCalled /\ g.needDrain = f.needDrain
      BY <2>1, <3>1, SetFlowing, ZenonT(30)
    <3>3. d \in Range(app.pipes[x]) /\ app.pipes[x] # <<>>
      BY <1>6, <2>3, RangeFew
    <3>4. Kept(x, f, g)
      BY <2>1, <3>2, <3>3 DEF Kept
    <3> QED
      BY <3>2, <3>3, <3>4 DEF f, g
  <2>4. CASE x \notin paused
    BY <2>1, <2>2, <2>4 DEF f, g
  <2> QED
    BY <2>3, <2>4
<1>9. FieldsKept
  <2>1. st' = [s \in Streams |-> st'[s]]
    BY <1>2 DEF Resumed
  <2> QED
    BY <1>7, <1>8, <2>1 DEF FieldsKept
<1>10. TicksKept(Q, N)
  <2>1. \A t \in Range(N) : TickOK(t)'
    BY <1>5 DEF TickOK
  <2> QED
    BY <1>2, <1>5, <2>1 DEF TicksKept
<1>11. FramesKept(<<>>, <<>>)
  BY <1>1, <1>2, RangeFew, OrderedFew DEF FramesKept
<1>12. Structure' /\ Calls' = {} /\ Calls = {}
  <2>1. Structure' /\ Calls' = Range(<<>>) \cup Range(<<>>)
    BY <1>3, <1>7, <1>9, <1>10, <1>11, StructureStep
  <2> QED
    BY <1>1, <2>1, RangeFew DEF Calls
<1>13. /\ \A x, e : Offers(x, e)' = Offers(x, e) /\ ~Handing(x, e)'
       /\ \A e : (In(e)' <=> In(e)) /\ (Passing(e)' <=> Passing(e))
       /\ \A x : ~Pausing(x)
  BY <1>12 DEF Offers, Handing, In, Passing, Pausing
<1>14. Still
  BY <1>2, <1>8, <1>13 DEF Still
<1>15. /\ Account' /\ Ended'
       /\ \A e \in Streams : wLen'[e] = wLen[e] /\ Accepted(e)' = Accepted(e)
  BY <1>14, StillKeeps
<1>16. /\ Range(ticks') = Range(Q) \cup Range(N)
       /\ \A e : <<"drain", e>> \notin Range(N)
  <2>1. \A e : <<"drain", e>> \notin Range(N)
    BY <1>5
  <2> QED
    BY <1>2, <1>5, <2>1, RangeConcat
<1>17. ASSUME NEW e, DrainTick(e)' PROVE DrainTick(e)
  BY <1>5, <1>16, <1>17 DEF DrainTick
<1>18. ASSUME NEW s \in Streams, NEW e \in Streams, Only(s, e)' PROVE Pressure(s, e)'
  <2>1. Only(s, e) /\ Pressure(s, e)
    BY <1>2, <1>18 DEF Only, Inv, Pressed
  <2>2. /\ wLen'[e] = wLen[e] /\ st'[e].needDrain = st[e].needDrain /\ app' = app
        /\ Newest(e)' = Newest(e)
    BY <1>2, <1>8, <1>15, NewestKept
  <2>3. Once(<<"drain", e>>, ticks) /\ Once(<<"drain", e>>, ticks')
    <3>1. Once(<<"drain", e>>, ticks)
      BY <2>1 DEF Pressure
    <3>2. Once(<<"drain", e>>, Q)
      BY <1>1, <3>1, OnceTail DEF Q
    <3> QED
      BY <1>2, <1>5, <1>16, <3>1, <3>2, OnceConcat
  <2>4. Full(e)' => st'[s].flowing # "on"
    <3>1. SUFFICES ASSUME Full(e)', st'[s].flowing = "on" PROVE FALSE
      OBVIOUS
    <3>2. Full(e)
      BY <1>17, <2>2, <3>1 DEF Full
    <3>3. st[s].flowing # "on"
      BY <1>13, <2>1, <3>2 DEF Pressure
    <3>4. d \in Range(app.pipes[s])
      BY <1>8, <3>1, <3>3
    <3>5. e = d
      BY <1>3, <2>1, <3>4, OnlyOne
    <3>6. DrainTick(d)
      BY <1>5 DEF DrainTick
    <3>7. ~st[d].needDrain
      BY <2>1, <3>5, <3>6 DEF Pressure
    <3>8. <<"drain", d>> \notin Range(Q)
      BY <1>1, <1>5, <2>3, <3>5, OnceTail DEF Q
    <3> QED
      BY <1>16, <2>2, <3>1, <3>5, <3>7, <3>8 DEF Full, DrainTick
  <2>5. DrainTick(e)' => wLen'[e] = 0 /\ ~st'[e].needDrain
    BY <1>17, <2>1, <2>2 DEF Pressure
  <2>6. wLen'[e] < app'.hwm + Newest(e)'
    BY <2>1, <2>2 DEF Pressure
  <2> QED
    BY <1>13, <2>3, <2>4, <2>5, <2>6 DEF Pressure
<1>19. Pressed'
  <2>1. ASSUME NEW e \in Streams, wLen'[e] >= app'.hwm PROVE st'[e].needDrain
    BY <1>2, <1>8, <1>15, <2>1 DEF Inv, Pressed
  <2> QED
    BY <1>18, <2>1 DEF Pressed
<1> QED
  BY <1>12, <1>15, <1>19 DEF Inv
-----------------------------------------------------------------------------
(* A chunk is handed to the pipes of x, or joins its buffer.               *)
LEMMA OverOne ==
  ASSUME Inv, NEW x \in Streams, evs' = evs, produced' = produced \/ ~st[Source].ended,
         st[Source].ended => st'[Source].ended,
         st'[x].emittedEnd = st[x].emittedEnd, st'[x].ended = st[x].ended,
         st'[x].wEnded = st[x].wEnded, st'[x].finalCalled = st[x].finalCalled,
         st[x].destroyed => st'[x].destroyed,
         st[x].emittedEnd => st'[x].buf = <<>>,
         st[x].finalCalled => /\ got'[x] = got[x] /\ st'[x].writing = None
                              /\ st'[x].queue = <<>>,
         st[x].wEnded /\ ~st'[x].destroyed => Accepted(x)' = Accepted(x)
  PROVE  Over(x)'
<1>1. Over(x)
  BY DEF Inv, Ended
<1>2. st[x].finalCalled => st[x].wEnded
  BY <1>1 DEF Over
<1>3. st[x].wEnded => st'[Source].ended /\ produced' = produced
  BY <1>1 DEF Over
<1>4. st'[x].emittedEnd => st'[x].ended /\ st'[x].buf = <<>>
  BY <1>1 DEF Over
<1>5. st'[x].ended /\ x # Source => st'[x].finalCalled
  BY <1>1 DEF Over
<1>6. st'[x].wEnded => st'[Source].ended
  BY <1>3
<1>7. st'[x].wEnded /\ ~st'[x].destroyed => Accepted(x)' = produced'
  BY <1>1, <1>3 DEF Over
<1>8. st'[x].finalCalled => /\ st'[x].wEnded /\ Len(got'[x]) = produced'
                             /\ st'[x].writing = None /\ st'[x].queue = <<>>
  BY <1>1, <1>2, <1>3 DEF Over
<1>9. /\ "end" \in Range(evs'[x]) => st'[x].emittedEnd
      /\ "finish" \in Range(evs'[x]) => st'[x].finalCalled
  BY <1>1 DEF Over
<1> QED
  BY <1>4, <1>5, <1>6, <1>7, <1>8, <1>9 DEF Over

(* Above every chunk under way runs code of the flow.                      *)
LEMMA NoFlow ==
  ASSUME Structure, stack = <<>> \/ Head(stack).at \notin Flow
  PROVE  \A g \in Calls : g.at \notin Flow
<1>1. CASE stack = <<>>
  BY <1>1, RangeFew DEF Calls
<1>2. CASE stack # <<>>
  <2>1. /\ Calls = {Head(stack)} \cup Range(Under)
        /\ \A g \in Range(Under) : Above(Depth, Head(stack), g)
    BY <1>2, Top
  <2>2. Head(stack).at \notin Flow
    BY <1>2
  <2> QED
    BY <2>1, <2>2 DEF Above
<1> QED
  BY <1>1, <1>2

(* No chunk is under way.                                                  *)
LEMMA Silent ==
  ASSUME \A g \in Calls : g.at \notin Flow
  PROVE  /\ \A x, e : Offers(x, e) = {} /\ ~Handing(x, e)
         /\ \A e : ~In(e) /\ ~Passing(e) /\ ~Pausing(e)
<1>1. ASSUME NEW x, NEW e PROVE Offers(x, e) = {}
  BY DEF Offers, Flow
<1>2. ASSUME NEW e PROVE ~In(e) /\ ~Passing(e) /\ ~Pausing(e)
  BY DEF In, Passing, Pausing, Flow
<1> QED
  BY <1>1, <1>2 DEF Handing

(* The frame of emit("data").                                              *)
LEMMA EmissionOK ==
  ASSUME Inv, Onward, NEW x \in Streams, NEW c \in Chunk', NEW f,
         f = Emission(x, c, app.pipes[x])
  PROVE  /\ f \in FramesOf(Chunk') /\ FrameOK(f)'
         /\ f.at = "emit" /\ f.of = x /\ f.chunk = c /\ Range(f.to) = Range(app.pipes[x])
<1> DEFINE p == app.pipes[x]
<1>1. p \in Seq(Streams) /\ \A i, j \in 1..Len(p) : p[i] = p[j] => i = j
  BY Pipes DEF Inv, Structure
<1>2. f = [at |-> "emit", of |-> x, chunk |-> c, to |-> p, ok |-> TRUE] /\ "emit" \in Places
  BY DEF Emission, Frame, Places
<1>3. app' = app /\ app'.pipes[x] = p
  BY DEF Onward
<1> HIDE DEF p
<1>4. f \in FramesOf(Chunk')
  BY <1>1, <1>2 DEF FramesOf
<1>5. f.at = "emit" /\ f.of = x /\ f.chunk = c /\ f.to = p
  BY <1>2
<1>6. FrameOK(f)'
  BY <1>1, <1>3, <1>5 DEF FrameOK
<1> QED
  BY <1>4, <1>5, <1>6 DEF p

(* A new emission offers its chunk to every pipe.                          *)
LEMMA OffersNew ==
  ASSUME NEW x, NEW f, f.at = "emit", f.of = x,
         \A g : g.at = "emit" => (g \in Calls' <=> g = f \/ g \in Calls),
         \A g \in Calls : ~(g.at = "emit" /\ g.of = x)
  PROVE  /\ \A s, d : s # x => Offers(s, d)' = Offers(s, d)
         /\ \A d \in Range(f.to) : Offers(x, d) = {} /\ Offers(x, d)' = {f.chunk}
<1>1. ASSUME NEW s, NEW d, s # x PROVE Offers(s, d)' = Offers(s, d)
  <2>1. \A g : /\ g \in Calls' /\ g.at = "emit" /\ g.of = s
               <=> g \in Calls /\ g.at = "emit" /\ g.of = s
    BY <1>1
  <2> QED
    BY <2>1 DEF Offers
<1>2. ASSUME NEW d \in Range(f.to) PROVE Offers(x, d) = {} /\ Offers(x, d)' = {f.chunk}
  <2>1. Offers(x, d) = {}
    BY DEF Offers
  <2>2. {g \in Calls' : g.at = "emit" /\ g.of = x /\ d \in Range(g.to)} = {f}
    BY <1>2
  <2>3. Offers(x, d)' = {f.chunk}
    BY <2>2 DEF Offers
  <2> QED
    BY <2>1, <2>3
<1> QED
  BY <1>1, <1>2

Fed(x, c) ==
  /\ st[x].flowing = "on" /\ ~Pausing(x)
  /\ \A d \in Range(app.pipes[x]) : Offers(x, d) = {} /\ Offers(x, d)' = {c}

(* A source that flows feeds no full destination.                          *)
LEMMA FedPressure ==
  ASSUME Inv, NEW x \in Streams, Elsewhere(x), NEW c, Fed(x, c),
         NEW d \in Range(app.pipes[x]), Only(x, d)
  PROVE  Pressure(x, d)'
<1>1. app' = app /\ Typed
  BY DEF Elsewhere, Inv, Structure
<1>2. d \in Streams /\ d # x
  BY <1>1, Irreflexive
<1>3. Pressure(x, d)
  BY <1>2 DEF Inv, Pressed
<1>4. st'[d] = st[d] /\ wLen'[d] = wLen[d] /\ Newest(d)' = Newest(d)
  BY <1>1, <1>2, ElsewhereSame, NewestKept DEF Elsewhere
<1>5. /\ DrainTick(d)' <=> DrainTick(d)
      /\ Once(<<"drain", d>>, ticks) => Once(<<"drain", d>>, ticks')
  BY <1>2 DEF Elsewhere
<1>6. ~Full(d)
  BY <1>3 DEF Fed, Pressure
<1>7. ~Full(d)'
  BY <1>4, <1>5, <1>6 DEF Full
<1> QED
  BY <1>1, <1>3, <1>4, <1>5, <1>7 DEF Pressure

(* The iterator's account.                                                 *)
LEMMA IteratedKept ==
  ASSUME Inv, app' = app, produced' = produced, got'[Source] = got[Source],
         st'[Source].buf = st[Source].buf
  PROVE  Iterated'
BY DEF Inv, Account, Iterated

(* A frame is pushed on a stack without chunks under way.                  *)
LEMMA FramesOn ==
  ASSUME Inv, Onward, NEW f \in FramesOf(Chunk'), FrameOK(f)', stack' = <<f>> \o stack,
         \A g \in Calls : g.at \notin Flow
  PROVE  FramesKept(<<f>>, stack)
<1>1. stack \in Seq(FramesOf(Chunk)) /\ Ordered(Depth, stack)
  BY DEF Inv, Structure, Typed
<1>2. <<f>> \in Seq(FramesOf(Chunk')) /\ Range(<<f>>) = {f} /\ Ordered(Depth, <<f>>)
  <2>1. <<f>> \in Seq(FramesOf(Chunk'))
    OBVIOUS
  <2> QED
    BY <2>1, RangeFew, OrderedFew
<1>3. \A g \in Calls : Above(Depth, f, g) /\ g.at \notin {"write", "transformed"}
  BY DEF Above, Flow
<1> QED
  BY <1>1, <1>2, <1>3 DEF FramesKept, Calls

(* _drainData emits the oldest chunk.                                      *)
LEMMA DrainDataPops ==
  ASSUME Inv, DrainData, st[Self].flowing = "on", st[Self].buf # <<>>, ~st[Self].destroyed
  PROVE  Inv'
<1> SUFFICES ASSUME NEW x, NEW k, NEW b, NEW c, x = Self, k = st[x], b = k.buf,
                    c = Head(b)
             PROVE  Inv'
  OBVIOUS
<1>0. PICK f : f = Emission(x, c, app.pipes[x])
  OBVIOUS
<1>1. /\ stack # <<>> /\ Head(stack).at = "drain" /\ x \in Streams /\ Structure /\ Typed
      /\ k \in FieldsOf(Chunk) /\ b \in Seq(Chunk)
  <2>1. stack # <<>> /\ Head(stack).at = "drain" /\ Structure /\ Typed
    BY DEF DrainData, At, Inv, Structure
  <2>2. x \in Streams
    BY <2>1, Top
  <2> QED
    BY <2>1, <2>2, Numbers
<1> DEFINE t == Tail(b)  g == [k EXCEPT !.buf = t]
<1>2. /\ UNCHANGED <<app, wLen, ticks, asked, final, settled, iter, produced, got, evs, upsets>>
      /\ stack' = <<f>> \o stack /\ st' = [st EXCEPT ![x] = g]
  BY <1>0 DEF DrainData, Call
<1>3. /\ t \in Seq(Chunk) /\ c \in Chunk /\ Len(b) \in Nat /\ Len(t) = Len(b) - 1 /\ Len(b) >= 1
      /\ c = b[1] /\ \A i \in 1..Len(t) : t[i] = b[i + 1] /\ i + 1 \in 1..Len(b)
  BY <1>1
<1>4. Kept(x, k, k)
  BY <1>1 DEF Kept, Structure, Plain
<1> HIDE DEF t, g
<1>5. /\ g \in FieldsOf(Chunk) /\ g.buf = t /\ g.flowing = k.flowing /\ g.queue = k.queue
      /\ g.writing = k.writing /\ g.destroyed = k.destroyed /\ g.emittedEnd = k.emittedEnd
      /\ g.ended = k.ended /\ g.wEnded = k.wEnded /\ g.finalCalled = k.finalCalled
      /\ g.needDrain = k.needDrain
  BY <1>1, <1>3, SetBuf DEF g
<1>6. Onward /\ Chunk' = Chunk
  BY <1>2, OnwardSame DEF Inv, Structure, Typed
<1>7. FieldsKept /\ st'[x] = g /\ \A s \in Streams \ {x} : st'[s] = st[s]
  <2>1. Kept(x, k, g)
    BY <1>4, <1>5 DEF Kept
  <2> QED
    BY <1>1, <1>2, <1>5, <1>6, <2>1, OneKept
<1>8. /\ f \in FramesOf(Chunk') /\ FrameOK(f)' /\ f.at = "emit" /\ f.of = x /\ f.chunk = c
      /\ Range(f.to) = Range(app.pipes[x])
  BY <1>0, <1>1, <1>3, <1>6, EmissionOK
<1>9. /\ \A e \in Calls : e.at \notin Flow
      /\ \A s, d : Offers(s, d) = {} /\ ~Handing(s, d)
      /\ \A e : ~In(e) /\ ~Passing(e) /\ ~Pausing(e)
  <2>1. \A e \in Calls : e.at \notin Flow
    BY <1>1, NoFlow DEF Flow
  <2> QED
    BY <2>1, Silent
<1>10. Structure' /\ Calls' = {f} \cup Calls
  <2>1. FramesKept(<<f>>, stack)
    BY <1>2, <1>6, <1>8, <1>9, FramesOn
  <2>2. Structure' /\ Calls' = Range(<<f>>) \cup Range(stack)
    BY <1>1, <1>2, <1>6, <1>7, <2>1, TicksStay, StructureStep
  <2> QED
    BY <2>2, RangeFew DEF Calls
<1>11. /\ \A s, d : s # x => Offers(s, d)' = Offers(s, d)
       /\ \A d \in Range(app.pipes[x]) : Offers(x, d) = {} /\ Offers(x, d)' = {c}
  <2>1. \A e \in Calls : ~(e.at = "emit" /\ e.of = x)
    BY <1>9 DEF Flow
  <2>2. /\ \A s, d : s # x => Offers(s, d)' = Offers(s, d)
        /\ \A d \in Range(f.to) : Offers(x, d) = {} /\ Offers(x, d)' = {f.chunk}
    <3>1. \A e : e.at = "emit" => (e \in Calls' <=> e = f \/ e \in Calls)
      BY <1>10
    <3>2. f.at = "emit" /\ f.of = x
      BY <1>8
    <3>3. \A s, d : s # x => Offers(s, d)' = Offers(s, d)
      BY <2>1, <3>1, <3>2, OffersNew
    <3>4. ASSUME NEW d \in Range(f.to) PROVE Offers(x, d) = {} /\ Offers(x, d)' = {f.chunk}
      BY <2>1, <3>1, <3>2, OffersNew
    <3> QED
      BY <3>3, <3>4
  <2> QED
    BY <1>8, <2>2
<1>12. \A e : (In(e)' <=> In(e)) /\ (Passing(e)' <=> Passing(e)) /\ (Pausing(e) => Pausing(e)')
  BY <1>8, <1>10 DEF In, Passing, Pausing
<1>13. Elsewhere(x)
  BY <1>2, <1>7, <1>11, <1>12 DEF Elsewhere, DrainTick
<1>14. Fed(x, c)
  BY <1>9, <1>11 DEF Fed
<1>15. SameWrites(x) /\ Written1(x)' /\ Accepted(x)' = Accepted(x) /\ wLen'[x] = wLen[x]
  <2>1. SameWrites(x)
    BY <1>2, <1>5, <1>7, <1>12 DEF SameWrites
  <2> QED
    BY <1>1, <2>1, WritesKept DEF Inv, Account
<1>16. WriteSide(x)
  <2>1. wLen[x] \in Nat
    BY <1>1, Numbers
  <2> QED
    BY <1>2, <1>5, <1>7, <1>11, <1>15, <2>1 DEF WriteSide, DrainTick
<1>17. ASSUME NEW d \in Range(app.pipes[x]) PROVE Link(x, d)'
  <2>1. d \in Streams /\ d # x
    BY <1>1, <1>17, Irreflexive
  <2>2. /\ Accepted(d)' = Accepted(d) /\ st'[d] = st[d] /\ Accepted(d) \in Nat
    BY <1>1, <1>13, <2>1, ElsewhereSame, Numbers DEF Elsewhere
  <2>3. Given(x)' = Given(x)
    BY <1>2, <1>12, <1>15, GivenKept
  <2>4. Exact(x)' = Exact(x)
    BY <1>5, <1>7 DEF Exact
  <2>5. /\ Passed(x, d) = Accepted(d) /\ Passed(x, d)' = Accepted(d) + 1
    BY <1>11, <1>17, <2>2 DEF Passed, Handing
  <2>6. Link(x, d)
    BY <1>1, <1>17 DEF Inv, Account
  <2>7. SUFFICES ASSUME ~st[d].destroyed
                 PROVE  /\ c = Accepted(d) + 1
                        /\ \A i \in 1..Len(t) : t[i] = Accepted(d) + 1 + i
                        /\ Exact(x) => Accepted(d) + 1 + Len(t) = Given(x)
    BY <1>5, <1>7, <1>11, <1>17, <2>2, <2>3, <2>4, <2>5 DEF Link
  <2>8. /\ \A i \in 1..Len(b) : b[i] = Accepted(d) + i
        /\ Exact(x) => Accepted(d) + Len(b) = Given(x)
    BY <2>5, <2>6, <2>7 DEF Link
  <2>9. c = Accepted(d) + 1
    BY <1>3, <2>8
  <2>10. ASSUME NEW i \in 1..Len(t) PROVE t[i] = Accepted(d) + 1 + i
    <3>1. t[i] = b[i + 1] /\ i + 1 \in 1..Len(b) /\ i \in Nat
      BY <1>3, <2>10
    <3>2. b[i + 1] = Accepted(d) + (i + 1)
      BY <2>8, <3>1
    <3>3. PICK n : n = Accepted(d)
      OBVIOUS
    <3>4. n \in Nat /\ i \in Nat
      BY <2>2, <3>1, <3>3
    <3>5. n + (i + 1) = n + 1 + i
      BY <3>4
    <3> QED
      BY <3>1, <3>2, <3>3, <3>5
  <2>11. Exact(x) => Accepted(d) + 1 + Len(t) = Given(x)
    BY <1>3, <2>2, <2>8, SMTT(30)
  <2> QED
    BY <2>9, <2>10, <2>11
<1>18. Over(x)'
  <2>1. ~k.emittedEnd
    BY <1>1 DEF Inv, Ended, Over
  <2>2. k.finalCalled => k.writing = None /\ k.queue = <<>>
    BY <1>1 DEF Inv, Ended, Over
  <2>3. st[Source].ended => st'[Source].ended
    BY <1>5, <1>7, StreamsAssumption
  <2> QED
    BY <1>1, <1>2, <1>5, <1>7, <1>15, <2>1, <2>2, <2>3, OverOne
<1>19. Here(x)
  <2>1. /\ \A s \in Streams :
              x \in Range(app.pipes[s]) => Link(s, x)' /\ (Only(s, x) => Pressure(s, x)')
        /\ wLen'[x] >= app.hwm => st'[x].needDrain
    BY <1>1, <1>13, <1>16, WriteSideKept
  <2>2. \A d \in Range(app.pipes[x]) : Link(x, d)' /\ (Only(x, d) => Pressure(x, d)')
    BY <1>1, <1>13, <1>14, <1>17, FedPressure
  <2> QED
    BY <1>5, <1>7, <1>15, <1>18, <2>1, <2>2 DEF Here
<1>20. Iterated'
  <2>1. CASE x = Source
    <3>1. app.consumer # "iterate"
      <4>1. app.pipes[x] # <<>>
        BY <1>1 DEF Structure, Plain
      <4> QED
        BY <1>1, <2>1, <4>1, Pipes
    <3> QED
      BY <1>2, <3>1 DEF Iterated
  <2>2. CASE x # Source
    BY <1>2, <1>7, <2>2, StreamsAssumption, IteratedKept
  <2> QED
    BY <2>1, <2>2
<1>21. Account' /\ Ended' /\ Pressed'
  BY <1>1, <1>13, <1>19, <1>20, ElsewhereKeeps
<1> QED
  BY <1>10, <1>21 DEF Inv
-----------------------------------------------------------------------------
(* push(chunk).                                                            *)
LEMMA OneGrows ==
  ASSUME Inv, Onward, NEW x \in Streams, NEW g \in FieldsOf(Chunk'), Kept(x, st[x], g),
         st' = [st EXCEPT ![x] = g]
  PROVE  FieldsKept /\ st'[x] = g /\ \A s \in Streams \ {x} : st'[s] = st[s]
<1>1. st \in [Streams -> FieldsOf(Chunk')]
  <2>1. FieldsOf(Chunk) \subseteq FieldsOf(Chunk')
    BY Pipes, Grows DEF Inv, Structure, Onward
  <2> QED
    BY <2>1 DEF Inv, Structure, Typed
<1>2. /\ st' \in [Streams -> FieldsOf(Chunk')] /\ st'[x] = g
      /\ \A s \in Streams \ {x} : st'[s] = st[s]
  BY <1>1
<1>3. ASSUME NEW s \in Streams, s # x PROVE Kept(s, st[s], st[s])
  BY DEF Kept, Inv, Structure, Plain
<1>4. ASSUME NEW s \in Streams PROVE Kept(s, st[s], st'[s])
  <2>1. CASE s = x
    BY <1>2, <2>1
  <2>2. CASE s # x
    <3>1. st'[s] = st[s]
      BY <1>2, <2>2
    <3> QED
      BY <1>3, <2>2, <3>1
  <2> QED
    BY <2>1, <2>2
<1> QED
  BY <1>2, <1>4 DEF FieldsKept

(* The fields push() sets.                                                 *)
LEMMA PushFields ==
  ASSUME Inv, Onward, NEW x \in Streams, NEW c \in Chunk',
         st' = [st EXCEPT ![x] = Pushed(x, c)]
  PROVE  /\ FieldsKept /\ \A s \in Streams \ {x} : st'[s] = st[s]
         /\ st'[x].buf = IF Direct(x) THEN st[x].buf ELSE Append(st[x].buf, c)
         /\ st'[x].flowing = st[x].flowing /\ st'[x].queue = st[x].queue
         /\ st'[x].writing = st[x].writing /\ st'[x].destroyed = st[x].destroyed
         /\ st'[x].emittedEnd = st[x].emittedEnd /\ st'[x].ended = st[x].ended
         /\ st'[x].wEnded = st[x].wEnded /\ st'[x].finalCalled = st[x].finalCalled
         /\ st'[x].needDrain = st[x].needDrain
<1> DEFINE k == st[x]  b == IF Direct(x) THEN k.buf ELSE Append(k.buf, c)
           g == [k EXCEPT !.pushed = TRUE, !.buf = b]
<1>1. k \in FieldsOf(Chunk') /\ k.buf \in Seq(Chunk') /\ Kept(x, k, k)
  <2>1. FieldsOf(Chunk) \subseteq FieldsOf(Chunk') /\ Seq(Chunk) \subseteq Seq(Chunk')
    BY Pipes, Grows DEF Inv, Structure, Onward
  <2>2. k \in FieldsOf(Chunk) /\ k.buf \in Seq(Chunk)
    BY Numbers DEF Inv, Structure
  <2>3. Kept(x, k, k)
    BY DEF Kept, Inv, Structure, Plain
  <2> QED
    BY <2>1, <2>2, <2>3
<1>2. b \in Seq(Chunk')
  <2>1. Append(k.buf, c) \in Seq(Chunk')
    BY <1>1
  <2> HIDE DEF k
  <2> QED
    BY <1>1, <2>1
<1>3. st' = [st EXCEPT ![x] = g]
  BY DEF Pushed
<1> HIDE DEF k, b
<1>4. /\ g \in FieldsOf(Chunk') /\ g.buf = b /\ g.flowing = k.flowing /\ g.queue = k.queue
      /\ g.writing = k.writing /\ g.destroyed = k.destroyed /\ g.emittedEnd = k.emittedEnd
      /\ g.ended = k.ended /\ g.wEnded = k.wEnded /\ g.finalCalled = k.finalCalled
      /\ g.needDrain = k.needDrain
  <2>1. PICK C : C = Chunk'
    OBVIOUS
  <2>2. k \in FieldsOf(C) /\ b \in Seq(C)
    BY <1>1, <1>2, <2>1
  <2>3. /\ g \in FieldsOf(C) /\ g.buf = b /\ g.flowing = k.flowing /\ g.queue = k.queue
        /\ g.writing = k.writing /\ g.destroyed = k.destroyed /\ g.emittedEnd = k.emittedEnd
        /\ g.ended = k.ended /\ g.wEnded = k.wEnded /\ g.finalCalled = k.finalCalled
        /\ g.needDrain = k.needDrain
    BY <2>2 DEF FieldsOf
  <2> QED
    BY <2>1, <2>3
<1> HIDE DEF g
<1>5. Kept(x, k, g)
  BY <1>1, <1>4 DEF Kept
<1>6. FieldsKept /\ st'[x] = g /\ \A s \in Streams \ {x} : st'[s] = st[s]
  BY <1>3, <1>4, <1>5, OneGrows DEF k
<1> QED
  BY <1>4, <1>6 DEF k, b

(* The microtasks of push().                                               *)
LEMMA PushTicks ==
  ASSUME Inv, NEW x \in Streams, ticks' = ticks \o PushTick(x)
  PROVE  TicksKept(ticks, PushTick(x)) /\ OtherTicks(ticks, PushTick(x))
<1> DEFINE N == PushTick(x)  r == <<"readable", x>>  e == <<"emitData", x>>
<1>1. N = <<>> \/ N = <<r>> \/ N = <<e>>
  BY DEF PushTick
<1>2. r \in Tasks \X Streams /\ e \in Tasks \X Streams
  BY DEF Tasks
<1>3. r[1] = "readable" /\ e[1] = "emitData"
  OBVIOUS
<1> HIDE DEF N, r, e
<1>4. N \in Seq(Tasks \X Streams) /\ Range(N) \subseteq {r, e}
  <2>1. CASE N = <<>>
    BY <2>1, FewTicks, RangeFew
  <2>2. CASE N = <<r>>
    BY <1>2, <2>2, FewTicks, RangeFew
  <2>3. CASE N = <<e>>
    BY <1>2, <2>3, FewTicks, RangeFew
  <2> QED
    BY <1>1, <2>1, <2>2, <2>3
<1>5. \A t \in Range(N) : t[1] \in {"readable", "emitData"}
  BY <1>3, <1>4
<1>6. ticks \in Seq(Tasks \X Streams)
  BY DEF Inv, Structure, Typed
<1>7. \A t \in Range(N) : TickOK(t)'
  BY <1>5 DEF TickOK
<1> QED
  BY <1>4, <1>5, <1>6, <1>7 DEF TicksKept, OtherTicks, N

(* The frames A and B stay below the emission; none of x's own listeners   *)
(* is running.                                                             *)
Beneath(x, A, B) ==
  /\ A \in Seq(FramesOf(Chunk')) /\ B \in Seq(FramesOf(Chunk)) /\ Range(B) \subseteq Calls
  /\ Ordered(Depth, A) /\ Ordered(Depth, B)
  /\ \A a \in Range(A), g \in Range(B) : Above(Depth, a, g)
  /\ \A a \in Range(A) : FrameOK(a)' /\ a.at \notin {"emit", "wrote"}
  /\ \A g \in Range(A) \cup Range(B) : g.at \in Flow => Level(Depth, g) <= 3 * Depth[x]
  /\ \A g \in Calls : g.at \in {"emit", "wrote"} => g \in Range(B)

(* No frame of the pushing stream is below.                                *)
LEMMA BeneathOwn ==
  ASSUME Inv, NEW x \in Streams, NEW A, NEW B, Beneath(x, A, B), NEW g \in Calls,
         g.at \in {"emit", "wrote"}
  PROVE  g.of # x
<1>1. Depth[x] \in Nat
  BY DepthFacts DEF Inv, Structure
<1>2. g.at \in Flow
  BY DEF Flow
<1>3. Level(Depth, g) <= 3 * Depth[x]
  BY <1>2 DEF Beneath
<1>4. g.of = x => Level(Depth, g) >= 3 * Depth[x] + 1
  <2>1. CASE g.at = "emit"
    BY <1>1, <2>1 DEF Level
  <2>2. CASE g.at = "wrote"
    BY <1>1, <2>2 DEF Level
  <2> QED
    BY <2>1, <2>2
<1> DEFINE n == 3 * Depth[x]  m == Level(Depth, g)
<1>5. n \in Nat /\ m <= n /\ (g.of = x => m >= n + 1) /\ (g.of = x => m \in Nat)
  <2>1. g.of = x => Level(Depth, g) \in Nat
    BY <1>1 DEF Level
  <2> QED
    BY <1>1, <1>3, <1>4, <2>1
<1> HIDE DEF n, m
<1> QED
  BY <1>5

(* What push(c) of x does to the frames and the offers.                    *)
Pushes(x, c, A, B) ==
  /\ st' = [st EXCEPT ![x] = Pushed(x, c)]
  /\ ticks' = ticks \o PushTick(x)
  /\ stack' = (IF Direct(x) THEN <<Emission(x, c, app.pipes[x])>> ELSE <<>>) \o (A \o B)

(* The frames of push().                                                   *)
LEMMA PushFrames ==
  ASSUME Inv, Onward, NEW x \in Streams, NEW c \in Chunk', NEW A, NEW B,
         Beneath(x, A, B), Pushes(x, c, A, B)
  PROVE  /\ Structure' /\ Range(A) \cup Range(B) \subseteq Calls'
         /\ \A g \in Calls' : g \in Range(A) \cup Range(B) \/ g.at = "emit"
         /\ \A s, d : s # x => Offers(s, d)' = Offers(s, d)
         /\ \A s : Pausing(s)' <=> Pausing(s)
         /\ Direct(x) => Fed(x, c)
         /\ ~Direct(x) => \A d : Offers(x, d)' = Offers(x, d)
<1>1. PICK f : f = Emission(x, c, app.pipes[x])
  OBVIOUS
<1>2. /\ f \in FramesOf(Chunk') /\ FrameOK(f)' /\ f.at = "emit" /\ f.of = x /\ f.chunk = c
      /\ Range(f.to) = Range(app.pipes[x])
  BY <1>1, EmissionOK
<1>3. /\ A \in Seq(FramesOf(Chunk')) /\ B \in Seq(FramesOf(Chunk)) /\ Range(B) \subseteq Calls
      /\ Ordered(Depth, A) /\ Ordered(Depth, B)
      /\ \A a \in Range(A), g \in Range(B) : Above(Depth, a, g)
      /\ \A a \in Range(A) : FrameOK(a)' /\ a.at \notin {"emit", "wrote"}
      /\ \A g \in Range(A) \cup Range(B) : g.at \in Flow => Level(Depth, g) <= 3 * Depth[x]
      /\ \A g \in Calls : g.at \in {"emit", "wrote"} => g \in Range(B)
  BY DEF Beneath
<1>4. /\ FieldsKept /\ \A s \in Streams : st'[s].writing = st[s].writing
  BY PushFields DEF Pushes
<1>5. TicksKept(ticks, PushTick(x))
  BY PushTicks DEF Pushes
<1>6. \A g \in Range(B) : g.at \in {"write", "transformed"} => st'[g.of].writing # None
  BY <1>3, <1>4, WritingBelow DEF Inv
<1>7. \A g \in Range(A) \cup Range(B) : Above(Depth, f, g)
  <2>1. ASSUME NEW g \in Range(A) \cup Range(B) PROVE Above(Depth, f, g)
    <3>1. SUFFICES ASSUME g.at \in Flow PROVE f.at \in Flow /\ Level(Depth, g) < Level(Depth, f)
      BY DEF Above
    <3> DEFINE n == 3 * Depth[x]  m == Level(Depth, g)
    <3>2. n \in Nat
      BY DepthFacts DEF Inv, Structure
    <3>3. m <= n /\ Level(Depth, f) = n + 1 /\ f.at \in Flow
      BY <1>2, <1>3, <2>1, <3>1 DEF Level, Flow
    <3>4. m \in Nat
      <4>1. g.of \in Streams
        <5>1. CASE g \in Range(A)
          <6>1. g \in FramesOf(Chunk')
            BY <1>3, <5>1, InRange
          <6> QED
            BY <6>1 DEF FramesOf
        <5>2. CASE g \in Range(B)
          <6>1. g \in FramesOf(Chunk)
            BY <1>3, <5>2, InRange
          <6> QED
            BY <6>1 DEF FramesOf
        <5> QED
          BY <2>1, <5>1, <5>2
      <4>2. Depth[g.of] \in Nat
        BY <4>1, DepthFacts DEF Inv, Structure
      <4> QED
        BY <4>2 DEF Level
    <3> HIDE DEF n, m
    <3>5. m < n + 1
      BY <3>2, <3>3, <3>4
    <3> QED
      BY <3>3, <3>5 DEF m
  <2> QED
    BY <2>1
<1>8. \A g \in Calls : ~(g.at = "emit" /\ g.of = x) /\ ~(g.at = "wrote" /\ g.of = x)
  BY BeneathOwn
<1>9. PICK E : /\ E \in Seq(FramesOf(Chunk')) /\ stack' = E \o (A \o B)
               /\ Ordered(Depth, E) /\ Range(E) = IF Direct(x) THEN {f} ELSE {}
  <2>1. CASE Direct(x)
    <3>1. <<f>> \in Seq(FramesOf(Chunk'))
      BY <1>2
    <3>2. stack' = <<f>> \o (A \o B)
      BY <1>1, <2>1 DEF Pushes
    <3> QED
      BY <2>1, <3>1, <3>2, RangeFew, OrderedFew
  <2>2. CASE ~Direct(x)
    <3>1. <<>> \in Seq(FramesOf(Chunk'))
      OBVIOUS
    <3>2. stack' = <<>> \o (A \o B)
      BY <2>2 DEF Pushes
    <3> QED
      BY <2>2, <3>1, <3>2, RangeFew, OrderedFew
  <2> QED
    BY <2>1, <2>2
<1>10. PICK F : /\ F \in Seq(FramesOf(Chunk')) /\ stack' = F \o B /\ Ordered(Depth, F)
                /\ Range(F) = Range(E) \cup Range(A)
  <2>1. E \o A \in Seq(FramesOf(Chunk')) /\ Range(E \o A) = Range(E) \cup Range(A)
    BY <1>3, <1>9, RangeConcat
  <2>2. B \in Seq(FramesOf(Chunk'))
    BY <1>3, Pipes, Grows DEF Inv, Structure, Onward
  <2>3. E \o (A \o B) = (E \o A) \o B
    BY <1>3, <1>9, <2>2, ConcatAssociative, SMTT(30)
  <2>4. \A e \in Range(E), a \in Range(A) : Above(Depth, e, a)
    BY <1>7, <1>9
  <2>5. Ordered(Depth, E \o A)
    BY <1>3, <1>9, <2>4, OrderedConcat
  <2> QED
    BY <1>9, <2>1, <2>3, <2>5
<1>11. FramesKept(F, B)
  <2>1. \A e \in Range(F), g \in Range(B) : Above(Depth, e, g)
    BY <1>3, <1>7, <1>9, <1>10
  <2>2. \A e \in Range(F) : FrameOK(e)'
    BY <1>2, <1>3, <1>9, <1>10
  <2> QED
    BY <1>3, <1>6, <1>10, <2>1, <2>2 DEF FramesKept
<1>12. Structure' /\ Calls' = Range(E) \cup Range(A) \cup Range(B)
  <2>1. Structure' /\ Calls' = Range(F) \cup Range(B)
    BY <1>4, <1>5, <1>11, StructureStep DEF Inv
  <2> QED
    BY <1>10, <2>1
<1>13. \A s : Pausing(s)' <=> Pausing(s)
  <2>1. \A g : g.at = "wrote" => (g \in Calls' <=> g \in Calls)
    BY <1>2, <1>3, <1>9, <1>12
  <2> QED
    BY <2>1 DEF Pausing
<1>14. CASE Direct(x)
  <2>1. \A g : g.at = "emit" => (g \in Calls' <=> g = f \/ g \in Calls)
    BY <1>3, <1>9, <1>12, <1>14
  <2>2. /\ \A s, d : s # x => Offers(s, d)' = Offers(s, d)
        /\ \A d \in Range(f.to) : Offers(x, d) = {} /\ Offers(x, d)' = {f.chunk}
    BY <1>2, <1>8, <2>1, OffersNew
  <2>3. ~Pausing(x) /\ st[x].flowing = "on"
    BY <1>8, <1>14 DEF Pausing, Direct
  <2>4. Fed(x, c)
    BY <1>2, <2>2, <2>3 DEF Fed
  <2> QED
    BY <1>2, <1>9, <1>12, <1>13, <1>14, <2>2, <2>4
<1>15. CASE ~Direct(x)
  <2>1. \A g : g.at = "emit" => (g \in Calls' <=> g \in Calls)
    BY <1>3, <1>9, <1>12, <1>15
  <2>2. \A s, d : Offers(s, d)' = Offers(s, d)
    BY <2>1 DEF Offers
  <2> QED
    BY <1>9, <1>12, <1>13, <1>15, <2>2
<1> QED
  BY <1>14, <1>15

(* push() and the pipes of the stream.                                     *)
LEMMA PushLinks ==
  ASSUME Inv, NEW x \in Streams, Elsewhere(x), Exact(x), NEW c, c = Given(x) + 1,
         Given(x)' = Given(x) + 1, st'[x].flowing = st[x].flowing,
         st'[x].buf = (IF Direct(x) THEN st[x].buf ELSE Append(st[x].buf, c)),
         Direct(x) => Fed(x, c),
         ~Direct(x) => \A d : Offers(x, d)' = Offers(x, d)
  PROVE  \A d \in Range(app.pipes[x]) : Link(x, d)' /\ (Only(x, d) => Pressure(x, d)')
<1>1. app' = app /\ Typed /\ app.hwm \in Nat
  BY Pipes DEF Elsewhere, Inv, Structure
<1>2. SUFFICES ASSUME NEW d \in Range(app.pipes[x])
               PROVE  Link(x, d)' /\ (Only(x, d) => Pressure(x, d)')
  OBVIOUS
<1>3. d \in Streams /\ d # x
  BY <1>1, <1>2, Irreflexive
<1>4. /\ Accepted(d)' = Accepted(d) /\ st'[d] = st[d] /\ Accepted(d) \in Nat
      /\ wLen'[d] = wLen[d] /\ wLen[d] \in Nat /\ Passed(x, d) \in Nat
  BY <1>1, <1>3, ElsewhereSame, Numbers DEF Elsewhere
<1>5. Link(x, d)
  BY <1>2 DEF Inv, Account
<1> DEFINE b == st[x].buf  p == Passed(x, d)
<1>6. b \in Seq(Chunk) /\ Len(b) \in Nat
  BY <1>1, Numbers
<1>7. ASSUME ~st[d].destroyed
      PROVE  /\ \A e \in Offers(x, d) : e = Accepted(d) + 1
             /\ \A i \in 1..Len(b) : b[i] = p + i
             /\ p + Len(b) = Given(x)
  BY <1>5, <1>7 DEF Link
<1>8. CASE Direct(x)
  <2>1. b = <<>> /\ Offers(x, d) = {} /\ Offers(x, d)' = {c}
    BY <1>2, <1>8 DEF Direct, Fed
  <2>2. Passed(x, d) = Accepted(d) /\ Passed(x, d)' = Accepted(d) + 1
    BY <1>4, <2>1 DEF Passed, Handing
  <2>3. Link(x, d)'
    <3>1. SUFFICES ASSUME ~st'[d].destroyed
                   PROVE  /\ c = Accepted(d) + 1
                          /\ \A i \in 1..Len(st'[x].buf) : st'[x].buf[i] = Accepted(d) + 1 + i
                          /\ Accepted(d) + 1 + Len(st'[x].buf) = Given(x) + 1
      BY <1>4, <2>1, <2>2 DEF Link
    <3>2. p + Len(b) = Given(x) /\ st'[x].buf = <<>> /\ Len(b) = 0
      BY <1>4, <1>7, <1>8, <2>1, <3>1
    <3>3. Accepted(d) = Given(x)
      BY <1>4, <2>2, <3>2
    <3>4. Len(st'[x].buf) = 0
      BY <3>2
    <3> QED
      BY <1>4, <3>3, <3>4
  <2> QED
    BY <1>2, <1>8, <2>3, FedPressure
<1>9. CASE ~Direct(x)
  <2>1. Offers(x, d)' = Offers(x, d) /\ st'[x].buf = Append(b, c)
    BY <1>9
  <2>2. Passed(x, d)' = p
    BY <1>4, <2>1 DEF Passed, Handing
  <2>3. Link(x, d)'
    <3> DEFINE a == Append(b, c)
    <3>1. SUFFICES ASSUME ~st[d].destroyed
                   PROVE  /\ \A i \in 1..Len(a) : a[i] = p + i
                          /\ p + Len(a) = Given(x) + 1
      BY <1>4, <1>7, <2>1, <2>2 DEF Link
    <3>2. /\ Len(a) = Len(b) + 1 /\ a[Len(b) + 1] = c
          /\ \A i \in 1..Len(b) : a[i] = b[i]
      BY <1>6
    <3>3. (\A i \in 1..Len(b) : b[i] = p + i) /\ p + Len(b) = Given(x) /\ p \in Nat
      BY <1>4, <1>7, <3>1
    <3> HIDE DEF a, b, p
    <3>4. ASSUME NEW i \in 1..Len(a) PROVE a[i] = p + i
      <4>1. CASE i \in 1..Len(b)
        BY <3>2, <3>3, <4>1
      <4>2. CASE i = Len(b) + 1
        BY <1>6, <3>2, <3>3, <4>2
      <4> QED
        BY <1>6, <3>2, <3>4, <4>1, <4>2
    <3>5. p + Len(a) = Given(x) + 1
      BY <1>6, <3>2, <3>3
    <3> QED
      BY <3>4, <3>5
  <2>4. ASSUME Only(x, d) PROVE Pressure(x, d)'
    <3>1. Pressure(x, d)
      BY <1>3, <2>4 DEF Inv, Pressed
    <3>2. Handing(x, d)' => Handing(x, d)
      BY <2>1 DEF Handing
    <3>3. /\ DrainTick(d)' <=> DrainTick(d)
          /\ Once(<<"drain", d>>, ticks) => Once(<<"drain", d>>, ticks')
          /\ Pausing(x) => Pausing(x)'
      BY <1>3 DEF Elsewhere
    <3> QED
      BY <1>1, <1>3, <1>4, <3>1, <3>2, <3>3, PressureKept
  <2> QED
    BY <2>3, <2>4
<1> QED
  BY <1>8, <1>9

(* The source pushes with no chunk under way.                              *)
LEMMA BeneathAll ==
  ASSUME Inv, NEW x, \A g \in Calls : g.at \notin Flow
  PROVE  Beneath(x, <<>>, stack)
<1>1. stack \in Seq(FramesOf(Chunk)) /\ Ordered(Depth, stack) /\ <<>> \in Seq(FramesOf(Chunk'))
  BY DEF Inv, Structure, Typed
<1>2. \A g \in Range(stack) : g.at \notin Flow
  BY DEF Calls
<1> QED
  BY <1>1, <1>2, RangeFew, OrderedFew DEF Beneath, Calls

(* push() of the source.                                                   *)
LEMMA SourcePushes ==
  ASSUME Inv, ~st[Source].ended, produced < app.chunks, produced' = produced + 1,
         asked' \in Nat, UNCHANGED <<app, wLen, final, settled, iter, got, evs, upsets>>,
         \A g \in Calls : g.at \notin Flow, Pushes(Source, produced + 1, <<>>, stack)
  PROVE  Inv'
<1> SUFFICES ASSUME NEW x, NEW c, x = Source, c = produced + 1
             PROVE  Inv'
  OBVIOUS
<1>1. /\ x \in Streams /\ Structure /\ Typed /\ produced \in Nat /\ produced' \in Nat
      /\ app.chunks \in Nat
  BY StreamsAssumption, Pipes DEF Inv, Structure
<1>2. Onward /\ c \in Chunk'
  <2>1. Chunk \subseteq Chunk' /\ Seq(Chunk) \subseteq Seq(Chunk')
    BY <1>1, Grows
  <2>2. produced' \in 0..app.chunks /\ produced <= produced'
    BY <1>1
  <2>3. got' \in [Streams -> Seq(Chunk')]
    BY <1>1, <2>1 DEF Typed
  <2>4. Onward
    BY <1>1, <2>2, <2>3 DEF Onward, Structure, Typed, Plain
  <2>5. c \in Chunk'
    BY <1>1 DEF Chunk
  <2> QED
    BY <2>4, <2>5
<1>3. Pushes(x, c, <<>>, stack) /\ Beneath(x, <<>>, stack)
  BY BeneathAll
<1>4. /\ Structure'
      /\ \A g \in Calls' : g \in Calls \/ g.at = "emit"
      /\ \A s, d : s # x => Offers(s, d)' = Offers(s, d)
      /\ \A s : Pausing(s)' <=> Pausing(s)
      /\ Direct(x) => Fed(x, c)
      /\ ~Direct(x) => \A d : Offers(x, d)' = Offers(x, d)
      /\ Calls \subseteq Calls'
  <2>1. /\ Structure' /\ Range(<<>>) \cup Range(stack) \subseteq Calls'
        /\ \A g \in Calls' : g \in Range(<<>>) \cup Range(stack) \/ g.at = "emit"
        /\ \A s, d : s # x => Offers(s, d)' = Offers(s, d)
        /\ \A s : Pausing(s)' <=> Pausing(s)
        /\ Direct(x) => Fed(x, c)
        /\ ~Direct(x) => \A d : Offers(x, d)' = Offers(x, d)
    BY <1>1, <1>2, <1>3, PushFrames
  <2> QED
    BY <2>1, RangeFew DEF Calls
<1>5. /\ \A s \in Streams \ {x} : st'[s] = st[s]
      /\ st'[x].buf = IF Direct(x) THEN st[x].buf ELSE Append(st[x].buf, c)
      /\ st'[x].flowing = st[x].flowing /\ st'[x].queue = st[x].queue
      /\ st'[x].writing = st[x].writing /\ st'[x].destroyed = st[x].destroyed
      /\ st'[x].emittedEnd = st[x].emittedEnd /\ st'[x].ended = st[x].ended
      /\ st'[x].wEnded = st[x].wEnded /\ st'[x].finalCalled = st[x].finalCalled
      /\ st'[x].needDrain = st[x].needDrain
  BY <1>1, <1>2, <1>3, PushFields DEF Pushes
<1>6. \A e : (In(e)' <=> In(e)) /\ (Passing(e)' <=> Passing(e))
  BY <1>4 DEF In, Passing
<1>7. /\ \A d : DrainTick(d)' <=> DrainTick(d)
      /\ \A d : Once(<<"drain", d>>, ticks) => Once(<<"drain", d>>, ticks')
  <2>1. OtherTicks(ticks, PushTick(x)) /\ ticks \in Seq(Tasks \X Streams)
    BY <1>1, <1>3, PushTicks DEF Pushes, Typed
  <2> QED
    BY <2>1, DrainsKept
<1>8. Elsewhere(x)
  BY <1>4, <1>5, <1>6, <1>7 DEF Elsewhere
<1>9. SameWrites(x) /\ Written1(x)' /\ Accepted(x)' = Accepted(x) /\ wLen'[x] = wLen[x]
  <2>1. SameWrites(x)
    BY <1>5, <1>6 DEF SameWrites
  <2> QED
    BY <1>1, <2>1, WritesKept DEF Inv, Account
<1>10. WriteSide(x)
  <2>1. wLen[x] \in Nat
    BY <1>1, Numbers
  <2> QED
    BY <1>4, <1>5, <1>7, <1>9, <2>1 DEF WriteSide
<1>11. \A d \in Range(app.pipes[x]) : Link(x, d)' /\ (Only(x, d) => Pressure(x, d)')
  <2>1. Exact(x) /\ c = Given(x) + 1 /\ Given(x)' = Given(x) + 1
    BY DEF Exact, Given
  <2> QED
    BY <1>1, <1>4, <1>5, <1>8, <2>1, PushLinks
<1>12. Over(x)'
  <2>1. ~st[x].emittedEnd
    BY <1>1 DEF Inv, Ended, Over
  <2>2. st[x].finalCalled => st[x].writing = None /\ st[x].queue = <<>>
    BY <1>1 DEF Inv, Ended, Over
  <2> QED
    BY <1>1, <1>5, <1>9, <2>1, <2>2, OverOne
<1>13. Here(x)
  <2>1. /\ \A s \in Streams :
              x \in Range(app.pipes[s]) => Link(s, x)' /\ (Only(s, x) => Pressure(s, x)')
        /\ wLen'[x] >= app.hwm => st'[x].needDrain
    BY <1>1, <1>8, <1>10, WriteSideKept
  <2> QED
    BY <1>5, <1>9, <1>11, <1>12, <2>1 DEF Here
<1>14. Iterated'
  <2>1. SUFFICES ASSUME app.consumer = "iterate"
                 PROVE  /\ \A i \in 1..Len(st'[x].buf) : st'[x].buf[i] = Len(got[x]) + i
                        /\ Len(got[x]) + Len(st'[x].buf) = c
    BY DEF Iterated
  <2>2. ~Direct(x)
    <3>1. app.pipes[x] = <<>>
      BY <1>1, <2>1, Pipes
    <3> QED
      BY <1>1, <3>1 DEF Direct, Structure, Plain
  <2> DEFINE b == st[x].buf  n == Len(got[x])  a == Append(b, c)
  <2>3. b \in Seq(Chunk) /\ n \in Nat /\ st'[x].buf = a
    BY <1>1, <1>5, <2>2, Numbers
  <2>4. (\A i \in 1..Len(b) : b[i] = n + i) /\ n + Len(b) = produced
    BY <2>1 DEF Inv, Account, Iterated
  <2>5. /\ Len(b) \in Nat /\ Len(a) = Len(b) + 1 /\ a[Len(b) + 1] = c
        /\ \A i \in 1..Len(b) : a[i] = b[i]
    BY <2>3
  <2> HIDE DEF a, b, n
  <2>6. ASSUME NEW i \in 1..Len(a) PROVE a[i] = n + i
    <3>1. CASE i \in 1..Len(b)
      BY <2>4, <2>5, <3>1
    <3>2. CASE i = Len(b) + 1
      BY <2>3, <2>4, <2>5, <3>2
    <3> QED
      BY <2>5, <2>6, <3>1, <3>2
  <2>7. n + Len(a) = c
    BY <2>3, <2>4, <2>5
  <2> QED
    BY <2>3, <2>6, <2>7 DEF n
<1>15. Account' /\ Ended' /\ Pressed'
  BY <1>1, <1>8, <1>13, <1>14, ElsewhereKeeps
<1> QED
  BY <1>4, <1>15 DEF Inv

(* ... within _read,                                                       *)
LEMMA ReadPushesKeeps ==
  ASSUME Inv, ReadPushes
  PROVE  Inv'
<1>1. \A g \in Calls : g.at \notin Flow
  BY NoFlow DEF ReadPushes, At, Inv, Flow
<1>2. stack = <<>> \o stack
  <2>1. stack \in Seq(FramesOf(Chunk))
    BY DEF Inv, Structure, Typed
  <2> QED
    BY <2>1
<1>3. Pushes(Source, produced + 1, <<>>, stack)
  BY <1>2 DEF ReadPushes, Push, Pushes, Call, Tick
<1>4. asked' \in Nat
  BY DEF ReadPushes, Inv, Structure, Typed
<1> QED
  BY <1>1, <1>3, <1>4, SourcePushes DEF ReadPushes

(* ... or between microtasks.                                              *)
LEMMA PushLaterKeeps ==
  ASSUME Inv, PushLater
  PROVE  Inv'
<1>1. stack = <<>> /\ \A g \in Calls : g.at \notin Flow
  BY NoFlow DEF PushLater, Inv
<1>2. <<>> = <<>> \o <<>>
  OBVIOUS
<1>3. Pushes(Source, produced + 1, <<>>, stack)
  BY <1>1, <1>2 DEF PushLater, Push, Pushes, Call, Tick
<1>4. asked' \in Nat
  BY DEF PushLater, Answers, Answered, Inv, Structure, Typed
<1> QED
  BY <1>1, <1>3, <1>4, SourcePushes DEF PushLater
-----------------------------------------------------------------------------
(* _transform of a PassThrough pushes what was written.                    *)
Writes(x, B) ==
  \/ stack = <<>> /\ B = <<>> /\ got' = got
  \/ /\ stack # <<>> /\ Head(stack).at = "write" /\ Self = x /\ B = Under
     /\ got' = [got EXCEPT ![x] = Append(got[x], st[x].writing)]

(* In both cases no frame of x is left, and x has taken the chunk.         *)
LEMMA WritesOut ==
  ASSUME Inv, NEW x \in Streams, NEW B, Writes(x, B), st[x].writing # None
  PROVE  /\ B \in Seq(FramesOf(Chunk)) /\ Range(B) \subseteq Calls /\ Ordered(Depth, B)
         /\ \A g \in Range(B) : g.at \in Flow => /\ Level(Depth, g) < 3 * Depth[x]
                                                 /\ g.of # x
         /\ \A g \in Calls : g \in Range(B) \/ (g.at = "write" /\ g.of = x)
         /\ \A s \in Streams \ {x} : got'[s] = got[s]
         /\ got'[x] \in Seq(Chunk) /\ (\A i \in 1..Len(got'[x]) : got'[x][i] = i)
         /\ Len(got'[x]) = Taken(x) /\ st[x].writing = Taken(x)
         /\ ~Passing(x)
         /\ got' \in [Streams -> Seq(Chunk)]
         /\ st[x].finalCalled = FALSE
<1> DEFINE w == st[x].writing  n == Len(got[x])
<1>1. /\ Structure /\ Typed /\ Written1(x) /\ got[x] \in Seq(Chunk) /\ n \in Nat
      /\ st[x] \in FieldsOf(Chunk)
  BY Numbers DEF Inv, Structure, Account
<1>2. w \in Chunk
  BY <1>1 DEF FieldsOf
<1>3. st[x].finalCalled = FALSE
  BY <1>1 DEF FieldsOf, Inv, Ended, Over
<1>4. CASE stack = <<>> /\ B = <<>> /\ got' = got
  <2>1. Calls = {} /\ Range(B) = {} /\ Ordered(Depth, B) /\ B \in Seq(FramesOf(Chunk))
    BY <1>4, RangeFew, OrderedFew DEF Calls
  <2>2. ~In(x) /\ ~Passing(x)
    BY <2>1 DEF In, Passing
  <2>3. Taken(x) = n /\ w = n /\ \A i \in 1..n : got[x][i] = i
    BY <1>1, <2>2 DEF Taken, Written1
  <2> QED
    BY <1>1, <1>3, <1>4, <2>1, <2>2, <2>3 DEF Typed
<1>5. CASE /\ stack # <<>> /\ Head(stack).at = "write" /\ Self = x /\ B = Under
           /\ got' = [got EXCEPT ![x] = Append(got[x], w)]
  <2>1. /\ Under \in Seq(FramesOf(Chunk)) /\ Ordered(Depth, Under)
        /\ Calls = {Head(stack)} \cup Range(Under)
        /\ \A g \in Range(Under) : Above(Depth, Head(stack), g)
    BY <1>1, <1>5, Top
  <2>2. Head(stack).of = x /\ Head(stack).at = "write"
    BY <1>5 DEF Self
  <2>3. Level(Depth, Head(stack)) = 3 * Depth[x]
    <3>1. Depth[x] \in Nat
      BY <1>1, DepthFacts
    <3> QED
      BY <2>2, <3>1 DEF Level
  <2>4. ASSUME NEW g \in Range(Under), g.at \in Flow
        PROVE  Level(Depth, g) < 3 * Depth[x] /\ g.of # x
    <3>1. Level(Depth, g) < 3 * Depth[x]
      BY <2>1, <2>3, <2>4 DEF Above
    <3>2. g.of # x
      BY <1>1, <1>5, <2>2, <2>4, Unique DEF Flow
    <3> QED
      BY <3>1, <3>2
  <2>5. In(x) /\ ~Passing(x)
    <3>1. In(x)
      BY <2>1, <2>2 DEF In
    <3>2. ~Passing(x)
      BY <2>1, <2>2, <2>4 DEF Passing, Flow
    <3> QED
      BY <3>1, <3>2
  <2>6. Taken(x) = n + 1 /\ w = n + 1 /\ \A i \in 1..n : got[x][i] = i
    BY <1>1, <2>5 DEF Taken, Written1
  <2> DEFINE a == Append(got[x], w)
  <2>7. /\ a \in Seq(Chunk) /\ Len(a) = n + 1 /\ a[n + 1] = w
        /\ \A i \in 1..n : a[i] = got[x][i]
    BY <1>1, <1>2
  <2>8. /\ got'[x] = a /\ (\A s \in Streams \ {x} : got'[s] = got[s])
        /\ got' \in [Streams -> Seq(Chunk)]
    BY <1>1, <1>5, <2>7 DEF Typed
  <2> HIDE DEF a, n, w
  <2>9. ASSUME NEW i \in 1..Len(a) PROVE a[i] = i
    <3>1. CASE i \in 1..n
      BY <2>6, <2>7, <3>1
    <3>2. CASE i = n + 1
      BY <2>6, <2>7, <3>2
    <3> QED
      BY <1>1, <2>7, <2>9, <3>1, <3>2
  <2> QED
    BY <1>3, <1>5, <2>1, <2>2, <2>4, <2>5, <2>6, <2>7, <2>8, <2>9 DEF w
<1> QED
  BY <1>4, <1>5 DEF Writes

(* The type of a plain frame.                                              *)
LEMMA PlaceIn ==
  ASSUME NEW C, NEW a \in Places, NEW s \in Streams
  PROVE  /\ Place(a, s) \in FramesOf(C)
         /\ Place(a, s).at = a /\ Place(a, s).of = s
<1>1. Place(a, s) = [at |-> a, of |-> s, chunk |-> None, to |-> <<>>, ok |-> TRUE]
  BY DEF Place, Frame
<1>2. <<>> \in Seq(Streams)
  OBVIOUS
<1>3. Place(a, s) \in FramesOf(C)
  BY <1>1, <1>2 DEF FramesOf
<1> QED
  BY <1>1, <1>3

(* A PassThrough pushes the chunk it was written.                          *)
LEMMA TransformPushes ==
  ASSUME Inv, NEW x \in Transforms, NEW B, Writes(x, B), st[x].writing # None,
         NEW c, c = st[x].writing, NEW t, t = Place("transformed", x),
         UNCHANGED <<app, wLen, asked, final, settled, iter, produced, evs, upsets>>,
         Pushes(x, c, <<t>>, B)
  PROVE  Inv'
<1>1. x \in Streams /\ x # Source /\ Structure /\ Typed
  BY StreamsAssumption DEF Inv, Structure
<1>2. /\ B \in Seq(FramesOf(Chunk)) /\ Range(B) \subseteq Calls /\ Ordered(Depth, B)
      /\ \A g \in Range(B) : g.at \in Flow => /\ Level(Depth, g) < 3 * Depth[x]
                                              /\ g.of # x
      /\ \A g \in Calls : g \in Range(B) \/ (g.at = "write" /\ g.of = x)
      /\ \A s \in Streams \ {x} : got'[s] = got[s]
      /\ (\A i \in 1..Len(got'[x]) : got'[x][i] = i)
      /\ Len(got'[x]) = Taken(x) /\ c = Taken(x)
      /\ ~Passing(x) /\ got' \in [Streams -> Seq(Chunk)] /\ ~st[x].finalCalled
  BY <1>1, WritesOut
<1>3. Onward /\ Chunk' = Chunk
  BY <1>2, OnwardSame DEF Inv, Structure, Typed
<1>4. c \in Chunk'
  BY <1>1, <1>3, Numbers DEF FieldsOf
<1>5. /\ \A s \in Streams \ {x} : st'[s] = st[s]
      /\ st'[x].buf = IF Direct(x) THEN st[x].buf ELSE Append(st[x].buf, c)
      /\ st'[x].flowing = st[x].flowing /\ st'[x].queue = st[x].queue
      /\ st'[x].writing = st[x].writing /\ st'[x].destroyed = st[x].destroyed
      /\ st'[x].emittedEnd = st[x].emittedEnd /\ st'[x].ended = st[x].ended
      /\ st'[x].wEnded = st[x].wEnded /\ st'[x].finalCalled = st[x].finalCalled
      /\ st'[x].needDrain = st[x].needDrain
  BY <1>1, <1>3, <1>4, PushFields DEF Pushes
<1>6. t \in FramesOf(Chunk') /\ FrameOK(t)' /\ t.at = "transformed" /\ t.of = x
  <2>1. "transformed" \in Places
    BY DEF Places
  <2>4. t \in FramesOf(Chunk') /\ t.at = "transformed" /\ t.of = x
    BY <1>1, <2>1, PlaceIn
  <2>5. FrameOK(t)'
    BY <1>5, <2>4 DEF FrameOK
  <2> QED
    BY <2>4, <2>5
<1>7. Beneath(x, <<t>>, B)
  <2>1. /\ <<t>> \in Seq(FramesOf(Chunk')) /\ Range(<<t>>) = {t} /\ Ordered(Depth, <<t>>)
    BY <1>6, RangeFew, OrderedFew
  <2>2. Depth[x] \in Nat
    BY <1>1, DepthFacts
  <2>3. Level(Depth, t) = 3 * Depth[x]
    BY <1>6, <2>2 DEF Level
  <2>4. ASSUME NEW g \in Range(B) PROVE Above(Depth, t, g)
    BY <1>2, <1>6, <2>3 DEF Above, Flow
  <2>5. ASSUME NEW g \in Range(B), g.at \in Flow PROVE Level(Depth, g) <= 3 * Depth[x]
    <3> DEFINE n == 3 * Depth[x]  m == Level(Depth, g)
    <3>1. m < n /\ n \in Nat
      BY <1>2, <2>2, <2>5
    <3>2. m \in Nat
      <4>1. g.of \in Streams
        <5>1. g \in FramesOf(Chunk)
          BY <1>2, <2>5, InRange
        <5> QED
          BY <5>1 DEF FramesOf
      <4>2. Depth[g.of] \in Nat
        BY <1>1, <4>1, DepthFacts
      <4> QED
        BY <4>2 DEF Level
    <3> HIDE DEF n, m
    <3>3. m <= n
      BY <3>1, <3>2
    <3> QED
      BY <3>3 DEF n, m
  <2>6. Level(Depth, t) <= 3 * Depth[x]
    BY <2>2, <2>3
  <2> QED
    BY <1>2, <1>6, <2>1, <2>4, <2>5, <2>6 DEF Beneath
<1>8. /\ Structure' /\ {t} \cup Range(B) \subseteq Calls'
      /\ \A g \in Calls' : g = t \/ g \in Range(B) \/ g.at = "emit"
      /\ \A s, d : s # x => Offers(s, d)' = Offers(s, d)
      /\ \A s : Pausing(s)' <=> Pausing(s)
      /\ Direct(x) => Fed(x, c)
      /\ ~Direct(x) => \A d : Offers(x, d)' = Offers(x, d)
  <2>1. /\ Structure' /\ Range(<<t>>) \cup Range(B) \subseteq Calls'
        /\ \A g \in Calls' : g \in Range(<<t>>) \cup Range(B) \/ g.at = "emit"
        /\ \A s, d : s # x => Offers(s, d)' = Offers(s, d)
        /\ \A s : Pausing(s)' <=> Pausing(s)
        /\ Direct(x) => Fed(x, c)
        /\ ~Direct(x) => \A d : Offers(x, d)' = Offers(x, d)
    BY <1>1, <1>3, <1>4, <1>7, PushFrames
  <2>2. Range(<<t>>) = {t}
    BY RangeFew
  <2> QED
    BY <2>1, <2>2
<1>9. \A e : e # x => (In(e)' <=> In(e)) /\ (Passing(e)' <=> Passing(e))
  <2>1. ASSUME NEW e, e # x PROVE In(e)' <=> In(e)
    BY <1>2, <1>6, <1>8, <2>1 DEF In
  <2>2. ASSUME NEW e, e # x PROVE Passing(e)' <=> Passing(e)
    BY <1>2, <1>6, <1>8, <2>2 DEF Passing
  <2> QED
    BY <2>1, <2>2
<1>10. ~In(x)' /\ Passing(x)'
  <2>1. ~In(x)'
    BY <1>2, <1>6, <1>8 DEF In, Flow
  <2>2. Passing(x)'
    BY <1>6, <1>8 DEF Passing
  <2> QED
    BY <2>1, <2>2
<1>11. /\ \A d : DrainTick(d)' <=> DrainTick(d)
       /\ \A d : Once(<<"drain", d>>, ticks) => Once(<<"drain", d>>, ticks')
  <2>1. OtherTicks(ticks, PushTick(x)) /\ ticks \in Seq(Tasks \X Streams)
    BY <1>1, PushTicks DEF Pushes, Typed
  <2> QED
    BY <2>1, DrainsKept
<1>12. Elsewhere(x)
  BY <1>2, <1>5, <1>8, <1>9, <1>11 DEF Elsewhere
<1>13. /\ Taken(x)' = Taken(x) /\ Accepted(x)' = Accepted(x) /\ wLen'[x] = wLen[x]
       /\ Written1(x)'
  <2>1. Taken(x)' = Taken(x)
    BY <1>2, <1>10 DEF Taken
  <2>2. Accepted(x)' = Accepted(x)
    BY <1>5, <2>1 DEF Accepted
  <2>3. Past(x)' = Past(x) /\ Measured(x)
    BY <1>1, <1>5, <2>1 DEF Past, Inv, Account, Written1
  <2>6. Measured(x)'
    BY <2>2, <2>3, MeasureKept
  <2>4. \A i \in 1..Len(st[x].queue) : st[x].queue[i] = Taken(x) + i
    BY <1>1 DEF Inv, Account, Written1
  <2>5. Written1(x)'
    BY <1>2, <1>5, <1>10, <2>1, <2>4, <2>6 DEF Written1
  <2> QED
    BY <2>1, <2>2, <2>5
<1>14. WriteSide(x)
  <2>1. wLen[x] \in Nat
    BY <1>1, Numbers
  <2> QED
    BY <1>5, <1>8, <1>11, <1>13, <2>1 DEF WriteSide
<1>15. \A d \in Range(app.pipes[x]) : Link(x, d)' /\ (Only(x, d) => Pressure(x, d)')
  <2>1. Taken(x) \in Nat
    BY <1>1, Numbers
  <2>2. Given(x) = Taken(x) - 1 /\ Given(x)' = Taken(x)
    BY <1>1, <1>2, <1>10, <1>13 DEF Given
  <2>3. Exact(x) /\ c = Given(x) + 1 /\ Given(x)' = Given(x) + 1
    BY <1>2, <2>1, <2>2 DEF Exact
  <2> QED
    BY <1>1, <1>5, <1>8, <1>12, <2>3, PushLinks
<1>16. Over(x)'
  <2>1. ~st[x].emittedEnd
    BY <1>1, <1>2 DEF Inv, Ended, Over
  <2>2. st[Source].ended => st'[Source].ended
    BY <1>1, <1>5, StreamsAssumption
  <2> QED
    BY <1>1, <1>2, <1>5, <1>13, <2>1, <2>2, OverOne
<1>17. Here(x)
  <2>1. /\ \A s \in Streams :
              x \in Range(app.pipes[s]) => Link(s, x)' /\ (Only(s, x) => Pressure(s, x)')
        /\ wLen'[x] >= app.hwm => st'[x].needDrain
    BY <1>1, <1>12, <1>14, WriteSideKept
  <2> QED
    BY <1>5, <1>13, <1>15, <1>16, <2>1 DEF Here
<1>18. Iterated'
  BY <1>1, <1>2, <1>5, StreamsAssumption, IteratedKept
<1>19. Account' /\ Ended' /\ Pressed'
  BY <1>1, <1>12, <1>17, <1>18, ElsewhereKeeps
<1> QED
  BY <1>8, <1>19 DEF Inv
-----------------------------------------------------------------------------
(* The callback of _write: x is done with its chunk.                       *)
Leaves(x, B) ==
  /\ B \in Seq(FramesOf(Chunk)) /\ Range(B) \subseteq Calls /\ Ordered(Depth, B)
  /\ \A g \in Range(B) : g.at \in Flow => g.of # x
  /\ \A g \in Calls : g \in Range(B) \/ (g.at \in {"write", "transformed"} /\ g.of = x)
  /\ \A s \in Streams \ {x} : got'[s] = got[s]
  /\ \A i \in 1..Len(got'[x]) : got'[x][i] = i
  /\ Len(got'[x]) = Taken(x) /\ got' \in [Streams -> Seq(Chunk)]

(* _write leaves the stack.                                                *)
LEMMA LeavesFrames ==
  ASSUME Inv, NEW x \in Streams, NEW B, Leaves(x, B), Calls' = Range(B)
  PROVE  /\ \A s, d : Offers(s, d)' = Offers(s, d)
         /\ \A s : Pausing(s)' <=> Pausing(s)
         /\ \A s : s # x => (In(s)' <=> In(s)) /\ (Passing(s)' <=> Passing(s))
         /\ ~In(x)' /\ ~Passing(x)' /\ Taken(x)' = Taken(x)
<1>1. \A g : g.at \in {"emit", "wrote"} => (g \in Calls' <=> g \in Calls)
  BY DEF Leaves
<1>2. \A s, d : Offers(s, d)' = Offers(s, d)
  BY <1>1 DEF Offers
<1>3. \A s : Pausing(s)' <=> Pausing(s)
  BY <1>1 DEF Pausing
<1>4. \A g : g.of # x => (g \in Calls' <=> g \in Calls)
  BY DEF Leaves
<1>5. \A s : s # x => (In(s)' <=> In(s)) /\ (Passing(s)' <=> Passing(s))
  BY <1>4 DEF In, Passing
<1>6. ~In(x)' /\ ~Passing(x)'
  BY DEF In, Passing, Leaves, Flow
<1>7. Taken(x)' = Taken(x)
  BY <1>6 DEF Taken, Leaves
<1> QED
  BY <1>2, <1>3, <1>5, <1>6, <1>7

(* The fields done() sets.                                                 *)
LEMMA DoneFields ==
  ASSUME Inv, NEW x \in Streams, NEW err \in BOOLEAN, Chunk' = Chunk,
         st' = [st EXCEPT ![x] = IF err THEN Destroyed([st[x] EXCEPT !.writing = None])
                                 ELSE [st[x] EXCEPT !.writing = None]]
  PROVE  /\ FieldsKept /\ \A s \in Streams \ {x} : st'[s] = st[s]
         /\ st'[x].buf = st[x].buf
         /\ st'[x].flowing = st[x].flowing /\ st'[x].queue = st[x].queue
         /\ st'[x].writing = None /\ (err \/ st[x].destroyed => st'[x].destroyed)
         /\ st'[x].emittedEnd = st[x].emittedEnd /\ st'[x].ended = st[x].ended
         /\ st'[x].wEnded = st[x].wEnded /\ st'[x].finalCalled = st[x].finalCalled
         /\ st'[x].needDrain = st[x].needDrain
<1> DEFINE k == st[x]  f == [k EXCEPT !.writing = None]  g == IF err THEN Destroyed(f) ELSE f
<1>1. k \in FieldsOf(Chunk) /\ Kept(x, k, k) /\ st' = [st EXCEPT ![x] = g]
  BY DEF Inv, Structure, Typed, Kept, Plain
<1> HIDE DEF k
<1>2. /\ f \in FieldsOf(Chunk) /\ f.buf = k.buf /\ f.flowing = k.flowing /\ f.queue = k.queue
      /\ f.writing = None /\ f.destroyed = k.destroyed /\ f.emittedEnd = k.emittedEnd
      /\ f.ended = k.ended /\ f.wEnded = k.wEnded /\ f.finalCalled = k.finalCalled
      /\ f.needDrain = k.needDrain
  BY <1>1, SetWriting
<1>3. k.destroyed \in BOOLEAN
  BY <1>1 DEF FieldsOf
<1> HIDE DEF f
<1>4. /\ g \in FieldsOf(Chunk) /\ g.buf = k.buf /\ g.flowing = k.flowing /\ g.queue = k.queue
      /\ g.writing = None /\ (err \/ k.destroyed => g.destroyed) /\ g.emittedEnd = k.emittedEnd
      /\ g.ended = k.ended /\ g.wEnded = k.wEnded /\ g.finalCalled = k.finalCalled
      /\ g.needDrain = k.needDrain
  <2>1. CASE err
    <3>1. g = Destroyed(f)
      BY <2>1
    <3> DEFINE h == Destroyed(f)
    <3>2. /\ h \in FieldsOf(Chunk) /\ h.buf = f.buf /\ h.flowing = f.flowing
          /\ h.queue = f.queue /\ h.writing = f.writing /\ h.destroyed
          /\ h.emittedEnd = f.emittedEnd /\ h.ended = f.ended /\ h.wEnded = f.wEnded
          /\ h.finalCalled = f.finalCalled /\ h.needDrain = f.needDrain
      BY <1>2, SetDestroyed
    <3> HIDE DEF g, h
    <3> QED
      BY <1>2, <3>1, <3>2 DEF h
  <2>2. CASE ~err
    BY <1>2, <1>3, <2>2
  <2> QED
    BY <2>1, <2>2
<1> HIDE DEF g
<1>5. Kept(x, k, g)
  BY <1>1, <1>4 DEF Kept
<1>6. FieldsKept /\ st'[x] = g /\ \A s \in Streams \ {x} : st'[s] = st[s]
  BY <1>1, <1>4, <1>5, OneKept DEF k
<1> QED
  BY <1>4, <1>6 DEF k

(* The microtasks of done().                                               *)
LEMMA DoneTicks ==
  ASSUME Inv, NEW x \in Streams, NEW err \in BOOLEAN,
         NEW N, N = IF err THEN DestroyTicks(x, [st[x] EXCEPT !.writing = None], TRUE)
                    ELSE <<<<"processWrites", x>>>>,
         ticks' = ticks \o N
  PROVE  TicksKept(ticks, N) /\ OtherTicks(ticks, N)
<1>1. N \in Seq(Tasks \X Streams) /\ \A t \in Range(N) : t[1] \in {"error", "close", "processWrites"}
  <2>1. CASE err
    <3> DEFINE k == st[x]  f == [k EXCEPT !.writing = None]
    <3>1. k \in FieldsOf(Chunk)
      BY DEF Inv, Structure, Typed
    <3> HIDE DEF k
    <3>2. f \in FieldsOf(Chunk)
      BY <3>1, SetWriting
    <3>3. N = DestroyTicks(x, f, TRUE)
      BY <2>1 DEF k
    <3> HIDE DEF f
    <3> QED
      BY <3>2, <3>3, DestroyCalm
  <2>2. CASE ~err
    <3> DEFINE t == <<"processWrites", x>>
    <3>1. N = <<t>> /\ t \in Tasks \X Streams /\ t[1] = "processWrites"
      BY <2>2 DEF Tasks
    <3> HIDE DEF t
    <3>2. N \in Seq(Tasks \X Streams)
      BY <3>1, FewTicks
    <3>3. Range(N) = {t}
      BY <3>1, RangeFew
    <3> QED
      BY <3>1, <3>2, <3>3
  <2> QED
    BY <2>1, <2>2
<1>2. ticks \in Seq(Tasks \X Streams)
  BY DEF Inv, Structure, Typed
<1>3. \A t \in Range(N) : TickOK(t)'
  BY <1>1 DEF TickOK
<1> QED
  BY <1>1, <1>2, <1>3 DEF TicksKept, OtherTicks

(* The frames below are untouched.                                         *)
LEMMA FramesLeft ==
  ASSUME Inv, NEW x \in Streams, NEW B, Leaves(x, B), stack' = B,
         \A s \in Streams \ {x} : st'[s] = st[s]
  PROVE  FramesKept(<<>>, B)
<1>1. B \in Seq(FramesOf(Chunk)) /\ Range(B) \subseteq Calls /\ Ordered(Depth, B)
  BY DEF Leaves
<1>2. stack' = <<>> \o B /\ <<>> \in Seq(FramesOf(Chunk'))
  BY <1>1
<1>3. ASSUME NEW g \in Range(B), g.at \in {"write", "transformed"}
      PROVE  st'[g.of].writing # None
  <2>1. g.of \in Streams /\ st[g.of].writing # None
    BY <1>1, <1>3, WritingBelow DEF Inv
  <2>2. g.of # x
    BY <1>3 DEF Leaves, Flow
  <2> QED
    BY <2>1, <2>2
<1> QED
  BY <1>1, <1>2, <1>3, RangeFew, OrderedFew DEF FramesKept

(* done() of _runWrite.                                                    *)
LEMMA DoneKeeps ==
  ASSUME Inv, NEW x \in Streams, st[x].writing # None, NEW err \in BOOLEAN, NEW B,
         Leaves(x, B), Done(x, err, B), err \/ app.pipes[x] = <<>> \/ Passing(x),
         UNCHANGED <<app, asked, final, settled, iter, produced, evs>>
  PROVE  Inv'
<1>1. Structure /\ Typed /\ x # Source /\ Source \in Streams
  BY StreamsAssumption DEF Inv, Structure, Plain
<1>2. PICK N : N = IF err THEN DestroyTicks(x, [st[x] EXCEPT !.writing = None], TRUE)
                   ELSE <<<<"processWrites", x>>>>
  OBVIOUS
<1>3. /\ st' = [st EXCEPT ![x] = IF err THEN Destroyed([st[x] EXCEPT !.writing = None])
                                 ELSE [st[x] EXCEPT !.writing = None]]
      /\ ticks' = ticks \o N /\ stack' = B
      /\ upsets' = (IF err THEN upsets + 1 ELSE upsets) /\ (err => upsets < MaxUpsets)
  BY <1>2 DEF Done, Tick
<1>a. wLen' = [wLen EXCEPT ![x] = wLen[x] - Weight(x, st[x].writing)]
  BY DEF Done
<1>b. wLen[x] - Weight(x, st[x].writing) \in Nat /\ wLen \in [Streams -> Nat]
  BY <1>1, Lightened DEF Typed
<1>c. /\ wLen'[x] = wLen[x] - Weight(x, st[x].writing) /\ wLen' \in [Streams -> Nat]
      /\ \A s \in Streams \ {x} : wLen'[s] = wLen[s]
  <2>1. PICK v : v = wLen[x] - Weight(x, st[x].writing)
    OBVIOUS
  <2>2. v \in Nat /\ wLen' = [wLen EXCEPT ![x] = v]
    BY <1>a, <1>b, <2>1
  <2>3. wLen'[x] = v /\ wLen' \in [Streams -> Nat] /\ \A s \in Streams \ {x} : wLen'[s] = wLen[s]
    BY <1>b, <2>2
  <2> QED
    BY <2>1, <2>3
<1>4. Onward /\ Chunk' = Chunk
  <2>1. upsets' \in 0..MaxUpsets
    BY <1>1, <1>3, StreamsAssumption DEF Typed
  <2>2. got' \in [Streams -> Seq(Chunk)]
    BY DEF Leaves
  <2> QED
    BY <1>c, <2>1, <2>2, OnwardSame
<1>5. /\ FieldsKept /\ \A s \in Streams \ {x} : st'[s] = st[s]
      /\ st'[x].buf = st[x].buf
      /\ st'[x].flowing = st[x].flowing /\ st'[x].queue = st[x].queue
      /\ st'[x].writing = None /\ (err \/ st[x].destroyed => st'[x].destroyed)
      /\ st'[x].emittedEnd = st[x].emittedEnd /\ st'[x].ended = st[x].ended
      /\ st'[x].wEnded = st[x].wEnded /\ st'[x].finalCalled = st[x].finalCalled
      /\ st'[x].needDrain = st[x].needDrain
  BY <1>3, <1>4, DoneFields
<1>6. TicksKept(ticks, N) /\ OtherTicks(ticks, N)
  BY <1>2, <1>3, DoneTicks
<1>7. Structure' /\ Calls' = Range(B)
  <2>1. FramesKept(<<>>, B)
    BY <1>3, <1>5, FramesLeft
  <2>2. Structure' /\ Calls' = Range(<<>>) \cup Range(B)
    BY <1>1, <1>4, <1>5, <1>6, <2>1, StructureStep
  <2> QED
    BY <2>2, RangeFew
<1>8. /\ \A s, d : Offers(s, d)' = Offers(s, d)
      /\ \A s : Pausing(s)' <=> Pausing(s)
      /\ \A s : s # x => (In(s)' <=> In(s)) /\ (Passing(s)' <=> Passing(s))
      /\ ~In(x)' /\ ~Passing(x)' /\ Taken(x)' = Taken(x)
  BY <1>7, LeavesFrames
<1>9. /\ \A d : DrainTick(d)' <=> DrainTick(d)
      /\ \A d : Once(<<"drain", d>>, ticks) => Once(<<"drain", d>>, ticks')
  <2>1. ticks \in Seq(Tasks \X Streams)
    BY <1>1 DEF Typed
  <2> QED
    BY <1>6, <2>1, DrainsKept
<1>10. Elsewhere(x)
  BY <1>5, <1>8, <1>9, <1>c DEF Elsewhere, Leaves
<1>11. /\ Accepted(x)' = Accepted(x) /\ wLen'[x] \in Nat /\ wLen'[x] <= wLen[x]
       /\ Measured(x)'
  <2>1. Accepted(x)' = Accepted(x)
    BY <1>5, <1>8 DEF Accepted
  <2>2. Past(x)' = Taken(x)
    BY <1>5, <1>8 DEF Past
  <2>3. Measured(x)' /\ wLen'[x] \in Nat /\ wLen'[x] <= wLen[x]
    BY <1>c, <2>1, <2>2, MeasureShrinks
  <2> QED
    BY <2>1, <2>3
<1>12. Written1(x)'
  <2>1. \A i \in 1..Len(st[x].queue) : st[x].queue[i] = Taken(x) + i
    BY DEF Inv, Account, Written1
  <2> QED
    BY <1>5, <1>8, <1>11, <2>1 DEF Written1, Leaves
<1>13. WriteSide(x)
  BY <1>5, <1>8, <1>9, <1>11 DEF WriteSide
<1>14. ~st[x].finalCalled /\ ~st[x].emittedEnd
  BY <1>1 DEF Inv, Ended, Over
<1>15. app.pipes[x] = <<>> \/ ReadSide(x)
  <2>1. SUFFICES ASSUME app.pipes[x] # <<>> PROVE ReadSide(x)
    OBVIOUS
  <2>2. CASE err
    <3>1. ~Exact(x)'
      BY <1>1, <1>5, <1>14, <2>2 DEF Exact
    <3> QED
      BY <1>5, <1>8, <3>1 DEF ReadSide
  <2>3. CASE Passing(x)
    <3>1. Given(x) = Taken(x) /\ Given(x)' = Taken(x)
      BY <1>1, <1>5, <1>8, <2>3 DEF Given
    <3>2. Exact(x)
      BY DEF Exact
    <3> QED
      BY <1>5, <1>8, <3>1, <3>2 DEF ReadSide
  <2> QED
    BY <2>1, <2>2, <2>3
<1>16. Over(x)'
  <2>1. st[Source].ended => st'[Source].ended
    BY <1>1, <1>5
  <2> QED
    BY <1>5, <1>11, <1>14, <2>1, OverOne
<1>17. Here(x)
  <2>1. /\ \A s \in Streams :
              x \in Range(app.pipes[s]) => Link(s, x)' /\ (Only(s, x) => Pressure(s, x)')
        /\ wLen'[x] >= app.hwm => st'[x].needDrain
    BY <1>10, <1>13, WriteSideKept
  <2>2. \A d \in Range(app.pipes[x]) : Link(x, d)' /\ (Only(x, d) => Pressure(x, d)')
    BY <1>10, <1>15, ReadSideKept
  <2> QED
    BY <1>5, <1>12, <1>16, <2>1, <2>2 DEF Here
<1>18. Iterated'
  <2>1. got'[Source] = got[Source] /\ st'[Source].buf = st[Source].buf
    BY <1>1, <1>5 DEF Leaves
  <2> QED
    BY <2>1, IteratedKept
<1>19. Account' /\ Ended' /\ Pressed'
  BY <1>10, <1>17, <1>18, ElsewhereKeeps
<1> QED
  BY <1>7, <1>19 DEF Inv

(* The chunk _write was called with is no longer under way.                *)
LEMMA WritesLeave ==
  ASSUME Inv, NEW x \in Streams, NEW B, Writes(x, B), st[x].writing # None
  PROVE  Leaves(x, B)
<1>1. /\ B \in Seq(FramesOf(Chunk)) /\ Range(B) \subseteq Calls /\ Ordered(Depth, B)
      /\ \A g \in Range(B) : g.at \in Flow => /\ Level(Depth, g) < 3 * Depth[x]
                                              /\ g.of # x
      /\ \A g \in Calls : g \in Range(B) \/ (g.at = "write" /\ g.of = x)
      /\ \A s \in Streams \ {x} : got'[s] = got[s]
      /\ (\A i \in 1..Len(got'[x]) : got'[x][i] = i)
      /\ Len(got'[x]) = Taken(x) /\ got' \in [Streams -> Seq(Chunk)]
  BY WritesOut
<1>2. \A g \in Range(B) : g.at \in Flow => g.of # x
  BY <1>1
<1> QED
  BY <1>1, <1>2 DEF Leaves

(* Only a PassThrough is written to and piped.                             *)
LEMMA NoPipes ==
  ASSUME Inv, NEW x \in Streams, x \notin Transforms, st[x].writing # None
  PROVE  app.pipes[x] = <<>>
<1>1. x # Source
  BY DEF Inv, Structure, Plain
<1> QED
  BY <1>1, Pipes DEF Inv, Structure

(* _write calls back at once,                                              *)
LEMMA WriteNowKeeps ==
  ASSUME Inv, NEW err \in BOOLEAN, WriteNow(err)
  PROVE  Inv'
<1> SUFFICES ASSUME NEW x, x = Self
             PROVE  Inv'
  OBVIOUS
<1>1. /\ stack # <<>> /\ Head(stack).at = "write" /\ x \in Streams /\ FrameOK(Head(stack))
      /\ Under \in Seq(FramesOf(Chunk))
  BY AtFlow DEF WriteNow, Flow
<1>2. st[x].writing # None
  BY <1>1 DEF FrameOK, Self
<1>3. /\ UNCHANGED <<app, asked, final, settled, iter, produced, evs>>
      /\ got' = [got EXCEPT ![x] = Append(got[x], st[x].writing)]
  BY <1>1 DEF WriteNow
<1>4. Writes(x, Under)
  BY <1>1, <1>3 DEF Writes
<1>5. CASE x \in Transforms /\ ~err
  <2>1. /\ Push(x, st[x].writing, <<Place("transformed", x)>> \o Under)
        /\ upsets' = upsets /\ wLen' = wLen
    BY <1>5 DEF WriteNow
  <2>2. Pushes(x, st[x].writing, <<Place("transformed", x)>>, Under)
    BY <2>1 DEF Push, Pushes, Call, Tick
  <2>3. PICK c, t : c = st[x].writing /\ t = Place("transformed", x)
    OBVIOUS
  <2>4. Pushes(x, c, <<t>>, Under)
    BY <2>2, <2>3
  <2> QED
    BY <1>2, <1>3, <1>4, <1>5, <2>1, <2>3, <2>4, TransformPushes
<1>6. CASE ~(x \in Transforms /\ ~err)
  <2>1. Done(x, err, Under)
    BY <1>6 DEF WriteNow
  <2>2. Leaves(x, Under)
    BY <1>1, <1>2, <1>4, WritesLeave
  <2>3. err \/ app.pipes[x] = <<>>
    BY <1>1, <1>2, <1>6, NoPipes
  <2> QED
    BY <1>1, <1>2, <1>3, <2>1, <2>2, <2>3, DoneKeeps
<1> QED
  BY <1>5, <1>6

(* ... or later,                                                           *)
LEMMA WriteCallsBackKeeps ==
  ASSUME Inv, NEW x \in Streams, NEW err \in BOOLEAN, WriteCallsBack(x, err)
  PROVE  Inv'
<1>1. /\ stack = <<>> /\ st[x].writing # None
      /\ UNCHANGED <<app, asked, final, settled, iter, produced, got, evs>>
  BY DEF WriteCallsBack
<1>2. Writes(x, <<>>)
  BY <1>1 DEF Writes
<1>3. CASE x \in Transforms /\ ~err
  <2>1. PICK c, t : c = st[x].writing /\ t = Place("transformed", x)
    OBVIOUS
  <2>2. Push(x, c, <<t>>) /\ upsets' = upsets /\ wLen' = wLen
    BY <1>3, <2>1 DEF WriteCallsBack
  <2>3. <<t>> = <<t>> \o <<>>
    OBVIOUS
  <2>4. Pushes(x, c, <<t>>, <<>>)
    BY <2>2, <2>3 DEF Push, Pushes, Call, Tick
  <2> QED
    BY <1>1, <1>2, <1>3, <2>1, <2>2, <2>4, TransformPushes
<1>4. CASE ~(x \in Transforms /\ ~err)
  <2>1. Done(x, err, <<>>)
    BY <1>4 DEF WriteCallsBack
  <2>2. Leaves(x, <<>>)
    BY <1>1, <1>2, WritesLeave
  <2>3. err \/ app.pipes[x] = <<>>
    BY <1>1, <1>4, NoPipes
  <2> QED
    BY <1>1, <2>1, <2>2, <2>3, DoneKeeps
<1> QED
  BY <1>3, <1>4

(* ... once the chunk is pushed on,                                        *)
LEMMA TransformedKeeps ==
  ASSUME Inv, Transformed
  PROVE  Inv'
<1> SUFFICES ASSUME NEW x, NEW h, x = Self, h = Head(stack)
             PROVE  Inv'
  OBVIOUS
<1>1. /\ stack # <<>> /\ h.at = "transformed" /\ x \in Streams /\ FrameOK(h)
      /\ Under \in Seq(FramesOf(Chunk)) /\ Ordered(Depth, Under) /\ h.of = x
      /\ Calls = {h} \cup Range(Under)
  BY AtFlow DEF Transformed, Flow, Self
<1>2. st[x].writing # None
  BY <1>1 DEF FrameOK
<1>3. /\ UNCHANGED <<app, asked, final, settled, iter, produced, got, evs>>
      /\ Done(x, FALSE, Under)
  BY DEF Transformed
<1>4. \A g \in Range(Under) : g.at \in Flow => g.of # x
  BY <1>1, Unique DEF Inv, Flow
<1>5. Passing(x) /\ ~In(x)
  BY <1>1, <1>4 DEF Passing, In, Flow
<1>6. Leaves(x, Under)
  <2>1. Taken(x) = Len(got[x]) /\ got \in [Streams -> Seq(Chunk)]
    BY <1>5 DEF Taken, Inv, Structure, Typed
  <2>2. \A i \in 1..Len(got[x]) : got[x][i] = i
    BY <1>1 DEF Inv, Account, Written1
  <2> QED
    BY <1>1, <1>3, <1>4, <2>1, <2>2 DEF Leaves
<1> QED
  BY <1>1, <1>2, <1>3, <1>5, <1>6, DoneKeeps

(* ... and keeps the callback until then.                                  *)
LEMMA WriteLaterKeeps ==
  ASSUME Inv, WriteLater
  PROVE  Inv'
<1> SUFFICES ASSUME NEW x, x = Self
             PROVE  Inv'
  OBVIOUS
<1>1. /\ stack # <<>> /\ Head(stack).at = "write" /\ x \in Streams /\ FrameOK(Head(stack))
      /\ Under \in Seq(FramesOf(Chunk)) /\ Structure /\ Typed
  BY AtFlow DEF WriteLater, Flow, Inv, Structure
<1>2. st[x].writing # None
  BY <1>1 DEF FrameOK, Self
<1>3. /\ UNCHANGED <<app, wLen, st, ticks, asked, final, settled, iter, produced, evs, upsets>>
      /\ got' = [got EXCEPT ![x] = Append(got[x], st[x].writing)] /\ stack' = <<>> \o Under
  BY <1>1 DEF WriteLater, Call
<1>4. Writes(x, Under)
  BY <1>1, <1>3 DEF Writes
<1>5. Leaves(x, Under) /\ stack' = Under
  BY <1>1, <1>2, <1>3, <1>4, WritesLeave
<1>6. Len(got'[x]) = Taken(x) /\ st[x].writing = Taken(x) /\ ~Passing(x)
  BY <1>1, <1>2, <1>4, WritesOut
<1>7. x # Source /\ Source \in Streams /\ ~st[x].finalCalled
  BY <1>1, <1>2, StreamsAssumption DEF Inv, Structure, Plain, Ended, Over
<1>8. Onward /\ Chunk' = Chunk
  <2>1. got' \in [Streams -> Seq(Chunk)]
    BY <1>5 DEF Leaves
  <2> QED
    BY <1>1, <1>3, <2>1, OnwardSame DEF Typed
<1>9. FieldsKept
  <2>1. \A s \in Streams : Kept(s, st[s], st[s])
    BY <1>1 DEF Kept, Structure, Plain
  <2>2. st' \in [Streams -> FieldsOf(Chunk')]
    BY <1>1, <1>3, <1>8 DEF Typed
  <2> QED
    BY <1>3, <2>1, <2>2 DEF FieldsKept
<1>10. Structure' /\ Calls' = Range(Under)
  <2>1. FramesKept(<<>>, Under)
    BY <1>1, <1>3, <1>5, FramesLeft
  <2>2. Structure' /\ Calls' = Range(<<>>) \cup Range(Under)
    BY <1>1, <1>3, <1>8, <1>9, <2>1, TicksStay, StructureStep
  <2> QED
    BY <2>2, RangeFew
<1>11. /\ \A s, d : Offers(s, d)' = Offers(s, d)
       /\ \A s : Pausing(s)' <=> Pausing(s)
       /\ \A s : s # x => (In(s)' <=> In(s)) /\ (Passing(s)' <=> Passing(s))
       /\ ~In(x)' /\ ~Passing(x)' /\ Taken(x)' = Taken(x)
  BY <1>1, <1>5, <1>10, LeavesFrames
<1>12. Elsewhere(x)
  BY <1>3, <1>5, <1>11 DEF Elsewhere, Leaves, DrainTick
<1>13. Accepted(x)' = Accepted(x) /\ wLen'[x] = wLen[x] /\ wLen[x] \in Nat
  BY <1>1, <1>3, <1>11, Numbers DEF Accepted
<1>14. Written1(x)'
  <2>1. \A i \in 1..Len(st[x].queue) : st[x].queue[i] = Taken(x) + i
    BY <1>1 DEF Inv, Account, Written1
  <2>2. Measured(x)'
    <3>1. Past(x)' = Past(x) /\ Measured(x)
      BY <1>1, <1>3, <1>11 DEF Past, Inv, Account, Written1
    <3> QED
      BY <1>3, <1>13, <3>1, MeasureKept
  <2> QED
    BY <1>3, <1>5, <1>6, <1>11, <2>1, <2>2 DEF Written1, Leaves
<1>15. WriteSide(x)
  BY <1>3, <1>11, <1>13 DEF WriteSide, DrainTick
<1>16. ReadSide(x)
  <2>1. Given(x)' = Given(x)
    BY <1>2, <1>3, <1>6, <1>7, <1>11 DEF Given
  <2> QED
    BY <1>3, <1>11, <2>1 DEF ReadSide, Exact
<1>17. Over(x)'
  BY <1>1, <1>3, <1>7, <1>13, OverOne DEF Inv, Ended, Over
<1>18. Here(x)
  <2>1. /\ \A s \in Streams :
              x \in Range(app.pipes[s]) => Link(s, x)' /\ (Only(s, x) => Pressure(s, x)')
        /\ wLen'[x] >= app.hwm => st'[x].needDrain
    BY <1>1, <1>12, <1>15, WriteSideKept
  <2>2. \A d \in Range(app.pipes[x]) : Link(x, d)' /\ (Only(x, d) => Pressure(x, d)')
    BY <1>1, <1>12, <1>16, ReadSideKept
  <2> QED
    BY <1>3, <1>14, <1>17, <2>1, <2>2 DEF Here
<1>19. Iterated'
  <2>1. got'[Source] = got[Source]
    BY <1>5, <1>7 DEF Leaves
  <2> QED
    BY <1>3, <2>1, IteratedKept
<1>20. Account' /\ Ended' /\ Pressed'
  BY <1>1, <1>12, <1>18, <1>19, ElsewhereKeeps
<1> QED
  BY <1>10, <1>20 DEF Inv
-----------------------------------------------------------------------------
(* The async iterator takes a chunk from the source's buffer.              *)
LEMMA TriedPops ==
  ASSUME Inv, Tried, st[Source].buf # <<>>
  PROVE  Inv'
<1> SUFFICES ASSUME NEW x, NEW k, NEW b, NEW c, x = Source, k = st[x], b = k.buf, c = Head(b)
             PROVE  Inv'
  OBVIOUS
<1> DEFINE t == Tail(b)  g == [k EXCEPT !.buf = t]  a == Append(got[x], c)
<1>1. /\ stack # <<>> /\ Head(stack).at = "tried" /\ x \in Streams /\ Structure /\ Typed
      /\ k \in FieldsOf(Chunk) /\ b \in Seq(Chunk) /\ FrameOK(Head(stack))
      /\ got[x] \in Seq(Chunk) /\ Len(got[x]) \in Nat /\ Freed(Under)
  <2>1. stack # <<>> /\ Head(stack).at = "tried" /\ Structure /\ Typed /\ x \in Streams
    BY StreamsAssumption DEF Tried, At, Inv, Structure
  <2>2. FrameOK(Head(stack))
    BY <2>1, Top
  <2> QED
    BY <2>1, <2>2, Numbers DEF Freed, Flow
<1>2. /\ UNCHANGED <<app, wLen, ticks, asked, final, settled, produced, evs, upsets>>
      /\ iter' = "idle" /\ stack' = <<>> \o Under /\ st' = [st EXCEPT ![x] = g]
      /\ got' = [got EXCEPT ![x] = a]
  BY DEF Tried, Call
<1>3. /\ t \in Seq(Chunk) /\ c \in Chunk /\ Len(b) \in Nat /\ Len(t) = Len(b) - 1 /\ Len(b) >= 1
      /\ c = b[1] /\ \A i \in 1..Len(t) : t[i] = b[i + 1] /\ i + 1 \in 1..Len(b)
  BY <1>1
<1>4. /\ a \in Seq(Chunk) /\ Len(a) = Len(got[x]) + 1 /\ a[Len(got[x]) + 1] = c
      /\ \A i \in 1..Len(got[x]) : a[i] = got[x][i]
  BY <1>1, <1>3
<1>5. Kept(x, k, k)
  BY <1>1 DEF Kept, Structure, Plain
<1>6. app.consumer = "iterate" /\ app.pipes[x] = <<>>
  BY <1>1, Pipes DEF FrameOK
<1> HIDE DEF t, g, a
<1>7. /\ g \in FieldsOf(Chunk) /\ g.buf = t /\ g.flowing = k.flowing /\ g.queue = k.queue
      /\ g.writing = k.writing /\ g.destroyed = k.destroyed /\ g.emittedEnd = k.emittedEnd
      /\ g.ended = k.ended /\ g.wEnded = k.wEnded /\ g.finalCalled = k.finalCalled
      /\ g.needDrain = k.needDrain
  BY <1>1, <1>3, SetBuf DEF g
<1>8. /\ got'[x] = a /\ (\A s \in Streams \ {x} : got'[s] = got[s])
      /\ got' \in [Streams -> Seq(Chunk)]
  BY <1>1, <1>2, <1>4 DEF Typed
<1>9. Onward /\ Chunk' = Chunk
  <2>1. Chunk' = Chunk /\ produced \in Nat
    BY <1>1, <1>2, Pipes DEF Chunk
  <2> QED
    BY <1>1, <1>2, <1>8, <2>1 DEF Onward, Typed
<1>10. FieldsKept /\ st'[x] = g /\ \A s \in Streams \ {x} : st'[s] = st[s]
  <2>1. Kept(x, k, g)
    BY <1>5, <1>7 DEF Kept
  <2> QED
    BY <1>1, <1>2, <1>7, <1>9, <2>1, OneKept
<1>11. /\ \A e \in Calls : e.at \notin Flow
       /\ \A s, d : Offers(s, d) = {} /\ ~Handing(s, d)
       /\ \A e : ~In(e) /\ ~Passing(e) /\ ~Pausing(e)
  <2>1. \A e \in Calls : e.at \notin Flow
    BY <1>1, NoFlow DEF Flow
  <2> QED
    BY <2>1, Silent
<1>12. Structure' /\ Calls' = Range(Under) /\ Range(Under) \subseteq Calls
  <2>1. /\ Under \in Seq(FramesOf(Chunk)) /\ Range(Under) \subseteq Calls
        /\ Ordered(Depth, Under)
    BY <1>1, Top
  <2>2. <<>> \in Seq(FramesOf(Chunk'))
    OBVIOUS
  <2>3. \A e \in Range(Under) : e.at \notin {"write", "transformed"}
    BY <1>11, <2>1 DEF Flow
  <2>4. FramesKept(<<>>, Under)
    BY <1>2, <2>1, <2>2, <2>3, RangeFew, OrderedFew DEF FramesKept
  <2>5. Structure' /\ Calls' = Range(<<>>) \cup Range(Under)
    BY <1>1, <1>2, <1>9, <1>10, <2>4, TicksStay, StructureStep
  <2> QED
    BY <2>1, <2>5, RangeFew
<1>13. /\ \A s, d : Offers(s, d)' = {}
       /\ \A e : ~In(e)' /\ ~Passing(e)' /\ ~Pausing(e)'
  <2>1. \A e \in Calls' : e.at \notin Flow
    BY <1>11, <1>12
  <2>2. ASSUME NEW s, NEW d PROVE Offers(s, d)' = {}
    BY <2>1 DEF Offers, Flow
  <2>3. ASSUME NEW e PROVE ~In(e)' /\ ~Passing(e)' /\ ~Pausing(e)'
    BY <2>1 DEF In, Passing, Pausing, Flow
  <2> QED
    BY <2>2, <2>3
<1>14. Elsewhere(x)
  BY <1>2, <1>8, <1>10, <1>11, <1>13 DEF Elsewhere, DrainTick
<1>15. /\ k.writing = None /\ k.queue = <<>> /\ ~k.wEnded /\ ~k.finalCalled
  BY <1>1 DEF Structure, Plain
<1>16. /\ \A i \in 1..Len(b) : b[i] = Len(got[x]) + i
       /\ Len(got[x]) + Len(b) = produced
  BY <1>6 DEF Inv, Account, Iterated
<1>17. Written1(x)'
  <2>1. \A i \in 1..Len(got[x]) : got[x][i] = i
    BY <1>1 DEF Inv, Account, Written1
  <2>2. c = Len(got[x]) + 1
    BY <1>3, <1>16
  <2>3. ASSUME NEW i \in 1..Len(a) PROVE a[i] = i
    <3>1. CASE i \in 1..Len(got[x])
      BY <1>4, <2>1, <3>1
    <3>2. CASE i = Len(got[x]) + 1
      BY <1>4, <2>2, <3>2
    <3> QED
      BY <1>1, <1>4, <2>3, <3>1, <3>2
  <2>4. st'[x].queue = <<>> /\ st'[x].writing = None /\ Len(st'[x].queue) = 0
    BY <1>7, <1>10, <1>15
  <2>5. Measured(x)'
    <3>1. PICK n : n = Len(a)
      OBVIOUS
    <3>2. n \in Nat /\ Taken(x)' = n /\ Accepted(x)' = n + 0 /\ Past(x)' = n
      BY <1>1, <1>4, <1>8, <1>13, <2>4, <3>1 DEF Taken, Accepted, Past
    <3>3. Accepted(x)' = n
      BY <3>2
    <3>4. wLen[x] = 0
      BY <1>1, <1>15, NothingHeld
    <3>5. x \notin Transforms
      BY StreamsAssumption
    <3> QED
      BY <1>2, <3>2, <3>3, <3>4, <3>5 DEF Measured, Counted
  <2> QED
    BY <1>8, <1>13, <2>3, <2>4, <2>5 DEF Written1
<1>18. Over(x)'
  <2>1. ~k.emittedEnd
    BY <1>1 DEF Inv, Ended, Over
  <2> QED
    BY <1>1, <1>2, <1>7, <1>10, <1>15, <2>1, OverOne
<1>19. Here(x)
  <2>1. \A s \in Streams : x \notin Range(app.pipes[s])
    BY <1>1, Pipes
  <2>2. Range(app.pipes[x]) = {}
    BY <1>6, RangeFew
  <2>3. wLen'[x] = wLen[x] /\ (wLen[x] >= app.hwm => st[x].needDrain)
    BY <1>1, <1>2 DEF Inv, Pressed
  <2> QED
    BY <1>7, <1>10, <1>17, <1>18, <2>1, <2>2, <2>3 DEF Here
<1>20. Iterated'
  <2> DEFINE n == Len(got[x])  m == Len(a)  p == Len(b)  q == Len(t)
  <2>0. /\ n \in Nat /\ m = n + 1 /\ p \in Nat /\ q = p - 1 /\ p >= 1 /\ n + p = produced
        /\ \A i \in 1..p : b[i] = n + i
        /\ \A i \in 1..q : t[i] = b[i + 1] /\ i + 1 \in 1..p
    BY <1>1, <1>3, <1>4, <1>16
  <2> HIDE DEF n, m, p, q
  <2>1. ASSUME NEW i \in 1..q PROVE t[i] = m + i
    <3>1. t[i] = b[i + 1] /\ i + 1 \in 1..p /\ i \in Nat
      BY <2>0, <2>1
    <3>2. b[i + 1] = n + (i + 1)
      BY <2>0, <3>1
    <3>3. n + (i + 1) = m + i
      BY <2>0, <3>1
    <3> QED
      BY <3>1, <3>2, <3>3
  <2>2. m + q = produced
    BY <2>0
  <2>3. /\ st'[Source].buf = t /\ got'[Source] = a /\ produced' = produced
    BY <1>2, <1>7, <1>8, <1>10
  <2> QED
    BY <2>1, <2>2, <2>3 DEF Iterated, m, q
<1>21. Account' /\ Ended' /\ Pressed'
  BY <1>1, <1>14, <1>19, <1>20, ElsewhereKeeps
<1> QED
  BY <1>12, <1>21 DEF Inv
-----------------------------------------------------------------------------
(* write(c): the chunk is queued, and an idle writable side starts on its  *)
(* oldest one.                                                             *)
LEMMA Appended ==
  ASSUME NEW S, NEW a \in Seq(S), NEW e \in S, NEW q, q = Append(a, e)
  PROVE  /\ q \in Seq(S) /\ q # <<>> /\ Len(q) = Len(a) + 1 /\ q[Len(a) + 1] = e
         /\ \A i \in 1..Len(a) : q[i] = a[i]
OBVIOUS

(* What starting on the oldest chunk sets.                                 *)
LEMMA ProcessStarts ==
  ASSUME NEW C, NEW f \in FieldsOf(C), NEW d, Starts(f), NEW g, g = ProcessWrites(d, f)
  PROVE  /\ g \in FieldsOf(C) /\ g.writing = Head(f.queue) /\ g.queue = Tail(f.queue)
         /\ g.writing \in C
         /\ g.buf = f.buf /\ g.flowing = f.flowing /\ g.needDrain = f.needDrain
         /\ g.destroyed = f.destroyed /\ g.emittedEnd = f.emittedEnd /\ g.ended = f.ended
         /\ g.wEnded = f.wEnded /\ g.finalCalled = f.finalCalled
<1>1. f.queue \in Seq(C) /\ f.queue # <<>> /\ ~Idles(f)
  BY DEF FieldsOf, Starts, Idles
<1>2. PICK w, q : w = Head(f.queue) /\ q = Tail(f.queue)
  OBVIOUS
<1>3. w \in C /\ q \in Seq(C)
  BY <1>1, <1>2
<1>4. PICK h : h = [f EXCEPT !.writing = w, !.queue = q]
  OBVIOUS
<1>5. g = h
  BY <1>1, <1>2, <1>4 DEF ProcessWrites, StartWrite, Finalizes, Drains
<1>6. /\ h \in FieldsOf(C) /\ h.writing = w /\ h.queue = q
      /\ h.buf = f.buf /\ h.flowing = f.flowing /\ h.needDrain = f.needDrain
      /\ h.destroyed = f.destroyed /\ h.emittedEnd = f.emittedEnd /\ h.ended = f.ended
      /\ h.wEnded = f.wEnded /\ h.finalCalled = f.finalCalled
  BY <1>3, <1>4 DEF FieldsOf
<1> QED
  BY <1>2, <1>3, <1>5, <1>6

(* The frame of a write that starts.                                       *)
LEMMA StartFrames ==
  ASSUME NEW f, NEW d, Starts(f)
  PROVE  ProcessFrames(d, f) = <<Place("write", d)>> /\ ProcessTicks(d, f) = <<>>
<1>1. ~Idles(f)
  BY DEF Starts, Idles
<1> QED
  BY <1>1 DEF ProcessFrames, ProcessTicks, Finalizes, Drains

(* Nothing to do.                                                          *)
LEMMA ProcessRests ==
  ASSUME NEW f, NEW d, ~Starts(f), ~Finalizes(f), ~Drains(f)
  PROVE  /\ ProcessWrites(d, f) = f
         /\ ProcessFrames(d, f) = <<>> /\ ProcessTicks(d, f) = <<>>
BY DEF ProcessWrites, ProcessFrames, ProcessTicks

(* The frames of write(), below them the rest of the listeners.            *)
Carried(s, d, e, r, w, P, G) ==
  /\ e \in FramesOf(Chunk) /\ e.at = "emit" /\ e.of = s /\ FrameOK(e)'
  /\ r \in FramesOf(Chunk) /\ r.at = "wrote" /\ r.of = s
  /\ w \in FramesOf(Chunk) /\ w.at = "write" /\ w.of = d
  /\ P \in Seq(FramesOf(Chunk)) /\ Ordered(Depth, P) /\ Range(P) \subseteq {w}
  /\ G \in Seq(FramesOf(Chunk)) /\ Ordered(Depth, G) /\ Range(G) = {r, e}
  /\ st'[d].writing # None /\ \A x \in Streams \ {d} : st'[x] = st[x]
  /\ stack' = (P \o G) \o Under

(* Those frames are in order.                                              *)
LEMMA WriteFrames ==
  ASSUME Inv, Onward, Chunk' = Chunk, NEW s \in Streams, NEW d \in Range(app.pipes[s]),
         stack # <<>>, Head(stack).at = "emit", Self = s,
         NEW e, NEW r, NEW w, NEW P, NEW G, Carried(s, d, e, r, w, P, G)
  PROVE  FramesKept(P \o G, Under) /\ Range(P \o G) = Range(P) \cup {r, e}
<1>0. PICK F : F = P \o G
  OBVIOUS
<1>a. /\ e \in FramesOf(Chunk) /\ e.at = "emit" /\ e.of = s /\ FrameOK(e)'
      /\ r \in FramesOf(Chunk) /\ r.at = "wrote" /\ r.of = s
      /\ w \in FramesOf(Chunk) /\ w.at = "write" /\ w.of = d
  BY DEF Carried
<1>b. /\ P \in Seq(FramesOf(Chunk)) /\ Ordered(Depth, P) /\ Range(P) \subseteq {w}
      /\ G \in Seq(FramesOf(Chunk)) /\ Ordered(Depth, G) /\ Range(G) = {r, e}
  BY DEF Carried
<1>c. st'[d].writing # None /\ \A x \in Streams \ {d} : st'[x] = st[x]
  BY DEF Carried
<1>d. stack' = F \o Under
  BY <1>0 DEF Carried
<1> DEFINE h == Head(stack)
<1>1. /\ h.at = "emit" /\ h.of = s /\ Structure /\ Typed
      /\ Calls = {h} \cup Range(Under)
      /\ Under \in Seq(FramesOf(Chunk)) /\ Ordered(Depth, Under)
      /\ \A b \in Range(Under) : Above(Depth, h, b)
  BY Top DEF Self, Inv, Structure
<1> HIDE DEF h
<1>2. d \in Streams
  BY <1>1, Pipes
<1>5. FrameOK(r)' /\ FrameOK(w)'
  <2>1. FrameOK(r)'
    BY <1>a DEF FrameOK
  <2>2. FrameOK(w)'
    BY <1>a, <1>c DEF FrameOK
  <2> QED
    BY <2>1, <2>2
<1> DEFINE n == Depth[s]  m == Depth[d]
<1>6. n \in Nat /\ m \in Nat /\ n < m
  BY <1>1, <1>2, DepthFacts
<1>7. /\ Level(Depth, e) = 3 * n + 1 /\ Level(Depth, h) = 3 * n + 1
      /\ Level(Depth, r) = 3 * n + 2 /\ Level(Depth, w) = 3 * m
  BY <1>1, <1>6, <1>a DEF Level
<1> HIDE DEF n, m
<1>8. Above(Depth, r, e) /\ Above(Depth, w, r) /\ Above(Depth, w, e)
  <2>1. 3 * n + 1 < 3 * n + 2 /\ 3 * n + 2 < 3 * m /\ 3 * n + 1 < 3 * m
    BY <1>6
  <2> QED
    BY <1>7, <1>a, <2>1 DEF Above, Flow
<1>9. \A b \in Range(Under) : Above(Depth, e, b)
  BY <1>1, <1>a, AboveLike
<1>10. \A b \in Range(Under) : Above(Depth, r, b) /\ Above(Depth, w, b)
  <2>1. ASSUME NEW b \in Range(Under), b.at \in Flow
        PROVE  Level(Depth, b) < 3 * n + 2 /\ Level(Depth, b) < 3 * m
    <3> DEFINE v == Level(Depth, b)
    <3>1. v < 3 * n + 1
      BY <1>1, <1>7, <2>1 DEF Above
    <3>2. v \in Nat
      <4>1. b \in FramesOf(Chunk)
        BY <1>1, <2>1, InRange
      <4>2. b.of \in Streams
        BY <4>1 DEF FramesOf
      <4>3. Depth[b.of] \in Nat
        BY <1>1, <4>2, DepthFacts
      <4> QED
        BY <4>3 DEF Level
    <3> HIDE DEF v
    <3>3. v < 3 * n + 2 /\ v < 3 * m
      BY <1>6, <3>1, <3>2
    <3> QED
      BY <3>3 DEF v
  <2> QED
    BY <1>7, <1>a, <2>1 DEF Above, Flow
<1>14. F \in Seq(FramesOf(Chunk')) /\ Range(F) = Range(P) \cup {r, e}
  BY <1>0, <1>b, RangeConcat
<1>15. Ordered(Depth, F)
  <2>1. \A a \in Range(P), b \in Range(G) : Above(Depth, a, b)
    BY <1>8, <1>b
  <2> QED
    BY <1>0, <1>b, <2>1, OrderedConcat
<1>17. FramesKept(F, Under)
  <2>1. ASSUME NEW b \in Range(Under), b.at \in {"write", "transformed"}
        PROVE  st'[b.of].writing # None
    <3>1. b.of \in Streams /\ st[b.of].writing # None
      BY <1>1, <2>1, WritingBelow
    <3> QED
      BY <1>c, <3>1
  <2>2. \A a \in Range(F), b \in Range(Under) : Above(Depth, a, b)
    BY <1>9, <1>10, <1>14, <1>b
  <2>3. \A a \in Range(F) : FrameOK(a)'
    <3>1. ASSUME NEW a \in Range(F) PROVE FrameOK(a)'
      <4>1. a = w \/ a = r \/ a = e
        BY <1>14, <1>b
      <4>2. CASE a = w
        BY <1>5, <4>2
      <4>3. CASE a = r
        BY <1>5, <4>3
      <4>4. CASE a = e
        BY <1>a, <4>4
      <4> QED
        BY <4>1, <4>2, <4>3, <4>4
    <3> QED
      BY <3>1
  <2>4. Range(Under) \subseteq Calls
    BY <1>1
  <2> QED
    BY <1>1, <1>14, <1>15, <1>d, <2>1, <2>2, <2>3, <2>4 DEF FramesKept
<1> QED
  BY <1>0, <1>14, <1>17

(* write() accepts the chunk.                                              *)
LEMMA EmitDataWrites ==
  ASSUME Inv, EmitData, Rest # <<>>, ~(st[Head(Rest)].wEnded \/ st[Head(Rest)].destroyed)
  PROVE  Inv'
<1> SUFFICES ASSUME NEW s, NEW d, NEW c, s = Self, d = Head(Rest), c = Head(stack).chunk
             PROVE  Inv'
  OBVIOUS
<1>d. PICK u : u = Weight(d, c)
  OBVIOUS
<1>0. PICK h, e, ok, r, w, k, q, f, g, P :
        /\ h = Head(stack) /\ e = Emission(s, c, Tail(Rest))
        /\ ok = (wLen[d] + u < app.hwm) /\ r = Frame("wrote", s, None, <<>>, ok)
        /\ w = Place("write", d) /\ k = st[d] /\ q = Append(k.queue, c)
        /\ f = [k EXCEPT !.queue = q, !.needDrain = k.needDrain \/ ~ok]
        /\ g = ProcessWrites(d, f) /\ P = ProcessFrames(d, f)
  OBVIOUS
<1>1. /\ stack # <<>> /\ h.at = "emit" /\ h.of = s /\ s \in Streams
      /\ Calls = {h} \cup Range(Under) /\ Structure /\ Typed /\ At("emit")
      /\ Head(stack).at = "emit" /\ Under \in Seq(FramesOf(Chunk))
  BY <1>0, AtFlow DEF EmitData, Flow, Self, Inv, Structure
<1>2. /\ UNCHANGED <<app, asked, final, settled, iter, produced, got, evs, upsets>>
      /\ wLen' = [wLen EXCEPT ![d] = wLen[d] + u]
      /\ ticks' = ticks \o ProcessTicks(d, f) /\ st' = [st EXCEPT ![d] = g]
      /\ stack' = (P \o <<r>> \o <<e>>) \o Under
  BY <1>0, <1>d DEF EmitData, Call, Tick, Written
<1>3. /\ d \in Range(app.pipes[s]) /\ d \in Streams /\ d # Source /\ d # s /\ c \in Chunk
      /\ e \in FramesOf(Chunk) /\ e.at = "emit" /\ e.of = s /\ e.chunk = c
      /\ Range(e.to) \subseteq Range(app.pipes[s])
      /\ \A i, j \in 1..Len(e.to) : e.to[i] = e.to[j] => i = j
  BY <1>0, <1>1, Onwards, SMTT(30)
<1>4. /\ k \in FieldsOf(Chunk) /\ k.queue \in Seq(Chunk) /\ ~k.wEnded /\ ~k.destroyed
      /\ None \notin Chunk /\ wLen[d] \in Nat /\ app.hwm \in Nat /\ Taken(d) \in Nat
      /\ Accepted(d) \in Nat /\ Len(k.queue) \in Nat /\ Len(got[d]) \in Nat /\ u \in Nat
  <2>1. None \notin Chunk
    <3>1. app.chunks \in 0..Chunks /\ produced \in 0..app.chunks /\ Chunks \in Nat
      BY <1>1, Pipes, StreamsAssumption DEF Typed
    <3>2. Chunk \subseteq 1..Chunks
      BY <3>1 DEF Chunk
    <3> QED
      BY <3>2, StreamsAssumption
  <2>2. u \in Nat
    BY <1>1, <1>3, <1>d, Weighs
  <2> QED
    BY <1>0, <1>1, <1>3, <2>1, <2>2, Numbers
<1>b. /\ wLen'[d] = wLen[d] + u /\ wLen' \in [Streams -> Nat]
      /\ \A x \in Streams \ {d} : wLen'[x] = wLen[x]
  <2>1. PICK v : v = wLen[d] + u
    OBVIOUS
  <2>2. v \in Nat /\ wLen' = [wLen EXCEPT ![d] = v]
    BY <1>2, <1>4, <2>1
  <2>4. wLen \in [Streams -> Nat]
    BY <1>1 DEF Typed
  <2>3. /\ wLen'[d] = v /\ wLen' \in [Streams -> Nat]
        /\ \A x \in Streams \ {d} : wLen'[x] = wLen[x]
    BY <1>3, <2>2, <2>4
  <2> QED
    BY <2>1, <2>3
<1>5. /\ r \in FramesOf(Chunk) /\ r.at = "wrote" /\ r.of = s /\ (r.ok <=> wLen[d] + u < app.hwm)
  <2>1. <<>> \in Seq(Streams) /\ "wrote" \in Places /\ ok \in BOOLEAN
    BY <1>0, <1>4 DEF Places
  <2>2. r = [at |-> "wrote", of |-> s, chunk |-> None, to |-> <<>>, ok |-> ok]
    BY <1>0 DEF Frame
  <2>3. r \in FramesOf(Chunk)
    BY <1>1, <2>1, <2>2 DEF FramesOf
  <2>4. r.ok = ok
    BY <2>2
  <2>5. r.at = "wrote" /\ r.of = s
    BY <2>2
  <2>6. ok <=> wLen[d] + u < app.hwm
    BY <1>0
  <2> QED
    BY <2>3, <2>4, <2>5, <2>6
<1>a. k = st[d] /\ (ok <=> wLen[d] + u < app.hwm)
  BY <1>0
<1>6. w \in FramesOf(Chunk) /\ w.at = "write" /\ w.of = d
  <2>1. "write" \in Places
    BY DEF Places
  <2> QED
    BY <1>0, <1>3, <2>1, PlaceIn
<1>7. /\ q \in Seq(Chunk) /\ q # <<>> /\ Len(q) = Len(k.queue) + 1
      /\ q[Len(k.queue) + 1] = c /\ \A i \in 1..Len(k.queue) : q[i] = k.queue[i]
  <2>1. q = Append(k.queue, c)
    BY <1>0
  <2>2. k.queue \in Seq(Chunk) /\ c \in Chunk
    BY <1>3, <1>4
  <2> QED
    BY <2>1, <2>2, Appended
<1>8. /\ f \in FieldsOf(Chunk) /\ f.queue = q /\ (f.needDrain <=> k.needDrain \/ ~ok)
      /\ f.buf = k.buf /\ f.flowing = k.flowing /\ f.writing = k.writing
      /\ f.destroyed = k.destroyed /\ f.emittedEnd = k.emittedEnd /\ f.ended = k.ended
      /\ f.wEnded = k.wEnded /\ f.finalCalled = k.finalCalled
  <2>1. PICK n : n = (k.needDrain \/ ~ok)
    OBVIOUS
  <2>2. n \in BOOLEAN
    BY <2>1
  <2>3. f = [k EXCEPT !.queue = q, !.needDrain = n]
    BY <1>0, <2>1
  <2>4. /\ f \in FieldsOf(Chunk) /\ f.queue = q /\ f.needDrain = n
        /\ f.buf = k.buf /\ f.flowing = k.flowing /\ f.writing = k.writing
        /\ f.destroyed = k.destroyed /\ f.emittedEnd = k.emittedEnd /\ f.ended = k.ended
        /\ f.wEnded = k.wEnded /\ f.finalCalled = k.finalCalled
    BY <1>4, <1>7, <2>2, <2>3 DEF FieldsOf
  <2> QED
    BY <2>1, <2>4
<1>9. /\ g \in FieldsOf(Chunk) /\ g.buf = k.buf /\ g.flowing = k.flowing
      /\ g.destroyed = k.destroyed /\ g.emittedEnd = k.emittedEnd /\ g.ended = k.ended
      /\ g.wEnded = k.wEnded /\ g.finalCalled = k.finalCalled
      /\ (g.needDrain <=> k.needDrain \/ ~ok)
      /\ k.writing = None => /\ g.writing = Head(q) /\ g.queue = Tail(q) /\ P = <<w>>
      /\ k.writing # None => /\ g.writing = k.writing /\ g.queue = q /\ P = <<>>
      /\ g.writing # None /\ ProcessTicks(d, f) = <<>>
  <2>1. CASE k.writing = None
    <3>1. Starts(f)
      BY <1>4, <1>7, <1>8, <2>1 DEF Starts
    <3>2. /\ g \in FieldsOf(Chunk) /\ g.writing = Head(f.queue) /\ g.queue = Tail(f.queue)
          /\ g.writing \in Chunk
          /\ g.buf = f.buf /\ g.flowing = f.flowing /\ g.needDrain = f.needDrain
          /\ g.destroyed = f.destroyed /\ g.emittedEnd = f.emittedEnd /\ g.ended = f.ended
          /\ g.wEnded = f.wEnded /\ g.finalCalled = f.finalCalled
      <4>1. g = ProcessWrites(d, f) /\ f \in FieldsOf(Chunk)
        BY <1>0, <1>8
      <4> QED
        BY <3>1, <4>1, ProcessStarts
    <3>3. P = <<w>> /\ ProcessTicks(d, f) = <<>>
      BY <1>0, <3>1, StartFrames
    <3> QED
      BY <1>4, <1>8, <2>1, <3>2, <3>3
  <2>2. CASE k.writing # None
    <3>1. ~Starts(f) /\ ~Finalizes(f) /\ ~Drains(f)
      BY <1>8, <2>2 DEF Starts, Finalizes, Drains, Idles
    <3>2. g = f /\ P = <<>> /\ ProcessTicks(d, f) = <<>>
      BY <1>0, <3>1, ProcessRests
    <3> QED
      BY <1>8, <2>2, <3>2
  <2> QED
    BY <2>1, <2>2
<1>10. Onward /\ Chunk' = Chunk
  BY <1>2, <1>b, OnwardSame DEF Inv, Structure, Typed
<1>11. FieldsKept /\ st'[d] = g /\ \A x \in Streams \ {d} : st'[x] = st[x]
  <2>1. Kept(d, k, g)
    <3>1. Kept(d, k, k)
      BY <1>a, <1>1, <1>3 DEF Kept, Structure, Plain
    <3> QED
      BY <1>3, <1>9, <3>1 DEF Kept
  <2> QED
    BY <1>a, <1>2, <1>3, <1>9, <1>10, <2>1, OneKept
<1>12. ticks' = ticks
  BY <1>1, <1>2, <1>9 DEF Typed
<1>13. /\ Structure' /\ Calls' = (Range(P) \cup {r, e}) \cup Range(Under)
       /\ Range(P) \subseteq {w}
  <2>1. FrameOK(e)'
    BY <1>2, <1>3, <1>10 DEF FrameOK
  <2>2. P = <<w>> \/ (P = <<>> /\ st[d].writing # None)
    BY <1>a, <1>9
  <2>3. st'[d].writing # None /\ Self = s
    BY <1>9, <1>11
  <2>4. PICK C, a, b, G, F : /\ C = FramesOf(Chunk) /\ a = <<r>> /\ b = <<e>>
                             /\ G = a \o b /\ F = P \o G
    OBVIOUS
  <2>5. /\ P \in Seq(C) /\ Ordered(Depth, P) /\ Range(P) \subseteq {w}
    <3>1. CASE P = <<w>>
      <4>1. <<w>> \in Seq(C)
        BY <1>6, <2>4
      <4> QED
        BY <3>1, <4>1, RangeFew, OrderedFew
    <3>2. CASE P = <<>>
      <4>1. <<>> \in Seq(C)
        OBVIOUS
      <4> QED
        BY <3>2, <4>1, RangeFew, OrderedFew
    <3> QED
      BY <2>2, <3>1, <3>2
  <2>8. G \in Seq(C) /\ Range(G) = {r, e} /\ Ordered(Depth, G)
    <3>1. G = <<r, e>>
      BY <2>4, Joined
    <3>2. <<r, e>> \in Seq(C)
      BY <1>3, <1>5, <2>4
    <3>3. Above(Depth, r, e)
      <4>1. PICK n : n = 3 * Depth[s]
        OBVIOUS
      <4>2. n \in Nat
        BY <1>1, <4>1, DepthFacts
      <4>3. Level(Depth, e) = n + 1 /\ Level(Depth, r) = n + 2
        BY <1>3, <1>5, <4>1 DEF Level
      <4>4. n + 1 < n + 2
        BY <4>2
      <4> QED
        BY <1>3, <1>5, <4>3, <4>4 DEF Above, Flow
    <3> QED
      BY <3>1, <3>2, <3>3, RangeFew, OrderedFew
  <2>9. stack' = F \o Under
    <3>1. a \in Seq(C) /\ b \in Seq(C)
      BY <1>3, <1>5, <2>4
    <3>2. (P \o a) \o b = P \o (a \o b)
      BY <2>5, <3>1, ConcatAssociative
    <3> QED
      BY <1>2, <2>4, <3>2
  <2>6. FramesKept(F, Under) /\ Range(F) = Range(P) \cup {r, e}
    <3>1. Carried(s, d, e, r, w, P, G)
      <4>1. /\ e \in FramesOf(Chunk) /\ e.at = "emit" /\ e.of = s /\ FrameOK(e)'
            /\ r \in FramesOf(Chunk) /\ r.at = "wrote" /\ r.of = s
            /\ w \in FramesOf(Chunk) /\ w.at = "write" /\ w.of = d
        BY <1>3, <1>5, <1>6, <2>1
      <4>2. /\ P \in Seq(FramesOf(Chunk)) /\ Ordered(Depth, P) /\ Range(P) \subseteq {w}
            /\ G \in Seq(FramesOf(Chunk)) /\ Ordered(Depth, G) /\ Range(G) = {r, e}
        BY <2>4, <2>5, <2>8
      <4>3. stack' = (P \o G) \o Under
        BY <2>4, <2>9
      <4>4. st'[d].writing # None /\ \A x \in Streams \ {d} : st'[x] = st[x]
        BY <1>11, <2>3
      <4> QED
        BY <4>1, <4>2, <4>3, <4>4 DEF Carried
    <3>2. s \in Streams /\ stack # <<>> /\ Head(stack).at = "emit" /\ d \in Range(app.pipes[s])
      BY <1>1, <1>3
    <3>3. FramesKept(P \o G, Under) /\ Range(P \o G) = Range(P) \cup {r, e}
      BY <1>10, <2>3, <3>1, <3>2, WriteFrames
    <3> QED
      BY <2>4, <3>3
  <2>7. Structure' /\ Calls' = Range(F) \cup Range(Under)
    BY <1>1, <1>10, <1>11, <1>12, <2>6, TicksStay, StructureStep
  <2> QED
    BY <2>5, <2>6, <2>7
<1>14. /\ \A x, y : x # s \/ y # d => Offers(x, y)' = Offers(x, y)
       /\ Offers(s, d)' = {} /\ Offers(s, d) = {c}
  <2>1. PICK R : R = Range(P) \cup {r, e}
    OBVIOUS
  <2>2. Calls' = R \cup Range(Under) /\ e \in R /\ \A b \in R : b.at = "emit" => b = e
    BY <1>3, <1>5, <1>6, <1>13, <2>1
  <2>3. s = Self /\ d = Head(Rest) /\ h = Head(stack) /\ e = Emission(s, h.chunk, Tail(Rest))
        /\ h.chunk = c
    BY <1>0
  <2> QED
    BY <1>1, <2>2, <2>3, OffersMove
<1>15. /\ \A y : y # d => (In(y)' <=> In(y))
       /\ \A y : Passing(y)' <=> Passing(y)
       /\ \A y : Pausing(y) => Pausing(y)'
       /\ ~ok => Pausing(s)'
       /\ k.writing = None => ~In(d) /\ ~Passing(d) /\ In(d)'
       /\ k.writing # None => (In(d)' <=> In(d))
  <2>1. ASSUME NEW y, y # d PROVE In(y)' <=> In(y)
    BY <1>1, <1>3, <1>5, <1>6, <1>13, <2>1 DEF In
  <2>2. ASSUME NEW y PROVE Passing(y)' <=> Passing(y)
    BY <1>1, <1>3, <1>5, <1>6, <1>13 DEF Passing
  <2>3. ASSUME NEW y, Pausing(y) PROVE Pausing(y)'
    BY <1>1, <1>13, <2>3 DEF Pausing
  <2>4. ASSUME ~ok PROVE Pausing(s)'
    <3>1. ~r.ok /\ r \in Calls'
      BY <1>a, <1>5, <1>13, <2>4
    <3> QED
      BY <1>5, <3>1 DEF Pausing
  <2>5. ASSUME k.writing = None PROVE ~In(d) /\ ~Passing(d) /\ In(d)'
    <3>1. ~In(d) /\ ~Passing(d)
      BY <1>a, <1>1, <2>5, WritingBelow DEF In, Passing
    <3>2. w \in Calls'
      BY <1>9, <1>13, <2>5, RangeFew
    <3> QED
      BY <1>6, <3>1, <3>2 DEF In
  <2>6. ASSUME k.writing # None PROVE In(d)' <=> In(d)
    <3>1. Calls' = {r, e} \cup Range(Under)
      BY <1>9, <1>13, <2>6, RangeFew
    <3> QED
      BY <1>1, <1>3, <1>5, <3>1 DEF In
  <2> QED
    BY <2>1, <2>2, <2>3, <2>4, <2>5, <2>6
<1>16. Elsewhere(d)
  <2>1. app' = app /\ evs' = evs /\ final' = final /\ produced' = produced
    BY <1>2
  <2>2. \A x \in Streams \ {d} : st'[x] = st[x] /\ got'[x] = got[x] /\ wLen'[x] = wLen[x]
    BY <1>2, <1>b, <1>11
  <2>3. \A y : /\ DrainTick(y)' <=> DrainTick(y)
               /\ Once(<<"drain", y>>, ticks) => Once(<<"drain", y>>, ticks')
    BY <1>12 DEF DrainTick
  <2> QED
    BY <1>3, <1>14, <1>15, <2>1, <2>2, <2>3 DEF Elsewhere
<1>17. c = Accepted(d) + 1 /\ Link(s, d)
  BY <1>a, <1>1, <1>3, <1>4, <1>14 DEF Inv, Account, Link
<1>c. ASSUME Accepted(d)' = Accepted(d) + 1, Past(d)' = Past(d)
      PROVE  Measured(d)' /\ Newest(d)' = u
  BY <1>2, <1>3, <1>b, <1>c, <1>d, <1>17, MeasureGrows
<1>18. /\ Accepted(d)' = Accepted(d) + 1 /\ Newest(d)' = u /\ Given(d)' = Given(d)
       /\ Written1(d)'
  <2>1. Written1(d) /\ Accepted(d) = Taken(d) + Len(k.queue)
    BY <1>a, <1>3 DEF Inv, Account, Accepted
  <2> DEFINE n == Taken(d)  m == Len(k.queue)
  <2>2. \A i \in 1..Len(q) : q[i] = n + i
    <3>1. \A i \in 1..m : k.queue[i] = n + i
      BY <1>a, <2>1 DEF Written1
    <3>2. Len(q) = m + 1 /\ q[m + 1] = n + m + 1 /\ n \in Nat /\ m \in Nat
      BY <1>4, <1>7, <1>17, <2>1
    <3>3. \A i \in 1..m : q[i] = k.queue[i]
      BY <1>7
    <3> HIDE DEF n, m
    <3>4. ASSUME NEW i \in 1..Len(q) PROVE q[i] = n + i
      <4>1. CASE i \in 1..m
        BY <3>1, <3>3, <4>1
      <4>2. CASE i = m + 1
        BY <3>2, <4>2
      <4> QED
        BY <3>2, <3>4, <4>1, <4>2
    <3> QED
      BY <3>4
  <2>3. got'[d] = got[d] /\ \A i \in 1..Len(got[d]) : got[d][i] = i
    BY <1>2, <2>1 DEF Written1
  <2>4. CASE k.writing = None
    <3>1. /\ g.writing = Head(q) /\ g.queue = Tail(q) /\ In(d)' /\ ~In(d)
          /\ ~Passing(d) /\ ~Passing(d)'
      BY <1>9, <1>15, <2>4
    <3>2. Taken(d) = Len(got[d]) /\ Taken(d)' = Len(got[d]) + 1
      BY <2>3, <3>1 DEF Taken
    <3>3. /\ Head(q) = q[1] /\ Len(Tail(q)) = m /\ 1 \in 1..Len(q)
          /\ \A i \in 1..m : Tail(q)[i] = q[i + 1] /\ i + 1 \in 1..Len(q)
      BY <1>4, <1>7
    <3>4. Head(q) = Len(got[d]) + 1
      BY <2>2, <3>2, <3>3
    <3>5. ASSUME NEW i \in 1..m PROVE Tail(q)[i] = Len(got[d]) + 1 + i
      <4>1. Tail(q)[i] = q[i + 1] /\ i + 1 \in 1..Len(q)
        BY <3>3, <3>5
      <4>2. q[i + 1] = n + (i + 1)
        BY <2>2, <4>1
      <4>3. n + (i + 1) = n + 1 + i /\ n = Len(got[d])
        BY <1>4, <3>2, <3>5
      <4> QED
        BY <4>1, <4>2, <4>3
    <3>7. Accepted(d)' = Accepted(d) + 1
      <4>1. Accepted(d)' = (Len(got[d]) + 1) + m
        BY <1>11, <3>1, <3>2, <3>3 DEF Accepted
      <4> QED
        <5> DEFINE l == Len(got[d])
        <5>1. Accepted(d) = l + m /\ Accepted(d)' = (l + 1) + m /\ l \in Nat /\ m \in Nat
          BY <1>4, <2>1, <3>2, <4>1
        <5> HIDE DEF l, m
        <5> QED
          BY <5>1
    <3>8. Past(d)' = Past(d)
      <4>1. Past(d) = Len(got[d]) /\ Past(d)' = (Len(got[d]) + 1) - 1
        BY <1>a, <1>9, <1>11, <2>4, <3>2 DEF Past
      <4> QED
        BY <1>4, <4>1
    <3>10. Measured(d)' /\ Newest(d)' = u
      BY <1>c, <3>7, <3>8
    <3>6. Written1(d)'
      BY <1>11, <2>3, <3>1, <3>2, <3>3, <3>4, <3>5, <3>10 DEF Written1
    <3>9. Given(d)' = Given(d)
      <4>1. Given(d) = Len(got[d]) /\ Given(d)' = (Len(got[d]) + 1) - 1
        BY <1>a, <1>3, <1>9, <1>11, <2>4, <3>1, <3>2 DEF Given
      <4> QED
        BY <1>4, <4>1
    <3> QED
      BY <3>6, <3>7, <3>9, <3>10
  <2>5. CASE k.writing # None
    <3>1. /\ g.writing = k.writing /\ g.queue = q /\ (In(d)' <=> In(d))
          /\ (Passing(d)' <=> Passing(d))
      BY <1>9, <1>15, <2>5
    <3>2. Taken(d)' = Taken(d)
      BY <2>3, <3>1 DEF Taken
    <3>4. Accepted(d)' = Accepted(d) + 1
      <4>1. Accepted(d)' = n + Len(q)
        BY <1>11, <3>1, <3>2 DEF Accepted
      <4> QED
        BY <1>4, <1>7, <2>1, <4>1
    <3>5. Measured(d)' /\ Newest(d)' = u
      <4>1. Past(d)' = Past(d)
        BY <1>a, <1>11, <3>1, <3>2 DEF Past
      <4> QED
        BY <1>c, <3>4, <4>1
    <3>3. Written1(d)'
      BY <1>a, <1>11, <2>1, <2>2, <2>3, <3>1, <3>2, <3>5 DEF Written1
    <3>6. Given(d)' = Given(d)
      BY <1>a, <1>3, <1>11, <3>1, <3>2 DEF Given
    <3> QED
      BY <3>3, <3>4, <3>5, <3>6
  <2> QED
    BY <2>4, <2>5
<1>19. ReadSide(d)
  <2>1. Exact(d)
    BY <1>a, <1>4 DEF Exact
  <2>2. \A y \in Streams : Offers(d, y)' = Offers(d, y)
    BY <1>3, <1>14
  <2> QED
    BY <1>a, <1>9, <1>11, <1>18, <2>1, <2>2 DEF ReadSide
<1>20. Link(s, d)'
  <2>1. Given(s)' = Given(s) /\ Exact(s)' = Exact(s) /\ st'[s] = st[s]
    BY <1>1, <1>3, <1>16, ElsewhereSame DEF Elsewhere
  <2>2. Passed(s, d) = Accepted(d) + 1 /\ Passed(s, d)' = Accepted(d) + 1
    BY <1>14, <1>18 DEF Passed, Handing
  <2>3. /\ \A i \in 1..Len(st[s].buf) : st[s].buf[i] = Passed(s, d) + i
        /\ Exact(s) => Passed(s, d) + Len(st[s].buf) = Given(s)
    BY <1>a, <1>4, <1>17 DEF Link
  <2> QED
    BY <1>14, <2>1, <2>2, <2>3 DEF Link
<1>21. wLen'[d] >= app.hwm => st'[d].needDrain
  BY <1>a, <1>b, <1>4, <1>9, <1>11
<1>22. ASSUME Only(s, d) PROVE Pressure(s, d)'
  <2>1. Pressure(s, d) /\ Handing(s, d) /\ ~Handing(s, d)'
    BY <1>1, <1>3, <1>14, <1>22 DEF Inv, Pressed, Handing
  <2>2. ~st[d].needDrain /\ ~DrainTick(d) /\ ~DrainTick(d)'
    BY <1>12, <2>1 DEF Pressure, Full, DrainTick
  <2>3. wLen'[d] < app.hwm + Newest(d)'
    <3>1. ~(wLen[d] >= app.hwm)
      BY <1>3, <2>2 DEF Inv, Pressed
    <3> QED
      BY <1>4, <1>b, <1>18, <3>1
  <2>4. Full(d)' => Pausing(s)'
    BY <1>a, <1>9, <1>11, <1>15, <2>2 DEF Full
  <2> QED
    BY <1>2, <1>12, <2>1, <2>2, <2>3, <2>4 DEF Pressure
<1>23. Over(d)'
  <2>1. ~st[d].emittedEnd /\ ~st[d].finalCalled
    BY <1>a, <1>3, <1>4 DEF Inv, Ended, Over
  <2>2. st[Source].ended => st'[Source].ended
    BY <1>3, <1>11, StreamsAssumption
  <2>3. evs' = evs /\ produced' = produced
    BY <1>2
  <2>4. /\ st'[d].emittedEnd = st[d].emittedEnd /\ st'[d].ended = st[d].ended
        /\ st'[d].wEnded = st[d].wEnded /\ st'[d].finalCalled = st[d].finalCalled
        /\ ~st[d].wEnded /\ st'[d].destroyed = st[d].destroyed
    BY <1>a, <1>3, <1>4, <1>9, <1>11
  <2> QED
    BY <1>3, <2>1, <2>2, <2>3, <2>4, OverOne
<1>24. Here(d)
  <2>1. ASSUME NEW x \in Streams, d \in Range(app.pipes[x]) PROVE x = s
    BY <1>1, <1>3, <2>1, Pipes
  <2>2. \A y \in Range(app.pipes[d]) : Link(d, y)' /\ (Only(d, y) => Pressure(d, y)')
    BY <1>3, <1>16, <1>19, ReadSideKept
  <2>3. (st[d].ended => st'[d].ended) /\ (st[d].finalCalled => st'[d].finalCalled)
    BY <1>a, <1>9, <1>11
  <2> QED
    BY <1>18, <1>20, <1>21, <1>22, <1>23, <2>1, <2>2, <2>3 DEF Here
<1>25. Iterated'
  BY <1>2, <1>3, <1>11, StreamsAssumption, IteratedKept
<1>26. Account' /\ Ended' /\ Pressed'
  BY <1>3, <1>16, <1>24, <1>25, ElsewhereKeeps
<1> QED
  BY <1>13, <1>26 DEF Inv
-----------------------------------------------------------------------------
(* _processWrites: it starts on the oldest chunk, or is done for good, or  *)
(* asks for more, or has nothing to do.                                    *)
Carries(C, f, g) ==
  /\ f \in FieldsOf(C) /\ g \in FieldsOf(C)
  /\ g.buf = f.buf /\ g.flowing = f.flowing /\ g.destroyed = f.destroyed
  /\ g.emittedEnd = f.emittedEnd /\ g.ended = f.ended /\ g.wEnded = f.wEnded
Begun(d, f, g, N, P) ==
  /\ Starts(f) /\ g.writing = Head(f.queue) /\ g.queue = Tail(f.queue)
  /\ g.finalCalled = f.finalCalled /\ g.needDrain = f.needDrain
  /\ N = <<>> /\ P = <<Place("write", d)>>
Finalized(d, f, g, N, P) ==
  /\ Finalizes(f) /\ g.writing = f.writing /\ g.queue = f.queue
  /\ g.finalCalled /\ g.needDrain = f.needDrain
  /\ (N = <<<<"runFinal", d>>>> \/ N = <<<<"finish", d>>>>) /\ P = <<>>
Drained(d, f, g, N, P) ==
  /\ Drains(f) /\ g.writing = f.writing /\ g.queue = f.queue
  /\ g.finalCalled = f.finalCalled /\ ~g.needDrain
  /\ N = <<<<"drain", d>>>> /\ P = <<>>
Rested(d, f, g, N, P) ==
  /\ g.writing = f.writing /\ g.queue = f.queue
  /\ g.finalCalled = f.finalCalled /\ g.needDrain = f.needDrain
  /\ N = <<>> /\ P = <<>>

(* There is no fifth outcome.                                              *)
LEMMA ProcessCases ==
  ASSUME NEW C, NEW f \in FieldsOf(C), NEW d, NEW g, g = ProcessWrites(d, f),
         NEW N, N = ProcessTicks(d, f), NEW P, P = ProcessFrames(d, f)
  PROVE  /\ Carries(C, f, g)
         /\ \/ Begun(d, f, g, N, P) \/ Finalized(d, f, g, N, P)
            \/ Drained(d, f, g, N, P) \/ Rested(d, f, g, N, P)
<1>1. ~(Starts(f) /\ Idles(f)) /\ ~(Finalizes(f) /\ Drains(f))
  BY DEF Starts, Idles, Finalizes, Drains
<1>2. CASE Starts(f)
  <2>1. /\ g \in FieldsOf(C) /\ g.writing = Head(f.queue) /\ g.queue = Tail(f.queue)
        /\ g.writing \in C
        /\ g.buf = f.buf /\ g.flowing = f.flowing /\ g.needDrain = f.needDrain
        /\ g.destroyed = f.destroyed /\ g.emittedEnd = f.emittedEnd /\ g.ended = f.ended
        /\ g.wEnded = f.wEnded /\ g.finalCalled = f.finalCalled
    BY <1>2, ProcessStarts
  <2>2. P = <<Place("write", d)>> /\ N = <<>>
    BY <1>2, StartFrames
  <2> QED
    BY <1>2, <2>1, <2>2 DEF Carries, Begun
<1>3. CASE Finalizes(f)
  <2>1. PICK b : b = ~HasFinal(d)
    OBVIOUS
  <2>2. b \in BOOLEAN
    BY <2>1
  <2>3. ~Starts(f) /\ ~Drains(f)
    BY <1>1, <1>3 DEF Finalizes
  <2>4. PICK h : h = [f EXCEPT !.finalCalled = TRUE, !.finished = b]
    OBVIOUS
  <2>5. g = h
    <3>1. g = [f EXCEPT !.finalCalled = TRUE, !.finished = ~HasFinal(d)]
      BY <1>3, <2>3 DEF ProcessWrites
    <3> QED
      BY <2>1, <2>4, <3>1
  <2>6. /\ h \in FieldsOf(C) /\ h.finalCalled /\ h.writing = f.writing /\ h.queue = f.queue
        /\ h.buf = f.buf /\ h.flowing = f.flowing /\ h.needDrain = f.needDrain
        /\ h.destroyed = f.destroyed /\ h.emittedEnd = f.emittedEnd /\ h.ended = f.ended
        /\ h.wEnded = f.wEnded
    BY <2>2, <2>4 DEF FieldsOf
  <2>7. N = <<<<"runFinal", d>>>> \/ N = <<<<"finish", d>>>>
    <3>1. N = <<IF HasFinal(d) THEN <<"runFinal", d>> ELSE <<"finish", d>>>>
      BY <1>3, <2>3 DEF ProcessTicks
    <3>2. CASE HasFinal(d)
      BY <3>1, <3>2
    <3>3. CASE ~HasFinal(d)
      BY <3>1, <3>3
    <3> QED
      BY <3>2, <3>3
  <2>8. P = <<>>
    BY <2>3 DEF ProcessFrames
  <2> QED
    BY <1>3, <2>5, <2>6, <2>7, <2>8 DEF Carries, Finalized
<1>4. CASE Drains(f)
  <2>1. ~Starts(f) /\ ~Finalizes(f)
    BY <1>1, <1>4 DEF Drains
  <2>2. PICK h : h = [f EXCEPT !.needDrain = FALSE]
    OBVIOUS
  <2>3. g = h
    BY <1>4, <2>1, <2>2 DEF ProcessWrites
  <2>4. /\ h \in FieldsOf(C) /\ h.finalCalled = f.finalCalled /\ h.writing = f.writing
        /\ h.queue = f.queue
        /\ h.buf = f.buf /\ h.flowing = f.flowing /\ ~h.needDrain
        /\ h.destroyed = f.destroyed /\ h.emittedEnd = f.emittedEnd /\ h.ended = f.ended
        /\ h.wEnded = f.wEnded
    BY <2>2 DEF FieldsOf
  <2>5. N = <<<<"drain", d>>>> /\ P = <<>>
    BY <1>4, <2>1 DEF ProcessTicks, ProcessFrames
  <2> QED
    BY <1>4, <2>3, <2>4, <2>5 DEF Carries, Drained
<1>5. CASE ~Starts(f) /\ ~Finalizes(f) /\ ~Drains(f)
  <2>1. g = f /\ P = <<>> /\ N = <<>>
    BY <1>5, ProcessRests
  <2> QED
    BY <2>1 DEF Carries, Rested
<1> QED
  BY <1>2, <1>3, <1>4, <1>5

(* f: the fields of d, perhaps with the end that end() just asked for.     *)
Readied(d, f) ==
  /\ f \in FieldsOf(Chunk)
  /\ f.buf = st[d].buf /\ f.flowing = st[d].flowing /\ f.destroyed = st[d].destroyed
  /\ f.emittedEnd = st[d].emittedEnd /\ f.ended = st[d].ended
  /\ f.writing = st[d].writing /\ f.queue = st[d].queue
  /\ f.finalCalled = st[d].finalCalled /\ f.needDrain = st[d].needDrain
  /\ st[d].wEnded => f.wEnded
  /\ f.wEnded => /\ d # Source /\ st[Source].ended
                 /\ ~st[d].destroyed => Accepted(d) = produced

(* What _processWrites leaves of d, in terms of the account.               *)
Processed(d, g, N) ==
  /\ g \in FieldsOf(Chunk) /\ Kept(d, st[d], g)
  /\ g.buf = st[d].buf /\ g.flowing = st[d].flowing /\ g.destroyed = st[d].destroyed
  /\ g.emittedEnd = st[d].emittedEnd /\ g.ended = st[d].ended
  /\ st[d].finalCalled => g.finalCalled
  /\ st[d].wEnded => g.wEnded
  /\ g.wEnded => d # Source /\ st[Source].ended /\ (~g.destroyed => Accepted(d) = produced)
  /\ g.finalCalled => /\ g.wEnded /\ Len(got[d]) = produced /\ g.writing = None
                      /\ g.queue = <<>>
  /\ N \in Seq(Tasks \X Streams)
  /\ \A t \in Range(N) : t[1] \in {"runFinal", "finish"} => t[2] = d /\ g.finalCalled
  /\ \A t \in Range(N) : t[1] \in {"runFinal", "finish", "drain"}

(* Each outcome leaves the account and the end as they were.               *)
LEMMA ProcessedCases ==
  ASSUME Inv, NEW d \in Streams, NEW f, Readied(d, f), ~In(d), NEW g, NEW N, NEW P,
         Carries(Chunk, f, g),
         \/ Begun(d, f, g, N, P) \/ Finalized(d, f, g, N, P)
         \/ Drained(d, f, g, N, P) \/ Rested(d, f, g, N, P)
  PROVE  Processed(d, g, N)
<1>1. /\ f \in FieldsOf(Chunk)
      /\ f.buf = st[d].buf /\ f.flowing = st[d].flowing /\ f.destroyed = st[d].destroyed
      /\ f.emittedEnd = st[d].emittedEnd /\ f.ended = st[d].ended
      /\ f.writing = st[d].writing /\ f.queue = st[d].queue
      /\ f.finalCalled = st[d].finalCalled /\ f.needDrain = st[d].needDrain
      /\ st[d].wEnded => f.wEnded
      /\ f.wEnded => /\ d # Source /\ st[Source].ended
                     /\ ~st[d].destroyed => Accepted(d) = produced
  BY DEF Readied
<1>2. /\ g \in FieldsOf(Chunk)
      /\ g.buf = f.buf /\ g.flowing = f.flowing /\ g.destroyed = f.destroyed
      /\ g.emittedEnd = f.emittedEnd /\ g.ended = f.ended /\ g.wEnded = f.wEnded
  BY DEF Carries
<1>3. /\ st[d].finalCalled => /\ st[d].wEnded /\ Len(got[d]) = produced
                               /\ st[d].writing = None /\ st[d].queue = <<>>
      /\ st[d].flowing = "on" => app.pipes[d] # <<>>
      /\ d = Source => /\ st[d].writing = None /\ st[d].queue = <<>> /\ ~st[d].wEnded
                       /\ ~st[d].finalCalled /\ ~st[d].needDrain
      /\ Typed
  BY DEF Inv, Ended, Over, Structure, Plain
<1>4. PICK a, b, c : a = <<"runFinal", d>> /\ b = <<"finish", d>> /\ c = <<"drain", d>>
  OBVIOUS
<1>5. /\ a \in Tasks \X Streams /\ b \in Tasks \X Streams /\ c \in Tasks \X Streams
      /\ a[1] = "runFinal" /\ b[1] = "finish" /\ c[1] = "drain" /\ a[2] = d /\ b[2] = d
  BY <1>4 DEF Tasks
<1>6. /\ N = <<>> => N \in Seq(Tasks \X Streams) /\ Range(N) = {}
      /\ \A t : N = <<t>> /\ t \in Tasks \X Streams =>
                  N \in Seq(Tasks \X Streams) /\ Range(N) = {t}
  BY FewTicks, RangeFew
<1>7. CASE Begun(d, f, g, N, P)
  <2>1. f.writing = None /\ f.queue # <<>> /\ g.finalCalled = f.finalCalled /\ N = <<>>
    BY <1>7 DEF Begun, Starts
  <2>2. ~st[d].finalCalled /\ ~g.finalCalled /\ d # Source
    BY <1>1, <1>3, <2>1
  <2>3. Kept(d, st[d], g)
    BY <1>1, <1>2, <1>3, <2>2 DEF Kept
  <2> QED
    BY <1>1, <1>2, <1>6, <2>1, <2>2, <2>3 DEF Processed
<1>8. CASE Finalized(d, f, g, N, P)
  <2>1. /\ f.writing = None /\ f.queue = <<>> /\ f.wEnded /\ ~f.destroyed
        /\ g.writing = f.writing /\ g.queue = f.queue /\ g.finalCalled
        /\ (N = <<a>> \/ N = <<b>>)
    BY <1>4, <1>8 DEF Finalized, Finalizes, Idles
  <2>2. Len(got[d]) = produced
    <3>1. Accepted(d) = produced
      BY <1>1, <2>1
    <3>2. Accepted(d) = Len(got[d]) + 0 /\ Len(got[d]) \in Nat
      <4>1. Len(st[d].queue) = 0
        BY <1>1, <2>1
      <4> QED
        BY <1>3, <4>1, Numbers DEF Accepted, Taken
    <3> QED
      BY <3>1, <3>2
  <2>3. Kept(d, st[d], g)
    BY <1>1, <1>2, <1>3, <2>1 DEF Kept
  <2>4. N \in Seq(Tasks \X Streams) /\ (Range(N) = {a} \/ Range(N) = {b})
    BY <1>5, <1>6, <2>1
  <2>5. \A t \in Range(N) : t[2] = d /\ t[1] \in {"runFinal", "finish", "drain"}
    BY <1>5, <2>4
  <2> QED
    BY <1>1, <1>2, <2>1, <2>2, <2>3, <2>4, <2>5 DEF Processed
<1>9. CASE Drained(d, f, g, N, P)
  <2>1. /\ f.writing = None /\ f.queue = <<>> /\ ~f.wEnded
        /\ g.writing = f.writing /\ g.queue = f.queue /\ g.finalCalled = f.finalCalled
        /\ ~g.needDrain /\ N = <<c>>
    BY <1>4, <1>9 DEF Drained, Drains, Idles
  <2>2. ~g.finalCalled /\ ~g.wEnded
    BY <1>1, <1>2, <1>3, <2>1
  <2>3. Kept(d, st[d], g)
    BY <1>1, <1>2, <1>3, <2>1 DEF Kept
  <2>4. N \in Seq(Tasks \X Streams) /\ Range(N) = {c}
    BY <1>5, <1>6, <2>1
  <2>5. \A t \in Range(N) : t[1] = "drain"
    BY <1>5, <2>4
  <2> QED
    BY <1>1, <1>2, <2>1, <2>2, <2>3, <2>4, <2>5 DEF Processed
<1>10. CASE Rested(d, f, g, N, P)
  <2>1. /\ g.writing = f.writing /\ g.queue = f.queue /\ g.finalCalled = f.finalCalled
        /\ g.needDrain = f.needDrain /\ N = <<>>
    BY <1>10 DEF Rested
  <2>2. Kept(d, st[d], g)
    BY <1>1, <1>2, <1>3, <2>1 DEF Kept
  <2>3. g.finalCalled => /\ g.wEnded /\ Len(got[d]) = produced /\ g.writing = None
                          /\ g.queue = <<>>
    BY <1>1, <1>2, <1>3, <2>1
  <2> QED
    BY <1>1, <1>2, <1>6, <2>1, <2>2, <2>3 DEF Processed
<1> QED
  BY <1>7, <1>8, <1>9, <1>10

(* Only the frames of _write and of the listeners come to the stack.       *)
Resumes(d, P, A, B) ==
  /\ P = <<>> \/ P = <<Place("write", d)>>
  /\ A \in Seq(FramesOf(Chunk)) /\ B \in Seq(FramesOf(Chunk)) /\ Range(B) \subseteq Calls
  /\ Ordered(Depth, B)
  /\ \A a \in Range(A) : FrameOK(a)' /\ a.at \notin Flow
  /\ stack' = (P \o A) \o B

(* ... in order.                                                           *)
LEMMA ResumesFrames ==
  ASSUME Inv, Onward, Chunk' = Chunk, NEW d \in Streams, NEW P, NEW A, NEW B, Resumes(d, P, A, B),
         \A g \in Calls : g.at \notin Flow,
         P = <<Place("write", d)>> => st'[d].writing # None
  PROVE  /\ FramesKept(P \o A, B)
         /\ \A g \in Range(P \o A) \cup Range(B) : g.at \in Flow => g = Place("write", d)
         /\ P = <<>> => \A g \in Range(P \o A) \cup Range(B) : g.at \notin Flow
         /\ P # <<>> => Place("write", d) \in Range(P \o A)
<1>1. PICK C, w, F : C = FramesOf(Chunk) /\ w = Place("write", d) /\ F = P \o A
  OBVIOUS
<1>2. /\ P = <<>> \/ P = <<w>>
      /\ A \in Seq(C) /\ B \in Seq(C) /\ Range(B) \subseteq Calls
      /\ Ordered(Depth, B)
      /\ \A a \in Range(A) : FrameOK(a)' /\ a.at \notin Flow
      /\ stack' = F \o B
  BY <1>1 DEF Resumes
<1>3. w \in FramesOf(Chunk) /\ w.at = "write" /\ w.of = d
  <2>1. "write" \in Places
    BY DEF Places
  <2> QED
    BY <1>1, <2>1, PlaceIn
<1>4. P \in Seq(C) /\ Ordered(Depth, P) /\ (P = <<>> => Range(P) = {}) /\ (P = <<w>> => Range(P) = {w})
  <2>1. CASE P = <<>>
    <3>1. <<>> \in Seq(C) /\ <<>> # <<w>>
      OBVIOUS
    <3> QED
      BY <2>1, <3>1, RangeFew, OrderedFew
  <2>2. CASE P = <<w>>
    <3>1. <<w>> \in Seq(C) /\ <<>> # <<w>>
      BY <1>1, <1>3
    <3> QED
      BY <2>2, <3>1, RangeFew, OrderedFew
  <2> QED
    BY <1>2, <2>1, <2>2
<1>5. Ordered(Depth, A)
  <2>1. ASSUME NEW i \in 1..Len(A), NEW j \in 1..Len(A) PROVE Above(Depth, A[i], A[j])
    <3>1. A[j] \in Range(A)
      BY <1>2, MemRange
    <3> QED
      BY <1>2, <3>1 DEF Above
  <2> QED
    BY <2>1 DEF Ordered
<1>6. F \in Seq(C) /\ Range(F) = Range(P) \cup Range(A)
  BY <1>1, <1>2, <1>4, RangeConcat
<1>7. Ordered(Depth, F)
  <2>1. \A a \in Range(P), b \in Range(A) : Above(Depth, a, b)
    BY <1>2 DEF Above
  <2> QED
    BY <1>1, <1>2, <1>4, <1>5, <2>1, OrderedConcat
<1>8. \A a \in Range(F), b \in Range(B) : Above(Depth, a, b)
  BY <1>2 DEF Above
<1>9. \A a \in Range(F) : FrameOK(a)'
  <2>1. ASSUME NEW a \in Range(F) PROVE FrameOK(a)'
    <3>1. CASE a \in Range(A)
      BY <1>2, <3>1
    <3>2. CASE a \in Range(P)
      <4>1. P = <<w>> /\ a = w
        BY <1>2, <1>4, <3>2
      <4>2. st'[d].writing # None
        BY <1>1, <4>1
      <4>3. FrameOK(w)'
        BY <1>3, <4>2 DEF FrameOK
      <4> QED
        BY <4>1, <4>3
    <3> QED
      BY <1>6, <2>1, <3>1, <3>2
  <2> QED
    BY <2>1
<1>10. \A b \in Range(B) : b.at \notin {"write", "transformed"}
  BY <1>2 DEF Flow
<1>11. FramesKept(F, B)
  BY <1>1, <1>2, <1>6, <1>7, <1>8, <1>9, <1>10 DEF FramesKept
<1>12. \A g \in Range(F) \cup Range(B) : g.at \in Flow => g \in Range(P)
  BY <1>2, <1>6
<1>13. /\ \A g \in Range(F) \cup Range(B) : g.at \in Flow => g = w
       /\ P = <<>> => \A g \in Range(F) \cup Range(B) : g.at \notin Flow
       /\ P # <<>> => w \in Range(F)
  BY <1>2, <1>4, <1>6, <1>12
<1> QED
  BY <1>1, <1>11, <1>13

(* The microtask that is taken, if one is, is not a "drain".               *)
Left(Q) == Q = ticks \/ (ticks # <<>> /\ Head(ticks)[1] # "drain" /\ Q = Tail(ticks))

(* ... so the pending ones stay.                                           *)
LEMMA LeftDrains ==
  ASSUME ticks \in Seq(Tasks \X Streams), NEW Q, Left(Q)
  PROVE  /\ Q \in Seq(Tasks \X Streams) /\ Range(Q) \subseteq Range(ticks)
         /\ \A d : <<"drain", d>> \in Range(ticks) => <<"drain", d>> \in Range(Q)
         /\ \A d : Once(<<"drain", d>>, ticks) => Once(<<"drain", d>>, Q)
<1>1. CASE Q = ticks
  BY <1>1
<1>2. CASE ticks # <<>> /\ Head(ticks)[1] # "drain" /\ Q = Tail(ticks)
  <2>1. Q \in Seq(Tasks \X Streams) /\ Range(ticks) = {Head(ticks)} \cup Range(Q)
    BY <1>2, RangeTail
  <2>2. \A d : <<"drain", d>> # Head(ticks)
    BY <1>2
  <2>3. \A d : Once(<<"drain", d>>, ticks) => Once(<<"drain", d>>, Q)
    BY <1>2, OnceTail
  <2> QED
    BY <2>1, <2>2, <2>3
<1> QED
  BY <1>1, <1>2 DEF Left

(* A step of _processWrites on d, called with the fields f.                *)
Processes(d, f, g, N, P, Q, A, B) ==
  /\ Readied(d, f) /\ Carries(Chunk, f, g)
  /\ \/ Begun(d, f, g, N, P) \/ Finalized(d, f, g, N, P)
     \/ Drained(d, f, g, N, P) \/ Rested(d, f, g, N, P)
  /\ st' = [st EXCEPT ![d] = g]
  /\ ticks' = Q \o N /\ Left(Q)
  /\ UNCHANGED <<app, wLen, asked, final, settled, iter, produced, got, evs, upsets>>
  /\ \A h \in Calls : h.at \notin Flow
  /\ Resumes(d, P, A, B)

(* The other streams do not notice it,                                     *)
LEMMA ProcessAround ==
  ASSUME Inv, NEW d \in Streams, NEW f, NEW g, NEW N, NEW P, NEW Q, NEW A, NEW B,
         Processes(d, f, g, N, P, Q, A, B)
  PROVE  /\ Structure' /\ Elsewhere(d) /\ Processed(d, g, N) /\ st'[d] = g
         /\ \A x, y : Offers(x, y) = {} /\ Offers(x, y)' = {}
         /\ \A e : ~In(e) /\ ~Passing(e) /\ ~Pausing(e) /\ ~Passing(e)'
         /\ (P = <<>> => ~In(d)') /\ (P # <<>> => In(d)')
<1>1. /\ Readied(d, f) /\ Carries(Chunk, f, g)
      /\ \/ Begun(d, f, g, N, P) \/ Finalized(d, f, g, N, P)
         \/ Drained(d, f, g, N, P) \/ Rested(d, f, g, N, P)
      /\ st' = [st EXCEPT ![d] = g]
      /\ ticks' = Q \o N /\ Left(Q)
      /\ UNCHANGED <<app, wLen, asked, final, settled, iter, produced, got, evs, upsets>>
      /\ \A h \in Calls : h.at \notin Flow
      /\ Resumes(d, P, A, B)
  BY DEF Processes
<1>2. Onward /\ Chunk' = Chunk
  BY <1>1, OnwardSame DEF Inv, Structure, Typed
<1>3. /\ \A x, y : Offers(x, y) = {}
      /\ \A e : ~In(e) /\ ~Passing(e) /\ ~Pausing(e)
  BY <1>1, Silent
<1>4. Processed(d, g, N)
  BY <1>1, <1>3, ProcessedCases
<1>5. /\ g \in FieldsOf(Chunk) /\ Kept(d, st[d], g) /\ N \in Seq(Tasks \X Streams)
      /\ \A t \in Range(N) : t[1] \in {"runFinal", "finish"} => t[2] = d /\ g.finalCalled
      /\ \A t \in Range(N) : t[1] \in {"runFinal", "finish", "drain"}
  BY <1>4 DEF Processed
<1>6. FieldsKept /\ st'[d] = g /\ \A x \in Streams \ {d} : st'[x] = st[x]
  BY <1>1, <1>2, <1>5, OneKept
<1>7. /\ ticks \in Seq(Tasks \X Streams) /\ Structure
      /\ Q \in Seq(Tasks \X Streams) /\ Range(Q) \subseteq Range(ticks)
      /\ \A e : <<"drain", e>> \in Range(ticks) => <<"drain", e>> \in Range(Q)
      /\ \A e : Once(<<"drain", e>>, ticks) => Once(<<"drain", e>>, Q)
  <2>1. ticks \in Seq(Tasks \X Streams) /\ Structure
    BY DEF Inv, Structure, Typed
  <2> QED
    BY <1>1, <2>1, LeftDrains
<1>8. TicksKept(Q, N)
  <2>1. \A t \in Range(N) : TickOK(t)'
    BY <1>5, <1>6 DEF TickOK
  <2> QED
    BY <1>1, <1>5, <1>7, <2>1 DEF TicksKept
<1>9. P = <<Place("write", d)>> => st'[d].writing # None
  <2>1. SUFFICES ASSUME P = <<Place("write", d)>> PROVE g.writing # None
    BY <1>6
  <2>2. P # <<>>
    BY <2>1
  <2>3. Begun(d, f, g, N, P)
    BY <1>1, <2>2 DEF Finalized, Drained, Rested
  <2>4. f.queue \in Seq(Chunk) /\ f.queue # <<>> /\ g.writing = Head(f.queue)
    BY <1>1, <2>3 DEF Begun, Starts, Carries, FieldsOf
  <2>5. g.writing \in Chunk
    BY <2>4
  <2>6. None \notin Chunk
    <3>1. app.chunks \in 0..Chunks /\ produced \in 0..app.chunks /\ Chunks \in Nat
      BY <1>7, Pipes, StreamsAssumption DEF Structure, Typed
    <3>2. Chunk \subseteq 1..Chunks
      BY <3>1 DEF Chunk
    <3> QED
      BY <3>2, StreamsAssumption
  <2> QED
    BY <2>5, <2>6
<1>10. PICK w, F : w = Place("write", d) /\ F = P \o A
  OBVIOUS
<1>11. /\ FramesKept(F, B)
       /\ \A h \in Range(F) \cup Range(B) : h.at \in Flow => h = w
       /\ P = <<>> => \A h \in Range(F) \cup Range(B) : h.at \notin Flow
       /\ P # <<>> => w \in Range(F)
  <2>1. /\ FramesKept(P \o A, B)
        /\ \A h \in Range(P \o A) \cup Range(B) : h.at \in Flow => h = Place("write", d)
        /\ P = <<>> => \A h \in Range(P \o A) \cup Range(B) : h.at \notin Flow
        /\ P # <<>> => Place("write", d) \in Range(P \o A)
    BY <1>1, <1>2, <1>9, ResumesFrames
  <2> QED
    BY <1>10, <2>1
<1>12. Structure' /\ Calls' = Range(F) \cup Range(B)
  BY <1>2, <1>6, <1>7, <1>8, <1>11, StructureStep
<1>13. w.at = "write" /\ w.of = d
  <2>1. "write" \in Places
    BY DEF Places
  <2> QED
    BY <1>10, <2>1, PlaceIn
<1>14. /\ \A h \in Calls' : h.at \in Flow => h = w
       /\ P = <<>> => \A h \in Calls' : h.at \notin Flow
       /\ P # <<>> => w \in Calls'
  BY <1>11, <1>12
<1>15. /\ \A x, y : Offers(x, y)' = {}
       /\ \A e : ~Passing(e)' /\ (e # d => ~In(e)')
       /\ (P = <<>> => ~In(d)') /\ (P # <<>> => In(d)')
  <2>1. \A h \in Calls' : h.at \notin {"emit", "transformed"}
    BY <1>13, <1>14 DEF Flow
  <2>2. \A h \in Calls' : h.at = "write" => h.of = d
    BY <1>13, <1>14 DEF Flow
  <2>3. \A x, y : Offers(x, y)' = {}
    BY <2>1 DEF Offers
  <2>4. \A e : ~Passing(e)' /\ (e # d => ~In(e)')
    BY <2>1, <2>2 DEF Passing, In
  <2>5. P = <<>> => ~In(d)'
    BY <1>14 DEF In, Flow
  <2>6. P # <<>> => In(d)'
    BY <1>13, <1>14 DEF In
  <2> QED
    BY <2>3, <2>4, <2>5, <2>6
<1>16. ASSUME NEW e, e # d
       PROVE  /\ DrainTick(e)' <=> DrainTick(e)
              /\ Once(<<"drain", e>>, ticks) => Once(<<"drain", e>>, ticks')
  <2>1. <<"drain", e>> \notin Range(N)
    <3>1. SUFFICES ASSUME <<"drain", e>> \in Range(N) PROVE FALSE
      OBVIOUS
    <3>2. N # <<>>
      BY <3>1, RangeFew
    <3>3. CASE Finalized(d, f, g, N, P)
      BY <3>1, <3>3, RangeFew DEF Finalized
    <3>4. CASE Drained(d, f, g, N, P)
      BY <1>16, <3>1, <3>4, RangeFew DEF Drained
    <3> QED
      BY <1>1, <3>2, <3>3, <3>4 DEF Begun, Rested
  <2>2. Range(ticks') = Range(Q) \cup Range(N)
    BY <1>1, <1>5, <1>7, RangeConcat
  <2>3. DrainTick(e)' <=> DrainTick(e)
    BY <1>7, <2>1, <2>2 DEF DrainTick
  <2>4. ASSUME Once(<<"drain", e>>, ticks) PROVE Once(<<"drain", e>>, ticks')
    BY <1>1, <1>5, <1>7, <2>1, <2>4, OnceConcat
  <2> QED
    BY <2>3, <2>4
<1>17. Elsewhere(d)
  BY <1>1, <1>3, <1>6, <1>15, <1>16 DEF Elsewhere
<1> QED
  BY <1>3, <1>4, <1>6, <1>12, <1>15, <1>17

(* ... the chunks move up by one,                                          *)
LEMMA ProcessAccount ==
  ASSUME Inv, NEW d \in Streams, NEW f, NEW g, NEW N, NEW P, NEW Q, NEW A, NEW B,
         Processes(d, f, g, N, P, Q, A, B)
  PROVE  /\ Written1(d)' /\ Accepted(d)' = Accepted(d) /\ wLen'[d] = wLen[d]
         /\ Given(d)' = Given(d) /\ (Exact(d)' => Exact(d))
<1>1. /\ st'[d] = g
      /\ ~In(d) /\ ~Passing(d) /\ ~Passing(d)'
      /\ (P = <<>> => ~In(d)') /\ (P # <<>> => In(d)')
  BY ProcessAround
<1>2. /\ \/ Begun(d, f, g, N, P) \/ Finalized(d, f, g, N, P)
         \/ Drained(d, f, g, N, P) \/ Rested(d, f, g, N, P)
      /\ got' = got /\ produced' = produced /\ app' = app /\ wLen' = wLen
      /\ g.destroyed = st[d].destroyed /\ g.emittedEnd = st[d].emittedEnd
      /\ f.writing = st[d].writing /\ f.queue = st[d].queue /\ f.destroyed = st[d].destroyed
      /\ g \in FieldsOf(Chunk)
  BY DEF Processes, Carries, Readied
<1>3. /\ Typed /\ Written1(d) /\ Len(got[d]) \in Nat /\ st[d].queue \in Seq(Chunk)
      /\ Len(st[d].queue) \in Nat
  BY Numbers DEF Inv, Structure, Account
<1>4. CASE Begun(d, f, g, N, P)
  <2>1. PICK q : q = st[d].queue
    OBVIOUS
  <2>2. /\ st[d].writing = None /\ ~st[d].destroyed /\ q # <<>> /\ g.writing = Head(q)
        /\ g.queue = Tail(q) /\ P # <<>>
    BY <1>2, <1>4, <2>1 DEF Begun, Starts
  <2>3. In(d)' /\ Taken(d) = Len(got[d]) /\ Taken(d)' = Len(got[d]) + 1
    BY <1>1, <1>2, <2>2 DEF Taken
  <2> DEFINE n == Len(got[d])  m == Len(q)
  <2>4. /\ n \in Nat /\ m \in Nat /\ m >= 1 /\ Head(q) = q[1] /\ Len(Tail(q)) = m - 1
        /\ \A i \in 1..(m - 1) : Tail(q)[i] = q[i + 1] /\ i + 1 \in 1..m
    BY <1>3, <2>1, <2>2
  <2>5. \A i \in 1..m : q[i] = n + i
    BY <1>3, <2>1, <2>3 DEF Written1
  <2>6. Head(q) = n + 1 /\ n + 1 # None
    <3>1. Head(q) = n + 1
      BY <2>4, <2>5
    <3>2. g.writing # None
      <4>1. Head(q) \in Chunk
        BY <1>3, <2>1, <2>2
      <4>2. app.chunks \in 0..Chunks /\ produced \in 0..app.chunks /\ Chunks \in Nat
        BY <1>3, Pipes, StreamsAssumption DEF Typed
      <4>3. Chunk \subseteq 1..Chunks
        BY <4>2 DEF Chunk
      <4> QED
        BY <2>2, <4>1, <4>3, StreamsAssumption
    <3> QED
      BY <2>2, <3>1, <3>2
  <2>7. ASSUME NEW i \in 1..(m - 1) PROVE Tail(q)[i] = n + 1 + i
    <3>1. Tail(q)[i] = q[i + 1] /\ i + 1 \in 1..m
      BY <2>4, <2>7
    <3>2. q[i + 1] = n + (i + 1)
      BY <2>5, <3>1
    <3>3. n + (i + 1) = n + 1 + i
      <4> HIDE DEF n, m
      <4> QED
        BY <2>4, <2>7
    <3> QED
      BY <3>1, <3>2, <3>3
  <2>8. got'[d] = got[d] /\ \A i \in 1..n : got[d][i] = i
    BY <1>2, <1>3 DEF Written1
  <2>10. Accepted(d)' = Accepted(d)
    <3>1. Accepted(d) = n + m /\ Accepted(d)' = (n + 1) + (m - 1)
      BY <1>1, <2>1, <2>2, <2>3, <2>4 DEF Accepted
    <3> HIDE DEF n, m
    <3> QED
      BY <2>4, <3>1
  <2>11. Measured(d)'
    <3>1. Past(d) = n /\ Past(d)' = (n + 1) - 1
      BY <1>1, <2>2, <2>3, <2>6 DEF Past
    <3>2. Past(d)' = Past(d)
      <4> HIDE DEF n, m
      <4> QED
        BY <2>4, <3>1
    <3>3. Measured(d)
      BY <1>3 DEF Written1
    <3> QED
      BY <1>2, <2>10, <3>2, <3>3, MeasureKept
  <2>9. Written1(d)'
    BY <1>1, <2>2, <2>3, <2>4, <2>6, <2>7, <2>8, <2>11 DEF Written1
  <2>12. Given(d)' = Given(d)
    <3>1. d # Source
      BY <2>1, <2>2 DEF Inv, Structure, Plain
    <3>2. Given(d) = n /\ Given(d)' = (n + 1) - 1
      BY <1>1, <2>2, <2>3, <2>6, <3>1 DEF Given
    <3> HIDE DEF n, m
    <3> QED
      BY <2>4, <3>2
  <2>13. Exact(d)
    BY <2>2 DEF Exact
  <2> QED
    BY <1>2, <2>9, <2>10, <2>12, <2>13
<1>5. CASE ~Begun(d, f, g, N, P)
  <2>1. g.writing = st[d].writing /\ g.queue = st[d].queue /\ P = <<>>
    BY <1>2, <1>5 DEF Finalized, Drained, Rested
  <2>2. SameWrites(d)
    BY <1>1, <1>2, <2>1 DEF SameWrites
  <2>3. Exact(d)' => Exact(d)
    BY <1>1, <1>2, <2>1 DEF Exact
  <2> QED
    BY <1>1, <1>2, <1>3, <2>2, <2>3, WritesKept, GivenKept
<1> QED
  BY <1>4, <1>5

(* ... a "drain" is queued only when all is written,                       *)
LEMMA ProcessPressure ==
  ASSUME Inv, NEW d \in Streams, NEW f, NEW g, NEW N, NEW P, NEW Q, NEW A, NEW B,
         Processes(d, f, g, N, P, Q, A, B)
  PROVE  /\ \A s \in Streams :
              d \in Range(app.pipes[s]) => Link(s, d)' /\ (Only(s, d) => Pressure(s, d)')
         /\ wLen'[d] >= app.hwm => st'[d].needDrain
<1>1. /\ Elsewhere(d) /\ Processed(d, g, N) /\ st'[d] = g
      /\ \A x, y : Offers(x, y) = {} /\ Offers(x, y)' = {}
      /\ \A e : ~Pausing(e)
  BY ProcessAround
<1>2. Accepted(d)' = Accepted(d) /\ wLen'[d] = wLen[d]
  BY ProcessAccount
<1>3. /\ \/ Begun(d, f, g, N, P) \/ Finalized(d, f, g, N, P)
         \/ Drained(d, f, g, N, P) \/ Rested(d, f, g, N, P)
      /\ ticks' = Q \o N /\ Left(Q) /\ app' = app /\ Readied(d, f)
  BY DEF Processes
<1>4. g.destroyed = st[d].destroyed /\ N \in Seq(Tasks \X Streams)
  BY <1>1 DEF Processed
<1>5. /\ wLen[d] \in Nat /\ app.hwm \in Nat /\ app.hwm > 0 /\ Typed
      /\ ticks \in Seq(Tasks \X Streams)
  BY Numbers DEF Inv, Structure, Typed
<1>6. /\ Q \in Seq(Tasks \X Streams) /\ Range(Q) \subseteq Range(ticks)
      /\ \A e : <<"drain", e>> \in Range(ticks) => <<"drain", e>> \in Range(Q)
      /\ \A e : Once(<<"drain", e>>, ticks) => Once(<<"drain", e>>, Q)
  BY <1>3, <1>5, LeftDrains
<1>7. CASE Drained(d, f, g, N, P)
  <2>1. /\ st[d].writing = None /\ st[d].queue = <<>>
        /\ ~g.needDrain /\ N = <<<<"drain", d>>>>
    BY <1>3, <1>7 DEF Drained, Drains, Idles, Readied
  <2>2. st[d].needDrain
    <3>1. f.needDrain
      BY <1>7 DEF Drained, Drains
    <3>2. f.needDrain = st[d].needDrain
      BY <1>3 DEF Readied
    <3> QED
      BY <3>1, <3>2
  <2>3. wLen[d] = 0 /\ Newest(d) \in Nat /\ Newest(d)' = Newest(d)
    BY <1>2, <1>3, <2>1, NothingHeld, NewestKept, Holdings
  <2>4. wLen'[d] >= app.hwm => st'[d].needDrain
    BY <1>2, <1>5, <2>3
  <2>5. ASSUME NEW s \in Streams, d \in Range(app.pipes[s]) PROVE Link(s, d)'
    <3>1. s # d
      BY <1>5, <2>5, Irreflexive
    <3>2. Given(s)' = Given(s) /\ Exact(s)' = Exact(s) /\ st'[s] = st[s]
      BY <1>1, <3>1, ElsewhereSame DEF Elsewhere
    <3>3. Link(s, d)
      BY <2>5 DEF Inv, Account
    <3>4. st[d].destroyed => st'[d].destroyed
      BY <1>1, <1>4
    <3>5. Offers(s, d)' = Offers(s, d) /\ st'[s].buf = st[s].buf
      BY <1>1, <3>2
    <3> QED
      BY <1>2, <3>2, <3>3, <3>4, <3>5, LinkKept
  <2>6. ASSUME NEW s \in Streams, Only(s, d) PROVE Pressure(s, d)'
    <3>1. s # d
      BY <1>5, <2>6, Irreflexive DEF Only
    <3>2. st'[s] = st[s]
      BY <1>1, <3>1 DEF Elsewhere
    <3>3. Pressure(s, d)
      BY <2>6 DEF Inv, Pressed
    <3>4. st[s].flowing # "on" /\ ~DrainTick(d)
      BY <1>1, <2>2, <3>3 DEF Pressure, Full
    <3>5. Once(<<"drain", d>>, ticks')
      <4>1. PICK t : t = <<"drain", d>>
        OBVIOUS
      <4>2. t \in Tasks \X Streams /\ t \notin Range(Q)
        BY <1>6, <3>4, <4>1 DEF Tasks, DrainTick
      <4>3. ticks' = Q \o <<t>>
        BY <1>3, <2>1, <4>1
      <4>4. Once(t, Q \o <<t>>)
        BY <1>6, <4>2, OnceNew
      <4> QED
        BY <4>1, <4>3, <4>4
    <3>6. ~Handing(s, d)'
      BY <1>1 DEF Handing
    <3>7. /\ wLen'[d] = 0 /\ ~st'[d].needDrain /\ app' = app
          /\ wLen'[d] < app.hwm + Newest(d)'
      BY <1>1, <1>2, <1>3, <1>5, <2>1, <2>3
    <3> QED
      BY <3>2, <3>4, <3>5, <3>6, <3>7 DEF Pressure
  <2> QED
    BY <2>4, <2>5, <2>6
<1>8. CASE ~Drained(d, f, g, N, P)
  <2>1. <<"drain", d>> \notin Range(N)
    <3>1. SUFFICES ASSUME <<"drain", d>> \in Range(N) PROVE FALSE
      OBVIOUS
    <3>2. N # <<>>
      BY <3>1, RangeFew
    <3>3. CASE Finalized(d, f, g, N, P)
      BY <3>1, <3>3, RangeFew DEF Finalized
    <3> QED
      BY <1>3, <1>8, <3>2, <3>3 DEF Begun, Rested
  <2>2. g.needDrain = st[d].needDrain
    <3>1. g.needDrain = f.needDrain
      BY <1>3, <1>8 DEF Begun, Finalized, Rested
    <3>2. f.needDrain = st[d].needDrain
      BY <1>3 DEF Readied
    <3> QED
      BY <3>1, <3>2
  <2>3. Range(ticks') = Range(Q) \cup Range(N)
    BY <1>3, <1>4, <1>6, RangeConcat
  <2>4. DrainTick(d)' <=> DrainTick(d)
    BY <1>6, <2>1, <2>3 DEF DrainTick
  <2>5. ASSUME Once(<<"drain", d>>, ticks) PROVE Once(<<"drain", d>>, ticks')
    BY <1>3, <1>4, <1>6, <2>1, <2>5, OnceConcat
  <2>6. wLen'[d] \in Nat /\ wLen'[d] <= wLen[d]
    BY <1>2, <1>5
  <2>7. WriteSide(d)
    BY <1>1, <1>2, <1>4, <2>2, <2>4, <2>5, <2>6 DEF WriteSide
  <2> QED
    BY <1>1, <2>7, WriteSideKept
<1> QED
  BY <1>7, <1>8

(* ... so _processWrites keeps the invariant.                              *)
LEMMA ProcessKeeps ==
  ASSUME Inv, NEW d \in Streams, NEW f, NEW g, NEW N, NEW P, NEW Q, NEW A, NEW B,
         Processes(d, f, g, N, P, Q, A, B)
  PROVE  Inv'
<1>1. /\ Structure' /\ Elsewhere(d) /\ Processed(d, g, N) /\ st'[d] = g
      /\ \A x, y : Offers(x, y) = {} /\ Offers(x, y)' = {}
  BY ProcessAround
<1>2. /\ Written1(d)' /\ Accepted(d)' = Accepted(d)
      /\ Given(d)' = Given(d) /\ (Exact(d)' => Exact(d))
  BY ProcessAccount
<1>3. /\ \A s \in Streams :
           d \in Range(app.pipes[s]) => Link(s, d)' /\ (Only(s, d) => Pressure(s, d)')
      /\ wLen'[d] >= app.hwm => st'[d].needDrain
  BY ProcessPressure
<1>4. UNCHANGED <<app, produced, got, evs>>
  BY DEF Processes
<1>5. /\ g.buf = st[d].buf /\ g.flowing = st[d].flowing /\ g.destroyed = st[d].destroyed
      /\ g.emittedEnd = st[d].emittedEnd /\ g.ended = st[d].ended
      /\ st[d].finalCalled => g.finalCalled
      /\ g.wEnded => d # Source /\ st[Source].ended /\ (~g.destroyed => Accepted(d) = produced)
      /\ g.finalCalled => /\ g.wEnded /\ Len(got[d]) = produced /\ g.writing = None
                          /\ g.queue = <<>>
  BY <1>1 DEF Processed
<1>6. \A y \in Range(app.pipes[d]) : Link(d, y)' /\ (Only(d, y) => Pressure(d, y)')
  <2>1. ReadSide(d)
    BY <1>1, <1>2, <1>5 DEF ReadSide
  <2> QED
    BY <1>1, <2>1, ReadSideKept
<1>7. Over(d)'
  <2>1. Over(d)
    BY DEF Inv, Ended
  <2>2. st[Source].ended => st'[Source].ended
    BY <1>1, <1>5, StreamsAssumption DEF Elsewhere
  <2>3. /\ g.emittedEnd => g.ended /\ g.buf = <<>>
        /\ g.ended /\ d # Source => g.finalCalled
        /\ "end" \in Range(evs[d]) => g.emittedEnd
        /\ "finish" \in Range(evs[d]) => g.finalCalled
    BY <1>5, <2>1 DEF Over
  <2> QED
    BY <1>1, <1>2, <1>4, <1>5, <2>2, <2>3 DEF Over
<1>8. Here(d)
  BY <1>1, <1>2, <1>3, <1>5, <1>6, <1>7 DEF Here
<1>9. Iterated'
  <2>1. st'[Source].buf = st[Source].buf
    BY <1>1, <1>5, StreamsAssumption DEF Elsewhere
  <2> QED
    BY <1>4, <2>1, IteratedKept
<1> QED
  BY <1>1, <1>8, <1>9, ElsewhereKeeps DEF Inv

(* _processWrites as a microtask.                                          *)
LEMMA RunProcessWritesKeeps ==
  ASSUME Inv, RunProcessWrites
  PROVE  Inv'
<1> SUFFICES ASSUME NEW d, d = Of
             PROVE  Inv'
  OBVIOUS
<1>0. PICK f, g, N, P, Q : /\ f = st[d] /\ g = ProcessWrites(d, f) /\ N = ProcessTicks(d, f)
                           /\ P = ProcessFrames(d, f) /\ Q = Tail(ticks)
  OBVIOUS
<1>1. /\ stack = <<>> /\ ticks # <<>> /\ Head(ticks)[1] = "processWrites" /\ d \in Streams
      /\ st[d] \in FieldsOf(Chunk)
  BY Task DEF RunProcessWrites
<1>2. /\ UNCHANGED <<app, wLen, asked, final, settled, iter, produced, got, evs, upsets>>
      /\ st' = [st EXCEPT ![d] = g] /\ ticks' = Q \o N /\ stack' = P \o <<>>
  BY <1>0 DEF RunProcessWrites, Then, Call
<1>3. /\ Carries(Chunk, f, g)
      /\ \/ Begun(d, f, g, N, P) \/ Finalized(d, f, g, N, P)
         \/ Drained(d, f, g, N, P) \/ Rested(d, f, g, N, P)
  <2>1. f \in FieldsOf(Chunk)
    BY <1>0, <1>1
  <2> QED
    BY <1>0, <2>1, ProcessCases
<1>4. Readied(d, f)
  <2>1. Over(d) /\ (d = Source => ~st[d].wEnded)
    BY <1>1 DEF Inv, Ended, Structure, Plain
  <2>2. st[d].wEnded => /\ d # Source /\ st[Source].ended
                        /\ ~st[d].destroyed => Accepted(d) = produced
    BY <2>1 DEF Over
  <2> QED
    BY <1>0, <1>1, <2>2 DEF Readied
<1>5. Left(Q)
  BY <1>0, <1>1 DEF Left
<1>6. \A h \in Calls : h.at \notin Flow
  BY <1>1, NoFlow DEF Inv
<1>7. Resumes(d, P, <<>>, <<>>)
  <2>1. P = <<>> \/ P = <<Place("write", d)>>
    BY <1>3 DEF Begun, Finalized, Drained, Rested
  <2>2. (P \o <<>>) \o <<>> = P \o <<>>
    BY <2>1
  <2>3. <<>> \in Seq(FramesOf(Chunk)) /\ Range(<<>>) = {} /\ Ordered(Depth, <<>>)
    BY RangeFew, OrderedFew
  <2> QED
    BY <1>2, <2>1, <2>2, <2>3 DEF Resumes
<1>8. Processes(d, f, g, N, P, Q, <<>>, <<>>)
  BY <1>2, <1>3, <1>4, <1>5, <1>6, <1>7 DEF Processes
<1> QED
  BY <1>1, <1>8, ProcessKeeps

(* end() of a destination: its source has handed over every chunk.         *)
LEMMA EndingAll ==
  ASSUME Inv, NEW s \in Streams, NEW d \in Range(app.pipes[s]), st[s].emittedEnd,
         \A h \in Calls : h.at \notin Flow
  PROVE  st[Source].ended /\ (~st[d].destroyed => Accepted(d) = produced)
<1>1. /\ \A x, y : ~Handing(x, y)
      /\ \A e : ~In(e) /\ ~Passing(e)
  BY Silent
<1>2. /\ st[s].ended /\ st[s].buf = <<>>
      /\ s # Source => /\ st[s].finalCalled /\ st[s].wEnded /\ Len(got[s]) = produced
                       /\ st[s].writing = None /\ st[Source].ended
  BY DEF Inv, Ended, Over
<1>3. Given(s) = produced
  BY <1>1, <1>2 DEF Given, Taken
<1>4. ASSUME ~st[d].destroyed PROVE Accepted(d) = produced
  <2>1. Exact(s) /\ Link(s, d)
    BY DEF Exact, Inv, Account
  <2>2. Passed(s, d) + Len(st[s].buf) = Given(s)
    BY <1>4, <2>1 DEF Link
  <2>3. Passed(s, d) = Accepted(d) /\ Len(st[s].buf) = 0
    BY <1>1, <1>2 DEF Passed
  <2>4. Accepted(d) \in Nat
    BY Pipes, Numbers DEF Inv, Structure
  <2> QED
    BY <1>3, <2>2, <2>3, <2>4
<1> QED
  BY <1>2, <1>4

(* The end of a source ends its destinations.                              *)
LEMMA EndingEnds ==
  ASSUME Inv, Ending, Rest # <<>>
  PROVE  Inv'
<1> SUFFICES ASSUME NEW s, NEW d, s = Self, d = Head(Rest)
             PROVE  Inv'
  OBVIOUS
<1>0. PICK h, f, g, N, P, a, A : /\ h = Head(stack) /\ f = [st[d] EXCEPT !.wEnded = TRUE]
                          /\ g = ProcessWrites(d, f) /\ N = ProcessTicks(d, f)
                          /\ P = ProcessFrames(d, f)
                          /\ a = Frame("ending", s, None, Tail(Rest), TRUE) /\ A = <<a>>
  OBVIOUS
<1>1. /\ stack # <<>> /\ h.at = "ending" /\ h.of = s /\ s \in Streams /\ FrameOK(h)
      /\ Structure /\ Typed
      /\ Under \in Seq(FramesOf(Chunk)) /\ Ordered(Depth, Under) /\ Range(Under) \subseteq Calls
      /\ h.to = Rest /\ Rest \in Seq(Streams)
  <2>1. stack # <<>> /\ h.at = "ending" /\ Structure /\ Typed /\ h.of = s /\ h.to = Rest
    BY <1>0 DEF Ending, At, Inv, Structure, Self, Rest
  <2> QED
    BY <1>0, <2>1, Top
<1>2. /\ UNCHANGED <<app, wLen, asked, final, settled, iter, produced, got, evs, upsets>>
      /\ st' = [st EXCEPT ![d] = g] /\ ticks' = ticks \o N /\ stack' = (P \o A) \o Under
  BY <1>0 DEF Ending, Tick, Call
<1>3. PICK r, t : r = Rest /\ t = Tail(Rest)
  OBVIOUS
<1>4. /\ st[s].emittedEnd /\ Range(r) \subseteq Range(app.pipes[s])
      /\ r \in Seq(Streams) /\ r # <<>>
      /\ \A i, j \in 1..Len(r) : r[i] = r[j] => i = j
  BY <1>1, <1>3 DEF FrameOK
<1>5. /\ d \in Range(app.pipes[s]) /\ t \in Seq(Streams) /\ Range(t) \subseteq Range(app.pipes[s])
      /\ \A i, j \in 1..Len(t) : t[i] = t[j] => i = j
  <2>1. t = Tail(r) /\ d = Head(r)
    BY <1>3
  <2>2. Tail(r) \in Seq(Streams) /\ Range(r) = {Head(r)} \cup Range(Tail(r))
    BY <1>4, RangeTail
  <2>3. \A i, j \in 1..Len(Tail(r)) : Tail(r)[i] = Tail(r)[j] => i = j
    BY <1>4, HeadOnce
  <2> QED
    BY <1>4, <2>1, <2>2, <2>3
<1>6. d \in Streams /\ d # s /\ d # Source /\ st[d] \in FieldsOf(Chunk)
  BY <1>1, <1>5, Irreflexive, Pipes, Numbers
<1>7. \A e \in Calls : e.at \notin Flow
  BY <1>0, <1>1, NoFlow DEF Flow
<1>8. st[Source].ended /\ (~st[d].destroyed => Accepted(d) = produced)
  BY <1>1, <1>4, <1>5, <1>7, EndingAll
<1>9. Readied(d, f)
  <2>1. PICK k : k = st[d]
    OBVIOUS
  <2>2. f = [k EXCEPT !.wEnded = TRUE] /\ k \in FieldsOf(Chunk)
    BY <1>0, <1>6, <2>1
  <2>3. /\ f \in FieldsOf(Chunk)
        /\ f.buf = k.buf /\ f.flowing = k.flowing /\ f.destroyed = k.destroyed
        /\ f.emittedEnd = k.emittedEnd /\ f.ended = k.ended
        /\ f.writing = k.writing /\ f.queue = k.queue
        /\ f.finalCalled = k.finalCalled /\ f.needDrain = k.needDrain /\ f.wEnded
    BY <2>2, SetWEnded
  <2> QED
    BY <1>6, <1>8, <2>1, <2>3 DEF Readied
<1>10. /\ Carries(Chunk, f, g)
       /\ \/ Begun(d, f, g, N, P) \/ Finalized(d, f, g, N, P)
          \/ Drained(d, f, g, N, P) \/ Rested(d, f, g, N, P)
  <2>1. f \in FieldsOf(Chunk)
    BY <1>9 DEF Readied
  <2> QED
    BY <1>0, <2>1, ProcessCases
<1>11. /\ a \in FramesOf(Chunk) /\ a.at = "ending" /\ a.of = s /\ a.to = t
  <2>1. a = [at |-> "ending", of |-> s, chunk |-> None, to |-> t, ok |-> TRUE]
    BY <1>0, <1>3 DEF Frame
  <2>2. "ending" \in Places
    BY DEF Places
  <2> QED
    BY <1>1, <1>5, <2>1, <2>2 DEF FramesOf
<1>12. FrameOK(a)'
  <2>1. st'[s] = st[s] /\ app' = app
    BY <1>1, <1>2, <1>6 DEF Typed
  <2> QED
    BY <1>4, <1>5, <1>11, <2>1 DEF FrameOK
<1>13. Resumes(d, P, A, Under)
  <2>1. P = <<>> \/ P = <<Place("write", d)>>
    BY <1>10 DEF Begun, Finalized, Drained, Rested
  <2>2. A \in Seq(FramesOf(Chunk)) /\ Range(A) = {a}
    <3>1. <<a>> \in Seq(FramesOf(Chunk)) /\ Range(<<a>>) = {a}
      BY <1>11, RangeFew
    <3> QED
      BY <1>0, <3>1
  <2>3. \A b \in Range(A) : FrameOK(b)' /\ b.at \notin Flow
    BY <1>11, <1>12, <2>2 DEF Flow
  <2> QED
    BY <1>1, <1>2, <2>1, <2>2, <2>3 DEF Resumes
<1>14. Processes(d, f, g, N, P, ticks, A, Under)
  BY <1>2, <1>7, <1>9, <1>10, <1>13 DEF Processes, Left
<1> QED
  BY <1>6, <1>14, ProcessKeeps

-----------------------------------------------------------------------------
(* The fields of a new stream.                                             *)
LEMMA InitFields ==
  ASSUME Init, NEW s \in Streams
  PROVE  /\ st[s] \in FieldsOf(Chunk) /\ st[s].buf = <<>> /\ st[s].queue = <<>>
         /\ st[s].writing = None /\ ~st[s].wEnded /\ ~st[s].finalCalled /\ ~st[s].needDrain
         /\ ~st[s].ended /\ ~st[s].emittedEnd
         /\ st[s].flowing = "on" => app.pipes[s] # <<>>
<1>1. PICK b : b = IF app.pipes[s] # <<>> THEN "on" ELSE "null"
  OBVIOUS
<1>2. st[s] = [Fresh EXCEPT !.flowing = b]
  BY <1>1 DEF Init
<1>3. b \in {"null", "on", "off"} /\ (b = "on" => app.pipes[s] # <<>>)
  BY <1>1
<1>4. Fresh \in FieldsOf(Chunk)
  <2>1. <<>> \in Seq(Chunk)
    OBVIOUS
  <2> QED
    BY <2>1 DEF Fresh, FieldsOf
<1>5. PICK f : f = Fresh
  OBVIOUS
<1>6. /\ f \in FieldsOf(Chunk) /\ f.buf = <<>> /\ f.queue = <<>>
      /\ f.writing = None /\ ~f.wEnded /\ ~f.finalCalled /\ ~f.needDrain
      /\ ~f.ended /\ ~f.emittedEnd
  BY <1>4, <1>5 DEF Fresh
<1>7. PICK g : g = [f EXCEPT !.flowing = b]
  OBVIOUS
<1>8. /\ g \in FieldsOf(Chunk) /\ g.flowing = b
      /\ g.buf = f.buf /\ g.queue = f.queue /\ g.writing = f.writing /\ g.wEnded = f.wEnded
      /\ g.finalCalled = f.finalCalled /\ g.needDrain = f.needDrain /\ g.ended = f.ended
      /\ g.emittedEnd = f.emittedEnd
  <2>1. f \in FieldsOf(Chunk) /\ b \in {"null", "on", "off"}
    BY <1>3, <1>6
  <2> QED
    BY <1>7, <2>1 DEF FieldsOf
<1>9. st[s] = g
  BY <1>2, <1>5, <1>7
<1> QED
  BY <1>3, <1>6, <1>8, <1>9

(* The invariant holds at the start,                                       *)
LEMMA InitInv == Init => Inv
<1> SUFFICES ASSUME Init PROVE Inv
  OBVIOUS
<1>1. /\ app \in Programs /\ stack = <<>> /\ asked = 0 /\ final = {} /\ settled = "no"
      /\ iter = "idle" /\ produced = 0 /\ upsets = 0 /\ wLen = [s \in Streams |-> 0]
      /\ got = [s \in Streams |-> <<>>] /\ evs = [s \in Streams |-> <<>>]
      /\ ticks = [i \in 1..Len(app.starts) |-> <<"emitData", app.starts[i]>>]
  BY DEF Init
<1>2. ProgramOK(app)
  BY <1>1, ProgramsAssumption
<1>3. app.starts \in Seq(Streams) /\ app.chunks \in Nat /\ MaxUpsets \in Nat
  BY <1>2, StreamsAssumption DEF ProgramOK
<1>4. ticks \in Seq(Tasks \X Streams) /\ \A i \in 1..Len(ticks) : ticks[i][1] = "emitData"
  <2>1. PICK q : q = app.starts
    OBVIOUS
  <2>2. q \in Seq(Streams) /\ ticks = [i \in 1..Len(q) |-> <<"emitData", q[i]>>]
    BY <1>1, <1>3, <2>1
  <2>3. "emitData" \in Tasks
    BY DEF Tasks
  <2>4. \A i \in 1..Len(q) : <<"emitData", q[i]>> \in Tasks \X Streams
    BY <2>2, <2>3
  <2>5. ticks \in Seq(Tasks \X Streams) /\ Len(ticks) = Len(q)
    BY <2>2, <2>4
  <2>6. \A i \in 1..Len(ticks) : ticks[i] = <<"emitData", q[i]>>
    BY <2>2, <2>5
  <2> QED
    BY <2>5, <2>6
<1>5. \A t \in Range(ticks) : t[1] = "emitData"
  <2>1. ASSUME NEW t \in Range(ticks) PROVE t[1] = "emitData"
    <3>1. PICK i \in 1..Len(ticks) : t = ticks[i]
      BY <1>4, <2>1, MemRange
    <3> QED
      BY <1>4, <3>1
  <2> QED
    BY <2>1
<1>6. Calls = {}
  BY <1>1, RangeFew DEF Calls
<1>7. Typed
  <2>1. st \in [Streams -> FieldsOf(Chunk)]
    <3>1. st = [s \in Streams |-> st[s]]
      BY DEF Init
    <3> QED
      BY <3>1, InitFields
  <2>2. got \in [Streams -> Seq(Chunk)] /\ evs \in [Streams -> Seq(Events)]
    BY <1>1
  <2>3. stack \in Seq(FramesOf(Chunk))
    BY <1>1
  <2>4. produced \in 0..app.chunks /\ upsets \in 0..MaxUpsets
    BY <1>1, <1>3
  <2>5. /\ wLen \in [Streams -> Nat] /\ asked \in Nat
        /\ final \subseteq Sinks /\ settled \in {"no", "ok", "err"}
        /\ iter \in {"idle", "waiting", "done", "failed"} /\ app \in Programs
    BY <1>1
  <2> QED
    BY <1>4, <2>1, <2>2, <2>3, <2>4, <2>5 DEF Typed
<1>8. Structure
  <2>1. Ordered(Depth, stack)
    BY <1>1, OrderedFew
  <2>2. Plain
    <3>1. Source \in Streams
      BY StreamsAssumption
    <3>2. /\ st[Source].writing = None /\ st[Source].queue = <<>> /\ ~st[Source].wEnded
          /\ ~st[Source].finalCalled /\ ~st[Source].needDrain
      BY <3>1, InitFields
    <3>3. \A s \in Streams : st[s].flowing = "on" => app.pipes[s] # <<>>
      BY InitFields
    <3> QED
      BY <1>1, <3>2, <3>3 DEF Plain
  <2>3. \A t \in Range(ticks) : TickOK(t)
    BY <1>5 DEF TickOK
  <2> QED
    BY <1>6, <1>7, <2>1, <2>2, <2>3 DEF Structure
<1>9. /\ \A x, y : Offers(x, y) = {} /\ ~Handing(x, y)
      /\ \A e : ~In(e) /\ ~Passing(e) /\ ~Pausing(e)
  BY <1>6, Silent
<1>10. ASSUME NEW d \in Streams
       PROVE  /\ Len(got[d]) = 0 /\ Len(st[d].queue) = 0 /\ Len(st[d].buf) = 0
              /\ Taken(d) = 0 /\ Accepted(d) = 0 /\ wLen[d] = 0
              /\ Given(d) = 0 /\ \A s : Passed(s, d) = 0
  <2>1. Len(got[d]) = 0 /\ Len(st[d].queue) = 0 /\ Len(st[d].buf) = 0 /\ st[d].writing = None
    BY <1>1, InitFields
  <2>2. Taken(d) = 0
    BY <1>9, <2>1 DEF Taken
  <2>3. Accepted(d) = 0 /\ wLen[d] = 0
    BY <1>1, <2>1, <2>2 DEF Accepted
  <2>4. Given(d) = 0 /\ \A s : Passed(s, d) = 0
    BY <1>1, <1>9, <2>1, <2>2, <2>3 DEF Given, Passed
  <2> QED
    BY <2>1, <2>2, <2>3, <2>4
<1>11. Account
  <2>1. ASSUME NEW d \in Streams PROVE Written1(d)
    <3>1. Len(got[d]) = 0 /\ Len(st[d].queue) = 0 /\ st[d].writing = None /\ ~In(d)
      BY <1>9, <1>10, InitFields
    <3>2. Measured(d)
      <4>1. Accepted(d) = 0 /\ Past(d) = 0 /\ wLen[d] = 0 /\ 0 \in 0..Chunks
        BY <1>10, <3>1, StreamsAssumption DEF Past
      <4>2. Counted(d, 0) \in Nat
        BY <1>7, <4>1, Counts
      <4> QED
        BY <4>1, <4>2 DEF Measured
    <3> QED
      BY <3>1, <3>2 DEF Written1
  <2>2. ASSUME NEW s \in Streams, NEW d \in Range(app.pipes[s]) PROVE Link(s, d)
    <3>1. d \in Streams
      BY <1>7, <2>2, Pipes
    <3>2. /\ Len(st[s].buf) = 0 /\ Given(s) = 0 /\ Passed(s, d) = 0
          /\ Offers(s, d) = {}
      BY <1>9, <1>10, <3>1
    <3> QED
      BY <3>2 DEF Link
  <2>3. Iterated
    <3>1. Len(got[Source]) = 0 /\ Len(st[Source].buf) = 0
      BY <1>10, StreamsAssumption
    <3> QED
      BY <1>1, <3>1 DEF Iterated
  <2> QED
    BY <2>1, <2>2, <2>3 DEF Account
<1>12. Ended
  <2>1. ASSUME NEW s \in Streams PROVE Over(s)
    <3>1. ~st[s].wEnded /\ ~st[s].finalCalled /\ ~st[s].ended /\ ~st[s].emittedEnd
      BY InitFields
    <3>2. Range(evs[s]) = {}
      BY <1>1, RangeFew
    <3> QED
      BY <3>1, <3>2 DEF Over
  <2> QED
    BY <1>1, <2>1 DEF Ended
<1>13. Pressed
  <2>1. app.hwm \in Nat /\ app.hwm > 0
    BY <1>7, Pipes
  <2>2. \A d \in Streams : wLen[d] = 0 /\ ~st[d].needDrain
    BY <1>10, InitFields
  <2>3. \A d : ~DrainTick(d) /\ Once(<<"drain", d>>, ticks)
    BY <1>4, <1>5 DEF DrainTick, Once
  <2>4. ASSUME NEW s \in Streams, NEW d \in Streams PROVE Pressure(s, d)
    <3>1. Newest(d) = 0
      BY <1>10 DEF Newest
    <3> QED
      BY <1>9, <2>1, <2>2, <2>3, <3>1 DEF Pressure, Full
  <2> QED
    BY <2>1, <2>2, <2>4 DEF Pressed
<1> QED
  BY <1>8, <1>11, <1>12, <1>13 DEF Inv

(* ... is kept by stuttering,                                              *)
LEMMA SameInv == Inv /\ UNCHANGED vars => Inv'
<1> SUFFICES ASSUME Inv, UNCHANGED vars PROVE Inv'
  OBVIOUS
<1>1. st' = st /\ ticks' = ticks /\ stack' = stack
      /\ UNCHANGED <<app, wLen, asked, final, settled, iter, produced, got, evs, upsets>>
  BY DEF vars
<1>2. CalmFrames(<<>>, stack)
  <2>1. <<>> \in Seq(FramesOf(Chunk)) /\ stack' = <<>> \o stack
    BY <1>1 DEF Inv, Structure, Typed
  <2> QED
    BY <2>1, RangeFew DEF CalmFrames
<1> QED
  BY <1>1, <1>2, FieldsSame, RestSame, TicksSame, CalmStep

(* ... by the running code,                                                *)
LEMMA RunningKeeps == Inv /\ Running => Inv'
<1> SUFFICES ASSUME Inv, Running PROVE Inv'
  OBVIOUS
<1>1. CASE DrainData
  BY <1>1, DrainDataEnds, DrainDataPops
<1>2. CASE EmitDataRest
  BY <1>2, EmitDataRestKeeps
<1>3. CASE CallRead
  BY <1>3, CallReadKeeps
<1>4. CASE ReadPushes
  BY <1>4, ReadPushesKeeps
<1>5. CASE ReadEnds
  BY <1>5, ReadEndsKeeps
<1>6. CASE ReadAgain
  BY <1>6, ReadAgainKeeps
<1>7. CASE EmitData
  BY <1>7, EmitDataDone, EmitDataRejected, EmitDataWrites
<1>8. CASE Wrote
  BY <1>8, WroteKeeps
<1>9. CASE WriteLater
  BY <1>9, WriteLaterKeeps
<1>10. CASE Transformed
  BY <1>10, TransformedKeeps
<1>11. CASE FinalLater
  BY <1>11, FinalLaterKeeps
<1>12. CASE Ending
  BY <1>12, EndingCloses, EndingEnds
<1>13. CASE Tried
  BY <1>13, TriedNothing, TriedPops
<1>14. CASE Teardown
  BY <1>14, TeardownKeeps
<1>15. ASSUME NEW e \in BOOLEAN, ReadReturns(e) \/ WriteNow(e) \/ FinalNow(e) PROVE Inv'
  BY <1>15, ReadReturnsKeeps, WriteNowKeeps, FinalNowKeeps
<1> QED
  BY <1>1, <1>2, <1>3, <1>4, <1>5, <1>6, <1>7, <1>8, <1>9, <1>10, <1>11, <1>12, <1>13,
     <1>14, <1>15 DEF Running

(* ... by the microtasks,                                                  *)
LEMMA MicrotaskKeeps == Inv /\ Microtask => Inv'
BY RunEmitDataKeeps, RunCallReadKeeps, RunReadableKeeps, RunEndKeeps, RunProcessWritesKeeps,
   RunDrainKeeps, RunFinalKeeps, RunFinishKeeps, RunErrorKeeps, RunCloseKeeps DEF Microtask

(* ... by the calls of the program,                                        *)
LEMMA ProgramKeeps == Inv /\ Program => Inv'
<1> SUFFICES ASSUME Inv, Program PROVE Inv'
  OBVIOUS
<1>1. CASE PushLater \/ EndLater \/ IterNext \/ IterReturn
  BY <1>1, PushLaterKeeps, EndLaterKeeps, IterNextKeeps, IterReturnKeeps
<1>2. ASSUME NEW d \in Streams, NEW e \in BOOLEAN,
             WriteCallsBack(d, e) \/ FinalCallsBack(d, e) \/ Destroy(d, e)
      PROVE  Inv'
  BY <1>2, WriteCallsBackKeeps, FinalCallsBackKeeps, DestroyKeeps
<1> QED
  BY <1>1, <1>2 DEF Program

(* ... so by every step,                                                   *)
LEMMA NextInv == Inv /\ [Next]_vars => Inv'
BY SameInv, RunningKeeps, MicrotaskKeeps, ProgramKeeps DEF Next

(* ... and holds throughout.                                               *)
LEMMA InvAlways == Spec => []Inv
BY InitInv, NextInv, PTL DEF Spec

(* Sequences over a larger set.                                            *)
LEMMA SeqGrows ==
  ASSUME NEW X, NEW Y, X \subseteq Y
  PROVE  Seq(X) \subseteq Seq(Y)
<1>1. ASSUME NEW q \in Seq(X) PROVE q \in Seq(Y)
  <2>1. q \in [1..Len(q) -> X] /\ Len(q) \in Nat
    OBVIOUS
  <2>2. q \in [1..Len(q) -> Y]
    BY <2>1
  <2> QED
    BY <2>1, <2>2, SeqDef
<1> QED
  BY <1>1

(* Every field keeps its type whatever the streams, the pipes and the      *)
(* order of the callbacks: the microtasks and the frames of every run      *)
(* belong to streams, and only chunks that were pushed are buffered,       *)
(* queued or delivered.                                                    *)
THEOREM TypeCorrect == Spec => []TypeOK
<1>1. Inv => TypeOK
  <2> SUFFICES ASSUME Inv PROVE TypeOK
    OBVIOUS
  <2>1. Typed
    BY DEF Inv, Structure
  <2>2. app.chunks \in 0..Chunks /\ Chunks \in Nat /\ produced \in 0..app.chunks
    BY <2>1, Pipes, StreamsAssumption DEF Typed
  <2>3. Chunk \subseteq 1..Chunks /\ produced \in 0..Chunks
    BY <2>2 DEF Chunk
  <2>4. Seq(Chunk) \subseteq Seq(1..Chunks)
    BY <2>3, SeqGrows
  <2>5. FieldsOf(Chunk) \subseteq StreamRecord
    BY <2>3, <2>4 DEF FieldsOf, StreamRecord
  <2>6. st \in [Streams -> StreamRecord] /\ got \in [Streams -> Seq(1..Chunks)]
    BY <2>1, <2>4, <2>5 DEF Typed
  <2>7. FramesOf(Chunk) \subseteq [at : Places, of : Streams, chunk : {None} \cup 1..Chunks,
                                    to : Seq(Streams), ok : BOOLEAN]
    BY <2>3 DEF FramesOf
  <2>8. stack \in Seq([at : Places, of : Streams, chunk : {None} \cup 1..Chunks,
                        to : Seq(Streams), ok : BOOLEAN])
    BY <2>1, <2>7, SeqGrows DEF Typed
  <2> QED
    BY <2>1, <2>3, <2>6, <2>8 DEF Typed, TypeOK
<1> QED
  BY <1>1, InvAlways, PTL

(* The chunks a destination holds run from the first that is not past to   *)
(* the last that was accepted.                                             *)
LEMMA HeldChunks ==
  ASSUME Inv, NEW d \in Streams, Held(d) # <<>>
  PROVE  Head(Held(d)) = Past(d) + 1 /\ Last(Held(d)) = Accepted(d) /\ Accepted(d) # 0
<1>1. /\ Taken(d) \in Nat /\ Len(st[d].queue) \in Nat /\ st[d].queue \in Seq(Chunk) /\ Written1(d)
  BY Numbers DEF Inv, Structure, Account
<1>2. /\ Past(d) \in 0..Accepted(d) /\ Accepted(d) \in Nat
      /\ st[d].writing # None => st[d].writing = Taken(d) /\ Past(d) = Taken(d) - 1
      /\ st[d].writing = None => Past(d) = Taken(d)
  BY Holdings
<1>3. PICK q, n, t : q = st[d].queue /\ n = Len(q) /\ t = Taken(d)
  OBVIOUS
<1>4. /\ q \in Seq(Chunk) /\ n \in Nat /\ t \in Nat /\ Accepted(d) = t + n
      /\ \A i \in 1..n : q[i] = t + i
  BY <1>1, <1>3 DEF Written1, Accepted
<1>5. CASE st[d].writing = None
  <2>1. Held(d) = <<>> \o q
    BY <1>3, <1>5 DEF Held
  <2>2. Held(d) = q /\ n >= 1 /\ 1 \in 1..n /\ n \in 1..n
    BY <1>3, <1>4, <2>1
  <2>3. Head(q) = q[1] /\ Last(q) = q[n] /\ q[1] = t + 1 /\ q[n] = t + n
    BY <1>3, <1>4, <2>2 DEF Last
  <2> QED
    BY <1>2, <1>3, <1>4, <1>5, <2>2, <2>3
<1>6. CASE st[d].writing # None
  <2>1. Held(d) = <<t>> \o q /\ Past(d) = t - 1 /\ Past(d) \in Nat
    BY <1>2, <1>3, <1>6 DEF Held
  <2>2. PICK h : h = <<t>> \o q
    OBVIOUS
  <2>3. /\ Len(h) = n + 1 /\ h[1] = t /\ Head(h) = h[1]
        /\ \A i \in 1..n : h[i + 1] = q[i]
    BY <1>3, <1>4, <2>2
  <2>4. Head(h) = Past(d) + 1 /\ t # 0
    BY <1>4, <2>1, <2>3
  <2>5. Last(h) = t + n
    <3>1. Last(h) = h[n + 1]
      BY <2>3 DEF Last
    <3>2. CASE n = 0
      BY <1>4, <2>3, <3>1, <3>2
    <3>3. CASE n # 0
      <4>1. n \in 1..n
        BY <1>4, <3>3
      <4> QED
        BY <1>4, <2>3, <3>1, <4>1
    <3> QED
      BY <3>2, <3>3
  <2> QED
    BY <1>4, <2>1, <2>2, <2>4, <2>5
<1> QED
  BY <1>5, <1>6

(* The counter of a destination that is its source's only pipe is what     *)
(* write() counted for the chunks it holds, and without the newest of them *)
(* it is below the highWaterMark, whatever the lengths of the chunks,      *)
(* however long the callbacks take and however the pushes, pauses and      *)
(* drains interleave.                                                      *)
THEOREM BackpressureHolds == Spec => []Backpressure
<1>1. Inv => Backpressure
  <2> SUFFICES ASSUME Inv, NEW s \in Streams, Len(app.pipes[s]) = 1, NEW d,
                      d = app.pipes[s][1]
               PROVE  IF Held(d) = <<>> THEN wLen[d] = 0
                      ELSE /\ wLen[d] = Counted(d, Last(Held(d))) - Counted(d, Head(Held(d)) - 1)
                           /\ Counted(d, Last(Held(d)) - 1) - Counted(d, Head(Held(d)) - 1)
                                < app.hwm
    BY DEF Backpressure
  <2>1. PICK p : p = app.pipes[s]
    OBVIOUS
  <2>2. p \in Seq(Streams) /\ Len(p) = 1
    BY <2>1, Pipes DEF Inv, Structure
  <2>3. p[1] \in Range(p) /\ p[1] \in Streams
    <3>1. 1 \in 1..Len(p)
      BY <2>2
    <3>2. \A i \in 1..Len(p) : p[i] \in Range(p)
      BY <2>2, MemRange
    <3> QED
      BY <2>2, <3>1, <3>2
  <2>4. Only(s, p[1])
    BY <2>1, <2>2, <2>3 DEF Only
  <2>5. Pressure(s, p[1])
    BY <2>3, <2>4 DEF Inv, Pressed
  <2>6. /\ d \in Streams /\ wLen[d] < app.hwm + Newest(d) /\ Typed /\ app.hwm \in Nat
        /\ Past(d) \in 0..Accepted(d) /\ Accepted(d) \in 0..Chunks /\ Chunks \in Nat
        /\ Measured(d)
    BY <2>1, <2>3, <2>5, Holdings, Numbers, StreamsAssumption DEF Pressure, Inv, Structure
  <2>7. CASE Held(d) = <<>>
    <3>1. st[d].queue \in Seq(Chunk)
      BY <2>6, Numbers
    <3>2. st[d].writing = None
      <4>1. SUFFICES ASSUME st[d].writing # None PROVE FALSE
        OBVIOUS
      <4>2. PICK w, q : w = st[d].writing /\ q = st[d].queue
        OBVIOUS
      <4>3. <<w>> \o q = <<>> /\ q \in Seq(Chunk)
        BY <2>7, <3>1, <4>1, <4>2 DEF Held
      <4>4. Len(<<w>> \o q) = 1 + Len(q) /\ Len(q) \in Nat
        BY <4>3
      <4> QED
        BY <4>3, <4>4
    <3>3. st[d].queue = <<>>
      BY <2>7, <3>1, <3>2 DEF Held
    <3> QED
      BY <2>6, <2>7, <3>2, <3>3, NothingHeld
  <2>8. CASE Held(d) # <<>>
    <3> DEFINE a == Counted(d, Accepted(d))  b == Counted(d, Accepted(d) - 1)
               m == Counted(d, Past(d))
    <3>1. Head(Held(d)) = Past(d) + 1 /\ Last(Held(d)) = Accepted(d) /\ Accepted(d) # 0
      BY <2>6, <2>8, HeldChunks
    <3>2. Head(Held(d)) - 1 = Past(d) /\ Past(d) \in 0..Chunks /\ Accepted(d) - 1 \in 0..Chunks
      BY <2>6, <3>1
    <3>3. a \in Nat /\ b \in Nat /\ m \in Nat
      BY <2>6, <3>2, Counts
    <3>4. wLen[d] = a - m /\ Newest(d) = a - b
      BY <2>6, <3>1 DEF Measured, Newest, Weight
    <3>5. b - m < app.hwm
      <4> HIDE DEF a, b, m
      <4> QED
        BY <2>6, <3>3, <3>4
    <3> QED
      BY <2>8, <3>1, <3>2, <3>4, <3>5
  <2> QED
    BY <2>7, <2>8
<1> QED
  BY <1>1, InvAlways, PTL

-----------------------------------------------------------------------------
(* The refinement.  Who has received what, and who was told the end.       *)
Receivers == Sinks \cup {Source}
Sent == [i \in 1..produced |-> i]
Inbox == [r \in Receivers |-> got[r]]
Informed == [r \in Receivers |-> Told(r)]

(* The chunks sent are 1, 2, ...                                           *)
LEMMA SentSeq ==
  ASSUME produced \in Nat
  PROVE  Sent \in Seq(Nat) /\ Len(Sent) = produced /\ \A i \in 1..produced : Sent[i] = i
BY DEF Sent

(* The receivers are streams.                                              *)
LEMMA ReceiversAre == Receivers \subseteq Streams
BY StreamsAssumption DEF Receivers

(* Told is a truth value.                                                  *)
LEMMA ToldBoolean ==
  ASSUME NEW r
  PROVE  Told(r) \in BOOLEAN /\ Told(r)' \in BOOLEAN
<1>1. CASE r = Source
  <2>1. Told(r) = (app.consumer = "iterate" /\ "end" \in Range(evs[Source]))
    BY <1>1 DEF Told, Emitted
  <2>2. Told(r)' = (app'.consumer = "iterate" /\ "end" \in Range(evs'[Source]))
    BY <1>1 DEF Told, Emitted
  <2> QED
    BY <2>1, <2>2
<1>2. CASE r # Source
  <2>1. Told(r) = ("finish" \in Range(evs[r]))
    BY <1>2 DEF Told, Emitted
  <2>2. Told(r)' = ("finish" \in Range(evs'[r]))
    BY <1>2 DEF Told, Emitted
  <2> QED
    BY <2>1, <2>2
<1> QED
  BY <1>1, <1>2

(* A step that delivers and tells nothing is a stutter.                    *)
LEMMA NothingNew ==
  ASSUME produced' = produced, \A r \in Receivers : got'[r] = got[r],
         \A r \in Receivers : Told(r)' <=> Told(r)
  PROVE  UNCHANGED <<Sent, Inbox, Informed>>
<1>1. Sent' = Sent
  BY DEF Sent
<1>2. Inbox' = Inbox
  BY DEF Inbox
<1>3. ASSUME NEW r \in Receivers PROVE Told(r)' = Told(r)
  <2>1. Told(r) \in BOOLEAN /\ Told(r)' \in BOOLEAN
    BY ToldBoolean
  <2> QED
    BY <1>3, <2>1
<1>4. Informed' = Informed
  BY <1>3, Zenon DEF Informed
<1> QED
  BY <1>1, <1>2, <1>4

(* At the start nothing was sent, received or told.                        *)
LEMMA InitFifo == Init => Channel!Init
<1> SUFFICES ASSUME Init PROVE Channel!Init
  OBVIOUS
<1>1. /\ produced = 0 /\ got = [s \in Streams |-> <<>>] /\ evs = [s \in Streams |-> <<>>]
  BY DEF Init
<1>2. Sent = <<>>
  BY <1>1 DEF Sent
<1>3. Inbox = [r \in Receivers |-> <<>>]
  BY <1>1, ReceiversAre DEF Inbox
<1>4. ASSUME NEW r \in Receivers PROVE ~Told(r)
  <2>1. r \in Streams /\ Source \in Streams
    BY ReceiversAre, StreamsAssumption
  <2>2. Range(evs[r]) = {} /\ Range(evs[Source]) = {}
    BY <1>1, <2>1, RangeFew
  <2> QED
    BY <2>2 DEF Told, Emitted
<1>5. Informed = [r \in Receivers |-> FALSE]
  <2>1. ASSUME NEW r \in Receivers PROVE Told(r) = FALSE
    BY <1>4 DEF Told, Emitted
  <2> QED
    BY <2>1, Zenon DEF Informed
<1> QED
  BY <1>2, <1>3, <1>5 DEF Channel!Init, Sent, Inbox, Informed, Receivers

(* A push while nobody was told that all is received.                      *)
LEMMA SendsFifo ==
  ASSUME Inv, produced' = produced + 1, ~st[Source].ended, UNCHANGED <<app, got, evs>>
  PROVE  Channel!Send
<1>1. produced \in Nat
  BY Pipes DEF Inv, Structure
<1>2. Sent' = Append(Sent, Len(Sent) + 1)
  <2>1. Len(Sent) = produced /\ Sent \in Seq(Nat)
    BY <1>1, SentSeq
  <2>2. Sent' = [i \in 1..(produced + 1) |-> i]
    BY DEF Sent
  <2>3. PICK n : n = produced
    OBVIOUS
  <2>4. n \in Nat /\ Sent = [i \in 1..n |-> i] /\ Sent' = [i \in 1..(n + 1) |-> i]
    BY <1>1, <2>2, <2>3 DEF Sent
  <2>5. [i \in 1..(n + 1) |-> i] = Append([i \in 1..n |-> i], n + 1)
    BY <2>4
  <2> QED
    BY <2>1, <2>3, <2>4, <2>5
<1>3. ASSUME NEW r \in Receivers PROVE ~Told(r)
  <2>1. r \in Streams /\ Over(r) /\ Over(Source)
    BY ReceiversAre, StreamsAssumption DEF Inv, Ended
  <2> QED
    BY <2>1 DEF Over, Told, Emitted
<1>4. \A r \in Receivers : ~Informed[r]
  BY <1>3 DEF Informed
<1>5. Inbox' = Inbox /\ Informed' = Informed
  BY DEF Inbox, Informed, Told, Emitted
<1> QED
  BY <1>2, <1>4, <1>5 DEF Channel!Send, Sent, Inbox, Informed, Receivers

(* A receiver takes the next chunk.                                        *)
LEMMA ReceivesFifo ==
  ASSUME Inv, NEW r \in Receivers, NEW c \in Chunk, c = Len(got[r]) + 1,
         got' = [got EXCEPT ![r] = Append(got[r], c)], UNCHANGED <<app, produced, evs>>
  PROVE  Channel!Receive(r)
<1>1. /\ produced \in Nat /\ r \in Streams /\ Len(got[r]) \in Nat /\ got \in [Streams -> Seq(Chunk)]
  BY ReceiversAre, Numbers DEF Inv, Structure, Typed
<1>2. /\ Len(got[r]) < produced /\ c \in 1..produced
  BY <1>1 DEF Chunk
<1>3. Len(Sent) = produced /\ Sent[c] = c
  BY <1>1, <1>2, SentSeq
<1>4. Sent' = Sent /\ Informed' = Informed
  BY DEF Sent, Informed, Told, Emitted
<1>5. Inbox[r] = got[r]
  BY DEF Inbox
<1>6. Inbox' = [Inbox EXCEPT ![r] = Append(got[r], c)]
  <2>1. \A x \in Receivers : got'[x] = IF x = r THEN Append(got[r], c) ELSE got[x]
    BY <1>1, ReceiversAre
  <2> QED
    BY <2>1 DEF Inbox
<1>7. Len(Inbox[r]) < Len(Sent)
  BY <1>2, <1>3, <1>5
<1>8. Inbox' = [Inbox EXCEPT ![r] = Append(Inbox[r], Sent[Len(Inbox[r]) + 1])]
  BY <1>3, <1>5, <1>6
<1> QED
  BY <1>4, <1>7, <1>8 DEF Channel!Receive, Sent, Inbox, Informed, Receivers

(* The end is told to a receiver that has everything.                      *)
LEMMA FinishesFifo ==
  ASSUME Inv, NEW r \in Receivers, ~Told(r), Told(r)', Len(got[r]) = produced,
         \A x \in Receivers : x # r => (Told(x)' <=> Told(x)), UNCHANGED <<produced, got>>
  PROVE  Channel!Finish(r)
<1>1. /\ produced \in Nat /\ r \in Streams /\ got[r] \in Seq(Chunk)
      /\ \A i \in 1..Len(got[r]) : got[r][i] = i
  BY ReceiversAre, Numbers DEF Inv, Structure, Account, Written1
<1>2. got[r] = Sent
  <2>1. Sent \in Seq(Nat) /\ Len(Sent) = produced /\ \A i \in 1..produced : Sent[i] = i
    BY <1>1, SentSeq
  <2> QED
    BY <1>1, <2>1, SeqEqual
<1>3. Inbox[r] = Sent /\ Sent' = Sent /\ Inbox' = Inbox
  BY <1>2 DEF Inbox, Sent
<1>4. ~Informed[r]
  BY DEF Informed
<1>5. Informed' = [Informed EXCEPT ![r] = TRUE]
  <2>1. ASSUME NEW x \in Receivers PROVE Told(x)' = IF x = r THEN TRUE ELSE Told(x)
    <3>1. Told(x) \in BOOLEAN /\ Told(x)' \in BOOLEAN
      BY ToldBoolean
    <3>2. CASE x = r
      BY <3>1, <3>2
    <3>3. CASE x # r
      BY <2>1, <3>1, <3>3
    <3> QED
      BY <3>2, <3>3
  <2>2. Informed' = [x \in Receivers |-> Told(x)']
    BY DEF Informed
  <2>3. [Informed EXCEPT ![r] = TRUE] = [x \in Receivers |-> IF x = r THEN TRUE ELSE Told(x)]
    BY DEF Informed
  <2> QED
    BY <2>1, <2>2, <2>3, Zenon
<1> QED
  BY <1>3, <1>4, <1>5 DEF Channel!Finish, Sent, Inbox, Informed, Receivers

(* What a step of the streams is to the channel.                           *)
FifoStep == [Channel!Next]_<<Sent, Inbox, Informed>>

(* A step that changes none of this is a stutter.                          *)
LEMMA StuttersFifo ==
  ASSUME UNCHANGED <<app, produced, got, evs>>
  PROVE  FifoStep
<1>1. \A r : Told(r)' <=> Told(r)
  BY DEF Told, Emitted
<1> QED
  BY <1>1, NothingNew DEF FifoStep

(* _write takes the next chunk.                                            *)
LEMMA WritesFifo ==
  ASSUME Inv, At("write"), NEW d, d = Self,
         got' = [got EXCEPT ![d] = Append(got[d], st[d].writing)],
         UNCHANGED <<app, produced, evs>>
  PROVE  FifoStep
<1>1. PICK h : h = Head(stack)
  OBVIOUS
<1>2. /\ stack # <<>> /\ h.at = "write" /\ h.of = d /\ d \in Streams /\ h \in Calls
      /\ FrameOK(h) /\ Typed
  BY <1>1, AtFlow DEF Flow, Self, Inv, Structure
<1>3. /\ st[d].writing # None /\ d # Source
  BY <1>2 DEF FrameOK, Inv, Structure, Plain
<1>4. In(d)
  BY <1>2 DEF In
<1>5. st[d].writing = Len(got[d]) + 1 /\ st[d].writing \in Chunk /\ got \in [Streams -> Seq(Chunk)]
  <2>1. Written1(d)
    BY <1>2 DEF Inv, Account
  <2>2. st[d].writing = Len(got[d]) + 1
    BY <1>4, <2>1 DEF Written1
  <2>3. st[d].writing \in {None} \cup Chunk
    BY <1>2 DEF Typed, FieldsOf
  <2> QED
    BY <1>2, <1>3, <2>2, <2>3 DEF Typed
<1>6. CASE d \in Receivers
  <2>1. PICK c : c = st[d].writing
    OBVIOUS
  <2>2. /\ c \in Chunk /\ c = Len(got[d]) + 1
        /\ got' = [got EXCEPT ![d] = Append(got[d], c)]
    BY <1>5, <2>1
  <2>3. Channel!Receive(d)
    BY <1>6, <2>2, ReceivesFifo
  <2> QED
    BY <1>6, <2>3 DEF FifoStep, Channel!Next, Receivers
<1>7. CASE d \notin Receivers
  <2>1. \A r \in Receivers : got'[r] = got[r]
    BY <1>5, <1>7, ReceiversAre
  <2>2. \A r : Told(r)' <=> Told(r)
    BY DEF Told, Emitted
  <2> QED
    BY <2>1, <2>2, NothingNew DEF FifoStep
<1> QED
  BY <1>6, <1>7

(* The iterator takes the next chunk.                                      *)
LEMMA TriesFifo ==
  ASSUME Inv, Tried
  PROVE  FifoStep
<1>1. CASE st[Source].buf = <<>>
  <2>1. UNCHANGED <<app, produced, got, evs>>
    BY <1>1 DEF Tried
  <2> QED
    BY <2>1, StuttersFifo
<1>2. CASE st[Source].buf # <<>>
  <2>1. PICK h, b, c : h = Head(stack) /\ b = st[Source].buf /\ c = Head(b)
    OBVIOUS
  <2>2. Source \in Streams /\ Source \in Receivers
    BY StreamsAssumption DEF Receivers
  <2>3. app.consumer = "iterate"
    <3>1. stack # <<>> /\ Head(stack).at = "tried"
      BY DEF Tried, At
    <3>2. FrameOK(Head(stack))
      BY <3>1, Top DEF Inv
    <3> QED
      BY <3>1, <3>2 DEF FrameOK
  <2>4. b \in Seq(Chunk) /\ b # <<>>
    BY <1>2, <2>1, <2>2, Numbers DEF Inv, Structure
  <2>5. c \in Chunk /\ c = b[1] /\ 1 \in 1..Len(b)
    BY <2>1, <2>4
  <2>6. c = Len(got[Source]) + 1
    <3>1. \A i \in 1..Len(b) : b[i] = Len(got[Source]) + i
      BY <2>1, <2>3 DEF Inv, Account, Iterated
    <3> QED
      BY <2>5, <3>1
  <2>7. got' = [got EXCEPT ![Source] = Append(got[Source], c)]
        /\ UNCHANGED <<app, produced, evs>>
    BY <1>2, <2>1 DEF Tried
  <2>8. Channel!Receive(Source)
    BY <2>2, <2>5, <2>6, <2>7, ReceivesFifo
  <2> QED
    BY <2>2, <2>8 DEF FifoStep, Channel!Next, Receivers
<1> QED
  BY <1>1, <1>2

(* One more event.                                                         *)
LEMMA EventAdded ==
  ASSUME Inv, NEW s \in Streams, NEW e \in Events, Emit(s, e)
  PROVE  \A x \in Streams : \A v : Emitted(x, v)' <=> Emitted(x, v) \/ (x = s /\ v = e)
<1>1. evs \in [Streams -> Seq(Events)] /\ evs' = [evs EXCEPT ![s] = Append(evs[s], e)]
  BY DEF Emit, Inv, Structure, Typed
<1>2. PICK q : q = evs[s]
  OBVIOUS
<1>3. q \in Seq(Events)
  BY <1>1, <1>2
<1>4. Range(Append(q, e)) = Range(q) \cup {e}
  BY <1>3, RangeAppend
<1>5. evs'[s] = Append(q, e) /\ \A x \in Streams \ {s} : evs'[x] = evs[x]
  BY <1>1, <1>2
<1>6. ASSUME NEW x \in Streams, NEW v PROVE Emitted(x, v)' <=> Emitted(x, v) \/ (x = s /\ v = e)
  <2>1. CASE x = s
    <3>1. Range(evs'[x]) = Range(evs[x]) \cup {e}
      BY <1>2, <1>4, <1>5, <2>1
    <3> QED
      BY <2>1, <3>1 DEF Emitted
  <2>2. CASE x # s
    BY <1>5, <1>6, <2>2 DEF Emitted
  <2> QED
    BY <2>1, <2>2
<1> QED
  BY <1>6

(* "end" tells the iterator,                                               *)
LEMMA RunEndFifo ==
  ASSUME Inv, RunEnd
  PROVE  FifoStep
<1>1. PICK s : s = Of
  OBVIOUS
<1>2. s \in Streams /\ st[s].emittedEnd
  <2>1. Of \in Streams /\ TickOK(Head(ticks)) /\ Head(ticks)[1] = "end"
    BY Task DEF RunEnd
  <2> QED
    BY <1>1, <2>1 DEF TickOK, Of
<1>3. UNCHANGED <<app, produced, got>> /\ Emit(s, "end")
  BY <1>1 DEF RunEnd
<1>4. \A x \in Streams : \A v : Emitted(x, v)' <=> Emitted(x, v) \/ (x = s /\ v = "end")
  BY <1>2, <1>3, EventAdded DEF Events
<1>5. Receivers \subseteq Streams /\ Source \in Receivers
  BY ReceiversAre DEF Receivers
<1>6. \A x \in Receivers : x # Source => (Told(x)' <=> Told(x))
  BY <1>4, <1>5 DEF Told
<1>7. CASE Told(Source)' <=> Told(Source)
  <2>1. \A x \in Receivers : Told(x)' <=> Told(x)
    BY <1>6, <1>7
  <2> QED
    BY <1>3, <2>1, NothingNew DEF FifoStep
<1>8. CASE ~(Told(Source)' <=> Told(Source))
  <2>1. s = Source /\ app.consumer = "iterate" /\ ~Told(Source) /\ Told(Source)'
    BY <1>3, <1>4, <1>5, <1>8 DEF Told
  <2>2. Len(got[Source]) = produced
    <3>1. st[Source].buf = <<>>
      BY <1>2, <2>1 DEF Inv, Ended, Over
    <3>2. Len(got[Source]) + Len(st[Source].buf) = produced
      BY <2>1 DEF Inv, Account, Iterated
    <3>3. Len(st[Source].buf) = 0 /\ Len(got[Source]) \in Nat
      BY <1>2, <2>1, <3>1, Numbers DEF Inv, Structure
    <3> QED
      BY <3>2, <3>3
  <2>3. Channel!Finish(Source)
    BY <1>3, <1>5, <1>6, <2>1, <2>2, FinishesFifo
  <2> QED
    BY <1>5, <2>3 DEF FifoStep, Channel!Next, Receivers
<1> QED
  BY <1>7, <1>8

(* ... "finish" tells a sink,                                              *)
LEMMA RunFinishFifo ==
  ASSUME Inv, RunFinish
  PROVE  FifoStep
<1>1. PICK d : d = Of
  OBVIOUS
<1>2. d \in Streams /\ st[d].finalCalled
  <2>1. Of \in Streams /\ TickOK(Head(ticks)) /\ Head(ticks)[1] = "finish"
    BY Task DEF RunFinish
  <2> QED
    BY <1>1, <2>1 DEF TickOK, Of
<1>3. UNCHANGED <<app, produced, got>> /\ Emit(d, "finish")
  BY <1>1 DEF RunFinish
<1>4. \A x \in Streams : \A v : Emitted(x, v)' <=> Emitted(x, v) \/ (x = d /\ v = "finish")
  BY <1>2, <1>3, EventAdded DEF Events
<1>5. Receivers \subseteq Streams /\ Source \in Streams /\ d # Source
  BY <1>2, ReceiversAre, StreamsAssumption DEF Inv, Structure, Plain
<1>6. \A x \in Receivers : x # d => (Told(x)' <=> Told(x))
  BY <1>3, <1>4, <1>5 DEF Told
<1>7. CASE d \notin Receivers \/ (Told(d)' <=> Told(d))
  <2>1. \A x \in Receivers : Told(x)' <=> Told(x)
    BY <1>6, <1>7
  <2> QED
    BY <1>3, <2>1, NothingNew DEF FifoStep
<1>8. CASE d \in Receivers /\ ~(Told(d)' <=> Told(d))
  <2>1. ~Told(d) /\ Told(d)'
    BY <1>2, <1>4, <1>5, <1>8 DEF Told
  <2>2. Len(got[d]) = produced
    BY <1>2 DEF Inv, Ended, Over
  <2>3. Channel!Finish(d)
    BY <1>3, <1>6, <1>8, <2>1, <2>2, FinishesFifo
  <2> QED
    BY <1>8, <2>3 DEF FifoStep, Channel!Next, Receivers
<1> QED
  BY <1>7, <1>8

(* ... and the other events tell nothing.                                  *)
LEMMA OtherEventFifo ==
  ASSUME Inv, NEW s \in Streams, NEW e \in {"error", "close"}, Emit(s, e),
         UNCHANGED <<app, produced, got>>
  PROVE  FifoStep
<1>1. \A x \in Streams : \A v : Emitted(x, v)' <=> Emitted(x, v) \/ (x = s /\ v = e)
  BY EventAdded DEF Events
<1>2. \A x \in Receivers : Told(x)' <=> Told(x)
  BY <1>1, ReceiversAre, StreamsAssumption DEF Told
<1> QED
  BY <1>2, NothingNew DEF FifoStep

(* Every step is a step of the channel or a stutter.                       *)
LEMMA NextFifo ==
  ASSUME Inv, [Next]_vars
  PROVE  FifoStep
<1>1. CASE UNCHANGED vars
  BY <1>1, StuttersFifo DEF vars
<1>2. CASE ReadPushes \/ PushLater
  <2>1. produced' = produced + 1 /\ ~st[Source].ended /\ UNCHANGED <<app, got, evs>>
    BY <1>2 DEF ReadPushes, PushLater
  <2> QED
    BY <2>1, SendsFifo DEF FifoStep, Channel!Next
<1>3. CASE Running
  <2>1. CASE \/ DrainData \/ EmitDataRest \/ CallRead \/ ReadEnds \/ ReadAgain \/ EmitData
             \/ Wrote \/ Transformed \/ FinalLater \/ Ending \/ Teardown
    <3>1. UNCHANGED <<app, produced, got, evs>>
      BY <2>1 DEF DrainData, EmitDataRest, CallRead, ReadEnds, ReadAgain, EmitData, Wrote,
                  Transformed, FinalLater, Ending, Teardown
    <3> QED
      BY <3>1, StuttersFifo
  <2>2. CASE WriteLater
    BY <2>2, WritesFifo DEF WriteLater
  <2>3. CASE Tried
    BY <2>3, TriesFifo
  <2>4. ASSUME NEW err \in BOOLEAN, ReadReturns(err) \/ FinalNow(err) PROVE FifoStep
    <3>1. UNCHANGED <<app, produced, got, evs>>
      BY <2>4 DEF ReadReturns, FinalNow
    <3> QED
      BY <3>1, StuttersFifo
  <2>5. ASSUME NEW err \in BOOLEAN, WriteNow(err) PROVE FifoStep
    BY <2>5, WritesFifo DEF WriteNow
  <2> QED
    BY <1>2, <1>3, <2>1, <2>2, <2>3, <2>4, <2>5 DEF Running
<1>4. CASE Microtask
  <2>1. CASE RunEmitData \/ RunCallRead \/ RunReadable \/ RunProcessWrites \/ RunDrain \/ RunFinal
    <3>1. UNCHANGED <<app, produced, got, evs>>
      BY <2>1 DEF RunEmitData, RunCallRead, RunReadable, RunProcessWrites, RunDrain, RunFinal
    <3> QED
      BY <3>1, StuttersFifo
  <2>2. CASE RunError
    <3>1. Of \in Streams
      BY <2>2, Task DEF RunError
    <3>2. Emit(Of, "error") /\ UNCHANGED <<app, produced, got>>
      BY <2>2 DEF RunError
    <3> QED
      BY <3>1, <3>2, OtherEventFifo
  <2>3. CASE RunClose
    <3>1. Of \in Streams
      BY <2>3, Task DEF RunClose
    <3>2. Emit(Of, "close") /\ UNCHANGED <<app, produced, got>>
      BY <2>3 DEF RunClose
    <3> QED
      BY <3>1, <3>2, OtherEventFifo
  <2> QED
    BY <1>4, <2>1, <2>2, <2>3, RunEndFifo, RunFinishFifo DEF Microtask
<1>5. CASE Program
  <2>1. CASE EndLater \/ IterNext \/ IterReturn
    <3>1. UNCHANGED <<app, produced, got, evs>>
      BY <2>1 DEF EndLater, IterNext, IterReturn
    <3> QED
      BY <3>1, StuttersFifo
  <2>2. ASSUME NEW d \in Streams, NEW err \in BOOLEAN,
               WriteCallsBack(d, err) \/ FinalCallsBack(d, err) \/ Destroy(d, err)
        PROVE  FifoStep
    <3>1. UNCHANGED <<app, produced, got, evs>>
      BY <2>2 DEF WriteCallsBack, FinalCallsBack, Destroy
    <3> QED
      BY <3>1, StuttersFifo
  <2> QED
    BY <1>2, <1>5, <2>1, <2>2 DEF Program
<1> QED
  BY <1>1, <1>3, <1>4, <1>5 DEF Next

(* The streams of an island implement a FIFO channel, for every forest of  *)
(* pipes and every order of synchronous and late callbacks: each sink and  *)
(* the iterator receive the chunks pushed, in order, each once, and        *)
(* "finish" or "end" comes only after the last of them.                    *)
THEOREM StreamsImplementFifo == Spec => StreamsAreFifo
<1>1. Inv /\ [Next]_vars => [Channel!Next]_<<Sent, Inbox, Informed>>
  BY NextFifo DEF FifoStep
<1>2. Inv /\ [Next]_vars =>
        [Channel!Next]_<<[i \in 1..produced |-> i], [r \in Sinks \cup {Source} |-> got[r]],
                         [r \in Sinks \cup {Source} |-> Told(r)]>>
  BY <1>1 DEF Sent, Inbox, Informed, Receivers
<1> QED
  BY <1>2, InitFifo, InvAlways, PTL DEF Spec, StreamsAreFifo, Channel!Spec
=============================================================================
