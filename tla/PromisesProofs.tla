---------------------------- MODULE PromisesProofs ----------------------------
(***************************************************************************)
(* Theorems about Promises, for any number of promises and calls.          *)
(*                                                                         *)
(* The invariants are stated of a value s of Core and a value a of attach,  *)
(* so that Settle, Observe, Then and Add, which the actions are composed    *)
(* of, each have a lemma of their own.                                     *)
(***************************************************************************)
EXTENDS Promises, TLAPS, SequenceTheorems, FiniteSetTheorems

Data == [state : Outcomes \cup {"pending"}, handled : BOOLEAN, reported : BOOLEAN,
         view : Nat, own : BOOLEAN, reactions : Seq(Reactions)]
JobSet == [reaction : Reactions, outcome : Outcomes]
Calls == [reaction : Reactions, listening : BOOLEAN]
Cores == [promises : Seq(Data), micro : Seq(JobSet), checks : Seq(Nat),
          told : Seq(Seq(BOOLEAN))]

Of(seq) == {seq[i] : i \in DOMAIN seq}
WaitSet(s) == UNION {Of(s.promises[p].reactions) : p \in 1..Len(s.promises)}
ReactionsOf(q) == {q[i].reaction : i \in 1..Len(q)}
QueueSet(s) == ReactionsOf(s.micro)
CallSet(a) == ReactionsOf(a)
Live(s, a) == WaitSet(s) \cup QueueSet(s) \cup CallSet(a)

(* A promise that is not a view.                                           *)
Plain(s, p) == p \in 1..Len(s.promises) /\ s.promises[p].view = 0

Typed(s, a) ==
  /\ s \in Cores /\ a \in Seq(Calls)
  /\ Len(s.promises) <= MaxPromises /\ Len(s.told) = Len(s.promises)

(* Views lead to promises that are none, and so do all reactions and checks.*)
Links(s, a) ==
  /\ \A p \in 1..Len(s.promises) :
       s.promises[p].view # 0 =>
         /\ Plain(s, s.promises[p].view)
         /\ s.promises[p].state = "pending" /\ s.promises[p].reactions = <<>>
  /\ \A i \in 1..Len(s.checks) : s.checks[i] \in 1..Len(s.promises)
  /\ \A r \in Live(s, a) :
       Plain(s, r.on) /\ r.to <= Len(s.promises) /\ (r.kind # "user" => r.to # 0)

(* A reaction is in one place: it waits on its own promise, which is not    *)
(* settled, is queued, the promise being settled, or is being attached.    *)
Injective(rs) == \A i, j \in 1..Len(rs) : rs[i] = rs[j] => i = j
Distinct(q) == \A i, j \in 1..Len(q) : q[i].reaction = q[j].reaction => i = j

Places(s, a) ==
  /\ \A p \in 1..Len(s.promises) :
       /\ Injective(s.promises[p].reactions)
       /\ \A r \in Of(s.promises[p].reactions) : r.on = p /\ s.promises[p].state = "pending"
  /\ \A r \in QueueSet(s) : s.promises[r.on].state # "pending"
  /\ Distinct(s.micro) /\ Distinct(a)
  /\ WaitSet(s) \cap QueueSet(s) = {} /\ CallSet(a) \cap (WaitSet(s) \cup QueueSet(s)) = {}

(* Ids are unique, handed out in order, and not those of reactions that ran.*)
Numbered(s, a, n, R) ==
  \A r \in Live(s, a) :
    /\ r.id <= 2 * n /\ r.id \notin R
    /\ r.kind = "user" => r.id <= 2 * n - 1
    /\ \A q \in Live(s, a) : r.id = q.id => r = q

Structure(s, a, n, R) == Typed(s, a) /\ Links(s, a) /\ Places(s, a) /\ Numbered(s, a, n, R)

(* A report was taken back.                                                *)
Recalled(s, p) == FALSE \in Of(s.told[p])

(* User reactions wait on a promise in the order of their ids, are queued   *)
(* so too unless a report was taken back, and the one being attached is the *)
(* last one that script code made, unless a listener runs.                 *)
WaitOrder(s) ==
  \A p \in 1..Len(s.promises) : \A i, j \in 1..Len(s.promises[p].reactions) :
    LET rs == s.promises[p].reactions IN
    i < j /\ rs[i].kind = "user" /\ rs[j].kind = "user" => rs[i].id < rs[j].id

QueueOrder(s) ==
  \A i, j \in 1..Len(s.micro) :
    LET q == s.micro[i].reaction
        r == s.micro[j].reaction
    IN  i < j /\ q.on = r.on /\ q.kind = "user" /\ r.kind = "user" /\ ~Recalled(s, q.on)
        => q.id < r.id

CallOrder(s, a, n) ==
  \A i \in 1..Len(a) :
    /\ a[i].listening => Recalled(s, a[i].reaction.on)
    /\ a[i].reaction.kind = "user" =>
         a[i].listening \/ (i = 1 /\ a[i].reaction.id = 2 * n - 1)

Ordered(s, a, n) == WaitOrder(s) /\ QueueOrder(s) /\ CallOrder(s, a, n)

(* What Promise.all counts among the reactions L still to run.             *)
Pending(L, t) == {r \in L : r.kind = "all" /\ r.to = t}

Counts(L, C) ==
  /\ IsFiniteSet(L)
  /\ \A t \in Ids :
       /\ C[t].left > 0 /\ ~C[t].settled => C[t].left = Cardinality(Pending(L, t))
       /\ Pending(L, t) # {} => C[t].settled \/ C[t].left > 0

(* What is known of a promise and the reports made of it.                  *)
Reports(s, S) ==
  \A p \in 1..Len(s.promises) :
    LET d == s.promises[p] IN
    /\ p \in S => d.handled
    /\ d.state # "rejected" => s.told[p] = <<>> /\ ~d.reported
    /\ d.state # "rejected" /\ d.view = 0 /\ p \notin S => ~d.handled
    /\ d.state = "rejected" /\ p \notin S =>
         \/ s.told[p] = <<>> /\ ~d.handled /\ ~d.reported /\ p \in Of(s.checks)
         \/ s.told[p] = <<TRUE>> /\ d.reported

(* The rest of the state.                                                  *)
Control ==
  /\ combined \in [Ids -> [left : 0..2, settled : BOOLEAN]]
  /\ handler \in BOOLEAN /\ late \in BOOLEAN /\ crashed \in BOOLEAN
  /\ pc \in {"script", "top", "drain", "checks", "done"}
  /\ back \in {"top", "drain", "checks"}
  /\ ops \in 0..MaxOps /\ ran \subseteq 1..2 * ops

Good(s, a, n, R, S) == Structure(s, a, n, R) /\ Ordered(s, a, n) /\ Reports(s, S)

PlainSet(s) == {p \in 1..Len(s.promises) : s.promises[p].view = 0}

Inv ==
  /\ Good(Core, attach, ops, ran, seen) /\ seen \subseteq PlainSet(Core)
  /\ Counts(Live(Core, attach), combined) /\ Control

-------------------------------------------------------------------------------
(* The reactions that wait are those of some promise.                      *)
LEMMA InWaitSet ==
  ASSUME NEW s, NEW r
  PROVE  r \in WaitSet(s) <=> \E c \in 1..Len(s.promises) : r \in Of(s.promises[c].reactions)
BY DEF WaitSet

(* The entries of a sequence.                                              *)
LEMMA InOf ==
  ASSUME NEW S, NEW q \in Seq(S), NEW r
  PROVE  r \in Of(q) <=> \E i \in 1..Len(q) : r = q[i]
BY DEF Of

(* One sequence of jobs or calls behind another: it holds the reactions of  *)
(* both, each in one place if it was so in each and they share none.       *)
LEMMA ConcatReactions ==
  ASSUME NEW S, NEW x \in Seq(S), NEW y \in Seq(S)
  PROVE  /\ ReactionsOf(x \o y) = ReactionsOf(x) \cup ReactionsOf(y)
         /\ Distinct(x) /\ Distinct(y) /\ ReactionsOf(x) \cap ReactionsOf(y) = {}
              => Distinct(x \o y)
<1> DEFINE k == x \o y
<1>1. /\ Len(k) = Len(x) + Len(y) /\ \A i \in 1..Len(x) : k[i] = x[i]
      /\ \A i \in (Len(x) + 1)..Len(k) : k[i] = y[i - Len(x)]
  <2>1. /\ Len(k) = Len(x) + Len(y)
        /\ \A i \in 1..(Len(x) + Len(y)) : k[i] = IF i <= Len(x) THEN x[i] ELSE y[i - Len(x)]
    BY ConcatProperties
  <2> HIDE DEF k
  <2> QED
    BY <2>1
<1> HIDE DEF k
<1>2. ASSUME NEW i \in 1..Len(k)
      PROVE  k[i].reaction \in ReactionsOf(x) \cup ReactionsOf(y)
  <2>1. CASE i <= Len(x)
    BY <1>1, <2>1 DEF ReactionsOf
  <2>2. CASE ~(i <= Len(x))
    <3>1. i - Len(x) \in 1..Len(y) /\ k[i] = y[i - Len(x)]
      BY <1>1, <2>2
    <3> QED
      BY <3>1 DEF ReactionsOf
  <2> QED
    BY <2>1, <2>2
<1>3. ASSUME NEW i \in 1..Len(y)
      PROVE  \E j \in 1..Len(k) : y[i] = k[j]
  <2> DEFINE j == Len(x) + i
  <2>1. j \in (Len(x) + 1)..Len(k) /\ j - Len(x) = i
    BY <1>1
  <2> HIDE DEF j
  <2>2. k[j] = y[j - Len(x)] /\ j \in 1..Len(k)
    BY <1>1, <2>1
  <2> QED
    BY <2>1, <2>2
<1>4. ReactionsOf(k) = ReactionsOf(x) \cup ReactionsOf(y)
  <2>1. ReactionsOf(k) \subseteq ReactionsOf(x) \cup ReactionsOf(y)
    BY <1>2 DEF ReactionsOf
  <2>2. ReactionsOf(x) \subseteq ReactionsOf(k)
    BY <1>1 DEF ReactionsOf
  <2>3. ReactionsOf(y) \subseteq ReactionsOf(k)
    BY <1>3 DEF ReactionsOf
  <2> QED
    BY <2>1, <2>2, <2>3
<1>5. ASSUME Distinct(x), Distinct(y), ReactionsOf(x) \cap ReactionsOf(y) = {}
      PROVE  Distinct(k)
  <2>1. \A i \in 1..Len(x), j \in 1..Len(y) : x[i].reaction # y[j].reaction
    BY <1>5 DEF ReactionsOf
  <2>2. ASSUME NEW i \in 1..Len(k), NEW j \in 1..Len(k), k[i].reaction = k[j].reaction
        PROVE  i = j
    <3>1. CASE i <= Len(x) /\ j <= Len(x)
      BY <1>1, <1>5, <2>2, <3>1 DEF Distinct
    <3>2. CASE i <= Len(x) /\ j > Len(x)
      <4>1. i \in 1..Len(x) /\ j - Len(x) \in 1..Len(y) /\ k[i] = x[i] /\ k[j] = y[j - Len(x)]
        BY <1>1, <3>2
      <4> QED
        BY <2>1, <2>2, <4>1
    <3>3. CASE i > Len(x) /\ j <= Len(x)
      <4>1. j \in 1..Len(x) /\ i - Len(x) \in 1..Len(y) /\ k[j] = x[j] /\ k[i] = y[i - Len(x)]
        BY <1>1, <3>3
      <4> QED
        BY <2>1, <2>2, <4>1
    <3>4. CASE i > Len(x) /\ j > Len(x)
      <4>1. /\ i - Len(x) \in 1..Len(y) /\ j - Len(x) \in 1..Len(y)
            /\ k[i] = y[i - Len(x)] /\ k[j] = y[j - Len(x)]
        BY <1>1, <3>4
      <4>2. i - Len(x) = j - Len(x)
        BY <1>5, <2>2, <4>1 DEF Distinct
      <4> QED
        BY <4>2
    <3> QED
      BY <3>1, <3>2, <3>3, <3>4
  <2> QED
    BY <2>2 DEF Distinct
<1> QED
  BY <1>4, <1>5 DEF k

(* One microtask per reaction.                                             *)
LEMMA JobsAre ==
  ASSUME NEW rs \in Seq(Reactions), NEW o \in Outcomes
  PROVE  /\ Jobs(rs, o) \in Seq(JobSet) /\ Len(Jobs(rs, o)) = Len(rs)
         /\ \A i \in 1..Len(rs) : Jobs(rs, o)[i].reaction = rs[i]
         /\ ReactionsOf(Jobs(rs, o)) = Of(rs) /\ (Injective(rs) => Distinct(Jobs(rs, o)))
<1> DEFINE f == Jobs(rs, o)
<1>1. DOMAIN rs = 1..Len(rs) /\ \A i \in 1..Len(rs) : rs[i] \in Reactions
  OBVIOUS
<1>2. f = [i \in 1..Len(rs) |-> [reaction |-> rs[i], outcome |-> o]]
  BY <1>1 DEF Jobs
<1>3. f \in [1..Len(rs) -> JobSet]
  BY <1>1, <1>2 DEF JobSet
<1>4. f \in Seq(JobSet) /\ Len(f) = Len(rs)
  BY <1>3, IsASeq, LenProperties
<1>5. ASSUME NEW i \in 1..Len(rs)
      PROVE  f[i].reaction = rs[i]
  BY <1>2
<1> HIDE DEF f
<1>6. ReactionsOf(f) = Of(rs) /\ (Injective(rs) => Distinct(f))
  BY <1>1, <1>4, <1>5 DEF ReactionsOf, Of, Injective, Distinct
<1> QED
  BY <1>4, <1>5, <1>6 DEF f

(* The jobs are queued behind the others.                                  *)
LEMMA QueueGrows ==
  ASSUME NEW m \in Seq(JobSet), NEW rs \in Seq(Reactions), NEW o \in Outcomes
  PROVE  LET k == m \o Jobs(rs, o) IN
         /\ k \in Seq(JobSet) /\ ReactionsOf(k) = ReactionsOf(m) \cup Of(rs)
         /\ Distinct(m) /\ Injective(rs) /\ ReactionsOf(m) \cap Of(rs) = {} => Distinct(k)
         /\ Len(k) = Len(m) + Len(rs) /\ \A i \in 1..Len(m) : k[i] = m[i]
         /\ \A i \in (Len(m) + 1)..Len(k) : k[i].reaction = rs[i - Len(m)]
<1>1. \A js \in Seq(JobSet) :
        /\ m \o js \in Seq(JobSet) /\ Len(m \o js) = Len(m) + Len(js)
        /\ \A i \in 1..(Len(m) + Len(js)) : (m \o js)[i] =
             IF i <= Len(m) THEN m[i] ELSE js[i - Len(m)]
  BY ConcatProperties
<1> DEFINE js == Jobs(rs, o)
<1>2. /\ js \in Seq(JobSet) /\ Len(js) = Len(rs)
      /\ \A i \in 1..Len(rs) : js[i].reaction = rs[i]
      /\ ReactionsOf(js) = Of(rs) /\ (Injective(rs) => Distinct(js))
  BY JobsAre
<1> HIDE DEF js
<1>3. \A i \in 1..Len(m) : (m \o js)[i] = m[i]
  BY <1>1, <1>2
<1>4. \A i \in (Len(m) + 1)..(Len(m) + Len(rs)) : (m \o js)[i].reaction = rs[i - Len(m)]
  BY <1>1, <1>2
<1>5. /\ ReactionsOf(m \o js) = ReactionsOf(m) \cup ReactionsOf(js)
      /\ Distinct(m) /\ Distinct(js) /\ ReactionsOf(m) \cap ReactionsOf(js) = {}
           => Distinct(m \o js)
  BY <1>2, ConcatReactions
<1> QED
  BY <1>1, <1>2, <1>3, <1>4, <1>5 DEF js

(* What promise_fulfill and promise_reject do to a pending promise.        *)
SettledTo(s, t, p, o) ==
  LET rs == s.promises[p].reactions IN
  /\ t \in Cores /\ Len(t.promises) = Len(s.promises) /\ t.told = s.told
  /\ t.promises[p] = [s.promises[p] EXCEPT !.state = o, !.reactions = <<>>]
  /\ \A c \in 1..Len(s.promises) : c # p => t.promises[c] = s.promises[c]
  /\ t.micro = s.micro \o Jobs(rs, o)
  /\ t.checks = IF o = "rejected" THEN Append(s.checks, p) ELSE s.checks

(* Settle does just that.                                                  *)
LEMMA SettleIs ==
  ASSUME NEW s \in Cores, NEW p \in 1..Len(s.promises), NEW o \in Outcomes,
         s.promises[p].view = 0, s.promises[p].state = "pending"
  PROVE  SettledTo(s, Settle(s, p, o), p, o)
<1> DEFINE t == Settle(s, p, o)
           rs == s.promises[p].reactions
           d == [s.promises[p] EXCEPT !.state = o, !.reactions = <<>>]
<1>1. /\ s.promises \in Seq(Data) /\ s.micro \in Seq(JobSet) /\ s.checks \in Seq(Nat)
      /\ s.told \in Seq(Seq(BOOLEAN))
  BY DEF Cores
<1>2. s.promises[p] \in Data
  BY <1>1
<1>3. rs \in Seq(Reactions) /\ d \in Data
  <2>1. <<>> \in Seq(Reactions) /\ o \in Outcomes \cup {"pending"}
    OBVIOUS
  <2> QED
    BY <1>2, <2>1 DEF Data
<1>4. t = [s EXCEPT !.promises = [s.promises EXCEPT ![p] = d],
                    !.micro = s.micro \o Jobs(rs, o),
                    !.checks = IF o = "rejected" THEN Append(s.checks, p) ELSE s.checks]
  BY DEF Settle, Cores
<1>5. s.micro \o Jobs(rs, o) \in Seq(JobSet)
  BY <1>1, <1>3, QueueGrows
<1>6. (IF o = "rejected" THEN Append(s.checks, p) ELSE s.checks) \in Seq(Nat)
  BY <1>1
<1>7. [s.promises EXCEPT ![p] = d] \in Seq(Data)
      /\ Len([s.promises EXCEPT ![p] = d]) = Len(s.promises)
      /\ \A c \in 1..Len(s.promises) : [s.promises EXCEPT ![p] = d][c]
           = IF c = p THEN d ELSE s.promises[c]
  <2> HIDE DEF d
  <2> QED
    BY <1>1, <1>3
<1> HIDE DEF d, rs
<1>8. /\ t.promises = [s.promises EXCEPT ![p] = d] /\ t.micro = s.micro \o Jobs(rs, o)
      /\ t.checks = (IF o = "rejected" THEN Append(s.checks, p) ELSE s.checks)
      /\ t.told = s.told
      /\ t = [promises |-> t.promises, micro |-> t.micro, checks |-> t.checks, told |-> t.told]
  <2> HIDE DEF t
  <2> QED
    BY <1>4 DEF Cores
<1>9. t \in Cores
  <2> HIDE DEF t
  <2> QED
    BY <1>1, <1>5, <1>6, <1>7, <1>8 DEF Cores
<1> HIDE DEF t
<1>10. /\ Len(t.promises) = Len(s.promises) /\ t.promises[p] = d
       /\ \A c \in 1..Len(s.promises) : c # p => t.promises[c] = s.promises[c]
  BY <1>7, <1>8
<1>11. SettledTo(s, t, p, o)
  BY <1>8, <1>9, <1>10, Zenon DEF d, rs, SettledTo
<1> QED
  BY <1>11 DEF t

(* A settled promise hands its reactions over to the queue.                *)
LEMMA SettleKeeps ==
  ASSUME NEW s, NEW a, NEW n \in Nat, NEW R, Structure(s, a, n, R),
         NEW p \in 1..Len(s.promises), NEW o \in Outcomes
  PROVE  /\ Structure(Settle(s, p, o), a, n, R) /\ Live(Settle(s, p, o), a) = Live(s, a)
         /\ Len(Settle(s, p, o).promises) = Len(s.promises)
<1> DEFINE t == Settle(s, p, o)
           rs == s.promises[p].reactions
           Ps == 1..Len(s.promises)
<1>1. CASE s.promises[p].view # 0 \/ s.promises[p].state # "pending"
  BY <1>1 DEF Settle
<1>2. CASE ~(s.promises[p].view # 0 \/ s.promises[p].state # "pending")
  <2>1. /\ s \in Cores /\ a \in Seq(Calls)
        /\ Typed(s, a) /\ Links(s, a) /\ Places(s, a) /\ Numbered(s, a, n, R)
    BY DEF Structure, Typed
  <2>2. SettledTo(s, t, p, o)
    BY <1>2, <2>1, SettleIs
  <2> HIDE DEF t
  <2>3. /\ Len(s.micro) \in Nat /\ Len(s.promises) \in Nat /\ s.checks \in Seq(Nat)
        /\ \A c \in Ps : s.promises[c] \in Data
    BY <2>1 DEF Cores
  <2>4. rs \in Seq(Reactions) /\ Len(rs) \in Nat /\ Of(rs) = {rs[i] : i \in 1..Len(rs)}
    BY <2>3 DEF Data, Of
  <2>5. /\ \A c \in Ps : t.promises[c].view = s.promises[c].view
        /\ \A c \in Ps : c # p => t.promises[c] = s.promises[c]
        /\ t.promises[p].state = o /\ t.promises[p].reactions = <<>>
        /\ Len(t.promises) = Len(s.promises)
    BY ZenonT(60), <2>2, <2>3 DEF Data, SettledTo
  <2> HIDE DEF rs
  <2>6. /\ QueueSet(t) = QueueSet(s) \cup Of(rs)
        /\ Distinct(s.micro) /\ Injective(rs) /\ QueueSet(s) \cap Of(rs) = {} => Distinct(t.micro)
    <3>1. t.micro = s.micro \o Jobs(rs, o) /\ s.micro \in Seq(JobSet)
      BY <2>1, <2>2 DEF SettledTo, rs, Cores
    <3> QED
      BY <2>4, <3>1, QueueGrows DEF QueueSet
  <2>7. WaitSet(t) = WaitSet(s) \ Of(rs)
    <3>1. ASSUME NEW r \in WaitSet(t)
          PROVE  r \in WaitSet(s) \ Of(rs)
      <4>1. PICK c \in Ps : r \in Of(t.promises[c].reactions)
        BY <2>5, InWaitSet
      <4>2. c # p /\ r \in Of(s.promises[c].reactions)
        BY <2>5, <4>1 DEF Of
      <4>3. r.on = c
        BY <2>1, <2>3, <4>2 DEF Places, Of, Data
      <4>4. \A x \in Of(rs) : x.on = p
        BY <2>1, <2>4 DEF Places, rs
      <4> QED
        BY <4>2, <4>3, <4>4, InWaitSet
    <3>2. ASSUME NEW r \in WaitSet(s) \ Of(rs)
          PROVE  r \in WaitSet(t)
      BY <2>5, InWaitSet DEF rs
    <3> QED
      BY <3>1, <3>2
  <2>8. Of(rs) \subseteq WaitSet(s)
    BY <2>4 DEF WaitSet, rs
  <2>9. Live(t, a) = Live(s, a)
    BY <2>6, <2>7, <2>8 DEF Live
  <2>10. Typed(t, a)
    BY <2>1, <2>2 DEF Typed, SettledTo
  <2>11. Links(t, a)
    <3>1. \A c : Plain(t, c) <=> Plain(s, c)
      BY <2>5 DEF Plain
    <3>2. \A i \in 1..Len(t.checks) : t.checks[i] \in Ps
      <4>1. \A i \in 1..Len(s.checks) : s.checks[i] \in Ps
        BY <2>1 DEF Links
      <4>2. CASE t.checks = Append(s.checks, p)
        BY <2>3, <4>1, <4>2
      <4>3. CASE t.checks = s.checks
        BY <4>1, <4>3
      <4> QED
        BY <2>2, <4>2, <4>3 DEF SettledTo
    <3>3. ASSUME NEW c \in Ps, t.promises[c].view # 0
          PROVE  t.promises[c] = s.promises[c]
      BY <1>2, <2>5, <3>3
    <3> QED
      BY <2>1, <2>5, <2>9, <3>1, <3>2, <3>3 DEF Links
  <2>12. Places(t, a)
    <3>1. ASSUME NEW c \in Ps
          PROVE  /\ Injective(t.promises[c].reactions)
                 /\ \A r \in Of(t.promises[c].reactions) :
                      r.on = c /\ t.promises[c].state = "pending"
      <4>1. Of(<<>>) = {} /\ Injective(<<>>)
        BY DEF Of, Injective
      <4> QED
        BY <2>1, <2>5, <4>1 DEF Places
    <3>2. ASSUME NEW r \in QueueSet(t)
          PROVE  t.promises[r.on].state # "pending"
      <4>1. CASE r \in QueueSet(s)
        BY <2>1, <2>5, <2>9, <4>1 DEF Places, Links, Live, Plain, Outcomes
      <4>2. CASE r \in Of(rs)
        BY <2>1, <2>5, <4>2 DEF Places, rs, Outcomes
      <4> QED
        BY <2>6, <4>1, <4>2
    <3>3. Distinct(t.micro)
      BY <2>1, <2>6, <2>8 DEF Places, rs
    <3> QED
      BY <2>1, <2>5, <2>6, <2>7, <2>8, <3>1, <3>2, <3>3 DEF Places
  <2>13. Numbered(t, a, n, R)
    BY <2>1, <2>9 DEF Numbered
  <2> QED
    BY <2>5, <2>9, <2>10, <2>11, <2>12, <2>13 DEF Structure, t
<1> QED
  BY <1>1, <1>2

(* Only handled and reported of the promises change.                       *)
LEMMA FlagsKeep ==
  ASSUME NEW s, NEW a, NEW n \in Nat, NEW R, Structure(s, a, n, R),
         NEW t \in Cores, Len(t.promises) = Len(s.promises), Len(t.told) = Len(t.promises),
         t.micro = s.micro, \A i \in 1..Len(t.checks) : t.checks[i] \in 1..Len(s.promises),
         \A c \in 1..Len(s.promises) : /\ t.promises[c].view = s.promises[c].view
                                       /\ t.promises[c].state = s.promises[c].state
                                       /\ t.promises[c].reactions = s.promises[c].reactions
  PROVE  Structure(t, a, n, R) /\ Live(t, a) = Live(s, a)
<1>1. \A r : r \in WaitSet(t) <=> r \in WaitSet(s)
  BY InWaitSet
<1>2. WaitSet(t) = WaitSet(s) /\ QueueSet(t) = QueueSet(s) /\ Live(t, a) = Live(s, a)
  BY <1>1 DEF QueueSet, Live
<1>3. Typed(t, a) /\ Numbered(t, a, n, R)
  BY <1>2 DEF Structure, Typed, Numbered
<1>4. Links(t, a)
  <2>1. \A c : Plain(t, c) <=> Plain(s, c)
    BY DEF Plain
  <2> QED
    BY <1>2, <2>1 DEF Structure, Links
<1>5. Places(t, a)
  <2>1. \A r \in QueueSet(s) : r.on \in 1..Len(s.promises)
    BY DEF Structure, Links, Live, Plain
  <2> QED
    BY <1>2, <2>1 DEF Structure, Places
<1> QED
  BY <1>2, <1>3, <1>4, <1>5 DEF Structure

(* Without its first entry, a sequence has all reactions but that one's.   *)
LEMMA TailReactions ==
  ASSUME NEW S, NEW q \in Seq(S), q # <<>>, Distinct(q)
  PROVE  /\ Tail(q) \in Seq(S) /\ Distinct(Tail(q)) /\ Len(Tail(q)) = Len(q) - 1
         /\ \A i \in 1..Len(Tail(q)) : Tail(q)[i] = q[i + 1]
         /\ ReactionsOf(Tail(q)) = ReactionsOf(q) \ {q[1].reaction}
         /\ q[1].reaction \in ReactionsOf(q) /\ Head(q) = q[1] /\ q[1] \in S
<1> DEFINE u == Tail(q)
<1>1. /\ u \in Seq(S) /\ Len(u) = Len(q) - 1 /\ Len(q) \in Nat \ {0} /\ Head(q) = q[1]
      /\ q[1] \in S /\ \A i \in 1..Len(u) : u[i] = q[i + 1]
  BY HeadTailProperties, EmptySeq
<1> HIDE DEF u
<1>2. ASSUME NEW i \in 1..Len(u), NEW j \in 1..Len(u), u[i].reaction = u[j].reaction
      PROVE  i = j
  <2>1. i + 1 \in 1..Len(q) /\ j + 1 \in 1..Len(q) /\ u[i] = q[i + 1] /\ u[j] = q[j + 1]
    BY <1>1
  <2>2. i + 1 = j + 1
    BY <1>2, <2>1 DEF Distinct
  <2> QED
    BY <2>2
<1>3. ASSUME NEW i \in 1..Len(u)
      PROVE  u[i].reaction \in ReactionsOf(q) \ {q[1].reaction}
  <2>1. i + 1 \in 1..Len(q) /\ 1 \in 1..Len(q) /\ u[i] = q[i + 1] /\ i + 1 # 1
    BY <1>1
  <2> QED
    BY <2>1 DEF Distinct, ReactionsOf
<1>4. ASSUME NEW i \in 1..Len(q), i # 1
      PROVE  q[i].reaction \in ReactionsOf(u)
  <2> DEFINE j == i - 1
  <2>1. j \in 1..Len(u) /\ j + 1 = i
    BY <1>1, <1>4
  <2> HIDE DEF j
  <2>2. q[i] = u[j]
    BY <1>1, <2>1
  <2> QED
    BY <2>1, <2>2 DEF ReactionsOf
<1>5. q[1].reaction \in ReactionsOf(q)
  BY <1>1 DEF ReactionsOf
<1>6. ReactionsOf(u) = ReactionsOf(q) \ {q[1].reaction}
  <2>1. ReactionsOf(u) \subseteq ReactionsOf(q) \ {q[1].reaction}
    BY <1>3 DEF ReactionsOf
  <2>2. ReactionsOf(q) \ {q[1].reaction} \subseteq ReactionsOf(u)
    BY <1>4 DEF ReactionsOf
  <2> QED
    BY <2>1, <2>2
<1>7. Distinct(u)
  BY <1>2 DEF Distinct
<1> QED
  BY <1>1, <1>5, <1>6, <1>7 DEF u

(* The first microtask is taken from the queue and run.                    *)
LEMMA PopKeeps ==
  ASSUME NEW s, NEW a, NEW n \in Nat, NEW R, Structure(s, a, n, R), s.micro # <<>>
  PROVE  LET t == [s EXCEPT !.micro = Tail(@)]
             r == s.micro[1].reaction
         IN  /\ Structure(t, a, n, R) /\ Structure(t, a, n, R \cup {r.id})
             /\ r \in Live(s, a) /\ r \in Reactions /\ Live(t, a) = Live(s, a) \ {r}
<1> DEFINE t == [s EXCEPT !.micro = Tail(@)]
           r == s.micro[1].reaction
<1>1. /\ s \in Cores /\ s.micro \in Seq(JobSet) /\ Distinct(s.micro)
  BY DEF Structure, Typed, Places, Cores
<1>2. /\ Tail(s.micro) \in Seq(JobSet) /\ Distinct(Tail(s.micro))
      /\ ReactionsOf(Tail(s.micro)) = ReactionsOf(s.micro) \ {r}
      /\ r \in ReactionsOf(s.micro) /\ s.micro[1] \in JobSet
  BY <1>1, TailReactions
<1>3. /\ t \in Cores /\ t.promises = s.promises /\ t.checks = s.checks /\ t.told = s.told
      /\ t.micro = Tail(s.micro)
  BY <1>1, <1>2 DEF Cores
<1>4. r \in Reactions
  BY <1>2 DEF JobSet
<1> HIDE DEF t, r
<1>5. WaitSet(t) = WaitSet(s) /\ QueueSet(t) = QueueSet(s) \ {r} /\ r \in QueueSet(s)
  BY <1>2, <1>3 DEF WaitSet, QueueSet
<1>6. Live(t, a) = Live(s, a) \ {r} /\ r \in Live(s, a)
  BY <1>5 DEF Live, Structure, Places
<1>7. Typed(t, a) /\ Links(t, a)
  BY <1>3, <1>6 DEF Structure, Typed, Links, Plain
<1>8. Places(t, a)
  BY <1>2, <1>3, <1>5 DEF Structure, Places
<1>9. Numbered(t, a, n, R) /\ Numbered(t, a, n, R \cup {r.id})
  BY <1>6 DEF Structure, Numbered
<1> QED
  BY <1>4, <1>6, <1>7, <1>8, <1>9 DEF Structure, t, r

(* An append to a sequence of reactions.                                   *)
LEMMA AppendReaction ==
  ASSUME NEW rs \in Seq(Reactions), NEW r \in Reactions
  PROVE  /\ Append(rs, r) \in Seq(Reactions) /\ Of(Append(rs, r)) = Of(rs) \cup {r}
         /\ Injective(rs) /\ r \notin Of(rs) => Injective(Append(rs, r))
<1> DEFINE u == Append(rs, r)
<1>1. /\ u \in Seq(Reactions) /\ Len(u) = Len(rs) + 1 /\ Len(rs) \in Nat
      /\ \A i \in 1..Len(rs) : u[i] = rs[i]
      /\ u[Len(rs) + 1] = r
  BY AppendProperties
<1> HIDE DEF u
<1>2. Of(u) = {u[i] : i \in 1..Len(u)} /\ Of(rs) = {rs[i] : i \in 1..Len(rs)}
  BY <1>1 DEF Of
<1>3. \A i \in 1..Len(u) : i \in 1..Len(rs) \/ i = Len(rs) + 1
  BY <1>1
<1>4. Of(u) = Of(rs) \cup {r}
  <2>1. Of(u) \subseteq Of(rs) \cup {r}
    BY <1>1, <1>2, <1>3
  <2>2. Of(rs) \subseteq Of(u)
    BY <1>1, <1>2
  <2>3. r \in Of(u)
    BY <1>1, <1>2
  <2> QED
    BY <2>1, <2>2, <2>3
<1>5. ASSUME Injective(rs), r \notin Of(rs)
      PROVE  Injective(u)
  <2>1. ASSUME NEW i \in 1..Len(u), NEW j \in 1..Len(u), u[i] = u[j]
        PROVE  i = j
    BY <1>1, <1>2, <1>3, <1>5, <2>1 DEF Injective
  <2> QED
    BY <2>1 DEF Injective
<1> QED
  BY <1>1, <1>4, <1>5 DEF u

(* promise_then keeps the reaction on a pending promise ...                *)
LEMMA ThenWaits ==
  ASSUME NEW s, NEW a, NEW n \in Nat, NEW R, Structure(s, a, n, R), a # <<>>,
         s.promises[a[1].reaction.on].state = "pending"
  PROVE  LET r == a[1].reaction
             t == Then(s, r)
             rs == s.promises[r.on].reactions
         IN  /\ Structure(t, Tail(a), n, R) /\ Live(t, Tail(a)) = Live(s, a)
             /\ t.micro = s.micro /\ t.checks = s.checks /\ t.told = s.told
             /\ t.promises = [s.promises EXCEPT ![r.on] = [@ EXCEPT !.reactions = Append(rs, r)]]
<1> DEFINE r == a[1].reaction
           t == Then(s, r)
           rs == s.promises[r.on].reactions
           d == [s.promises[r.on] EXCEPT !.reactions = Append(rs, r)]
           Ps == 1..Len(s.promises)
<1>1. /\ s \in Cores /\ s.promises \in Seq(Data) /\ a \in Seq(Calls) /\ Distinct(a)
      /\ Links(s, a) /\ Places(s, a) /\ Numbered(s, a, n, R) /\ Typed(s, a)
  BY DEF Structure, Typed, Places, Cores
<1>2. /\ Tail(a) \in Seq(Calls) /\ Distinct(Tail(a))
      /\ CallSet(Tail(a)) = CallSet(a) \ {r} /\ r \in CallSet(a) /\ a[1] \in Calls
  BY <1>1, TailReactions DEF CallSet
<1>3. r \in Reactions /\ r.on \in Ps /\ s.promises[r.on] \in Data /\ Plain(s, r.on)
  BY <1>1, <1>2 DEF Calls, Links, Live, Plain
<1>4. rs \in Seq(Reactions)
  BY <1>3 DEF Data
<1>5. /\ Append(rs, r) \in Seq(Reactions) /\ Of(Append(rs, r)) = Of(rs) \cup {r}
      /\ Injective(Append(rs, r))
  <2>1. r \notin Of(rs)
    BY <1>1, <1>2, <1>3, InWaitSet DEF Places
  <2>2. Injective(rs)
    BY <1>1, <1>3 DEF Places
  <2> QED
    BY <1>3, <1>4, <2>1, <2>2, AppendReaction
<1>6. d \in Data
  BY <1>3, <1>5 DEF Data
<1>7. t = [s EXCEPT !.promises = [s.promises EXCEPT ![r.on] = d]]
  BY DEF Then
<1>8. /\ t \in Cores /\ t.promises = [s.promises EXCEPT ![r.on] = d]
      /\ t.micro = s.micro /\ t.checks = s.checks /\ t.told = s.told
  <2>1. [s.promises EXCEPT ![r.on] = d] \in Seq(Data)
    <3> HIDE DEF d, r
    <3> QED
      BY <1>1, <1>3, <1>6
  <2> HIDE DEF d, r, t
  <2> QED
    BY <1>1, <1>7, <2>1 DEF Cores
<1>9. /\ Len(t.promises) = Len(s.promises)
      /\ \A c \in Ps : c # r.on => t.promises[c] = s.promises[c]
      /\ t.promises[r.on] = d
  <2> HIDE DEF d, r, t
  <2> QED
    BY <1>1, <1>3, <1>6, <1>8
<1>10. /\ \A c \in Ps : /\ t.promises[c].view = s.promises[c].view
                        /\ t.promises[c].state = s.promises[c].state
       /\ t.promises[r.on].reactions = Append(rs, r)
  <2>1. d.view = s.promises[r.on].view /\ d.state = s.promises[r.on].state
        /\ d.reactions = Append(rs, r)
    BY <1>3 DEF Data
  <2> HIDE DEF d, r, t
  <2> QED
    BY <1>9, <2>1
<1> HIDE DEF t, d, rs, r
<1>11. WaitSet(t) = WaitSet(s) \cup {r} /\ QueueSet(t) = QueueSet(s)
  <2>1. ASSUME NEW x \in WaitSet(t)
        PROVE  x \in WaitSet(s) \cup {r}
    BY ZenonT(60), <1>3, <1>5, <1>9, <1>10, InWaitSet DEF rs
  <2>2. ASSUME NEW x \in WaitSet(s)
        PROVE  x \in WaitSet(t)
    BY <1>3, <1>5, <1>9, <1>10, InWaitSet DEF rs
  <2>3. r \in WaitSet(t)
    BY <1>3, <1>5, <1>9, <1>10, InWaitSet
  <2> QED
    BY <1>8, <2>1, <2>2, <2>3 DEF QueueSet
<1>12. Live(t, Tail(a)) = Live(s, a)
  BY <1>2, <1>11 DEF Live
<1>13. Typed(t, Tail(a))
  BY <1>1, <1>2, <1>8, <1>9 DEF Typed
<1>14. Links(t, Tail(a))
  <2>1. \A c : Plain(t, c) <=> Plain(s, c)
    BY <1>9, <1>10 DEF Plain
  <2>2. ASSUME NEW c \in Ps, t.promises[c].view # 0
        PROVE  t.promises[c] = s.promises[c]
    BY <1>3, <1>9, <1>10, <2>2 DEF Plain
  <2> QED
    BY <1>1, <1>8, <1>9, <1>10, <1>12, <2>1, <2>2 DEF Links
<1>15. Places(t, Tail(a))
  <2>1. ASSUME NEW c \in Ps
        PROVE  /\ Injective(t.promises[c].reactions)
               /\ \A x \in Of(t.promises[c].reactions) :
                    x.on = c /\ t.promises[c].state = "pending"
    <3>1. CASE c = r.on
      BY ZenonT(60), <1>1, <1>3, <1>5, <1>10, <3>1 DEF Places, rs, r
    <3>2. CASE c # r.on
      BY <1>1, <1>9, <3>2 DEF Places
    <3> QED
      BY <3>1, <3>2
  <2>2. \A x \in QueueSet(s) : x.on \in Ps
    BY <1>1 DEF Links, Live, Plain
  <2> QED
    BY <1>1, <1>2, <1>8, <1>9, <1>10, <1>11, <2>1, <2>2 DEF Places
<1>16. Numbered(t, Tail(a), n, R)
  BY <1>1, <1>12 DEF Numbered
<1> QED
  BY <1>8, <1>12, <1>13, <1>14, <1>15, <1>16 DEF Structure, t, r, d, rs

(* ... and queues it once the promise is settled.                          *)
LEMMA ThenQueues ==
  ASSUME NEW s, NEW a, NEW n \in Nat, NEW R, Structure(s, a, n, R), a # <<>>,
         s.promises[a[1].reaction.on].state # "pending"
  PROVE  LET r == a[1].reaction
             t == Then(s, r)
         IN  /\ Structure(t, Tail(a), n, R) /\ Live(t, Tail(a)) = Live(s, a)
             /\ t.micro = s.micro \o Jobs(<<r>>, s.promises[r.on].state)
             /\ t.promises = s.promises /\ t.checks = s.checks /\ t.told = s.told
<1> DEFINE r == a[1].reaction
           t == Then(s, r)
           Ps == 1..Len(s.promises)
<1>1. /\ s \in Cores /\ s.promises \in Seq(Data) /\ a \in Seq(Calls) /\ Distinct(a)
      /\ Links(s, a) /\ Places(s, a) /\ Numbered(s, a, n, R) /\ Typed(s, a)
      /\ s.micro \in Seq(JobSet)
  BY DEF Structure, Typed, Places, Cores
<1>2. /\ Tail(a) \in Seq(Calls) /\ Distinct(Tail(a))
      /\ CallSet(Tail(a)) = CallSet(a) \ {r} /\ r \in CallSet(a) /\ a[1] \in Calls
  BY <1>1, TailReactions DEF CallSet
<1>3. r \in Reactions /\ r.on \in Ps /\ s.promises[r.on] \in Data
  BY <1>1, <1>2 DEF Calls, Links, Live, Plain
<1>4. s.promises[r.on].state \in Outcomes
  BY <1>3 DEF Data
<1> DEFINE k == s.micro \o Jobs(<<r>>, s.promises[r.on].state)
<1>5. t = [s EXCEPT !.micro = k]
  BY DEF Then
<1>6. k \in Seq(JobSet)
  <2>1. <<r>> \in Seq(Reactions)
    BY <1>3
  <2> QED
    BY <1>1, <1>4, <2>1, QueueGrows
<1>7. /\ t \in Cores /\ t.promises = s.promises /\ t.micro = k
      /\ t.checks = s.checks /\ t.told = s.told
  <2> HIDE DEF k, t
  <2> QED
    BY <1>1, <1>5, <1>6 DEF Cores
<1>8. <<r>> \in Seq(Reactions) /\ Of(<<r>>) = {r} /\ Injective(<<r>>)
  BY <1>3 DEF Of, Injective
<1> HIDE DEF k, t, r
<1>9. /\ QueueSet(t) = QueueSet(s) \cup {r} /\ Distinct(t.micro)
      /\ WaitSet(t) = WaitSet(s)
  <2>1. r \notin QueueSet(s)
    BY <1>1, <1>2 DEF Places
  <2>2. Distinct(s.micro)
    BY <1>1 DEF Places
  <2>3. ReactionsOf(k) = ReactionsOf(s.micro) \cup {r} /\ Distinct(k)
    <3> DEFINE rs == <<r>>
    <3>1. /\ rs \in Seq(Reactions) /\ k = s.micro \o Jobs(rs, s.promises[r.on].state)
          /\ Of(rs) = {r} /\ Injective(rs) /\ ReactionsOf(s.micro) \cap Of(rs) = {}
      BY <1>8, <2>1 DEF QueueSet, k
    <3> HIDE DEF rs
    <3> QED
      BY <1>1, <1>4, <2>2, <3>1, QueueGrows
  <2> QED
    BY <1>7, <2>3 DEF QueueSet, WaitSet
<1>10. Live(t, Tail(a)) = Live(s, a)
  BY <1>2, <1>9 DEF Live
<1>11. Typed(t, Tail(a)) /\ Links(t, Tail(a))
  BY <1>1, <1>2, <1>7, <1>10 DEF Typed, Links, Plain
<1>12. Places(t, Tail(a))
  BY <1>1, <1>2, <1>7, <1>9 DEF Places, r
<1>13. Numbered(t, Tail(a), n, R)
  BY <1>1, <1>10 DEF Numbered
<1> QED
  BY <1>7, <1>10, <1>11, <1>12, <1>13 DEF Structure, t, r, k

(* The entries of the lists are reactions.                                 *)
LEMMA LiveTyped ==
  ASSUME NEW s, NEW a, Typed(s, a)
  PROVE  Live(s, a) \subseteq Reactions
<1>1. /\ s.promises \in Seq(Data) /\ s.micro \in Seq(JobSet) /\ a \in Seq(Calls)
  BY DEF Typed, Cores
<1>2. \A p \in 1..Len(s.promises) : s.promises[p].reactions \in Seq(Reactions)
  <2>1. \A p \in 1..Len(s.promises) : s.promises[p] \in Data
    BY <1>1
  <2> QED
    BY <2>1 DEF Data
<1>3. \A p \in 1..Len(s.promises) : \A r \in Of(s.promises[p].reactions) : r \in Reactions
  BY <1>2 DEF Of
<1>4. WaitSet(s) \subseteq Reactions
  BY <1>3 DEF WaitSet
<1>5. \A i \in 1..Len(s.micro) : s.micro[i].reaction \in Reactions
  <2>1. \A i \in 1..Len(s.micro) : s.micro[i] \in JobSet
    BY <1>1
  <2> QED
    BY <2>1 DEF JobSet
<1>6. \A i \in 1..Len(a) : a[i].reaction \in Reactions
  <2>1. \A i \in 1..Len(a) : a[i] \in Calls
    BY <1>1
  <2> QED
    BY <2>1 DEF Calls
<1> QED
  BY <1>4, <1>5, <1>6 DEF Live, QueueSet, CallSet, ReactionsOf

(* An entry is appended to a sequence.                                     *)
LEMMA AppendEntry ==
  ASSUME NEW S, NEW q \in Seq(S), NEW e \in S
  PROVE  /\ Append(q, e) \in Seq(S) /\ Of(q) \subseteq Of(Append(q, e)) /\ e \in Of(Append(q, e))
<1> DEFINE w == Append(q, e)
<1>1. /\ w \in Seq(S) /\ Len(w) = Len(q) + 1 /\ \A i \in 1..Len(q) : w[i] = q[i]
      /\ w[Len(q) + 1] = e
  BY AppendProperties
<1> HIDE DEF w
<1>2. Len(q) + 1 \in 1..Len(w) /\ 1..Len(q) \subseteq 1..Len(w)
  BY <1>1
<1>3. ASSUME NEW x \in Of(q)
      PROVE  x \in Of(w)
  <2>1. PICK i \in 1..Len(q) : x = q[i]
    BY InOf
  <2>2. x = w[i] /\ i \in 1..Len(w)
    BY <1>1, <1>2, <2>1
  <2> QED
    BY <1>1, <2>2, InOf
<1>4. e \in Of(w)
  BY <1>1, <1>2, InOf
<1> QED
  BY <1>1, <1>3, <1>4 DEF w

(* What the creation of a promise does.                                    *)
Added(s, t) ==
  LET k == Len(s.promises) + 1 IN
  /\ t \in Cores /\ t.micro = s.micro /\ t.checks = s.checks
  /\ Len(t.promises) = k /\ Len(t.told) = k /\ t.told[k] = <<>>
  /\ \A c \in 1..Len(s.promises) : t.promises[c] = s.promises[c] /\ t.told[c] = s.told[c]
  /\ t.promises[k].state = "pending" /\ t.promises[k].reactions = <<>>
  /\ ~t.promises[k].reported /\ (t.promises[k].view = 0 => ~t.promises[k].handled)
  /\ t.promises[k].view # 0 => Plain(s, t.promises[k].view)

(* A new promise has no reactions and no reports.                          *)
LEMMA AddKeeps ==
  ASSUME NEW s, NEW a, NEW n \in Nat, NEW R, NEW S, Good(s, a, n, R, S),
         S \subseteq 1..Len(s.promises), Len(s.promises) < MaxPromises, NEW t, Added(s, t)
  PROVE  Good(t, a, n, R, S) /\ Live(t, a) = Live(s, a)
<1> DEFINE k == Len(s.promises) + 1
           Ps == 1..Len(s.promises)
           Qs == 1..Len(t.promises)
<1>1. /\ s \in Cores /\ a \in Seq(Calls) /\ Len(s.promises) \in Nat /\ MaxPromises \in Nat
      /\ Typed(s, a) /\ Links(s, a) /\ Places(s, a) /\ Numbered(s, a, n, R)
      /\ Ordered(s, a, n) /\ Reports(s, S)
  BY PromisesAssumption DEF Good, Structure, Typed, Cores
<1>2. /\ t \in Cores /\ t.micro = s.micro /\ t.checks = s.checks
      /\ Len(t.promises) = k /\ Len(t.told) = k /\ t.told[k] = <<>>
      /\ \A c \in Ps : t.promises[c] = s.promises[c] /\ t.told[c] = s.told[c]
      /\ t.promises[k].state = "pending" /\ t.promises[k].reactions = <<>>
      /\ ~t.promises[k].reported /\ (t.promises[k].view = 0 => ~t.promises[k].handled)
      /\ (t.promises[k].view # 0 => Plain(s, t.promises[k].view))
  BY DEF Added
<1>3. Ps \subseteq Qs /\ (\A c \in Qs : c \in Ps \/ c = k) /\ k \in Qs /\ k \notin Ps
  BY <1>1, <1>2
<1>4. Of(<<>>) = {} /\ Injective(<<>>) /\ Len(<<>>) = 0
  BY DEF Of, Injective
<1> HIDE DEF k
<1>5. WaitSet(t) = WaitSet(s) /\ QueueSet(t) = QueueSet(s)
  <2>1. \A r : r \in WaitSet(t) => r \in WaitSet(s)
    BY <1>2, <1>3, <1>4, InWaitSet
  <2>2. \A r : r \in WaitSet(s) => r \in WaitSet(t)
    BY <1>2, <1>3, InWaitSet
  <2> QED
    BY <1>2, <2>1, <2>2 DEF QueueSet
<1>6. Live(t, a) = Live(s, a)
  BY <1>5 DEF Live
<1>7. \A c : Plain(s, c) => Plain(t, c) /\ c \in Ps
  BY <1>2, <1>3 DEF Plain
<1>8. Typed(t, a)
  BY <1>1, <1>2 DEF Typed, k
<1>9. Links(t, a)
  <2>1. ASSUME NEW c \in Qs, t.promises[c].view # 0
        PROVE  /\ Plain(t, t.promises[c].view)
               /\ t.promises[c].state = "pending" /\ t.promises[c].reactions = <<>>
    <3>1. CASE c \in Ps
      BY <1>1, <1>2, <1>7, <2>1, <3>1 DEF Links
    <3>2. CASE c = k
      BY <1>2, <1>7, <2>1, <3>2
    <3> QED
      BY <1>3, <3>1, <3>2
  <2>2. \A i \in 1..Len(t.checks) : t.checks[i] \in Qs
    BY <1>1, <1>2, <1>3 DEF Links
  <2>3. ASSUME NEW r \in Live(t, a)
        PROVE  Plain(t, r.on) /\ r.to <= Len(t.promises) /\ (r.kind # "user" => r.to # 0)
    <3>1. Plain(s, r.on) /\ r.to <= Len(s.promises) /\ (r.kind # "user" => r.to # 0)
      BY <1>1, <1>6 DEF Links
    <3>2. r \in Reactions
      BY <1>1, <1>6, LiveTyped
    <3>3. r.to \in Nat
      BY <1>1, <3>2 DEF Reactions
    <3> QED
      BY <1>1, <1>2, <1>7, <3>1, <3>3 DEF k
  <2> QED
    BY <2>1, <2>2, <2>3 DEF Links
<1>10. Places(t, a)
  <2>1. ASSUME NEW c \in Qs
        PROVE  /\ Injective(t.promises[c].reactions)
               /\ \A r \in Of(t.promises[c].reactions) :
                    r.on = c /\ t.promises[c].state = "pending"
    <3>1. CASE c \in Ps
      BY <1>1, <1>2, <3>1 DEF Places
    <3>2. CASE c = k
      BY <1>2, <1>4, <3>2
    <3> QED
      BY <1>3, <3>1, <3>2
  <2>2. \A r \in QueueSet(t) : t.promises[r.on].state # "pending"
    <3>1. \A r \in QueueSet(s) : r.on \in Ps
      BY <1>1 DEF Links, Live, Plain
    <3> QED
      BY <1>1, <1>2, <1>5, <3>1 DEF Places
  <2> QED
    BY <1>1, <1>2, <1>5, <2>1, <2>2 DEF Places
<1>11. Numbered(t, a, n, R)
  BY <1>1, <1>6 DEF Numbered
<1>12. \A r \in Live(s, a) : r.on \in Ps /\ Recalled(t, r.on) = Recalled(s, r.on)
  BY <1>1, <1>2 DEF Links, Plain, Recalled
<1>13. Ordered(t, a, n)
  <2>1. WaitOrder(t)
    <3>1. ASSUME NEW c \in Qs
          PROVE  \A i, j \in 1..Len(t.promises[c].reactions) :
                   LET rs == t.promises[c].reactions IN
                   i < j /\ rs[i].kind = "user" /\ rs[j].kind = "user" => rs[i].id < rs[j].id
      <4>1. CASE c \in Ps
        BY <1>1, <1>2, <4>1 DEF Ordered, WaitOrder
      <4>2. CASE c = k
        BY <1>2, <1>4, <4>2
      <4> QED
        BY <1>3, <4>1, <4>2
    <3> QED
      BY <3>1 DEF WaitOrder
  <2>2. QueueOrder(t)
    <3>1. \A i \in 1..Len(s.micro) : s.micro[i].reaction \in Live(s, a)
      BY DEF Live, QueueSet, ReactionsOf
    <3> QED
      BY <1>1, <1>2, <1>12, <3>1 DEF Ordered, QueueOrder
  <2>3. CallOrder(t, a, n)
    <3>1. \A i \in 1..Len(a) : a[i].reaction \in Live(s, a)
      BY DEF Live, CallSet, ReactionsOf
    <3> QED
      BY <1>1, <1>12, <3>1 DEF Ordered, CallOrder
  <2> QED
    BY <2>1, <2>2, <2>3 DEF Ordered
<1>14. Reports(t, S)
  BY <1>1, <1>2, <1>3 DEF Reports
<1> QED
  BY <1>6, <1>8, <1>9, <1>10, <1>11, <1>13, <1>14 DEF Good, Structure

(* A settled promise keeps the order of its reactions; a rejection nobody  *)
(* looked at waits for its check.                                          *)
LEMMA SettleGood ==
  ASSUME NEW s, NEW a, NEW n \in Nat, NEW R, NEW S, Good(s, a, n, R, S),
         NEW p \in 1..Len(s.promises), NEW o \in Outcomes
  PROVE  /\ Good(Settle(s, p, o), a, n, R, S) /\ Live(Settle(s, p, o), a) = Live(s, a)
         /\ Len(Settle(s, p, o).promises) = Len(s.promises)
         /\ \A c \in 1..Len(s.promises) :
              Settle(s, p, o).promises[c].view = s.promises[c].view
         /\ Settle(s, p, o).told = s.told
<1> DEFINE t == Settle(s, p, o)
           rs == s.promises[p].reactions
           Ps == 1..Len(s.promises)
<1>1. CASE s.promises[p].view # 0 \/ s.promises[p].state # "pending"
  BY <1>1 DEF Settle
<1>2. CASE ~(s.promises[p].view # 0 \/ s.promises[p].state # "pending")
  <2>1. /\ s \in Cores /\ a \in Seq(Calls) /\ Structure(s, a, n, R)
        /\ Typed(s, a) /\ Links(s, a) /\ Places(s, a) /\ Ordered(s, a, n) /\ Reports(s, S)
    BY DEF Good, Structure, Typed
  <2>2. SettledTo(s, t, p, o)
    BY <1>2, <2>1, SettleIs
  <2>3. Structure(t, a, n, R) /\ Live(t, a) = Live(s, a)
    BY <2>1, SettleKeeps
  <2> HIDE DEF t
  <2>4. /\ s.micro \in Seq(JobSet) /\ s.checks \in Seq(Nat) /\ \A c \in Ps : s.promises[c] \in Data
    BY <2>1 DEF Cores
  <2>5. rs \in Seq(Reactions) /\ Len(rs) \in Nat
    BY <2>4 DEF Data
  <2>6. /\ \A c \in Ps : c # p => t.promises[c] = s.promises[c]
        /\ t.promises[p].state = o /\ t.promises[p].reactions = <<>>
        /\ t.promises[p].view = 0 /\ s.promises[p].view = 0
        /\ Len(t.promises) = Len(s.promises) /\ t.told = s.told
    BY <1>2, <2>2, <2>4 DEF Data, SettledTo
  <2>7. /\ t.promises[p].handled = s.promises[p].handled
        /\ t.promises[p].reported = s.promises[p].reported
    BY <2>2, <2>4 DEF Data, SettledTo
  <2>8. \A c : Recalled(t, c) = Recalled(s, c)
    BY <2>6 DEF Recalled
  <2>9. WaitOrder(t)
    <3>1. ASSUME NEW c \in Ps
          PROVE  \A i, j \in 1..Len(t.promises[c].reactions) :
                   LET q == t.promises[c].reactions IN
                   i < j /\ q[i].kind = "user" /\ q[j].kind = "user" => q[i].id < q[j].id
      <4>1. CASE c # p
        BY <2>1, <2>6, <4>1 DEF Ordered, WaitOrder
      <4>2. CASE c = p
        <5>1. Len(<<>>) = 0
          OBVIOUS
        <5> QED
          BY <2>6, <4>2, <5>1
      <4> QED
        BY <4>1, <4>2
    <3> QED
      BY <2>6, <3>1 DEF WaitOrder
  <2>10. \A i \in 1..Len(s.micro) : s.micro[i].reaction.on # p
    <3>1. \A i \in 1..Len(s.micro) : s.micro[i].reaction \in QueueSet(s)
      BY DEF QueueSet, ReactionsOf
    <3> QED
      BY <1>2, <2>1, <3>1 DEF Places
  <2>11. \A i \in 1..Len(rs) : rs[i].on = p
    <3>1. \A i \in 1..Len(rs) : rs[i] \in Of(rs)
      BY <2>5 DEF Of
    <3> QED
      BY <2>1, <3>1 DEF Places
  <2>12. QueueOrder(t)
    <3>1. \A i, j \in 1..Len(rs) :
            i < j /\ rs[i].kind = "user" /\ rs[j].kind = "user" => rs[i].id < rs[j].id
      BY <2>1 DEF Ordered, WaitOrder
    <3> HIDE DEF rs
    <3> DEFINE m == s.micro
               k == t.micro
    <3>2. /\ Len(k) = Len(m) + Len(rs) /\ \A i \in 1..Len(m) : k[i] = m[i]
          /\ \A i \in (Len(m) + 1)..Len(k) : k[i].reaction = rs[i - Len(m)]
      <4>1. k = m \o Jobs(rs, o)
        BY <2>2 DEF SettledTo, rs
      <4> QED
        BY <2>4, <2>5, <4>1, QueueGrows
    <3>3. Len(m) \in Nat
      BY <2>4
    <3>4. \A i \in 1..Len(m) : m[i].reaction.on # p
      BY <2>10
    <3>5. \A i, j \in 1..Len(m) :
            i < j /\ m[i].reaction.on = m[j].reaction.on
            /\ m[i].reaction.kind = "user" /\ m[j].reaction.kind = "user"
            /\ ~Recalled(s, m[i].reaction.on) => m[i].reaction.id < m[j].reaction.id
      BY <2>1 DEF Ordered, QueueOrder
    <3> HIDE DEF m, k
    <3>6. ASSUME NEW i \in 1..Len(k), NEW j \in 1..Len(k), i < j,
                 k[i].reaction.on = k[j].reaction.on,
                 k[i].reaction.kind = "user", k[j].reaction.kind = "user",
                 ~Recalled(t, k[i].reaction.on)
          PROVE  k[i].reaction.id < k[j].reaction.id
      <4>1. CASE j <= Len(m)
        <5>1. i \in 1..Len(m) /\ j \in 1..Len(m) /\ k[i] = m[i] /\ k[j] = m[j]
          BY <3>2, <3>3, <3>6, <4>1
        <5> QED
          BY <2>8, <3>5, <3>6, <5>1
      <4>2. CASE i <= Len(m) /\ ~(j <= Len(m))
        <5>1. /\ i \in 1..Len(m) /\ j - Len(m) \in 1..Len(rs) /\ k[i] = m[i]
              /\ k[j].reaction = rs[j - Len(m)]
          BY <2>5, <3>2, <3>3, <3>6, <4>2
        <5> QED
          BY <2>11, <3>4, <3>6, <5>1
      <4>3. CASE ~(i <= Len(m))
        <5>1. /\ i - Len(m) \in 1..Len(rs) /\ j - Len(m) \in 1..Len(rs)
              /\ i - Len(m) < j - Len(m)
              /\ k[i].reaction = rs[i - Len(m)] /\ k[j].reaction = rs[j - Len(m)]
          BY <2>5, <3>2, <3>3, <3>6, <4>3
        <5> QED
          BY <3>1, <3>6, <5>1
      <4> QED
        BY <4>1, <4>2, <4>3
    <3> QED
      BY <3>6 DEF QueueOrder, k
  <2>13. CallOrder(t, a, n)
    BY <2>1, <2>8 DEF Ordered, CallOrder
  <2>14. Of(s.checks) \subseteq Of(t.checks) /\ (o = "rejected" => p \in Of(t.checks))
    <3>1. CASE o = "rejected"
      <4>1. s.checks \in Seq(Nat) /\ p \in Nat /\ t.checks = Append(s.checks, p)
        BY <2>2, <2>4, <3>1 DEF SettledTo
      <4> QED
        BY <4>1, AppendEntry
    <3>2. CASE o # "rejected"
      BY <2>2, <3>2 DEF SettledTo
    <3> QED
      BY <3>1, <3>2
  <2>15. Reports(t, S)
    <3>1. ASSUME NEW c \in Ps, c # p
          PROVE  LET d == t.promises[c] IN
                 /\ c \in S => d.handled
                 /\ d.state # "rejected" => t.told[c] = <<>> /\ ~d.reported
                 /\ d.state # "rejected" /\ d.view = 0 /\ c \notin S => ~d.handled
                 /\ d.state = "rejected" /\ c \notin S =>
                      \/ t.told[c] = <<>> /\ ~d.handled /\ ~d.reported /\ c \in Of(t.checks)
                      \/ t.told[c] = <<TRUE>> /\ d.reported
      BY <2>1, <2>6, <2>14, <3>1 DEF Reports
    <3>2. /\ p \in S => s.promises[p].handled
          /\ s.told[p] = <<>> /\ ~s.promises[p].reported
          /\ p \notin S => ~s.promises[p].handled
      <4>1. s.promises[p].state # "rejected" /\ s.promises[p].view = 0
        BY <1>2
      <4> QED
        BY <2>1, <4>1 DEF Reports
    <3>3. /\ p \in S => t.promises[p].handled
          /\ t.told[p] = <<>> /\ ~t.promises[p].reported
          /\ p \notin S => ~t.promises[p].handled
      BY <2>6, <2>7, <3>2
    <3> QED
      BY <2>6, <2>14, <3>1, <3>3 DEF Reports
  <2> QED
    BY <2>3, <2>6, <2>9, <2>12, <2>13, <2>15 DEF Good, Ordered, t
<1> QED
  BY <1>1, <1>2

(* A microtask leaves the queue: the others keep their order.              *)
LEMMA PopGood ==
  ASSUME NEW s, NEW a, NEW n \in Nat, NEW R, NEW S, Good(s, a, n, R, S), s.micro # <<>>
  PROVE  LET t == [s EXCEPT !.micro = Tail(@)]
             r == s.micro[1].reaction
         IN  /\ Good(t, a, n, R, S) /\ Good(t, a, n, R \cup {r.id}, S)
             /\ r \in Live(s, a) /\ Live(t, a) = Live(s, a) \ {r} /\ r \in Reactions
             /\ t.promises = s.promises /\ t.told = s.told /\ s.micro[1].outcome \in Outcomes
             /\ Head(s.micro) = s.micro[1]
             /\ r.on \in 1..Len(s.promises) /\ r.to \in 0..Len(s.promises)
             /\ r.kind # "user" => r.to # 0
<1> DEFINE t == [s EXCEPT !.micro = Tail(@)]
           r == s.micro[1].reaction
           m == s.micro
           k == Tail(m)
<1>1. /\ s \in Cores /\ m \in Seq(JobSet) /\ Distinct(m) /\ Structure(s, a, n, R)
      /\ Ordered(s, a, n) /\ Reports(s, S) /\ Links(s, a) /\ Len(s.promises) \in Nat
  BY DEF Good, Structure, Typed, Places, Cores
<1>2. /\ k \in Seq(JobSet) /\ Len(k) = Len(m) - 1 /\ Len(m) \in Nat
      /\ \A i \in 1..Len(k) : k[i] = m[i + 1]
      /\ Head(m) = m[1] /\ m[1] \in JobSet
  BY <1>1, TailReactions
<1>3. /\ t.promises = s.promises /\ t.checks = s.checks /\ t.told = s.told /\ t.micro = k
  BY <1>1 DEF Cores
<1>4. /\ Structure(t, a, n, R) /\ Structure(t, a, n, R \cup {r.id})
      /\ r \in Live(s, a) /\ r \in Reactions /\ Live(t, a) = Live(s, a) \ {r}
  BY <1>1, PopKeeps
<1>5. s.micro[1].outcome \in Outcomes
  BY <1>2 DEF JobSet
<1>6. r.on \in 1..Len(s.promises) /\ r.to \in 0..Len(s.promises) /\ (r.kind # "user" => r.to # 0)
  <2> HIDE DEF r
  <2>1. r.to \in Nat
    BY <1>4, PromisesAssumption DEF Reactions
  <2> QED
    BY <1>1, <1>4, <2>1 DEF Links, Plain
<1>7. \A i, j \in 1..Len(m) :
        i < j /\ m[i].reaction.on = m[j].reaction.on
        /\ m[i].reaction.kind = "user" /\ m[j].reaction.kind = "user"
        /\ ~Recalled(s, m[i].reaction.on) => m[i].reaction.id < m[j].reaction.id
  BY <1>1 DEF Ordered, QueueOrder
<1> HIDE DEF t, r, m, k
<1>8. \A c : Recalled(t, c) = Recalled(s, c)
  BY <1>3 DEF Recalled
<1>9. QueueOrder(t)
  <2>1. ASSUME NEW i \in 1..Len(k), NEW j \in 1..Len(k), i < j,
               k[i].reaction.on = k[j].reaction.on,
               k[i].reaction.kind = "user", k[j].reaction.kind = "user",
               ~Recalled(s, k[i].reaction.on)
        PROVE  k[i].reaction.id < k[j].reaction.id
    <3>1. /\ i + 1 \in 1..Len(m) /\ j + 1 \in 1..Len(m) /\ i + 1 < j + 1
          /\ k[i] = m[i + 1] /\ k[j] = m[j + 1]
      BY <1>2, <2>1
    <3> QED
      BY <1>7, <2>1, <3>1
  <2> QED
    BY <1>3, <1>8, <2>1 DEF QueueOrder
<1>10. Ordered(t, a, n)
  BY <1>1, <1>3, <1>8, <1>9 DEF Ordered, WaitOrder, CallOrder
<1>11. Reports(t, S)
  BY <1>1, <1>3 DEF Reports
<1> QED
  BY <1>2, <1>3, <1>4, <1>5, <1>6, <1>10, <1>11 DEF Good, t, r, m

(* What looking at a promise does.                                         *)
Observed(s, t, p) ==
  /\ t \in Cores /\ t.micro = s.micro /\ t.checks = s.checks
  /\ Len(t.promises) = Len(s.promises) /\ Len(t.told) = Len(s.told)
  /\ \A c \in 1..Len(s.promises) : /\ t.promises[c].view = s.promises[c].view
                                   /\ t.promises[c].state = s.promises[c].state
                                   /\ t.promises[c].reactions = s.promises[c].reactions
  /\ t.promises[p].handled /\ ~t.promises[p].reported
  /\ t.told[p] = IF s.promises[p].reported THEN Append(s.told[p], FALSE) ELSE s.told[p]
  /\ \A c \in 1..Len(s.promises) :
       c # p => t.promises[c] = s.promises[c] /\ t.told[c] = s.told[c]

(* Observe does just that.                                                 *)
LEMMA ObserveIs ==
  ASSUME NEW s \in Cores, Len(s.told) = Len(s.promises), NEW p \in 1..Len(s.promises)
  PROVE  Observed(s, Observe(s, p), p)
<1> DEFINE t == Observe(s, p)
           d == [s.promises[p] EXCEPT !.handled = TRUE, !.reported = FALSE]
           u == IF s.promises[p].reported THEN Append(s.told[p], FALSE) ELSE s.told[p]
<1>1. /\ s.promises \in Seq(Data) /\ s.micro \in Seq(JobSet) /\ s.checks \in Seq(Nat)
      /\ s.told \in Seq(Seq(BOOLEAN))
  BY DEF Cores
<1>2. s.promises[p] \in Data /\ s.told[p] \in Seq(BOOLEAN)
  BY <1>1
<1>3. /\ d \in Data /\ d.handled = TRUE /\ d.reported = FALSE /\ d.view = s.promises[p].view
      /\ d.state = s.promises[p].state /\ d.reactions = s.promises[p].reactions
  BY <1>2 DEF Data
<1>4. u \in Seq(BOOLEAN)
  <2>1. FALSE \in BOOLEAN
    OBVIOUS
  <2>2. Append(s.told[p], FALSE) \in Seq(BOOLEAN)
    BY <1>2, <2>1, AppendEntry, Zenon
  <2> QED
    BY <1>2, <2>2, Zenon
<1>5. t = [s EXCEPT !.promises = [s.promises EXCEPT ![p] = d],
                    !.told = [s.told EXCEPT ![p] = u]]
  BY DEF Observe, Cores
<1> HIDE DEF d, u, t
<1>6. /\ [s.promises EXCEPT ![p] = d] \in Seq(Data)
      /\ Len([s.promises EXCEPT ![p] = d]) = Len(s.promises)
      /\ \A c \in 1..Len(s.promises) :
           [s.promises EXCEPT ![p] = d][c] = IF c = p THEN d ELSE s.promises[c]
  BY <1>1, <1>3
<1>7. /\ [s.told EXCEPT ![p] = u] \in Seq(Seq(BOOLEAN))
      /\ Len([s.told EXCEPT ![p] = u]) = Len(s.told)
      /\ \A c \in 1..Len(s.promises) :
           [s.told EXCEPT ![p] = u][c] = IF c = p THEN u ELSE s.told[c]
  BY <1>1, <1>4
<1>8. /\ t.promises = [s.promises EXCEPT ![p] = d] /\ t.told = [s.told EXCEPT ![p] = u]
      /\ t.micro = s.micro /\ t.checks = s.checks
      /\ t = [promises |-> t.promises, micro |-> t.micro, checks |-> t.checks, told |-> t.told]
  BY <1>5 DEF Cores
<1>9. t \in Cores
  BY <1>1, <1>6, <1>7, <1>8 DEF Cores
<1>10. /\ Len(t.promises) = Len(s.promises) /\ Len(t.told) = Len(s.told)
       /\ t.promises[p] = d /\ t.told[p] = u
       /\ \A c \in 1..Len(s.promises) :
            c # p => t.promises[c] = s.promises[c] /\ t.told[c] = s.told[c]
  BY <1>6, <1>7, <1>8
<1>11. \A c \in 1..Len(s.promises) : /\ t.promises[c].view = s.promises[c].view
                                     /\ t.promises[c].state = s.promises[c].state
                                     /\ t.promises[c].reactions = s.promises[c].reactions
  BY <1>3, <1>10
<1>12. t.promises[p].handled /\ ~t.promises[p].reported
  BY <1>3, <1>10
<1>13. Observed(s, t, p)
  BY <1>8, <1>9, <1>10, <1>11, <1>12, Zenon DEF Observed, u
<1> QED
  BY <1>13 DEF t

(* From then on the promise is seen; a report made of it is taken back.    *)
LEMMA ObserveGood ==
  ASSUME NEW s, NEW a, NEW n \in Nat, NEW R, NEW S, Good(s, a, n, R, S),
         NEW p, Plain(s, p)
  PROVE  LET t == Observe(s, p) IN
         /\ Good(t, a, n, R, S \cup {p}) /\ Live(t, a) = Live(s, a) /\ Observed(s, t, p)
         /\ s.promises[p].reported => Recalled(t, p)
<1> DEFINE t == Observe(s, p)
           Ps == 1..Len(s.promises)
<1>1. /\ s \in Cores /\ Structure(s, a, n, R) /\ Len(s.told) = Len(s.promises) /\ p \in Ps
      /\ Ordered(s, a, n) /\ Reports(s, S) /\ Links(s, a) /\ s.told \in Seq(Seq(BOOLEAN))
      /\ s.promises \in Seq(Data)
  BY DEF Good, Structure, Typed, Cores, Plain
<1>2. Observed(s, t, p)
  BY <1>1, ObserveIs
<1> HIDE DEF t
<1>3. /\ t \in Cores /\ t.micro = s.micro /\ t.checks = s.checks
      /\ Len(t.promises) = Len(s.promises) /\ Len(t.told) = Len(s.told)
      /\ \A c \in Ps : /\ t.promises[c].view = s.promises[c].view
                       /\ t.promises[c].state = s.promises[c].state
                       /\ t.promises[c].reactions = s.promises[c].reactions
      /\ t.promises[p].handled /\ ~t.promises[p].reported
      /\ t.told[p] = (IF s.promises[p].reported THEN Append(s.told[p], FALSE) ELSE s.told[p])
      /\ \A c \in Ps : c # p => t.promises[c] = s.promises[c] /\ t.told[c] = s.told[c]
  BY <1>2 DEF Observed
<1>4. Structure(t, a, n, R) /\ Live(t, a) = Live(s, a)
  <2>1. \A i \in 1..Len(t.checks) : t.checks[i] \in Ps
    BY <1>1, <1>3 DEF Links
  <2> QED
    BY <1>1, <1>3, <2>1, FlagsKeep
<1>5. Of(s.told[p]) \subseteq Of(t.told[p]) /\ (s.promises[p].reported => FALSE \in Of(t.told[p]))
  <2>1. CASE s.promises[p].reported
    <3>1. s.told[p] \in Seq(BOOLEAN)
      BY <1>1
    <3>2. FALSE \in BOOLEAN
      OBVIOUS
    <3>3. t.told[p] = Append(s.told[p], FALSE)
      BY <1>3, <2>1
    <3> QED
      BY <3>1, <3>2, <3>3, AppendEntry, Zenon
  <2>2. CASE ~s.promises[p].reported
    BY <1>3, <2>2
  <2> QED
    BY <2>1, <2>2
<1>6. \A c \in Ps : Recalled(s, c) => Recalled(t, c)
  BY <1>3, <1>5 DEF Recalled
<1>7. Ordered(t, a, n)
  <2>1. WaitOrder(t)
    BY <1>1, <1>3 DEF Ordered, WaitOrder
  <2>2. QueueOrder(t)
    <3>1. \A i \in 1..Len(s.micro) : s.micro[i].reaction.on \in Ps
      BY <1>1 DEF Links, Plain, Live, QueueSet, ReactionsOf
    <3> QED
      BY <1>1, <1>3, <1>6, <3>1 DEF Ordered, QueueOrder
  <2>3. CallOrder(t, a, n)
    <3>1. \A i \in 1..Len(a) : a[i].reaction.on \in Ps
      BY <1>1 DEF Links, Plain, Live, CallSet, ReactionsOf
    <3> QED
      BY <1>1, <1>6, <3>1 DEF Ordered, CallOrder
  <2> QED
    BY <2>1, <2>2, <2>3 DEF Ordered
<1>8. Reports(t, S \cup {p})
  <2>1. ASSUME NEW c \in Ps, c # p
        PROVE  LET d == t.promises[c] IN
               /\ c \in S \cup {p} => d.handled
               /\ d.state # "rejected" => t.told[c] = <<>> /\ ~d.reported
               /\ d.state # "rejected" /\ d.view = 0 /\ c \notin S \cup {p} => ~d.handled
               /\ d.state = "rejected" /\ c \notin S \cup {p} =>
                    \/ t.told[c] = <<>> /\ ~d.handled /\ ~d.reported /\ c \in Of(t.checks)
                    \/ t.told[c] = <<TRUE>> /\ d.reported
    BY <1>1, <1>3, <2>1 DEF Reports
  <2>2. t.promises[p].state # "rejected" => t.told[p] = <<>>
    BY <1>1, <1>3 DEF Reports
  <2> QED
    BY <1>3, <2>1, <2>2 DEF Reports
<1> QED
  BY <1>2, <1>4, <1>5, <1>7, <1>8 DEF Good, t, Recalled

(* The calls behind the first one keep their order: none of them is the    *)
(* last one made by script code.                                           *)
LEMMA TailCalls ==
  ASSUME NEW s, NEW a \in Seq(Calls), a # <<>>, NEW n \in Nat, CallOrder(s, a, n), Distinct(a)
  PROVE  CallOrder(s, Tail(a), n)
<1> DEFINE b == Tail(a)
<1>1. /\ Len(b) = Len(a) - 1 /\ Len(a) \in Nat /\ \A i \in 1..Len(b) : b[i] = a[i + 1]
  BY TailReactions
<1> HIDE DEF b
<1>2. ASSUME NEW i \in 1..Len(b)
      PROVE  /\ b[i].listening => Recalled(s, b[i].reaction.on)
             /\ b[i].reaction.kind = "user" => b[i].listening
  <2>1. i + 1 \in 1..Len(a) /\ i + 1 # 1 /\ b[i] = a[i + 1]
    BY <1>1
  <2> QED
    BY <2>1 DEF CallOrder
<1>3. CallOrder(s, b, n)
  BY <1>2 DEF CallOrder
<1> QED
  BY <1>3 DEF b

(* The reaction being attached is no older than the others, unless a        *)
(* listener ran for its promise.                                           *)
LEMMA FirstCall ==
  ASSUME NEW s, NEW a, NEW n \in Nat, NEW R, NEW S, Good(s, a, n, R, S), a # <<>>
  PROVE  LET r == a[1].reaction IN
         /\ r \in CallSet(a) /\ r \in Reactions /\ Plain(s, r.on) /\ a[1] \in Calls
         /\ r.kind = "user" =>
              \/ Recalled(s, r.on) /\ s.promises[r.on].state = "rejected"
              \/ \A q \in Live(s, a) : q # r /\ q.kind = "user" => q.id < r.id
<1> DEFINE r == a[1].reaction
<1>1. /\ a \in Seq(Calls) /\ Distinct(a) /\ Typed(s, a) /\ Links(s, a) /\ Reports(s, S)
      /\ Numbered(s, a, n, R) /\ CallOrder(s, a, n) /\ Len(a) \in Nat
  BY DEF Good, Structure, Typed, Places, Ordered
<1>2. r \in CallSet(a) /\ a[1] \in Calls
  BY <1>1, TailReactions DEF CallSet
<1>3. r \in Live(s, a)
  BY <1>2 DEF Live
<1>4. r \in Reactions /\ Plain(s, r.on)
  BY <1>1, <1>3, LiveTyped DEF Links
<1>5. 1 \in 1..Len(a)
  BY <1>1
<1> HIDE DEF r
<1>6. ASSUME a[1].listening
      PROVE  Recalled(s, r.on) /\ s.promises[r.on].state = "rejected"
  <2>1. Recalled(s, r.on)
    BY <1>1, <1>5, <1>6 DEF CallOrder, r
  <2>2. s.told[r.on] # <<>>
    <3>1. Of(<<>>) = {}
      BY DEF Of
    <3> QED
      BY <2>1, <3>1, Zenon DEF Recalled
  <2> QED
    BY <1>1, <1>4, <2>1, <2>2 DEF Reports, Plain
<1>7. ASSUME r.kind = "user", ~a[1].listening, NEW q \in Live(s, a), q # r, q.kind = "user"
      PROVE  q.id < r.id
  <2>1. r.id = 2 * n - 1
    BY <1>1, <1>5, <1>7 DEF CallOrder, r
  <2>2. q.id <= 2 * n - 1 /\ q.id # r.id
    BY <1>1, <1>3, <1>7 DEF Numbered
  <2>3. q.id \in Nat /\ r.id \in Nat
    BY <1>1, <1>4, <1>7, LiveTyped DEF Reactions
  <2> QED
    BY <2>1, <2>2, <2>3
<1> QED
  BY <1>2, <1>4, <1>6, <1>7 DEF r

(* promise_then keeps the order of the reactions of a promise.             *)
LEMMA ThenGood ==
  ASSUME NEW s, NEW a, NEW n \in Nat, NEW R, NEW S, Good(s, a, n, R, S), a # <<>>
  PROVE  LET t == Then(s, a[1].reaction) IN
         /\ Good(t, Tail(a), n, R, S) /\ Live(t, Tail(a)) = Live(s, a)
         /\ Len(t.promises) = Len(s.promises) /\ t.told = s.told
         /\ \A c \in 1..Len(s.promises) : t.promises[c].view = s.promises[c].view
<1> DEFINE r == a[1].reaction
           t == Then(s, r)
           Ps == 1..Len(s.promises)
<1>1. /\ s \in Cores /\ s.promises \in Seq(Data) /\ a \in Seq(Calls) /\ Distinct(a)
      /\ Structure(s, a, n, R) /\ Ordered(s, a, n) /\ Reports(s, S) /\ s.micro \in Seq(JobSet)
  BY DEF Good, Structure, Typed, Places, Cores
<1>2. /\ r \in CallSet(a) /\ r \in Reactions /\ Plain(s, r.on)
      /\ r.kind = "user" =>
           \/ Recalled(s, r.on) /\ s.promises[r.on].state = "rejected"
           \/ \A q \in Live(s, a) : q # r /\ q.kind = "user" => q.id < r.id
  BY FirstCall
<1>3. CallOrder(s, Tail(a), n)
  BY <1>1, TailCalls DEF Ordered
<1>4. CallSet(a) \cap (WaitSet(s) \cup QueueSet(s)) = {}
  BY <1>1 DEF Structure, Places
<1>5. r.on \in Ps /\ s.promises[r.on] \in Data
  BY <1>1, <1>2 DEF Plain
<1>6. CASE s.promises[r.on].state = "pending"
  <2> DEFINE rs == s.promises[r.on].reactions
             w == Append(rs, r)
             d == [s.promises[r.on] EXCEPT !.reactions = w]
  <2>1. /\ Structure(t, Tail(a), n, R) /\ Live(t, Tail(a)) = Live(s, a)
        /\ t.micro = s.micro /\ t.checks = s.checks /\ t.told = s.told
        /\ t.promises = [s.promises EXCEPT ![r.on] = d]
    BY <1>1, <1>6, ThenWaits
  <2> HIDE DEF t, r
  <2>2. rs \in Seq(Reactions)
    BY <1>5 DEF Data
  <2>3. /\ w \in Seq(Reactions) /\ Len(w) = Len(rs) + 1 /\ Len(rs) \in Nat
        /\ \A i \in 1..Len(rs) : w[i] = rs[i]
        /\ w[Len(rs) + 1] = r
    <3> HIDE DEF rs
    <3> QED
      BY <1>2, <2>2, AppendProperties
  <2>4. /\ d.view = s.promises[r.on].view /\ d.state = s.promises[r.on].state
        /\ d.handled = s.promises[r.on].handled /\ d.reported = s.promises[r.on].reported
        /\ d.reactions = w /\ d \in Data
    BY <1>5, <2>3 DEF Data
  <2> HIDE DEF d
  <2>5. /\ Len(t.promises) = Len(s.promises) /\ t.promises[r.on] = d
        /\ \A c \in Ps : c # r.on => t.promises[c] = s.promises[c]
    BY <1>1, <1>5, <2>1, <2>4
  <2>6. \A i, j \in 1..Len(rs) :
          i < j /\ rs[i].kind = "user" /\ rs[j].kind = "user" => rs[i].id < rs[j].id
    BY <1>1, <1>5 DEF Ordered, WaitOrder
  <2>7. \A i \in 1..Len(rs) : rs[i] \in Live(s, a) /\ rs[i] # r
    <3>1. \A i \in 1..Len(rs) : rs[i] \in Of(rs)
      BY <2>2 DEF Of
    <3>2. \A i \in 1..Len(rs) : rs[i] \in WaitSet(s)
      BY <1>5, <3>1, InWaitSet
    <3> QED
      BY <1>2, <1>4, <3>2 DEF Live
  <2> HIDE DEF rs, w
  <2>8. ASSUME NEW i \in 1..Len(w), NEW j \in 1..Len(w), i < j, w[i].kind = "user", w[j].kind = "user"
        PROVE  w[i].id < w[j].id
    <3>1. CASE j <= Len(rs)
      <4>1. i \in 1..Len(rs) /\ j \in 1..Len(rs) /\ w[i] = rs[i] /\ w[j] = rs[j]
        BY <2>3, <2>8, <3>1
      <4> QED
        BY <2>6, <2>8, <4>1
    <3>2. CASE j = Len(rs) + 1
      <4>1. i \in 1..Len(rs) /\ w[i] = rs[i] /\ w[j] = r
        BY <2>3, <2>8, <3>2
      <4>2. \A q \in Live(s, a) : q # r /\ q.kind = "user" => q.id < r.id
        BY <1>2, <1>6, <2>8, <4>1
      <4> QED
        BY <2>7, <2>8, <4>1, <4>2
    <3> QED
      BY <2>3, <3>1, <3>2
  <2>9. WaitOrder(t)
    <3>1. ASSUME NEW c \in Ps
          PROVE  \A i, j \in 1..Len(t.promises[c].reactions) :
                   LET q == t.promises[c].reactions IN
                   i < j /\ q[i].kind = "user" /\ q[j].kind = "user" => q[i].id < q[j].id
      <4>1. CASE c = r.on
        BY <2>4, <2>5, <2>8, <4>1
      <4>2. CASE c # r.on
        BY <1>1, <2>5, <4>2 DEF Ordered, WaitOrder
      <4> QED
        BY <4>1, <4>2
    <3> QED
      BY <2>5, <3>1 DEF WaitOrder
  <2>10. QueueOrder(t) /\ CallOrder(t, Tail(a), n)
    BY ZenonT(60), <1>1, <1>3, <2>1 DEF Ordered, QueueOrder, CallOrder, Recalled
  <2>11. \A c \in Ps : /\ t.promises[c].view = s.promises[c].view
                       /\ t.promises[c].state = s.promises[c].state
                       /\ t.promises[c].handled = s.promises[c].handled
                       /\ t.promises[c].reported = s.promises[c].reported
    BY <2>4, <2>5
  <2>12. Reports(t, S)
    BY <1>1, <2>1, <2>5, <2>11 DEF Reports
  <2> QED
    BY <2>1, <2>5, <2>9, <2>10, <2>11, <2>12 DEF Good, Ordered, t, r
<1>7. CASE s.promises[r.on].state # "pending"
  <2> DEFINE m == s.micro
             k == m \o Jobs(<<r>>, s.promises[r.on].state)
  <2>1. /\ Structure(t, Tail(a), n, R) /\ Live(t, Tail(a)) = Live(s, a)
        /\ t.micro = k
        /\ t.promises = s.promises /\ t.checks = s.checks /\ t.told = s.told
    BY <1>1, <1>7, ThenQueues
  <2>2. s.promises[r.on].state \in Outcomes
    BY <1>5, <1>7 DEF Data
  <2> HIDE DEF t, r
  <2>3. /\ Len(k) = Len(m) + 1 /\ \A i \in 1..Len(m) : k[i] = m[i]
        /\ k[Len(m) + 1].reaction = r
    <3> DEFINE rs == <<r>>
    <3>1. rs \in Seq(Reactions) /\ Len(rs) = 1 /\ rs[1] = r
      BY <1>2
    <3>2. k = m \o Jobs(rs, s.promises[r.on].state)
      OBVIOUS
    <3> HIDE DEF rs, k
    <3>3. /\ Len(k) = Len(m) + Len(rs) /\ \A i \in 1..Len(m) : k[i] = m[i]
          /\ \A i \in (Len(m) + 1)..Len(k) : k[i].reaction = rs[i - Len(m)]
      BY <1>1, <2>2, <3>1, <3>2, QueueGrows
    <3>4. Len(m) + 1 \in (Len(m) + 1)..Len(k) /\ (Len(m) + 1) - Len(m) = 1
      BY <1>1, <3>1, <3>3
    <3> QED
      BY <3>1, <3>3, <3>4
  <2>4. \A i \in 1..Len(m) : m[i].reaction \in Live(s, a) /\ m[i].reaction # r
    <3>1. \A i \in 1..Len(m) : m[i].reaction \in QueueSet(s)
      BY DEF QueueSet, ReactionsOf
    <3> QED
      BY <1>2, <1>4, <3>1 DEF Live
  <2>5. \A i, j \in 1..Len(m) :
          i < j /\ m[i].reaction.on = m[j].reaction.on
          /\ m[i].reaction.kind = "user" /\ m[j].reaction.kind = "user"
          /\ ~Recalled(s, m[i].reaction.on) => m[i].reaction.id < m[j].reaction.id
    BY <1>1 DEF Ordered, QueueOrder
  <2>6. Len(m) \in Nat
    BY <1>1
  <2> HIDE DEF m, k
  <2>7. ASSUME NEW i \in 1..Len(k), NEW j \in 1..Len(k), i < j,
               k[i].reaction.on = k[j].reaction.on,
               k[i].reaction.kind = "user", k[j].reaction.kind = "user",
               ~Recalled(s, k[i].reaction.on)
        PROVE  k[i].reaction.id < k[j].reaction.id
    <3>1. CASE j <= Len(m)
      <4>1. i \in 1..Len(m) /\ j \in 1..Len(m) /\ k[i] = m[i] /\ k[j] = m[j]
        BY <2>3, <2>6, <2>7, <3>1
      <4> QED
        BY <2>5, <2>7, <4>1
    <3>2. CASE j = Len(m) + 1
      <4>1. i \in 1..Len(m) /\ k[i] = m[i] /\ k[j].reaction = r
        BY <2>3, <2>6, <2>7, <3>2
      <4>2. \A q \in Live(s, a) : q # r /\ q.kind = "user" => q.id < r.id
        BY <1>2, <2>7, <4>1
      <4> QED
        BY <2>4, <2>7, <4>1, <4>2
    <3> QED
      BY <2>3, <2>6, <3>1, <3>2
  <2>8. QueueOrder(t)
    BY <2>1, <2>7 DEF QueueOrder, Recalled
  <2>9. WaitOrder(t) /\ CallOrder(t, Tail(a), n)
    BY <1>1, <1>3, <2>1 DEF Ordered, WaitOrder, CallOrder, Recalled
  <2>10. Reports(t, S)
    BY <1>1, <2>1 DEF Reports
  <2> QED
    BY <2>1, <2>8, <2>9, <2>10 DEF Good, Ordered, t, r
<1> QED
  BY <1>6, <1>7

(* Without its first entry, a sequence has all entries but, maybe, that one.*)
LEMMA TailEntries ==
  ASSUME NEW S, NEW q \in Seq(S), q # <<>>
  PROVE  /\ Tail(q) \in Seq(S) /\ Head(q) = q[1] /\ q[1] \in Of(q)
         /\ \A x \in Of(q) : x # q[1] => x \in Of(Tail(q))
         /\ \A i \in 1..Len(Tail(q)) : Tail(q)[i] = q[i + 1] /\ i + 1 \in 1..Len(q)
<1> DEFINE u == Tail(q)
<1>1. /\ u \in Seq(S) /\ Len(u) = Len(q) - 1 /\ Len(q) \in Nat \ {0} /\ Head(q) = q[1]
      /\ \A i \in 1..Len(u) : u[i] = q[i + 1]
  BY HeadTailProperties, EmptySeq
<1> HIDE DEF u
<1>2. ASSUME NEW x \in Of(q), x # q[1]
      PROVE  x \in Of(u)
  <2>1. PICK i \in 1..Len(q) : x = q[i]
    BY InOf
  <2> DEFINE j == i - 1
  <2>2. j \in 1..Len(u) /\ j + 1 = i
    BY <1>1, <1>2, <2>1
  <2> HIDE DEF j
  <2>3. x = u[j]
    BY <1>1, <2>1, <2>2
  <2> QED
    BY <1>1, <2>2, <2>3, InOf
<1>3. q[1] \in Of(q)
  BY <1>1, InOf
<1>4. \A i \in 1..Len(u) : i + 1 \in 1..Len(q)
  BY <1>1
<1> QED
  BY <1>1, <1>2, <1>3, <1>4 DEF u

(* What a check does to the promise it looks at.                           *)
Checked(s, t) ==
  LET p == s.checks[1] IN
  /\ t \in Cores /\ t.micro = s.micro /\ t.checks = Tail(s.checks)
  /\ Len(t.promises) = Len(s.promises) /\ Len(t.told) = Len(s.told)
  /\ \A c \in 1..Len(s.promises) : /\ t.promises[c].view = s.promises[c].view
                                   /\ t.promises[c].state = s.promises[c].state
                                   /\ t.promises[c].reactions = s.promises[c].reactions
  /\ \A c \in 1..Len(s.promises) :
       c # p => t.promises[c] = s.promises[c] /\ t.told[c] = s.told[c]
  /\ \/ /\ t.promises[p] = s.promises[p] /\ t.told[p] = s.told[p]
        /\ ~(~s.promises[p].handled /\ ~s.promises[p].reported /\ s.promises[p].state = "rejected")
     \/ /\ ~s.promises[p].handled /\ ~s.promises[p].reported /\ s.promises[p].state = "rejected"
        /\ t.promises[p].reported /\ t.told[p] = Append(s.told[p], TRUE)

(* A rejection that nobody looked at is reported by its check, once.       *)
LEMMA CheckGood ==
  ASSUME NEW s, NEW a, NEW n \in Nat, NEW R, NEW S, Good(s, a, n, R, S), s.checks # <<>>,
         NEW t, Checked(s, t)
  PROVE  Good(t, a, n, R, S) /\ Live(t, a) = Live(s, a)
<1> DEFINE p == s.checks[1]
           Ps == 1..Len(s.promises)
<1>1. /\ s \in Cores /\ Structure(s, a, n, R) /\ Len(s.told) = Len(s.promises)
      /\ Ordered(s, a, n) /\ Reports(s, S) /\ Links(s, a) /\ s.told \in Seq(Seq(BOOLEAN))
      /\ s.promises \in Seq(Data) /\ s.checks \in Seq(Nat)
  BY DEF Good, Structure, Typed, Cores
<1>2. /\ t \in Cores /\ t.micro = s.micro /\ t.checks = Tail(s.checks)
      /\ Len(t.promises) = Len(s.promises) /\ Len(t.told) = Len(s.told)
      /\ \A c \in Ps : /\ t.promises[c].view = s.promises[c].view
                       /\ t.promises[c].state = s.promises[c].state
                       /\ t.promises[c].reactions = s.promises[c].reactions
      /\ \A c \in Ps : c # p => t.promises[c] = s.promises[c] /\ t.told[c] = s.told[c]
      /\ \/ /\ t.promises[p] = s.promises[p] /\ t.told[p] = s.told[p]
            /\ ~(~s.promises[p].handled /\ ~s.promises[p].reported /\ s.promises[p].state = "rejected")
         \/ /\ ~s.promises[p].handled /\ ~s.promises[p].reported /\ s.promises[p].state = "rejected"
            /\ t.promises[p].reported /\ t.told[p] = Append(s.told[p], TRUE)
  BY DEF Checked
<1>3. /\ \A x \in Of(s.checks) : x # p => x \in Of(t.checks)
      /\ \A i \in 1..Len(t.checks) : t.checks[i] = s.checks[i + 1] /\ i + 1 \in 1..Len(s.checks)
      /\ p \in Of(s.checks)
  BY SMTT(30), <1>1, <1>2, TailEntries
<1>4. p \in Ps
  BY <1>1, <1>3, InOf DEF Links
<1> HIDE DEF p
<1>5. Structure(t, a, n, R) /\ Live(t, a) = Live(s, a)
  <2>1. \A i \in 1..Len(t.checks) : t.checks[i] \in Ps
    BY <1>1, <1>3 DEF Links
  <2> QED
    BY <1>1, <1>2, <2>1, FlagsKeep
<1>6. Of(s.told[p]) \subseteq Of(t.told[p])
  <2>1. s.told[p] \in Seq(BOOLEAN)
    BY <1>1, <1>4
  <2>2. TRUE \in BOOLEAN
    OBVIOUS
  <2>3. t.told[p] = s.told[p] \/ t.told[p] = Append(s.told[p], TRUE)
    BY <1>2
  <2> QED
    BY <2>1, <2>2, <2>3, AppendEntry, Zenon
<1>7. \A c \in Ps : Recalled(s, c) => Recalled(t, c)
  BY <1>2, <1>6 DEF Recalled
<1>8. Ordered(t, a, n)
  <2>1. WaitOrder(t)
    <3>1. /\ WaitOrder(s) /\ Len(t.promises) = Len(s.promises)
          /\ \A c \in Ps : t.promises[c].reactions = s.promises[c].reactions
      BY <1>1, <1>2 DEF Ordered
    <3> QED
      BY <3>1 DEF WaitOrder
  <2>2. QueueOrder(t)
    <3>1. \A i \in 1..Len(s.micro) : s.micro[i].reaction.on \in Ps
      BY <1>1 DEF Links, Plain, Live, QueueSet, ReactionsOf
    <3> QED
      BY <1>1, <1>2, <1>7, <3>1 DEF Ordered, QueueOrder
  <2>3. CallOrder(t, a, n)
    <3>1. \A i \in 1..Len(a) : a[i].reaction.on \in Ps
      BY <1>1 DEF Links, Plain, Live, CallSet, ReactionsOf
    <3> QED
      BY <1>1, <1>7, <3>1 DEF Ordered, CallOrder
  <2> QED
    BY <2>1, <2>2, <2>3 DEF Ordered
<1>9. Reports(t, S)
  <2>1. ASSUME NEW c \in Ps, c # p
        PROVE  LET d == t.promises[c] IN
               /\ c \in S => d.handled
               /\ d.state # "rejected" => t.told[c] = <<>> /\ ~d.reported
               /\ d.state # "rejected" /\ d.view = 0 /\ c \notin S => ~d.handled
               /\ d.state = "rejected" /\ c \notin S =>
                    \/ t.told[c] = <<>> /\ ~d.handled /\ ~d.reported /\ c \in Of(t.checks)
                    \/ t.told[c] = <<TRUE>> /\ d.reported
    BY <1>1, <1>2, <1>3, <2>1 DEF Reports
  <2>2. LET d == t.promises[p] IN
        /\ p \in S => d.handled
        /\ d.state # "rejected" => t.told[p] = <<>> /\ ~d.reported
        /\ d.state # "rejected" /\ d.view = 0 /\ p \notin S => ~d.handled
        /\ d.state = "rejected" /\ p \notin S =>
             \/ t.told[p] = <<>> /\ ~d.handled /\ ~d.reported /\ p \in Of(t.checks)
             \/ t.told[p] = <<TRUE>> /\ d.reported
    <3>1. CASE /\ t.promises[p] = s.promises[p] /\ t.told[p] = s.told[p]
               /\ ~(~s.promises[p].handled /\ ~s.promises[p].reported
                    /\ s.promises[p].state = "rejected")
      BY <1>1, <1>4, <3>1 DEF Reports
    <3>2. CASE /\ ~s.promises[p].handled /\ s.promises[p].state = "rejected"
               /\ t.promises[p].reported /\ t.told[p] = Append(s.told[p], TRUE)
               /\ ~s.promises[p].reported
      <4>1. p \notin S /\ s.told[p] = <<>>
        BY <1>1, <1>4, <3>2 DEF Reports
      <4>2. t.promises[p].state = "rejected"
        BY <1>2, <1>4, <3>2
      <4>3. t.told[p] = <<TRUE>>
        BY <3>2, <4>1
      <4> QED
        BY <3>2, <4>1, <4>2, <4>3
    <3> QED
      BY <1>2, <3>1, <3>2
  <2> QED
    BY <1>2, <2>1, <2>2 DEF Reports
<1> QED
  BY <1>5, <1>8, <1>9 DEF Good

(* Script code calls promise_then: the calls rs go first.  Their ids are    *)
(* new, and the one of a user reaction is the last one.                     *)
NewCalls(rs) == [i \in DOMAIN rs |-> [reaction |-> rs[i], listening |-> FALSE]]

(* Calls are made of reactions as jobs are.                                *)
LEMMA NewCallsAre ==
  ASSUME NEW rs \in Seq(Reactions)
  PROVE  /\ NewCalls(rs) \in Seq(Calls) /\ Len(NewCalls(rs)) = Len(rs)
         /\ \A i \in 1..Len(rs) : NewCalls(rs)[i].reaction = rs[i] /\ ~NewCalls(rs)[i].listening
         /\ ReactionsOf(NewCalls(rs)) = Of(rs) /\ (Injective(rs) => Distinct(NewCalls(rs)))
<1> DEFINE f == NewCalls(rs)
<1>1. DOMAIN rs = 1..Len(rs) /\ \A i \in 1..Len(rs) : rs[i] \in Reactions
  OBVIOUS
<1>2. f = [i \in 1..Len(rs) |-> [reaction |-> rs[i], listening |-> FALSE]]
  BY <1>1 DEF NewCalls
<1>3. f \in [1..Len(rs) -> Calls]
  BY <1>1, <1>2 DEF Calls
<1>4. f \in Seq(Calls) /\ Len(f) = Len(rs)
  BY <1>3, IsASeq, LenProperties
<1>5. ASSUME NEW i \in 1..Len(rs)
      PROVE  f[i].reaction = rs[i] /\ ~f[i].listening
  BY <1>2
<1> HIDE DEF f
<1>6. ReactionsOf(f) = Of(rs) /\ (Injective(rs) => Distinct(f))
  BY <1>1, <1>4, <1>5 DEF ReactionsOf, Of, Injective, Distinct
<1> QED
  BY <1>4, <1>5, <1>6 DEF f

(* Reactions to be attached after N calls by script code: their ids are not  *)
(* in use, and that of a user reaction is the last one handed out.          *)
Attachable(s, a, N, R, rs) ==
  /\ \A r \in Of(rs) : /\ Plain(s, r.on) /\ r.to <= Len(s.promises)
                        /\ (r.kind # "user" => r.to # 0) /\ r.id <= 2 * N /\ r.id \notin R
                        /\ \A q \in Live(s, a) : q.id # r.id
  /\ \A i, j \in 1..Len(rs) : rs[i].id = rs[j].id => i = j
  /\ \A i \in 1..Len(rs) : rs[i].kind = "user" => i = 1 /\ rs[i].id = 2 * N - 1

(* New calls are put before those under way.                               *)
LEMMA PushGood ==
  ASSUME NEW s, NEW a, NEW n \in Nat, NEW R, NEW S, Good(s, a, n, R, S),
         NEW N \in Nat, n <= N, NEW rs \in Seq(Reactions), Attachable(s, a, N, R, rs),
         a = <<>> \/ a[1].listening
  PROVE  LET b == NewCalls(rs) \o a IN
         Good(s, b, N, R, S) /\ Live(s, b) = Live(s, a) \cup Of(rs)
<1> DEFINE x == NewCalls(rs)
           b == x \o a
           X == Of(rs)
<1>0. /\ \A r \in Of(rs) : /\ Plain(s, r.on) /\ r.to <= Len(s.promises)
                            /\ (r.kind # "user" => r.to # 0) /\ r.id <= 2 * N /\ r.id \notin R
                            /\ \A q \in Live(s, a) : q.id # r.id
      /\ \A i, j \in 1..Len(rs) : rs[i].id = rs[j].id => i = j
      /\ \A i \in 1..Len(rs) : rs[i].kind = "user" => i = 1 /\ rs[i].id = 2 * N - 1
  BY DEF Attachable
<1>1. /\ s \in Cores /\ a \in Seq(Calls) /\ Typed(s, a) /\ Links(s, a) /\ Places(s, a)
      /\ Numbered(s, a, n, R) /\ Ordered(s, a, n) /\ Reports(s, S) /\ Len(a) \in Nat
  BY DEF Good, Structure, Typed
<1>2. /\ x \in Seq(Calls) /\ Len(x) = Len(rs) /\ Len(rs) \in Nat
      /\ \A i \in 1..Len(rs) : x[i].reaction = rs[i] /\ ~x[i].listening
      /\ ReactionsOf(x) = X /\ (Injective(rs) => Distinct(x))
  BY NewCallsAre
<1>3. Injective(rs)
  BY <1>0 DEF Injective
<1> HIDE DEF x
<1>4. /\ CallSet(b) = CallSet(a) \cup X /\ b \in Seq(Calls)
      /\ Distinct(x) /\ Distinct(a) /\ ReactionsOf(x) \cap ReactionsOf(a) = {} => Distinct(b)
  BY <1>1, <1>2, ConcatReactions DEF CallSet
<1>5. /\ Len(b) = Len(x) + Len(a)
      /\ \A i \in 1..(Len(x) + Len(a)) : b[i] = IF i <= Len(x) THEN x[i] ELSE a[i - Len(x)]
  <2>1. \A u, v \in Seq(Calls) :
          /\ Len(u \o v) = Len(u) + Len(v)
          /\ \A i \in 1..(Len(u) + Len(v)) :
               (u \o v)[i] = IF i <= Len(u) THEN u[i] ELSE v[i - Len(u)]
    BY ConcatProperties
  <2> QED
    BY <1>1, <1>2, <2>1, Zenon
<1> HIDE DEF b
<1>6. Live(s, b) = Live(s, a) \cup X
  BY <1>4 DEF Live
<1>7. X \cap Live(s, a) = {}
  BY <1>0
<1>8. Typed(s, b)
  BY <1>1, <1>4 DEF Typed
<1>9. Links(s, b)
  BY <1>0, <1>1, <1>6 DEF Links
<1>10. Places(s, b)
  <2>1. Distinct(b)
    BY <1>1, <1>2, <1>3, <1>4, <1>7 DEF Places, Live, CallSet
  <2> QED
    BY <1>1, <1>4, <1>7, <2>1 DEF Places, Live
<1>11. Numbered(s, b, N, R)
  <2>1. ASSUME NEW r \in Live(s, a)
        PROVE  /\ r.id <= 2 * N /\ r.id \notin R /\ (r.kind = "user" => r.id <= 2 * N - 1)
    <3>1. r.id \in Nat
      BY <1>1, LiveTyped DEF Reactions
    <3>2. /\ r.id <= 2 * n /\ r.id \notin R /\ (r.kind = "user" => r.id <= 2 * n - 1)
      BY <1>1 DEF Numbered
    <3>3. ASSUME NEW i \in Nat
          PROVE  (i <= 2 * n => i <= 2 * N) /\ (i <= 2 * n - 1 => i <= 2 * N - 1)
      OBVIOUS
    <3> QED
      BY <3>1, <3>2, <3>3
  <2>2. ASSUME NEW r \in X
        PROVE  /\ r.id <= 2 * N /\ r.id \notin R /\ (r.kind = "user" => r.id <= 2 * N - 1)
               /\ \A q \in X : r.id = q.id => r = q
    <3>1. X = {rs[i] : i \in 1..Len(rs)}
      BY <1>2 DEF Of
    <3>2. r.id <= 2 * N /\ r.id \notin R
      BY <1>0
    <3>3. r.kind = "user" => r.id <= 2 * N - 1
      BY <1>0, <3>1
    <3>4. \A q \in X : r.id = q.id => r = q
      BY <1>0, <3>1
    <3> QED
      BY <3>2, <3>3, <3>4
  <2>3. \A r, q \in Live(s, a) : r.id = q.id => r = q
    BY <1>1 DEF Numbered
  <2>4. \A r \in X, q \in Live(s, a) : q.id # r.id
    BY <1>0
  <2> HIDE DEF X
  <2> QED
    BY <1>6, <2>1, <2>2, <2>3, <2>4 DEF Numbered
<1>12. CallOrder(s, b, N)
  <2>1. ASSUME NEW i \in 1..Len(b)
        PROVE  /\ b[i].listening => Recalled(s, b[i].reaction.on)
               /\ b[i].reaction.kind = "user" =>
                    b[i].listening \/ (i = 1 /\ b[i].reaction.id = 2 * N - 1)
    <3>1. CASE i <= Len(x)
      <4>1. b[i] = x[i] /\ i \in 1..Len(rs)
        BY <1>1, <1>2, <1>5, <3>1
      <4> QED
        BY <1>0, <1>2, <4>1
    <3>2. CASE ~(i <= Len(x))
      <4>1. b[i] = a[i - Len(x)] /\ i - Len(x) \in 1..Len(a) /\ a # <<>>
        BY <1>1, <1>2, <1>5, <3>2
      <4>2. a[1].listening
        BY <4>1
      <4>3. \A j \in 1..Len(a) : /\ a[j].listening => Recalled(s, a[j].reaction.on)
                                 /\ a[j].reaction.kind = "user" => a[j].listening
        BY <1>1, <4>2 DEF Ordered, CallOrder
      <4> QED
        BY <4>1, <4>3
    <3> QED
      BY <3>1, <3>2
  <2> QED
    BY <2>1 DEF CallOrder
<1>13. Ordered(s, b, N)
  BY <1>1, <1>12 DEF Ordered
<1> QED
  BY <1>1, <1>6, <1>8, <1>9, <1>10, <1>11, <1>13 DEF Good, Structure, b, x

(* A call counts even if it attaches nothing.                              *)
LEMMA CallGood ==
  ASSUME NEW s, NEW a, NEW n \in Nat, NEW R, NEW S, Good(s, a, n, R, S),
         a = <<>> \/ a[1].listening
  PROVE  Good(s, a, n + 1, R, S)
<1>1. a \in Seq(Calls) /\ Numbered(s, a, n, R) /\ Ordered(s, a, n) /\ Typed(s, a)
  BY DEF Good, Structure, Typed
<1>2. Numbered(s, a, n + 1, R)
  <2>1. \A r \in Live(s, a) : r.id \in Nat
    BY <1>1, LiveTyped DEF Reactions
  <2>2. ASSUME NEW i \in Nat
        PROVE  (i <= 2 * n => i <= 2 * (n + 1)) /\ (i <= 2 * n - 1 => i <= 2 * (n + 1) - 1)
    OBVIOUS
  <2> QED
    BY <1>1, <2>1, <2>2 DEF Numbered
<1>3. CallOrder(s, a, n + 1)
  <2>1. CASE a = <<>>
    BY <2>1 DEF CallOrder
  <2>2. CASE a[1].listening
    BY <1>1, <2>2 DEF Ordered, CallOrder
  <2> QED
    BY <2>1, <2>2
<1> QED
  BY <1>1, <1>2, <1>3 DEF Good, Structure, Ordered

(* A listener is called for the promise of the first call.                 *)
LEMMA ListenGood ==
  ASSUME NEW s, NEW a, NEW n \in Nat, NEW R, NEW S, Good(s, a, n, R, S), a # <<>>,
         Recalled(s, a[1].reaction.on)
  PROVE  LET b == [a EXCEPT ![1].listening = TRUE] IN
         Good(s, b, n, R, S) /\ Live(s, b) = Live(s, a)
<1> DEFINE c == [a[1] EXCEPT !.listening = TRUE]
           b == [a EXCEPT ![1] = c]
<1>1. /\ a \in Seq(Calls) /\ Structure(s, a, n, R) /\ Ordered(s, a, n) /\ Reports(s, S)
      /\ Typed(s, a) /\ Links(s, a) /\ Places(s, a) /\ Numbered(s, a, n, R) /\ Len(a) \in Nat
  BY DEF Good, Structure, Typed
<1>2. 1 \in 1..Len(a) /\ a[1] \in Calls
  BY <1>1
<1>3. c \in Calls /\ c.reaction = a[1].reaction /\ c.listening = TRUE
  BY <1>2 DEF Calls
<1> HIDE DEF c
<1>4. /\ b \in Seq(Calls) /\ Len(b) = Len(a) /\ b[1] = c
      /\ \A i \in 1..Len(a) : i # 1 => b[i] = a[i]
  BY <1>1, <1>2, <1>3
<1> HIDE DEF b
<1>5. \A i \in 1..Len(a) : b[i].reaction = a[i].reaction
  BY <1>3, <1>4
<1>6. CallSet(b) = CallSet(a) /\ (Distinct(a) => Distinct(b))
  BY <1>4, <1>5 DEF CallSet, ReactionsOf, Distinct
<1>7. Live(s, b) = Live(s, a)
  BY <1>6 DEF Live
<1>8. Structure(s, b, n, R)
  BY <1>1, <1>4, <1>6, <1>7 DEF Structure, Typed, Links, Places, Numbered
<1>9. CallOrder(s, b, n)
  BY <1>1, <1>3, <1>4 DEF Ordered, CallOrder
<1>10. Good(s, b, n, R, S) /\ Live(s, b) = Live(s, a)
  BY <1>1, <1>7, <1>8, <1>9 DEF Good, Ordered
<1> QED
  BY <1>10 DEF b, c

-------------------------------------------------------------------------------
(* A reaction of another kind comes or goes: Promise.all counts the same.  *)
LEMMA CountsOther ==
  ASSUME NEW L, NEW C, Counts(L, C), NEW r, r.kind # "all"
  PROVE  Counts(L \cup {r}, C) /\ Counts(L \ {r}, C)
<1>1. \A t : Pending(L \cup {r}, t) = Pending(L, t) /\ Pending(L \ {r}, t) = Pending(L, t)
  BY DEF Pending
<1>2. IsFiniteSet(L \cup {r}) /\ IsFiniteSet(L \ {r})
  BY FS_AddElement, FS_RemoveElement DEF Counts
<1> QED
  BY <1>1, <1>2 DEF Counts

(* promise_all starts with the number of its entries.                      *)
LEMMA CountsStart ==
  ASSUME NEW L, NEW C \in [Ids -> [left : 0..2, settled : BOOLEAN]], Counts(L, C),
         NEW t \in Ids, Pending(L, t) = {},
         NEW q, NEW r, q # r, q.kind = "all", r.kind = "all", q.to = t, r.to = t
  PROVE  Counts(L \cup {q, r}, [C EXCEPT ![t] = StartAll])
<1> DEFINE D == [C EXCEPT ![t] = StartAll]
           M == L \cup {q, r}
<1>1. /\ D[t] = StartAll /\ \A u \in Ids : u # t => D[u] = C[u]
  OBVIOUS
<1>2. Pending(M, t) = {q, r} /\ \A u : u # t => Pending(M, u) = Pending(L, u)
  BY DEF Pending
<1>3. IsFiniteSet(M)
  <2>1. IsFiniteSet(L) /\ IsFiniteSet(L \cup {q})
    BY FS_AddElement DEF Counts
  <2>2. M = (L \cup {q}) \cup {r}
    OBVIOUS
  <2> QED
    BY <2>1, <2>2, FS_AddElement
<1>4. Cardinality({q, r}) = 2
  <2>1. IsFiniteSet({q}) /\ Cardinality({q}) = 1
    BY FS_Singleton
  <2>2. {q, r} = {q} \cup {r} /\ r \notin {q}
    OBVIOUS
  <2>3. \A S : IsFiniteSet(S) /\ r \notin S => Cardinality(S \cup {r}) = Cardinality(S) + 1
    BY FS_AddElement
  <2>4. Cardinality({q} \cup {r}) = Cardinality({q}) + 1
    BY <2>1, <2>2, <2>3, Zenon
  <2> QED
    BY <2>1, <2>2, <2>4
<1>5. D[t].left = 2 /\ D[t].settled = FALSE
  BY <1>1 DEF StartAll
<1> HIDE DEF D, M
<1>6. ASSUME NEW u \in Ids
      PROVE  /\ D[u].left > 0 /\ ~D[u].settled => D[u].left = Cardinality(Pending(M, u))
             /\ Pending(M, u) # {} => D[u].settled \/ D[u].left > 0
  <2>1. CASE u = t
    BY SMTT(30), <1>2, <1>4, <1>5, <2>1
  <2>2. CASE u # t
    BY <1>1, <1>2, <2>2 DEF Counts
  <2> QED
    BY <2>1, <2>2
<1> QED
  BY <1>3, <1>6 DEF Counts, D, M

(* A reaction of promise_all runs: one entry less, unless it is settled.   *)
LEMMA CountsRun ==
  ASSUME NEW L, NEW C \in [Ids -> [left : 0..2, settled : BOOLEAN]], Counts(L, C),
         NEW r \in L, r.kind = "all", r.to \in Ids,
         NEW D \in [Ids -> [left : 0..2, settled : BOOLEAN]],
         \A u \in Ids : u # r.to => D[u] = C[u],
         \/ D[r.to].settled
         \/ ~C[r.to].settled /\ D[r.to].left = C[r.to].left - 1
  PROVE  Counts(L \ {r}, D)
<1> DEFINE M == L \ {r}
           t == r.to
<1>1. IsFiniteSet(L) /\ IsFiniteSet(M)
  BY FS_RemoveElement DEF Counts
<1>2. /\ Pending(M, t) = Pending(L, t) \ {r} /\ r \in Pending(L, t)
      /\ \A u : u # t => Pending(M, u) = Pending(L, u)
  BY DEF Pending
<1>3. /\ IsFiniteSet(Pending(L, t)) /\ IsFiniteSet(Pending(M, t))
      /\ Cardinality(Pending(L, t)) \in Nat /\ Cardinality(Pending(M, t)) \in Nat
      /\ Cardinality(Pending(M, t)) = Cardinality(Pending(L, t)) - 1
      /\ (Pending(M, t) = {} <=> Cardinality(Pending(M, t)) = 0)
  <2>1. Pending(L, t) \subseteq L
    BY DEF Pending
  <2>2. IsFiniteSet(Pending(L, t)) /\ IsFiniteSet(Pending(M, t))
    BY <1>1, <1>2, <2>1, FS_Subset
  <2>3. Cardinality(Pending(L, t)) \in Nat /\ Cardinality(Pending(M, t)) \in Nat
    BY <2>2, FS_CardinalityType
  <2>4. Pending(M, t) = {} <=> Cardinality(Pending(M, t)) = 0
    BY <2>2, FS_EmptySet
  <2>5. \A S : IsFiniteSet(S) /\ r \in S => Cardinality(S \ {r}) = Cardinality(S) - 1
    BY FS_RemoveElement
  <2>6. Cardinality(Pending(L, t) \ {r}) = Cardinality(Pending(L, t)) - 1
    BY <1>2, <2>2, <2>5, Zenon
  <2> QED
    BY <1>2, <2>2, <2>3, <2>4, <2>6
<1>4. C[t].settled \/ (C[t].left > 0 /\ C[t].left = Cardinality(Pending(L, t)))
  BY <1>2 DEF Counts
<1> HIDE DEF M
<1>5. ASSUME NEW u \in Ids
      PROVE  /\ D[u].left > 0 /\ ~D[u].settled => D[u].left = Cardinality(Pending(M, u))
             /\ Pending(M, u) # {} => D[u].settled \/ D[u].left > 0
  <2>1. CASE u = t
    <3>1. CASE D[t].settled
      BY <2>1, <3>1
    <3>2. CASE ~C[t].settled /\ D[t].left = C[t].left - 1
      <4>1. D[t].left = Cardinality(Pending(M, t))
        BY <1>3, <1>4, <3>2
      <4> QED
        BY <1>3, <2>1, <4>1
    <3> QED
      BY <3>1, <3>2
  <2>2. CASE u # t
    BY <1>2, <2>2 DEF Counts
  <2> QED
    BY <2>1, <2>2
<1> QED
  BY <1>1, <1>5 DEF Counts, M

(* The facts about the new state that make the invariant.                  *)
LEMMA Establish ==
  ASSUME NEW t, Become(t), Good(t, attach', ops', ran', seen'), seen' \subseteq PlainSet(t),
         Counts(Live(t, attach'), combined'), Control'
  PROVE  Inv'
<1>1. t = [promises |-> t.promises, micro |-> t.micro, checks |-> t.checks, told |-> t.told]
  BY DEF Good, Structure, Typed, Cores
<1>2. Core' = t
  BY <1>1 DEF Become, Core
<1>3. /\ Good(Core', attach', ops', ran', seen') /\ seen' \subseteq PlainSet(Core')
      /\ Counts(Live(Core', attach'), combined') /\ Control'
  BY <1>2
<1> QED
  BY <1>3 DEF Inv

(* Views stay as they are.                                                 *)
LEMMA SameViews ==
  ASSUME NEW s, NEW t, Len(t.promises) = Len(s.promises),
         \A c \in 1..Len(s.promises) : t.promises[c].view = s.promises[c].view
  PROVE  PlainSet(t) = PlainSet(s)
BY DEF PlainSet

(* The state as the lemmas see it.                                         *)
LEMMA CoreFields ==
  ASSUME Inv
  PROVE  /\ Core \in Cores /\ attach \in Seq(Calls) /\ ops \in Nat /\ MaxOps \in Nat
         /\ Core.promises = promises /\ Core.micro = micro /\ Core.checks = checks
         /\ Core.told = told /\ Len(promises) \in Nat /\ Created = 1..Len(promises)
         /\ Len(promises) <= MaxPromises /\ MaxPromises \in Nat /\ Len(told) = Len(promises)
<1>1. Core.promises = promises /\ Core.micro = micro /\ Core.checks = checks /\ Core.told = told
  BY DEF Core
<1>2. /\ Core \in Cores /\ attach \in Seq(Calls) /\ Len(Core.promises) <= MaxPromises
      /\ Len(Core.told) = Len(Core.promises)
  BY DEF Inv, Good, Structure, Typed
<1>3. ops \in Nat
  BY PromisesAssumption DEF Inv, Control
<1>4. Len(Core.promises) \in Nat
  BY <1>2 DEF Cores
<1> QED
  BY <1>1, <1>2, <1>3, <1>4, PromisesAssumption DEF Created

(* promise_then and promise_poll reach a promise that is no view.          *)
LEMMA BehindPlain ==
  ASSUME Inv, NEW p \in Created
  PROVE  Plain(Core, Behind(p)) /\ Behind(p) \in Created
<1>1. Links(Core, attach)
  BY DEF Inv, Good, Structure
<1> QED
  BY <1>1, CoreFields DEF Links, Plain, Behind

-------------------------------------------------------------------------------
(* The last entry of a sequence is replaced.                               *)
LEMMA ReplaceLast ==
  ASSUME NEW S, NEW q \in Seq(S), NEW e \in S, NEW d \in S
  PROVE  [Append(q, e) EXCEPT ![Len(q) + 1] = d] = Append(q, d)
<1> DEFINE u == Append(q, e)
           v == Append(q, d)
           w == [u EXCEPT ![Len(q) + 1] = d]
<1>1. /\ u \in Seq(S) /\ Len(u) = Len(q) + 1 /\ Len(q) \in Nat
      /\ \A i \in 1..Len(q) : u[i] = q[i]
  BY AppendProperties
<1>2. /\ v \in Seq(S) /\ Len(v) = Len(q) + 1
      /\ \A i \in 1..Len(q) : v[i] = q[i]
      /\ v[Len(q) + 1] = d
  BY AppendProperties
<1> HIDE DEF u, v
<1>3. w \in Seq(S) /\ Len(w) = Len(q) + 1
  BY <1>1
<1>4. ASSUME NEW i \in 1..Len(w)
      PROVE  w[i] = v[i]
  BY <1>1, <1>2, <1>3
<1> HIDE DEF w
<1>5. w = v
  BY <1>2, <1>3, <1>4, SeqEqual
<1> QED
  BY <1>5 DEF w, u, v

With(s, d) == [s EXCEPT !.promises = Append(@, d), !.told = Append(@, <<>>)]

(* A promise is appended to the others.                                    *)
LEMMA WithAdded ==
  ASSUME NEW s \in Cores, Len(s.told) = Len(s.promises), NEW d \in Data,
         d.state = "pending", d.reactions = <<>>, ~d.reported, d.view = 0 => ~d.handled,
         d.view # 0 => Plain(s, d.view)
  PROVE  Added(s, With(s, d))
<1> DEFINE t == With(s, d)
           P == s.promises
           T == s.told
<1>1. P \in Seq(Data) /\ T \in Seq(Seq(BOOLEAN)) /\ <<>> \in Seq(BOOLEAN)
  BY DEF Cores
<1>2. t = [s EXCEPT !.promises = Append(P, d), !.told = Append(T, <<>>)]
  BY DEF With
<1>3. /\ Append(P, d) \in Seq(Data) /\ Len(Append(P, d)) = Len(P) + 1
      /\ \A i \in 1..Len(P) : Append(P, d)[i] = P[i]
      /\ Append(P, d)[Len(P) + 1] = d
  <2> HIDE DEF P
  <2> QED
    BY <1>1, AppendProperties
<1>4. /\ Append(T, <<>>) \in Seq(Seq(BOOLEAN)) /\ Len(Append(T, <<>>)) = Len(T) + 1
      /\ \A i \in 1..Len(T) : Append(T, <<>>)[i] = T[i]
      /\ Append(T, <<>>)[Len(T) + 1] = <<>>
  <2> DEFINE e == <<>>
  <2>1. e \in Seq(BOOLEAN)
    OBVIOUS
  <2> HIDE DEF T, e
  <2>2. /\ Append(T, e) \in Seq(Seq(BOOLEAN)) /\ Len(Append(T, e)) = Len(T) + 1
        /\ \A i \in 1..Len(T) : Append(T, e)[i] = T[i]
        /\ Append(T, e)[Len(T) + 1] = e
    BY <1>1, <2>1, AppendProperties
  <2> QED
    BY <2>2 DEF e
<1> HIDE DEF t
<1>5. /\ t.promises = Append(P, d) /\ t.told = Append(T, <<>>)
      /\ t.micro = s.micro /\ t.checks = s.checks
      /\ t = [promises |-> t.promises, micro |-> t.micro, checks |-> t.checks, told |-> t.told]
  <2> DEFINE x == Append(P, d)
             y == Append(T, <<>>)
  <2>1. t = [s EXCEPT !.promises = x, !.told = y]
    BY <1>2
  <2> HIDE DEF x, y
  <2>2. /\ t.promises = x /\ t.told = y /\ t.micro = s.micro /\ t.checks = s.checks
        /\ t = [promises |-> t.promises, micro |-> t.micro, checks |-> t.checks, told |-> t.told]
    BY <2>1 DEF Cores
  <2> QED
    BY <2>2 DEF x, y
<1>6. t \in Cores
  BY <1>3, <1>4, <1>5 DEF Cores
<1>7. /\ Len(t.promises) = Len(P) + 1 /\ Len(t.told) = Len(P) + 1
      /\ t.told[Len(P) + 1] = <<>> /\ t.promises[Len(P) + 1] = d
      /\ \A c \in 1..Len(P) : t.promises[c] = s.promises[c] /\ t.told[c] = s.told[c]
  BY <1>3, <1>4, <1>5
<1>8. Added(s, t)
  BY <1>5, <1>6, <1>7, Zenon DEF Added
<1> QED
  BY <1>8 DEF t

(* A call is made while script code runs.                                  *)
LEMMA CallFacts ==
  ASSUME Inv, Call
  PROVE  /\ ops' = ops + 1 /\ ops' \in 0..MaxOps /\ ops < MaxOps
         /\ attach = <<>> \/ attach[1].listening
BY CoreFields DEF Call, InScript

(* A call changes the number of calls only.                                *)
LEMMA CallControl ==
  ASSUME Inv, Call, combined' \in [Ids -> [left : 0..2, settled : BOOLEAN]] \/ combined' = combined,
         handler' \in BOOLEAN \/ handler' = handler, late' \in BOOLEAN \/ late' = late,
         crashed' = crashed, pc' = pc, back' = back, ran' = ran
  PROVE  Control'
<1>1. ops \in Nat /\ ops' = ops + 1 /\ ops' \in 0..MaxOps /\ ran \subseteq 1..2 * ops
  BY CallFacts, CoreFields DEF Inv, Control
<1>2. 1..2 * ops \subseteq 1..2 * ops'
  BY <1>1
<1>3. ran' \subseteq 1..2 * ops'
  BY <1>1, <1>2
<1> QED
  BY <1>1, <1>3 DEF Inv, Control

(* A promise is created, by any of the operations that do so.              *)
LEMMA Creates ==
  ASSUME Inv, Call, Room, NEW d \in Data,
         d.state = "pending", d.reactions = <<>>, ~d.reported, d.view = 0 => ~d.handled,
         d.view # 0 => Plain(Core, d.view)
  PROVE  LET t == With(Core, d) IN
         /\ Good(t, attach, ops, ran, seen) /\ Good(t, attach, ops + 1, ran, seen)
         /\ Live(t, attach) = Live(Core, attach) /\ seen \subseteq PlainSet(t)
         /\ Len(t.promises) = Len(promises) + 1
         /\ \A c \in Created : Plain(Core, c) => Plain(t, c)
<1> DEFINE t == With(Core, d)
<1>1. Added(Core, t)
  BY CoreFields, WithAdded
<1> HIDE DEF t
<1>2. /\ Good(Core, attach, ops, ran, seen) /\ seen \subseteq PlainSet(Core)
      /\ Len(Core.promises) < MaxPromises
  BY CoreFields DEF Inv, Room
<1>3. seen \subseteq 1..Len(Core.promises)
  BY <1>2 DEF PlainSet
<1>4. Good(t, attach, ops, ran, seen) /\ Live(t, attach) = Live(Core, attach)
  <2>1. ops \in Nat
    BY CoreFields
  <2> QED
    BY <1>1, <1>2, <1>3, <2>1, AddKeeps
<1>5. Good(t, attach, ops + 1, ran, seen)
  BY <1>4, CallFacts, CallGood, CoreFields
<1>6. /\ Len(t.promises) = Len(promises) + 1
      /\ \A c \in 1..Len(promises) : t.promises[c] = promises[c]
  BY <1>1, CoreFields DEF Added
<1>7. seen \subseteq PlainSet(t) /\ \A c \in Created : Plain(Core, c) => Plain(t, c)
  <2>1. Core.promises = promises /\ Created = 1..Len(promises) /\ Len(promises) \in Nat
    BY CoreFields
  <2>2. 1..Len(promises) \subseteq 1..Len(t.promises)
    BY <1>6, <2>1
  <2> QED
    BY <1>2, <1>6, <2>1, <2>2 DEF PlainSet, Plain
<1> QED
  BY <1>4, <1>5, <1>6, <1>7 DEF t

(* Add creates a promise; its entry is then replaced.                      *)
LEMMA AddIs ==
  ASSUME Inv
  PROVE  /\ Fresh \in Data /\ Add(Core) = With(Core, Fresh) /\ Add(Core).promises[NewId] = Fresh
         /\ \A d \in Data :
              [Add(Core) EXCEPT !.promises = [@ EXCEPT ![NewId] = d]] = With(Core, d)
<1>1. <<>> \in Seq(Reactions) /\ "pending" \in Outcomes \cup {"pending"}
  OBVIOUS
<1>2. Fresh \in Data
  BY <1>1 DEF Fresh, Data
<1>3. Add(Core) = With(Core, Fresh)
  BY DEF Add, With
<1>4. promises \in Seq(Data) /\ NewId = Len(promises) + 1
  BY CoreFields DEF Cores, NewId
<1>5. ASSUME NEW d \in Data
      PROVE  [Add(Core) EXCEPT !.promises = [@ EXCEPT ![NewId] = d]] = With(Core, d)
  <2> DEFINE x == Append(promises, Fresh)
             y == Append(told, <<>>)
             z == Append(promises, d)
  <2>1. [x EXCEPT ![NewId] = d] = z
    BY <1>2, <1>4, <1>5, ReplaceLast
  <2>2. Core.promises = promises /\ Core.told = told
    BY CoreFields
  <2>3. Add(Core) = [Core EXCEPT !.promises = x, !.told = y]
    BY <2>2 DEF Add
  <2>4. With(Core, d) = [Core EXCEPT !.promises = z, !.told = y]
    BY <2>2 DEF With
  <2> HIDE DEF x, y, z
  <2> QED
    BY <2>1, <2>3, <2>4 DEF Core
<1>6. Add(Core).promises[NewId] = Fresh
  <2> DEFINE x == Append(promises, Fresh)
             y == Append(told, <<>>)
  <2>1. x[NewId] = Fresh
    <3> DEFINE e == Fresh
    <3> HIDE DEF e
    <3>1. Append(promises, e)[Len(promises) + 1] = e
      BY <1>2, <1>4, AppendProperties DEF e
    <3> QED
      BY <1>4, <3>1 DEF e
  <2>2. Core.promises = promises /\ Core.told = told
    BY CoreFields
  <2>3. Add(Core) = [Core EXCEPT !.promises = x, !.told = y]
    BY <2>2 DEF Add
  <2> HIDE DEF x, y
  <2> QED
    BY <2>1, <2>3 DEF Core
<1> QED
  BY <1>2, <1>3, <1>5, <1>6

-------------------------------------------------------------------------------
(* new Promise.                                                            *)
LEMMA NewInv ==
  ASSUME Inv, PromiseNew
  PROVE  Inv'
<1> DEFINE d == [Fresh EXCEPT !.own = TRUE]
           t == [Add(Core) EXCEPT !.promises[NewId].own = TRUE]
<1>1. /\ Call /\ Room /\ Become(t)
      /\ UNCHANGED <<attach, combined, listeners, crashed, pc, back, ran, seen>>
  BY DEF PromiseNew
<1>2. Fresh \in Data /\ Add(Core).promises[NewId] = Fresh
  BY AddIs
<1>3. /\ d \in Data /\ d.state = "pending" /\ d.reactions = <<>> /\ ~d.reported
      /\ ~d.handled /\ d.view = 0
  BY <1>2 DEF Fresh, Data
<1>4. t = [Add(Core) EXCEPT !.promises = [@ EXCEPT ![NewId] = d]]
  BY <1>2
<1> HIDE DEF d
<1>5. t = With(Core, d)
  BY <1>3, <1>4, AddIs
<1> HIDE DEF t
<1>6. /\ Good(t, attach, ops + 1, ran, seen)
      /\ Live(t, attach) = Live(Core, attach) /\ seen \subseteq PlainSet(t)
  BY <1>1, <1>3, <1>5, Creates
<1>7. Control'
  BY <1>1, CallControl DEF listeners
<1>8. Counts(Live(t, attach'), combined')
  BY <1>1, <1>6 DEF Inv
<1>9. Good(t, attach', ops', ran', seen') /\ seen' \subseteq PlainSet(t)
  BY <1>1, <1>6, CallFacts
<1> QED
  BY <1>1, <1>7, <1>8, <1>9, Establish

(* promise_view_from_handle.                                               *)
LEMMA ViewInv ==
  ASSUME Inv, NEW p \in Created, PromiseView(p)
  PROVE  Inv'
<1> DEFINE v == Behind(p)
           d == [Fresh EXCEPT !.view = v, !.handled = TRUE]
           t == [Add(Core) EXCEPT !.promises[NewId] = [@ EXCEPT !.view = v, !.handled = TRUE]]
<1>1. /\ Call /\ Room /\ Become(t)
      /\ UNCHANGED <<attach, combined, listeners, crashed, pc, back, ran, seen>>
  BY DEF PromiseView
<1>2. Fresh \in Data /\ Add(Core).promises[NewId] = Fresh
  BY AddIs
<1>3. Plain(Core, v) /\ v \in Created /\ v \in Nat /\ v # 0
  BY BehindPlain, CoreFields
<1> HIDE DEF v
<1>4. /\ d \in Data /\ d.state = "pending" /\ d.reactions = <<>> /\ ~d.reported /\ d.view = v
  BY <1>2, <1>3 DEF Fresh, Data
<1>5. t = [Add(Core) EXCEPT !.promises = [@ EXCEPT ![NewId] = d]]
  BY <1>2
<1> HIDE DEF d
<1>6. t = With(Core, d)
  BY <1>4, <1>5, AddIs
<1> HIDE DEF t
<1>7. /\ Good(t, attach, ops + 1, ran, seen)
      /\ Live(t, attach) = Live(Core, attach) /\ seen \subseteq PlainSet(t)
  BY <1>1, <1>3, <1>4, <1>6, Creates
<1>8. Control'
  BY <1>1, CallControl DEF listeners
<1>9. Counts(Live(t, attach'), combined')
  BY <1>1, <1>7 DEF Inv
<1>10. Good(t, attach', ops', ran', seen') /\ seen' \subseteq PlainSet(t)
  BY <1>1, <1>7, CallFacts
<1> QED
  BY <1>1, <1>8, <1>9, <1>10, Establish

(* The executor resolves or rejects.                                       *)
LEMMA SettleInv ==
  ASSUME Inv, NEW p \in Created, NEW o \in Outcomes, PromiseSettle(p, o)
  PROVE  Inv'
<1> DEFINE t == Settle(Core, p, o)
<1>1. /\ Call /\ Become(t)
      /\ UNCHANGED <<attach, combined, listeners, crashed, pc, back, ran, seen>>
  BY DEF PromiseSettle
<1>2. p \in 1..Len(Core.promises) /\ ops \in Nat /\ Good(Core, attach, ops, ran, seen)
  BY CoreFields DEF Inv
<1>3. /\ Good(t, attach, ops, ran, seen) /\ Live(t, attach) = Live(Core, attach)
      /\ Len(t.promises) = Len(Core.promises)
      /\ \A c \in 1..Len(Core.promises) : t.promises[c].view = Core.promises[c].view
  BY <1>2, SettleGood
<1> HIDE DEF t
<1>4. Good(t, attach, ops + 1, ran, seen)
  BY <1>1, <1>2, <1>3, CallFacts, CallGood
<1>5. seen \subseteq PlainSet(t)
  BY <1>3, SameViews DEF Inv
<1>6. Control'
  BY <1>1, CallControl DEF listeners
<1>7. Counts(Live(t, attach'), combined')
  BY <1>1, <1>3 DEF Inv
<1>8. Good(t, attach', ops', ran', seen') /\ seen' \subseteq PlainSet(t)
  BY <1>1, <1>4, <1>5, CallFacts
<1> QED
  BY <1>1, <1>6, <1>7, <1>8, Establish

(* promise_poll.                                                           *)
LEMMA PollInv ==
  ASSUME Inv, NEW p \in Created, PromisePoll(p)
  PROVE  Inv'
<1> DEFINE v == Behind(p)
           t == Observe(Core, v)
           S == seen \cup {v}
<1>1. /\ Call /\ Become(t) /\ seen' = S
      /\ UNCHANGED <<attach, combined, listeners, crashed, pc, back, ran>>
  BY DEF PromisePoll
<1>2. Plain(Core, v) /\ ops \in Nat /\ Good(Core, attach, ops, ran, seen)
  BY CoreFields, BehindPlain DEF Inv
<1> HIDE DEF v
<1>3. /\ Good(t, attach, ops, ran, S) /\ Live(t, attach) = Live(Core, attach)
      /\ Observed(Core, t, v)
  BY <1>2, ObserveGood
<1> HIDE DEF t, S
<1>4. Good(t, attach, ops + 1, ran, S)
  BY <1>1, <1>2, <1>3, CallFacts, CallGood
<1>5. S \subseteq PlainSet(t)
  <2>1. PlainSet(t) = PlainSet(Core)
    BY <1>3, SameViews DEF Observed
  <2> QED
    BY <1>2, <2>1 DEF Inv, PlainSet, Plain, S
<1>6. Control'
  BY <1>1, CallControl DEF listeners
<1>7. Counts(Live(t, attach'), combined')
  BY <1>1, <1>3 DEF Inv
<1>8. Good(t, attach', ops', ran', seen') /\ seen' \subseteq PlainSet(t)
  BY <1>1, <1>4, <1>5, CallFacts
<1> QED
  BY <1>1, <1>6, <1>7, <1>8, Establish

(* The reactions a call makes.                                             *)
LEMMA ReactionIs ==
  ASSUME Inv, Call, NEW k \in {1, 2}, NEW p \in Created, NEW kind \in Kinds,
         NEW to \in 0..MaxPromises
  PROVE  LET r == Reaction(k, p, kind, to) IN
         /\ r \in Reactions /\ r.id = 2 * ops + k /\ r.on = Behind(p) /\ r.kind = kind /\ r.to = to
<1>1. 2 * ops + k \in 1..2 * MaxOps
  BY CallFacts, CoreFields
<1>2. Behind(p) \in Ids
  BY BehindPlain, CoreFields DEF Ids
<1> QED
  BY <1>1, <1>2 DEF Reaction, Reactions

(* A call goes on to call promise_then.                                    *)
LEMMA Pushes ==
  ASSUME Inv, Call, NEW t, Good(t, attach, ops, ran, seen),
         Live(t, attach) = Live(Core, attach), NEW rs \in Seq(Reactions), Attach(rs),
         \A r \in Of(rs) : /\ Plain(t, r.on) /\ r.to <= Len(t.promises)
                           /\ (r.kind # "user" => r.to # 0)
                           /\ r.id \in {2 * ops + 1, 2 * ops + 2},
         \A i, j \in 1..Len(rs) : rs[i].id = rs[j].id => i = j,
         \A i \in 1..Len(rs) : rs[i].kind = "user" => i = 1 /\ rs[i].id = 2 * ops + 1
  PROVE  Good(t, attach', ops', ran, seen) /\ Live(t, attach') = Live(Core, attach) \cup Of(rs)
<1> DEFINE N == ops + 1
<1>1. /\ ops \in Nat /\ N \in Nat /\ ops <= N /\ ops' = N /\ ran \subseteq 1..2 * ops
      /\ attach = <<>> \/ attach[1].listening
  BY CallFacts, CoreFields DEF Inv, Control
<1>2. 2 * ops + 1 = 2 * N - 1 /\ 2 * ops + 2 = 2 * N /\ 2 * ops + 1 <= 2 * N
  BY <1>1
<1>3. attach' = NewCalls(rs) \o attach
  BY DEF Attach, NewCalls
<1>4. ASSUME NEW r \in Of(rs)
      PROVE  /\ r.id <= 2 * N /\ r.id \notin ran /\ \A q \in Live(t, attach) : q.id # r.id
  <2>1. r.id > 2 * ops /\ r.id \in Nat /\ r.id <= 2 * N
    BY SMTT(30), <1>1, <1>2
  <2>2. \A q \in Live(t, attach) : q.id <= 2 * ops
    BY DEF Good, Structure, Numbered
  <2>3. \A q \in Live(t, attach) : q.id \in Nat
    BY LiveTyped DEF Good, Structure, Reactions
  <2> QED
    BY <1>1, <2>1, <2>2, <2>3
<1>5. \A i \in 1..Len(rs) : rs[i].kind = "user" => i = 1 /\ rs[i].id = 2 * N - 1
  BY <1>2
<1>6. Attachable(t, attach, N, ran, rs)
  BY <1>4, <1>5 DEF Attachable
<1> HIDE DEF N
<1>7. LET b == NewCalls(rs) \o attach IN
      Good(t, b, N, ran, seen) /\ Live(t, b) = Live(t, attach) \cup Of(rs)
  BY <1>1, <1>6, PushGood
<1> QED
  BY <1>1, <1>3, <1>7

(* promise_then.                                                           *)
LEMMA ThenInv ==
  ASSUME Inv, NEW p \in Created, PromiseThen(p)
  PROVE  Inv'
<1> DEFINE r == Reaction(1, p, "user", 0)
           rs == <<r>>
<1>1. /\ Call /\ Attach(rs)
      /\ UNCHANGED <<core, combined, listeners, crashed, pc, back, ran, seen>>
  BY DEF PromiseThen
<1>2. /\ r \in Reactions /\ r.id = 2 * ops + 1 /\ r.on = Behind(p) /\ r.kind = "user" /\ r.to = 0
  BY <1>1, CoreFields, ReactionIs DEF Kinds
<1>3. Plain(Core, r.on)
  BY <1>2, BehindPlain
<1> HIDE DEF r
<1>4. rs \in Seq(Reactions) /\ Len(rs) = 1 /\ rs[1] = r /\ Of(rs) = {r}
  BY <1>2 DEF Of
<1> HIDE DEF rs
<1>5. r.to <= Len(Core.promises)
  BY <1>2, CoreFields
<1>6. Good(Core, attach, ops, ran, seen)
  BY DEF Inv
<1>7. /\ \A x \in Of(rs) : /\ Plain(Core, x.on) /\ x.to <= Len(Core.promises)
                           /\ (x.kind # "user" => x.to # 0)
                           /\ x.id \in {2 * ops + 1, 2 * ops + 2}
      /\ \A i, j \in 1..Len(rs) : rs[i].id = rs[j].id => i = j
      /\ \A i \in 1..Len(rs) : rs[i].kind = "user" => i = 1 /\ rs[i].id = 2 * ops + 1
  BY <1>2, <1>3, <1>4, <1>5
<1>8. Good(Core, attach', ops', ran, seen) /\ Live(Core, attach') = Live(Core, attach) \cup {r}
  <2>1. Good(Core, attach', ops', ran, seen) /\ Live(Core, attach') = Live(Core, attach) \cup Of(rs)
    BY <1>1, <1>4, <1>6, <1>7, Pushes
  <2> QED
    BY <1>4, <2>1
<1>9. Counts(Live(Core, attach'), combined')
  BY <1>1, <1>2, <1>8, CountsOther DEF Inv
<1>10. Control'
  BY <1>1, CallControl DEF listeners
<1>11. Become(Core)
  BY <1>1 DEF Become, Core, core
<1>12. Good(Core, attach', ops', ran', seen') /\ seen' \subseteq PlainSet(Core)
  BY <1>1, <1>8 DEF Inv
<1> QED
  BY <1>9, <1>10, <1>11, <1>12, Establish

(* Add(Core), where the result of a combinator is created.                 *)
LEMMA AddCreates ==
  ASSUME Inv, Call, Room
  PROVE  LET t == Add(Core) IN
         /\ Good(t, attach, ops, ran, seen)
         /\ Live(t, attach) = Live(Core, attach) /\ seen \subseteq PlainSet(t)
         /\ Len(t.promises) = NewId /\ NewId \in 1..MaxPromises
         /\ \A c \in Created : Plain(Core, c) => Plain(t, c)
<1>1. /\ Fresh \in Data /\ Fresh.state = "pending" /\ Fresh.reactions = <<>> /\ ~Fresh.reported
      /\ ~Fresh.handled /\ Fresh.view = 0
  <2>1. Fresh \in Data
    BY AddIs
  <2> QED
    BY <2>1 DEF Fresh
<1>2. Add(Core) = With(Core, Fresh)
  BY AddIs
<1>3. Len(promises) + 1 = NewId /\ NewId \in 1..MaxPromises
  BY CoreFields DEF NewId, Room
<1> QED
  BY <1>1, <1>2, <1>3, Creates

(* promise_map and promise_flat_map.                                       *)
LEMMA MapInv ==
  ASSUME Inv, NEW p \in Created, NEW kind \in {"map", "flatMap"}, PromiseMap(p, kind)
  PROVE  Inv'
<1> DEFINE r == Reaction(1, p, kind, NewId)
           rs == <<r>>
           t == Add(Core)
<1>1. /\ Call /\ Room /\ Attach(rs) /\ Become(t)
      /\ UNCHANGED <<combined, listeners, crashed, pc, back, ran, seen>>
  BY DEF PromiseMap
<1>2. /\ Good(t, attach, ops, ran, seen)
      /\ Live(t, attach) = Live(Core, attach) /\ seen \subseteq PlainSet(t)
      /\ Len(t.promises) = NewId /\ NewId \in 1..MaxPromises
      /\ \A c \in Created : Plain(Core, c) => Plain(t, c)
  BY <1>1, AddCreates
<1>3. /\ r \in Reactions /\ r.id = 2 * ops + 1 /\ r.on = Behind(p) /\ r.kind = kind /\ r.to = NewId
  <2>1. NewId \in 0..MaxPromises /\ kind \in Kinds /\ 1 \in {1, 2}
    BY <1>2, CoreFields DEF Kinds
  <2> QED
    BY <1>1, <2>1, ReactionIs
<1> HIDE DEF t
<1>4. Plain(t, r.on)
  BY <1>2, <1>3, BehindPlain
<1> HIDE DEF r
<1>5. rs \in Seq(Reactions) /\ Len(rs) = 1 /\ rs[1] = r /\ Of(rs) = {r}
  BY <1>3 DEF Of
<1> HIDE DEF rs
<1>6. r.kind # "user" /\ r.kind # "all" /\ r.to # 0 /\ r.to <= Len(t.promises)
  BY <1>2, <1>3, CoreFields
<1>7. /\ \A x \in Of(rs) : /\ Plain(t, x.on) /\ x.to <= Len(t.promises)
                           /\ (x.kind # "user" => x.to # 0)
                           /\ x.id \in {2 * ops + 1, 2 * ops + 2}
      /\ \A i, j \in 1..Len(rs) : rs[i].id = rs[j].id => i = j
      /\ \A i \in 1..Len(rs) : rs[i].kind = "user" => i = 1 /\ rs[i].id = 2 * ops + 1
  BY <1>3, <1>4, <1>5, <1>6
<1>8. Good(t, attach', ops', ran, seen) /\ Live(t, attach') = Live(Core, attach) \cup {r}
  <2>1. Good(t, attach', ops', ran, seen) /\ Live(t, attach') = Live(Core, attach) \cup Of(rs)
    BY <1>1, <1>2, <1>5, <1>7, Pushes
  <2> QED
    BY <1>5, <2>1
<1>9. Counts(Live(t, attach'), combined')
  BY <1>1, <1>6, <1>8, CountsOther DEF Inv
<1>10. Control'
  BY <1>1, CallControl DEF listeners
<1>11. Good(t, attach', ops', ran', seen') /\ seen' \subseteq PlainSet(t)
  BY <1>1, <1>2, <1>8
<1> QED
  BY <1>1, <1>9, <1>10, <1>11, Establish

(* promise_race and promise_all.                                           *)
LEMMA CombineInv ==
  ASSUME Inv, NEW p \in Created, NEW q \in Created, NEW kind \in {"forward", "all"},
         Combine(p, q, kind)
  PROVE  Inv'
<1> DEFINE x == Reaction(1, p, kind, NewId)
           y == Reaction(2, q, kind, NewId)
           rs == <<x, y>>
           t == Add(Core)
<1>1. /\ Call /\ Room /\ Attach(rs) /\ Become(t)
      /\ combined' = (IF kind = "all" THEN [combined EXCEPT ![NewId] = StartAll] ELSE combined)
      /\ UNCHANGED <<listeners, crashed, pc, back, ran, seen>>
  BY DEF Combine
<1>2. /\ Good(t, attach, ops, ran, seen)
      /\ Live(t, attach) = Live(Core, attach) /\ seen \subseteq PlainSet(t)
      /\ Len(t.promises) = NewId /\ NewId \in 1..MaxPromises
      /\ \A c \in Created : Plain(Core, c) => Plain(t, c)
  BY <1>1, AddCreates
<1>3. /\ x \in Reactions /\ x.id = 2 * ops + 1 /\ x.on = Behind(p) /\ x.kind = kind /\ x.to = NewId
      /\ y \in Reactions /\ y.id = 2 * ops + 2 /\ y.on = Behind(q) /\ y.kind = kind /\ y.to = NewId
  <2>1. NewId \in 0..MaxPromises /\ kind \in Kinds /\ 1 \in {1, 2} /\ 2 \in {1, 2}
    BY <1>2, CoreFields DEF Kinds
  <2>2. x \in Reactions /\ x.id = 2 * ops + 1 /\ x.on = Behind(p) /\ x.kind = kind /\ x.to = NewId
    BY <1>1, <2>1, ReactionIs
  <2>3. y \in Reactions /\ y.id = 2 * ops + 2 /\ y.on = Behind(q) /\ y.kind = kind /\ y.to = NewId
    BY <1>1, <2>1, ReactionIs
  <2> QED
    BY <2>2, <2>3
<1> HIDE DEF t
<1>4. Plain(t, x.on) /\ Plain(t, y.on)
  BY <1>2, <1>3, BehindPlain
<1> HIDE DEF x, y
<1>5. rs \in Seq(Reactions) /\ Len(rs) = 2 /\ rs[1] = x /\ rs[2] = y /\ Of(rs) = {x, y}
  BY <1>3 DEF Of
<1> HIDE DEF rs
<1>6. /\ kind # "user" /\ NewId # 0 /\ NewId <= Len(t.promises) /\ x.id # y.id /\ x # y
  BY <1>2, <1>3, CoreFields
<1>7. /\ \A z \in Of(rs) : /\ Plain(t, z.on) /\ z.to <= Len(t.promises)
                           /\ (z.kind # "user" => z.to # 0)
                           /\ z.id \in {2 * ops + 1, 2 * ops + 2}
      /\ \A i, j \in 1..Len(rs) : rs[i].id = rs[j].id => i = j
      /\ \A i \in 1..Len(rs) : rs[i].kind = "user" => i = 1 /\ rs[i].id = 2 * ops + 1
  BY <1>3, <1>4, <1>5, <1>6
<1>8. Good(t, attach', ops', ran, seen) /\ Live(t, attach') = Live(Core, attach) \cup {x, y}
  <2>1. Good(t, attach', ops', ran, seen) /\ Live(t, attach') = Live(Core, attach) \cup Of(rs)
    BY <1>1, <1>2, <1>5, <1>7, Pushes
  <2> QED
    BY <1>5, <2>1
<1>9. combined \in [Ids -> [left : 0..2, settled : BOOLEAN]] /\ Counts(Live(Core, attach), combined)
  BY DEF Inv, Control
<1>10. /\ Counts(Live(t, attach'), combined')
       /\ combined' \in [Ids -> [left : 0..2, settled : BOOLEAN]] \/ combined' = combined
  <2>1. CASE kind = "all"
    <3>1. NewId \in Ids
      BY <1>2 DEF Ids
    <3>2. Pending(Live(Core, attach), NewId) = {}
      <4>1. \A z \in Live(Core, attach) : z.to <= Len(promises)
        BY CoreFields DEF Inv, Good, Structure, Links
      <4> QED
        BY <4>1, CoreFields DEF Pending, NewId
    <3>3. combined' = [combined EXCEPT ![NewId] = StartAll]
      BY <1>1, <2>1
    <3>4. Counts(Live(Core, attach) \cup {x, y}, [combined EXCEPT ![NewId] = StartAll])
      BY <1>3, <1>6, <1>9, <2>1, <3>1, <3>2, CountsStart
    <3>5. combined' \in [Ids -> [left : 0..2, settled : BOOLEAN]]
      <4>1. StartAll \in [left : 0..2, settled : BOOLEAN]
        BY DEF StartAll
      <4> QED
        BY <1>9, <3>3, <4>1
    <3> QED
      BY <1>8, <3>3, <3>4, <3>5
  <2>2. CASE kind # "all"
    <3>1. /\ Counts(Live(Core, attach) \cup {x}, combined)
          /\ Counts((Live(Core, attach) \cup {x}) \cup {y}, combined)
      BY <1>3, <1>9, <2>2, CountsOther
    <3>2. (Live(Core, attach) \cup {x}) \cup {y} = Live(t, attach')
      BY <1>8
    <3>3. combined' = combined
      BY <1>1, <2>2
    <3> QED
      BY <3>1, <3>2, <3>3
  <2> QED
    BY <2>1, <2>2
<1>11. Control'
  BY <1>1, <1>10, CallControl DEF listeners
<1>12. Good(t, attach', ops', ran', seen') /\ seen' \subseteq PlainSet(t)
  BY <1>1, <1>2, <1>8
<1> QED
  BY <1>1, <1>10, <1>11, <1>12, Establish

(* process.on and process.off.                                             *)
LEMMA ListenerInv ==
  ASSUME Inv, SetListener
  PROVE  Inv'
<1>1. /\ Call /\ UNCHANGED <<core, attach, combined, crashed, pc, back, ran, seen>>
      /\ handler' \in BOOLEAN \/ handler' = handler
      /\ late' \in BOOLEAN \/ late' = late
  <2>1. handler' \in BOOLEAN \/ handler' = handler
    BY Zenon DEF SetListener
  <2>2. late' \in BOOLEAN \/ late' = late
    BY Zenon DEF SetListener
  <2> QED
    BY <2>1, <2>2 DEF SetListener
<1>2. Good(Core, attach, ops + 1, ran, seen)
  BY <1>1, CallFacts, CallGood, CoreFields DEF Inv
<1>3. Control'
  BY <1>1, CallControl
<1>4. Become(Core)
  BY <1>1 DEF Become, Core, core
<1>5. Good(Core, attach', ops', ran', seen') /\ seen' \subseteq PlainSet(Core)
  BY <1>1, <1>2, CallFacts DEF Inv
<1>6. Counts(Live(Core, attach'), combined')
  BY <1>1 DEF Inv
<1> QED
  BY <1>3, <1>4, <1>5, <1>6, Establish

-------------------------------------------------------------------------------
(* promise_then up to the listener it calls, or to its end.                *)
LEMMA AttachInv ==
  ASSUME Inv, AttachOne
  PROVE  Inv'
<1> DEFINE r == attach[1].reaction
           s == Observe(Core, r.on)
           S == seen \cup {r.on}
           b == [attach EXCEPT ![1].listening = TRUE]
           t == Then(s, r)
<1>1. /\ attach # <<>> /\ seen' = S
      /\ \/ promises[r.on].reported /\ Become(s) /\ attach' = b
         \/ Become(t) /\ attach' = Tail(attach)
      /\ UNCHANGED <<combined, listeners, crashed, pc, back, ops, ran>>
  BY DEF AttachOne
<1>2. /\ Good(Core, attach, ops, ran, seen) /\ ops \in Nat /\ Core.promises = promises
      /\ seen \subseteq PlainSet(Core) /\ Counts(Live(Core, attach), combined)
  BY CoreFields DEF Inv
<1>3. Plain(Core, r.on)
  BY <1>1, <1>2, FirstCall
<1>4. /\ Good(s, attach, ops, ran, S) /\ Live(s, attach) = Live(Core, attach)
      /\ Observed(Core, s, r.on) /\ (promises[r.on].reported => Recalled(s, r.on))
  BY <1>2, <1>3, ObserveGood
<1>5. S \subseteq PlainSet(s)
  <2> HIDE DEF s
  <2>1. PlainSet(s) = PlainSet(Core)
    BY <1>4, SameViews DEF Observed
  <2> QED
    BY <1>2, <1>3, <2>1 DEF PlainSet, Plain
<1>6. Control'
  BY <1>1 DEF Inv, Control, listeners
<1>7. CASE promises[r.on].reported /\ Become(s) /\ attach' = b
  <2> HIDE DEF s, S
  <2>1. Good(s, b, ops, ran, S) /\ Live(s, b) = Live(s, attach)
    BY <1>1, <1>2, <1>4, <1>7, ListenGood
  <2> HIDE DEF b
  <2>2. Good(s, attach', ops', ran', seen') /\ seen' \subseteq PlainSet(s)
        /\ Counts(Live(s, attach'), combined')
    BY <1>1, <1>2, <1>4, <1>5, <1>7, <2>1
  <2> QED
    BY <1>6, <1>7, <2>2, Establish
<1>8. CASE Become(t) /\ attach' = Tail(attach)
  <2> HIDE DEF s, S
  <2>1. /\ Good(t, Tail(attach), ops, ran, S) /\ Live(t, Tail(attach)) = Live(s, attach)
        /\ Len(t.promises) = Len(s.promises)
        /\ \A c \in 1..Len(s.promises) : t.promises[c].view = s.promises[c].view
    BY <1>1, <1>2, <1>4, ThenGood
  <2> HIDE DEF t
  <2>2. PlainSet(t) = PlainSet(s)
    BY <2>1, SameViews
  <2>3. Good(t, attach', ops', ran', seen') /\ seen' \subseteq PlainSet(t)
        /\ Counts(Live(t, attach'), combined')
    BY <1>1, <1>2, <1>4, <1>5, <1>8, <2>1, <2>2
  <2> QED
    BY <1>6, <1>8, <2>3, Establish
<1> QED
  BY <1>1, <1>7, <1>8

(* The listener returns.                                                   *)
LEMMA ListenerReturnInv ==
  ASSUME Inv, ListenerReturn
  PROVE  Inv'
<1> DEFINE t == Then(Core, attach[1].reaction)
<1>1. /\ attach # <<>> /\ Become(t) /\ attach' = Tail(attach)
      /\ UNCHANGED <<combined, listeners, crashed, pc, back, ops, ran, seen>>
  BY DEF ListenerReturn
<1>2. /\ Good(Core, attach, ops, ran, seen) /\ ops \in Nat
      /\ seen \subseteq PlainSet(Core) /\ Counts(Live(Core, attach), combined)
  BY CoreFields DEF Inv
<1>3. /\ Good(t, Tail(attach), ops, ran, seen) /\ Live(t, Tail(attach)) = Live(Core, attach)
      /\ Len(t.promises) = Len(Core.promises)
      /\ \A c \in 1..Len(Core.promises) : t.promises[c].view = Core.promises[c].view
  BY <1>1, <1>2, ThenGood
<1> HIDE DEF t
<1>4. PlainSet(t) = PlainSet(Core)
  BY <1>3, SameViews
<1>5. Control'
  BY <1>1 DEF Inv, Control, listeners
<1>6. Good(t, attach', ops', ran', seen') /\ seen' \subseteq PlainSet(t)
      /\ Counts(Live(t, attach'), combined')
  BY <1>1, <1>2, <1>3, <1>4
<1> QED
  BY <1>1, <1>5, <1>6, Establish

(* Steps of the loop that leave promises and reactions alone.              *)
LEMMA ControlInv ==
  ASSUME Inv, UNCHANGED <<core, attach, combined, ops, ran, seen>>, Control'
  PROVE  Inv'
<1>1. Become(Core)
  BY DEF Become, Core, core
<1>2. Good(Core, attach', ops', ran', seen') /\ seen' \subseteq PlainSet(Core)
      /\ Counts(Live(Core, attach'), combined')
  BY DEF Inv
<1> QED
  BY <1>1, <1>2, Establish

(* The first microtask is taken from the queue.                            *)
LEMMA Pops ==
  ASSUME Inv, micro # <<>>
  PROVE  LET r == Job.reaction IN
         /\ Good(Popped, attach, ops, ran, seen)
         /\ Good(Popped, attach, ops, ran \cup {r.id}, seen)
         /\ Live(Popped, attach) = Live(Core, attach) \ {r} /\ r \in Live(Core, attach)
         /\ Popped.promises = promises /\ PlainSet(Popped) = PlainSet(Core)
         /\ ran \cup {r.id} \subseteq 1..2 * ops /\ Job.outcome \in Outcomes /\ r \in Reactions
         /\ r.kind # "user" => r.to \in Created
<1> DEFINE s == Core
           t == [s EXCEPT !.micro = Tail(@)]
           r == s.micro[1].reaction
<1>1. /\ Good(s, attach, ops, ran, seen) /\ ops \in Nat /\ s.micro = micro
      /\ s.promises = promises /\ Created = 1..Len(promises) /\ Len(promises) \in Nat
      /\ ran \subseteq 1..2 * ops
  BY CoreFields DEF Inv, Control
<1>2. Popped = t
  BY DEF Popped
<1>3. /\ Good(t, attach, ops, ran, seen) /\ Good(t, attach, ops, ran \cup {r.id}, seen)
      /\ r \in Live(s, attach) /\ Live(t, attach) = Live(s, attach) \ {r} /\ r \in Reactions
      /\ t.promises = s.promises /\ s.micro[1].outcome \in Outcomes
      /\ Head(s.micro) = s.micro[1]
      /\ r.to \in 0..Len(s.promises) /\ (r.kind # "user" => r.to # 0)
  BY <1>1, PopGood
<1>4. r = Job.reaction /\ Job.outcome \in Outcomes
  BY <1>1, <1>3 DEF Job
<1> HIDE DEF s, t, r
<1>5. r.id <= 2 * ops
  BY <1>1, <1>3 DEF Good, Structure, Numbered
<1>6. r.id \in 1..2 * ops
  BY <1>1, <1>3, <1>5, PromisesAssumption DEF Reactions
<1>7. r.kind # "user" => r.to \in Created
  BY <1>1, <1>3
<1>8. PlainSet(Popped) = PlainSet(s)
  BY <1>2, <1>3 DEF PlainSet
<1> QED
  BY <1>1, <1>2, <1>3, <1>4, <1>6, <1>7, <1>8 DEF s

(* A reaction that is script code.                                         *)
LEMMA UserInv ==
  ASSUME Inv, RunUser
  PROVE  Inv'
<1> DEFINE r == Job.reaction
<1>1. /\ micro # <<>> /\ ran' = ran \cup {r.id} /\ Become(Popped) /\ r.kind = "user"
      /\ pc' = "script" /\ back' = "drain"
      /\ UNCHANGED <<attach, combined, listeners, crashed, ops, seen>>
  BY DEF RunUser, Running, Ran, Job
<1>2. /\ Good(Popped, attach, ops, ran \cup {r.id}, seen)
      /\ Live(Popped, attach) = Live(Core, attach) \ {r}
      /\ PlainSet(Popped) = PlainSet(Core) /\ ran \cup {r.id} \subseteq 1..2 * ops
  BY <1>1, Pops
<1> HIDE DEF r
<1>3. Counts(Live(Core, attach) \ {r}, combined)
  BY <1>1, CountsOther DEF Inv
<1>4. Control'
  BY <1>1, <1>2 DEF Inv, Control, listeners
<1>5. Good(Popped, attach', ops', ran', seen') /\ seen' \subseteq PlainSet(Popped)
      /\ Counts(Live(Popped, attach'), combined')
  BY <1>1, <1>2, <1>3 DEF Inv
<1> QED
  BY <1>1, <1>4, <1>5, Establish

(* A reaction other than Promise.all's settles its result.                 *)
LEMMA RunSettles ==
  ASSUME Inv, micro # <<>>, Job.reaction.kind \in {"map", "flatMap", "forward"}, NEW o \in Outcomes,
         Become(Settle(Popped, Job.reaction.to, o)), Ran,
         UNCHANGED <<attach, combined, listeners, crashed, pc, back, ops, seen>>
  PROVE  Inv'
<1> DEFINE r == Job.reaction
           t == Settle(Popped, r.to, o)
           R == ran \cup {r.id}
<1>1. /\ Good(Popped, attach, ops, R, seen)
      /\ Live(Popped, attach) = Live(Core, attach) \ {r} /\ Popped.promises = promises
      /\ PlainSet(Popped) = PlainSet(Core) /\ R \subseteq 1..2 * ops
      /\ r.to \in 1..Len(promises)
  BY Pops, CoreFields
<1>2. ops \in Nat
  BY CoreFields
<1>3. /\ Good(t, attach, ops, R, seen) /\ Live(t, attach) = Live(Popped, attach)
      /\ Len(t.promises) = Len(Popped.promises)
      /\ \A c \in 1..Len(Popped.promises) : t.promises[c].view = Popped.promises[c].view
  <2> HIDE DEF R
  <2> QED
    BY SMTT(30), <1>1, <1>2, SettleGood
<1>4. ran' = R
  BY DEF Ran
<1>5. r.kind # "all"
  OBVIOUS
<1>6. Become(t)
  OBVIOUS
<1> HIDE DEF t, R, r
<1>7. PlainSet(t) = PlainSet(Core)
  BY <1>1, <1>3, SameViews
<1>8. Counts(Live(Core, attach) \ {r}, combined)
  BY <1>5, CountsOther DEF Inv
<1>9. Control'
  BY <1>1, <1>4 DEF Inv, Control, listeners
<1>10. Good(t, attach', ops', ran', seen') /\ seen' \subseteq PlainSet(t)
       /\ Counts(Live(t, attach'), combined')
  BY <1>1, <1>3, <1>4, <1>7, <1>8 DEF Inv
<1> QED
  BY <1>6, <1>9, <1>10, Establish

(* promise_map.                                                            *)
LEMMA RunMapInv ==
  ASSUME Inv, RunMap
  PROVE  Inv'
<1>1. micro # <<>> /\ Job.reaction.kind \in {"map", "flatMap", "forward"} /\ Ran
      /\ UNCHANGED <<attach, combined, listeners, crashed, pc, back, ops, seen>>
  BY DEF RunMap, Running, Job
<1>2. PICK o \in IF Job.outcome = "fulfilled" THEN Outcomes ELSE {"rejected"} :
        Become(Settle(Popped, Job.reaction.to, o))
  BY DEF RunMap
<1>3. o \in Outcomes
  BY <1>2 DEF Outcomes
<1> QED
  BY <1>1, <1>2, <1>3, RunSettles

(* promise_race.                                                           *)
LEMMA RunForwardInv ==
  ASSUME Inv, RunForward
  PROVE  Inv'
<1>1. micro # <<>> /\ Job.reaction.kind \in {"map", "flatMap", "forward"} /\ Ran
      /\ UNCHANGED <<attach, combined, listeners, crashed, pc, back, ops, seen>>
      /\ Become(Settle(Popped, Job.reaction.to, Job.outcome))
  BY DEF RunForward, Running, Job
<1>2. Job.outcome \in Outcomes
  BY <1>1, Pops
<1> QED
  BY <1>1, <1>2, RunSettles

(* promise_flat_map: the result of the mapper is followed by a reaction    *)
(* that takes over the id.                                                 *)
LEMMA RunFlatMapInv ==
  ASSUME Inv, RunFlatMap
  PROVE  Inv'
<1> DEFINE r == Job.reaction
<1>1. /\ micro # <<>> /\ r.kind = "flatMap" /\ attach = <<>>
      /\ UNCHANGED <<combined, listeners, crashed, pc, back, ops, seen>>
  BY DEF RunFlatMap, Running, Job
<1>2. CASE /\ Become(Settle(Popped, Job.reaction.to, "rejected"))
           /\ Ran /\ UNCHANGED attach
  <2>1. "rejected" \in Outcomes /\ Job.reaction.kind \in {"map", "flatMap", "forward"}
    BY <1>1 DEF Outcomes
  <2> QED
    BY <1>1, <1>2, <2>1, RunSettles
<1>3. ASSUME NEW p \in Created, Become(Popped), UNCHANGED ran,
             Attach(<<[Job.reaction EXCEPT !.on = Behind(p), !.kind = "forward"]>>)
      PROVE  Inv'
  <2> DEFINE v == Behind(p)
             q == [r EXCEPT !.on = v, !.kind = "forward"]
             rs == <<q>>
             s == Popped
  <2>1. Attach(rs)
    BY <1>3
  <2>2. /\ Good(s, attach, ops, ran, seen)
        /\ Live(s, attach) = Live(Core, attach) \ {r} /\ r \in Live(Core, attach)
        /\ s.promises = promises /\ PlainSet(s) = PlainSet(Core)
        /\ r \in Reactions /\ r.to \in 1..Len(promises)
    BY <1>1, Pops, CoreFields
  <2>3. Plain(Core, v) /\ v \in Created /\ v \in Ids
    BY BehindPlain, CoreFields DEF Ids
  <2>4. /\ ops \in Nat /\ Len(promises) \in Nat /\ Core.promises = promises
        /\ Numbered(Core, attach, ops, ran) /\ Counts(Live(Core, attach), combined)
        /\ seen \subseteq PlainSet(Core)
    BY CoreFields DEF Inv, Good, Structure
  <2> HIDE DEF v, r, s
  <2>5. /\ q \in Reactions /\ q.id = r.id /\ q.on = v /\ q.to = r.to /\ q.kind = "forward"
    BY <2>2, <2>3 DEF Reactions, Kinds
  <2> HIDE DEF q
  <2>6. rs \in Seq(Reactions) /\ Len(rs) = 1 /\ rs[1] = q /\ Of(rs) = {q}
    BY <2>5 DEF Of
  <2> HIDE DEF rs
  <2>7. Plain(s, q.on) /\ q.to <= Len(s.promises) /\ q.to # 0
    BY <2>2, <2>3, <2>4, <2>5 DEF Plain
  <2>8. q.id <= 2 * ops /\ q.id \notin ran /\ \A x \in Live(s, attach) : x.id # q.id
    BY <2>2, <2>4, <2>5 DEF Numbered
  <2>9. Attachable(s, attach, ops, ran, rs)
    BY <2>5, <2>6, <2>7, <2>8 DEF Attachable
  <2>10. attach' = NewCalls(rs) \o attach /\ ops <= ops
    BY <2>1, <2>4 DEF Attach, NewCalls
  <2>11. LET b == NewCalls(rs) \o attach IN
         Good(s, b, ops, ran, seen) /\ Live(s, b) = Live(s, attach) \cup Of(rs)
    <3>1. attach = <<>> \/ attach[1].listening
      BY <1>1
    <3> QED
      BY <2>2, <2>4, <2>6, <2>9, <2>10, <3>1, PushGood
  <2>12. Good(s, attach', ops, ran, seen) /\ Live(s, attach') = (Live(Core, attach) \ {r}) \cup {q}
    BY <2>2, <2>6, <2>10, <2>11
  <2>13. Counts((Live(Core, attach) \ {r}) \cup {q}, combined)
    <3>1. Counts(Live(Core, attach) \ {r}, combined)
      BY <1>1, <2>4, CountsOther
    <3> QED
      BY <2>5, <3>1, CountsOther
  <2>14. Control'
    BY <1>1, <1>3 DEF Inv, Control, listeners
  <2>15. Good(s, attach', ops', ran', seen') /\ seen' \subseteq PlainSet(s)
         /\ Counts(Live(s, attach'), combined')
    BY <1>1, <1>3, <2>2, <2>4, <2>12, <2>13
  <2> QED
    BY <1>3, <2>14, <2>15, Establish DEF s
<1> QED
  BY <1>2, <1>3 DEF RunFlatMap

(* promise_all.                                                            *)
LEMMA RunAllInv ==
  ASSUME Inv, RunAll
  PROVE  Inv'
<1> DEFINE r == Job.reaction
           R == ran \cup {r.id}
           u == r.to
           CT == [Ids -> [left : 0..2, settled : BOOLEAN]]
<1>1. /\ micro # <<>> /\ r.kind = "all" /\ ran' = R
      /\ UNCHANGED <<attach, listeners, crashed, pc, back, ops, seen>>
  BY DEF RunAll, Running, Job, Ran
<1>2. /\ Good(Popped, attach, ops, R, seen)
      /\ Live(Popped, attach) = Live(Core, attach) \ {r} /\ r \in Live(Core, attach)
      /\ Popped.promises = promises /\ PlainSet(Popped) = PlainSet(Core)
      /\ R \subseteq 1..2 * ops /\ u \in 1..Len(promises)
  BY <1>1, Pops, CoreFields
<1>3. /\ ops \in Nat /\ u \in Ids /\ Len(promises) \in Nat
      /\ Counts(Live(Core, attach), combined) /\ combined \in CT /\ seen \subseteq PlainSet(Core)
  BY <1>2, CoreFields DEF Ids, Inv, Control
<1>4. \/ combined[u].settled /\ Become(Popped) /\ combined' = combined
      \/ /\ ~combined[u].settled /\ combined' = [combined EXCEPT ![u].settled = TRUE]
         /\ Become(Settle(Popped, u, "rejected"))
      \/ /\ ~combined[u].settled
         /\ combined' = [combined EXCEPT ![u] = [left |-> @.left - 1, settled |-> @.left = 1]]
         /\ Become(Popped) \/ Become(Settle(Popped, u, "fulfilled"))
  BY DEF RunAll
<1>5. combined[u] \in [left : 0..2, settled : BOOLEAN]
  BY <1>3
<1>6. combined[u].settled \/ combined[u].left > 0
  <2>1. r \in Pending(Live(Core, attach), u)
    BY <1>1, <1>2 DEF Pending
  <2> QED
    BY <1>3, <2>1 DEF Counts
<1>7. /\ combined' \in CT /\ \A x \in Ids : x # u => combined'[x] = combined[x]
      /\ \/ combined'[u].settled
         \/ ~combined[u].settled /\ combined'[u].left = combined[u].left - 1
  <2>1. CASE combined[u].settled /\ combined' = combined
    BY <1>3, <2>1
  <2>2. CASE combined' = [combined EXCEPT ![u].settled = TRUE]
    <3> DEFINE d == [combined[u] EXCEPT !.settled = TRUE]
    <3>1. d \in [left : 0..2, settled : BOOLEAN] /\ d.settled
      BY <1>5
    <3>2. combined' = [combined EXCEPT ![u] = d]
      BY <2>2
    <3> HIDE DEF d
    <3> QED
      BY <1>3, <3>1, <3>2
  <2>3. CASE /\ ~combined[u].settled
             /\ combined' = [combined EXCEPT ![u] = [left |-> @.left - 1, settled |-> @.left = 1]]
    <3> DEFINE d == [left |-> combined[u].left - 1, settled |-> combined[u].left = 1]
    <3>1. d.left = combined[u].left - 1 /\ d.left \in 0..2
      BY <1>5, <1>6, <2>3
    <3>2. d \in [left : 0..2, settled : BOOLEAN]
      BY <3>1
    <3>3. combined' = [combined EXCEPT ![u] = d]
      BY <2>3
    <3> HIDE DEF d
    <3> QED
      BY <1>3, <2>3, <3>1, <3>2, <3>3
  <2> QED
    BY <1>4, <2>1, <2>2, <2>3
<1>8. Counts(Live(Core, attach) \ {r}, combined')
  <2> HIDE DEF r
  <2> QED
    BY ZenonT(60), <1>1, <1>2, <1>3, <1>7, CountsRun
<1>9. Control'
  BY <1>1, <1>2, <1>7 DEF Inv, Control, listeners
<1>10. CASE Become(Popped)
  <2>1. Good(Popped, attach', ops', ran', seen') /\ seen' \subseteq PlainSet(Popped)
        /\ Counts(Live(Popped, attach'), combined')
    BY <1>1, <1>2, <1>3, <1>8
  <2> QED
    BY <1>9, <1>10, <2>1, Establish
<1>11. ASSUME NEW o \in Outcomes, Become(Settle(Popped, u, o))
       PROVE  Inv'
  <2> DEFINE t == Settle(Popped, u, o)
  <2>1. /\ Good(t, attach, ops, R, seen) /\ Live(t, attach) = Live(Popped, attach)
        /\ Len(t.promises) = Len(Popped.promises)
        /\ \A c \in 1..Len(Popped.promises) : t.promises[c].view = Popped.promises[c].view
    <3> HIDE DEF R, u
    <3> QED
      BY <1>2, <1>3, SettleGood
  <2>2. Become(t)
    BY <1>11
  <2> HIDE DEF t, R, r
  <2>3. PlainSet(t) = PlainSet(Core)
    BY <1>2, <2>1, SameViews
  <2>4. Good(t, attach', ops', ran', seen') /\ seen' \subseteq PlainSet(t)
        /\ Counts(Live(t, attach'), combined')
    BY <1>1, <1>2, <1>3, <1>8, <2>1, <2>3
  <2> QED
    BY <1>9, <2>2, <2>4, Establish
<1> QED
  BY <1>4, <1>10, <1>11 DEF Outcomes

(* The check of a rejection.                                               *)
LEMMA CheckInv ==
  ASSUME Inv, RunCheck
  PROVE  Inv'
<1> DEFINE p == Head(checks)
           s == Core
           d == [promises[p] EXCEPT !.reported = TRUE, !.handled = promises[p].handled \/ handler]
           t == [Core EXCEPT !.checks = Tail(@),
                             !.promises[p] = [@ EXCEPT !.reported = TRUE,
                                                       !.handled = promises[p].handled \/ handler],
                             !.told[p] = Append(@, TRUE)]
<1>1. /\ checks # <<>> /\ UNCHANGED <<attach, combined, listeners, ops, ran, seen>>
      /\ \/ ~Unhandled(p) /\ checks' = Tail(checks) /\ UNCHANGED <<promises, micro, told>>
            /\ UNCHANGED <<crashed, pc, back>>
         \/ /\ Unhandled(p) /\ Become(t)
            /\ \/ pc' = "script" /\ back' = "checks" /\ UNCHANGED crashed
               \/ crashed' = TRUE /\ UNCHANGED <<pc, back>>
  BY DEF RunCheck
<1>2. /\ Good(Core, attach, ops, ran, seen) /\ ops \in Nat /\ Core \in Cores
      /\ Core.promises = promises /\ Core.checks = checks /\ Core.told = told /\ Core.micro = micro
      /\ Len(told) = Len(promises)
      /\ seen \subseteq PlainSet(Core) /\ Counts(Live(Core, attach), combined)
      /\ handler \in BOOLEAN
  BY CoreFields DEF Inv, Control
<1>3. /\ promises \in Seq(Data) /\ checks \in Seq(Nat) /\ told \in Seq(Seq(BOOLEAN))
      /\ micro \in Seq(JobSet)
  BY <1>2 DEF Cores
<1>4. p = checks[1] /\ Tail(checks) \in Seq(Nat) /\ p \in Of(checks)
  BY <1>1, <1>3, TailEntries
<1>5. p \in 1..Len(promises)
  BY <1>2, <1>3, <1>4, InOf DEF Good, Structure, Links
<1>6. promises[p] \in Data /\ told[p] \in Seq(BOOLEAN)
  BY SMTT(30), <1>2, <1>3, <1>5
<1>7. Control'
  BY <1>1 DEF Inv, Control, listeners
<1>8. CASE ~Unhandled(p) /\ checks' = Tail(checks) /\ UNCHANGED <<promises, micro, told>>
  <2> DEFINE w == [promises |-> promises, micro |-> micro, checks |-> Tail(checks), told |-> told]
  <2>1. Become(w)
    BY <1>8 DEF Become
  <2>2. /\ w \in Cores /\ w.promises = promises /\ w.micro = micro /\ w.checks = Tail(checks)
        /\ w.told = told
    BY <1>3, <1>4 DEF Cores
  <2> HIDE DEF w
  <2>3. ~(~promises[p].handled /\ ~promises[p].reported /\ promises[p].state = "rejected")
    BY <1>8 DEF Unhandled
  <2>4. Checked(Core, w)
    BY <1>2, <1>4, <2>2, <2>3 DEF Checked
  <2>5. Good(w, attach, ops, ran, seen) /\ Live(w, attach) = Live(Core, attach)
    BY <1>1, <1>2, <2>4, CheckGood
  <2>6. PlainSet(w) = PlainSet(Core)
    BY <1>2, <2>2 DEF PlainSet
  <2>7. Good(w, attach', ops', ran', seen') /\ seen' \subseteq PlainSet(w)
        /\ Counts(Live(w, attach'), combined')
    BY <1>1, <1>2, <2>5, <2>6
  <2> QED
    BY <1>7, <2>1, <2>7, Establish
<1>9. CASE Unhandled(p) /\ Become(t)
  <2> DEFINE e == Append(told[p], TRUE)
             x == [promises EXCEPT ![p] = d]
             y == [told EXCEPT ![p] = e]
             z == Tail(checks)
  <2>1. t = [promises |-> x, micro |-> micro, checks |-> z, told |-> y]
    <3>1. t = [Core EXCEPT !.checks = z, !.promises = x, !.told = y]
      BY <1>2
    <3> HIDE DEF t, x, y, z
    <3> QED
      BY <3>1 DEF Core
  <2>2. /\ d \in Data /\ d.reported /\ d.view = promises[p].view
        /\ d.state = promises[p].state /\ d.reactions = promises[p].reactions
    <3> DEFINE h == promises[p].handled \/ handler
    <3>1. h \in BOOLEAN
      OBVIOUS
    <3>2. d = [promises[p] EXCEPT !.reported = TRUE, !.handled = h]
      OBVIOUS
    <3> HIDE DEF h
    <3> QED
      BY <1>6, <3>1, <3>2 DEF Data
  <2>3. e \in Seq(BOOLEAN)
    <3>1. TRUE \in BOOLEAN
      OBVIOUS
    <3> QED
      BY <1>6, <3>1, AppendEntry, Zenon
  <2>4. ~promises[p].handled /\ ~promises[p].reported /\ promises[p].state = "rejected"
    BY <1>9 DEF Unhandled
  <2> HIDE DEF d, p
  <2>5. /\ x \in Seq(Data) /\ Len(x) = Len(promises) /\ x[p] = d
        /\ \A c \in 1..Len(promises) : c # p => x[c] = promises[c]
    BY <1>3, <1>5, <2>2
  <2>6. /\ y \in Seq(Seq(BOOLEAN)) /\ Len(y) = Len(told) /\ y[p] = e
        /\ \A c \in 1..Len(promises) : c # p => y[c] = told[c]
    <3> HIDE DEF e
    <3> QED
      BY <1>2, <1>3, <1>5, <2>3
  <2>7. z \in Seq(Nat)
    BY <1>4
  <2> HIDE DEF x, y, z
  <2>8. /\ t \in Cores /\ t.promises = x /\ t.micro = micro /\ t.checks = z /\ t.told = y
    <3> HIDE DEF t
    <3> QED
      BY <1>3, <2>1, <2>5, <2>6, <2>7 DEF Cores
  <2>9. Become(t)
    BY <1>9
  <2> HIDE DEF t, e
  <2>10. \A c \in 1..Len(promises) : /\ t.promises[c].view = promises[c].view
                                     /\ t.promises[c].state = promises[c].state
                                     /\ t.promises[c].reactions = promises[c].reactions
    BY <2>2, <2>5, <2>8
  <2>11. \A c \in 1..Len(promises) :
           c # p => t.promises[c] = promises[c] /\ t.told[c] = told[c]
    BY <2>5, <2>6, <2>8
  <2>12. t.promises[p].reported /\ t.told[p] = Append(told[p], TRUE)
    BY <2>2, <2>5, <2>6, <2>8 DEF e
  <2>13. t.micro = micro /\ t.checks = Tail(checks) /\ Len(t.promises) = Len(promises)
         /\ Len(t.told) = Len(told)
    BY <2>5, <2>6, <2>8 DEF z
  <2>14. Checked(Core, t)
    BY <1>2, <1>4, <2>4, <2>8, <2>10, <2>11, <2>12, <2>13 DEF Checked
  <2>15. Good(t, attach, ops, ran, seen) /\ Live(t, attach) = Live(Core, attach)
    BY <1>1, <1>2, <2>14, CheckGood
  <2>16. PlainSet(t) = PlainSet(Core)
    BY <1>2, <2>10, <2>13, SameViews
  <2>17. Good(t, attach', ops', ran', seen') /\ seen' \subseteq PlainSet(t)
         /\ Counts(Live(t, attach'), combined')
    BY <1>1, <1>2, <2>15, <2>16
  <2> QED
    BY <1>7, <2>9, <2>17, Establish
<1> QED
  BY <1>1, <1>8, <1>9

-------------------------------------------------------------------------------
(* Nothing has happened yet.                                               *)
LEMMA InitInv == Init => Inv
<1> SUFFICES ASSUME Init
             PROVE  Inv
  OBVIOUS
<1>1. /\ promises = <<>> /\ micro = <<>> /\ checks = <<>> /\ told = <<>> /\ attach = <<>>
      /\ ops = 0 /\ ran = {} /\ seen = {}
      /\ combined = [p \in Ids |-> [left |-> 0, settled |-> FALSE]]
  BY DEF Init
<1>2. /\ Core.promises = <<>> /\ Core.micro = <<>> /\ Core.checks = <<>> /\ Core.told = <<>>
      /\ Core \in Cores
  BY <1>1 DEF Core, Cores
<1>3. Live(Core, attach) = {}
  BY <1>1, <1>2 DEF Live, WaitSet, QueueSet, CallSet, ReactionsOf
<1>4. Typed(Core, attach)
  BY <1>1, <1>2, PromisesAssumption DEF Typed
<1>5. Links(Core, attach) /\ Numbered(Core, attach, ops, ran)
  BY <1>1, <1>2, <1>3 DEF Links, Numbered
<1>6. Places(Core, attach)
  BY <1>1, <1>2, <1>3 DEF Places, Live, Distinct
<1>7. Ordered(Core, attach, ops) /\ Reports(Core, seen)
  BY <1>1, <1>2 DEF Ordered, WaitOrder, QueueOrder, CallOrder, Reports
<1>8. Counts(Live(Core, attach), combined)
  <2>1. IsFiniteSet({}) /\ \A t : Pending({}, t) = {}
    BY FS_EmptySet DEF Pending
  <2>2. \A t \in Ids : combined[t].left = 0
    BY <1>1
  <2> QED
    BY <1>3, <2>1, <2>2 DEF Counts
<1>9. Control
  <2>1. combined \in [Ids -> [left : 0..2, settled : BOOLEAN]]
    <3> DEFINE e == [left |-> 0, settled |-> FALSE]
    <3>1. e \in [left : 0..2, settled : BOOLEAN]
      OBVIOUS
    <3>2. combined = [p \in Ids |-> e]
      BY <1>1
    <3> HIDE DEF e
    <3> QED
      BY <3>1, <3>2
  <2>2. ops \in 0..MaxOps /\ ran \subseteq 1..2 * ops
    BY <1>1, PromisesAssumption
  <2>3. handler \in BOOLEAN /\ late \in BOOLEAN /\ crashed \in BOOLEAN
    BY Zenon DEF Init
  <2> QED
    BY <2>1, <2>2, <2>3 DEF Init, Control
<1> QED
  BY <1>1, <1>4, <1>5, <1>6, <1>7, <1>8, <1>9 DEF Inv, Good, Structure

(* Every step of script code or of the loop keeps the invariant.           *)
LEMMA NextInv == Inv /\ [Next]_vars => Inv'
<1> SUFFICES ASSUME Inv, [Next]_vars
             PROVE  Inv'
  OBVIOUS
<1>1. CASE ScriptCall
  BY <1>1, NewInv, ListenerInv, ViewInv, ThenInv, PollInv, SettleInv, MapInv, CombineInv
  DEF ScriptCall
<1>2. CASE Return
  <2>1. Control'
    BY <1>2 DEF Inv, Control, Return, listeners
  <2> QED
    BY <1>2, <2>1, ControlInv DEF Return
<1>3. CASE LoopControl
  <2>1. Control'
    BY <1>3 DEF Inv, Control, LoopControl, AfterChecks, listeners
  <2> QED
    BY <1>3, <2>1, ControlInv DEF LoopControl
<1>4. CASE UNCHANGED vars
  <2>1. Control'
    BY <1>4 DEF Inv, Control, vars, listeners
  <2> QED
    BY <1>4, <2>1, ControlInv DEF vars
<1>5. CASE LoopStep
  BY <1>2, <1>3, <1>5, AttachInv, ListenerReturnInv, UserInv, RunMapInv, RunFlatMapInv,
     RunForwardInv, RunAllInv, CheckInv
  DEF LoopStep
<1> QED
  BY <1>1, <1>4, <1>5 DEF Next, Terminated

(* The inductive invariant holds.                                          *)
THEOREM PromisesInvariant == Spec => []Inv
<1>1. Init => Inv
  BY InitInv
<1>2. Inv /\ [Next]_vars => Inv'
  BY NextInv
<1> QED
  BY <1>1, <1>2, PTL DEF Spec

(* The sets the properties speak of are those of the invariant.            *)
LEMMA SetsAre ==
  ASSUME Inv
  PROVE  /\ Waiting = WaitSet(Core) /\ Queued = QueueSet(Core) /\ Attaching = CallSet(attach)
         /\ Waiting \cup Queued \cup Attaching = Live(Core, attach)
         /\ DOMAIN micro = 1..Len(micro)
<1>1. /\ Core.promises = promises /\ Core.micro = micro /\ Created = 1..Len(promises)
      /\ attach \in Seq(Calls) /\ Core \in Cores
  BY CoreFields
<1>2. micro \in Seq(JobSet)
  BY <1>1 DEF Cores
<1>3. Waiting = WaitSet(Core)
  <2> DEFINE f(p) == {promises[p].reactions[i] : i \in DOMAIN promises[p].reactions}
  <2>1. Waiting = UNION {f(p) : p \in Created}
    BY DEF Waiting
  <2>2. WaitSet(Core) = UNION {f(p) : p \in 1..Len(promises)}
    BY <1>1 DEF WaitSet, Of
  <2> HIDE DEF f
  <2> QED
    BY <1>1, <2>1, <2>2
<1>4. DOMAIN micro = 1..Len(micro) /\ DOMAIN attach = 1..Len(attach)
  BY <1>1, <1>2
<1>5. Queued = QueueSet(Core) /\ Attaching = CallSet(attach)
  BY <1>1, <1>4, Zenon DEF Queued, Attaching, QueueSet, CallSet, ReactionsOf
<1> QED
  BY <1>3, <1>4, <1>5 DEF Live

(* Every variable keeps its type: no view, reaction or check refers to a    *)
(* promise that does not exist, and no id or counter passes its bound       *)
(* (PromiseData of promises.rs).                                           *)
THEOREM TypeCorrect == Spec => []TypeOK
<1>1. Inv => TypeOK
  <2> SUFFICES ASSUME Inv
               PROVE  TypeOK
    OBVIOUS
  <2>1. /\ Core.promises = promises /\ Core.micro = micro /\ Core.checks = checks
        /\ Core.told = told /\ Created = 1..Len(promises) /\ Core \in Cores
        /\ Len(promises) \in Nat /\ Len(promises) <= MaxPromises /\ MaxPromises \in Nat
        /\ Len(told) = Len(promises) /\ ops \in Nat /\ MaxOps \in Nat
    BY CoreFields
  <2>2. /\ promises \in Seq(Data) /\ micro \in Seq(JobSet) /\ checks \in Seq(Nat)
    BY <2>1 DEF Cores
  <2>3. Structure(Core, attach, ops, ran) /\ seen \subseteq PlainSet(Core) /\ Control
    BY DEF Inv, Good
  <2>4. ASSUME NEW p \in Created
        PROVE  /\ promises[p].state \in Outcomes \cup {"pending"}
               /\ promises[p].handled \in BOOLEAN /\ promises[p].reported \in BOOLEAN
               /\ promises[p].view \in 0..MaxPromises
    <3>1. promises[p] \in Data
      BY <2>1, <2>2
    <3>2. promises[p].view \in 0..MaxPromises
      <4>1. promises[p].view \in Nat
        BY <3>1 DEF Data
      <4>2. promises[p].view # 0 => promises[p].view \in 1..Len(promises)
        BY <2>1, <2>3 DEF Structure, Links, Plain
      <4> QED
        BY <2>1, <4>1, <4>2
    <3> QED
      BY <3>1, <3>2 DEF Data
  <2>5. Waiting \cup Queued \cup Attaching \subseteq Reactions
    BY <2>3, SetsAre, LiveTyped DEF Structure
  <2>6. \A i \in DOMAIN micro : micro[i].outcome \in Outcomes
    <3>1. \A i \in DOMAIN micro : micro[i] \in JobSet
      BY <2>2
    <3> QED
      BY <3>1 DEF JobSet
  <2>7. checks \in Seq(Created)
    <3>1. \A i \in 1..Len(checks) : checks[i] \in Created
      BY <2>1, <2>3 DEF Structure, Links
    <3>2. Len(checks) \in Nat /\ checks = [i \in 1..Len(checks) |-> checks[i]]
      BY <2>2
    <3>3. checks \in [1..Len(checks) -> Created]
      BY <3>1, <3>2
    <3> QED
      BY <3>2, <3>3, IsASeq
  <2>8. seen \subseteq Created
    BY <2>1, <2>3 DEF PlainSet
  <2>9. ran \subseteq 1..2 * MaxOps /\ ops \in 0..MaxOps
    <3>1. ran \subseteq 1..2 * ops /\ ops <= MaxOps
      BY <2>1, <2>3 DEF Control
    <3>2. 1..2 * ops \subseteq 1..2 * MaxOps
      BY <2>1, <3>1
    <3> QED
      BY <2>1, <3>1, <3>2
  <2> QED
    BY <2>1, <2>3, <2>4, <2>5, <2>6, <2>7, <2>8, <2>9 DEF TypeOK, Control
<1> QED
  BY <1>1, PromisesInvariant, PTL

(* A reaction is in one place only, being attached, waiting, queued or      *)
(* done: promise_then, promise_fulfill, promise_reject and the drain never  *)
(* run one twice.                                                          *)
THEOREM NoReactionRunsTwice == Spec => []NoReactionTwice
<1>1. Inv => NoReactionTwice
  <2> SUFFICES ASSUME Inv
               PROVE  NoReactionTwice
    OBVIOUS
  <2>1. /\ Numbered(Core, attach, ops, ran) /\ Places(Core, attach) /\ Core.micro = micro
    BY CoreFields DEF Inv, Good, Structure
  <2>2. \A r \in Live(Core, attach) : r.id \notin ran
    BY <2>1 DEF Numbered
  <2>3. \A r, q \in Live(Core, attach) : r.id = q.id => r = q
    BY <2>1 DEF Numbered
  <2>4. /\ WaitSet(Core) \cap QueueSet(Core) = {}
        /\ CallSet(attach) \cap (WaitSet(Core) \cup QueueSet(Core)) = {}
    BY <2>1 DEF Places
  <2>5. /\ \A r \in Waiting \cup Queued \cup Attaching : r.id \notin ran
        /\ \A r \in Waiting, s \in Queued \cup Attaching : r.id # s.id
        /\ \A r \in Queued, s \in Attaching : r.id # s.id
    BY <2>2, <2>3, <2>4, SetsAre
  <2>6. \A i, j \in DOMAIN micro : micro[i].reaction.id = micro[j].reaction.id => i = j
    <3>1. \A i \in 1..Len(micro) : micro[i].reaction \in Live(Core, attach)
      BY <2>1 DEF Live, QueueSet, ReactionsOf
    <3>2. Distinct(micro)
      BY <2>1 DEF Places
    <3> QED
      BY <2>3, <3>1, <3>2, SetsAre DEF Distinct
  <2> QED
    BY <2>5, <2>6 DEF NoReactionTwice
<1> QED
  BY <1>1, PromisesInvariant, PTL

(* Reactions attached to one promise run in the order they were attached,   *)
(* unless a report of that promise was taken back (promise_then).          *)
THEOREM ReactionsKeepOrder == Spec => []ReactionsInOrder
<1>1. Inv => ReactionsInOrder
  <2> SUFFICES ASSUME Inv
               PROVE  ReactionsInOrder
    OBVIOUS
  <2>1. /\ QueueOrder(Core) /\ Core.micro = micro /\ Core.told = told
        /\ DOMAIN micro = 1..Len(micro)
    BY CoreFields, SetsAre DEF Inv, Good, Ordered
  <2>2. \A p : Recalled(Core, p) <=> FALSE \in {told[p][n] : n \in DOMAIN told[p]}
    BY <2>1, Zenon DEF Recalled, Of
  <2>3. ASSUME NEW i \in DOMAIN micro, NEW j \in DOMAIN micro, i < j,
               micro[i].reaction.on = micro[j].reaction.on,
               ~Recalled(Core, micro[i].reaction.on),
               micro[i].reaction.kind = "user", micro[j].reaction.kind = "user"
        PROVE  micro[i].reaction.id < micro[j].reaction.id
    BY <2>1, <2>3 DEF QueueOrder
  <2> QED
    BY <2>2, <2>3, Zenon DEF ReactionsInOrder
<1> QED
  BY <1>1, PromisesInvariant, PTL

(* Promise.all counts exactly the entries whose reaction has not run        *)
(* (promise_all, promise_all_void).                                        *)
THEOREM AllCounts == Spec => []AllCountsEntries
<1>1. Inv => AllCountsEntries
  <2> SUFFICES ASSUME Inv
               PROVE  AllCountsEntries
    OBVIOUS
  <2>1. Counts(Live(Core, attach), combined) /\ Waiting \cup Queued \cup Attaching = Live(Core, attach)
    BY SetsAre DEF Inv
  <2>2. Created \subseteq Ids
    BY CoreFields DEF Ids
  <2> QED
    BY <2>1, <2>2 DEF Counts, AllCountsEntries, Pending
<1> QED
  BY <1>1, PromisesInvariant, PTL

(* When a macrotask starts, every rejection that nobody has looked at has   *)
(* been reported, exactly once (promise_reject and its check).             *)
THEOREM RejectionsAreReported == Spec => []RejectionsReported
<1>1. Inv => RejectionsReported
  <2> SUFFICES ASSUME Inv, Quiescent, NEW p \in Created, promises[p].state = "rejected", p \notin seen
               PROVE  told[p] = <<TRUE>>
    BY DEF RejectionsReported
  <2>1. /\ Reports(Core, seen) /\ Core.promises = promises /\ Core.told = told
        /\ Core.checks = checks /\ Created = 1..Len(promises)
    BY CoreFields DEF Inv, Good
  <2>2. Of(Core.checks) = {}
    BY <2>1 DEF Quiescent, Of
  <2> QED
    BY <2>1, <2>2 DEF Reports
<1> QED
  BY <1>1, PromisesInvariant, PTL

(* Neither promise_fulfill nor promise_reject reports anything.            *)
LEMMA SettleToldSame ==
  ASSUME NEW s \in Cores, NEW p, NEW o
  PROVE  Settle(s, p, o).told = s.told
<1> DEFINE x == [s.promises EXCEPT ![p] = [s.promises[p] EXCEPT !.state = o, !.reactions = <<>>]]
           y == s.micro \o Jobs(s.promises[p].reactions, o)
           z == IF o = "rejected" THEN Append(s.checks, p) ELSE s.checks
<1>1. \/ Settle(s, p, o) = s
      \/ Settle(s, p, o) = [s EXCEPT !.promises = x, !.micro = y, !.checks = z]
  BY DEF Settle
<1> HIDE DEF x, y, z
<1> QED
  BY <1>1 DEF Cores

(* A step reports a promise as unhandled only if nobody has looked at it.  *)
LEMMA ToldStep ==
  ASSUME Inv, Next, NEW p \in Created
  PROVE  told'[p] = told[p] \/ told'[p] = Append(told[p], FALSE) \/ p \notin seen
<1>1. /\ Core.promises = promises /\ Core.micro = micro /\ Core.checks = checks
      /\ Core.told = told /\ Created = 1..Len(promises) /\ Core \in Cores
      /\ Len(promises) \in Nat /\ Len(told) = Len(promises) /\ ops \in Nat
      /\ Good(Core, attach, ops, ran, seen)
  BY CoreFields DEF Inv
<1>2. told \in Seq(Seq(BOOLEAN)) /\ checks \in Seq(Nat)
  BY <1>1 DEF Cores
<1>3. ASSUME told' = Append(told, <<>>)
      PROVE  told'[p] = told[p]
  <2> DEFINE e == <<>>
  <2>1. e \in Seq(BOOLEAN) /\ told' = Append(told, e)
    BY <1>3
  <2> HIDE DEF e
  <2>2. \A i \in 1..Len(told) : Append(told, e)[i] = told[i]
    BY <1>2, <2>1, AppendProperties
  <2> QED
    BY <1>1, <2>1, <2>2
<1>4. Add(Core).told = Append(told, <<>>)
  <2> DEFINE x == Append(promises, Fresh)
             y == Append(told, <<>>)
  <2>1. Add(Core) = [Core EXCEPT !.promises = x, !.told = y]
    BY <1>1 DEF Add
  <2> HIDE DEF x, y
  <2>2. Add(Core).told = y
    BY <2>1 DEF Core
  <2> QED
    BY <2>2 DEF y
<1>5. CASE PromiseNew
  <2>1. told' = Append(told, <<>>)
    <3> DEFINE x == [Add(Core).promises EXCEPT ![NewId].own = TRUE]
    <3>1. Become([Add(Core) EXCEPT !.promises = x])
      BY <1>5 DEF PromiseNew
    <3> HIDE DEF x
    <3>2. told' = Add(Core).told
      BY <3>1 DEF Become, Add, Core
    <3> QED
      BY <1>4, <3>2
  <2> QED
    BY <1>3, <2>1
<1>6. ASSUME NEW c \in Created, PromiseView(c)
      PROVE  told'[p] = told[p]
  <2>1. told' = Append(told, <<>>)
    <3> DEFINE d == [Add(Core).promises[NewId] EXCEPT !.view = Behind(c), !.handled = TRUE]
               x == [Add(Core).promises EXCEPT ![NewId] = d]
    <3>1. Become([Add(Core) EXCEPT !.promises = x])
      BY <1>6 DEF PromiseView
    <3> HIDE DEF x
    <3>2. told' = Add(Core).told
      BY <3>1 DEF Become, Add, Core
    <3> QED
      BY <1>4, <3>2
  <2> QED
    BY <1>3, <2>1
<1>7. ASSUME NEW c \in Created, NEW q \in Created, NEW k,
             PromiseMap(c, k) \/ Combine(c, q, k)
      PROVE  told'[p] = told[p]
  BY <1>3, <1>4, <1>7 DEF PromiseMap, Combine, Become
<1>8. ASSUME NEW c \in Created, NEW o \in Outcomes, PromiseSettle(c, o)
      PROVE  told'[p] = told[p]
  BY <1>1, <1>8, SettleToldSame DEF PromiseSettle, Become
<1>9. ASSUME NEW c \in Created, PromiseThen(c)
      PROVE  told'[p] = told[p]
  BY <1>9 DEF PromiseThen, core
<1>10. CASE SetListener
  BY <1>10 DEF SetListener, core
<1>11. ASSUME NEW c, Plain(Core, c)
       PROVE  \/ Observe(Core, c).told[p] = told[p]
              \/ Observe(Core, c).told[p] = Append(told[p], FALSE)
  <2>1. Observed(Core, Observe(Core, c), c)
    BY <1>1, <1>11, ObserveGood
  <2> QED
    BY <1>1, <2>1 DEF Observed
<1>12. ASSUME NEW c \in Created, PromisePoll(c)
       PROVE  told'[p] = told[p] \/ told'[p] = Append(told[p], FALSE)
  <2>1. told' = Observe(Core, Behind(c)).told
    BY <1>12 DEF PromisePoll, Become
  <2> QED
    BY <1>11, <2>1, BehindPlain
<1>13. CASE AttachOne
  <2> DEFINE r == attach[1].reaction
             s == Observe(Core, r.on)
  <2>1. attach # <<>> /\ (told' = s.told \/ told' = Then(s, r).told)
    BY <1>13 DEF AttachOne, Become
  <2>2. Plain(Core, r.on)
    BY <1>1, <2>1, FirstCall
  <2>3. Good(s, attach, ops, ran, seen \cup {r.on})
    BY <1>1, <2>2, ObserveGood
  <2>4. Then(s, r).told = s.told
    BY <1>1, <2>1, <2>3, ThenGood
  <2> QED
    BY <1>11, <2>1, <2>2, <2>4
<1>14. CASE ListenerReturn
  <2>1. attach # <<>> /\ told' = Then(Core, attach[1].reaction).told
    BY <1>14 DEF ListenerReturn, Become
  <2> QED
    BY <1>1, <2>1, ThenGood
<1>15. Popped.told = told /\ (micro # <<>> => Popped \in Cores)
  <2>1. Popped.told = told
    BY DEF Popped, Core
  <2>2. micro # <<>> => Popped \in Cores
    BY Pops DEF Good, Structure, Typed
  <2> QED
    BY <2>1, <2>2
<1>16. CASE Return \/ LoopControl \/ Terminated
  BY <1>16 DEF Return, LoopControl, Terminated, core, vars
<1>17. CASE RunUser \/ RunMap \/ RunFlatMap \/ RunForward \/ RunAll
  <2>1. micro # <<>> /\ (Become(Popped) \/ \E c, o : Become(Settle(Popped, c, o)))
    BY <1>17 DEF RunUser, RunMap, RunFlatMap, RunForward, RunAll, Running
  <2> QED
    BY <1>15, <2>1, SettleToldSame DEF Become
<1>18. CASE RunCheck
  <2> DEFINE h == Head(checks)
  <2>1. CASE ~Unhandled(h)
    BY <1>18, <2>1 DEF RunCheck
  <2>2. CASE Unhandled(h)
    <3> DEFINE x == [promises EXCEPT ![h] = [promises[h] EXCEPT !.reported = TRUE,
                                                   !.handled = promises[h].handled \/ handler]]
               y == [told EXCEPT ![h] = Append(told[h], TRUE)]
               z == Tail(checks)
    <3>1. Become([Core EXCEPT !.checks = z, !.promises = x, !.told = y])
      BY <1>1, <1>18, <2>2 DEF RunCheck
    <3> HIDE DEF x, y, z
    <3>2. told' = y
      BY <3>1 DEF Become, Core
    <3>3. h \in seen => promises[h].handled
      <4>1. Reports(Core, seen) /\ seen \subseteq Created
        BY <1>1 DEF Inv, Good, PlainSet
      <4> QED
        BY <1>1, <4>1 DEF Reports
    <3>4. h \notin seen
      BY <2>2, <3>3 DEF Unhandled
    <3>5. CASE p # h
      BY <1>1, <1>2, <3>2, <3>5 DEF y
    <3> QED
      BY <3>4, <3>5
  <2> QED
    BY <2>1, <2>2
<1>19. CASE ScriptCall
  BY <1>5, <1>6, <1>7, <1>8, <1>9, <1>10, <1>12, <1>19 DEF ScriptCall
<1>20. CASE LoopStep
  BY <1>13, <1>14, <1>16, <1>17, <1>18, <1>20 DEF LoopStep
<1> QED
  BY <1>16, <1>19, <1>20 DEF Next

(* No rejection is reported that somebody attached to, or polled, before    *)
(* the check ran (promise_reject's closure).                               *)
THEOREM NoFalseReports == Spec => NoFalseReport
<1> DEFINE A == \A p \in Created :
                  Len(told'[p]) > Len(told[p]) /\ told'[p][Len(told'[p])] => p \notin seen
<1>1. Inv /\ [Next]_vars => [A]_vars
  <2> SUFFICES ASSUME Inv, Next
               PROVE  A
    OBVIOUS
  <2> SUFFICES ASSUME NEW p \in Created, Len(told'[p]) > Len(told[p]), told'[p][Len(told'[p])]
               PROVE  p \notin seen
    OBVIOUS
  <2>1. told[p] \in Seq(BOOLEAN) /\ Len(told[p]) \in Nat
    BY CoreFields DEF Cores
  <2>2. told'[p] # told[p]
    BY <2>1
  <2>3. told'[p] # Append(told[p], FALSE)
    <3> DEFINE u == told[p]
               e == FALSE
               w == Append(u, e)
    <3>1. u \in Seq(BOOLEAN) /\ e \in BOOLEAN
      BY <2>1
    <3>2. w[Len(w)] = e
      <4> HIDE DEF u, e
      <4>1. Len(w) = Len(u) + 1 /\ w[Len(u) + 1] = e
        BY <3>1, AppendProperties
      <4> QED
        BY <4>1
    <3> QED
      BY <3>2
  <2> QED
    BY <2>2, <2>3, ToldStep
<1> QED
  BY <1>1, PromisesInvariant, PTL DEF Spec, NoFalseReport

===============================================================================
