----------------------- MODULE ScheduledDispatchProofs -----------------------
(***************************************************************************)
(* Proofs about ScheduledDispatch: its types, that occurrences do not pile *)
(* up, that they are saved before they are handed over, and that none runs *)
(* twice.                                                                  *)
(***************************************************************************)
EXTENDS ScheduledDispatch, FiniteSetTheorems, WellFoundedInduction, TLAPS

Unset(p, o) == p[o] = "none"

Single(p) ==
  \A s \in Schedules, d, e \in 1 .. MaxTime :
    ~Unset(p, <<s, d>>) /\ ~Unset(p, <<s, e>>) => d = e

SingleEverywhere ==
  /\ Single(pending) /\ Single(file.pending)
  /\ \A i \in DOMAIN writes : Single(writes[i].saves.pending)

------------------------------------------------------------------------------
(* The chain of writes. *)

Starts(w) == w.kind \in {"init", "start"}   \* init() delivers when it has landed
Hands(w) == w.kind \in {"tick", "runNow"}   \* its occurrences are delivered then

\* One init() at a time; what is handed over is in the write that does it; and
\* what init() will find pending is in its write, or in one behind it.
NoStart(chain) == \A i \in DOMAIN chain : ~Starts(chain[i])
ChainOK(chain, p) ==
  /\ \A i, j \in DOMAIN chain : Starts(chain[i]) /\ Starts(chain[j]) => i = j
  /\ \A i \in DOMAIN chain : Hands(chain[i]) =>
       \A o \in chain[i].occs : ~Unset(chain[i].saves.pending, o)
  /\ \A i \in DOMAIN chain : Starts(chain[i]) =>
       \A o \in Occurrences : ~Unset(p, o) =>
         \/ ~Unset(chain[i].saves.pending, o)
         \/ \E j \in DOMAIN chain : i < j /\ o \in chain[j].occs

------------------------------------------------------------------------------
(* Names. An occurrence is past when its schedule will not name it again,  *)
(* unless it is completed and made active once more.                       *)

Moment == [now |-> now, edits |-> edits, fresh |-> fresh]

Past(o, schedules, m) ==
  LET r == schedules[o[1]]
  IN /\ o[1] \notin m.fresh
     /\ o[2] < 1 => 0 - o[2] < m.edits
     /\ o[2] >= 1 =>
          /\ o[2] <= m.now
          /\ r # None => IF r.plan.trigger = "once" THEN r.status = "completed"
                                                    ELSE r.next # None => o[2] < r.next

PastFrom(o, i, chain, schedules, m) ==
  /\ Past(o, schedules, m)
  /\ \A j \in DOMAIN chain : i <= j => Past(o, chain[j].saves.sched, m)

InChain(o, chain) == \E i \in DOMAIN chain : Hands(chain[i]) /\ o \in chain[i].occs

\* F: the occurrences that are spoken of; W: those the dispatcher was given.
Names(F, W, chain, f, schedules, p, m) ==
  \A o \in F :
    /\ ~Unset(p, o) \/ InChain(o, chain) => Past(o, schedules, m)
    /\ ~Unset(f.pending, o) \/ o \in W =>
         Past(o, f.sched, m) /\ PastFrom(o, 1, chain, schedules, m)
    /\ \A i \in DOMAIN chain :
         ~Unset(chain[i].saves.pending, o) => PastFrom(o, i, chain, schedules, m)

\* A schedule that was not created yet is in no state.
Made(schedules) == \A s \in fresh : schedules[s] = None
MadeOK ==
  /\ Made(sched) /\ Made(file.sched)
  /\ \A i \in DOMAIN writes : Made(writes[i].saves.sched)

------------------------------------------------------------------------------
(* Places: an occurrence waits in one place for its run, and when it has   *)
(* started it waits in none.                                               *)

Known(q, fl, st) == ToSet(q) \cup {o \in Occurrences : fl[o] # "none"} \cup st

Held(F, W, p, d) == \A o \in F : o \in W /\ ~Unset(p, o) => o \in d

Distinct(chain, o) ==
  \A i, j \in DOMAIN chain :
    Hands(chain[i]) /\ Hands(chain[j]) /\ o \in chain[i].occs /\ o \in chain[j].occs => i = j
OnceIn(q, o) == \A i, j \in DOMAIN q : q[i] = o /\ q[j] = o => i = j

Awaited(F, W, chain) == \A o \in F : Distinct(chain, o) /\ (InChain(o, chain) => o \notin W)

Placed(F, q, fl, st) ==
  \A o \in F :
    /\ OnceIn(q, o)
    /\ o \in ToSet(q) => fl[o] = "none" /\ o \notin st
    /\ fl[o] = "preparing" => o \notin st

Fixed == Occurrences \ (early \cup renewed)
Given == Known(queue, flow, started)

Down == ~up => /\ writes = <<>> /\ queue = <<>> /\ pending = Nothing
               /\ flow = Nothing /\ delivering = {}

IInv ==
  /\ TypeOK /\ Down
  /\ SingleEverywhere
  /\ ChainOK(writes, pending)
  /\ MadeOK
  /\ Names(Fixed, Given, writes, file, sched, pending, Moment)
  /\ Held(Fixed, Given, pending, delivering)
  /\ Awaited(Fixed, Given, writes)
  /\ Placed(Fixed, queue, flow, started)

------------------------------------------------------------------------------
(***************************************************************************)
(* Sets, sequences and the chain.                                          *)
(***************************************************************************)

\* Min of a nonempty set of positive numbers up to N is one of them.
LEMMA Least ==
  ASSUME NEW N \in Nat, NEW S, S \subseteq 1 .. N, S # {}
  PROVE  Min(S) \in S
<1> DEFINE Up(n) == 1 .. n
           T == {Up(n) : n \in S}
<1>1. IsFiniteSet(1 .. N)
  BY FS_Interval
<1>2. IsWellFoundedOn(StrictSubsetOrdering(1 .. N), FiniteSubsetsOf(1 .. N))
  BY FS_StrictSubsetOrderingWellFounded
<1>3. T \subseteq FiniteSubsetsOf(1 .. N) /\ T # {}
  <2>1. FiniteSubsetsOf(1 .. N) = SUBSET (1 .. N)
    BY <1>1, FS_FiniteSubsetsOfFinite
  <2>2. \A n \in S : Up(n) \subseteq 1 .. N
    OBVIOUS
  <2> HIDE DEF Up
  <2>3. T \subseteq SUBSET (1 .. N)
    BY <2>2
  <2>4. PICK n : n \in S
    OBVIOUS
  <2>5. Up(n) \in T
    BY <2>4
  <2> QED BY <2>1, <2>3, <2>5
<1>4. \E x \in T : \A y \in T : ~(<<y, x>> \in StrictSubsetOrdering(1 .. N))
  <2> HIDE DEF T
  <2> QED BY <1>2, <1>3, WFMin
<1>5. PICK n \in S : \A k \in S : ~(<<Up(k), Up(n)>> \in StrictSubsetOrdering(1 .. N))
  BY <1>4
<1>6. \A k \in S : n =< k
  <2> SUFFICES ASSUME NEW k \in S, k < n PROVE FALSE
    OBVIOUS
  <2>1. Up(k) \subseteq Up(n) /\ n \in Up(n) /\ n \notin Up(k)
    OBVIOUS
  <2>2. Up(k) \subseteq 1 .. N /\ Up(n) \subseteq 1 .. N
    OBVIOUS
  <2> HIDE DEF Up
  <2> QED BY <1>5, <2>1, <2>2 DEF StrictSubsetOrdering
<1> QED BY <1>6 DEF Min

\* SetToSeq lists a finite set, each element once.
LEMMA Listed ==
  ASSUME NEW S, IsFiniteSet(S)
  PROVE  /\ SetToSeq(S) \in Seq(S)
         /\ \A i, j \in 1 .. Len(SetToSeq(S)) : SetToSeq(S)[i] = SetToSeq(S)[j] => i = j
<1>1. Cardinality(S) \in Nat /\ \E f \in [1 .. Cardinality(S) -> S] : IsInjective(f)
  <2>1. Cardinality(S) \in Nat /\ ExistsBijection(1 .. Cardinality(S), S)
    BY FS_CardinalityType
  <2>2. PICK f : f \in Bijection(1 .. Cardinality(S), S)
    BY <2>1 DEF ExistsBijection
  <2>3. f \in Injection(1 .. Cardinality(S), S)
    BY <2>2 DEF Bijection
  <2>4. f \in [1 .. Cardinality(S) -> S] /\ IsInjective(f)
    BY <2>3 DEF Injection
  <2> QED BY <2>1, <2>4
<1>2. SetToSeq(S) \in [1 .. Cardinality(S) -> S] /\ IsInjective(SetToSeq(S))
  BY <1>1 DEF SetToSeq
<1>3. SetToSeq(S) \in Seq(S)
  BY <1>1, <1>2
<1> QED BY <1>1, <1>2, <1>3 DEF IsInjective

\* The chain after its first write.
LEMMA TailFacts ==
  ASSUME NEW c \in Seq(Write), c # <<>>
  PROVE  /\ Tail(c) \in Seq(Write) /\ Head(c) = c[1] /\ Head(c) \in Write
         /\ 1 \in DOMAIN c
         /\ DOMAIN c = 1 .. Len(c) /\ DOMAIN Tail(c) = 1 .. (Len(c) - 1) /\ Len(c) \in Nat
         /\ \A i \in DOMAIN Tail(c) : i + 1 \in DOMAIN c /\ Tail(c)[i] = c[i + 1]
         /\ \A i \in DOMAIN c : i # 1 => i - 1 \in DOMAIN Tail(c) /\ Tail(c)[i - 1] = c[i]
<1> DEFINE S == Write
<1>1. c \in Seq(S)
  OBVIOUS
<1> HIDE DEF S
<1>2. /\ Tail(c) \in Seq(S) /\ Head(c) = c[1] /\ Head(c) \in S
      /\ 1 \in DOMAIN c
      /\ DOMAIN c = 1 .. Len(c) /\ DOMAIN Tail(c) = 1 .. (Len(c) - 1) /\ Len(c) \in Nat
      /\ \A i \in DOMAIN Tail(c) : i + 1 \in DOMAIN c /\ Tail(c)[i] = c[i + 1]
      /\ \A i \in DOMAIN c : i # 1 => i - 1 \in DOMAIN Tail(c) /\ Tail(c)[i - 1] = c[i]
  BY <1>1
<1> QED BY <1>2 DEF S

\* The chain with a write more.
LEMMA AppendFacts ==
  ASSUME NEW c \in Seq(Write), NEW w \in Write
  PROVE  /\ Append(c, w) \in Seq(Write)
         /\ Len(c) \in Nat /\ DOMAIN c = 1 .. Len(c) /\ DOMAIN Append(c, w) = 1 .. (Len(c) + 1)
         /\ \A i \in DOMAIN c : i \in DOMAIN Append(c, w) /\ Append(c, w)[i] = c[i]
         /\ Append(c, w)[Len(c) + 1] = w
         /\ \A i \in DOMAIN Append(c, w) : i \in DOMAIN c \/ i = Len(c) + 1
<1> DEFINE S == Write
<1>1. c \in Seq(S) /\ w \in S
  OBVIOUS
<1> HIDE DEF S
<1>2. /\ Append(c, w) \in Seq(S)
      /\ Len(c) \in Nat /\ DOMAIN c = 1 .. Len(c) /\ DOMAIN Append(c, w) = 1 .. (Len(c) + 1)
      /\ \A i \in DOMAIN c : i \in DOMAIN Append(c, w) /\ Append(c, w)[i] = c[i]
      /\ Append(c, w)[Len(c) + 1] = w
      /\ \A i \in DOMAIN Append(c, w) : i \in DOMAIN c \/ i = Len(c) + 1
  BY <1>1
<1> QED BY <1>2 DEF S

------------------------------------------------------------------------------
(***************************************************************************)
(* ChainOK, as writes land and are added.                                  *)
(***************************************************************************)

LEMMA ChainTail ==
  ASSUME NEW c \in Seq(Write), c # <<>>, NEW p, ChainOK(c, p)
  PROVE  ChainOK(Tail(c), p) /\ (Starts(Head(c)) => NoStart(Tail(c)))
<1> DEFINE t == Tail(c)
<1>1. /\ Head(c) = c[1] /\ 1 \in DOMAIN c
      /\ DOMAIN c = 1 .. Len(c) /\ DOMAIN t = 1 .. (Len(c) - 1) /\ Len(c) \in Nat
      /\ \A i \in DOMAIN t : i + 1 \in DOMAIN c /\ t[i] = c[i + 1]
      /\ \A i \in DOMAIN c : i # 1 => i - 1 \in DOMAIN t /\ t[i - 1] = c[i]
  BY TailFacts
<1> HIDE DEF t
<1>2. \A i, j \in DOMAIN t : Starts(t[i]) /\ Starts(t[j]) => i = j
  BY <1>1 DEF ChainOK
<1>3. \A i \in DOMAIN t : Hands(t[i]) => \A o \in t[i].occs : ~Unset(t[i].saves.pending, o)
  BY <1>1 DEF ChainOK
<1>4. ASSUME NEW i \in DOMAIN t, Starts(t[i]), NEW o \in Occurrences, ~Unset(p, o)
      PROVE  \/ ~Unset(t[i].saves.pending, o)
             \/ \E j \in DOMAIN t : i < j /\ o \in t[j].occs
  <2>1. \/ ~Unset(t[i].saves.pending, o)
        \/ \E j \in DOMAIN c : i + 1 < j /\ o \in c[j].occs
    BY <1>1, <1>4 DEF ChainOK
  <2>2. ASSUME NEW j \in DOMAIN c, i + 1 < j, o \in c[j].occs
        PROVE  j - 1 \in DOMAIN t /\ i < j - 1 /\ o \in t[j - 1].occs
    BY <1>1, <2>2
  <2> QED BY <2>1, <2>2
<1>5. Starts(Head(c)) => NoStart(t)
  BY <1>1 DEF ChainOK, NoStart
<1>6. ChainOK(t, p)
  BY <1>2, <1>3, <1>4 DEF ChainOK
<1> QED BY <1>5, <1>6 DEF t

LEMMA ChainFewer ==
  ASSUME NEW c, NEW p, NEW p2, ChainOK(c, p), \A o \in Occurrences : ~Unset(p2, o) => ~Unset(p, o)
  PROVE  ChainOK(c, p2)
BY DEF ChainOK

LEMMA ChainAppend ==
  ASSUME NEW c \in Seq(Write), NEW p, ChainOK(c, p),
         NEW w \in Write, NEW p2, w.saves.pending = p2,
         \A o \in Occurrences : ~Unset(p2, o) => ~Unset(p, o) \/ o \in w.occs \/ NoStart(c),
         Starts(w) => NoStart(c),
         Hands(w) => \A o \in w.occs : ~Unset(p2, o)
  PROVE  ChainOK(Append(c, w), p2)
<1> DEFINE t == Append(c, w)
<1>1. /\ Len(c) \in Nat /\ DOMAIN c = 1 .. Len(c) /\ DOMAIN t = 1 .. (Len(c) + 1)
      /\ \A i \in DOMAIN c : i \in DOMAIN t /\ t[i] = c[i]
      /\ t[Len(c) + 1] = w
      /\ \A i \in DOMAIN t : i \in DOMAIN c \/ i = Len(c) + 1
  BY AppendFacts
<1> HIDE DEF t
<1>2. \A i, j \in DOMAIN t : Starts(t[i]) /\ Starts(t[j]) => i = j
  BY <1>1 DEF ChainOK, NoStart
<1>3. \A i \in DOMAIN t : Hands(t[i]) => \A o \in t[i].occs : ~Unset(t[i].saves.pending, o)
  BY <1>1 DEF ChainOK
<1>4. ASSUME NEW i \in DOMAIN t, Starts(t[i]), NEW o \in Occurrences, ~Unset(p2, o)
      PROVE  \/ ~Unset(t[i].saves.pending, o)
             \/ \E j \in DOMAIN t : i < j /\ o \in t[j].occs
  <2>1. CASE i = Len(c) + 1
    BY <1>1, <1>4, <2>1
  <2>2. CASE i \in DOMAIN c /\ o \in w.occs
    <3>1. Len(c) + 1 \in DOMAIN t /\ i < Len(c) + 1 /\ o \in t[Len(c) + 1].occs
      BY <1>1, <2>2
    <3> QED BY <3>1
  <2>3. CASE i \in DOMAIN c /\ o \notin w.occs
    <3>1. Starts(c[i]) /\ ~NoStart(c)
      BY <1>1, <1>4, <2>3 DEF NoStart
    <3>2. ~Unset(p, o)
      BY <1>4, <2>3, <3>1
    <3>3. \/ ~Unset(c[i].saves.pending, o)
          \/ \E j \in DOMAIN c : i < j /\ o \in c[j].occs
      BY <2>3, <3>1, <3>2 DEF ChainOK
    <3> QED BY <1>1, <2>3, <3>3
  <2> QED BY <1>1, <1>4, <2>1, <2>2, <2>3
<1>5. ChainOK(t, p2)
  BY <1>2, <1>3, <1>4 DEF ChainOK
<1> QED BY <1>5 DEF t

------------------------------------------------------------------------------
(***************************************************************************)
(* Names, as writes land and are added, and as time passes.                *)
(***************************************************************************)

\* The first write lands: it becomes the file, or it is lost.
LEMMA NamesTail ==
  ASSUME NEW F, NEW W, NEW c \in Seq(Write), c # <<>>, NEW f, NEW s, NEW p, NEW m,
         Names(F, W, c, f, s, p, m)
  PROVE  /\ Names(F, W, Tail(c), Head(c).saves, s, p, m)
         /\ Names(F, W, Tail(c), f, s, p, m)
<1> DEFINE t == Tail(c)
<1>1. /\ Head(c) = c[1] /\ 1 \in DOMAIN c
      /\ DOMAIN c = 1 .. Len(c) /\ DOMAIN t = 1 .. (Len(c) - 1) /\ Len(c) \in Nat
      /\ \A i \in DOMAIN t : i + 1 \in DOMAIN c /\ t[i] = c[i + 1]
  BY TailFacts
<1> HIDE DEF t
<1>2. ASSUME NEW o \in F
      PROVE  /\ ~Unset(p, o) \/ InChain(o, t) => Past(o, s, m)
             /\ \A i \in DOMAIN t : ~Unset(t[i].saves.pending, o) => PastFrom(o, i, t, s, m)
             /\ ~Unset(f.pending, o) \/ o \in W => Past(o, f.sched, m) /\ PastFrom(o, 1, t, s, m)
             /\ ~Unset(Head(c).saves.pending, o) \/ o \in W =>
                  Past(o, Head(c).saves.sched, m) /\ PastFrom(o, 1, t, s, m)
  <2>1. ASSUME NEW i \in DOMAIN c, PastFrom(o, i, c, s, m)
        PROVE  \A k \in DOMAIN t : i <= k + 1 => PastFrom(o, k, t, s, m)
    BY <1>1, <2>1 DEF PastFrom
  <2>2. PastFrom(o, 1, c, s, m) => PastFrom(o, 1, t, s, m) /\ Past(o, Head(c).saves.sched, m)
    BY <1>1 DEF PastFrom
  <2>3. ~Unset(p, o) \/ InChain(o, t) => Past(o, s, m)
    BY <1>1 DEF Names, InChain
  <2>4. \A i \in DOMAIN t : ~Unset(t[i].saves.pending, o) => PastFrom(o, i, t, s, m)
    <3> TAKE i \in DOMAIN t
    <3> HAVE ~Unset(t[i].saves.pending, o)
    <3>1. i + 1 \in DOMAIN c /\ PastFrom(o, i + 1, c, s, m)
      BY <1>1 DEF Names
    <3> QED BY <1>1, <2>1, <3>1
  <2>5. ~Unset(f.pending, o) \/ o \in W => Past(o, f.sched, m) /\ PastFrom(o, 1, c, s, m)
    BY DEF Names
  <2>6. ~Unset(Head(c).saves.pending, o) => PastFrom(o, 1, c, s, m)
    BY <1>1 DEF Names
  <2> QED BY <2>2, <2>3, <2>4, <2>5, <2>6
<1>3. Names(F, W, t, Head(c).saves, s, p, m) /\ Names(F, W, t, f, s, p, m)
  BY <1>2 DEF Names
<1> QED BY <1>3 DEF t

\* What is in memory is added to the chain.
LEMMA NamesAppend ==
  ASSUME NEW F, NEW W, NEW c \in Seq(Write), NEW f, NEW s, NEW p, NEW m,
         Names(F, W, c, f, s, p, m),
         NEW w \in Write, w.saves = [sched |-> s, pending |-> p],
         Hands(w) => \A o \in w.occs : ~Unset(p, o)
  PROVE  Names(F, W, Append(c, w), f, s, p, m)
<1> DEFINE t == Append(c, w)
<1>1. /\ Len(c) \in Nat /\ DOMAIN c = 1 .. Len(c) /\ DOMAIN t = 1 .. (Len(c) + 1)
      /\ \A i \in DOMAIN c : i \in DOMAIN t /\ t[i] = c[i]
      /\ t[Len(c) + 1] = w
      /\ \A i \in DOMAIN t : i \in DOMAIN c \/ i = Len(c) + 1
  BY AppendFacts
<1>2. w.saves.sched = s /\ w.saves.pending = p
  OBVIOUS
<1> HIDE DEF t
<1>3. ASSUME NEW o \in F
      PROVE  /\ ~Unset(p, o) \/ InChain(o, t) => Past(o, s, m)
             /\ ~Unset(f.pending, o) \/ o \in W => Past(o, f.sched, m) /\ PastFrom(o, 1, t, s, m)
             /\ \A i \in DOMAIN t : ~Unset(t[i].saves.pending, o) => PastFrom(o, i, t, s, m)
  <2>1. ASSUME NEW i \in Int, PastFrom(o, i, c, s, m) PROVE PastFrom(o, i, t, s, m)
    BY <1>1, <1>2, <2>1 DEF PastFrom
  <2>2. InChain(o, t) => InChain(o, c) \/ ~Unset(p, o)
    BY <1>1 DEF InChain
  <2>3. ~Unset(p, o) \/ InChain(o, t) => Past(o, s, m)
    BY <2>2 DEF Names
  <2>4. ~Unset(f.pending, o) \/ o \in W => Past(o, f.sched, m) /\ PastFrom(o, 1, t, s, m)
    BY <2>1 DEF Names
  <2>5. ASSUME NEW i \in DOMAIN t, ~Unset(t[i].saves.pending, o)
        PROVE  PastFrom(o, i, t, s, m)
    <3>1. CASE i \in DOMAIN c
      BY <1>1, <2>1, <2>5, <3>1 DEF Names
    <3>2. CASE i = Len(c) + 1
      <4>1. Past(o, s, m)
        BY <1>1, <1>2, <2>3, <2>5, <3>2
      <4>2. \A j \in DOMAIN t : i <= j => t[j] = w
        BY <1>1, <3>2
      <4> QED BY <1>2, <4>1, <4>2 DEF PastFrom
    <3> QED BY <1>1, <3>1, <3>2
  <2> QED BY <2>3, <2>4, <2>5
<1>4. Names(F, W, t, f, s, p, m)
  BY <1>3 DEF Names
<1> QED BY <1>4 DEF t

\* The dispatcher is given what is in the file, and gives up the rest.
LEMMA NamesGiven ==
  ASSUME NEW F, NEW W, NEW c, NEW f, NEW s, NEW p, NEW m, Names(F, W, c, f, s, p, m),
         NEW W2, \A o \in F : o \in W2 => o \in W \/ ~Unset(f.pending, o)
  PROVE  Names(F, W2, c, f, s, p, m)
BY DEF Names

\* Later, schedules and pending occurrences have changed; past names stay past.
LEMMA NamesMove ==
  ASSUME NEW F, NEW W, NEW c, NEW f, NEW s, NEW p, NEW m, Names(F, W, c, f, s, p, m),
         F \subseteq Occurrences, NEW F2, F2 \subseteq F, NEW m2,
         m.now \in Int, m2.now \in Int, m.now <= m2.now,
         m.edits \in Int, m2.edits \in Int, m.edits <= m2.edits, m2.fresh \subseteq m.fresh,
         NEW s2, NEW p2,
         \A o \in F2 : Past(o, s, m) => Past(o, s2, m2),
         \A o \in F2 : ~Unset(p2, o) => ~Unset(p, o) \/ Past(o, s2, m2)
  PROVE  Names(F2, W, c, f, s2, p2, m2)
<1>1. \A o \in F : \A sch : Past(o, sch, m) => Past(o, sch, m2)
  <2> TAKE o \in F
  <2> TAKE sch
  <2>1. o[2] \in Int
    BY ScheduleAssumption DEF Occurrences
  <2> QED BY <2>1 DEF Past
<1> QED BY <1>1 DEF Names, PastFrom

------------------------------------------------------------------------------
(***************************************************************************)
(* Places, as writes land and are added.                                   *)
(***************************************************************************)

LEMMA InTail ==
  ASSUME NEW c \in Seq(Write), c # <<>>, NEW o
  PROVE  /\ InChain(o, Tail(c)) => InChain(o, c)
         /\ Distinct(c, o) => Distinct(Tail(c), o)
         /\ Distinct(c, o) /\ Hands(Head(c)) /\ o \in Head(c).occs =>
              InChain(o, c) /\ ~InChain(o, Tail(c))
<1> DEFINE t == Tail(c)
<1>1. /\ Head(c) = c[1] /\ 1 \in DOMAIN c
      /\ DOMAIN c = 1 .. Len(c) /\ DOMAIN t = 1 .. (Len(c) - 1) /\ Len(c) \in Nat
      /\ \A i \in DOMAIN t : i + 1 \in DOMAIN c /\ t[i] = c[i + 1]
  BY TailFacts
<1> HIDE DEF t
<1>2. InChain(o, t) => InChain(o, c)
  BY <1>1 DEF InChain
<1>3. Distinct(c, o) => Distinct(t, o)
  BY <1>1 DEF Distinct
<1>4. Distinct(c, o) /\ Hands(Head(c)) /\ o \in Head(c).occs => InChain(o, c) /\ ~InChain(o, t)
  BY <1>1 DEF InChain, Distinct
<1> QED BY <1>2, <1>3, <1>4 DEF t

LEMMA InAppend ==
  ASSUME NEW c \in Seq(Write), NEW w \in Write, NEW o
  PROVE  /\ InChain(o, Append(c, w)) => InChain(o, c) \/ (Hands(w) /\ o \in w.occs)
         /\ Distinct(c, o) /\ ~(InChain(o, c) /\ Hands(w) /\ o \in w.occs) =>
              Distinct(Append(c, w), o)
<1> DEFINE t == Append(c, w)
<1>1. /\ Len(c) \in Nat /\ DOMAIN c = 1 .. Len(c) /\ DOMAIN t = 1 .. (Len(c) + 1)
      /\ \A i \in DOMAIN c : i \in DOMAIN t /\ t[i] = c[i]
      /\ t[Len(c) + 1] = w
      /\ \A i \in DOMAIN t : i \in DOMAIN c \/ i = Len(c) + 1
  BY AppendFacts
<1> HIDE DEF t
<1>2. InChain(o, t) => InChain(o, c) \/ (Hands(w) /\ o \in w.occs)
  BY <1>1 DEF InChain
<1>3. Distinct(c, o) /\ ~(InChain(o, c) /\ Hands(w) /\ o \in w.occs) => Distinct(t, o)
  BY <1>1 DEF InChain, Distinct
<1> QED BY <1>2, <1>3 DEF t

LEMMA AwaitedTail ==
  ASSUME NEW F, NEW W, NEW c \in Seq(Write), c # <<>>, Awaited(F, W, c)
  PROVE  Awaited(F, W, Tail(c))
BY InTail DEF Awaited

\* The new write hands over nothing, or occurrences that wait nowhere else.
LEMMA AwaitedAppend ==
  ASSUME NEW F, NEW W, NEW c \in Seq(Write), Awaited(F, W, c), NEW w \in Write,
         Hands(w) => \A o \in F : o \in w.occs => o \notin W /\ ~InChain(o, c)
  PROVE  Awaited(F, W, Append(c, w))
BY InAppend DEF Awaited

LEMMA AwaitedFewer ==
  ASSUME NEW F, NEW W, NEW c, Awaited(F, W, c), NEW F2, F2 \subseteq F, NEW W2,
         \A o \in F2 : o \in W2 => o \in W \/ ~InChain(o, c)
  PROVE  Awaited(F2, W2, c)
BY DEF Awaited

------------------------------------------------------------------------------
(***************************************************************************)
(* The types of what the operations compute.                               *)
(***************************************************************************)

Row == Schedule \cup {None}
Rows == [Schedules -> Row]
Marks == [Occurrences -> {"none", "queued", "running"}]

LEMMA SavedIs ==
  /\ \A f \in Saved : f.sched \in Rows /\ f.pending \in Marks
  /\ \A s \in Rows, p \in Marks : [sched |-> s, pending |-> p] \in Saved
BY DEF Saved, Rows, Row, Marks

LEMMA RowFacts ==
  ASSUME NEW r \in Row, r # None
  PROVE  /\ r \in Schedule /\ r.plan \in Plans /\ r.plan.trigger \in {"once", "cron"}
         /\ r.status \in {"active", "paused", "completed"}
         /\ r.status = "active" => r.next \in 1 .. MaxTime + 1
         /\ r.status # "active" => r.next = None
         /\ r.next # None => r.status = "active" /\ r.next \in 1 .. MaxTime + 1
BY ScheduleAssumption DEF Row, Schedule

LEMMA ActiveType ==
  ASSUME now \in 0 .. MaxTime, NEW plan \in Plans
  PROVE  /\ ActiveWith(plan) \in Schedule /\ ActiveWith(plan) # None
         /\ ActiveWith(plan).plan = plan /\ ActiveWith(plan).status = "active"
         /\ ActiveWith(plan).next = IF plan.trigger = "once" THEN 1 ELSE now + 1
<1>1. NextRun(plan) \in 1 .. MaxTime + 1 /\ NextRun(plan) # None
  BY ScheduleAssumption DEF NextRun
<1>2. ActiveWith(plan) \in Schedule
  BY <1>1 DEF ActiveWith, Schedule
<1> QED BY <1>2, ScheduleAssumption DEF ActiveWith, NextRun

LEMMA InactiveType ==
  ASSUME NEW s \in Schedules, sched \in Rows, sched[s] # None,
         NEW status \in {"paused", "completed"}
  PROVE  /\ Inactive(s, status) \in Schedule /\ Inactive(s, status) # None
         /\ Inactive(s, status).plan = sched[s].plan
         /\ Inactive(s, status).status = status /\ Inactive(s, status).next = None
<1>1. sched[s] \in Schedule
  BY DEF Rows, Row
<1>2. Inactive(s, status) \in Schedule
  BY <1>1 DEF Inactive, Schedule
<1> QED BY <1>1, <1>2, ScheduleAssumption DEF Inactive, Schedule

\* A schedule that is due names an occurrence, and advances past it.
LEMMA DueFacts ==
  ASSUME now \in 0 .. MaxTime, sched \in Rows, NEW s \in Schedules, IsDue(s)
  PROVE  /\ sched[s] # None /\ sched[s].status = "active"
         /\ sched[s].next \in 1 .. MaxTime /\ sched[s].next <= now
         /\ <<s, sched[s].next>> \in Occurrences
         /\ Advanced(s) \in Schedule /\ Advanced(s) # None
         /\ Advanced(s).plan = sched[s].plan
         /\ IF sched[s].plan.trigger = "once" THEN Advanced(s).status = "completed"
                                              ELSE Advanced(s).next = now + 1
<1>1. sched[s] \in Row /\ sched[s] # None /\ sched[s].status = "active" /\ sched[s].next <= now
  BY DEF IsDue, Active, Rows
<1>2. sched[s].next \in 1 .. MaxTime + 1 /\ sched[s].plan \in Plans
  BY <1>1, RowFacts
<1>3. sched[s].next \in 1 .. MaxTime
  BY <1>1, <1>2, ScheduleAssumption
<1>4. <<s, sched[s].next>> \in Occurrences
  BY <1>3, ScheduleAssumption DEF Occurrences
<1>5. /\ Inactive(s, "completed") \in Schedule /\ Inactive(s, "completed") # None
      /\ Inactive(s, "completed").plan = sched[s].plan
      /\ Inactive(s, "completed").status = "completed"
  BY <1>1, InactiveType
<1>6. /\ ActiveWith(sched[s].plan) \in Schedule /\ ActiveWith(sched[s].plan) # None
      /\ ActiveWith(sched[s].plan).plan = sched[s].plan
      /\ sched[s].plan.trigger # "once" => ActiveWith(sched[s].plan).next = now + 1
  BY <1>2, ActiveType
<1> QED BY <1>1, <1>3, <1>4, <1>5, <1>6 DEF Advanced

LEMMA ArmType ==
  ASSUME sched' \in Rows, Arm
  PROVE  armed' \in (1 .. MaxTime + 1) \cup {None}
<1> DEFINE D == {sched'[s].next : s \in {u \in Schedules : sched'[u] # None /\ sched'[u].status = "active"}}
<1>1. \A s \in Schedules : sched'[s] # None /\ sched'[s].status = "active" =>
        sched'[s].next \in 1 .. MaxTime + 1
  BY RowFacts DEF Rows
<1>2. D \subseteq 1 .. MaxTime + 1
  BY <1>1
<1>3. armed' = IF D = {} THEN None ELSE Min(D)
  BY DEF Arm
<1> HIDE DEF D
<1>4. D # {} => Min(D) \in D
  <2>1. MaxTime + 1 \in Nat
    BY ScheduleAssumption
  <2> QED BY <1>2, <2>1, Least
<1> QED BY <1>2, <1>3, <1>4

LEMMA QueueType ==
  ASSUME now \in 0 .. MaxTime, sched \in Rows, pending \in Marks,
         NEW S, NEW due, S \subseteq due, due \subseteq {s \in Schedules : IsDue(s)},
         Queue(S, due)
  PROVE  sched' \in Rows /\ pending' \in Marks /\ DueOccurrences(S) \subseteq Occurrences
<1>1. \A s \in due : Advanced(s) \in Row /\ <<s, sched[s].next>> \in Occurrences
  BY DueFacts DEF Row
<1>2. sched' \in Rows
  BY <1>1 DEF Queue, Rows
<1>3. pending' \in Marks
  BY DEF Queue, Marks
<1>4. DueOccurrences(S) \subseteq Occurrences
  BY <1>1 DEF DueOccurrences
<1> QED BY <1>2, <1>3, <1>4

LEMMA OccurrencesFinite == IsFiniteSet(Occurrences)
<1>1. 1 - MaxEdits \in Int /\ MaxTime \in Int
  BY ScheduleAssumption
<1>2. IsFiniteSet((1 - MaxEdits) .. MaxTime)
  BY <1>1, FS_Interval
<1> QED BY <1>2, FS_Product, ScheduleAssumption DEF Occurrences

\* What Deliver does to the queue.
LEMMA DeliverFacts ==
  ASSUME queue \in Seq(Occurrences), delivering \subseteq Occurrences, kick \in BOOLEAN,
         NEW occs, occs \subseteq Occurrences, Deliver(occs)
  PROVE  /\ queue' \in Seq(Occurrences) /\ kick' \in BOOLEAN
         /\ delivering' \subseteq Occurrences /\ delivering \subseteq delivering'
         /\ \A o \in delivering' \ delivering : o \in occs
         /\ \A o \in ToSet(queue') \ ToSet(queue) : o \in occs \ delivering /\ o \in delivering'
         /\ \A o \in Occurrences : OnceIn(queue, o) => OnceIn(queue', o)
<1> DEFINE handed == {o \in occs \ delivering : sched[o[1]] # None}
           H == handed \ ToSet(queue)
           new == SetToSeq(H)
<1>1. /\ delivering' = delivering \cup handed
      /\ queue' = queue \o new
      /\ kick' = (kick \/ handed # {})
  BY DEF Deliver
<1>2. IsFiniteSet(H)
  <2>1. H \subseteq Occurrences
    OBVIOUS
  <2> QED BY <2>1, OccurrencesFinite, FS_Subset
<1>3. handed \subseteq occs \ delivering
  OBVIOUS
<1>4. H \subseteq handed /\ \A o \in H : o \notin ToSet(queue)
  OBVIOUS
<1> HIDE DEF H
<1>5. /\ new \in Seq(H)
      /\ \A i, j \in 1 .. Len(new) : new[i] = new[j] => i = j
  BY <1>2, Listed
<1> HIDE DEF new, handed
<1>6. queue \in Seq(Occurrences) /\ new \in Seq(Occurrences)
  BY <1>3, <1>4, <1>5
<1>7. /\ Len(queue) \in Nat /\ Len(new) \in Nat
      /\ DOMAIN queue = 1 .. Len(queue) /\ DOMAIN new = 1 .. Len(new)
      /\ queue' \in Seq(Occurrences) /\ DOMAIN queue' = 1 .. Len(queue) + Len(new)
      /\ \A i \in 1 .. Len(queue) : queue'[i] = queue[i]
      /\ \A i \in 1 .. Len(queue) + Len(new) : i > Len(queue) =>
           i - Len(queue) \in 1 .. Len(new) /\ queue'[i] = new[i - Len(queue)]
  BY <1>1, <1>6
<1>8. \A i \in 1 .. Len(new) : new[i] \in H
  BY <1>5, <1>7
<1>9. \A o \in ToSet(queue') \ ToSet(queue) : o \in H
  <2> TAKE o \in ToSet(queue') \ ToSet(queue)
  <2>1. PICK i \in DOMAIN queue' : queue'[i] = o
    BY DEF ToSet
  <2>2. i \notin 1 .. Len(queue)
    BY <2>1, <1>7 DEF ToSet
  <2> QED BY <2>1, <2>2, <1>7, <1>8
<1>10. ASSUME NEW o \in Occurrences, OnceIn(queue, o) PROVE OnceIn(queue', o)
  <2>1. SUFFICES ASSUME NEW i \in DOMAIN queue', NEW j \in DOMAIN queue', queue'[i] = o, queue'[j] = o
                 PROVE  i = j
    BY DEF OnceIn
  <2>2. CASE i \in 1 .. Len(queue) /\ j \in 1 .. Len(queue)
    BY <1>7, <1>10, <2>1, <2>2 DEF OnceIn
  <2>3. CASE i \notin 1 .. Len(queue) /\ j \notin 1 .. Len(queue)
    <3>1. /\ i - Len(queue) \in 1 .. Len(new) /\ new[i - Len(queue)] = o
          /\ j - Len(queue) \in 1 .. Len(new) /\ new[j - Len(queue)] = o
      BY <1>7, <2>1, <2>3
    <3>2. i - Len(queue) = j - Len(queue)
      BY <1>5, <3>1
    <3> QED BY <1>7, <3>2
  <2>4. ASSUME NEW k \in DOMAIN queue', NEW l \in DOMAIN queue', queue'[k] = o, queue'[l] = o,
               k \in 1 .. Len(queue), l \notin 1 .. Len(queue)
        PROVE  FALSE
    <3>1. o \in ToSet(queue)
      BY <1>7, <2>4 DEF ToSet
    <3>2. o \in H
      BY <1>7, <1>8, <2>4
    <3> QED BY <1>4, <3>1, <3>2
  <2> QED BY <2>1, <2>2, <2>3, <2>4
<1>11. kick' \in BOOLEAN
  BY <1>1
<1>12. /\ delivering' \subseteq Occurrences /\ delivering \subseteq delivering'
       /\ \A o \in delivering' \ delivering : o \in occs
  BY <1>1, <1>3
<1>13. \A o \in ToSet(queue') \ ToSet(queue) : o \in occs \ delivering /\ o \in delivering'
  BY <1>1, <1>3, <1>4, <1>9
<1> QED BY <1>7, <1>10, <1>11, <1>12, <1>13

------------------------------------------------------------------------------
(***************************************************************************)
(* Type correctness.                                                       *)
(***************************************************************************)

ManagerTypes ==
  /\ now \in 0 .. MaxTime /\ up \in BOOLEAN
  /\ fresh \subseteq Schedules
  /\ sched \in Rows /\ pending \in Marks /\ file \in Saved
  /\ delivering \subseteq Occurrences
  /\ armed \in (1 .. MaxTime + 1) \cup {None}
  /\ writes \in Seq(Write)
  /\ queue \in Seq(Occurrences)
  /\ kick \in BOOLEAN /\ early \subseteq Occurrences

DispatchTypes ==
  /\ draining \in BOOLEAN /\ compacting \in BOOLEAN /\ retry \in BOOLEAN
  /\ run \in Occurrences \cup {None, User}
  /\ flow \in [Occurrences -> {"none", "preparing", "projecting"}]
  /\ settling \subseteq Occurrences /\ started \subseteq Occurrences
  /\ renewed \subseteq Occurrences

CounterTypes ==
  /\ edits \in 0 .. MaxEdits /\ restarts \in 0 .. MaxRestarts
  /\ faults \in 0 .. MaxFaults /\ stops \in 0 .. MaxStops

LEMMA TypeParts == TypeOK <=> ManagerTypes /\ DispatchTypes /\ CounterTypes
BY DEF TypeOK, ManagerTypes, DispatchTypes, CounterTypes, Rows, Row, Marks

LEMMA TypePartsNext == ManagerTypes' /\ DispatchTypes' /\ CounterTypes' => TypeOK'
BY DEF TypeOK, ManagerTypes, DispatchTypes, CounterTypes, Rows, Row, Marks

LEMMA PersistType ==
  ASSUME NEW c \in Seq(Write), sched' \in Rows, pending' \in Marks,
         NEW kind \in Kinds, NEW occs, occs \subseteq Occurrences, Persist(c, kind, occs)
  PROVE  /\ writes' \in Seq(Write)
         /\ \E w \in Write : /\ writes' = Append(c, w) /\ w.kind = kind /\ w.occs = occs
                             /\ w.saves = [sched |-> sched', pending |-> pending']
<1> DEFINE w == [saves |-> [sched |-> sched', pending |-> pending'], kind |-> kind, occs |-> occs]
<1>1. w \in Write
  BY SavedIs DEF Write
<1>2. writes' = Append(c, w)
  BY DEF Persist
<1>3. w.kind = kind /\ w.occs = occs /\ w.saves = [sched |-> sched', pending |-> pending']
  OBVIOUS
<1> HIDE DEF w
<1> QED BY <1>1, <1>2, <1>3, AppendFacts

\* A tick, whatever chain its write joins.
LEMMA TickType ==
  ASSUME ManagerTypes, NEW c \in Seq(Write), Tick(c)
  PROVE  /\ sched' \in Rows /\ pending' \in Marks
         /\ armed' \in (1 .. MaxTime + 1) \cup {None} /\ writes' \in Seq(Write)
<1> DEFINE due == {s \in Schedules : IsDue(s)}
<1>1. /\ Queue(due, due)
      /\ IF due # {} THEN armed' = None /\ Persist(c, "tick", DueOccurrences(due))
                     ELSE Arm /\ writes' = c
  BY DEF Tick
<1>2. sched' \in Rows /\ pending' \in Marks /\ DueOccurrences(due) \subseteq Occurrences
  <2> HIDE DEF due
  <2>1. due \subseteq {s \in Schedules : IsDue(s)}
    BY DEF due
  <2> QED BY <1>1, <2>1, QueueType DEF ManagerTypes
<1> HIDE DEF due
<1>3. CASE due # {}
  <2>1. "tick" \in Kinds
    BY DEF Kinds
  <2> QED BY <1>1, <1>2, <1>3, <2>1, PersistType
<1>4. CASE due = {}
  BY <1>1, <1>2, <1>4, ArmType
<1> QED BY <1>2, <1>3, <1>4

\* The first write has landed.
LEMMA LandedFacts ==
  ASSUME ManagerTypes, NEW kind, Landed(kind)
  PROVE  /\ writes # <<>> /\ Head(writes).kind = kind /\ file' = Head(writes).saves
         /\ file' \in Saved /\ Tail(writes) \in Seq(Write) /\ Head(writes) \in Write
         /\ Head(writes).occs \subseteq Occurrences
<1>1. writes # <<>> /\ writes \in Seq(Write)
  BY DEF Landed, ManagerTypes
<1>2. Head(writes) \in Write /\ Tail(writes) \in Seq(Write)
  BY <1>1, TailFacts
<1> QED BY <1>1, <1>2 DEF Landed, Write

LEMMA ManagerTypesStep ==
  ASSUME TypeOK, Manager
  PROVE  ManagerTypes' /\ edits' \in 0 .. MaxEdits /\ UNCHANGED <<restarts, faults>>
<1> USE DEF base, counters, memory
<1>1. ManagerTypes /\ CounterTypes
  BY TypeParts
<1>2. CASE TimerFires \/ Refresh
  <2>1. Tick(writes) /\ UNCHANGED <<base, file, counters>>
    BY <1>2 DEF TimerFires, Refresh
  <2>2. PICK c : c = writes
    OBVIOUS
  <2>3. c \in Seq(Write) /\ Tick(c)
    BY <1>1, <2>1, <2>2 DEF ManagerTypes
  <2>4. /\ sched' \in Rows /\ pending' \in Marks
        /\ armed' \in (1 .. MaxTime + 1) \cup {None} /\ writes' \in Seq(Write)
    BY <1>1, <2>3, TickType
  <2>5. UNCHANGED <<delivering, queue, kick>>
    BY <2>1 DEF Tick
  <2> QED BY <1>1, <2>1, <2>4, <2>5 DEF ManagerTypes, CounterTypes
<1>3. CASE CreateSaved
  <2>1. Landed("create") /\ Tick(Tail(writes)) /\ UNCHANGED <<base, counters>>
    BY <1>3 DEF CreateSaved
  <2>2. PICK c : c = Tail(writes)
    OBVIOUS
  <2>3. c \in Seq(Write) /\ Tick(c) /\ file' \in Saved
    BY <1>1, <2>1, <2>2, LandedFacts
  <2>4. /\ sched' \in Rows /\ pending' \in Marks
        /\ armed' \in (1 .. MaxTime + 1) \cup {None} /\ writes' \in Seq(Write)
    BY <1>1, <2>3, TickType
  <2>5. UNCHANGED <<delivering, queue, kick>>
    BY <2>1 DEF Tick
  <2> QED BY <1>1, <2>1, <2>3, <2>4, <2>5 DEF ManagerTypes, CounterTypes
<1>4. CASE TickSaved \/ RunNowSaved
  <2>1. PICK kind \in {"tick", "runNow"} :
          /\ Landed(kind) /\ writes' = Tail(writes) /\ Deliver(Head(writes).occs)
          /\ UNCHANGED <<base, sched, pending, counters>> /\ (Arm \/ UNCHANGED armed)
    BY <1>4 DEF TickSaved, RunNowSaved
  <2>2. file' \in Saved /\ writes' \in Seq(Write) /\ Head(writes).occs \subseteq Occurrences
    BY <1>1, <2>1, LandedFacts
  <2>3. PICK occs : occs = Head(writes).occs
    OBVIOUS
  <2>4. occs \subseteq Occurrences /\ Deliver(occs)
    BY <2>1, <2>2, <2>3
  <2>5. queue' \in Seq(Occurrences) /\ kick' \in BOOLEAN /\ delivering' \subseteq Occurrences
    BY <1>1, <2>4, DeliverFacts DEF ManagerTypes
  <2>6. armed' \in (1 .. MaxTime + 1) \cup {None}
    BY <1>1, <2>1, ArmType DEF ManagerTypes
  <2> QED BY <1>1, <2>1, <2>2, <2>5, <2>6 DEF ManagerTypes, CounterTypes
<1>5. CASE ArmSaved
  <2>1. Landed("arm") /\ writes' = Tail(writes) /\ Arm
        /\ UNCHANGED <<base, sched, pending, delivering, queue, kick, counters>>
    BY <1>5 DEF ArmSaved
  <2>2. file' \in Saved /\ writes' \in Seq(Write)
    BY <1>1, <2>1, LandedFacts
  <2>3. armed' \in (1 .. MaxTime + 1) \cup {None}
    BY <1>1, <2>1, ArmType DEF ManagerTypes
  <2> QED BY <1>1, <2>1, <2>2, <2>3 DEF ManagerTypes, CounterTypes
<1>6. ASSUME NEW s \in Schedules, Create(s)
      PROVE  ManagerTypes' /\ edits' \in 0 .. MaxEdits /\ UNCHANGED <<restarts, faults>>
  <2>1. PICK plan \in Plans : sched' = [sched EXCEPT ![s] = ActiveWith(plan)]
    BY <1>6 DEF Create
  <2>2. /\ Persist(writes, "create", {}) /\ fresh' = fresh \ {s}
        /\ UNCHANGED <<now, up, early, pending, delivering, armed, file, queue, kick, counters>>
    BY <1>6 DEF Create
  <2>3. sched' \in Rows /\ pending' \in Marks
    BY <1>1, <2>1, <2>2, ActiveType DEF ManagerTypes, Rows, Row
  <2>4. PICK c : c = writes
    OBVIOUS
  <2>5. c \in Seq(Write) /\ Persist(c, "create", {}) /\ "create" \in Kinds
    BY <1>1, <2>2, <2>4 DEF ManagerTypes, Kinds
  <2>6. writes' \in Seq(Write)
    BY <2>3, <2>5, PersistType
  <2> QED BY <1>1, <2>2, <2>3, <2>6 DEF ManagerTypes, CounterTypes
<1>7. ASSUME NEW s \in Schedules, Update(s) \/ RemoveSchedule(s) \/ RunNow(s)
      PROVE  ManagerTypes' /\ edits' \in 0 .. MaxEdits /\ UNCHANGED <<restarts, faults>>
  <2>1. /\ Edit /\ sched[s] # None
        /\ UNCHANGED <<base, delivering, armed, file, queue, kick, restarts, faults>>
    BY <1>7 DEF Update, RemoveSchedule, RunNow
  <2>2. edits' \in 0 .. MaxEdits
    BY <1>1, <2>1, ScheduleAssumption DEF Edit, CounterTypes
  <2>3. sched[s] \in Schedule
    BY <1>1, <2>1 DEF ManagerTypes, Rows, Row
  <2>4. WithoutUndelivered(s) \in Marks
    BY <1>1 DEF WithoutUndelivered, ManagerTypes, Marks
  <2>5. sched' \in Rows
    <3>1. CASE Update(s)
      <4>1. sched' = [sched EXCEPT ![s] = Inactive(s, "paused")]
            \/ sched' = [sched EXCEPT ![s] = ActiveWith(sched[s].plan)]
        BY <3>1 DEF Update
      <4>2. sched[s].plan \in Plans /\ now \in 0 .. MaxTime /\ sched \in Rows
        BY <1>1, <2>3 DEF Schedule, ManagerTypes
      <4>3. ActiveWith(sched[s].plan) \in Row
        BY <4>2, ActiveType DEF Row
      <4>4. Inactive(s, "paused") \in Row
        BY <2>1, <4>2, InactiveType DEF Row
      <4> QED BY <4>1, <4>2, <4>3, <4>4 DEF Rows
    <3>2. CASE RemoveSchedule(s)
      BY <1>1, <3>2 DEF RemoveSchedule, ManagerTypes, Rows, Row
    <3>3. CASE RunNow(s)
      BY <1>1, <3>3 DEF RunNow, ManagerTypes
    <3> QED BY <1>7, <3>1, <3>2, <3>3
  <2>6. pending' \in Marks
    BY <1>1, <1>7, <2>4 DEF Update, RemoveSchedule, RunNow, ManagerTypes, Marks
  <2>7. Manual(s) \in Occurrences
    BY <1>1, <2>1, ScheduleAssumption DEF Manual, Edit, CounterTypes, Occurrences
  <2>8. PICK kind \in {"arm", "runNow"}, occs \in {{}, {Manual(s)}} : Persist(writes, kind, occs)
    BY <1>7 DEF Update, RemoveSchedule, RunNow
  <2>9. PICK c : c = writes
    OBVIOUS
  <2>10. c \in Seq(Write) /\ Persist(c, kind, occs) /\ kind \in Kinds /\ occs \subseteq Occurrences
    BY <1>1, <2>7, <2>8, <2>9 DEF ManagerTypes, Kinds
  <2>11. writes' \in Seq(Write)
    BY <2>5, <2>6, <2>10, PersistType
  <2> QED BY <1>1, <2>1, <2>2, <2>5, <2>6, <2>11 DEF ManagerTypes
<1>8. CASE Restore
  <2>1. /\ up' = TRUE /\ sched' = file.sched /\ pending' = Recovered /\ Persist(<<>>, "init", {})
        /\ UNCHANGED <<now, fresh, early, delivering, armed, file, queue, kick, counters>>
    BY <1>8 DEF Restore
  <2>2. sched' \in Rows /\ pending' \in Marks
    BY <1>1, <2>1, SavedIs DEF ManagerTypes, Recovered, Marks
  <2>3. "init" \in Kinds /\ <<>> \in Seq(Write)
    BY DEF Kinds
  <2>4. PICK c, occs : c = <<>> /\ occs = {}
    OBVIOUS
  <2>5. c \in Seq(Write) /\ Persist(c, "init", occs) /\ occs \subseteq Occurrences
    BY <2>1, <2>3, <2>4
  <2>6. writes' \in Seq(Write)
    BY <2>2, <2>3, <2>5, PersistType
  <2> QED BY <1>1, <2>1, <2>2, <2>6 DEF ManagerTypes, CounterTypes
<1>9. CASE InitSaved
  <2> DEFINE due == {s \in Schedules : IsDue(s)}
             S == {s \in due : sched[s].plan.missed = "run_once"}
  <2>1. /\ Landed("init") /\ UNCHANGED <<now, up, fresh, counters>> /\ Queue(S, due)
        /\ \/ /\ due # {} /\ UNCHANGED <<delivering, armed, queue, kick, early>>
              /\ Persist(Tail(writes), "start", {})
           \/ /\ due = {} /\ writes' = Tail(writes) /\ Arm /\ DeliverAll
    BY <1>9 DEF InitSaved
  <2>2. file' \in Saved /\ Tail(writes) \in Seq(Write)
    BY <1>1, <2>1, LandedFacts
  <2>3. S \subseteq due /\ due \subseteq {s \in Schedules : IsDue(s)}
    OBVIOUS
  <2> HIDE DEF due, S
  <2>4. sched' \in Rows /\ pending' \in Marks
    BY <1>1, <2>1, <2>3, QueueType DEF ManagerTypes
  <2>5. CASE due # {}
    <3>1. PICK c : c = Tail(writes)
      OBVIOUS
    <3>2. c \in Seq(Write) /\ Persist(c, "start", {}) /\ "start" \in Kinds
      BY <2>1, <2>2, <2>5, <3>1 DEF Kinds
    <3>3. writes' \in Seq(Write)
      BY <2>4, <3>2, PersistType
    <3> QED BY <1>1, <2>1, <2>2, <2>4, <2>5, <3>3 DEF ManagerTypes, CounterTypes
  <2>6. CASE due = {}
    <3>1. armed' \in (1 .. MaxTime + 1) \cup {None}
      BY <2>1, <2>4, <2>6, ArmType
    <3>2. PICK occs : occs = InHand
      OBVIOUS
    <3>3. occs \subseteq Occurrences /\ Deliver(occs) /\ early' \subseteq Occurrences
      BY <1>1, <2>1, <2>6, <3>2 DEF InHand, DeliverAll, ManagerTypes
    <3>4. queue' \in Seq(Occurrences) /\ kick' \in BOOLEAN /\ delivering' \subseteq Occurrences
      BY <1>1, <3>3, DeliverFacts DEF ManagerTypes
    <3> QED BY <1>1, <2>1, <2>2, <2>4, <2>6, <3>1, <3>3, <3>4 DEF ManagerTypes, CounterTypes
  <2> QED BY <2>5, <2>6
<1>10. CASE StartSaved
  <2>1. /\ Landed("start") /\ writes' = Tail(writes) /\ Arm /\ DeliverAll
        /\ UNCHANGED <<now, up, fresh, sched, pending, counters>>
    BY <1>10 DEF StartSaved
  <2>2. file' \in Saved /\ writes' \in Seq(Write)
    BY <1>1, <2>1, LandedFacts
  <2>3. armed' \in (1 .. MaxTime + 1) \cup {None}
    BY <1>1, <2>1, ArmType DEF ManagerTypes
  <2>4. PICK occs : occs = InHand
    OBVIOUS
  <2>5. occs \subseteq Occurrences /\ Deliver(occs) /\ early' \subseteq Occurrences
    BY <1>1, <2>1, <2>4 DEF InHand, DeliverAll, ManagerTypes
  <2>6. queue' \in Seq(Occurrences) /\ kick' \in BOOLEAN /\ delivering' \subseteq Occurrences
    BY <1>1, <2>5, DeliverFacts DEF ManagerTypes
  <2> QED BY <1>1, <2>1, <2>2, <2>3, <2>5, <2>6 DEF ManagerTypes, CounterTypes
<1>11. CASE ClockTicks
  BY <1>1, <1>11, ScheduleAssumption DEF ClockTicks, ManagerTypes, CounterTypes
<1> QED BY <1>2, <1>3, <1>4, <1>5, <1>6, <1>7, <1>8, <1>9, <1>10, <1>11 DEF Manager

\* The end of an occurrence, and its write, whatever chain that joins.
LEMMA FinishType ==
  ASSUME ManagerTypes, UNCHANGED sched, NEW o \in Occurrences, FinishOccurrence(o),
         NEW c \in Seq(Write), NEW kind \in Kinds, Persist(c, kind, {o})
  PROVE  /\ pending' \in Marks /\ delivering' \subseteq Occurrences /\ writes' \in Seq(Write)
<1>1. pending' \in Marks /\ delivering' \subseteq Occurrences /\ sched' \in Rows
  BY DEF FinishOccurrence, ManagerTypes, Marks
<1>2. PICK occs : occs = {o}
  OBVIOUS
<1>3. occs \subseteq Occurrences /\ Persist(c, kind, occs)
  BY <1>2
<1> QED BY <1>1, <1>3, PersistType

LEMMA QueueFacts ==
  ASSUME NEW q \in Seq(Occurrences), q # <<>>
  PROVE  /\ Head(q) \in Occurrences /\ Head(q) = q[1] /\ Tail(q) \in Seq(Occurrences)
         /\ 1 \in DOMAIN q
         /\ DOMAIN q = 1 .. Len(q) /\ DOMAIN Tail(q) = 1 .. (Len(q) - 1) /\ Len(q) \in Nat
         /\ \A i \in DOMAIN Tail(q) : i + 1 \in DOMAIN q /\ Tail(q)[i] = q[i + 1]
<1> DEFINE S == Occurrences
<1>1. q \in Seq(S)
  OBVIOUS
<1> HIDE DEF S
<1>2. /\ Head(q) \in S /\ Head(q) = q[1] /\ Tail(q) \in Seq(S)
      /\ 1 \in DOMAIN q
      /\ DOMAIN q = 1 .. Len(q) /\ DOMAIN Tail(q) = 1 .. (Len(q) - 1) /\ Len(q) \in Nat
      /\ \A i \in DOMAIN Tail(q) : i + 1 \in DOMAIN q /\ Tail(q)[i] = q[i + 1]
  BY <1>1
<1> QED BY <1>2 DEF S

LEMMA DispatcherTypesStep ==
  ASSUME TypeOK, Dispatcher
  PROVE  TypeOK'
<1> USE DEF base, counters, memory
<1>1. ManagerTypes /\ DispatchTypes /\ CounterTypes
  BY TypeParts
<1> SUFFICES ManagerTypes' /\ DispatchTypes' /\ CounterTypes'
  BY TypePartsNext
<1>2. CASE Drain
  <2>1. /\ kick' = FALSE /\ retry' = (kick /\ retry)
        /\ UNCHANGED <<base, armed, file, counters, run, compacting, settling, started, renewed, stops>>
    BY <1>2 DEF Drain
  <2>9. retry' \in BOOLEAN
    BY <1>1, <2>1 DEF DispatchTypes
  <2>2. CASE UNCHANGED <<sched, pending, delivering, writes, queue, draining, flow>>
    BY <1>1, <2>1, <2>2, <2>9 DEF ManagerTypes, DispatchTypes, CounterTypes
  <2>3. CASE /\ queue # <<>> /\ queue' = Tail(queue) /\ draining' = TRUE
             /\ \/ Finish(Head(queue), "drop") /\ UNCHANGED flow
                \/ /\ flow' = [flow EXCEPT ![Head(queue)] = "preparing"]
                   /\ UNCHANGED <<sched, pending, delivering, writes>>
    <3>1. Head(queue) \in Occurrences /\ queue' \in Seq(Occurrences)
      BY <1>1, <2>3, QueueFacts DEF ManagerTypes
    <3>2. CASE Finish(Head(queue), "drop") /\ UNCHANGED flow
      <4>1. PICK o, c : o = Head(queue) /\ c = writes
        OBVIOUS
      <4>2. /\ o \in Occurrences /\ FinishOccurrence(o) /\ UNCHANGED sched /\ c \in Seq(Write)
            /\ Persist(c, "drop", {o}) /\ "drop" \in Kinds
        BY <1>1, <3>1, <3>2, <4>1 DEF Finish, ManagerTypes, Kinds
      <4>3. pending' \in Marks /\ delivering' \subseteq Occurrences /\ writes' \in Seq(Write)
        BY <1>1, <4>2, FinishType
      <4> QED BY <1>1, <2>1, <2>3, <2>9, <3>1, <3>2, <4>2, <4>3 DEF ManagerTypes, DispatchTypes, CounterTypes
    <3>3. CASE /\ flow' = [flow EXCEPT ![Head(queue)] = "preparing"]
               /\ UNCHANGED <<sched, pending, delivering, writes>>
      BY <1>1, <2>1, <2>3, <2>9, <3>1, <3>3 DEF ManagerTypes, DispatchTypes, CounterTypes
    <3> QED BY <2>3, <3>2, <3>3
  <2> QED BY <1>2, <2>2, <2>3 DEF Drain
<1>3. CASE MarkSaved \/ Released
  <2>1. PICK kind : Landed(kind)
    BY <1>3 DEF MarkSaved, Released
  <2>2. file' \in Saved /\ Tail(writes) \in Seq(Write)
    BY <1>1, <2>1, LandedFacts
  <2>3. /\ writes' = Tail(writes) /\ (kick' = TRUE \/ UNCHANGED kick)
        /\ (draining' = FALSE \/ UNCHANGED draining)
        /\ UNCHANGED <<base, memory, queue, counters, run, flow, settling>>
        /\ UNCHANGED <<compacting, retry, started, renewed, stops>>
    BY <1>3 DEF MarkSaved, Released, dispatch
  <2> QED BY <1>1, <2>2, <2>3 DEF ManagerTypes, DispatchTypes, CounterTypes
<1>4. CASE WriteFails
  <2>1. /\ writes # <<>> /\ faults < MaxFaults /\ faults' = faults + 1
        /\ UNCHANGED <<base, sched, armed, file, queue, edits, restarts, run, flow, settling>>
        /\ UNCHANGED <<compacting, retry, started, renewed, stops>>
    BY <1>4 DEF WriteFails
  <2>2. Head(writes) \in Write /\ Tail(writes) \in Seq(Write) /\ Head(writes).occs \subseteq Occurrences
    BY <1>1, <2>1, TailFacts DEF ManagerTypes, Write
  <2>3. faults' \in 0 .. MaxFaults
    BY <1>1, <2>1, ScheduleAssumption DEF CounterTypes
  <2>4. CASE /\ UNCHANGED <<pending, delivering>> /\ writes' = Tail(writes)
             /\ (kick' = TRUE \/ UNCHANGED kick) /\ (draining' = FALSE \/ UNCHANGED draining)
    BY <1>1, <2>1, <2>2, <2>3, <2>4 DEF ManagerTypes, DispatchTypes, CounterTypes
  <2>5. CASE /\ UNCHANGED <<kick, draining>>
             /\ \E o \in Head(writes).occs : FinishOccurrence(o) /\ Persist(Tail(writes), "fail", {o})
    <3>1. PICK o \in Head(writes).occs : FinishOccurrence(o) /\ Persist(Tail(writes), "fail", {o})
      BY <2>5
    <3>2. PICK c : c = Tail(writes)
      OBVIOUS
    <3>3. /\ o \in Occurrences /\ c \in Seq(Write) /\ UNCHANGED sched
          /\ Persist(c, "fail", {o}) /\ "fail" \in Kinds
      BY <2>1, <2>2, <3>1, <3>2 DEF Kinds
    <3>4. pending' \in Marks /\ delivering' \subseteq Occurrences /\ writes' \in Seq(Write)
      BY <1>1, <3>1, <3>3, FinishType
    <3> QED BY <1>1, <2>1, <2>3, <2>5, <3>4 DEF ManagerTypes, DispatchTypes, CounterTypes
  <2> QED BY <1>4, <2>4, <2>5 DEF WriteFails
<1>5. CASE UserRunStarts \/ UserRunEnds \/ CompactionStarts \/ CompactionEnds \/ TaskStop
  <2>1. edits' \in 0 .. MaxEdits /\ stops' \in 0 .. MaxStops
    BY <1>1, <1>5, ScheduleAssumption, DispatchAssumption
    DEF UserRunStarts, UserRunEnds, CompactionStarts, CompactionEnds, TaskStop, Edit, CounterTypes
  <2>2. /\ UNCHANGED <<base, memory, writes, file, restarts, faults>>
        /\ UNCHANGED <<draining, retry, flow, settling, started, renewed>>
        /\ compacting' \in {compacting, TRUE, FALSE}
        /\ run' \in {run, None, User} /\ kick' \in {kick, TRUE} /\ queue' \in {queue, <<>>}
    BY <1>5 DEF UserRunStarts, UserRunEnds, CompactionStarts, CompactionEnds, TaskStop
  <2>3. queue' \in Seq(Occurrences)
    <3>1. queue \in Seq(Occurrences) /\ <<>> \in Seq(Occurrences)
      BY <1>1 DEF ManagerTypes
    <3>2. queue' = queue \/ queue' = <<>>
      BY <2>2
    <3> QED BY <3>1, <3>2
  <2>4. ManagerTypes'
    BY <1>1, <2>2, <2>3 DEF ManagerTypes
  <2> QED BY <1>1, <2>1, <2>2, <2>4 DEF DispatchTypes, CounterTypes
<1>6. CASE GoesDown
  <2>1. NoSchedules \in Rows /\ Nothing \in Marks
    BY DEF NoSchedules, Nothing, Rows, Row, Marks
  <2>2. Nothing \in [Occurrences -> {"none", "preparing", "projecting"}]
    BY DEF Nothing
  <2>3. restarts' \in 0 .. MaxRestarts
    BY <1>1, <1>6, ScheduleAssumption DEF GoesDown, CounterTypes
  <2>4. <<>> \in Seq(Write) /\ <<>> \in Seq(Occurrences)
    OBVIOUS
  <2>5. ManagerTypes'
    BY <1>1, <1>6, <2>1, <2>4 DEF GoesDown, ManagerTypes
  <2> QED BY <1>1, <1>6, <2>2, <2>3, <2>5 DEF GoesDown, DispatchTypes, CounterTypes
<1>7. ASSUME NEW o \in Occurrences, StartAgentRun(o)
      PROVE  ManagerTypes' /\ DispatchTypes' /\ CounterTypes'
  <2>1. <<o>> \o queue \in Seq(Occurrences)
    BY <1>1 DEF ManagerTypes
  <2> QED BY <1>1, <1>7, <2>1 DEF StartAgentRun, ManagerTypes, DispatchTypes, CounterTypes
<1>8. ASSUME NEW o \in Occurrences, PreparationFails(o) \/ StartProjectionFails(o) \/ Settle(o)
      PROVE  ManagerTypes' /\ DispatchTypes' /\ CounterTypes'
  <2>1. PICK kind \in {"fail", "settle"} : Finish(o, kind)
    BY <1>8 DEF PreparationFails, StartProjectionFails, Settle
  <2>2. PICK c : c = writes
    OBVIOUS
  <2>3. /\ FinishOccurrence(o) /\ UNCHANGED sched /\ c \in Seq(Write)
        /\ Persist(c, kind, {o}) /\ kind \in Kinds
    BY <1>1, <2>1, <2>2 DEF Finish, ManagerTypes, Kinds
  <2>4. pending' \in Marks /\ delivering' \subseteq Occurrences /\ writes' \in Seq(Write)
    BY <1>1, <2>3, FinishType
  <2>5. /\ UNCHANGED <<base, armed, file, queue, kick, edits, restarts, draining, run>>
        /\ UNCHANGED <<compacting, retry, started, renewed, stops>>
        /\ faults' = faults \/ (faults < MaxFaults /\ faults' = faults + 1)
        /\ flow' = [flow EXCEPT ![o] = "none"] \/ UNCHANGED flow
        /\ settling' \subseteq settling
    BY <1>8 DEF PreparationFails, StartProjectionFails, Settle
  <2>6. faults' \in 0 .. MaxFaults
    BY <1>1, <2>5, ScheduleAssumption DEF CounterTypes
  <2> QED BY <1>1, <2>3, <2>4, <2>5, <2>6 DEF ManagerTypes, DispatchTypes, CounterTypes
<1>9. ASSUME NEW o \in Occurrences, Mark(o)
      PROVE  ManagerTypes' /\ DispatchTypes' /\ CounterTypes'
  <2>1. /\ flow' = [flow EXCEPT ![o] = "none"] /\ UNCHANGED sched /\ MarkRunning(o)
        /\ UNCHANGED <<base, delivering, armed, file, queue, kick, counters>>
        /\ UNCHANGED <<draining, run, compacting, retry, settling, started, renewed, stops>>
    BY <1>9 DEF Mark
  <2>2. pending' \in Marks /\ writes' \in Seq(Write)
    <3>1. CASE UNCHANGED <<pending, writes>>
      BY <1>1, <3>1 DEF ManagerTypes
    <3>2. CASE pending' = [pending EXCEPT ![o] = "running"] /\ Persist(writes, "mark", {o})
      <4>1. PICK c, occs : c = writes /\ occs = {o}
        OBVIOUS
      <4>2. /\ pending' \in Marks /\ sched' \in Rows /\ c \in Seq(Write) /\ occs \subseteq Occurrences
            /\ Persist(c, "mark", occs) /\ "mark" \in Kinds
        BY <1>1, <2>1, <3>2, <4>1 DEF ManagerTypes, Marks, Kinds
      <4> QED BY <4>2, PersistType
    <3> QED BY <2>1, <3>1, <3>2 DEF MarkRunning
  <2> QED BY <1>1, <2>1, <2>2 DEF ManagerTypes, DispatchTypes, CounterTypes
<1>10. ASSUME NEW o \in Occurrences, RunEnds(o)
       PROVE  ManagerTypes' /\ DispatchTypes' /\ CounterTypes'
  BY <1>1, <1>10 DEF RunEnds, ManagerTypes, DispatchTypes, CounterTypes
<1>11. ASSUME NEW o \in Occurrences, EndProjectionFails(o)
       PROVE  ManagerTypes' /\ DispatchTypes' /\ CounterTypes'
  <2>1. faults' \in 0 .. MaxFaults
    BY <1>1, <1>11, ScheduleAssumption DEF EndProjectionFails, CounterTypes
  <2> QED BY <1>1, <1>11, <2>1 DEF EndProjectionFails, ManagerTypes, DispatchTypes, CounterTypes
<1> QED BY <1>2, <1>3, <1>4, <1>5, <1>6, <1>7, <1>8, <1>9, <1>10, <1>11 DEF Dispatcher

LEMMA TypeInit == Init => TypeOK
<1> SUFFICES ASSUME Init PROVE ManagerTypes /\ DispatchTypes /\ CounterTypes
  BY TypeParts
<1>1. NoSchedules \in Rows /\ Nothing \in Marks
  BY DEF NoSchedules, Nothing, Rows, Row, Marks
<1>2. [sched |-> NoSchedules, pending |-> Nothing] \in Saved
  BY <1>1, SavedIs
<1>3. ManagerTypes
  <2>1. <<>> \in Seq(Write) /\ <<>> \in Seq(Occurrences)
    OBVIOUS
  <2>2. /\ now = 0 /\ up = TRUE /\ fresh = Schedules /\ sched = NoSchedules /\ pending = Nothing
        /\ delivering = {} /\ armed = None /\ writes = <<>> /\ queue = <<>> /\ kick = FALSE
        /\ early = {} /\ file = [sched |-> NoSchedules, pending |-> Nothing]
    BY DEF Init
  <2>3. now \in 0 .. MaxTime
    BY <2>2, ScheduleAssumption
  <2> QED BY <1>1, <1>2, <2>1, <2>2, <2>3 DEF ManagerTypes
<1>4. DispatchTypes
  BY DEF Init, DispatchTypes, Nothing
<1>5. CounterTypes
  BY ScheduleAssumption, DispatchAssumption DEF Init, CounterTypes
<1> QED BY <1>3, <1>4, <1>5

LEMMA TypeStep == TypeOK /\ [Next]_vars => TypeOK'
<1> SUFFICES ASSUME TypeOK, [Next]_vars PROVE TypeOK'
  OBVIOUS
<1>1. CASE Manager /\ Histories /\ UNCHANGED <<draining, run, compacting, retry, flow, settling, stops>>
  <2>1. ManagerTypes' /\ edits' \in 0 .. MaxEdits /\ UNCHANGED <<restarts, faults>>
    BY <1>1, ManagerTypesStep
  <2>2. DispatchTypes'
    BY <1>1, TypeParts DEF Histories, DispatchTypes
  <2>3. CounterTypes'
    BY <1>1, <2>1, TypeParts DEF CounterTypes
  <2> QED BY <2>1, <2>2, <2>3, TypePartsNext
<1>2. CASE Dispatcher
  BY <1>2, DispatcherTypesStep
<1>3. CASE UNCHANGED vars
  BY <1>3 DEF vars, base, memory, counters, dispatch, TypeOK
<1> QED BY <1>1, <1>2, <1>3 DEF Next

\* Every variable keeps its type: the maps of the manager, what a write of the file
\* holds, the queue of the dispatcher and the run of the task, for any number of
\* schedules, edits, failing writes, stops and restarts.
THEOREM TypeCorrect == Spec => []TypeOK
<1> QED BY TypeInit, TypeStep, PTL DEF Spec

------------------------------------------------------------------------------
(***************************************************************************)
(* The shape of a step of the running application: a write may land, then  *)
(* schedules and pending occurrences may change, and are added to the      *)
(* chain. Only Restore and GoesDown are of another shape.                  *)
(***************************************************************************)

Lands(c) ==
  \/ c = writes /\ file' = file
  \/ writes # <<>> /\ c = Tail(writes) /\ (file' = file \/ file' = Head(writes).saves)

\* A name that is asked for now: it was not past, and is.
FreshName(o) == /\ o \in Fixed => ~Past(o, sched, Moment)
                /\ Past(o, sched', Moment')

Quiet(c) == writes' = c /\ sched' = sched /\ pending' = pending

Fewer == \A o \in Occurrences : ~Unset(pending', o) => ~Unset(pending, o)
Grows(H) ==
  /\ \A o \in Occurrences : ~Unset(pending', o) <=> (~Unset(pending, o) \/ o \in H)
  /\ \A o \in H : o \in Occurrences /\ FreshName(o)
  /\ Single(pending) => Single(pending')

Adds(c, w) ==
  /\ w \in Write /\ writes' = Append(c, w)
  /\ w.saves = [sched |-> sched', pending |-> pending']
  /\ \/ ~Hands(w) /\ ~Starts(w) /\ Fewer
     \/ Hands(w) /\ ~Starts(w) /\ Grows(w.occs)
     \/ Starts(w) /\ ~Hands(w) /\ NoStart(c) /\ \E H : Grows(H)

StaysPast ==
  /\ \A o \in Occurrences \ renewed' : Past(o, sched, Moment) => Past(o, sched', Moment')
  /\ \A s \in fresh' : sched'[s] = None

Later ==
  /\ now \in Int /\ now' \in Int /\ now <= now'
  /\ edits \in Int /\ edits' \in Int /\ edits <= edits' /\ fresh' \subseteq fresh

Shape == (\E c \in Seq(Write) : Lands(c) /\ (Quiet(c) \/ \E w : Adds(c, w))) /\ StaysPast /\ Later

\* The same moment.
LEMMA SameMoment ==
  ASSUME TypeOK, UNCHANGED <<now, edits, fresh>>
  PROVE  Later /\ Moment' = Moment
BY DEF Later, Moment, TypeOK

LEMMA OccurrenceFacts ==
  ASSUME NEW o \in Occurrences
  PROVE  /\ o = <<o[1], o[2]>> /\ o[1] \in Schedules /\ o[2] \in Int
         /\ 1 - MaxEdits <= o[2] /\ o[2] <= MaxTime
BY ScheduleAssumption DEF Occurrences

\* What becomes due is a fresh name, and its schedule goes on past it.
LEMMA QueueShape ==
  ASSUME TypeOK, Made(sched), UNCHANGED <<now, edits, fresh>>,
         NEW S, NEW due, S \subseteq due, due \subseteq {s \in Schedules : IsDue(s)},
         Queue(S, due)
  PROVE  Grows(DueOccurrences(S)) /\ StaysPast
<1> DEFINE H == DueOccurrences(S)
<1>1. /\ ManagerTypes /\ now \in 0 .. MaxTime /\ sched \in Rows /\ pending \in Marks
  BY TypeParts DEF ManagerTypes
<1>2. Moment' = Moment /\ Moment.now = now /\ Moment.edits = edits /\ Moment.fresh = fresh
  BY SameMoment DEF Moment
<1>3. \A s \in due : /\ s \in Schedules /\ sched[s] # None /\ sched[s].status = "active"
                     /\ sched[s].next \in 1 .. MaxTime /\ sched[s].next <= now
                     /\ <<s, sched[s].next>> \in Occurrences
                     /\ Advanced(s) # None /\ Advanced(s).plan = sched[s].plan
                     /\ IF sched[s].plan.trigger = "once" THEN Advanced(s).status = "completed"
                                                          ELSE Advanced(s).next = now + 1
  BY <1>1, DueFacts
<1>4. /\ \A s \in Schedules : sched'[s] = IF s \in due THEN Advanced(s) ELSE sched[s]
      /\ \A o \in Occurrences : pending'[o] = IF o \in H THEN "queued" ELSE pending[o]
  BY DEF Queue
<1>5. \A o \in H : /\ o \in Occurrences /\ o[1] \in S /\ o[2] = sched[o[1]].next
                   /\ ~HasPending(o[1])
  BY <1>3 DEF DueOccurrences
<1> HIDE DEF H
<1>6. \A o \in H : o \in Occurrences /\ FreshName(o)
  <2> SUFFICES ASSUME NEW o \in H PROVE o \in Occurrences /\ FreshName(o)
    OBVIOUS
  <2>1. /\ o \in Occurrences /\ o[1] \in due /\ o[2] = sched[o[1]].next
        /\ o[1] \in Schedules /\ o[2] \in 1 .. MaxTime /\ o[2] <= now
    BY <1>3, <1>5
  <2>2. ~Past(o, sched, Moment)
    <3>1. sched[o[1]] # None /\ sched[o[1]].status = "active" /\ sched[o[1]].next = o[2]
      BY <1>3, <2>1
    <3>2. o[2] \in 1 .. MaxTime + 1 /\ o[2] >= 1 /\ ~(o[2] < o[2])
      BY <2>1, ScheduleAssumption
    <3>3. o[2] # None
      BY <3>2, ScheduleAssumption
    <3> QED BY <3>1, <3>2, <3>3 DEF Past
  <2>3. o[1] \notin fresh
    BY <1>3, <2>1 DEF Made
  <2>4. Past(o, sched', Moment')
    <3>1. /\ sched'[o[1]] = Advanced(o[1]) /\ Advanced(o[1]).plan = sched[o[1]].plan
          /\ IF sched[o[1]].plan.trigger = "once" THEN Advanced(o[1]).status = "completed"
                                                 ELSE Advanced(o[1]).next = now + 1
      BY <1>3, <1>4, <2>1
    <3>2. o[2] < now + 1 /\ ~(o[2] < 1) /\ o[2] <= now
      BY <1>1, <2>1
    <3> QED BY <1>2, <2>3, <3>1, <3>2 DEF Past
  <2> QED BY <2>1, <2>2, <2>4 DEF FreshName
<1>7. Single(pending) => Single(pending')
  <2> SUFFICES ASSUME Single(pending), NEW s \in Schedules, NEW d \in 1 .. MaxTime, NEW e \in 1 .. MaxTime,
                      ~Unset(pending', <<s, d>>), ~Unset(pending', <<s, e>>)
               PROVE  d = e
    BY DEF Single
  <2>1. <<s, d>> \in Occurrences /\ <<s, e>> \in Occurrences
    BY ScheduleAssumption DEF Occurrences
  <2>2. CASE HasPending(s)
    <3>1. <<s, d>> \notin H /\ <<s, e>> \notin H
      BY <1>5, <2>2
    <3> QED BY <1>4, <2>1, <3>1 DEF Single, Unset
  <2>3. CASE ~HasPending(s)
    <3>1. pending[<<s, d>>] = "none" /\ pending[<<s, e>>] = "none"
      BY <2>1, <2>3 DEF HasPending
    <3>2. <<s, d>> \in H /\ <<s, e>> \in H
      BY <1>4, <2>1, <3>1 DEF Unset
    <3>3. d = sched[s].next /\ e = sched[s].next
      BY <1>5, <3>2
    <3> QED BY <3>3
  <2> QED BY <2>2, <2>3
<1>8. \A o \in Occurrences : ~Unset(pending', o) <=> (~Unset(pending, o) \/ o \in H)
  BY <1>4 DEF Unset
<1>9. Grows(H)
  BY <1>6, <1>7, <1>8 DEF Grows
<1>10. \A o \in Occurrences : Past(o, sched, Moment) => Past(o, sched', Moment)
  <2> SUFFICES ASSUME NEW o \in Occurrences, Past(o, sched, Moment) PROVE Past(o, sched', Moment)
    OBVIOUS
  <2>1. o[1] \in Schedules /\ o[2] \in Int
    BY OccurrenceFacts
  <2>2. CASE o[1] \notin due
    BY <1>4, <2>1, <2>2 DEF Past
  <2>3. CASE o[1] \in due
    <3>1. /\ sched'[o[1]] = Advanced(o[1]) /\ Advanced(o[1]).plan = sched[o[1]].plan
          /\ IF sched[o[1]].plan.trigger = "once" THEN Advanced(o[1]).status = "completed"
                                                 ELSE Advanced(o[1]).next = now + 1
      BY <1>3, <1>4, <2>1, <2>3
    <3>2. o[2] <= now => o[2] < now + 1
      BY <1>1, <2>1
    <3> QED BY <1>2, <3>1, <3>2 DEF Past
  <2> QED BY <2>2, <2>3
<1>11. \A s \in fresh' : sched'[s] = None
  <2>1. \A s \in fresh : s \in Schedules /\ sched[s] = None /\ s \notin due
    BY <1>1, <1>3 DEF Made, ManagerTypes
  <2> QED BY <1>4, <2>1
<1> QED BY <1>2, <1>9, <1>10, <1>11 DEF StaysPast, H

\* A tick, whatever chain its write joins.
LEMMA TickShape ==
  ASSUME TypeOK, Made(sched), UNCHANGED <<now, edits, fresh>>, NEW c \in Seq(Write), Tick(c)
  PROVE  (Quiet(c) \/ \E w : Adds(c, w)) /\ StaysPast
<1> DEFINE due == {s \in Schedules : IsDue(s)}
<1>1. /\ Queue(due, due)
      /\ IF due # {} THEN Persist(c, "tick", DueOccurrences(due)) ELSE writes' = c
  BY DEF Tick
<1>2. due \subseteq {s \in Schedules : IsDue(s)}
  OBVIOUS
<1> HIDE DEF due
<1>3. ManagerTypes
  BY TypeParts
<1>4. /\ sched' \in Rows /\ pending' \in Marks /\ DueOccurrences(due) \subseteq Occurrences
  BY <1>1, <1>2, <1>3, QueueType DEF ManagerTypes
<1>5. Grows(DueOccurrences(due)) /\ StaysPast
  BY <1>1, <1>2, QueueShape
<1>6. CASE due # {}
  <2>1. PICK w \in Write : /\ writes' = Append(c, w) /\ w.kind = "tick"
                           /\ w.occs = DueOccurrences(due)
                           /\ w.saves = [sched |-> sched', pending |-> pending']
    BY <1>1, <1>4, <1>6, PersistType DEF Kinds
  <2> QED BY <1>5, <2>1 DEF Adds, Hands, Starts
<1>7. CASE due = {}
  <2>1. sched' = sched /\ pending' = pending
    BY <1>1, <1>3, <1>7 DEF Queue, DueOccurrences, ManagerTypes, Rows, Marks
  <2> QED BY <1>1, <1>5, <1>7, <2>1 DEF Quiet
<1> QED BY <1>5, <1>6, <1>7

LEMMA SchedKept ==
  ASSUME TypeOK, Made(sched), Later, UNCHANGED sched
  PROVE  StaysPast
<1>1. /\ Moment' = [now |-> now', edits |-> edits', fresh |-> fresh']
      /\ Moment = [now |-> now, edits |-> edits, fresh |-> fresh]
  BY DEF Moment
<1>2. ASSUME NEW o \in Occurrences, Past(o, sched, Moment) PROVE Past(o, sched', Moment')
  <2>1. o[2] \in Int
    BY OccurrenceFacts
  <2> QED BY <1>1, <1>2, <2>1 DEF Past, Later
<1> QED BY <1>2 DEF StaysPast, Made, Later

\* A write that neither hands over nor starts: nothing more is pending.
LEMMA PersistShape ==
  ASSUME NEW c \in Seq(Write), sched' \in Rows, pending' \in Marks, Fewer,
         NEW kind \in Kinds \ {"init", "start", "tick", "runNow"},
         NEW occs, occs \subseteq Occurrences, Persist(c, kind, occs)
  PROVE  \E w : Adds(c, w)
<1>1. PICK w \in Write : /\ writes' = Append(c, w) /\ w.kind = kind
                         /\ w.saves = [sched |-> sched', pending |-> pending']
  BY PersistType
<1> QED BY <1>1 DEF Adds, Hands, Starts

LEMMA ManagerShape ==
  ASSUME TypeOK, ChainOK(writes, pending), Made(sched), Manager, ~Restore, Histories
  PROVE  Shape
<1> USE DEF base, counters, memory
<1>1. /\ ManagerTypes /\ CounterTypes /\ writes \in Seq(Write) /\ sched \in Rows /\ pending \in Marks
      /\ now \in 0 .. MaxTime /\ edits \in 0 .. MaxEdits
  BY TypeParts DEF ManagerTypes, CounterTypes
<1>2. sched' \in Rows /\ pending' \in Marks
  BY ManagerTypesStep DEF ManagerTypes
<1>3. CASE TimerFires \/ Refresh
  <2>1. Tick(writes) /\ UNCHANGED <<base, file, counters>>
    BY <1>3 DEF TimerFires, Refresh
  <2>2. PICK c : c = writes
    OBVIOUS
  <2>3. c \in Seq(Write) /\ Tick(c)
    BY <1>1, <2>1, <2>2
  <2>4. (Quiet(c) \/ \E w : Adds(c, w)) /\ StaysPast
    BY <2>1, <2>3, TickShape
  <2>5. Lands(c) /\ Later
    BY <2>1, <2>2, SameMoment DEF Lands
  <2> QED BY <2>3, <2>4, <2>5 DEF Shape
<1>4. CASE CreateSaved
  <2>1. Landed("create") /\ Tick(Tail(writes)) /\ UNCHANGED <<base, counters>>
    BY <1>4 DEF CreateSaved
  <2>2. PICK c : c = Tail(writes)
    OBVIOUS
  <2>3. c \in Seq(Write) /\ Tick(c) /\ Lands(c)
    BY <1>1, <2>1, <2>2, LandedFacts DEF Lands
  <2>4. (Quiet(c) \/ \E w : Adds(c, w)) /\ StaysPast
    BY <2>1, <2>3, TickShape
  <2>5. Later
    BY <2>1, SameMoment
  <2> QED BY <2>3, <2>4, <2>5 DEF Shape
<1>5. CASE TickSaved \/ RunNowSaved \/ ArmSaved \/ StartSaved
  <2>1. PICK kind : Landed(kind)
    BY <1>5 DEF TickSaved, RunNowSaved, ArmSaved, StartSaved
  <2>2. writes' = Tail(writes) /\ UNCHANGED <<now, fresh, edits, sched, pending>>
    BY <1>5 DEF TickSaved, RunNowSaved, ArmSaved, StartSaved
  <2>3. PICK c : c = Tail(writes)
    OBVIOUS
  <2>4. c \in Seq(Write) /\ Lands(c) /\ Quiet(c)
    BY <1>1, <2>1, <2>2, <2>3, LandedFacts DEF Lands, Quiet
  <2>5. StaysPast /\ Later
    BY <2>2, SchedKept, SameMoment
  <2> QED BY <2>4, <2>5 DEF Shape
<1>6. ASSUME NEW s \in Schedules, Create(s) PROVE Shape
  <2>1. PICK plan \in Plans : sched' = [sched EXCEPT ![s] = ActiveWith(plan)]
    BY <1>6 DEF Create
  <2>2. /\ Persist(writes, "create", {}) /\ s \in fresh /\ fresh' = fresh \ {s}
        /\ UNCHANGED <<now, up, early, pending, delivering, armed, file, queue, kick, counters>>
    BY <1>6 DEF Create
  <2>3. PICK c, occs : c = writes /\ occs = {}
    OBVIOUS
  <2>4. c \in Seq(Write) /\ Persist(c, "create", occs) /\ occs \subseteq Occurrences /\ Fewer /\ Lands(c)
    BY <1>1, <2>2, <2>3 DEF Fewer, Lands
  <2>5. \E w : Adds(c, w)
    BY <1>2, <2>4, PersistShape DEF Kinds
  <2>6. Later
    BY <1>1, <2>2, ScheduleAssumption DEF Later
  <2>7. \A u \in Schedules : u # s => sched'[u] = sched[u]
    BY <1>1, <2>1 DEF Rows
  <2>8. /\ Moment'.now = now /\ Moment'.edits = edits /\ Moment'.fresh = fresh \ {s}
        /\ Moment.now = now /\ Moment.edits = edits /\ Moment.fresh = fresh
    BY <2>2 DEF Moment
  <2>9. \A o \in Occurrences : Past(o, sched, Moment) => Past(o, sched', Moment')
    BY <2>2, <2>7, <2>8, OccurrenceFacts DEF Past
  <2>10. \A u \in fresh' : sched'[u] = None
    BY <1>1, <2>2, <2>7 DEF Made, ManagerTypes
  <2> QED BY <2>4, <2>5, <2>6, <2>9, <2>10 DEF Shape, StaysPast
<1>7. ASSUME NEW s \in Schedules, Update(s) \/ RemoveSchedule(s) PROVE Shape
  <2>1. /\ Edit /\ sched[s] # None /\ Persist(writes, "arm", {})
        /\ UNCHANGED <<base, delivering, armed, file, queue, kick, restarts, faults>>
        /\ pending' = pending \/ pending' = WithoutUndelivered(s)
    BY <1>7 DEF Update, RemoveSchedule
  <2>2. PICK c, occs : c = writes /\ occs = {}
    OBVIOUS
  <2>3. Fewer
    BY <2>1 DEF WithoutUndelivered, Fewer, Unset
  <2>4. c \in Seq(Write) /\ Persist(c, "arm", occs) /\ occs \subseteq Occurrences /\ Lands(c)
    BY <1>1, <2>1, <2>2 DEF Lands
  <2>5. \E w : Adds(c, w)
    BY <1>2, <2>3, <2>4, PersistShape DEF Kinds
  <2>6. /\ Moment'.now = now /\ Moment'.edits = edits + 1 /\ Moment'.fresh = fresh
        /\ Moment.now = now /\ Moment.edits = edits /\ Moment.fresh = fresh
    BY <2>1 DEF Moment, Edit
  <2>7. Later
    BY <1>1, <2>1, ScheduleAssumption DEF Later, Edit
  <2>8. \A u \in Schedules : u # s => sched'[u] = sched[u]
    BY <1>1, <1>7 DEF Rows, Update, RemoveSchedule
  <2>9. ASSUME NEW o \in Occurrences \ renewed', Past(o, sched, Moment)
        PROVE  Past(o, sched', Moment')
    <3>1. /\ o[1] \in Schedules /\ o[2] \in Int /\ o[1] \notin fresh
          /\ o[2] < 1 => 0 - o[2] < edits + 1
          /\ o[2] >= 1 => o[2] <= now
      BY <1>1, <2>6, <2>9, OccurrenceFacts, ScheduleAssumption DEF Past
    <3>2. CASE o[2] < 1
      BY <2>6, <3>1, <3>2 DEF Past
    <3>3. CASE o[2] >= 1 /\ o[1] # s
      BY <2>6, <2>8, <2>9, <3>1, <3>3 DEF Past
    <3>4. CASE o[2] >= 1 /\ o[1] = s
      <4>1. sched[s] \in Row
        BY <1>1 DEF Rows
      <4>2. sched[s].plan \in Plans /\ sched[s].plan.trigger \in {"once", "cron"}
        BY <2>1, <4>1, RowFacts
      <4>3. CASE sched'[s] = None
        BY <2>6, <3>1, <3>4, <4>3 DEF Past
      <4>4. CASE Update(s) /\ sched[s].status = "active"
        <5>1. sched'[s] = Inactive(s, "paused")
          BY <1>1, <4>4 DEF Update, Rows
        <5>2. Inactive(s, "paused").plan = sched[s].plan /\ Inactive(s, "paused").next = None
          BY <1>1, <2>1, InactiveType
        <5>3. sched[s].plan.trigger # "once"
          BY <2>1, <2>9, <3>4, <4>4 DEF Past
        <5> QED BY <2>6, <3>1, <3>4, <5>1, <5>2, <5>3 DEF Past
      <4>5. CASE Update(s) /\ sched[s].status # "active"
        <5>1. sched'[s] = ActiveWith(sched[s].plan)
          BY <1>1, <4>5 DEF Update, Rows
        <5>2. /\ ActiveWith(sched[s].plan).plan = sched[s].plan
              /\ ActiveWith(sched[s].plan) # None /\ ActiveWith(sched[s].plan).status = "active"
              /\ sched[s].plan.trigger # "once" => ActiveWith(sched[s].plan).next = now + 1
          BY <1>1, <4>2, ActiveType
        <5>3. o[2] > 0 /\ o[2] < now + 1
          BY <1>1, <3>1, <3>4
        <5>4. sched[s].status # "completed"
          BY <2>1, <2>9, <3>4, <5>1, <5>2, <5>3 DEF Histories
        <5>5. sched[s].plan.trigger # "once"
          BY <2>1, <2>9, <3>4, <5>4 DEF Past
        <5> QED BY <2>6, <3>1, <3>4, <5>1, <5>2, <5>3, <5>5 DEF Past
      <4>6. RemoveSchedule(s) => sched'[s] = None
        BY <1>1 DEF RemoveSchedule, Rows
      <4> QED BY <1>7, <4>3, <4>4, <4>5, <4>6
    <3> QED BY <3>1, <3>2, <3>3, <3>4
  <2>10. \A u \in fresh' : sched'[u] = None
    BY <1>1, <2>1, <2>8 DEF Made, ManagerTypes
  <2> QED BY <2>4, <2>5, <2>7, <2>9, <2>10 DEF Shape, StaysPast
<1>8. ASSUME NEW s \in Schedules, RunNow(s) PROVE Shape
  <2> DEFINE o == Manual(s)
  <2>1. /\ Edit /\ sched[s] # None /\ Persist(writes, "runNow", {o})
        /\ pending' = [pending EXCEPT ![o] = "queued"]
        /\ UNCHANGED <<base, sched, delivering, armed, file, queue, kick, restarts, faults>>
    BY <1>8 DEF RunNow
  <2>2. o \in Occurrences /\ o[1] = s /\ o[2] = 0 - edits /\ o[2] < 1
    BY <1>1, <2>1, ScheduleAssumption DEF Manual, Edit, Occurrences
  <2> HIDE DEF o
  <2>3. PICK c, occs : c = writes /\ occs = {o}
    OBVIOUS
  <2>4. c \in Seq(Write) /\ Persist(c, "runNow", occs) /\ occs \subseteq Occurrences /\ Lands(c)
    BY <1>1, <2>1, <2>2, <2>3 DEF Lands
  <2>5. PICK w \in Write : /\ writes' = Append(c, w) /\ w.kind = "runNow" /\ w.occs = occs
                           /\ w.saves = [sched |-> sched', pending |-> pending']
    BY <1>2, <2>4, PersistType DEF Kinds
  <2>6. /\ Moment'.now = now /\ Moment'.edits = edits + 1 /\ Moment'.fresh = fresh
        /\ Moment.now = now /\ Moment.edits = edits /\ Moment.fresh = fresh
    BY <2>1 DEF Moment, Edit
  <2>7. Later
    BY <1>1, <2>1, ScheduleAssumption DEF Later, Edit
  <2>8. FreshName(o)
    <3>1. s \notin fresh
      BY <2>1 DEF Made
    <3>2. ~Past(o, sched, Moment)
      BY <1>1, <2>2, <2>6 DEF Past
    <3>3. Past(o, sched', Moment')
      BY <1>1, <2>2, <2>6, <3>1 DEF Past
    <3> QED BY <3>2, <3>3 DEF FreshName
  <2>9. \A u \in Occurrences : pending'[u] = IF u = o THEN "queued" ELSE pending[u]
    BY <1>1, <2>1 DEF Marks
  <2>10. Single(pending) => Single(pending')
    <3>1. \A u \in Schedules, d \in 1 .. MaxTime : <<u, d>> \in Occurrences /\ <<u, d>> # o
      BY <2>2, ScheduleAssumption DEF Occurrences
    <3> QED BY <2>9, <3>1 DEF Single, Unset
  <2>11. Grows(w.occs)
    BY <2>2, <2>3, <2>5, <2>8, <2>9, <2>10 DEF Grows, Unset
  <2>12. Adds(c, w)
    BY <2>5, <2>11 DEF Adds, Hands, Starts
  <2>13. StaysPast
    BY <2>1, <2>7, SchedKept
  <2> QED BY <2>4, <2>7, <2>12, <2>13 DEF Shape
<1>9. CASE InitSaved
  <2> DEFINE due == {s \in Schedules : IsDue(s)}
             S == {s \in due : sched[s].plan.missed = "run_once"}
  <2>1. /\ Landed("init") /\ UNCHANGED <<now, up, fresh, counters>> /\ Queue(S, due)
        /\ \/ due # {} /\ Persist(Tail(writes), "start", {})
           \/ due = {} /\ writes' = Tail(writes)
    BY <1>9 DEF InitSaved
  <2>2. S \subseteq due /\ due \subseteq {s \in Schedules : IsDue(s)}
    OBVIOUS
  <2> HIDE DEF due, S
  <2>3. Later
    BY <2>1, SameMoment
  <2>4. Grows(DueOccurrences(S)) /\ StaysPast
    BY <2>1, <2>2, QueueShape
  <2>5. writes # <<>> /\ file' = Head(writes).saves /\ Head(writes).kind = "init"
        /\ Tail(writes) \in Seq(Write)
    BY <1>1, <2>1, LandedFacts
  <2>6. NoStart(Tail(writes))
    BY <1>1, <2>5, ChainTail DEF Starts
  <2>7. PICK c : c = Tail(writes)
    OBVIOUS
  <2>8. c \in Seq(Write) /\ NoStart(c) /\ Lands(c)
    BY <2>5, <2>6, <2>7 DEF Lands
  <2>9. CASE due # {}
    <3>1. PICK occs : occs = {}
      OBVIOUS
    <3>2. Persist(c, "start", occs) /\ occs \subseteq Occurrences
      BY <2>1, <2>7, <2>9, <3>1
    <3>3. PICK w \in Write : /\ writes' = Append(c, w) /\ w.kind = "start"
                             /\ w.saves = [sched |-> sched', pending |-> pending']
      BY <1>2, <2>8, <3>2, PersistType DEF Kinds
    <3>4. Adds(c, w)
      BY <2>4, <2>8, <3>3 DEF Adds, Hands, Starts
    <3> QED BY <2>3, <2>4, <2>8, <3>4 DEF Shape
  <2>10. CASE due = {}
    <3>1. sched' = sched /\ pending' = pending
      BY <1>1, <2>1, <2>2, <2>10 DEF Queue, DueOccurrences, Rows, Marks
    <3> QED BY <2>1, <2>3, <2>4, <2>7, <2>8, <2>10, <3>1 DEF Shape, Quiet
  <2> QED BY <2>9, <2>10
<1>10. CASE ClockTicks
  <2>1. Later /\ UNCHANGED <<sched, pending, writes, file>>
    BY <1>1, <1>10, ScheduleAssumption DEF ClockTicks, Later
  <2>2. PICK c : c = writes
    OBVIOUS
  <2>3. c \in Seq(Write) /\ Lands(c) /\ Quiet(c)
    BY <1>1, <2>1, <2>2 DEF Lands, Quiet
  <2> QED BY <2>1, <2>3, SchedKept DEF Shape
<1> QED BY <1>3, <1>4, <1>5, <1>6, <1>7, <1>8, <1>9, <1>10 DEF Manager

\* The end of an occurrence: nothing more is pending.
LEMMA FinishShape ==
  ASSUME TypeOK, UNCHANGED sched, NEW o \in Occurrences, FinishOccurrence(o),
         NEW c \in Seq(Write), NEW kind \in Kinds \ {"init", "start", "tick", "runNow"},
         Persist(c, kind, {o})
  PROVE  \E w : Adds(c, w)
<1>1. sched' \in Rows /\ pending' \in Marks /\ Fewer
  BY TypeParts DEF ManagerTypes, FinishOccurrence, Marks, Fewer, Unset
<1>2. PICK occs : occs = {o}
  OBVIOUS
<1>3. occs \subseteq Occurrences /\ Persist(c, kind, occs)
  BY <1>2
<1> QED BY <1>1, <1>3, PersistShape

LEMMA DispatcherShape ==
  ASSUME TypeOK, Made(sched), Dispatcher, ~GoesDown
  PROVE  Shape
<1> USE DEF base, counters, memory
<1>1. /\ ManagerTypes /\ CounterTypes /\ writes \in Seq(Write) /\ sched \in Rows /\ pending \in Marks
      /\ queue \in Seq(Occurrences) /\ now \in 0 .. MaxTime /\ edits \in 0 .. MaxEdits
  BY TypeParts DEF ManagerTypes, CounterTypes
<1>2. ASSUME UNCHANGED <<now, fresh, edits, sched, pending, writes, file>> PROVE Shape
  <2>1. PICK c : c = writes
    OBVIOUS
  <2>2. c \in Seq(Write) /\ Lands(c) /\ Quiet(c)
    BY <1>1, <1>2, <2>1 DEF Lands, Quiet
  <2>3. StaysPast /\ Later
    BY <1>2, SchedKept, SameMoment
  <2> QED BY <2>2, <2>3 DEF Shape
<1>3. ASSUME NEW o \in Occurrences, NEW kind, kind \in {"drop", "fail", "settle"}, Finish(o, kind),
             UNCHANGED <<now, fresh, edits, file>>
      PROVE  Shape
  <2>1. PICK c : c = writes
    OBVIOUS
  <2>2. /\ FinishOccurrence(o) /\ UNCHANGED sched /\ Persist(c, kind, {o})
        /\ c \in Seq(Write) /\ Lands(c) /\ kind \in Kinds \ {"init", "start", "tick", "runNow"}
    BY <1>1, <1>3, <2>1 DEF Finish, Lands, Kinds
  <2>3. \E w : Adds(c, w)
    BY <2>2, FinishShape
  <2>4. StaysPast /\ Later
    BY <1>3, <2>2, SchedKept, SameMoment
  <2> QED BY <2>2, <2>3, <2>4 DEF Shape
<1>4. CASE Drain
  <2>1. UNCHANGED <<now, fresh, edits, file>>
    BY <1>4 DEF Drain
  <2>2. \/ UNCHANGED <<sched, pending, writes>>
        \/ queue # <<>> /\ Finish(Head(queue), "drop")
    BY <1>4 DEF Drain
  <2>3. PICK o : o = Head(queue)
    OBVIOUS
  <2>4. queue # <<>> => o \in Occurrences
    BY <1>1, <2>3, QueueFacts
  <2> QED BY <1>2, <1>3, <2>1, <2>2, <2>3, <2>4
<1>5. CASE MarkSaved \/ Released
  <2>1. PICK kind : Landed(kind)
    BY <1>5 DEF MarkSaved, Released
  <2>2. writes' = Tail(writes) /\ UNCHANGED <<now, fresh, edits, sched, pending>>
    BY <1>5 DEF MarkSaved, Released
  <2>3. PICK c : c = Tail(writes)
    OBVIOUS
  <2>4. c \in Seq(Write) /\ Lands(c) /\ Quiet(c)
    BY <1>1, <2>1, <2>2, <2>3, LandedFacts DEF Lands, Quiet
  <2>5. StaysPast /\ Later
    BY <2>2, SchedKept, SameMoment
  <2> QED BY <2>4, <2>5 DEF Shape
<1>6. CASE WriteFails
  <2>1. /\ writes # <<>> /\ UNCHANGED <<now, fresh, edits, sched, file>>
        /\ \/ writes' = Tail(writes) /\ UNCHANGED pending
           \/ \E o \in Head(writes).occs : FinishOccurrence(o) /\ Persist(Tail(writes), "fail", {o})
    BY <1>6 DEF WriteFails
  <2>2. Tail(writes) \in Seq(Write) /\ Head(writes).occs \subseteq Occurrences
    BY <1>1, <2>1, TailFacts DEF Write
  <2>3. PICK c : c = Tail(writes)
    OBVIOUS
  <2>4. c \in Seq(Write) /\ Lands(c)
    BY <2>1, <2>2, <2>3 DEF Lands
  <2>5. StaysPast /\ Later
    BY <2>1, SchedKept, SameMoment
  <2>6. CASE writes' = Tail(writes) /\ UNCHANGED pending
    BY <2>1, <2>3, <2>4, <2>5, <2>6 DEF Shape, Quiet
  <2>7. ASSUME NEW o \in Head(writes).occs, FinishOccurrence(o), Persist(Tail(writes), "fail", {o})
        PROVE  Shape
    <3>1. o \in Occurrences /\ Persist(c, "fail", {o})
      BY <2>2, <2>3, <2>7
    <3>2. \E w : Adds(c, w)
      BY <2>1, <2>4, <2>7, <3>1, FinishShape DEF Kinds
    <3> QED BY <2>4, <2>5, <3>2 DEF Shape
  <2> QED BY <2>1, <2>6, <2>7
<1>7. CASE UserRunStarts \/ CompactionStarts
  <2>1. Later /\ UNCHANGED <<sched, pending, writes, file>>
    BY <1>1, <1>7, ScheduleAssumption DEF UserRunStarts, CompactionStarts, Edit, Later
  <2>2. PICK c : c = writes
    OBVIOUS
  <2>3. c \in Seq(Write) /\ Lands(c) /\ Quiet(c)
    BY <1>1, <2>1, <2>2 DEF Lands, Quiet
  <2> QED BY <2>1, <2>3, SchedKept DEF Shape
<1>8. CASE UserRunEnds \/ CompactionEnds \/ TaskStop
  BY <1>2, <1>8 DEF UserRunEnds, CompactionEnds, TaskStop
<1>9. ASSUME NEW o \in Occurrences, StartAgentRun(o) \/ RunEnds(o) \/ EndProjectionFails(o) PROVE Shape
  BY <1>2, <1>9 DEF StartAgentRun, RunEnds, EndProjectionFails
<1>10. ASSUME NEW o \in Occurrences, PreparationFails(o) \/ StartProjectionFails(o) \/ Settle(o)
       PROVE  Shape
  <2>1. UNCHANGED <<now, fresh, edits, file>> /\ (Finish(o, "fail") \/ Finish(o, "settle"))
    BY <1>10 DEF PreparationFails, StartProjectionFails, Settle
  <2> QED BY <1>3, <2>1
<1>11. ASSUME NEW o \in Occurrences, Mark(o) PROVE Shape
  <2>1. UNCHANGED <<now, fresh, edits, sched, file>> /\ MarkRunning(o)
    BY <1>11 DEF Mark
  <2>2. CASE UNCHANGED <<pending, writes>>
    BY <1>2, <2>1, <2>2
  <2>3. CASE ~UNCHANGED <<pending, writes>>
    <3>1. /\ pending[o] # "none" /\ pending' = [pending EXCEPT ![o] = "running"]
          /\ Persist(writes, "mark", {o})
      BY <2>1, <2>3 DEF MarkRunning
    <3>2. PICK c, occs : c = writes /\ occs = {o}
      OBVIOUS
    <3>3. /\ sched' \in Rows /\ pending' \in Marks /\ Fewer /\ c \in Seq(Write) /\ Lands(c)
          /\ occs \subseteq Occurrences /\ Persist(c, "mark", occs)
      BY <1>1, <2>1, <3>1, <3>2 DEF Marks, Fewer, Unset, Lands
    <3>4. \E w : Adds(c, w)
      BY <3>3, PersistShape DEF Kinds
    <3>5. StaysPast /\ Later
      BY <2>1, SchedKept, SameMoment
    <3> QED BY <3>3, <3>4, <3>5 DEF Shape
  <2> QED BY <2>2, <2>3
<1> QED BY <1>4, <1>5, <1>6, <1>7, <1>8, <1>9, <1>10, <1>11 DEF Dispatcher

------------------------------------------------------------------------------
(***************************************************************************)
(* What such a step does to the parts of the invariant.                    *)
(***************************************************************************)

LEMMA ShapeSingle ==
  ASSUME TypeOK, SingleEverywhere, Shape
  PROVE  SingleEverywhere'
<1>1. writes \in Seq(Write)
  BY TypeParts DEF ManagerTypes
<1>2. PICK c \in Seq(Write) : Lands(c) /\ (Quiet(c) \/ \E w : Adds(c, w))
  BY DEF Shape
<1>3. Single(file'.pending) /\ \A i \in DOMAIN c : Single(c[i].saves.pending)
  <2>1. CASE writes # <<>> /\ c = Tail(writes) /\ (file' = file \/ file' = Head(writes).saves)
    BY <1>1, <2>1, TailFacts DEF SingleEverywhere
  <2> QED BY <1>2, <2>1 DEF Lands, SingleEverywhere
<1>4. CASE Quiet(c)
  BY <1>3, <1>4 DEF Quiet, SingleEverywhere
<1>5. CASE \E w : Adds(c, w)
  <2>1. PICK w : Adds(c, w)
    BY <1>5
  <2>2. w \in Write /\ writes' = Append(c, w) /\ w.saves.pending = pending'
    BY <2>1 DEF Adds
  <2>3. Single(pending')
    <3>1. \A s \in Schedules, d \in 1 .. MaxTime : <<s, d>> \in Occurrences
      BY ScheduleAssumption DEF Occurrences
    <3>2. Fewer => Single(pending')
      BY <3>1 DEF Fewer, Single, SingleEverywhere
    <3>3. \A H : Grows(H) => Single(pending')
      BY DEF Grows, SingleEverywhere
    <3> QED BY <2>1, <3>2, <3>3 DEF Adds
  <2>4. \A i \in DOMAIN writes' : Single(writes'[i].saves.pending)
    BY <1>3, <2>2, <2>3, AppendFacts
  <2> QED BY <1>3, <2>3, <2>4 DEF SingleEverywhere
<1> QED BY <1>2, <1>4, <1>5

LEMMA ShapeMade ==
  ASSUME TypeOK, MadeOK, Shape
  PROVE  MadeOK'
<1>1. writes \in Seq(Write)
  BY TypeParts DEF ManagerTypes
<1>2. PICK c \in Seq(Write) : Lands(c) /\ (Quiet(c) \/ \E w : Adds(c, w))
  BY DEF Shape
<1>3. /\ \A s \in fresh' : s \in fresh /\ sched'[s] = None /\ file'.sched[s] = None
      /\ \A i \in DOMAIN c : \A s \in fresh' : c[i].saves.sched[s] = None
  <2>1. \A s \in fresh' : s \in fresh /\ sched'[s] = None
    BY DEF Shape, StaysPast, Later
  <2>2. CASE writes # <<>> /\ c = Tail(writes) /\ (file' = file \/ file' = Head(writes).saves)
    BY <1>1, <2>1, <2>2, TailFacts DEF MadeOK, Made
  <2> QED BY <1>2, <2>1, <2>2 DEF Lands, MadeOK, Made
<1>4. CASE Quiet(c)
  BY <1>3, <1>4 DEF Quiet, MadeOK, Made
<1>5. CASE \E w : Adds(c, w)
  <2>1. PICK w : Adds(c, w)
    BY <1>5
  <2>2. w \in Write /\ writes' = Append(c, w) /\ w.saves.sched = sched'
    BY <2>1 DEF Adds
  <2>3. \A i \in DOMAIN writes' : \A s \in fresh' : writes'[i].saves.sched[s] = None
    BY <1>3, <2>2, AppendFacts
  <2> QED BY <1>3, <2>3 DEF MadeOK, Made
<1> QED BY <1>2, <1>4, <1>5

LEMMA ShapeChain ==
  ASSUME TypeOK, ChainOK(writes, pending), Shape
  PROVE  ChainOK(writes', pending')
<1>1. writes \in Seq(Write)
  BY TypeParts DEF ManagerTypes
<1>2. PICK c \in Seq(Write) : Lands(c) /\ (Quiet(c) \/ \E w : Adds(c, w))
  BY DEF Shape
<1>3. ChainOK(c, pending)
  BY <1>1, <1>2, ChainTail DEF Lands
<1>4. CASE Quiet(c)
  BY <1>3, <1>4 DEF Quiet
<1>5. CASE \E w : Adds(c, w)
  <2>1. PICK w : Adds(c, w)
    BY <1>5
  <2>2. w \in Write /\ writes' = Append(c, w) /\ w.saves.pending = pending'
    BY <2>1 DEF Adds
  <2>3. \A o \in Occurrences : ~Unset(pending', o) => ~Unset(pending, o) \/ o \in w.occs \/ NoStart(c)
    BY <2>1 DEF Adds, Fewer, Grows
  <2>4. Starts(w) => NoStart(c)
    BY <2>1 DEF Adds
  <2>5. Hands(w) => \A o \in w.occs : ~Unset(pending', o)
    BY <2>1 DEF Adds, Grows
  <2> QED BY <1>3, <2>2, <2>3, <2>4, <2>5, ChainAppend
<1> QED BY <1>2, <1>4, <1>5

LEMMA FixedFacts == Fixed \subseteq Occurrences
BY DEF Fixed

\* What the dispatcher was given is past, so it is not asked for again.
LEMMA ShapePending ==
  ASSUME TypeOK, Names(Fixed, Given, writes, file, sched, pending, Moment), Shape,
         NEW o \in Fixed, o \in Given, ~Unset(pending', o)
  PROVE  ~Unset(pending, o)
<1>1. Past(o, sched, Moment) /\ o \in Occurrences
  BY FixedFacts DEF Names, PastFrom
<1>2. PICK c : Quiet(c) \/ \E w : Adds(c, w)
  BY DEF Shape
<1>3. CASE Quiet(c)
  BY <1>3 DEF Quiet
<1>4. ASSUME NEW H, Grows(H) PROVE ~Unset(pending, o)
  BY <1>1, <1>4 DEF Grows, FreshName
<1> QED BY <1>1, <1>2, <1>3, <1>4 DEF Adds, Fewer

LEMMA ShapeNames ==
  ASSUME TypeOK, Names(Fixed, Given, writes, file, sched, pending, Moment), Shape,
         Fixed' \subseteq Fixed
  PROVE  Names(Fixed', Given, writes', file', sched', pending', Moment')
<1>1. writes \in Seq(Write)
  BY TypeParts DEF ManagerTypes
<1>2. PICK c \in Seq(Write) : Lands(c) /\ (Quiet(c) \/ \E w : Adds(c, w))
  BY DEF Shape
<1>3. Names(Fixed, Given, c, file', sched, pending, Moment)
  BY <1>1, <1>2, NamesTail DEF Lands
<1>4. /\ Moment.now \in Int /\ Moment'.now \in Int /\ Moment.now <= Moment'.now
      /\ Moment.edits \in Int /\ Moment'.edits \in Int /\ Moment.edits <= Moment'.edits
      /\ Moment'.fresh \subseteq Moment.fresh
  BY DEF Shape, Later, Moment
<1>5. \A o \in Fixed' : Past(o, sched, Moment) => Past(o, sched', Moment')
  BY DEF Shape, StaysPast, Fixed
<1>6. \A o \in Fixed' : ~Unset(pending', o) => ~Unset(pending, o) \/ Past(o, sched', Moment')
  <2> SUFFICES ASSUME NEW o \in Fixed', ~Unset(pending', o)
               PROVE  ~Unset(pending, o) \/ Past(o, sched', Moment')
    OBVIOUS
  <2>1. o \in Occurrences
    BY FixedFacts
  <2>2. ASSUME NEW H, Grows(H) PROVE ~Unset(pending, o) \/ Past(o, sched', Moment')
    BY <2>1, <2>2 DEF Grows, FreshName
  <2> QED BY <1>2, <2>1, <2>2 DEF Adds, Quiet, Fewer
<1>7. Names(Fixed', Given, c, file', sched', pending', Moment')
  BY <1>3, <1>4, <1>5, <1>6, FixedFacts, NamesMove
<1>8. CASE Quiet(c)
  BY <1>7, <1>8 DEF Quiet
<1>9. CASE \E w : Adds(c, w)
  <2>1. PICK w : Adds(c, w)
    BY <1>9
  <2>2. w \in Write /\ writes' = Append(c, w) /\ w.saves = [sched |-> sched', pending |-> pending']
    BY <2>1 DEF Adds
  <2>3. Hands(w) => \A o \in w.occs : ~Unset(pending', o)
    BY <2>1 DEF Adds, Grows
  <2> QED BY <1>7, <2>2, <2>3, NamesAppend
<1> QED BY <1>2, <1>8, <1>9

LEMMA ShapeAwaited ==
  ASSUME TypeOK, Names(Fixed, Given, writes, file, sched, pending, Moment),
         Awaited(Fixed, Given, writes), Shape, Fixed' \subseteq Fixed
  PROVE  Awaited(Fixed', Given, writes')
<1>1. writes \in Seq(Write)
  BY TypeParts DEF ManagerTypes
<1>2. PICK c \in Seq(Write) : Lands(c) /\ (Quiet(c) \/ \E w : Adds(c, w))
  BY DEF Shape
<1>3. Awaited(Fixed, Given, c) /\ \A o \in Fixed : InChain(o, c) => InChain(o, writes)
  BY <1>1, <1>2, AwaitedTail, InTail DEF Lands
<1>4. Awaited(Fixed', Given, c)
  BY <1>3, AwaitedFewer
<1>5. CASE Quiet(c)
  BY <1>4, <1>5 DEF Quiet
<1>6. CASE \E w : Adds(c, w)
  <2>1. PICK w : Adds(c, w)
    BY <1>6
  <2>2. w \in Write /\ writes' = Append(c, w)
    BY <2>1 DEF Adds
  <2>3. ASSUME Hands(w), NEW o \in Fixed', o \in w.occs PROVE o \notin Given /\ ~InChain(o, c)
    <3>1. ~Past(o, sched, Moment) /\ o \in Fixed
      BY <2>1, <2>3 DEF Adds, Grows, FreshName
    <3>2. o \in Given \/ InChain(o, writes) => Past(o, sched, Moment)
      BY <3>1 DEF Names, PastFrom
    <3> QED BY <1>3, <3>1, <3>2
  <2> QED BY <1>4, <2>2, <2>3, AwaitedAppend
<1> QED BY <1>2, <1>5, <1>6

------------------------------------------------------------------------------
(***************************************************************************)
(* What the dispatcher is given, and when.                                 *)
(***************************************************************************)

Delivery == TickSaved \/ RunNowSaved \/ InitSaved \/ StartSaved

LEMMA FixedStep ==
  ASSUME TypeOK, (Manager /\ Histories) \/ Dispatcher
  PROVE  Fixed' \subseteq Fixed
<1>1. CASE Dispatcher
  <2>1. UNCHANGED <<early, renewed>>
    BY <1>1 DEF Dispatcher, Drain, MarkSaved, Released, WriteFails, UserRunStarts, UserRunEnds,
       CompactionStarts, CompactionEnds, TaskStop, GoesDown, StartAgentRun, PreparationFails, StartProjectionFails,
         EndProjectionFails, Mark, RunEnds, Settle, base, dispatch
  <2> QED BY <2>1 DEF Fixed
<1>2. CASE Manager /\ Histories
  <2>1. renewed \subseteq renewed'
    BY <1>2 DEF Histories
  <2>2. CASE Delivery
    BY <2>1, <2>2 DEF Delivery, TickSaved, RunNowSaved, InitSaved, StartSaved, DeliverAll, base, Fixed
  <2>3. CASE ~Delivery
    <3>1. UNCHANGED early
      BY <1>2, <2>3 DEF Manager, Delivery, TimerFires, Refresh, CreateSaved, ArmSaved, Restore,
         ClockTicks, Create, Update, RemoveSchedule, RunNow, base
    <3> QED BY <2>1, <3>1 DEF Fixed
  <2> QED BY <2>2, <2>3
<1> QED BY <1>1, <1>2

\* Each delivery hands over occs, and what is new in it was saved by the write
\* that has landed, or is told to be early.
LEMMA DeliverySaved ==
  ASSUME TypeOK, ChainOK(writes, pending), Delivery
  PROVE  /\ \A o \in delivering' \ delivering : o \in early' \/ ~Unset(file'.pending, o)
         /\ \A o \in ToSet(queue') \ ToSet(queue) :
              /\ o \in delivering' \ delivering
              /\ \/ Hands(Head(writes)) /\ o \in Head(writes).occs /\ writes' = Tail(writes)
                 \/ /\ ~Unset(pending, o) /\ writes' = Tail(writes)
                    /\ o \in early' \/ ~InChain(o, writes')
         /\ delivering \subseteq delivering'
         /\ \A o \in Occurrences : OnceIn(queue, o) => OnceIn(queue', o)
         /\ writes \in Seq(Write) /\ writes # <<>> /\ file' = Head(writes).saves
<1>1. /\ ManagerTypes /\ writes \in Seq(Write) /\ queue \in Seq(Occurrences)
      /\ delivering \subseteq Occurrences /\ kick \in BOOLEAN
  BY TypeParts DEF ManagerTypes, TypeOK
<1>2. PICK kind : Landed(kind) /\ kind \in {"tick", "runNow", "init", "start"}
                  /\ (TickSaved \/ RunNowSaved => kind \in {"tick", "runNow"})
                  /\ (InitSaved \/ StartSaved => kind \in {"init", "start"})
  BY DEF Delivery, TickSaved, RunNowSaved, InitSaved, StartSaved, Landed
<1>3. /\ writes # <<>> /\ Head(writes).kind = kind /\ file' = Head(writes).saves
      /\ Head(writes).occs \subseteq Occurrences
      /\ 1 \in DOMAIN writes /\ writes[1] = Head(writes)
  BY <1>1, <1>2, LandedFacts, TailFacts
<1>4. CASE TickSaved \/ RunNowSaved
  <2>1. Deliver(Head(writes).occs) /\ writes' = Tail(writes)
    BY <1>4 DEF TickSaved, RunNowSaved
  <2>2. Hands(Head(writes))
    BY <1>2, <1>3, <1>4 DEF Hands
  <2>3. \A o \in Head(writes).occs : ~Unset(file'.pending, o)
    BY <1>3, <2>2 DEF ChainOK
  <2>4. PICK occs : occs = Head(writes).occs
    OBVIOUS
  <2>5. occs \subseteq Occurrences /\ Deliver(occs)
    BY <1>3, <2>1, <2>4
  <2>6. /\ delivering \subseteq delivering' /\ \A o \in delivering' \ delivering : o \in occs
        /\ \A o \in ToSet(queue') \ ToSet(queue) : o \in occs \ delivering /\ o \in delivering'
        /\ \A o \in Occurrences : OnceIn(queue, o) => OnceIn(queue', o)
    BY <1>1, <2>5, DeliverFacts
  <2> QED BY <1>1, <1>3, <2>1, <2>2, <2>3, <2>4, <2>6
<1>5. CASE UNCHANGED <<delivering, queue>>
  BY <1>1, <1>3, <1>5
<1>6. CASE DeliverAll /\ (InitSaved \/ StartSaved) /\ writes' = Tail(writes)
  <2>1. PICK occs : occs = InHand
    OBVIOUS
  <2>2. occs \subseteq Occurrences /\ Deliver(occs)
    BY <1>6, <2>1 DEF DeliverAll, InHand
  <2>3. /\ delivering \subseteq delivering' /\ \A o \in delivering' \ delivering : o \in occs
        /\ \A o \in ToSet(queue') \ ToSet(queue) : o \in occs \ delivering /\ o \in delivering'
        /\ \A o \in Occurrences : OnceIn(queue, o) => OnceIn(queue', o)
    BY <1>1, <2>2, DeliverFacts
  <2>4. Starts(Head(writes))
    BY <1>2, <1>3, <1>6 DEF Starts
  <2>5. ASSUME NEW o \in Occurrences, o \in occs \ delivering
        PROVE  ~Unset(pending, o) /\ (o \in early' \/ ~Unset(file'.pending, o))
                                  /\ (o \in early' \/ ~InChain(o, writes'))
    <3>1. ~Unset(pending, o)
      BY <2>1, <2>5 DEF InHand, Unset
    <3>2. DOMAIN writes = 1 .. Len(writes) /\ Len(writes) \in Nat
      BY <1>1, <1>3, TailFacts
    <3>3. ASSUME NEW j \in DOMAIN writes, 1 < j, o \in writes[j].occs PROVE o \in early'
      <4>1. j \in 2 .. Len(writes)
        BY <3>2, <3>3
      <4> QED BY <1>6, <2>1, <2>5, <3>3, <4>1 DEF DeliverAll
    <3>4. o \in early' \/ ~Unset(file'.pending, o)
      BY <1>3, <2>4, <3>1, <3>3 DEF ChainOK
    <3>5. o \in early' \/ ~InChain(o, writes')
      <4>1. SUFFICES ASSUME InChain(o, Tail(writes)) PROVE o \in early'
        BY <1>6
      <4>2. PICK i \in DOMAIN Tail(writes) : o \in Tail(writes)[i].occs
        BY <4>1 DEF InChain
      <4>3. i + 1 \in DOMAIN writes /\ Tail(writes)[i] = writes[i + 1] /\ i \in 1 .. (Len(writes) - 1)
        BY <1>1, <1>3, <4>2, TailFacts
      <4>4. 1 < i + 1
        BY <3>2, <4>3
      <4> QED BY <3>3, <4>2, <4>3, <4>4
    <3> QED BY <3>1, <3>4, <3>5
  <2> QED BY <1>1, <1>3, <1>6, <2>2, <2>3, <2>5
<1> QED BY <1>4, <1>5, <1>6 DEF Delivery, InitSaved, StartSaved

\* What is new with the dispatcher is in the file, and nothing will hand it over again.
LEMMA DeliveryNew ==
  ASSUME TypeOK, ChainOK(writes, pending), Held(Fixed, Given, pending, delivering),
         Awaited(Fixed, Given, writes), Delivery, Fixed' \subseteq Fixed,
         NEW o \in Fixed', o \in ToSet(queue') \ ToSet(queue)
  PROVE  o \notin Given /\ ~Unset(file'.pending, o) /\ ~InChain(o, writes') /\ o \in delivering'
<1>1. o \in Fixed /\ o \in Occurrences /\ o \notin early'
  BY DEF Fixed
<1>2. o \in delivering' \ delivering /\ ~Unset(file'.pending, o)
  BY <1>1, DeliverySaved
<1>3. writes \in Seq(Write) /\ writes # <<>>
  BY DeliverySaved
<1>4. CASE Hands(Head(writes)) /\ o \in Head(writes).occs /\ writes' = Tail(writes)
  <2>1. InChain(o, writes) /\ ~InChain(o, Tail(writes))
    BY <1>1, <1>3, <1>4, InTail DEF Awaited
  <2> QED BY <1>1, <1>2, <1>4, <2>1 DEF Awaited
<1>5. CASE ~Unset(pending, o) /\ (o \in early' \/ ~InChain(o, writes'))
  BY <1>1, <1>2, <1>5 DEF Held
<1> QED BY <1>2, <1>4, <1>5, DeliverySaved

Flows ==
  /\ \A o \in Fixed' : o \in Given' =>
       o \in Given \/ (~Unset(file'.pending, o) /\ ~InChain(o, writes') /\ o \in delivering')
  /\ \A o \in delivering \ delivering' : Unset(pending', o)
  /\ Placed(Fixed', queue', flow', started')

LEMMA FewerPlaces ==
  ASSUME Placed(Fixed, queue, flow, started), Fixed' \subseteq Fixed,
         UNCHANGED <<queue, flow>>, started' \subseteq started,
         \A o \in delivering \ delivering' : Unset(pending', o)
  PROVE  Flows
BY DEF Flows, Placed, Given, Known

LEMMA ManagerFlows ==
  ASSUME TypeOK, ChainOK(writes, pending), Held(Fixed, Given, pending, delivering),
         Awaited(Fixed, Given, writes), Placed(Fixed, queue, flow, started),
         Manager, Histories, UNCHANGED flow
  PROVE  Flows
<1>1. started' \subseteq started
  BY DEF Histories
<1>2. Fixed' \subseteq Fixed
  BY FixedStep
<1>3. CASE Delivery
  <2>1. delivering \subseteq delivering' /\ \A o \in Occurrences : OnceIn(queue, o) => OnceIn(queue', o)
    BY <1>3, DeliverySaved
  <2>2. \A o \in Fixed' : o \in ToSet(queue') \ ToSet(queue) =>
          o \notin Given /\ ~Unset(file'.pending, o) /\ ~InChain(o, writes') /\ o \in delivering'
    BY <1>2, <1>3, DeliveryNew
  <2>3. \A o \in Fixed' : o \in Occurrences /\ o \in Fixed
    BY <1>2, FixedFacts
  <2>4. \A o \in Fixed' : o \in Given' =>
          o \in Given \/ (~Unset(file'.pending, o) /\ ~InChain(o, writes') /\ o \in delivering')
    BY <1>1, <2>2 DEF Given, Known
  <2>5. \A o \in Fixed' : o \notin Given => o \notin started /\ flow[o] = "none"
    BY <2>3 DEF Given, Known
  <2>6. Placed(Fixed', queue', flow', started')
    BY <1>1, <2>1, <2>2, <2>3, <2>5 DEF Placed
  <2> QED BY <2>1, <2>4, <2>6 DEF Flows
<1>4. CASE ~Delivery
  <2>1. UNCHANGED <<queue, delivering>>
    BY <1>4 DEF Manager, Delivery, TimerFires, Refresh, CreateSaved, ArmSaved, Restore,
       ClockTicks, Create, Update, RemoveSchedule, RunNow, Tick, memory
  <2> QED BY <1>1, <1>2, <2>1, FewerPlaces
<1> QED BY <1>3, <1>4

\* The next of the queue goes into preparation.
LEMMA DrainFlows ==
  ASSUME TypeOK, Placed(Fixed, queue, flow, started), Drain, Fixed' \subseteq Fixed,
         queue # <<>>, queue' = Tail(queue), UNCHANGED <<started, file>>,
         \A o \in delivering \ delivering' : Unset(pending', o),
         \/ UNCHANGED flow
         \/ flow' = [flow EXCEPT ![Head(queue)] = "preparing"]
  PROVE  Flows
<1>1. queue \in Seq(Occurrences) /\ flow \in [Occurrences -> {"none", "preparing", "projecting"}]
  BY DEF TypeOK
<1>2. PICK h : h = Head(queue)
  OBVIOUS
<1>3. /\ h \in Occurrences /\ h = queue[1] /\ 1 \in DOMAIN queue
      /\ DOMAIN queue = 1 .. Len(queue) /\ DOMAIN Tail(queue) = 1 .. (Len(queue) - 1)
      /\ Len(queue) \in Nat
      /\ \A i \in DOMAIN Tail(queue) : i + 1 \in DOMAIN queue /\ Tail(queue)[i] = queue[i + 1]
  BY <1>1, <1>2, QueueFacts
<1>4. ToSet(queue') \subseteq ToSet(queue) /\ h \in ToSet(queue)
  BY <1>3 DEF ToSet
<1>5. \A o \in Occurrences : o # h => flow'[o] = flow[o]
  BY <1>1, <1>2
<1>6. flow'[h] \in {flow[h], "preparing"}
  BY <1>1, <1>2, <1>3
<1>7. ASSUME NEW o \in Occurrences, OnceIn(queue, o)
      PROVE  OnceIn(queue', o) /\ (o = h => o \notin ToSet(queue'))
  <2>1. \A i \in DOMAIN queue' : i \in Int /\ i + 1 \in DOMAIN queue /\ queue'[i] = queue[i + 1] /\ i + 1 # 1
    BY <1>3
  <2>2. OnceIn(queue', o)
    <3>1. SUFFICES ASSUME NEW i \in DOMAIN queue', NEW j \in DOMAIN queue', queue'[i] = o, queue'[j] = o
                   PROVE  i = j
      BY DEF OnceIn
    <3>2. i + 1 = j + 1
      BY <1>7, <2>1, <3>1 DEF OnceIn
    <3> QED BY <2>1, <3>2
  <2>3. o = h => o \notin ToSet(queue')
    BY <1>3, <1>7, <2>1 DEF OnceIn, ToSet
  <2> QED BY <2>2, <2>3
<1>8. \A o \in Fixed' : o \in Given' => o \in Given
  BY <1>4, <1>5 DEF Given, Known
<1>9. Placed(Fixed', queue', flow', started')
  <2>1. SUFFICES ASSUME NEW o \in Fixed'
                 PROVE  /\ OnceIn(queue', o)
                        /\ o \in ToSet(queue') => flow'[o] = "none" /\ o \notin started'
                        /\ flow'[o] = "preparing" => o \notin started'
    BY DEF Placed
  <2>2. /\ o \in Occurrences /\ OnceIn(queue, o)
        /\ o \in ToSet(queue) => flow[o] = "none" /\ o \notin started
        /\ flow[o] = "preparing" => o \notin started
    BY FixedFacts DEF Placed
  <2> QED BY <1>4, <1>5, <1>6, <1>7, <2>2
<1> QED BY <1>8, <1>9 DEF Flows

\* An occurrence that could not start goes back to the head of the queue.
LEMMA BackFlows ==
  ASSUME TypeOK, Placed(Fixed, queue, flow, started), Fixed' \subseteq Fixed,
         NEW h \in Occurrences, flow[h] = "preparing", queue' = <<h>> \o queue,
         flow' = [flow EXCEPT ![h] = "none"], UNCHANGED <<started, delivering>>
  PROVE  Flows
<1>1. queue \in Seq(Occurrences) /\ flow \in [Occurrences -> {"none", "preparing", "projecting"}]
  BY DEF TypeOK
<1>2. /\ queue' \in Seq(Occurrences) /\ queue'[1] = h
      /\ DOMAIN queue = 1 .. Len(queue) /\ DOMAIN queue' = 1 .. (Len(queue) + 1)
      /\ Len(queue) \in Nat
      /\ \A i \in DOMAIN queue' : i # 1 => i - 1 \in DOMAIN queue /\ queue'[i] = queue[i - 1]
      /\ \A i \in DOMAIN queue' : i \in Int
  BY <1>1
<1>3. ToSet(queue') \subseteq ToSet(queue) \cup {h}
  BY <1>2 DEF ToSet
<1>4. ASSUME NEW o \in Occurrences, OnceIn(queue, o), o = h => o \notin ToSet(queue)
      PROVE  OnceIn(queue', o)
  <2>1. SUFFICES ASSUME NEW i \in DOMAIN queue', NEW j \in DOMAIN queue', queue'[i] = o, queue'[j] = o
                 PROVE  i = j
    BY DEF OnceIn
  <2>2. CASE o = h
    <3>1. i = 1 /\ j = 1
      BY <1>2, <1>4, <2>1, <2>2 DEF ToSet
    <3> QED BY <3>1
  <2>3. CASE o # h
    <3>1. i # 1 /\ j # 1
      BY <1>2, <2>1, <2>3
    <3>2. i - 1 = j - 1
      BY <1>2, <1>4, <2>1, <3>1 DEF OnceIn
    <3> QED BY <1>2, <3>2
  <2> QED BY <2>2, <2>3
<1>5. \A o \in Occurrences : flow'[o] = IF o = h THEN "none" ELSE flow[o]
  BY <1>1
<1>6. Given' \subseteq Given
  BY <1>3, <1>5 DEF Given, Known
<1>7. Placed(Fixed', queue', flow', started')
  <2>1. SUFFICES ASSUME NEW o \in Fixed'
                 PROVE  /\ OnceIn(queue', o)
                        /\ o \in ToSet(queue') => flow'[o] = "none" /\ o \notin started'
                        /\ flow'[o] = "preparing" => o \notin started'
    BY DEF Placed
  <2>2. /\ o \in Occurrences /\ OnceIn(queue, o)
        /\ o \in ToSet(queue) => flow[o] = "none" /\ o \notin started
        /\ flow[o] = "preparing" => o \notin started
    BY FixedFacts DEF Placed
  <2>3. o = h => o \notin ToSet(queue)
    BY <2>2
  <2> QED BY <1>3, <1>4, <1>5, <2>2, <2>3
<1> QED BY <1>6, <1>7 DEF Flows

LEMMA FinishDelivering ==
  ASSUME TypeOK, NEW o \in Occurrences, FinishOccurrence(o)
  PROVE  \A u \in delivering \ delivering' : Unset(pending', u)
BY DEF TypeOK, FinishOccurrence, Unset

LEMMA DispatcherFlows ==
  ASSUME TypeOK, Placed(Fixed, queue, flow, started), Dispatcher, ~GoesDown
  PROVE  Flows
<1> USE DEF base, counters, memory, dispatch
<1>1. Fixed' \subseteq Fixed
  BY FixedStep
<1>2. queue \in Seq(Occurrences) /\ flow \in [Occurrences -> {"none", "preparing", "projecting"}]
  BY DEF TypeOK
<1>3. CASE Drain
  <2>1. UNCHANGED <<started, file>>
    BY <1>3 DEF Drain
  <2>2. CASE UNCHANGED <<queue, flow, delivering>>
    BY <1>1, <2>1, <2>2, FewerPlaces
  <2>3. CASE queue # <<>> /\ queue' = Tail(queue) /\ FinishOccurrence(Head(queue)) /\ UNCHANGED flow
    <3>1. PICK h : h = Head(queue)
      OBVIOUS
    <3>2. h \in Occurrences /\ FinishOccurrence(h)
      BY <1>2, <2>3, <3>1, QueueFacts
    <3>3. \A u \in delivering \ delivering' : Unset(pending', u)
      BY <3>2, FinishDelivering
    <3> QED BY <1>1, <1>3, <2>1, <2>3, <3>3, DrainFlows
  <2>4. CASE /\ queue # <<>> /\ queue' = Tail(queue) /\ UNCHANGED delivering
             /\ flow' = [flow EXCEPT ![Head(queue)] = "preparing"]
    BY <1>1, <1>3, <2>1, <2>4, DrainFlows
  <2> QED BY <1>3, <2>2, <2>3, <2>4 DEF Drain, Finish
<1>4. CASE MarkSaved \/ Released \/ UserRunStarts \/ UserRunEnds \/ CompactionStarts \/ CompactionEnds
  <2>1. UNCHANGED <<queue, flow, delivering, started>>
    BY <1>4 DEF MarkSaved, Released, UserRunStarts, UserRunEnds, CompactionStarts, CompactionEnds
  <2> QED BY <1>1, <2>1, FewerPlaces
<1>5. CASE WriteFails
  <2>1. /\ writes # <<>> /\ UNCHANGED <<queue, flow, started>>
        /\ UNCHANGED delivering \/ \E o \in Head(writes).occs : FinishOccurrence(o)
    BY <1>5 DEF WriteFails
  <2>2. Head(writes).occs \subseteq Occurrences
    BY <2>1, TypeParts, TailFacts DEF ManagerTypes, Write
  <2>3. \A u \in delivering \ delivering' : Unset(pending', u)
    BY <2>1, <2>2, FinishDelivering
  <2> QED BY <1>1, <2>1, <2>3, FewerPlaces
<1>6. CASE TaskStop
  <2>1. queue' = <<>> /\ UNCHANGED <<flow, delivering, started, file, writes>>
    BY <1>6 DEF TaskStop
  <2>2. ToSet(queue') = {} /\ DOMAIN queue' = {}
    BY <2>1 DEF ToSet
  <2> QED BY <1>1, <2>1, <2>2 DEF Flows, Placed, OnceIn, Given, Known
<1>7. ASSUME NEW h \in Occurrences, StartAgentRun(h) PROVE Flows
  <2>1. flow[h] = "preparing" /\ UNCHANGED delivering
    BY <1>7 DEF StartAgentRun
  <2>2. CASE /\ flow' = [flow EXCEPT ![h] = "projecting"] /\ started' = started \cup {h}
             /\ UNCHANGED queue
    <3>1. \A o \in Occurrences : flow'[o] = IF o = h THEN "projecting" ELSE flow[o]
      BY <1>2, <2>2
    <3>2. Given' \subseteq Given
      BY <2>1, <2>2, <3>1 DEF Given, Known
    <3>3. Placed(Fixed', queue', flow', started')
      BY <1>1, <2>1, <2>2, <3>1, FixedFacts DEF Placed
    <3> QED BY <2>1, <3>2, <3>3 DEF Flows
  <2>3. CASE /\ queue' = <<h>> \o queue /\ flow' = [flow EXCEPT ![h] = "none"]
             /\ UNCHANGED started
    BY <1>1, <2>1, <2>3, BackFlows
  <2> QED BY <1>7, <2>2, <2>3 DEF StartAgentRun
<1>8. ASSUME NEW h \in Occurrences,
             \/ PreparationFails(h) \/ StartProjectionFails(h) \/ Mark(h) \/ RunEnds(h) \/ Settle(h)
             \/ EndProjectionFails(h)
      PROVE  Flows
  <2>1. /\ UNCHANGED <<queue, started>>
        /\ flow' = flow \/ flow' = [flow EXCEPT ![h] = "none"]
        /\ UNCHANGED delivering \/ FinishOccurrence(h)
    BY <1>8 DEF PreparationFails, StartProjectionFails, EndProjectionFails, Mark, RunEnds, Settle,
       Finish
  <2>2. \A u \in delivering \ delivering' : Unset(pending', u)
    BY <2>1, FinishDelivering
  <2>3. \A o \in Occurrences : flow'[o] \in {flow[o], "none"}
    BY <1>2, <2>1
  <2>4. Given' \subseteq Given
    BY <2>1, <2>3 DEF Given, Known
  <2>5. Placed(Fixed', queue', flow', started')
    <3>1. \A o \in Fixed' : o \in Fixed /\ flow'[o] \in {flow[o], "none"}
      BY <1>1, <2>3, FixedFacts
    <3> QED BY <2>1, <3>1 DEF Placed
  <2> QED BY <2>2, <2>4, <2>5 DEF Flows
<1> QED BY <1>3, <1>4, <1>5, <1>6, <1>7, <1>8 DEF Dispatcher

------------------------------------------------------------------------------
(***************************************************************************)
(* The invariant: steps of a running process, the end of one, a restart.   *)
(***************************************************************************)

LEMMA DownStep ==
  ASSUME TypeOK, Down,
         \/ Manager /\ Histories /\ UNCHANGED <<draining, run, compacting, retry, flow, settling, stops>>
         \/ Dispatcher
  PROVE  Down'
<1> USE DEF base, counters, memory, dispatch
<1>1. CASE GoesDown
  BY <1>1 DEF GoesDown, Down
<1>2. CASE ~GoesDown /\ ~Restore /\ up
  <2>1. up' = up
    BY <1>2 DEF Manager, Dispatcher, TimerFires, Refresh, CreateSaved, ArmSaved, TickSaved,
       RunNowSaved, InitSaved, StartSaved, ClockTicks, Create, Update, RemoveSchedule, RunNow,
       Drain, MarkSaved, Released, WriteFails, UserRunStarts, UserRunEnds, CompactionStarts,
       CompactionEnds, TaskStop, StartAgentRun, PreparationFails, StartProjectionFails,
         EndProjectionFails, Mark, RunEnds, Settle
  <2> QED BY <1>2, <2>1 DEF Down
<1>3. CASE Restore
  BY <1>3 DEF Restore, Down
<1>4. CASE ~up /\ ~Restore /\ ~GoesDown
  <2>1. ClockTicks
    BY <1>4 DEF Down, Manager, Dispatcher, TimerFires, Refresh, CreateSaved, ArmSaved, TickSaved,
       RunNowSaved, InitSaved, StartSaved, Landed, Create, Update, RemoveSchedule, RunNow, Edit,
       Drain, MarkSaved, Released, WriteFails, UserRunStarts, UserRunEnds, CompactionStarts,
       CompactionEnds, TaskStop, StartAgentRun, PreparationFails, StartProjectionFails,
         EndProjectionFails, Mark, RunEnds, Settle
  <2>2. /\ UNCHANGED <<writes, queue, pending, delivering>> /\ up' = FALSE
    BY <1>4, <2>1 DEF ClockTicks, TypeOK
  <2>3. UNCHANGED flow
    <3>1. ~Dispatcher
      BY <1>4 DEF Down, Dispatcher,
       Drain, MarkSaved, Released, WriteFails, UserRunStarts, UserRunEnds, CompactionStarts,
       CompactionEnds, TaskStop, Edit, Landed,
       StartAgentRun, PreparationFails, StartProjectionFails,
         EndProjectionFails, Mark, RunEnds, Settle
    <3> QED BY <3>1
  <2> QED BY <1>4, <2>2, <2>3 DEF Down
<1> QED BY <1>1, <1>2, <1>3, <1>4

LEMMA RunningStep ==
  ASSUME IInv, ~Restore, ~GoesDown,
         \/ Manager /\ Histories /\ UNCHANGED <<draining, run, compacting, retry, flow, settling, stops>>
         \/ Dispatcher
  PROVE  IInv'
<1>1. /\ TypeOK /\ Down /\ SingleEverywhere /\ ChainOK(writes, pending) /\ MadeOK
      /\ Names(Fixed, Given, writes, file, sched, pending, Moment)
      /\ Held(Fixed, Given, pending, delivering) /\ Awaited(Fixed, Given, writes)
      /\ Placed(Fixed, queue, flow, started)
  BY DEF IInv
<1>2. Made(sched)
  BY <1>1 DEF MadeOK
<1>3. Shape
  BY <1>1, <1>2, ManagerShape, DispatcherShape
<1>4. Flows
  BY <1>1, ManagerFlows, DispatcherFlows
<1>5. Fixed' \subseteq Fixed
  BY <1>1, FixedStep
<1>6. TypeOK'
  BY <1>1, TypeStep DEF Next
<1>7. Down' /\ SingleEverywhere' /\ ChainOK(writes', pending') /\ MadeOK'
  BY <1>1, <1>3, DownStep, ShapeSingle, ShapeChain, ShapeMade
<1>8. Names(Fixed', Given', writes', file', sched', pending', Moment')
  <2>1. Names(Fixed', Given, writes', file', sched', pending', Moment')
    BY <1>1, <1>3, <1>5, ShapeNames
  <2>2. \A o \in Fixed' : o \in Given' => o \in Given \/ ~Unset(file'.pending, o)
    BY <1>4 DEF Flows
  <2> QED BY <2>1, <2>2, NamesGiven
<1>9. Awaited(Fixed', Given', writes')
  <2>1. Awaited(Fixed', Given, writes')
    BY <1>1, <1>3, <1>5, ShapeAwaited
  <2>2. \A o \in Fixed' : o \in Given' => o \in Given \/ ~InChain(o, writes')
    BY <1>4 DEF Flows
  <2> QED BY <2>1, <2>2, AwaitedFewer
<1>10. Held(Fixed', Given', pending', delivering')
  <2>1. SUFFICES ASSUME NEW o \in Fixed', o \in Given', ~Unset(pending', o) PROVE o \in delivering'
    BY DEF Held
  <2>2. CASE o \in Given
    <3>1. ~Unset(pending, o) /\ o \in Fixed
      BY <1>1, <1>3, <1>5, <2>1, <2>2, ShapePending
    <3>2. o \in delivering
      BY <1>1, <2>2, <3>1 DEF Held
    <3> QED BY <1>4, <2>1, <3>2 DEF Flows
  <2>3. CASE o \notin Given
    BY <1>4, <2>1, <2>3 DEF Flows
  <2> QED BY <2>2, <2>3
<1> QED BY <1>4, <1>6, <1>7, <1>8, <1>9, <1>10 DEF IInv, Flows

\* What is past for the file is past for the state that is read from it, and
\* for no state at all.
LEMMA GoesDownStep ==
  ASSUME IInv, GoesDown
  PROVE  IInv'
<1>1. /\ TypeOK /\ Down /\ SingleEverywhere /\ MadeOK
      /\ Names(Fixed, Given, writes, file, sched, pending, Moment)
  BY DEF IInv
<1>2. /\ UNCHANGED <<now, fresh, early, file, edits, started, renewed>> /\ up' = FALSE
      /\ sched' = NoSchedules /\ pending' = Nothing /\ delivering' = {}
      /\ writes' = <<>> /\ queue' = <<>> /\ flow' = Nothing
  BY DEF GoesDown
<1>3. Dispatcher
  BY DEF Dispatcher
<1>4. TypeOK' /\ Down'
  BY <1>1, <1>3, TypeStep, DownStep DEF Next
<1>5. /\ \A o \in Occurrences : Unset(pending', o) /\ flow'[o] = "none"
      /\ ToSet(queue') = {} /\ DOMAIN queue' = {} /\ DOMAIN writes' = {}
      /\ \A s \in Schedules : sched'[s] = None
  BY <1>2 DEF Unset, Nothing, NoSchedules, ToSet
<1>6. SingleEverywhere'
  <2>1. \A s \in Schedules, d \in 1 .. MaxTime : <<s, d>> \in Occurrences
    BY ScheduleAssumption DEF Occurrences
  <2> QED BY <1>1, <1>2, <1>5, <2>1 DEF SingleEverywhere, Single
<1>7. ChainOK(writes', pending') /\ \A F, W : Awaited(F, W, writes')
  BY <1>5 DEF ChainOK, Awaited, Distinct, InChain
<1>8. fresh \subseteq Schedules
  BY <1>1 DEF TypeOK
<1>9. MadeOK'
  BY <1>1, <1>2, <1>5, <1>8 DEF MadeOK, Made
<1>10. Fixed' = Fixed /\ Given' \subseteq Given /\ Moment' = Moment
  BY <1>2, <1>5 DEF Fixed, Given, Known, Moment
<1>11. Names(Fixed', Given', writes', file', sched', pending', Moment')
  <2>1. ASSUME NEW o \in Occurrences, Past(o, file.sched, Moment) PROVE Past(o, sched', Moment')
    BY <1>5, <1>10, <2>1, OccurrenceFacts DEF Past
  <2> QED BY <1>1, <1>2, <1>5, <1>10, <2>1, FixedFacts DEF Names, PastFrom, InChain
<1>12. Held(Fixed', Given', pending', delivering') /\ Placed(Fixed', queue', flow', started')
  BY <1>5, <1>10, FixedFacts DEF Held, Placed, OnceIn
<1> QED BY <1>4, <1>6, <1>7, <1>9, <1>11, <1>12 DEF IInv

LEMMA RestoreStep ==
  ASSUME IInv, Restore, Histories, UNCHANGED <<draining, run, compacting, retry, flow, settling, stops>>
  PROVE  IInv'
<1>1. /\ TypeOK /\ Down /\ SingleEverywhere /\ MadeOK
      /\ Names(Fixed, Given, writes, file, sched, pending, Moment)
  BY DEF IInv
<1>2. /\ ~up /\ up' = TRUE /\ sched' = file.sched /\ pending' = Recovered
      /\ UNCHANGED <<now, fresh, early, delivering, file, queue, edits>>
      /\ Persist(<<>>, "init", {})
  BY DEF Restore, counters
<1>3. Manager
  BY DEF Manager
<1>4. TypeOK' /\ Down' /\ Fixed' \subseteq Fixed
  BY <1>1, <1>3, TypeStep, DownStep, FixedStep DEF Next
<1>5. queue' = <<>> /\ flow' = Nothing
  BY <1>1, <1>2 DEF Down
<1>6. /\ \A o \in Occurrences : flow'[o] = "none"
      /\ ToSet(queue') = {} /\ DOMAIN queue' = {}
  BY <1>5 DEF Nothing, ToSet
<1>7. started' \subseteq started /\ \A o \in started' : file.pending[o] # "queued"
  BY <1>1, <1>2 DEF Histories, TypeOK
<1>8. \A o \in Occurrences : ~Unset(pending', o) => file.pending[o] = "queued" /\ ~Unset(file.pending, o)
  BY <1>2 DEF Recovered, Unset
<1>9. /\ DOMAIN writes' = {1} /\ writes'[1].kind = "init"
      /\ writes'[1].saves.sched = sched' /\ writes'[1].saves.pending = pending'
  <2>1. PICK c, occs : c = <<>> /\ occs = {}
    OBVIOUS
  <2>2. Persist(c, "init", occs) /\ c \in Seq(Write) /\ occs \subseteq Occurrences
    BY <1>2, <2>1
  <2>3. sched' \in Rows /\ pending' \in Marks
    BY <1>1, <1>3, ManagerTypesStep DEF ManagerTypes
  <2>4. PICK w \in Write : /\ writes' = Append(c, w) /\ w.kind = "init"
                           /\ w.saves = [sched |-> sched', pending |-> pending']
    BY <2>2, <2>3, PersistType DEF Kinds
  <2>5. writes' = <<w>>
    BY <2>1, <2>4
  <2> QED BY <2>4, <2>5
<1>10. SingleEverywhere'
  <2>1. \A s \in Schedules, d \in 1 .. MaxTime : <<s, d>> \in Occurrences
    BY ScheduleAssumption DEF Occurrences
  <2>2. Single(pending')
    BY <1>1, <1>8, <2>1 DEF SingleEverywhere, Single
  <2> QED BY <1>1, <1>2, <1>9, <2>2 DEF SingleEverywhere
<1>11. ChainOK(writes', pending') /\ \A F, W : Awaited(F, W, writes')
  BY <1>9 DEF ChainOK, Awaited, Distinct, InChain, Hands
<1>12. MadeOK'
  BY <1>1, <1>2, <1>9 DEF MadeOK, Made
<1>13. Given' \subseteq started' /\ Given' \subseteq Given /\ Moment' = Moment
  BY <1>2, <1>6, <1>7 DEF Given, Known, Moment
<1>14. Names(Fixed', Given', writes', file', sched', pending', Moment')
  <2>1. SUFFICES ASSUME NEW o \in Fixed'
        PROVE  /\ ~Unset(pending', o) \/ InChain(o, writes') => Past(o, sched', Moment')
               /\ ~Unset(file'.pending, o) \/ o \in Given' =>
                    Past(o, file'.sched, Moment') /\ PastFrom(o, 1, writes', sched', Moment')
               /\ \A i \in DOMAIN writes' :
                    ~Unset(writes'[i].saves.pending, o) => PastFrom(o, i, writes', sched', Moment')
    BY DEF Names
  <2>2. o \in Fixed /\ o \in Occurrences
    BY <1>4, FixedFacts
  <2>3. ~Unset(file.pending, o) \/ o \in Given => Past(o, file.sched, Moment)
    BY <1>1, <2>2 DEF Names
  <2>4. ~InChain(o, writes')
    BY <1>9 DEF InChain, Hands
  <2>5. ~Unset(file'.pending, o) \/ ~Unset(pending', o) \/ o \in Given' => Past(o, sched', Moment')
    BY <1>2, <1>8, <1>13, <2>2, <2>3
  <2>6. \A i \in DOMAIN writes' : writes'[i].saves.sched = sched' /\ writes'[i].saves.pending = pending'
    BY <1>9
  <2> QED BY <1>2, <2>4, <2>5, <2>6 DEF PastFrom
<1>15. Held(Fixed', Given', pending', delivering')
  BY <1>4, <1>7, <1>8, <1>13, FixedFacts DEF Held
<1>16. Placed(Fixed', queue', flow', started')
  BY <1>4, <1>6, FixedFacts DEF Placed, OnceIn
<1> QED BY <1>4, <1>10, <1>11, <1>12, <1>14, <1>15, <1>16 DEF IInv

LEMMA IInvInit == Init => IInv
<1> SUFFICES ASSUME Init PROVE IInv
  OBVIOUS
<1>1. TypeOK /\ Down
  BY TypeInit DEF Init, Down
<1>2. /\ writes = <<>> /\ queue = <<>> /\ pending = Nothing /\ flow = Nothing /\ started = {}
      /\ file.sched = NoSchedules /\ file.pending = Nothing /\ sched = NoSchedules
      /\ fresh = Schedules /\ delivering = {}
  BY DEF Init
<1>3. /\ \A o \in Occurrences : Unset(pending, o) /\ Unset(file.pending, o) /\ flow[o] = "none"
      /\ ToSet(queue) = {} /\ DOMAIN queue = {} /\ DOMAIN writes = {}
      /\ \A s \in Schedules : sched[s] = None /\ file.sched[s] = None
  BY <1>2 DEF Unset, Nothing, NoSchedules, ToSet
<1>4. SingleEverywhere
  <2>1. \A s \in Schedules, d \in 1 .. MaxTime : <<s, d>> \in Occurrences
    BY ScheduleAssumption DEF Occurrences
  <2> QED BY <1>3, <2>1 DEF SingleEverywhere, Single
<1>5. ChainOK(writes, pending) /\ Awaited(Fixed, Given, writes)
  BY <1>3 DEF ChainOK, Awaited, Distinct, InChain
<1>6. MadeOK
  BY <1>2, <1>3 DEF MadeOK, Made
<1>7. Given = {}
  BY <1>2, <1>3 DEF Given, Known
<1>8. Names(Fixed, Given, writes, file, sched, pending, Moment)
  BY <1>3, <1>7, FixedFacts DEF Names, InChain
<1>9. Held(Fixed, Given, pending, delivering) /\ Placed(Fixed, queue, flow, started)
  BY <1>2, <1>3, <1>7, FixedFacts DEF Held, Placed, OnceIn
<1> QED BY <1>1, <1>4, <1>5, <1>6, <1>8, <1>9 DEF IInv

LEMMA IInvStep == IInv /\ [Next]_vars => IInv'
<1> SUFFICES ASSUME IInv, [Next]_vars PROVE IInv'
  OBVIOUS
<1>1. CASE Next
  <2>1. \/ Manager /\ Histories /\ UNCHANGED <<draining, run, compacting, retry, flow, settling, stops>>
        \/ Dispatcher
    BY <1>1 DEF Next
  <2>2. CASE GoesDown
    BY <2>2, GoesDownStep
  <2>3. CASE ~GoesDown /\ ~Restore
    BY <2>1, <2>3, RunningStep
  <2>4. CASE ~GoesDown /\ Restore
    <3>1. ~up
      BY <2>4 DEF Restore
    <3>2. ~Dispatcher
      BY <2>4, <3>1 DEF IInv, Down, Dispatcher, Drain, MarkSaved, Released, WriteFails, Landed,
         UserRunStarts, UserRunEnds, CompactionStarts, CompactionEnds, TaskStop, Edit, StartAgentRun, PreparationFails, StartProjectionFails,
         EndProjectionFails, Mark, RunEnds, Settle
    <3> QED BY <2>1, <2>4, <3>2, RestoreStep
  <2> QED BY <2>2, <2>3, <2>4
<1>2. CASE UNCHANGED vars
  <2>1. UNCHANGED <<now, up, fresh, early, sched, pending, delivering, armed, writes, file, queue,
                    kick, edits, restarts, faults, draining, run, compacting, retry, flow, settling,
                    started, renewed, stops>>
    BY <1>2 DEF vars, base, memory, counters, dispatch
  <2>2. TypeOK' /\ Fixed' = Fixed /\ Given' = Given /\ Moment' = Moment
    BY <2>1 DEF TypeOK, IInv, Fixed, Given, Moment
  <2> QED BY <2>1, <2>2 DEF IInv, Down, SingleEverywhere, MadeOK, Made
<1> QED BY <1>1, <1>2

LEMMA AlwaysIInv == Spec => []IInv
<1> QED BY IInvInit, IInvStep, PTL DEF Spec

------------------------------------------------------------------------------
\* At most one occurrence of a recurring schedule waits or runs, so that a busy
\* task, a missed time or a restart never lets them pile up.
THEOREM NoneInWaiting == Spec => []NoPileUp
<1>1. IInv => NoPileUp
  BY DEF IInv, SingleEverywhere, Single, Unset, NoPileUp
<1> QED BY <1>1, AlwaysIInv, PTL

\* An occurrence that the dispatcher is handed is in the file by then, for every
\* order in which the writes of the chain are asked for and land or fail.
THEOREM SavedFirst == Spec => SavedBeforeDelivery
<1>1. IInv /\ [Next]_vars =>
        [\A o \in Occurrences \ early' : o \in delivering' \ delivering => file'.pending[o] # "none"]_vars
  <2> SUFFICES ASSUME IInv, Next, NEW o \in Occurrences \ early', o \in delivering' \ delivering
               PROVE  file'.pending[o] # "none"
    OBVIOUS
  <2>1. CASE Delivery
    BY <2>1, DeliverySaved DEF IInv, Unset
  <2>2. CASE ~Delivery
    <3>1. delivering' \subseteq delivering
      BY <2>2 DEF Next, Manager, Dispatcher, Delivery, TimerFires, Refresh, CreateSaved, ArmSaved,
         Restore, ClockTicks, Create, Update, RemoveSchedule, RunNow, Tick, memory,
         Drain, MarkSaved, Released, WriteFails, UserRunStarts, UserRunEnds, CompactionStarts, CompactionEnds, TaskStop, GoesDown,
         StartAgentRun, PreparationFails, StartProjectionFails,
         EndProjectionFails, Mark, RunEnds, Settle, Finish, FinishOccurrence
    <3> QED BY <3>1
  <2> QED BY <2>1, <2>2
<1> QED BY <1>1, AlwaysIInv, PTL DEF Spec, SavedBeforeDelivery

\* No occurrence starts a second time, in this process or a later one, but for
\* what the file had as waiting when the application went down.
THEOREM StartsOnce == Spec => RunsOnce
<1>1. IInv /\ [Next]_vars =>
        [\A o \in Occurrences \ (early \cup renewed) : run' = o /\ run # o => o \notin started]_vars
  <2> SUFFICES ASSUME IInv, Next, NEW o \in Occurrences \ (early \cup renewed), run' = o, run # o
               PROVE  o \notin started
    OBVIOUS
  <2>1. o # None /\ o # User
    BY ScheduleAssumption, DispatchAssumption
  <2>2. StartAgentRun(o)
    <3>1. ASSUME NEW u \in Occurrences, StartAgentRun(u) PROVE StartAgentRun(o)
      BY <3>1 DEF StartAgentRun
    <3> QED BY <2>1, <3>1 DEF Next, Dispatcher, Drain, MarkSaved, Released, WriteFails,
         UserRunStarts, UserRunEnds, CompactionStarts, CompactionEnds, TaskStop, GoesDown, PreparationFails, StartProjectionFails,
         EndProjectionFails, Mark, RunEnds, Settle,
         dispatch
  <2>3. flow[o] = "preparing"
    BY <2>2 DEF StartAgentRun
  <2> QED BY <2>3 DEF IInv, Placed, Fixed
<1> QED BY <1>1, AlwaysIInv, PTL DEF Spec, RunsOnce

==============================================================================
