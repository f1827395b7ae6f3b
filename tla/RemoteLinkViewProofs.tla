--------------------------- MODULE RemoteLinkViewProofs -------------------------
(***************************************************************************)
(* Proofs about RemoteLink, for any requests and watch lists, any block of *)
(* reserved numbers and any number of copies, lists and faults; and about  *)
(* RemoteView, for any conversations, scripts, page sizes and bounds.      *)
(***************************************************************************)
EXTENDS RemoteLink, RemoteView, SequenceTheorems, FiniteSetTheorems, WellFoundedInduction, TLAPS

\* What WriteAll works on.
Writers ==
    [sequence : Nat, reserved : Nat, waiting : Seq([frame : Frames, block : Nat]),
     wire : Seq(Frames), up : BOOLEAN]

\* A request is pending once.
PendingOnce == \A i, j \in 1..Len(pending) : pending[i] = pending[j] => i = j

Increasing(s) == \A i, j \in 1..Len(s) : i < j => s[i].number < s[j].number
Above(s, n) == \A i \in 1..Len(s) : n < s[i].number
UpTo(s, n) == \A i \in 1..Len(s) : s[i].number <= n

\* The numbers of the controller's direction at the peer: what it has acted on is in the
\* file, and what it has taken since is above that.
TakenInOrder ==
    /\ markSaved <= mark
    /\ Increasing(acted) /\ UpTo(acted, markSaved)
    /\ Increasing(intake) /\ UpTo(intake, mark) /\ Above(intake, markSaved)

\* A request is executed as long as it is kept, and only then.
ExecutedWhileKept ==
    \A r \in Requests : executed[r] = IF r \in running \cup done THEN 1 ELSE 0

\* The numbers of the other direction.
AnswersReserved == sent <= peerReserved /\ clientMark <= sent /\ UpTo(toClient, sent)

-------------------------------------------------------------------------------
(***************************************************************************)
(* Sequences.                                                              *)
(***************************************************************************)
\* The first element of a sequence and the rest.
LEMMA HeadAndTail ==
    ASSUME NEW S, NEW s \in Seq(S), s # <<>>
    PROVE  /\ Len(s) \in Nat \ {0} /\ Head(s) = s[1] /\ Head(s) \in S
           /\ Tail(s) \in Seq(S) /\ Len(Tail(s)) = Len(s) - 1
           /\ \A i \in 1..Len(Tail(s)) : Tail(s)[i] = s[i + 1] /\ i + 1 \in 1..Len(s)
<1>1. Len(s) \in Nat \ {0} /\ Head(s) = s[1] /\ Head(s) \in S
  OBVIOUS
<1>2. Tail(s) \in Seq(S) /\ Len(Tail(s)) = Len(s) - 1
  OBVIOUS
<1>3. \A i \in 1..Len(Tail(s)) : Tail(s)[i] = s[i + 1] /\ i + 1 \in 1..Len(s)
  BY <1>1, <1>2
<1> QED
  BY <1>1, <1>2, <1>3

\* A sequence with an element after it.
LEMMA AtTheEnd ==
    ASSUME NEW S, NEW s \in Seq(S), NEW e \in S
    PROVE  /\ Append(s, e) \in Seq(S) /\ Len(s) \in Nat /\ Len(Append(s, e)) = Len(s) + 1
           /\ \A i \in 1..Len(s) : Append(s, e)[i] = s[i]
           /\ Append(s, e)[Len(s) + 1] = e
OBVIOUS

\* A sequence whose first element comes twice.
LEMMA Doubled ==
    ASSUME NEW S, NEW s \in Seq(S), s # <<>>
    PROVE  /\ <<Head(s)>> \o s \in Seq(S) /\ Len(<<Head(s)>> \o s) = Len(s) + 1
           /\ \A i \in 1..(Len(s) + 1) : \E j \in 1..Len(s) : (<<Head(s)>> \o s)[i] = s[j]
<1>1. Len(s) \in Nat \ {0} /\ Head(s) = s[1] /\ Head(s) \in S
  BY HeadAndTail
<1>2. <<Head(s)>> \in Seq(S) /\ Len(<<Head(s)>>) = 1 /\ <<Head(s)>>[1] = Head(s)
  BY <1>1
<1>3. /\ <<Head(s)>> \o s \in Seq(S) /\ Len(<<Head(s)>> \o s) = 1 + Len(s)
      /\ \A i \in 1..(1 + Len(s)) : (<<Head(s)>> \o s)[i] =
              IF i <= 1 THEN <<Head(s)>>[i] ELSE s[i - 1]
  BY <1>2, ConcatProperties
<1>4. ASSUME NEW i \in 1..(Len(s) + 1)
      PROVE  \E j \in 1..Len(s) : (<<Head(s)>> \o s)[i] = s[j]
  <2>1. CASE i = 1
    BY <1>1, <1>2, <1>3, <2>1
  <2>2. CASE i # 1
    <3>1. i - 1 \in 1..Len(s) /\ ~(i <= 1) /\ i \in 1..(1 + Len(s))
      BY <1>1, <2>2
    <3> QED
      BY <1>3, <3>1
  <2> QED
    BY <2>1, <2>2
<1> QED
  BY <1>1, <1>3, <1>4

\* Removing one element of a sequence that has none twice.
LEMMA Removed ==
    ASSUME NEW S, NEW q \in Seq(S), NEW k \in 1..Len(q),
           \A i, j \in 1..Len(q) : q[i] = q[j] => i = j
    PROVE  /\ RemoveAt(q, k) \in Seq(S)
           /\ \A i, j \in 1..Len(RemoveAt(q, k)) : RemoveAt(q, k)[i] = RemoveAt(q, k)[j] => i = j
           /\ \A x : (\E i \in 1..Len(RemoveAt(q, k)) : RemoveAt(q, k)[i] = x)
                 <=> (x # q[k] /\ \E i \in 1..Len(q) : q[i] = x)
<1> DEFINE r == RemoveAt(q, k)
           a == SubSeq(q, 1, k - 1)
           b == SubSeq(q, k + 1, Len(q))
<1>1. Len(q) \in Nat /\ k \in 1..Len(q)
  OBVIOUS
<1>2. a \in Seq(S) /\ Len(a) = k - 1 /\ \A i \in 1..(k - 1) : a[i] = q[i]
  BY <1>1
<1>3. b \in Seq(S) /\ Len(b) = Len(q) - k /\ \A i \in 1..(Len(q) - k) : b[i] = q[i + k]
  BY <1>1
<1>4. r = a \o b
  BY DEF RemoveAt
<1> HIDE DEF a, b, r
<1>5. r \in Seq(S) /\ Len(r) = Len(q) - 1
  <2>1. r \in Seq(S) /\ Len(r) = Len(a) + Len(b)
    BY <1>2, <1>3, <1>4, ConcatProperties
  <2> QED
    BY <1>1, <1>2, <1>3, <2>1
<1>6. \A i \in 1..(Len(q) - 1) : r[i] = IF i < k THEN q[i] ELSE q[i + 1]
  <2>1. ASSUME NEW i \in 1..(Len(q) - 1), i < k PROVE r[i] = q[i]
    BY <1>1, <1>2, <1>3, <1>4, <2>1, ConcatProperties
  <2>2. ASSUME NEW i \in 1..(Len(q) - 1), ~(i < k) PROVE r[i] = q[i + 1]
    <3>1. r[i] = b[i - (k - 1)] /\ i - (k - 1) \in 1..(Len(q) - k)
      BY <1>1, <1>2, <1>3, <1>4, <2>2, ConcatProperties
    <3>2. i - (k - 1) + k = i + 1
      BY <1>1
    <3> QED
      BY <1>3, <3>1, <3>2
  <2> QED
    BY <2>1, <2>2
<1>7. ASSUME NEW i \in 1..Len(r), NEW j \in 1..Len(r), r[i] = r[j] PROVE i = j
  <2>1. /\ r[i] = IF i < k THEN q[i] ELSE q[i + 1]
        /\ r[j] = IF j < k THEN q[j] ELSE q[j + 1]
    BY <1>5, <1>6
  <2>2. i \in 1..Len(q) /\ i + 1 \in 1..Len(q) /\ j \in 1..Len(q) /\ j + 1 \in 1..Len(q)
    BY <1>1, <1>5
  <2>3. (IF i < k THEN i ELSE i + 1) = (IF j < k THEN j ELSE j + 1)
    BY <1>7, <2>1, <2>2
  <2> QED
    BY <1>1, <2>2, <2>3
<1>8. ASSUME NEW i \in 1..Len(r)
      PROVE  r[i] # q[k] /\ \E j \in 1..Len(q) : q[j] = r[i]
  <2>1. r[i] = IF i < k THEN q[i] ELSE q[i + 1]
    BY <1>5, <1>6
  <2>2. PICK j \in 1..Len(q) : r[i] = q[j] /\ j # k
    BY <1>1, <1>5, <2>1
  <2> QED
    BY <2>2
<1>9. ASSUME NEW j \in 1..Len(q), q[j] # q[k] PROVE \E i \in 1..Len(r) : r[i] = q[j]
  <2>1. CASE j < k
    <3>1. j \in 1..(Len(q) - 1) /\ j \in 1..Len(r)
      BY <1>1, <1>5, <2>1
    <3> QED
      BY <1>6, <2>1, <3>1
  <2>2. CASE ~(j < k)
    <3>1. j - 1 \in 1..(Len(q) - 1) /\ j - 1 \in 1..Len(r) /\ ~(j - 1 < k) /\ j - 1 + 1 = j
      BY <1>1, <1>5, <1>9, <2>2
    <3>2. r[j - 1] = q[j]
      BY <1>6, <3>1
    <3> QED
      BY <3>1, <3>2
  <2> QED
    BY <2>1, <2>2
<1> QED
  BY <1>5, <1>7, <1>8, <1>9 DEF r

-------------------------------------------------------------------------------
(***************************************************************************)
(* Recursion.  What holds of 0 and is handed on from i - 1 to i holds up   *)
(* to N: the set of the numbers it does not hold of has no least element.  *)
(***************************************************************************)
LEMMA Climb ==
    ASSUME NEW N \in Nat, NEW T, 0 \in T, \A i \in 1..N : i - 1 \in T => i \in T
    PROVE  0..N \subseteq T
<1> DEFINE To(n) == 0..n
           Misses == {n \in 0..N : n \notin T}
           Chain == {To(n) : n \in Misses}
<1>1. SUFFICES ASSUME Misses # {} PROVE FALSE
  OBVIOUS
<1>2. IsFiniteSet(0..N)
  BY FS_Interval
<1>3. IsWellFoundedOn(StrictSubsetOrdering(0..N), FiniteSubsetsOf(0..N))
  BY <1>2, FS_StrictSubsetOrderingWellFounded
<1>4. Chain \subseteq FiniteSubsetsOf(0..N) /\ Chain # {}
  <2>1. FiniteSubsetsOf(0..N) = SUBSET (0..N)
    BY <1>2, FS_FiniteSubsetsOfFinite
  <2>2. \A n \in Misses : To(n) \subseteq 0..N
    OBVIOUS
  <2> HIDE DEF To
  <2> QED
    BY <1>1, <2>1, <2>2
<1>5. PICK x \in Chain : \A y \in Chain : <<y, x>> \notin StrictSubsetOrdering(0..N)
  BY <1>3, <1>4, WFMin
<1>6. PICK n \in Misses : x = To(n)
  BY <1>5
<1>7. n # 0 /\ n \in 1..N /\ n - 1 \in 0..N
  BY <1>6
<1>8. n - 1 \in Misses
  BY <1>6, <1>7
<1>9. To(n - 1) \in Chain /\ To(n - 1) \subseteq To(n) /\ To(n - 1) # To(n) /\ To(n) \subseteq 0..N
  BY <1>7, <1>8
<1> HIDE DEF To, Chain, Misses
<1> QED
  BY <1>4, <1>5, <1>6, <1>9 DEF StrictSubsetOrdering

\* AllWritten is what its equation says: some function takes each step from the one before.
LEMMA Unrolled ==
    ASSUME NEW before, NEW calls \in Seq(Calls)
    PROVE  \E after :
             /\ after = [i \in 0..Len(calls) |->
                           IF i = 0 THEN before ELSE Written(after[i - 1], calls[i])]
             /\ AllWritten(before, calls) = after[Len(calls)]
<1> DEFINE n == Len(calls)
           Steps(k, f) == [i \in 0..k |-> IF i = 0 THEN before ELSE Written(f[i - 1], calls[i])]
           T == {k \in 0..n : \E f : f = Steps(k, f)}
<1>1. n \in Nat
  OBVIOUS
<1>2. 0 \in T
  <2> DEFINE f == [i \in 0..0 |-> before]
  <2>1. \A i \in 0..0 : f[i] = before /\ i = 0
    OBVIOUS
  <2>2. f = [i \in 0..0 |-> f[i]]
    OBVIOUS
  <2> HIDE DEF f
  <2>3. [i \in 0..0 |-> f[i]]
            = [i \in 0..0 |-> IF i = 0 THEN before ELSE Written(f[i - 1], calls[i])]
    BY <2>1
  <2>4. f = Steps(0, f)
    BY <2>2, <2>3
  <2> QED
    BY <1>1, <2>4
<1>3. ASSUME NEW k \in 1..n, k - 1 \in T PROVE k \in T
  <2>1. PICK f : f = Steps(k - 1, f)
    BY <1>3
  <2> DEFINE h == [i \in 0..k |-> IF i < k THEN f[i] ELSE Written(f[k - 1], calls[k])]
  <2>2. h = Steps(k, h)
    <3>1. \A i \in 0..(k - 1) : f[i] = IF i = 0 THEN before ELSE Written(f[i - 1], calls[i])
      BY <2>1
    <3>2. ASSUME NEW i \in 0..k
          PROVE  h[i] = IF i = 0 THEN before ELSE Written(h[i - 1], calls[i])
      <4>1. CASE i < k
        <5>1. i \in 0..(k - 1) /\ h[i] = f[i]
          BY <4>1
        <5>2. i # 0 => h[i - 1] = f[i - 1]
          BY <4>1
        <5> QED
          BY <3>1, <5>1, <5>2
      <4>2. CASE i = k
        <5>1. h[i] = Written(f[k - 1], calls[k]) /\ i # 0 /\ h[i - 1] = f[i - 1]
          BY <4>2
        <5> QED
          BY <4>2, <5>1
      <4> QED
        BY <4>1, <4>2
    <3> HIDE DEF h
    <3>3. h = [i \in 0..k |-> h[i]]
      BY DEF h
    <3>4. [i \in 0..k |-> h[i]]
              = [i \in 0..k |-> IF i = 0 THEN before ELSE Written(h[i - 1], calls[i])]
      BY <3>2
    <3> QED
      BY <3>3, <3>4
  <2> HIDE DEF h, Steps
  <2>3. k \in 0..n /\ \E g : g = Steps(k, g)
    BY <1>1, <2>2
  <2> QED
    BY <2>3
<1>4. n \in T
  <2> HIDE DEF T, n
  <2>1. 0..n \subseteq T
    BY <1>1, <1>2, <1>3, Climb
  <2> QED
    BY <1>1, <2>1
<1>5. \E f : f = Steps(n, f)
  BY <1>4
<1>6. AllWritten(before, calls) = (CHOOSE f : f = Steps(n, f))[n]
  BY DEF AllWritten
<1> QED
  BY <1>5, <1>6

\* One write, and a sequence of them, leave what a writer works on of its type.
LEMMA WrittenTyped ==
    ASSUME NEW w \in Writers, NEW c \in Calls
    PROVE  Written(w, c) \in Writers
<1> DEFINE n == w.sequence + 1
<1>1. /\ w.sequence \in Nat /\ w.reserved \in Nat /\ w.up \in BOOLEAN
      /\ w.waiting \in Seq([frame : Frames, block : Nat]) /\ w.wire \in Seq(Frames)
      /\ w = [sequence |-> w.sequence, reserved |-> w.reserved, waiting |-> w.waiting,
              wire |-> w.wire, up |-> w.up]
  BY DEF Writers
<1>2. Block \in Nat \ {0}
  BY RemoteLinkAssumption
<1>3. n \in Nat \ {0} /\ n + Block - 1 \in Nat
  BY <1>1, <1>2
<1>4. Frame(n, c) \in Frames
  BY <1>3 DEF Frame, Frames
<1>5. [frame |-> Frame(n, c), block |-> n + Block - 1] \in [frame : Frames, block : Nat]
  BY <1>3, <1>4
<1> DEFINE e == [frame |-> Frame(n, c), block |-> n + Block - 1]
<1>6. /\ Append(w.waiting, e) \in Seq([frame : Frames, block : Nat])
      /\ Append(w.wire, Frame(n, c)) \in Seq(Frames)
  BY <1>1, <1>4, <1>5
<1>7. CASE n > w.reserved
  <2>1. Written(w, c) = [w EXCEPT !.reserved = n + Block - 1, !.waiting = Append(@, e)]
    BY <1>7 DEF Written
  <2> HIDE DEF n, e
  <2> QED
    BY <1>1, <1>3, <1>6, <2>1 DEF Writers
<1>8. CASE ~(n > w.reserved) /\ w.up
  <2>1. Written(w, c) = [w EXCEPT !.sequence = n, !.wire = Append(@, Frame(n, c))]
    BY <1>8 DEF Written
  <2> HIDE DEF n, e
  <2> QED
    BY <1>1, <1>3, <1>6, <2>1 DEF Writers
<1>9. CASE ~(n > w.reserved) /\ ~w.up
  BY <1>9 DEF Written
<1> QED
  BY <1>7, <1>8, <1>9

LEMMA AllWrittenTyped ==
    ASSUME NEW before \in Writers, NEW calls \in Seq(Calls)
    PROVE  AllWritten(before, calls) \in Writers
<1>1. PICK after :
         /\ after = [i \in 0..Len(calls) |->
                       IF i = 0 THEN before ELSE Written(after[i - 1], calls[i])]
         /\ AllWritten(before, calls) = after[Len(calls)]
  BY Unrolled
<1> DEFINE n == Len(calls)
           T == {i \in 0..n : after[i] \in Writers}
<1>2. n \in Nat
  OBVIOUS
<1>3. \A i \in 0..n : after[i] = IF i = 0 THEN before ELSE Written(after[i - 1], calls[i])
  BY <1>1
<1>4. 0 \in T
  BY <1>2, <1>3
<1>5. ASSUME NEW i \in 1..n, i - 1 \in T PROVE i \in T
  <2>1. after[i - 1] \in Writers /\ calls[i] \in Calls
    BY <1>5
  <2>2. after[i] = Written(after[i - 1], calls[i])
    BY <1>3, <1>5
  <2> QED
    BY <2>1, <2>2, WrittenTyped
<1>6. n \in T
  <2> HIDE DEF T, n
  <2>1. 0..n \subseteq T
    BY <1>2, <1>4, <1>5, Climb
  <2> QED
    BY <1>2, <2>1
<1> QED
  BY <1>1, <1>6

\* What WriteAll leaves.
LEMMA WriteAllTyped ==
    ASSUME TypeOK, NEW calls \in Seq(Calls), NEW up \in BOOLEAN, WriteAll(calls, up)
    PROVE  /\ sequence' \in Nat /\ reserved' \in Nat
           /\ waiting' \in Seq([frame : Frames, block : Nat]) /\ toPeer' \in Seq(Frames)
<1> DEFINE before == [sequence |-> sequence, reserved |-> reserved, waiting |-> waiting,
                      wire |-> toPeer, up |-> up]
           after == AllWritten(before, calls)
<1>1. before \in Writers
  BY DEF TypeOK, Writers
<1>2. after \in Writers
  <2> HIDE DEF before
  <2> QED
    BY <1>1, AllWrittenTyped
<1>3. /\ sequence' = after.sequence /\ reserved' = after.reserved
      /\ waiting' = after.waiting /\ toPeer' = after.wire
  BY DEF WriteAll
<1> HIDE DEF after
<1> QED
  BY <1>2, <1>3 DEF Writers

-------------------------------------------------------------------------------
(***************************************************************************)
(* Type correctness.                                                       *)
(***************************************************************************)
LEMMA InitTyped ==
    ASSUME Init PROVE TypeOK /\ PendingOnce
<1>1. /\ <<>> \in Seq(Requests) /\ <<>> \in Seq([frame : Frames, block : Nat])
      /\ <<>> \in Seq(Frames) /\ <<>> \in Seq(Calls) /\ Len(<<>>) = 0
  OBVIOUS
<1>2. 0 \in 0..MaxWatches /\ 0 \in 0..MaxFaults
  BY RemoteLinkAssumption
<1>3. /\ outcome \in [Requests -> {"new", "open", "answered", "failed"}]
      /\ \A r \in Requests : outcome[r] = "open" <=> \E i \in 1..Len(pending) : pending[i] = r
      /\ owed \in [Requests -> Nat] /\ executed \in [Requests -> Nat]
  BY <1>1 DEF Init
<1>4. PendingOnce
  BY <1>1 DEF Init, PendingOnce
<1> QED
  BY <1>1, <1>2, <1>3, <1>4 DEF Init, TypeOK

\* Settling a request takes it, and nothing else, out of what is pending.
LEMMA Settles ==
    ASSUME TypeOK, PendingOnce, NEW r \in Requests, outcome[r] = "open",
           NEW how \in {"answered", "failed"}, Settle(r, how)
    PROVE  /\ outcome' \in [Requests -> {"new", "open", "answered", "failed"}]
           /\ pending' \in Seq(Requests) /\ PendingOnce'
           /\ \A q \in Requests :
                 outcome'[q] = "open" <=> \E i \in 1..Len(pending') : pending'[i] = q
<1>1. /\ outcome \in [Requests -> {"new", "open", "answered", "failed"}]
      /\ pending \in Seq(Requests)
      /\ \A q \in Requests : outcome[q] = "open" <=> \E i \in 1..Len(pending) : pending[i] = q
  BY DEF TypeOK
<1>2. outcome' = [outcome EXCEPT ![r] = how]
  BY DEF Settle
<1>3. PICK k \in 1..Len(pending) : pending[k] = r /\ pending' = RemoveAt(pending, k)
  BY DEF Settle
<1>4. /\ pending' \in Seq(Requests)
      /\ \A i, j \in 1..Len(pending') : pending'[i] = pending'[j] => i = j
      /\ \A x : (\E i \in 1..Len(pending') : pending'[i] = x)
            <=> (x # r /\ \E i \in 1..Len(pending) : pending[i] = x)
  <2>1. PICK q : q = pending
    OBVIOUS
  <2>2. q \in Seq(Requests) /\ k \in 1..Len(q) /\ \A i, j \in 1..Len(q) : q[i] = q[j] => i = j
    BY <1>1, <2>1 DEF PendingOnce
  <2>3. /\ RemoveAt(q, k) \in Seq(Requests)
        /\ \A i, j \in 1..Len(RemoveAt(q, k)) : RemoveAt(q, k)[i] = RemoveAt(q, k)[j] => i = j
        /\ \A x : (\E i \in 1..Len(RemoveAt(q, k)) : RemoveAt(q, k)[i] = x)
              <=> (x # q[k] /\ \E i \in 1..Len(q) : q[i] = x)
    BY <2>2, Removed
  <2>4. q[k] = r
    BY <1>3, <2>1
  <2>5. PICK p : p = RemoveAt(q, k)
    OBVIOUS
  <2>6. pending' = p
    BY <1>3, <2>1, <2>5
  <2>7. p \in Seq(Requests) /\ \A i, j \in 1..Len(p) : p[i] = p[j] => i = j
    BY <2>3, <2>5
  <2>8. \A x : (\E i \in 1..Len(p) : p[i] = x) <=> (x # q[k] /\ \E i \in 1..Len(q) : q[i] = x)
    BY <2>3, <2>5
  <2>9. \A x : (\E i \in 1..Len(p) : p[i] = x) <=> (x # r /\ \E i \in 1..Len(pending) : pending[i] = x)
    BY <2>1, <2>4, <2>8
  <2> QED
    BY <2>6, <2>7, <2>9
<1>5. \A q \in Requests : outcome'[q] = "open" <=> q # r /\ outcome[q] = "open"
  BY <1>1, <1>2
<1> QED
  BY <1>1, <1>2, <1>4, <1>5 DEF PendingOnce

LEMMA RequestTyped ==
    ASSUME TypeOK, PendingOnce, NEW r \in Requests, Request(r)
    PROVE  TypeOK' /\ PendingOnce'
<1>1. /\ outcome \in [Requests -> {"new", "open", "answered", "failed"}]
      /\ pending \in Seq(Requests) /\ clientUp \in BOOLEAN
      /\ \A q \in Requests : outcome[q] = "open" <=> \E i \in 1..Len(pending) : pending[i] = q
  BY DEF TypeOK
<1>2. /\ outcome[r] = "new" /\ outcome' = [outcome EXCEPT ![r] = "open"]
      /\ pending' = Append(pending, r) /\ WriteAll(<<r>>, clientUp)
  BY DEF Request
<1>3. /\ pending' \in Seq(Requests) /\ Len(pending) \in Nat /\ Len(pending') = Len(pending) + 1
      /\ \A i \in 1..Len(pending) : pending'[i] = pending[i]
      /\ pending'[Len(pending) + 1] = r
  BY <1>1, <1>2, AtTheEnd
<1>4. \A i \in 1..Len(pending) : pending[i] # r
  BY <1>1, <1>2
<1>5. PendingOnce'
  <2>1. ASSUME NEW i \in 1..Len(pending'), NEW j \in 1..Len(pending'), pending'[i] = pending'[j]
        PROVE  i = j
    BY <1>3, <1>4, <2>1 DEF PendingOnce
  <2> QED
    BY <2>1 DEF PendingOnce
<1>6. ASSUME NEW q \in Requests
      PROVE  outcome'[q] = "open" <=> \E i \in 1..Len(pending') : pending'[i] = q
  <2>1. outcome'[q] = IF q = r THEN "open" ELSE outcome[q]
    BY <1>1, <1>2
  <2>2. (\E i \in 1..Len(pending') : pending'[i] = q)
            <=> q = r \/ \E i \in 1..Len(pending) : pending[i] = q
    <3>1. Len(pending) + 1 \in 1..Len(pending') /\ \A i \in 1..Len(pending) : i \in 1..Len(pending')
      BY <1>3
    <3>2. \A i \in 1..Len(pending') : i \in 1..Len(pending) \/ i = Len(pending) + 1
      BY <1>3
    <3> QED
      BY <1>3, <3>1, <3>2
  <2> QED
    BY <1>1, <2>1, <2>2
<1>7. <<r>> \in Seq(Calls)
  BY DEF Calls
<1>8. /\ sequence' \in Nat /\ reserved' \in Nat
      /\ waiting' \in Seq([frame : Frames, block : Nat]) /\ toPeer' \in Seq(Frames)
  BY <1>1, <1>2, <1>7, WriteAllTyped
<1>9. outcome' \in [Requests -> {"new", "open", "answered", "failed"}]
  BY <1>1, <1>2
<1> QED
  BY <1>3, <1>5, <1>6, <1>8, <1>9
     DEF Request, TypeOK, peerVars, markVars, responseVars

LEMMA RetryTyped ==
    ASSUME TypeOK, PendingOnce, NEW r \in Requests, Retry(r)
    PROVE  TypeOK' /\ PendingOnce'
<1>1. <<r>> \in Seq(Calls)
  BY DEF Calls
<1>2. WriteAll(<<r>>, TRUE)
  BY DEF Retry
<1>3. /\ sequence' \in Nat /\ reserved' \in Nat
      /\ waiting' \in Seq([frame : Frames, block : Nat]) /\ toPeer' \in Seq(Frames)
  BY <1>1, <1>2, WriteAllTyped
<1>4. PendingOnce'
  BY DEF PendingOnce, Retry, askVars
<1> QED
  BY <1>3, <1>4 DEF Retry, TypeOK, askVars, peerVars, markVars, responseVars

LEMMA GiveUpTyped ==
    ASSUME TypeOK, PendingOnce, NEW r \in Requests, GiveUp(r)
    PROVE  TypeOK' /\ PendingOnce'
<1>1. /\ outcome' \in [Requests -> {"new", "open", "answered", "failed"}]
      /\ pending' \in Seq(Requests) /\ PendingOnce'
      /\ \A q \in Requests :
            outcome'[q] = "open" <=> \E i \in 1..Len(pending') : pending'[i] = q
  BY Settles DEF GiveUp
<1> QED
  BY <1>1 DEF GiveUp, TypeOK, writeVars, peerVars, markVars, responseVars

LEMMA WatchTyped ==
    ASSUME TypeOK, PendingOnce, NEW l \in Lists, WatchTasks(l)
    PROVE  TypeOK' /\ PendingOnce'
<1>1. <<l>> \in Seq(Calls) /\ clientUp \in BOOLEAN
  BY DEF Calls, TypeOK
<1>2. /\ sequence' \in Nat /\ reserved' \in Nat
      /\ waiting' \in Seq([frame : Frames, block : Nat]) /\ toPeer' \in Seq(Frames)
  BY <1>1, WriteAllTyped DEF WatchTasks
<1>3. PendingOnce'
  BY DEF PendingOnce, WatchTasks
<1>4. watches' \in 0..MaxWatches
  BY RemoteLinkAssumption DEF WatchTasks, TypeOK
<1> QED
  BY <1>2, <1>3, <1>4 DEF WatchTasks, TypeOK, peerVars, markVars, responseVars

\* The controller's side of the link.
LEMMA ClientTyped ==
    ASSUME TypeOK, PendingOnce, BlockSaved \/ ClientDrops \/ ClientConnects
    PROVE  TypeOK' /\ PendingOnce'
<1>1. /\ waiting \in Seq([frame : Frames, block : Nat]) /\ toPeer \in Seq(Frames)
      /\ pending \in Seq(Requests) /\ watching \in Lists \cup {NoList}
      /\ clientUp \in BOOLEAN /\ sequence \in Nat
  BY DEF TypeOK
<1>2. CASE BlockSaved
  <2>1. /\ Head(waiting) \in [frame : Frames, block : Nat]
        /\ Tail(waiting) \in Seq([frame : Frames, block : Nat])
    BY <1>1, <1>2, HeadAndTail DEF BlockSaved
  <2>2. /\ Head(waiting).frame \in Frames /\ Head(waiting).block \in Nat
        /\ Head(waiting).frame.number \in Nat
    BY <2>1 DEF Frames
  <2>3. sequence' \in Nat /\ toPeer' \in Seq(Frames)
    <3>1. Append(toPeer, Head(waiting).frame) \in Seq(Frames)
      BY <1>1, <2>2
    <3> QED
      BY <1>1, <1>2, <2>2, <3>1 DEF BlockSaved
  <2>4. reservedSaved' \in Nat /\ waiting' \in Seq([frame : Frames, block : Nat])
    BY <1>2, <2>1, <2>2 DEF BlockSaved
  <2>5. PendingOnce'
    BY <1>2 DEF PendingOnce, BlockSaved, askVars
  <2> QED
    BY <1>2, <2>3, <2>4, <2>5
       DEF BlockSaved, TypeOK, askVars, peerVars, markVars, responseVars
<1>3. CASE ClientDrops
  <2>1. faults' \in 0..MaxFaults
    BY <1>3, RemoteLinkAssumption DEF ClientDrops, Fault, TypeOK
  <2>2. PendingOnce'
    BY <1>3 DEF PendingOnce, ClientDrops, askVars
  <2> QED
    BY <1>3, <2>1, <2>2
       DEF ClientDrops, TypeOK, askVars, writeVars, peerVars, markVars, responseVars
<1>4. CASE ClientConnects
  <2> DEFINE calls == pending \o (IF watching = NoList THEN <<>> ELSE <<watching>>)
  <2>1. calls \in Seq(Calls)
    <3>1. pending \in Seq(Calls)
      BY <1>1 DEF Calls
    <3>2. (IF watching = NoList THEN <<>> ELSE <<watching>>) \in Seq(Calls)
      <4>1. CASE watching = NoList
        BY <4>1
      <4>2. CASE watching \in Lists /\ watching # NoList
        <5>1. watching \in Calls
          BY <4>2 DEF Calls
        <5> QED
          BY <4>2, <5>1
      <4> QED
        BY <1>1, <4>1, <4>2
    <3> QED
      BY <3>1, <3>2, ConcatProperties
  <2>2. WriteAll(calls, TRUE)
    BY <1>4 DEF ClientConnects
  <2>3. /\ sequence' \in Nat /\ reserved' \in Nat
        /\ waiting' \in Seq([frame : Frames, block : Nat]) /\ toPeer' \in Seq(Frames)
    <3> HIDE DEF calls
    <3> QED
      BY <2>1, <2>2, WriteAllTyped
  <2>4. PendingOnce'
    BY <1>4 DEF PendingOnce, ClientConnects, askVars
  <2> QED
    BY <1>4, <2>3, <2>4
       DEF ClientConnects, TypeOK, askVars, peerVars, markVars, responseVars
<1> QED
  BY <1>2, <1>3, <1>4

LEMMA ClientReceivesTyped ==
    ASSUME TypeOK, PendingOnce, ClientReceives
    PROVE  TypeOK' /\ PendingOnce'
<1>1. toClient \in Seq(Frames) /\ toClient # <<>> /\ clientMark \in Nat /\ pending \in Seq(Requests)
  BY DEF TypeOK, ClientReceives
<1>2. Head(toClient) \in Frames /\ Tail(toClient) \in Seq(Frames)
  BY <1>1, HeadAndTail
<1>3. toClient' \in Seq(Frames)
  BY <1>2 DEF ClientReceives
<1>4. clientMark' \in Nat
  BY <1>1, <1>2 DEF ClientReceives, Frames
<1>5. /\ outcome' \in [Requests -> {"new", "open", "answered", "failed"}]
      /\ pending' \in Seq(Requests) /\ PendingOnce'
      /\ \A q \in Requests :
            outcome'[q] = "open" <=> \E i \in 1..Len(pending') : pending'[i] = q
  <2>1. CASE UNCHANGED <<outcome, pending>>
    BY <2>1 DEF TypeOK, PendingOnce
  <2>2. CASE /\ \E i \in 1..Len(pending) : pending[i] = Head(toClient).call
             /\ Settle(Head(toClient).call, "answered")
    <3>1. PICK r : r = Head(toClient).call
      OBVIOUS
    <3>2. r \in Requests /\ outcome[r] = "open" /\ Settle(r, "answered")
      BY <1>1, <2>2, <3>1 DEF TypeOK
    <3> QED
      BY <3>2, Settles
  <2> QED
    BY <2>1, <2>2 DEF ClientReceives
<1> QED
  BY <1>3, <1>4, <1>5
     DEF ClientReceives, TypeOK, writeVars, peerVars, markVars, responseVars

LEMMA ClientRestartsTyped ==
    ASSUME TypeOK, PendingOnce, ClientRestarts
    PROVE  TypeOK' /\ PendingOnce'
<1>1. outcome \in [Requests -> {"new", "open", "answered", "failed"}]
  BY DEF TypeOK
<1>2. outcome' = [r \in Requests |-> IF outcome[r] = "open" THEN "failed" ELSE outcome[r]]
  BY DEF ClientRestarts
<1>3. /\ outcome' \in [Requests -> {"new", "open", "answered", "failed"}]
      /\ \A q \in Requests : outcome'[q] # "open"
  BY <1>1, <1>2
<1>4. pending' = <<>> /\ Len(pending') = 0 /\ pending' \in Seq(Requests)
  BY DEF ClientRestarts
<1>5. \A q \in Requests :
         outcome'[q] = "open" <=> \E i \in 1..Len(pending') : pending'[i] = q
  BY <1>3, <1>4
<1>6. PendingOnce'
  BY <1>4 DEF PendingOnce
<1>7. faults' \in 0..MaxFaults
  BY RemoteLinkAssumption DEF ClientRestarts, Fault, TypeOK
<1>8. /\ clientMark' \in Nat /\ sequence' \in Nat /\ reserved' \in Nat /\ clientUp' \in BOOLEAN
      /\ watching' \in Lists \cup {NoList} /\ watches' \in 0..MaxWatches
      /\ reservedSaved' \in Nat
  <2>1. clientMark \in Nat /\ clientMark' \in 0..clientMark
    BY DEF ClientRestarts, TypeOK
  <2>2. clientMark' \in Nat
    BY <2>1
  <2> QED
    BY <2>2 DEF ClientRestarts, TypeOK
<1>9. waiting' \in Seq([frame : Frames, block : Nat]) /\ toPeer' \in Seq(Frames) /\ toClient' \in Seq(Frames)
  <2>1. <<>> \in Seq([frame : Frames, block : Nat])
    OBVIOUS
  <2> QED
    BY <2>1 DEF ClientRestarts, TypeOK
<1> QED
  BY <1>3, <1>4, <1>5, <1>6, <1>7, <1>8, <1>9
     DEF ClientRestarts, TypeOK, peerVars, markVars, responseVars

\* The relay.
LEMMA RelayTyped ==
    ASSUME TypeOK, PendingOnce, Lose \/ Repeat
    PROVE  TypeOK' /\ PendingOnce'
<1>1. toPeer \in Seq(Frames) /\ toClient \in Seq(Frames)
  BY DEF TypeOK
<1>2. /\ toPeer # <<>> => Tail(toPeer) \in Seq(Frames) /\ <<Head(toPeer)>> \o toPeer \in Seq(Frames)
      /\ toClient # <<>> => Tail(toClient) \in Seq(Frames) /\ <<Head(toClient)>> \o toClient \in Seq(Frames)
  BY <1>1, HeadAndTail, Doubled
<1>3. toPeer' \in Seq(Frames) /\ toClient' \in Seq(Frames)
  <2>1. CASE Lose
    BY <1>1, <1>2, <2>1 DEF Lose
  <2>2. CASE Repeat
    BY <1>1, <1>2, <2>2 DEF Repeat
  <2> QED
    BY <2>1, <2>2
<1>4. faults' \in 0..MaxFaults
  BY RemoteLinkAssumption DEF Lose, Repeat, Fault, TypeOK
<1>5. /\ UNCHANGED <<askVars, clientUp, sequence, reserved, waiting, reservedSaved, clientMark, peerVars>>
  BY DEF Lose, Repeat
<1>6. PendingOnce'
  BY <1>5 DEF PendingOnce, askVars
<1> QED
  BY <1>3, <1>4, <1>5, <1>6 DEF TypeOK, askVars, peerVars, markVars, responseVars

\* What the peer does touches no request of the controller.
LEMMA OtherSide ==
    ASSUME PendingOnce, UNCHANGED pending
    PROVE  PendingOnce'
BY DEF PendingOnce

LEMMA PeerReceivesTyped ==
    ASSUME TypeOK, PeerReceives
    PROVE  TypeOK'
<1>1. toPeer \in Seq(Frames) /\ toPeer # <<>> /\ intake \in Seq(Frames) /\ mark \in Nat
  BY DEF TypeOK, PeerReceives
<1>2. /\ Head(toPeer) \in Frames /\ Tail(toPeer) \in Seq(Frames)
      /\ Append(intake, Head(toPeer)) \in Seq(Frames) /\ Head(toPeer).number \in Nat
  <2>1. Head(toPeer) \in Frames /\ Tail(toPeer) \in Seq(Frames)
    BY <1>1, HeadAndTail
  <2> QED
    BY <1>1, <2>1 DEF Frames
<1>3. mark' \in Nat /\ intake' \in Seq(Frames) /\ toPeer' \in Seq(Frames)
  BY <1>1, <1>2 DEF PeerReceives
<1> QED
  BY <1>3 DEF PeerReceives, TypeOK, askVars, responseVars, answerVars

\* What the start of a response leaves.
LEMMA RespondTyped ==
    ASSUME TypeOK, NEW c \in Calls, Respond(c)
    PROVE  /\ running' \subseteq Requests /\ done' \subseteq Requests
           /\ owed' \in [Requests -> Nat] /\ executed' \in [Requests -> Nat]
           /\ answers' \in Seq(Calls) /\ watched' \in Lists \cup {NoList}
<1>1. /\ running \subseteq Requests /\ done \subseteq Requests
      /\ owed \in [Requests -> Nat] /\ executed \in [Requests -> Nat]
      /\ answers \in Seq(Calls) /\ watched \in Lists \cup {NoList}
      /\ Append(answers, c) \in Seq(Calls)
  BY DEF TypeOK
<1>2. CASE /\ c \in Lists
           /\ watched' = c /\ answers' = Append(answers, c)
           /\ UNCHANGED <<running, done, owed, executed>>
  BY <1>1, <1>2
<1>3. CASE /\ c \in Requests \ (running \cup done)
           /\ executed' = [executed EXCEPT ![c] = @ + 1]
           /\ running' = running \cup {c} /\ owed' = [owed EXCEPT ![c] = 1]
           /\ UNCHANGED <<done, answers, watched>>
  BY <1>1, <1>3
<1>4. CASE /\ c \in running
           /\ owed' = [owed EXCEPT ![c] = @ + 1]
           /\ UNCHANGED <<running, done, answers, watched, executed>>
  BY <1>1, <1>4
<1>5. CASE /\ c \in done
           /\ answers' = Append(answers, c)
           /\ UNCHANGED <<running, done, owed, watched, executed>>
  BY <1>1, <1>5
<1> QED
  BY <1>2, <1>3, <1>4, <1>5 DEF Respond

LEMMA MarkSavedTyped ==
    ASSUME TypeOK, MarkSaved
    PROVE  TypeOK'
<1>1. intake \in Seq(Frames) /\ intake # <<>> /\ acted \in Seq(Frames)
  BY DEF TypeOK, MarkSaved
<1>2. /\ Head(intake) \in Frames /\ Tail(intake) \in Seq(Frames)
      /\ Append(acted, Head(intake)) \in Seq(Frames)
  <2>1. Head(intake) \in Frames /\ Tail(intake) \in Seq(Frames)
    BY <1>1, HeadAndTail
  <2> QED
    BY <1>1, <2>1
<1>3. Head(intake).number \in Nat /\ Head(intake).call \in Calls
  BY <1>2 DEF Frames
<1>4. intake' \in Seq(Frames) /\ acted' \in Seq(Frames) /\ markSaved' \in Nat
  BY <1>2, <1>3 DEF MarkSaved
<1>5. /\ running' \subseteq Requests /\ done' \subseteq Requests
      /\ owed' \in [Requests -> Nat] /\ executed' \in [Requests -> Nat]
      /\ answers' \in Seq(Calls) /\ watched' \in Lists \cup {NoList}
  <2>1. PICK c \in Calls : c = Head(intake).call
    BY <1>3
  <2> QED
    BY <2>1, RespondTyped DEF MarkSaved
<1> QED
  BY <1>4, <1>5 DEF MarkSaved, TypeOK, clientVars, askVars, writeVars

LEMMA ExecutionEndsTyped ==
    ASSUME TypeOK, NEW r \in Requests, ExecutionEnds(r)
    PROVE  TypeOK'
<1>1. /\ running' \subseteq Requests /\ done' \subseteq Requests /\ owed' \in [Requests -> Nat]
      /\ owed[r] \in Nat
  BY DEF ExecutionEnds, TypeOK
<1>2. answers' \in Seq(Calls)
  <2>1. [i \in 1..owed[r] |-> r] \in Seq(Calls)
    BY <1>1 DEF Calls
  <2>2. answers \in Seq(Calls)
    BY DEF TypeOK
  <2> QED
    BY <2>1, <2>2, ConcatProperties DEF ExecutionEnds
<1> QED
  BY <1>1, <1>2
     DEF ExecutionEnds, TypeOK, clientVars, askVars, writeVars, markVars

LEMMA PeerWritesTyped ==
    ASSUME TypeOK, PeerWrites
    PROVE  TypeOK'
<1>1. answers \in Seq(Calls) /\ answers # <<>> /\ toClient \in Seq(Frames) /\ sent \in Nat
  BY DEF TypeOK, PeerWrites
<1>2. Head(answers) \in Calls /\ Tail(answers) \in Seq(Calls)
  BY <1>1, HeadAndTail
<1>3. Append(toClient, Frame(sent + 1, Head(answers))) \in Seq(Frames)
  BY <1>1, <1>2 DEF Frame, Frames
<1>4. answers' \in Seq(Calls)
  BY <1>2 DEF PeerWrites
<1>5. sent' \in Nat /\ toClient' \in Seq(Frames)
  <2>1. CASE UNCHANGED <<sent, toClient>>
    BY <1>1, <2>1
  <2>2. CASE sent' = sent + 1 /\ toClient' = Append(toClient, Frame(sent + 1, Head(answers)))
    BY <1>1, <1>3, <2>2
  <2> QED
    BY <2>1, <2>2 DEF PeerWrites
<1> QED
  BY <1>4, <1>5
     DEF PeerWrites, TypeOK, clientVars, askVars, writeVars, markVars, responseVars

\* Reservations, sockets and the end of the peer.
LEMMA PeerTyped ==
    ASSUME TypeOK, PeerReserves \/ PeerDrops \/ PeerConnects \/ PeerRestarts
    PROVE  TypeOK'
<1>1. CASE PeerReserves
  <2>1. peerReserved' \in Nat
    BY <1>1, RemoteLinkAssumption DEF PeerReserves, TypeOK
  <2> QED
    BY <1>1, <2>1
       DEF PeerReserves, TypeOK, clientVars, askVars, writeVars, markVars, responseVars
<1>2. CASE PeerDrops
  <2>1. faults' \in 0..MaxFaults
    BY <1>2, RemoteLinkAssumption DEF PeerDrops, Fault, TypeOK
  <2> QED
    BY <1>2, <2>1
       DEF PeerDrops, TypeOK, clientVars, askVars, writeVars, markVars, responseVars, answerVars
<1>3. CASE PeerConnects
  BY <1>3
     DEF PeerConnects, TypeOK, clientVars, askVars, writeVars, markVars, responseVars, answerVars
<1>4. CASE PeerRestarts
  <2>1. faults' \in 0..MaxFaults
    BY <1>4, RemoteLinkAssumption DEF PeerRestarts, Fault, TypeOK
  <2>2. /\ mark' \in Nat /\ intake' \in Seq(Frames) /\ answers' \in Seq(Calls) /\ sent' \in Nat
        /\ running' \subseteq Requests /\ done' \subseteq Requests
        /\ owed' \in [Requests -> Nat] /\ executed' \in [Requests -> Nat]
    <3>1. <<>> \in Seq(Frames) /\ <<>> \in Seq(Calls)
      OBVIOUS
    <3> QED
      BY <1>4, <3>1 DEF PeerRestarts, TypeOK
  <2> QED
    BY <1>4, <2>1, <2>2 DEF PeerRestarts, TypeOK, clientVars, askVars, writeVars
<1> QED
  BY <1>1, <1>2, <1>3, <1>4

\* No step of the link leaves the types, or has a request pending twice.
LEMMA StepTyped ==
    ASSUME TypeOK, PendingOnce, [Next]_vars
    PROVE  TypeOK' /\ PendingOnce'
<1>1. CASE \E r \in Requests : Request(r) \/ Retry(r) \/ GiveUp(r) \/ ExecutionEnds(r)
  <2>1. PICK r \in Requests : Request(r) \/ Retry(r) \/ GiveUp(r) \/ ExecutionEnds(r)
    BY <1>1
  <2>2. CASE ExecutionEnds(r)
    <3>1. UNCHANGED pending
      BY <2>2 DEF ExecutionEnds, clientVars, askVars
    <3> QED
      BY <2>2, <3>1, ExecutionEndsTyped, OtherSide
  <2> QED
    BY <2>1, <2>2, RequestTyped, RetryTyped, GiveUpTyped
<1>2. CASE \E l \in Lists : WatchTasks(l)
  BY <1>2, WatchTyped
<1>3. CASE BlockSaved \/ ClientDrops \/ ClientConnects \/ ClientReceives \/ ClientRestarts
  BY <1>3, ClientTyped, ClientReceivesTyped, ClientRestartsTyped
<1>4. CASE Lose \/ Repeat
  BY <1>4, RelayTyped
<1>5. CASE PeerReceives \/ MarkSaved \/ PeerReserves \/ PeerWrites
             \/ PeerDrops \/ PeerConnects \/ PeerRestarts
  <2>1. TypeOK'
    BY <1>5, PeerReceivesTyped, MarkSavedTyped, PeerWritesTyped, PeerTyped
  <2>2. UNCHANGED pending
    BY <1>5 DEF PeerReceives, MarkSaved, PeerReserves, PeerWrites, PeerDrops, PeerConnects,
                PeerRestarts, clientVars, askVars
  <2> QED
    BY <2>1, <2>2, OtherSide
<1>6. CASE UNCHANGED vars
  <2>1. PendingOnce'
    BY <1>6 DEF PendingOnce, vars, clientVars, askVars
  <2> QED
    BY <1>6, <2>1
       DEF TypeOK, vars, clientVars, askVars, writeVars, peerVars, markVars, responseVars
<1> QED
  BY <1>1, <1>2, <1>3, <1>4, <1>5, <1>6 DEF Next

\* Every variable of the link keeps its type, and a request is pending exactly while its
\* caller waits (remote-client.ts:373-407, 642-661).
THEOREM TypeCorrect == Spec => []TypeOK
<1>1. Init => TypeOK /\ PendingOnce
  BY InitTyped
<1>2. (TypeOK /\ PendingOnce) /\ [Next]_vars => (TypeOK /\ PendingOnce)'
  BY StepTyped
<1> QED
  BY <1>1, <1>2, PTL DEF Spec

-------------------------------------------------------------------------------
(***************************************************************************)
(* Numbers of frames.                                                      *)
(***************************************************************************)
LEMMA Numbered ==
    ASSUME NEW s \in Seq(Frames)
    PROVE  Len(s) \in Nat /\ \A i \in 1..Len(s) : s[i] \in Frames /\ s[i].number \in Nat \ {0}
<1>1. Len(s) \in Nat /\ \A i \in 1..Len(s) : s[i] \in Frames
  OBVIOUS
<1> QED
  BY <1>1 DEF Frames

\* Bounds of a sequence hold of what is left of it, of its first frame, and when that comes
\* once more.
LEMMA BoundsOfRest ==
    ASSUME NEW s \in Seq(Frames), s # <<>>, NEW n \in Nat
    PROVE  /\ UpTo(s, n) => UpTo(Tail(s), n) /\ Head(s).number <= n
                            /\ UpTo(<<Head(s)>> \o s, n)
           /\ Increasing(s) => Increasing(Tail(s)) /\ Above(Tail(s), Head(s).number)
           /\ Above(s, n) => n < Head(s).number
<1>1. /\ Len(s) \in Nat \ {0} /\ Head(s) = s[1] /\ Len(Tail(s)) = Len(s) - 1
      /\ \A i \in 1..Len(Tail(s)) : Tail(s)[i] = s[i + 1] /\ i + 1 \in 1..Len(s)
  BY HeadAndTail
<1>2. 1 \in 1..Len(s) /\ Len(Tail(s)) \in Nat
  BY <1>1
<1>3. ASSUME UpTo(s, n)
      PROVE  UpTo(Tail(s), n) /\ Head(s).number <= n /\ UpTo(<<Head(s)>> \o s, n)
  <2>1. UpTo(Tail(s), n) /\ Head(s).number <= n
    BY <1>1, <1>2, <1>3 DEF UpTo
  <2>2. /\ Len(<<Head(s)>> \o s) = Len(s) + 1
        /\ \A i \in 1..(Len(s) + 1) : \E j \in 1..Len(s) : (<<Head(s)>> \o s)[i] = s[j]
    BY Doubled
  <2>3. UpTo(<<Head(s)>> \o s, n)
    BY <1>3, <2>2 DEF UpTo
  <2> QED
    BY <2>1, <2>3
<1>4. ASSUME Increasing(s)
      PROVE  Increasing(Tail(s)) /\ Above(Tail(s), Head(s).number)
  <2>1. \A i, j \in 1..Len(Tail(s)) : i < j => s[i + 1].number < s[j + 1].number
    <3>1. \A i, j \in 1..Len(Tail(s)) :
             i < j => i + 1 < j + 1 /\ i + 1 \in 1..Len(s) /\ j + 1 \in 1..Len(s)
      BY <1>1, <1>2
    <3> QED
      BY <1>4, <3>1 DEF Increasing
  <2>2. \A i \in 1..Len(Tail(s)) : s[1].number < s[i + 1].number
    <3>1. \A i \in 1..Len(Tail(s)) : 1 < i + 1 /\ i + 1 \in 1..Len(s)
      BY <1>1, <1>2
    <3> QED
      BY <1>2, <1>4, <3>1 DEF Increasing
  <2> QED
    BY <1>1, <2>1, <2>2 DEF Increasing, Above
<1>5. Above(s, n) => n < Head(s).number
  BY <1>1, <1>2 DEF Above
<1> QED
  BY <1>3, <1>4, <1>5

\* A frame above all of a sequence goes to its end.
LEMMA BoundsWithNext ==
    ASSUME NEW s \in Seq(Frames), NEW f \in Frames, NEW n \in Nat
    PROVE  /\ \A m \in Nat : UpTo(s, n) /\ n <= m /\ f.number <= m => UpTo(Append(s, f), m)
           /\ Increasing(s) /\ UpTo(s, n) /\ n < f.number => Increasing(Append(s, f))
           /\ Above(s, n) /\ n < f.number => Above(Append(s, f), n)
<1> DEFINE t == Append(s, f)
<1>1. /\ Len(s) \in Nat /\ Len(t) = Len(s) + 1 /\ t[Len(s) + 1] = f
      /\ \A i \in 1..Len(s) : t[i] = s[i] /\ s[i].number \in Nat
  BY AtTheEnd, Numbered
<1>2. f.number \in Nat
  BY DEF Frames
<1> HIDE DEF t
<1>3. \A i \in 1..Len(t) : i \in 1..Len(s) \/ i = Len(s) + 1
  BY <1>1
<1>4. ASSUME NEW m \in Nat, UpTo(s, n), n <= m, f.number <= m PROVE UpTo(t, m)
  <2>1. \A i \in 1..Len(s) : s[i].number <= m
    BY <1>1, <1>4 DEF UpTo
  <2> QED
    BY <1>1, <1>3, <1>4, <2>1 DEF UpTo
<1>5. ASSUME Increasing(s), UpTo(s, n), n < f.number PROVE Increasing(t)
  <2>1. SUFFICES ASSUME NEW i \in 1..Len(t), NEW j \in 1..Len(t), i < j
                 PROVE  t[i].number < t[j].number
    BY DEF Increasing
  <2>2. i \in 1..Len(s)
    BY <1>1, <2>1
  <2>3. CASE j \in 1..Len(s)
    BY <1>1, <1>5, <2>1, <2>2, <2>3 DEF Increasing
  <2>4. CASE j = Len(s) + 1
    <3>1. s[i].number <= n
      BY <1>5, <2>2 DEF UpTo
    <3>2. t[i] = s[i] /\ s[i].number \in Nat /\ t[j] = f
      BY <1>1, <2>2, <2>4
    <3>3. s[i].number < f.number
      BY <1>2, <1>5, <3>1, <3>2
    <3> QED
      BY <3>2, <3>3
  <2> QED
    BY <1>3, <2>3, <2>4
<1>6. Above(s, n) /\ n < f.number => Above(t, n)
  BY <1>1, <1>3 DEF Above
<1> QED
  BY <1>4, <1>5, <1>6 DEF t

-------------------------------------------------------------------------------
(***************************************************************************)
(* The answers.                                                            *)
(***************************************************************************)
LEMMA AnswersStep ==
    ASSUME TypeOK, AnswersReserved, [Next]_vars
    PROVE  AnswersReserved'
<1>1. /\ sent \in Nat /\ peerReserved \in Nat /\ clientMark \in Nat /\ toClient \in Seq(Frames)
      /\ sent <= peerReserved /\ clientMark <= sent /\ UpTo(toClient, sent)
  BY DEF TypeOK, AnswersReserved
<1>2. CASE UNCHANGED <<sent, peerReserved, clientMark, toClient>>
  BY <1>1, <1>2 DEF AnswersReserved
<1>3. CASE ClientReceives
  <2>1. toClient # <<>> /\ toClient' = Tail(toClient) /\ UNCHANGED <<sent, peerReserved>>
    BY <1>3 DEF ClientReceives, peerVars
  <2>2. UpTo(Tail(toClient), sent) /\ Head(toClient).number <= sent
    BY <1>1, <2>1, BoundsOfRest
  <2>3. clientMark' = clientMark \/ clientMark' = Head(toClient).number
    BY <1>3 DEF ClientReceives
  <2> QED
    BY <1>1, <2>1, <2>2, <2>3 DEF AnswersReserved
<1>4. CASE ClientRestarts
  <2>1. clientMark' \in 0..clientMark /\ UNCHANGED <<sent, peerReserved, toClient>>
    BY <1>4 DEF ClientRestarts, peerVars
  <2>2. clientMark' <= sent
    BY <1>1, <2>1
  <2> QED
    BY <1>1, <2>1, <2>2 DEF AnswersReserved
<1>5. CASE Lose \/ Repeat
  <2>1. UNCHANGED <<sent, peerReserved, clientMark>>
    BY <1>5 DEF Lose, Repeat, peerVars
  <2>2. UpTo(toClient', sent)
    <3>1. \/ toClient' = toClient
          \/ toClient # <<>> /\ toClient' = Tail(toClient)
          \/ toClient # <<>> /\ toClient' = <<Head(toClient)>> \o toClient
      BY <1>5 DEF Lose, Repeat
    <3> QED
      BY <1>1, <3>1, BoundsOfRest
  <2> QED
    BY <1>1, <2>1, <2>2 DEF AnswersReserved
<1>6. CASE PeerReserves
  <2>1. /\ UNCHANGED <<sent, clientMark, toClient>> /\ peerReserved' = sent + Block
    BY <1>6 DEF PeerReserves, clientVars
  <2>2. sent <= peerReserved'
    BY <1>1, <2>1, RemoteLinkAssumption
  <2> QED
    BY <1>1, <2>1, <2>2 DEF AnswersReserved
<1>7. CASE PeerWrites
  <2>1. UNCHANGED <<clientMark, peerReserved>>
    BY <1>7 DEF PeerWrites, clientVars
  <2>2. CASE UNCHANGED <<sent, toClient>>
    BY <1>2, <2>1, <2>2
  <2>3. CASE /\ sent < peerReserved /\ sent' = sent + 1
             /\ toClient' = Append(toClient, Frame(sent + 1, Head(answers)))
    <3>1. answers \in Seq(Calls) /\ answers # <<>> /\ Head(answers) \in Calls
      BY <1>7, HeadAndTail DEF PeerWrites, TypeOK
    <3>2. PICK f \in Frames : f = Frame(sent + 1, Head(answers)) /\ f.number = sent + 1
      <4>1. PICK c \in Calls : c = Head(answers)
        BY <3>1
      <4>2. Frame(sent + 1, c) \in Frames /\ Frame(sent + 1, c).number = sent + 1
        BY <1>1 DEF Frame, Frames
      <4> QED
        BY <4>1, <4>2
    <3>3. sent + 1 \in Nat /\ sent <= sent + 1 /\ f.number <= sent + 1
      BY <1>1, <3>2
    <3>4. UpTo(Append(toClient, f), sent + 1)
      BY <1>1, <3>3, BoundsWithNext
    <3>5. sent + 1 <= peerReserved /\ clientMark <= sent + 1
      BY <1>1, <2>3
    <3> QED
      BY <2>1, <2>3, <3>2, <3>4, <3>5 DEF AnswersReserved
  <2> QED
    BY <1>7, <2>2, <2>3 DEF PeerWrites
<1>8. CASE PeerRestarts
  <2>1. UNCHANGED <<clientMark, toClient, peerReserved>> /\ sent' = peerReserved
    BY <1>8 DEF PeerRestarts, clientVars
  <2>2. clientMark' <= sent' /\ sent' <= peerReserved'
    BY <1>1, <2>1
  <2>3. UpTo(toClient, peerReserved)
    <3>1. \A i \in 1..Len(toClient) : toClient[i].number \in Nat /\ toClient[i].number <= sent
      BY <1>1, Numbered DEF UpTo
    <3> QED
      BY <1>1, <3>1 DEF UpTo
  <2> QED
    BY <2>1, <2>2, <2>3 DEF AnswersReserved
<1>9. CASE \/ \E r \in Requests : Request(r) \/ Retry(r) \/ GiveUp(r) \/ ExecutionEnds(r)
           \/ \E l \in Lists : WatchTasks(l)
           \/ BlockSaved \/ ClientDrops \/ ClientConnects
           \/ PeerReceives \/ MarkSaved \/ PeerDrops \/ PeerConnects
           \/ UNCHANGED vars
  <2>1. UNCHANGED <<sent, peerReserved, clientMark, toClient>>
    BY <1>9
       DEF Request, Retry, GiveUp, ExecutionEnds, WatchTasks, BlockSaved, ClientDrops,
           ClientConnects, PeerReceives, MarkSaved, PeerDrops, PeerConnects, vars, clientVars,
           peerVars, answerVars
  <2> QED
    BY <1>2, <2>1
<1> QED
  BY <1>3, <1>4, <1>5, <1>6, <1>7, <1>8, <1>9 DEF Next

\* Whatever restarts and reservations came before, the peer's next number is above all it
\* has sent, so that no answer is dropped as a replay (remote-service.ts:385-418).
THEOREM AnswersNew == Spec => []AnswersAreNew
<1>1. Init => TypeOK /\ PendingOnce /\ AnswersReserved
  <2>1. Init => AnswersReserved
    BY DEF Init, AnswersReserved, UpTo
  <2> QED
    BY <2>1, InitTyped
<1>2. (TypeOK /\ PendingOnce /\ AnswersReserved) /\ [Next]_vars
          => (TypeOK /\ PendingOnce /\ AnswersReserved)'
  BY StepTyped, AnswersStep
<1>3. AnswersReserved => AnswersAreNew
  BY DEF AnswersReserved, AnswersAreNew, UpTo
<1> QED
  BY <1>1, <1>2, <1>3, PTL DEF Spec

-------------------------------------------------------------------------------
(***************************************************************************)
(* The requests.                                                           *)
(***************************************************************************)
LEMMA TakenStep ==
    ASSUME TypeOK, TakenInOrder, [Next]_vars
    PROVE  TakenInOrder'
<1>1. /\ mark \in Nat /\ markSaved \in Nat /\ intake \in Seq(Frames) /\ acted \in Seq(Frames)
      /\ markSaved <= mark /\ Increasing(acted) /\ UpTo(acted, markSaved)
      /\ Increasing(intake) /\ UpTo(intake, mark) /\ Above(intake, markSaved)
  BY DEF TypeOK, TakenInOrder
<1>2. CASE UNCHANGED <<mark, markSaved, intake, acted>>
  BY <1>1, <1>2 DEF TakenInOrder
<1>3. CASE PeerReceives
  <2>1. UNCHANGED <<markSaved, acted>>
    BY <1>3 DEF PeerReceives, responseVars
  <2>2. CASE UNCHANGED <<mark, intake>>
    BY <1>2, <2>1, <2>2
  <2>3. CASE /\ ~(Head(toPeer).number <= mark)
             /\ mark' = Head(toPeer).number /\ intake' = Append(intake, Head(toPeer))
    <3>1. PICK f : f = Head(toPeer)
      OBVIOUS
    <3>2. f \in Frames /\ f.number \in Nat
      <4>1. toPeer \in Seq(Frames) /\ toPeer # <<>>
        BY <1>3 DEF PeerReceives, TypeOK
      <4>2. f \in Frames
        BY <3>1, <4>1, HeadAndTail
      <4> QED
        BY <4>2 DEF Frames
    <3>3. mark < f.number /\ mark <= f.number /\ markSaved < f.number /\ f.number <= f.number
      BY <1>1, <2>3, <3>1, <3>2
    <3>4. /\ UpTo(Append(intake, f), f.number) /\ Increasing(Append(intake, f))
          /\ Above(Append(intake, f), markSaved)
      BY <1>1, <3>2, <3>3, BoundsWithNext
    <3>5. mark' = f.number /\ intake' = Append(intake, f) /\ markSaved <= f.number
      BY <1>1, <2>3, <3>1, <3>2, <3>3
    <3> QED
      BY <1>1, <2>1, <3>4, <3>5 DEF TakenInOrder
  <2> QED
    BY <1>3, <2>2, <2>3 DEF PeerReceives
<1>4. CASE MarkSaved
  <2>1. /\ intake # <<>> /\ intake' = Tail(intake) /\ mark' = mark
        /\ markSaved' = Head(intake).number /\ acted' = Append(acted, Head(intake))
    BY <1>4 DEF MarkSaved
  <2>2. PICK f : f = Head(intake)
    OBVIOUS
  <2>3. f \in Frames /\ f.number \in Nat
    <3>1. f \in Frames
      BY <1>1, <2>1, <2>2, HeadAndTail
    <3> QED
      BY <3>1 DEF Frames
  <2>4. /\ UpTo(Tail(intake), mark) /\ f.number <= mark /\ Increasing(Tail(intake))
        /\ Above(Tail(intake), f.number) /\ markSaved < f.number
    BY <1>1, <2>1, <2>2, BoundsOfRest
  <2>5. markSaved <= f.number /\ f.number <= f.number
    BY <1>1, <2>3, <2>4
  <2>6. Increasing(Append(acted, f)) /\ UpTo(Append(acted, f), f.number)
    BY <1>1, <2>3, <2>4, <2>5, BoundsWithNext
  <2> QED
    BY <1>1, <2>1, <2>2, <2>4, <2>6 DEF TakenInOrder
<1>5. CASE PeerRestarts
  <2>1. mark' = markSaved /\ intake' = <<>> /\ UNCHANGED <<markSaved, acted>>
    BY <1>5 DEF PeerRestarts
  <2>2. Increasing(<<>>) /\ UpTo(<<>>, markSaved) /\ Above(<<>>, markSaved)
    BY DEF Increasing, UpTo, Above
  <2>3. markSaved' <= mark'
    BY <1>1, <2>1
  <2> QED
    BY <1>1, <2>1, <2>2, <2>3 DEF TakenInOrder
<1>6. CASE \/ \E r \in Requests : Request(r) \/ Retry(r) \/ GiveUp(r) \/ ExecutionEnds(r)
           \/ \E l \in Lists : WatchTasks(l)
           \/ BlockSaved \/ ClientDrops \/ ClientConnects \/ ClientReceives \/ ClientRestarts
           \/ Lose \/ Repeat
           \/ PeerReserves \/ PeerWrites \/ PeerDrops \/ PeerConnects
           \/ UNCHANGED vars
  <2>1. UNCHANGED <<mark, markSaved, intake, acted>>
    BY <1>6
       DEF Request, Retry, GiveUp, ExecutionEnds, WatchTasks, BlockSaved, ClientDrops,
           ClientConnects, ClientReceives, ClientRestarts, Lose, Repeat, PeerReserves,
           PeerWrites, PeerDrops, PeerConnects, vars, peerVars, markVars, responseVars
  <2> QED
    BY <1>2, <2>1
<1> QED
  BY <1>3, <1>4, <1>5, <1>6 DEF Next

LEMMA ExecutedStep ==
    ASSUME TypeOK, ExecutedWhileKept, [Next]_vars
    PROVE  ExecutedWhileKept'
<1>1. /\ executed \in [Requests -> Nat] /\ running \subseteq Requests /\ done \subseteq Requests
      /\ \A r \in Requests : executed[r] = IF r \in running \cup done THEN 1 ELSE 0
  BY DEF TypeOK, ExecutedWhileKept
<1>2. CASE UNCHANGED executed /\ running' \cup done' = running \cup done
  BY <1>1, <1>2 DEF ExecutedWhileKept
<1>3. CASE MarkSaved
  <2>1. PICK c : c = Head(intake).call
    OBVIOUS
  <2>2. Respond(c)
    BY <1>3, <2>1 DEF MarkSaved
  <2>3. CASE UNCHANGED <<running, done, executed>>
    BY <1>2, <2>3
  <2>4. CASE /\ c \in Requests \ (running \cup done)
             /\ executed' = [executed EXCEPT ![c] = @ + 1]
             /\ running' = running \cup {c} /\ UNCHANGED done
    <3>1. ASSUME NEW r \in Requests
          PROVE  executed'[r] = IF r \in running' \cup done' THEN 1 ELSE 0
      <4>1. CASE r = c
        <5>1. executed[r] = 0 /\ executed'[r] = executed[r] + 1
          BY <1>1, <2>4, <4>1
        <5> QED
          BY <2>4, <4>1, <5>1
      <4>2. CASE r # c
        BY <1>1, <2>4, <4>2
      <4> QED
        BY <4>1, <4>2
    <3> QED
      BY <3>1 DEF ExecutedWhileKept
  <2> QED
    BY <2>2, <2>3, <2>4 DEF Respond
<1>4. ASSUME NEW r \in Requests, ExecutionEnds(r) PROVE ExecutedWhileKept'
  <2>1. /\ running' = running \ {r} /\ done' = done \cup {r} /\ r \in running
        /\ UNCHANGED executed
    BY <1>4 DEF ExecutionEnds
  <2> QED
    BY <1>2, <2>1
<1>5. CASE PeerRestarts
  BY <1>5 DEF PeerRestarts, ExecutedWhileKept
<1>6. CASE \/ \E r \in Requests : Request(r) \/ Retry(r) \/ GiveUp(r)
           \/ \E l \in Lists : WatchTasks(l)
           \/ BlockSaved \/ ClientDrops \/ ClientConnects \/ ClientReceives \/ ClientRestarts
           \/ Lose \/ Repeat
           \/ PeerReceives \/ PeerReserves \/ PeerWrites \/ PeerDrops \/ PeerConnects
           \/ UNCHANGED vars
  <2>1. UNCHANGED <<executed, running, done>>
    BY <1>6
       DEF Request, Retry, GiveUp, WatchTasks, BlockSaved, ClientDrops, ClientConnects,
           ClientReceives, ClientRestarts, Lose, Repeat, PeerReceives, PeerReserves,
           PeerWrites, PeerDrops, PeerConnects, vars, peerVars, responseVars
  <2> QED
    BY <1>2, <2>1
<1> QED
  BY <1>3, <1>4, <1>5, <1>6 DEF Next

\* No frame is acted on again after a restart and a repetition, for its number was in the
\* file before (remote-service.ts:353-355), and no request is executed twice in a life of
\* the peer, however often it is written (358-373).
THEOREM DoneOnce == Spec => []NothingDoneTwice
<1> DEFINE IInv == TypeOK /\ PendingOnce /\ TakenInOrder /\ ExecutedWhileKept
<1>1. Init => IInv
  <2>1. Increasing(<<>>) /\ UpTo(<<>>, 0) /\ Above(<<>>, 0)
    BY DEF Increasing, UpTo, Above
  <2>2. Init => TakenInOrder
    BY <2>1 DEF Init, TakenInOrder
  <2>3. Init => ExecutedWhileKept
    BY DEF Init, ExecutedWhileKept
  <2> QED
    BY <2>2, <2>3, InitTyped
<1>2. IInv /\ [Next]_vars => IInv'
  BY StepTyped, TakenStep, ExecutedStep
<1>3. IInv => NothingDoneTwice
  <2>1. SUFFICES ASSUME IInv PROVE NothingDoneTwice
    OBVIOUS
  <2>2. acted \in Seq(Frames) /\ Increasing(acted)
    BY <2>1 DEF TypeOK, TakenInOrder
  <2>3. ASSUME NEW i \in 1..Len(acted), NEW j \in 1..Len(acted), acted[i] = acted[j]
        PROVE  i = j
    <3>1. acted[i].number = acted[j].number /\ acted[i].number \in Nat
      BY <2>2, <2>3, Numbered
    <3>2. ~(i < j) /\ ~(j < i)
      BY <2>2, <3>1 DEF Increasing
    <3> QED
      BY <3>2
  <2>4. IsInjective(acted)
    <3>1. DOMAIN acted = 1..Len(acted)
      BY <2>2
    <3> QED
      BY <2>3, <3>1 DEF IsInjective
  <2>5. \A r \in Requests : executed[r] <= 1
    BY <2>1 DEF ExecutedWhileKept
  <2> QED
    BY <2>4, <2>5 DEF NothingDoneTwice
<1> QED
  BY <1>1, <1>2, <1>3, PTL DEF Spec

-------------------------------------------------------------------------------
(***************************************************************************)
(* RemoteView.                                                             *)
(***************************************************************************)
Statuses == {"idle", "running"}

\* Events of a log, and of the log of one task.
EventTypes == [task : Tasks, seq : Nat]
EventsOf(l) == {e \in EventTypes : e.seq <= l[e.task]}
EventsFor(l, t) == {e \in EventsOf(l) : e.task = t}

\* A view of these logs: one that is ready shows the beginning of one of them.
Shows(v, l) ==
    /\ v.ready => v.task \in Tasks /\ v.text = Events(v.task, 1, v.latest) /\ v.latest <= l[v.task]
    /\ ~v.ready => v.latest = 0
ViewTypes ==
    [task : Tasks \cup {None}, ready : BOOLEAN, latest : Nat, text : Seq(EventTypes),
     status : Statuses, needsResync : BOOLEAN]
ViewsOf(l) == {v \in ViewTypes : Shows(v, l)}

\* A request answered from these logs; what a refresh began with was a view of its task.
RequestTypes ==
    [kind : {"open", "page", "snapshot", "refresh"}, task : Tasks, token : Nat, from : Nat,
     cursor : Nat, round : Nat, base : ViewTypes, answer : Nat \cup {None}]
RequestsOf(l, n) ==
    {r \in RequestTypes : /\ r.round <= CatchUpRounds /\ r.token <= n
                          /\ Shows(r.base, l) /\ r.base.task = r.task
                          /\ r.answer # None => r.answer <= l[r.task]}

\* The conversation that was opened last is the only one that is given to the screen, that
\* events are kept for, and that an answer to its opening may be shown in.
OneOpened(o) ==
    /\ {view.task, viewRef.task} \subseteq {o, None}
    /\ buffered \in Seq(EventsFor(log, o))
    /\ \A r \in requests : r.kind = "open" /\ r.token = token => r.task = o

PeerInv ==
    /\ log \in [Tasks -> Nat] /\ \A t \in Tasks : log[t] <= Len(Script[t])
    /\ listed \in [Tasks -> Statuses]
    /\ peerWatch \in (SUBSET Tasks) \cup {None} /\ ownWatch \in (SUBSET Tasks) \cup {None}
    /\ connected \in BOOLEAN /\ losses \in Nat
ArrivalInv ==
    /\ pushes \in Seq(EventsOf(log)) /\ batch \in Seq(EventsOf(log)) /\ stale \subseteq Tasks
    /\ cursors \in [Tasks -> Nat] /\ \A t \in Tasks : cursors[t] <= log[t]
WindowInv ==
    /\ view \in ViewsOf(log) /\ viewRef \in ViewsOf(log) /\ cache \in [Tasks -> ViewsOf(log)]
    /\ token \in Nat /\ requests \subseteq RequestsOf(log, token)
    /\ \E o \in Tasks \cup {None} : OneOpened(o)
ViewInv == PeerInv /\ ArrivalInv /\ WindowInv

-------------------------------------------------------------------------------
(***************************************************************************)
(* Recursive functions of RemoteView.                                      *)
(***************************************************************************)
\* A step function and a first value define a sequence of values.
Unrolls(f, N, V, first, G) ==
    f \in [0..N -> V] /\ f[0] = first /\ \A i \in 1..N : f[i] = G[i][f[i - 1]]

LEMMA Recursion ==
    ASSUME NEW N \in Nat, NEW V, NEW first \in V, NEW G \in [1..N -> [V -> V]]
    PROVE  \E f : Unrolls(f, N, V, first, G)
<1> DEFINE Good(k, f) == f \in [0..k -> V] /\ f[0] = first /\ \A i \in 1..k : f[i] = G[i][f[i - 1]]
           T == {k \in 0..N : \E f : Good(k, f)}
<1>1. 0 \in T
  <2> DEFINE f == [i \in 0..0 |-> first]
  <2>1. f \in [0..0 -> V] /\ f[0] = first /\ 1..0 = {}
    OBVIOUS
  <2> HIDE DEF f
  <2>2. Good(0, f)
    BY <2>1
  <2> HIDE DEF Good
  <2> QED
    BY <2>2
<1>2. ASSUME NEW k \in 1..N, k - 1 \in T PROVE k \in T
  <2>1. PICK f : Good(k - 1, f)
    BY <1>2
  <2> DEFINE h == [i \in 0..k |-> IF i < k THEN f[i] ELSE G[k][f[k - 1]]]
  <2>2. k - 1 \in 0..(k - 1) /\ f[k - 1] \in V
    BY <2>1
  <2>3. G[k][f[k - 1]] \in V
    BY <2>2
  <2>4. h \in [0..k -> V]
    BY <2>1, <2>3
  <2>5. h[0] = first
    BY <2>1
  <2>6. ASSUME NEW i \in 1..k PROVE h[i] = G[i][h[i - 1]]
    <3>1. h[i - 1] = f[i - 1] /\ i - 1 \in 0..(k - 1)
      OBVIOUS
    <3>2. CASE i = k
      <4>1. h[i] = G[k][f[k - 1]]
        BY <3>2
      <4> HIDE DEF h, Good
      <4> QED
        BY <3>1, <3>2, <4>1
    <3>3. CASE i # k
      <4>1. i \in 1..(k - 1) /\ h[i] = f[i]
        BY <3>3
      <4>2. f[i] = G[i][f[i - 1]]
        BY <2>1, <4>1
      <4> HIDE DEF h, Good
      <4> QED
        BY <3>1, <4>1, <4>2
    <3> QED
      BY <3>2, <3>3
  <2> HIDE DEF h
  <2>7. Good(k, h)
    BY <2>4, <2>5, <2>6
  <2> HIDE DEF Good
  <2> QED
    BY <2>7
<1>3. 0..N \subseteq T
  <2> HIDE DEF T
  <2> QED
    BY <1>1, <1>2, Climb
<1>4. N \in T
  BY <1>3
<1>5. PICK f : Good(N, f)
  BY <1>4
<1> QED
  BY <1>5 DEF Unrolls

-------------------------------------------------------------------------------
(***************************************************************************)
(* Views of the logs.                                                      *)
(***************************************************************************)
LEMMA StatusKnown == \A t, n : StatusAt(t, n) \in Statuses
BY DEF StatusAt, Statuses

\* What stands in Events, and that the next event extends it.
LEMMA EventsListed ==
    ASSUME NEW t \in Tasks, NEW from \in Nat, NEW to \in Nat,
           NEW l \in [Tasks -> Nat], to <= l[t]
    PROVE  Events(t, from + 1, to) \in Seq(EventsFor(l, t))
<1> DEFINE n == to - from
           s == [i \in 1..n |-> Event(t, from + i)]
<1>1. Events(t, from + 1, to) = s
  <2>1. to + 1 - (from + 1) = n /\ \A i \in 1..n : from + 1 + i - 1 = from + i
    OBVIOUS
  <2> QED
    BY <2>1 DEF Events
<1>2. \A i \in 1..n : s[i] \in EventsFor(l, t)
  <2> SUFFICES ASSUME NEW i \in 1..n PROVE Event(t, from + i) \in EventsFor(l, t)
    OBVIOUS
  <2>1. from + i \in Nat /\ from + i <= l[t]
    OBVIOUS
  <2> QED
    BY <2>1 DEF Event, EventsFor, EventsOf, EventTypes
<1>3. CASE n \in Nat
  <2>1. s \in [1..n -> EventsFor(l, t)]
    BY <1>2
  <2> HIDE DEF s, n
  <2> QED
    BY <1>1, <1>3, <2>1
<1>4. CASE n \notin Nat
  <2>1. PICK z \in Nat : z = 0 /\ 1..n = 1..z
    BY <1>4
  <2>2. s \in [1..z -> EventsFor(l, t)]
    BY <1>2, <2>1
  <2> HIDE DEF s, n
  <2>3. PICK S : S = EventsFor(l, t)
    OBVIOUS
  <2>4. s \in Seq(S)
    BY <2>2, <2>3
  <2> QED
    BY <1>1, <2>3, <2>4
<1> QED
  BY <1>3, <1>4

LEMMA EventsFromFirst ==
    ASSUME NEW t \in Tasks, NEW n \in Nat
    PROVE  /\ Events(t, 1, n) \in Seq(EventTypes)
           /\ Len(Events(t, 1, n)) = n
           /\ Append(Events(t, 1, n), Event(t, n + 1)) = Events(t, 1, n + 1)
<1> DEFINE Upto(m) == [i \in 1..m |-> Event(t, i)]
<1>1. ASSUME NEW m \in Nat PROVE Events(t, 1, m) = Upto(m)
  <2>1. m + 1 - 1 = m /\ \A i \in 1..m : 1 + i - 1 = i
    OBVIOUS
  <2> QED
    BY <2>1 DEF Events
<1>2. ASSUME NEW m \in Nat
      PROVE  /\ Upto(m) \in Seq(EventTypes) /\ Len(Upto(m)) = m
             /\ \A i \in 1..m : Upto(m)[i] = Event(t, i)
  <2>1. \A i \in 1..m : Event(t, i) \in EventTypes
    BY DEF Event, EventTypes
  <2>2. Upto(m) \in [1..m -> EventTypes]
    BY <2>1
  <2>3. \A i \in 1..m : Upto(m)[i] = Event(t, i)
    OBVIOUS
  <2> HIDE DEF Upto
  <2> QED
    BY <2>2, <2>3
<1> HIDE DEF Upto
<1>3. Event(t, n + 1) \in EventTypes /\ n + 1 \in Nat
  BY DEF Event, EventTypes
<1>4. Append(Upto(n), Event(t, n + 1)) = Upto(n + 1)
  <2>1. PICK s \in Seq(EventTypes) :
          s = Upto(n) /\ Len(s) = n /\ \A i \in 1..n : s[i] = Event(t, i)
    BY <1>2
  <2>2. PICK u \in Seq(EventTypes) :
          u = Upto(n + 1) /\ Len(u) = n + 1 /\ \A i \in 1..(n + 1) : u[i] = Event(t, i)
    BY <1>2, <1>3
  <2>3. PICK e \in EventTypes : e = Event(t, n + 1)
    BY <1>3
  <2>4. /\ Append(s, e) \in Seq(EventTypes) /\ Len(Append(s, e)) = n + 1
        /\ \A i \in 1..n : Append(s, e)[i] = s[i]
        /\ Append(s, e)[n + 1] = e
    BY <2>1, AtTheEnd
  <2>5. \A i \in 1..(n + 1) : Append(s, e)[i] = u[i]
    <3> SUFFICES ASSUME NEW i \in 1..(n + 1) PROVE Append(s, e)[i] = u[i]
      OBVIOUS
    <3>1. CASE i = n + 1
      BY <2>2, <2>3, <2>4, <3>1
    <3>2. CASE i \in 1..n
      BY <2>1, <2>2, <2>4, <3>2
    <3>3. i = n + 1 \/ i \in 1..n
      OBVIOUS
    <3> QED
      BY <3>1, <3>2, <3>3
  <2>6. Append(s, e) = u
    BY <2>2, <2>4, <2>5, SeqEqual
  <2> QED
    BY <2>1, <2>2, <2>3, <2>6
<1> QED
  BY <1>1, <1>2, <1>3, <1>4

LEMMA EmptyIsView ==
    ASSUME NEW l, NEW t \in Tasks \cup {None}
    PROVE  EmptyView(t) \in ViewsOf(l) /\ EmptyView(t).task = t /\ ~EmptyView(t).ready
BY DEF EmptyView, ViewsOf, ViewTypes, Shows, Statuses

\* An event of its task, in whatever order it comes, leaves a view a view.
LEMMA EventKeepsView ==
    ASSUME NEW l \in [Tasks -> Nat], NEW v \in ViewsOf(l), NEW e \in EventsFor(l, v.task)
    PROVE  ApplyEvent(v, e) \in ViewsOf(l) /\ ApplyEvent(v, e).task = v.task
<1>1. /\ v \in ViewTypes /\ Shows(v, l) /\ v.latest \in Nat
      /\ e.task \in Tasks /\ e.seq \in Nat /\ e.seq <= l[e.task] /\ e.task = v.task
  BY DEF ViewsOf, ViewTypes, EventsFor, EventsOf, EventTypes
<1>2. CASE ~v.ready \/ e.seq <= v.latest
  BY <1>1, <1>2 DEF ApplyEvent
<1>3. CASE ~(~v.ready \/ e.seq <= v.latest) /\ e.seq > v.latest + 1
  <2>1. ApplyEvent(v, e) = [v EXCEPT !.needsResync = TRUE]
    BY <1>3 DEF ApplyEvent
  <2> QED
    BY <1>1, <2>1 DEF ViewsOf, ViewTypes, Shows
<1>4. CASE v.ready /\ e.seq = v.latest + 1
  <2>1. ApplyEvent(v, e) = Reduced(v, e)
    BY <1>1, <1>4 DEF ApplyEvent
  <2>2. PICK s \in Statuses : Reduced(v, e).status = s
    BY <1>1 DEF Reduced, ViewTypes, Statuses
  <2>3. Reduced(v, e) = [v EXCEPT !.latest = e.seq, !.needsResync = FALSE,
                                  !.text = Append(v.text, e), !.status = s]
    BY <1>1, <2>2 DEF Reduced, ViewTypes
  <2>4. e = Event(v.task, v.latest + 1) /\ v.task \in Tasks
    BY <1>1, <1>4 DEF Event, EventsFor, EventsOf, EventTypes
  <2>5. v.text = Events(v.task, 1, v.latest)
    BY <1>1, <1>4 DEF Shows
  <2>6. PICK text : text = Append(v.text, e)
    OBVIOUS
  <2>7. /\ text = Events(v.task, 1, v.latest + 1)
        /\ text \in Seq(EventTypes)
    <3>1. text = Events(v.task, 1, v.latest + 1)
      BY <1>1, <2>4, <2>5, <2>6, EventsFromFirst
    <3>2. PICK n \in Nat : n = v.latest + 1
      BY <1>1
    <3> QED
      BY <2>4, <3>1, <3>2, EventsFromFirst
  <2>8. v.latest + 1 <= l[v.task] /\ v.latest + 1 \in Nat
    BY <1>1, <1>4
  <2>9. PICK w : w = Reduced(v, e)
    OBVIOUS
  <2>a. /\ w.latest = v.latest + 1 /\ w.text = text /\ w.task = v.task /\ w.ready = TRUE
        /\ w \in ViewTypes
    BY <1>1, <1>4, <2>3, <2>6, <2>7, <2>8, <2>9 DEF ViewTypes
  <2>b. Shows(w, l)
    BY <2>4, <2>7, <2>8, <2>a DEF Shows
  <2> QED
    BY <2>1, <2>9, <2>a, <2>b DEF ViewsOf
<1> QED
  BY <1>1, <1>2, <1>3, <1>4 DEF EventsFor, EventsOf

\* A snapshot of its task that is not longer than the log leaves it a view of it.
LEMMA SnapshotKeepsView ==
    ASSUME NEW l \in [Tasks -> Nat], NEW t \in Tasks, NEW v \in ViewsOf(l), v.ready => v.task = t,
           NEW n \in Nat, n <= l[t]
    PROVE  /\ ApplySnapshot(v, t, n) \in ViewsOf(l)
           /\ ApplySnapshot(v, t, n).task = t
<1>1. v \in ViewTypes /\ Shows(v, l) /\ v.latest \in Nat
  BY DEF ViewsOf, ViewTypes
<1>2. PICK text : text = IF v.ready /\ Len(v.text) > n THEN v.text ELSE Events(t, 1, n)
  OBVIOUS
<1>3. PICK m : m = IF n > v.latest THEN n ELSE v.latest
  OBVIOUS
<1>4. PICK s \in Statuses : s = StatusAt(t, n)
  BY StatusKnown
<1>5. ApplySnapshot(v, t, n) =
        [task |-> t, ready |-> TRUE, latest |-> m, text |-> text, status |-> s, needsResync |-> FALSE]
  <2>1. v = [task |-> v.task, ready |-> v.ready, latest |-> v.latest, text |-> v.text,
             status |-> v.status, needsResync |-> v.needsResync]
    BY <1>1 DEF ViewTypes
  <2>2. ApplySnapshot(v, t, n) =
          [v EXCEPT !.ready = TRUE, !.task = t, !.latest = m, !.text = text, !.status = s,
                    !.needsResync = FALSE]
    BY <1>2, <1>3, <1>4 DEF ApplySnapshot
  <2> QED
    BY <2>1, <2>2
<1>6. Events(t, 1, n) \in Seq(EventTypes)
  BY EventsFromFirst
<1>7. CASE v.ready
  <2>1. v.text = Events(t, 1, v.latest) /\ v.latest <= l[t]
    BY <1>1, <1>7 DEF Shows
  <2>k. PICK k \in Nat : k = v.latest
    BY <1>1
  <2>l. Len(v.text) = v.latest
    BY <2>1, <2>k, EventsFromFirst
  <2>2. /\ m \in Nat /\ m <= l[t] /\ text = Events(t, 1, m)
        /\ text \in Seq(EventTypes)
    <3>1. CASE v.latest > n
      BY <1>1, <1>2, <1>3, <1>7, <2>1, <2>l, <3>1 DEF ViewTypes
    <3>2. CASE ~(v.latest > n)
      <4>1. m = n
        BY <1>1, <1>3, <3>2
      <4> QED
        BY <1>2, <1>6, <1>7, <2>1, <2>l, <3>2, <4>1
    <3> QED
      BY <3>1, <3>2
  <2> QED
    BY <1>5, <2>2 DEF ViewsOf, ViewTypes, Shows
<1>8. CASE ~v.ready
  <2>1. m = n /\ text = Events(t, 1, n)
    BY <1>1, <1>2, <1>3, <1>8 DEF Shows
  <2> QED
    BY <1>5, <1>6, <2>1 DEF ViewsOf, ViewTypes, Shows
<1> QED
  BY <1>7, <1>8

-------------------------------------------------------------------------------
(***************************************************************************)
(* Sequences of events.                                                    *)
(***************************************************************************)
\* Events of its task keep a view a view.
ViewsFor(l, t) == {v \in ViewsOf(l) : v.task = t}
LEMMA EventsKeepView ==
    ASSUME NEW l \in [Tasks -> Nat], NEW v \in ViewsOf(l), NEW es \in Seq(EventsFor(l, v.task))
    PROVE  ApplyEvents(v, es) \in ViewsOf(l) /\ ApplyEvents(v, es).task = v.task
<1> DEFINE N == Len(es)
           Steps(f) == [i \in 0..N |-> IF i = 0 THEN v ELSE ApplyEvent(f[i - 1], es[i])]
           G == [i \in 1..N |-> [x \in ViewsFor(l, v.task) |-> ApplyEvent(x, es[i])]]
<1>1. N \in Nat /\ v \in ViewsFor(l, v.task) /\ \A i \in 1..N : es[i] \in EventsFor(l, v.task)
  BY DEF ViewsFor
<1>2. \A i \in 1..N : \A x \in ViewsFor(l, v.task) : ApplyEvent(x, es[i]) \in ViewsFor(l, v.task)
  <2> SUFFICES ASSUME NEW i \in 1..N, NEW x \in ViewsFor(l, v.task)
               PROVE  ApplyEvent(x, es[i]) \in ViewsFor(l, v.task)
    OBVIOUS
  <2>1. PICK e \in EventsFor(l, v.task) : e = es[i]
    BY <1>1
  <2>2. x \in ViewsOf(l) /\ x.task = v.task
    BY DEF ViewsFor
  <2>3. ApplyEvent(x, e) \in ViewsOf(l) /\ ApplyEvent(x, e).task = x.task
    BY <2>1, <2>2, EventKeepsView
  <2> HIDE DEF N
  <2> QED
    BY <2>1, <2>2, <2>3 DEF ViewsFor
<1>3. G \in [1..N -> [ViewsFor(l, v.task) -> ViewsFor(l, v.task)]]
  BY <1>2
<1>4. PICK f : Unrolls(f, N, ViewsFor(l, v.task), v, G)
  <2> HIDE DEF G, N
  <2> QED
    BY <1>1, <1>3, Recursion
<1>5. f \in [0..N -> ViewsFor(l, v.task)] /\ f[0] = v
  BY <1>4 DEF Unrolls
<1>6. ASSUME NEW i \in 1..N PROVE f[i] = ApplyEvent(f[i - 1], es[i])
  <2>1. PICK x \in ViewsFor(l, v.task) : x = f[i - 1]
    BY <1>1, <1>5
  <2>2. f[i] = G[i][x]
    <3> HIDE DEF G, N
    <3> QED
      BY <1>4, <2>1 DEF Unrolls
  <2>3. G[i] = [y \in ViewsFor(l, v.task) |-> ApplyEvent(y, es[i])]
    OBVIOUS
  <2> HIDE DEF G, N
  <2> QED
    BY <2>1, <2>2, <2>3
<1>7. f = Steps(f)
  <2>1. f = [i \in 0..N |-> f[i]]
    BY <1>5
  <2>2. \A i \in 0..N : f[i] = IF i = 0 THEN v ELSE ApplyEvent(f[i - 1], es[i])
    BY <1>1, <1>5, <1>6
  <2> QED
    BY <2>1, <2>2
<1>8. PICK g : g = Steps(g) /\ g[N] = ApplyEvents(v, es)
  <2>1. ApplyEvents(v, es) = (CHOOSE g : g = Steps(g))[N]
    BY DEF ApplyEvents
  <2> HIDE DEF Steps
  <2> QED
    BY <1>7, <2>1
<1>9. g[0] = v /\ \A i \in 1..N : g[i] = ApplyEvent(g[i - 1], es[i])
  BY <1>1, <1>8
<1>a. g[N] \in ViewsFor(l, v.task)
  <2> DEFINE T == {i \in 0..N : g[i] \in ViewsFor(l, v.task)}
  <2>1. 0 \in T
    BY <1>1, <1>9
  <2>2. \A i \in 1..N : i - 1 \in T => i \in T
    <3> SUFFICES ASSUME NEW i \in 1..N, i - 1 \in T PROVE i \in T
      OBVIOUS
    <3>1. PICK x \in ViewsFor(l, v.task) : x = g[i - 1]
      OBVIOUS
    <3>2. g[i] = ApplyEvent(x, es[i])
      BY <1>9, <3>1
    <3>3. PICK y : y = g[i] /\ y = ApplyEvent(x, es[i])
      BY <3>2
    <3>4. y \in ViewsFor(l, v.task) /\ i \in 0..N
      BY <1>1, <1>2, <3>3
    <3> HIDE DEF N
    <3> QED
      BY <3>3, <3>4
  <2> HIDE DEF T, N
  <2>3. 0..N \subseteq T
    BY <1>1, <2>1, <2>2, Climb
  <2>4. N \in T
    BY <1>1, <2>3
  <2> QED
    BY <2>4 DEF T
<1> QED
  BY <1>8, <1>a DEF ViewsFor

\* OfTask leaves events of the task.
LEMMA OfTaskKeeps ==
    ASSUME NEW E, NEW es \in Seq(E), NEW t
    PROVE  OfTask(es, t) \in Seq({e \in E : e.task = t})
<1> DEFINE N == Len(es)
           Own(u) == {e \in E : e.task = u}
           Kept(x, i) == IF es[i].task = t THEN Append(x, es[i]) ELSE x
           Steps(f) == [i \in 0..N |-> IF i = 0 THEN <<>> ELSE Kept(f[i - 1], i)]
           G == [i \in 1..N |-> [x \in Seq(Own(t)) |-> Kept(x, i)]]
<1>1. N \in Nat /\ <<>> \in Seq(Own(t)) /\ \A i \in 1..N : es[i] \in E
  BY EmptySeq
<1>2. \A i \in 1..N : \A x \in Seq(Own(t)) : Kept(x, i) \in Seq(Own(t))
  BY <1>1
<1> HIDE DEF Own, Kept
<1>3. G \in [1..N -> [Seq(Own(t)) -> Seq(Own(t))]]
  BY <1>2
<1>4. PICK f : Unrolls(f, N, Seq(Own(t)), <<>>, G)
  <2> HIDE DEF G, N
  <2> QED
    BY <1>1, <1>3, Recursion
<1>5. f \in [0..N -> Seq(Own(t))] /\ f[0] = <<>>
  BY <1>4 DEF Unrolls
<1>6. ASSUME NEW i \in 1..N PROVE f[i] = Kept(f[i - 1], i)
  <2>1. PICK x \in Seq(Own(t)) : x = f[i - 1]
    BY <1>1, <1>5
  <2>2. f[i] = G[i][x]
    <3> HIDE DEF G, N
    <3> QED
      BY <1>4, <2>1 DEF Unrolls
  <2>3. G[i] = [y \in Seq(Own(t)) |-> Kept(y, i)]
    OBVIOUS
  <2> HIDE DEF G, N
  <2> QED
    BY <2>1, <2>2, <2>3
<1>7. f = Steps(f)
  <2>1. f = [i \in 0..N |-> f[i]]
    BY <1>5
  <2>2. \A i \in 0..N : f[i] = IF i = 0 THEN <<>> ELSE Kept(f[i - 1], i)
    BY <1>1, <1>5, <1>6
  <2> QED
    BY <2>1, <2>2
<1>8. PICK g : g = Steps(g) /\ g[N] = OfTask(es, t)
  <2>1. OfTask(es, t) = (CHOOSE g : g = Steps(g))[N]
    BY DEF OfTask, Kept
  <2> HIDE DEF Steps
  <2> QED
    BY <1>7, <2>1
<1>9. g[0] = <<>> /\ \A i \in 1..N : g[i] = Kept(g[i - 1], i)
  BY <1>1, <1>8
<1>a. g[N] \in Seq(Own(t))
  <2> DEFINE T == {i \in 0..N : g[i] \in Seq(Own(t))}
  <2>1. 0 \in T
    <3>1. PICK S : S = Seq(Own(t))
      OBVIOUS
    <3>2. g[0] \in S /\ 0 \in 0..N
      BY <1>1, <1>9, <3>1
    <3> HIDE DEF N
    <3> QED
      BY <3>1, <3>2
  <2>2. \A i \in 1..N : i - 1 \in T => i \in T
    <3> SUFFICES ASSUME NEW i \in 1..N, i - 1 \in T PROVE i \in T
      OBVIOUS
    <3>1. PICK x \in Seq(Own(t)) : x = g[i - 1]
      OBVIOUS
    <3>2. g[i] = Kept(x, i)
      BY <1>9, <3>1
    <3>3. PICK y : y = g[i] /\ y = Kept(x, i)
      BY <3>2
    <3>4. y \in Seq(Own(t)) /\ i \in 0..N
      BY <1>1, <1>2, <3>3
    <3> HIDE DEF N
    <3> QED
      BY <3>3, <3>4
  <2> HIDE DEF T, N
  <2>3. 0..N \subseteq T
    BY <1>1, <2>1, <2>2, Climb
  <2>4. N \in T
    BY <1>1, <2>3
  <2> QED
    BY <2>4 DEF T
<1> QED
  BY <1>8, <1>a DEF Own

-------------------------------------------------------------------------------
(***************************************************************************)
(* Requests.                                                               *)
(***************************************************************************)
LEMMA AskedNew ==
    ASSUME NEW l, NEW n \in Nat, NEW t \in Tasks,
           NEW kind \in {"open", "page", "snapshot", "refresh"}
    PROVE  /\ NewRequest(kind, t) \in RequestsOf(l, n)
           /\ [NewRequest(kind, t) EXCEPT !.token = n] \in RequestsOf(l, n)
           /\ NewRequest(kind, t).kind = kind /\ NewRequest(kind, t).task = t
<1>1. PICK v \in ViewTypes : v = EmptyView(t) /\ Shows(v, l) /\ v.task = t
  BY EmptyIsView DEF ViewsOf
<1>2. NewRequest(kind, t) =
        [kind |-> kind, task |-> t, token |-> 0, from |-> 0, cursor |-> 0, round |-> 0,
         base |-> v, answer |-> None]
  BY <1>1 DEF NewRequest
<1>3. 0 <= CatchUpRounds
  BY RemoteViewAssumption
<1> QED
  BY <1>1, <1>2, <1>3 DEF RequestsOf, RequestTypes

LEMMA AskedPage ==
    ASSUME NEW l, NEW n \in Nat, NEW v \in ViewsOf(l), v.task \in Tasks
    PROVE  CatchUp(v) \in RequestsOf(l, n) /\ CatchUp(v).kind = "page"
<1>1. PICK t \in Tasks : t = v.task
  OBVIOUS
<1>2. PICK r : r = NewRequest("page", t)
  OBVIOUS
<1>3. r \in RequestsOf(l, n) /\ r.kind = "page" /\ r.task = t
  BY <1>2, AskedNew
<1>4. v.latest \in Nat /\ 1 <= CatchUpRounds
  BY RemoteViewAssumption DEF ViewsOf, ViewTypes
<1>5. PICK k \in Nat : k = v.latest
  BY <1>4
<1>6. PICK q : q = [r EXCEPT !.from = k, !.cursor = k, !.round = 1]
  OBVIOUS
<1>7. r \in RequestTypes
  BY <1>3 DEF RequestsOf
<1>8. /\ q \in RequestTypes /\ q.round = 1 /\ q.token = r.token /\ q.base = r.base
      /\ q.task = r.task /\ q.answer = r.answer /\ q.kind = r.kind
  BY <1>6, <1>7 DEF RequestTypes
<1>9. q \in RequestsOf(l, n)
  BY <1>3, <1>4, <1>8 DEF RequestsOf
<1>a. CatchUp(v) = q
  BY <1>1, <1>2, <1>5, <1>6 DEF CatchUp
<1> QED
  BY <1>3, <1>8, <1>9, <1>a

LEMMA AskedRefresh ==
    ASSUME NEW l, NEW n \in Nat, NEW v \in ViewsOf(l), v.task \in Tasks
    PROVE  /\ [NewRequest("refresh", v.task) EXCEPT !.base = v] \in RequestsOf(l, n)
           /\ [NewRequest("refresh", v.task) EXCEPT !.base = v].kind = "refresh"
<1>1. PICK t \in Tasks : t = v.task
  OBVIOUS
<1>2. PICK r : r = NewRequest("refresh", t)
  OBVIOUS
<1>3. r \in RequestsOf(l, n) /\ r.kind = "refresh" /\ r.task = t
  BY <1>2, AskedNew
<1>4. v \in ViewTypes /\ Shows(v, l)
  BY DEF ViewsOf
<1>5. [r EXCEPT !.base = v] \in RequestsOf(l, n) /\ [r EXCEPT !.base = v].kind = "refresh"
  BY <1>1, <1>3, <1>4 DEF RequestsOf, RequestTypes
<1> QED
  BY <1>1, <1>2, <1>5

\* An answer, and the next page.
LEMMA AnsweredRequest ==
    ASSUME NEW l \in [Tasks -> Nat], NEW n \in Nat, NEW r \in RequestsOf(l, n)
    PROVE  /\ [r EXCEPT !.answer = l[r.task]] \in RequestsOf(l, n)
           /\ [r EXCEPT !.answer = l[r.task]].kind = r.kind
           /\ [r EXCEPT !.answer = l[r.task]].task = r.task
           /\ [r EXCEPT !.answer = l[r.task]].token = r.token
<1>1. r \in RequestTypes /\ l[r.task] \in Nat
  BY DEF RequestsOf, RequestTypes
<1> QED
  BY <1>1 DEF RequestsOf, RequestTypes

NextPage(r) == [r EXCEPT !.cursor = PageEnd(r), !.round = @ + 1, !.answer = None]
LEMMA PageRequest ==
    ASSUME NEW l \in [Tasks -> Nat], NEW n \in Nat, NEW r \in RequestsOf(l, n),
           r.answer # None, r.round < CatchUpRounds,
           NEW q, q = NextPage(r)
    PROVE  q \in RequestsOf(l, n) /\ q.kind = r.kind
<1>1. r \in RequestTypes /\ r.cursor \in Nat /\ r.answer \in Nat /\ r.round \in Nat
  BY DEF RequestsOf, RequestTypes
<1>2. PageSize \in Nat /\ CatchUpRounds \in Nat
  BY RemoteViewAssumption
<1>3. PageEnd(r) \in Nat
  BY <1>1, <1>2 DEF PageEnd
<1>4. r.round + 1 \in Nat /\ r.round + 1 <= CatchUpRounds
  BY <1>1, <1>2
<1> QED
  BY <1>1, <1>3, <1>4 DEF RequestsOf, RequestTypes, NextPage

\* Nobody opens a conversation.
OpensKept ==
    \A r \in requests' : r.kind = "open" =>
      \E q \in requests : q.kind = "open" /\ q.token = r.token /\ q.task = r.task

LEMMA ResyncAsks ==
    ASSUME WindowInv, Resync
    PROVE  requests' \subseteq RequestsOf(log, token) /\ OpensKept
<1>1. CASE viewRef.task = None
  BY <1>1 DEF WindowInv, Resync, OpensKept
<1>2. CASE viewRef.task # None
  <2>1. viewRef \in ViewsOf(log) /\ viewRef.task \in Tasks /\ token \in Nat
    BY <1>2 DEF WindowInv, ViewsOf, ViewTypes
  <2>2. PICK p \in RequestsOf(log, token) : p = CatchUp(viewRef) /\ p.kind = "page"
    BY <2>1, AskedPage
  <2>3. requests' = requests \cup {p}
    BY <1>2, <2>2 DEF Resync
  <2> QED
    BY <2>2, <2>3 DEF WindowInv, OpensKept
<1> QED
  BY <1>1, <1>2

\* A step that opens no conversation leaves the window right if what it shows and keeps is.
LEMMA WindowGoesOn ==
    ASSUME WindowInv, UNCHANGED <<log, token>>, NEW o \in Tasks \cup {None}, OneOpened(o),
           view' \in ViewsOf(log), viewRef' \in ViewsOf(log), cache' \in [Tasks -> ViewsOf(log)],
           {view'.task, viewRef'.task} \subseteq {o, None},
           buffered' \in Seq(EventsFor(log, o)),
           requests' \subseteq RequestsOf(log, token), OpensKept
    PROVE  WindowInv'
<1>1. OneOpened(o)'
  BY DEF OneOpened, OpensKept
<1> QED
  BY <1>1 DEF WindowInv

\* The same where it changes nothing but the requests.
LEMMA WindowStays ==
    ASSUME WindowInv, UNCHANGED <<log, token, view, viewRef, cache, buffered>>,
           requests' \subseteq RequestsOf(log, token), OpensKept
    PROVE  WindowInv'
<1>1. PICK o \in Tasks \cup {None} : OneOpened(o)
  BY DEF WindowInv
<1> QED
  BY <1>1, WindowGoesOn DEF WindowInv, OneOpened

\* What longer logs leave true.
LEMMA LogsGrow ==
    ASSUME NEW l \in [Tasks -> Nat], NEW k \in [Tasks -> Nat], \A t \in Tasks : l[t] <= k[t],
           NEW n \in Nat
    PROVE  /\ EventsOf(l) \subseteq EventsOf(k)
           /\ \A t : EventsFor(l, t) \subseteq EventsFor(k, t)
           /\ ViewsOf(l) \subseteq ViewsOf(k)
           /\ RequestsOf(l, n) \subseteq RequestsOf(k, n)
<1>1. EventsOf(l) \subseteq EventsOf(k)
  BY DEF EventsOf, EventTypes
<1>2. ASSUME NEW v \in ViewTypes, Shows(v, l) PROVE Shows(v, k)
  BY <1>2 DEF Shows, ViewTypes
<1>3. ViewsOf(l) \subseteq ViewsOf(k)
  BY <1>2 DEF ViewsOf
<1>4. RequestsOf(l, n) \subseteq RequestsOf(k, n)
  <2> SUFFICES ASSUME NEW r \in RequestsOf(l, n) PROVE r \in RequestsOf(k, n)
    OBVIOUS
  <2>1. /\ r \in RequestTypes /\ r.round <= CatchUpRounds /\ r.token <= n /\ Shows(r.base, l)
        /\ r.base \in ViewTypes /\ r.base.task = r.task /\ r.task \in Tasks
        /\ r.answer # None => r.answer \in Nat /\ r.answer <= l[r.task]
    BY DEF RequestsOf, RequestTypes
  <2>2. Shows(r.base, k)
    BY <1>2, <2>1
  <2>3. r.answer # None => r.answer <= k[r.task]
    BY <2>1
  <2> QED
    BY <2>1, <2>2, <2>3 DEF RequestsOf
<1> QED
  BY <1>1, <1>3, <1>4 DEF EventsFor

LEMMA SeqOfMore ==
    ASSUME NEW S, NEW T, S \subseteq T, NEW s \in Seq(S)
    PROVE  s \in Seq(T)
OBVIOUS

-------------------------------------------------------------------------------
(***************************************************************************)
(* The invariant.                                                          *)
(***************************************************************************)
LEMMA ViewInitInv == ViewInit => ViewInv
<1> SUFFICES ASSUME ViewInit PROVE ViewInv
  OBVIOUS
<1>1. /\ log \in [Tasks -> Nat] /\ \A t \in Tasks : log[t] <= Len(Script[t])
      /\ listed \in [Tasks -> Statuses] /\ cursors \in [Tasks -> Nat]
      /\ \A t \in Tasks : cursors[t] = 0
  <2>1. log \in [Tasks -> Nat] /\ \A t \in Tasks : log[t] <= Len(Script[t])
    BY RemoteViewAssumption DEF ViewInit
  <2>2. listed \in [Tasks -> Statuses]
    BY StatusKnown DEF ViewInit
  <2> QED
    BY <2>1, <2>2 DEF ViewInit
<1>2. PeerInv
  BY <1>1 DEF ViewInit, PeerInv
<1>3. ArrivalInv
  <2>1. pushes \in Seq(EventsOf(log)) /\ batch \in Seq(EventsOf(log))
    BY EmptySeq DEF ViewInit
  <2> QED
    BY <1>1, <2>1 DEF ViewInit, ArrivalInv
<1>4. WindowInv
  <2>1. /\ view \in ViewsOf(log) /\ viewRef \in ViewsOf(log) /\ cache \in [Tasks -> ViewsOf(log)]
        /\ view.task = None /\ viewRef.task = None
    BY EmptyIsView DEF ViewInit
  <2>2. buffered \in Seq(EventsFor(log, None))
    BY EmptySeq DEF ViewInit
  <2>3. OneOpened(None)
    BY <2>1, <2>2 DEF ViewInit, OneOpened
  <2> QED
    BY <2>1, <2>3 DEF ViewInit, WindowInv
<1> QED
  BY <1>2, <1>3, <1>4 DEF ViewInv

\* The peer, its list and its watch list.
LogStays ==
    /\ UNCHANGED <<log, listed>>
    /\ peerWatch' \in {peerWatch, ownWatch} \cup SUBSET Tasks
    /\ ownWatch' \in {ownWatch} \cup SUBSET Tasks
    /\ connected' \in BOOLEAN /\ losses' \in {losses, losses + 1}

LEMMA LogSteps ==
    ASSUME PeerInv, ViewNext
    PROVE  LogStays \/ \E t \in Tasks : Emit(t) \/ ListArrives(t)
<1> USE DEF LogStays, PeerInv, peer, link, main, window
<1>1. ASSUME NEW t \in Tasks, OpenTask(t) PROVE LogStays
  BY <1>1 DEF OpenTask, Declare, Loss
<1>2. CASE LosePush \/ Disconnect
  BY <1>2 DEF LosePush, Disconnect, Loss
<1>3. CASE Redial \/ Wake
  BY <1>3 DEF Redial, Wake, Reconnected
<1>4. CASE PushArrives \/ Flush \/ Render \/ Recover
  BY <1>4 DEF PushArrives, Flush, Render, Recover
<1>5. ASSUME NEW r \in requests, Answer(r) \/ Deliver(r) PROVE LogStays
  BY <1>5 DEF Answer, Deliver, Opened, Paged, CaughtUp, Refreshed
<1>6. ASSUME NEW r \in requests, Fails(r) PROVE LogStays
  <2>1. CASE Closed
    BY <1>6, <2>1 DEF Fails, Loss, Closed, Declare
  <2>2. CASE UNCHANGED <<peer, link, main, window, listed>>
    BY <1>6, <2>2 DEF Fails, Loss
  <2> QED
    BY <1>6, <2>1, <2>2 DEF Fails
<1> QED
  BY <1>1, <1>2, <1>3, <1>4, <1>5, <1>6 DEF ViewNext

LEMMA PeerStep ==
    ASSUME PeerInv, ViewNext
    PROVE  PeerInv'
<1>1. ASSUME NEW t \in Tasks, Emit(t) PROVE PeerInv'
  <2>1. Len(Script[t]) \in Nat /\ log[t] + 1 <= Len(Script[t])
    BY <1>1, RemoteViewAssumption DEF Emit, PeerInv
  <2>2. log \in [Tasks -> Nat] /\ \A u \in Tasks : log[u] <= Len(Script[u])
    BY DEF PeerInv
  <2>3. log' \in [Tasks -> Nat] /\ \A u \in Tasks : log'[u] <= Len(Script[u])
    BY <1>1, <2>1, <2>2 DEF Emit
  <2>4. UNCHANGED <<peerWatch, connected, ownWatch, listed, losses>>
    BY <1>1 DEF Emit, main
  <2> QED
    BY <2>3, <2>4 DEF PeerInv
<1>2. ASSUME NEW t \in Tasks, ListArrives(t) PROVE PeerInv'
  <2>1. listed' \in [Tasks -> Statuses]
    <3>1. PICK s \in Statuses : s = StatusAt(t, log[t])
      BY StatusKnown
    <3> QED
      BY <1>2, <3>1 DEF PeerInv, ListArrives
  <2>2. UNCHANGED <<log, peerWatch, connected, ownWatch, losses>>
    BY <1>2 DEF ListArrives, peer, link, main
  <2> QED
    BY <2>1, <2>2 DEF PeerInv
<1>3. CASE LogStays
  BY <1>3 DEF LogStays, PeerInv
<1> QED
  BY <1>1, <1>2, <1>3, LogSteps

\* A longer log.
LEMMA EmitGrows ==
    ASSUME PeerInv, NEW t \in Tasks, Emit(t)
    PROVE  /\ log' \in [Tasks -> Nat] /\ \A u \in Tasks : log[u] <= log'[u]
           /\ Event(t, log[t] + 1) \in EventsOf(log')
BY DEF Emit, PeerInv, Event, EventsOf, EventTypes

\* What is on its way, and how far it has come.
LEMMA ArrivalStep ==
    ASSUME PeerInv, ArrivalInv, ViewNext
    PROVE  ArrivalInv'
<1>1. ASSUME NEW t \in Tasks, Emit(t) PROVE ArrivalInv'
  <2>1. EventsOf(log) \subseteq EventsOf(log')
    BY <1>1, EmitGrows, LogsGrow DEF PeerInv
  <2>2. pushes \in Seq(EventsOf(log')) /\ batch' \in Seq(EventsOf(log'))
    BY <1>1, <2>1, SeqOfMore DEF ArrivalInv, Emit, main
  <2>3. pushes' \in Seq(EventsOf(log'))
    <3>1. PICK e \in EventsOf(log') : e = Event(t, log[t] + 1)
      BY <1>1, EmitGrows
    <3>2. Append(pushes, e) \in Seq(EventsOf(log'))
      BY <2>2, <3>1
    <3> QED
      BY <1>1, <2>2, <3>1, <3>2 DEF Emit
  <2>4. UNCHANGED <<stale, cursors>> /\ \A u \in Tasks : cursors'[u] <= log'[u]
    <3>1. UNCHANGED <<stale, cursors>>
      BY <1>1 DEF Emit, main
    <3>2. \A u \in Tasks : cursors[u] \in Nat /\ log[u] \in Nat /\ log'[u] \in Nat /\ log[u] <= log'[u]
      BY <1>1, EmitGrows DEF PeerInv, ArrivalInv
    <3> QED
      BY <3>1, <3>2 DEF ArrivalInv
  <2> QED
    BY <2>2, <2>3, <2>4 DEF ArrivalInv
<1>2. ASSUME UNCHANGED <<log, pushes, cursors, stale, batch>> PROVE ArrivalInv'
  BY <1>2 DEF ArrivalInv
<1>3. CASE LosePush \/ Disconnect
  <2>1. pushes' \in Seq(EventsOf(log))
    <3>1. PICK S : S = EventsOf(log)
      OBVIOUS
    <3>2. pushes \in Seq(S)
      BY <3>1 DEF ArrivalInv
    <3>3. CASE LosePush
      BY <3>2, <3>1, <3>3 DEF LosePush
    <3>4. CASE Disconnect
      BY <3>1, <3>4, EmptySeq DEF Disconnect
    <3> QED
      BY <1>3, <3>3, <3>4
  <2> QED
    BY <1>3, <2>1 DEF LosePush, Disconnect, ArrivalInv, peer, main
<1>4. ASSUME NEW t \in Tasks, OpenTask(t) PROVE ArrivalInv'
  <2>1. \E heard : Declare({t}, heard)
    BY <1>4 DEF OpenTask
  <2>2. /\ cursors' = [u \in Tasks |-> IF u \in {t} THEN 0 ELSE cursors[u]]
        /\ stale' = stale \ {t} /\ UNCHANGED <<log, pushes, batch>>
    BY <1>4, <2>1 DEF Declare, OpenTask
  <2> QED
    BY <2>2 DEF ArrivalInv, PeerInv
<1>5. CASE Redial \/ Wake
  BY <1>5 DEF Redial, Wake, Reconnected, ArrivalInv
<1>6. CASE PushArrives
  <2>1. PICK e \in EventsOf(log) : e = Head(pushes)
    BY <1>6 DEF PushArrives, ArrivalInv
  <2>2. pushes' \in Seq(EventsOf(log)) /\ UNCHANGED log
    BY <1>6 DEF PushArrives, ArrivalInv, peer
  <2>3. Append(batch, e) \in Seq(EventsOf(log))
    BY <2>1 DEF ArrivalInv
  <2>4. e.task \in Tasks /\ e.seq \in Nat /\ e.seq <= log[e.task]
    BY DEF EventsOf, EventTypes
  <2>5. CASE e.seq <= cursors[e.task]
    <3>1. UNCHANGED <<cursors, stale, batch>>
      BY <1>6, <2>1, <2>5 DEF PushArrives
    <3> QED
      BY <2>2, <3>1 DEF ArrivalInv
  <2>6. CASE ~(e.seq <= cursors[e.task])
    <3>1. /\ stale' \in {stale, stale \cup {e.task}}
          /\ cursors' = [cursors EXCEPT ![e.task] = e.seq] /\ batch' = Append(batch, e)
      BY <1>6, <2>1, <2>6 DEF PushArrives
    <3>2. cursors' \in [Tasks -> Nat] /\ \A u \in Tasks : cursors'[u] <= log[u]
      BY <2>4, <3>1 DEF ArrivalInv
    <3> QED
      BY <2>2, <2>3, <2>4, <3>1, <3>2 DEF ArrivalInv
  <2> QED
    BY <2>5, <2>6
<1>7. CASE Flush
  <2>1. /\ batch' = <<>> /\ stale' = {} /\ UNCHANGED <<log, pushes, cursors>>
    BY <1>7 DEF Flush, peer, link
  <2>2. batch' \in Seq(EventsOf(log))
    BY <2>1, EmptySeq
  <2> QED
    BY <2>1, <2>2 DEF ArrivalInv
<1>8. ASSUME NEW r \in requests, Fails(r) PROVE ArrivalInv'
  <2>1. CASE Closed
    BY <2>1 DEF Closed, Declare, ArrivalInv, PeerInv
  <2>2. CASE UNCHANGED <<peer, link, main, window, listed>>
    BY <1>2, <2>2 DEF peer, link, main
  <2> QED
    BY <1>8, <2>1, <2>2 DEF Fails
<1>9. CASE \/ Render \/ Recover \/ \E t \in Tasks : ListArrives(t)
           \/ \E r \in requests : Answer(r) \/ Deliver(r)
  BY <1>2, <1>9 DEF Render, Recover, ListArrives, Answer, Deliver, Opened, Paged, CaughtUp,
     Refreshed, peer, link, main
<1> QED
  BY <1>1, <1>3, <1>4, <1>5, <1>6, <1>7, <1>8, <1>9 DEF ViewNext

-------------------------------------------------------------------------------
\* The window.

LEMMA WindowEmit ==
    ASSUME PeerInv, WindowInv, NEW t \in Tasks, Emit(t)
    PROVE  WindowInv'
<1>1. UNCHANGED <<view, viewRef, buffered, cache, token, requests>>
  BY DEF Emit, window
<1>2. token \in Nat /\ log \in [Tasks -> Nat]
  BY DEF WindowInv, PeerInv
<1>3. PICK k \in [Tasks -> Nat] : k = log' /\ \A u \in Tasks : log[u] <= k[u]
  BY EmitGrows
<1>4. /\ \A u : EventsFor(log, u) \subseteq EventsFor(k, u)
      /\ ViewsOf(log) \subseteq ViewsOf(k) /\ RequestsOf(log, token) \subseteq RequestsOf(k, token)
  BY <1>2, <1>3, LogsGrow
<1>5. PICK o \in Tasks \cup {None} : OneOpened(o)
  BY DEF WindowInv
<1>6. buffered \in Seq(EventsFor(k, o))
  BY <1>4, <1>5, SeqOfMore DEF OneOpened
<1>7. OneOpened(o)'
  BY <1>1, <1>3, <1>5, <1>6 DEF OneOpened
<1>8. cache \in [Tasks -> ViewsOf(k)] /\ view \in ViewsOf(k) /\ viewRef \in ViewsOf(k)
      /\ requests \subseteq RequestsOf(k, token)
  BY <1>4 DEF WindowInv
<1> QED
  BY <1>1, <1>2, <1>3, <1>7, <1>8 DEF WindowInv

\* A step that asks, answers and gives up nothing.
LEMMA WindowFrame ==
    ASSUME WindowInv, UNCHANGED <<log, window, requests>>
    PROVE  WindowInv'
<1>1. OpensKept
  BY DEF OpensKept
<1> QED
  BY <1>1, WindowStays DEF WindowInv, window

LEMMA RenderKeeps ==
    ASSUME WindowInv, NEW v \in ViewsOf(log), Rendered(v)
    PROVE  viewRef' = v /\ cache' \in [Tasks -> ViewsOf(log)]
<1>1. v.task \in Tasks \cup {None}
  BY DEF ViewsOf, ViewTypes
<1> QED
  BY <1>1 DEF Rendered, WindowInv

LEMMA WindowRender ==
    ASSUME WindowInv, Render
    PROVE  WindowInv'
<1>1. PICK o \in Tasks \cup {None} : OneOpened(o)
  BY DEF WindowInv
<1>2. view \in ViewsOf(log) /\ Rendered(view)
  BY DEF WindowInv, Render
<1>3. viewRef' = view /\ cache' \in [Tasks -> ViewsOf(log)]
  BY <1>2, RenderKeeps
<1>4. UNCHANGED <<log, view, buffered, token, requests>>
  BY DEF Render, peer
<1>5. OpensKept
  BY <1>4 DEF OpensKept
<1> QED
  BY <1>1, <1>2, <1>3, <1>4, <1>5, WindowGoesOn DEF WindowInv, OneOpened

LEMMA WindowOpens ==
    ASSUME WindowInv, NEW t \in Tasks, OpenTask(t)
    PROVE  WindowInv'
<1>1. /\ view' = IF cache[t].task = t THEN cache[t] ELSE EmptyView(t)
      /\ Rendered(view') /\ buffered' = <<>> /\ token' = token + 1 /\ UNCHANGED log
      /\ requests' = requests \cup {[NewRequest("open", t) EXCEPT !.token = token + 1]}
  BY DEF OpenTask
<1>2. PICK v \in ViewsOf(log) : v = view' /\ v.task = t
  BY <1>1, EmptyIsView DEF WindowInv
<1>3. viewRef' = v /\ cache' \in [Tasks -> ViewsOf(log)]
  BY <1>1, <1>2, RenderKeeps
<1>4. PICK n \in Nat : n = token + 1 /\ token \in Nat
  BY DEF WindowInv
<1>5. PICK q \in RequestsOf(log, n) :
        q = [NewRequest("open", t) EXCEPT !.token = n] /\ q.task = t
  <2>1. PICK p : p = NewRequest("open", t)
    OBVIOUS
  <2>2. p \in RequestsOf(log, n) /\ [p EXCEPT !.token = n] \in RequestsOf(log, n) /\ p.task = t
    BY <2>1, AskedNew
  <2> QED
    BY <2>1, <2>2 DEF RequestsOf, RequestTypes
<1>6. RequestsOf(log, token) \subseteq RequestsOf(log, n)
  BY <1>4 DEF RequestsOf, RequestTypes
<1>7. \A r \in requests : r.token <= token /\ r.token \in Nat
  BY DEF WindowInv, RequestsOf, RequestTypes
<1>8. requests' = requests \cup {q} /\ requests' \subseteq RequestsOf(log, n)
  BY <1>1, <1>4, <1>5, <1>6 DEF WindowInv
<1>9. \A r \in requests' : r.token = n => r.task = t
  <2>1. \A r \in requests : r.token # n
    BY <1>4, <1>7
  <2> QED
    BY <1>5, <1>8, <2>1
<1>a. buffered' \in Seq(EventsFor(log, t))
  BY <1>1, EmptySeq
<1>b. OneOpened(t)'
  BY <1>1, <1>2, <1>3, <1>4, <1>9, <1>a DEF OneOpened
<1> QED
  BY <1>1, <1>2, <1>3, <1>4, <1>8, <1>b DEF WindowInv

LEMMA WindowFlush ==
    ASSUME PeerInv, ArrivalInv, WindowInv, Flush
    PROVE  WindowInv'
<1> DEFINE t == viewRef.task
           events == OfTask(batch, t)
           next == ApplyEvents(viewRef, events)
<1>1. PICK o \in Tasks \cup {None} : OneOpened(o)
  BY DEF WindowInv
<1>2. UNCHANGED <<log, viewRef, cache, token>>
  BY DEF Flush, peer
<1>3. log \in [Tasks -> Nat] /\ viewRef \in ViewsOf(log)
  BY DEF PeerInv, WindowInv
<1>4. events \in Seq(EventsFor(log, t))
  <2>1. events \in Seq({e \in EventsOf(log) : e.task = t})
    BY OfTaskKeeps DEF ArrivalInv
  <2> QED
    BY <2>1 DEF EventsFor
<1>5. next \in ViewsOf(log) /\ next.task = t
  BY <1>3, <1>4, EventsKeepView
<1> HIDE DEF next, events
<1>6. \/ UNCHANGED <<view, buffered>> /\ (Resync \/ UNCHANGED requests)
      \/ t # None /\ buffered' = buffered \o events /\ UNCHANGED <<view, requests>>
      \/ view' = next /\ UNCHANGED buffered /\ (Resync \/ UNCHANGED requests)
  BY DEF Flush, next, events
<1>7. requests' \subseteq RequestsOf(log, token) /\ OpensKept
  <2>1. CASE Resync
    BY <2>1, ResyncAsks
  <2>2. CASE UNCHANGED requests
    BY <2>2 DEF WindowInv, OpensKept
  <2> QED
    BY <1>6, <2>1, <2>2
<1>8. CASE UNCHANGED <<view, buffered>>
  BY <1>2, <1>7, <1>8, WindowStays
<1>9. CASE t # None /\ buffered' = buffered \o events /\ UNCHANGED view
  <2>1. t = o
    BY <1>1, <1>9 DEF OneOpened
  <2>2. PICK S : S = EventsFor(log, o)
    OBVIOUS
  <2>3. buffered \in Seq(S) /\ events \in Seq(S)
    BY <1>1, <1>4, <2>1, <2>2 DEF OneOpened
  <2>4. buffered' \in Seq(S)
    BY <1>9, <2>3
  <2> QED
    BY <1>1, <1>2, <1>7, <1>9, <2>2, <2>4, WindowGoesOn DEF WindowInv, OneOpened
<1>a. CASE view' = next /\ UNCHANGED buffered
  BY <1>1, <1>2, <1>5, <1>7, <1>a, WindowGoesOn DEF WindowInv, OneOpened
<1> QED
  BY <1>6, <1>8, <1>9, <1>a

\* An answer that is shown.
LEMMA WindowShows ==
    ASSUME WindowInv, UNCHANGED <<log, viewRef, cache, token>>,
           NEW o \in Tasks \cup {None}, OneOpened(o), NEW r \in requests, Settled(r),
           NEW w \in ViewsOf(log), view' = w, w.task \in {o, None},
           buffered' = buffered \/ buffered' = <<>>
    PROVE  WindowInv'
<1>1. requests' \subseteq RequestsOf(log, token) /\ OpensKept
  BY DEF Settled, WindowInv, OpensKept
<1>2. buffered' \in Seq(EventsFor(log, o))
  BY EmptySeq DEF OneOpened
<1> QED
  BY <1>1, <1>2, WindowGoesOn DEF WindowInv, OneOpened

LEMMA WindowSettles ==
    ASSUME WindowInv, UNCHANGED <<log, viewRef, cache, token, view, buffered>>, NEW r \in requests,
           requests' \subseteq (requests \ {r}) \cup RequestsOf(log, token),
           \A q \in requests' \ requests : q.kind # "open"
    PROVE  WindowInv'
<1>1. requests' \subseteq RequestsOf(log, token) /\ OpensKept
  BY DEF WindowInv, OpensKept
<1> QED
  BY <1>1, WindowStays

LEMMA WindowAnswered ==
    ASSUME PeerInv, WindowInv, NEW r \in requests, Answer(r)
    PROVE  WindowInv'
<1>1. UNCHANGED <<log, token, view, viewRef, cache, buffered>>
  BY DEF Answer, peer, window
<1>2. log \in [Tasks -> Nat] /\ token \in Nat /\ r \in RequestsOf(log, token)
  BY DEF PeerInv, WindowInv
<1>3. PICK q \in RequestsOf(log, token) :
        /\ q = [r EXCEPT !.answer = log[r.task]]
        /\ q.kind = r.kind /\ q.task = r.task /\ q.token = r.token
  BY <1>2, AnsweredRequest
<1>4. requests' = (requests \ {r}) \cup {q}
  BY <1>3 DEF Answer
<1>5. requests' \subseteq RequestsOf(log, token) /\ OpensKept
  BY <1>3, <1>4 DEF WindowInv, OpensKept
<1> QED
  BY <1>1, <1>5, WindowStays

\* An answer that has arrived.
LEMMA AnswerTyped ==
    ASSUME PeerInv, WindowInv, NEW r \in requests, r.answer # None
    PROVE  /\ r \in RequestsOf(log, token) /\ log \in [Tasks -> Nat] /\ token \in Nat
           /\ r.task \in Tasks /\ r.answer \in Nat /\ r.answer <= log[r.task] /\ r.from \in Nat
           /\ r.base \in ViewsOf(log) /\ r.base.task = r.task
           /\ viewRef \in ViewsOf(log)
BY DEF PeerInv, WindowInv, RequestsOf, RequestTypes, ViewsOf

LEMMA WindowOpened ==
    ASSUME PeerInv, WindowInv, NEW r \in requests, Opened(r)
    PROVE  WindowInv'
<1>1. /\ r.kind = "open" /\ r.answer # None /\ Settled(r)
      /\ UNCHANGED <<log, viewRef, cache, token>>
  BY DEF Opened, peer
<1>2. PICK o \in Tasks \cup {None} : OneOpened(o)
  BY DEF WindowInv
<1>3. CASE r.token # token
  BY <1>1, <1>2, <1>3, WindowShows DEF Opened, WindowInv, OneOpened
<1>4. CASE r.token = token
  <2>1. o = r.task /\ r.task \in Tasks
    BY <1>1, <1>2, <1>4, AnswerTyped DEF OneOpened
  <2>2. PICK v \in ViewsOf(log) : v = EmptyView(o) /\ ~v.ready
    BY EmptyIsView
  <2>3. PICK s \in ViewsOf(log) : s = ApplySnapshot(v, o, r.answer) /\ s.task = o
    BY <1>1, <2>1, <2>2, AnswerTyped, SnapshotKeepsView
  <2>4. buffered \in Seq(EventsFor(log, s.task))
    BY <1>2, <2>3 DEF OneOpened
  <2>5. PICK w \in ViewsOf(log) : w = ApplyEvents(s, buffered) /\ w.task = o
    BY <1>1, <2>3, <2>4, AnswerTyped, EventsKeepView
  <2>6. view' = w /\ buffered' = <<>>
    BY <1>4, <2>1, <2>2, <2>3, <2>5 DEF Opened
  <2> QED
    BY <1>1, <1>2, <2>5, <2>6, WindowShows
<1> QED
  BY <1>3, <1>4

LEMMA WindowCaughtUp ==
    ASSUME PeerInv, WindowInv, NEW r \in requests, CaughtUp(r)
    PROVE  WindowInv'
<1>1. r.answer # None /\ Settled(r) /\ UNCHANGED <<log, viewRef, cache, token, buffered>>
  BY DEF CaughtUp, peer
<1>2. PICK o \in Tasks \cup {None} : OneOpened(o)
  BY DEF WindowInv
<1>3. CASE viewRef.task = r.task
  <2>1. PICK w \in ViewsOf(log) : w = ApplySnapshot(viewRef, r.task, r.answer) /\ w.task = r.task
    BY <1>1, <1>3, AnswerTyped, SnapshotKeepsView
  <2>2. view' = w
    BY <1>3, <2>1 DEF CaughtUp
  <2> QED
    BY <1>1, <1>2, <1>3, <2>1, <2>2, WindowShows DEF OneOpened
<1>4. CASE viewRef.task # r.task
  BY <1>1, <1>2, <1>4, WindowShows DEF CaughtUp, WindowInv, OneOpened
<1> QED
  BY <1>3, <1>4

LEMMA WindowRefreshed ==
    ASSUME PeerInv, WindowInv, NEW r \in requests, Refreshed(r)
    PROVE  WindowInv'
<1>1. r.answer # None /\ Settled(r) /\ UNCHANGED <<log, viewRef, cache, token>>
  BY DEF Refreshed, peer
<1>2. PICK o \in Tasks \cup {None} : OneOpened(o)
  BY DEF WindowInv
<1>3. CASE viewRef.task = r.task
  <2>1. r.task = o
    BY <1>1, <1>2, <1>3, AnswerTyped, RemoteViewAssumption DEF OneOpened
  <2>2. PICK s \in ViewsOf(log) : s = ApplySnapshot(r.base, r.task, r.answer) /\ s.task = r.task
    BY <1>1, AnswerTyped, SnapshotKeepsView
  <2>3. buffered \in Seq(EventsFor(log, s.task))
    BY <1>2, <2>1, <2>2 DEF OneOpened
  <2>4. PICK w \in ViewsOf(log) : w = ApplyEvents(s, buffered) /\ w.task = r.task
    BY <1>1, <2>2, <2>3, AnswerTyped, EventsKeepView
  <2>5. view' = w /\ buffered' = <<>>
    BY <1>3, <2>2, <2>4 DEF Refreshed
  <2> QED
    BY <1>1, <1>2, <2>1, <2>4, <2>5, WindowShows
<1>4. CASE viewRef.task # r.task
  BY <1>1, <1>2, <1>4, WindowShows DEF Refreshed, WindowInv, OneOpened
<1> QED
  BY <1>3, <1>4

LEMMA WindowPaged ==
    ASSUME PeerInv, WindowInv, NEW r \in requests, Paged(r)
    PROVE  WindowInv'
<1> DEFINE more == PageEnd(r) < r.answer
           next == NextPage(r)
           last == ApplyEvents(viewRef, Events(r.task, r.from + 1, r.answer))
<1>1. r.kind = "page" /\ r.answer # None /\ UNCHANGED <<log, viewRef, cache, token, buffered>>
  BY DEF Paged, peer
<1>2. PICK o \in Tasks \cup {None} : OneOpened(o)
  BY DEF WindowInv
<1> HIDE DEF more, next, last
<1>3. \/ r.round < CatchUpRounds /\ requests' = (requests \ {r}) \cup {next} /\ UNCHANGED view
      \/ requests' = (requests \ {r}) \cup {NewRequest("snapshot", r.task)} /\ UNCHANGED view
      \/ viewRef.task = r.task /\ view' = [last EXCEPT !.needsResync = FALSE] /\ Settled(r)
      \/ Settled(r) /\ UNCHANGED view
  BY DEF Paged, more, next, last, NextPage
<1>4. ASSUME r.round < CatchUpRounds, requests' = (requests \ {r}) \cup {next}, UNCHANGED view
      PROVE  WindowInv'
  <2>1. /\ log \in [Tasks -> Nat] /\ token \in Nat /\ r \in RequestsOf(log, token)
        /\ r.answer # None
    BY <1>1, AnswerTyped
  <2>2. PICK q : q = NextPage(r)
    OBVIOUS
  <2>3. q \in RequestsOf(log, token) /\ q.kind = r.kind
    BY <1>4, <2>1, <2>2, PageRequest
  <2>4. requests' = (requests \ {r}) \cup {q}
    BY <1>4, <2>2 DEF next
  <2> QED
    BY <1>1, <1>4, <2>3, <2>4, WindowSettles
<1>5. ASSUME requests' = (requests \ {r}) \cup {NewRequest("snapshot", r.task)}, UNCHANGED view
      PROVE  WindowInv'
  <2>1. PICK q : q = NewRequest("snapshot", r.task)
    OBVIOUS
  <2>2. q \in RequestsOf(log, token) /\ q.kind = "snapshot"
    BY <1>1, <2>1, AnswerTyped, AskedNew
  <2> QED
    BY <1>1, <1>5, <2>1, <2>2, WindowSettles
<1>6. ASSUME viewRef.task = r.task, view' = [last EXCEPT !.needsResync = FALSE], Settled(r)
      PROVE  WindowInv'
  <2>1. Events(r.task, r.from + 1, r.answer) \in Seq(EventsFor(log, r.task))
    BY <1>1, AnswerTyped, EventsListed
  <2>2. last \in ViewsOf(log) /\ last.task = r.task
    BY <1>1, <1>6, <2>1, AnswerTyped, EventsKeepView DEF last
  <2>3. PICK w : w = [last EXCEPT !.needsResync = FALSE]
    OBVIOUS
  <2>4. w \in ViewsOf(log) /\ w.task = r.task
    BY <2>2, <2>3 DEF ViewsOf, ViewTypes, Shows
  <2> QED
    BY <1>1, <1>2, <1>6, <2>3, <2>4, WindowShows DEF OneOpened
<1>7. ASSUME Settled(r), UNCHANGED view PROVE WindowInv'
  BY <1>1, <1>7, WindowSettles DEF Settled
<1> QED
  BY <1>3, <1>4, <1>5, <1>6, <1>7

LEMMA WindowFails ==
    ASSUME PeerInv, WindowInv, NEW r \in requests, Fails(r)
    PROVE  WindowInv'
<1>1. \/ Settled(r) /\ Closed
      \/ /\ requests' = (requests \ {r}) \cup {NewRequest("snapshot", r.task)}
         /\ UNCHANGED <<peer, window>>
      \/ Settled(r) /\ UNCHANGED <<peer, window>>
  BY DEF Fails
<1>2. PICK o \in Tasks \cup {None} : OneOpened(o)
  BY DEF WindowInv
<1>3. CASE Settled(r) /\ Closed
  <2>1. PICK w \in ViewsOf(log) : w = EmptyView(None) /\ w.task = None
    BY EmptyIsView
  <2>2. view' = w /\ UNCHANGED <<log, viewRef, cache, token, buffered>>
    BY <1>3, <2>1 DEF Closed
  <2> QED
    BY <1>2, <1>3, <2>1, <2>2, WindowShows
<1>4. ASSUME requests' = (requests \ {r}) \cup {NewRequest("snapshot", r.task)},
             UNCHANGED <<peer, window>>
      PROVE  WindowInv'
  <2>1. PICK q : q = NewRequest("snapshot", r.task)
    OBVIOUS
  <2>2. r.task \in Tasks /\ token \in Nat
    BY DEF WindowInv, RequestsOf, RequestTypes
  <2>3. q \in RequestsOf(log, token) /\ q.kind = "snapshot"
    BY <2>1, <2>2, AskedNew
  <2> QED
    BY <1>4, <2>1, <2>3, WindowSettles DEF peer, window
<1>5. CASE Settled(r) /\ UNCHANGED <<peer, window>>
  BY <1>5, WindowSettles DEF Settled, peer, window
<1> QED
  BY <1>1, <1>3, <1>4, <1>5

LEMMA WindowRecovers ==
    ASSUME WindowInv, Recover
    PROVE  WindowInv'
<1>1. UNCHANGED <<log, token, view, viewRef, cache, buffered>>
  BY DEF Recover, peer, window
<1>2. viewRef \in ViewsOf(log) /\ viewRef.task \in Tasks /\ token \in Nat
  BY DEF WindowInv, Recover, ViewsOf, ViewTypes
<1>3. PICK q : q = [NewRequest("refresh", viewRef.task) EXCEPT !.base = viewRef]
  OBVIOUS
<1>4. q \in RequestsOf(log, token) /\ q.kind = "refresh"
  BY <1>2, <1>3, AskedRefresh
<1>5. requests' = requests \cup {q}
  BY <1>3 DEF Recover
<1>6. requests' \subseteq RequestsOf(log, token) /\ OpensKept
  BY <1>4, <1>5 DEF WindowInv, OpensKept
<1> QED
  BY <1>1, <1>6, WindowStays

LEMMA WindowStep ==
    ASSUME PeerInv, ArrivalInv, WindowInv, ViewNext
    PROVE  WindowInv'
<1>1. CASE \/ LosePush \/ Disconnect \/ Wake \/ PushArrives \/ \E t \in Tasks : ListArrives(t)
  BY <1>1, WindowFrame DEF LosePush, Disconnect, Wake, Reconnected, PushArrives, ListArrives, peer
<1>2. CASE Redial
  <2>1. requests' \subseteq RequestsOf(log, token) /\ OpensKept
    BY <1>2, ResyncAsks DEF Redial
  <2> QED
    BY <1>2, <2>1, WindowStays DEF Redial, Reconnected, window
<1> QED
  BY <1>1, <1>2, WindowEmit, WindowRender, WindowOpens, WindowFlush, WindowAnswered, WindowOpened,
     WindowCaughtUp, WindowRefreshed, WindowPaged, WindowFails, WindowRecovers DEF ViewNext, Deliver

LEMMA ViewInvStep == ViewInv /\ [ViewNext]_viewVars => ViewInv'
<1> SUFFICES ASSUME ViewInv, [ViewNext]_viewVars PROVE ViewInv'
  OBVIOUS
<1>1. CASE ViewNext
  BY <1>1, PeerStep, ArrivalStep, WindowStep DEF ViewInv
<1>2. CASE UNCHANGED viewVars
  BY <1>2, WindowFrame DEF ViewInv, PeerInv, ArrivalInv, viewVars, window
<1> QED
  BY <1>1, <1>2

LEMMA ViewInvariance == ViewSpec => []ViewInv
BY ViewInitInv, ViewInvStep, PTL DEF ViewSpec

\* Every variable of the main process and of the window keeps its type; counts stay within
\* the scripts.
THEOREM ViewTypeCorrect == ViewSpec => []ViewTypeOK
<1>1. ViewInv => ViewTypeOK
  <2> SUFFICES ASSUME ViewInv PROVE ViewTypeOK
    OBVIOUS
  <2>1. /\ log \in [Tasks -> Nat] /\ cursors \in [Tasks -> Nat]
        /\ \A t \in Tasks : log[t] <= Len(Script[t]) /\ cursors[t] <= Len(Script[t])
    <3>1. /\ log \in [Tasks -> Nat] /\ cursors \in [Tasks -> Nat]
          /\ \A t \in Tasks : log[t] <= Len(Script[t]) /\ cursors[t] <= log[t]
      BY DEF ViewInv, PeerInv, ArrivalInv
    <3>2. \A t \in Tasks : Len(Script[t]) \in Nat
      BY RemoteViewAssumption
    <3> QED
      BY <3>1, <3>2
  <2>2. \A v \in {view, viewRef} : v.task \in Tasks \cup {None} /\ v.status \in {"idle", "running"}
    BY DEF ViewInv, WindowInv, ViewsOf, ViewTypes, Statuses
  <2>3. \A r \in requests : /\ r.kind \in {"open", "page", "snapshot", "refresh"} /\ r.task \in Tasks
                           /\ r.round \in 0..CatchUpRounds /\ r.token \in 0..token
    BY RemoteViewAssumption DEF ViewInv, WindowInv, RequestsOf, RequestTypes
  <2> QED
    BY <2>1, <2>2, <2>3 DEF ViewInv, PeerInv, ArrivalInv, ViewTypeOK
<1> QED
  BY <1>1, ViewInvariance, PTL

\* What the window shows of a conversation is the beginning of that conversation, whatever
\* snapshot, page or push came first, was lost, or belonged to a conversation that was left.
THEOREM PrefixIsShown == ViewSpec => []ShowsAPrefix
<1>1. ViewInv => ShowsAPrefix
  <2> SUFFICES ASSUME ViewInv, NEW v \in {view, viewRef} \cup {cache[t] : t \in Tasks}, v.ready
               PROVE  v.text = Events(v.task, 1, v.latest) /\ v.latest <= log[v.task]
    BY DEF ShowsAPrefix
  <2>1. v \in ViewsOf(log)
    BY DEF ViewInv, WindowInv
  <2> QED
    BY <2>1 DEF ViewsOf, Shows
<1> QED
  BY <1>1, ViewInvariance, PTL

===============================================================================
