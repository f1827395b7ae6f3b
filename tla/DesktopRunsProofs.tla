--------------------------- MODULE DesktopRunsProofs ---------------------------
(***************************************************************************)
(* Proofs about DesktopRuns, for any number of messages, presses of Stop,  *)
(* compactions, clearings, archivings and losses of what a run needs.      *)
(***************************************************************************)
EXTENDS DesktopRuns, SequenceTheorems, FiniteSetTheorems, TLAPS

\* What travels between the window and the main process.
Requests ==
    [kind : {"run", "interrupt"}, run : Messages]
        \cup [kind : {"cancel"}, run : Runs]
        \cup [kind : {"stop", "compact", "clear", "active"}, run : {None}]
States == [kind : {"state"}, run : Runs, active : BOOLEAN]
Pushes == States \cup [kind : {"request"}, run : Runs]
Replies ==
    [kind : {"refused", "failed"}, run : Messages, active : Runs \cup {None}]
        \cup [kind : {"active", "stopped", "compacted", "cleared", "unclear"}, run : {None},
              active : Runs \cup {None}]
Puts == [kind : {"run", "interrupt"}, run : Messages, able : BOOLEAN]

ChannelsOK ==
    /\ toMain \in Seq(Requests) /\ toWindow \in Seq(Pushes)
    /\ answers \subseteq Replies /\ heard \in States \cup {Silence}

\* The message a call asks main to run.
Carried(q) == IF q.kind \in {"run", "interrupt"} THEN q.run ELSE None

\* Where a message can be.
Asked == {m \in Messages : \E i \in DOMAIN toMain : Carried(toMain[i]) = m}
Refused == {m \in Messages : \E a \in answers : a.kind = "refused" /\ a.run = m}
Begun == {m \in Messages : phase[m] # "none"}
Alive == {m \in Messages : Live(m)}
Queued == ToSet(queue)
PutOff == {m \in Messages : \E i \in DOMAIN deferred : deferred[i].run = m}
Held == ToSet(waiting)
Open == Queued \cup PutOff \cup Asked \cup Held \cup Refused

\* A message is in one place at a time, and in that place once.
Once(s) == \A i, j \in DOMAIN s : s[i] = s[j] => i = j
CarriedOnce ==
    \A i, j \in DOMAIN toMain :
        Carried(toMain[i]) = Carried(toMain[j]) /\ Carried(toMain[i]) # None => i = j
RefusedOnce ==
    \A a, b \in answers : a.kind = "refused" /\ b.kind = "refused" /\ a.run = b.run => a = b
PutOffOnce == \A i, j \in DOMAIN deferred : deferred[i].run = deferred[j].run => i = j

QueuedOnce == Once(queue)
HeldOnce == Once(waiting)
Singly == QueuedOnce /\ PutOffOnce /\ HeldOnce /\ CarriedOnce /\ RefusedOnce
Apart ==
    /\ Queued \cap (PutOff \cup Asked \cup Held \cup Refused \cup Begun) = {}
    /\ PutOff \cap (Asked \cup Held \cup Refused \cup Begun) = {}
    /\ Asked \cap (Held \cup Refused \cup Begun) = {}
    /\ Held \cap (Refused \cup Begun) = {}
    /\ Refused \cap Begun = {}
    /\ Open \cup Begun \subseteq sent
OnePlace == Singly /\ Apart

\* The registry names the live run, and whoever needs the session keeps the others out
\* from the moment it begins to wait for it.
Claimed ==
    /\ \A r \in Runs : Live(r) <=> registry = r
    /\ registry # None => compact # "working" /\ idle # "active"
    /\ \A r \in Runs : phase[r] \in {"recording", "working"} => idle # "stopping"
    /\ compact = "yielding" => idle # "active"
    /\ compact = "working" => idle \notin {"active", "stopping"}

\* What has run is in the log or was reported.
Accounted ==
    /\ \A r \in Runs : phase[r] = "working" => r \in log
    /\ \A r \in Runs : phase[r] \in {"ending", "settled"} => r \in log \cup reported

\* Nothing that was sent is nowhere.
Somewhere ==
    sent \subseteq Open \cup Alive \cup log \cup reported \cup dropped \cup lost

IInv == TypeOK /\ ChannelsOK /\ OnePlace /\ Claimed /\ Accounted /\ Somewhere

-------------------------------------------------------------------------------
(***************************************************************************)
(* Queues, calls and answers.                                              *)
(***************************************************************************)

\* The elements of a queue.
LEMMA Elements == \A q, x : x \in ToSet(q) <=> \E i \in DOMAIN q : q[i] = x
  BY DEF ToSet

LEMMA Within == ASSUME NEW S, NEW q \in Seq(S) PROVE ToSet(q) \subseteq S
  BY Elements

LEMMA OneElement == ASSUME NEW S, NEW x \in S PROVE <<x>> \in Seq(S)
  OBVIOUS

\* What one more element makes of a queue.
LEMMA Appended ==
    ASSUME NEW S, NEW q \in Seq(S), NEW x \in S
    PROVE  /\ Append(q, x) \in Seq(S)
           /\ ToSet(Append(q, x)) = ToSet(q) \cup {x}
           /\ Once(q) /\ x \notin ToSet(q) => Once(Append(q, x))
<1>1. /\ Append(q, x) \in Seq(S) /\ Len(q) \in Nat
      /\ DOMAIN q = 1..Len(q) /\ DOMAIN Append(q, x) = 1..(Len(q) + 1)
      /\ \A i \in 1..Len(q) : Append(q, x)[i] = q[i]
      /\ Append(q, x)[Len(q) + 1] = x
  OBVIOUS
<1> QED
  BY <1>1 DEF ToSet, Once

\* What is left when the first element has gone.
LEMMA Shifted ==
    ASSUME NEW S, NEW q \in Seq(S), q # <<>>
    PROVE  /\ Tail(q) \in Seq(S) /\ Head(q) \in S
           /\ ToSet(q) = {Head(q)} \cup ToSet(Tail(q))
           /\ Once(q) => Once(Tail(q)) /\ Head(q) \notin ToSet(Tail(q))
<1>1. /\ Tail(q) \in Seq(S) /\ Head(q) \in S /\ Len(q) \in Nat /\ Len(q) > 0
      /\ DOMAIN q = 1..Len(q) /\ DOMAIN Tail(q) = 1..(Len(q) - 1)
      /\ \A i \in 1..(Len(q) - 1) : Tail(q)[i] = q[i + 1]
      /\ Head(q) = q[1]
  OBVIOUS
<1>2. \A i \in 1..Len(q) : i = 1 \/ (i - 1 \in 1..(Len(q) - 1) /\ q[i] = Tail(q)[i - 1])
  BY <1>1
<1>3. ToSet(q) = {Head(q)} \cup ToSet(Tail(q))
  <2> DEFINE t == Tail(q)
             h == Head(q)
  <2>1. \A i \in DOMAIN q : q[i] = h \/ \E j \in DOMAIN t : t[j] = q[i]
    <3> SUFFICES ASSUME NEW i \in DOMAIN q, q[i] # h PROVE \E j \in DOMAIN t : t[j] = q[i]
      OBVIOUS
    <3>1. i - 1 \in DOMAIN t /\ q[i] = t[i - 1]
      BY <1>1, <1>2
    <3> QED
      BY <3>1
  <2>2. \A i \in DOMAIN t : i + 1 \in DOMAIN q /\ q[i + 1] = t[i]
    BY <1>1
  <2>3. 1 \in DOMAIN q /\ q[1] = h
    BY <1>1
  <2> HIDE DEF t, h
  <2>4. \A x : x \in ToSet(q) <=> x = h \/ x \in ToSet(t)
    BY <2>1, <2>2, <2>3, Elements
  <2> QED
    BY <2>4 DEF t, h
<1>4. Once(q) => Once(Tail(q)) /\ Head(q) \notin ToSet(Tail(q))
  <2>1. ASSUME Once(q) PROVE Once(Tail(q))
    <3> SUFFICES ASSUME NEW i \in 1..(Len(q) - 1), NEW j \in 1..(Len(q) - 1), Tail(q)[i] = Tail(q)[j]
                 PROVE  i = j
      BY <1>1 DEF Once
    <3>1. q[i + 1] = q[j + 1] /\ i + 1 \in DOMAIN q /\ j + 1 \in DOMAIN q
      BY <1>1
    <3> QED
      BY <2>1, <3>1 DEF Once
  <2>2. ASSUME Once(q), Head(q) \in ToSet(Tail(q)) PROVE FALSE
    <3>1. PICK i \in 1..(Len(q) - 1) : Head(q) = Tail(q)[i]
      BY <1>1, <2>2 DEF ToSet
    <3>2. q[1] = q[i + 1] /\ 1 \in DOMAIN q /\ i + 1 \in DOMAIN q /\ i + 1 # 1
      BY <1>1, <3>1
    <3> QED
      BY <2>2, <3>2 DEF Once
  <2> QED
    BY <2>1, <2>2
<1> QED
  BY <1>1, <1>3, <1>4

\* What is left when an element has been taken out.
LEMMA Removed ==
    ASSUME NEW S, NEW q \in Seq(S), NEW k \in DOMAIN q
    PROVE  /\ RemoveAt(q, k) \in Seq(S)
           /\ Once(q) => Once(RemoveAt(q, k)) /\ ToSet(RemoveAt(q, k)) = ToSet(q) \ {q[k]}
<1> DEFINE r == RemoveAt(q, k)
<1>1. DOMAIN q = 1..Len(q) /\ Len(q) \in Nat /\ k \in 1..Len(q)
  OBVIOUS
<1>2. /\ SubSeq(q, 1, k - 1) \in Seq(S) /\ Len(SubSeq(q, 1, k - 1)) = k - 1
      /\ \A i \in 1..(k - 1) : SubSeq(q, 1, k - 1)[i] = q[i]
  BY <1>1
<1>3. /\ SubSeq(q, k + 1, Len(q)) \in Seq(S) /\ Len(SubSeq(q, k + 1, Len(q))) = Len(q) - k
      /\ \A i \in 1..(Len(q) - k) : SubSeq(q, k + 1, Len(q))[i] = q[i + k]
  BY <1>1
<1>4. /\ r \in Seq(S) /\ DOMAIN r = 1..(Len(q) - 1)
      /\ \A i \in 1..(k - 1) : r[i] = q[i]
      /\ \A i \in k..(Len(q) - 1) : r[i] = q[i + 1]
  <2> DEFINE a == SubSeq(q, 1, k - 1)
             b == SubSeq(q, k + 1, Len(q))
  <2>1. r = a \o b
    BY DEF RemoveAt
  <2>2. a \in Seq(S) /\ b \in Seq(S) /\ Len(a) = k - 1 /\ Len(b) = Len(q) - k
    BY <1>2, <1>3
  <2> HIDE DEF a, b, r
  <2>3. r \in Seq(S) /\ Len(r) = Len(q) - 1 /\ DOMAIN r = 1..Len(r)
    <3>1. r \in Seq(S) /\ Len(r) = Len(a) + Len(b)
      BY <2>1, <2>2, ConcatProperties
    <3>2. DOMAIN r = 1..Len(r)
      BY <3>1
    <3> QED
      BY <1>1, <2>2, <3>1, <3>2
  <2>4. \A i \in 1..(k - 1) : r[i] = a[i]
    BY <1>1, <2>1, <2>2, ConcatProperties
  <2>5. \A i \in k..(Len(q) - 1) : r[i] = b[i - (k - 1)] /\ i - (k - 1) \in 1..(Len(q) - k)
    BY <1>1, <2>1, <2>2, ConcatProperties
  <2>6. \A i \in k..(Len(q) - 1) : (i - (k - 1)) + k = i + 1
    BY <1>1
  <2> QED
    BY <1>2, <1>3, <2>3, <2>4, <2>5, <2>6 DEF a, b
<1> HIDE DEF r
<1>5. \A i \in 1..(Len(q) - 1) : \E j \in 1..Len(q) :
        r[i] = q[j] /\ j # k /\ (i < k => j = i) /\ (i >= k => j = i + 1)
  <2> SUFFICES ASSUME NEW i \in 1..(Len(q) - 1)
               PROVE  \E j \in 1..Len(q) : r[i] = q[j] /\ j # k
                         /\ (i < k => j = i) /\ (i >= k => j = i + 1)
    OBVIOUS
  <2>1. CASE i < k
    <3>1. r[i] = q[i] /\ i \in 1..Len(q) /\ i # k
      BY <1>1, <1>4, <2>1
    <3> QED
      BY <1>1, <2>1, <3>1
  <2>2. CASE i >= k
    <3>1. r[i] = q[i + 1] /\ i + 1 \in 1..Len(q) /\ i + 1 # k
      BY <1>1, <1>4, <2>2
    <3> QED
      BY <1>1, <2>2, <3>1
  <2> QED
    BY <1>1, <2>1, <2>2
<1>6. \A j \in 1..Len(q) : j # k => \E i \in 1..(Len(q) - 1) : r[i] = q[j]
  <2> SUFFICES ASSUME NEW j \in 1..Len(q), j # k PROVE \E i \in 1..(Len(q) - 1) : r[i] = q[j]
    OBVIOUS
  <2>1. CASE j < k
    BY <1>1, <1>4, <2>1
  <2>2. CASE j > k
    <3>1. j - 1 \in k..(Len(q) - 1) /\ (j - 1) + 1 = j
      BY <1>1, <2>2
    <3> QED
      BY <1>1, <1>4, <3>1
  <2> QED
    BY <1>1, <2>1, <2>2
<1>7. ASSUME Once(q) PROVE Once(r)
  <2> SUFFICES ASSUME NEW i \in DOMAIN r, NEW j \in DOMAIN r, r[i] = r[j] PROVE i = j
    BY DEF Once
  <2>1. PICK a \in 1..Len(q) : r[i] = q[a] /\ (i < k => a = i) /\ (i >= k => a = i + 1)
    BY <1>4, <1>5
  <2>2. PICK b \in 1..Len(q) : r[j] = q[b] /\ (j < k => b = j) /\ (j >= k => b = j + 1)
    BY <1>4, <1>5
  <2>3. a = b
    BY <1>1, <1>7, <2>1, <2>2 DEF Once
  <2> QED
    BY <1>1, <1>4, <2>1, <2>2, <2>3
<1>8. ASSUME Once(q) PROVE ToSet(r) = ToSet(q) \ {q[k]}
  <2>1. \A j \in 1..Len(q) : q[j] = q[k] => j = k
    BY <1>1, <1>8 DEF Once
  <2>2. \A x : x \in ToSet(r) => x \in ToSet(q) /\ x # q[k]
    BY <1>1, <1>4, <1>5, <2>1, Elements
  <2>3. \A x : x \in ToSet(q) /\ x # q[k] => x \in ToSet(r)
    BY <1>1, <1>4, <1>6, Elements
  <2> QED
    BY <2>2, <2>3
<1> QED
  BY <1>4, <1>7, <1>8 DEF r

\* A call that asks main to run a message, and any other call.
LEMMA AskedToRun ==
    ASSUME ChannelsOK, NEW m \in Messages, NEW k \in {"run", "interrupt"}, Ask(k, m),
           m \notin Asked
    PROVE  /\ toMain' \in Seq(Requests) /\ Asked' = Asked \cup {m}
           /\ CarriedOnce => CarriedOnce'
<1> DEFINE q == [kind |-> k, run |-> m]
<1>1. q \in Requests /\ Carried(q) = m
  BY DEF Requests, Carried
<1>2. /\ toMain' \in Seq(Requests) /\ Len(toMain) \in Nat
      /\ DOMAIN toMain = 1..Len(toMain) /\ DOMAIN toMain' = 1..(Len(toMain) + 1)
      /\ \A i \in 1..Len(toMain) : toMain'[i] = toMain[i]
      /\ toMain'[Len(toMain) + 1] = q
  BY <1>1 DEF Ask, ChannelsOK
<1>3. Asked' = Asked \cup {m}
  BY <1>1, <1>2 DEF Asked
<1>4. CarriedOnce => CarriedOnce'
  BY <1>1, <1>2 DEF CarriedOnce, Asked
<1> QED
  BY <1>2, <1>3, <1>4

LEMMA AskedElse ==
    ASSUME ChannelsOK, NEW k \in {"cancel", "stop", "compact", "clear", "active"}, NEW r, Ask(k, r),
           k = "cancel" => r \in Runs, k # "cancel" => r = None
    PROVE  /\ toMain' \in Seq(Requests) /\ Asked' = Asked
           /\ CarriedOnce => CarriedOnce'
<1> DEFINE q == [kind |-> k, run |-> r]
<1>1. q \in Requests /\ Carried(q) = None
  BY DEF Requests, Carried
<1>2. /\ toMain' \in Seq(Requests) /\ Len(toMain) \in Nat
      /\ DOMAIN toMain = 1..Len(toMain) /\ DOMAIN toMain' = 1..(Len(toMain) + 1)
      /\ \A i \in 1..Len(toMain) : toMain'[i] = toMain[i]
      /\ toMain'[Len(toMain) + 1] = q
  BY <1>1 DEF Ask, ChannelsOK
<1>3. Asked' = Asked
  BY <1>1, <1>2, RunsAssumption DEF Asked, RunsAssumption
<1>4. CarriedOnce => CarriedOnce'
  BY <1>1, <1>2 DEF CarriedOnce
<1> QED
  BY <1>2, <1>3, <1>4

\* The first call is taken.
LEMMA RequestTaken ==
    ASSUME ChannelsOK, CarriedOnce, toMain # <<>>, toMain' = Tail(toMain)
    PROVE  /\ toMain' \in Seq(Requests) /\ Head(toMain) \in Requests /\ CarriedOnce'
           /\ IF Head(toMain).kind \in {"run", "interrupt"}
              THEN Head(toMain).run \in Asked /\ Asked' = Asked \ {Head(toMain).run}
              ELSE Asked' = Asked
<1> DEFINE h == Head(toMain)
<1>1. /\ toMain' \in Seq(Requests) /\ h \in Requests /\ Len(toMain) \in Nat /\ Len(toMain) > 0
      /\ DOMAIN toMain = 1..Len(toMain) /\ DOMAIN toMain' = 1..(Len(toMain) - 1)
      /\ \A i \in 1..(Len(toMain) - 1) : toMain'[i] = toMain[i + 1]
      /\ h = toMain[1]
  BY DEF ChannelsOK
<1> HIDE DEF h
<1>2. CarriedOnce'
  <2> SUFFICES ASSUME NEW i \in DOMAIN toMain', NEW j \in DOMAIN toMain',
                      Carried(toMain'[i]) = Carried(toMain'[j]), Carried(toMain'[i]) # None
               PROVE  i = j
    BY DEF CarriedOnce, Carried
  <2>1. /\ i + 1 \in DOMAIN toMain /\ toMain'[i] = toMain[i + 1]
        /\ j + 1 \in DOMAIN toMain /\ toMain'[j] = toMain[j + 1]
    BY <1>1
  <2>2. i + 1 = j + 1
    BY <2>1 DEF CarriedOnce
  <2> QED
    BY <1>1, <2>2
<1>3. \A m \in Messages : m \in Asked <=> Carried(h) = m \/ m \in Asked'
  <2> TAKE m \in Messages
  <2>1. ASSUME NEW i \in DOMAIN toMain, Carried(toMain[i]) = m, Carried(h) # m PROVE m \in Asked'
    <3>1. i - 1 \in DOMAIN toMain' /\ toMain'[i - 1] = toMain[i]
      BY <1>1, <2>1
    <3> QED
      BY <2>1, <3>1 DEF Asked, Carried
  <2>2. ASSUME NEW i \in DOMAIN toMain', Carried(toMain'[i]) = m PROVE m \in Asked
    <3>1. i + 1 \in DOMAIN toMain /\ toMain'[i] = toMain[i + 1]
      BY <1>1
    <3> QED
      BY <2>2, <3>1 DEF Asked
  <2>3. 1 \in DOMAIN toMain /\ toMain[1] = h
    BY <1>1
  <2> QED
    BY <2>1, <2>2, <2>3 DEF Asked, Carried
<1>4. CASE h.kind \in {"run", "interrupt"}
  <2>1. h.run \in Messages /\ Carried(h) = h.run
    BY <1>1, <1>4, RunsAssumption DEF Requests, Carried
  <2>2. h.run \notin Asked'
    <3> SUFFICES ASSUME NEW i \in DOMAIN toMain', Carried(toMain'[i]) = h.run PROVE FALSE
      BY DEF Asked, Carried
    <3>1. /\ i + 1 \in DOMAIN toMain /\ toMain'[i] = toMain[i + 1] /\ i + 1 # 1
          /\ 1 \in DOMAIN toMain /\ toMain[1] = h
      BY <1>1
    <3> QED
      BY <2>1, <3>1, RunsAssumption DEF CarriedOnce, RunsAssumption
  <2>3. Asked \subseteq Messages /\ Asked' \subseteq Messages
    BY DEF Asked
  <2> QED
    BY <1>1, <1>2, <1>3, <1>4, <2>1, <2>2, <2>3 DEF h
<1>5. CASE h.kind \notin {"run", "interrupt"}
  <2>1. Carried(h) = None
    BY <1>5 DEF Carried
  <2>2. Asked \subseteq Messages /\ Asked' \subseteq Messages
    BY DEF Asked
  <2>3. Asked' = Asked
    BY <1>3, <2>1, <2>2, RunsAssumption DEF RunsAssumption
  <2> QED
    BY <1>1, <1>2, <1>5, <2>3 DEF h
<1> QED
  BY <1>4, <1>5

\* One more message is put off; the first that was put off goes on.
LEMMA PutOffGrown ==
    ASSUME deferred \in Seq(Puts), NEW m \in Messages, NEW d \in Puts, d.run = m,
           deferred' = Append(deferred, d), m \notin PutOff
    PROVE  /\ deferred' \in Seq(Puts) /\ PutOff' = PutOff \cup {m}
           /\ PutOffOnce => PutOffOnce'
<1>1. /\ deferred' \in Seq(Puts) /\ Len(deferred) \in Nat
      /\ DOMAIN deferred = 1..Len(deferred) /\ DOMAIN deferred' = 1..(Len(deferred) + 1)
      /\ \A i \in 1..Len(deferred) : deferred'[i] = deferred[i]
      /\ deferred'[Len(deferred) + 1] = d
  OBVIOUS
<1>2. PutOff' = PutOff \cup {m}
  BY <1>1 DEF PutOff
<1>3. PutOffOnce => PutOffOnce'
  BY <1>1 DEF PutOffOnce, PutOff
<1> QED
  BY <1>1, <1>2, <1>3

LEMMA PutOffShifted ==
    ASSUME deferred \in Seq(Puts), PutOffOnce, deferred # <<>>, deferred' = Tail(deferred)
    PROVE  /\ deferred' \in Seq(Puts) /\ Head(deferred) \in Puts /\ PutOffOnce'
           /\ Head(deferred).run \in PutOff /\ PutOff' = PutOff \ {Head(deferred).run}
<1> DEFINE h == Head(deferred)
<1>1. /\ deferred' \in Seq(Puts) /\ h \in Puts /\ Len(deferred) \in Nat /\ Len(deferred) > 0
      /\ DOMAIN deferred = 1..Len(deferred) /\ DOMAIN deferred' = 1..(Len(deferred) - 1)
      /\ \A i \in 1..(Len(deferred) - 1) : deferred'[i] = deferred[i + 1]
      /\ h = deferred[1]
  OBVIOUS
<1> HIDE DEF h
<1>2. /\ \A i \in DOMAIN deferred' : i + 1 \in DOMAIN deferred /\ i + 1 # 1
                                     /\ deferred'[i] = deferred[i + 1]
      /\ \A i \in DOMAIN deferred : i # 1 => i - 1 \in DOMAIN deferred'
                                     /\ deferred'[i - 1] = deferred[i]
      /\ 1 \in DOMAIN deferred
  BY <1>1
<1>3. PutOffOnce'
  <2> SUFFICES ASSUME NEW i \in DOMAIN deferred', NEW j \in DOMAIN deferred',
                      deferred'[i].run = deferred'[j].run
               PROVE  i = j
    BY DEF PutOffOnce
  <2>1. i + 1 = j + 1
    BY <1>2 DEF PutOffOnce
  <2> QED
    BY <1>1, <2>1
<1>4. h.run \in Messages
  BY <1>1 DEF Puts
<1>5. \A m \in Messages : m \in PutOff' <=> m \in PutOff /\ m # h.run
  <2> TAKE m \in Messages
  <2>1. ASSUME m \in PutOff' PROVE m \in PutOff /\ m # h.run
    <3>1. PICK i \in DOMAIN deferred' : deferred'[i].run = m
      BY <2>1 DEF PutOff
    <3>2. i + 1 \in DOMAIN deferred /\ deferred[i + 1].run = m
      BY <1>2, <3>1
    <3> QED
      BY <1>1, <1>2, <3>2 DEF PutOff, PutOffOnce
  <2>2. ASSUME m \in PutOff, m # h.run PROVE m \in PutOff'
    <3>1. PICK i \in DOMAIN deferred : deferred[i].run = m
      BY <2>2 DEF PutOff
    <3>2. i # 1
      BY <1>1, <2>2, <3>1
    <3> QED
      BY <1>2, <3>1, <3>2 DEF PutOff
  <2> QED
    BY <2>1, <2>2
<1>6. h.run \in PutOff
  BY <1>1, <1>2, <1>4 DEF PutOff
<1>7. PutOff \subseteq Messages /\ PutOff' \subseteq Messages
  BY DEF PutOff
<1> QED
  BY <1>1, <1>3, <1>5, <1>6, <1>7 DEF h

LEMMA PutOffKept ==
    UNCHANGED deferred => PutOff' = PutOff /\ (PutOffOnce => PutOffOnce')
  BY DEF PutOff, PutOffOnce

LEMMA AskedKept ==
    UNCHANGED toMain => Asked' = Asked /\ (CarriedOnce => CarriedOnce')
  BY DEF Asked, CarriedOnce

\* A prompt that is accepted goes to main, or is put off.
LEMMA Prompted ==
    ASSUME TypeOK, ChannelsOK, NEW m \in Messages, m \notin Asked, m \notin PutOff,
           NEW k \in {"run", "interrupt"}, RunPrompt(m, k)
    PROVE  /\ toMain' \in Seq(Requests) /\ deferred' \in Seq(Puts)
           /\ running' \in Runs \cup {None}
           /\ CarriedOnce /\ PutOffOnce => CarriedOnce' /\ PutOffOnce'
           /\ \/ Asked' = Asked \cup {m} /\ PutOff' = PutOff
              \/ Asked' = Asked /\ PutOff' = PutOff \cup {m}
<1>0. deferred \in Seq(Puts) /\ toMain \in Seq(Requests) /\ running \in Runs \cup {None}
      /\ m \in Runs
  BY DEF TypeOK, ChannelsOK, Puts, Runs
<1>1. CASE clearing
  <2> DEFINE d == [kind |-> k, run |-> m, able |-> "model" \notin missing]
  <2>1. deferred' = Append(deferred, d) /\ UNCHANGED <<running, toMain>>
    BY <1>1 DEF RunPrompt
  <2>2. d \in Puts /\ d.run = m
    BY DEF Puts
  <2> HIDE DEF d
  <2>3. /\ deferred' \in Seq(Puts) /\ PutOff' = PutOff \cup {m}
        /\ PutOffOnce => PutOffOnce'
    BY <1>0, <2>1, <2>2, PutOffGrown
  <2> QED
    BY <1>0, <2>1, <2>3, AskedKept
<1>2. CASE ~clearing
  <2>1. running' = m /\ Ask(k, m) /\ UNCHANGED deferred
    BY <1>2 DEF RunPrompt
  <2> QED
    BY <1>0, <2>1, AskedToRun, PutOffKept
<1> QED
  BY <1>1, <1>2

\* An answer that refuses a message, any other answer, and an answer heard.
LEMMA Answered ==
    ASSUME ChannelsOK, NEW a \in Replies, answers' = answers \cup {a}
    PROVE  /\ answers' \subseteq Replies
           /\ a.kind = "refused" =>
                Refused' = Refused \cup {a.run} /\ (RefusedOnce /\ a.run \notin Refused => RefusedOnce')
           /\ a.kind # "refused" => Refused' = Refused /\ (RefusedOnce => RefusedOnce')
<1>1. answers' \subseteq Replies
  BY DEF ChannelsOK
<1>2. CASE a.kind = "refused"
  <2>1. a.run \in Messages
    BY <1>2 DEF Replies
  <2> QED
    BY <1>1, <1>2, <2>1 DEF Refused, RefusedOnce, ChannelsOK, Replies
<1>3. CASE a.kind # "refused"
  BY <1>1, <1>3 DEF Refused, RefusedOnce
<1> QED
  BY <1>2, <1>3

LEMMA AnswerHeard ==
    ASSUME ChannelsOK, RefusedOnce, NEW a \in answers, answers' = answers \ {a}
    PROVE  /\ answers' \subseteq Replies /\ a \in Replies /\ RefusedOnce'
           /\ a.kind = "refused" => a.run \in Refused /\ Refused' = Refused \ {a.run}
           /\ a.kind # "refused" => Refused' = Refused
<1>1. answers' \subseteq Replies /\ a \in Replies /\ RefusedOnce'
  BY DEF ChannelsOK, RefusedOnce
<1>2. CASE a.kind = "refused"
  <2>1. a.run \in Messages
    BY <1>1, <1>2 DEF Replies
  <2> QED
    BY <1>1, <1>2, <2>1 DEF Refused, RefusedOnce
<1>3. CASE a.kind # "refused"
  BY <1>1, <1>3 DEF Refused
<1> QED
  BY <1>2, <1>3

\* What is pushed to the window.
LEMMA Told ==
    ASSUME ChannelsOK, NEW p \in Seq(Pushes), Tell(p)
    PROVE  toWindow' \in Seq(Pushes)
  BY ConcatProperties DEF ChannelsOK, Tell

LEMMA PushesOK ==
    \A r \in Runs, b \in BOOLEAN :
        State(r, b) \in Pushes /\ [kind |-> "request", run |-> r] \in Pushes
  BY DEF State, States, Pushes

-------------------------------------------------------------------------------
(***************************************************************************)
(* Types.                                                                  *)
(***************************************************************************)

LEMMA TypeInit == Init => TypeOK /\ ChannelsOK
<1> SUFFICES ASSUME Init PROVE TypeOK /\ ChannelsOK
  OBVIOUS
<1>1. toMain \in Seq(Requests)
  <2>1. [kind |-> "active", run |-> None] \in Requests
    BY DEF Requests
  <2> QED
    BY <2>1 DEF Init
<1>2. /\ waiting \in Seq(Messages) /\ queue \in Seq(Messages)
      /\ deferred \in Seq([kind: {"run", "interrupt"}, run: Messages, able: BOOLEAN])
  BY DEF Init
<1>3. phase \in [Runs -> {"none", "yielding", "recording", "working", "ending", "settled"}]
  BY DEF Init
<1>4. /\ registry = None /\ running = None /\ aborted = {} /\ calls = {} /\ stopping = "none"
      /\ compact = "none" /\ idle = "none" /\ clear = "none" /\ log = {}
      /\ acting = FALSE /\ compacting = FALSE /\ clearing = FALSE
      /\ missing \subseteq Needs /\ passed = FALSE /\ reserved = FALSE
      /\ sent = {} /\ reported = {} /\ dropped = {} /\ lost = {}
  BY DEF Init
<1>5. TypeOK
  BY <1>2, <1>3, <1>4 DEF TypeOK
<1> QED
  BY <1>1, <1>5 DEF Init, ChannelsOK

\* The window keeps its types.
LEMMA WindowTypes ==
    TypeOK /\ ChannelsOK /\ OnePlace /\ (User \/ RunQueued \/ HearPush \/ HearAnswer \/ GoesOn)
        => TypeOK' /\ ChannelsOK'
<1> SUFFICES ASSUME TypeOK, ChannelsOK, OnePlace,
                    User \/ RunQueued \/ HearPush \/ HearAnswer \/ GoesOn
             PROVE  TypeOK' /\ ChannelsOK'
  OBVIOUS
<1> USE DEF mainVars, windowVars, queueVars, gates
<1>0. /\ queue \in Seq(Messages) /\ Messages \subseteq Runs /\ deferred \in Seq(Puts)
      /\ Changed => passed' \in BOOLEAN /\ reserved' \in BOOLEAN
  BY DEF TypeOK, Runs, Puts, Changed
<1>1. ASSUME NEW m \in Messages, Send(m) PROVE TypeOK' /\ ChannelsOK'
  <2>1. m \notin Asked /\ m \notin PutOff
    BY <1>1 DEF Send, OnePlace, Apart, Open
  <2>2. toMain' \in Seq(Requests) /\ deferred' \in Seq(Puts) /\ running' \in Runs \cup {None}
    BY <1>1, <2>1, Prompted DEF Send
  <2> QED
    BY <1>0, <1>1, <2>2 DEF Send, Extra, TypeOK, ChannelsOK, Puts
<1>2. ASSUME NEW m \in Messages, Enqueue(m) PROVE TypeOK' /\ ChannelsOK'
  <2>1. queue' \in Seq(Messages)
    BY <1>0, <1>2, Appended DEF Enqueue
  <2>2. /\ passed' \in BOOLEAN /\ sent' \subseteq Messages
        /\ UNCHANGED <<mainVars, toMain, toWindow, answers, running, reserved, heard, gates,
                       deferred, reported, dropped, lost>>
    BY <1>2 DEF Enqueue, TypeOK
  <2> QED
    BY <2>1, <2>2 DEF TypeOK, ChannelsOK
<1>3. ASSUME NEW m \in Messages, Interrupt(m) PROVE TypeOK' /\ ChannelsOK'
  <2>1. m \notin Asked /\ m \notin PutOff
    BY <1>3 DEF Interrupt, OnePlace, Apart, Open
  <2>2. toMain' \in Seq(Requests) /\ deferred' \in Seq(Puts) /\ running' \in Runs \cup {None}
    BY <1>3, <2>1, Prompted DEF Interrupt
  <2> QED
    BY <1>0, <1>3, <2>2 DEF Interrupt, TypeOK, ChannelsOK, Puts
<1>4. ASSUME NEW m \in Messages, SendQueuedNow(m) PROVE TypeOK' /\ ChannelsOK'
  <2>1. PICK i \in DOMAIN queue : queue[i] = m /\ queue' = RemoveAt(queue, i)
    BY <1>4 DEF SendQueuedNow
  <2>2. queue' \in Seq(Messages)
    BY <1>0, <2>1, Removed
  <2>3. m \notin Asked /\ m \notin PutOff
    BY <2>1, Elements DEF OnePlace, Apart, Queued
  <2>4. /\ toMain' \in Seq(Requests) /\ deferred' \in Seq(Puts)
        /\ running' \in Runs \cup {None} /\ lost' \subseteq Messages
    <3>1. CASE RunPrompt(m, "interrupt") /\ UNCHANGED lost
      BY <2>3, <3>1, Prompted DEF TypeOK
    <3>2. CASE lost' = lost \cup {m} /\ UNCHANGED <<running, toMain, deferred>>
      BY <1>0, <3>2 DEF TypeOK, ChannelsOK
    <3> QED
      BY <1>4, <3>1, <3>2 DEF SendQueuedNow
  <2> QED
    BY <1>0, <1>4, <2>2, <2>4 DEF SendQueuedNow, TypeOK, ChannelsOK, Puts
<1>5. ASSUME Cancel PROVE TypeOK' /\ ChannelsOK'
  <2>1. toMain' \in Seq(Requests)
    BY <1>5, AskedElse DEF Cancel, TypeOK
  <2> QED
    BY <1>5, <2>1 DEF Cancel, TypeOK, ChannelsOK
<1>6. ASSUME Compact \/ Clear PROVE TypeOK' /\ ChannelsOK'
  <2>1. toMain' \in Seq(Requests)
    BY <1>6, AskedElse DEF Compact, Clear
  <2>2. /\ compacting' \in BOOLEAN /\ clearing' \in BOOLEAN /\ passed' \in BOOLEAN
    BY <1>6 DEF Compact, Clear, TypeOK
  <2>3. UNCHANGED <<mainVars, toWindow, answers, queue, running, reserved, acting, missing,
                    deferred, heard, sent, reported, dropped, lost>>
    BY <1>6 DEF Compact, Clear
  <2> QED
    BY <2>1, <2>2, <2>3 DEF TypeOK, ChannelsOK
<1>7. ASSUME Archive PROVE TypeOK' /\ ChannelsOK'
  <2>1. toMain' \in Seq(Requests)
    BY <1>7, AskedElse DEF Archive
  <2>2. ToSet(queue) \subseteq Messages
    BY <1>0, Elements
  <2>3. queue' \in Seq(Messages)
    BY <1>7, EmptySeq DEF Archive
  <2>4. /\ acting' \in BOOLEAN /\ passed' \in BOOLEAN /\ dropped' \subseteq Messages
        /\ UNCHANGED <<mainVars, toWindow, answers, running, reserved, compacting, clearing,
                       missing, deferred, heard, sent, reported, lost>>
    BY <1>7, <2>2 DEF Archive, TypeOK
  <2> QED
    BY <2>1, <2>3, <2>4 DEF TypeOK, ChannelsOK
<1>8. ASSUME RunQueued PROVE TypeOK' /\ ChannelsOK'
  <2>1. /\ Tail(queue) \in Seq(Messages) /\ Head(queue) \in Messages /\ Head(queue) \in Queued
    BY <1>0, <1>8, Shifted DEF RunQueued, Queued
  <2>2. Head(queue) \notin Asked /\ Head(queue) \notin PutOff
    BY <2>1 DEF OnePlace, Apart
  <2>3. CASE RunPrompt(Head(queue), "run") /\ queue' = Tail(queue)
             /\ reserved' = (running' = None) /\ UNCHANGED passed
    <3>1. toMain' \in Seq(Requests) /\ deferred' \in Seq(Puts) /\ running' \in Runs \cup {None}
      BY <2>1, <2>2, <2>3, Prompted
    <3> QED
      BY <1>8, <2>1, <2>3, <3>1 DEF RunQueued, TypeOK, ChannelsOK, Puts
  <2>4. CASE passed' = TRUE /\ UNCHANGED <<queue, running, reserved, toMain, deferred>>
    BY <1>8, <2>4 DEF RunQueued, TypeOK, ChannelsOK
  <2> QED
    BY <1>8, <2>3, <2>4 DEF RunQueued
<1>9. ASSUME HearPush PROVE TypeOK' /\ ChannelsOK'
  <2>1. toWindow' \in Seq(Pushes) /\ Head(toWindow) \in Pushes
    BY <1>9, Shifted DEF HearPush, ChannelsOK
  <2>2. running' \in Runs \cup {None} /\ heard' \in States \cup {Silence}
    <3> DEFINE p == Head(toWindow)
    <3>1. CASE p.kind = "state" /\ heard' = p /\ running' = Applied(running, p)
      <4>1. p \in States
        BY <2>1, <3>1 DEF Pushes
      <4> HIDE DEF p
      <4> QED
        BY <3>1, <4>1 DEF States, Applied, TypeOK
    <3>2. CASE p.kind = "request" /\ running' = p.run /\ UNCHANGED heard
      <4>1. p.run \in Runs
        BY <2>1 DEF Pushes, States
      <4> HIDE DEF p
      <4> QED
        BY <3>2, <4>1 DEF ChannelsOK
    <3> QED
      BY <1>9, <3>1, <3>2 DEF HearPush
  <2> QED
    BY <1>0, <1>9, <2>1, <2>2 DEF HearPush, TypeOK, ChannelsOK
<1>10. ASSUME HearAnswer PROVE TypeOK' /\ ChannelsOK'
  <2>1. PICK a \in answers :
           /\ answers' = answers \ {a}
           /\ \/ HearRefused(a) \/ HearFailed(a) \/ HearActive(a)
              \/ HearStopped(a) \/ HearCompacted(a) \/ HearCleared(a) \/ HearClearFailed(a)
           /\ IF UNCHANGED <<queue, running>> THEN UNCHANGED <<passed, reserved>> ELSE Changed
           /\ UNCHANGED <<mainVars, toMain, toWindow, heard, sent, dropped, extras>>
    BY <1>10 DEF HearAnswer
  <2>2. /\ answers' \subseteq Replies /\ a.active \in Runs \cup {None}
        /\ a.kind \in {"refused", "failed"} => a.run \in Messages
    BY <2>1 DEF ChannelsOK, Replies
  <2>3. \A x \in Runs \cup {None} : \A r :
           /\ Finished(x, r) \in Runs \cup {None}
           /\ heard # Silence => Applied(x, heard) \in Runs \cup {None}
           /\ Applied(x, State(a.active, TRUE)) \in Runs \cup {None}
    BY <2>2 DEF Finished, Applied, State, States, ChannelsOK
  <2>4. /\ passed' \in BOOLEAN /\ reserved' \in BOOLEAN
        /\ UNCHANGED <<mainVars, toMain, toWindow, heard, sent, dropped>>
    BY <1>0, <2>1 DEF TypeOK
  <2> HIDE DEF mainVars
  <2>5. CASE HearRefused(a)
    <3>1. queue' \in Seq(Messages)
      BY <1>0, <2>2, <2>5, Appended DEF HearRefused
    <3>2. running' \in Runs \cup {None}
      BY <2>2, <2>3, <2>5 DEF HearRefused, TypeOK
    <3>3. UNCHANGED <<gates, deferred, reported, lost>>
      BY <2>5 DEF HearRefused
    <3> QED
      BY <2>2, <2>4, <3>1, <3>2, <3>3 DEF TypeOK, ChannelsOK, mainVars
  <2>6. CASE HearFailed(a)
    <3>1. running' \in Runs \cup {None}
      BY <2>3, <2>6 DEF HearFailed, TypeOK
    <3>2. reported' \subseteq Runs
      BY <1>0, <2>2, <2>6 DEF HearFailed, TypeOK
    <3> QED
      BY <2>2, <2>4, <2>6, <3>1, <3>2 DEF HearFailed, TypeOK, ChannelsOK, mainVars
  <2>7. CASE HearActive(a)
    <3>1. running' \in Runs \cup {None}
      BY <2>2, <2>3, <2>7 DEF HearActive, TypeOK
    <3> QED
      BY <2>2, <2>4, <2>7, <3>1 DEF HearActive, TypeOK, ChannelsOK, mainVars
  <2>8. CASE HearStopped(a) \/ HearCompacted(a) \/ HearCleared(a)
    <3>1. acting' \in BOOLEAN /\ compacting' \in BOOLEAN /\ clearing' \in BOOLEAN
      BY <2>8 DEF HearStopped, HearCompacted, HearCleared, TypeOK
    <3>2. UNCHANGED <<queue, running, missing, deferred, reported, lost>>
      BY <2>8 DEF HearStopped, HearCompacted, HearCleared
    <3> QED
      BY <2>2, <2>4, <3>1, <3>2 DEF TypeOK, ChannelsOK, mainVars
  <2>9. CASE HearClearFailed(a)
    <3>1. \A d \in ToSet(deferred) : d.run \in Runs
      <4>1. ToSet(deferred) \subseteq Puts
        BY <1>0, Within
      <4> QED
        BY <1>0, <4>1 DEF Puts
    <3>2. reported' \subseteq Runs
      BY <2>9, <3>1 DEF HearClearFailed, TypeOK
    <3>3. deferred' \in Seq(Puts) /\ clearing' \in BOOLEAN
      BY <2>9, EmptySeq DEF HearClearFailed
    <3> QED
      BY <2>2, <2>4, <2>9, <3>2, <3>3 DEF HearClearFailed, TypeOK, ChannelsOK, Puts, mainVars
  <2> QED
    BY <2>1, <2>5, <2>6, <2>7, <2>8, <2>9
<1>11. ASSUME NEW x \in Needs, Touch \/ Lose(x) \/ Regain(x) PROVE TypeOK' /\ ChannelsOK'
  <2>1. missing' \subseteq Needs /\ passed' \in BOOLEAN
    BY <1>11 DEF Touch, Lose, Regain, TypeOK
  <2>2. UNCHANGED <<mainVars, toMain, toWindow, answers, queue, running, reserved, acting,
                    compacting, clearing, deferred, heard, sent, reported, dropped, lost>>
    BY <1>11 DEF Touch, Lose, Regain
  <2> QED
    BY <2>1, <2>2 DEF TypeOK, ChannelsOK
<1>12. ASSUME GoesOn PROVE TypeOK' /\ ChannelsOK'
  <2> DEFINE d == Head(deferred)
  <2>1. deferred' \in Seq(Puts) /\ d \in Puts /\ d.run \in PutOff
    BY <1>0, <1>12, PutOffShifted DEF GoesOn, OnePlace, Singly
  <2>2. /\ \/ running' = d.run /\ Ask(d.kind, d.run) /\ UNCHANGED lost
           \/ lost' = lost \cup {d.run} /\ UNCHANGED <<running, toMain>>
        /\ Changed
        /\ UNCHANGED <<mainVars, toWindow, answers, queue, heard, gates, sent, reported, dropped>>
    BY <1>12 DEF GoesOn
  <2> HIDE DEF d, mainVars
  <2>3. d.run \in Messages /\ d.run \in Runs /\ d.kind \in {"run", "interrupt"}
    BY <1>0, <2>1 DEF Puts
  <2>4. d.run \notin Asked
    BY <2>1 DEF OnePlace, Apart
  <2>5. toMain' \in Seq(Requests) /\ running' \in Runs \cup {None} /\ lost' \subseteq Messages
    <3>1. CASE running' = d.run /\ Ask(d.kind, d.run) /\ UNCHANGED lost
      BY <2>3, <2>4, <3>1, AskedToRun DEF TypeOK
    <3>2. CASE lost' = lost \cup {d.run} /\ UNCHANGED <<running, toMain>>
      BY <2>3, <3>2 DEF TypeOK, ChannelsOK
    <3> QED
      BY <2>2, <3>1, <3>2
  <2> QED
    BY <1>0, <2>1, <2>2, <2>5 DEF TypeOK, ChannelsOK, Puts, mainVars
<1> QED
  BY <1>1, <1>2, <1>3, <1>4, <1>5, <1>6, <1>7, <1>8, <1>9, <1>10, <1>11, <1>12 DEF User, Needs

\* What a run leaves when it settles: the message that goes on, and the calls refused.
Follower == IF waiting = <<>> THEN None ELSE Head(waiting)
Turned == IF waiting = <<>> THEN {} ELSE ToSet(Tail(waiting))

LEMMA Waiting ==
    ASSUME TypeOK
    PROVE  /\ Follower \in Messages \cup {None} /\ Turned \subseteq Messages
           /\ Held = Turned \cup ({Follower} \ {None})
           /\ Follower # None => waiting # <<>>
           /\ Once(waiting) => Follower \notin Turned
<1>1. waiting \in Seq(Messages)
  BY DEF TypeOK
<1>2. CASE waiting = <<>>
  <2>1. ToSet(waiting) = {}
    BY <1>2, Elements
  <2> QED
    BY <1>2, <2>1 DEF Follower, Turned, Held
<1>3. CASE waiting # <<>>
  <2>1. Head(waiting) \in Messages /\ Tail(waiting) \in Seq(Messages)
    BY <1>1, <1>3, Shifted
  <2>2. ToSet(Tail(waiting)) \subseteq Messages
    BY <2>1, Within
  <2>3. ToSet(waiting) = {Head(waiting)} \cup ToSet(Tail(waiting))
    BY <1>1, <1>3, Shifted
  <2>4. Once(waiting) => Head(waiting) \notin ToSet(Tail(waiting))
    BY <1>1, <1>3, Shifted
  <2> QED
    BY <1>3, <2>1, <2>2, <2>3, <2>4, RunsAssumption DEF Follower, Turned, Held, RunsAssumption
<1> QED
  BY <1>2, <1>3

LEMMA Settled ==
    ASSUME NEW r \in Runs, Settle(r)
    PROVE  /\ phase[r] = "ending" /\ registry' = Follower
           /\ phase' = [s \in Runs |->
                IF s = r THEN "settled" ELSE IF s = Follower THEN "yielding" ELSE phase[s]]
           /\ toWindow' = toWindow \o (<<State(r, FALSE)>> \o
                 (IF Follower = None THEN <<>> ELSE <<State(Follower, TRUE)>>))
           /\ waiting' = <<>> /\ lost' = lost \cup Turned /\ aborted' = aborted \ {r}
           /\ stopping' = IF stopping = "waiting" THEN "freed" ELSE stopping
           /\ idle' = idle \/ (idle = "none" /\ idle' = "pending")
           /\ UNCHANGED <<calls, compact, clear, log, windowVars, toMain, answers, reported, extras>>
  BY DEF Settle, Follower, Turned, Tell

\* A run starts where main said it can.
LEMMA StartTypes ==
    ASSUME TypeOK, ChannelsOK, NEW r \in Runs, Start(r)
    PROVE  /\ registry' = r /\ phase' = [phase EXCEPT ![r] = "yielding"]
           /\ phase' \in [Runs -> {"none", "yielding", "recording", "working", "ending", "settled"}]
           /\ idle' \in {"none", "pending", "active", "stopping"}
           /\ Tell(<<State(r, TRUE)>>) => toWindow' \in Seq(Pushes)
<1>1. <<State(r, TRUE)>> \in Seq(Pushes)
  BY PushesOK, OneElement
<1>2. Tell(<<State(r, TRUE)>>) => toWindow' \in Seq(Pushes)
  BY <1>1, Told
<1> QED
  BY <1>2 DEF Start, YieldIdle, TypeOK

LEMMA RepliesOK ==
    /\ \A m \in Messages, x \in Runs \cup {None} :
          Reply("refused", m, x) \in Replies /\ Reply("failed", m, None) \in Replies
    /\ \A x \in Runs \cup {None} : Reply("active", None, x) \in Replies
    /\ \A kind \in {"stopped", "compacted", "cleared", "unclear"} :
          Reply(kind, None, None) \in Replies
  BY DEF Reply, Replies

\* The main process keeps its types when it takes a call.
LEMMA CallTypes ==
    TypeOK /\ ChannelsOK /\ OnePlace /\ TakeRequest => TypeOK' /\ ChannelsOK'
<1> SUFFICES ASSUME TypeOK, ChannelsOK, OnePlace, TakeRequest PROVE TypeOK' /\ ChannelsOK'
  OBVIOUS
<1> DEFINE q == Head(toMain)
<1>1. /\ toMain # <<>> /\ toMain' = Tail(toMain)
      /\ \/ TakeRun(q) \/ TakeInterrupt(q) \/ TakeCancel(q)
         \/ TakeStop(q) \/ TakeCompact(q) \/ TakeClear(q) \/ TakeActive(q)
      /\ UNCHANGED <<windowVars, log, reported, extras>>
  BY DEF TakeRequest
<1>2. toMain' \in Seq(Requests) /\ q \in Requests
  BY <1>1, RequestTaken DEF OnePlace, Singly
<1> HIDE DEF q
<1>3. /\ q.kind \in {"run", "interrupt"} => q.run \in Messages /\ q.run \in Runs
      /\ q.kind = "cancel" => q.run \in Runs
  BY <1>2 DEF Requests, Runs
<1>4. registry \in Runs \cup {None}
  BY DEF TypeOK
<1> USE <1>1, <1>2, <1>3 DEF windowVars, queueVars, gates
<1>5. CASE TakeRun(q)
  <2>1. q.kind = "run" /\ UNCHANGED <<aborted, waiting, stopping, compact, clear, lost>>
    BY <1>5 DEF TakeRun
  <2>2. CASE Start(q.run) /\ Tell(<<State(q.run, TRUE)>>) /\ calls' = calls \cup {q.run} /\ UNCHANGED answers
    <3>1. /\ registry' \in Runs
          /\ phase' \in [Runs -> {"none", "yielding", "recording", "working", "ending", "settled"}]
          /\ idle' \in {"none", "pending", "active", "stopping"} /\ toWindow' \in Seq(Pushes)
      BY <2>1, <2>2, StartTypes
    <3>2. calls' \subseteq Messages /\ UNCHANGED answers
      BY <2>1, <2>2 DEF TypeOK
    <3> QED
      BY <2>1, <3>1, <3>2 DEF TypeOK, ChannelsOK
  <2>3. CASE answers' = answers \cup {Reply("refused", q.run, registry)}
             /\ UNCHANGED <<registry, phase, idle, toWindow, calls>>
    <3>1. answers' \subseteq Replies
      BY <1>4, <2>1, <2>3, RepliesOK DEF ChannelsOK
    <3> QED
      BY <2>1, <2>3, <3>1 DEF TypeOK, ChannelsOK
  <2> QED
    BY <1>5, <2>2, <2>3 DEF TakeRun
<1>6. CASE TakeInterrupt(q)
  <2>1. q.kind = "interrupt" /\ UNCHANGED <<calls, stopping, compact, clear, answers>>
    BY <1>6 DEF TakeInterrupt
  <2>2. CASE registry # None /\ aborted' = aborted \cup {registry} /\ waiting' = Append(waiting, q.run)
             /\ UNCHANGED <<registry, phase, idle, toWindow, lost>>
    <3>1. waiting' \in Seq(Messages)
      BY <2>1, <2>2, Appended DEF TypeOK
    <3> QED
      BY <2>1, <2>2, <3>1 DEF TypeOK, ChannelsOK
  <2>3. CASE Start(q.run) /\ Tell(<<State(q.run, TRUE)>>) /\ UNCHANGED <<aborted, waiting, lost>>
    <3>1. /\ registry' \in Runs
          /\ phase' \in [Runs -> {"none", "yielding", "recording", "working", "ending", "settled"}]
          /\ idle' \in {"none", "pending", "active", "stopping"} /\ toWindow' \in Seq(Pushes)
      BY <2>1, <2>3, StartTypes
    <3>2. UNCHANGED <<aborted, waiting, lost>>
      BY <2>3
    <3> QED
      BY <2>1, <3>1, <3>2 DEF TypeOK, ChannelsOK
  <2>4. CASE lost' = lost \cup {q.run} /\ UNCHANGED <<registry, phase, idle, toWindow, aborted, waiting>>
    BY <2>1, <2>4 DEF TypeOK, ChannelsOK
  <2> QED
    BY <1>6, <2>2, <2>3, <2>4 DEF TakeInterrupt
<1>7. CASE TakeCancel(q)
  BY <1>7 DEF TakeCancel, TypeOK, ChannelsOK
<1>8. CASE TakeStop(q)
  BY <1>8 DEF TakeStop, TypeOK, ChannelsOK
<1>9. CASE TakeCompact(q)
  BY <1>9 DEF TakeCompact, YieldIdle, TypeOK, ChannelsOK
<1>10. CASE TakeActive(q)
  <2>1. answers' \subseteq Replies
    BY <1>4, <1>10, RepliesOK DEF TakeActive, ChannelsOK
  <2> QED
    BY <1>10, <2>1 DEF TakeActive, TypeOK, ChannelsOK
<1>11. CASE TakeClear(q)
  <2>1. answers' \subseteq Replies
    BY <1>11, RepliesOK DEF TakeClear, ChannelsOK
  <2>2. clear' \in {"none", "yielding"} /\ idle' \in {"none", "pending", "active", "stopping"}
    BY <1>11 DEF TakeClear, YieldIdle, TypeOK
  <2>3. UNCHANGED <<registry, phase, aborted, calls, waiting, stopping, compact, toWindow, lost>>
    BY <1>11 DEF TakeClear
  <2> QED
    BY <2>1, <2>2, <2>3 DEF TypeOK, ChannelsOK
<1> QED
  BY <1>5, <1>6, <1>7, <1>8, <1>9, <1>10, <1>11

\* The main process keeps its types in whatever else it does.
LEMMA RunTypes ==
    TypeOK /\ ChannelsOK
        /\ (StartScheduled \/ RunStep \/ StopDone \/ CompactStarts \/ CompactDone
               \/ ClearEnds \/ IdleStarts \/ IdleEnds)
        => TypeOK' /\ ChannelsOK'
<1> SUFFICES ASSUME TypeOK, ChannelsOK,
                    StartScheduled \/ RunStep \/ StopDone \/ CompactStarts \/ CompactDone
                       \/ ClearEnds \/ IdleStarts \/ IdleEnds
             PROVE  TypeOK' /\ ChannelsOK'
  OBVIOUS
<1> USE DEF windowVars, queueVars, gates
<1>1. CASE StartScheduled
  <2>1. Scheduled \in Runs
    BY DEF Runs
  <2>2. /\ registry' \in Runs
        /\ phase' \in [Runs -> {"none", "yielding", "recording", "working", "ending", "settled"}]
        /\ idle' \in {"none", "pending", "active", "stopping"} /\ toWindow' \in Seq(Pushes)
    BY <1>1, <2>1, StartTypes DEF StartScheduled
  <2>3. UNCHANGED <<aborted, calls, waiting, stopping, compact, clear, log,
                    windowVars, toMain, answers, reported, lost>>
    BY <1>1 DEF StartScheduled
  <2> QED
    BY <2>2, <2>3 DEF TypeOK, ChannelsOK
<1>2. ASSUME NEW r \in Runs, Yielded(r) PROVE TypeOK' /\ ChannelsOK'
  BY <1>2 DEF Yielded, TypeOK, ChannelsOK
<1>4. ASSUME NEW r \in Runs, Recorded(r) PROVE TypeOK' /\ ChannelsOK'
  <2>1. <<[kind |-> "request", run |-> r]>> \in Seq(Pushes)
    BY PushesOK, OneElement
  <2>2. toWindow' \in Seq(Pushes)
    BY <1>4, <2>1, Told DEF Recorded
  <2> QED
    BY <1>4, <2>2 DEF Recorded, TypeOK, ChannelsOK
<1>3. ASSUME NEW r \in Runs, NotRecorded(r) PROVE TypeOK' /\ ChannelsOK'
  <2>1. r \in calls => Reply("failed", r, None) \in Replies
    BY RepliesOK DEF TypeOK
  <2>2. answers' \subseteq Replies
    BY <1>3, <2>1 DEF NotRecorded, ChannelsOK
  <2> QED
    BY <1>3, <2>2 DEF NotRecorded, TypeOK, ChannelsOK
<1>5. ASSUME NEW r \in Runs, Ended(r) PROVE TypeOK' /\ ChannelsOK'
  BY <1>5 DEF Ended, TypeOK, ChannelsOK
<1>6. ASSUME NEW r \in Runs, Settle(r) PROVE TypeOK' /\ ChannelsOK'
  <2>1. Follower \in Messages \cup {None} /\ Turned \subseteq Messages /\ Follower \in Runs \cup {None}
    BY Waiting DEF Runs
  <2>2. toWindow' \in Seq(Pushes)
    <3> DEFINE f == IF Follower = None THEN <<>> ELSE <<State(Follower, TRUE)>>
               e == <<State(r, FALSE)>>
    <3>1. e \in Seq(Pushes) /\ f \in Seq(Pushes)
      <4>1. e \in Seq(Pushes)
        BY PushesOK, OneElement
      <4>2. CASE Follower = None
        BY <4>1, <4>2, EmptySeq
      <4>3. CASE Follower # None
        <5>1. <<State(Follower, TRUE)>> \in Seq(Pushes)
          BY <2>1, <4>3, PushesOK, OneElement
        <5> QED
          BY <4>1, <4>3, <5>1
      <4> QED
        BY <4>2, <4>3
    <3>2. toWindow' = toWindow \o (e \o f)
      BY <1>6, Settled
    <3> HIDE DEF e, f
    <3>3. e \o f \in Seq(Pushes)
      BY <3>1, ConcatProperties
    <3> QED
      BY <3>2, <3>3, ConcatProperties DEF ChannelsOK
  <2>4. waiting' \in Seq(Messages)
    BY <1>6 DEF Settle
  <2>5. phase' \in [Runs -> {"none", "yielding", "recording", "working", "ending", "settled"}]
    BY <1>6, Settled DEF TypeOK
  <2>6. idle' \in {"none", "pending", "active", "stopping"} /\ stopping' \in {"none", "waiting", "freed"}
    BY <1>6, Settled DEF TypeOK
  <2>7. /\ registry' = Follower /\ lost' = lost \cup Turned /\ aborted' = aborted \ {r}
        /\ UNCHANGED <<calls, compact, clear, log, windowVars, toMain, answers, reported, extras>>
    BY <1>6, Settled
  <2> QED
    BY <2>1, <2>2, <2>4, <2>5, <2>6, <2>7 DEF TypeOK, ChannelsOK
<1>7. CASE StopDone
  <2>1. answers' \subseteq Replies
    BY <1>7, RepliesOK DEF StopDone, ChannelsOK
  <2> QED
    BY <1>7, <2>1 DEF StopDone, TypeOK, ChannelsOK
<1>8. CASE CompactStarts
  <2>1. answers' \subseteq Replies
    BY <1>8, RepliesOK DEF CompactStarts, ChannelsOK
  <2> QED
    BY <1>8, <2>1 DEF CompactStarts, TypeOK, ChannelsOK
<1>9. CASE CompactDone
  <2>1. answers' \subseteq Replies
    BY <1>9, RepliesOK DEF CompactDone, ChannelsOK
  <2> QED
    BY <1>9, <2>1 DEF CompactDone, TypeOK, ChannelsOK
<1>10. CASE IdleStarts
  BY <1>10 DEF IdleStarts, TypeOK, ChannelsOK
<1>11. CASE IdleEnds
  BY <1>11 DEF IdleEnds, TypeOK, ChannelsOK
<1>12. CASE ClearEnds
  <2>1. answers' \subseteq Replies
    BY <1>12, RepliesOK DEF ClearEnds, ChannelsOK
  <2> QED
    BY <1>12, <2>1 DEF ClearEnds, TypeOK, ChannelsOK
<1> QED
  BY <1>1, <1>2, <1>3, <1>4, <1>5, <1>6, <1>7, <1>8, <1>9, <1>10, <1>11, <1>12 DEF RunStep

-------------------------------------------------------------------------------
(***************************************************************************)
(* The session.                                                            *)
(***************************************************************************)

LEMMA ClaimedInit == Init => Claimed /\ Accounted
<1> SUFFICES ASSUME Init PROVE Claimed /\ Accounted
  OBVIOUS
<1>1. \A r \in Runs : phase[r] = "none" /\ r # None
  BY RunsAssumption DEF Init, Runs, RunsAssumption
<1>2. registry = None /\ compact = "none" /\ idle = "none"
  BY DEF Init
<1> QED
  BY <1>1, <1>2 DEF Claimed, Accounted, Live

\* What leaves the runs, the compaction and the idle job alone disturbs nobody.
LEMMA ClaimedKept ==
    ASSUME Claimed, Accounted, UNCHANGED <<registry, phase, compact, idle, log>>,
           reported \subseteq reported'
    PROVE  Claimed' /\ Accounted'
  BY DEF Claimed, Accounted, Live

\* A run starts in a session nobody works in.
LEMMA ClaimedStart ==
    ASSUME TypeOK, Claimed, Accounted, NEW r \in Runs, CanStart, Start(r),
           UNCHANGED <<compact, log, reported>>
    PROVE  Claimed' /\ Accounted'
<1>1. \A s \in Runs : ~Live(s) /\ s # None
  BY RunsAssumption DEF Claimed, CanStart, Runs, RunsAssumption
<1>2. phase' = [phase EXCEPT ![r] = "yielding"] /\ registry' = r
      /\ idle' = IF idle = "active" THEN "stopping" ELSE idle
  BY DEF Start, YieldIdle
<1>3. \A s \in Runs : phase'[s] = IF s = r THEN "yielding" ELSE phase[s]
  BY <1>2 DEF TypeOK
<1>4. \A s \in Runs : phase[s] \notin {"yielding", "recording", "working", "ending"}
  BY <1>1 DEF Live
<1>5. \A s \in Runs : phase'[s] \in {"yielding", "recording", "working", "ending"} <=> registry' = s
  BY <1>2, <1>3, <1>4
<1>6. \A s \in Runs : phase'[s] \notin {"recording", "working"}
  BY <1>3, <1>4
<1>7. compact # "working" /\ idle' # "active"
  BY <1>2 DEF CanStart
<1>8. Claimed'
  BY <1>5, <1>6, <1>7 DEF Claimed, Live
<1>9. Accounted'
  BY <1>3 DEF Accounted
<1> QED
  BY <1>8, <1>9

\* A run goes from one phase to the next.
LEMMA ClaimedMove ==
    ASSUME TypeOK, Claimed, Accounted, NEW r \in Runs, Live(r),
           NEW p \in {"recording", "working", "ending"}, phase' = [phase EXCEPT ![r] = p],
           UNCHANGED <<registry, compact, idle>>, log \subseteq log', reported \subseteq reported',
           p \in {"recording", "working"} => idle # "stopping",
           p = "working" => r \in log', p = "ending" => r \in log' \cup reported'
    PROVE  Claimed' /\ Accounted'
<1>1. \A s \in Runs : phase'[s] = IF s = r THEN p ELSE phase[s]
  BY DEF TypeOK
<1>2. \A s \in Runs : phase'[s] \in {"yielding", "recording", "working", "ending"}
                 <=> phase[s] \in {"yielding", "recording", "working", "ending"}
  BY <1>1 DEF Live
<1>3. Claimed'
  BY <1>1, <1>2 DEF Claimed, Live
<1>4. Accounted'
  BY <1>1 DEF Accounted
<1> QED
  BY <1>3, <1>4

\* A run hands the session to the message that waited for it.
LEMMA ClaimedSettle ==
    ASSUME TypeOK, OnePlace, Claimed, Accounted, NEW r \in Runs, Settle(r)
    PROVE  Claimed' /\ Accounted'
<1>1. /\ phase[r] = "ending" /\ registry' = Follower
      /\ phase' = [s \in Runs |->
           IF s = r THEN "settled" ELSE IF s = Follower THEN "yielding" ELSE phase[s]]
      /\ idle' = idle \/ (idle = "none" /\ idle' = "pending")
      /\ UNCHANGED <<compact, log, reported>>
  BY Settled
<1>2. registry = r /\ r # None
  BY <1>1, RunsAssumption DEF Claimed, Live, Runs, RunsAssumption
<1>3. Follower # r /\ Follower \in Runs \cup {None}
  <2>1. Follower \in Messages \cup {None} /\ (Follower # None => Follower \in Held)
    BY Waiting
  <2>2. r \in Messages => r \in Begun
    BY <1>1 DEF Begun
  <2> QED
    BY <1>2, <2>1, <2>2 DEF OnePlace, Apart, Runs
<1>4. \A s \in Runs : phase'[s] =
        IF s = r THEN "settled" ELSE IF s = Follower THEN "yielding" ELSE phase[s]
  BY <1>1
<1>5. \A s \in Runs : s # r => phase[s] \notin {"yielding", "recording", "working", "ending"}
  BY <1>2 DEF Claimed, Live
<1>6. \A s \in Runs : phase'[s] \in {"yielding", "recording", "working", "ending"} <=> registry' = s
  BY <1>1, <1>3, <1>4, <1>5
<1>7. \A s \in Runs : phase'[s] \notin {"recording", "working"}
  BY <1>4, <1>5
<1>8. compact' # "working" /\ idle' # "active"
  BY <1>1, <1>2 DEF Claimed
<1>9. Claimed'
  BY <1>6, <1>7, <1>8 DEF Claimed, Live
<1>10. Accounted'
  BY <1>1, <1>4 DEF Accounted
<1> QED
  BY <1>9, <1>10

LEMMA ClaimedStep ==
    TypeOK /\ ChannelsOK /\ OnePlace /\ Claimed /\ Accounted /\ [Next]_vars => Claimed' /\ Accounted'
<1> SUFFICES ASSUME TypeOK, ChannelsOK, OnePlace, Claimed, Accounted, [Next]_vars
             PROVE  Claimed' /\ Accounted'
  OBVIOUS
<1>1. CASE User \/ RunQueued \/ HearPush \/ HearAnswer \/ GoesOn \/ StopDone \/ ClearEnds
            \/ UNCHANGED vars
  <2>1. UNCHANGED <<registry, phase, compact, idle, log>>
    BY <1>1 DEF User, Send, Enqueue, Interrupt, SendQueuedNow, Cancel, Compact, Clear, Archive,
                Touch, Lose, Regain, RunQueued, HearPush, HearAnswer, GoesOn, StopDone, ClearEnds,
                vars, mainVars
  <2>2. reported \subseteq reported'
    <3>1. CASE HearAnswer
      BY <3>1 DEF HearAnswer, HearRefused, HearFailed, HearActive, HearStopped, HearCompacted,
                  HearCleared, HearClearFailed
    <3>2. CASE User \/ RunQueued \/ HearPush \/ GoesOn \/ StopDone \/ ClearEnds \/ UNCHANGED vars
      BY <3>2 DEF User, Send, Enqueue, Interrupt, SendQueuedNow, Cancel, Compact, Clear, Archive,
                  Touch, Lose, Regain, RunQueued, HearPush, GoesOn, StopDone, ClearEnds, vars
    <3> QED
      BY <1>1, <3>1, <3>2
  <2> QED
    BY <2>1, <2>2, ClaimedKept
<1>2. CASE TakeRequest
  <2> DEFINE q == Head(toMain)
  <2>1. /\ \/ TakeRun(q) \/ TakeInterrupt(q) \/ TakeCancel(q)
           \/ TakeStop(q) \/ TakeCompact(q) \/ TakeClear(q) \/ TakeActive(q)
        /\ UNCHANGED <<log, reported>>
        /\ q \in Requests
    BY <1>2, RequestTaken DEF TakeRequest, OnePlace, Singly
  <2> HIDE DEF q
  <2>2. CASE TakeRun(q) \/ TakeInterrupt(q) \/ TakeCancel(q) \/ TakeStop(q) \/ TakeActive(q)
    <3>1. \/ UNCHANGED <<registry, phase, compact, idle>>
          \/ (TakeRun(q) \/ TakeInterrupt(q)) /\ CanStart /\ Start(q.run) /\ UNCHANGED compact
      BY <2>2 DEF TakeRun, TakeInterrupt, TakeCancel, TakeStop, TakeActive
    <3>2. TakeRun(q) \/ TakeInterrupt(q) => q.run \in Runs
      BY <2>1 DEF TakeRun, TakeInterrupt, Requests, Runs
    <3> QED
      BY <2>1, <3>1, <3>2, ClaimedKept, ClaimedStart
  <2>3. CASE TakeCompact(q) \/ TakeClear(q)
    <3>1. \/ /\ idle' = IF idle = "active" THEN "stopping" ELSE idle
             /\ compact' = "yielding" \/ UNCHANGED compact
             /\ UNCHANGED <<registry, phase>>
          \/ UNCHANGED <<registry, phase, compact, idle>>
      BY <2>3 DEF TakeCompact, TakeClear, YieldIdle
    <3>2. \A r \in Runs : phase[r] \in {"recording", "working"} => registry = r /\ r # None
      BY RunsAssumption DEF Claimed, Live, Runs, RunsAssumption
    <3>3. Claimed'
      BY <3>1, <3>2 DEF Claimed, Live
    <3>4. Accounted'
      BY <2>1, <3>1 DEF Accounted
    <3> QED
      BY <3>3, <3>4
  <2> QED
    BY <2>1, <2>2, <2>3
<1>3. CASE StartScheduled
  <2>1. Scheduled \in Runs
    BY DEF Runs
  <2> QED
    BY <1>3, <2>1, ClaimedStart DEF StartScheduled
<1>4. ASSUME NEW r \in Runs, Yielded(r) PROVE Claimed' /\ Accounted'
  BY <1>4, ClaimedMove DEF Yielded, Live
<1>5. ASSUME NEW r \in Runs, NotRecorded(r) PROVE Claimed' /\ Accounted'
  BY <1>5, ClaimedMove DEF NotRecorded, Live
<1>6. ASSUME NEW r \in Runs, Recorded(r) PROVE Claimed' /\ Accounted'
  <2>1. idle # "stopping"
    BY <1>6 DEF Recorded, Claimed
  <2> QED
    BY <1>6, <2>1, ClaimedMove DEF Recorded, Live
<1>7. ASSUME NEW r \in Runs, Ended(r) PROVE Claimed' /\ Accounted'
  <2>1. r \in log
    BY <1>7 DEF Ended, Accounted
  <2> QED
    BY <1>7, <2>1, ClaimedMove DEF Ended, Live
<1>8. ASSUME NEW r \in Runs, Settle(r) PROVE Claimed' /\ Accounted'
  BY <1>8, ClaimedSettle
<1>9. CASE CompactStarts
  <2>1. Claimed'
    BY <1>9 DEF CompactStarts, Claimed, Live
  <2> QED
    BY <1>9, <2>1 DEF CompactStarts, Accounted
<1>10. CASE CompactDone
  BY <1>10 DEF CompactDone, Claimed, Accounted, Live
<1>11. CASE IdleStarts
  <2>1. \A r \in Runs : ~Live(r)
    BY <1>11, RunsAssumption DEF IdleStarts, CanStart, Claimed, Runs, RunsAssumption
  <2>2. Claimed'
    BY <1>11, <2>1 DEF IdleStarts, CanStart, Claimed, Live
  <2> QED
    BY <1>11, <2>2 DEF IdleStarts, Accounted
<1>12. CASE IdleEnds
  <2>1. /\ idle' = "pending" \/ idle' = "none"
        /\ UNCHANGED <<registry, phase, compact, log, reported>>
    BY <1>12 DEF IdleEnds
  <2> QED
    BY <2>1 DEF Claimed, Accounted, Live
<1> QED
  BY <1>1, <1>2, <1>3, <1>4, <1>5, <1>6, <1>7, <1>8, <1>9, <1>10, <1>11, <1>12 DEF Next, RunStep

-------------------------------------------------------------------------------
(***************************************************************************)
(* The places of a message.                                                *)
(***************************************************************************)

LEMMA QueueKept ==
    UNCHANGED queue => Queued' = Queued /\ (QueuedOnce => QueuedOnce')
  BY DEF Queued, QueuedOnce, Once

LEMMA HeldKept ==
    UNCHANGED waiting => Held' = Held /\ (HeldOnce => HeldOnce')
  BY DEF Held, HeldOnce, Once

LEMMA RefusedKept ==
    UNCHANGED answers => Refused' = Refused /\ (RefusedOnce => RefusedOnce')
  BY DEF Refused, RefusedOnce

LEMMA BegunKept ==
    UNCHANGED phase => Begun' = Begun /\ Alive' = Alive
  BY DEF Begun, Alive, Live

\* The queue of the window grows, and shrinks.
LEMMA QueueGrown ==
    ASSUME queue \in Seq(Messages), NEW m \in Messages, queue' = Append(queue, m)
    PROVE  Queued' = Queued \cup {m} /\ (QueuedOnce /\ m \notin Queued => QueuedOnce')
<1>1. /\ ToSet(queue') = ToSet(queue) \cup {m}
      /\ Once(queue) /\ m \notin ToSet(queue) => Once(queue')
  BY Appended
<1> QED
  BY <1>1 DEF Queued, QueuedOnce, Once, ToSet

\* The calls that await the end of a run grow.
LEMMA HeldGrown ==
    ASSUME waiting \in Seq(Messages), NEW m \in Messages, waiting' = Append(waiting, m)
    PROVE  Held' = Held \cup {m} /\ (HeldOnce /\ m \notin Held => HeldOnce')
<1>1. /\ ToSet(waiting') = ToSet(waiting) \cup {m}
      /\ Once(waiting) /\ m \notin ToSet(waiting) => Once(waiting')
  BY Appended
<1> QED
  BY <1>1 DEF Held, HeldOnce, Once, ToSet

LEMMA PlacesInit == Init => OnePlace /\ Somewhere
<1> SUFFICES ASSUME Init PROVE OnePlace /\ Somewhere
  OBVIOUS
<1>1. queue = <<>> /\ waiting = <<>> /\ deferred = <<>> /\ answers = {} /\ sent = {}
  BY DEF Init
<1>2. DOMAIN toMain = {1} /\ Carried(toMain[1]) = None
  BY DEF Init, Carried
<1>3. Queued = {} /\ Held = {} /\ QueuedOnce /\ HeldOnce
  BY <1>1 DEF Queued, Held, QueuedOnce, HeldOnce, Once, ToSet
<1>7. PutOff = {} /\ PutOffOnce
  BY <1>1 DEF PutOff, PutOffOnce
<1>4. Asked = {} /\ CarriedOnce
  BY <1>2, RunsAssumption DEF Asked, CarriedOnce, RunsAssumption
<1>5. Refused = {} /\ RefusedOnce
  BY <1>1 DEF Refused, RefusedOnce
<1>6. Begun = {}
  BY DEF Init, Begun, Runs
<1> QED
  BY <1>1, <1>3, <1>4, <1>5, <1>6, <1>7 DEF OnePlace, Singly, Apart, Open, Somewhere

\* The window moves messages from one place to another.
LEMMA WindowPlaces ==
    IInv /\ (User \/ RunQueued \/ HearPush \/ HearAnswer \/ GoesOn) => OnePlace' /\ Somewhere'
<1> SUFFICES ASSUME IInv, User \/ RunQueued \/ HearPush \/ HearAnswer \/ GoesOn
             PROVE  OnePlace' /\ Somewhere'
  OBVIOUS
<1> USE DEF mainVars, queueVars, gates, OnePlace, Singly
<1>0. /\ TypeOK /\ ChannelsOK /\ Singly /\ Apart /\ Somewhere
      /\ queue \in Seq(Messages) /\ deferred \in Seq(Puts)
  BY DEF IInv, TypeOK, Puts
<1> HIDE DEF Singly
<1>1. ASSUME NEW m \in Messages, Send(m) PROVE OnePlace' /\ Somewhere'
  <2>1. m \notin Asked /\ m \notin PutOff
    BY <1>0, <1>1 DEF Send, Apart, Open
  <2>2. /\ CarriedOnce' /\ PutOffOnce'
        /\ \/ Asked' = Asked \cup {m} /\ PutOff' = PutOff
           \/ Asked' = Asked /\ PutOff' = PutOff \cup {m}
    BY <1>0, <1>1, <2>1, Prompted DEF Send, Singly
  <2>3. /\ Queued' = Queued /\ Held' = Held /\ Refused' = Refused /\ Begun' = Begun /\ Alive' = Alive
        /\ QueuedOnce' /\ HeldOnce' /\ RefusedOnce'
    BY <1>0, <1>1, QueueKept, HeldKept, RefusedKept, BegunKept DEF Send, Singly
  <2>4. sent' = sent \cup {m} /\ m \notin sent /\ UNCHANGED <<log, reported, dropped, lost>>
    BY <1>1 DEF Send
  <2> QED
    BY <1>0, <2>2, <2>3, <2>4 DEF Singly, Apart, Open, Somewhere
<1>2. ASSUME NEW m \in Messages, Enqueue(m) PROVE OnePlace' /\ Somewhere'
  <2>1. m \notin Queued
    BY <1>0, <1>2 DEF Enqueue, Apart, Open
  <2>2. Queued' = Queued \cup {m} /\ QueuedOnce'
    BY <1>0, <1>2, <2>1, QueueGrown DEF Enqueue, Singly
  <2>3. /\ Asked' = Asked /\ Held' = Held /\ Refused' = Refused /\ Begun' = Begun /\ Alive' = Alive
        /\ PutOff' = PutOff /\ PutOffOnce' /\ CarriedOnce' /\ HeldOnce' /\ RefusedOnce'
    BY <1>0, <1>2, AskedKept, PutOffKept, HeldKept, RefusedKept, BegunKept DEF Enqueue, Singly
  <2>4. sent' = sent \cup {m} /\ m \notin sent /\ UNCHANGED <<log, reported, dropped, lost>>
    BY <1>2 DEF Enqueue
  <2> QED
    BY <1>0, <2>2, <2>3, <2>4 DEF Singly, Apart, Open, Somewhere
<1>3. ASSUME NEW m \in Messages, Interrupt(m) PROVE OnePlace' /\ Somewhere'
  <2>1. m \notin Asked /\ m \notin PutOff
    BY <1>0, <1>3 DEF Interrupt, Apart, Open
  <2>2. /\ CarriedOnce' /\ PutOffOnce'
        /\ \/ Asked' = Asked \cup {m} /\ PutOff' = PutOff
           \/ Asked' = Asked /\ PutOff' = PutOff \cup {m}
    BY <1>0, <1>3, <2>1, Prompted DEF Interrupt, Singly
  <2>3. /\ Queued' = Queued /\ Held' = Held /\ Refused' = Refused /\ Begun' = Begun /\ Alive' = Alive
        /\ QueuedOnce' /\ HeldOnce' /\ RefusedOnce'
    BY <1>0, <1>3, QueueKept, HeldKept, RefusedKept, BegunKept DEF Interrupt, Singly
  <2>4. sent' = sent \cup {m} /\ m \notin sent /\ UNCHANGED <<log, reported, dropped, lost>>
    BY <1>3 DEF Interrupt
  <2> QED
    BY <1>0, <2>2, <2>3, <2>4 DEF Singly, Apart, Open, Somewhere
<1>4. ASSUME NEW m \in Messages, SendQueuedNow(m) PROVE OnePlace' /\ Somewhere'
  <2>1. PICK i \in DOMAIN queue : queue[i] = m /\ queue' = RemoveAt(queue, i)
    BY <1>4 DEF SendQueuedNow
  <2>2. Queued' = Queued \ {m} /\ m \in Queued /\ QueuedOnce'
    <3>1. Once(queue)
      BY <1>0 DEF Singly, QueuedOnce
    <3>2. Once(queue') /\ ToSet(queue') = ToSet(queue) \ {m}
      BY <1>0, <2>1, <3>1, Removed
    <3>3. m \in ToSet(queue)
      BY <2>1, Elements
    <3> QED
      BY <3>2, <3>3 DEF Queued, QueuedOnce, Once, ToSet
  <2>3. /\ Held' = Held /\ Refused' = Refused /\ Begun' = Begun /\ Alive' = Alive
        /\ HeldOnce' /\ RefusedOnce'
        /\ UNCHANGED <<sent, log, reported, dropped>>
    BY <1>0, <1>4, HeldKept, RefusedKept, BegunKept DEF SendQueuedNow, Singly
  <2>4. CASE RunPrompt(m, "interrupt") /\ UNCHANGED lost
    <3>1. /\ CarriedOnce' /\ PutOffOnce'
          /\ \/ Asked' = Asked \cup {m} /\ PutOff' = PutOff
             \/ Asked' = Asked /\ PutOff' = PutOff \cup {m}
      BY <1>0, <2>2, <2>4, Prompted DEF Singly, Apart
    <3> QED
      BY <1>0, <2>2, <2>3, <2>4, <3>1 DEF Singly, Apart, Open, Somewhere
  <2>5. CASE lost' = lost \cup {m} /\ UNCHANGED <<toMain, deferred>>
    <3>1. Asked' = Asked /\ CarriedOnce' /\ PutOff' = PutOff /\ PutOffOnce'
      BY <1>0, <2>5, AskedKept, PutOffKept DEF Singly
    <3> QED
      BY <1>0, <2>2, <2>3, <2>5, <3>1 DEF Singly, Apart, Open, Somewhere
  <2> QED
    BY <1>4, <2>4, <2>5 DEF SendQueuedNow
<1>5. ASSUME Cancel \/ Compact \/ Clear PROVE OnePlace' /\ Somewhere'
  <2>1. Asked' = Asked /\ CarriedOnce'
    <3>1. \/ Ask("cancel", running) /\ running \in Runs
          \/ Ask("compact", None) \/ Ask("clear", None)
      BY <1>0, <1>5 DEF Cancel, Compact, Clear, TypeOK
    <3> QED
      BY <1>0, <3>1, AskedElse DEF Singly
  <2>2. UNCHANGED <<queue, deferred, waiting, answers, phase, sent, log, reported, dropped, lost>>
    BY <1>5 DEF Cancel, Compact, Clear, windowVars
  <2>3. /\ Queued' = Queued /\ PutOff' = PutOff /\ Held' = Held /\ Refused' = Refused
        /\ Begun' = Begun /\ Alive' = Alive
        /\ QueuedOnce' /\ PutOffOnce' /\ HeldOnce' /\ RefusedOnce'
    BY <1>0, <2>2, QueueKept, PutOffKept, HeldKept, RefusedKept, BegunKept DEF Singly
  <2> QED
    BY <1>0, <2>1, <2>2, <2>3 DEF Singly, Apart, Open, Somewhere
<1>6. ASSUME Archive PROVE OnePlace' /\ Somewhere'
  <2>1. Asked' = Asked /\ CarriedOnce'
    BY <1>0, <1>6, AskedElse DEF Archive, Singly
  <2>2. /\ Held' = Held /\ Refused' = Refused /\ Begun' = Begun /\ Alive' = Alive
        /\ PutOff' = PutOff /\ PutOffOnce' /\ HeldOnce' /\ RefusedOnce'
        /\ UNCHANGED <<sent, log, reported, lost>> /\ dropped' = dropped \cup Queued
    BY <1>0, <1>6, PutOffKept, HeldKept, RefusedKept, BegunKept DEF Archive, Singly, Queued
  <2>3. Queued' = {} /\ QueuedOnce'
    BY <1>6 DEF Archive, Queued, QueuedOnce, Once, ToSet
  <2> QED
    BY <1>0, <2>1, <2>2, <2>3 DEF Singly, Apart, Open, Somewhere
<1>7. ASSUME RunQueued PROVE OnePlace' /\ Somewhere'
  <2> DEFINE m == Head(queue)
  <2>1. /\ Held' = Held /\ Refused' = Refused /\ Begun' = Begun /\ Alive' = Alive
        /\ HeldOnce' /\ RefusedOnce'
        /\ UNCHANGED <<sent, log, reported, dropped, lost>>
    BY <1>0, <1>7, HeldKept, RefusedKept, BegunKept DEF RunQueued, Singly
  <2>2. CASE RunPrompt(m, "run") /\ queue' = Tail(queue)
    <3>1. /\ m \in Messages /\ Queued = {m} \cup Queued' /\ m \notin Queued' /\ QueuedOnce'
      <4>1. /\ m \in Messages /\ ToSet(queue) = {m} \cup ToSet(queue')
            /\ Once(queue) => Once(queue') /\ m \notin ToSet(queue')
        BY <1>0, <1>7, <2>2, Shifted DEF RunQueued
      <4> HIDE DEF m
      <4> QED
        BY <1>0, <4>1 DEF Singly, Queued, QueuedOnce, Once, ToSet
    <3> HIDE DEF m
    <3>2. /\ CarriedOnce' /\ PutOffOnce'
          /\ \/ Asked' = Asked \cup {m} /\ PutOff' = PutOff
             \/ Asked' = Asked /\ PutOff' = PutOff \cup {m}
      BY <1>0, <2>2, <3>1, Prompted DEF Singly, Apart
    <3> QED
      BY <1>0, <2>1, <3>1, <3>2 DEF Singly, Apart, Open, Somewhere
  <2>3. CASE UNCHANGED <<queue, toMain, deferred>>
    <3>1. /\ Queued' = Queued /\ Asked' = Asked /\ PutOff' = PutOff
          /\ QueuedOnce' /\ CarriedOnce' /\ PutOffOnce'
      BY <1>0, <2>3, QueueKept, AskedKept, PutOffKept DEF Singly
    <3> QED
      BY <1>0, <2>1, <3>1 DEF Singly, Apart, Open, Somewhere
  <2> QED
    BY <1>7, <2>2, <2>3 DEF RunQueued
<1>8. ASSUME NEW x, HearPush \/ Touch \/ Lose(x) \/ Regain(x) PROVE OnePlace' /\ Somewhere'
  <2>1. UNCHANGED <<queue, deferred, toMain, waiting, answers, phase, sent, log, reported, dropped,
                    lost>>
    BY <1>8 DEF HearPush, Touch, Lose, Regain
  <2>2. /\ Queued' = Queued /\ PutOff' = PutOff /\ Asked' = Asked /\ Held' = Held
        /\ Refused' = Refused /\ Begun' = Begun /\ Alive' = Alive /\ Singly'
    BY <1>0, <2>1, QueueKept, PutOffKept, AskedKept, HeldKept, RefusedKept, BegunKept DEF Singly
  <2> QED
    BY <1>0, <2>1, <2>2 DEF Apart, Open, Somewhere
<1>9. ASSUME HearAnswer PROVE OnePlace' /\ Somewhere'
  <2>1. PICK a \in answers :
           /\ answers' = answers \ {a}
           /\ \/ HearRefused(a) \/ HearFailed(a) \/ HearActive(a)
              \/ HearStopped(a) \/ HearCompacted(a) \/ HearCleared(a) \/ HearClearFailed(a)
           /\ UNCHANGED <<mainVars, toMain, toWindow, heard, sent, dropped, extras>>
    BY <1>9 DEF HearAnswer
  <2>2. /\ Asked' = Asked /\ Held' = Held /\ Begun' = Begun /\ Alive' = Alive
        /\ CarriedOnce' /\ HeldOnce' /\ UNCHANGED <<sent, log, dropped>>
    BY <1>0, <2>1, AskedKept, HeldKept, BegunKept DEF Singly
  <2>3. /\ a \in Replies /\ RefusedOnce'
        /\ a.kind = "refused" => a.run \in Refused /\ Refused' = Refused \ {a.run}
        /\ a.kind # "refused" => Refused' = Refused
    BY <1>0, <2>1, AnswerHeard DEF Singly
  <2>4. CASE HearRefused(a)
    <3>1. a.run \in Messages /\ a.run \notin Queued
      BY <1>0, <2>3, <2>4 DEF HearRefused, Apart, Refused
    <3>2. Queued' = Queued \cup {a.run} /\ QueuedOnce'
      BY <1>0, <2>4, <3>1, QueueGrown DEF HearRefused, Singly
    <3>3. a.run \in Refused /\ Refused' = Refused \ {a.run} /\ UNCHANGED <<deferred, reported, lost>>
      BY <2>3, <2>4 DEF HearRefused
    <3>4. PutOff' = PutOff /\ PutOffOnce'
      BY <1>0, <3>3, PutOffKept DEF Singly
    <3> QED
      BY <1>0, <2>2, <2>3, <3>2, <3>3, <3>4 DEF Singly, Apart, Open, Somewhere
  <2>5. CASE HearFailed(a) \/ HearActive(a) \/ HearStopped(a) \/ HearCompacted(a) \/ HearCleared(a)
    <3>1. /\ UNCHANGED <<queue, deferred, lost>> /\ Refused' = Refused
          /\ reported \subseteq reported'
      BY <2>3, <2>5 DEF HearFailed, HearActive, HearStopped, HearCompacted, HearCleared
    <3>2. Queued' = Queued /\ QueuedOnce' /\ PutOff' = PutOff /\ PutOffOnce'
      BY <1>0, <3>1, QueueKept, PutOffKept DEF Singly
    <3> QED
      BY <1>0, <2>2, <2>3, <3>1, <3>2 DEF Singly, Apart, Open, Somewhere
  <2>6. CASE HearClearFailed(a)
    <3>1. /\ UNCHANGED <<queue, lost>> /\ Refused' = Refused /\ deferred' = <<>>
          /\ reported' = reported \cup {d.run : d \in ToSet(deferred)}
      BY <2>3, <2>6 DEF HearClearFailed
    <3>2. PutOff \subseteq reported' /\ reported \subseteq reported'
      BY <3>1, Elements DEF PutOff
    <3>3. PutOff' = {} /\ PutOffOnce'
      BY <3>1 DEF PutOff, PutOffOnce
    <3>4. Queued' = Queued /\ QueuedOnce'
      BY <1>0, <3>1, QueueKept DEF Singly
    <3> QED
      BY <1>0, <2>2, <2>3, <3>1, <3>2, <3>3, <3>4 DEF Singly, Apart, Open, Somewhere
  <2> QED
    BY <2>1, <2>4, <2>5, <2>6
<1>10. ASSUME GoesOn PROVE OnePlace' /\ Somewhere'
  <2> DEFINE d == Head(deferred)
  <2>1. /\ d \in Puts /\ d.run \in PutOff /\ PutOff' = PutOff \ {d.run} /\ PutOffOnce'
    BY <1>0, <1>10, PutOffShifted DEF GoesOn, Singly
  <2>2. \/ Ask(d.kind, d.run) /\ UNCHANGED lost
        \/ lost' = lost \cup {d.run} /\ UNCHANGED toMain
    BY <1>10 DEF GoesOn
  <2> HIDE DEF d
  <2>3. /\ Queued' = Queued /\ Held' = Held /\ Refused' = Refused /\ Begun' = Begun /\ Alive' = Alive
        /\ QueuedOnce' /\ HeldOnce' /\ RefusedOnce'
        /\ UNCHANGED <<sent, log, reported, dropped>>
    BY <1>0, <1>10, QueueKept, HeldKept, RefusedKept, BegunKept DEF GoesOn, Singly
  <2>4. CASE Ask(d.kind, d.run) /\ UNCHANGED lost
    <3>1. d.kind \in {"run", "interrupt"} /\ d.run \in Messages /\ d.run \notin Asked
      BY <1>0, <2>1 DEF Puts, Apart
    <3>2. Asked' = Asked \cup {d.run} /\ CarriedOnce'
      BY <1>0, <2>4, <3>1, AskedToRun DEF Singly
    <3> QED
      BY <1>0, <2>1, <2>3, <2>4, <3>2 DEF Singly, Apart, Open, Somewhere
  <2>5. CASE lost' = lost \cup {d.run} /\ UNCHANGED toMain
    <3>1. Asked' = Asked /\ CarriedOnce'
      BY <1>0, <2>5, AskedKept DEF Singly
    <3> QED
      BY <1>0, <2>1, <2>3, <2>5, <3>1 DEF Singly, Apart, Open, Somewhere
  <2> QED
    BY <2>2, <2>4, <2>5
<1> QED
  BY <1>1, <1>2, <1>3, <1>4, <1>5, <1>6, <1>7, <1>8, <1>9, <1>10 DEF User

\* A run begins with its message, or goes on.
LEMMA RunBegins ==
    ASSUME TypeOK, NEW m \in Messages, Start(m)
    PROVE  Begun' = Begun \cup {m} /\ Alive' = Alive \cup {m}
<1>1. \A s \in Runs : phase'[s] = IF s = m THEN "yielding" ELSE phase[s]
  BY DEF Start, TypeOK
<1> QED
  BY <1>1 DEF Begun, Alive, Live, Runs

LEMMA RunMoves ==
    ASSUME TypeOK, NEW r \in Runs, Live(r), NEW p \in {"recording", "working", "ending"},
           phase' = [phase EXCEPT ![r] = p]
    PROVE  Begun' = Begun /\ Alive' = Alive
<1>1. \A s \in Runs : phase'[s] = IF s = r THEN p ELSE phase[s]
  BY DEF TypeOK
<1>2. phase[r] \in {"yielding", "recording", "working", "ending"}
  BY DEF Live
<1> QED
  BY <1>1, <1>2 DEF Begun, Alive, Live, Runs

\* Main takes the calls of the window.
LEMMA CallPlaces == IInv /\ TakeRequest => OnePlace' /\ Somewhere'
<1> SUFFICES ASSUME IInv, TakeRequest PROVE OnePlace' /\ Somewhere'
  OBVIOUS
<1> USE DEF OnePlace
<1> DEFINE q == Head(toMain)
<1>0. TypeOK /\ ChannelsOK /\ Singly /\ Apart /\ Claimed /\ Somewhere
  BY DEF IInv
<1>1. /\ toMain # <<>> /\ toMain' = Tail(toMain)
      /\ \/ TakeRun(q) \/ TakeInterrupt(q) \/ TakeCancel(q)
         \/ TakeStop(q) \/ TakeCompact(q) \/ TakeClear(q) \/ TakeActive(q)
      /\ UNCHANGED <<queue, deferred, sent, dropped, log, reported>>
  BY DEF TakeRequest, windowVars, queueVars
<1>2. /\ q \in Requests /\ CarriedOnce'
      /\ q.kind \in {"run", "interrupt"} => q.run \in Asked /\ Asked' = Asked \ {q.run}
      /\ q.kind \notin {"run", "interrupt"} => Asked' = Asked
  BY <1>0, <1>1, RequestTaken DEF Singly
<1> HIDE DEF q
<1>3. Queued' = Queued /\ QueuedOnce' /\ PutOff' = PutOff /\ PutOffOnce'
  BY <1>0, <1>1, QueueKept, PutOffKept DEF Singly
<1>4. CASE TakeRun(q)
  <2>1. /\ q.kind = "run" /\ q.run \in Asked /\ q.run \in Messages /\ Asked' = Asked \ {q.run}
        /\ UNCHANGED <<waiting, lost>>
    BY <1>2, <1>4 DEF TakeRun, Asked
  <2>2. Held' = Held /\ HeldOnce'
    BY <1>0, <2>1, HeldKept DEF Singly
  <2>3. CASE Start(q.run) /\ UNCHANGED answers
    <3>1. Begun' = Begun \cup {q.run} /\ Alive' = Alive \cup {q.run}
      BY <1>0, <2>1, <2>3, RunBegins
    <3>2. Refused' = Refused /\ RefusedOnce'
      BY <1>0, <2>3, RefusedKept DEF Singly
    <3> QED
      BY <1>0, <1>1, <1>2, <1>3, <2>1, <2>2, <3>1, <3>2 DEF Singly, Apart, Open, Somewhere
  <2>4. CASE answers' = answers \cup {Reply("refused", q.run, registry)} /\ UNCHANGED phase
    <3> DEFINE a == Reply("refused", q.run, registry)
    <3>1. a \in Replies /\ a.kind = "refused" /\ a.run = q.run
      BY <1>0, <2>1, RepliesOK DEF TypeOK, Reply
    <3> HIDE DEF a
    <3>2. q.run \notin Refused
      BY <1>0, <2>1 DEF Apart
    <3>3. Refused' = Refused \cup {q.run} /\ RefusedOnce'
      BY <1>0, <2>4, <3>1, <3>2, Answered DEF Singly, a
    <3>4. Begun' = Begun /\ Alive' = Alive
      BY <2>4, BegunKept
    <3> QED
      BY <1>0, <1>1, <1>2, <1>3, <2>1, <2>2, <3>3, <3>4 DEF Singly, Apart, Open, Somewhere
  <2> QED
    BY <1>4, <2>3, <2>4 DEF TakeRun
<1>5. CASE TakeInterrupt(q)
  <2>1. /\ q.kind = "interrupt" /\ q.run \in Asked /\ q.run \in Messages /\ Asked' = Asked \ {q.run}
        /\ UNCHANGED answers
    BY <1>2, <1>5 DEF TakeInterrupt, Asked
  <2>2. Refused' = Refused /\ RefusedOnce'
    BY <1>0, <2>1, RefusedKept DEF Singly
  <2>3. CASE waiting' = Append(waiting, q.run) /\ UNCHANGED <<phase, lost>>
    <3>1. q.run \notin Held
      BY <1>0, <2>1 DEF Apart
    <3>2. Held' = Held \cup {q.run} /\ HeldOnce'
      BY <1>0, <2>1, <2>3, <3>1, HeldGrown DEF Singly, TypeOK
    <3>3. Begun' = Begun /\ Alive' = Alive
      BY <2>3, BegunKept
    <3> QED
      BY <1>0, <1>1, <1>2, <1>3, <2>1, <2>2, <2>3, <3>2, <3>3 DEF Singly, Apart, Open, Somewhere
  <2>4. CASE Start(q.run) /\ UNCHANGED <<waiting, lost>>
    <3>1. Begun' = Begun \cup {q.run} /\ Alive' = Alive \cup {q.run}
      BY <1>0, <2>1, <2>4, RunBegins
    <3>2. Held' = Held /\ HeldOnce'
      BY <1>0, <2>4, HeldKept DEF Singly
    <3> QED
      BY <1>0, <1>1, <1>2, <1>3, <2>1, <2>2, <2>4, <3>1, <3>2 DEF Singly, Apart, Open, Somewhere
  <2>5. CASE lost' = lost \cup {q.run} /\ UNCHANGED <<phase, waiting>>
    <3>1. Held' = Held /\ HeldOnce' /\ Begun' = Begun /\ Alive' = Alive
      BY <1>0, <2>5, HeldKept, BegunKept DEF Singly
    <3> QED
      BY <1>0, <1>1, <1>2, <1>3, <2>1, <2>2, <2>5, <3>1 DEF Singly, Apart, Open, Somewhere
  <2> QED
    BY <1>5, <2>3, <2>4, <2>5 DEF TakeInterrupt
<1>6. CASE TakeCancel(q) \/ TakeStop(q) \/ TakeCompact(q) \/ TakeClear(q) \/ TakeActive(q)
  <2>1. /\ UNCHANGED <<phase, waiting, lost>> /\ Asked' = Asked
        /\ \/ UNCHANGED answers
           \/ answers' = answers \cup {Reply("active", None, registry)}
           \/ answers' = answers \cup {Reply("unclear", None, None)}
    BY <1>2, <1>6 DEF TakeCancel, TakeStop, TakeCompact, TakeClear, TakeActive
  <2>2. Held' = Held /\ HeldOnce' /\ Begun' = Begun /\ Alive' = Alive
    BY <1>0, <2>1, HeldKept, BegunKept DEF Singly
  <2>3. Refused' = Refused /\ RefusedOnce'
    <3> DEFINE a == Reply("active", None, registry)
               b == Reply("unclear", None, None)
    <3>1. a \in Replies /\ a.kind # "refused" /\ b \in Replies /\ b.kind # "refused"
      BY <1>0, RepliesOK DEF TypeOK, Reply
    <3> QED
      BY <1>0, <2>1, <3>1, RefusedKept, Answered DEF Singly
  <2> QED
    BY <1>0, <1>1, <1>2, <1>3, <2>1, <2>2, <2>3 DEF Singly, Apart, Open, Somewhere
<1> QED
  BY <1>1, <1>4, <1>5, <1>6

\* Main runs what it took; the calls that waited for a run go on when it settles.
LEMMA RunPlaces ==
    IInv /\ (StartScheduled \/ RunStep \/ StopDone \/ CompactStarts \/ CompactDone
                \/ ClearEnds \/ IdleStarts \/ IdleEnds \/ UNCHANGED vars)
        => OnePlace' /\ Somewhere'
<1> SUFFICES ASSUME IInv, StartScheduled \/ RunStep \/ StopDone \/ CompactStarts \/ CompactDone
                             \/ ClearEnds \/ IdleStarts \/ IdleEnds \/ UNCHANGED vars
             PROVE  OnePlace' /\ Somewhere'
  OBVIOUS
<1> USE DEF OnePlace, windowVars, queueVars
<1>0. TypeOK /\ ChannelsOK /\ Singly /\ Apart /\ Claimed /\ Accounted /\ Somewhere
  BY DEF IInv
<1>1. CASE StartScheduled
  <2>1. UNCHANGED <<queue, deferred, toMain, waiting, answers, sent, log, reported, dropped, lost>>
    BY <1>1 DEF StartScheduled
  <2>2. \A s \in Messages : phase'[s] = phase[s]
    BY <1>0, <1>1, RunsAssumption DEF StartScheduled, Start, TypeOK, Runs, RunsAssumption
  <2>3. Begun' = Begun /\ Alive' = Alive
    BY <2>2 DEF Begun, Alive, Live
  <2>4. /\ Queued' = Queued /\ PutOff' = PutOff /\ Asked' = Asked /\ Held' = Held
        /\ Refused' = Refused /\ Singly'
    BY <1>0, <2>1, QueueKept, PutOffKept, AskedKept, HeldKept, RefusedKept DEF Singly
  <2> QED
    BY <1>0, <2>1, <2>3, <2>4 DEF Apart, Open, Somewhere
<1>2. ASSUME NEW r \in Runs, Yielded(r) \/ Recorded(r) \/ Ended(r) PROVE OnePlace' /\ Somewhere'
  <2>1. /\ UNCHANGED <<queue, deferred, toMain, waiting, answers, sent, reported, dropped, lost>>
        /\ log \subseteq log'
    BY <1>2 DEF Yielded, Recorded, Ended
  <2>2. /\ Live(r) /\ \E p \in {"recording", "working", "ending"} : phase' = [phase EXCEPT ![r] = p]
    BY <1>2 DEF Yielded, Recorded, Ended, Live
  <2>3. Begun' = Begun /\ Alive' = Alive
    BY <1>0, <2>2, RunMoves
  <2>4. /\ Queued' = Queued /\ PutOff' = PutOff /\ Asked' = Asked /\ Held' = Held
        /\ Refused' = Refused /\ Singly'
    BY <1>0, <2>1, QueueKept, PutOffKept, AskedKept, HeldKept, RefusedKept DEF Singly
  <2> QED
    BY <1>0, <2>1, <2>3, <2>4 DEF Apart, Open, Somewhere
<1>3. ASSUME NEW r \in Runs, NotRecorded(r) PROVE OnePlace' /\ Somewhere'
  <2>1. /\ UNCHANGED <<queue, deferred, toMain, waiting, sent, log, dropped, lost>>
        /\ reported \subseteq reported' /\ phase' = [phase EXCEPT ![r] = "ending"] /\ Live(r)
    BY <1>3 DEF NotRecorded, Live
  <2>2. Begun' = Begun /\ Alive' = Alive
    BY <1>0, <2>1, RunMoves
  <2>3. /\ Queued' = Queued /\ PutOff' = PutOff /\ Asked' = Asked /\ Held' = Held
        /\ QueuedOnce' /\ PutOffOnce' /\ CarriedOnce' /\ HeldOnce'
    BY <1>0, <2>1, QueueKept, PutOffKept, AskedKept, HeldKept DEF Singly
  <2>4. Refused' = Refused /\ RefusedOnce'
    <3>1. CASE r \in calls
      <4> DEFINE a == Reply("failed", r, None)
      <4>1. r \in Messages /\ answers' = answers \cup {a} /\ a.kind = "failed"
        BY <1>0, <1>3, <3>1 DEF NotRecorded, TypeOK, Reply
      <4>2. a \in Replies
        BY <4>1, RepliesOK DEF Runs
      <4> QED
        BY <1>0, <4>1, <4>2, Answered DEF Singly
    <3>2. CASE r \notin calls
      <4>1. answers' = answers
        BY <1>3, <3>2 DEF NotRecorded
      <4> QED
        BY <1>0, <4>1, RefusedKept DEF Singly
    <3> QED
      BY <3>1, <3>2
  <2> QED
    BY <1>0, <2>1, <2>2, <2>3, <2>4 DEF Singly, Apart, Open, Somewhere
<1>4. ASSUME NEW r \in Runs, Settle(r) PROVE OnePlace' /\ Somewhere'
  <2>1. /\ phase[r] = "ending" /\ waiting' = <<>> /\ lost' = lost \cup Turned
        /\ phase' = [s \in Runs |->
             IF s = r THEN "settled" ELSE IF s = Follower THEN "yielding" ELSE phase[s]]
        /\ UNCHANGED <<log, queue, deferred, sent, dropped, toMain, answers, reported>>
    BY <1>4, Settled
  <2>2. /\ Follower \in Messages \cup {None} /\ Held = Turned \cup ({Follower} \ {None})
    BY <1>0, Waiting
  <2>3. Held' = {} /\ HeldOnce'
    BY <2>1 DEF Held, HeldOnce, Once, ToSet
  <2>4. r \in Messages => r \in Begun /\ r \in log \cup reported
    BY <1>0, <2>1 DEF Begun, Accounted
  <2>5. \A s \in Messages : phase'[s] =
          IF s = r THEN "settled" ELSE IF s = Follower THEN "yielding" ELSE phase[s]
    BY <2>1 DEF Runs
  <2>6. /\ Begun' = Begun \cup ({Follower} \ {None}) /\ Alive \ {r} \subseteq Alive'
    <3>1. None \notin Messages
      BY RunsAssumption DEF RunsAssumption
    <3> QED
      BY <2>2, <2>4, <2>5, <3>1 DEF Begun, Alive, Live
  <2>7. Follower # None => Follower \in Alive'
    <3>1. Follower # None => Follower # r /\ Follower \in Messages
      BY <1>0, <2>2, <2>4 DEF Apart
    <3> QED
      BY <2>5, <3>1 DEF Alive, Live
  <2>8. /\ Queued' = Queued /\ PutOff' = PutOff /\ Asked' = Asked /\ Refused' = Refused
        /\ QueuedOnce' /\ PutOffOnce' /\ CarriedOnce' /\ RefusedOnce'
    BY <1>0, <2>1, QueueKept, PutOffKept, AskedKept, RefusedKept DEF Singly
  <2>9. Apart'
    BY <1>0, <2>1, <2>2, <2>3, <2>6, <2>8 DEF Apart, Open
  <2>10. Somewhere'
    <3>1. Alive \subseteq Messages
      BY DEF Alive
    <3> QED
      BY <1>0, <2>1, <2>2, <2>3, <2>4, <2>6, <2>7, <2>8, <3>1 DEF Open, Somewhere
  <2> QED
    BY <2>3, <2>8, <2>9, <2>10 DEF Singly
<1>5. ASSUME StopDone \/ CompactStarts \/ CompactDone \/ ClearEnds \/ IdleStarts \/ IdleEnds
                \/ UNCHANGED vars
      PROVE  OnePlace' /\ Somewhere'
  <2>1. /\ UNCHANGED <<queue, deferred, toMain, waiting, phase, sent, log, reported, dropped, lost>>
        /\ \/ UNCHANGED answers
           \/ \E kind \in {"stopped", "compacted", "cleared", "unclear"} :
                 answers' = answers \cup {Reply(kind, None, None)}
    BY <1>5 DEF StopDone, CompactStarts, CompactDone, ClearEnds, IdleStarts, IdleEnds, vars, mainVars
  <2>2. /\ Queued' = Queued /\ PutOff' = PutOff /\ Asked' = Asked /\ Held' = Held
        /\ Begun' = Begun /\ Alive' = Alive
        /\ QueuedOnce' /\ PutOffOnce' /\ CarriedOnce' /\ HeldOnce'
    BY <1>0, <2>1, QueueKept, PutOffKept, AskedKept, HeldKept, BegunKept DEF Singly
  <2>3. Refused' = Refused /\ RefusedOnce'
    <3>1. \A kind \in {"stopped", "compacted", "cleared", "unclear"} :
            Reply(kind, None, None) \in Replies /\ Reply(kind, None, None).kind # "refused"
      BY RepliesOK DEF Reply
    <3> QED
      BY <1>0, <2>1, <3>1, RefusedKept, Answered DEF Singly
  <2> QED
    BY <1>0, <2>1, <2>2, <2>3 DEF Singly, Apart, Open, Somewhere
<1> QED
  BY <1>1, <1>2, <1>3, <1>4, <1>5 DEF RunStep

-------------------------------------------------------------------------------
(***************************************************************************)
(* The theorems.                                                           *)
(***************************************************************************)

LEMMA Invariance == Spec => []IInv
<1>1. Init => IInv
  BY TypeInit, ClaimedInit, PlacesInit DEF IInv
<1>2. IInv /\ [Next]_vars => IInv'
  <2> SUFFICES ASSUME IInv, [Next]_vars PROVE IInv'
    OBVIOUS
  <2>1. TypeOK' /\ ChannelsOK'
    <3>1. CASE UNCHANGED vars
      BY <3>1 DEF IInv, TypeOK, ChannelsOK, vars, mainVars, windowVars, queueVars, gates
    <3> QED
      BY <3>1, WindowTypes, CallTypes, RunTypes DEF IInv, Next
  <2>2. Claimed' /\ Accounted'
    BY ClaimedStep DEF IInv
  <2>3. OnePlace' /\ Somewhere'
    BY WindowPlaces, CallPlaces, RunPlaces DEF Next
  <2> QED
    BY <2>1, <2>2, <2>3 DEF IInv
<1> QED
  BY <1>1, <1>2, PTL DEF Spec

\* Every variable of the window and of the main process keeps its type.
THEOREM TypeCorrect == Spec => []TypeOK
<1>1. IInv => TypeOK
  BY DEF IInv
<1> QED
  BY <1>1, Invariance, PTL

\* A message is in one place at a time: the queue of the window, a call, the calls
\* that wait for a run, a refusal, or a run.  So no message runs twice, although
\* refused messages are queued again and waiting calls start runs of their own.
THEOREM RunsOnce == Spec => []OnePlace
<1>1. IInv => OnePlace
  BY DEF IInv
<1> QED
  BY <1>1, Invariance, PTL

\* A message the user sent is queued, put off, on its way, in the event log, reported
\* as failed or was dropped.  It is lost only where "Send now" or the end of a /clear has
\* it turned down by the window (app.tsx:3136-3155), or an interrupt's answer is not read.
THEOREM NothingDisappears == Spec => []MessageKept
<1>1. IInv => MessageKept
  <2> SUFFICES ASSUME IInv, NEW m \in sent
               PROVE  InFlight(m) \/ m \in log \cup reported \cup dropped \cup lost
    BY DEF MessageKept
  <2>0. TypeOK /\ ChannelsOK /\ Somewhere
    BY DEF IInv
  <2>1. CASE m \in Queued \/ m \in Held \/ m \in Alive
    BY <2>1 DEF Queued, Held, Alive, InFlight
  <2>2. CASE m \in Asked
    <3>1. PICK i \in DOMAIN toMain : Carried(toMain[i]) = m
      BY <2>2 DEF Asked
    <3>2. toMain[i] \in ToSet(toMain) /\ m \in Messages
      BY <2>0, Elements DEF TypeOK
    <3>3. toMain[i].kind \in {"run", "interrupt"} /\ toMain[i].run = m
      BY <3>1, <3>2, RunsAssumption DEF Carried, RunsAssumption
    <3> QED
      BY <3>2, <3>3 DEF InFlight
  <2>3. CASE m \in Refused
    BY <2>3 DEF Refused, InFlight
  <2>4. CASE m \in PutOff
    BY <2>4, Elements DEF PutOff, InFlight
  <2> QED
    BY <2>0, <2>1, <2>2, <2>3, <2>4 DEF Somewhere, Open
<1> QED
  BY <1>1, Invariance, PTL

\* The session of a conversation has one user at a time: a run at work, the compaction
\* or the idle job, although each of them starts after an await.
THEOREM OneUserOfTheSession == Spec => []WorksAlone
<1>1. IInv => WorksAlone
  <2> SUFFICES ASSUME IInv PROVE WorksAlone
    OBVIOUS
  <2> DEFINE W == {r \in Runs : phase[r] \in {"recording", "working"}}
  <2>1. Claimed
    BY DEF IInv
  <2>2. \A r \in Runs : phase[r] \in {"recording", "working"} => registry = r /\ r # None
    BY <2>1, RunsAssumption DEF Claimed, Live, Runs, RunsAssumption
  <2>3. Cardinality(W) <= 1
    <3>1. W \subseteq {registry}
      BY <2>2
    <3>2. IsFiniteSet({registry}) /\ Cardinality({registry}) = 1
      BY FS_Singleton
    <3>3. Cardinality(W) <= Cardinality({registry})
      BY <3>1, <3>2, FS_Subset
    <3> QED
      BY <3>2, <3>3
  <2> QED
    BY <2>1, <2>2, <2>3 DEF WorksAlone, Claimed
<1> QED
  BY <1>1, Invariance, PTL

===============================================================================
