----------------------- MODULE FairScheduler_proofs -----------------------
(***************************************************************************)
(* Proofs about FairScheduler: for any set of keys, any set of calls and   *)
(* any number of lanes, no wakeup is lost, the admission counter is exact, *)
(* nothing runs after closeAndDrain has returned, the tasks of a key start *)
(* in the order they were accepted, and a key that waits is passed by each *)
(* other key at most once.                                                 *)
(*                                                                         *)
(* Every conjunct of the inductive invariant is a predicate on what Pump   *)
(* is called with: queues q, ready keys r, lanes a and task states s.      *)
(* Enqueue and Finally first change these and then call Pump, so a step is *)
(* two lemmas: the change keeps the predicate, and Pump keeps it.          *)
(***************************************************************************)
EXTENDS FairScheduler, FiniteSetTheorems, SequenceTheorems, TLAPS

States == {"new", "waiting", "running", "settled", "over"}
InLaneStates == {"running", "settled"}

(* The types of Pump's arguments.                                          *)
Shape(q, r, a, s) ==
  /\ q \in [Key -> Seq(Task)]
  /\ r \in Seq(Key)
  /\ a \in SUBSET Key /\ IsFiniteSet(a)
  /\ s \in [Task -> States]

(* A key is in the rotation once, never while it holds a lane, and exactly *)
(* the keys that have tasks are in it or hold a lane.                      *)
Rotates(q, r, a) ==
  /\ \A i, j \in 1 .. Len(r) : r[i] = r[j] => i = j
  /\ \A i \in 1 .. Len(r) : r[i] \notin a /\ q[r[i]] # <<>>
  /\ \A k \in Key :
       q[k] # <<>> => k \in a \/ \E i \in 1 .. Len(r) : r[i] = k

(* The queue of a key holds exactly the waiting tasks of the key, once.    *)
Holds(q, s) ==
  /\ \A k \in Key : \A i \in 1 .. Len(q[k]) :
       KeyOf[q[k][i]] = k /\ s[q[k][i]] = "waiting"
  /\ \A k \in Key : \A i, j \in 1 .. Len(q[k]) : q[k][i] = q[k][j] => i = j
  /\ \A t \in Task : s[t] = "waiting" =>
       \E i \in 1 .. Len(q[KeyOf[t]]) : q[KeyOf[t]][i] = t

(* A task that has started and is not over holds the lane of its key.      *)
Lanes(a, s) ==
  /\ \A t \in Task : s[t] \in InLaneStates => KeyOf[t] \in a
  /\ \A t, u \in Task :
       /\ s[t] \in InLaneStates /\ s[u] \in InLaneStates
       /\ KeyOf[t] = KeyOf[u]
       => t = u

(* Acceptance, queue and start agree on the order of the tasks of a key.   *)
Ordered(acc, q, s) ==
  /\ \A t \in Task : s[t] # "new" <=> \E i \in 1 .. Len(acc) : acc[i] = t
  /\ \A i, j \in 1 .. Len(acc) : acc[i] = acc[j] => i = j
  /\ \A i, j \in 1 .. Len(acc) :
       /\ i < j /\ KeyOf[acc[i]] = KeyOf[acc[j]] /\ s[acc[j]] # "waiting"
       => s[acc[i]] = "over"
  /\ \A k \in Key : \A m, n \in 1 .. Len(q[k]) : \A i, j \in 1 .. Len(acc) :
       acc[i] = q[k][m] /\ acc[j] = q[k][n] /\ m < n => i < j

(* A key that was passed by another is before it in the rotation.          *)
PassedIsAhead(r, P) ==
  /\ P \subseteq Key \X Key
  /\ \A p \in P : \E i \in 1 .. Len(r) :
       r[i] = p[1] /\ \A m \in 1 .. Len(r) : r[m] = p[2] => i < m

Busy(s) == {t \in Task : s[t] = "waiting" \/ s[t] \in InLaneStates}

LanesFull(r, a) ==
  /\ Cardinality(a) <= MaxActiveLanes
  /\ r # <<>> => Cardinality(a) = MaxActiveLanes

Counted(c, s) ==
  /\ IsFiniteSet(Busy(s))
  /\ c = Cardinality(Busy(s))

Drains(c, d, shut) == (d # "open" <=> shut) /\ (d = "returned" => c = 0)

Inv ==
  /\ Shape(queues, ready, active, state)
  /\ Rotates(queues, ready, active)
  /\ Holds(queues, state)
  /\ Lanes(active, state)
  /\ LanesFull(ready, active)
  /\ accepted \in Seq(Task) /\ Ordered(accepted, queues, state)
  /\ PassedIsAhead(ready, passed)
  /\ Counted(queuedTasks, state) /\ queuedTasks <= MaxQueuedTasks
  /\ Drains(queuedTasks, drain, closing)

---------------------------------------------------------------------------
(* What the pump does: nothing, when every lane is taken or no key waits,  *)
(* or else one lane goes to the key at the head of the rotation, and its   *)
(* oldest task starts.                                                     *)
Rests(q, r, a, s) ==
  /\ r = <<>> \/ Cardinality(a) = MaxActiveLanes
  /\ queues' = q /\ ready' = r /\ active' = a /\ state' = s
  /\ passed' = {p \in passed : p[1] \in Elements(r)}

Starts(q, r, a, s, h, t) ==
  /\ r # <<>> /\ Cardinality(a) < MaxActiveLanes
  /\ h = r[1] /\ q[h] # <<>> /\ t = q[h][1]
  /\ queues' = [q EXCEPT ![h] = Tail(@)]
  /\ ready' = Tail(r)
  /\ active' = a \cup {h}
  /\ state' = [s EXCEPT ![t] = "running"]
  /\ passed' = {p \in passed : p[1] \in Elements(Tail(r))}
                 \cup (Elements(Tail(r)) \X {h})

(* A stretch frees at most one lane or makes at most one key ready.        *)
OneLane(r, a) ==
  /\ Cardinality(a) <= MaxActiveLanes
  /\ Len(r) <= 1 \/ Cardinality(a) >= MaxActiveLanes - 1

LEMMA ElementsOf ==
  ASSUME NEW S, NEW r \in Seq(S)
  PROVE  /\ Elements(r) = {r[i] : i \in 1 .. Len(r)}
         /\ Elements(r) \subseteq S
<1>1. DOMAIN r = 1 .. Len(r) /\ \A i \in 1 .. Len(r) : r[i] \in S
  BY LenProperties, ElementOfSeq
<1> QED BY <1>1 DEF Elements

LEMMA NoElements == Elements(<<>>) = {}
BY DEF Elements

(* The number of turns of the pump's loop.                                 *)
LEMMA TurnsOfPump ==
  ASSUME NEW c \in Nat, NEW m \in Nat, NEW l \in Nat,
         c <= m, l <= 1 \/ c >= m - 1
  PROVE  LET n == IF m - c < l THEN m - c ELSE l
         IN /\ n \in {0, 1}
            /\ n = 0 => c = m \/ l = 0
            /\ n = 1 => c < m /\ l > 0
OBVIOUS

(* One call of the pump starts at most one task: the loop of the code over *)
(* free lanes and ready keys never turns twice.                            *)
LEMMA PumpStartsAtMostOne ==
  ASSUME NEW q, NEW r, NEW a, NEW s,
         Shape(q, r, a, s), Rotates(q, r, a), Holds(q, s), OneLane(r, a),
         Pump(q, r, a, s)
  PROVE  \/ Rests(q, r, a, s)
         \/ \E h \in Key, t \in Task : Starts(q, r, a, s, h, t)
<1> DEFINE free == MaxActiveLanes - Cardinality(a)
           n == IF free < Len(r) THEN free ELSE Len(r)
           run == Elements(SubSeq(r, 1, n))
           first == {Head(q[k]) : k \in run}
           left == SubSeq(r, n + 1, Len(r))
<1>1. /\ Cardinality(a) \in Nat /\ MaxActiveLanes \in Nat \ {0}
      /\ Len(r) \in Nat
  BY FS_CardinalityType, LenProperties, SchedulerAssumption DEF Shape
<1>2. /\ n \in {0, 1}
      /\ n = 0 => Cardinality(a) = MaxActiveLanes \/ Len(r) = 0
      /\ n = 1 => Cardinality(a) < MaxActiveLanes /\ Len(r) > 0
  BY <1>1, TurnsOfPump DEF OneLane
<1>. HIDE DEF n
<1>3. /\ queues' = [k \in Key |-> IF k \in run THEN Tail(q[k]) ELSE q[k]]
      /\ ready' = left
      /\ active' = a \cup run
      /\ state' = [t \in Task |-> IF t \in first THEN "running" ELSE s[t]]
      /\ passed' = {p \in passed : p[1] \in Elements(left)}
                     \cup (Elements(left) \X run)
  BY DEF Pump, n
<1>4. CASE n = 0
  <2>1. run = {} /\ first = {}
    <3>1. SubSeq(r, 1, n) = <<>>
      <4>1. SubSeq(r, 1, 0) = <<>>
        <5>1. 0 \in Int /\ 1 \in Int /\ 0 < 1
          OBVIOUS
        <5> QED BY <5>1, SubSeqEmpty
      <4> QED BY <1>4, <4>1
    <3>2. Elements(<<>>) = {}
      BY NoElements
    <3> QED BY <3>1, <3>2
  <2>2. left = r
    BY <1>4, SubSeqFull DEF Shape
  <2>3. r = <<>> \/ Cardinality(a) = MaxActiveLanes
    BY <1>2, <1>4, EmptySeq DEF Shape
  <2>4. queues' = q /\ state' = s
    BY <1>3, <2>1 DEF Shape
  <2> QED BY <1>3, <2>1, <2>2, <2>3, <2>4 DEF Rests
<1>5. CASE n = 1
  <2>1. r # <<>> /\ Cardinality(a) < MaxActiveLanes /\ 1 \in 1 .. Len(r)
    BY <1>1, <1>2, <1>5, EmptySeq DEF Shape
  <2> DEFINE h == r[1]
             t == q[h][1]
  <2>2. /\ h \in Key /\ q[h] # <<>> /\ q[h] \in Seq(Task)
    BY <2>1, ElementOfSeq DEF Shape, Rotates
  <2>3. Head(q[h]) = t /\ t \in Task /\ s[t] = "waiting" /\ KeyOf[t] = h
    <3>1. 1 \in 1 .. Len(q[h])
      BY <2>2, EmptySeq, LenProperties
    <3> QED BY <2>2, <3>1, ElementOfSeq DEF Holds
  <2>4. run = {h} /\ first = {t}
    <3>1. /\ SubSeq(r, 1, n) \in Seq(Key) /\ Len(SubSeq(r, 1, n)) = 1
          /\ SubSeq(r, 1, n)[1] = h
      <4>1. \A i \in 1 .. 1 : r[i] \in Key
        BY <2>2
      <4> QED BY <1>5, <4>1, SubSeqProperties
    <3>2. run = {SubSeq(r, 1, n)[i] : i \in 1 .. Len(SubSeq(r, 1, n))}
      BY <3>1, ElementsOf
    <3>3. run = {h}
      <4>1. 1 .. Len(SubSeq(r, 1, n)) = {1}
        BY <3>1
      <4> QED BY <3>1, <3>2, <4>1
    <3> QED BY <2>3, <3>3
  <2>5. left = Tail(r)
    <3>1. n + 1 = 2
      BY <1>5
    <3> QED BY <2>1, <3>1, TailIsSubSeq DEF Shape
  <2>6. queues' = [q EXCEPT ![h] = Tail(@)]
    BY <1>3, <2>2, <2>4 DEF Shape
  <2>7. state' = [s EXCEPT ![t] = "running"]
    BY <1>3, <2>3, <2>4 DEF Shape
  <2>8. Starts(q, r, a, s, h, t)
    BY <1>3, <2>1, <2>2, <2>4, <2>5, <2>6, <2>7 DEF Starts
  <2> QED BY <2>2, <2>3, <2>8
<1> QED BY <1>2, <1>4, <1>5

---------------------------------------------------------------------------
(* Pump keeps the invariant.                                               *)

(* What is before and after a start, element by element.                   *)
StartEffect(q, r, a, s, h, t) ==
  /\ s[t] = "waiting" /\ KeyOf[t] = h /\ h \notin a
  /\ \A u \in Task : KeyOf[u] = h => s[u] \notin InLaneStates
  /\ Len(q[h]) \in Nat /\ 1 \in 1 .. Len(q[h]) /\ t = q[h][1]
  /\ queues' \in [Key -> Seq(Task)]
  /\ Len(queues'[h]) = Len(q[h]) - 1
  /\ \A i \in 1 .. Len(q[h]) - 1 : queues'[h][i] = q[h][i + 1]
  /\ \A k \in Key \ {h} : queues'[k] = q[k]
  /\ Len(r) \in Nat /\ 1 \in 1 .. Len(r) /\ h = r[1]
  /\ ready' \in Seq(Key) /\ Len(ready') = Len(r) - 1
  /\ \A i \in 1 .. Len(r) - 1 : ready'[i] = r[i + 1]
  /\ \A u \in Task : state'[u] = IF u = t THEN "running" ELSE s[u]

LEMMA StartFacts ==
  ASSUME NEW q, NEW r, NEW a, NEW s, NEW h \in Key, NEW t \in Task,
         Shape(q, r, a, s), Rotates(q, r, a), Holds(q, s), Lanes(a, s),
         Starts(q, r, a, s, h, t)
  PROVE  StartEffect(q, r, a, s, h, t)
<1>1. q[h] \in Seq(Task) /\ q[h] # <<>> /\ r \in Seq(Key) /\ r # <<>>
  BY DEF Shape, Starts
<1>2. /\ Len(q[h]) \in Nat /\ 1 \in 1 .. Len(q[h])
      /\ Len(r) \in Nat /\ 1 \in 1 .. Len(r)
  BY <1>1, EmptySeq, LenProperties
<1>3. t = q[h][1] /\ h = r[1]
  BY DEF Starts
<1>4. s[t] = "waiting" /\ KeyOf[t] = h /\ h \notin a
  BY <1>2, <1>3 DEF Holds, Rotates
<1>5. \A u \in Task : KeyOf[u] = h => s[u] \notin InLaneStates
  BY <1>4 DEF Lanes
<1>6. /\ Tail(q[h]) \in Seq(Task) /\ Len(Tail(q[h])) = Len(q[h]) - 1
      /\ \A i \in 1 .. Len(q[h]) - 1 : Tail(q[h])[i] = q[h][i + 1]
  <2>1. /\ Tail(q[h]) \in Seq(Task) /\ Len(Tail(q[h])) = Len(q[h]) - 1
        /\ \A i \in 1 .. Len(Tail(q[h])) : Tail(q[h])[i] = q[h][i + 1]
    BY <1>1, HeadTailProperties
  <2> QED BY <2>1
<1>7. /\ ready' \in Seq(Key) /\ Len(ready') = Len(r) - 1
      /\ \A i \in 1 .. Len(r) - 1 : ready'[i] = r[i + 1]
  <2>1. /\ Tail(r) \in Seq(Key) /\ Len(Tail(r)) = Len(r) - 1
        /\ \A i \in 1 .. Len(Tail(r)) : Tail(r)[i] = r[i + 1]
    BY <1>1, HeadTailProperties
  <2>2. ready' = Tail(r)
    BY DEF Starts
  <2> QED BY <2>1, <2>2
<1>8. /\ queues' \in [Key -> Seq(Task)]
      /\ queues'[h] = Tail(q[h]) /\ \A k \in Key \ {h} : queues'[k] = q[k]
  BY <1>6 DEF Starts, Shape
<1>9. \A u \in Task : state'[u] = IF u = t THEN "running" ELSE s[u]
  BY DEF Starts, Shape
<1> QED BY <1>2, <1>3, <1>4, <1>5, <1>6, <1>7, <1>8, <1>9 DEF StartEffect

LEMMA PumpKeeps ==
  ASSUME NEW q, NEW r, NEW a, NEW s,
         Shape(q, r, a, s), Rotates(q, r, a), Holds(q, s), Lanes(a, s),
         OneLane(r, a), Pump(q, r, a, s)
  PROVE  /\ Shape(queues', ready', active', state')
         /\ Rotates(queues', ready', active')
         /\ Holds(queues', state')
         /\ Lanes(active', state')
         /\ LanesFull(ready', active')
<1>1. CASE Rests(q, r, a, s)
  BY <1>1 DEF Rests, OneLane, LanesFull
<1>2. CASE \E h \in Key, t \in Task : Starts(q, r, a, s, h, t)
  <2>1. PICK h \in Key, t \in Task : Starts(q, r, a, s, h, t)
    BY <1>2
  <2>2. StartEffect(q, r, a, s, h, t)
    BY <2>1, StartFacts
  <2>3. active' = a \cup {h} /\ Cardinality(a) < MaxActiveLanes
    BY <2>1 DEF Starts
  <2>4. Shape(queues', ready', active', state')
    <3>1. state' \in [Task -> States]
      BY <2>1 DEF Starts, Shape, States
    <3>2. active' \in SUBSET Key /\ IsFiniteSet(active')
      <4>1. a \in SUBSET Key /\ IsFiniteSet(a)
        BY DEF Shape
      <4>2. IsFiniteSet(a \cup {h})
        BY <4>1, FS_AddElement
      <4> QED BY <2>3, <4>1, <4>2
    <3> QED BY <2>2, <3>1, <3>2 DEF Shape, StartEffect
  <2>5. Rotates(queues', ready', active')
    <3>1. ASSUME NEW i \in 1 .. Len(ready'), NEW j \in 1 .. Len(ready'),
                 ready'[i] = ready'[j]
          PROVE  i = j
      <4>1. /\ Len(r) \in Nat
            /\ i \in 1 .. Len(r) - 1 /\ j \in 1 .. Len(r) - 1
            /\ r[i + 1] = r[j + 1]
        BY <2>2, <3>1 DEF StartEffect
      <4>2. i + 1 \in 1 .. Len(r) /\ j + 1 \in 1 .. Len(r)
        BY <4>1
      <4>3. i + 1 = j + 1
        BY <4>1, <4>2 DEF Rotates
      <4> QED BY <4>1, <4>3
    <3>2. ASSUME NEW i \in 1 .. Len(ready')
          PROVE  ready'[i] \notin active' /\ queues'[ready'[i]] # <<>>
      <4>1. i + 1 \in 1 .. Len(r) /\ i + 1 # 1 /\ ready'[i] = r[i + 1]
        <5>1. Len(r) \in Nat /\ i \in 1 .. Len(r) - 1
          BY <2>2 DEF StartEffect
        <5>2. i + 1 \in 1 .. Len(r) /\ i + 1 # 1
          BY <5>1
        <5> QED BY <2>2, <5>1, <5>2 DEF StartEffect
      <4>2. r[i + 1] # h /\ r[i + 1] \in Key
        <5>1. r \in Seq(Key) /\ 1 \in 1 .. Len(r) /\ h = r[1]
          BY <2>2 DEF Shape, StartEffect
        <5>2. r[i + 1] \in Key
          BY <4>1, <5>1, ElementOfSeq
        <5> QED BY <4>1, <5>1, <5>2 DEF Rotates
      <4>3. r[i + 1] \notin a /\ q[r[i + 1]] # <<>>
        BY <4>1 DEF Rotates
      <4>4. queues'[r[i + 1]] = q[r[i + 1]]
        BY <2>2, <4>2 DEF StartEffect
      <4> QED BY <2>3, <4>1, <4>2, <4>3, <4>4
    <3>3. ASSUME NEW k \in Key, queues'[k] # <<>>
          PROVE  k \in active' \/ \E i \in 1 .. Len(ready') : ready'[i] = k
      <4>1. CASE k = h
        BY <2>3, <4>1
      <4>2. CASE k # h /\ k \in a
        BY <2>3, <4>2
      <4>3. CASE k # h /\ k \notin a
        <5>1. PICK i \in 1 .. Len(r) : r[i] = k
          BY <2>2, <3>3, <4>3 DEF Rotates, StartEffect
        <5>2. i - 1 \in 1 .. Len(ready') /\ ready'[i - 1] = k
          <6>1. /\ Len(r) \in Nat /\ Len(ready') = Len(r) - 1 /\ r[1] = h
                /\ \A m \in 1 .. Len(r) - 1 : ready'[m] = r[m + 1]
            BY <2>2 DEF StartEffect
          <6>2. i # 1
            BY <4>3, <5>1, <6>1
          <6>3. i - 1 \in 1 .. Len(r) - 1 /\ (i - 1) + 1 = i
            BY <5>1, <6>1, <6>2
          <6> QED BY <5>1, <6>1, <6>3
        <5> QED BY <5>2
      <4> QED BY <4>1, <4>2, <4>3
    <3> QED BY <3>1, <3>2, <3>3 DEF Rotates
  <2>6. Holds(queues', state')
    <3>1. ASSUME NEW k \in Key, NEW i \in 1 .. Len(queues'[k])
          PROVE  KeyOf[queues'[k][i]] = k /\ state'[queues'[k][i]] = "waiting"
      <4>1. CASE k = h
        <5>1. /\ i + 1 \in 1 .. Len(q[h]) /\ i + 1 # 1
              /\ queues'[k][i] = q[h][i + 1]
          BY <2>2, <4>1 DEF StartEffect
        <5>2. q[h][i + 1] # t /\ q[h][i + 1] \in Task
          BY <2>2, <5>1, ElementOfSeq DEF Holds, Shape, StartEffect
        <5> QED BY <2>2, <4>1, <5>1, <5>2 DEF Holds, StartEffect
      <4>2. CASE k # h
        <5>1. queues'[k] = q[k] /\ i \in 1 .. Len(q[k])
          BY <2>2, <4>2 DEF StartEffect
        <5>2. q[k][i] \in Task
          BY <5>1, ElementOfSeq DEF Shape
        <5>3. KeyOf[q[k][i]] = k /\ s[q[k][i]] = "waiting"
          BY <5>1 DEF Holds
        <5>4. q[k][i] # t
          BY <2>2, <4>2, <5>3 DEF StartEffect
        <5> QED BY <2>2, <5>1, <5>2, <5>3, <5>4 DEF StartEffect
      <4> QED BY <4>1, <4>2
    <3>2. ASSUME NEW k \in Key, NEW i \in 1 .. Len(queues'[k]),
                 NEW j \in 1 .. Len(queues'[k]), queues'[k][i] = queues'[k][j]
          PROVE  i = j
      <4>1. CASE k = h
        <5>1. /\ Len(q[h]) \in Nat
              /\ i \in 1 .. Len(q[h]) - 1 /\ j \in 1 .. Len(q[h]) - 1
              /\ q[h][i + 1] = q[h][j + 1]
          BY <2>2, <3>2, <4>1 DEF StartEffect
        <5>2. i + 1 \in 1 .. Len(q[h]) /\ j + 1 \in 1 .. Len(q[h])
          BY <5>1
        <5>3. i + 1 = j + 1
          BY <5>1, <5>2 DEF Holds
        <5> QED BY <5>1, <5>3
      <4>2. CASE k # h
        <5>1. queues'[k] = q[k]
          BY <2>2, <4>2 DEF StartEffect
        <5> QED BY <3>2, <5>1 DEF Holds
      <4> QED BY <4>1, <4>2
    <3>3. ASSUME NEW u \in Task, state'[u] = "waiting"
          PROVE  \E i \in 1 .. Len(queues'[KeyOf[u]]) :
                   queues'[KeyOf[u]][i] = u
      <4>1. u # t /\ s[u] = "waiting" /\ KeyOf[u] \in Key
        BY <2>2, <3>3, SchedulerAssumption DEF StartEffect
      <4>2. PICK i \in 1 .. Len(q[KeyOf[u]]) : q[KeyOf[u]][i] = u
        BY <4>1 DEF Holds
      <4>3. CASE KeyOf[u] = h
        <5>1. i - 1 \in 1 .. Len(queues'[h]) /\ queues'[h][i - 1] = u
          <6>1. /\ Len(q[h]) \in Nat /\ i \in 1 .. Len(q[h])
                /\ q[h][i] = u /\ i # 1
            BY <2>2, <4>1, <4>2, <4>3 DEF StartEffect
          <6>2. i - 1 \in 1 .. Len(q[h]) - 1 /\ (i - 1) + 1 = i
            BY <6>1
          <6> QED BY <2>2, <6>1, <6>2 DEF StartEffect
        <5> QED BY <4>3, <5>1
      <4>4. CASE KeyOf[u] # h
        <5>1. queues'[KeyOf[u]] = q[KeyOf[u]]
          BY <2>2, <4>1, <4>4 DEF StartEffect
        <5> QED BY <4>2, <5>1
      <4> QED BY <4>3, <4>4
    <3> QED BY <3>1, <3>2, <3>3 DEF Holds
  <2>7. Lanes(active', state')
    <3>1. /\ KeyOf[t] = h /\ h \notin a
          /\ \A u \in Task : KeyOf[u] = h => s[u] \notin InLaneStates
          /\ \A u \in Task : state'[u] = IF u = t THEN "running" ELSE s[u]
      BY <2>2 DEF StartEffect
    <3> QED BY <2>3, <3>1 DEF Lanes, InLaneStates
  <2>8. LanesFull(ready', active')
    <3>1. /\ Cardinality(a) \in Nat /\ MaxActiveLanes \in Nat
          /\ Cardinality(active') = Cardinality(a) + 1
      BY <2>2, <2>3, FS_AddElement, FS_CardinalityType, SchedulerAssumption
         DEF Shape, StartEffect
    <3>2. ready' # <<>> => Len(r) > 1
      BY <2>2, EmptySeq DEF StartEffect
    <3> QED BY <2>2, <2>3, <3>1, <3>2 DEF LanesFull, OneLane, StartEffect
  <2> QED BY <2>4, <2>5, <2>6, <2>7, <2>8
<1> QED BY <1>1, <1>2, PumpStartsAtMostOne

LEMMA PumpOrders ==
  ASSUME NEW q, NEW r, NEW a, NEW s, NEW acc \in Seq(Task),
         Shape(q, r, a, s), Rotates(q, r, a), Holds(q, s), Lanes(a, s),
         OneLane(r, a), Ordered(acc, q, s), Pump(q, r, a, s)
  PROVE  Ordered(acc, queues', state')
<1>1. CASE Rests(q, r, a, s)
  BY <1>1 DEF Rests
<1>2. CASE \E h \in Key, t \in Task : Starts(q, r, a, s, h, t)
  <2>1. PICK h \in Key, t \in Task : Starts(q, r, a, s, h, t)
    BY <1>2
  <2>2. StartEffect(q, r, a, s, h, t)
    BY <2>1, StartFacts
  <2>3. \A i \in 1 .. Len(acc) : acc[i] \in Task
    BY ElementOfSeq
  <2>4. \A u \in Task :
          state'[u] # "new" <=> \E i \in 1 .. Len(acc) : acc[i] = u
    BY <2>2 DEF Ordered, StartEffect
  <2>5. ASSUME NEW i \in 1 .. Len(acc), NEW j \in 1 .. Len(acc),
               i < j, KeyOf[acc[i]] = KeyOf[acc[j]],
               state'[acc[j]] # "waiting"
        PROVE  state'[acc[i]] = "over"
    <3>1. acc[i] # acc[j] /\ Len(acc) \in Nat
      BY <2>5, LenProperties DEF Ordered
    <3>2. CASE acc[j] = t
      <4>1. s[acc[i]] \in States /\ s[acc[i]] # "new"
        BY <2>3 DEF Ordered, Shape
      <4>2. KeyOf[acc[i]] = h /\ s[acc[i]] \notin InLaneStates
        BY <2>2, <2>3, <2>5, <3>2 DEF StartEffect
      <4>3. s[acc[i]] # "waiting"
        <5> SUFFICES ASSUME s[acc[i]] = "waiting" PROVE FALSE
          OBVIOUS
        <5>1. PICK n \in 1 .. Len(q[h]) : q[h][n] = acc[i]
          BY <2>3, <4>2 DEF Holds
        <5>2. Len(q[h]) \in Nat /\ 1 \in 1 .. Len(q[h]) /\ acc[j] = q[h][1]
          BY <2>2, <3>2 DEF StartEffect
        <5>3. n # 1
          BY <3>1, <5>1, <5>2
        <5>4. 1 < n
          BY <5>2, <5>3
        <5>5. j < i
          BY <5>1, <5>2, <5>4 DEF Ordered
        <5> QED BY <2>5, <3>1, <5>5
      <4>4. s[acc[i]] = "over"
        BY <4>1, <4>2, <4>3 DEF States, InLaneStates
      <4> QED BY <2>2, <2>3, <3>1, <3>2, <4>4 DEF StartEffect
    <3>3. CASE acc[j] # t
      <4>1. s[acc[j]] # "waiting"
        BY <2>2, <2>3, <2>5, <3>3 DEF StartEffect
      <4>2. s[acc[i]] = "over"
        BY <2>5, <4>1 DEF Ordered
      <4>3. acc[i] # t
        BY <2>2, <4>2 DEF StartEffect
      <4> QED BY <2>2, <2>3, <4>2, <4>3 DEF StartEffect
    <3> QED BY <3>2, <3>3
  <2>6. ASSUME NEW k \in Key, NEW m \in 1 .. Len(queues'[k]),
               NEW n \in 1 .. Len(queues'[k]),
               NEW i \in 1 .. Len(acc), NEW j \in 1 .. Len(acc),
               acc[i] = queues'[k][m], acc[j] = queues'[k][n], m < n
        PROVE  i < j
    <3>1. CASE k = h
      <4>1. /\ Len(q[h]) \in Nat
            /\ m \in 1 .. Len(q[h]) - 1 /\ n \in 1 .. Len(q[h]) - 1
            /\ acc[i] = q[h][m + 1] /\ acc[j] = q[h][n + 1]
        BY <2>2, <2>6, <3>1 DEF StartEffect
      <4>2. /\ m + 1 \in 1 .. Len(q[h]) /\ n + 1 \in 1 .. Len(q[h])
            /\ m + 1 < n + 1
        BY <2>6, <4>1
      <4> QED BY <4>1, <4>2 DEF Ordered
    <3>2. CASE k # h
      <4>1. queues'[k] = q[k]
        BY <2>2, <3>2 DEF StartEffect
      <4> QED BY <2>6, <4>1 DEF Ordered
    <3> QED BY <3>1, <3>2
  <2>7. \A i, j \in 1 .. Len(acc) : acc[i] = acc[j] => i = j
    BY DEF Ordered
  <2> QED BY <2>4, <2>5, <2>6, <2>7 DEF Ordered
<1> QED BY <1>1, <1>2, PumpStartsAtMostOne

LEMMA PairParts ==
  ASSUME NEW S, NEW x, NEW p \in S \X {x}
  PROVE  p[1] \in S /\ p[2] = x
OBVIOUS

LEMMA PumpPasses ==
  ASSUME NEW q, NEW r, NEW a, NEW s,
         Shape(q, r, a, s), Rotates(q, r, a), Holds(q, s), Lanes(a, s),
         OneLane(r, a), PassedIsAhead(r, passed), Pump(q, r, a, s)
  PROVE  PassedIsAhead(ready', passed')
<1>1. CASE Rests(q, r, a, s)
  BY <1>1 DEF Rests, PassedIsAhead
<1>2. CASE \E h \in Key, t \in Task : Starts(q, r, a, s, h, t)
  <2>1. PICK h \in Key, t \in Task : Starts(q, r, a, s, h, t)
    BY <1>2
  <2>2. StartEffect(q, r, a, s, h, t)
    BY <2>1, StartFacts
  <2>3. /\ Elements(ready') = {ready'[i] : i \in 1 .. Len(ready')}
        /\ Elements(ready') \subseteq Key
    BY <2>2, ElementsOf DEF StartEffect
  <2>4. passed' = {p \in passed : p[1] \in Elements(ready')}
                   \cup (Elements(ready') \X {h})
    BY <2>1 DEF Starts
  <2>5. \A i \in 1 .. Len(ready') :
          /\ Len(r) \in Nat /\ i \in 1 .. Len(r) - 1
          /\ i + 1 \in 1 .. Len(r) /\ ready'[i] = r[i + 1]
    <3>1. /\ Len(r) \in Nat /\ Len(ready') = Len(r) - 1
          /\ \A i \in 1 .. Len(r) - 1 : ready'[i] = r[i + 1]
      BY <2>2 DEF StartEffect
    <3>2. \A i \in 1 .. Len(r) - 1 : i + 1 \in 1 .. Len(r)
      BY <3>1
    <3> QED BY <3>1, <3>2
  <2>6. \A i \in 1 .. Len(ready') : ready'[i] # h
    <3> SUFFICES ASSUME NEW i \in 1 .. Len(ready') PROVE ready'[i] # h
      OBVIOUS
    <3>1. r[1] = h /\ 1 \in 1 .. Len(r)
      BY <2>2 DEF StartEffect
    <3>2. i + 1 # 1
      BY <2>5
    <3> QED BY <2>5, <3>1, <3>2 DEF Rotates
  <2>7. ASSUME NEW p \in passed, p[1] \in Elements(ready')
        PROVE  \E i \in 1 .. Len(ready') :
                 /\ ready'[i] = p[1]
                 /\ \A m \in 1 .. Len(ready') : ready'[m] = p[2] => i < m
    <3>1. PICK i \in 1 .. Len(ready') : ready'[i] = p[1]
      BY <2>3, <2>7
    <3>2. PICK n \in 1 .. Len(r) :
            r[n] = p[1] /\ \A m \in 1 .. Len(r) : r[m] = p[2] => n < m
      BY DEF PassedIsAhead
    <3>3. n = i + 1
      BY <2>5, <3>1, <3>2 DEF Rotates
    <3>4. ASSUME NEW m \in 1 .. Len(ready'), ready'[m] = p[2]
          PROVE  i < m
      <4>1. i + 1 < m + 1
        BY <2>5, <3>2, <3>3, <3>4
      <4>2. i \in Int /\ m \in Int
        BY <2>5
      <4> QED BY <4>1, <4>2
    <3> QED BY <3>1, <3>4
  <2>8. ASSUME NEW p \in Elements(ready') \X {h}
        PROVE  \E i \in 1 .. Len(ready') :
                 /\ ready'[i] = p[1]
                 /\ \A m \in 1 .. Len(ready') : ready'[m] = p[2] => i < m
    <3>1. p[1] \in Elements(ready') /\ p[2] = h
      BY <2>8, PairParts
    <3>2. PICK i \in 1 .. Len(ready') : ready'[i] = p[1]
      BY <2>3, <3>1
    <3> QED BY <2>6, <3>1, <3>2
  <2>9. passed' \subseteq Key \X Key
    BY <2>3, <2>4 DEF PassedIsAhead
  <2> QED BY <2>4, <2>7, <2>8, <2>9 DEF PassedIsAhead
<1> QED BY <1>1, <1>2, PumpStartsAtMostOne

LEMMA PumpCounts ==
  ASSUME NEW q, NEW r, NEW a, NEW s,
         Shape(q, r, a, s), Rotates(q, r, a), Holds(q, s), Lanes(a, s),
         OneLane(r, a), Pump(q, r, a, s)
  PROVE  Busy(state') = Busy(s)
<1>1. CASE Rests(q, r, a, s)
  BY <1>1 DEF Rests
<1>2. CASE \E h \in Key, t \in Task : Starts(q, r, a, s, h, t)
  <2>1. PICK h \in Key, t \in Task : Starts(q, r, a, s, h, t)
    BY <1>2
  <2>2. StartEffect(q, r, a, s, h, t)
    BY <2>1, StartFacts
  <2> QED BY <2>2 DEF StartEffect, Busy, InLaneStates
<1> QED BY <1>1, <1>2, PumpStartsAtMostOne

---------------------------------------------------------------------------
(* What Enqueue and Finally do before they call Pump.                      *)

(* A key is added at the end of the rotation, unless it is there already   *)
(* or holds a lane.                                                        *)
Appended(R, k, r, a) ==
  /\ R \in Seq(Key) /\ Len(r) \in Nat
  /\ Len(R) = Len(r) + 1
  /\ \A i \in 1 .. Len(r) : R[i] = r[i] /\ r[i] # k
  /\ R[Len(r) + 1] = k /\ k \notin a

LEMMA MakeReadyFacts ==
  ASSUME NEW k \in Key, NEW r \in Seq(Key), NEW a
  PROVE  \/ /\ MakeReady(k, r, a) = r
            /\ k \in a \/ \E i \in 1 .. Len(r) : r[i] = k
         \/ Appended(MakeReady(k, r, a), k, r, a)
<1>1. Elements(r) = {r[i] : i \in 1 .. Len(r)} /\ Len(r) \in Nat
  BY ElementsOf, LenProperties
<1>2. CASE k \in a \cup Elements(r)
  BY <1>1, <1>2 DEF MakeReady
<1>3. CASE k \notin a \cup Elements(r)
  <2>1. MakeReady(k, r, a) = Append(r, k)
    BY <1>3 DEF MakeReady
  <2>2. /\ Append(r, k) \in Seq(Key)
        /\ Len(Append(r, k)) = Len(r) + 1
        /\ \A i \in 1 .. Len(r) : Append(r, k)[i] = r[i]
        /\ Append(r, k)[Len(r) + 1] = k
    BY AppendProperties
  <2> QED BY <1>1, <1>3, <2>1, <2>2 DEF Appended
<1> QED BY <1>2, <1>3

(* The place of a key in the rotation does not change when another key is  *)
(* added: who is ahead stays ahead.                                        *)
LEMMA PassedStays ==
  ASSUME NEW k \in Key, NEW r \in Seq(Key), NEW a, NEW P,
         PassedIsAhead(r, P)
  PROVE  PassedIsAhead(MakeReady(k, r, a), P)
<1>1. CASE MakeReady(k, r, a) = r
  BY <1>1
<1>2. CASE Appended(MakeReady(k, r, a), k, r, a)
  <2> DEFINE R == MakeReady(k, r, a)
  <2>1. /\ Len(r) \in Nat /\ Len(R) = Len(r) + 1
        /\ \A i \in 1 .. Len(r) : R[i] = r[i]
    BY <1>2 DEF Appended
  <2> HIDE DEF R
  <2>2. ASSUME NEW p \in P
        PROVE  \E i \in 1 .. Len(R) :
                 R[i] = p[1] /\ \A m \in 1 .. Len(R) : R[m] = p[2] => i < m
    <3>1. PICK i \in 1 .. Len(r) :
            r[i] = p[1] /\ \A m \in 1 .. Len(r) : r[m] = p[2] => i < m
      BY DEF PassedIsAhead
    <3>2. i \in 1 .. Len(R) /\ R[i] = p[1]
      BY <2>1, <3>1
    <3>3. ASSUME NEW m \in 1 .. Len(R), R[m] = p[2]
          PROVE  i < m
      <4>1. CASE m \in 1 .. Len(r)
        BY <2>1, <3>1, <3>3, <4>1
      <4>2. CASE m = Len(r) + 1
        BY <2>1, <4>2
      <4> QED BY <2>1, <4>1, <4>2
    <3> QED BY <3>2, <3>3
  <2> QED BY <2>2 DEF PassedIsAhead, R
<1> QED BY <1>1, <1>2, MakeReadyFacts

LEMMA BusyIsCounted ==
  ASSUME Inv
  PROVE  /\ queuedTasks \in Nat
         /\ queuedTasks = 0 => Busy(state) = {}
         /\ \A t \in Task : \A v \in {"waiting", "running", "settled"} :
              state[t] = v => queuedTasks > 0
<1>1. IsFiniteSet(Busy(state)) /\ queuedTasks = Cardinality(Busy(state))
  BY DEF Inv, Counted
<1>2. queuedTasks \in Nat /\ (queuedTasks = 0 => Busy(state) = {})
  BY <1>1, FS_CardinalityType, FS_EmptySet
<1>3. \A t \in Task : \A v \in {"waiting", "running", "settled"} :
        state[t] = v => t \in Busy(state)
  BY DEF Busy, InLaneStates
<1> QED BY <1>2, <1>3

(* The arguments Enqueue and Finally call Pump with.                       *)
QueuedWith(t) == [queues EXCEPT ![KeyOf[t]] = Append(@, t)]
ReadyWith(t) == MakeReady(KeyOf[t], ready, active)
StateWith(t) == [state EXCEPT ![t] = "waiting"]

LanesWithout(t) == active \ {KeyOf[t]}
ReadyWithout(t) == Rewoken(KeyOf[t], LanesWithout(t))
StateWithout(t) == [state EXCEPT ![t] = "over"]

LEMMA QueuedWithFacts ==
  ASSUME NEW t \in Task, Shape(queues, ready, active, state)
  PROVE  LET k == KeyOf[t] q == QueuedWith(t)
         IN /\ k \in Key /\ q \in [Key -> Seq(Task)]
            /\ Len(queues[k]) \in Nat /\ Len(q[k]) = Len(queues[k]) + 1
            /\ \A i \in 1 .. Len(queues[k]) : q[k][i] = queues[k][i]
            /\ q[k][Len(queues[k]) + 1] = t
            /\ \A j \in Key \ {k} : q[j] = queues[j]
            /\ \A u \in Task :
                 StateWith(t)[u] = IF u = t THEN "waiting" ELSE state[u]
            /\ StateWith(t) \in [Task -> States]
<1> DEFINE k == KeyOf[t]
           q == QueuedWith(t)
<1>1. k \in Key /\ queues \in [Key -> Seq(Task)] /\ queues[k] \in Seq(Task)
  BY SchedulerAssumption DEF Shape
<1>2. /\ Append(queues[k], t) \in Seq(Task)
      /\ Len(Append(queues[k], t)) = Len(queues[k]) + 1
      /\ \A i \in 1 .. Len(queues[k]) : Append(queues[k], t)[i] = queues[k][i]
      /\ Append(queues[k], t)[Len(queues[k]) + 1] = t
  BY <1>1, AppendProperties
<1>3. /\ q \in [Key -> Seq(Task)] /\ q[k] = Append(queues[k], t)
      /\ \A j \in Key \ {k} : q[j] = queues[j]
  BY <1>1, <1>2 DEF QueuedWith
<1>4. Len(queues[k]) \in Nat
  BY <1>1, LenProperties
<1>5. /\ \A u \in Task :
           StateWith(t)[u] = IF u = t THEN "waiting" ELSE state[u]
      /\ StateWith(t) \in [Task -> States]
  BY DEF StateWith, Shape, States
<1> QED BY <1>1, <1>2, <1>3, <1>4, <1>5

LEMMA EnqueueBefore ==
  ASSUME Inv, NEW t \in Task, state[t] = "new"
  PROVE  LET q == QueuedWith(t) r == ReadyWith(t) s == StateWith(t)
         IN /\ Shape(q, r, active, s) /\ Rotates(q, r, active)
            /\ Holds(q, s) /\ Lanes(active, s) /\ OneLane(r, active)
<1> DEFINE k == KeyOf[t]
           q == QueuedWith(t)
           r == ReadyWith(t)
           s == StateWith(t)
           n == Len(queues[k])
<1>1. /\ Shape(queues, ready, active, state)
      /\ Rotates(queues, ready, active) /\ Holds(queues, state)
      /\ Lanes(active, state) /\ LanesFull(ready, active)
  BY DEF Inv
<1>2. /\ k \in Key /\ q \in [Key -> Seq(Task)]
      /\ n \in Nat /\ Len(q[k]) = n + 1
      /\ \A i \in 1 .. n : q[k][i] = queues[k][i]
      /\ q[k][n + 1] = t
      /\ \A j \in Key \ {k} : q[j] = queues[j]
  BY <1>1, QueuedWithFacts
<1>3. /\ \A u \in Task : s[u] = IF u = t THEN "waiting" ELSE state[u]
      /\ s \in [Task -> States]
  BY <1>1, QueuedWithFacts
<1>4. /\ ready \in Seq(Key) /\ Len(ready) \in Nat
      /\ active \in SUBSET Key /\ IsFiniteSet(active)
  BY <1>1, LenProperties DEF Shape
<1>5. \/ r = ready /\ (k \in active \/ \E i \in 1 .. Len(ready) : ready[i] = k)
      \/ Appended(r, k, ready, active)
  BY <1>2, <1>4, MakeReadyFacts DEF ReadyWith
<1> HIDE DEF q, r, s, n, k
<1>6. Shape(q, r, active, s)
  BY <1>2, <1>3, <1>4, <1>5 DEF Shape, Appended
<1>7. \A j \in Key : queues[j] # <<>> \/ j = k => q[j] # <<>>
  <2>1. q[k] # <<>>
    BY <1>2, EmptySeq
  <2> QED BY <1>2, <2>1
<1>8. Rotates(q, r, active)
  <2>1. CASE r = ready
    <3>1. k \in active \/ \E i \in 1 .. Len(ready) : ready[i] = k
      BY <1>5, <2>1 DEF Appended
    <3>2. \A i \in 1 .. Len(ready) : q[ready[i]] # <<>>
      BY <1>1, <1>4, <1>7, ElementOfSeq DEF Rotates
    <3>3. ASSUME NEW j \in Key, q[j] # <<>>
          PROVE  j \in active \/ \E i \in 1 .. Len(ready) : ready[i] = j
      BY <1>1, <1>2, <3>1, <3>3 DEF Rotates
    <3> QED BY <1>1, <2>1, <3>2, <3>3 DEF Rotates
  <2>2. CASE Appended(r, k, ready, active)
    <3>1. /\ Len(r) = Len(ready) + 1
          /\ \A i \in 1 .. Len(ready) : r[i] = ready[i] /\ ready[i] # k
          /\ r[Len(ready) + 1] = k /\ k \notin active
      BY <2>2 DEF Appended
    <3>2. \A i \in 1 .. Len(r) : i \in 1 .. Len(ready) \/ i = Len(ready) + 1
      BY <1>4, <3>1
    <3>3. \A i, j \in 1 .. Len(r) : r[i] = r[j] => i = j
      BY <1>1, <3>1, <3>2 DEF Rotates
    <3>4. ASSUME NEW i \in 1 .. Len(r)
          PROVE  r[i] \notin active /\ q[r[i]] # <<>>
      <4>1. CASE i \in 1 .. Len(ready)
        BY <1>1, <1>4, <1>7, <3>1, <4>1, ElementOfSeq DEF Rotates
      <4>2. CASE i = Len(ready) + 1
        BY <1>2, <1>7, <3>1, <4>2
      <4> QED BY <3>2, <4>1, <4>2
    <3>5. ASSUME NEW j \in Key, q[j] # <<>>
          PROVE  j \in active \/ \E i \in 1 .. Len(r) : r[i] = j
      <4>1. CASE j = k
        <5>1. Len(ready) + 1 \in 1 .. Len(r)
          BY <1>4, <3>1
        <5> QED BY <3>1, <4>1, <5>1
      <4>2. CASE j # k /\ j \notin active
        <5>1. PICK i \in 1 .. Len(ready) : ready[i] = j
          BY <1>1, <1>2, <3>5, <4>2 DEF Rotates
        <5>2. i \in 1 .. Len(r)
          BY <1>4, <3>1
        <5> QED BY <3>1, <5>1, <5>2
      <4> QED BY <4>1, <4>2
    <3> QED BY <3>3, <3>4, <3>5 DEF Rotates
  <2> QED BY <1>5, <2>1, <2>2
<1>9. Holds(q, s)
  <2>1. \A j \in Key : \A i \in 1 .. Len(queues[j]) :
          /\ queues[j][i] \in Task /\ queues[j][i] # t
          /\ KeyOf[queues[j][i]] = j /\ s[queues[j][i]] = "waiting"
    BY <1>1, <1>3, ElementOfSeq DEF Holds, Shape
  <2>2. \A i \in 1 .. Len(q[k]) : i \in 1 .. n \/ i = n + 1
    BY <1>2
  <2>3. n = Len(queues[k]) /\ KeyOf[t] = k
    BY DEF n, k
  <2>4. ASSUME NEW j \in Key, NEW i \in 1 .. Len(q[j])
        PROVE  KeyOf[q[j][i]] = j /\ s[q[j][i]] = "waiting"
    <3>1. CASE j # k
      BY <1>2, <2>1, <3>1
    <3>2. CASE j = k /\ i \in 1 .. n
      BY <1>2, <2>1, <2>3, <3>2
    <3>3. CASE j = k /\ i = n + 1
      BY <1>2, <1>3, <2>3, <3>3
    <3> QED BY <2>2, <3>1, <3>2, <3>3
  <2>5. ASSUME NEW j \in Key, NEW i \in 1 .. Len(q[j]),
               NEW m \in 1 .. Len(q[j]), q[j][i] = q[j][m]
        PROVE  i = m
    <3>1. CASE j # k
      BY <1>1, <1>2, <2>5, <3>1 DEF Holds
    <3>2. CASE j = k
      <4>1. CASE i \in 1 .. n /\ m \in 1 .. n
        BY <1>1, <1>2, <2>3, <2>5, <3>2, <4>1 DEF Holds
      <4>2. CASE i = n + 1 \/ m = n + 1
        BY <1>2, <2>1, <2>2, <2>3, <2>5, <3>2, <4>2
      <4> QED BY <2>2, <3>2, <4>1, <4>2
    <3> QED BY <3>1, <3>2
  <2>6. ASSUME NEW u \in Task, s[u] = "waiting"
        PROVE  \E i \in 1 .. Len(q[KeyOf[u]]) : q[KeyOf[u]][i] = u
    <3>1. CASE u = t
      <4>1. n + 1 \in 1 .. Len(q[k])
        BY <1>2
      <4> QED BY <1>2, <2>3, <3>1, <4>1
    <3>2. CASE u # t
      <4>1. state[u] = "waiting" /\ KeyOf[u] \in Key
        BY <1>3, <2>6, <3>2, SchedulerAssumption
      <4>2. PICK i \in 1 .. Len(queues[KeyOf[u]]) : queues[KeyOf[u]][i] = u
        BY <1>1, <4>1 DEF Holds
      <4>3. CASE KeyOf[u] = k
        <5>1. i \in 1 .. n /\ i \in 1 .. Len(q[k])
          BY <1>2, <2>3, <4>2, <4>3
        <5> QED BY <1>2, <4>2, <4>3, <5>1
      <4>4. CASE KeyOf[u] # k
        <5>1. q[KeyOf[u]] = queues[KeyOf[u]]
          BY <1>2, <4>1, <4>4
        <5> QED BY <4>2, <5>1
      <4> QED BY <4>3, <4>4
    <3> QED BY <3>1, <3>2
  <2> QED BY <2>4, <2>5, <2>6 DEF Holds
<1>10. Lanes(active, s)
  BY <1>1, <1>3 DEF Lanes, InLaneStates
<1>11. OneLane(r, active)
  <2>1. Cardinality(active) \in Nat /\ MaxActiveLanes \in Nat
    BY <1>4, FS_CardinalityType, SchedulerAssumption
  <2>2. ready = <<>> => Len(ready) = 0
    BY EmptySeq
  <2>3. Len(r) <= Len(ready) + 1
    BY <1>4, <1>5 DEF Appended
  <2>4. Len(r) \in Nat
    BY <1>6, LenProperties DEF Shape
  <2> QED BY <1>1, <1>4, <2>1, <2>2, <2>3, <2>4 DEF LanesFull, OneLane
<1> QED BY <1>6, <1>8, <1>9, <1>10, <1>11 DEF q, r, s

LEMMA EnqueueOrders ==
  ASSUME Inv, NEW t \in Task, state[t] = "new"
  PROVE  /\ Append(accepted, t) \in Seq(Task)
         /\ Ordered(Append(accepted, t), QueuedWith(t), StateWith(t))
<1> DEFINE k == KeyOf[t]
           q == QueuedWith(t)
           s == StateWith(t)
           n == Len(queues[k])
           acc == Append(accepted, t)
           l == Len(accepted)
<1>1. /\ Shape(queues, ready, active, state) /\ Holds(queues, state)
      /\ accepted \in Seq(Task) /\ Ordered(accepted, queues, state)
  BY DEF Inv
<1>2. /\ k \in Key /\ n \in Nat /\ Len(q[k]) = n + 1
      /\ \A i \in 1 .. n : q[k][i] = queues[k][i]
      /\ q[k][n + 1] = t
      /\ \A j \in Key \ {k} : q[j] = queues[j]
      /\ n = Len(queues[k]) /\ KeyOf[t] = k
  BY <1>1, QueuedWithFacts
<1>3. \A u \in Task : s[u] = IF u = t THEN "waiting" ELSE state[u]
  BY <1>1, QueuedWithFacts
<1>4. /\ acc \in Seq(Task) /\ l \in Nat /\ Len(acc) = l + 1
      /\ \A i \in 1 .. l : acc[i] = accepted[i] /\ acc[i] \in Task
      /\ acc[l + 1] = t
  BY <1>1, AppendProperties, LenProperties, ElementOfSeq
<1>5. l = Len(accepted)
  OBVIOUS
<1> HIDE DEF q, s, n, k, acc, l
<1>6. \A i \in 1 .. Len(acc) : i \in 1 .. l \/ i = l + 1
  BY <1>4
<1>7. \A i \in 1 .. l : acc[i] # t
  BY <1>1, <1>4, <1>5 DEF Ordered
<1>8. \A u \in Task : s[u] # "new" <=> \E i \in 1 .. Len(acc) : acc[i] = u
  <2> SUFFICES ASSUME NEW u \in Task
               PROVE  s[u] # "new" <=> \E i \in 1 .. Len(acc) : acc[i] = u
    OBVIOUS
  <2>1. CASE u = t
    <3>1. l + 1 \in 1 .. Len(acc)
      BY <1>4
    <3> QED BY <1>3, <1>4, <2>1, <3>1
  <2>2. CASE u # t
    <3>1. s[u] # "new" <=> \E i \in 1 .. l : accepted[i] = u
      BY <1>1, <1>3, <1>5, <2>2 DEF Ordered
    <3>2. \A i \in 1 .. l : i \in 1 .. Len(acc)
      BY <1>4
    <3> QED BY <1>4, <1>6, <2>2, <3>1, <3>2
  <2> QED BY <2>1, <2>2
<1>9. \A i, j \in 1 .. Len(acc) : acc[i] = acc[j] => i = j
  BY <1>1, <1>4, <1>5, <1>6, <1>7 DEF Ordered
<1>10. ASSUME NEW i \in 1 .. Len(acc), NEW j \in 1 .. Len(acc),
              i < j, KeyOf[acc[i]] = KeyOf[acc[j]], s[acc[j]] # "waiting"
       PROVE  s[acc[i]] = "over"
  <2>1. j \in 1 .. l /\ i \in 1 .. l
    <3>1. j # l + 1
      BY <1>1, <1>3, <1>4, <1>10
    <3> QED BY <1>4, <1>6, <1>10, <3>1
  <2>2. state[accepted[i]] = "over"
    BY <1>1, <1>3, <1>4, <1>5, <1>7, <1>10, <2>1 DEF Ordered
  <2> QED BY <1>3, <1>4, <1>7, <2>1, <2>2
<1>11. ASSUME NEW j \in Key, NEW m \in 1 .. Len(q[j]),
              NEW x \in 1 .. Len(q[j]),
              NEW i \in 1 .. Len(acc), NEW y \in 1 .. Len(acc),
              acc[i] = q[j][m], acc[y] = q[j][x], m < x
       PROVE  i < y
  <2>1. \A c \in Key : \A z \in 1 .. Len(queues[c]) : queues[c][z] # t
    BY <1>1 DEF Holds
  <2>2. CASE j = k /\ x = n + 1
    <3>1. y = l + 1 /\ m \in 1 .. n
      <4>1. acc[y] = t
        BY <1>2, <1>11, <2>2
      <4>2. y = l + 1
        BY <1>6, <1>7, <4>1
      <4>3. m \in 1 .. n
        BY <1>2, <1>11, <2>2
      <4> QED BY <4>2, <4>3
    <3>2. i # l + 1
      BY <1>2, <1>4, <1>11, <2>1, <2>2, <3>1
    <3> QED BY <1>4, <1>6, <3>1, <3>2
  <2>3. CASE ~(j = k /\ x = n + 1)
    <3>1. /\ m \in 1 .. Len(queues[j]) /\ x \in 1 .. Len(queues[j])
          /\ q[j][m] = queues[j][m] /\ q[j][x] = queues[j][x]
      <4>1. CASE j # k
        BY <1>2, <4>1
      <4>2. CASE j = k /\ x # n + 1
        <5>1. m \in 1 .. n /\ x \in 1 .. n
          BY <1>2, <1>11, <4>2
        <5> QED BY <1>2, <4>2, <5>1
      <4> QED BY <2>3, <4>1, <4>2
    <3>2. i \in 1 .. l /\ y \in 1 .. l
      BY <1>4, <1>6, <1>11, <2>1, <3>1
    <3> QED BY <1>1, <1>4, <1>5, <1>11, <3>1, <3>2 DEF Ordered
  <2> QED BY <2>2, <2>3
<1>12. Ordered(acc, q, s)
  BY <1>8, <1>9, <1>10, <1>11 DEF Ordered
<1> QED BY <1>4, <1>12 DEF acc, q, s

LEMMA FinallyBefore ==
  ASSUME Inv, NEW t \in Task, state[t] = "settled"
  PROVE  LET r == ReadyWithout(t) a == LanesWithout(t) s == StateWithout(t)
         IN /\ Shape(queues, r, a, s) /\ Rotates(queues, r, a)
            /\ Holds(queues, s) /\ Lanes(a, s) /\ OneLane(r, a)
<1> DEFINE k == KeyOf[t]
           r == ReadyWithout(t)
           a == LanesWithout(t)
           s == StateWithout(t)
<1>1. /\ Shape(queues, ready, active, state)
      /\ Rotates(queues, ready, active) /\ Holds(queues, state)
      /\ Lanes(active, state) /\ LanesFull(ready, active)
  BY DEF Inv
<1>2. k \in Key /\ k \in active /\ a = active \ {k} /\ k = KeyOf[t]
  BY <1>1, SchedulerAssumption DEF Lanes, InLaneStates, LanesWithout
<1>3. /\ \A u \in Task : s[u] = IF u = t THEN "over" ELSE state[u]
      /\ s \in [Task -> States]
  BY <1>1 DEF Shape, States, StateWithout
<1>4. /\ ready \in Seq(Key) /\ Len(ready) \in Nat
      /\ queues \in [Key -> Seq(Task)]
      /\ active \in SUBSET Key /\ IsFiniteSet(active)
  BY <1>1, LenProperties DEF Shape
<1>5. \A i \in 1 .. Len(ready) : ready[i] \notin active /\ ready[i] # k
  BY <1>1, <1>2 DEF Rotates
<1>6. \/ r = ready /\ queues[k] = <<>>
      \/ Appended(r, k, ready, a) /\ queues[k] # <<>>
  <2>1. CASE queues[k] = <<>>
    BY <2>1 DEF ReadyWithout, Rewoken
  <2>2. CASE queues[k] # <<>>
    <3>1. r = MakeReady(k, ready, a)
      BY <2>2 DEF ReadyWithout, Rewoken
    <3>2. k \notin a /\ \A i \in 1 .. Len(ready) : ready[i] # k
      BY <1>2, <1>5
    <3> QED BY <1>2, <1>4, <2>2, <3>1, <3>2, MakeReadyFacts
  <2> QED BY <2>1, <2>2
<1> HIDE DEF r, a, s, k
<1>7. /\ IsFiniteSet(a) /\ a \in SUBSET Key
      /\ Cardinality(active) \in Nat
      /\ Cardinality(a) = Cardinality(active) - 1
  BY <1>2, <1>4, FS_RemoveElement, FS_CardinalityType
<1>8. Shape(queues, r, a, s)
  BY <1>3, <1>4, <1>6, <1>7 DEF Shape, Appended
<1>9. Rotates(queues, r, a)
  <2>1. CASE r = ready /\ queues[k] = <<>>
    BY <1>1, <1>2, <2>1 DEF Rotates
  <2>2. CASE Appended(r, k, ready, a) /\ queues[k] # <<>>
    <3>1. /\ Len(r) = Len(ready) + 1
          /\ \A i \in 1 .. Len(ready) : r[i] = ready[i] /\ ready[i] # k
          /\ r[Len(ready) + 1] = k /\ k \notin a
      BY <2>2 DEF Appended
    <3>2. \A i \in 1 .. Len(r) : i \in 1 .. Len(ready) \/ i = Len(ready) + 1
      BY <1>4, <3>1
    <3>3. \A i, j \in 1 .. Len(r) : r[i] = r[j] => i = j
      BY <1>1, <3>1, <3>2 DEF Rotates
    <3>4. ASSUME NEW i \in 1 .. Len(r)
          PROVE  r[i] \notin a /\ queues[r[i]] # <<>>
      BY <1>1, <1>2, <2>2, <3>1, <3>2 DEF Rotates
    <3>5. ASSUME NEW j \in Key, queues[j] # <<>>
          PROVE  j \in a \/ \E i \in 1 .. Len(r) : r[i] = j
      <4>1. CASE j = k
        <5>1. Len(ready) + 1 \in 1 .. Len(r)
          BY <1>4, <3>1
        <5> QED BY <3>1, <4>1, <5>1
      <4>2. CASE j # k /\ j \notin a
        <5>1. PICK i \in 1 .. Len(ready) : ready[i] = j
          BY <1>1, <1>2, <3>5, <4>2 DEF Rotates
        <5>2. i \in 1 .. Len(r)
          BY <1>4, <3>1
        <5> QED BY <3>1, <5>1, <5>2
      <4> QED BY <4>1, <4>2
    <3> QED BY <3>3, <3>4, <3>5 DEF Rotates
  <2> QED BY <1>6, <2>1, <2>2
<1>10. Holds(queues, s)
  <2>1. \A j \in Key : \A i \in 1 .. Len(queues[j]) :
          queues[j][i] \in Task /\ queues[j][i] # t
    BY <1>1, ElementOfSeq DEF Holds, Shape
  <2> QED BY <1>1, <1>3, <2>1 DEF Holds
<1>11. Lanes(a, s)
  BY <1>1, <1>2, <1>3 DEF Lanes, InLaneStates
<1>12. OneLane(r, a)
  <2>1. MaxActiveLanes \in Nat
    BY SchedulerAssumption
  <2>2. ready = <<>> => Len(ready) = 0
    BY EmptySeq
  <2>3. Len(r) <= Len(ready) + 1
    BY <1>4, <1>6 DEF Appended
  <2>4. Len(r) \in Nat
    BY <1>8, LenProperties DEF Shape
  <2> QED BY <1>1, <1>4, <1>7, <2>1, <2>2, <2>3, <2>4 DEF LanesFull, OneLane
<1> QED BY <1>8, <1>9, <1>10, <1>11, <1>12 DEF r, a, s

LEMMA FinallyOrders ==
  ASSUME Inv, NEW t \in Task, state[t] = "settled"
  PROVE  /\ accepted \in Seq(Task)
         /\ Ordered(accepted, queues, StateWithout(t))
<1> DEFINE s == StateWithout(t)
<1>1. /\ accepted \in Seq(Task) /\ Ordered(accepted, queues, state)
      /\ state \in [Task -> States]
  BY DEF Inv, Shape
<1>2. \A u \in Task : s[u] = IF u = t THEN "over" ELSE state[u]
  BY <1>1 DEF StateWithout
<1>3. \A i \in 1 .. Len(accepted) : accepted[i] \in Task
  BY <1>1, ElementOfSeq
<1> HIDE DEF s
<1>4. \A u \in Task :
        s[u] # "new" <=> \E i \in 1 .. Len(accepted) : accepted[i] = u
  BY <1>1, <1>2 DEF Ordered
<1>5. \A i, j \in 1 .. Len(accepted) :
        /\ i < j /\ KeyOf[accepted[i]] = KeyOf[accepted[j]]
        /\ s[accepted[j]] # "waiting"
        => s[accepted[i]] = "over"
  BY <1>1, <1>2, <1>3 DEF Ordered
<1> QED BY <1>1, <1>4, <1>5 DEF Ordered, s

LEMMA EnqueueCounts ==
  ASSUME Inv, NEW t \in Task, state[t] = "new"
  PROVE  Counted(queuedTasks + 1, StateWith(t))
<1>1. /\ IsFiniteSet(Busy(state)) /\ queuedTasks = Cardinality(Busy(state))
      /\ state \in [Task -> States]
  BY DEF Inv, Counted, Shape
<1>2. Busy(StateWith(t)) = Busy(state) \cup {t} /\ t \notin Busy(state)
  BY <1>1 DEF Busy, StateWith, InLaneStates
<1> QED BY <1>1, <1>2, FS_AddElement DEF Counted

LEMMA FinallyCounts ==
  ASSUME Inv, NEW t \in Task, state[t] = "settled"
  PROVE  Counted(queuedTasks - 1, StateWithout(t))
<1>1. /\ IsFiniteSet(Busy(state)) /\ queuedTasks = Cardinality(Busy(state))
      /\ state \in [Task -> States]
  BY DEF Inv, Counted, Shape
<1>2. Busy(StateWithout(t)) = Busy(state) \ {t} /\ t \in Busy(state)
  BY <1>1 DEF Busy, StateWithout, InLaneStates
<1> QED BY <1>1, <1>2, FS_RemoveElement DEF Counted

---------------------------------------------------------------------------
(* The invariant is inductive.                                             *)

LEMMA InitInv == Init => Inv
<1> SUFFICES ASSUME Init PROVE Inv
  OBVIOUS
<1>1. Shape(queues, ready, active, state)
  BY EmptySeq, FS_EmptySet DEF Init, Shape, States
<1>2. Len(<<>>) = 0 /\ <<>> \in Seq(Task)
  BY EmptySeq
<1>3. /\ Rotates(queues, ready, active) /\ Holds(queues, state)
      /\ Lanes(active, state) /\ Ordered(accepted, queues, state)
      /\ PassedIsAhead(ready, passed)
  BY <1>2 DEF Init, Rotates, Holds, Lanes, Ordered, PassedIsAhead, InLaneStates
<1>4. LanesFull(ready, active)
  BY FS_EmptySet, SchedulerAssumption DEF Init, LanesFull
<1>5. Counted(queuedTasks, state)
  <2>1. Busy(state) = {}
    BY DEF Init, Busy, InLaneStates
  <2> QED BY <2>1, FS_EmptySet DEF Init, Counted
<1>6. queuedTasks <= MaxQueuedTasks
  BY SchedulerAssumption DEF Init
<1> QED BY <1>1, <1>2, <1>3, <1>4, <1>5, <1>6 DEF Init, Inv, Drains

LEMMA EnqueueInv ==
  ASSUME Inv, NEW t \in Task, Enqueue(t)
  PROVE  Inv'
<1> DEFINE q == QueuedWith(t)
           r == ReadyWith(t)
           s == StateWith(t)
<1>1. /\ state[t] = "new" /\ ~closing /\ queuedTasks < MaxQueuedTasks
      /\ accepted' = Append(accepted, t) /\ queuedTasks' = queuedTasks + 1
      /\ Pump(q, r, active, s) /\ UNCHANGED <<closing, drain>>
  BY DEF Enqueue, Admits, QueuedWith, ReadyWith, StateWith
<1>2. /\ Shape(q, r, active, s) /\ Rotates(q, r, active) /\ Holds(q, s)
      /\ Lanes(active, s) /\ OneLane(r, active)
  BY <1>1, EnqueueBefore
<1>3. accepted' \in Seq(Task) /\ Ordered(accepted', q, s)
  BY <1>1, EnqueueOrders
<1>4. PassedIsAhead(r, passed)
  BY PassedStays, SchedulerAssumption DEF Inv, Shape, ReadyWith
<1>5. Counted(queuedTasks', s)
  BY <1>1, EnqueueCounts
<1> HIDE DEF q, r, s
<1>6. /\ Shape(queues', ready', active', state')
      /\ Rotates(queues', ready', active') /\ Holds(queues', state')
      /\ Lanes(active', state') /\ LanesFull(ready', active')
  BY <1>1, <1>2, PumpKeeps
<1>7. Ordered(accepted', queues', state')
  BY <1>1, <1>2, <1>3, PumpOrders
<1>8. PassedIsAhead(ready', passed')
  BY <1>1, <1>2, <1>4, PumpPasses
<1>9. Counted(queuedTasks', state')
  BY <1>1, <1>2, <1>5, PumpCounts DEF Counted
<1>10. queuedTasks' <= MaxQueuedTasks
  BY <1>1, BusyIsCounted, SchedulerAssumption
<1>11. Drains(queuedTasks', drain', closing')
  BY <1>1 DEF Inv, Drains
<1> QED BY <1>3, <1>6, <1>7, <1>8, <1>9, <1>10, <1>11 DEF Inv

LEMMA FinallyInv ==
  ASSUME Inv, NEW t \in Task, Finally(t)
  PROVE  Inv'
<1> DEFINE a == LanesWithout(t)
           r == ReadyWithout(t)
           s == StateWithout(t)
<1>1. /\ state[t] = "settled" /\ queuedTasks' = queuedTasks - 1
      /\ Pump(queues, r, a, s) /\ drain' = AfterFinally
      /\ UNCHANGED <<closing, accepted>>
  BY DEF Finally, CounterAfter, ReadyWithout, LanesWithout, StateWithout
<1>2. /\ Shape(queues, r, a, s) /\ Rotates(queues, r, a) /\ Holds(queues, s)
      /\ Lanes(a, s) /\ OneLane(r, a)
  BY <1>1, FinallyBefore
<1>3. accepted \in Seq(Task) /\ Ordered(accepted, queues, s)
  BY <1>1, FinallyOrders
<1>4. PassedIsAhead(r, passed)
  BY PassedStays, SchedulerAssumption DEF Inv, Shape, ReadyWithout, Rewoken
<1>5. Counted(queuedTasks', s)
  BY <1>1, FinallyCounts
<1> HIDE DEF a, r, s
<1>6. /\ Shape(queues', ready', active', state')
      /\ Rotates(queues', ready', active') /\ Holds(queues', state')
      /\ Lanes(active', state') /\ LanesFull(ready', active')
  BY <1>1, <1>2, PumpKeeps
<1>7. Ordered(accepted', queues', state')
  BY <1>1, <1>2, <1>3, PumpOrders
<1>8. PassedIsAhead(ready', passed')
  BY <1>1, <1>2, <1>4, PumpPasses
<1>9. Counted(queuedTasks', state')
  BY <1>1, <1>2, <1>5, PumpCounts DEF Counted
<1>10. queuedTasks \in Nat /\ queuedTasks > 0
  BY <1>1, BusyIsCounted
<1>11. queuedTasks' <= MaxQueuedTasks
  BY <1>1, <1>10, SchedulerAssumption DEF Inv
<1>12. Drains(queuedTasks', drain', closing')
  BY <1>1, <1>10 DEF Inv, Drains, AfterFinally
<1> QED BY <1>1, <1>3, <1>6, <1>7, <1>8, <1>9, <1>11, <1>12 DEF Inv

LEMMA SettleInv ==
  ASSUME Inv, NEW t \in Task, Settle(t)
  PROVE  Inv'
<1>1. /\ state[t] = "running" /\ state' = [state EXCEPT ![t] = "settled"]
      /\ UNCHANGED <<queues, ready, active, queuedTasks, closing, drain,
                     accepted, passed>>
  BY DEF Settle
<1>2. /\ Shape(queues, ready, active, state) /\ Holds(queues, state)
      /\ Rotates(queues, ready, active) /\ LanesFull(ready, active)
      /\ Lanes(active, state) /\ Ordered(accepted, queues, state)
      /\ Counted(queuedTasks, state) /\ accepted \in Seq(Task)
      /\ PassedIsAhead(ready, passed) /\ queuedTasks <= MaxQueuedTasks
      /\ Drains(queuedTasks, drain, closing)
  BY DEF Inv
<1>3. /\ \A u \in Task : state'[u] = IF u = t THEN "settled" ELSE state[u]
      /\ state' \in [Task -> States]
  BY <1>1, <1>2 DEF Shape, States
<1>4. Shape(queues, ready, active, state')
  BY <1>2, <1>3 DEF Shape
<1>5. Holds(queues, state')
  <2>1. \A k \in Key : \A i \in 1 .. Len(queues[k]) : queues[k][i] \in Task
    BY <1>2, ElementOfSeq DEF Shape
  <2>2. \A k \in Key : \A i \in 1 .. Len(queues[k]) :
          state'[queues[k][i]] = "waiting"
    BY <1>1, <1>2, <1>3, <2>1 DEF Holds
  <2> QED BY <1>1, <1>2, <1>3, <2>2 DEF Holds
<1>6. Lanes(active, state')
  BY <1>1, <1>2, <1>3 DEF Lanes, InLaneStates
<1>7. Ordered(accepted, queues, state')
  <2>1. \A i \in 1 .. Len(accepted) : accepted[i] \in Task
    BY <1>2, ElementOfSeq
  <2>2. \A u \in Task :
          state'[u] # "new" <=> \E i \in 1 .. Len(accepted) : accepted[i] = u
    BY <1>1, <1>2, <1>3 DEF Ordered
  <2>3. \A i, j \in 1 .. Len(accepted) :
          /\ i < j /\ KeyOf[accepted[i]] = KeyOf[accepted[j]]
          /\ state'[accepted[j]] # "waiting"
          => state'[accepted[i]] = "over"
    BY <1>1, <1>2, <1>3, <2>1 DEF Ordered
  <2> QED BY <1>2, <2>2, <2>3 DEF Ordered
<1>8. Counted(queuedTasks, state')
  <2>1. Busy(state') = Busy(state)
    BY <1>1, <1>3 DEF Busy, InLaneStates
  <2> QED BY <1>2, <2>1 DEF Counted
<1> QED BY <1>1, <1>2, <1>4, <1>5, <1>6, <1>7, <1>8 DEF Inv

LEMMA CloseInv ==
  ASSUME Inv, CloseAndDrain
  PROVE  Inv'
BY DEF Inv, CloseAndDrain, Drains, Idle

LEMMA NextInv == Inv /\ [Next]_vars => Inv'
<1> SUFFICES ASSUME Inv, [Next]_vars PROVE Inv'
  OBVIOUS
<1>1. ASSUME NEW t \in Task, Enqueue(t) \/ Settle(t) \/ Finally(t)
      PROVE  Inv'
  BY <1>1, EnqueueInv, SettleInv, FinallyInv
<1>2. CASE UNCHANGED vars
  BY <1>2 DEF vars, Inv
<1> QED BY <1>1, <1>2, CloseInv DEF Next

---------------------------------------------------------------------------
(* The inductive invariant holds in every reachable state.                 *)
THEOREM SchedulerInvariant == Spec => []Inv
<1> QED BY InitInv, NextInv, PTL DEF Spec

(* A chat with work has a lane or waits for one, and waits only while all  *)
(* lanes are taken: for any number of chats, calls and lanes, no           *)
(* interleaving of enqueue, settled promises, finally handlers and close   *)
(* leaves a queue that nobody will look at again.                          *)
THEOREM WakeupsAreKept == Spec => []NoLostWakeup
<1>1. Inv => NoLostWakeup
  <2> SUFFICES ASSUME Inv PROVE NoLostWakeup
    OBVIOUS
  <2>1. ASSUME NEW t \in Task, Waiting(t)
        PROVE  KeyOf[t] \in active \cup Elements(ready)
    <3>1. state[t] = "waiting" /\ KeyOf[t] \in Key
      BY <2>1, SchedulerAssumption DEF Waiting
    <3>2. PICK i \in 1 .. Len(queues[KeyOf[t]]) : queues[KeyOf[t]][i] = t
      BY <3>1 DEF Inv, Holds
    <3>3. queues[KeyOf[t]] # <<>>
      <4>1. Len(<<>>) = 0
        BY EmptySeq
      <4> QED BY <3>2, <4>1
    <3>4. Elements(ready) = {ready[j] : j \in 1 .. Len(ready)}
      BY ElementsOf DEF Inv, Shape
    <3> QED BY <3>1, <3>3, <3>4 DEF Inv, Rotates
  <2> QED BY <2>1 DEF NoLostWakeup, Inv, LanesFull
<1> QED BY <1>1, SchedulerInvariant, PTL

(* The counter that enqueue compares with the limit is exactly the number  *)
(* of tasks accepted and not over, and never passes the limit: no          *)
(* interleaving leaks a place in the queue or gives one back twice.        *)
THEOREM CounterNeverDrifts == Spec => []CounterIsExact
<1>1. Inv => CounterIsExact
  <2> SUFFICES ASSUME Inv PROVE CounterIsExact
    OBVIOUS
  <2>1. Busy(state) = {t \in Task : Waiting(t) \/ InLane(t)}
    BY DEF Busy, Waiting, InLane, InLaneStates
  <2> QED BY <2>1 DEF Inv, Counted, CounterIsExact
<1> QED BY <1>1, SchedulerInvariant, PTL

(* After closeAndDrain has returned no task starts, settles or is counted  *)
(* any more: the caller may release what the handlers use.                 *)
THEOREM NothingRunsAfterDrain == Spec => DrainedIsQuiet
<1> DEFINE Quiet ==
             drain = "returned" => UNCHANGED <<state, active, queuedTasks>>
<1>1. Inv /\ [Next]_vars => Quiet
  <2> SUFFICES ASSUME Inv, [Next]_vars, drain = "returned"
               PROVE  UNCHANGED <<state, active, queuedTasks>>
    OBVIOUS
  <2>1. closing /\ queuedTasks = 0
    BY DEF Inv, Drains
  <2>2. ASSUME NEW t \in Task
        PROVE  state[t] \notin {"waiting", "running", "settled"}
    BY <2>1, BusyIsCounted DEF Busy, InLaneStates
  <2>3. CASE \E t \in Task : Enqueue(t)
    BY <2>1, <2>3 DEF Enqueue, Admits
  <2>4. CASE \E t \in Task : Settle(t) \/ Finally(t)
    BY <2>2, <2>4 DEF Settle, Finally
  <2>5. CASE CloseAndDrain \/ UNCHANGED vars
    BY <2>1, <2>5 DEF CloseAndDrain, vars
  <2> QED BY <2>3, <2>4, <2>5 DEF Next
<1> QED BY <1>1, SchedulerInvariant, PTL DEF Spec, DrainedIsQuiet

(* The tasks of a chat start in the order enqueue accepted them, each only *)
(* when the one before it is over.                                         *)
THEOREM AcceptedOrderIsKept == Spec => StartsInOrder
<1> DEFINE InOrder ==
             \A i, j \in DOMAIN accepted :
               /\ i < j /\ KeyOf[accepted[i]] = KeyOf[accepted[j]]
               /\ state[accepted[j]] = "waiting"
                  /\ state'[accepted[j]] = "running"
               => state'[accepted[i]] = "over"
<1>1. Inv /\ Inv' /\ [Next]_vars => InOrder
  <2> SUFFICES ASSUME Inv, Inv', [Next]_vars,
                      NEW i \in DOMAIN accepted, NEW j \in DOMAIN accepted,
                      i < j, KeyOf[accepted[i]] = KeyOf[accepted[j]],
                      state'[accepted[j]] = "running"
               PROVE  state'[accepted[i]] = "over"
    OBVIOUS
  <2>1. /\ accepted \in Seq(Task) /\ Len(accepted) \in Nat
        /\ DOMAIN accepted = 1 .. Len(accepted)
    BY LenProperties DEF Inv
  <2>2. accepted' = accepted \/ \E t \in Task : accepted' = Append(accepted, t)
    BY DEF Next, Enqueue, Settle, Finally, CloseAndDrain, vars
  <2>3. /\ i \in 1 .. Len(accepted') /\ j \in 1 .. Len(accepted')
        /\ accepted'[i] = accepted[i] /\ accepted'[j] = accepted[j]
    <3>1. CASE accepted' = accepted
      BY <2>1, <3>1
    <3>2. ASSUME NEW t \in Task, accepted' = Append(accepted, t)
          PROVE  /\ i \in 1 .. Len(accepted') /\ j \in 1 .. Len(accepted')
                 /\ accepted'[i] = accepted[i] /\ accepted'[j] = accepted[j]
      BY <2>1, <3>2, AppendProperties
    <3> QED BY <2>2, <3>1, <3>2
  <2>4. Ordered(accepted', queues', state')
    BY DEF Inv
  <2> QED BY <2>3, <2>4 DEF Ordered
<1> QED BY <1>1, SchedulerInvariant, PTL DEF Spec, StartsInOrder

(* While a chat waits for a lane, every other chat starts at most once     *)
(* before it: a busy chat cannot keep the others out.                      *)
THEOREM RotationIsFair == Spec => NoKeyPassesTwice
<1> DEFINE OnePass ==
             \A k \in Elements(ready), t \in Task :
               /\ Waiting(t) /\ state'[t] = "running"
               /\ <<k, KeyOf[t]>> \in passed
               => k \notin Elements(ready')
<1>1. ASSUME Inv, NEW k \in Elements(ready), NEW t \in Task,
             <<k, KeyOf[t]>> \in passed
      PROVE  ready[1] # KeyOf[t] /\ ready # <<>>
  <2>1. PICK i \in 1 .. Len(ready) :
          \A m \in 1 .. Len(ready) : ready[m] = KeyOf[t] => i < m
    BY <1>1 DEF Inv, PassedIsAhead
  <2>2. Len(ready) \in Nat /\ Len(<<>>) = 0
    BY LenProperties, EmptySeq DEF Inv, Shape
  <2> QED BY <2>1, <2>2
<1>2. ASSUME NEW q, NEW r, NEW a, NEW s, NEW t \in Task,
             Shape(q, r, a, s), Rotates(q, r, a), Holds(q, s), Lanes(a, s),
             OneLane(r, a), Pump(q, r, a, s),
             s[t] # "running", state'[t] = "running"
      PROVE  r[1] = KeyOf[t]
  <2>1. PICK h \in Key, u \in Task : Starts(q, r, a, s, h, u)
    BY <1>2, PumpStartsAtMostOne DEF Rests
  <2>2. StartEffect(q, r, a, s, h, u)
    BY <1>2, <2>1, StartFacts
  <2> QED BY <1>2, <2>2 DEF StartEffect
<1>3. ASSUME NEW k \in Key, NEW a, Inv, ready # <<>>
      PROVE  MakeReady(k, ready, a)[1] = ready[1]
  <2>1. ready \in Seq(Key) /\ Len(ready) \in Nat /\ 1 \in 1 .. Len(ready)
    BY <1>3, EmptySeq, LenProperties DEF Inv, Shape
  <2> QED BY <2>1, MakeReadyFacts DEF Appended
<1>4. ASSUME Inv, NEW t \in Task, Waiting(t), state'[t] = "running",
             NEW u \in Task, Enqueue(u), ready # <<>>
      PROVE  ready[1] = KeyOf[t]
  <2>1. /\ state[u] = "new"
        /\ Pump(QueuedWith(u), ReadyWith(u), active, StateWith(u))
    BY <1>4 DEF Enqueue, QueuedWith, ReadyWith, StateWith
  <2>2. StateWith(u)[t] # "running"
    BY <1>4 DEF StateWith, Waiting, Inv, Shape
  <2>3. ReadyWith(u)[1] = KeyOf[t]
    BY <1>2, <1>4, <2>1, <2>2, EnqueueBefore
  <2> QED BY <1>3, <1>4, <2>3, SchedulerAssumption DEF ReadyWith
<1>5. ASSUME Inv, NEW t \in Task, Waiting(t), state'[t] = "running",
             NEW u \in Task, Finally(u), ready # <<>>
      PROVE  ready[1] = KeyOf[t]
  <2>1. /\ state[u] = "settled"
        /\ Pump(queues, ReadyWithout(u), LanesWithout(u), StateWithout(u))
    BY <1>5 DEF Finally, ReadyWithout, LanesWithout, StateWithout
  <2>2. StateWithout(u)[t] # "running"
    BY <1>5 DEF StateWithout, Waiting, Inv, Shape
  <2>3. ReadyWithout(u)[1] = KeyOf[t]
    BY <1>2, <1>5, <2>1, <2>2, FinallyBefore
  <2> QED BY <1>3, <1>5, <2>3, SchedulerAssumption DEF ReadyWithout, Rewoken
<1>6. Inv /\ [Next]_vars => OnePass
  <2> SUFFICES ASSUME Inv, [Next]_vars, NEW k \in Elements(ready),
                      NEW t \in Task, Waiting(t), state'[t] = "running",
                      <<k, KeyOf[t]>> \in passed
               PROVE  FALSE
    OBVIOUS
  <2>1. ready[1] # KeyOf[t] /\ ready # <<>>
    BY <1>1
  <2>2. ASSUME NEW u \in Task
        PROVE  ~Enqueue(u) /\ ~Finally(u)
    BY <1>4, <1>5, <2>1
  <2>3. ASSUME NEW u \in Task
        PROVE  ~Settle(u)
    BY DEF Settle, Waiting, Inv, Shape
  <2> QED BY <2>2, <2>3 DEF Next, CloseAndDrain, Waiting, vars
<1> QED BY <1>6, SchedulerInvariant, PTL DEF Spec, NoKeyPassesTwice
=============================================================================
