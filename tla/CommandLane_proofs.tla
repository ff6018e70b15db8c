------------------------ MODULE CommandLane_proofs -------------------------
(***************************************************************************)
(* What the lane guarantees for any number of operations and any timers.   *)
(***************************************************************************)
EXTENDS CommandLane, WellFoundedInduction, TLAPS

AllDoneBefore(o) == \A p \in Op : Before(p, o) => Done(p)

(* The chain is contiguous: an operation that still waits points at the    *)
(* stored operation just before it, and only the first has no predecessor. *)
Linked(o) ==
  IF pred[o] = None
  THEN \A p \in Op : ~Before(p, o)
  ELSE /\ Before(pred[o], o)
       /\ succ[pred[o]] = o
       /\ \A p \in Op : Before(p, o) => seq[p] <= seq[pred[o]]

(* Sequence numbers are distinct, and the tail holds the largest one.      *)
Numbered ==
  /\ \A o \in live : seq[o] \in 1 .. sequence
  /\ \A o, p \in live : seq[o] = seq[p] => o = p
  /\ IF tail = None THEN live = {} ELSE tail \in live /\ seq[tail] = sequence

(* EntityOrder alone is not inductive: it rests on what "satisfied" and    *)
(* "cleared" promise, and those on the chain being contiguous.             *)
LaneInv ==
  /\ TypeOK
  /\ Numbered
  /\ \A o \in live : IF o \in satisfied THEN AllDoneBefore(o) ELSE Linked(o)
  /\ \A o \in live \cap cleared : AllDoneBefore(o)
  /\ everActive \subseteq cleared /\ cleared \subseteq known
  /\ active \subseteq everActive
  /\ \A o \in Op : o \notin known =>
       terminal[o] = "none" /\ o \notin satisfied
  /\ OutcomeHasExecution

---------------------------------------------------------------------------
LEMMA TypeStep ==
  ASSUME TypeOK, [Next]_vars
  PROVE  TypeOK'
<1> USE LaneAssumption DEF TypeOK
<1>1. ASSUME NEW o \in Op, Allocate(o) PROVE TypeOK'
  BY <1>1 DEF Allocate, chain, run, Droppable
<1>2. ASSUME NEW o \in Op, PassUnchecked(o) PROVE TypeOK'
  BY <1>2 DEF PassUnchecked, chain, run, verdict
<1>3. ASSUME NEW o \in Op, PassTerminal(o) PROVE TypeOK'
  BY <1>3 DEF PassTerminal, chain, run, verdict
<1>4. ASSUME NEW o \in Op, PassExpiring(o) PROVE TypeOK'
  BY <1>4 DEF PassExpiring, chain, run, TerminalState
<1>5. ASSUME NEW o \in Op, MarkActive(o) PROVE TypeOK'
  BY <1>5 DEF MarkActive, chain, verdict
<1>6. ASSUME NEW o \in Op, RenewActive(o) PROVE TypeOK'
  BY <1>6 DEF RenewActive, chain, verdict
<1>7. ASSUME NEW o \in Op, ReleaseActive(o) PROVE TypeOK'
  BY <1>7 DEF ReleaseActive, ClearActive, chain, verdict
<1>8. ASSUME NEW o \in Op, RecordTechnicalRetry(o) PROVE TypeOK'
  BY <1>8 DEF RecordTechnicalRetry, chain, run, verdict
<1>9. ASSUME NEW o \in Op, NEW t \in TerminalState, MarkTerminal(o, t)
      PROVE TypeOK'
  BY <1>9 DEF MarkTerminal, ClearActive, chain
<1>10. ASSUME NEW o \in Op, ExpireNeverActive(o) PROVE TypeOK'
  BY <1>10 DEF ExpireNeverActive, chain, run, TerminalState
<1>11. ASSUME NEW o \in Op, FinalizeEverActiveAmbiguous(o) PROVE TypeOK'
  BY <1>11 DEF FinalizeEverActiveAmbiguous, ClearActive, chain, TerminalState
<1>12. ASSUME NEW o \in Op, ClearTerminalTail(o) PROVE TypeOK'
  BY <1>12 DEF ClearTerminalTail, chain, run, verdict
<1>13. CASE Tick
  BY <1>13 DEF Tick, Down, Due, chain
<1>14. CASE KeyExpires
  BY <1>14 DEF KeyExpires, run, verdict
<1>15. CASE UNCHANGED vars
  BY <1>15 DEF vars, chain, run, verdict
<1>16. QED
  BY <1>1, <1>2, <1>3, <1>4, <1>5, <1>6, <1>7, <1>8, <1>9, <1>10, <1>11,
     <1>12, <1>13, <1>14, <1>15 DEF Next, OpStep

(* Every stored field keeps its type, whatever the number of operations    *)
(* and the lengths of the timers.                                          *)
THEOREM LaneTypeCorrect == Spec => []TypeOK
<1>1. Init => TypeOK
  BY LaneAssumption DEF Init, TypeOK
<1>2. TypeOK /\ [Next]_vars => TypeOK'
  BY TypeStep
<1>3. QED
  BY <1>1, <1>2, PTL DEF Spec

---------------------------------------------------------------------------
LEMMA LeastNatural ==
  ASSUME NEW S \in SUBSET Nat, S # {}
  PROVE  \E n \in S : \A m \in S : n <= m
<1> DEFINE R == OpToRel(<, Nat)
<1>1. IsWellFoundedOn(R, Nat)
  BY NatLessThanWellFounded
<1>2. \A x, y \in Nat : <<x, y>> \in R <=> x < y
  BY DEF OpToRel
<1>3. \E n \in S : \A m \in S : <<m, n>> \notin R
  <2> HIDE DEF R
  <2> QED
    BY <1>1, WFMin
<1>4. PICK n \in S : \A m \in S : <<m, n>> \notin R
  BY <1>3
<1>5. ASSUME NEW m \in S PROVE n <= m
  <2>1. ~(m < n)
    BY <1>2, <1>4
  <2>2. QED
    BY <2>1
<1>6. QED
  BY <1>5

(* What the Lua walk is for: if it succeeds from o, no operation before o  *)
(* is open, even when operations in between were closed out of turn.       *)
THEOREM WalkSound ==
  ASSUME LaneInv, NEW o \in live, DependenciesTerminal(o)
  PROVE  AllDoneBefore(o)
<1> SUFFICES ASSUME NEW p \in Op, Before(p, o), ~Done(p)
             PROVE  FALSE
  BY DEF AllDoneBefore
<1>1. PICK walk \in SUBSET live :
        /\ o \in walk
        /\ \A c \in walk : \/ c \in satisfied
                           \/ pred[c] = None
                           \/ pred[c] \in walk /\ Done(pred[c])
  BY DEF DependenciesTerminal
<1> DEFINE After == {c \in walk : seq[p] < seq[c]}
           S == {seq[c] : c \in After}
<1>2. live \subseteq Op /\ seq \in [Op -> Nat]
  BY DEF LaneInv, TypeOK
<1>3. S \in SUBSET Nat /\ S # {}
  BY <1>1, <1>2 DEF Before
<1>4. PICK n \in S : \A m \in S : n <= m
  BY <1>3, LeastNatural
<1>5. PICK c \in After : seq[c] = n
  OBVIOUS
<1>6. /\ c \in walk /\ c \in live /\ Before(p, c)
      /\ \A d \in After : seq[c] <= seq[d]
  BY <1>4, <1>5 DEF Before
<1>7. c \notin satisfied
  BY <1>6 DEF LaneInv, AllDoneBefore
<1>8. Linked(c)
  BY <1>6, <1>7 DEF LaneInv
<1>9. pred[c] # None
  BY <1>6, <1>8 DEF Linked
<1>10. pred[c] \in walk /\ Done(pred[c])
  BY <1>1, <1>6, <1>7, <1>9
<1>11. seq[p] <= seq[pred[c]] /\ seq[pred[c]] < seq[c]
  BY <1>6, <1>8, <1>9 DEF Linked, Before
<1>12. pred[c] # p
  BY <1>10
<1>13. seq[p] # seq[pred[c]]
  BY <1>1, <1>10, <1>12 DEF LaneInv, Numbered, Before
<1>14. pred[c] \in After
  BY <1>1, <1>2, <1>10, <1>11, <1>13
<1>15. QED
  BY <1>1, <1>2, <1>6, <1>10, <1>11, <1>14

(* And it fails only then: with nothing open before o, the walk back over  *)
(* the stored operations up to o meets no gap and nothing undecided.       *)
THEOREM WalkComplete ==
  ASSUME LaneInv, NEW o \in live, AllDoneBefore(o)
  PROVE  DependenciesTerminal(o)
<1> DEFINE walk == {c \in live : seq[c] <= seq[o]}
<1>1. live \subseteq Op /\ seq \in [Op -> Nat]
  BY DEF LaneInv, TypeOK
<1>2. walk \in SUBSET live /\ o \in walk
  BY <1>1
<1>3. ASSUME NEW c \in walk, c \notin satisfied, pred[c] # None
      PROVE  pred[c] \in walk /\ Done(pred[c])
  <2>1. c \in live /\ seq[c] <= seq[o]
    OBVIOUS
  <2>2. Linked(c)
    BY <1>3, <2>1 DEF LaneInv
  <2>3. pred[c] \in live /\ seq[pred[c]] < seq[c]
    BY <1>3, <2>2 DEF Linked, Before
  <2>4. seq[pred[c]] < seq[o]
    BY <1>1, <2>1, <2>3
  <2>5. Done(pred[c])
    BY <1>1, <2>3, <2>4 DEF AllDoneBefore, Before
  <2>6. QED
    BY <1>1, <2>3, <2>4, <2>5
<1>4. QED
  BY <1>2, <1>3 DEF DependenciesTerminal

---------------------------------------------------------------------------
(* A step that leaves the chain alone and reopens nothing keeps what is    *)
(* known of every operation.                                               *)
LEMMA ChainFrame ==
  ASSUME UNCHANGED chain, \A p \in Op : Done(p) => Done(p)'
  PROVE  /\ Numbered => Numbered'
         /\ \A o \in Op : AllDoneBefore(o) => AllDoneBefore(o)'
         /\ \A o \in Op : Linked(o) => Linked(o)'
  BY DEF chain, Numbered, AllDoneBefore, Linked, Before

(* If an operation is terminal with nothing open before it, and another    *)
(* one comes right after it, nothing is open before that one either.       *)
LEMMA SuccessorReady ==
  ASSUME LaneInv, NEW o \in live, o \notin satisfied, pred[o] # None,
         Done(pred[o]), AllDoneBefore(pred[o])
  PROVE  AllDoneBefore(o)
<1>1. Linked(o)
  BY DEF LaneInv
<1> SUFFICES ASSUME NEW p \in Op, Before(p, o)
             PROVE  Done(p)
  BY DEF AllDoneBefore
<1>2. pred[o] \in Op /\ pred[o] \in live /\ seq[p] <= seq[pred[o]]
  BY <1>1 DEF Linked, Before, LaneInv, TypeOK
<1>3. CASE seq[p] = seq[pred[o]]
  BY <1>2, <1>3 DEF LaneInv, Numbered, Before
<1>4. CASE seq[p] # seq[pred[o]]
  <2>1. seq[p] \in Nat /\ seq[pred[o]] \in Nat
    BY <1>2 DEF LaneInv, TypeOK
  <2>2. Before(p, pred[o])
    BY <1>2, <1>4, <2>1 DEF Before
  <2>3. QED
    BY <2>2 DEF AllDoneBefore
<1>5. QED
  BY <1>3, <1>4

(* Admission keeps the chain contiguous although it drops entries from the *)
(* middle: an entry is dropped only when its successor needs it no more.   *)
LEMMA AllocateKeeps ==
  ASSUME LaneInv, NEW n \in Op, Allocate(n), TypeOK'
  PROVE  LaneInv'
<1> DEFINE D == Droppable
<1>1. /\ n \notin known /\ n \notin live /\ n \notin cleared
      /\ n \notin satisfied /\ n \notin everActive
      /\ terminal[n] = "none"
  BY DEF Allocate, LaneInv, TypeOK
<1>2. /\ live' = (live \ D) \cup {n}
      /\ \A p \in Op \ {n} : seq'[p] = seq[p] /\ pred'[p] = pred[p]
      /\ seq'[n] = sequence + 1 /\ pred'[n] = tail
      /\ \A p \in Op : succ'[p] = IF p = tail THEN n ELSE succ[p]
      /\ tail' = n /\ sequence' = sequence + 1
      /\ terminal' = terminal /\ cleared' = cleared
      /\ everActive' = everActive /\ active' = active
      /\ known' = known \cup {n}
  BY DEF Allocate, run, LaneInv, TypeOK
<1>3. /\ live \subseteq Op /\ sequence \in Nat
      /\ \A p \in live : seq[p] \in Nat /\ seq[p] <= sequence
  BY DEF LaneInv, TypeOK, Numbered
<1>4. \A d \in D : d \in live /\ d # tail /\ Done(d) /\ AllDoneBefore(d)
  BY WalkSound DEF Droppable
<1>5. \A p \in live \ D : Done(p) => Done(p)'
  BY <1>2 DEF Done
<1>6. \A o \in live \ D, p \in Op :
        Before(p, o)' <=> p \in live \ D /\ Before(p, o)
  BY <1>1, <1>2, <1>3 DEF Before
<1>7. \A p \in Op : Before(p, n)' <=> p \in live \ D
  BY <1>1, <1>2, <1>3 DEF Before
<1>8. \A o \in live \ D : AllDoneBefore(o) => AllDoneBefore(o)'
  BY <1>5, <1>6 DEF AllDoneBefore
<1>9. Numbered'
  <2>1. \A o \in live \ D : o \in Op /\ o # n /\ seq'[o] = seq[o]
                             /\ seq[o] \in 1 .. sequence
    BY <1>1, <1>2, <1>3 DEF LaneInv, Numbered
  <2>2. \A o \in live' : seq'[o] \in 1 .. sequence'
    BY <1>2, <1>3, <2>1
  <2>3. ASSUME NEW o \in live', NEW p \in live', seq'[o] = seq'[p]
        PROVE  o = p
    <3>1. CASE o = n \/ p = n
      BY <1>2, <1>3, <2>1, <2>3, <3>1
    <3>2. CASE o # n /\ p # n
      BY <1>2, <2>1, <2>3, <3>2 DEF LaneInv, Numbered
    <3>3. QED
      BY <3>1, <3>2
  <2>4. tail' \in live' /\ tail' # None /\ seq'[tail'] = sequence'
    BY <1>2, LaneAssumption
  <2>5. QED
    BY <2>2, <2>3, <2>4 DEF Numbered
<1>10. ASSUME NEW o \in live \ D
       PROVE  IF o \in satisfied' THEN AllDoneBefore(o)' ELSE Linked(o)'
  <2>0. o \in Op /\ o # n /\ pred'[o] = pred[o]
    BY <1>1, <1>2, <1>3
  <2>1. CASE o \in satisfied
    BY <1>8, <2>1 DEF LaneInv, Allocate
  <2>2. CASE o \notin satisfied /\ pred[o] = None
    <3>1. Linked(o)'
      BY <1>6, <2>0, <2>2 DEF LaneInv, Linked
    <3>2. o \notin satisfied'
      <4>1. None \notin D
        BY <1>3, <1>4, LaneAssumption
      <4>2. QED
        BY <2>0, <2>2, <4>1 DEF Allocate, Inherits
    <3>3. QED
      BY <3>1, <3>2
  <2>3. CASE o \notin satisfied /\ pred[o] \in D
    <3>1. AllDoneBefore(o)
      BY <1>4, <2>3, <1>3, LaneAssumption, SuccessorReady
    <3>2. Inherits(o, D)
      BY <2>3, <1>4, <1>3, LaneAssumption DEF LaneInv, Linked, Inherits
    <3>3. o \in satisfied'
      BY <3>2 DEF Allocate
    <3>4. QED
      BY <1>8, <3>1, <3>3
  <2>4. CASE o \notin satisfied /\ pred[o] # None /\ pred[o] \notin D
    <3>1. Linked(o) /\ pred[o] \in live /\ Before(pred[o], o)
          /\ succ[pred[o]] = o
      BY <2>4 DEF LaneInv, Linked, Before
    <3>2. pred[o] # tail
      BY <1>3, <3>1 DEF Before, LaneInv, Numbered
    <3>3. pred[o] \in Op /\ pred[o] # n /\ succ'[pred[o]] = o
      BY <1>1, <1>2, <1>3, <3>1, <3>2
    <3>4. \A p \in Op : Before(p, o)' => seq'[p] = seq[p]
      BY <1>1, <1>2, <1>6
    <3>5. Before(pred[o], o)' /\ seq'[pred[o]] = seq[pred[o]]
      BY <1>2, <1>6, <2>0, <2>4, <3>1, <3>3 DEF Before
    <3>6. Linked(o)'
      BY <1>6, <2>0, <2>4, <3>1, <3>3, <3>4, <3>5 DEF Linked
    <3>7. o \notin satisfied'
      BY <2>0, <2>4 DEF Allocate, Inherits
    <3>8. QED
      BY <3>6, <3>7
  <2>5. QED
    BY <2>1, <2>2, <2>3, <2>4
<1>11. IF n \in satisfied' THEN AllDoneBefore(n)' ELSE Linked(n)'
  <2>1. CASE tail = None
    <3>1. live = {}
      BY <2>1 DEF LaneInv, Numbered
    <3>2. n \notin satisfied'
      BY <1>1, <2>1, <3>1 DEF Allocate
    <3>3. Linked(n)'
      BY <1>2, <1>7, <2>1, <3>1 DEF Linked
    <3>4. QED
      BY <3>2, <3>3
  <2>2. CASE tail # None /\ n \in satisfied'
    <3>1. tail \in live /\ seq[tail] = sequence
      BY <2>2 DEF LaneInv, Numbered
    <3>2. Done(tail) /\ AllDoneBefore(tail)
      <4>1. Done(tail) /\ DependenciesTerminal(tail)
        BY <1>1, <2>2 DEF Allocate
      <4>2. QED
        BY <3>1, <4>1, WalkSound
    <3>3. ASSUME NEW p \in live \ D PROVE Done(p)
      <4>1. p = tail \/ seq[p] # seq[tail]
        BY <3>1 DEF LaneInv, Numbered
      <4>2. p = tail \/ Before(p, tail)
        BY <1>3, <3>1, <4>1 DEF Before
      <4>3. QED
        BY <1>3, <3>2, <4>2 DEF AllDoneBefore
    <3>4. AllDoneBefore(n)'
      BY <1>5, <1>7, <3>3 DEF AllDoneBefore
    <3>5. QED
      BY <2>2, <3>4
  <2>3. CASE tail # None /\ n \notin satisfied'
    <3>1. tail \in live \ D /\ seq[tail] = sequence /\ tail # n
      BY <1>1, <1>4, <2>3 DEF LaneInv, Numbered
    <3>2. \A p \in live \ D : seq'[p] <= seq'[tail]
      BY <1>1, <1>2, <1>3, <3>1
    <3>3. Linked(n)'
      BY <1>2, <1>3, <1>7, <2>3, <3>1, <3>2 DEF Linked
    <3>4. QED
      BY <2>3, <3>3
  <2>4. QED
    BY <2>1, <2>2, <2>3
<1>12. \A o \in live' \cap cleared' : AllDoneBefore(o)'
  BY <1>1, <1>2, <1>8 DEF LaneInv
<1>13. \A o \in Op : o \notin known' =>
         terminal'[o] = "none" /\ o \notin satisfied'
  <2> SUFFICES ASSUME NEW o \in Op, o \notin known'
               PROVE  terminal'[o] = "none" /\ o \notin satisfied'
    OBVIOUS
  <2>1. o \notin known /\ o # n /\ o \notin live
    BY <1>2 DEF LaneInv, TypeOK
  <2>2. QED
    BY <1>2, <2>1 DEF LaneInv, Allocate
<1>14. OutcomeHasExecution'
  BY <1>1, <1>2 DEF LaneInv, OutcomeHasExecution
<1>15. QED
  BY <1>2, <1>9, <1>10, <1>11, <1>12, <1>13, <1>14 DEF LaneInv

---------------------------------------------------------------------------
(* What every step but the admission and the key expiry has to show.       *)
Orderly ==
  /\ UNCHANGED chain
  /\ \A p \in Op : Done(p) => terminal'[p] = terminal[p]
  /\ \A p \in Op : p \notin live => terminal'[p] = terminal[p]
  /\ satisfied \subseteq satisfied' /\ cleared \subseteq cleared'
  /\ \A o \in (satisfied' \ satisfied) \cup (cleared' \ cleared) :
       o \in live /\ AllDoneBefore(o)'
  /\ everActive' \subseteq cleared' /\ active' \subseteq everActive'
  /\ OutcomeHasExecution'

LEMMA OrderlyKeeps ==
  ASSUME LaneInv, TypeOK', Orderly
  PROVE  LaneInv'
<1>1. \A p \in Op : Done(p) => Done(p)'
  BY DEF Orderly, Done, chain
<1>2. /\ Numbered'
      /\ \A o \in Op : AllDoneBefore(o) => AllDoneBefore(o)'
      /\ \A o \in Op : Linked(o) => Linked(o)'
  BY <1>1, ChainFrame DEF Orderly, LaneInv
<1>3. /\ live' = live /\ known' = known
      /\ live \subseteq known /\ live \subseteq Op
  BY DEF Orderly, chain, LaneInv, TypeOK
<1>4. ASSUME NEW o \in live
      PROVE  IF o \in satisfied' THEN AllDoneBefore(o)' ELSE Linked(o)'
  BY <1>2, <1>3 DEF LaneInv, Orderly
<1>5. \A o \in live' \cap cleared' : AllDoneBefore(o)'
  BY <1>2, <1>3 DEF LaneInv, Orderly
<1>6. cleared' \subseteq known'
  BY <1>3 DEF LaneInv, Orderly
<1>7. \A o \in Op : o \notin known' =>
        terminal'[o] = "none" /\ o \notin satisfied'
  BY <1>3 DEF LaneInv, Orderly
<1>8. QED
  BY <1>2, <1>3, <1>4, <1>5, <1>6, <1>7 DEF LaneInv, Orderly

(* One step per script: why it is orderly.                                 *)
LEMMA ScriptOrderly ==
  ASSUME LaneInv, NEW o \in Op, OpStep(o), ~Allocate(o), TypeOK'
  PROVE  Orderly
<1>1. /\ live \subseteq Op /\ active \subseteq everActive
      /\ everActive \subseteq cleared /\ OutcomeHasExecution
      /\ terminal \in [Op -> TerminalState \cup {"none"}]
      /\ \A p \in live \cap satisfied : AllDoneBefore(p)
  BY DEF LaneInv, TypeOK
<1>2. ASSUME UNCHANGED chain, \A p \in Op : Done(p) => Done(p)',
             NEW p \in live, AllDoneBefore(p)
      PROVE  AllDoneBefore(p)'
  BY <1>1, <1>2, ChainFrame
<1>3. CASE PassUnchecked(o)
  <2>1. /\ UNCHANGED <<chain, satisfied, run, verdict>>
        /\ o \in live /\ cleared' = cleared \cup {o}
    BY <1>3 DEF PassUnchecked
  <2>2. AllDoneBefore(o)
    BY <1>1, <1>3, <2>1 DEF PassUnchecked, LaneInv, Linked, AllDoneBefore
  <2>3. AllDoneBefore(o)'
    BY <1>2, <2>1, <2>2 DEF chain, verdict, Done
  <2>4. QED
    BY <1>1, <2>1, <2>3 DEF Orderly, chain, run, verdict, OutcomeHasExecution
<1>4. CASE PassTerminal(o)
  <2>1. /\ UNCHANGED <<chain, run, verdict>>
        /\ o \in live \ satisfied /\ satisfied' = satisfied \cup {o}
        /\ cleared' = cleared \cup {o}
    BY <1>4 DEF PassTerminal
  <2>2. pred[o] # None /\ Done(pred[o]) /\ AllDoneBefore(pred[o])
    BY <1>4, WalkSound DEF PassTerminal, Done
  <2>3. AllDoneBefore(o)'
    BY <1>2, <2>1, <2>2, SuccessorReady DEF chain, verdict, Done
  <2>4. QED
    BY <1>1, <2>1, <2>3 DEF Orderly, chain, run, verdict, OutcomeHasExecution
<1>5. CASE PassExpiring(o)
  <2> DEFINE p == pred[o]
  <2>1. /\ UNCHANGED <<chain, run>>
        /\ o \in live \ satisfied /\ p \in live /\ p # None
        /\ terminal[p] = "none" /\ p \notin everActive
        /\ terminal' = [terminal EXCEPT ![p] = "expired"]
        /\ satisfied' = satisfied \cup {o, p}
        /\ cleared' = cleared \cup {o}
        /\ AllDoneBefore(p)
    BY <1>5, WalkSound DEF PassExpiring, Open
  <2>2. \A q \in Op : Done(q) => Done(q)' /\ terminal'[q] = terminal[q]
    BY <2>1 DEF chain, Done
  <2>3. AllDoneBefore(p)'
    <3>1. pred' = pred
      BY <2>1 DEF chain
    <3>2. QED
      BY <1>2, <2>1, <2>2, <3>1 DEF AllDoneBefore, Before, chain
  <2>4. AllDoneBefore(o)'
    <3> SUFFICES ASSUME NEW q \in Op, Before(q, o)'
                 PROVE  Done(q)'
      BY DEF AllDoneBefore
    <3>1. Linked(o) /\ seq' = seq /\ live' = live
      BY <2>1 DEF LaneInv, chain
    <3>2. q \in live /\ seq[q] <= seq[p]
      BY <2>1, <3>1 DEF Linked, Before
    <3>3. CASE q = p
      BY <1>1, <2>1, <3>1, <3>3 DEF Done
    <3>4. CASE q # p
      <4>1. seq[q] # seq[p]
        BY <2>1, <3>2, <3>4 DEF LaneInv, Numbered
      <4>2. seq[q] < seq[p]
        <5>1. seq[q] \in Nat /\ seq[p] \in Nat
          BY <1>1, <2>1, <3>2 DEF LaneInv, TypeOK
        <5>2. QED
          BY <3>2, <4>1, <5>1
      <4>3. Before(q, p)
        BY <2>1, <3>2, <4>2 DEF Before
      <4>4. QED
        BY <2>1, <2>2, <4>3 DEF AllDoneBefore
    <3>5. QED
      BY <3>3, <3>4
  <2>5. OutcomeHasExecution'
    BY <1>1, <2>1 DEF OutcomeHasExecution, chain, run
  <2>6. QED
    BY <1>1, <2>1, <2>2, <2>3, <2>4, <2>5 DEF Orderly, chain, run
<1>6. CASE MarkActive(o)
  BY <1>1, <1>6 DEF MarkActive, Orderly, chain, verdict, OutcomeHasExecution
<1>7. CASE RenewActive(o)
  BY <1>1, <1>7 DEF RenewActive, Orderly, chain, verdict, OutcomeHasExecution
<1>8. CASE ReleaseActive(o)
  BY <1>1, <1>8 DEF ReleaseActive, ClearActive, Orderly, chain, verdict,
                    OutcomeHasExecution
<1>9. CASE RecordTechnicalRetry(o)
  BY <1>1, <1>9 DEF RecordTechnicalRetry, Orderly, chain, run, verdict,
                    OutcomeHasExecution
<1>10. ASSUME NEW t \in TerminalState, MarkTerminal(o, t) PROVE Orderly
  BY <1>1, <1>10 DEF MarkTerminal, MayClose, ClearActive, Orderly, chain,
                     Open, Done, OutcomeHasExecution
<1>11. CASE ExpireNeverActive(o)
  <2>1. /\ UNCHANGED <<chain, run, cleared>>
        /\ o \in live /\ terminal[o] = "none"
        /\ terminal' = [terminal EXCEPT ![o] = "expired"]
        /\ satisfied' = satisfied \cup {o}
        /\ AllDoneBefore(o)
    BY <1>11, WalkSound DEF ExpireNeverActive, Open
  <2>2. \A q \in Op : Done(q) => Done(q)' /\ terminal'[q] = terminal[q]
    BY <2>1 DEF chain, Done
  <2>3. AllDoneBefore(o)'
    BY <1>2, <2>1, <2>2
  <2>4. OutcomeHasExecution'
    BY <1>1, <2>1 DEF OutcomeHasExecution, chain, run
  <2>5. QED
    BY <1>1, <2>1, <2>2, <2>3, <2>4 DEF Orderly, chain, run
<1>12. CASE FinalizeEverActiveAmbiguous(o)
  BY <1>1, <1>12 DEF FinalizeEverActiveAmbiguous, ClearActive, Orderly, chain,
                     Open, Done, OutcomeHasExecution
<1>13. CASE ClearTerminalTail(o)
  BY <1>1, <1>13 DEF ClearTerminalTail, Orderly, chain, run, verdict,
                     OutcomeHasExecution
<1>14. QED
  BY <1>3, <1>4, <1>5, <1>6, <1>7, <1>8, <1>9, <1>10, <1>11, <1>12, <1>13
     DEF OpStep

LEMMA LaneStep ==
  ASSUME LaneInv, [Next]_vars
  PROVE  LaneInv'
<1>1. TypeOK'
  BY TypeStep DEF LaneInv
<1>2. ASSUME NEW o \in Op, OpStep(o) PROVE LaneInv'
  BY <1>1, <1>2, AllocateKeeps, ScriptOrderly, OrderlyKeeps
<1>3. CASE Tick \/ UNCHANGED vars
  <2>1. UNCHANGED <<chain, satisfied, everActive, active, terminal, cleared>>
    BY <1>3 DEF Tick, vars, run, verdict
  <2>2. Orderly
    BY <2>1 DEF LaneInv, Orderly, chain, OutcomeHasExecution
  <2>3. QED
    BY <1>1, <2>2, OrderlyKeeps
<1>4. CASE KeyExpires
  BY <1>1, <1>4 DEF KeyExpires, run, verdict, LaneInv, Numbered,
                    OutcomeHasExecution
<1>5. QED
  BY <1>2, <1>3, <1>4 DEF Next

(* A step gives a place only to what it admits, behind all that is stored; *)
(* what has been admitted before keeps its place and does not come back.   *)
KeepsPlaces ==
  /\ known' = known \/ \E n \in Op \ known : known' = known \cup {n}
  /\ live' \cap known \subseteq live
  /\ \A p \in known : seq'[p] = seq[p]
  /\ \A n \in live' \ known, p \in live' \cap known : seq'[p] < seq'[n]

LEMMA PlacesKept ==
  ASSUME LaneInv, [Next]_vars
  PROVE  KeepsPlaces
<1>1. /\ live \subseteq known /\ known \subseteq Op
      /\ seq \in [Op -> Nat] /\ sequence \in Nat
      /\ \A p \in live : seq[p] \in 1 .. sequence
  BY DEF LaneInv, TypeOK, Numbered
<1>2. ASSUME NEW o \in Op, Allocate(o) PROVE KeepsPlaces
  <2>1. /\ o \notin known /\ known' = known \cup {o}
        /\ live' = (live \ Droppable) \cup {o}
        /\ seq' = [seq EXCEPT ![o] = sequence + 1]
    BY <1>2 DEF Allocate
  <2>2. seq'[o] = sequence + 1 /\ \A p \in known : seq'[p] = seq[p]
    BY <1>1, <2>1
  <2>3. /\ live' \cap known \subseteq live
        /\ \A n \in live' \ known : n = o
    BY <1>1, <2>1
  <2>4. \A n \in live' \ known, p \in live' \cap known : seq'[p] < seq'[n]
    BY <1>1, <2>2, <2>3
  <2>5. QED
    BY <2>1, <2>2, <2>3, <2>4 DEF KeepsPlaces
<1>3. ASSUME UNCHANGED chain PROVE KeepsPlaces
  BY <1>1, <1>3 DEF chain, KeepsPlaces
<1>4. ASSUME NEW o \in Op, OpStep(o), ~Allocate(o) PROVE UNCHANGED chain
  BY <1>4 DEF OpStep, PassUnchecked, PassTerminal, PassExpiring, MarkActive,
     RenewActive, ReleaseActive, RecordTechnicalRetry, MarkTerminal,
     ExpireNeverActive, FinalizeEverActiveAmbiguous, ClearTerminalTail
<1>5. CASE Tick \/ UNCHANGED vars
  BY <1>3, <1>5 DEF Tick, vars
<1>6. CASE KeyExpires
  BY <1>1, <1>6 DEF KeyExpires, KeepsPlaces
<1>7. QED
  BY <1>2, <1>3, <1>4, <1>5, <1>6 DEF Next

(* The strengthened invariant holds in every reachable state.              *)
THEOREM LaneInvariant == Spec => []LaneInv
<1>1. Init => LaneInv
  <2> SUFFICES ASSUME Init PROVE LaneInv
    OBVIOUS
  <2>1. TypeOK
    BY LaneAssumption DEF Init, TypeOK
  <2>2. Numbered /\ OutcomeHasExecution
    BY DEF Init, Numbered, OutcomeHasExecution
  <2>3. QED
    BY <2>1, <2>2 DEF Init, LaneInv
<1>2. LaneInv /\ [Next]_vars => LaneInv'
  BY LaneStep
<1>3. QED
  BY <1>1, <1>2, PTL DEF Spec

(* Whoever acquired the lane runs alone: everything admitted earlier to    *)
(* the entity is terminal, for any number of operations.                   *)
THEOREM LaneOrdered == Spec => []EntityOrder
<1>1. LaneInv => EntityOrder
  <2> SUFFICES ASSUME LaneInv, NEW o \in Op, NEW p \in Op,
                      o \in everActive, Before(p, o)
               PROVE  Done(p)
    BY DEF EntityOrder
  <2>1. o \in live \cap cleared
    BY DEF LaneInv, Before
  <2>2. QED
    BY <2>1 DEF LaneInv, AllDoneBefore
<1>2. QED
  BY <1>1, LaneInvariant, PTL

(* A waiting operation always finds the predecessor it was given.          *)
THEOREM LaneNeverStrands == Spec => []NoStrandedSuccessor
<1>1. LaneInv => NoStrandedSuccessor
  BY DEF LaneInv, Linked, NoStrandedSuccessor
<1>2. QED
  BY <1>1, LaneInvariant, PTL

(* Success or ambiguity is only ever recorded for what acquired the lane.  *)
THEOREM LaneOutcomes == Spec => []OutcomeHasExecution
<1>1. LaneInv => OutcomeHasExecution
  BY DEF LaneInv
<1>2. QED
  BY <1>1, LaneInvariant, PTL

---------------------------------------------------------------------------
(* No step changes a terminal state that is stored.                        *)
THEOREM LaneTerminalFinal == Spec => TerminalIsFinal
<1>1. LaneInv /\ [Next]_vars =>
        [\A o \in Op : Done(o) => terminal'[o] = terminal[o]]_vars
  <2> SUFFICES ASSUME LaneInv, Next, NEW q \in Op, Done(q)
               PROVE  terminal'[q] = terminal[q]
    OBVIOUS
  <2>1. ASSUME NEW o \in Op, OpStep(o), ~Allocate(o)
        PROVE  terminal'[q] = terminal[q]
    <3>1. TypeOK'
      BY <2>1, TypeStep DEF LaneInv, Next
    <3>2. QED
      BY <2>1, <3>1, ScriptOrderly DEF Orderly
  <2>2. ASSUME NEW o \in Op, Allocate(o)
        PROVE  terminal'[q] = terminal[q]
    BY <2>2 DEF Allocate
  <2>3. CASE Tick \/ KeyExpires
    BY <2>3 DEF Tick, KeyExpires, verdict
  <2>4. QED
    BY <2>1, <2>2, <2>3 DEF Next
<1>2. QED
  BY <1>1, LaneInvariant, PTL DEF Spec, TerminalIsFinal

(* Without the holder's failure code, only what never ran expires.         *)
THEOREM LaneReaperSpares == Spec => ReaperSparesStarted
<1>1. LaneInv /\ [Next]_vars =>
        [\A o \in Op : Open(o) /\ terminal'[o] = "expired" /\ o \notin coded'
           => o \notin everActive]_vars
  <2> SUFFICES ASSUME LaneInv, Next, NEW q \in Op, Open(q),
                      terminal'[q] = "expired", q \notin coded'
               PROVE  q \notin everActive
    OBVIOUS
  <2>1. /\ terminal'[q] # terminal[q]
        /\ terminal \in [Op -> TerminalState \cup {"none"}]
    BY DEF Open, LaneInv, TypeOK
  <2>2. PICK o \in Op : OpStep(o)
    BY <2>1 DEF Next, Tick, KeyExpires, verdict
  <2>3. CASE PassExpiring(o)
    BY <2>1, <2>3 DEF PassExpiring
  <2>4. CASE ExpireNeverActive(o)
    BY <2>1, <2>4 DEF ExpireNeverActive
  <2>5. CASE FinalizeEverActiveAmbiguous(o)
    BY <2>1, <2>5 DEF FinalizeEverActiveAmbiguous
  <2>6. ASSUME NEW t \in TerminalState, MarkTerminal(o, t) PROVE FALSE
    BY <2>1, <2>6 DEF MarkTerminal
  <2>7. CASE \/ Allocate(o) \/ PassUnchecked(o) \/ PassTerminal(o)
             \/ MarkActive(o) \/ RenewActive(o) \/ ReleaseActive(o)
             \/ RecordTechnicalRetry(o) \/ ClearTerminalTail(o)
    BY <2>1, <2>7 DEF Allocate, PassUnchecked, PassTerminal, MarkActive,
       RenewActive, ReleaseActive, RecordTechnicalRetry, ClearTerminalTail,
       verdict
  <2>8. QED
    BY <2>2, <2>3, <2>4, <2>5, <2>6, <2>7 DEF OpStep
<1>2. QED
  BY <1>1, LaneInvariant, PTL DEF Spec, ReaperSparesStarted

(* Admission drops an entry only with everything before it terminal.       *)
THEOREM LaneCleanup == Spec => CleanupKeepsOpenWork
<1>1. LaneInv /\ [Next]_vars =>
        [\A o \in Op : o \in live \ live' /\ tail' # None
           => Done(o) /\ \A p \in Op : Before(p, o) => Done(p)]_vars
  <2> SUFFICES ASSUME LaneInv, Next, NEW q \in Op, q \in live \ live',
                      tail' # None
               PROVE  Done(q) /\ AllDoneBefore(q)
    BY DEF AllDoneBefore
  <2>1. PICK o \in Op : OpStep(o)
    BY DEF Next, Tick, KeyExpires, chain
  <2>2. Allocate(o)
    <3>1. TypeOK'
      BY TypeStep DEF LaneInv
    <3>2. CASE ~Allocate(o)
      BY <2>1, <3>1, <3>2, ScriptOrderly DEF Orderly, chain
    <3>3. QED
      BY <3>2
  <2>3. q \in Droppable
    BY <2>2 DEF Allocate
  <2>4. Done(q) /\ DependenciesTerminal(q)
    BY <2>3 DEF Droppable
  <2>5. QED
    BY <2>4, WalkSound DEF Done
<1>2. QED
  BY <1>1, LaneInvariant, PTL DEF Spec, CleanupKeepsOpenWork
---------------------------------------------------------------------------
(* What is next in line for the queue is what has only terminal            *)
(* operations before it in the lane.                                       *)
LEMMA NextInLine ==
  ASSUME NEW o \in live, live \subseteq Op
  PROVE  /\ AllDoneBefore(o) => Queue!IsNext(o)
         /\ Done(o) <=> Queue!Decided(o)
BY DEF AllDoneBefore, Before, Done, Queue!IsNext, Queue!Decided

(* The scripts that record a verdict decide one operation of the queue.    *)
LEMMA VerdictDecides ==
  ASSUME NEW o \in Op, NEW t \in TerminalState, Open(o),
         terminal' = [terminal EXCEPT ![o] = t],
         t \in {"succeeded", "ambiguous"} => o \in everActive,
         UNCHANGED <<chain, everActive>>
  PROVE  Queue!Next
<1>1. Queue!Decide(o, t)
  BY DEF Open, chain, Queue!Decide, Queue!Decided
<1>2. t \in Queue!Decision
  BY DEF TerminalState, Queue!Decision
<1>3. QED
  BY <1>1, <1>2 DEF Queue!Next

(* Every step of the lane is a step of the queue or leaves it alone.       *)
LEMMA QueueStep ==
  ASSUME LaneInv, [Next]_vars
  PROVE  [Queue!Next]_(Queue!vars)
<1>1. /\ live \subseteq known /\ known \subseteq Op /\ live \subseteq Op
      /\ active \subseteq everActive
      /\ seq \in [Op -> Nat] /\ sequence \in Nat
      /\ \A p \in live : seq[p] \in 1 .. sequence
      /\ pred \in [Op -> Op \cup {None}]
  BY DEF LaneInv, TypeOK, Numbered
<1>2. ASSUME NEW o \in Op, Allocate(o) PROVE Queue!Next
  <2>1. /\ o \notin known /\ known' = known \cup {o}
        /\ live' = (live \ Droppable) \cup {o}
        /\ seq' = [seq EXCEPT ![o] = sequence + 1]
        /\ UNCHANGED <<everActive, terminal>>
    BY <1>2 DEF Allocate, run
  <2>2. o \notin live /\ seq'[o] = sequence + 1
    BY <1>1, <2>1
  <2>3. \A p \in live : seq[p] < seq'[o]
    BY <1>1, <2>2
  <2>4. \A p \in live \ live' : Queue!Decided(p) /\ Queue!IsNext(p)
    <3> SUFFICES ASSUME NEW p \in live \ live'
                 PROVE  Queue!Decided(p) /\ Queue!IsNext(p)
      OBVIOUS
    <3>1. Done(p) /\ DependenciesTerminal(p)
      BY <2>1 DEF Droppable
    <3>2. AllDoneBefore(p)
      BY <3>1, WalkSound
    <3>3. QED
      BY <1>1, <3>1, <3>2, NextInLine
  <2>5. Queue!Admit(o)
    BY <1>1, <2>1, <2>2, <2>3, <2>4 DEF Queue!Admit
  <2>6. QED
    BY <2>5 DEF Queue!Next
<1>3. ASSUME NEW o \in Op, MarkActive(o) PROVE Queue!Next
  <2>1. /\ o \in live \cap cleared /\ ~Done(o)
        /\ everActive' = everActive \cup {o}
        /\ UNCHANGED <<chain, terminal>>
    BY <1>3 DEF MarkActive, Open, Done, verdict
  <2>2. AllDoneBefore(o)
    BY <2>1 DEF LaneInv
  <2>3. Queue!Start(o)
    BY <1>1, <2>1, <2>2, NextInLine DEF Queue!Start, chain
  <2>4. QED
    BY <2>3 DEF Queue!Next
<1>4. ASSUME NEW o \in Op, PassExpiring(o) PROVE Queue!Next
  <2>1. /\ pred[o] \in Op /\ Open(pred[o]) /\ "expired" \in TerminalState
        /\ terminal' = [terminal EXCEPT ![pred[o]] = "expired"]
        /\ UNCHANGED <<chain, everActive>>
    BY <1>1, <1>4 DEF PassExpiring, TerminalState, run
  <2>2. QED
    BY <2>1, VerdictDecides
<1>5. ASSUME NEW o \in Op, NEW t \in TerminalState, MarkTerminal(o, t)
      PROVE  Queue!Next
  <2>1. /\ Open(o) /\ MayClose(o, t)
        /\ terminal' = [terminal EXCEPT ![o] = t]
        /\ UNCHANGED <<chain, everActive>>
    BY <1>5 DEF MarkTerminal, ClearActive
  <2>2. t \in {"succeeded", "ambiguous"} => o \in everActive
    BY <1>1, <2>1 DEF MayClose
  <2>3. QED
    BY <2>1, <2>2, VerdictDecides
<1>6. ASSUME NEW o \in Op, ExpireNeverActive(o) PROVE Queue!Next
  <2>1. /\ Open(o) /\ "expired" \in TerminalState
        /\ terminal' = [terminal EXCEPT ![o] = "expired"]
        /\ UNCHANGED <<chain, everActive>>
    BY <1>6 DEF ExpireNeverActive, TerminalState, run
  <2>2. QED
    BY <2>1, VerdictDecides
<1>7. ASSUME NEW o \in Op, FinalizeEverActiveAmbiguous(o) PROVE Queue!Next
  <2>1. /\ Open(o) /\ o \in everActive /\ "ambiguous" \in TerminalState
        /\ terminal' = [terminal EXCEPT ![o] = "ambiguous"]
        /\ UNCHANGED <<chain, everActive>>
    BY <1>7 DEF FinalizeEverActiveAmbiguous, ClearActive, TerminalState
  <2>2. QED
    BY <2>1, VerdictDecides
<1>8. CASE KeyExpires
  BY <1>8 DEF KeyExpires, run, verdict, Queue!Forget, Queue!Next
<1>9. ASSUME NEW o \in Op,
             \/ PassUnchecked(o) \/ PassTerminal(o) \/ RenewActive(o)
             \/ ReleaseActive(o) \/ RecordTechnicalRetry(o)
             \/ ClearTerminalTail(o)
      PROVE  UNCHANGED Queue!vars
  BY <1>9 DEF PassUnchecked, PassTerminal, RenewActive, ReleaseActive,
              ClearActive, RecordTechnicalRetry, ClearTerminalTail, chain,
              run, verdict, Queue!vars
<1>10. CASE Tick \/ UNCHANGED vars
  BY <1>10 DEF Tick, vars, chain, run, verdict, Queue!vars
<1>11. QED
  BY <1>2, <1>3, <1>4, <1>5, <1>6, <1>7, <1>8, <1>9, <1>10 DEF Next, OpStep

(* The lane is an implementation of the queue, for any number of           *)
(* operations and any timers.                                              *)
THEOREM LaneServesInOrder == Spec => ServesInOrder
<1>1. Init => Queue!Init
  BY DEF Init, Queue!Init
<1>2. LaneInv /\ [Next]_vars => [Queue!Next]_(Queue!vars)
  BY QueueStep
<1>3. QED
  BY <1>1, <1>2, LaneInvariant, PTL DEF Spec, ServesInOrder, Queue!Spec
=============================================================================
