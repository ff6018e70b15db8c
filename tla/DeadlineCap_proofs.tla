------------------------- MODULE DeadlineCap_proofs --------------------------
(***************************************************************************)
(* What the deadlines are for: when a reconciler asks the lane about a     *)
(* command the lane has an answer, and a command that nobody closes is     *)
(* resolved before its record reaches the cap.                             *)
(*                                                                         *)
(* Past the last look a reconciler closes one command of a chat per tick,  *)
(* the first one, because the others are only pending behind it.  So there *)
(* is a budget: the commands ahead of one, itself included, against the    *)
(* ticks it has left (OnTime).  The first command is seen once per tick,   *)
(* each tick spends one of both, and the margin between last look and cap  *)
(* must have a tick for every command that is past its last look (FewLate).*)
(***************************************************************************)
EXTENDS CommandDeadlines_proofs, FiniteSets, FiniteSetTheorems

---------------------------------------------------------------------------
(* What is taken from the lane.                                            *)

(* Commands in the lane are allocated, and no two have the same place.     *)
LEMMA LanePlaces ==
  ASSUME LaneProofs!LaneInv
  PROVE  /\ live \subseteq known /\ known \subseteq Op
         /\ seq \in [Op -> Nat]
         /\ \A p, q \in live : seq[p] = seq[q] => p = q
BY DEF LaneProofs!LaneInv, LaneProofs!TypeOK, LaneProofs!Numbered

(* The lane's invariants hold in every reachable state of the registry.    *)
LEMMA LaneAlways == Spec => []LaneProofs!LaneInv
<1>1. LaneProofs!LaneAssumption
  BY DeadlinesAssumption DEF LaneProofs!LaneAssumption
<1>2. LaneProofs!Spec => []LaneProofs!LaneInv
  BY <1>1, LaneProofs!LaneInvariant
<1>3. QED
  BY <1>2, RunsLane, PTL

(* A step gives a place only to what it admits, behind all that is there.  *)
LEMMA PlacesStep ==
  ASSUME LaneProofs!LaneInv, [Next]_vars
  PROVE  LaneProofs!KeepsPlaces
<1>1. LaneProofs!LaneAssumption
  BY DeadlinesAssumption DEF LaneProofs!LaneAssumption
<1>2. [LaneProofs!Next]_(LaneProofs!vars)
  BY LaneStep, SameLane
<1>3. QED
  BY <1>1, <1>2, LaneProofs!PlacesKept

(* A command is pending only behind another that is open.                  *)
LEMMA PendingBehind ==
  ASSUME LaneProofs!LaneInv, NEW o \in Op,
         Lane!Open(o), ~Lane!DependenciesTerminal(o)
  PROVE  \E q \in Op : Lane!Open(q) /\ seq[q] < seq[o]
<1>1. LaneProofs!LaneAssumption
  BY DeadlinesAssumption DEF LaneProofs!LaneAssumption
<1>2. ~LaneProofs!DependenciesTerminal(o)
  BY DEF Lane!DependenciesTerminal, LaneProofs!DependenciesTerminal,
         Lane!Done, LaneProofs!Done
<1>3. o \in live
  BY DEF Lane!Open
<1>4. ~LaneProofs!AllDoneBefore(o)
  BY <1>1, <1>2, <1>3, LaneProofs!WalkComplete
<1>5. QED
  BY <1>4 DEF LaneProofs!AllDoneBefore, LaneProofs!Before, LaneProofs!Done,
              Lane!Open

(* Only Pass lets time go by; any other step is a script or none.          *)
LEMMA ScriptStep ==
  ASSUME [Next]_vars, ~Pass
  PROVE  /\ UNCHANGED clock
         /\ UNCHANGED lane \/ \E o \in Op : Lane!OpStep(o)
<1>1. ASSUME NEW o \in Op,
             Allocate(o) \/ Register(o) \/ LateFinalize(o) \/ QueuedExpire(o)
      PROVE  /\ UNCHANGED clock
             /\ UNCHANGED lane \/ Lane!OpStep(o)
  BY <1>1 DEF Allocate, Register, LateFinalize, QueuedExpire, Lane!OpStep
<1>2. ASSUME NEW o \in Op, Deliver(o)
      PROVE  UNCHANGED clock /\ Lane!OpStep(o)
  BY <1>2 DEF Deliver, Lane!OpStep
<1>3. ASSUME NEW o \in Op, NEW r \in Reconciler, Reconcile(r, o)
      PROVE  /\ UNCHANGED clock
             /\ UNCHANGED lane \/ Lane!OpStep(o)
  BY <1>3 DEF Reconcile, Claim, LookExpire, LookClosed, LookPending,
     LookStarted, Finalize, Publish, Complete, Reschedule, Throw, Lane!OpStep
<1>4. ASSUME NEW r \in Reconciler, Crash(r) PROVE UNCHANGED <<clock, lane>>
  BY <1>4 DEF Crash
<1>5. CASE UNCHANGED vars
  BY <1>5 DEF vars
<1>6. QED
  BY <1>1, <1>2, <1>3, <1>4, <1>5 DEF Next

---------------------------------------------------------------------------
(* The lane has an answer for whoever asks.                                *)

(* The lane and the registry count the age of an open command alike, up to *)
(* the deadline, and the lane is not empty while its key is there.         *)
Aging ==
  /\ \A o \in Op \ known : clock[o] = 0
  /\ ttl = 0 => live = {}
  /\ \A o \in Op : Lane!Open(o) =>
       age[o] = IF clock[o] < DeadlineTicks THEN clock[o] ELSE DeadlineTicks

(* A record is due no earlier than its command's deadline, and a failure   *)
(* of a command that has started is recorded only if it has started.       *)
Asking ==
  /\ \A o \in stored : clock[o] + wait[o] >= DeadlineTicks
  /\ \A r \in Reconciler, o \in Op :
       /\ pc[r][o] # "idle" => clock[o] >= DeadlineTicks
       /\ pc[r][o] = "finalize" => o \in everActive

(* No script changes the age of a command that stays open.                 *)
AgesKept ==
  /\ \A o \in Op : Lane!Open(o)' =>
       \/ Lane!Open(o) /\ age'[o] = age[o]
       \/ o \notin known /\ age'[o] = 0
  /\ UNCHANGED <<live, ttl>> \/ ttl' # 0
  /\ known \subseteq known' /\ everActive \subseteq everActive'

LEMMA AgesKeptStep ==
  ASSUME Lane!TypeOK, NEW n \in Op, Lane!OpStep(n)
  PROVE  AgesKept
<1> USE DeadlinesAssumption DEF AgesKept, Lane!TypeOK, Lane!Open, Lane!chain,
        Lane!run, Lane!verdict
<1>1. CASE Lane!Allocate(n)
  BY <1>1 DEF Lane!Allocate, Lane!Droppable
<1>2. CASE Lane!PassUnchecked(n) \/ Lane!PassTerminal(n)
             \/ Lane!PassExpiring(n)
  BY <1>2 DEF Lane!PassUnchecked, Lane!PassTerminal, Lane!PassExpiring
<1>3. CASE \/ Lane!MarkActive(n) \/ Lane!RenewActive(n)
           \/ Lane!ReleaseActive(n) \/ Lane!RecordTechnicalRetry(n)
           \/ Lane!ClearTerminalTail(n)
  BY <1>3 DEF Lane!MarkActive, Lane!RenewActive, Lane!ReleaseActive,
     Lane!RecordTechnicalRetry, Lane!ClearTerminalTail, Lane!ClearActive
<1>4. ASSUME NEW t \in Lane!TerminalState, Lane!MarkTerminal(n, t)
      PROVE  AgesKept
  BY <1>4 DEF Lane!MarkTerminal, Lane!ClearActive, Lane!TerminalState
<1>5. CASE Lane!ExpireNeverActive(n) \/ Lane!FinalizeEverActiveAmbiguous(n)
  BY <1>5 DEF Lane!ExpireNeverActive, Lane!FinalizeEverActiveAmbiguous,
              Lane!ClearActive
<1>6. QED
  BY <1>1, <1>2, <1>3, <1>4, <1>5 DEF Lane!OpStep

(* A tick is counted by both, and it opens nothing.                        *)
LEMMA PassEffect ==
  ASSUME TypeOK, Pass
  PROVE  /\ UNCHANGED <<known, seq, terminal, everActive, satisfied,
                        registered, published, expired, pc, code>>
         /\ live' \subseteq live
         /\ \A o \in Op : clock'[o] = IF o \in known /\ clock[o] < CapTicks
                                      THEN clock[o] + 1 ELSE clock[o]
         /\ \A o \in Op : wait'[o] = IF wait[o] > 0 THEN wait[o] - 1 ELSE 0
         /\ stored' = {o \in stored : clock'[o] < CapTicks}
         /\ \A o \in stored' : owner'[o] = owner[o]
<1>1. /\ UNCHANGED <<known, seq, terminal, everActive, satisfied>>
      /\ live' \subseteq live
  BY DEF Pass, Lane!Tick, Lane!KeyExpires, Lane!chain, Lane!run,
         Lane!verdict, lane
<1>2. stored \subseteq Op
  BY DEF TypeOK, Lane!TypeOK
<1>3. QED
  BY <1>1, <1>2 DEF Pass, Lane!Down, work, told

LEMMA AgingStep ==
  ASSUME TypeOK, Aging, [Next]_vars
  PROVE  Aging'
<1>1. /\ live \subseteq known /\ known \subseteq Op
      /\ \A o \in Op : clock[o] \in 0 .. CapTicks /\ age[o] \in Nat
      /\ age \in [Op -> 0 .. DeadlineTicks]
      /\ ttl \in Nat
  BY DEF TypeOK, Lane!TypeOK
<1>2. CASE ~Pass /\ ~UNCHANGED lane
  <2>1. UNCHANGED clock /\ AgesKept
    BY <1>2, ScriptStep, AgesKeptStep DEF TypeOK
  <2>2. QED
    BY <1>1, <2>1, DeadlinesAssumption DEF Aging, AgesKept
<1>3. CASE ~Pass /\ UNCHANGED lane
  BY <1>3, ScriptStep DEF Aging, lane, Lane!Open
<1>4. CASE Pass
  <2>1. /\ UNCHANGED <<known, terminal>> /\ live' \subseteq live
        /\ \A o \in Op : clock'[o] = IF o \in known /\ clock[o] < CapTicks
                                     THEN clock[o] + 1 ELSE clock[o]
    BY <1>4, PassEffect
  <2>2. \A o \in Op \ known' : clock'[o] = 0
    BY <2>1 DEF Aging
  <2>3. CASE Lane!Tick
    <3>1. /\ ttl' # 0 /\ live' = live
          /\ \A o \in live : age'[o] = IF age[o] = DeadlineTicks
                                       THEN age[o] ELSE age[o] + 1
      BY <1>1, <2>3 DEF Lane!Tick, Lane!Due, Lane!chain
    <3>2. ASSUME NEW o \in Op, Lane!Open(o)'
          PROVE  age'[o] = IF clock'[o] < DeadlineTicks THEN clock'[o]
                           ELSE DeadlineTicks
      <4>1. o \in live /\ o \in known /\ Lane!Open(o)
        BY <1>1, <2>1, <3>1, <3>2 DEF Lane!Open
      <4>2. age[o] = IF clock[o] < DeadlineTicks THEN clock[o]
                     ELSE DeadlineTicks
        BY <4>1 DEF Aging
      <4>3. DeadlineTicks \in Nat /\ CapTicks \in Nat
            /\ DeadlineTicks < CapTicks
        BY DeadlinesAssumption
      <4>4. QED
        BY <1>1, <2>1, <3>1, <4>1, <4>2, <4>3
    <3>3. QED
      BY <2>2, <3>1, <3>2 DEF Aging
  <2>4. CASE Lane!KeyExpires
    BY <2>2, <2>4 DEF Lane!KeyExpires, Aging, Lane!Open
  <2>5. CASE ttl = 0 /\ UNCHANGED lane
    BY <2>2, <2>5 DEF Aging, lane, Lane!Open
  <2>6. QED
    BY <1>4, <2>3, <2>4, <2>5 DEF Pass
<1>5. QED
  BY <1>2, <1>3, <1>4

(* Where a reconciler may be found after a step on a record.               *)
LEMMA WorkMoves ==
  ASSUME Inv, [Next]_vars, NEW q \in Reconciler, NEW p \in Op
  PROVE  \/ pc'[q][p] = pc[q][p]
         \/ pc'[q][p] = "idle"
         \/ /\ pc'[q][p] \in {"look", "look_last"}
            /\ p \in stored /\ wait[p] = 0
         \/ /\ pc'[q][p] \in {"publish", "complete", "reschedule"}
            /\ pc[q][p] # "idle"
         \/ /\ pc'[q][p] = "finalize" /\ pc[q][p] = "look_last"
            /\ p \in everActive
<1> USE DEF Inv, TypeOK, work
<1>0. pc \in [Reconciler -> [Op -> Place]]
  BY DEF Place
<1>1. ASSUME NEW o \in Op,
             \/ Allocate(o) \/ Register(o) \/ Deliver(o) \/ LateFinalize(o)
             \/ QueuedExpire(o)
      PROVE  pc' = pc
  BY <1>1 DEF Allocate, Register, Deliver, LateFinalize, QueuedExpire
<1>2. CASE Pass
  BY <1>2, PassEffect
<1>3. ASSUME NEW r \in Reconciler, Crash(r)
      PROVE  pc'[q][p] = pc[q][p] \/ pc'[q][p] = "idle"
  BY <1>3 DEF Crash
<1>4. ASSUME NEW r \in Reconciler, NEW o \in Op, Reconcile(r, o)
      PROVE  \E place \in Place :
               /\ Goto(r, o, place)
               /\ \/ place = "idle"
                  \/ /\ place \in {"look", "look_last"}
                     /\ o \in stored /\ wait[o] = 0
                  \/ /\ place \in {"publish", "complete", "reschedule"}
                     /\ pc[r][o] # "idle"
                  \/ /\ place = "finalize" /\ pc[r][o] = "look_last"
                     /\ o \in everActive
  BY <1>4 DEF Reconcile, Claim, LookExpire, LookClosed, LookPending,
     LookStarted, Finalize, Publish, Complete, Reschedule, Throw, Conclude,
     Place
<1>5. ASSUME NEW r \in Reconciler, NEW o \in Op, NEW place \in Place,
             Goto(r, o, place)
      PROVE  pc'[q][p] = IF q = r /\ p = o THEN place ELSE pc[q][p]
  BY <1>0, <1>5, GotoEffect
<1>6. CASE UNCHANGED vars
  BY <1>6 DEF vars
<1>7. ASSUME NEW r \in Reconciler, NEW o \in Op, Reconcile(r, o)
      PROVE  \/ pc'[q][p] = pc[q][p]
             \/ pc'[q][p] = "idle"
             \/ /\ pc'[q][p] \in {"look", "look_last"}
                /\ p \in stored /\ wait[p] = 0
             \/ /\ pc'[q][p] \in {"publish", "complete", "reschedule"}
                /\ pc[q][p] # "idle"
             \/ /\ pc'[q][p] = "finalize" /\ pc[q][p] = "look_last"
                /\ p \in everActive
  BY <1>4, <1>5, <1>7
<1>8. QED
  BY <1>1, <1>2, <1>3, <1>6, <1>7 DEF Next

(* How a record comes to its place in the due index, time aside.           *)
LEMMA RecordMoves ==
  ASSUME Inv, [Next]_vars, ~Pass, NEW p \in stored'
  PROVE  \/ p \in stored /\ wait'[p] = wait[p]
         \/ /\ p \in stored /\ wait'[p] = 1
            /\ wait[p] = 0 \/ \E r \in Reconciler : pc[r][p] # "idle"
         \/ /\ p \in known \ stored
            /\ wait'[p] = IF clock[p] < DeadlineTicks
                          THEN DeadlineTicks - clock[p] ELSE 0
<1> USE DEF Inv, TypeOK, Lane!TypeOK, record
<1>1. ASSUME NEW o \in Op, Register(o)
      PROVE  \/ p \in stored /\ wait'[p] = wait[p]
             \/ /\ p \in known \ stored
                /\ wait'[p] = IF clock[p] < DeadlineTicks
                              THEN DeadlineTicks - clock[p] ELSE 0
  BY <1>1 DEF Register
<1>2. ASSUME NEW r \in Reconciler, NEW o \in Op,
             Claim(r, o) \/ Reschedule(r, o)
      PROVE  /\ p \in stored
             /\ \/ wait'[p] = wait[p]
                \/ /\ wait'[p] = 1
                   /\ wait[p] = 0 \/ \E q \in Reconciler : pc[q][p] # "idle"
  BY <1>2 DEF Claim, Reschedule
<1>3. ASSUME NEW r \in Reconciler, NEW o \in Op,
             \/ LookExpire(r, o) \/ LookClosed(r, o) \/ LookPending(r, o)
             \/ LookStarted(r, o) \/ Finalize(r, o) \/ Publish(r, o)
             \/ Complete(r, o) \/ Throw(r, o)
      PROVE  p \in stored /\ wait'[p] = wait[p]
  BY <1>3 DEF LookExpire, LookClosed, LookPending, LookStarted, Finalize,
     Publish, Complete, Throw
<1>4. ASSUME NEW o \in Op,
             Allocate(o) \/ Deliver(o) \/ LateFinalize(o) \/ QueuedExpire(o)
      PROVE  p \in stored /\ wait'[p] = wait[p]
  BY <1>4 DEF Allocate, Deliver, LateFinalize, QueuedExpire
<1>5. ASSUME NEW r \in Reconciler, Crash(r)
      PROVE  p \in stored /\ wait'[p] = wait[p]
  BY <1>5 DEF Crash
<1>6. CASE UNCHANGED vars
  BY <1>6 DEF vars
<1>7. QED
  BY <1>1, <1>2, <1>3, <1>4, <1>5, <1>6 DEF Next, Reconcile

LEMMA AskingStep ==
  ASSUME Inv, Asking, [Next]_vars
  PROVE  Asking'
<1>1. /\ stored \subseteq Op /\ known \subseteq Op
      /\ DeadlineTicks \in Nat /\ CapTicks \in Nat
      /\ \A o \in Op : clock[o] \in 0 .. CapTicks /\ wait[o] \in Nat
  BY DeadlinesAssumption DEF Inv, TypeOK, Lane!TypeOK
<1>2. /\ \A o \in Op : clock'[o] \in Nat /\ clock[o] <= clock'[o]
      /\ everActive \subseteq everActive'
  <2>1. CASE Pass
    BY <1>1, <2>1, PassEffect DEF Inv
  <2>2. CASE ~Pass /\ UNCHANGED lane
    BY <1>1, <2>2, ScriptStep DEF lane
  <2>3. CASE ~Pass /\ ~UNCHANGED lane
    BY <1>1, <2>3, ScriptStep, AgesKeptStep DEF AgesKept, Inv, TypeOK
  <2>4. QED
    BY <2>1, <2>2, <2>3
<1>3. ASSUME NEW p \in stored' PROVE clock'[p] + wait'[p] >= DeadlineTicks
  <2>1. CASE Pass
    <3>1. /\ p \in stored /\ clock[p] < CapTicks /\ p \in known
          /\ clock'[p] = clock[p] + 1
          /\ wait'[p] = IF wait[p] > 0 THEN wait[p] - 1 ELSE 0
      <4>1. p \in stored /\ clock'[p] < CapTicks /\ p \in known
        BY <1>3, <2>1, PassEffect DEF Inv, TypeOK
      <4>2. clock[p] < CapTicks
        BY <1>1, <1>2, <4>1
      <4>3. QED
        BY <1>1, <2>1, <4>1, <4>2, PassEffect DEF Inv
    <3>2. clock[p] + wait[p] >= DeadlineTicks
      BY <3>1 DEF Asking
    <3>3. QED
      BY <1>1, <3>1, <3>2
  <2>2. CASE ~Pass
    <3>1. p \in Op /\ clock'[p] = clock[p]
      BY <1>1, <2>2, RecordMoves, ScriptStep
    <3>2. CASE p \in stored /\ wait'[p] = wait[p]
      BY <3>1, <3>2 DEF Asking
    <3>3. CASE /\ p \in stored /\ wait'[p] = 1
               /\ wait[p] = 0 \/ \E r \in Reconciler : pc[r][p] # "idle"
      <4>1. clock[p] >= DeadlineTicks
        <5>1. CASE wait[p] = 0
          BY <1>1, <3>1, <3>3, <5>1 DEF Asking
        <5>2. CASE \E r \in Reconciler : pc[r][p] # "idle"
          BY <3>1, <5>2 DEF Asking
        <5>3. QED
          BY <3>3, <5>1, <5>2
      <4>2. QED
        BY <1>1, <3>1, <3>3, <4>1
    <3>4. CASE wait'[p] = IF clock[p] < DeadlineTicks
                          THEN DeadlineTicks - clock[p] ELSE 0
      BY <1>1, <3>1, <3>4
    <3>5. QED
      BY <1>3, <2>2, <3>2, <3>3, <3>4, RecordMoves
  <2>3. QED
    BY <2>1, <2>2
<1>4. ASSUME NEW r \in Reconciler, NEW p \in Op
      PROVE  /\ pc'[r][p] # "idle" => clock'[p] >= DeadlineTicks
             /\ pc'[r][p] = "finalize" => p \in everActive'
  <2>1. pc[r][p] # "idle" => clock[p] >= DeadlineTicks
    BY DEF Asking
  <2>2. p \in stored /\ wait[p] = 0 => clock[p] >= DeadlineTicks
    BY <1>1 DEF Asking
  <2>3. clock[p] >= DeadlineTicks => clock'[p] >= DeadlineTicks
    BY <1>1, <1>2
  <2>4. pc[r][p] = "finalize" => p \in everActive
    BY DEF Asking
  <2>5. QED
    BY <1>2, <2>1, <2>2, <2>3, <2>4, WorkMoves
<1>5. QED
  BY <1>3, <1>4 DEF Asking

(* Both hold in every reachable state.                                     *)
LEMMA AskingAlways == Spec => [](Aging /\ Asking)
<1>1. Init => Aging /\ Asking
  BY DEF Init, Lane!Init, Lane!Open, Aging, Asking
<1>2. Inv /\ (Aging /\ Asking) /\ [Next]_vars => (Aging /\ Asking)'
  BY AgingStep, AskingStep DEF Inv
<1>3. QED
  BY <1>1, <1>2, InvAlways, PTL DEF Spec

(* A reconciler that asks about a command finds it closed or due, and one  *)
(* that is to be finalized has started.                                    *)
AnswerReady ==
  /\ \A o \in Op : Lane!Open(o) /\ clock[o] >= DeadlineTicks => Lane!Due(o)
  /\ \A r \in Reconciler, o \in Op :
       /\ pc[r][o] \in {"look", "look_last", "finalize"} =>
            clock[o] >= DeadlineTicks
       /\ pc[r][o] = "finalize" => o \in everActive

(* A look always has an answer, whatever fails: the lane's scripts are     *)
(* asked about a command only when its deadline is over in the lane too.   *)
(* The code's scripts check no deadline: they rely on being asked late.    *)
THEOREM LooksAnswered == Spec => []AnswerReady
<1>1. TypeOK /\ Aging /\ Asking => AnswerReady
  <2> SUFFICES ASSUME TypeOK, Aging, Asking PROVE AnswerReady
    OBVIOUS
  <2>1. ASSUME NEW o \in Op, Lane!Open(o), clock[o] >= DeadlineTicks
        PROVE  Lane!Due(o)
    <3>1. clock[o] \in 0 .. CapTicks
      BY DEF TypeOK
    <3>2. ~(clock[o] < DeadlineTicks)
      BY <2>1, <3>1, DeadlinesAssumption
    <3>3. QED
      BY <2>1, <3>2 DEF Aging, Lane!Due
  <2>2. QED
    BY <2>1 DEF AnswerReady, Asking
<1>2. QED
  BY <1>1, AskingAlways, DeadlinesTypeCorrect, PTL

---------------------------------------------------------------------------
(* Without outages: when a record is due, and who works on it.             *)

(* A record becomes due at the deadline and within a tick of every look at *)
(* it; a reconciler works only on a record it owns, and knows from the     *)
(* clock whether the look is the last.                                     *)
Scheduled ==
  /\ \A o \in stored :
       /\ clock[o] < CapTicks
       /\ IF clock[o] < DeadlineTicks
          THEN wait[o] = DeadlineTicks - clock[o] ELSE wait[o] \in {0, 1}
  /\ \A r \in Reconciler, o \in Op : pc[r][o] # "idle" =>
       /\ o \in stored /\ owner[o] = r /\ wait[o] = 1
       /\ clock[o] >= DeadlineTicks
       /\ pc[r][o] = "look" => clock[o] < FinalTicks
       /\ pc[r][o] \in {"look_last", "finalize"} => clock[o] >= FinalTicks

(* What an action on one record, by one reconciler, leaves alone.          *)
Elsewhere(r, o) ==
  \A q \in Reconciler, p \in Op :
    ~(q = r /\ p = o) => pc'[q][p] = pc[q][p]

LEMMA Moves ==
  ASSUME TypeOK, NEW r \in Reconciler, NEW o \in Op, NEW place \in Place,
         Goto(r, o, place)
  PROVE  Elsewhere(r, o) /\ pc'[r][o] = place
<1>1. pc \in [Reconciler -> [Op -> Place]]
  BY DEF TypeOK, Place
<1>2. QED
  BY <1>1, GotoEffect DEF Elsewhere

(* A step that touches neither the registry nor the reconcilers.           *)
Aside == UNCHANGED <<clock, record, pc>>

(* Steps of a reconciler within a look leave the registry alone.           *)
Inside(r, o) ==
  /\ UNCHANGED <<clock, record>> /\ Elsewhere(r, o)
  /\ \/ /\ pc[r][o] # "idle"
        /\ pc'[r][o] \in {"publish", "complete", "reschedule"}
     \/ /\ pc[r][o] = "look_last"
        /\ pc'[r][o] = "finalize"

LEMMA InsideStep ==
  ASSUME TypeOK, Outage = FALSE, NEW r \in Reconciler, NEW o \in Op,
         \/ LookExpire(r, o) \/ LookClosed(r, o) \/ LookPending(r, o)
         \/ LookStarted(r, o) \/ Finalize(r, o) \/ Publish(r, o)
  PROVE  Inside(r, o)
<1>1. UNCHANGED <<clock, record>>
  BY DEF LookExpire, LookClosed, LookPending, LookStarted, Finalize, Publish
<1>2. PICK place \in {"publish", "complete", "reschedule", "finalize"} :
        /\ Goto(r, o, place) /\ pc[r][o] # "idle"
        /\ place = "finalize" => pc[r][o] = "look_last"
  BY DEF LookExpire, LookClosed, LookPending, LookStarted, Finalize, Publish,
         Conclude
<1>3. QED
  BY <1>1, <1>2, Moves DEF Inside, Place

LEMMA ScheduledStep ==
  ASSUME Inv, Scheduled, [Next]_vars, Outage = FALSE
  PROVE  Scheduled'
<1>1. /\ stored \subseteq Op /\ known \subseteq Op /\ stored \subseteq known
      /\ DeadlineTicks \in Nat \ {0} /\ FinalTicks \in Nat
      /\ CapTicks \in Nat
      /\ DeadlineTicks <= FinalTicks /\ FinalTicks < CapTicks
      /\ \A o \in Op : clock[o] \in 0 .. CapTicks /\ wait[o] \in Nat
      /\ wait \in [Op -> 0 .. DeadlineTicks]
      /\ owner \in [Op -> Reconciler \cup {None}]
  BY DeadlinesAssumption DEF Inv, TypeOK, Lane!TypeOK
<1>2. ASSUME Aside PROVE Scheduled'
  BY <1>2 DEF Aside, record, Scheduled
<1>3. ASSUME NEW o \in Op,
             \/ Allocate(o) \/ Deliver(o) \/ QueuedExpire(o)
      PROVE  Aside
  BY <1>3 DEF Allocate, Deliver, QueuedExpire, Aside, work
<1>4. ASSUME NEW o \in Op, Register(o) PROVE Scheduled'
  <2>1. /\ o \notin stored /\ clock[o] < 1 /\ stored' = stored \cup {o}
        /\ wait' = [wait EXCEPT ![o] = IF clock[o] < DeadlineTicks
                                       THEN DeadlineTicks - clock[o] ELSE 0]
        /\ UNCHANGED <<clock, owner, pc>>
    BY <1>4 DEF Register, work
  <2>2. wait'[o] = DeadlineTicks - clock[o] /\ clock[o] < DeadlineTicks
        /\ clock[o] < CapTicks
    BY <1>1, <2>1
  <2>3. \A p \in Op \ {o} : wait'[p] = wait[p]
    BY <1>1, <2>1
  <2>4. \A r \in Reconciler : pc[r][o] = "idle"
    BY <2>1 DEF Scheduled
  <2>5. QED
    BY <1>1, <2>1, <2>2, <2>3, <2>4 DEF Scheduled
<1>5. ASSUME NEW r \in Reconciler, NEW o \in Op, Claim(r, o)
      PROVE  Scheduled'
  <2>1. /\ o \in stored /\ wait[o] = 0
        /\ owner' = [owner EXCEPT ![o] = r] /\ wait' = [wait EXCEPT ![o] = 1]
        /\ UNCHANGED <<clock, stored>>
    BY <1>5 DEF Claim
  <2>2. /\ Elsewhere(r, o)
        /\ pc'[r][o] = IF clock[o] >= FinalTicks THEN "look_last" ELSE "look"
    BY <1>5, Moves DEF Claim, Inv, Place
  <2>3. \A q \in Reconciler : pc[q][o] = "idle"
    BY <2>1 DEF Scheduled
  <2>4. clock[o] >= DeadlineTicks
    BY <1>1, <2>1 DEF Scheduled
  <2>5. /\ wait'[o] = 1 /\ owner'[o] = r
        /\ \A p \in Op \ {o} : wait'[p] = wait[p] /\ owner'[p] = owner[p]
    BY <1>1, <2>1
  <2>6. ASSUME NEW p \in stored'
        PROVE  /\ clock'[p] < CapTicks
               /\ IF clock'[p] < DeadlineTicks
                  THEN wait'[p] = DeadlineTicks - clock'[p]
                  ELSE wait'[p] \in {0, 1}
    BY <1>1, <2>1, <2>4, <2>5 DEF Scheduled
  <2>7. ASSUME NEW q \in Reconciler, NEW p \in Op, pc'[q][p] # "idle"
        PROVE  /\ p \in stored' /\ owner'[p] = q /\ wait'[p] = 1
               /\ clock'[p] >= DeadlineTicks
               /\ pc'[q][p] = "look" => clock'[p] < FinalTicks
               /\ pc'[q][p] \in {"look_last", "finalize"} =>
                    clock'[p] >= FinalTicks
    <3>1. CASE q = r /\ p = o
      BY <1>1, <2>1, <2>2, <2>4, <2>5, <3>1
    <3>2. CASE ~(q = r /\ p = o)
      <4>1. pc'[q][p] = pc[q][p]
        BY <2>2, <3>2 DEF Elsewhere
      <4>2. p # o
        BY <2>3, <2>7, <4>1
      <4>3. QED
        BY <2>1, <2>5, <2>7, <4>1, <4>2 DEF Scheduled
    <3>3. QED
      BY <3>1, <3>2
  <2>8. QED
    BY <2>6, <2>7 DEF Scheduled
<1>6. ASSUME NEW r \in Reconciler, NEW o \in Op, Inside(r, o)
      PROVE  Scheduled'
  <2>1. /\ UNCHANGED <<clock, stored, wait, owner>>
        /\ \A q \in Reconciler, p \in Op :
             \/ pc'[q][p] = pc[q][p]
             \/ /\ pc[q][p] # "idle"
                /\ pc'[q][p] \in {"publish", "complete", "reschedule"}
             \/ pc[q][p] = "look_last" /\ pc'[q][p] = "finalize"
    BY <1>6 DEF Inside, Elsewhere, record
  <2>2. QED
    BY <2>1 DEF Scheduled
<1>7. ASSUME NEW r \in Reconciler, NEW o \in Op,
             Complete(r, o) \/ Reschedule(r, o)
      PROVE  Scheduled'
  <2>1. /\ pc[r][o] # "idle" /\ Goto(r, o, "idle")
        /\ stored' \subseteq stored /\ stored \ {o} \subseteq stored'
        /\ UNCHANGED clock
        /\ \A p \in Op \ {o} : wait'[p] = wait[p] /\ owner'[p] = owner[p]
        /\ wait'[o] = wait[o] \/ wait'[o] = 1
    BY <1>1, <1>7 DEF Complete, Reschedule
  <2>2. Elsewhere(r, o) /\ pc'[r][o] = "idle"
    BY <2>1, Moves DEF Inv, Place
  <2>3. /\ owner[o] = r /\ clock[o] >= DeadlineTicks /\ wait[o] = 1
        /\ \A q \in Reconciler : q # r => pc[q][o] = "idle"
    BY <2>1 DEF Scheduled
  <2>4. \A q \in Reconciler, p \in Op :
          pc'[q][p] # "idle" => p # o /\ pc'[q][p] = pc[q][p]
    BY <2>2, <2>3 DEF Elsewhere
  <2>5. \A p \in stored' : clock'[p] < CapTicks
          /\ IF clock'[p] < DeadlineTicks
             THEN wait'[p] = DeadlineTicks - clock'[p]
             ELSE wait'[p] \in {0, 1}
    BY <1>1, <2>1, <2>3 DEF Scheduled
  <2>6. \A q \in Reconciler, p \in Op : pc'[q][p] # "idle" =>
          /\ p \in stored' /\ owner'[p] = q /\ wait'[p] = 1
          /\ clock'[p] >= DeadlineTicks
          /\ pc'[q][p] = "look" => clock'[p] < FinalTicks
          /\ pc'[q][p] \in {"look_last", "finalize"} =>
               clock'[p] >= FinalTicks
    BY <2>1, <2>4 DEF Scheduled
  <2>7. QED
    BY <2>5, <2>6 DEF Scheduled
<1>8. ASSUME Pass PROVE Scheduled'
  <2>1. /\ \A r \in Reconciler, o \in Op : pc'[r][o] = "idle"
        /\ \A o \in stored : wait[o] > 0
    BY <1>1, <1>8, PassEffect DEF Pass, KeepingUp, Inv
  <2>2. ASSUME NEW p \in stored'
        PROVE  /\ clock'[p] < CapTicks
               /\ IF clock'[p] < DeadlineTicks
                  THEN wait'[p] = DeadlineTicks - clock'[p]
                  ELSE wait'[p] \in {0, 1}
    <3>1. p \in stored /\ p \in Op /\ p \in known /\ clock'[p] < CapTicks
      BY <1>1, <1>8, PassEffect DEF Inv
    <3>2. /\ clock'[p] = clock[p] + 1 /\ wait'[p] = wait[p] - 1
          /\ wait[p] > 0
      BY <1>1, <1>8, <2>1, <3>1, PassEffect DEF Inv, Scheduled
    <3>3. IF clock[p] < DeadlineTicks
          THEN wait[p] = DeadlineTicks - clock[p] ELSE wait[p] \in {0, 1}
      BY <3>1 DEF Scheduled
    <3>4. clock[p] \in Nat /\ wait[p] \in Nat
      BY <1>1, <3>1
    <3>5. QED
      BY <1>1, <3>1, <3>2, <3>3, <3>4
  <2>3. QED
    BY <2>1, <2>2 DEF Scheduled
<1>9. CASE UNCHANGED vars
  BY <1>2, <1>9 DEF vars, work, Aside
<1>10. QED
  BY <1>2, <1>3, <1>4, <1>5, <1>6, <1>7, <1>8, <1>9, InsideStep
  DEF Next, Reconcile, LateFinalize, Throw, Crash, Inv

---------------------------------------------------------------------------
(* The line of a chat, and the budget of its commands.                     *)

(* Finitely many commands have been admitted, and the earlier ones in the  *)
(* line are the older ones.                                                *)
InLine ==
  /\ IsFiniteSet(known)
  /\ \A o \in Op \ known : clock[o] = 0
  /\ \A p, q \in live : seq[p] < seq[q] => clock[q] <= clock[p]

LEMMA InLineStep ==
  ASSUME Inv, LaneProofs!LaneInv, InLine, [Next]_vars
  PROVE  InLine'
<1>1. /\ live \subseteq known /\ known \subseteq Op /\ CapTicks \in Nat
      /\ \A o \in Op : clock[o] \in 0 .. CapTicks
      /\ live' \subseteq known' /\ known' \subseteq Op
      /\ \A o \in Op : seq'[o] \in Nat /\ seq[o] \in Nat
  BY TypeStep, LanePlaces, DeadlinesAssumption DEF Inv, TypeOK, Lane!TypeOK
<1>2. LaneProofs!KeepsPlaces
  BY PlacesStep
<1>3. IsFiniteSet(known')
  <2>1. ASSUME NEW n \in Op, known' = known \cup {n}
        PROVE  IsFiniteSet(known')
    BY <2>1, FS_AddElement DEF InLine
  <2>2. QED
    BY <1>2, <2>1 DEF InLine, LaneProofs!KeepsPlaces
<1>4. CASE ~Pass
  <2>1. clock' = clock
    BY <1>4, ScriptStep
  <2>2. known \subseteq known'
    BY <1>2 DEF LaneProofs!KeepsPlaces
  <2>3. ASSUME NEW p \in live', NEW q \in live', seq'[p] < seq'[q]
        PROVE  clock'[q] <= clock'[p]
    <3>1. p \in Op /\ q \in Op
      BY <1>1
    <3>2. CASE q \notin known
      BY <1>1, <2>1, <3>1, <3>2 DEF InLine
    <3>3. CASE q \in known /\ p \notin known
      <4>1. seq'[q] < seq'[p]
        BY <1>2, <3>3 DEF LaneProofs!KeepsPlaces
      <4>2. QED
        BY <1>1, <2>3, <3>1, <4>1
    <3>4. CASE q \in known /\ p \in known
      <4>1. /\ p \in live /\ q \in live
            /\ seq'[p] = seq[p] /\ seq'[q] = seq[q]
        BY <1>2, <3>4 DEF LaneProofs!KeepsPlaces
      <4>2. QED
        BY <2>1, <2>3, <4>1 DEF InLine
    <3>5. QED
      BY <3>2, <3>3, <3>4
  <2>4. QED
    BY <1>3, <2>1, <2>2, <2>3 DEF InLine
<1>5. CASE Pass
  <2>1. /\ UNCHANGED <<known, seq>> /\ live' \subseteq live
        /\ \A o \in Op : clock'[o] = IF o \in known /\ clock[o] < CapTicks
                                     THEN clock[o] + 1 ELSE clock[o]
    BY <1>5, PassEffect DEF Inv
  <2>2. ASSUME NEW p \in live', NEW q \in live', seq'[p] < seq'[q]
        PROVE  clock'[q] <= clock'[p]
    <3>1. /\ p \in known /\ q \in known /\ p \in Op /\ q \in Op
          /\ clock[q] <= clock[p]
      BY <1>1, <2>1, <2>2 DEF InLine
    <3>2. /\ clock'[p] = IF clock[p] < CapTicks THEN clock[p] + 1
                         ELSE clock[p]
          /\ clock'[q] = IF clock[q] < CapTicks THEN clock[q] + 1
                         ELSE clock[q]
          /\ clock[p] \in 0 .. CapTicks /\ clock[q] \in 0 .. CapTicks
      BY <1>1, <2>1, <3>1
    <3>3. QED
      BY <1>1, <3>1, <3>2
  <2>3. QED
    BY <1>3, <2>1, <2>2 DEF InLine
<1>6. QED
  BY <1>4, <1>5

(* Everything that is a tick old has been registered.                      *)
Registering == \A o \in known : clock[o] >= 1 => o \in registered

LEMMA RegisteringStep ==
  ASSUME Inv, [Next]_vars, Outage = FALSE, Registering'
  PROVE  Registering
<1> SUFFICES ASSUME NEW o \in known, clock[o] >= 1 PROVE o \in registered
  BY DEF Registering
<1>1. o \in Op /\ clock[o] \in 0 .. CapTicks /\ CapTicks \in Nat
  BY DeadlinesAssumption DEF Inv, TypeOK, Lane!TypeOK
<1>2. o \in known'
  BY LaneStep, LaneKeepsStep DEF LaneKeeps, Inv, TypeOK
<1>3. clock'[o] >= 1
  <2>1. CASE Pass
    BY <1>1, <2>1, PassEffect DEF Inv
  <2>2. CASE ~Pass
    BY <2>2, ScriptStep
  <2>3. QED
    BY <2>1, <2>2
<1>4. o \in registered'
  BY <1>2, <1>3 DEF Registering
<1>5. \A n \in registered' \ registered : clock[n] < 1
  BY DEF Next, Reconcile, Pass, Allocate, Register, Deliver, LateFinalize,
     QueuedExpire, Claim, LookExpire, LookClosed, LookPending, LookStarted,
     Finalize, Publish, Complete, Reschedule, Throw, Crash, record, vars
<1>6. QED
  BY <1>1, <1>4, <1>5

(* The open commands up to o, and the one whose turn it is to be closed.   *)
Ahead(o) == {q \in Op : Lane!Open(q) /\ seq[q] <= seq[o]}

First(p) == Lane!Open(p) /\ \A q \in Op : Lane!Open(q) => seq[p] <= seq[q]

(* The last look at p in this tick is due, or under way.                   *)
Unseen(p) ==
  /\ p \in stored
  /\ \/ wait[p] = 0
     \/ \E r \in Reconciler : pc[r][p] \in {"look_last", "finalize"}

LEMMA AheadFinite ==
  ASSUME LaneProofs!LaneInv, InLine, NEW o \in Op
  PROVE  IsFiniteSet(Ahead(o)) /\ Cardinality(Ahead(o)) \in Nat
<1>1. Ahead(o) \subseteq known
  BY LanePlaces DEF Ahead, Lane!Open
<1>2. QED
  BY <1>1, FS_Subset, FS_CardinalityType DEF InLine

LEMMA FirstExists ==
  ASSUME LaneProofs!LaneInv, NEW o \in Op, Lane!Open(o)
  PROVE  \E p \in Op : First(p)
<1> DEFINE S == {seq[q] : q \in {x \in Op : Lane!Open(x)}}
<1>1. LaneProofs!LaneAssumption
  BY DeadlinesAssumption DEF LaneProofs!LaneAssumption
<1>2. S \in SUBSET Nat /\ S # {}
  BY LanePlaces
<1>3. \E n \in S : \A m \in S : n <= m
  <2> HIDE DEF S
  <2> QED
    BY <1>1, <1>2, LaneProofs!LeastNatural
<1>4. PICK n \in S : \A m \in S : n <= m
  BY <1>3
<1>5. PICK p \in Op : Lane!Open(p) /\ seq[p] = n
  OBVIOUS
<1>6. QED
  BY <1>4, <1>5 DEF First

(* Where a command that is past its last look stands: the commands up to   *)
(* it in the line fit into the ticks up to its cap, with one to spare when *)
(* the first of the line has been seen in this tick.                       *)
OnTime ==
  \A o \in Op : Lane!Open(o) /\ clock[o] >= FinalTicks =>
    /\ Cardinality(Ahead(o)) + clock[o] <= CapTicks
    /\ \A p \in Op : First(p) /\ ~Unseen(p) =>
         Cardinality(Ahead(o)) + clock[o] < CapTicks

(* A record that is put off past its last look has a tick for another one. *)
AnotherLook ==
  \A o \in stored :
    /\ clock[o] >= FinalTicks /\ wait[o] = 1
    /\ \A r \in Reconciler : pc[r][o] \in {"idle", "reschedule"}
    => clock[o] + 1 < CapTicks

(* A record that has gone has left its evidence.                           *)
Evidence ==
  \A o \in registered \ stored :
    published[o] # {} \/ terminal[o] = "succeeded"

Budget == OnTime /\ AnotherLook /\ Evidence

---------------------------------------------------------------------------
(* Within a tick: the first of the line remains to be seen until it is     *)
(* closed, and closing it takes one from everybody's count.                *)
LEMMA UnseenKept ==
  ASSUME Inv, LaneProofs!LaneInv, Scheduled, [Next]_vars, ~Pass,
         Outage = FALSE, NEW p \in Op, First(p), Unseen(p),
         clock[p] >= FinalTicks, Lane!Open(p)'
  PROVE  Unseen(p)'
<1>1. /\ p \in stored /\ FinalTicks \in Nat /\ clock[p] \in Nat
      /\ wait \in [Op -> 0 .. DeadlineTicks]
  BY DeadlinesAssumption DEF Unseen, Inv, TypeOK
<1>2. ASSUME p \in stored', wait'[p] = wait[p],
             \A q \in Reconciler : pc'[q][p] = pc[q][p]
      PROVE  Unseen(p)'
  BY <1>2 DEF Unseen
<1>3. ASSUME NEW o \in Op,
             Allocate(o) \/ Register(o) \/ Deliver(o) \/ QueuedExpire(o)
      PROVE  Unseen(p)'
  BY <1>1, <1>2, <1>3
  DEF Allocate, Register, Deliver, QueuedExpire, record, work
<1>4. ASSUME NEW r \in Reconciler, NEW o \in Op, Claim(r, o)
      PROVE  Unseen(p)'
  <2>1. /\ stored' = stored /\ wait' = [wait EXCEPT ![o] = 1]
        /\ Elsewhere(r, o)
        /\ pc'[r][o] = IF clock[o] >= FinalTicks THEN "look_last" ELSE "look"
    BY <1>4, Moves DEF Claim, Inv, Place
  <2>2. CASE p = o
    BY <1>1, <2>1, <2>2 DEF Unseen
  <2>3. CASE p # o
    BY <1>1, <1>2, <2>1, <2>3 DEF Elsewhere
  <2>4. QED
    BY <2>2, <2>3
<1>5. ASSUME NEW r \in Reconciler, NEW o \in Op, Inside(r, o), p # o
      PROVE  Unseen(p)'
  BY <1>1, <1>2, <1>5 DEF Inside, Elsewhere, record
<1>6. ASSUME NEW r \in Reconciler,
             LookExpire(r, p) \/ LookClosed(r, p) \/ Finalize(r, p)
      PROVE  FALSE
  BY <1>6 DEF LookExpire, LookClosed, Finalize, First, Lane!Open, lane, Inv,
     TypeOK, Lane!TypeOK, Lane!ExpireNeverActive,
     Lane!FinalizeEverActiveAmbiguous
<1>7. ASSUME NEW r \in Reconciler, LookPending(r, p) PROVE FALSE
  <2>1. PICK q \in Op : Lane!Open(q) /\ seq[q] < seq[p]
    BY <1>7, PendingBehind DEF LookPending
  <2>2. seq[p] <= seq[q] /\ seq[p] \in Nat /\ seq[q] \in Nat
    BY <2>1, LanePlaces DEF First
  <2>3. QED
    BY <2>1, <2>2
<1>8. ASSUME NEW r \in Reconciler, LookStarted(r, p) PROVE Unseen(p)'
  <2>1. pc[r][p] = "look_last"
    <3>1. CASE pc[r][p] = "look"
      BY <1>1, <3>1 DEF Scheduled
    <3>2. QED
      BY <1>8, <3>1 DEF LookStarted
  <2>2. pc'[r][p] = "finalize" /\ stored' = stored
    BY <1>8, <2>1, Moves DEF LookStarted, Inv, Place, record
  <2>3. QED
    BY <1>1, <2>2 DEF Unseen
<1>9. ASSUME NEW r \in Reconciler,
             pc[r][p] \in {"publish", "complete", "reschedule"}
      PROVE  FALSE
  <2>1. wait[p] = 1 /\ owner[p] = r
    BY <1>9 DEF Scheduled
  <2>2. PICK q \in Reconciler : pc[q][p] \in {"look_last", "finalize"}
    BY <2>1 DEF Unseen
  <2>3. owner[p] = q
    BY <2>2 DEF Scheduled
  <2>4. QED
    BY <1>9, <2>1, <2>2, <2>3
<1>10. ASSUME NEW r \in Reconciler, NEW o \in Op,
              Complete(r, o) \/ Reschedule(r, o)
       PROVE  Unseen(p)'
  <2>1. p # o
    BY <1>9, <1>10 DEF Complete, Reschedule
  <2>2. /\ Goto(r, o, "idle") /\ stored \ {o} \subseteq stored'
        /\ wait'[p] = wait[p]
    BY <1>1, <1>10, <2>1 DEF Complete, Reschedule
  <2>3. Elsewhere(r, o)
    BY <2>2, Moves DEF Inv, Place
  <2>4. QED
    BY <1>1, <1>2, <2>1, <2>2, <2>3 DEF Elsewhere
<1>11. ASSUME NEW r \in Reconciler, NEW o \in Op,
              \/ LookExpire(r, o) \/ LookClosed(r, o) \/ LookPending(r, o)
              \/ LookStarted(r, o) \/ Finalize(r, o) \/ Publish(r, o)
       PROVE  Unseen(p)'
  <2>1. CASE p # o
    BY <1>5, <1>11, <2>1, InsideStep DEF Inv
  <2>2. CASE p = o
    BY <1>6, <1>7, <1>8, <1>9, <1>11, <2>2 DEF Publish
  <2>3. QED
    BY <2>1, <2>2
<1>12. CASE UNCHANGED vars
  BY <1>1, <1>2, <1>12 DEF vars, record, work
<1>13. QED
  BY <1>3, <1>4, <1>10, <1>11, <1>12
  DEF Next, Reconcile, LateFinalize, Throw, Crash

LEMMA OnTimeKept ==
  ASSUME Inv, LaneProofs!LaneInv, Scheduled, InLine, OnTime,
         [Next]_vars, ~Pass, Outage = FALSE
  PROVE  OnTime'
<1>1. /\ live \subseteq known /\ known \subseteq Op
      /\ DeadlineTicks \in Nat \ {0} /\ FinalTicks \in Nat
      /\ CapTicks \in Nat /\ DeadlineTicks <= FinalTicks
      /\ \A o \in Op : /\ clock[o] \in Nat
                       /\ seq[o] \in Nat /\ seq'[o] \in Nat
      /\ live' \subseteq known' /\ known' \subseteq Op
  BY TypeStep, LanePlaces, DeadlinesAssumption DEF Inv, TypeOK, Lane!TypeOK
<1>2. LaneProofs!KeepsPlaces /\ LaneKeeps /\ clock' = clock
  BY PlacesStep, ScriptStep, LaneStep, LaneKeepsStep DEF Inv, TypeOK
<1> SUFFICES ASSUME NEW o \in Op, Lane!Open(o)', clock'[o] >= FinalTicks
             PROVE  /\ Cardinality(Ahead(o))' + clock'[o] <= CapTicks
                    /\ \A p \in Op : First(p)' /\ ~Unseen(p)' =>
                         Cardinality(Ahead(o))' + clock'[o] < CapTicks
  BY DEF OnTime
<1>3. o \in known
  BY <1>1, <1>2 DEF InLine
<1>4. \A q \in Op : Lane!Open(q)' /\ seq'[q] <= seq'[o] =>
        q \in known /\ Lane!Open(q) /\ seq'[q] = seq[q]
  <2> SUFFICES ASSUME NEW q \in Op, Lane!Open(q)', seq'[q] <= seq'[o]
               PROVE  q \in known /\ Lane!Open(q) /\ seq'[q] = seq[q]
    OBVIOUS
  <2>1. q \in live' /\ o \in live'
    BY DEF Lane!Open
  <2>2. q \in known
    <3>1. CASE q \notin known
      <4>1. seq'[o] < seq'[q]
        BY <1>2, <1>3, <2>1, <3>1 DEF LaneProofs!KeepsPlaces
      <4>2. QED
        BY <1>1, <4>1
    <3>2. QED
      BY <3>1
  <2>3. QED
    BY <1>2, <2>2 DEF LaneProofs!KeepsPlaces, LaneKeeps
<1>5. seq'[o] = seq[o] /\ Lane!Open(o) /\ clock[o] >= FinalTicks
  BY <1>1, <1>2, <1>4
<1>6. Ahead(o)' \subseteq Ahead(o)
  BY <1>4, <1>5 DEF Ahead
<1>7. /\ IsFiniteSet(Ahead(o)) /\ Cardinality(Ahead(o)) \in Nat
      /\ Cardinality(Ahead(o)) + clock[o] <= CapTicks
      /\ \A p \in Op : First(p) /\ ~Unseen(p) =>
           Cardinality(Ahead(o)) + clock[o] < CapTicks
  BY <1>5, AheadFinite DEF OnTime
<1>8. /\ Cardinality(Ahead(o)') <= Cardinality(Ahead(o))
      /\ Cardinality(Ahead(o)') \in Nat
  BY <1>6, <1>7, FS_Subset, FS_CardinalityType
<1>9. ASSUME NEW p \in Op, First(p)', ~Unseen(p)'
      PROVE  Cardinality(Ahead(o)') + clock[o] < CapTicks
  <2>1. /\ Lane!Open(p)' /\ \A q \in Op : Lane!Open(q)' => seq'[p] <= seq'[q]
    BY <1>9 DEF First
  <2>2. /\ p \in known /\ Lane!Open(p) /\ seq'[p] = seq[p]
        /\ seq[p] <= seq[o]
    BY <1>4, <1>5, <2>1
  <2>3. clock[p] >= FinalTicks
    <3>1. p \in live /\ o \in live
      BY <1>5, <2>2 DEF Lane!Open
    <3>2. CASE seq[p] = seq[o]
      BY <1>5, <3>1, <3>2, LanePlaces
    <3>3. CASE seq[p] # seq[o]
      <4>1. seq[p] < seq[o]
        BY <1>1, <2>2, <3>3
      <4>2. clock[o] <= clock[p]
        BY <3>1, <4>1 DEF InLine
      <4>3. QED
        BY <1>1, <1>5, <4>2
    <3>4. QED
      BY <3>2, <3>3
  <2>4. CASE First(p)
    <3>1. ~Unseen(p)
      BY <1>9, <2>1, <2>3, <2>4, UnseenKept
    <3>2. Cardinality(Ahead(o)) + clock[o] < CapTicks
      BY <1>7, <2>4, <3>1
    <3>3. QED
      BY <1>1, <1>7, <1>8, <3>2
  <2>5. CASE ~First(p)
    <3>1. PICK q \in Op : Lane!Open(q) /\ seq[q] < seq[p]
      BY <1>1, <2>2, <2>5 DEF First
    <3>2. q \in Ahead(o)
      BY <1>1, <2>2, <3>1 DEF Ahead
    <3>3. q \notin Ahead(o)'
      <4>1. q \in known
        BY <1>1, <3>1 DEF Lane!Open
      <4>2. seq'[q] = seq[q]
        BY <1>2, <4>1 DEF LaneProofs!KeepsPlaces
      <4>3. ~Lane!Open(q)'
        BY <1>1, <2>1, <2>2, <3>1, <4>2
      <4>4. QED
        BY <4>3 DEF Ahead
    <3>4. Ahead(o)' \subseteq Ahead(o) \ {q}
      BY <1>6, <3>3
    <3>5. /\ IsFiniteSet(Ahead(o) \ {q})
          /\ Cardinality(Ahead(o) \ {q}) = Cardinality(Ahead(o)) - 1
      BY <1>7, <3>2, FS_RemoveElement
    <3>6. Cardinality(Ahead(o)') <= Cardinality(Ahead(o)) - 1
      BY <3>4, <3>5, FS_Subset
    <3>7. QED
      BY <1>1, <1>7, <1>8, <3>6
  <2>6. QED
    BY <2>4, <2>5
<1>10. Cardinality(Ahead(o)') + clock[o] <= CapTicks
  BY <1>1, <1>7, <1>8
<1>11. QED
  BY <1>2, <1>9, <1>10

(* A command is put off past its last look only behind another one.        *)
LEMMA PendingIsSecond ==
  ASSUME LaneProofs!LaneInv, InLine, OnTime, NEW o \in Op,
         NEW r \in Reconciler, LookPending(r, o), clock[o] >= FinalTicks,
         clock[o] \in Nat
  PROVE  clock[o] + 1 < CapTicks
<1>1. Lane!Open(o) /\ ~Lane!DependenciesTerminal(o)
  BY DEF LookPending
<1>2. PICK q \in Op : Lane!Open(q) /\ seq[q] < seq[o]
  BY <1>1, PendingBehind
<1>3. /\ o \in Ahead(o) /\ q \in Ahead(o) \ {o}
      /\ IsFiniteSet(Ahead(o)) /\ Cardinality(Ahead(o)) \in Nat
  <2>1. seq[q] \in Nat /\ seq[o] \in Nat
    BY LanePlaces
  <2>2. o \in Ahead(o) /\ q \in Ahead(o) /\ q # o
    BY <1>1, <1>2, <2>1 DEF Ahead
  <2>3. QED
    BY <2>2, AheadFinite
<1>4. /\ IsFiniteSet(Ahead(o) \ {o})
      /\ Cardinality(Ahead(o) \ {o}) = Cardinality(Ahead(o)) - 1
  BY <1>3, FS_RemoveElement
<1>5. /\ IsFiniteSet((Ahead(o) \ {o}) \ {q})
      /\ Cardinality((Ahead(o) \ {o}) \ {q})
           = Cardinality(Ahead(o) \ {o}) - 1
  BY <1>3, <1>4, FS_RemoveElement
<1>6. Cardinality((Ahead(o) \ {o}) \ {q}) \in Nat
  BY <1>5, FS_CardinalityType
<1>7. Cardinality(Ahead(o)) + clock[o] <= CapTicks
  BY <1>1 DEF OnTime
<1>8. CapTicks \in Nat
  BY DeadlinesAssumption
<1>9. QED
  BY <1>3, <1>4, <1>5, <1>6, <1>7, <1>8

LEMMA AnotherLookKept ==
  ASSUME Inv, LaneProofs!LaneInv, Scheduled, InLine, OnTime, AnotherLook,
         [Next]_vars, ~Pass, Outage = FALSE
  PROVE  AnotherLook'
<1>1. /\ DeadlineTicks \in Nat \ {0} /\ FinalTicks \in Nat
      /\ DeadlineTicks <= FinalTicks
      /\ stored \subseteq Op /\ stored' \subseteq Op
      /\ \A o \in Op : clock[o] \in Nat
      /\ wait \in [Op -> 0 .. DeadlineTicks]
      /\ clock' = clock
  BY TypeStep, ScriptStep, DeadlinesAssumption DEF Inv, TypeOK, Lane!TypeOK
<1> SUFFICES ASSUME NEW p \in stored', clock[p] >= FinalTicks, wait'[p] = 1,
                    \A q \in Reconciler : pc'[q][p] \in {"idle", "reschedule"}
             PROVE  clock[p] + 1 < CapTicks
  BY <1>1 DEF AnotherLook
<1>2. p \in Op /\ ~(clock[p] < 1)
  BY <1>1
<1>3. ASSUME p \in stored, wait'[p] = wait[p],
             \A q \in Reconciler : pc'[q][p] = pc[q][p]
      PROVE  clock[p] + 1 < CapTicks
  BY <1>3 DEF AnotherLook
<1>4. ASSUME NEW o \in Op, Register(o) PROVE clock[p] + 1 < CapTicks
  <2>1. /\ p # o /\ stored' = stored \cup {o} /\ UNCHANGED pc
        /\ wait'[p] = wait[p]
    BY <1>1, <1>2, <1>4 DEF Register, work
  <2>2. QED
    BY <1>3, <2>1
<1>5. ASSUME NEW o \in Op, Allocate(o) \/ Deliver(o) \/ QueuedExpire(o)
      PROVE  clock[p] + 1 < CapTicks
  BY <1>3, <1>5 DEF Allocate, Deliver, QueuedExpire, record, work
<1>6. ASSUME NEW r \in Reconciler, NEW o \in Op, Claim(r, o)
      PROVE  clock[p] + 1 < CapTicks
  <2>1. /\ stored' = stored /\ wait' = [wait EXCEPT ![o] = 1]
        /\ Elsewhere(r, o) /\ pc'[r][o] \in {"look", "look_last"}
    BY <1>6, Moves DEF Claim, Inv, Place
  <2>2. p # o
    BY <2>1
  <2>3. QED
    BY <1>1, <1>2, <1>3, <2>1, <2>2 DEF Elsewhere
<1>7. ASSUME NEW r \in Reconciler, NEW o \in Op, Inside(r, o), p # o
      PROVE  clock[p] + 1 < CapTicks
  BY <1>2, <1>3, <1>7 DEF Inside, Elsewhere, record
<1>8. ASSUME NEW r \in Reconciler,
             \/ LookExpire(r, p) \/ LookClosed(r, p) \/ Finalize(r, p)
             \/ Publish(r, p)
      PROVE  FALSE
  <2>1. pc'[r][p] \in {"publish", "complete"}
    BY <1>2, <1>8, Moves DEF LookExpire, LookClosed, Finalize, Publish,
       Conclude, Inv, Place
  <2>2. QED
    BY <2>1
<1>9. ASSUME NEW r \in Reconciler, LookStarted(r, p) PROVE FALSE
  <2>1. pc[r][p] = "look_last"
    <3>1. CASE pc[r][p] = "look"
      BY <1>1, <1>2, <3>1 DEF Scheduled
    <3>2. QED
      BY <1>9, <3>1 DEF LookStarted
  <2>2. pc'[r][p] = "finalize"
    BY <1>2, <1>9, <2>1, Moves DEF LookStarted, Inv, Place
  <2>3. QED
    BY <2>2
<1>10. ASSUME NEW r \in Reconciler, NEW o \in Op,
              \/ LookExpire(r, o) \/ LookClosed(r, o) \/ LookPending(r, o)
              \/ LookStarted(r, o) \/ Finalize(r, o) \/ Publish(r, o)
       PROVE  clock[p] + 1 < CapTicks
  <2>1. CASE p # o
    BY <1>7, <1>10, <2>1, InsideStep DEF Inv
  <2>2. CASE p = o
    BY <1>1, <1>2, <1>8, <1>9, <1>10, <2>2, PendingIsSecond
  <2>3. QED
    BY <2>1, <2>2
<1>11. ASSUME NEW r \in Reconciler, NEW o \in Op,
              Complete(r, o) \/ Reschedule(r, o)
       PROVE  clock[p] + 1 < CapTicks
  <2>1. pc[r][o] \in {"complete", "reschedule"} /\ Goto(r, o, "idle")
    BY <1>11 DEF Complete, Reschedule
  <2>2. Elsewhere(r, o) /\ pc'[r][o] = "idle"
    BY <2>1, Moves DEF Inv, Place
  <2>3. /\ o \in stored /\ owner[o] = r /\ wait[o] = 1
        /\ \A q \in Reconciler : q # r => pc[q][o] = "idle"
    BY <2>1 DEF Scheduled
  <2>4. CASE p # o
    <3>1. p \in stored /\ wait'[p] = wait[p]
      BY <1>1, <1>2, <1>11, <2>4 DEF Complete, Reschedule
    <3>2. QED
      BY <1>2, <1>3, <2>2, <2>4, <3>1 DEF Elsewhere
  <2>5. CASE p = o
    <3>1. pc[r][o] = "reschedule"
      BY <1>11, <2>3, <2>5 DEF Complete, Reschedule, Owned
    <3>2. QED
      BY <2>3, <2>5, <3>1 DEF AnotherLook
  <2>6. QED
    BY <2>4, <2>5
<1>12. CASE UNCHANGED vars
  BY <1>3, <1>12 DEF vars, record, work
<1>13. QED
  BY <1>4, <1>5, <1>6, <1>10, <1>11, <1>12
  DEF Next, Reconcile, LateFinalize, Throw, Crash

(* A step that is no tick removes a record with its evidence only.         *)
LEMMA RemovedKept ==
  ASSUME Inv, [Next]_vars, ~Pass, NEW o \in stored, o \notin stored'
  PROVE  published[o] # {} \/ terminal[o] = "succeeded"
<1>1. o \in Op
  BY DEF Inv, TypeOK, Lane!TypeOK
<1>2. PICK r \in Reconciler : Complete(r, o)
  BY DEF Next, Reconcile, Allocate, Register, Deliver, LateFinalize,
     QueuedExpire, Claim, LookExpire, LookClosed, LookPending, LookStarted,
     Finalize, Publish, Complete, Reschedule, Throw, Crash, record, vars
<1>3. QED
  BY <1>1, <1>2 DEF Complete, Inv, Working

(* Evidence stays what it is.                                              *)
LEMMA EvidenceStays ==
  ASSUME Inv, [Next]_vars, NEW o \in Op,
         published[o] # {} \/ terminal[o] = "succeeded"
  PROVE  published'[o] # {} \/ terminal'[o] = "succeeded"
<1>1. LaneKeeps
  BY LaneStep, LaneKeepsStep DEF Inv, TypeOK
<1>2. published[o] \subseteq published'[o]
  BY DEF Next, Reconcile, Pass, Allocate, Register, Deliver, LateFinalize,
     QueuedExpire, Claim, LookExpire, LookClosed, LookPending, LookStarted,
     Finalize, Publish, Complete, Reschedule, Throw, Crash, told, vars, Inv,
     TypeOK
<1>3. QED
  BY <1>1, <1>2 DEF LaneKeeps

LEMMA EvidenceKept ==
  ASSUME Inv, [Next]_vars, ~Pass, Evidence
  PROVE  Evidence'
<1> SUFFICES ASSUME NEW o \in registered' \ stored'
             PROVE  published'[o] # {} \/ terminal'[o] = "succeeded"
  BY DEF Evidence
<1>1. o \in registered
  BY DEF Next, Reconcile, Allocate, Register, Deliver, LateFinalize,
     QueuedExpire, Claim, LookExpire, LookClosed, LookPending, LookStarted,
     Finalize, Publish, Complete, Reschedule, Throw, Crash, record, vars
<1>2. o \in Op
  BY <1>1 DEF Inv, TypeOK, Lane!TypeOK
<1>3. published[o] # {} \/ terminal[o] = "succeeded"
  BY <1>1, RemovedKept DEF Evidence
<1>4. QED
  BY <1>2, <1>3, EvidenceStays

---------------------------------------------------------------------------
(* A tick of the clock: everything due has been seen, so nothing is at its *)
(* cap, each budget has one to spare, and the first of the line is due     *)
(* again afterwards.                                                       *)
LEMMA NothingDropped ==
  ASSUME Inv, Scheduled, AnotherLook, Pass, Outage = FALSE
  PROVE  stored' = stored
<1> SUFFICES ASSUME NEW p \in stored PROVE clock'[p] < CapTicks
  BY PassEffect DEF Inv
<1>1. /\ p \in Op /\ p \in known
      /\ clock[p] \in Nat /\ clock[p] < CapTicks /\ CapTicks \in Nat
      /\ DeadlineTicks \in Nat /\ FinalTicks \in Nat
      /\ DeadlineTicks <= FinalTicks /\ FinalTicks < CapTicks
  BY DeadlinesAssumption DEF Inv, TypeOK, Lane!TypeOK, Scheduled
<1>2. clock'[p] = clock[p] + 1
  BY <1>1, PassEffect DEF Inv
<1>3. /\ wait[p] > 0 /\ wait[p] \in Nat
      /\ \A r \in Reconciler : pc[r][p] = "idle"
  BY <1>1 DEF Pass, KeepingUp, Inv, TypeOK
<1>4. CASE clock[p] >= FinalTicks
  <2>1. ~(clock[p] < DeadlineTicks)
    BY <1>1, <1>4
  <2>2. wait[p] \in {0, 1}
    BY <2>1 DEF Scheduled
  <2>3. clock[p] + 1 < CapTicks
    BY <1>3, <1>4, <2>2 DEF AnotherLook
  <2>4. QED
    BY <1>2, <2>3
<1>5. CASE ~(clock[p] >= FinalTicks)
  BY <1>1, <1>2, <1>5
<1>6. QED
  BY <1>4, <1>5

(* The commands that are open past their last look; and the load: there    *)
(* are never more of them in a chat than the margin has ticks.             *)
Late == {o \in Op : Lane!Open(o) /\ clock[o] >= FinalTicks}

FewLate == Cardinality(Late) <= CapTicks - FinalTicks

LEMMA PassOnTime ==
  ASSUME Inv, LaneProofs!LaneInv, LaneProofs!LaneInv', Scheduled, Scheduled',
         InLine, InLine', Budget, Registering', FewLate', Pass,
         Outage = FALSE
  PROVE  OnTime'
<1>1. /\ live \subseteq known /\ known \subseteq Op
      /\ DeadlineTicks \in Nat \ {0} /\ FinalTicks \in Nat
      /\ CapTicks \in Nat /\ DeadlineTicks <= FinalTicks
      /\ FinalTicks < CapTicks
      /\ \A o \in Op : clock[o] \in 0 .. CapTicks /\ seq[o] \in Nat
                       /\ wait[o] \in Nat
      /\ stored \subseteq Op
  BY LanePlaces, DeadlinesAssumption DEF Inv, TypeOK, Lane!TypeOK
<1>2. /\ UNCHANGED <<known, seq, terminal, registered>>
      /\ live' \subseteq live
      /\ \A o \in Op : clock'[o] = IF o \in known /\ clock[o] < CapTicks
                                   THEN clock[o] + 1 ELSE clock[o]
      /\ \A o \in Op : wait'[o] = IF wait[o] > 0 THEN wait[o] - 1 ELSE 0
  BY PassEffect DEF Inv
<1>3. stored' = stored
  BY NothingDropped DEF Budget
<1>4. \A q \in Op : Lane!Open(q)' => Lane!Open(q)
  BY <1>2 DEF Lane!Open
<1>5. \A p \in Op : ~Unseen(p)
  BY DEF Pass, KeepingUp, Unseen
<1> SUFFICES ASSUME NEW o \in Op, Lane!Open(o)', clock'[o] >= FinalTicks
             PROVE  /\ Cardinality(Ahead(o))' + clock'[o] <= CapTicks
                    /\ \A p \in Op : First(p)' => Unseen(p)'
  BY DEF OnTime
<1>6. /\ Ahead(o)' \subseteq Ahead(o)
      /\ IsFiniteSet(Ahead(o)) /\ Cardinality(Ahead(o)) \in Nat
  BY <1>2, <1>4, AheadFinite DEF Ahead
<1>7. /\ Cardinality(Ahead(o)') <= Cardinality(Ahead(o))
      /\ Cardinality(Ahead(o)') \in Nat /\ IsFiniteSet(Ahead(o)')
  BY <1>6, FS_Subset, FS_CardinalityType
<1>8. o \in known /\ Lane!Open(o) /\ o \in live'
  BY <1>1, <1>4 DEF Lane!Open
<1>9. Cardinality(Ahead(o)') + clock'[o] <= CapTicks
  <2>1. CASE clock[o] >= FinalTicks
    <3>1. PICK p \in Op : First(p)
      BY <1>8, FirstExists
    <3>2. Cardinality(Ahead(o)) + clock[o] < CapTicks
      BY <1>5, <1>8, <2>1, <3>1 DEF Budget, OnTime
    <3>3. clock[o] \in Nat /\ clock'[o] <= clock[o] + 1 /\ clock'[o] \in Nat
      BY <1>1, <1>2
    <3>4. QED
      BY <1>1, <1>6, <1>7, <3>2, <3>3
  <2>2. CASE ~(clock[o] >= FinalTicks)
    <3>1. clock'[o] = FinalTicks
      BY <1>1, <1>2, <1>8, <2>2
    <3>2. Ahead(o)' \subseteq Late'
      <4> SUFFICES ASSUME NEW q \in Op, Lane!Open(q)', seq'[q] <= seq'[o]
                   PROVE  clock'[q] >= FinalTicks
        BY DEF Ahead, Late
      <4>1. q \in live'
        BY DEF Lane!Open
      <4>2. CASE seq[q] = seq[o]
        <5>1. q = o
          BY <1>2, <1>8, <4>1, <4>2, LanePlaces
        <5>2. QED
          BY <1>1, <3>1, <5>1
      <4>3. CASE seq[q] # seq[o]
        <5>1. seq'[q] < seq'[o]
          BY <1>1, <1>2, <4>3
        <5>2. clock'[o] <= clock'[q]
          BY <1>8, <4>1, <5>1 DEF InLine
        <5>3. QED
          BY <3>1, <5>2
      <4>4. QED
        BY <4>2, <4>3
    <3>3. IsFiniteSet(Late')
      <4>1. Late' \subseteq known'
        BY <1>1, <1>2 DEF Late, Lane!Open
      <4>2. QED
        BY <4>1, FS_Subset DEF InLine
    <3>4. /\ Cardinality(Ahead(o)') <= Cardinality(Late')
          /\ Cardinality(Late') \in Nat
      BY <3>2, <3>3, FS_Subset, FS_CardinalityType
    <3>5. Cardinality(Late') <= CapTicks - FinalTicks
      BY DEF FewLate
    <3>6. QED
      BY <1>1, <1>7, <3>1, <3>4, <3>5
  <2>3. QED
    BY <2>1, <2>2
<1>10. ASSUME NEW p \in Op, First(p)' PROVE Unseen(p)'
  <2>1. /\ Lane!Open(p)' /\ p \in live' /\ p \in known /\ Lane!Open(p)
        /\ seq'[p] <= seq'[o]
    BY <1>1, <1>4, <1>10 DEF First, Lane!Open
  <2>2. clock'[p] >= FinalTicks
    <3>1. CASE seq[p] = seq[o]
      BY <1>2, <1>8, <2>1, <3>1, LanePlaces
    <3>2. CASE seq[p] # seq[o]
      <4>1. seq'[p] < seq'[o]
        BY <1>1, <1>2, <2>1, <3>2
      <4>2. clock'[o] <= clock'[p]
        BY <1>8, <2>1, <4>1 DEF InLine
      <4>3. clock'[p] \in Nat /\ clock'[o] \in Nat
        BY <1>1, <1>2
      <4>4. QED
        BY <1>1, <4>2, <4>3
    <3>3. QED
      BY <3>1, <3>2
  <2>3. clock'[p] \in Nat /\ clock'[p] >= 1
    BY <1>1, <1>2, <2>2
  <2>4. p \in registered
    BY <1>2, <2>1, <2>3 DEF Registering
  <2>5. p \in stored
    <3>1. published[p] = {} /\ terminal[p] # "succeeded"
      BY <2>1 DEF Inv, SaidWhenClosed, Lane!Open
    <3>2. QED
      BY <2>4, <3>1 DEF Budget, Evidence
  <2>6. wait'[p] = 0
    <3>1. clock'[p] = clock[p] + 1
      <4>1. clock[p] < CapTicks
        BY <2>5 DEF Scheduled
      <4>2. QED
        BY <1>2, <2>1, <4>1
    <3>2. wait[p] > 0
      BY <2>5 DEF Pass, KeepingUp
    <3>3. IF clock[p] < DeadlineTicks
          THEN wait[p] = DeadlineTicks - clock[p] ELSE wait[p] \in {0, 1}
      BY <2>5 DEF Scheduled
    <3>4. wait[p] = 1
      BY <1>1, <2>2, <3>1, <3>2, <3>3
    <3>5. QED
      BY <1>2, <3>4
  <2>7. QED
    BY <1>3, <2>5, <2>6 DEF Unseen
<1>11. QED
  BY <1>9, <1>10

---------------------------------------------------------------------------
(* The invariant: the schedule and the line hold whatever is registered,   *)
(* the budget as long as admission has registered what is a tick old.      *)
CapInv == Scheduled /\ InLine /\ (Registering => Budget)

LEMMA CapInit ==
  ASSUME Init
  PROVE  CapInv
<1>1. IsFiniteSet(known)
  BY FS_EmptySet DEF Init, Lane!Init
<1>2. Scheduled
  BY DEF Init, Scheduled
<1>3. InLine
  BY <1>1 DEF Init, Lane!Init, InLine
<1>4. OnTime /\ AnotherLook /\ Evidence
  BY DEF Init, Lane!Init, Lane!Open, OnTime, AnotherLook, Evidence
<1>5. QED
  BY <1>2, <1>3, <1>4 DEF CapInv, Budget

LEMMA CapStep ==
  ASSUME Outage = FALSE, Inv, LaneProofs!LaneInv, LaneProofs!LaneInv',
         CapInv, FewLate', [Next]_vars
  PROVE  CapInv'
<1>1. Scheduled'
  BY ScheduledStep DEF CapInv
<1>2. InLine'
  BY InLineStep DEF CapInv
<1>3. ASSUME Registering' PROVE Budget'
  <2>1. Scheduled /\ InLine /\ Budget
    BY <1>3, RegisteringStep DEF CapInv
  <2>2. CASE ~Pass
    BY <2>1, <2>2, OnTimeKept, AnotherLookKept, EvidenceKept DEF Budget
  <2>3. CASE Pass
    <3>1. OnTime'
      BY <1>1, <1>2, <1>3, <2>1, <2>3, PassOnTime
    <3>2. stored' = stored /\ UNCHANGED <<registered, published, terminal>>
      BY <2>1, <2>3, NothingDropped, PassEffect DEF Budget, Inv
    <3>3. Evidence'
      BY <2>1, <3>2 DEF Budget, Evidence
    <3>4. AnotherLook'
      <4> SUFFICES ASSUME NEW o \in stored', wait'[o] = 1
                   PROVE  ~(clock'[o] >= FinalTicks)
        BY DEF AnotherLook
      <4>1. /\ o \in stored /\ o \in Op /\ clock'[o] \in Nat
            /\ wait[o] \in Nat /\ clock[o] \in Nat
            /\ DeadlineTicks \in Nat /\ FinalTicks \in Nat
            /\ DeadlineTicks <= FinalTicks
        BY <3>2, TypeStep, DeadlinesAssumption
        DEF Inv, TypeOK, Lane!TypeOK
      <4>2. wait[o] = 2
        BY <2>3, <4>1, PassEffect DEF Inv
      <4>3. clock[o] < DeadlineTicks /\ wait[o] = DeadlineTicks - clock[o]
        BY <2>1, <4>1, <4>2 DEF Scheduled
      <4>4. clock'[o] <= clock[o] + 1
        BY <2>3, <4>1, PassEffect DEF Inv
      <4>5. QED
        BY <4>1, <4>2, <4>3, <4>4
    <3>5. QED
      BY <3>1, <3>3, <3>4 DEF Budget
  <2>4. QED
    BY <2>2, <2>3
<1>4. QED
  BY <1>1, <1>2, <1>3 DEF CapInv

(* Under the load it is made for, it holds in every reachable state.       *)
LEMMA CapAlways ==
  ASSUME Outage = FALSE
  PROVE  Spec /\ []FewLate => []CapInv
<1>1. Init => CapInv
  BY CapInit
<1>2. /\ Inv /\ LaneProofs!LaneInv /\ LaneProofs!LaneInv'
      /\ CapInv /\ FewLate' /\ [Next]_vars
      => CapInv'
  BY CapStep
<1>3. QED
  BY <1>1, <1>2, InvAlways, LaneAlways, PTL DEF Spec

(* With a reconciler that keeps up, an admission that registers what it    *)
(* allocates, and no more commands of a chat open past their last look     *)
(* than the margin before the cap has ticks, every command has been        *)
(* reported or has succeeded when its record reaches the cap: its worker   *)
(* may be dead, and it may wait behind commands whose workers are.         *)
THEOREM DeadlinesResolved ==
  ASSUME Outage = FALSE
  PROVE  Spec /\ []FewLate => []ResolvedByCap
<1>1. Inv /\ CapInv => ResolvedByCap
  <2> SUFFICES ASSUME Inv, CapInv, known \subseteq registered,
                      NEW o \in registered, clock[o] = CapTicks
               PROVE  published[o] # {} \/ terminal[o] = "succeeded"
    BY DEF ResolvedByCap
  <2>1. Scheduled /\ Budget
    BY DEF CapInv, Registering
  <2>2. o \notin stored
    BY <2>1, DeadlinesAssumption DEF Scheduled
  <2>3. QED
    BY <2>1, <2>2 DEF Budget, Evidence
<1>2. QED
  BY <1>1, CapAlways, InvAlways, PTL

(* Under the same conditions the cap itself never takes a record: whatever *)
(* leaves the registry leaves it with its evidence.                        *)
THEOREM DeadlinesNeverDrop ==
  ASSUME Outage = FALSE
  PROVE  Spec /\ []FewLate =>
           [][Registering => \A o \in stored \ stored' :
                published[o] # {} \/ terminal[o] = "succeeded"]_vars
<1> DEFINE Kept == Registering => \A o \in stored \ stored' :
                     published[o] # {} \/ terminal[o] = "succeeded"
<1>1. Inv /\ CapInv /\ [Next]_vars => Kept
  <2> SUFFICES ASSUME Inv, CapInv, [Next]_vars, Registering,
                      NEW o \in stored \ stored'
               PROVE  published[o] # {} \/ terminal[o] = "succeeded"
    OBVIOUS
  <2>1. ~Pass
    BY NothingDropped DEF CapInv, Budget
  <2>2. QED
    BY <2>1, RemovedKept
<1>2. Inv /\ CapInv /\ [Next]_vars => [Kept]_vars
  BY <1>1
<1>3. QED
  BY <1>2, CapAlways, InvAlways, PTL DEF Spec
==============================================================================
