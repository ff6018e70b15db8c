----------------------- MODULE CommandDeadlines_proofs -----------------------
(***************************************************************************)
(* Proofs about CommandDeadlines, for any number of commands, reconcilers  *)
(* and outages.  Every step is a step of the lane or leaves it alone, so   *)
(* the lane's theorems hold here too (LaneProofs).                         *)
(***************************************************************************)
EXTENDS CommandDeadlines, TLAPS

LaneProofs == INSTANCE CommandLane_proofs

(* What is said of an operation is said after the lane has closed it.      *)
SaidWhenClosed ==
  \A o \in Op :
    \/ published[o] # {} \/ o \in expired
    \/ \E r \in Reconciler : pc[r][o] = "publish"
    => o \in known /\ ~Lane!Open(o)

(* A reconciler works on allocated operations; what it is about to publish *)
(* is what the lane says, and it removes a record with evidence only.      *)
Working ==
  \A r \in Reconciler, o \in Op :
    /\ pc[r][o] # "idle" => o \in known
    /\ pc[r][o] = "publish" => code[r][o] \in Code /\ LaneSays(o, code[r][o])
    /\ pc[r][o] = "complete" => published[o] # {} \/ terminal[o] = "succeeded"

Inv == TypeOK /\ SaidWhenClosed /\ Working /\ ReportsAgree

---------------------------------------------------------------------------
(* The lane's part of a step.                                              *)

(* The lane is instantiated twice: for the actions, and with its theorems. *)
LEMMA SameLane ==
  /\ Lane!Init <=> LaneProofs!Init
  /\ Lane!TypeOK <=> LaneProofs!TypeOK
  /\ [Lane!Next]_(Lane!vars) <=> [LaneProofs!Next]_(LaneProofs!vars)
BY DEF Lane!Next, Lane!OpStep, Lane!Tick, Lane!KeyExpires, Lane!Allocate,
       Lane!PassUnchecked, Lane!PassTerminal, Lane!PassExpiring,
       Lane!MarkActive, Lane!RenewActive, Lane!ReleaseActive,
       Lane!RecordTechnicalRetry, Lane!MarkTerminal,
       Lane!ExpireNeverActive, Lane!FinalizeEverActiveAmbiguous,
       Lane!ClearTerminalTail, Lane!ClearActive, Lane!MayClose,
       Lane!Droppable, Lane!Inherits, Lane!DependenciesTerminal, Lane!Down,
       Lane!Due, Lane!Open, Lane!Done, Lane!TerminalState, Lane!vars,
       Lane!chain, Lane!run, Lane!verdict, Lane!Init, Lane!TypeOK,
       LaneProofs!Next, LaneProofs!OpStep, LaneProofs!Tick,
       LaneProofs!KeyExpires, LaneProofs!Allocate,
       LaneProofs!PassUnchecked, LaneProofs!PassTerminal,
       LaneProofs!PassExpiring, LaneProofs!MarkActive,
       LaneProofs!RenewActive, LaneProofs!ReleaseActive,
       LaneProofs!RecordTechnicalRetry, LaneProofs!MarkTerminal,
       LaneProofs!ExpireNeverActive,
       LaneProofs!FinalizeEverActiveAmbiguous,
       LaneProofs!ClearTerminalTail, LaneProofs!ClearActive,
       LaneProofs!MayClose, LaneProofs!Droppable, LaneProofs!Inherits,
       LaneProofs!DependenciesTerminal, LaneProofs!Down, LaneProofs!Due,
       LaneProofs!Open, LaneProofs!Done, LaneProofs!TerminalState,
       LaneProofs!vars, LaneProofs!chain, LaneProofs!run,
       LaneProofs!verdict, LaneProofs!Init, LaneProofs!TypeOK

(* The lane's types hold at the start and survive every lane step.         *)
LEMMA LaneTyped ==
  /\ Lane!Init => Lane!TypeOK
  /\ Lane!TypeOK /\ [Lane!Next]_(Lane!vars) => Lane!TypeOK'
<1>1. LaneProofs!LaneAssumption
  BY DeadlinesAssumption DEF LaneProofs!LaneAssumption
<1>2. LaneProofs!TypeOK /\ [LaneProofs!Next]_(LaneProofs!vars)
        => LaneProofs!TypeOK'
  BY <1>1, LaneProofs!TypeStep
<1>3. Lane!Init => Lane!TypeOK
  BY <1>1 DEF Lane!Init, Lane!TypeOK, LaneProofs!LaneAssumption,
              Lane!TerminalState
<1>4. (Lane!TypeOK <=> LaneProofs!TypeOK)'
  BY DEF Lane!TypeOK, LaneProofs!TypeOK, Lane!TerminalState,
         LaneProofs!TerminalState
<1>5. QED
  BY <1>2, <1>3, <1>4, SameLane

(* Every step here is one of the lane's actions or leaves the lane alone.  *)
LEMMA LaneStep ==
  ASSUME [Next]_vars
  PROVE  [Lane!Next]_(Lane!vars)
<1> USE DEF lane, Lane!vars, Lane!chain, Lane!run, Lane!verdict
<1>1. ASSUME NEW o \in Op, Allocate(o) PROVE Lane!Next
  BY <1>1 DEF Allocate, Lane!Next, Lane!OpStep
<1>2. ASSUME NEW o \in Op, Deliver(o) PROVE Lane!Next
  BY <1>2 DEF Deliver, Lane!Next, Lane!OpStep
<1>3. ASSUME NEW o \in Op, LateFinalize(o) PROVE Lane!Next
  BY <1>3 DEF LateFinalize, Lane!Next, Lane!OpStep
<1>4. ASSUME NEW o \in Op, QueuedExpire(o) PROVE [Lane!Next]_(Lane!vars)
  BY <1>4 DEF QueuedExpire, Lane!Next, Lane!OpStep
<1>5. ASSUME NEW o \in Op, Register(o) PROVE UNCHANGED Lane!vars
  BY <1>5 DEF Register
<1>6. ASSUME NEW o \in Op, NEW r \in Reconciler, LookExpire(r, o)
      PROVE Lane!Next
  BY <1>6 DEF LookExpire, Lane!Next, Lane!OpStep
<1>7. ASSUME NEW o \in Op, NEW r \in Reconciler, Finalize(r, o)
      PROVE Lane!Next
  BY <1>7 DEF Finalize, Lane!Next, Lane!OpStep
<1>8. ASSUME NEW o \in Op, NEW r \in Reconciler,
             Reconcile(r, o), ~LookExpire(r, o), ~Finalize(r, o)
      PROVE UNCHANGED Lane!vars
  BY <1>8 DEF Reconcile, Claim, LookClosed, LookPending, LookStarted,
              Publish, Complete, Reschedule, Throw
<1>9. CASE Pass
  BY <1>9 DEF Pass, Lane!Next
<1>10. ASSUME NEW r \in Reconciler, Crash(r) PROVE UNCHANGED Lane!vars
  BY <1>10 DEF Crash
<1>11. CASE UNCHANGED vars
  BY <1>11 DEF vars
<1>12. QED
  BY <1>1, <1>2, <1>3, <1>4, <1>5, <1>6, <1>7, <1>8, <1>9, <1>10, <1>11
  DEF Next

(* What the deadline protocol relies on: the lane forgets no allocation,   *)
(* reopens nothing, keeps a terminal state, and starts open work only.     *)
LaneKeeps ==
  /\ known \subseteq known'
  /\ \A o \in Op : terminal[o] # "none" => terminal'[o] = terminal[o]
  /\ \A o \in known : ~Lane!Open(o) => ~Lane!Open(o)'
  /\ \A o \in known \ live : o \notin live'
  /\ \A o \in everActive' \ everActive : Lane!Open(o)

(* The lane keeps these promises in every step of its own.                 *)
LEMMA LaneKeepsStep ==
  ASSUME Lane!TypeOK, [Lane!Next]_(Lane!vars)
  PROVE  LaneKeeps
<1> USE DEF LaneKeeps, Lane!TypeOK, Lane!Open, Lane!vars, Lane!chain,
            Lane!run, Lane!verdict
<1>1. ASSUME NEW o \in Op, Lane!Allocate(o) PROVE LaneKeeps
  BY <1>1 DEF Lane!Allocate, Lane!Droppable
<1>2. ASSUME NEW o \in Op,
             Lane!PassUnchecked(o) \/ Lane!PassTerminal(o)
               \/ Lane!PassExpiring(o)
      PROVE LaneKeeps
  BY <1>2 DEF Lane!PassUnchecked, Lane!PassTerminal, Lane!PassExpiring
<1>3. ASSUME NEW o \in Op,
             Lane!MarkActive(o) \/ Lane!RenewActive(o)
               \/ Lane!ReleaseActive(o) \/ Lane!RecordTechnicalRetry(o)
      PROVE LaneKeeps
  BY <1>3 DEF Lane!MarkActive, Lane!RenewActive, Lane!ReleaseActive,
              Lane!RecordTechnicalRetry, Lane!ClearActive
<1>4. ASSUME NEW o \in Op, NEW t \in Lane!TerminalState,
             Lane!MarkTerminal(o, t)
      PROVE LaneKeeps
  BY <1>4 DEF Lane!MarkTerminal, Lane!ClearActive, Lane!TerminalState
<1>5. ASSUME NEW o \in Op,
             Lane!ExpireNeverActive(o) \/ Lane!FinalizeEverActiveAmbiguous(o)
               \/ Lane!ClearTerminalTail(o)
      PROVE LaneKeeps
  BY <1>5 DEF Lane!ExpireNeverActive, Lane!FinalizeEverActiveAmbiguous,
              Lane!ClearTerminalTail, Lane!ClearActive
<1>6. CASE Lane!Tick \/ Lane!KeyExpires
  BY <1>6 DEF Lane!Tick, Lane!KeyExpires
<1>7. CASE UNCHANGED Lane!vars
  BY <1>7
<1>8. QED
  BY <1>1, <1>2, <1>3, <1>4, <1>5, <1>6, <1>7 DEF Lane!Next, Lane!OpStep

---------------------------------------------------------------------------
(* Where a reconciler goes, and the code it takes along.                   *)
Place == {"idle", "look", "look_last", "finalize", "publish", "complete",
          "reschedule"}

LEMMA GotoEffect ==
  ASSUME pc \in [Reconciler -> [Op -> Place]],
         NEW r \in Reconciler, NEW o \in Op, NEW place \in Place,
         Goto(r, o, place)
  PROVE  /\ pc' \in [Reconciler -> [Op -> Place]]
         /\ \A q \in Reconciler, p \in Op :
              pc'[q][p] = IF q = r /\ p = o THEN place ELSE pc[q][p]
BY DEF Goto

(* Its code field changes for one reconciler and one record only.          *)
LEMMA CodeEffect ==
  ASSUME code \in [Reconciler -> [Op -> Code \cup {"none"}]],
         NEW r \in Reconciler, NEW o \in Op, NEW c \in Code \cup {"none"},
         code' = [code EXCEPT ![r][o] = c]
  PROVE  /\ code' \in [Reconciler -> [Op -> Code \cup {"none"}]]
         /\ \A q \in Reconciler, p \in Op :
              code'[q][p] = IF q = r /\ p = o THEN c ELSE code[q][p]
OBVIOUS

(* A verdict comes from a lane that has closed the operation, or lost it.  *)
LEMMA VerdictType ==
  ASSUME TypeOK, NEW o \in Op, ~Lane!Open(o)
  PROVE  /\ Verdict(o) \in Code \cup {"succeeded"}
         /\ LaneSays(o, Verdict(o))
<1>1. CASE o \in live
  <2>1. Verdict(o) = terminal[o] /\ terminal[o] # "none"
    BY <1>1 DEF Verdict, Lane!Open
  <2>2. terminal[o] \in Lane!TerminalState \cup {"none"}
    BY DEF TypeOK, Lane!TypeOK
  <2>3. QED
    BY <2>1, <2>2 DEF Lane!TerminalState, Code, LaneSays
<1>2. CASE o \notin live
  BY <1>2 DEF Verdict, Code, LaneSays
<1>3. QED
  BY <1>1, <1>2

(* A success leads to completion, any other verdict to its publication.    *)
LEMMA ConcludeEffect ==
  ASSUME TypeOK, NEW r \in Reconciler, NEW o \in Op,
         NEW verdict \in Code \cup {"succeeded"}, Conclude(r, o, verdict)
  PROVE  /\ pc' \in [Reconciler -> [Op -> Place]]
         /\ code' \in [Reconciler -> [Op -> Code \cup {"none"}]]
         /\ \A q \in Reconciler, p \in Op :
              IF q = r /\ p = o
              THEN IF verdict = "succeeded" THEN pc'[q][p] = "complete"
                   ELSE pc'[q][p] = "publish" /\ code'[q][p] = verdict
              ELSE pc'[q][p] = pc[q][p] /\ code'[q][p] = code[q][p]
<1> DEFINE place == IF verdict = "succeeded" THEN "complete" ELSE "publish"
           c == IF verdict = "succeeded" THEN "none" ELSE verdict
<1>1. place \in Place /\ c \in Code \cup {"none"}
  BY DEF Place
<1>2. Goto(r, o, place) /\ code' = [code EXCEPT ![r][o] = c]
  BY DEF Conclude
<1>3. /\ pc \in [Reconciler -> [Op -> Place]]
      /\ code \in [Reconciler -> [Op -> Code \cup {"none"}]]
  BY DEF TypeOK, Place
<1> HIDE DEF place, c
<1>4. /\ pc' \in [Reconciler -> [Op -> Place]]
      /\ \A q \in Reconciler, p \in Op :
           pc'[q][p] = IF q = r /\ p = o THEN place ELSE pc[q][p]
  BY <1>1, <1>2, <1>3, GotoEffect
<1>5. /\ code' \in [Reconciler -> [Op -> Code \cup {"none"}]]
      /\ \A q \in Reconciler, p \in Op :
           code'[q][p] = IF q = r /\ p = o THEN c ELSE code[q][p]
  BY <1>1, <1>2, <1>3, CodeEffect
<1>6. QED
  BY <1>4, <1>5 DEF place, c

---------------------------------------------------------------------------
(* Types are preserved; that a published code is a code needs Working.      *)
LEMMA TypeStep ==
  ASSUME Inv, [Next]_vars
  PROVE  TypeOK'
<1>1. Lane!TypeOK' /\ known \subseteq known'
  BY LaneStep, LaneTyped, LaneKeepsStep DEF Inv, TypeOK, LaneKeeps
<1> USE <1>1, DeadlinesAssumption
    DEF Inv, TypeOK, record, work, told
<1>0. /\ pc \in [Reconciler -> [Op -> Place]]
      /\ code \in [Reconciler -> [Op -> Code \cup {"none"}]]
  BY DEF Place
<1>2. ASSUME NEW o \in Op, Allocate(o) PROVE TypeOK'
  BY <1>2 DEF Allocate
<1>3. ASSUME NEW o \in Op, Register(o) PROVE TypeOK'
  <2> USE <1>3 DEF Register
  <2>1. wait' \in [Op -> 0 .. DeadlineTicks]
    OBVIOUS
  <2>2. QED
    BY <2>1 DEF lane
<1>4. ASSUME NEW o \in Op, Deliver(o) PROVE TypeOK'
  BY <1>4 DEF Deliver
<1>5. ASSUME NEW o \in Op, LateFinalize(o) PROVE TypeOK'
  BY <1>5 DEF LateFinalize
<1>6. ASSUME NEW o \in Op, QueuedExpire(o) PROVE TypeOK'
  BY <1>6 DEF QueuedExpire
<1>7. ASSUME NEW o \in Op, NEW r \in Reconciler, Claim(r, o) PROVE TypeOK'
  <2>1. pc' \in [Reconciler -> [Op -> Place]]
    BY <1>0, <1>7, GotoEffect DEF Claim, Place
  <2>2. wait' \in [Op -> 0 .. DeadlineTicks]
        /\ owner' \in [Op -> Reconciler \cup {None}]
    BY <1>7 DEF Claim
  <2>3. QED
    BY <1>7, <2>1, <2>2 DEF Claim, Place
<1>8. ASSUME NEW o \in Op, NEW r \in Reconciler,
             LookExpire(r, o) \/ LookClosed(r, o) \/ Finalize(r, o)
      PROVE TypeOK'
  <2>1. PICK v \in Code \cup {"succeeded"} : Conclude(r, o, v)
    BY <1>8, VerdictType DEF LookExpire, LookClosed, Finalize, Code
  <2>2. /\ pc' \in [Reconciler -> [Op -> Place]]
        /\ code' \in [Reconciler -> [Op -> Code \cup {"none"}]]
    BY <2>1, ConcludeEffect
  <2>3. QED
    BY <1>8, <2>2 DEF LookExpire, LookClosed, Finalize, Place
<1>9. ASSUME NEW o \in Op, NEW r \in Reconciler,
             LookPending(r, o) \/ LookStarted(r, o)
      PROVE TypeOK'
  <2>1. pc' \in [Reconciler -> [Op -> Place]]
    BY <1>0, <1>9, GotoEffect DEF LookPending, LookStarted, Place
  <2>2. QED
    BY <1>9, <2>1 DEF LookPending, LookStarted, Place
<1>10. ASSUME NEW o \in Op, NEW r \in Reconciler,
              Publish(r, o) \/ Throw(r, o)
       PROVE TypeOK'
  <2>1. pc' \in [Reconciler -> [Op -> Place]]
    BY <1>0, <1>10, GotoEffect DEF Publish, Throw, Place
  <2>2. code' \in [Reconciler -> [Op -> Code \cup {"none"}]]
    BY <1>0, <1>10, CodeEffect DEF Publish, Throw
  <2>3. published' \in [Op -> SUBSET Code]
    BY <1>10 DEF Publish, Throw, Working
  <2>4. QED
    BY <1>10, <2>1, <2>2, <2>3 DEF Publish, Throw, Place
<1>11. ASSUME NEW o \in Op, NEW r \in Reconciler,
              Complete(r, o) \/ Reschedule(r, o)
       PROVE TypeOK'
  <2>1. pc' \in [Reconciler -> [Op -> Place]]
    BY <1>0, <1>11, GotoEffect DEF Complete, Reschedule, Place
  <2>2. /\ stored' \subseteq registered
        /\ wait' \in [Op -> 0 .. DeadlineTicks]
        /\ owner' \in [Op -> Reconciler \cup {None}]
    BY <1>11 DEF Complete, Reschedule
  <2>3. QED
    BY <1>11, <2>1, <2>2 DEF Complete, Reschedule, Place
<1>12. CASE Pass
  BY <1>12 DEF Pass, Lane!Down
<1>13. ASSUME NEW r \in Reconciler, Crash(r) PROVE TypeOK'
  BY <1>13 DEF Crash
<1>14. CASE UNCHANGED vars
  BY <1>14 DEF vars
<1>15. QED
  BY <1>2, <1>3, <1>4, <1>5, <1>6, <1>7, <1>8, <1>9, <1>10, <1>11, <1>12,
     <1>13, <1>14 DEF Next, Reconcile

---------------------------------------------------------------------------
(* What the lane has once said of an operation it goes on saying.          *)
LEMMA SaysOn ==
  ASSUME LaneKeeps, NEW o \in known \cap Op, NEW c \in Code, LaneSays(o, c)
  PROVE  LaneSays(o, c)'
BY DEF LaneKeeps, LaneSays, Code

(* What has been published the lane goes on saying.                        *)
LEMMA ReportsKept ==
  ASSUME Inv, LaneKeeps, NEW p \in Op, NEW c \in published[p]
  PROVE  LaneSays(p, c)'
<1>1. p \in known
  BY DEF Inv, SaidWhenClosed
<1>2. c \in Code
  BY DEF Inv, TypeOK
<1>3. LaneSays(p, c)
  BY DEF Inv, ReportsAgree
<1>4. QED
  BY <1>1, <1>2, <1>3, SaysOn

(* A step that publishes nothing keeps the reports in agreement.           *)
LEMMA ReportsUnchanged ==
  ASSUME Inv, LaneKeeps, UNCHANGED published
  PROVE  ReportsAgree'
BY ReportsKept DEF ReportsAgree

(* Work that goes on, ends, or moves with what its next place requires.    *)
LEMMA WorkingKept ==
  ASSUME Inv, LaneKeeps,
         \A p \in Op : published[p] # {} => published'[p] # {},
         \A q \in Reconciler, p \in Op :
           \/ pc'[q][p] = pc[q][p] /\ code'[q][p] = code[q][p]
           \/ pc'[q][p] = "idle"
           \/ /\ p \in known
              /\ pc'[q][p] = "publish" =>
                   code'[q][p] \in Code /\ LaneSays(p, code[q][p])'
              /\ pc'[q][p] = "complete" =>
                   published'[p] # {} \/ terminal'[p] = "succeeded"
  PROVE  Working'
<1> SUFFICES ASSUME NEW q \in Reconciler, NEW p \in Op
             PROVE  /\ pc'[q][p] # "idle" => p \in known'
                    /\ pc'[q][p] = "publish" =>
                         code'[q][p] \in Code /\ LaneSays(p, code[q][p])'
                    /\ pc'[q][p] = "complete" =>
                         published'[p] # {} \/ terminal'[p] = "succeeded"
  BY DEF Working
<1>1. CASE pc'[q][p] = pc[q][p] /\ code'[q][p] = code[q][p]
  <2>1. /\ pc[q][p] # "idle" => p \in known
        /\ pc[q][p] = "publish" =>
             code[q][p] \in Code /\ LaneSays(p, code[q][p])
        /\ pc[q][p] = "complete" =>
             published[p] # {} \/ terminal[p] = "succeeded"
    BY DEF Inv, Working
  <2>2. pc'[q][p] = "publish" => LaneSays(p, code[q][p])'
    <3> SUFFICES ASSUME pc'[q][p] = "publish" PROVE LaneSays(p, code[q][p])'
      OBVIOUS
    <3>1. p \in known /\ code[q][p] \in Code /\ LaneSays(p, code[q][p])
      BY <1>1, <2>1
    <3>2. QED
      BY <1>1, <3>1 DEF LaneKeeps, LaneSays, Code
  <2>3. QED
    BY <1>1, <2>1, <2>2 DEF LaneKeeps
<1>2. CASE ~(pc'[q][p] = pc[q][p] /\ code'[q][p] = code[q][p])
  BY <1>2 DEF LaneKeeps
<1>3. QED
  BY <1>1, <1>2

(* A step that leaves the reconcilers and what is said alone.              *)
LEMMA QuietStep ==
  ASSUME Inv, LaneKeeps, UNCHANGED <<work, told>>
  PROVE  SaidWhenClosed' /\ Working' /\ ReportsAgree'
<1> USE DEF Inv, TypeOK, LaneKeeps, work, told
<1>1. SaidWhenClosed'
  BY DEF SaidWhenClosed
<1>2. Working'
  BY WorkingKept
<1>3. ReportsAgree'
  BY ReportsUnchanged
<1>4. QED
  BY <1>1, <1>2, <1>3

(* A reconciler that has learnt a verdict: its operation is closed.        *)
LEMMA ConcludeStep ==
  ASSUME Inv, LaneKeeps, UNCHANGED told,
         NEW r \in Reconciler, NEW o \in known, ~Lane!Open(o)',
         NEW verdict \in Code \cup {"succeeded"}, Conclude(r, o, verdict),
         \/ verdict = terminal'[o]
         \/ verdict = "ambiguous" /\ o \notin live'
  PROVE  SaidWhenClosed' /\ Working' /\ ReportsAgree'
<1>1. o \in Op
  BY DEF Inv, TypeOK, Lane!TypeOK
<1>2. /\ \A q \in Reconciler, p \in Op :
           IF q = r /\ p = o
           THEN IF verdict = "succeeded" THEN pc'[q][p] = "complete"
                ELSE pc'[q][p] = "publish" /\ code'[q][p] = verdict
           ELSE pc'[q][p] = pc[q][p] /\ code'[q][p] = code[q][p]
  BY <1>1, ConcludeEffect DEF Inv
<1> USE <1>1, <1>2 DEF Inv, TypeOK, LaneKeeps, told
<1>3. SaidWhenClosed'
  BY DEF SaidWhenClosed
<1>4. Working'
  <2>1. \A q \in Reconciler, p \in Op :
          \/ pc'[q][p] = pc[q][p] /\ code'[q][p] = code[q][p]
          \/ /\ p \in known
             /\ pc'[q][p] = "publish" =>
                  code'[q][p] \in Code /\ LaneSays(p, code[q][p])'
             /\ pc'[q][p] = "complete" =>
                  published'[p] # {} \/ terminal'[p] = "succeeded"
    BY DEF LaneSays, Code
  <2>2. QED
    BY <2>1, WorkingKept
<1>5. ReportsAgree'
  BY ReportsUnchanged
<1>6. QED
  BY <1>3, <1>4, <1>5

(* A reconciler that moves on without a verdict.                           *)
LEMMA MoveStep ==
  ASSUME Inv, LaneKeeps, UNCHANGED told,
         NEW r \in Reconciler, NEW o \in known, NEW place \in Place,
         Goto(r, o, place), place \notin {"publish", "complete"},
         \A q \in Reconciler, p \in Op :
           ~(q = r /\ p = o) => code'[q][p] = code[q][p]
  PROVE  SaidWhenClosed' /\ Working' /\ ReportsAgree'
<1>1. o \in Op /\ pc \in [Reconciler -> [Op -> Place]]
  BY DEF Inv, TypeOK, Lane!TypeOK, Place
<1>2. \A q \in Reconciler, p \in Op :
        pc'[q][p] = IF q = r /\ p = o THEN place ELSE pc[q][p]
  BY <1>1, GotoEffect
<1> USE <1>1, <1>2 DEF Inv, TypeOK, LaneKeeps, told
<1>3. SaidWhenClosed'
  BY DEF SaidWhenClosed
<1>4. Working'
  BY WorkingKept
<1>5. ReportsAgree'
  BY ReportsUnchanged
<1>6. QED
  BY <1>3, <1>4, <1>5

(* The invariant is preserved, action by action.                           *)
LEMMA InvStep ==
  ASSUME Inv, [Next]_vars
  PROVE  Inv'
<1> DEFINE Goal == SaidWhenClosed' /\ Working' /\ ReportsAgree'
<1>1. LaneKeeps /\ TypeOK'
  BY LaneStep, LaneKeepsStep, TypeStep DEF Inv, TypeOK
<1>2. /\ pc \in [Reconciler -> [Op -> Place]]
      /\ code \in [Reconciler -> [Op -> Code \cup {"none"}]]
  BY DEF Inv, TypeOK, Place
<1>3. \A r \in Reconciler, o \in Op : pc[r][o] # "idle" => o \in known
  BY DEF Inv, Working
<1>4. ASSUME NEW o \in Op,
             Allocate(o) \/ Register(o) \/ Deliver(o) \/ LateFinalize(o)
      PROVE Goal
  BY <1>1, <1>4, QuietStep DEF Allocate, Register, Deliver, LateFinalize
<1>5. ASSUME Pass PROVE Goal
  BY <1>1, <1>5, QuietStep DEF Pass
<1>6. ASSUME UNCHANGED vars PROVE Goal
  BY <1>1, <1>6, QuietStep DEF vars
<1>7. ASSUME NEW o \in Op, QueuedExpire(o) PROVE Goal
  <2>1. o \in known /\ ~Lane!Open(o)'
    BY <1>1, <1>7 DEF QueuedExpire, LaneKeeps, Lane!ExpireNeverActive,
       Lane!Open, Inv, TypeOK, Lane!TypeOK
  <2>2. UNCHANGED <<pc, code, published>> /\ expired' = expired \cup {o}
    BY <1>7 DEF QueuedExpire, work
  <2> USE <1>1, <2>1, <2>2 DEF Inv, TypeOK, LaneKeeps
  <2>3. SaidWhenClosed'
    BY DEF SaidWhenClosed
  <2>4. Working'
    BY WorkingKept
  <2>5. ReportsAgree'
    BY ReportsUnchanged
  <2>6. QED
    BY <2>3, <2>4, <2>5
<1>8. ASSUME NEW r \in Reconciler, NEW o \in Op,
             LookExpire(r, o) \/ Finalize(r, o) \/ LookClosed(r, o)
      PROVE Goal
  <2>1. o \in known /\ UNCHANGED told
    BY <1>3, <1>8 DEF LookExpire, Finalize, LookClosed
  <2>2. PICK v \in Code \cup {"succeeded"} :
          /\ Conclude(r, o, v)
          /\ \/ v = terminal'[o]
             \/ v = "ambiguous" /\ o \notin live'
          /\ ~Lane!Open(o)'
    <3>1. CASE LookExpire(r, o)
      <4>1. /\ o \in live /\ terminal' = [terminal EXCEPT ![o] = "expired"]
            /\ Conclude(r, o, "expired")
        BY <3>1 DEF LookExpire, Lane!ExpireNeverActive, Lane!Open
      <4>2. terminal'[o] = "expired" /\ ~Lane!Open(o)'
        BY <4>1 DEF Inv, TypeOK, Lane!TypeOK, Lane!Open
      <4>3. QED
        BY <4>1, <4>2 DEF Code
    <3>2. CASE Finalize(r, o)
      BY <3>2 DEF Finalize, Lane!FinalizeEverActiveAmbiguous, Lane!Open, Code,
                  Inv, TypeOK, Lane!TypeOK
    <3>3. CASE LookClosed(r, o)
      <4>1. /\ ~Lane!Open(o) /\ Conclude(r, o, Verdict(o))
            /\ terminal' = terminal /\ live' = live
        BY <3>3 DEF LookClosed, lane
      <4>2. ~Lane!Open(o)'
        BY <1>1, <2>1, <4>1 DEF LaneKeeps
      <4>3. QED
        BY <4>1, <4>2, VerdictType DEF Inv, LaneSays
    <3>4. QED
      BY <1>8, <3>1, <3>2, <3>3
  <2>3. QED
    BY <1>1, <2>1, <2>2, ConcludeStep
<1>9. ASSUME NEW r \in Reconciler, NEW o \in Op,
             Claim(r, o) \/ LookPending(r, o) \/ LookStarted(r, o)
               \/ Complete(r, o) \/ Reschedule(r, o) \/ Throw(r, o)
      PROVE Goal
  <2>1. o \in known
    BY <1>3, <1>9 DEF Claim, LookPending, LookStarted, Complete, Reschedule,
       Throw, Inv, TypeOK
  <2>2. \E place \in Place : Goto(r, o, place)
                              /\ place \notin {"publish", "complete"}
    BY <1>9 DEF Claim, LookPending, LookStarted, Complete, Reschedule, Throw,
       Place
  <2>3. UNCHANGED told
        /\ \A q \in Reconciler, p \in Op :
             ~(q = r /\ p = o) => code'[q][p] = code[q][p]
    BY <1>2, <1>9, CodeEffect
    DEF Claim, LookPending, LookStarted, Complete, Reschedule, Throw
  <2>4. QED
    BY <1>1, <2>1, <2>2, <2>3, MoveStep
<1>10. ASSUME NEW r \in Reconciler, NEW o \in Op, Publish(r, o) PROVE Goal
  <2>1. /\ o \in known /\ ~Lane!Open(o)
        /\ code[r][o] \in Code /\ LaneSays(o, code[r][o])
    BY <1>10 DEF Publish, Inv, SaidWhenClosed, Working
  <2>2. /\ published' = [published EXCEPT ![o] = @ \cup {code[r][o]}]
        /\ UNCHANGED expired
    BY <1>10 DEF Publish
  <2>3. PICK place \in {"complete", "reschedule"} : Goto(r, o, place)
    BY <1>10 DEF Publish
  <2>4. \A q \in Reconciler, p \in Op :
          /\ pc'[q][p] = IF q = r /\ p = o THEN place ELSE pc[q][p]
          /\ code'[q][p] = IF q = r /\ p = o THEN "none" ELSE code[q][p]
    <3>1. place \in Place
      BY <2>3 DEF Place
    <3>2. QED
      BY <1>2, <1>10, <2>3, <3>1, GotoEffect, CodeEffect DEF Publish
  <2> USE <1>1, <2>1, <2>2, <2>4 DEF Inv, TypeOK, LaneKeeps
  <2>5. SaidWhenClosed'
    BY DEF SaidWhenClosed
  <2>6. Working'
    <3>1. /\ published'[o] # {}
          /\ \A p \in Op : published[p] # {} => published'[p] # {}
      OBVIOUS
    <3>2. \A q \in Reconciler, p \in Op :
            \/ pc'[q][p] = pc[q][p] /\ code'[q][p] = code[q][p]
            \/ p = o /\ pc'[q][p] \in {"complete", "reschedule"}
      BY <2>3
    <3>3. QED
      BY <3>1, <3>2, WorkingKept
  <2>7. ReportsAgree'
    <3> SUFFICES ASSUME NEW p \in Op, NEW c \in published'[p]
                 PROVE  LaneSays(p, c)'
      BY DEF ReportsAgree
    <3>1. CASE c \in published[p]
      BY <3>1, ReportsKept
    <3>2. CASE c \notin published[p]
      <4>1. p = o /\ c = code[r][o]
        BY <3>2
      <4>2. QED
        BY <2>1, <4>1, SaysOn
    <3>3. QED
      BY <3>1, <3>2
  <2>8. QED
    BY <2>5, <2>6, <2>7
<1>11. ASSUME NEW r \in Reconciler, Crash(r) PROVE Goal
  <2>1. /\ \A q \in Reconciler, p \in Op : q # r =>
             pc'[q][p] = pc[q][p] /\ code'[q][p] = code[q][p]
        /\ \A p \in Op : pc'[r][p] = "idle"
        /\ UNCHANGED <<published, expired>>
    BY <1>2, <1>11 DEF Crash, told
  <2> USE <1>1, <2>1 DEF Inv, TypeOK, LaneKeeps
  <2>2. SaidWhenClosed'
    <3>1. \A q \in Reconciler, p \in Op :
            pc'[q][p] = "publish" => pc[q][p] = "publish"
      BY <2>1
    <3>2. \A p \in Op :
            p \in known /\ ~Lane!Open(p) => p \in known' /\ ~Lane!Open(p)'
      BY <1>1 DEF LaneKeeps
    <3>3. QED
      BY <2>1, <3>1, <3>2 DEF SaidWhenClosed, Inv
  <2>3. Working'
    BY WorkingKept
  <2>4. ReportsAgree'
    BY ReportsUnchanged
  <2>5. QED
    BY <2>2, <2>3, <2>4
<1>12. Goal
  BY <1>4, <1>5, <1>6, <1>7, <1>8, <1>9, <1>10, <1>11 DEF Next, Reconcile
<1>13. QED
  BY <1>1, <1>12 DEF Inv

(* It holds before anything has been admitted.                             *)
LEMMA InvInit ==
  ASSUME Init
  PROVE  Inv
<1>1. Lane!TypeOK
  BY LaneTyped DEF Init
<1>2. TypeOK
  BY <1>1, DeadlinesAssumption DEF Init, TypeOK, Lane!Init
<1>3. SaidWhenClosed /\ Working /\ ReportsAgree
  BY DEF Init, SaidWhenClosed, Working, ReportsAgree
<1>4. QED
  BY <1>2, <1>3 DEF Inv

(* So it holds in every reachable state.                                   *)
LEMMA InvAlways == Spec => []Inv
<1>1. Init => Inv
  BY InvInit
<1>2. Inv /\ [Next]_vars => Inv'
  BY InvStep
<1>3. QED
  BY <1>1, <1>2, PTL DEF Spec

---------------------------------------------------------------------------
(* The registry's and the reconcilers' variables keep their types.         *)
THEOREM DeadlinesTypeCorrect == Spec => []TypeOK
<1>1. Inv => TypeOK
  BY DEF Inv
<1>2. QED
  BY <1>1, InvAlways, PTL

(* What the reconcilers publish is what the lane says, whatever fails and  *)
(* however many of them work on the same record.                           *)
THEOREM DeadlinesReportsAgree == Spec => []ReportsAgree
<1>1. Inv => ReportsAgree
  BY DEF Inv
<1>2. QED
  BY <1>1, InvAlways, PTL

(* A command reported as failed, or shown as expired, is not started.      *)
THEOREM DeadlinesNoStart == Spec => NoStartAfterReport
<1> DEFINE Kept == \A o \in everActive' \ everActive :
                     published[o] = {} /\ o \notin expired
<1>1. Inv /\ [Next]_vars => Kept
  <2> SUFFICES ASSUME Inv, [Next]_vars, NEW o \in everActive' \ everActive
               PROVE  published[o] = {} /\ o \notin expired
    OBVIOUS
  <2>1. Lane!Open(o) /\ o \in Op
    BY LaneStep, LaneKeepsStep, TypeStep
    DEF LaneKeeps, Inv, TypeOK, Lane!TypeOK
  <2>2. QED
    BY <2>1 DEF Inv, SaidWhenClosed
<1>2. Inv /\ [Next]_vars => [Kept]_vars
  BY <1>1
<1>3. QED
  BY <1>2, InvAlways, PTL DEF Spec, NoStartAfterReport

(* A record goes only with its evidence, or at its cap.                    *)
THEOREM DeadlinesEvidence == Spec => RemovedWithEvidence
<1> DEFINE Kept == \A o \in stored \ stored' :
                     \/ published[o] # {} \/ terminal[o] = "succeeded"
                     \/ clock'[o] = CapTicks
<1>1. Inv /\ [Next]_vars => Kept
  <2> SUFFICES ASSUME Inv, [Next]_vars, NEW o \in stored \ stored'
               PROVE  \/ published[o] # {} \/ terminal[o] = "succeeded"
                      \/ clock'[o] = CapTicks
    OBVIOUS
  <2>1. o \in Op
    BY DEF Inv, TypeOK, Lane!TypeOK
  <2>2. CASE Pass
    <3>1. TypeOK'
      BY TypeStep
    <3>2. clock'[o] \in 0 .. CapTicks /\ ~(clock'[o] < CapTicks)
      BY <2>1, <2>2, <3>1 DEF Pass, TypeOK
    <3>3. QED
      BY <3>2, DeadlinesAssumption
  <2>3. ASSUME NEW p \in Op, NEW r \in Reconciler, Complete(r, p)
        PROVE  published[o] # {} \/ terminal[o] = "succeeded"
    <3>1. p = o /\ pc[r][o] = "complete"
      BY <2>3 DEF Complete
    <3>2. QED
      BY <2>1, <3>1 DEF Inv, Working
  <2>4. Pass \/ \E p \in Op, r \in Reconciler : Complete(r, p)
    BY DEF Next, Reconcile, Allocate, Register, Deliver, LateFinalize,
           QueuedExpire, Claim, LookExpire, LookClosed, LookPending,
           LookStarted, Finalize, Publish, Reschedule, Throw, Crash, record,
           vars
  <2>5. QED
    BY <2>2, <2>3, <2>4
<1>2. Inv /\ [Next]_vars => [Kept]_vars
  BY <1>1
<1>3. QED
  BY <1>2, InvAlways, PTL DEF Spec, RemovedWithEvidence

(* The deadline protocol runs the lane as it is specified.                 *)
LEMMA RunsLane == Spec => LaneProofs!Spec
<1>1. Init => LaneProofs!Init
  BY SameLane DEF Init
<1>2. [Next]_vars => [LaneProofs!Next]_(LaneProofs!vars)
  BY LaneStep, SameLane
<1>3. QED
  BY <1>1, <1>2, PTL DEF Spec, LaneProofs!Spec

(* So whatever is proved of the lane holds here, the order of an entity    *)
(* first: what has acquired the lane has only closed commands before it.   *)
THEOREM DeadlinesKeepOrder == Spec => []LaneProofs!EntityOrder
<1>1. LaneProofs!LaneAssumption
  BY DeadlinesAssumption DEF LaneProofs!LaneAssumption
<1>2. LaneProofs!Spec => []LaneProofs!EntityOrder
  BY <1>1, LaneProofs!LaneOrdered
<1>3. QED
  BY <1>2, RunsLane, PTL

(* Admission, workers and reconcilers together implement the entity's      *)
(* queue: nobody starts out of turn or is decided twice, whatever fails.   *)
THEOREM DeadlinesServeInOrder == Spec => LaneProofs!ServesInOrder
<1>1. LaneProofs!LaneAssumption
  BY DeadlinesAssumption DEF LaneProofs!LaneAssumption
<1>2. LaneProofs!Spec => LaneProofs!ServesInOrder
  BY <1>1, LaneProofs!LaneServesInOrder
<1>3. QED
  BY <1>2, RunsLane
==============================================================================
