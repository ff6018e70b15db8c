----------------------- MODULE CommandIngress_proofs -----------------------
(***************************************************************************)
(* Proofs about CommandIngress, for any number of commands, copies, failed *)
(* calls and dead processes: whatever delivery, copy or reconciler gets    *)
(* there first, one verdict is told of a command; no copy is let go before *)
(* its command is settled or another copy is there; the lane is used as it *)
(* is specified, so that its theorems (LaneProofs) hold here; and the      *)
(* provider is called in the order of admission.                           *)
(***************************************************************************)
EXTENDS CommandIngress, TLAPS

LaneProofs == INSTANCE CommandLane_proofs

Place == {"idle", "unheard", "predecessor", "ownership", "queued", "handler",
          "closing", "publishing", "acking", "parked", "release", "retry"}

Verdict == {"succeeded", "failed", "expired", "ambiguous"}

(* The types of what the argument speaks of.                               *)
Types ==
  /\ terminal \in [Op -> Verdict \cup {"none"}]
  /\ reported \in [Op -> SUBSET (Verdict \cup {"relay"})]
  /\ pc \in [Msg -> Place]
  /\ goal \in [Msg -> Verdict \cup {"none"}]

(* A copy that is to be closed has a verdict, and what a copy is about to  *)
(* publish is what the lane has recorded.                                  *)
Working ==
  \A m \in Msg :
    /\ pc[m] = "closing" => goal[m] \in Verdict
    /\ pc[m] = "publishing"
         => goal[m] \in Verdict /\ goal[m] = terminal[OpOf(m)]

Inv == Types /\ Working /\ OneVerdictTold

(* The lane records a verdict once.                                        *)
Kept ==
  /\ terminal' \in [Op -> Verdict \cup {"none"}]
  /\ \A o \in Op : terminal[o] # "none" => terminal'[o] = terminal[o]

(* Only copy m moves.                                                      *)
Moves(m) ==
  /\ pc' \in [Msg -> Place] /\ goal' \in [Msg -> Verdict \cup {"none"}]
  /\ \A n \in Msg \ {m} : pc'[n] = pc[n] /\ goal'[n] = goal[n]

(* Copy m goes somewhere, but not to publish.                              *)
Away(m) ==
  /\ Moves(m)
  /\ pc'[m] # "publishing"
  /\ pc'[m] = "closing" => goal'[m] \in Verdict

---------------------------------------------------------------------------
(* A copy is of one of the operations.                                     *)
LEMMA CopyOf ==
  ASSUME NEW m \in Msg
  PROVE  OpOf(m) \in Op
BY DEF Msg, OpOf

(* However a step of process() ends, unless it is to publish, only its own *)
(* copy moves.                                                             *)
LEMMA Ends ==
  ASSUME Types, NEW m \in Msg
  PROVE  /\ \A p \in Place \ {"publishing", "closing"} : Goto(m, p) => Away(m)
         /\ \A h \in {"held", "catch"}, t \in Verdict :
              Close(m, h, t) => Away(m)
         /\ \A p \in Place \ {"publishing", "closing"} : Leave(m, p) => Away(m)
         /\ Nak(m) => Away(m)
         /\ Caught(m) => Away(m)
         /\ Throw(m) => Away(m)
<1> USE DEF Types, Away, Moves, Place, Verdict
<1>1. \A p \in Place \ {"publishing", "closing"} : Goto(m, p) => Away(m)
  BY DEF Goto
<1>2. \A h \in {"held", "catch"}, t \in Verdict : Close(m, h, t) => Away(m)
  BY DEF Close
<1>3. \A p \in Place \ {"publishing", "closing"} : Leave(m, p) => Away(m)
  BY DEF Leave
<1>4. Nak(m) => Away(m)
  BY <1>3 DEF Nak
<1>5. Caught(m) => Away(m)
  BY <1>2, <1>3 DEF Caught
<1>6. QED
  BY <1>1, <1>2, <1>3, <1>4, <1>5 DEF Throw

(* A step that says nothing and moves a copy somewhere else keeps it all.  *)
LEMMA Quiet ==
  ASSUME Inv, Kept, NEW m \in Msg, Away(m), reported' = reported
  PROVE  Inv'
<1>1. Types'
  BY DEF Inv, Types, Kept, Away, Moves
<1>2. Working'
  BY CopyOf DEF Inv, Types, Working, Kept, Away, Moves, Verdict
<1>3. OneVerdictTold'
  BY DEF Inv, Types, OneVerdictTold, Kept, Verdict
<1>4. QED
  BY <1>1, <1>2, <1>3 DEF Inv

(* So does a step that says nothing and moves no copy.                     *)
LEMMA Still ==
  ASSUME Inv, Kept, pc' = pc, goal' = goal, reported' = reported
  PROVE  Inv'
<1>1. Working'
  BY CopyOf DEF Inv, Types, Working, Kept, Verdict
<1>2. OneVerdictTold'
  BY DEF Inv, Types, OneVerdictTold, Kept, Verdict
<1>3. QED
  BY <1>1, <1>2 DEF Inv, Types, Kept

(* What leaves the lane alone keeps its verdicts.                          *)
LEMMA LaneAlone ==
  ASSUME Inv, UNCHANGED lane
  PROVE  Kept
BY DEF Inv, Types, Kept, lane

(* The lane's steps keep the verdicts that are recorded.                   *)
LEMMA LaneKept ==
  ASSUME Inv, NEW o \in Op
  PROVE  /\ Lane!Allocate(o) \/ Lane!Tick => Kept
         /\ Lane!PassUnchecked(o) \/ Lane!PassTerminal(o) => Kept
         /\ Lane!PassExpiring(o) => Kept
         /\ Lane!MarkActive(o) \/ Lane!RenewActive(o)
              \/ Lane!ReleaseActive(o) \/ Lane!RecordTechnicalRetry(o) => Kept
         /\ \A t \in Verdict :
              Lane!MarkTerminal(o, t) => Kept /\ terminal'[o] = t
         /\ Lane!ExpireNeverActive(o) => Kept /\ terminal'[o] = "expired"
         /\ Lane!FinalizeEverActiveAmbiguous(o)
              => Kept /\ terminal'[o] = "ambiguous"
<1> USE DEF Inv, Types, Kept, Verdict, Lane!chain, Lane!run, Lane!verdict,
            Lane!Open
<1>1. Lane!Allocate(o) \/ Lane!Tick => Kept
  BY DEF Lane!Allocate, Lane!Tick
<1>2. Lane!PassUnchecked(o) \/ Lane!PassTerminal(o) => Kept
  BY DEF Lane!PassUnchecked, Lane!PassTerminal
<1>3. Lane!PassExpiring(o) => Kept
  BY DEF Lane!PassExpiring
<1>4. Lane!MarkActive(o) \/ Lane!RenewActive(o) \/ Lane!ReleaseActive(o)
        \/ Lane!RecordTechnicalRetry(o) => Kept
  BY DEF Lane!MarkActive, Lane!RenewActive, Lane!ReleaseActive,
         Lane!RecordTechnicalRetry, Lane!ClearActive
<1>5. ASSUME NEW t \in Verdict, Lane!MarkTerminal(o, t)
      PROVE Kept /\ terminal'[o] = t
  BY <1>5 DEF Lane!MarkTerminal
<1>6. Lane!ExpireNeverActive(o) => Kept /\ terminal'[o] = "expired"
  BY DEF Lane!ExpireNeverActive
<1>7. Lane!FinalizeEverActiveAmbiguous(o)
        => Kept /\ terminal'[o] = "ambiguous"
  BY DEF Lane!FinalizeEverActiveAmbiguous
<1>8. QED
  BY <1>1, <1>2, <1>3, <1>4, <1>5, <1>6, <1>7

---------------------------------------------------------------------------
(* The steps of the ingress up to the handler's end.                       *)
LEMMA WaitStep ==
  ASSUME Inv, NEW m \in Msg,
         \/ Deliver(m) \/ Disturb(m) \/ Refuse(m)
         \/ PredecessorReady(m) \/ Park(m) \/ ParkFails(m) \/ ParkExpires(m)
         \/ MarkActive(m) \/ Start(m) \/ Cross(m)
         \/ HandlerThrows(m) \/ Renew(m) \/ RenewFails(m)
         \/ \E t \in Lane!TerminalState : Return(m, t)
  PROVE  Inv'
<1> USE CopyOf, Ends, LaneAlone, LaneKept, Quiet, Still DEF Place, Verdict
<1> Types
  BY DEF Inv
<1>1. CASE Deliver(m)
  BY <1>1 DEF Deliver
<1>2. CASE Disturb(m) \/ Refuse(m)
  BY <1>2 DEF Disturb, Refuse
<1>3. CASE PredecessorReady(m)
  BY <1>3 DEF PredecessorReady
<1>4. CASE Park(m) \/ ParkFails(m) \/ ParkExpires(m)
  BY <1>4 DEF Park, ParkReplied, ParkFails, ParkExpires, ThrowsAny
<1>5. CASE MarkActive(m)
  <2>1. Kept /\ reported' = reported
    BY <1>5 DEF MarkActive
  <2>2. CASE Caught(m)
    BY <2>1, <2>2
  <2>3. CASE ~Caught(m)
    <3>1. pc' = [pc EXCEPT ![m] = "queued"] /\ goal' = goal
      BY <1>5, <2>3 DEF MarkActive
    <3>2. Away(m)
      BY <3>1 DEF Away, Moves, Types
    <3>3. QED
      BY <2>1, <3>2
  <2>4. QED
    BY <2>2, <2>3
<1>6. CASE Start(m)
  BY <1>6 DEF Start
<1>7. CASE Cross(m)
  BY <1>7 DEF Cross, process
<1>8. CASE HandlerThrows(m)
  BY <1>8 DEF HandlerThrows, ThrowsAny
<1>9. CASE Renew(m)
  BY <1>9 DEF Renew, process
<1>10. CASE RenewFails(m)
  BY <1>10 DEF RenewFails
<1>11. ASSUME NEW t \in Lane!TerminalState, Return(m, t) PROVE Inv'
  BY <1>11 DEF Return, Lane!TerminalState
<1>12. QED
  BY <1>1, <1>2, <1>3, <1>4, <1>5, <1>6, <1>7, <1>8, <1>9, <1>10, <1>11

(* A copy that goes to publish does so with the lane's verdict.            *)
LEMMA ToPublish ==
  ASSUME Inv, Kept, NEW m \in Msg, Moves(m), reported' = reported,
         pc'[m] = "publishing",
         goal'[m] \in Verdict, goal'[m] = terminal'[OpOf(m)]
  PROVE  Inv'
<1>1. Types'
  BY DEF Inv, Types, Kept, Moves
<1>2. Working'
  BY CopyOf DEF Inv, Types, Working, Kept, Moves, Verdict
<1>3. OneVerdictTold'
  BY DEF Inv, Types, OneVerdictTold, Kept, Verdict
<1>4. QED
  BY <1>1, <1>2, <1>3 DEF Inv

(* The steps that record the outcome or find it recorded.                  *)
LEMMA CloseStep ==
  ASSUME Inv, NEW m \in Msg,
         MarkTerminal(m) \/ AlreadyTerminal(m) \/ MarkFails(m) \/ Duplicate(m)
  PROVE  Inv'
<1> USE CopyOf, LaneAlone
<1> Types
  BY DEF Inv
<1>1. ASSUME Kept, reported' = reported, AfterMark(m), goal[m] \in Verdict,
             terminal'[OpOf(m)] = goal[m]
      PROVE Inv'
  <2>1. CASE goal[m] = "succeeded"
    BY <1>1, <2>1, Ends, Quiet DEF AfterMark, Place
  <2>2. CASE goal[m] # "succeeded"
    <3>1. pc' = [pc EXCEPT ![m] = "publishing"] /\ goal' = goal
      BY <1>1, <2>2 DEF AfterMark, Goto
    <3>2. Moves(m)
      BY <3>1 DEF Moves, Types, Place
    <3>3. QED
      BY <1>1, <3>1, <3>2, ToPublish DEF Types
  <2>3. QED
    BY <2>1, <2>2
<1>2. CASE MarkTerminal(m)
  <2>1. goal[m] \in Verdict
    BY <1>2 DEF MarkTerminal, Inv, Working
  <2>2. Kept /\ terminal'[OpOf(m)] = goal[m] /\ reported' = reported
    BY <1>2, <2>1, LaneKept DEF MarkTerminal
  <2>3. AfterMark(m) \/ Throw(m)
    BY <1>2 DEF MarkTerminal
  <2>4. QED
    BY <1>1, <2>1, <2>2, <2>3, Ends, Quiet
<1>3. CASE AlreadyTerminal(m)
  <2>1. goal[m] \in Verdict
    BY <1>3 DEF AlreadyTerminal, Inv, Working
  <2>2. Kept /\ terminal'[OpOf(m)] = goal[m] /\ reported' = reported
    BY <1>3 DEF AlreadyTerminal, Agrees, lane
  <2>3. QED
    BY <1>1, <1>3, <2>1, <2>2 DEF AlreadyTerminal
<1>4. CASE MarkFails(m)
  BY <1>4, Ends, Quiet DEF MarkFails
<1>5. CASE Duplicate(m)
  <2>1. /\ Kept /\ reported' = reported /\ terminal' = terminal
        /\ terminal[OpOf(m)] \in Verdict
    BY <1>5 DEF Duplicate, Lane!Done, lane, Types, Verdict
  <2>2. /\ pc' = [pc EXCEPT ![m] =
                    IF Recovers(OpOf(m)) THEN "publishing" ELSE "acking"]
        /\ goal' = [goal EXCEPT ![m] = terminal[OpOf(m)]]
    BY <1>5 DEF Duplicate
  <2>3. Moves(m) /\ goal'[m] = terminal[OpOf(m)]
    BY <2>1, <2>2 DEF Moves, Types, Place
  <2>4. CASE Recovers(OpOf(m))
    BY <2>1, <2>2, <2>3, <2>4, ToPublish DEF Types
  <2>5. CASE ~Recovers(OpOf(m))
    BY <2>1, <2>2, <2>3, <2>5, Quiet DEF Away, Types
  <2>6. QED
    BY <2>4, <2>5
<1>6. QED
  BY <1>2, <1>3, <1>4, <1>5

(* The steps that say it, acknowledge it or give it back.                  *)
LEMMA SayStep ==
  ASSUME Inv, NEW m \in Msg,
         \/ PublishFailure(m) \/ PublishFails(m) \/ Ack(m) \/ AckFails(m)
         \/ Release(m) \/ Retry(m)
  PROVE  Inv'
<1> USE CopyOf, Ends, LaneAlone, LaneKept DEF Place, Verdict
<1> Types
  BY DEF Inv
<1>1. CASE PublishFailure(m)
  <2>1. goal[m] \in Verdict /\ goal[m] = terminal[OpOf(m)]
    BY <1>1 DEF PublishFailure, Inv, Working
  <2>2. Away(m) /\ terminal' = terminal
    BY <1>1 DEF PublishFailure, lane
  <2>3. reported' = [reported EXCEPT ![OpOf(m)] = @ \cup {goal[m]}]
    BY <1>1 DEF PublishFailure
  <2>4. Types'
    BY <2>1, <2>2, <2>3 DEF Types, Away, Moves
  <2>5. Working'
    BY <2>2 DEF Inv, Working, Away, Moves
  <2>6. OneVerdictTold'
    BY <2>1, <2>2, <2>3 DEF Inv, Types, OneVerdictTold
  <2>7. QED
    BY <2>4, <2>5, <2>6 DEF Inv
<1>2. CASE PublishFails(m) \/ Ack(m) \/ AckFails(m)
  BY <1>2, Quiet DEF PublishFails, Ack, AckFails
<1>3. CASE Release(m)
  BY <1>3, Quiet DEF Release
<1>4. CASE Retry(m)
  BY <1>4, Quiet DEF Retry
<1>5. QED
  BY <1>1, <1>2, <1>3, <1>4

(* The admission, the relay, the clock, and a process that dies.           *)
LEMMA OtherStep ==
  ASSUME Inv,
         \/ Tick \/ Crash
         \/ \E o \in Op : Allocate(o) \/ Publish(o)
         \/ \E m \in Msg : Relay(m)
  PROVE  Inv'
<1> USE LaneAlone, LaneKept, Still DEF process
<1>1. ASSUME NEW o \in Op, Allocate(o) \/ Publish(o) PROVE Inv'
  BY <1>1 DEF Allocate, Publish
<1>2. ASSUME NEW m \in Msg, RelayPublish(m) \/ RelayAck(m) PROVE Inv'
  BY <1>2 DEF RelayPublish, RelayAck
<1>3. ASSUME NEW m \in Msg, RelayExpires(m) PROVE Inv'
  <2>1. UNCHANGED <<terminal, pc, goal>>
    BY <1>3 DEF RelayExpires, lane
  <2>2. reported' = [reported EXCEPT ![OpOf(m)] = @ \cup {"relay"}]
    BY <1>3 DEF RelayExpires
  <2>3. QED
    BY <2>1, <2>2, CopyOf DEF Inv, Types, Working, OneVerdictTold
<1>4. CASE Tick
  BY <1>4 DEF Tick, Lane!Tick, Inv, Types, Kept, Lane!chain
<1>5. CASE Crash
  <2>1. UNCHANGED <<terminal, reported>>
    BY <1>5 DEF Crash, lane
  <2>2. /\ pc' = [m \in Msg |-> IF pc[m] = "idle" THEN "idle" ELSE "unheard"]
        /\ goal' = [m \in Msg |-> "none"]
    BY <1>5 DEF Crash
  <2>3. QED
    BY <2>1, <2>2 DEF Inv, Types, Working, OneVerdictTold, Place
<1>6. QED
  BY <1>1, <1>2, <1>3, <1>4, <1>5 DEF Relay

(* What the reconciler says is what it has recorded or found recorded.     *)
LEMMA ReconcileStep ==
  ASSUME Inv, NEW o \in Op, Reconcile(o)
  PROVE  Inv'
<1>1. Kept /\ terminal'[o] \in Verdict
  <2>1. CASE Lane!Done(o) /\ UNCHANGED lane
    BY <2>1, LaneAlone DEF Lane!Done, Inv, Types, lane
  <2>2. CASE Lane!ExpireNeverActive(o) \/ Finalizes(o)
    BY <2>2, LaneKept DEF Finalizes, Verdict
  <2>3. QED
    BY <2>1, <2>2 DEF Reconcile
<1>2. pc' = pc /\ goal' = goal
  BY DEF Reconcile, process
<1>3. reported' =
        [reported EXCEPT ![o] = @ \cup ({terminal'[o]} \ {"succeeded"})]
  BY DEF Reconcile
<1>4. Types'
  BY <1>1, <1>2, <1>3 DEF Inv, Types, Kept
<1>5. Working'
  BY <1>1, <1>2, CopyOf DEF Inv, Types, Working, Kept, Verdict
<1>6. OneVerdictTold'
  BY <1>1, <1>3 DEF Inv, Types, OneVerdictTold, Kept, Verdict
<1>7. QED
  BY <1>4, <1>5, <1>6 DEF Inv

---------------------------------------------------------------------------
(* The invariant holds at the start.                                       *)
LEMMA VerdictInit == Init => Inv
BY DEF Init, Lane!Init, Inv, Types, Working, OneVerdictTold, Place, Verdict

(* It holds in every step.                                                 *)
LEMMA VerdictStep == Inv /\ [Next]_vars => Inv'
<1> SUFFICES ASSUME Inv, [Next]_vars PROVE Inv'
  OBVIOUS
<1>1. ASSUME NEW m \in Msg, Ingress(m) PROVE Inv'
  BY <1>1, WaitStep, CloseStep, SayStep DEF Ingress
<1>2. CASE UNCHANGED vars
  BY <1>2, LaneAlone, Still DEF vars, process
<1>3. QED
  BY <1>1, <1>2, OtherStep, ReconcileStep DEF Next

(* One verdict is told of a command: whatever ingress and reconciler       *)
(* publish is what the lane has recorded, for any number of deliveries,    *)
(* copies, failed calls and dead processes.                                *)
THEOREM IngressOneVerdict == Spec => []OneVerdictTold
<1>1. Inv => OneVerdictTold
  BY DEF Inv
<1>2. QED
  BY <1>1, VerdictInit, VerdictStep, PTL DEF Spec

---------------------------------------------------------------------------
(* Custody.                                                                *)

(* Still to be carried out or reported: the command has not succeeded,     *)
(* nobody has published what the lane says of it, and there is time left.  *)
Unsettled(o) ==
  terminal[o] # "succeeded" /\ terminal[o] \notin reported[o] /\ ~Late(o)

(* From every copy that was ever stored the chain of parkings leads to one *)
(* that is there, as long as the command is unsettled.                     *)
Chain ==
  \A m \in born :
    Unsettled(OpOf(m))
      => \E n \in stream \cup parked : OpOf(n) = OpOf(m) /\ n[2] >= m[2]

(* A copy is acknowledged when it is settled or has been parked.           *)
Leaving ==
  \A m \in Msg :
    /\ pc[m] = "acking" => ~Unsettled(OpOf(m))
    /\ pc[m] = "parked"
         => m \in parked \/ NextCopy(m) \in born \/ Late(OpOf(m))

(* The types of the stores, and of the lane as far as it matters here.     *)
Stores ==
  /\ born \subseteq Op \X Nat
  /\ stream \subseteq Op \X Nat /\ parked \subseteq Op \X Nat
  /\ clock \in [Op -> 0 .. DeadlineTicks]
  /\ age \in [Op -> 0 .. DeadlineTicks]
  /\ live \subseteq known /\ known \subseteq Op
  /\ \A o \in Op \ known : clock[o] = 0

(* The lane counts the age of an open command as the ingress counts its    *)
(* time, so what has a failure without a code is late.                     *)
InTime ==
  \A o \in Op :
    /\ Lane!Open(o) => age[o] = clock[o]
    /\ terminal[o] \in {"failed", "expired", "ambiguous"}
         => o \in coded \/ Late(o)

CustodyInv == Inv /\ Stores /\ InTime /\ Chain /\ Leaving

(* Nothing that is settled becomes unsettled again.                        *)
Grows ==
  /\ Kept
  /\ \A o \in Op : reported[o] \subseteq reported'[o] /\ (Late(o) => Late(o)')

(* Copy m, if any, moves; it does not go to be acknowledged.               *)
Elsewhere(m) ==
  /\ \A n \in Msg \ {m} : pc'[n] = pc[n]
  /\ pc'[m] \notin {"acking", "parked"}

(* The ends of a step of process() but the acknowledgements.               *)
LEMMA EndsElsewhere ==
  ASSUME Types, NEW m \in Msg
  PROVE  /\ \A p \in Place \ {"acking", "parked"} : Goto(m, p) => Elsewhere(m)
         /\ \A h \in {"held", "catch"}, t \in Verdict :
              Close(m, h, t) => Elsewhere(m)
         /\ \A p \in Place \ {"acking", "parked"} : Leave(m, p) => Elsewhere(m)
         /\ Nak(m) => Elsewhere(m)
         /\ Caught(m) => Elsewhere(m)
         /\ Throw(m) => Elsewhere(m)
<1> USE DEF Types, Elsewhere, Place
<1>1. \A p \in Place \ {"acking", "parked"} : Goto(m, p) => Elsewhere(m)
  BY DEF Goto
<1>2. \A h \in {"held", "catch"}, t \in Verdict :
        Close(m, h, t) => Elsewhere(m)
  BY DEF Close
<1>3. \A p \in Place \ {"acking", "parked"} : Leave(m, p) => Elsewhere(m)
  BY DEF Leave
<1>4. Nak(m) => Elsewhere(m)
  BY <1>3 DEF Nak
<1>5. Caught(m) => Elsewhere(m)
  BY <1>2, <1>3 DEF Caught, Verdict
<1>6. QED
  BY <1>1, <1>2, <1>3, <1>4, <1>5 DEF Throw

(* Every step keeps verdicts, publications and lateness.                   *)
LEMMA GrowStep ==
  ASSUME Inv, Stores, [Next]_vars
  PROVE  Grows
<1> USE CopyOf, LaneAlone, LaneKept DEF Grows, Late
<1>1. ASSUME NEW m \in Msg, Ingress(m) PROVE Grows
  <2>1. clock' = clock
    BY <1>1 DEF Ingress, Deliver, Disturb, Refuse, PredecessorReady, Park,
                ParkFails, ParkExpires, MarkActive, Duplicate, Start,
                Cross, Return, HandlerThrows, Renew, RenewFails,
                MarkTerminal, AlreadyTerminal, MarkFails, PublishFailure,
                PublishFails, Ack, AckFails, Release, Retry
  <2>2. \A o \in Op : reported[o] \subseteq reported'[o]
    BY <1>1 DEF Ingress, Deliver, Disturb, Refuse, PredecessorReady, Park,
                ParkFails, ParkExpires, MarkActive, Duplicate, Start,
                Cross, Return, HandlerThrows, Renew, RenewFails,
                MarkTerminal, AlreadyTerminal, MarkFails, PublishFailure,
                PublishFails, Ack, AckFails, Release, Retry, Inv, Types
  <2>3. CASE MarkTerminal(m)
    BY <2>1, <2>2, <2>3 DEF MarkTerminal, Inv, Working
  <2>4. CASE PredecessorReady(m) \/ MarkActive(m) \/ Renew(m) \/ Release(m)
               \/ Retry(m)
    BY <2>1, <2>2, <2>4 DEF PredecessorReady, MarkActive, Renew, Release,
                            Retry
  <2>5. QED
    BY <1>1, <2>1, <2>2, <2>3, <2>4
    DEF Ingress, Deliver, Disturb, Refuse, Park, ParkFails, ParkExpires,
        Duplicate, Start, Cross, Return, HandlerThrows, RenewFails,
        AlreadyTerminal, MarkFails, PublishFailure, PublishFails, Ack,
        AckFails
<1>2. ASSUME NEW m \in Msg, Relay(m) PROVE Grows
  BY <1>2 DEF Relay, RelayPublish, RelayAck, RelayExpires, Inv, Types
<1>3. ASSUME NEW o \in Op, Allocate(o) \/ Publish(o) PROVE Grows
  BY <1>3 DEF Allocate, Publish
<1>4. ASSUME NEW o \in Op, Reconcile(o) PROVE Grows
  BY <1>4 DEF Reconcile, Finalizes, Inv, Types
<1>5. CASE Tick
  <2>1. Kept
    BY <1>5 DEF Tick, Lane!Tick, Inv, Types, Kept, Lane!chain
  <2>2. QED
    BY <1>5, <2>1 DEF Tick
<1>6. CASE Crash
  BY <1>6 DEF Crash
<1>7. CASE UNCHANGED vars
  BY <1>7 DEF vars
<1>8. QED
  BY <1>1, <1>2, <1>3, <1>4, <1>5, <1>6, <1>7 DEF Next

(* What is settled stays settled.                                          *)
LEMMA StaysSettled ==
  ASSUME Inv, Grows
  PROVE  \A o \in Op : Unsettled(o)' => Unsettled(o)
<1> SUFFICES ASSUME NEW o \in Op, Unsettled(o)' PROVE Unsettled(o)
  OBVIOUS
<1>1. /\ terminal'[o] # "succeeded" /\ terminal'[o] \notin reported'[o]
      /\ ~Late(o)'
  BY DEF Unsettled
<1>2. reported[o] \subseteq reported'[o] /\ ~Late(o)
  BY <1>1 DEF Grows
<1>3. terminal[o] # "none" => terminal'[o] = terminal[o]
  BY DEF Grows, Kept
<1>4. "none" \notin reported[o]
  BY DEF Inv, Types, Verdict
<1>5. QED
  BY <1>1, <1>2, <1>3, <1>4 DEF Unsettled

---------------------------------------------------------------------------
(* The lane keeps its part of Stores and InTime in every step but Tick.    *)
LEMMA LaneInTime ==
  ASSUME Inv, Stores, InTime, NEW o \in Op, clock' = clock,
         \/ Lane!Allocate(o)
         \/ Lane!PassUnchecked(o) \/ Lane!PassTerminal(o)
         \/ Lane!PassExpiring(o)
         \/ Lane!MarkActive(o) \/ Lane!RenewActive(o) \/ Lane!ReleaseActive(o)
         \/ Lane!RecordTechnicalRetry(o)
         \/ \E t \in Verdict : Lane!MarkTerminal(o, t)
         \/ Lane!ExpireNeverActive(o) \/ Lane!FinalizeEverActiveAmbiguous(o)
         \/ UNCHANGED lane
  PROVE  /\ InTime'
         /\ age' \in [Op -> 0 .. DeadlineTicks]
         /\ live' \subseteq known' /\ known' \subseteq Op
         /\ \A p \in Op \ known' : clock'[p] = 0
<1> USE IngressAssumption
    DEF Inv, Types, Stores, InTime, Verdict, Late, Lane!Open, Lane!Due, Op,
        Lane!chain, Lane!run, Lane!verdict
<1>1. CASE Lane!Allocate(o)
  <2>1. /\ known' = known \cup {o} /\ o \notin known
        /\ live' \subseteq live \cup {o}
        /\ age' = [age EXCEPT ![o] = 0]
        /\ UNCHANGED <<terminal, coded>>
    BY <1>1 DEF Lane!Allocate
  <2>2. clock[o] = 0 /\ age'[o] = 0
    BY <2>1
  <2>3. \A p \in Op \ {o} : /\ age'[p] = age[p]
                           /\ p \in live' => p \in live
    BY <2>1
  <2>4. ASSUME NEW p \in Op
        PROVE  /\ Lane!Open(p)' => age'[p] = clock'[p]
               /\ terminal'[p] \in {"failed", "expired", "ambiguous"}
                    => p \in coded' \/ Late(p)'
    <3>1. CASE p = o
      BY <2>1, <2>2, <3>1
    <3>2. CASE p # o
      BY <2>1, <2>3, <3>2
    <3>3. QED
      BY <3>1, <3>2
  <2>5. InTime'
    BY <2>4
  <2>6. age' \in [Op -> 0 .. DeadlineTicks]
    BY <2>1
  <2>7. QED
    BY <2>1, <2>5, <2>6
<1>2. CASE Lane!PassUnchecked(o) \/ Lane!PassTerminal(o)
  BY <1>2 DEF Lane!PassUnchecked, Lane!PassTerminal
<1>3. CASE Lane!PassExpiring(o)
  <2> DEFINE q == pred[o]
  <2>1. q \in Op /\ Late(q)
    BY <1>3 DEF Lane!PassExpiring
  <2>2. /\ terminal' = [terminal EXCEPT ![q] = "expired"]
        /\ age' = [age EXCEPT ![q] = 0]
        /\ live' = live /\ known' = known /\ coded' = coded
    BY <1>3 DEF Lane!PassExpiring
  <2> HIDE DEF q
  <2>3. age' \in [Op -> 0 .. DeadlineTicks]
    BY <2>1, <2>2
  <2>4. QED
    BY <2>1, <2>2, <2>3
<1>4. CASE Lane!MarkActive(o) \/ Lane!RenewActive(o) \/ Lane!ReleaseActive(o)
             \/ Lane!RecordTechnicalRetry(o)
  BY <1>4 DEF Lane!MarkActive, Lane!RenewActive, Lane!ReleaseActive,
              Lane!RecordTechnicalRetry
<1>5. ASSUME NEW t \in Verdict, Lane!MarkTerminal(o, t)
      PROVE /\ InTime' /\ age' \in [Op -> 0 .. DeadlineTicks]
            /\ live' = live /\ known' = known
  BY <1>5 DEF Lane!MarkTerminal
<1>6. CASE Lane!ExpireNeverActive(o)
  BY <1>6 DEF Lane!ExpireNeverActive
<1>7. CASE Lane!FinalizeEverActiveAmbiguous(o)
  BY <1>7 DEF Lane!FinalizeEverActiveAmbiguous
<1>8. CASE UNCHANGED lane
  BY <1>8 DEF lane
<1>9. QED
  BY <1>1, <1>2, <1>3, <1>4, <1>5, <1>6, <1>7, <1>8

(* Both hold in every step.                                                *)
LEMMA InTimeStep ==
  ASSUME Inv, Stores, InTime, [Next]_vars
  PROVE  Stores' /\ InTime'
<1>1. ASSUME NEW m \in Msg, Ingress(m), ~Park(m), ~Ack(m)
      PROVE Stores' /\ InTime'
  <2>1. UNCHANGED <<clock, broker>>
    BY <1>1 DEF Ingress, Deliver, Disturb, Refuse, PredecessorReady,
                ParkFails, ParkExpires, MarkActive, Duplicate, Start,
                Cross, Return, HandlerThrows, Renew, RenewFails,
                MarkTerminal, AlreadyTerminal, MarkFails, PublishFailure,
                PublishFails, AckFails, Release, Retry
  <2>2. CASE UNCHANGED lane
    BY <2>1, <2>2, LaneInTime, CopyOf DEF Stores, broker
  <2>3. CASE PredecessorReady(m)
    BY <2>1, <2>3, LaneInTime, CopyOf DEF PredecessorReady, Stores, broker
  <2>4. CASE MarkActive(m) \/ Renew(m)
    BY <2>1, <2>4, LaneInTime, CopyOf DEF MarkActive, Renew, Stores, broker
  <2>5. CASE MarkTerminal(m)
    BY <2>1, <2>5, LaneInTime, CopyOf
    DEF MarkTerminal, Inv, Working, Stores, broker
  <2>6. CASE Release(m) \/ Retry(m)
    BY <2>1, <2>2, <2>6, LaneInTime, CopyOf
    DEF Release, Retry, Stores, broker
  <2>7. QED
    BY <1>1, <2>2, <2>3, <2>4, <2>5, <2>6
    DEF Ingress, Deliver, Disturb, Refuse, ParkFails, ParkExpires,
        Duplicate, Start, Cross, Return, HandlerThrows, RenewFails,
        AlreadyTerminal, MarkFails, PublishFailure, PublishFails, AckFails
<1>2. ASSUME NEW m \in Msg, Park(m) \/ Ack(m) PROVE Stores' /\ InTime'
  BY <1>2, LaneInTime, CopyOf DEF Park, Ack, Stores, Msg
<1>3. ASSUME NEW m \in Msg, Relay(m) PROVE Stores' /\ InTime'
  BY <1>3, LaneInTime, CopyOf
  DEF Relay, RelayPublish, RelayAck, RelayExpires, Stores, Msg, NextCopy
<1>4. ASSUME NEW o \in Op, Allocate(o) PROVE Stores' /\ InTime'
  BY <1>4, LaneInTime DEF Allocate, Stores, broker
<1>5. ASSUME NEW o \in Op, Publish(o) PROVE Stores' /\ InTime'
  BY <1>5, LaneInTime DEF Publish, Stores
<1>6. ASSUME NEW o \in Op, Reconcile(o) PROVE Stores' /\ InTime'
  BY <1>6, LaneInTime DEF Reconcile, Finalizes, Stores, broker
<1>7. CASE Tick
  BY <1>7, IngressAssumption
  DEF Tick, Lane!Tick, Lane!Open, Lane!Due, Lane!chain, Inv, Types, Stores,
      InTime, Late, broker
<1>8. CASE Crash
  BY <1>8, LaneInTime DEF Crash, Stores, broker, InTime, lane, Late, Lane!Open
<1>9. CASE UNCHANGED vars
  BY <1>9 DEF vars, lane, broker, Stores, InTime, Late, Lane!Open
<1>10. QED
  BY <1>1, <1>2, <1>3, <1>4, <1>5, <1>6, <1>7, <1>8, <1>9 DEF Next

---------------------------------------------------------------------------
(* A copy goes from the stores only when a later one is there.             *)
LEMMA Removed ==
  ASSUME Inv, Stores, Chain, Grows, NEW m \in Msg,
         NextCopy(m) \in born, born' = born,
         \/ stream' = stream \ {m} /\ parked' = parked
         \/ parked' = parked \ {m} /\ stream' = stream
  PROVE  Chain'
<1> SUFFICES ASSUME NEW k \in born, Unsettled(OpOf(k))'
             PROVE  \E n \in stream' \cup parked' :
                      OpOf(n) = OpOf(k) /\ n[2] >= k[2]
  BY DEF Chain
<1>1. OpOf(k) \in Op /\ k[2] \in Nat
  BY DEF Stores, OpOf
<1>2. PICK n \in stream \cup parked : OpOf(n) = OpOf(k) /\ n[2] >= k[2]
  BY <1>1, StaysSettled DEF Chain
<1>3. CASE n # m
  BY <1>2, <1>3
<1>4. CASE n = m
  <2>1. OpOf(NextCopy(m)) = OpOf(k) /\ NextCopy(m)[2] = m[2] + 1
    BY <1>2, <1>4 DEF NextCopy, OpOf
  <2>2. PICK l \in stream \cup parked :
          OpOf(l) = OpOf(k) /\ l[2] >= m[2] + 1
    BY <1>1, <2>1, StaysSettled DEF Chain
  <2>3. m[2] \in Nat /\ l[2] \in Nat
    BY DEF Msg, Stores
  <2>4. QED
    BY <1>1, <1>2, <1>4, <2>2, <2>3
<1>5. QED
  BY <1>3, <1>4

(* Parking, relaying, expiring and acknowledging keep the chain.           *)
LEMMA ChainStep ==
  ASSUME CustodyInv, Grows, [Next]_vars
  PROVE  Chain'
<1> Inv /\ Stores /\ InTime /\ Chain /\ Leaving
  BY DEF CustodyInv
<1>1. CASE UNCHANGED broker
  <2>1. \A k \in born : OpOf(k) \in Op
    BY DEF Stores, OpOf
  <2>2. QED
    BY <1>1, <2>1, StaysSettled DEF Chain, broker
<1>2. ASSUME born' = born, stream \subseteq stream', parked \subseteq parked'
      PROVE Chain'
  <2>1. \A k \in born : OpOf(k) \in Op
    BY DEF Stores, OpOf
  <2>2. QED
    BY <1>2, <2>1, StaysSettled DEF Chain
<1>3. ASSUME NEW k \in Op \X Nat, born' = born \cup {k},
             stream' = stream \cup {k}, parked' = parked
      PROVE Chain'
  <2>1. \A l \in born : OpOf(l) \in Op
    BY DEF Stores, OpOf
  <2>2. k[2] >= k[2]
    OBVIOUS
  <2>3. QED
    BY <1>3, <2>1, <2>2, StaysSettled DEF Chain
<1>4. ASSUME NEW m \in Msg, born' = born,
             \/ stream' = stream \ {m} /\ parked' = parked
             \/ parked' = parked \ {m} /\ stream' = stream,
             ~Unsettled(OpOf(m))
      PROVE Chain'
  <2>1. \A l \in born : OpOf(l) \in Op
    BY DEF Stores, OpOf
  <2>2. ~Unsettled(OpOf(m))'
    BY <1>4, CopyOf, StaysSettled
  <2>3. QED
    BY <1>4, <2>1, <2>2, StaysSettled DEF Chain
<1>5. ASSUME NEW m \in Msg, Ack(m) PROVE Chain'
  <2>1. born' = born /\ stream' = stream \ {m} /\ parked' = parked
    BY <1>5 DEF Ack
  <2>2. \/ ~Unsettled(OpOf(m)) \/ m \in parked \/ NextCopy(m) \in born
    BY <1>5 DEF Ack, Leaving, Unsettled
  <2>3. CASE ~Unsettled(OpOf(m))
    BY <1>4, <2>1, <2>3
  <2>4. CASE NextCopy(m) \in born
    BY <2>1, <2>4, Removed
  <2>5. CASE m \in parked
    <3>1. stream' \cup parked' = stream \cup parked
      BY <2>1, <2>5
    <3>2. \A l \in born : OpOf(l) \in Op
      BY DEF Stores, OpOf
    <3>3. QED
      BY <2>1, <3>1, <3>2, StaysSettled DEF Chain
  <2>6. QED
    BY <2>2, <2>3, <2>4, <2>5
<1>6. ASSUME NEW m \in Msg, Relay(m) PROVE Chain'
  <2>1. CASE RelayPublish(m)
    <3>1. NextCopy(m) \in Op \X Nat
      BY DEF NextCopy, Msg
    <3>2. QED
      BY <1>3, <2>1, <3>1 DEF RelayPublish
  <2>2. CASE RelayAck(m)
    BY <2>2, Removed DEF RelayAck
  <2>3. CASE RelayExpires(m)
    BY <1>4, <2>3 DEF RelayExpires, Unsettled
  <2>4. QED
    BY <1>6, <2>1, <2>2, <2>3 DEF Relay
<1>7. ASSUME NEW o \in Op, Publish(o) PROVE Chain'
  BY <1>3, <1>7 DEF Publish
<1>8. ASSUME NEW m \in Msg, Park(m) PROVE Chain'
  BY <1>2, <1>8 DEF Park
<1>9. ASSUME NEW m \in Msg, Ingress(m), ~Park(m), ~Ack(m)
      PROVE UNCHANGED broker
  BY <1>9 DEF Ingress, Deliver, Disturb, Refuse, PredecessorReady,
              ParkFails, ParkExpires, MarkActive, Duplicate, Start, Cross,
              Return, HandlerThrows, Renew, RenewFails, MarkTerminal,
              AlreadyTerminal, MarkFails, PublishFailure, PublishFails,
              AckFails, Release, Retry
<1>10. QED
  BY <1>1, <1>5, <1>6, <1>7, <1>8, <1>9
  DEF Next, Tick, Crash, Allocate, Reconcile, vars

---------------------------------------------------------------------------
(* A parked copy stays with the scheduler until it is relayed or late.     *)
LEMMA Parkings ==
  ASSUME CustodyInv, Grows, [Next]_vars, NEW m \in Msg,
         m \in parked \/ NextCopy(m) \in born \/ Late(OpOf(m))
  PROVE  (m \in parked \/ NextCopy(m) \in born \/ Late(OpOf(m)))'
<1> DEFINE Held ==
      /\ born \subseteq born'
      /\ m \in parked /\ m \notin parked'
           => NextCopy(m) \in born \/ Late(OpOf(m))
<1>1. Held
  <2>1. ASSUME NEW n \in Msg, Ingress(n) PROVE Held
    <3>1. born' = born /\ parked \subseteq parked'
      BY <2>1
      DEF Ingress, Deliver, Disturb, Refuse, PredecessorReady, Park,
          ParkFails, ParkExpires, MarkActive, Duplicate, Start, Cross, Return,
          HandlerThrows, Renew, RenewFails, MarkTerminal, AlreadyTerminal,
          MarkFails, PublishFailure, PublishFails, Ack, AckFails, Release,
          Retry, broker
    <3>2. QED
      BY <3>1
  <2>2. ASSUME NEW n \in Msg, Relay(n) PROVE Held
    BY <2>2 DEF Relay, RelayPublish, RelayAck, RelayExpires
  <2>3. ASSUME NEW o \in Op, Allocate(o) \/ Publish(o) \/ Reconcile(o)
        PROVE Held
    BY <2>3 DEF Allocate, Publish, Reconcile, broker
  <2>4. CASE Tick \/ Crash \/ UNCHANGED vars
    BY <2>4 DEF Tick, Crash, broker, vars
  <2>5. QED
    BY <2>1, <2>2, <2>3, <2>4 DEF Next
<1>2. Late(OpOf(m)) => Late(OpOf(m))'
  BY CopyOf DEF Grows
<1>3. QED
  BY <1>1, <1>2 DEF NextCopy

(* Only a settled or parked copy goes to be acknowledged.                  *)
LEMMA LeavingStep ==
  ASSUME CustodyInv, Grows, [Next]_vars
  PROVE  Leaving'
<1> Inv /\ Stores /\ InTime /\ Chain /\ Leaving
  BY DEF CustodyInv
<1> Types
  BY DEF Inv
<1>1. \A n \in Msg :
        /\ pc[n] = "acking" => ~Unsettled(OpOf(n))'
        /\ pc[n] = "parked"
             => (n \in parked \/ NextCopy(n) \in born \/ Late(OpOf(n)))'
  BY CopyOf, StaysSettled, Parkings DEF Leaving
<1>2. ASSUME NEW m \in Msg, Elsewhere(m) PROVE Leaving'
  BY <1>1, <1>2 DEF Leaving, Elsewhere
<1>3. ASSUME pc' = pc PROVE Leaving'
  BY <1>1, <1>3 DEF Leaving
<1>4. ASSUME NEW m \in Msg, Goto(m, "acking"), ~Unsettled(OpOf(m))'
      PROVE Leaving'
  BY <1>1, <1>4 DEF Leaving, Goto, Types
<1>5. ASSUME NEW m \in Msg,
             \/ Deliver(m) \/ Disturb(m) \/ Refuse(m)
             \/ PredecessorReady(m) \/ ParkFails(m) \/ ParkExpires(m)
             \/ MarkActive(m)
             \/ Start(m) \/ Cross(m) \/ HandlerThrows(m) \/ Renew(m)
             \/ RenewFails(m) \/ MarkFails(m) \/ PublishFails(m) \/ Ack(m)
             \/ AckFails(m) \/ Release(m) \/ Retry(m)
             \/ \E t \in Lane!TerminalState : Return(m, t)
      PROVE Leaving'
  <2> USE EndsElsewhere DEF Place, Verdict
  <2>1. CASE Deliver(m) \/ Disturb(m) \/ Refuse(m) \/ PredecessorReady(m)
               \/ ParkFails(m) \/ ParkExpires(m)
    BY <1>2, <2>1
    DEF Deliver, Disturb, Refuse, PredecessorReady, ParkFails, ParkExpires,
        ThrowsAny
  <2>2. CASE MarkActive(m)
    BY <1>2, <2>2 DEF MarkActive, Elsewhere, Types
  <2>3. CASE Start(m) \/ HandlerThrows(m)
    BY <1>2, <2>3 DEF Start, HandlerThrows, ThrowsAny
  <2>4. ASSUME NEW t \in Lane!TerminalState, Return(m, t) PROVE Leaving'
    BY <1>2, <2>4 DEF Return, Lane!TerminalState
  <2>5. CASE Cross(m) \/ Renew(m) \/ RenewFails(m)
    BY <1>3, <2>5 DEF Cross, Renew, RenewFails, process
  <2>6. CASE MarkFails(m) \/ PublishFails(m) \/ Ack(m) \/ AckFails(m)
    BY <1>2, <2>6 DEF MarkFails, PublishFails, Ack, AckFails
  <2>7. CASE Release(m) \/ Retry(m)
    BY <1>2, <2>7 DEF Release, Retry
  <2>8. QED
    BY <1>5, <2>1, <2>2, <2>3, <2>4, <2>5, <2>6, <2>7
<1>6. ASSUME NEW m \in Msg, Park(m) PROVE Leaving'
  <2>1. CASE ThrowsAny(m)
    BY <1>2, <2>1, EndsElsewhere DEF ThrowsAny, Verdict
  <2>2. CASE ParkReplied(m)
    <3>1. (m \in parked \/ NextCopy(m) \in born)'
      BY <1>6 DEF Park, NextCopy
    <3>2. pc' = [pc EXCEPT ![m] = "parked"]
      BY <2>2 DEF ParkReplied, Goto
    <3>3. QED
      BY <1>1, <3>1, <3>2 DEF Leaving, Types
  <2>3. QED
    BY <1>6, <2>1, <2>2 DEF Park
<1>7. ASSUME NEW m \in Msg, AfterMark(m), terminal'[OpOf(m)] = goal[m]
      PROVE Leaving'
  <2>1. CASE goal[m] = "succeeded"
    BY <1>4, <1>7, <2>1 DEF AfterMark, Unsettled
  <2>2. CASE goal[m] # "succeeded"
    BY <1>2, <1>7, <2>2, EndsElsewhere DEF AfterMark, Place
  <2>3. QED
    BY <2>1, <2>2
<1>8. ASSUME NEW m \in Msg, MarkTerminal(m) PROVE Leaving'
  <2>1. goal[m] \in Verdict
    BY <1>8 DEF MarkTerminal, Inv, Working
  <2>2. terminal'[OpOf(m)] = goal[m]
    BY <1>8, <2>1, CopyOf, LaneKept DEF MarkTerminal
  <2>3. QED
    BY <1>2, <1>7, <1>8, <2>2, EndsElsewhere DEF MarkTerminal
<1>9. ASSUME NEW m \in Msg, AlreadyTerminal(m) PROVE Leaving'
  BY <1>7, <1>9 DEF AlreadyTerminal, Agrees, lane
<1>10. ASSUME NEW m \in Msg, PublishFailure(m) PROVE Leaving'
  <2>1. CASE Throw(m)
    BY <1>2, <2>1, EndsElsewhere
  <2>2. CASE Goto(m, "acking")
    <3>1. goal[m] = terminal'[OpOf(m)]
      BY <1>10 DEF PublishFailure, Inv, Working, lane
    <3>2. goal[m] \in reported'[OpOf(m)]
      BY <1>10, CopyOf DEF PublishFailure, Types
    <3>3. QED
      BY <1>4, <2>2, <3>1, <3>2 DEF Unsettled
  <2>3. QED
    BY <1>10, <2>1, <2>2 DEF PublishFailure
<1>11. ASSUME NEW m \in Msg, Duplicate(m) PROVE Leaving'
  <2>1. pc' = [pc EXCEPT ![m] =
                 IF Recovers(OpOf(m)) THEN "publishing" ELSE "acking"]
    BY <1>11 DEF Duplicate
  <2>2. CASE Recovers(OpOf(m))
    BY <1>2, <2>1, <2>2 DEF Elsewhere, Types
  <2>3. CASE ~Recovers(OpOf(m))
    <3>1. terminal[OpOf(m)] \in Verdict
      BY <1>11, CopyOf DEF Duplicate, Lane!Done, Types, Verdict
    <3>2. terminal[OpOf(m)] = "succeeded" \/ Late(OpOf(m))
      BY <2>3, <3>1, CopyOf DEF Recovers, InTime, Verdict
    <3>3. ~Unsettled(OpOf(m))'
      BY <3>2, CopyOf, StaysSettled DEF Unsettled
    <3>4. QED
      BY <1>1, <2>1, <2>3, <3>3 DEF Leaving, Types
  <2>4. QED
    BY <2>2, <2>3
<1>12. CASE Crash
  BY <1>12 DEF Crash, Leaving
<1>13. QED
  BY <1>3, <1>5, <1>6, <1>8, <1>9, <1>10, <1>11, <1>12
  DEF Next, Ingress, Relay, RelayPublish, RelayAck, RelayExpires, Tick,
      Allocate, Publish, Reconcile, process, vars

---------------------------------------------------------------------------
(* Custody holds at the start and in every step.                           *)
LEMMA Custody == Spec => []CustodyInv
<1>1. Init => CustodyInv
  BY VerdictInit, IngressAssumption
  DEF Init, Lane!Init, CustodyInv, Stores, InTime, Chain, Leaving, Lane!Open
<1>2. CustodyInv /\ [Next]_vars => CustodyInv'
  BY VerdictStep, GrowStep, InTimeStep, ChainStep, LeavingStep DEF CustodyInv
<1>3. QED
  BY <1>1, <1>2, PTL DEF Spec

(* Before its deadline a published command that is open always has a copy  *)
(* in the stream or with the scheduler, for any number of commands,        *)
(* copies, failed calls and dead processes.                                *)
THEOREM IngressCustody == Spec => []CustodyKept
<1>1. CustodyInv => CustodyKept
  <2> SUFFICES ASSUME CustodyInv, NEW o \in Op, <<o, 1>> \in born, ~Late(o),
                      Lane!Open(o)
               PROVE  \E m \in stream \cup parked : OpOf(m) = o
    BY DEF CustodyKept
  <2>1. Unsettled(o)
    BY DEF CustodyInv, Inv, Types, Unsettled, Lane!Open, Verdict
  <2>2. OpOf(<<o, 1>>) = o
    BY DEF OpOf
  <2>3. QED
    BY <2>1, <2>2 DEF CustodyInv, Chain
<1>2. QED
  BY <1>1, Custody, PTL

(* Before its deadline a recorded failure that nobody has published has a  *)
(* copy that will publish it.                                              *)
THEOREM IngressFailureTold == Spec => []FailureNotSwallowed
<1>1. CustodyInv => FailureNotSwallowed
  <2> SUFFICES ASSUME CustodyInv, NEW o \in Op, <<o, 1>> \in born, ~Late(o),
                      terminal[o] # "succeeded", terminal[o] \notin reported[o]
               PROVE  \E m \in stream \cup parked : OpOf(m) = o
    BY DEF FailureNotSwallowed
  <2>1. Unsettled(o)
    BY DEF Unsettled
  <2>2. OpOf(<<o, 1>>) = o
    BY DEF OpOf
  <2>3. QED
    BY <2>1, <2>2 DEF CustodyInv, Chain
<1>2. QED
  BY <1>1, Custody, PTL
---------------------------------------------------------------------------
(* Order.                                                                  *)

(* The lane is instantiated twice: for the actions, and with its theorems. *)
LEMMA SameLane ==
  /\ Lane!Init <=> LaneProofs!Init
  /\ [Lane!Next]_(Lane!vars) <=> [LaneProofs!Next]_(LaneProofs!vars)
BY DEF Lane!Next, Lane!OpStep, Lane!Tick, Lane!KeyExpires, Lane!Allocate,
       Lane!PassUnchecked, Lane!PassTerminal, Lane!PassExpiring,
       Lane!MarkActive, Lane!RenewActive, Lane!ReleaseActive,
       Lane!RecordTechnicalRetry, Lane!MarkTerminal,
       Lane!ExpireNeverActive, Lane!FinalizeEverActiveAmbiguous,
       Lane!ClearTerminalTail, Lane!ClearActive, Lane!MayClose,
       Lane!Droppable, Lane!Inherits, Lane!DependenciesTerminal, Lane!Down,
       Lane!Due, Lane!Open, Lane!Done, Lane!TerminalState, Lane!vars,
       Lane!chain, Lane!run, Lane!verdict, Lane!Init,
       LaneProofs!Next, LaneProofs!OpStep, LaneProofs!Tick,
       LaneProofs!KeyExpires, LaneProofs!Allocate,
       LaneProofs!PassUnchecked, LaneProofs!PassTerminal,
       LaneProofs!PassExpiring, LaneProofs!MarkActive,
       LaneProofs!RenewActive, LaneProofs!ReleaseActive,
       LaneProofs!RecordTechnicalRetry, LaneProofs!MarkTerminal,
       LaneProofs!ExpireNeverActive,
       LaneProofs!FinalizeEverActiveAmbiguous,
       LaneProofs!ClearTerminalTail, LaneProofs!ClearActive,
       LaneProofs!MayClose, LaneProofs!Droppable, LaneProofs!Inherits,
       LaneProofs!DependenciesTerminal, LaneProofs!Down, LaneProofs!Due,
       LaneProofs!Open, LaneProofs!Done, LaneProofs!TerminalState,
       LaneProofs!vars, LaneProofs!chain, LaneProofs!run,
       LaneProofs!verdict, LaneProofs!Init

(* Every step is a step of the lane, or leaves it alone.                   *)
LEMMA LaneStep ==
  ASSUME Inv, [Next]_vars
  PROVE  [Lane!Next]_(Lane!vars)
<1>1. ASSUME UNCHANGED lane PROVE UNCHANGED Lane!vars
  BY <1>1 DEF lane, Lane!vars, Lane!chain, Lane!run, Lane!verdict
<1>2. ASSUME NEW o \in Op, Lane!OpStep(o) PROVE Lane!Next
  BY <1>2 DEF Lane!Next
<1>3. ASSUME NEW m \in Msg, Ingress(m) PROVE [Lane!Next]_(Lane!vars)
  <2>1. CASE UNCHANGED lane
    BY <1>1, <2>1
  <2>2. CASE MarkTerminal(m)
    <3>1. goal[m] \in Lane!TerminalState
      BY <2>2 DEF MarkTerminal, Inv, Working, Verdict, Lane!TerminalState
    <3>2. Lane!OpStep(OpOf(m))
      BY <2>2, <3>1 DEF MarkTerminal, Lane!OpStep
    <3>3. QED
      BY <1>2, <3>2, CopyOf
  <2>3. CASE Lane!OpStep(OpOf(m))
    BY <1>2, <2>3, CopyOf
  <2>4. QED
    BY <1>3, <2>1, <2>2, <2>3
    DEF Ingress, Deliver, Disturb, Refuse, PredecessorReady, Park, ParkFails,
        ParkExpires, MarkActive, Duplicate, Start, Cross, Return,
        HandlerThrows, Renew, RenewFails, AlreadyTerminal, MarkFails,
        PublishFailure, PublishFails, Ack, AckFails, Release, Retry,
        Lane!OpStep
<1>4. ASSUME NEW m \in Msg, Relay(m) PROVE UNCHANGED lane
  BY <1>4 DEF Relay, RelayPublish, RelayAck, RelayExpires
<1>5. ASSUME NEW o \in Op, Allocate(o) \/ Publish(o) \/ Reconcile(o)
      PROVE Lane!OpStep(o) \/ UNCHANGED lane
  BY <1>5 DEF Allocate, Publish, Reconcile, Finalizes, Lane!OpStep
<1>6. CASE Tick
  BY <1>6 DEF Tick, Lane!Next
<1>7. Crash \/ UNCHANGED vars => UNCHANGED lane
  BY DEF Crash, vars
<1>8. QED
  BY <1>1, <1>2, <1>3, <1>4, <1>5, <1>6, <1>7 DEF Next

(* The ingress, the relay and the reconciler run the lane as it is         *)
(* specified.                                                              *)
LEMMA RunsLane == Spec => LaneProofs!Spec
<1>1. Init => LaneProofs!Init
  BY SameLane DEF Init
<1>2. Inv /\ [Next]_vars => [LaneProofs!Next]_(LaneProofs!vars)
  BY LaneStep, SameLane
<1>3. QED
  BY <1>1, <1>2, VerdictInit, VerdictStep, PTL DEF Spec, LaneProofs!Spec

(* So what is proved of the lane holds here, the order of an entity first: *)
(* what acquires the lane has only closed commands before it, however its  *)
(* copies were parked, relayed and redelivered.                            *)
THEOREM IngressKeepsOrder == Spec => []LaneProofs!EntityOrder
<1>1. LaneProofs!LaneAssumption
  BY IngressAssumption DEF LaneProofs!LaneAssumption, Op, None
<1>2. LaneProofs!Spec => []LaneProofs!EntityOrder
  BY <1>1, LaneProofs!LaneOrdered
<1>3. QED
  BY <1>2, RunsLane, PTL

(* Ingress, parker, relay and reconciler together implement the entity's   *)
(* queue, whatever calls fail and processes die.                           *)
THEOREM IngressServesInOrder == Spec => LaneProofs!ServesInOrder
<1>1. LaneProofs!LaneAssumption
  BY IngressAssumption DEF LaneProofs!LaneAssumption, Op, None
<1>2. LaneProofs!Spec => LaneProofs!ServesInOrder
  BY <1>1, LaneProofs!LaneServesInOrder
<1>3. QED
  BY <1>2, RunsLane

---------------------------------------------------------------------------
(* The order of the provider calls.                                        *)

(* Operations are numbered as they were admitted, and what the lane has    *)
(* dropped came before everything that is open.                            *)
Numbered ==
  /\ \A o \in known : seq[o] = o /\ o <= sequence
  /\ \A p \in known \ live, o \in Op : Lane!Open(o) => p < o

(* The queue holds started operations in the order of their admission, the *)
(* one whose handler runs first, and none that comes before one called.    *)
Queued ==
  /\ queue \in Seq(Msg)
  /\ \A m \in Msg : pc[m] = "handler" => queue # <<>> /\ Head(queue) = m
  /\ \A i \in 1 .. Len(queue) : OpOf(queue[i]) \in everActive
  /\ \A i, j \in 1 .. Len(queue) : i <= j => OpOf(queue[i]) <= OpOf(queue[j])
  /\ called \subseteq everActive
  /\ \A p \in called, i \in 1 .. Len(queue) : p <= OpOf(queue[i])

(* What the lane's own proof provides.                                     *)
LaneHolds == LaneProofs!LaneInv /\ LaneProofs!EntityOrder

(* Only an admission changes the lane's entries, and no step forgets what  *)
(* has acquired the lane.                                                  *)
LEMMA LaneEntries ==
  ASSUME [Next]_vars
  PROVE  /\ everActive \subseteq everActive'
         /\ \/ \E o \in Op : Allocate(o)
            \/ UNCHANGED <<known, live, seq, sequence>>
<1>1. ASSUME NEW o \in Op,
             \/ Lane!PassUnchecked(o) \/ Lane!PassTerminal(o)
             \/ Lane!PassExpiring(o) \/ Lane!MarkActive(o)
             \/ Lane!RenewActive(o) \/ Lane!ReleaseActive(o)
             \/ Lane!RecordTechnicalRetry(o)
             \/ \E t : Lane!MarkTerminal(o, t)
             \/ Lane!ExpireNeverActive(o)
             \/ Lane!FinalizeEverActiveAmbiguous(o)
      PROVE  /\ everActive \subseteq everActive'
             /\ UNCHANGED <<known, live, seq, sequence>>
  BY <1>1
  DEF Lane!PassUnchecked, Lane!PassTerminal, Lane!PassExpiring,
      Lane!MarkActive, Lane!RenewActive, Lane!ReleaseActive,
      Lane!RecordTechnicalRetry, Lane!MarkTerminal, Lane!ExpireNeverActive,
      Lane!FinalizeEverActiveAmbiguous, Lane!ClearActive, Lane!chain,
      Lane!run
<1>2. ASSUME UNCHANGED lane
      PROVE  /\ everActive \subseteq everActive'
             /\ UNCHANGED <<known, live, seq, sequence>>
  BY <1>2 DEF lane
<1>3. ASSUME NEW m \in Msg, Ingress(m)
      PROVE  /\ everActive \subseteq everActive'
             /\ UNCHANGED <<known, live, seq, sequence>>
  BY <1>1, <1>2, <1>3, CopyOf
  DEF Ingress, Deliver, Disturb, Refuse, PredecessorReady, Park, ParkFails,
      ParkExpires, MarkActive, Duplicate, Start, Cross, Return,
      HandlerThrows, Renew, RenewFails, MarkTerminal, AlreadyTerminal,
      MarkFails, PublishFailure, PublishFails, Ack, AckFails, Release, Retry
<1>4. ASSUME NEW m \in Msg, Relay(m) PROVE UNCHANGED lane
  BY <1>4 DEF Relay, RelayPublish, RelayAck, RelayExpires
<1>5. ASSUME NEW o \in Op, Allocate(o) PROVE everActive \subseteq everActive'
  BY <1>5 DEF Allocate, Lane!Allocate, Lane!run
<1>6. ASSUME NEW o \in Op, Publish(o) \/ Reconcile(o)
      PROVE  /\ everActive \subseteq everActive'
             /\ UNCHANGED <<known, live, seq, sequence>>
  BY <1>1, <1>2, <1>6 DEF Publish, Reconcile, Finalizes
<1>7. CASE Tick
  BY <1>7 DEF Tick, Lane!Tick, Lane!chain
<1>8. Crash \/ UNCHANGED vars => UNCHANGED lane
  BY DEF Crash, vars
<1>9. QED
  BY <1>2, <1>3, <1>4, <1>5, <1>6, <1>7, <1>8 DEF Next

(* What is dropped is closed, and so is everything before it.              *)
LEMMA NumberedStep ==
  ASSUME CustodyInv, LaneHolds, Numbered, [Next]_vars
  PROVE  Numbered'
<1> Inv /\ Stores
  BY DEF CustodyInv
<1> Kept
  BY GrowStep DEF Grows
<1> LaneProofs!LaneInv /\ LaneProofs!TypeOK
  BY DEF LaneHolds, LaneProofs!LaneInv
<1>1. CASE UNCHANGED <<known, live, seq, sequence>>
  BY <1>1 DEF Numbered, Kept, Lane!Open
<1>2. ASSUME NEW n \in Op, Allocate(n) PROVE Numbered'
  <2>1. /\ n = sequence + 1 /\ n \notin known
        /\ known' = known \cup {n} /\ live' = (live \ Lane!Droppable) \cup {n}
        /\ seq' = [seq EXCEPT ![n] = sequence + 1] /\ sequence' = sequence + 1
        /\ terminal' = terminal
    BY <1>2 DEF Allocate, Lane!Allocate
  <2>2. /\ sequence \in Nat /\ seq \in [Op -> Nat]
        /\ known \subseteq Op /\ live \subseteq known /\ Op \subseteq Nat
    BY IngressAssumption DEF LaneProofs!TypeOK, Op
  <2>3. \A o \in known' : seq'[o] = o /\ o <= sequence'
    BY <2>1, <2>2 DEF Numbered
  <2>4. ASSUME NEW d \in Lane!Droppable, NEW o \in live, Lane!Open(o)
        PROVE  d < o
    <3>1. d \in live /\ terminal[d] # "none"
      BY DEF Lane!Droppable, Lane!Done
    <3>2. LaneProofs!AllDoneBefore(d)
      <4>1. Lane!DependenciesTerminal(d)
        BY DEF Lane!Droppable
      <4>2. LaneProofs!DependenciesTerminal(d)
        BY <4>1 DEF Lane!DependenciesTerminal, Lane!Done,
                    LaneProofs!DependenciesTerminal, LaneProofs!Done
      <4>3. LaneProofs!LaneAssumption
        BY IngressAssumption DEF LaneProofs!LaneAssumption, Op, None
      <4>4. QED
        BY <3>1, <4>2, <4>3, LaneProofs!WalkSound
    <3>3. ~(seq[o] < seq[d]) /\ o # d
      BY <2>2, <2>4, <3>1, <3>2
      DEF LaneProofs!AllDoneBefore, LaneProofs!Before, LaneProofs!Done,
          Lane!Open
    <3>4. QED
      BY <2>2, <3>1, <3>3 DEF Numbered
  <2>5. ASSUME NEW p \in known' \ live', NEW o \in Op, Lane!Open(o)'
        PROVE  p < o
    <3>1. CASE o = n
      BY <2>1, <2>2, <3>1 DEF Numbered
    <3>2. CASE o # n
      <4>1. o \in live /\ Lane!Open(o)
        BY <2>1, <2>5, <3>2 DEF Lane!Open
      <4>2. p \in known \ live \/ p \in Lane!Droppable
        BY <2>1
      <4>3. QED
        BY <2>4, <4>1, <4>2 DEF Numbered
    <3>3. QED
      BY <3>1, <3>2
  <2>6. QED
    BY <2>3, <2>5 DEF Numbered
<1>3. QED
  BY <1>1, <1>2, LaneEntries

(* What the lane's invariant says of its sets of operations.               *)
LEMMA LaneSets ==
  ASSUME LaneHolds
  PROVE  /\ everActive \subseteq known /\ known \subseteq Op
         /\ live \subseteq known /\ Op \subseteq Nat
BY DEF LaneHolds, LaneProofs!LaneInv, LaneProofs!TypeOK, Op

(* What has acquired the lane does not come after what is open.            *)
LEMMA StartedFirst ==
  ASSUME LaneHolds, Numbered, NEW o \in everActive, NEW p \in Op, Lane!Open(p)
  PROVE  o <= p
<1>1. /\ everActive \subseteq known /\ known \subseteq Op
      /\ live \subseteq known /\ Op \subseteq Nat
  BY LaneSets
<1>2. CASE o \in live
  <2>1. ~(seq[p] < seq[o])
    BY <1>1, <1>2 DEF LaneHolds, LaneProofs!EntityOrder, LaneProofs!Before,
                      LaneProofs!Done, Lane!Open
  <2>2. seq[p] = p /\ seq[o] = o
    BY <1>1 DEF Numbered, Lane!Open
  <2>3. QED
    BY <1>1, <2>1, <2>2
<1>3. CASE o \notin live
  BY <1>1, <1>3 DEF Numbered
<1>4. QED
  BY <1>2, <1>3

(* No handler starts.                                                      *)
NoNewTask == \A n \in Msg : pc'[n] = "handler" => pc[n] = "handler"

(* However a step of process() ends, it does not start a handler.          *)
LEMMA EndsIdle ==
  ASSUME Types, NEW m \in Msg
  PROVE  /\ \A p \in Place \ {"handler"} : Goto(m, p) => NoNewTask
         /\ \A h \in {"held", "catch"}, t \in Verdict :
              Close(m, h, t) => NoNewTask
         /\ \A p \in Place \ {"handler"} : Leave(m, p) => NoNewTask
         /\ Nak(m) => NoNewTask
         /\ Caught(m) => NoNewTask
         /\ Throw(m) => NoNewTask
<1> USE DEF Types, NoNewTask, Place, Verdict
<1>1. \A p \in Place \ {"handler"} : Goto(m, p) => NoNewTask
  BY DEF Goto
<1>2. \A h \in {"held", "catch"}, t \in Verdict : Close(m, h, t) => NoNewTask
  BY DEF Close
<1>3. \A p \in Place \ {"handler"} : Leave(m, p) => NoNewTask
  BY DEF Leave
<1>4. Nak(m) => NoNewTask
  BY <1>3 DEF Nak
<1>5. Caught(m) => NoNewTask
  BY <1>2, <1>3 DEF Caught
<1>6. QED
  BY <1>1, <1>2, <1>3, <1>4, <1>5 DEF Throw

(* Of a queue whose handler has ended the order remains.                   *)
LEMMA TaskEnds ==
  ASSUME Queued, everActive \subseteq everActive', called' = called,
         queue # <<>>, queue' = Tail(queue),
         \A n \in Msg : pc'[n] # "handler"
  PROVE  Queued'
<1>1. /\ Tail(queue) \in Seq(Msg) /\ Len(Tail(queue)) = Len(queue) - 1
      /\ Len(queue) \in Nat
      /\ \A i \in 1 .. Len(Tail(queue)) : Tail(queue)[i] = queue[i + 1]
  BY DEF Queued
<1>2. QED
  BY <1>1 DEF Queued

(* The queue stays in order in every step.                                 *)
LEMMA QueuedStep ==
  ASSUME CustodyInv, LaneHolds, Numbered, Queued, [Next]_vars
  PROVE  Queued'
<1> Inv /\ Types
  BY DEF CustodyInv, Inv
<1> everActive \subseteq everActive'
  BY LaneEntries
<1>1. ASSUME NoNewTask, queue' = queue, called' = called PROVE Queued'
  BY <1>1 DEF NoNewTask, Queued
<1>2. ASSUME NEW m \in Msg,
             \/ Deliver(m) \/ Disturb(m) \/ Refuse(m) \/ PredecessorReady(m)
             \/ Park(m) \/ ParkFails(m) \/ ParkExpires(m) \/ Renew(m)
             \/ RenewFails(m) \/ AlreadyTerminal(m) \/ MarkTerminal(m)
             \/ MarkFails(m) \/ PublishFailure(m) \/ PublishFails(m) \/ Ack(m)
             \/ AckFails(m) \/ Release(m) \/ Retry(m)
      PROVE Queued'
  <2>1. queue' = queue /\ called' = called
    BY <1>2 DEF Deliver, Disturb, Refuse, PredecessorReady, Park, ParkFails,
                ParkExpires, Renew, RenewFails, AlreadyTerminal,
                MarkTerminal, MarkFails, PublishFailure, PublishFails, Ack,
                AckFails, Release, Retry, process
  <2> USE EndsIdle DEF Place, Verdict
  <2>2. CASE Deliver(m) \/ Disturb(m) \/ Refuse(m) \/ PredecessorReady(m)
    BY <1>1, <2>1, <2>2 DEF Deliver, Disturb, Refuse, PredecessorReady
  <2>3. CASE Park(m) \/ ParkFails(m) \/ ParkExpires(m)
    BY <1>1, <2>1, <2>3 DEF Park, ParkReplied, ParkFails, ParkExpires, ThrowsAny
  <2>4. CASE Renew(m) \/ RenewFails(m)
    BY <1>1, <2>1, <2>4 DEF Renew, RenewFails, process, NoNewTask
  <2>5. CASE AlreadyTerminal(m) \/ MarkTerminal(m) \/ MarkFails(m)
    BY <1>1, <2>1, <2>5
    DEF AlreadyTerminal, MarkTerminal, MarkFails, AfterMark
  <2>6. CASE PublishFailure(m) \/ PublishFails(m) \/ Ack(m) \/ AckFails(m)
    BY <1>1, <2>1, <2>6 DEF PublishFailure, PublishFails, Ack, AckFails
  <2>7. CASE Release(m) \/ Retry(m)
    BY <1>1, <2>1, <2>7 DEF Release, Retry
  <2>8. QED
    BY <1>2, <2>2, <2>3, <2>4, <2>5, <2>6, <2>7
<1>3. ASSUME NEW m \in Msg, Duplicate(m) PROVE Queued'
  BY <1>1, <1>3 DEF Duplicate, NoNewTask, Types, process
<1>4. ASSUME NEW m \in Msg, MarkActive(m) PROVE Queued'
  <2> DEFINE o == OpOf(m)
  <2>1. /\ o \in Op /\ Lane!Open(o) /\ everActive' = everActive \cup {o}
        /\ called' = called
    BY <1>4, CopyOf DEF MarkActive, Lane!MarkActive
  <2>2. CASE Caught(m) /\ queue' = queue
    BY <1>1, <2>1, <2>2, EndsIdle
  <2>3. CASE /\ pc' = [pc EXCEPT ![m] = "queued"]
             /\ queue' = Append(queue, m)
    <3>1. \A p \in everActive : p <= o
      BY <2>1, StartedFirst
    <3>2. /\ Append(queue, m) \in Seq(Msg) /\ Len(queue) \in Nat
          /\ Len(Append(queue, m)) = Len(queue) + 1
          /\ \A i \in 1 .. Len(queue) : Append(queue, m)[i] = queue[i]
          /\ Append(queue, m)[Len(queue) + 1] = m
          /\ queue # <<>> => Head(Append(queue, m)) = Head(queue)
      BY DEF Queued
    <3>3. o \in Nat
      BY <2>1 DEF Op
    <3>4. QED
      BY <2>1, <2>3, <3>1, <3>2, <3>3 DEF Queued, Types
  <2>4. QED
    BY <1>4, <2>2, <2>3 DEF MarkActive
<1>5. ASSUME NEW m \in Msg, Start(m) PROVE Queued'
  <2>1. /\ called' = called /\ pc[m] = "queued"
        /\ queue # <<>> /\ Head(queue) = m
    BY <1>5 DEF Start
  <2>2. \A n \in Msg : pc[n] # "handler"
    BY <2>1 DEF Queued
  <2>3. CASE Goto(m, "handler") /\ queue' = queue
    BY <2>1, <2>2, <2>3 DEF Queued, Goto, Types
  <2>4. CASE Caught(m) /\ queue' = Tail(queue)
    BY <2>1, <2>2, <2>4, EndsIdle, TaskEnds DEF NoNewTask
  <2>5. QED
    BY <1>5, <2>3, <2>4 DEF Start
<1>6. ASSUME NEW m \in Msg, Cross(m) PROVE Queued'
  <2>1. /\ queue # <<>> /\ Head(queue) = m
        /\ called' = called \cup {OpOf(m)} /\ pc' = pc /\ queue' = queue
    BY <1>6 DEF Cross, Queued, process
  <2>2. 1 \in 1 .. Len(queue) /\ queue[1] = m
    BY <2>1 DEF Queued
  <2>3. QED
    BY <2>1, <2>2 DEF Queued
<1>7. ASSUME NEW m \in Msg,
             HandlerThrows(m) \/ \E t \in Lane!TerminalState : Return(m, t)
      PROVE Queued'
  <2>1. pc[m] = "handler" /\ called' = called /\ queue' = Tail(queue)
    BY <1>7 DEF HandlerThrows, Return, Settled
  <2>2. queue # <<>> /\ \A n \in Msg : pc[n] = "handler" => n = m
    BY <2>1 DEF Queued
  <2>3. NoNewTask /\ pc'[m] # "handler"
    BY <1>7, EndsElsewhere, EndsIdle
    DEF HandlerThrows, ThrowsAny, Return, Lane!TerminalState, Verdict, Place,
        Caught, Close, Leave, Types
  <2>4. QED
    BY <2>1, <2>2, <2>3, TaskEnds DEF NoNewTask
<1>8. ASSUME UNCHANGED <<pc, queue, called>> PROVE Queued'
  BY <1>1, <1>8 DEF NoNewTask
<1>9. CASE Crash
  <2>1. /\ queue' = <<>> /\ called' = called
        /\ \A n \in Msg : pc'[n] # "handler"
    BY <1>9 DEF Crash
  <2>2. QED
    BY <2>1 DEF Queued
<1>10. QED
  BY <1>2, <1>3, <1>4, <1>5, <1>6, <1>7, <1>8, <1>9
  DEF Next, Ingress, Relay, RelayPublish, RelayAck, RelayExpires, Tick,
      Allocate, Publish, Reconcile, process, vars

(* Whatever is parked, relayed, redelivered or retried, the provider calls *)
(* of an entity are made in the order in which its commands were admitted. *)
THEOREM IngressCallsInOrder == Spec => CallsInOrder
<1> DEFINE Order == \A o \in called' \ called, p \in called : seq[p] < seq[o]
<1>1. Spec => []LaneHolds
  <2>1. Spec => LaneProofs!Spec
    BY RunsLane
  <2>2. LaneProofs!LaneAssumption
    BY IngressAssumption DEF LaneProofs!LaneAssumption, Op, None
  <2>3. LaneProofs!Spec => []LaneProofs!LaneInv
    BY <2>2, LaneProofs!LaneInvariant
  <2>4. LaneProofs!Spec => []LaneProofs!EntityOrder
    BY <2>2, LaneProofs!LaneOrdered
  <2>5. QED
    BY <2>1, <2>3, <2>4, PTL DEF LaneHolds
<1>2. Init => Numbered /\ Queued
  BY DEF Init, Lane!Init, Numbered, Queued
<1>3. CustodyInv /\ LaneHolds /\ Numbered /\ Queued /\ [Next]_vars
        => Numbered' /\ Queued'
  BY NumberedStep, QueuedStep
<1>4. LaneHolds /\ Numbered /\ Queued /\ [Next]_vars => [Order]_vars
  <2> SUFFICES ASSUME LaneHolds, Numbered, Queued, Next,
                      NEW o \in called' \ called, NEW p \in called
               PROVE  seq[p] < seq[o]
    OBVIOUS
  <2>1. PICK m \in Msg : Cross(m) /\ OpOf(m) = o
    <3>1. ASSUME NEW m \in Msg, Ingress(m), called' # called PROVE Cross(m)
      BY <3>1
      DEF Ingress, Deliver, Disturb, Refuse, PredecessorReady, Park,
          ParkFails, ParkExpires, MarkActive, Duplicate, Start, Return,
          HandlerThrows, Renew, RenewFails, MarkTerminal, AlreadyTerminal,
          MarkFails, PublishFailure, PublishFails, Ack, AckFails, Release,
          Retry
    <3>2. PICK m \in Msg : Ingress(m)
      BY DEF Next, Relay, RelayPublish, RelayAck, RelayExpires, Tick, Crash,
             Allocate, Publish, Reconcile
    <3>3. QED
      BY <3>1, <3>2 DEF Cross
  <2>2. queue # <<>> /\ Head(queue) = m
    BY <2>1 DEF Cross, Queued
  <2>3. 1 \in 1 .. Len(queue) /\ queue[1] = m
    BY <2>2 DEF Queued
  <2>4. p <= o /\ p # o /\ p \in everActive /\ o \in everActive
    BY <2>1, <2>3 DEF Queued
  <2>5. everActive \subseteq known /\ known \subseteq Nat
    BY LaneSets
  <2>6. QED
    BY <2>4, <2>5 DEF Numbered
<1>5. QED
  BY <1>1, <1>2, <1>3, <1>4, Custody, PTL DEF Spec, CallsInOrder
=============================================================================
