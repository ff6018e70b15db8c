--------------------------- MODULE CommandIngress ---------------------------
(***************************************************************************)
(* How a published command reaches its handler and how its delivery ends:  *)
(* the JetStream ingress of one worker, the parker that moves a command    *)
(* which has to wait out of the way, and the relay that brings it back.    *)
(* The commands of one entity are ordered by its lane (CommandLane).       *)
(*                                                                         *)
(* A Msg <<o, n>> is the n-th copy of o's command in the command stream:   *)
(* the first is the admission's, each later one a relayed copy of the one  *)
(* before it.  A copy that has been delivered is worked on in steps of one *)
(* Redis or NATS call each; a call can fail (Fails), with its effect or    *)
(* without.  A delivery whose process dies, or whose NAK is lost, is made  *)
(* again only after AckWait, which is as long as the deadline.             *)
(*                                                                         *)
(* Envelope validation, the dispatch gate and the epoch are left out but   *)
(* for their refusals (Refuse, Disturb).  The handler is reduced to what   *)
(* matters outside: it crosses the provider boundary at most once for an   *)
(* operation (SendLedger) and settles.  The deadline reconciler            *)
(* (CommandDeadlines) is one step.  MaxAge and the TTL of a ready message  *)
(* are left out: they only end deliveries after the deadline, and none of  *)
(* those is required here.  The lane's own TTL does not run out.           *)
(***************************************************************************)
EXTENDS Naturals, Sequences

CONSTANTS
  MaxOps,      \* operations, numbered in the order of their admission
  LeaseTicks, DeadlineTicks, TtlTicks, MaxRetries,   \* the lane's
  Outcome,     \* results of a handler that returns
  MaxCopies,   \* bound on the copies of a command: the last is not parked
  ArrivalTicks,  \* bound on the ticks between admissions
  Unreliable,  \* operations whose handler may throw at every attempt
  MaxFaults    \* bound on failed calls, dead processes and other throws

ASSUME IngressAssumption ==
  /\ MaxOps \in Nat
  /\ LeaseTicks \in Nat \ {0} /\ DeadlineTicks \in Nat \ {0}
  /\ TtlTicks \in Nat \ {0}
  /\ MaxRetries \in Nat /\ MaxCopies \in Nat \ {0}
  /\ MaxFaults \in Nat /\ ArrivalTicks \in Nat
  /\ Unreliable \subseteq 1 .. MaxOps
  /\ Outcome \subseteq {"succeeded", "failed", "expired", "ambiguous"}

VARIABLES
  known, live, seq, pred, succ, tail, sequence, satisfied, everActive, active,
  lease, terminal, coded, age, retries, ttl, cleared,
  clock,     \* ticks since issued_at
  born,      \* copies ever stored in the command stream
  stream,    \* copies stored and not acknowledged
  parked,    \* copies whose schedule, or its ready message, is stored
  pc,        \* what the ingress does with a copy
  mode,      \* try, held (laneAcquired) or catch
  goal,      \* terminal state it wants to record
  lost,      \* copies with a laneLeaseError
  queue,     \* the entity's tasks in the scheduler, running one first
  called,    \* operations that have crossed the provider boundary
  reported,  \* failures published; "relay" for the relay's expiries
  faults     \* failures so far

Op == 1 .. MaxOps
None == 0

Lane == INSTANCE CommandLane

lane == <<known, live, seq, pred, succ, tail, sequence, satisfied, everActive,
          active, lease, terminal, coded, age, retries, ttl, cleared>>
broker == <<born, stream, parked>>
process == <<pc, mode, goal, lost, queue>>
vars == <<lane, clock, broker, process, called, reported, faults>>

Msg == Op \X (1 .. MaxCopies)
OpOf(m) == m[1]
NextCopy(m) == <<m[1], m[2] + 1>>
Late(o) == clock[o] = DeadlineTicks

---------------------------------------------------------------------------
(* Whether every call of a step works, or one of them fails.               *)
Works == UNCHANGED faults
Fails == faults < MaxFaults /\ faults' = faults + 1

---------------------------------------------------------------------------
(* Faulty variants of definitions below.  No action uses them: each one    *)
(* replaces the definition it is named after when the runs are checked for *)
(* being able to fail.                                                     *)
ParkFails_Acked(m) ==
  /\ Fails
  /\ pc[m] = "predecessor" /\ m[2] < MaxCopies
  /\ pc' = [pc EXCEPT ![m] = "parked"]
  /\ UNCHANGED <<lane, clock, broker, mode, goal, lost, queue, called,
                 reported>>

PredecessorReady_Relayed(m) ==
  /\ pc[m] = "predecessor"
  /\ \/ Lane!PassUnchecked(OpOf(m)) \/ Lane!PassTerminal(OpOf(m))
     \/ m[2] > 1 /\ cleared' = cleared \cup {OpOf(m)}
        /\ UNCHANGED <<known, live, seq, pred, succ, tail, sequence, satisfied,
                       everActive, active, lease, terminal, coded, age,
                       retries, ttl>>
  /\ pc' = [pc EXCEPT ![m] = "ownership"]
  /\ UNCHANGED <<clock, broker, mode, goal, lost, queue, called, reported,
                 faults>>

Recovers_Never(o) == FALSE

Agrees_Any(o, t) == TRUE

RelayAck_Unpublished(m) ==
  /\ m \in parked
  /\ parked' = parked \ {m}
  /\ UNCHANGED <<lane, clock, born, stream, process, called, reported, faults>>

---------------------------------------------------------------------------
(* Admission: the lane position, then (at most once) the publication.      *)
Allocate(o) ==
  /\ o = sequence + 1
  /\ \A p \in known : clock[p] <= ArrivalTicks
  /\ Lane!Allocate(o)
  /\ UNCHANGED <<clock, broker, process, called, reported, faults>>

Publish(o) ==
  /\ o \in known /\ ~Late(o) /\ <<o, 1>> \notin born
  /\ born' = born \cup {<<o, 1>>}
  /\ stream' = stream \cup {<<o, 1>>}
  /\ UNCHANGED <<lane, clock, parked, process, called, reported, faults>>

---------------------------------------------------------------------------
(* How a step of process() ends.  Go on: *)
Goto(m, place) ==
  /\ pc' = [pc EXCEPT ![m] = place]
  /\ UNCHANGED <<mode, goal, lost>>

(* failAndAck and finish: record t, say so if it is a failure, acknowledge.*)
Close(m, how, t) ==
  /\ pc' = [pc EXCEPT ![m] = "closing"]
  /\ mode' = [mode EXCEPT ![m] = how]
  /\ goal' = [goal EXCEPT ![m] = t]
  /\ UNCHANGED lost

(* Nothing is left to do but what place stands for: idle when the delivery *)
(* is over.                                                                *)
Leave(m, place) ==
  /\ pc' = [pc EXCEPT ![m] = place]
  /\ mode' = [mode EXCEPT ![m] = "try"]
  /\ goal' = [goal EXCEPT ![m] = "none"]
  /\ lost' = lost \ {m}

Nak(m) == \/ Leave(m, "idle")
          \/ faults' # faults /\ Leave(m, "unheard")

(* The catch block, and the handler of consume for what it throws itself.  *)
Caught(m) ==
  IF Late(OpOf(m)) THEN Close(m, "catch", "expired")
  ELSE Leave(m, IF mode[m] = "held" THEN "release" ELSE "retry")

Throw(m) == IF mode[m] = "catch" THEN Nak(m) ELSE Caught(m)

(* What the parker or a handler throws may be an error that is not retried.*)
ThrowsAny(m) == Caught(m) \/ (~Late(OpOf(m)) /\ Close(m, "catch", "failed"))

---------------------------------------------------------------------------
(* A copy is delivered, again only when it was negatively acknowledged or  *)
(* AckWait has passed.                                                     *)
Deliver(m) ==
  /\ m \in stream
  /\ pc[m] = "idle" \/ (pc[m] = "unheard" /\ Late(OpOf(m)))
  /\ IF Late(OpOf(m)) THEN Close(m, "catch", "expired")
     ELSE Goto(m, "predecessor")
  /\ UNCHANGED <<lane, clock, broker, queue, called, reported, faults>>

(* A call fails, the ingress is revoked, or the deadline is seen.          *)
Disturb(m) ==
  /\ pc[m] \in {"predecessor", "ownership"}
  /\ Fails \/ (Works /\ Late(OpOf(m)))
  /\ Caught(m)
  /\ UNCHANGED <<lane, clock, broker, queue, called, reported>>

(* The epoch rejects the delivery.                                         *)
Refuse(m) ==
  /\ Fails
  /\ pc[m] \in {"predecessor", "ownership"} /\ ~Late(OpOf(m))
  /\ Close(m, "catch", "failed")
  /\ UNCHANGED <<lane, clock, broker, queue, called, reported>>

PredecessorReady(m) ==
  LET o == OpOf(m)
  IN /\ pc[m] = "predecessor"
     /\ Lane!PassUnchecked(o) \/ Lane!PassTerminal(o) \/ Lane!PassExpiring(o)
     /\ Goto(m, "ownership")
     /\ UNCHANGED <<clock, broker, queue, called, reported, faults>>

(* The reply is waiting, and not predecessor_ever_active.                  *)
MustPark(o) ==
  /\ pred[o] # None /\ o \notin satisfied
  /\ IF Lane!DependenciesTerminal(pred[o])
     THEN Lane!Open(pred[o]) /\ pred[o] \notin everActive
     ELSE TRUE

ParkReplied(m) == Goto(m, "parked")

(* park: the schedule is stored, once for each copy, or the call fails,    *)
(* perhaps with an answer that is not understood.                          *)
Park(m) ==
  /\ pc[m] = "predecessor" /\ MustPark(OpOf(m))
  /\ ~Late(OpOf(m)) /\ m[2] < MaxCopies
  /\ parked' = IF NextCopy(m) \in born THEN parked ELSE parked \cup {m}
  /\ (Works /\ ParkReplied(m)) \/ (Fails /\ ThrowsAny(m))
  /\ UNCHANGED <<lane, clock, born, stream, queue, called, reported>>

ParkFails(m) ==
  /\ Fails
  /\ pc[m] = "predecessor" /\ MustPark(OpOf(m)) /\ m[2] < MaxCopies
  /\ ThrowsAny(m)
  /\ UNCHANGED <<lane, clock, broker, queue, called, reported>>

(* The schedule would come due at the deadline or after it: park gives the *)
(* command up as expired, somewhat before its time.                        *)
ParkExpires(m) ==
  /\ pc[m] = "predecessor" /\ MustPark(OpOf(m))
  /\ clock[OpOf(m)] + 1 = DeadlineTicks
  /\ Close(m, "catch", "expired")
  /\ UNCHANGED <<lane, clock, broker, queue, called, reported, faults>>

---------------------------------------------------------------------------
(* waitForLaneOwnership and the scheduler.                                 *)
MarkActive(m) ==
  /\ pc[m] = "ownership"
  /\ Lane!MarkActive(OpOf(m))
  /\ \/ /\ pc' = [pc EXCEPT ![m] = "queued"]
        /\ mode' = [mode EXCEPT ![m] = "held"]
        /\ queue' = Append(queue, m)
        /\ Works /\ UNCHANGED <<goal, lost>>
     \/ Fails /\ Caught(m) /\ UNCHANGED queue
  /\ UNCHANGED <<clock, broker, called, reported>>

(* What a duplicate has to do before it is acknowledged: publish again a   *)
(* failure that has a code.                                                *)
Recovers(o) == o \in coded /\ terminal[o] # "succeeded"

Duplicate(m) ==
  LET o == OpOf(m)
  IN /\ pc[m] = "ownership" /\ Lane!Done(o)
     /\ pc' = [pc EXCEPT ![m] = IF Recovers(o) THEN "publishing" ELSE "acking"]
     /\ goal' = [goal EXCEPT ![m] = terminal[o]]
     /\ UNCHANGED <<lane, clock, broker, mode, lost, queue, called, reported,
                    faults>>

Start(m) ==
  /\ pc[m] = "queued" /\ queue # <<>> /\ Head(queue) = m
  /\ IF Late(OpOf(m)) \/ m \in lost
     THEN Caught(m) /\ queue' = Tail(queue)
     ELSE Goto(m, "handler") /\ UNCHANGED queue
  /\ UNCHANGED <<lane, clock, broker, called, reported, faults>>

(* assertActive, then the provider.                                        *)
Cross(m) ==
  /\ pc[m] = "handler" /\ ~Late(OpOf(m)) /\ m \notin lost
  /\ OpOf(m) \notin called
  /\ called' = called \cup {OpOf(m)}
  /\ UNCHANGED <<lane, clock, broker, process, reported, faults>>

(* The task of a handler that has ended was the entity's running one.      *)
Settled == queue' = Tail(queue)

(* A handler that records no outcome has succeeded, whether or not it had  *)
(* anything to send; "expired" is only recorded of what was never invoked. *)
Return(m, t) ==
  /\ pc[m] = "handler"
  /\ t \in Outcome
  /\ t = "expired" => OpOf(m) \notin called
  /\ Close(m, "held", t)
  /\ Settled
  /\ UNCHANGED <<lane, clock, broker, called, reported, faults>>

(* A handler may also throw, before or after the provider was called.      *)
HandlerThrows(m) ==
  /\ pc[m] = "handler"
  /\ Fails \/ (Works /\ OpOf(m) \in Unreliable)
  /\ ThrowsAny(m)
  /\ Settled
  /\ UNCHANGED <<lane, clock, broker, called, reported>>

---------------------------------------------------------------------------
(* The progress timer renews the lease of a queued or running task.        *)
InTask(m) == pc[m] \in {"queued", "handler"}

Renew(m) ==
  /\ InTask(m) /\ m \notin lost /\ lease[OpOf(m)] < LeaseTicks
  /\ Lane!RenewActive(OpOf(m))
  /\ UNCHANGED <<clock, broker, process, called, reported, faults>>

RenewFails(m) ==
  /\ InTask(m) /\ m \notin lost /\ lease[OpOf(m)] < LeaseTicks
  /\ Fails \/ (Works /\ (~Lane!Open(OpOf(m)) \/ OpOf(m) \notin active))
  /\ lost' = lost \cup {m}
  /\ UNCHANGED <<lane, clock, broker, pc, mode, goal, queue, called, reported>>

---------------------------------------------------------------------------
(* markTerminal: recorded, found recorded, or refused.                     *)
AfterMark(m) == Goto(m, IF goal[m] = "succeeded" THEN "acking"
                        ELSE "publishing")

MarkTerminal(m) ==
  /\ pc[m] = "closing"
  /\ Lane!MarkTerminal(OpOf(m), goal[m])
  /\ (Works /\ AfterMark(m)) \/ (Fails /\ Throw(m))
  /\ UNCHANGED <<clock, broker, queue, called, reported>>

Agrees(o, t) == terminal[o] = t

AlreadyTerminal(m) ==
  /\ pc[m] = "closing" /\ Lane!Done(OpOf(m))
  /\ Agrees(OpOf(m), goal[m])
  /\ AfterMark(m)
  /\ UNCHANGED <<lane, clock, broker, queue, called, reported, faults>>

MarkFails(m) ==
  /\ pc[m] = "closing"
  /\ \/ Fails
     \/ Works /\ Lane!Done(OpOf(m)) /\ ~Agrees(OpOf(m), goal[m])
     \/ Works /\ Lane!Open(OpOf(m)) /\ ~Lane!MayClose(OpOf(m), goal[m])
  /\ Throw(m)
  /\ UNCHANGED <<lane, clock, broker, queue, called, reported>>

PublishFailure(m) ==
  /\ pc[m] = "publishing"
  /\ reported' = [reported EXCEPT ![OpOf(m)] = @ \cup {goal[m]}]
  /\ (Works /\ Goto(m, "acking")) \/ (Fails /\ Throw(m))
  /\ UNCHANGED <<lane, clock, broker, queue, called>>

PublishFails(m) ==
  /\ Fails
  /\ pc[m] = "publishing"
  /\ Throw(m)
  /\ UNCHANGED <<lane, clock, broker, queue, called, reported>>

(* ackAck, of a copy that is closed, a duplicate, or parked.  The TTL that *)
(* clearTerminalTail refreshes is left out.                                *)
Ack(m) ==
  /\ pc[m] \in {"acking", "parked"}
  /\ stream' = stream \ {m}
  /\ (Works /\ Leave(m, "idle")) \/ (Fails /\ Throw(m))
  /\ UNCHANGED <<lane, clock, born, parked, queue, called, reported>>

AckFails(m) ==
  /\ Fails
  /\ pc[m] \in {"acking", "parked"}
  /\ Throw(m)
  /\ UNCHANGED <<lane, clock, broker, queue, called, reported>>

---------------------------------------------------------------------------
(* A technical error: give the lane up, count the attempt, and have the    *)
(* copy redelivered; or give the command up.                               *)
Release(m) ==
  /\ pc[m] = "release"
  /\ \/ /\ IF Lane!Open(OpOf(m)) /\ OpOf(m) \in active
           THEN Lane!ReleaseActive(OpOf(m)) ELSE UNCHANGED lane
        /\ Works /\ Goto(m, "retry")
     \/ Fails /\ Nak(m) /\ UNCHANGED lane
  /\ UNCHANGED <<clock, broker, queue, called, reported>>

Retry(m) ==
  /\ pc[m] = "retry"
  /\ \/ Lane!RecordTechnicalRetry(OpOf(m)) /\ (Works \/ Fails) /\ Nak(m)
     \/ /\ Lane!Open(OpOf(m)) /\ retries[OpOf(m)] = MaxRetries
        /\ Works /\ Close(m, "catch", "failed")
        /\ UNCHANGED lane
     \/ /\ Fails \/ (Works /\ ~Lane!Open(OpOf(m)))
        /\ Nak(m) /\ UNCHANGED lane
  /\ UNCHANGED <<clock, broker, queue, called, reported>>

(* The process dies and another takes its place.                           *)
Crash ==
  /\ Fails /\ \E m \in Msg : pc[m] \notin {"idle", "unheard"}
  /\ pc' = [m \in Msg |-> IF pc[m] = "idle" THEN "idle" ELSE "unheard"]
  /\ mode' = [m \in Msg |-> "try"]
  /\ goal' = [m \in Msg |-> "none"]
  /\ lost' = {} /\ queue' = <<>>
  /\ UNCHANGED <<lane, clock, broker, called, reported>>

---------------------------------------------------------------------------
(* The relay, on a ready message; deduplication makes a repeated           *)
(* publication harmless.                                                   *)
RelayPublish(m) ==
  /\ m \in parked /\ ~Late(OpOf(m)) /\ NextCopy(m) \notin born
  /\ born' = born \cup {NextCopy(m)}
  /\ stream' = stream \cup {NextCopy(m)}
  /\ UNCHANGED <<lane, clock, parked, process, called, reported, faults>>

RelayAck(m) ==
  /\ m \in parked /\ NextCopy(m) \in born
  /\ parked' = parked \ {m}
  /\ UNCHANGED <<lane, clock, born, stream, process, called, reported, faults>>

(* The relay looks at a message whose deadline has passed since it was     *)
(* delivered to it.                                                        *)
RelayExpires(m) ==
  /\ m \in parked /\ Late(OpOf(m))
  /\ reported' = [reported EXCEPT ![OpOf(m)] = @ \cup {"relay"}]
  /\ parked' = parked \ {m}
  /\ UNCHANGED <<lane, clock, born, stream, process, called, faults>>

---------------------------------------------------------------------------
Finalizes(o) == Lane!FinalizeEverActiveAmbiguous(o)

(* The deadline reconciler closes what is open and reports what failed.    *)
Reconcile(o) ==
  /\ o \in known /\ Late(o)
  /\ \/ Lane!ExpireNeverActive(o) \/ Finalizes(o)
     \/ Lane!Done(o) /\ UNCHANGED lane
  /\ reported' =
       [reported EXCEPT ![o] = @ \cup ({terminal'[o]} \ {"succeeded"})]
  /\ UNCHANGED <<clock, broker, process, called, faults>>

(* The timers of a stalled process may be late, so a lease can lapse under *)
(* a task that has seen no error.                                          *)
Tick ==
  /\ \E o \in known : ~Late(o)
  /\ Lane!Tick
  /\ clock' = [o \in Op |-> IF o \in known /\ ~Late(o) THEN clock[o] + 1
                            ELSE clock[o]]
  /\ UNCHANGED <<broker, process, called, reported, faults>>

Init ==
  /\ Lane!Init
  /\ clock = [o \in Op |-> 0]
  /\ born = {} /\ stream = {} /\ parked = {}
  /\ pc = [m \in Msg |-> "idle"] /\ mode = [m \in Msg |-> "try"]
  /\ goal = [m \in Msg |-> "none"]
  /\ lost = {} /\ queue = <<>>
  /\ called = {} /\ reported = [o \in Op |-> {}]
  /\ faults = 0

Ingress(m) ==
  \/ Deliver(m) \/ Disturb(m) \/ Refuse(m)
  \/ PredecessorReady(m) \/ Park(m) \/ ParkFails(m)
  \/ ParkExpires(m)
  \/ MarkActive(m) \/ Duplicate(m) \/ Start(m) \/ Cross(m)
  \/ \E t \in Lane!TerminalState : Return(m, t)
  \/ HandlerThrows(m) \/ Renew(m) \/ RenewFails(m)
  \/ MarkTerminal(m) \/ AlreadyTerminal(m) \/ MarkFails(m)
  \/ PublishFailure(m) \/ PublishFails(m) \/ Ack(m) \/ AckFails(m)
  \/ Release(m) \/ Retry(m)

Relay(m) == RelayPublish(m) \/ RelayAck(m) \/ RelayExpires(m)

Next ==
  \/ Tick \/ Crash
  \/ \E o \in Op : Allocate(o) \/ Publish(o) \/ Reconcile(o)
  \/ \E m \in Msg : Ingress(m) \/ Relay(m)

Spec == Init /\ [][Next]_vars

(* The event loops go on, the broker delivers and relays, an admission     *)
(* that has allocated publishes, the reconciler takes what is due.         *)
(* Nothing is assumed of time.                                             *)
FairSpec ==
  /\ Spec
  /\ \A m \in Msg : WF_vars(Ingress(m)) /\ WF_vars(Relay(m))
  /\ \A o \in Op : WF_vars(Publish(o)) /\ WF_vars(Reconcile(o))

---------------------------------------------------------------------------
(* Custody: before its deadline a published command that has no outcome    *)
(* yet has a copy in the stream or with the scheduler, whatever call fails *)
(* between parking, relaying, recording and acknowledging.                 *)
CustodyKept ==
  \A o \in Op :
    <<o, 1>> \in born /\ ~Late(o) /\ Lane!Open(o)
      => \E m \in stream \cup parked : OpOf(m) = o

(* A failure that the lane has recorded and that nobody has published yet  *)
(* still has a copy that will publish it, until the deadline hands it to   *)
(* the reconciler.                                                         *)
FailureNotSwallowed ==
  \A o \in Op :
    /\ <<o, 1>> \in born /\ ~Late(o)
    /\ Lane!Done(o) /\ terminal[o] # "succeeded"
    => terminal[o] \in reported[o] \/ \E m \in stream \cup parked : OpOf(m) = o

(* One verdict: what the ingress and the reconciler publish is what the    *)
(* lane has recorded, whichever delivery, copy or reconciler got there     *)
(* first.                                                                  *)
OneVerdictTold ==
  \A o \in Op : reported[o] \ {"relay"} \subseteq {terminal[o]}

(* Provider calls of an entity are made in the order of admission.         *)
CallsInOrder ==
  [][\A o \in called' \ called, p \in called : seq[p] < seq[o]]_vars

(* A command is carried out, or has failed, without help from the clock:   *)
(* parking, waiting, relaying and retrying do not leave two commands of a  *)
(* chat waiting for each other.                                            *)
CarriedOut ==
  \A o \in Op : <<o, 1>> \in born ~> Lane!Done(o) \/ Late(o)

(* "An operation that never acquired the lane becomes expired; one that    *)
(* crossed the boundary but has no proven terminal becomes ambiguous."     *)
ExpiredNeverCalled ==
  \A o \in called : "expired" \notin reported[o]
=============================================================================
