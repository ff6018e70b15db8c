-------------------------- MODULE CommandDeadlines --------------------------
(***************************************************************************)
(* Who closes a command that nobody closed.  The commands of one entity    *)
(* live in a lane (CommandLane); admission also writes a record of each    *)
(* into the deadline registry.  When a record is due, the deadline         *)
(* reconciler asks the lane about the operation, publishes a failure       *)
(* unless it succeeded, and only then removes the record.  The queued      *)
(* reconciler asks the lane too, for messages still shown as queued.       *)
(*                                                                         *)
(* A Reconciler is a process; one leads, but a former leader may still be  *)
(* working.  Its work on one record is a short protocol with a Redis or    *)
(* NATS call in each step; an error in any of them reschedules the record. *)
(* With Outage = FALSE nothing fails and the reconciler keeps up: time     *)
(* does not pass while a record is due.  Workers may be dead either way.   *)
(***************************************************************************)
EXTENDS Naturals

CONSTANTS
  Op, None, LeaseTicks, DeadlineTicks, TtlTicks, MaxRetries,   \* the lane's
  Reconciler,
  FinalTicks,   \* operationalCapMs - finalizationMarginMs
  CapTicks,     \* operationalCapMs
  Outage

ASSUME DeadlinesAssumption ==
  /\ None \notin Op \cup Reconciler
  /\ LeaseTicks \in Nat \ {0} /\ DeadlineTicks \in Nat \ {0}
  /\ TtlTicks \in Nat \ {0} /\ MaxRetries \in Nat
  /\ FinalTicks \in Nat /\ CapTicks \in Nat
  /\ DeadlineTicks <= FinalTicks /\ FinalTicks < CapTicks
  /\ Outage \in BOOLEAN

VARIABLES
  known, live, seq, pred, succ, tail, sequence, satisfied, everActive, active,
  lease, terminal, coded, age, retries, ttl, cleared,
  clock,       \* ticks since issued_at
  registered,  \* operations whose record was ever written
  stored,      \* operations whose record is there
  wait,        \* ticks until the record's score in the due index
  owner,       \* the record's owner field
  pc, code,    \* per reconciler and operation
  published,   \* the codes published for the operation
  expired      \* messages that the queued reconciler marked as expired

Lane == INSTANCE CommandLane

lane == <<known, live, seq, pred, succ, tail, sequence, satisfied, everActive,
          active, lease, terminal, coded, age, retries, ttl, cleared>>
record == <<registered, stored, wait, owner>>
work == <<pc, code>>
told == <<published, expired>>
vars == <<lane, clock, record, work, told>>

Code == {"expired", "failed", "ambiguous"}

---------------------------------------------------------------------------
(* Faulty variants of definitions below.  No action uses them: each one    *)
(* replaces the definition it is named after when the runs are checked for *)
(* being able to fail.                                                     *)
Verdict_Missing(o) == IF o \in live THEN terminal[o] ELSE "expired"

Register_FromNow(o) ==
  /\ o \in known \ stored /\ clock[o] < IF Outage THEN CapTicks ELSE 1
  /\ registered' = registered \cup {o} /\ stored' = stored \cup {o}
  /\ wait' = [wait EXCEPT ![o] = clock[o] + DeadlineTicks]
  /\ UNCHANGED <<lane, clock, owner, work, told>>

LookStarted_Forever(r, o) ==
  /\ pc[r][o] \in {"look", "look_last"}
  /\ Lane!Open(o) /\ o \in everActive
  /\ pc' = [pc EXCEPT ![r][o] = "reschedule"]
  /\ UNCHANGED <<lane, clock, record, code, told>>

LookPending_Reports(r, o) ==
  /\ pc[r][o] \in {"look", "look_last"}
  /\ Lane!Open(o) /\ o \notin everActive
  /\ ~Lane!DependenciesTerminal(o)
  /\ pc' = [pc EXCEPT ![r][o] = "publish"]
  /\ code' = [code EXCEPT ![r][o] = "expired"]
  /\ UNCHANGED <<lane, clock, record, told>>

Throw_Completes(r, o) ==
  /\ Outage /\ pc[r][o] # "idle"
  /\ pc' = [pc EXCEPT ![r][o] = "complete"]
  /\ code' = [code EXCEPT ![r][o] = "none"]
  /\ UNCHANGED <<lane, clock, record, told>>

---------------------------------------------------------------------------
(* Admission allocates the lane position first and registers next.  It may *)
(* die in between.  It may be repeated within the retry window, which ends *)
(* before the deadline; a record that is there is left as it is.           *)
Allocate(o) ==
  /\ Lane!Allocate(o)
  /\ UNCHANGED <<clock, record, work, told>>

Register(o) ==
  /\ o \in known \ stored /\ clock[o] < IF Outage THEN CapTicks ELSE 1
  /\ registered' = registered \cup {o} /\ stored' = stored \cup {o}
  /\ wait' = [wait EXCEPT ![o] = IF clock[o] < DeadlineTicks
                                 THEN DeadlineTicks - clock[o] ELSE 0]
  /\ UNCHANGED <<lane, clock, owner, work, told>>

(* A command is published, and delivered, only once it is registered.      *)
Deliver(o) ==
  /\ o \in registered
  /\ \/ Lane!PassUnchecked(o) \/ Lane!PassTerminal(o) \/ Lane!PassExpiring(o)
     \/ Lane!MarkActive(o) \/ Lane!RenewActive(o) \/ Lane!ReleaseActive(o)
     \/ Lane!RecordTechnicalRetry(o) \/ Lane!ClearTerminalTail(o)
     \/ \E t \in Lane!TerminalState : Lane!MarkTerminal(o, t)
  /\ UNCHANGED <<clock, record, work, told>>

---------------------------------------------------------------------------
(* The deadline reconciler.                                                *)
Goto(r, o, place) == pc' = [pc EXCEPT ![r][o] = place]

(* claimDue: a due record is leased, whoever else still works on it.       *)
Claim(r, o) ==
  /\ pc[r][o] = "idle"
  /\ o \in stored /\ wait[o] = 0
  /\ owner' = [owner EXCEPT ![o] = r]
  /\ wait' = [wait EXCEPT ![o] = 1]
  /\ Goto(r, o, IF clock[o] >= FinalTicks THEN "look_last" ELSE "look")
  /\ UNCHANGED <<lane, clock, registered, stored, code, told>>

(* What is said of an operation that is closed or no longer in the lane.   *)
Verdict(o) == IF o \in live THEN terminal[o] ELSE "ambiguous"

Conclude(r, o, verdict) ==
  /\ Goto(r, o, IF verdict = "succeeded" THEN "complete" ELSE "publish")
  /\ code' = [code EXCEPT ![r][o] =
                IF verdict = "succeeded" THEN "none" ELSE verdict]

(* expireNeverActive and what its reply calls for.                         *)
LookExpire(r, o) ==
  /\ pc[r][o] \in {"look", "look_last"}
  /\ Lane!ExpireNeverActive(o)
  /\ Conclude(r, o, "expired")
  /\ UNCHANGED <<clock, record, told>>

LookClosed(r, o) ==
  /\ pc[r][o] \in {"look", "look_last", "finalize"}
  /\ ~Lane!Open(o)
  /\ Conclude(r, o, Verdict(o))
  /\ UNCHANGED <<lane, clock, record, told>>

LookPending(r, o) ==
  /\ pc[r][o] \in {"look", "look_last"}
  /\ Lane!Open(o) /\ o \notin everActive
  /\ ~Lane!DependenciesTerminal(o)
  /\ Goto(r, o, "reschedule")
  /\ UNCHANGED <<lane, clock, record, code, told>>

LookStarted(r, o) ==
  /\ pc[r][o] \in {"look", "look_last"}
  /\ Lane!Open(o) /\ o \in everActive
  /\ Goto(r, o, IF pc[r][o] = "look_last" THEN "finalize" ELSE "reschedule")
  /\ UNCHANGED <<lane, clock, record, code, told>>

Finalize(r, o) ==
  /\ pc[r][o] = "finalize"
  /\ Lane!FinalizeEverActiveAmbiguous(o)
  /\ Conclude(r, o, "ambiguous")
  /\ UNCHANGED <<clock, record, told>>

Publish(r, o) ==
  /\ pc[r][o] = "publish"
  /\ published' = [published EXCEPT ![o] = @ \cup {code[r][o]}]
  /\ code' = [code EXCEPT ![r][o] = "none"]
  /\ \/ Goto(r, o, "complete")
     \/ Outage /\ Goto(r, o, "reschedule")      \* the PubAck is lost
  /\ UNCHANGED <<lane, clock, record, expired>>

Owned(r, o) == o \in stored /\ owner[o] = r

Complete(r, o) ==
  /\ pc[r][o] = "complete"
  /\ IF Owned(r, o)
     THEN stored' = stored \ {o} /\ owner' = [owner EXCEPT ![o] = None]
     ELSE UNCHANGED <<stored, owner>>
  /\ Goto(r, o, "idle")
  /\ UNCHANGED <<lane, clock, registered, wait, code, told>>

Reschedule(r, o) ==
  /\ pc[r][o] = "reschedule"
  /\ IF Owned(r, o)
     THEN /\ owner' = [owner EXCEPT ![o] = None]
          /\ wait' = [wait EXCEPT ![o] = 1]
     ELSE UNCHANGED <<owner, wait>>
  /\ Goto(r, o, "idle")
  /\ UNCHANGED <<lane, clock, registered, stored, code, told>>

(* A call fails: the record is rescheduled, or left to its lease.          *)
Throw(r, o) ==
  /\ Outage /\ pc[r][o] # "idle"
  /\ Goto(r, o, IF pc[r][o] = "reschedule" THEN "idle" ELSE "reschedule")
  /\ code' = [code EXCEPT ![r][o] = "none"]
  /\ UNCHANGED <<lane, clock, record, told>>

(* A new process has another owner identity than the one that died.        *)
Crash(r) ==
  /\ Outage
  /\ pc' = [pc EXCEPT ![r] = [o \in Op |-> "idle"]]
  /\ code' = [code EXCEPT ![r] = [o \in Op |-> "none"]]
  /\ owner' = [o \in Op |-> IF owner[o] = r THEN None ELSE owner[o]]
  /\ UNCHANGED <<lane, clock, registered, stored, wait, told>>

(* A script whose reply was lost runs late.                                *)
LateFinalize(o) ==
  /\ Outage /\ clock[o] >= FinalTicks
  /\ Lane!FinalizeEverActiveAmbiguous(o)
  /\ UNCHANGED <<clock, record, work, told>>

---------------------------------------------------------------------------
(* The queued reconciler shows a message that is still queued as expired,  *)
(* unless the lane answers ever_active or predecessor_pending.  A message  *)
(* whose command got another outcome is taken to be queued no more: the    *)
(* sender publishes its status before it reports to the lane.              *)
QueuedExpire(o) ==
  /\ o \in known /\ clock[o] >= DeadlineTicks
  /\ \/ Lane!ExpireNeverActive(o)
     \/ /\ ~Lane!Open(o) /\ terminal[o] \in {"none", "expired"}
        /\ UNCHANGED lane
  /\ expired' = expired \cup {o}
  /\ UNCHANGED <<clock, record, work, published>>

---------------------------------------------------------------------------
(* Time passes for the lane, which may be gone, and for the registry,      *)
(* which drops a record at the cap.                                        *)
KeepingUp ==
  \A o \in Op : /\ o \in stored => wait[o] > 0
                /\ \A r \in Reconciler : pc[r][o] = "idle"

Pass ==
  /\ Outage \/ KeepingUp
  /\ \E o \in known : clock[o] < CapTicks
  /\ Lane!Tick \/ Lane!KeyExpires \/ (ttl = 0 /\ UNCHANGED lane)
  /\ clock' = [o \in Op |-> IF o \in known /\ clock[o] < CapTicks
                            THEN clock[o] + 1 ELSE clock[o]]
  /\ stored' = {o \in stored : clock'[o] < CapTicks}
  /\ owner' = [o \in Op |-> IF o \in stored' THEN owner[o] ELSE None]
  /\ wait' = [o \in Op |-> Lane!Down(wait[o])]
  /\ UNCHANGED <<registered, work, told>>

Init ==
  /\ Lane!Init
  /\ clock = [o \in Op |-> 0]
  /\ registered = {} /\ stored = {}
  /\ wait = [o \in Op |-> 0] /\ owner = [o \in Op |-> None]
  /\ pc = [r \in Reconciler |-> [o \in Op |-> "idle"]]
  /\ code = [r \in Reconciler |-> [o \in Op |-> "none"]]
  /\ published = [o \in Op |-> {}] /\ expired = {}

Reconcile(r, o) ==
  \/ Claim(r, o) \/ LookExpire(r, o) \/ LookClosed(r, o) \/ LookPending(r, o)
  \/ LookStarted(r, o) \/ Finalize(r, o) \/ Publish(r, o) \/ Complete(r, o)
  \/ Reschedule(r, o) \/ Throw(r, o)

Next ==
  \/ Pass
  \/ \E o \in Op :
       \/ Allocate(o) \/ Register(o) \/ Deliver(o)
       \/ LateFinalize(o) \/ QueuedExpire(o)
       \/ \E r \in Reconciler : Reconcile(r, o)
  \/ \E r \in Reconciler : Crash(r)

Spec == Init /\ [][Next]_vars

---------------------------------------------------------------------------
(* The types of the registry's and the reconcilers' variables.             *)
TypeOK ==
  /\ Lane!TypeOK
  /\ clock \in [Op -> 0 .. CapTicks]
  /\ registered \subseteq known /\ stored \subseteq registered
  /\ wait \in [Op -> 0 .. DeadlineTicks]
  /\ owner \in [Op -> Reconciler \cup {None}]
  /\ pc \in [Reconciler -> [Op ->
       {"idle", "look", "look_last", "finalize", "publish", "complete",
        "reschedule"}]]
  /\ code \in [Reconciler -> [Op -> Code \cup {"none"}]]
  /\ published \in [Op -> SUBSET Code] /\ expired \subseteq Op

(* What is published is what the lane says: a success, an expiry or a      *)
(* failure that the lane still holds is never reported as anything else,   *)
(* whatever fails and whoever else works on the record.  Only an operation *)
(* that the lane has dropped, whatever became of it, is called ambiguous.  *)
LaneSays(o, c) == c = terminal[o] \/ (c = "ambiguous" /\ o \notin live)

ReportsAgree == \A o \in Op : \A c \in published[o] : LaneSays(o, c)

(* A command that has been reported as failed, or shown as expired, is not *)
(* started afterwards.                                                     *)
NoStartAfterReport ==
  [][\A o \in everActive' \ everActive :
       published[o] = {} /\ o \notin expired]_vars

(* A record is removed only when its failure is published or its success   *)
(* known, whoever else works on it; or when it has reached the cap.        *)
RemovedWithEvidence ==
  [][\A o \in stored \ stored' :
       \/ published[o] # {} \/ terminal[o] = "succeeded"
       \/ clock'[o] = CapTicks]_vars

(* With a reconciler that keeps up and an admission that registers what it *)
(* allocates, every command is resolved before its record reaches the cap: *)
(* its failure has been reported or it has succeeded, even when its worker *)
(* is dead and when it waits behind commands whose workers are.            *)
ResolvedByCap ==
  known \subseteq registered =>
    \A o \in registered :
      clock[o] = CapTicks => published[o] # {} \/ terminal[o] = "succeeded"
=============================================================================
