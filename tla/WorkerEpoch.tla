---------------------------- MODULE WorkerEpoch ----------------------------
(***************************************************************************)
(* The epoch record of one worker in the NATS key-value bucket, and those  *)
(* who write it: runtimes (worker processes) that activate themselves and  *)
(* then hold a guard fed by a watch, and the lifecycle that drains and     *)
(* closes the epoch when the worker is deleted for good.                   *)
(*                                                                         *)
(* Every access to the bucket is one action: a read, or a compare-and-set  *)
(* on the revision that was read.  write() turns every error into a        *)
(* conflict, so a write whose reply is lost (WriteLost) may have happened. *)
(* The logical epoch is named by the runtime that created it, a writer     *)
(* epoch by its runtime.  Account and record validation is left out, and   *)
(* so are records from before the split of the two epochs.                 *)
(***************************************************************************)
EXTENDS Naturals

CONSTANTS
  Runtime,      \* worker processes
  Gen,          \* the generation each was started with
  None,
  MaxAttempts,  \* ACTIVATE_RUNTIME_CAS_ATTEMPTS
  MaxRevision   \* bound on the writes explored

ASSUME EpochAssumption ==
  /\ None \notin Runtime
  /\ Gen \in [Runtime -> Nat \ {0}]
  /\ MaxAttempts \in Nat \ {0} /\ MaxRevision \in Nat

VARIABLES
  rec,        \* the record; revision 0 when there is none
  pc,         \* of a runtime: off, read, activated, asserted, on, failed;
              \* blind when its watch has ended without a word
  snap,       \* the record it read
  attempt,
  guard,      \* none, active, revoked
  delivered,  \* revision its watch has delivered
  lifecycle,  \* of the deletion: idle, drain, begun, close, finalized
  lcSnap,     \* the record the lifecycle read
  confirmed   \* the state it has been told the record is in

runtimes == <<pc, snap, attempt, guard, delivered>>
deletion == <<lifecycle, lcSnap, confirmed>>
vars == <<rec, runtimes, deletion>>

Absent == [revision |-> 0, epoch |-> None, writer |-> None, gen |-> 0,
           state |-> "active"]

Exists(e) == e.revision > 0
IsActive(e) == Exists(e) /\ e.state = "active"
Matches(r) == IsActive(rec) /\ rec.writer = r /\ rec.gen = Gen[r]

---------------------------------------------------------------------------
(* Faulty variants of definitions below.  No action uses them: each one    *)
(* replaces the definition it is named after when the runs are checked for *)
(* being able to fail.                                                     *)
Unchanged_Blind(s) == TRUE

FirstDelivery_UpdatesOnly == rec.revision

Judge_FirstOnly(r) ==
  IF delivered[r] = 0 /\ ~Matches(r) THEN "revoked" ELSE guard[r]

---------------------------------------------------------------------------
(* The compare-and-set succeeds when nothing was written since s was read. *)
Unchanged(s) == rec.revision = s.revision

Put(epoch, writer, gen, state) ==
  rec' = [revision |-> rec.revision + 1, epoch |-> epoch,
          writer |-> writer, gen |-> gen, state |-> state]

(* A snapshot is not kept once it has been used.                           *)
Forget(r) == snap' = [snap EXCEPT ![r] = Absent]

(* activateRuntime, one round of its loop: get ...                         *)
ReadRecord(r) ==
  /\ pc[r] = "off"
  /\ pc' = [pc EXCEPT ![r] = "read"]
  /\ snap' = [snap EXCEPT ![r] = rec]
  /\ UNCHANGED <<rec, attempt, guard, delivered, deletion>>

MayActivate(r, s) ==
  \/ ~Exists(s)
  \/ /\ IsActive(s)
     /\ Gen[r] > s.gen \/ (Gen[r] = s.gen /\ s.writer = r)

AlreadyMine(r) ==
  Exists(snap[r]) /\ snap[r].writer = r /\ snap[r].gen = Gen[r]

(* ... decide and write: create the record, or replace the runtime in it   *)
(* and keep the logical epoch.                                             *)
Propose(r) ==
  Put(IF Exists(snap[r]) THEN snap[r].epoch ELSE r, r, Gen[r], snap[r].state)

Refuse(r) ==
  /\ pc[r] = "read" /\ ~MayActivate(r, snap[r])
  /\ pc' = [pc EXCEPT ![r] = "failed"]
  /\ Forget(r)
  /\ UNCHANGED <<rec, attempt, guard, delivered, deletion>>

Reuse(r) ==
  /\ pc[r] = "read" /\ MayActivate(r, snap[r]) /\ AlreadyMine(r)
  /\ pc' = [pc EXCEPT ![r] = "activated"]
  /\ Forget(r)
  /\ UNCHANGED <<rec, attempt, guard, delivered, deletion>>

Writing(r) == pc[r] = "read" /\ MayActivate(r, snap[r]) /\ ~AlreadyMine(r)

Write(r) ==
  /\ Writing(r)
  /\ Unchanged(snap[r]) /\ rec.revision < MaxRevision
  /\ Propose(r)
  /\ pc' = [pc EXCEPT ![r] = "activated"]
  /\ Forget(r)
  /\ UNCHANGED <<attempt, guard, delivered, deletion>>

MayRetry(n) == n + 1 < MaxAttempts

Conflict(r) ==
  /\ Writing(r)
  /\ attempt' = [attempt EXCEPT ![r] = @ + 1]
  /\ pc' = [pc EXCEPT ![r] =
       IF MayRetry(attempt[r]) THEN "off" ELSE "failed"]
  /\ Forget(r)

WriteConflicts(r) ==
  /\ Conflict(r)
  /\ ~Unchanged(snap[r])
  /\ UNCHANGED <<rec, guard, delivered, deletion>>

WriteLost(r) ==
  /\ Conflict(r)
  /\ Unchanged(snap[r]) /\ rec.revision < MaxRevision
  /\ Propose(r)
  /\ UNCHANGED <<guard, delivered, deletion>>

---------------------------------------------------------------------------
(* watchActive: assertRuntimeActive, then the watch, which begins with the *)
(* value the key has and then reports every change.                        *)
AssertRuntimeActive(r) ==
  /\ pc[r] = "activated"
  /\ pc' = [pc EXCEPT ![r] = IF Matches(r) THEN "asserted" ELSE "failed"]
  /\ UNCHANGED <<rec, snap, attempt, guard, delivered, deletion>>

FirstDelivery == 0

OpenWatch(r) ==
  /\ pc[r] = "asserted"
  /\ pc' = [pc EXCEPT ![r] = "on"]
  /\ guard' = [guard EXCEPT ![r] = "active"]
  /\ delivered' = [delivered EXCEPT ![r] = FirstDelivery]
  /\ UNCHANGED <<rec, snap, attempt, deletion>>

(* What an entry does to the guard; a rejection is never taken back.       *)
Judge(r) == IF Matches(r) THEN guard[r] ELSE "revoked"

(* Only the latest record is judged: what the watch reports on the way to  *)
(* it can only have matched if this one does, or come to be replaced since *)
(* (SkippedDeliveries in the proofs).                                      *)
Deliver(r) ==
  /\ pc[r] = "on" /\ delivered[r] < rec.revision
  /\ delivered' = [delivered EXCEPT ![r] = rec.revision]
  /\ guard' = [guard EXCEPT ![r] = Judge(r)]
  /\ UNCHANGED <<rec, pc, snap, attempt, deletion>>

(* The watch ends with an error: unavailable.                              *)
WatchFails(r) ==
  /\ pc[r] = "on" /\ guard[r] = "active"
  /\ guard' = [guard EXCEPT ![r] = "revoked"]
  /\ UNCHANGED <<rec, pc, snap, attempt, delivered, deletion>>

(* The watch's messages come to an end without one: nobody notices, and    *)
(* the guard stays as it is.                                               *)
WatchEnds(r) ==
  /\ pc[r] = "on"
  /\ pc' = [pc EXCEPT ![r] = "blind"]
  /\ UNCHANGED <<rec, snap, attempt, guard, delivered, deletion>>

(* The process stops, is restarted under the same identity, or the ingress *)
(* restarts.                                                               *)
Restart(r) ==
  /\ pc[r] # "off"
  /\ pc' = [pc EXCEPT ![r] = "off"]
  /\ attempt' = [attempt EXCEPT ![r] = 0]
  /\ guard' = [guard EXCEPT ![r] = "none"]
  /\ delivered' = [delivered EXCEPT ![r] = 0]
  /\ Forget(r)
  /\ UNCHANGED <<rec, deletion>>

---------------------------------------------------------------------------
(* beginPermanentDeletion drains, finalizePermanentDeletion closes.  Each  *)
(* reads the record and goes on without a transition when there is none or *)
(* it is that far already; a conflict ends the call, and the lifecycle     *)
(* queue repeats it.                                                       *)
Target == [drain |-> "draining", close |-> "closed"]
Before == [drain |-> "idle", close |-> "begun"]
After == [drain |-> "begun", close |-> "finalized"]

Rank == [active |-> 0, draining |-> 1, closed |-> 2]

BeginTransition(phase) ==
  /\ lifecycle = Before[phase]
  /\ IF Exists(rec) /\ Rank[rec.state] < Rank[Target[phase]]
     THEN lifecycle' = phase /\ lcSnap' = rec
     ELSE lifecycle' = After[phase] /\ UNCHANGED lcSnap
  /\ confirmed' = IF Exists(rec) THEN rec.state ELSE confirmed
  /\ UNCHANGED <<rec, runtimes>>

Transition(phase) ==
  /\ lifecycle = phase
  /\ Unchanged(lcSnap) /\ rec.revision < MaxRevision
  /\ Put(lcSnap.epoch, lcSnap.writer, lcSnap.gen, Target[phase])
  /\ lcSnap' = Absent
  /\ lifecycle' = After[phase]
  /\ confirmed' = Target[phase]
  /\ UNCHANGED runtimes

TransitionConflicts(phase) ==
  /\ lifecycle = phase
  /\ ~Unchanged(lcSnap)
  /\ lifecycle' = Before[phase]
  /\ lcSnap' = Absent
  /\ UNCHANGED <<rec, confirmed, runtimes>>

(* The transition is written, but its reply is lost.                       *)
TransitionLost(phase) ==
  /\ lifecycle = phase
  /\ Unchanged(lcSnap) /\ rec.revision < MaxRevision
  /\ Put(lcSnap.epoch, lcSnap.writer, lcSnap.gen, Target[phase])
  /\ lcSnap' = Absent
  /\ lifecycle' = Before[phase]
  /\ UNCHANGED <<confirmed, runtimes>>

---------------------------------------------------------------------------
Init ==
  /\ rec = Absent
  /\ pc = [r \in Runtime |-> "off"]
  /\ snap = [r \in Runtime |-> Absent]
  /\ attempt = [r \in Runtime |-> 0]
  /\ guard = [r \in Runtime |-> "none"]
  /\ delivered = [r \in Runtime |-> 0]
  /\ lifecycle = "idle" /\ lcSnap = Absent /\ confirmed = "active"

RuntimeStep(r) ==
  \/ ReadRecord(r) \/ Refuse(r) \/ Reuse(r)
  \/ Write(r) \/ WriteConflicts(r) \/ WriteLost(r)
  \/ AssertRuntimeActive(r) \/ OpenWatch(r)
  \/ Deliver(r) \/ WatchFails(r) \/ WatchEnds(r) \/ Restart(r)

Next ==
  \/ \E r \in Runtime : RuntimeStep(r)
  \/ \E phase \in {"drain", "close"} :
       \/ BeginTransition(phase)
       \/ Transition(phase) \/ TransitionConflicts(phase)
       \/ TransitionLost(phase)

Spec == Init /\ [][Next]_vars

(* The bucket reports changes to its watchers while their watch is open.   *)
FairSpec == Spec /\ \A r \in Runtime : WF_vars(Deliver(r))

---------------------------------------------------------------------------
Records ==
  [revision : 0 .. MaxRevision, epoch : Runtime \cup {None},
   writer : Runtime \cup {None}, gen : Nat,
   state : {"active", "draining", "closed"}]

TypeOK ==
  /\ rec \in Records
  /\ pc \in [Runtime -> {"off", "read", "activated", "asserted", "on",
                         "blind", "failed"}]
  /\ snap \in [Runtime -> Records]
  /\ attempt \in [Runtime -> 0 .. MaxAttempts]
  /\ \A r \in Runtime : pc[r] \in {"off", "read"} => attempt[r] < MaxAttempts
  /\ guard \in [Runtime -> {"none", "active", "revoked"}]
  /\ delivered \in [Runtime -> 0 .. MaxRevision]
  /\ lifecycle \in {"idle", "drain", "begun", "close", "finalized"}
  /\ lcSnap \in Records /\ confirmed \in DOMAIN Rank

(* The record only moves forward, whoever races to write it: the logical   *)
(* epoch is created once, a drained or closed epoch is never reopened, the *)
(* generation never goes back, and one generation has one writer.          *)
RecordMovesForward ==
  [][Exists(rec) =>
       /\ rec'.epoch = rec.epoch
       /\ Rank[rec'.state] >= Rank[rec.state]
       /\ rec'.gen >= rec.gen
       /\ rec'.gen = rec.gen => rec'.writer = rec.writer]_vars

(* What the lifecycle was told stands: the record is at least as far as    *)
(* the state confirmed to it, in spite of runtimes that start meanwhile.   *)
TransitionHolds == Rank[rec.state] >= Rank[confirmed]

(* A guard that has seen everything is right: no change is missed between  *)
(* the read that precedes the watch and the watch itself.                  *)
GuardIsCurrent ==
  \A r \in Runtime :
    guard[r] = "active" /\ delivered[r] = rec.revision => Matches(r)

(* A runtime that was replaced, or whose epoch was drained, ends up        *)
(* revoked and never gets a working guard again, unless its watch has      *)
(* ended without an error.                                                 *)
ReplacedIsRevoked ==
  \A r \in Runtime :
    Exists(rec) /\ (rec.gen > Gen[r] \/ rec.state # "active")
      ~> [](guard[r] = "active" => pc[r] = "blind")
=============================================================================
