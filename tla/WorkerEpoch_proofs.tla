------------------------- MODULE WorkerEpoch_proofs -------------------------
(***************************************************************************)
(* Proofs about WorkerEpoch, for any number of runtimes and any            *)
(* generations.  That every writer goes by what it has read rests on one   *)
(* fact: a snapshot of the current revision is the current record          *)
(* (Snapshots).                                                            *)
(***************************************************************************)
EXTENDS WorkerEpoch, TLAPS

(* A snapshot of the current revision is the current record.               *)
Snapshots ==
  /\ rec.revision = 0 => rec = Absent
  /\ \A r \in Runtime :
       /\ snap[r].revision <= rec.revision
       /\ snap[r].revision = rec.revision => snap[r] = rec
  /\ lcSnap.revision <= rec.revision
  /\ lcSnap.revision = rec.revision => lcSnap = rec
  /\ \A phase \in {"drain", "close"} :
       lifecycle = phase
         => Exists(lcSnap) /\ Rank[lcSnap.state] < Rank[Target[phase]]

(* A guard belongs to an open watch, and a watch to a record that exists.  *)
Watches ==
  \A r \in Runtime :
    /\ guard[r] = "active" => pc[r] \in {"on", "blind"}
    /\ pc[r] \in {"asserted", "on", "blind"} => Exists(rec)
    /\ delivered[r] <= rec.revision

Inv == TypeOK /\ Snapshots /\ Watches /\ TransitionHolds /\ GuardIsCurrent

(* What a step may do to the record.                                       *)
Forward ==
  Exists(rec) =>
    /\ rec'.epoch = rec.epoch
    /\ Rank[rec'.state] >= Rank[rec.state]
    /\ rec'.gen >= rec.gen
    /\ rec'.gen = rec.gen => rec'.writer = rec.writer

(* A step leaves the record alone or writes its next revision.             *)
Written ==
  rec' = rec \/ (rec'.revision = rec.revision + 1 /\ Forward)

---------------------------------------------------------------------------
(* The numbers the states are ordered by.                                  *)
LEMMA Ranks ==
  /\ DOMAIN Rank = {"active", "draining", "closed"}
  /\ Rank["active"] = 0 /\ Rank["draining"] = 1 /\ Rank["closed"] = 2
BY DEF Rank

(* The variables keep their types.                                         *)
LEMMA TypeStep ==
  ASSUME TypeOK, [Next]_vars
  PROVE  TypeOK'
<1> USE EpochAssumption, Ranks
    DEF TypeOK, Records, Absent, Forget, Put, runtimes, deletion
<1>1. ASSUME NEW r \in Runtime,
             ReadRecord(r) \/ Refuse(r) \/ Reuse(r) \/ AssertRuntimeActive(r)
               \/ OpenWatch(r)
      PROVE TypeOK'
  BY <1>1 DEF ReadRecord, Refuse, Reuse, AssertRuntimeActive, OpenWatch,
              FirstDelivery
<1>2. ASSUME NEW r \in Runtime,
             Deliver(r) \/ WatchFails(r) \/ WatchEnds(r) \/ Restart(r)
      PROVE TypeOK'
  <2>1. CASE Deliver(r) \/ WatchFails(r)
    BY <2>1 DEF Deliver, Judge, WatchFails
  <2>2. CASE WatchEnds(r)
    BY <2>2 DEF WatchEnds
  <2>3. CASE Restart(r)
    BY <2>3 DEF Restart
  <2>4. QED
    BY <1>2, <2>1, <2>2, <2>3
<1>3. ASSUME NEW r \in Runtime,
             Write(r) \/ WriteConflicts(r) \/ WriteLost(r)
      PROVE TypeOK'
  <2>1. rec' \in Records
    BY <1>3 DEF Write, WriteConflicts, WriteLost, Propose
  <2>2. /\ snap' \in [Runtime -> Records]
        /\ guard' = guard /\ delivered' = delivered
        /\ lifecycle' = lifecycle /\ lcSnap' = lcSnap
        /\ confirmed' = confirmed
    BY <1>3 DEF Write, WriteConflicts, WriteLost, Conflict
  <2>3. attempt[r] < MaxAttempts
    BY <1>3 DEF Write, WriteConflicts, WriteLost, Conflict, Writing
  <2>4. /\ pc' \in [Runtime -> {"off", "read", "activated", "asserted", "on",
                                "blind", "failed"}]
        /\ attempt' \in [Runtime -> 0 .. MaxAttempts]
        /\ \A q \in Runtime :
             pc'[q] \in {"off", "read"} => attempt'[q] < MaxAttempts
    <3>1. CASE Write(r)
      BY <3>1 DEF Write
    <3>2. CASE Conflict(r)
      BY <2>3, <3>2 DEF Conflict, MayRetry
    <3>3. QED
      BY <1>3, <3>1, <3>2 DEF WriteConflicts, WriteLost
  <2>5. QED
    BY <2>1, <2>2, <2>4
<1>4. ASSUME NEW phase \in {"drain", "close"},
             BeginTransition(phase) \/ Transition(phase)
               \/ TransitionConflicts(phase) \/ TransitionLost(phase)
      PROVE TypeOK'
  BY <1>4 DEF BeginTransition, Transition, TransitionConflicts,
              TransitionLost, Target, Before, After
<1>5. CASE UNCHANGED vars
  BY <1>5 DEF vars
<1>6. QED
  BY <1>1, <1>2, <1>3, <1>4, <1>5 DEF Next, RuntimeStep

(* Every write is made on the record that was read, so it moves forward.   *)
LEMMA WriteStep ==
  ASSUME TypeOK, Snapshots, [Next]_vars
  PROVE  Written
<1> USE EpochAssumption, Ranks
    DEF TypeOK, Records, Written, Forward, Exists, runtimes, deletion
<1>1. ASSUME NEW r \in Runtime, Write(r) \/ WriteLost(r) PROVE Written
  <2>1. snap[r] = rec
    BY <1>1 DEF Write, WriteLost, Unchanged, Snapshots
  <2>2. Exists(rec) => Gen[r] > rec.gen
    <3>1. MayActivate(r, rec) /\ ~AlreadyMine(r)
      BY <1>1, <2>1 DEF Write, WriteLost, Writing, Conflict
    <3>2. QED
      BY <2>1, <3>1 DEF MayActivate, AlreadyMine
  <2>3. /\ rec'.revision = rec.revision + 1 /\ rec'.writer = r
        /\ rec'.gen = Gen[r] /\ rec'.state = rec.state
        /\ Exists(rec) => rec'.epoch = rec.epoch
    BY <1>1, <2>1 DEF Write, WriteLost, Put, Propose
  <2>4. QED
    BY <2>2, <2>3
<1>2. ASSUME NEW r \in Runtime, RuntimeStep(r), ~Write(r), ~WriteLost(r)
      PROVE Written
  BY <1>2 DEF RuntimeStep, ReadRecord, Refuse, Reuse, WriteConflicts,
              AssertRuntimeActive, OpenWatch, Deliver, WatchFails,
              WatchEnds, Restart
<1>3. ASSUME NEW phase \in {"drain", "close"},
             Transition(phase) \/ TransitionLost(phase)
      PROVE Written
  <2>1. lcSnap = rec /\ Rank[rec.state] < Rank[Target[phase]]
    BY <1>3 DEF Transition, TransitionLost, Unchanged, Snapshots
  <2>2. /\ rec'.revision = rec.revision + 1 /\ rec'.writer = rec.writer
        /\ rec'.gen = rec.gen /\ rec'.epoch = rec.epoch
        /\ rec'.state = Target[phase]
    BY <1>3, <2>1 DEF Transition, TransitionLost, Put
  <2>3. QED
    BY <2>1, <2>2 DEF Target
<1>4. ASSUME NEW phase \in {"drain", "close"},
             BeginTransition(phase) \/ TransitionConflicts(phase)
      PROVE Written
  BY <1>4 DEF BeginTransition, TransitionConflicts
<1>5. CASE UNCHANGED vars
  BY <1>5 DEF vars
<1>6. QED
  BY <1>1, <1>2, <1>3, <1>4, <1>5 DEF Next

(* A snapshot of the current revision stays the current record.            *)
LEMMA SnapshotStep ==
  ASSUME TypeOK, Snapshots, Written, [Next]_vars
  PROVE  Snapshots'
<1> USE EpochAssumption, Ranks
    DEF TypeOK, Records, Snapshots, Written, Exists, Absent, Forget,
        runtimes, deletion
<1>1. ASSUME NEW r \in Runtime, RuntimeStep(r) PROVE Snapshots'
  BY <1>1 DEF RuntimeStep, ReadRecord, Refuse, Reuse, Write, WriteConflicts,
              WriteLost, Conflict, AssertRuntimeActive, OpenWatch, Deliver,
              WatchFails, WatchEnds, Restart, Put
<1>2. ASSUME NEW phase \in {"drain", "close"},
             BeginTransition(phase) \/ Transition(phase)
               \/ TransitionConflicts(phase) \/ TransitionLost(phase)
      PROVE Snapshots'
  BY <1>2 DEF BeginTransition, Transition, TransitionConflicts,
              TransitionLost, Target, Before, After, Put
<1>3. CASE UNCHANGED vars
  BY <1>3 DEF vars
<1>4. QED
  BY <1>1, <1>2, <1>3 DEF Next

(* What the lifecycle was told keeps holding.                              *)
LEMMA HoldsStep ==
  ASSUME TypeOK, Snapshots, TransitionHolds, Written, [Next]_vars
  PROVE  TransitionHolds'
<1> USE EpochAssumption, Ranks
    DEF TypeOK, Records, TransitionHolds, runtimes, deletion
<1>1. Rank[rec'.state] >= Rank[rec.state] \/ rec.revision = 0
  BY DEF Written, Forward, Exists
<1>2. ASSUME confirmed' = confirmed PROVE TransitionHolds'
  <2>1. rec'.state \in DOMAIN Rank
    BY TypeStep
  <2>2. rec.revision = 0 => rec.state = "active"
    BY DEF Snapshots, Absent
  <2>3. QED
    BY <1>1, <1>2, <2>1, <2>2
<1>3. ASSUME NEW r \in Runtime, RuntimeStep(r) PROVE confirmed' = confirmed
  BY <1>3 DEF RuntimeStep, ReadRecord, Refuse, Reuse, Write, WriteConflicts,
              WriteLost, AssertRuntimeActive, OpenWatch, Deliver, WatchFails,
              WatchEnds, Restart
<1>4. ASSUME NEW phase \in {"drain", "close"},
             TransitionConflicts(phase) \/ TransitionLost(phase)
      PROVE confirmed' = confirmed
  BY <1>4 DEF TransitionConflicts, TransitionLost
<1>5. ASSUME NEW phase \in {"drain", "close"},
             BeginTransition(phase) \/ Transition(phase)
      PROVE TransitionHolds'
  BY <1>5 DEF BeginTransition, Transition, Put, Target
<1>6. CASE UNCHANGED vars
  BY <1>2, <1>6 DEF vars
<1>7. QED
  BY <1>2, <1>3, <1>4, <1>5, <1>6 DEF Next

(* No change of the record is missed by an open watch.                     *)
LEMMA WatchStep ==
  ASSUME TypeOK, Watches, GuardIsCurrent, Written, [Next]_vars
  PROVE  Watches' /\ GuardIsCurrent'
<1> USE EpochAssumption
    DEF TypeOK, Records, Watches, GuardIsCurrent, Exists, IsActive, Matches,
        Written, runtimes, deletion
<1>1. ASSUME NEW r \in Runtime,
             ReadRecord(r) \/ Refuse(r) \/ Reuse(r) \/ Write(r)
               \/ WriteConflicts(r) \/ WriteLost(r)
      PROVE Watches' /\ GuardIsCurrent'
  BY <1>1 DEF ReadRecord, Refuse, Reuse, Write, WriteConflicts, WriteLost,
              Writing, Conflict, Put
<1>2. ASSUME NEW r \in Runtime, AssertRuntimeActive(r) \/ OpenWatch(r)
      PROVE Watches' /\ GuardIsCurrent'
  BY <1>2 DEF AssertRuntimeActive, OpenWatch, FirstDelivery
<1>3. ASSUME NEW r \in Runtime, Deliver(r) \/ WatchFails(r) \/ WatchEnds(r)
             \/ Restart(r)
      PROVE Watches' /\ GuardIsCurrent'
  BY <1>3 DEF Deliver, Judge, WatchFails, WatchEnds, Restart
<1>4. ASSUME NEW phase \in {"drain", "close"},
             BeginTransition(phase) \/ Transition(phase)
               \/ TransitionConflicts(phase) \/ TransitionLost(phase)
      PROVE Watches' /\ GuardIsCurrent'
  BY <1>4 DEF BeginTransition, Transition, TransitionConflicts,
              TransitionLost, Put
<1>5. CASE UNCHANGED vars
  BY <1>5 DEF vars
<1>6. QED
  BY <1>1, <1>2, <1>3, <1>4, <1>5 DEF Next, RuntimeStep

(* A watch may skip what lies between two records it reports: while it is  *)
(* open, a record that has ceased to match its runtime is never followed   *)
(* by one that does.                                                       *)
LEMMA SkippedDeliveries ==
  ASSUME TypeOK, Snapshots, Watches, [Next]_vars,
         NEW r \in Runtime, pc[r] = "on", pc'[r] = "on", ~Matches(r)
  PROVE  ~Matches(r)'
<1>1. CASE rec' = rec
  BY <1>1 DEF Matches, IsActive, Exists
<1>2. ASSUME NEW q \in Runtime, Write(q) \/ WriteLost(q) PROVE ~Matches(r)'
  <2>1. q # r
    BY <1>2 DEF Write, WriteLost, Conflict, Writing
  <2>2. rec'.writer = q
    BY <1>2 DEF Write, WriteLost, Propose, Put
  <2>3. QED
    BY <2>1, <2>2 DEF Matches
<1>3. ASSUME NEW phase \in {"drain", "close"},
             Transition(phase) \/ TransitionLost(phase)
      PROVE ~Matches(r)'
  BY <1>3 DEF Transition, TransitionLost, Put, Target, Matches, IsActive
<1>4. QED
  BY <1>1, <1>2, <1>3
  DEF Next, RuntimeStep, ReadRecord, Refuse, Reuse, WriteConflicts,
      AssertRuntimeActive, OpenWatch, Deliver, WatchFails, WatchEnds, Restart,
      BeginTransition, TransitionConflicts, vars

---------------------------------------------------------------------------
(* The invariant holds at the start and in every step.                     *)
LEMMA Invariance == Spec => []Inv
<1>1. Init => Inv
  BY EpochAssumption, Ranks
  DEF Init, Inv, TypeOK, Records, Absent, Snapshots, Watches, Exists,
      TransitionHolds, GuardIsCurrent
<1>2. Inv /\ [Next]_vars => Inv'
  BY TypeStep, WriteStep, SnapshotStep, HoldsStep, WatchStep DEF Inv
<1>3. QED
  BY <1>1, <1>2, PTL DEF Spec

(* The record, the snapshots and the guards keep their types.              *)
THEOREM EpochTypeCorrect == Spec => []TypeOK
BY Invariance, PTL DEF Inv

(* What the lifecycle was told of the record stands, whoever writes later. *)
THEOREM EpochTransitionHolds == Spec => []TransitionHolds
BY Invariance, PTL DEF Inv

(* A guard that has seen the latest revision is right about it.            *)
THEOREM EpochGuardCurrent == Spec => []GuardIsCurrent
BY Invariance, PTL DEF Inv

(* The record only moves forward, whoever races to write it.               *)
THEOREM EpochForward == Spec => RecordMovesForward
<1>1. Inv /\ [Next]_vars => [Forward]_vars
  BY WriteStep, Ranks DEF Inv, Written, Forward, TypeOK, Records
<1>2. QED
  BY <1>1, Invariance, PTL DEF Spec, RecordMovesForward, Forward
=============================================================================
