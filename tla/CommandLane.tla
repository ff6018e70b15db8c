---------------------------- MODULE CommandLane ----------------------------
(***************************************************************************)
(* The execution lane of one entity (one chat) of one worker: the Redis    *)
(* hash that WorkerCommandLaneService drives with Lua scripts.  A lane     *)
(* gives every admitted operation a sequence number and a predecessor,     *)
(* lets an operation run only when everything before it is terminal, and   *)
(* keeps the terminal state as evidence until it is old enough to drop.    *)
(*                                                                         *)
(* A script runs atomically in Redis, so each script is one action.  The   *)
(* replies that change nothing (busy, waiting, missing, existing) are      *)
(* stuttering steps.  operation_id and its digest are one value, an Op;    *)
(* command_id is bound to the operation at its only allocation, because    *)
(* the admission tombstone keeps the pair for 24 hours.  What is stored    *)
(* about an operation under op:<digest>:<field> is the value at o of the   *)
(* variable <field>; a yes/no field is the set of operations that have it. *)
(* Deleting an operation's fields takes it out of live: no script reads a  *)
(* field of an operation that is not live.                                 *)
(*                                                                         *)
(* Time is counted in ticks.  A timer saturates at the largest value a     *)
(* script compares it with, so the clock itself is not part of the state.  *)
(***************************************************************************)
EXTENDS Naturals

CONSTANTS
  Op,             \* operations addressed to this entity
  None,           \* no operation
  LeaseTicks,     \* ACTIVE_LEASE_MS
  DeadlineTicks,  \* commandDeadlineMs = identityRetentionMs
  TtlTicks,       \* cursorTtlSeconds
  MaxRetries      \* bound on the counted technical retries

ASSUME LaneAssumption ==
  /\ None \notin Op
  /\ LeaseTicks \in Nat \ {0}
  /\ DeadlineTicks \in Nat \ {0}
  /\ TtlTicks \in Nat \ {0}
  /\ MaxRetries \in Nat

VARIABLES
  known,       \* operations that have been allocated, ever
  live,        \* operations whose fields are stored
  seq, pred, succ,
  tail,        \* last_operation_id
  sequence,    \* the HINCRBY counter
  satisfied,   \* predecessor_satisfied
  everActive,  \* ever_active
  active,      \* active_command_id is set
  lease,       \* ticks until active_until_ms
  terminal,
  coded,       \* terminal_failure_code is set
  age,         \* ticks since issued_at, or since terminal_at once terminal:
               \* the age of the entry in the ops index
  retries,     \* technical_retry_count
  ttl,         \* ticks until Redis drops the whole key
  cleared      \* operations for which a delivery saw its predecessor ready

chain == <<known, live, seq, pred, succ, tail, sequence>>
run == <<everActive, active, lease>>
verdict == <<terminal, coded, age>>
vars == <<chain, satisfied, run, verdict, retries, ttl, cleared>>

TerminalState == {"succeeded", "failed", "expired", "ambiguous"}

Open(o) == o \in live /\ terminal[o] = "none"
Done(o) == o \in live /\ terminal[o] # "none"
Due(o) == age[o] = DeadlineTicks

---------------------------------------------------------------------------
(* Faulty variants of definitions below.  No action uses them: each one    *)
(* replaces the definition it is named after when the runs are checked for *)
(* being able to fail.                                                     *)
DependenciesTerminal_OneLevel(o) == o \in live

Droppable_NotTerminal == {d \in live : d # tail /\ Due(d)}

Inherits_Nothing(o, dropped) == o \notin live

MayClose_Anything(o, t) == t \in TerminalState

ExpireNeverActive_Started(o) ==
  /\ Open(o) /\ Due(o)
  /\ terminal' = [terminal EXCEPT ![o] = "expired"]
  /\ ttl' = TtlTicks
  /\ UNCHANGED <<chain, satisfied, run, coded, age, retries, cleared>>

FinalizeEverActiveAmbiguous_Late(o) ==
  /\ o \in live /\ o \in everActive /\ Due(o)
  /\ terminal' = [terminal EXCEPT ![o] = "ambiguous"]
  /\ ttl' = TtlTicks
  /\ UNCHANGED <<chain, satisfied, run, coded, age, retries, cleared>>

PassExpiring_Unwalked(o) ==
  /\ o \in live \ satisfied /\ pred[o] # None
  /\ Open(pred[o]) /\ pred[o] \notin everActive /\ Due(pred[o])
  /\ terminal' = [terminal EXCEPT ![pred[o]] = "expired"]
  /\ age' = [age EXCEPT ![pred[o]] = 0]
  /\ satisfied' = satisfied \cup {o, pred[o]}
  /\ cleared' = cleared \cup {o}
  /\ ttl' = TtlTicks
  /\ UNCHANGED <<chain, run, coded, retries>>

Down_Unclamped(n) == n - 1

---------------------------------------------------------------------------
(* The walk of dependencies_terminal from o back along the predecessors:   *)
(* it succeeds when it reaches an operation that is satisfied or has no    *)
(* predecessor and every predecessor on the way is stored and terminal.    *)
(* The limit of 256 steps is left out.                                     *)
DependenciesTerminal(o) ==
  \E walk \in SUBSET live :
    /\ o \in walk
    /\ \A c \in walk : \/ c \in satisfied
                       \/ pred[c] = None
                       \/ pred[c] \in walk /\ Done(pred[c])

(* Entries the next allocation drops: old, terminal and nothing open       *)
(* before them.  The limit of 100 per allocation is left out.              *)
Droppable ==
  {d \in live : d # tail /\ Done(d) /\ Due(d) /\ lease[d] = 0
                /\ DependenciesTerminal(d)}

(* A dropped entry leaves its successor satisfied.                         *)
Inherits(o, dropped) == pred[o] \in dropped /\ succ[pred[o]] = o

Allocate(o) ==
  /\ o \notin known
  /\ known' = known \cup {o}
  /\ live' = (live \ Droppable) \cup {o}
  /\ seq' = [seq EXCEPT ![o] = sequence + 1]
  /\ pred' = [pred EXCEPT ![o] = tail]
  /\ succ' = [p \in Op |-> IF p = tail THEN o ELSE succ[p]]
  /\ satisfied' =
       satisfied \cup {p \in live : Inherits(p, Droppable)}
                 \cup {p \in {o} : tail # None /\ Done(tail)
                                   /\ DependenciesTerminal(tail)}
  /\ tail' = o
  /\ sequence' = sequence + 1
  /\ age' = [age EXCEPT ![o] = 0]
  /\ ttl' = TtlTicks
  /\ UNCHANGED <<run, terminal, coded, retries, cleared>>

---------------------------------------------------------------------------
(* The ready replies of assertPredecessorTerminal.                         *)
PassUnchecked(o) ==
  /\ o \in live
  /\ pred[o] = None \/ o \in satisfied
  /\ cleared' = cleared \cup {o}
  /\ UNCHANGED <<chain, satisfied, run, verdict, retries, ttl>>

PassTerminal(o) ==
  /\ o \in live \ satisfied /\ pred[o] # None
  /\ Done(pred[o])
  /\ DependenciesTerminal(pred[o])
  /\ satisfied' = satisfied \cup {o}
  /\ cleared' = cleared \cup {o}
  /\ ttl' = TtlTicks
  /\ UNCHANGED <<chain, run, verdict, retries>>

PassExpiring(o) ==
  /\ o \in live \ satisfied /\ pred[o] # None
  /\ Open(pred[o]) /\ pred[o] \notin everActive /\ Due(pred[o])
  /\ DependenciesTerminal(pred[o])
  /\ terminal' = [terminal EXCEPT ![pred[o]] = "expired"]
  /\ age' = [age EXCEPT ![pred[o]] = 0]
  /\ satisfied' = satisfied \cup {o, pred[o]}
  /\ cleared' = cleared \cup {o}
  /\ ttl' = TtlTicks
  /\ UNCHANGED <<chain, run, coded, retries>>

---------------------------------------------------------------------------
(* The ingress asks for the lane only after it has seen its predecessor    *)
(* ready.                                                                  *)
MarkActive(o) ==
  /\ o \in cleared
  /\ Open(o)
  /\ lease[o] = 0
  /\ everActive' = everActive \cup {o}
  /\ active' = active \cup {o}
  /\ lease' = [lease EXCEPT ![o] = LeaseTicks]
  /\ ttl' = TtlTicks
  /\ UNCHANGED <<chain, satisfied, verdict, retries, cleared>>

(* Ownership is checked, the lease is not: a lapsed holder renews.         *)
RenewActive(o) ==
  /\ Open(o) /\ o \in active
  /\ lease' = [lease EXCEPT ![o] = LeaseTicks]
  /\ ttl' = TtlTicks
  /\ UNCHANGED <<chain, satisfied, everActive, active, verdict, retries,
                 cleared>>

ClearActive(o) ==
  /\ active' = active \ {o}
  /\ lease' = [lease EXCEPT ![o] = 0]
  /\ UNCHANGED everActive

ReleaseActive(o) ==
  /\ Open(o) /\ o \in active
  /\ ClearActive(o)
  /\ ttl' = TtlTicks
  /\ UNCHANGED <<chain, satisfied, verdict, retries, cleared>>

RecordTechnicalRetry(o) ==
  /\ Open(o)
  /\ retries[o] < MaxRetries
  /\ retries' = [retries EXCEPT ![o] = @ + 1]
  /\ ttl' = TtlTicks
  /\ UNCHANGED <<chain, satisfied, run, verdict, cleared>>

(* An operation that is not active can only be closed as failed or expired *)
MayClose(o, t) == o \in active \/ t \in {"failed", "expired"}

MarkTerminal(o, t) ==
  /\ Open(o)
  /\ MayClose(o, t)
  /\ terminal' = [terminal EXCEPT ![o] = t]
  /\ coded' = IF t = "succeeded" THEN coded \ {o} ELSE coded \cup {o}
  /\ age' = [age EXCEPT ![o] = 0]
  /\ ClearActive(o)
  /\ ttl' = TtlTicks
  /\ UNCHANGED <<chain, satisfied, retries, cleared>>

---------------------------------------------------------------------------
(* The deadline reconciler: both scripts run once the deadline is due.     *)
ExpireNeverActive(o) ==
  /\ Open(o) /\ o \notin everActive /\ Due(o)
  /\ DependenciesTerminal(o)
  /\ terminal' = [terminal EXCEPT ![o] = "expired"]
  /\ age' = [age EXCEPT ![o] = 0]
  /\ satisfied' = satisfied \cup {o}
  /\ ttl' = TtlTicks
  /\ UNCHANGED <<chain, run, coded, retries, cleared>>

FinalizeEverActiveAmbiguous(o) ==
  /\ Open(o) /\ o \in everActive /\ Due(o)
  /\ terminal' = [terminal EXCEPT ![o] = "ambiguous"]
  /\ coded' = coded \cup {o}
  /\ age' = [age EXCEPT ![o] = 0]
  /\ ClearActive(o)
  /\ ttl' = TtlTicks
  /\ UNCHANGED <<chain, satisfied, retries, cleared>>

ClearTerminalTail(o) ==
  /\ tail = o /\ Done(o)
  /\ ttl' = TtlTicks
  /\ UNCHANGED <<chain, satisfied, run, verdict, retries, cleared>>

---------------------------------------------------------------------------
(* Time.  Redis drops the key, counter included, TtlTicks after the last   *)
(* write.                                                                  *)
Down(n) == IF n > 0 THEN n - 1 ELSE 0

Tick ==
  /\ ttl > 1
  /\ age' = [o \in Op |-> IF o \in live /\ ~Due(o) THEN age[o] + 1
                          ELSE age[o]]
  /\ lease' = [o \in Op |-> IF o \in live THEN Down(lease[o]) ELSE lease[o]]
  /\ ttl' = ttl - 1
  /\ UNCHANGED <<chain, satisfied, everActive, active, terminal, coded,
                 retries, cleared>>

KeyExpires ==
  /\ ttl = 1
  /\ live' = {}
  /\ tail' = None
  /\ sequence' = 0
  /\ ttl' = 0
  /\ UNCHANGED <<known, seq, pred, succ, satisfied, run, verdict, retries,
                 cleared>>

---------------------------------------------------------------------------
Init ==
  /\ known = {} /\ live = {}
  /\ seq = [o \in Op |-> 0]
  /\ pred = [o \in Op |-> None]
  /\ succ = [o \in Op |-> None]
  /\ tail = None /\ sequence = 0
  /\ satisfied = {} /\ everActive = {} /\ active = {}
  /\ lease = [o \in Op |-> 0]
  /\ terminal = [o \in Op |-> "none"] /\ coded = {}
  /\ age = [o \in Op |-> 0]
  /\ retries = [o \in Op |-> 0]
  /\ ttl = 0
  /\ cleared = {}

OpStep(o) ==
  \/ Allocate(o)
  \/ PassUnchecked(o) \/ PassTerminal(o) \/ PassExpiring(o)
  \/ MarkActive(o) \/ RenewActive(o) \/ ReleaseActive(o)
  \/ RecordTechnicalRetry(o)
  \/ \E t \in TerminalState : MarkTerminal(o, t)
  \/ ExpireNeverActive(o) \/ FinalizeEverActiveAmbiguous(o)
  \/ ClearTerminalTail(o)

Next == Tick \/ KeyExpires \/ \E o \in Op : OpStep(o)

Spec == Init /\ [][Next]_vars

---------------------------------------------------------------------------
TypeOK ==
  /\ known \subseteq Op /\ live \subseteq known
  /\ seq \in [Op -> Nat]
  /\ pred \in [Op -> Op \cup {None}]
  /\ succ \in [Op -> Op \cup {None}]
  /\ tail \in Op \cup {None} /\ sequence \in Nat
  /\ satisfied \subseteq Op /\ everActive \subseteq Op /\ active \subseteq Op
  /\ lease \in [Op -> 0 .. LeaseTicks]
  /\ terminal \in [Op -> TerminalState \cup {"none"}] /\ coded \subseteq Op
  /\ age \in [Op -> 0 .. DeadlineTicks]
  /\ retries \in [Op -> 0 .. MaxRetries]
  /\ ttl \in 0 .. TtlTicks
  /\ cleared \subseteq Op

Before(p, o) == p \in live /\ o \in live /\ seq[p] < seq[o]

(* Per-entity order: once an operation has acquired the lane, every        *)
(* operation admitted to the entity before it is terminal, so at most one  *)
(* operation of the entity is past the lane and not terminal.              *)
EntityOrder ==
  \A o, p \in Op : o \in everActive /\ Before(p, o) => Done(p)

(* A successor is never stranded: while it still waits for a predecessor,  *)
(* that predecessor is stored under the identity the successor holds, so   *)
(* "predecessor_identity_missing" is never the answer.                     *)
NoStrandedSuccessor ==
  \A o \in live \ satisfied :
    pred[o] # None => Before(pred[o], o) /\ succ[pred[o]] = o

(* Success and ambiguity are statements about an execution: neither is     *)
(* ever recorded for an operation that did not acquire the lane.           *)
OutcomeHasExecution ==
  \A o \in live : terminal[o] \in {"succeeded", "ambiguous"}
                    => o \in everActive

(* A terminal state is immutable: redelivery, reconciler and successor     *)
(* may all report on the same operation, only the first report counts.     *)
TerminalIsFinal ==
  [][\A o \in Op : Done(o) => terminal'[o] = terminal[o]]_vars

(* Only the holder may expire an operation that has acquired the lane: the *)
(* reconciler and the successor expire what never ran (no failure code).   *)
ReaperSparesStarted ==
  [][\A o \in Op : Open(o) /\ terminal'[o] = "expired" /\ o \notin coded'
       => o \notin everActive]_vars

(* Identity cleanup drops an entry only when it and everything before it   *)
(* is terminal; the key expiry drops the lane as a whole.                  *)
CleanupKeepsOpenWork ==
  [][\A o \in Op : o \in live \ live' /\ tail' # None
       => Done(o) /\ \A p \in Op : Before(p, o) => Done(p)]_vars

(* The lane implements the queue that an entity is promised: its walks,    *)
(* satisfied marks, leases and cleanup never start an operation out of     *)
(* turn, decide one twice or forget one that something still waits for.    *)
Queue == INSTANCE EntityQueue WITH
  Operation <- Op, admitted <- known, line <- live, place <- seq,
  started <- everActive, outcome <- terminal

ServesInOrder == Queue!Spec
=============================================================================
