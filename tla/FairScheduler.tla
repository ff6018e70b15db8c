--------------------------- MODULE FairScheduler ---------------------------
(***************************************************************************)
(* FairKeyedScheduler: the in-process queue of the command ingress.  It    *)
(* runs one task of a key (a chat) at a time and at most MaxActiveLanes    *)
(* keys at once, and takes the keys that have work in rotation.            *)
(*                                                                         *)
(* The code runs on one event loop.  A synchronous stretch is one action:  *)
(* enqueue together with the pump it ends in, and the finally handler of a *)
(* task together with the pump and the answer to closeAndDrain.  Between   *)
(* the promise of a task settling (its caller may go on) and its finally   *)
(* handler other stretches may run, so these are two actions.              *)
(*                                                                         *)
(* Calls that are rejected (closed, saturated, empty key) change nothing.  *)
(* readySet holds the keys of ready and is not kept apart from it.         *)
(***************************************************************************)
EXTENDS Naturals, Sequences, FiniteSets

CONSTANTS
  Key,             \* entity keys
  Task,            \* calls of enqueue
  KeyOf,           \* the key each call is made with
  Hung,            \* keys whose handlers may never settle
  MaxActiveLanes,
  MaxQueuedTasks

ASSUME SchedulerAssumption ==
  /\ KeyOf \in [Task -> Key]
  /\ Hung \subseteq Key
  /\ MaxActiveLanes \in Nat \ {0}
  /\ MaxQueuedTasks \in Nat /\ MaxQueuedTasks >= MaxActiveLanes

VARIABLES
  queues,       \* tasks of each key not started, oldest first
  ready,        \* keys waiting for a lane, next one first
  active,       \* keys that hold a lane
  queuedTasks,  \* the counter enqueue checks
  closing,
  drain,        \* closeAndDrain: not called, waiting, or returned
  state,        \* of each task
  accepted,     \* history: the tasks accepted, in order
  passed        \* history: <<k, j>> when j started while k was waiting

vars == <<queues, ready, active, queuedTasks, closing, drain, state, accepted,
          passed>>

Elements(s) == {s[i] : i \in DOMAIN s}
Idle == queuedTasks = 0 /\ active = {}

---------------------------------------------------------------------------
(* Faulty variants of definitions below.  No action uses them: each one    *)
(* replaces the definition it is named after when the runs are checked for *)
(* being able to fail.                                                     *)
MakeReady_WhileActive(k, r, a) ==
  IF k \in Elements(r) THEN r ELSE Append(r, k)

MakeReady_Front(k, r, a) ==
  IF k \in a \cup Elements(r) THEN r ELSE <<k>> \o r

Admits_Closed == queuedTasks < MaxQueuedTasks

Rewoken_BeforeRelease(k, a) == ready  \* k still counts as active

CounterAfter_LastOfKey(k) ==
  IF queues[k] = <<>> THEN queuedTasks - 1 ELSE queuedTasks

---------------------------------------------------------------------------
(* r with k added at its end, unless k holds a lane or is waiting.         *)
MakeReady(k, r, a) ==
  IF k \in a \cup Elements(r) THEN r ELSE Append(r, k)

(* The pump, started on queues q, ready keys r, lanes a and task states s: *)
(* it gives the free lanes to the first keys of r.  Every key of r has a   *)
(* task, so the branch that drops a key without one is not taken.          *)
Pump(q, r, a, s) ==
  LET free == MaxActiveLanes - Cardinality(a)
      n == IF free < Len(r) THEN free ELSE Len(r)
      run == Elements(SubSeq(r, 1, n))
      first == {Head(q[k]) : k \in run}
      left == SubSeq(r, n + 1, Len(r))
  IN /\ queues' = [k \in Key |-> IF k \in run THEN Tail(q[k]) ELSE q[k]]
     /\ ready' = left
     /\ active' = a \cup run
     /\ state' = [t \in Task |-> IF t \in first THEN "running" ELSE s[t]]
     /\ passed' = {p \in passed : p[1] \in Elements(left)}
                    \cup (Elements(left) \X run)

Admits == ~closing /\ queuedTasks < MaxQueuedTasks

Enqueue(t) ==
  LET k == KeyOf[t]
  IN /\ state[t] = "new"
     /\ Admits
     /\ accepted' = Append(accepted, t)
     /\ queuedTasks' = queuedTasks + 1
     /\ Pump([queues EXCEPT ![k] = Append(@, t)], MakeReady(k, ready, active),
             active, [state EXCEPT ![t] = "waiting"])
     /\ UNCHANGED <<closing, drain>>

(* run() settles: task.resolve or task.reject is called.                   *)
Settle(t) ==
  /\ state[t] = "running"
  /\ state' = [state EXCEPT ![t] = "settled"]
  /\ UNCHANGED <<queues, ready, active, queuedTasks, closing, drain, accepted,
                 passed>>

(* resolveDrainIfIdle, after the pump.                                     *)
AfterFinally ==
  IF drain = "waiting" /\ queuedTasks' = 0 /\ active' = {}
  THEN "returned" ELSE drain

Rewoken(k, a) ==
  IF queues[k] # <<>> THEN MakeReady(k, ready, a) ELSE ready

CounterAfter(k) == queuedTasks - 1

Finally(t) ==
  LET k == KeyOf[t]
      a == active \ {k}
  IN /\ state[t] = "settled"
     /\ queuedTasks' = CounterAfter(k)
     /\ Pump(queues, Rewoken(k, a), a, [state EXCEPT ![t] = "over"])
     /\ drain' = AfterFinally
     /\ UNCHANGED <<closing, accepted>>

CloseAndDrain ==
  /\ ~closing
  /\ closing' = TRUE
  /\ drain' = IF Idle THEN "returned" ELSE "waiting"
  /\ UNCHANGED <<queues, ready, active, queuedTasks, state, accepted, passed>>

---------------------------------------------------------------------------
Init ==
  /\ queues = [k \in Key |-> <<>>]
  /\ ready = <<>> /\ active = {}
  /\ queuedTasks = 0
  /\ closing = FALSE /\ drain = "open"
  /\ state = [t \in Task |-> "new"]
  /\ accepted = <<>> /\ passed = {}

Next ==
  \/ \E t \in Task : Enqueue(t) \/ Settle(t) \/ Finally(t)
  \/ CloseAndDrain

Spec == Init /\ [][Next]_vars

(* The event loop runs every handler that is due.  A handler of a key that *)
(* is not hung settles: the SDK calls it makes have timeouts.              *)
Fairness ==
  \A t \in Task : /\ WF_vars(Finally(t))
                  /\ KeyOf[t] \notin Hung => WF_vars(Settle(t))

FairSpec == Spec /\ Fairness

---------------------------------------------------------------------------
Waiting(t) == state[t] = "waiting"
InLane(t) == state[t] \in {"running", "settled"}

(* No wakeup is lost: a key with work has a lane or waits for one, and a   *)
(* key only waits while every lane is taken.                               *)
NoLostWakeup ==
  /\ \A t \in Task : Waiting(t) => KeyOf[t] \in active \cup Elements(ready)
  /\ ready # <<>> => Cardinality(active) = MaxActiveLanes

(* The counter that admits calls is the number of tasks accepted and not   *)
(* over (running tasks count, a task that fails gives its place back), and *)
(* it stays within the limit: calls are not refused for ever, nor let in   *)
(* without bound.                                                          *)
CounterIsExact ==
  /\ queuedTasks = Cardinality({t \in Task : Waiting(t) \/ InLane(t)})
  /\ queuedTasks <= MaxQueuedTasks

(* When closeAndDrain has returned, no task is running (it would still     *)
(* settle) and none will run: close() of the ingress then drops its guards *)
(* and connections.                                                        *)
DrainedIsQuiet ==
  [][drain = "returned" => UNCHANGED <<state, active, queuedTasks>>]_vars

(* Tasks of a key start in the order in which they were accepted, each     *)
(* after the one before it is over.                                        *)
StartsInOrder ==
  [][\A i, j \in DOMAIN accepted :
       /\ i < j /\ KeyOf[accepted[i]] = KeyOf[accepted[j]]
       /\ state[accepted[j]] = "waiting" /\ state'[accepted[j]] = "running"
       => state'[accepted[i]] = "over"]_vars

(* Rotation: while a key waits for a lane, no other key starts twice.      *)
NoKeyPassesTwice ==
  [][\A k \in Elements(ready), t \in Task :
       /\ Waiting(t) /\ state'[t] = "running"
       /\ <<k, KeyOf[t]>> \in passed
       => k \notin Elements(ready')]_vars

(* A chat whose handler hangs does not stop the others, as long as it      *)
(* leaves a lane: every task accepted for another key is carried out, and  *)
(* closing does not abandon it.                                            *)
HungChatHoldsOnlyItsLane ==
  Cardinality(Hung) < MaxActiveLanes =>
    \A t \in Task : KeyOf[t] \notin Hung /\ Waiting(t) ~> state[t] = "over"
=============================================================================
