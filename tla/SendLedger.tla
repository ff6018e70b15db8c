----------------------------- MODULE SendLedger -----------------------------
(***************************************************************************)
(* One send operation in the idempotency ledger (a Redis hash driven by    *)
(* MessageSendIdempotencyService) and the deliveries that try to carry it  *)
(* out (MessageSendConsume).  The ledger is what keeps a message from      *)
(* going out twice: a delivery reserves the operation under an owner of    *)
(* its own, writes provider_invoked before the SDK is called, and records  *)
(* the outcome by compare-and-set on owner and state.                      *)
(*                                                                         *)
(* An Attempt is one delivery; its claim's owner is a fresh UUID, so the   *)
(* attempt stands for the owner too.  A Host is one sender process.  It    *)
(* keeps, for this operation, a slot (activeSendClaims and the other maps  *)
(* that finally clears) and a marker (providerInvokedSendClaims).          *)
(*                                                                         *)
(* Each Lua script is one atomic step.  A reply may be lost (the 3 s bound *)
(* of runCriticalRedisOperation): the caller goes on as after an error and *)
(* the script runs at any later time, or never.  A reply that is only late *)
(* matters for the revert of stray code alone, which shares its process    *)
(* with other deliveries: StrayReverted.  Timers count in ticks and        *)
(* saturate.  The retention of the record is left at its shortest value    *)
(* and is counted from the claim: the code keeps the record longer.        *)
(***************************************************************************)
EXTENDS Integers

CONSTANTS
  Attempt, Host, None,
  HostOf,         \* the process that handles each delivery
  Lossy,          \* the scripts whose reply may be lost, or late
  ReserveTicks,   \* RESERVATION_LEASE_MS
  InvokeTicks,    \* PROVIDER_INVOCATION_LEASE_MS, also the watchdog's due time
  CommandTicks,   \* ticks left before the command's deadline
  RecordTicks,    \* the shortest retention, that of "reserved"
  MaxConnection   \* bound on reconnections of the WhatsApp session

(* The scripts a delivery runs on its own claim, and the transition each   *)
(* one makes.                                                              *)
Script == {"invoke", "revert", "succeed", "fail", "doubt", "release"}

Source == [op \in Script |->
  CASE op \in {"invoke", "fail", "release"} -> "reserved"
    [] op \in {"revert", "succeed", "doubt"} -> "provider_invoked"]

Target == [op \in Script |->
  CASE op = "invoke" -> "provider_invoked"
    [] op = "revert" -> "reserved"
    [] op = "succeed" -> "succeeded"
    [] op = "fail" -> "failed"
    [] op = "doubt" -> "ambiguous"
    [] op = "release" -> "absent"]

Terminal == {"succeeded", "failed", "ambiguous"}
State == {"absent", "reserved", "provider_invoked"} \cup Terminal

(* Where boundary code that outlived its delivery can be: see TimeOut.     *)
Stray == {"invoking", "resuming", "reverting", "reverted"}

ASSUME LedgerAssumption ==
  /\ None \notin Attempt \cup Stray /\ HostOf \in [Attempt -> Host]
  /\ Lossy \subseteq Script \cup {"claim"}
  /\ ReserveTicks \in Nat \ {0} /\ InvokeTicks \in Nat \ {0}
  /\ CommandTicks \in Nat /\ RecordTicks \in Nat \ {0}
  /\ RecordTicks >= CommandTicks
  /\ MaxConnection \in Nat

VARIABLES
  state, owner,
  lease,       \* ticks until lease_until_ms
  age,         \* ticks since created_at_ms
  source,      \* the connection_epoch in the stored metadata
  compacted,   \* compacted_at_ms is set
  pc,          \* where each attempt is
  from,        \* the connection epoch an attempt captured
  pending,     \* the scripts of an attempt whose reply was lost
  stray,       \* the boundary code that outlived its delivery
  slot,        \* per host: the registered attempt
  marker,      \* hosts that believe provider_invoked is written
  conn,        \* the epoch of the live connection
  life,        \* ticks until the command's deadline
  called,      \* attempts that started the SDK call
  accepted,    \* the provider took the message
  published    \* what has been told of the operation: "sent", "failed"

ledger == <<state, owner, lease, age, source, compacted>>
process == <<slot, marker>>
world == <<conn, life, called, accepted, published>>
delivery == <<from, pending, stray>>
vars == <<ledger, pc, delivery, process, world>>

Place == {"idle", "held", "invoking", "resuming", "reverting", "crossed",
          "refused", "calling", "answered", "doubtful", "tell_sent",
          "tell_failed", "compact", "over"}

---------------------------------------------------------------------------
(* The ledger's scripts.  Here and below a definition with a name of the   *)
(* form Definition_Variant is not used by any action: it is a faulty form  *)
(* of the definition it stands before.                                     *)

Claimable_RetryFailed(a) ==   \* variant: a failed send is taken up again
  \/ state \in {"absent", "failed"}
  \/ state = "reserved" /\ lease = 0

(* CLAIM takes a free record, a lapsed reservation, or a reservation made  *)
(* on another connection when the caller's connection is the active one.   *)
(* (The assignment epoch it also compares is not set on the command stream *)
(* and the runtime generation changes with the connection.)                *)
Claimable(a) ==
  \/ state = "absent"
  \/ state = "reserved" /\ (lease = 0 \/ (source # from[a] /\ from[a] = conn))

Reserve(a) ==
  /\ Claimable(a)
  /\ state' = "reserved" /\ owner' = a /\ lease' = ReserveTicks
  /\ age' = 0 /\ source' = from[a] /\ compacted' = FALSE

Lapsed_WhileAlive ==   \* variant: the watchdog leaves dead commands alone
  state = "provider_invoked" /\ lease = 0 /\ life > 0

(* An invocation whose lease has lapsed is closed as ambiguous by whoever  *)
(* looks at it: a claim, an inspection, the watchdog.                      *)
Lapsed == state = "provider_invoked" /\ lease = 0

GiveInvocationUp_AsFailed ==   \* variant: no answer counts as a failure
  /\ Lapsed
  /\ state' = "failed"
  /\ UNCHANGED <<owner, lease, age, source, compacted>>

GiveInvocationUp ==
  /\ Lapsed
  /\ state' = "ambiguous"
  /\ UNCHANGED <<owner, lease, age, source, compacted>>

LeaseOf(op) == CASE op = "invoke" -> InvokeTicks
                 [] op = "revert" -> ReserveTicks
                 [] OTHER -> 0

Permitted_AnyOwner(a, op) ==   \* variant: owner not compared
  state = Source[op]

Permitted(a, op) == owner = a /\ state = Source[op]

Transition(a, op) ==
  /\ Permitted(a, op)
  /\ state' = Target[op]
  /\ owner' = IF op = "release" THEN None ELSE owner
  /\ lease' = LeaseOf(op)
  /\ UNCHANGED <<age, source, compacted>>

(* What the same owner has already done is answered as made, and changes   *)
(* nothing.  (With another payload, which the model does not tell apart,   *)
(* it is refused.)                                                         *)
Repeated(a, op) ==
  /\ op # "release" /\ owner = a /\ state = Target[op]
  /\ UNCHANGED ledger

Goto(a, place) == pc' = [pc EXCEPT ![a] = place]

(* A script call and its reply: the transition was made, it was refused,   *)
(* or the reply is lost and the script left to run whenever it may.        *)
Made(a, op) == (Transition(a, op) \/ Repeated(a, op)) /\ UNCHANGED pending
Refused(a, op) == ~Permitted(a, op) /\ UNCHANGED <<ledger, pending>>
Lost(a, op) ==
  /\ op \in Lossy
  /\ pending' = [pending EXCEPT ![a] = @ \cup {op}]
  /\ UNCHANGED ledger

Run(a, op, good, bad) ==
  \/ Made(a, op) /\ Goto(a, good)
  \/ (Refused(a, op) \/ Lost(a, op)) /\ Goto(a, bad)

---------------------------------------------------------------------------
(* A delivery.                                                             *)
Marked(a) == HostOf[a] \in marker
Unmark(a) == marker' = marker \ {HostOf[a]}

Leave(a) ==      \* the finally block
  IF slot[HostOf[a]] = a
  THEN slot' = [slot EXCEPT ![HostOf[a]] = None] /\ Unmark(a)
  ELSE UNCHANGED process

LeaveIfOver(a) == IF pc'[a] = "over" THEN Leave(a) ELSE UNCHANGED process

(* A host runs the handlers of an entity one at a time, and starts none    *)
(* after the command's deadline.                                           *)
MayStart(a) ==
  /\ pc[a] = "idle" /\ life > 0
  /\ \A b \in Attempt : HostOf[b] = HostOf[a] => pc[b] \in {"idle", "over"}

Connect(a) ==    \* the connection scope is captured
  /\ MayStart(a) /\ from[a] # conn
  /\ from' = [from EXCEPT ![a] = conn]
  /\ UNCHANGED <<ledger, pc, pending, stray, process, world>>

ClaimAcquired(a) ==
  /\ MayStart(a)
  /\ Reserve(a)
  /\ slot' = [slot EXCEPT ![HostOf[a]] = a]
  /\ Goto(a, "held")
  /\ UNCHANGED <<delivery, marker, world>>

ClaimLost(a) ==
  /\ MayStart(a)
  /\ Lost(a, "claim")
  /\ Goto(a, "over")
  /\ UNCHANGED <<from, stray, process, world>>

(* A duplicate: the stored outcome is told again unless it is compacted.   *)
ClaimDuplicate(a) ==
  /\ MayStart(a) /\ ~Claimable(a)
  /\ \/ GiveInvocationUp /\ Goto(a, "tell_failed")
     \/ /\ ~Lapsed /\ UNCHANGED ledger
        /\ Goto(a, IF state \notin Terminal \/ compacted THEN "over"
                   ELSE IF state = "succeeded" THEN "tell_sent"
                   ELSE "tell_failed")
  /\ UNCHANGED <<delivery, process, world>>

(* The boundary before the SDK: the connection is checked, and the CAS is  *)
(* sent unless the host believes it has been.                              *)
Check(a) ==
  /\ pc[a] = "held" /\ from[a] = conn
  /\ Goto(a, IF Marked(a) THEN "crossed" ELSE "invoking")
  /\ UNCHANGED <<ledger, delivery, process, world>>

Invoke_Hopeful(a) ==   \* variant: a lost reply is taken for a success
  /\ pc[a] = "invoking"
  /\ Run(a, "invoke", "resuming", "resuming")
  /\ UNCHANGED <<from, stray, process, world>>

Invoke(a) ==
  /\ pc[a] = "invoking"
  /\ Run(a, "invoke", "resuming", "over")
  /\ LeaveIfOver(a)
  /\ UNCHANGED <<from, stray, world>>

Resume(a) ==     \* the last check before the call succeeds or fails
  /\ pc[a] = "resuming"
  /\ marker' = marker \cup {HostOf[a]}
  /\ (Goto(a, "crossed") \/ Goto(a, "reverting"))
  /\ UNCHANGED <<ledger, delivery, slot, world>>

Revert(a) ==     \* nothing was called: the reservation is reopened
  /\ pc[a] = "reverting" \/ (pc[a] = "crossed" /\ Marked(a))
  /\ Run(a, "revert", "refused", "over")
  /\ IF pc'[a] = "over" THEN Leave(a) ELSE Unmark(a) /\ UNCHANGED slot
  /\ UNCHANGED <<from, stray, world>>

Reject(a) ==     \* the start is refused where the mark has gone
  /\ pc[a] = "crossed" /\ ~Marked(a)
  /\ Goto(a, "refused")
  /\ UNCHANGED <<ledger, delivery, process, world>>

(* A forward whose first handler was refused goes on to the fallback's.    *)
Fallback(a) ==
  /\ pc[a] = "refused" /\ ~Marked(a)
  /\ Goto(a, "held")
  /\ UNCHANGED <<ledger, delivery, process, world>>

(* The pre-provider deadline ends the delivery but not the boundary code   *)
(* that waits for Redis.                                                   *)
TimeOut(a) ==
  /\ pc[a] \in {"held", "invoking", "resuming", "reverting"}
  /\ Goto(a, IF Marked(a) THEN "doubtful" ELSE "over")
  /\ stray' = [stray EXCEPT ![a] = IF pc[a] = "held" THEN None ELSE pc[a]]
  /\ LeaveIfOver(a)
  /\ UNCHANGED <<ledger, from, pending, world>>

StrayInvoke(a) ==
  /\ stray[a] = "invoking"
  /\ \/ Made(a, "invoke") /\ stray' = [stray EXCEPT ![a] = "resuming"]
     \/ /\ Refused(a, "invoke") \/ Lost(a, "invoke")
        /\ stray' = [stray EXCEPT ![a] = None]
  /\ UNCHANGED <<pc, from, process, world>>

(* It finds itself unregistered, but has marked its process by then.       *)
StrayResume(a) ==
  /\ stray[a] = "resuming"
  /\ stray' = [stray EXCEPT ![a] = "reverting"]
  /\ marker' = marker \cup {HostOf[a]}
  /\ UNCHANGED <<ledger, pc, from, pending, slot, world>>

StrayRevert(a) ==
  /\ stray[a] = "reverting"
  /\ \/ /\ Made(a, "revert") /\ Unmark(a)
        /\ stray' = [stray EXCEPT ![a] = None]
     \/ /\ "revert" \in Lossy /\ Made(a, "revert") /\ UNCHANGED marker
        /\ stray' = [stray EXCEPT ![a] = "reverted"]
     \/ /\ Refused(a, "revert") \/ Lost(a, "revert")
        /\ stray' = [stray EXCEPT ![a] = None] /\ UNCHANGED marker
  /\ UNCHANGED <<pc, from, slot, world>>

StrayReverted(a) ==   \* the late reply: by now the mark may be another's
  /\ stray[a] = "reverted"
  /\ stray' = [stray EXCEPT ![a] = None]
  /\ Unmark(a)
  /\ UNCHANGED <<ledger, pc, from, pending, slot, world>>

(* The handler fails before the call: the reservation is given back, or a  *)
(* permanent failure recorded, or, where the process is marked, the send   *)
(* taken for one that has been called.                                     *)
Release(a) ==
  /\ pc[a] \in {"held", "refused"} /\ ~Marked(a)
  /\ Run(a, "release", "over", "over")
  /\ Leave(a)
  /\ UNCHANGED <<from, stray, world>>

Fail(a) ==
  /\ pc[a] = "held" /\ ~Marked(a)
  /\ Run(a, "fail", "tell_failed", "over")
  /\ Leave(a)
  /\ UNCHANGED <<from, stray, world>>

Misread(a) ==
  /\ pc[a] \in {"held", "refused"} /\ Marked(a)
  /\ Goto(a, "doubtful")
  /\ UNCHANGED <<ledger, delivery, process, world>>

Start_NotAwaited(a) ==   \* variant: the SDK's promise is not awaited
  /\ pc[a] = "crossed"
  /\ called' = called \cup {a}
  /\ Goto(a, "answered")
  /\ UNCHANGED <<ledger, delivery, process, conn, life, accepted, published>>

Start(a) ==
  /\ pc[a] = "crossed"
  /\ called' = called \cup {a}
  /\ Goto(a, "calling")
  /\ UNCHANGED <<ledger, delivery, process, conn, life, accepted, published>>

(* After a failed call or a confirmation that could not be recorded: where *)
(* the mark has gone, the handler takes itself for one that has not called.*)
Fallen(a) == IF Marked(a) THEN "doubtful" ELSE "refused"

Answer(a) ==     \* the SDK confirms, or times out or throws
  /\ pc[a] = "calling"
  /\ \/ Goto(a, Fallen(a))
     \/ (accepted /\ Goto(a, "answered"))
  /\ UNCHANGED <<ledger, delivery, process, world>>

Succeed(a) ==
  /\ pc[a] = "answered"
  /\ Run(a, "succeed", "tell_sent", Fallen(a))
  /\ UNCHANGED <<from, stray, process, world>>

Doubt_Unchecked(a) ==   \* variant: the transition's outcome is ignored
  /\ pc[a] = "doubtful"
  /\ Run(a, "doubt", "tell_failed", "tell_failed")
  /\ UNCHANGED <<from, stray, process, world>>

Doubt(a) ==
  /\ pc[a] = "doubtful"
  /\ Run(a, "doubt", "tell_failed", "over")
  /\ LeaveIfOver(a)
  /\ UNCHANGED <<from, stray, world>>

Tell(a, what) ==
  /\ pc[a] = what
  /\ published' = published
       \cup {IF what = "tell_sent" THEN "sent" ELSE "failed"}
  /\ Goto(a, "compact")
  /\ UNCHANGED <<ledger, delivery, process, conn, life, called, accepted>>

(* The publication fails, perhaps after it has arrived, or the compaction  *)
(* does: the delivery ends and a later one will tell it again.             *)
TellFails(a, what) ==
  /\ pc[a] = what
  /\ \/ published' = published
          \cup {IF what = "tell_sent" THEN "sent" ELSE "failed"}
     \/ UNCHANGED published
  /\ Goto(a, "over")
  /\ Leave(a)
  /\ UNCHANGED <<ledger, delivery, conn, life, called, accepted>>

Compact_Deletes(a) ==   \* variant: a told outcome is deleted, not compacted
  /\ pc[a] = "compact"
  /\ IF state \in Terminal
     THEN /\ state' = "absent" /\ owner' = None /\ lease' = 0
          /\ UNCHANGED <<compacted, age, source>>
     ELSE UNCHANGED ledger
  /\ Goto(a, "over")
  /\ Leave(a)
  /\ UNCHANGED <<delivery, world>>

Compact(a) ==
  /\ pc[a] = "compact"
  /\ IF state \in Terminal /\ ~compacted
     THEN /\ compacted' = TRUE /\ owner' = None /\ lease' = 0
          /\ UNCHANGED <<state, age, source>>
     ELSE UNCHANGED ledger
  /\ Goto(a, "over")
  /\ Leave(a)
  /\ UNCHANGED <<delivery, world>>

---------------------------------------------------------------------------
(* Redis, the provider, the session and the clock.                         *)
LateScript(a, op) ==
  /\ op \in pending[a]
  /\ pending' = [pending EXCEPT ![a] = @ \ {op}]
  /\ \/ op # "claim" /\ Transition(a, op)
     \/ op = "claim" /\ Reserve(a)
     \/ UNCHANGED ledger
  /\ UNCHANGED <<pc, from, stray, process, world>>

Watchdog ==
  /\ GiveInvocationUp
  /\ UNCHANGED <<pc, delivery, process, world>>

Accept ==
  /\ called # {} /\ ~accepted
  /\ accepted' = TRUE
  /\ UNCHANGED <<ledger, pc, delivery, process, conn, life, called, published>>

Reconnect ==
  /\ conn < MaxConnection
  /\ conn' = conn + 1
  /\ UNCHANGED <<ledger, pc, delivery, process, life, called, accepted,
                 published>>

Restart(h) ==    \* a process dies with everything it holds in memory
  /\ pc' = [a \in Attempt |->
              IF HostOf[a] = h /\ pc[a] # "idle" THEN "over" ELSE pc[a]]
  /\ stray' = [a \in Attempt |-> IF HostOf[a] = h THEN None ELSE stray[a]]
  /\ slot' = [slot EXCEPT ![h] = None]
  /\ marker' = marker \ {h}
  /\ UNCHANGED <<ledger, from, pending, world>>

Less_Unclamped(n) == n - 1   \* variant: an elapsed timer goes below zero

Less(n) == IF n > 0 THEN n - 1 ELSE 0

(* A reply that is later than its bound, far below a tick, counts as lost. *)
Tick ==
  /\ \A a \in Attempt : stray[a] # "reverted"
  /\ lease > 0 \/ life > 0 \/ (state # "absent" /\ age < RecordTicks)
  /\ lease' = Less(lease) /\ life' = Less(life)
  /\ age' = IF state # "absent" /\ age < RecordTicks THEN age + 1 ELSE age
  /\ UNCHANGED <<state, owner, source, compacted, pc, delivery, process, conn,
                 called, accepted, published>>

Expire ==
  /\ state # "absent" /\ age = RecordTicks
  /\ state' = "absent" /\ owner' = None /\ lease' = 0 /\ compacted' = FALSE
  /\ UNCHANGED <<age, source, pc, delivery, process, world>>

---------------------------------------------------------------------------
Init ==
  /\ state = "absent" /\ owner = None /\ lease = 0 /\ age = 0
  /\ source = 0 /\ compacted = FALSE
  /\ pc = [a \in Attempt |-> "idle"] /\ from = [a \in Attempt |-> 0]
  /\ pending = [a \in Attempt |-> {}] /\ stray = [a \in Attempt |-> None]
  /\ slot = [h \in Host |-> None] /\ marker = {}
  /\ conn = 0 /\ life = CommandTicks
  /\ called = {} /\ accepted = FALSE /\ published = {}

Deliver(a) ==
  \/ Connect(a) \/ ClaimAcquired(a) \/ ClaimLost(a) \/ ClaimDuplicate(a)
  \/ Check(a) \/ Invoke(a) \/ Resume(a) \/ Revert(a) \/ Reject(a)
  \/ Fallback(a) \/ TimeOut(a)
  \/ StrayInvoke(a) \/ StrayResume(a) \/ StrayRevert(a) \/ StrayReverted(a)
  \/ Release(a) \/ Fail(a) \/ Misread(a) \/ Start(a) \/ Answer(a)
  \/ Succeed(a) \/ Doubt(a)
  \/ \E what \in {"tell_sent", "tell_failed"} :
       Tell(a, what) \/ TellFails(a, what)
  \/ Compact(a)

Next ==
  \/ \E a \in Attempt : Deliver(a) \/ \E op \in pending[a] : LateScript(a, op)
  \/ \E h \in Host : Restart(h)
  \/ Watchdog \/ Accept \/ Reconnect \/ Tick \/ Expire

Spec == Init /\ [][Next]_vars

(* The drainer polls the watchdog index every second.                      *)
FairSpec == Spec /\ WF_vars(Watchdog) /\ WF_vars(Tick)

---------------------------------------------------------------------------
(* The types of the variables; timers never go below zero.                 *)
TypeOK ==
  /\ state \in State /\ owner \in Attempt \cup {None}
  /\ lease \in Nat /\ age \in 0 .. RecordTicks
  /\ source \in 0 .. MaxConnection /\ compacted \in BOOLEAN
  /\ pc \in [Attempt -> Place] /\ from \in [Attempt -> 0 .. MaxConnection]
  /\ pending \in [Attempt -> SUBSET (Script \cup {"claim"})]
  /\ stray \in [Attempt -> Stray \cup {None}]
  /\ slot \in [Host -> Attempt \cup {None}] /\ marker \subseteq Host
  /\ conn \in 0 .. MaxConnection /\ life \in 0 .. CommandTicks
  /\ called \subseteq Attempt /\ accepted \in BOOLEAN
  /\ published \subseteq {"sent", "failed"}

(* The message goes to the provider at most once, however many deliveries, *)
(* processes, reconnections and late scripts there are.  (Callers are      *)
(* deliveries: one that has called does not call again, as a fallback      *)
(* follows a refused start only.)                                          *)
AtMostOneCall == \A a, b \in called : a = b

(* "succeeded" is recorded only if the provider took the message.          *)
SuccessIsTrue == state = "succeeded" => accepted

(* "failed" is recorded only if the SDK was never called by anyone.        *)
FailureIsTrue == state = "failed" => called = {}

(* The user is never told both that the message was sent and that it       *)
(* failed.                                                                 *)
OneStory == published # {"sent", "failed"}

(* The worker writes provider_invoked before it calls the provider: when   *)
(* the call starts, the ledger holds the caller's invocation, or its       *)
(* verdict on it, or has let it go after the deadline.                     *)
CallIsRecorded ==
  [][called' # called =>
       state = "provider_invoked" \/ state = "ambiguous" \/ life = 0]_vars

(* A recorded outcome never changes; retention may drop it, but only once  *)
(* no delivery can start any more.                                         *)
OutcomeIsFinal ==
  [][state' # state => \/ state \notin Terminal
                       \/ state' = "absent" /\ life = 0]_vars

(* An invocation does not stay open: it gets an outcome even if the sender *)
(* has died.                                                               *)
InvocationEnds == state = "provider_invoked" ~> state # "provider_invoked"

(* Seen from outside, with its owners, leases and processes hidden, the    *)
(* ledger is a one-shot send: one call, one true outcome, one story.       *)
Verdict == IF state \in Terminal THEN state ELSE "none"

OneShot == INSTANCE OneShotSend WITH
  Caller <- Attempt, callers <- called, taken <- accepted,
  verdict <- Verdict, late <- (life = 0), told <- published

SendsOnce == OneShot!Spec
=============================================================================
