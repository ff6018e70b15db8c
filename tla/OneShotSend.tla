----------------------------- MODULE OneShotSend -----------------------------
(***************************************************************************)
(* What the idempotency ledger promises of one send operation, with none   *)
(* of its leases, owners and processes: one call of the SDK at most, an    *)
(* outcome that is decided once and is true, and one story told to the     *)
(* user.  SendLedger implements it.                                        *)
(***************************************************************************)
CONSTANT Caller

VARIABLES
  callers,   \* who has called the SDK
  taken,     \* the provider took the message
  verdict,   \* the recorded outcome
  late,      \* the command's deadline has passed
  told       \* what the user has been told

vars == <<callers, taken, verdict, late, told>>

Init ==
  /\ callers = {} /\ ~taken /\ verdict = "none" /\ late \in BOOLEAN
  /\ told = {}

(* A recorded outcome stops the call, unless it is the one that says that  *)
(* nobody knows.                                                           *)
Call ==
  /\ callers = {} /\ verdict \in {"none", "ambiguous"}
  /\ \E c \in Caller : callers' = {c}
  /\ UNCHANGED <<taken, verdict, late, told>>

Take ==
  /\ callers # {} /\ ~taken
  /\ taken' = TRUE
  /\ UNCHANGED <<callers, verdict, late, told>>

(* The outcome is true, and is recorded before anybody hears of it.        *)
Decide(outcome) ==
  /\ verdict = "none" /\ told = {}
  /\ outcome = "succeeded" => taken
  /\ outcome = "failed" => callers = {}
  /\ verdict' = outcome
  /\ UNCHANGED <<callers, taken, late, told>>

(* Retention may drop the record, but not before the deadline.             *)
Forget ==
  /\ late /\ verdict # "none"
  /\ verdict' = "none"
  /\ UNCHANGED <<callers, taken, late, told>>

(* Once the outcome is forgotten it can still be told by who learnt it.    *)
Say(what) ==
  /\ told \subseteq {what}
  /\ what = "sent" => taken
  /\ IF verdict = "none" THEN late ELSE what = "sent" <=> verdict = "succeeded"
  /\ told' = {what}
  /\ UNCHANGED <<callers, taken, verdict, late>>

Deadline ==
  /\ late' = TRUE
  /\ UNCHANGED <<callers, taken, verdict, told>>

Next ==
  \/ Call \/ Take \/ Forget \/ Deadline
  \/ \E outcome \in {"succeeded", "failed", "ambiguous"} : Decide(outcome)
  \/ \E what \in {"sent", "failed"} : Say(what)

Spec == Init /\ [][Next]_vars
=============================================================================
