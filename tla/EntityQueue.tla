----------------------------- MODULE EntityQueue -----------------------------
(***************************************************************************)
(* What the lane promises one entity, with none of its predecessors,       *)
(* marks, leases and timers: operations stand in line in the order of      *)
(* their admission, one is started only when everything before it in line  *)
(* is decided, and what is decided stays so.  CommandLane implements it.   *)
(***************************************************************************)
EXTENDS Naturals

CONSTANT Operation

VARIABLES
  admitted,  \* operations that have ever been admitted
  line,      \* those that the entity still remembers
  place,     \* the place in line each one got
  started,   \* operations that were let through
  outcome    \* what was decided of each, or "none"

vars == <<admitted, line, place, started, outcome>>

Decision == {"succeeded", "failed", "expired", "ambiguous"}

Decided(o) == o \in line /\ outcome[o] # "none"

(* Everything that stands before o is decided.                             *)
IsNext(o) == \A p \in line : place[p] < place[o] => Decided(p)

Init ==
  /\ admitted = {} /\ line = {} /\ started = {}
  /\ place = [o \in Operation |-> 0]
  /\ outcome = [o \in Operation |-> "none"]

(* A newcomer goes to the end of the line, once; on that occasion decided  *)
(* operations with nothing undecided before them may be forgotten.         *)
Admit(o) ==
  /\ o \notin admitted
  /\ admitted' = admitted \cup {o}
  /\ o \in line' /\ line' \subseteq line \cup {o}
  /\ \A p \in line \ line' : Decided(p) /\ IsNext(p)
  /\ place' = [place EXCEPT ![o] = place'[o]]
  /\ \A p \in line : place[p] < place'[o]
  /\ UNCHANGED <<started, outcome>>

Start(o) ==
  /\ o \in line /\ ~Decided(o) /\ IsNext(o)
  /\ started' = started \cup {o}
  /\ UNCHANGED <<admitted, line, place, outcome>>

(* Success, and doubt, are statements about an operation that was started. *)
Decide(o, verdict) ==
  /\ o \in line /\ ~Decided(o)
  /\ verdict \in {"succeeded", "ambiguous"} => o \in started
  /\ outcome' = [outcome EXCEPT ![o] = verdict]
  /\ UNCHANGED <<admitted, line, place, started>>

(* An entity that was left alone for long is forgotten as a whole.         *)
Forget ==
  /\ line' = {}
  /\ UNCHANGED <<admitted, place, started, outcome>>

Next ==
  \/ Forget
  \/ \E o \in Operation :
       Admit(o) \/ Start(o) \/ \E verdict \in Decision : Decide(o, verdict)

Spec == Init /\ [][Next]_vars
=============================================================================
