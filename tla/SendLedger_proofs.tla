--------------------------- MODULE SendLedger_proofs ---------------------------
(***************************************************************************)
(* Proofs about SendLedger, for every set of deliveries and processes, any *)
(* lease times, and any loss of replies; but where a theorem says so, not  *)
(* those of the revert script (a run of MCSendLedger shows what they do).  *)
(***************************************************************************)
EXTENDS SendLedger, TLAPS

---------------------------------------------------------------------------
(* The inductive invariant, in named parts.                                *)

(* Between the written invocation and the SDK call; "stray" is the same    *)
(* code when its delivery is over.                                         *)
Near == {"resuming", "reverting", "crossed"}
StrayNear == {"resuming", "reverting"}
Rest == {"over", "doubtful", "tell_failed", "compact"}
After == Rest \cup {"calling", "answered", "tell_sent"}
Off == {"idle", "over"}
Before == {"held", "invoking", "refused"}
Working == Before \cup Near \cup {"calling", "answered", "doubtful"}

(* Retention outlasts the deadline.                                        *)
Retained == state # "absent" /\ life > 0 => age + life <= CommandTicks

(* One handler at a time on a host, registered in its slot while it works. *)
OneHandler ==
  \A a, b \in Attempt :
    HostOf[a] = HostOf[b] /\ pc[a] \notin Off /\ pc[b] \notin Off => a = b

Registered ==
  \A a \in Attempt :
    pc[a] \notin (Off \cup {"tell_sent", "tell_failed", "compact"})
      => slot[HostOf[a]] = a

(* What a delivery leaves behind: stray code, scripts that may still run.  *)
StraysRest == \A a \in Attempt : stray[a] # None => pc[a] \in Rest

ScriptsRest ==
  \A a \in Attempt :
    /\ "succeed" \in pending[a] => a \in called
    /\ "claim" \in pending[a] => pending[a] \cap {"invoke", "fail"} = {}
    /\ pending[a] \cap {"claim", "invoke", "fail"} # {}
         => stray[a] = None /\ pc[a] \in Rest

CallersKnown ==
  \A a \in Attempt : pc[a] \in {"calling", "answered"} => a \in called

(* No revert is left to run, or to be answered, after its caller has gone  *)
(* on.                                                                     *)
Answered ==
  \A a \in Attempt : "revert" \notin pending[a] /\ stray[a] # "reverted"

(* A caller stays a caller: it does not come back before the boundary.     *)
CallersMovedOn ==
  \A a \in called : stray[a] = None /\ pc[a] \in After

(* Until the deadline the ledger remembers who is at the boundary and who  *)
(* has called.                                                             *)
NearRecorded ==
  \A a \in Attempt :
    pc[a] \in Near \/ stray[a] \in StrayNear =>
      \/ life = 0 \/ state = "ambiguous"
      \/ state = "provider_invoked" /\ owner = a

CallRecorded ==
  \A a \in called :
    \/ life = 0 \/ state \in {"ambiguous", "succeeded"}
    \/ state = "provider_invoked" /\ owner = a

(* Nobody has called while somebody stands at the boundary, or may still   *)
(* reach it; there is one place at the boundary.                           *)
NearAlone ==
  /\ \A a \in Attempt : pc[a] \in Near => called = {}
  /\ \A a, b \in Attempt : pc[a] \in Near /\ pc[b] \in Near => a = b

NobodyYet == called = {} /\ \A b \in Attempt : pc[b] \notin Near

Reservation ==
  \A a \in Attempt :
    /\ state = "reserved" /\ owner = a
    /\ \/ pc[a] \in Before \/ stray[a] = "invoking"
       \/ pending[a] \cap {"invoke", "fail"} # {}
    => NobodyYet

(* A delivery that has yet to invoke has not invoked.                      *)
NotInvoked ==
  \A a \in Attempt :
    pc[a] \in Before \/ stray[a] = "invoking" \/ "invoke" \in pending[a]
      => ~(state = "provider_invoked" /\ owner = a)

FailedUncalled == state = "failed" => NobodyYet

(* A process is marked only for the sake of somebody at the boundary, or   *)
(* when the operation is settled; never while a handler has yet to cross.  *)
MarkerMeans ==
  \A h \in marker :
    \/ life = 0 \/ state = "ambiguous"
    \/ \E b \in Attempt :
         /\ HostOf[b] = h
         /\ stray[b] = "reverting" \/ (slot[h] = b /\ pc[b] \notin Off)

HeldUnmarked ==
  \A a \in Attempt : pc[a] \in {"held", "refused"} => HostOf[a] \notin marker

(* From the written invocation to the recorded outcome the mark stands.    *)
CallingMarked ==
  \A a \in Attempt :
    pc[a] \in {"reverting", "crossed", "calling", "answered"}
      => HostOf[a] \in marker

(* The stray code beside a working handler can only find its claim gone.   *)
StraysBehind ==
  \A a, b \in Attempt :
    pc[a] \in Working /\ HostOf[a] = HostOf[b] /\ a # b
      => /\ stray[b] \in {None, "invoking"}
         /\ stray[b] = "invoking" => owner # b

Shape ==
  /\ Retained /\ OneHandler /\ Registered
  /\ StraysRest /\ ScriptsRest /\ CallersKnown

Record ==
  /\ NearRecorded /\ CallRecorded /\ NearAlone /\ Reservation
  /\ NotInvoked /\ FailedUncalled /\ AtMostOneCall /\ CallersMovedOn

Marks == MarkerMeans /\ HeldUnmarked /\ CallingMarked /\ StraysBehind

Inv == TypeOK /\ Shape /\ Answered /\ Record /\ Marks

(* For SuccessIsTrue: who has, or has sent off, a confirmation.            *)
Confirmed ==
  /\ \A a \in Attempt :
       pc[a] \in {"answered", "tell_sent"} \/ "succeed" \in pending[a]
         => accepted
  /\ "sent" \in published => accepted
  /\ accepted => called # {}

(* For OneStory: what is told follows the record, and when retention has   *)
(* dropped the record after the deadline nobody can make another one: the  *)
(* only reservation still possible is that of a delivery that is over.     *)
ToldSent == "sent" \in published \/ \E a \in Attempt : pc[a] = "tell_sent"
ToldFailed == "failed" \in published \/ \E a \in Attempt : pc[a] = "tell_failed"

Spent ==
  /\ life = 0
  /\ \/ state = "absent"
     \/ /\ state = "reserved"
        /\ \A a \in Attempt : owner = a =>
             /\ pc[a] \in Rest /\ stray[a] = None
             /\ pending[a] \cap {"invoke", "fail"} = {}

Story ==
  /\ ToldSent => state = "succeeded" \/ Spent
  /\ ToldFailed => state \in {"failed", "ambiguous"} \/ Spent
  /\ ~(ToldSent /\ ToldFailed)

---------------------------------------------------------------------------
(* Every step keeps the types: what is assigned comes from the typed       *)
(* constants and variables.                                                *)
LEMMA TypeStep == TypeOK /\ [Next]_vars => TypeOK'
<1> SUFFICES ASSUME TypeOK, [Next]_vars PROVE TypeOK'
  OBVIOUS
<1> USE LedgerAssumption DEF Stray, TypeOK, State, Terminal, Place, ledger,
      process, world, delivery, Goto, Script, Target
<1>1. ASSUME NEW x \in Attempt, Connect(x) PROVE TypeOK'
  BY <1>1 DEF Connect, MayStart
<1>2. ASSUME NEW x \in Attempt, ClaimAcquired(x) PROVE TypeOK'
  <2>1. compacted' \in BOOLEAN
    BY <1>2 DEF ClaimAcquired, Reserve
  <2>2. /\ state' \in State /\ owner' \in Attempt \cup {None} /\ lease' \in Nat
        /\ age' \in 0 .. RecordTicks /\ source' \in 0 .. MaxConnection
    BY <1>2 DEF ClaimAcquired, Reserve
  <2>3. /\ pc' \in [Attempt -> Place]
        /\ from' \in [Attempt -> 0 .. MaxConnection]
        /\ pending' \in [Attempt -> SUBSET (Script \cup {"claim"})]
        /\ stray' \in [Attempt -> Stray \cup {None}]
        /\ slot' \in [Host -> Attempt \cup {None}] /\ marker' \subseteq Host
    BY <1>2 DEF ClaimAcquired, Reserve
  <2>4. UNCHANGED world
    BY <1>2 DEF ClaimAcquired, Reserve
  <2> QED
    BY <2>1, <2>2, <2>3, <2>4
<1>3. ASSUME NEW x \in Attempt, ClaimLost(x) PROVE TypeOK'
  BY <1>3 DEF ClaimLost, MayStart, Lost
<1>4. ASSUME NEW x \in Attempt, ClaimDuplicate(x) PROVE TypeOK'
  BY <1>4 DEF ClaimDuplicate, MayStart, GiveInvocationUp, Lapsed
<1>5. ASSUME NEW x \in Attempt, Check(x) PROVE TypeOK'
  BY <1>5 DEF Check, Marked
<1>6. ASSUME NEW x \in Attempt, Invoke(x) PROVE TypeOK'
  BY <1>6 DEF Invoke, Run, Made, Repeated, Refused, Lost, Transition, LeaseOf,
     Leave, LeaveIfOver, Unmark
<1>7. ASSUME NEW x \in Attempt, Resume(x) PROVE TypeOK'
  BY <1>7 DEF Resume
<1>8. ASSUME NEW x \in Attempt, Revert(x) PROVE TypeOK'
  BY <1>8 DEF Revert, Marked, Run, Made, Repeated, Refused, Lost, Transition,
     LeaseOf, Leave, LeaveIfOver, Unmark
<1>9. ASSUME NEW x \in Attempt, Reject(x) PROVE TypeOK'
  BY <1>9 DEF Reject, Marked
<1>10. ASSUME NEW x \in Attempt, Fallback(x) PROVE TypeOK'
  BY <1>10 DEF Fallback, Marked
<1>11. ASSUME NEW x \in Attempt, TimeOut(x) PROVE TypeOK'
  BY <1>11 DEF TimeOut, Marked, Leave, LeaveIfOver, Unmark
<1>12. ASSUME NEW x \in Attempt, StrayInvoke(x) PROVE TypeOK'
  BY <1>12 DEF StrayInvoke, Run, Made, Repeated, Refused, Lost, Transition,
     LeaseOf
<1>13. ASSUME NEW x \in Attempt, StrayResume(x) PROVE TypeOK'
  BY <1>13 DEF StrayResume
<1>14. ASSUME NEW x \in Attempt, StrayRevert(x) PROVE TypeOK'
  BY <1>14 DEF StrayRevert, Unmark, Run, Made, Repeated, Refused, Lost,
     Transition, LeaseOf
<1>15. ASSUME NEW x \in Attempt, StrayReverted(x) PROVE TypeOK'
  BY <1>15 DEF StrayReverted, Unmark
<1>16. ASSUME NEW x \in Attempt, Release(x) PROVE TypeOK'
  BY <1>16 DEF Release, Marked, Run, Made, Repeated, Refused, Lost,
     Transition, LeaseOf, Leave, LeaveIfOver, Unmark
<1>17. ASSUME NEW x \in Attempt, Fail(x) PROVE TypeOK'
  BY <1>17 DEF Fail, Marked, Run, Made, Repeated, Refused, Lost, Transition,
     LeaseOf, Leave, LeaveIfOver, Unmark
<1>18. ASSUME NEW x \in Attempt, Misread(x) PROVE TypeOK'
  BY <1>18 DEF Misread, Marked
<1>19. ASSUME NEW x \in Attempt, Start(x) PROVE TypeOK'
  BY <1>19 DEF Start
<1>20. ASSUME NEW x \in Attempt, Answer(x) PROVE TypeOK'
  BY <1>20 DEF Answer, Fallen, Marked
<1>21. ASSUME NEW x \in Attempt, Succeed(x) PROVE TypeOK'
  BY <1>21 DEF Succeed, Fallen, Marked, Run, Made, Repeated, Refused, Lost,
     Transition, LeaseOf
<1>22. ASSUME NEW x \in Attempt, Doubt(x) PROVE TypeOK'
  BY <1>22 DEF Doubt, Run, Made, Repeated, Refused, Lost, Transition, LeaseOf,
     Leave, LeaveIfOver, Unmark
<1>23. ASSUME NEW x \in Attempt, NEW what \in {"tell_sent", "tell_failed"},
             Tell(x, what)
      PROVE  TypeOK'
  BY <1>23 DEF Tell
<1>24. ASSUME NEW x \in Attempt, NEW what \in {"tell_sent", "tell_failed"},
             TellFails(x, what)
      PROVE  TypeOK'
  BY <1>24 DEF TellFails, Leave, Unmark
<1>25. ASSUME NEW x \in Attempt, Compact(x) PROVE TypeOK'
  <2>1. compacted' \in BOOLEAN
    BY <1>25 DEF Compact, Leave, LeaveIfOver, Unmark
  <2>2. /\ state' \in State /\ owner' \in Attempt \cup {None} /\ lease' \in Nat
        /\ age' \in 0 .. RecordTicks /\ source' \in 0 .. MaxConnection
    BY <1>25 DEF Compact, Leave, LeaveIfOver, Unmark
  <2>3. /\ pc' \in [Attempt -> Place]
        /\ from' \in [Attempt -> 0 .. MaxConnection]
        /\ pending' \in [Attempt -> SUBSET (Script \cup {"claim"})]
        /\ stray' \in [Attempt -> Stray \cup {None}]
        /\ slot' \in [Host -> Attempt \cup {None}] /\ marker' \subseteq Host
    BY <1>25 DEF Compact, Leave, LeaveIfOver, Unmark
  <2>4. UNCHANGED world
    BY <1>25 DEF Compact, Leave, LeaveIfOver, Unmark
  <2> QED
    BY <2>1, <2>2, <2>3, <2>4
<1>26. ASSUME NEW x \in Attempt, NEW op \in pending[x],
              LateScript(x, op)
       PROVE  TypeOK'
  <2>1. compacted' \in BOOLEAN
    BY <1>26 DEF LateScript, Reserve, Transition, LeaseOf
  <2>2. /\ state' \in State /\ owner' \in Attempt \cup {None} /\ lease' \in Nat
        /\ age' \in 0 .. RecordTicks /\ source' \in 0 .. MaxConnection
    BY <1>26 DEF LateScript, Reserve, Transition, LeaseOf
  <2>3. /\ pc' \in [Attempt -> Place]
        /\ from' \in [Attempt -> 0 .. MaxConnection]
        /\ pending' \in [Attempt -> SUBSET (Script \cup {"claim"})]
        /\ stray' \in [Attempt -> Stray \cup {None}]
        /\ slot' \in [Host -> Attempt \cup {None}] /\ marker' \subseteq Host
    BY <1>26 DEF LateScript, Reserve, Transition, LeaseOf
  <2>4. UNCHANGED world
    BY <1>26 DEF LateScript, Reserve, Transition, LeaseOf
  <2> QED
    BY <2>1, <2>2, <2>3, <2>4
<1>27. ASSUME Watchdog PROVE TypeOK'
  BY <1>27 DEF Watchdog, GiveInvocationUp, Lapsed
<1>28. ASSUME Accept PROVE TypeOK'
  BY <1>28 DEF Accept
<1>29. ASSUME Reconnect PROVE TypeOK'
  BY <1>29 DEF Reconnect
<1>30. ASSUME NEW h \in Host, Restart(h) PROVE TypeOK'
  BY <1>30 DEF Restart
<1>31. ASSUME Tick PROVE TypeOK'
  BY <1>31 DEF Tick, Less
<1>32. ASSUME Expire PROVE TypeOK'
  BY <1>32 DEF Expire
<1>33. CASE UNCHANGED vars
  BY <1>33 DEF vars
<1> QED
  BY <1>1, <1>2, <1>3, <1>4, <1>5, <1>6, <1>7, <1>8, <1>9, <1>10, <1>11,
     <1>12, <1>13, <1>14, <1>15, <1>16, <1>17, <1>18, <1>19, <1>20, <1>21,
     <1>22, <1>23, <1>24, <1>25, <1>26, <1>27, <1>28, <1>29, <1>30, <1>31,
     <1>32, <1>33 DEF Next, Deliver

(* A script is left to run later only if its reply can be lost.            *)
LEMMA AnsweredStep ==
  "revert" \notin Lossy /\ TypeOK /\ Answered /\ [Next]_vars => Answered'
<1> SUFFICES ASSUME "revert" \notin Lossy, TypeOK, Answered, [Next]_vars,
                    NEW a \in Attempt
             PROVE  "revert" \notin pending'[a] /\ stray'[a] # "reverted"
  BY DEF Answered
<1> DEFINE Done == "revert" \notin pending'[a] /\ stray'[a] # "reverted"
<1> USE LedgerAssumption DEF TypeOK, Answered, Stray
<1>1. ASSUME NEW x \in Attempt, NEW op \in Script \cup {"claim"}, Lost(x, op)
      PROVE  "revert" \notin pending'[a]
  BY <1>1 DEF Lost
<1>2. ASSUME NEW x \in Attempt, NEW op \in pending[x], LateScript(x, op)
      PROVE  Done
  BY <1>2 DEF LateScript
<1>3. ASSUME UNCHANGED pending, UNCHANGED stray PROVE Done
  BY <1>3
<1>4. ASSUME NEW x \in Attempt, NEW op \in Script, NEW good, NEW bad,
             Run(x, op, good, bad), UNCHANGED stray
      PROVE  Done
  BY <1>1, <1>4 DEF Run, Made, Repeated, Refused
<1>5. ASSUME NEW x \in Attempt,
             Invoke(x) \/ Revert(x) \/ Release(x) \/ Fail(x) \/ Succeed(x)
             \/ Doubt(x)
      PROVE  Done
  BY <1>4, <1>5 DEF Invoke, Revert, Release, Fail, Succeed, Doubt, Script
<1>6. ASSUME NEW x \in Attempt, ClaimLost(x) PROVE Done
  BY <1>1, <1>6 DEF ClaimLost
<1>7. ASSUME NEW x \in Attempt, TimeOut(x) PROVE Done
  BY <1>7 DEF TimeOut
<1>8. ASSUME NEW x \in Attempt, StrayInvoke(x) PROVE Done
  <2>1. UNCHANGED pending \/ Lost(x, "invoke")
    BY <1>8 DEF StrayInvoke, Made, Refused
  <2>2. "revert" \notin pending'[a]
    BY <1>1, <2>1 DEF Script
  <2>3. stray'[a] # "reverted"
    BY <1>8 DEF StrayInvoke
  <2> QED
    BY <2>2, <2>3
<1>9. ASSUME NEW x \in Attempt, StrayRevert(x) PROVE Done
  <2>1. /\ UNCHANGED pending
        /\ stray' = [stray EXCEPT ![x] = None]
    BY <1>9 DEF StrayRevert, Made, Refused, Lost
  <2> QED
    BY <2>1
<1>10. ASSUME NEW x \in Attempt, StrayResume(x) \/ StrayReverted(x)
       PROVE  Done
  BY <1>10 DEF StrayResume, StrayReverted
<1>11. ASSUME NEW h \in Host, Restart(h) PROVE Done
  BY <1>11 DEF Restart
<1>12. ASSUME NEW x \in Attempt, NEW what, Tell(x, what) \/ TellFails(x, what)
       PROVE  Done
  BY <1>3, <1>12 DEF Tell, TellFails, delivery
<1> QED
  BY <1>2, <1>3, <1>5, <1>6, <1>7, <1>8, <1>9, <1>10, <1>11, <1>12
     DEF Next, Deliver, vars, delivery, Connect, ClaimAcquired,
     ClaimDuplicate, Check, Resume, Reject, Fallback, Misread, Start, Answer,
     Compact, Watchdog, Accept, Reconnect, Tick, Expire

(* Who is where, and what may still be on its way to Redis.                *)
LEMMA ShapeStep == TypeOK /\ Shape /\ [Next]_vars => Shape'
<1> SUFFICES ASSUME TypeOK, Shape, [Next]_vars PROVE Shape'
  OBVIOUS
<1> USE LedgerAssumption DEF Stray, TypeOK, State, Terminal, Place, ledger,
      process, world, delivery, Goto, Shape, Retained, OneHandler, Registered,
          StraysRest, ScriptsRest, CallersKnown, Off, Rest, After, Near,
              StrayNear
<1>1. ASSUME NEW x \in Attempt, Connect(x) PROVE Shape'
  BY <1>1 DEF Connect, MayStart
<1>2. ASSUME NEW x \in Attempt, ClaimAcquired(x) PROVE Shape'
  BY <1>2 DEF ClaimAcquired, MayStart, Reserve, Claimable
<1>3. ASSUME NEW x \in Attempt, ClaimLost(x) PROVE Shape'
  BY <1>3 DEF ClaimLost, MayStart, Lost
<1>4. ASSUME NEW x \in Attempt, ClaimDuplicate(x) PROVE Shape'
  BY <1>4 DEF ClaimDuplicate, MayStart, GiveInvocationUp, Lapsed
<1>5. ASSUME NEW x \in Attempt, Check(x) PROVE Shape'
  BY <1>5 DEF Check, Marked
<1>6. ASSUME NEW x \in Attempt, Invoke(x) PROVE Shape'
  BY <1>6 DEF Invoke, Run, Made, Repeated, Refused, Lost, Transition,
     Permitted, Source, Target, LeaseOf, Script, Leave, LeaveIfOver, Unmark
<1>7. ASSUME NEW x \in Attempt, Resume(x) PROVE Shape'
  BY <1>7 DEF Resume
<1>8. ASSUME NEW x \in Attempt, Revert(x) PROVE Shape'
  BY <1>8 DEF Revert, Marked, Run, Made, Repeated, Refused, Lost, Transition,
     Permitted, Source, Target, LeaseOf, Script, Leave, LeaveIfOver, Unmark
<1>9. ASSUME NEW x \in Attempt, Reject(x) PROVE Shape'
  BY <1>9 DEF Reject, Marked
<1>10. ASSUME NEW x \in Attempt, Fallback(x) PROVE Shape'
  BY <1>10 DEF Fallback, Marked
<1>11. ASSUME NEW x \in Attempt, TimeOut(x) PROVE Shape'
  BY <1>11 DEF TimeOut, Marked, Leave, LeaveIfOver, Unmark
<1>12. ASSUME NEW x \in Attempt, StrayInvoke(x) PROVE Shape'
  BY <1>12 DEF StrayInvoke, Run, Made, Repeated, Refused, Lost, Transition,
     Permitted, Source, Target, LeaseOf, Script
<1>13. ASSUME NEW x \in Attempt, StrayResume(x) PROVE Shape'
  BY <1>13 DEF StrayResume
<1>14. ASSUME NEW x \in Attempt, StrayRevert(x) PROVE Shape'
  BY <1>14 DEF StrayRevert, Unmark, Run, Made, Repeated, Refused, Lost,
     Transition, Permitted, Source, Target, LeaseOf, Script
<1>15. ASSUME NEW x \in Attempt, StrayReverted(x) PROVE Shape'
  BY <1>15 DEF StrayReverted, Unmark
<1>16. ASSUME NEW x \in Attempt, Release(x) PROVE Shape'
  BY <1>16 DEF Release, Marked, Run, Made, Repeated, Refused, Lost, Transition,
      Permitted, Source, Target, LeaseOf, Script, Leave, LeaveIfOver, Unmark
<1>17. ASSUME NEW x \in Attempt, Fail(x) PROVE Shape'
  BY <1>17 DEF Fail, Marked, Run, Made, Repeated, Refused, Lost, Transition,
     Permitted, Source, Target, LeaseOf, Script, Leave, LeaveIfOver, Unmark
<1>18. ASSUME NEW x \in Attempt, Misread(x) PROVE Shape'
  BY <1>18 DEF Misread, Marked
<1>19. ASSUME NEW x \in Attempt, Start(x) PROVE Shape'
  BY <1>19 DEF Start
<1>20. ASSUME NEW x \in Attempt, Answer(x) PROVE Shape'
  BY <1>20 DEF Answer, Fallen, Marked
<1>21. ASSUME NEW x \in Attempt, Succeed(x) PROVE Shape'
  BY <1>21 DEF Succeed, Fallen, Marked, Run, Made, Repeated, Refused, Lost,
     Transition, Permitted, Source, Target, LeaseOf, Script
<1>22. ASSUME NEW x \in Attempt, Doubt(x) PROVE Shape'
  BY <1>22 DEF Doubt, Run, Made, Repeated, Refused, Lost, Transition,
     Permitted, Source, Target, LeaseOf, Script, Leave, LeaveIfOver, Unmark
<1>23. ASSUME NEW x \in Attempt, NEW what \in {"tell_sent", "tell_failed"},
             Tell(x, what)
      PROVE  Shape'
  BY <1>23 DEF Tell
<1>24. ASSUME NEW x \in Attempt, NEW what \in {"tell_sent", "tell_failed"},
             TellFails(x, what)
      PROVE  Shape'
  BY <1>24 DEF TellFails, Leave, Unmark
<1>25. ASSUME NEW x \in Attempt, Compact(x) PROVE Shape'
  BY <1>25 DEF Compact, Leave, LeaveIfOver, Unmark
<1>26. ASSUME NEW x \in Attempt, NEW op \in pending[x],
              LateScript(x, op)
       PROVE  Shape'
  BY <1>26 DEF LateScript, Reserve, Claimable, Transition, Permitted, Source,
      Target, LeaseOf, Script
<1>27. ASSUME Watchdog PROVE Shape'
  BY <1>27 DEF Watchdog, GiveInvocationUp, Lapsed
<1>28. ASSUME Accept PROVE Shape'
  BY <1>28 DEF Accept
<1>29. ASSUME Reconnect PROVE Shape'
  BY <1>29 DEF Reconnect
<1>30. ASSUME NEW h \in Host, Restart(h) PROVE Shape'
  BY <1>30 DEF Restart
<1>31. ASSUME Tick PROVE Shape'
  BY <1>31 DEF Tick, Less
<1>32. ASSUME Expire PROVE Shape'
  BY <1>32 DEF Expire
<1>33. CASE UNCHANGED vars
  BY <1>33 DEF vars
<1> QED
  BY <1>1, <1>2, <1>3, <1>4, <1>5, <1>6, <1>7, <1>8, <1>9, <1>10, <1>11,
     <1>12, <1>13, <1>14, <1>15, <1>16, <1>17, <1>18, <1>19, <1>20, <1>21,
     <1>22, <1>23, <1>24, <1>25, <1>26, <1>27, <1>28, <1>29, <1>30, <1>31,
     <1>32, <1>33 DEF Next, Deliver

(* The ledger's account of the boundary.  Crossing needs an unmarked       *)
(* process (Marks) and a reservation nobody has called under.              *)
LEMMA RecordStep ==
  TypeOK /\ Shape /\ Answered /\ Record /\ Marks /\ [Next]_vars => Record'
<1> SUFFICES ASSUME TypeOK, Shape, Answered, Record, Marks, [Next]_vars
             PROVE  Record'
  OBVIOUS
<1> USE LedgerAssumption DEF Answered, Stray, TypeOK, State, Terminal, Place,
   ledger, process, world, delivery, Goto, Shape, Retained, OneHandler,
   Registered, StraysRest, ScriptsRest, CallersKnown, Record, NearRecorded,
   CallRecorded, NearAlone, Reservation, NotInvoked, CallersMovedOn,
   CallingMarked, StraysBehind, Before, Working, FailedUncalled,
   AtMostOneCall, Marks, HeldUnmarked, NobodyYet, Off, Rest, After, Near,
   StrayNear
<1>1. ASSUME NEW x \in Attempt, Connect(x) PROVE Record'
  BY <1>1 DEF Connect, MayStart
<1>2. ASSUME NEW x \in Attempt, ClaimAcquired(x) PROVE Record'
  BY <1>2 DEF ClaimAcquired, MayStart, Reserve, Claimable
<1>3. ASSUME NEW x \in Attempt, ClaimLost(x) PROVE Record'
  BY <1>3 DEF ClaimLost, MayStart, Lost
<1>4. ASSUME NEW x \in Attempt, ClaimDuplicate(x) PROVE Record'
  BY <1>4 DEF ClaimDuplicate, MayStart, GiveInvocationUp, Lapsed
<1>5. ASSUME NEW x \in Attempt, Check(x) PROVE Record'
  BY <1>5 DEF Check, Marked
<1>6. ASSUME NEW x \in Attempt, Invoke(x) PROVE Record'
  BY <1>6 DEF Invoke, Run, Made, Repeated, Refused, Lost, Transition,
     Permitted, Source, Target, LeaseOf, Script, Leave, LeaveIfOver, Unmark
<1>7. ASSUME NEW x \in Attempt, Resume(x) PROVE Record'
  BY <1>7 DEF Resume
<1>8. ASSUME NEW x \in Attempt, Revert(x) PROVE Record'
  BY <1>8 DEF Revert, Marked, Run, Made, Repeated, Refused, Lost, Transition,
     Permitted, Source, Target, LeaseOf, Script, Leave, LeaveIfOver, Unmark
<1>9. ASSUME NEW x \in Attempt, Reject(x) PROVE Record'
  BY <1>9 DEF Reject, Marked
<1>10. ASSUME NEW x \in Attempt, Fallback(x) PROVE Record'
  BY <1>10 DEF Fallback, Marked
<1>11. ASSUME NEW x \in Attempt, TimeOut(x) PROVE Record'
  BY <1>11 DEF TimeOut, Marked, Leave, LeaveIfOver, Unmark
<1>12. ASSUME NEW x \in Attempt, StrayInvoke(x) PROVE Record'
  BY <1>12 DEF StrayInvoke, Run, Made, Repeated, Refused, Lost, Transition,
     Permitted, Source, Target, LeaseOf, Script
<1>13. ASSUME NEW x \in Attempt, StrayResume(x) PROVE Record'
  BY <1>13 DEF StrayResume
<1>14. ASSUME NEW x \in Attempt, StrayRevert(x) PROVE Record'
  BY <1>14 DEF StrayRevert, Unmark, Run, Made, Repeated, Refused, Lost,
     Transition, Permitted, Source, Target, LeaseOf, Script
<1>15. ASSUME NEW x \in Attempt, StrayReverted(x) PROVE Record'
  BY <1>15 DEF StrayReverted, Unmark
<1>16. ASSUME NEW x \in Attempt, Release(x) PROVE Record'
  BY <1>16 DEF Release, Marked, Run, Made, Repeated, Refused, Lost, Transition,
      Permitted, Source, Target, LeaseOf, Script, Leave, LeaveIfOver, Unmark
<1>17. ASSUME NEW x \in Attempt, Fail(x) PROVE Record'
  BY <1>17 DEF Fail, Marked, Run, Made, Repeated, Refused, Lost, Transition,
     Permitted, Source, Target, LeaseOf, Script, Leave, LeaveIfOver, Unmark
<1>18. ASSUME NEW x \in Attempt, Misread(x) PROVE Record'
  BY <1>18 DEF Misread, Marked
<1>19. ASSUME NEW x \in Attempt, Start(x) PROVE Record'
  BY <1>19 DEF Start
<1>20. ASSUME NEW x \in Attempt, Answer(x) PROVE Record'
  BY <1>20 DEF Answer, Fallen, Marked
<1>21. ASSUME NEW x \in Attempt, Succeed(x) PROVE Record'
  BY <1>21 DEF Succeed, Fallen, Marked, Run, Made, Repeated, Refused, Lost,
     Transition, Permitted, Source, Target, LeaseOf, Script
<1>22. ASSUME NEW x \in Attempt, Doubt(x) PROVE Record'
  BY <1>22 DEF Doubt, Run, Made, Repeated, Refused, Lost, Transition,
     Permitted, Source, Target, LeaseOf, Script, Leave, LeaveIfOver, Unmark
<1>23. ASSUME NEW x \in Attempt, NEW what \in {"tell_sent", "tell_failed"},
             Tell(x, what)
      PROVE  Record'
  BY <1>23 DEF Tell
<1>24. ASSUME NEW x \in Attempt, NEW what \in {"tell_sent", "tell_failed"},
             TellFails(x, what)
      PROVE  Record'
  BY <1>24 DEF TellFails, Leave, Unmark
<1>25. ASSUME NEW x \in Attempt, Compact(x) PROVE Record'
  BY <1>25 DEF Compact, Leave, LeaveIfOver, Unmark
<1>26. ASSUME NEW x \in Attempt, NEW op \in pending[x],
              LateScript(x, op)
       PROVE  Record'
  BY <1>26 DEF LateScript, Reserve, Claimable, Transition, Permitted, Source,
      Target, LeaseOf, Script
<1>27. ASSUME Watchdog PROVE Record'
  BY <1>27 DEF Watchdog, GiveInvocationUp, Lapsed
<1>28. ASSUME Accept PROVE Record'
  BY <1>28 DEF Accept
<1>29. ASSUME Reconnect PROVE Record'
  BY <1>29 DEF Reconnect
<1>30. ASSUME NEW h \in Host, Restart(h) PROVE Record'
  BY <1>30 DEF Restart
<1>31. ASSUME Tick PROVE Record'
  BY <1>31 DEF Tick, Less
<1>32. ASSUME Expire PROVE Record'
  BY <1>32 DEF Expire
<1>33. CASE UNCHANGED vars
  BY <1>33 DEF vars
<1> QED
  BY <1>1, <1>2, <1>3, <1>4, <1>5, <1>6, <1>7, <1>8, <1>9, <1>10, <1>11,
     <1>12, <1>13, <1>14, <1>15, <1>16, <1>17, <1>18, <1>19, <1>20, <1>21,
     <1>22, <1>23, <1>24, <1>25, <1>26, <1>27, <1>28, <1>29, <1>30, <1>31,
     <1>32, <1>33 DEF Next, Deliver

(* A marker outlives its reason only when the operation is settled: this   *)
(* is where a lost revert is fatal, as it reopens the operation and leaves *)
(* the marker behind.                                                      *)
LEMMA MarksStep ==
  TypeOK /\ Shape /\ Answered /\ Record /\ Marks /\ [Next]_vars /\ Answered'
    => Marks'
<1> SUFFICES ASSUME TypeOK, Shape, Answered, Record, Marks, [Next]_vars,
                    Answered'
             PROVE  Marks'
  OBVIOUS
<1> USE LedgerAssumption DEF Answered, Stray, TypeOK, State, Terminal, Place,
   ledger, process, world, delivery, Goto, Shape, Retained, OneHandler,
   Registered, StraysRest, ScriptsRest, CallersKnown, Record, NearRecorded,
   Marks, MarkerMeans, HeldUnmarked, CallingMarked, StraysBehind,
   CallersMovedOn, Before, Working, Off, Rest, After, Near, StrayNear
<1>1. ASSUME NEW x \in Attempt, Connect(x) PROVE Marks'
  BY <1>1 DEF Connect, MayStart
<1>2. ASSUME NEW x \in Attempt, ClaimAcquired(x) PROVE Marks'
  BY <1>2 DEF ClaimAcquired, MayStart, Reserve, Claimable
<1>3. ASSUME NEW x \in Attempt, ClaimLost(x) PROVE Marks'
  BY <1>3 DEF ClaimLost, MayStart, Lost
<1>4. ASSUME NEW x \in Attempt, ClaimDuplicate(x) PROVE Marks'
  BY <1>4 DEF ClaimDuplicate, MayStart, GiveInvocationUp, Lapsed
<1>5. ASSUME NEW x \in Attempt, Check(x) PROVE Marks'
  BY <1>5 DEF Check, Marked
<1>6. ASSUME NEW x \in Attempt, Invoke(x) PROVE Marks'
  BY <1>6 DEF Invoke, Run, Made, Repeated, Refused, Lost, Transition,
     Permitted, Source, Target, LeaseOf, Script, Leave, LeaveIfOver, Unmark
<1>7. ASSUME NEW x \in Attempt, Resume(x) PROVE Marks'
  BY <1>7 DEF Resume
<1>8. ASSUME NEW x \in Attempt, Revert(x) PROVE Marks'
  BY <1>8 DEF Revert, Marked, Run, Made, Repeated, Refused, Lost, Transition,
     Permitted, Source, Target, LeaseOf, Script, Leave, LeaveIfOver, Unmark
<1>9. ASSUME NEW x \in Attempt, Reject(x) PROVE Marks'
  BY <1>9 DEF Reject, Marked
<1>10. ASSUME NEW x \in Attempt, Fallback(x) PROVE Marks'
  BY <1>10 DEF Fallback, Marked
<1>11. ASSUME NEW x \in Attempt, TimeOut(x) PROVE Marks'
  BY <1>11 DEF TimeOut, Marked, Leave, LeaveIfOver, Unmark
<1>12. ASSUME NEW x \in Attempt, StrayInvoke(x) PROVE Marks'
  BY <1>12 DEF StrayInvoke, Run, Made, Repeated, Refused, Lost, Transition,
     Permitted, Source, Target, LeaseOf, Script
<1>13. ASSUME NEW x \in Attempt, StrayResume(x) PROVE Marks'
  BY <1>13 DEF StrayResume
<1>14. ASSUME NEW x \in Attempt, StrayRevert(x) PROVE Marks'
  BY <1>14 DEF StrayRevert, Unmark, Run, Made, Repeated, Refused, Lost,
     Transition, Permitted, Source, Target, LeaseOf, Script
<1>15. ASSUME NEW x \in Attempt, StrayReverted(x) PROVE Marks'
  BY <1>15 DEF StrayReverted, Unmark
<1>16. ASSUME NEW x \in Attempt, Release(x) PROVE Marks'
  BY <1>16 DEF Release, Marked, Run, Made, Repeated, Refused, Lost, Transition,
      Permitted, Source, Target, LeaseOf, Script, Leave, LeaveIfOver, Unmark
<1>17. ASSUME NEW x \in Attempt, Fail(x) PROVE Marks'
  BY <1>17 DEF Fail, Marked, Run, Made, Repeated, Refused, Lost, Transition,
     Permitted, Source, Target, LeaseOf, Script, Leave, LeaveIfOver, Unmark
<1>18. ASSUME NEW x \in Attempt, Misread(x) PROVE Marks'
  BY <1>18 DEF Misread, Marked
<1>19. ASSUME NEW x \in Attempt, Start(x) PROVE Marks'
  BY <1>19 DEF Start
<1>20. ASSUME NEW x \in Attempt, Answer(x) PROVE Marks'
  BY <1>20 DEF Answer, Fallen, Marked
<1>21. ASSUME NEW x \in Attempt, Succeed(x) PROVE Marks'
  BY <1>21 DEF Succeed, Fallen, Marked, Run, Made, Repeated, Refused, Lost,
     Transition, Permitted, Source, Target, LeaseOf, Script
<1>22. ASSUME NEW x \in Attempt, Doubt(x) PROVE Marks'
  BY <1>22 DEF Doubt, Run, Made, Repeated, Refused, Lost, Transition,
     Permitted, Source, Target, LeaseOf, Script, Leave, LeaveIfOver, Unmark
<1>23. ASSUME NEW x \in Attempt, NEW what \in {"tell_sent", "tell_failed"},
             Tell(x, what)
      PROVE  Marks'
  BY <1>23 DEF Tell
<1>24. ASSUME NEW x \in Attempt, NEW what \in {"tell_sent", "tell_failed"},
             TellFails(x, what)
      PROVE  Marks'
  BY <1>24 DEF TellFails, Leave, Unmark
<1>25. ASSUME NEW x \in Attempt, Compact(x) PROVE Marks'
  BY <1>25 DEF Compact, Leave, LeaveIfOver, Unmark
<1>26. ASSUME NEW x \in Attempt, NEW op \in pending[x],
              LateScript(x, op)
       PROVE  Marks'
  BY <1>26 DEF LateScript, Reserve, Claimable, Transition, Permitted, Source,
      Target, LeaseOf, Script
<1>27. ASSUME Watchdog PROVE Marks'
  BY <1>27 DEF Watchdog, GiveInvocationUp, Lapsed
<1>28. ASSUME Accept PROVE Marks'
  BY <1>28 DEF Accept
<1>29. ASSUME Reconnect PROVE Marks'
  BY <1>29 DEF Reconnect
<1>30. ASSUME NEW h \in Host, Restart(h) PROVE Marks'
  BY <1>30 DEF Restart
<1>31. ASSUME Tick PROVE Marks'
  BY <1>31 DEF Tick, Less
<1>32. ASSUME Expire PROVE Marks'
  BY <1>32 DEF Expire
<1>33. CASE UNCHANGED vars
  BY <1>33 DEF vars
<1> QED
  BY <1>1, <1>2, <1>3, <1>4, <1>5, <1>6, <1>7, <1>8, <1>9, <1>10, <1>11,
     <1>12, <1>13, <1>14, <1>15, <1>16, <1>17, <1>18, <1>19, <1>20, <1>21,
     <1>22, <1>23, <1>24, <1>25, <1>26, <1>27, <1>28, <1>29, <1>30, <1>31,
     <1>32, <1>33 DEF Next, Deliver

---------------------------------------------------------------------------
(* What a step can do to the record, and to the deadline.                  *)
Moves ==
  \/ UNCHANGED ledger
  \/ GiveInvocationUp
  \/ \E a \in Attempt : Reserve(a)
  \/ \E a \in Attempt, op \in Script : Transition(a, op)
  \/ state' = state /\ age' = age

(* Every step but the clock's and the expiry's is one of these moves, and  *)
(* leaves the deadline where it is.                                        *)
LEMMA LedgerMoves ==
  TypeOK /\ [Next]_vars => \/ UNCHANGED life /\ Moves
                           \/ Tick
                           \/ Expire
<1> SUFFICES ASSUME TypeOK, [Next]_vars, ~Tick, ~Expire
             PROVE  UNCHANGED life /\ Moves
  OBVIOUS
<1>1. ASSUME NEW a \in Attempt,
             Connect(a) \/ ClaimLost(a) \/ Check(a) \/ Resume(a) \/ Reject(a)
             \/ Fallback(a) \/ TimeOut(a) \/ StrayResume(a)
             \/ StrayReverted(a) \/ Misread(a) \/ Start(a) \/ Answer(a)
             \/ \E what \in {"tell_sent", "tell_failed"} :
                  Tell(a, what) \/ TellFails(a, what)
      PROVE  UNCHANGED life /\ Moves
  BY <1>1 DEF Connect, ClaimLost, Lost, Check, Resume, Reject, Fallback,
     TimeOut, StrayResume, StrayReverted, Misread, Start, Answer, Tell,
     TellFails, Moves, world
<1>2. ASSUME NEW a \in Attempt, NEW op \in Script, NEW good, NEW bad,
             Run(a, op, good, bad), UNCHANGED world
      PROVE  UNCHANGED life /\ Moves
  BY <1>2 DEF Run, Made, Repeated, Refused, Lost, Moves, world
<1>3. ASSUME NEW a \in Attempt,
             Invoke(a) \/ Revert(a) \/ Release(a) \/ Fail(a) \/ Succeed(a)
             \/ Doubt(a)
      PROVE  UNCHANGED life /\ Moves
  BY <1>2, <1>3 DEF Invoke, Revert, Release, Fail, Succeed, Doubt, Script
<1>4. ASSUME NEW a \in Attempt, StrayInvoke(a) \/ StrayRevert(a)
      PROVE  UNCHANGED life /\ Moves
  BY <1>4 DEF StrayInvoke, StrayRevert, Made, Repeated, Refused, Lost, Moves,
     world, Script
<1>5. ASSUME NEW a \in Attempt,
             ClaimAcquired(a) \/ ClaimDuplicate(a) \/ Compact(a)
      PROVE  UNCHANGED life /\ Moves
  BY <1>5 DEF ClaimAcquired, ClaimDuplicate, Compact, Moves, world, ledger
<1>6. ASSUME NEW a \in Attempt, NEW op \in pending[a], LateScript(a, op)
      PROVE  UNCHANGED life /\ Moves
  BY <1>6 DEF LateScript, Moves, world, TypeOK
<1>7. ASSUME NEW h \in Host, Restart(h) PROVE UNCHANGED life /\ Moves
  BY <1>7 DEF Restart, Moves, world
<1>8. CASE Watchdog \/ Accept \/ Reconnect
  BY <1>8 DEF Watchdog, Accept, Reconnect, Moves, world
<1>9. CASE UNCHANGED vars
  BY <1>9 DEF vars, Moves, world
<1> QED
  BY <1>1, <1>3, <1>4, <1>5, <1>6, <1>7, <1>8, <1>9 DEF Next, Deliver

(* The record of an operation is kept at least until its deadline.         *)
LEMMA RetainedStep == TypeOK /\ Retained /\ [Next]_vars => Retained'
<1> SUFFICES ASSUME TypeOK, Retained, [Next]_vars PROVE Retained'
  OBVIOUS
<1> USE LedgerAssumption DEF TypeOK, Retained
<1>1. CASE UNCHANGED life /\ Moves
  BY <1>1 DEF Moves, ledger, GiveInvocationUp, Lapsed, Reserve, Transition,
     Permitted, Source, Script
<1>2. CASE Tick
  BY <1>2 DEF Tick, Less
<1>3. CASE Expire
  BY <1>3 DEF Expire
<1> QED
  BY <1>1, <1>2, <1>3, LedgerMoves

(* Only the expiry of the record takes an outcome away, and only after the *)
(* deadline.                                                               *)
LEMMA FinalStep ==
  TypeOK /\ Retained /\ [Next]_vars /\ state' # state /\ state \in Terminal
    => state' = "absent" /\ life = 0
<1> SUFFICES ASSUME TypeOK, Retained, [Next]_vars, state' # state,
                    state \in Terminal
             PROVE  state' = "absent" /\ life = 0
  OBVIOUS
<1>1. ~Moves
  BY DEF Moves, ledger, GiveInvocationUp, Lapsed, Reserve, Claimable,
     Transition, Permitted, Source, Script, Terminal
<1>2. Expire
  BY <1>1, LedgerMoves DEF Tick
<1> QED
  BY <1>2, LedgerAssumption DEF Expire, TypeOK, Retained

(* What has been told agrees with the record, or with its having expired.   *)
LEMMA StoryStep == TypeOK /\ Shape /\ Story /\ [Next]_vars => Story'
<1> SUFFICES ASSUME TypeOK, Shape, Story, [Next]_vars PROVE Story'
  OBVIOUS
<1> USE LedgerAssumption DEF Stray, TypeOK, State, Terminal, Place, ledger,
      process, world, delivery, Goto, Shape, Retained, StraysRest, ScriptsRest,
      Story, ToldSent, ToldFailed, Spent, Rest, After, Near, StrayNear
<1>1. ASSUME NEW x \in Attempt, Connect(x) PROVE Story'
  BY <1>1 DEF Connect, MayStart
<1>2. ASSUME NEW x \in Attempt, ClaimAcquired(x) PROVE Story'
  BY <1>2 DEF ClaimAcquired, MayStart, Reserve, Claimable
<1>3. ASSUME NEW x \in Attempt, ClaimLost(x) PROVE Story'
  BY <1>3 DEF ClaimLost, MayStart, Lost
<1>4. ASSUME NEW x \in Attempt, ClaimDuplicate(x) PROVE Story'
  BY <1>4 DEF ClaimDuplicate, MayStart, GiveInvocationUp, Lapsed
<1>5. ASSUME NEW x \in Attempt, Check(x) PROVE Story'
  BY <1>5 DEF Check, Marked
<1>6. ASSUME NEW x \in Attempt, Invoke(x) PROVE Story'
  BY <1>6 DEF Invoke, Run, Made, Repeated, Refused, Lost, Transition,
     Permitted, Source, Target, LeaseOf, Script, Leave, LeaveIfOver, Unmark
<1>7. ASSUME NEW x \in Attempt, Resume(x) PROVE Story'
  BY <1>7 DEF Resume
<1>8. ASSUME NEW x \in Attempt, Revert(x) PROVE Story'
  BY <1>8 DEF Revert, Marked, Run, Made, Repeated, Refused, Lost, Transition,
     Permitted, Source, Target, LeaseOf, Script, Leave, LeaveIfOver, Unmark
<1>9. ASSUME NEW x \in Attempt, Reject(x) PROVE Story'
  BY <1>9 DEF Reject, Marked
<1>10. ASSUME NEW x \in Attempt, Fallback(x) PROVE Story'
  BY <1>10 DEF Fallback, Marked
<1>11. ASSUME NEW x \in Attempt, TimeOut(x) PROVE Story'
  BY <1>11 DEF TimeOut, Marked, Leave, LeaveIfOver, Unmark
<1>12. ASSUME NEW x \in Attempt, StrayInvoke(x) PROVE Story'
  BY <1>12 DEF StrayInvoke, Run, Made, Repeated, Refused, Lost, Transition,
     Permitted, Source, Target, LeaseOf, Script
<1>13. ASSUME NEW x \in Attempt, StrayResume(x) PROVE Story'
  BY <1>13 DEF StrayResume
<1>14. ASSUME NEW x \in Attempt, StrayRevert(x) PROVE Story'
  BY <1>14 DEF StrayRevert, Unmark, Run, Made, Repeated, Refused, Lost,
     Transition, Permitted, Source, Target, LeaseOf, Script
<1>15. ASSUME NEW x \in Attempt, StrayReverted(x) PROVE Story'
  BY <1>15 DEF StrayReverted, Unmark
<1>16. ASSUME NEW x \in Attempt, Release(x) PROVE Story'
  BY <1>16 DEF Release, Marked, Run, Made, Repeated, Refused, Lost, Transition,
      Permitted, Source, Target, LeaseOf, Script, Leave, LeaveIfOver, Unmark
<1>17. ASSUME NEW x \in Attempt, Fail(x) PROVE Story'
  BY <1>17 DEF Fail, Marked, Run, Made, Repeated, Refused, Lost, Transition,
     Permitted, Source, Target, LeaseOf, Script, Leave, LeaveIfOver, Unmark
<1>18. ASSUME NEW x \in Attempt, Misread(x) PROVE Story'
  BY <1>18 DEF Misread, Marked
<1>19. ASSUME NEW x \in Attempt, Start(x) PROVE Story'
  BY <1>19 DEF Start
<1>20. ASSUME NEW x \in Attempt, Answer(x) PROVE Story'
  BY <1>20 DEF Answer, Fallen, Marked
<1>21. ASSUME NEW x \in Attempt, Succeed(x) PROVE Story'
  BY <1>21 DEF Succeed, Fallen, Marked, Run, Made, Repeated, Refused, Lost,
     Transition, Permitted, Source, Target, LeaseOf, Script
<1>22. ASSUME NEW x \in Attempt, Doubt(x) PROVE Story'
  BY <1>22 DEF Doubt, Run, Made, Repeated, Refused, Lost, Transition,
     Permitted, Source, Target, LeaseOf, Script, Leave, LeaveIfOver, Unmark
<1>23. ASSUME NEW x \in Attempt, NEW what \in {"tell_sent", "tell_failed"},
             Tell(x, what)
      PROVE  Story'
  BY <1>23 DEF Tell
<1>24. ASSUME NEW x \in Attempt, NEW what \in {"tell_sent", "tell_failed"},
             TellFails(x, what)
      PROVE  Story'
  BY <1>24 DEF TellFails, Leave, Unmark
<1>25. ASSUME NEW x \in Attempt, Compact(x) PROVE Story'
  BY <1>25 DEF Compact, Leave, LeaveIfOver, Unmark
<1>26. ASSUME NEW x \in Attempt, NEW op \in pending[x],
              LateScript(x, op)
       PROVE  Story'
  BY <1>26 DEF LateScript, Reserve, Claimable, Transition, Permitted, Source,
      Target, LeaseOf, Script
<1>27. ASSUME Watchdog PROVE Story'
  BY <1>27 DEF Watchdog, GiveInvocationUp, Lapsed
<1>28. ASSUME Accept PROVE Story'
  BY <1>28 DEF Accept
<1>29. ASSUME Reconnect PROVE Story'
  BY <1>29 DEF Reconnect
<1>30. ASSUME NEW h \in Host, Restart(h) PROVE Story'
  BY <1>30 DEF Restart
<1>31. ASSUME Tick PROVE Story'
  BY <1>31 DEF Tick, Less
<1>32. ASSUME Expire PROVE Story'
  BY <1>32 DEF Expire
<1>33. CASE UNCHANGED vars
  BY <1>33 DEF vars
<1> QED
  BY <1>1, <1>2, <1>3, <1>4, <1>5, <1>6, <1>7, <1>8, <1>9, <1>10, <1>11,
     <1>12, <1>13, <1>14, <1>15, <1>16, <1>17, <1>18, <1>19, <1>20, <1>21,
     <1>22, <1>23, <1>24, <1>25, <1>26, <1>27, <1>28, <1>29, <1>30, <1>31,
     <1>32, <1>33 DEF Next, Deliver

(* A confirmation is only ever the provider's.                             *)
LEMMA ConfirmedStep ==
  TypeOK /\ Confirmed /\ SuccessIsTrue /\ [Next]_vars
    => (Confirmed /\ SuccessIsTrue)'
<1> DEFINE True == Confirmed /\ SuccessIsTrue
<1> SUFFICES ASSUME TypeOK, Confirmed, SuccessIsTrue, [Next]_vars PROVE True'
  OBVIOUS
<1> USE LedgerAssumption DEF TypeOK, State, Terminal, Place, ledger, process,
      world, delivery, Goto, Confirmed, SuccessIsTrue
<1>1. ASSUME NEW x \in Attempt, Connect(x) PROVE True'
  BY <1>1 DEF Connect, MayStart
<1>2. ASSUME NEW x \in Attempt, ClaimAcquired(x) PROVE True'
  BY <1>2 DEF ClaimAcquired, MayStart, Reserve, Claimable
<1>3. ASSUME NEW x \in Attempt, ClaimLost(x) PROVE True'
  BY <1>3 DEF ClaimLost, MayStart, Lost
<1>4. ASSUME NEW x \in Attempt, ClaimDuplicate(x) PROVE True'
  BY <1>4 DEF ClaimDuplicate, MayStart, GiveInvocationUp, Lapsed
<1>5. ASSUME NEW x \in Attempt, Check(x) PROVE True'
  BY <1>5 DEF Check, Marked
<1>6. ASSUME NEW x \in Attempt, Invoke(x) PROVE True'
  BY <1>6 DEF Invoke, Run, Made, Repeated, Refused, Lost, Transition,
     Permitted, Source, Target, LeaseOf, Script, Leave, LeaveIfOver, Unmark
<1>7. ASSUME NEW x \in Attempt, Resume(x) PROVE True'
  BY <1>7 DEF Resume
<1>8. ASSUME NEW x \in Attempt, Revert(x) PROVE True'
  BY <1>8 DEF Revert, Marked, Run, Made, Repeated, Refused, Lost, Transition,
     Permitted, Source, Target, LeaseOf, Script, Leave, LeaveIfOver, Unmark
<1>9. ASSUME NEW x \in Attempt, Reject(x) PROVE True'
  BY <1>9 DEF Reject, Marked
<1>10. ASSUME NEW x \in Attempt, Fallback(x) PROVE True'
  BY <1>10 DEF Fallback, Marked
<1>11. ASSUME NEW x \in Attempt, TimeOut(x) PROVE True'
  BY <1>11 DEF TimeOut, Marked, Leave, LeaveIfOver, Unmark
<1>12. ASSUME NEW x \in Attempt, StrayInvoke(x) PROVE True'
  BY <1>12 DEF StrayInvoke, Run, Made, Repeated, Refused, Lost, Transition,
     Permitted, Source, Target, LeaseOf, Script
<1>13. ASSUME NEW x \in Attempt, StrayResume(x) PROVE True'
  BY <1>13 DEF StrayResume
<1>14. ASSUME NEW x \in Attempt, StrayRevert(x) PROVE True'
  BY <1>14 DEF StrayRevert, Unmark, Run, Made, Repeated, Refused, Lost,
     Transition, Permitted, Source, Target, LeaseOf, Script
<1>15. ASSUME NEW x \in Attempt, StrayReverted(x) PROVE True'
  BY <1>15 DEF StrayReverted, Unmark
<1>16. ASSUME NEW x \in Attempt, Release(x) PROVE True'
  BY <1>16 DEF Release, Marked, Run, Made, Repeated, Refused, Lost, Transition,
      Permitted, Source, Target, LeaseOf, Script, Leave, LeaveIfOver, Unmark
<1>17. ASSUME NEW x \in Attempt, Fail(x) PROVE True'
  BY <1>17 DEF Fail, Marked, Run, Made, Repeated, Refused, Lost, Transition,
     Permitted, Source, Target, LeaseOf, Script, Leave, LeaveIfOver, Unmark
<1>18. ASSUME NEW x \in Attempt, Misread(x) PROVE True'
  BY <1>18 DEF Misread, Marked
<1>19. ASSUME NEW x \in Attempt, Start(x) PROVE True'
  BY <1>19 DEF Start
<1>20. ASSUME NEW x \in Attempt, Answer(x) PROVE True'
  BY <1>20 DEF Answer, Fallen, Marked
<1>21. ASSUME NEW x \in Attempt, Succeed(x) PROVE True'
  BY <1>21 DEF Succeed, Fallen, Marked, Run, Made, Repeated, Refused, Lost,
     Transition, Permitted, Source, Target, LeaseOf, Script
<1>22. ASSUME NEW x \in Attempt, Doubt(x) PROVE True'
  BY <1>22 DEF Doubt, Run, Made, Repeated, Refused, Lost, Transition,
     Permitted, Source, Target, LeaseOf, Script, Leave, LeaveIfOver, Unmark
<1>23. ASSUME NEW x \in Attempt, NEW what \in {"tell_sent", "tell_failed"},
             Tell(x, what)
      PROVE  True'
  BY <1>23 DEF Tell
<1>24. ASSUME NEW x \in Attempt, NEW what \in {"tell_sent", "tell_failed"},
             TellFails(x, what)
      PROVE  True'
  BY <1>24 DEF TellFails, Leave, Unmark
<1>25. ASSUME NEW x \in Attempt, Compact(x) PROVE True'
  BY <1>25 DEF Compact, Leave, LeaveIfOver, Unmark
<1>26. ASSUME NEW x \in Attempt, NEW op \in pending[x],
              LateScript(x, op)
       PROVE  True'
  BY <1>26 DEF LateScript, Reserve, Claimable, Transition, Permitted, Source,
      Target, LeaseOf, Script
<1>27. ASSUME Watchdog PROVE True'
  BY <1>27 DEF Watchdog, GiveInvocationUp, Lapsed
<1>28. ASSUME Accept PROVE True'
  BY <1>28 DEF Accept
<1>29. ASSUME Reconnect PROVE True'
  BY <1>29 DEF Reconnect
<1>30. ASSUME NEW h \in Host, Restart(h) PROVE True'
  BY <1>30 DEF Restart
<1>31. ASSUME Tick PROVE True'
  BY <1>31 DEF Tick, Less
<1>32. ASSUME Expire PROVE True'
  BY <1>32 DEF Expire
<1>33. CASE UNCHANGED vars
  BY <1>33 DEF vars
<1> QED
  BY <1>1, <1>2, <1>3, <1>4, <1>5, <1>6, <1>7, <1>8, <1>9, <1>10, <1>11,
     <1>12, <1>13, <1>14, <1>15, <1>16, <1>17, <1>18, <1>19, <1>20, <1>21,
     <1>22, <1>23, <1>24, <1>25, <1>26, <1>27, <1>28, <1>29, <1>30, <1>31,
     <1>32, <1>33 DEF Next, Deliver

(* Every step is a step of the abstract one-shot send, or none.            *)
LEMMA OneShotStep ==
  Inv /\ Story /\ Confirmed /\ SuccessIsTrue /\ [Next]_vars
    => [OneShot!Next]_OneShot!vars
<1> DEFINE Simulated == [OneShot!Next]_OneShot!vars
<1> SUFFICES ASSUME Inv, Story, Confirmed, SuccessIsTrue, [Next]_vars
             PROVE  Simulated
  OBVIOUS
<1>1. ASSUME UNCHANGED <<called, accepted, Verdict, life, published>>
      PROVE  Simulated
  BY <1>1 DEF OneShot!vars
<1>2. ASSUME NEW v \in Terminal, OneShot!Decide(v) PROVE Simulated
  BY <1>2 DEF OneShot!Next, Terminal
<1>3. state = "provider_invoked" => published = {}
  BY DEF Story, ToldSent, ToldFailed, Spent, Inv, TypeOK
<1>4. ASSUME Lapsed, state' = "ambiguous", UNCHANGED world PROVE Simulated
  <2>1. OneShot!Decide("ambiguous")
    BY <1>3, <1>4 DEF OneShot!Decide, Lapsed, Verdict, Terminal, world
  <2> QED
    BY <1>2, <2>1 DEF Terminal
<1>5. ASSUME NEW a \in Attempt, NEW op \in Script, Transition(a, op),
             UNCHANGED world,
             op = "succeed" => accepted,
             op = "fail" => called = {} /\ published = {}
      PROVE  Simulated
  <2>1. CASE op \in {"invoke", "revert", "release"}
    <3>1. UNCHANGED Verdict
      BY <1>5, <2>1 DEF Transition, Permitted, Source, Target, Script, Verdict,
         Terminal
    <3> QED
      BY <1>1, <1>5, <3>1 DEF world
  <2>2. CASE op \in {"succeed", "fail", "doubt"}
    <3>1. state \notin Terminal /\ state' = Target[op] /\ published = {}
      BY <1>3, <1>5, <2>2 DEF Transition, Permitted, Source, Script, Terminal
    <3>2. OneShot!Decide(Target[op]) /\ Target[op] \in Terminal
      BY <1>5, <2>2, <3>1 DEF OneShot!Decide, Target, Script, Verdict,
         Terminal, world
    <3> QED
      BY <1>2, <3>2
  <2> QED
    BY <2>1, <2>2 DEF Script
<1>6. ASSUME NEW a \in Attempt, Reserve(a), UNCHANGED world PROVE Simulated
  <2>1. UNCHANGED Verdict
    BY <1>6 DEF Reserve, Claimable, Verdict, Terminal
  <2> QED
    BY <1>1, <1>6, <2>1 DEF world
<1>7. ASSUME UNCHANGED <<state, world>> PROVE Simulated
  BY <1>1, <1>7 DEF Verdict, world
<1>8. ASSUME NEW a \in Attempt, NEW op \in Script, NEW good, NEW bad,
             Run(a, op, good, bad), UNCHANGED world,
             op = "succeed" => accepted,
             op = "fail" /\ Permitted(a, op) => called = {} /\ published = {}
      PROVE  Simulated
  BY <1>5, <1>7, <1>8 DEF Run, Made, Repeated, Refused, Lost, Transition,
     ledger
<1>9. ASSUME NEW a \in Attempt, Permitted(a, "fail"),
             pc[a] = "held" \/ "fail" \in pending[a]
      PROVE  called = {} /\ published = {}
  <2>1. called = {}
    BY <1>9 DEF Inv, Record, Reservation, NobodyYet, Before, Permitted, Source,
       Script
  <2>2. state = "reserved" /\ ~Spent
    BY <1>9 DEF Permitted, Source, Script, Spent, Rest
  <2>3. published = {}
    BY <2>2 DEF Story, ToldSent, ToldFailed, Inv, TypeOK
  <2> QED
    BY <2>1, <2>3
<1>10. ASSUME NEW a \in Attempt,
              Connect(a) \/ ClaimLost(a) \/ Check(a) \/ Resume(a)
              \/ Reject(a) \/ Fallback(a) \/ TimeOut(a) \/ StrayResume(a)
              \/ StrayReverted(a) \/ Misread(a) \/ Answer(a) \/ Compact(a)
       PROVE  Simulated
  BY <1>7, <1>10 DEF Connect, ClaimLost, Lost, Check, Resume, Reject,
     Fallback, TimeOut, StrayResume, StrayReverted, Misread, Answer, Compact,
     ledger
<1>11. ASSUME NEW a \in Attempt,
              Invoke(a) \/ Revert(a) \/ Release(a) \/ Doubt(a)
       PROVE  Simulated
  BY <1>8, <1>11 DEF Invoke, Revert, Release, Doubt, Script
<1>12. ASSUME NEW a \in Attempt, Succeed(a) PROVE Simulated
  BY <1>8, <1>12 DEF Succeed, Script, Confirmed
<1>13. ASSUME NEW a \in Attempt, Fail(a) PROVE Simulated
  BY <1>8, <1>9, <1>13 DEF Fail, Script
<1>14. ASSUME NEW a \in Attempt, StrayInvoke(a) \/ StrayRevert(a)
       PROVE  Simulated
  BY <1>5, <1>7, <1>14 DEF StrayInvoke, StrayRevert, Made, Repeated, Refused,
     Lost, ledger, Script
<1>15. ASSUME NEW a \in Attempt, ClaimAcquired(a) \/ ClaimDuplicate(a)
       PROVE  Simulated
  BY <1>4, <1>6, <1>7, <1>15 DEF ClaimAcquired, ClaimDuplicate,
     GiveInvocationUp, ledger
<1>16. ASSUME NEW a \in Attempt, NEW op \in pending[a], LateScript(a, op)
       PROVE  Simulated
  <2>1. CASE op # "claim" /\ Transition(a, op)
    <3>1. op \in Script /\ UNCHANGED world
      BY <1>16, <2>1 DEF LateScript, Inv, TypeOK
    <3>2. op = "succeed" => accepted
      BY DEF Confirmed
    <3>3. op = "fail" => called = {} /\ published = {}
      BY <1>9, <2>1 DEF Transition
    <3> QED
      BY <1>5, <2>1, <3>1, <3>2, <3>3
  <2> QED
    BY <1>6, <1>7, <1>16, <2>1 DEF LateScript, ledger
<1>17. ASSUME NEW a \in Attempt, Start(a) PROVE Simulated
  <2>1. called = {} /\ state \notin {"failed", "succeeded"}
    BY <1>17 DEF Start, Inv, Record, NearAlone, FailedUncalled, NobodyYet,
       Near, Confirmed, SuccessIsTrue
  <2>2. OneShot!Call
    BY <1>17, <2>1 DEF Start, OneShot!Call, Verdict, Terminal, ledger
  <2> QED
    BY <2>2 DEF OneShot!Next
<1>18. ASSUME NEW a \in Attempt, pc[a] = "tell_sent",
              published' = published \cup {"sent"},
              UNCHANGED <<ledger, conn, life, called, accepted>>
       PROVE  Simulated
  <2>1. /\ accepted /\ published \subseteq {"sent"}
        /\ state = "succeeded" \/ Spent
    BY <1>18 DEF Confirmed, Story, ToldSent, ToldFailed, Inv, TypeOK
  <2>2. OneShot!Say("sent")
    BY <1>18, <2>1 DEF OneShot!Say, Verdict, Terminal, Spent, ledger
  <2> QED
    BY <2>2 DEF OneShot!Next
<1>19. ASSUME NEW a \in Attempt, pc[a] = "tell_failed",
              published' = published \cup {"failed"},
              UNCHANGED <<ledger, conn, life, called, accepted>>
       PROVE  Simulated
  <2>1. /\ published \subseteq {"failed"}
        /\ state \in {"failed", "ambiguous"} \/ Spent
    BY <1>19 DEF Story, ToldSent, ToldFailed, Inv, TypeOK
  <2>2. OneShot!Say("failed")
    BY <1>19, <2>1 DEF OneShot!Say, Verdict, Terminal, Spent, ledger
  <2> QED
    BY <2>2 DEF OneShot!Next
<1>20. CASE Accept
  <2>1. OneShot!Take
    BY <1>20 DEF Accept, OneShot!Take, Verdict, ledger
  <2> QED
    BY <2>1 DEF OneShot!Next
<1>21. CASE Tick
  <2>1. UNCHANGED <<called, accepted, Verdict, published>>
    BY <1>21 DEF Tick, Verdict
  <2>2. life = 0 => life' = 0
    BY <1>21 DEF Tick, Less
  <2>3. CASE (life = 0) = (life = 0)'
    BY <2>1, <2>3 DEF OneShot!vars
  <2>4. CASE life # 0 /\ life' = 0
    BY <2>1, <2>4 DEF OneShot!Next, OneShot!Deadline
  <2> QED
    BY <2>2, <2>3, <2>4
<1>22. CASE Expire
  <2>1. life = 0
    BY <1>22, LedgerAssumption DEF Expire, Inv, TypeOK, Shape, Retained
  <2>2. /\ UNCHANGED <<called, accepted, life, published>>
        /\ Verdict' = "none"
    BY <1>22 DEF Expire, Verdict, Terminal, world
  <2>3. CASE Verdict = "none"
    BY <1>1, <2>2, <2>3
  <2>4. CASE Verdict # "none"
    BY <2>1, <2>2, <2>4 DEF OneShot!Next, OneShot!Forget
  <2> QED
    BY <2>3, <2>4
<1>23. CASE Watchdog
  BY <1>4, <1>23 DEF Watchdog, GiveInvocationUp
<1>24. CASE Reconnect
  BY <1>1, <1>24 DEF Reconnect, ledger, Verdict
<1>25. ASSUME NEW h \in Host, Restart(h) PROVE Simulated
  BY <1>7, <1>25 DEF Restart, ledger
<1>26. CASE UNCHANGED vars
  BY <1>7, <1>26 DEF vars, ledger
<1>27. ASSUME NEW a \in Attempt, NEW what \in {"tell_sent", "tell_failed"},
              Tell(a, what) \/ TellFails(a, what)
       PROVE  Simulated
  <2>1. UNCHANGED published => Simulated
    BY <1>7, <1>27 DEF Tell, TellFails, ledger, world
  <2>2. CASE what = "tell_sent"
    BY <1>18, <1>27, <2>1, <2>2 DEF Tell, TellFails
  <2>3. CASE what = "tell_failed"
    BY <1>19, <1>27, <2>1, <2>3 DEF Tell, TellFails
  <2> QED
    BY <2>2, <2>3
<1> QED
  BY <1>10, <1>11, <1>12, <1>13, <1>14, <1>15, <1>16, <1>17, <1>20, <1>21,
     <1>22, <1>23, <1>24, <1>25, <1>26, <1>27 DEF Next, Deliver

(* The invariant holds before anything has been delivered.                 *)
LEMMA InitInv == Init => Inv
<1> SUFFICES ASSUME Init PROVE Inv
  OBVIOUS
<1> USE LedgerAssumption DEF Init
<1>1. TypeOK
  <2>1. compacted \in BOOLEAN /\ accepted \in BOOLEAN
    OBVIOUS
  <2>2. /\ state \in State /\ owner \in Attempt \cup {None} /\ lease \in Nat
        /\ age \in 0 .. RecordTicks /\ source \in 0 .. MaxConnection
        /\ conn \in 0 .. MaxConnection /\ life \in 0 .. CommandTicks
    BY DEF State
  <2> QED
    BY <2>1, <2>2 DEF TypeOK, Place
<1>2. Shape /\ Answered
  BY DEF Shape, Answered, Retained, OneHandler, Registered, StraysRest,
     ScriptsRest, CallersKnown, Off, Stray
<1>3. Record /\ Marks
  BY DEF Record, NearRecorded, CallRecorded, NearAlone, Reservation,
     NotInvoked, FailedUncalled, AtMostOneCall, CallersMovedOn, Marks,
     MarkerMeans, HeldUnmarked, CallingMarked, StraysBehind, Before, Working,
     Near, Stray, StrayNear
<1> QED
  BY <1>1, <1>2, <1>3 DEF Inv

(* The variables keep their types, whatever replies are lost.              *)
THEOREM LedgerTypeCorrect == Spec => []TypeOK
<1>1. Init => TypeOK
  BY InitInv DEF Inv
<1> QED
  BY <1>1, TypeStep, PTL DEF Spec

(* The inductive invariant, on which the next three theorems rest.         *)
THEOREM LedgerInvariant == ASSUME "revert" \notin Lossy PROVE Spec => []Inv
<1>1. Inv /\ [Next]_vars => Inv'
  BY TypeStep, ShapeStep, AnsweredStep, RecordStep, MarksStep DEF Inv
<1> QED
  BY InitInv, <1>1, PTL DEF Spec

(* However many deliveries and processes take the operation up, and        *)
(* whatever replies but the revert's are lost, the SDK is called once.     *)
THEOREM LedgerAtMostOneCall ==
  ASSUME "revert" \notin Lossy PROVE Spec => []AtMostOneCall
<1>1. Inv => AtMostOneCall
  BY DEF Inv, Record
<1> QED
  BY <1>1, LedgerInvariant, PTL

(* "failed" stays true: nobody has called, and nobody will.                *)
THEOREM LedgerFailureIsTrue ==
  ASSUME "revert" \notin Lossy PROVE Spec => []FailureIsTrue
<1>1. Inv => FailureIsTrue
  BY DEF Inv, Record, FailedUncalled, NobodyYet, FailureIsTrue
<1> QED
  BY <1>1, LedgerInvariant, PTL

(* Before the deadline no call starts without provider_invoked written.    *)
THEOREM LedgerCallIsRecorded ==
  ASSUME "revert" \notin Lossy PROVE Spec => CallIsRecorded
<1> DEFINE Rec == called' # called =>
                  \/ state = "provider_invoked" \/ state = "ambiguous"
                  \/ life = 0
<1>1. Inv /\ [Next]_vars => [Rec]_vars
  <2> SUFFICES ASSUME Inv, Next, called' # called
               PROVE  state = "provider_invoked" \/ state = "ambiguous"
                      \/ life = 0
    OBVIOUS
  <2>1. PICK x \in Attempt : Start(x)
    BY DEF Next, Deliver, Connect, ClaimAcquired, ClaimLost, ClaimDuplicate,
       Check, Invoke, Resume, Revert, Reject, Fallback, TimeOut, StrayInvoke,
       StrayResume, StrayRevert, StrayReverted, Release, Fail, Misread,
       Answer, Succeed, Doubt, Tell, TellFails, Compact, LateScript, Watchdog,
       Accept, Reconnect, Restart, Tick, Expire, world
  <2> QED
    BY <2>1 DEF Inv, Record, NearRecorded, Near, Start
<1> QED
  BY <1>1, LedgerInvariant, PTL DEF Spec, CallIsRecorded

(* A recorded outcome is never overwritten, whatever replies are lost.     *)
THEOREM LedgerOutcomeIsFinal == Spec => OutcomeIsFinal
<1>1. Init => TypeOK /\ Retained
  BY InitInv DEF Inv, Shape
<1>2. TypeOK /\ Retained /\ [Next]_vars => (TypeOK /\ Retained)'
  BY TypeStep, RetainedStep
<1> DEFINE Kept == state' # state => \/ state \notin Terminal
                                     \/ state' = "absent" /\ life = 0
<1>3. TypeOK /\ Retained /\ [Next]_vars => [Kept]_vars
  BY FinalStep
<1> QED
  BY <1>1, <1>2, <1>3, PTL DEF Spec, OutcomeIsFinal

(* The user never hears both that the message was sent and that it failed, *)
(* whatever replies are lost.                                              *)
THEOREM LedgerOneStory == Spec => []OneStory
<1>1. Init => TypeOK /\ Shape /\ Story
  BY InitInv DEF Inv, Init, Story, ToldSent, ToldFailed
<1>2. TypeOK /\ Shape /\ Story /\ [Next]_vars => (TypeOK /\ Shape /\ Story)'
  BY TypeStep, ShapeStep, StoryStep
<1>3. Story => OneStory
  BY DEF Story, ToldSent, ToldFailed, OneStory
<1> QED
  BY <1>1, <1>2, <1>3, PTL DEF Spec

(* "succeeded" is recorded only if the provider took the message, whatever *)
(* replies are lost.                                                       *)
THEOREM LedgerSuccessIsTrue == Spec => []SuccessIsTrue
<1>1. Init => TypeOK /\ Confirmed /\ SuccessIsTrue
  BY InitInv DEF Inv, Init, Confirmed, SuccessIsTrue
<1>2. TypeOK /\ Confirmed /\ SuccessIsTrue /\ [Next]_vars
        => (TypeOK /\ Confirmed /\ SuccessIsTrue)'
  BY TypeStep, ConfirmedStep
<1> QED
  BY <1>1, <1>2, PTL DEF Spec

(* The ledger implements the one-shot send.                                *)
THEOREM LedgerSendsOnce ==
  ASSUME "revert" \notin Lossy PROVE Spec => SendsOnce
<1> DEFINE Strong == Inv /\ Story /\ Confirmed /\ SuccessIsTrue
<1>1. Init => Strong /\ OneShot!Init
  <2> SUFFICES ASSUME Init PROVE Strong /\ OneShot!Init
    OBVIOUS
  <2>1. Inv
    BY InitInv
  <2>2. Story /\ Confirmed /\ SuccessIsTrue
    BY DEF Init, Story, ToldSent, ToldFailed, Confirmed, SuccessIsTrue
  <2>3. OneShot!Init
    BY DEF Init, OneShot!Init, Verdict, Terminal
  <2> QED
    BY <2>1, <2>2, <2>3
<1>2. Strong /\ [Next]_vars => Strong'
  BY TypeStep, ShapeStep, AnsweredStep, RecordStep, MarksStep, StoryStep,
     ConfirmedStep DEF Inv
<1>3. Strong /\ [Next]_vars => [OneShot!Next]_OneShot!vars
  BY OneShotStep
<1> QED
  BY <1>1, <1>2, <1>3, PTL DEF Spec, SendsOnce, OneShot!Spec
=============================================================================
