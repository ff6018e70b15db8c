--------------------- MODULE OperationalBarrier_proofs ---------------------
(***************************************************************************)
(* Proofs about OperationalBarrier, for any number of jobs and operators   *)
(* and whatever replies are lost.                                          *)
(***************************************************************************)
EXTENDS OperationalBarrier, TLAPS

(* A job at work that was not told to stop holds a permit for the rest of  *)
(* a lease that began when its timer last fired, however late that was.    *)
Covered ==
  \A j \in Job :
    pc[j] = "running" /\ ~Told(j) => permits[j] >= LeaseTicks - since[j]

(* A script of a job at work that runs late is a renewal; one that could   *)
(* take a permit away runs late only when its job is over.                 *)
LateWhenOver ==
  \A j \in Job :
    /\ pending[j] \in {"acquire", "release"} => pc[j] = "over"
    /\ pending[j] = "renew" =>
         pc[j] \in {"ending", "over"} \/ (pc[j] = "running" /\ Told(j))

(* What an operator has seen drained is a pause.                           *)
SawPause ==
  \A o \in Operator :
    drained[o] <= generation /\ (drained[o] = generation => state = "paused")

(* Tokens are of pauses up to now; the token of the standing pause is with *)
(* the operator who owns it and with nobody else.                          *)
TokensHeld ==
  /\ state = "paused" => token = generation
  /\ \A o \in Operator : \A t \in tokens[o] : t <= generation
  /\ \A o, p \in Operator :
       owns[o] # 0 /\ generation \in tokens[p] => p = o

Inv == TypeOK /\ Covered /\ LateWhenOver /\ SawPause /\ TokensHeld
              /\ DrainSparesOnlyLapsed /\ PauseHolds

---------------------------------------------------------------------------
(* The variables keep their types.                                         *)
LEMMA TypeStep == TypeOK /\ [Next]_vars => TypeOK'
<1> SUFFICES ASSUME TypeOK, [Next]_vars PROVE TypeOK'
  OBVIOUS
<1> USE BarrierAssumption DEF TypeOK, hash, jobs, operators
<1>1. ASSUME NEW j \in Job, JobStep(j) PROVE TypeOK'
  BY <1>1 DEF JobStep, Acquire, AcquireLost, TimerFires, Renew, RenewLost,
              Abort, Settle, Release, ReleaseLost, Crash, LateScript
<1>2. ASSUME NEW o \in Operator, ReadStatus(o) PROVE TypeOK'
  BY <1>2 DEF ReadStatus
<1>3. ASSUME NEW o \in Operator, Pause(o) \/ PauseLost(o) PROVE TypeOK'
  BY <1>3 DEF Pause, PauseLost, PauseWrites, PauseAllowed
<1>4. ASSUME NEW o \in Operator, NEW t \in 1 .. MaxGeneration, Resume(o, t)
      PROVE TypeOK'
  BY <1>4 DEF Resume
<1>5. CASE Tick
  BY <1>5 DEF Tick, Down
<1>6. CASE UNCHANGED vars
  BY <1>6 DEF vars
<1>7. QED
  BY <1>1, <1>2, <1>3, <1>4, <1>5, <1>6 DEF Next, OperatorStep

(* No step of a job, an operator or the clock uncovers a job at work.      *)
LEMMA CoveredStep ==
  ASSUME TypeOK, LateWhenOver, Covered, [Next]_vars
  PROVE  Covered' /\ LateWhenOver'
<1> USE BarrierAssumption
    DEF TypeOK, Covered, LateWhenOver, Told, hash, jobs, operators
<1>1. ASSUME NEW j \in Job, Acquire(j) \/ AcquireLost(j)
      PROVE Covered' /\ LateWhenOver'
  BY <1>1 DEF Acquire, AcquireLost
<1>2. ASSUME NEW j \in Job, Renew(j) \/ RenewLost(j) \/ Abort(j)
      PROVE Covered' /\ LateWhenOver'
  BY <1>2 DEF TimerFires, Renew, RenewLost, Abort
<1>3. ASSUME NEW j \in Job,
             Settle(j) \/ Release(j) \/ ReleaseLost(j) \/ Crash(j)
      PROVE Covered' /\ LateWhenOver'
  <2>1. CASE Settle(j)
    BY <2>1 DEF Settle
  <2>2. CASE Release(j) \/ ReleaseLost(j)
    BY <2>2 DEF Release, ReleaseLost
  <2>3. CASE Crash(j)
    BY <2>3 DEF Crash
  <2>4. QED
    BY <1>3, <2>1, <2>2, <2>3
<1>4. ASSUME NEW j \in Job, LateScript(j) PROVE Covered' /\ LateWhenOver'
  BY <1>4 DEF LateScript
<1>5. ASSUME NEW o \in Operator, OperatorStep(o)
      PROVE Covered' /\ LateWhenOver'
  BY <1>5 DEF OperatorStep, ReadStatus, Pause, PauseLost, Resume
<1>6. CASE Tick
  BY <1>6 DEF Tick, Down
<1>7. CASE UNCHANGED vars
  BY <1>7 DEF vars
<1>8. QED
  BY <1>1, <1>2, <1>3, <1>4, <1>5, <1>6, <1>7 DEF Next, JobStep

(* What an operator could not see is told to stop, is about to be, or has  *)
(* not had its timer fire for a whole lease and no permit to find then.    *)
LEMMA DrainStep ==
  ASSUME TypeOK, Covered, LateWhenOver, SawPause, DrainSparesOnlyLapsed, [Next]_vars
  PROVE  SawPause' /\ DrainSparesOnlyLapsed'
<1> USE BarrierAssumption
    DEF TypeOK, SawPause, DrainSparesOnlyLapsed, SawDrained, Told, Stalled,
        hash, jobs, operators
<1>1. ASSUME NEW j \in Job, Acquire(j) PROVE DrainSparesOnlyLapsed'
  BY <1>1 DEF Acquire, Granting
<1>2. ASSUME NEW j \in Job, JobStep(j), ~Acquire(j)
      PROVE DrainSparesOnlyLapsed'
  <2>1. CASE Renew(j) \/ RenewLost(j) \/ Abort(j)
    BY <2>1 DEF TimerFires, Renew, RenewLost, Abort, Lapsed
  <2>2. CASE LateScript(j)
    BY <2>2 DEF LateScript, LateWhenOver
  <2>3. CASE AcquireLost(j) \/ Settle(j) \/ Release(j) \/ ReleaseLost(j)
             \/ Crash(j)
    BY <2>3 DEF AcquireLost, Settle, Release, ReleaseLost, Crash
  <2>4. QED
    BY <1>2, <2>1, <2>2, <2>3 DEF JobStep
<1>3. ASSUME NEW j \in Job, JobStep(j) PROVE SawPause'
  BY <1>3 DEF JobStep, Acquire, AcquireLost, TimerFires, Renew, RenewLost,
              Abort, Settle, Release, ReleaseLost, Crash, LateScript
<1>4. ASSUME NEW o \in Operator, ReadStatus(o)
      PROVE SawPause' /\ DrainSparesOnlyLapsed'
  <2>1. CASE state = "paused" /\ NoPermit
    <3>1. \A j \in Job : pc[j] = "running" => Told(j) \/ Stalled(j)
      BY <2>1 DEF Covered, NoPermit
    <3>2. QED
      BY <1>4, <2>1, <3>1 DEF ReadStatus
  <2>2. CASE ~(state = "paused" /\ NoPermit)
    BY <1>4, <2>2 DEF ReadStatus
  <2>3. QED
    BY <2>1, <2>2
<1>5. ASSUME NEW o \in Operator, Pause(o) \/ PauseLost(o)
      PROVE SawPause' /\ DrainSparesOnlyLapsed'
  BY <1>5 DEF Pause, PauseLost, PauseWrites
<1>6. ASSUME NEW o \in Operator, NEW t \in 1 .. MaxGeneration, Resume(o, t)
      PROVE SawPause' /\ DrainSparesOnlyLapsed'
  BY <1>6 DEF Resume
<1>7. CASE Tick
  BY <1>7 DEF Tick, Down
<1>8. CASE UNCHANGED vars
  BY <1>8 DEF vars
<1>9. QED
  BY <1>1, <1>2, <1>3, <1>4, <1>5, <1>6, <1>7, <1>8 DEF Next, OperatorStep

(* Only its owner ends a pause.                                            *)
LEMMA PauseStep ==
  ASSUME TypeOK, TokensHeld, PauseHolds, [Next]_vars
  PROVE  TokensHeld' /\ PauseHolds'
<1> USE BarrierAssumption
    DEF TypeOK, TokensHeld, PauseHolds, hash, jobs, operators
<1>1. ASSUME NEW j \in Job, JobStep(j) PROVE TokensHeld' /\ PauseHolds'
  BY <1>1 DEF JobStep, Acquire, AcquireLost, TimerFires, Renew, RenewLost,
              Abort, Settle, Release, ReleaseLost, Crash, LateScript
<1>2. ASSUME NEW o \in Operator, ReadStatus(o)
      PROVE TokensHeld' /\ PauseHolds'
  BY <1>2 DEF ReadStatus
<1>3. ASSUME NEW o \in Operator, Pause(o) PROVE TokensHeld' /\ PauseHolds'
  <2>1. \A p \in Operator : owns[p] = 0
    BY <1>3 DEF Pause, PauseWrites, PauseAllowed
  <2>2. \A p \in Operator : generation + 1 \notin tokens[p]
    OBVIOUS
  <2>3. QED
    BY <1>3, <2>1, <2>2 DEF Pause, PauseWrites
<1>4. ASSUME NEW o \in Operator, PauseLost(o)
      PROVE TokensHeld' /\ PauseHolds'
  <2>1. \A p \in Operator : owns[p] = 0
    BY <1>4 DEF PauseLost, PauseWrites, PauseAllowed
  <2>2. QED
    BY <1>4, <2>1 DEF PauseLost, PauseWrites
<1>5. ASSUME NEW o \in Operator, NEW t \in 1 .. MaxGeneration, Resume(o, t)
      PROVE TokensHeld' /\ PauseHolds'
  <2>1. generation \in tokens[o]
    BY <1>5 DEF Resume, TokenMatches
  <2>2. \A p \in Operator : p # o => owns[p] = 0
    BY <2>1
  <2>3. QED
    BY <1>5, <2>2 DEF Resume
<1>6. CASE Tick
  BY <1>6 DEF Tick
<1>7. CASE UNCHANGED vars
  BY <1>7 DEF vars
<1>8. QED
  BY <1>1, <1>2, <1>3, <1>4, <1>5, <1>6, <1>7 DEF Next, OperatorStep

---------------------------------------------------------------------------
(* The invariant holds at the start and in every step.                     *)
LEMMA Invariance == Spec => []Inv
<1>1. Init => Inv
  BY BarrierAssumption
  DEF Init, Inv, TypeOK, Covered, LateWhenOver, SawPause, TokensHeld,
      DrainSparesOnlyLapsed, SawDrained, PauseHolds
<1>2. Inv /\ [Next]_vars => Inv'
  BY TypeStep, CoveredStep, DrainStep, PauseStep DEF Inv
<1>3. QED
  BY <1>1, <1>2, PTL DEF Spec

(* The variables of the gate, the jobs and the operators keep their types. *)
THEOREM BarrierTypeCorrect == Spec => []TypeOK
BY Invariance, PTL DEF Inv

(* After an operator has seen the gate paused and empty, whatever is still *)
(* at work is told to stop, or its timer is a whole lease late and finds   *)
(* no permit when it fires: for any delay of the timers and any lost reply.*)
THEOREM BarrierDrains == Spec => []DrainSparesOnlyLapsed
BY Invariance, PTL DEF Inv

(* A pause stands until the operator it belongs to resumes.                *)
THEOREM BarrierHolds == Spec => []PauseHolds
BY Invariance, PTL DEF Inv
=============================================================================
