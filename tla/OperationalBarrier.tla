------------------------- MODULE OperationalBarrier -------------------------
(***************************************************************************)
(* WorkerCommandOperationalBarrierService: the global gate operators close *)
(* before they touch the command plane.  Two Redis keys: the state hash    *)
(* (active or paused, a generation, the digest of the resume token) and    *)
(* the sorted set of permits, scored with the end of their lease.  A       *)
(* protected job (an admission, a relay, a reconciler pass) runs inside    *)
(* runWithPermit: it acquires a permit, renews it while it works, and      *)
(* releases it.  An operator pauses, reads the status until no permit is   *)
(* left, does what the pause was for, and resumes with the token.          *)
(*                                                                         *)
(* Each Lua script is one action.  A caller waits 3 s for a reply; a       *)
(* script whose caller gave up (Lossy) may still run, until the job sends  *)
(* its next one on the same connection, or never.  A permit that has       *)
(* lapsed is the same as none: every script prunes before it reads.        *)
(*                                                                         *)
(* Time is in ticks of the renewal interval (10 s).  A timer may be late   *)
(* by any number of ticks (a blocked event loop, a suspended process), so  *)
(* the lease of a job at work can lapse.  A token is named by the          *)
(* generation of the pause that drew it.  "corrupt" replies need an edit   *)
(* by hand and are left out.                                               *)
(***************************************************************************)
EXTENDS Naturals

CONSTANTS
  Job,            \* calls of runWithPermit
  Operator,       \* people with the administrative command
  LeaseTicks,     \* permitLeaseMs / permitRefreshMs
  MaxGeneration,  \* bound on the generations explored
  Lossy           \* scripts whose reply can be lost

ASSUME BarrierAssumption ==
  /\ LeaseTicks \in Nat \ {0, 1}
  /\ MaxGeneration \in Nat \ {0}
  /\ Lossy \subseteq {"acquire", "renew", "release", "pause"}

VARIABLES
  state, generation, token,  \* the state hash
  permits,                   \* ticks left of each job's lease, 0 for none
  pc,                        \* idle, running, ending, over
  since,                     \* ticks since its timer fired, LeaseTicks at most
  refused,                   \* jobs whose failed renewal is yet to be handled
  aborted,                   \* jobs whose abort signal is set
  pending,                   \* a script of the job that may still run
  seen,                      \* generation an operator last read
  tokens,                    \* resume tokens an operator has been given
  owns,                      \* generation of the pause an operator is using
  drained                    \* generation it has seen paused with no permit

hash == <<state, generation, token>>
jobs == <<permits, pc, since, refused, aborted, pending>>
operators == <<seen, tokens, owns, drained>>
vars == <<hash, jobs, operators>>

---------------------------------------------------------------------------
(* Faulty variants of definitions below.  No action uses them: each one    *)
(* replaces the definition it is named after when the runs are checked for *)
(* being able to fail.                                                     *)
Lapsed_Never(j) == FALSE

Down_Never(n) == n

TokenMatches_Any(t) == t # 0

---------------------------------------------------------------------------
(* The acquire script.                                                     *)
Granting == state = "active"

Acquire(j) ==
  /\ pc[j] = "idle"
  /\ Granting
  /\ permits' = [permits EXCEPT ![j] = LeaseTicks]
  /\ pc' = [pc EXCEPT ![j] = "running"]
  /\ since' = [since EXCEPT ![j] = 0]
  /\ UNCHANGED <<hash, refused, aborted, pending, operators>>

(* The caller fails closed: the action is not started.                     *)
AcquireLost(j) ==
  /\ "acquire" \in Lossy
  /\ pc[j] = "idle"
  /\ pc' = [pc EXCEPT ![j] = "over"]
  /\ pending' = [pending EXCEPT ![j] = "acquire"]
  /\ UNCHANGED <<hash, permits, since, refused, aborted, operators>>

(* The interval timer fires, however late, unless the last renewal is      *)
(* still in flight.  The renew script reasserts a permit that has lapsed   *)
(* and answers that it had; a renewal without a reply fails as well.       *)
Lapsed(j) == permits[j] = 0

TimerFires(j) ==
  /\ pc[j] = "running" /\ j \notin refused /\ since[j] > 0
  /\ since' = [since EXCEPT ![j] = 0]

Renew(j) ==
  /\ TimerFires(j)
  /\ permits' = [permits EXCEPT ![j] = LeaseTicks]
  /\ refused' = IF Lapsed(j) THEN refused \cup {j} ELSE refused
  /\ pending' = [pending EXCEPT ![j] = "none"]
  /\ UNCHANGED <<hash, pc, aborted, operators>>

RenewLost(j) ==
  /\ "renew" \in Lossy
  /\ TimerFires(j)
  /\ refused' = refused \cup {j}
  /\ pending' = [pending EXCEPT ![j] = "renew"]
  /\ UNCHANGED <<hash, permits, pc, aborted, operators>>

(* The owner handles the failed renewal: it sets the abort signal.         *)
Abort(j) ==
  /\ j \in refused
  /\ refused' = refused \ {j}
  /\ aborted' = aborted \cup {j}
  /\ UNCHANGED <<hash, permits, pc, since, pending, operators>>

(* The action settles and the timer is cleared.  None of the callers looks *)
(* at the abort signal, so being aborted does not end an action.  The      *)
(* release waits for the renewal in flight.                                *)
Settle(j) ==
  /\ pc[j] = "running"
  /\ pc' = [pc EXCEPT ![j] = "ending"]
  /\ since' = [since EXCEPT ![j] = 0]
  /\ UNCHANGED <<hash, permits, refused, aborted, pending, operators>>

Release(j) ==
  /\ pc[j] = "ending" /\ j \notin refused
  /\ pc' = [pc EXCEPT ![j] = "over"]
  /\ permits' = [permits EXCEPT ![j] = 0]
  /\ pending' = [pending EXCEPT ![j] = "none"]
  /\ aborted' = aborted \ {j}
  /\ UNCHANGED <<hash, since, refused, operators>>

(* releasePermit(permit).catch(() => undefined)                            *)
ReleaseLost(j) ==
  /\ "release" \in Lossy
  /\ pc[j] = "ending" /\ j \notin refused
  /\ pc' = [pc EXCEPT ![j] = "over"]
  /\ pending' = [pending EXCEPT ![j] = "release"]
  /\ aborted' = aborted \ {j}
  /\ UNCHANGED <<hash, permits, since, refused, operators>>

(* The process dies; what it had sent may still run.                       *)
Crash(j) ==
  /\ pc[j] \in {"running", "ending"}
  /\ pc' = [pc EXCEPT ![j] = "over"]
  /\ since' = [since EXCEPT ![j] = 0]
  /\ refused' = refused \ {j} /\ aborted' = aborted \ {j}
  /\ UNCHANGED <<hash, permits, pending, operators>>

LateScript(j) ==
  /\ pending[j] # "none"
  /\ pending' = [pending EXCEPT ![j] = "none"]
  /\ permits' = [permits EXCEPT ![j] =
       IF pending[j] = "release" THEN 0
       ELSE IF pending[j] = "acquire" /\ ~Granting THEN @
       ELSE LeaseTicks]
  /\ UNCHANGED <<hash, pc, since, refused, aborted, operators>>

---------------------------------------------------------------------------
NoPermit == \A j \in Job : permits[j] = 0

(* worker-command:barrier status                                           *)
ReadStatus(o) ==
  /\ seen' = [seen EXCEPT ![o] = generation]
  /\ drained' = [drained EXCEPT ![o] =
       IF state = "paused" /\ NoPermit THEN generation ELSE 0]
  /\ UNCHANGED <<hash, jobs, tokens, owns>>

PauseAllowed(o) == seen[o] = generation /\ state = "active"

PauseWrites(o) ==
  /\ PauseAllowed(o)
  /\ generation < MaxGeneration
  /\ state' = "paused"
  /\ generation' = generation + 1
  /\ token' = generation + 1

Pause(o) ==
  /\ PauseWrites(o)
  /\ seen' = [seen EXCEPT ![o] = generation']
  /\ tokens' = [tokens EXCEPT ![o] = @ \cup {generation'}]
  /\ owns' = [owns EXCEPT ![o] = generation']
  /\ UNCHANGED <<jobs, drained>>

(* The pause commits and the token, returned once, reaches nobody.         *)
PauseLost(o) ==
  /\ "pause" \in Lossy
  /\ PauseWrites(o)
  /\ UNCHANGED <<jobs, operators>>

TokenMatches(t) == t = token

(* Resume with any token the operator has been given.                      *)
Resume(o, t) ==
  /\ t \in tokens[o] /\ TokenMatches(t)
  /\ seen[o] = generation /\ state = "paused"
  /\ generation < MaxGeneration
  /\ state' = "active"
  /\ generation' = generation + 1
  /\ token' = 0
  /\ seen' = [seen EXCEPT ![o] = generation']
  /\ owns' = [owns EXCEPT ![o] = 0]
  /\ UNCHANGED <<jobs, tokens, drained>>

---------------------------------------------------------------------------
Down(n) == IF n > 0 THEN n - 1 ELSE 0

(* Time passes whether or not the timers have fired.                       *)
Tick ==
  /\ permits' = [j \in Job |-> Down(permits[j])]
  /\ since' = [j \in Job |->
       IF pc[j] = "running" /\ since[j] < LeaseTicks THEN since[j] + 1
       ELSE since[j]]
  /\ UNCHANGED <<hash, pc, refused, aborted, pending, operators>>

Init ==
  /\ state = "active" /\ generation = 1 /\ token = 0
  /\ permits = [j \in Job |-> 0]
  /\ pc = [j \in Job |-> "idle"]
  /\ since = [j \in Job |-> 0]
  /\ refused = {} /\ aborted = {}
  /\ pending = [j \in Job |-> "none"]
  /\ seen = [o \in Operator |-> 0]
  /\ tokens = [o \in Operator |-> {}]
  /\ owns = [o \in Operator |-> 0]
  /\ drained = [o \in Operator |-> 0]

JobStep(j) ==
  \/ Acquire(j) \/ AcquireLost(j)
  \/ Renew(j) \/ RenewLost(j) \/ Abort(j)
  \/ Settle(j) \/ Release(j) \/ ReleaseLost(j)
  \/ Crash(j) \/ LateScript(j)

OperatorStep(o) ==
  \/ ReadStatus(o) \/ Pause(o) \/ PauseLost(o)
  \/ \E t \in 1 .. MaxGeneration : Resume(o, t)

Next ==
  \/ \E j \in Job : JobStep(j)
  \/ \E o \in Operator : OperatorStep(o)
  \/ Tick

Spec == Init /\ [][Next]_vars

(* Redis keeps time, a failed renewal is handled, and every protected      *)
(* action settles: the network calls it makes have timeouts.  Nothing is   *)
(* asked of the timers.                                                    *)
Fairness ==
  /\ WF_vars(Tick)
  /\ \A j \in Job : /\ WF_vars(Abort(j))
                    /\ WF_vars(Settle(j))
                    /\ WF_vars(Release(j) \/ ReleaseLost(j))

FairSpec == Spec /\ Fairness

---------------------------------------------------------------------------
TypeOK ==
  /\ state \in {"active", "paused"}
  /\ generation \in 1 .. MaxGeneration /\ token \in 0 .. MaxGeneration
  /\ permits \in [Job -> 0 .. LeaseTicks]
  /\ pc \in [Job -> {"idle", "running", "ending", "over"}]
  /\ since \in [Job -> 0 .. LeaseTicks]
  /\ refused \subseteq Job /\ aborted \subseteq Job
  /\ pending \in [Job -> {"none", "acquire", "renew", "release"}]
  /\ seen \in [Operator -> 0 .. MaxGeneration]
  /\ tokens \in [Operator -> SUBSET (1 .. MaxGeneration)]
  /\ owns \in [Operator -> 0 .. MaxGeneration]
  /\ drained \in [Operator -> 0 .. MaxGeneration]

(* An operator that has seen the gate paused and empty may act on it for   *)
(* as long as the generation stands.                                       *)
SawDrained == \E o \in Operator : drained[o] = generation

(* A drained gate does not mean that nothing is at work: a job whose timer *)
(* is late keeps running without a permit.  What it does mean: any job     *)
(* still at work has been told to stop, is about to be (its renewal has    *)
(* failed), or has not had its timer fire for a whole lease, and then the  *)
(* next renewal will be refused, whatever a status read pruned and         *)
(* whatever script of it ran late.                                         *)
Told(j) == j \in refused \/ j \in aborted

Stalled(j) == since[j] >= LeaseTicks /\ permits[j] = 0

DrainSparesOnlyLapsed ==
  SawDrained => \A j \in Job : pc[j] = "running" => Told(j) \/ Stalled(j)

(* A pause an operator was given a token for holds until that operator     *)
(* resumes: a colleague with an older token, a stale generation or a       *)
(* second pause does not take it away.                                     *)
PauseHolds ==
  \A o \in Operator :
    owns[o] # 0 => state = "paused" /\ generation = owns[o]

(* A pause drains: jobs end or their permits lapse, also those of dead     *)
(* processes and those granted to callers that had given up.               *)
PauseDrains == state = "paused" ~> NoPermit \/ state = "active"
=============================================================================
