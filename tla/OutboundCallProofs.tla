------------------------ MODULE OutboundCallProofs --------------------------
(***************************************************************************)
(* The lease of a job outlives every run, for every set of timeouts and    *)
(* every margin that satisfies MarginAssumption; the invocation inside a   *)
(* run, with its retries and its breaker, implements what the lease counts *)
(* on; and what the invocation itself promises, for every retry policy that*)
(* satisfies PolicyAssumption.                                             *)
(***************************************************************************)
EXTENDS OutboundCall, FiniteSetTheorems, TLAPS

-----------------------------------------------------------------------------
(* ExecutionLease.                                                         *)

\* The invariant leaves the lease some time beyond the end of the run: a call
\* is at most FinishTimeout + 2 * Lag past its deadline, the key lives Slack
\* past it.
LEMMA BudgetCovers == LeaseInv => LeaseCoversRun
<1> SUFFICES ASSUME LeaseInv, NEW a \in Attempt, Protected(a)
             PROVE  key = a /\ now < expiry
  BY DEF LeaseCoversRun
<1>1. /\ now \in Nat /\ expiry \in Nat
      /\ deadline[a] \in Nat /\ finishBy[a] \in Nat
      /\ Slack \in Nat /\ Lag \in Nat /\ FinishTimeout \in Nat
  BY LeaseAssumption DEF LeaseInv, TypeOK
<1>2. key = a /\ deadline[a] + Slack <= expiry
  BY DEF LeaseInv, Held
<1>3. now <= deadline[a] + Lag + FinishTimeout + Lag
  <2>1. CASE phase[a] = "running"
    BY <1>1, <2>1 DEF LeaseInv, Budget
  <2>2. CASE phase[a] = "finishing"
    BY <1>1, <2>2 DEF LeaseInv, Budget
  <2>3. QED
    BY <2>1, <2>2 DEF Protected
<1>4. QED
  BY <1>1, <1>2, <1>3, MarginAssumption

\* Every step preserves the invariant.
LEMMA LeaseStep == LeaseInv /\ [Next]_leaseVars => LeaseInv'
<1> SUFFICES ASSUME LeaseInv, [Next]_leaseVars
             PROVE  LeaseInv'
  OBVIOUS
<1> USE LeaseAssumption DEF LeaseInv, TypeOK, Budget, Held, Protected, Phase
<1>1. CASE Tick
  BY <1>1 DEF Tick, Late
<1>2. ASSUME NEW a \in Attempt, NEW t \in Timeout, Execute(a, t)
      PROVE  LeaseInv'
  BY <1>2 DEF Execute
<1>3. ASSUME NEW a \in Attempt, Acquire(a)
      PROVE  LeaseInv'
  <2>1. \A b \in Attempt : ~Protected(b)
    BY <1>3, BudgetCovers DEF Acquire, Unset, LeaseCoversRun
  <2>2. TypeOK'
    BY <1>3 DEF Acquire, TTL
  <2>3. Budget'
    BY <1>3 DEF Acquire
  <2>4. Held'
    BY <1>3, <2>1 DEF Acquire, TTL
  <2>5. QED
    BY <2>2, <2>3, <2>4
<1>4. ASSUME NEW a \in Attempt, GiveUp(a)
      PROVE  LeaseInv'
  BY <1>4 DEF GiveUp
<1>5. ASSUME NEW a \in Attempt, InvokeReturns(a)
      PROVE  LeaseInv'
  BY <1>5 DEF InvokeReturns
<1>6. ASSUME NEW a \in Attempt, InsertFails(a) \/ Finished(a)
      PROVE  LeaseInv'
  BY <1>6 DEF InsertFails, Finished
<1>7. ASSUME NEW a \in Attempt, Unlock(a)
      PROVE  LeaseInv'
  BY <1>7 DEF Unlock
<1>8. ASSUME NEW a \in Attempt, Crash(a)
      PROVE  LeaseInv'
  BY <1>8 DEF Crash
<1>9. CASE UNCHANGED leaseVars
  BY <1>9 DEF leaseVars
<1>10. QED
  BY <1>1, <1>2, <1>3, <1>4, <1>5, <1>6, <1>7, <1>8, <1>9 DEF Next

\* Until the outcome of a run is recorded its lease is held and has not
\* expired, without any renewal: JobExecution may assume that a key does not
\* expire while its holder is in the critical section.
THEOREM LeaseCoversRunHolds == Spec => []LeaseCoversRun
<1>1. Init => LeaseInv
  BY LeaseAssumption
     DEF Init, LeaseInv, TypeOK, Budget, Held, Protected, Phase
<1>2. QED
  BY <1>1, LeaseStep, BudgetCovers, PTL DEF Spec

-----------------------------------------------------------------------------
(* The invocation implements it.                                           *)

\* Every step of an invocation is one of ExecutionLease, or none: the clock
\* ticks in a backoff only where it ticks in a run, and a run returns once.
LEMMA CallStepImplements == [CallNext]_allVars => [Next]_leaseVars
<1> SUFFICES ASSUME [CallNext]_allVars PROVE [Next]_leaseVars
  OBVIOUS
<1>1. CASE CallTick
  <2>1. Tick
    BY <1>1 DEF CallTick, Tick, Overdue
  <2>2. QED
    BY <2>1 DEF Next
<1>2. ASSUME NEW a \in Attempt,
             (\E t \in Timeout : Execute(a, t)) \/ GiveUp(a) \/ Unlock(a)
      PROVE  Next
  BY <1>2 DEF Next
<1>3. ASSUME NEW a \in Attempt,
             CallAcquire(a) \/ CallInsertFails(a) \/ CallFinished(a) \/ CallCrash(a)
      PROVE  Next
  BY <1>3 DEF CallAcquire, CallInsertFails, CallFinished, CallCrash, Next
<1>4. ASSUME NEW a \in Attempt,
             Refuse(a) \/ CutShort(a) \/ \E c \in Answer : Finish(a, c)
      PROVE  Next
  BY <1>4 DEF Refuse, CutShort, Finish, Return, Next
<1>5. ASSUME NEW a \in Attempt,
             Send(a) \/ Retry(a) \/ \E c \in Answer : WaitRetry(a, c)
      PROVE  UNCHANGED leaseVars
  BY <1>5 DEF Send, Retry, WaitRetry
<1>6. CASE UNCHANGED allVars
  BY <1>6 DEF allVars
<1>7. QED
  BY <1>1, <1>2, <1>3, <1>4, <1>5, <1>6 DEF CallNext

\* client.go:115, invoke: an invocation ends by its deadline, whatever its
\* retries and backoffs: it does what ExecutionLease assumes of one.
THEOREM ImplementsLeaseHolds == CallSpec => ImplementsLease
<1>1. CallInit => Init
  BY DEF CallInit
<1>2. QED
  BY <1>1, CallStepImplements, PTL DEF CallSpec, ImplementsLease

\* executeWithLease: so the lease covers a run with its retries and backoffs.
THEOREM CallLeaseCoversRun == CallSpec => []LeaseCoversRun
<1>1. ImplementsLease => Spec
  BY DEF ImplementsLease, Spec
<1>2. QED
  BY <1>1, ImplementsLeaseHolds, LeaseCoversRunHolds, PTL

-----------------------------------------------------------------------------
(* What an invocation does.                                                *)

\* A run acts at its upstream under one key, and succeeds only if it has acted.
Acted ==
  \A a \in Attempt :
    /\ effects[a] \subseteq {"execution"}
    /\ answer[a] = "ok" => effects[a] # {}

\* The strikes of a breaker are those of different runs.
Struck ==
  /\ strikes \in [Attempt -> Nat] /\ failed = strikes
  /\ breaker \in [Attempt -> {"closed", "half", "open"}]

CallInv ==
  /\ answer \in [Attempt -> Answer]
  /\ effects \in [Attempt -> SUBSET {"execution"}]
  /\ Acted /\ Struck

\* What the breaker makes of a result, once the run has been counted.
LEMMA RecordKeeps ==
  ASSUME Struck, NEW a \in Attempt, NEW c, Record(a, c), CountRun(a, c)
  PROVE  /\ Struck'
         /\ \A b \in Attempt :
              breaker[b] = "closed" /\ breaker'[b] = "open" => strikes[b] + 1 >= Threshold
<1>1. /\ Threshold \in Nat \ {0} /\ strikes[a] \in Nat /\ failed = strikes
      /\ strikes \in [Attempt -> Nat]
      /\ breaker \in [Attempt -> {"closed", "half", "open"}]
  BY PolicyAssumption DEF Struck
<1> DEFINE n == strikes[a] + 1
           trips == breaker[a] = "half" \/ n >= Threshold
<1>2. CASE Counted(c) /\ trips
  <2>1. /\ breaker' = [breaker EXCEPT ![a] = "open"] /\ strikes' = [strikes EXCEPT ![a] = 0]
    BY <1>2 DEF Record
  <2>2. failed' = [failed EXCEPT ![a] = 0]
    BY <1>1, <2>1 DEF CountRun
  <2>3. QED
    BY <1>1, <1>2, <2>1, <2>2 DEF Struck
<1>3. CASE Counted(c) /\ ~trips
  <2>1. breaker' = breaker /\ strikes' = [strikes EXCEPT ![a] = n]
    BY <1>1, <1>3 DEF Record
  <2>2. failed' = [failed EXCEPT ![a] = n]
    BY <1>1, <1>3, <2>1 DEF CountRun
  <2>3. QED
    BY <1>1, <2>1, <2>2 DEF Struck
<1>4. CASE ~Counted(c) /\ UNCHANGED <<breaker, strikes>>
  <2>1. failed' = strikes
    BY <1>1, <1>4 DEF CountRun
  <2>2. QED
    BY <1>1, <1>4, <2>1 DEF Struck
<1>5. CASE /\ ~Counted(c) /\ breaker' = [breaker EXCEPT ![a] = "closed"]
           /\ strikes' = [strikes EXCEPT ![a] = 0]
  <2>1. failed' = [failed EXCEPT ![a] = 0]
    BY <1>1, <1>5 DEF CountRun
  <2>2. QED
    BY <1>1, <1>5, <2>1 DEF Struck
<1>6. QED
  BY <1>2, <1>3, <1>4, <1>5 DEF Record

\* An attempt acts under the key of its run, or not at all.
LEMMA EndsKeeps ==
  ASSUME CallInv, NEW a \in Attempt, NEW c, Ends(a, c)
  PROVE  /\ effects' \in [Attempt -> SUBSET {"execution"}]
         /\ \A b \in Attempt : effects[b] \subseteq effects'[b]
         /\ c = "ok" => effects'[a] # {}
         /\ c \in Answer
  BY DEF CallInv, Ends, IdempotencyKey, Answer

\* Every step preserves the invariant, and opens a closed breaker only on the
\* last of the strikes it takes.
LEMMA CallStep ==
  ASSUME CallInv, [CallNext]_allVars
  PROVE  /\ CallInv'
         /\ \A b \in Attempt :
              breaker[b] = "closed" /\ breaker'[b] = "open" => strikes[b] + 1 >= Threshold
<1> DEFINE Goal ==
      /\ CallInv'
      /\ \A b \in Attempt :
           breaker[b] = "closed" /\ breaker'[b] = "open" => strikes[b] + 1 >= Threshold
<1>0. /\ answer \in [Attempt -> Answer] /\ effects \in [Attempt -> SUBSET {"execution"}]
      /\ Acted /\ Struck
  BY DEF CallInv
<1>1. ASSUME UNCHANGED callVars PROVE Goal
  BY <1>0, <1>1 DEF callVars, CallInv, Acted, Struck
<1>2. ASSUME NEW a \in Attempt, UNCHANGED <<answer, effects, breaker, strikes, failed>>
      PROVE  Goal
  BY <1>0, <1>2 DEF CallInv, Acted, Struck
<1>3. ASSUME NEW a \in Attempt, Refuse(a) PROVE Goal
  BY <1>0, <1>3 DEF Refuse, Return, CallInv, Acted, Struck, Answer
<1>4. ASSUME NEW a \in Attempt, Send(a) PROVE Goal
  BY <1>0, <1>4 DEF Send, CallInv, Acted, Struck
<1>5. ASSUME NEW a \in Attempt, NEW c \in Answer, Finish(a, c) PROVE Goal
  <2>1. /\ Ends(a, c) /\ Record(a, c) /\ CountRun(a, c)
        /\ answer' = [answer EXCEPT ![a] = c]
    BY <1>5 DEF Finish, Return
  <2>2. answer' \in [Attempt -> Answer] /\ Acted'
    BY <1>0, <2>1, EndsKeeps DEF Acted
  <2>3. QED
    BY <1>0, <2>1, <2>2, EndsKeeps, RecordKeeps DEF CallInv
<1>6. ASSUME NEW a \in Attempt, NEW c \in Answer, WaitRetry(a, c) PROVE Goal
  <2>1. Ends(a, c) /\ UNCHANGED <<answer, breaker, strikes, failed>>
    BY <1>6 DEF WaitRetry
  <2>2. Acted'
    BY <1>0, <2>1, EndsKeeps DEF Acted
  <2>3. QED
    BY <1>0, <2>1, <2>2, EndsKeeps DEF CallInv, Struck
<1>7. ASSUME NEW a \in Attempt, CutShort(a) PROVE Goal
  <2>1. /\ Record(a, "context") /\ CountRun(a, "context") /\ effects' = effects
        /\ answer' = [answer EXCEPT ![a] = "context"]
    BY <1>7 DEF CutShort, Return
  <2>2. answer' \in [Attempt -> Answer] /\ Acted'
    BY <1>0, <2>1 DEF Acted, Answer
  <2>3. QED
    BY <1>0, <2>1, <2>2, RecordKeeps DEF CallInv
<1>8. ASSUME NEW a \in Attempt, CallFinished(a) PROVE Goal
  BY <1>0, <1>8 DEF CallFinished, CallInv, Acted, Struck, Answer
<1>9. ASSUME NEW a \in Attempt, CallCrash(a) PROVE Goal
  BY <1>0, <1>9 DEF CallCrash, CallInv, Acted, Struck, Answer
<1>10. CASE CallTick
  BY <1>1, <1>10 DEF CallTick
<1>11. ASSUME NEW a \in Attempt, CallAcquire(a) \/ CallInsertFails(a) \/ Retry(a)
       PROVE  Goal
  BY <1>2, <1>11 DEF CallAcquire, CallInsertFails, Retry
<1>12. CASE UNCHANGED allVars
  BY <1>1, <1>12 DEF allVars
<1>13. QED
  BY <1>1, <1>3, <1>4, <1>5, <1>6, <1>7, <1>8, <1>9, <1>10, <1>11, <1>12 DEF CallNext

\* The invariant of the invocations holds in every state of every behaviour.
THEOREM CallInvariant == CallSpec => []CallInv
<1>1. CallInit => CallInv
  BY DEF CallInit, CallInv, Acted, Struck, Answer
<1>2. QED
  BY <1>1, CallStep, PTL DEF CallSpec

\* retryInterceptor (client.go:81): however often a job is retried, it acts at
\* most once at an upstream that honours the key, and has acted if it succeeds.
THEOREM OneEffectHolds == CallSpec => []OneEffect
<1>1. CallInv => OneEffect
  <2> SUFFICES ASSUME CallInv, NEW a \in Attempt
               PROVE  /\ Cardinality(effects[a]) <= 1
                      /\ answer[a] = "ok" => effects[a] # {}
    BY DEF OneEffect
  <2>1. effects[a] = {} \/ effects[a] = {"execution"}
    BY DEF CallInv, Acted
  <2>2. Cardinality({}) = 0 /\ Cardinality({"execution"}) = 1
    BY FS_EmptySet, FS_Singleton
  <2>3. Cardinality(effects[a]) <= 1
    BY <2>1, <2>2
  <2>4. QED
    BY <2>3 DEF CallInv, Acted
<1>2. QED
  BY <1>1, CallInvariant, PTL

\* Dial puts the breaker around the retries (client.go:69): it takes as many
\* failed runs to open it as the threshold says.
THEOREM TripTakesRunsHolds == CallSpec => TripTakesRuns
<1>1. CallInv /\ [CallNext]_allVars =>
        [\A a \in Attempt :
           breaker[a] = "closed" /\ breaker'[a] = "open" => failed[a] + 1 >= Threshold]_allVars
  BY CallStep DEF CallInv, Struck
<1>2. QED
  BY <1>1, CallInvariant, PTL DEF CallSpec, TripTakesRuns

=============================================================================
