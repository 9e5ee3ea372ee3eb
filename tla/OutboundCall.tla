---------------------------- MODULE OutboundCall ----------------------------
(***************************************************************************)
(* The invocation inside a run, through the interceptors of grpcclient.Dial*)
(* (internal/grpcclient/client.go): the circuit breaker, and inside it the *)
(* retries with their backoff, all under the deadline of the run.          *)
(* ExecutionLease takes it for granted that an invocation ends soon after  *)
(* its deadline; here it follows from what each of its steps waits for.    *)
(* The code has one breaker per upstream and replica.  Here every Attempt  *)
(* has its own, which its successive runs share: each is on a replica of   *)
(* its own, and runs that overlap on one replica are left out.             *)
(***************************************************************************)
EXTENDS ExecutionLease, FiniteSets

CONSTANTS
  MaxAttempts,     \* retry.max_attempts
  InitialBackoff,  \* retry.initial_backoff
  MaxBackoff,      \* retry.max_backoff
  Threshold        \* breaker.failure_threshold

\* What validateClientPolicy demands.
ASSUME PolicyAssumption ==
  /\ MaxAttempts \in 1..5
  /\ InitialBackoff \in Nat \ {0}
  /\ MaxBackoff \in Nat /\ MaxBackoff >= InitialBackoff
  /\ Threshold \in Nat \ {0}

VARIABLES
  step,      \* where the run is in its invocation
  tries,     \* attempts begun
  wake,      \* when the backoff timer fires
  answer,    \* what Invoke has returned
  effects,   \* the keys under which the upstream has acted for this run
  breaker,   \* state of the breaker of the replica
  strikes,   \* its consecutive failures
  failed     \* history: the runs whose failures those are

callVars == <<step, tries, wake, answer, effects, breaker, strikes, failed>>
allVars == <<leaseVars, callVars>>

\* context: the bare error of a context that ended in a backoff; refused: the
\* breaker did not let the call pass.
Answer == {"none", "ok", "unavailable", "deadline", "other", "context", "refused"}

CallInit ==
  /\ Init
  /\ step = [a \in Attempt |-> "none"]
  /\ tries = [a \in Attempt |-> 0]
  /\ wake = [a \in Attempt |-> 0]
  /\ answer = [a \in Attempt |-> "none"]
  /\ effects = [a \in Attempt |-> {}]
  /\ breaker = [a \in Attempt |-> "closed"]
  /\ strikes = [a \in Attempt |-> 0]
  /\ failed = [a \in Attempt |-> 0]

-----------------------------------------------------------------------------

\* Unavailable and ResourceExhausted are retried; an invocation of a job always
\* has an idempotency key in its context, whatever retry.methods lists.
Retried(c) == c = "unavailable"

\* Mutation: every attempt has a key of its own.
KeyPerAttempt(a) == tries[a]

\* The key an attempt carries: the id of the execution row, which the context
\* of the run holds and metadataInterceptor copies.
IdempotencyKey(a) == "execution"

\* The delay doubles with each attempt up to MaxBackoff.
Backoff(n) ==
  LET delay == InitialBackoff * 2^(n - 1)
  IN  IF delay > MaxBackoff THEN MaxBackoff ELSE delay

\* What the breaker counts; IsExcluded passes over all other codes, and the
\* bare error of a context has none of these.
Counted(c) == c \in {"unavailable", "deadline"}

\* Mutation: a breaker inside the retries sees every attempt.
RecordAttempts(a, c) ==
  IF Counted(c)
  THEN LET n == strikes[a] + tries[a]
           trips == breaker[a] = "half" \/ n >= Threshold
       IN  /\ breaker' = [breaker EXCEPT ![a] = IF trips THEN "open" ELSE @]
           /\ strikes' = [strikes EXCEPT ![a] = IF trips THEN 0 ELSE n]
  ELSE UNCHANGED <<breaker, strikes>>

\* The breaker learns of the end of a whole invocation.  What it makes of a
\* call that is neither a success nor a failure is up to the library.
Record(a, c) ==
  IF Counted(c)
  THEN LET n == strikes[a] + 1
           trips == breaker[a] = "half" \/ n >= Threshold
       IN  /\ breaker' = [breaker EXCEPT ![a] = IF trips THEN "open" ELSE @]
           /\ strikes' = [strikes EXCEPT ![a] = IF trips THEN 0 ELSE n]
  ELSE \/ UNCHANGED <<breaker, strikes>>
       \/ /\ breaker' = [breaker EXCEPT ![a] = "closed"]
          /\ strikes' = [strikes EXCEPT ![a] = 0]

\* History: the runs behind the present strikes.
CountRun(a, c) ==
  failed' = [failed EXCEPT ![a] =
               IF strikes'[a] = 0 THEN 0 ELSE IF Counted(c) THEN @ + 1 ELSE @]

\* Invoke returns c and the run goes on to record its outcome.
Return(a, c) ==
  /\ InvokeReturns(a)
  /\ step' = [step EXCEPT ![a] = "none"]
  /\ tries' = [tries EXCEPT ![a] = 0]
  /\ wake' = [wake EXCEPT ![a] = 0]
  /\ answer' = [answer EXCEPT ![a] = c]

-----------------------------------------------------------------------------

CallAcquire(a) ==
  /\ Acquire(a)
  /\ step' = [step EXCEPT ![a] = "inserting"]
  /\ UNCHANGED <<tries, wake, answer, effects, breaker, strikes, failed>>

CallInsertFails(a) ==
  /\ step[a] = "inserting"
  /\ InsertFails(a)
  /\ step' = [step EXCEPT ![a] = "none"]
  /\ UNCHANGED <<tries, wake, answer, effects, breaker, strikes, failed>>

\* An open breaker answers by itself.
Refuse(a) ==
  /\ step[a] = "inserting" /\ breaker[a] = "open"
  /\ Return(a, "refused")
  /\ UNCHANGED <<effects, breaker, strikes, failed>>

\* The row is inserted and the first attempt begins.  An open breaker that has
\* been so for open_timeout lets it pass on trial.
Send(a) ==
  /\ step[a] = "inserting"
  /\ step' = [step EXCEPT ![a] = "sent"]
  /\ tries' = [tries EXCEPT ![a] = 1]
  /\ breaker' = [breaker EXCEPT ![a] = IF @ = "open" THEN "half" ELSE @]
  /\ UNCHANGED <<leaseVars, wake, answer, effects, strikes, failed>>

\* An attempt ends: with the answer of the upstream, with the loss of the
\* connection whether or not the upstream has acted, or with its context.  The
\* upstream does not act again under a key it has seen.
Ends(a, c) ==
  /\ step[a] = "sent"
  /\ c \in {"ok", "unavailable", "deadline", "other"}
  /\ \/ effects' = [effects EXCEPT ![a] = @ \cup {IdempotencyKey(a)}]
     \/ c # "ok" /\ UNCHANGED effects

\* Mutation: the loop assigns to an error of its own, so that the one returned
\* after the last attempt is nil.
FinishShadowed(a, c) ==
  /\ Ends(a, c)
  /\ ~Retried(c) \/ tries[a] = MaxAttempts
  /\ Return(a, IF Retried(c) THEN "ok" ELSE c)
  /\ Record(a, c) /\ CountRun(a, c)

\* The last attempt, or one that is not retried.
Finish(a, c) ==
  /\ Ends(a, c)
  /\ ~Retried(c) \/ tries[a] = MaxAttempts
  /\ Return(a, c)
  /\ Record(a, c) /\ CountRun(a, c)

\* waitRetry starts its timer.
WaitRetry(a, c) ==
  /\ Ends(a, c)
  /\ Retried(c) /\ tries[a] < MaxAttempts
  /\ step' = [step EXCEPT ![a] = "backoff"]
  /\ wake' = [wake EXCEPT ![a] = now + Backoff(tries[a])]
  /\ UNCHANGED <<leaseVars, tries, answer, breaker, strikes, failed>>

\* The timer fires; with the context at its end as well, select takes either.
Retry(a) ==
  /\ step[a] = "backoff" /\ now >= wake[a]
  /\ step' = [step EXCEPT ![a] = "sent"]
  /\ tries' = [tries EXCEPT ![a] = @ + 1]
  /\ wake' = [wake EXCEPT ![a] = 0]
  /\ UNCHANGED <<leaseVars, answer, effects, breaker, strikes, failed>>

\* The context ends in the backoff.
CutShort(a) ==
  /\ step[a] = "backoff" /\ now >= deadline[a]
  /\ Return(a, "context")
  /\ Record(a, "context") /\ CountRun(a, "context")
  /\ UNCHANGED effects

\* Nothing of an invocation is left when its outcome is recorded.
CallFinished(a) ==
  /\ Finished(a)
  /\ answer' = [answer EXCEPT ![a] = "none"]
  /\ effects' = [effects EXCEPT ![a] = {}]
  /\ UNCHANGED <<step, tries, wake, breaker, strikes, failed>>

\* The process is gone and its breaker with it.
CallCrash(a) ==
  /\ Crash(a)
  /\ step' = [step EXCEPT ![a] = "none"]
  /\ tries' = [tries EXCEPT ![a] = 0]
  /\ wake' = [wake EXCEPT ![a] = 0]
  /\ answer' = [answer EXCEPT ![a] = "none"]
  /\ effects' = [effects EXCEPT ![a] = {}]
  /\ breaker' = [breaker EXCEPT ![a] = "closed"]
  /\ strikes' = [strikes EXCEPT ![a] = 0]
  /\ failed' = [failed EXCEPT ![a] = 0]

\* Mutation: waitRetry sleeps without listening to the context.
AwaitsTimer(a) ==
  IF step[a] = "backoff" THEN now >= wake[a] + Lag ELSE Late(a)

\* What a run waits for has happened Lag ago: in a backoff the timer or the end
\* of the context, whichever comes first; else the end of its context.
Overdue(a) ==
  \/ step[a] = "backoff" /\ now >= wake[a] + Lag
  \/ Late(a)

CallTick ==
  /\ now < MaxTime
  /\ \A a \in Attempt : ~Overdue(a)
  /\ now' = now + 1
  /\ UNCHANGED <<key, expiry, phase, timeout, deadline, finishBy>>
  /\ UNCHANGED callVars

CallNext ==
  \/ CallTick
  \/ \E a \in Attempt :
       \/ ((\E t \in Timeout : Execute(a, t)) \/ GiveUp(a) \/ Unlock(a)) /\ UNCHANGED callVars
       \/ CallAcquire(a) \/ CallInsertFails(a) \/ CallFinished(a) \/ CallCrash(a)
       \/ Refuse(a) \/ Send(a) \/ Retry(a) \/ CutShort(a)
       \/ \E c \in Answer : Finish(a, c) \/ WaitRetry(a, c)

CallSpec == CallInit /\ [][CallNext]_allVars

-----------------------------------------------------------------------------

\* A job's invocation is no more than ExecutionLease assumes of it, whatever
\* the retries and backoffs: it ends by its deadline (client.go:115), so that
\* the lease proved there to cover the run covers the real one.
ImplementsLease == Init /\ [][Next]_leaseVars

\* retryInterceptor (client.go:81): retries do not multiply what a job does,
\* at an upstream that honours the key, and an outcome recorded as succeeded
\* is one the upstream has produced, however many attempts were lost.
OneEffect ==
  \A a \in Attempt :
    /\ Cardinality(effects[a]) <= 1
    /\ answer[a] = "ok" => effects[a] # {}

\* Dial puts the breaker around the retries (client.go:69): one run cannot open
\* it by itself; it takes as many failed runs as the threshold says.
TripTakesRuns ==
  [][\A a \in Attempt :
       breaker[a] = "closed" /\ breaker'[a] = "open" => failed[a] + 1 >= Threshold]_allVars

=============================================================================
