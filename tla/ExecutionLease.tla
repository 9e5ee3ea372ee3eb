--------------------------- MODULE ExecutionLease ---------------------------
(***************************************************************************)
(* The time budget of Service.execute and executeWithLease: the context    *)
(* deadline, the TTL of the Redis key and the separate context that        *)
(* records the outcome (internal/job/service.go).                          *)
(*                                                                         *)
(* JobExecution assumes that the key of a job does not expire while its    *)
(* holder is between the insert of the execution row and the recording of  *)
(* the outcome.  This module shows it, without counting on any renewal of  *)
(* the lease by the lock library: the TTL outlives the deadline by Slack,  *)
(* and what happens after the deadline takes at most FinishTimeout plus    *)
(* the time the process needs to notice that a context has ended.          *)
(***************************************************************************)
EXTENDS Naturals

CONSTANTS
  Attempt,        \* calls of execute for one job, on any replica
  Free,           \* nobody has set the key
  Timeout,        \* values of timeout_milliseconds
  Slack,          \* the 30 seconds added to the timeout for the TTL
  FinishTimeout,  \* the 5 seconds FinishExecution may take
  Lag,            \* how late a call may notice the end of its context
  MaxTime         \* bound: how long the clock runs

ASSUME LeaseAssumption ==
  /\ Free \notin Attempt
  /\ Timeout \subseteq Nat
  /\ Slack \in Nat /\ FinishTimeout \in Nat /\ Lag \in Nat /\ MaxTime \in Nat

\* The margin is large enough: 5 s + 2 * Lag < 30 s, so Lag is below 12.5 s.
ASSUME MarginAssumption == FinishTimeout + 2 * Lag < Slack

VARIABLES
  now,       \* the time, the same for the processes and for Redis
  key,       \* whose token the key holds; it may be past its expiry
  expiry,    \* when the key expires
  phase,     \* where each call stands
  timeout,   \* the timeout of the job row each call was started with
  deadline,  \* when the context of each call ends
  finishBy   \* when the context of its FinishExecution ends

leaseVars == <<now, key, expiry, phase, timeout, deadline, finishBy>>

\* locking: inside TryLock; running: inserting the row and invoking, both
\* under the deadline; finishing: recording the outcome; leaving: unlocking.
Phase == {"idle", "locking", "running", "finishing", "leaving", "crashed"}

Init ==
  /\ now = 0
  /\ key = Free
  /\ expiry = 0
  /\ phase = [a \in Attempt |-> "idle"]
  /\ timeout = [a \in Attempt |-> 0]
  /\ deadline = [a \in Attempt |-> 0]
  /\ finishBy = [a \in Attempt |-> 0]

\* The deadline starts before the lock is asked for.
Execute(a, t) ==
  /\ phase[a] = "idle"
  /\ phase' = [phase EXCEPT ![a] = "locking"]
  /\ timeout' = [timeout EXCEPT ![a] = t]
  /\ deadline' = [deadline EXCEPT ![a] = now + t]
  /\ UNCHANGED <<now, key, expiry, finishBy>>

\* Nothing is left of a key that has expired.
Unset == key = Free \/ expiry <= now

\* Mutation: the TTL is the timeout alone.
TTLWithoutSlack(a) == timeout[a]

\* The TTL of the lock.
TTL(a) == timeout[a] + Slack

\* SET key token NX PX ttl succeeds.
Acquire(a) ==
  /\ phase[a] = "locking"
  /\ Unset
  /\ key' = a
  /\ expiry' = now + TTL(a)
  /\ phase' = [phase EXCEPT ![a] = "running"]
  /\ UNCHANGED <<now, timeout, deadline, finishBy>>

\* The key is taken, or the lock service fails: the call is over.
GiveUp(a) ==
  /\ phase[a] = "locking"
  /\ phase' = [phase EXCEPT ![a] = "idle"]
  /\ UNCHANGED <<now, key, expiry, timeout, deadline, finishBy>>

\* Invoke has returned; FinishExecution runs under a context of its own,
\* detached from the one that may just have ended.
InvokeReturns(a) ==
  /\ phase[a] = "running"
  /\ phase' = [phase EXCEPT ![a] = "finishing"]
  /\ finishBy' = [finishBy EXCEPT ![a] = now + FinishTimeout]
  /\ UNCHANGED <<now, key, expiry, timeout, deadline>>

\* The insert of the execution row has failed, so there is nothing to finish.
InsertFails(a) ==
  /\ phase[a] = "running"
  /\ phase' = [phase EXCEPT ![a] = "leaving"]
  /\ UNCHANGED <<now, key, expiry, timeout, deadline, finishBy>>

Finished(a) ==
  /\ phase[a] = "finishing"
  /\ phase' = [phase EXCEPT ![a] = "leaving"]
  /\ UNCHANGED <<now, key, expiry, timeout, deadline, finishBy>>

\* The key is deleted if it still holds the token of the call, or left alone
\* when Redis cannot be reached.
Unlock(a) ==
  /\ phase[a] = "leaving"
  /\ phase' = [phase EXCEPT ![a] = "idle"]
  /\ key' \in {key, IF key = a THEN Free ELSE key}
  /\ UNCHANGED <<now, expiry, timeout, deadline, finishBy>>

\* The process of a call dies; the key stays until it expires.
Crash(a) ==
  /\ phase[a] \notin {"idle", "crashed"}
  /\ phase' = [phase EXCEPT ![a] = "crashed"]
  /\ UNCHANGED <<now, key, expiry, timeout, deadline, finishBy>>

\* The call must have left its phase by then: every statement and every call
\* it makes ends with its context, at most Lag later.
Late(a) ==
  \/ phase[a] \in {"locking", "running"} /\ now >= deadline[a] + Lag
  \/ phase[a] = "finishing" /\ now >= finishBy[a] + Lag

Tick ==
  /\ now < MaxTime
  /\ \A a \in Attempt : ~Late(a)
  /\ now' = now + 1
  /\ UNCHANGED <<key, expiry, phase, timeout, deadline, finishBy>>

Next ==
  \/ Tick
  \/ \E a \in Attempt :
       \/ \E t \in Timeout : Execute(a, t)
       \/ Acquire(a)
       \/ GiveUp(a)
       \/ InvokeReturns(a)
       \/ InsertFails(a)
       \/ Finished(a)
       \/ Unlock(a)
       \/ Crash(a)

Spec == Init /\ [][Next]_leaseVars

-----------------------------------------------------------------------------

TypeOK ==
  /\ now \in Nat
  /\ key \in Attempt \cup {Free}
  /\ expiry \in Nat
  /\ phase \in [Attempt -> Phase]
  /\ timeout \in [Attempt -> Nat]
  /\ deadline \in [Attempt -> Nat]
  /\ finishBy \in [Attempt -> Nat]

\* The call acts on what the lock protects (Critical of JobExecution).
Protected(a) == phase[a] \in {"running", "finishing"}

\* The lease outlives the run (service.go:253, :293): until the outcome is
\* recorded the key holds the call's token and has not expired, even when the
\* invocation lasts until its deadline, FinishExecution uses up its own
\* timeout, and the lease is never renewed.
LeaseCoversRun == \A a \in Attempt : Protected(a) => key = a /\ now < expiry

-----------------------------------------------------------------------------
(* The inductive invariant behind LeaseCoversRun.                          *)

Budget ==
  \A a \in Attempt :
    /\ phase[a] \in {"locking", "running"} => now <= deadline[a] + Lag
    /\ phase[a] = "locking" => deadline[a] <= now + timeout[a]
    /\ phase[a] = "finishing" =>
         /\ now <= finishBy[a] + Lag
         /\ finishBy[a] <= deadline[a] + Lag + FinishTimeout

Held == \A a \in Attempt : Protected(a) => key = a /\ deadline[a] + Slack <= expiry

LeaseInv == TypeOK /\ Budget /\ Held

=============================================================================
