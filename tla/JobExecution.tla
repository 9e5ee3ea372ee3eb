---------------------------- MODULE JobExecution ----------------------------
(***************************************************************************)
(* How a job is executed: Service.Trigger and Service.ExecuteScheduled of  *)
(* internal/job/service.go on several replicas that share one database and *)
(* one Redis lock per job id.                                              *)
(*                                                                         *)
(* One Attempt is one call of Trigger (kind "manual") or of                *)
(* ExecuteScheduled (kind "scheduled"); it also names the execution row    *)
(* that the call may insert (uuid.NewString).  An attempt moves through    *)
(*                                                                         *)
(*   new -> load -> lock -> insert -> send -> wait -> finish -> unlock     *)
(*                                                     [-> log] -> done    *)
(*                                                                         *)
(* and yields between any two steps, each of which is one SQL transaction, *)
(* one Redis command or one end of the gRPC call.  A replica may crash     *)
(* between any two of them.  Job rows change under the attempts' feet by   *)
(* the committed writes of Create, Update and Delete.                      *)
(***************************************************************************)
EXTENDS JobStore

CONSTANTS
  Replica,      \* processes running the scheduler service
  Attempt,      \* calls of Trigger / ExecuteScheduled, and their row ids
  MaxTick,      \* bound: how many cron ticks pass
  Free          \* a lock nobody holds

ASSUME ExecutionAssumption ==
  /\ JobID # {}
  /\ MaxTick \in Nat
  /\ Free \notin Attempt \cup Replica

VARIABLES
  entry,    \* entry[r][j]: the row replica r's cron entry for j captured
  wrapped,  \* running attempts of cron entries that are still installed
  fired,    \* fired[r][j]: the last tick at which replica r fired job j
  lock,     \* lock[j]: whose token the Redis key scheduler:job:j holds
  pc,       \* where each attempt stands
  run,      \* the local variables of each attempt
  execs,    \* the job_executions table
  result,   \* the error code (or "ok") the attempt returns
  request,  \* history: what each attempt's request was made from
  clock     \* the cron tick

vars == <<jobs, entry, wrapped, fired, lock, pc, run, execs, result, request,
          clock>>

-----------------------------------------------------------------------------
(* State.                                                                  *)

PC == {"new", "load", "lock", "insert", "send", "wait", "finish", "unlock",
       "log", "done", "crashed"}

\* What the caller is told.  "refused" stands for the codes that blame the
\* request (Invalid, Unauthorized, Forbidden, NotFound, Conflict), "failed" for
\* the Unavailable error that reports a failed invocation, "error" for any
\* other Unavailable and for Internal.
Result == {"none", "ok", "failed", "refused", "error"}

Outcome == {"none", "succeeded", "failed"}

\* want: the version asked for (expected, or the captured row's version);
\* snap: the row the cron entry captured; value: the row GetJob returned;
\* outcome: how Invoke ended; base: history, the job's row at the moment the
\* execution row was inserted.
Run == [kind : {"none", "manual", "scheduled"}, job : JobID, host : Replica \cup {Free},
        tick : Nat, want : Nat, snap : Row, value : Row, base : Row,
        outcome : Outcome]

NoRun == [kind |-> "none", job |-> CHOOSE j \in JobID : TRUE,
          host |-> Free, tick |-> 0, want |-> 0,
          snap |-> NoRow, value |-> NoRow, base |-> NoRow, outcome |-> "none"]

\* The rows of job_executions; status "none" is the absence of a row.
Exec == [status : {"none", "running", "succeeded", "failed"},
         version : Nat, deleted : BOOLEAN]

NoExec == [status |-> "none", version |-> 0, deleted |-> FALSE]

\* The request of the attempt left the process.
Sent(a) == request[a].kind # "none"

NewExec == [status |-> "running", version |-> 1, deleted |-> FALSE]

Terminal(a) == execs[a].status \in {"succeeded", "failed"} /\ ~execs[a].deleted

Init ==
  /\ jobs = [j \in JobID |-> NoRow]
  /\ entry = [r \in Replica |-> [j \in JobID |-> NoRow]]
  /\ wrapped = {}
  /\ fired = [r \in Replica |-> [j \in JobID |-> 0]]
  /\ lock = [j \in JobID |-> Free]
  /\ pc = [a \in Attempt |-> "new"]
  /\ run = [a \in Attempt |-> NoRun]
  /\ execs = [a \in Attempt |-> NoExec]
  /\ result = [a \in Attempt |-> "none"]
  /\ request = [a \in Attempt |-> NoRun]
  /\ clock = 1

-----------------------------------------------------------------------------
(* The environment: committed job writes, time, the cron runner.           *)

\* Service.Create, Update or Delete commits on some replica.
WriteJob(j) ==
  /\ jobs[j].version < MaxVersion
  /\ \/ \E d \in Definition, s \in Status :
          \/ CreateJob(j, d, s)
          \/ UpdateJob(j, jobs[j].version, d, s)
     \/ DeleteJob(j, jobs[j].version)
  /\ UNCHANGED <<entry, wrapped, fired, lock, pc, run, execs, result, request,
                 clock>>

Tick ==
  /\ clock < MaxTick
  /\ clock' = clock + 1
  /\ UNCHANGED <<jobs, entry, wrapped, fired, lock, pc, run, execs, result,
                 request>>

\* Runtime.reload replaces every cron entry of the replica.  An AddFunc error
\* ends it early: only the jobs in K, added before the error, have an entry
\* (module SchedulerRuntime says which).  Every new entry comes with a fresh
\* SkipIfStillRunning wrapper that knows nothing of the runs in progress.
Reload(r, K) ==
  /\ entry' = [entry EXCEPT ![r] =
       [j \in JobID |-> IF j \in K /\ Enabled(jobs[j]) THEN jobs[j] ELSE NoRow]]
  /\ wrapped' = {a \in wrapped : run[a].host # r}
  /\ UNCHANGED <<jobs, fired, lock, pc, run, execs, result, request, clock>>

Begin(a, call, p, e) ==
  /\ pc[a] = "new"
  /\ pc' = [pc EXCEPT ![a] = p]
  /\ run' = [run EXCEPT ![a] = call]
  /\ result' = [result EXCEPT ![a] = e]
  /\ UNCHANGED <<jobs, entry, lock, execs, request, clock>>

\* A cron entry comes due: the runner fires it once per tick and, unless its
\* wrapper is still running, calls ExecuteScheduled with the captured row.
Fire(a, r, j) ==
  /\ Enabled(entry[r][j])
  /\ fired[r][j] < clock
  /\ \A b \in wrapped : ~(run[b].host = r /\ run[b].job = j)
  /\ Begin(a, [NoRun EXCEPT !.kind = "scheduled", !.job = j, !.host = r,
                            !.tick = clock, !.want = entry[r][j].version,
                            !.snap = entry[r][j]], "load", "none")
  /\ wrapped' = wrapped \cup {a}
  /\ fired' = [fired EXCEPT ![r][j] = clock]

\* A request reaches Trigger; a version below 1 or a context without an actor
\* is refused before anything is read.
Trigger(a, r, j, expected) ==
  /\ LET call == [NoRun EXCEPT !.kind = "manual", !.job = j, !.host = r,
                               !.want = expected]
     IN  \/ expected >= 1 /\ Begin(a, call, "load", "none")
         \/ Begin(a, call, "log", "refused")
  /\ UNCHANGED <<wrapped, fired>>

-----------------------------------------------------------------------------
(* The steps of one call.                                                  *)

\* The call is over for the cron wrapper; Trigger still runs its deferred
\* finishOperation.
Return(a, e) ==
  /\ IF run[a].kind = "manual"
     THEN /\ pc' = [pc EXCEPT ![a] = "log"]
          /\ run' = [run EXCEPT ![a] = [NoRun EXCEPT !.host = run[a].host]]
     ELSE /\ pc' = [pc EXCEPT ![a] = "done"]
          /\ run' = [run EXCEPT ![a] = NoRun]
  /\ result' = [result EXCEPT ![a] = e]
  /\ wrapped' = wrapped \ {a}

Goto(a, p) ==
  /\ pc' = [pc EXCEPT ![a] = p]
  /\ UNCHANGED <<result, wrapped>>

\* Leave the critical section, to return e after the lock is released.
Leave(a, e) ==
  /\ pc' = [pc EXCEPT ![a] = "unlock"]
  /\ result' = [result EXCEPT ![a] = e]
  /\ UNCHANGED wrapped

\* Mutation: only the status is compared.
MatchesStatusOnly(row, want) == row.status = "enabled"

\* validateManualTrigger, and the check of ExecuteScheduled, on the row read.
Matches(row, want) == row.version = want /\ row.status = "enabled"

\* GetJob, authorizeScope / verifyApplication and the version check.  The
\* call may be refused whatever the row says (no grant for the application),
\* and a failing query or grant lookup is an error.
Load(a) ==
  /\ pc[a] = "load"
  /\ LET row == jobs[run[a].job]
     IN  \/ /\ Live(run[a].job)
            /\ Matches(row, run[a].want)
            /\ run' = [run EXCEPT ![a].value = row]
            /\ Goto(a, "lock")
         \/ Return(a, "error")
         \/ Return(a, "refused")
  /\ UNCHANGED <<jobs, entry, fired, lock, execs, request, clock>>

\* distlock.TryWithLock: acquired, held by someone else, or an error.  After
\* an error the key may be set or not; it then lives until its TTL.
TryLock(a) ==
  /\ pc[a] = "lock"
  /\ LET j == run[a].job
     IN  \/ /\ lock[j] = Free
            /\ lock' = [lock EXCEPT ![j] = a]
            /\ Goto(a, "insert")
            /\ UNCHANGED run
         \/ /\ lock[j] # Free
            /\ Return(a, "refused")
            /\ UNCHANGED lock
         \/ /\ Return(a, "error")
            /\ \/ UNCHANGED lock
               \/ lock[j] = Free /\ lock' = [lock EXCEPT ![j] = a]
  /\ UNCHANGED <<jobs, entry, fired, execs, request, clock>>

\* Mutation: a manual execution is inserted without looking either.
NoRecheck(a) == run[a].kind \in {"manual", "scheduled"}

\* CreateManualExecution locks the job row (FOR UPDATE) and checks it again
\* before the insert; CreateExecution inserts without looking.
Recheck(a) ==
  run[a].kind = "manual" =>
    Live(run[a].job) /\ Matches(jobs[run[a].job], run[a].want)

InsertRow(a) ==
  /\ execs' = [execs EXCEPT ![a] = NewExec]
  /\ run' = [run EXCEPT ![a].base = jobs[run[a].job]]

\* The transaction that records the execution as running.  When Commit
\* reports an error the row may be there all the same.
Insert(a) ==
  /\ pc[a] = "insert"
  /\ \/ Recheck(a) /\ InsertRow(a) /\ Goto(a, "send")
     \/ Recheck(a) /\ InsertRow(a) /\ Leave(a, "error")
     \/ /\ \/ Leave(a, "error")
           \/ /\ ~Recheck(a)
              /\ Leave(a, "refused")
        /\ UNCHANGED <<run, execs>>
  /\ UNCHANGED <<jobs, entry, fired, lock, request, clock>>

\* Invoke sends the request, or fails before it can (the context is over, no
\* connection, an open breaker).
Invoke(a) ==
  /\ pc[a] = "send"
  /\ \/ /\ request' = [request EXCEPT ![a] = [run[a] EXCEPT !.host = Free]]
        /\ Goto(a, "wait")
        /\ UNCHANGED run
     \/ /\ run' = [run EXCEPT ![a].outcome = "failed"]
        /\ Goto(a, "finish")
        /\ UNCHANGED request
  /\ UNCHANGED <<jobs, entry, fired, lock, execs, clock>>

\* Invoke returns: the response, an error, or the deadline of the context.
Answer(a) ==
  /\ pc[a] = "wait"
  /\ \E o \in {"succeeded", "failed"} : run' = [run EXCEPT ![a].outcome = o]
  /\ Goto(a, "finish")
  /\ UNCHANGED <<jobs, entry, fired, lock, execs, request, clock>>

\* Mutation: a status the table does not know.
FinishRowMisspelt(a) ==
  execs' = [execs EXCEPT ![a].status = "finished", ![a].version = @ + 1]

\* UPDATE job_executions ... WHERE id = a AND version = 1.
FinishRow(a) ==
  execs' = [execs EXCEPT ![a].status = run[a].outcome, ![a].version = @ + 1]

\* Mutation: finishErr is dropped.
FinishErrorIgnored(a) ==
  /\ pc[a] = "finish"
  /\ FinishRow(a) \/ UNCHANGED execs
  /\ Leave(a, IF run[a].outcome = "succeeded" THEN "ok" ELSE "failed")
  /\ UNCHANGED <<jobs, entry, fired, lock, run, request, clock>>

\* The transaction that records the outcome, again with a commit that may
\* succeed though it reports an error.
FinishExecution(a) ==
  /\ pc[a] = "finish"
  /\ \/ /\ execs[a].version = NewExec.version
        /\ FinishRow(a)
        /\ \/ Leave(a, IF run[a].outcome = "succeeded" THEN "ok" ELSE "failed")
           \/ Leave(a, "error")
     \/ /\ \/ execs[a].version # NewExec.version /\ Leave(a, "refused")
           \/ Leave(a, "error")
        /\ UNCHANGED execs
  /\ UNCHANGED <<jobs, entry, fired, lock, run, request, clock>>

\* Mutation: the call waits until it can delete its own token.
UnlockOwnedOnly(a) ==
  /\ pc[a] = "unlock"
  /\ lock[run[a].job] = a
  /\ lock' = [lock EXCEPT ![run[a].job] = Free]
  /\ Return(a, result[a])
  /\ UNCHANGED <<jobs, entry, fired, execs, request, clock>>

\* TryWithLock deletes the key if it still holds the attempt's token; a
\* failure to do so leaves the key to its TTL and spoils a success.
Unlock(a) ==
  /\ pc[a] = "unlock"
  /\ LET j == run[a].job
     IN  \/ /\ lock' = IF lock[j] = a THEN [lock EXCEPT ![j] = Free] ELSE lock
            /\ Return(a, result[a])
         \/ /\ Return(a, IF result[a] = "ok" THEN "error" ELSE result[a])
            /\ UNCHANGED lock
  /\ UNCHANGED <<jobs, entry, fired, execs, request, clock>>

\* finishOperation: an operation log that cannot be queued turns a success
\* into Unavailable, and leaves an error as it is.
FinishOperation(a) ==
  /\ pc[a] = "log"
  /\ pc' = [pc EXCEPT ![a] = "done"]
  /\ run' = [run EXCEPT ![a] = NoRun]
  /\ \/ UNCHANGED result
     \/ result[a] = "ok" /\ result' = [result EXCEPT ![a] = "error"]
  /\ UNCHANGED <<jobs, entry, wrapped, fired, lock, execs, request, clock>>

-----------------------------------------------------------------------------
(* Redis, the cleaner and failures.                                        *)

\* The attempt may still act on what the lock protects.
Critical(a) == pc[a] \in {"insert", "send", "wait", "finish"}

\* Mutation: a TTL without the margin over the job's timeout.
ExpireEarly(j) ==
  /\ lock[j] # Free
  /\ lock' = [lock EXCEPT ![j] = Free]
  /\ UNCHANGED <<jobs, entry, wrapped, fired, pc, run, execs, result, request,
                 clock>>

\* Mutation: a key without a TTL, which only its owner removes.
ExpireNever(j) ==
  /\ lock[j] # Free
  /\ pc[lock[j]] = "unlock"
  /\ lock' = [lock EXCEPT ![j] = Free]
  /\ UNCHANGED <<jobs, entry, wrapped, fired, pc, run, execs, result, request,
                 clock>>

\* The key reaches its TTL.  Module ExecutionLease shows that this does not
\* happen before the holder has left its critical section or died.
Expire(j) ==
  /\ lock[j] # Free
  /\ ~Critical(lock[j])
  /\ lock' = [lock EXCEPT ![j] = Free]
  /\ UNCHANGED <<jobs, entry, wrapped, fired, pc, run, execs, result, request,
                 clock>>

\* Mutation: the cleaner forgets to ask for a terminal status.
CleanAnyStatus(S) ==
  /\ \A a \in S : execs[a].status # "none" /\ ~execs[a].deleted
  /\ execs' = [a \in Attempt |->
       IF a \in S THEN [execs[a] EXCEPT !.deleted = TRUE, !.version = @ + 1]
       ELSE execs[a]]
  /\ UNCHANGED <<jobs, entry, wrapped, fired, lock, pc, run, result, request,
                 clock>>

\* One transaction of an ExecutionCleaner: terminal rows S that are old enough
\* (module ExecutionCleaner says which) are soft deleted.
Clean(S) ==
  /\ \A a \in S : Terminal(a)
  /\ execs' = [a \in Attempt |->
       IF a \in S THEN [execs[a] EXCEPT !.deleted = TRUE, !.version = @ + 1]
       ELSE execs[a]]
  /\ UNCHANGED <<jobs, entry, wrapped, fired, lock, pc, run, result, request,
                 clock>>

\* The process dies: its calls never answer and its cron entries are gone,
\* but locks and rows stay behind.
Crash(r) ==
  /\ LET Dead == {a \in Attempt : run[a].host = r}
     IN  /\ pc' = [a \in Attempt |-> IF a \in Dead THEN "crashed" ELSE pc[a]]
         /\ run' = [a \in Attempt |-> IF a \in Dead THEN NoRun ELSE run[a]]
         /\ result' = [a \in Attempt |->
                         IF a \in Dead THEN "none" ELSE result[a]]
         /\ wrapped' = wrapped \ Dead
  /\ entry' = [entry EXCEPT ![r] = [j \in JobID |-> NoRow]]
  /\ UNCHANGED <<jobs, fired, lock, execs, request, clock>>

-----------------------------------------------------------------------------

Step(a) ==
  \/ Load(a)
  \/ TryLock(a)
  \/ Insert(a)
  \/ Invoke(a)
  \/ Answer(a)
  \/ FinishExecution(a)
  \/ Unlock(a)
  \/ FinishOperation(a)

Next ==
  \/ \E j \in JobID : WriteJob(j)
  \/ Tick
  \/ \E r \in Replica, K \in SUBSET JobID : Reload(r, K)
  \/ \E a \in Attempt, r \in Replica, j \in JobID : Fire(a, r, j)
  \/ \E a \in Attempt, r \in Replica, j \in JobID, v \in 0..MaxVersion :
       Trigger(a, r, j, v)
  \/ \E a \in Attempt : Step(a)
  \/ \E j \in JobID : Expire(j)
  \/ \E S \in SUBSET Attempt : Clean(S)
  \/ \E r \in Replica : Crash(r)

Spec == Init /\ [][Next]_vars

\* Every step of a call is bounded by a context deadline (the job's timeout,
\* five seconds for the last transaction), and a Redis key by its TTL.
Fairness ==
  /\ \A a \in Attempt : WF_vars(Step(a))
  /\ \A j \in JobID : WF_vars(Expire(j))

FairSpec == Spec /\ Fairness

-----------------------------------------------------------------------------
(* Properties.                                                             *)

TypeOK ==
  /\ jobs \in [JobID -> Row]
  /\ entry \in [Replica -> [JobID -> Row]]
  /\ wrapped \subseteq Attempt
  /\ fired \in [Replica -> [JobID -> Nat]]
  /\ lock \in [JobID -> Attempt \cup {Free}]
  /\ pc \in [Attempt -> PC]
  /\ run \in [Attempt -> Run]
  /\ execs \in [Attempt -> Exec]
  /\ result \in [Attempt -> Result]
  /\ request \in [Attempt -> Run]
  /\ clock \in Nat

\* The lock on the job id (service.go:253): no two calls, on whatever replica,
\* are between the insert of their execution row and the recording of its
\* outcome for the same job, across crashes, leaked and expired locks.
MutualExclusion ==
  \A a, b \in Attempt :
    Critical(a) /\ Critical(b) /\ run[a].job = run[b].job => a = b

\* A manual trigger runs what the caller saw (Trigger, CreateManualExecution):
\* if its request was sent, then the row it was built from was the job's row at
\* the moment the execution was recorded, enabled, with the expected version.
ManualRunsPinnedVersion ==
  \A a \in Attempt : request[a].kind = "manual" =>
    /\ request[a].value = request[a].base
    /\ Enabled(request[a].base)
    /\ request[a].base.version = request[a].want

\* A scheduled run sends the definition its cron entry was installed with
\* (ExecuteScheduled compares versions only, and invokes with the row it has
\* read again): equal versions are equal rows, however often a job changes.
ScheduledRunsFiredDefinition ==
  \A a \in Attempt :
    request[a].kind = "scheduled" => request[a].value = request[a].snap

\* A caller told that his request was refused can rely on it: nothing was sent
\* and no execution row exists.  FinishExecution could answer Conflict after
\* the fact if anything else wrote the row meanwhile.
RefusedMeansNotRun ==
  \A a \in Attempt :
    result[a] = "refused" => ~Sent(a) /\ execs[a] = NoExec

\* What a finished call reports agrees with the table: "ok" stands for a
\* recorded success of a request that was sent, "failed" for a recorded
\* failure, and a row left running for ever is only ever left behind by a call
\* that reported an error.
ReportMatchesRow ==
  \A a \in Attempt : pc[a] = "done" =>
    /\ result[a] = "ok" => execs[a].status = "succeeded" /\ Sent(a)
    /\ result[a] = "failed" => execs[a].status = "failed"
    /\ execs[a].status = "running" => result[a] = "error"

\* The state of an execution record as its readers see it.
RowState(a) == IF execs[a].deleted THEN "deleted" ELSE execs[a].status

Ledger == INSTANCE ExecutionLedger
            WITH holder <- lock, row <- [a \in Attempt |-> RowState(a)]

\* The service keeps the promise of ExecutionLedger: execution rows are only
\* written by the holder of the job's lock, in the order none, running, final
\* status, deleted, whatever crashes, expires or fails to commit in between.
ImplementsLedger == Ledger!LedgerSpec

\* Every call that starts returns, unless its process dies.
EveryCallReturns ==
  \A a \in Attempt : pc[a] # "new" ~> pc[a] \in {"done", "crashed"}

\* A job is never locked out for good: whoever holds its lock, whether he
\* finishes, crashes or fails to release it, does not hold it for ever.
LockIsReleased ==
  \A j \in JobID, a \in Attempt : lock[j] = a ~> lock[j] # a

\* What ExecuteScheduled's check promises ("scheduled job definition changed
\* before execution"): a scheduled execution is recorded only against the
\* definition it was fired for.
ScheduledNeverStale ==
  \A a \in Attempt :
    request[a].kind = "scheduled" => request[a].base = request[a].snap

\* What the lock is there for according to the README: one tick of a job does
\* not run on two replicas.
OncePerTick ==
  \A a, b \in Attempt :
    /\ request[a].kind = "scheduled" /\ request[b].kind = "scheduled"
    /\ request[a].job = request[b].job /\ request[a].tick = request[b].tick
    => a = b

-----------------------------------------------------------------------------
(* The inductive invariant behind MutualExclusion, RefusedMeansNotRun,     *)
(* ReportMatchesRow and the two properties on versions.                    *)

\* Whoever is in the critical section holds the lock.
OwnerHoldsLock == \A a \in Attempt : Critical(a) => lock[run[a].job] = a

\* How far the execution row, the request and the result have got.
RowFollowsPC ==
  \A a \in Attempt :
    /\ pc[a] \in {"new", "load", "lock", "insert"} =>
         execs[a] = NoExec /\ ~Sent(a)
    /\ pc[a] \in {"load", "lock", "insert", "send"} => run[a].kind # "none"
    /\ pc[a] \in {"send", "wait", "finish"} => execs[a] = NewExec
    /\ pc[a] = "wait" => Sent(a)
    /\ pc[a] = "finish" => run[a].outcome # "none"
    /\ pc[a] = "finish" /\ run[a].outcome = "succeeded" => Sent(a)
    /\ pc[a] \notin {"unlock", "log", "done"} => result[a] = "none"

\* What a pending or given result says about the row.
ResultFollowsRow ==
  \A a \in Attempt :
    /\ result[a] = "refused" => ~Sent(a) /\ execs[a] = NoExec
    /\ result[a] = "ok" => execs[a].status = "succeeded" /\ Sent(a)
    /\ result[a] = "failed" => execs[a].status = "failed"
    /\ pc[a] \in {"unlock", "log", "done"} /\ execs[a].status = "running" =>
         result[a] = "error"

\* A copy of a job's row is either out of date or still right: two rows of a
\* job with the same version are the same row.
Known(row, j) ==
  /\ row.version <= jobs[j].version
  /\ row.version = jobs[j].version => row = jobs[j]

EntriesKnown ==
  \A r \in Replica, j \in JobID : Enabled(entry[r][j]) => Known(entry[r][j], j)

SnapKnown ==
  \A a \in Attempt : pc[a] = "load" /\ run[a].kind = "scheduled" =>
    /\ Known(run[a].snap, run[a].job)
    /\ run[a].want = run[a].snap.version

ValueKnown ==
  \A a \in Attempt : pc[a] \in {"lock", "insert"} =>
    /\ Known(run[a].value, run[a].job)
    /\ Enabled(run[a].value)
    /\ run[a].value.version = run[a].want

ValueRight ==
  \A a \in Attempt :
    /\ pc[a] \in {"lock", "insert", "send"} /\ run[a].kind = "scheduled" =>
         run[a].value = run[a].snap
    /\ pc[a] = "send" /\ run[a].kind = "manual" =>
         /\ run[a].value = run[a].base
         /\ Enabled(run[a].base)
         /\ run[a].base.version = run[a].want

IndInv ==
  /\ TypeOK
  /\ OwnerHoldsLock
  /\ RowFollowsPC
  /\ ResultFollowsRow
  /\ EntriesKnown
  /\ SnapKnown
  /\ ValueKnown
  /\ ValueRight
  /\ ManualRunsPinnedVersion
  /\ ScheduledRunsFiredDefinition

=============================================================================
