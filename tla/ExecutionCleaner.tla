-------------------------- MODULE ExecutionCleaner --------------------------
(***************************************************************************)
(* job.ExecutionCleaner (internal/job/cleanup.go): every replica soft      *)
(* deletes old terminal executions in bounded batches.  A pass repeats a   *)
(* transaction that selects the oldest batch and updates it, until a       *)
(* transaction deletes less than a full batch; then it sleeps.  The        *)
(* replicas do not coordinate: two may select the same rows.               *)
(***************************************************************************)
EXTENDS Naturals, FiniteSets

CONSTANTS
  Execution,   \* ids of job_executions rows, ordered
  Cleaner,     \* one per replica
  Batch,       \* execution_cleanup_batch_size
  Retention,   \* execution_retention
  MaxTime      \* bound: how long the clock runs

ASSUME CleanerAssumption ==
  /\ Execution \subseteq Nat
  /\ Batch \in Nat \ {0} /\ Retention \in Nat /\ MaxTime \in Nat

VARIABLES
  now,
  rows,        \* the table
  pc,          \* each cleaner: off, sleep, select or update
  at,          \* the time the current transaction took for now
  ids          \* the ids its SELECT returned

vars == <<now, rows, pc, at, ids>>

ExecRow == [status : {"running", "succeeded", "failed"}, finished : Nat,
            version : Nat, deleted : BOOLEAN]

Init ==
  /\ now = 0
  /\ rows = [e \in Execution |-> [status |-> "running", finished |-> 0,
                                  version |-> 1, deleted |-> FALSE]]
  /\ pc = [c \in Cleaner |-> "off"]
  /\ at = [c \in Cleaner |-> 0]
  /\ ids = [c \in Cleaner |-> {}]

-----------------------------------------------------------------------------
(* The service finishes executions (FinishExecution), time passes.         *)

Finish(e, s) ==
  /\ rows[e].status = "running"
  /\ rows' = [rows EXCEPT ![e].status = s, ![e].finished = now, ![e].version = 2]
  /\ UNCHANGED <<now, pc, at, ids>>

Tick ==
  /\ now < MaxTime
  /\ now' = now + 1
  /\ UNCHANGED <<rows, pc, at, ids>>

-----------------------------------------------------------------------------
(* A cleaner.                                                              *)

\* Mutation: the cutoff is now instead of now - retention.
ExpiredAtOnce(e, t) ==
  /\ rows[e].status \in {"succeeded", "failed"}
  /\ rows[e].finished < t
  /\ ~rows[e].deleted

\* The WHERE clause of both statements, for a transaction that began at t.
Expired(e, t) ==
  /\ rows[e].status \in {"succeeded", "failed"}
  /\ rows[e].finished + Retention < t
  /\ ~rows[e].deleted

\* ORDER BY finished_at, id.
Before(e, f) ==
  \/ rows[e].finished < rows[f].finished
  \/ rows[e].finished = rows[f].finished /\ e < f

\* LIMIT: the rows with less than Batch rows before them.
Oldest(E) == {e \in E : Cardinality({f \in E : Before(f, e)}) < Batch}

\* Mutation: clean is only called when the process starts.
BeginOnce(c) ==
  /\ pc[c] = "off"
  /\ pc' = [pc EXCEPT ![c] = "select"]
  /\ at' = [at EXCEPT ![c] = now]
  /\ UNCHANGED <<now, rows, ids>>

\* clean is called when the process starts and when its interval has passed.
Begin(c) ==
  /\ pc[c] \in {"off", "sleep"}
  /\ pc' = [pc EXCEPT ![c] = "select"]
  /\ at' = [at EXCEPT ![c] = now]
  /\ UNCHANGED <<now, rows, ids>>

\* Nothing is left of a transaction once it is over; the next one of the pass
\* takes the time again.
Over(c, p) ==
  /\ pc' = [pc EXCEPT ![c] = p]
  /\ at' = [at EXCEPT ![c] = IF p = "select" THEN now ELSE 0]
  /\ ids' = [ids EXCEPT ![c] = {}]

\* Mutation: an empty batch does not end the pass.
SelectAgain(c) ==
  /\ pc[c] = "select"
  /\ LET found == Oldest({e \in Execution : Expired(e, at[c])})
     IN  \/ found = {} /\ Over(c, "select")
         \/ /\ found # {}
            /\ ids' = [ids EXCEPT ![c] = found]
            /\ pc' = [pc EXCEPT ![c] = "update"]
            /\ UNCHANGED at
  /\ UNCHANGED <<now, rows>>

\* The SELECT; an empty answer ends the pass.
Select(c) ==
  /\ pc[c] = "select"
  /\ LET found == Oldest({e \in Execution : Expired(e, at[c])})
     IN  \/ found = {} /\ Over(c, "sleep")
         \/ /\ found # {}
            /\ ids' = [ids EXCEPT ![c] = found]
            /\ pc' = [pc EXCEPT ![c] = "update"]
            /\ UNCHANGED at
  /\ UNCHANGED <<now, rows>>

\* Mutation: the UPDATE trusts the list of ids.
DeletedUnchecked(c) == ids[c]

\* The rows the UPDATE matches: it waits for the row locks of a concurrent
\* transaction and evaluates its WHERE clause again.
Deleted(c) == {e \in ids[c] : Expired(e, at[c])}

SoftDelete(S) ==
  rows' = [e \in Execution |->
    IF e \in S THEN [rows[e] EXCEPT !.deleted = TRUE, !.version = @ + 1]
    ELSE rows[e]]

\* The UPDATE and the commit.  A full batch is followed by the next
\* transaction, with a new idea of now; anything less ends the pass.
Update(c) ==
  /\ pc[c] = "update"
  /\ SoftDelete(Deleted(c))
  /\ Over(c, IF Cardinality(Deleted(c)) < Batch THEN "sleep" ELSE "select")
  /\ UNCHANGED now

\* A statement or the commit fails: the pass is over.  A commit may have taken
\* effect all the same.
Fails(c) ==
  /\ pc[c] \in {"select", "update"}
  /\ Over(c, "sleep")
  /\ \/ UNCHANGED rows
     \/ pc[c] = "update" /\ SoftDelete(Deleted(c))
  /\ UNCHANGED now

\* stop cancels the context, or the process dies.
Stop(c) ==
  /\ pc[c] # "off"
  /\ Over(c, "off")
  /\ UNCHANGED <<now, rows>>

Next ==
  \/ \E e \in Execution, s \in {"succeeded", "failed"} : Finish(e, s)
  \/ Tick
  \/ \E c \in Cleaner : Begin(c) \/ Select(c) \/ Update(c) \/ Fails(c) \/ Stop(c)

Spec == Init /\ [][Next]_vars

\* A cleaner that keeps being started and given its interval does run, and
\* the database does not fail its statements for ever.
Fairness ==
  \A c \in Cleaner : WF_vars(Begin(c)) /\ SF_vars(Select(c)) /\ SF_vars(Update(c))

FairSpec == Spec /\ Fairness

-----------------------------------------------------------------------------

TypeOK ==
  /\ now \in Nat
  /\ rows \in [Execution -> ExecRow]
  /\ pc \in [Cleaner -> {"off", "sleep", "select", "update"}]
  /\ at \in [Cleaner -> Nat]
  /\ ids \in [Cleaner -> SUBSET Execution]

\* Overlapping cleaners delete a row once (repository.go:219): its version,
\* its deletion time and the count of deleted rows that decides whether the
\* pass goes on are not touched by the second one.
DeletedOnce ==
  \A e \in Execution :
    rows[e].version = IF rows[e].status = "running" THEN 1
                      ELSE IF rows[e].deleted THEN 3 ELSE 2

\* A row disappears only when it has a final status and has been kept for the
\* retention time (README: 90 days), whoever deletes it and however late.
RetentionRespected ==
  [][\A e \in Execution : rows'[e].deleted /\ ~rows[e].deleted =>
       /\ rows[e].status \in {"succeeded", "failed"}
       /\ rows[e].finished + Retention < now]_vars

\* Every expired row is deleted in the end, though a pass stops early when
\* another replica took part of its batch, a statement failed or the process
\* was stopped.
EventuallyPurged ==
  \A e \in Execution : Expired(e, now) ~> rows[e].deleted

\* A pass ends: the loop runs again only after a full batch of rows is gone.
PassEnds == \A c \in Cleaner : pc[c] = "select" ~> pc[c] \in {"sleep", "off"}

=============================================================================
