------------------------------ MODULE JobStore ------------------------------
(***************************************************************************)
(* The scheduled_jobs table and the SQL statements SQLRepository runs on   *)
(* one of its rows (internal/job/repository.go).  Every statement runs in  *)
(* a transaction of its own and touches one row, so it is one atomic step. *)
(*                                                                         *)
(* A row keeps what the rest of the system tells apart: the optimistic-    *)
(* lock version, the status, whether deleted_at is set, and the invocation *)
(* target (cron expression, upstream, method, request, timeout) as one     *)
(* opaque definition.  A job id that was never inserted has version 0.     *)
(***************************************************************************)
EXTENDS Naturals

CONSTANTS
  JobID,        \* job identifiers (uuid.NewString, never reused)
  Definition,   \* what a job calls, and when
  MaxVersion    \* bound: how often one job may be written

ASSUME StoreAssumption ==
  /\ Definition # {}
  /\ MaxVersion \in Nat

VARIABLE
  jobs          \* the table: jobs[j] is the row with id j

-----------------------------------------------------------------------------

Status == {"enabled", "disabled"}

Row == [version : Nat, status : Status, deleted : BOOLEAN, def : Definition]

\* The absence of a row.
NoRow == [version |-> 0, status |-> "disabled", deleted |-> FALSE,
          def |-> CHOOSE d \in Definition : TRUE]

\* SELECT ... WHERE id = j AND deleted_at IS NULL returns a row.
Live(j) == jobs[j].version > 0 /\ ~jobs[j].deleted

\* A row that ListEnabled returns and the execution paths accept.
Enabled(row) == row.version > 0 /\ ~row.deleted /\ row.status = "enabled"

\* INSERT of a new job: version 1, not deleted.
CreateJob(j, d, s) ==
  /\ jobs[j].version = 0
  /\ jobs' = [jobs EXCEPT ![j] =
                [version |-> 1, status |-> s, deleted |-> FALSE, def |-> d]]

\* UPDATE ... SET version = version + 1 WHERE id = j AND version = expected
\* AND deleted_at IS NULL, when it matches a row.
UpdateJob(j, expected, d, s) ==
  /\ Live(j)
  /\ jobs[j].version = expected
  /\ jobs' = [jobs EXCEPT ![j] =
                [version |-> expected + 1, status |-> s, deleted |-> FALSE,
                 def |-> d]]

\* Mutation: a deletion that is kept in the status column.
DeleteJobAsStatus(j, expected) ==
  /\ Live(j)
  /\ jobs[j].version = expected
  /\ jobs' = [jobs EXCEPT ![j].version = expected + 1, ![j].status = "deleted"]

\* The soft delete, under the same condition; the status column is kept.
DeleteJob(j, expected) ==
  /\ Live(j)
  /\ jobs[j].version = expected
  /\ jobs' = [jobs EXCEPT ![j].version = expected + 1, ![j].deleted = TRUE]

=============================================================================
