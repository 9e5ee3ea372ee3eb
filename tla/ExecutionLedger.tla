--------------------------- MODULE ExecutionLedger ---------------------------
(***************************************************************************)
(* What the execution history promises, whatever the service does inside:  *)
(* every job has at most one holder at a time, an execution is recorded as *)
(* running and later given its final status only by the holder of its job, *)
(* a final status is only ever followed by the removal of the row, and a   *)
(* row whose writer lost the job before giving it a status stays running   *)
(* for ever.  JobExecution implements this specification.                  *)
(***************************************************************************)

CONSTANTS
  JobID,
  Attempt,
  Free

VARIABLES
  holder,   \* holder[j]: the attempt that may run job j, or Free
  row       \* row[a]: the state of the execution record of attempt a

ledgerVars == <<holder, row>>

LedgerInit ==
  /\ holder = [j \in JobID |-> Free]
  /\ row = [a \in Attempt |-> "none"]

\* An attempt that has recorded nothing yet becomes the holder of a free job.
Take(j, a) ==
  /\ holder[j] = Free
  /\ row[a] = "none"
  /\ holder' = [holder EXCEPT ![j] = a]
  /\ UNCHANGED row

Record(j, a) ==
  /\ holder[j] = a
  /\ row[a] = "none"
  /\ row' = [row EXCEPT ![a] = "running"]
  /\ UNCHANGED holder

Complete(j, a) ==
  /\ holder[j] = a
  /\ row[a] = "running"
  /\ \E s \in {"succeeded", "failed"} : row' = [row EXCEPT ![a] = s]
  /\ UNCHANGED holder

Release(j) ==
  /\ holder' = [holder EXCEPT ![j] = Free]
  /\ UNCHANGED row

Purge(S) ==
  /\ \A a \in S : row[a] \in {"succeeded", "failed"}
  /\ row' = [a \in Attempt |-> IF a \in S THEN "deleted" ELSE row[a]]
  /\ UNCHANGED holder

LedgerNext ==
  \/ \E j \in JobID, a \in Attempt : Take(j, a) \/ Record(j, a) \/ Complete(j, a)
  \/ \E j \in JobID : Release(j)
  \/ \E S \in SUBSET Attempt : Purge(S)

LedgerSpec == LedgerInit /\ [][LedgerNext]_ledgerVars

=============================================================================
