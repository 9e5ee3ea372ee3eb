----------------------- MODULE ExecutionCleanerProofs -----------------------
(***************************************************************************)
(* What the cleaners of all replicas together do to a row of               *)
(* job_executions, for any number of cleaners and rows, every batch size   *)
(* and every retention time: they delete it once, and not before its time. *)
(***************************************************************************)
EXTENDS ExecutionCleaner, TLAPS

\* No row is deleted while its execution is in progress.
RunningIsKept == \A e \in Execution : rows[e].status = "running" => ~rows[e].deleted

\* A transaction's idea of now may be late and is never early.
CutoffIsPast == \A c \in Cleaner : at[c] <= now

\* The inductive invariant behind both properties.
CleanerInv == TypeOK /\ DeletedOnce /\ RunningIsKept /\ CutoffIsPast

-----------------------------------------------------------------------------

\* The table begins with executions in progress and idle cleaners.
LEMMA CleanerInit == Init => CleanerInv
BY CleanerAssumption
   DEF Init, CleanerInv, TypeOK, ExecRow, DeletedOnce, RunningIsKept, CutoffIsPast

\* The end of a transaction concerns the cleaner only.
LEMMA OverKeeps ==
  ASSUME TypeOK, CutoffIsPast, NEW c \in Cleaner,
         NEW p \in {"off", "sleep", "select"}, Over(c, p), UNCHANGED now
  PROVE  /\ pc' \in [Cleaner -> {"off", "sleep", "select", "update"}]
         /\ at' \in [Cleaner -> Nat]
         /\ ids' \in [Cleaner -> SUBSET Execution]
         /\ CutoffIsPast'
<1>1. now \in Nat /\ now' = now
  BY DEF TypeOK
<1>2. pc' \in [Cleaner -> {"off", "sleep", "select", "update"}]
  BY DEF Over, TypeOK
<1>3. at' \in [Cleaner -> Nat] /\ CutoffIsPast'
  BY <1>1 DEF Over, TypeOK, CutoffIsPast
<1>4. ids' \in [Cleaner -> SUBSET Execution]
  BY DEF Over, TypeOK
<1>5. QED
  BY <1>2, <1>3, <1>4

\* What the UPDATE makes of a row.
LEMMA DeletedRow ==
  ASSUME NEW x \in ExecRow, NEW y,
         y = [x EXCEPT !.deleted = TRUE, !.version = x.version + 1]
  PROVE  /\ y \in ExecRow /\ y.deleted
         /\ y.version = x.version + 1 /\ y.status = x.status
<1> DEFINE n == x.version + 1
<1>1. n \in Nat /\ y = [x EXCEPT !.deleted = TRUE, !.version = n]
  BY DEF ExecRow
<1> HIDE DEF n
<1>2. y \in ExecRow /\ y.deleted /\ y.version = n /\ y.status = x.status
  BY <1>1 DEF ExecRow
<1>3. QED
  BY <1>2 DEF n

\* An UPDATE that evaluates its WHERE clause again takes each row at most from
\* version 2 to version 3.
LEMMA SoftDeleteKeeps ==
  ASSUME TypeOK, DeletedOnce, RunningIsKept, NEW c \in Cleaner,
         SoftDelete(Deleted(c))
  PROVE  /\ rows' \in [Execution -> ExecRow]
         /\ DeletedOnce' /\ RunningIsKept'
<1>1. \A e \in Execution :
        rows'[e] = IF e \in Deleted(c)
                   THEN [rows[e] EXCEPT !.deleted = TRUE,
                                        !.version = rows[e].version + 1]
                   ELSE rows[e]
  BY DEF SoftDelete
<1>2. \A e \in Deleted(c) : e \in Execution /\ Expired(e, at[c])
  BY DEF Deleted, TypeOK
<1>3. ASSUME NEW e \in Execution
      PROVE  /\ rows'[e] \in ExecRow
             /\ rows'[e].version = IF rows'[e].status = "running" THEN 1
                                   ELSE IF rows'[e].deleted THEN 3 ELSE 2
             /\ rows'[e].status = "running" => ~rows'[e].deleted
  <2>1. rows[e] \in ExecRow
    BY DEF TypeOK
  <2>2. CASE e \in Deleted(c)
    <3>1. /\ rows[e].status \in {"succeeded", "failed"} /\ ~rows[e].deleted
          /\ rows[e].version = 2
      BY <1>2, <2>2 DEF Expired, DeletedOnce
    <3>2. rows'[e] = [rows[e] EXCEPT !.deleted = TRUE,
                                     !.version = rows[e].version + 1]
      BY <1>1, <2>2
    <3>3. /\ rows'[e] \in ExecRow /\ rows'[e].deleted
          /\ rows'[e].version = rows[e].version + 1
          /\ rows'[e].status = rows[e].status
      BY <2>1, <3>2, DeletedRow
    <3>4. QED
      BY <3>1, <3>3
  <2>3. CASE e \notin Deleted(c)
    BY <1>1, <2>1, <2>3 DEF DeletedOnce, RunningIsKept
  <2>4. QED
    BY <2>2, <2>3
<1>4. rows' \in [Execution -> ExecRow]
  BY <1>3 DEF SoftDelete
<1>5. QED
  BY <1>3, <1>4 DEF DeletedOnce, RunningIsKept

\* Every step of the service, the clock and any cleaner keeps the invariant.
LEMMA CleanerStep == CleanerInv /\ [Next]_vars => CleanerInv'
<1> SUFFICES ASSUME CleanerInv, [Next]_vars
             PROVE  CleanerInv'
  OBVIOUS
<1>0. TypeOK /\ DeletedOnce /\ RunningIsKept /\ CutoffIsPast
  BY DEF CleanerInv
<1>1. ASSUME NEW e \in Execution, NEW s \in {"succeeded", "failed"}, Finish(e, s)
      PROVE  CleanerInv'
  <2>1. rows' = [rows EXCEPT ![e] = [rows[e] EXCEPT !.status = s, !.finished = now, !.version = 2]]
    BY <1>1 DEF Finish
  <2>2. rows[e] \in ExecRow /\ rows[e].status = "running" /\ ~rows[e].deleted /\ now \in Nat
    BY <1>0, <1>1 DEF Finish, TypeOK, RunningIsKept
  <2>3. TypeOK'
    BY <1>0, <1>1, <2>1, <2>2 DEF Finish, TypeOK, ExecRow
  <2>4. DeletedOnce' /\ RunningIsKept'
    BY <1>0, <2>1, <2>2 DEF TypeOK, ExecRow, DeletedOnce, RunningIsKept
  <2>5. CutoffIsPast'
    BY <1>0, <1>1 DEF Finish, CutoffIsPast
  <2>6. QED
    BY <2>3, <2>4, <2>5 DEF CleanerInv
<1>2. CASE Tick
  BY <1>0, <1>2 DEF Tick, CleanerInv, TypeOK, DeletedOnce, RunningIsKept, CutoffIsPast
<1>3. ASSUME NEW c \in Cleaner, Begin(c)
      PROVE  CleanerInv'
  BY <1>0, <1>3 DEF Begin, CleanerInv, TypeOK, DeletedOnce, RunningIsKept, CutoffIsPast
<1>4. ASSUME NEW c \in Cleaner, Select(c)
      PROVE  CleanerInv'
  <2>1. UNCHANGED <<now, rows>> /\ DeletedOnce' /\ RunningIsKept'
    BY <1>0, <1>4 DEF Select, DeletedOnce, RunningIsKept
  <2>2. CASE Over(c, "sleep")
    BY <1>0, <2>1, <2>2, OverKeeps DEF CleanerInv, TypeOK
  <2>3. CASE ~Over(c, "sleep")
    <3> DEFINE found == Oldest({e \in Execution : Expired(e, at[c])})
    <3>1. /\ ids' = [ids EXCEPT ![c] = found]
          /\ pc' = [pc EXCEPT ![c] = "update"]
          /\ UNCHANGED at
      BY <1>4, <2>3 DEF Select
    <3>2. found \subseteq Execution
      BY DEF Oldest
    <3> HIDE DEF found
    <3>3. TypeOK' /\ CutoffIsPast'
      BY <1>0, <2>1, <3>1, <3>2 DEF TypeOK, CutoffIsPast
    <3>4. QED
      BY <2>1, <3>3 DEF CleanerInv
  <2>4. QED
    BY <2>2, <2>3
<1>5. ASSUME NEW c \in Cleaner, Update(c)
      PROVE  CleanerInv'
  <2> DEFINE p == IF Cardinality(Deleted(c)) < Batch THEN "sleep" ELSE "select"
  <2>1. p \in {"off", "sleep", "select"} /\ Over(c, p) /\ UNCHANGED now
    BY <1>5 DEF Update
  <2> HIDE DEF p
  <2>2. SoftDelete(Deleted(c))
    BY <1>5 DEF Update
  <2>3. QED
    BY <1>0, <2>1, <2>2, OverKeeps, SoftDeleteKeeps DEF CleanerInv, TypeOK
<1>6. ASSUME NEW c \in Cleaner, Fails(c)
      PROVE  CleanerInv'
  <2>1. Over(c, "sleep") /\ UNCHANGED now
    BY <1>6 DEF Fails
  <2>2. rows' \in [Execution -> ExecRow] /\ DeletedOnce' /\ RunningIsKept'
    <3>1. CASE UNCHANGED rows
      BY <1>0, <3>1 DEF TypeOK, DeletedOnce, RunningIsKept
    <3>2. CASE SoftDelete(Deleted(c))
      BY <1>0, <3>2, SoftDeleteKeeps
    <3>3. QED
      BY <1>6, <3>1, <3>2 DEF Fails
  <2>3. QED
    BY <1>0, <2>1, <2>2, OverKeeps DEF CleanerInv, TypeOK
<1>7. ASSUME NEW c \in Cleaner, Stop(c)
      PROVE  CleanerInv'
  <2>1. Over(c, "off") /\ UNCHANGED <<now, rows>>
    BY <1>7 DEF Stop
  <2>2. DeletedOnce' /\ RunningIsKept'
    BY <1>0, <2>1 DEF DeletedOnce, RunningIsKept
  <2>3. QED
    BY <1>0, <2>1, <2>2, OverKeeps DEF CleanerInv, TypeOK
<1>8. CASE UNCHANGED vars
  BY <1>0, <1>8 DEF vars, CleanerInv, TypeOK, DeletedOnce, RunningIsKept, CutoffIsPast
<1>9. QED
  BY <1>1, <1>2, <1>3, <1>4, <1>5, <1>6, <1>7, <1>8 DEF Next

\* What the table and the cleaners' transactions (cleanup.go, repository.go:205)
\* are like in every reachable state.
THEOREM CleanerInvariant == Spec => []CleanerInv
BY CleanerInit, CleanerStep, PTL DEF Spec

\* Overlapping cleaners delete a row once, however many they are.
THEOREM DeletedOnceHolds == Spec => []DeletedOnce
<1>1. CleanerInv => DeletedOnce
  BY DEF CleanerInv
<1>2. QED
  BY <1>1, CleanerInvariant, PTL

-----------------------------------------------------------------------------

\* Whoever sets deleted_at has seen the row in its final status, and beyond its
\* retention at a time that is not later than now.
LEMMA DeletionIsDue ==
  ASSUME CleanerInv, NEW c \in Cleaner, SoftDelete(Deleted(c)),
         NEW e \in Execution, rows'[e].deleted, ~rows[e].deleted
  PROVE  /\ rows[e].status \in {"succeeded", "failed"}
         /\ rows[e].finished + Retention < now
<1>1. e \in Deleted(c)
  BY DEF SoftDelete
<1>2. /\ rows[e].status \in {"succeeded", "failed"}
      /\ rows[e].finished + Retention < at[c]
  BY <1>1 DEF Deleted, Expired
<1>3. at[c] <= now /\ at[c] \in Nat /\ now \in Nat /\ rows[e].finished \in Nat
  BY DEF CleanerInv, TypeOK, ExecRow, CutoffIsPast
<1>4. QED
  BY <1>2, <1>3, CleanerAssumption

\* No cleaner takes away a row that is running, or that has not been kept for
\* the retention time, however late its transaction commits.
THEOREM RetentionRespectedHolds == Spec => RetentionRespected
<1> DEFINE Due ==
      \A e \in Execution : rows'[e].deleted /\ ~rows[e].deleted =>
        /\ rows[e].status \in {"succeeded", "failed"}
        /\ rows[e].finished + Retention < now
<1>1. CleanerInv /\ [Next]_vars => [Due]_vars
  <2> SUFFICES ASSUME CleanerInv, Next,
                      NEW e \in Execution, rows'[e].deleted, ~rows[e].deleted
               PROVE  /\ rows[e].status \in {"succeeded", "failed"}
                      /\ rows[e].finished + Retention < now
    OBVIOUS
  <2>1. ASSUME NEW f \in Execution, NEW s \in {"succeeded", "failed"}, Finish(f, s)
        PROVE  FALSE
    BY <2>1 DEF Finish, CleanerInv, TypeOK, ExecRow
  <2>2. ASSUME NEW c \in Cleaner, Update(c) \/ Fails(c)
        PROVE  SoftDelete(Deleted(c))
    BY <2>2 DEF Update, Fails
  <2>3. \E c \in Cleaner : Update(c) \/ Fails(c)
    BY <2>1 DEF Next, Tick, Begin, Select, Stop
  <2>4. QED
    BY <2>2, <2>3, DeletionIsDue
<1>2. QED
  BY <1>1, CleanerInvariant, PTL DEF Spec, RetentionRespected

=============================================================================
