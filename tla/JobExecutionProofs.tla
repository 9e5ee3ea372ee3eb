------------------------- MODULE JobExecutionProofs -------------------------
(***************************************************************************)
(* Proofs about JobExecution for any number of jobs, replicas and calls.   *)
(***************************************************************************)
EXTENDS JobExecution, TLAPS

-----------------------------------------------------------------------------
(* Types.                                                                  *)

\* The row that stands for an absent job is a row.
LEMMA NoRowType == NoRow \in Row
BY StoreAssumption DEF NoRow, Row, Status

\* The locals of a call that has not begun are well typed.
LEMMA NoRunType == NoRun \in Run
<1>1. (CHOOSE j \in JobID : TRUE) \in JobID
  BY ExecutionAssumption
<1>2. QED
  BY <1>1, NoRowType DEF NoRun, Run, Outcome

\* A row that is marked deleted under a new version is a row, in either table.
LEMMA DeletedRowType ==
  ASSUME NEW x \in Row, NEW n \in Nat
  PROVE  [x EXCEPT !.version = n, !.deleted = TRUE] \in Row
BY DEF Row

LEMMA DeletedExecType ==
  ASSUME NEW x \in Exec, NEW n \in Nat
  PROVE  [x EXCEPT !.deleted = TRUE, !.version = n] \in Exec
BY DEF Exec

\* The updates of one local variable that the steps of a call make.
LEMMA RunUpdateType ==
  ASSUME NEW x \in Run, NEW y \in Row, NEW o \in Outcome, NEW h \in Replica \cup {Free}
  PROVE  /\ [x EXCEPT !.value = y] \in Run
         /\ [x EXCEPT !.base = y] \in Run
         /\ [x EXCEPT !.outcome = o] \in Run
         /\ [x EXCEPT !.host = h] \in Run
BY DEF Run

\* The initial state is well typed.
LEMMA InitType == Init => TypeOK
BY NoRowType, NoRunType
   DEF Init, TypeOK, PC, Exec, NoExec, Result

\* Every step keeps every variable in its type.
LEMMA TypeStep == TypeOK /\ [Next]_vars => TypeOK'
<1> SUFFICES ASSUME TypeOK, [Next]_vars
             PROVE  TypeOK'
  OBVIOUS
<1> USE NoRowType, NoRunType DEF TypeOK
<1>1. CASE \E j \in JobID : WriteJob(j)
  <2> PICK j \in JobID : WriteJob(j)
    BY <1>1
  <2>1. jobs[j] \in Row /\ jobs[j].version + 1 \in Nat
    BY DEF Row
  <2>2. ASSUME NEW d \in Definition, NEW s \in Status, NEW n \in Nat
        PROVE  [version |-> n, status |-> s, deleted |-> FALSE, def |-> d] \in Row
    BY DEF Row
  <2>3. CASE \E d \in Definition, s \in Status : CreateJob(j, d, s)
    BY <2>2, <2>3 DEF CreateJob, WriteJob
  <2>4. CASE \E d \in Definition, s \in Status :
               UpdateJob(j, jobs[j].version, d, s)
    BY <2>1, <2>2, <2>4 DEF UpdateJob, WriteJob
  <2>5. CASE DeleteJob(j, jobs[j].version)
    <3>1. [jobs[j] EXCEPT !.version = jobs[j].version + 1, !.deleted = TRUE]
            \in Row
      BY <2>1, DeletedRowType
    <3>2. jobs' \in [JobID -> Row]
      BY <2>5, <3>1 DEF DeleteJob
    <3>3. QED
      BY <3>2 DEF WriteJob
  <2>6. QED
    BY <2>3, <2>4, <2>5 DEF WriteJob
<1>2. CASE Tick
  BY <1>2 DEF Tick
<1>3. CASE \E r \in Replica, K \in SUBSET JobID : Reload(r, K)
  <2> PICK r \in Replica, K \in SUBSET JobID : Reload(r, K)
    BY <1>3
  <2> QED
    BY DEF Reload
<1>4. CASE \E a \in Attempt, r \in Replica, j \in JobID : Fire(a, r, j)
  <2> PICK a \in Attempt, r \in Replica, j \in JobID : Fire(a, r, j)
    BY <1>4
  <2>0. entry[r][j] \in Row /\ entry[r][j].version \in Nat
    BY DEF Row
  <2>1. [NoRun EXCEPT !.kind = "scheduled", !.job = j, !.host = r,
                      !.tick = clock, !.want = entry[r][j].version,
                      !.snap = entry[r][j]] \in Run
    BY <2>0 DEF Run
  <2>2. run' \in [Attempt -> Run]
    BY <2>1 DEF Fire, Begin
  <2>3. pc' \in [Attempt -> PC] /\ result' \in [Attempt -> Result]
    BY DEF Fire, Begin, PC, Result
  <2>4. QED
    BY <2>2, <2>3 DEF Fire, Begin
<1>5. CASE \E a \in Attempt, r \in Replica, j \in JobID, v \in 0..MaxVersion :
             Trigger(a, r, j, v)
  <2> PICK a \in Attempt, r \in Replica, j \in JobID, v \in 0..MaxVersion :
             Trigger(a, r, j, v)
    BY <1>5
  <2>1. [NoRun EXCEPT !.kind = "manual", !.job = j, !.host = r,
                      !.want = v] \in Run
    <3>1. v \in Nat
      BY StoreAssumption
    <3>2. QED
      BY <3>1 DEF Run
  <2>2. run' \in [Attempt -> Run]
    BY <2>1 DEF Trigger, Begin
  <2>3. pc' \in [Attempt -> PC] /\ result' \in [Attempt -> Result]
    BY DEF Trigger, Begin, PC, Result
  <2>4. QED
    BY <2>2, <2>3 DEF Trigger, Begin
<1>6. ASSUME NEW a \in Attempt, NEW e \in Result, Return(a, e)
      PROVE  /\ pc' \in [Attempt -> PC]
             /\ run' \in [Attempt -> Run]
             /\ result' \in [Attempt -> Result]
             /\ wrapped' \subseteq Attempt
  <2>1. [NoRun EXCEPT !.host = run[a].host] \in Run
    BY DEF Run
  <2>2. QED
    BY <1>6, <2>1 DEF Return, PC
<1>7. CASE \E a \in Attempt : Step(a)
  <2> PICK a \in Attempt : Step(a)
    BY <1>7
  <2>1. CASE Load(a)
    <3>1. CASE Return(a, "error") \/ Return(a, "refused")
      <4>1. "error" \in Result /\ "refused" \in Result
        BY DEF Result
      <4>2. QED
        BY <2>1, <3>1, <4>1, <1>6 DEF Load
    <3>2. CASE /\ run' = [run EXCEPT ![a].value = jobs[run[a].job]]
               /\ Goto(a, "lock")
      <4>1. [run[a] EXCEPT !.value = jobs[run[a].job]] \in Run
        <5>1. run[a] \in Run /\ jobs[run[a].job] \in Row
          BY DEF Run
        <5>2. QED
          BY <5>1, RunUpdateType DEF Outcome
      <4>2. QED
        BY <2>1, <3>2, <4>1 DEF Load, Goto, PC
    <3>3. QED
      BY <2>1, <3>1, <3>2 DEF Load
  <2>2. CASE TryLock(a)
    <3>1. lock' \in [JobID -> Attempt \cup {Free}]
      BY <2>2 DEF TryLock
    <3>2. CASE Return(a, "error") \/ Return(a, "refused")
      <4>1. "error" \in Result /\ "refused" \in Result
        BY DEF Result
      <4>2. QED
        BY <2>2, <3>1, <3>2, <4>1, <1>6 DEF TryLock
    <3>3. CASE Goto(a, "insert") /\ UNCHANGED run
      BY <2>2, <3>1, <3>3 DEF TryLock, Goto, PC
    <3>4. QED
      BY <2>2, <3>2, <3>3 DEF TryLock
  <2>3. CASE Insert(a)
    <3>1. pc' \in [Attempt -> PC] /\ result' \in [Attempt -> Result]
      BY <2>3 DEF Insert, Goto, Leave, PC, Result
    <3>2. run' \in [Attempt -> Run]
      <4>1. run[a] \in Run /\ jobs[run[a].job] \in Row
        BY DEF Run
      <4>2. [run[a] EXCEPT !.base = jobs[run[a].job]] \in Run
        BY <4>1, RunUpdateType DEF Outcome
      <4>3. QED
        BY <2>3, <4>2 DEF Insert, InsertRow
    <3>3. execs' \in [Attempt -> Exec]
      <4>1. NewExec \in Exec
        BY DEF Exec, NewExec
      <4>2. QED
        BY <2>3, <4>1 DEF Insert, InsertRow
    <3>4. QED
      BY <2>3, <3>1, <3>2, <3>3 DEF Insert, Goto, Leave
  <2>4. CASE Invoke(a)
    <3>1. pc' \in [Attempt -> PC]
      BY <2>4 DEF Invoke, Goto, PC
    <3>2. run' \in [Attempt -> Run]
      <4>1. [run[a] EXCEPT !.outcome = "failed"] \in Run
        BY RunUpdateType DEF Outcome
      <4>2. QED
        BY <2>4, <4>1 DEF Invoke
    <3>3. request' \in [Attempt -> Run]
      <4>1. [run[a] EXCEPT !.host = Free] \in Run
        BY RunUpdateType DEF Outcome
      <4>2. QED
        BY <2>4, <4>1 DEF Invoke
    <3>4. QED
      BY <2>4, <3>1, <3>2, <3>3 DEF Invoke, Goto
  <2>5. CASE Answer(a)
    <3>1. run' \in [Attempt -> Run]
      <4>1. ASSUME NEW o \in Outcome
            PROVE  [run[a] EXCEPT !.outcome = o] \in Run
        BY RunUpdateType
      <4>2. QED
        BY <2>5, <4>1 DEF Answer, Outcome
    <3>2. QED
      BY <2>5, <3>1 DEF Answer, Goto, PC
  <2>6. CASE FinishExecution(a)
    <3>1. execs' \in [Attempt -> Exec]
      <4>1. /\ execs[a] \in Exec
            /\ execs[a].version + 1 \in Nat
            /\ run[a].outcome \in {"none", "succeeded", "failed"}
        BY DEF Exec, Run, Outcome
      <4>2. [execs[a] EXCEPT !.status = run[a].outcome,
                             !.version = execs[a].version + 1] \in Exec
        BY <4>1 DEF Exec
      <4>3. QED
        BY <2>6, <4>2 DEF FinishExecution, FinishRow
    <3>2. QED
      BY <2>6, <3>1 DEF FinishExecution, Leave, PC, Result
  <2>7. CASE Unlock(a)
    <3>1. lock' \in [JobID -> Attempt \cup {Free}]
      BY <2>7 DEF Unlock
    <3>2. PICK e \in Result : Return(a, e)
      BY <2>7 DEF Unlock, Result
    <3>3. QED
      BY <2>7, <3>1, <3>2, <1>6 DEF Unlock
  <2>8. CASE FinishOperation(a)
    BY <2>8 DEF FinishOperation, PC, Result
  <2>9. QED
    BY <2>1, <2>2, <2>3, <2>4, <2>5, <2>6, <2>7, <2>8 DEF Step
<1>8. CASE \E j \in JobID : Expire(j)
  BY <1>8 DEF Expire
<1>9. CASE \E S \in SUBSET Attempt : Clean(S)
  <2> PICK S \in SUBSET Attempt : Clean(S)
    BY <1>9
  <2>1. execs' \in [Attempt -> Exec]
    <3>1. \A a \in Attempt : execs[a] \in Exec /\ execs[a].version + 1 \in Nat
      BY DEF Exec
    <3>2. \A a \in Attempt :
            [execs[a] EXCEPT !.deleted = TRUE, !.version = execs[a].version + 1]
              \in Exec
      BY <3>1, DeletedExecType
    <3>3. QED
      BY <3>2 DEF Clean
  <2>2. QED
    BY <2>1 DEF Clean
<1>10. CASE \E r \in Replica : Crash(r)
  BY <1>10 DEF Crash, PC, Result
<1>11. CASE UNCHANGED vars
  BY <1>11 DEF vars
<1>12. QED
  BY <1>1, <1>2, <1>3, <1>4, <1>5, <1>7, <1>8, <1>9, <1>10, <1>11 DEF Next

\* JobExecution keeps its types for every choice of the constants.
THEOREM TypeCorrect == Spec => []TypeOK
BY InitType, TypeStep, PTL DEF Spec

-----------------------------------------------------------------------------
(* What a step leaves alone.                                               *)

\* The steps inside the critical section change no local variable but the
\* outcome and the history base.
LEMMA InsertFrame ==
  ASSUME TypeOK, NEW a \in Attempt, Insert(a)
  PROVE  \A b \in Attempt :
           /\ run'[b].kind = run[b].kind
           /\ run'[b].job = run[b].job
           /\ run'[b].want = run[b].want
           /\ run'[b].snap = run[b].snap
           /\ run'[b].value = run[b].value
           /\ run'[b].outcome = run[b].outcome
           /\ b # a => run'[b] = run[b]
<1>1. CASE run' = run
  BY <1>1
<1>2. CASE run' = [run EXCEPT ![a].base = jobs[run[a].job]]
  BY <1>2 DEF TypeOK, Run
<1>3. QED
  BY <1>1, <1>2 DEF Insert, InsertRow

LEMMA OutcomeFrame ==
  ASSUME TypeOK, NEW a \in Attempt,
         \/ run' = run
         \/ \E o \in Outcome : run' = [run EXCEPT ![a].outcome = o]
  PROVE  \A b \in Attempt :
           /\ run'[b].kind = run[b].kind
           /\ run'[b].job = run[b].job
           /\ run'[b].want = run[b].want
           /\ run'[b].snap = run[b].snap
           /\ run'[b].value = run[b].value
           /\ run'[b].base = run[b].base
           /\ b # a => run'[b] = run[b]
BY DEF TypeOK, Run

LEMMA InvokeFrame ==
  ASSUME TypeOK, NEW a \in Attempt, Invoke(a) \/ Answer(a)
  PROVE  \/ run' = run
         \/ \E o \in Outcome : run' = [run EXCEPT ![a].outcome = o]
BY DEF Invoke, Answer, Outcome

\* A call that begins leaves the other calls alone.
LEMMA TriggerFrame ==
  ASSUME TypeOK, NEW a \in Attempt, NEW r \in Replica, NEW j \in JobID,
         NEW v \in 0..MaxVersion, Trigger(a, r, j, v)
  PROVE  /\ pc[a] = "new"
         /\ run'[a].kind = "manual"
         /\ \/ pc'[a] = "load" /\ result'[a] = "none"
            \/ pc'[a] = "log" /\ result'[a] = "refused"
         /\ UNCHANGED <<jobs, entry, lock, execs, request>>
         /\ \A b \in Attempt \ {a} :
              pc'[b] = pc[b] /\ run'[b] = run[b] /\ result'[b] = result[b]
<1>1. \E p, e : /\ Begin(a, [NoRun EXCEPT !.kind = "manual", !.job = j,
                                          !.host = r, !.want = v], p, e)
                /\ \/ p = "load" /\ e = "none"
                   \/ p = "log" /\ e = "refused"
  BY DEF Trigger
<1>2. [NoRun EXCEPT !.kind = "manual", !.job = j, !.host = r,
                    !.want = v].kind = "manual"
  BY DEF NoRun
<1>3. QED
  BY <1>1, <1>2 DEF Begin, TypeOK

LEMMA FireFrame ==
  ASSUME TypeOK, NEW a \in Attempt, NEW r \in Replica, NEW j \in JobID,
         Fire(a, r, j)
  PROVE  /\ pc[a] = "new"
         /\ pc'[a] = "load"
         /\ result'[a] = "none"
         /\ run'[a].kind = "scheduled"
         /\ run'[a].job = j
         /\ run'[a].snap = entry[r][j]
         /\ run'[a].want = entry[r][j].version
         /\ UNCHANGED <<jobs, entry, lock, execs, request>>
         /\ \A b \in Attempt \ {a} :
              pc'[b] = pc[b] /\ run'[b] = run[b] /\ result'[b] = result[b]
BY DEF Fire, Begin, TypeOK, NoRun

\* A call that returns leaves the other calls alone.
LEMMA ReturnFrame ==
  ASSUME TypeOK, NEW a \in Attempt, NEW e, Return(a, e)
  PROVE  /\ pc'[a] \in {"log", "done"}
         /\ result'[a] = e
         /\ \A b \in Attempt \ {a} :
              pc'[b] = pc[b] /\ run'[b] = run[b] /\ result'[b] = result[b]
BY DEF TypeOK, Return

-----------------------------------------------------------------------------
(* The lock.                                                               *)

\* No step lets a call into the critical section without the lock, or takes
\* the lock from a call that is in it: TryLock needs a free key, Unlock deletes
\* its own token only, Expire waits for the holder to leave.
LEMMA OwnerStep ==
  TypeOK /\ OwnerHoldsLock /\ [Next]_vars => OwnerHoldsLock'
<1> SUFFICES ASSUME TypeOK, OwnerHoldsLock, [Next]_vars
             PROVE  OwnerHoldsLock'
  OBVIOUS
<1> USE DEF TypeOK, OwnerHoldsLock, Critical, Run
<1>1. CASE \E j \in JobID : WriteJob(j)
  BY <1>1 DEF WriteJob
<1>2. CASE Tick
  BY <1>2 DEF Tick
<1>3. CASE \E r \in Replica, K \in SUBSET JobID : Reload(r, K)
  BY <1>3 DEF Reload
<1>4. CASE \E a \in Attempt, r \in Replica, j \in JobID : Fire(a, r, j)
  BY <1>4 DEF Fire, Begin
<1>5. CASE \E a \in Attempt, r \in Replica, j \in JobID, v \in 0..MaxVersion :
             Trigger(a, r, j, v)
  BY <1>5 DEF Trigger, Begin
<1>6. CASE \E a \in Attempt : Step(a)
  <2> PICK a \in Attempt : Step(a)
    BY <1>6
  <2>1. CASE Load(a)
    BY <2>1 DEF Load, Return, Goto
  <2>2. CASE TryLock(a)
    <3>1. CASE lock' = lock \/ Goto(a, "insert")
      BY <2>2, <3>1, ExecutionAssumption DEF TryLock, Return, Goto
    <3>2. CASE Return(a, "error") /\ lock[run[a].job] = Free
               /\ lock' = [lock EXCEPT ![run[a].job] = a]
      <4> SUFFICES ASSUME NEW b \in Attempt, Critical(b)'
                   PROVE  lock'[run'[b].job] = b
        OBVIOUS
      <4>1. b # a /\ pc'[b] = pc[b] /\ run'[b] = run[b]
        BY <3>2, ReturnFrame
      <4>2. lock[run[b].job] = b /\ b # Free
        BY <4>1, ExecutionAssumption
      <4>3. run[b].job \in JobID /\ run[b].job # run[a].job
        BY <4>2, <3>2
      <4>4. QED
        BY <4>1, <4>2, <4>3, <3>2
    <3>3. QED
      BY <2>2, <3>1, <3>2 DEF TryLock
  <2>3. CASE Insert(a)
    BY <2>3, InsertFrame DEF Insert, Goto, Leave
  <2>4. CASE Invoke(a)
    <3>1. \A b \in Attempt : run'[b].job = run[b].job
      BY <2>4, InvokeFrame, OutcomeFrame
    <3>2. QED
      BY <2>4, <3>1 DEF Invoke, Goto
  <2>5. CASE Answer(a)
    <3>1. \A b \in Attempt : run'[b].job = run[b].job
      BY <2>5, InvokeFrame, OutcomeFrame
    <3>2. QED
      BY <2>5, <3>1 DEF Answer, Goto
  <2>6. CASE FinishExecution(a)
    BY <2>6 DEF FinishExecution, Leave
  <2>7. CASE Unlock(a)
    BY <2>7 DEF Unlock, Return
  <2>8. CASE FinishOperation(a)
    BY <2>8 DEF FinishOperation
  <2>9. QED
    BY <2>1, <2>2, <2>3, <2>4, <2>5, <2>6, <2>7, <2>8 DEF Step
<1>7. CASE \E j \in JobID : Expire(j)
  BY <1>7 DEF Expire
<1>8. CASE \E S \in SUBSET Attempt : Clean(S)
  BY <1>8 DEF Clean
<1>9. CASE \E r \in Replica : Crash(r)
  BY <1>9 DEF Crash
<1>10. CASE UNCHANGED vars
  BY <1>10 DEF vars
<1>11. QED
  BY <1>1, <1>2, <1>3, <1>4, <1>5, <1>6, <1>7, <1>8, <1>9, <1>10 DEF Next

-----------------------------------------------------------------------------
(* Execution rows, requests and results.                                   *)

\* A step keeps the row, the request and the result of every call in the order
\* its program counter prescribes; the cleaner cannot reach a row that is still
\* to be finished, because that row is not terminal.
LEMMA RowStep ==
  TypeOK /\ RowFollowsPC /\ [Next]_vars => RowFollowsPC'
<1> SUFFICES ASSUME TypeOK, RowFollowsPC, [Next]_vars, NEW b \in Attempt
             PROVE  RowFollowsPC!(b)'
  BY DEF RowFollowsPC
<1> USE DEF TypeOK, RowFollowsPC, Sent
<1>1. CASE \E j \in JobID : WriteJob(j)
  BY <1>1 DEF WriteJob
<1>2. CASE Tick
  BY <1>2 DEF Tick
<1>3. CASE \E r \in Replica, K \in SUBSET JobID : Reload(r, K)
  BY <1>3 DEF Reload
<1>4. CASE \E a \in Attempt, r \in Replica, j \in JobID : Fire(a, r, j)
  BY <1>4, FireFrame
<1>5. CASE \E a \in Attempt, r \in Replica, j \in JobID, v \in 0..MaxVersion :
             Trigger(a, r, j, v)
  BY <1>5, TriggerFrame
<1>6. CASE \E a \in Attempt : Step(a)
  <2> PICK a \in Attempt : Step(a)
    BY <1>6
  <2>1. CASE Load(a)
    <3>1. CASE Return(a, "error") \/ Return(a, "refused")
      BY <2>1, <3>1, ReturnFrame DEF Load
    <3>2. CASE Goto(a, "lock") /\ run' = [run EXCEPT ![a].value = jobs[run[a].job]]
      BY <2>1, <3>2 DEF Load, Goto, Run
    <3>3. QED
      BY <2>1, <3>1, <3>2 DEF Load
  <2>2. CASE TryLock(a)
    <3>1. CASE Return(a, "error") \/ Return(a, "refused")
      BY <2>2, <3>1, ReturnFrame DEF TryLock
    <3>2. CASE Goto(a, "insert") /\ UNCHANGED run
      BY <2>2, <3>2 DEF TryLock, Goto
    <3>3. QED
      BY <2>2, <3>1, <3>2 DEF TryLock
  <2>3. CASE Insert(a)
    BY <2>3, InsertFrame DEF Insert, InsertRow, Goto, Leave
  <2>4. CASE Invoke(a)
    <3>1. CASE Goto(a, "wait") /\ UNCHANGED run
               /\ request' = [request EXCEPT ![a] = [run[a] EXCEPT !.host = Free]]
      <4>1. request'[a].kind = run[a].kind
        BY <3>1 DEF Run
      <4>2. QED
        BY <2>4, <3>1, <4>1 DEF Invoke, Goto
    <3>2. CASE Goto(a, "finish") /\ UNCHANGED request
               /\ run' = [run EXCEPT ![a].outcome = "failed"]
      BY <2>4, <3>2 DEF Invoke, Goto, Run
    <3>3. QED
      BY <2>4, <3>1, <3>2 DEF Invoke
  <2>5. CASE Answer(a)
    BY <2>5 DEF Answer, Goto, Run
  <2>6. CASE FinishExecution(a)
    BY <2>6 DEF FinishExecution, FinishRow, Leave
  <2>7. CASE Unlock(a)
    BY <2>7, ReturnFrame DEF Unlock
  <2>8. CASE FinishOperation(a)
    BY <2>8 DEF FinishOperation
  <2>9. QED
    BY <2>1, <2>2, <2>3, <2>4, <2>5, <2>6, <2>7, <2>8 DEF Step
<1>7. CASE \E j \in JobID : Expire(j)
  BY <1>7 DEF Expire
<1>8. CASE \E S \in SUBSET Attempt : Clean(S)
  <2> PICK S \in SUBSET Attempt : Clean(S)
    BY <1>8
  <2>1. CASE b \in S
    <3>1. execs[b].status \in {"succeeded", "failed"}
      BY <2>1 DEF Clean, Terminal
    <3>2. execs[b] # NoExec /\ execs[b] # NewExec
      BY <3>1 DEF NoExec, NewExec
    <3>3. QED
      BY <3>2 DEF Clean
  <2>2. CASE b \notin S
    BY <2>2 DEF Clean
  <2>3. QED
    BY <2>1, <2>2
<1>9. CASE \E r \in Replica : Crash(r)
  BY <1>9 DEF Crash
<1>10. CASE UNCHANGED vars
  BY <1>10 DEF vars
<1>11. QED
  BY <1>1, <1>2, <1>3, <1>4, <1>5, <1>6, <1>7, <1>8, <1>9, <1>10 DEF Next

\* A step keeps every pending or given result in agreement with the row: the
\* row is complete before the result is set, and only the cleaner writes it
\* afterwards.
LEMMA ResultStep ==
  TypeOK /\ RowFollowsPC /\ ResultFollowsRow /\ [Next]_vars
    => ResultFollowsRow'
<1> SUFFICES ASSUME TypeOK, RowFollowsPC, ResultFollowsRow, [Next]_vars,
                    NEW b \in Attempt
             PROVE  ResultFollowsRow!(b)'
  BY DEF ResultFollowsRow
<1> USE DEF TypeOK, RowFollowsPC, ResultFollowsRow, Sent
<1>0. NoExec.status = "none" /\ NewExec.status = "running"
  BY DEF NoExec, NewExec
<1>1. CASE \E j \in JobID : WriteJob(j)
  BY <1>1 DEF WriteJob
<1>2. CASE Tick
  BY <1>2 DEF Tick
<1>3. CASE \E r \in Replica, K \in SUBSET JobID : Reload(r, K)
  BY <1>3 DEF Reload
<1>4. CASE \E a \in Attempt, r \in Replica, j \in JobID : Fire(a, r, j)
  BY <1>4, FireFrame
<1>5. CASE \E a \in Attempt, r \in Replica, j \in JobID, v \in 0..MaxVersion :
             Trigger(a, r, j, v)
  BY <1>0, <1>5, TriggerFrame
<1>6. CASE \E a \in Attempt : Step(a)
  <2> PICK a \in Attempt : Step(a)
    BY <1>6
  <2>1. CASE Load(a)
    <3>1. CASE Return(a, "error") \/ Return(a, "refused")
      BY <1>0, <2>1, <3>1, ReturnFrame DEF Load
    <3>2. CASE Goto(a, "lock")
      BY <2>1, <3>2 DEF Load, Goto
    <3>3. QED
      BY <2>1, <3>1, <3>2 DEF Load
  <2>2. CASE TryLock(a)
    <3>1. CASE Return(a, "error") \/ Return(a, "refused")
      BY <1>0, <2>2, <3>1, ReturnFrame DEF TryLock
    <3>2. CASE Goto(a, "insert")
      BY <2>2, <3>2 DEF TryLock, Goto
    <3>3. QED
      BY <2>2, <3>1, <3>2 DEF TryLock
  <2>3. CASE Insert(a)
    BY <1>0, <2>3 DEF Insert, InsertRow, Goto, Leave
  <2>4. CASE Invoke(a)
    BY <2>4 DEF Invoke, Goto
  <2>5. CASE Answer(a)
    BY <2>5 DEF Answer, Goto
  <2>6. CASE FinishExecution(a)
    <3>1. /\ execs[a] = NewExec
          /\ run[a].outcome \in {"succeeded", "failed"}
          /\ run[a].outcome = "succeeded" => Sent(a)
      BY <2>6 DEF FinishExecution, Run, Outcome
    <3>2. CASE FinishRow(a)
      <4>1. execs'[a].status = run[a].outcome
        BY <3>2 DEF FinishRow, Exec
      <4>2. result'[a] = (IF run[a].outcome = "succeeded" THEN "ok" ELSE "failed")
            \/ result'[a] = "error"
        BY <2>6, <3>1 DEF FinishExecution, Leave
      <4>3. CASE b = a
        BY <2>6, <3>1, <4>1, <4>2, <4>3 DEF FinishExecution
      <4>4. CASE b # a
        BY <2>6, <3>2, <4>4 DEF FinishExecution, FinishRow, Leave
      <4>5. QED
        BY <4>3, <4>4
    <3>3. CASE UNCHANGED execs /\ Leave(a, "error")
      BY <1>0, <2>6, <3>1, <3>3 DEF FinishExecution, Leave
    <3>4. QED
      BY <2>6, <3>1, <3>2, <3>3 DEF FinishExecution
  <2>7. CASE Unlock(a)
    BY <2>7, ReturnFrame DEF Unlock
  <2>8. CASE FinishOperation(a)
    BY <2>8 DEF FinishOperation
  <2>9. QED
    BY <2>1, <2>2, <2>3, <2>4, <2>5, <2>6, <2>7, <2>8 DEF Step
<1>7. CASE \E j \in JobID : Expire(j)
  BY <1>7 DEF Expire
<1>8. CASE \E S \in SUBSET Attempt : Clean(S)
  <2> PICK S \in SUBSET Attempt : Clean(S)
    BY <1>8
  <2>1. CASE b \in S
    <3>1. execs[b].status \in {"succeeded", "failed"}
      BY <2>1 DEF Clean, Terminal
    <3>2. execs[b] # NoExec
      BY <3>1 DEF NoExec
    <3>3. execs'[b].status = execs[b].status
      BY <2>1 DEF Clean, Exec
    <3>4. QED
      BY <3>1, <3>2, <3>3 DEF Clean
  <2>2. CASE b \notin S
    BY <2>2 DEF Clean
  <2>3. QED
    BY <2>1, <2>2
<1>9. CASE \E r \in Replica : Crash(r)
  BY <1>9 DEF Crash
<1>10. CASE UNCHANGED vars
  BY <1>10 DEF vars
<1>11. QED
  BY <1>1, <1>2, <1>3, <1>4, <1>5, <1>6, <1>7, <1>8, <1>9, <1>10 DEF Next

-----------------------------------------------------------------------------
(* Versions.                                                               *)

\* A committed write gives the job the next version and touches no other job.
LEMMA WriteGrows ==
  ASSUME TypeOK, NEW j \in JobID, WriteJob(j)
  PROVE  /\ jobs'[j].version = jobs[j].version + 1
         /\ \A k \in JobID \ {j} : jobs'[k] = jobs[k]
<1> USE DEF TypeOK
<1>1. CASE \E d \in Definition, s \in Status : CreateJob(j, d, s)
  BY <1>1 DEF CreateJob
<1>2. CASE \E d \in Definition, s \in Status : UpdateJob(j, jobs[j].version, d, s)
  BY <1>2 DEF UpdateJob
<1>3. CASE DeleteJob(j, jobs[j].version)
  <2>1. jobs[j] \in Row
    OBVIOUS
  <2>2. [jobs[j] EXCEPT !.version = jobs[j].version + 1, !.deleted = TRUE].version
          = jobs[j].version + 1
    BY <2>1 DEF Row
  <2>3. QED
    BY <1>3, <2>2 DEF DeleteJob
<1>4. QED
  BY <1>1, <1>2, <1>3 DEF WriteJob

\* So a known copy of a row stays known.
LEMMA KnownStable ==
  ASSUME TypeOK, NEW row \in Row, NEW k \in JobID, Known(row, k),
         NEW j \in JobID, WriteJob(j)
  PROVE  /\ row.version <= jobs'[k].version
         /\ row.version = jobs'[k].version => row = jobs'[k]
<1>1. /\ row.version \in Nat /\ jobs[k].version \in Nat
  BY DEF TypeOK, Row
<1>2. CASE k = j
  BY <1>1, <1>2, WriteGrows DEF Known
<1>3. CASE k # j
  BY <1>1, <1>3, WriteGrows DEF Known
<1>4. QED
  BY <1>2, <1>3

\* Only writes of jobs change the table of jobs.
LEMMA JobsFrame ==
  [Next]_vars => UNCHANGED jobs \/ \E j \in JobID : WriteJob(j)
BY DEF Next, vars, Tick, Reload, Fire, Trigger, Begin, Step, Load, TryLock,
       Insert, Invoke, Answer, FinishExecution, Unlock, FinishOperation,
       Expire, Clean, Crash

\* Only reloads and crashes change the cron entries of a replica.
LEMMA EntryFrame ==
  [Next]_vars =>
    \/ UNCHANGED entry
    \/ \E r \in Replica, K \in SUBSET JobID : Reload(r, K)
    \/ \E r \in Replica : Crash(r)
BY DEF Next, vars, Tick, WriteJob, Fire, Trigger, Begin, Step, Load, TryLock,
       Insert, Invoke, Answer, FinishExecution, Unlock, FinishOperation,
       Expire, Clean

\* The row a cron entry captured stays known.
LEMMA EntriesStep ==
  TypeOK /\ EntriesKnown /\ [Next]_vars => EntriesKnown'
<1> SUFFICES ASSUME TypeOK, EntriesKnown, [Next]_vars,
                    NEW r \in Replica, NEW k \in JobID, Enabled(entry[r][k])'
             PROVE  Known(entry[r][k], k)'
  BY DEF EntriesKnown
<1> USE DEF TypeOK
<1>1. CASE \E j \in JobID : WriteJob(j)
  <2>1. entry' = entry
    BY <1>1 DEF WriteJob
  <2>2. entry[r][k] \in Row /\ Known(entry[r][k], k)
    BY <2>1 DEF EntriesKnown
  <2>3. /\ entry[r][k].version <= jobs'[k].version
        /\ entry[r][k].version = jobs'[k].version => entry[r][k] = jobs'[k]
    BY <1>1, <2>2, KnownStable
  <2>4. QED
    BY <2>1, <2>3 DEF Known
<1>2. CASE UNCHANGED <<jobs, entry>>
  BY <1>2 DEF EntriesKnown, Known
<1>3. CASE \E q \in Replica, K \in SUBSET JobID : Reload(q, K)
  <2> PICK q \in Replica, K \in SUBSET JobID : Reload(q, K)
    BY <1>3
  <2>1. CASE r # q
    BY <2>1 DEF Reload, EntriesKnown, Known
  <2>2. CASE r = q
    <3>1. entry'[r][k] = jobs[k] \/ entry'[r][k] = NoRow
      BY <2>2 DEF Reload
    <3>2. entry'[r][k] # NoRow
      BY DEF NoRow, Enabled
    <3>3. jobs[k].version \in Nat
      BY DEF Row
    <3>4. QED
      BY <3>1, <3>2, <3>3 DEF Reload, Known
  <2>3. QED
    BY <2>1, <2>2
<1>4. CASE \E q \in Replica : Crash(q)
  <2> PICK q \in Replica : Crash(q)
    BY <1>4
  <2>1. r # q
    BY DEF Crash, NoRow, Enabled
  <2>2. QED
    BY <2>1 DEF Crash, EntriesKnown, Known
<1>5. QED
  BY <1>1, <1>2, <1>3, <1>4, JobsFrame, EntryFrame

\* A call that stands at load, lock or insert after a step either stood there
\* before it with the same locals or got there by the step.
LEMMA LocalsFrame ==
  ASSUME TypeOK, [Next]_vars, NEW b \in Attempt,
         pc'[b] \in {"load", "lock", "insert", "send"}
  PROVE  \/ pc'[b] = pc[b] /\ run'[b] = run[b]
         \/ \E r \in Replica, j \in JobID : Fire(b, r, j)
         \/ run'[b].kind = "manual" /\ pc'[b] = "load"
         \/ Load(b) \/ TryLock(b) \/ Insert(b)
<1> USE DEF TypeOK
<1>1. CASE UNCHANGED <<pc, run>>
  BY <1>1
<1>2. CASE \E a \in Attempt, r \in Replica, j \in JobID : Fire(a, r, j)
  BY <1>2, FireFrame
<1>3. CASE \E a \in Attempt, r \in Replica, j \in JobID, v \in 0..MaxVersion :
             Trigger(a, r, j, v)
  BY <1>3, TriggerFrame
<1>4. CASE \E r \in Replica : Crash(r)
  BY <1>4 DEF Crash
<1>5. CASE \E a \in Attempt : Step(a)
  <2> PICK a \in Attempt : Step(a)
    BY <1>5
  <2>1. CASE b # a
    BY <2>1, ReturnFrame, InsertFrame
       DEF Step, Load, TryLock, Insert, Invoke, Answer, FinishExecution,
           Unlock, FinishOperation, Goto, Leave
  <2>2. CASE b = a
    BY <2>2, ReturnFrame
       DEF Step, Invoke, Answer, FinishExecution, Unlock, FinishOperation,
           Goto, Leave
  <2>3. QED
    BY <2>1, <2>2
<1>6. QED
  BY <1>1, <1>2, <1>3, <1>4, <1>5
     DEF Next, vars, WriteJob, Tick, Reload, Expire, Clean

\* The row a scheduled call was fired with stays known until it is compared.
LEMMA SnapStep ==
  TypeOK /\ EntriesKnown /\ SnapKnown /\ [Next]_vars => SnapKnown'
<1> SUFFICES ASSUME TypeOK, EntriesKnown, SnapKnown, [Next]_vars,
                    NEW b \in Attempt, pc'[b] = "load",
                    run'[b].kind = "scheduled"
             PROVE  /\ Known(run[b].snap, run[b].job)'
                    /\ run'[b].want = run'[b].snap.version
  BY DEF SnapKnown
<1> USE DEF TypeOK
<1>1. CASE pc'[b] = pc[b] /\ run'[b] = run[b]
  <2>1. /\ run[b].snap \in Row /\ run[b].job \in JobID
        /\ Known(run[b].snap, run[b].job)
        /\ run[b].want = run[b].snap.version
    BY <1>1 DEF SnapKnown, Run
  <2>2. CASE UNCHANGED jobs
    BY <1>1, <2>1, <2>2 DEF Known
  <2>3. CASE \E j \in JobID : WriteJob(j)
    <3>1. /\ run[b].snap.version <= jobs'[run[b].job].version
          /\ run[b].snap.version = jobs'[run[b].job].version
               => run[b].snap = jobs'[run[b].job]
      BY <2>1, <2>3, KnownStable
    <3>2. QED
      BY <1>1, <2>1, <3>1 DEF Known
  <2>4. QED
    BY <2>2, <2>3, JobsFrame
<1>2. CASE \E r \in Replica, j \in JobID : Fire(b, r, j)
  <2> PICK r \in Replica, j \in JobID : Fire(b, r, j)
    BY <1>2
  <2>1. Known(entry[r][j], j)
    BY DEF Fire, EntriesKnown
  <2>2. QED
    BY <2>1, FireFrame DEF Known
<1>3. CASE Load(b) \/ TryLock(b) \/ Insert(b)
  BY <1>3, ReturnFrame DEF Load, TryLock, Insert, Goto, Leave
<1>4. QED
  BY <1>1, <1>2, <1>3, LocalsFrame

\* The row GetJob returned is the row asked for, stays known until the
\* execution is recorded, and is the fired one, or for a manual trigger the
\* one that is current when the execution is recorded.
LEMMA ValueStep ==
  TypeOK /\ SnapKnown /\ ValueKnown /\ ValueRight /\ [Next]_vars
    => ValueKnown' /\ ValueRight'
<1> SUFFICES ASSUME TypeOK, SnapKnown, ValueKnown, ValueRight, [Next]_vars,
                    NEW b \in Attempt
             PROVE  ValueKnown!(b)' /\ ValueRight!(b)'
  BY DEF ValueKnown, ValueRight
<1> USE DEF TypeOK
<1>1. CASE pc'[b] \in {"load", "lock", "insert", "send"}
           /\ pc'[b] = pc[b] /\ run'[b] = run[b]
  <2>1. ValueRight!(b)'
    BY <1>1 DEF ValueRight, Enabled
  <2>2. CASE UNCHANGED jobs
    BY <1>1, <2>1, <2>2 DEF ValueKnown, Known, Enabled
  <2>3. CASE pc[b] \in {"lock", "insert"} /\ \E j \in JobID : WriteJob(j)
    <3>1. /\ run[b].value \in Row /\ run[b].job \in JobID
          /\ Known(run[b].value, run[b].job)
          /\ Enabled(run[b].value)
          /\ run[b].value.version = run[b].want
      BY <2>3 DEF ValueKnown, Run
    <3>2. /\ run[b].value.version <= jobs'[run[b].job].version
          /\ run[b].value.version = jobs'[run[b].job].version
               => run[b].value = jobs'[run[b].job]
      BY <2>3, <3>1, KnownStable
    <3>3. QED
      BY <1>1, <2>1, <3>1, <3>2 DEF ValueKnown, Known, Enabled
  <2>4. CASE pc[b] \notin {"lock", "insert"}
    BY <1>1, <2>1, <2>4 DEF ValueKnown
  <2>5. QED
    BY <2>2, <2>3, <2>4, JobsFrame
<1>2. CASE Load(b) /\ pc'[b] \in {"load", "lock", "insert", "send"}
  <2>1. /\ pc[b] = "load" /\ pc'[b] = "lock"
        /\ Live(run[b].job)
        /\ Matches(jobs[run[b].job], run[b].want)
        /\ run' = [run EXCEPT ![b].value = jobs[run[b].job]]
        /\ jobs' = jobs
    BY <1>2, ReturnFrame DEF Load, Goto
  <2>2. /\ run'[b].value = jobs[run[b].job]
        /\ run'[b].job = run[b].job
        /\ run'[b].want = run[b].want
        /\ run'[b].snap = run[b].snap
        /\ run'[b].kind = run[b].kind
        /\ run[b].job \in JobID
        /\ jobs[run[b].job].version \in Nat
    BY <2>1 DEF Run, Row
  <2>3. ValueKnown!(b)'
    BY <2>1, <2>2 DEF ValueKnown, Known, Enabled, Live, Matches
  <2>4. ValueRight!(b)'
    BY <2>1, <2>2 DEF ValueRight, SnapKnown, Known, Matches
  <2>5. QED
    BY <2>3, <2>4
<1>3. CASE TryLock(b) /\ pc'[b] \in {"load", "lock", "insert", "send"}
  <2>1. pc[b] = "lock" /\ pc'[b] = "insert" /\ run' = run /\ jobs' = jobs
    BY <1>3, ReturnFrame DEF TryLock, Goto
  <2>2. QED
    BY <2>1 DEF ValueKnown, ValueRight, Known, Enabled
<1>4. CASE Insert(b) /\ pc'[b] \in {"load", "lock", "insert", "send"}
  <2>1. /\ pc[b] = "insert" /\ pc'[b] = "send"
        /\ Recheck(b) /\ InsertRow(b)
    BY <1>4 DEF Insert, Goto, Leave
  <2>2. run'[b].base = jobs[run[b].job]
    BY <2>1 DEF InsertRow, Run
  <2>3. CASE run[b].kind = "manual"
    <3>1. /\ Live(run[b].job)
          /\ Matches(jobs[run[b].job], run[b].want)
          /\ Known(run[b].value, run[b].job)
          /\ run[b].value.version = run[b].want
      BY <2>1, <2>3 DEF Recheck, ValueKnown
    <3>2. run[b].value = jobs[run[b].job]
      BY <3>1 DEF Known, Matches
    <3>3. Enabled(jobs[run[b].job])
      BY <3>1 DEF Enabled, Live, Matches
    <3>4. ValueRight!(b)'
      BY <1>4, <2>1, <2>2, <2>3, <3>1, <3>2, <3>3, InsertFrame
         DEF ValueRight, Enabled, Matches
    <3>5. QED
      BY <2>1, <3>4 DEF ValueKnown
  <2>4. CASE run[b].kind # "manual"
    BY <1>4, <2>1, <2>4, InsertFrame DEF ValueKnown, ValueRight
  <2>5. QED
    BY <2>3, <2>4
<1>5. CASE pc'[b] \notin {"lock", "insert", "send"}
  BY <1>5 DEF ValueKnown, ValueRight
<1>6. QED
  BY <1>1, <1>2, <1>3, <1>4, <1>5, LocalsFrame, FireFrame

\* What has been sent is never rewritten, and what is sent is right.
LEMMA RequestStep ==
  TypeOK /\ ValueRight /\ ManualRunsPinnedVersion
    /\ ScheduledRunsFiredDefinition /\ [Next]_vars
    => ManualRunsPinnedVersion' /\ ScheduledRunsFiredDefinition'
<1> SUFFICES ASSUME TypeOK, ValueRight, ManualRunsPinnedVersion,
                    ScheduledRunsFiredDefinition, [Next]_vars,
                    NEW b \in Attempt
             PROVE  /\ ManualRunsPinnedVersion!(b)'
                    /\ ScheduledRunsFiredDefinition!(b)'
  BY DEF ManualRunsPinnedVersion, ScheduledRunsFiredDefinition
<1> USE DEF TypeOK, ManualRunsPinnedVersion, ScheduledRunsFiredDefinition
<1>1. CASE \E a \in Attempt : Invoke(a)
  <2> PICK a \in Attempt : Invoke(a)
    BY <1>1
  <2>1. CASE b # a \/ UNCHANGED request
    BY <2>1 DEF Invoke, Enabled
  <2>2. CASE b = a /\ request' = [request EXCEPT ![a] = [run[a] EXCEPT !.host = Free]]
    <3>1. /\ request'[b].kind = run[b].kind
          /\ request'[b].want = run[b].want
          /\ request'[b].snap = run[b].snap
          /\ request'[b].value = run[b].value
          /\ request'[b].base = run[b].base
      BY <2>2 DEF Run
    <3>2. pc[b] = "send"
      BY <2>2 DEF Invoke
    <3>3. QED
      BY <3>1, <3>2 DEF ValueRight, Enabled
  <2>3. QED
    BY <2>1, <2>2 DEF Invoke
<1>2. CASE UNCHANGED request
  BY <1>2 DEF Enabled
<1>3. QED
  BY <1>1, <1>2
     DEF Next, vars, WriteJob, Tick, Reload, Fire, Trigger, Begin, Step, Load,
         TryLock, Insert, Answer, FinishExecution, Unlock, FinishOperation,
         Expire, Clean, Crash

-----------------------------------------------------------------------------
(* The theorems.                                                           *)

\* The initial state satisfies the inductive invariant.
LEMMA InitIndInv == Init => IndInv
<1> SUFFICES ASSUME Init
             PROVE  IndInv
  OBVIOUS
<1>1. TypeOK
  BY InitType
<1>2. OwnerHoldsLock
  BY DEF Init, OwnerHoldsLock, Critical
<1>3. RowFollowsPC /\ ResultFollowsRow
  BY DEF Init, RowFollowsPC, ResultFollowsRow, Sent, NoRun
<1>4. EntriesKnown
  BY DEF Init, EntriesKnown, Enabled, NoRow
<1>5. SnapKnown /\ ValueKnown /\ ValueRight
  BY DEF Init, SnapKnown, ValueKnown, ValueRight
<1>6. ManualRunsPinnedVersion /\ ScheduledRunsFiredDefinition
  BY DEF Init, ManualRunsPinnedVersion, ScheduledRunsFiredDefinition, NoRun
<1>7. QED
  BY <1>1, <1>2, <1>3, <1>4, <1>5, <1>6 DEF IndInv

\* IndInv is an invariant of JobExecution.
THEOREM Invariance == Spec => []IndInv
<1>1. IndInv /\ [Next]_vars => IndInv'
  BY TypeStep, OwnerStep, RowStep, ResultStep, EntriesStep, SnapStep,
     ValueStep, RequestStep DEF IndInv
<1>2. QED
  BY <1>1, InitIndInv, PTL DEF Spec

\* At most one call per job is between the insert of its execution row and the
\* recording of its outcome, for any number of replicas and jobs: two such
\* calls would both be the one holder of the job's lock.
THEOREM MutualExclusionHolds == Spec => []MutualExclusion
<1>1. IndInv => MutualExclusion
  BY DEF IndInv, OwnerHoldsLock, MutualExclusion
<1>2. QED
  BY <1>1, Invariance, PTL

\* A call that was refused sent nothing and left no execution row.
THEOREM RefusedMeansNotRunHolds == Spec => []RefusedMeansNotRun
<1>1. IndInv => RefusedMeansNotRun
  BY DEF IndInv, ResultFollowsRow, RefusedMeansNotRun
<1>2. QED
  BY <1>1, Invariance, PTL

\* What a call reports agrees with its execution row.
THEOREM ReportMatchesRowHolds == Spec => []ReportMatchesRow
<1>1. IndInv => ReportMatchesRow
  BY DEF IndInv, ResultFollowsRow, ReportMatchesRow
<1>2. QED
  BY <1>1, Invariance, PTL

\* A manual trigger runs the version its caller named, and that version is
\* current and enabled when its execution is recorded.
THEOREM ManualRunsPinnedVersionHolds == Spec => []ManualRunsPinnedVersion
<1>1. IndInv => ManualRunsPinnedVersion
  BY DEF IndInv
<1>2. QED
  BY <1>1, Invariance, PTL

\* A scheduled run sends the definition its cron entry was installed with.
THEOREM ScheduledRunsFiredDefinitionHolds == Spec => []ScheduledRunsFiredDefinition
<1>1. IndInv => ScheduledRunsFiredDefinition
  BY DEF IndInv
<1>2. QED
  BY <1>1, Invariance, PTL

-----------------------------------------------------------------------------
(* JobExecution implements ExecutionLedger.                                *)

\* Every step either leaves the lock and the execution rows alone, or is one
\* step of the ledger.
LEMMA LedgerStep ==
  IndInv /\ [Next]_vars => [Ledger!LedgerNext]_(Ledger!ledgerVars)
<1> SUFFICES ASSUME IndInv, [Next]_vars,
                    ~ UNCHANGED Ledger!ledgerVars
             PROVE  Ledger!LedgerNext
  OBVIOUS
<1> DEFINE Rows == [a \in Attempt |-> RowState(a)]
<1> USE DEF IndInv, TypeOK
<1>0. ASSUME UNCHANGED execs
      PROVE  UNCHANGED Rows
  BY <1>0 DEF RowState
<1>1. ASSUME UNCHANGED <<lock, execs>>
      PROVE  FALSE
  BY <1>1, <1>0 DEF Ledger!ledgerVars
<1>2. ASSUME NEW j \in JobID, Expire(j)
      PROVE  Ledger!LedgerNext
  <2>1. Ledger!Release(j)
    BY <1>2, <1>0 DEF Expire, Ledger!Release
  <2>2. QED
    BY <2>1 DEF Ledger!LedgerNext
<1>3. ASSUME NEW S \in SUBSET Attempt, Clean(S)
      PROVE  Ledger!LedgerNext
  <2>1. \A a \in S : Rows[a] \in {"succeeded", "failed"}
    BY <1>3 DEF Clean, Terminal, RowState
  <2>2. ASSUME NEW a \in Attempt
        PROVE  RowState(a)' = IF a \in S THEN "deleted" ELSE Rows[a]
    <3>1. CASE a \in S
      <4>1. execs'[a].deleted = TRUE
        BY <1>3, <3>1 DEF Clean, Exec
      <4>2. QED
        BY <3>1, <4>1 DEF RowState
    <3>2. CASE a \notin S
      BY <1>3, <3>2 DEF Clean, RowState
    <3>3. QED
      BY <3>1, <3>2
  <2>3. Ledger!Purge(S)
    BY <1>3, <2>1, <2>2 DEF Clean, Ledger!Purge
  <2>4. QED
    BY <2>3 DEF Ledger!LedgerNext
<1>4. ASSUME NEW a \in Attempt, TryLock(a)
      PROVE  Ledger!LedgerNext
  <2>1. PICK j \in JobID : lock[j] = Free /\ lock' = [lock EXCEPT ![j] = a]
    <3>1. run[a].job \in JobID
      BY DEF Run
    <3>2. QED
      BY <1>1, <1>4, <3>1 DEF TryLock
  <2>2. Rows[a] = "none"
    BY <1>4 DEF TryLock, RowFollowsPC, RowState, NoExec
  <2>3. Ledger!Take(j, a)
    BY <1>4, <1>0, <2>1, <2>2 DEF TryLock, Ledger!Take
  <2>4. QED
    BY <2>3 DEF Ledger!LedgerNext
<1>5. ASSUME NEW a \in Attempt, Insert(a)
      PROVE  Ledger!LedgerNext
  <2>1. execs' = [execs EXCEPT ![a] = NewExec]
    BY <1>1, <1>5 DEF Insert, InsertRow
  <2>2. run[a].job \in JobID /\ lock[run[a].job] = a
    BY <1>5 DEF Insert, OwnerHoldsLock, Critical, Run
  <2>3. Rows[a] = "none"
    BY <1>5 DEF Insert, RowFollowsPC, RowState, NoExec
  <2>4. Rows' = [Rows EXCEPT ![a] = "running"]
    BY <2>1 DEF RowState, NewExec
  <2>5. Ledger!Record(run[a].job, a)
    BY <1>5, <2>2, <2>3, <2>4 DEF Insert, Ledger!Record
  <2>6. QED
    BY <2>2, <2>5 DEF Ledger!LedgerNext
<1>6. ASSUME NEW a \in Attempt, FinishExecution(a)
      PROVE  Ledger!LedgerNext
  <2>1. FinishRow(a)
    BY <1>1, <1>6 DEF FinishExecution
  <2>2. run[a].job \in JobID /\ lock[run[a].job] = a
    BY <1>6 DEF FinishExecution, OwnerHoldsLock, Critical, Run
  <2>3. execs[a] = NewExec /\ run[a].outcome \in {"succeeded", "failed"}
    BY <1>6 DEF FinishExecution, RowFollowsPC, Run, Outcome
  <2>4. Rows[a] = "running"
    BY <2>3 DEF RowState, NewExec
  <2>5. RowState(a)' = run[a].outcome
    <3>1. execs'[a].status = run[a].outcome /\ execs'[a].deleted = execs[a].deleted
      BY <2>1 DEF FinishRow, Exec
    <3>2. ~execs[a].deleted
      BY <2>3 DEF NewExec
    <3>3. QED
      BY <3>1, <3>2 DEF RowState
  <2>6. Rows' = [Rows EXCEPT ![a] = run[a].outcome]
    BY <2>1, <2>5 DEF FinishRow, RowState
  <2>7. Ledger!Complete(run[a].job, a)
    BY <1>6, <2>2, <2>3, <2>4, <2>6 DEF FinishExecution, Ledger!Complete
  <2>8. QED
    BY <2>2, <2>7 DEF Ledger!LedgerNext
<1>7. ASSUME NEW a \in Attempt, Unlock(a)
      PROVE  Ledger!LedgerNext
  <2>1. run[a].job \in JobID
    BY DEF Run
  <2>2. lock' = [lock EXCEPT ![run[a].job] = Free]
    BY <1>1, <1>7 DEF Unlock
  <2>3. Ledger!Release(run[a].job)
    BY <1>7, <1>0, <2>2 DEF Unlock, Ledger!Release
  <2>4. QED
    BY <2>1, <2>3 DEF Ledger!LedgerNext
<1>8. QED
  BY <1>1, <1>2, <1>3, <1>4, <1>5, <1>6, <1>7
     DEF Next, vars, WriteJob, Tick, Reload, Fire, Trigger, Begin, Step, Load,
         Invoke, Answer, FinishOperation, Crash

\* The service implements the ledger: each execution row is written only by
\* the holder of its job's lock, and lives through none, running, a final
\* status and deleted in this order, for every choice of the constants.
THEOREM LedgerRefined == Spec => ImplementsLedger
<1>1. Init => Ledger!LedgerInit
  BY DEF Init, Ledger!LedgerInit, RowState, NoExec
<1>2. QED
  BY <1>1, LedgerStep, Invariance, PTL DEF Spec, ImplementsLedger, Ledger!LedgerSpec

=============================================================================
