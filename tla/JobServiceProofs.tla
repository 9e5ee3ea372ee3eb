-------------------------- MODULE JobServiceProofs --------------------------
(***************************************************************************)
(* What concurrent calls of Create, Update and Delete may rely on, for any *)
(* number of jobs, calls, replicas and applications.                       *)
(***************************************************************************)
EXTENDS JobService, TLAPS

-----------------------------------------------------------------------------
(* The parts of the inductive invariant.                                   *)

\* A call that goes on has arguments that a request can have.
Requested ==
  \A c \in Call : pc[c] \in {"read", "write", "signal", "log", "done"} =>
    /\ call[c].op \in {"create", "update", "delete"}
    /\ call[c].host \in Replica
    /\ call[c].op = "create" => call[c].expected = 0

\* How far a call is says whether it has written, and whether it knows what it
\* returns.
Progress ==
  \A c \in Call :
    /\ pc[c] \in {"new", "read", "write"} => c \notin wrote
    /\ pc[c] \in {"new", "read", "write", "signal", "crashed"} => result[c] = "none"
    /\ pc[c] = "signal" \/ result[c] = "ok" => c \in wrote
    /\ pc[c] = "log" => result[c] # "none"

\* What a write that took effect has left in the table: its row under the
\* version after the expected one, for ever, and a deleted row as the last one.
Effective ==
  \A c \in wrote :
    LET j == call[c].job
        v == call[c].expected + 1
    IN  /\ call[c].op \in {"create", "update", "delete"}
        /\ call[c].host \in Replica
        /\ jobs[j].version >= v
        /\ call[c].op \in {"create", "update"} => past[j][v] = Built(c)
        /\ call[c].op = "delete" => jobs[j].deleted /\ jobs[j].version = v

\* What authorizeScope found is still so when the row is written: a row keeps
\* its application.
Authorized ==
  \A c \in Call : pc[c] = "write" =>
    IF call[c].op = "create" THEN call[c].app = call[c].grant
    ELSE owner[call[c].job] = call[c].grant /\ jobs[call[c].job].version > 0

\* A success returns the row the call has built.
Answered == \A c \in Call : result[c] = "ok" => reply[c] = Built(c)

\* A call records its operation once, at its end.
LoggedAtTheEnd == \A x \in oplog : pc[x.call] = "done"

\* The inductive invariant, but for the types: these parts and three of the
\* properties.
Parts ==
  /\ Requested /\ Progress /\ Effective /\ Authorized /\ Answered
  /\ LoggedAtTheEnd
  /\ RefusedMeansUnwritten /\ OnlyOwnersWrite /\ LogMatchesWrites

ServiceInv == TypeOK /\ Parts

-----------------------------------------------------------------------------
(* Rows and requests.                                                      *)

\* The row that stands for an absent job is a row.
LEMMA NoRowType == NoRow \in Row
BY StoreAssumption DEF NoRow, Row, Status

\* Both kinds of row that the table may hold at the start are rows.
LEMMA FirstRowType == {NoRow} \cup FirstRow \subseteq Row
<1>1. {1} \subseteq Nat /\ {FALSE} \subseteq BOOLEAN
  OBVIOUS
<1>2. FirstRow \subseteq Row
  BY <1>1 DEF FirstRow, Row
<1>3. QED
  BY <1>2, NoRowType

\* The arguments of a call that has not arrived are well typed.
LEMMA NoCallType == NoCall \in Arguments
<1>1. (CHOOSE j \in JobID : TRUE) \in JobID
  BY ServiceAssumption
<1>2. NoRow.def \in Definition /\ NoRow.status \in Status
  BY NoRowType DEF Row
<1>3. QED
  BY <1>1, <1>2 DEF NoCall, Arguments

\* What a request brings.
LEMMA InputType ==
  ASSUME NEW op \in {"create", "update", "delete"}, NEW in \in Inputs(op)
  PROVE  /\ in \in Arguments /\ in.op = op /\ in.host \in Replica
         /\ op = "create" => in.expected = 0
<1>1. /\ in \in [op : {op}, job : JobID, expected : 0 .. MaxVersion - 1,
                 def : Definition, status : Status,
                 app : Application \cup {Nobody}, grant : Application, host : Replica]
      /\ op = "create" => in.expected = 0
  BY DEF Inputs
<1>2. 0 .. MaxVersion - 1 \subseteq Nat
  BY StoreAssumption
<1>3. QED
  BY <1>1, <1>2 DEF Arguments

\* The row a deletion leaves.
LEMMA DeletedRow ==
  ASSUME NEW x \in Row, NEW n \in Nat, NEW y,
         y = [x EXCEPT !.version = n, !.deleted = TRUE]
  PROVE  y \in Row /\ y.version = n /\ y.deleted
BY DEF Row

\* The row a call builds.
LEMMA BuiltType ==
  ASSUME TypeOK, NEW c \in Call
  PROVE  /\ Built(c) \in Row
         /\ call[c].op # "delete" => Built(c).version = call[c].expected + 1
<1>1. call[c] \in Arguments
  BY DEF TypeOK
<1>2. QED
  BY <1>1, NoRowType DEF Built, Arguments, Row

\* The transaction of a call, in one piece: its row goes from the version it
\* expects to the next one, and to what the call has built or to a deleted row.
LEMMA CommitRow ==
  ASSUME TypeOK, Requested, NEW c \in Call, pc[c] = "write", Commit(c)
  PROVE  LET j == call[c].job
             v == call[c].expected + 1
         IN  /\ v \in 1..MaxVersion
             /\ jobs[j].version = call[c].expected
             /\ jobs' = [jobs EXCEPT ![j] = jobs'[j]]
             /\ jobs'[j] \in Row
             /\ jobs'[j].version = v
             /\ IF call[c].op = "create" THEN jobs[j].version = 0 ELSE Live(j)
             /\ IF call[c].op = "delete" THEN jobs'[j].deleted
                ELSE jobs'[j] = Built(c)
             /\ past' = [past EXCEPT ![j][v] = jobs'[j]]
<1> DEFINE j == call[c].job
           n == call[c].expected
           v == n + 1
           After == /\ jobs[j].version = n
                    /\ jobs' = [jobs EXCEPT ![j] = jobs'[j]]
                    /\ jobs'[j] \in Row /\ jobs'[j].version = v
                    /\ IF call[c].op = "create" THEN jobs[j].version = 0 ELSE Live(j)
                    /\ IF call[c].op = "delete" THEN jobs'[j].deleted
                       ELSE jobs'[j] = Built(c)
<1>1. /\ call[c] \in Arguments /\ j \in JobID /\ n \in Nat
      /\ jobs[j] \in Row /\ jobs \in [JobID -> Row]
  BY DEF TypeOK, Arguments
<1>2. v \in Nat
  BY <1>1
<1>3. ASSUME call[c].op # "delete", jobs[j].version = n,
             jobs' = [jobs EXCEPT ![j] = Built(c)],
             IF call[c].op = "create" THEN jobs[j].version = 0 ELSE Live(j)
      PROVE  After
  <2>1. jobs'[j] = Built(c)
    BY <1>1, <1>3
  <2>2. QED
    BY <1>3, <2>1, BuiltType
<1>4. ASSUME call[c].op = "create" PROVE After
  <2>1. n = 0 /\ CreateJob(j, call[c].def, call[c].status)
    BY <1>4 DEF Commit, Requested
  <2>2. Built(c) = [version |-> 1, status |-> call[c].status, deleted |-> FALSE,
                    def |-> call[c].def]
    BY <1>4, <2>1 DEF Built
  <2>3. QED
    BY <1>3, <1>4, <2>1, <2>2 DEF CreateJob
<1>5. ASSUME call[c].op = "update" PROVE After
  <2>1. UpdateJob(j, n, call[c].def, call[c].status)
    BY <1>5 DEF Commit
  <2>2. QED
    BY <1>3, <1>5, <2>1 DEF UpdateJob, Built
<1>6. ASSUME call[c].op = "delete" PROVE After
  <2>1. DeleteJob(j, n)
    BY <1>6 DEF Commit
  <2> HIDE DEF v
  <2>2. jobs' = [jobs EXCEPT ![j] = [jobs[j] EXCEPT !.version = v, !.deleted = TRUE]]
    BY <1>1, <2>1 DEF DeleteJob, v
  <2>3. jobs'[j] = [jobs[j] EXCEPT !.version = v, !.deleted = TRUE]
    BY <1>1, <2>2
  <2>4. jobs'[j] \in Row /\ jobs'[j].version = v /\ jobs'[j].deleted
    BY <1>1, <1>2, <2>3, DeletedRow
  <2>5. QED
    BY <1>6, <2>1, <2>2, <2>3, <2>4 DEF DeleteJob, v
<1>7. After
  BY <1>4, <1>5, <1>6 DEF Requested
<1>8. v \in 1..MaxVersion
  BY <1>1, <1>7, StoreAssumption DEF Commit
<1>9. past' = [past EXCEPT ![j][v] = jobs'[j]]
  BY <1>7 DEF Commit
<1>10. QED
  BY <1>7, <1>8, <1>9

-----------------------------------------------------------------------------
(* The initial states, and types.                                          *)

\* Before any call arrives the table holds new jobs or none.
LEMMA ServiceInit == Init => ServiceInv
<1> SUFFICES ASSUME Init PROVE ServiceInv
  OBVIOUS
<1>1. TypeOK
  <2>1. jobs \in [JobID -> Row]
    BY FirstRowType DEF Init
  <2>2. past \in [JobID -> [1..MaxVersion -> Row]]
    BY <2>1, NoRowType DEF Init
  <2>3. listed \in [Replica -> [JobID -> Nat]]
    BY <2>1 DEF Init, Versions, Row
  <2>4. QED
    BY <2>1, <2>2, <2>3, NoRowType, NoCallType DEF Init, TypeOK
<1>2. /\ Requested /\ Progress /\ Effective /\ Authorized /\ Answered
      /\ LoggedAtTheEnd
  BY DEF Init, Requested, Progress, Effective, Authorized, Answered, LoggedAtTheEnd
<1>3. /\ RefusedMeansUnwritten /\ OnlyOwnersWrite /\ LogMatchesWrites
  BY DEF Init, RefusedMeansUnwritten, OnlyOwnersWrite, LogMatchesWrites
<1>4. QED
  BY <1>1, <1>2, <1>3 DEF ServiceInv, Parts

\* A call that returns is well typed.
LEMMA ReturnType ==
  ASSUME TypeOK, NEW c \in Call, NEW e \in {"ok", "refused", "error"}, Return(c, e)
  PROVE  /\ pc' \in [Call -> {"new", "read", "write", "signal", "log", "done", "crashed"}]
         /\ result' \in [Call -> {"none", "ok", "refused", "error"}]
BY DEF TypeOK, Return

\* A transaction keeps the table, the owners and the history well typed.
LEMMA CommitType ==
  ASSUME TypeOK, Requested, NEW c \in Call, pc[c] = "write", Commit(c)
  PROVE  /\ jobs' \in [JobID -> Row]
         /\ owner' \in [JobID -> Application \cup {Nobody}]
         /\ past' \in [JobID -> [1..MaxVersion -> Row]]
         /\ wrote' \subseteq Call
<1> DEFINE j == call[c].job
           v == call[c].expected + 1
<1>1. /\ call[c] \in Arguments /\ j \in JobID /\ call[c].app \in Application \cup {Nobody}
  BY DEF TypeOK, Arguments
<1>2. /\ jobs' = [jobs EXCEPT ![j] = jobs'[j]] /\ jobs'[j] \in Row
      /\ past' = [past EXCEPT ![j][v] = jobs'[j]]
  BY CommitRow
<1> HIDE DEF j, v
<1>3. jobs' \in [JobID -> Row]
  BY <1>1, <1>2 DEF TypeOK
<1>4. past' \in [JobID -> [1..MaxVersion -> Row]]
  BY <1>1, <1>2 DEF TypeOK
<1>5. owner' \in [JobID -> Application \cup {Nobody}] /\ wrote' \subseteq Call
  BY <1>1 DEF TypeOK, Commit
<1>6. QED
  BY <1>3, <1>4, <1>5

\* Every step keeps every variable in its type.
LEMMA TypeStep == TypeOK /\ Requested /\ [Next]_vars => TypeOK'
<1> SUFFICES ASSUME TypeOK, Requested, [Next]_vars
             PROVE  TypeOK'
  OBVIOUS
<1>1. ASSUME NEW c \in Call, NEW op \in {"create", "update", "delete"},
             NEW in \in Inputs(op), Request(c, in)
      PROVE  TypeOK'
  <2>1. in \in Arguments
    BY InputType
  <2>2. call' \in [Call -> Arguments]
    BY <1>1, <2>1 DEF Request, TypeOK
  <2>3. /\ pc' \in [Call -> {"new", "read", "write", "signal", "log", "done", "crashed"}]
        /\ result' \in [Call -> {"none", "ok", "refused", "error"}]
    BY <1>1 DEF Request, Return, TypeOK
  <2>4. QED
    BY <1>1, <2>2, <2>3 DEF Request, TypeOK
<1>2. ASSUME NEW c \in Call, Read(c)
      PROVE  TypeOK'
  BY <1>2 DEF Read, Return, TypeOK
<1>3. ASSUME NEW c \in Call, Write(c)
      PROVE  TypeOK'
  <2>1. /\ pc' \in [Call -> {"new", "read", "write", "signal", "log", "done", "crashed"}]
        /\ result' \in [Call -> {"none", "ok", "refused", "error"}]
    BY <1>3 DEF Write, Return, TypeOK
  <2>2. pc[c] = "write" /\ UNCHANGED <<call, reply, changed, watch, listed, oplog>>
    BY <1>3 DEF Write
  <2>3. Commit(c) \/ UNCHANGED <<jobs, owner, past, wrote>>
    BY <1>3 DEF Write
  <2>4. /\ jobs' \in [JobID -> Row]
        /\ owner' \in [JobID -> Application \cup {Nobody}]
        /\ past' \in [JobID -> [1..MaxVersion -> Row]]
        /\ wrote' \subseteq Call
    BY <2>2, <2>3, CommitType DEF TypeOK
  <2>5. QED
    BY <2>1, <2>2, <2>4 DEF TypeOK
<1>4. ASSUME NEW c \in Call, Signal(c)
      PROVE  TypeOK'
  <2>1. reply' \in [Call -> Row] /\ changed' \in [Replica -> BOOLEAN]
    BY <1>4, BuiltType DEF Signal, TypeOK
  <2>2. QED
    BY <1>4, <2>1, ReturnType DEF Signal, TypeOK
<1>5. ASSUME NEW c \in Call, FinishOperation(c)
      PROVE  TypeOK'
  <2>1. oplog' \subseteq [call : Call, succeeded : BOOLEAN]
    <3>1. (result[c] = "ok") \in BOOLEAN
      OBVIOUS
    <3>2. [call |-> c, succeeded |-> result[c] = "ok"] \in [call : Call, succeeded : BOOLEAN]
      BY <3>1, Zenon
    <3>3. \/ oplog' = oplog
          \/ oplog' = oplog \cup {[call |-> c, succeeded |-> result[c] = "ok"]}
      BY <1>5 DEF FinishOperation
    <3>4. QED
      BY <3>2, <3>3, Zenon DEF TypeOK
  <2>2. /\ pc' \in [Call -> {"new", "read", "write", "signal", "log", "done", "crashed"}]
        /\ result' \in [Call -> {"none", "ok", "refused", "error"}]
    BY <1>5 DEF FinishOperation, TypeOK
  <2>3. QED
    BY <1>5, <2>1, <2>2 DEF FinishOperation, TypeOK
<1>6. Versions \in [JobID -> Nat]
  BY DEF Versions, TypeOK, Row
<1>7. ASSUME NEW r \in Replica, Receive(r) \/ List(r) \/ ListFails(r)
      PROVE  TypeOK'
  BY <1>6, <1>7 DEF Receive, List, ListFails, TypeOK
<1>8. ASSUME NEW r \in Replica, Crash(r)
      PROVE  TypeOK'
  <2>1. /\ pc' \in [Call -> {"new", "read", "write", "signal", "log", "done", "crashed"}]
        /\ result' \in [Call -> {"none", "ok", "refused", "error"}]
    BY <1>8 DEF Crash, TypeOK
  <2>2. /\ changed' \in [Replica -> BOOLEAN] /\ listed' \in [Replica -> [JobID -> Nat]]
        /\ watch' \in [Replica -> {"start", "idle", "list"}]
    BY <1>8 DEF Crash, TypeOK
  <2>3. QED
    BY <1>8, <2>1, <2>2 DEF Crash, TypeOK
<1>9. CASE UNCHANGED vars
  BY <1>9 DEF vars, TypeOK
<1>10. QED
  BY <1>1, <1>2, <1>3, <1>4, <1>5, <1>7, <1>8, <1>9 DEF Next

-----------------------------------------------------------------------------
(* The steps.                                                              *)

\* A transaction adds its own effect and takes away no earlier one: it writes
\* the version after the last one, and no deleted row.
LEMMA CommitEffective ==
  ASSUME TypeOK, Requested, Effective, NEW c \in Call, pc[c] = "write",
         Commit(c), UNCHANGED call
  PROVE  Effective'
<1> DEFINE j == call[c].job
           v == call[c].expected + 1
<1>1. /\ v \in 1..MaxVersion /\ v \in Nat
      /\ jobs[j].version + 1 = v
      /\ jobs' = [jobs EXCEPT ![j] = jobs'[j]] /\ jobs'[j].version = v
      /\ jobs[j].version > 0 => ~jobs[j].deleted
      /\ IF call[c].op = "delete" THEN jobs'[j].deleted ELSE jobs'[j] = Built(c)
      /\ past' = [past EXCEPT ![j][v] = jobs'[j]]
  BY CommitRow DEF Live
<1>2. /\ wrote' = wrote \cup {c}
      /\ jobs \in [JobID -> Row] /\ past \in [JobID -> [1..MaxVersion -> Row]]
      /\ call[c] \in Arguments /\ j \in JobID
  BY DEF Commit, TypeOK, Arguments
<1> SUFFICES ASSUME NEW b \in wrote'
             PROVE  LET i == call[b].job
                        w == call[b].expected + 1
                    IN  /\ call[b].op \in {"create", "update", "delete"}
                        /\ call[b].host \in Replica
                        /\ jobs'[i].version >= w
                        /\ call[b].op \in {"create", "update"} => past'[i][w] = Built(b)
                        /\ call[b].op = "delete" => jobs'[i].deleted /\ jobs'[i].version = w
  BY DEF Effective, Built
<1>3. CASE b = c
  <2>1. past'[j][v] = jobs'[j]
    BY <1>1, <1>2
  <2>2. call[c].op \in {"create", "update", "delete"} /\ call[c].host \in Replica
    BY DEF Requested
  <2>3. QED
    BY <1>1, <1>3, <2>1, <2>2
<1>4. CASE b # c
  <2> DEFINE i == call[b].job
             w == call[b].expected + 1
  <2>1. b \in wrote /\ b \in Call /\ call[b] \in Arguments
    BY <1>2, <1>4 DEF TypeOK
  <2>2. i \in JobID /\ w \in Nat /\ w > 0 /\ jobs[i].version \in Nat
    BY <1>2, <2>1 DEF Arguments, Row
  <2>3. /\ call[b].op \in {"create", "update", "delete"}
        /\ call[b].host \in Replica
        /\ jobs[i].version >= w
        /\ call[b].op \in {"create", "update"} => past[i][w] = Built(b)
        /\ call[b].op = "delete" => jobs[i].deleted /\ jobs[i].version = w
    BY <2>1 DEF Effective
  <2> HIDE DEF w, i, v, j
  <2>4. CASE i = j
    <3>1. w # v /\ v >= w /\ call[b].op # "delete"
      BY <1>1, <2>2, <2>3, <2>4
    <3>2. past'[i][w] = past[i][w]
      BY <1>1, <1>2, <2>4, <3>1
    <3>3. jobs'[i].version >= w
      BY <1>1, <2>4, <3>1
    <3>4. QED
      BY <2>3, <3>1, <3>2, <3>3 DEF i, w
  <2>5. CASE i # j
    <3>1. jobs'[i] = jobs[i] /\ past'[i] = past[i]
      BY <1>1, <1>2, <2>2, <2>5
    <3>2. QED
      BY <2>3, <3>1 DEF i, w
  <2>6. QED
    BY <2>4, <2>5
<1>5. QED
  BY <1>3, <1>4

\* A transaction gives no existing row another application.
LEMMA CommitOwner ==
  ASSUME TypeOK, Requested, Effective, Authorized, OnlyOwnersWrite,
         NEW c \in Call, pc[c] = "write", Commit(c), UNCHANGED call
  PROVE  /\ OnlyOwnersWrite'
         /\ \A b \in Call : pc[b] = "write" =>
              IF call[b].op = "create" THEN call[b].app = call[b].grant
              ELSE owner'[call[b].job] = call[b].grant /\ jobs'[call[b].job].version > 0
<1>1. /\ call[c] \in Arguments /\ call[c].job \in JobID
      /\ owner \in [JobID -> Application \cup {Nobody}] /\ jobs \in [JobID -> Row]
  BY DEF TypeOK, Arguments
<1>2. ASSUME NEW i \in JobID, jobs[i].version > 0
      PROVE  owner'[i] = owner[i] /\ jobs'[i].version > 0
  <2> DEFINE j == call[c].job
  <2>1. /\ jobs' = [jobs EXCEPT ![j] = jobs'[j]]
        /\ jobs'[j].version = call[c].expected + 1
        /\ call[c].op = "create" => jobs[j].version = 0
    BY CommitRow
  <2>2. owner' = IF call[c].op = "create" THEN [owner EXCEPT ![j] = call[c].app] ELSE owner
    BY DEF Commit
  <2>3. call[c].expected \in Nat
    BY <1>1 DEF Arguments
  <2> HIDE DEF j
  <2>4. owner'[i] = owner[i]
    BY <1>1, <1>2, <2>1, <2>2
  <2>5. jobs'[i].version > 0
    <3>1. CASE i = j
      BY <2>1, <2>3, <3>1
    <3>2. CASE i # j
      BY <1>1, <1>2, <2>1, <3>2
    <3>3. QED
      BY <3>1, <3>2
  <2>6. QED
    BY <2>4, <2>5
<1>3. ASSUME NEW b \in wrote
      PROVE  owner'[call[b].job] = call[b].grant
  <2>1. call[b] \in Arguments
    BY DEF TypeOK
  <2>2. call[b].job \in JobID /\ jobs[call[b].job].version > 0
    <3>1. call[b].job \in JobID /\ call[b].expected \in Nat /\ jobs[call[b].job].version \in Nat
      BY <1>1, <2>1 DEF Arguments, Row
    <3>2. jobs[call[b].job].version >= call[b].expected + 1
      BY DEF Effective
    <3>3. QED
      BY <3>1, <3>2
  <2>3. QED
    BY <1>2, <2>2 DEF OnlyOwnersWrite
<1>4. owner'[call[c].job] = call[c].grant
  <2>1. CASE call[c].op = "create"
    BY <1>1, <2>1 DEF Commit, Authorized
  <2>2. CASE call[c].op # "create"
    BY <1>1, <2>2 DEF Commit, Authorized
  <2>3. QED
    BY <2>1, <2>2
<1>5. OnlyOwnersWrite'
  BY <1>3, <1>4 DEF Commit, OnlyOwnersWrite
<1>6. ASSUME NEW b \in Call, pc[b] = "write"
      PROVE  IF call[b].op = "create" THEN call[b].app = call[b].grant
             ELSE owner'[call[b].job] = call[b].grant /\ jobs'[call[b].job].version > 0
  <2>1. call[b].job \in JobID
    BY DEF TypeOK, Arguments
  <2>2. QED
    BY <1>2, <1>6, <2>1 DEF Authorized
<1>7. QED
  BY <1>5, <1>6

\* A request changes the arguments of a call that has not written.
LEMMA RequestStep ==
  ASSUME TypeOK, Parts, NEW c \in Call, NEW op \in {"create", "update", "delete"},
         NEW in \in Inputs(op), Request(c, in)
  PROVE  Parts'
<1> USE DEF TypeOK, Request, Return
<1>0. /\ Requested /\ Progress /\ Effective /\ Authorized /\ Answered
      /\ LoggedAtTheEnd
      /\ RefusedMeansUnwritten /\ OnlyOwnersWrite /\ LogMatchesWrites
  BY DEF Parts
<1>1. c \notin wrote /\ result[c] = "none" /\ pc[c] = "new"
  BY <1>0 DEF Progress
<1>2. \A b \in Call : b # c =>
        pc'[b] = pc[b] /\ call'[b] = call[b] /\ result'[b] = result[b]
  OBVIOUS
<1>3. /\ call'[c] = in /\ pc'[c] \in {"read", "log"}
      /\ result'[c] = IF pc'[c] = "read" THEN "none" ELSE "refused"
      /\ UNCHANGED <<jobs, owner, reply, changed, watch, listed, oplog, past, wrote>>
  BY <1>1
<1>4. Requested'
  BY <1>0, <1>2, <1>3, InputType DEF Requested
<1>5. Progress'
  BY <1>0, <1>1, <1>2, <1>3 DEF Progress
<1>6. Effective'
  <2>1. \A b \in wrote : b \in Call /\ b # c
    BY <1>1
  <2>2. QED
    BY <1>0, <1>2, <1>3, <2>1 DEF Effective, Built
<1>7. Authorized'
  BY <1>0, <1>2, <1>3 DEF Authorized
<1>8. Answered'
  BY <1>0, <1>2, <1>3 DEF Answered, Built
<1>9. LoggedAtTheEnd'
  BY <1>0, <1>1, <1>2, <1>3 DEF LoggedAtTheEnd
<1>10. RefusedMeansUnwritten'
  BY <1>0, <1>1, <1>2, <1>3 DEF RefusedMeansUnwritten
<1>11. OnlyOwnersWrite'
  BY <1>0, <1>1, <1>2, <1>3 DEF OnlyOwnersWrite
<1> HIDE DEF TypeOK, Request, Return
<1>12. LogMatchesWrites'
  <2>1. pc'[c] # "done" /\ result'[c] # "ok" /\ c \notin wrote'
    BY <1>1, <1>3
  <2>2. \A x \in oplog : x.call # c
    BY <1>0, <1>1 DEF LoggedAtTheEnd
  <2>3. \A s \in BOOLEAN : [call |-> c, succeeded |-> s] \notin oplog'
    BY <1>3, <2>2
  <2>4. UNCHANGED <<oplog, wrote>>
    BY <1>3
  <2>5. QED
    BY <1>0, <1>2, <2>1, <2>3, <2>4 DEF LogMatchesWrites
<1>13. QED
  BY <1>4, <1>5, <1>6, <1>7, <1>8, <1>9, <1>10, <1>11, <1>12 DEF Parts

\* A step that does not touch the table leaves the effects of the writes alone.
LEMMA TableKept ==
  ASSUME TypeOK, Effective, OnlyOwnersWrite,
         UNCHANGED <<jobs, owner, call, past, wrote>>
  PROVE  Effective' /\ OnlyOwnersWrite'
<1>1. Effective'
  BY DEF Effective, Built
<1>2. OnlyOwnersWrite'
  BY DEF OnlyOwnersWrite
<1>3. QED
  BY <1>1, <1>2

\* Read lets a call write for the application it has found, or ends it.
LEMMA ReadStep ==
  ASSUME TypeOK, Parts, NEW c \in Call, Read(c)
  PROVE  Parts'
<1> USE DEF TypeOK, Read, Return
<1>0. /\ Requested /\ Progress /\ Effective /\ Authorized /\ Answered
      /\ LoggedAtTheEnd
      /\ RefusedMeansUnwritten /\ OnlyOwnersWrite /\ LogMatchesWrites
  BY DEF Parts
<1>1. c \notin wrote /\ result[c] = "none" /\ pc[c] = "read"
  BY <1>0 DEF Progress
<1>2. \A b \in Call : b # c => pc'[b] = pc[b] /\ result'[b] = result[b]
  OBVIOUS
<1>3. /\ pc'[c] \in {"write", "log"}
      /\ result'[c] \in {"none", "refused", "error"}
      /\ pc'[c] = "write" <=> result'[c] = "none"
      /\ UNCHANGED <<jobs, owner, call, reply, changed, watch, listed, oplog, past, wrote>>
  BY <1>1
<1>4. Requested'
  BY <1>0, <1>1, <1>2, <1>3 DEF Requested
<1>5. Progress'
  BY <1>0, <1>1, <1>2, <1>3 DEF Progress
<1>6. Effective' /\ OnlyOwnersWrite'
  BY <1>0, <1>3, TableKept
<1>7. Authorized'
  <2>1. pc'[c] = "write" =>
          /\ call[c].op # "create" => Live(call[c].job)
          /\ Scope(c) = call[c].grant
    OBVIOUS
  <2>2. QED
    BY <1>0, <1>2, <1>3, <2>1 DEF Authorized, Scope, Live
<1>8. Answered'
  BY <1>0, <1>2, <1>3 DEF Answered, Built
<1>9. LoggedAtTheEnd'
  BY <1>0, <1>1, <1>2, <1>3 DEF LoggedAtTheEnd
<1>10. RefusedMeansUnwritten'
  BY <1>0, <1>1, <1>2, <1>3 DEF RefusedMeansUnwritten
<1>11. LogMatchesWrites'
  BY <1>0, <1>1, <1>2, <1>3 DEF LogMatchesWrites
<1>12. QED
  BY <1>4, <1>5, <1>6, <1>7, <1>8, <1>9, <1>10, <1>11 DEF Parts

\* A write takes effect, and is never refused then, or leaves no trace.
LEMMA WriteStep ==
  ASSUME TypeOK, Parts, NEW c \in Call, Write(c)
  PROVE  Parts'
<1> USE DEF TypeOK, Write, Return
<1>0. /\ Requested /\ Progress /\ Effective /\ Authorized /\ Answered
      /\ LoggedAtTheEnd
      /\ RefusedMeansUnwritten /\ OnlyOwnersWrite /\ LogMatchesWrites
  BY DEF Parts
<1>1. c \notin wrote /\ result[c] = "none" /\ pc[c] = "write"
  BY <1>0 DEF Progress
<1>2. \A b \in Call : b # c => pc'[b] = pc[b] /\ result'[b] = result[b]
  OBVIOUS
<1>3. UNCHANGED <<call, reply, changed, watch, listed, oplog>>
  OBVIOUS
<1>4. CASE Commit(c)
  <2>1. /\ pc'[c] \in {"signal", "log"}
        /\ result'[c] = IF pc'[c] = "signal" THEN "none" ELSE "error"
    <3>1. \/ pc' = [pc EXCEPT ![c] = "signal"] /\ UNCHANGED result
          \/ Return(c, "error")
      <4>1. ~UNCHANGED wrote
        BY <1>1, <1>4 DEF Commit
      <4>2. QED
        BY <4>1
    <3>2. QED
      BY <1>1, <3>1
  <2>2. wrote' = wrote \cup {c}
    BY <1>4 DEF Commit
  <2>3. Requested'
    BY <1>0, <1>1, <1>2, <1>3, <2>1 DEF Requested
  <2>4. Progress'
    BY <1>0, <1>2, <2>1, <2>2 DEF Progress
  <2>5. Effective'
    BY <1>0, <1>1, <1>3, <1>4, CommitEffective
  <2>6. OnlyOwnersWrite' /\ Authorized'
    BY <1>0, <1>1, <1>2, <1>3, <1>4, <2>1, CommitOwner DEF Authorized
  <2>7. Answered'
    BY <1>0, <1>2, <1>3, <2>1 DEF Answered, Built
  <2>8. LoggedAtTheEnd'
    BY <1>0, <1>1, <1>2, <1>3 DEF LoggedAtTheEnd
  <2>9. RefusedMeansUnwritten'
    BY <1>0, <1>2, <2>1, <2>2 DEF RefusedMeansUnwritten
  <2>10. LogMatchesWrites'
    <3>1. ASSUME NEW s \in BOOLEAN PROVE [call |-> c, succeeded |-> s] \notin oplog
      BY <1>0, <1>1 DEF LoggedAtTheEnd
    <3>2. QED
      BY <1>0, <1>2, <1>3, <2>1, <2>2, <3>1 DEF LogMatchesWrites
  <2>11. QED
    BY <2>3, <2>4, <2>5, <2>6, <2>7, <2>8, <2>9, <2>10 DEF Parts
<1>5. CASE /\ \/ Stale(c) /\ Return(c, "refused")
              \/ Return(c, "error")
           /\ UNCHANGED <<jobs, owner, past, wrote>>
  <2>1. pc'[c] = "log" /\ result'[c] \in {"refused", "error"}
    BY <1>5
  <2>2. Requested'
    BY <1>0, <1>1, <1>2, <1>3, <2>1 DEF Requested
  <2>3. Progress'
    BY <1>0, <1>1, <1>2, <1>5, <2>1 DEF Progress
  <2>4. Effective' /\ OnlyOwnersWrite'
    BY <1>0, <1>3, <1>5, TableKept
  <2>5. Authorized' /\ Answered'
    BY <1>0, <1>2, <1>3, <1>5, <2>1 DEF Authorized, Answered, Built
  <2>6. LoggedAtTheEnd'
    BY <1>0, <1>1, <1>2, <1>3 DEF LoggedAtTheEnd
  <2>7. RefusedMeansUnwritten'
    BY <1>0, <1>1, <1>2, <1>5 DEF RefusedMeansUnwritten
  <2>8. LogMatchesWrites'
    BY <1>0, <1>1, <1>2, <1>3, <1>5, <2>1 DEF LogMatchesWrites
  <2>9. QED
    BY <2>2, <2>3, <2>4, <2>5, <2>6, <2>7, <2>8 DEF Parts
<1>6. QED
  BY <1>4, <1>5

\* A call announces its write before it returns it.
LEMMA SignalStep ==
  ASSUME TypeOK, Parts, NEW c \in Call, Signal(c)
  PROVE  Parts'
<1> USE DEF TypeOK, Signal, Return
<1>0. /\ Requested /\ Progress /\ Effective /\ Authorized /\ Answered
      /\ LoggedAtTheEnd
      /\ RefusedMeansUnwritten /\ OnlyOwnersWrite /\ LogMatchesWrites
  BY DEF Parts
<1>1. pc[c] = "signal" /\ c \in wrote
  BY <1>0 DEF Progress
<1>2. \A b \in Call : b # c =>
        pc'[b] = pc[b] /\ result'[b] = result[b] /\ reply'[b] = reply[b]
  OBVIOUS
<1>3. /\ pc'[c] = "log" /\ result'[c] = "ok" /\ reply'[c] = Built(c)
      /\ UNCHANGED <<jobs, owner, call, watch, listed, oplog, past, wrote>>
  OBVIOUS
<1>4. Requested'
  BY <1>0, <1>1, <1>2, <1>3 DEF Requested
<1>5. Progress'
  BY <1>0, <1>1, <1>2, <1>3 DEF Progress
<1>6. Effective' /\ OnlyOwnersWrite'
  BY <1>0, <1>3, TableKept
<1>7. Authorized' /\ Answered'
  <2>1. \A b \in Call : Built(b)' = Built(b)
    BY <1>3 DEF Built
  <2>2. Answered'
    BY <1>0, <1>2, <1>3, <2>1 DEF Answered
  <2>3. Authorized'
    BY <1>0, <1>2, <1>3 DEF Authorized
  <2>4. QED
    BY <2>2, <2>3
<1>8. LoggedAtTheEnd'
  BY <1>0, <1>1, <1>2, <1>3 DEF LoggedAtTheEnd
<1>9. RefusedMeansUnwritten'
  BY <1>0, <1>2, <1>3 DEF RefusedMeansUnwritten
<1>10. LogMatchesWrites'
  BY <1>0, <1>1, <1>2, <1>3 DEF LogMatchesWrites, LoggedAtTheEnd
<1>11. QED
  BY <1>4, <1>5, <1>6, <1>7, <1>8, <1>9, <1>10 DEF Parts

\* The operation is logged, or its success becomes an error.
LEMMA FinishStep ==
  ASSUME TypeOK, Parts, NEW c \in Call, FinishOperation(c)
  PROVE  Parts'
<1> USE DEF TypeOK
<1>0. /\ Requested /\ Progress /\ Effective /\ Authorized /\ Answered
      /\ LoggedAtTheEnd
      /\ RefusedMeansUnwritten /\ OnlyOwnersWrite /\ LogMatchesWrites
  BY DEF Parts
<1>1. /\ pc[c] = "log" /\ result[c] \in {"ok", "refused", "error"}
      /\ result[c] = "ok" => c \in wrote
  BY <1>0 DEF Progress, FinishOperation
<1>2. \A b \in Call : b # c => pc'[b] = pc[b] /\ result'[b] = result[b]
  BY DEF FinishOperation
<1>3. /\ pc'[c] = "done"
      /\ result'[c] \in {result[c], "error"}
      /\ result'[c] = "ok" => result[c] = "ok"
      /\ UNCHANGED <<jobs, owner, call, reply, changed, watch, listed, past, wrote>>
  BY <1>1 DEF FinishOperation
<1>4. \/ /\ oplog' = oplog \cup {[call |-> c, succeeded |-> result[c] = "ok"]}
         /\ UNCHANGED result
      \/ /\ UNCHANGED oplog
         /\ result'[c] = "ok" => ~Recording
  BY <1>1 DEF FinishOperation
<1>5. Requested'
  BY <1>0, <1>1, <1>2, <1>3 DEF Requested
<1>6. Progress'
  BY <1>0, <1>1, <1>2, <1>3 DEF Progress
<1>7. Effective' /\ OnlyOwnersWrite'
  BY <1>0, <1>3, TableKept
<1>8. Authorized'
  BY <1>0, <1>2, <1>3 DEF Authorized
<1>9. Answered'
  <2>1. \A b \in Call : Built(b)' = Built(b)
    BY <1>3 DEF Built
  <2>2. QED
    BY <1>0, <1>2, <1>3, <2>1 DEF Answered
<1>10. LoggedAtTheEnd'
  <2>1. \A x \in oplog' : x \in oplog \/ x.call = c
    BY <1>4
  <2>2. \A x \in oplog : x.call \in Call /\ x.call # c
    BY <1>0, <1>1 DEF LoggedAtTheEnd
  <2>3. QED
    BY <1>0, <1>2, <1>3, <2>1, <2>2 DEF LoggedAtTheEnd
<1>11. RefusedMeansUnwritten'
  BY <1>0, <1>1, <1>2, <1>3 DEF RefusedMeansUnwritten
<1>12. LogMatchesWrites'
  <2>1. ASSUME NEW s \in BOOLEAN PROVE [call |-> c, succeeded |-> s] \notin oplog
    BY <1>0, <1>1 DEF LoggedAtTheEnd
  <2>2. ASSUME NEW b \in Call, b # c, NEW s \in BOOLEAN
        PROVE  [call |-> b, succeeded |-> s] \in oplog' <=> [call |-> b, succeeded |-> s] \in oplog
    BY <1>4, <2>2
  <2>3. ASSUME NEW b \in Call, b # c
        PROVE  /\ [call |-> b, succeeded |-> TRUE] \in oplog' => b \in wrote
               /\ pc'[b] = "done" /\ result'[b] = "ok" /\ Recording =>
                    [call |-> b, succeeded |-> TRUE] \in oplog'
               /\ [call |-> b, succeeded |-> FALSE] \in oplog' /\ b \in wrote =>
                    result'[b] = "error"
    BY <1>0, <1>2, <2>2, <2>3 DEF LogMatchesWrites
  <2>4. CASE UNCHANGED oplog
    <3>1. result'[c] = "ok" => ~Recording
      <4>1. result[c] = "ok" /\ UNCHANGED result =>
              [call |-> c, succeeded |-> result[c] = "ok"] \notin oplog'
        BY <2>1, <2>4
      <4>2. QED
        BY <1>3, <1>4, <4>1
    <3>2. QED
      BY <1>3, <2>1, <2>3, <2>4, <3>1 DEF LogMatchesWrites
  <2>5. CASE result[c] = "ok" /\ oplog' = oplog \cup {[call |-> c, succeeded |-> TRUE]}
    BY <1>1, <1>3, <2>1, <2>3, <2>5 DEF LogMatchesWrites
  <2>6. CASE /\ result[c] # "ok" /\ oplog' = oplog \cup {[call |-> c, succeeded |-> FALSE]}
             /\ UNCHANGED result
    <3>1. c \in wrote => result'[c] = "error"
      BY <1>0, <1>1, <2>6 DEF RefusedMeansUnwritten
    <3>2. QED
      BY <1>3, <2>1, <2>3, <2>6, <3>1 DEF LogMatchesWrites
  <2>7. QED
    <3>1. CASE result[c] = "ok"
      <4>1. (result[c] = "ok") = TRUE
        BY <3>1
      <4>2. QED
        BY <1>4, <2>4, <2>5, <3>1, <4>1
    <3>2. CASE result[c] # "ok"
      <4>1. (result[c] = "ok") = FALSE
        BY <3>2
      <4>2. QED
        BY <1>4, <2>4, <2>6, <3>2, <4>1
    <3>3. QED
      BY <3>1, <3>2
<1>13. QED
  BY <1>5, <1>6, <1>7, <1>8, <1>9, <1>10, <1>11, <1>12 DEF Parts

\* The runtime of a replica takes a signal, lists the table, or fails to.
LEMMA WatchStep ==
  ASSUME TypeOK, Parts, NEW r \in Replica, Receive(r) \/ List(r) \/ ListFails(r)
  PROVE  Parts'
<1>0. /\ Requested /\ Progress /\ Effective /\ Authorized /\ Answered
      /\ LoggedAtTheEnd
      /\ RefusedMeansUnwritten /\ OnlyOwnersWrite /\ LogMatchesWrites
  BY DEF Parts
<1>1. UNCHANGED <<jobs, owner, pc, call, result, reply, oplog, past, wrote>>
  BY DEF Receive, List, ListFails
<1>2. Effective' /\ OnlyOwnersWrite'
  BY <1>0, <1>1, TableKept
<1>3. Requested' /\ Progress' /\ Authorized' /\ LoggedAtTheEnd' /\ RefusedMeansUnwritten'
  BY <1>0, <1>1 DEF Requested, Progress, Authorized, LoggedAtTheEnd, RefusedMeansUnwritten
<1>4. Answered' /\ LogMatchesWrites'
  BY <1>0, <1>1 DEF Answered, Built, LogMatchesWrites
<1>5. QED
  BY <1>2, <1>3, <1>4 DEF Parts

\* The calls of a replica that dies return nothing.
LEMMA CrashStep ==
  ASSUME TypeOK, Parts, NEW r \in Replica, Crash(r)
  PROVE  Parts'
<1>0. /\ Requested /\ Progress /\ Effective /\ Authorized /\ Answered
      /\ LoggedAtTheEnd
      /\ RefusedMeansUnwritten /\ OnlyOwnersWrite /\ LogMatchesWrites
  BY DEF Parts
<1>1. UNCHANGED <<jobs, owner, call, reply, oplog, past, wrote>>
  BY DEF Crash
<1>2. \A b \in Call :
        \/ pc'[b] = pc[b] /\ result'[b] = result[b]
        \/ pc'[b] = "crashed" /\ result'[b] = "none" /\ pc[b] # "done"
  BY DEF Crash
<1>3. Requested'
  BY <1>0, <1>1, <1>2 DEF Requested
<1>4. Progress'
  BY <1>0, <1>1, <1>2 DEF Progress
<1>5. Effective' /\ OnlyOwnersWrite'
  BY <1>0, <1>1, TableKept
<1>6. Authorized' /\ RefusedMeansUnwritten'
  BY <1>0, <1>1, <1>2 DEF Authorized, RefusedMeansUnwritten
<1>7. Answered'
  BY <1>0, <1>1, <1>2 DEF Answered, Built
<1>8. LoggedAtTheEnd'
  BY <1>0, <1>1, <1>2 DEF LoggedAtTheEnd, TypeOK
<1>9. LogMatchesWrites'
  <2>1. ASSUME NEW b \in Call, NEW s \in BOOLEAN, [call |-> b, succeeded |-> s] \in oplog
        PROVE  result'[b] = result[b]
    BY <1>0, <1>2, <2>1 DEF LoggedAtTheEnd
  <2>2. QED
    BY <1>0, <1>1, <1>2, <2>1 DEF LogMatchesWrites
<1>10. QED
  BY <1>3, <1>4, <1>5, <1>6, <1>7, <1>8, <1>9 DEF Parts

\* Every step of a call, a runtime or a replica keeps the invariant.
LEMMA ServiceStep == ServiceInv /\ [Next]_vars => ServiceInv'
<1> SUFFICES ASSUME ServiceInv, [Next]_vars
             PROVE  ServiceInv'
  OBVIOUS
<1>1. TypeOK /\ Parts /\ Requested
  BY DEF ServiceInv, Parts
<1>2. TypeOK'
  BY <1>1, TypeStep
<1>3. Parts'
  <2>1. CASE UNCHANGED vars
    <3>1. Requested' /\ Progress' /\ Authorized' /\ LoggedAtTheEnd' /\ Effective'
      BY <1>1, <2>1 DEF vars, Parts, Requested, Progress, Authorized, LoggedAtTheEnd,
                        Effective, Built
    <3>2. Answered' /\ RefusedMeansUnwritten' /\ OnlyOwnersWrite'
      BY <1>1, <2>1 DEF vars, Parts, Answered, Built, RefusedMeansUnwritten, OnlyOwnersWrite
    <3>3. LogMatchesWrites'
      BY <1>1, <2>1 DEF vars, Parts, LogMatchesWrites
    <3>4. QED
      BY <3>1, <3>2, <3>3 DEF Parts
  <2>2. QED
    BY <1>1, <2>1, RequestStep, ReadStep, WriteStep, SignalStep, FinishStep,
       WatchStep, CrashStep DEF Next
<1>4. QED
  BY <1>2, <1>3 DEF ServiceInv, Parts

-----------------------------------------------------------------------------
(* The theorems.                                                           *)

\* What holds between the table, the calls in progress, the runtimes and the
\* operation log (service.go:60, :85, :118) in every reachable state.
THEOREM ServiceInvariant == Spec => []ServiceInv
BY ServiceInit, ServiceStep, PTL DEF Spec

\* The variables keep their types, whatever the calls do.
THEOREM TypeCorrect == Spec => []TypeOK
<1>1. ServiceInv => TypeOK
  BY DEF ServiceInv, Parts
<1>2. QED
  BY <1>1, ServiceInvariant, PTL

\* No update is lost: the job a successful Create or Update returns is the row
\* the table held at that version.
THEOREM ReplyIsStoredRowHolds == Spec => []ReplyIsStoredRow
<1>1. ServiceInv => ReplyIsStoredRow
  <2> SUFFICES ASSUME ServiceInv, NEW c \in Call, result[c] = "ok",
                      call[c].op \in {"create", "update"}
               PROVE  past[call[c].job][reply[c].version] = reply[c]
    BY DEF ReplyIsStoredRow
  <2>1. c \in wrote /\ reply[c] = Built(c)
    BY DEF ServiceInv, Parts, Progress, Answered
  <2>2. past[call[c].job][call[c].expected + 1] = Built(c)
    BY <2>1 DEF ServiceInv, Parts, Effective
  <2>3. Built(c).version = call[c].expected + 1
    BY BuiltType DEF ServiceInv, Parts
  <2>4. QED
    BY <2>1, <2>2, <2>3
<1>2. QED
  BY <1>1, ServiceInvariant, PTL

\* A job stays as a successful Delete left it.
THEOREM DeleteIsFinalHolds == Spec => []DeleteIsFinal
<1>1. ServiceInv => DeleteIsFinal
  <2> SUFFICES ASSUME ServiceInv, NEW c \in Call, result[c] = "ok",
                      call[c].op = "delete"
               PROVE  /\ jobs[call[c].job].deleted
                      /\ jobs[call[c].job].version = call[c].expected + 1
    BY DEF DeleteIsFinal
  <2>1. c \in wrote
    BY DEF ServiceInv, Parts, Progress
  <2>2. QED
    BY <2>1 DEF ServiceInv, Parts, Effective
<1>2. QED
  BY <1>1, ServiceInvariant, PTL

\* Whoever is refused has changed nothing.
THEOREM RefusedMeansUnwrittenHolds == Spec => []RefusedMeansUnwritten
<1>1. ServiceInv => RefusedMeansUnwritten
  BY DEF ServiceInv, Parts
<1>2. QED
  BY <1>1, ServiceInvariant, PTL

\* Only callers with a grant for the application of a job have written it.
THEOREM OnlyOwnersWriteHolds == Spec => []OnlyOwnersWrite
<1>1. ServiceInv => OnlyOwnersWrite
  BY DEF ServiceInv, Parts
<1>2. QED
  BY <1>1, ServiceInvariant, PTL

\* A listing sees every write that has been acknowledged.
LEMMA ListingSees ==
  ASSUME ServiceInv, NEW r \in Replica, List(r), NEW c \in Call,
         result[c] = "ok", call[c].host = r
  PROVE  Noticed(c)'
<1>1. c \in wrote
  BY DEF ServiceInv, Parts, Progress
<1>2. jobs[call[c].job].version >= call[c].expected + 1
  BY <1>1 DEF ServiceInv, Parts, Effective
<1>3. call[c].job \in JobID
  BY DEF ServiceInv, Parts, TypeOK, Arguments
<1>4. listed'[r][call[c].job] = jobs[call[c].job].version /\ UNCHANGED call
  BY <1>3 DEF List, Versions, ServiceInv, Parts, TypeOK
<1>5. QED
  BY <1>2, <1>4 DEF Noticed

\* What a single step may do to what the runtime of a replica has noticed.
LEMMA NoticedStep ==
  ASSUME ServiceInv, Next, NEW c \in Call, result'[c] = "ok"
  PROVE  \/ Noticed(c)'
         \/ result[c] = "ok" /\ (Noticed(c) => ListFails(call[c].host))
<1>1. /\ TypeOK /\ Requested /\ Progress /\ Effective
      /\ result[c] = "ok" => c \in wrote
      /\ result[c] = "ok" => call[c].host \in Replica
  BY DEF ServiceInv, Parts, Progress, Effective
<1>2. CASE UNCHANGED <<call, changed, watch, listed>> /\ result[c] = "ok"
  BY <1>2 DEF Noticed
<1>3. ASSUME NEW b \in Call, NEW op \in {"create", "update", "delete"},
             NEW in \in Inputs(op), Request(b, in)
      PROVE  UNCHANGED <<changed, watch, listed>> /\ call'[c] = call[c] /\ result[c] = "ok"
  <2>1. b # c
    BY <1>1, <1>3 DEF Request, Return, Progress, TypeOK
  <2>2. QED
    BY <1>1, <1>3, <2>1 DEF Request, Return, TypeOK
<1>4. ASSUME NEW b \in Call, Read(b) \/ Write(b) \/ FinishOperation(b)
      PROVE  UNCHANGED <<call, changed, watch, listed>> /\ result[c] = "ok"
  BY <1>1, <1>4 DEF Read, Write, FinishOperation, Return, TypeOK
<1>5. ASSUME NEW b \in Call, Signal(b)
      PROVE  \/ Noticed(c)'
             \/ result[c] = "ok" /\ ~Noticed(c)
  <2>1. UNCHANGED <<call, watch, listed>> /\ changed' = [changed EXCEPT ![call[b].host] = TRUE]
    BY <1>5 DEF Signal
  <2>2. CASE b = c
    <3>1. call[c].host \in Replica
      BY <1>1, <1>5, <2>2 DEF Signal, Requested
    <3>2. changed'[call[c].host]
      BY <1>1, <2>1, <2>2, <3>1 DEF TypeOK
    <3>3. QED
      BY <2>1, <3>2 DEF Noticed
  <2>3. CASE b # c
    <3>1. result[c] = "ok"
      BY <1>1, <1>5, <2>3 DEF Signal, Return, TypeOK
    <3>2. changed[call[c].host] => changed'[call[c].host]
      BY <1>1, <2>1, <3>1 DEF TypeOK
    <3>3. QED
      BY <2>1, <3>1, <3>2 DEF Noticed
  <2>4. QED
    BY <2>2, <2>3
<1>6. ASSUME NEW r \in Replica, Receive(r)
      PROVE  Noticed(c)' \/ (result[c] = "ok" /\ ~Noticed(c))
  BY <1>1, <1>6 DEF Receive, Noticed, TypeOK
<1>7. ASSUME NEW r \in Replica, List(r)
      PROVE  Noticed(c)' \/ (result[c] = "ok" /\ ~Noticed(c))
  <2>1. result[c] = "ok" /\ UNCHANGED <<call, changed>>
    BY <1>7 DEF List
  <2>2. CASE call[c].host = r
    BY <1>7, <2>1, <2>2, ListingSees
  <2>3. CASE call[c].host # r
    <3>1. /\ listed'[call[c].host] = listed[call[c].host]
          /\ watch'[call[c].host] = watch[call[c].host]
      BY <1>1, <1>7, <2>1, <2>3 DEF List, TypeOK
    <3>2. QED
      BY <2>1, <3>1 DEF Noticed
  <2>4. QED
    BY <2>2, <2>3
<1>8. ASSUME NEW r \in Replica, ListFails(r)
      PROVE  \/ Noticed(c)'
             \/ result[c] = "ok" /\ (Noticed(c) => ListFails(call[c].host))
  <2>1. result[c] = "ok" /\ UNCHANGED <<call, changed, listed>>
    BY <1>8 DEF ListFails
  <2>2. CASE call[c].host = r
    BY <1>8, <2>1, <2>2
  <2>3. CASE call[c].host # r
    <3>1. watch'[call[c].host] = watch[call[c].host]
      BY <1>1, <1>8, <2>1, <2>3 DEF ListFails, TypeOK
    <3>2. QED
      BY <2>1, <3>1 DEF Noticed
  <2>4. QED
    BY <2>2, <2>3
<1>9. ASSUME NEW r \in Replica, Crash(r)
      PROVE  Noticed(c)' \/ (result[c] = "ok" /\ ~Noticed(c))
  <2>1. /\ result[c] = "ok" /\ UNCHANGED <<call, listed>>
        /\ changed' = [changed EXCEPT ![r] = FALSE]
        /\ watch' = [watch EXCEPT ![r] = "start"]
    BY <1>9 DEF Crash
  <2>2. QED
    BY <1>1, <2>1 DEF Noticed, TypeOK
<1>10. QED
  BY <1>2, <1>3, <1>4, <1>5, <1>6, <1>7, <1>8, <1>9 DEF Next, Noticed

\* No acknowledged write is overlooked by the scheduler of its replica but
\* through a listing that fails.
THEOREM AcknowledgedIsNoticedHolds == Spec => AcknowledgedIsNoticed
<1> DEFINE Overlooks(c) ==
             (result[c] = "ok")' /\ ~Noticed(c)' =>
               result[c] = "ok" /\ (Noticed(c) => ListFails(call[c].host))
<1>1. ServiceInv /\ [Next]_vars => [\A c \in Call : Overlooks(c)]_vars
  BY NoticedStep
<1>2. QED
  BY <1>1, ServiceInvariant, PTL DEF Spec, AcknowledgedIsNoticed

\* The operation log tells the writes from the failures.
THEOREM LogMatchesWritesHolds == Spec => []LogMatchesWrites
<1>1. ServiceInv => LogMatchesWrites
  BY DEF ServiceInv, Parts
<1>2. QED
  BY <1>1, ServiceInvariant, PTL

=============================================================================
