----------------------------- MODULE JobService -----------------------------
(***************************************************************************)
(* The writing half of job.Service (internal/job/service.go): Create,      *)
(* Update and Delete, called concurrently on several replicas.             *)
(*                                                                         *)
(* A call reads the row and asks whether the caller may use its            *)
(* application, then writes under the optimistic lock, then signals the    *)
(* runtime of its replica, then records the operation:                     *)
(*                                                                         *)
(*   new -> read -> write -> signal -> log -> done                         *)
(*                                                                         *)
(* Nothing holds between the steps but what the UPDATE's WHERE clause      *)
(* checks again.  A commit may take effect though it reports an error, and *)
(* a replica may crash between any two steps.                              *)
(***************************************************************************)
EXTENDS JobStore

CONSTANTS
  Replica,
  Call,          \* calls of Create, Update and Delete
  Application,   \* a tenant's applications
  Nobody,        \* no replica, no application
  Recording      \* whether operation logs are enabled

ASSUME ServiceAssumption ==
  /\ JobID # {} /\ Application # {}
  /\ Nobody \notin Replica \cup Application
  /\ Recording \in BOOLEAN

VARIABLES
  owner,     \* owner[j]: the application_id of row j
  pc,        \* where each call stands
  call,      \* the arguments of each call, its caller's grant and its replica
  result,    \* what the call returns, or is about to
  reply,     \* the job it returns
  changed,   \* the channel of capacity one between Service and Runtime
  watch,     \* the runtime of each replica: starting, idle, or with a signal
             \* taken and the table about to be listed
  listed,    \* listed[r][j]: the version of j that r's last listing has seen
  oplog,     \* operation log entries: [call, succeeded]
  past,      \* history: past[j][v] is the row j had at version v
  wrote      \* history: the calls whose write took effect

vars == <<jobs, owner, pc, call, result, reply, changed, watch, listed, oplog,
          past, wrote>>

-----------------------------------------------------------------------------

\* grant: the application the caller may use; app: the one in the input.
Arguments == [op : {"none", "create", "update", "delete"}, job : JobID,
              expected : Nat, def : Definition, status : Status,
              app : Application \cup {Nobody}, grant : Application \cup {Nobody},
              host : Replica \cup {Nobody}]

NoCall == [op |-> "none", job |-> CHOOSE j \in JobID : TRUE, expected |-> 0,
           def |-> NoRow.def, status |-> NoRow.status,
           app |-> Nobody, grant |-> Nobody, host |-> Nobody]

\* The requests: arguments an operation does not have are left at NoCall's.
Inputs(op) ==
  {in \in [op : {op}, job : JobID, expected : 0 .. MaxVersion - 1,
           def : Definition, status : Status,
           app : Application \cup {Nobody}, grant : Application, host : Replica] :
     /\ op = "create" => in.expected = 0
     /\ op = "delete" => in.def = NoCall.def /\ in.status = NoCall.status
     /\ op = "delete" <=> in.app = Nobody}

Versions == [j \in JobID |-> jobs[j].version]

\* A row as an INSERT leaves it.
FirstRow == [version : {1}, status : Status, deleted : {FALSE}, def : Definition]

\* The table may hold jobs that earlier processes have created.
Init ==
  /\ jobs \in [JobID -> {NoRow} \cup FirstRow]
  /\ owner \in [JobID -> Application \cup {Nobody}]
  /\ \A j \in JobID : owner[j] = Nobody <=> jobs[j] = NoRow
  /\ pc = [c \in Call |-> "new"]
  /\ call = [c \in Call |-> NoCall]
  /\ result = [c \in Call |-> "none"]
  /\ reply = [c \in Call |-> NoRow]
  /\ changed = [r \in Replica |-> FALSE]
  /\ watch = [r \in Replica |-> "idle"]
  /\ listed = [r \in Replica |-> Versions]
  /\ oplog = {}
  /\ past = [j \in JobID |->
              [v \in 1..MaxVersion |-> IF v = 1 THEN jobs[j] ELSE NoRow]]
  /\ wrote = {}

-----------------------------------------------------------------------------

\* The business error of the call is known; finishOperation is next.
Return(c, e) ==
  /\ pc' = [pc EXCEPT ![c] = "log"]
  /\ result' = [result EXCEPT ![c] = e]

\* A request arrives at a replica whose start, with its first listing, is
\* complete.  Create draws a new id.  A version below 1, or a context
\* without an actor, is refused before anything is read.
Request(c, in) ==
  /\ pc[c] = "new" /\ watch[in.host] # "start"
  /\ in.op = "create" => /\ jobs[in.job].version = 0
                         /\ \A b \in Call : ~(call[b].op = "create" /\ call[b].job = in.job)
  /\ call' = [call EXCEPT ![c] = in]
  /\ \/ /\ in.op # "create" => in.expected >= 1
        /\ pc' = [pc EXCEPT ![c] = "read"]
        /\ UNCHANGED result
     \/ Return(c, "refused")
  /\ UNCHANGED <<jobs, owner, reply, changed, watch, listed, oplog, past, wrote>>

\* Mutation: Update is authorized for the application the request names.
ScopeFromInput(c) == call[c].app

\* The application authorizeScope is asked about: the input's for a new job,
\* the stored row's otherwise.
Scope(c) == IF call[c].op = "create" THEN call[c].app ELSE owner[call[c].job]

\* GetJob, authorizeScope and normalizeAndValidate.  The input may be invalid
\* whatever the row says; queries and grant lookups may fail.
Read(c) ==
  /\ pc[c] = "read"
  /\ \/ /\ call[c].op # "create" => Live(call[c].job)
        /\ Scope(c) = call[c].grant
        /\ pc' = [pc EXCEPT ![c] = "write"]
        /\ UNCHANGED result
     \/ Return(c, "refused")
     \/ Return(c, "error")
  /\ UNCHANGED <<jobs, owner, call, reply, changed, watch, listed, oplog, past,
                 wrote>>

\* Mutation: the UPDATE does not compare the version.
CommitUnversioned(c) ==
  LET in == call[c]
  IN  /\ jobs[in.job].version < MaxVersion
      /\ \/ in.op = "create" /\ CreateJob(in.job, in.def, in.status)
         \/ in.op = "update" /\ UpdateJob(in.job, jobs[in.job].version, in.def, in.status)
         \/ in.op = "delete" /\ DeleteJob(in.job, jobs[in.job].version)
      /\ owner' = IF in.op = "create" THEN [owner EXCEPT ![in.job] = in.app] ELSE owner
      /\ past' = [past EXCEPT ![in.job][jobs[in.job].version + 1] = jobs'[in.job]]
      /\ wrote' = wrote \cup {c}

\* Mutation: the UPDATE does not ask for deleted_at IS NULL.
CommitUndeleting(c) ==
  LET in == call[c]
      old == jobs[in.job]
  IN  /\ old.version < MaxVersion
      /\ \/ in.op = "create" /\ CreateJob(in.job, in.def, in.status)
         \/ /\ in.op \in {"update", "delete"}
            /\ old.version = in.expected
            /\ jobs' = [jobs EXCEPT ![in.job] =
                 [version |-> in.expected + 1, status |-> in.status,
                  deleted |-> old.deleted \/ in.op = "delete", def |-> in.def]]
      /\ owner' = IF in.op = "create" THEN [owner EXCEPT ![in.job] = in.app] ELSE owner
      /\ past' = [past EXCEPT ![in.job][old.version + 1] = jobs'[in.job]]
      /\ wrote' = wrote \cup {c}

\* The statement matches a row and its transaction takes effect.  An UPDATE
\* leaves application_id alone.
Commit(c) ==
  LET in == call[c]
  IN  /\ jobs[in.job].version < MaxVersion
      /\ \/ in.op = "create" /\ CreateJob(in.job, in.def, in.status)
         \/ in.op = "update" /\ UpdateJob(in.job, in.expected, in.def, in.status)
         \/ in.op = "delete" /\ DeleteJob(in.job, in.expected)
      /\ owner' = IF in.op = "create" THEN [owner EXCEPT ![in.job] = in.app] ELSE owner
      /\ past' = [past EXCEPT ![in.job][jobs[in.job].version + 1] = jobs'[in.job]]
      /\ wrote' = wrote \cup {c}

\* The row the service builds for the caller, from the input and the version
\* it asked for; a delete returns none.
Built(c) ==
  IF call[c].op = "delete" THEN NoRow
  ELSE [version |-> call[c].expected + 1, status |-> call[c].status,
        deleted |-> FALSE, def |-> call[c].def]

\* No row with this id, this version and no deletion time.
Stale(c) ==
  /\ call[c].op # "create"
  /\ ~(Live(call[c].job) /\ jobs[call[c].job].version = call[c].expected)

\* Mutation: a stale version and a failed commit are told apart no more.
WriteConflated(c) ==
  /\ pc[c] = "write"
  /\ \/ /\ Commit(c)
        /\ \/ pc' = [pc EXCEPT ![c] = "signal"] /\ UNCHANGED result
           \/ Return(c, "refused")
     \/ Return(c, "refused") /\ UNCHANGED <<jobs, owner, past, wrote>>
  /\ UNCHANGED <<call, reply, changed, watch, listed, oplog>>

\* Transactor.Within: committed; committed with an error all the same; stale;
\* or failed (also when the rollback of a stale write fails).
Write(c) ==
  /\ pc[c] = "write"
  /\ \/ /\ Commit(c)
        /\ \/ pc' = [pc EXCEPT ![c] = "signal"] /\ UNCHANGED result
           \/ Return(c, "error")
     \/ /\ \/ Stale(c) /\ Return(c, "refused")
           \/ Return(c, "error")
        /\ UNCHANGED <<jobs, owner, past, wrote>>
  /\ UNCHANGED <<call, reply, changed, watch, listed, oplog>>

\* Mutation: Delete does not signal.
SignalNotForDelete(c) ==
  /\ pc[c] = "signal"
  /\ Return(c, "ok")
  /\ reply' = [reply EXCEPT ![c] = Built(c)]
  /\ changed' = [changed EXCEPT ![call[c].host] = @ \/ call[c].op # "delete"]
  /\ UNCHANGED <<jobs, owner, call, watch, listed, oplog, past, wrote>>

\* signalChanged, and the value to return.
Signal(c) ==
  /\ pc[c] = "signal"
  /\ Return(c, "ok")
  /\ reply' = [reply EXCEPT ![c] = Built(c)]
  /\ changed' = [changed EXCEPT ![call[c].host] = TRUE]
  /\ UNCHANGED <<jobs, owner, call, watch, listed, oplog, past, wrote>>

\* Mutation: a log that could not be queued is forgotten.
FinishOperationSilent(c) ==
  /\ pc[c] = "log"
  /\ pc' = [pc EXCEPT ![c] = "done"]
  /\ oplog' \in {oplog, oplog \cup {[call |-> c, succeeded |-> result[c] = "ok"]}}
  /\ UNCHANGED <<jobs, owner, call, result, reply, changed, watch, listed, past,
                 wrote>>

\* finishOperation: the entry is queued, or not, and then a success becomes
\* an error.
FinishOperation(c) ==
  /\ pc[c] = "log"
  /\ pc' = [pc EXCEPT ![c] = "done"]
  /\ \/ /\ Recording
        /\ oplog' = oplog \cup {[call |-> c, succeeded |-> result[c] = "ok"]}
        /\ UNCHANGED result
     \/ /\ Recording
        /\ result' = [result EXCEPT ![c] = IF @ = "ok" THEN "error" ELSE @]
        /\ UNCHANGED oplog
     \/ ~Recording /\ UNCHANGED <<oplog, result>>
  /\ UNCHANGED <<jobs, owner, call, reply, changed, watch, listed, past, wrote>>

-----------------------------------------------------------------------------

\* The select of the watch loop takes the signal (with cron.enabled; without it
\* there is no loop, and the signal stays in the channel).
Receive(r) ==
  /\ watch[r] = "idle" /\ changed[r]
  /\ changed' = [changed EXCEPT ![r] = FALSE]
  /\ watch' = [watch EXCEPT ![r] = "list"]
  /\ UNCHANGED <<jobs, owner, pc, call, result, reply, listed, oplog, past, wrote>>

\* ListEnabled answers: for OnStart, for a signal, or for a tick, whose receipt
\* changes nothing here and is no step of its own.  What becomes of the rows is
\* the subject of SchedulerRuntime.
List(r) ==
  /\ watch' = [watch EXCEPT ![r] = "idle"]
  /\ listed' = [listed EXCEPT ![r] = Versions]
  /\ UNCHANGED <<jobs, owner, pc, call, result, reply, changed, oplog, past, wrote>>

\* ListEnabled fails: the watch loop logs it, and the signal is gone.
ListFails(r) ==
  /\ watch[r] = "list"
  /\ watch' = [watch EXCEPT ![r] = "idle"]
  /\ UNCHANGED <<jobs, owner, pc, call, result, reply, changed, listed, oplog,
                 past, wrote>>

\* The process dies and is started again, as often as it takes until OnStart
\* has listed the table.
Crash(r) ==
  /\ LET Dead == {c \in Call : call[c].host = r /\ pc[c] # "done"}
     IN  /\ pc' = [c \in Call |-> IF c \in Dead THEN "crashed" ELSE pc[c]]
         /\ result' = [c \in Call |-> IF c \in Dead THEN "none" ELSE result[c]]
  /\ changed' = [changed EXCEPT ![r] = FALSE]
  /\ watch' = [watch EXCEPT ![r] = "start"]
  /\ UNCHANGED <<jobs, owner, call, reply, listed, oplog, past, wrote>>

Next ==
  \/ \E c \in Call, op \in {"create", "update", "delete"} :
       \E in \in Inputs(op) : Request(c, in)
  \/ \E c \in Call :
       Read(c) \/ Write(c) \/ Signal(c) \/ FinishOperation(c)
  \/ \E r \in Replica : Receive(r) \/ List(r) \/ ListFails(r) \/ Crash(r)

Spec == Init /\ [][Next]_vars

-----------------------------------------------------------------------------
(* Properties.                                                             *)

TypeOK ==
  /\ jobs \in [JobID -> Row]
  /\ owner \in [JobID -> Application \cup {Nobody}]
  /\ pc \in [Call -> {"new", "read", "write", "signal", "log", "done", "crashed"}]
  /\ call \in [Call -> Arguments]
  /\ result \in [Call -> {"none", "ok", "refused", "error"}]
  /\ reply \in [Call -> Row]
  /\ changed \in [Replica -> BOOLEAN]
  /\ watch \in [Replica -> {"start", "idle", "list"}]
  /\ listed \in [Replica -> [JobID -> Nat]]
  /\ oplog \subseteq [call : Call, succeeded : BOOLEAN]
  /\ past \in [JobID -> [1..MaxVersion -> Row]]
  /\ wrote \subseteq Call

\* No update is lost (service.go:111, repository.go:48): the job a successful
\* Create or Update returns, which is built from the input and not read back,
\* is the row the table held at that version, so two successful calls with the
\* same expected version cannot both have written.
ReplyIsStoredRow ==
  \A c \in Call : result[c] = "ok" /\ call[c].op \in {"create", "update"} =>
    past[call[c].job][reply[c].version] = reply[c]

\* A deleted job stays as it was deleted (repository.go:48, :52): after a
\* successful Delete no concurrent Update that read the row earlier brings it
\* back, or changes it.
DeleteIsFinal ==
  \A c \in Call : result[c] = "ok" /\ call[c].op = "delete" =>
    /\ jobs[call[c].job].deleted
    /\ jobs[call[c].job].version = call[c].expected + 1

\* Whoever is refused has changed nothing: no conflict, validation or
\* authorization error is returned for a write that took effect.
RefusedMeansUnwritten ==
  \A c \in Call : result[c] = "refused" => c \notin wrote

\* The check of authorizeScope is not out of date when the row is written:
\* every effective write was made by a caller with a grant for the application
\* the job belongs to, and still belongs to.
OnlyOwnersWrite ==
  \A c \in wrote : owner[call[c].job] = call[c].grant

\* The scheduler of c's replica has seen the write of c, or is going to.
Noticed(c) ==
  LET r == call[c].host
  IN  \/ changed[r]
      \/ watch[r] \in {"start", "list"}
      \/ listed[r][call[c].job] >= call[c].expected + 1

\* An acknowledged write is overlooked by the scheduler of its replica only
\* through a listing that fails (service.go:115, runtime.go:54, :61): when the
\* call returns, and from then on, its signal waits, the table is about to be
\* listed, or its version has been listed; nothing but a failed listing, which
\* is logged and has used up the signal, ends that.
AcknowledgedIsNoticed ==
  [][\A c \in Call : (result[c] = "ok")' /\ ~Noticed(c)' =>
       result[c] = "ok" /\ (Noticed(c) => ListFails(call[c].host))]_vars

\* The operation log can be trusted (finishOperation): a success it records
\* took effect, an acknowledged write is recorded, and a write recorded as
\* failed was reported as an error, not as a refusal.
LogMatchesWrites ==
  \A c \in Call :
    /\ [call |-> c, succeeded |-> TRUE] \in oplog => c \in wrote
    /\ pc[c] = "done" /\ result[c] = "ok" /\ Recording =>
         [call |-> c, succeeded |-> TRUE] \in oplog
    /\ [call |-> c, succeeded |-> FALSE] \in oplog /\ c \in wrote =>
         result[c] = "error"

=============================================================================
