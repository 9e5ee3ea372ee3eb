-------------------------- MODULE RequestPipeline --------------------------
(***************************************************************************)
(* What stands between a caller and job.Service: the HTTP middleware chain *)
(* (internal/transport/http) and the gRPC interceptor chain                *)
(* (internal/transport/grpc), with the idempotency record a request with   *)
(* an Idempotency-Key takes in Redis before its handler runs.              *)
(*                                                                         *)
(* A request walks its chain stage by stage; each stage passes it on or    *)
(* answers it.  The last stage, idem, begins the key's record; the handler *)
(* runs; then the result is put into the record under a context of its     *)
(* own.  Time is counted in ticks, TTLs and deadlines as ticks left.       *)
(***************************************************************************)
EXTENDS Integers, Sequences

CONSTANTS
  Request,         \* requests, resent ones included
  Key,             \* idempotency keys
  Payload,         \* method, route and body of a request
  PSKPayload,      \* those whose route matches auth.psk paths
  OpenPayload,     \* those whose route matches auth.skip paths
  GuardedPayload,  \* those whose route requires a permission
  Subject,         \* identities a token can be verified to
  NoKey, Nobody, PSK, None,
  FailOpen,        \* rate_limit.fail_open
  RequestTimeout,  \* http.request_timeout
  Grace,           \* what a handler does after its deadline under a context of
                   \* its own: the second transaction of job.Service.execute
  PersistTimeout,  \* two seconds for Complete and Fail
  ProcessingTTL, ResultTTL, FailureTTL

ASSUME PipelineAssumption ==
  /\ PSKPayload \cup OpenPayload \cup GuardedPayload \subseteq Payload
  /\ NoKey \notin Key /\ {Nobody, PSK} \cap Subject = {} /\ Nobody # PSK
  /\ None \notin Request /\ FailOpen \in BOOLEAN
  /\ None \notin [via : {"http", "grpc"}, key : Key \cup {NoKey}, payload : Payload]
  /\ {RequestTimeout, Grace, PersistTimeout} \subseteq Nat
  /\ {ProcessingTTL, ResultTTL, FailureTTL} \subseteq Nat \ {0}

\* 30 s against 10 s + 5 s + 2 s by default; Config.Validate only asks for
\* positive values.
ASSUME BudgetAssumption ==
  RequestTimeout + Grace + PersistTimeout < ProcessingTTL

VARIABLES
  req,        \* what arrived: transport, key, payload
  subject,    \* c.Get("subject")
  stage,      \* where the request is in its chain
  left,       \* HTTP: ticks until the context of the request ends
  reply,      \* the response written, if any
  effect,     \* did the handler's transaction commit?
  record,     \* Redis: key -> idempotency record
  forgotten   \* history: requests whose record expired

vars == <<req, subject, stage, left, reply, effect, record, forgotten>>

-----------------------------------------------------------------------------
(* The chains.                                                             *)

\* Mutation: the per-user limit is installed behind IdempotencyExecution.
HTTPChainLimitLast ==
  <<"key", "cors", "json", "limit", "authn", "authz", "idem", "user", "handler">>

\* router.Use and the /api/v1 group.  The limits per address and per route are
\* one stage: they are consulted one after the other and answer alike.
HTTPChain ==
  <<"key", "cors", "json", "limit", "authn", "authz", "user", "idem", "handler">>

GRPCChain == <<"key", "authn", "authz", "idem", "handler">>

Chain(r) == IF req[r].via = "http" THEN HTTPChain ELSE GRPCChain

Following(r) ==
  LET i == CHOOSE i \in 1..Len(Chain(r)) : Chain(r)[i] = stage[r]
  IN  Chain(r)[i + 1]

Stage == {"new", "persist", "done"} \cup {HTTPChain[i] : i \in 1..Len(HTTPChain)}

Absent == [state |-> "absent", owner |-> None, print |-> None, ok |-> FALSE, ttl |-> 0]

Why == {"invalid", "origin", "media", "throttled", "unavailable",
        "unauthorized", "forbidden", "conflict", "processing", "idempotency"}

NoReply == [kind |-> "none"]
Refused(why) == [kind |-> "refused", why |-> why]
Handled(ok) == [kind |-> "handled", ok |-> ok]
Replayed(ok, r) == [kind |-> "replayed", ok |-> ok, by |-> r]
Panicked == [kind |-> "panic"]

Init ==
  /\ req = [r \in Request |-> None]
  /\ subject = [r \in Request |-> Nobody]
  /\ stage = [r \in Request |-> "new"]
  /\ left = [r \in Request |-> 0]
  /\ reply = [r \in Request |-> NoReply]
  /\ effect = [r \in Request |-> FALSE]
  /\ record = [k \in Key |-> Absent]
  /\ forgotten = {}

\* c.Next()
Pass(r) ==
  /\ stage' = [stage EXCEPT ![r] = Following(r)]
  /\ UNCHANGED <<reply, left>>

\* The chain returns; the context of the request is cancelled.
Leave(r) ==
  /\ stage' = [stage EXCEPT ![r] = "done"]
  /\ left' = [left EXCEPT ![r] = 0]

\* Fail: the response is written, the rest of the chain is skipped.
Refuse(r, why) ==
  /\ Leave(r)
  /\ reply' = [reply EXCEPT ![r] = Refused(why)]

\* Mutation: the request may run as long as its processing record lives.
TimeoutIsTTL(via) == IF via = "http" THEN ProcessingTTL ELSE 0

\* Timeout; a gRPC call has the deadline its caller chose, or none.
Timeout(via) == IF via = "http" THEN RequestTimeout + Grace ELSE 0

-----------------------------------------------------------------------------
(* The stages.                                                             *)

\* NoKey also stands for a route that is not in idempotency.http_paths.
Arrive(r, via, k, p) ==
  /\ stage[r] = "new"
  /\ req' = [req EXCEPT ![r] = [via |-> via, key |-> k, payload |-> p]]
  /\ left' = [left EXCEPT ![r] = Timeout(via)]
  /\ stage' = [stage EXCEPT ![r] = "key"]
  /\ UNCHANGED <<subject, reply, effect, record, forgotten>>

\* The request is at a stage of one of the two chains.
At(r, via, name) == stage[r] = name /\ req[r].via = via

CheckKey(r) ==
  /\ \/ Pass(r)
     \/ req[r].key # NoKey /\ Refuse(r, "invalid")
  /\ UNCHANGED <<req, subject, effect, record, forgotten>>

IdempotencyKey(r) == At(r, "http", "key") /\ CheckKey(r)

idempotencyInterceptor(r) == At(r, "grpc", "key") /\ CheckKey(r)

CORS(r) ==
  /\ stage[r] = "cors"
  /\ Pass(r) \/ Refuse(r, "origin")
  /\ UNCHANGED <<req, subject, effect, record, forgotten>>

RequireJSON(r) ==
  /\ stage[r] = "json"
  /\ Pass(r) \/ Refuse(r, "media")
  /\ UNCHANGED <<req, subject, effect, record, forgotten>>

\* keyFunc: the limit per user does not apply to a request without subject.
Limited(r) == stage[r] = "limit" \/ subject[r] # Nobody

RateLimit(r) ==
  /\ stage[r] \in {"limit", "user"}
  /\ \/ Pass(r)
     \/ Limited(r) /\ Refuse(r, "throttled")
     \/ Limited(r) /\ ~FailOpen /\ Refuse(r, "unavailable")
  /\ UNCHANGED <<req, subject, effect, record, forgotten>>

\* PSK routes come first, then open ones, then bearer tokens.
Identities(r) ==
  IF req[r].payload \in PSKPayload THEN {PSK}
  ELSE IF req[r].payload \in OpenPayload THEN {Nobody}
  ELSE Subject

Identify(r) ==
  /\ \/ /\ Pass(r)
        /\ \E s \in Identities(r) : subject' = [subject EXCEPT ![r] = s]
     \/ /\ Nobody \notin Identities(r)
        /\ Refuse(r, "unauthorized")
        /\ UNCHANGED subject
  /\ UNCHANGED <<req, effect, record, forgotten>>

Authentication(r) == At(r, "http", "authn") /\ Identify(r)

authInterceptor(r) == At(r, "grpc", "authn") /\ Identify(r)

\* The permission of the route or method is granted, denied, or cannot be found.
Permit(r) ==
  /\ \/ Pass(r)
     \/ req[r].payload \in GuardedPayload /\ Refuse(r, "forbidden")
     \/ req[r].payload \in GuardedPayload /\ Refuse(r, "unavailable")
  /\ UNCHANGED <<req, subject, effect, record, forgotten>>

Authorization(r) == At(r, "http", "authz") /\ Permit(r)

UnaryServerInterceptor(r) == At(r, "grpc", "authz") /\ Permit(r)

-----------------------------------------------------------------------------
(* Idempotency.                                                            *)

\* Mutation: the caller is not part of the fingerprint.
PayloadPrint(r) == <<req[r].via, req[r].payload>>

\* Transport, caller and payload; of the caller the code takes the ID alone,
\* which subject stands for.
Fingerprint(r) == <<req[r].via, subject[r], req[r].payload>>

\* Mutation: the processing record is written without a TTL.
ProcessingForever(r) ==
  [state |-> "processing", owner |-> r, print |-> Fingerprint(r), ok |-> FALSE, ttl |-> 0]

\* What Manager.Begin writes for a key that is free.
Processing(r) ==
  [state |-> "processing", owner |-> r, print |-> Fingerprint(r), ok |-> FALSE,
   ttl |-> ProcessingTTL]

Acquire(r) ==
  /\ record[req[r].key] = Absent
  /\ record' = [record EXCEPT ![req[r].key] = Processing(r)]

\* IdempotencyExecution up to c.Next().  A Redis command may take effect and
\* report an error.
Begin(r) ==
  /\ stage[r] = "idem"
  /\ \/ req[r].key = NoKey /\ Pass(r) /\ UNCHANGED record
     \/ /\ req[r].key # NoKey
        /\ \/ Acquire(r) /\ Pass(r)
           \/ Acquire(r) /\ Refuse(r, "idempotency")
           \/ UNCHANGED record /\ Refuse(r, "idempotency")
           \/ UNCHANGED record /\ Refuse(r, "invalid")
           \/ /\ record[req[r].key] # Absent
              /\ record[req[r].key].print # Fingerprint(r)
              /\ Refuse(r, "conflict")
              /\ UNCHANGED record
           \/ /\ record[req[r].key].print = Fingerprint(r)
              /\ record[req[r].key].state = "processing"
              /\ Refuse(r, "processing")
              /\ UNCHANGED record
           \/ /\ record[req[r].key].print = Fingerprint(r)
              /\ record[req[r].key].state \in {"completed", "failed"}
              /\ Leave(r)
              /\ reply' = [reply EXCEPT ![r] =
                   Replayed(record[req[r].key].ok, record[req[r].key].owner)]
              /\ UNCHANGED record
  /\ UNCHANGED <<req, subject, effect, forgotten>>

-----------------------------------------------------------------------------
(* The handler: bind, one call of job.Service, OK or Fail.                 *)

Commit(r) ==
  /\ stage[r] = "handler" /\ ~effect[r]
  /\ effect' = [effect EXCEPT ![r] = TRUE]
  /\ UNCHANGED <<req, subject, stage, left, reply, record, forgotten>>

\* A handler may commit and still fail: the second transaction of an execution
\* is lost, or a commit reports an error.  A result is stored under the key,
\* within the given time.
Answer(r, ok, time) ==
  /\ ok => effect[r]
  /\ reply' = [reply EXCEPT ![r] = Handled(ok)]
  /\ \/ req[r].key = NoKey /\ Leave(r)
     \/ /\ req[r].key # NoKey
        /\ stage' = [stage EXCEPT ![r] = "persist"]
        /\ left' = [left EXCEPT ![r] = time]
  /\ UNCHANGED <<req, subject, effect, record, forgotten>>

\* The handlers of both transports call the same operations of job.Service.
Return(r, ok) == At(r, "http", "handler") /\ Answer(r, ok, PersistTimeout)

ReturnStatus(r, ok) == At(r, "grpc", "handler") /\ Answer(r, ok, 0)

\* In both chains panics are recovered in front of the idempotency record: a
\* panic leaves the record behind.
Recovered(r) ==
  /\ Leave(r)
  /\ reply' = [reply EXCEPT ![r] = Panicked]
  /\ UNCHANGED <<req, subject, effect, record, forgotten>>

Recovery(r) == At(r, "http", "handler") /\ Recovered(r)

recoveryInterceptor(r) == At(r, "grpc", "handler") /\ Recovered(r)

\* Mutation: a failure frees the key.
DropFailure(r) ==
  IF reply[r].ok
  THEN [record[req[r].key] EXCEPT !.state = "completed", !.ok = TRUE, !.ttl = ResultTTL]
  ELSE Absent

\* What Manager.Complete and Manager.Fail write for the owner of the record.
Outcome(r) ==
  IF reply[r].ok
  THEN [record[req[r].key] EXCEPT !.state = "completed", !.ok = TRUE, !.ttl = ResultTTL]
  ELSE [record[req[r].key] EXCEPT !.state = "failed", !.ttl = FailureTTL]

\* IdempotencyExecution after c.Next(); an error is only logged.
Persist(r) ==
  /\ stage[r] = "persist"
  /\ \/ /\ record[req[r].key].owner = r
        /\ record' = [record EXCEPT ![req[r].key] = Outcome(r)]
     \/ UNCHANGED record
  /\ Leave(r)
  /\ UNCHANGED <<req, subject, reply, effect, forgotten>>

-----------------------------------------------------------------------------
(* The world.                                                              *)

\* The replica dies; what it was doing stops.
Crash(r) ==
  /\ stage[r] \notin {"new", "done"}
  /\ Leave(r)
  /\ UNCHANGED <<req, subject, reply, effect, record, forgotten>>

Timed == {r \in Request : stage[r] \notin {"new", "done"} /\ req[r].via = "http"}

Expiring == {k \in Key : record[k].ttl = 1}

\* Time does not pass while a request is at the end of its context: the
\* handlers return when it ends.
Tick ==
  /\ \A r \in Timed : left[r] > 0
  /\ Timed # {} \/ \E k \in Key : record[k].ttl > 0
  /\ left' = [r \in Request |-> IF r \in Timed THEN left[r] - 1 ELSE left[r]]
  /\ record' = [k \in Key |->
       IF k \in Expiring THEN Absent
       ELSE IF record[k].ttl > 0 THEN [record[k] EXCEPT !.ttl = @ - 1]
       ELSE record[k]]
  /\ forgotten' = forgotten \cup {record[k].owner : k \in Expiring}
  /\ UNCHANGED <<req, subject, stage, reply, effect>>

Step(r) ==
  \/ IdempotencyKey(r) \/ CORS(r) \/ RequireJSON(r) \/ RateLimit(r)
  \/ Authentication(r) \/ Authorization(r)
  \/ idempotencyInterceptor(r) \/ authInterceptor(r) \/ UnaryServerInterceptor(r)
  \/ Begin(r) \/ Commit(r) \/ Persist(r)
  \/ \E ok \in BOOLEAN : Return(r, ok) \/ ReturnStatus(r, ok)
  \/ Recovery(r) \/ recoveryInterceptor(r)

Next ==
  \/ \E r \in Request :
       \/ \E via \in {"http", "grpc"}, k \in Key \cup {NoKey}, p \in Payload :
            Arrive(r, via, k, p)
       \/ Step(r)
       \/ Crash(r)
  \/ Tick

Spec == Init /\ [][Next]_vars

\* Some request moves on as long as one can, and time passes.
FairSpec == Spec /\ WF_vars(\E r \in Request : Step(r)) /\ WF_vars(Tick)

-----------------------------------------------------------------------------
(* Properties.                                                             *)

Reply ==
  {NoReply, Panicked} \cup {Refused(w) : w \in Why} \cup {Handled(b) : b \in BOOLEAN}
    \cup {Replayed(b, r) : b \in BOOLEAN, r \in Request}

\* The types of the requests' and the records' fields, and that a record
\* exists exactly while it has a TTL.
TypeOK ==
  /\ \A r \in Request :
       /\ req[r] = None => stage[r] = "new"
       /\ req[r] # None => req[r] \in [via : {"http", "grpc"}, key : Key \cup {NoKey},
                                       payload : Payload]
  /\ subject \in [Request -> Subject \cup {Nobody, PSK}]
  /\ stage \in [Request -> Stage]
  /\ left \in [Request -> Nat]
  /\ reply \in [Request -> Reply]
  /\ effect \in [Request -> BOOLEAN]
  /\ \A k \in Key :
       /\ record[k].state \in {"absent", "processing", "completed", "failed"}
       /\ record[k].owner \in Request \cup {None}
       /\ record[k].ttl \in Nat
       /\ record[k].state = "absent" <=> record[k].ttl = 0
  /\ forgotten \subseteq Request

HoldsKey(r) == stage[r] \in {"handler", "persist"} /\ req[r].key # NoKey

\* IdempotencyExecution: of two HTTP requests with the same key at most one is
\* in its handler or about to store its result, however long they take: the
\* processing record outlives the request that wrote it.
OneHandlerPerKey ==
  \A r, s \in Request :
    /\ r # s
    /\ HoldsKey(r) /\ HoldsKey(s)
    /\ req[r].via = "http" /\ req[s].via = "http"
    => req[r].key # req[s].key

\* IdempotencyExecution: two requests with the same key both take effect only
\* if the record of one of them has expired, even when a handler fails after
\* it has committed, panics, or its result cannot be stored.
AtMostOnce ==
  \A r, s \in Request :
    /\ r # s
    /\ effect[r] /\ effect[s]
    /\ req[r].key = req[s].key
    /\ req[r].key # NoKey
    => r \in forgotten \/ s \in forgotten

\* IdempotencyExecution: a response from a record is the response to the same
\* payload from the same caller over the same transport, and that request was
\* answered with it.
ReplayIsOwn ==
  \A r \in Request :
    reply[r].kind = "replayed" =>
      LET s == reply[r].by
      IN  /\ req[s] = req[r]
          /\ subject[s] = subject[r]
          /\ reply[s] = Handled(reply[r].ok)

\* NewServer: a request that a stage before the idempotency record refuses
\* takes no effect and leaves its key free for the next try, unlike one that
\* the record itself refuses after a Redis error.
RefusedLeavesNoTrace ==
  \A r \in Request :
    reply[r].kind = "refused" /\ reply[r].why # "idempotency" =>
      /\ ~effect[r]
      /\ \A k \in Key : record[k].owner # r

\* IdempotencyExecution, Recovery: a key does not stay in processing for ever,
\* though nobody clears it after a panic, a crash or a failed Complete.
KeyIsFreed ==
  \A k \in Key : record[k].state = "processing" ~> record[k].state # "processing"

=============================================================================
