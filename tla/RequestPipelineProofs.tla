------------------------ MODULE RequestPipelineProofs -----------------------
(***************************************************************************)
(* What the idempotency record promises behind either chain, for any       *)
(* number of requests, keys and callers, and every choice of timeouts and  *)
(* TTLs that satisfies BudgetAssumption.                                   *)
(***************************************************************************)
EXTENDS RequestPipeline, TLAPS

-----------------------------------------------------------------------------
(* The parts of the inductive invariant.                                   *)

Arrival == [via : {"http", "grpc"}, key : Key \cup {NoKey}, payload : Payload]

Record == [state : {"absent", "processing", "completed", "failed"},
           owner : Request \cup {None},
           print : {None} \cup ({"http", "grpc"} \X (Subject \cup {Nobody, PSK}) \X Payload),
           ok : BOOLEAN, ttl : Nat]

\* The stages in front of the record.
Early == {"key", "cors", "json", "limit", "authn", "authz", "user"}

\* What TypeOK does not say: the two functions have nothing but these values.
Shape ==
  /\ req \in [Request -> Arrival \cup {None}]
  /\ record \in [Key -> Record]

\* A request on its way has arrived, and gRPC has no stages of HTTP.
OnChain ==
  \A r \in Request : stage[r] # "new" =>
    /\ req[r] \in Arrival
    /\ req[r].via = "grpc" => stage[r] \notin {"cors", "json", "limit", "user"}

\* Up to the record a request has done nothing.
Untouched ==
  \A r \in Request : stage[r] \in {"new", "idem"} \cup Early =>
    /\ ~effect[r] /\ reply[r] = NoReply
    /\ \A k \in Key : record[k].owner # r

\* Nothing is answered before the handler is through.
Answering ==
  \A r \in Request :
    /\ stage[r] = "handler" => reply[r] = NoReply
    /\ stage[r] = "persist" => /\ reply[r] \in {Handled(TRUE), Handled(FALSE)}
                               /\ req[r].key # NoKey

\* A record belongs to a request that has been let through to its handler; it
\* holds the fingerprint of that request and, in the end, its response.
OwnedBy(k, s) ==
  /\ record[k].owner = s /\ req[s] \in Arrival /\ req[s].key = k
  /\ record[k].print = Fingerprint(s)
  /\ stage[s] \in {"handler", "persist", "done"}
  /\ record[k].state = "processing" => record[k].ok = FALSE
  /\ record[k].state # "processing" =>
       stage[s] = "done" /\ reply[s] = Handled(record[k].ok)

Owned ==
  \A k \in Key :
    IF record[k].state = "absent" THEN record[k] = Absent
    ELSE \E s \in Request : OwnedBy(k, s)

\* An HTTP request has no more time than Timeout gave it.
InTime ==
  \A r \in Request : stage[r] \in {"idem", "handler"} \cup Early /\ req[r].via = "http" =>
    left[r] <= RequestTimeout + Grace

\* The record of an HTTP request in its handler outlives what the request has
\* yet to do.
Covered ==
  \A r \in Request : HoldsKey(r) /\ req[r].via = "http" =>
    /\ record[req[r].key].owner = r
    /\ record[req[r].key].ttl > left[r] + (IF stage[r] = "handler" THEN PersistTimeout ELSE 0)

\* A request that may have taken effect has its record, unless it has expired.
Remembered ==
  \A r \in Request :
    (stage[r] \in {"handler", "persist"} \/ effect[r]) /\ req[r].key # NoKey =>
      r \in forgotten \/ record[req[r].key].owner = r

Parts ==
  /\ Shape /\ OnChain /\ Untouched /\ Answering /\ Owned /\ InTime /\ Covered
  /\ Remembered /\ ReplayIsOwn /\ RefusedLeavesNoTrace

PipelineInv == TypeOK /\ Parts

-----------------------------------------------------------------------------
(* The chains.                                                             *)

\* A stage of the HTTP chain occurs once.
LEMMA HTTPNext ==
  ASSUME NEW r \in Request, req[r].via = "http", NEW n \in 1..8,
         stage[r] = HTTPChain[n]
  PROVE  Following(r) = HTTPChain[n + 1]
<1>1. Chain(r) = HTTPChain /\ Len(HTTPChain) = 9
  BY DEF Chain, HTTPChain
<1>2. \A i \in 1..9 : HTTPChain[i] = HTTPChain[n] => i = n
  BY DEF HTTPChain
<1>3. (CHOOSE i \in 1..9 : HTTPChain[i] = stage[r]) = n
  BY <1>2
<1>4. QED
  BY <1>1, <1>3 DEF Following

\* So does a stage of the gRPC chain.
LEMMA GRPCNext ==
  ASSUME NEW r \in Request, req[r].via = "grpc", NEW n \in 1..4,
         stage[r] = GRPCChain[n]
  PROVE  Following(r) = GRPCChain[n + 1]
<1>1. Chain(r) = GRPCChain /\ Len(GRPCChain) = 5
  BY DEF Chain, GRPCChain
<1>2. \A i \in 1..5 : GRPCChain[i] = GRPCChain[n] => i = n
  BY DEF GRPCChain
<1>3. (CHOOSE i \in 1..5 : GRPCChain[i] = stage[r]) = n
  BY <1>2
<1>4. QED
  BY <1>1, <1>3 DEF Following

\* Behind a stage in front of the record there is another one, or the record;
\* behind the record there is the handler.
LEMMA FollowingStage ==
  ASSUME NEW r \in Request, req[r].via \in {"http", "grpc"},
         req[r].via = "grpc" => stage[r] \notin {"cors", "json", "limit", "user"}
  PROVE  /\ stage[r] \in Early =>
              /\ Following(r) \in Early \cup {"idem"}
              /\ req[r].via = "grpc" => Following(r) \in {"authn", "authz", "idem"}
         /\ stage[r] = "idem" => Following(r) = "handler"
<1>1. CASE req[r].via = "http"
  <2>1. ASSUME NEW n \in 1..8, stage[r] = HTTPChain[n]
        PROVE  /\ n < 8 => Following(r) \in Early \cup {"idem"}
               /\ n = 8 => Following(r) = "handler"
    BY <1>1, <2>1, HTTPNext DEF HTTPChain, Early
  <2>2. /\ stage[r] \in Early => \E n \in 1..7 : stage[r] = HTTPChain[n]
        /\ "idem" = HTTPChain[8]
    BY DEF HTTPChain, Early
  <2>3. QED
    BY <1>1, <2>1, <2>2
<1>2. CASE req[r].via = "grpc"
  <2>1. ASSUME NEW n \in 1..4, stage[r] = GRPCChain[n]
        PROVE  /\ n < 4 => Following(r) \in {"authn", "authz", "idem"}
               /\ n = 4 => Following(r) = "handler"
    BY <1>2, <2>1, GRPCNext DEF GRPCChain
  <2>2. /\ stage[r] \in Early => \E n \in 1..3 : stage[r] = GRPCChain[n]
        /\ "idem" = GRPCChain[4]
    BY <1>2 DEF GRPCChain, Early
  <2>3. QED
    BY <1>2, <2>1, <2>2 DEF Early
<1>3. QED
  BY <1>1, <1>2

\* The stages of both chains have a place in TypeOK.
LEMMA StageNames ==
  Stage = {"new", "persist", "done", "idem", "handler"} \cup Early
BY DEF Stage, HTTPChain, Early

-----------------------------------------------------------------------------
(* The initial state and the types of its parts.                           *)

\* The absence of a record is well typed, and nobody owns it.
LEMMA AbsentType == Absent \in Record /\ Absent.owner \notin Request
BY PipelineAssumption DEF Absent, Record

\* What the replies look like.
LEMMA ReplyType ==
  /\ NoReply \in Reply /\ Panicked \in Reply
  /\ \A why \in Why : Refused(why) \in Reply
  /\ \A ok \in BOOLEAN : Handled(ok) \in Reply
  /\ \A ok \in BOOLEAN, r \in Request : Replayed(ok, r) \in Reply
BY DEF Reply

\* Replies of different kinds differ.
LEMMA ReplyKind ==
  /\ NoReply.kind = "none" /\ Panicked.kind = "panic"
  /\ \A why \in Why : Refused(why).kind = "refused" /\ Refused(why).why = why
  /\ \A ok \in BOOLEAN : Handled(ok).kind = "handled" /\ Handled(ok).ok = ok
  /\ \A ok \in BOOLEAN, r \in Request :
       /\ Replayed(ok, r).kind = "replayed" /\ Replayed(ok, r).by = r
       /\ Replayed(ok, r).ok = ok
BY DEF NoReply, Panicked, Refused, Handled, Replayed

\* Nothing has arrived.
LEMMA PipelineInit == Init => PipelineInv
<1> SUFFICES ASSUME Init PROVE PipelineInv
  OBVIOUS
<1>1. /\ \A r \in Request : /\ req[r] = None /\ subject[r] = Nobody /\ stage[r] = "new"
                            /\ left[r] = 0 /\ reply[r] = NoReply /\ effect[r] = FALSE
      /\ \A k \in Key : record[k] = Absent
      /\ forgotten = {}
  BY DEF Init
<1>2. TypeOK
  <2>1. /\ \A r \in Request : req[r] # None =>
             req[r] \in [via : {"http", "grpc"}, key : Key \cup {NoKey}, payload : Payload]
        /\ \A r \in Request : req[r] = None => stage[r] = "new"
    BY <1>1
  <2>2. stage \in [Request -> Stage]
    BY StageNames DEF Init
  <2>3. reply \in [Request -> Reply]
    BY ReplyType DEF Init
  <2>4. /\ subject \in [Request -> Subject \cup {Nobody, PSK}]
        /\ left \in [Request -> Nat] /\ effect \in [Request -> BOOLEAN]
        /\ forgotten \subseteq Request
    BY DEF Init
  <2>5. \A k \in Key :
          /\ record[k].state \in {"absent", "processing", "completed", "failed"}
          /\ record[k].owner \in Request \cup {None}
          /\ record[k].ttl \in Nat
          /\ record[k].state = "absent" <=> record[k].ttl = 0
    BY <1>1 DEF Absent
  <2>6. QED
    BY <2>1, <2>2, <2>3, <2>4, <2>5 DEF TypeOK
<1>3. Shape
  BY AbsentType DEF Init, Shape
<1>4. Untouched
  BY <1>1, AbsentType DEF Untouched
<1>5. OnChain /\ Answering /\ InTime
  BY <1>1 DEF OnChain, Answering, InTime, Early
<1>6. Owned
  <2>1. Absent.state = "absent"
    BY DEF Absent
  <2>2. QED
    BY <1>1, <2>1 DEF Owned
<1>7. Covered /\ Remembered
  BY <1>1 DEF Covered, HoldsKey, Remembered
<1>8. ReplayIsOwn /\ RefusedLeavesNoTrace
  BY <1>1, ReplyKind DEF ReplayIsOwn, RefusedLeavesNoTrace
<1>9. QED
  BY <1>2, <1>3, <1>4, <1>5, <1>6, <1>7, <1>8 DEF PipelineInv, Parts

-----------------------------------------------------------------------------
(* What the stages in front of the record do, in one form.                 *)

\* Such a stage may set the subject, when it authenticates, and passes the
\* request on or answers it.
EarlyMove(r) ==
  /\ stage[r] \in Early
  /\ \/ UNCHANGED subject
     \/ /\ stage[r] = "authn"
        /\ \E s \in Subject \cup {Nobody, PSK} : subject' = [subject EXCEPT ![r] = s]
  /\ Pass(r) \/ \E why \in Why \ {"idempotency"} : Refuse(r, why)
  /\ UNCHANGED <<req, effect, record, forgotten>>

\* Every stage in front of the record has this form.
LEMMA EarlyStages ==
  ASSUME NEW r \in Request,
         \/ IdempotencyKey(r) \/ CORS(r) \/ RequireJSON(r) \/ RateLimit(r)
         \/ Authentication(r) \/ Authorization(r)
         \/ idempotencyInterceptor(r) \/ authInterceptor(r)
         \/ UnaryServerInterceptor(r)
  PROVE  EarlyMove(r)
<1>1. /\ \A why \in {"invalid", "origin", "media", "throttled", "unavailable",
                     "unauthorized", "forbidden"} : why \in Why \ {"idempotency"}
      /\ {"key", "cors", "json", "limit", "authn", "authz", "user"} \subseteq Early
  BY DEF Why, Early
<1>2. CASE IdempotencyKey(r) \/ idempotencyInterceptor(r)
  BY <1>1, <1>2 DEF IdempotencyKey, idempotencyInterceptor, CheckKey, At, EarlyMove
<1>3. CASE CORS(r) \/ RequireJSON(r) \/ RateLimit(r)
  BY <1>1, <1>3 DEF CORS, RequireJSON, RateLimit, EarlyMove
<1>4. CASE Authentication(r) \/ authInterceptor(r)
  <2>1. stage[r] = "authn" /\ Identify(r)
    BY <1>4 DEF Authentication, authInterceptor, At
  <2>2. Identities(r) \subseteq Subject \cup {Nobody, PSK}
    BY DEF Identities
  <2>3. \/ UNCHANGED subject
        \/ \E s \in Subject \cup {Nobody, PSK} : subject' = [subject EXCEPT ![r] = s]
    BY <2>1, <2>2 DEF Identify
  <2>4. Pass(r) \/ \E why \in Why \ {"idempotency"} : Refuse(r, why)
    BY <1>1, <2>1 DEF Identify
  <2>5. UNCHANGED <<req, effect, record, forgotten>>
    BY <2>1 DEF Identify
  <2>6. QED
    BY <1>1, <2>1, <2>3, <2>4, <2>5 DEF EarlyMove
<1>5. CASE Authorization(r) \/ UnaryServerInterceptor(r)
  BY <1>1, <1>5 DEF Authorization, UnaryServerInterceptor, Permit, At, EarlyMove
<1>6. QED
  BY <1>2, <1>3, <1>4, <1>5

-----------------------------------------------------------------------------
(* The steps.                                                              *)

\* What a step of one request cannot do to another.
OthersKept(r) ==
  \A q \in Request : q # r =>
    /\ req'[q] = req[q] /\ subject'[q] = subject[q] /\ stage'[q] = stage[q]
    /\ left'[q] = left[q] /\ reply'[q] = reply[q] /\ effect'[q] = effect[q]

\* The fingerprint of a request that keeps its arrival and its subject.
LEMMA PrintKept ==
  ASSUME NEW q \in Request, req'[q] = req[q], subject'[q] = subject[q]
  PROVE  Fingerprint(q)' = Fingerprint(q)
BY DEF Fingerprint

\* A record that stays, of a request that stays, is owned as it was.
LEMMA OwnedKept ==
  ASSUME Owned, NEW r \in Request, OthersKept(r), NEW k \in Key,
         record'[k] = record[k], record[k].owner # r
  PROVE  IF record'[k].state = "absent" THEN record'[k] = Absent
         ELSE \E s \in Request : OwnedBy(k, s)'
<1>1. CASE record[k].state = "absent"
  BY <1>1 DEF Owned
<1>2. CASE record[k].state # "absent"
  <2>1. PICK s \in Request : OwnedBy(k, s)
    BY <1>2 DEF Owned
  <2>2. s # r
    BY <2>1 DEF OwnedBy
  <2>3. /\ req'[s] = req[s] /\ subject'[s] = subject[s] /\ stage'[s] = stage[s]
        /\ reply'[s] = reply[s] /\ Fingerprint(s)' = Fingerprint(s)
    BY <2>2, PrintKept DEF OthersKept
  <2>4. OwnedBy(k, s)'
    BY <2>1, <2>3 DEF OwnedBy, Handled
  <2>5. QED
    BY <1>2, <2>4
<1>3. QED
  BY <1>1, <1>2

\* A replay stays what it is as long as what has been answered stays.
LEMMA ReplayKept ==
  ASSUME TypeOK, Parts,
         \A q \in Request : stage[q] \in {"persist", "done"} =>
           req'[q] = req[q] /\ subject'[q] = subject[q] /\ reply'[q] = reply[q],
         NEW q \in Request, reply'[q].kind = "replayed", reply'[q] = reply[q]
  PROVE  LET s == reply'[q].by
         IN  /\ req'[s] = req'[q] /\ subject'[s] = subject'[q]
             /\ reply'[s] = Handled(reply'[q].ok)
<1> DEFINE s == reply[q].by
<1>1. reply[q] \in Reply /\ reply[q].kind = "replayed"
  BY DEF TypeOK
<1>2. s \in Request /\ reply[q].ok \in BOOLEAN
  BY <1>1, ReplyKind DEF Reply
<1>3. /\ req[s] = req[q] /\ subject[s] = subject[q]
      /\ reply[s] = Handled(reply[q].ok)
  BY <1>1 DEF Parts, ReplayIsOwn
<1>4. \A x \in Request : reply[x] # NoReply => stage[x] \in {"persist", "done"}
  BY StageNames DEF Parts, TypeOK, Untouched, Answering
<1>5. reply[s] # NoReply /\ reply[q] # NoReply
  BY <1>1, <1>2, <1>3, ReplyKind
<1>6. QED
  BY <1>1, <1>2, <1>3, <1>4, <1>5

\* So a step that answers nothing from a record keeps ReplayIsOwn.
LEMMA ReplaysKept ==
  ASSUME TypeOK, Parts,
         \A q \in Request : stage[q] \in {"persist", "done"} =>
           req'[q] = req[q] /\ subject'[q] = subject[q] /\ reply'[q] = reply[q],
         \A q \in Request : reply'[q] # reply[q] => reply'[q].kind # "replayed"
  PROVE  ReplayIsOwn'
<1>1. ASSUME NEW q \in Request, reply'[q].kind = "replayed"
      PROVE  LET s == reply'[q].by
             IN  /\ req'[s] = req'[q] /\ subject'[s] = subject'[q]
                 /\ reply'[s] = Handled(reply'[q].ok)
  BY <1>1, ReplayKept
<1>2. QED
  BY <1>1 DEF ReplayIsOwn, Handled

\* A request arrives.
LEMMA ArriveStep ==
  ASSUME TypeOK, Parts, NEW r \in Request, NEW via \in {"http", "grpc"},
         NEW k \in Key \cup {NoKey}, NEW p \in Payload, Arrive(r, via, k, p)
  PROVE  TypeOK' /\ Parts'
<1>0. /\ Shape /\ OnChain /\ Untouched /\ Answering /\ Owned /\ InTime /\ Covered
      /\ Remembered /\ ReplayIsOwn /\ RefusedLeavesNoTrace
  BY DEF Parts
<1> DEFINE a == [via |-> via, key |-> k, payload |-> p]
<1>1. /\ stage[r] = "new" /\ a \in Arrival /\ a.via = via
      /\ req' = [req EXCEPT ![r] = a]
      /\ left' = [left EXCEPT ![r] = Timeout(via)]
      /\ stage' = [stage EXCEPT ![r] = "key"]
      /\ UNCHANGED <<subject, reply, effect, record, forgotten>>
  BY DEF Arrive, Arrival
<1> HIDE DEF a
<1>2. a # None
  BY <1>1, PipelineAssumption DEF Arrival
<1>3. /\ Timeout(via) \in Nat
      /\ via = "http" => Timeout(via) <= RequestTimeout + Grace
  BY PipelineAssumption DEF Timeout
<1>4. /\ req'[r] = a /\ stage'[r] = "key" /\ left'[r] = Timeout(via)
      /\ OthersKept(r)
  BY <1>0, <1>1 DEF TypeOK, Shape, OthersKept
<1>5. TypeOK'
  <2>1. stage' \in [Request -> Stage] /\ left' \in [Request -> Nat]
    BY <1>1, <1>3, StageNames DEF TypeOK, Early
  <2>2. \A q \in Request :
          /\ req'[q] = None => stage'[q] = "new"
          /\ req'[q] # None => req'[q] \in Arrival
    BY <1>1, <1>2, <1>4 DEF TypeOK, OthersKept, Arrival
  <2>3. QED
    BY <1>1, <2>1, <2>2 DEF TypeOK, Arrival
<1>6. Shape'
  BY <1>0, <1>1 DEF Shape
<1>7. OnChain' /\ InTime'
  BY <1>0, <1>1, <1>3, <1>4 DEF OnChain, InTime, OthersKept, Early
<1>8. Untouched' /\ Answering'
  BY <1>0, <1>1, <1>4 DEF Untouched, Answering, OthersKept, Early
<1>9. Owned'
  <2>1. \A q \in Key : record[q].owner # r
    BY <1>0, <1>1 DEF Untouched
  <2>2. \A q \in Key : IF record'[q].state = "absent" THEN record'[q] = Absent
                       ELSE \E s \in Request : OwnedBy(q, s)'
    BY <1>0, <1>1, <1>4, <2>1, OwnedKept
  <2>3. QED
    BY <2>2 DEF Owned, Absent
<1>10. Covered' /\ Remembered'
  BY <1>0, <1>1, <1>4 DEF Covered, HoldsKey, Remembered, OthersKept, Untouched
<1>11. ReplayIsOwn'
  BY <1>0, <1>1, <1>4, ReplaysKept DEF OthersKept
<1>12. RefusedLeavesNoTrace'
  BY <1>0, <1>1 DEF RefusedLeavesNoTrace
<1>13. QED
  BY <1>5, <1>6, <1>7, <1>8, <1>9, <1>10, <1>11, <1>12 DEF Parts

\* A request moves through the stages in front of the record, or is answered
\* there.
LEMMA EarlyStep ==
  ASSUME TypeOK, Parts, NEW r \in Request, EarlyMove(r)
  PROVE  TypeOK' /\ Parts'
<1>0. /\ Shape /\ OnChain /\ Untouched /\ Answering /\ Owned /\ InTime /\ Covered
      /\ Remembered /\ ReplayIsOwn /\ RefusedLeavesNoTrace
  BY DEF Parts
<1>1. /\ stage[r] \in Early /\ stage[r] # "new"
      /\ UNCHANGED <<req, effect, record, forgotten>>
      /\ ~effect[r] /\ reply[r] = NoReply /\ \A k \in Key : record[k].owner # r
  BY <1>0 DEF EarlyMove, Early, Untouched
<1>2. /\ subject' \in [Request -> Subject \cup {Nobody, PSK}]
      /\ \A q \in Request : q # r => subject'[q] = subject[q]
  BY DEF EarlyMove, TypeOK
<1>3. /\ stage'[r] \in Early \cup {"idem", "done"}
      /\ req[r].via = "grpc" => stage'[r] \notin {"cors", "json", "limit", "user"}
      /\ left'[r] \in {left[r], 0}
      /\ \/ reply'[r] = NoReply
         \/ \E why \in Why \ {"idempotency"} :
              reply'[r] = Refused(why) /\ stage'[r] = "done"
      /\ stage' = [stage EXCEPT ![r] = stage'[r]]
      /\ left' = [left EXCEPT ![r] = left'[r]]
      /\ reply' = [reply EXCEPT ![r] = reply'[r]]
  <2>1. /\ req[r].via \in {"http", "grpc"}
        /\ req[r].via = "grpc" => stage[r] \notin {"cors", "json", "limit", "user"}
    BY <1>0, <1>1 DEF OnChain, Arrival
  <2>2. CASE Pass(r)
    <3>1. /\ Following(r) \in Early \cup {"idem"}
          /\ req[r].via = "grpc" => Following(r) \in {"authn", "authz", "idem"}
      BY <1>1, <2>1, FollowingStage
    <3>2. stage' = [stage EXCEPT ![r] = Following(r)] /\ UNCHANGED <<reply, left>>
      BY <2>2 DEF Pass
    <3>3. QED
      BY <1>1, <3>1, <3>2 DEF TypeOK
  <2>3. CASE \E why \in Why \ {"idempotency"} : Refuse(r, why)
    BY <1>1, <2>3 DEF Refuse, Leave, TypeOK
  <2>4. QED
    BY <2>2, <2>3 DEF EarlyMove
<1>4. OthersKept(r)
  BY <1>1, <1>2, <1>3 DEF OthersKept, TypeOK
<1>5. TypeOK'
  <2>1. stage' \in [Request -> Stage] /\ left' \in [Request -> Nat]
    BY <1>3, StageNames DEF TypeOK
  <2>2. reply' \in [Request -> Reply]
    BY <1>3, ReplyType DEF TypeOK
  <2>3. \A q \in Request : req'[q] = None => stage'[q] = "new"
    BY <1>1, <1>4 DEF TypeOK, OthersKept
  <2>4. QED
    BY <1>1, <1>2, <2>1, <2>2, <2>3 DEF TypeOK
<1>6. Shape'
  BY <1>0, <1>1 DEF Shape
<1>7. OnChain'
  BY <1>0, <1>1, <1>3, <1>4 DEF OnChain, OthersKept
<1>8. InTime'
  <2>1. req[r].via = "http" => left'[r] <= RequestTimeout + Grace
    BY <1>0, <1>1, <1>3, PipelineAssumption DEF InTime
  <2>2. QED
    BY <1>0, <1>1, <1>4, <2>1 DEF InTime, OthersKept
<1>9. Untouched'
  BY <1>0, <1>1, <1>3, <1>4 DEF Untouched, OthersKept, Early
<1>10. Answering'
  BY <1>0, <1>1, <1>3, <1>4 DEF Answering, OthersKept, Early
<1>11. Owned'
  <2>1. \A q \in Key : record[q].owner # r
    BY <1>0, <1>1 DEF Untouched
  <2>2. \A q \in Key : IF record'[q].state = "absent" THEN record'[q] = Absent
                       ELSE \E s \in Request : OwnedBy(q, s)'
    BY <1>0, <1>1, <1>4, <2>1, OwnedKept
  <2>3. QED
    BY <2>2 DEF Owned, Absent
<1>12. Covered' /\ Remembered'
  BY <1>0, <1>1, <1>3, <1>4 DEF Covered, HoldsKey, Remembered, OthersKept, Early
<1>13. ReplayIsOwn'
  <2>1. \A q \in Request : reply'[q] # reply[q] => reply'[q].kind # "replayed"
    BY <1>1, <1>3, <1>4, ReplyKind DEF OthersKept
  <2>2. QED
    BY <1>1, <1>4, <2>1, ReplaysKept DEF OthersKept, Early
<1>14. RefusedLeavesNoTrace'
  BY <1>0, <1>1, <1>4 DEF RefusedLeavesNoTrace, OthersKept
<1>15. QED
  BY <1>5, <1>6, <1>7, <1>8, <1>9, <1>10, <1>11, <1>12, <1>13, <1>14 DEF Parts

\* What Begin writes for a free key.
LEMMA ProcessingType ==
  ASSUME TypeOK, Parts, NEW r \in Request, req[r] \in Arrival
  PROVE  LET rec == Processing(r)
         IN  /\ rec \in Record /\ rec.state = "processing" /\ rec.owner = r
             /\ rec.print = Fingerprint(r) /\ rec.ok = FALSE
             /\ rec.ttl = ProcessingTTL /\ rec.ttl # 0
<1>1. Fingerprint(r) \in {"http", "grpc"} \X (Subject \cup {Nobody, PSK}) \X Payload
  BY DEF Fingerprint, TypeOK, Arrival
<1>2. ProcessingTTL \in Nat \ {0}
  BY PipelineAssumption
<1>3. QED
  BY <1>1, <1>2 DEF Processing, Record

\* A request that takes a free record owns it for longer than it may run.
LEMMA AcquireStep ==
  ASSUME TypeOK, Parts, NEW r \in Request, stage[r] = "idem", req[r].key # NoKey,
         Acquire(r), UNCHANGED <<req, subject, effect, forgotten>>,
         \/ /\ stage' = [stage EXCEPT ![r] = "handler"]
            /\ UNCHANGED <<reply, left>>
         \/ Refuse(r, "idempotency")
  PROVE  TypeOK' /\ Parts'
<1>0. /\ Shape /\ OnChain /\ Untouched /\ Answering /\ Owned /\ InTime /\ Covered
      /\ Remembered /\ ReplayIsOwn /\ RefusedLeavesNoTrace
  BY DEF Parts
<1> DEFINE k == req[r].key
<1>1. /\ req[r] \in Arrival /\ k \in Key /\ req[r].via \in {"http", "grpc"}
      /\ ~effect[r] /\ reply[r] = NoReply /\ \A q \in Key : record[q].owner # r
  BY <1>0 DEF OnChain, Arrival, Untouched
<1>2. /\ record[k] = Absent /\ record' = [record EXCEPT ![k] = Processing(r)]
  BY DEF Acquire
<1>3. /\ record'[k] = Processing(r) /\ Processing(r) \in Record
      /\ record'[k].state = "processing" /\ record'[k].owner = r
      /\ record'[k].print = Fingerprint(r) /\ record'[k].ok = FALSE
      /\ record'[k].ttl = ProcessingTTL /\ ProcessingTTL \in Nat \ {0}
      /\ \A q \in Key : q # k => record'[q] = record[q]
  BY <1>0, <1>1, <1>2, ProcessingType, PipelineAssumption DEF Shape
<1>4. /\ \/ stage'[r] = "handler" /\ reply'[r] = NoReply /\ left'[r] = left[r]
         \/ stage'[r] = "done" /\ reply'[r] = Refused("idempotency") /\ left'[r] = 0
      /\ OthersKept(r)
  BY <1>1 DEF Refuse, Leave, TypeOK, OthersKept
<1>5. record[k].owner \notin Request
  BY <1>2, AbsentType
<1> HIDE DEF k
<1>6. TypeOK'
  <2>1. stage' \in [Request -> Stage] /\ left' \in [Request -> Nat]
    BY StageNames DEF TypeOK, Refuse, Leave
  <2>2. "idempotency" \in Why
    BY DEF Why
  <2>3. reply' \in [Request -> Reply]
    BY <2>2, ReplyType DEF TypeOK, Refuse
  <2>4. \A q \in Key :
          /\ record'[q].state \in {"absent", "processing", "completed", "failed"}
          /\ record'[q].owner \in Request \cup {None}
          /\ record'[q].ttl \in Nat
          /\ record'[q].state = "absent" <=> record'[q].ttl = 0
    BY <1>3 DEF TypeOK
  <2>5. \A q \in Request : req'[q] = None => stage'[q] = "new"
    BY <1>1, <1>4, PipelineAssumption DEF TypeOK, OthersKept, Arrival
  <2>6. QED
    BY <2>1, <2>3, <2>4, <2>5 DEF TypeOK
<1>7. Shape'
  BY <1>0, <1>1, <1>2, <1>3 DEF Shape
<1>8. OnChain' /\ Answering'
  BY <1>0, <1>1, <1>4 DEF OnChain, Answering, OthersKept
<1>9. InTime'
  BY <1>0, <1>4 DEF InTime, OthersKept, Early
<1>10. Untouched'
  BY <1>0, <1>1, <1>3, <1>4 DEF Untouched, OthersKept, Early
<1>11. Owned'
  <2>1. Fingerprint(r)' = Fingerprint(r)
    BY PrintKept
  <2>2. ASSUME NEW q \in Key
        PROVE  IF record'[q].state = "absent" THEN record'[q] = Absent
               ELSE \E s \in Request : OwnedBy(q, s)'
    <3>1. CASE q = k
      <4>1. OwnedBy(q, r)'
        BY <1>1, <1>3, <1>4, <2>1, <3>1 DEF OwnedBy, k
      <4>2. QED
        BY <1>3, <3>1, <4>1
    <3>2. CASE q # k
      BY <1>0, <1>1, <1>3, <1>4, <3>2, OwnedKept
    <3>3. QED
      BY <3>1, <3>2
  <2>3. QED
    BY <2>2 DEF Owned, Absent
<1>12. Covered'
  <2>1. ASSUME NEW q \in Request, q # r, HoldsKey(q), req[q].via = "http"
        PROVE  req[q].key # k /\ req[q].key \in Key
    BY <1>0, <1>5, <2>1 DEF Covered, HoldsKey, OnChain, Arrival
  <2>2. stage[r] = "idem" /\ req[r].via = "http" => left[r] <= RequestTimeout + Grace
    BY <1>0 DEF InTime
  <2>3. req[r].via = "http" /\ stage'[r] = "handler" => ProcessingTTL > left'[r] + PersistTimeout
    BY <1>3, <1>4, <2>2, PipelineAssumption, BudgetAssumption DEF TypeOK
  <2>4. ASSUME NEW q \in Request, HoldsKey(q)', req'[q].via = "http"
        PROVE  /\ record'[req'[q].key].owner = q
               /\ record'[req'[q].key].ttl >
                    left'[q] + (IF stage'[q] = "handler" THEN PersistTimeout ELSE 0)
    <3>1. CASE q = r
      BY <1>3, <1>4, <2>3, <2>4, <3>1 DEF HoldsKey, k
    <3>2. CASE q # r
      BY <1>0, <1>3, <1>4, <2>1, <2>4, <3>2 DEF HoldsKey, OthersKept, Covered
    <3>3. QED
      BY <3>1, <3>2
  <2>5. QED
    BY <2>4 DEF Covered
<1>13. Remembered'
  <2>1. ASSUME NEW q \in Request, stage'[q] \in {"handler", "persist"} \/ effect'[q],
               req'[q].key # NoKey
        PROVE  q \in forgotten' \/ record'[req'[q].key].owner = q
    <3>1. CASE q = r
      BY <1>3, <3>1 DEF k
    <3>2. CASE q # r
      <4>1. q \in forgotten \/ record[req[q].key].owner = q
        BY <1>0, <1>4, <2>1, <3>2 DEF OthersKept, Remembered
      <4>2. req[q].key \in Key
        BY <1>0, <1>4, <2>1, <3>2 DEF OthersKept, OnChain, Arrival, Untouched
      <4>3. QED
        BY <1>3, <1>5, <4>1, <4>2
    <3>3. QED
      BY <3>1, <3>2
  <2>2. QED
    BY <2>1 DEF Remembered
<1>14. ReplayIsOwn'
  <2>1. \A q \in Request : reply'[q] # reply[q] => reply'[q].kind # "replayed"
    <3>1. "idempotency" \in Why
      BY DEF Why
    <3>2. QED
      BY <1>1, <1>4, <3>1, ReplyKind DEF OthersKept
  <2>2. QED
    BY <1>4, <2>1, ReplaysKept DEF OthersKept
<1>15. RefusedLeavesNoTrace'
  <2>1. Refused("idempotency").why = "idempotency" /\ NoReply.kind # "refused"
    BY DEF Refused, NoReply
  <2>2. QED
    BY <1>0, <1>1, <1>3, <1>4, <2>1 DEF RefusedLeavesNoTrace, OthersKept
<1>16. QED
  BY <1>6, <1>7, <1>8, <1>9, <1>10, <1>11, <1>12, <1>13, <1>14, <1>15 DEF Parts

\* A request that the record answers, or that has no key, changes no record.
LEMMA NoRecordStep ==
  ASSUME TypeOK, Parts, NEW r \in Request, stage[r] = "idem",
         UNCHANGED <<req, subject, effect, record, forgotten>>,
         \/ /\ req[r].key = NoKey /\ UNCHANGED <<reply, left>>
            /\ stage' = [stage EXCEPT ![r] = "handler"]
         \/ \E why \in Why : Refuse(r, why)
         \/ /\ req[r].key # NoKey
            /\ record[req[r].key].print = Fingerprint(r)
            /\ record[req[r].key].state \in {"completed", "failed"}
            /\ Leave(r)
            /\ reply' = [reply EXCEPT ![r] =
                 Replayed(record[req[r].key].ok, record[req[r].key].owner)]
  PROVE  TypeOK' /\ Parts'
<1>0. /\ Shape /\ OnChain /\ Untouched /\ Answering /\ Owned /\ InTime /\ Covered
      /\ Remembered /\ ReplayIsOwn /\ RefusedLeavesNoTrace
  BY DEF Parts
<1> DEFINE k == req[r].key
<1>1. /\ req[r] \in Arrival
      /\ ~effect[r] /\ reply[r] = NoReply /\ \A q \in Key : record[q].owner # r
  BY <1>0 DEF OnChain, Untouched
<1>2. CASE /\ k = NoKey /\ UNCHANGED <<reply, left>>
           /\ stage' = [stage EXCEPT ![r] = "handler"]
  <2>1. stage'[r] = "handler" /\ OthersKept(r)
    BY <1>2 DEF TypeOK, OthersKept
  <2>2. stage' \in [Request -> Stage]
    BY <1>2, StageNames DEF TypeOK
  <2>3. TypeOK'
    <3>1. \A q \in Request : req'[q] = None => stage'[q] = "new"
      BY <1>1, <2>1, PipelineAssumption DEF TypeOK, OthersKept, Arrival
    <3>2. QED
      BY <1>2, <2>2, <3>1 DEF TypeOK
  <2>4. Shape' /\ OnChain' /\ InTime' /\ Answering'
    BY <1>0, <1>1, <1>2, <2>1 DEF Shape, OnChain, InTime, Answering, OthersKept, Early
  <2>5. Untouched'
    BY <1>0, <1>2, <2>1 DEF Untouched, OthersKept, Early
  <2>6. Owned'
    <3>1. \A q \in Key : IF record'[q].state = "absent" THEN record'[q] = Absent
                         ELSE \E s \in Request : OwnedBy(q, s)'
      BY <1>0, <1>1, <2>1, OwnedKept
    <3>2. QED
      BY <3>1 DEF Owned, Absent
  <2>7. Covered' /\ Remembered'
    BY <1>0, <1>1, <1>2, <2>1 DEF Covered, HoldsKey, Remembered, OthersKept
  <2>8. ReplayIsOwn' /\ RefusedLeavesNoTrace'
    BY <1>0, <1>2 DEF ReplayIsOwn, Handled, RefusedLeavesNoTrace
  <2>9. QED
    BY <2>3, <2>4, <2>5, <2>6, <2>7, <2>8 DEF Parts
<1>3. CASE Leave(r) /\ reply' = [reply EXCEPT ![r] = reply'[r]] /\ reply'[r] \in Reply
           /\ \/ \E why \in Why : reply'[r] = Refused(why)
              \/ /\ k # NoKey /\ record[k].print = Fingerprint(r)
                 /\ record[k].state \in {"completed", "failed"}
                 /\ reply'[r] = Replayed(record[k].ok, record[k].owner)
  <2>1. stage'[r] = "done" /\ left'[r] = 0 /\ OthersKept(r)
    BY <1>3 DEF TypeOK, Leave, OthersKept
  <2>2. /\ stage' \in [Request -> Stage] /\ left' \in [Request -> Nat]
        /\ reply' \in [Request -> Reply]
    BY <1>3, StageNames DEF TypeOK, Leave
  <2>3. TypeOK'
    <3>1. \A q \in Request : req'[q] = None => stage'[q] = "new"
      BY <1>1, <2>1, PipelineAssumption DEF TypeOK, OthersKept, Arrival
    <3>2. QED
      BY <2>2, <3>1 DEF TypeOK
  <2>4. Shape' /\ OnChain' /\ InTime' /\ Answering'
    BY <1>0, <1>1, <2>1 DEF Shape, OnChain, InTime, Answering, OthersKept, Early
  <2>5. Untouched'
    BY <1>0, <2>1 DEF Untouched, OthersKept, Early
  <2>6. Owned'
    <3>1. \A q \in Key : IF record'[q].state = "absent" THEN record'[q] = Absent
                         ELSE \E s \in Request : OwnedBy(q, s)'
      BY <1>0, <1>1, <2>1, OwnedKept
    <3>2. QED
      BY <3>1 DEF Owned, Absent
  <2>7. Covered' /\ Remembered'
    BY <1>0, <1>1, <2>1 DEF Covered, HoldsKey, Remembered, OthersKept
  <2>8. RefusedLeavesNoTrace'
    BY <1>0, <1>1, <2>1 DEF RefusedLeavesNoTrace, OthersKept
  <2>9. ReplayIsOwn'
    <3> SUFFICES ASSUME NEW q \in Request, reply'[q].kind = "replayed"
                 PROVE  LET s == reply'[q].by
                        IN  /\ req'[s] = req'[q] /\ subject'[s] = subject'[q]
                            /\ reply'[s] = Handled(reply'[q].ok)
      BY DEF ReplayIsOwn, Handled
    <3>1. CASE q # r
      BY <2>1, <3>1, ReplayKept DEF OthersKept
    <3>2. CASE q = r
      <4>1. /\ k # NoKey /\ record[k].print = Fingerprint(r)
            /\ record[k].state \in {"completed", "failed"}
            /\ reply'[r] = Replayed(record[k].ok, record[k].owner)
        BY <1>3, <3>2, ReplyKind
      <4>2. k \in Key
        BY <1>1, <4>1 DEF Arrival
      <4>3. PICK s \in Request : OwnedBy(k, s)
        BY <1>0, <4>1, <4>2 DEF Owned
      <4>4. /\ record[k].owner = s /\ req[s] \in Arrival /\ req[s].key = k
            /\ Fingerprint(r) = Fingerprint(s) /\ s # r
            /\ reply[s] = Handled(record[k].ok) /\ record[k].ok \in BOOLEAN
        BY <1>0, <1>1, <4>1, <4>2, <4>3 DEF OwnedBy, Shape, Record
      <4>5. subject[s] = subject[r] /\ req[s] = req[r]
        BY <1>1, <4>4 DEF Fingerprint, Arrival
      <4>6. reply'[r].by = s /\ reply'[r].ok = record[k].ok
        BY <4>1, <4>4, ReplyKind
      <4>7. reply'[s] = reply[s]
        BY <2>1, <4>4 DEF OthersKept
      <4>8. QED
        BY <3>2, <4>4, <4>5, <4>6, <4>7
    <3>3. QED
      BY <3>1, <3>2
  <2>10. QED
    BY <2>3, <2>4, <2>5, <2>6, <2>7, <2>8, <2>9 DEF Parts
<1>4. QED
  <2>1. CASE \E why \in Why : Refuse(r, why)
    BY <1>3, <2>1, ReplyType DEF Refuse, TypeOK
  <2>2. CASE /\ k # NoKey
             /\ record[k].print = Fingerprint(r)
             /\ record[k].state \in {"completed", "failed"}
             /\ Leave(r)
             /\ reply' = [reply EXCEPT ![r] = Replayed(record[k].ok, record[k].owner)]
    <3>1. k \in Key /\ record[k].ok \in BOOLEAN
      BY <1>0, <1>1, <2>2 DEF Arrival, Shape, Record
    <3>2. record[k].owner \in Request
      BY <1>0, <2>2, <3>1 DEF Owned, OwnedBy
    <3>3. Replayed(record[k].ok, record[k].owner) \in Reply
      BY <3>1, <3>2, ReplyType
    <3>4. reply'[r] = Replayed(record[k].ok, record[k].owner)
      BY <2>2 DEF TypeOK
    <3>5. QED
      BY <1>3, <2>2, <3>3, <3>4
  <2>3. QED
    BY <1>2, <2>1, <2>2

\* IdempotencyExecution up to the handler.
LEMMA BeginStep ==
  ASSUME TypeOK, Parts, NEW r \in Request, Begin(r)
  PROVE  TypeOK' /\ Parts'
<1>1. stage[r] = "idem" /\ UNCHANGED <<req, subject, effect, forgotten>>
  BY DEF Begin
<1>2. Following(r) = "handler"
  <2>1. req[r].via \in {"http", "grpc"}
    BY <1>1 DEF Parts, OnChain, Arrival
  <2>2. QED
    BY <1>1, <2>1, FollowingStage
<1>3. {"idempotency", "invalid", "conflict", "processing"} \subseteq Why
  BY DEF Why
<1>4. CASE req[r].key # NoKey /\ Acquire(r) /\ (Pass(r) \/ Refuse(r, "idempotency"))
  BY <1>1, <1>2, <1>4, AcquireStep DEF Pass
<1>5. CASE /\ UNCHANGED record
           /\ \/ req[r].key = NoKey /\ Pass(r)
              \/ \E why \in Why : Refuse(r, why)
              \/ /\ req[r].key # NoKey
                 /\ record[req[r].key].print = Fingerprint(r)
                 /\ record[req[r].key].state \in {"completed", "failed"}
                 /\ Leave(r)
                 /\ reply' = [reply EXCEPT ![r] =
                      Replayed(record[req[r].key].ok, record[req[r].key].owner)]
  BY <1>1, <1>2, <1>5, NoRecordStep DEF Pass
<1>6. QED
  BY <1>3, <1>4, <1>5 DEF Begin

\* The handler's transaction commits.
LEMMA CommitStep ==
  ASSUME TypeOK, Parts, NEW r \in Request, Commit(r)
  PROVE  TypeOK' /\ Parts'
<1>0. /\ Shape /\ OnChain /\ Untouched /\ Answering /\ Owned /\ InTime /\ Covered
      /\ Remembered /\ ReplayIsOwn /\ RefusedLeavesNoTrace
  BY DEF Parts
<1>1. /\ stage[r] = "handler" /\ effect' = [effect EXCEPT ![r] = TRUE]
      /\ UNCHANGED <<req, subject, stage, left, reply, record, forgotten>>
  BY DEF Commit
<1>2. \A q \in Request : q # r => effect'[q] = effect[q]
  BY <1>1 DEF TypeOK
<1>3. TypeOK'
  BY <1>1 DEF TypeOK
<1>4. Shape' /\ OnChain' /\ InTime' /\ Answering'
  BY <1>0, <1>1 DEF Shape, OnChain, InTime, Answering, Handled
<1>5. Untouched'
  BY <1>0, <1>1, <1>2 DEF Untouched, Early
<1>6. Owned'
  <2>1. ASSUME NEW q \in Key, record[q].state # "absent"
        PROVE  \E s \in Request : OwnedBy(q, s)'
    <3>1. PICK s \in Request : OwnedBy(q, s)
      BY <1>0, <2>1 DEF Owned
    <3>2. Fingerprint(s)' = Fingerprint(s)
      BY <1>1, PrintKept
    <3>3. OwnedBy(q, s)'
      BY <1>1, <3>1, <3>2 DEF OwnedBy, Handled
    <3>4. QED
      BY <3>3
  <2>2. QED
    BY <1>0, <1>1, <2>1 DEF Owned, Absent
<1>7. Covered' /\ Remembered'
  BY <1>0, <1>1, <1>2 DEF Covered, HoldsKey, Remembered
<1>8. ReplayIsOwn'
  BY <1>0, <1>1 DEF ReplayIsOwn, Handled
<1>9. RefusedLeavesNoTrace'
  <2>1. reply[r].kind = "none"
    BY <1>0, <1>1, ReplyKind DEF Answering
  <2>2. QED
    BY <1>0, <1>1, <1>2, <2>1 DEF RefusedLeavesNoTrace
<1>10. QED
  BY <1>3, <1>4, <1>5, <1>6, <1>7, <1>8, <1>9 DEF Parts

\* A request in or behind its handler, or one that dies, goes on to the next
\* stage or leaves, and no record changes.
LEMMA HandlerStep ==
  ASSUME TypeOK, Parts, NEW r \in Request, stage[r] # "new",
         UNCHANGED <<req, subject, effect, record, forgotten>>,
         \/ /\ stage[r] = "handler"
            /\ \E ok \in BOOLEAN, time \in {0, PersistTimeout} :
                 /\ reply' = [reply EXCEPT ![r] = Handled(ok)]
                 /\ \/ req[r].key = NoKey /\ Leave(r)
                    \/ /\ req[r].key # NoKey
                       /\ stage' = [stage EXCEPT ![r] = "persist"]
                       /\ left' = [left EXCEPT ![r] = time]
         \/ /\ Leave(r) /\ stage[r] = "handler"
            /\ reply' = [reply EXCEPT ![r] = Panicked]
         \/ Leave(r) /\ UNCHANGED reply
  PROVE  TypeOK' /\ Parts'
<1>0. /\ Shape /\ OnChain /\ Untouched /\ Answering /\ Owned /\ InTime /\ Covered
      /\ Remembered /\ ReplayIsOwn /\ RefusedLeavesNoTrace
  BY DEF Parts
<1>1. req[r] \in Arrival /\ PersistTimeout \in Nat
  BY <1>0, PipelineAssumption DEF OnChain
<1>2. \/ /\ stage[r] = "handler" /\ stage'[r] \in {"done", "persist"}
         /\ stage'[r] = "persist" => req[r].key # NoKey
         /\ reply'[r] \in {Handled(TRUE), Handled(FALSE), Panicked}
         /\ stage'[r] = "persist" => reply'[r] \in {Handled(TRUE), Handled(FALSE)}
         /\ left'[r] \in {0, PersistTimeout}
      \/ stage'[r] = "done" /\ reply'[r] = reply[r] /\ left'[r] = 0
  <2>1. ASSUME NEW ok \in BOOLEAN, NEW time \in {0, PersistTimeout},
               reply' = [reply EXCEPT ![r] = Handled(ok)],
               \/ Leave(r)
               \/ /\ req[r].key # NoKey
                  /\ stage' = [stage EXCEPT ![r] = "persist"]
                  /\ left' = [left EXCEPT ![r] = time]
        PROVE  /\ stage'[r] \in {"done", "persist"}
               /\ stage'[r] = "persist" => req[r].key # NoKey
               /\ reply'[r] \in {Handled(TRUE), Handled(FALSE)}
               /\ left'[r] \in {0, PersistTimeout}
    <3>1. reply'[r] = Handled(ok) /\ Handled(ok) \in {Handled(TRUE), Handled(FALSE)}
      BY <2>1 DEF TypeOK
    <3>2. QED
      BY <2>1, <3>1 DEF TypeOK, Leave
  <2>2. CASE Leave(r) /\ stage[r] = "handler" /\ reply' = [reply EXCEPT ![r] = Panicked]
    BY <2>2 DEF TypeOK, Leave
  <2>3. CASE Leave(r) /\ UNCHANGED reply
    BY <2>3 DEF TypeOK, Leave
  <2>4. QED
    BY <2>1, <2>2, <2>3
<1>3. /\ OthersKept(r)
      /\ stage' = [stage EXCEPT ![r] = stage'[r]] /\ left' = [left EXCEPT ![r] = left'[r]]
      /\ reply' = [reply EXCEPT ![r] = reply'[r]]
  BY DEF TypeOK, Leave, OthersKept
<1>4. TypeOK'
  <2>1. stage' \in [Request -> Stage]
    BY <1>2, <1>3, StageNames DEF TypeOK
  <2>2. left' \in [Request -> Nat] /\ reply' \in [Request -> Reply]
    <3>1. left'[r] \in Nat
      <4>1. left'[r] = 0 \/ left'[r] = PersistTimeout
        BY <1>2
      <4>2. QED
        BY <1>1, <4>1
    <3>2. reply'[r] \in Reply
      BY <1>2, ReplyType DEF TypeOK
    <3>3. QED
      BY <1>3, <3>1, <3>2 DEF TypeOK
  <2>3. \A q \in Request : req'[q] = None => stage'[q] = "new"
    BY <1>1, <1>3, PipelineAssumption DEF TypeOK, OthersKept, Arrival
  <2>4. QED
    BY <2>1, <2>2, <2>3 DEF TypeOK
<1>5. Shape' /\ OnChain'
  BY <1>0, <1>1, <1>2, <1>3 DEF Shape, OnChain, OthersKept
<1>6. InTime'
  BY <1>0, <1>2, <1>3 DEF InTime, OthersKept, Early
<1>7. Answering'
  BY <1>0, <1>2, <1>3 DEF Answering, OthersKept, Handled
<1>8. Untouched'
  BY <1>0, <1>2, <1>3 DEF Untouched, OthersKept, Early
<1>9. Owned'
  <2>1. ASSUME NEW q \in Key
        PROVE  IF record'[q].state = "absent" THEN record'[q] = Absent
               ELSE \E s \in Request : OwnedBy(q, s)'
    <3>1. CASE record[q].owner # r
      BY <1>3, <2>1, <3>1, OwnedKept, <1>0
    <3>2. CASE record[q].owner = r /\ record[q].state # "absent"
      <4>1. OwnedBy(q, r)
        BY <1>0, <2>1, <3>2 DEF Owned, OwnedBy
      <4>2. Fingerprint(r)' = Fingerprint(r)
        BY PrintKept
      <4>3. OwnedBy(q, r)'
        BY <1>2, <2>1, <4>1, <4>2 DEF OwnedBy, Handled
      <4>4. QED
        BY <3>2, <4>3
    <3>3. CASE record[q].state = "absent"
      BY <1>0, <2>1, <3>3 DEF Owned
    <3>4. QED
      BY <3>1, <3>2, <3>3
  <2>2. QED
    BY <2>1 DEF Owned, Absent
<1>10. Covered'
  <2>1. ASSUME NEW q \in Request, HoldsKey(q)', req'[q].via = "http"
        PROVE  /\ record'[req'[q].key].owner = q
               /\ record'[req'[q].key].ttl >
                    left'[q] + (IF stage'[q] = "handler" THEN PersistTimeout ELSE 0)
    <3>1. CASE q # r
      BY <1>0, <1>3, <2>1, <3>1 DEF Covered, HoldsKey, OthersKept
    <3>2. CASE q = r
      <4>1. stage[r] = "handler" /\ stage'[r] = "persist" /\ req[r].key # NoKey
        BY <1>2, <2>1, <3>2 DEF HoldsKey
      <4>2. /\ record[req[r].key].owner = r
            /\ record[req[r].key].ttl > left[r] + PersistTimeout
        BY <1>0, <2>1, <3>2, <4>1 DEF Covered, HoldsKey
      <4>3. req[r].key \in Key /\ left[r] \in Nat /\ record[req[r].key].ttl \in Nat
        BY <1>1, <4>1 DEF Arrival, TypeOK
      <4>4. record[req[r].key].ttl > left'[r]
        BY <1>1, <1>2, <4>1, <4>2, <4>3
      <4>5. QED
        BY <1>1, <1>2, <3>2, <4>1, <4>2, <4>4
    <3>3. QED
      BY <3>1, <3>2
  <2>2. QED
    BY <2>1 DEF Covered
<1>11. Remembered'
  BY <1>0, <1>2, <1>3 DEF Remembered, OthersKept
<1>12. reply'[r] # reply[r] => reply'[r].kind \in {"handled", "panic"}
  <2>1. /\ Handled(TRUE).kind = "handled" /\ Handled(FALSE).kind = "handled"
        /\ Panicked.kind = "panic"
    BY ReplyKind
  <2>2. QED
    BY <1>2, <2>1
<1>13. ReplayIsOwn'
  <2>1. \A q \in Request : reply'[q] # reply[q] => reply'[q].kind # "replayed"
    BY <1>3, <1>12 DEF OthersKept
  <2>2. \A q \in Request : stage[q] \in {"persist", "done"} =>
           req'[q] = req[q] /\ subject'[q] = subject[q] /\ reply'[q] = reply[q]
    BY <1>2, <1>3 DEF OthersKept
  <2>3. QED
    BY <2>1, <2>2, ReplaysKept
<1>14. RefusedLeavesNoTrace'
  BY <1>0, <1>3, <1>12 DEF RefusedLeavesNoTrace, OthersKept
<1>15. QED
  BY <1>4, <1>5, <1>6, <1>7, <1>8, <1>9, <1>10, <1>11, <1>13, <1>14 DEF Parts

\* The handler returns, panics, or the replica dies.
LEMMA LeavingStep ==
  ASSUME TypeOK, Parts, NEW r \in Request,
         \/ \E ok \in BOOLEAN : Return(r, ok) \/ ReturnStatus(r, ok)
         \/ Recovery(r) \/ recoveryInterceptor(r) \/ Crash(r)
  PROVE  TypeOK' /\ Parts'
<1>1. CASE \E ok \in BOOLEAN : Return(r, ok) \/ ReturnStatus(r, ok)
  <2>1. PICK ok \in BOOLEAN, time \in {0, PersistTimeout} :
          stage[r] = "handler" /\ Answer(r, ok, time)
    BY <1>1 DEF Return, ReturnStatus, At
  <2>2. QED
    BY <2>1, HandlerStep DEF Answer
<1>2. CASE Recovery(r) \/ recoveryInterceptor(r)
  BY <1>2, HandlerStep DEF Recovery, recoveryInterceptor, At, Recovered
<1>3. CASE Crash(r)
  BY <1>3, HandlerStep DEF Crash
<1>4. QED
  BY <1>1, <1>2, <1>3

\* What is written into the record of the request that owns it.
LEMMA OutcomeRecord ==
  ASSUME NEW r \in Request, NEW b \in BOOLEAN, reply[r] = Handled(b),
         record[req[r].key] \in Record, record[req[r].key].ok = FALSE
  PROVE  /\ Outcome(r) \in Record
         /\ Outcome(r).state \in {"completed", "failed"}
         /\ Outcome(r).owner = record[req[r].key].owner
         /\ Outcome(r).print = record[req[r].key].print
         /\ Outcome(r).ok = b /\ Outcome(r).ttl # 0
<1>1. reply[r].ok = b
  BY DEF Handled
<1>2. {ResultTTL, FailureTTL} \subseteq Nat \ {0}
  BY PipelineAssumption
<1>3. CASE b
  BY <1>1, <1>2, <1>3 DEF Outcome, Record
<1>4. CASE ~b
  BY <1>1, <1>2, <1>4 DEF Outcome, Record
<1>5. QED
  BY <1>3, <1>4

\* The result of a request is put into its record.
LEMMA PersistStep ==
  ASSUME TypeOK, Parts, NEW r \in Request, Persist(r)
  PROVE  TypeOK' /\ Parts'
<1>0. /\ Shape /\ OnChain /\ Untouched /\ Answering /\ Owned /\ InTime /\ Covered
      /\ Remembered /\ ReplayIsOwn /\ RefusedLeavesNoTrace
  BY DEF Parts
<1>1. /\ stage[r] = "persist" /\ Leave(r)
      /\ UNCHANGED <<req, subject, reply, effect, forgotten>>
  BY DEF Persist
<1>2. CASE UNCHANGED record
  BY <1>1, <1>2, HandlerStep
<1>3. CASE /\ record[req[r].key].owner = r
           /\ record' = [record EXCEPT ![req[r].key] = Outcome(r)]
  <2> DEFINE k == req[r].key
  <2>1. /\ k \in Key /\ req[r] \in Arrival
        /\ \E b \in BOOLEAN : reply[r] = Handled(b)
    BY <1>0, <1>1 DEF OnChain, Answering, Arrival
  <2>2. record[k] \in Record
    BY <1>0, <2>1 DEF Shape
  <2>3. OwnedBy(k, r)
    BY <1>0, <1>3, <2>1, AbsentType DEF Owned, OwnedBy
  <2>4. record[k].state = "processing" /\ record[k].ok = FALSE
    BY <1>1, <2>3 DEF OwnedBy
  <2>5. PICK b \in BOOLEAN : reply[r] = Handled(b)
    BY <2>1
  <2>6. PICK n \in Record :
          /\ record' = [record EXCEPT ![k] = n]
          /\ n.state \in {"completed", "failed"} /\ n.owner = r
          /\ n.print = record[k].print /\ n.ok = b /\ n.ttl # 0
    BY <1>3, <2>2, <2>4, <2>5, OutcomeRecord
  <2>7. /\ record'[k] = n /\ \A q \in Key : q # k => record'[q] = record[q]
        /\ record' \in [Key -> Record]
        /\ \A q \in Key : record'[q].owner = record[q].owner
    BY <1>0, <1>3, <2>1, <2>6 DEF Shape
  <2>8. OthersKept(r) /\ stage'[r] = "done" /\ left'[r] = 0
    BY <1>1 DEF TypeOK, Leave, OthersKept
  <2>9. TypeOK'
    <3>1. stage' \in [Request -> Stage] /\ left' \in [Request -> Nat]
      BY <1>1, StageNames DEF TypeOK, Leave
    <3>2. \A q \in Request : req'[q] = None => stage'[q] = "new"
      BY <1>1, <2>1, <2>8, PipelineAssumption DEF TypeOK, OthersKept, Arrival
    <3>3. ASSUME NEW q \in Key
          PROVE  /\ record'[q].state \in {"absent", "processing", "completed", "failed"}
                 /\ record'[q].owner \in Request \cup {None}
                 /\ record'[q].ttl \in Nat
                 /\ record'[q].state = "absent" <=> record'[q].ttl = 0
      <4>1. record'[q] \in Record
        BY <2>7
      <4>2. record'[q].state = "absent" <=> record'[q].ttl = 0
        BY <2>6, <2>7 DEF TypeOK
      <4>3. QED
        BY <4>1, <4>2 DEF Record
    <3>4. QED
      BY <1>1, <3>1, <3>2, <3>3 DEF TypeOK
  <2>10. Shape' /\ OnChain' /\ InTime'
    BY <1>0, <1>1, <2>1, <2>7, <2>8 DEF Shape, OnChain, InTime, OthersKept, Early
  <2>11. Answering'
    BY <1>0, <1>1, <2>8 DEF Answering, OthersKept, Handled
  <2>12. Untouched'
    BY <1>0, <1>1, <2>7, <2>8 DEF Untouched, OthersKept, Early
  <2>13. Owned'
    <3>1. ASSUME NEW q \in Key
          PROVE  IF record'[q].state = "absent" THEN record'[q] = Absent
                 ELSE \E s \in Request : OwnedBy(q, s)'
      <4>1. CASE q # k
        <5>1. record[q].owner # r
          BY <1>0, <3>1, <4>1, AbsentType DEF Owned, OwnedBy
        <5>2. QED
          BY <1>0, <2>7, <2>8, <4>1, <5>1, OwnedKept
      <4>2. CASE q = k
        <5>1. Fingerprint(r)' = Fingerprint(r)
          BY <1>1, PrintKept
        <5>2. OwnedBy(q, r)'
          BY <1>1, <2>3, <2>5, <2>6, <2>7, <2>8, <4>2, <5>1 DEF OwnedBy, Handled
        <5>3. QED
          BY <2>6, <2>7, <4>2, <5>2
      <4>3. QED
        BY <4>1, <4>2
    <3>2. QED
      BY <3>1 DEF Owned, Absent
  <2>14. Covered'
    <3>1. ASSUME NEW q \in Request, HoldsKey(q)', req'[q].via = "http"
          PROVE  /\ record'[req'[q].key].owner = q
                 /\ record'[req'[q].key].ttl >
                      left'[q] + (IF stage'[q] = "handler" THEN PersistTimeout ELSE 0)
      <4>1. q # r /\ HoldsKey(q) /\ req[q].via = "http" /\ req[q].key \in Key
        BY <1>0, <1>1, <2>8, <3>1 DEF HoldsKey, OthersKept, OnChain, Arrival
      <4>2. record[req[q].key].owner = q /\ req[q].key # k
        BY <1>0, <1>3, <4>1 DEF Covered
      <4>3. QED
        BY <1>0, <2>7, <2>8, <4>1, <4>2 DEF Covered, OthersKept
    <3>2. QED
      BY <3>1 DEF Covered
  <2>15. Remembered'
    <3>1. ASSUME NEW q \in Request, stage'[q] \in {"handler", "persist"} \/ effect'[q],
                 req'[q].key # NoKey
          PROVE  q \in forgotten' \/ record'[req'[q].key].owner = q
      <4>1. stage[q] \in {"handler", "persist"} \/ effect[q]
        BY <1>1, <2>8, <3>1 DEF OthersKept
      <4>2. req[q].key \in Key
        BY <1>0, <1>1, <3>1, <4>1 DEF OnChain, Arrival, Untouched
      <4>3. QED
        BY <1>0, <1>1, <2>7, <3>1, <4>1, <4>2 DEF Remembered
    <3>2. QED
      BY <3>1 DEF Remembered
  <2>16. ReplayIsOwn'
    BY <1>0, <1>1 DEF ReplayIsOwn, Handled
  <2>17. RefusedLeavesNoTrace'
    BY <1>0, <1>1, <2>7 DEF RefusedLeavesNoTrace
  <2>18. QED
    BY <2>9, <2>10, <2>11, <2>12, <2>13, <2>14, <2>15, <2>16, <2>17 DEF Parts
<1>4. QED
  BY <1>2, <1>3 DEF Persist

\* A record one tick later, given its TTL then.
LEMMA AgedRecord ==
  ASSUME NEW x \in Record, NEW n \in Nat
  PROVE  LET y == [x EXCEPT !.ttl = n]
         IN  /\ y \in Record /\ y.state = x.state /\ y.owner = x.owner
             /\ y.print = x.print /\ y.ok = x.ok /\ y.ttl = n
BY DEF Record

\* A tick ages a record, or ends it when its TTL does.
LEMMA TickedRecord ==
  ASSUME TypeOK, Parts, Tick, NEW k \in Key
  PROVE  \/ record[k].ttl = 1 /\ record'[k] = Absent
         \/ /\ record[k].ttl > 1 /\ record'[k] \in Record
            /\ record'[k].ttl = record[k].ttl - 1
            /\ record'[k].state = record[k].state /\ record'[k].owner = record[k].owner
            /\ record'[k].print = record[k].print /\ record'[k].ok = record[k].ok
         \/ record[k].ttl = 0 /\ record'[k] = record[k]
<1>1. record[k] \in Record /\ record[k].ttl \in Nat
  BY DEF Parts, Shape, TypeOK
<1>2. record'[k] = IF k \in Expiring THEN Absent
                   ELSE IF record[k].ttl > 0 THEN [record[k] EXCEPT !.ttl = @ - 1]
                   ELSE record[k]
  BY DEF Tick
<1>3. CASE record[k].ttl = 1
  BY <1>2, <1>3 DEF Expiring
<1>4. CASE record[k].ttl > 1
  <2> DEFINE n == record[k].ttl - 1
  <2>1. n \in Nat /\ record'[k] = [record[k] EXCEPT !.ttl = n]
    BY <1>1, <1>2, <1>4 DEF Expiring
  <2>2. n = record[k].ttl - 1
    OBVIOUS
  <2> HIDE DEF n
  <2>3. QED
    BY <1>1, <1>4, <2>1, <2>2, AgedRecord
<1>5. CASE record[k].ttl = 0
  BY <1>2, <1>5 DEF Expiring
<1>6. QED
  BY <1>1, <1>3, <1>4, <1>5

\* Time passes.
LEMMA TickStep ==
  ASSUME TypeOK, Parts, Tick
  PROVE  TypeOK' /\ Parts'
<1>0. /\ Shape /\ OnChain /\ Untouched /\ Answering /\ Owned /\ InTime /\ Covered
      /\ Remembered /\ ReplayIsOwn /\ RefusedLeavesNoTrace
  BY DEF Parts
<1>1. /\ \A r \in Timed : left[r] > 0
      /\ left' = [r \in Request |-> IF r \in Timed THEN left[r] - 1 ELSE left[r]]
      /\ forgotten' = forgotten \cup {record[k].owner : k \in Expiring}
      /\ UNCHANGED <<req, subject, stage, reply, effect>>
      /\ DOMAIN record' = Key /\ record' = [k \in Key |-> record'[k]]
  BY DEF Tick
<1>2. \A k \in Key :
        \/ record[k].ttl = 1 /\ record'[k] = Absent
        \/ /\ record[k].ttl > 1 /\ record'[k] \in Record
           /\ record'[k].ttl = record[k].ttl - 1
           /\ record'[k].state = record[k].state /\ record'[k].owner = record[k].owner
           /\ record'[k].print = record[k].print /\ record'[k].ok = record[k].ok
        \/ record[k].ttl = 0 /\ record'[k] = record[k]
  BY TickedRecord
<1>3. \A k \in Key : record[k].ttl \in Nat /\ record[k] \in Record
  BY <1>0 DEF TypeOK, Shape
<1>4. \A r \in Request : /\ left[r] \in Nat /\ left'[r] \in Nat /\ left'[r] <= left[r]
                         /\ r \in Timed => left[r] > 0 /\ left'[r] = left[r] - 1
  BY <1>1 DEF TypeOK
<1>5. \A k \in Expiring : k \in Key /\ record[k].owner \in Request
  <2>1. ASSUME NEW k \in Expiring
        PROVE  k \in Key /\ record[k].state # "absent"
    BY <2>1 DEF Expiring, TypeOK
  <2>2. QED
    BY <1>0, <2>1 DEF Owned, OwnedBy
<1>6. \A k \in Key : record'[k].owner = record[k].owner \/ record'[k].owner \notin Request
  BY <1>2, AbsentType
<1>7. TypeOK'
  <2>1. left' \in [Request -> Nat]
    BY <1>1, <1>4
  <2>2. forgotten' \subseteq Request
    BY <1>1, <1>5 DEF TypeOK
  <2>3. ASSUME NEW k \in Key
        PROVE  /\ record'[k].state \in {"absent", "processing", "completed", "failed"}
               /\ record'[k].owner \in Request \cup {None}
               /\ record'[k].ttl \in Nat
               /\ record'[k].state = "absent" <=> record'[k].ttl = 0
    <3>1. CASE record'[k] = Absent
      BY <3>1 DEF Absent
    <3>2. CASE /\ record[k].ttl > 1 /\ record'[k] \in Record
               /\ record'[k].ttl = record[k].ttl - 1
               /\ record'[k].state = record[k].state
      <4>1. record[k].state # "absent" /\ record'[k].ttl # 0
        BY <1>3, <3>2 DEF TypeOK
      <4>2. QED
        BY <3>2, <4>1 DEF Record
    <3>3. CASE record'[k] = record[k]
      BY <3>3 DEF TypeOK
    <3>4. QED
      BY <1>2, <3>1, <3>2, <3>3
  <2>4. QED
    BY <1>1, <2>1, <2>2, <2>3 DEF TypeOK
<1>8. Shape'
  <2>1. \A k \in Key : record'[k] \in Record
    BY <1>2, <1>3, AbsentType
  <2>2. QED
    BY <1>0, <1>1, <2>1 DEF Shape
<1>9. OnChain' /\ Answering' /\ InTime'
  <2>1. OnChain' /\ Answering'
    BY <1>0, <1>1 DEF OnChain, Answering, Handled
  <2>2. ASSUME NEW r \in Request, left[r] <= RequestTimeout + Grace
        PROVE  left'[r] <= RequestTimeout + Grace
    BY <1>4, <2>2, PipelineAssumption
  <2>3. QED
    BY <1>0, <1>1, <2>1, <2>2 DEF InTime, Early
<1>10. Untouched' /\ RefusedLeavesNoTrace'
  BY <1>0, <1>1, <1>6 DEF Untouched, RefusedLeavesNoTrace, Early
<1>11. Owned'
  <2>1. ASSUME NEW k \in Key
        PROVE  IF record'[k].state = "absent" THEN record'[k] = Absent
               ELSE \E s \in Request : OwnedBy(k, s)'
    <3>1. CASE record[k].ttl = 1 /\ record'[k] = Absent
      BY <3>1 DEF Absent
    <3>2. CASE record[k].ttl = 0 /\ record'[k] = record[k]
      BY <1>0, <3>2 DEF Owned, TypeOK
    <3>3. CASE /\ record[k].ttl > 1
               /\ record'[k].state = record[k].state /\ record'[k].owner = record[k].owner
               /\ record'[k].print = record[k].print /\ record'[k].ok = record[k].ok
      <4>1. record[k].state # "absent"
        BY <3>3 DEF TypeOK
      <4>2. PICK s \in Request : OwnedBy(k, s)
        BY <1>0, <4>1 DEF Owned
      <4>3. Fingerprint(s)' = Fingerprint(s)
        BY <1>1, PrintKept
      <4>4. OwnedBy(k, s)'
        BY <1>1, <3>3, <4>2, <4>3 DEF OwnedBy, Handled
      <4>5. QED
        BY <3>3, <4>1, <4>4
    <3>4. QED
      BY <1>2, <3>1, <3>2, <3>3
  <2>2. QED
    BY <2>1 DEF Owned, Absent
<1>12. Covered'
  <2>1. ASSUME NEW r \in Request, HoldsKey(r)', req'[r].via = "http"
        PROVE  /\ record'[req'[r].key].owner = r
               /\ record'[req'[r].key].ttl >
                    left'[r] + (IF stage'[r] = "handler" THEN PersistTimeout ELSE 0)
    <3>1. HoldsKey(r) /\ req[r].via = "http" /\ req[r].key \in Key
      BY <1>0, <1>1, <2>1 DEF HoldsKey, OnChain, Arrival
    <3>2. r \in Timed
      BY <3>1 DEF Timed, HoldsKey
    <3> DEFINE k == req[r].key
               extra == IF stage[r] = "handler" THEN PersistTimeout ELSE 0
    <3>3. record[k].owner = r /\ record[k].ttl > left[r] + extra
      BY <1>0, <3>1 DEF Covered
    <3>4. extra \in Nat /\ stage' = stage /\ req' = req
      BY <1>1, PipelineAssumption
    <3> HIDE DEF extra
    <3>5. record[k].ttl > 1
      BY <1>3, <1>4, <3>1, <3>2, <3>3, <3>4
    <3>6. record'[k].ttl = record[k].ttl - 1 /\ record'[k].owner = r
      BY <1>2, <3>1, <3>3, <3>5
    <3>7. record'[k].ttl > left'[r] + extra
      BY <1>3, <1>4, <3>1, <3>2, <3>3, <3>4, <3>6
    <3>8. QED
      BY <3>4, <3>6, <3>7 DEF extra
  <2>2. QED
    BY <2>1 DEF Covered
<1>13. Remembered'
  <2>1. ASSUME NEW r \in Request, stage'[r] \in {"handler", "persist"} \/ effect'[r],
               req'[r].key # NoKey
        PROVE  r \in forgotten' \/ record'[req'[r].key].owner = r
    <3>1. r \in forgotten \/ record[req[r].key].owner = r
      BY <1>0, <1>1, <2>1 DEF Remembered
    <3>2. req[r].key \in Key
      BY <1>0, <1>1, <2>1 DEF OnChain, Arrival, Untouched
    <3>3. CASE req[r].key \in Expiring
      BY <1>1, <3>1, <3>3
    <3>4. CASE req[r].key \notin Expiring
      <4>1. record'[req[r].key].owner = record[req[r].key].owner
        BY <1>2, <3>2, <3>4 DEF Expiring
      <4>2. QED
        BY <1>1, <3>1, <4>1
    <3>5. QED
      BY <3>3, <3>4
  <2>2. QED
    BY <2>1 DEF Remembered
<1>14. ReplayIsOwn'
  BY <1>0, <1>1 DEF ReplayIsOwn, Handled
<1>15. QED
  BY <1>7, <1>8, <1>9, <1>10, <1>11, <1>12, <1>13, <1>14 DEF Parts

\* Every step preserves the invariant.
LEMMA PipelineStep == PipelineInv /\ [Next]_vars => PipelineInv'
<1> SUFFICES ASSUME TypeOK, Parts, [Next]_vars PROVE TypeOK' /\ Parts'
  BY DEF PipelineInv
<1>1. ASSUME NEW r \in Request, NEW via \in {"http", "grpc"}, NEW k \in Key \cup {NoKey},
             NEW p \in Payload, Arrive(r, via, k, p)
      PROVE  TypeOK' /\ Parts'
  BY <1>1, ArriveStep
<1>2. ASSUME NEW r \in Request, Step(r) PROVE TypeOK' /\ Parts'
  <2>1. CASE \/ IdempotencyKey(r) \/ CORS(r) \/ RequireJSON(r) \/ RateLimit(r)
             \/ Authentication(r) \/ Authorization(r)
             \/ idempotencyInterceptor(r) \/ authInterceptor(r)
             \/ UnaryServerInterceptor(r)
    BY <2>1, EarlyStages, EarlyStep
  <2>2. CASE Begin(r)
    BY <2>2, BeginStep
  <2>3. CASE Commit(r)
    BY <2>3, CommitStep
  <2>4. CASE Persist(r)
    BY <2>4, PersistStep
  <2>5. CASE \/ \E ok \in BOOLEAN : Return(r, ok) \/ ReturnStatus(r, ok)
             \/ Recovery(r) \/ recoveryInterceptor(r)
    BY <2>5, LeavingStep
  <2>6. QED
    BY <1>2, <2>1, <2>2, <2>3, <2>4, <2>5 DEF Step
<1>3. ASSUME NEW r \in Request, Crash(r) PROVE TypeOK' /\ Parts'
  BY <1>3, LeavingStep
<1>4. CASE Tick
  BY <1>4, TickStep
<1>5. CASE UNCHANGED vars
  <2>1. UNCHANGED <<req, subject, stage, left, reply, effect, record, forgotten>>
    BY <1>5 DEF vars
  <2>2. TypeOK' /\ Shape' /\ OnChain' /\ Untouched' /\ Answering' /\ InTime' /\ Remembered'
    BY <2>1 DEF Parts, TypeOK, Shape, OnChain, Untouched, Answering, InTime, Remembered,
                Early, Handled
  <2>3. Owned'
    <3>1. ASSUME NEW k \in Key, NEW s \in Request, OwnedBy(k, s)
          PROVE  OwnedBy(k, s)'
      <4>1. Fingerprint(s)' = Fingerprint(s)
        BY <2>1, PrintKept
      <4>2. QED
        BY <2>1, <3>1, <4>1 DEF OwnedBy, Handled
    <3>2. QED
      BY <2>1, <3>1 DEF Parts, Owned, Absent
  <2>4. Covered' /\ ReplayIsOwn' /\ RefusedLeavesNoTrace'
    BY <2>1 DEF Parts, Covered, HoldsKey, ReplayIsOwn, RefusedLeavesNoTrace, Handled
  <2>5. QED
    BY <2>2, <2>3, <2>4 DEF Parts
<1>6. QED
  BY <1>1, <1>2, <1>3, <1>4, <1>5 DEF Next

-----------------------------------------------------------------------------
(* The theorems.                                                           *)

\* The inductive invariant holds in every state of every behaviour: requests
\* in their handlers own the record of their key, and the record outlives them.
THEOREM PipelineInvariant == Spec => []PipelineInv
<1>1. PipelineInv /\ UNCHANGED vars => PipelineInv'
  BY PipelineStep
<1>2. QED
  BY PipelineInit, PipelineStep, PTL DEF Spec

\* The types of the requests' and the records' fields, and that a record exists
\* exactly while it has a TTL.
THEOREM TypeCorrect == Spec => []TypeOK
<1>1. PipelineInv => TypeOK
  BY DEF PipelineInv
<1>2. QED
  BY <1>1, PipelineInvariant, PTL

\* IdempotencyExecution: of two HTTP requests with one key at most one is in
\* its handler or storing its result, under any budget BudgetAssumption allows.
THEOREM OneHandlerPerKeyHolds == Spec => []OneHandlerPerKey
<1>1. PipelineInv => OneHandlerPerKey
  BY DEF PipelineInv, Parts, Covered, OneHandlerPerKey
<1>2. QED
  BY <1>1, PipelineInvariant, PTL

\* IdempotencyExecution: two requests with one key both take effect only if the
\* record of one of them has expired, over either transport.
THEOREM AtMostOnceHolds == Spec => []AtMostOnce
<1>1. PipelineInv => AtMostOnce
  BY DEF PipelineInv, Parts, Remembered, AtMostOnce
<1>2. QED
  BY <1>1, PipelineInvariant, PTL

\* IdempotencyExecution: a replayed response is the one the same caller got for
\* the same payload over the same transport.
THEOREM ReplayIsOwnHolds == Spec => []ReplayIsOwn
<1>1. PipelineInv => ReplayIsOwn
  BY DEF PipelineInv, Parts
<1>2. QED
  BY <1>1, PipelineInvariant, PTL

\* NewServer: a request refused in front of the record has taken no effect and
\* left its key free.
THEOREM RefusedLeavesNoTraceHolds == Spec => []RefusedLeavesNoTrace
<1>1. PipelineInv => RefusedLeavesNoTrace
  BY DEF PipelineInv, Parts
<1>2. QED
  BY <1>1, PipelineInvariant, PTL

=============================================================================
