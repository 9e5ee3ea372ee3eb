------------------------------ MODULE Startup -------------------------------
(***************************************************************************)
(* A process until its start hooks run: main loads the configuration, and  *)
(* fx calls the constructors in the order of app.New (internal/app), each  *)
(* of which may refuse its part of the configuration or fail for reasons   *)
(* outside of it.  The first error ends the process.                       *)
(***************************************************************************)
EXTENDS Configuration, Naturals, Sequences

CONSTANT Turnings    \* bound: the sets of switches a deployment may turn

VARIABLES
  stage,     \* load, construct, launched, running, refused or aborted
  profile,   \* the active profile
  settings,  \* the configuration
  built,     \* the enabled constructors that have succeeded
  position,  \* constructors called
  outage     \* one of them has failed for a reason outside the configuration

startupVars == <<stage, profile, settings, built, position, outage>>

StartupInit ==
  /\ stage = "load" /\ profile = "" /\ settings = {}
  /\ built = {} /\ position = 0 /\ outage = FALSE

-----------------------------------------------------------------------------

\* Before the start context: what fx calls, dependencies first, in the order
\* of the invocations of the modules.
Constructors ==
  <<"logger", "migration", "database", "tracing", "redis", "bus", "outbound",
    "applications", "recorder", "runtime", "cleaner", "verifier", "grpc", "http">>

\* The switch of a constructor that does nothing when it is off.
Optional ==
  [migration |-> "autoUp", database |-> "database", tracing |-> "tracing",
   redis |-> "redis", bus |-> "bus", applications |-> "database",
   recorder |-> "opLog", verifier |-> "jwks"]

Enabled(c) == c \in DOMAIN Optional => Optional[c] \in settings

\* migration.Run.
MigrationRefuses == "migrationURL" \notin settings

\* Dial of a gRPC upstream takes credentials without TLS when allow_insecure
\* says so.
DialRefuses(u) ==
  /\ u \in settings
  /\ {Policy[u].auth, Policy[u].token} \subseteq settings
  /\ {Policy[u].tls, Policy[u].insecure} \cap settings = {}

\* An HTTP upstream does not.
NewHTTPClientRefuses(u) ==
  u \in settings /\ Policy[u].auth \in settings /\ Policy[u].tls \notin settings

\* newApplicationVerifier.
ApplicationsRefuse == "application" \notin settings

\* newOperationRecorder.
RecorderRefuses == "bus" \notin built

\* serverCredentials.
ServerRefuses == "grpcTLS" \in settings /\ "grpcCert" \notin settings

\* The configuration, or what has been built of it, does not do for c.
Refuses(c) ==
  \/ c = "migration" /\ MigrationRefuses
  \/ c = "outbound" /\ (NewHTTPClientRefuses("partner") \/ \E u \in GRPCUpstream : DialRefuses(u))
  \/ c = "applications" /\ ApplicationsRefuse
  \/ c = "recorder" /\ RecorderRefuses
  \/ c = "grpc" /\ ServerRefuses

\* The constructors that read files, connect or ping.
MayFail(c) ==
  \/ c \in {"logger", "migration", "database", "redis", "bus", "verifier"}
  \/ c = "grpc" /\ "grpcTLS" \in settings
  \/ c = "outbound" /\ \E u \in Upstream \cap settings : Policy[u].tls \in settings

-----------------------------------------------------------------------------

\* LoadWithProfile: main exits when the files cannot be read, the profile has
\* no valid name, or Validate has an objection.
Load ==
  /\ stage = "load"
  /\ \E flag, envVar \in ProfileSet \cup {""}, turned \in Turnings :
       LET p == ActiveProfile(flag, envVar)
           S == Layered(p, turned)
       IN  IF Validate(S, AppEnv(flag, envVar))
           THEN stage' = "construct" /\ profile' = p /\ settings' = S
           ELSE stage' = "refused" /\ UNCHANGED <<profile, settings>>
  /\ UNCHANGED <<built, position, outage>>

Calling(c) ==
  /\ stage = "construct" /\ position < Len(Constructors)
  /\ c = Constructors[position + 1]

\* The constructor of c succeeds.
Construct(c) ==
  /\ Calling(c)
  /\ Enabled(c) => ~Refuses(c)
  /\ position' = position + 1
  /\ built' = IF Enabled(c) THEN built \cup {c} ELSE built
  /\ UNCHANGED <<stage, profile, settings, outage>>

\* It refuses what it is given: fx keeps the error, and Run exits with it.
Refuse(c) ==
  /\ Calling(c) /\ Enabled(c) /\ Refuses(c)
  /\ stage' = "aborted"
  /\ UNCHANGED <<profile, settings, built, position, outage>>

\* Mutation: a service that cannot be reached is left out.
FailSoftly(c) ==
  /\ Calling(c) /\ Enabled(c) /\ MayFail(c)
  /\ position' = position + 1
  /\ UNCHANGED <<stage, profile, settings, built, outage>>

\* Something outside fails.
Fail(c) ==
  /\ Calling(c) /\ Enabled(c) /\ MayFail(c)
  /\ stage' = "aborted" /\ outage' = TRUE
  /\ UNCHANGED <<profile, settings, built, position>>

\* The first reload of the runtime asks a database that is not there: its start
\* hook panics.
NoRows == "cron" \in settings /\ "database" \notin built

\* The start hooks run; up to that of the runtime they do nothing.
Launch ==
  /\ stage = "construct" /\ position = Len(Constructors)
  /\ stage' = IF NoRows THEN "aborted" ELSE "launched"
  /\ UNCHANGED <<profile, settings, built, position, outage>>

StartupNext ==
  \/ Load \/ Launch
  \/ \E c \in {Constructors[i] : i \in DOMAIN Constructors} :
       Construct(c) \/ Refuse(c) \/ Fail(c)

-----------------------------------------------------------------------------
(* What the servers of a launched process offer, and to whom.  The patterns *)
(* of auth.skip_* are the shipped ones; those of auth.psk may be any.       *)

\* The scheduler's operations, over either transport.
Operations == {"http.scheduler", "grpc.scheduler"}

\* httptransport.NewServer: the routes.
HTTPRoutes ==
  {"live", "ready", "version", "me", "http.scheduler"}
    \cup (settings \cap {"metrics", "pprof", "swagger"})

\* grpctransport.NewServer: the services.
GRPCServices ==
  IF "grpc" \in settings
  THEN {"health", "grpc.scheduler"} \cup (settings \cap {"reflection"})
  ELSE {}

Served == HTTPRoutes \cup GRPCServices

\* What is served over a listener without TLS: the HTTP listener never has it.
InPlain == IF "grpcTLS" \in settings THEN HTTPRoutes ELSE Served

\* What answers whoever asks.
Open ==
  {"live", "ready", "metrics", "version", "health"}
    \cup (IF "swaggerAuth" \in settings THEN {} ELSE {"swagger"})

\* Service.Verify: the tokens of the identity service if there is a verifier,
\* else those signed with jwt.secret.
Tokens ==
  IF "verifier" \in built THEN {"identityToken"}
  ELSE IF {"authClient", "jwtSecret"} \subseteq settings THEN {"localToken"} ELSE {}

\* The keys of which route d wants one.
Opens(d) ==
  CASE d = "pprof" -> {"pprofToken"}
    [] d = "swagger" -> Tokens
    [] OTHER -> Tokens \cup (IF "psk" \in settings THEN {"psk"} ELSE {})

\* How far a caller with these keys comes.
Reach(keys) == {d \in Served : d \in Open \/ Opens(d) \cap keys # {}}

\* Operations that are performed without a decision of the authorization
\* service.
Undecided == IF "authorization" \in settings THEN {} ELSE Operations \cap Served

\* Upstreams to which the process sends its own credentials without TLS.
Exposed ==
  {u \in Upstream \cap settings : Policy[u].auth \in settings /\ Policy[u].tls \notin settings}

-----------------------------------------------------------------------------

\* LoadWithProfile, Validate (config.go:303), as the servers apply it: when the
\* active profile is production, whichever of flag, variable and files named it,
\* a caller with no key, or with a token signed with jwt.secret, comes no farther
\* than the probes, the metrics and the version; no operation is performed
\* without a decision; gRPC is served over TLS and without reflection; and the
\* process' own credentials leave it over TLS only.  Not guarded, in this profile
\* either: the HTTP listener is plain, the routes named here are open, a matching
\* PSK replaces a token, and upstreams that get no credentials may be called
\* without TLS.
ProductionIsGuarded ==
  stage = "launched" /\ profile = "production" =>
    /\ Reach({"localToken"}) \subseteq {"live", "ready", "metrics", "version", "health"}
    /\ Undecided = {}
    /\ InPlain \subseteq HTTPRoutes
    /\ "reflection" \notin Served
    /\ Exposed = {}

\* newDatabase, newRedis, newBus, runStartupMigration (app.go:58): a process
\* comes to listen only with all its features standing on what they need,
\* never without a service that could not be reached.  Not every constructor
\* looks for itself: those of the limiter, the idempotency manager and the
\* authorizer take what is missing for granted.
ServesEquipped ==
  stage = "launched" =>
    /\ \A c \in DOMAIN Optional : Enabled(c) => c \in built
    /\ "cron" \in settings => "database" \in built
    /\ settings \cap {"rateLimit", "idempotency"} # {} => "redis" \in built
    /\ "opLog" \in settings => "bus" \in built
    /\ "authorization" \in settings => "authorizer" \in settings
    /\ "migration" \in built => "database" \in built

\* What Validate accepts although no process can start with it: credentials for
\* an HTTP upstream with allow_insecure, and cron without a database.
Overlooked ==
  \/ {"partner.auth", "partner.insecure"} \subseteq settings
  \/ "cron" \in settings /\ "database" \notin settings

\* Validate against the constructors (config.go:464): with everything outside in
\* order a configuration that was accepted starts, with two exceptions.
AcceptedStarts == stage = "aborted" /\ ~outage => Overlooked

=============================================================================
