--------------------------- MODULE Configuration ----------------------------
(***************************************************************************)
(* internal/config: how LoadWithProfile layers the settings and what       *)
(* Validate accepts.  A configuration is the set of switches that are on:  *)
(* features that are enabled, and texts, addresses and keys that are given.*)
(* Numbers, durations and path patterns are taken to be valid.             *)
(***************************************************************************)
EXTENDS FiniteSets

CONSTANT ProfileSet   \* names a profile can be given

\* Outbound connections that may carry credentials: the gRPC upstreams that
\* check grants and take decisions, and any HTTP upstream.
GRPCUpstream == {"application", "authorizer"}
Upstream == GRPCUpstream \cup {"partner"}

\* auth: auth.type; token: auth.token; tls: tls.enabled; insecure:
\* tls.allow_insecure.
Policy ==
  [application |-> [auth |-> "application.auth", token |-> "application.token",
                    tls |-> "application.tls", insecure |-> "application.insecure"],
   authorizer |-> [auth |-> "authorizer.auth", token |-> "authorizer.token",
                   tls |-> "authorizer.tls", insecure |-> "authorizer.insecure"],
   partner |-> [auth |-> "partner.auth", token |-> "partner.token",
                tls |-> "partner.tls", insecure |-> "partner.insecure"]]

Feature ==
  {"grpc", "grpcTLS", "reflection", "database", "application", "partner",
   "autoUp", "redis", "rateLimit", "swagger", "swaggerAuth", "authorization",
   "authorizer", "authClient", "pprof", "psk", "idempotency", "bus", "opLog",
   "cron", "tracing", "metrics"}

Given ==
  {"grpcCert", "jwks", "dsn", "migrationURL", "jwtSecret", "pprofToken", "pskKey"}

Switch ==
  Feature \cup Given \cup {Policy[u][p] : u \in Upstream, p \in DOMAIN Policy["partner"]}

-----------------------------------------------------------------------------
(* The layers, lowest first.                                               *)

\* setDefaults; config.yaml adds the two upstreams.
Base ==
  {"grpc", "reflection", "swagger", "cron", "metrics"} \cup {"application", "authorizer"}

ProfileFileExists(p) == p \in {"development", "test", "compose", "production"}

\* What config-<profile>.yaml turns on and off.
FileOn(p) ==
  CASE p = "production" ->
         {"grpcTLS", "swagger", "swaggerAuth", "authorization", "database", "redis",
          "autoUp", "rateLimit", "idempotency", "bus", "opLog",
          "application.auth", "application.tls", "authorizer.tls"}
    [] p = "development" -> {"swagger", "reflection"}
    [] p = "compose" -> {"swagger", "reflection", "cron"}
    [] OTHER -> {}

FileOff(p) ==
  CASE p = "production" -> {"reflection"}
    [] p = "development" -> {"database", "redis", "autoUp"}
    [] p = "test" ->
         {"database", "redis", "rateLimit", "idempotency", "autoUp", "cron",
          "reflection", "swagger", "metrics"}
    [] OTHER -> {}

\* What the production file leaves to the environment.
Secret == {"grpcCert", "jwks", "dsn", "migrationURL", "application.token"}

\* The profile: the flag, else APP_ENV, else app.env of the base file.
ActiveProfile(flag, envVar) ==
  IF flag # "" THEN flag ELSE IF envVar # "" THEN envVar ELSE "development"

\* Mutation: without v.Set the variable wins over the profile file, and the
\* file over the base.
AppEnvUnset(flag, envVar) ==
  IF envVar # "" THEN envVar
  ELSE IF ProfileFileExists(flag) THEN flag ELSE "development"

\* app.env of the configuration, which the production rules look at: v.Set puts
\* the active profile above all layers.
AppEnv(flag, envVar) == ActiveProfile(flag, envVar)

\* The shipped files, and what a deployment turns in them or by environment
\* variables.
Layered(p, turned) ==
  LET files == (Base \ FileOff(p)) \cup FileOn(p)
  IN  (files \ turned) \cup (turned \ files)

-----------------------------------------------------------------------------
(* Validate, in its order.                                                 *)

ValidServers(S, production) ==
  /\ "grpcTLS" \in S => "grpcCert" \in S
  /\ production =>
       /\ "grpc" \in S => "grpcTLS" \in S
       /\ "reflection" \notin S
       /\ "jwks" \in S

\* Mutation: the rule about outbound.grpc.application is missing.
ValidStoresAlone(S) ==
  /\ "database" \in S => "dsn" \in S
  /\ "autoUp" \in S => "database" \in S /\ "migrationURL" \in S
  /\ "rateLimit" \in S => "redis" \in S

ValidStores(S) ==
  /\ "database" \in S => "dsn" \in S /\ "application" \in S
  /\ "autoUp" \in S => "database" \in S /\ "migrationURL" \in S
  /\ "rateLimit" \in S => "redis" \in S

ValidAccess(S, production) ==
  /\ "pprof" \in S => "pprofToken" \in S
  /\ production => ("swagger" \in S => "swaggerAuth" \in S) /\ "authorization" \in S
  /\ "authorization" \in S => "authorizer" \in S
  /\ "authClient" \in S => "jwtSecret" \in S
  /\ "psk" \in S => "pskKey" \in S

ValidMessages(S) ==
  /\ "idempotency" \in S => "redis" \in S
  /\ "opLog" \in S => "bus" \in S

\* validateClientPolicy.
ValidPolicy(S, u, production) ==
  LET on(policy) == Policy[u][policy] \in S
  IN  /\ on("auth") => on("token") /\ (on("tls") \/ on("insecure"))
      /\ ~(on("tls") /\ on("insecure"))
      /\ production /\ on("auth") => ~on("insecure")

Validate(S, env) ==
  LET production == env = "production"
  IN  /\ ValidServers(S, production)
      /\ ValidStores(S)
      /\ ValidAccess(S, production)
      /\ ValidMessages(S)
      /\ \A u \in Upstream \cap S : ValidPolicy(S, u, production)

=============================================================================
