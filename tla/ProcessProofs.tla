--------------------------- MODULE ProcessProofs ----------------------------
(***************************************************************************)
(* A process from main to its exit, for every set of profile names, every  *)
(* way a deployment may turn the settings and any amount of work.          *)
(***************************************************************************)
EXTENDS Process, LifecycleProofs

-----------------------------------------------------------------------------
(* The life of the process is one of Lifecycle.                            *)

\* While a process starts up, what Lifecycle speaks of waits in its first state.
THEOREM ProcessLives == ProcessSpec => Spec
<1>1. ProcessInit => Init
  BY DEF ProcessInit
<1>2. [ProcessNext]_processVars => [Next]_vars
  BY DEF ProcessNext, processVars, HandOver, Live, vars
<1>3. QED
  BY <1>1, <1>2, PTL DEF ProcessSpec, Spec

\* app.New, the stop hooks: no connection of the process is closed under its
\* users, whatever configuration it has started with.
THEOREM ProcessClosesLast == ProcessSpec => []ResourcesOutliveUsers
BY ProcessLives, ResourcesOutliveUsersHolds, PTL

\* Runtime.stop, Server.stop: the process that exits in time has done its work
\* and closed its connections.
THEOREM ProcessExitsOrderly == ProcessSpec => []OrderlyExit
BY ProcessLives, OrderlyExitHolds, PTL

-----------------------------------------------------------------------------
(* Startup.                                                                *)

\* The configuration of a process that constructs its parts was accepted.
Accepted ==
  stage \in {"construct", "launched", "aborted"} => Validate(settings, profile)

\* What has been called and is enabled has been built, and nothing else.
BuiltInOrder ==
  /\ position \in 0..14
  /\ stage = "load" => position = 0 /\ built = {}
  /\ \A i \in 1..position : Enabled(Constructors[i]) => Constructors[i] \in built
  /\ \A c \in built : Enabled(c)

\* The hooks of the process run only when every constructor has been called.
Launched == stage = "launched" => position = 14 /\ ~NoRows

StartupInv == Accepted /\ BuiltInOrder /\ Launched /\ AcceptedStarts

\* The constructors of app.New, by their place.
LEMMA ConstructorPlaces ==
  /\ Len(Constructors) = 14
  /\ Constructors[1] = "logger" /\ Constructors[2] = "migration"
  /\ Constructors[3] = "database" /\ Constructors[4] = "tracing"
  /\ Constructors[5] = "redis" /\ Constructors[6] = "bus"
  /\ Constructors[7] = "outbound" /\ Constructors[8] = "applications"
  /\ Constructors[9] = "recorder" /\ Constructors[10] = "runtime"
  /\ Constructors[11] = "cleaner" /\ Constructors[12] = "verifier"
  /\ Constructors[13] = "grpc" /\ Constructors[14] = "http"
BY DEF Constructors

\* The switches of the optional constructors.
LEMMA Switches ==
  /\ DOMAIN Optional = {"migration", "database", "tracing", "redis", "bus",
                        "applications", "recorder", "verifier"}
  /\ Enabled("migration") <=> "autoUp" \in settings
  /\ Enabled("database") <=> "database" \in settings
  /\ Enabled("redis") <=> "redis" \in settings
  /\ Enabled("bus") <=> "bus" \in settings
  /\ Enabled("applications") <=> "database" \in settings
  /\ Enabled("recorder") <=> "opLog" \in settings
  /\ Enabled("verifier") <=> "jwks" \in settings
BY DEF Enabled, Optional

\* The switches of an HTTP upstream.
LEMMA PartnerSwitches ==
  /\ Policy["partner"].auth = "partner.auth"
  /\ Policy["partner"].tls = "partner.tls"
  /\ Policy["partner"].insecure = "partner.insecure"
BY DEF Policy

\* validateClientPolicy: credentials go over TLS or are allowed to go without.
LEMMA CredentialsGuarded ==
  ASSUME NEW env, Validate(settings, env), NEW u \in Upstream \cap settings,
         Policy[u].auth \in settings
  PROVE  /\ Policy[u].tls \in settings \/ Policy[u].insecure \in settings
         /\ env = "production" => Policy[u].tls \in settings
<1>1. ValidPolicy(settings, u, env = "production")
  BY DEF Validate
<1>2. Policy[u].tls \in settings \/ Policy[u].insecure \in settings
  BY <1>1 DEF ValidPolicy
<1>3. env = "production" => Policy[u].insecure \notin settings
  BY <1>1 DEF ValidPolicy
<1>4. QED
  BY <1>2, <1>3

\* With an accepted configuration, and what it names built before it, only the
\* partner's credentials can put a constructor off.
LEMMA RefusalOverlooked ==
  ASSUME Accepted, BuiltInOrder, NEW c, Calling(c), Enabled(c), Refuses(c)
  PROVE  Overlooked
<1>1. Validate(settings, profile) /\ stage = "construct"
  BY DEF Accepted, Calling
<1>2. /\ ValidServers(settings, profile = "production") /\ ValidStores(settings)
      /\ ValidMessages(settings)
  BY <1>1 DEF Validate
<1>3. c # "migration" \/ ~MigrationRefuses
  BY <1>2, Switches DEF ValidStores, MigrationRefuses
<1>4. \A u \in GRPCUpstream : ~DialRefuses(u)
  <2>1. GRPCUpstream \subseteq Upstream
    BY DEF Upstream
  <2>2. QED
    BY <1>1, <2>1, CredentialsGuarded DEF DialRefuses
<1>5. CASE NewHTTPClientRefuses("partner")
  <2>1. "partner" \in Upstream
    BY DEF Upstream
  <2>2. "partner.auth" \in settings /\ "partner.insecure" \in settings
    BY <1>1, <1>5, <2>1, CredentialsGuarded, PartnerSwitches DEF NewHTTPClientRefuses
  <2>3. QED
    BY <2>2 DEF Overlooked
<1>6. c # "applications" \/ ~ApplicationsRefuse
  BY <1>2, Switches DEF ValidStores, ApplicationsRefuse
<1>7. c # "recorder" \/ ~RecorderRefuses
  <2>1. SUFFICES ASSUME c = "recorder" PROVE "bus" \in built
    BY DEF RecorderRefuses
  <2>2. position = 8
    <3>1. position + 1 \in 1..14 /\ Constructors[position + 1] = "recorder"
      BY <2>1, ConstructorPlaces DEF Calling, BuiltInOrder
    <3>2. \A i \in 1..14 : Constructors[i] = "recorder" => i = 9
      BY ConstructorPlaces
    <3>3. QED
      BY <3>1, <3>2 DEF BuiltInOrder
  <2>3. Enabled("bus")
    BY <1>2, <2>1, Switches DEF ValidMessages
  <2>4. QED
    BY <2>2, <2>3, ConstructorPlaces DEF BuiltInOrder
<1>8. c # "grpc" \/ ~ServerRefuses
  BY <1>2 DEF ValidServers, ServerRefuses
<1>9. QED
  BY <1>3, <1>4, <1>5, <1>6, <1>7, <1>8 DEF Refuses

-----------------------------------------------------------------------------
(* The steps.                                                              *)

\* LoadWithProfile: the rules of production are applied to the active profile.
LEMMA LoadStep == StartupInv /\ Load => StartupInv'
<1> SUFFICES ASSUME StartupInv, Load PROVE StartupInv'
  OBVIOUS
<1>1. /\ stage = "load" /\ position = 0 /\ built = {}
      /\ UNCHANGED <<built, position, outage>> /\ stage' \in {"construct", "refused"}
  BY DEF StartupInv, BuiltInOrder, Load
<1>2. stage' = "construct" => Validate(settings', profile')
  BY <1>1 DEF Load, AppEnv
<1>3. Accepted'
  BY <1>1, <1>2 DEF Accepted
<1>4. BuiltInOrder' /\ Launched' /\ AcceptedStarts'
  BY <1>1 DEF BuiltInOrder, Launched, AcceptedStarts
<1>5. QED
  BY <1>3, <1>4 DEF StartupInv

\* A constructor succeeds.
LEMMA ConstructStep == ASSUME StartupInv, NEW c, Construct(c) PROVE StartupInv'
<1>1. Accepted /\ BuiltInOrder
  BY DEF StartupInv
<1>2. /\ stage = "construct" /\ stage' = "construct" /\ position < 14
      /\ c = Constructors[position + 1] /\ position' = position + 1
      /\ built' = IF Enabled(c) THEN built \cup {c} ELSE built
      /\ settings' = settings /\ profile' = profile
  BY ConstructorPlaces DEF Construct, Calling
<1>3. Accepted'
  BY <1>1, <1>2 DEF Accepted
<1>4. \A i \in 1..position' : Enabled(Constructors[i]) => Constructors[i] \in built'
  <2>1. ASSUME NEW i \in 1..position', Enabled(Constructors[i])
        PROVE  Constructors[i] \in built'
    <3>1. CASE i = position + 1
      BY <1>2, <2>1, <3>1
    <3>2. CASE i \in 1..position
      BY <1>1, <1>2, <2>1, <3>2 DEF BuiltInOrder
    <3>3. QED
      BY <1>1, <1>2, <3>1, <3>2 DEF BuiltInOrder
  <2>2. QED
    BY <2>1
<1>5. \A x \in built' : Enabled(x)
  BY <1>1, <1>2 DEF BuiltInOrder
<1>6. BuiltInOrder'
  <2>1. position' \in 0..14
    BY <1>1, <1>2 DEF BuiltInOrder
  <2>2. Constructors' = Constructors
    BY DEF Constructors
  <2>3. QED
    BY <1>2, <1>4, <1>5, <2>1, <2>2 DEF BuiltInOrder, Enabled
<1>7. Launched' /\ AcceptedStarts'
  BY <1>2 DEF Launched, AcceptedStarts
<1>8. QED
  BY <1>3, <1>6, <1>7 DEF StartupInv

\* The process ends with the error of a constructor, or goes on to its hooks.
LEMMA EndOfConstruction ==
  ASSUME StartupInv, Launch \/ \E c : Refuse(c) \/ Fail(c)
  PROVE  StartupInv'
<1>1. Accepted /\ BuiltInOrder /\ Launched /\ AcceptedStarts
  BY DEF StartupInv
<1>2. /\ stage = "construct" /\ stage' \in {"aborted", "launched"}
      /\ UNCHANGED <<profile, settings, built, position>>
  BY DEF Launch, Refuse, Fail, Calling
<1>3. Accepted'
  BY <1>1, <1>2 DEF Accepted
<1>4. BuiltInOrder'
  BY <1>1, <1>2 DEF BuiltInOrder, Enabled, Constructors
<1>5. CASE Launch
  <2>1. position = 14 /\ stage' = IF NoRows THEN "aborted" ELSE "launched"
    BY <1>5, ConstructorPlaces DEF Launch
  <2>2. NoRows => Overlooked
    <3>1. ASSUME NoRows PROVE "cron" \in settings /\ "database" \notin settings
      <4>1. Constructors[3] = "database" /\ 3 \in 1..position
        BY <2>1, ConstructorPlaces
      <4>2. QED
        BY <1>1, <3>1, <4>1, Switches DEF NoRows, BuiltInOrder
    <3>2. QED
      BY <3>1 DEF Overlooked
  <2>3. NoRows' = NoRows /\ Overlooked' = Overlooked
    BY <1>2 DEF NoRows, Overlooked
  <2>4. QED
    BY <1>2, <1>3, <1>4, <2>1, <2>2, <2>3 DEF StartupInv, Launched, AcceptedStarts
<1>6. ASSUME NEW c, Refuse(c) PROVE StartupInv'
  <2>1. Calling(c) /\ Enabled(c) /\ Refuses(c) /\ stage' = "aborted"
    BY <1>6 DEF Refuse
  <2>2. Overlooked
    BY <1>1, <2>1, RefusalOverlooked
  <2>3. Overlooked'
    BY <1>2, <2>2 DEF Overlooked
  <2>4. QED
    BY <1>3, <1>4, <2>1, <2>3 DEF StartupInv, Launched, AcceptedStarts
<1>7. ASSUME NEW c, Fail(c) PROVE StartupInv'
  <2>1. stage' = "aborted" /\ outage'
    BY <1>7 DEF Fail
  <2>2. QED
    BY <1>3, <1>4, <2>1 DEF StartupInv, Launched, AcceptedStarts
<1>8. QED
  BY <1>5, <1>6, <1>7

\* Every step of the process preserves the invariant.
LEMMA StartupStep == StartupInv /\ [ProcessNext]_processVars => StartupInv'
<1> SUFFICES ASSUME StartupInv, [ProcessNext]_processVars PROVE StartupInv'
  OBVIOUS
<1>1. CASE StartupNext
  BY <1>1, LoadStep, ConstructStep, EndOfConstruction DEF StartupNext
<1>2. CASE HandOver
  <2>1. stage' = "running" /\ built' = {} /\ position' = 0
    BY <1>2 DEF HandOver
  <2>2. QED
    BY <2>1 DEF StartupInv, Accepted, BuiltInOrder, Launched, AcceptedStarts
<1>3. CASE UNCHANGED startupVars
  <2>1. UNCHANGED <<stage, profile, settings, built, position, outage>>
    BY <1>3 DEF startupVars
  <2>2. Accepted' /\ BuiltInOrder'
    BY <2>1 DEF StartupInv, Accepted, BuiltInOrder, Enabled, Constructors
  <2>3. Launched' /\ AcceptedStarts'
    BY <2>1 DEF StartupInv, Launched, NoRows, AcceptedStarts, Overlooked
  <2>4. QED
    BY <2>2, <2>3 DEF StartupInv
<1>4. QED
  BY <1>1, <1>2, <1>3 DEF ProcessNext, Live, processVars

-----------------------------------------------------------------------------
(* The theorems.                                                           *)

\* The inductive invariant of the startup: a process constructs, in order, what
\* an accepted configuration enables.
THEOREM StartupInvariant == ProcessSpec => []StartupInv
<1>1. ProcessInit => StartupInv
  <2> SUFFICES ASSUME ProcessInit PROVE StartupInv
    OBVIOUS
  <2>1. stage = "load" /\ built = {} /\ position = 0
    BY DEF ProcessInit, StartupInit
  <2>2. BuiltInOrder
    BY <2>1 DEF BuiltInOrder
  <2>3. Accepted /\ Launched /\ AcceptedStarts
    BY <2>1 DEF Accepted, Launched, AcceptedStarts
  <2>4. QED
    BY <2>2, <2>3 DEF StartupInv
<1>2. QED
  BY <1>1, StartupStep, PTL DEF ProcessSpec

\* A launched process has built whatever is enabled.
LEMMA EnabledIsBuilt ==
  ASSUME StartupInv, stage = "launched"
  PROVE  /\ Validate(settings, profile)
         /\ \A c \in DOMAIN Optional : Enabled(c) => c \in built
<1>1. position = 14 /\ Validate(settings, profile)
  BY DEF StartupInv, Accepted, Launched
<1>2. \A c \in DOMAIN Optional : \E i \in 1..14 : Constructors[i] = c
  BY Switches, ConstructorPlaces
<1>3. QED
  BY <1>1, <1>2 DEF StartupInv, BuiltInOrder

\* NewServer of either transport, Service.Verify: with a verifier a token signed
\* with jwt.secret opens nothing, and the open routes are the ones listed once
\* the documentation asks for a token.
LEMMA LocalTokenReach ==
  ASSUME "verifier" \in built, "swagger" \in settings => "swaggerAuth" \in settings
  PROVE  Reach({"localToken"}) \subseteq {"live", "ready", "metrics", "version", "health"}
<1> SUFFICES ASSUME NEW d \in Reach({"localToken"})
             PROVE  d \in {"live", "ready", "metrics", "version", "health"}
  OBVIOUS
<1>1. d \in Served /\ (d \in Open \/ "localToken" \in Opens(d))
  BY DEF Reach
<1>2. "localToken" \notin Opens(d)
  <2>1. Tokens = {"identityToken"}
    BY DEF Tokens
  <2>2. QED
    BY <2>1 DEF Opens
<1>3. d = "swagger" => "swagger" \in settings
  BY <1>1 DEF Served, HTTPRoutes, GRPCServices
<1>4. QED
  BY <1>1, <1>2, <1>3 DEF Open

\* LoadWithProfile, Validate (config.go:303), as the servers apply it: in
\* production who has no key that the identity service or the PSK stands for
\* reaches the open routes only, every operation is decided upon, gRPC is served
\* over TLS and without reflection, and the process' own credentials leave it
\* over TLS, whichever of flag, variable and files named the profile and whatever
\* the layers turned.
THEOREM ProductionIsGuardedHolds == ProcessSpec => []ProductionIsGuarded
<1>1. StartupInv => ProductionIsGuarded
  <2> SUFFICES ASSUME StartupInv, stage = "launched", profile = "production"
               PROVE  /\ Reach({"localToken"})
                           \subseteq {"live", "ready", "metrics", "version", "health"}
                      /\ Undecided = {}
                      /\ InPlain \subseteq HTTPRoutes
                      /\ "reflection" \notin Served
                      /\ Exposed = {}
    BY DEF ProductionIsGuarded
  <2>1. Validate(settings, "production")
    BY EnabledIsBuilt
  <2>2. ValidServers(settings, TRUE) /\ ValidAccess(settings, TRUE)
    BY <2>1 DEF Validate
  <2>3. "verifier" \in built
    BY <2>2, EnabledIsBuilt, Switches DEF ValidServers
  <2>4. Reach({"localToken"}) \subseteq {"live", "ready", "metrics", "version", "health"}
    BY <2>2, <2>3, LocalTokenReach DEF ValidAccess
  <2>5. Undecided = {}
    BY <2>2 DEF ValidAccess, Undecided
  <2>6. InPlain \subseteq HTTPRoutes
    BY <2>2 DEF ValidServers, InPlain, Served, GRPCServices
  <2>7. "reflection" \notin Served
    BY <2>2 DEF ValidServers, Served, HTTPRoutes, GRPCServices
  <2>8. Exposed = {}
    BY <2>1, CredentialsGuarded DEF Exposed
  <2>9. QED
    BY <2>4, <2>5, <2>6, <2>7, <2>8
<1>2. QED
  BY <1>1, StartupInvariant, PTL

\* newDatabase, newRedis, newBus, runStartupMigration (app.go:58): a process
\* comes to listen only with all its features standing on what they need.
THEOREM ServesEquippedHolds == ProcessSpec => []ServesEquipped
<1>1. StartupInv => ServesEquipped
  <2> SUFFICES ASSUME StartupInv, stage = "launched"
               PROVE  /\ \A c \in DOMAIN Optional : Enabled(c) => c \in built
                      /\ "cron" \in settings => "database" \in built
                      /\ settings \cap {"rateLimit", "idempotency"} # {} => "redis" \in built
                      /\ "opLog" \in settings => "bus" \in built
                      /\ "authorization" \in settings => "authorizer" \in settings
                      /\ "migration" \in built => "database" \in built
    BY DEF ServesEquipped
  <2>1. \A c \in DOMAIN Optional : Enabled(c) => c \in built
    BY EnabledIsBuilt
  <2>2. /\ ValidStores(settings) /\ ValidMessages(settings)
        /\ ValidAccess(settings, profile = "production")
    BY EnabledIsBuilt DEF Validate
  <2>3. /\ "database" \in settings => "database" \in built
        /\ "redis" \in settings => "redis" \in built
        /\ "bus" \in settings => "bus" \in built
    BY <2>1, Switches
  <2>4. "cron" \in settings => "database" \in built
    BY DEF StartupInv, Launched, NoRows
  <2>5. settings \cap {"rateLimit", "idempotency"} # {} => "redis" \in built
    BY <2>2, <2>3 DEF ValidStores, ValidMessages
  <2>6. /\ "opLog" \in settings => "bus" \in built
        /\ "authorization" \in settings => "authorizer" \in settings
    BY <2>2, <2>3 DEF ValidMessages, ValidAccess
  <2>7. "migration" \in built => "database" \in built
    BY <2>2, <2>3, Switches DEF ValidStores, StartupInv, BuiltInOrder
  <2>8. QED
    BY <2>1, <2>4, <2>5, <2>6, <2>7
<1>2. QED
  BY <1>1, StartupInvariant, PTL

\* Validate against the constructors (config.go:464): with everything outside in
\* order, what was accepted starts, but for the two exceptions.
THEOREM AcceptedStartsHolds == ProcessSpec => []AcceptedStarts
<1>1. StartupInv => AcceptedStarts
  BY DEF StartupInv
<1>2. QED
  BY <1>1, StartupInvariant, PTL

=============================================================================
