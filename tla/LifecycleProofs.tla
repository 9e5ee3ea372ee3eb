-------------------------- MODULE LifecycleProofs --------------------------
(***************************************************************************)
(* No connection is closed under its users, whatever amount of work is in  *)
(* progress when a process stops.                                          *)
(***************************************************************************)
EXTENDS Lifecycle, TLAPS

Kind == {"http", "grpc", "job", "watch", "clean"}

\* The hook that ends the work of a kind.
Rank(kind) ==
  IF kind = "http" THEN 11 ELSE IF kind = "grpc" THEN 10
  ELSE IF kind = "clean" THEN 8 ELSE 7

\* fx runs no further hook.
Halted ==
  \/ phase = "exited"
  \/ phase = "stopping" /\ expired /\ ~waiting

Alive(kind) ==
  \/ kind \notin Loop /\ \E w \in Work : busy[w] = kind
  \/ kind \in Loop /\ loop[kind] \in {"idle", "busy"}

\* Nothing is closed before the stop; then, whatever has been started and not
\* stopped is open.  Only a hook that admits work waits.
HooksOpen ==
  /\ phase \in {"starting", "up"} => open = Resource
  /\ \A i \in 1..started : Hooks[i] \in Resource => Hooks[i] \in open
  /\ waiting => /\ phase \in {"stopping", "exited"}
                /\ started > 0 /\ Hooks[started] \notin Resource

\* Work is admitted from the start of its hook until the hook stops.
AdmittedByHook ==
  \A kind \in admits :
    /\ started >= Rank(kind)
    /\ waiting => started # Rank(kind)

\* Work in progress keeps its hook from stopping, unless that was the last hook
\* to be run; in both cases what it uses is open.
AliveIsCovered ==
  \A kind \in Kind :
    Alive(kind) =>
      /\ Uses(kind) \subseteq open
      /\ started >= Rank(kind) \/ Halted

LifeInv == TypeOK /\ HooksOpen /\ AdmittedByHook /\ AliveIsCovered

-----------------------------------------------------------------------------

\* The hooks of app.New, by their place.
LEMMA HookPlaces ==
  /\ Len(Hooks) = 11
  /\ Hooks[1] = "logger" /\ Hooks[2] = "database" /\ Hooks[3] = "tracing"
  /\ Hooks[4] = "redis" /\ Hooks[5] = "bus" /\ Hooks[6] = "outbound"
  /\ Hooks[7] = "runtime" /\ Hooks[8] = "cleaner" /\ Hooks[9] = "verifier"
  /\ Hooks[10] = "grpc" /\ Hooks[11] = "http"
  BY DEF Hooks

\* No two constructors of app.New append the same hook.
LEMMA HooksDistinct ==
  \A i, j \in 1..11 : Hooks[i] = Hooks[j] => i = j
  BY HookPlaces

\* A kind's own hook is not that of a connection.
LEMMA RankPlaces ==
  \A kind \in Kind : Rank(kind) \in 7..11 /\ Hooks[Rank(kind)] \notin Resource
  BY HookPlaces DEF Kind, Rank, Resource

\* What a kind of work uses is started before the kind's own hook.
LEMMA UsesFirst ==
  ASSUME NEW kind \in Kind, NEW r \in Uses(kind)
  PROVE  r \in Resource /\ \E i \in 1..(Rank(kind) - 1) : Hooks[i] = r
<1>1. kind \in {"http", "grpc"} => Rank(kind) >= 10
  BY DEF Rank
<1>2. kind \in {"job", "watch", "clean"} => Rank(kind) >= 7
  BY DEF Rank
<1>3. Rank(kind) \in 7..11
  BY RankPlaces
<1>4. r \in Resource
  BY DEF Uses, Kind, Loop, Resource
<1>5. r = "verifier" => kind \in {"http", "grpc"}
  BY DEF Uses, Kind, Loop, Resource
<1> QED
  BY <1>1, <1>2, <1>3, <1>4, <1>5, HookPlaces DEF Kind, Resource

\* A hook that has been started has started all that its work uses.
LEMMA StartedCovers ==
  ASSUME LifeInv, NEW kind \in Kind, started >= Rank(kind)
  PROVE  Uses(kind) \subseteq open
<1> SUFFICES ASSUME NEW r \in Uses(kind) PROVE r \in open
  OBVIOUS
<1>1. PICK i \in 1..(Rank(kind) - 1) : Hooks[i] = r /\ r \in Resource
  BY UsesFirst
<1>2. i \in 1..started
  BY <1>1, RankPlaces, HookPlaces DEF LifeInv, TypeOK
<1> QED
  BY <1>1, <1>2 DEF LifeInv, HooksOpen

\* What is admitted and what is in progress are kinds of work.
LEMMA AdmittedKinds ==
  ASSUME LifeInv
  PROVE  admits \subseteq Kind /\ started \in 0..11
  BY HookPlaces DEF LifeInv, TypeOK, Kind

-----------------------------------------------------------------------------
(* Each kind of step.                                                      *)

\* OnStart of a connection, or of a loop or server that is disabled.
LEMMA StartedKeeps ==
  ASSUME LifeInv, phase = "starting", started < 11, Started,
         admits' \subseteq admits \cup {"job", "grpc", "http"},
         \A kind \in admits' \ admits : Rank(kind) = started + 1,
         loop' \in [Loop -> {"off", "idle", "busy", "done"}],
         \A l \in Loop : loop'[l] # loop[l] => Rank(l) = started + 1
  PROVE  LifeInv'
<1> USE HookPlaces, RankPlaces, AdmittedKinds
<1>1. TypeOK'
  BY DEF LifeInv, TypeOK, Started
<1>2. HooksOpen'
  BY DEF LifeInv, TypeOK, HooksOpen, Started, Resource
<1>3. waiting = FALSE /\ ~Halted
  BY DEF LifeInv, HooksOpen, TypeOK, Halted
<1>4. AdmittedByHook'
  BY <1>3 DEF LifeInv, TypeOK, AdmittedByHook, Started, Kind, Rank
<1>5. AliveIsCovered'
  <2> SUFFICES ASSUME NEW kind \in Kind, Alive(kind)'
               PROVE  started' >= Rank(kind) /\ Uses(kind) \subseteq open
    BY DEF AliveIsCovered, Started, Uses
  <2>1. Alive(kind) \/ Rank(kind) = started + 1
    BY DEF Alive, Started
  <2>2. started' >= Rank(kind)
    BY <2>1, <1>3 DEF LifeInv, AliveIsCovered, Started
  <2>3. Uses(kind) \subseteq Resource
    BY UsesFirst
  <2> QED
    BY <2>2, <2>3 DEF LifeInv, HooksOpen
<1> QED
  BY <1>1, <1>2, <1>4, <1>5 DEF LifeInv

\* The rollback of a start that failed.
LEMMA StartFailsKeeps ==
  ASSUME LifeInv, phase = "starting", StartFails
  PROVE  LifeInv'
<1>1. TypeOK'
  BY DEF LifeInv, TypeOK, StartFails
<1>2. HooksOpen' /\ AdmittedByHook'
  BY DEF LifeInv, HooksOpen, AdmittedByHook, StartFails, Resource, Hooks
<1>3. AliveIsCovered'
  <2> SUFFICES ASSUME NEW kind \in Kind, Alive(kind)'
               PROVE  started >= Rank(kind) /\ Uses(kind) \subseteq open
    BY DEF AliveIsCovered, StartFails, Uses
  <2>1. Alive(kind) /\ ~Halted
    BY DEF Alive, StartFails, Halted
  <2> QED
    BY <2>1 DEF LifeInv, AliveIsCovered
<1> QED
  BY <1>1, <1>2, <1>3 DEF LifeInv

\* A hook that returns keeps the types.
LEMMA StoppedTyped ==
  ASSUME LifeInv, phase = "stopping", started > 0, Stopped, open' \subseteq open
  PROVE  TypeOK'
<1>1. started' \in 0..Len(Hooks)
  BY HookPlaces DEF LifeInv, TypeOK, Stopped
<1>2. waiting' \in BOOLEAN /\ expired' \in BOOLEAN /\ failed' \in BOOLEAN
  BY Zenon DEF LifeInv, TypeOK, Stopped
<1>3. /\ open' \subseteq Resource
      /\ phase' \in {"starting", "up", "stopping", "exited"}
      /\ cancelled' # {} => phase' \in {"stopping", "exited"}
  BY DEF LifeInv, TypeOK, Stopped
<1>4. /\ admits' \subseteq {"http", "grpc", "job"}
      /\ loop' \in [Loop -> {"off", "idle", "busy", "done"}]
      /\ cancelled' \subseteq Loop
      /\ busy' \in [Work -> {"none", "http", "grpc", "job"}]
      /\ abandoned' \subseteq Work
  BY DEF LifeInv, TypeOK, Stopped
<1> QED
  BY <1>1, <1>2, <1>3, <1>4 DEF TypeOK

\* A stop hook that has begun to wait: it admits no more work of its kind.
LEMMA EnterKeeps ==
  ASSUME LifeInv, phase = "stopping", started > 0, Hooks[started] \notin Resource,
         ~expired, Enter, cancelled' \subseteq Loop, admits' \subseteq admits,
         \A kind \in admits' : started # Rank(kind)
  PROVE  LifeInv'
<1>1. TypeOK'
  BY DEF LifeInv, TypeOK, Enter
<1>2. HooksOpen' /\ AdmittedByHook'
  BY DEF LifeInv, HooksOpen, AdmittedByHook, Enter, Resource, Hooks
<1>3. AliveIsCovered'
  <2> SUFFICES ASSUME NEW kind \in Kind, Alive(kind)'
               PROVE  started >= Rank(kind) /\ Uses(kind) \subseteq open
    BY DEF AliveIsCovered, Enter, Uses
  <2>1. Alive(kind) /\ ~Halted
    BY DEF Alive, Enter, Halted
  <2> QED
    BY <2>1 DEF LifeInv, AliveIsCovered
<1> QED
  BY <1>1, <1>2, <1>3 DEF LifeInv

\* A stop hook that returns, its work done or its context over, closes nothing.
LEMMA WaitedKeeps ==
  ASSUME LifeInv, phase = "stopping", started > 0, waiting,
         Stopped, open' = open,
         expired \/ \A kind \in Kind : Alive(kind) => Rank(kind) # started
  PROVE  LifeInv'
<1> USE RankPlaces, AdmittedKinds, HookPlaces
<1>1. TypeOK'
  BY StoppedTyped
<1>2. HooksOpen'
  BY DEF LifeInv, HooksOpen, Stopped, Resource, Hooks
<1>3. AdmittedByHook'
  BY DEF LifeInv, AdmittedByHook, Stopped
<1>4. AliveIsCovered'
  <2> SUFFICES ASSUME NEW kind \in Kind, Alive(kind)'
               PROVE  /\ Uses(kind) \subseteq open
                      /\ started' >= Rank(kind) \/ Halted'
    BY DEF AliveIsCovered, Uses
  <2>1. Alive(kind) /\ ~Halted
    BY DEF Alive, Stopped, Halted
  <2>2. started >= Rank(kind) /\ Uses(kind) \subseteq open
    BY <2>1 DEF LifeInv, AliveIsCovered
  <2>3. CASE expired
    BY <2>2, <2>3 DEF Stopped, Halted
  <2>4. CASE Rank(kind) # started
    BY <2>2, <2>4 DEF Stopped
  <2> QED
    BY <2>1, <2>3, <2>4
<1> QED
  BY <1>1, <1>2, <1>3, <1>4 DEF LifeInv

\* The stop hook of a connection runs only when all that uses it has ended.
LEMMA StopResourceKeeps ==
  ASSUME LifeInv, StopResource
  PROVE  LifeInv'
<1> USE RankPlaces, AdmittedKinds, HookPlaces
<1>1. PICK r \in Resource : Stopping(r) /\ open' = open \ {r} /\ Stopped
  BY DEF StopResource
<1>2. phase = "stopping" /\ started \in 1..11 /\ r = Hooks[started]
  BY <1>1 DEF Stopping
<1>3. ~waiting /\ ~expired
  BY <1>1, <1>2 DEF LifeInv, HooksOpen, Stopping
<1>4. TypeOK'
  BY <1>1, <1>2, StoppedTyped
<1>5. HooksOpen'
  BY <1>1, <1>2, HooksDistinct DEF LifeInv, HooksOpen, Stopped, Resource, Hooks
<1>6. \A kind \in Kind : started # Rank(kind)
  BY <1>2
<1>7. AdmittedByHook'
  BY <1>1, <1>2, <1>6 DEF LifeInv, AdmittedByHook, Stopped
<1>8. AliveIsCovered'
  <2> SUFFICES ASSUME NEW kind \in Kind, Alive(kind)'
               PROVE  /\ Uses(kind) \subseteq open'
                      /\ started' >= Rank(kind)
    BY DEF AliveIsCovered, Uses
  <2>1. Alive(kind) /\ ~Halted
    BY <1>1, <1>2, <1>3 DEF Alive, Stopped, Halted
  <2>2. started >= Rank(kind) /\ Uses(kind) \subseteq open
    BY <2>1 DEF LifeInv, AliveIsCovered
  <2>3. r \notin Uses(kind)
    BY <1>2, <2>2, UsesFirst, HooksDistinct
  <2> QED
    BY <1>1, <1>2, <1>6, <2>2, <2>3 DEF Stopped
<1> QED
  BY <1>4, <1>5, <1>7, <1>8 DEF LifeInv

-----------------------------------------------------------------------------
(* The steps of the specification.                                         *)

\* The start hooks keep the invariant.
LEMMA StartStepKeeps ==
  ASSUME LifeInv, StartStep
  PROVE  LifeInv'
<1> USE HookPlaces, AdmittedKinds
<1>t. loop \in [Loop -> {"off", "idle", "busy", "done"}]
  BY DEF LifeInv, TypeOK
<1>1. CASE StartResource
  BY <1>1, <1>t, StartedKeeps DEF StartResource, Starting
<1>2. CASE StartRuntime
  <2>1. phase = "starting" /\ started = 6
    BY <1>2 DEF StartRuntime, Starting
  <2>2. CASE StartFails
    BY <2>1, <2>2, StartFailsKeeps
  <2>3. CASE Started /\ admits' = admits \cup {"job"}
             /\ loop' = [loop EXCEPT !["watch"] = "idle"]
    BY <2>1, <2>3, <1>t, StartedKeeps DEF Rank, Loop
  <2>4. CASE Started /\ UNCHANGED <<admits, loop>>
    BY <2>1, <2>4, <1>t, StartedKeeps
  <2> QED
    BY <1>2, <2>2, <2>3, <2>4 DEF StartRuntime
<1>3. CASE StartCleaner
  <2>1. phase = "starting" /\ started = 7 /\ Started /\ admits' = admits
    BY <1>3 DEF StartCleaner, Starting
  <2>2. CASE loop' = [loop EXCEPT !["clean"] = "busy"]
    BY <2>1, <2>2, <1>t, StartedKeeps DEF Rank, Loop
  <2>3. CASE loop' = loop
    BY <2>1, <2>3, <1>t, StartedKeeps
  <2> QED
    BY <1>3, <2>2, <2>3 DEF StartCleaner
<1>4. CASE StartGRPC
  <2>1. phase = "starting" /\ started = 9
    BY <1>4 DEF StartGRPC, Starting
  <2>2. CASE StartFails
    BY <2>1, <2>2, StartFailsKeeps
  <2>3. CASE Started /\ admits' \in {admits, admits \cup {"grpc"}} /\ loop' = loop
    BY <2>1, <2>3, <1>t, StartedKeeps DEF Rank
  <2> QED
    BY <1>4, <2>2, <2>3 DEF StartGRPC
<1>5. CASE StartHTTP
  <2>1. phase = "starting" /\ started = 10
    BY <1>5 DEF StartHTTP, Starting
  <2>2. CASE StartFails
    BY <2>1, <2>2, StartFailsKeeps
  <2>3. CASE Started /\ admits' = admits \cup {"http"} /\ loop' = loop
    BY <2>1, <2>3, <1>t, StartedKeeps DEF Rank
  <2> QED
    BY <1>5, <2>2, <2>3 DEF StartHTTP
<1>6. CASE StartExpires
  BY <1>6, StartFailsKeeps DEF StartExpires
<1>7. CASE Up
  <2>1. TypeOK'
    BY <1>7 DEF Up, LifeInv, TypeOK
  <2>2. HooksOpen' /\ AdmittedByHook'
    BY <1>7 DEF Up, LifeInv, HooksOpen, AdmittedByHook, Resource, Hooks
  <2>3. AliveIsCovered'
    BY <1>7 DEF Up, LifeInv, AliveIsCovered, Alive, Halted, Uses, Rank
  <2> QED
    BY <2>1, <2>2, <2>3 DEF LifeInv
<1> QED
  BY <1>1, <1>2, <1>3, <1>4, <1>5, <1>6, <1>7 DEF StartStep

\* The stop hooks keep the invariant.
LEMMA StopStepKeeps ==
  ASSUME LifeInv, StopStep
  PROVE  LifeInv'
<1> USE HookPlaces, AdmittedKinds
<1>t. waiting \in BOOLEAN /\ cancelled \subseteq Loop
  BY DEF LifeInv, TypeOK
<1>1. CASE StopResource
  BY <1>1, StopResourceKeeps
<1>2. CASE StopServer
  <2>1. PICK s \in {"grpc", "http"} :
          /\ Stopping(s)
          /\ \/ Enter /\ admits' = admits \ {s} /\ UNCHANGED cancelled
             \/ waiting /\ (Running(s) = {} \/ expired) /\ Stopped /\ UNCHANGED open
    BY <1>2 DEF StopServer
  <2>2. /\ phase = "stopping" /\ started > 0 /\ (waiting \/ ~expired)
        /\ Hooks[started] = s /\ started \in {10, 11}
    BY <2>1 DEF Stopping
  <2>3. \A kind \in Kind : Rank(kind) = started => kind = s
    BY <2>2 DEF Rank, Kind
  <2>4. CASE Enter /\ admits' = admits \ {s} /\ UNCHANGED cancelled
    BY <2>2, <2>3, <2>4, <1>t, EnterKeeps DEF Enter, Resource
  <2>5. CASE waiting /\ (Running(s) = {} \/ expired) /\ Stopped /\ UNCHANGED open
    BY <2>1, <2>2, <2>3, <2>5, WaitedKeeps DEF Running, Alive, Loop
  <2> QED
    BY <2>1, <2>4, <2>5
<1>3. CASE StopCleaner
  <2>1. phase = "stopping" /\ started = 8 /\ (waiting \/ ~expired)
    BY <1>3 DEF StopCleaner, Stopping
  <2>2. \A kind \in Kind : Rank(kind) = started => kind = "clean"
    BY <2>1 DEF Rank, Kind
  <2>3. CASE Enter /\ cancelled' = cancelled \cup {"clean"} /\ UNCHANGED admits
    <3>1. \A kind \in admits' : started # Rank(kind)
      BY <2>2, <2>3 DEF LifeInv, TypeOK
    <3> QED
      BY <2>1, <2>3, <3>1, <1>t, EnterKeeps DEF Enter, Resource, Loop
  <2>4. CASE waiting /\ loop["clean"] \in {"off", "done"} /\ Stopped /\ UNCHANGED open
    BY <2>1, <2>2, <2>4, WaitedKeeps DEF Alive, Loop
  <2> QED
    BY <1>3, <2>3, <2>4 DEF StopCleaner
<1>4. CASE StopRuntime
  <2>1. phase = "stopping" /\ started = 7 /\ (waiting \/ ~expired)
    BY <1>4 DEF StopRuntime, Stopping
  <2>2. \A kind \in Kind : Rank(kind) = started => kind \in {"watch", "job"}
    BY <2>1 DEF Rank, Kind
  <2>3. CASE Enter /\ cancelled' = cancelled \cup {"watch"}
             /\ admits' = admits \ {"job"}
    <3>1. \A kind \in admits' : started # Rank(kind)
      BY <2>2, <2>3 DEF LifeInv, TypeOK
    <3> QED
      BY <2>1, <2>3, <3>1, <1>t, EnterKeeps DEF Enter, Resource, Loop
  <2>4. CASE /\ waiting
             /\ \/ loop["watch"] \in {"off", "done"} /\ Running("job") = {}
                \/ expired
             /\ Stopped /\ UNCHANGED open
    BY <2>1, <2>2, <2>4, WaitedKeeps DEF Running, Alive, Loop
  <2> QED
    BY <1>4, <2>3, <2>4 DEF StopRuntime
<1> QED
  BY <1>1, <1>2, <1>3, <1>4 DEF StopStep

\* Work begins only where its hook is started, and so where what it uses is open.
LEMMA WorkKeeps ==
  ASSUME LifeInv, NEW w \in Work, BeginWork(w) \/ EndWork(w)
  PROVE  LifeInv'
<1> USE AdmittedKinds
<1>1. TypeOK'
  BY DEF LifeInv, TypeOK, BeginWork, EndWork
<1>2. HooksOpen' /\ AdmittedByHook'
  BY DEF LifeInv, HooksOpen, AdmittedByHook, BeginWork, EndWork, Resource, Hooks
<1>3. AliveIsCovered'
  <2> SUFFICES ASSUME NEW kind \in Kind, Alive(kind)'
               PROVE  /\ Uses(kind) \subseteq open
                      /\ started >= Rank(kind) \/ Halted
    BY DEF AliveIsCovered, BeginWork, EndWork, Uses, Halted
  <2>1. Alive(kind) \/ kind \in admits
    BY DEF Alive, BeginWork, EndWork, LifeInv, TypeOK, Loop, Kind
  <2>2. CASE Alive(kind)
    BY <2>2 DEF LifeInv, AliveIsCovered
  <2>3. CASE kind \in admits
    BY <2>3, StartedCovers DEF LifeInv, AdmittedByHook
  <2> QED
    BY <2>1, <2>2, <2>3
<1> QED
  BY <1>1, <1>2, <1>3 DEF LifeInv

\* A loop that works was not done before.
LEMMA IterateKeeps ==
  ASSUME LifeInv, NEW l \in Loop, Iterate(l)
  PROVE  LifeInv'
<1>1. TypeOK'
  BY DEF LifeInv, TypeOK, Iterate
<1>2. HooksOpen' /\ AdmittedByHook'
  BY DEF LifeInv, HooksOpen, AdmittedByHook, Iterate, Resource, Hooks
<1>3. AliveIsCovered'
  <2> SUFFICES ASSUME NEW kind \in Kind, Alive(kind)'
               PROVE  /\ Uses(kind) \subseteq open
                      /\ started >= Rank(kind) \/ Halted
    BY DEF AliveIsCovered, Iterate, Uses, Halted
  <2>1. Alive(kind)
    BY DEF Alive, Iterate, LifeInv, TypeOK, Loop, Kind
  <2> QED
    BY <2>1 DEF LifeInv, AliveIsCovered
<1> QED
  BY <1>1, <1>2, <1>3 DEF LifeInv

\* The signal, the exit and the end of a context close nothing.
LEMMA PhaseKeeps ==
  ASSUME LifeInv, Expire \/ Signal \/ Exit \/ UNCHANGED vars
  PROVE  LifeInv'
<1>1. TypeOK'
  BY DEF LifeInv, TypeOK, Expire, Signal, Exit, vars, InProgress
<1>2. HooksOpen' /\ AdmittedByHook'
  BY DEF LifeInv, HooksOpen, AdmittedByHook, Expire, Signal, Exit, vars, Resource,
         Hooks
<1>3. AliveIsCovered'
  <2> SUFFICES ASSUME NEW kind \in Kind, Alive(kind)'
               PROVE  /\ Uses(kind) \subseteq open
                      /\ started >= Rank(kind) \/ Halted'
    BY DEF AliveIsCovered, Expire, Signal, Exit, vars, Uses
  <2>1. Alive(kind)
    BY DEF Alive, Expire, Signal, Exit, vars
  <2>2. Halted => Halted'
    BY DEF Halted, Expire, Signal, Exit, vars
  <2> QED
    BY <2>1, <2>2 DEF LifeInv, AliveIsCovered
<1> QED
  BY <1>1, <1>2, <1>3 DEF LifeInv

-----------------------------------------------------------------------------

\* The inductive invariant of a process's life: the hooks of app.New are started
\* and stopped around what they admit.
THEOREM LifeInvariant == Spec => []LifeInv
<1>1. Init => LifeInv
  <2> SUFFICES ASSUME Init PROVE LifeInv
    OBVIOUS
  <2>1. TypeOK
    <3>1. started \in 0..Len(Hooks)
      BY HookPlaces DEF Init
    <3>2. waiting \in BOOLEAN /\ expired \in BOOLEAN /\ failed \in BOOLEAN
      BY Zenon DEF Init
    <3> QED
      BY <3>1, <3>2 DEF Init, TypeOK
  <2>2. HooksOpen /\ AdmittedByHook
    BY DEF Init, HooksOpen, AdmittedByHook
  <2>3. AliveIsCovered
    BY DEF Init, AliveIsCovered, Alive, Kind, Loop
  <2> QED
    BY <2>1, <2>2, <2>3 DEF LifeInv
<1>2. LifeInv /\ [Next]_vars => LifeInv'
  BY StartStepKeeps, StopStepKeeps, WorkKeeps, IterateKeeps, PhaseKeeps DEF Next
<1> QED
  BY <1>1, <1>2, PTL DEF Spec

\* app.New, the stop hooks: no connection is closed under a request, a running
\* job or a loop that uses it, for any amount of work and wherever the start
\* fails or the time of the stop runs out.
THEOREM ResourcesOutliveUsersHolds == Spec => []ResourcesOutliveUsers
<1>1. LifeInv => ResourcesOutliveUsers
  <2> SUFFICES ASSUME LifeInv
               PROVE  /\ \A w \in Work : Uses(busy[w]) \subseteq open
                      /\ \A l \in Loop : loop[l] = "busy" => Uses(l) \subseteq open
    BY DEF ResourcesOutliveUsers
  <2>1. ASSUME NEW w \in Work PROVE Uses(busy[w]) \subseteq open
    <3>1. CASE busy[w] = "none"
      BY <3>1 DEF Uses
    <3>2. CASE busy[w] \in {"http", "grpc", "job"}
      <4>1. busy[w] \in Kind /\ Alive(busy[w])
        BY <3>2 DEF Kind, Alive, Loop
      <4> QED
        BY <4>1 DEF LifeInv, AliveIsCovered
    <3> QED
      BY <3>1, <3>2 DEF LifeInv, TypeOK
  <2>2. ASSUME NEW l \in Loop, loop[l] = "busy" PROVE Uses(l) \subseteq open
    <3>1. l \in Kind /\ Alive(l)
      BY <2>2 DEF Kind, Alive, Loop
    <3> QED
      BY <3>1 DEF LifeInv, AliveIsCovered
  <2> QED
    BY <2>1, <2>2
<1> QED
  BY <1>1, LifeInvariant, PTL

-----------------------------------------------------------------------------
(* What is left when a process exits.                                      *)

\* What is open after the start belongs to a hook that has yet to stop.
OpenIsStarted ==
  phase # "starting" /\ ~failed =>
    \A r \in open : \E i \in 1..started : Hooks[i] = r

OrderlyInv == LifeInv /\ OpenIsStarted /\ OrderlyExit

\* With all hooks stopped and time left nothing is in progress.
LEMMA StoppedIsIdle ==
  ASSUME LifeInv, phase = "stopping", ~expired, started = 0
  PROVE  InProgress = {}
<1> SUFFICES ASSUME NEW w \in Work, busy[w] # "none" PROVE FALSE
  BY DEF InProgress
<1>1. busy[w] \in Kind /\ Alive(busy[w])
  BY DEF LifeInv, TypeOK, Kind, Alive, Loop
<1>2. started >= Rank(busy[w]) \/ Halted
  BY <1>1 DEF LifeInv, AliveIsCovered
<1> QED
  BY <1>1, <1>2, RankPlaces DEF Halted

\* A stop hook closes its connection when it counts down, a start hook opens
\* nothing that the constructors have not opened.
LEMMA OpenKept ==
  ASSUME OrderlyInv, [Next]_vars
  PROVE  OpenIsStarted'
<1> USE HookPlaces
<1>0. LifeInv /\ OpenIsStarted /\ started \in 0..11
  BY AdmittedKinds DEF OrderlyInv
<1>1. CASE StartStep
  <2>1. CASE phase' = "starting" \/ failed'
    BY <2>1 DEF OpenIsStarted
  <2>2. CASE Up
    <3>1. started' = 11 /\ open' = Resource
      BY <1>0, <2>2 DEF Up, LifeInv, TypeOK, HooksOpen
    <3>2. \A r \in Resource : \E i \in 1..11 : Hooks[i] = r
      BY DEF Resource
    <3> QED
      BY <3>1, <3>2 DEF OpenIsStarted, Hooks
  <2>3. CASE StartResource \/ StartRuntime \/ StartCleaner \/ StartGRPC \/ StartHTTP
    BY <2>1, <2>3 DEF StartResource, StartRuntime, StartCleaner, StartGRPC, StartHTTP,
                      Starting, Started, StartFails
  <2>4. CASE StartExpires
    BY <2>1, <2>4 DEF StartExpires, StartFails
  <2> QED
    BY <1>1, <2>2, <2>3, <2>4 DEF StartStep
<1>2. CASE StopResource
  <2>1. PICK r \in Resource : Stopping(r) /\ open' = open \ {r} /\ Stopped
    BY <1>2 DEF StopResource
  <2>2. ASSUME NEW x \in open', phase' # "starting", ~failed'
        PROVE  \E i \in 1..started' : Hooks[i] = x
    <3>1. PICK i \in 1..started : Hooks[i] = x
      BY <1>0, <2>1, <2>2 DEF Stopping, Stopped, OpenIsStarted
    <3>2. i # started
      BY <2>1, <2>2, <3>1 DEF Stopping
    <3> QED
      BY <1>0, <2>1, <3>1, <3>2 DEF Stopped
  <2> QED
    BY <2>2 DEF OpenIsStarted, Hooks
<1>3. CASE /\ UNCHANGED <<started, open, failed>>
           /\ phase' = phase \/ phase # "starting"
  BY <1>0, <1>3 DEF OpenIsStarted, Hooks
<1>4. CASE StopServer \/ StopCleaner \/ StopRuntime
  <2>1. /\ phase = "stopping" /\ started \in 1..11 /\ Hooks[started] \notin Resource
        /\ Enter \/ (Stopped /\ UNCHANGED open)
    BY <1>0, <1>4 DEF StopServer, StopCleaner, StopRuntime, Stopping, Resource
  <2>2. CASE Enter
    BY <1>3, <2>1, <2>2 DEF Enter
  <2>3. CASE Stopped /\ UNCHANGED open
    <3>1. ASSUME NEW x \in open', ~failed'
          PROVE  \E i \in 1..started' : Hooks[i] = x
      <4>1. PICK i \in 1..started : Hooks[i] = x
        BY <1>0, <2>1, <2>3, <3>1 DEF Stopped, OpenIsStarted
      <4>2. x \in Resource
        BY <1>0, <2>3, <3>1 DEF LifeInv, TypeOK
      <4> QED
        BY <2>1, <2>3, <4>1, <4>2 DEF Stopped
    <3> QED
      BY <3>1 DEF OpenIsStarted, Hooks
  <2> QED
    BY <2>1, <2>2, <2>3
<1>5. CASE Expire \/ Signal \/ Exit \/ UNCHANGED vars
  BY <1>3, <1>5 DEF Expire, Signal, Exit, vars
<1>6. ASSUME NEW w \in Work, BeginWork(w) \/ EndWork(w) PROVE OpenIsStarted'
  BY <1>3, <1>6 DEF BeginWork, EndWork
<1>7. ASSUME NEW l \in Loop, Iterate(l) PROVE OpenIsStarted'
  BY <1>3, <1>7 DEF Iterate
<1> QED
  BY <1>1, <1>2, <1>4, <1>5, <1>6, <1>7 DEF Next, StopStep

\* Only Exit ends a process, and after it nothing happens.
LEMMA ExitIsOrderly ==
  ASSUME OrderlyInv, [Next]_vars
  PROVE  OrderlyExit'
<1>1. LifeInv /\ OpenIsStarted /\ OrderlyExit
  BY DEF OrderlyInv
<1>2. CASE Exit
  <2>1. CASE expired
    BY <1>2, <2>1 DEF Exit, OrderlyExit
  <2>2. CASE ~expired
    <3>1. phase = "stopping" /\ started = 0 /\ abandoned' = InProgress
          /\ open' = open /\ failed' = failed
      BY <1>2, <2>2 DEF Exit
    <3>2. InProgress = {}
      BY <1>1, <2>2, <3>1, StoppedIsIdle
    <3>3. failed \/ open = {}
      BY <1>1, <3>1 DEF OpenIsStarted
    <3> QED
      BY <3>1, <3>2, <3>3 DEF OrderlyExit
  <2> QED
    BY <2>1, <2>2
<1>3. CASE phase' # "exited"
  BY <1>3 DEF OrderlyExit
<1>4. CASE UNCHANGED vars
  BY <1>1, <1>4 DEF OrderlyExit, vars
<1>5. CASE Next /\ ~Exit
  <2>1. phase # "exited"
    BY <1>5 DEF Next, StartStep, StopStep, StartResource, StartRuntime, StartCleaner,
                StartGRPC, StartHTTP, StartExpires, Up, StopResource, StopServer,
                StopCleaner, StopRuntime, Starting, Stopping, Expire, Signal, BeginWork,
                EndWork, Iterate
  <2>2. phase' # "exited"
    BY <1>5, <2>1
       DEF Next, StartStep, StopStep, StartResource, StartRuntime, StartCleaner,
           StartGRPC, StartHTTP, StartExpires, Started, StartFails, Up, StopResource,
           StopServer, StopCleaner, StopRuntime, Enter, Stopped, Expire, Signal,
           BeginWork, EndWork, Iterate
  <2> QED
    BY <1>3, <2>2
<1> QED
  BY <1>2, <1>4, <1>5

\* Runtime.stop, Server.stop: a process that exits before the context of its
\* stop ends has finished all work and, unless it never came up, closed all
\* connections, for any amount of work.
THEOREM OrderlyExitHolds == Spec => []OrderlyExit
<1>1. Init => OpenIsStarted /\ OrderlyExit
  BY DEF Init, OpenIsStarted, OrderlyExit
<1>2. LifeInv /\ LifeInv' /\ OpenIsStarted /\ OrderlyExit /\ [Next]_vars
        => OpenIsStarted' /\ OrderlyExit'
  BY OpenKept, ExitIsOrderly DEF OrderlyInv
<1> QED
  BY <1>1, <1>2, LifeInvariant, PTL DEF Spec

=============================================================================
