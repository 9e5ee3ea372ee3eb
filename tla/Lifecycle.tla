----------------------------- MODULE Lifecycle -----------------------------
(***************************************************************************)
(* The life of one process (internal/app): what its constructors opened is *)
(* there from the beginning; fx runs the start hooks in the order in which *)
(* the constructors appended them and the stop hooks in the opposite one,  *)
(* all under one context.  Hooks of servers and loops admit work and wait  *)
(* for it; hooks of connections close them.                                *)
(***************************************************************************)
EXTENDS Naturals, Sequences

CONSTANTS
  Work          \* requests, calls and runs that may be in progress at a time

VARIABLES
  phase,        \* starting, up, stopping or exited
  started,      \* fx: number of hooks started and not yet stopped
  waiting,      \* the stop hook at the head has been entered
  expired,      \* the context of the start or the stop has ended
  failed,       \* a start hook has failed
  open,         \* connections that are not closed
  admits,       \* what may begin: http, grpc, job
  loop,         \* the watch and clean goroutines
  cancelled,    \* the loops whose context is cancelled
  busy,         \* what each unit of work is, if anything
  abandoned     \* work in progress when the process exited

vars == <<phase, started, waiting, expired, failed, open, admits, loop,
          cancelled, busy, abandoned>>

-----------------------------------------------------------------------------

Resource == {"logger", "database", "tracing", "redis", "bus", "outbound", "verifier"}

Loop == {"watch", "clean"}

\* Mutation: the outbound registry is constructed after the runtime.
HooksOutboundLate ==
  <<"logger", "database", "tracing", "redis", "bus", "runtime", "outbound",
    "cleaner", "verifier", "grpc", "http">>

\* The order of the modules in app.New is the order in which their constructors
\* run, dependencies first.
Hooks ==
  <<"logger", "database", "tracing", "redis", "bus", "outbound", "runtime",
    "cleaner", "verifier", "grpc", "http">>

\* What work of a kind needs.
Uses(kind) ==
  IF kind = "none" THEN {}
  ELSE IF kind \in Loop THEN {"logger", "database", "tracing"}
  ELSE IF kind = "job" THEN Resource \ {"verifier", "bus"}
  ELSE Resource

Running(kind) == {w \in Work : busy[w] = kind}

InProgress == {w \in Work : busy[w] # "none"}

Init ==
  /\ phase = "starting" /\ started = 0 /\ waiting = FALSE
  /\ expired = FALSE /\ failed = FALSE
  /\ open = Resource
  /\ admits = {}
  /\ loop = [l \in Loop |-> "off"]
  /\ cancelled = {}
  /\ busy = [w \in Work |-> "none"]
  /\ abandoned = {}

-----------------------------------------------------------------------------
(* Starting.                                                               *)

Starting(hook) ==
  /\ phase = "starting" /\ ~expired
  /\ started < Len(Hooks) /\ Hooks[started + 1] = hook

Started ==
  /\ started' = started + 1
  /\ UNCHANGED <<phase, waiting, expired, failed, open, cancelled, busy, abandoned>>

\* fx: a failed start stops what has been started, under the same context.
StartFails ==
  /\ phase' = "stopping" /\ failed' = TRUE
  /\ UNCHANGED <<started, waiting, expired, open, admits, loop, cancelled, busy,
                 abandoned>>

StartResource ==
  /\ \E r \in Resource : Starting(r)
  /\ Started
  /\ UNCHANGED <<admits, loop>>

\* OnStart of the runtime: the first reload may fail; or cron is disabled.
StartRuntime ==
  /\ Starting("runtime")
  /\ \/ /\ admits' = admits \cup {"job"}
        /\ loop' = [loop EXCEPT !["watch"] = "idle"]
        /\ Started
     \/ Started /\ UNCHANGED <<admits, loop>>
     \/ StartFails

\* ExecutionCleaner.start, which cleans at once; disabled with the database.
StartCleaner ==
  /\ Starting("cleaner")
  /\ \/ loop' = [loop EXCEPT !["clean"] = "busy"]
     \/ UNCHANGED loop
  /\ Started
  /\ UNCHANGED admits

\* Server.start; gRPC may be disabled, the address in use.
StartGRPC ==
  /\ Starting("grpc")
  /\ \/ Started /\ admits' = admits \cup {"grpc"} /\ UNCHANGED loop
     \/ Started /\ UNCHANGED <<admits, loop>>
     \/ StartFails

StartHTTP ==
  /\ Starting("http")
  /\ \/ Started /\ admits' = admits \cup {"http"} /\ UNCHANGED loop
     \/ StartFails

\* The start context ends before the hooks are done.
StartExpires == phase = "starting" /\ expired /\ StartFails

Up ==
  /\ phase = "starting" /\ started = Len(Hooks)
  /\ phase' = "up" /\ expired' = FALSE
  /\ UNCHANGED <<started, waiting, failed, open, admits, loop, cancelled, busy,
                 abandoned>>

Expire ==
  /\ phase \in {"starting", "stopping"} /\ ~expired
  /\ expired' = TRUE
  /\ UNCHANGED <<phase, started, waiting, failed, open, admits, loop, cancelled,
                 busy, abandoned>>

-----------------------------------------------------------------------------
(* Work.                                                                   *)

BeginWork(w) ==
  /\ phase # "exited" /\ busy[w] = "none"
  /\ \E kind \in admits : busy' = [busy EXCEPT ![w] = kind]
  /\ UNCHANGED <<phase, started, waiting, expired, failed, open, admits, loop,
                 cancelled, abandoned>>

EndWork(w) ==
  /\ phase # "exited" /\ busy[w] # "none"
  /\ busy' = [busy EXCEPT ![w] = "none"]
  /\ UNCHANGED <<phase, started, waiting, expired, failed, open, admits, loop,
                 cancelled, abandoned>>

\* A select with several ready cases takes any of them: the loop may work once
\* more after it was cancelled.
Iterate(l) ==
  /\ phase # "exited"
  /\ \/ loop[l] = "idle" /\ loop' = [loop EXCEPT ![l] = "busy"]
     \/ loop[l] = "busy" /\ loop' = [loop EXCEPT ![l] = "idle"]
     \/ loop[l] = "idle" /\ l \in cancelled /\ loop' = [loop EXCEPT ![l] = "done"]
  /\ UNCHANGED <<phase, started, waiting, expired, failed, open, admits,
                 cancelled, busy, abandoned>>

-----------------------------------------------------------------------------
(* Stopping.                                                               *)

Signal ==
  /\ phase = "up"
  /\ phase' = "stopping"
  /\ UNCHANGED <<started, waiting, expired, failed, open, admits, loop, cancelled,
                 busy, abandoned>>

\* fx looks at the context before each hook.
Stopping(hook) ==
  /\ phase = "stopping" /\ started > 0 /\ Hooks[started] = hook
  /\ waiting \/ ~expired

\* The hook has begun to wait.
Enter ==
  /\ ~waiting /\ waiting' = TRUE
  /\ UNCHANGED <<phase, started, expired, failed, open, loop, busy, abandoned>>

\* The hook returns, with or without an error.
Stopped ==
  /\ waiting' = FALSE /\ started' = started - 1
  /\ UNCHANGED <<phase, expired, failed, admits, loop, cancelled, busy, abandoned>>

StopResource ==
  \E r \in Resource :
    /\ Stopping(r)
    /\ open' = open \ {r}
    /\ Stopped

\* http.Server.Shutdown and Server.stop (GracefulStop, then Stop): no new work,
\* wait for the work in progress or for the context.
StopServer ==
  \E s \in {"grpc", "http"} :
    /\ Stopping(s)
    /\ \/ Enter /\ admits' = admits \ {s} /\ UNCHANGED cancelled
       \/ /\ waiting
          /\ Running(s) = {} \/ expired
          /\ Stopped /\ UNCHANGED open

\* ExecutionCleaner.stop waits for the loop whatever the context says.
StopCleaner ==
  /\ Stopping("cleaner")
  /\ \/ Enter /\ cancelled' = cancelled \cup {"clean"} /\ UNCHANGED admits
     \/ /\ waiting
        /\ loop["clean"] \in {"off", "done"}
        /\ Stopped /\ UNCHANGED open

\* Mutation: Runtime.stop waits for the watch loop only.
StopRuntimeLoop ==
  /\ Stopping("runtime")
  /\ \/ Enter /\ cancelled' = cancelled \cup {"watch"} /\ admits' = admits \ {"job"}
     \/ /\ waiting
        /\ loop["watch"] \in {"off", "done"} \/ expired
        /\ Stopped /\ UNCHANGED open

\* Runtime.stop: cancel the watch loop, stop the runner, wait for both.
StopRuntime ==
  /\ Stopping("runtime")
  /\ \/ Enter /\ cancelled' = cancelled \cup {"watch"} /\ admits' = admits \ {"job"}
     \/ /\ waiting
        /\ \/ loop["watch"] \in {"off", "done"} /\ Running("job") = {}
           \/ expired
        /\ Stopped /\ UNCHANGED open

\* Mutation: the stop has no time limit.
ExitAfterHooks ==
  /\ phase = "stopping" /\ started = 0
  /\ phase' = "exited" /\ abandoned' = InProgress
  /\ UNCHANGED <<started, waiting, expired, failed, open, admits, loop, cancelled,
                 busy>>

\* fx.App.Run returns when the hooks are done, or when the context of the stop
\* has ended, even if a hook has not returned.
Exit ==
  /\ phase = "stopping"
  /\ started = 0 \/ expired
  /\ phase' = "exited" /\ abandoned' = InProgress
  /\ UNCHANGED <<started, waiting, expired, failed, open, admits, loop, cancelled,
                 busy>>

StartStep ==
  StartResource \/ StartRuntime \/ StartCleaner \/ StartGRPC \/ StartHTTP
    \/ StartExpires \/ Up

StopStep == StopResource \/ StopServer \/ StopCleaner \/ StopRuntime

Next ==
  \/ StartStep \/ StopStep \/ Expire \/ Signal \/ Exit
  \/ \E w \in Work : BeginWork(w) \/ EndWork(w)
  \/ \E l \in Loop : Iterate(l)

Spec == Init /\ [][Next]_vars

\* The hooks run and contexts end.  Work need not end.
FairSpec ==
  Spec /\ WF_vars(StartStep) /\ WF_vars(StopStep) /\ WF_vars(Expire) /\ WF_vars(Exit)

-----------------------------------------------------------------------------
(* Properties.                                                             *)

\* The types of the variables; a loop is cancelled only by its own stop hook.
TypeOK ==
  /\ phase \in {"starting", "up", "stopping", "exited"}
  /\ started \in 0..Len(Hooks)
  /\ waiting \in BOOLEAN /\ expired \in BOOLEAN /\ failed \in BOOLEAN
  /\ open \subseteq Resource
  /\ admits \subseteq {"http", "grpc", "job"}
  /\ loop \in [Loop -> {"off", "idle", "busy", "done"}]
  /\ cancelled \subseteq Loop
  /\ busy \in [Work -> {"none", "http", "grpc", "job"}]
  /\ abandoned \subseteq Work
  /\ cancelled # {} => phase \in {"stopping", "exited"}

\* app.New, the stop hooks: while a process lives, no connection is closed
\* under a request, a running job or a loop that uses it, in a shutdown, in a
\* shutdown that runs out of time and in the rollback of a failed start.
ResourcesOutliveUsers ==
  phase # "exited" =>
    /\ \A w \in Work : Uses(busy[w]) \subseteq open
    /\ \A l \in Loop : loop[l] = "busy" => Uses(l) \subseteq open

\* Runtime.stop, Server.stop: a process that exits before the context of its
\* stop ends has finished all work and, unless it never came up, closed all
\* connections.
OrderlyExit ==
  phase = "exited" /\ ~expired =>
    /\ abandoned = {}
    /\ failed \/ open = {}

\* app.New, fx.StopTimeout: a process that is told to stop, or fails to start,
\* exits, even if a job never ends.
StopEnds == phase = "stopping" ~> phase = "exited"

=============================================================================
