-------------------------- MODULE SchedulerRuntime --------------------------
(***************************************************************************)
(* job.Runtime (internal/job/runtime.go): how each replica turns the table *)
(* of jobs into entries of its cron runner.  The watch loop reloads all    *)
(* entries when the local Service signals a change and every 30 seconds;   *)
(* a reload lists the enabled jobs, removes every entry and adds them      *)
(* again, in the order of their ids, until AddFunc rejects one.            *)
(*                                                                         *)
(* Time passes in cron ticks.  An entry is a timer: left counts the ticks  *)
(* until it is due.  What a firing does is the subject of JobExecution.    *)
(***************************************************************************)
EXTENDS JobStore, FiniteSets

CONSTANTS
  Replica,
  CronDef,      \* definitions with a six-field cron expression
  EveryDef,     \* definitions with an @every expression
  PoisonDef,    \* expressions that carry a CRON_TZ= prefix of their own
  Period,       \* a cron definition is due when the clock is a multiple of it
  Delay,        \* the duration of an @every definition
  Interval,     \* the 30 seconds of the watch loop's ticker
  MaxWrites,    \* bound: how often the table is written
  Restarts      \* whether replicas stop, crash and start again

ASSUME RuntimeAssumption ==
  /\ Definition = CronDef \cup EveryDef \cup PoisonDef
  /\ CronDef \cap EveryDef = {}
  /\ JobID \subseteq Nat
  /\ Period \in Nat \ {0} /\ Delay \in Nat \ {0} /\ Interval \in Nat \ {0}
  /\ MaxWrites \in Nat
  /\ Restarts \in BOOLEAN

VARIABLES
  clock,       \* the time, modulo Period
  life,        \* each replica: down, starting, up or stopping
  changed,     \* the Service's channel of capacity one holds a signal
  unsignalled, \* local writes that have committed and not yet signalled
  ticker,      \* ticks until the watch loop's ticker sends
  ticked,      \* the ticker's channel of capacity one holds a tick
  watch,       \* where the watch loop (or the reload of OnStart) stands
  listed,      \* the rows ListEnabled returned to the reload in progress
  entry,       \* entry[r][j]: the row captured by the cron entry, or NoRow
  left,        \* left[r][j]: ticks until the entry is due
  missed       \* history: a local write has committed since the last listing
               \* that succeeded, and no reload has failed since

vars == <<jobs, clock, life, changed, unsignalled, ticker, ticked, watch,
          listed, entry, left, missed>>

-----------------------------------------------------------------------------

NoRows == [j \in JobID |-> NoRow]

Init ==
  /\ jobs = NoRows
  /\ clock = 0
  /\ life = [r \in Replica |-> "down"]
  /\ changed = [r \in Replica |-> FALSE]
  /\ unsignalled = [r \in Replica |-> 0]
  /\ ticker = [r \in Replica |-> Interval]
  /\ ticked = [r \in Replica |-> FALSE]
  /\ watch = [r \in Replica |-> "off"]
  /\ listed = [r \in Replica |-> NoRows]
  /\ entry = [r \in Replica |-> NoRows]
  /\ left = [r \in Replica |-> [j \in JobID |-> 0]]
  /\ missed = [r \in Replica |-> FALSE]

\* ConstantDelaySchedule counts from the moment it is asked; a cron expression
\* names absolute times.
Wait(d) == IF d \in EveryDef THEN Delay ELSE Period - clock

-----------------------------------------------------------------------------
(* Writes on a replica, and their signal.                                  *)

\* Every write so far has left a version behind.
Writes == {w \in JobID \X (1..MaxVersion) : w[2] <= jobs[w[1]].version}

\* Create, Update or Delete commits.  When the commit reports an error though
\* it took effect, the service returns without a signal.
Write(r, j) ==
  /\ life[r] = "up"
  /\ jobs[j].version < MaxVersion
  /\ Cardinality(Writes) < MaxWrites
  /\ \/ \E d \in Definition, s \in Status :
          \/ CreateJob(j, d, s)
          \/ UpdateJob(j, jobs[j].version, d, s)
     \/ DeleteJob(j, jobs[j].version)
  /\ \/ /\ unsignalled' = [unsignalled EXCEPT ![r] = @ + 1]
        /\ missed' = [missed EXCEPT ![r] = TRUE]
     \/ UNCHANGED <<unsignalled, missed>>
  /\ UNCHANGED <<clock, life, changed, ticker, ticked, watch, listed, entry,
                 left>>

\* Mutation: a channel without a buffer, which only a loop that waits hears.
SignalUnbuffered(r) ==
  /\ unsignalled[r] > 0
  /\ unsignalled' = [unsignalled EXCEPT ![r] = @ - 1]
  /\ changed' = [changed EXCEPT ![r] = @ \/ watch[r] = "idle"]
  /\ UNCHANGED <<jobs, clock, life, ticker, ticked, watch, listed, entry, left,
                 missed>>

\* signalChanged never blocks: a signal that is already there is enough.
SignalChanged(r) ==
  /\ unsignalled[r] > 0
  /\ unsignalled' = [unsignalled EXCEPT ![r] = @ - 1]
  /\ changed' = [changed EXCEPT ![r] = TRUE]
  /\ UNCHANGED <<jobs, clock, life, ticker, ticked, watch, listed, entry, left,
                 missed>>

-----------------------------------------------------------------------------
(* The watch loop.                                                         *)

\* Mutation: the loop has no ticker.
ReceiveChangesOnly(r) ==
  /\ life[r] = "up" /\ watch[r] = "idle"
  /\ changed[r]
  /\ changed' = [changed EXCEPT ![r] = FALSE]
  /\ watch' = [watch EXCEPT ![r] = "list"]
  /\ UNCHANGED <<jobs, clock, life, unsignalled, ticker, ticked, listed, entry,
                 left, missed>>

\* The select takes a change signal or a tick; after a stop it may still do so.
Receive(r) ==
  /\ life[r] \in {"up", "stopping"} /\ watch[r] = "idle"
  /\ \/ /\ changed[r]
        /\ changed' = [changed EXCEPT ![r] = FALSE]
        /\ UNCHANGED ticked
     \/ /\ ticked[r]
        /\ ticked' = [ticked EXCEPT ![r] = FALSE]
        /\ UNCHANGED changed
  /\ watch' = [watch EXCEPT ![r] = "list"]
  /\ UNCHANGED <<jobs, clock, life, unsignalled, ticker, listed, entry, left,
                 missed>>

\* ListEnabled.
List(r) ==
  /\ watch[r] = "list"
  /\ listed' = [listed EXCEPT ![r] =
       [j \in JobID |-> IF Enabled(jobs[j]) THEN jobs[j] ELSE NoRow]]
  /\ watch' = [watch EXCEPT ![r] = "swap"]
  /\ missed' = [missed EXCEPT ![r] = FALSE]
  /\ UNCHANGED <<jobs, clock, life, changed, unsignalled, ticker, ticked, entry,
                 left>>

\* The process is gone, and with it everything it kept in memory.
Gone(r) ==
  /\ life' = [life EXCEPT ![r] = "down"]
  /\ watch' = [watch EXCEPT ![r] = "off"]
  /\ changed' = [changed EXCEPT ![r] = FALSE]
  /\ unsignalled' = [unsignalled EXCEPT ![r] = 0]
  /\ ticked' = [ticked EXCEPT ![r] = FALSE]
  /\ ticker' = [ticker EXCEPT ![r] = Interval]
  /\ listed' = [listed EXCEPT ![r] = NoRows]
  /\ entry' = [entry EXCEPT ![r] = NoRows]
  /\ left' = [left EXCEPT ![r] = [j \in JobID |-> 0]]
  /\ missed' = [missed EXCEPT ![r] = FALSE]
  /\ UNCHANGED <<jobs, clock>>

\* ListEnabled fails: OnStart gives up, the watch loop logs and goes on with
\* the entries it has.
ListFails(r) ==
  /\ watch[r] = "list"
  /\ \/ life[r] = "starting" /\ Gone(r)
     \/ /\ life[r] # "starting"
        /\ watch' = [watch EXCEPT ![r] = "idle"]
        /\ missed' = [missed EXCEPT ![r] = FALSE]
        /\ UNCHANGED <<jobs, clock, life, changed, unsignalled, ticker, ticked,
                       listed, entry, left>>

\* AddFunc parses "CRON_TZ=<timezone> <expression>" and rejects a second zone.
Rejected(row) == row.version > 0 /\ row.def \in PoisonDef

\* The jobs that are added before the first one that is rejected.
Added(rows) ==
  {j \in JobID : rows[j].version > 0 /\
                 \A i \in JobID : Rejected(rows[i]) => j < i}

\* Mutation: adding an entry starts every schedule anew.
SwapRestarting(r) ==
  /\ watch[r] = "swap"
  /\ LET ok == Added(listed[r])
     IN  /\ entry' = [entry EXCEPT ![r] =
              [j \in JobID |-> IF j \in ok THEN listed[r][j] ELSE NoRow]]
         /\ left' = [left EXCEPT ![r] =
              [j \in JobID |-> IF j \in ok THEN Period ELSE 0]]
  /\ watch' = [watch EXCEPT ![r] = "idle"]
  /\ life' = [life EXCEPT ![r] = IF @ = "starting" THEN "up" ELSE @]
  /\ listed' = [listed EXCEPT ![r] = NoRows]
  /\ UNCHANGED <<jobs, clock, changed, unsignalled, ticker, ticked, missed>>

\* The second half of reload: every entry is removed, and added again from the
\* rows listed, until one is rejected.  For OnStart that is a failed start;
\* otherwise it starts the runner and the watch loop.
Swap(r) ==
  /\ watch[r] = "swap"
  /\ LET ok == Added(listed[r])
     IN  \/ /\ life[r] = "starting"
            /\ \E j \in JobID : Rejected(listed[r][j])
            /\ Gone(r)
         \/ /\ life[r] = "starting" => \A j \in JobID : ~Rejected(listed[r][j])
            /\ entry' = [entry EXCEPT ![r] =
                 [j \in JobID |-> IF j \in ok THEN listed[r][j] ELSE NoRow]]
            /\ left' = [left EXCEPT ![r] =
                 [j \in JobID |-> IF j \in ok THEN Wait(listed[r][j].def) ELSE 0]]
            /\ watch' = [watch EXCEPT ![r] = "idle"]
            /\ life' = [life EXCEPT ![r] = IF @ = "starting" THEN "up" ELSE @]
            /\ listed' = [listed EXCEPT ![r] = NoRows]
            /\ UNCHANGED <<jobs, clock, changed, unsignalled, ticker, ticked,
                           missed>>

-----------------------------------------------------------------------------
(* The cron runner and time.                                               *)

Due(r, j) == entry[r][j].version > 0 /\ left[r][j] = 0

\* The runner starts the entry's function and computes its next time.
Fire(r, j) ==
  /\ life[r] = "up"
  /\ Due(r, j)
  /\ left' = [left EXCEPT ![r][j] = Wait(entry[r][j].def)]
  /\ UNCHANGED <<jobs, clock, life, changed, unsignalled, ticker, ticked, watch,
                 listed, entry, missed>>

\* A tick: the runner has fired everything due, since a tick is a second; the
\* watch loop's ticker drops a tick nobody has received.
Tick ==
  /\ \A r \in Replica, j \in JobID : life[r] = "up" => ~Due(r, j)
  /\ clock' = (clock + 1) % Period
  /\ left' = [r \in Replica |-> [j \in JobID |->
       IF left[r][j] > 0 THEN left[r][j] - 1 ELSE 0]]
  /\ ticker' = [r \in Replica |->
       IF life[r] # "up" \/ ticker[r] = 1 THEN Interval ELSE ticker[r] - 1]
  /\ ticked' = [r \in Replica |->
       ticked[r] \/ (life[r] = "up" /\ ticker[r] = 1)]
  /\ UNCHANGED <<jobs, life, changed, unsignalled, watch, listed, entry, missed>>

-----------------------------------------------------------------------------
(* The life of a replica.                                                  *)

\* OnStart begins with a reload.
Start(r) ==
  /\ life[r] = "down"
  /\ life' = [life EXCEPT ![r] = "starting"]
  /\ watch' = [watch EXCEPT ![r] = "list"]
  /\ UNCHANGED <<jobs, clock, changed, unsignalled, ticker, ticked, listed,
                 entry, left, missed>>

\* stop cancels the watch loop's context and stops the runner.
Stop(r) ==
  /\ Restarts
  /\ life[r] = "up"
  /\ life' = [life EXCEPT ![r] = "stopping"]
  /\ UNCHANGED <<jobs, clock, changed, unsignalled, ticker, ticked, watch,
                 listed, entry, left, missed>>

\* The watch loop has seen the cancelled context; the process ends.
Stopped(r) ==
  /\ life[r] = "stopping" /\ watch[r] = "idle"
  /\ Gone(r)

Crash(r) ==
  /\ Restarts
  /\ life[r] # "down"
  /\ Gone(r)

Next ==
  \/ Tick
  \/ \E r \in Replica :
       \/ \E j \in JobID : Write(r, j) \/ Fire(r, j)
       \/ SignalChanged(r)
       \/ Receive(r)
       \/ List(r)
       \/ ListFails(r)
       \/ Swap(r)
       \/ Start(r)
       \/ Stop(r)
       \/ Stopped(r)
       \/ Crash(r)

Spec == Init /\ [][Next]_vars

\* Goroutines run, time passes, replicas are started again.  The database
\* answers one of the listings that are tried again and again, and the
\* runner's select does not prefer a removal to a due timer for ever.
Fairness ==
  /\ WF_vars(Tick)
  /\ \A r \in Replica :
       /\ WF_vars(SignalChanged(r))
       /\ WF_vars(Receive(r))
       /\ SF_vars(List(r))
       /\ WF_vars(Swap(r))
       /\ WF_vars(Start(r))
       /\ WF_vars(Stopped(r))
       /\ \A j \in JobID : SF_vars(Fire(r, j))

FairSpec == Spec /\ Fairness

-----------------------------------------------------------------------------
(* Properties.                                                             *)

TypeOK ==
  /\ jobs \in [JobID -> Row]
  /\ clock \in 0 .. Period - 1
  /\ life \in [Replica -> {"down", "starting", "up", "stopping"}]
  /\ changed \in [Replica -> BOOLEAN]
  /\ unsignalled \in [Replica -> Nat]
  /\ ticker \in [Replica -> 1..Interval]
  /\ ticked \in [Replica -> BOOLEAN]
  /\ watch \in [Replica -> {"off", "idle", "list", "swap"}]
  /\ listed \in [Replica -> [JobID -> Row]]
  /\ entry \in [Replica -> [JobID -> Row]]
  /\ left \in [Replica -> [JobID -> Nat]]
  /\ missed \in [Replica -> BOOLEAN]

\* The channel of capacity one loses no change (service.go:53, runtime.go:54):
\* as long as a local write is in nobody's list, its signal is still to be
\* sent, waits in the channel, or has been received and the list not yet read.
\* A listing that fails (runtime.go:61, only logged) ends the claim, for all
\* changes up to then: missed is cleared, and the ticker has to make up for it.
LocalChangeNoticed ==
  \A r \in Replica : missed[r] =>
    changed[r] \/ unsignalled[r] > 0 \/ watch[r] = "list"

\* Reloading does not move a cron schedule (runtime.go:73-79): however often
\* the entries are replaced, an installed cron entry is due exactly when the
\* clock comes to a multiple of the period.
CronStaysAligned ==
  \A r \in Replica, j \in JobID :
    life[r] = "up" /\ entry[r][j].version > 0 /\ entry[r][j].def \in CronDef =>
      \/ left[r][j] = Period - clock
      \/ left[r][j] = 0 /\ clock = 0

EnabledRows == [j \in JobID |-> IF Enabled(jobs[j]) THEN jobs[j] ELSE NoRow]

\* A replica that stays up ends with exactly the enabled jobs loaded, up to the
\* first that AddFunc rejects, also when they were written without a signal
\* that reaches it (on another replica, or with a commit that reported an
\* error): the ticker of runtime.go:48 makes up for it.
EventuallyLoaded ==
  \A r \in Replica : <>[](life[r] = "up") =>
    <>[](entry[r] = [j \in JobID |->
                       IF j \in Added(EnabledRows) THEN jobs[j] ELSE NoRow])

\* A job that stays enabled, and before the first that AddFunc rejects, is
\* fired again and again by every replica that stays up.
Fires(Def) ==
  \A r \in Replica, j \in JobID :
    <>[](life[r] = "up" /\ j \in Added(EnabledRows) /\ jobs[j].def \in Def) =>
      []<><<Fire(r, j)>>_vars

\* This holds of cron expressions, since a reload computes the same next time.
CronFires == Fires(CronDef)

\* The README offers Cron jobs, and @every is an expression the service
\* accepts: an enabled @every job fires again and again.
EveryFires == Fires(EveryDef)

\* normalizeAndValidate is there to keep out expressions the runner cannot
\* parse ("invalid cron_expression"): an enabled job with a sound expression is
\* loaded by every replica that stays up, whatever else was accepted.
SoundJobsLoaded ==
  \A r \in Replica, j \in JobID :
    <>[](life[r] = "up" /\ Enabled(jobs[j]) /\ jobs[j].def \notin PoisonDef) =>
      <>[](entry[r][j] = jobs[j])

=============================================================================
