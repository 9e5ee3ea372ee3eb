------------------------------ MODULE Process -------------------------------
(***************************************************************************)
(* A process from main to its exit: Startup, and then Lifecycle.  When the *)
(* hooks run, the configuration no longer matters.                         *)
(***************************************************************************)
EXTENDS Lifecycle, Startup

processVars == <<vars, startupVars>>

ProcessInit == StartupInit /\ Init

HandOver ==
  /\ stage = "launched"
  /\ stage' = "running" /\ profile' = "" /\ settings' = {} /\ built' = {}
  /\ position' = 0
  /\ UNCHANGED <<outage, vars>>

\* An action of Lifecycle.
Live(A) == stage = "running" /\ A /\ UNCHANGED startupVars

ProcessNext ==
  \/ StartupNext /\ UNCHANGED vars
  \/ HandOver
  \/ Live(Next)

ProcessSpec == ProcessInit /\ [][ProcessNext]_processVars

\* The hooks run and contexts end.  Work need not end.
FairProcessSpec ==
  /\ ProcessSpec
  /\ WF_processVars(Live(StartStep)) /\ WF_processVars(Live(StopStep))
  /\ WF_processVars(Live(Expire)) /\ WF_processVars(Live(Exit))

=============================================================================
