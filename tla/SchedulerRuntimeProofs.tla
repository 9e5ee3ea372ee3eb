----------------------- MODULE SchedulerRuntimeProofs -----------------------
(***************************************************************************)
(* What the watch loop and the cron runner of every replica keep, for any  *)
(* number of replicas and jobs, any period and any reload interval.        *)
(***************************************************************************)
EXTENDS SchedulerRuntime, TLAPS

-----------------------------------------------------------------------------
(* Rows and the clock.                                                     *)

\* The row that stands for an absent job is a row, and so is one that has been
\* listed.
LEMMA NoRowType == NoRow \in Row /\ NoRows \in [JobID -> Row]
<1>1. NoRow \in Row
  BY StoreAssumption DEF NoRow, Row, Status
<1>2. QED
  BY <1>1 DEF NoRows

\* The row a deletion leaves.
LEMMA DeletedRowType ==
  ASSUME NEW x \in Row, NEW n \in Nat
  PROVE  [x EXCEPT !.version = n, !.deleted = TRUE] \in Row
BY DEF Row

\* The clock comes back to 0 after Period ticks.
LEMMA ClockStep ==
  ASSUME NEW c \in 0 .. Period - 1
  PROVE  /\ (c + 1) % Period \in 0 .. Period - 1
         /\ (c + 1) % Period = IF c + 1 = Period THEN 0 ELSE c + 1
<1>1. Period \in Nat /\ Period > 0 /\ c \in Nat /\ c + 1 <= Period
  BY RuntimeAssumption
<1>2. CASE c + 1 = Period
  <2>1. Period % Period = 0
    BY <1>1
  <2>2. QED
    BY <1>1, <1>2, <2>1
<1>3. CASE c + 1 < Period
  <2>1. (c + 1) % Period = c + 1
    BY <1>1, <1>3
  <2>2. QED
    BY <1>1, <1>3, <2>1
<1>4. QED
  BY <1>1, <1>2, <1>3

\* A schedule always has a next time.
LEMMA WaitType ==
  ASSUME NEW d, clock \in 0 .. Period - 1
  PROVE  /\ Wait(d) \in Nat
         /\ d \in CronDef => Wait(d) = Period - clock
BY RuntimeAssumption DEF Wait

-----------------------------------------------------------------------------
(* Types.                                                                  *)

\* A replica that is gone has forgotten everything, in the right types.
LEMMA GoneType ==
  ASSUME TypeOK, NEW r \in Replica, Gone(r)
  PROVE  TypeOK'
<1>1. Interval \in 1..Interval
  BY RuntimeAssumption
<1>2. jobs' \in [JobID -> Row] /\ clock' \in 0 .. Period - 1
  BY DEF Gone, TypeOK
<1>3. /\ life' \in [Replica -> {"down", "starting", "up", "stopping"}]
      /\ watch' \in [Replica -> {"off", "idle", "list", "swap"}]
  BY DEF Gone, TypeOK
<1>4. /\ changed' \in [Replica -> BOOLEAN] /\ ticked' \in [Replica -> BOOLEAN]
      /\ missed' \in [Replica -> BOOLEAN]
  BY DEF Gone, TypeOK
<1>5. /\ unsignalled' \in [Replica -> Nat] /\ ticker' \in [Replica -> 1..Interval]
  BY <1>1 DEF Gone, TypeOK
<1>6. /\ listed' \in [Replica -> [JobID -> Row]] /\ entry' \in [Replica -> [JobID -> Row]]
  BY NoRowType DEF Gone, TypeOK
<1>7. left' \in [Replica -> [JobID -> Nat]]
  <2>1. [j \in JobID |-> 0] \in [JobID -> Nat]
    OBVIOUS
  <2>2. QED
    BY <2>1 DEF Gone, TypeOK
<1>8. QED
  BY <1>2, <1>3, <1>4, <1>5, <1>6, <1>7 DEF TypeOK

\* The statements of the repository keep the table well typed.
LEMMA WriteType ==
  ASSUME TypeOK, NEW r \in Replica, NEW j \in JobID, Write(r, j)
  PROVE  jobs' \in [JobID -> Row]
<1>1. /\ jobs[j] \in Row /\ jobs[j].version + 1 \in Nat /\ jobs[j].version \in Nat
      /\ jobs \in [JobID -> Row]
  BY DEF TypeOK, Row
<1>2. ASSUME NEW d \in Definition, NEW s \in Status, NEW n \in Nat
      PROVE  [version |-> n, status |-> s, deleted |-> FALSE, def |-> d] \in Row
  BY DEF Row
<1>3. CASE \E d \in Definition, s \in Status : CreateJob(j, d, s)
  BY <1>1, <1>2, <1>3 DEF CreateJob
<1>4. CASE \E d \in Definition, s \in Status : UpdateJob(j, jobs[j].version, d, s)
  BY <1>1, <1>2, <1>4 DEF UpdateJob
<1>5. CASE DeleteJob(j, jobs[j].version)
  <2>1. [jobs[j] EXCEPT !.version = jobs[j].version + 1, !.deleted = TRUE] \in Row
    BY <1>1, DeletedRowType
  <2>2. QED
    BY <1>1, <1>5, <2>1 DEF DeleteJob
<1>6. QED
  BY <1>3, <1>4, <1>5 DEF Write

\* A write is going to be signalled, or nobody has noticed it.
LEMMA WriteSignals ==
  ASSUME NEW r \in Replica, NEW j \in JobID, Write(r, j)
  PROVE  /\ \/ /\ unsignalled' = [unsignalled EXCEPT ![r] = unsignalled[r] + 1]
               /\ missed' = [missed EXCEPT ![r] = TRUE]
            \/ UNCHANGED <<unsignalled, missed>>
         /\ UNCHANGED <<changed, watch>>
BY DEF Write

\* Every step keeps every variable in its type.
LEMMA TypeStep == TypeOK /\ [Next]_vars => TypeOK'
<1> SUFFICES ASSUME TypeOK, [Next]_vars
             PROVE  TypeOK'
  OBVIOUS
<1>1. ASSUME NEW r \in Replica, NEW j \in JobID, Write(r, j)
      PROVE  TypeOK'
  <2>1. jobs' \in [JobID -> Row]
    BY <1>1, WriteType
  <2>2. unsignalled' \in [Replica -> Nat] /\ missed' \in [Replica -> BOOLEAN]
    <3>1. /\ unsignalled \in [Replica -> Nat] /\ missed \in [Replica -> BOOLEAN]
          /\ unsignalled[r] + 1 \in Nat
      BY DEF TypeOK
    <3>2. CASE UNCHANGED <<unsignalled, missed>>
      BY <3>1, <3>2
    <3>3. CASE /\ unsignalled' = [unsignalled EXCEPT ![r] = unsignalled[r] + 1]
               /\ missed' = [missed EXCEPT ![r] = TRUE]
      BY <3>1, <3>3
    <3>4. QED
      BY <1>1, <3>2, <3>3, WriteSignals
  <2>3. UNCHANGED <<clock, life, changed, ticker, ticked, watch, listed, entry, left>>
    BY <1>1 DEF Write
  <2>4. QED
    BY <2>1, <2>2, <2>3 DEF TypeOK
<1>2. ASSUME NEW r \in Replica, SignalChanged(r)
      PROVE  TypeOK'
  BY <1>2 DEF SignalChanged, TypeOK
<1>3. ASSUME NEW r \in Replica, Receive(r)
      PROVE  TypeOK'
  BY <1>3 DEF Receive, TypeOK
<1>4. ASSUME NEW r \in Replica, List(r)
      PROVE  TypeOK'
  <2>1. [j \in JobID |-> IF Enabled(jobs[j]) THEN jobs[j] ELSE NoRow] \in [JobID -> Row]
    BY NoRowType DEF TypeOK
  <2>2. listed' \in [Replica -> [JobID -> Row]]
    BY <1>4, <2>1 DEF List, TypeOK
  <2>3. QED
    BY <1>4, <2>2 DEF List, TypeOK
<1>5. ASSUME NEW r \in Replica, ListFails(r)
      PROVE  TypeOK'
  <2>1. CASE Gone(r)
    BY <2>1, GoneType
  <2>2. CASE ~Gone(r)
    BY <1>5, <2>2 DEF ListFails, TypeOK
  <2>3. QED
    BY <2>1, <2>2
<1>6. ASSUME NEW r \in Replica, Swap(r)
      PROVE  TypeOK'
  <2>1. CASE Gone(r)
    BY <2>1, GoneType
  <2>2. CASE ~Gone(r)
    <3> DEFINE ok == Added(listed[r])
               E == [j \in JobID |-> IF j \in ok THEN listed[r][j] ELSE NoRow]
               L == [j \in JobID |-> IF j \in ok THEN Wait(listed[r][j].def) ELSE 0]
    <3>1. /\ entry' = [entry EXCEPT ![r] = E] /\ left' = [left EXCEPT ![r] = L]
          /\ watch' = [watch EXCEPT ![r] = "idle"]
          /\ life' = [life EXCEPT ![r] = IF life[r] = "starting" THEN "up" ELSE life[r]]
          /\ listed' = [listed EXCEPT ![r] = NoRows]
          /\ UNCHANGED <<jobs, clock, changed, unsignalled, ticker, ticked, missed>>
      BY <1>6, <2>2 DEF Swap
    <3>2. E \in [JobID -> Row]
      BY NoRowType DEF TypeOK
    <3>3. L \in [JobID -> Nat]
      BY WaitType DEF TypeOK
    <3> HIDE DEF E, L, ok
    <3>4. entry' \in [Replica -> [JobID -> Row]] /\ left' \in [Replica -> [JobID -> Nat]]
      BY <3>1, <3>2, <3>3 DEF TypeOK
    <3>5. /\ watch' \in [Replica -> {"off", "idle", "list", "swap"}]
          /\ life' \in [Replica -> {"down", "starting", "up", "stopping"}]
          /\ listed' \in [Replica -> [JobID -> Row]]
      BY <3>1, NoRowType DEF TypeOK
    <3>6. QED
      BY <3>1, <3>4, <3>5 DEF TypeOK
  <2>3. QED
    BY <2>1, <2>2
<1>7. ASSUME NEW r \in Replica, NEW j \in JobID, Fire(r, j)
      PROVE  TypeOK'
  <2>1. Wait(entry[r][j].def) \in Nat
    BY WaitType DEF TypeOK
  <2>2. left' \in [Replica -> [JobID -> Nat]]
    BY <1>7, <2>1 DEF Fire, TypeOK
  <2>3. QED
    BY <1>7, <2>2 DEF Fire, TypeOK
<1>8. CASE Tick
  <2>1. clock' \in 0 .. Period - 1
    BY <1>8, ClockStep DEF Tick, TypeOK
  <2>2. left' \in [Replica -> [JobID -> Nat]]
    BY <1>8 DEF Tick, TypeOK
  <2>3. ticker' \in [Replica -> 1..Interval]
    <3>1. ASSUME NEW r \in Replica
          PROVE  (IF life[r] # "up" \/ ticker[r] = 1 THEN Interval ELSE ticker[r] - 1)
                   \in 1..Interval
      BY RuntimeAssumption DEF TypeOK
    <3>2. QED
      BY <1>8, <3>1 DEF Tick
  <2>4. ticked' \in [Replica -> BOOLEAN]
    BY <1>8 DEF Tick, TypeOK
  <2>5. QED
    BY <1>8, <2>1, <2>2, <2>3, <2>4 DEF Tick, TypeOK
<1>9. ASSUME NEW r \in Replica, Start(r) \/ Stop(r)
      PROVE  TypeOK'
  BY <1>9 DEF Start, Stop, TypeOK
<1>10. ASSUME NEW r \in Replica, Stopped(r) \/ Crash(r)
       PROVE  TypeOK'
  BY <1>10, GoneType DEF Stopped, Crash
<1>11. CASE UNCHANGED vars
  BY <1>11 DEF vars, TypeOK
<1>12. QED
  BY <1>1, <1>2, <1>3, <1>4, <1>5, <1>6, <1>7, <1>8, <1>9, <1>10, <1>11 DEF Next

\* The initial state is well typed.
LEMMA TypeInit == Init => TypeOK
<1> SUFFICES ASSUME Init PROVE TypeOK
  OBVIOUS
<1>1. 0 \in 0 .. Period - 1 /\ Interval \in 1..Interval
  BY RuntimeAssumption
<1>2. jobs \in [JobID -> Row] /\ clock \in 0 .. Period - 1
  BY <1>1, NoRowType DEF Init
<1>3. /\ listed \in [Replica -> [JobID -> Row]] /\ entry \in [Replica -> [JobID -> Row]]
      /\ left \in [Replica -> [JobID -> Nat]] /\ ticker \in [Replica -> 1..Interval]
  BY <1>1, NoRowType DEF Init
<1>4. QED
  BY <1>2, <1>3 DEF Init, TypeOK

\* The variables of the watch loops and the cron runners (runtime.go:31) keep
\* their types.
THEOREM TypeCorrect == Spec => []TypeOK
BY TypeInit, TypeStep, PTL DEF Spec

-----------------------------------------------------------------------------
(* The signal is not lost.                                                 *)

\* A gone replica has missed nothing; every other step that uses up a signal
\* leads to the listing, and a listing that fails ends the claim.
LEMMA NoticedStep ==
  TypeOK /\ LocalChangeNoticed /\ [Next]_vars => LocalChangeNoticed'
<1> SUFFICES ASSUME TypeOK, LocalChangeNoticed, [Next]_vars
             PROVE  LocalChangeNoticed'
  OBVIOUS
<1> USE DEF TypeOK, LocalChangeNoticed
<1>1. ASSUME NEW r \in Replica, NEW j \in JobID, Write(r, j)
      PROVE  LocalChangeNoticed'
  <2>1. UNCHANGED <<changed, watch>>
    BY <1>1, WriteSignals
  <2>2. CASE UNCHANGED <<unsignalled, missed>>
    BY <2>1, <2>2
  <2>3. CASE /\ unsignalled' = [unsignalled EXCEPT ![r] = unsignalled[r] + 1]
             /\ missed' = [missed EXCEPT ![r] = TRUE]
    BY <2>1, <2>3
  <2>4. QED
    BY <1>1, <2>2, <2>3, WriteSignals
<1>2. ASSUME NEW r \in Replica, SignalChanged(r)
      PROVE  LocalChangeNoticed'
  BY <1>2 DEF SignalChanged
<1>3. ASSUME NEW r \in Replica, Receive(r)
      PROVE  LocalChangeNoticed'
  BY <1>3 DEF Receive
<1>4. ASSUME NEW r \in Replica, List(r)
      PROVE  LocalChangeNoticed'
  BY <1>4 DEF List
<1>5. ASSUME NEW r \in Replica, Gone(r)
      PROVE  LocalChangeNoticed'
  BY <1>5 DEF Gone
<1>6. ASSUME NEW r \in Replica, ListFails(r)
      PROVE  LocalChangeNoticed'
  BY <1>5, <1>6 DEF ListFails
<1>7. ASSUME NEW r \in Replica, Swap(r)
      PROVE  LocalChangeNoticed'
  BY <1>5, <1>7 DEF Swap
<1>8. ASSUME NEW r \in Replica, NEW j \in JobID, Fire(r, j)
      PROVE  LocalChangeNoticed'
  BY <1>8 DEF Fire
<1>9. CASE Tick
  BY <1>9 DEF Tick
<1>10. ASSUME NEW r \in Replica, Start(r) \/ Stop(r)
       PROVE  LocalChangeNoticed'
  BY <1>10 DEF Start, Stop
<1>11. ASSUME NEW r \in Replica, Stopped(r) \/ Crash(r)
       PROVE  LocalChangeNoticed'
  BY <1>5, <1>11 DEF Stopped, Crash
<1>12. CASE UNCHANGED vars
  BY <1>12 DEF vars
<1>13. QED
  BY <1>1, <1>2, <1>3, <1>4, <1>6, <1>7, <1>8, <1>9, <1>10, <1>11, <1>12 DEF Next

\* As long as a local write is in nobody's list, the watch loop has it before
\* it: a channel of capacity one is enough, however many writes there are.
THEOREM LocalChangeNoticedHolds == Spec => []LocalChangeNoticed
<1>1. Init => LocalChangeNoticed
  BY DEF Init, LocalChangeNoticed
<1>2. QED
  BY <1>1, TypeCorrect, NoticedStep, PTL DEF Spec

-----------------------------------------------------------------------------
(* Cron entries stay aligned.                                              *)

\* A tick happens when nothing is due, and takes one from the time to wait and
\* to the end of the period.
LEMMA AlignedTick ==
  ASSUME TypeOK, CronStaysAligned, Tick
  PROVE  CronStaysAligned'
<1> SUFFICES ASSUME NEW r \in Replica, NEW j \in JobID, life[r] = "up",
                    entry[r][j].version > 0, entry[r][j].def \in CronDef
             PROVE  \/ left'[r][j] = Period - clock'
                    \/ left'[r][j] = 0 /\ clock' = 0
  BY DEF CronStaysAligned, Tick
<1>1. /\ clock \in 0 .. Period - 1 /\ Period \in Nat \ {0} /\ clock \in Nat
      /\ left[r][j] \in Nat
  BY RuntimeAssumption DEF TypeOK
<1>2. left[r][j] # 0
  BY DEF Tick, Due
<1>3. left[r][j] = Period - clock
  BY <1>2 DEF CronStaysAligned
<1>4. left'[r][j] = left[r][j] - 1
  BY <1>1, <1>2 DEF Tick
<1>5. clock' = IF clock + 1 = Period THEN 0 ELSE clock + 1
  BY <1>1, ClockStep DEF Tick
<1>6. QED
  BY <1>1, <1>3, <1>4, <1>5

\* Every other step either leaves an entry alone or asks its schedule for the
\* next time.
LEMMA AlignedStep ==
  TypeOK /\ CronStaysAligned /\ [Next]_vars => CronStaysAligned'
<1> SUFFICES ASSUME TypeOK, CronStaysAligned, [Next]_vars
             PROVE  CronStaysAligned'
  OBVIOUS
<1>1. ASSUME NEW r \in Replica, NEW j \in JobID, Write(r, j)
      PROVE  CronStaysAligned'
  BY <1>1 DEF Write, CronStaysAligned
<1>2. ASSUME NEW r \in Replica,
             SignalChanged(r) \/ Receive(r) \/ List(r)
      PROVE  CronStaysAligned'
  BY <1>2 DEF SignalChanged, Receive, List, CronStaysAligned
<1>3. ASSUME NEW r \in Replica, Gone(r)
      PROVE  CronStaysAligned'
  BY <1>3 DEF Gone, CronStaysAligned, TypeOK
<1>4. ASSUME NEW r \in Replica, ListFails(r)
      PROVE  CronStaysAligned'
  BY <1>3, <1>4 DEF ListFails, CronStaysAligned
<1>5. ASSUME NEW r \in Replica, Swap(r)
      PROVE  CronStaysAligned'
  <2>1. CASE Gone(r)
    BY <1>3, <2>1
  <2>2. CASE ~Gone(r)
    <3> DEFINE ok == Added(listed[r])
               E == [j \in JobID |-> IF j \in ok THEN listed[r][j] ELSE NoRow]
               L == [j \in JobID |-> IF j \in ok THEN Wait(listed[r][j].def) ELSE 0]
    <3>1. /\ entry' = [entry EXCEPT ![r] = E] /\ left' = [left EXCEPT ![r] = L]
          /\ UNCHANGED clock
          /\ \A q \in Replica : q # r => life'[q] = life[q]
      BY <1>5, <2>2 DEF Swap, TypeOK
    <3>2. ASSUME NEW j \in JobID, E[j].version > 0, E[j].def \in CronDef
          PROVE  L[j] = Period - clock
      <4>1. j \in ok
        BY <3>2 DEF NoRow
      <4>2. L[j] = Wait(listed[r][j].def) /\ listed[r][j].def \in CronDef
        BY <3>2, <4>1
      <4>3. QED
        BY <4>2, WaitType DEF TypeOK
    <3> HIDE DEF E, L, ok
    <3>3. /\ entry'[r] = E /\ left'[r] = L
          /\ \A q \in Replica : q # r => entry'[q] = entry[q] /\ left'[q] = left[q]
      BY <3>1 DEF TypeOK
    <3>4. QED
      BY <3>1, <3>2, <3>3 DEF CronStaysAligned
  <2>3. QED
    BY <2>1, <2>2
<1>6. ASSUME NEW r \in Replica, NEW j \in JobID, Fire(r, j)
      PROVE  CronStaysAligned'
  <2> DEFINE w == Wait(entry[r][j].def)
  <2>1. entry[r][j].def \in CronDef => w = Period - clock
    BY WaitType DEF TypeOK
  <2>2. left' = [left EXCEPT ![r][j] = w] /\ UNCHANGED <<clock, life, entry>>
    BY <1>6 DEF Fire
  <2> HIDE DEF w
  <2>3. /\ left'[r][j] = w
        /\ \A q \in Replica, i \in JobID : q # r \/ i # j => left'[q][i] = left[q][i]
    BY <2>2 DEF TypeOK
  <2>4. QED
    BY <2>1, <2>2, <2>3 DEF CronStaysAligned
<1>7. CASE Tick
  BY <1>7, AlignedTick
<1>8. ASSUME NEW r \in Replica, Start(r) \/ Stop(r)
      PROVE  CronStaysAligned'
  BY <1>8 DEF Start, Stop, CronStaysAligned, TypeOK
<1>9. ASSUME NEW r \in Replica, Stopped(r) \/ Crash(r)
      PROVE  CronStaysAligned'
  BY <1>3, <1>9 DEF Stopped, Crash
<1>10. CASE UNCHANGED vars
  BY <1>10 DEF vars, CronStaysAligned
<1>11. QED
  BY <1>1, <1>2, <1>4, <1>5, <1>6, <1>7, <1>8, <1>9, <1>10 DEF Next

\* However often the entries are replaced, a cron entry is due exactly when the
\* clock comes to a multiple of its period.
THEOREM CronStaysAlignedHolds == Spec => []CronStaysAligned
<1>1. Init => CronStaysAligned
  BY DEF Init, CronStaysAligned
<1>2. QED
  BY <1>1, TypeCorrect, AlignedStep, PTL DEF Spec

=============================================================================
