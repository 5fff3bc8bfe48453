-------------------------- MODULE SupervisionProofs --------------------------
(***************************************************************************)
(* The end of manager, what its passes leave behind and the temperature at *)
(* the start of a drive, for any number of processes, any limits of time   *)
(* and any temperatures.                                                   *)
(***************************************************************************)
EXTENDS Supervision, TLAPS

Phases == {"stop", "start", "signal", "kill"}

Managers == [pc : Phases \cup {"wait", "join", "done", "aborted"}, i : 1..Len(Order), after : Phases,
             timer : Int, started : BOOLEAN, running : SUBSET Procs]

Processes == [Procs -> [proc : BOOLEAN, alive : BOOLEAN, shutting_down : BOOLEAN]]

ManagerType ==
  /\ manager \in Managers /\ process \in Processes
  /\ deviceState.started \in BOOLEAN /\ started \in BOOLEAN

\* There is a process for every turn.
LEMMA Sizes ==
  /\ Len(Order) \in Nat \ {0} /\ 1 \in 1..Len(Order) /\ JoinFrames \in Int
  /\ \A j \in 1..Len(Order) : Order[j] \in Procs
  BY SupervisionAssumption DEF Procs

-----------------------------------------------------------------------------
(* What each part of manager's pass makes of manager's own state *)

\* What the next turn is: the next process, or the first one of the next phase.
LEMMA NextType ==
  ASSUME manager \in Managers, manager.pc \in Phases, Next_i
  PROVE  /\ manager' \in Managers
         /\ \/ manager'.pc = manager.pc /\ manager'.i = manager.i + 1 /\ manager.i < Len(Order)
            \/ /\ manager'.i = 1 /\ manager.i = Len(Order)
               /\ \/ manager.pc = "stop" /\ manager'.pc = "start"
                  \/ manager.pc = "start" /\ manager'.pc \in {"signal", "wait"}
                  \/ manager.pc = "signal" /\ manager'.pc = "kill"
                  \/ manager.pc = "kill" /\ manager'.pc = "done"
  <1>0. Len(Order) \in Nat \ {0}
    BY SupervisionAssumption
  <1>1. CASE manager.i < Len(Order)
    <2>1. manager' = [manager EXCEPT !.i = @ + 1]
      BY <1>1 DEF Next_i
    <2>2. manager.i + 1 \in 1..Len(Order)
      BY <1>0, <1>1 DEF Managers
    <2>3. manager' \in Managers /\ manager'.pc = manager.pc /\ manager'.i = manager.i + 1
      <3> DEFINE i == manager.i + 1
      <3>1. i \in 1..Len(Order) /\ manager' = [manager EXCEPT !.i = i]
        BY <2>1, <2>2
      <3> HIDE DEF i
      <3>2. manager' \in Managers /\ manager'.pc = manager.pc /\ manager'.i = i
        BY <3>1 DEF Managers
      <3> QED
        BY <3>2 DEF i
    <2> QED
      BY <1>1, <2>3
  <1>2. CASE ~(manager.i < Len(Order))
    <2> DEFINE pc == [stop   |-> "start", start |-> IF exit THEN "signal" ELSE "wait",
                      signal |-> "kill",  kill  |-> "done"][manager.pc]
    <2>1. manager' = [manager EXCEPT !.i = 1, !.pc = pc]
      BY <1>2 DEF Next_i
    <2>2. \/ manager.pc = "stop" /\ pc = "start"
          \/ manager.pc = "start" /\ pc \in {"signal", "wait"}
          \/ manager.pc = "signal" /\ pc = "kill"
          \/ manager.pc = "kill" /\ pc = "done"
      BY DEF Phases
    <2> HIDE DEF pc
    <2>3. manager.i = Len(Order) /\ 1 \in 1..Len(Order)
      BY <1>0, <1>2 DEF Managers
    <2> QED
      BY <2>1, <2>2, <2>3 DEF Managers, Phases
  <1> QED
    BY <1>1, <1>2

\* A join keeps the turn and remembers the phase to return to.
LEMMA JoinType ==
  ASSUME manager \in Managers, manager.pc \in Phases, Join
  PROVE  manager' \in Managers /\ manager'.pc = "join" /\ manager'.after = manager.pc /\ manager'.i = manager.i
  BY Sizes DEF Managers, Join, Phases

\* A new instance changes one process.
LEMMA NewType == ASSUME process \in Processes, NEW p \in Procs, New(p) PROVE process' \in Processes
  BY DEF New, Processes

\* A stop leaves the process to the next one only when it is dead, or was not to be waited for.
LEMMA StopType ==
  ASSUME ManagerType, NEW p \in Procs, NEW block \in BOOLEAN, manager.pc \in Phases, Stop(p, block)
  PROVE  /\ process' \in Processes /\ \A q \in Procs : process'[q].alive = process[q].alive
         /\ Join \/ (Next_i /\ (block => ~process[p].alive))
  <1>1. CASE IsDead(p) /\ process' = [process EXCEPT ![p].proc = FALSE, ![p].shutting_down = FALSE] /\ Next_i
    <2> DEFINE r == [process[p] EXCEPT !.proc = FALSE, !.shutting_down = FALSE]
    <2>1. process' = [process EXCEPT ![p] = r]
      BY <1>1 DEF ManagerType, Processes
    <2>2. r \in [proc : BOOLEAN, alive : BOOLEAN, shutting_down : BOOLEAN] /\ r.alive = process[p].alive
      BY DEF ManagerType, Processes
    <2> HIDE DEF r
    <2> QED
      BY <1>1, <2>1, <2>2 DEF ManagerType, Processes, IsDead
  <1>2. CASE process' = [process EXCEPT ![p].shutting_down = TRUE] /\ (IF block THEN Join ELSE Next_i)
    BY <1>2 DEF ManagerType, Processes
  <1>3. CASE Join /\ UNCHANGED process
    BY <1>3 DEF ManagerType
  <1> QED
    BY <1>1, <1>2, <1>3 DEF Stop

-----------------------------------------------------------------------------
\* While manager cleans up, every process before the one whose turn it is is dead, and none is
\* started again.
Killed ==
  /\ manager.pc = "kill" \/ (manager.pc = "join" /\ manager.after = "kill") =>
       \A j \in 1..(manager.i - 1) : ~process[Order[j]].alive
  /\ manager.pc = "done" => \A p \in Procs : ~process[p].alive

Inv == ManagerType /\ Killed

\* Nothing comes to life.
NobodyStarts == \A p \in Procs : process'[p].alive => process[p].alive

\* While the turn stays where it is and nothing comes to life, the killed stay dead.
LEMMA KilledStays ==
  ASSUME Inv, NobodyStarts,
         manager'.pc = manager.pc /\ manager'.i = manager.i /\ manager'.after = manager.after
  PROVE  Killed'
  <1>1. manager.i \in 1..Len(Order) /\ \A j \in 1..Len(Order) : Order[j] \in Procs
    BY SupervisionAssumption DEF Inv, ManagerType, Managers, Procs
  <1> QED
    BY <1>1, SupervisionAssumption DEF Inv, Killed, NobodyStarts

\* manager starts with nothing killed and nothing to kill.
LEMMA InitInv == Init => Inv
  <1> SUFFICES ASSUME Init PROVE Inv
    OBVIOUS
  <1>1. manager \in Managers
    BY SupervisionAssumption DEF Init, Managers, Phases
  <1>2. process \in Processes
    BY DEF Init, Dead, Processes
  <1> QED
    BY <1>1, <1>2 DEF Init, Inv, ManagerType, Killed

\* The first loop of ensure_running stops and restarts, before anything is killed.
LEMMA StopLoopInv == ASSUME Inv, StopLoop PROVE Inv'
  <1> DEFINE p == Order[manager.i]
  <1>1. p \in Procs /\ manager \in Managers /\ manager.pc = "stop" /\ process \in Processes
    BY SupervisionAssumption DEF Inv, ManagerType, Managers, Procs, StopLoop
  <1>2. deviceState' = deviceState /\ started' = started
    BY DEF StopLoop, ManagerUnchanged, hardwared
  <1>3. CASE should_run(p)
    <2> DEFINE m == [manager EXCEPT !.running = @ \cup {p}]
    <2>1. m \in Managers /\ m.pc = "stop"
      BY <1>1 DEF Managers
    <2>2. manager' = IF m.i < Len(Order) THEN [m EXCEPT !.i = @ + 1] ELSE [m EXCEPT !.i = 1, !.pc = "start"]
      BY <1>3 DEF StopLoop
    <2> HIDE DEF m
    <2>3. manager' \in Managers /\ manager'.pc \in {"stop", "start"}
      <3>1. CASE m.i < Len(Order)
        <4> DEFINE i == m.i + 1
        <4>1. i \in 1..Len(Order)
          BY <2>1, <3>1, Sizes DEF Managers
        <4>2. manager' = [m EXCEPT !.i = i]
          BY <2>2, <3>1
        <4> HIDE DEF i
        <4> QED
          BY <2>1, <4>1, <4>2 DEF Managers
      <3>2. CASE ~(m.i < Len(Order))
        <4>1. manager' = [m EXCEPT !.i = 1, !.pc = "start"]
          BY <2>2, <3>2
        <4> QED
          BY <2>1, <4>1, Sizes DEF Managers, Phases
      <3> QED
        BY <3>1, <3>2
    <2>4. process' \in Processes
      BY <1>1, <1>3, NewType DEF StopLoop
    <2> QED
      BY <1>2, <2>3, <2>4 DEF Inv, ManagerType, Killed
  <1>4. CASE ~should_run(p)
    <2>1. Stop(p, FALSE)
      BY <1>4 DEF StopLoop
    <2>2. process' \in Processes /\ (Join \/ Next_i)
      BY <1>1, <2>1, StopType DEF Inv, Phases
    <2>3. /\ manager' \in Managers
          /\ manager'.pc \in {"stop", "start"} \/ (manager'.pc = "join" /\ manager'.after = "stop")
      BY <1>1, <2>2, NextType, JoinType DEF Phases
    <2> QED
      BY <1>2, <2>2, <2>3 DEF Inv, ManagerType, Killed
  <1> QED
    BY <1>3, <1>4

\* The second loop of ensure_running starts, before anything is killed.
LEMMA StartLoopInv == ASSUME Inv, StartLoop PROVE Inv'
  <1> DEFINE p == Order[manager.i]
  <1>1. p \in Procs /\ manager \in Managers /\ manager.pc = "start" /\ process \in Processes
    BY SupervisionAssumption DEF Inv, ManagerType, Managers, Procs, StartLoop
  <1>2. deviceState' = deviceState /\ started' = started
    BY DEF StartLoop, ManagerUnchanged, hardwared
  <1>3. Join \/ Next_i
    BY DEF StartLoop
  <1>4. process' \in Processes
    BY <1>1, NewType DEF StartLoop
  <1>5. manager' \in Managers
        /\ (manager'.pc \in {"start", "signal", "wait"} \/ (manager'.pc = "join" /\ manager'.after = "start"))
    BY <1>1, <1>3, NextType, JoinType DEF Phases
  <1> QED
    BY <1>2, <1>4, <1>5 DEF Inv, ManagerType, Killed

\* manager_cleanup goes on to the next process only when this one is dead.
LEMMA CleanupInv == ASSUME Inv, Cleanup PROVE Inv'
  <1> DEFINE p == Order[manager.i]
  <1>1. p \in Procs /\ manager \in Managers /\ process \in Processes /\ \A j \in 1..Len(Order) : Order[j] \in Procs
    BY SupervisionAssumption DEF Inv, ManagerType, Managers, Procs
  <1>2. deviceState' = deviceState /\ started' = started
    BY DEF Cleanup, ManagerUnchanged, hardwared
  <1>3. CASE manager.pc = "signal" /\ Stop(p, FALSE)
    <2>1. process' \in Processes /\ (Join \/ Next_i)
      BY <1>1, <1>3, StopType DEF Inv, Phases
    <2>2. manager' \in Managers
          /\ \/ manager'.pc = "signal" \/ (manager'.pc = "join" /\ manager'.after = "signal")
             \/ manager'.pc = "kill" /\ manager'.i = 1
      BY <1>1, <1>3, <2>1, NextType, JoinType DEF Phases
    <2> QED
      BY <1>2, <2>1, <2>2 DEF Inv, ManagerType, Killed
  <1>4. CASE manager.pc = "kill" /\ Stop(p, TRUE)
    <2>1. /\ process' \in Processes /\ \A q \in Procs : process'[q].alive = process[q].alive
          /\ Join \/ (Next_i /\ ~process[p].alive)
      BY <1>1, <1>4, StopType DEF Inv, Phases
    <2>2. \A j \in 1..(manager.i - 1) : ~process[Order[j]].alive
      BY <1>4 DEF Inv, Killed
    <2>3. manager' \in Managers
      BY <1>1, <1>4, <2>1, NextType, JoinType DEF Phases
    <2>4. CASE Join
      <3>1. manager'.pc = "join" /\ manager'.i = manager.i
        BY <1>1, <1>4, <2>4, JoinType DEF Phases
      <3>2. \A j \in 1..(manager.i - 1) : ~process'[Order[j]].alive
        BY <1>1, <2>1, <2>2, SupervisionAssumption DEF Managers
      <3> QED
        BY <1>2, <2>1, <2>3, <3>1, <3>2 DEF Inv, ManagerType, Killed
    <2>5. CASE Next_i /\ ~process[p].alive
      <3>0. manager.i \in 1..Len(Order) /\ Len(Order) \in Nat
        BY <1>1, SupervisionAssumption DEF Managers
      <3>1. \A j \in 1..manager.i : ~process'[Order[j]].alive
        <4> TAKE j \in 1..manager.i
        <4>1. j \in 1..Len(Order) /\ (j = manager.i \/ j \in 1..(manager.i - 1))
          BY <3>0
        <4> QED
          BY <4>1, <1>1, <2>1, <2>2, <2>5
      <3>2. \/ manager'.pc = "kill" /\ manager'.i = manager.i + 1
            \/ manager'.pc = "done" /\ manager.i = Len(Order)
        BY <1>1, <1>4, <2>5, NextType DEF Phases
      <3>3. CASE manager'.pc = "kill" /\ manager'.i = manager.i + 1
        <4>1. manager'.i - 1 = manager.i
          BY <3>0, <3>3
        <4> QED
          BY <1>2, <2>1, <2>3, <3>1, <3>3, <4>1 DEF Inv, ManagerType, Killed
      <3>4. CASE manager'.pc = "done" /\ manager.i = Len(Order)
        <4>1. \A q \in Procs : ~process'[q].alive
          BY <3>1, <3>4, SupervisionAssumption DEF Procs
        <4> QED
          BY <1>2, <2>1, <2>3, <3>4, <4>1 DEF Inv, ManagerType, Killed
      <3> QED
        BY <3>2, <3>3, <3>4
    <2> QED
      BY <2>1, <2>4, <2>5
  <1> QED
    BY <1>3, <1>4 DEF Cleanup

\* A join returns to its phase with a dead process.
LEMMA JoinedInv == ASSUME Inv, Joined PROVE Inv'
  <1> DEFINE p == Order[manager.i]
  <1>1. p \in Procs /\ manager \in Managers /\ process \in Processes /\ manager.pc = "join"
    BY SupervisionAssumption DEF Inv, ManagerType, Managers, Procs, Joined
  <1>2. deviceState' = deviceState /\ started' = started
    BY DEF Joined, ManagerUnchanged, hardwared
  <1>3. process' \in Processes /\ NobodyStarts
    BY <1>1 DEF Joined, Processes, NobodyStarts
  <1>4. /\ manager' \in Managers /\ manager'.pc = manager.after /\ manager'.i = manager.i
        /\ manager'.after = manager.after /\ manager.after \in Phases
    BY <1>1 DEF Joined, Managers
  <1>5. \A j \in 1..(manager.i - 1) : Order[j] \in Procs
    BY <1>1, SupervisionAssumption DEF Managers, Procs
  <1>6. Killed'
    BY <1>1, <1>3, <1>4, <1>5 DEF Inv, Killed, NobodyStarts, Phases
  <1> QED
    BY <1>2, <1>3, <1>4, <1>6 DEF Inv, ManagerType

\* hardwared lets time pass in a join and touches no process.
LEMMA FrameInv == ASSUME Inv, Frame PROVE Inv'
  <1>1. process' = process
    BY DEF Frame
  <1>2. manager' = IF manager.pc = "join" THEN [manager EXCEPT !.timer = @ - 1] ELSE manager
    BY DEF Frame
  <1>3. /\ manager' \in Managers /\ manager'.pc = manager.pc /\ manager'.i = manager.i
        /\ manager'.after = manager.after
    BY <1>2 DEF Inv, ManagerType, Managers
  <1>4. deviceState'.started \in BOOLEAN /\ started' \in BOOLEAN
    <2>1. \/ UNCHANGED <<started, deviceState>>
          \/ \E others, drained \in BOOLEAN : Iterate(others, drained)
      BY Zenon DEF Frame
    <2>2. ASSUME NEW others \in BOOLEAN, NEW drained \in BOOLEAN, Iterate(others, drained)
          PROVE  deviceState'.started \in BOOLEAN /\ started' \in BOOLEAN
      <3>1. started' \in BOOLEAN /\ deviceState' = [started |-> started', new |-> TRUE]
        BY <2>2 DEF Iterate
      <3> QED
        BY <3>1
    <2> QED
      BY <2>1, <2>2 DEF Inv, ManagerType
  <1>5. Killed'
    BY <1>1, <1>3, KilledStays DEF NobodyStarts
  <1> QED
    BY <1>1, <1>3, <1>4, <1>5 DEF Inv, ManagerType

\* Every step preserves the invariant.
LEMMA NextInv == Inv /\ [Next]_vars => Inv'
  <1> SUFFICES ASSUME Inv, [Next]_vars PROVE Inv'
    OBVIOUS
  <1>1. CASE UNCHANGED <<manager, process, deviceState, started>>
    BY <1>1 DEF Inv, ManagerType, Killed
  <1>2. CASE UNCHANGED vars \/ User
    BY <1>1, <1>2 DEF vars, hardwared, User, RequestCycle, DriverView, Reboot, RequestUnchanged
  <1>3. CASE Update
    <2>1. manager' \in Managers /\ manager'.pc = "stop"
      <3>1. manager' = [manager EXCEPT !.pc = "stop", !.i = 1, !.started = deviceState.started, !.running = {}]
        BY <1>3 DEF Update
      <3> QED
        BY <3>1, Sizes DEF Inv, ManagerType, Managers, Phases
    <2>2. process' = process /\ started' = started
      BY <1>3 DEF Update, hardwared
    <2>3. deviceState'.started \in BOOLEAN
      BY <1>3 DEF Update, Inv, ManagerType
    <2> QED
      BY <2>1, <2>2, <2>3 DEF Inv, ManagerType, Killed
  <1>4. CASE Terminate
    <2>1. manager' \in Managers /\ manager'.pc = "signal"
      <3>1. manager' = [manager EXCEPT !.pc = "signal", !.i = 1]
        BY <1>4 DEF Terminate
      <3> QED
        BY <3>1, Sizes DEF Inv, ManagerType, Managers, Phases
    <2>2. UNCHANGED <<process, deviceState, started>>
      BY <1>4 DEF Terminate, hardwared
    <2> QED
      BY <2>1, <2>2 DEF Inv, ManagerType, Killed
  <1>5. ASSUME NEW p \in Procs, Exit(p) PROVE Inv'
    <2>1. process' \in Processes /\ NobodyStarts
      BY <1>5 DEF Exit, Inv, ManagerType, Processes, NobodyStarts
    <2>2. UNCHANGED <<manager, deviceState, started>>
      BY <1>5 DEF Exit, hardwared
    <2>3. Killed'
      BY <2>1, <2>2, KilledStays
    <2> QED
      BY <2>1, <2>2, <2>3 DEF Inv, ManagerType
  <1>6. CASE Abort
    <2>1. manager' = [manager EXCEPT !.pc = "aborted"] /\ UNCHANGED <<process, deviceState, started>>
      BY <1>6 DEF Abort, ManagerUnchanged, hardwared
    <2>2. manager' \in Managers /\ manager'.pc = "aborted"
      BY <2>1 DEF Inv, ManagerType, Managers
    <2> QED
      BY <2>1, <2>2 DEF Inv, ManagerType, Killed
  <1> QED
    BY <1>2, <1>3, <1>4, <1>5, <1>6, FrameInv, StopLoopInv, StartLoopInv, JoinedInv, CleanupInv DEF Next, Manager

\* When manager_cleanup gets to its end everything is dead, however many processes there are and
\* wherever in its loop manager was told to end: no process is started after its turn to be killed.
\* (A SIGTERM during manager_cleanup itself keeps it from getting there.)
THEOREM LeavesNothing == Spec => []EverythingIsDead
  <1>1. Inv => EverythingIsDead
    BY DEF Inv, Killed, EverythingIsDead
  <1> QED
    BY InitInv, NextInv, <1>1, PTL DEF Spec

-----------------------------------------------------------------------------
(* What a pass of ensure_running leaves behind.  AtRest says it of the end of a pass only, and is   *)
(* not inductive: Pass says what the first loop has done with the processes whose turn is over, and *)
(* then the second one.                                                                             *)

\* A process that should not run has been told to stop.
Told(p) == p \notin manager.running => (process[p].alive => process[p].shutting_down)

\* A process that should run was started after it was last told to stop.
Begun(p) == p \in manager.running => process[p].proc /\ ~process[p].shutting_down

\* manager is in this phase of its pass, or waits for a process in it.
In(phase) == manager.pc = phase \/ (manager.pc = "join" /\ manager.after = phase)

Pass ==
  /\ IsOffroad = ~manager.started
  /\ In("stop")  => \A j \in 1..(manager.i - 1) : Told(Order[j])
  /\ In("start") => /\ \A p \in Procs : Told(p)
                    /\ \A j \in 1..(manager.i - 1) : Begun(Order[j])
  /\ manager.pc = "wait" => \A p \in Procs : Told(p) /\ Begun(p)

\* A turn changes neither what should run nor what manager has acted on.
LEMMA TurnKeeps ==
  ASSUME manager \in Managers, Next_i \/ Join
  PROVE  manager'.running = manager.running /\ manager'.started = manager.started
  BY DEF Managers, Next_i, Join

\* The turns up to this one are those before it and this one.
LEMMA TurnsUpTo ==
  ASSUME manager \in Managers, NEW j \in 1..manager.i
  PROVE  j \in 1..Len(Order) /\ (j \in 1..(manager.i - 1) \/ j = manager.i)
  BY SupervisionAssumption DEF Managers

\* The death of a process undoes neither.
LEMMA DeathKeeps ==
  ASSUME process \in Processes, NEW p \in Procs, process' = [process EXCEPT ![p].alive = FALSE],
         manager'.running = manager.running
  PROVE  \A q \in Procs : (Told(q) => Told(q)') /\ (Begun(q) => Begun(q)')
  BY DEF Processes, Told, Begun

\* A stop that is not waited for tells the process, or finds it dead; one that waits changes nothing
\* before the join.
LEMMA StopTells ==
  ASSUME process \in Processes, NEW p \in Procs, Stop(p, FALSE)
  PROVE  /\ \A q \in Procs : q # p => process'[q] = process[q]
         /\ \/ Next_i /\ (process'[p].alive => process'[p].shutting_down)
            \/ Join /\ UNCHANGED process
  <1>1. CASE IsDead(p) /\ process' = [process EXCEPT ![p].proc = FALSE, ![p].shutting_down = FALSE] /\ Next_i
    <2> DEFINE r == [process[p] EXCEPT !.proc = FALSE, !.shutting_down = FALSE]
    <2>1. process' = [process EXCEPT ![p] = r] /\ ~r.alive
      BY <1>1 DEF Processes, IsDead
    <2> HIDE DEF r
    <2> QED
      BY <1>1, <2>1 DEF Processes
  <1>2. CASE process' = [process EXCEPT ![p].shutting_down = TRUE] /\ Next_i
    BY <1>2 DEF Processes
  <1>3. CASE Join /\ UNCHANGED process
    BY <1>3
  <1> QED
    BY <1>1, <1>2, <1>3 DEF Stop

\* The first loop tells what should not run.
LEMMA StopLoopPass == ASSUME Inv, Pass, StopLoop PROVE Pass'
  <1> DEFINE p == Order[manager.i]
  <1>1. /\ p \in Procs /\ manager \in Managers /\ manager.pc = "stop" /\ process \in Processes
        /\ \A j \in 1..Len(Order) : Order[j] \in Procs
        /\ \A q \in Procs : \E j \in 1..Len(Order) : Order[j] = q
    BY SupervisionAssumption DEF Inv, ManagerType, Managers, Procs, StopLoop
  <1>2. IsOffroad' = IsOffroad /\ \A j \in 1..(manager.i - 1) : Told(Order[j])
    BY <1>1 DEF StopLoop, Pass, In
  <1>3. ASSUME manager'.started = manager.started, \A j \in 1..manager.i : Told(Order[j])',
               \/ manager'.pc = "stop" /\ manager'.i = manager.i + 1
               \/ manager'.pc = "start" /\ manager'.i = 1 /\ manager.i = Len(Order)
        PROVE  Pass'
    <2>1. CASE manager'.pc = "stop" /\ manager'.i = manager.i + 1
      <3>1. manager'.i - 1 = manager.i
        BY <1>1, <2>1 DEF Managers
      <3> QED
        BY <1>2, <1>3, <2>1, <3>1 DEF Pass, In
    <2>2. CASE manager'.pc = "start" /\ manager'.i = 1 /\ manager.i = Len(Order)
      <3>1. \A q \in Procs : Told(q)'
        BY <1>1, <1>3, <2>2
      <3> QED
        BY <1>2, <1>3, <2>2, <3>1 DEF Pass, In
    <2> QED
      BY <1>3, <2>1, <2>2
  <1>4. CASE should_run(p)
    <2> DEFINE m == [manager EXCEPT !.running = @ \cup {p}]
    <2>1. m \in Managers /\ m.pc = "stop" /\ m.i = manager.i /\ m.started = manager.started
          /\ m.running = manager.running \cup {p}
      BY <1>1 DEF Managers
    <2>2. manager' = IF m.i < Len(Order) THEN [m EXCEPT !.i = @ + 1] ELSE [m EXCEPT !.i = 1, !.pc = "start"]
      BY <1>4 DEF StopLoop
    <2> HIDE DEF m
    <2>3. /\ manager'.started = manager.started /\ manager'.running = manager.running \cup {p}
          /\ \/ manager'.pc = "stop" /\ manager'.i = manager.i + 1
             \/ manager'.pc = "start" /\ manager'.i = 1 /\ manager.i = Len(Order)
      BY <2>1, <2>2, SupervisionAssumption DEF Managers
    <2>4. \A q \in Procs : q # p => process'[q] = process[q]
      BY <1>1, <1>4 DEF StopLoop, New, Processes
    <2>5. \A j \in 1..manager.i : Told(Order[j])'
      <3> TAKE j \in 1..manager.i
      <3> QED
        BY <1>1, <1>2, <2>3, <2>4, TurnsUpTo DEF Told
    <2> QED
      BY <1>3, <2>3, <2>5
  <1>5. CASE ~should_run(p)
    <2>1. Stop(p, FALSE)
      BY <1>5 DEF StopLoop
    <2>2. \A q \in Procs : q # p => process'[q] = process[q]
      BY <1>1, <2>1, StopTells
    <2>3. CASE Next_i /\ (process'[p].alive => process'[p].shutting_down)
      <3>1. manager'.running = manager.running /\ manager'.started = manager.started
        BY <1>1, <2>3, TurnKeeps
      <3>2. \/ manager'.pc = "stop" /\ manager'.i = manager.i + 1
            \/ manager'.pc = "start" /\ manager'.i = 1 /\ manager.i = Len(Order)
        BY <1>1, <2>3, NextType DEF Phases
      <3>3. \A j \in 1..manager.i : Told(Order[j])'
        <4> TAKE j \in 1..manager.i
        <4> QED
          BY <1>1, <1>2, <2>2, <2>3, <3>1, TurnsUpTo DEF Told
      <3> QED
        BY <1>3, <3>1, <3>2, <3>3
    <2>4. CASE Join /\ UNCHANGED process
      <3>1. /\ manager'.running = manager.running /\ manager'.started = manager.started
            /\ manager'.pc = "join" /\ manager'.after = "stop" /\ manager'.i = manager.i
        BY <1>1, <2>4, TurnKeeps, JoinType DEF Phases
      <3> QED
        BY <1>2, <2>4, <3>1 DEF Pass, In, Told
    <2> QED
      BY <1>1, <2>1, <2>3, <2>4, StopTells
  <1> QED
    BY <1>4, <1>5

\* The second loop starts what should run, after its end when it was told to stop.
LEMMA StartLoopPass == ASSUME Inv, Pass, StartLoop PROVE Pass'
  <1> DEFINE p == Order[manager.i]
  <1>1. /\ p \in Procs /\ manager \in Managers /\ manager.pc = "start" /\ process \in Processes
        /\ \A j \in 1..Len(Order) : Order[j] \in Procs
        /\ \A q \in Procs : \E j \in 1..Len(Order) : Order[j] = q
    BY SupervisionAssumption DEF Inv, ManagerType, Managers, Procs, StartLoop
  <1>2. /\ IsOffroad' = IsOffroad
        /\ \A q \in Procs : Told(q)
        /\ \A j \in 1..(manager.i - 1) : Begun(Order[j])
    BY <1>1 DEF StartLoop, Pass, In
  <1>3. CASE Join /\ UNCHANGED process
    <2>1. /\ manager'.running = manager.running /\ manager'.started = manager.started
          /\ manager'.pc = "join" /\ manager'.after = "start" /\ manager'.i = manager.i
      BY <1>1, <1>3, TurnKeeps, JoinType DEF Phases
    <2> QED
      BY <1>2, <1>3, <2>1 DEF Pass, In, Told, Begun
  <1>4. CASE /\ Next_i
             /\ \/ p \in manager.running /\ New(p)
                \/ UNCHANGED process /\ (p \notin manager.running \/ (process[p].proc /\ ~MustStopFirst(p)))
    <2>1. manager'.running = manager.running /\ manager'.started = manager.started
      BY <1>1, <1>4, TurnKeeps
    <2>2. p \in manager.running => process'[p].proc /\ ~process'[p].shutting_down
      BY <1>1, <1>4 DEF New, MustStopFirst, Processes
    <2>3. \A q \in Procs : q # p => process'[q] = process[q]
      BY <1>1, <1>4 DEF New, Processes
    <2>4. \A q \in Procs : Told(q)'
      BY <1>2, <1>4, <2>1, <2>3 DEF Told
    <2>5. \A j \in 1..manager.i : Begun(Order[j])'
      <3> TAKE j \in 1..manager.i
      <3> QED
        BY <1>1, <1>2, <2>1, <2>2, <2>3, TurnsUpTo DEF Begun
    <2>6. CASE manager'.pc = "start" /\ manager'.i = manager.i + 1
      <3>1. manager'.i - 1 = manager.i
        BY <1>1, <2>6 DEF Managers
      <3> QED
        BY <1>2, <2>1, <2>4, <2>5, <2>6, <3>1 DEF Pass, In
    <2>7. CASE manager'.pc \in {"signal", "wait"} /\ manager.i = Len(Order)
      <3>1. \A q \in Procs : Begun(q)'
        BY <1>1, <2>5, <2>7
      <3> QED
        BY <1>2, <2>1, <2>4, <2>7, <3>1 DEF Pass, In
    <2> QED
      BY <1>1, <1>4, <2>6, <2>7, NextType DEF Phases
  <1> QED
    BY <1>3, <1>4 DEF StartLoop

\* manager_cleanup is not part of a pass.
LEMMA CleanupPass == ASSUME Inv, Pass, Cleanup PROVE Pass'
  <1>1. /\ manager \in Managers /\ manager.pc \in {"signal", "kill"} /\ (Next_i \/ Join)
        /\ IsOffroad' = IsOffroad
    BY DEF Inv, ManagerType, Cleanup, Stop
  <1>2. manager'.started = manager.started
    BY <1>1, TurnKeeps
  <1>3. ~In("stop")' /\ ~In("start")' /\ manager'.pc # "wait"
    BY <1>1, NextType, JoinType DEF Phases, In
  <1> QED
    BY <1>1, <1>2, <1>3 DEF Pass

\* A join goes on in its phase, with one process dead.
LEMMA JoinedPass == ASSUME Inv, Pass, Joined PROVE Pass'
  <1> DEFINE p == Order[manager.i]
  <1>1. /\ p \in Procs /\ manager \in Managers /\ process \in Processes /\ manager.pc = "join"
        /\ \A j \in 1..(manager.i - 1) : Order[j] \in Procs
    BY SupervisionAssumption DEF Inv, ManagerType, Managers, Procs, Joined
  <1>2. /\ manager'.pc = manager.after /\ manager.after \in Phases /\ manager'.i = manager.i
        /\ manager'.running = manager.running /\ manager'.started = manager.started
        /\ IsOffroad' = IsOffroad
    BY <1>1 DEF Joined, Managers
  <1>3. \A q \in Procs : (Told(q) => Told(q)') /\ (Begun(q) => Begun(q)')
    BY <1>1, <1>2, DeathKeeps DEF Joined
  <1> QED
    BY <1>1, <1>2, <1>3 DEF Pass, In, Phases

\* What happens while manager does nothing keeps Pass when it only ends processes.
LEMMA OthersPass ==
  ASSUME Inv, Pass, IsOffroad' = IsOffroad,
         \A q \in Procs : (Told(q) => Told(q)') /\ (Begun(q) => Begun(q)'),
         manager'.pc = manager.pc, manager'.after = manager.after, manager'.i = manager.i,
         manager'.started = manager.started
  PROVE  Pass'
  <1>1. \A j \in 1..(manager.i - 1) : Order[j] \in Procs
    BY SupervisionAssumption DEF Inv, ManagerType, Managers, Procs
  <1> QED
    BY <1>1 DEF Pass, In

\* Every step preserves what a pass has done so far.
LEMMA NextPass == Inv /\ Pass /\ [Next]_vars => Pass'
  <1> SUFFICES ASSUME Inv, Pass, [Next]_vars PROVE Pass'
    OBVIOUS
  <1>1. CASE UNCHANGED <<manager, process, IsOffroad>>
    BY <1>1 DEF Pass, In, Told, Begun
  <1>2. CASE UNCHANGED vars \/ User
    BY <1>1, <1>2 DEF vars, User, RequestCycle, DriverView, Reboot, RequestUnchanged
  <1>3. CASE Frame
    <2>1. /\ UNCHANGED <<process, IsOffroad>>
          /\ manager' = IF manager.pc = "join" THEN [manager EXCEPT !.timer = @ - 1] ELSE manager
      BY <1>3 DEF Frame
    <2>2. /\ manager'.pc = manager.pc /\ manager'.after = manager.after /\ manager'.i = manager.i
          /\ manager'.started = manager.started /\ manager'.running = manager.running
      BY <2>1 DEF Inv, ManagerType, Managers
    <2> QED
      BY <2>1, <2>2, OthersPass DEF Told, Begun
  <1>4. CASE Update
    <2>1. manager.pc = "wait" /\ IsOffroad' = ~deviceState.started
          /\ manager' = [manager EXCEPT !.pc = "stop", !.i = 1, !.started = deviceState.started, !.running = {}]
      BY <1>4 DEF Update
    <2>2. manager'.pc = "stop" /\ manager'.i = 1 /\ manager'.started = deviceState.started
      BY <2>1 DEF Inv, ManagerType, Managers
    <2> QED
      BY <2>1, <2>2 DEF Pass, In
  <1>5. CASE Terminate
    <2>1. manager'.pc = "signal" /\ manager'.started = manager.started /\ IsOffroad' = IsOffroad
      BY <1>5 DEF Terminate, Inv, ManagerType, Managers
    <2> QED
      BY <2>1 DEF Pass, In
  <1>6. ASSUME NEW p \in Procs, Exit(p) PROVE Pass'
    <2>1. process' = [process EXCEPT ![p].alive = FALSE] /\ UNCHANGED <<manager, IsOffroad>>
      BY <1>6 DEF Exit
    <2>2. \A q \in Procs : (Told(q) => Told(q)') /\ (Begun(q) => Begun(q)')
      BY <2>1, DeathKeeps DEF Inv, ManagerType
    <2> QED
      BY <2>1, <2>2, OthersPass
  <1>7. CASE Abort
    <2>1. manager'.pc = "aborted" /\ manager'.started = manager.started /\ IsOffroad' = IsOffroad
      BY <1>7 DEF Abort, Inv, ManagerType, Managers
    <2> QED
      BY <2>1 DEF Pass, In
  <1> QED
    BY <1>2, <1>3, <1>4, <1>5, <1>6, <1>7, StopLoopPass, StartLoopPass, JoinedPass, CleanupPass DEF Next, Manager

\* When manager waits for the next message, what should run was started after it was last told to
\* stop, and what should not was told: whatever died, crashed or blocked during the pass, in whatever
\* order and however many processes there are.
THEOREM RestsWhenDone == Spec => []AtRest
  <1>1. Init => Inv /\ Pass
    <2> SUFFICES ASSUME Init PROVE Pass
      BY InitInv
    <2>1. IsOffroad = TRUE /\ manager.started = FALSE /\ manager.pc = "stop" /\ manager.i = 1
      BY DEF Init
    <2>2. IsOffroad = ~manager.started
      BY <2>1, Zenon
    <2>3. 1..(manager.i - 1) = {}
      BY <2>1
    <2> QED
      BY <2>1, <2>2, <2>3 DEF Pass, In
  <1>2. Pass => AtRest
    BY DEF Pass, AtRest, Told, Begun
  <1> QED
    BY <1>1, <1>2, NextInv, NextPass, PTL DEF Spec

-----------------------------------------------------------------------------
\* A device that is still too hot is not in the band "ok".
Warm ==
  /\ thermal_status \in {"ok", "overheated", "critical"}
  /\ hot => thermal_status # "ok"

\* A hot device is in a band above ok until it has cooled down.
LEMMA ThermalWarm ==
  ASSUME Warm, NEW temp \in Int, NEW offroad \in Int, NEW long \in BOOLEAN, Thermal(temp, offroad, long)
  PROVE  Warm'
  <1>1. thermal_status' = "critical" \/ thermal_status' = NextBand(thermal_status, temp)
    BY DEF Thermal
  <1>2. hot' <=> (hot \/ thermal_status' = "critical") /\ temp >= 88
    BY DEF Thermal, MinTemp
  <1>3. NextBand("ok", temp) \in {"ok", "overheated"}
    BY DEF NextBand, Higher
  <1>4. NextBand("overheated", temp) \in {"ok", "overheated", "critical"}
        /\ (temp >= 88 => NextBand("overheated", temp) # "ok")
    BY DEF NextBand, MinTemp, MaxTemp, Higher, Lower
  <1>5. NextBand("critical", temp) \in {"overheated", "critical"}
    BY DEF NextBand, MinTemp, Lower
  <1> QED
    BY <1>1, <1>2, <1>3, <1>4, <1>5 DEF Warm

\* An iteration of hardwared keeps that and starts no hot device.
LEMMA FrameWarm ==
  ASSUME Warm, Frame
  PROVE  Warm' /\ (~started /\ started' => ~hot')
  <1>1. CASE UNCHANGED <<thermal_status, hot, started>>
    BY <1>1 DEF Warm
  <1>2. CASE ~UNCHANGED <<thermal_status, hot, started>>
    <2>1. /\ \E temp \in Temps : \E offroad \in {t \in Temps : t <= temp} :
               \E long \in {~started_seen, TRUE} : Thermal(temp, offroad, ~started /\ long)
          /\ \E others, drained \in BOOLEAN : Iterate(others, drained)
      BY <1>2, Zenon DEF Frame
    <2>2. \E temp, offroad \in Int : \E long \in BOOLEAN : Thermal(temp, offroad, long)
      BY <2>1, SupervisionAssumption
    <2>3. Warm'
      BY <2>2, ThermalWarm
    <2>4. ~started /\ started' => thermal_status' = "ok"
      BY <2>1 DEF Iterate
    <2> QED
      BY <2>3, <2>4 DEF Warm
  <1> QED
    BY <1>1, <1>2

\* A device that got too hot cools down below the lower limit before it goes onroad, whatever the
\* temperatures, the conditions and the time it was offroad.
THEOREM CoolAtStart == Spec => StartsCool
  <1>1. Init => Warm
    BY DEF Init, Warm
  <1>2. Warm /\ [Next]_vars => Warm' /\ [~started /\ started' => ~hot']_vars
    <2> SUFFICES ASSUME Warm, [Next]_vars PROVE Warm' /\ (~started /\ started' => ~hot')
      OBVIOUS
    <2>1. CASE UNCHANGED <<thermal_status, hot, started>>
      BY <2>1 DEF Warm
    <2>2. CASE UNCHANGED vars \/ Manager \/ Terminate \/ Abort \/ User \/ \E p \in Procs : Exit(p)
      BY <2>1, <2>2, Zenon DEF vars, hardwared, Manager, Update, StopLoop, StartLoop, Joined, Cleanup,
         ManagerUnchanged, Terminate, Abort, User, RequestCycle, DriverView, Reboot, RequestUnchanged, Exit
    <2> QED
      BY <2>2, FrameWarm DEF Next
  <1> QED
    BY <1>1, <1>2, PTL DEF Spec, StartsCool
=============================================================================
