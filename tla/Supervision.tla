----------------------------- MODULE Supervision -----------------------------
(***************************************************************************)
(* Going onroad and offroad.  hardwared decides with every frame of the    *)
(* panda whether the system should be onroad, and publishes deviceState.   *)
(* manager acts on the last one: it starts and stops its processes, one    *)
(* after the other, and sometimes waits for one of them to die.  The user  *)
(* interface asks for an onroad cycle, for the driver's view or for the    *)
(* end by means of params.                                                 *)
(*                                                                         *)
(* Time is counted in frames.  manager takes less than one for a pass,     *)
(* unless it waits.  A process that was told to stop may do so at once,    *)
(* later or not at all.  Alerts, power save, the fan, the message's other  *)
(* contents and IsEngaged, which nobody reads, are left out; the params    *)
(* that manager clears are in SafetySetup and Updated.                     *)
(***************************************************************************)
EXTENDS Integers, Sequences

CONSTANTS
  Order,            \* managed_processes
  Onroad,           \* those with only_onroad
  View,             \* those with driverview
  RestartIfCrash,   \* those of the rest, always_run, that restart_if_crash
  CycleFrames,      \* ONROAD_CYCLE_TIME * frequency
  PublishFrames,    \* frequency * DT_HW
  JoinFrames,       \* the five seconds of join_process
  Temps,            \* filtered temperatures
  MaxEdges,         \* bound on the edges of the ignition
  MaxRequests,      \* bound on what the user asks for
  MaxCrashes        \* bound on crashes

Procs == {Order[i] : i \in DOMAIN Order}

ASSUME SupervisionAssumption ==
  /\ Len(Order) \in Nat \ {0} /\ DOMAIN Order = 1..Len(Order)
  /\ Onroad \cup View \cup RestartIfCrash \subseteq Procs
  /\ Onroad \cap View = {} /\ RestartIfCrash \cap (Onroad \cup View) = {}
  /\ {CycleFrames, PublishFrames, JoinFrames} \subseteq Nat \ {0}
  /\ Temps \subseteq Int /\ {MaxEdges, MaxRequests, MaxCrashes} \subseteq Nat

VARIABLES
  frame,            \* sm.frame, modulo PublishFrames
  since_cycle,      \* sm.frame - offroad_cycle_count
  ignition,
  thermal_status,
  started,          \* started_ts is not None
  started_seen,
  deviceState,      \* the last message: started, and manager has yet to see it
  OnroadCycleRequested, IsDriverViewEnabled, IsOffroad,
  exit,             \* DoUninstall, DoShutdown or DoReboot
  manager,
  process,          \* what manager and the kernel know of each process
  edges, requests, crashes,
  older,            \* history: processes that run since before the last request to cycle
  waited,           \* history: manager was waiting for a process when the request was made
  hot               \* history: too hot, and not yet cool

hardwared == <<frame, since_cycle, ignition, thermal_status, started, started_seen, edges, hot>>
params    == <<OnroadCycleRequested, IsDriverViewEnabled, exit>>
asked     == <<requests, waited>>
vars == <<hardwared, deviceState, params, IsOffroad, manager, process, asked, crashes, older>>

Dead == [proc |-> FALSE, alive |-> FALSE, shutting_down |-> FALSE]

\* pc: the phase of manager's pass, i: the process whose turn it is, after: where a join returns to
Init ==
  /\ frame = 0 /\ since_cycle = 0
  /\ ignition = FALSE /\ thermal_status = "ok" /\ started = FALSE /\ started_seen = FALSE
  /\ deviceState = [started |-> FALSE, new |-> FALSE]
  /\ OnroadCycleRequested = FALSE /\ IsDriverViewEnabled = FALSE /\ IsOffroad = TRUE
  /\ exit = FALSE
  /\ manager = [pc |-> "stop", i |-> 1, after |-> "stop", timer |-> 0, started |-> FALSE, running |-> {}]
  /\ process = [p \in Procs |-> Dead]
  /\ edges = 0 /\ requests = 0 /\ crashes = 0
  /\ older = {} /\ waited = FALSE /\ hot = FALSE

-----------------------------------------------------------------------------
(* hardwared *)

\* THERMAL_BANDS (of a device other than mici)
MinTemp == [overheated |-> 88, critical |-> 94]
MaxTemp == [ok |-> 96, overheated |-> 107]
Lower   == [overheated |-> "ok", critical |-> "overheated"]
Higher  == [ok |-> "overheated", overheated |-> "critical"]
OFFROAD_DANGER_TEMP == 75

\* Defect: a band is left as soon as the next lower one would not be left for a higher one.
NextBand_NoHysteresis(band, temp) ==
  IF band # "ok" /\ temp <= MaxTemp[Lower[band]] THEN Lower[band]
  ELSE IF band # "critical" /\ temp > MaxTemp[band] THEN Higher[band] ELSE band

NextBand(band, temp) ==
  IF band # "ok" /\ temp < MinTemp[band] THEN Lower[band]
  ELSE IF band # "critical" /\ temp > MaxTemp[band] THEN Higher[band] ELSE band

\* Offroad for five minutes, or since the start, a hot device cools down first.
Thermal(temp, offroad_temp, is_offroad_for_5_min) ==
  /\ thermal_status' = IF is_offroad_for_5_min /\ offroad_temp > OFFROAD_DANGER_TEMP
                       THEN "critical" ELSE NextBand(thermal_status, temp)
  /\ hot' = ((hot \/ thermal_status' = "critical") /\ temp >= MinTemp["overheated"])

\* Defect: the cycle is over when it begins.
NotOnroadCycle_AtOnce(since) == since >= 0

NotOnroadCycle(since) == since >= CycleFrames

\* The rest of the loop: the conditions to start (free_space, accepted_terms... are one, others) and
\* to stay onroad, the message, and whether the car's battery allows to go on.
Iterate(others, drained) ==
  LET onroad  == ignition' /\ NotOnroadCycle(since_cycle') /\ thermal_status' # "critical"
      startup == others /\ ~IsDriverViewEnabled /\ thermal_status' = "ok"
  IN
  /\ started' = (onroad /\ (started \/ startup))
  /\ started_seen' = (started_seen \/ started')
  /\ exit' = (exit \/ (drained /\ ~started' /\ ~ignition' /\ started_seen'))
  /\ deviceState' = [started |-> started', new |-> TRUE]

\* manager has come to an end, and with it the model.
Over == manager.pc \in {"done", "aborted"}

\* What manager can do without waiting.
Busy ==
  CASE manager.pc = "wait" -> deviceState.new
    [] manager.pc = "join" -> ~process[Order[manager.i]].alive \/ manager.timer = 0
    [] Over                -> FALSE
    [] OTHER               -> TRUE

\* hardware_thread, once for every frame of the panda: the loop goes on at 2Hz and at both edges.
Frame ==
  /\ ~Busy /\ ~Over
  /\ OnroadCycleRequested' = FALSE
  /\ since_cycle' = IF OnroadCycleRequested THEN 0
                    ELSE IF since_cycle < CycleFrames THEN since_cycle + 1 ELSE CycleFrames
  /\ \/ UNCHANGED <<ignition, edges>>
     \/ edges < MaxEdges /\ ignition' = ~ignition /\ edges' = edges + 1
  /\ frame' = (frame + 1) % PublishFrames
  /\ LET ign_edge == started # (ignition' /\ NotOnroadCycle(since_cycle') /\ thermal_status # "critical")
     IN IF frame # 0 /\ ~ign_edge
        THEN UNCHANGED <<thermal_status, hot, started, started_seen, exit, deviceState>>
        ELSE /\ \E temp \in Temps : \E offroad_temp \in {t \in Temps : t <= temp} :
                  \E long \in {~started_seen, TRUE} : Thermal(temp, offroad_temp, ~started /\ long)
             /\ \E others, drained \in BOOLEAN : Iterate(others, drained)
  /\ manager' = IF manager.pc = "join" THEN [manager EXCEPT !.timer = @ - 1] ELSE manager
  /\ UNCHANGED <<IsDriverViewEnabled, IsOffroad, process, asked, crashes, older>>

-----------------------------------------------------------------------------
(* manager *)

ManagerUnchanged == UNCHANGED <<hardwared, deviceState, params, asked, crashes>>

\* The head of manager_thread's loop
Update ==
  /\ manager.pc = "wait" /\ deviceState.new
  /\ deviceState' = [deviceState EXCEPT !.new = FALSE]
  /\ manager' = [manager EXCEPT !.pc = "stop", !.i = 1, !.started = deviceState.started, !.running = {}]
  /\ IsOffroad' = ~deviceState.started
  /\ UNCHANGED <<hardwared, params, process, asked, crashes, older>>

\* The next process, or the next phase: ensure_running's two loops, those of manager_cleanup.
Next_i ==
  manager' =
    IF manager.i < Len(Order) THEN [manager EXCEPT !.i = @ + 1]
    ELSE [manager EXCEPT !.i = 1, !.pc = [stop   |-> "start", start |-> IF exit THEN "signal" ELSE "wait",
                                          signal |-> "kill",  kill  |-> "done"][manager.pc]]

Join == manager' = [manager EXCEPT !.pc = "join", !.after = manager.pc, !.timer = JoinFrames]

\* A new instance
New(p) ==
  /\ process' = [process EXCEPT ![p] = [proc |-> TRUE, alive |-> TRUE, shutting_down |-> FALSE]]
  /\ older' = older \ {p}

\* Defect: a process that was told to stop is taken for dead.
IsDead_Told(p) == process[p].shutting_down \/ ~process[p].alive

IsDead(p) == ~process[p].alive

\* ManagerProcess.stop, up to a join.  proc is forgotten when it has an exit code.
Stop(p, block) ==
  \/ /\ IsDead(p)
     /\ process' = [process EXCEPT ![p].proc = FALSE, ![p].shutting_down = FALSE]
     /\ Next_i
  \/ /\ ~IsDead(p) /\ ~process[p].shutting_down
     /\ process' = [process EXCEPT ![p].shutting_down = TRUE]
     /\ IF block THEN Join ELSE Next_i
  \/ /\ ~IsDead(p) /\ process[p].shutting_down
     /\ Join /\ UNCHANGED process

should_run(p) ==
  CASE p \in Onroad -> manager.started
    [] p \in View   -> manager.started \/ IsDriverViewEnabled
    [] OTHER        -> TRUE

\* The first loop of ensure_running stops, or restarts what has crashed.
StopLoop ==
  LET p == Order[manager.i] IN
  /\ manager.pc = "stop"
  /\ IF should_run(p)
     THEN /\ IF p \in RestartIfCrash /\ process[p].proc /\ ~process[p].alive
             THEN New(p) ELSE UNCHANGED <<process, older>>
          /\ LET m == [manager EXCEPT !.running = @ \cup {p}] IN
             manager' = IF m.i < Len(Order) THEN [m EXCEPT !.i = @ + 1] ELSE [m EXCEPT !.i = 1, !.pc = "start"]
     ELSE Stop(p, FALSE) /\ UNCHANGED older
  /\ ManagerUnchanged /\ UNCHANGED IsOffroad

\* Defect: start leaves alone whatever it has not seen the end of.
MustStopFirst_Never(p) == FALSE

\* "In case we only tried a non blocking stop we need to stop it before restarting"
MustStopFirst(p) == process[p].shutting_down

\* The second loop starts.
StartLoop ==
  LET p == Order[manager.i] IN
  /\ manager.pc = "start"
  /\ \/ /\ p \in manager.running /\ MustStopFirst(p) /\ process[p].alive
        /\ Join /\ UNCHANGED <<process, older>>
     \/ /\ p \in manager.running
        /\ (MustStopFirst(p) /\ ~process[p].alive) \/ ~process[p].proc
        /\ New(p) /\ Next_i
     \/ /\ p \notin manager.running \/ (process[p].proc /\ ~MustStopFirst(p))
        /\ Next_i /\ UNCHANGED <<process, older>>
  /\ ManagerUnchanged /\ UNCHANGED IsOffroad

\* join_process returns when the process is dead, or after its time: then it is killed.
Joined ==
  LET p == Order[manager.i] IN
  /\ manager.pc = "join" /\ (IsDead(p) \/ manager.timer = 0)
  /\ process' = [process EXCEPT ![p].alive = FALSE]
  /\ older' = older \ {p}
  /\ manager' = [manager EXCEPT !.pc = manager.after]
  /\ ManagerUnchanged /\ UNCHANGED IsOffroad

CleansUp ==
  LET cleanup == {"signal", "kill"}
  IN manager.pc \in cleanup \/ (manager.pc = "join" /\ manager.after \in cleanup)

\* SIGTERM ends the loop wherever it is.
Terminate ==
  /\ ~CleansUp /\ ~Over
  /\ requests < MaxRequests /\ requests' = requests + 1
  /\ manager' = [manager EXCEPT !.pc = "signal", !.i = 1]
  /\ UNCHANGED <<hardwared, deviceState, params, IsOffroad, process, waited, crashes, older>>

\* manager_cleanup
Cleanup ==
  /\ \/ manager.pc = "signal" /\ Stop(Order[manager.i], FALSE)
     \/ manager.pc = "kill" /\ Stop(Order[manager.i], TRUE)
  /\ ManagerUnchanged /\ UNCHANGED <<IsOffroad, older>>

\* The handler of SIGTERM is still there: one more ends manager_cleanup wherever it is, and what has
\* not been killed by then is left alone.
Abort ==
  /\ CleansUp
  /\ manager' = [manager EXCEPT !.pc = "aborted"]
  /\ ManagerUnchanged /\ UNCHANGED <<IsOffroad, process, older>>

-----------------------------------------------------------------------------
(* The processes and the user *)

Exit(p) ==
  /\ process[p].alive /\ ~Over
  /\ \/ process[p].shutting_down /\ UNCHANGED crashes
     \/ ~process[p].shutting_down /\ crashes < MaxCrashes /\ crashes' = crashes + 1
  /\ process' = [process EXCEPT ![p].alive = FALSE]
  /\ older' = older \ {p}
  /\ UNCHANGED <<hardwared, deviceState, params, IsOffroad, manager, asked>>

RequestUnchanged ==
  UNCHANGED <<hardwared, deviceState, IsOffroad, manager, process, crashes>>

Requests == ~Over /\ requests < MaxRequests /\ requests' = requests + 1

\* A toggle that needs a restart.  manager does not look at this param: a request during its pass
\* is like one after it.
RequestCycle ==
  /\ Requests /\ ~Busy
  /\ OnroadCycleRequested' = TRUE
  /\ older' = {p \in Onroad : process[p].alive}
  /\ waited' = (older' # {} /\ manager.pc = "join")
  /\ RequestUnchanged /\ UNCHANGED <<IsDriverViewEnabled, exit>>

DriverView ==
  /\ Requests
  /\ IsDriverViewEnabled' = ~IsDriverViewEnabled
  /\ RequestUnchanged /\ UNCHANGED <<OnroadCycleRequested, exit, waited, older>>

Reboot ==
  /\ Requests
  /\ exit' = TRUE
  /\ RequestUnchanged /\ UNCHANGED <<OnroadCycleRequested, IsDriverViewEnabled, waited, older>>

Manager == Update \/ StopLoop \/ StartLoop \/ Joined \/ Cleanup

User == RequestCycle \/ DriverView \/ Reboot

Next == Frame \/ Manager \/ Terminate \/ Abort \/ User \/ \E p \in Procs : Exit(p)

\* The panda sends frames and manager runs; nobody has to stop when told to.
Spec == Init /\ [][Next]_vars /\ WF_vars(Frame) /\ WF_vars(Manager)

-----------------------------------------------------------------------------
\* Whatever was still dying, crashing or blocking: when manager waits for the next message, IsOffroad
\* is what it has acted on, each process that should not run has been told to stop, and each one that
\* should has been started anew since it was last told (ensure_running).
AtRest ==
  manager.pc = "wait" =>
    /\ IsOffroad = ~manager.started
    /\ \A p \in Procs :
         IF p \in manager.running THEN process[p].proc /\ ~process[p].shutting_down
                                  ELSE process[p].alive => process[p].shutting_down

\* "everything is dead" when manager_cleanup gets to its end, also when manager was terminated in
\* the middle of a pass; a SIGTERM during manager_cleanup keeps it from getting there (Abort).
EverythingIsDead == manager.pc = "done" => \A p \in Procs : ~process[p].alive

\* "the manager cycles onroad, which is what re-reads params that are only read at process
\* construction": after a request, no onroad process goes on that was there before it.  (manager
\* may miss the cycle when it is waiting for a process already, and its cleanup may be ended.)
CycleRestarts == older # {} ~> older = {} \/ waited \/ manager.pc = "aborted"

\* A device that got too hot has cooled down below the band "overheated" before it goes onroad
\* again (THERMAL_BANDS).
StartsCool == [][~started /\ started' => ~hot']_vars
=============================================================================
