---------------------------- MODULE EngagementLoop ----------------------------
(***************************************************************************)
(* The loop around selfdrived: the car's cruise control starts and stops   *)
(* an engagement, selfdrived publishes selfdriveState, controlsd turns it  *)
(* into carControl, pandad forwards it to the panda as a heartbeat and     *)
(* reports the panda's consent back in pandaStates.  Every arrow is a      *)
(* conflated message, so each process works on what it last received, and  *)
(* selfdrived may die without a word.                                      *)
(*                                                                         *)
(* The panda firmware is not part of the repository: it gives its consent  *)
(* when cruise control comes on, and takes it back when cruise control     *)
(* goes off or when heartbeats say that openpilot is not engaged.          *)
(***************************************************************************)
EXTENDS Engagement

VARIABLES
  cruise,            \* carState.cruiseState.enabled
  CS_prev,           \* cruise as selfdrived saw it in its last frame
  running,           \* selfdrived is alive
  selfdriveState,    \* last message of selfdrived
  alive,             \* SubMaster of pandad: selfdriveState is recent
  carControl,        \* last message of controlsd
  controlsAllowed,   \* panda: actuator commands pass
  heartbeatEngaged,  \* panda: engaged flag of the last heartbeat
  pandaStates        \* last message of pandad: controlsAllowed

loop == <<cruise, CS_prev, running, selfdriveState, alive, carControl,
          controlsAllowed, heartbeatEngaged, pandaStates>>
loopVars == <<vars, loop>>

LoopInit ==
  /\ Init
  /\ cruise = FALSE
  /\ CS_prev = FALSE
  /\ running = TRUE
  /\ selfdriveState = [enabled |-> FALSE, active |-> FALSE]
  /\ alive = FALSE
  /\ carControl = [enabled |-> FALSE, latActive |-> FALSE]
  /\ controlsAllowed = FALSE
  /\ heartbeatEngaged = FALSE
  /\ pandaStates = FALSE

\* CarSpecificEvents.create_common_events, for a car whose cruise control engages openpilot.
CruiseEvents ==
  IF ~cruise THEN {"pcmDisable"} ELSE IF ~CS_prev THEN {"pcmEnable"} ELSE {}

\* One frame of selfdrived: in is what it samples besides the car and the panda.  The
\* histories of lengths, which no property of the loop is about, stay as they are.
Selfdrived(in) ==
  LET sampled == [in EXCEPT !.car = @ \cup CruiseEvents,
                            !.panda = IF pandaStates THEN "allowed" ELSE "denied"] IN
  /\ running
  /\ SelfdriveStep(sampled)
  /\ unhealthy' = Unhealthy(sampled)
  /\ selfdriveState' = [enabled |-> Enabled(state'), active |-> Active(state')]
  /\ CS_prev' = cruise
  /\ alive' = TRUE
  /\ UNCHANGED <<softRun, mismatchRun, cruise, running, carControl, controlsAllowed,
                 heartbeatEngaged, pandaStates>>

SelfdrivedStep == \E in \in Inputs : Selfdrived(in)

\* selfdrived crashes: it is not restarted before the next drive.
Crash ==
  /\ running
  /\ running' = FALSE
  /\ UNCHANGED <<vars, cruise, CS_prev, selfdriveState, alive, carControl,
                 controlsAllowed, heartbeatEngaged, pandaStates>>

\* Its last message grows too old for a SubMaster.
SelfdriveStateTimeout ==
  /\ ~running /\ alive
  /\ alive' = FALSE
  /\ UNCHANGED <<vars, cruise, CS_prev, running, selfdriveState, carControl,
                 controlsAllowed, heartbeatEngaged, pandaStates>>

\* Defect: once enabled, carControl is only refreshed while selfdrived stays enabled.
CarControl_Latched(faulted) ==
  IF selfdriveState.enabled \/ ~carControl.enabled
  THEN [enabled |-> selfdriveState.enabled, latActive |-> selfdriveState.active /\ ~faulted]
  ELSE carControl

CarControl(faulted) ==
  [enabled |-> selfdriveState.enabled, latActive |-> selfdriveState.active /\ ~faulted]

\* Controls.state_control works on the last selfdriveState, however old: faulted stands for
\* the car's steering faults and for standstill.
Controlsd ==
  /\ \E faulted \in BOOLEAN : carControl' = CarControl(faulted)
  /\ UNCHANGED <<vars, cruise, CS_prev, running, selfdriveState, alive,
                 controlsAllowed, heartbeatEngaged, pandaStates>>

\* Defect: the age of selfdriveState is not looked at.
Engaged_Unchecked == selfdriveState.enabled

Engaged == alive /\ selfdriveState.enabled

\* The 10 Hz branch of pandad's loop: process_panda_state publishes the panda's state, then
\* sends the heartbeat.
Pandad ==
  /\ pandaStates' = controlsAllowed
  /\ heartbeatEngaged' = Engaged
  /\ UNCHANGED <<vars, cruise, CS_prev, running, selfdriveState, alive, carControl, controlsAllowed>>

\* The car's cruise control comes on or goes off, which the panda sees on the CAN bus.
Cruise ==
  /\ cruise' = ~cruise
  /\ controlsAllowed' = cruise'
  /\ UNCHANGED <<vars, CS_prev, running, selfdriveState, alive, carControl, heartbeatEngaged, pandaStates>>

\* The panda has heard for too long that openpilot is not engaged.
HeartbeatMismatch ==
  /\ controlsAllowed /\ ~heartbeatEngaged
  /\ controlsAllowed' = FALSE
  /\ UNCHANGED <<vars, cruise, CS_prev, running, selfdriveState, alive, carControl, heartbeatEngaged, pandaStates>>

LoopNext ==
  \/ SelfdrivedStep \/ Crash \/ SelfdriveStateTimeout
  \/ Controlsd \/ Pandad
  \/ Cruise \/ HeartbeatMismatch

\* The processes and the panda's clock run at fixed rates.  Nothing makes the driver act or
\* selfdrived die.
LoopFairness ==
  /\ WF_loopVars(SelfdrivedStep)
  /\ WF_loopVars(SelfdriveStateTimeout)
  /\ WF_loopVars(Controlsd)
  /\ WF_loopVars(Pandad)
  /\ WF_loopVars(HeartbeatMismatch)

LoopSpec == LoopInit /\ [][LoopNext]_loopVars /\ LoopFairness

-----------------------------------------------------------------------------
\* When the driver cancels cruise control and leaves it off, the panda stops passing
\* actuator commands for good, and controlsd stops asking unless selfdrived is dead.
CancelReleases ==
  <>[]~cruise => <>[](~controlsAllowed /\ (running => ~carControl.enabled /\ ~carControl.latActive))

\* A dead selfdrived leaves its last selfdriveState behind, and controlsd actuates on it for
\* ever; pandad's heartbeat still makes the panda block the commands, every time.
DeadSelfdrivedBlocked == [](~running => <>~controlsAllowed)

\* selfdrived and the panda do not disagree for ever: an engagement that the panda does not
\* consent to ends, even when the driver keeps asking for another.
DisagreementEnds == []<>(~running \/ ~Enabled(state) \/ pandaStates)

\* A failure that lasts takes the actuators away for good in the loop too: whatever the
\* panda and the driver do, no engagement slips through.
UnhealthyReleases == <>[](running /\ unhealthy) => <>[]~selfdriveState.active
=============================================================================
