------------------------------ MODULE Engagement ------------------------------
(***************************************************************************)
(* selfdrived: the 100 Hz process that decides whether openpilot is        *)
(* engaged.  One Step of its loop samples the inputs (data_sample), turns  *)
(* them into onroad events (update_events) and runs the engagement state   *)
(* machine on the types of those events (StateMachine.update).  The step   *)
(* reads everything once, so it is one action; what differs from frame to  *)
(* frame are its inputs, a record of type Inputs.                          *)
(*                                                                         *)
(* An event stands for every row of the EVENTS table with the same event   *)
(* types.  Alerts are left out, and with them the types WARNING and        *)
(* PERMANENT, which only select alerts.                                    *)
(***************************************************************************)
EXTENDS Integers

CONSTANTS
  SoftDisableFrames,  \* int(SOFT_DISABLE_TIME / DT_CTRL): 300 frames
  MismatchLimit,      \* the mismatch_counter that disengages: 200 frames
  InitFrames,         \* frames after which invalid inputs are no longer waited for: 600
  SafetyFrames,       \* frames pandad gets to set the safety mode: 1000
  Inputs              \* what a frame may sample, a set of InputRecords

ASSUME SoftDisableFramesAssumption == SoftDisableFrames \in Nat \ {0}
ASSUME MismatchLimitAssumption == MismatchLimit \in Nat \ {0}
ASSUME FramesAssumption ==
  InitFrames \in Nat /\ SafetyFrames \in Nat /\ InitFrames <= SafetyFrames

-----------------------------------------------------------------------------
(* Events and their types. *)

CarEvents == {"pcmEnable", "preEnableStandstill", "steerOverride", "gasPressedOverride",
              "pcmDisable", "pedalPressed", "speedTooLow", "doorOpen", "belowEngageSpeed"}

SystemEvents == {"processNotRunning", "canError", "commIssue", "bigModelLoading",
                 "controlsMismatch", "selfdriveInitializing"}

SoftDisableEvents == {"doorOpen", "processNotRunning", "commIssue"}

NoEntryEvents ==
  SoftDisableEvents \cup
  {"controlsMismatch", "canError", "pedalPressed", "belowEngageSpeed",
   "bigModelLoading", "selfdriveInitializing"}

\* The EVENTS table read by column: the events that carry an event type.
EVENTS ==
  [enable           |-> {"pcmEnable"},
   preEnable        |-> {"preEnableStandstill"},
   override         |-> {"steerOverride", "gasPressedOverride"},
   userDisable      |-> {"pcmDisable", "pedalPressed"},
   softDisable      |-> SoftDisableEvents,
   immediateDisable |-> {"speedTooLow", "controlsMismatch", "canError"},
   noEntry          |-> NoEntryEvents]

\* Events.contains
Contains(evs, et) == evs \cap EVENTS[et] # {}

-----------------------------------------------------------------------------
(* The engagement state machine, state.py. *)

ACTIVE_STATES  == {"enabled", "softDisabling", "overriding"}
ENABLED_STATES == {"preEnabled"} \cup ACTIVE_STATES
States         == {"disabled"} \cup ENABLED_STATES

Enabled(st) == st \in ENABLED_STATES
Active(st)  == st \in ACTIVE_STATES

TimerDown(t) == IF t > 0 THEN t - 1 ELSE 0

\* Defect: soft disabling never runs out.
SoftDisabling_NoTimeout(t, evs) ==
  IF Contains(evs, "softDisable") THEN "softDisabling" ELSE "enabled"

\* The branch of a soft-disabling state whose timer, already decremented, is t.
SoftDisabling(t, evs) ==
  IF ~Contains(evs, "softDisable") THEN "enabled"
  ELSE IF t > 0 THEN "softDisabling" ELSE "disabled"

EnabledOrOverriding(evs) ==
  IF Contains(evs, "softDisable") THEN "softDisabling"
  ELSE IF Contains(evs, "override") THEN "overriding" ELSE "enabled"

Disabled(evs) ==
  IF ~Contains(evs, "enable") \/ Contains(evs, "noEntry") THEN "disabled"
  ELSE IF Contains(evs, "preEnable") THEN "preEnabled"
  ELSE IF Contains(evs, "override") THEN "overriding" ELSE "enabled"

NextState(st, t, evs) ==
  IF st = "disabled" THEN Disabled(evs)
  ELSE IF Contains(evs, "immediateDisable") \/ Contains(evs, "userDisable") THEN "disabled"
  ELSE CASE st = "preEnabled"    -> IF Contains(evs, "preEnable") THEN st ELSE "enabled"
         [] st = "softDisabling" -> SoftDisabling(t, evs)
         [] OTHER                -> EnabledOrOverriding(evs)

\* Defect: the timer is rearmed in every frame spent soft disabling.
NextTimer_Rearmed(st, t, evs) ==
  IF NextState(st, t, evs) = "softDisabling" THEN SoftDisableFrames ELSE t

NextTimer(st, t, evs) ==
  IF st # "softDisabling" /\ NextState(st, t, evs) = "softDisabling"
  THEN SoftDisableFrames ELSE t

-----------------------------------------------------------------------------
(* What a frame samples.  A panda that is silent or has no output is not asked for its *)
(* consent; that one and a panda still set up for diagnostics ("elm327") are not in    *)
(* the safety mode that CarParams demand.                                              *)

InputRecord ==
  [car         : SUBSET CarEvents,
   canValid    : BOOLEAN,                          \* CS.canValid
   allChecks   : BOOLEAN,                          \* sm.all_checks()
   processesOk : BOOLEAN,                          \* managerState: no process is missing
   bigModel    : {"idle", "loading", "settling"},
   panda       : {"allowed", "denied", "elm327", "silent"}]

ASSUME InputsAssumption == Inputs \subseteq InputRecord

Denied(in)         == in.panda \in {"denied", "elm327"}
SafetyMismatch(in) == in.panda \in {"elm327", "silent"}

VARIABLES
  passive,             \* CP.passive: dashcam mode, fixed when the process starts
  state,               \* StateMachine.state
  soft_disable_timer,  \* StateMachine.soft_disable_timer
  initialized,         \* SelfdriveD.initialized
  frame,               \* sm.frame, which only matters up to SafetyFrames
  mismatch_counter,    \* SelfdriveD.mismatch_counter
  events,              \* SelfdriveD.events of the last frame
  softRun,             \* history: consecutive active frames with a SOFT_DISABLE event
  mismatchRun,         \* history: consecutive samples of the panda's refusal while enabled
  unhealthy            \* history: the last frame saw a failure of the system

code == <<passive, state, soft_disable_timer, initialized, frame, mismatch_counter, events>>
vars == <<code, softRun, mismatchRun, unhealthy>>

-----------------------------------------------------------------------------
(* data_sample *)

SampledFrame == IF frame <= SafetyFrames THEN frame + 1 ELSE frame

Initialized(in) ==
  initialized \/ (in.canValid /\ in.allChecks) \/ SampledFrame > InitFrames

\* Defect: a sample with the panda's consent restarts the count, and each refusal begins it.
MismatchCounter_Uncounted(in) == IF Denied(in) THEN 1 ELSE 0

MismatchCounter(in) ==
  IF ~Enabled(state) THEN 0
  ELSE IF Denied(in) THEN mismatch_counter + 1 ELSE mismatch_counter

(* update_events *)

LoadingEvents(in) == IF in.bigModel = "loading" THEN {"bigModelLoading"} ELSE {}

DriveEvents(in) ==
  (IF in.canValid THEN in.car ELSE {})
  \cup LoadingEvents(in)
  \cup (IF (SafetyMismatch(in) /\ SampledFrame > SafetyFrames) \/ MismatchCounter(in) >= MismatchLimit
        THEN {"controlsMismatch"} ELSE {})

MalfunctionEvents(in) ==
  (IF in.processesOk THEN {} ELSE {"processNotRunning"})
  \cup (IF in.canValid THEN {} ELSE {"canError"})

\* Defect: any event that disables hides the generic one, without asking that it also
\* blocks entry.
NoSystemErrors_AnyDisable(evs, malfunctions) ==
  ~(Contains(evs, "softDisable") \/ Contains(evs, "immediateDisable") \/ Contains(evs, "userDisable")
    \/ Contains(evs, "noEntry"))

\* commIssue is the catch-all: added unless a malfunction already says what is wrong.
NoSystemErrors(evs, malfunctions) ==
  \/ ~Contains(evs, "noEntry")
  \/ ~(Contains(evs, "softDisable") \/ Contains(evs, "immediateDisable"))
  \/ malfunctions = {}

Events(in) ==
  LET evs == DriveEvents(in) \cup MalfunctionEvents(in) IN
  IF ~Initialized(in) THEN LoadingEvents(in) \cup {"selfdriveInitializing"}
  ELSE IF passive THEN LoadingEvents(in)
  ELSE IF ~in.allChecks /\ NoSystemErrors(evs, MalfunctionEvents(in)) /\ in.bigModel = "idle"
       THEN evs \cup {"commIssue"}
       ELSE evs

-----------------------------------------------------------------------------
Init ==
  /\ passive \in BOOLEAN
  /\ state = "disabled"
  /\ soft_disable_timer = 0
  /\ initialized = FALSE
  /\ frame = 0
  /\ mismatch_counter = 0
  /\ events = {}
  /\ softRun = 0
  /\ mismatchRun = 0
  /\ unhealthy = FALSE

\* SelfdriveD.step
SelfdriveStep(in) ==
  /\ frame' = SampledFrame
  /\ initialized' = Initialized(in)
  /\ mismatch_counter' = MismatchCounter(in)
  /\ events' = Events(in)
  /\ IF ~passive /\ initialized'
     THEN /\ state' = NextState(state, TimerDown(soft_disable_timer), events')
          /\ soft_disable_timer' = NextTimer(state, TimerDown(soft_disable_timer), events')
     ELSE UNCHANGED <<state, soft_disable_timer>>
  /\ UNCHANGED passive

\* The system fails in a way that update_events looks for.
Unhealthy(in) ==
  ~in.canValid \/ ~in.processesOk \/ (~in.allChecks /\ in.bigModel = "idle")

\* What the properties remember of the frame.
History(in) ==
  /\ softRun' = IF Active(state') /\ Contains(events', "softDisable") THEN softRun + 1 ELSE 0
  /\ mismatchRun' = IF Enabled(state) /\ Denied(in) THEN mismatchRun + 1 ELSE 0
  /\ unhealthy' = Unhealthy(in)

Step == \E in \in Inputs : SelfdriveStep(in) /\ History(in)

Next == Step

\* The loop runs at the pace of its Ratekeeper and waits for nothing.
Spec == Init /\ [][Next]_vars /\ WF_vars(Step)

-----------------------------------------------------------------------------
\* Every variable keeps its type; the counters stay within their limits.
TypeOK ==
  /\ passive \in BOOLEAN
  /\ state \in States
  /\ soft_disable_timer \in 0..SoftDisableFrames
  /\ initialized \in BOOLEAN
  /\ frame \in 0..(SafetyFrames + 1)
  /\ mismatch_counter \in 0..MismatchLimit
  /\ events \in SUBSET (CarEvents \cup SystemEvents)
  /\ softRun \in Nat
  /\ mismatchRun \in Nat
  /\ unhealthy \in BOOLEAN

\* The actuators are released at most SoftDisableFrames + 1 frames into an uninterrupted
\* SOFT_DISABLE condition, however the state machine moves between enabled, overriding and
\* softDisabling meanwhile.  The extra frame is that of a preEnabled car that starts to move.
SoftDisableBounded == Active(state) => softRun <= SoftDisableFrames + 1

\* selfdrived is never still enabled after MismatchLimit consecutive samples in which the
\* panda denied control.
MismatchBounded == Enabled(state) => mismatchRun < MismatchLimit

\* Nobody engages in a frame in which the CAN bus, a process or the messages failed.
NoEntryWhenUnhealthy == [][Enabled(state') /\ ~Enabled(state) => ~unhealthy']_vars
=============================================================================
