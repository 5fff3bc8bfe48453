--------------------------- MODULE DriverMonitoring ---------------------------
(***************************************************************************)
(* The driver monitoring policy of dmonitoringd, and what selfdrived makes *)
(* of it.  With every output of the driver model dmonitoringd takes the    *)
(* driver's awareness down or up, under one of two policies: vision, as    *)
(* long as it sees a face and is certain, or the touch of the wheel.  An   *)
(* awareness used up is a red alert; too many of them, or one that lasts,  *)
(* lock the driver out.  selfdrived denies engagement during a lockout and *)
(* keeps it in a param for the time after the processes restart.           *)
(*                                                                         *)
(* Awareness is counted in Units, and a step is the awareness of a frame.  *)
(* Of the distraction filter only its place relative to the two limits is  *)
(* kept.  The pose, its calibration, the side of the wheel, the driver     *)
(* view (demo) and frames without valid messages, which change nothing,    *)
(* are left out.                                                           *)
(***************************************************************************)
EXTENDS Integers, Sequences

CONSTANTS
  Inputs,           \* those of a frame
  Unit,             \* awareness 1.
  Floor,            \* awareness -0.1
  Step,             \* of each policy: DT_DMON / _ALERT_3_TIMEOUT
  Alert1, Alert2,   \* of each policy: the thresholds
  FallbackFrames,   \* _HI_STD_FALLBACK_TIME
  NoResponseFrames, \* no_response_timeout
  MAX_ALERT_3,
  MAX_NO_RESPONSE,
  LOCKOUT_TIMES,
  MaxAway,          \* bound on the history of inattention
  MaxRestarts       \* bound on onroad cycles and ignitions

\* What a frame sees: no face, one that the model is uncertain of (high std), or of which it tells
\* whether it is distracted.  And what the car says.
InputRecord == [driver : {"nobody", "uncertain", "attentive", "distracted"},
                driver_engaged : BOOLEAN, lowspeed : BOOLEAN, wrong_gear : BOOLEAN]

ASSUME InputAssumption == Inputs \subseteq InputRecord

Policies == {"vision", "wheeltouch"}

ASSUME PolicyAssumption ==
  /\ Unit \in Nat \ {0} /\ Floor \in Int /\ Floor < 0
  /\ {Step, Alert1, Alert2} \subseteq [Policies -> Nat \ {0}]
  /\ \A p \in Policies : Step[p] <= Alert2[p] /\ Alert2[p] < Alert1[p] /\ Alert1[p] < Unit

ASSUME LockoutAssumption ==
  /\ {FallbackFrames, NoResponseFrames, MAX_ALERT_3, MAX_NO_RESPONSE} \subseteq Nat \ {0}
  /\ LOCKOUT_TIMES \in Seq(Nat \ {0}) /\ LOCKOUT_TIMES # <<>>
  /\ {MaxAway, MaxRestarts} \subseteq Nat

VARIABLES
  awareness,
  last_awareness,        \* last_vision_awareness and last_wheeltouch_awareness
  active_policy,
  distraction_filter,    \* low, mid or high
  hi_stds,
  always_on,             \* the toggle AlwaysOnDM
  lockout,               \* the counters of red alerts and of the lockout
  driverMonitoringState, \* the last message
  DriverTooDistracted,   \* the param; DriverLockoutCount is lockout.count
  dm_lockout_set,
  enabled,               \* selfdriveState.enabled
  restarts,
  away,                  \* history: frames of an engaged driver without attention since the last recovery
  owed                   \* history: frames of a lockout, once selfdrived has it in the param

policyVars == <<awareness, last_awareness, active_policy, distraction_filter, hi_stds, always_on>>
selfdrived == <<DriverTooDistracted, dm_lockout_set, enabled>>
vars == <<policyVars, lockout, driverMonitoringState, selfdrived, restarts, away, owed>>

Smaller(a, b) == IF a < b THEN a ELSE b
Larger(a, b)  == IF a > b THEN a ELSE b

FullAwareness == [p \in Policies |-> Unit]

NoMessage == [valid |-> FALSE, lockout |-> FALSE, alwaysOnLockout |-> FALSE, new |-> FALSE]

NoLockout == [active |-> FALSE, count |-> 0, time_elapsed |-> 0, alert_3_cnt |-> 0,
              cnt_since_alert_3 |-> 0, no_response_cnt |-> 0]

Init ==
  /\ awareness = Unit /\ last_awareness = FullAwareness
  /\ active_policy = "vision"
  /\ distraction_filter = "low" /\ hi_stds = 0
  /\ always_on \in BOOLEAN
  /\ lockout = NoLockout
  /\ driverMonitoringState = NoMessage
  /\ DriverTooDistracted = FALSE /\ dm_lockout_set = FALSE /\ enabled = FALSE
  /\ restarts = 0 /\ away = 0 /\ owed = 0

-----------------------------------------------------------------------------
(* dmonitoringd: _update_states *)

Face(in)       == in.driver # "nobody"
Distracted(in) == in.driver = "distracted"

\* driver_distraction_filter.update: x moves by a sixth of the way to 0 or 1, the limits are .37
\* and .63.
Filtered(in) ==
  IF Distracted(in)
  THEN [low |-> {"low", "mid"}, mid |-> {"mid", "high"}, high |-> {"high"}][distraction_filter]
  ELSE [low |-> {"low"}, mid |-> {"low", "mid"}, high |-> {"mid", "high"}][distraction_filter]

is_model_uncertain == hi_stds >= FallbackFrames

TargetPolicy(in) == IF Face(in) /\ ~is_model_uncertain THEN "vision" ELSE "wheeltouch"

\* Defect: a red alert of the wheel does not keep its policy.
SetPolicy_AfterRed(target) ==
  LET kept == [awareness |-> awareness, last |-> last_awareness, policy |-> active_policy,
               step |-> Step[active_policy]] IN
  IF active_policy = "vision" /\ awareness <= Alert2["vision"]
  THEN [kept EXCEPT !.step = IF target = "vision" THEN @ ELSE 0]
  ELSE IF target = active_policy THEN kept
  ELSE [awareness |-> last_awareness[target], policy |-> target, step |-> Step[target],
        last |-> [last_awareness EXCEPT ![active_policy] = awareness]]

\* Defect: a policy that comes back starts anew.
SetPolicy_Anew(target) ==
  LET kept == [awareness |-> awareness, last |-> last_awareness, policy |-> active_policy,
               step |-> Step[active_policy]] IN
  IF active_policy = "vision" /\ awareness <= Alert2["vision"]
  THEN [kept EXCEPT !.step = IF target = "vision" THEN @ ELSE 0]
  ELSE IF awareness <= 0 \/ target = active_policy THEN kept
  ELSE [kept EXCEPT !.awareness = Unit, !.policy = target, !.step = Step[target]]

\* _set_policy: the thresholds are those of the policy, the step too unless vision has reached
\* orange ("no exploit after orange alert").  Each policy has an awareness of its own.
SetPolicy(target) ==
  LET kept == [awareness |-> awareness, last |-> last_awareness, policy |-> active_policy,
               step |-> Step[active_policy]] IN
  IF active_policy = "vision" /\ awareness <= Alert2["vision"]
  THEN [kept EXCEPT !.step = IF target = "vision" THEN @ ELSE 0]
  ELSE IF awareness <= 0 \/ target = active_policy THEN kept
  ELSE [awareness |-> last_awareness[target], policy |-> target, step |-> Step[target],
        last |-> [last_awareness EXCEPT ![active_policy] = awareness]]

HiStds(in) ==
  CASE in.driver = "uncertain" -> Smaller(hi_stds + 1, FallbackFrames)
    [] in.driver = "nobody"    -> hi_stds
    [] OTHER                   -> 0

-----------------------------------------------------------------------------
(* dmonitoringd: _update_events, with the result s of _set_policy *)

Duration(l) == LOCKOUT_TIMES[Smaller(Larger(l.count, 1), Len(LOCKOUT_TIMES))]

\* Defect: the time of a lockout does not pass.
Elapse_Never(l) == l

\* A frame of a lockout, after which a driver starts with a clean slate.
Elapse(l) ==
  IF ~l.active THEN l
  ELSE IF l.time_elapsed + 1 > Duration(l) THEN [NoLockout EXCEPT !.count = l.count]
  ELSE [l EXCEPT !.time_elapsed = @ + 1]

\* Counts beyond the limits they are compared with are all alike.
Lock ==
  LET locks == /\ ~lockout.active
               /\ \/ lockout.alert_3_cnt >= MAX_ALERT_3
                  \/ lockout.no_response_cnt >= MAX_NO_RESPONSE
  IN Elapse(IF locks THEN [lockout EXCEPT !.active = TRUE,
                                          !.count = Smaller(@ + 1, Len(LOCKOUT_TIMES))]
            ELSE lockout)

\* A frame with a red alert
Red(l, reached) ==
  LET since == IF reached THEN 0 ELSE Smaller(l.cnt_since_alert_3 + 1, NoResponseFrames + 1) IN
  [l EXCEPT !.alert_3_cnt = IF reached THEN Smaller(@ + 1, MAX_ALERT_3) ELSE @,
            !.cnt_since_alert_3 = since,
            !.no_response_cnt = IF since = NoResponseFrames THEN Smaller(@ + 1, MAX_NO_RESPONSE) ELSE @]

AlwaysOnValid(in) == always_on /\ ~in.wrong_gear

\* Disengaging resets the awareness; when monitoring is always on, only on red.
Resets(s, in) ==
  \/ in.driver_engaged /\ s.awareness > 0 /\ s.policy = "wheeltouch"
  \/ ~enabled /\ (AlwaysOnValid(in) => s.awareness <= 0)

LowspeedExemption(s, in) == in.lowspeed /\ s.awareness - s.step <= Alert1[s.policy]

\* Defect: monitoring that is always on counts to the end.
AlwaysOnExemption_Never(s, in) == FALSE

AlwaysOnExemption(s, in) == AlwaysOnValid(in) /\ ~enabled /\ s.awareness - s.step <= 0

\* "only restore awareness when paying attention and alert is not red"
Recovers(s, in, filter) ==
  /\ s.awareness > 0
  /\ (filter = "low" /\ in.driver \in {"attentive", "distracted"}) \/ LowspeedExemption(s, in)

\* By 1.25 steps near full awareness, by 5 near none.
Recovered(s) ==
  Smaller(s.awareness + ((375 * (Unit - s.awareness) + 125 * Unit) * s.step) \div (100 * Unit), Unit)

\* certainly_distracted or maybe_distracted
Inattentive(in, filter) ==
  (filter = "high" /\ Distracted(in)) \/ is_model_uncertain \/ ~Face(in)

Counted(s, a) == Larger(a - s.step, Floor)

ResetAwareness(s) ==
  /\ awareness' = Unit /\ last_awareness' = FullAwareness
  /\ lockout' = Lock
  /\ away' = 0

UpdateEvents(s, in, filter) ==
  LET recovers == Recovers(s, in, filter)
      a == IF recovers THEN Recovered(s) ELSE s.awareness
      recovered == recovers /\ a > Alert2[s.policy]
      exempt == LowspeedExemption(s, in) \/ AlwaysOnExemption(s, in)
  IN
  IF Resets(s, in) \/ (recovers /\ in.driver_engaged) THEN ResetAwareness(s)
  ELSE /\ last_awareness' = [s.last EXCEPT !["wheeltouch"] =
                               IF recovers /\ a = Unit THEN Smaller(@ + s.step, Unit) ELSE @]
       /\ awareness' = IF Inattentive(in, filter) /\ ~recovered /\ ~exempt THEN Counted(s, a) ELSE a
       /\ lockout' = IF awareness' <= 0 THEN Red(Lock, s.awareness > 0) ELSE Lock
       /\ away' = IF recovers \/ ~enabled THEN 0
                  ELSE IF Inattentive(in, filter) THEN Smaller(away + 1, MaxAway) ELSE away

\* A frame of dmonitoringd.  selfdrived, five times as fast, has had the last message.
Frame ==
  /\ ~driverMonitoringState.new
  /\ \E in \in Inputs : \E filter \in Filtered(in) :
       LET s == SetPolicy(TargetPolicy(in)) IN
       /\ distraction_filter' = filter
       /\ active_policy' = s.policy
       /\ hi_stds' = HiStds(in)
       /\ UpdateEvents(s, in, filter)
  /\ driverMonitoringState' =
       [valid |-> TRUE, new |-> TRUE, lockout |-> lockout'.active,
        alwaysOnLockout |-> always_on /\ awareness' <= Alert2[active_policy']]
  /\ owed' = IF owed = 0 THEN 0 ELSE owed - 1
  /\ UNCHANGED <<always_on, selfdrived, restarts>>

\* The user changes AlwaysOnDM, which is looked at between frames.
Toggle ==
  /\ ~driverMonitoringState.new
  /\ always_on' = ~always_on
  /\ UNCHANGED <<awareness, last_awareness, active_policy, distraction_filter, hi_stds, lockout,
                 driverMonitoringState, selfdrived, restarts, away, owed>>

-----------------------------------------------------------------------------
(* selfdrived *)

TooDistracted == driverMonitoringState.lockout \/ driverMonitoringState.alwaysOnLockout

\* "Block engaging until lockout times out or ignition reset": the param, and the event tooDistracted.
\* A missing message denies engagement too.  The driver disengages when he likes.
Selfdrived ==
  LET dm == driverMonitoringState IN
  /\ dm.valid
  /\ driverMonitoringState' = [dm EXCEPT !.new = FALSE]
  /\ DriverTooDistracted' = IF dm.lockout # dm_lockout_set THEN dm.lockout ELSE DriverTooDistracted
  /\ dm_lockout_set' = dm.lockout
  /\ owed' = IF dm.lockout /\ ~dm_lockout_set
             THEN Duration(lockout) - lockout.time_elapsed + 1 ELSE owed
  /\ enabled' \in IF enabled \/ ~TooDistracted THEN BOOLEAN ELSE {FALSE}
  /\ UNCHANGED <<policyVars, lockout, restarts, away>>

-----------------------------------------------------------------------------
(* manager *)

\* Defect: a new dmonitoringd knows nothing of the lockout.
SavedLockout_Forgotten == FALSE

SavedLockout == DriverTooDistracted

\* Both processes start: an onroad cycle, or an ignition, which clears the params.
Restart(cleared) ==
  /\ restarts < MaxRestarts
  /\ restarts' = restarts + 1
  /\ awareness' = Unit /\ last_awareness' = FullAwareness /\ active_policy' = "vision"
  /\ distraction_filter' = "low" /\ hi_stds' = 0 /\ away' = 0
  /\ always_on' = always_on
  /\ lockout' = IF cleared THEN NoLockout
                ELSE [NoLockout EXCEPT !.active = SavedLockout, !.count = lockout.count]
  /\ driverMonitoringState' = NoMessage
  /\ DriverTooDistracted' = (DriverTooDistracted /\ ~cleared)
  /\ dm_lockout_set' = FALSE /\ enabled' = FALSE
  /\ owed' = IF cleared THEN 0 ELSE owed

Next == Frame \/ Toggle \/ Selfdrived \/ Restart(FALSE) \/ Restart(TRUE)

Spec == Init /\ [][Next]_vars /\ WF_vars(Frame) /\ WF_vars(Selfdrived)

-----------------------------------------------------------------------------
\* Only disengaging clears a red alert: neither attention, the wheel, another policy nor a low speed
\* does (_set_policy, and the test of the "biggest comma fan").
RedStays == [][awareness <= 0 /\ awareness' > 0 => ~enabled']_vars

\* Monitoring that is always on "will not be reaching 0 if DM is active when not engaged", whatever
\* the policies have put by.
NoRedWhenDisengaged == [][awareness > 0 /\ awareness' <= 0 => enabled]_vars

\* The frame in which an engaged driver without attention is at orange at the latest: vision comes down
\* to it, but an orange alert of the wheel ends when a face appears, a red one does not.
FramesToOrange ==
  LET Frames(p, limit) == (Unit - limit + Step[p] - 1) \div Step[p]
  IN Frames("vision", Alert2["vision"]) + Frames("wheeltouch", 0) - 1

\* An engaged driver without attention comes to orange and stays there: appearing and disappearing,
\* or being uncertain to the model, gains no more time than both policies allow together (_set_policy
\* keeps the awareness of the other one).
InattentionBounded == enabled /\ away >= FramesToOrange => awareness <= Alert2[active_policy]

\* "Block engaging until lockout times out or ignition reset": also when the processes restart during
\* a lockout that selfdrived has put.
LockoutServed == [][~enabled /\ enabled' => owed = 0]_vars

\* A lockout does not stay in the param, which would lock the driver out after every onroad cycle.
TooDistractedEnds == DriverTooDistracted ~> ~DriverTooDistracted
=============================================================================
