------------------------ MODULE DriverMonitoringProofs ------------------------
(***************************************************************************)
(* A red alert, a lockout and inattention, for every step, threshold and   *)
(* duration: only disengaging clears a red alert, only an engaged driver   *)
(* gets one, a lockout that selfdrived has put is served, whatever         *)
(* restarts, and inattention that lasts leads to an orange alert in time.  *)
(***************************************************************************)
EXTENDS DriverMonitoring, TLAPS

\* The awareness put by of a policy is never used up: a policy is left with awareness only.
PolicyInv ==
  /\ awareness \in Int /\ awareness <= Unit
  /\ last_awareness \in [Policies -> 1..Unit]
  /\ active_policy \in Policies
  /\ always_on \in BOOLEAN /\ enabled \in BOOLEAN

Lockouts ==
  [active : BOOLEAN, count : Nat, time_elapsed : Nat, alert_3_cnt : Nat, cnt_since_alert_3 : Nat,
   no_response_cnt : Nat]

Messages == [valid : BOOLEAN, lockout : BOOLEAN, alwaysOnLockout : BOOLEAN, new : BOOLEAN]

\* Only an active lockout has elapsed, by its duration at most.
WithinDuration(l) == IF l.active THEN l.time_elapsed <= Duration(l) ELSE l.time_elapsed = 0

\* While frames of a lockout are owed it is active, in the param and in the message, and there are
\* not more of them than it has left.
LockoutInv ==
  /\ lockout \in Lockouts
  /\ driverMonitoringState \in Messages
  /\ driverMonitoringState.valid => driverMonitoringState.lockout = lockout.active
  /\ DriverTooDistracted \in BOOLEAN /\ dm_lockout_set \in BOOLEAN
  /\ owed \in Nat
  /\ WithinDuration(lockout)
  /\ owed > 0 =>
       /\ lockout.active /\ DriverTooDistracted
       /\ owed <= Duration(lockout) - lockout.time_elapsed + 1

-----------------------------------------------------------------------------
\* Quotients of natural numbers are natural numbers: what recovers in a frame.
LEMMA DivNat ==
  ASSUME NEW x \in Nat, NEW d \in Nat \ {0}
  PROVE  x \div d \in Nat
  OBVIOUS

\* And so are products.
LEMMA TimesNat ==
  ASSUME NEW x \in Nat, NEW y \in Nat
  PROVE  x * y \in Nat
  OBVIOUS

\* A reset puts by awareness for both policies.
LEMMA FullPutBy == FullAwareness \in [Policies -> 1..Unit]
<1>1. Unit \in 1..Unit
  BY PolicyAssumption
<1> QED
  BY <1>1, Zenon DEF FullAwareness

\* _set_policy keeps awareness within its limits; it changes the policy only above red, and to an
\* awareness above red.
LEMMA SetPolicyKeeps ==
  ASSUME PolicyInv, NEW target \in Policies, NEW s, s = SetPolicy(target)
  PROVE  /\ s.awareness \in Int /\ s.awareness <= Unit
         /\ s.policy \in Policies /\ s.last \in [Policies -> 1..Unit]
         /\ s.step \in Nat
         /\ awareness <= 0 => s.awareness = awareness
         /\ awareness > 0 => s.awareness > 0
  BY PolicyAssumption, SMTT(30) DEF PolicyInv, SetPolicy, Policies

\* Recovering never takes awareness away.
LEMMA RecoveredMore ==
  ASSUME NEW s, s.awareness \in Int, s.awareness > 0, s.awareness <= Unit, s.step \in Nat
  PROVE  Recovered(s) \in Int /\ Recovered(s) >= s.awareness /\ Recovered(s) <= Unit
<1> DEFINE x == 375 * (Unit - s.awareness) + 125 * Unit
           q == (x * s.step) \div (100 * Unit)
<1>1. x \in Nat /\ 100 * Unit \in Nat \ {0}
  BY PolicyAssumption
<1>2. x * s.step \in Nat
  BY <1>1, TimesNat
<1>3. q \in Nat
  BY <1>1, <1>2, DivNat
<1>4. Recovered(s) = Smaller(s.awareness + q, Unit)
  BY DEF Recovered
<1> HIDE DEF q, x
<1> QED
  BY <1>3, <1>4, PolicyAssumption DEF Smaller

\* _update_events: what a frame does to the awareness.
LEMMA EventsAwareness ==
  ASSUME NEW s, NEW in \in InputRecord, NEW filter,
         s.awareness \in Int, s.awareness <= Unit, s.policy \in Policies,
         s.last \in [Policies -> 1..Unit], s.step \in Nat,
         always_on \in BOOLEAN, enabled \in BOOLEAN,
         UpdateEvents(s, in, filter)
  PROVE  /\ awareness' \in Int /\ awareness' <= Unit
         /\ last_awareness' \in [Policies -> 1..Unit]
         /\ s.awareness <= 0 /\ enabled => awareness' <= 0
         /\ s.awareness > 0 /\ ~enabled => awareness' > 0
<1> DEFINE recovers == Recovers(s, in, filter)
           a == IF recovers THEN Recovered(s) ELSE s.awareness
<1>1. a \in Int /\ a <= Unit /\ a >= s.awareness /\ (s.awareness <= 0 => a = s.awareness)
  <2>1. CASE recovers
    BY <2>1, RecoveredMore DEF Recovers
  <2>2. CASE ~recovers
    BY <2>2
  <2> QED  BY <2>1, <2>2
<1>2. s.awareness <= 0 => ~recovers
  BY DEF Recovers
<1>3. CASE Resets(s, in) \/ (recovers /\ in.driver_engaged)
  <2>1. awareness' = Unit /\ last_awareness' = FullAwareness
    BY <1>3 DEF UpdateEvents, ResetAwareness
  <2>2. s.awareness <= 0 => ~enabled
    BY <1>2, <1>3 DEF Resets
  <2> QED
    BY <2>1, <2>2, PolicyAssumption DEF FullAwareness
<1>4. CASE ~(Resets(s, in) \/ (recovers /\ in.driver_engaged))
  <2> DEFINE counts == /\ Inattentive(in, filter)
                       /\ ~(recovers /\ a > Alert2[s.policy])
                       /\ ~(LowspeedExemption(s, in) \/ AlwaysOnExemption(s, in))
  <2>1. /\ awareness' = IF counts THEN Counted(s, a) ELSE a
        /\ last_awareness' = [s.last EXCEPT !["wheeltouch"] =
                                IF recovers /\ a = Unit THEN Smaller(@ + s.step, Unit) ELSE @]
    BY <1>4 DEF UpdateEvents
  <2>2. last_awareness' \in [Policies -> 1..Unit]
    <3> HIDE DEF a, recovers
    <3> QED  BY <2>1, PolicyAssumption DEF Policies, Smaller
  <2>3. Counted(s, a) \in Int /\ Counted(s, a) <= Unit /\ (a <= 0 => Counted(s, a) <= 0)
    BY <1>1, PolicyAssumption DEF Counted, Larger
  <2>4. ASSUME s.awareness > 0, ~enabled
        PROVE  awareness' > 0
    <3>1. AlwaysOnValid(in)
      BY <1>4, <2>4 DEF Resets
    <3>2. counts => s.awareness - s.step > 0
      BY <2>4, <3>1 DEF AlwaysOnExemption
    <3>3. counts => Counted(s, a) > 0
      BY <1>1, <3>2, PolicyAssumption DEF Counted, Larger
    <3> QED
      BY <1>1, <2>1, <2>4, <3>3
  <2> HIDE DEF counts, recovers
  <2> QED
    BY <1>1, <2>1, <2>2, <2>3, <2>4
<1> QED
  BY <1>3, <1>4

-----------------------------------------------------------------------------
\* What a frame does to the awareness, given the invariant.
LEMMA FrameAwareness ==
  ASSUME PolicyInv, Frame
  PROVE  /\ PolicyInv'
         /\ awareness <= 0 /\ awareness' > 0 => ~enabled
         /\ awareness > 0 /\ awareness' <= 0 => enabled
<1>1. PICK in \in Inputs : \E filter \in Filtered(in) :
        LET s == SetPolicy(TargetPolicy(in)) IN
        active_policy' = s.policy /\ UpdateEvents(s, in, filter)
  BY DEF Frame
<1>2. PICK filter \in Filtered(in) :
        LET s == SetPolicy(TargetPolicy(in)) IN
        active_policy' = s.policy /\ UpdateEvents(s, in, filter)
  BY <1>1
<1> DEFINE s == SetPolicy(TargetPolicy(in))
<1>3. in \in InputRecord /\ TargetPolicy(in) \in Policies
  BY InputAssumption DEF TargetPolicy, Policies
<1>4. always_on' = always_on /\ enabled' = enabled
  BY DEF Frame, selfdrived
<1>5. /\ s.awareness \in Int /\ s.awareness <= Unit
      /\ s.policy \in Policies /\ s.last \in [Policies -> 1..Unit] /\ s.step \in Nat
      /\ awareness <= 0 => s.awareness = awareness
      /\ awareness > 0 => s.awareness > 0
  BY <1>3, SetPolicyKeeps
<1>6. active_policy' = s.policy /\ UpdateEvents(s, in, filter)
  BY <1>2
<1> HIDE DEF s
<1>7. /\ awareness' \in Int /\ awareness' <= Unit
      /\ last_awareness' \in [Policies -> 1..Unit]
      /\ s.awareness <= 0 /\ enabled => awareness' <= 0
      /\ s.awareness > 0 /\ ~enabled => awareness' > 0
  BY <1>3, <1>5, <1>6, EventsAwareness DEF PolicyInv
<1> QED
  BY <1>4, <1>5, <1>6, <1>7 DEF PolicyInv

\* What any step does to the awareness, given the invariant.
LEMMA StepAwareness ==
  ASSUME PolicyInv, [Next]_vars
  PROVE  /\ PolicyInv'
         /\ awareness <= 0 /\ awareness' > 0 => ~enabled'
         /\ awareness > 0 /\ awareness' <= 0 => enabled
<1>1. CASE Frame
  <2>1. enabled' = enabled
    BY <1>1 DEF Frame, selfdrived
  <2> QED
    BY <1>1, <2>1, FrameAwareness
<1>2. CASE Toggle
  BY <1>2 DEF Toggle, PolicyInv, selfdrived
<1>3. CASE Selfdrived
  <2>1. enabled' \in BOOLEAN
    <3>1. enabled' \in IF enabled \/ ~TooDistracted THEN BOOLEAN ELSE {FALSE}
      BY <1>3 DEF Selfdrived
    <3> QED  BY <3>1, Zenon
  <2>2. UNCHANGED policyVars
    BY <1>3 DEF Selfdrived
  <2> QED
    BY <2>1, <2>2 DEF PolicyInv, policyVars
<1>4. CASE Restart(TRUE) \/ Restart(FALSE)
  <2>1. /\ awareness' = Unit /\ last_awareness' = FullAwareness /\ active_policy' = "vision"
        /\ always_on' = always_on /\ enabled' = FALSE
    BY <1>4 DEF Restart
  <2>2. always_on' \in BOOLEAN /\ enabled' \in BOOLEAN
    BY <2>1, Zenon DEF PolicyInv
  <2> QED
    BY <2>1, <2>2, FullPutBy, PolicyAssumption DEF PolicyInv, Policies
<1>5. CASE UNCHANGED vars
  BY <1>5 DEF vars, policyVars, selfdrived, PolicyInv
<1> QED
  BY <1>1, <1>2, <1>3, <1>4, <1>5 DEF Next

\* The invariant of the policies holds in every state.
LEMMA PolicyInvariance == Spec => []PolicyInv
<1>1. Init => PolicyInv
  <2> SUFFICES ASSUME Init
               PROVE  PolicyInv
    OBVIOUS
  <2>1. always_on \in BOOLEAN /\ enabled \in BOOLEAN
    BY Zenon DEF Init
  <2> QED
    BY <2>1, FullPutBy, PolicyAssumption DEF Init, PolicyInv, Policies
<1>2. PolicyInv /\ [Next]_vars => PolicyInv'
  BY StepAwareness
<1> QED
  BY <1>1, <1>2, PTL DEF Spec

\* Only disengaging, or the end of the drive, clears a red alert, for every step and threshold
\* (_set_policy, _update_events).
THEOREM OnlyDisengagingClearsRed == Spec => RedStays
<1>1. PolicyInv /\ [Next]_vars => [awareness <= 0 /\ awareness' > 0 => ~enabled']_vars
  BY StepAwareness
<1> QED
  BY <1>1, PolicyInvariance, PTL DEF Spec, RedStays

\* A driver who is not engaged gets no red alert, with monitoring that is always on, for every step
\* and threshold (always_on_exemption).
THEOREM QuietWhenDisengaged == Spec => NoRedWhenDisengaged
<1>1. PolicyInv /\ [Next]_vars => [awareness > 0 /\ awareness' <= 0 => enabled]_vars
  BY StepAwareness
<1> QED
  BY <1>1, PolicyInvariance, PTL DEF Spec, NoRedWhenDisengaged

-----------------------------------------------------------------------------
\* The duration of a lockout is one of LOCKOUT_TIMES.
LEMMA DurationNat ==
  ASSUME NEW l \in Lockouts
  PROVE  Duration(l) \in Nat \ {0}
<1>1. Len(LOCKOUT_TIMES) \in Nat \ {0}
  BY LockoutAssumption
<1>2. Smaller(Larger(l.count, 1), Len(LOCKOUT_TIMES)) \in 1..Len(LOCKOUT_TIMES)
  BY <1>1 DEF Smaller, Larger, Lockouts
<1> QED
  BY <1>2, LockoutAssumption DEF Duration

\* A frame of an active lockout takes one frame off it, or ends it when it has none left.
LEMMA LockElapses ==
  ASSUME lockout \in Lockouts, WithinDuration(lockout)
  PROVE  /\ Lock \in Lockouts /\ WithinDuration(Lock)
         /\ lockout.active =>
              \/ ~Lock.active /\ Duration(lockout) < lockout.time_elapsed + 1
              \/ /\ Lock.active /\ Lock.count = lockout.count
                 /\ Lock.time_elapsed = lockout.time_elapsed + 1
<1> DEFINE locked == [lockout EXCEPT !.active = TRUE, !.count = Smaller(@ + 1, Len(LOCKOUT_TIMES))]
<1>1. NoLockout \in Lockouts
  BY DEF NoLockout, Lockouts
<1>2. Len(LOCKOUT_TIMES) \in Nat
  BY LockoutAssumption
<1>3. locked \in Lockouts
  <2>1. Smaller(lockout.count + 1, Len(LOCKOUT_TIMES)) \in Nat
    BY <1>2 DEF Lockouts, Smaller
  <2> QED
    BY <2>1, Zenon DEF Lockouts
<1>4. ASSUME NEW l \in Lockouts
      PROVE  Elapse(l) \in Lockouts
  <2>1. l.count \in Nat /\ l.time_elapsed + 1 \in Nat
    BY DEF Lockouts
  <2>2. [NoLockout EXCEPT !.count = l.count] \in Lockouts
    BY <1>1, <2>1, Zenon DEF Lockouts
  <2>3. [l EXCEPT !.time_elapsed = @ + 1] \in Lockouts
    BY <2>1, Zenon DEF Lockouts
  <2> QED
    BY <2>2, <2>3, Zenon DEF Elapse
<1>5. Lock \in Lockouts
  BY <1>3, <1>4 DEF Lock
<1>7. ASSUME NEW l \in Lockouts, WithinDuration(l)
      PROVE  WithinDuration(Elapse(l))
  <2>1. Duration([l EXCEPT !.time_elapsed = @ + 1]) = Duration(l)
    BY DEF Duration, Lockouts
  <2>2. CASE ~l.active \/ l.time_elapsed + 1 > Duration(l)
    BY <1>7, <2>2 DEF WithinDuration, Elapse, NoLockout
  <2>3. CASE l.active /\ ~(l.time_elapsed + 1 > Duration(l))
    <3>1. Duration(l) \in Nat /\ l.time_elapsed \in Nat
      BY DurationNat DEF Lockouts
    <3>2. Elapse(l) = [l EXCEPT !.time_elapsed = @ + 1]
      BY <2>3 DEF Elapse
    <3>3. Elapse(l).active = l.active /\ Elapse(l).time_elapsed = l.time_elapsed + 1
      BY <3>2 DEF Lockouts
    <3> QED
      BY <2>1, <2>3, <3>1, <3>2, <3>3 DEF WithinDuration
  <2> QED
    BY <2>2, <2>3
<1>8. ~lockout.active => WithinDuration(locked)
  <2>1. locked.active /\ locked.time_elapsed = lockout.time_elapsed
    BY DEF Lockouts
  <2>2. Duration(locked) \in Nat
    BY <1>3, DurationNat
  <2> HIDE DEF locked
  <2> QED
    BY <2>1, <2>2 DEF WithinDuration
<1>9. WithinDuration(Lock)
  <2> HIDE DEF locked
  <2>1. Lock = Elapse(lockout) \/ (~lockout.active /\ Lock = Elapse(locked))
    BY DEF Lock, locked
  <2> QED
    BY <1>3, <1>7, <1>8, <2>1
<1>6. ASSUME lockout.active
      PROVE  \/ ~Lock.active /\ Duration(lockout) < lockout.time_elapsed + 1
             \/ /\ Lock.active /\ Lock.count = lockout.count
                /\ Lock.time_elapsed = lockout.time_elapsed + 1
  <2>1. Lock = Elapse(lockout)
    BY <1>6 DEF Lock
  <2>2. Duration(lockout) \in Nat
    BY DurationNat
  <2> QED
    BY <1>6, <2>1, <2>2 DEF Elapse, NoLockout, Lockouts
<1> QED
  BY <1>5, <1>6, <1>9

\* A red alert does not touch a lockout.
LEMMA RedKeeps ==
  ASSUME NEW l \in Lockouts, NEW reached \in BOOLEAN
  PROVE  /\ Red(l, reached) \in Lockouts
         /\ Red(l, reached).active = l.active /\ Red(l, reached).count = l.count
         /\ Red(l, reached).time_elapsed = l.time_elapsed
<1>1. {MAX_ALERT_3, MAX_NO_RESPONSE, NoResponseFrames} \subseteq Nat
  BY LockoutAssumption
<1> DEFINE since == IF reached THEN 0 ELSE Smaller(l.cnt_since_alert_3 + 1, NoResponseFrames + 1)
           alerts == IF reached THEN Smaller(l.alert_3_cnt + 1, MAX_ALERT_3) ELSE l.alert_3_cnt
           silent == IF since = NoResponseFrames THEN Smaller(l.no_response_cnt + 1, MAX_NO_RESPONSE)
                     ELSE l.no_response_cnt
<1>2. since \in Nat /\ alerts \in Nat
  BY <1>1 DEF Lockouts, Smaller
<1>3. silent \in Nat
  <2> HIDE DEF since
  <2> QED  BY <1>1 DEF Lockouts, Smaller
<1>4. Red(l, reached) = [l EXCEPT !.alert_3_cnt = alerts, !.cnt_since_alert_3 = since,
                                  !.no_response_cnt = silent]
  BY DEF Red
<1> HIDE DEF since, alerts, silent
<1>5. Red(l, reached) \in Lockouts
  BY <1>2, <1>3, <1>4, Zenon DEF Lockouts
<1> QED
  BY <1>4, <1>5 DEF Lockouts

\* What a frame does to the lockout.
LEMMA FrameLockout ==
  ASSUME lockout \in Lockouts, WithinDuration(lockout), Frame
  PROVE  /\ lockout' \in Lockouts /\ WithinDuration(lockout')
         /\ lockout'.active = Lock.active /\ lockout'.count = Lock.count
         /\ lockout'.time_elapsed = Lock.time_elapsed
<1>1. Lock \in Lockouts /\ WithinDuration(Lock)
  BY LockElapses
<1>2. PICK in \in Inputs : \E filter \in Filtered(in) :
        UpdateEvents(SetPolicy(TargetPolicy(in)), in, filter)
  BY DEF Frame
<1> DEFINE s == SetPolicy(TargetPolicy(in))
<1>3. lockout' = Lock \/ lockout' = Red(Lock, s.awareness > 0)
  BY <1>2 DEF UpdateEvents, ResetAwareness
<1>4. (s.awareness > 0) \in BOOLEAN
  OBVIOUS
<1> HIDE DEF s
<1>5. /\ lockout' \in Lockouts /\ lockout'.active = Lock.active /\ lockout'.count = Lock.count
      /\ lockout'.time_elapsed = Lock.time_elapsed
  BY <1>1, <1>3, <1>4, RedKeeps
<1> QED
  BY <1>1, <1>5 DEF WithinDuration, Duration

\* A frame serves one frame of what is owed.
LEMMA FrameServes ==
  ASSUME LockoutInv, Frame
  PROVE  LockoutInv'
<1>1. /\ lockout' \in Lockouts /\ WithinDuration(lockout') /\ lockout'.active = Lock.active
      /\ lockout'.count = Lock.count /\ lockout'.time_elapsed = Lock.time_elapsed
  BY FrameLockout DEF LockoutInv
<1>2. /\ driverMonitoringState'.valid /\ driverMonitoringState'.lockout = lockout'.active
      /\ DriverTooDistracted' = DriverTooDistracted /\ dm_lockout_set' = dm_lockout_set
      /\ owed' = IF owed = 0 THEN 0 ELSE owed - 1
  BY DEF Frame, selfdrived
<1>3. owed' \in Nat /\ driverMonitoringState' \in Messages
  BY <1>1, <1>2 DEF LockoutInv, Frame, Messages, Lockouts
<1>4. ASSUME owed' > 0
      PROVE  /\ lockout'.active /\ DriverTooDistracted'
             /\ owed' <= Duration(lockout') - lockout'.time_elapsed + 1
  <2>1. /\ owed > 1 /\ owed' = owed - 1 /\ lockout.active /\ DriverTooDistracted
        /\ owed <= Duration(lockout) - lockout.time_elapsed + 1
    BY <1>2, <1>4 DEF LockoutInv
  <2>2. Duration(lockout) \in Nat /\ lockout.time_elapsed \in Nat
    BY DurationNat DEF LockoutInv, Lockouts
  <2>3. /\ Lock.active /\ Lock.count = lockout.count
        /\ Lock.time_elapsed = lockout.time_elapsed + 1
    BY <2>1, <2>2, LockElapses DEF LockoutInv
  <2>4. Duration(lockout') = Duration(lockout)
    BY <1>1, <2>3 DEF Duration
  <2>5. lockout'.active /\ DriverTooDistracted'
    BY <1>1, <1>2, <2>1, <2>3, Zenon
  <2>6. owed \in Nat
    BY DEF LockoutInv
  <2>7. owed' <= Duration(lockout') - lockout'.time_elapsed + 1
    BY <1>1, <2>1, <2>2, <2>3, <2>4, <2>6
  <2> QED
    BY <2>5, <2>7
<1> QED
  BY <1>1, <1>2, <1>3, <1>4 DEF LockoutInv

\* selfdrived owes what is left of the lockout when it puts it.
LEMMA SelfdrivedServes ==
  ASSUME LockoutInv, Selfdrived
  PROVE  LockoutInv'
<1> DEFINE dm == driverMonitoringState
<1>1. /\ dm \in Messages /\ dm.valid /\ dm.lockout = lockout.active
      /\ dm' = [dm EXCEPT !.new = FALSE] /\ lockout' = lockout
      /\ DriverTooDistracted' = IF dm.lockout # dm_lockout_set THEN dm.lockout ELSE DriverTooDistracted
      /\ dm_lockout_set' = dm.lockout
      /\ owed' = IF dm.lockout /\ ~dm_lockout_set
                 THEN Duration(lockout) - lockout.time_elapsed + 1 ELSE owed
  BY DEF Selfdrived, LockoutInv
<1>2. /\ dm' \in Messages /\ dm'.valid /\ dm'.lockout = lockout'.active
      /\ DriverTooDistracted' \in BOOLEAN /\ dm_lockout_set' \in BOOLEAN
  BY <1>1 DEF LockoutInv, Messages
<1>3. /\ Duration(lockout) \in Nat /\ lockout.time_elapsed \in Nat
      /\ Duration(lockout') = Duration(lockout)
  BY <1>1, DurationNat DEF LockoutInv, Lockouts
<1>4. CASE dm.lockout /\ ~dm_lockout_set
  <2>1. owed' = Duration(lockout) - lockout.time_elapsed + 1
    BY <1>1, <1>4
  <2>2. owed' \in Nat
    BY <1>1, <1>3, <1>4, <2>1 DEF LockoutInv, WithinDuration
  <2>3. lockout'.active /\ DriverTooDistracted'
    BY <1>1, <1>4, Zenon
  <2>4. owed' <= Duration(lockout') - lockout'.time_elapsed + 1
    BY <1>1, <1>3, <2>1
  <2> QED
    BY <1>1, <1>2, <2>2, <2>3, <2>4 DEF LockoutInv
<1>5. CASE ~(dm.lockout /\ ~dm_lockout_set)
  BY <1>1, <1>2, <1>3, <1>5 DEF LockoutInv, Lockouts
<1> QED
  BY <1>4, <1>5

\* A restart without a new ignition serves the lockout of the param from its start.
LEMMA RestartServes ==
  ASSUME LockoutInv, NEW cleared \in BOOLEAN, Restart(cleared)
  PROVE  LockoutInv'
<1> DEFINE saved == [NoLockout EXCEPT !.active = DriverTooDistracted, !.count = lockout.count]
<1>1. /\ driverMonitoringState' = NoMessage /\ dm_lockout_set' = FALSE
      /\ DriverTooDistracted' = (DriverTooDistracted /\ ~cleared)
  BY DEF Restart
<1>4. /\ driverMonitoringState' \in Messages /\ ~driverMonitoringState'.valid
      /\ DriverTooDistracted' \in BOOLEAN /\ dm_lockout_set' \in BOOLEAN
  BY <1>1 DEF LockoutInv, NoMessage, Messages
<1>2. CASE cleared
  <2>1. lockout' = NoLockout /\ owed' = 0
    BY <1>2 DEF Restart
  <2>2. NoLockout \in Lockouts /\ WithinDuration(NoLockout)
    BY DEF NoLockout, Lockouts, WithinDuration
  <2>3. lockout' \in Lockouts /\ WithinDuration(lockout')
    BY <2>1, <2>2
  <2> QED
    BY <1>4, <2>1, <2>3 DEF LockoutInv
<1>3. CASE ~cleared
  <2>1. lockout' = saved /\ owed' = owed
    BY <1>3 DEF Restart, SavedLockout
  <2>2. saved \in Lockouts /\ saved.active = DriverTooDistracted /\ saved.time_elapsed = 0
        /\ saved.count = lockout.count
    BY DEF LockoutInv, NoLockout, Lockouts
  <2>3. Duration(saved) = Duration(lockout)
    BY <2>2 DEF Duration
  <2>4. Duration(lockout) \in Nat /\ lockout.time_elapsed \in Nat
    BY DurationNat DEF LockoutInv, Lockouts
  <2> HIDE DEF saved
  <2>5. WithinDuration(saved)
    BY <2>2, <2>3, <2>4 DEF WithinDuration
  <2>6. lockout' \in Lockouts /\ WithinDuration(lockout') /\ owed' \in Nat
    BY <2>1, <2>2, <2>5 DEF LockoutInv
  <2>7. ASSUME owed' > 0
        PROVE  /\ lockout'.active /\ DriverTooDistracted'
               /\ owed' <= Duration(lockout') - lockout'.time_elapsed + 1
    <3>1. DriverTooDistracted /\ owed <= Duration(lockout) - lockout.time_elapsed + 1
      BY <2>1, <2>7 DEF LockoutInv
    <3>2. lockout'.active /\ DriverTooDistracted'
      BY <1>1, <1>3, <2>1, <2>2, <3>1, Zenon
    <3>3. owed <= Duration(lockout) + 1 /\ owed \in Nat
      BY <2>4, <3>1 DEF LockoutInv
    <3>4. owed' <= Duration(lockout') - lockout'.time_elapsed + 1
      BY <2>1, <2>2, <2>3, <2>4, <3>3
    <3> QED
      BY <3>2, <3>4
  <2> QED
    BY <1>4, <2>6, <2>7 DEF LockoutInv
<1> QED
  BY <1>2, <1>3

\* The invariant of the lockout holds in every state.
LEMMA LockoutInvariance == Spec => []LockoutInv
<1>1. Init => LockoutInv
  <2> SUFFICES ASSUME Init
               PROVE  LockoutInv
    OBVIOUS
  <2>1. NoLockout \in Lockouts /\ WithinDuration(NoLockout)
    BY DEF NoLockout, Lockouts, WithinDuration
  <2>2. NoMessage \in Messages /\ ~NoMessage.valid
    BY DEF NoMessage, Messages
  <2>3. /\ lockout \in Lockouts /\ WithinDuration(lockout)
        /\ driverMonitoringState \in Messages /\ ~driverMonitoringState.valid
        /\ DriverTooDistracted \in BOOLEAN /\ dm_lockout_set \in BOOLEAN
    BY <2>1, <2>2, Zenon DEF Init
  <2>4. owed = 0
    BY DEF Init
  <2> QED
    BY <2>3, <2>4 DEF LockoutInv
<1>2. LockoutInv /\ [Next]_vars => LockoutInv'
  <2> SUFFICES ASSUME LockoutInv, [Next]_vars
               PROVE  LockoutInv'
    OBVIOUS
  <2>1. CASE Frame
    BY <2>1, FrameServes
  <2>2. CASE Toggle
    BY <2>2 DEF Toggle, LockoutInv, selfdrived, Duration
  <2>3. CASE Selfdrived
    BY <2>3, SelfdrivedServes
  <2>4. CASE Restart(TRUE) \/ Restart(FALSE)
    BY <2>4, RestartServes
  <2>5. CASE UNCHANGED vars
    BY <2>5 DEF vars, selfdrived, LockoutInv, Duration
  <2> QED
    BY <2>1, <2>2, <2>3, <2>4, <2>5 DEF Next
<1> QED
  BY <1>1, <1>2, PTL DEF Spec

\* Nobody engages before a lockout that selfdrived has put is served or the ignition is reset,
\* whatever restarts, for every duration ("Block engaging until lockout times out or ignition reset").
THEOREM LockoutIsServed == Spec => LockoutServed
<1>1. LockoutInv /\ [Next]_vars => [~enabled /\ enabled' => owed = 0]_vars
  <2> SUFFICES ASSUME LockoutInv, Next, ~enabled, enabled'
               PROVE  owed = 0
    OBVIOUS
  <2>1. Selfdrived
    BY DEF Next, Frame, Toggle, Restart, selfdrived
  <2>2. driverMonitoringState.valid /\ ~driverMonitoringState.lockout
    BY <2>1 DEF Selfdrived, TooDistracted
  <2>3. ~lockout.active
    BY <2>2 DEF LockoutInv
  <2> QED
    BY <2>3 DEF LockoutInv
<1> QED
  BY <1>1, LockoutInvariance, PTL DEF Spec, LockoutServed
-----------------------------------------------------------------------------
\* n frames without attention, spent on vision and on the wheel, are paid for with what is gone of
\* the awareness of each.
Spent(n, v, w) ==
  \E a, b \in Nat : /\ n <= a + b
                    /\ v + a * Step["vision"] <= Unit
                    /\ w + b * Step["wheeltouch"] <= Unit

\* The frames without attention are paid for, until vision is at orange or the wheel at red: neither
\* is left then.  What vision has put by is above orange.
Paid(n, policy, a, last) ==
  IF policy = "vision" THEN a <= Alert2["vision"] \/ Spent(n, a, last["wheeltouch"])
  ELSE /\ last["vision"] > Alert2["vision"]
       /\ a <= 0 \/ Spent(n, last["vision"], a)

InattentionInv == away \in Nat /\ Paid(away, active_policy, awareness, last_awareness)

\* One more frame of a policy takes one more of its steps.
LEMMA OneMore ==
  ASSUME NEW a \in Nat, NEW d \in Nat, NEW x \in Int, x + a * d <= Unit
  PROVE  (x - d) + (a + 1) * d <= Unit
<1>1. (a + 1) * d = a * d + d
  OBVIOUS
<1>2. a * d \in Nat
  BY TimesNat
<1> QED
  BY <1>1, <1>2, PolicyAssumption

\* Nothing is paid with no frames.
LEMMA NothingSpent ==
  ASSUME NEW v \in Int, NEW w \in Int, v <= Unit, w <= Unit
  PROVE  Spent(0, v, w)
<1>1. 0 * Step["vision"] = 0 /\ 0 * Step["wheeltouch"] = 0
  BY PolicyAssumption DEF Policies
<1> QED
  BY <1>1 DEF Spent

\* The awareness left after k steps is a limit of k, rounded up.
LEMMA StepsAbove ==
  ASSUME NEW k \in Nat, NEW d \in Nat \ {0}, NEW m \in Int, k * d < m
  PROVE  k + 1 <= (m + d - 1) \div d
<1>1. k * d \in Nat
  BY TimesNat
<1>2. (k + 1) * d = k * d + d
  OBVIOUS
<1>3. (k + 1) * d <= m + d - 1
  BY <1>1, <1>2
<1> DEFINE x == m + d - 1
<1>4. x \in Nat
  BY <1>1
<1>5. ASSUME NEW q \in Nat, NEW y \in Nat, q * d <= y
      PROVE  q <= y \div d
  BY <1>5
<1> QED
  BY <1>3, <1>4, <1>5

\* _set_policy keeps what was paid: each policy has an awareness of its own.
LEMMA SetPolicyPays ==
  ASSUME PolicyInv, NEW n \in Nat, Paid(n, active_policy, awareness, last_awareness),
         NEW target \in Policies, NEW s, s = SetPolicy(target)
  PROVE  /\ Paid(n, s.policy, s.awareness, s.last)
         /\ s.step = Step[s.policy] \/ (s.policy = "vision" /\ s.awareness <= Alert2["vision"])
<1>1. CASE active_policy = "vision" /\ awareness <= Alert2["vision"]
  BY <1>1 DEF SetPolicy, Paid
<1>2. CASE ~(active_policy = "vision" /\ awareness <= Alert2["vision"])
           /\ (awareness <= 0 \/ target = active_policy)
  BY <1>2, Zenon DEF SetPolicy
<1>3. CASE ~(active_policy = "vision" /\ awareness <= Alert2["vision"])
           /\ ~(awareness <= 0 \/ target = active_policy)
  <2>1. /\ s.awareness = last_awareness[target] /\ s.policy = target /\ s.step = Step[target]
        /\ s.last = [last_awareness EXCEPT ![active_policy] = awareness]
    BY <1>3 DEF SetPolicy
  <2>2. CASE target = "vision"
    BY <1>3, <2>1, <2>2 DEF Paid, Policies, PolicyInv
  <2>3. CASE target = "wheeltouch"
    <3>1. active_policy = "vision" /\ awareness > Alert2["vision"]
      BY <1>3, <2>3, PolicyAssumption DEF Policies, PolicyInv
    <3>2. s.last["vision"] = awareness
      BY <2>1, <3>1 DEF Policies, PolicyInv
    <3> QED
      BY <1>3, <2>1, <2>3, <3>1, <3>2, PolicyAssumption DEF Paid, Policies, PolicyInv
  <2> QED
    BY <2>2, <2>3 DEF Policies
<1> QED
  BY <1>1, <1>2, <1>3

\* A frame that counts pays for itself.
LEMMA CountedPays ==
  ASSUME NEW n \in Nat, NEW s, s.awareness \in Int, s.awareness <= Unit, s.policy \in Policies,
         s.last \in [Policies -> 1..Unit], s.step = Step[s.policy], Paid(n, s.policy, s.awareness, s.last)
  PROVE  Paid(n + 1, s.policy, Counted(s, s.awareness), s.last)
<1> DEFINE d == Step[s.policy]
           c == Counted(s, s.awareness)
<1>1. d \in Nat /\ Alert2[s.policy] \in Nat
  BY PolicyAssumption
<1>2. c = s.awareness - d \/ c < 0
  BY <1>1, PolicyAssumption DEF Counted, Larger
<1>3. c \in Int /\ (c <= s.awareness \/ c < 0)
  BY <1>1, PolicyAssumption DEF Counted, Larger
<1>4. CASE s.policy = "vision"
  <2>1. CASE c < 0 \/ s.awareness <= Alert2["vision"]
    <3>1. c <= Alert2["vision"]
      <4> HIDE DEF c, d
      <4> QED  BY <1>1, <1>3, <1>4, <2>1
    <3> QED
      BY <1>4, <3>1 DEF Paid
  <2>2. CASE c = s.awareness - d /\ Spent(n, s.awareness, s.last["wheeltouch"])
    <3>1. PICK a \in Nat, b \in Nat : /\ n <= a + b /\ s.awareness + a * d <= Unit
                                      /\ s.last["wheeltouch"] + b * Step["wheeltouch"] <= Unit
      BY <1>4, <2>2 DEF Spent
    <3>2. c + (a + 1) * d <= Unit
      BY <1>1, <2>2, <3>1, OneMore
    <3>3. n + 1 <= (a + 1) + b /\ a + 1 \in Nat
      BY <3>1
    <3> QED
      BY <1>4, <3>1, <3>2, <3>3 DEF Paid, Spent
  <2> QED
    BY <1>2, <1>4, <2>1, <2>2 DEF Paid
<1>5. CASE s.policy = "wheeltouch"
  <2>1. CASE c < 0 \/ s.awareness <= 0
    <3>1. c <= 0
      <4> HIDE DEF c, d
      <4> QED  BY <1>3, <2>1
    <3> QED
      BY <1>5, <3>1 DEF Paid
  <2>2. CASE c = s.awareness - d /\ Spent(n, s.last["vision"], s.awareness)
    <3>1. PICK a \in Nat, b \in Nat : /\ n <= a + b /\ s.last["vision"] + a * Step["vision"] <= Unit
                                      /\ s.awareness + b * d <= Unit
      BY <1>5, <2>2 DEF Spent
    <3>2. c + (b + 1) * d <= Unit
      BY <1>1, <2>2, <3>1, OneMore
    <3>3. n + 1 <= a + (b + 1) /\ b + 1 \in Nat
      BY <3>1
    <3> QED
      BY <1>5, <2>2, <3>1, <3>2, <3>3 DEF Paid, Spent
  <2> QED
    BY <1>2, <1>5, <2>1, <2>2 DEF Paid
<1> QED
  BY <1>4, <1>5 DEF Policies

\* No frames are paid for by any awareness.
LEMMA PaidNothing ==
  ASSUME NEW policy \in Policies, NEW a \in Int, a <= Unit, NEW last \in [Policies -> 1..Unit],
         policy = "wheeltouch" => last["vision"] > Alert2["vision"]
  PROVE  Paid(0, policy, a, last)
<1>1. \A p \in Policies : last[p] \in Int /\ last[p] <= Unit
  BY PolicyAssumption
<1> QED
  BY <1>1, NothingSpent DEF Paid, Policies

\* Fewer frames are paid for with the same awareness.
LEMMA PaidFewer ==
  ASSUME NEW n \in Nat, NEW m \in Nat, m <= n, NEW policy, NEW a, NEW last, Paid(n, policy, a, last)
  PROVE  Paid(m, policy, a, last)
<1>1. ASSUME NEW v, NEW w, Spent(n, v, w)
      PROVE  Spent(m, v, w)
  <2>1. PICK i \in Nat, j \in Nat : /\ n <= i + j /\ v + i * Step["vision"] <= Unit
                                    /\ w + j * Step["wheeltouch"] <= Unit
    BY <1>1 DEF Spent
  <2>2. m <= i + j
    BY <2>1
  <2> QED
    BY <2>1, <2>2 DEF Spent
<1> QED
  BY <1>1 DEF Paid

\* _update_events: what a frame without attention costs.
LEMMA EventsPay ==
  ASSUME NEW s, NEW in \in InputRecord, NEW filter, away \in Nat,
         s.awareness \in Int, s.awareness <= Unit, s.policy \in Policies,
         s.last \in [Policies -> 1..Unit],
         s.step = Step[s.policy] \/ (s.policy = "vision" /\ s.awareness <= Alert2["vision"]),
         s.step \in Nat, Paid(away, s.policy, s.awareness, s.last),
         awareness' \in Int, awareness' <= Unit, last_awareness' \in [Policies -> 1..Unit],
         UpdateEvents(s, in, filter)
  PROVE  away' \in Nat /\ Paid(away', s.policy, awareness', last_awareness')
<1> DEFINE recovers == Recovers(s, in, filter)
           a == IF recovers THEN Recovered(s) ELSE s.awareness
           inattentive == Inattentive(in, filter)
<1>1. s.policy = "wheeltouch" => s.last["vision"] > Alert2["vision"]
  BY DEF Paid
<1>2. CASE Resets(s, in) \/ (recovers /\ in.driver_engaged)
  <2>1. away' = 0 /\ last_awareness' = FullAwareness
    BY <1>2 DEF UpdateEvents, ResetAwareness
  <2>2. last_awareness'["vision"] > Alert2["vision"]
    BY <2>1, PolicyAssumption DEF FullAwareness, Policies
  <2>3. Paid(0, s.policy, awareness', last_awareness')
    BY <2>2, PaidNothing
  <2> QED
    BY <2>1, <2>3
<1>3. CASE ~(Resets(s, in) \/ (recovers /\ in.driver_engaged))
  <2> DEFINE exempt == LowspeedExemption(s, in) \/ AlwaysOnExemption(s, in)
             counts == inattentive /\ ~(recovers /\ a > Alert2[s.policy]) /\ ~exempt
  <2>1. /\ awareness' = IF counts THEN Counted(s, a) ELSE a
        /\ last_awareness' = [s.last EXCEPT !["wheeltouch"] =
                                IF recovers /\ a = Unit THEN Smaller(@ + s.step, Unit) ELSE @]
        /\ away' = IF recovers \/ ~enabled THEN 0
                   ELSE IF inattentive THEN Smaller(away + 1, MaxAway) ELSE away
    BY <1>3 DEF UpdateEvents
  <2>2. last_awareness'["vision"] = s.last["vision"]
    <3> HIDE DEF a, recovers
    <3> QED  BY <2>1 DEF Policies
  <2>3. CASE recovers \/ ~enabled
    <3>1. Paid(0, s.policy, awareness', last_awareness')
      BY <1>1, <2>2, PaidNothing
    <3> QED
      BY <2>1, <2>3, <3>1
  <2>4. CASE ~(recovers \/ ~enabled)
    <3>1. a = s.awareness /\ last_awareness' = s.last
      <4>1. last_awareness' = [s.last EXCEPT !["wheeltouch"] = @]
        BY <2>1, <2>4
      <4> QED
        BY <2>4, <4>1
    <3>2. CASE ~inattentive
      BY <2>1, <2>4, <3>1, <3>2
    <3>3. CASE inattentive
      <4>1. away' \in Nat /\ away' <= away + 1
        <5>1. away' = Smaller(away + 1, MaxAway)
          BY <2>1, <2>4, <3>3
        <5>2. MaxAway \in Nat
          BY LockoutAssumption
        <5> QED
          BY <5>1, <5>2 DEF Smaller
      <4>2. Paid(away + 1, s.policy, awareness', last_awareness')
        <5>1. Alert2[s.policy] \in Nat /\ Alert2["vision"] \in Nat
          BY PolicyAssumption DEF Policies
        <5>2. Counted(s, s.awareness) <= s.awareness \/ Counted(s, s.awareness) < 0
          BY PolicyAssumption DEF Counted, Larger
        <5>3. CASE s.policy = "vision" /\ s.awareness <= Alert2["vision"]
          <6>1. awareness' <= Alert2["vision"]
            BY <2>1, <3>1, <5>1, <5>2, <5>3
          <6> QED
            BY <5>3, <6>1 DEF Paid
        <5>4. CASE counts /\ s.step = Step[s.policy]
          BY <2>1, <3>1, <5>4, CountedPays
        <5>5. CASE ~counts /\ ~(s.policy = "vision" /\ s.awareness <= Alert2["vision"])
          <6>1. exempt
            BY <2>4, <3>3, <5>5
          <6>2. ~AlwaysOnExemption(s, in)
            BY <2>4 DEF AlwaysOnExemption
          <6>3. s.awareness <= 0
            BY <2>4, <6>1, <6>2 DEF Recovers
          <6>4. s.policy = "wheeltouch"
            BY <5>1, <5>5, <6>3 DEF Policies
          <6> QED
            BY <1>1, <2>1, <3>1, <5>5, <6>3, <6>4 DEF Paid
        <5> QED
          BY <5>3, <5>4, <5>5
      <4> QED
        BY <4>1, <4>2, PaidFewer
    <3> QED
      BY <3>2, <3>3
  <2> QED
    BY <2>3, <2>4
<1> QED
  BY <1>2, <1>3

\* A frame pays for itself.
LEMMA FramePays ==
  ASSUME PolicyInv, InattentionInv, Frame
  PROVE  InattentionInv'
<1>1. PolicyInv'
  BY FrameAwareness
<1>2. PICK in \in Inputs : \E filter \in Filtered(in) :
        LET s == SetPolicy(TargetPolicy(in)) IN
        active_policy' = s.policy /\ UpdateEvents(s, in, filter)
  BY DEF Frame
<1> DEFINE s == SetPolicy(TargetPolicy(in))
<1>10. PICK filter \in Filtered(in) : active_policy' = s.policy /\ UpdateEvents(s, in, filter)
  BY <1>2
<1>3. in \in InputRecord /\ TargetPolicy(in) \in Policies
  BY InputAssumption DEF TargetPolicy, Policies
<1>4. /\ s.awareness \in Int /\ s.awareness <= Unit
      /\ s.policy \in Policies /\ s.last \in [Policies -> 1..Unit] /\ s.step \in Nat
  BY <1>3, SetPolicyKeeps
<1>5. /\ Paid(away, s.policy, s.awareness, s.last)
      /\ s.step = Step[s.policy] \/ (s.policy = "vision" /\ s.awareness <= Alert2["vision"])
  BY <1>3, SetPolicyPays DEF InattentionInv
<1>6. active_policy' = s.policy /\ UpdateEvents(s, in, filter)
  BY <1>10
<1>7. away \in Nat
  BY DEF InattentionInv
<1>8. awareness' \in Int /\ awareness' <= Unit /\ last_awareness' \in [Policies -> 1..Unit]
  BY <1>1 DEF PolicyInv
<1> HIDE DEF s
<1>9. away' \in Nat /\ Paid(away', s.policy, awareness', last_awareness')
  BY <1>3, <1>4, <1>5, <1>6, <1>7, <1>8, EventsPay
<1> QED
  BY <1>6, <1>9, Zenon DEF InattentionInv

\* Full awareness pays for no frames.
LEMMA FullPaid == Paid(0, "vision", Unit, FullAwareness)
<1>1. FullAwareness["wheeltouch"] = Unit
  BY DEF FullAwareness, Policies
<1> QED
  BY <1>1, NothingSpent, PolicyAssumption DEF Paid

\* Every frame without attention is paid for in every state.
LEMMA InattentionInvariance == Spec => []InattentionInv
<1>1. Init => InattentionInv
  BY FullPaid DEF Init, InattentionInv
<1>2. PolicyInv /\ InattentionInv /\ [Next]_vars => InattentionInv'
  <2> SUFFICES ASSUME PolicyInv, InattentionInv, [Next]_vars
               PROVE  InattentionInv'
    OBVIOUS
  <2>1. CASE Frame
    BY <2>1, FramePays
  <2>2. CASE Toggle
    BY <2>2 DEF Toggle, InattentionInv
  <2>3. CASE Selfdrived
    BY <2>3 DEF Selfdrived, policyVars, InattentionInv
  <2>4. CASE Restart(TRUE) \/ Restart(FALSE)
    <3>1. away' = 0 /\ active_policy' = "vision" /\ awareness' = Unit /\ last_awareness' = FullAwareness
      BY <2>4 DEF Restart
    <3> QED
      BY <3>1, FullPaid DEF InattentionInv
  <2>5. CASE UNCHANGED vars
    BY <2>5 DEF vars, policyVars, InattentionInv
  <2> QED
    BY <2>1, <2>2, <2>3, <2>4, <2>5 DEF Next
<1> QED
  BY <1>1, <1>2, PolicyInvariance, PTL DEF Spec

\* An engaged driver without attention is at orange within the frames of both policies, for every step
\* and threshold: appearing and disappearing gains no more than what the other policy has left (_set_policy).
THEOREM InattentionIsBounded == Spec => []InattentionBounded
<1>1. PolicyInv /\ InattentionInv => InattentionBounded
  <2> SUFFICES ASSUME PolicyInv, InattentionInv, awareness > Alert2[active_policy]
               PROVE  away < FramesToOrange
    BY PolicyAssumption DEF InattentionBounded, PolicyInv, InattentionInv, FramesToOrange, Policies
  <2> DEFINE v == IF active_policy = "vision" THEN awareness ELSE last_awareness["vision"]
             w == IF active_policy = "vision" THEN last_awareness["wheeltouch"] ELSE awareness
             dv == Step["vision"]
             dw == Step["wheeltouch"]
             limit == Alert2["vision"]
  <2>1. dv \in Nat \ {0} /\ dw \in Nat \ {0} /\ Unit \in Nat /\ limit \in Nat
    BY PolicyAssumption DEF Policies
  <2>2. v \in Int /\ w \in Int /\ v > limit /\ w > 0 /\ Spent(away, v, w)
    BY PolicyAssumption DEF PolicyInv, InattentionInv, Paid, Policies
  <2>3. PICK a \in Nat, b \in Nat : away <= a + b /\ v + a * dv <= Unit /\ w + b * dw <= Unit
    BY <2>2 DEF Spent
  <2>4. a * dv \in Nat /\ b * dw \in Nat
    BY <2>1, TimesNat
  <2> HIDE DEF v, w, dv, dw, limit
  <2>5. a * dv < Unit - limit /\ b * dw < Unit
    BY <2>1, <2>2, <2>3, <2>4
  <2>6. a + 1 <= (Unit - limit + dv - 1) \div dv
    BY <2>1, <2>5, StepsAbove
  <2>7. b + 1 <= (Unit + dw - 1) \div dw
    BY <2>1, <2>5, StepsAbove
  <2> DEFINE fv == (Unit - limit + dv - 1) \div dv
             fw == (Unit + dw - 1) \div dw
  <2>8. FramesToOrange = fv + fw - 1
    BY <2>1 DEF FramesToOrange, dv, dw, limit
  <2>9. fv \in Int /\ fw \in Int
    BY <2>1
  <2> HIDE DEF fv, fw
  <2>10. a + 1 <= fv /\ b + 1 <= fw
    BY <2>6, <2>7 DEF fv, fw
  <2>11. away \in Nat
    BY DEF InattentionInv
  <2> QED
    BY <2>3, <2>8, <2>9, <2>10, <2>11
<1> QED
  BY <1>1, PolicyInvariance, InattentionInvariance, PTL
=============================================================================
