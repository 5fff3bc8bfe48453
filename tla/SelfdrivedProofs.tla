--------------------------- MODULE SelfdrivedProofs ---------------------------
(***************************************************************************)
(* Two parts of selfdrived: Engagement, for every length of the soft       *)
(* disable timer, every mismatch limit and every set of inputs, and        *)
(* ParamsStore, the non-blocking puts that keep params out of its loop,    *)
(* for any number of keys and of puts.                                     *)
(*                                                                         *)
(* SoftDisableBounded is not inductive: nothing in it relates the run of   *)
(* SOFT_DISABLE frames to the timer.  TimerInv does: once soft disabling,  *)
(* what has run and what is left add up to at most SoftDisableFrames + 2,  *)
(* and something is left.  MismatchBounded needs that the run of refusals  *)
(* is counted by mismatch_counter, which ends the engagement in the frame  *)
(* that reaches the limit; that in turn needs that openpilot is enabled    *)
(* only when update_events reports mismatches at all (EntryInv).           *)
(***************************************************************************)
EXTENDS Engagement, ParamsStore, TLAPS

TimerInv ==
  /\ state = "softDisabling" =>
       /\ soft_disable_timer >= 1
       /\ softRun + soft_disable_timer <= SoftDisableFrames + 2
  /\ state \in {"enabled", "overriding"} => softRun <= 1
  /\ ~Active(state) => softRun = 0

EntryInv == Enabled(state) => ~passive /\ initialized

MismatchInv ==
  Enabled(state) => mismatchRun <= mismatch_counter /\ mismatch_counter < MismatchLimit

Inv == TypeOK /\ TimerInv /\ EntryInv /\ MismatchInv

-----------------------------------------------------------------------------
\* The state machine stays within its states, and its timer within its range.
LEMMA StateMachineType ==
  ASSUME NEW st \in States, NEW t \in 0..SoftDisableFrames, NEW evs
  PROVE  /\ NextState(st, t, evs) \in States
         /\ NextTimer(st, t, evs) \in 0..SoftDisableFrames
  BY SoftDisableFramesAssumption
     DEF States, ENABLED_STATES, ACTIVE_STATES, NextState, NextTimer, Disabled,
         SoftDisabling, EnabledOrOverriding

\* Every event that soft disables also blocks entry, so openpilot never engages into a
\* soft disable condition.
LEMMA NoEntryIntoSoftDisable ==
  ASSUME NEW evs, Disabled(evs) # "disabled"
  PROVE  ~Contains(evs, "softDisable")
  BY DEF Disabled, Contains, EVENTS, NoEntryEvents

\* An immediateDisable event ends the engagement from every state that is one.
LEMMA ImmediateDisables ==
  ASSUME NEW st \in States, NEW t, NEW evs, st # "disabled", Contains(evs, "immediateDisable")
  PROVE  NextState(st, t, evs) = "disabled"
  BY DEF NextState

\* Arithmetic: a run of at most two frames and a full timer.
LEMMA SumBound ==
  ASSUME NEW a \in 0..2, NEW n \in Nat
  PROVE  a + n <= n + 2
  OBVIOUS

\* The timer counts down within its range, by one while it runs.
LEMMA TimerDownType ==
  ASSUME NEW t \in 0..SoftDisableFrames
  PROVE  TimerDown(t) \in 0..SoftDisableFrames /\ TimerDown(t) <= t /\ (t >= 1 => TimerDown(t) = t - 1)
  BY SoftDisableFramesAssumption DEF TimerDown

\* The events of a frame are events.
LEMMA EventsType ==
  ASSUME NEW in \in InputRecord
  PROVE  Events(in) \in SUBSET (CarEvents \cup SystemEvents)
  <1>1. in.car \in SUBSET CarEvents
    BY DEF InputRecord
  <1>2. DriveEvents(in) \in SUBSET (CarEvents \cup SystemEvents)
    BY <1>1 DEF DriveEvents, LoadingEvents, SystemEvents
  <1>3. MalfunctionEvents(in) \in SUBSET (CarEvents \cup SystemEvents)
    BY DEF MalfunctionEvents, SystemEvents
  <1> QED
    BY <1>2, <1>3 DEF Events, LoadingEvents, SystemEvents

-----------------------------------------------------------------------------
\* A process that has just started satisfies the inductive invariant.
LEMMA InitInv == Init => Inv
  <1> SUFFICES ASSUME Init PROVE Inv
    OBVIOUS
  <1>1. ~Enabled(state) /\ ~Active(state)
    BY DEF Init, Enabled, Active, ENABLED_STATES, ACTIVE_STATES
  <1>2. TypeOK
    <2>1. passive \in BOOLEAN /\ initialized \in BOOLEAN /\ unhealthy \in BOOLEAN
      BY DEF Init
    <2>2. /\ soft_disable_timer \in 0..SoftDisableFrames
          /\ frame \in 0..(SafetyFrames + 1)
          /\ mismatch_counter \in 0..MismatchLimit
          /\ softRun \in Nat /\ mismatchRun \in Nat
      BY SoftDisableFramesAssumption, MismatchLimitAssumption, FramesAssumption DEF Init
    <2>3. state \in States /\ events \in SUBSET (CarEvents \cup SystemEvents)
      BY DEF Init, States
    <2> QED
      BY <2>1, <2>2, <2>3 DEF TypeOK
  <1> QED
    BY <1>1, <1>2 DEF Init, Inv, TimerInv, EntryInv, MismatchInv

\* A frame keeps every variable's type; the mismatch counter stays within its limit because
\* it is back at 0 one frame after the engagement has ended.
LEMMA StepType ==
  ASSUME Inv, NEW in \in InputRecord, SelfdriveStep(in), History(in)
  PROVE  TypeOK'
  <1> USE DEF Inv
  <1>1. /\ passive' \in BOOLEAN
        /\ initialized' \in BOOLEAN
        /\ unhealthy' \in BOOLEAN
    BY DEF TypeOK, SelfdriveStep, History, Unhealthy, Initialized, InputRecord
  <1>2. state' \in States /\ soft_disable_timer' \in 0..SoftDisableFrames
    <2>1. TimerDown(soft_disable_timer) \in 0..SoftDisableFrames
      BY TimerDownType DEF TypeOK
    <2> QED
      BY <2>1, StateMachineType DEF TypeOK, SelfdriveStep
  <1>3. frame' \in 0..(SafetyFrames + 1)
    BY FramesAssumption DEF TypeOK, SelfdriveStep, SampledFrame
  <1>4. mismatch_counter' \in 0..MismatchLimit
    BY MismatchLimitAssumption DEF TypeOK, MismatchInv, SelfdriveStep, MismatchCounter
  <1>5. events' \in SUBSET (CarEvents \cup SystemEvents)
    BY EventsType DEF SelfdriveStep
  <1>6. softRun' \in Nat /\ mismatchRun' \in Nat
    BY DEF TypeOK, History
  <1> QED
    BY <1>1, <1>2, <1>3, <1>4, <1>5, <1>6 DEF TypeOK

\* A frame engages only a process that is initialized and not in dashcam mode.
LEMMA StepEntry ==
  ASSUME Inv, NEW in \in InputRecord, SelfdriveStep(in), History(in)
  PROVE  EntryInv'
  BY DEF Inv, EntryInv, SelfdriveStep, TypeOK, Initialized

\* A frame keeps the balance between the SOFT_DISABLE frames that have run and the timer.
LEMMA StepTimer ==
  ASSUME Inv, NEW in \in InputRecord, SelfdriveStep(in), History(in)
  PROVE  TimerInv'
  <1> DEFINE soft == Contains(events', "softDisable")
             t    == TimerDown(soft_disable_timer)
  <1> USE DEF Inv
  <1>1. /\ softRun' = IF Active(state') /\ soft THEN softRun + 1 ELSE 0
        /\ softRun \in Nat /\ soft_disable_timer \in 0..SoftDisableFrames /\ state \in States
        /\ t \in 0..SoftDisableFrames /\ t <= soft_disable_timer
        /\ soft_disable_timer >= 1 => t = soft_disable_timer - 1
    BY TimerDownType DEF TypeOK, History
  <1>2. CASE passive \/ ~initialized'
    <2>1. state = "disabled" /\ state' = "disabled"
      BY <1>1, <1>2 DEF EntryInv, SelfdriveStep, Initialized, Enabled, States
    <2> QED
      BY <1>1, <2>1 DEF TimerInv, Active, ACTIVE_STATES
  <1>3. CASE ~passive /\ initialized'
    <2>1. state' = NextState(state, t, events') /\ soft_disable_timer' = NextTimer(state, t, events')
      BY <1>3 DEF SelfdriveStep
    <2> HIDE DEF t, soft
    <2>2. CASE state' = "disabled" \/ state' = "preEnabled"
      BY <1>1, <2>2 DEF TimerInv, Active, ACTIVE_STATES
    <2>3. CASE state' = "softDisabling" /\ state = "softDisabling"
      <3>1. t > 0 /\ soft_disable_timer' = t
        BY <2>1, <2>3, SoftDisableFramesAssumption DEF NextState, NextTimer, SoftDisabling
      <3>2. softRun' <= softRun + 1
        BY <1>1
      <3>3. softRun' \in Nat
        BY <1>1
      <3> QED
        BY <1>1, <2>3, <3>1, <3>2, <3>3, SoftDisableFramesAssumption DEF TimerInv, Active, ACTIVE_STATES
    <2>4. CASE state' = "softDisabling" /\ state # "softDisabling"
      <3>1. soft_disable_timer' = SoftDisableFrames
        BY <2>1, <2>4 DEF NextTimer
      <3>2. state \in {"enabled", "overriding"}
        BY <1>1, <2>1, <2>4 DEF NextState, Disabled, States, ENABLED_STATES, ACTIVE_STATES
      <3>3. softRun' \in 0..2
        BY <1>1, <3>2 DEF TimerInv
      <3>4. SoftDisableFrames \in Nat /\ SoftDisableFrames >= 1
        BY SoftDisableFramesAssumption
      <3>5. softRun' + soft_disable_timer' <= SoftDisableFrames + 2
        BY <3>1, <3>3, <3>4, SumBound
      <3> QED
        BY <2>4, <3>1, <3>4, <3>5 DEF TimerInv, Active, ACTIVE_STATES
    <2>5. CASE state' \in {"enabled", "overriding"}
      <3>1. soft => state = "preEnabled"
        BY <1>1, <2>1, <2>5, NoEntryIntoSoftDisable
           DEF soft, NextState, SoftDisabling, EnabledOrOverriding, States, ENABLED_STATES, ACTIVE_STATES
      <3>2. softRun' <= 1
        BY <1>1, <3>1 DEF TimerInv, Active, ACTIVE_STATES
      <3> QED
        BY <2>5, <3>2 DEF TimerInv, Active, ACTIVE_STATES
    <2>6. state' \in States
      BY <1>1, <2>1, StateMachineType
    <2> QED
      BY <2>2, <2>3, <2>4, <2>5, <2>6 DEF States, ENABLED_STATES, ACTIVE_STATES
  <1> QED
    BY <1>2, <1>3

\* A frame keeps the run of refusals counted, and ends the engagement at the limit.
LEMMA StepMismatch ==
  ASSUME Inv, NEW in \in InputRecord, SelfdriveStep(in), History(in)
  PROVE  MismatchInv'
  <1> USE DEF Inv
  <1> SUFFICES ASSUME Enabled(state')
               PROVE  mismatchRun' <= mismatch_counter' /\ mismatch_counter' < MismatchLimit
    BY DEF MismatchInv
  <1>1. ~passive /\ initialized' /\ Initialized(in)
    BY StepEntry DEF EntryInv, SelfdriveStep
  <1>2. mismatch_counter' = MismatchCounter(in) /\ mismatch_counter \in Nat /\ mismatchRun \in Nat
    BY MismatchLimitAssumption DEF SelfdriveStep, TypeOK
  <1>3. CASE ~Enabled(state)
    BY <1>2, <1>3, MismatchLimitAssumption DEF MismatchCounter, History
  <1>4. CASE Enabled(state)
    <2>1. mismatchRun' <= mismatch_counter' /\ mismatch_counter' \in Nat
      BY <1>2, <1>4 DEF MismatchInv, MismatchCounter, History
    <2>2. ASSUME mismatch_counter' >= MismatchLimit PROVE FALSE
      <3>1. "controlsMismatch" \in DriveEvents(in)
        BY <1>2, <2>2 DEF DriveEvents
      <3>2. "controlsMismatch" \in events'
        BY <1>1, <3>1 DEF SelfdriveStep, Events
      <3>3. Contains(events', "immediateDisable")
        BY <3>2 DEF Contains, EVENTS
      <3>4. state \in States /\ state # "disabled"
        BY <1>4 DEF TypeOK, Enabled, ENABLED_STATES, ACTIVE_STATES
      <3>5. state' = "disabled"
        BY <1>1, <3>3, <3>4, ImmediateDisables DEF SelfdriveStep
      <3> QED
        BY <3>5 DEF Enabled, ENABLED_STATES, ACTIVE_STATES
    <2> QED
      BY <2>1, <2>2, MismatchLimitAssumption
  <1> QED
    BY <1>3, <1>4

\* Every step keeps the inductive invariant.
LEMMA NextInv == Inv /\ [Next]_vars => Inv'
  <1> SUFFICES ASSUME Inv, [Next]_vars PROVE Inv'
    OBVIOUS
  <1>1. CASE Next
    <2>1. PICK in \in InputRecord : SelfdriveStep(in) /\ History(in)
      BY <1>1, InputsAssumption DEF Next, Step
    <2> QED
      BY <2>1, StepType, StepEntry, StepTimer, StepMismatch DEF Inv
  <1>2. CASE UNCHANGED vars
    BY <1>2 DEF vars, code, Inv, TypeOK, TimerInv, EntryInv, MismatchInv
  <1> QED
    BY <1>1, <1>2

\* The inductive invariant holds in every reachable state.
THEOREM Invariance == Spec => []Inv
  BY InitInv, NextInv, PTL DEF Spec

\* selfdrived's variables keep their types, for every value of the constants.
THEOREM TypeCorrect == Spec => []TypeOK
  <1>1. Inv => TypeOK
    BY DEF Inv
  <1> QED
    BY <1>1, Invariance, PTL

\* The actuators are released within SoftDisableFrames + 1 frames of SOFT_DISABLE.
THEOREM SoftDisable == Spec => []SoftDisableBounded
  <1>1. Inv => SoftDisableBounded
    BY SoftDisableFramesAssumption
       DEF Inv, TypeOK, TimerInv, SoftDisableBounded, Active, ACTIVE_STATES
  <1> QED
    BY <1>1, Invariance, PTL

\* An engagement ends before the panda has refused MismatchLimit samples in a row.
THEOREM Mismatch == Spec => []MismatchBounded
  <1>1. Inv => MismatchBounded
    BY MismatchLimitAssumption DEF Inv, TypeOK, MismatchInv, MismatchBounded
  <1> QED
    BY <1>1, Invariance, PTL

\* Whatever the system's failure is, the events of its frame block entry: the catch-all
\* commIssue is left out only when another event already does.
LEMMA FailureBlocksEntry ==
  ASSUME NEW in \in InputRecord, ~passive, Initialized(in),
         ~in.canValid \/ ~in.processesOk \/ (~in.allChecks /\ in.bigModel = "idle")
  PROVE  Contains(Events(in), "noEntry")
  <1> DEFINE evs == DriveEvents(in) \cup MalfunctionEvents(in)
  <1>1. evs \subseteq Events(in)
    BY DEF Events
  <1>2. CASE ~in.canValid
    BY <1>1, <1>2 DEF MalfunctionEvents, Contains, EVENTS, NoEntryEvents
  <1>3. CASE ~in.processesOk
    BY <1>1, <1>3 DEF MalfunctionEvents, Contains, EVENTS, NoEntryEvents, SoftDisableEvents
  <1>4. CASE ~in.allChecks /\ in.bigModel = "idle"
    <2>1. CASE Contains(evs, "noEntry")
      BY <1>1, <2>1 DEF Contains
    <2>2. CASE ~Contains(evs, "noEntry")
      <3>1. NoSystemErrors(evs, MalfunctionEvents(in))
        BY <2>2 DEF NoSystemErrors
      <3>2. "commIssue" \in Events(in)
        BY <1>4, <3>1 DEF Events
      <3> QED
        BY <3>2 DEF Contains, EVENTS, NoEntryEvents, SoftDisableEvents
    <2> QED
      BY <2>1, <2>2
  <1> QED
    BY <1>2, <1>3, <1>4

\* Nobody engages in a frame in which the CAN bus, a process or the messages failed.
THEOREM NoUnhealthyEntry == Spec => NoEntryWhenUnhealthy
  <1>1. ASSUME Inv, Next, Enabled(state'), ~Enabled(state) PROVE ~unhealthy'
    <2>1. PICK in \in InputRecord : SelfdriveStep(in) /\ History(in)
      BY <1>1, InputsAssumption DEF Next, Step
    <2>2. ~passive /\ Initialized(in) /\ events' = Events(in)
      BY <1>1, <2>1, StepEntry DEF EntryInv, SelfdriveStep
    <2>3. state = "disabled"
      BY <1>1 DEF Inv, TypeOK, States, Enabled
    <2>4. state' = Disabled(events') /\ state' # "disabled"
      BY <1>1, <2>1, <2>2, <2>3 DEF SelfdriveStep, NextState, Enabled, ENABLED_STATES, ACTIVE_STATES
    <2>5. ~Contains(Events(in), "noEntry")
      BY <2>2, <2>4 DEF Disabled
    <2> QED
      BY <2>1, <2>2, <2>5, FailureBlocksEntry DEF History, Unhealthy
  <1>2. Inv /\ [Next]_vars => [Enabled(state') /\ ~Enabled(state) => ~unhealthy']_vars
    BY <1>1
  <1> QED
    BY <1>2, Invariance, PTL DEF Spec, NoEntryWhenUnhealthy

-----------------------------------------------------------------------------
(* ParamsStore: the latest value of a key is in the queue, in the writer's hand or on disk. *)

\* Before any put everything has its type.
LEMMA StoreInitType == StoreInit => StoreTypeOK
  BY BoundsAssumption DEF StoreInit, StoreTypeOK, Nothing, Puts

\* The writer's step: an element leaves the queue, is written, or the thread comes to its end.
LEMMA WriterType == ASSUME StoreTypeOK, Writer, written < puts \/ ~Write PROVE StoreTypeOK'
  <1>1. CASE TryPop
    <2>1. CASE queue = <<>>
      BY <1>1, <2>1 DEF TryPop, StoreTypeOK
    <2>2. CASE queue # <<>>
      <3>1. Head(queue) \in Puts /\ Tail(queue) \in Seq(Puts)
        BY <2>2 DEF StoreTypeOK
      <3>2. Head(queue) \in [key : Keys, value : 0..MaxPuts]
        BY <3>1, BoundsAssumption DEF Puts
      <3> QED
        BY <1>1, <2>2, <3>1, <3>2 DEF TryPop, Popped, StoreTypeOK
    <2> QED
      BY <2>1, <2>2
  <1>2. CASE Write
    BY <1>2, BoundsAssumption DEF Write, StoreTypeOK
  <1>3. CASE Ready
    BY <1>3 DEF Ready, StoreTypeOK
  <1> QED
    BY <1>1, <1>2, <1>3 DEF Writer

\* Every put is written at most once: those in the queue and in the writer's hand are the puts
\* that have not been.
Counted == written + Len(queue) + (IF writer = "put" THEN 1 ELSE 0) = puts

\* Where the latest value of a key is: last of its key in the queue, or with the writer, or on disk.
Last(k, i) == queue[i].key = k /\ \A j \in i+1..Len(queue) : queue[j].key # k

Waits(k) == \E i \in 1..Len(queue) : queue[i].key = k

Found(k) ==
  /\ \A i \in 1..Len(queue) : Last(k, i) => queue[i].value = latest[k]
  /\ ~Waits(k) /\ writer = "put" /\ p.key = k => p.value = latest[k]
  /\ ~Waits(k) /\ ~(writer = "put" /\ p.key = k) => disk[k] = latest[k]

\* ~Params has waited for the writer.
Ended == caller = "destroyed" => Finished

StoreInv == StoreTypeOK /\ Counted /\ Ended /\ \A k \in Keys : Found(k)

\* Before any put there is nothing to find.
LEMMA StoreInitInv == StoreInit => StoreInv
  BY StoreInitType DEF StoreInit, StoreInv, Counted, Ended, Found, Finished, Waits

\* A put that is pushed is found in the queue (putNonBlocking).
LEMMA PushInv == ASSUME StoreInv, NEW key \in Keys, Push(key) PROVE StoreInv'
  <1> DEFINE put == [key |-> key, value |-> puts + 1]
  <1>0. StoreTypeOK /\ puts + 1 \in 1..MaxPuts /\ put \in Puts
    BY BoundsAssumption DEF StoreInv, StoreTypeOK, Push, Puts
  <1>1. queue' = Append(queue, put) /\ Len(queue') = Len(queue) + 1 /\ Len(queue) \in Nat
    BY <1>0 DEF Push, StoreTypeOK
  <1>2. queue'[Len(queue) + 1] = put /\ \A i \in 1..Len(queue) : queue'[i] = queue[i]
    BY <1>0, <1>1 DEF StoreTypeOK
  <1>3. StoreTypeOK'
    BY <1>0, <1>1 DEF Push, StoreTypeOK
  <1>4. Counted' /\ Ended'
    <2>1. puts' = puts + 1 /\ written' = written /\ writer' = writer /\ caller' = "pushed"
      BY DEF Push
    <2>2. puts \in Nat /\ written \in Nat
      BY <1>0, BoundsAssumption DEF StoreTypeOK
    <2> HIDE DEF put
    <2> QED
      BY <1>1, <2>1, <2>2 DEF StoreInv, Counted, Ended
  <1>5. ASSUME NEW k \in Keys PROVE Found(k)'
    <2>1. \A i \in 1..Len(queue)' : Last(k, i)' => queue'[i].value = latest'[k]
      <3> SUFFICES ASSUME NEW i \in 1..(Len(queue) + 1), Last(k, i)'
                   PROVE  queue'[i].value = latest'[k]
        BY <1>1
      <3>1. CASE k = key
        <4>1. i = Len(queue) + 1
          BY <3>1, <1>1, <1>2 DEF Last
        <4> QED
          BY <4>1, <3>1, <1>0, <1>2 DEF Push, StoreTypeOK
      <3>2. CASE k # key
        <4>1. i \in 1..Len(queue)
          BY <3>2, <1>1, <1>2 DEF Last
        <4>2. Last(k, i)
          BY <4>1, <1>1, <1>2 DEF Last
        <4> QED
          BY <4>1, <4>2, <3>2, <1>0, <1>2 DEF Push, StoreTypeOK, StoreInv, Found
      <3> QED
        BY <3>1, <3>2
    <2>2. Waits(k)' <=> Waits(k) \/ k = key
      BY <1>1, <1>2 DEF Waits
    <2>3. k # key => latest'[k] = latest[k]
      BY <1>0 DEF Push, StoreTypeOK
    <2> QED
      BY <2>1, <2>2, <2>3 DEF Push, StoreInv, Found
  <1> QED
    BY <1>3, <1>4, <1>5 DEF StoreInv

\* The value that try_pop takes is found with the writer.
LEMMA PopInv == ASSUME StoreInv, TryPop PROVE StoreInv'
  <1>1. StoreTypeOK'
    BY WriterType DEF StoreInv, Writer, TryPop, Write
  <1>2. CASE queue = <<>>
    BY <1>1, <1>2 DEF TryPop, StoreInv, Counted, Ended, Found, Last, Waits, Finished
  <1>3. CASE queue # <<>>
    <2>1. /\ queue \in Seq(Puts) /\ Len(queue) \in Nat \ {0}
          /\ Len(queue') = Len(queue) - 1 /\ \A i \in 1..Len(queue') : queue'[i] = queue[i+1]
          /\ p' = queue[1] /\ writer = "pop" /\ writer' = "put"
      <3>1. queue \in Seq(Puts) /\ writer = "pop" /\ writer' = "put"
        BY <1>3 DEF TryPop, StoreInv, StoreTypeOK
      <3>2. p' = Head(queue) /\ queue' = Tail(queue)
        BY <1>3 DEF TryPop, Popped
      <3> QED
        BY <1>3, <3>1, <3>2
    <2>2. Counted' /\ Ended'
      BY <1>3, <2>1 DEF TryPop, StoreInv, Counted, Ended, StoreTypeOK, Finished
    <2>3. ASSUME NEW k \in Keys PROVE Found(k)'
      <3>1. ASSUME NEW i \in 1..Len(queue'), Last(k, i)' PROVE queue'[i].value = latest[k]
        <4>1. \A j \in i+2..Len(queue) : queue[j].key # k
          <5> TAKE j \in i+2..Len(queue)
          <5>1. j - 1 \in i+1..Len(queue') /\ queue'[j - 1] = queue[j]
            BY <2>1
          <5> QED
            BY <5>1, <3>1 DEF Last
        <4>2. Last(k, i + 1) /\ i + 1 \in 1..Len(queue)
          BY <2>1, <3>1, <4>1 DEF Last
        <4> QED
          BY <2>1, <4>2 DEF StoreInv, Found
      <3>2. ~Waits(k)' /\ p'.key = k => p'.value = latest[k]
        <4> SUFFICES ASSUME ~Waits(k)', p'.key = k PROVE p'.value = latest[k]
          OBVIOUS
        <4>1. \A j \in 2..Len(queue) : queue[j].key # k
          <5> TAKE j \in 2..Len(queue)
          <5>1. j - 1 \in 1..Len(queue') /\ queue'[j - 1] = queue[j]
            BY <2>1
          <5> QED
            BY <5>1 DEF Waits
        <4>2. Last(k, 1) /\ 1 \in 1..Len(queue)
          BY <2>1, <4>1 DEF Last
        <4> QED
          BY <2>1, <4>2 DEF StoreInv, Found
      <3>3. ~Waits(k)' /\ p'.key # k => disk[k] = latest[k]
        <4> SUFFICES ASSUME ~Waits(k)', p'.key # k PROVE disk[k] = latest[k]
          OBVIOUS
        <4>1. \A j \in 1..Len(queue) : queue[j].key # k
          <5> TAKE j \in 1..Len(queue)
          <5>1. CASE j = 1
            BY <5>1, <2>1
          <5>2. CASE j # 1
            <6>1. j - 1 \in 1..Len(queue') /\ queue'[j - 1] = queue[j]
              BY <5>2, <2>1
            <6> QED
              BY <6>1 DEF Waits
          <5> QED
            BY <5>1, <5>2
        <4> QED
          BY <2>1, <4>1 DEF StoreInv, Found, Waits
      <3> QED
        BY <2>1, <3>1, <3>2, <3>3 DEF Found, TryPop
    <2> QED
      BY <1>1, <2>2, <2>3 DEF StoreInv
  <1> QED
    BY <1>2, <1>3

\* A write leaves the value in the file.
LEMMA WriteInv == ASSUME StoreInv, Write PROVE StoreInv'
  <1>0. StoreTypeOK /\ Len(queue) \in Nat /\ written \in Nat /\ puts \in Nat
    BY BoundsAssumption DEF StoreInv, StoreTypeOK
  <1>1. Counted' /\ Ended' /\ written < puts
    BY <1>0 DEF Write, StoreInv, Counted, Ended, Finished
  <1>2. StoreTypeOK'
    BY <1>0, <1>1, WriterType DEF Writer
  <1>3. ASSUME NEW k \in Keys PROVE Found(k)'
    BY <1>0 DEF Write, StoreTypeOK, StoreInv, Found, Waits, Last
  <1> QED
    BY <1>1, <1>2, <1>3 DEF StoreInv

\* Every step of callers, writer and destructor preserves the invariant.
LEMMA StoreNextInv == StoreInv /\ [StoreNext]_storeVars => StoreInv'
  <1> SUFFICES ASSUME StoreInv, [StoreNext]_storeVars PROVE StoreInv'
    OBVIOUS
  <1>1. CASE Start
    BY <1>1 DEF Start, StartsWriter, StoreInv, StoreTypeOK, Counted, Ended, Found, Last, Waits, Finished
  <1>2. CASE Ready
    BY <1>2 DEF Ready, StoreInv, StoreTypeOK, Counted, Ended, Found, Last, Waits, Finished
  <1>3. CASE Destroy
    BY <1>3 DEF Destroy, MayDestroy, StoreInv, StoreTypeOK, Counted, Ended, Found, Last, Waits, Finished
  <1>4. CASE UNCHANGED storeVars
    BY <1>4 DEF storeVars, StoreInv, StoreTypeOK, Counted, Ended, Found, Last, Waits, Finished
  <1> QED
    BY <1>1, <1>2, <1>3, <1>4, PushInv, PopInv, WriteInv DEF StoreNext, Writer

\* The invariant of the store holds always.
LEMMA StoreInvariance == StoreSpec => []StoreInv
  BY StoreInitInv, StoreNextInv, PTL DEF StoreSpec

\* Every variable keeps its type, and no more values are written than were put.
THEOREM StoreTypeCorrect == StoreSpec => []StoreTypeOK
  <1>1. StoreInv => StoreTypeOK
    BY DEF StoreInv
  <1> QED
    BY <1>1, StoreInvariance, PTL

\* The puts of every key take effect in their order, however many wait in the queue.
THEOREM LastPutWins == StoreSpec => []LatestWins
  <1>1. StoreInv => LatestWins
    <2> SUFFICES ASSUME StoreInv, queue = <<>>, writer # "put" PROVE disk = latest
      BY DEF LatestWins
    <2>0. \A k \in Keys : ~Waits(k) /\ Found(k)
      <3>1. 1..Len(queue) = {}
        BY Len(queue) = 0
      <3>2. \A k : ~Waits(k)
        BY <3>1 DEF Waits
      <3>3. \A k \in Keys : Found(k)
        BY DEF StoreInv
      <3> QED
        BY <3>2, <3>3
    <2>1. \A k \in Keys : disk[k] = latest[k]
      BY <2>0 DEF Found
    <2>2. disk \in [Keys -> 0..MaxPuts] /\ latest \in [Keys -> 0..MaxPuts]
      BY DEF StoreInv, StoreTypeOK
    <2> QED
      BY <2>1, <2>2
  <1> QED
    BY <1>1, StoreInvariance, PTL

\* Nothing is written on behalf of Params that are destroyed: the destructor has waited for the
\* writer, and nobody starts another.
THEOREM DestroyedIsQuiet == StoreSpec => NoWriteAfterDestruction
  <1>1. StoreInv /\ [StoreNext]_storeVars => [caller = "destroyed" => UNCHANGED <<disk, writer>>]_storeVars
    BY DEF StoreInv, Ended, Finished, StoreNext, Push, Start, Writer, TryPop, Write, Ready, Destroy, storeVars
  <1> QED
    BY <1>1, StoreInvariance, PTL DEF StoreSpec, NoWriteAfterDestruction
=============================================================================
