----------------------------- MODULE SafetySetup -----------------------------
(***************************************************************************)
(* How the panda gets its safety mode when the car is switched on.         *)
(*                                                                         *)
(* pandad reports the ignition in pandaStates; hardwared answers with      *)
(* deviceState.started; on its rising edge manager clears the params of    *)
(* the previous drive and starts card; card identifies the car, with the   *)
(* OBD bus multiplexed when it has to query the firmware, and leaves what  *)
(* it found in params; pandad, which reads the same deviceState, waits for *)
(* those params and switches the panda to the car's safety mode, once for  *)
(* the whole drive.  Everything goes through messages of which only the    *)
(* latest is kept, and through params that are read one at a time.         *)
(*                                                                         *)
(* A drive begins when the ignition comes on; params and safety modes are  *)
(* labelled with the drive they belong to.                                 *)
(***************************************************************************)
EXTENDS Integers

CONSTANT MaxDrives   \* bound on how often the ignition comes on

ASSUME MaxDrivesAssumption == MaxDrives \in Nat \ {0}

NoDrive == 0
Drives  == 1..MaxDrives

\* Safety modes of the panda.  ELM327 with parameter 1 is "elm327", with parameter 0, which
\* multiplexes the OBD bus, it is "obd".
NoOutput == [model |-> "noOutput", drive |-> NoDrive]
Elm327   == [model |-> "elm327", drive |-> NoDrive]
Obd      == [model |-> "obd", drive |-> NoDrive]
Car(d)   == [model |-> "car", drive |-> d]

VARIABLES
  ignition, drive,   \* the car
  patient,           \* the driver lets the system settle before turning the key again
  mode,              \* the panda
  pandaStates,       \* last message of pandad: the ignition
  started,           \* last message of hardwared: deviceState.started
  isOnroad, initialized_, safetyConfigured_, prevObd_,  \* pandad
  configuring,       \* pandad is between process_panda_state and fetchCarParams
  startedPrev,       \* manager: started_prev
  ensuring,          \* manager is about to call ensure_running
  card,              \* the card process: pc, the drive it was started in, SIGINT received,
                     \* CP.passive, initialized_prev
  shuttingDown,      \* manager: card.shutting_down
  params             \* the params that are cleared when the car goes onroad

pandadVars  == <<isOnroad, initialized_, safetyConfigured_, prevObd_, configuring>>
managerVars == <<startedPrev, ensuring, shuttingDown>>
vars == <<ignition, drive, patient, mode, pandaStates, started, pandadVars, managerVars, card, params>>

CardOf(pc, d) ==
  [pc |-> pc, drive |-> d, sigint |-> FALSE, passive |-> FALSE, initialized_prev |-> FALSE]
NoCard   == CardOf("none", NoDrive)
NoParams == [FirmwareQueryDone |-> FALSE, ControlsReady |-> FALSE, CarParams |-> NoDrive,
             ObdMultiplexingEnabled |-> FALSE, ObdMultiplexingChanged |-> FALSE]

Init ==
  /\ ignition = FALSE /\ drive = NoDrive /\ patient \in BOOLEAN
  /\ mode = NoOutput
  /\ pandaStates = FALSE /\ started = FALSE
  /\ isOnroad = FALSE /\ initialized_ = FALSE /\ safetyConfigured_ = FALSE /\ prevObd_ = FALSE
  /\ configuring = FALSE
  /\ startedPrev = FALSE /\ ensuring = FALSE /\ shuttingDown = FALSE
  /\ card = NoCard
  /\ params = NoParams

-----------------------------------------------------------------------------
(* The car. *)

\* What follows from the ignition has come to rest: with the car on card is in its loop, and the
\* panda is configured if card has asked for it.
Settled ==
  /\ ignition = pandaStates /\ ignition = started /\ ignition = isOnroad /\ ignition = startedPrev
  /\ ~ensuring /\ ~configuring
  /\ IF ignition THEN card.pc = "running" /\ (params.ControlsReady => mode.model = "car")
                 ELSE card.pc = "none" /\ ~initialized_

Ignition ==
  /\ patient => Settled
  /\ ignition \/ drive < MaxDrives
  /\ ignition' = ~ignition
  /\ drive' = IF ignition THEN drive ELSE drive + 1
  /\ UNCHANGED <<patient, mode, pandaStates, started, pandadVars, managerVars, card, params>>

-----------------------------------------------------------------------------
(* hardwared: hardware_thread, with every other condition to go onroad fulfilled. *)

Hardwared ==
  /\ started' = pandaStates
  /\ UNCHANGED <<ignition, drive, patient, mode, pandaStates, pandadVars, managerVars, card, params>>

-----------------------------------------------------------------------------
(* pandad: the 10 Hz branch of its loop in two steps, so that other processes can write    *)
(* params in between.                                                                      *)

\* Defect: the relay stays open unless both the ignition and the drive say otherwise.
ShouldCloseRelay_Both(onroad) == ~ignition /\ onroad

ShouldCloseRelay(onroad) == ~ignition \/ ~onroad

\* sm.update and send_panda_states
PandadState ==
  /\ ~configuring
  /\ isOnroad' = started
  /\ mode' = IF ShouldCloseRelay(isOnroad') THEN NoOutput ELSE mode
  /\ pandaStates' = ignition
  /\ configuring' = TRUE
  /\ UNCHANGED <<ignition, drive, patient, started, initialized_, safetyConfigured_, prevObd_,
                 managerVars, card, params>>

\* Defect: a drive that ends leaves the configuration in place.
ForgetConfiguration_Kept == initialized_' = FALSE /\ UNCHANGED safetyConfigured_

ForgetConfiguration == initialized_' = FALSE /\ safetyConfigured_' = FALSE

\* updateMultiplexingMode
Switched == params.ObdMultiplexingEnabled # (initialized_ /\ prevObd_)

\* Defect: the panda is only told when the drive begins.
DiagnosticMode_Once == IF initialized_ THEN mode ELSE Elm327

DiagnosticMode ==
  IF Switched THEN (IF params.ObdMultiplexingEnabled THEN Obd ELSE Elm327)
  ELSE IF initialized_ THEN mode ELSE Elm327

\* Defect: the change is not acknowledged.
Acknowledged_Never == params

Acknowledged == IF Switched THEN [params EXCEPT !.ObdMultiplexingChanged = TRUE] ELSE params

\* fetchCarParams
Fetched == params.FirmwareQueryDone /\ params.ControlsReady /\ params.CarParams # NoDrive

Configure ==
  /\ initialized_' = TRUE
  /\ prevObd_' = params.ObdMultiplexingEnabled
  /\ params' = Acknowledged
  /\ safetyConfigured_' = Fetched
  /\ mode' = IF Fetched THEN Car(params.CarParams) ELSE DiagnosticMode

\* PandaSafety.configureSafetyMode
PandadConfigure ==
  /\ configuring
  /\ configuring' = FALSE
  /\ \/ isOnroad /\ ~safetyConfigured_ /\ Configure
     \/ isOnroad /\ safetyConfigured_ /\ UNCHANGED <<initialized_, safetyConfigured_, prevObd_, mode, params>>
     \/ ~isOnroad /\ ForgetConfiguration /\ UNCHANGED <<prevObd_, mode, params>>
  /\ UNCHANGED <<ignition, drive, patient, pandaStates, started, isOnroad, managerVars, card>>

-----------------------------------------------------------------------------
(* manager: one round of manager_thread, in two steps because card and pandad go on while  *)
(* it clears the params.                                                                   *)

ClearedParams == IF started /\ ~startedPrev THEN NoParams ELSE params

ManagerEdge ==
  /\ ~ensuring /\ started # startedPrev
  /\ params' = ClearedParams
  /\ startedPrev' = started
  /\ ensuring' = TRUE
  /\ UNCHANGED <<ignition, drive, patient, mode, pandaStates, started, pandadVars, shuttingDown, card>>

\* ensure_running, onroad: a card still shutting down is waited for and, in the end, killed.
ManagerStart ==
  /\ ensuring /\ startedPrev
  /\ ensuring' = FALSE /\ shuttingDown' = FALSE
  /\ card' = IF card.pc = "none" \/ shuttingDown
             THEN CardOf("start", drive) ELSE card
  /\ UNCHANGED <<ignition, drive, patient, mode, pandaStates, started, pandadVars, startedPrev, params>>

\* What SIGINT does to card: during a blocking read of a param it is Params that catches it,
\* and get_bool returns as if the param had come.
Interrupted ==
  CASE card.pc = "none"    -> card
    [] card.pc = "waitOn"  -> [card EXCEPT !.pc = "query"]
    [] card.pc = "waitOff" -> [card EXCEPT !.pc = "fwDone"]
    [] OTHER               -> [card EXCEPT !.sigint = TRUE]

\* ensure_running, offroad: the first round signals card and does not wait for it.
ManagerSignal ==
  /\ ensuring /\ ~startedPrev
  /\ ensuring' = FALSE
  /\ shuttingDown' = (card.pc # "none")
  /\ card' = Interrupted
  /\ UNCHANGED <<ignition, drive, patient, mode, pandaStates, started, pandadVars, startedPrev, params>>

\* A later round offroad waits for it, five seconds long, and then kills it.
ManagerKill ==
  /\ ~ensuring /\ ~startedPrev /\ shuttingDown
  /\ shuttingDown' = FALSE
  /\ card' = NoCard
  /\ UNCHANGED <<ignition, drive, patient, mode, pandaStates, started, pandadVars, startedPrev, ensuring, params>>

-----------------------------------------------------------------------------
(* card *)

Goto(pc) == card' = [card EXCEPT !.pc = pc]

CardUnchanged == UNCHANGED <<ignition, drive, patient, mode, pandaStates, started, pandadVars, managerVars>>

\* KeyboardInterrupt ends card where it is.
CardExit ==
  /\ card.sigint /\ card' = NoCard
  /\ UNCHANGED params
  /\ CardUnchanged

\* get_car queries the firmware unless the cached CarParams will do, and in the end always
\* asks for the bus not to be multiplexed.
CardStart ==
  /\ card.pc = "start"
  /\ Goto("setOn") \/ Goto("setOff")
  /\ UNCHANGED params
  /\ CardUnchanged

\* obd_callback: when the request differs from the last one, the acknowledgement is removed
RequestObd(from, value, next, done) ==
  /\ card.pc = from
  /\ IF params.ObdMultiplexingEnabled = value
     THEN Goto(done) /\ UNCHANGED params
     ELSE Goto(next) /\ params' = [params EXCEPT !.ObdMultiplexingChanged = FALSE]
  /\ CardUnchanged

\* The blocking read of the acknowledgement.
AwaitObd(waiting, done) ==
  /\ card.pc = waiting
  /\ params.ObdMultiplexingChanged
  /\ Goto(done)
  /\ UNCHANGED params
  /\ CardUnchanged

Query == card.pc = "query" /\ Goto("setOff") /\ UNCHANGED params /\ CardUnchanged

\* A blocking put
Put(pc, next, key, value) ==
  /\ card.pc = pc
  /\ Goto(next)
  /\ params' = [params EXCEPT ![key] = value]
  /\ CardUnchanged

\* The end of Car.__init__, which decides whether openpilot may control this car at all
PutCarParams ==
  /\ card.pc = "carParams"
  /\ \E passive \in BOOLEAN : card' = [card EXCEPT !.pc = "running", !.passive = passive]
  /\ params' = [params EXCEPT !.CarParams = card.drive]
  /\ CardUnchanged

\* Car.__init__
CardStep ==
  \/ CardStart
  \/ RequestObd("setOn", TRUE, "putOn", "query")
  \/ Put("putOn", "waitOn", "ObdMultiplexingEnabled", TRUE)
  \/ AwaitObd("waitOn", "query")
  \/ Query
  \/ RequestObd("setOff", FALSE, "putOff", "fwDone")
  \/ Put("putOff", "waitOff", "ObdMultiplexingEnabled", FALSE)
  \/ AwaitObd("waitOff", "fwDone")
  \/ Put("fwDone", "carParams", "FirmwareQueryDone", TRUE)
  \/ PutCarParams

\* step, in a round in which selfdrived's onroadEvents begin or cease to say that it has
\* initialized.  controls_update puts ControlsReady without blocking: the step stands for the
\* write (ParamsStore says what may come before it).
CardInitialized ==
  /\ card.pc = "running"
  /\ card' = [card EXCEPT !.initialized_prev = ~@]
  /\ params' = IF card.passive \/ card.initialized_prev THEN params
               ELSE [params EXCEPT !.ControlsReady = TRUE]
  /\ CardUnchanged

-----------------------------------------------------------------------------
Pandad  == PandadState \/ PandadConfigure
Manager == ManagerEdge \/ ManagerStart \/ ManagerSignal \/ ManagerKill

Next == Ignition \/ Hardwared \/ Pandad \/ Manager \/ CardStep \/ CardInitialized \/ CardExit

\* The daemons loop at fixed rates and card runs; nothing makes the driver act, or selfdrived
\* send its events.
Fairness == WF_vars(Hardwared) /\ WF_vars(Pandad) /\ WF_vars(Manager) /\ WF_vars(CardStep)

Spec == Init /\ [][Next]_vars /\ Fairness

-----------------------------------------------------------------------------
\* Once the car stays off, the panda's outputs stay closed, however far the setup had come.
RelayClosesWhenOff == <>[]~ignition => <>[](mode = NoOutput)

\* Once the car stays on, the panda ends up in a car's safety mode, unless card is in its loop and
\* has not asked for one: the car is passive, or selfdrived has not said that it is initialized.
\* The ignition is that of a patient driver, who lets each drive settle before turning the key.
PandaGetsConfigured ==
  <>[](ignition /\ patient) =>
    <>[](\/ mode.model = "car"
         \/ card.pc = "running" /\ (card.passive \/ ~card.initialized_prev))

\* On the first drive card never waits for an acknowledgement for ever.
FirstDriveStarts == <>[](ignition /\ drive = 1) => <>(card.pc = "running")

\* Firmware is queried through the OBD port only while the panda really multiplexes it, as
\* long as pandad takes the car for on and has not configured the panda yet; for a driver who
\* lets each drive settle, so that card is never interrupted.
QueriesAreMultiplexed ==
  patient /\ card.pc = "query" /\ ignition /\ isOnroad /\ ~safetyConfigured_ => mode = Obd

\* "signal pandad to switch to car safety mode" (card.py, on ControlsReady): the car's safety
\* mode comes after card's signal, so it is that of the drive card identified.
ModeOfThisDrive == patient /\ ignition /\ mode.model = "car" => mode.drive = drive
=============================================================================
