-------------------------- MODULE SafetySetupProofs --------------------------
(***************************************************************************)
(* Firmware is queried only while the OBD bus is multiplexed, for any      *)
(* number of drives of a driver who lets each of them settle.              *)
(*                                                                         *)
(* A driver who lets the system settle makes each drive a wave that goes   *)
(* from the ignition to pandaStates, to deviceState, and from there to     *)
(* pandad and to manager.  The invariant says what the wave has and has    *)
(* not reached when the car is on (Rising) and when it is off (Falling),   *)
(* and, for each place card can be in, what request is in the params and   *)
(* what pandad makes of it (Asked).                                        *)
(***************************************************************************)
EXTENDS SafetySetup, TLAPS

Pcs == {"none", "start", "setOn", "putOn", "waitOn", "query", "setOff", "putOff", "waitOff",
        "fwDone", "carParams", "running"}

Cards == [pc : Pcs, drive : Nat, sigint : BOOLEAN, passive : BOOLEAN, initialized_prev : BOOLEAN]

Modes == [model : {"noOutput", "elm327", "obd", "car"}, drive : Nat]

Params == [FirmwareQueryDone : BOOLEAN, ControlsReady : BOOLEAN, CarParams : Nat,
           ObdMultiplexingEnabled : BOOLEAN, ObdMultiplexingChanged : BOOLEAN]

TypeOK ==
  /\ ignition \in BOOLEAN /\ drive \in 0..MaxDrives /\ patient \in BOOLEAN
  /\ mode \in Modes
  /\ pandaStates \in BOOLEAN /\ started \in BOOLEAN
  /\ isOnroad \in BOOLEAN /\ initialized_ \in BOOLEAN /\ safetyConfigured_ \in BOOLEAN
  /\ prevObd_ \in BOOLEAN /\ configuring \in BOOLEAN
  /\ startedPrev \in BOOLEAN /\ ensuring \in BOOLEAN /\ shuttingDown \in BOOLEAN
  /\ card \in Cards
  /\ params \in Params

\* pandad's own state: the relay is open only onroad, the car's safety mode goes with
\* safetyConfigured_, and that with initialized_.
Relay ==
  /\ mode # NoOutput => isOnroad
  /\ mode.model = "car" => safetyConfigured_
  /\ safetyConfigured_ => initialized_

\* The car is off and what follows from it is on its way: card is there only when it was
\* running, and has taken its requests back.
Falling ==
  /\ pandaStates => started
  /\ started => isOnroad /\ startedPrev
  /\ card.pc \in {"none", "running"}
  /\ ensuring => ~startedPrev
  /\ ~params.ObdMultiplexingEnabled

\* The car is on and what follows from it is on its way: card is only started after manager has
\* seen the drive begin, and nothing stops it.
Rising ==
  /\ drive # NoDrive
  /\ started => pandaStates
  /\ isOnroad => started
  /\ initialized_ => isOnroad
  /\ startedPrev => started
  /\ ensuring => startedPrev
  /\ card.pc # "none" => startedPrev /\ ~ensuring /\ ~shuttingDown /\ ~card.sigint

\* pandad has seen the request to multiplex, and the panda does as asked.
Multiplexed == safetyConfigured_ \/ (initialized_ /\ prevObd_ /\ mode = Obd)

\* pandad has yet to see the request to multiplex.
Unseen == safetyConfigured_ \/ ~(initialized_ /\ prevObd_)

\* What card has asked for so far, and what pandad has made of it.
Asked ==
  /\ card.pc \in {"none", "start", "setOn"} => ~params.ObdMultiplexingEnabled /\ Unseen
  /\ card.pc = "putOn" =>
       ~params.ObdMultiplexingEnabled /\ ~params.ObdMultiplexingChanged /\ Unseen
  /\ card.pc = "waitOn" =>
       /\ params.ObdMultiplexingEnabled
       /\ IF params.ObdMultiplexingChanged THEN Multiplexed ELSE Unseen
  /\ card.pc = "query" => params.ObdMultiplexingEnabled /\ Multiplexed
  /\ card.pc \in {"waitOff", "fwDone", "carParams", "running"} => ~params.ObdMultiplexingEnabled

IInv ==
  /\ TypeOK
  /\ Relay
  /\ patient /\ ~ignition => Falling
  /\ patient /\ ignition => Rising
  /\ patient /\ ignition => Asked

-----------------------------------------------------------------------------
(* What the steps do to the records *)

\* card goes on.
LEMMA Goes ==
  ASSUME card \in Cards, NEW pc \in Pcs, Goto(pc)
  PROVE  card' \in Cards /\ card'.pc = pc /\ card'.drive = card.drive /\ card'.sigint = card.sigint
  BY DEF Goto, Cards

\* The params with some of them changed.
LEMMA ParamsWith ==
  ASSUME params \in Params, NEW b \in BOOLEAN, NEW d \in Nat
  PROVE  /\ [params EXCEPT !.FirmwareQueryDone = b] \in Params
         /\ [params EXCEPT !.ControlsReady = b] \in Params
         /\ [params EXCEPT !.CarParams = d] \in Params
         /\ [params EXCEPT !.ObdMultiplexingChanged = b] \in Params
         /\ [params EXCEPT !.ObdMultiplexingEnabled = b] \in Params
  BY DEF Params

\* The named records have their types.
LEMMA Constants ==
  NoCard \in Cards /\ NoParams \in Params /\ {NoOutput, Elm327, Obd} \subseteq Modes
  BY DEF NoCard, CardOf, NoParams, NoOutput, Elm327, Obd, Cards, Params, Modes, Pcs, NoDrive

\* The request to multiplex and its acknowledgement.
Requests(p) == <<p.ObdMultiplexingEnabled, p.ObdMultiplexingChanged>>

\* Where card goes from where, and what it has asked for by then.
LEMMA CardMoves ==
  ASSUME TypeOK, CardStep \/ CardInitialized
  PROVE  /\ card' \in Cards /\ params' \in Params /\ CardUnchanged
         /\ card'.sigint = card.sigint /\ card.pc # "none" /\ card'.pc # "none"
         /\ card.pc = "running" => card'.pc = "running"
         /\ \/ /\ Requests(params') = Requests(params)
               /\ \/ card.pc = "start" /\ card'.pc \in {"setOn", "setOff"}
                  \/ card.pc = "setOn" /\ params.ObdMultiplexingEnabled /\ card'.pc = "query"
                  \/ card.pc = "waitOn" /\ params.ObdMultiplexingChanged /\ card'.pc = "query"
                  \/ card.pc = "query" /\ card'.pc = "setOff"
                  \/ card.pc = "setOff" /\ ~params.ObdMultiplexingEnabled /\ card'.pc = "fwDone"
                  \/ /\ card.pc \in {"waitOff", "fwDone", "carParams", "running"}
                     /\ card'.pc \in {"fwDone", "carParams", "running"}
            \/ /\ card.pc = "setOn" /\ card'.pc = "putOn" /\ ~params'.ObdMultiplexingChanged
               /\ params'.ObdMultiplexingEnabled = params.ObdMultiplexingEnabled
            \/ /\ card.pc = "putOn" /\ card'.pc = "waitOn" /\ params'.ObdMultiplexingEnabled
               /\ params'.ObdMultiplexingChanged = params.ObdMultiplexingChanged
            \/ card.pc = "setOff" /\ card'.pc = "putOff"
            \/ card.pc = "putOff" /\ card'.pc = "waitOff" /\ ~params'.ObdMultiplexingEnabled
  <1>1. card \in Cards /\ params \in Params /\ card.drive \in Nat
    BY DEF TypeOK, Cards
  <1> USE DEF Requests
  <1>2. CASE CardStart
    <2>1. PICK pc \in {"setOn", "setOff"} : Goto(pc)
      BY <1>2 DEF CardStart
    <2>2. card' \in Cards /\ card'.pc = pc /\ card'.sigint = card.sigint
      BY <1>1, <2>1, Goes DEF Pcs
    <2> QED
      BY <1>1, <1>2, <2>2 DEF CardStart
  <1>3. CASE RequestObd("setOn", TRUE, "putOn", "query")
    <2>1. CASE params.ObdMultiplexingEnabled = TRUE
      <3>1. Goto("query") /\ params' = params
        BY <1>3, <2>1 DEF RequestObd
      <3>2. card' \in Cards /\ card'.pc = "query" /\ card'.sigint = card.sigint
        BY <1>1, <3>1, Goes DEF Pcs
      <3> QED
        BY <1>1, <1>3, <2>1, <3>1, <3>2 DEF RequestObd, Params
    <2>2. CASE params.ObdMultiplexingEnabled # TRUE
      <3>1. Goto("putOn") /\ params' = [params EXCEPT !.ObdMultiplexingChanged = FALSE]
        BY <1>3, <2>2 DEF RequestObd
      <3>2. card' \in Cards /\ card'.pc = "putOn" /\ card'.sigint = card.sigint
        BY <1>1, <3>1, Goes DEF Pcs
      <3>3. /\ params' \in Params /\ ~params'.ObdMultiplexingChanged
            /\ params'.ObdMultiplexingEnabled = params.ObdMultiplexingEnabled
        BY <1>1, <3>1, ParamsWith DEF Params
      <3> QED
        BY <1>1, <1>3, <2>2, <3>2, <3>3 DEF RequestObd, Params
    <2> QED
      BY <2>1, <2>2
  <1>4. CASE Put("putOn", "waitOn", "ObdMultiplexingEnabled", TRUE)
    <2>1. card' \in Cards /\ card'.pc = "waitOn" /\ card'.sigint = card.sigint
      BY <1>1, <1>4, Goes DEF Put, Pcs
    <2>2. /\ params' \in Params /\ params'.ObdMultiplexingEnabled = TRUE
          /\ params'.ObdMultiplexingChanged = params.ObdMultiplexingChanged
      <3>1. params' = [params EXCEPT !.ObdMultiplexingEnabled = TRUE]
        BY <1>4 DEF Put
      <3> QED
        BY <1>1, <3>1, ParamsWith DEF Params
    <2> QED
      BY <1>1, <1>4, <2>1, <2>2 DEF Put
  <1>5. CASE AwaitObd("waitOn", "query")
    <2>1. card' \in Cards /\ card'.pc = "query" /\ card'.sigint = card.sigint
      BY <1>1, <1>5, Goes DEF AwaitObd, Pcs
    <2> QED
      BY <1>1, <1>5, <2>1 DEF AwaitObd
  <1>6. CASE Query
    <2>1. card' \in Cards /\ card'.pc = "setOff" /\ card'.sigint = card.sigint
      BY <1>1, <1>6, Goes DEF Query, Pcs
    <2> QED
      BY <1>1, <1>6, <2>1 DEF Query
  <1>7. CASE RequestObd("setOff", FALSE, "putOff", "fwDone")
    <2>1. CASE params.ObdMultiplexingEnabled = FALSE
      <3>1. Goto("fwDone") /\ params' = params
        BY <1>7, <2>1 DEF RequestObd
      <3>2. card' \in Cards /\ card'.pc = "fwDone" /\ card'.sigint = card.sigint
        BY <1>1, <3>1, Goes DEF Pcs
      <3> QED
        BY <1>1, <1>7, <2>1, <3>1, <3>2 DEF RequestObd, Params
    <2>2. CASE params.ObdMultiplexingEnabled # FALSE
      <3>1. Goto("putOff") /\ params' = [params EXCEPT !.ObdMultiplexingChanged = FALSE]
        BY <1>7, <2>2 DEF RequestObd
      <3>2. card' \in Cards /\ card'.pc = "putOff" /\ card'.sigint = card.sigint
        BY <1>1, <3>1, Goes DEF Pcs
      <3>3. /\ params' \in Params /\ ~params'.ObdMultiplexingChanged
            /\ params'.ObdMultiplexingEnabled = params.ObdMultiplexingEnabled
        BY <1>1, <3>1, ParamsWith DEF Params
      <3> QED
        BY <1>1, <1>7, <2>2, <3>2, <3>3 DEF RequestObd, Params
    <2> QED
      BY <2>1, <2>2
  <1>8. CASE Put("putOff", "waitOff", "ObdMultiplexingEnabled", FALSE)
    <2>1. card' \in Cards /\ card'.pc = "waitOff" /\ card'.sigint = card.sigint
      BY <1>1, <1>8, Goes DEF Put, Pcs
    <2>2. /\ params' \in Params /\ params'.ObdMultiplexingEnabled = FALSE
          /\ params'.ObdMultiplexingChanged = params.ObdMultiplexingChanged
      <3>1. params' = [params EXCEPT !.ObdMultiplexingEnabled = FALSE]
        BY <1>8 DEF Put
      <3> QED
        BY <1>1, <3>1, ParamsWith DEF Params
    <2> QED
      BY <1>1, <1>8, <2>1, <2>2 DEF Put
  <1>9. CASE AwaitObd("waitOff", "fwDone")
    <2>1. card' \in Cards /\ card'.pc = "fwDone" /\ card'.sigint = card.sigint
      BY <1>1, <1>9, Goes DEF AwaitObd, Pcs
    <2> QED
      BY <1>1, <1>9, <2>1 DEF AwaitObd
  <1>10. CASE Put("fwDone", "carParams", "FirmwareQueryDone", TRUE)
    <2>1. card' \in Cards /\ card'.pc = "carParams" /\ card'.sigint = card.sigint
      BY <1>1, <1>10, Goes DEF Put, Pcs
    <2>2. params' \in Params /\ Requests(params') = Requests(params)
      BY <1>1, <1>10, ParamsWith DEF Put, Params
    <2> QED
      BY <1>1, <1>10, <2>1, <2>2 DEF Put
  <1>11. CASE PutCarParams
    <2>1. PICK passive \in BOOLEAN : card' = [card EXCEPT !.pc = "running", !.passive = passive]
      BY <1>11 DEF PutCarParams
    <2>2. card' \in Cards /\ card'.pc = "running" /\ card'.sigint = card.sigint
      BY <1>1, <2>1 DEF Cards, Pcs
    <2>3. params' \in Params /\ Requests(params') = Requests(params)
      BY <1>1, <1>11, ParamsWith DEF PutCarParams, Params
    <2> QED
      BY <1>1, <1>11, <2>2, <2>3 DEF PutCarParams
  <1>12. CASE CardInitialized
    <2>1. card' \in Cards /\ card'.pc = "running" /\ card'.sigint = card.sigint
      BY <1>1, <1>12 DEF CardInitialized, Cards
    <2>2. params' = params \/ params' = [params EXCEPT !.ControlsReady = TRUE]
      BY <1>12 DEF CardInitialized
    <2>3. params' \in Params /\ Requests(params') = Requests(params)
      BY <1>1, <2>2, ParamsWith DEF Params
    <2> QED
      BY <1>1, <1>12, <2>1, <2>3 DEF CardInitialized
  <1>13. CardUnchanged
    BY DEF CardStep, CardStart, RequestObd, AwaitObd, Query, Put, PutCarParams, CardInitialized
  <1> QED
    BY <1>2, <1>3, <1>4, <1>5, <1>6, <1>7, <1>8, <1>9, <1>10, <1>11, <1>12, <1>13 DEF CardStep

\* What pandad makes of a request, and of the params.
LEMMA Configured ==
  ASSUME TypeOK, Configure
  PROVE  /\ params' \in Params /\ mode' \in Modes
         /\ params'.ObdMultiplexingEnabled = params.ObdMultiplexingEnabled
         /\ params.ObdMultiplexingChanged => params'.ObdMultiplexingChanged
         /\ Switched => params'.ObdMultiplexingChanged
  <1>1. params \in Params /\ mode \in Modes /\ params.CarParams \in Nat
    BY DEF TypeOK, Params
  <1>2. params' = params \/ (Switched /\ params' = [params EXCEPT !.ObdMultiplexingChanged = TRUE])
    BY DEF Configure, Acknowledged, Switched
  <1>3. mode' \in {Car(params.CarParams), Obd, Elm327, mode}
    BY DEF Configure, DiagnosticMode
  <1>4. Car(params.CarParams) \in Modes
    BY <1>1 DEF Car, Modes
  <1>5. mode' \in Modes
    BY <1>1, <1>3, <1>4, Constants
  <1>6. params' \in Params
    BY <1>1, <1>2, ParamsWith
  <1>7. Switched => params'.ObdMultiplexingChanged
    <2>1. Switched => params' = [params EXCEPT !.ObdMultiplexingChanged = TRUE]
      BY DEF Configure, Acknowledged
    <2> QED
      BY <1>1, <2>1 DEF Params
  <1>8. /\ params'.ObdMultiplexingEnabled = params.ObdMultiplexingEnabled
        /\ params.ObdMultiplexingChanged => params'.ObdMultiplexingChanged
    BY <1>1, <1>2 DEF Params
  <1> QED
    BY <1>5, <1>6, <1>7, <1>8

\* A SIGINT moves card out of a blocking read, or leaves it where it is.
LEMMA SignalType ==
  ASSUME card \in Cards
  PROVE  /\ Interrupted \in Cards
         /\ card.pc \in {"none", "running"} => Interrupted.pc = card.pc
  <1>1. card.pc = "none" => Interrupted = card
    BY DEF Interrupted
  <1>2. card.pc = "waitOn" => Interrupted = [card EXCEPT !.pc = "query"]
    BY DEF Interrupted
  <1>3. card.pc = "waitOff" => Interrupted = [card EXCEPT !.pc = "fwDone"]
    BY DEF Interrupted
  <1>4. card.pc \notin {"none", "waitOn", "waitOff"} => Interrupted = [card EXCEPT !.sigint = TRUE]
    BY DEF Interrupted
  <1>5. [card EXCEPT !.sigint = TRUE] \in Cards /\ [card EXCEPT !.sigint = TRUE].pc = card.pc
    BY DEF Cards
  <1>6. [card EXCEPT !.pc = "query"] \in Cards /\ [card EXCEPT !.pc = "fwDone"] \in Cards
    BY DEF Cards, Pcs
  <1> QED
    BY <1>1, <1>2, <1>3, <1>4, <1>5, <1>6

\* manager starts a card when there is none, or one that is shutting down.
LEMMA StartType ==
  ASSUME TypeOK, ManagerStart
  PROVE  /\ card' \in Cards
         /\ \/ card' = card /\ card.pc # "none" /\ ~shuttingDown
            \/ card'.pc = "start" /\ ~card'.sigint /\ (card.pc = "none" \/ shuttingDown)
  BY MaxDrivesAssumption DEF ManagerStart, CardOf, TypeOK, Cards, Pcs

-----------------------------------------------------------------------------
(* The parts of the invariant *)

\* Every step preserves the types.
LEMMA TypeStep ==
  ASSUME TypeOK, [Next]_vars
  PROVE  TypeOK'
  <1> USE MaxDrivesAssumption DEF TypeOK, NoDrive, pandadVars, managerVars
  <1>1. NoCard \in Cards /\ NoParams \in Params /\ {NoOutput, Elm327, Obd} \subseteq Modes
    BY Constants
  <1>2. CASE Ignition
    BY <1>2 DEF Ignition
  <1>3. CASE Hardwared
    BY <1>3 DEF Hardwared
  <1>4. CASE PandadState
    BY <1>1, <1>4 DEF PandadState
  <1>5. CASE PandadConfigure
    <2>1. mode' \in Modes /\ params' \in Params
      BY <1>5, Configured DEF PandadConfigure
    <2>2. /\ initialized_' \in BOOLEAN /\ safetyConfigured_' \in BOOLEAN /\ prevObd_' \in BOOLEAN
      BY <1>5 DEF PandadConfigure, Configure, ForgetConfiguration, Fetched, Params
    <2> QED
      BY <1>5, <2>1, <2>2 DEF PandadConfigure
  <1>6. CASE Manager
    <2>1. CASE ManagerEdge
      BY <1>1, <2>1 DEF ManagerEdge, ClearedParams
    <2>2. CASE ManagerStart
      BY <2>2, StartType DEF ManagerStart
    <2>3. CASE ManagerSignal
      BY <2>3, SignalType DEF ManagerSignal
    <2>4. CASE ManagerKill
      BY <1>1, <2>4 DEF ManagerKill
    <2> QED
      BY <1>6, <2>1, <2>2, <2>3, <2>4 DEF Manager
  <1>7. CASE CardStep \/ CardInitialized
    <2>1. card' \in Cards /\ params' \in Params /\ CardUnchanged
      BY <1>7, CardMoves
    <2> QED
      BY <2>1 DEF CardUnchanged
  <1>8. CASE CardExit
    BY <1>1, <1>8 DEF CardExit, CardUnchanged
  <1>9. CASE UNCHANGED vars
    BY <1>9 DEF vars
  <1> QED
    BY <1>2, <1>3, <1>4, <1>5, <1>6, <1>7, <1>8, <1>9 DEF Next, Pandad

\* Only a configuration of the panda opens the relay, and only onroad.
LEMMA RelayStep ==
  ASSUME TypeOK, Relay, [Next]_vars
  PROVE  Relay'
  <1> USE DEF TypeOK, Relay, pandadVars, managerVars
  <1>2. CASE Ignition
    BY <1>2 DEF Ignition
  <1>3. CASE Hardwared
    BY <1>3 DEF Hardwared
  <1>4. CASE PandadState
    BY <1>4 DEF PandadState, ShouldCloseRelay, NoOutput
  <1>5. CASE PandadConfigure
    BY <1>5 DEF PandadConfigure, Configure, ForgetConfiguration, Fetched,
                      DiagnosticMode, Car, Obd, Elm327, NoOutput
  <1>6. CASE Manager
    BY <1>6 DEF Manager, ManagerEdge, ManagerStart, ManagerSignal, ManagerKill
  <1>7. CASE CardStep \/ CardInitialized
    BY <1>7, CardMoves DEF CardUnchanged
  <1>8. CASE CardExit
    BY <1>8 DEF CardExit, CardUnchanged
  <1>9. CASE UNCHANGED vars
    BY <1>9 DEF vars
  <1> QED
    BY <1>2, <1>3, <1>4, <1>5, <1>6, <1>7, <1>8, <1>9 DEF Next, Pandad

\* The car was on with the system settled, and nothing runs ahead of the ignition.
LEMMA FallingStep ==
  ASSUME IInv, [Next]_vars, patient', ~ignition'
  PROVE  Falling'
  <1> USE DEF IInv, TypeOK, Falling, pandadVars, managerVars
  <1>2. CASE Ignition
    BY <1>2 DEF Ignition, Settled, Asked, Relay
  <1>3. CASE Hardwared
    BY <1>3 DEF Hardwared
  <1>4. CASE PandadState
    BY <1>4 DEF PandadState
  <1>5. CASE PandadConfigure
    <2>1. params'.ObdMultiplexingEnabled = params.ObdMultiplexingEnabled
      BY <1>5, Configured DEF PandadConfigure
    <2> QED
      BY <1>5, <2>1 DEF PandadConfigure
  <1>6. CASE Manager
    <2>0. ~ignition /\ patient /\ Falling
      BY <1>6 DEF Manager, ManagerEdge, ManagerStart, ManagerSignal, ManagerKill
    <2>1. CASE ManagerEdge
      BY <2>0, <2>1 DEF ManagerEdge, ClearedParams
    <2>2. CASE ManagerStart
      BY <2>0, <2>2 DEF ManagerStart
    <2>3. CASE ManagerSignal
      BY <2>0, <2>3, SignalType DEF ManagerSignal
    <2>4. CASE ManagerKill
      BY <2>0, <2>4 DEF ManagerKill, NoCard, CardOf
    <2> QED
      BY <1>6, <2>1, <2>2, <2>3, <2>4 DEF Manager
  <1>7. CASE CardStep \/ CardInitialized
    <2>1. ~ignition /\ patient /\ Falling
      BY <1>7, CardMoves DEF CardUnchanged
    <2> QED
      BY <1>7, <2>1, CardMoves DEF CardUnchanged, Requests
  <1>8. CASE CardExit
    BY <1>8 DEF CardExit, CardUnchanged, NoCard, CardOf
  <1>9. CASE UNCHANGED vars
    BY <1>9 DEF vars
  <1> QED
    BY <1>2, <1>3, <1>4, <1>5, <1>6, <1>7, <1>8, <1>9 DEF Next, Pandad

\* The car was off with the system settled, and nothing runs ahead of the ignition.
LEMMA RisingStep ==
  ASSUME IInv, [Next]_vars, patient', ignition'
  PROVE  Rising'
  <1> USE DEF IInv, TypeOK, Rising, pandadVars, managerVars
  <1>2. CASE Ignition
    BY <1>2 DEF Ignition, Settled, NoDrive
  <1>3. CASE Hardwared
    BY <1>3 DEF Hardwared
  <1>4. CASE PandadState
    BY <1>4 DEF PandadState
  <1>5. CASE PandadConfigure
    BY <1>5 DEF PandadConfigure, Configure, ForgetConfiguration
  <1>6. CASE Manager
    <2>0. ignition /\ patient /\ Rising
      BY <1>6 DEF Manager, ManagerEdge, ManagerStart, ManagerSignal, ManagerKill
    <2>1. CASE ManagerEdge
      BY <2>0, <2>1 DEF ManagerEdge
    <2>2. CASE ManagerStart
      BY <2>0, <2>2, StartType DEF ManagerStart
    <2>3. CASE ManagerSignal
      BY <2>0, <2>3 DEF ManagerSignal
    <2>4. CASE ManagerKill
      BY <2>0, <2>4 DEF ManagerKill, NoCard, CardOf
    <2> QED
      BY <1>6, <2>1, <2>2, <2>3, <2>4 DEF Manager
  <1>7. CASE CardStep \/ CardInitialized
    <2>1. card'.sigint = card.sigint /\ card.pc # "none" /\ CardUnchanged
      BY <1>7, CardMoves
    <2> QED
      BY <2>1 DEF CardUnchanged
  <1>8. CASE CardExit
    BY <1>8 DEF CardExit, CardUnchanged, NoCard, CardOf
  <1>9. CASE UNCHANGED vars
    BY <1>9 DEF vars
  <1> QED
    BY <1>2, <1>3, <1>4, <1>5, <1>6, <1>7, <1>8, <1>9 DEF Next, Pandad

\* pandad finds card's request whenever it comes, and changes nothing of what card relies on until
\* the request is taken back; manager clears the params only before card is there.
LEMMA AskedStep ==
  ASSUME IInv, [Next]_vars, patient', ignition'
  PROVE  Asked'
  <1> USE DEF IInv, TypeOK, Asked, Multiplexed, Unseen, pandadVars, managerVars
  <1>2. CASE Ignition
    BY <1>2 DEF Ignition, Settled, Falling, Relay
  <1>3. CASE Hardwared
    BY <1>3 DEF Hardwared
  <1>4. CASE PandadState
    BY <1>4 DEF PandadState, ShouldCloseRelay, Rising, Relay, Obd, NoOutput
  <1>5. CASE PandadConfigure
    <2>0. ignition /\ patient /\ Rising /\ Asked /\ card' = card
      BY <1>5 DEF PandadConfigure
    <2>1. CASE isOnroad /\ ~safetyConfigured_ /\ Configure
      <3> DEFINE enabled == params.ObdMultiplexingEnabled
      <3>1. enabled \in BOOLEAN /\ params.ObdMultiplexingChanged \in BOOLEAN
        BY DEF Params
      <3>2. initialized_' /\ prevObd_' = enabled /\ params'.ObdMultiplexingEnabled = enabled
        BY <2>1, Configured DEF Configure
      <3>3. safetyConfigured_' \in BOOLEAN
        BY <2>1 DEF Configure, Fetched, Params
      <3>4. ASSUME ~safetyConfigured_', enabled, Switched
            PROVE  mode' = Obd
        BY <2>1, <3>4 DEF Configure, DiagnosticMode
      <3>5. ASSUME ~safetyConfigured_', initialized_, ~Switched
            PROVE  mode' = mode
        BY <2>1, <3>5 DEF Configure, DiagnosticMode
      <3>6. ASSUME enabled PROVE Switched <=> ~(initialized_ /\ prevObd_)
        BY <3>1, <3>6 DEF Switched
      <3>7. ASSUME Multiplexed, enabled PROVE Multiplexed'
        BY <2>1, <3>2, <3>3, <3>5, <3>6, <3>7
      <3>8. ASSUME Unseen, enabled PROVE Multiplexed'
        BY <2>1, <3>2, <3>3, <3>4, <3>6, <3>8
      <3>9. params'.ObdMultiplexingChanged \in BOOLEAN
        BY <2>1, Configured DEF Params
      <3>10. ASSUME card.pc = "waitOn"
             PROVE  enabled /\ params'.ObdMultiplexingChanged /\ Multiplexed'
        <4>1. enabled
          BY <2>0, <3>10 DEF Asked
        <4>2. CASE params.ObdMultiplexingChanged
          BY <2>0, <2>1, <3>7, <3>10, <4>1, <4>2, Configured DEF Asked
        <4>3. CASE ~params.ObdMultiplexingChanged
          <5>1. Unseen /\ Switched
            BY <2>0, <2>1, <3>6, <3>10, <4>1, <4>3
          <5> QED
            BY <2>1, <3>8, <4>1, <5>1, Configured
        <4> QED
          BY <4>2, <4>3
      <3>11. ASSUME card.pc = "putOn"
             PROVE  ~enabled /\ ~params'.ObdMultiplexingChanged
        <4>1. ~enabled /\ ~params.ObdMultiplexingChanged /\ ~(initialized_ /\ prevObd_)
          BY <2>0, <2>1, <3>11
        <4>2. ~Switched
          BY <3>1, <4>1 DEF Switched
        <4> QED
          BY <2>1, <4>1, <4>2 DEF Configure, Acknowledged
      <3>12. ~enabled => Unseen'
        BY <3>2
      <3> HIDE DEF Multiplexed, Unseen
      <3> QED
        BY <2>0, <3>2, <3>7, <3>8, <3>9, <3>10, <3>11, <3>12
    <2>2. CASE isOnroad /\ safetyConfigured_
      BY <1>5, <2>0, <2>2 DEF PandadConfigure, Configure
    <2>3. CASE ~isOnroad
      BY <1>5, <2>0, <2>3 DEF PandadConfigure, ForgetConfiguration, Rising, Relay, Obd, NoOutput
    <2> QED
      BY <1>5, <2>1, <2>2, <2>3 DEF PandadConfigure
  <1>6. CASE Manager
    <2>0. ignition /\ patient /\ Rising /\ Asked
      BY <1>6 DEF Manager, ManagerEdge, ManagerStart, ManagerSignal, ManagerKill
    <2>1. CASE ManagerEdge
      <3>1. card.pc = "none" /\ card' = card
        BY <2>0, <2>1 DEF ManagerEdge, Rising
      <3>2. ~params'.ObdMultiplexingEnabled
        BY <2>0, <2>1, <3>1 DEF ManagerEdge, ClearedParams, NoParams
      <3> QED
        BY <2>0, <2>1, <3>1, <3>2 DEF ManagerEdge
    <2>2. CASE ManagerStart
      <3>1. card.pc = "none" /\ card'.pc = "start"
        BY <2>0, <2>2, StartType DEF ManagerStart, Rising
      <3> QED
        BY <2>0, <2>2, <3>1 DEF ManagerStart
    <2>3. CASE ManagerSignal
      BY <2>0, <2>3 DEF ManagerSignal, Rising
    <2>4. CASE ManagerKill
      BY <2>0, <2>4 DEF ManagerKill, NoCard, CardOf, Rising
    <2> QED
      BY <1>6, <2>1, <2>2, <2>3, <2>4 DEF Manager
  <1>7. CASE CardStep \/ CardInitialized
    <2>0. CardUnchanged /\ Asked
      BY <1>7, CardMoves DEF CardUnchanged
    <2> QED
      BY <1>7, <2>0, CardMoves DEF CardUnchanged, Requests
  <1>8. CASE CardExit
    BY <1>8 DEF CardExit, CardUnchanged, Rising, NoCard, CardOf
  <1>9. CASE UNCHANGED vars
    BY <1>9 DEF vars
  <1> QED
    BY <1>2, <1>3, <1>4, <1>5, <1>6, <1>7, <1>8, <1>9 DEF Next, Pandad

\* The invariant is inductive.
LEMMA Invariance == Spec => []IInv
  <1>1. Init => IInv
    <2>1. Init => TypeOK
      <3> SUFFICES ASSUME Init PROVE TypeOK
        OBVIOUS
      <3>1. drive \in 0..MaxDrives
        BY MaxDrivesAssumption DEF Init, NoDrive
      <3>2. mode \in Modes /\ card \in Cards /\ params \in Params
        BY Constants DEF Init
      <3> QED
        BY <3>1, <3>2 DEF Init, TypeOK
    <2>2. Init => Relay /\ Falling /\ ~ignition
      BY DEF Init, Relay, Falling, NoCard, CardOf, NoParams, NoOutput
    <2> QED
      BY <2>1, <2>2 DEF IInv
  <1>2. IInv /\ [Next]_vars => IInv'
    <2> SUFFICES ASSUME IInv, [Next]_vars PROVE IInv'
      OBVIOUS
    <2>1. TypeOK'
      BY TypeStep DEF IInv
    <2>2. Relay'
      BY RelayStep DEF IInv
    <2>3. patient' /\ ~ignition' => Falling'
      BY FallingStep
    <2>4. patient' /\ ignition' => Rising' /\ Asked'
      BY RisingStep, AskedStep
    <2> QED
      BY <2>1, <2>2, <2>3, <2>4 DEF IInv
  <1> QED
    BY <1>1, <1>2, PTL DEF Spec

\* Every variable has its type.
THEOREM TypeCorrect == Spec => []TypeOK
  <1>1. IInv => TypeOK
    BY DEF IInv
  <1> QED
    BY <1>1, Invariance, PTL

\* For a driver who lets each drive settle before turning the key, so that card is never
\* interrupted: firmware is queried through the OBD port only while the panda multiplexes it, or
\* has been configured already (obd_callback and PandaSafety.updateMultiplexingMode).
THEOREM Multiplexing == Spec => []QueriesAreMultiplexed
  <1>1. IInv => QueriesAreMultiplexed
    BY DEF IInv, Asked, Multiplexed, QueriesAreMultiplexed
  <1> QED
    BY <1>1, Invariance, PTL
=============================================================================
