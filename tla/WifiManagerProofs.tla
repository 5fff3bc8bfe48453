--------------------------- MODULE WifiManagerProofs ---------------------------
(***************************************************************************)
(* The Wi-Fi manager for any networks, threads, choices and failures.      *)
(*                                                                         *)
(* What is pending matters, not where: Sigs are the state changes on the   *)
(* bus and in state_q, Lasts the last of them, Removals and Additions the  *)
(* connections that the bus announces.  StepDoes says what each step of    *)
(* each thread does to these.  The invariants then come in layers:         *)
(*   - Structure, SavedSoon: until the active connection is saved the      *)
(*     handler of ACTIVATED is at work (ConnectionIsSaved);                *)
(*   - SaysNm, Numbers: what the pending signals tell of NM, and that a    *)
(*     connection reported as removed is gone for good;                    *)
(*   - Snapshots: who is about to write asked NM after the user's last     *)
(*     action;                                                             *)
(*   - Shown, RemovalFirst, as long as there was no race: the picture      *)
(*     shows the network that NM works on or none, or a thread that will   *)
(*     bring it up to date is on its way (NoFalseWrongPasswordHolds);      *)
(*   - Agreement, as long as there was no race: the map of connections is  *)
(*     up to date when the handler looks up the network, and until the     *)
(*     picture shows the connection somebody is about to write it          *)
(*     (PictureAgrees);                                                    *)
(*   - Unknown, ConnectedFits, as long as there was no race: while the     *)
(*     deactivation of a forgotten network is pending, NM has no connection*)
(*     of that network that the manager knows, and a picture that is       *)
(*     connected shows no other network (AttemptKept).                     *)
(***************************************************************************)
EXTENDS WifiManager, TLAPS

-----------------------------------------------------------------------------
(* Types *)

Signals == StateSignals \cup PathSignals

NmStates == [phase : {"prepare", "config", "activated"}, path : Paths]
              \cup [phase : {"disconnected"}, path : {NoPath}]

\* A state change that NM sends has its type, and says what it is made of.
LEMMA SignalType ==
  ASSUME NEW state \in {"PREPARE", "NEED_AUTH", "FAILED", "ACTIVATED", "DEACTIVATING", "DISCONNECTED"},
         NEW reason \in {"NONE", "NEW_ACTIVATION", "CONNECTION_REMOVED", "interrupted",
                         "SUPPLICANT_DISCONNECT", "NO_SECRETS"},
         NEW ssid \in Ssids, NEW late \in BOOLEAN
  PROVE  LET x == StateSignal(state, reason, ssid, late) IN
         /\ x \in StateSignals /\ x \in Signals
         /\ x.kind = "state" /\ x.state = state /\ x.reason = reason /\ x.of = ssid /\ x.late = late
BY DEF StateSignal, StateSignals, Signals

\* Whether a choice is under way is a Boolean.
LEMMA ChoosingType == \A threads : Choosing(threads) \in BOOLEAN
BY DEF Choosing

\* The arrival and the removal of a connection have their types, and name its path.
LEMMA PathSignalType ==
  ASSUME NEW path \in Paths
  PROVE  /\ Removed(path) \in PathSignals /\ Removed(path).kind = "removed" /\ Removed(path).path = path
         /\ Added(path) \in PathSignals /\ Added(path).kind = "added" /\ Added(path).path = path
BY DEF Removed, Added, PathSignals

\* NoPath is no path of a connection, and its network is none.
LEMMA PathIsNotNoPath ==
  /\ NoPath \notin Paths /\ NoPath.ssid = NoSsid
  /\ \A p \in Paths : p.ssid \in Ssids /\ p.ssid # NoSsid
BY SsidAssumption DEF NoPath, Paths

\* Marking signals as late keeps their number and their order (the history of a choice).
LEMMA LateType ==
  ASSUME NEW S, S \in {StateSignals, Signals}, NEW q \in Seq(S)
  PROVE  /\ Late(q) \in Seq(S) /\ Len(Late(q)) = Len(q) /\ DOMAIN Late(q) = DOMAIN q
         /\ \A i \in DOMAIN q :
              Late(q)[i] = IF q[i].kind = "state" THEN [q[i] EXCEPT !.late = TRUE] ELSE q[i]
<1>a. \A x \in StateSignals : x.kind = "state" /\ [x EXCEPT !.late = TRUE] \in StateSignals
  BY DEF StateSignals
<1>b. \A x \in PathSignals : x.kind # "state"
  BY DEF PathSignals
<1>c. \A i \in DOMAIN q : q[i] \in S
  OBVIOUS
<1>1. \A i \in DOMAIN q : (IF q[i].kind = "state" THEN [q[i] EXCEPT !.late = TRUE] ELSE q[i]) \in S
  BY <1>a, <1>b, <1>c DEF Signals
<1>2. DOMAIN q = 1..Len(q) /\ Len(q) \in Nat
  OBVIOUS
<1>3. Late(q) = [i \in 1..Len(q) |-> IF q[i].kind = "state" THEN [q[i] EXCEPT !.late = TRUE] ELSE q[i]]
  BY <1>2 DEF Late
<1> QED
  BY <1>1, <1>2, <1>3

\* A thread whose snapshot is put out of date goes on with what it does.
LEMMA OutdatedType ==
  ASSUME NEW epoch \in BOOLEAN
  PROVE  /\ \A t \in MonitorThread :
              /\ Outdated(t, epoch) \in MonitorThread
              /\ Outdated(t, epoch).pc = t.pc /\ Outdated(t, epoch).value = t.value
              /\ Outdated(t, epoch).path = t.path
              /\ Outdated(t, epoch).newest = (t.newest /\ epoch /\ t.pc # "assign")
              /\ Outdated(t, epoch).fresh = (t.fresh /\ ~epoch)
         /\ \A t \in WorkerThread :
              /\ Outdated(t, epoch) \in WorkerThread
              /\ Outdated(t, epoch).pc = t.pc /\ Outdated(t, epoch).value = t.value
              /\ Outdated(t, epoch).newest = (t.newest /\ epoch /\ t.pc # "assign")
              /\ Outdated(t, epoch).fresh = (t.fresh /\ ~epoch)
BY DEF Outdated, MonitorThread, WorkerThread

\* The same, for every worker.
LEMMA OutdateWorkersType ==
  ASSUME NEW epoch \in BOOLEAN, worker \in [Workers -> WorkerThread]
  PROVE  /\ OutdateWorkers(epoch) \in [Workers -> WorkerThread]
         /\ \A w \in Workers :
              /\ OutdateWorkers(epoch)[w].pc = worker[w].pc
              /\ OutdateWorkers(epoch)[w].value = worker[w].value
              /\ OutdateWorkers(epoch)[w].newest = (worker[w].newest /\ epoch /\ worker[w].pc # "assign")
              /\ OutdateWorkers(epoch)[w].fresh = (worker[w].fresh /\ ~epoch)
BY OutdatedType DEF OutdateWorkers

\* Threads at rest have their types.
LEMMA IdleTypes ==
  /\ Disconnected \in WifiState /\ IdleMonitor \in MonitorThread /\ IdleWorker \in WorkerThread
  /\ \A pc \in {"recv", "state", "lookup", "assign", "save"} :
       [IdleMonitor EXCEPT !.pc = pc] \in MonitorThread
BY DEF Disconnected, IdleMonitor, IdleWorker, MonitorThread, WorkerThread, WifiState, Statuses

\* Every variable has its type at the start.
LEMMA InitType == Init => TypeOK
<1> SUFFICES ASSUME Init PROVE TypeOK
  OBVIOUS
<1>1. \A s \in Ssids : [ssid |-> s, n |-> 0] \in Paths
  BY DEF Paths
<1>2. /\ nm \in NmStates
      /\ nmConnections \subseteq Paths /\ volatile \subseteq Paths /\ paths \in Nat
  BY <1>1, SsidAssumption DEF Init, NmStates
<1>3. /\ bus \in Seq(StateSignals \cup PathSignals) /\ state_q \in Seq(StateSignals)
      /\ removed_conn_q \subseteq Paths /\ new_conn_q \subseteq Paths
      /\ callback_queue \in Seq([ssid : Ssids, of : Ssids, late : BOOLEAN])
  BY DEF Init
<1>4. /\ connections \in [Ssids -> Paths \cup {NoPath}]
      /\ \A s \in Ssids : connections[s] \in Paths => connections[s].ssid = s
  BY <1>1, SsidAssumption, PathIsNotNoPath DEF Init
<1>5. /\ monitor \in MonitorThread /\ worker \in [Workers -> WorkerThread]
      /\ \A w \in Workers : worker[w].pc = "idle"
  BY IdleTypes DEF Init, IdleWorker
<1>6. wifi_state \in WifiState /\ {choices, others, failures} \subseteq Nat
  BY IdleTypes DEF Init
<1>7. raced \in BOOLEAN
  BY Zenon DEF Init
<1>8. unsaved \subseteq Paths \cup {NoPath}
  BY DEF Init
<1> QED
  BY <1>2, <1>3, <1>4, <1>5, <1>6, <1>7, <1>8 DEF TypeOK, NmStates

\* _connection_removed and _new_connection leave a map from networks to connections of their own: a
\* new one, none if the old one is removed, or the old one.
LEMMA UpdateConnectionsType ==
  ASSUME TypeOK, NEW removed \in SUBSET Paths, NEW added \in SUBSET Paths,
         UpdateConnections(removed, added)
  PROVE  /\ connections' \in [Ssids -> Paths \cup {NoPath}]
         /\ \A s \in Ssids : connections'[s] \in Paths => connections'[s].ssid = s
         /\ \A s \in Ssids :
              LET New == {p \in added \cap nmConnections : p.ssid = s} IN
              /\ New # {} => connections'[s] \in New
              /\ New = {} => connections'[s] = IF connections[s] \in removed THEN NoPath
                                               ELSE connections[s]
<1> DEFINE New(s) == {p \in added \cap nmConnections : p.ssid = s}
<1>1. \A s \in Ssids : IF New(s) # {} THEN connections'[s] \in New(s)
                       ELSE connections'[s] = IF connections[s] \in removed THEN NoPath ELSE connections[s]
  BY DEF UpdateConnections
<1>2. /\ connections' \in [Ssids -> added \cup {NoPath} \cup {connections[s] : s \in Ssids}]
      /\ connections \in [Ssids -> Paths \cup {NoPath}]
  BY DEF UpdateConnections, TypeOK
<1>3. connections' \in [Ssids -> Paths \cup {NoPath}]
  BY <1>2
<1>4. ASSUME NEW s \in Ssids, connections'[s] \in Paths PROVE connections'[s].ssid = s
  BY <1>1, <1>4, PathIsNotNoPath DEF TypeOK
<1> QED
  BY <1>1, <1>3, <1>4

\* What is common to the steps of NetworkManager by itself.
LEMMA NmMovesType ==
  ASSUME TypeOK, NEW phase, NEW path, [phase |-> phase, path |-> path] \in NmStates, NEW signals \in Seq(Signals), NmMoves(phase, path, signals),
         nmConnections' \subseteq Paths, volatile' \subseteq Paths, failures' \in Nat
  PROVE  TypeOK'
<1>1. /\ nm' \in NmStates
      /\ bus' \in Seq(StateSignals \cup PathSignals)
  BY DEF NmMoves, TypeOK, Signals
<1>2. UNCHANGED <<paths, wifi_state, connections, queues, monitor, worker, callback_queue, userVars,
                  history>>
  BY DEF NmMoves
<1> QED
  BY <1>1, <1>2 DEF TypeOK, NmStates, queues, userVars, history

\* The device works on a connection, or is disconnected and on none.
LEMMA NmFacts ==
  ASSUME TypeOK
  PROVE  /\ nm.path \in Paths \cup {NoPath} /\ Working \in BOOLEAN
         /\ nm.phase \in {"disconnected", "prepare", "config", "activated"}
         /\ Working => nm.path \in Paths /\ nm.path.ssid \in Ssids
         /\ ~Working => nm.path = NoPath /\ nm.phase = "disconnected"
BY PathIsNotNoPath DEF TypeOK, Working

\* Every step of NM by itself keeps the types.
LEMMA NmType ==
  ASSUME TypeOK, Nm
  PROVE  TypeOK'
<1>1. CASE NmConfig
  <2>1. nm.path \in Paths
    BY <1>1, NmFacts DEF NmConfig, Working
  <2>2. <<Signal("PREPARE", "NONE", nm.path.ssid)>> \in Seq(Signals)
    <3>1. nm.path.ssid \in Ssids
      BY <2>1, PathIsNotNoPath
    <3>2. Signal("PREPARE", "NONE", nm.path.ssid) \in Signals
      BY <3>1, SignalType, ChoosingType DEF Signal
    <3> QED
      BY <3>2
  <2> QED
    BY <1>1, <2>1, <2>2, NmMovesType DEF NmConfig, TypeOK, NmStates
<1>2. CASE NmActivated
  <2>1. nm.path \in Paths
    BY <1>2, NmFacts DEF NmActivated, Working
  <2>2. <<Signal("ACTIVATED", "NONE", nm.path.ssid)>> \in Seq(Signals)
    <3>1. nm.path.ssid \in Ssids
      BY <2>1, PathIsNotNoPath
    <3>2. Signal("ACTIVATED", "NONE", nm.path.ssid) \in Signals
      BY <3>1, SignalType, ChoosingType DEF Signal
    <3> QED
      BY <3>2
  <2> QED
    BY <1>2, <2>1, <2>2, NmMovesType DEF NmActivated, TypeOK, NmStates
<1>3. CASE NmAutoconnect
  <2>1. PICK path \in nmConnections : NmMoves("prepare", path, <<Signal("PREPARE", "NONE", path.ssid)>>)
    BY <1>3 DEF NmAutoconnect
  <2>2. path \in Paths
    BY DEF TypeOK
  <2>3. <<Signal("PREPARE", "NONE", path.ssid)>> \in Seq(Signals)
    <3>1. path.ssid \in Ssids
      BY <2>2, PathIsNotNoPath
    <3>2. Signal("PREPARE", "NONE", path.ssid) \in Signals
      BY <3>1, SignalType, ChoosingType DEF Signal
    <3> QED
      BY <3>2
  <2> QED
    BY <1>3, <2>1, <2>2, <2>3, NmMovesType DEF NmAutoconnect, TypeOK, NmStates
<1>4. ASSUME NEW reasons \in Seq(Signals), NmFails(reasons), nm.path \in Paths
      PROVE  TypeOK'
  <2>1. /\ <<Signal("DISCONNECTED", "NONE", nm.path.ssid)>> \in Seq(Signals)
        /\ DroppedSignal \in Seq(Signals)
    <3>1. nm.path.ssid \in Ssids
      BY <1>4, PathIsNotNoPath
    <3>2. Signal("DISCONNECTED", "NONE", nm.path.ssid) \in Signals
      BY <3>1, SignalType, ChoosingType DEF Signal
    <3>3. Removed(nm.path) \in Signals
      BY <1>4, PathSignalType DEF Signals
    <3> QED
      BY <3>2, <3>3 DEF DroppedSignal
  <2>2. reasons \o <<Signal("DISCONNECTED", "NONE", nm.path.ssid)>> \o DroppedSignal \in Seq(Signals)
    BY <2>1
  <2>3. /\ nmConnections' \subseteq Paths /\ volatile' \subseteq Paths /\ failures' \in Nat
    BY <1>4 DEF NmFails, TypeOK
  <2>4. NmMoves("disconnected", NoPath,
                reasons \o <<Signal("DISCONNECTED", "NONE", nm.path.ssid)>> \o DroppedSignal)
    BY <1>4 DEF NmFails
  <2> QED
    BY <2>2, <2>3, <2>4, NmMovesType DEF NmStates
<1>5. CASE NmWrongPassword
  <2>1. nm.path \in Paths
    BY <1>5, NmFacts DEF NmWrongPassword, Working
  <2>2. /\ <<Signal("NEED_AUTH", "SUPPLICANT_DISCONNECT", nm.path.ssid),
             Signal("FAILED", "NO_SECRETS", nm.path.ssid)>> \in Seq(Signals)
        /\ <<Signal("FAILED", "NO_SECRETS", nm.path.ssid)>> \in Seq(Signals)
    <3>1. nm.path.ssid \in Ssids
      BY <2>1, PathIsNotNoPath
    <3>2. /\ Signal("NEED_AUTH", "SUPPLICANT_DISCONNECT", nm.path.ssid) \in Signals
          /\ Signal("FAILED", "NO_SECRETS", nm.path.ssid) \in Signals
      BY <3>1, SignalType, ChoosingType DEF Signal
    <3> QED
      BY <3>2
  <2> QED
    BY <1>4, <1>5, <2>1, <2>2 DEF NmWrongPassword
<1>6. CASE NmLost
  <2>1. nm.path \in Paths /\ NmFails(<<>>) /\ <<>> \in Seq(Signals)
    BY <1>6, NmFacts DEF NmLost, Working
  <2> QED
    BY <1>4, <2>1
<1> QED
  BY <1>1, <1>2, <1>3, <1>5, <1>6 DEF Nm

\* The kind of a signal says whether it is a state change or is about a connection.
LEMMA SignalKinds ==
  /\ \A x \in StateSignals : x \in Signals /\ x.kind = "state" /\ x.of \in Ssids /\ x.late \in BOOLEAN
  /\ \A x \in Signals : /\ x.kind = "state" => x \in StateSignals
                        /\ x.kind # "state" => x \in PathSignals
  /\ \A x \in PathSignals : x \in Signals /\ x.kind \in {"removed", "added"} /\ x.path \in Paths
BY DEF StateSignals, PathSignals, Signals

\* What is taken from the front of the bus or of state_q is a signal.
LEMMA HeadType ==
  ASSUME TypeOK
  PROVE  /\ bus # <<>> => Head(bus) \in Signals /\ Tail(bus) \in Seq(Signals)
         /\ state_q # <<>> => Head(state_q) \in StateSignals /\ Tail(state_q) \in Seq(StateSignals)
BY DEF TypeOK, Signals

\* The monitor thread that goes on to another statement has its type.
LEMMA GotoType ==
  ASSUME NEW pc \in {"recv", "state", "lookup", "assign", "save"}, Goto(pc)
  PROVE  /\ monitor' \in MonitorThread /\ monitor'.pc = pc /\ monitor'.fresh = TRUE
         /\ monitor'.newest = TRUE /\ monitor'.value = Disconnected /\ monitor'.path = NoPath
BY IdleTypes DEF Goto, IdleMonitor, MonitorThread

\* It goes on to the next state change, or back to recv_messages.
LEMMA NextSignalType ==
  ASSUME NextSignal
  PROVE  /\ monitor' \in MonitorThread /\ monitor'.pc = IF state_q' = <<>> THEN "recv" ELSE "state"
BY GotoType DEF NextSignal

\* recv_messages, with the connections brought up to date, keeps the types.
LEMMA ReceiveType ==
  ASSUME TypeOK, Receive
  PROVE  TypeOK'
<1> DEFINE Taken(kind) == {m.path : m \in {x \in {Head(bus)} : x.kind = kind}}
<1>1. PICK removed \in SUBSET Paths, added \in SUBSET Paths : UpdateConnections(removed, added)
  <2>1. CASE bus # <<>>
    <3>1. Taken("removed") \subseteq Paths /\ Taken("added") \subseteq Paths
      BY <2>1, HeadType, SignalKinds
    <3>2. UpdateConnections(removed_conn_q \cup Taken("removed"), new_conn_q \cup Taken("added"))
      BY <2>1 DEF Receive
    <3> QED
      BY <3>1, <3>2 DEF TypeOK
  <2>2. CASE bus = <<>>
    BY <2>2 DEF Receive, TypeOK
  <2> QED
    BY <2>1, <2>2
<1>2. /\ connections' \in [Ssids -> Paths \cup {NoPath}]
      /\ \A s \in Ssids : connections'[s] \in Paths => connections'[s].ssid = s
  BY <1>1, UpdateConnectionsType
<1>3. /\ bus' \in Seq(StateSignals \cup PathSignals) /\ state_q' \in Seq(StateSignals)
      /\ monitor' \in MonitorThread
  <2>1. CASE bus # <<>> /\ Head(bus).kind = "state"
    <3>1. bus' = Tail(bus) /\ state_q' = <<Head(bus)>> /\ Goto("state")
      BY <2>1 DEF Receive
    <3> QED
      BY <2>1, <3>1, HeadType, SignalKinds, GotoType DEF Signals
  <2>2. CASE ~(bus # <<>> /\ Head(bus).kind = "state")
    <3>1. (bus' = bus \/ (bus # <<>> /\ bus' = Tail(bus))) /\ UNCHANGED <<state_q, monitor>>
      BY <2>2 DEF Receive
    <3> QED
      BY <3>1, HeadType DEF Signals, TypeOK
  <2> QED
    BY <2>1, <2>2
<1>4. removed_conn_q' = {} /\ new_conn_q' = {}
      /\ UNCHANGED <<nm, nmConnections, volatile, paths, failures, wifi_state, worker, callback_queue,
                     userVars, history>>
  BY DEF Receive
<1> QED
  BY <1>2, <1>3, <1>4 DEF TypeOK, userVars, history

\* A signal that goes to its queue keeps the types.
LEMMA DeliverType ==
  ASSUME TypeOK, Deliver
  PROVE  TypeOK'
<1>1. bus # <<>> /\ Head(bus) \in Signals /\ bus' \in Seq(Signals)
  BY HeadType DEF Deliver
<1>2. removed_conn_q' \subseteq Paths /\ new_conn_q' \subseteq Paths
  BY <1>1, SignalKinds DEF Deliver, TypeOK
<1>3. state_q' \in Seq(StateSignals)
  BY <1>1, SignalKinds DEF Deliver, TypeOK
<1>4. UNCHANGED <<nm, nmConnections, volatile, paths, failures, wifi_state, connections, monitor, worker,
                  callback_queue, userVars, history>>
  BY DEF Deliver
<1> QED
  BY <1>1, <1>2, <1>3, <1>4 DEF TypeOK, Signals, userVars, history

\* The branches of _handle_state_change that make no call keep the types.
LEMMA HandleAtOnceType ==
  ASSUME TypeOK, HandleAtOnce
  PROVE  TypeOK'
<1>1. state_q # <<>> /\ state_q' \in Seq(StateSignals) /\ Head(state_q) \in StateSignals
  BY HeadType DEF HandleAtOnce
<1>2. /\ wifi_state' \in WifiState /\ worker' \in [Workers -> WorkerThread]
      /\ \A w \in Workers : worker'[w].pc = worker[w].pc /\ worker'[w].value = worker[w].value
      /\ NextSignal
  <2>1. CASE ClearState
    BY <2>1, IdleTypes, OutdateWorkersType DEF ClearState, TypeOK
  <2>2. CASE NextSignal /\ UNCHANGED <<wifi_state, worker>>
    BY <2>2 DEF TypeOK
  <2> QED
    BY <2>1, <2>2 DEF HandleAtOnce
<1>3. monitor' \in MonitorThread
  BY <1>2, NextSignalType
<1>4. callback_queue' \in Seq([ssid : Ssids, of : Ssids, late : BOOLEAN])
  <2>1. wifi_state.ssid # NoSsid => wifi_state.ssid \in Ssids
    BY DEF TypeOK, WifiState
  <2>2. wifi_state.ssid # NoSsid =>
          [ssid |-> wifi_state.ssid, of |-> Head(state_q).of, late |-> Head(state_q).late]
            \in [ssid : Ssids, of : Ssids, late : BOOLEAN]
    BY <1>1, <2>1, SignalKinds
  <2>3. \/ callback_queue' = callback_queue
        \/ /\ wifi_state.ssid # NoSsid
           /\ callback_queue' = Append(callback_queue,
                [ssid |-> wifi_state.ssid, of |-> Head(state_q).of, late |-> Head(state_q).late])
    BY DEF HandleAtOnce
  <2> DEFINE cb == [ssid |-> wifi_state.ssid, of |-> Head(state_q).of, late |-> Head(state_q).late]
             Callbacks == [ssid : Ssids, of : Ssids, late : BOOLEAN]
  <2> HIDE DEF cb, Callbacks
  <2>4. callback_queue \in Seq(Callbacks)
    BY DEF TypeOK, Callbacks
  <2>5. \/ callback_queue' = callback_queue
        \/ wifi_state.ssid # NoSsid /\ callback_queue' = Append(callback_queue, cb)
    BY <2>3 DEF cb
  <2>6. wifi_state.ssid # NoSsid => cb \in Callbacks
    BY <2>2 DEF cb, Callbacks
  <2>7. callback_queue' \in Seq(Callbacks)
    BY <2>4, <2>5, <2>6
  <2> QED
    BY <2>7 DEF Callbacks
<1>5. raced' \in BOOLEAN
  BY DEF HandleAtOnce
<1>6. UNCHANGED <<nmVars, connections, removed_conn_q, new_conn_q, userVars, unsaved>>
  BY DEF HandleAtOnce
<1> QED
  BY <1>1, <1>2, <1>3, <1>4, <1>5, <1>6 DEF TypeOK, nmVars, userVars

\* What the branches PREPARE and ACTIVATED do up to their first reply, without EXCEPT.
LEMMA HandleConnectingDoes ==
  ASSUME TypeOK, HandleConnecting
  PROVE  LET known  == Head(state_q).state = "PREPARE" /\ wifi_state.ssid # NoSsid IN
         /\ state_q # <<>> /\ state_q' = Tail(state_q) /\ monitor.pc = "state"
         /\ Head(state_q).state \in {"PREPARE", "ACTIVATED"}
         /\ monitor' \in MonitorThread
         /\ monitor'.pc = (IF known THEN "assign" ELSE "lookup")
         /\ monitor'.value.ssid = wifi_state.ssid
         /\ monitor'.value.status = (IF Head(state_q).state = "PREPARE" THEN "CONNECTING" ELSE "CONNECTED")
         /\ monitor'.path = NoPath /\ monitor'.fresh = TRUE /\ monitor'.newest = TRUE
         /\ UNCHANGED <<nmVars, wifi_state, connections, removed_conn_q, new_conn_q, worker,
                        callback_queue, userVars, history>>
<1> DEFINE known  == Head(state_q).state = "PREPARE" /\ wifi_state.ssid # NoSsid
           status == IF Head(state_q).state = "PREPARE" THEN "CONNECTING" ELSE "CONNECTED"
           pc     == IF known THEN "assign" ELSE "lookup"
           value  == [wifi_state EXCEPT !.status = status]
<1>1. /\ state_q # <<>> /\ state_q' = Tail(state_q) /\ monitor.pc = "state"
      /\ Head(state_q).state \in {"PREPARE", "ACTIVATED"}
      /\ UNCHANGED <<nmVars, wifi_state, connections, removed_conn_q, new_conn_q, worker,
                     callback_queue, userVars, history>>
  BY DEF HandleConnecting
<1>2. monitor' = [IdleMonitor EXCEPT !.pc = pc, !.value = value]
  BY DEF HandleConnecting
<1>3. value \in WifiState /\ value.ssid = wifi_state.ssid /\ value.status = status
  BY DEF TypeOK, WifiState, Statuses
<1>4. pc \in {"assign", "lookup"}
  OBVIOUS
<1>5. IdleMonitor \in MonitorThread /\ IdleMonitor.path = NoPath
      /\ IdleMonitor.fresh = TRUE /\ IdleMonitor.newest = TRUE
  BY IdleTypes DEF IdleMonitor
<1> HIDE DEF pc, value
<1>6. /\ monitor' \in MonitorThread /\ monitor'.pc = pc /\ monitor'.value = value
      /\ monitor'.path = NoPath /\ monitor'.fresh = TRUE /\ monitor'.newest = TRUE
  BY <1>2, <1>3, <1>4, <1>5 DEF MonitorThread
<1> QED
  BY <1>1, <1>3, <1>6 DEF pc

\* They keep the types.
LEMMA HandleConnectingType ==
  ASSUME TypeOK, HandleConnecting
  PROVE  TypeOK'
<1>1. state_q' \in Seq(StateSignals)
  BY HandleConnectingDoes, HeadType
<1> QED
  BY <1>1, HandleConnectingDoes DEF TypeOK, nmVars, userVars, history

\* What the reply to a lookup leads to.
LEMMA LookupDoes ==
  ASSUME TypeOK, Lookup
  PROVE  /\ monitor.pc = "lookup" /\ bus = <<>> /\ monitor' \in MonitorThread
         /\ ~monitor.fresh => monitor'.pc = IF state_q = <<>> THEN "recv" ELSE "state"
         /\ monitor.fresh => /\ monitor'.pc = "assign" /\ monitor'.path = nm.path
                             /\ monitor'.value.status = monitor.value.status
                             /\ monitor'.value.ssid = IF nm.path = NoPath THEN monitor.value.ssid
                                                      ELSE ToSsid(nm.path)
                             /\ monitor'.newest = monitor.newest /\ monitor'.fresh = TRUE
         /\ UNCHANGED <<nmVars, wifi_state, connections, queues, worker, callback_queue, userVars, raced>>
         /\ unsaved' = unsaved \cup (IF ~monitor.fresh /\ monitor.value.status = "CONNECTED" THEN {nm.path} ELSE {})
<1> DEFINE ssid == IF nm.path = NoPath THEN monitor.value.ssid ELSE ToSsid(nm.path)
<1>1. /\ monitor.pc = "lookup" /\ bus = <<>>
      /\ UNCHANGED <<nmVars, wifi_state, connections, queues, worker, callback_queue, userVars, raced>>
      /\ unsaved' = unsaved \cup (IF ~monitor.fresh /\ monitor.value.status = "CONNECTED" THEN {nm.path} ELSE {})
  BY DEF Lookup, Discarded
<1>2. ASSUME ~monitor.fresh
      PROVE  monitor' \in MonitorThread /\ monitor'.pc = IF state_q = <<>> THEN "recv" ELSE "state"
  <2>1. NextSignal /\ state_q' = state_q
    BY <1>1, <1>2 DEF Lookup, Discarded, queues
  <2> QED
    BY <2>1, NextSignalType
<1>3. ASSUME monitor.fresh
      PROVE  /\ monitor' \in MonitorThread
             /\ monitor'.pc = "assign" /\ monitor'.path = nm.path
             /\ monitor'.value.status = monitor.value.status /\ monitor'.value.ssid = ssid
             /\ monitor'.newest = monitor.newest /\ monitor'.fresh = TRUE
  <2>1. monitor' = [monitor EXCEPT !.pc = "assign", !.path = nm.path,
                                   !.value.ssid = IF nm.path = NoPath THEN @ ELSE ToSsid(nm.path)]
    BY <1>3 DEF Lookup, Discarded
  <2>2. monitor \in MonitorThread /\ monitor.value \in WifiState
    BY DEF TypeOK, MonitorThread
  <2>3. monitor' = [monitor EXCEPT !.pc = "assign", !.path = nm.path, !.value = [@ EXCEPT !.ssid = ssid]]
    BY <2>1, <2>2 DEF MonitorThread, WifiState
  <2>4. ssid \in Ssids \cup {NoSsid}
    BY <2>2, NmFacts, PathIsNotNoPath DEF ToSsid, WifiState
  <2> HIDE DEF ssid
  <2> DEFINE value == [monitor.value EXCEPT !.ssid = ssid]
  <2>5. value \in WifiState /\ value.status = monitor.value.status /\ value.ssid = ssid
    BY <2>2, <2>4 DEF WifiState
  <2>6. monitor' = [monitor EXCEPT !.pc = "assign", !.path = nm.path, !.value = value]
    BY <2>2, <2>3 DEF MonitorThread
  <2> HIDE DEF value
  <2> QED
    BY <1>3, <2>2, <2>5, <2>6, NmFacts DEF MonitorThread
<1>4. monitor.fresh \in BOOLEAN
  BY DEF TypeOK, MonitorThread
<1> QED
  BY <1>1, <1>2, <1>3, <1>4

\* The reply of _get_active_wifi_connection keeps the types.
LEMMA LookupType ==
  ASSUME TypeOK, Lookup
  PROVE  TypeOK'
<1>1. unsaved' \subseteq Paths \cup {NoPath}
  BY LookupDoes, NmFacts DEF TypeOK
<1> QED
  BY <1>1, LookupDoes DEF TypeOK, nmVars, queues, userVars

\* What the monitor thread does when it writes wifi_state.
LEMMA AssignDoes ==
  ASSUME TypeOK, Assign
  PROVE  /\ monitor.pc = "assign" /\ wifi_state' = monitor.value /\ monitor.value \in WifiState
         /\ monitor' \in MonitorThread
         /\ IF monitor.value.status = "CONNECTED" /\ monitor.path # NoPath
            THEN monitor'.pc = "save" /\ monitor'.path = monitor.path
            ELSE monitor'.pc = IF state_q = <<>> THEN "recv" ELSE "state"
         /\ worker' \in [Workers -> WorkerThread]
         /\ \A w \in Workers : /\ worker'[w].pc = worker[w].pc /\ worker'[w].value = worker[w].value
                               /\ worker'[w].fresh = worker[w].fresh /\ worker'[w].newest = FALSE
         /\ raced' \in BOOLEAN
         /\ ~raced' => /\ ~raced /\ monitor.newest
                       /\ monitor.fresh /\ monitor.value.ssid # wifi_state.ssid =>
                            ~Choosing(Workers) /\ monitor.value.ssid \in {NoSsid, nm.path.ssid}
         /\ UNCHANGED <<nmVars, connections, queues, callback_queue, userVars, unsaved>>
<1>1. /\ monitor.pc = "assign" /\ wifi_state' = monitor.value /\ worker' = OutdateWorkers(FALSE)
      /\ UNCHANGED <<nmVars, connections, queues, callback_queue, userVars, unsaved>>
      /\ raced' = (raced \/ Races(monitor, /\ monitor.value.ssid # wifi_state.ssid
                                           /\ Choosing(Workers) \/ Left(monitor.value)))
  BY DEF Assign
<1>2. monitor \in MonitorThread /\ monitor.value \in WifiState
  BY DEF TypeOK, MonitorThread
<1>3. /\ monitor' \in MonitorThread
      /\ IF monitor.value.status = "CONNECTED" /\ monitor.path # NoPath
         THEN monitor'.pc = "save" /\ monitor'.path = monitor.path
         ELSE monitor'.pc = IF state_q = <<>> THEN "recv" ELSE "state"
  <2>1. CASE monitor.value.status = "CONNECTED" /\ monitor.path # NoPath
    <3>1. monitor' = [IdleMonitor EXCEPT !.pc = "save", !.path = monitor.path]
      BY <2>1 DEF Assign
    <3> QED
      BY <1>2, <2>1, <3>1, IdleTypes DEF MonitorThread
  <2>2. CASE ~(monitor.value.status = "CONNECTED" /\ monitor.path # NoPath)
    <3>1. NextSignal /\ state_q' = state_q
      BY <1>1, <2>2 DEF Assign, queues
    <3> QED
      BY <2>2, <3>1, NextSignalType
  <2> QED
    BY <2>1, <2>2
<1>4. /\ worker' \in [Workers -> WorkerThread]
      /\ \A w \in Workers : /\ worker'[w].pc = worker[w].pc /\ worker'[w].value = worker[w].value
                            /\ worker'[w].newest = (worker[w].newest /\ FALSE /\ worker[w].pc # "assign")
                            /\ worker'[w].fresh = (worker[w].fresh /\ ~FALSE)
  BY <1>1, OutdateWorkersType DEF TypeOK
<1>5. \A w \in Workers : worker'[w].fresh = worker[w].fresh /\ worker'[w].newest = FALSE
  BY <1>4 DEF TypeOK, WorkerThread
<1>6. raced' \in BOOLEAN
  BY Zenon, <1>1
<1>7. ASSUME ~raced'
      PROVE  /\ ~raced /\ monitor.newest
             /\ monitor.fresh /\ monitor.value.ssid # wifi_state.ssid =>
                  ~Choosing(Workers) /\ monitor.value.ssid \in {NoSsid, nm.path.ssid}
  BY <1>1, <1>7 DEF Races, Left
<1> QED
  BY <1>1, <1>2, <1>3, <1>4, <1>5, <1>6, <1>7

\* Writing what the handler has found keeps the types.
LEMMA AssignType ==
  ASSUME TypeOK, Assign
  PROVE  TypeOK'
<1>1. /\ wifi_state' \in WifiState /\ monitor' \in MonitorThread /\ worker' \in [Workers -> WorkerThread]
      /\ raced' \in BOOLEAN
      /\ UNCHANGED <<nmVars, connections, queues, callback_queue, userVars, unsaved>>
  BY AssignDoes
<1>2. \A w \in Workers : worker'[w].pc = worker[w].pc /\ worker'[w].value = worker[w].value
  BY AssignDoes
<1>3. \A w \in Workers :
        worker'[w].pc \in {"delete", "forget", "add", "activate"} => worker'[w].value.ssid \in Ssids
  BY <1>2 DEF TypeOK
<1> QED
  BY <1>1, <1>3 DEF TypeOK, nmVars, queues, userVars

\* What Save does, without EXCEPT.
LEMMA SaveDoes ==
  ASSUME TypeOK, Save
  PROVE  /\ monitor.pc = "save" /\ bus = <<>>
         /\ \/ volatile' = volatile \ {monitor.path} /\ unsaved' = unsaved
            \/ volatile' = volatile /\ unsaved' = unsaved \cup {monitor.path}
         /\ failures' \in Nat /\ monitor' \in MonitorThread
         /\ monitor'.pc = IF state_q = <<>> THEN "recv" ELSE "state"
         /\ UNCHANGED <<nm, nmConnections, paths, bus, wifi_state, connections, queues, worker,
                        callback_queue, userVars, raced>>
<1>1. NextSignal /\ state_q' = state_q
  BY DEF Save, queues
<1>2. failures' \in Nat
  BY DEF Save, TypeOK
<1> QED
  BY <1>1, <1>2, NextSignalType DEF Save, Persisted

\* It keeps the types.
LEMMA SaveType ==
  ASSUME TypeOK, Save
  PROVE  TypeOK'
<1>1. monitor.path \in Paths \cup {NoPath}
  BY DEF TypeOK, MonitorThread
<1>2. volatile' \subseteq Paths /\ unsaved' \subseteq Paths \cup {NoPath}
  BY <1>1, SaveDoes DEF TypeOK
<1> QED
  BY <1>2, SaveDoes DEF TypeOK, queues, userVars

ChooserPcs == {"forget", "add", "activate"}

\* The user chooses a network.
Chooses(w, ssid, pc) ==
  /\ worker[w].pc = "idle"
  /\ wifi_state' \in WifiState /\ wifi_state'.ssid = ssid /\ wifi_state'.status = "CONNECTING"
  /\ worker' \in [Workers -> WorkerThread]
  /\ worker'[w].pc = pc /\ worker'[w].value = wifi_state'
  /\ \A v \in Workers \ {w} : /\ worker'[v].pc = worker[v].pc
                              /\ worker'[v].value = worker[v].value
                              /\ worker'[v].fresh = FALSE
                              /\ worker'[v].newest = (worker[v].newest /\ worker[v].pc # "assign")
  /\ monitor' \in MonitorThread /\ monitor'.pc = monitor.pc /\ monitor'.value = monitor.value
  /\ monitor'.path = monitor.path /\ monitor'.fresh = FALSE
  /\ monitor'.newest = (monitor.newest /\ monitor.pc # "assign")
  /\ bus' = Late(bus) /\ state_q' = Late(state_q)
  /\ bus' \in Seq(Signals) /\ state_q' \in Seq(StateSignals)
  /\ choices' \in Nat /\ raced' \in BOOLEAN
  /\ ~raced' => ~raced /\ \A v \in Workers : worker[v].pc \notin ChooserPcs
  /\ UNCHANGED <<nm, nmConnections, volatile, paths, failures, connections, removed_conn_q,
                 new_conn_q, callback_queue, others, unsaved>>

\* What connect_to_network and activate_connection do in the user interface, without EXCEPT.
LEMMA ChooseDoes ==
  ASSUME TypeOK, NEW w \in Workers, NEW ssid \in Ssids, NEW pc \in {"forget", "activate"},
         Choose(w, ssid, pc)
  PROVE  Chooses(w, ssid, pc)
<1>1. /\ wifi_state' = [ssid |-> ssid, status |-> "CONNECTING"] /\ worker[w].pc = "idle"
      /\ worker' = [OutdateWorkers(TRUE) EXCEPT ![w] = [IdleWorker EXCEPT !.pc = pc, !.value = wifi_state']]
      /\ monitor' = Outdated(monitor, TRUE) /\ choices' = choices + 1
      /\ bus' = Late(bus) /\ state_q' = Late(state_q)
      /\ raced' = (raced \/ \E v \in Workers : worker[v].pc \in ChooserPcs)
      /\ UNCHANGED <<nm, nmConnections, volatile, paths, failures, connections, removed_conn_q,
                     new_conn_q, callback_queue, others, unsaved>>
  BY DEF Choose, Spawn, ChooserPcs
<1>2. wifi_state' \in WifiState /\ wifi_state'.ssid = ssid /\ wifi_state'.status = "CONNECTING"
  BY <1>1 DEF WifiState, Statuses
<1> DEFINE thread == [IdleWorker EXCEPT !.pc = pc, !.value = wifi_state']
<1>3. thread \in WorkerThread /\ thread.pc = pc /\ thread.value = wifi_state'
  BY <1>2, IdleTypes DEF WorkerThread
<1> HIDE DEF thread
<1>4. worker' = [OutdateWorkers(TRUE) EXCEPT ![w] = thread]
  BY <1>1 DEF thread
<1>5. /\ OutdateWorkers(TRUE) \in [Workers -> WorkerThread]
      /\ \A v \in Workers :
           /\ OutdateWorkers(TRUE)[v].pc = worker[v].pc
           /\ OutdateWorkers(TRUE)[v].value = worker[v].value
           /\ OutdateWorkers(TRUE)[v].newest = (worker[v].newest /\ TRUE /\ worker[v].pc # "assign")
           /\ OutdateWorkers(TRUE)[v].fresh = (worker[v].fresh /\ ~TRUE)
  BY OutdateWorkersType DEF TypeOK
<1>6. /\ worker' \in [Workers -> WorkerThread]
      /\ worker'[w].pc = pc /\ worker'[w].value = wifi_state'
  BY <1>3, <1>4, <1>5
<1>7. ASSUME NEW v \in Workers \ {w}
      PROVE  /\ worker'[v].pc = worker[v].pc /\ worker'[v].value = worker[v].value
             /\ worker'[v].fresh = FALSE
             /\ worker'[v].newest = (worker[v].newest /\ worker[v].pc # "assign")
  <2>1. worker'[v] = OutdateWorkers(TRUE)[v]
    BY <1>4, <1>5
  <2> QED
    BY <1>5, <2>1
<1>8. /\ monitor' \in MonitorThread /\ monitor'.pc = monitor.pc /\ monitor'.value = monitor.value
      /\ monitor'.path = monitor.path /\ monitor'.fresh = FALSE
      /\ monitor'.newest = (monitor.newest /\ monitor.pc # "assign")
  BY <1>1, OutdatedType DEF TypeOK
<1>9. /\ bus' \in Seq(Signals) /\ state_q' \in Seq(StateSignals)
  BY <1>1, LateType DEF TypeOK, Signals
<1>10. choices' \in Nat
  BY <1>1 DEF TypeOK
<1>11. raced' \in BOOLEAN
  BY Zenon, <1>1
<1>12. ~raced' => ~raced /\ \A v \in Workers : worker[v].pc \notin ChooserPcs
  BY <1>1
<1> QED
  BY <1>1, <1>2, <1>6, <1>7, <1>8, <1>9, <1>10, <1>11, <1>12 DEF Chooses

\* They keep the types.
LEMMA ChoosesType ==
  ASSUME TypeOK, NEW w \in Workers, NEW ssid \in Ssids, NEW pc \in {"forget", "activate"},
         Chooses(w, ssid, pc)
  PROVE  TypeOK'
<1>1. \A v \in Workers : worker'[v].pc \in {"delete", "forget", "add", "activate"} =>
                            worker'[v].value.ssid \in Ssids
  BY DEF TypeOK, Chooses
<1>2. {choices', others', failures'} \subseteq Nat
  BY DEF TypeOK, Chooses
<1> QED
  BY <1>1, <1>2 DEF TypeOK, Chooses, Signals

\* A worker that is started alone begins with its first statement, and the others go on.
LEMMA StartDoes ==
  ASSUME TypeOK, NEW w \in Workers, NEW pc \in {"delete", "resync"}, NEW value \in WifiState,
         Start(w, pc, value)
  PROVE  /\ worker[w].pc = "idle" /\ worker' \in [Workers -> WorkerThread]
         /\ worker'[w].pc = pc /\ worker'[w].value = value
         /\ \A v \in Workers \ {w} : worker'[v] = worker[v]
<1> DEFINE thread == [IdleWorker EXCEPT !.pc = pc, !.value = value]
<1>1. thread \in WorkerThread /\ thread.pc = pc /\ thread.value = value
  BY IdleTypes DEF WorkerThread
<1>2. worker[w].pc = "idle" /\ worker' = [worker EXCEPT ![w] = thread]
  BY DEF Start
<1> HIDE DEF thread
<1> QED
  BY <1>1, <1>2 DEF TypeOK

\* Forgetting a network and opening the settings start a worker.
StartsWorker(w) ==
  /\ worker[w].pc = "idle" /\ worker' \in [Workers -> WorkerThread]
  /\ worker'[w].pc \in {"delete", "resync"}
  /\ worker'[w].pc = "delete" => worker'[w].value.ssid \in Ssids
  /\ \A v \in Workers \ {w} : worker'[v] = worker[v]
  /\ others' \in Nat
  /\ UNCHANGED <<nmVars, wifi_state, connections, queues, monitor, callback_queue, choices, history>>

\* Forgetting a network or opening the settings starts one worker.
LEMMA StartsWorkerDoes ==
  ASSUME TypeOK, NEW w \in Workers, ForgetConnection(w) \/ OpenSettings(w)
  PROVE  StartsWorker(w)
<1>1. others' \in Nat
      /\ UNCHANGED <<nmVars, wifi_state, connections, queues, monitor, callback_queue, choices, history>>
  BY DEF ForgetConnection, OpenSettings, TypeOK
<1>2. CASE ForgetConnection(w)
  <2>1. PICK s \in Ssids : Start(w, "delete", [ssid |-> s, status |-> "DISCONNECTED"])
    BY <1>2 DEF ForgetConnection
  <2> DEFINE value == [ssid |-> s, status |-> "DISCONNECTED"]
  <2>2. value \in WifiState /\ value.ssid = s
    BY DEF WifiState, Statuses
  <2> HIDE DEF value
  <2>3. Start(w, "delete", value)
    BY <2>1 DEF value
  <2> QED
    BY <1>1, <2>2, <2>3, StartDoes DEF StartsWorker
<1>3. CASE OpenSettings(w)
  BY <1>1, <1>3, IdleTypes, StartDoes DEF OpenSettings, StartsWorker
<1> QED
  BY <1>2, <1>3

\* That keeps the types.
LEMMA StartsWorkerType ==
  ASSUME TypeOK, NEW w \in Workers, StartsWorker(w)
  PROVE  TypeOK'
<1>1. \A v \in Workers : worker'[v].pc \in {"delete", "forget", "add", "activate"} =>
                            worker'[v].value.ssid \in Ssids
  BY DEF TypeOK, StartsWorker
<1> QED
  BY <1>1 DEF TypeOK, StartsWorker, nmVars, queues, history

\* The user chooses a network or starts a worker.
LEMMA UserDoes ==
  ASSUME NEW w \in Workers, User(w)
  PROVE  \/ \E ssid \in Ssids : \E pc \in {"forget", "activate"} : Choose(w, ssid, pc)
         \/ ForgetConnection(w) \/ OpenSettings(w)
BY DEF User, ConnectToNetwork, ActivateConnection

\* What NM says when it begins to connect: nothing of the user's own removals, and PREPARE at last.
ActivationSignals(path, gone, new) ==
  {x \in Signals :
    /\ x.kind = "state" => /\ x.state \in {"PREPARE", "DISCONNECTED", "NEED_AUTH"}
                           /\ x.reason \in {"NONE", "NEW_ACTIVATION", "interrupted"}
    /\ x.kind = "removed" => x.path \in gone
    /\ x.kind = "added" => new /\ x.path = path}

Activates(path, gone, extra, new) ==
  /\ gone \subseteq {nm.path} \ {path} /\ gone \subseteq volatile
  /\ extra \in Seq(ActivationSignals(path, gone, new)) /\ bus' = bus \o extra /\ extra # <<>>
  /\ extra[Len(extra)].kind = "state" /\ extra[Len(extra)].state = "PREPARE"
  /\ new => extra[1] = Added(path)
  /\ nm' \in NmStates /\ nm'.phase = "prepare" /\ nm'.path = path
  /\ volatile' = (volatile \ gone) \cup (IF new THEN {path} ELSE {})
  /\ nmConnections' = (nmConnections \ gone) \cup {path}

\* What NM does when it is told to connect: it leaves what it was on, and says so, then PREPARE.
LEMMA ActivateDoes ==
  ASSUME TypeOK, NEW path \in Paths, NEW new \in BOOLEAN,
         Activate(path, IF new THEN <<Added(path)>> ELSE <<>>)
  PROVE  \E gone \in SUBSET Paths : \E extra \in Seq(Signals) : Activates(path, gone, extra, new)
<1> DEFINE announcement == IF new THEN <<Added(path)>> ELSE <<>>
           gone == Dropped \ {path}
           P == ActivationSignals(path, gone, new)
           left == IF Working THEN <<Signal("DISCONNECTED", "NEW_ACTIVATION", nm.path.ssid)>> ELSE <<>>
           drop == IF gone = {} THEN <<>> ELSE DroppedSignal
           prepare == Signal("PREPARE", "NONE", path.ssid)
<1>1. PICK stale :
        /\ stale = <<>> \/ stale = <<StateSignal("NEED_AUTH", "interrupted", nm.path.ssid, FALSE)>>
        /\ ~Working => stale = <<>>
        /\ bus' = bus \o (announcement \o left \o stale \o drop \o <<prepare>>)
  BY DEF Activate
<1>2. /\ nm' = [phase |-> "prepare", path |-> path]
      /\ volatile' = (volatile \ gone) \cup (IF announcement = <<>> THEN {} ELSE {path})
      /\ nmConnections' = (nmConnections \ gone) \cup {path}
  BY DEF Activate
<1>3. path.ssid \in Ssids /\ (Working => nm.path.ssid \in Ssids) /\ gone \subseteq {nm.path} \ {path}
      /\ gone \subseteq volatile /\ gone \subseteq Paths
  BY NmFacts, PathIsNotNoPath DEF Dropped, TypeOK
<1>4. announcement \in Seq(P)
  <2>1. new => Added(path) \in P
    BY PathSignalType, SignalKinds DEF ActivationSignals
  <2> HIDE DEF P
  <2> QED
    BY <2>1
<1>5. left \in Seq(P)
  <2>1. ASSUME Working PROVE Signal("DISCONNECTED", "NEW_ACTIVATION", nm.path.ssid) \in P
    BY <1>3, <2>1, SignalType, ChoosingType DEF Signal, ActivationSignals
  <2> HIDE DEF P
  <2> QED
    BY <2>1
<1>6. stale \in Seq(P)
  <2>1. ASSUME Working PROVE StateSignal("NEED_AUTH", "interrupted", nm.path.ssid, FALSE) \in P
    BY <1>3, <2>1 DEF StateSignal, StateSignals, Signals, ActivationSignals
  <2> DEFINE interrupted == StateSignal("NEED_AUTH", "interrupted", nm.path.ssid, FALSE)
  <2>2. stale = <<>> \/ (Working /\ stale = <<interrupted>>)
    BY <1>1
  <2>3. Working => interrupted \in P
    BY <2>1
  <2> HIDE DEF P, interrupted
  <2>4. CASE stale = <<>>
    BY <2>4
  <2>5. CASE Working /\ stale = <<interrupted>>
    BY <2>3, <2>5
  <2> QED
    BY <2>2, <2>4, <2>5
<1>7. drop \in Seq(P)
  <2>1. ASSUME gone # {} PROVE Removed(nm.path) \in P
    <3>1. gone = {nm.path} /\ nm.path \in Paths
      BY <1>3, <2>1
    <3> QED
      BY <3>1, PathSignalType, SignalKinds DEF ActivationSignals
  <2>2. gone # {} => nm.path \in volatile
    BY <1>3
  <2> HIDE DEF P, gone
  <2> QED
    BY <2>1, <2>2 DEF DroppedSignal
<1>8. prepare \in P /\ prepare.kind = "state" /\ prepare.state = "PREPARE"
  BY <1>3, SignalType, ChoosingType DEF Signal, ActivationSignals
<1>9. P \subseteq Signals
  BY DEF ActivationSignals
<1>10. (announcement = <<>>) = ~new
  OBVIOUS
<1> HIDE DEF gone, P, left, drop, prepare
<1> DEFINE extra == announcement \o left \o stale \o drop \o <<prepare>>
<1>11. /\ extra \in Seq(P) /\ extra # <<>> /\ extra[Len(extra)] = prepare
       /\ bus' = bus \o extra
       /\ new => extra[1] = Added(path)
  <2>1. bus \in Seq(Signals)
    BY DEF TypeOK, Signals
  <2> DEFINE some == announcement \o left \o stale \o drop
  <2>2. some \in Seq(P)
    BY <1>4, <1>5, <1>6, <1>7
  <2>3. extra = Append(some, prepare)
    BY <1>8, <2>2
  <2>4. bus' = bus \o extra
    BY <1>1
  <2>5. new => some # <<>> /\ some[1] = Added(path)
    BY <1>4, <1>5, <1>6, <1>7
  <2> HIDE DEF some, extra
  <2> QED
    BY <1>8, <2>2, <2>3, <2>4, <2>5
<1>12. /\ nm' \in NmStates /\ nm'.phase = "prepare" /\ nm'.path = path
       /\ volatile' = (volatile \ gone) \cup (IF new THEN {path} ELSE {})
  BY <1>2, <1>10 DEF NmStates
<1> HIDE DEF extra
<1>13. extra \in Seq(Signals)
  BY <1>9, <1>11
<1>14. Activates(path, gone, extra, new)
  BY <1>2, <1>3, <1>8, <1>11, <1>12 DEF Activates, P
<1> QED
  BY <1>3, <1>13, <1>14

\* The variables of NM keep their types.
LEMMA ActivatesType ==
  ASSUME TypeOK, NEW path \in Paths, NEW gone \in SUBSET Paths, NEW extra \in Seq(Signals),
         NEW new \in BOOLEAN, Activates(path, gone, extra, new)
  PROVE  /\ bus' \in Seq(Signals) /\ volatile' \subseteq Paths /\ nmConnections' \subseteq Paths
         /\ nm' \in NmStates
BY DEF Activates, TypeOK, Signals

\* The signals of a deletion: of the connection, and of the device when it was on it.
Leaves(path, said) ==
  /\ said \in Seq(Signals) /\ Len(said) = 3 /\ said[1] = Removed(path)
  /\ \A i \in {2, 3} : /\ said[i] \in StateSignals /\ said[i].reason = "CONNECTION_REMOVED"
                       /\ said[i].of = path.ssid
  /\ said[2].state = "DEACTIVATING" /\ said[3].state = "DISCONNECTED"

Deletes(path) ==
  \/ path \notin nmConnections /\ UNCHANGED <<nm, nmConnections, volatile, bus>>
  \/ /\ path \in nmConnections /\ nmConnections' = nmConnections \ {path} /\ volatile' = volatile \ {path}
     /\ \/ nm.path # path /\ bus' = Append(bus, Removed(path)) /\ nm' = nm
        \/ /\ nm.path = path /\ Working /\ nm' \in NmStates
           /\ nm'.phase = "disconnected" /\ nm'.path = NoPath
           /\ \E said \in Seq(Signals) : Leaves(path, said) /\ bus' = bus \o said

\* What NM does when it is told to forget a connection.
LEMMA DeleteDoes ==
  ASSUME TypeOK, NEW path \in Paths \cup {NoPath}, Delete(path)
  PROVE  Deletes(path)
<1>1. CASE path \notin nmConnections
  BY <1>1 DEF Delete, Deletes
<1>2. CASE path \in nmConnections /\ nm.path # path
  BY <1>2 DEF Delete, Deletes
<1>3. CASE path \in nmConnections /\ nm.path = path
  <2>1. path \in Paths /\ path.ssid \in Ssids /\ Working
    BY <1>3, NmFacts, PathIsNotNoPath DEF TypeOK
  <2> DEFINE deactivating == Signal("DEACTIVATING", "CONNECTION_REMOVED", path.ssid)
             disconnected == Signal("DISCONNECTED", "CONNECTION_REMOVED", path.ssid)
             removed == Removed(path)
  <2>2. /\ deactivating \in StateSignals /\ deactivating.state = "DEACTIVATING"
        /\ deactivating.reason = "CONNECTION_REMOVED" /\ deactivating.of = path.ssid
    BY <2>1, SignalType, ChoosingType DEF Signal
  <2>3. /\ disconnected \in StateSignals /\ disconnected.state = "DISCONNECTED"
        /\ disconnected.reason = "CONNECTION_REMOVED" /\ disconnected.of = path.ssid
    BY <2>1, SignalType, ChoosingType DEF Signal
  <2>4. deactivating \in Signals /\ disconnected \in Signals /\ removed \in Signals
    BY <2>1, <2>2, <2>3, PathSignalType, SignalKinds
  <2>5. /\ nmConnections' = nmConnections \ {path} /\ volatile' = volatile \ {path}
        /\ bus' = bus \o <<removed, deactivating, disconnected>>
        /\ nm' = [phase |-> "disconnected", path |-> NoPath]
    BY <1>3 DEF Delete
  <2>6. nm' \in NmStates /\ nm'.phase = "disconnected" /\ nm'.path = NoPath
    BY <2>5 DEF NmStates
  <2>7. removed = Removed(path)
    OBVIOUS
  <2> HIDE DEF removed, deactivating, disconnected
  <2> DEFINE said == <<removed, deactivating, disconnected>>
  <2>8. said \in Seq(Signals) /\ Leaves(path, said)
    BY <2>2, <2>3, <2>4, <2>7 DEF Leaves
  <2> HIDE DEF said
  <2>9. bus' = bus \o said
    BY <2>5 DEF said
  <2> QED
    BY <1>3, <2>1, <2>5, <2>6, <2>8, <2>9 DEF Deletes
<1> QED
  BY <1>1, <1>2, <1>3

\* The variables of NM keep their types.
LEMMA DeletesType ==
  ASSUME TypeOK, NEW path \in Paths \cup {NoPath}, Deletes(path)
  PROVE  /\ bus' \in Seq(Signals) /\ volatile' \subseteq Paths /\ nmConnections' \subseteq Paths
         /\ nm' \in NmStates
<1>1. bus \in Seq(Signals) /\ nm \in NmStates
  BY DEF TypeOK, Signals, NmStates
<1>2. path \in nmConnections => Removed(path) \in Signals
  BY PathSignalType, SignalKinds DEF TypeOK
<1>3. nm' \in NmStates /\ volatile' \subseteq Paths /\ nmConnections' \subseteq Paths
  BY <1>1 DEF Deletes, TypeOK
<1>4. \/ bus' = bus
      \/ path \in nmConnections /\ bus' = Append(bus, Removed(path))
      \/ \E said \in Seq(Signals) : bus' = bus \o said
  BY DEF Deletes
<1>5. bus' \in Seq(Signals)
  <2>1. CASE bus' = bus
    BY <1>1, <2>1
  <2>2. CASE path \in nmConnections /\ bus' = Append(bus, Removed(path))
    BY <1>1, <1>2, <2>2
  <2>3. CASE \E said \in Seq(Signals) : bus' = bus \o said
    BY <1>1, <2>3
  <2> QED
    BY <1>4, <2>1, <2>2, <2>3
<1> QED
  BY <1>3, <1>5

\* A worker that goes on to pc.
GoesOn(w, pc) ==
  /\ worker' \in [Workers -> WorkerThread] /\ worker'[w].pc = pc
  /\ pc # "idle" => worker'[w].value = worker[w].value
  /\ \A v \in Workers \ {w} : worker'[v] = worker[v]

\* A worker that goes on to another statement, without EXCEPT.
LEMMA ContinueDoes ==
  ASSUME TypeOK, NEW w \in Workers,
         NEW pc \in {"idle", "delete", "forget", "add", "activate", "resync", "reply", "assign"},
         Continue(w, pc)
  PROVE  GoesOn(w, pc)
<1>1. CASE pc = "idle"
  <2>1. worker' = [worker EXCEPT ![w] = IdleWorker] /\ IdleWorker.pc = "idle"
    BY <1>1 DEF Continue, IdleWorker
  <2> QED
    BY <1>1, <2>1, IdleTypes DEF TypeOK, GoesOn
<1>2. CASE pc # "idle"
  <2>1. worker' = [worker EXCEPT ![w] = [@ EXCEPT !.pc = pc]]
    BY <1>2 DEF Continue
  <2>2. worker \in [Workers -> WorkerThread]
    BY DEF TypeOK
  <2> DEFINE thread == [worker[w] EXCEPT !.pc = pc]
  <2>3. thread \in WorkerThread /\ thread.pc = pc /\ thread.value = worker[w].value
    BY <2>2 DEF WorkerThread
  <2>4. worker' = [worker EXCEPT ![w] = thread]
    BY <2>1, <2>2
  <2> HIDE DEF thread
  <2> QED
    BY <1>2, <2>2, <2>3, <2>4 DEF GoesOn
<1> QED
  BY <1>1, <1>2

\* A worker that carries out a choice or forgets a network has a network.
LEMMA WorkerNetwork ==
  ASSUME TypeOK, NEW w \in Workers, worker[w].pc \in {"delete", "forget", "add", "activate"}
  PROVE  /\ worker[w].value.ssid \in Ssids
         /\ connections[worker[w].value.ssid] \in Paths \cup {NoPath}
BY DEF TypeOK

ForgetDoes(w) ==
  /\ worker[w].pc \in {"forget", "delete"}
  /\ Deletes(connections[worker[w].value.ssid])
  /\ GoesOn(w, IF worker[w].pc = "forget" THEN "add" ELSE "idle")
  /\ WorkerUnchanged /\ UNCHANGED <<paths, wifi_state, raced>>

\* What forget_connection does, without EXCEPT.
LEMMA ForgetStepDoes ==
  ASSUME TypeOK, NEW w \in Workers, ForgetStep(w)
  PROVE  ForgetDoes(w)
<1>1. Deletes(connections[worker[w].value.ssid])
  BY DeleteDoes, WorkerNetwork DEF ForgetStep
<1>2. GoesOn(w, IF worker[w].pc = "forget" THEN "add" ELSE "idle")
  BY ContinueDoes DEF ForgetStep
<1> QED
  BY <1>1, <1>2 DEF ForgetDoes, ForgetStep

\* It keeps the types.
LEMMA ForgetDoesType ==
  ASSUME TypeOK, NEW w \in Workers, ForgetDoes(w)
  PROVE  TypeOK'
<1>1. /\ bus' \in Seq(Signals) /\ volatile' \subseteq Paths /\ nmConnections' \subseteq Paths
      /\ nm' \in NmStates
  BY DeletesType, WorkerNetwork DEF ForgetDoes
<1>2. \A v \in Workers : worker'[v].pc \in {"delete", "forget", "add", "activate"} =>
                            worker'[v].value.ssid \in Ssids
  BY WorkerNetwork DEF ForgetDoes, GoesOn, TypeOK
<1>3. worker' \in [Workers -> WorkerThread]
  BY DEF ForgetDoes, GoesOn
<1> QED
  BY <1>1, <1>2, <1>3 DEF TypeOK, ForgetDoes, WorkerUnchanged, queues, userVars, Signals, NmStates

\* Adding a connection and activating it, or failing to.
AddDoes(w) ==
  LET path == NewPath(worker[w].value.ssid) IN
  /\ worker[w].pc = "add" /\ path \in Paths /\ path.n = paths + 1 /\ path.ssid = worker[w].value.ssid
  /\ \/ /\ \E gone \in SUBSET Paths : \E extra \in Seq(Signals) : Activates(path, gone, extra, TRUE)
        /\ GoesOn(w, "idle") /\ paths' = paths + 1 /\ raced' \in BOOLEAN
        /\ ~raced' => ~raced /\ \A p \in nmConnections : p.ssid # path.ssid
     \/ GoesOn(w, "resync") /\ UNCHANGED <<nm, nmConnections, volatile, paths, bus, raced>>
  /\ WorkerUnchanged /\ UNCHANGED wifi_state

\* What AddAndActivateConnection2 does, or leaves when it fails.
LEMMA AddStepDoes ==
  ASSUME TypeOK, NEW w \in Workers, AddStep(w)
  PROVE  AddDoes(w)
<1> DEFINE path == NewPath(worker[w].value.ssid)
<1>1. worker[w].pc = "add" /\ worker[w].value.ssid \in Ssids /\ paths \in Nat
  BY WorkerNetwork DEF AddStep, TypeOK
<1>2. path \in Paths /\ path.n = paths + 1 /\ path.ssid = worker[w].value.ssid
  BY <1>1 DEF NewPath, Paths
<1>3. WorkerUnchanged /\ UNCHANGED wifi_state
  BY DEF AddStep
<1>4. CASE /\ Activate(path, <<Added(path)>>) /\ Continue(w, "idle") /\ paths' = paths + 1
           /\ raced' = (raced \/ \E p \in nmConnections : p.ssid = path.ssid)
  <2>1. Activate(path, IF TRUE THEN <<Added(path)>> ELSE <<>>)
    BY <1>4
  <2>2. \E gone \in SUBSET Paths : \E extra \in Seq(Signals) : Activates(path, gone, extra, TRUE)
    BY <1>2, <2>1, ActivateDoes
  <2>3. GoesOn(w, "idle")
    BY <1>4, ContinueDoes
  <2>4. raced' \in BOOLEAN
    BY <1>4, Zenon
  <2>5. ~raced' => ~raced /\ \A p \in nmConnections : p.ssid # path.ssid
    BY <1>4
  <2> HIDE DEF path
  <2>6. paths' = paths + 1
    BY <1>4
  <2> QED
    BY <1>1, <1>2, <1>3, <2>2, <2>3, <2>4, <2>5, <2>6, Zenon DEF AddDoes, path
<1>5. CASE Continue(w, "resync") /\ UNCHANGED <<nm, nmConnections, volatile, paths, bus, raced>>
  <2>1. GoesOn(w, "resync")
    BY <1>5, ContinueDoes
  <2> QED
    BY <1>1, <1>2, <1>3, <1>5, <2>1 DEF AddDoes
<1> QED
  BY <1>4, <1>5 DEF AddStep

\* It keeps the types.
LEMMA AddDoesType ==
  ASSUME TypeOK, NEW w \in Workers, AddDoes(w)
  PROVE  TypeOK'
<1>1. /\ worker' \in [Workers -> WorkerThread]
      /\ \A v \in Workers : worker'[v].pc \in {"delete", "forget", "add", "activate"} =>
                              worker'[v].value.ssid \in Ssids
  BY DEF AddDoes, GoesOn, TypeOK
<1>2. /\ bus' \in Seq(Signals) /\ volatile' \subseteq Paths /\ nmConnections' \subseteq Paths
      /\ nm' \in NmStates /\ paths' \in Nat
  <2>1. CASE GoesOn(w, "resync") /\ UNCHANGED <<nm, nmConnections, volatile, paths, bus, raced>>
    BY <2>1 DEF TypeOK, Signals, NmStates
  <2>2. CASE \E gone \in SUBSET Paths : \E extra \in Seq(Signals) :
               Activates(NewPath(worker[w].value.ssid), gone, extra, TRUE) /\ paths' = paths + 1
    <3>1. NewPath(worker[w].value.ssid) \in Paths /\ paths' \in Nat
      BY <2>2 DEF AddDoes, TypeOK
    <3> QED
      BY <2>2, <3>1, ActivatesType
  <2> QED
    BY <2>1, <2>2 DEF AddDoes
<1>3. raced' \in BOOLEAN
  BY DEF AddDoes, TypeOK
<1>4. WorkerUnchanged /\ UNCHANGED wifi_state
  BY DEF AddDoes
<1> QED
  BY <1>1, <1>2, <1>3, <1>4 DEF TypeOK, WorkerUnchanged, queues, userVars, Signals, NmStates

\* Activating a connection that NM has, or failing to.
ActivateStepDoes(w) ==
  LET path == connections[worker[w].value.ssid] IN
  /\ worker[w].pc = "activate"
  /\ \/ /\ path \in Paths /\ path.ssid = worker[w].value.ssid /\ path \in nmConnections
        /\ \E gone \in SUBSET Paths : \E extra \in Seq(Signals) : Activates(path, gone, extra, FALSE)
        /\ GoesOn(w, "idle")
     \/ GoesOn(w, "resync") /\ UNCHANGED <<nm, nmConnections, volatile, bus>>
  /\ WorkerUnchanged /\ UNCHANGED <<paths, wifi_state, raced>>

\* What ActivateConnection does, or leaves when it fails.
LEMMA ActivateStepIs ==
  ASSUME TypeOK, NEW w \in Workers, ActivateStep(w)
  PROVE  ActivateStepDoes(w)
<1> DEFINE path == connections[worker[w].value.ssid]
<1>1. worker[w].pc = "activate" /\ WorkerUnchanged /\ UNCHANGED <<paths, wifi_state, raced>>
  BY DEF ActivateStep
<1>2. CASE path \in nmConnections /\ Activate(path, <<>>) /\ Continue(w, "idle")
  <2>1. path \in Paths /\ path.ssid = worker[w].value.ssid
    BY <1>1, <1>2, WorkerNetwork DEF TypeOK
  <2>2. Activate(path, IF FALSE THEN <<Added(path)>> ELSE <<>>)
    BY <1>2
  <2>3. \E gone \in SUBSET Paths : \E extra \in Seq(Signals) : Activates(path, gone, extra, FALSE)
    BY <2>1, <2>2, ActivateDoes
  <2>4. GoesOn(w, "idle")
    BY <1>2, ContinueDoes
  <2>5. path \in nmConnections
    BY <1>2
  <2> HIDE DEF path
  <2> QED
    BY <1>1, <2>1, <2>3, <2>4, <2>5, Zenon DEF ActivateStepDoes, path
<1>3. CASE Continue(w, "resync") /\ UNCHANGED <<nm, nmConnections, volatile, bus>>
  <2>1. GoesOn(w, "resync")
    BY <1>3, ContinueDoes
  <2> QED
    BY <1>1, <1>3, <2>1 DEF ActivateStepDoes
<1> QED
  BY <1>2, <1>3 DEF ActivateStep

\* It keeps the types.
LEMMA ActivateStepType ==
  ASSUME TypeOK, NEW w \in Workers, ActivateStepDoes(w)
  PROVE  TypeOK'
<1>1. /\ worker' \in [Workers -> WorkerThread]
      /\ \A v \in Workers : worker'[v].pc \in {"delete", "forget", "add", "activate"} =>
                              worker'[v].value.ssid \in Ssids
  BY DEF ActivateStepDoes, GoesOn, TypeOK
<1>2. /\ bus' \in Seq(Signals) /\ volatile' \subseteq Paths /\ nmConnections' \subseteq Paths
      /\ nm' \in NmStates
  <2>1. CASE GoesOn(w, "resync") /\ UNCHANGED <<nm, nmConnections, volatile, bus>>
    BY <2>1 DEF TypeOK, Signals, NmStates
  <2>2. CASE /\ connections[worker[w].value.ssid] \in Paths
             /\ \E gone \in SUBSET Paths : \E extra \in Seq(Signals) :
                  Activates(connections[worker[w].value.ssid], gone, extra, FALSE)
    BY <2>2, ActivatesType
  <2> QED
    BY <2>1, <2>2 DEF ActivateStepDoes
<1>3. WorkerUnchanged /\ UNCHANGED <<paths, wifi_state, raced>>
  BY DEF ActivateStepDoes
<1> QED
  BY <1>1, <1>2, <1>3 DEF TypeOK, WorkerUnchanged, queues, userVars, Signals, NmStates

\* The worker asks for the state of the device.
Asks(w) ==
  /\ worker[w].pc = "resync" /\ worker' \in [Workers -> WorkerThread]
  /\ worker'[w].pc = "reply" /\ worker'[w].fresh = TRUE /\ worker'[w].newest = TRUE
  /\ worker'[w].value.ssid = NoSsid /\ worker'[w].value.status = Status(nm.phase)
  /\ \A v \in Workers \ {w} : worker'[v] = worker[v]
  /\ UNCHANGED <<wifi_state, monitor, raced>>

\* The worker has the reply, and discards it when the user has acted.
Answers(w) ==
  /\ worker[w].pc = "reply" /\ worker' \in [Workers -> WorkerThread]
  /\ worker'[w].pc = IF worker[w].fresh THEN "assign" ELSE "idle"
  /\ worker[w].fresh => /\ worker'[w].value.ssid = ToSsid(nm.path)
                        /\ worker'[w].value.status = worker[w].value.status
                        /\ worker'[w].newest = worker[w].newest /\ worker'[w].fresh = TRUE
  /\ \A v \in Workers \ {w} : worker'[v] = worker[v]
  /\ UNCHANGED <<wifi_state, monitor, raced>>

\* The worker writes what it was told.
Resyncs(w) ==
  /\ worker[w].pc = "assign" /\ worker' \in [Workers -> WorkerThread]
  /\ worker'[w].pc = "idle"
  /\ \A v \in Workers \ {w} : /\ worker'[v].pc = worker[v].pc /\ worker'[v].value = worker[v].value
                              /\ worker'[v].fresh = worker[v].fresh /\ worker'[v].newest = FALSE
  /\ wifi_state' = worker[w].value /\ wifi_state' \in WifiState
  /\ monitor' \in MonitorThread /\ monitor'.pc = monitor.pc /\ monitor'.value = monitor.value
  /\ monitor'.path = monitor.path /\ monitor'.fresh = monitor.fresh /\ monitor'.newest = FALSE
  /\ raced' \in BOOLEAN
  /\ ~raced' => /\ ~raced /\ worker[w].newest
                /\ worker[w].fresh =>
                     /\ worker[w].value.ssid \in {NoSsid, nm.path.ssid}
                     /\ worker[w].value.status = Status(nm.phase)
                     /\ worker[w].value.ssid # wifi_state.ssid => ~Choosing(Workers \ {w})

ResyncDoes(w) ==
  /\ Asks(w) \/ Answers(w) \/ Resyncs(w)
  /\ UNCHANGED <<nmVars, connections, queues, callback_queue, userVars, unsaved>>

\* What the three statements of _init_wifi_state do, without EXCEPT.
LEMMA ResyncStepDoes ==
  ASSUME TypeOK, NEW w \in Workers, ResyncStep(w)
  PROVE  ResyncDoes(w)
<1>1. UNCHANGED <<nmVars, connections, queues, callback_queue, userVars, unsaved>>
  BY DEF ResyncStep
<1>2. worker \in [Workers -> WorkerThread] /\ worker[w].value \in WifiState
  BY DEF TypeOK, WorkerThread
<1>3. CASE worker[w].pc = "resync"
  <2> DEFINE value == [ssid |-> NoSsid, status |-> Status(nm.phase)]
             thread == [IdleWorker EXCEPT !.pc = "reply", !.value = value]
  <2>1. worker' = [worker EXCEPT ![w] = thread] /\ UNCHANGED <<wifi_state, monitor, raced>>
    BY <1>3 DEF ResyncStep
  <2>2. value \in WifiState /\ value.ssid = NoSsid /\ value.status = Status(nm.phase)
    BY DEF WifiState, Statuses, Status
  <2> HIDE DEF value
  <2>3. thread \in WorkerThread /\ thread.pc = "reply" /\ thread.value = value
        /\ thread.fresh = TRUE /\ thread.newest = TRUE
    BY <2>2 DEF IdleWorker, WorkerThread
  <2> HIDE DEF thread
  <2>4. Asks(w)
    BY <1>2, <1>3, <2>1, <2>2, <2>3 DEF Asks
  <2> QED
    BY <1>1, <2>4 DEF ResyncDoes
<1>4. CASE worker[w].pc = "reply"
  <2>0. UNCHANGED <<wifi_state, monitor, raced>>
    BY <1>4 DEF ResyncStep
  <2>1. CASE ~worker[w].fresh
    <3>1. GoesOn(w, "idle")
      BY <1>4, <2>1, ContinueDoes DEF ResyncStep, Discarded
    <3>2. Answers(w)
      BY <1>4, <2>0, <2>1, <3>1 DEF Answers, GoesOn
    <3> QED
      BY <1>1, <3>2 DEF ResyncDoes
  <2>2. CASE worker[w].fresh
    <3> DEFINE ssid == ToSsid(nm.path)
    <3>1. worker' = [worker EXCEPT ![w].pc = "assign", ![w].value.ssid = ssid]
      BY <1>4, <2>2 DEF ResyncStep, Discarded
    <3>2. ssid \in Ssids \cup {NoSsid}
      BY NmFacts, PathIsNotNoPath DEF ToSsid
    <3> HIDE DEF ssid
    <3> DEFINE value == [worker[w].value EXCEPT !.ssid = ssid]
    <3>3. value \in WifiState /\ value.ssid = ssid /\ value.status = worker[w].value.status
      BY <1>2, <3>2 DEF WifiState
    <3> DEFINE thread == [worker[w] EXCEPT !.pc = "assign", !.value = value]
    <3>4. worker' = [worker EXCEPT ![w] = thread]
      BY <1>2, <3>1 DEF WorkerThread, WifiState
    <3> HIDE DEF value
    <3>5. thread \in WorkerThread /\ thread.pc = "assign" /\ thread.value = value
          /\ thread.newest = worker[w].newest /\ thread.fresh = TRUE
      BY <1>2, <2>2, <3>3 DEF WorkerThread
    <3> HIDE DEF thread
    <3>6. Answers(w)
      BY <1>2, <1>4, <2>0, <2>2, <3>3, <3>4, <3>5 DEF Answers, ssid
    <3> QED
      BY <1>1, <3>6 DEF ResyncDoes
  <2>3. worker[w].fresh \in BOOLEAN
    BY <1>2 DEF WorkerThread
  <2> QED
    BY <2>1, <2>2, <2>3
<1>5. CASE worker[w].pc = "assign"
  <2>1. /\ wifi_state' = worker[w].value
        /\ raced' = (raced \/ Races(worker[w],
             \/ worker[w].value.ssid # wifi_state.ssid /\ Choosing(Workers \ {w})
             \/ Left(worker[w].value) \/ worker[w].value.status # Status(nm.phase)))
        /\ worker' = [OutdateWorkers(FALSE) EXCEPT ![w] = IdleWorker]
        /\ monitor' = Outdated(monitor, FALSE)
    BY <1>5 DEF ResyncStep
  <2>2. /\ OutdateWorkers(FALSE) \in [Workers -> WorkerThread]
        /\ \A v \in Workers :
             /\ OutdateWorkers(FALSE)[v].pc = worker[v].pc
             /\ OutdateWorkers(FALSE)[v].value = worker[v].value
             /\ OutdateWorkers(FALSE)[v].newest = (worker[v].newest /\ FALSE /\ worker[v].pc # "assign")
             /\ OutdateWorkers(FALSE)[v].fresh = (worker[v].fresh /\ ~FALSE)
    BY OutdateWorkersType DEF TypeOK
  <2>3. /\ worker' \in [Workers -> WorkerThread] /\ worker'[w].pc = "idle"
        /\ \A v \in Workers \ {w} : worker'[v] = OutdateWorkers(FALSE)[v]
    BY <2>1, <2>2, IdleTypes DEF IdleWorker
  <2>4. \A v \in Workers \ {w} : /\ worker'[v].pc = worker[v].pc /\ worker'[v].value = worker[v].value
                                 /\ worker'[v].fresh = worker[v].fresh /\ worker'[v].newest = FALSE
    BY <1>2, <2>2, <2>3 DEF WorkerThread
  <2>5. /\ monitor' \in MonitorThread /\ monitor'.pc = monitor.pc /\ monitor'.value = monitor.value
        /\ monitor'.path = monitor.path /\ monitor'.fresh = (monitor.fresh /\ ~FALSE)
        /\ monitor'.newest = (monitor.newest /\ FALSE /\ monitor.pc # "assign")
    BY <2>1, OutdatedType DEF TypeOK
  <2>6. monitor'.fresh = monitor.fresh /\ monitor'.newest = FALSE
    BY <2>5 DEF TypeOK, MonitorThread
  <2>7. raced' \in BOOLEAN
    BY <2>1, Zenon
  <2>8. ~raced' => /\ ~raced /\ worker[w].newest
                   /\ worker[w].fresh =>
                        /\ worker[w].value.ssid \in {NoSsid, nm.path.ssid}
                        /\ worker[w].value.status = Status(nm.phase)
                        /\ worker[w].value.ssid # wifi_state.ssid => ~Choosing(Workers \ {w})
    BY <2>1 DEF Races, Left
  <2>9. Resyncs(w)
    BY <1>2, <1>5, <2>1, <2>3, <2>4, <2>5, <2>6, <2>7, <2>8 DEF Resyncs
  <2> QED
    BY <1>1, <2>9 DEF ResyncDoes
<1> QED
  BY <1>3, <1>4, <1>5 DEF ResyncStep

\* They keep the types.
LEMMA ResyncDoesType ==
  ASSUME TypeOK, NEW w \in Workers, ResyncDoes(w)
  PROVE  TypeOK'
<1>1. /\ worker' \in [Workers -> WorkerThread]
      /\ \A v \in Workers : worker'[v].pc \in {"delete", "forget", "add", "activate"} =>
                              worker'[v].value.ssid \in Ssids
  BY DEF ResyncDoes, Asks, Answers, Resyncs, TypeOK
<1>2. wifi_state' \in WifiState /\ monitor' \in MonitorThread
  BY DEF ResyncDoes, Asks, Answers, Resyncs, TypeOK
<1>3. raced' \in BOOLEAN
  BY DEF ResyncDoes, Asks, Answers, Resyncs, TypeOK
<1>4. UNCHANGED <<nmVars, connections, queues, callback_queue, userVars, unsaved>>
  BY DEF ResyncDoes
<1> QED
  BY <1>1, <1>2, <1>3, <1>4 DEF TypeOK, nmVars, queues, userVars

\* Every step keeps the types.
LEMMA TypeStep == TypeOK /\ [Next]_vars => TypeOK'
<1> SUFFICES ASSUME TypeOK, [Next]_vars PROVE TypeOK'
  OBVIOUS
<1>1. CASE Nm
  BY <1>1, NmType
<1>2. CASE Monitor
  BY <1>2, ReceiveType, DeliverType, HandleAtOnceType, HandleConnectingType, LookupType, AssignType,
     SaveType DEF Monitor
<1>3. CASE ProcessCallbacks
  BY <1>3 DEF ProcessCallbacks, TypeOK, nmVars, queues, userVars, history
<1>4. ASSUME NEW w \in Workers, WorkerStep(w) PROVE TypeOK'
  BY <1>4, ForgetStepDoes, ForgetDoesType, AddStepDoes, AddDoesType, ActivateStepIs, ActivateStepType,
     ResyncStepDoes, ResyncDoesType DEF WorkerStep
<1>5. ASSUME NEW w \in Workers, User(w) PROVE TypeOK'
  BY <1>5, UserDoes, ChooseDoes, ChoosesType, StartsWorkerDoes, StartsWorkerType
<1>6. CASE UNCHANGED vars
  BY <1>6 DEF TypeOK, vars, nmVars, queues, userVars, history
<1> QED
  BY <1>1, <1>2, <1>3, <1>4, <1>5, <1>6 DEF Next

\* Whatever the numbers of networks, threads and choices, every variable has its type; a thread that
\* carries out a choice or forgets a network has a network (connect_to_network, activate_connection,
\* forget_connection).
THEOREM TypeCorrect == Spec => []TypeOK
<1>1. Init => TypeOK
  BY InitType
<1>2. TypeOK /\ [Next]_vars => TypeOK'
  BY TypeStep
<1> QED
  BY <1>1, <1>2, PTL DEF Spec

-----------------------------------------------------------------------------
(* The state changes that the manager has yet to handle *)

\* The state changes in a sequence of signals, and the last of them.
StatesIn(q) == {q[i] : i \in {j \in DOMAIN q : q[j].kind = "state"}}
LastIn(q) ==
  {q[i] : i \in {j \in DOMAIN q : q[j].kind = "state" /\ \A k \in DOMAIN q : k > j => q[k].kind # "state"}}

\* Those on the bus and those in state_q, which came before.
Sigs  == StatesIn(bus) \cup StatesIn(state_q)
Lasts == IF StatesIn(bus) = {} THEN LastIn(state_q) ELSE LastIn(bus)

\* The last state change of a sequence is one of its state changes.
LEMMA LastIsIn == \A q : LastIn(q) \subseteq StatesIn(q)
BY DEF LastIn, StatesIn

\* An empty sequence has none.
LEMMA EmptyStates == StatesIn(<<>>) = {} /\ LastIn(<<>>) = {}
BY DEF StatesIn, LastIn

\* Taking a signal from the front takes it from the state changes, if it is one.
LEMMA StatesTail ==
  \A q \in Seq(Signals) : q # <<>> =>
    /\ Head(q).kind = "state" => StatesIn(q) = StatesIn(Tail(q)) \cup {Head(q)}
    /\ Head(q).kind # "state" => StatesIn(q) = StatesIn(Tail(q))
<1> SUFFICES ASSUME NEW q \in Seq(Signals), q # <<>>
             PROVE  /\ Head(q).kind = "state" => StatesIn(q) = StatesIn(Tail(q)) \cup {Head(q)}
                    /\ Head(q).kind # "state" => StatesIn(q) = StatesIn(Tail(q))
  OBVIOUS
<1>1. /\ Len(q) \in Nat \ {0} /\ DOMAIN q = 1..Len(q) /\ Head(q) = q[1]
      /\ Tail(q) \in Seq(Signals) /\ Len(Tail(q)) = Len(q) - 1 /\ DOMAIN Tail(q) = 1..(Len(q) - 1)
      /\ \A i \in 1..(Len(q) - 1) : Tail(q)[i] = q[i + 1]
  OBVIOUS
<1>2. StatesIn(Tail(q)) \subseteq StatesIn(q)
  <2> SUFFICES ASSUME NEW i \in 1..(Len(q) - 1), Tail(q)[i].kind = "state" PROVE Tail(q)[i] \in StatesIn(q)
    BY <1>1 DEF StatesIn
  <2>1. i + 1 \in DOMAIN q /\ Tail(q)[i] = q[i + 1]
    BY <1>1
  <2> QED
    BY <2>1 DEF StatesIn
<1>3. \A x \in StatesIn(q) : (x = Head(q) /\ Head(q).kind = "state") \/ x \in StatesIn(Tail(q))
  <2> SUFFICES ASSUME NEW i \in DOMAIN q, q[i].kind = "state"
               PROVE  (q[i] = Head(q) /\ Head(q).kind = "state") \/ q[i] \in StatesIn(Tail(q))
    BY DEF StatesIn
  <2>1. CASE i = 1
    BY <1>1, <2>1
  <2>2. CASE i # 1
    <3>1. i - 1 \in DOMAIN Tail(q) /\ Tail(q)[i - 1] = q[i]
      BY <1>1, <2>2
    <3> QED
      BY <3>1 DEF StatesIn
  <2> QED
    BY <2>1, <2>2
<1>4. Head(q).kind = "state" => Head(q) \in StatesIn(q)
  BY <1>1 DEF StatesIn
<1> QED
  BY <1>2, <1>3, <1>4

\* It is the last one only if none is left; else the last stays the last.
LEMMA LastTail ==
  \A q \in Seq(Signals) : q # <<>> =>
    /\ StatesIn(Tail(q)) # {} => LastIn(q) = LastIn(Tail(q))
    /\ StatesIn(Tail(q)) = {} => LastIn(q) = StatesIn(<<Head(q)>>)
<1> SUFFICES ASSUME NEW q \in Seq(Signals), q # <<>>
             PROVE  /\ StatesIn(Tail(q)) # {} => LastIn(q) = LastIn(Tail(q))
                    /\ StatesIn(Tail(q)) = {} => LastIn(q) = StatesIn(<<Head(q)>>)
  OBVIOUS
<1>1. /\ Len(q) \in Nat \ {0} /\ DOMAIN q = 1..Len(q) /\ Head(q) = q[1]
      /\ Tail(q) \in Seq(Signals) /\ Len(Tail(q)) = Len(q) - 1 /\ DOMAIN Tail(q) = 1..(Len(q) - 1)
      /\ \A i \in 1..(Len(q) - 1) : Tail(q)[i] = q[i + 1]
  OBVIOUS
<1> DEFINE IsLast(r, j) == r[j].kind = "state" /\ \A k \in DOMAIN r : k > j => r[k].kind # "state"
<1>2. ASSUME NEW j \in DOMAIN Tail(q) PROVE IsLast(Tail(q), j) <=> IsLast(q, j + 1)
  <2>1. ASSUME IsLast(Tail(q), j), NEW k \in DOMAIN q, k > j + 1 PROVE q[k].kind # "state"
    <3>1. k - 1 \in DOMAIN Tail(q) /\ k - 1 > j /\ Tail(q)[k - 1] = q[k]
      BY <1>1, <2>1
    <3> QED
      BY <2>1, <3>1
  <2>2. ASSUME IsLast(q, j + 1), NEW k \in DOMAIN Tail(q), k > j PROVE Tail(q)[k].kind # "state"
    <3>1. k + 1 \in DOMAIN q /\ k + 1 > j + 1 /\ Tail(q)[k] = q[k + 1]
      BY <1>1, <2>2
    <3> QED
      BY <2>2, <3>1
  <2>3. Tail(q)[j] = q[j + 1]
    BY <1>1
  <2> QED
    BY <2>1, <2>2, <2>3
<1>3. LastIn(Tail(q)) \subseteq LastIn(q)
  <2> SUFFICES ASSUME NEW j \in DOMAIN Tail(q), IsLast(Tail(q), j) PROVE Tail(q)[j] \in LastIn(q)
    BY DEF LastIn
  <2>1. j + 1 \in DOMAIN q /\ Tail(q)[j] = q[j + 1] /\ IsLast(q, j + 1)
    BY <1>1, <1>2
  <2> QED
    BY <2>1 DEF LastIn
<1>4. ASSUME NEW i \in DOMAIN q, IsLast(q, i), i # 1 PROVE q[i] \in LastIn(Tail(q))
  <2>1. i - 1 \in DOMAIN Tail(q) /\ (i - 1) + 1 = i /\ Tail(q)[i - 1] = q[i]
    BY <1>1, <1>4
  <2>2. IsLast(Tail(q), i - 1)
    BY <1>2, <1>4, <2>1
  <2> QED
    BY <2>1, <2>2 DEF LastIn
<1>5. ASSUME StatesIn(Tail(q)) # {} PROVE ~IsLast(q, 1)
  <2>1. PICK j \in DOMAIN Tail(q) : Tail(q)[j].kind = "state"
    BY <1>5 DEF StatesIn
  <2>2. j + 1 \in DOMAIN q /\ j + 1 > 1 /\ q[j + 1] = Tail(q)[j]
    BY <1>1
  <2> QED
    BY <2>1, <2>2
<1>6. ASSUME StatesIn(Tail(q)) = {}
      PROVE  /\ \A i \in DOMAIN q : q[i].kind = "state" => i = 1
             /\ IsLast(q, 1) <=> q[1].kind = "state"
  <2>1. ASSUME NEW i \in DOMAIN q, q[i].kind = "state", i # 1 PROVE FALSE
    <3>1. i - 1 \in DOMAIN Tail(q) /\ Tail(q)[i - 1] = q[i]
      BY <1>1, <2>1
    <3> QED
      BY <1>6, <2>1, <3>1 DEF StatesIn
  <2> QED
    BY <1>1, <2>1
<1>7. LastIn(q) = {q[i] : i \in {j \in DOMAIN q : IsLast(q, j)}}
  BY DEF LastIn
<1>8. ASSUME StatesIn(Tail(q)) # {} PROVE LastIn(q) = LastIn(Tail(q))
  BY <1>3, <1>4, <1>5, <1>7, <1>8
<1>9. ASSUME StatesIn(Tail(q)) = {} PROVE LastIn(q) = StatesIn(<<Head(q)>>)
  <2>1. StatesIn(<<Head(q)>>) = IF q[1].kind = "state" THEN {q[1]} ELSE {}
    BY <1>1 DEF StatesIn
  <2> QED
    BY <1>1, <1>6, <1>7, <1>9, <2>1
<1> QED
  BY <1>8, <1>9

\* A state change that is appended to a sequence is its last.
LEMMA StatesAppend ==
  \A q \in Seq(Signals) : \A e \in Signals :
    /\ StatesIn(Append(q, e)) = StatesIn(q) \cup StatesIn(<<e>>)
    /\ LastIn(Append(q, e)) = IF e.kind = "state" THEN {e} ELSE LastIn(q)
<1> SUFFICES ASSUME NEW q \in Seq(Signals), NEW e \in Signals
             PROVE  /\ StatesIn(Append(q, e)) = StatesIn(q) \cup StatesIn(<<e>>)
                    /\ LastIn(Append(q, e)) = IF e.kind = "state" THEN {e} ELSE LastIn(q)
  OBVIOUS
<1> DEFINE r == Append(q, e)
           n == Len(q)
<1>1. /\ n \in Nat /\ DOMAIN q = 1..n /\ DOMAIN r = 1..(n + 1)
      /\ r[n + 1] = e /\ \A i \in 1..n : r[i] = q[i]
  OBVIOUS
<1> HIDE DEF r, n
<1>2. StatesIn(<<e>>) = IF e.kind = "state" THEN {e} ELSE {}
  BY DEF StatesIn
<1>3. StatesIn(r) = StatesIn(q) \cup StatesIn(<<e>>)
  <2>1. ASSUME NEW x \in StatesIn(r) PROVE x \in StatesIn(q) \cup StatesIn(<<e>>)
    <3>1. PICK i \in 1..(n + 1) : r[i].kind = "state" /\ x = r[i]
      BY <1>1, <2>1 DEF StatesIn
    <3>2. CASE i = n + 1
      BY <1>1, <1>2, <3>1, <3>2
    <3>3. CASE i # n + 1
      <4>1. i \in DOMAIN q /\ r[i] = q[i]
        BY <1>1, <3>1, <3>3
      <4> QED
        BY <3>1, <4>1 DEF StatesIn
    <3> QED
      BY <3>2, <3>3
  <2>2. ASSUME NEW x \in StatesIn(q) PROVE x \in StatesIn(r)
    <3>1. PICK i \in 1..n : q[i].kind = "state" /\ x = q[i]
      BY <1>1, <2>2 DEF StatesIn
    <3>2. i \in DOMAIN r /\ r[i] = x
      BY <1>1, <3>1
    <3> QED
      BY <3>1, <3>2 DEF StatesIn
  <2>3. ASSUME NEW x \in StatesIn(<<e>>) PROVE x \in StatesIn(r)
    <3>1. n + 1 \in DOMAIN r /\ r[n + 1] = e /\ x = e /\ e.kind = "state"
      BY <1>1, <1>2, <2>3
    <3> QED
      BY <3>1 DEF StatesIn
  <2> QED
    BY <2>1, <2>2, <2>3
<1> DEFINE IsLast(s, j) == s[j].kind = "state" /\ \A k \in DOMAIN s : k > j => s[k].kind # "state"
<1>4. CASE e.kind = "state"
  <2>1. \A j \in DOMAIN r : IsLast(r, j) <=> j = n + 1
    BY <1>1, <1>4
  <2>2. LastIn(r) = {r[i] : i \in {j \in DOMAIN r : IsLast(r, j)}}
    BY DEF LastIn
  <2>3. LastIn(r) = {e}
    BY <1>1, <2>1, <2>2
  <2> QED
    BY <1>3, <1>4, <2>3 DEF r
<1>5. CASE e.kind # "state"
  <2>1. \A j \in 1..n : IsLast(r, j) <=> IsLast(q, j)
    BY <1>1, <1>5
  <2>2. ~IsLast(r, n + 1)
    BY <1>1, <1>5
  <2>3. {j \in DOMAIN r : IsLast(r, j)} = {j \in DOMAIN q : IsLast(q, j)}
    BY <1>1, <2>1, <2>2
  <2>4. /\ LastIn(r) = {r[i] : i \in {j \in DOMAIN r : IsLast(r, j)}}
        /\ LastIn(q) = {q[i] : i \in {j \in DOMAIN q : IsLast(q, j)}}
    BY DEF LastIn
  <2>5. \A i \in {j \in DOMAIN q : IsLast(q, j)} : r[i] = q[i]
    BY <1>1
  <2>6. LastIn(r) = LastIn(q)
    BY <2>3, <2>4, <2>5
  <2> QED
    BY <1>3, <1>5, <2>6 DEF r
<1> QED
  BY <1>4, <1>5

\* The state changes of two sequences one after the other.
LEMMA StatesConcat ==
  \A q \in Seq(Signals) : \A r \in Seq(Signals) :
    /\ StatesIn(q \o r) = StatesIn(q) \cup StatesIn(r)
    /\ StatesIn(r) = {} => LastIn(q \o r) = LastIn(q)
    /\ StatesIn(r) # {} => LastIn(q \o r) = LastIn(r)
<1> SUFFICES ASSUME NEW q \in Seq(Signals), NEW r \in Seq(Signals)
             PROVE  /\ StatesIn(q \o r) = StatesIn(q) \cup StatesIn(r)
                    /\ StatesIn(r) = {} => LastIn(q \o r) = LastIn(q)
                    /\ StatesIn(r) # {} => LastIn(q \o r) = LastIn(r)
  OBVIOUS
<1> DEFINE t == q \o r
           n == Len(q)
           m == Len(r)
<1>1. /\ n \in Nat /\ m \in Nat /\ DOMAIN q = 1..n /\ DOMAIN r = 1..m /\ DOMAIN t = 1..(n + m)
      /\ \A i \in 1..n : t[i] = q[i]
      /\ \A i \in 1..m : t[n + i] = r[i]
  OBVIOUS
<1>2. \A i \in 1..(n + m) : i \in 1..n \/ (i - n \in 1..m /\ t[i] = r[i - n] /\ i = n + (i - n))
  BY <1>1
<1> HIDE DEF t, n, m
<1>3. StatesIn(t) = StatesIn(q) \cup StatesIn(r)
  <2>1. ASSUME NEW x \in StatesIn(t) PROVE x \in StatesIn(q) \cup StatesIn(r)
    <3>1. PICK i \in 1..(n + m) : t[i].kind = "state" /\ x = t[i]
      BY <1>1, <2>1 DEF StatesIn
    <3>2. CASE i \in 1..n
      <4>1. i \in DOMAIN q /\ t[i] = q[i]
        BY <1>1, <3>2
      <4> QED
        BY <3>1, <4>1 DEF StatesIn
    <3>3. CASE i \notin 1..n
      <4>1. i - n \in DOMAIN r /\ t[i] = r[i - n]
        BY <1>1, <1>2, <3>3
      <4> QED
        BY <3>1, <4>1 DEF StatesIn
    <3> QED
      BY <3>2, <3>3
  <2>2. ASSUME NEW x \in StatesIn(q) PROVE x \in StatesIn(t)
    <3>1. PICK i \in 1..n : q[i].kind = "state" /\ x = q[i]
      BY <1>1, <2>2 DEF StatesIn
    <3>2. i \in DOMAIN t /\ t[i] = x
      BY <1>1, <3>1
    <3> QED
      BY <3>1, <3>2 DEF StatesIn
  <2>3. ASSUME NEW x \in StatesIn(r) PROVE x \in StatesIn(t)
    <3>1. PICK i \in 1..m : r[i].kind = "state" /\ x = r[i]
      BY <1>1, <2>3 DEF StatesIn
    <3>2. n + i \in DOMAIN t /\ t[n + i] = x
      BY <1>1, <3>1
    <3> QED
      BY <3>1, <3>2 DEF StatesIn
  <2> QED
    BY <2>1, <2>2, <2>3
<1> DEFINE IsLast(s, j) == s[j].kind = "state" /\ \A k \in DOMAIN s : k > j => s[k].kind # "state"
<1>4. /\ LastIn(t) = {t[i] : i \in {j \in DOMAIN t : IsLast(t, j)}}
      /\ LastIn(q) = {q[i] : i \in {j \in DOMAIN q : IsLast(q, j)}}
      /\ LastIn(r) = {r[i] : i \in {j \in DOMAIN r : IsLast(r, j)}}
  BY DEF LastIn
<1>5. ASSUME StatesIn(r) = {} PROVE LastIn(t) = LastIn(q)
  <2>1. \A i \in 1..m : r[i].kind # "state"
    BY <1>1, <1>5 DEF StatesIn
  <2>2. \A i \in DOMAIN t : i \notin 1..n => t[i].kind # "state"
    BY <1>1, <1>2, <2>1
  <2>3. ASSUME NEW j \in 1..n PROVE IsLast(t, j) <=> IsLast(q, j)
    BY <1>1, <2>2
  <2>4. {j \in DOMAIN t : IsLast(t, j)} = {j \in DOMAIN q : IsLast(q, j)}
    BY <1>1, <2>2, <2>3
  <2>5. \A i \in {j \in DOMAIN q : IsLast(q, j)} : t[i] = q[i]
    BY <1>1
  <2> QED
    BY <1>4, <2>4, <2>5
<1>6. ASSUME StatesIn(r) # {} PROVE LastIn(t) = LastIn(r)
  <2>1. PICK p \in 1..m : r[p].kind = "state"
    BY <1>1, <1>6 DEF StatesIn
  <2>2. ASSUME NEW j \in 1..n PROVE ~IsLast(t, j)
    <3>1. n + p \in DOMAIN t /\ n + p > j /\ t[n + p] = r[p]
      BY <1>1
    <3> QED
      BY <2>1, <3>1
  <2>3. ASSUME NEW j \in 1..m PROVE IsLast(t, n + j) <=> IsLast(r, j)
    <3>1. ASSUME IsLast(t, n + j), NEW k \in 1..m, k > j PROVE r[k].kind # "state"
      <4>1. n + k \in DOMAIN t /\ n + k > n + j /\ t[n + k] = r[k]
        BY <1>1, <3>1
      <4> QED
        BY <3>1, <4>1
    <3>2. ASSUME IsLast(r, j), NEW k \in DOMAIN t, k > n + j PROVE t[k].kind # "state"
      <4>1. k - n \in 1..m /\ k - n > j /\ t[k] = r[k - n]
        BY <1>1, <1>2, <3>2
      <4> QED
        BY <1>1, <3>2, <4>1
    <3>3. t[n + j] = r[j]
      BY <1>1
    <3> QED
      BY <1>1, <3>1, <3>2, <3>3
  <2>4. LastIn(r) \subseteq LastIn(t)
    <3> SUFFICES ASSUME NEW j \in 1..m, IsLast(r, j) PROVE r[j] \in LastIn(t)
      BY <1>1, <1>4
    <3>1. n + j \in DOMAIN t /\ t[n + j] = r[j]
      BY <1>1
    <3>2. IsLast(t, n + j)
      BY <2>3
    <3> QED
      BY <1>4, <3>1, <3>2
  <2>5. LastIn(t) \subseteq LastIn(r)
    <3> SUFFICES ASSUME NEW i \in DOMAIN t, IsLast(t, i) PROVE t[i] \in LastIn(r)
      BY <1>4
    <3>1. i - n \in 1..m /\ t[i] = r[i - n] /\ i = n + (i - n)
      BY <1>1, <1>2, <2>2
    <3>2. IsLast(r, i - n)
      BY <2>3, <3>1
    <3> QED
      BY <1>1, <1>4, <3>1, <3>2
  <2> QED
    BY <2>4, <2>5
<1> QED
  BY <1>3, <1>5, <1>6 DEF t

MarkedLate(x) == [x EXCEPT !.late = TRUE]

\* A state change that is marked as late is still the same state change.
LEMMA MarkedLateType ==
  \A x \in StateSignals :
    /\ MarkedLate(x) \in StateSignals /\ MarkedLate(x).late = TRUE /\ MarkedLate(x).kind = "state"
    /\ MarkedLate(x).state = x.state /\ MarkedLate(x).reason = x.reason /\ MarkedLate(x).of = x.of
BY DEF MarkedLate, StateSignals

\* Marking a sequence as late marks its state changes, each in its place.
LEMMA LateAt ==
  \A q \in Seq(Signals) :
    /\ DOMAIN Late(q) = DOMAIN q
    /\ \A i \in DOMAIN q : Late(q)[i] = IF q[i].kind = "state" THEN MarkedLate(q[i]) ELSE q[i]
BY LateType DEF MarkedLate

\* So the state changes of the sequence are marked, and the last is the last.
LEMMA StatesLate ==
  \A q \in Seq(Signals) :
    /\ StatesIn(Late(q)) = {MarkedLate(x) : x \in StatesIn(q)}
    /\ LastIn(Late(q)) = {MarkedLate(x) : x \in LastIn(q)}
<1> SUFFICES ASSUME NEW q \in Seq(Signals)
             PROVE  /\ StatesIn(Late(q)) = {MarkedLate(x) : x \in StatesIn(q)}
                    /\ LastIn(Late(q)) = {MarkedLate(x) : x \in LastIn(q)}
  OBVIOUS
<1> DEFINE r == Late(q)
<1>1. /\ DOMAIN r = DOMAIN q
      /\ \A i \in DOMAIN q : r[i] = IF q[i].kind = "state" THEN MarkedLate(q[i]) ELSE q[i]
  BY LateAt
<1>2. \A i \in DOMAIN q : q[i] \in Signals
  OBVIOUS
<1> HIDE DEF r
<1>4. \A i \in DOMAIN q : /\ r[i].kind = "state" <=> q[i].kind = "state"
                          /\ q[i].kind = "state" => r[i] = MarkedLate(q[i])
  BY <1>1, <1>2, MarkedLateType, SignalKinds
<1>5. StatesIn(r) = {MarkedLate(x) : x \in StatesIn(q)}
  BY <1>1, <1>4 DEF StatesIn
<1> DEFINE IsLast(s, j) == s[j].kind = "state" /\ \A k \in DOMAIN s : k > j => s[k].kind # "state"
<1>6. /\ LastIn(r) = {r[i] : i \in {j \in DOMAIN r : IsLast(r, j)}}
      /\ LastIn(q) = {q[i] : i \in {j \in DOMAIN q : IsLast(q, j)}}
  BY DEF LastIn
<1>7. {j \in DOMAIN r : IsLast(r, j)} = {j \in DOMAIN q : IsLast(q, j)}
  BY <1>1, <1>4
<1>8. \A i \in {j \in DOMAIN q : IsLast(q, j)} : r[i] = MarkedLate(q[i])
  BY <1>4
<1>9. LastIn(r) = {MarkedLate(x) : x \in LastIn(q)}
  BY <1>6, <1>7, <1>8
<1> QED
  BY <1>5, <1>9 DEF r

\* The pending state changes are state changes, the last among them.
LEMMA StatesType ==
  ASSUME TypeOK
  PROVE  /\ bus \in Seq(Signals) /\ state_q \in Seq(Signals)
         /\ Sigs \subseteq StateSignals /\ Lasts \subseteq Sigs
         /\ StatesIn(state_q) = {} <=> state_q = <<>>
<1>1. bus \in Seq(Signals) /\ state_q \in Seq(StateSignals)
  BY DEF TypeOK, Signals
<1>2. state_q \in Seq(Signals)
  BY <1>1 DEF Signals
<1>3. \A q \in Seq(Signals) : StatesIn(q) \subseteq StateSignals
  BY SignalKinds DEF StatesIn
<1>4. StatesIn(state_q) = {} <=> state_q = <<>>
  <2>1. state_q # <<>> => Head(state_q) \in StateSignals /\ 1 \in DOMAIN state_q /\ state_q[1] = Head(state_q)
    BY <1>1
  <2> QED
    BY <2>1, SignalKinds, EmptyStates DEF StatesIn
<1> QED
  BY <1>1, <1>2, <1>3, <1>4, LastIsIn DEF Sigs, Lasts

\* What a step does to the state changes that are pending: nothing (they may move from the bus to
\* state_q), the monitor thread takes one, they become late, NM adds some.
SignalsKept   == Sigs' = Sigs /\ Lasts' = Lasts
SignalHandled ==
  /\ state_q # <<>> /\ Head(state_q) \in StateSignals
  /\ Sigs = Sigs' \cup {Head(state_q)}
  /\ Sigs' = {} => Lasts' = {} /\ Lasts = {Head(state_q)} /\ state_q' = <<>>
  /\ Sigs' # {} => Lasts' = Lasts
SignalsMarked ==
  Sigs' = {MarkedLate(x) : x \in Sigs} /\ Lasts' = {MarkedLate(x) : x \in Lasts}
Said(extra) ==
  /\ Sigs' = Sigs \cup StatesIn(extra)
  /\ Lasts' = IF StatesIn(extra) = {} THEN Lasts ELSE LastIn(extra)

\* A step that leaves the bus and state_q alone leaves the pending state changes alone.
LEMMA UnchangedSignals ==
  ASSUME UNCHANGED <<bus, state_q>>
  PROVE  SignalsKept
BY DEF SignalsKept, Sigs, Lasts

\* recv_messages moves a state change from the bus to state_q.
LEMMA ReceivedSignals ==
  ASSUME TypeOK, Receive, state_q = <<>>
  PROVE  SignalsKept
<1>1. CASE bus # <<>>
  <2>1. bus' = Tail(bus) /\ Head(bus) \in Signals /\ bus \in Seq(Signals)
        /\ state_q' = IF Head(bus).kind = "state" THEN <<Head(bus)>> ELSE <<>>
    BY <1>1, HeadType, StatesType DEF Receive
  <2>2. /\ Head(bus).kind = "state" => StatesIn(bus) = StatesIn(bus') \cup {Head(bus)}
        /\ Head(bus).kind # "state" => StatesIn(bus) = StatesIn(bus')
    BY <1>1, <2>1, StatesTail
  <2>3. /\ StatesIn(bus') # {} => LastIn(bus) = LastIn(bus')
        /\ StatesIn(bus') = {} => LastIn(bus) = StatesIn(<<Head(bus)>>)
    BY <1>1, <2>1, LastTail
  <2>4. /\ Head(bus).kind = "state" => StatesIn(<<Head(bus)>>) = {Head(bus)} /\ LastIn(<<Head(bus)>>) = {Head(bus)}
        /\ Head(bus).kind # "state" => StatesIn(<<Head(bus)>>) = {}
    BY DEF StatesIn, LastIn
  <2>5. CASE Head(bus).kind = "state"
    <3>1. StatesIn(state_q') = {Head(bus)} /\ LastIn(state_q') = {Head(bus)} /\ StatesIn(bus) # {}
      BY <2>1, <2>2, <2>4, <2>5
    <3> QED
      BY <2>2, <2>3, <2>4, <2>5, <3>1, EmptyStates DEF SignalsKept, Sigs, Lasts
  <2>6. CASE Head(bus).kind # "state"
    <3>1. StatesIn(state_q') = {} /\ LastIn(state_q') = {}
      BY <2>1, <2>6, EmptyStates
    <3> QED
      BY <2>2, <2>3, <2>4, <2>6, <3>1, EmptyStates DEF SignalsKept, Sigs, Lasts
  <2> QED
    BY <2>5, <2>6
<1>2. CASE bus = <<>>
  BY <1>2, UnchangedSignals DEF Receive
<1> QED
  BY <1>1, <1>2

\* So does the monitor thread while it waits for a reply.
LEMMA DeliveredSignals ==
  ASSUME TypeOK, Deliver
  PROVE  SignalsKept
<1>1. bus # <<>> /\ bus' = Tail(bus) /\ Head(bus) \in Signals /\ bus \in Seq(Signals)
      /\ state_q' = IF Head(bus).kind = "state" THEN Append(state_q, Head(bus)) ELSE state_q
  BY HeadType, StatesType DEF Deliver
<1>2. /\ Head(bus).kind = "state" => StatesIn(bus) = StatesIn(bus') \cup {Head(bus)}
      /\ Head(bus).kind # "state" => StatesIn(bus) = StatesIn(bus')
  BY <1>1, StatesTail
<1>3. /\ StatesIn(bus') # {} => LastIn(bus) = LastIn(bus')
      /\ StatesIn(bus') = {} => LastIn(bus) = StatesIn(<<Head(bus)>>)
  BY <1>1, LastTail
<1>4. /\ Head(bus).kind = "state" => StatesIn(<<Head(bus)>>) = {Head(bus)}
      /\ Head(bus).kind # "state" => StatesIn(<<Head(bus)>>) = {}
  BY DEF StatesIn
<1>5. CASE Head(bus).kind = "state"
  <2>1. StatesIn(state_q') = StatesIn(state_q) \cup {Head(bus)} /\ LastIn(state_q') = {Head(bus)}
    BY <1>1, <1>4, <1>5, StatesAppend, StatesType
  <2> QED
    BY <1>2, <1>3, <1>4, <1>5, <2>1 DEF SignalsKept, Sigs, Lasts
<1>6. CASE Head(bus).kind # "state"
  <2>1. state_q' = state_q
    BY <1>1, <1>6
  <2> QED
    BY <1>2, <1>3, <1>4, <1>6, <2>1 DEF SignalsKept, Sigs, Lasts
<1> QED
  BY <1>5, <1>6

\* Taking a state change from state_q takes it from the pending ones; the last is then last of all.
LEMMA HandledSignal ==
  ASSUME TypeOK, state_q # <<>>, state_q' = Tail(state_q), bus' = bus
  PROVE  SignalHandled
<1>1. /\ state_q \in Seq(Signals) /\ Head(state_q) \in StateSignals /\ Head(state_q).kind = "state"
      /\ state_q' \in Seq(StateSignals)
  BY HeadType, SignalKinds, StatesType
<1>2. StatesIn(state_q) = StatesIn(state_q') \cup {Head(state_q)}
  BY <1>1, StatesTail
<1>3. /\ StatesIn(state_q') # {} => LastIn(state_q) = LastIn(state_q')
      /\ StatesIn(state_q') = {} => LastIn(state_q) = {Head(state_q)}
  <2>1. StatesIn(<<Head(state_q)>>) = {Head(state_q)}
    BY <1>1 DEF StatesIn
  <2> QED
    BY <1>1, <2>1, LastTail
<1>4. StatesIn(state_q') = {} => state_q' = <<>>
  <2>1. state_q' # <<>> => Head(state_q') \in StateSignals /\ 1 \in DOMAIN state_q' /\ state_q'[1] = Head(state_q')
    BY <1>1
  <2> QED
    BY <2>1, SignalKinds DEF StatesIn
<1>5. Sigs' = StatesIn(bus) \cup StatesIn(state_q')
      /\ Lasts' = IF StatesIn(bus) = {} THEN LastIn(state_q') ELSE LastIn(bus)
  BY DEF Sigs, Lasts
<1>6. state_q' = <<>> => LastIn(state_q') = {}
  BY EmptyStates
<1> QED
  BY <1>1, <1>2, <1>3, <1>4, <1>5, <1>6 DEF SignalHandled, Sigs, Lasts

\* A choice marks the pending state changes as late.
LEMMA MarkedSignals ==
  ASSUME TypeOK, bus' = Late(bus), state_q' = Late(state_q)
  PROVE  SignalsMarked
<1>1. /\ StatesIn(bus') = {MarkedLate(x) : x \in StatesIn(bus)}
      /\ LastIn(bus') = {MarkedLate(x) : x \in LastIn(bus)}
      /\ StatesIn(state_q') = {MarkedLate(x) : x \in StatesIn(state_q)}
      /\ LastIn(state_q') = {MarkedLate(x) : x \in LastIn(state_q)}
  BY StatesLate, StatesType
<1> QED
  BY <1>1 DEF SignalsMarked, Sigs, Lasts

\* What NM adds to the bus comes after what is pending.
LEMMA SaidSignals ==
  ASSUME TypeOK, NEW extra \in Seq(Signals), bus' = bus \o extra, state_q' = state_q
  PROVE  Said(extra)
<1>1. /\ StatesIn(bus') = StatesIn(bus) \cup StatesIn(extra)
      /\ StatesIn(extra) = {} => LastIn(bus') = LastIn(bus)
      /\ StatesIn(extra) # {} => LastIn(bus') = LastIn(extra)
  BY StatesConcat, StatesType
<1> QED
  BY <1>1 DEF Said, Sigs, Lasts

-----------------------------------------------------------------------------
(* The connections that come and go *)

\* The paths that a sequence of signals announces to be removed or added.
PathsIn(kind, q) == {q[i].path : i \in {j \in DOMAIN q : q[j].kind = kind}}

Removals  == PathsIn("removed", bus)
Additions == PathsIn("added", bus)

\* The connections that a sequence of signals announces are paths.
LEMMA PathsInType ==
  \A q \in Seq(Signals) : /\ PathsIn("removed", q) \subseteq Paths /\ PathsIn("added", q) \subseteq Paths
BY SignalKinds DEF PathsIn

\* Taking a signal from the front takes its connection from those that are announced.
LEMMA PathsTail ==
  \A q \in Seq(Signals) : q # <<>> => \A kind \in {"removed", "added"} :
    /\ Head(q).kind = kind => PathsIn(kind, q) = PathsIn(kind, Tail(q)) \cup {Head(q).path}
    /\ Head(q).kind # kind => PathsIn(kind, q) = PathsIn(kind, Tail(q))
<1> SUFFICES ASSUME NEW q \in Seq(Signals), q # <<>>, NEW kind \in {"removed", "added"}
             PROVE  /\ Head(q).kind = kind => PathsIn(kind, q) = PathsIn(kind, Tail(q)) \cup {Head(q).path}
                    /\ Head(q).kind # kind => PathsIn(kind, q) = PathsIn(kind, Tail(q))
  OBVIOUS
<1>1. /\ Len(q) \in Nat \ {0} /\ DOMAIN q = 1..Len(q) /\ Head(q) = q[1]
      /\ Tail(q) \in Seq(Signals) /\ Len(Tail(q)) = Len(q) - 1 /\ DOMAIN Tail(q) = 1..(Len(q) - 1)
      /\ \A i \in 1..(Len(q) - 1) : Tail(q)[i] = q[i + 1]
  OBVIOUS
<1>2. PathsIn(kind, Tail(q)) \subseteq PathsIn(kind, q)
  <2> SUFFICES ASSUME NEW i \in 1..(Len(q) - 1), Tail(q)[i].kind = kind PROVE Tail(q)[i].path \in PathsIn(kind, q)
    BY <1>1 DEF PathsIn
  <2>1. i + 1 \in DOMAIN q /\ Tail(q)[i] = q[i + 1]
    BY <1>1
  <2> QED
    BY <2>1 DEF PathsIn
<1>3. \A x \in PathsIn(kind, q) : (x = Head(q).path /\ Head(q).kind = kind) \/ x \in PathsIn(kind, Tail(q))
  <2> SUFFICES ASSUME NEW i \in DOMAIN q, q[i].kind = kind
               PROVE  (q[i].path = Head(q).path /\ Head(q).kind = kind) \/ q[i].path \in PathsIn(kind, Tail(q))
    BY DEF PathsIn
  <2>1. CASE i = 1
    BY <1>1, <2>1
  <2>2. CASE i # 1
    <3>1. i - 1 \in DOMAIN Tail(q) /\ Tail(q)[i - 1] = q[i]
      BY <1>1, <2>2
    <3> QED
      BY <3>1 DEF PathsIn
  <2> QED
    BY <2>1, <2>2
<1>4. Head(q).kind = kind => Head(q).path \in PathsIn(kind, q)
  BY <1>1 DEF PathsIn
<1> QED
  BY <1>2, <1>3, <1>4

\* Two sequences announce what the one and the other announce.
LEMMA PathsConcat ==
  \A q \in Seq(Signals) : \A r \in Seq(Signals) : \A kind \in {"removed", "added"} :
    PathsIn(kind, q \o r) = PathsIn(kind, q) \cup PathsIn(kind, r)
<1> SUFFICES ASSUME NEW q \in Seq(Signals), NEW r \in Seq(Signals), NEW kind \in {"removed", "added"}
             PROVE  PathsIn(kind, q \o r) = PathsIn(kind, q) \cup PathsIn(kind, r)
  OBVIOUS
<1> DEFINE t == q \o r
           n == Len(q)
           m == Len(r)
<1>1. /\ n \in Nat /\ m \in Nat /\ DOMAIN q = 1..n /\ DOMAIN r = 1..m /\ DOMAIN t = 1..(n + m)
      /\ \A i \in 1..n : t[i] = q[i]
      /\ \A i \in 1..m : t[n + i] = r[i]
  OBVIOUS
<1>2. \A i \in 1..(n + m) : i \in 1..n \/ (i - n \in 1..m /\ t[i] = r[i - n] /\ i = n + (i - n))
  BY <1>1
<1> HIDE DEF t, n, m
<1>3. ASSUME NEW x \in PathsIn(kind, t) PROVE x \in PathsIn(kind, q) \cup PathsIn(kind, r)
  <2>1. PICK i \in 1..(n + m) : t[i].kind = kind /\ x = t[i].path
    BY <1>1, <1>3 DEF PathsIn
  <2>2. CASE i \in 1..n
    <3>1. i \in DOMAIN q /\ t[i] = q[i]
      BY <1>1, <2>2
    <3> QED
      BY <2>1, <3>1 DEF PathsIn
  <2>3. CASE i \notin 1..n
    <3>1. i - n \in DOMAIN r /\ t[i] = r[i - n]
      BY <1>1, <1>2, <2>3
    <3> QED
      BY <2>1, <3>1 DEF PathsIn
  <2> QED
    BY <2>2, <2>3
<1>4. ASSUME NEW x \in PathsIn(kind, q) PROVE x \in PathsIn(kind, t)
  <2>1. PICK i \in 1..n : q[i].kind = kind /\ x = q[i].path
    BY <1>1, <1>4 DEF PathsIn
  <2>2. i \in DOMAIN t /\ t[i] = q[i]
    BY <1>1
  <2> QED
    BY <2>1, <2>2 DEF PathsIn
<1>5. ASSUME NEW x \in PathsIn(kind, r) PROVE x \in PathsIn(kind, t)
  <2>1. PICK i \in 1..m : r[i].kind = kind /\ x = r[i].path
    BY <1>1, <1>5 DEF PathsIn
  <2>2. n + i \in DOMAIN t /\ t[n + i] = r[i]
    BY <1>1
  <2> QED
    BY <2>1, <2>2 DEF PathsIn
<1> QED
  BY <1>3, <1>4, <1>5 DEF t

\* Marking a sequence as late leaves the connections that it announces.
LEMMA PathsLate ==
  \A q \in Seq(Signals) : \A kind \in {"removed", "added"} : PathsIn(kind, Late(q)) = PathsIn(kind, q)
<1> SUFFICES ASSUME NEW q \in Seq(Signals), NEW kind \in {"removed", "added"}
             PROVE  PathsIn(kind, Late(q)) = PathsIn(kind, q)
  OBVIOUS
<1> DEFINE r == Late(q)
<1>1. /\ DOMAIN r = DOMAIN q
      /\ \A i \in DOMAIN q : r[i] = IF q[i].kind = "state" THEN MarkedLate(q[i]) ELSE q[i]
  BY LateAt
<1>2. \A i \in DOMAIN q : q[i] \in Signals
  OBVIOUS
<1> HIDE DEF r
<1>3. \A i \in DOMAIN q : /\ r[i].kind = kind <=> q[i].kind = kind
                          /\ q[i].kind = kind => r[i] = q[i]
  BY <1>1, <1>2, MarkedLateType, SignalKinds
<1> QED
  BY <1>1, <1>3 DEF PathsIn, r

\* What a step does to the connections on their way to the monitor thread: those that a sequence of
\* signals announces are added.
Announced(extra) ==
  /\ Removals' = Removals \cup PathsIn("removed", extra)
  /\ Additions' = Additions \cup PathsIn("added", extra)

\* What NM adds to the bus adds its connections to those on their way.
LEMMA SaidPaths ==
  ASSUME TypeOK, NEW extra \in Seq(Signals), bus' = bus \o extra
  PROVE  Announced(extra)
<1>1. /\ PathsIn("removed", bus') = Removals \cup PathsIn("removed", extra)
      /\ PathsIn("added", bus') = Additions \cup PathsIn("added", extra)
  BY PathsConcat, StatesType DEF Removals, Additions
<1> QED
  BY <1>1 DEF Announced, Removals, Additions

-----------------------------------------------------------------------------
(* The steps of NetworkManager by itself *)

\* NM waits for the manager.
NmQuietly ==
  /\ bus = <<>> /\ state_q = <<>> /\ Sigs = {} /\ Removals = {} /\ Additions = {}
  /\ monitor.pc \notin {"lookup", "save"} /\ \A w \in Workers : worker[w].pc # "assign"
  /\ UNCHANGED <<paths, wifi_state, connections, queues, monitor, worker, callback_queue, userVars,
                 history>>

\* It goes on to phase, and says state.
NmGoesOn(phase, path, state) ==
  /\ NmQuietly /\ nm'.phase = phase /\ nm'.path = path /\ path \in Paths
  /\ \E x \in StateSignals :
       /\ x.state = state /\ x.reason = "NONE" /\ x.of = path.ssid /\ Sigs' = {x} /\ Lasts' = {x}
  /\ Removals' = {} /\ Additions' = {} /\ bus' # <<>>
  /\ UNCHANGED <<nmConnections, volatile>>

\* The device is disconnected: for a wrong password, or because the network is lost.
NmEnds ==
  /\ NmQuietly /\ nm.phase \in {"config", "activated"}
  /\ nm'.phase = "disconnected" /\ nm'.path = NoPath
  /\ \A x \in Sigs' : /\ x.of = nm.path.ssid /\ x.late = Choosing(Workers)
                      /\ x.reason \in {"NONE", "SUPPLICANT_DISCONNECT", "NO_SECRETS"}
                      /\ x.state \in {"NEED_AUTH", "FAILED", "DISCONNECTED"}
  /\ \E x \in Sigs' : Lasts' = {x} /\ x.state = "DISCONNECTED" /\ x.reason = "NONE"
  /\ Removals' \subseteq Dropped /\ Additions' = {}
  /\ nmConnections' = nmConnections \ Dropped /\ volatile' = volatile \ Dropped

NmDoes ==
  \/ ~Working /\ \E path \in nmConnections : NmGoesOn("prepare", path, "PREPARE")
  \/ nm.phase = "prepare" /\ NmGoesOn("config", nm.path, "PREPARE")
  \/ nm.phase = "config" /\ NmGoesOn("activated", nm.path, "ACTIVATED")
  \/ NmEnds

\* When NM makes a step by itself, nothing is pending and nobody waits for its reply.
LEMMA NmMovesDoes ==
  ASSUME TypeOK, NEW phase, NEW path, NEW signals \in Seq(Signals), NmMoves(phase, path, signals)
  PROVE  /\ NmQuietly /\ nm'.phase = phase /\ nm'.path = path /\ bus' = signals
         /\ Sigs' = StatesIn(signals) /\ Lasts' = LastIn(signals)
         /\ Removals' = PathsIn("removed", signals) /\ Additions' = PathsIn("added", signals)
<1>1. bus = <<>> /\ state_q = <<>> /\ bus' = signals /\ state_q' = <<>>
  BY DEF NmMoves, queues
<1>2. Sigs = {} /\ Removals = {} /\ Additions = {}
  BY <1>1, EmptyStates DEF Sigs, Removals, Additions, PathsIn
<1>3. NmQuietly /\ nm'.phase = phase /\ nm'.path = path
  BY <1>1, <1>2 DEF NmQuietly, NmMoves
<1>4. Sigs' = StatesIn(signals) /\ Lasts' = LastIn(signals)
  BY <1>1, EmptyStates, LastIsIn DEF Sigs, Lasts
<1>5. Removals' = PathsIn("removed", signals) /\ Additions' = PathsIn("added", signals)
  BY <1>1 DEF Removals, Additions
<1> QED
  BY <1>1, <1>3, <1>4, <1>5

\* NM that goes on by itself says one thing.
LEMMA NmGoesOnDoes ==
  ASSUME TypeOK, NEW phase, NEW path \in Paths, NEW state \in {"PREPARE", "ACTIVATED"},
         NmMoves(phase, path, <<Signal(state, "NONE", path.ssid)>>), UNCHANGED <<nmConnections, volatile>>
  PROVE  NmGoesOn(phase, path, state)
<1> DEFINE x == Signal(state, "NONE", path.ssid)
<1>1. x \in StateSignals /\ x.kind = "state" /\ x.state = state /\ x.reason = "NONE" /\ x.of = path.ssid
      /\ x \in Signals
  BY SignalType, ChoosingType, PathIsNotNoPath DEF Signal
<1> HIDE DEF x
<1> DEFINE signals == <<x>>
<1>2. signals \in Seq(Signals) /\ NmMoves(phase, path, signals)
  BY <1>1 DEF x
<1>3. StatesIn(signals) = {x} /\ LastIn(signals) = {x}
  BY <1>1 DEF StatesIn, LastIn
<1>4. PathsIn("removed", signals) = {} /\ PathsIn("added", signals) = {} /\ signals # <<>>
  BY <1>1 DEF PathsIn
<1> HIDE DEF signals
<1> QED
  BY <1>1, <1>2, <1>3, <1>4, NmMovesDoes DEF NmGoesOn

\* NM that fails by itself says that the device is disconnected, last of all.
LEMMA NmFailsDoes ==
  ASSUME TypeOK, NEW reasons \in Seq(Signals), NmFails(reasons), nm.phase \in {"config", "activated"},
         PathsIn("removed", reasons) = {}, PathsIn("added", reasons) = {},
         \A x \in StatesIn(reasons) :
           /\ x.of = nm.path.ssid /\ x.late = Choosing(Workers)
           /\ x.reason \in {"SUPPLICANT_DISCONNECT", "NO_SECRETS"} /\ x.state \in {"NEED_AUTH", "FAILED"}
  PROVE  NmEnds
<1> DEFINE d == Signal("DISCONNECTED", "NONE", nm.path.ssid)
           disconnected == <<d>>
           signals == reasons \o disconnected \o DroppedSignal
<1>1. nm.path \in Paths /\ nm.path.ssid \in Ssids
  BY NmFacts DEF Working
<1>2. d \in Signals /\ d.kind = "state" /\ d.of = nm.path.ssid /\ d.late = Choosing(Workers)
      /\ d.reason = "NONE" /\ d.state = "DISCONNECTED"
  BY <1>1, SignalType, ChoosingType DEF Signal
<1> HIDE DEF d
<1>3. StatesIn(disconnected) = {d} /\ LastIn(disconnected) = {d}
      /\ PathsIn("removed", disconnected) = {} /\ PathsIn("added", disconnected) = {}
      /\ disconnected \in Seq(Signals)
  BY <1>2 DEF StatesIn, LastIn, PathsIn
<1>4. /\ DroppedSignal \in Seq(Signals) /\ StatesIn(DroppedSignal) = {}
      /\ PathsIn("removed", DroppedSignal) \subseteq Dropped /\ PathsIn("added", DroppedSignal) = {}
  <2> DEFINE r == Removed(nm.path)
  <2>1. r \in Signals /\ r.kind = "removed" /\ r.path = nm.path
    BY <1>1, PathSignalType, SignalKinds
  <2>2. DroppedSignal = IF nm.path \in volatile THEN <<r>> ELSE <<>>
    BY DEF DroppedSignal
  <2> HIDE DEF r
  <2>3. CASE nm.path \in volatile
    BY <2>1, <2>2, <2>3 DEF StatesIn, PathsIn, Dropped
  <2>4. CASE nm.path \notin volatile
    BY <2>1, <2>2, <2>4 DEF StatesIn, PathsIn, Dropped
  <2> QED
    BY <2>3, <2>4
<1>5. NmMoves("disconnected", NoPath, signals)
  BY DEF NmFails, d
<1> DEFINE most == reasons \o disconnected
<1>6. /\ most \in Seq(Signals) /\ StatesIn(most) = StatesIn(reasons) \cup {d} /\ LastIn(most) = {d}
      /\ PathsIn("removed", most) = {} /\ PathsIn("added", most) = {}
  <2>1. most \in Seq(Signals)
    BY <1>3
  <2>2. StatesIn(most) = StatesIn(reasons) \cup {d} /\ LastIn(most) = {d}
    BY <1>3, StatesConcat
  <2>3. PathsIn("removed", most) = {} /\ PathsIn("added", most) = {}
    BY <1>3, PathsConcat
  <2> QED
    BY <2>1, <2>2, <2>3
<1> HIDE DEF disconnected, most
<1>7. /\ signals \in Seq(Signals) /\ StatesIn(signals) = StatesIn(reasons) \cup {d} /\ LastIn(signals) = {d}
      /\ PathsIn("removed", signals) \subseteq Dropped /\ PathsIn("added", signals) = {}
  <2>0. signals = most \o DroppedSignal
    BY DEF most
  <2>1. signals \in Seq(Signals)
    BY <1>4, <1>6, <2>0
  <2>2. StatesIn(signals) = StatesIn(reasons) \cup {d} /\ LastIn(signals) = {d}
    BY <1>4, <1>6, <2>0, StatesConcat
  <2>3. /\ PathsIn("removed", most \o DroppedSignal) = PathsIn("removed", most) \cup PathsIn("removed", DroppedSignal)
        /\ PathsIn("added", most \o DroppedSignal) = PathsIn("added", most) \cup PathsIn("added", DroppedSignal)
    BY <1>4, <1>6, PathsConcat
  <2>4. PathsIn("removed", signals) \subseteq Dropped /\ PathsIn("added", signals) = {}
    BY <1>4, <1>6, <2>0, <2>3
  <2> QED
    BY <2>1, <2>2, <2>4
<1> HIDE DEF signals
<1>8. /\ NmQuietly /\ nm'.phase = "disconnected" /\ nm'.path = NoPath
      /\ Sigs' = StatesIn(reasons) \cup {d} /\ Lasts' = {d}
      /\ Removals' \subseteq Dropped /\ Additions' = {}
  BY <1>5, <1>7, NmMovesDoes
<1>9. nmConnections' = nmConnections \ Dropped /\ volatile' = volatile \ Dropped
  BY DEF NmFails
<1> QED
  BY <1>2, <1>8, <1>9 DEF NmEnds

\* A step of NM by itself goes on to the next phase of a connection, or ends it.
LEMMA NmStepDoes ==
  ASSUME TypeOK, Nm
  PROVE  NmDoes
<1>1. CASE NmConfig
  <2>1. nm.path \in Paths
    BY <1>1, NmFacts DEF NmConfig, Working
  <2>2. NmGoesOn("config", nm.path, "PREPARE")
    BY <1>1, <2>1, NmGoesOnDoes DEF NmConfig
  <2> QED
    BY <1>1, <2>2 DEF NmDoes, NmConfig
<1>2. CASE NmActivated
  <2>1. nm.path \in Paths
    BY <1>2, NmFacts DEF NmActivated, Working
  <2>2. NmGoesOn("activated", nm.path, "ACTIVATED")
    BY <1>2, <2>1, NmGoesOnDoes DEF NmActivated
  <2> QED
    BY <1>2, <2>2 DEF NmDoes, NmActivated
<1>3. CASE NmAutoconnect
  <2>1. PICK path \in nmConnections : NmMoves("prepare", path, <<Signal("PREPARE", "NONE", path.ssid)>>)
    BY <1>3 DEF NmAutoconnect
  <2>2. path \in Paths
    BY DEF TypeOK
  <2>3. NmGoesOn("prepare", path, "PREPARE")
    BY <1>3, <2>1, <2>2, NmGoesOnDoes DEF NmAutoconnect
  <2> QED
    BY <1>3, <2>3 DEF NmDoes, NmAutoconnect
<1>4. CASE NmWrongPassword
  <2> DEFINE n == Signal("NEED_AUTH", "SUPPLICANT_DISCONNECT", nm.path.ssid)
             f == Signal("FAILED", "NO_SECRETS", nm.path.ssid)
  <2>1. nm.phase \in {"config", "activated"} /\ nm.path.ssid \in Ssids
    BY <1>4, NmFacts DEF NmWrongPassword, Working
  <2>2. /\ n \in Signals /\ n.kind = "state" /\ n.of = nm.path.ssid /\ n.late = Choosing(Workers)
        /\ n.state = "NEED_AUTH" /\ n.reason = "SUPPLICANT_DISCONNECT"
    BY <2>1, SignalType, ChoosingType DEF Signal
  <2>3. /\ f \in Signals /\ f.kind = "state" /\ f.of = nm.path.ssid /\ f.late = Choosing(Workers)
        /\ f.state = "FAILED" /\ f.reason = "NO_SECRETS"
    BY <2>1, SignalType, ChoosingType DEF Signal
  <2>4. NmFails(<<n, f>>) \/ NmFails(<<f>>)
    BY <1>4 DEF NmWrongPassword
  <2> HIDE DEF n, f
  <2>5. /\ <<n, f>> \in Seq(Signals) /\ StatesIn(<<n, f>>) = {n, f}
        /\ PathsIn("removed", <<n, f>>) = {} /\ PathsIn("added", <<n, f>>) = {}
    BY <2>2, <2>3 DEF StatesIn, PathsIn
  <2>6. /\ <<f>> \in Seq(Signals) /\ StatesIn(<<f>>) = {f}
        /\ PathsIn("removed", <<f>>) = {} /\ PathsIn("added", <<f>>) = {}
    BY <2>3 DEF StatesIn, PathsIn
  <2>7. CASE NmFails(<<n, f>>)
    <3> DEFINE reasons == <<n, f>>
    <3>1. /\ reasons \in Seq(Signals) /\ NmFails(reasons) /\ PathsIn("removed", reasons) = {}
          /\ PathsIn("added", reasons) = {} /\ StatesIn(reasons) = {n, f}
      BY <2>5, <2>7
    <3> HIDE DEF reasons
    <3> QED
      BY <2>1, <2>2, <2>3, <3>1, NmFailsDoes DEF NmDoes
  <2>8. CASE NmFails(<<f>>)
    <3> DEFINE reasons == <<f>>
    <3>1. /\ reasons \in Seq(Signals) /\ NmFails(reasons) /\ PathsIn("removed", reasons) = {}
          /\ PathsIn("added", reasons) = {} /\ StatesIn(reasons) = {f}
      BY <2>6, <2>8
    <3> HIDE DEF reasons
    <3> QED
      BY <2>1, <2>3, <3>1, NmFailsDoes DEF NmDoes
  <2> QED
    BY <2>4, <2>7, <2>8
<1>5. CASE NmLost
  <2>1. PathsIn("removed", <<>>) = {} /\ PathsIn("added", <<>>) = {} /\ <<>> \in Seq(Signals)
    BY DEF PathsIn
  <2> QED
    BY <1>5, <2>1, EmptyStates, NmFailsDoes DEF NmLost, NmDoes
<1> QED
  BY <1>1, <1>2, <1>3, <1>4, <1>5 DEF Nm

-----------------------------------------------------------------------------
(* The steps of NetworkManager that a worker asks for *)

\* A state change at the end of a sequence is its last.
LEMMA LastAtEnd ==
  \A q \in Seq(Signals) : q # <<>> /\ q[Len(q)].kind = "state" =>
    LastIn(q) = {q[Len(q)]} /\ q[Len(q)] \in StatesIn(q)
<1> SUFFICES ASSUME NEW q \in Seq(Signals), q # <<>>, q[Len(q)].kind = "state"
             PROVE  LastIn(q) = {q[Len(q)]} /\ q[Len(q)] \in StatesIn(q)
  OBVIOUS
<1>1. Len(q) \in Nat \ {0} /\ DOMAIN q = 1..Len(q)
  OBVIOUS
<1> DEFINE IsLast(j) == q[j].kind = "state" /\ \A k \in DOMAIN q : k > j => q[k].kind # "state"
<1>2. \A j \in DOMAIN q : IsLast(j) <=> j = Len(q)
  BY <1>1
<1>3. LastIn(q) = {q[i] : i \in {j \in DOMAIN q : IsLast(j)}}
  BY DEF LastIn
<1>4. LastIn(q) = {q[Len(q)]}
  BY <1>1, <1>2, <1>3
<1> QED
  BY <1>1, <1>4 DEF StatesIn

\* NM connects to path, which a worker has added or not; gone is a volatile connection it was on.
Begins(path, gone, new) ==
  /\ gone \subseteq {nm.path} \ {path} /\ gone \subseteq volatile
  /\ nm'.phase = "prepare" /\ nm'.path = path
  /\ volatile' = (volatile \ gone) \cup (IF new THEN {path} ELSE {})
  /\ nmConnections' = (nmConnections \ gone) \cup {path}
  /\ Sigs \subseteq Sigs'
  /\ \A x \in Sigs' \ Sigs : /\ x.state \in {"PREPARE", "DISCONNECTED", "NEED_AUTH"}
                             /\ x.reason \in {"NONE", "NEW_ACTIVATION", "interrupted"}
  /\ \E x \in Sigs' : x.state = "PREPARE" /\ Lasts' = {x}
  /\ Removals \subseteq Removals' /\ Removals' \subseteq Removals \cup gone
  /\ Additions' = Additions \cup (IF new THEN {path} ELSE {})
  /\ bus' # <<>>
  /\ \E extra \in Seq(Signals) :
       bus' = bus \o extra /\ \A x \in StatesIn(extra) : x.state \in {"PREPARE", "DISCONNECTED", "NEED_AUTH"}
                                                       /\ x.reason \in {"NONE", "NEW_ACTIVATION", "interrupted"}

\* NM that is told to connect says PREPARE last of all.
LEMMA ActivatesBegins ==
  ASSUME TypeOK, NEW path \in Paths, NEW gone \in SUBSET Paths, NEW extra \in Seq(Signals),
         NEW new \in BOOLEAN, Activates(path, gone, extra, new), state_q' = state_q
  PROVE  Begins(path, gone, new)
<1> DEFINE P == ActivationSignals(path, gone, new)
<1>1. /\ gone \subseteq {nm.path} \ {path} /\ gone \subseteq volatile
      /\ extra \in Seq(P) /\ bus' = bus \o extra /\ extra # <<>>
      /\ extra[Len(extra)].kind = "state" /\ extra[Len(extra)].state = "PREPARE"
      /\ new => extra[1] = Added(path)
      /\ nm'.phase = "prepare" /\ nm'.path = path
      /\ volatile' = (volatile \ gone) \cup (IF new THEN {path} ELSE {})
      /\ nmConnections' = (nmConnections \ gone) \cup {path}
  BY DEF Activates
<1>2. Said(extra) /\ Announced(extra)
  BY <1>1, SaidSignals, SaidPaths
<1>3. LastIn(extra) = {extra[Len(extra)]} /\ extra[Len(extra)] \in StatesIn(extra)
  BY <1>1, LastAtEnd
<1>4. \A i \in DOMAIN extra : extra[i] \in P
  <2> HIDE DEF P
  <2> QED
    BY <1>1
<1>5. \A x \in StatesIn(extra) : /\ x.state \in {"PREPARE", "DISCONNECTED", "NEED_AUTH"}
                                 /\ x.reason \in {"NONE", "NEW_ACTIVATION", "interrupted"}
  BY <1>4 DEF StatesIn, ActivationSignals
<1>6. PathsIn("removed", extra) \subseteq gone /\ PathsIn("added", extra) \subseteq (IF new THEN {path} ELSE {})
  BY <1>4 DEF PathsIn, ActivationSignals
<1>7. PathsIn("added", extra) = IF new THEN {path} ELSE {}
  <2>1. ASSUME new PROVE path \in PathsIn("added", extra)
    <3>1. 1 \in DOMAIN extra
      BY <1>1
    <3> QED
      BY <1>1, <2>1, <3>1, PathSignalType DEF PathsIn
  <2> QED
    BY <1>6, <2>1
<1>8. bus' # <<>>
  <2>1. bus \in Seq(Signals) /\ extra \in Seq(Signals)
    BY StatesType
  <2> QED
    BY <1>1, <2>1
<1>9. /\ Sigs \subseteq Sigs'
      /\ \A x \in Sigs' \ Sigs : /\ x.state \in {"PREPARE", "DISCONNECTED", "NEED_AUTH"}
                                 /\ x.reason \in {"NONE", "NEW_ACTIVATION", "interrupted"}
      /\ \E x \in Sigs' : x.state = "PREPARE" /\ Lasts' = {x}
  BY <1>1, <1>2, <1>3, <1>5 DEF Said
<1>10. \E said \in Seq(Signals) :
        bus' = bus \o said /\ \A x \in StatesIn(said) : x.state \in {"PREPARE", "DISCONNECTED", "NEED_AUTH"}
                                                       /\ x.reason \in {"NONE", "NEW_ACTIVATION", "interrupted"}
  BY <1>1, <1>5
<1> QED
  BY <1>1, <1>2, <1>6, <1>7, <1>8, <1>9, <1>10 DEF Begins, Announced

\* NM deletes a connection that the device is not on, or the one it is on.
DeletesOther(path) ==
  /\ path \in nmConnections /\ path # nm.path /\ nm' = nm
  /\ nmConnections' = nmConnections \ {path} /\ volatile' = volatile \ {path}
  /\ SignalsKept /\ Removals' = Removals \cup {path} /\ Additions' = Additions
  /\ bus' = Append(bus, Removed(path))

DeletesActive(path) ==
  /\ path \in nmConnections /\ path = nm.path /\ Working
  /\ nm'.phase = "disconnected" /\ nm'.path = NoPath
  /\ nmConnections' = nmConnections \ {path} /\ volatile' = volatile \ {path}
  /\ \E x \in StateSignals : \E y \in StateSignals :
       /\ Sigs' = Sigs \cup {x, y} /\ Lasts' = {y} /\ x.of = path.ssid /\ y.of = path.ssid
       /\ x.state = "DEACTIVATING" /\ x.reason = "CONNECTION_REMOVED"
       /\ y.state = "DISCONNECTED" /\ y.reason = "CONNECTION_REMOVED"
  /\ Removals' = Removals \cup {path} /\ Additions' = Additions
  /\ \E said \in Seq(Signals) : Leaves(path, said) /\ bus' = bus \o said

DeletesNothing(path) ==
  path \notin nmConnections /\ UNCHANGED <<nm, nmConnections, volatile, bus>>

\* Forgetting a connection that the device is not on announces its removal, and no more.
LEMMA DeletesOtherDoes ==
  ASSUME TypeOK, NEW path \in Paths, path \in nmConnections, nm.path # path, nm' = nm,
         nmConnections' = nmConnections \ {path}, volatile' = volatile \ {path},
         bus' = Append(bus, Removed(path)), state_q' = state_q
  PROVE  DeletesOther(path)
<1> DEFINE r == Removed(path)
           extra == <<r>>
<1>1. r \in Signals /\ r.kind = "removed" /\ r.path = path
  BY PathSignalType, SignalKinds
<1>2. bus \in Seq(Signals) /\ bus' = Append(bus, r)
  BY StatesType
<1> HIDE DEF r
<1>3. /\ extra \in Seq(Signals) /\ StatesIn(extra) = {}
      /\ PathsIn("removed", extra) = {path} /\ PathsIn("added", extra) = {}
  BY <1>1 DEF StatesIn, PathsIn
<1>4. bus' = bus \o extra
  BY <1>1, <1>2
<1> HIDE DEF extra
<1>5. Said(extra) /\ Announced(extra)
  BY <1>3, <1>4, SaidSignals, SaidPaths
<1>6. SignalsKept /\ Removals' = Removals \cup {path} /\ Additions' = Additions
  BY <1>3, <1>5 DEF Said, Announced, SignalsKept
<1> QED
  BY <1>6 DEF DeletesOther

\* Forgetting the one that it is on announces the removal first, then that the device is
\* disconnected.
LEMMA DeletesActiveDoes ==
  ASSUME TypeOK, NEW path \in Paths, path \in nmConnections, nm.path = path, Working,
         nm'.phase = "disconnected", nm'.path = NoPath,
         nmConnections' = nmConnections \ {path}, volatile' = volatile \ {path},
         NEW said \in Seq(Signals), Leaves(path, said), bus' = bus \o said, state_q' = state_q
  PROVE  DeletesActive(path)
<1>1. Said(said) /\ Announced(said)
  BY SaidSignals, SaidPaths
<1> DEFINE x == said[2]
           y == said[3]
<1>2. /\ DOMAIN said = 1..3 /\ said[1] = Removed(path) /\ x \in StateSignals /\ y \in StateSignals
      /\ x.of = path.ssid /\ y.of = path.ssid
      /\ x.state = "DEACTIVATING" /\ x.reason = "CONNECTION_REMOVED"
      /\ y.state = "DISCONNECTED" /\ y.reason = "CONNECTION_REMOVED"
  BY DEF Leaves
<1>3. said[1].kind = "removed" /\ said[1].path = path /\ x.kind = "state" /\ y.kind = "state"
  BY <1>2, PathSignalType, SignalKinds
<1>4. StatesIn(said) = {x, y} /\ LastIn(said) = {y}
  <2>1. \A i \in DOMAIN said : i = 1 \/ i = 2 \/ i = 3
    BY <1>2
  <2>2. 1 \in DOMAIN said /\ 2 \in DOMAIN said /\ 3 \in DOMAIN said
    BY <1>2
  <2>3. StatesIn(said) = {x, y}
    BY <1>3, <2>1, <2>2 DEF StatesIn
  <2>4. said # <<>> /\ Len(said) = 3
    <3>1. Len(said) = 3
      BY DEF Leaves
    <3>2. said = <<>> => Len(said) = 0
      OBVIOUS
    <3> QED
      BY <3>1, <3>2
  <2>5. LastIn(said) = {y}
    BY <1>3, <2>4, LastAtEnd
  <2> QED
    BY <2>3, <2>5
<1>5. PathsIn("removed", said) = {path} /\ PathsIn("added", said) = {}
  <2>1. \A i \in DOMAIN said : i = 1 \/ i = 2 \/ i = 3
    BY <1>2
  <2>2. 1 \in DOMAIN said
    BY <1>2
  <2> QED
    BY <1>3, <2>1, <2>2 DEF PathsIn
<1>6. Sigs' = Sigs \cup {x, y} /\ Lasts' = {y}
  BY <1>1, <1>4 DEF Said
<1>7. Removals' = Removals \cup {path} /\ Additions' = Additions
  BY <1>1, <1>5 DEF Announced
<1> HIDE DEF x, y
<1> QED
  BY <1>2, <1>6, <1>7 DEF DeletesActive

\* There is no other way to forget a connection.
LEMMA DeletesIs ==
  ASSUME TypeOK, NEW path \in Paths \cup {NoPath}, Deletes(path), state_q' = state_q
  PROVE  \/ DeletesNothing(path)
         \/ path \in Paths /\ (DeletesOther(path) \/ DeletesActive(path))
<1>1. path \in nmConnections => path \in Paths
  BY DEF TypeOK
<1>2. CASE path \notin nmConnections
  BY <1>2 DEF Deletes, DeletesNothing
<1>3. CASE path \in nmConnections /\ nm.path # path
  BY <1>1, <1>3, DeletesOtherDoes DEF Deletes
<1>4. CASE path \in nmConnections /\ nm.path = path
  <2>1. PICK said \in Seq(Signals) : Leaves(path, said) /\ bus' = bus \o said
    BY <1>4 DEF Deletes
  <2>2. /\ Working /\ nm'.phase = "disconnected" /\ nm'.path = NoPath
        /\ nmConnections' = nmConnections \ {path} /\ volatile' = volatile \ {path}
    BY <1>4 DEF Deletes
  <2> QED
    BY <1>1, <1>4, <2>1, <2>2, DeletesActiveDoes
<1> QED
  BY <1>2, <1>3, <1>4

-----------------------------------------------------------------------------
(* What the steps do *)

\* Whether the handler calls _set_connecting(None).
Clears(signal) ==
  \/ signal.state = "DISCONNECTED" /\ ~KeepsState(signal)
  \/ IsWrongPassword(signal) /\ wifi_state.ssid # NoSsid
  \/ /\ signal.state = "DEACTIVATING" /\ signal.reason = "CONNECTION_REMOVED"
     /\ wifi_state.status = "CONNECTED"

\* The threads go on with what they do, whether or not their snapshots are out of date.
WorkersKept ==
  /\ worker' \in [Workers -> WorkerThread]
  /\ \A w \in Workers : worker'[w].pc = worker[w].pc /\ worker'[w].value = worker[w].value

Handles(signal) ==
  /\ monitor.pc = "state" /\ state_q # <<>> /\ signal = Head(state_q) /\ signal \in StateSignals
  /\ signal.state \notin {"PREPARE", "ACTIVATED"}
  /\ state_q' = Tail(state_q) /\ SignalHandled
  /\ monitor' \in MonitorThread /\ monitor'.pc = IF state_q' = <<>> THEN "recv" ELSE "state"
  /\ WorkersKept
  /\ Clears(signal) => /\ wifi_state' = Disconnected
                       /\ \A w \in Workers : /\ worker'[w].fresh = FALSE
                                             /\ worker[w].pc = "assign" => worker'[w].newest = FALSE
  /\ ~Clears(signal) => UNCHANGED <<wifi_state, worker>>
  /\ raced' \in BOOLEAN
  /\ ~raced' => ~raced /\ (signal.reason = "CONNECTION_REMOVED" => removed_conn_q = {})
  /\ \/ callback_queue' = callback_queue
     \/ /\ IsWrongPassword(signal) /\ wifi_state.ssid # NoSsid
        /\ callback_queue' = Append(callback_queue,
             [ssid |-> wifi_state.ssid, of |-> signal.of, late |-> signal.late])
  /\ UNCHANGED <<nmVars, connections, removed_conn_q, new_conn_q, userVars, unsaved>>

\* The branches of _handle_state_change that make no call clear the picture or leave it alone.
LEMMA HandleAtOnceDoes ==
  ASSUME TypeOK, HandleAtOnce
  PROVE  Handles(Head(state_q))
<1> DEFINE signal == Head(state_q)
<1>1. /\ monitor.pc = "state" /\ state_q # <<>> /\ signal \in StateSignals
      /\ signal.state \notin {"PREPARE", "ACTIVATED"} /\ state_q' = Tail(state_q)
      /\ UNCHANGED <<nmVars, connections, removed_conn_q, new_conn_q, userVars, unsaved>>
  BY HeadType DEF HandleAtOnce
<1>2. SignalHandled
  BY <1>1, HandledSignal DEF nmVars
<1>3. IF Clears(signal) THEN ClearState ELSE NextSignal /\ UNCHANGED <<wifi_state, worker>>
  BY DEF HandleAtOnce, Clears
<1>4. NextSignal
  BY <1>3 DEF ClearState
<1>5. monitor' \in MonitorThread /\ monitor'.pc = IF state_q' = <<>> THEN "recv" ELSE "state"
  BY <1>4, NextSignalType
<1>6. /\ OutdateWorkers(TRUE) \in [Workers -> WorkerThread]
      /\ \A w \in Workers : /\ OutdateWorkers(TRUE)[w].pc = worker[w].pc
                            /\ OutdateWorkers(TRUE)[w].value = worker[w].value
                            /\ OutdateWorkers(TRUE)[w].newest =
                                 (worker[w].newest /\ TRUE /\ worker[w].pc # "assign")
                            /\ OutdateWorkers(TRUE)[w].fresh = (worker[w].fresh /\ ~TRUE)
  BY OutdateWorkersType DEF TypeOK
<1>7. /\ WorkersKept
      /\ Clears(signal) => /\ wifi_state' = Disconnected
                           /\ \A w \in Workers : /\ worker'[w].fresh = FALSE
                                                 /\ worker[w].pc = "assign" => worker'[w].newest = FALSE
      /\ ~Clears(signal) => UNCHANGED <<wifi_state, worker>>
  <2>1. CASE Clears(signal)
    BY <1>3, <1>6, <2>1 DEF ClearState, WorkersKept
  <2>2. CASE ~Clears(signal)
    BY <1>3, <2>2 DEF WorkersKept, TypeOK
  <2> QED
    BY <2>1, <2>2
<1>8. /\ raced' \in BOOLEAN
      /\ ~raced' => ~raced /\ (signal.reason = "CONNECTION_REMOVED" => removed_conn_q = {})
  <2>1. raced' = (raced \/ (signal.reason = "CONNECTION_REMOVED" /\ removed_conn_q # {}))
    BY DEF HandleAtOnce
  <2> QED
    BY <2>1, Zenon
<1>9. \/ callback_queue' = callback_queue
      \/ /\ IsWrongPassword(signal) /\ wifi_state.ssid # NoSsid
         /\ callback_queue' = Append(callback_queue,
              [ssid |-> wifi_state.ssid, of |-> signal.of, late |-> signal.late])
  BY DEF HandleAtOnce
<1> QED
  BY <1>1, <1>2, <1>5, <1>7, <1>8, <1>9 DEF Handles

\* The branches PREPARE and ACTIVATED, up to the first reply.
Connecting(signal) ==
  /\ monitor.pc = "state" /\ state_q # <<>> /\ signal = Head(state_q) /\ signal \in StateSignals
  /\ state_q' = Tail(state_q) /\ SignalHandled /\ signal.state \in {"PREPARE", "ACTIVATED"}
  /\ monitor' \in MonitorThread
  /\ monitor'.pc = IF signal.state = "PREPARE" /\ wifi_state.ssid # NoSsid THEN "assign" ELSE "lookup"
  /\ monitor'.value.ssid = wifi_state.ssid
  /\ monitor'.value.status = IF signal.state = "PREPARE" THEN "CONNECTING" ELSE "CONNECTED"
  /\ monitor'.path = NoPath /\ monitor'.fresh = TRUE /\ monitor'.newest = TRUE
  /\ UNCHANGED <<nmVars, wifi_state, connections, removed_conn_q, new_conn_q, worker,
                 callback_queue, userVars, history>>

\* The branches PREPARE and ACTIVATED take the state change and leave the picture alone.
LEMMA HandleConnectingIs ==
  ASSUME TypeOK, HandleConnecting
  PROVE  Connecting(Head(state_q))
<1>1. /\ state_q # <<>> /\ state_q' = Tail(state_q) /\ Head(state_q) \in StateSignals
      /\ UNCHANGED <<nmVars, wifi_state, connections, removed_conn_q, new_conn_q, worker,
                     callback_queue, userVars, history>>
  BY HandleConnectingDoes, HeadType
<1>2. SignalHandled
  BY <1>1, HandledSignal DEF nmVars
<1> QED
  BY <1>1, <1>2, HandleConnectingDoes DEF Connecting

LooksUp ==
  /\ monitor.pc = "lookup" /\ bus = <<>> /\ monitor' \in MonitorThread
  /\ ~monitor.fresh => monitor'.pc = IF state_q = <<>> THEN "recv" ELSE "state"
  /\ monitor.fresh => /\ monitor'.pc = "assign" /\ monitor'.path = nm.path
                      /\ monitor'.value.status = monitor.value.status
                      /\ monitor'.value.ssid = IF nm.path = NoPath THEN monitor.value.ssid
                                               ELSE ToSsid(nm.path)
                      /\ monitor'.newest = monitor.newest /\ monitor'.fresh = TRUE
  /\ SignalsKept
  /\ UNCHANGED <<nmVars, wifi_state, connections, queues, worker, callback_queue, userVars, raced>>
  /\ unsaved' = unsaved \cup (IF ~monitor.fresh /\ monitor.value.status = "CONNECTED" THEN {nm.path} ELSE {})

Assigns ==
  /\ monitor.pc = "assign" /\ wifi_state' = monitor.value /\ monitor.value \in WifiState
  /\ monitor' \in MonitorThread
  /\ IF monitor.value.status = "CONNECTED" /\ monitor.path # NoPath
     THEN monitor'.pc = "save" /\ monitor'.path = monitor.path
     ELSE monitor'.pc = IF state_q = <<>> THEN "recv" ELSE "state"
  /\ WorkersKept
  /\ \A w \in Workers : worker'[w].fresh = worker[w].fresh /\ worker'[w].newest = FALSE
  /\ raced' \in BOOLEAN
  /\ ~raced' => /\ ~raced /\ monitor.newest
                /\ monitor.fresh /\ monitor.value.ssid # wifi_state.ssid =>
                     ~Choosing(Workers) /\ monitor.value.ssid \in {NoSsid, nm.path.ssid}
  /\ SignalsKept
  /\ UNCHANGED <<nmVars, connections, queues, callback_queue, userVars, unsaved>>

Saves ==
  /\ monitor.pc = "save" /\ bus = <<>>
  /\ \/ volatile' = volatile \ {monitor.path} /\ unsaved' = unsaved
     \/ volatile' = volatile /\ unsaved' = unsaved \cup {monitor.path}
  /\ failures' \in Nat /\ monitor' \in MonitorThread
  /\ monitor'.pc = IF state_q = <<>> THEN "recv" ELSE "state"
  /\ SignalsKept
  /\ UNCHANGED <<nm, nmConnections, paths, bus, wifi_state, connections, queues, worker,
                 callback_queue, userVars, raced>>

\* What the rest of these two branches does.
LEMMA MonitorDoes ==
  ASSUME TypeOK
  PROVE  (Lookup => LooksUp) /\ (Assign => Assigns) /\ (Save => Saves)
<1>1. ASSUME Lookup PROVE LooksUp
  <2>1. SignalsKept
    BY <1>1, LookupDoes, UnchangedSignals DEF nmVars, queues
  <2> QED
    BY <1>1, <2>1, LookupDoes DEF LooksUp
<1>2. ASSUME Assign PROVE Assigns
  <2>1. SignalsKept
    BY <1>2, AssignDoes, UnchangedSignals DEF nmVars, queues
  <2> QED
    BY <1>2, <2>1, AssignDoes DEF Assigns, WorkersKept
<1>3. ASSUME Save PROVE Saves
  <2>1. SignalsKept
    BY <1>3, SaveDoes, UnchangedSignals DEF queues
  <2> QED
    BY <1>3, <2>1, SaveDoes DEF Saves
<1> QED
  BY <1>1, <1>2, <1>3

\* A worker's steps
Forgets(w) ==
  LET path == connections[worker[w].value.ssid] IN
  /\ worker[w].pc \in {"forget", "delete"} /\ worker[w].value.ssid \in Ssids
  /\ \/ DeletesNothing(path) /\ SignalsKept
     \/ path \in Paths /\ path.ssid = worker[w].value.ssid /\ (DeletesOther(path) \/ DeletesActive(path))
  /\ GoesOn(w, IF worker[w].pc = "forget" THEN "add" ELSE "idle")
  /\ WorkerUnchanged /\ UNCHANGED <<paths, wifi_state, raced>>

\* A worker that forgets a network has NM delete its connection, if there is one.
LEMMA ForgetsDoes ==
  ASSUME TypeOK, NEW w \in Workers, ForgetStep(w)
  PROVE  Forgets(w)
<1> DEFINE path == connections[worker[w].value.ssid]
<1>1. ForgetDoes(w)
  BY ForgetStepDoes
<1>2. worker[w].value.ssid \in Ssids /\ path \in Paths \cup {NoPath}
      /\ (path \in Paths => path.ssid = worker[w].value.ssid)
  BY <1>1, WorkerNetwork DEF ForgetDoes, TypeOK
<1>3. Deletes(path) /\ state_q' = state_q
  BY <1>1 DEF ForgetDoes, WorkerUnchanged, queues
<1>4. \/ DeletesNothing(path)
      \/ path \in Paths /\ (DeletesOther(path) \/ DeletesActive(path))
  BY <1>2, <1>3, DeletesIs
<1>5. DeletesNothing(path) => SignalsKept
  BY <1>3, UnchangedSignals DEF DeletesNothing
<1> QED
  BY <1>1, <1>2, <1>4, <1>5 DEF Forgets, ForgetDoes

Connects(w, path, gone, new) ==
  /\ worker[w].pc = (IF new THEN "add" ELSE "activate")
  /\ path.ssid = worker[w].value.ssid /\ path \in Paths
  /\ Begins(path, gone, new) /\ GoesOn(w, "idle")
  /\ new => /\ path.n = paths + 1 /\ paths' = paths + 1 /\ raced' \in BOOLEAN
            /\ ~raced' => ~raced /\ \A p \in nmConnections : p.ssid # path.ssid
  /\ ~new => /\ path = connections[worker[w].value.ssid] /\ path \in nmConnections
             /\ UNCHANGED <<paths, raced>>
  /\ WorkerUnchanged /\ UNCHANGED wifi_state

Errs(w) ==
  /\ worker[w].pc \in {"add", "activate"} /\ GoesOn(w, "resync") /\ SignalsKept
  /\ WorkerUnchanged /\ UNCHANGED <<nm, nmConnections, volatile, paths, bus, wifi_state, raced>>

\* A worker that adds a connection has NM connect to it, or goes on to _init_wifi_state.
LEMMA AddsDoes ==
  ASSUME TypeOK, NEW w \in Workers, AddStep(w)
  PROVE  \/ \E path \in Paths : \E gone \in SUBSET Paths : Connects(w, path, gone, TRUE)
         \/ Errs(w)
<1> DEFINE path == NewPath(worker[w].value.ssid)
<1>1. AddDoes(w)
  BY AddStepDoes
<1>2. /\ worker[w].pc = "add" /\ path \in Paths /\ path.n = paths + 1 /\ path.ssid = worker[w].value.ssid
      /\ WorkerUnchanged /\ UNCHANGED wifi_state /\ state_q' = state_q
  BY <1>1 DEF AddDoes, WorkerUnchanged, queues
<1>3. CASE GoesOn(w, "resync") /\ UNCHANGED <<nm, nmConnections, volatile, paths, bus, raced>>
  BY <1>2, <1>3, UnchangedSignals DEF Errs
<1>4. ASSUME NEW gone \in SUBSET Paths, NEW extra \in Seq(Signals), Activates(path, gone, extra, TRUE),
             GoesOn(w, "idle"), paths' = paths + 1, raced' \in BOOLEAN,
             ~raced' => ~raced /\ \A p \in nmConnections : p.ssid # path.ssid
      PROVE  Connects(w, path, gone, TRUE)
  <2>1. Begins(path, gone, TRUE)
    BY <1>2, <1>4, ActivatesBegins
  <2> HIDE DEF path
  <2> QED
    BY <1>2, <1>4, <2>1 DEF Connects
<1>5. path \in Paths
  BY <1>2
<1>6. \/ GoesOn(w, "resync") /\ UNCHANGED <<nm, nmConnections, volatile, paths, bus, raced>>
      \/ /\ \E gone \in SUBSET Paths : \E extra \in Seq(Signals) : Activates(path, gone, extra, TRUE)
         /\ GoesOn(w, "idle") /\ paths' = paths + 1 /\ raced' \in BOOLEAN
         /\ ~raced' => ~raced /\ \A p \in nmConnections : p.ssid # path.ssid
  BY <1>1 DEF AddDoes
<1> HIDE DEF path
<1> QED
  BY <1>3, <1>4, <1>5, <1>6

\* So does a worker that activates a connection which is known.
LEMMA ActivatesSavedDoes ==
  ASSUME TypeOK, NEW w \in Workers, ActivateStep(w)
  PROVE  \/ \E path \in Paths : \E gone \in SUBSET Paths : Connects(w, path, gone, FALSE)
         \/ Errs(w)
<1> DEFINE path == connections[worker[w].value.ssid]
<1>1. ActivateStepDoes(w)
  BY ActivateStepIs
<1>2. /\ worker[w].pc = "activate" /\ path = connections[worker[w].value.ssid]
      /\ WorkerUnchanged /\ UNCHANGED <<paths, wifi_state, raced>> /\ state_q' = state_q
  BY <1>1 DEF ActivateStepDoes, WorkerUnchanged, queues
<1>3. CASE GoesOn(w, "resync") /\ UNCHANGED <<nm, nmConnections, volatile, bus>>
  BY <1>2, <1>3, UnchangedSignals DEF Errs
<1>4. ASSUME NEW gone \in SUBSET Paths, NEW extra \in Seq(Signals), Activates(path, gone, extra, FALSE),
             GoesOn(w, "idle"), path \in Paths, path.ssid = worker[w].value.ssid, path \in nmConnections
      PROVE  Connects(w, path, gone, FALSE)
  <2>1. Begins(path, gone, FALSE)
    BY <1>2, <1>4, ActivatesBegins
  <2> HIDE DEF path
  <2> QED
    BY <1>2, <1>4, <2>1 DEF Connects
<1>5. \/ GoesOn(w, "resync") /\ UNCHANGED <<nm, nmConnections, volatile, bus>>
      \/ /\ path \in Paths /\ path.ssid = worker[w].value.ssid /\ path \in nmConnections
         /\ \E gone \in SUBSET Paths : \E extra \in Seq(Signals) : Activates(path, gone, extra, FALSE)
         /\ GoesOn(w, "idle")
  BY <1>1 DEF ActivateStepDoes
<1> HIDE DEF path
<1> QED
  BY <1>3, <1>4, <1>5

WorkerDoes(w) ==
  \/ Forgets(w) \/ Errs(w)
  \/ \E path \in Paths : \E gone \in SUBSET Paths : \E new \in BOOLEAN : Connects(w, path, gone, new)
  \/ ResyncDoes(w) /\ SignalsKept

UserActs(w) ==
  \/ \E ssid \in Ssids : \E pc \in {"forget", "activate"} : Chooses(w, ssid, pc) /\ SignalsMarked
  \/ StartsWorker(w) /\ SignalsKept

MonitorActs ==
  \/ Receive \/ (Deliver /\ SignalsKept)
  \/ Handles(Head(state_q)) \/ Connecting(Head(state_q))
  \/ LooksUp \/ Assigns \/ Saves

\* Nothing but the callbacks changes.
RunsCallbacks ==
  /\ UNCHANGED <<nmVars, wifi_state, connections, queues, monitor, worker, userVars, history>>
  /\ callback_queue' = <<>> \/ callback_queue' = callback_queue
  /\ SignalsKept

StepDoes ==
  \/ NmDoes \/ MonitorActs \/ RunsCallbacks
  \/ \E w \in Workers : WorkerDoes(w) \/ UserActs(w)

\* Every step of a worker is one of these.
LEMMA WorkerStepDoes ==
  ASSUME TypeOK, NEW w \in Workers, WorkerStep(w)
  PROVE  WorkerDoes(w)
<1>1. CASE ForgetStep(w)
  BY <1>1, ForgetsDoes DEF WorkerDoes
<1>2. CASE AddStep(w)
  BY <1>2, AddsDoes DEF WorkerDoes
<1>3. CASE ActivateStep(w)
  BY <1>3, ActivatesSavedDoes DEF WorkerDoes
<1>4. CASE ResyncStep(w)
  <2>1. ResyncDoes(w)
    BY <1>4, ResyncStepDoes
  <2>2. SignalsKept
    BY <2>1, UnchangedSignals DEF ResyncDoes, nmVars, queues
  <2> QED
    BY <2>1, <2>2 DEF WorkerDoes
<1> QED
  BY <1>1, <1>2, <1>3, <1>4 DEF WorkerStep

\* Every step of the user is a choice, or starts a worker.
LEMMA UserStepDoes ==
  ASSUME TypeOK, NEW w \in Workers, User(w)
  PROVE  UserActs(w)
<1>1. ASSUME NEW ssid \in Ssids, NEW pc \in {"forget", "activate"}, Choose(w, ssid, pc)
      PROVE  UserActs(w)
  <2>1. Chooses(w, ssid, pc)
    BY <1>1, ChooseDoes
  <2>2. SignalsMarked
    BY <2>1, MarkedSignals DEF Chooses
  <2> QED
    BY <2>1, <2>2 DEF UserActs
<1>2. CASE ForgetConnection(w) \/ OpenSettings(w)
  <2>1. StartsWorker(w)
    BY <1>2, StartsWorkerDoes
  <2>2. SignalsKept
    BY <2>1, UnchangedSignals DEF StartsWorker, nmVars, queues
  <2> QED
    BY <2>1, <2>2 DEF UserActs
<1> QED
  BY <1>1, <1>2, UserDoes

\* Every step, or none at all, is one of a thread or of NM that has been described.
LEMMA NextDoes ==
  ASSUME TypeOK, [Next]_vars
  PROVE  StepDoes
<1>1. CASE Nm
  BY <1>1, NmStepDoes DEF StepDoes
<1>2. CASE Monitor
  <2>1. Lookup \/ Assign \/ Save => MonitorActs
    BY MonitorDoes DEF MonitorActs
  <2>2. Receive \/ Deliver => MonitorActs
    BY DeliveredSignals DEF MonitorActs
  <2>3. HandleAtOnce \/ HandleConnecting => MonitorActs
    BY HandleAtOnceDoes, HandleConnectingIs DEF MonitorActs
  <2> QED
    BY <1>2, <2>1, <2>2, <2>3 DEF Monitor, StepDoes
<1>3. CASE ProcessCallbacks
  BY <1>3, UnchangedSignals DEF ProcessCallbacks, RunsCallbacks, StepDoes, nmVars, queues
<1>4. ASSUME NEW w \in Workers, WorkerStep(w) PROVE StepDoes
  BY <1>4, WorkerStepDoes DEF StepDoes
<1>5. ASSUME NEW w \in Workers, User(w) PROVE StepDoes
  BY <1>5, UserStepDoes DEF StepDoes
<1>6. CASE UNCHANGED vars
  BY <1>6, UnchangedSignals DEF vars, nmVars, queues, RunsCallbacks, StepDoes
<1> QED
  BY <1>1, <1>2, <1>3, <1>4, <1>5, <1>6 DEF Next

-----------------------------------------------------------------------------
(* The network that the device rests on is saved *)

\* Where the monitor thread is goes with its queue, and NM works on a connection that it has.
Structure ==
  /\ monitor.pc = "recv" => state_q = <<>>
  /\ monitor.pc = "state" => state_q # <<>>
  /\ Working => nm.path \in nmConnections

\* While the connection that is active is volatile, the handler of ACTIVATED has yet to save it:
\* the signal is pending, or the handler waits for a reply, writes what it says, or saves.
ToBeSaved ==
  \/ \E x \in Sigs : x.state = "ACTIVATED"
  \/ monitor.pc = "lookup" /\ monitor.value.status = "CONNECTED"
  \/ monitor.pc = "assign" /\ monitor.value.status = "CONNECTED" /\ monitor.path = nm.path
  \/ monitor.pc = "save" /\ monitor.path = nm.path
SavedSoon ==
  nm.phase = "activated" /\ nm.path \in volatile => nm.path \in unsaved \/ ToBeSaved

\* The monitor thread that has taken a signal is back at recv_messages or has a state change to
\* handle.
LEMMA ReceiveMonitor ==
  ASSUME TypeOK, Structure, Receive
  PROVE  /\ SignalsKept /\ monitor.pc = "recv" /\ monitor'.pc \in {"recv", "state"}
         /\ monitor'.pc = "recv" => state_q' = <<>>
         /\ monitor'.pc = "state" => state_q' # <<>>
         /\ UNCHANGED <<nm, nmConnections, volatile, paths, failures, wifi_state, worker, callback_queue,
                        userVars, history>>
<1>1. SignalsKept /\ monitor.pc = "recv" /\ state_q = <<>>
  BY ReceivedSignals DEF Receive, Structure
<1>2. \/ state_q' = <<Head(bus)>> /\ Goto("state")
      \/ UNCHANGED <<state_q, monitor>>
  BY DEF Receive
<1>3. UNCHANGED <<nm, nmConnections, volatile, paths, failures, wifi_state, worker, callback_queue,
                  userVars, history>>
  BY DEF Receive
<1>4. <<Head(bus)>> # <<>>
  OBVIOUS
<1>5. CASE state_q' = <<Head(bus)>> /\ Goto("state")
  <2>1. monitor'.pc = "state"
    BY <1>5, GotoType
  <2> QED
    BY <1>1, <1>3, <1>4, <1>5, <2>1
<1>6. CASE UNCHANGED <<state_q, monitor>>
  BY <1>1, <1>3, <1>6
<1> QED
  BY <1>2, <1>5, <1>6

\* NM by itself works on a connection that it has.
LEMMA NmStructure ==
  ASSUME TypeOK, TypeOK', Structure, NmDoes
  PROVE  Structure'
<1>1. UNCHANGED <<monitor, queues>> /\ bus = <<>>
  BY DEF NmDoes, NmGoesOn, NmEnds, NmQuietly
<1>2. Working' => nm'.path \in nmConnections'
  <2>1. CASE \E path \in nmConnections : NmGoesOn("prepare", path, "PREPARE")
    BY <2>1 DEF NmGoesOn
  <2>2. CASE nm.phase = "prepare" /\ NmGoesOn("config", nm.path, "PREPARE")
    BY <2>2 DEF NmGoesOn, Structure, Working
  <2>3. CASE nm.phase = "config" /\ NmGoesOn("activated", nm.path, "ACTIVATED")
    BY <2>3 DEF NmGoesOn, Structure, Working
  <2>4. CASE NmEnds
    BY <2>4 DEF NmEnds, Working
  <2> QED
    BY <2>1, <2>2, <2>3, <2>4 DEF NmDoes
<1> QED
  BY <1>1, <1>2 DEF Structure, queues

\* Marking an empty queue as late leaves it empty.
LEMMA LateEmpty ==
  ASSUME TypeOK
  PROVE  (Late(state_q) = <<>>) = (state_q = <<>>)
<1>1. Late(state_q) \in Seq(Signals) /\ Len(Late(state_q)) = Len(state_q) /\ state_q \in Seq(Signals)
  BY LateType, StatesType
<1> QED
  BY <1>1

\* A worker leaves the monitor thread where it is, and NM on a connection that it has.
LEMMA WorkerStructure ==
  ASSUME TypeOK, TypeOK', Structure, NEW w \in Workers, WorkerDoes(w)
  PROVE  Structure'
<1>1. monitor'.pc = monitor.pc /\ state_q' = state_q
  BY DEF WorkerDoes, Forgets, Errs, Connects, ResyncDoes, Asks, Answers, Resyncs, WorkerUnchanged, queues
<1>2. Working' => nm'.path \in nmConnections'
  <2>1. CASE Forgets(w)
    BY <2>1, NmFacts DEF Forgets, DeletesNothing, DeletesOther, DeletesActive, Working, Structure
  <2>2. CASE \E path \in Paths : \E gone \in SUBSET Paths : \E new \in BOOLEAN : Connects(w, path, gone, new)
    BY <2>2 DEF Connects, Begins
  <2>3. CASE Errs(w) \/ ResyncDoes(w)
    BY <2>3 DEF Errs, ResyncDoes, nmVars, Working, Structure
  <2> QED
    BY <2>1, <2>2, <2>3 DEF WorkerDoes
<1> QED
  BY <1>1, <1>2 DEF Structure

\* Every step keeps the structure.
LEMMA StructureStep ==
  ASSUME TypeOK, TypeOK', Structure, StepDoes
  PROVE  Structure'
<1>1. CASE NmDoes
  BY <1>1, NmStructure
<1>2. CASE MonitorActs
  <2>1. nm' = nm /\ nmConnections' = nmConnections
    BY <1>2, ReceiveMonitor DEF MonitorActs, Deliver, Handles, Connecting, LooksUp, Assigns, Saves, nmVars
  <2>2. /\ monitor'.pc = "recv" => state_q' = <<>>
        /\ monitor'.pc = "state" => state_q' # <<>>
    <3>1. CASE Receive
      BY <3>1, ReceiveMonitor
    <3>2. CASE Deliver
      BY <3>2 DEF Deliver
    <3>3. CASE Handles(Head(state_q))
      BY <3>3 DEF Handles
    <3>4. CASE Connecting(Head(state_q))
      BY <3>4 DEF Connecting
    <3>5. CASE LooksUp
      BY <3>5 DEF LooksUp, queues, TypeOK, MonitorThread
    <3>6. CASE Assigns
      BY <3>6 DEF Assigns, queues
    <3>7. CASE Saves
      BY <3>7 DEF Saves, queues
    <3> QED
      BY <1>2, <3>1, <3>2, <3>3, <3>4, <3>5, <3>6, <3>7 DEF MonitorActs
  <2> QED
    BY <2>1, <2>2 DEF Structure, Working
<1>3. CASE RunsCallbacks
  BY <1>3 DEF RunsCallbacks, Structure, Working, nmVars, queues
<1>4. ASSUME NEW w \in Workers, WorkerDoes(w) PROVE Structure'
  BY <1>4, WorkerStructure
<1>5. ASSUME NEW w \in Workers, UserActs(w) PROVE Structure'
  <2>1. CASE StartsWorker(w)
    BY <2>1 DEF StartsWorker, Structure, Working, nmVars, queues
  <2>2. CASE \E ssid \in Ssids : \E pc \in {"forget", "activate"} : Chooses(w, ssid, pc)
    BY <2>2, LateEmpty DEF Chooses, Structure, Working
  <2> QED
    BY <1>5, <2>1, <2>2 DEF UserActs
<1> QED
  BY <1>1, <1>2, <1>3, <1>4, <1>5 DEF StepDoes

\* The handler of ACTIVATED saves the connection, unless the user acts before its reply.
LEMMA SavedSoonStep ==
  ASSUME TypeOK, TypeOK', Structure, SavedSoon, StepDoes
  PROVE  SavedSoon'
<1> SUFFICES ASSUME nm'.phase = "activated", nm'.path \in volatile', nm'.path \notin unsaved'
             PROVE  ToBeSaved'
  BY DEF SavedSoon
<1>1. CASE NmDoes
  <2>1. NmGoesOn("activated", nm.path, "ACTIVATED")
    BY <1>1 DEF NmDoes, NmGoesOn, NmEnds
  <2> QED
    BY <2>1 DEF NmGoesOn, ToBeSaved
<1>2. CASE MonitorActs
  <2>1. nm' = nm /\ nm.path \in volatile /\ nm.path \notin unsaved /\ ToBeSaved
    <3>1. nm' = nm /\ volatile' \subseteq volatile
      BY <1>2, ReceiveMonitor DEF MonitorActs, Deliver, Handles, Connecting, LooksUp, Assigns, Saves, nmVars
    <3>2. unsaved \subseteq unsaved'
      BY <1>2, ReceiveMonitor DEF MonitorActs, Deliver, Handles, Connecting, LooksUp, Assigns, Saves, history
    <3> QED
      BY <3>1, <3>2 DEF SavedSoon
  <2>2. CASE Receive
    BY <2>1, <2>2, ReceiveMonitor DEF ToBeSaved, SignalsKept
  <2>3. CASE Deliver /\ SignalsKept
    BY <2>1, <2>3 DEF ToBeSaved, SignalsKept, Deliver
  <2>4. CASE Handles(Head(state_q))
    BY <2>1, <2>4 DEF ToBeSaved, Handles, SignalHandled
  <2>5. CASE Connecting(Head(state_q))
    BY <2>1, <2>5 DEF ToBeSaved, Connecting, SignalHandled
  <2>6. CASE LooksUp
    BY <2>1, <2>6 DEF ToBeSaved, LooksUp, SignalsKept
  <2>7. CASE Assigns
    <3>1. nm.path # NoPath
      BY <2>1, NmFacts, PathIsNotNoPath DEF Working
    <3> QED
      BY <2>1, <2>7, <3>1 DEF ToBeSaved, Assigns, SignalsKept
  <2>8. CASE Saves
    BY <2>1, <2>8 DEF ToBeSaved, Saves, SignalsKept
  <2> QED
    BY <1>2, <2>2, <2>3, <2>4, <2>5, <2>6, <2>7, <2>8 DEF MonitorActs
<1>3. CASE RunsCallbacks
  BY <1>3 DEF RunsCallbacks, SavedSoon, ToBeSaved, nmVars, history, SignalsKept
<1>4. ASSUME NEW w \in Workers, WorkerDoes(w) PROVE ToBeSaved'
  <2>1. /\ unsaved' = unsaved /\ monitor'.pc = monitor.pc /\ monitor'.value = monitor.value
        /\ monitor'.path = monitor.path
    BY <1>4 DEF WorkerDoes, Forgets, Errs, Connects, ResyncDoes, Asks, Answers, Resyncs, WorkerUnchanged
  <2>2. SignalsKept /\ nm' = nm /\ volatile' \subseteq volatile
    <3>1. CASE Forgets(w)
      BY <3>1 DEF Forgets, DeletesNothing, DeletesOther, DeletesActive
    <3>2. ASSUME NEW path \in Paths, NEW gone \in SUBSET Paths, NEW new \in BOOLEAN,
                 Connects(w, path, gone, new)
          PROVE  FALSE
      BY <3>2 DEF Connects, Begins
    <3>3. CASE Errs(w) \/ (ResyncDoes(w) /\ SignalsKept)
      BY <3>3 DEF Errs, ResyncDoes, nmVars
    <3> QED
      BY <1>4, <3>1, <3>2, <3>3 DEF WorkerDoes
  <2> QED
    BY <2>1, <2>2 DEF SavedSoon, ToBeSaved, SignalsKept
<1>5. ASSUME NEW w \in Workers, UserActs(w) PROVE ToBeSaved'
  <2>1. CASE StartsWorker(w) /\ SignalsKept
    BY <2>1 DEF StartsWorker, SavedSoon, ToBeSaved, nmVars, history, SignalsKept
  <2>2. ASSUME NEW ssid \in Ssids, NEW pc \in {"forget", "activate"}, Chooses(w, ssid, pc), SignalsMarked
        PROVE  ToBeSaved'
    <3>1. /\ nm' = nm /\ volatile' = volatile /\ unsaved' = unsaved
          /\ monitor'.pc = monitor.pc /\ monitor'.value = monitor.value /\ monitor'.path = monitor.path
      BY <2>2 DEF Chooses
    <3>2. ToBeSaved
      BY <3>1 DEF SavedSoon
    <3>3. (\E x \in Sigs : x.state = "ACTIVATED") => \E x \in Sigs' : x.state = "ACTIVATED"
      BY <2>2, MarkedLateType, StatesType DEF SignalsMarked
    <3> QED
      BY <3>1, <3>2, <3>3 DEF ToBeSaved
  <2> QED
    BY <1>5, <2>1, <2>2 DEF UserActs
<1> QED
  BY <1>1, <1>2, <1>3, <1>4, <1>5 DEF StepDoes

SavedInv == TypeOK /\ Structure /\ SavedSoon

\* Whatever the taps, failures and errors before: when things have calmed down, the connection that
\* the device is on is saved, unless the user acted while the handler of ACTIVATED waited for the
\* reply about this very connection, or NM refused to save it, which the handler only logs (Save at
\* the end of the branch ACTIVATED of _handle_state_change).
THEOREM ConnectionIsSaved == Spec => []ConnectedIsSaved
<1>1. Init => SavedInv
  <2>1. Init => Structure /\ SavedSoon
    BY DEF Init, Structure, SavedSoon, Working, IdleMonitor
  <2> QED
    BY <2>1, InitType DEF SavedInv
<1>2. SavedInv /\ [Next]_vars => SavedInv'
  <2> SUFFICES ASSUME SavedInv, [Next]_vars PROVE SavedInv'
    OBVIOUS
  <2>1. TypeOK' /\ StepDoes
    BY TypeStep, NextDoes DEF SavedInv
  <2> QED
    BY <2>1, StructureStep, SavedSoonStep DEF SavedInv
<1>3. SavedInv => ConnectedIsSaved
  <2> SUFFICES ASSUME SavedInv, Quiet, nm.phase = "activated", nm.path \in volatile
           PROVE  nm.path \in unsaved
    BY DEF ConnectedIsSaved
  <2>1. Sigs = {}
    BY EmptyStates DEF Quiet, Sigs
  <2>2. monitor.pc = "recv"
    BY DEF Quiet
  <2>3. nm.path \in unsaved \/ ToBeSaved
    BY DEF SavedInv, SavedSoon
  <2> QED
    BY <2>1, <2>2, <2>3 DEF ToBeSaved
<1> QED
  BY <1>1, <1>2, <1>3, PTL DEF Spec

-----------------------------------------------------------------------------
(* What the threads are about to write *)

\* A thread that is about to write the picture has asked NM after the user's last action, unless
\* the picture has been written since.
Snapshots ==
  /\ monitor.pc = "assign" /\ monitor.newest => monitor.fresh
  /\ \A w \in Workers : worker[w].pc = "assign" /\ worker[w].newest => worker[w].fresh

\* The comparison of the epochs sees to that.
LEMMA SnapshotsStep ==
  ASSUME TypeOK, Structure, Snapshots, StepDoes
  PROVE  Snapshots'
<1>1. CASE UNCHANGED <<monitor, worker>>
  BY <1>1 DEF Snapshots
<1>2. CASE NmDoes
  BY <1>1, <1>2 DEF NmDoes, NmGoesOn, NmEnds, NmQuietly
<1>3. CASE RunsCallbacks
  BY <1>1, <1>3 DEF RunsCallbacks
<1>4. CASE MonitorActs
  <2>1. CASE Receive
    BY <2>1, ReceiveMonitor DEF Snapshots
  <2>2. CASE Deliver
    BY <1>1, <2>2 DEF Deliver
  <2>3. CASE Handles(Head(state_q))
    <3>1. monitor'.pc # "assign"
      BY <2>3 DEF Handles
    <3>2. CASE Clears(Head(state_q))
      BY <2>3, <3>1, <3>2 DEF Handles, WorkersKept, Snapshots
    <3>3. CASE ~Clears(Head(state_q))
      BY <2>3, <3>1, <3>3 DEF Handles, Snapshots
    <3> QED
      BY <3>2, <3>3
  <2>4. CASE Connecting(Head(state_q))
    BY <2>4 DEF Connecting, Snapshots
  <2>5. CASE LooksUp
    <3>1. monitor'.pc = "assign" => monitor'.fresh
      BY <2>5 DEF LooksUp
    <3> QED
      BY <2>5, <3>1 DEF LooksUp, Snapshots
  <2>6. CASE Assigns
    BY <2>6 DEF Assigns, WorkersKept, Snapshots
  <2>7. CASE Saves
    BY <2>7 DEF Saves, Snapshots
  <2> QED
    BY <1>4, <2>1, <2>2, <2>3, <2>4, <2>5, <2>6, <2>7 DEF MonitorActs
<1>5. ASSUME NEW w \in Workers, WorkerDoes(w) PROVE Snapshots'
  <2>1. CASE Forgets(w)
    BY <2>1 DEF Forgets, GoesOn, WorkerUnchanged, Snapshots
  <2>2. CASE Errs(w)
    BY <2>2 DEF Errs, GoesOn, WorkerUnchanged, Snapshots
  <2>3. ASSUME NEW path \in Paths, NEW gone \in SUBSET Paths, NEW new \in BOOLEAN,
               Connects(w, path, gone, new)
        PROVE  Snapshots'
    BY <2>3 DEF Connects, GoesOn, WorkerUnchanged, Snapshots
  <2>4. CASE Asks(w)
    BY <2>4 DEF Asks, Snapshots
  <2>5. CASE Answers(w)
    BY <2>5 DEF Answers, Snapshots
  <2>6. CASE Resyncs(w)
    BY <2>6 DEF Resyncs, Snapshots
  <2> QED
    BY <1>5, <2>1, <2>2, <2>3, <2>4, <2>5, <2>6 DEF WorkerDoes, ResyncDoes
<1>6. ASSUME NEW w \in Workers, UserActs(w) PROVE Snapshots'
  <2>1. CASE StartsWorker(w)
    BY <2>1 DEF StartsWorker, Snapshots
  <2>2. ASSUME NEW ssid \in Ssids, NEW pc \in {"forget", "activate"}, Chooses(w, ssid, pc)
        PROVE  Snapshots'
    BY <2>2 DEF Chooses, Snapshots
  <2> QED
    BY <1>6, <2>1, <2>2 DEF UserActs
<1> QED
  BY <1>2, <1>3, <1>4, <1>5, <1>6 DEF StepDoes

-----------------------------------------------------------------------------
(* What the pending state changes say of NM *)

\* While the device is connected nothing but ACTIVATED is pending.
OnlyActivated == nm.phase = "activated" => \A x \in Sigs : x.state = "ACTIVATED"
\* When ACTIVATED is the last that NM said, the device is connected.
ActivatedLast == \A x \in Lasts : x.state = "ACTIVATED" => nm.phase = "activated"
\* While the device is disconnected, NM said so last, or all has been handled.
DisconnectedLast ==
  nm.phase = "disconnected" =>
    \/ Sigs = {} /\ monitor.pc = "recv"
    \/ \E x \in Lasts : x.state = "DISCONNECTED" /\ x.reason \in {"NONE", "CONNECTION_REMOVED"}
\* The handler of ACTIVATED may wait while the device is connected, or has more to handle.
WaitsConnected ==
  monitor.pc \in {"lookup", "assign"} /\ monitor.value.status = "CONNECTED" =>
    nm.phase = "activated" \/ Sigs # {}

SaysNm == OnlyActivated /\ ActivatedLast /\ DisconnectedLast /\ WaitsConnected

\* While state_q is not empty a state change is pending.
LEMMA PendingInQueue ==
  \A q \in Seq(StateSignals) : q # <<>> => StatesIn(q) # {}
<1> SUFFICES ASSUME NEW q \in Seq(StateSignals), q # <<>> PROVE StatesIn(q) # {}
  OBVIOUS
<1>1. Head(q) \in StateSignals /\ 1 \in DOMAIN q /\ q[1] = Head(q)
  OBVIOUS
<1> QED
  BY <1>1, SignalKinds DEF StatesIn

\* What is pending says the same when neither NM nor the handler goes on.
LEMMA KeptSaysNm ==
  ASSUME SaysNm, SignalsKept, nm' = nm, monitor'.pc = monitor.pc,
         monitor'.value = monitor.value
  PROVE  SaysNm'
BY DEF SaysNm, OnlyActivated, ActivatedLast, DisconnectedLast, WaitsConnected, SignalsKept

\* What NM says by itself is what it does.
LEMMA NmSaysNm ==
  ASSUME TypeOK, SaysNm, NmDoes
  PROVE  SaysNm'
<1>1. CASE \E path \in Paths : NmGoesOn("prepare", path, "PREPARE") \/ NmGoesOn("config", path, "PREPARE")
  BY <1>1 DEF NmGoesOn, SaysNm, OnlyActivated, ActivatedLast, DisconnectedLast, WaitsConnected
<1>2. CASE NmGoesOn("activated", nm.path, "ACTIVATED")
  BY <1>2 DEF NmGoesOn, SaysNm, OnlyActivated, ActivatedLast, DisconnectedLast, WaitsConnected
<1>3. CASE NmEnds
  BY <1>3 DEF NmEnds, SaysNm, OnlyActivated, ActivatedLast, DisconnectedLast, WaitsConnected
<1> QED
  BY <1>1, <1>2, <1>3 DEF NmDoes, NmGoesOn

\* The monitor thread takes state changes in their order.
LEMMA MonitorSaysNm ==
  ASSUME TypeOK, TypeOK', Structure, SaysNm, MonitorActs
  PROVE  SaysNm'
<1>1. CASE Receive
  <2>1. nm' = nm /\ SignalsKept /\ monitor.pc = "recv" /\ monitor'.pc \in {"recv", "state"}
    BY <1>1, ReceiveMonitor
  <2>2. monitor'.pc = "state" => Sigs' # {}
    <3>1. state_q' \in Seq(StateSignals)
      BY DEF TypeOK
    <3> QED
      BY <1>1, <3>1, ReceiveMonitor, PendingInQueue DEF Sigs
  <2> QED
    BY <2>1, <2>2 DEF SaysNm, OnlyActivated, ActivatedLast, DisconnectedLast, WaitsConnected, SignalsKept
<1>2. CASE Deliver /\ SignalsKept
  BY <1>2, KeptSaysNm DEF Deliver
<1>3. CASE Handles(Head(state_q))
  <2>1. nm' = nm /\ SignalHandled /\ Head(state_q).state # "ACTIVATED" /\ monitor'.pc \notin {"lookup", "assign"}
        /\ (state_q' = <<>> => monitor'.pc = "recv")
    BY <1>3 DEF Handles, nmVars
  <2> QED
    BY <2>1 DEF SaysNm, OnlyActivated, ActivatedLast, DisconnectedLast, WaitsConnected, SignalHandled
<1>4. CASE Connecting(Head(state_q))
  <2>1. nm' = nm /\ SignalHandled /\ Head(state_q).state \in {"PREPARE", "ACTIVATED"} /\ monitor.pc = "state"
        /\ monitor'.value.status = IF Head(state_q).state = "PREPARE" THEN "CONNECTING" ELSE "CONNECTED"
    BY <1>4 DEF Connecting, nmVars
  <2> QED
    BY <2>1 DEF SaysNm, OnlyActivated, ActivatedLast, DisconnectedLast, WaitsConnected, SignalHandled
<1>5. CASE LooksUp
  <2>1. nm' = nm /\ SignalsKept /\ monitor.pc = "lookup"
        /\ (monitor'.pc \in {"lookup", "assign"} => monitor'.value.status = monitor.value.status)
    BY <1>5 DEF LooksUp, nmVars, TypeOK, MonitorThread
  <2> QED
    BY <2>1 DEF SaysNm, OnlyActivated, ActivatedLast, DisconnectedLast, WaitsConnected, SignalsKept
<1>6. CASE Assigns
  <2>1. nm' = nm /\ SignalsKept /\ monitor.pc = "assign" /\ monitor'.pc \notin {"lookup", "assign"}
    BY <1>6 DEF Assigns, nmVars
  <2> QED
    BY <2>1 DEF SaysNm, OnlyActivated, ActivatedLast, DisconnectedLast, WaitsConnected, SignalsKept
<1>7. CASE Saves
  <2>1. nm' = nm /\ SignalsKept /\ monitor.pc = "save" /\ monitor'.pc \notin {"lookup", "assign"}
    BY <1>7 DEF Saves
  <2> QED
    BY <2>1 DEF SaysNm, OnlyActivated, ActivatedLast, DisconnectedLast, WaitsConnected, SignalsKept
<1> QED
  BY <1>1, <1>2, <1>3, <1>4, <1>5, <1>6, <1>7 DEF MonitorActs

\* What NM says when a worker calls is what it does.
LEMMA WorkerSaysNm ==
  ASSUME TypeOK, TypeOK', Structure, SaysNm, NEW w \in Workers, WorkerDoes(w)
  PROVE  SaysNm'
<1>1. monitor'.pc = monitor.pc /\ monitor'.value = monitor.value
  BY DEF WorkerDoes, Forgets, Errs, Connects, ResyncDoes, Asks, Answers, Resyncs, WorkerUnchanged
<1>2. CASE SignalsKept /\ nm' = nm
  BY <1>1, <1>2, KeptSaysNm
<1>3. ASSUME NEW path \in Paths, NEW gone \in SUBSET Paths, NEW new \in BOOLEAN, Begins(path, gone, new)
      PROVE  SaysNm'
  BY <1>3 DEF Begins, SaysNm, OnlyActivated, ActivatedLast, DisconnectedLast, WaitsConnected
<1>4. ASSUME NEW path \in Paths, DeletesActive(path)
      PROVE  SaysNm'
  BY <1>4 DEF DeletesActive, SaysNm, OnlyActivated, ActivatedLast, DisconnectedLast, WaitsConnected
<1>5. CASE Forgets(w)
  BY <1>2, <1>4, <1>5 DEF Forgets, DeletesNothing, DeletesOther
<1>6. CASE Errs(w) \/ (ResyncDoes(w) /\ SignalsKept)
  BY <1>2, <1>6 DEF Errs, ResyncDoes, nmVars
<1> QED
  BY <1>3, <1>5, <1>6 DEF WorkerDoes, Connects

\* What is pending says the same when it is marked as late.
LEMMA MarkedSaysNm ==
  ASSUME TypeOK, SaysNm, SignalsMarked, nm' = nm, monitor'.pc = monitor.pc,
         monitor'.value = monitor.value
  PROVE  SaysNm'
<1>1. /\ \A x \in StateSignals : MarkedLate(x).state = x.state /\ MarkedLate(x).reason = x.reason
      /\ Sigs \subseteq StateSignals /\ Lasts \subseteq StateSignals
  BY MarkedLateType, StatesType
<1>2. OnlyActivated' /\ ActivatedLast'
  BY <1>1 DEF SignalsMarked, SaysNm, OnlyActivated, ActivatedLast
<1>3. DisconnectedLast'
  BY <1>1 DEF SignalsMarked, SaysNm, DisconnectedLast
<1>4. WaitsConnected'
  BY DEF SignalsMarked, SaysNm, WaitsConnected
<1> QED
  BY <1>2, <1>3, <1>4 DEF SaysNm

\* In every step the pending state changes keep saying what NM does.
LEMMA SaysNmStep ==
  ASSUME TypeOK, TypeOK', Structure, SaysNm, StepDoes
  PROVE  SaysNm'
<1>1. CASE RunsCallbacks
  BY <1>1, KeptSaysNm DEF RunsCallbacks, nmVars
<1>2. ASSUME NEW w \in Workers, UserActs(w) PROVE SaysNm'
  <2>1. CASE StartsWorker(w) /\ SignalsKept
    BY <2>1, KeptSaysNm DEF StartsWorker, nmVars
  <2>2. ASSUME NEW ssid \in Ssids, NEW pc \in {"forget", "activate"}, Chooses(w, ssid, pc), SignalsMarked
        PROVE  SaysNm'
    BY <2>2, MarkedSaysNm DEF Chooses
  <2> QED
    BY <1>2, <2>1, <2>2 DEF UserActs
<1> QED
  BY <1>1, <1>2, NmSaysNm, MonitorSaysNm, WorkerSaysNm DEF StepDoes

-----------------------------------------------------------------------------
(* The numbers of the connections *)

\* NM has given every connection that it has, or that is on its way, a number.
Numbered ==
  \A p \in nmConnections \cup removed_conn_q \cup new_conn_q \cup Removals \cup Additions : p.n <= paths
\* A connection that is reported as removed is gone for good.
GoneForGood == (removed_conn_q \cup Removals) \cap nmConnections = {}

\* The connections on their way to the monitor thread only move on.
PathsKept ==
  /\ removed_conn_q' \cup Removals' \subseteq removed_conn_q \cup Removals
  /\ new_conn_q' \cup Additions' \subseteq new_conn_q \cup Additions

\* recv_messages adds nothing to the connections on their way.
LEMMA ReceivedPaths ==
  ASSUME TypeOK, Receive
  PROVE  PathsKept
<1>1. removed_conn_q' = {} /\ new_conn_q' = {}
  BY DEF Receive
<1>2. Removals' \subseteq Removals /\ Additions' \subseteq Additions
  <2>1. CASE bus # <<>>
    BY <2>1, PathsTail, StatesType DEF Receive, Removals, Additions
  <2>2. CASE bus = <<>>
    BY <2>2 DEF Receive, Removals, Additions
  <2> QED
    BY <2>1, <2>2
<1> QED
  BY <1>1, <1>2 DEF PathsKept

\* While the monitor thread waits for a reply, they move from the bus to the queues.
LEMMA DeliveredPaths ==
  ASSUME TypeOK, Deliver
  PROVE  /\ removed_conn_q' \cup Removals' = removed_conn_q \cup Removals
         /\ new_conn_q' \cup Additions' = new_conn_q \cup Additions
         /\ removed_conn_q \subseteq removed_conn_q' /\ new_conn_q \subseteq new_conn_q'
<1>1. bus # <<>> /\ bus \in Seq(Signals) /\ bus' = Tail(bus) /\ Head(bus) \in Signals
  BY HeadType, StatesType DEF Deliver
<1>2. /\ Head(bus).kind = "removed" => Removals = Removals' \cup {Head(bus).path}
      /\ Head(bus).kind # "removed" => Removals = Removals'
      /\ Head(bus).kind = "added" => Additions = Additions' \cup {Head(bus).path}
      /\ Head(bus).kind # "added" => Additions = Additions'
  BY <1>1, PathsTail DEF Removals, Additions
<1>3. /\ removed_conn_q' = IF Head(bus).kind = "removed" THEN removed_conn_q \cup {Head(bus).path}
                           ELSE removed_conn_q
      /\ new_conn_q' = IF Head(bus).kind = "added" THEN new_conn_q \cup {Head(bus).path} ELSE new_conn_q
  BY DEF Deliver
<1> QED
  BY <1>2, <1>3

\* A choice leaves them alone.
LEMMA MarkedPaths ==
  ASSUME TypeOK, bus' = Late(bus)
  PROVE  Removals' = Removals /\ Additions' = Additions
BY PathsLate, StatesType DEF Removals, Additions

\* So does a step that leaves the bus alone.
LEMMA UnchangedPaths ==
  ASSUME UNCHANGED bus
  PROVE  Removals' = Removals /\ Additions' = Additions
BY DEF Removals, Additions

\* The connections on their way are paths.
LEMMA QueuesType ==
  ASSUME TypeOK
  PROVE  Removals \subseteq Paths /\ Additions \subseteq Paths /\ Dropped \subseteq nmConnections \cup volatile
BY PathsInType, StatesType DEF Removals, Additions, Dropped

Numbers == Numbered /\ GoneForGood

\* The numbers are kept when NM keeps its connections.
LEMMA KeptNumbers ==
  ASSUME Numbers, PathsKept, UNCHANGED <<nmConnections, paths>>
  PROVE  Numbers'
BY DEF Numbers, Numbered, GoneForGood, PathsKept

\* NM by itself only drops a connection.
LEMMA NmNumbers ==
  ASSUME TypeOK, Structure, Numbers, NmDoes
  PROVE  Numbers'
<1>1. UNCHANGED <<paths, removed_conn_q, new_conn_q>>
  BY DEF NmDoes, NmGoesOn, NmEnds, NmQuietly, queues
<1>2. CASE UNCHANGED nmConnections /\ Removals' = {} /\ Additions' = {}
  BY <1>1, <1>2 DEF Numbers, Numbered, GoneForGood
<1>3. CASE NmEnds
  <2>1. /\ nmConnections' = nmConnections \ Dropped /\ Removals' \subseteq Dropped /\ Additions' = {}
    BY <1>3 DEF NmEnds
  <2>2. Dropped \subseteq nmConnections
    <3>1. nm.path \in nmConnections
      BY <1>3 DEF NmEnds, Structure, Working
    <3> QED
      BY <3>1 DEF Dropped
  <2> QED
    BY <1>1, <2>1, <2>2 DEF Numbers, Numbered, GoneForGood
<1> QED
  BY <1>2, <1>3 DEF NmDoes, NmGoesOn

\* A connection that a worker adds gets a new number.
LEMMA WorkerNumbers ==
  ASSUME TypeOK, Structure, Numbers, NEW w \in Workers, WorkerDoes(w)
  PROVE  Numbers'
<1>1. UNCHANGED <<removed_conn_q, new_conn_q>>
  BY DEF WorkerDoes, Forgets, Errs, Connects, ResyncDoes, WorkerUnchanged, queues
<1>2. CASE UNCHANGED <<nmConnections, paths, bus>>
  BY <1>1, <1>2, UnchangedPaths DEF Numbers, Numbered, GoneForGood
<1>3. ASSUME NEW path \in Paths, NEW gone \in SUBSET Paths, NEW new \in BOOLEAN,
             Connects(w, path, gone, new)
      PROVE  Numbers'
  <2>1. /\ nmConnections' = (nmConnections \ gone) \cup {path} /\ path \notin gone
        /\ Removals' \subseteq Removals \cup gone
        /\ Additions' = Additions \cup (IF new THEN {path} ELSE {})
    BY <1>3 DEF Connects, Begins
  <2>2. gone \subseteq nmConnections
    <3>1. gone \subseteq {nm.path} /\ gone \subseteq Paths
      BY <1>3 DEF Connects, Begins
    <3>2. nm.path \in Paths => nm.path \in nmConnections
      BY NmFacts, PathIsNotNoPath DEF Structure
    <3> QED
      BY <3>1, <3>2
  <2>3. CASE new
    <3>1. path.n = paths + 1 /\ paths' = paths + 1
      BY <1>3, <2>3 DEF Connects
    <3>2. \A p \in Paths : p.n \in Nat
      BY DEF Paths
    <3>3. path \notin removed_conn_q \cup Removals
      <4>1. path \in removed_conn_q \cup Removals => path.n <= paths
        BY DEF Numbers, Numbered
      <4>2. paths \in Nat
        BY DEF TypeOK
      <4> QED
        BY <3>1, <4>1, <4>2
    <3>4. GoneForGood'
      BY <1>1, <2>1, <2>2, <3>3 DEF Numbers, GoneForGood
    <3>5. Numbered'
      <4>1. ASSUME NEW p \in nmConnections' \cup removed_conn_q' \cup new_conn_q' \cup Removals' \cup Additions'
            PROVE  p.n <= paths'
        <5>1. p = path \/ p \in nmConnections \cup removed_conn_q \cup new_conn_q \cup Removals \cup Additions
          BY <1>1, <2>1, <2>2, <4>1
        <5>2. p = path \/ p.n <= paths
          BY <5>1 DEF Numbers, Numbered
        <5>3. p \in Paths
          BY <5>1, QueuesType DEF TypeOK
        <5>4. p.n \in Nat /\ paths \in Nat
          BY <3>2, <5>3 DEF TypeOK
        <5> QED
          BY <3>1, <5>2, <5>4
      <4> QED
        BY <4>1 DEF Numbered
    <3> QED
      BY <3>4, <3>5 DEF Numbers
  <2>4. CASE ~new
    <3>1. path \in nmConnections /\ paths' = paths
      BY <1>3, <2>4 DEF Connects
    <3> QED
      BY <1>1, <2>1, <2>2, <2>4, <3>1 DEF Numbers, Numbered, GoneForGood
  <2> QED
    BY <2>3, <2>4
<1>4. CASE Forgets(w)
  <2> DEFINE path == connections[worker[w].value.ssid]
  <2>1. CASE DeletesNothing(path)
    BY <1>2, <1>4, <2>1 DEF DeletesNothing, Forgets
  <2>2. CASE path \in Paths /\ (DeletesOther(path) \/ DeletesActive(path))
    <3>1. /\ nmConnections' = nmConnections \ {path} /\ path \in nmConnections
          /\ Removals' = Removals \cup {path} /\ Additions' = Additions /\ paths' = paths
      BY <1>4, <2>2 DEF Forgets, DeletesOther, DeletesActive
    <3> QED
      BY <1>1, <3>1 DEF Numbers, Numbered, GoneForGood
  <2> QED
    BY <1>4, <2>1, <2>2 DEF Forgets
<1>5. CASE Errs(w) \/ ResyncDoes(w)
  BY <1>2, <1>5 DEF Errs, ResyncDoes, nmVars
<1> QED
  BY <1>3, <1>4, <1>5 DEF WorkerDoes

\* Every step keeps the numbers.
LEMMA NumbersStep ==
  ASSUME TypeOK, Structure, Numbers, StepDoes
  PROVE  Numbers'
<1>1. CASE MonitorActs
  <2>1. UNCHANGED <<nmConnections, paths>>
    BY <1>1 DEF MonitorActs, Receive, Deliver, Handles, Connecting, LooksUp, Assigns, Saves, nmVars
  <2>2. PathsKept
    <3>1. CASE Receive
      BY <3>1, ReceivedPaths
    <3>2. CASE Deliver
      BY <3>2, DeliveredPaths DEF PathsKept
    <3>3. CASE UNCHANGED <<bus, removed_conn_q, new_conn_q>>
      BY <3>3, UnchangedPaths DEF PathsKept
    <3> QED
      BY <1>1, <3>1, <3>2, <3>3 DEF MonitorActs, Handles, Connecting, LooksUp, Assigns, Saves, nmVars, queues
  <2> QED
    BY <2>1, <2>2, KeptNumbers
<1>2. CASE RunsCallbacks
  BY <1>2, UnchangedPaths, KeptNumbers DEF RunsCallbacks, nmVars, queues, PathsKept
<1>3. ASSUME NEW w \in Workers, UserActs(w) PROVE Numbers'
  <2>1. CASE StartsWorker(w)
    BY <2>1, UnchangedPaths, KeptNumbers DEF StartsWorker, nmVars, queues, PathsKept
  <2>2. CASE \E ssid \in Ssids : \E pc \in {"forget", "activate"} : Chooses(w, ssid, pc)
    BY <2>2, MarkedPaths, KeptNumbers DEF Chooses, PathsKept
  <2> QED
    BY <1>3, <2>1, <2>2 DEF UserActs
<1> QED
  BY <1>1, <1>2, <1>3, NmNumbers, WorkerNumbers DEF StepDoes

-----------------------------------------------------------------------------
(* The network in the picture, as long as no race has happened *)

Chooser(w) == worker[w].pc \in ChooserPcs

\* Somebody is about to bring the picture up to date: a choice is on its way to NM, or a worker is
\* asking NM.
Pending ==
  \E w \in Workers : \/ Chooser(w) \/ worker[w].pc \in {"resync", "assign"}
                     \/ worker[w].pc = "reply" /\ worker[w].fresh

IsRemoval(x) == x.state = "DISCONNECTED" /\ x.reason = "CONNECTION_REMOVED"

\* NM has one connection of a network, and one choice is on its way to NM.
OneConnection == \A p, q \in nmConnections : p.ssid = q.ssid => p = q
OneChoice     == \A v, w \in Workers : Chooser(v) /\ Chooser(w) => v = w
\* The picture shows the network chosen, or none.
ChoiceShown == \A w \in Workers : Chooser(w) => wifi_state.ssid \in {NoSsid, worker[w].value.ssid}
\* It shows the network that NM works on, or none.
ConnectionShown == Working => wifi_state.ssid \in {NoSsid, nm.path.ssid} \/ Pending
\* When NM has deleted the connection that it worked on, and said so last: the picture shows its
\* network or none, and NM has no other connection of the network.
RemovalShown ==
  nm.phase = "disconnected" => \A x \in Lasts : IsRemoval(x) =>
    /\ wifi_state.ssid \in {NoSsid, x.of} \/ Pending
    /\ \A q \in nmConnections : q.ssid # x.of
\* When all has been handled, the picture shows that the device is disconnected.
NothingShown == nm.phase = "disconnected" /\ Sigs = {} => wifi_state = Disconnected \/ Pending
\* While the rejection of a password is pending, nobody has chosen a network since, and the picture
\* shows the network whose password it was, or none.
RejectedShown ==
  \A x \in Sigs : IsWrongPassword(x) /\ ~x.late =>
    /\ nm.phase = "disconnected" /\ wifi_state.ssid \in {NoSsid, x.of}
    /\ \A w \in Workers : ~Chooser(w)

Shown ==
  /\ OneConnection /\ OneChoice /\ ChoiceShown /\ ConnectionShown /\ RemovalShown /\ NothingShown
  /\ RejectedShown

\* A step that NM has no part in, but for forgetting a connection that it does not work on.
Moves ==
  /\ nm' = nm /\ nmConnections' \subseteq nmConnections
  /\ \A w \in Workers : Chooser(w)' => Chooser(w) /\ worker'[w].value = worker[w].value
  /\ Sigs' \subseteq Sigs /\ Lasts' \subseteq Lasts
  /\ \/ wifi_state'.ssid = NoSsid
     \/ wifi_state'.ssid = wifi_state.ssid /\ (Pending => Pending')
     \/ wifi_state'.ssid = nm.path.ssid /\ \A w \in Workers : ~Chooser(w)'
  /\ nm.phase = "disconnected" /\ Sigs' = {} => wifi_state' = Disconnected \/ Pending'

\* Steps that NM has no part in keep what the picture shows.
LEMMA MovesShown ==
  ASSUME TypeOK, Shown, Moves
  PROVE  Shown'
<1>1. nm.phase = "disconnected" => nm.path.ssid = NoSsid
  BY NmFacts, PathIsNotNoPath DEF Working
<1>2. OneConnection'
  BY DEF Shown, OneConnection, Moves
<1>3. OneChoice'
  BY DEF Shown, OneChoice, Moves
<1>4. ChoiceShown'
  BY DEF Shown, ChoiceShown, Moves
<1>5. ConnectionShown'
  BY DEF Shown, ConnectionShown, Moves, Working
<1>6. RemovalShown'
  BY <1>1 DEF Shown, RemovalShown, Moves
<1>7. NothingShown'
  BY DEF Shown, NothingShown, Moves
<1>8. RejectedShown'
  <2> SUFFICES ASSUME NEW x \in Sigs', IsWrongPassword(x), ~x.late
               PROVE  /\ nm'.phase = "disconnected" /\ wifi_state'.ssid \in {NoSsid, x.of}
                      /\ \A w \in Workers : ~Chooser(w)'
    BY DEF RejectedShown, IsWrongPassword
  <2>1. /\ nm.phase = "disconnected" /\ wifi_state.ssid \in {NoSsid, x.of}
        /\ \A w \in Workers : ~Chooser(w)
    BY DEF Moves, Shown, RejectedShown
  <2> QED
    BY <1>1, <2>1 DEF Moves
<1> QED
  BY <1>2, <1>3, <1>4, <1>5, <1>6, <1>7, <1>8 DEF Shown

\* A chooser is choosing, and so is everybody who is pending.
LEMMA ChoosersChoose ==
  ASSUME TypeOK
  PROVE  /\ Pending => Choosing(Workers)
         /\ \A w \in Workers : Chooser(w) => Choosing(Workers) /\ Pending
BY DEF Pending, Chooser, ChooserPcs, Choosing

\* Steps of NM by itself do: the picture shows the network, or none, before they are handled.
LEMMA NmShown ==
  ASSUME TypeOK, TypeOK', Structure, Shown, NmDoes
  PROVE  Shown'
<1>1. /\ Sigs = {} /\ wifi_state' = wifi_state /\ worker' = worker
  BY DEF NmDoes, NmGoesOn, NmEnds, NmQuietly
<1>2. nmConnections' \subseteq nmConnections
  BY DEF NmDoes, NmGoesOn, NmEnds
<1>3. OneConnection' /\ OneChoice' /\ ChoiceShown'
  BY <1>1, <1>2 DEF Shown, OneConnection, OneChoice, ChoiceShown, Chooser
<1>4. Pending' = Pending
  BY <1>1 DEF Pending, Chooser
<1>5. ConnectionShown'
  <2>1. CASE ~Working /\ \E path \in nmConnections : NmGoesOn("prepare", path, "PREPARE")
    <3>1. wifi_state = Disconnected \/ Pending
      BY <1>1, <2>1 DEF Shown, NothingShown, Working
    <3> QED
      BY <1>1, <1>4, <3>1 DEF ConnectionShown, Disconnected
  <2>2. CASE Working /\ nm'.path = nm.path
    BY <1>1, <1>4, <2>2 DEF Shown, ConnectionShown
  <2>3. CASE NmEnds
    BY <2>3 DEF NmEnds, ConnectionShown, Working
  <2> QED
    BY <2>1, <2>2, <2>3 DEF NmDoes, NmGoesOn, Working
<1>6. RemovalShown' /\ NothingShown'
  <2>1. CASE nm'.phase # "disconnected"
    BY <2>1 DEF RemovalShown, NothingShown
  <2>2. CASE NmEnds
    BY <2>2 DEF NmEnds, RemovalShown, NothingShown, IsRemoval
  <2> QED
    BY <2>1, <2>2 DEF NmDoes, NmGoesOn
<1>7. RejectedShown'
  <2>1. CASE NmEnds
    <3> SUFFICES ASSUME NEW x \in Sigs', IsWrongPassword(x), ~x.late
                 PROVE  /\ nm'.phase = "disconnected" /\ wifi_state'.ssid \in {NoSsid, x.of}
                        /\ \A w \in Workers : ~Chooser(w)'
      BY DEF RejectedShown, IsWrongPassword
    <3>1. nm'.phase = "disconnected" /\ x.of = nm.path.ssid /\ ~Choosing(Workers) /\ Working
      BY <2>1 DEF NmEnds, Working
    <3>2. ~Pending /\ \A w \in Workers : ~Chooser(w)
      BY <3>1, ChoosersChoose
    <3>3. wifi_state.ssid \in {NoSsid, nm.path.ssid}
      BY <3>1, <3>2 DEF Shown, ConnectionShown
    <3> QED
      BY <1>1, <3>1, <3>2, <3>3 DEF Chooser
  <2>2. CASE ~NmEnds
    <3>1. \A x \in Sigs' : x.state \in {"PREPARE", "ACTIVATED"}
      BY <2>2 DEF NmDoes, NmGoesOn
    <3> QED
      BY <3>1 DEF RejectedShown, IsWrongPassword
  <2> QED
    BY <2>1, <2>2
<1> QED
  BY <1>3, <1>5, <1>6, <1>7 DEF Shown

\* A worker has brought the choice to NM.
LEMMA ConnectsShown ==
  ASSUME TypeOK, TypeOK', Shown, ~raced', NEW w \in Workers,
         NEW path \in Paths, NEW gone \in SUBSET Paths, NEW new \in BOOLEAN,
         Connects(w, path, gone, new)
  PROVE  Shown'
<1>1. /\ Chooser(w) /\ wifi_state' = wifi_state /\ worker'[w].pc = "idle"
      /\ \A v \in Workers \ {w} : worker'[v] = worker[v]
      /\ nm'.phase = "prepare" /\ nm'.path = path
      /\ path.ssid = worker[w].value.ssid
      /\ nmConnections' = (nmConnections \ gone) \cup {path}
  BY DEF Connects, Begins, GoesOn, Chooser, ChooserPcs
<1>2. OneConnection'
  <2>1. path \in nmConnections \/ \A p \in nmConnections : p.ssid # path.ssid
    BY DEF Connects
  <2> QED
    BY <1>1, <2>1 DEF Shown, OneConnection
<1>3. OneChoice' /\ ChoiceShown'
  BY <1>1 DEF Shown, OneChoice, ChoiceShown, Chooser, ChooserPcs
<1>4. ConnectionShown'
  BY <1>1 DEF Shown, ChoiceShown, ConnectionShown
<1>5. RemovalShown' /\ NothingShown'
  BY <1>1 DEF RemovalShown, NothingShown
<1>6. RejectedShown'
  <2>1. \A x \in Sigs : ~(IsWrongPassword(x) /\ ~x.late)
    BY <1>1 DEF Shown, RejectedShown
  <2>2. \A x \in Sigs' \ Sigs : ~IsWrongPassword(x)
    BY DEF Connects, Begins, IsWrongPassword
  <2> QED
    BY <2>1, <2>2 DEF RejectedShown, IsWrongPassword
<1> QED
  BY <1>2, <1>3, <1>4, <1>5, <1>6 DEF Shown

\* A worker has NM forget the connection that the device is on.
LEMMA DeletesActiveShown ==
  ASSUME TypeOK, TypeOK', Shown, NEW w \in Workers, Forgets(w),
         NEW path \in Paths, DeletesActive(path)
  PROVE  Shown'
<1>1. /\ wifi_state' = wifi_state /\ nm'.phase = "disconnected" /\ nmConnections' = nmConnections \ {path}
      /\ path = nm.path /\ path \in nmConnections /\ Working
  BY DEF Forgets, DeletesActive
<1>2. \A v \in Workers : Chooser(v)' => Chooser(v) /\ worker'[v].value = worker[v].value
  BY DEF Forgets, GoesOn, Chooser, ChooserPcs
<1>3. Pending => Pending'
  <2>1. \A v \in Workers \ {w} : worker'[v] = worker[v]
    BY DEF Forgets, GoesOn
  <2>2. worker[w].pc \in {"forget", "delete"} /\ (worker[w].pc = "forget" => worker'[w].pc = "add")
    BY DEF Forgets, GoesOn
  <2> QED
    BY <2>1, <2>2 DEF Pending, Chooser, ChooserPcs
<1>4. OneConnection' /\ OneChoice' /\ ChoiceShown'
  BY <1>1, <1>2 DEF Shown, OneConnection, OneChoice, ChoiceShown
<1>5. ConnectionShown'
  BY <1>1 DEF ConnectionShown, Working
<1>6. RemovalShown'
  <2>1. \A x \in Lasts' : x.of = path.ssid
    BY DEF DeletesActive
  <2>2. wifi_state.ssid \in {NoSsid, path.ssid} \/ Pending
    BY <1>1 DEF Shown, ConnectionShown
  <2>3. \A q \in nmConnections' : q.ssid # path.ssid
    BY <1>1 DEF Shown, OneConnection
  <2> QED
    BY <1>1, <1>3, <2>1, <2>2, <2>3 DEF RemovalShown
<1>7. NothingShown'
  BY DEF NothingShown, DeletesActive
<1>8. RejectedShown'
  <2>1. \A x \in Sigs : ~(IsWrongPassword(x) /\ ~x.late)
    BY <1>1 DEF Shown, RejectedShown, Working
  <2>2. \A x \in Sigs' \ Sigs : ~IsWrongPassword(x)
    BY DEF DeletesActive, IsWrongPassword
  <2> QED
    BY <2>1, <2>2 DEF RejectedShown, IsWrongPassword
<1> QED
  BY <1>4, <1>5, <1>6, <1>7, <1>8 DEF Shown

\* The user has chosen a network.
LEMMA ChoosesShown ==
  ASSUME TypeOK, TypeOK', Shown, ~raced', NEW w \in Workers, NEW ssid \in Ssids,
         NEW pc \in {"forget", "activate"}, Chooses(w, ssid, pc), SignalsMarked
  PROVE  Shown'
<1>1. /\ nm' = nm /\ nmConnections' = nmConnections /\ wifi_state'.ssid = ssid
      /\ worker'[w].pc = pc /\ worker'[w].value = wifi_state'
      /\ \A v \in Workers \ {w} : worker'[v].pc = worker[v].pc
      /\ \A v \in Workers : ~Chooser(v)
  BY DEF Chooses, Chooser
<1>2. Chooser(w)' /\ \A v \in Workers \ {w} : ~Chooser(v)'
  BY <1>1 DEF Chooser, ChooserPcs
<1>3. Pending'
  BY <1>2 DEF Pending
<1>4. OneConnection' /\ OneChoice' /\ ChoiceShown'
  BY <1>1, <1>2 DEF Shown, OneConnection, OneChoice, ChoiceShown
<1>5. ConnectionShown' /\ NothingShown'
  BY <1>3 DEF ConnectionShown, NothingShown
<1>6. /\ \A x \in Lasts' : \E y \in Lasts : x.of = y.of /\ IsRemoval(x) = IsRemoval(y)
      /\ \A x \in Sigs' : x.late
  BY MarkedLateType, StatesType DEF SignalsMarked, IsRemoval
<1>7. RemovalShown'
  <2>1. ASSUME NEW x \in Lasts', IsRemoval(x), nm.phase = "disconnected", NEW q \in nmConnections
        PROVE  q.ssid # x.of
    BY <1>6, <2>1 DEF Shown, RemovalShown
  <2> QED
    BY <1>1, <1>3, <2>1 DEF RemovalShown, IsRemoval
<1>8. RejectedShown'
  BY <1>6 DEF RejectedShown
<1> QED
  BY <1>4, <1>5, <1>7, <1>8 DEF Shown

\* Steps that leave the picture alone.
LEMMA RestMoves ==
  ASSUME TypeOK, Shown, nm' = nm, nmConnections' \subseteq nmConnections, wifi_state' = wifi_state, SignalsKept,
         \A w \in Workers : Chooser(w)' => Chooser(w) /\ worker'[w].value = worker[w].value,
         Pending => Pending'
  PROVE  Moves
BY DEF SignalsKept, Moves, Shown, NothingShown

\* Threads that go on with what they do are as pending as before.
LEMMA SameWorkers ==
  ASSUME WorkersKept, \A w \in Workers : worker'[w].fresh = worker[w].fresh
  PROVE  /\ \A w \in Workers : Chooser(w)' => Chooser(w) /\ worker'[w].value = worker[w].value
         /\ Pending' = Pending
BY DEF WorkersKept, Pending, Chooser

\* So are threads that do nothing.
LEMMA StillWorkers ==
  ASSUME worker' = worker
  PROVE  /\ \A w \in Workers : Chooser(w)' => Chooser(w) /\ worker'[w].value = worker[w].value
         /\ Pending' = Pending
BY DEF Pending, Chooser

\* The handler of a signal takes the network of a rejected password or of a lost connection out of
\* the picture.
LEMMA HandlesMoves ==
  ASSUME TypeOK, SaysNm, Shown,
         \A x \in Lasts : nm.phase = "disconnected" /\ IsRemoval(x) /\ StatesIn(bus) = {} /\ removed_conn_q = {} =>
           connections[x.of] = NoPath,
         ~raced', NEW signal, Handles(signal)
  PROVE  Moves
<1>1. /\ nm' = nm /\ nmConnections' = nmConnections /\ WorkersKept /\ SignalHandled
      /\ signal = Head(state_q) /\ signal \in StateSignals /\ bus' = bus
  BY DEF Handles, nmVars
<1>2. Sigs' \subseteq Sigs /\ Lasts' \subseteq Lasts
  BY <1>1 DEF SignalHandled
<1>3. \A w \in Workers : Chooser(w)' => Chooser(w) /\ worker'[w].value = worker[w].value
  BY <1>1 DEF WorkersKept, Chooser
<1>4. CASE Clears(signal)
  <2>1. wifi_state' = Disconnected
    BY <1>4 DEF Handles
  <2> QED
    BY <1>1, <1>2, <1>3, <2>1 DEF Moves, Disconnected
<1>5. CASE ~Clears(signal)
  <2>1. wifi_state' = wifi_state /\ worker' = worker
    BY <1>5 DEF Handles
  <2>2. Pending' = Pending
    BY <2>1, StillWorkers
  <2>3. ASSUME nm.phase = "disconnected", Sigs' = {} PROVE Pending
    <3>1. Lasts = {signal} /\ StatesIn(bus) = {}
      BY <1>1, <2>3 DEF SignalHandled, Sigs
    <3>2. signal.state = "DISCONNECTED" /\ signal.reason \in {"NONE", "CONNECTION_REMOVED"}
      <4>1. Sigs # {}
        BY <1>1 DEF SignalHandled
      <4> QED
        BY <2>3, <3>1, <4>1 DEF SaysNm, DisconnectedLast
    <3>3. KeepsState(signal)
      BY <1>5, <3>2 DEF Clears
    <3>4. /\ signal.reason = "CONNECTION_REMOVED" /\ wifi_state.ssid # NoSsid
          /\ connections[wifi_state.ssid] # NoPath
      BY <3>2, <3>3 DEF KeepsState
    <3>5. removed_conn_q = {}
      BY <3>4 DEF Handles
    <3>6. connections[signal.of] = NoPath
      BY <2>3, <3>1, <3>2, <3>4, <3>5 DEF IsRemoval
    <3>7. wifi_state.ssid \in {NoSsid, signal.of} \/ Pending
      BY <2>3, <3>1, <3>2, <3>4 DEF Shown, RemovalShown, IsRemoval
    <3> QED
      BY <3>4, <3>6, <3>7
  <2> QED
    BY <1>1, <1>2, <1>3, <2>1, <2>2, <2>3 DEF Moves
<1> QED
  BY <1>4, <1>5

\* The branches PREPARE and ACTIVATED have not written yet.
LEMMA ConnectingMoves ==
  ASSUME TypeOK, SaysNm, Shown, NEW signal, Connecting(signal)
  PROVE  Moves
<1>1. /\ nm' = nm /\ nmConnections' = nmConnections /\ wifi_state' = wifi_state /\ worker' = worker
      /\ SignalHandled /\ signal = Head(state_q) /\ signal.state \in {"PREPARE", "ACTIVATED"}
  BY DEF Connecting, nmVars
<1>2. Sigs' \subseteq Sigs /\ Lasts' \subseteq Lasts
  BY <1>1 DEF SignalHandled
<1>3. nm.phase = "disconnected" => Sigs' # {}
  BY <1>1 DEF SignalHandled, SaysNm, DisconnectedLast
<1> QED
  BY <1>1, <1>2, <1>3, StillWorkers DEF Moves

\* What the handler writes is the network in the picture, none, or that of NM, unless there is a
\* race.
LEMMA AssignsMoves ==
  ASSUME TypeOK, SaysNm, Snapshots, Shown, ~raced', Assigns
  PROVE  Moves
<1>1. /\ nm' = nm /\ nmConnections' = nmConnections /\ WorkersKept /\ SignalsKept /\ wifi_state' = monitor.value
      /\ \A w \in Workers : worker'[w].fresh = worker[w].fresh
  BY DEF Assigns, nmVars
<1>2. /\ \A w \in Workers : Chooser(w)' => Chooser(w) /\ worker'[w].value = worker[w].value
      /\ Pending' = Pending
  BY <1>1, SameWorkers
<1>3. nm.phase = "disconnected" => Sigs' # {}
  <2>1. monitor.pc = "assign" /\ Lasts \subseteq Sigs /\ Sigs' = Sigs
    BY <1>1, StatesType DEF Assigns, SignalsKept
  <2> QED
    BY <2>1 DEF SaysNm, DisconnectedLast
<1>4. CASE monitor.value.ssid = wifi_state.ssid
  BY <1>1, <1>2, <1>3, <1>4 DEF Moves, SignalsKept
<1>5. CASE monitor.value.ssid # wifi_state.ssid
  <2>1. ~Choosing(Workers) /\ monitor.value.ssid \in {NoSsid, nm.path.ssid}
    BY <1>5 DEF Assigns, Snapshots
  <2>2. \A w \in Workers : ~Chooser(w)'
    BY <1>2, <2>1, ChoosersChoose
  <2> QED
    BY <1>1, <1>2, <1>3, <2>1, <2>2 DEF Moves, SignalsKept
<1> QED
  BY <1>4, <1>5

\* So is what _init_wifi_state writes.
LEMMA ResyncsMoves ==
  ASSUME TypeOK, Snapshots, Shown, ~raced', NEW w \in Workers, Resyncs(w), SignalsKept,
         UNCHANGED <<nmVars, connections, queues, callback_queue, userVars, unsaved>>
  PROVE  Moves
<1>1. /\ nm' = nm /\ nmConnections' = nmConnections /\ wifi_state' = worker[w].value
      /\ worker'[w].pc = "idle" /\ worker[w].pc = "assign"
      /\ worker[w].value.ssid \in {NoSsid, nm.path.ssid} /\ worker[w].value.status = Status(nm.phase)
      /\ worker[w].value \in WifiState
      /\ \A v \in Workers \ {w} : worker'[v].pc = worker[v].pc /\ worker'[v].value = worker[v].value
      /\ worker[w].value.ssid # wifi_state.ssid => ~Choosing(Workers \ {w})
  BY DEF Resyncs, nmVars, TypeOK, WorkerThread, Snapshots
<1>2. \A v \in Workers : Chooser(v)' => v # w /\ Chooser(v) /\ worker'[v].value = worker[v].value
  BY <1>1 DEF Chooser, ChooserPcs
<1>3. nm.phase = "disconnected" => wifi_state' = Disconnected
  <2>1. nm.phase = "disconnected" => nm.path.ssid = NoSsid /\ Status(nm.phase) = "DISCONNECTED"
    BY NmFacts, PathIsNotNoPath DEF Working, Status
  <2> QED
    BY <1>1, <2>1 DEF Disconnected, WifiState
<1>4. CASE \A v \in Workers : ~Chooser(v)'
  BY <1>1, <1>2, <1>3, <1>4 DEF Moves, SignalsKept
<1>5. CASE \E v \in Workers : Chooser(v)'
  <2>1. Pending'
    BY <1>5 DEF Pending
  <2>2. Choosing(Workers \ {w})
    <3>1. PICK v \in Workers : Chooser(v)'
      BY <1>5
    <3>2. v # w /\ Chooser(v)
      BY <1>2, <3>1
    <3> QED
      BY <3>2 DEF Choosing, Chooser, ChooserPcs
  <2>3. wifi_state'.ssid = wifi_state.ssid
    BY <1>1, <2>2
  <2> QED
    BY <1>1, <1>2, <1>3, <2>1, <2>3 DEF Moves, SignalsKept
<1> QED
  BY <1>4, <1>5

\* Every other step of a worker leaves NM with the connection that it works on.
LEMMA WorkerMoves ==
  ASSUME TypeOK, TypeOK', Snapshots, Shown, ~raced', NEW w \in Workers, WorkerDoes(w),
         ~\E path \in Paths : DeletesActive(path) \/ \E gone \in SUBSET Paths : \E new \in BOOLEAN :
            Connects(w, path, gone, new)
  PROVE  Moves
<1>1. CASE Forgets(w)
  <2>1. /\ worker[w].pc \in {"forget", "delete"} /\ wifi_state' = wifi_state
        /\ worker'[w].pc = (IF worker[w].pc = "forget" THEN "add" ELSE "idle")
        /\ worker[w].pc = "forget" => worker'[w].value = worker[w].value
        /\ \A v \in Workers \ {w} : worker'[v] = worker[v]
    BY <1>1 DEF Forgets, GoesOn
  <2>2. /\ \A v \in Workers : Chooser(v)' => Chooser(v) /\ worker'[v].value = worker[v].value
        /\ Pending => Pending'
    BY <2>1 DEF Pending, Chooser, ChooserPcs
  <2>3. nm' = nm /\ nmConnections' \subseteq nmConnections /\ SignalsKept
    BY <1>1 DEF Forgets, DeletesNothing, DeletesOther
  <2> QED
    BY <2>1, <2>2, <2>3, RestMoves
<1>2. CASE Errs(w)
  <2>1. /\ worker'[w].pc = "resync" /\ \A v \in Workers \ {w} : worker'[v] = worker[v]
        /\ nm' = nm /\ nmConnections' = nmConnections /\ wifi_state' = wifi_state /\ SignalsKept
    BY <1>2 DEF Errs, GoesOn
  <2>2. /\ \A v \in Workers : Chooser(v)' => Chooser(v) /\ worker'[v].value = worker[v].value
        /\ Pending => Pending'
    BY <2>1 DEF Pending, Chooser, ChooserPcs
  <2> QED
    BY <2>1, <2>2, RestMoves
<1>3. CASE ResyncDoes(w) /\ SignalsKept
  <2>1. nm' = nm /\ nmConnections' = nmConnections
    BY <1>3 DEF ResyncDoes, nmVars
  <2>2. CASE Asks(w) \/ Answers(w)
    <3>1. /\ wifi_state' = wifi_state /\ \A v \in Workers \ {w} : worker'[v] = worker[v]
          /\ \/ worker[w].pc = "resync" /\ worker'[w].pc = "reply" /\ worker'[w].fresh
             \/ worker[w].pc = "reply" /\ worker'[w].pc = IF worker[w].fresh THEN "assign" ELSE "idle"
      BY <2>2 DEF Asks, Answers
    <3>2. /\ \A v \in Workers : Chooser(v)' => Chooser(v) /\ worker'[v].value = worker[v].value
          /\ Pending => Pending'
      BY <3>1 DEF Pending, Chooser, ChooserPcs
    <3> QED
      BY <1>3, <2>1, <3>1, <3>2, RestMoves
  <2>3. CASE Resyncs(w)
    BY <1>3, <2>3, ResyncsMoves DEF ResyncDoes
  <2> QED
    BY <1>3, <2>2, <2>3 DEF ResyncDoes
<1> QED
  BY <1>1, <1>2, <1>3 DEF WorkerDoes

\* So does every step of the monitor thread.
LEMMA MonitorMoves ==
  ASSUME TypeOK, Structure, SaysNm, Snapshots, Shown,
         \A x \in Lasts : nm.phase = "disconnected" /\ IsRemoval(x) /\ StatesIn(bus) = {} /\ removed_conn_q = {} =>
           connections[x.of] = NoPath,
         ~raced', MonitorActs
  PROVE  Moves
<1>1. CASE Receive
  BY <1>1, ReceiveMonitor, StillWorkers, RestMoves
<1>2. CASE Deliver /\ SignalsKept
  BY <1>2, StillWorkers, RestMoves DEF Deliver
<1>3. CASE LooksUp
  BY <1>3, StillWorkers, RestMoves DEF LooksUp, nmVars
<1>4. CASE Saves
  BY <1>4, StillWorkers, RestMoves DEF Saves
<1>5. CASE Handles(Head(state_q))
  BY <1>5, HandlesMoves
<1>6. CASE Connecting(Head(state_q))
  BY <1>6, ConnectingMoves
<1>7. CASE Assigns
  BY <1>7, AssignsMoves
<1> QED
  BY <1>1, <1>2, <1>3, <1>4, <1>5, <1>6, <1>7 DEF MonitorActs

\* So does starting a worker.
LEMMA StartsMoves ==
  ASSUME TypeOK, Shown, NEW w \in Workers, StartsWorker(w), SignalsKept
  PROVE  Moves
<1>1. /\ worker[w].pc = "idle" /\ worker'[w].pc \in {"delete", "resync"}
      /\ \A v \in Workers \ {w} : worker'[v] = worker[v]
      /\ nm' = nm /\ nmConnections' = nmConnections /\ wifi_state' = wifi_state
  BY DEF StartsWorker, nmVars
<1>2. /\ \A v \in Workers : Chooser(v)' => Chooser(v) /\ worker'[v].value = worker[v].value
      /\ Pending => Pending'
  BY <1>1 DEF Pending, Chooser, ChooserPcs
<1> QED
  BY <1>1, <1>2, RestMoves

\* So does running the callbacks.
LEMMA CallbackMoves ==
  ASSUME TypeOK, Shown, RunsCallbacks
  PROVE  Moves
BY StillWorkers, RestMoves DEF RunsCallbacks, nmVars

-----------------------------------------------------------------------------
(* The removal of a connection comes before the change of state *)

\* The paths whose removal a sequence announces before a state change.
RemovedFirst(q) ==
  {q[i].path : i \in {j \in DOMAIN q : q[j].kind = "removed" /\ \E k \in DOMAIN q : k > j /\ q[k].kind = "state"}}

\* Taking a signal from the front takes at most its own removal.
LEMMA RemovedFirstTail ==
  \A q \in Seq(Signals) : q # <<>> => \A p \in RemovedFirst(q) :
    p \in RemovedFirst(Tail(q)) \/ (Head(q).kind = "removed" /\ p = Head(q).path)
<1> SUFFICES ASSUME NEW q \in Seq(Signals), q # <<>>, NEW p \in RemovedFirst(q)
             PROVE  p \in RemovedFirst(Tail(q)) \/ (Head(q).kind = "removed" /\ p = Head(q).path)
  OBVIOUS
<1>1. /\ Len(q) \in Nat \ {0} /\ DOMAIN q = 1..Len(q) /\ Head(q) = q[1]
      /\ DOMAIN Tail(q) = 1..(Len(q) - 1) /\ \A i \in 1..(Len(q) - 1) : Tail(q)[i] = q[i + 1]
  OBVIOUS
<1>2. PICK i \in DOMAIN q : /\ q[i].kind = "removed" /\ p = q[i].path
                            /\ \E k \in DOMAIN q : k > i /\ q[k].kind = "state"
  BY DEF RemovedFirst
<1>3. PICK k \in DOMAIN q : k > i /\ q[k].kind = "state"
  BY <1>2
<1>4. CASE i = 1
  BY <1>1, <1>2, <1>4
<1>5. CASE i # 1
  <2>1. /\ i - 1 \in DOMAIN Tail(q) /\ Tail(q)[i - 1] = q[i]
        /\ k - 1 \in DOMAIN Tail(q) /\ Tail(q)[k - 1] = q[k] /\ k - 1 > i - 1
    BY <1>1, <1>3, <1>5
  <2> QED
    BY <1>2, <1>3, <2>1 DEF RemovedFirst
<1> QED
  BY <1>4, <1>5

\* A sequence that is added to another keeps the removals of both.
LEMMA RemovedFirstConcat ==
  \A q \in Seq(Signals) : \A r \in Seq(Signals) :
    RemovedFirst(q) \cup RemovedFirst(r) \subseteq RemovedFirst(q \o r)
<1> SUFFICES ASSUME NEW q \in Seq(Signals), NEW r \in Seq(Signals)
             PROVE  RemovedFirst(q) \cup RemovedFirst(r) \subseteq RemovedFirst(q \o r)
  OBVIOUS
<1> DEFINE t == q \o r
           n == Len(q)
           m == Len(r)
<1>1. /\ n \in Nat /\ m \in Nat /\ DOMAIN q = 1..n /\ DOMAIN r = 1..m /\ DOMAIN t = 1..(n + m)
      /\ \A i \in 1..n : t[i] = q[i]
      /\ \A i \in 1..m : t[n + i] = r[i]
  OBVIOUS
<1> HIDE DEF t, n, m
<1>2. ASSUME NEW p \in RemovedFirst(q) PROVE p \in RemovedFirst(t)
  <2>1. PICK i \in 1..n, k \in 1..n :
          q[i].kind = "removed" /\ p = q[i].path /\ k > i /\ q[k].kind = "state"
    BY <1>1, <1>2 DEF RemovedFirst
  <2>2. i \in DOMAIN t /\ k \in DOMAIN t /\ t[i] = q[i] /\ t[k] = q[k]
    BY <1>1
  <2> QED
    BY <2>1, <2>2 DEF RemovedFirst
<1>3. ASSUME NEW p \in RemovedFirst(r) PROVE p \in RemovedFirst(t)
  <2>1. PICK i \in 1..m, k \in 1..m :
          r[i].kind = "removed" /\ p = r[i].path /\ k > i /\ r[k].kind = "state"
    BY <1>1, <1>3 DEF RemovedFirst
  <2>2. n + i \in DOMAIN t /\ n + k \in DOMAIN t /\ t[n + i] = r[i] /\ t[n + k] = r[k] /\ n + k > n + i
    BY <1>1, <2>1
  <2> QED
    BY <2>1, <2>2 DEF RemovedFirst
<1> QED
  BY <1>2, <1>3 DEF t

\* Marking a sequence as late keeps its removals.
LEMMA RemovedFirstLate ==
  \A q \in Seq(Signals) : RemovedFirst(Late(q)) = RemovedFirst(q)
<1> SUFFICES ASSUME NEW q \in Seq(Signals) PROVE RemovedFirst(Late(q)) = RemovedFirst(q)
  OBVIOUS
<1> DEFINE r == Late(q)
<1>1. /\ DOMAIN r = DOMAIN q
      /\ \A i \in DOMAIN q : r[i] = IF q[i].kind = "state" THEN MarkedLate(q[i]) ELSE q[i]
  BY LateAt
<1>2. \A i \in DOMAIN q : q[i] \in Signals
  OBVIOUS
<1> HIDE DEF r
<1>3. \A i \in DOMAIN q : /\ r[i].kind = q[i].kind
                          /\ q[i].kind # "state" => r[i] = q[i]
  BY <1>1, <1>2, MarkedLateType, SignalKinds
<1>4. {j \in DOMAIN r : r[j].kind = "removed" /\ \E k \in DOMAIN r : k > j /\ r[k].kind = "state"}
        = {j \in DOMAIN q : q[j].kind = "removed" /\ \E k \in DOMAIN q : k > j /\ q[k].kind = "state"}
  BY <1>1, <1>3
<1>5. \A j \in DOMAIN q : q[j].kind = "removed" => r[j].path = q[j].path
  BY <1>3
<1>6. RemovedFirst(r) = RemovedFirst(q)
  BY <1>4, <1>5 DEF RemovedFirst
<1> QED
  BY <1>6 DEF r

\* Without a state change there is no removal before one.
LEMMA RemovedFirstStates ==
  \A q \in Seq(Signals) : StatesIn(q) = {} => RemovedFirst(q) = {}
BY DEF RemovedFirst, StatesIn

\* When NM has deleted the connection it worked on, the manager knows that its network has no
\* connection any more, or will know before it handles the change of state.
RemovalFirst ==
  nm.phase = "disconnected" => \A x \in Lasts : IsRemoval(x) =>
    connections[x.of] \in {NoPath} \cup removed_conn_q \cup RemovedFirst(bus)

\* Steps that keep the connections and the queues.
LEMMA KeptRemovalFirst ==
  ASSUME TypeOK, RemovalFirst, nm' = nm, connections' = connections, removed_conn_q' = removed_conn_q,
         RemovedFirst(bus) \subseteq RemovedFirst(bus'), Lasts' \subseteq Lasts
  PROVE  RemovalFirst'
<1>1. \A x \in Lasts : IsRemoval(x)' = IsRemoval(x)
  BY DEF IsRemoval
<1> DEFINE old == RemovedFirst(bus)
           new == RemovedFirst(bus')
<1>2. old \subseteq new
  OBVIOUS
<1>3. nm.phase = "disconnected" => \A x \in Lasts : IsRemoval(x) =>
        connections[x.of] \in {NoPath} \cup removed_conn_q \cup old
  BY DEF RemovalFirst
<1> HIDE DEF old, new
<1>4. nm'.phase = "disconnected" => \A x \in Lasts' : IsRemoval(x) =>
        connections'[x.of] \in {NoPath} \cup removed_conn_q' \cup new
  BY <1>1, <1>2, <1>3
<1> QED
  BY <1>4 DEF RemovalFirst, new, IsRemoval

\* recv_messages brings the map up to date before the state change is handled.
LEMMA ReceiveRemovalFirst ==
  ASSUME TypeOK, Structure, Shown, RemovalFirst, Receive
  PROVE  RemovalFirst'
<1> DEFINE Taken(kind) == {m.path : m \in {x \in {Head(bus)} : x.kind = kind}}
<1>1. nm' = nm /\ SignalsKept /\ bus \in Seq(Signals) /\ Lasts \subseteq Sigs /\ Sigs \subseteq StateSignals
  BY ReceiveMonitor, StatesType
<1>2. PICK removed \in SUBSET Paths, added \in SUBSET Paths :
        /\ UpdateConnections(removed, added) /\ removed_conn_q \subseteq removed
        /\ RemovedFirst(bus) \subseteq RemovedFirst(bus') \cup removed
  <2>1. CASE bus # <<>>
    <3>1. Taken("removed") \subseteq Paths /\ Taken("added") \subseteq Paths
      BY <2>1, HeadType, SignalKinds
    <3>2. UpdateConnections(removed_conn_q \cup Taken("removed"), new_conn_q \cup Taken("added"))
      BY <2>1 DEF Receive
    <3>3. bus' = Tail(bus)
      BY <2>1 DEF Receive
    <3>4. RemovedFirst(bus) \subseteq RemovedFirst(bus') \cup Taken("removed")
      BY <1>1, <2>1, <3>3, RemovedFirstTail
    <3> QED
      BY <3>1, <3>2, <3>4 DEF TypeOK
  <2>2. CASE bus = <<>>
    <3>1. UpdateConnections(removed_conn_q, new_conn_q) /\ bus' = bus
      BY <2>2 DEF Receive
    <3> QED
      BY <3>1 DEF TypeOK
  <2> QED
    BY <2>1, <2>2
<1>3. ASSUME nm.phase = "disconnected", NEW x \in Lasts, IsRemoval(x)
      PROVE  connections'[x.of] \in {NoPath} \cup RemovedFirst(bus')
  <2>1. connections[x.of] \in {NoPath} \cup removed_conn_q \cup RemovedFirst(bus)
    BY <1>3 DEF RemovalFirst
  <2>2. x.of \in Ssids
    BY <1>1, SignalKinds
  <2>3. {p \in added \cap nmConnections : p.ssid = x.of} = {}
    BY <1>3 DEF Shown, RemovalShown
  <2>4. connections'[x.of] = IF connections[x.of] \in removed THEN NoPath ELSE connections[x.of]
    <3>1. \A s \in Ssids : {p \in added \cap nmConnections : p.ssid = s} = {} =>
            connections'[s] = IF connections[s] \in removed THEN NoPath ELSE connections[s]
      BY <1>2 DEF UpdateConnections
    <3> QED
      BY <2>2, <2>3, <3>1
  <2> QED
    BY <1>2, <2>1, <2>4
<1> QED
  BY <1>1, <1>3 DEF RemovalFirst, SignalsKept, IsRemoval

\* While the monitor thread waits for a reply, the removal goes to its queue first.
LEMMA DeliverRemovalFirst ==
  ASSUME TypeOK, RemovalFirst, Deliver, SignalsKept
  PROVE  RemovalFirst'
<1>1. nm' = nm /\ connections' = connections /\ bus # <<>> /\ bus \in Seq(Signals) /\ bus' = Tail(bus)
      /\ removed_conn_q' = IF Head(bus).kind = "removed" THEN removed_conn_q \cup {Head(bus).path}
                           ELSE removed_conn_q
  BY StatesType DEF Deliver
<1>2. removed_conn_q \cup RemovedFirst(bus) \subseteq removed_conn_q' \cup RemovedFirst(bus')
  BY <1>1, RemovedFirstTail
<1>3. \A x \in Lasts : nm.phase = "disconnected" /\ IsRemoval(x) =>
        connections[x.of] \in {NoPath} \cup removed_conn_q \cup RemovedFirst(bus)
  BY DEF RemovalFirst
<1>4. \A x \in Lasts : nm.phase = "disconnected" /\ IsRemoval(x) =>
        connections[x.of] \in {NoPath} \cup removed_conn_q' \cup RemovedFirst(bus')
  BY <1>2, <1>3
<1> QED
  BY <1>1, <1>4 DEF RemovalFirst, SignalsKept, IsRemoval

\* NM announces the removal before the change of state.
LEMMA WorkerRemovalFirst ==
  ASSUME TypeOK, RemovalFirst, NEW w \in Workers, WorkerDoes(w)
  PROVE  RemovalFirst'
<1>1. connections' = connections /\ removed_conn_q' = removed_conn_q
  BY DEF WorkerDoes, Forgets, Errs, Connects, ResyncDoes, WorkerUnchanged, queues
<1>2. CASE Forgets(w)
  <2> DEFINE path == connections[worker[w].value.ssid]
  <2>1. CASE DeletesNothing(path) /\ SignalsKept
    <3>1. nm' = nm /\ bus' = bus /\ Lasts' = Lasts
      BY <2>1 DEF DeletesNothing, SignalsKept
    <3> QED
      BY <1>1, <3>1, KeptRemovalFirst
  <2>2. CASE path \in Paths /\ DeletesOther(path)
    <3> DEFINE r == Removed(path)
               extra == <<r>>
    <3>1. nm' = nm /\ bus' = Append(bus, r) /\ Lasts' = Lasts /\ r \in Signals /\ bus \in Seq(Signals)
      BY <2>2, PathSignalType, SignalKinds, StatesType DEF DeletesOther, SignalsKept
    <3> HIDE DEF r
    <3>2. bus' = bus \o extra /\ extra \in Seq(Signals)
      BY <3>1
    <3> HIDE DEF extra
    <3>3. RemovedFirst(bus) \subseteq RemovedFirst(bus')
      BY <3>1, <3>2, RemovedFirstConcat
    <3> QED
      BY <1>1, <3>1, <3>3, KeptRemovalFirst
  <2>3. CASE path \in Paths /\ path.ssid = worker[w].value.ssid /\ DeletesActive(path)
    <3>1. PICK said \in Seq(Signals) : Leaves(path, said) /\ bus' = bus \o said
      BY <2>3 DEF DeletesActive
    <3>2. path \in RemovedFirst(said)
      <4>1. /\ DOMAIN said = 1..3 /\ said[1] = Removed(path) /\ said[3] \in StateSignals
        BY <3>1 DEF Leaves
      <4>2. said[1].kind = "removed" /\ said[1].path = path /\ said[3].kind = "state"
        BY <2>3, <4>1, PathSignalType, SignalKinds
      <4>3. 1 \in DOMAIN said /\ 3 \in DOMAIN said /\ 3 > 1
        BY <4>1
      <4> QED
        BY <4>2, <4>3 DEF RemovedFirst
    <3>3. path \in RemovedFirst(bus')
      BY <3>1, <3>2, RemovedFirstConcat, StatesType
    <3>4. \A x \in Lasts' : x.of = path.ssid
      BY <2>3 DEF DeletesActive
    <3>5. \A x \in Lasts' : connections'[x.of] = path
      BY <1>1, <2>3, <3>4
    <3> HIDE DEF path
    <3> QED
      BY <3>3, <3>5 DEF RemovalFirst, IsRemoval
  <2> QED
    BY <1>2, <2>1, <2>2, <2>3 DEF Forgets
<1>3. ASSUME NEW path \in Paths, NEW gone \in SUBSET Paths, NEW new \in BOOLEAN, Connects(w, path, gone, new)
      PROVE  RemovalFirst'
  BY <1>3 DEF Connects, Begins, RemovalFirst
<1>4. CASE (Errs(w) \/ ResyncDoes(w)) /\ SignalsKept
  <2>1. nm' = nm /\ bus' = bus /\ Lasts' = Lasts
    BY <1>4 DEF Errs, ResyncDoes, nmVars, SignalsKept
  <2> QED
    BY <1>1, <2>1, KeptRemovalFirst
<1>5. Errs(w) => SignalsKept
  BY DEF Errs
<1> QED
  BY <1>2, <1>3, <1>4, <1>5 DEF WorkerDoes

\* A choice keeps the order of the signals.
LEMMA ChoosesRemovalFirst ==
  ASSUME TypeOK, RemovalFirst, NEW w, NEW ssid, NEW pc, Chooses(w, ssid, pc), SignalsMarked
  PROVE  RemovalFirst'
<1>1. nm' = nm /\ connections' = connections /\ removed_conn_q' = removed_conn_q
      /\ RemovedFirst(bus') = RemovedFirst(bus)
  BY RemovedFirstLate, StatesType DEF Chooses
<1>2. \A x \in Lasts' : \E y \in Lasts : x.of = y.of /\ IsRemoval(x) = IsRemoval(y)
  BY MarkedLateType, StatesType DEF SignalsMarked, IsRemoval
<1> QED
  BY <1>1, <1>2 DEF RemovalFirst, IsRemoval

\* In every step the removal stays first.
LEMMA RemovalFirstStep ==
  ASSUME TypeOK, Structure, Shown, RemovalFirst, StepDoes
  PROVE  RemovalFirst'
<1>1. CASE NmDoes
  <2>1. nm'.phase = "disconnected" => \A x \in Lasts' : x.reason = "NONE"
    BY <1>1 DEF NmDoes, NmGoesOn, NmEnds
  <2> QED
    BY <2>1 DEF RemovalFirst, IsRemoval
<1>2. CASE MonitorActs
  <2>1. CASE Receive
    BY <2>1, ReceiveRemovalFirst
  <2>2. CASE Deliver /\ SignalsKept
    BY <2>2, DeliverRemovalFirst
  <2>3. CASE Handles(Head(state_q)) \/ Connecting(Head(state_q)) \/ LooksUp \/ Assigns \/ Saves
    <3>1. /\ nm' = nm /\ connections' = connections /\ removed_conn_q' = removed_conn_q /\ bus' = bus
      BY <2>3 DEF Handles, Connecting, LooksUp, Assigns, Saves, nmVars, queues
    <3>2. Lasts' \subseteq Lasts
      BY <2>3 DEF Handles, Connecting, LooksUp, Assigns, Saves, SignalHandled, SignalsKept
    <3> QED
      BY <3>1, <3>2, KeptRemovalFirst
  <2> QED
    BY <1>2, <2>1, <2>2, <2>3 DEF MonitorActs
<1>3. CASE RunsCallbacks
  <2>1. /\ nm' = nm /\ connections' = connections /\ removed_conn_q' = removed_conn_q /\ bus' = bus
        /\ Lasts' = Lasts
    BY <1>3 DEF RunsCallbacks, nmVars, queues, SignalsKept
  <2> QED
    BY <2>1, KeptRemovalFirst
<1>4. ASSUME NEW w \in Workers, UserActs(w) PROVE RemovalFirst'
  <2>1. CASE StartsWorker(w) /\ SignalsKept
    <3>1. /\ nm' = nm /\ connections' = connections /\ removed_conn_q' = removed_conn_q /\ bus' = bus
          /\ Lasts' = Lasts
      BY <2>1 DEF StartsWorker, nmVars, queues, SignalsKept
    <3> QED
      BY <3>1, KeptRemovalFirst
  <2> QED
    BY <1>4, <2>1, ChoosesRemovalFirst DEF UserActs
<1> QED
  BY <1>1, <1>2, <1>3, <1>4, WorkerRemovalFirst DEF StepDoes

\* A race is not forgotten.
LEMMA RacedStays ==
  ASSUME TypeOK, StepDoes, raced
  PROVE  raced'
<1>1. CASE NmDoes
  BY <1>1 DEF NmDoes, NmGoesOn, NmEnds, NmQuietly, history
<1>2. CASE MonitorActs
  BY <1>2 DEF MonitorActs, Receive, Deliver, Handles, Connecting, LooksUp, Assigns, Saves, history
<1>3. CASE RunsCallbacks
  BY <1>3 DEF RunsCallbacks, history
<1>4. ASSUME NEW w \in Workers, WorkerDoes(w) PROVE raced'
  BY <1>4 DEF WorkerDoes, Forgets, Errs, Connects, ResyncDoes, Asks, Answers, Resyncs
<1>5. ASSUME NEW w \in Workers, UserActs(w) PROVE raced'
  BY <1>5 DEF UserActs, Chooses, StartsWorker, history
<1> QED
  BY <1>1, <1>2, <1>3, <1>4, <1>5 DEF StepDoes

\* The monitor thread has removed the connection before it handles the last state change.
LEMMA RemovalKnown ==
  ASSUME TypeOK, RemovalFirst
  PROVE  \A x \in Lasts : nm.phase = "disconnected" /\ IsRemoval(x) /\ StatesIn(bus) = {} /\ removed_conn_q = {}
           => connections[x.of] = NoPath
<1>1. StatesIn(bus) = {} => RemovedFirst(bus) = {}
  BY RemovedFirstStates, StatesType
<1> QED
  BY <1>1 DEF RemovalFirst

\* Every step that is no race keeps what the picture shows.
LEMMA ShownStep ==
  ASSUME TypeOK, TypeOK', Structure, SaysNm, Snapshots, Shown, RemovalFirst, StepDoes, ~raced'
  PROVE  Shown'
<1>1. CASE NmDoes
  BY <1>1, NmShown
<1>2. CASE MonitorActs
  <2>1. Moves
    BY <1>2, RemovalKnown, MonitorMoves
  <2> QED
    BY <2>1, MovesShown
<1>3. CASE RunsCallbacks
  BY <1>3, CallbackMoves, MovesShown
<1>4. ASSUME NEW w \in Workers, WorkerDoes(w) PROVE Shown'
  <2>1. CASE \E path \in Paths : \E gone \in SUBSET Paths : \E new \in BOOLEAN : Connects(w, path, gone, new)
    BY <2>1, ConnectsShown
  <2>2. CASE Forgets(w) /\ \E path \in Paths : DeletesActive(path)
    BY <2>2, DeletesActiveShown
  <2>3. CASE /\ ~\E path \in Paths : DeletesActive(path)
             /\ ~\E path \in Paths : \E gone \in SUBSET Paths : \E new \in BOOLEAN : Connects(w, path, gone, new)
    BY <1>4, <2>3, WorkerMoves, MovesShown
  <2>4. ASSUME NEW path \in Paths, DeletesActive(path), ~Forgets(w)
        PROVE  \E p \in Paths : \E gone \in SUBSET Paths : \E new \in BOOLEAN : Connects(w, p, gone, new)
    <3>1. nm' # nm
      BY <2>4 DEF DeletesActive, Working
    <3> QED
      BY <1>4, <2>4, <3>1 DEF WorkerDoes, Errs, ResyncDoes, nmVars
  <2> QED
    BY <2>1, <2>2, <2>3, <2>4
<1>5. ASSUME NEW w \in Workers, UserActs(w) PROVE Shown'
  <2>1. CASE StartsWorker(w) /\ SignalsKept
    BY <2>1, StartsMoves, MovesShown
  <2> QED
    BY <1>5, <2>1, ChoosesShown DEF UserActs
<1> QED
  BY <1>1, <1>2, <1>3, <1>4, <1>5 DEF StepDoes

\* Every step that is no race keeps what the callbacks say.
LEMMA CallbacksStep ==
  ASSUME TypeOK, TypeOK', NoFalseWrongPassword, raced \/ Shown, StepDoes
  PROVE  NoFalseWrongPassword'
<1> DEFINE Justified(cb) == cb.ssid = cb.of \/ cb.late
<1> SUFFICES ASSUME ~raced', NEW i \in DOMAIN callback_queue'
             PROVE  Justified(callback_queue'[i])
  BY DEF NoFalseWrongPassword
<1>1. ~raced /\ Shown
  BY RacedStays
<1>2. \A j \in DOMAIN callback_queue : Justified(callback_queue[j])
  BY <1>1 DEF NoFalseWrongPassword
<1>3. CASE callback_queue' = callback_queue
  BY <1>2, <1>3
<1>4. CASE callback_queue' = <<>>
  BY <1>4
<1>5. CASE MonitorActs /\ callback_queue' # callback_queue
  <2>1. Handles(Head(state_q))
    BY <1>5 DEF MonitorActs, Receive, Deliver, Connecting, LooksUp, Assigns, Saves
  <2> DEFINE signal == Head(state_q)
             cb == [ssid |-> wifi_state.ssid, of |-> signal.of, late |-> signal.late]
  <2>2. /\ IsWrongPassword(signal) /\ wifi_state.ssid # NoSsid /\ callback_queue' = Append(callback_queue, cb)
        /\ signal \in Sigs
    BY <1>5, <2>1 DEF Handles, SignalHandled
  <2>3. signal.late \/ wifi_state.ssid \in {NoSsid, signal.of}
    BY <1>1, <2>2 DEF Shown, RejectedShown
  <2>4. Justified(cb)
    BY <2>2, <2>3
  <2>5. callback_queue \in Seq([ssid : Ssids, of : Ssids, late : BOOLEAN])
    BY DEF TypeOK
  <2> HIDE DEF cb, Justified
  <2>6. callback_queue'[i] = cb \/ (i \in DOMAIN callback_queue /\ callback_queue'[i] = callback_queue[i])
    BY <2>2, <2>5
  <2> QED
    BY <1>2, <2>4, <2>6
<1>6. CASE NmDoes
  BY <1>3, <1>6 DEF NmDoes, NmGoesOn, NmEnds, NmQuietly
<1>7. CASE RunsCallbacks
  BY <1>3, <1>4, <1>7 DEF RunsCallbacks
<1>8. ASSUME NEW w \in Workers, WorkerDoes(w) PROVE callback_queue' = callback_queue
  BY <1>8 DEF WorkerDoes, Forgets, Errs, Connects, ResyncDoes, WorkerUnchanged
<1>9. ASSUME NEW w \in Workers, UserActs(w) PROVE callback_queue' = callback_queue
  BY <1>9 DEF UserActs, Chooses, StartsWorker
<1> QED
  BY <1>3, <1>5, <1>6, <1>7, <1>8, <1>9 DEF StepDoes

PictureInv ==
  /\ TypeOK /\ Structure /\ SaysNm /\ Snapshots /\ NoFalseWrongPassword
  /\ raced \/ (Shown /\ RemovalFirst)

\* The picture is right at the start.
LEMMA PictureInit == Init => PictureInv
<1> SUFFICES ASSUME Init PROVE PictureInv
  OBVIOUS
<1>1. TypeOK
  BY InitType
<1>2. /\ nm.phase = "disconnected" /\ bus = <<>> /\ state_q = <<>> /\ monitor.pc = "recv" /\ wifi_state = Disconnected
      /\ callback_queue = <<>> /\ wifi_state.ssid = NoSsid
      /\ \A w \in Workers : worker[w].pc = "idle"
      /\ nmConnections = {[ssid |-> s, n |-> 0] : s \in Saved}
  BY DEF Init, IdleMonitor, IdleWorker, Disconnected
<1>3. Sigs = {} /\ Lasts = {}
  BY <1>1, <1>2, EmptyStates, StatesType DEF Sigs
<1>4. Structure /\ SaysNm /\ Snapshots
  BY <1>2, <1>3 DEF Structure, Working, Snapshots, SaysNm, OnlyActivated, ActivatedLast, DisconnectedLast, WaitsConnected
<1>5. NoFalseWrongPassword
  BY <1>2 DEF NoFalseWrongPassword
<1>6. OneConnection
  <2> SUFFICES ASSUME NEW p \in nmConnections, NEW q \in nmConnections, p.ssid = q.ssid PROVE p = q
    BY DEF OneConnection
  <2>1. PICK s \in Saved : p = [ssid |-> s, n |-> 0]
    BY <1>2
  <2>2. PICK t \in Saved : q = [ssid |-> t, n |-> 0]
    BY <1>2
  <2> QED
    BY <2>1, <2>2
<1>7. Shown
  BY <1>2, <1>3, <1>6 DEF Shown, OneChoice, ChoiceShown, ConnectionShown, RemovalShown, NothingShown, RejectedShown,
     Chooser, ChooserPcs, Working
<1>8. RemovalFirst
  BY <1>3 DEF RemovalFirst
<1> QED
  BY <1>1, <1>4, <1>5, <1>7, <1>8 DEF PictureInv

\* Every step keeps the invariant of the picture.
LEMMA PictureStep == PictureInv /\ [Next]_vars => PictureInv'
<1> SUFFICES ASSUME PictureInv, [Next]_vars PROVE PictureInv'
  OBVIOUS
<1>1. TypeOK /\ Structure /\ SaysNm /\ Snapshots /\ NoFalseWrongPassword
      /\ (raced \/ (Shown /\ RemovalFirst))
  BY DEF PictureInv
<1>2. TypeOK' /\ StepDoes
  BY <1>1, TypeStep, NextDoes
<1>3. Structure' /\ SaysNm' /\ Snapshots'
  BY <1>1, <1>2, StructureStep, SaysNmStep, SnapshotsStep
<1>4. NoFalseWrongPassword'
  BY <1>1, <1>2, CallbacksStep
<1>5. ASSUME ~raced' PROVE Shown' /\ RemovalFirst'
  <2>1. Shown /\ RemovalFirst
    BY <1>1, <1>2, <1>5, RacedStays
  <2> QED
    BY <1>1, <1>2, <1>5, <2>1, ShownStep, RemovalFirstStep
<1> QED
  BY <1>2, <1>3, <1>4, <1>5 DEF PictureInv

\* Whatever the networks, taps, threads and failures: "wrong password" is asked for the network whose
\* password NM rejected, unless the user chose another one while the rejection was on its way, or a
\* race has happened (the branch BAD PASSWORD of _handle_state_change).
THEOREM NoFalseWrongPasswordHolds == Spec => []NoFalseWrongPassword
<1>1. PictureInv => NoFalseWrongPassword
  BY DEF PictureInv
<1> QED
  BY <1>1, PictureInit, PictureStep, PTL DEF Spec

-----------------------------------------------------------------------------
(* The picture agrees with NM, as long as no race has happened *)

\* The manager knows NM's connections, or is being told.
ConnectionsKnown ==
  \A q \in nmConnections : connections[q.ssid] = q \/ q \in new_conn_q \cup Additions
\* It knows the one that the device is on, so that the lookup finds its network.
ActiveKnown == nm.phase = "activated" => connections[nm.path.ssid] = nm.path
\* While the device gets its address, it knows the connection or brings its map up to date before NM
\* can go on.
KnownInTime ==
  nm.phase = "config" =>
    \/ connections[nm.path.ssid] = nm.path
    \/ /\ nm.path \in new_conn_q /\ bus # <<>> /\ state_q = <<>>
       /\ monitor.pc = "recv" \/ (monitor.pc = "assign" /\ monitor.value.status # "CONNECTED")
\* What a thread is about to write while the device is connected.
WorkerWrites ==
  nm.phase = "activated" => \A w \in Workers : worker[w].pc = "assign" => worker[w].value.ssid = nm.path.ssid
MonitorWrites ==
  nm.phase = "activated" /\ monitor.pc \in {"lookup", "assign"} =>
    IF monitor.value.status = "CONNECTED"
    THEN monitor.pc = "assign" => monitor.value.ssid = nm.path.ssid
    ELSE Sigs # {}
\* While the device is connected, the picture shows it, or somebody is about to bring it up to date.
ConnectedShown ==
  nm.phase = "activated" =>
    \/ Pending \/ Sigs # {} \/ wifi_state = [ssid |-> nm.path.ssid, status |-> "CONNECTED"]
    \/ monitor.pc = "lookup" /\ monitor.fresh /\ monitor.value.status = "CONNECTED"
    \/ monitor.pc = "assign" /\ monitor.value.status = "CONNECTED"

Agreement ==
  /\ ConnectionsKnown /\ ActiveKnown /\ KnownInTime /\ WorkerWrites /\ MonitorWrites /\ ConnectedShown

\* Bringing the map up to date keeps the connections that NM has, and adds those that were queued.
LEMMA ReceiveKnows ==
  ASSUME TypeOK, Numbers, OneConnection, Receive
  PROVE  \A q \in nmConnections :
           /\ connections[q.ssid] = q \/ q \in new_conn_q => connections'[q.ssid] = q
           /\ q \in Additions => connections'[q.ssid] = q \/ q \in Additions'
<1> DEFINE Taken(kind) == {m.path : m \in {x \in {Head(bus)} : x.kind = kind}}
<1>1. PICK removed \in SUBSET Paths, added \in SUBSET Paths :
        /\ UpdateConnections(removed, added) /\ new_conn_q \subseteq added
        /\ removed \cap nmConnections = {} /\ Additions \subseteq Additions' \cup added
  <2>1. CASE bus # <<>>
    <3>1. Taken("removed") \subseteq Paths /\ Taken("added") \subseteq Paths
      BY <2>1, HeadType, SignalKinds
    <3>2. UpdateConnections(removed_conn_q \cup Taken("removed"), new_conn_q \cup Taken("added"))
      BY <2>1 DEF Receive
    <3>3. bus' = Tail(bus) /\ bus \in Seq(Signals)
      BY <2>1, StatesType DEF Receive
    <3>4. /\ Head(bus).kind = "removed" => Removals = Removals' \cup {Head(bus).path}
          /\ Head(bus).kind = "added" => Additions = Additions' \cup {Head(bus).path}
          /\ Head(bus).kind # "added" => Additions = Additions'
      BY <2>1, <3>3, PathsTail DEF Removals, Additions
    <3>5. Taken("removed") \subseteq Removals /\ Additions \subseteq Additions' \cup Taken("added")
      BY <3>4
    <3>6. (removed_conn_q \cup Taken("removed")) \cap nmConnections = {}
      BY <3>5 DEF Numbers, GoneForGood
    <3>7. Additions \subseteq Additions' \cup new_conn_q \cup Taken("added")
      BY <3>5
    <3>8. removed_conn_q \cup Taken("removed") \in SUBSET Paths /\ new_conn_q \cup Taken("added") \in SUBSET Paths
      BY <3>1 DEF TypeOK
    <3> HIDE DEF Taken
    <3> QED
      BY <3>2, <3>6, <3>7, <3>8
  <2>2. CASE bus = <<>>
    <3>1. UpdateConnections(removed_conn_q, new_conn_q) /\ bus' = bus
      BY <2>2 DEF Receive
    <3> QED
      BY <3>1, UnchangedPaths DEF TypeOK, Numbers, GoneForGood
  <2> QED
    BY <2>1, <2>2
<1>2. ASSUME NEW q \in nmConnections
      PROVE  /\ connections[q.ssid] = q \/ q \in added => connections'[q.ssid] = q
  <2> DEFINE New == {p \in added \cap nmConnections : p.ssid = q.ssid}
  <2>1. q \in Paths /\ q.ssid \in Ssids
    BY DEF TypeOK, Paths
  <2>2. New \subseteq {q} /\ (q \in added => q \in New)
    BY <1>2 DEF OneConnection
  <2>3. IF New # {} THEN connections'[q.ssid] \in New
        ELSE connections'[q.ssid] = IF connections[q.ssid] \in removed THEN NoPath ELSE connections[q.ssid]
    BY <1>1, <2>1 DEF UpdateConnections
  <2>4. q \notin removed
    BY <1>1, <1>2
  <2> HIDE DEF New
  <2> QED
    BY <2>2, <2>3, <2>4
<1> QED
  BY <1>1, <1>2

\* Every step keeps the manager informed of the connections.
LEMMA ConnectionsKnownStep ==
  ASSUME TypeOK, Numbers, OneConnection, ConnectionsKnown, StepDoes
  PROVE  ConnectionsKnown'
<1>1. CASE connections' = connections /\ nmConnections' \subseteq nmConnections
           /\ new_conn_q \cup Additions \subseteq new_conn_q' \cup Additions'
  BY <1>1 DEF ConnectionsKnown
<1>2. CASE NmDoes
  <2>1. connections' = connections /\ nmConnections' \subseteq nmConnections
        /\ new_conn_q' = new_conn_q /\ Additions = {}
    BY <1>2 DEF NmDoes, NmGoesOn, NmEnds, NmQuietly, queues
  <2> QED
    BY <1>1, <2>1
<1>3. CASE MonitorActs
  <2>1. CASE Receive
    <3>1. nmConnections' = nmConnections
      BY <2>1 DEF Receive
    <3> QED
      BY <2>1, <3>1, ReceiveKnows DEF ConnectionsKnown
  <2>2. CASE Deliver
    BY <1>1, <2>2, DeliveredPaths DEF Deliver
  <2>3. CASE UNCHANGED <<nmConnections, connections, bus, new_conn_q>>
    BY <1>1, <2>3, UnchangedPaths
  <2> QED
    BY <1>3, <2>1, <2>2, <2>3 DEF MonitorActs, Handles, Connecting, LooksUp, Assigns, Saves, nmVars, queues
<1>4. CASE RunsCallbacks
  BY <1>1, <1>4, UnchangedPaths DEF RunsCallbacks, nmVars, queues
<1>5. ASSUME NEW w \in Workers, WorkerDoes(w) PROVE ConnectionsKnown'
  <2>1. connections' = connections /\ new_conn_q' = new_conn_q
    BY <1>5 DEF WorkerDoes, Forgets, Errs, Connects, ResyncDoes, WorkerUnchanged, queues
  <2>2. ASSUME NEW path \in Paths, NEW gone \in SUBSET Paths, NEW new \in BOOLEAN, Connects(w, path, gone, new)
        PROVE  ConnectionsKnown'
    <3>1. /\ nmConnections' \subseteq nmConnections \cup {path}
          /\ Additions' = Additions \cup (IF new THEN {path} ELSE {})
          /\ ~new => path \in nmConnections
      BY <2>2 DEF Connects, Begins
    <3> QED
      BY <2>1, <3>1 DEF ConnectionsKnown
  <2>3. CASE Forgets(w)
    <3>1. nmConnections' \subseteq nmConnections /\ Additions' = Additions
      BY <2>3, UnchangedPaths DEF Forgets, DeletesNothing, DeletesOther, DeletesActive
    <3> QED
      BY <1>1, <2>1, <3>1
  <2>4. CASE Errs(w) \/ ResyncDoes(w)
    BY <1>1, <2>1, <2>4, UnchangedPaths DEF Errs, ResyncDoes, nmVars
  <2> QED
    BY <1>5, <2>2, <2>3, <2>4 DEF WorkerDoes
<1>6. ASSUME NEW w \in Workers, UserActs(w) PROVE ConnectionsKnown'
  <2>1. CASE StartsWorker(w)
    BY <1>1, <2>1, UnchangedPaths DEF StartsWorker, nmVars, queues
  <2>2. CASE \E ssid \in Ssids : \E pc \in {"forget", "activate"} : Chooses(w, ssid, pc)
    BY <1>1, <2>2, MarkedPaths DEF Chooses
  <2> QED
    BY <1>6, <2>1, <2>2 DEF UserActs
<1> QED
  BY <1>2, <1>3, <1>4, <1>5, <1>6 DEF StepDoes

\* What NM knows of the connection that it works on, when a step leaves it on it.
LEMMA OnConnection ==
  ASSUME TypeOK, Structure, nm.phase \in {"config", "activated"}
  PROVE  nm.path \in nmConnections /\ nm.path \in Paths /\ nm.path # NoPath /\ Working
BY NmFacts, PathIsNotNoPath DEF Structure, Working

\* Only NM brings the device to config or activated; everybody else leaves it there or takes it away.
LEMMA StaysOn ==
  ASSUME TypeOK, StepDoes, nm'.phase \in {"config", "activated"}
  PROVE  NmDoes \/ nm' = nm
<1>1. CASE MonitorActs
  BY <1>1 DEF MonitorActs, Receive, Deliver, Handles, Connecting, LooksUp, Assigns, Saves, nmVars
<1>2. CASE RunsCallbacks
  BY <1>2 DEF RunsCallbacks, nmVars
<1>3. ASSUME NEW w \in Workers, WorkerDoes(w) PROVE nm' = nm
  <2>1. CASE Forgets(w)
    BY <2>1 DEF Forgets, DeletesNothing, DeletesOther, DeletesActive
  <2>2. ASSUME NEW path \in Paths, NEW gone \in SUBSET Paths, NEW new \in BOOLEAN, Connects(w, path, gone, new)
        PROVE  FALSE
    BY <2>2 DEF Connects, Begins
  <2>3. CASE Errs(w) \/ ResyncDoes(w)
    BY <2>3 DEF Errs, ResyncDoes, nmVars
  <2> QED
    BY <1>3, <2>1, <2>2, <2>3 DEF WorkerDoes
<1>4. ASSUME NEW w \in Workers, UserActs(w) PROVE nm' = nm
  BY <1>4 DEF UserActs, Chooses, StartsWorker, nmVars
<1> QED
  BY <1>1, <1>2, <1>3, <1>4 DEF StepDoes

\* The map keeps the connection that the device is on.
LEMMA KeepsKnown ==
  ASSUME TypeOK, Structure, Numbers, OneConnection, StepDoes, nm' = nm, nm.phase \in {"config", "activated"},
         connections[nm.path.ssid] = nm.path
  PROVE  connections'[nm.path.ssid] = nm.path
<1>1. nm.path \in nmConnections
  BY OnConnection
<1>2. Receive => connections'[nm.path.ssid] = nm.path
  BY <1>1, ReceiveKnows
<1>3. CASE ~Receive
  <2>1. connections' = connections
    BY <1>3 DEF StepDoes, NmDoes, NmGoesOn, NmEnds, NmQuietly, MonitorActs, Deliver, Handles, Connecting,
       LooksUp, Assigns, Saves, RunsCallbacks, WorkerDoes, Forgets, Errs, Connects, ResyncDoes,
       WorkerUnchanged, UserActs, Chooses, StartsWorker
  <2> QED
    BY <2>1
<1> QED
  BY <1>2, <1>3

\* NM goes on by itself when it has been heard, so that it is known in time.
LEMMA NmKnown ==
  ASSUME TypeOK, Structure, SaysNm, ConnectionsKnown, ActiveKnown, KnownInTime, NmDoes
  PROVE  ActiveKnown' /\ KnownInTime'
<1>1. /\ connections' = connections /\ bus = <<>> /\ state_q = <<>> /\ Sigs = {} /\ Additions = {}
      /\ monitor.pc \notin {"lookup", "save"} /\ monitor' = monitor /\ new_conn_q' = new_conn_q
      /\ state_q' = state_q
  BY DEF NmDoes, NmGoesOn, NmEnds, NmQuietly, queues
<1>2. CASE nm.phase = "prepare" /\ NmGoesOn("config", nm.path, "PREPARE")
  <2>1. nm'.path = nm.path /\ nm'.phase = "config" /\ bus' # <<>>
    BY <1>2 DEF NmGoesOn
  <2>2. nm.path \in nmConnections
    BY <1>2 DEF Structure, Working
  <2>3. connections[nm.path.ssid] = nm.path \/ nm.path \in new_conn_q
    BY <1>1, <2>2 DEF ConnectionsKnown
  <2>4. monitor.pc = "recv" \/ (monitor.pc = "assign" /\ monitor.value.status # "CONNECTED")
    <3>1. monitor.pc \in {"recv", "assign"}
      BY <1>1 DEF TypeOK, MonitorThread, Structure
    <3>2. monitor.pc = "assign" => monitor.value.status # "CONNECTED"
      BY <1>1, <1>2 DEF SaysNm, WaitsConnected
    <3> QED
      BY <3>1, <3>2
  <2> QED
    BY <1>1, <2>1, <2>3, <2>4 DEF ActiveKnown, KnownInTime
<1>3. CASE nm.phase = "config" /\ NmGoesOn("activated", nm.path, "ACTIVATED")
  <2>1. nm'.path = nm.path /\ nm'.phase = "activated"
    BY <1>3 DEF NmGoesOn
  <2> QED
    BY <1>1, <1>3, <2>1 DEF KnownInTime, ActiveKnown
<1>4. CASE nm'.phase \notin {"config", "activated"}
  BY <1>4 DEF KnownInTime, ActiveKnown
<1> QED
  BY <1>2, <1>3, <1>4 DEF NmDoes, NmGoesOn, NmEnds

\* Every step keeps the active connection known.
LEMMA KnownStep ==
  ASSUME TypeOK, Structure, SaysNm, Numbers, OneConnection, ConnectionsKnown, ActiveKnown, KnownInTime,
         StepDoes
  PROVE  ActiveKnown' /\ KnownInTime'
<1>1. CASE nm'.phase \notin {"config", "activated"}
  BY <1>1 DEF KnownInTime, ActiveKnown
<1>2. CASE NmDoes
  BY <1>2, NmKnown
<1>3. ASSUME nm' = nm, nm.phase \in {"config", "activated"}, connections[nm.path.ssid] = nm.path
      PROVE  ActiveKnown' /\ KnownInTime'
  BY <1>3, KeepsKnown DEF ActiveKnown, KnownInTime
<1>4. ASSUME nm' = nm, nm.phase = "config", nm.path \in new_conn_q, bus # <<>>, state_q = <<>>,
             monitor.pc = "recv" \/ (monitor.pc = "assign" /\ monitor.value.status # "CONNECTED"),
             ~NmDoes
      PROVE  ActiveKnown' /\ KnownInTime'
  <2>1. nm.path \in nmConnections
    BY <1>4, OnConnection
  <2>2. CASE Receive
    BY <1>4, <2>1, <2>2, ReceiveKnows DEF ActiveKnown, KnownInTime
  <2>3. CASE UNCHANGED <<bus, queues>> /\ monitor'.pc = monitor.pc /\ monitor'.value = monitor.value
    BY <1>4, <2>3 DEF ActiveKnown, KnownInTime, queues
  <2>4. CASE MonitorActs /\ ~Receive
    <3>1. Assigns
      BY <1>4, <2>4 DEF MonitorActs, Deliver, Handles, Connecting, LooksUp, Saves
    <3>2. monitor'.pc = "recv"
      BY <1>4, <3>1 DEF Assigns
    <3> QED
      BY <1>4, <3>1, <3>2 DEF Assigns, ActiveKnown, KnownInTime, nmVars, queues
  <2>5. CASE RunsCallbacks
    BY <2>3, <2>5 DEF RunsCallbacks, nmVars
  <2>6. ASSUME NEW w \in Workers, WorkerDoes(w) PROVE ActiveKnown' /\ KnownInTime'
    <3>1. /\ UNCHANGED queues /\ monitor'.pc = monitor.pc /\ monitor'.value = monitor.value
      BY <2>6 DEF WorkerDoes, Forgets, Errs, Connects, ResyncDoes, Asks, Answers, Resyncs, WorkerUnchanged
    <3>2. bus' # <<>>
      <4>1. CASE Forgets(w)
        <5>1. ASSUME NEW said \in Seq(Signals), bus' = bus \o said PROVE bus' # <<>>
          <6>1. bus \in Seq(Signals) /\ Len(bus) # 0
            BY <1>4, StatesType
          <6>2. Len(bus') = Len(bus) + Len(said) /\ Len(bus') # 0
            BY <5>1, <6>1
          <6>3. bus' = <<>> => Len(bus') = 0
            OBVIOUS
          <6> QED
            BY <6>2, <6>3
        <5>2. ASSUME NEW r, bus' = Append(bus, r) PROVE bus' # <<>>
          <6>1. bus \in Seq(Signals)
            BY StatesType
          <6> QED
            BY <5>2, <6>1
        <5> QED
          BY <1>4, <4>1, <5>1, <5>2 DEF Forgets, DeletesNothing, DeletesOther, DeletesActive
      <4>2. CASE Errs(w) \/ ResyncDoes(w)
        BY <1>4, <4>2 DEF Errs, ResyncDoes, nmVars
      <4> QED
        BY <2>6, <4>1, <4>2 DEF WorkerDoes, Connects, Begins
    <3> QED
      BY <1>4, <3>1, <3>2 DEF ActiveKnown, KnownInTime, queues
  <2>7. ASSUME NEW w \in Workers, UserActs(w) PROVE ActiveKnown' /\ KnownInTime'
    <3>1. CASE StartsWorker(w)
      BY <2>3, <3>1 DEF StartsWorker, nmVars
    <3>2. ASSUME NEW ssid \in Ssids, NEW pc \in {"forget", "activate"}, Chooses(w, ssid, pc)
          PROVE  ActiveKnown' /\ KnownInTime'
      <4>1. bus' # <<>>
        <5>1. bus' = Late(bus) /\ bus \in Seq(Signals)
          BY <3>2, StatesType DEF Chooses
        <5>2. Late(bus) \in Seq(Signals) /\ Len(Late(bus)) = Len(bus)
          BY <5>1, LateType
        <5> QED
          BY <1>4, <5>1, <5>2
      <4>2. state_q' = <<>>
        BY <1>4, <3>2, LateEmpty DEF Chooses
      <4> QED
        BY <1>4, <3>2, <4>1, <4>2 DEF Chooses, ActiveKnown, KnownInTime
    <3> QED
      BY <2>7, <3>1, <3>2 DEF UserActs
  <2> QED
    BY <1>4, <2>2, <2>4, <2>5, <2>6, <2>7 DEF StepDoes
<1>5. CASE nm' = nm /\ nm.phase = "activated"
  BY <1>3, <1>5 DEF ActiveKnown
<1>6. CASE nm' = nm /\ nm.phase = "config" /\ ~NmDoes
  BY <1>3, <1>4, <1>6 DEF KnownInTime
<1> QED
  BY <1>1, <1>2, <1>5, <1>6, StaysOn

\* NM comes to be connected when nobody is about to write anything else.
LEMMA ActivatedQuietly ==
  ASSUME TypeOK, NmDoes, nm'.phase = "activated"
  PROVE  /\ nm.phase = "config" /\ nm'.path = nm.path /\ Sigs = {} /\ Sigs' # {}
         /\ worker' = worker /\ monitor' = monitor /\ wifi_state' = wifi_state
         /\ monitor.pc # "lookup" /\ \A w \in Workers : worker[w].pc # "assign"
<1>1. nm.phase = "config" /\ NmGoesOn("activated", nm.path, "ACTIVATED")
  BY DEF NmDoes, NmGoesOn, NmEnds
<1> QED
  BY <1>1 DEF NmGoesOn, NmQuietly

\* The network of the connection that the device is on is found.
LEMMA ActiveFound ==
  ASSUME TypeOK, ActiveKnown, nm.phase = "activated"
  PROVE  nm.path # NoPath /\ ToSsid(nm.path) = nm.path.ssid
BY NmFacts, PathIsNotNoPath DEF ActiveKnown, ToSsid, Working

\* A step of a worker while the device is connected, and stays so.
LEMMA WorkerSaysNothing ==
  ASSUME TypeOK, NEW w \in Workers, WorkerDoes(w), nm'.phase = "activated"
  PROVE  /\ nm' = nm /\ SignalsKept
         /\ Forgets(w) \/ Errs(w) \/ ResyncDoes(w)
         /\ monitor'.pc = monitor.pc /\ monitor'.value = monitor.value /\ monitor'.fresh = monitor.fresh
<1>1. ASSUME NEW path \in Paths, NEW gone \in SUBSET Paths, NEW new \in BOOLEAN, Connects(w, path, gone, new)
      PROVE  FALSE
  BY <1>1 DEF Connects, Begins
<1>2. Forgets(w) => nm' = nm /\ SignalsKept
  BY DEF Forgets, DeletesNothing, DeletesOther, DeletesActive
<1>3. Errs(w) => nm' = nm /\ SignalsKept
  BY DEF Errs
<1>4. ResyncDoes(w) => nm' = nm
  BY DEF ResyncDoes, nmVars
<1>5. monitor'.pc = monitor.pc /\ monitor'.value = monitor.value /\ monitor'.fresh = monitor.fresh
  BY DEF WorkerDoes, Forgets, Errs, Connects, ResyncDoes, Asks, Answers, Resyncs, WorkerUnchanged
<1> QED
  BY <1>1, <1>2, <1>3, <1>4, <1>5 DEF WorkerDoes

\* What a worker is about to write is the network that the device is connected to.
LEMMA WorkerWritesStep ==
  ASSUME TypeOK, ActiveKnown, WorkerWrites, StepDoes
  PROVE  WorkerWrites'
<1> SUFFICES ASSUME nm'.phase = "activated", NEW v \in Workers, worker'[v].pc = "assign"
             PROVE  worker'[v].value.ssid = nm'.path.ssid
  BY DEF WorkerWrites
<1>1. CASE NmDoes
  BY <1>1, ActivatedQuietly
<1>2. nm' = nm \/ NmDoes
  BY StaysOn
<1>3. ASSUME worker[v].pc = "assign", worker'[v].value = worker[v].value, nm' = nm
      PROVE  worker'[v].value.ssid = nm'.path.ssid
  BY <1>3 DEF WorkerWrites
<1>4. CASE MonitorActs \/ RunsCallbacks
  <2>1. worker'[v].pc = worker[v].pc /\ worker'[v].value = worker[v].value
    BY <1>4 DEF MonitorActs, Receive, Deliver, Handles, Connecting, LooksUp, Assigns, Saves, RunsCallbacks, WorkersKept
  <2> QED
    BY <1>1, <1>2, <1>3, <2>1
<1>5. ASSUME NEW w \in Workers, WorkerDoes(w) PROVE worker'[v].value.ssid = nm'.path.ssid
  <2>1. nm' = nm /\ (Forgets(w) \/ Errs(w) \/ ResyncDoes(w))
    BY <1>5, WorkerSaysNothing
  <2>2. CASE Forgets(w) \/ Errs(w)
    BY <1>3, <2>1, <2>2 DEF Forgets, Errs, GoesOn
  <2>3. CASE ResyncDoes(w) /\ v # w
    BY <1>3, <2>1, <2>3 DEF ResyncDoes, Asks, Answers, Resyncs
  <2>4. CASE ResyncDoes(w) /\ v = w
    <3>1. worker[w].fresh /\ worker'[w].value.ssid = ToSsid(nm.path)
      BY <2>4 DEF ResyncDoes, Asks, Answers, Resyncs
    <3> QED
      BY <2>1, <2>4, <3>1, ActiveFound
  <2> QED
    BY <2>1, <2>2, <2>3, <2>4
<1>6. ASSUME NEW w \in Workers, UserActs(w) PROVE worker'[v].value.ssid = nm'.path.ssid
  <2>1. nm' = nm /\ worker[v].pc = "assign" /\ worker'[v].value = worker[v].value
    BY <1>6 DEF UserActs, Chooses, StartsWorker, nmVars
  <2> QED
    BY <1>3, <2>1
<1> QED
  BY <1>1, <1>4, <1>5, <1>6 DEF StepDoes

\* So is what the handler of ACTIVATED is about to write.
LEMMA MonitorWritesStep ==
  ASSUME TypeOK, TypeOK', Structure, SaysNm, ActiveKnown, MonitorWrites, StepDoes
  PROVE  MonitorWrites'
<1> SUFFICES ASSUME nm'.phase = "activated" PROVE MonitorWrites'
  BY DEF MonitorWrites
<1>1. CASE NmDoes
  <2>1. monitor' = monitor /\ Sigs = {} /\ Sigs' # {} /\ nm.phase = "config" /\ monitor.pc # "lookup"
    BY <1>1, ActivatedQuietly
  <2>2. monitor.pc = "assign" => monitor.value.status # "CONNECTED"
    BY <2>1 DEF SaysNm, WaitsConnected
  <2> QED
    BY <2>1, <2>2 DEF MonitorWrites
<1>2. ASSUME nm' = nm, monitor'.pc = monitor.pc, monitor'.value = monitor.value, Sigs' = {} => Sigs = {}
      PROVE  MonitorWrites'
  BY <1>2 DEF MonitorWrites
<1>3. CASE MonitorActs
  <2>1. nm' = nm
    BY <1>3 DEF MonitorActs, Receive, Deliver, Handles, Connecting, LooksUp, Assigns, Saves, nmVars
  <2>2. CASE Receive
    BY <2>2, ReceiveMonitor DEF MonitorWrites
  <2>3. CASE Deliver /\ SignalsKept
    BY <1>2, <2>1, <2>3 DEF Deliver, SignalsKept
  <2>4. CASE Handles(Head(state_q)) \/ Assigns \/ Saves
    BY <2>4 DEF Handles, Assigns, Saves, MonitorWrites
  <2>5. CASE Connecting(Head(state_q))
    <3>1. Head(state_q) \in Sigs
      BY <2>5 DEF Connecting, SignalHandled
    <3>2. Head(state_q).state = "ACTIVATED"
      BY <2>1, <3>1 DEF SaysNm, OnlyActivated
    <3> QED
      BY <2>5, <3>2 DEF Connecting, MonitorWrites
  <2>6. CASE LooksUp
    <3>1. CASE monitor.fresh
      BY <2>1, <2>6, <3>1, ActiveFound DEF LooksUp, MonitorWrites, SignalsKept
    <3>2. CASE ~monitor.fresh
      BY <2>6, <3>2 DEF LooksUp, MonitorWrites
    <3> QED
      BY <3>1, <3>2
  <2> QED
    BY <1>3, <2>2, <2>3, <2>4, <2>5, <2>6 DEF MonitorActs
<1>4. CASE RunsCallbacks
  BY <1>2, <1>4 DEF RunsCallbacks, nmVars, SignalsKept
<1>5. ASSUME NEW w \in Workers, WorkerDoes(w) PROVE MonitorWrites'
  BY <1>2, <1>5, WorkerSaysNothing DEF SignalsKept
<1>6. ASSUME NEW w \in Workers, UserActs(w) PROVE MonitorWrites'
  <2>1. Sigs' = {} => Sigs = {}
    <3>1. SignalsMarked => (Sigs' = {} => Sigs = {})
      BY DEF SignalsMarked
    <3> QED
      BY <1>6, <3>1 DEF UserActs, SignalsKept
  <2>2. nm' = nm /\ monitor'.pc = monitor.pc /\ monitor'.value = monitor.value
    BY <1>6 DEF UserActs, Chooses, StartsWorker, nmVars
  <2> QED
    BY <1>2, <2>1, <2>2
<1> QED
  BY <1>1, <1>3, <1>4, <1>5, <1>6 DEF StepDoes

\* Every step that is no race shows the connection, or leaves somebody who will.
LEMMA ConnectedShownStep ==
  ASSUME TypeOK, TypeOK', Structure, SaysNm, Snapshots, ActiveKnown, WorkerWrites, MonitorWrites, ConnectedShown,
         ~raced', StepDoes
  PROVE  ConnectedShown'
<1> SUFFICES ASSUME nm'.phase = "activated" PROVE ConnectedShown'
  BY DEF ConnectedShown
<1>1. CASE NmDoes
  BY <1>1, ActivatedQuietly DEF ConnectedShown
<1>2. ASSUME nm' = nm, Pending => Pending', Sigs' = {} => Sigs = {},
             wifi_state' = wifi_state, monitor'.pc = monitor.pc, monitor'.value = monitor.value,
             monitor'.fresh = monitor.fresh \/ Pending'
      PROVE  ConnectedShown'
  BY <1>2 DEF ConnectedShown
<1>3. CASE MonitorActs
  <2>1. nm' = nm
    BY <1>3 DEF MonitorActs, Receive, Deliver, Handles, Connecting, LooksUp, Assigns, Saves, nmVars
  <2>2. CASE Receive
    <3>1. SignalsKept /\ wifi_state' = wifi_state /\ monitor.pc = "recv" /\ Pending' = Pending
      BY <2>2, ReceiveMonitor, StillWorkers
    <3> QED
      BY <2>1, <3>1 DEF ConnectedShown, SignalsKept
  <2>3. CASE Deliver /\ SignalsKept
    BY <1>2, <2>1, <2>3, StillWorkers DEF Deliver, SignalsKept
  <2>4. CASE Handles(Head(state_q))
    <3>1. Head(state_q) \in Sigs /\ Head(state_q).state # "ACTIVATED"
      BY <2>4 DEF Handles, SignalHandled
    <3> QED
      BY <2>1, <3>1 DEF SaysNm, OnlyActivated
  <2>5. CASE Connecting(Head(state_q))
    <3>1. Head(state_q) \in Sigs
      BY <2>5 DEF Connecting, SignalHandled
    <3>2. Head(state_q).state = "ACTIVATED"
      BY <2>1, <3>1 DEF SaysNm, OnlyActivated
    <3>3. monitor'.pc = "lookup" /\ monitor'.fresh /\ monitor'.value.status = "CONNECTED"
      BY <2>5, <3>2 DEF Connecting
    <3> QED
      BY <3>3 DEF ConnectedShown
  <2>6. CASE LooksUp
    <3>1. Pending' = Pending /\ Sigs' = Sigs /\ wifi_state' = wifi_state
      BY <2>6, StillWorkers DEF LooksUp, SignalsKept
    <3>2. CASE monitor.value.status = "CONNECTED" /\ monitor.fresh
      <4>1. monitor'.pc = "assign" /\ monitor'.value.status = "CONNECTED"
        BY <2>6, <3>2 DEF LooksUp
      <4> QED
        BY <4>1 DEF ConnectedShown
    <3>3. CASE ~(monitor.value.status = "CONNECTED" /\ monitor.fresh)
      BY <2>1, <2>6, <3>1, <3>3 DEF LooksUp, ConnectedShown
    <3> QED
      BY <3>2, <3>3
  <2>7. CASE Assigns
    <3>1. Sigs' = Sigs /\ wifi_state' = monitor.value /\ monitor.pc = "assign" /\ monitor.value \in WifiState
      BY <2>7 DEF Assigns, SignalsKept
    <3>2. CASE monitor.value.status = "CONNECTED"
      <4>1. monitor.value.ssid = nm.path.ssid
        BY <2>1, <3>1, <3>2 DEF MonitorWrites
      <4>2. wifi_state' = [ssid |-> nm.path.ssid, status |-> "CONNECTED"]
        BY <3>1, <3>2, <4>1 DEF WifiState
      <4> QED
        BY <2>1, <4>2 DEF ConnectedShown
    <3>3. CASE monitor.value.status # "CONNECTED"
      BY <2>1, <3>1, <3>3 DEF MonitorWrites, ConnectedShown
    <3> QED
      BY <3>2, <3>3
  <2>8. CASE Saves
    BY <2>1, <2>8, StillWorkers DEF Saves, SignalsKept, ConnectedShown
  <2> QED
    BY <1>3, <2>2, <2>3, <2>4, <2>5, <2>6, <2>7, <2>8 DEF MonitorActs
<1>4. CASE RunsCallbacks
  BY <1>2, <1>4, StillWorkers DEF RunsCallbacks, nmVars, SignalsKept
<1>5. ASSUME NEW w \in Workers, WorkerDoes(w) PROVE ConnectedShown'
  <2>1. /\ nm' = nm /\ Sigs' = Sigs
        /\ Forgets(w) \/ Errs(w) \/ ResyncDoes(w)
        /\ monitor'.pc = monitor.pc /\ monitor'.value = monitor.value /\ monitor'.fresh = monitor.fresh
    BY <1>5, WorkerSaysNothing DEF SignalsKept
  <2>2. CASE Forgets(w)
    <3>1. /\ worker[w].pc \in {"forget", "delete"} /\ wifi_state' = wifi_state
          /\ worker'[w].pc = (IF worker[w].pc = "forget" THEN "add" ELSE "idle")
          /\ \A v \in Workers \ {w} : worker'[v] = worker[v]
      BY <2>2 DEF Forgets, GoesOn
    <3>2. Pending => Pending'
      BY <3>1 DEF Pending, Chooser, ChooserPcs
    <3> QED
      BY <1>2, <2>1, <3>1, <3>2
  <2>3. CASE Errs(w)
    <3>1. worker'[w].pc = "resync"
      BY <2>3 DEF Errs, GoesOn
    <3> QED
      BY <3>1 DEF ConnectedShown, Pending
  <2>4. CASE Asks(w) \/ Answers(w)
    <3>1. /\ wifi_state' = wifi_state /\ \A v \in Workers \ {w} : worker'[v] = worker[v]
          /\ \/ worker[w].pc = "resync" /\ worker'[w].pc = "reply" /\ worker'[w].fresh
             \/ worker[w].pc = "reply" /\ worker'[w].pc = IF worker[w].fresh THEN "assign" ELSE "idle"
      BY <2>4 DEF Asks, Answers
    <3>2. Pending => Pending'
      BY <3>1 DEF Pending, Chooser, ChooserPcs
    <3> QED
      BY <1>2, <2>1, <3>1, <3>2
  <2>5. CASE Resyncs(w)
    <3>1. /\ worker[w].pc = "assign" /\ wifi_state' = worker[w].value /\ wifi_state' \in WifiState
          /\ worker[w].value.status = Status(nm.phase)
      BY <2>5 DEF Resyncs, Snapshots
    <3>2. worker[w].value.ssid = nm.path.ssid /\ worker[w].value.status = "CONNECTED"
      BY <2>1, <3>1 DEF WorkerWrites, Status
    <3>3. wifi_state' = [ssid |-> nm.path.ssid, status |-> "CONNECTED"]
      BY <3>1, <3>2 DEF WifiState
    <3> QED
      BY <2>1, <3>3 DEF ConnectedShown
  <2> QED
    BY <2>1, <2>2, <2>3, <2>4, <2>5 DEF ResyncDoes
<1>6. ASSUME NEW w \in Workers, UserActs(w) PROVE ConnectedShown'
  <2>1. CASE StartsWorker(w) /\ SignalsKept
    <3>1. /\ worker[w].pc = "idle" /\ \A v \in Workers \ {w} : worker'[v] = worker[v]
          /\ nm' = nm /\ wifi_state' = wifi_state /\ monitor' = monitor
      BY <2>1 DEF StartsWorker, nmVars
    <3>2. Pending => Pending'
      BY <3>1 DEF Pending, Chooser, ChooserPcs
    <3> QED
      BY <1>2, <2>1, <3>1, <3>2 DEF SignalsKept
  <2>2. ASSUME NEW ssid \in Ssids, NEW pc \in {"forget", "activate"}, Chooses(w, ssid, pc)
        PROVE  ConnectedShown'
    <3>1. worker'[w].pc \in ChooserPcs
      BY <2>2 DEF Chooses, ChooserPcs
    <3>2. Pending'
      BY <3>1 DEF Pending, Chooser
    <3> QED
      BY <3>2 DEF ConnectedShown
  <2> QED
    BY <1>6, <2>1, <2>2 DEF UserActs
<1> QED
  BY <1>1, <1>3, <1>4, <1>5, <1>6 DEF StepDoes

AgreementInv == PictureInv /\ Numbers /\ (raced \/ Agreement)

\* The picture agrees with NM at the start.
LEMMA AgreementInit == Init => AgreementInv
<1> SUFFICES ASSUME Init PROVE AgreementInv
  OBVIOUS
<1>1. PictureInv
  BY PictureInit
<1>2. /\ nm.phase = "disconnected" /\ bus = <<>> /\ paths = 0 /\ removed_conn_q = {} /\ new_conn_q = {}
      /\ nmConnections = {[ssid |-> s, n |-> 0] : s \in Saved}
      /\ connections = [s \in Ssids |-> IF s \in Saved THEN [ssid |-> s, n |-> 0] ELSE NoPath]
  BY DEF Init
<1>3. Removals = {} /\ Additions = {}
  BY <1>2 DEF Removals, Additions, PathsIn
<1>4. Numbers
  BY <1>2, <1>3 DEF Numbers, Numbered, GoneForGood
<1>5. ConnectionsKnown
  BY <1>2, SsidAssumption DEF ConnectionsKnown
<1>6. Agreement
  BY <1>2, <1>5 DEF Agreement, ActiveKnown, KnownInTime, WorkerWrites, MonitorWrites, ConnectedShown
<1> QED
  BY <1>1, <1>4, <1>6 DEF AgreementInv

\* Every step keeps the agreement.
LEMMA AgreementStep == AgreementInv /\ [Next]_vars => AgreementInv'
<1> SUFFICES ASSUME AgreementInv, [Next]_vars PROVE AgreementInv'
  OBVIOUS
<1>1. PictureInv'
  BY PictureStep DEF AgreementInv
<1>2. TypeOK /\ TypeOK' /\ Structure /\ SaysNm /\ Snapshots /\ Numbers
  BY <1>1 DEF AgreementInv, PictureInv
<1>3. StepDoes
  BY <1>2, NextDoes
<1>4. Numbers'
  BY <1>2, <1>3, NumbersStep
<1>5. ASSUME ~raced' PROVE Agreement'
  <2>1. ~raced
    BY <1>2, <1>3, <1>5, RacedStays
  <2>2. Agreement /\ OneConnection
    BY <2>1 DEF AgreementInv, PictureInv, Shown
  <2>3. /\ ConnectionsKnown /\ ActiveKnown /\ KnownInTime /\ WorkerWrites /\ MonitorWrites /\ ConnectedShown
    BY <2>2 DEF Agreement
  <2>4. ConnectionsKnown' /\ ActiveKnown' /\ KnownInTime'
    BY <1>2, <1>3, <2>2, <2>3, ConnectionsKnownStep, KnownStep
  <2>5. WorkerWrites' /\ MonitorWrites'
    BY <1>2, <1>3, <2>3, WorkerWritesStep, MonitorWritesStep
  <2>6. ConnectedShown'
    BY <1>2, <1>3, <1>5, <2>3, ConnectedShownStep
  <2> QED
    BY <2>4, <2>5, <2>6 DEF Agreement
<1> QED
  BY <1>1, <1>4, <1>5 DEF AgreementInv

\* Whatever the networks, threads, taps, failures and errors: when things have calmed down the picture
\* agrees with NM, unless a race has happened (_handle_state_change, _init_wifi_state).
THEOREM PictureAgrees == Spec => []QuietAgrees
<1>1. AgreementInv => QuietAgrees
  <2> SUFFICES ASSUME AgreementInv, Quiet, ~raced PROVE Agrees
    BY DEF QuietAgrees
  <2>1. NothingShown /\ ConnectedShown
    BY DEF AgreementInv, PictureInv, Shown, Agreement
  <2>2. Sigs = {} /\ monitor.pc = "recv" /\ nm.phase \in {"disconnected", "activated"}
    BY EmptyStates DEF Quiet, Sigs
  <2>3. ~Pending
    BY DEF Quiet, Pending, Chooser, ChooserPcs
  <2> QED
    BY <2>1, <2>2, <2>3 DEF NothingShown, ConnectedShown, Agrees
<1> QED
  BY <1>1, AgreementInit, AgreementStep, PTL DEF Spec

-----------------------------------------------------------------------------
(* The attempt under way stays in the picture *)

\* What NM says of the device when the connection it is on has been removed.
IsDeactivation(x) == x.state = "DEACTIVATING" /\ x.reason = "CONNECTION_REMOVED"
OfRemoval(x)      == IsDeactivation(x) \/ IsRemoval(x)

\* It says so right after the removal.
TellsOfRemoval(m) == m.kind = "state" /\ OfRemoval(m)
Adjacent(q) ==
  \A k \in DOMAIN q : k > 1 /\ TellsOfRemoval(q[k]) => q[k - 1].kind = "removed" \/ TellsOfRemoval(q[k - 1])
BeginsWithIt(q) == q # <<>> /\ TellsOfRemoval(q[1])

\* So a handler that has waited for a reply, and goes on to such a state change, finds the removal in
\* its queue: only the state change that recv_messages has just taken comes without it.
RemovalInQueue == \E x \in StatesIn(state_q) : OfRemoval(x)
Queued == removed_conn_q = {} => ~RemovalInQueue /\ ~BeginsWithIt(bus)
QueueOrder ==
  /\ monitor.pc = "state" => Queued \/ (Len(state_q) = 1 /\ OfRemoval(Head(state_q)))
  /\ monitor.pc \in {"lookup", "assign", "save"} => Queued

\* When NM has lost the network, no ACTIVATED is left to handle.
LostLast ==
  nm.phase = "disconnected" /\ (\E x \in Lasts : x.state = "DISCONNECTED" /\ x.reason = "NONE") =>
    /\ \A x \in Sigs : x.state # "ACTIVATED"
    /\ ~(monitor.pc = "lookup" /\ monitor.value.status = "CONNECTED")

\* The connections that the manager knows have numbers.
KnownNumbers == \A s \in Ssids : connections[s].n <= paths

\* The paths that a sequence announces to be added before the device is deactivated for their network.
AddedFirst(q) ==
  {q[i].path : i \in {j \in DOMAIN q : q[j].kind = "added" /\ \E k \in DOMAIN q :
     k > j /\ q[k].kind = "state" /\ IsDeactivation(q[k]) /\ q[k].of = q[j].path.ssid}}

\* Until the deactivation is handled, NM has none of the connections that the manager knows of its
\* network, or will know by then.
Unknown ==
  /\ \A x \in Sigs : IsDeactivation(x) => connections[x.of] \notin nmConnections
  /\ \A x \in StatesIn(bus) : IsDeactivation(x) => \A q \in new_conn_q : q.ssid = x.of => q \notin nmConnections
  /\ AddedFirst(bus) \cap nmConnections = {}

\* The handler will go on to such a state change with the removal in its queue, which is a race.
Doomed == removed_conn_q # {} /\ RemovalInQueue

\* A network, or none, that a connected picture may show: NM works on it, and what is pending of a
\* removal is about it.
Fits(ssid) ==
  /\ Working => ssid \in {NoSsid, nm.path.ssid}
  /\ \A x \in Sigs : OfRemoval(x) => ssid \in {NoSsid, x.of}
PictureFits == wifi_state.status = "CONNECTED" => Fits(wifi_state.ssid)
PictureEnds == nm.phase = "disconnected" /\ Sigs = {} /\ wifi_state.status = "CONNECTED" => wifi_state.ssid = NoSsid
\* What the handler of ACTIVATED is about to write fits too, or writing it is a race.
Misfits(ssid) ==
  ssid # wifi_state.ssid /\ ssid \notin {NoSsid, nm.path.ssid} /\ \A w \in Workers : ~Chooser(w)
ReplyFits ==
  monitor.pc = "assign" /\ monitor.value.status = "CONNECTED" /\ monitor.newest =>
    Fits(monitor.value.ssid) \/ Misfits(monitor.value.ssid)
ConnectedFits == PictureFits /\ PictureEnds /\ ReplyFits

AttemptInv ==
  /\ PictureInv /\ Numbers /\ KnownNumbers /\ Adjacent(bus) /\ QueueOrder /\ LostLast
  /\ raced \/ Unknown
  /\ raced \/ Doomed \/ ConnectedFits

\* Marking a state change as late leaves what it says.
LEMMA MarkedRemoval ==
  /\ \A x \in StateSignals : /\ IsDeactivation(MarkedLate(x)) = IsDeactivation(x)
                             /\ OfRemoval(MarkedLate(x)) = OfRemoval(x)
  /\ \A q \in Seq(Signals) : \A i \in DOMAIN q :
       /\ Late(q)[i].kind = q[i].kind /\ TellsOfRemoval(Late(q)[i]) = TellsOfRemoval(q[i])
       /\ q[i].kind # "state" => Late(q)[i] = q[i]
       /\ q[i].kind = "state" => /\ IsDeactivation(Late(q)[i]) = IsDeactivation(q[i])
                                 /\ Late(q)[i].of = q[i].of
<1>1. \A x \in StateSignals : /\ IsDeactivation(MarkedLate(x)) = IsDeactivation(x)
                              /\ OfRemoval(MarkedLate(x)) = OfRemoval(x)
  BY MarkedLateType DEF IsDeactivation, OfRemoval, IsRemoval
<1>2. ASSUME NEW q \in Seq(Signals), NEW i \in DOMAIN q
      PROVE  /\ Late(q)[i].kind = q[i].kind /\ TellsOfRemoval(Late(q)[i]) = TellsOfRemoval(q[i])
             /\ q[i].kind # "state" => Late(q)[i] = q[i]
             /\ q[i].kind = "state" => /\ IsDeactivation(Late(q)[i]) = IsDeactivation(q[i])
                                       /\ Late(q)[i].of = q[i].of
  <2>1. Late(q)[i] = IF q[i].kind = "state" THEN MarkedLate(q[i]) ELSE q[i]
    BY <1>2, LateAt
  <2>2. q[i].kind = "state" => q[i] \in StateSignals
    BY <1>2, SignalKinds
  <2>3. q[i].kind = "state" => MarkedLate(q[i]).kind = "state" /\ MarkedLate(q[i]).of = q[i].of
    BY <2>2, MarkedLateType
  <2> QED
    BY <1>1, <2>1, <2>2, <2>3 DEF TellsOfRemoval
<1> QED
  BY <1>1, <1>2

\* Taking a signal from the front keeps the rest together; a state change of the removal that comes
\* to the front follows another, or the removal.
LEMMA AdjacentTail ==
  \A q \in Seq(Signals) : q # <<>> /\ Adjacent(q) =>
    /\ Adjacent(Tail(q))
    /\ BeginsWithIt(Tail(q)) => Head(q).kind = "removed" \/ BeginsWithIt(q)
<1> SUFFICES ASSUME NEW q \in Seq(Signals), q # <<>>, Adjacent(q)
             PROVE  /\ Adjacent(Tail(q))
                    /\ BeginsWithIt(Tail(q)) => Head(q).kind = "removed" \/ BeginsWithIt(q)
  OBVIOUS
<1> DEFINE r == Tail(q)
<1>1. /\ Len(q) \in Nat \ {0} /\ DOMAIN q = 1..Len(q) /\ Head(q) = q[1]
      /\ DOMAIN r = 1..(Len(q) - 1) /\ \A i \in 1..(Len(q) - 1) : r[i] = q[i + 1]
      /\ r # <<>> => Len(q) > 1
  OBVIOUS
<1> HIDE DEF r
<1>2. Adjacent(r)
  <2> SUFFICES ASSUME NEW k \in DOMAIN r, k > 1, TellsOfRemoval(r[k])
               PROVE  r[k - 1].kind = "removed" \/ TellsOfRemoval(r[k - 1])
    BY DEF Adjacent
  <2>1. k + 1 \in DOMAIN q /\ k + 1 > 1 /\ r[k] = q[k + 1] /\ r[k - 1] = q[k] /\ (k + 1) - 1 = k
    BY <1>1
  <2> QED
    BY <2>1 DEF Adjacent
<1>3. ASSUME BeginsWithIt(r) PROVE Head(q).kind = "removed" \/ BeginsWithIt(q)
  <2>1. 2 \in DOMAIN q /\ r[1] = q[2] /\ 2 - 1 = 1 /\ TellsOfRemoval(q[2])
    BY <1>1, <1>3 DEF BeginsWithIt
  <2>2. q[1].kind = "removed" \/ TellsOfRemoval(q[1])
    BY <2>1 DEF Adjacent
  <2> QED
    BY <1>1, <2>2 DEF BeginsWithIt
<1> QED
  BY <1>2, <1>3 DEF r

\* A sequence that does not begin with such a state change may be added.
LEMMA AdjacentConcat ==
  \A q \in Seq(Signals) : \A r \in Seq(Signals) : Adjacent(q) /\ Adjacent(r) /\ ~BeginsWithIt(r) =>
    Adjacent(q \o r) /\ (BeginsWithIt(q \o r) => BeginsWithIt(q))
<1> SUFFICES ASSUME NEW q \in Seq(Signals), NEW r \in Seq(Signals), Adjacent(q), Adjacent(r), ~BeginsWithIt(r)
             PROVE  Adjacent(q \o r) /\ (BeginsWithIt(q \o r) => BeginsWithIt(q))
  OBVIOUS
<1> DEFINE t == q \o r
           n == Len(q)
           m == Len(r)
<1>1. /\ n \in Nat /\ m \in Nat /\ DOMAIN q = 1..n /\ DOMAIN r = 1..m /\ DOMAIN t = 1..(n + m)
      /\ \A i \in 1..n : t[i] = q[i]
      /\ \A i \in 1..m : t[n + i] = r[i]
      /\ n = 0 => t = r
      /\ n > 0 => q # <<>>
      /\ m > 0 => r # <<>>
  OBVIOUS
<1> HIDE DEF t, n, m
<1>2. Adjacent(t)
  <2> SUFFICES ASSUME NEW k \in DOMAIN t, k > 1, TellsOfRemoval(t[k])
               PROVE  t[k - 1].kind = "removed" \/ TellsOfRemoval(t[k - 1])
    BY DEF Adjacent
  <2>1. CASE k <= n
    <3>1. k \in DOMAIN q /\ t[k] = q[k] /\ t[k - 1] = q[k - 1]
      BY <1>1, <2>1
    <3> QED
      BY <3>1 DEF Adjacent
  <2>2. CASE k = n + 1
    <3>1. t[k] = r[1] /\ r # <<>>
      BY <1>1, <2>2
    <3> QED
      BY <3>1 DEF BeginsWithIt
  <2>3. CASE k > n + 1
    <3> DEFINE j == k - n
    <3>0. k \in Int /\ k <= n + m /\ k > n + 1 /\ n \in Int /\ m \in Int
      BY <1>1, <2>3
    <3>1. j \in 1..m /\ j - 1 \in 1..m /\ n + j = k /\ n + (j - 1) = k - 1 /\ j > 1
      BY <3>0
    <3>2. j \in DOMAIN r /\ t[k] = r[j] /\ t[k - 1] = r[j - 1]
      BY <1>1, <3>1
    <3> HIDE DEF j
    <3> QED
      BY <3>1, <3>2 DEF Adjacent
  <2> QED
    BY <1>1, <2>1, <2>2, <2>3
<1>3. BeginsWithIt(t) => BeginsWithIt(q)
  <2>1. CASE n = 0
    BY <1>1, <2>1
  <2>2. CASE n > 0
    <3>1. t[1] = q[1] /\ q # <<>>
      BY <1>1, <2>2
    <3> QED
      BY <3>1 DEF BeginsWithIt
  <2> QED
    BY <1>1, <2>1, <2>2
<1> QED
  BY <1>2, <1>3 DEF t

\* Marking a sequence as late keeps its order.
LEMMA AdjacentLate ==
  \A q \in Seq(Signals) : /\ Adjacent(q) => Adjacent(Late(q))
                          /\ BeginsWithIt(Late(q)) => BeginsWithIt(q)
<1> SUFFICES ASSUME NEW q \in Seq(Signals)
             PROVE  /\ Adjacent(q) => Adjacent(Late(q))
                    /\ BeginsWithIt(Late(q)) => BeginsWithIt(q)
  OBVIOUS
<1> DEFINE r == Late(q)
<1>1. /\ DOMAIN r = DOMAIN q /\ DOMAIN q = 1..Len(q) /\ Len(q) \in Nat
      /\ \A i \in DOMAIN q : r[i].kind = q[i].kind /\ TellsOfRemoval(r[i]) = TellsOfRemoval(q[i])
  BY LateAt, MarkedRemoval
<1>2. r \in Seq(Signals) /\ (r # <<>> => q # <<>> /\ 1 \in DOMAIN q)
  <2>1. r \in Seq(Signals) /\ Len(r) = Len(q)
    BY LateType
  <2> HIDE DEF r
  <2> QED
    BY <2>1
<1> HIDE DEF r
<1>3. ASSUME Adjacent(q) PROVE Adjacent(r)
  <2> SUFFICES ASSUME NEW k \in DOMAIN r, k > 1, TellsOfRemoval(r[k])
               PROVE  r[k - 1].kind = "removed" \/ TellsOfRemoval(r[k - 1])
    BY DEF Adjacent
  <2>1. k \in DOMAIN q /\ k - 1 \in DOMAIN q
    BY <1>1
  <2> QED
    BY <1>1, <1>3, <2>1 DEF Adjacent
<1>4. BeginsWithIt(r) => BeginsWithIt(q)
  BY <1>1, <1>2 DEF BeginsWithIt
<1> QED
  BY <1>3, <1>4 DEF r

\* A sequence that says nothing of a removal is in order.
LEMMA AdjacentNone ==
  \A q \in Seq(Signals) : (\A x \in StatesIn(q) : ~OfRemoval(x)) => Adjacent(q) /\ ~BeginsWithIt(q)
<1> SUFFICES ASSUME NEW q \in Seq(Signals), \A x \in StatesIn(q) : ~OfRemoval(x)
             PROVE  Adjacent(q) /\ ~BeginsWithIt(q)
  OBVIOUS
<1>1. \A i \in DOMAIN q : ~TellsOfRemoval(q[i])
  BY DEF StatesIn, TellsOfRemoval
<1>2. q # <<>> => 1 \in DOMAIN q
  OBVIOUS
<1> QED
  BY <1>1, <1>2 DEF Adjacent, BeginsWithIt

\* What a step of NM or of a worker does to the bus.
BusGrows ==
  \/ bus' = bus
  \/ \E extra \in Seq(Signals) : bus' = bus \o extra /\ Adjacent(extra) /\ ~BeginsWithIt(extra)

\* The state changes of a deletion follow the removal.
LEMMA LeavesAdjacent ==
  ASSUME NEW path \in Paths, NEW said \in Seq(Signals), Leaves(path, said)
  PROVE  Adjacent(said) /\ ~BeginsWithIt(said)
<1>1. /\ DOMAIN said = 1..3 /\ said[1] = Removed(path) /\ said[2] \in StateSignals
      /\ said[2].state = "DEACTIVATING" /\ said[2].reason = "CONNECTION_REMOVED"
  BY DEF Leaves
<1>2. said[1].kind = "removed" /\ TellsOfRemoval(said[2])
  BY <1>1, PathSignalType, SignalKinds DEF TellsOfRemoval, OfRemoval, IsDeactivation
<1>3. Adjacent(said)
  <2> SUFFICES ASSUME NEW k \in DOMAIN said, k > 1 PROVE said[k - 1].kind = "removed" \/ TellsOfRemoval(said[k - 1])
    BY DEF Adjacent
  <2>1. k - 1 = 1 \/ k - 1 = 2
    BY <1>1
  <2> QED
    BY <1>2, <2>1
<1>4. ~BeginsWithIt(said)
  BY <1>2 DEF BeginsWithIt, TellsOfRemoval
<1> QED
  BY <1>3, <1>4

\* So does everything that NM and the workers put on the bus.
LEMMA GrowingBus ==
  ASSUME TypeOK, TypeOK', NmDoes \/ \E w \in Workers : WorkerDoes(w)
  PROVE  BusGrows
<1>0. bus \in Seq(Signals) /\ bus' \in Seq(Signals)
  BY DEF TypeOK, Signals
<1>1. CASE NmDoes
  <2>1. bus = <<>> /\ \A x \in Sigs' : ~OfRemoval(x)
    <3>1. CASE NmEnds
      BY <3>1 DEF NmEnds, NmQuietly, OfRemoval, IsDeactivation, IsRemoval
    <3>2. ASSUME NEW phase, NEW path, NEW state, NmGoesOn(phase, path, state) PROVE bus = <<>> /\ \A x \in Sigs' : ~OfRemoval(x)
      BY <3>2 DEF NmGoesOn, NmQuietly, OfRemoval, IsDeactivation, IsRemoval
    <3> QED
      BY <1>1, <3>1, <3>2 DEF NmDoes
  <2>2. \A x \in StatesIn(bus') : ~OfRemoval(x)
    BY <2>1 DEF Sigs
  <2> DEFINE extra == bus'
  <2>3. extra \in Seq(Signals) /\ Adjacent(extra) /\ ~BeginsWithIt(extra)
    BY <1>0, <2>2, AdjacentNone
  <2>4. bus' = bus \o extra
    BY <1>0, <2>1
  <2> QED
    BY <2>3, <2>4 DEF BusGrows
<1>2. ASSUME NEW w \in Workers, Forgets(w) PROVE BusGrows
  <2> DEFINE path == connections[worker[w].value.ssid]
  <2>1. CASE DeletesNothing(path)
    BY <2>1 DEF DeletesNothing, BusGrows
  <2>2. CASE path \in Paths /\ DeletesOther(path)
    <3> DEFINE r == Removed(path)
               extra == <<r>>
    <3>1. bus' = Append(bus, r) /\ r \in Signals /\ r.kind = "removed"
      BY <2>2, PathSignalType, SignalKinds DEF DeletesOther
    <3> HIDE DEF r
    <3>2. bus' = bus \o extra /\ extra \in Seq(Signals) /\ StatesIn(extra) = {}
      BY <1>0, <3>1 DEF StatesIn
    <3> HIDE DEF extra
    <3> QED
      BY <3>2, AdjacentNone DEF BusGrows
  <2>3. CASE path \in Paths /\ DeletesActive(path)
    BY <2>3, LeavesAdjacent DEF DeletesActive, BusGrows
  <2> QED
    BY <1>2, <2>1, <2>2, <2>3 DEF Forgets
<1>3. ASSUME NEW w \in Workers, NEW path \in Paths, NEW gone \in SUBSET Paths, NEW new \in BOOLEAN,
             Connects(w, path, gone, new)
      PROVE  BusGrows
  <2>1. PICK extra \in Seq(Signals) :
          bus' = bus \o extra /\ \A x \in StatesIn(extra) : x.state \in {"PREPARE", "DISCONNECTED", "NEED_AUTH"}
                                                          /\ x.reason \in {"NONE", "NEW_ACTIVATION", "interrupted"}
    BY <1>3 DEF Connects, Begins
  <2>2. \A x \in StatesIn(extra) : ~OfRemoval(x)
    BY <2>1 DEF OfRemoval, IsDeactivation, IsRemoval
  <2> QED
    BY <2>1, <2>2, AdjacentNone DEF BusGrows
<1>4. ASSUME NEW w \in Workers, Errs(w) \/ ResyncDoes(w) PROVE BusGrows
  BY <1>4 DEF Errs, ResyncDoes, nmVars, BusGrows
<1> QED
  BY <1>1, <1>2, <1>3, <1>4 DEF WorkerDoes

\* The bus stays in order.
LEMMA AdjacentStep ==
  ASSUME TypeOK, TypeOK', Adjacent(bus), StepDoes
  PROVE  Adjacent(bus')
<1>0. bus \in Seq(Signals)
  BY DEF TypeOK, Signals
<1>1. CASE bus' = bus
  BY <1>1
<1>2. CASE NmDoes \/ \E w \in Workers : WorkerDoes(w)
  <2>1. CASE bus' # bus
    <3>1. PICK extra \in Seq(Signals) : bus' = bus \o extra /\ Adjacent(extra) /\ ~BeginsWithIt(extra)
      BY <1>2, <2>1, GrowingBus DEF BusGrows
    <3>2. Adjacent(bus \o extra)
      BY <1>0, <3>1, AdjacentConcat
    <3> QED
      BY <3>1, <3>2
  <2> QED
    BY <1>1, <2>1
<1>3. CASE MonitorActs
  <2>1. bus' = bus \/ (bus # <<>> /\ bus' = Tail(bus))
    BY <1>3 DEF MonitorActs, Receive, Deliver, Handles, Connecting, LooksUp, Assigns, Saves, nmVars
  <2> QED
    BY <1>0, <2>1, AdjacentTail
<1>4. CASE RunsCallbacks
  BY <1>1, <1>4 DEF RunsCallbacks, nmVars
<1>5. ASSUME NEW w \in Workers, UserActs(w) PROVE Adjacent(bus')
  <2>1. bus' = bus \/ bus' = Late(bus)
    BY <1>5 DEF UserActs, Chooses, StartsWorker, nmVars
  <2> QED
    BY <1>0, <2>1, AdjacentLate
<1> QED
  BY <1>2, <1>3, <1>4, <1>5 DEF StepDoes

\* The state changes of a removal stay behind the removal on their way to the handler.
LEMMA QueueOrderStep ==
  ASSUME TypeOK, TypeOK', Structure, Adjacent(bus), QueueOrder, StepDoes
  PROVE  QueueOrder'
<1>0. bus \in Seq(Signals) /\ state_q \in Seq(StateSignals) /\ state_q \in Seq(Signals)
  BY StatesType DEF TypeOK
<1>1. CASE Receive
  <2>1. removed_conn_q' = {} /\ monitor.pc = "recv" /\ state_q = <<>>
    BY <1>1 DEF Receive, Structure
  <2>2. CASE bus # <<>> /\ Head(bus).kind = "state" /\ ~OfRemoval(Head(bus))
    <3>1. state_q' = <<Head(bus)>> /\ bus' = Tail(bus) /\ ~BeginsWithIt(bus) /\ Head(bus).kind # "removed"
      BY <2>2, <1>1 DEF Receive, BeginsWithIt, TellsOfRemoval
    <3>2. ~BeginsWithIt(bus')
      BY <1>0, <2>2, <3>1, AdjacentTail
    <3>3. ~RemovalInQueue'
      BY <2>2, <3>1 DEF RemovalInQueue, StatesIn
    <3> QED
      BY <3>2, <3>3 DEF QueueOrder, Queued
  <2>3. CASE bus # <<>> /\ Head(bus).kind = "state" /\ OfRemoval(Head(bus))
    <3>1. state_q' = <<Head(bus)>> /\ Goto("state")
      BY <2>3, <1>1 DEF Receive
    <3>2. Len(state_q') = 1 /\ Head(state_q') = Head(bus) /\ monitor'.pc = "state"
      BY <3>1, GotoType
    <3> QED
      BY <2>3, <3>2 DEF QueueOrder
  <2>4. CASE ~(bus # <<>> /\ Head(bus).kind = "state")
    BY <1>1, <2>1, <2>4 DEF Receive, QueueOrder
  <2> QED
    BY <2>2, <2>3, <2>4
<1>2. CASE Deliver
  <2>1. /\ bus # <<>> /\ bus' = Tail(bus) /\ monitor' = monitor /\ monitor.pc \in {"lookup", "save"} /\ Head(bus) \in Signals
        /\ removed_conn_q' = IF Head(bus).kind = "removed" THEN removed_conn_q \cup {Head(bus).path} ELSE removed_conn_q
        /\ state_q' = IF Head(bus).kind = "state" THEN Append(state_q, Head(bus)) ELSE state_q
    BY <1>2, HeadType DEF Deliver
  <2>2. ASSUME removed_conn_q' = {} PROVE ~RemovalInQueue' /\ ~BeginsWithIt(bus')
    <3>1. removed_conn_q = {} /\ Head(bus).kind # "removed"
      BY <2>1, <2>2
    <3>2. ~RemovalInQueue /\ ~BeginsWithIt(bus)
      BY <2>1, <3>1 DEF QueueOrder, Queued
    <3>3. ~BeginsWithIt(bus')
      BY <1>0, <2>1, <3>1, <3>2, AdjacentTail
    <3>4. ~TellsOfRemoval(Head(bus))
      BY <2>1, <3>2 DEF BeginsWithIt
    <3>5. StatesIn(state_q') \subseteq StatesIn(state_q) \cup {Head(bus)}
      <4>1. StatesIn(<<Head(bus)>>) \subseteq {Head(bus)}
        BY DEF StatesIn
      <4> QED
        BY <1>0, <2>1, <4>1, StatesAppend
    <3>6. Head(bus).kind # "state" => state_q' = state_q
      BY <2>1
    <3> QED
      BY <3>2, <3>3, <3>4, <3>5, <3>6 DEF RemovalInQueue, TellsOfRemoval
  <2> QED
    BY <2>1, <2>2 DEF QueueOrder, Queued
<1>3. CASE Handles(Head(state_q)) \/ Connecting(Head(state_q))
  <2>1. /\ monitor.pc = "state" /\ state_q # <<>> /\ state_q' = Tail(state_q) /\ bus' = bus
        /\ removed_conn_q' = removed_conn_q /\ (state_q' = <<>> => monitor'.pc = "recv" \/ Connecting(Head(state_q)))
        /\ (Connecting(Head(state_q)) => ~OfRemoval(Head(state_q)))
    BY <1>3 DEF Handles, Connecting, nmVars, OfRemoval, IsDeactivation, IsRemoval
  <2>2. StatesIn(state_q') \subseteq StatesIn(state_q)
    BY <1>0, <2>1, StatesTail
  <2>3. CASE Queued
    <3>1. Queued'
      BY <2>1, <2>2, <2>3 DEF Queued, RemovalInQueue
    <3> QED
      BY <3>1 DEF QueueOrder
  <2>4. CASE Len(state_q) = 1 /\ OfRemoval(Head(state_q))
    <3>1. state_q' = <<>>
      BY <1>0, <2>1, <2>4
    <3> QED
      BY <2>1, <2>4, <3>1 DEF QueueOrder
  <2> QED
    BY <2>1, <2>3, <2>4 DEF QueueOrder
<1>4. CASE LooksUp \/ Assigns \/ Saves
  <2>1. /\ UNCHANGED <<bus, state_q, removed_conn_q>> /\ monitor.pc \in {"lookup", "assign", "save"}
    BY <1>4 DEF LooksUp, Assigns, Saves, nmVars, queues
  <2> QED
    BY <2>1 DEF QueueOrder, Queued, RemovalInQueue
<1>5. CASE NmDoes \/ \E w \in Workers : WorkerDoes(w)
  <2>1. UNCHANGED <<state_q, removed_conn_q>> /\ monitor'.pc = monitor.pc
    BY <1>5 DEF NmDoes, NmGoesOn, NmEnds, NmQuietly, queues, WorkerDoes, Forgets, Errs, Connects, WorkerUnchanged,
       ResyncDoes, Asks, Answers, Resyncs
  <2>2. BeginsWithIt(bus') => BeginsWithIt(bus)
    <3>1. CASE bus' # bus
      <4>1. PICK extra \in Seq(Signals) : bus' = bus \o extra /\ Adjacent(extra) /\ ~BeginsWithIt(extra)
        BY <1>5, <3>1, GrowingBus DEF BusGrows
      <4>2. BeginsWithIt(bus \o extra) => BeginsWithIt(bus)
        BY <1>0, <4>1, AdjacentConcat
      <4> QED
        BY <4>1, <4>2
    <3> QED
      BY <3>1
  <2> QED
    BY <2>1, <2>2 DEF QueueOrder, Queued, RemovalInQueue
<1>6. CASE RunsCallbacks
  <2>1. UNCHANGED <<bus, state_q, removed_conn_q, monitor>>
    BY <1>6 DEF RunsCallbacks, nmVars, queues
  <2> QED
    BY <2>1 DEF QueueOrder, Queued, RemovalInQueue
<1>7. ASSUME NEW w \in Workers, StartsWorker(w) PROVE QueueOrder'
  <2>1. UNCHANGED <<bus, state_q, removed_conn_q, monitor>>
    BY <1>7 DEF StartsWorker, nmVars, queues
  <2> QED
    BY <2>1 DEF QueueOrder, Queued, RemovalInQueue
<1>8. ASSUME NEW w \in Workers, NEW ssid \in Ssids, NEW pc \in {"forget", "activate"}, Chooses(w, ssid, pc)
      PROVE  QueueOrder'
  <2>1. /\ bus' = Late(bus) /\ state_q' = Late(state_q) /\ removed_conn_q' = removed_conn_q
        /\ monitor'.pc = monitor.pc
    BY <1>8 DEF Chooses
  <2>2. BeginsWithIt(bus') => BeginsWithIt(bus)
    BY <1>0, <2>1, AdjacentLate
  <2>3. RemovalInQueue' => RemovalInQueue
    <3>1. StatesIn(state_q') = {MarkedLate(x) : x \in StatesIn(state_q)}
      BY <1>0, <2>1, StatesLate
    <3>2. StatesIn(state_q) \subseteq StateSignals
      BY StatesType DEF Sigs
    <3> QED
      BY <3>1, <3>2, MarkedRemoval DEF RemovalInQueue
  <2>4. Len(state_q) = 1 /\ OfRemoval(Head(state_q)) => Len(state_q') = 1 /\ OfRemoval(Head(state_q'))
    <3> SUFFICES ASSUME Len(state_q) = 1, OfRemoval(Head(state_q))
                 PROVE  Len(state_q') = 1 /\ OfRemoval(Head(state_q'))
      OBVIOUS
    <3>0. state_q # <<>>
      OBVIOUS
    <3>1. 1 \in DOMAIN state_q /\ state_q[1] = Head(state_q) /\ Head(state_q) \in StateSignals
      BY <1>0, <3>0
    <3>2. Late(state_q)[1] = MarkedLate(Head(state_q))
      BY <1>0, <3>1, LateAt, SignalKinds
    <3>3. state_q' \in Seq(StateSignals) /\ Len(state_q') = 1
      BY <1>0, <2>1, LateType
    <3>4. Head(state_q') = state_q'[1]
      BY <3>3
    <3> QED
      BY <2>1, <3>1, <3>2, <3>3, <3>4, MarkedRemoval
  <2> QED
    BY <2>1, <2>2, <2>3, <2>4 DEF QueueOrder, Queued
<1> QED
  BY <1>1, <1>2, <1>3, <1>4, <1>5, <1>6, <1>7, <1>8 DEF StepDoes, MonitorActs, UserActs

\* A network that is lost leaves nothing of it being connected.
LEMMA LostLastStep ==
  ASSUME TypeOK, TypeOK', Structure, LostLast, StepDoes
  PROVE  LostLast'
<1> DEFINE Lost == nm.phase = "disconnected" /\ \E x \in Lasts : x.state = "DISCONNECTED" /\ x.reason = "NONE"
           Kept == /\ \A x \in Sigs : x.state # "ACTIVATED"
                   /\ ~(monitor.pc = "lookup" /\ monitor.value.status = "CONNECTED")
<1>0. (Lost => Kept) /\ (LostLast' <=> (Lost' => Kept'))
  BY DEF LostLast
<1>1. CASE NmDoes
  <2>1. CASE NmEnds
    <3>1. \A x \in Sigs' : x.state # "ACTIVATED"
      BY <2>1 DEF NmEnds
    <3>2. monitor'.pc # "lookup"
      BY <2>1 DEF NmEnds, NmQuietly
    <3> QED
      BY <1>0, <3>1, <3>2
  <2>2. CASE nm'.phase # "disconnected"
    BY <1>0, <2>2
  <2> QED
    BY <1>1, <2>1, <2>2 DEF NmDoes, NmGoesOn
<1>2. ASSUME nm' = nm, Sigs' \subseteq Sigs, Lasts' \subseteq Lasts,
             monitor'.pc = "lookup" /\ monitor'.value.status = "CONNECTED" =>
               \/ monitor.pc = "lookup" /\ monitor.value.status = "CONNECTED"
               \/ \E x \in Sigs : x.state = "ACTIVATED"
      PROVE  LostLast'
  <2>1. Lost' => Lost
    BY <1>2
  <2>2. Kept => Kept'
    BY <1>2
  <2> QED
    BY <1>0, <2>1, <2>2
<1>3. CASE MonitorActs
  <2>1. CASE Receive
    BY <1>2, <2>1, ReceiveMonitor DEF SignalsKept
  <2>2. CASE Deliver /\ SignalsKept
    BY <1>2, <2>2 DEF SignalsKept, Deliver
  <2>3. CASE Handles(Head(state_q))
    <3>1. nm' = nm /\ Sigs' \subseteq Sigs /\ Lasts' \subseteq Lasts /\ monitor'.pc # "lookup"
      BY <2>3 DEF Handles, SignalHandled, nmVars
    <3> QED
      BY <1>2, <3>1
  <2>4. CASE Connecting(Head(state_q))
    <3>1. nm' = nm /\ Sigs' \subseteq Sigs /\ Lasts' \subseteq Lasts
      BY <2>4 DEF Connecting, SignalHandled, nmVars
    <3>2. Head(state_q) \in Sigs /\ (monitor'.value.status = "CONNECTED" => Head(state_q).state = "ACTIVATED")
      BY <2>4 DEF Connecting, SignalHandled
    <3> QED
      BY <1>2, <3>1, <3>2
  <2>5. CASE LooksUp \/ Assigns \/ Saves
    <3>1. nm' = nm /\ SignalsKept /\ monitor'.pc # "lookup"
      BY <2>5 DEF LooksUp, Assigns, Saves, nmVars
    <3> QED
      BY <1>2, <3>1 DEF SignalsKept
  <2> QED
    BY <1>3, <2>1, <2>2, <2>3, <2>4, <2>5 DEF MonitorActs
<1>4. CASE RunsCallbacks
  BY <1>2, <1>4 DEF RunsCallbacks, nmVars, SignalsKept
<1>5. ASSUME NEW w \in Workers, WorkerDoes(w) PROVE LostLast'
  <2>1. monitor'.pc = monitor.pc /\ monitor'.value = monitor.value
    BY <1>5 DEF WorkerDoes, Forgets, Errs, Connects, WorkerUnchanged, ResyncDoes, Asks, Answers, Resyncs
  <2>2. CASE nm' = nm /\ SignalsKept
    BY <1>2, <2>1, <2>2 DEF SignalsKept
  <2>3. ASSUME NEW path, DeletesActive(path) PROVE LostLast'
    BY <1>0, <2>3 DEF DeletesActive
  <2>4. ASSUME NEW path, NEW gone, NEW new, Connects(w, path, gone, new) PROVE LostLast'
    BY <1>0, <2>4 DEF Connects, Begins
  <2> QED
    BY <1>5, <2>2, <2>3, <2>4 DEF WorkerDoes, Forgets, Errs, ResyncDoes, DeletesNothing, DeletesOther, nmVars
<1>6. ASSUME NEW w \in Workers, UserActs(w) PROVE LostLast'
  <2>1. CASE StartsWorker(w) /\ SignalsKept
    BY <1>2, <2>1 DEF StartsWorker, SignalsKept, nmVars
  <2>2. ASSUME NEW ssid \in Ssids, NEW pc \in {"forget", "activate"}, Chooses(w, ssid, pc), SignalsMarked
        PROVE  LostLast'
    <3>1. nm' = nm /\ monitor'.pc = monitor.pc /\ monitor'.value = monitor.value
      BY <2>2 DEF Chooses
    <3>2. /\ \A x \in Sigs' : \E y \in Sigs : x.state = y.state
          /\ \A x \in Lasts' : \E y \in Lasts : x.state = y.state /\ x.reason = y.reason
      BY <2>2, MarkedLateType, StatesType DEF SignalsMarked
    <3>3. Lost' => Lost
      BY <3>1, <3>2
    <3>4. Kept => Kept'
      BY <3>1, <3>2
    <3> QED
      BY <1>0, <3>3, <3>4
  <2> QED
    BY <1>6, <2>1, <2>2 DEF UserActs
<1> QED
  BY <1>1, <1>3, <1>4, <1>5, <1>6 DEF StepDoes

\* A connection that the manager comes to know has been added.
LEMMA KnownNumbersStep ==
  ASSUME TypeOK, TypeOK', Numbers, KnownNumbers, StepDoes
  PROVE  KnownNumbers'
<1>0. paths \in Nat /\ paths' \in Nat /\ \A s \in Ssids : connections[s].n \in Nat
  BY DEF TypeOK, Paths, NoPath
<1>1. CASE connections' = connections
  <2>1. paths' = paths \/ paths' = paths + 1
    <3>1. NmDoes => paths' = paths
      BY DEF NmDoes, NmGoesOn, NmEnds, NmQuietly
    <3>2. MonitorActs \/ RunsCallbacks => paths' = paths
      BY DEF MonitorActs, Receive, Deliver, Handles, Connecting, LooksUp, Assigns, Saves, nmVars, RunsCallbacks
    <3>3. ASSUME NEW w \in Workers, WorkerDoes(w) \/ UserActs(w) PROVE paths' = paths \/ paths' = paths + 1
      BY <3>3 DEF WorkerDoes, Forgets, Errs, Connects, ResyncDoes, nmVars, UserActs, Chooses, StartsWorker
    <3> QED
      BY <3>1, <3>2, <3>3 DEF StepDoes
  <2>2. ASSUME NEW s \in Ssids PROVE connections'[s].n <= paths'
    <3>1. connections'[s].n = connections[s].n /\ connections[s].n <= paths
      BY <1>1, <2>2 DEF KnownNumbers
    <3> QED
      BY <1>0, <2>1, <2>2, <3>1
  <2> QED
    BY <2>2 DEF KnownNumbers
<1>2. CASE Receive
  <2> DEFINE Taken(kind) == {m.path : m \in {x \in {Head(bus)} : x.kind = kind}}
  <2>1. PICK added, removed :
          added \in SUBSET Paths /\ UpdateConnections(removed, added) /\ added \subseteq new_conn_q \cup Additions
    <3>1. CASE bus # <<>>
      <4>1. Taken("added") \subseteq Additions /\ Taken("added") \subseteq Paths
        BY <3>1, PathsTail, StatesType, HeadType, SignalKinds DEF Additions
      <4>2. UpdateConnections(removed_conn_q \cup Taken("removed"), new_conn_q \cup Taken("added"))
        BY <1>2, <3>1 DEF Receive
      <4>3. new_conn_q \cup Taken("added") \in SUBSET Paths
        BY <4>1 DEF TypeOK
      <4> HIDE DEF Taken
      <4> QED
        BY <4>1, <4>2, <4>3
    <3>2. CASE bus = <<>>
      BY <1>2, <3>2 DEF Receive, TypeOK
    <3> QED
      BY <3>1, <3>2
  <2>2. paths' = paths
    BY <1>2 DEF Receive
  <2>3. ASSUME NEW s \in Ssids PROVE connections'[s].n <= paths
    <3>1. connections'[s] \in added \cup {NoPath} \cup {connections[t] : t \in Ssids}
      BY <2>1 DEF UpdateConnections
    <3>2. NoPath.n = 0
      BY DEF NoPath
    <3> QED
      BY <1>0, <2>1, <3>1, <3>2 DEF KnownNumbers, Numbers, Numbered
  <2> QED
    BY <2>2, <2>3 DEF KnownNumbers
<1>3. connections' = connections \/ Receive
  <2>1. NmDoes \/ MonitorActs \/ RunsCallbacks => connections' = connections \/ Receive
    BY DEF NmDoes, NmGoesOn, NmEnds, NmQuietly, MonitorActs, Deliver, Handles, Connecting, LooksUp, Assigns, Saves,
       RunsCallbacks
  <2>2. ASSUME NEW w \in Workers, WorkerDoes(w) \/ UserActs(w) PROVE connections' = connections
    BY <2>2 DEF WorkerDoes, Forgets, Errs, Connects, ResyncDoes, WorkerUnchanged, UserActs, Chooses, StartsWorker
  <2> QED
    BY <2>1, <2>2 DEF StepDoes
<1> QED
  BY <1>1, <1>2, <1>3

\* A path that is added first is announced; a sequence that adds nothing, or says of no deactivation,
\* has none.
LEMMA AddedFirstIn ==
  \A q : /\ AddedFirst(q) \subseteq PathsIn("added", q)
         /\ (\A x \in StatesIn(q) : ~IsDeactivation(x)) => AddedFirst(q) = {}
BY DEF AddedFirst, PathsIn, StatesIn

\* Taking a signal from the front adds none to them.
LEMMA AddedFirstTail ==
  \A q \in Seq(Signals) : q # <<>> =>
    /\ AddedFirst(Tail(q)) \subseteq AddedFirst(q)
    /\ \A x \in StatesIn(Tail(q)) :
         Head(q).kind = "added" /\ IsDeactivation(x) /\ x.of = Head(q).path.ssid => Head(q).path \in AddedFirst(q)
<1> SUFFICES ASSUME NEW q \in Seq(Signals), q # <<>>
             PROVE  /\ AddedFirst(Tail(q)) \subseteq AddedFirst(q)
                    /\ \A x \in StatesIn(Tail(q)) : Head(q).kind = "added" /\ IsDeactivation(x)
                         /\ x.of = Head(q).path.ssid => Head(q).path \in AddedFirst(q)
  OBVIOUS
<1> DEFINE r == Tail(q)
<1>1. /\ Len(q) \in Nat \ {0} /\ DOMAIN q = 1..Len(q) /\ Head(q) = q[1]
      /\ DOMAIN r = 1..(Len(q) - 1) /\ \A i \in 1..(Len(q) - 1) : r[i] = q[i + 1]
  OBVIOUS
<1> HIDE DEF r
<1>2. ASSUME NEW p \in AddedFirst(r) PROVE p \in AddedFirst(q)
  <2>1. PICK i \in DOMAIN r : r[i].kind = "added" /\ p = r[i].path /\ \E k \in DOMAIN r :
          k > i /\ r[k].kind = "state" /\ IsDeactivation(r[k]) /\ r[k].of = r[i].path.ssid
    BY <1>2 DEF AddedFirst
  <2>2. PICK k \in DOMAIN r : k > i /\ r[k].kind = "state" /\ IsDeactivation(r[k]) /\ r[k].of = r[i].path.ssid
    BY <2>1
  <2>3. /\ i + 1 \in DOMAIN q /\ k + 1 \in DOMAIN q /\ r[i] = q[i + 1] /\ r[k] = q[k + 1] /\ k + 1 > i + 1
    BY <1>1, <2>2
  <2> QED
    BY <2>1, <2>2, <2>3 DEF AddedFirst
<1>3. ASSUME NEW x \in StatesIn(r), Head(q).kind = "added", IsDeactivation(x), x.of = Head(q).path.ssid
      PROVE  Head(q).path \in AddedFirst(q)
  <2>1. PICK i \in DOMAIN r : r[i] = x /\ r[i].kind = "state"
    BY <1>3 DEF StatesIn
  <2>2. 1 \in DOMAIN q /\ i + 1 \in DOMAIN q /\ q[i + 1] = x /\ i + 1 > 1
    BY <1>1, <2>1
  <2> QED
    BY <1>1, <1>3, <2>1, <2>2 DEF AddedFirst
<1> QED
  BY <1>2, <1>3 DEF r

\* What is added to a sequence may deactivate the device for what the sequence has announced.
LEMMA AddedFirstConcat ==
  \A q \in Seq(Signals) : \A r \in Seq(Signals) : \A p \in AddedFirst(q \o r) :
    \/ p \in AddedFirst(q) \cup AddedFirst(r)
    \/ p \in PathsIn("added", q) /\ \E x \in StatesIn(r) : IsDeactivation(x) /\ x.of = p.ssid
<1> SUFFICES ASSUME NEW q \in Seq(Signals), NEW r \in Seq(Signals), NEW p \in AddedFirst(q \o r)
             PROVE  \/ p \in AddedFirst(q) \cup AddedFirst(r)
                    \/ p \in PathsIn("added", q) /\ \E x \in StatesIn(r) : IsDeactivation(x) /\ x.of = p.ssid
  OBVIOUS
<1> DEFINE t == q \o r
           n == Len(q)
           m == Len(r)
<1>1. /\ n \in Nat /\ m \in Nat /\ DOMAIN q = 1..n /\ DOMAIN r = 1..m /\ DOMAIN t = 1..(n + m)
      /\ \A i \in 1..n : t[i] = q[i]
      /\ \A i \in 1..m : t[n + i] = r[i]
  OBVIOUS
<1>2. p \in AddedFirst(t)
  OBVIOUS
<1> HIDE DEF t, n, m
<1>3. PICK i \in DOMAIN t : t[i].kind = "added" /\ p = t[i].path /\ \E k \in DOMAIN t :
        k > i /\ t[k].kind = "state" /\ IsDeactivation(t[k]) /\ t[k].of = t[i].path.ssid
  BY <1>2 DEF AddedFirst
<1>4. PICK k \in DOMAIN t : k > i /\ t[k].kind = "state" /\ IsDeactivation(t[k]) /\ t[k].of = t[i].path.ssid
  BY <1>3
<1>5. i \in Int /\ k \in Int /\ 1 <= i /\ i < k /\ k <= n + m
  BY <1>1, <1>4
<1>6. \A j \in Int : n < j /\ j <= n + m => j - n \in 1..m /\ n + (j - n) = j
  BY <1>1
<1>7. CASE k <= n
  <2>1. i \in DOMAIN q /\ k \in DOMAIN q /\ t[i] = q[i] /\ t[k] = q[k]
    BY <1>1, <1>5, <1>7
  <2> QED
    BY <1>3, <1>4, <2>1 DEF AddedFirst
<1>8. CASE k > n
  <2>1. k - n \in DOMAIN r /\ t[k] = r[k - n]
    BY <1>1, <1>5, <1>6, <1>8
  <2>2. CASE i <= n
    <3>1. i \in DOMAIN q /\ t[i] = q[i]
      BY <1>1, <1>5, <2>2
    <3>2. t[k] \in StatesIn(r)
      BY <1>4, <2>1 DEF StatesIn
    <3>3. p \in PathsIn("added", q)
      BY <1>3, <3>1 DEF PathsIn
    <3> QED
      BY <1>3, <1>4, <3>2, <3>3
  <2>3. CASE i > n
    <3>1. i - n \in DOMAIN r /\ t[i] = r[i - n] /\ k - n > i - n
      BY <1>1, <1>5, <1>6, <2>3
    <3> QED
      BY <1>3, <1>4, <2>1, <3>1 DEF AddedFirst
  <2> QED
    BY <1>1, <1>5, <2>2, <2>3
<1> QED
  BY <1>1, <1>5, <1>7, <1>8

\* Marking a sequence as late keeps them.
LEMMA AddedFirstLate ==
  \A q \in Seq(Signals) : AddedFirst(Late(q)) = AddedFirst(q)
<1> SUFFICES ASSUME NEW q \in Seq(Signals) PROVE AddedFirst(Late(q)) = AddedFirst(q)
  OBVIOUS
<1> DEFINE r == Late(q)
<1>1. /\ DOMAIN r = DOMAIN q
      /\ \A i \in DOMAIN q : /\ r[i].kind = q[i].kind
                             /\ q[i].kind # "state" => r[i] = q[i]
                             /\ q[i].kind = "state" => IsDeactivation(r[i]) = IsDeactivation(q[i]) /\ r[i].of = q[i].of
  BY LateAt, MarkedRemoval
<1> HIDE DEF r
<1> DEFINE Before(s, j) == s[j].kind = "added" /\ \E k \in DOMAIN s :
             k > j /\ s[k].kind = "state" /\ IsDeactivation(s[k]) /\ s[k].of = s[j].path.ssid
<1>2. /\ AddedFirst(r) = {r[i].path : i \in {j \in DOMAIN r : Before(r, j)}}
      /\ AddedFirst(q) = {q[i].path : i \in {j \in DOMAIN q : Before(q, j)}}
  BY DEF AddedFirst
<1>3. \A j \in DOMAIN q : Before(r, j) <=> Before(q, j)
  BY <1>1
<1>4. \A j \in DOMAIN q : Before(q, j) => r[j] = q[j]
  BY <1>1
<1> HIDE DEF Before
<1>5. AddedFirst(r) = AddedFirst(q)
  BY <1>1, <1>2, <1>3, <1>4
<1> QED
  BY <1>5 DEF r

\* Steps that add no connection and say of no new deactivation.
LEMMA KeptUnknown ==
  ASSUME Unknown, connections' = connections, new_conn_q' = new_conn_q, nmConnections' \subseteq nmConnections,
         \A x \in Sigs' : IsDeactivation(x) => x \in Sigs,
         \A x \in StatesIn(bus') : IsDeactivation(x) => x \in StatesIn(bus),
         AddedFirst(bus') \subseteq AddedFirst(bus)
  PROVE  Unknown'
BY DEF Unknown, IsDeactivation

\* recv_messages learns of no connection of a network that the device is deactivated for.
LEMMA ReceiveUnknown ==
  ASSUME TypeOK, TypeOK', Structure, Unknown, Receive
  PROVE  Unknown'
<1> DEFINE Taken(kind) == {m.path : m \in {x \in {Head(bus)} : x.kind = kind}}
<1>1. /\ SignalsKept /\ new_conn_q' = {} /\ nmConnections' = nmConnections /\ bus \in Seq(Signals)
      /\ monitor.pc = "recv" /\ state_q = <<>>
  BY ReceiveMonitor, StatesType DEF Receive, Structure
<1>2. Sigs = StatesIn(bus)
  BY <1>1, EmptyStates DEF Sigs
<1>3. PICK added, removed : added \in SUBSET Paths /\ UpdateConnections(removed, added) /\
        \A x \in Sigs : IsDeactivation(x) => \A q \in added \cap nmConnections : q.ssid # x.of
  <2>0. \A x \in Sigs : IsDeactivation(x) => \A q \in new_conn_q \cap nmConnections : q.ssid # x.of
    BY <1>2 DEF Unknown
  <2>1. CASE bus # <<>>
    <3>1. UpdateConnections(removed_conn_q \cup Taken("removed"), new_conn_q \cup Taken("added"))
      BY <2>1 DEF Receive
    <3>2. ASSUME NEW x \in Sigs, IsDeactivation(x), NEW q \in Taken("added") \cap nmConnections PROVE q.ssid # x.of
      <4>1. Head(bus).kind = "added" /\ q = Head(bus).path
        BY <3>2
      <4>2. x \in StatesIn(Tail(bus))
        BY <1>1, <1>2, <2>1, <4>1, StatesTail
      <4>3. q \notin AddedFirst(bus)
        BY <3>2 DEF Unknown
      <4> QED
        BY <1>1, <2>1, <3>2, <4>1, <4>2, <4>3, AddedFirstTail
    <3>3. new_conn_q \cup Taken("added") \in SUBSET Paths
      BY <2>1, HeadType, SignalKinds DEF TypeOK
    <3>4. \A x \in Sigs : IsDeactivation(x) => \A q \in (new_conn_q \cup Taken("added")) \cap nmConnections : q.ssid # x.of
      BY <2>0, <3>2
    <3> HIDE DEF Taken
    <3> QED
      BY <3>1, <3>3, <3>4
  <2>2. CASE bus = <<>>
    <3>1. UpdateConnections(removed_conn_q, new_conn_q) /\ new_conn_q \in SUBSET Paths
      BY <2>2 DEF Receive, TypeOK
    <3> QED
      BY <2>0, <3>1
  <2> QED
    BY <2>1, <2>2
<1>4. ASSUME NEW x \in Sigs, IsDeactivation(x) PROVE connections'[x.of] \notin nmConnections
  <2> DEFINE New == {p \in added \cap nmConnections : p.ssid = x.of}
  <2>1. x.of \in Ssids
    BY <1>4, StatesType, SignalKinds
  <2>2. New = {}
    BY <1>3, <1>4
  <2>3. IF New # {} THEN connections'[x.of] \in New
        ELSE connections'[x.of] = IF connections[x.of] \in removed THEN NoPath ELSE connections[x.of]
    BY <1>3, <2>1 DEF UpdateConnections
  <2>4. connections[x.of] \notin nmConnections /\ NoPath \notin nmConnections
    BY <1>4, PathIsNotNoPath DEF Unknown, TypeOK
  <2> QED
    BY <2>2, <2>3, <2>4
<1>5. AddedFirst(bus') \subseteq AddedFirst(bus)
  <2>1. bus' = bus \/ (bus # <<>> /\ bus' = Tail(bus))
    BY DEF Receive
  <2> QED
    BY <1>1, <2>1, AddedFirstTail
<1>6. AddedFirst(bus') \cap nmConnections = {}
  BY <1>5 DEF Unknown
<1> QED
  BY <1>1, <1>4, <1>6 DEF Unknown, SignalsKept, IsDeactivation

\* While the monitor thread waits for a reply, what it is told of is gone already.
LEMMA DeliverUnknown ==
  ASSUME TypeOK, Unknown, Deliver, SignalsKept
  PROVE  Unknown'
<1>1. /\ bus # <<>> /\ bus \in Seq(Signals) /\ bus' = Tail(bus)
      /\ connections' = connections /\ nmConnections' = nmConnections
      /\ new_conn_q' = IF Head(bus).kind = "added" THEN new_conn_q \cup {Head(bus).path} ELSE new_conn_q
  BY StatesType DEF Deliver
<1>2. StatesIn(bus') \subseteq StatesIn(bus) /\ AddedFirst(bus') \subseteq AddedFirst(bus)
  BY <1>1, StatesTail, AddedFirstTail
<1>3. ASSUME NEW x \in StatesIn(bus'), IsDeactivation(x), NEW q \in new_conn_q', q.ssid = x.of
      PROVE  q \notin nmConnections
  <2>1. CASE q \in new_conn_q
    BY <1>2, <1>3, <2>1 DEF Unknown
  <2>2. CASE Head(bus).kind = "added" /\ q = Head(bus).path
    <3>1. q \in AddedFirst(bus)
      BY <1>1, <1>3, <2>2, AddedFirstTail
    <3> QED
      BY <3>1 DEF Unknown
  <2> QED
    BY <1>1, <1>3, <2>1, <2>2
<1>4. AddedFirst(bus') \cap nmConnections = {}
  BY <1>2 DEF Unknown
<1> QED
  BY <1>1, <1>3, <1>4 DEF Unknown, SignalsKept, IsDeactivation

\* Forgetting the connection that the device is on, the one of its network that NM has, leaves none.
LEMMA DeletesActiveUnknown ==
  ASSUME TypeOK, OneConnection, Unknown, NEW w \in Workers, Forgets(w), NEW path \in Paths,
         path = connections[worker[w].value.ssid], path.ssid = worker[w].value.ssid, DeletesActive(path)
  PROVE  Unknown'
<1>1. /\ connections' = connections /\ new_conn_q' = new_conn_q
      /\ nmConnections' = nmConnections \ {path} /\ path \in nmConnections
  BY DEF Forgets, WorkerUnchanged, queues, DeletesActive
<1>2. \A q \in nmConnections' : q.ssid # path.ssid
  BY <1>1 DEF OneConnection
<1>3. ASSUME NEW x \in Sigs', IsDeactivation(x) PROVE connections'[x.of] \notin nmConnections'
  <2>1. x \in Sigs \/ x.of = path.ssid
    BY <1>3 DEF DeletesActive
  <2>2. connections[path.ssid] = path
    OBVIOUS
  <2> QED
    BY <1>1, <1>3, <2>1, <2>2 DEF Unknown
<1>4. PICK said \in Seq(Signals) : Leaves(path, said) /\ bus' = bus \o said
  BY DEF DeletesActive
<1>5. DOMAIN said = 1..3 /\ said[1].kind = "removed" /\ \A i \in {2, 3} : said[i].kind = "state" /\ said[i].of = path.ssid
  <2>1. DOMAIN said = 1..3 /\ said[1] = Removed(path) /\ \A i \in {2, 3} : said[i] \in StateSignals /\ said[i].of = path.ssid
    BY <1>4 DEF Leaves
  <2> QED
    BY <2>1, PathSignalType, SignalKinds
<1>6. (\A x \in StatesIn(said) : x.of = path.ssid) /\ PathsIn("added", said) = {}
  <2>1. \A i \in DOMAIN said : i = 1 \/ i = 2 \/ i = 3
    BY <1>5
  <2> QED
    BY <1>5, <2>1 DEF StatesIn, PathsIn
<1>7. StatesIn(bus') = StatesIn(bus) \cup StatesIn(said) /\ bus \in Seq(Signals)
  BY <1>4, StatesConcat, StatesType
<1>8. ASSUME NEW x \in StatesIn(bus'), IsDeactivation(x), NEW q \in new_conn_q', q.ssid = x.of
      PROVE  q \notin nmConnections'
  BY <1>1, <1>2, <1>6, <1>7, <1>8 DEF Unknown
<1>9. ASSUME NEW p \in AddedFirst(bus') PROVE p \notin nmConnections'
  <2>1. \/ p \in AddedFirst(bus) \cup AddedFirst(said)
        \/ \E x \in StatesIn(said) : x.of = p.ssid
    BY <1>4, <1>7, <1>9, AddedFirstConcat
  <2>2. AddedFirst(said) = {}
    BY <1>6, AddedFirstIn
  <2>3. p \in AddedFirst(bus) => p \notin nmConnections
    BY DEF Unknown
  <2> QED
    BY <1>1, <1>2, <1>6, <2>1, <2>2, <2>3
<1> QED
  BY <1>3, <1>8, <1>9 DEF Unknown, IsDeactivation

\* A connection that a worker adds is known to nobody yet.
LEMMA ConnectsUnknown ==
  ASSUME TypeOK, Numbers, KnownNumbers, Unknown, NEW w \in Workers, NEW path \in Paths, NEW gone \in SUBSET Paths,
         NEW new \in BOOLEAN, Connects(w, path, gone, new)
  PROVE  Unknown'
<1>1. /\ connections' = connections /\ new_conn_q' = new_conn_q /\ nmConnections' \subseteq nmConnections \cup {path}
      /\ \A x \in Sigs' : IsDeactivation(x) => x \in Sigs
  BY DEF Connects, Begins, WorkerUnchanged, queues, IsDeactivation
<1>2. PICK extra \in Seq(Signals) : bus' = bus \o extra /\ \A x \in StatesIn(extra) : ~IsDeactivation(x)
  BY DEF Connects, Begins, IsDeactivation
<1>3. /\ StatesIn(bus') = StatesIn(bus) \cup StatesIn(extra) /\ bus \in Seq(Signals)
      /\ AddedFirst(extra) = {}
  BY <1>2, StatesConcat, StatesType, AddedFirstIn
<1>4. AddedFirst(bus') \subseteq AddedFirst(bus)
  BY <1>2, <1>3, AddedFirstConcat
<1>5. CASE path \in nmConnections
  BY <1>1, <1>2, <1>3, <1>4, <1>5, KeptUnknown
<1>6. CASE path \notin nmConnections
  <2>1. path.n = paths + 1 /\ paths \in Nat
    BY <1>6 DEF Connects, TypeOK
  <2>2. ASSUME NEW s \in Ssids, connections[s] = path PROVE FALSE
    <3>1. path.n <= paths
      BY <2>2 DEF KnownNumbers
    <3> QED
      BY <2>1, <3>1
  <2>3. path \notin new_conn_q \cup AddedFirst(bus)
    <3>1. AddedFirst(bus) \subseteq Additions
      BY AddedFirstIn DEF Additions
    <3>2. \A p \in new_conn_q \cup Additions : p.n <= paths
      BY DEF Numbers, Numbered
    <3> QED
      BY <2>1, <3>1, <3>2
  <2>4. ASSUME NEW x \in Sigs', IsDeactivation(x) PROVE connections'[x.of] \notin nmConnections'
    <3>1. x \in Sigs /\ x.of \in Ssids
      BY <1>1, <2>4, StatesType, SignalKinds
    <3>2. connections[x.of] \notin nmConnections
      BY <2>4, <3>1 DEF Unknown
    <3> QED
      BY <1>1, <2>2, <3>1, <3>2
  <2>5. ASSUME NEW x \in StatesIn(bus'), IsDeactivation(x), NEW q \in new_conn_q', q.ssid = x.of
        PROVE  q \notin nmConnections'
    <3>1. x \in StatesIn(bus) /\ q \in new_conn_q
      BY <1>1, <1>2, <1>3, <2>5
    <3>2. q \notin nmConnections
      BY <2>5, <3>1 DEF Unknown
    <3> QED
      BY <1>1, <2>3, <3>1, <3>2
  <2>6. AddedFirst(bus') \cap nmConnections' = {}
    <3>1. AddedFirst(bus) \cap nmConnections = {}
      BY DEF Unknown
    <3> QED
      BY <1>1, <1>4, <2>3, <3>1
  <2> QED
    BY <2>4, <2>5, <2>6 DEF Unknown, IsDeactivation
<1> QED
  BY <1>5, <1>6

\* Every step keeps them unknown.
LEMMA UnknownStep ==
  ASSUME TypeOK, TypeOK', Structure, Numbers, KnownNumbers, OneConnection, Unknown, StepDoes
  PROVE  Unknown'
<1>1. CASE NmDoes
  <2>1. \A x \in Sigs' : ~IsDeactivation(x)
    BY <1>1 DEF NmDoes, NmGoesOn, NmEnds, IsDeactivation
  <2>2. \A x \in StatesIn(bus') : ~IsDeactivation(x)
    BY <2>1 DEF Sigs
  <2>3. AddedFirst(bus') = {}
    BY <2>2, AddedFirstIn
  <2> QED
    BY <2>1, <2>2, <2>3 DEF Unknown, IsDeactivation
<1>2. ASSUME UNCHANGED <<connections, new_conn_q, bus, nmConnections>>, Sigs' \subseteq Sigs
      PROVE  Unknown'
  BY <1>2, KeptUnknown
<1>3. CASE MonitorActs
  <2>1. CASE Receive
    BY <2>1, ReceiveUnknown
  <2>2. CASE Deliver /\ SignalsKept
    BY <2>2, DeliverUnknown
  <2>3. CASE Handles(Head(state_q)) \/ Connecting(Head(state_q)) \/ LooksUp \/ Assigns \/ Saves
    <3>1. UNCHANGED <<connections, new_conn_q, bus, nmConnections>> /\ Sigs' \subseteq Sigs
      BY <2>3 DEF Handles, Connecting, LooksUp, Assigns, Saves, nmVars, queues, SignalHandled, SignalsKept
    <3> QED
      BY <1>2, <3>1
  <2> QED
    BY <1>3, <2>1, <2>2, <2>3 DEF MonitorActs
<1>4. CASE RunsCallbacks
  BY <1>2, <1>4 DEF RunsCallbacks, nmVars, queues, SignalsKept
<1>5. ASSUME NEW w \in Workers, WorkerDoes(w) PROVE Unknown'
  <2>1. CASE Forgets(w)
    <3> DEFINE path == connections[worker[w].value.ssid]
    <3>1. connections' = connections /\ new_conn_q' = new_conn_q
      BY <2>1 DEF Forgets, WorkerUnchanged, queues
    <3>2. CASE DeletesNothing(path) /\ SignalsKept
      BY <1>2, <3>1, <3>2 DEF DeletesNothing, SignalsKept
    <3>3. CASE path \in Paths /\ DeletesOther(path)
      <4> DEFINE r == Removed(path)
                 extra == <<r>>
      <4>1. /\ bus' = Append(bus, r) /\ r \in Signals /\ r.kind = "removed" /\ bus \in Seq(Signals)
            /\ nmConnections' \subseteq nmConnections /\ Sigs' = Sigs
        BY <3>3, PathSignalType, SignalKinds, StatesType DEF DeletesOther, SignalsKept
      <4> HIDE DEF r
      <4>2. bus' = bus \o extra /\ extra \in Seq(Signals) /\ StatesIn(extra) = {}
        BY <4>1 DEF StatesIn
      <4> HIDE DEF extra
      <4>3. StatesIn(bus') = StatesIn(bus) /\ AddedFirst(bus') \subseteq AddedFirst(bus)
        <5>1. AddedFirst(extra) = {}
          BY <4>2, AddedFirstIn
        <5>2. StatesIn(bus') = StatesIn(bus)
          <6>1. StatesIn(bus \o extra) = StatesIn(bus) \cup StatesIn(extra)
            BY <4>1, <4>2, StatesConcat
          <6> QED
            BY <4>2, <6>1
        <5>3. \A p \in AddedFirst(bus \o extra) : p \in AddedFirst(bus) \cup AddedFirst(extra)
          BY <4>1, <4>2, AddedFirstConcat
        <5> QED
          BY <4>2, <5>1, <5>2, <5>3
      <4> QED
        BY <3>1, <4>1, <4>3, KeptUnknown
    <3>4. CASE path \in Paths /\ path.ssid = worker[w].value.ssid /\ DeletesActive(path)
      BY <2>1, <3>4, DeletesActiveUnknown
    <3> QED
      BY <2>1, <3>2, <3>3, <3>4 DEF Forgets
  <2>2. ASSUME NEW path \in Paths, NEW gone \in SUBSET Paths, NEW new \in BOOLEAN, Connects(w, path, gone, new)
        PROVE  Unknown'
    BY <2>2, ConnectsUnknown
  <2>3. CASE Errs(w) \/ (ResyncDoes(w) /\ SignalsKept)
    <3>1. UNCHANGED <<connections, new_conn_q, bus, nmConnections>> /\ Sigs' = Sigs
      BY <2>3 DEF Errs, WorkerUnchanged, ResyncDoes, nmVars, queues, SignalsKept
    <3> QED
      BY <1>2, <3>1
  <2> QED
    BY <1>5, <2>1, <2>2, <2>3 DEF WorkerDoes
<1>6. ASSUME NEW w \in Workers, UserActs(w) PROVE Unknown'
  <2>1. CASE StartsWorker(w) /\ SignalsKept
    BY <1>2, <2>1 DEF StartsWorker, SignalsKept, nmVars, queues
  <2>2. ASSUME NEW ssid \in Ssids, NEW pc \in {"forget", "activate"}, Chooses(w, ssid, pc), SignalsMarked
        PROVE  Unknown'
    <3>1. UNCHANGED <<connections, new_conn_q, nmConnections>> /\ bus' = Late(bus) /\ bus \in Seq(Signals)
      BY <2>2, StatesType DEF Chooses
    <3>2. AddedFirst(bus') = AddedFirst(bus) /\ StatesIn(bus') = {MarkedLate(x) : x \in StatesIn(bus)}
      BY <3>1, AddedFirstLate, StatesLate
    <3>3. StatesIn(bus) \subseteq StateSignals /\ Sigs \subseteq StateSignals
      BY StatesType DEF Sigs
    <3>4. /\ \A x \in Sigs' : \E y \in Sigs : x.of = y.of /\ IsDeactivation(x) = IsDeactivation(y)
          /\ \A x \in StatesIn(bus') : \E y \in StatesIn(bus) : x.of = y.of /\ IsDeactivation(x) = IsDeactivation(y)
      BY <2>2, <3>2, <3>3, MarkedLateType, MarkedRemoval DEF SignalsMarked
    <3> QED
      BY <3>1, <3>2, <3>4 DEF Unknown, IsDeactivation
  <2> QED
    BY <1>6, <2>1, <2>2 DEF UserActs
<1> QED
  BY <1>1, <1>3, <1>4, <1>5, <1>6 DEF StepDoes

\* Once the handler is about to go on to a removal that it has in its queue, it does: that is a race.
LEMMA DoomedStays ==
  ASSUME TypeOK, TypeOK', Structure, Doomed, StepDoes, ~raced'
  PROVE  Doomed'
<1>0. /\ state_q \in Seq(Signals) /\ state_q \in Seq(StateSignals) /\ StatesIn(state_q) \subseteq StateSignals
      /\ state_q # <<>>
  BY StatesType, EmptyStates DEF TypeOK, Sigs, Doomed, RemovalInQueue
<1>1. ASSUME removed_conn_q \subseteq removed_conn_q', StatesIn(state_q) \subseteq StatesIn(state_q')
      PROVE  Doomed'
  BY <1>1 DEF Doomed, RemovalInQueue, OfRemoval, IsDeactivation, IsRemoval
<1>2. CASE NmDoes
  BY <1>0, <1>2 DEF NmDoes, NmGoesOn, NmEnds, NmQuietly
<1>3. CASE MonitorActs
  <2>1. CASE Receive
    BY <1>0, <2>1 DEF Receive, Structure
  <2>2. CASE Deliver
    <3>1. /\ removed_conn_q \subseteq removed_conn_q' /\ Head(bus) \in Signals
          /\ state_q' = IF Head(bus).kind = "state" THEN Append(state_q, Head(bus)) ELSE state_q
      BY <2>2, HeadType DEF Deliver
    <3>2. StatesIn(state_q) \subseteq StatesIn(state_q')
      BY <1>0, <3>1, StatesAppend
    <3> QED
      BY <1>1, <3>1, <3>2
  <2>3. CASE Handles(Head(state_q)) \/ Connecting(Head(state_q))
    <3>1. /\ ~OfRemoval(Head(state_q)) /\ removed_conn_q' = removed_conn_q /\ state_q' = Tail(state_q)
      BY <2>3 DEF Handles, Connecting, OfRemoval, IsDeactivation, IsRemoval, Doomed
    <3>2. StatesIn(state_q) \subseteq StatesIn(state_q') \cup {Head(state_q)}
      BY <1>0, <3>1, StatesTail
    <3> QED
      BY <3>1, <3>2 DEF Doomed, RemovalInQueue, OfRemoval, IsDeactivation, IsRemoval
  <2>4. CASE LooksUp \/ Assigns \/ Saves
    BY <1>1, <2>4 DEF LooksUp, Assigns, Saves, queues
  <2> QED
    BY <1>3, <2>1, <2>2, <2>3, <2>4 DEF MonitorActs
<1>4. CASE RunsCallbacks
  BY <1>1, <1>4 DEF RunsCallbacks, queues
<1>5. ASSUME NEW w \in Workers, WorkerDoes(w) PROVE Doomed'
  BY <1>1, <1>5 DEF WorkerDoes, Forgets, Errs, Connects, WorkerUnchanged, ResyncDoes, queues
<1>6. ASSUME NEW w \in Workers, UserActs(w) PROVE Doomed'
  <2>1. CASE StartsWorker(w)
    BY <1>1, <2>1 DEF StartsWorker, queues
  <2>2. ASSUME NEW ssid \in Ssids, NEW pc \in {"forget", "activate"}, Chooses(w, ssid, pc)
        PROVE  Doomed'
    <3>1. removed_conn_q' = removed_conn_q /\ state_q' = Late(state_q)
      BY <2>2 DEF Chooses
    <3>2. StatesIn(state_q') = {MarkedLate(x) : x \in StatesIn(state_q)}
      BY <1>0, <3>1, StatesLate
    <3> QED
      BY <1>0, <3>1, <3>2, MarkedRemoval DEF Doomed, RemovalInQueue, OfRemoval, IsDeactivation, IsRemoval
  <2> QED
    BY <1>6, <2>1, <2>2 DEF UserActs
<1> QED
  BY <1>2, <1>3, <1>4, <1>5, <1>6 DEF StepDoes

\* What the steps of the connected picture have to know of the others.
Fitting ==
  /\ TypeOK /\ TypeOK' /\ Structure /\ SaysNm /\ Snapshots /\ LostLast /\ QueueOrder /\ Shown /\ ConnectedFits
  /\ ~raced' /\ ~Doomed

\* A step that has no part in it.
FitsOn ==
  /\ nm' = nm /\ wifi_state' = wifi_state /\ Sigs' \subseteq Sigs
  /\ nm.phase = "disconnected" /\ Sigs' = {} /\ wifi_state.status = "CONNECTED" =>
       Sigs = {} \/ wifi_state.ssid = NoSsid
  /\ \/ monitor'.pc # "assign" \/ monitor'.value.status # "CONNECTED" \/ ~monitor'.newest
     \/ /\ monitor'.pc = monitor.pc /\ monitor'.value = monitor.value /\ monitor'.newest = monitor.newest
        /\ \A w \in Workers : Chooser(w)' => Chooser(w)

\* Such a step leaves what fits.
LEMMA FitsOnFits ==
  ASSUME ConnectedFits, FitsOn
  PROVE  ConnectedFits'
<1>1. \A ssid : Fits(ssid) => Fits(ssid)'
  BY DEF FitsOn, Fits, Working, OfRemoval, IsDeactivation, IsRemoval
<1>2. PictureFits'
  BY <1>1 DEF ConnectedFits, PictureFits, FitsOn
<1>3. PictureEnds'
  BY DEF ConnectedFits, PictureEnds, FitsOn
<1>4. ReplyFits'
  <2>1. CASE monitor'.pc # "assign" \/ monitor'.value.status # "CONNECTED" \/ ~monitor'.newest
    BY <2>1 DEF ReplyFits
  <2>2. CASE /\ monitor'.pc = monitor.pc /\ monitor'.value = monitor.value /\ monitor'.newest = monitor.newest
             /\ \A w \in Workers : Chooser(w)' => Chooser(w)
    <3>1. Misfits(monitor.value.ssid) => Misfits(monitor.value.ssid)'
      BY <2>2 DEF FitsOn, Misfits
    <3> QED
      BY <1>1, <2>2, <3>1 DEF ConnectedFits, ReplyFits
  <2> QED
    BY <2>1, <2>2 DEF FitsOn
<1> QED
  BY <1>2, <1>3, <1>4 DEF ConnectedFits

\* NM by itself says nothing of a removal, and begins after the picture shows that it is disconnected.
LEMMA NmFits ==
  ASSUME Fitting, NmDoes
  PROVE  ConnectedFits'
<1>1. /\ Sigs = {} /\ wifi_state' = wifi_state /\ monitor' = monitor /\ \A x \in Sigs' : ~OfRemoval(x)
      /\ Sigs' # {}
  BY DEF NmDoes, NmGoesOn, NmEnds, NmQuietly, OfRemoval, IsDeactivation, IsRemoval
<1>2. CASE NmEnds
  <2>1. nm'.phase = "disconnected"
    BY <1>2 DEF NmEnds
  <2>2. \A ssid : Fits(ssid)'
    BY <1>1, <2>1 DEF Fits, Working, OfRemoval, IsDeactivation, IsRemoval
  <2> QED
    BY <1>1, <2>2 DEF ConnectedFits, PictureFits, PictureEnds, ReplyFits
<1>3. CASE ~NmEnds
  <2>1. nm.phase # "activated" /\ nm'.phase # "disconnected" /\ (Working => nm'.path = nm.path)
    BY <1>3 DEF NmDoes, NmGoesOn, Working
  <2>2. ~(monitor.pc = "assign" /\ monitor.value.status = "CONNECTED")
    BY <1>1, <2>1 DEF Fitting, SaysNm, WaitsConnected
  <2>3. wifi_state.status = "CONNECTED" => wifi_state.ssid \in {NoSsid, nm'.path.ssid}
    BY <1>1, <2>1 DEF Fitting, ConnectedFits, PictureFits, PictureEnds, Fits, Working
  <2>4. wifi_state.status = "CONNECTED" => Fits(wifi_state.ssid)'
    BY <1>1, <2>3 DEF Fits, OfRemoval, IsDeactivation, IsRemoval
  <2> QED
    BY <1>1, <2>1, <2>2, <2>4 DEF ConnectedFits, PictureFits, PictureEnds, ReplyFits
<1> QED
  BY <1>2, <1>3

\* The handler clears the picture at the latest with the last signal that says the device is
\* disconnected.
LEMMA HandlesFits ==
  ASSUME Fitting, RemovalFirst, NEW signal, Handles(signal)
  PROVE  ConnectedFits'
<1>1. /\ nm' = nm /\ bus' = bus /\ connections' = connections /\ SignalHandled /\ signal = Head(state_q)
      /\ signal \in StateSignals /\ monitor'.pc # "assign" /\ Sigs' \subseteq Sigs /\ signal \in Sigs
  BY DEF Handles, SignalHandled, nmVars
<1>2. CASE Clears(signal)
  <2>1. wifi_state'.status # "CONNECTED"
    BY <1>2 DEF Handles, Disconnected
  <2> QED
    BY <1>1, <2>1 DEF ConnectedFits, PictureFits, PictureEnds, ReplyFits
<1>3. CASE ~Clears(signal)
  <2>1. ASSUME nm.phase = "disconnected", Sigs' = {}, wifi_state.status = "CONNECTED"
        PROVE  wifi_state.ssid = NoSsid
    <3>1. Lasts = {signal} /\ StatesIn(bus) = {}
      BY <1>1, <2>1 DEF SignalHandled, Sigs
    <3>2. signal.state = "DISCONNECTED" /\ signal.reason \in {"NONE", "CONNECTION_REMOVED"}
      BY <1>1, <2>1, <3>1 DEF Fitting, SaysNm, DisconnectedLast
    <3>3. KeepsState(signal)
      BY <1>3, <3>2 DEF Clears
    <3>4. signal.reason = "CONNECTION_REMOVED" /\ connections[wifi_state.ssid] # NoPath
      BY <3>2, <3>3 DEF KeepsState
    <3>5. removed_conn_q = {}
      BY <3>4 DEF Handles, Fitting
    <3>6. connections[signal.of] = NoPath
      BY <2>1, <3>1, <3>2, <3>4, <3>5, RemovalKnown DEF Fitting, IsRemoval
    <3>7. wifi_state.ssid \in {NoSsid, signal.of}
      BY <1>1, <2>1, <3>2, <3>4 DEF Fitting, ConnectedFits, PictureFits, Fits, OfRemoval, IsRemoval
    <3> QED
      BY <3>4, <3>6, <3>7
  <2>2. wifi_state' = wifi_state
    BY <1>3 DEF Handles
  <2>3. FitsOn
    BY <1>1, <2>1, <2>2 DEF FitsOn
  <2> QED
    BY <2>3, FitsOnFits DEF Fitting
<1> QED
  BY <1>2, <1>3

\* When the handler of ACTIVATED has its reply, nothing of a removal is pending that it could miss.
LEMMA LooksUpFits ==
  ASSUME Fitting, LooksUp
  PROVE  ConnectedFits'
<1>1. /\ monitor.pc = "lookup" /\ bus = <<>> /\ nm' = nm /\ wifi_state' = wifi_state /\ Sigs' = Sigs
  BY DEF LooksUp, nmVars, SignalsKept
<1>2. \A x \in Sigs : ~OfRemoval(x)
  <2>1. Queued
    BY <1>1 DEF Fitting, QueueOrder
  <2>2. ~RemovalInQueue
    BY <2>1 DEF Fitting, Queued, Doomed
  <2> QED
    BY <1>1, <2>2, EmptyStates DEF Sigs, RemovalInQueue
<1>3. CASE monitor.value.status = "CONNECTED" /\ monitor.fresh
  <2>1. nm.path # NoPath
    <3>1. CASE nm.phase = "disconnected"
      <4>1. \E x \in Lasts : x.state = "DISCONNECTED" /\ x.reason \in {"NONE", "CONNECTION_REMOVED"}
        BY <1>1, <3>1 DEF Fitting, SaysNm, DisconnectedLast
      <4>2. Lasts \subseteq Sigs
        BY StatesType DEF Fitting
      <4>3. \E x \in Lasts : x.state = "DISCONNECTED" /\ x.reason = "NONE"
        BY <1>2, <4>1, <4>2 DEF OfRemoval, IsRemoval
      <4> QED
        BY <1>1, <1>3, <3>1, <4>3 DEF Fitting, LostLast
    <3>2. CASE nm.phase # "disconnected"
      BY <3>2, NmFacts, PathIsNotNoPath DEF Fitting, Working
    <3> QED
      BY <3>1, <3>2
  <2>2. monitor'.value.ssid = ToSsid(nm.path)
    BY <1>3, <2>1 DEF LooksUp
  <2>3. monitor'.value.ssid \in {NoSsid, nm.path.ssid}
    BY <2>2 DEF ToSsid
  <2>4. Fits(monitor.value.ssid)'
    BY <1>1, <1>2, <2>3 DEF Fits, OfRemoval, IsDeactivation, IsRemoval
  <2>5. PictureFits' /\ PictureEnds'
    BY <1>1 DEF Fitting, ConnectedFits, PictureFits, PictureEnds, Fits, Working, OfRemoval, IsDeactivation, IsRemoval
  <2> QED
    BY <2>4, <2>5 DEF ConnectedFits, ReplyFits
<1>4. CASE ~(monitor.value.status = "CONNECTED" /\ monitor.fresh)
  <2>1. monitor'.pc # "assign" \/ monitor'.value.status # "CONNECTED"
    BY <1>4 DEF LooksUp
  <2> QED
    BY <1>1, <2>1, FitsOnFits DEF FitsOn, Fitting
<1> QED
  BY <1>3, <1>4

\* What the handler writes fits.
LEMMA AssignsFits ==
  ASSUME Fitting, Assigns
  PROVE  ConnectedFits'
<1>1. /\ monitor.pc = "assign" /\ nm' = nm /\ wifi_state' = monitor.value /\ Sigs' = Sigs /\ monitor'.pc # "assign"
  BY DEF Assigns, nmVars, SignalsKept
<1>2. ASSUME monitor.value.status = "CONNECTED" PROVE Fits(monitor.value.ssid)
  <2>1. monitor.newest /\ monitor.fresh
    BY <1>1 DEF Assigns, Fitting, Snapshots
  <2>2. ~Misfits(monitor.value.ssid)
    BY <2>1 DEF Misfits, Assigns, Fitting
  <2> QED
    BY <1>1, <1>2, <2>1, <2>2 DEF Fitting, ConnectedFits, ReplyFits
<1>3. PictureFits'
  BY <1>1, <1>2 DEF PictureFits, Fits, Working, OfRemoval, IsDeactivation, IsRemoval
<1>4. PictureEnds'
  BY <1>1 DEF PictureEnds, Fitting, SaysNm, WaitsConnected
<1> QED
  BY <1>1, <1>3, <1>4 DEF ConnectedFits, ReplyFits

\* The connection that is forgotten is the one that the picture shows.
LEMMA DeletesActiveFits ==
  ASSUME Fitting, NEW w \in Workers, Forgets(w), NEW path \in Paths, DeletesActive(path)
  PROVE  ConnectedFits'
<1>1. /\ wifi_state' = wifi_state /\ monitor' = monitor /\ nm'.phase = "disconnected" /\ nm'.path = NoPath
      /\ Working /\ path = nm.path /\ Sigs' # {}
      /\ \A x \in Sigs' : x \in Sigs \/ x.of = nm.path.ssid
      /\ \A v \in Workers : Chooser(v)' => Chooser(v)
  BY DEF Forgets, WorkerUnchanged, DeletesActive, GoesOn, Chooser, ChooserPcs
<1>2. ASSUME NEW ssid, Fits(ssid) PROVE Fits(ssid)'
  BY <1>1, <1>2 DEF Fits, Working, OfRemoval, IsDeactivation, IsRemoval
<1>3. PictureFits' /\ PictureEnds'
  BY <1>1, <1>2 DEF Fitting, ConnectedFits, PictureFits, PictureEnds
<1>4. Misfits(monitor.value.ssid) => Misfits(monitor.value.ssid)'
  BY <1>1, PathIsNotNoPath DEF Misfits
<1> QED
  BY <1>1, <1>2, <1>3, <1>4 DEF Fitting, ConnectedFits, ReplyFits

\* The network that NM is told to connect to is the one that the picture shows, or none.
LEMMA ConnectsFits ==
  ASSUME Fitting, NEW w \in Workers, NEW path \in Paths, NEW gone \in SUBSET Paths, NEW new \in BOOLEAN,
         Connects(w, path, gone, new)
  PROVE  ConnectedFits'
<1>1. /\ wifi_state' = wifi_state /\ monitor' = monitor /\ nm'.phase = "prepare" /\ nm'.path = path
      /\ path.ssid = worker[w].value.ssid /\ Chooser(w) /\ worker'[w].pc = "idle"
      /\ \A v \in Workers \ {w} : worker'[v] = worker[v]
      /\ \A x \in Sigs' : OfRemoval(x) => x \in Sigs
  BY DEF Connects, Begins, GoesOn, WorkerUnchanged, Chooser, ChooserPcs, OfRemoval, IsDeactivation, IsRemoval
<1>2. wifi_state.ssid \in {NoSsid, path.ssid}
  BY <1>1 DEF Fitting, Shown, ChoiceShown
<1>3. \A v \in Workers : ~Chooser(v)'
  BY <1>1 DEF Fitting, Shown, OneChoice, Chooser, ChooserPcs
<1>4. ASSUME NEW ssid, Fits(ssid), ssid \in {NoSsid, path.ssid} PROVE Fits(ssid)'
  BY <1>1, <1>4 DEF Fits, OfRemoval, IsDeactivation, IsRemoval
<1>5. PictureFits' /\ PictureEnds'
  BY <1>1, <1>2, <1>4 DEF Fitting, ConnectedFits, PictureFits, PictureEnds
<1>6. ReplyFits'
  <2> SUFFICES ASSUME monitor.pc = "assign", monitor.value.status = "CONNECTED", monitor.newest
               PROVE  Fits(monitor.value.ssid)' \/ Misfits(monitor.value.ssid)'
    BY <1>1 DEF ReplyFits
  <2>1. ~Misfits(monitor.value.ssid)
    BY <1>1 DEF Misfits
  <2>2. Fits(monitor.value.ssid)
    BY <2>1 DEF Fitting, ConnectedFits, ReplyFits
  <2>3. CASE monitor.value.ssid \in {NoSsid, path.ssid}
    <3>1. Fits(monitor.value.ssid)'
      BY <1>1, <2>2, <2>3 DEF Fits, OfRemoval, IsDeactivation, IsRemoval
    <3> QED
      BY <3>1
  <2>4. CASE monitor.value.ssid \notin {NoSsid, path.ssid}
    BY <1>1, <1>2, <1>3, <2>4 DEF Misfits
  <2> QED
    BY <2>3, <2>4
<1> QED
  BY <1>5, <1>6 DEF ConnectedFits

\* What _init_wifi_state writes of a connected device fits.
LEMMA ResyncsFits ==
  ASSUME Fitting, NEW w \in Workers, Resyncs(w), SignalsKept,
         UNCHANGED <<nmVars, connections, queues, callback_queue, userVars, unsaved>>
  PROVE  ConnectedFits'
<1>1. /\ nm' = nm /\ wifi_state' = worker[w].value /\ Sigs' = Sigs /\ ~monitor'.newest
      /\ worker[w].value.ssid \in {NoSsid, nm.path.ssid} /\ worker[w].value.status = Status(nm.phase)
  BY DEF Resyncs, nmVars, SignalsKept, Fitting, Snapshots
<1>2. wifi_state'.status = "CONNECTED" => nm.phase = "activated"
  BY <1>1 DEF Status
<1>3. nm.phase = "activated" => \A x \in Sigs : ~OfRemoval(x)
  BY DEF Fitting, SaysNm, OnlyActivated, OfRemoval, IsDeactivation, IsRemoval
<1> QED
  BY <1>1, <1>2, <1>3 DEF ConnectedFits, PictureFits, PictureEnds, ReplyFits, Fits, Working, OfRemoval, IsDeactivation, IsRemoval

\* In every step the connected picture fits, until the handler is bound to race.
LEMMA ConnectedFitsStep ==
  ASSUME Fitting, RemovalFirst, StepDoes
  PROVE  ConnectedFits'
<1>0. TypeOK /\ Structure /\ ConnectedFits /\ SaysNm
  BY DEF Fitting
<1>1. CASE MonitorActs
  <2>1. CASE Receive
    <3>1. nm' = nm /\ wifi_state' = wifi_state /\ Sigs' = Sigs /\ monitor'.pc # "assign"
      BY <1>0, <2>1, ReceiveMonitor DEF SignalsKept
    <3> QED
      BY <1>0, <3>1, FitsOnFits DEF FitsOn
  <2>2. CASE Deliver /\ SignalsKept
    <3>1. nm' = nm /\ wifi_state' = wifi_state /\ Sigs' = Sigs /\ monitor'.pc # "assign"
      BY <2>2 DEF Deliver, SignalsKept
    <3> QED
      BY <1>0, <3>1, FitsOnFits DEF FitsOn
  <2>3. CASE Connecting(Head(state_q))
    <3>1. /\ nm' = nm /\ wifi_state' = wifi_state /\ SignalHandled /\ Head(state_q).state \in {"PREPARE", "ACTIVATED"}
          /\ monitor'.pc # "assign" \/ monitor'.value.status # "CONNECTED"
      BY <2>3 DEF Connecting, nmVars
    <3>2. Sigs' \subseteq Sigs /\ (nm.phase = "disconnected" => Sigs' # {})
      BY <1>0, <3>1 DEF SignalHandled, SaysNm, DisconnectedLast
    <3> QED
      BY <1>0, <3>1, <3>2, FitsOnFits DEF FitsOn
  <2>4. CASE Saves
    <3>1. nm' = nm /\ wifi_state' = wifi_state /\ Sigs' = Sigs /\ monitor'.pc # "assign"
      BY <2>4 DEF Saves, SignalsKept
    <3> QED
      BY <1>0, <3>1, FitsOnFits DEF FitsOn
  <2> QED
    BY <1>1, <2>1, <2>2, <2>3, <2>4, HandlesFits, LooksUpFits, AssignsFits DEF MonitorActs
<1>2. CASE RunsCallbacks
  <2>1. nm' = nm /\ wifi_state' = wifi_state /\ Sigs' = Sigs /\ monitor' = monitor /\ worker' = worker
    BY <1>2 DEF RunsCallbacks, nmVars, SignalsKept
  <2> QED
    BY <1>0, <2>1, FitsOnFits DEF FitsOn, Chooser
<1>3. ASSUME NEW w \in Workers, WorkerDoes(w) PROVE ConnectedFits'
  <2>1. ASSUME nm' = nm, SignalsKept, wifi_state' = wifi_state, monitor' = monitor,
               worker'[w].pc \in ChooserPcs => worker[w].pc \in ChooserPcs,
               \A v \in Workers \ {w} : worker'[v] = worker[v]
        PROVE  ConnectedFits'
    BY <1>0, <2>1, FitsOnFits DEF FitsOn, Chooser, SignalsKept
  <2>2. CASE Forgets(w)
    <3> DEFINE path == connections[worker[w].value.ssid]
    <3>1. CASE path \in Paths /\ DeletesActive(path)
      BY <2>2, <3>1, DeletesActiveFits
    <3>2. CASE (DeletesNothing(path) /\ SignalsKept) \/ (path \in Paths /\ DeletesOther(path))
      <4>1. nm' = nm /\ SignalsKept
        BY <3>2 DEF DeletesNothing, DeletesOther
      <4>2. /\ wifi_state' = wifi_state /\ monitor' = monitor
            /\ worker'[w].pc \in ChooserPcs => worker[w].pc \in ChooserPcs
            /\ \A v \in Workers \ {w} : worker'[v] = worker[v]
        BY <2>2 DEF Forgets, GoesOn, WorkerUnchanged, ChooserPcs
      <4> QED
        BY <2>1, <4>1, <4>2
    <3> QED
      BY <2>2, <3>1, <3>2 DEF Forgets
  <2>3. ASSUME NEW path \in Paths, NEW gone \in SUBSET Paths, NEW new \in BOOLEAN, Connects(w, path, gone, new)
        PROVE  ConnectedFits'
    BY <2>3, ConnectsFits
  <2>4. CASE Errs(w)
    <3>1. /\ nm' = nm /\ SignalsKept /\ wifi_state' = wifi_state /\ monitor' = monitor
          /\ worker'[w].pc \notin ChooserPcs /\ \A v \in Workers \ {w} : worker'[v] = worker[v]
      BY <2>4 DEF Errs, GoesOn, WorkerUnchanged, ChooserPcs
    <3> QED
      BY <2>1, <3>1
  <2>5. CASE ResyncDoes(w) /\ SignalsKept /\ ~Resyncs(w)
    <3>1. /\ nm' = nm /\ SignalsKept /\ wifi_state' = wifi_state /\ monitor' = monitor
          /\ worker'[w].pc \notin ChooserPcs /\ \A v \in Workers \ {w} : worker'[v] = worker[v]
      BY <2>5 DEF ResyncDoes, Asks, Answers, nmVars, ChooserPcs
    <3> QED
      BY <2>1, <3>1
  <2>6. CASE ResyncDoes(w) /\ SignalsKept /\ Resyncs(w)
    BY <2>6, ResyncsFits DEF ResyncDoes
  <2> QED
    BY <1>3, <2>2, <2>3, <2>4, <2>5, <2>6 DEF WorkerDoes
<1>4. ASSUME NEW w \in Workers, UserActs(w) PROVE ConnectedFits'
  <2>1. CASE StartsWorker(w) /\ SignalsKept
    <3>1. /\ nm' = nm /\ wifi_state' = wifi_state /\ monitor' = monitor /\ Sigs' = Sigs
          /\ worker'[w].pc \notin ChooserPcs /\ \A v \in Workers \ {w} : worker'[v] = worker[v]
      BY <2>1 DEF StartsWorker, nmVars, ChooserPcs, SignalsKept
    <3> QED
      BY <1>0, <3>1, FitsOnFits DEF FitsOn, Chooser
  <2>2. ASSUME NEW ssid \in Ssids, NEW pc \in {"forget", "activate"}, Chooses(w, ssid, pc) PROVE ConnectedFits'
    <3>1. wifi_state'.status # "CONNECTED" /\ (monitor'.pc = "assign" => ~monitor'.newest)
      BY <2>2 DEF Chooses
    <3> QED
      BY <3>1 DEF ConnectedFits, PictureFits, PictureEnds, ReplyFits
  <2> QED
    BY <1>4, <2>1, <2>2 DEF UserActs
<1> QED
  BY <1>1, <1>2, <1>3, <1>4, NmFits DEF StepDoes

\* The attempt is in the picture at the start.
LEMMA AttemptInit == Init => AttemptInv
<1> SUFFICES ASSUME Init PROVE AttemptInv
  OBVIOUS
<1>1. PictureInv
  BY PictureInit
<1>2. /\ nm.phase = "disconnected" /\ bus = <<>> /\ state_q = <<>> /\ paths = 0
      /\ removed_conn_q = {} /\ new_conn_q = {} /\ monitor.pc = "recv" /\ wifi_state.status = "DISCONNECTED"
      /\ nmConnections = {[ssid |-> s, n |-> 0] : s \in Saved}
      /\ connections = [s \in Ssids |-> IF s \in Saved THEN [ssid |-> s, n |-> 0] ELSE NoPath]
  BY DEF Init, IdleMonitor, Disconnected
<1>3. StatesIn(bus) = {} /\ Sigs = {} /\ Lasts = {}
  BY <1>1, <1>2, EmptyStates, StatesType DEF PictureInv, Sigs
<1>4. Removals = {} /\ Additions = {}
  BY <1>2 DEF Removals, Additions, PathsIn
<1>5. Numbers
  BY <1>2, <1>4 DEF Numbers, Numbered, GoneForGood
<1>6. KnownNumbers
  <2>1. \A s \in Ssids : connections[s].n = 0
    BY <1>2 DEF NoPath
  <2>2. paths = 0
    BY <1>2
  <2>3. \A n : n = 0 => n <= 0
    OBVIOUS
  <2>4. \A s \in Ssids : connections[s].n <= paths
    BY <2>1, <2>2, <2>3
  <2> QED
    BY <2>4 DEF KnownNumbers
<1>7. Adjacent(bus) /\ AddedFirst(bus) = {}
  BY <1>2 DEF Adjacent, AddedFirst
<1>8. QueueOrder /\ LostLast
  BY <1>2, <1>3 DEF QueueOrder, LostLast
<1>9. Unknown
  BY <1>3, <1>7 DEF Unknown
<1>10. ConnectedFits
  BY <1>2 DEF ConnectedFits, PictureFits, PictureEnds, ReplyFits
<1> QED
  BY <1>1, <1>5, <1>6, <1>7, <1>8, <1>9, <1>10 DEF AttemptInv

\* Every step keeps the invariant of the attempt.
LEMMA AttemptStep == AttemptInv /\ [Next]_vars => AttemptInv'
<1> SUFFICES ASSUME AttemptInv, [Next]_vars PROVE AttemptInv'
  OBVIOUS
<1>1. PictureInv'
  BY PictureStep DEF AttemptInv
<1>2. /\ TypeOK /\ TypeOK' /\ Structure /\ SaysNm /\ Snapshots
      /\ Numbers /\ KnownNumbers /\ Adjacent(bus) /\ QueueOrder /\ LostLast
  BY <1>1 DEF AttemptInv, PictureInv
<1>3. StepDoes
  BY <1>2, NextDoes
<1>4. Numbers' /\ KnownNumbers' /\ Adjacent(bus)' /\ QueueOrder' /\ LostLast'
  BY <1>2, <1>3, NumbersStep, KnownNumbersStep, AdjacentStep, QueueOrderStep, LostLastStep
<1>5. ASSUME ~raced' PROVE Unknown' /\ (Doomed' \/ ConnectedFits')
  <2>1. ~raced
    BY <1>2, <1>3, <1>5, RacedStays
  <2>2. Shown /\ RemovalFirst /\ Unknown
    BY <2>1 DEF AttemptInv, PictureInv
  <2>3. Unknown'
    BY <1>2, <1>3, <2>2, UnknownStep DEF Shown
  <2>4. CASE Doomed
    BY <1>2, <1>3, <1>5, <2>3, <2>4, DoomedStays
  <2>5. CASE ~Doomed
    <3>1. Fitting
      BY <1>2, <1>5, <2>1, <2>2, <2>5 DEF Fitting, AttemptInv
    <3> QED
      BY <1>3, <2>2, <2>3, <3>1, ConnectedFitsStep
  <2> QED
    BY <2>4, <2>5
<1> QED
  BY <1>1, <1>4, <1>5 DEF AttemptInv

\* Only handling a signal makes the queue of state changes shorter.
LEMMA ShorterQueue ==
  ASSUME TypeOK, TypeOK', Structure, StepDoes, Len(state_q') < Len(state_q)
  PROVE  Handles(Head(state_q)) \/ Connecting(Head(state_q))
<1>0. state_q \in Seq(StateSignals) /\ state_q' \in Seq(StateSignals)
  BY DEF TypeOK
<1>1. state_q' # state_q
  BY <1>0
<1>2. CASE MonitorActs
  <2>1. ~Receive
    BY <1>0 DEF Receive, Structure
  <2>2. ~Deliver
    <3>1. Deliver => state_q' = state_q \/ state_q' = Append(state_q, Head(bus))
      BY DEF Deliver
    <3>2. Len(Append(state_q, Head(bus))) = Len(state_q) + 1
      BY <1>0
    <3> QED
      BY <1>0, <1>1, <3>1, <3>2
  <2> QED
    BY <1>1, <1>2, <2>1, <2>2 DEF MonitorActs, LooksUp, Assigns, Saves, queues
<1>3. ~NmDoes /\ ~RunsCallbacks
  BY <1>1 DEF NmDoes, NmGoesOn, NmEnds, NmQuietly, RunsCallbacks, queues
<1>4. ASSUME NEW w \in Workers PROVE ~WorkerDoes(w) /\ ~UserActs(w)
  <2>1. ~WorkerDoes(w)
    BY <1>1 DEF WorkerDoes, Forgets, Errs, Connects, WorkerUnchanged, ResyncDoes, queues
  <2>2. ~StartsWorker(w)
    BY <1>1 DEF StartsWorker, queues
  <2>3. ASSUME NEW ssid \in Ssids, NEW pc \in {"forget", "activate"} PROVE ~Chooses(w, ssid, pc)
    <3>1. Len(Late(state_q)) = Len(state_q)
      BY <1>0, LateType
    <3> QED
      BY <1>0, <3>1 DEF Chooses
  <2> QED
    BY <2>1, <2>2, <2>3 DEF UserActs
<1> QED
  BY <1>2, <1>3, <1>4 DEF StepDoes

\* The signals of a network that is left, or forgotten, leave the attempt alone.
LEMMA AttemptStays ==
  ASSUME AttemptInv, [Next]_vars, nm.phase \in {"prepare", "config"}, nm.path.ssid = wifi_state.ssid,
         connections[nm.path.ssid] = nm.path, Len(state_q') < Len(state_q),
         Head(state_q).reason \in {"NEW_ACTIVATION", "CONNECTION_REMOVED"}, ~raced'
  PROVE  wifi_state' = wifi_state
<1> DEFINE signal == Head(state_q)
<1>1. TypeOK /\ TypeOK' /\ Structure
  BY PictureStep DEF AttemptInv, PictureInv
<1>2. CASE Connecting(signal)
  BY <1>2 DEF Connecting
<1>3. CASE Handles(signal)
  <2>1. /\ ~raced /\ signal \in Sigs /\ (signal.reason = "CONNECTION_REMOVED" => removed_conn_q = {})
    BY <1>3 DEF Handles, SignalHandled
  <2>2. wifi_state.ssid # NoSsid /\ connections[wifi_state.ssid] # NoPath /\ nm.path \in nmConnections
    BY <1>1, NmFacts, PathIsNotNoPath DEF Structure, Working
  <2>3. ASSUME Clears(signal) PROVE FALSE
    <3>1. /\ signal.state = "DEACTIVATING" /\ signal.reason = "CONNECTION_REMOVED"
          /\ wifi_state.status = "CONNECTED"
      BY <2>2, <2>3 DEF Clears, KeepsState, IsWrongPassword
    <3>2. Unknown /\ ConnectedFits
      BY <2>1, <3>1 DEF AttemptInv, Doomed
    <3>3. signal.of = nm.path.ssid
      BY <2>1, <2>2, <3>1, <3>2 DEF ConnectedFits, PictureFits, Fits, OfRemoval, IsDeactivation
    <3>4. connections[signal.of] \notin nmConnections
      BY <2>1, <3>1, <3>2 DEF Unknown, IsDeactivation
    <3> QED
      BY <2>2, <3>3, <3>4
  <2> QED
    BY <1>3, <2>3 DEF Handles
<1> QED
  BY <1>1, <1>2, <1>3, NextDoes, ShorterQueue

\* Whatever the networks, taps, threads and failures: leaving one network for another, or forgetting one
\* while another is being connected, does not take a new attempt out of the picture once its connection
\* has arrived in _connections, unless a race has happened (the returns in the branch DISCONNECTED of
\* _handle_state_change).  The attempt whose NewConnection is late is not covered: the code clears the
\* picture for it until PREPARE.
THEOREM AttemptKept == Spec => KeepsTheAttempt
<1>1. AttemptInv /\ [Next]_vars =>
        [ LET attempt == nm.phase \in {"prepare", "config"} /\ nm.path.ssid = wifi_state.ssid
              leaves  == Len(state_q') < Len(state_q)
                         /\ Head(state_q).reason \in {"NEW_ACTIVATION", "CONNECTION_REMOVED"}
          IN attempt /\ connections[nm.path.ssid] = nm.path /\ leaves =>
               raced' \/ wifi_state' = wifi_state ]_vars
  BY AttemptStays
<1> QED
  BY <1>1, AttemptInit, AttemptStep, PTL DEF Spec, KeepsTheAttempt
=============================================================================
