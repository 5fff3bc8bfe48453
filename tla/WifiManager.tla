----------------------------- MODULE WifiManager -----------------------------
(***************************************************************************)
(* The Wi-Fi manager of the user interface.  NetworkManager (NM) decides   *)
(* what the device is connected to and reports it in D-Bus signals; the    *)
(* manager keeps a picture of it, _wifi_state, that three kinds of threads *)
(* write without a lock: the user interface when the user taps a network,  *)
(* the monitor thread that handles the signals, and workers that ask NM    *)
(* after an error or when the settings are opened.  Slow D-Bus calls lie   *)
(* between their reads and their writes.                                   *)
(*                                                                         *)
(* NM is external: it sends the sequences of signals that the handler's    *)
(* tests record from devices.  Signals that the handler passes over        *)
(* (IP_CONFIG, a NEED_AUTH of the handshake...) are not sent, PREPARE and  *)
(* CONFIG are one signal, and the two calls that find the active           *)
(* connection are one, which finds it whenever there is one.  The          *)
(* tethering connection, which is a saved network, the list of networks,   *)
(* the IP address and metering are left out, with the calls that read them *)
(* (_update_active_connection_info).                                       *)
(***************************************************************************)
EXTENDS Integers, Sequences

CONSTANTS
  Ssids,
  NoSsid,        \* None
  Saved,         \* the networks NM knows at the start
  Workers,       \* 1..n, n a bound on the worker threads at a time
  MaxChoices,    \* bound on the networks that the user chooses
  MaxOthers,     \* bound on the networks that the user forgets, and on opening the settings
  MaxFailures    \* bound on wrong passwords, lost networks and refused saves

ASSUME SsidAssumption == NoSsid \notin Ssids /\ Saved \subseteq Ssids
ASSUME BoundAssumption == {MaxChoices, MaxOthers, MaxFailures} \subseteq Nat

\* The settings path of a connection: its network, and a number of its own.
Paths    == [ssid : Ssids, n : Nat]
NoPath   == [ssid |-> NoSsid, n |-> 0]
Statuses == {"DISCONNECTED", "CONNECTING", "CONNECTED"}
WifiState == [ssid : Ssids \cup {NoSsid}, status : Statuses]

\* What the monitor thread is told: the device's state changes, the connections that come and go.
\* of and late are history: the network it is about, and whether the user had already left it.
StateSignals ==
  [kind : {"state"}, of : Ssids, late : BOOLEAN,
   state : {"PREPARE", "NEED_AUTH", "FAILED", "ACTIVATED", "DEACTIVATING", "DISCONNECTED"},
   reason : {"NONE", "NEW_ACTIVATION", "CONNECTION_REMOVED", "interrupted", "SUPPLICANT_DISCONNECT",
             "NO_SECRETS"}]
PathSignals == [kind : {"removed", "added"}, path : Paths]

VARIABLES
  nm,            \* NM's device: its phase and the path it is working on
  nmConnections, \* NM's connections: a set of Paths
  volatile,      \* those that go when they are deactivated
  paths,         \* how many connections NM has added
  bus,           \* signals on their way to the monitor thread
  wifi_state,
  connections,   \* ssid -> path
  removed_conn_q, new_conn_q, state_q,
  monitor,       \* what the monitor thread is doing
  worker,        \* what each worker thread is doing
  callback_queue, \* need_auth callbacks that the user interface has yet to run
  choices, others, failures,
  raced,         \* history: a thread wrote an older picture over a newer one, or what NM said before
                 \* it heard of the user's choice; a signal was handled before an earlier one; the
                 \* user chose while the call for the choice before was under way, or a network
                 \* came to have two connections
  unsaved        \* history: the paths that were active when the handler of ACTIVATED gave up because
                 \* the user had acted, and those that NM has refused to save

nmVars    == <<nm, nmConnections, volatile, paths, bus, failures>>
queues    == <<removed_conn_q, new_conn_q, state_q>>
userVars  == <<choices, others>>
history   == <<raced, unsaved>>
vars == <<nmVars, wifi_state, connections, queues, monitor, worker, callback_queue, userVars,
          history>>

Disconnected  == [ssid |-> NoSsid, status |-> "DISCONNECTED"]
\* fresh: _user_epoch is what the thread read.  newest: history, nobody wrote wifi_state since.
IdleMonitor   == [pc |-> "recv", value |-> Disconnected, path |-> NoPath, fresh |-> TRUE,
                  newest |-> TRUE]
IdleWorker    == [pc |-> "idle", value |-> Disconnected, fresh |-> TRUE, newest |-> TRUE]

Init ==
  /\ nm = [phase |-> "disconnected", path |-> NoPath]
  /\ nmConnections = {[ssid |-> s, n |-> 0] : s \in Saved}
  /\ volatile = {} /\ paths = 0 /\ bus = <<>>
  /\ wifi_state = Disconnected
  /\ connections = [s \in Ssids |-> IF s \in Saved THEN [ssid |-> s, n |-> 0] ELSE NoPath]
  /\ removed_conn_q = {} /\ new_conn_q = {} /\ state_q = <<>>
  /\ monitor = IdleMonitor
  /\ worker = [w \in Workers |-> IdleWorker]
  /\ callback_queue = <<>>
  /\ choices = 0 /\ others = 0 /\ failures = 0
  /\ raced = FALSE /\ unsaved = {}

-----------------------------------------------------------------------------
(* NetworkManager *)

\* The user's choice of a network is on its way to NM, or has failed and is being taken back.
Choosing(threads) == \E w \in threads : worker[w].pc \notin {"idle", "delete"}

StateSignal(state, reason, ssid, late) ==
  [kind |-> "state", state |-> state, reason |-> reason, of |-> ssid, late |-> late]
Signal(state, reason, ssid) == StateSignal(state, reason, ssid, Choosing(Workers))
Removed(path) == [kind |-> "removed", path |-> path]
Added(path)   == [kind |-> "added", path |-> path]

Working == nm.phase # "disconnected"

\* A volatile connection that is deactivated disappears.
Dropped == IF nm.path \in volatile THEN {nm.path} ELSE {}
DroppedSignal == IF nm.path \in volatile THEN <<Removed(nm.path)>> ELSE <<>>

\* ActivateConnection and AddAndActivateConnection2: what was active ends, and a handshake it
\* was in may fail late.
Activate(path, announcement) ==
  LET gone == Dropped \ {path}
      left == IF Working THEN <<Signal("DISCONNECTED", "NEW_ACTIVATION", nm.path.ssid)>> ELSE <<>>
  IN
  /\ \E stale \in {<<>>, <<StateSignal("NEED_AUTH", "interrupted", nm.path.ssid, FALSE)>>} :
       /\ ~Working => stale = <<>>
       /\ bus' = bus \o (announcement \o left \o stale
                         \o (IF gone = {} THEN <<>> ELSE DroppedSignal)
                         \o <<Signal("PREPARE", "NONE", path.ssid)>>)
  /\ nm' = [phase |-> "prepare", path |-> path]
  /\ volatile' = (volatile \ gone) \cup (IF announcement = <<>> THEN {} ELSE {path})
  /\ nmConnections' = (nmConnections \ gone) \cup {path}

\* Delete: ConnectionRemoved comes first, then the device lets go of the connection.
Delete(path) ==
  IF path \notin nmConnections THEN UNCHANGED <<nm, nmConnections, volatile, bus>>
  ELSE /\ nmConnections' = nmConnections \ {path}
       /\ volatile' = volatile \ {path}
       /\ IF nm.path # path
          THEN bus' = Append(bus, Removed(path)) /\ UNCHANGED nm
          ELSE /\ bus' = bus \o <<Removed(path),
                                  Signal("DEACTIVATING", "CONNECTION_REMOVED", path.ssid),
                                  Signal("DISCONNECTED", "CONNECTION_REMOVED", path.ssid)>>
               /\ nm' = [phase |-> "disconnected", path |-> NoPath]

\* Every other change of NM.  They are seconds apart and a call takes milliseconds: when the next
\* one happens the monitor thread has its signals and the replies to its calls, and a worker that
\* has its last reply has used it.
NmMoves(phase, path, signals) ==
  /\ bus = <<>> /\ state_q = <<>> /\ monitor.pc \notin {"lookup", "save"}
  /\ \A w \in Workers : worker[w].pc # "assign"
  /\ nm' = [phase |-> phase, path |-> path]
  /\ bus' = bus \o signals
  /\ UNCHANGED <<paths, wifi_state, connections, queues, monitor, worker, callback_queue, userVars,
                history>>

NmConfig ==
  /\ nm.phase = "prepare"
  /\ NmMoves("config", nm.path, <<Signal("PREPARE", "NONE", nm.path.ssid)>>)
  /\ UNCHANGED <<nmConnections, volatile, failures>>

NmActivated ==
  /\ nm.phase = "config"
  /\ NmMoves("activated", nm.path, <<Signal("ACTIVATED", "NONE", nm.path.ssid)>>)
  /\ UNCHANGED <<nmConnections, volatile, failures>>

NmAutoconnect ==
  /\ ~Working
  /\ \E path \in nmConnections : NmMoves("prepare", path, <<Signal("PREPARE", "NONE", path.ssid)>>)
  /\ UNCHANGED <<nmConnections, volatile, failures>>

NmFails(reasons) ==
  /\ failures < MaxFailures
  /\ failures' = failures + 1
  /\ NmMoves("disconnected", NoPath,
             reasons \o <<Signal("DISCONNECTED", "NONE", nm.path.ssid)>> \o DroppedSignal)
  /\ nmConnections' = nmConnections \ Dropped
  /\ volatile' = volatile \ Dropped

\* A strong network rejects the password, a weak one runs out of secrets.
NmWrongPassword ==
  /\ nm.phase = "config"
  /\ \/ NmFails(<<Signal("NEED_AUTH", "SUPPLICANT_DISCONNECT", nm.path.ssid),
                  Signal("FAILED", "NO_SECRETS", nm.path.ssid)>>)
     \/ NmFails(<<Signal("FAILED", "NO_SECRETS", nm.path.ssid)>>)

NmLost == nm.phase \in {"config", "activated"} /\ NmFails(<<>>)

-----------------------------------------------------------------------------
(* Writing _wifi_state *)

\* A write takes the newest picture from everybody else, a user action ends the epoch as well:
\* the other threads' snapshots, given those that this step has changed.
Outdated(t, epoch) ==
  [t EXCEPT !.newest = @ /\ epoch /\ t.pc # "assign", !.fresh = @ /\ ~epoch]
OutdateWorkers(epoch) == [w \in Workers |-> Outdated(worker[w], epoch)]

\* Defect: a worker's result is written although the user has acted meanwhile.
Discarded_Never(t) == FALSE

\* "Discard if user acted during DBus calls".
Discarded(t) == ~t.fresh

\* history: the write of t undoes something newer, or is wrong by now although the user has not acted
\* since t asked, which the comparison of epochs cannot tell.
Races(t, wrong) == ~t.newest \/ (t.fresh /\ wrong)

\* history: NM has left the network of the picture.
Left(value) == value.ssid \notin {NoSsid, nm.path.ssid}

ToSsid(path) ==
  IF path # NoPath /\ connections[path.ssid] = path THEN path.ssid ELSE NoSsid

-----------------------------------------------------------------------------
(* The monitor thread *)

Goto(pc) == monitor' = [IdleMonitor EXCEPT !.pc = pc]

\* While the monitor thread waits for a reply, the signals before it go to their queues.
Deliver ==
  LET m == Head(bus) IN
  /\ monitor.pc \in {"lookup", "save"} /\ bus # <<>>
  /\ bus' = Tail(bus)
  /\ removed_conn_q' = IF m.kind = "removed" THEN removed_conn_q \cup {m.path} ELSE removed_conn_q
  /\ new_conn_q' = IF m.kind = "added" THEN new_conn_q \cup {m.path} ELSE new_conn_q
  /\ state_q' = IF m.kind = "state" THEN Append(state_q, m) ELSE state_q
  /\ UNCHANGED <<nm, nmConnections, volatile, paths, failures, wifi_state, connections, monitor, worker,
                 callback_queue, userVars, history>>

\* _connection_removed for the removed paths, then _new_connection for the added ones, which asks
\* NM for the network of the path.
UpdateConnections(removed, added) ==
  LET New(s) == {p \in added \cap nmConnections : p.ssid = s} IN
  /\ connections' \in [Ssids -> added \cup {NoPath} \cup {connections[s] : s \in Ssids}]
  /\ \A s \in Ssids :
       IF New(s) # {} THEN connections'[s] \in New(s) /\ \A q \in New(s) : q.n <= connections'[s].n
       ELSE connections'[s] = IF connections[s] \in removed THEN NoPath ELSE connections[s]

\* recv_messages takes one signal, and the connections are brought up to date.  A change of the
\* device's properties, such as the end of a scan, only has the queues looked at.
Receive ==
  LET Taken(kind) == {m.path : m \in {x \in {Head(bus)} : x.kind = kind}} IN
  /\ monitor.pc = "recv"
  /\ \/ /\ bus # <<>>
        /\ bus' = Tail(bus)
        /\ UpdateConnections(removed_conn_q \cup Taken("removed"), new_conn_q \cup Taken("added"))
        /\ IF Head(bus).kind = "state" THEN state_q' = <<Head(bus)>> /\ Goto("state")
                                       ELSE UNCHANGED <<state_q, monitor>>
     \/ /\ bus = <<>> /\ removed_conn_q \cup new_conn_q # {}
        /\ UpdateConnections(removed_conn_q, new_conn_q)
        /\ UNCHANGED <<bus, state_q, monitor>>
  /\ removed_conn_q' = {} /\ new_conn_q' = {}
  /\ UNCHANGED <<nm, nmConnections, volatile, paths, failures, wifi_state, worker, callback_queue,
                 userVars, history>>

\* On to the next state change, or back to recv_messages.
NextSignal == Goto(IF state_q' = <<>> THEN "recv" ELSE "state")

\* _set_connecting(None) in the handler
ClearState ==
  /\ wifi_state' = Disconnected
  /\ worker' = OutdateWorkers(TRUE)
  /\ NextSignal

\* Defect: the removal of another connection clears the network that is being connected.
KeepsState_NewActivation(signal) == signal.reason = "NEW_ACTIVATION"

\* Defect: removing the very network that is being connected does not clear it.
KeepsState_AnyRemoval(signal) ==
  \/ signal.reason = "NEW_ACTIVATION"
  \/ signal.reason = "CONNECTION_REMOVED" /\ wifi_state.ssid # NoSsid

KeepsState(signal) ==
  \/ signal.reason = "NEW_ACTIVATION"
  \/ /\ signal.reason = "CONNECTION_REMOVED"
     /\ wifi_state.ssid # NoSsid
     /\ connections[wifi_state.ssid] # NoPath

IsWrongPassword(signal) ==
  \/ signal.state = "NEED_AUTH" /\ signal.reason = "SUPPLICANT_DISCONNECT"
  \/ signal.state = "FAILED" /\ signal.reason = "NO_SECRETS"

\* The branches of _handle_state_change that make no call.
HandleAtOnce ==
  LET signal == Head(state_q)
      clears == \/ signal.state = "DISCONNECTED" /\ ~KeepsState(signal)
                \/ IsWrongPassword(signal) /\ wifi_state.ssid # NoSsid
                \/ /\ signal.state = "DEACTIVATING" /\ signal.reason = "CONNECTION_REMOVED"
                   /\ wifi_state.status = "CONNECTED"
  IN
  /\ monitor.pc = "state" /\ state_q # <<>>
  /\ signal.state \notin {"PREPARE", "ACTIVATED"}
  /\ state_q' = Tail(state_q)
  /\ IF clears THEN ClearState ELSE NextSignal /\ UNCHANGED <<wifi_state, worker>>
  /\ callback_queue' =
       IF IsWrongPassword(signal) /\ wifi_state.ssid # NoSsid
       THEN Append(callback_queue, [ssid |-> wifi_state.ssid, of |-> signal.of, late |-> signal.late])
       ELSE callback_queue
  /\ raced' = (raced \/ (signal.reason = "CONNECTION_REMOVED" /\ removed_conn_q # {}))
  /\ UNCHANGED <<nmVars, connections, removed_conn_q, new_conn_q, userVars, unsaved>>

\* PREPARE of a network that is known from the user's choice changes the status only; else,
\* and for ACTIVATED, the network is looked up.
HandleConnecting ==
  LET signal == Head(state_q)
      known  == signal.state = "PREPARE" /\ wifi_state.ssid # NoSsid
      status == IF signal.state = "PREPARE" THEN "CONNECTING" ELSE "CONNECTED"
  IN
  /\ monitor.pc = "state" /\ state_q # <<>>
  /\ signal.state \in {"PREPARE", "ACTIVATED"}
  /\ state_q' = Tail(state_q)
  /\ monitor' = [IdleMonitor EXCEPT !.pc = IF known THEN "assign" ELSE "lookup",
                                    !.value = [wifi_state EXCEPT !.status = status]]
  /\ UNCHANGED <<nmVars, wifi_state, connections, removed_conn_q, new_conn_q, worker,
                 callback_queue, userVars, history>>

\* The reply of _get_active_wifi_connection, and what it leads to.
Lookup ==
  /\ monitor.pc = "lookup" /\ bus = <<>>
  /\ UNCHANGED <<nmVars, wifi_state, connections, queues, worker, callback_queue, userVars, raced>>
  /\ IF Discarded(monitor) THEN NextSignal
     ELSE monitor' = [monitor EXCEPT !.pc = "assign", !.path = nm.path,
                                     !.value.ssid = IF nm.path = NoPath THEN @ ELSE ToSsid(nm.path)]
  /\ unsaved' = unsaved \cup (IF Discarded(monitor) /\ monitor.value.status = "CONNECTED"
                              THEN {nm.path} ELSE {})

Assign ==
  /\ monitor.pc = "assign"
  /\ UNCHANGED <<nmVars, connections, queues, callback_queue, userVars, unsaved>>
  /\ wifi_state' = monitor.value
  /\ raced' = (raced \/ Races(monitor, /\ monitor.value.ssid # wifi_state.ssid
                                       /\ Choosing(Workers) \/ Left(monitor.value)))
  /\ worker' = OutdateWorkers(FALSE)
  /\ IF monitor.value.status = "CONNECTED" /\ monitor.path # NoPath
     THEN monitor' = [IdleMonitor EXCEPT !.pc = "save", !.path = monitor.path]
     ELSE NextSignal

\* Defect: the connection is not saved to disk.
Persisted_None(path) == {}

Persisted(path) == {path}

\* Save persists a volatile connection.  When it fails that is only logged.
Save ==
  /\ monitor.pc = "save" /\ bus = <<>>
  /\ \/ /\ volatile' = volatile \ Persisted(monitor.path)
        /\ UNCHANGED <<failures, unsaved>>
     \/ /\ failures < MaxFailures /\ failures' = failures + 1
        /\ unsaved' = unsaved \cup {monitor.path}
        /\ UNCHANGED volatile
  /\ UNCHANGED <<nm, nmConnections, paths, bus, wifi_state, connections, queues, worker,
                 callback_queue, userVars, raced>>
  /\ NextSignal

-----------------------------------------------------------------------------
(* The user and the worker threads *)

\* A choice is late for the failures that are already on their way.
Late(signals) ==
  [i \in DOMAIN signals |-> IF signals[i].kind = "state" THEN [signals[i] EXCEPT !.late = TRUE]
                                                         ELSE signals[i]]

\* Start a worker.
Spawn(w, pc, value) == worker[w].pc = "idle" /\ worker' = [OutdateWorkers(TRUE) EXCEPT ![w] =
                         [IdleWorker EXCEPT !.pc = pc, !.value = value]]

\* connect_to_network and activate_connection: _set_connecting(ssid), and a worker.
Choose(w, ssid, pc) ==
  /\ choices < MaxChoices
  /\ choices' = choices + 1
  /\ wifi_state' = [ssid |-> ssid, status |-> "CONNECTING"]
  /\ Spawn(w, pc, wifi_state')
  /\ monitor' = Outdated(monitor, TRUE)
  /\ bus' = Late(bus) /\ state_q' = Late(state_q)
  /\ raced' = (raced \/ \E v \in Workers : worker[v].pc \in {"forget", "add", "activate"})
  /\ UNCHANGED <<nm, nmConnections, volatile, paths, failures, connections, removed_conn_q, new_conn_q,
                 callback_queue, others, unsaved>>

ConnectToNetwork(w) == \E s \in Ssids : Choose(w, s, "forget")

\* The user interface activates networks that it knows to be saved.
ActivateConnection(w) == \E s \in Ssids : connections[s] # NoPath /\ Choose(w, s, "activate")

Start(w, pc, value) ==
  /\ worker[w].pc = "idle"
  /\ worker' = [worker EXCEPT ![w] = [IdleWorker EXCEPT !.pc = pc, !.value = value]]

ForgetConnection(w) ==
  /\ others < MaxOthers
  /\ others' = others + 1
  /\ \E s \in Ssids : Start(w, "delete", [ssid |-> s, status |-> "DISCONNECTED"])
  /\ UNCHANGED <<nmVars, wifi_state, connections, queues, monitor, callback_queue, choices, history>>

\* set_active(True) of the settings page
OpenSettings(w) ==
  /\ others < MaxOthers
  /\ others' = others + 1
  /\ Start(w, "resync", Disconnected)
  /\ UNCHANGED <<nmVars, wifi_state, connections, queues, monitor, callback_queue, choices, history>>

\* process_callbacks
ProcessCallbacks ==
  /\ callback_queue # <<>>
  /\ callback_queue' = <<>>
  /\ UNCHANGED <<nmVars, wifi_state, connections, queues, monitor, worker, userVars, history>>

Continue(w, pc) == worker' = [worker EXCEPT ![w] = IF pc = "idle" THEN IdleWorker
                                                   ELSE [@ EXCEPT !.pc = pc]]

WorkerUnchanged ==
  UNCHANGED <<failures, connections, queues, monitor, callback_queue, userVars, unsaved>>

\* forget_connection, by itself or as the first step of connect_to_network: what _connections says
\* and the Delete are one step
ForgetStep(w) ==
  /\ worker[w].pc \in {"forget", "delete"}
  /\ Delete(connections[worker[w].value.ssid])
  /\ Continue(w, IF worker[w].pc = "forget" THEN "add" ELSE "idle")
  /\ WorkerUnchanged /\ UNCHANGED <<paths, wifi_state, raced>>

\* NM never uses the path of a connection again.
NewPath(ssid) == [ssid |-> ssid, n |-> paths + 1]

\* AddAndActivateConnection2 and ActivateConnection, which may fail.
AddStep(w) ==
  LET path == NewPath(worker[w].value.ssid) IN
  /\ worker[w].pc = "add"
  /\ \/ /\ Activate(path, <<Added(path)>>) /\ Continue(w, "idle")
        /\ paths' = paths + 1
        /\ raced' = (raced \/ \E p \in nmConnections : p.ssid = path.ssid)
     \/ Continue(w, "resync") /\ UNCHANGED <<nm, nmConnections, volatile, paths, bus, raced>>
  /\ WorkerUnchanged /\ UNCHANGED wifi_state

ActivateStep(w) ==
  LET path == connections[worker[w].value.ssid] IN
  /\ worker[w].pc = "activate"
  /\ \/ path \in nmConnections /\ Activate(path, <<>>) /\ Continue(w, "idle")
     \/ Continue(w, "resync") /\ UNCHANGED <<nm, nmConnections, volatile, bus>>
  /\ WorkerUnchanged /\ UNCHANGED <<paths, wifi_state, raced>>

Status(phase) == CASE phase = "activated"           -> "CONNECTED"
                   [] phase \in {"prepare", "config"} -> "CONNECTING"
                   [] OTHER                           -> "DISCONNECTED"

\* _init_wifi_state: read the epoch and the state of the device, then the connection.
ResyncStep(w) ==
  /\ \/ /\ worker[w].pc = "resync"
        /\ worker' = [worker EXCEPT ![w] = [IdleWorker EXCEPT !.pc = "reply",
                        !.value = [ssid |-> NoSsid, status |-> Status(nm.phase)]]]
        /\ UNCHANGED <<wifi_state, monitor, raced>>
     \/ /\ worker[w].pc = "reply"
        /\ IF Discarded(worker[w]) THEN Continue(w, "idle")
           ELSE worker' = [worker EXCEPT ![w].pc = "assign", ![w].value.ssid = ToSsid(nm.path)]
        /\ UNCHANGED <<wifi_state, monitor, raced>>
     \/ /\ worker[w].pc = "assign"
        /\ wifi_state' = worker[w].value
        /\ raced' = (raced \/ Races(worker[w],
             \/ worker[w].value.ssid # wifi_state.ssid /\ Choosing(Workers \ {w})
             \/ Left(worker[w].value) \/ worker[w].value.status # Status(nm.phase)))
        /\ worker' = [OutdateWorkers(FALSE) EXCEPT ![w] = IdleWorker]
        /\ monitor' = Outdated(monitor, FALSE)
  /\ UNCHANGED <<nmVars, connections, queues, callback_queue, userVars, unsaved>>

-----------------------------------------------------------------------------
Nm == NmConfig \/ NmActivated \/ NmAutoconnect \/ NmWrongPassword \/ NmLost

Monitor ==
  \/ Receive \/ HandleAtOnce \/ HandleConnecting
  \/ Deliver \/ Lookup \/ Assign \/ Save

WorkerStep(w) == ForgetStep(w) \/ AddStep(w) \/ ActivateStep(w) \/ ResyncStep(w)

\* A new thread takes the first place: the places are alike.
FirstIdle(w) == \A v \in Workers : worker[v].pc = "idle" => w <= v

User(w) == ConnectToNetwork(w) \/ ActivateConnection(w) \/ ForgetConnection(w) \/ OpenSettings(w)

Next ==
  \/ Nm \/ Monitor \/ ProcessCallbacks
  \/ \E w \in Workers : WorkerStep(w) \/ (FirstIdle(w) /\ User(w))

Spec == Init /\ [][Next]_vars

-----------------------------------------------------------------------------
MonitorThread == [pc : {"recv", "state", "lookup", "assign", "save"}, value : WifiState,
                  path : Paths \cup {NoPath}, fresh : BOOLEAN, newest : BOOLEAN]
WorkerThread  == [pc : {"idle", "delete", "forget", "add", "activate", "resync", "reply", "assign"},
                  value : WifiState, fresh : BOOLEAN, newest : BOOLEAN]

\* The map from networks to paths names connections of the network itself; only the threads that
\* carry out a choice or forget a network have a network for sure.
TypeOK ==
  /\ nm \in [phase : {"prepare", "config", "activated"}, path : Paths]
           \cup [phase : {"disconnected"}, path : {NoPath}]
  /\ nmConnections \subseteq Paths /\ volatile \subseteq Paths /\ paths \in Nat
  /\ bus \in Seq(StateSignals \cup PathSignals) /\ state_q \in Seq(StateSignals)
  /\ removed_conn_q \subseteq Paths /\ new_conn_q \subseteq Paths
  /\ wifi_state \in WifiState
  /\ connections \in [Ssids -> Paths \cup {NoPath}]
  /\ \A s \in Ssids : connections[s] \in Paths => connections[s].ssid = s
  /\ monitor \in MonitorThread /\ worker \in [Workers -> WorkerThread]
  /\ \A w \in Workers :
       worker[w].pc \in {"delete", "forget", "add", "activate"} => worker[w].value.ssid \in Ssids
  /\ callback_queue \in Seq([ssid : Ssids, of : Ssids, late : BOOLEAN])
  /\ {choices, others, failures} \subseteq Nat /\ raced \in BOOLEAN
  /\ unsaved \subseteq Paths \cup {NoPath}

\* Every signal is handled, no call is under way, and the device has come to rest.
Quiet ==
  /\ bus = <<>> /\ state_q = <<>> /\ removed_conn_q \cup new_conn_q = {}
  /\ monitor.pc = "recv" /\ \A w \in Workers : worker[w].pc = "idle"
  /\ nm.phase \in {"disconnected", "activated"}

Agrees == wifi_state = IF nm.phase = "activated"
                       THEN [ssid |-> nm.path.ssid, status |-> "CONNECTED"] ELSE Disconnected

\* Whatever the taps, failures and errors before: when things have calmed down the picture agrees
\* with NetworkManager (_handle_state_change brings it there), unless an older picture has been
\* written over a newer one.
QuietAgrees == Quiet => Agrees \/ raced

\* "Wrong password" is asked for the network whose password NM rejected, unless the user chose
\* another one while the rejection was on its way (the branch BAD PASSWORD), or raced: a tap between
\* the comparison of the epochs and the write is overwritten by the network that was left.
NoFalseWrongPassword ==
  \A i \in DOMAIN callback_queue :
    LET cb == callback_queue[i] IN cb.ssid = cb.of \/ cb.late \/ raced

\* Leaving one network for another, or forgetting one while another is being connected, does not take
\* a new attempt out of the picture once its connection has arrived in _connections (the returns in
\* the branch DISCONNECTED), unless raced.  With a late NewConnection the picture is cleared, and
\* PREPARE finds the network again.
KeepsTheAttempt ==
  [][ LET attempt == nm.phase \in {"prepare", "config"} /\ nm.path.ssid = wifi_state.ssid
          leaves  == Len(state_q') < Len(state_q)
                     /\ Head(state_q).reason \in {"NEW_ACTIVATION", "CONNECTION_REMOVED"}
      IN attempt /\ connections[nm.path.ssid] = nm.path /\ leaves =>
           raced' \/ wifi_state' = wifi_state ]_vars

\* The network that the device has come to rest on is saved, so that it survives the next
\* disconnection (Save at the end of the branch ACTIVATED), unless the handler did not get to Save
\* because the user acted meanwhile, or NM refused to save it.
ConnectedIsSaved ==
  Quiet /\ nm.phase = "activated" => nm.path \notin volatile \/ nm.path \in unsaved
=============================================================================
