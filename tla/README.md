# chameleonpilot in TLA+

chameleonpilot (a fork of openpilot) is a driver assistance system: some forty processes on one
device, each doing one job at a fixed rate, that talk through messages of which only the latest
counts and through small files called params. This directory holds TLA+ models of the parts that
decide who controls the car and of the parts whose difficulty is concurrency, TLC runs that check
them on small instances, and proofs about them.

All paths below are relative to `src/openpilot/`.

## Inventory

| Component | State | Operations | Interacts by | What is hard | What makes it correct |
|---|---|---|---|---|---|
| **selfdrived** (`selfdrive/selfdrived/`) | engagement state, soft disable timer, initialized, mismatch counter, events | one 100 Hz `step`: `data_sample`, `update_events`, `StateMachine.update` | samples carState, pandaStates, managerState, deviceState and others; publishes selfdriveState, onroadEvents | events hide each other, a timer across states, a counter with memory | bounded soft disabling, no entry with a failure, disagreement with the panda ends an engagement |
| **controlsd, pandad's heartbeat, the panda** | last selfdriveState, carControl, heartbeat, controls allowed | `state_control`, the 10 Hz branch of `pandad_run` | conflated messages in a ring | every process acts on an old view; selfdrived may die | cancelling, failing, disagreeing and dying all release the actuators |
| **Safety setup**: pandad, hardwared, manager, card | safety mode, ignition, `started`, params, `PandaSafety` flags, card's progress | `configureSafetyMode`, `obd_callback`, `Car.__init__`, `ensure_running`, `clear_all` | deviceState, pandaStates, params, SIGINT and SIGKILL | a handshake through files across four processes and two drives | relay closed when off, safety mode set when on and asked for, queries only on the multiplexed bus |
| **athenad: uploads** (`system/athena/athenad.py`) | `upload_queue`, `cur_upload_items`, `cancelled_uploads`, param `AthenadUploadQueue` | `upload_handler`, `retry_upload`, `uploadFilesToUrls`, `cancelUpload`, `UploadQueueCache` | shared memory between threads without a lock, a param across restarts | check-then-act, crash between steps, reconnects, retries | nothing lost, nothing twice, cancelled is cancelled, retries end |
| **Params** (`common/params.cc`) | files, writer queue, future | `put`, `putNonBlocking`, `asyncWriteThread`, `get(block)`, `remove`, `clearAll` | files under a lock | the end of an on-demand thread races with new work | order of values, nothing left behind |
| **manager: supervision** (`system/manager/process.py`) | process handle, `shutting_down`, the turn of a pass | `start`, `stop`, `restart`, `ensure_running`, `manager_cleanup` | signals, deviceState, `managerState` | non-blocking stop followed by start or a blocking stop; crashed processes; SIGTERM anywhere | at most one instance, what should run runs anew, nothing left at the end |
| **hardwared: conditions, thermal** (`system/hardware/hardwared.py`) | thermal status, conditions, `started_ts`, the onroad cycle | one iteration of `hardware_thread` | pandaStates in, deviceState out, param `OnroadCycleRequested` | hysteresis, a cycle shorter than a join, conditions that only block a start | a hot device cools down first; a cycle restarts what reads params once |
| **driver monitoring** (`selfdrive/monitoring/policy.py`) | awareness of two policies, counters, lockout | one update per model frame | driverStateV2, selfdriveState in, driverMonitoringState out, param `DriverTooDistracted` | policies that switch, a lockout that outlives the process | no more time by switching than both policies have, red takes disengaging, a lockout is served and ends |
| **updated, launch script** (`system/updated/updated.py`, `launch_chffrplus.sh`) | overlay, finalized tree, consistent flag, AGNOS slots, params | `check_for_update`, `fetch_update`, `finalize_update`, the swap at launch | files and flags across reboots, SIGHUP and SIGUSR1 | killed or without power between any two steps | what is marked is whole and boots, something to run stays, updates arrive |
| **Wi-Fi manager** (`system/ui/lib/wifi_manager.py`) | `_wifi_state`, `_connections`, `_user_epoch`, signal queues | `connect_to_network`, `activate_connection`, `forget_connection`, `_handle_state_change`, `_init_wifi_state` | D-Bus calls and signals of NetworkManager, three kinds of threads without a lock | slow calls between a read and a write; late signals of a network that was left | the picture comes back to the truth, passwords are asked for the right network, what connects is saved |
| lane change (`selfdrive/controls/lib/desire_helper.py`) | lane change state, timer, blinker | `update` | carState, model outputs | timers against blinker edges | never starts without consent or into a blind spot |
| cruise speed (`selfdrive/car/cruise.py`) | v_cruise, button timers | `update_v_cruise`, `initialize_v_cruise` | carState buttons | long and short presses | speed within its range |
| alerts (`selfdrive/selfdrived/alertmanager.py`) | per-alert frames | `add_many`, `process_alerts` | selfdrived | end frames and re-triggers | the most important alert is shown |
| **loggerd, encoderd** (`system/loggerd/`) | segments, per-encoder offsets and queues, the common start frame | `sync_encoders`, `encoder_thread`, `handle_encoder_msg`, `rotate_if_needed` | VisionIPC, one socket per encoder | encoders rotate independently, packets are reordered, one video waits for sound | every frame in its segment, none lost |
| deleter, uploader (`system/loggerd/`) | files, xattrs, lock files | `deleter_thread`, `Uploader.step` | file system | deletes what is being uploaded | the newest and the preserved survive |
| websocket, proxies, log forwarding of athenad; pandad's USB/SPI; CAN interface | sockets, buffers | I/O | network, hardware | retries | - |
| planner, lateral and longitudinal control, nnlc, locationd, calibrationd, paramsd, torqued, lagd, modeld | filters, weights | numerical | messages | floating point | - |
| mapd, ui, soundd, cameras, sensors, GNSS, modem, eSIM, webrtcd, tools | various | I/O, rendering | various | - | - |

`PROJECT.json` lists every component with its status, and under `hazards` each hard spot at its
line with the properties that watch it.

## Modules

| Module | Models | State and actions |
|---|---|---|
| `Engagement` | selfdrived's loop | Variables have the names of the fields. `Step` is one call of `SelfdriveD.step`, whose inputs are a record: car events, CAN validity, message checks, processes, the state of the big model, the panda's answer. `softRun`, `mismatchRun` and `unhealthy` are history variables. |
| `EngagementLoop` | extends `Engagement` with controlsd, pandad, the panda and the car's cruise control | `SelfdrivedStep`, `Controlsd`, `Pandad` are one iteration of each process on the last messages; `Crash`, `SelfdriveStateTimeout`, `Cruise`, `HeartbeatMismatch` are what happens around them. |
| `SafetySetup` | ignition to safety mode | pandad's 10 Hz branch and manager's round take two actions each, so that others can write params in between. card has a program counter; its blocking reads are states, and the removal of an acknowledgement and the request that follows are steps of their own. `CardInitialized` is a round of card's loop in which selfdrived's `onroadEvents` begin or cease to say that it has initialized; a car may turn out to be passive (`PutCarParams`). Params and modes carry the number of their drive. |
| `Supervision` | hardwared's decision to go onroad, manager's passes over its processes | `Frame` is an iteration of `hardware_thread`. manager has a program counter: the first and second loop of `ensure_running`, a join in either, the two rounds of `manager_cleanup`; one action is one process's turn. `Terminate` is SIGTERM, `Abort` another one during `manager_cleanup`. A process that was told to stop may take any time, or need the kill. |
| `DriverMonitoring` | dmonitoringd's policy and selfdrived's lockout | `Frame` is one update of the policy, in the order of the code: `_update_states`, `_set_policy`, `_update_events`. `Selfdrived` reads the message, puts or removes `DriverTooDistracted` and lets the driver engage. `Restart` is an onroad cycle or an ignition. Awareness is counted in units; the distraction filter is low, mid or high. |
| `UploadQueue` | athenad's uploads | A handler and a worker have a program counter, split wherever another thread can interfere visibly; `UploadQueueCache.cache` is a read of the queue and a later write of the param. |
| `Uploads` | the abstract specification that `UploadQueue` implements | An upload is new, waiting, working or ended; only restarts, which are counted, move several of them, revive one or lose one. |
| `ParamsStore` | non-blocking puts | `Push` and `Start` are the halves of `putNonBlocking`, `TryPop`, `Write`, `Ready` the writer thread, `Destroy` the destructor. |
| `Updated` | updated, the launch script, AGNOS | One action is one thing that others can see: a tree, a flag, a param. `Fails` is a command that fails, `Drive` and `PowerLoss` interrupt anywhere; a power loss leaves half of what was not synced. |
| `WifiManager` | the Wi-Fi manager's threads and, external, NetworkManager | The handler's branches that make a call are split at the call and before the write. `fresh` is the comparison of `_user_epoch`, taken where the code takes it. A connection has a number of its own, which NetworkManager never uses again. NetworkManager sends the sequences of signals that `system/ui/lib/tests/test_handle_state_change.py` records. |
| `LogRotation` | encoderd's camera threads and loggerd | Time is counted in frames. `TakeFrame` and `UpdateStart` are the two halves of `sync_encoders`; `Receive`, `Audio` and `Other` are loggerd's messages, each followed by `rotate_if_needed`. |
| `...Proofs` | theorems about the module they are named for; `SelfdrivedProofs` about `Engagement` and `ParamsStore` | - |
| `MC...` | the inputs and constants TLC enumerates | - |

An event of `Engagement` stands for every row of the `EVENTS` table with the same types. `doorOpen`
stands for the soft disabling events of the car, the lane change, the driver monitoring and the
big model; `canError` and `controlsMismatch` for the immediately disabling ones. The types WARNING
and PERMANENT only select alerts and are left out, and so are the alerts.

How the modules meet: `started` of `Supervision` is the deviceState that `SafetySetup` begins with,
and a restart of both processes in `DriverMonitoring` is an onroad cycle of `Supervision`.
`tooDistracted` of `DriverMonitoring` is one of the events that deny entry in `Engagement`. The
compositions proper are `EngagementLoop` (four processes), `SafetySetup` (five parties),
`Supervision` (hardwared and manager), `DriverMonitoring` (dmonitoringd and selfdrived) and
`LogRotation` (encoderd and loggerd).

Definitions such as `NextTimer_Rearmed`, whose comment begins with "Defect", are plausible
mistakes in the definition below them. They are used nowhere: putting one in the place of the
definition makes TLC report the property that `PROJECT.json` names for it.

## Runs

| Run | Module, cfg | Shows | Bounds |
|---|---|---|---|
| `engagement` | `MCEngagement` | Soft disabling is bounded; the panda's refusal ends an engagement; nobody engages in a frame with a failure. | 3 frames for the timer (300 in the code) and for the mismatch limit (200), 1 and 2 frames for the waits (600, 1000). The frame counts are compared and counted one by one, so that 3 exercises entering, staying and leaving. One car event of each kind, alone or with a request to engage. |
| `engagement_loop` | `MCEngagementLoop` | Cancelling, a lasting failure, a disagreement and a crash each take the actuators away in the end. | 2 frames each; four combinations of health, with or without standstill. |
| `safety_setup` | `SafetySetup` | Every interleaving of the five parties over two drives: the relay closes, with a driver who lets each drive settle the panda is configured unless card has not asked for it, and queries run on the multiplexed bus; the first drive starts. | two drives: what is left of one for the next; any car may be passive, selfdrived may initialize late, never, or anew |
| `safety_setup_stale` | `SafetySetup`, `SafetySetupStale.cfg` | violated: see Findings | two drives |
| `supervision` | `MCSupervision` | When manager rests, what should run was started anew and the rest was told to stop; nothing is alive when its cleanup has got to its end; a hot device cools down before it starts; an onroad cycle restarts the onroad processes. | a process of each kind (always with restart_if_crash, only onroad, driver view), in the order of `process_config.py`; a cycle of 3 frames, messages every 2, joins of 4, so that a join can outlast a cycle as in the code (5 s and 1 s); a temperature in each band; 3 edges of the ignition, one request, one crash; SIGTERM anywhere, and again during the cleanup |
| `driver_monitoring` | `MCDriverMonitoring` | Switching policies gains no more time than both policies have before orange; only disengaging clears red; no terminal alert without engagement; a lockout is served, over restarts, and ends. | 5 units of awareness, thresholds 3 and 2, steps 2 (vision) and 1 (wheel), so that each policy passes through every level and does not divide the other's steps; two red alerts or one without response lock the driver out, for 2 frames; inattention counted to 6 frames, one beyond the 5 of `FramesToOrange`; one restart. |
| `upload_queue` | `UploadQueue` | An accepted upload (an id, not a file) is in one place, uploaded once, not started when cancelled in the queue, retried to the limit, and comes to an end; the threads implement `Uploads`. | one upload, two handlers, a worker, a crash and a disconnect. Uploads do not affect each other but for the check for duplicates, which decides what gets an id; the safety properties are proved for any number of them. |
| `params_store` | `ParamsStore` | The latest value wins; the destructor waits; a put that finds no writer flushes everything. | 4 puts of 2 keys |
| `params_store_assert` | `ParamsStore`, `ParamsStoreAssert.cfg` | violated: see Findings | 4 puts of 2 keys |
| `updated` | `Updated` | What is marked consistent is whole, on disk and bootable; the device always has a tree; what is announced is what the launch installs; a download asked for is begun; releases are delivered. | two branches with a release each that needs the new AGNOS, one failing command, two drives, reboots or power losses, one request. Two interruptions are one in an attempt and one in its repetition or its installation. |
| `wifi` | `WifiManager` | After any taps, failures and errors the picture agrees with NetworkManager; the dialog asks for the right network; leaving a network keeps a new attempt whose connection is known; what connects is saved unless the user acts meanwhile or NetworkManager refuses. | two networks, two workers, one choice, one forgetting or opening of the settings, one failure (a wrong password, a lost network, or a refused Save). The networks that connect by themselves make the second network of a switch. |
| `log_rotation` | `LogRotation` | Every frame that was encoded is in the segment of its id, once, or waits; segments are cut by time only after a malfunction, with a loggerd that keeps up. | two encoders, one with sound; segments of 4 frames, 10 frames, so that two rotations happen; two packets in a socket, queues of 3, one missed frame, one restart |

The bounds that are not parameters of the code are named `Max...` and bound what the environment
does, or where a history stops counting (`MaxAway`). The loop leaves out the histories of lengths
of `Engagement`, which its properties do not read.

`CHECK_DEADLOCK FALSE` stands where the system may really stop: `SafetySetup` after its last
drive, `ParamsStore` after the destructor, `Supervision` when manager is done, `Updated` when the
power failed between the two renames of the launch script, and `WifiManager` and `LogRotation`
when their bounds are used up.

### Fairness

Every process loops at a fixed rate (`Ratekeeper`, or a poll with a timeout), so its step is
weakly fair; so are the panda's clock and the age of a message. In `UploadQueue` threads run and
a closed websocket is opened again; in `ParamsStore` the writer runs and a call returns; in
`Updated` updated and the launch run; in `Supervision` the panda sends frames, which also lets the
time of a join pass, and manager runs; in `DriverMonitoring` the driver model sends frames (20 Hz)
and selfdrived reads them (100 Hz, hence before the next one). Nothing else is fair: the driver,
the ignition, the backend's calls, failures, crashes, releases, the end of a process that was told
to stop, the outcome of an upload, and selfdrived's `onroadEvents` in `SafetySetup`. The liveness properties therefore begin with what must
last: a cancelled cruise control (`CancelReleases`), a failure (`UnhealthyReleases`), an ignition
that stays on or off, uploads that are no longer interrupted (`Drains`), a network that is not
metered (`Delivered`). `Supervision` needs no fairness of the processes, because a join ends with
a kill. `WifiManager` and `LogRotation` have safety properties only and state no fairness.

`PandaGetsConfigured` and `QueriesAreMultiplexed` also ask for a `patient` driver, who changes
the ignition only when the system has settled (`Settled`: card is in its loop, and the panda is
configured if card has asked for it). Without that they do not hold: deviceState is conflated, so
that an ignition that goes off and on again between two reads closes the relay
(`pandad.cc:203-205`) while `safety_configured_` stays set, and the mode is not set again; and card
may be interrupted in `Car.__init__`, where a SIGINT makes a blocking read return as if it had been
answered (`params.cc:20`, `params.cc:178-199`), so that it queries a bus that is not multiplexed. With
a patient driver card is never interrupted there. What these two properties, and the theorem
`Multiplexing`, cover is the other way for things to go wrong: the params and modes that a drive
leaves to the next one, and all orders in which the five parties take their steps. `RelayClosesWhenOff`
is about impatient drivers too, and `FirstDriveStarts` needs no patience, as it is about a first drive
that lasts.

The panda is configured when card asks for it, and card asks when openpilot may control the car and
selfdrived has sent `onroadEvents` without `selfdriveInitializing` (`card.py:249-251`). A passive car,
or one whose selfdrived does not initialize, stays in the diagnostic mode: `PandaGetsConfigured` says
that the panda gets its mode or card is in its loop and has not asked.

### Histories that qualify a property

- `raced` of `WifiManager` is set by a step that writes an older picture over a newer one: the epoch
  closes the window of a call, but neither the one between its comparison and the write, nor the one
  between two signals' handling and a worker's `_init_wifi_state`. It is set as well when the removal
  of a connection waits in its queue while the state change that follows it is handled, when the user
  chooses while the call for the choice before is under way, and when NetworkManager adds a second
  connection of a network. The properties say that nothing *else* makes the picture wrong; the defects
  show that they notice when the epoch comparison, the guard of DISCONNECTED or the Save is missing.
  It qualifies `QuietAgrees`, `NoFalseWrongPassword` (a tap between the comparison and the write) and
  `KeepsTheAttempt`.
- `unsaved` of `WifiManager` holds the connections on which the handler of ACTIVATED was abandoned because
  the user had acted, and those that NetworkManager refused to save; they may stay volatile while the
  device is on them (see Observations). Every other connection is saved, also after such an exception.
- The antecedent of `KeepsTheAttempt` asks for an attempt whose connection is in `_connections`: when its
  NewConnection is late the code clears the picture (see Observations).
- `waited` of `Supervision` is set by a request for an onroad cycle that finds manager waiting for
  a process: such a cycle may be over before manager reads deviceState again.
- `Regular` of `LogRotation` leaves out missing cameras, restarts of encoderd by hand, segments cut
  by time and a microphone that stays silent for the whole queue.
- `asked` of `Updated` is about requests that reach updated while it sleeps.
- `owed` of `DriverMonitoring` begins when selfdrived has put the lockout.

### Simplifications

The modules say what they leave out. Where a model takes two things for one, or sees only some of the
orders that the code allows:

- `WifiManager`: what `forget_connection` reads in `_connections` and its Delete are one step; a lookup
  finds the active connection whenever there is one; `_update_active_connection_info`, which comes
  between the write and Save and reads addresses and metering, is left out with them.
- `Updated`: the touch of the consistent flag and its time are one step.
- `LogRotation`: loggerd and encoderd start together, as manager starts them in one pass, so that the offset
  of an encoder that is met first (`loggerd.cc:124-129`) is 0; a camera thread handles each frame before the
  next one or misses it; the next frame waits while a socket is full, so that a loggerd that stalls is
  excluded, by `MaxPackets` in the run and by `Prompt` and `Roomy` in the theorems.
- `SafetySetup`: card's put of `ControlsReady`, which does not block, is the step that writes it; `ParamsStore`
  says what may come between.

## Findings

1. *Stale params* (`selfdrive/pandad/panda_safety.cc:40-54`). pandad and manager learn from the
   same message that a drive begins. When pandad is first, it finds the previous drive's
   `FirmwareQueryDone`, `ControlsReady` and `CarParams` and sets the safety mode at once,
   without the signal of this drive's card (`selfdrive/car/card.py:233`).
2. *The stuck put* (`common/params.cc:103`). `assert(queue.empty())` in the destructor fails when
   the last put met a writer that had just seen an empty queue. Until then the value is not on
   disk; card's last such put is `ControlsReady`, without which the panda stays without a safety
   mode. `SafetySetup` models that put as written in the end.

### Observations

Met while modelling, visible in the modules, and not stated as a run of their own:

- *Mismatch* (`selfdrive/selfdrived/selfdrived.py:490-491`): the comment speaks of two samples, the
  limit is 200 of them, two seconds.
- *Uploads* (`system/athena/athenad.py`): "Skip item if already in queue" (425) is check-then-act
  in concurrent workers, so that two calls may enqueue one URL twice, under two ids, and the file is uploaded
  for both; `UploadedOnce` counts ids. `cancelUpload` does not save
  the queue: a cancelled upload comes back after a crash. Two threads in `UploadQueueCache.cache`
  can save in the wrong order, and an upload in a handler's hands is not in what others save, so
  that either may lose an accepted upload in a crash; `Uploads!Restart` allows that. An upload
  interrupted when its retries are used up is dropped, although the interruption would not have
  counted.
- *Updates* (`system/updated/updated.py`): a failed attempt after a successful one unlinks
  `.overlay_init` (492) and leaves the announcement, so that INSTALL reboots and installs nothing.
  A request between lines 499 and 506 is forgotten. A branch chosen while an attempt runs may be
  overwritten by `set_params` (278). A power loss between the two renames
  (`launch_chffrplus.sh:54`) leaves no BASEDIR; both trees are still there, which is what
  `NothingLost` states.
- *Wi-Fi* (`system/ui/lib/wifi_manager.py:403-404`): "all known race windows are closed" is true of
  the calls; between the comparison of the epoch and the write a tap is still overwritten, and
  `_init_wifi_state` may write what the monitor thread has already gone beyond. Each tap has a thread
  of its own, so that the calls of two quick taps may reach NetworkManager in the opposite order, and
  the picture shows a network that the device has left again. Two `connect_to_network` for one network
  may both forget before either adds: it then has two connections, of which `_connections` holds one.
  The handler of ACTIVATED returns when the user has tapped during its call (472-473). Save, at its end,
  is the only call that persists the connection ("Persisted to disk on ACTIVATED via Save()", 664): when
  the call of that tap fails, `_init_wifi_state` repairs the picture, but the device stays on a connection
  that the next disconnection deletes. With two choices and without `unsaved` in `ConnectedIsSaved` TLC
  finds that at depth 21.
  A Save that NetworkManager refuses is only logged (487-489) and not tried again, with the same effect.
  When the user leaves A for B, or forgets A while B is being connected, and the NewConnection of B is
  late, the branch DISCONNECTED clears the picture of B until PREPARE looks it up (413-415,
  `system/ui/lib/tests/test_handle_state_change.py:672-701`).
- *Logs* (`system/loggerd/loggerd.cc:190`): after a restart of encoderd the offset of an encoder is
  set to `-segment`, which numbers its packets rightly only when loggerd was in segment 0. An encoder
  that is a whole segment ahead of the others (60 s) keeps its mark over the rotation (169), so that it
  is not counted for the next one; its packets then fill the queue, and further ones are dropped (178).
  The hypothesis `Roomy` of `NothingIsLost` rules that out, and so do the bounds of the run; with
  segments of 3 frames, two packets in a socket and two missed frames the run finds it at frame 10.
- *Manager*: SIGTERM raises SystemExit (`system/manager/manager.py:184`) also while `manager_cleanup` runs in
  the `finally` of `main` (192): a second one ends the cleanup, and the processes that it has not killed
  yet stay alive (`Abort`). A join of five seconds (`system/manager/process.py:96`) is longer than an onroad cycle,
  which manager may miss. A hardwared that dies is not started again, as it has no
  `restart_if_crash`.
- *Driver monitoring* (`selfdrive/monitoring/policy.py:183`): in vision past orange a lost face sets
  `step_change` to 0, so that the awareness stays where it is for as long as no face is seen,
  although the comment at 362 says that it "should always be counting if distracted". An orange
  alert of the wheel ends when a face of which the model is uncertain appears. A lockout is lost
  when both processes restart before selfdrived has put it.

## Proofs

All theorems hold for every value of the constants that meets the assumptions of its module
(`ASSUME`, evaluated by TLC in every run). Three theorems about `LogRotation` have a hypothesis of their
own, which the table gives and the paragraph below justifies. Each is an invariant or an action
property that a run checks as well, except for type correctness.

| Module | Theorem | States |
|---|---|---|
| `SelfdrivedProofs` | `TypeCorrect` | `Spec => []TypeOK` (of `Engagement`) |
| | `SoftDisable` | `Spec => []SoftDisableBounded` |
| | `Mismatch` | `Spec => []MismatchBounded` |
| | `NoUnhealthyEntry` | `Spec => NoEntryWhenUnhealthy` |
| | `StoreTypeCorrect` | `StoreSpec => []StoreTypeOK` (of `ParamsStore`) |
| | `LastPutWins` | `StoreSpec => []LatestWins` |
| | `DestroyedIsQuiet` | `StoreSpec => NoWriteAfterDestruction` |
| `UploadQueueProofs` | `TypeCorrect` | `Spec => []TypeOK` |
| | `NeverLostNorDoubled` | `Spec => []OnePlace` |
| | `CancelledStays` | `Spec => []CancelledNotStarted` |
| | `NoSecondUpload` | `Spec => []UploadedOnce` |
| | `Implements` | `Spec => KeepsPromise`, the refinement of `Uploads` |
| `SupervisionProofs` | `LeavesNothing` | `Spec => []EverythingIsDead` |
| | `CoolAtStart` | `Spec => StartsCool` |
| | `RestsWhenDone` | `Spec => []AtRest` |
| `DriverMonitoringProofs` | `OnlyDisengagingClearsRed` | `Spec => RedStays` |
| | `QuietWhenDisengaged` | `Spec => NoRedWhenDisengaged` |
| | `LockoutIsServed` | `Spec => LockoutServed` |
| | `InattentionIsBounded` | `Spec => []InattentionBounded` |
| `UpdatedProofs` | `TypeCorrect` | `Spec => []TypeOK` |
| | `MarkedIsReady` | `Spec => []ConsistentIsReady` |
| | `SomethingToRun` | `Spec => []NothingLost` |
| | `AnnouncementKept` | `Spec => []AnnouncedIsInstallable` |
| `LogRotationProofs` | `TypeCorrect` | `Spec => []TypeOK` |
| | `FramesInTheirSegment` | `FewMissed` implies `Spec => []InTheirSegment` |
| | `CountedInTime` | `Prompt` implies `Spec => []FallbackOnlyOnMalfunction` |
| | `NothingIsLost` | `Roomy` implies `Spec => []NothingLost` |
| `SafetySetupProofs` | `TypeCorrect` | `Spec => []TypeOK` |
| | `Multiplexing` | `Spec => []QueriesAreMultiplexed` |
| `WifiManagerProofs` | `TypeCorrect` | `Spec => []TypeOK` |
| | `ConnectionIsSaved` | `Spec => []ConnectedIsSaved` |
| | `NoFalseWrongPasswordHolds` | `Spec => []NoFalseWrongPassword` |
| | `PictureAgrees` | `Spec => []QuietAgrees` |
| | `AttemptKept` | `Spec => KeepsTheAttempt` |

**Engagement.** `Inv` has four parts: `TypeOK`, which needs the others for the range of
`mismatch_counter`; `TimerInv`: while soft disabling, the frames that have run and the timer add up
to at most `SoftDisableFrames + 2`, and the timer is positive, and when enabled or overriding at
most one frame of the condition has run (`SoftDisableBounded` says nothing of the timer and is not
inductive); `EntryInv`: enabled only when initialized and not in dashcam mode, since otherwise
`update_events` would return before it looks at the mismatch counter; `MismatchInv`: while enabled
the counter is an upper bound of the run of refusals, and below the limit. There is one lemma per
part. `NoUnhealthyEntry` rests on `FailureBlocksEntry`: in each of the cases in which `commIssue` is
left out another event blocks entry.

**UploadQueue**, for any number of handlers, workers, URLs, disconnects and crashes. `OnePlace` is
not inductive: a crash replaces the queue by the param, and the param is a snapshot that some
thread took earlier. `Inv` adds `Snapshots` (the param and every snapshot that a thread carries hold
accepted uploads, each once), `Placed` (the same of the queue, and that what is finished is
accepted) and `Numbered` (accepted ids are the first numbers, so the next one is new). The proof
first sorts the steps into the kinds `Takes`, `GivesBack`, `Ends`, `Accepts` and `Rests`
(`HandlerKinds`, `WorkerKinds`), and then treats each kind once: for `Inv` and, in `Implements`, for
the refinement. `CancelledStays` adds `Doomed` (an upload cancelled while it waits is finished, or
still marked and not past the check), `NoSecondUpload`, which is about ids and not about files, adds `Recorded` (the count of uploads against
crashes and the record).

**ParamsStore**, for any keys and number of puts. `Found` says where the last value of a key is: in
the last entry of the queue with that key, with the writer, or in its file; `Counted` relates puts,
queue and writes.

**Supervision**, for any list of processes. `Killed`: in the second round of `manager_cleanup` every
process before the one whose turn it is is dead, across joins; no step starts a process there. What a
cleanup that a second SIGTERM ended leaves behind is in the model and not in the claim. `Warm`:
a device that was too hot and has not cooled down is not in the band ok. `AtRest` speaks of the end of
a pass only; `Pass` says what the pass has done so far: in the loop that stops, every process before
the one whose turn it is was told to stop if it should not run (`Told`); in the loop that starts all
are, and the processes before the one whose turn it is run anew (`Begun`). A crash, or a process that
ends, disturbs neither.

**DriverMonitoring**, for all units, steps, thresholds and lockout times. `PolicyInv`: the awareness
that is put by for the other policy is always positive, because a policy is left only with
awareness; hence a change of policy neither causes nor clears a red alert. `LockoutInv`: while frames
of a lockout are owed it is active, in the param and in the message, and they are not more than what
is left of its time; a restart before its end begins it anew with the time of a count that is not
smaller. `InattentionInv` adds what bounds inattention over changes of policy: the two policies keep an
awareness each, and every frame without attention is paid for out of one of them (`Paid`, `Spent`), so
that the frames are at most what both have to spend before orange.

**Updated**, for any branches and releases, and any number of failures, drives, reboots and power
losses. When the flag is set, updated does not look at the tree: that it is whole, on the disk and
bootable follows from the steps before. `InProgress` says what each step of an attempt leaves to the
next (the tree is unmarked from `finalize_update`'s removal of the flag until the copy is synced and the
new system is in the other slot), `Placed` where the installed tree and its backup are between the
renames of the launch script, `Announced` that an attempt takes back the announcement before it touches
the tree and gives it again only with the flag. `Marked` and `Bootable` are what follows for a marked
tree.

**SafetySetup**, for any number of drives of a patient driver. One who lets the system settle makes
each drive a wave from the ignition over pandaStates and deviceState to pandad and manager. `Rising`
says that nothing runs ahead of it when the car is on (card is there only after manager has cleared
the params, and nothing stops it), `Falling` the same when the car is off, and `Asked` what request is
in the params at each place of card and what pandad makes of it, also between the removal of the old
acknowledgement and the new request: a request that is acknowledged is one that the panda obeys, until
card takes it back.

**LogRotation**, for any number of cameras, lengths of segments and of queues. `Sync`: the common start
does not change once a thread has begun, and a thread's segment is that of its last frame, late by at
most the missed frames; `OnItsWay`: packets wait in order, labelled with the segment they belong to;
`InOrder` the same of loggerd's queues; `Ahead`: as many encoders as loggerd counts have nothing left of
its segment. The hypothesis `FewMissed` is `MaxMissed < SegmentFrames`: a thread begins one segment at
a time (`encoderd.cc`, `encoder_thread`), so that after a gap of a whole segment (60 s) its frames would
be labelled one segment too low. `CountedInTime` has an invariant of its own, for runs in which nothing
goes wrong: all threads begin with the same frame (`Begins`), the packets of each are consecutive and
loggerd is behind by at most a socket (`Flows`), an encoder is counted when it is done with loggerd's
segment, once (`Counted`, `Rounds`). Its hypothesis `Prompt` says that what waits in a socket is less
than a segment, than `NO_CAMERA_PATIENCE` and than the 0.2 segments a segment may be longer: in the code
1200, 10 and 240 frames.

`NothingIsLost` adds `NInv` to `IInv`, as a frame may be lost in two ways. It is dropped when a queue is
full: `Gaps` says that the frames a thread has not sent were missed, so that the last of those that wait
tells how many there are; `Line` that those in a queue and in its socket are consecutive but for the
gaps, in one order; `Marked` and `Turn` that the encoders that are marked are those of which loggerd has
a packet of the next segment, and that one is missing among them, which bounds the time, and with it
the queues of all others. Or it is left out of a video that has not begun with a key frame: `Keyed` says
that the first packet of each segment is one, wherever it waits. `Found` is the promise itself, that what
was sent is written or waits; that it is written once follows from `InTheirSegment`. Its hypothesis
`Roomy` is `MaxPackets + MaxMissed < SegmentFrames` and `<= QueueLimit + 1`: loggerd and the threads
together are behind by less than a segment, 60 s, and by no more than a queue holds, 10 s.

**WifiManager**, for any networks, threads, choices, forgettings and failures. A property speaks of the
moment when everything is quiet, the invariants of everything that is under way before. What matters
is what the monitor thread has yet to hear, wherever it waits: `Sigs` are the state changes on the bus
and in `state_q`, `Lasts` the last of them, `Removals` and `Additions` the connections that the bus
announces. One lemma, `StepDoes`, sorts the steps of all threads into what they do to these (a signal
is taken, a batch is sent, the picture is written, a thread moves on), and each invariant is shown for
these kinds. They build on each other:

- `Structure` relates the place of the monitor thread to its queues and `SavedSoon` says that while the
  active connection is volatile the handler of ACTIVATED is at work on it, or will be, unless it has given
  up on this connection (`unsaved`): that gives `ConnectedIsSaved`.
- `SaysNm` is what the pending state changes tell of NetworkManager: while the device is connected only
  ACTIVATED is pending, and the last of them fits the phase. `Numbers`: a connection reported as removed
  is gone for good, as its number is not used again.
- `Snapshots`: a thread that is about to write has asked NetworkManager after the user's last action, unless
  the picture has been written since: what the comparison of the epochs gives.
- `Shown`, as long as there was no race: the picture shows the network that NetworkManager works on, or
  none, or somebody is about to bring it up to date (a choice on its way, a worker that asks). While a
  rejection is pending it shows the network whose password was rejected, or the rejection is late: that
  is `NoFalseWrongPassword`. `RemovalFirst`: the removal of a connection comes before the state change it
  causes, so that the branch DISCONNECTED tells another network's removal from its own.
- `Agreement`, as long as there was no race: `_connections` knows the active connection when the handler
  looks it up, every thread that is about to write while the device is connected writes its network,
  and until the picture shows it somebody is about to write it. With nothing on its way this is `QuietAgrees`.
- `AttemptInv`. The branch DISCONNECTED keeps a known network by its returns; what could take the attempt out
  of the picture is the branch DEACTIVATING of a connection that was forgotten, when the picture is connected
  to something. `Adjacent`: NetworkManager reports the deactivation right after the removal, so that a handler
  that reaches it after waiting for a reply either finds the removal in its queue, which is a race (`Doomed`),
  or has taken it before (`QueueOrder`). `Unknown`: until the deactivation is handled NetworkManager has no
  connection of that network that the manager knows of or will know of before. `ConnectedFits`: a picture that
  is connected, or is about to be written so, shows the network that NetworkManager works on, the one whose
  removal is pending, or none. So if the deactivation clears the picture, it is of the network
  that the attempt is for, and its connection is not one that the manager knows: `KeepsTheAttempt`.

The attempt to prove these made three things precise that the run with its one choice does not show: two
quick taps, two connections of one network, and a handler of ACTIVATED that is abandoned before Save. The
first two became parts of `raced`, the third one of the two exceptions that `unsaved` records.

Out of the prover's reach and only model-checked: all liveness (and with it ENABLED), hence everything
that the run `engagement_loop` checks. Every safety invariant and every action property that a passing run
checks, liveness apart, is the statement of a theorem above.

## Plan

1. Theorems: that cruise control that is off leaves the panda's controls off in `EngagementLoop`.
2. Abstract specifications: a panda that is off, diagnosing or driving, that `SafetySetup`
   implements; an installer with a current and a pending version, that `Updated` implements.
3. Modules: `Deleter` (what may be deleted while it is uploaded or preserved), `LaneChange`
   (`DesireHelper`), `Cruise` (`VCruiseHelper`), the big model's flags (`selfdrived.py:160-176`) in
   `Engagement`, `remove` and several processes in `ParamsStore`.
4. Larger instances: two uploads, three encoders, two choices of networks.

## Not modelled

Numerical control, estimation and inference (floating point); rendering and settings; device and
network I/O; developer tools; the panda firmware, the car ports and the message queue, which are
submodules that are not in the repository and appear here as the code around them uses them.

These are by far the most lines of the repository: widgets and layouts of the user interface, the
numerical processes, drivers of the modem, the eSIM, cameras and sensors, and desktop tools. Most of
them keep no state that outlives a call, or state whose correctness is a matter of numbers. The
models cover the parts in which several actors share state, and within them the lines that change
it.
