------------------------------- MODULE Updated -------------------------------
(***************************************************************************)
(* Software updates.  updated fetches the target branch into an overlay    *)
(* over the installed tree, flashes the operating system (AGNOS) that the  *)
(* new software needs to the other boot slot, copies the result to a       *)
(* finalized tree and marks it consistent.  The next launch swaps a        *)
(* consistent tree in with two renames.  updated runs offroad only: it may *)
(* be killed between any two steps, and the power may fail at any time,    *)
(* which leaves files half written and loses what was not synced.          *)
(*                                                                         *)
(* One step is one thing that others can see: a file tree, a flag, a       *)
(* parameter.  Times, descriptions, release notes and the alerts of        *)
(* set_params are left out, and so are the clock (system_time_valid) and    *)
(* ready_event, which only makes a sleep shorter.                          *)
(***************************************************************************)
EXTENDS Naturals

CONSTANTS
  Branches,
  Installed,      \* the branch of the device
  None,
  AgnosRelease,   \* the first release that needs the new operating system
  MaxReleases,    \* bound on the releases of a branch
  MaxFailures,    \* bound on failing commands
  MaxStops,       \* bound on drives, reboots and power losses
  MaxRequests     \* bound on what the user asks for

ASSUME UpdatedAssumption ==
  /\ Installed \in Branches /\ None \notin Branches
  /\ {AgnosRelease, MaxReleases, MaxFailures, MaxStops, MaxRequests} \subseteq Nat

Versions == [branch : Branches, n : 0..MaxReleases]   \* a commit
Nothing  == [branch |-> None, n |-> 0]                \* no tree
Partial  == [branch |-> None, n |-> 1]                \* a tree half written

\* launch_env.sh of a version
Agnos(version) == IF version.n >= AgnosRelease THEN "new" ELSE "old"

VARIABLES
  remote,       \* the last release of each branch on the server
  base,         \* BASEDIR: its version, .overlay_init, and .git newer than that
  old,          \* old_openpilot, the backup
  merged,       \* the overlay, when it is mounted
  finalized,
  durable,      \* the finalized tree is synced to disk
  consistent,   \* its .overlay_consistent
  os,           \* the operating system that runs
  slot,         \* what the other slot holds, or half of something
  boot,         \* launch, moved, agnos, running
  pc,           \* what updated is doing
  branches,     \* what updated knows of the server
  first_run,
  failed,       \* update_failed_count > 0
  user_request,
  UpdateAvailable, UpdaterTargetBranch, UpdaterLastFetchTime, NetworkMetered,
  failures, stops, requests,
  asked         \* history: the user has asked a waiting updated to download

Unknown == [b \in {} |-> 0]

tree    == <<base, old, finalized, durable, consistent>>
system  == <<os, slot>>
params  == <<UpdateAvailable, UpdaterTargetBranch, UpdaterLastFetchTime, NetworkMetered>>
process == <<branches, first_run, failed>>
waiting == <<user_request, asked>>
bounds  == <<failures, stops, requests>>
vars == <<remote, tree, merged, system, boot, pc, process, waiting, params, bounds>>

Init ==
  /\ remote = [b \in Branches |-> 0]
  /\ base = [version |-> [branch |-> Installed, n |-> 0], init |-> FALSE, touched |-> FALSE]
  /\ old = Nothing /\ merged = Nothing /\ finalized = Nothing
  /\ durable = TRUE /\ consistent = FALSE
  /\ os = Agnos(base.version) /\ slot = "half"
  /\ boot = "launch" /\ pc = "off"
  /\ branches = Unknown /\ first_run = TRUE /\ failed = FALSE
  /\ user_request = "NONE"
  /\ UpdateAvailable = FALSE /\ UpdaterTargetBranch = None /\ UpdaterLastFetchTime = None
  /\ NetworkMetered \in BOOLEAN
  /\ failures = 0 /\ stops = 0 /\ requests = 0
  /\ asked = FALSE

-----------------------------------------------------------------------------
(* updated *)

target_branch == IF UpdaterTargetBranch = None THEN base.version.branch ELSE UpdaterTargetBranch

\* Defect: a finalized tree is announced whether or not it is marked consistent.
update_ready_AnyTree(target) ==
  /\ \/ branches = Unknown
     \/ base.version # [branch |-> target, n |-> branches[target]]
  /\ finalized.branch = target

\* branches[target] of an empty dictionary is no commit's hash.
update_ready(target) ==
  /\ consistent
  /\ \/ branches = Unknown
     \/ base.version # [branch |-> target, n |-> branches[target]]
  /\ finalized.branch = target

set_params ==
  /\ UpdaterTargetBranch' = target_branch
  /\ UpdateAvailable' = update_ready(target_branch)
  /\ UNCHANGED <<UpdaterLastFetchTime, NetworkMetered>>

At(step, next) == boot = "running" /\ pc = step /\ pc' = next

\* set_consistent_flag(False) and put_bool("UpdateAvailable", False)
ClearFlag(step, next) ==
  /\ At(step, next)
  /\ consistent' = FALSE
  /\ UNCHANGED <<remote, base, old, finalized, durable, merged, system, boot, process, waiting,
                 params, bounds>>

Unannounce(step, next) ==
  /\ At(step, next)
  /\ UpdateAvailable' = FALSE
  /\ UNCHANGED <<remote, tree, merged, system, boot, process, waiting, UpdaterTargetBranch,
                 UpdaterLastFetchTime, NetworkMetered, bounds>>

\* One of several commands fails: an exception.
Fails ==
  /\ failures < MaxFailures
  /\ failures' = failures + 1
  /\ pc' = "failed"
  /\ UNCHANGED <<stops, requests>>

\* main: "invalidate old finalized update"
Startup == ClearFlag("startup", "init_overlay")

ValidOverlay == base.init /\ merged # Nothing /\ ~base.touched

\* init_overlay: what is there is kept, or announced no more, unmarked, removed and made anew.
InitOverlay ==
  \/ /\ ValidOverlay /\ At("init_overlay", "first_params")
     /\ UNCHANGED <<remote, tree, merged, system, boot, process, waiting, params, bounds>>
  \/ ~ValidOverlay /\ Unannounce("init_overlay", "unflag")
  \/ ClearFlag("unflag", "remove_staging")

\* umount, rm -rf STAGING_ROOT
RemoveStaging ==
  /\ At("remove_staging", "mount")
  /\ old' = Nothing /\ finalized' = Nothing /\ durable' = TRUE /\ merged' = Nothing
  /\ UNCHANGED <<remote, base, consistent, system, boot, process, waiting, params, bounds>>

\* .overlay_init is touched, then the overlay is mounted.
Mount ==
  /\ boot = "running" /\ pc = "mount"
  /\ base' = [base EXCEPT !.init = TRUE, !.touched = FALSE]
  /\ \/ pc' = "first_params" /\ merged' = base.version /\ UNCHANGED bounds
     \/ Fails /\ UNCHANGED merged
  /\ UNCHANGED <<remote, old, finalized, durable, consistent, system, boot, process, waiting, params>>

FirstParams ==
  /\ At("first_params", IF first_run THEN "sleep" ELSE "check")
  /\ set_params
  /\ first_run' = FALSE
  /\ UNCHANGED <<remote, tree, merged, system, boot, branches, failed, waiting, bounds>>

CheckForUpdate ==
  /\ boot = "running" /\ pc = "check"
  /\ \/ pc' = "decide" /\ branches' = remote /\ UNCHANGED bounds
     \/ Fails /\ UNCHANGED branches
  /\ UNCHANGED <<remote, tree, merged, system, boot, first_run, failed, waiting, params>>

\* Metered connections are fetched over when the last fetch is three days old.
Decide ==
  /\ boot = "running" /\ pc = "decide"
  /\ \E timed_out \in {UpdaterLastFetchTime = None, TRUE} :
       LET metered == NetworkMetered /\ ~timed_out /\ user_request # "FETCH"
       IN pc' = IF metered \/ user_request = "CHECK" THEN "succeeded" ELSE "fetch"
  /\ asked' = (asked /\ pc' # "fetch")
  /\ UNCHANGED <<remote, tree, merged, system, boot, process, user_request, params,
                 bounds>>

\* fetch_update: the flag goes first, then the announcement.
Fetch == ClearFlag("fetch", "unannounce") \/ Unannounce("unannounce", "git")

\* git fetch, checkout, reset and clean in the overlay
Git ==
  /\ boot = "running" /\ pc = "git"
  /\ \/ /\ merged' = [branch |-> target_branch, n |-> remote[target_branch]]
        /\ pc' = IF Agnos(merged') = os THEN "finalize" ELSE "flash"
        /\ UNCHANGED bounds
     \/ Fails /\ merged' = Partial
  /\ UNCHANGED <<remote, tree, system, boot, process, waiting, params>>

\* handle_agnos_update: "prevent an openpilot getting swapped in with a mismatched or partially
\* downloaded agnos", then flash_agnos_update to the other slot, which skips what is there already.
Flash ==
  /\ At("flash", "flashing")
  /\ consistent' = FALSE
  /\ slot' = IF slot = Agnos(merged) THEN slot ELSE "half"
  /\ UNCHANGED <<remote, base, old, finalized, durable, merged, os, boot, process, waiting, params,
                 bounds>>

Flashing ==
  /\ boot = "running" /\ pc = "flashing"
  /\ \/ pc' = "finalize" /\ slot' = Agnos(merged) /\ UNCHANGED bounds
     \/ Fails /\ UNCHANGED slot
  /\ UNCHANGED <<remote, tree, merged, os, boot, process, waiting, params>>

\* finalize_update: the old tree goes, and the copy begins.
Finalize ==
  /\ At("finalize", "copy")
  /\ consistent' = FALSE
  /\ finalized' = Partial /\ durable' = FALSE
  /\ UNCHANGED <<remote, base, old, merged, system, boot, process, waiting, params, bounds>>

Copy ==
  /\ boot = "running" /\ pc = "copy"
  /\ \/ pc' = "sync" /\ finalized' = merged /\ UNCHANGED bounds
     \/ Fails /\ UNCHANGED finalized
  /\ UNCHANGED <<remote, base, old, durable, consistent, merged, system, boot, process, waiting, params>>

\* Defect: the consistent flag is set before the tree is synced.
synced_No == durable

\* set_consistent_flag(True): sync, touch, sync
synced == TRUE

Sync ==
  /\ At("sync", "flag")
  /\ durable' = synced
  /\ UNCHANGED <<remote, base, old, finalized, consistent, merged, system, boot, process, waiting,
                 params, bounds>>

\* The touch and its time are one step.
Flag ==
  /\ At("flag", "succeeded")
  /\ consistent' = TRUE
  /\ UpdaterLastFetchTime' = "recent"
  /\ UNCHANGED <<remote, base, old, finalized, durable, merged, system, boot, process, waiting,
                 UpdateAvailable, UpdaterTargetBranch, NetworkMetered, bounds>>

\* The end of the try block, or its exception handlers: OVERLAY_INIT.unlink
Succeeded ==
  /\ At("succeeded", "last_params")
  /\ failed' = FALSE
  /\ UNCHANGED <<remote, tree, merged, system, boot, branches, first_run, waiting, params, bounds>>

Failed ==
  /\ At("failed", "last_params")
  /\ failed' = TRUE
  /\ base' = [base EXCEPT !.init = FALSE]
  /\ asked' = FALSE
  /\ UNCHANGED <<remote, old, finalized, durable, consistent, merged, system, boot, branches,
                 first_run, user_request, params, bounds>>

LastParams ==
  /\ At("last_params", "reset")
  /\ set_params
  /\ UNCHANGED <<remote, tree, merged, system, boot, process, waiting, bounds>>

\* Defect: a request is forgotten when the sleep ends, not before it.
Forgotten_Late == pc = "sleep" /\ ~first_run

\* Defect: a request is never forgotten, so that a check is all there is from then on.
Forgotten_Never == FALSE

Forgotten == pc = "reset"

Reset ==
  /\ At("reset", "sleep")
  /\ user_request' = IF Forgotten THEN "NONE" ELSE user_request
  /\ UNCHANGED <<remote, tree, merged, system, boot, process, asked, params, bounds>>

\* wait_helper.sleep returns for a signal or after its time.
Wake ==
  /\ At("sleep", "init_overlay")
  /\ user_request' = IF Forgotten THEN "NONE" ELSE user_request
  /\ UNCHANGED <<remote, tree, merged, system, boot, process, asked, params, bounds>>

-----------------------------------------------------------------------------
(* launch_chffrplus.sh and the manager *)

\* Defect: a tree is swapped in without its consistent flag.
Installable_AnyTree == base.init /\ ~base.touched /\ old = Nothing /\ finalized # Nothing

Installable == base.init /\ ~base.touched /\ old = Nothing /\ consistent

Launch ==
  /\ boot = "launch"
  /\ IF Installable
     THEN /\ boot' = "moved"
          /\ old' = base.version
          /\ base' = [version |-> Nothing, init |-> FALSE, touched |-> FALSE]
     ELSE boot' = "agnos" /\ UNCHANGED <<base, old>>
  /\ UNCHANGED <<remote, finalized, durable, consistent, merged, system, pc, process, waiting,
                 params, bounds>>

\* The second rename: the tree takes its flag along, and git clean has removed .overlay_init.
Moved ==
  /\ boot = "moved"
  /\ boot' = "launch"
  /\ base' = [base EXCEPT !.version = finalized]
  /\ finalized' = Nothing /\ consistent' = FALSE /\ durable' = TRUE
  /\ UNCHANGED <<remote, old, merged, system, pc, process, waiting, params, failures, stops, requests>>

\* agnos_init: another operating system is verified or downloaded, and booted; else the manager
\* starts.
AgnosInit ==
  /\ boot = "agnos"
  /\ \/ /\ os # Agnos(base.version)
        /\ os' = Agnos(base.version) /\ slot' = "half" /\ boot' = "launch"
        /\ UNCHANGED params
     \/ /\ os = Agnos(base.version)
        /\ boot' = "running"
        /\ UpdateAvailable' = FALSE /\ UpdaterTargetBranch' = None
        /\ UNCHANGED <<system, UpdaterLastFetchTime, NetworkMetered>>
  /\ UNCHANGED <<remote, tree, merged, pc, process, waiting, bounds>>

\* updated starts when the car is off.
Start ==
  /\ At("off", "startup")
  /\ branches' = Unknown /\ first_run' = TRUE /\ failed' = FALSE
  /\ user_request' = "NONE" /\ asked' = FALSE
  /\ UNCHANGED <<remote, tree, merged, system, boot, params, bounds>>

Stops == stops < MaxStops /\ stops' = stops + 1 /\ pc' = "off" /\ asked' = FALSE

\* A drive: the manager clears the parameter and ends updated.
Drive ==
  /\ boot = "running" /\ pc # "off"
  /\ Stops
  /\ UpdateAvailable' = FALSE
  /\ UNCHANGED <<remote, tree, merged, system, boot, process, user_request, failures,
                 requests, UpdaterTargetBranch, UpdaterLastFetchTime, NetworkMetered>>

Restarts(lost) ==
  /\ Stops
  /\ boot' = IF base.version = Nothing THEN "nothing to launch" ELSE "launch"
  /\ merged' = Nothing
  /\ finalized' = IF lost /\ ~durable THEN Partial ELSE finalized
  /\ UNCHANGED <<remote, base, old, durable, consistent, system, process, user_request,
                 params, failures, requests>>

PowerLoss == boot # "nothing to launch" /\ Restarts(TRUE)

\* DoReboot by the button INSTALL
Install == boot = "running" /\ UpdateAvailable /\ Restarts(FALSE)

-----------------------------------------------------------------------------
(* The user and the server *)

Release ==
  /\ \E b \in Branches : remote[b] < MaxReleases /\ remote' = [remote EXCEPT ![b] = @ + 1]
  /\ UNCHANGED <<tree, merged, system, boot, pc, process, waiting, params, bounds>>

Requests ==
  /\ boot = "running" /\ requests < MaxRequests
  /\ requests' = requests + 1
  /\ UNCHANGED <<failures, stops>>

\* SIGUSR1 and SIGHUP
Signal(request) ==
  IF pc = "off" THEN UNCHANGED waiting
  ELSE /\ user_request' = request
       /\ asked' = (request = "FETCH" /\ pc = "sleep")

Ask ==
  /\ Requests /\ pc # "off"
  /\ \E request \in {"CHECK", "FETCH"} : Signal(request)
  /\ UNCHANGED <<remote, tree, merged, system, boot, pc, process, params>>

SelectBranch ==
  /\ Requests
  /\ \E b \in Branches : UpdaterTargetBranch' = b
  /\ Signal("CHECK")
  /\ UNCHANGED <<remote, tree, merged, system, boot, pc, process, UpdateAvailable,
                 UpdaterLastFetchTime, NetworkMetered>>

\* A checkout by hand in BASEDIR
Checkout ==
  /\ Requests
  /\ \E b \in Branches :
       base' = [base EXCEPT !.version = [branch |-> b, n |-> remote[b]], !.touched = TRUE]
  /\ UNCHANGED <<remote, old, finalized, durable, consistent, merged, system, boot, pc, process,
                 waiting, params>>

Step ==
  \/ Startup \/ InitOverlay \/ RemoveStaging \/ Mount \/ FirstParams \/ CheckForUpdate
  \/ Decide \/ Fetch \/ Git \/ Flash \/ Flashing \/ Finalize \/ Copy \/ Sync \/ Flag
  \/ Succeeded \/ Failed \/ LastParams \/ Reset \/ Wake \/ Start

Boot == Launch \/ Moved \/ AgnosInit

User == Ask \/ SelectBranch \/ Checkout \/ Install

Next == Step \/ Boot \/ User \/ Drive \/ PowerLoss \/ Release

\* Programs run; nobody has to release, ask or drive.
Spec == Init /\ [][Next]_vars /\ WF_vars(Step) /\ WF_vars(Boot)

-----------------------------------------------------------------------------
\* A tree is marked consistent when all of it is on the disk and the operating system that it needs
\* runs or is ready on the other slot, whenever updated is killed or the power fails
\* (set_consistent_flag, handle_agnos_update).
ConsistentIsReady ==
  /\ consistent => finalized \in Versions /\ durable
  /\ Installable => Agnos(finalized) \in {os, slot}

\* The device has a whole tree to run: in place or, between the two renames of the launch script,
\* as the backup.
NothingLost ==
  IF base.version = Nothing THEN old \in Versions /\ finalized \in Versions
                            ELSE base.version \in Versions

\* What updated announces when it goes to sleep after a success is what the next launch installs,
\* unless the tree has been touched by hand.
AnnouncedIsInstallable ==
  boot = "running" /\ pc = "sleep" /\ ~failed /\ UpdateAvailable => Installable \/ base.touched

\* A download that the user asks for while updated waits is begun, on a metered connection too,
\* unless an attempt fails or a later request takes its place.
RequestIsServed == asked ~> ~asked

\* When nothing goes wrong any more, the latest release comes to the device: again and again it is
\* in place, or waits for the next launch (fetch_update makes it anew every time), unless the power
\* failed between the two renames.
Delivered ==
  LET newest == [branch |-> target_branch, n |-> remote[target_branch]]
  IN ~NetworkMetered => []<>(base.version \in {newest, Nothing} \/ (consistent /\ finalized = newest))
=============================================================================
