---------------------------- MODULE UpdatedProofs ----------------------------
(***************************************************************************)
(* Software updates, for any branches and releases and any number of       *)
(* failures, drives, reboots and power losses.                             *)
(*                                                                         *)
(* None of the three invariants is inductive: that a marked tree is whole  *)
(* and bootable when the flag is set follows from what updated has done in *)
(* the steps before.  InProgress says what holds at each step of an        *)
(* attempt, Placed where the installed tree and its backup are while the   *)
(* launch script renames them.                                             *)
(***************************************************************************)
EXTENDS Updated, TLAPS

\* What updated may be doing
Steps ==
  {"off", "startup", "init_overlay", "unflag", "remove_staging", "mount", "first_params", "check",
   "decide", "fetch", "unannounce", "git", "flash", "flashing", "finalize", "copy", "sync", "flag",
   "succeeded", "failed", "last_params", "reset", "sleep"}

TreesOK ==
  /\ remote \in [Branches -> 0..MaxReleases]
  /\ base \in [version : Versions \cup {Nothing}, init : BOOLEAN, touched : BOOLEAN]
  /\ old \in Versions \cup {Nothing}
  /\ merged \in Versions \cup {Nothing, Partial}
  /\ finalized \in Versions \cup {Nothing, Partial}
  /\ {durable, consistent} \subseteq BOOLEAN
  /\ os \in {"old", "new"} /\ slot \in {"old", "new", "half"}
  /\ boot \in {"launch", "moved", "agnos", "running", "nothing to launch"}

ProcessOK ==
  /\ pc \in Steps
  /\ branches \in {Unknown} \cup [Branches -> 0..MaxReleases]
  /\ {first_run, failed, asked, UpdateAvailable, NetworkMetered} \subseteq BOOLEAN
  /\ user_request \in {"NONE", "CHECK", "FETCH"}
  /\ UpdaterTargetBranch \in Branches \cup {None} /\ UpdaterLastFetchTime \in {None, "recent"}
  /\ failures \in 0..MaxFailures /\ stops \in 0..MaxStops /\ requests \in 0..MaxRequests

TypeOK == TreesOK /\ ProcessOK

\* There is a tree in place, except between the two renames; updated runs only beside one, and a
\* backup is there only as long as the overlay was not made anew.
Placed ==
  /\ boot # "running" => pc = "off"
  /\ base.version = Nothing =>
       /\ boot \in {"moved", "nothing to launch"} /\ ~base.init
       /\ old \in Versions /\ finalized \in Versions
  /\ boot = "moved" => base.version = Nothing /\ consistent
  /\ boot = "agnos" => ~Installable
  /\ base.init => old = Nothing

Marked == consistent => finalized \in Versions /\ durable

\* A version whose operating system runs or is ready
Ready(version) == version \in Versions /\ Agnos(version) \in {os, slot}

Bootable == Installable => Ready(finalized)

\* The tree is unmarked from the moment it may be changed until it is whole again, on the disk and
\* with its operating system in the other slot.
InProgress ==
  /\ pc \in {"remove_staging", "mount", "unannounce", "git", "flash", "flashing", "finalize", "copy",
             "sync", "flag"} => ~consistent
  /\ pc = "mount" => old = Nothing
  /\ pc \in {"flash", "flashing"} => merged \in Versions
  /\ pc \in {"finalize", "copy"} => Ready(merged)
  /\ pc \in {"sync", "flag"} => Ready(finalized)
  /\ pc = "flag" => durable

\* An attempt keeps .overlay_init until it fails, and goes on without an announcement from the
\* moment the old tree is unmarked.
Announced ==
  /\ pc \in {"first_params", "check", "decide", "fetch", "unannounce", "git", "flash", "flashing",
             "finalize", "copy", "sync", "flag", "succeeded"} => base.init
  /\ pc \in {"last_params", "reset", "sleep"} /\ ~failed => base.init
  /\ pc \in {"git", "flash", "flashing", "finalize", "copy", "sync", "flag"} => ~UpdateAvailable
  /\ pc \in {"reset", "sleep"} /\ UpdateAvailable => consistent

IInv == TypeOK /\ Placed /\ Marked /\ Bootable /\ InProgress /\ Announced

-----------------------------------------------------------------------------
\* No tree and half a tree are no versions: no branch is called None.
LEMMA NoVersion ==
  /\ Nothing \notin Versions /\ Partial \notin Versions /\ Nothing # Partial
  /\ \A b \in Branches, n \in 0..MaxReleases : [branch |-> b, n |-> n] \in Versions
  /\ \A v \in Versions : v.branch \in Branches
  BY UpdatedAssumption DEF Versions, Nothing, Partial

\* Every version needs one of the two operating systems.
LEMMA AgnosType == ASSUME NEW version PROVE Agnos(version) \in {"old", "new"}
  BY DEF Agnos

\* The branch to update to is one of the server's.
LEMMA TargetType == ASSUME TypeOK, base.version \in Versions PROVE target_branch \in Branches
  BY NoVersion DEF TypeOK, ProcessOK, target_branch

\* While updated runs there is a tree in place.
LEMMA RunsInPlace == ASSUME TypeOK, Placed, boot = "running" PROVE base.version \in Versions
  BY DEF TypeOK, TreesOK, Placed

\* A step that leaves the trees, the flag, the slots and the boot alone leaves them right.
LEMMA StandsStill ==
  ASSUME IInv, UNCHANGED <<tree, system, boot>>, boot = "running" \/ pc' = pc
  PROVE  Placed' /\ Marked' /\ Bootable'
  BY DEF IInv, Placed, Marked, Bootable, Ready, Installable, tree, system

\* A step that leaves the trees, the flag, the slots and updated's own step alone leaves the attempt
\* where it was.
LEMMA AttemptStays ==
  ASSUME InProgress, UNCHANGED <<pc, old, finalized, durable, consistent, merged, system>>
  PROVE  InProgress'
  BY DEF InProgress, Ready, system

\* Nothing is in progress when updated does not run.
LEMMA NothingInProgress == ASSUME pc' = "off" PROVE InProgress' /\ Announced'
  BY DEF InProgress, Announced

\* The counters stay below their bounds.
LEMMA CountUp == ASSUME NEW bound \in Nat, NEW n \in 0..bound, n < bound PROVE n + 1 \in 0..bound
  OBVIOUS

\* The bounds of the counters are numbers.
LEMMA Bounds ==
  MaxReleases \in Nat /\ MaxFailures \in Nat /\ MaxStops \in Nat /\ MaxRequests \in Nat
  BY UpdatedAssumption

-----------------------------------------------------------------------------
(* One lemma for each step of updated *)

\* The old tree is invalidated before anything else.
LEMMA StartupInv == ASSUME IInv, Startup PROVE IInv'
  <1>1. TypeOK'
    <2>1. TreesOK'
      BY DEF IInv, TypeOK, TreesOK, Startup, ClearFlag, At, system
    <2>2. ProcessOK'
      BY DEF IInv, TypeOK, ProcessOK, Steps, Startup, ClearFlag, At, process, waiting, params,
         bounds
    <2> QED
      BY <2>1, <2>2 DEF TypeOK
  <1>2. Placed' /\ Marked' /\ Bootable'
    BY DEF IInv, Placed, Marked, Bootable, Installable, Startup, ClearFlag, At
  <1>3. InProgress' /\ Announced'
    BY DEF InProgress, Announced, Startup, ClearFlag, At
  <1> QED
    BY <1>1, <1>2, <1>3 DEF IInv

\* A valid overlay is kept; another one is unannounced and unmarked.
LEMMA InitOverlayInv == ASSUME IInv, InitOverlay PROVE IInv'
  <1>1. TypeOK'
    <2>1. TreesOK'
      BY DEF IInv, TypeOK, TreesOK, InitOverlay, tree, system, Unannounce, ClearFlag
    <2>2. ProcessOK'
      BY DEF IInv, TypeOK, ProcessOK, Steps, InitOverlay, At, process, waiting, params, bounds,
         Unannounce, ClearFlag
    <2> QED
      BY <2>1, <2>2 DEF TypeOK
  <1>2. CASE UNCHANGED <<tree, merged, system, boot>>
    <2>1. Placed' /\ Marked' /\ Bootable'
      BY <1>2, StandsStill DEF InitOverlay, At, Unannounce, ClearFlag
    <2>2. InProgress' /\ Announced'
      BY DEF InProgress, Announced, InitOverlay, ValidOverlay, At, tree, Unannounce, ClearFlag
    <2> QED
      BY <1>1, <2>1, <2>2 DEF IInv
  <1>3. CASE ClearFlag("unflag", "remove_staging")
    <2>1. Placed' /\ Marked' /\ Bootable'
      BY <1>3 DEF IInv, Placed, Marked, Bootable, Installable, ClearFlag, At
    <2>2. InProgress' /\ Announced'
      BY <1>3 DEF InProgress, Announced, ClearFlag, At
    <2> QED
      BY <1>1, <2>1, <2>2 DEF IInv
  <1> QED
    BY <1>2, <1>3 DEF InitOverlay, Unannounce

\* What is removed is unmarked.
LEMMA RemoveStagingInv == ASSUME IInv, RemoveStaging PROVE IInv'
  <1>1. TypeOK'
    <2>1. TreesOK'
      BY DEF IInv, TypeOK, TreesOK, RemoveStaging, system
    <2>2. ProcessOK'
      BY DEF IInv, TypeOK, ProcessOK, Steps, RemoveStaging, At, process, waiting, params, bounds
    <2> QED
      BY <2>1, <2>2 DEF TypeOK
  <1>2. ~consistent' /\ base.version # Nothing
    BY DEF IInv, Placed, InProgress, RemoveStaging, At
  <1>3. Placed' /\ Marked' /\ Bootable'
    BY <1>2 DEF Placed, Marked, Bootable, Installable, RemoveStaging, At
  <1>4. InProgress' /\ Announced'
    BY DEF IInv, InProgress, Announced, RemoveStaging, At
  <1> QED
    BY <1>1, <1>3, <1>4 DEF IInv

\* The overlay is made anew over the tree in place, with no backup and no mark left.
LEMMA MountInv == ASSUME IInv, Mount PROVE IInv'
  <1>1. base.version \in Versions /\ ~consistent /\ old = Nothing
    BY RunsInPlace DEF IInv, InProgress, Mount
  <1>2. base' = [version |-> base.version, init |-> TRUE, touched |-> FALSE]
    BY DEF IInv, TypeOK, TreesOK, Mount
  <1>3. TypeOK'
    <2>1. TreesOK'
      BY <1>1, <1>2 DEF IInv, TypeOK, TreesOK, Mount, system
    <2>2. ProcessOK'
      BY <1>1, <1>2, Bounds DEF IInv, TypeOK, ProcessOK, Steps, Mount, bounds, Fails, process,
         waiting, params
    <2> QED
      BY <2>1, <2>2 DEF TypeOK
  <1>4. Placed' /\ Marked' /\ Bootable'
    BY <1>1, <1>2, NoVersion DEF Placed, Marked, Bootable, Installable, Mount
  <1>5. InProgress' /\ Announced'
    BY <1>2 DEF InProgress, Announced, Mount, Fails
  <1> QED
    BY <1>3, <1>4, <1>5 DEF IInv

\* set_params announces only what is marked.
LEMMA SetParams ==
  ASSUME IInv, boot = "running", set_params
  PROVE  /\ UpdaterTargetBranch' \in Branches /\ UpdateAvailable' \in BOOLEAN
         /\ UpdateAvailable' => consistent
         /\ UNCHANGED <<UpdaterLastFetchTime, NetworkMetered>>
  BY RunsInPlace, TargetType DEF IInv, set_params, update_ready

\* The first iteration waits, later ones go on.
LEMMA FirstParamsInv == ASSUME IInv, FirstParams PROVE IInv'
  <1>1. TypeOK'
    <2>1. TreesOK'
      BY DEF IInv, TypeOK, TreesOK, FirstParams, At, tree, system
    <2>2. ProcessOK'
      BY SetParams DEF IInv, TypeOK, ProcessOK, Steps, FirstParams, At, waiting, bounds
    <2> QED
      BY <2>1, <2>2 DEF TypeOK
  <1>2. Placed' /\ Marked' /\ Bootable'
    BY StandsStill DEF FirstParams, At
  <1>3. InProgress' /\ Announced'
    BY SetParams DEF IInv, InProgress, Announced, FirstParams, At, tree
  <1> QED
    BY <1>1, <1>2, <1>3 DEF IInv

\* The server's branches are learnt, or the attempt fails.
LEMMA CheckForUpdateInv == ASSUME IInv, CheckForUpdate PROVE IInv'
  <1>0. branches' \in {Unknown} \cup [Branches -> 0..MaxReleases]
    BY DEF IInv, TypeOK, TreesOK, ProcessOK, CheckForUpdate
  <1>1. TypeOK'
    <2>1. TreesOK'
      BY DEF IInv, TypeOK, TreesOK, CheckForUpdate, tree, system
    <2>2. ProcessOK'
      BY <1>0, Bounds DEF IInv, TypeOK, ProcessOK, Steps, CheckForUpdate, bounds, Fails, waiting,
         params
    <2> QED
      BY <2>1, <2>2 DEF TypeOK
  <1>2. Placed' /\ Marked' /\ Bootable'
    BY StandsStill DEF CheckForUpdate
  <1>3. InProgress' /\ Announced'
    BY DEF IInv, InProgress, Announced, CheckForUpdate, Fails, tree
  <1> QED
    BY <1>1, <1>2, <1>3 DEF IInv

\* Whether to fetch changes nothing yet.
LEMMA DecideInv == ASSUME IInv, Decide PROVE IInv'
  <1>1. pc' \in {"succeeded", "fetch"}
    BY DEF Decide
  <1>2. TypeOK'
    <2>1. TreesOK'
      BY <1>1 DEF IInv, TypeOK, TreesOK, Decide, tree, system
    <2>2. ProcessOK'
      BY <1>1 DEF IInv, TypeOK, ProcessOK, Steps, Decide, process, params, bounds
    <2> QED
      BY <2>1, <2>2 DEF TypeOK
  <1>3. Placed' /\ Marked' /\ Bootable'
    BY StandsStill DEF Decide
  <1>4. InProgress' /\ Announced'
    BY <1>1 DEF IInv, InProgress, Announced, Decide, tree
  <1> QED
    BY <1>2, <1>3, <1>4 DEF IInv

\* The mark goes first, then the announcement.
LEMMA FetchInv == ASSUME IInv, Fetch PROVE IInv'
  <1>1. TypeOK'
    <2>1. TreesOK'
      BY DEF IInv, TypeOK, TreesOK, Fetch, ClearFlag, system, Unannounce, tree
    <2>2. ProcessOK'
      BY DEF IInv, TypeOK, ProcessOK, Steps, Fetch, ClearFlag, At, process, waiting, params, bounds,
         Unannounce
    <2> QED
      BY <2>1, <2>2 DEF TypeOK
  <1>2. CASE ClearFlag("fetch", "unannounce")
    <2>1. Placed' /\ Marked' /\ Bootable'
      BY <1>2 DEF IInv, Placed, Marked, Bootable, Installable, ClearFlag, At
    <2>2. InProgress' /\ Announced'
      BY <1>2 DEF IInv, InProgress, Announced, ClearFlag, At
    <2> QED
      BY <1>1, <2>1, <2>2 DEF IInv
  <1>3. CASE Unannounce("unannounce", "git")
    <2>1. Placed' /\ Marked' /\ Bootable'
      BY <1>3, StandsStill DEF Unannounce, At
    <2>2. InProgress' /\ Announced'
      BY <1>3 DEF IInv, InProgress, Announced, Unannounce, At, tree
    <2> QED
      BY <1>1, <2>1, <2>2 DEF IInv
  <1> QED
    BY <1>2, <1>3 DEF Fetch

\* The overlay holds the latest release, whose operating system runs or has to be flashed; or it is
\* half written and nothing is finalized.
LEMMA GitInv == ASSUME IInv, Git PROVE IInv'
  <1>1. target_branch \in Branches /\ remote[target_branch] \in 0..MaxReleases
    BY RunsInPlace, TargetType DEF IInv, TypeOK, TreesOK, Git
  <1>2. \/ /\ merged' \in Versions /\ UNCHANGED bounds
           /\ pc' = "flash" \/ (pc' = "finalize" /\ Agnos(merged') = os)
        \/ merged' = Partial /\ Fails
    BY <1>1, NoVersion DEF Git
  <1>3. TypeOK'
    <2>1. TreesOK'
      BY <1>2 DEF IInv, TypeOK, TreesOK, Git, tree, system
    <2>2. ProcessOK'
      BY <1>2, Bounds DEF IInv, TypeOK, ProcessOK, Steps, Git, bounds, Fails, process, waiting,
         params
    <2> QED
      BY <2>1, <2>2 DEF TypeOK
  <1>4. Placed' /\ Marked' /\ Bootable'
    BY StandsStill DEF Git
  <1>5. InProgress'
    BY <1>2 DEF IInv, InProgress, Ready, Git, Fails, tree, system
  <1>6. Announced'
    BY <1>2 DEF IInv, Announced, Git, tree, params
  <1> QED
    BY <1>3, <1>4, <1>5, <1>6 DEF IInv

\* The other slot is written to only when nothing is marked.
LEMMA FlashInv == ASSUME IInv, Flash PROVE IInv'
  <1>1. TypeOK'
    <2>1. TreesOK'
      BY DEF IInv, TypeOK, TreesOK, Flash
    <2>2. ProcessOK'
      BY DEF IInv, TypeOK, ProcessOK, Steps, Flash, At, process, waiting, params, bounds
    <2> QED
      BY <2>1, <2>2 DEF TypeOK
  <1>2. Placed' /\ Marked' /\ Bootable'
    BY DEF IInv, Placed, Marked, Bootable, Installable, Flash, At
  <1>3. InProgress' /\ Announced'
    BY DEF IInv, InProgress, Announced, Flash, At, params
  <1> QED
    BY <1>1, <1>2, <1>3 DEF IInv

\* The operating system that the new tree needs is in the other slot, or the attempt fails.
LEMMA FlashingInv == ASSUME IInv, Flashing PROVE IInv'
  <1>1. ~consistent' /\ merged \in Versions
    BY DEF IInv, InProgress, Flashing, tree
  <1>2. TypeOK'
    <2>1. TreesOK'
      BY AgnosType DEF IInv, TypeOK, TreesOK, Flashing, tree
    <2>2. ProcessOK'
      BY Bounds DEF IInv, TypeOK, ProcessOK, Steps, Flashing, bounds, Fails, process, waiting,
         params
    <2> QED
      BY <2>1, <2>2 DEF TypeOK
  <1>3. Placed' /\ Marked' /\ Bootable'
    BY <1>1 DEF IInv, Placed, Marked, Bootable, Installable, Flashing, tree
  <1>4. InProgress'
    <2>1. CASE pc' = "finalize" /\ slot' = Agnos(merged)
      BY <1>1, <2>1 DEF InProgress, Ready, Flashing
    <2>2. CASE Fails
      BY <2>2 DEF InProgress, Fails
    <2> QED
      BY <2>1, <2>2 DEF Flashing
  <1>5. Announced'
    BY DEF IInv, Announced, Flashing, tree, params
  <1> QED
    BY <1>2, <1>3, <1>4, <1>5 DEF IInv

\* The copy begins with half a tree that is not on the disk, unmarked.
LEMMA FinalizeInv == ASSUME IInv, Finalize PROVE IInv'
  <1>1. TypeOK'
    <2>1. TreesOK'
      BY DEF IInv, TypeOK, TreesOK, Finalize, system
    <2>2. ProcessOK'
      BY DEF IInv, TypeOK, ProcessOK, Steps, Finalize, At, process, waiting, params, bounds
    <2> QED
      BY <2>1, <2>2 DEF TypeOK
  <1>2. Placed' /\ Marked' /\ Bootable'
    BY DEF IInv, Placed, Marked, Bootable, Installable, Finalize, At
  <1>3. InProgress'
    BY DEF IInv, InProgress, Ready, Finalize, At, system
  <1>4. Announced'
    BY DEF IInv, Announced, Finalize, At, params
  <1> QED
    BY <1>1, <1>2, <1>3, <1>4 DEF IInv

\* The copy is the overlay's version, or half of it when it fails.
LEMMA CopyInv == ASSUME IInv, Copy PROVE IInv'
  <1>1. ~consistent' /\ Ready(merged) /\ base.version \in Versions
    BY RunsInPlace DEF IInv, InProgress, Copy
  <1>2. TypeOK'
    <2>1. TreesOK'
      BY DEF IInv, TypeOK, TreesOK, Copy, system
    <2>2. ProcessOK'
      BY Bounds DEF IInv, TypeOK, ProcessOK, Steps, Copy, bounds, Fails, process, waiting, params
    <2> QED
      BY <2>1, <2>2 DEF TypeOK
  <1>3. Placed' /\ Marked' /\ Bootable'
    BY <1>1 DEF IInv, Placed, Marked, Bootable, Installable, Copy
  <1>4. InProgress'
    BY <1>1 DEF InProgress, Ready, Copy, Fails, system
  <1>5. Announced'
    BY DEF IInv, Announced, Copy, params
  <1> QED
    BY <1>2, <1>3, <1>4, <1>5 DEF IInv

\* The copy is on the disk before the mark.
LEMMA SyncInv == ASSUME IInv, Sync PROVE IInv'
  <1>1. TypeOK'
    <2>1. TreesOK'
      BY DEF IInv, TypeOK, TreesOK, synced, Sync, At, system
    <2>2. ProcessOK'
      BY DEF IInv, TypeOK, ProcessOK, Steps, Sync, At, process, waiting, params, bounds
    <2> QED
      BY <2>1, <2>2 DEF TypeOK
  <1>2. ~consistent'
    BY DEF IInv, InProgress, Sync, At
  <1>3. Placed' /\ Marked' /\ Bootable'
    BY <1>2 DEF IInv, Placed, Marked, Bootable, Installable, Sync, At
  <1>4. InProgress'
    BY DEF IInv, InProgress, Ready, synced, Sync, At, system
  <1>5. Announced'
    BY DEF IInv, Announced, Sync, At, params
  <1> QED
    BY <1>1, <1>3, <1>4, <1>5 DEF IInv

\* What is marked is ready.
LEMMA FlagInv == ASSUME IInv, Flag PROVE IInv'
  <1>1. Ready(finalized) /\ durable
    BY DEF IInv, InProgress, Flag, At
  <1>2. TypeOK'
    <2>1. TreesOK'
      BY DEF IInv, TypeOK, TreesOK, Flag, At, system
    <2>2. ProcessOK'
      BY DEF IInv, TypeOK, ProcessOK, Steps, Flag, At, process, waiting, bounds
    <2> QED
      BY <2>1, <2>2 DEF TypeOK
  <1>3. Placed'
    BY DEF IInv, Placed, Flag, At
  <1>4. Marked' /\ Bootable'
    BY <1>1 DEF Marked, Bootable, Ready, Flag, system
  <1>5. InProgress' /\ Announced'
    BY DEF IInv, InProgress, Announced, Flag, At
  <1> QED
    BY <1>2, <1>3, <1>4, <1>5 DEF IInv

\* The end of an attempt that succeeded
LEMMA SucceededInv == ASSUME IInv, Succeeded PROVE IInv'
  <1>1. TypeOK'
    <2>1. TreesOK'
      BY DEF IInv, TypeOK, TreesOK, Succeeded, At, tree, system
    <2>2. ProcessOK'
      BY DEF IInv, TypeOK, ProcessOK, Steps, Succeeded, At, waiting, params, bounds
    <2> QED
      BY <2>1, <2>2 DEF TypeOK
  <1>2. Placed' /\ Marked' /\ Bootable'
    BY StandsStill DEF Succeeded, At
  <1>3. InProgress' /\ Announced'
    BY DEF IInv, InProgress, Announced, Succeeded, At, tree
  <1> QED
    BY <1>1, <1>2, <1>3 DEF IInv

\* An attempt that fails takes .overlay_init with it, so that nothing is installable.
LEMMA FailedInv == ASSUME IInv, Failed PROVE IInv'
  <1>1. base' = [version |-> base.version, init |-> FALSE, touched |-> base.touched]
    BY DEF IInv, TypeOK, TreesOK, Failed
  <1>2. TypeOK'
    <2>1. TreesOK'
      BY <1>1 DEF IInv, TypeOK, TreesOK, Failed, system
    <2>2. ProcessOK'
      BY <1>1 DEF IInv, TypeOK, ProcessOK, Steps, Failed, At, params, bounds
    <2> QED
      BY <2>1, <2>2 DEF TypeOK
  <1>3. Placed' /\ Marked' /\ Bootable'
    BY <1>1 DEF IInv, Placed, Marked, Bootable, Installable, Failed, At
  <1>4. InProgress' /\ Announced'
    BY DEF InProgress, Announced, Failed, At
  <1> QED
    BY <1>2, <1>3, <1>4 DEF IInv

\* What is announced at the end of an attempt is marked.
LEMMA LastParamsInv == ASSUME IInv, LastParams PROVE IInv'
  <1>1. TypeOK'
    <2>1. TreesOK'
      BY DEF IInv, TypeOK, TreesOK, LastParams, At, tree, system
    <2>2. ProcessOK'
      BY SetParams DEF IInv, TypeOK, ProcessOK, Steps, LastParams, At, process, waiting, bounds
    <2> QED
      BY <2>1, <2>2 DEF TypeOK
  <1>2. Placed' /\ Marked' /\ Bootable'
    BY StandsStill DEF LastParams, At
  <1>3. InProgress' /\ Announced'
    BY SetParams DEF IInv, InProgress, Announced, LastParams, At, tree, process
  <1> QED
    BY <1>1, <1>2, <1>3 DEF IInv

\* The request is forgotten.
LEMMA ResetInv == ASSUME IInv, Reset PROVE IInv'
  <1>1. TypeOK'
    <2>1. TreesOK'
      BY DEF IInv, TypeOK, TreesOK, Reset, At, tree, system
    <2>2. ProcessOK'
      BY DEF IInv, TypeOK, ProcessOK, Steps, Reset, At, process, params, bounds
    <2> QED
      BY <2>1, <2>2 DEF TypeOK
  <1>2. Placed' /\ Marked' /\ Bootable'
    BY StandsStill DEF Reset, At
  <1>3. InProgress' /\ Announced'
    BY DEF IInv, InProgress, Announced, Reset, At, tree, process, params
  <1> QED
    BY <1>1, <1>2, <1>3 DEF IInv

\* Another iteration begins.
LEMMA WakeInv == ASSUME IInv, Wake PROVE IInv'
  <1>1. TypeOK'
    <2>1. TreesOK'
      BY DEF IInv, TypeOK, TreesOK, Wake, At, tree, system
    <2>2. ProcessOK'
      BY DEF IInv, TypeOK, ProcessOK, Steps, Wake, At, process, params, bounds
    <2> QED
      BY <2>1, <2>2 DEF TypeOK
  <1>2. Placed' /\ Marked' /\ Bootable'
    BY StandsStill DEF Wake, At
  <1>3. InProgress' /\ Announced'
    BY DEF InProgress, Announced, Wake, At
  <1> QED
    BY <1>1, <1>2, <1>3 DEF IInv

\* updated begins with nothing known.
LEMMA StartInv == ASSUME IInv, Start PROVE IInv'
  <1>1. TypeOK'
    <2>1. TreesOK'
      BY DEF IInv, TypeOK, TreesOK, Start, At, tree, system
    <2>2. ProcessOK'
      BY DEF IInv, TypeOK, ProcessOK, Steps, Start, At, params, bounds
    <2> QED
      BY <2>1, <2>2 DEF TypeOK
  <1>2. Placed' /\ Marked' /\ Bootable'
    BY StandsStill DEF Start, At
  <1>3. InProgress' /\ Announced'
    BY DEF InProgress, Announced, Start, At
  <1> QED
    BY <1>1, <1>2, <1>3 DEF IInv

-----------------------------------------------------------------------------
(* The launch script, the user and the rest *)

\* The tree in place becomes the backup only when a whole one waits to take its place.
LEMMA LaunchInv == ASSUME IInv, Launch PROVE IInv'
  <1>1. pc' = "off" /\ base.version \in Versions
    BY DEF IInv, TypeOK, TreesOK, Placed, Launch
  <1>2. TypeOK'
    <2>1. TreesOK'
      <3>1. CASE Installable
        <4>0. base' = [version |-> Nothing, init |-> FALSE, touched |-> FALSE]
          BY <3>1 DEF Launch
        <4>1. base' \in [version : Versions \cup {Nothing}, init : BOOLEAN, touched : BOOLEAN]
          BY <4>0
        <4> QED
          BY <1>1, <3>1, <4>1 DEF IInv, TypeOK, TreesOK, Launch, system
      <3>2. CASE ~Installable
        BY <3>2 DEF IInv, TypeOK, TreesOK, Launch, system
      <3> QED
        BY <3>1, <3>2
    <2>2. ProcessOK'
      BY <1>1 DEF IInv, TypeOK, ProcessOK, Launch, process, waiting, params, bounds
    <2> QED
      BY <2>1, <2>2 DEF TypeOK
  <1>3. Placed'
    <2>1. CASE Installable
      BY <1>1, <2>1 DEF IInv, Placed, Marked, Installable, Launch
    <2>2. CASE ~Installable
      BY <1>1, <2>2 DEF IInv, Placed, Installable, Launch
    <2> QED
      BY <2>1, <2>2
  <1>4. Marked' /\ Bootable'
    BY DEF IInv, Marked, Bootable, Installable, Launch
  <1> QED
    BY <1>1, <1>2, <1>3, <1>4, NothingInProgress DEF IInv

\* The tree that was marked is in place.
LEMMA MovedInv == ASSUME IInv, Moved PROVE IInv'
  <1>1. pc' = "off" /\ finalized \in Versions /\ base.version = Nothing /\ ~base.init
    BY DEF IInv, Placed, Moved
  <1>2. base' = [version |-> finalized, init |-> FALSE, touched |-> base.touched]
    BY <1>1 DEF IInv, TypeOK, TreesOK, Moved
  <1>3. TypeOK'
    <2>1. TreesOK'
      BY <1>1, <1>2 DEF IInv, TypeOK, TreesOK, Moved, system
    <2>2. ProcessOK'
      BY <1>1, <1>2 DEF IInv, TypeOK, ProcessOK, Moved, process, waiting, params
    <2> QED
      BY <2>1, <2>2 DEF TypeOK
  <1>4. Placed' /\ Marked' /\ Bootable'
    BY <1>1, <1>2, NoVersion DEF Placed, Marked, Bootable, Installable, Moved
  <1> QED
    BY <1>1, <1>3, <1>4, NothingInProgress DEF IInv

\* Another operating system takes the place of what is in the other slot only when nothing is
\* installable.
LEMMA AgnosInitInv == ASSUME IInv, AgnosInit PROVE IInv'
  <1>1. pc' = "off" /\ ~Installable'
    BY DEF IInv, Placed, Installable, AgnosInit, tree
  <1>2. TypeOK'
    <2>1. TreesOK'
      BY AgnosType DEF IInv, TypeOK, TreesOK, AgnosInit, system, tree
    <2>2. ProcessOK'
      BY DEF IInv, TypeOK, ProcessOK, AgnosInit, params, process, waiting, bounds
    <2> QED
      BY <2>1, <2>2 DEF TypeOK
  <1>3. Placed' /\ Marked' /\ Bootable'
    BY <1>1 DEF IInv, Placed, Marked, Bootable, AgnosInit, tree
  <1> QED
    BY <1>1, <1>2, <1>3, NothingInProgress DEF IInv

\* A request of the user touches no tree.
LEMMA AskInv == ASSUME IInv, Ask PROVE IInv'
  <1>1. TypeOK'
    <2>1. TreesOK'
      BY DEF IInv, TypeOK, TreesOK, Ask, Requests, tree, system
    <2>2. ProcessOK'
      BY Bounds DEF IInv, TypeOK, ProcessOK, Ask, Requests, Signal, process, params
    <2> QED
      BY <2>1, <2>2 DEF TypeOK
  <1>2. Placed' /\ Marked' /\ Bootable'
    BY StandsStill DEF Ask
  <1>3. InProgress'
    BY AttemptStays DEF IInv, Ask, tree
  <1>4. Announced'
    BY DEF IInv, Announced, Ask, tree, process, params
  <1> QED
    BY <1>1, <1>2, <1>3, <1>4 DEF IInv

\* Nor does the choice of a branch.
LEMMA SelectBranchInv == ASSUME IInv, SelectBranch PROVE IInv'
  <1>1. TypeOK'
    <2>1. TreesOK'
      BY DEF IInv, TypeOK, TreesOK, SelectBranch, Requests, tree, system
    <2>2. ProcessOK'
      BY Bounds, CountUp DEF IInv, TypeOK, ProcessOK, SelectBranch, Requests, Signal, waiting,
         process
    <2> QED
      BY <2>1, <2>2 DEF TypeOK
  <1>2. Placed' /\ Marked' /\ Bootable'
    BY StandsStill DEF SelectBranch
  <1>3. InProgress'
    BY AttemptStays DEF IInv, SelectBranch, tree
  <1>4. Announced'
    BY DEF IInv, Announced, SelectBranch, tree, process
  <1> QED
    BY <1>1, <1>2, <1>3, <1>4 DEF IInv

\* A checkout by hand makes nothing installable.
LEMMA CheckoutInv == ASSUME IInv, Checkout PROVE IInv'
  <1>1. PICK b \in Branches :
          base' = [base EXCEPT !.version = [branch |-> b, n |-> remote[b]], !.touched = TRUE]
    BY DEF Checkout
  <1>2. PICK version \in Versions : base' = [version |-> version, init |-> base.init, touched |-> TRUE]
    <2> DEFINE version == [branch |-> b, n |-> remote[b]]
    <2>1. version \in Versions
      BY NoVersion DEF IInv, TypeOK, TreesOK
    <2> HIDE DEF version
    <2>2. base' = [base EXCEPT !.version = version, !.touched = TRUE]
      BY <1>1 DEF version
    <2> QED
      BY <2>1, <2>2 DEF IInv, TypeOK, TreesOK
  <1>3. TypeOK'
    <2>1. TreesOK'
      BY <1>2 DEF IInv, TypeOK, TreesOK, Checkout, system
    <2>2. ProcessOK'
      BY <1>2, Bounds DEF IInv, TypeOK, ProcessOK, Checkout, Requests, process, waiting, params
    <2> QED
      BY <2>1, <2>2 DEF TypeOK
  <1>4. Placed' /\ Marked' /\ Bootable'
    BY <1>2, NoVersion DEF IInv, Placed, Marked, Bootable, Installable, Checkout, Requests
  <1>5. InProgress'
    BY AttemptStays DEF IInv, Checkout
  <1>6. Announced'
    BY <1>2 DEF IInv, Announced, Checkout, process, params
  <1> QED
    BY <1>3, <1>4, <1>5, <1>6 DEF IInv

\* A reboot or a power loss leaves half of what was not on the disk, which is not marked.
LEMMA RestartsInv == ASSUME IInv, NEW lost \in BOOLEAN, boot # "nothing to launch", Restarts(lost) PROVE IInv'
  <1>1. /\ pc' = "off" /\ boot' = IF base.version = Nothing THEN "nothing to launch" ELSE "launch"
        /\ stops' \in 0..MaxStops
    BY Bounds, CountUp DEF IInv, TypeOK, ProcessOK, Restarts, Stops
  <1>2. consistent => finalized' = finalized
    BY DEF IInv, Marked, Restarts
  <1>3. TypeOK'
    <2>1. TreesOK'
      BY <1>1 DEF IInv, TypeOK, TreesOK, Restarts, system
    <2>2. ProcessOK'
      BY <1>1 DEF IInv, TypeOK, ProcessOK, Steps, Restarts, Stops, process, params
    <2> QED
      BY <2>1, <2>2 DEF TypeOK
  <1>4. Placed'
    BY <1>1, <1>2 DEF IInv, Placed, Restarts
  <1>5. Marked' /\ Bootable'
    BY <1>2 DEF IInv, Marked, Bootable, Ready, Installable, Restarts, system
  <1> QED
    BY <1>1, <1>3, <1>4, <1>5, NothingInProgress DEF IInv

\* A drive ends updated wherever it is.
LEMMA DriveInv == ASSUME IInv, Drive PROVE IInv'
  <1>1. pc' = "off" /\ stops' \in 0..MaxStops
    BY Bounds DEF IInv, TypeOK, ProcessOK, Drive, Stops
  <1>2. TypeOK'
    <2>1. TreesOK'
      BY <1>1 DEF IInv, TypeOK, TreesOK, Drive, tree, system
    <2>2. ProcessOK'
      BY <1>1 DEF IInv, TypeOK, ProcessOK, Steps, Drive, Stops, process
    <2> QED
      BY <2>1, <2>2 DEF TypeOK
  <1>3. Placed' /\ Marked' /\ Bootable'
    BY StandsStill DEF Drive
  <1> QED
    BY <1>1, <1>2, <1>3, NothingInProgress DEF IInv

\* A release is something new on the server only.
LEMMA ReleaseInv == ASSUME IInv, Release PROVE IInv'
  <1>1. remote' \in [Branches -> 0..MaxReleases]
    <2>1. PICK b \in Branches : remote[b] < MaxReleases /\ remote' = [remote EXCEPT ![b] = @ + 1]
      BY DEF Release
    <2>2. remote[b] + 1 \in 0..MaxReleases
      BY <2>1, Bounds, CountUp DEF IInv, TypeOK, TreesOK
    <2> QED
      BY <2>1, <2>2 DEF IInv, TypeOK, TreesOK
  <1>2. TypeOK'
    <2>1. TreesOK'
      BY <1>1 DEF IInv, TypeOK, TreesOK, Release, tree, system, process, waiting, params, bounds
    <2>2. ProcessOK'
      BY <1>1 DEF IInv, TypeOK, ProcessOK, Release, process, waiting, params, bounds
    <2> QED
      BY <2>1, <2>2 DEF TypeOK
  <1>3. Placed' /\ Marked' /\ Bootable'
    BY StandsStill DEF Release
  <1>4. InProgress' /\ Announced'
    BY AttemptStays DEF IInv, Announced, Release, tree, process, params
  <1> QED
    BY <1>2, <1>3, <1>4 DEF IInv

-----------------------------------------------------------------------------
\* A device that has never been updated meets the invariant.
LEMMA InitInv == Init => IInv
  <1> SUFFICES ASSUME Init PROVE IInv
    OBVIOUS
  <1>1. PICK version \in Versions : base = [version |-> version, init |-> FALSE, touched |-> FALSE]
    <2> DEFINE version == [branch |-> Installed, n |-> 0]
    <2>1. version \in Versions
      BY NoVersion, UpdatedAssumption
    <2>2. base = [version |-> version, init |-> FALSE, touched |-> FALSE]
      BY DEF Init
    <2> QED
      BY <2>1, <2>2
  <1>2. TypeOK
    <2>1. remote \in [Branches -> 0..MaxReleases] /\ os \in {"old", "new"}
      BY Bounds, AgnosType DEF Init
    <2>2. base \in [version : Versions \cup {Nothing}, init : BOOLEAN, touched : BOOLEAN]
      BY <1>1
    <2>3. TreesOK
      BY <2>1, <2>2 DEF Init, TreesOK
    <2>4. failures \in 0..MaxFailures /\ stops \in 0..MaxStops /\ requests \in 0..MaxRequests
      BY Bounds DEF Init
    <2>5. ProcessOK
      BY <2>4 DEF Init, ProcessOK, Steps
    <2> QED
      BY <2>3, <2>5 DEF TypeOK
  <1>3. Placed /\ Marked /\ Bootable
    BY <1>1, NoVersion DEF Init, Placed, Marked, Bootable, Installable
  <1>4. InProgress /\ Announced
    BY DEF Init, InProgress, Announced
  <1> QED
    BY <1>2, <1>3, <1>4 DEF IInv

\* Every step preserves the invariant.
LEMMA NextInv == IInv /\ [Next]_vars => IInv'
  <1> SUFFICES ASSUME IInv, [Next]_vars PROVE IInv'
    OBVIOUS
  <1>1. CASE Step
    BY <1>1, StartupInv, InitOverlayInv, RemoveStagingInv, MountInv, FirstParamsInv,
       CheckForUpdateInv, DecideInv, FetchInv, GitInv, FlashInv, FlashingInv, FinalizeInv, CopyInv,
       SyncInv, FlagInv, SucceededInv, FailedInv, LastParamsInv, ResetInv, WakeInv, StartInv DEF
       Step
  <1>2. CASE Boot
    BY <1>2, LaunchInv, MovedInv, AgnosInitInv DEF Boot
  <1>3. CASE User
    <2>1. CASE Install
      BY <2>1, RestartsInv DEF Install
    <2> QED
      BY <1>3, <2>1, AskInv, SelectBranchInv, CheckoutInv DEF User
  <1>4. CASE PowerLoss
    BY <1>4, RestartsInv DEF PowerLoss
  <1>5. CASE UNCHANGED vars
    <2>1. TypeOK'
      <3>1. TreesOK'
        BY <1>5 DEF IInv, TypeOK, TreesOK, vars, tree, system, params, process, waiting, bounds
      <3>2. ProcessOK'
        BY <1>5 DEF IInv, TypeOK, ProcessOK, vars, params, process, waiting, bounds
      <3> QED
        BY <3>1, <3>2 DEF TypeOK
    <2>2. Placed' /\ Marked' /\ Bootable'
      BY <1>5, StandsStill DEF vars
    <2>3. InProgress' /\ Announced'
      BY <1>5, AttemptStays DEF IInv, Announced, vars, tree, process, params
    <2> QED
      BY <2>1, <2>2, <2>3 DEF IInv
  <1> QED
    BY <1>1, <1>2, <1>3, <1>4, <1>5, DriveInv, ReleaseInv DEF Next

\* What holds of updated's state whatever happens
LEMMA Invariant == Spec => []IInv
  BY InitInv, NextInv, PTL DEF Spec

\* updated, the launch script and the trees stay within their types.
THEOREM TypeCorrect == Spec => []TypeOK
  <1>1. IInv => TypeOK
    BY DEF IInv
  <1> QED
    BY <1>1, Invariant, PTL

\* A tree that is marked consistent is whole and on the disk, and the operating system that it needs
\* runs or is in the other slot, wherever updated was killed or the power failed.
THEOREM MarkedIsReady == Spec => []ConsistentIsReady
  <1>1. IInv => ConsistentIsReady
    BY DEF IInv, Marked, Bootable, Ready, ConsistentIsReady
  <1> QED
    BY <1>1, Invariant, PTL

\* Some whole tree is always there to run, also between the two renames.
THEOREM SomethingToRun == Spec => []NothingLost
  <1>1. IInv => NothingLost
    BY DEF IInv, TypeOK, TreesOK, Placed, NothingLost
  <1> QED
    BY <1>1, Invariant, PTL

\* What updated announces when it goes to sleep after a success is what the next launch installs.
THEOREM AnnouncementKept == Spec => []AnnouncedIsInstallable
  <1>1. IInv => AnnouncedIsInstallable
    BY DEF IInv, Placed, Announced, Installable, AnnouncedIsInstallable
  <1> QED
    BY <1>1, Invariant, PTL
=============================================================================
