--------------------------- MODULE MCDeviceWatch ---------------------------
(* Two instances of VirtualDevice in one run for TLC.  In the scene        *)
(* "watch" a host works while one program changes files behind the         *)
(* watcher's back; in the scene "harness" two test harnesses pause the     *)
(* watcher, change files, drain, rescan and re-key.                        *)
EXTENDS MCVirtualDevice

VARIABLE scene

HarnessOps == {"OpenSession", "GetObjectHandles", "Rescan", "Rekey", "Pause"}

Harness == INSTANCE VirtualDevice WITH
  Ops <- HarnessOps, Outsiders <- {"t1", "t2"}, Disciplined <- TRUE

DeviceInit == VirtualInit /\ scene \in {"watch", "harness"}

DeviceNext ==
  /\ UNCHANGED scene
  /\ \/ scene = "watch" /\ VirtualNext
     \/ scene = "harness" /\ Harness!VirtualNext

WatchSpec == DeviceInit /\ [][DeviceNext]_<<scene, virtualVars>>

(* Once the watcher has caught up, no handle is left for a file that is    *)
(* gone, in whatever order uploads, deletes, listings, rescans, changes    *)
(* outside MTP and their late notifications met.                           *)
WatcherLeavesNoPhantoms == scene = "watch" => NoPhantoms

(* Harnesses that change files under a pause guard, drain and rescan       *)
(* compose: when the last guard is gone the tracked tree is what is on     *)
(* disk, and no stale notification takes it apart afterwards.              *)
PausedHarnessesCompose == scene = "harness" => HarnessesCompose
=============================================================================
