----------------------------- MODULE MCBackends -----------------------------
(* Instances for TLC of the two backends: the USB backend listing folders  *)
(* of devices with their quirks, and the worker of the WPD backend serving *)
(* its clients.  A behaviour is of one of them, `scene` says which, and    *)
(* the other one is at rest.                                               *)
EXTENDS UsbListing, MCWpdWorker

VARIABLE scene

Plain == [all |-> "roots", zero |-> "roots", mark |-> 0, storage |-> 9,
          lists |-> "serves", bad |-> {}, dated |-> {1}]

(* Each quirk of a root listing with one of the property lists. *)
MCDevices ==
  {Plain,
   [Plain EXCEPT !.all = "declines", !.zero = "every", !.lists = "depth0"],
   [Plain EXCEPT !.all = "every", !.storage = 3, !.lists = "declines", !.mark = 10],
   [Plain EXCEPT !.all = "declines", !.zero = "invalid", !.lists = "foreign", !.mark = 9],
   [Plain EXCEPT !.all = "every", !.mark = 9, !.bad = {1}],
   [Plain EXCEPT !.lists = "none", !.bad = {1, 4}]}

(* Two folders side by side, one in the other, and a file that is not there. *)
MCTrees == {<<3, 0, 0, 0>>, <<11, 3, 0, 3>>, <<4, 3, 0, 3>>}

BackendVars == <<scene, listingVars, wpdVars>>

RestListing == dev = Plain /\ tree = <<3, 0, 0, 0>> /\ ListingInit

BackendInit ==
  /\ scene \in {"listing", "wpd"}
  /\ IF scene = "listing" THEN ListingInit ELSE RestListing
  /\ WpdInit

BackendNext ==
  /\ UNCHANGED scene
  /\ \/ scene = "listing" /\ ListingNext /\ UNCHANGED wpdVars
     \/ scene = "wpd" /\ WpdNext /\ UNCHANGED listingVars

(* The fairness of ListingSpec and WpdFairSpec, for the one that runs. *)
BackendSpec ==
  /\ BackendInit /\ [][BackendNext]_BackendVars
  /\ WF_listingVars(scene = "listing" /\ Advance)
  /\ WF_wpdVars(scene = "wpd" /\ WorkerStep)
  /\ \A c \in Clients : WF_wpdVars(scene = "wpd" /\ ClientStep(c))

(* The state of each of them is of its shape. *)
BackendTypeOK == ListingTypeOK /\ WpdTypeOK

(* A listing ends, a call of the worker comes back, and a stream that it   *)
(* keeps for the next window is released.                                  *)
BackendsProgress == ListingEnds /\ CallsReturn /\ KeptIsReleased
=============================================================================
