------------------------------- MODULE MCLink -------------------------------
(* Instances for TLC of what goes on over one USB link: the bulk and       *)
(* interrupt transfers, opening a session over what an earlier process     *)
(* left, and the watch for devices.  They share no state, so a behaviour   *)
(* is of one of them, `scene` says which, and the others are at rest.      *)
EXTENDS UsbTransport, SessionOpen, Hotplug

VARIABLE scene

LinkVars == <<scene, transportVars, openVars, hotplugVars>>

RestOpen == app = Down(CHOOSE m \in Modes : TRUE) /\ OpenInit
RestHotplug == plugged = {} /\ HotplugInit

LinkInit ==
  /\ scene \in {"transport", "open", "hotplug"}
  /\ TransportInit
  /\ IF scene = "open" THEN OpenInit ELSE RestOpen
  /\ IF scene = "hotplug" THEN HotplugInit ELSE RestHotplug
LinkNext ==
  /\ UNCHANGED scene
  /\ \/ scene = "transport" /\ TransportNext /\ UNCHANGED <<openVars, hotplugVars>>
     \/ scene = "open" /\ OpenNext /\ UNCHANGED <<transportVars, hotplugVars>>
     \/ scene = "hotplug" /\ HotplugNext /\ UNCHANGED <<transportVars, openVars>>

(* The fairness of TransportSpec, OpenSpec and HotplugSpec, for the one that runs. *)
LinkSpec ==
  /\ LinkInit /\ [][LinkNext]_LinkVars
  /\ WF_transportVars(scene = "transport" /\ HostStep)
  /\ WF_openVars(scene = "open" /\ OpenStep)
  /\ WF_hotplugVars(scene = "hotplug" /\ Poll)

(* A process that keeps trying ends with an open session, whatever earlier *)
(* processes left behind when they died, and however often they did.       *)
SessionReopens == scene = "open" => Reopens

(* The state of each of them is of its shape. *)
LinkTypeOK == TransportTypeOK /\ OpenTypeOK /\ HotplugTypeOK

(* Cancels, drains and resets return, a session opens again, and a watch   *)
(* reports what is plugged in.                                             *)
LinkProgress == CallsEnd /\ SessionReopens /\ CatchesUp
=============================================================================
