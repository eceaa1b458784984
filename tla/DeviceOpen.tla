----------------------------- MODULE DeviceOpen -----------------------------
(***************************************************************************)
(* Which device an open or a reset reaches (MtpDeviceBuilder, PtpDevice,   *)
(* the WPD worker's open_device), which USB devices count as MTP devices,  *)
(* and which of a device's interfaces is claimed (NusbTransport).  All of  *)
(* it is computed from what is attached, so a behaviour is one request.    *)
(***************************************************************************)
EXTENDS Naturals, Sequences, FiniteSets

CONSTANTS
  MaxInterfaces,  \* bound: interfaces of a device
  MaxAttached     \* bound: devices attached

ASSUME ChoiceAssumption == MaxInterfaces \in Nat \ {0} /\ MaxAttached \in Nat

VARIABLES
  attached, \* [windows, usb, virtuals]: the platform, the attached and the registered devices
  request,  \* [call, how, backend, known]
  answer    \* "none", or what came of it: [is, at, via, interface]

choiceVars == <<attached, request, answer>>
-----------------------------------------------------------------------------
(* Descriptors. *)

(* What an interface descriptor says: its class codes are MTP's, or a vendor's own; the name
   the OS publishes is "MTP"; it has bulk IN, bulk OUT and interrupt IN endpoints. *)
Interfaces == [class : {"mtp", "vendor", "other"}, named : BOOLEAN, layout : BOOLEAN]

IsMtpInterface(i) == i.class = "mtp" \/ (i.class = "vendor" /\ i.layout)

(* Devices, like interfaces, are looked through in order: the first of some positions, 0 if
   there is none. *)
First(S) == IF S = {} THEN 0 ELSE CHOOSE n \in S : \A k \in S : n <= k

MtpInterfaces(d) == {n \in DOMAIN d.interfaces : IsMtpInterface(d.interfaces[n])}

(* mtp_summary_match_reason of what the OS publishes without opening the device. *)
SummaryReason(i) ==
  IF i.class = "mtp" THEN "standard_class" ELSE IF i.named THEN "interface_string" ELSE "none"

(* mtp_match_reason.  Only composite and vendor devices are looked into, and the last resort
   is to open them. *)
MatchReason(d, knownModels) ==
  LET hit == First({n \in DOMAIN d.interfaces : SummaryReason(d.interfaces[n]) # "none"})
  IN CASE d.model \in knownModels -> "known_vid_pid"
       [] d.model \notin knownModels /\ d.class = "mtp" -> "standard_class"
       [] d.model \notin knownModels /\ d.class = "other" -> "none"
       [] d.model \notin knownModels /\ d.class = "composite" ->
            IF hit # 0 THEN SummaryReason(d.interfaces[hit])
            ELSE IF d.driver = "usb" /\ MtpInterfaces(d) # {}
                   THEN "opened_descriptor_scan" ELSE "none"

Listed(knownModels) ==
  {n \in DOMAIN attached.usb : MatchReason(attached.usb[n], knownModels) # "none"}

(* Mutant: no second pass. *)
PickStrictly(d) == First(MtpInterfaces(d))

(* The interface that open_with_timeout picks: an MTP interface, or else one of the layout. *)
Pick(d) ==
  IF MtpInterfaces(d) # {} THEN First(MtpInterfaces(d))
  ELSE First({n \in DOMAIN d.interfaces : d.interfaces[n].layout})
-----------------------------------------------------------------------------
(* Answers. *)

Failed(why) == [is |-> why, at |-> 0, via |-> "none", interface |-> 0]
Got(d, via, n) == [is |-> "ok", at |-> d.at, via |-> via, interface |-> n]

(* A device whose driver is WPD's cannot be opened over USB. *)
OpenUsb(d) ==
  IF d.driver # "usb" THEN Failed("io")
  ELSE IF Pick(d) = 0 \/ ~d.interfaces[Pick(d)].layout THEN Failed("invalid_data")
  ELSE Got(d, "usb", Pick(d))

(* The WPD worker: it opens what Windows enumerates, never by location. *)
WpdDevices == {n \in DOMAIN attached.usb : attached.windows /\ attached.usb[n].driver = "wpd"}

OpenWpd(n, otherwise) == IF n = 0 THEN Failed(otherwise) ELSE Got(attached.usb[n], "wpd", 0)

WpdFirst == OpenWpd(First(WpdDevices), "no_device")

WpdSerial(serial) ==
  OpenWpd(First({n \in WpdDevices : attached.usb[n].wpdSerial = serial}), "no_device")

WpdOfModel(d) == {n \in WpdDevices : attached.usb[n].model = d.model}

(* Mutant: the first of the model. *)
WpdForUsbGuesses(d) == OpenWpd(First(WpdOfModel(d)), "no_device")

(* By model; among several of a model, by the USB serial, and no guess. *)
WpdForUsb(d) ==
  IF Cardinality(WpdOfModel(d)) <= 1 THEN OpenWpd(First(WpdOfModel(d)), "no_device")
  ELSE OpenWpd(First({n \in WpdOfModel(d) : d.serial # "none" /\ attached.usb[n].serial = d.serial}),
               "other")

(* try_open_wpd_*: "none" sends the caller on to USB. *)
TryWpd(found) ==
  IF attached.windows
    THEN IF request.backend = "usb" THEN Failed("none")
         ELSE IF found.is = "no_device" /\ request.backend = "auto" THEN Failed("none")
         ELSE found
    ELSE IF request.backend = "wpd" THEN Failed("unsupported") ELSE Failed("none")

OrElse(tried, otherwise) == IF tried.is = "none" THEN otherwise ELSE tried

(* Whether a device is the one that the request names. *)
Asked(d) ==
  CASE request.how.by = "first" -> TRUE
    [] request.how.by = "serial" -> d.serial = request.how.serial
    [] request.how.by = "location" -> d.at = request.how.at

Virtual ==
  LET n == First({k \in DOMAIN attached.virtuals : Asked(attached.virtuals[k])})
  IN IF n = 0 THEN Failed("none") ELSE Got(attached.virtuals[n], "virtual", 0)

(* The USB device, 0 or one of those listed, and its open. *)
Usb == First({n \in Listed(request.known) : Asked(attached.usb[n])})

OpenAskedUsb == IF Usb = 0 THEN Failed("no_device") ELSE OpenUsb(attached.usb[Usb])

OpenFirst == OrElse(TryWpd(WpdFirst), OpenAskedUsb)

OpenBySerial == OrElse(Virtual, OrElse(TryWpd(WpdSerial(request.how.serial)), OpenAskedUsb))

(* WPD knows no locations: the USB device is found first. *)
OpenByLocation ==
  OrElse(Virtual, IF Usb = 0 THEN Failed("no_device")
                  ELSE OrElse(TryWpd(WpdForUsb(attached.usb[Usb])), OpenUsb(attached.usb[Usb])))

(* Mutant: the reset looks for USB devices only. *)
ResetUnguarded == OpenAskedUsb

(* reset_by_*: a virtual device has nothing to reset, and WPD is not asked. *)
Reset ==
  IF Virtual.is = "none" THEN OpenAskedUsb ELSE Failed("unsupported")

Answer ==
  CASE request.call = "open" /\ request.how.by = "first" -> OpenFirst
    [] request.call = "open" /\ request.how.by = "serial" -> OpenBySerial
    [] request.call = "open" /\ request.how.by = "location" -> OpenByLocation
    [] request.call = "reset" /\ request.how.by = "first" -> OpenAskedUsb
    [] request.call = "reset" /\ request.how.by # "first" -> Reset
-----------------------------------------------------------------------------
(* What may be attached. *)

(* Any descriptors, for a device on its own. *)
Shapes == UNION {[1 .. n -> Interfaces] : n \in 0 .. MaxInterfaces}
Alone == {[at |-> 1, model |-> "m1", serial |-> "s1", wpdSerial |-> "w1", driver |-> "usb",
           class |-> c, interfaces |-> s] : c \in {"mtp", "composite", "other"}, s \in Shapes}

MtpShape == <<[class |-> "mtp", named |-> TRUE, layout |-> TRUE]>>
OddShape == <<[class |-> "other", named |-> FALSE, layout |-> TRUE]>>

(* Devices beside each other: of one model or two, with the serials of USB and of WPD alike
   or not, bound to either driver. *)
Beside ==
  [model : {"m1"}, serial : {"s1", "s2", "none"}, wpdSerial : {"s1", "w1"},
   driver : {"usb", "wpd"}, class : {"composite"}, interfaces : {MtpShape}]
  \cup
  [model : {"m2"}, serial : {"s1", "s2", "none"}, wpdSerial : {"s1", "w1"},
   driver : {"usb", "wpd"}, class : {"composite"}, interfaces : {OddShape}]

At(n, d) == [at |-> n, model |-> d.model, serial |-> d.serial, wpdSerial |-> d.wpdSerial,
             driver |-> d.driver, class |-> d.class, interfaces |-> d.interfaces]

(* A virtual device is registered at a place no USB device has. *)
VirtualPlace == MaxAttached + 1
Registered == {<<>>, <<[at |-> VirtualPlace, serial |-> "s1"]>>}

Requests ==
  [call : {"open", "reset"}, backend : {"auto", "usb", "wpd"}, known : {{}, {"m2"}},
   how : {[by |-> "first", serial |-> "none", at |-> 0], [by |-> "serial", serial |-> "s1", at |-> 0]}
           \cup {[by |-> "location", serial |-> "none", at |-> n] : n \in 1 .. VirtualPlace}]

ChoiceInit ==
  /\ answer = Failed("none")
  /\ \/ /\ \E d \in Alone : attached = [windows |-> FALSE, usb |-> <<d>>, virtuals |-> <<>>]
        /\ request = [call |-> "open", backend |-> "usb", known |-> {},
                      how |-> [by |-> "location", serial |-> "none", at |-> 1]]
     \/ \E n \in 0 .. MaxAttached, w \in BOOLEAN, v \in Registered :
          \E s \in [1 .. n -> Beside] :
            /\ attached = [windows |-> w, usb |-> [i \in 1 .. n |-> At(i, s[i])], virtuals |-> v]
            /\ \A i \in 1 .. n : ~w => s[i].driver = "usb"
            /\ request \in Requests

Resolve == answer.is = "none" /\ answer' = Answer /\ UNCHANGED <<attached, request>>

ChoiceNext == Resolve
ChoiceSpec == ChoiceInit /\ [][ChoiceNext]_choiceVars
-----------------------------------------------------------------------------
Devices == {attached.usb[n] : n \in DOMAIN attached.usb}
Reached == {d \in Devices : d.at = answer.at}

(* What is opened or reset is what was asked for.  By serial, the serial of the side that
   opened it; by location, that location, or, through WPD, a device of the same model: the
   only one WPD has, or the one of the same serial. *)
AskedIsReached ==
  answer.is = "ok" /\ answer.via # "virtual" => \A d \in Reached :
    /\ request.how.by = "serial" => (IF answer.via = "wpd" THEN d.wpdSerial ELSE d.serial) = "s1"
    /\ request.how.by = "location" =>
         \/ d.at = request.how.at
         \/ /\ answer.via = "wpd"
            /\ \A e \in Devices : e.at = request.how.at =>
                 /\ e.model = d.model
                 /\ d.serial = e.serial
                    \/ \A n \in WpdDevices : attached.usb[n].model = e.model => attached.usb[n] = d

(* A reset never reaches a device over anything but USB, and a virtual device of that serial
   or location shields the USB device that shares it. *)
ResetIsUsb ==
  request.call = "reset" /\ answer.is = "ok" =>
    /\ answer.via = "usb"
    /\ \/ request.how.by = "first"
       \/ \A n \in DOMAIN attached.virtuals : ~Asked(attached.virtuals[n])

(* A device that is listed, for what its descriptors say or because the caller knows it,
   opens if it has the endpoints of MTP, and its MTP interfaces do: on one with all of them. *)
InterfacesOf(d) == {d.interfaces[n] : n \in DOMAIN d.interfaces}

ListedOpens ==
  \A d \in Devices :
    /\ answer.is # "none" /\ request.how.at = d.at /\ request.backend = "usb" /\ d.driver = "usb"
    /\ \A i \in InterfacesOf(d) : i.class = "mtp" => i.layout
    /\ \/ MatchReason(d, {}) = "opened_descriptor_scan"
       \/ \E i \in InterfacesOf(d) : i.class = "mtp" /\ d.class = "composite"
       \/ d.model \in request.known /\ \E i \in InterfacesOf(d) : i.layout
    => answer.is = "ok" /\ d.interfaces[answer.interface].layout

(* open_with_timeout: "first looks for a strict MTP-class interface; if none is found, it
   falls back to any interface with the MTP endpoint layout". *)
PrefersMtpClass ==
  \A d \in Reached :
    /\ answer.is = "ok" /\ answer.via = "usb"
    /\ \E i \in InterfacesOf(d) : i.class = "mtp" /\ i.layout
    => d.interfaces[answer.interface].class = "mtp"

(* An open or a reset reaches the device that was asked for, by a way that can serve the
   request, and a device that a listing shows can be opened. *)
OpensWhatWasAsked == AskedIsReached /\ ResetIsUsb /\ ListedOpens
=============================================================================
