------------------------------ MODULE Hotplug ------------------------------
(***************************************************************************)
(* DeviceWatch (mtp/hotplug.rs): a stream of arrivals and departures that  *)
(* enumerates the bus some time after each notification of the OS and      *)
(* reports the difference to what it last saw.  A device is known by its   *)
(* DeviceKey: the port it is on, and which device it is.                   *)
(***************************************************************************)
EXTENDS Naturals, Sequences, FiniteSets, SequencesExt

CONSTANTS
  Ports,        \* places on the bus
  Phones,       \* identities a device can have: vendor, product, serial
  MaxReplugs,   \* bound: plugs and unplugs
  MaxFailures   \* bound: enumerations that the OS fails

ASSUME HotplugAssumption ==
  /\ MaxReplugs \in Nat /\ MaxFailures \in Nat
  /\ IsFiniteSet(Ports) /\ IsFiniteSet(Phones)

VARIABLES
  plugged,    \* DeviceKeys on the bus
  readable,   \* those whose descriptors can be read
  notices,    \* notifications of the OS not yet taken
  known,      \* DeviceWatch::known
  pending,    \* DeviceWatch::pending
  settling,   \* a settle delay runs
  started,    \* the first poll has been
  seen,       \* the devices the consumer has been told of
  missed,     \* the last enumeration did not see all there was
  changes, failures

busVars == <<plugged, readable, notices, changes>>
hotplugVars == <<busVars, known, pending, settling, started, seen, missed, failures>>

DeviceKeys == [port : Ports, phone : Phones]

HotplugInit ==
  /\ plugged \in SUBSET DeviceKeys
  /\ \A k, l \in plugged : k.port = l.port => k = l
  /\ readable = plugged
  /\ notices = 0 /\ changes = 0 /\ failures = 0
  /\ known = {} /\ pending = <<>> /\ settling = FALSE /\ started = FALSE
  /\ seen = {} /\ missed = FALSE
-----------------------------------------------------------------------------
(* The bus and the OS. *)

Changed == changes < MaxReplugs /\ changes' = changes + 1 /\ notices' = notices + 1

Plug(k) ==
  /\ \A l \in plugged : l.port # k.port
  /\ Changed /\ plugged' = plugged \cup {k} /\ UNCHANGED readable

Unplug(k) ==
  /\ k \in plugged
  /\ Changed /\ plugged' = plugged \ {k} /\ readable' = readable \ {k}

DescriptorsReadable(k) ==
  /\ k \in plugged \ readable /\ readable' = readable \cup {k}
  /\ UNCHANGED <<plugged, notices, changes>>

Bus ==
  /\ \E k \in DeviceKeys : Plug(k) \/ Unplug(k) \/ DescriptorsReadable(k)
  /\ UNCHANGED <<known, pending, settling, started, seen, missed, failures>>
-----------------------------------------------------------------------------
Event(is, k) == [is |-> is, key |-> k]
EventsOf(is, keys) == {Event(is, k) : k \in keys}

(* Mutant: arrivals first. *)
DiffArrivalsFirst(current) ==
  {a \o l : a \in SetToSeqs(EventsOf("Arrived", current \ known)),
            l \in SetToSeqs(EventsOf("Left", known \ current))}

(* diff: what may be reported of the change from `known` to current, departures first, in
   any order of a hash map. *)
Diff(current) ==
  {r[1] \o r[2] : r \in SetToSeqs(EventsOf("Left", known \ current))
                        \X SetToSeqs(EventsOf("Arrived", current \ known))}

(* Mutant: a failed enumeration reads as an empty bus. *)
EnumerateFailsEmpty ==
  /\ failures < MaxFailures /\ failures' = failures + 1
  /\ missed' = TRUE
  /\ known' = {} /\ UNCHANGED pending

(* A failed enumeration keeps what was known. *)
EnumerateFails ==
  /\ failures < MaxFailures /\ failures' = failures + 1
  /\ missed' = TRUE
  /\ UNCHANGED <<known, pending>>

EnumerateSucceeds ==
  /\ \E es \in Diff(readable) : pending' = pending \o es
  /\ known' = readable
  /\ missed' = (readable # plugged)
  /\ UNCHANGED failures

Enumerate == EnumerateSucceeds \/ EnumerateFails

(* poll_next, up to where it returns or waits. *)

(* An event that has been found is handed out. *)
PollPending ==
  /\ pending # <<>>
  /\ pending' = Tail(pending)
  /\ LET e == Head(pending) IN
     seen' = IF e.is = "Arrived" THEN seen \cup {e.key} ELSE seen \ {e.key}
  /\ UNCHANGED <<busVars, known, settling, started, missed, failures>>

(* Mutant: the first poll waits for a notification. *)
PollFirstWaits ==
  /\ pending = <<>> /\ ~started /\ started' = TRUE
  /\ UNCHANGED <<busVars, known, pending, settling, seen, missed, failures>>

(* The first poll reports what is plugged in already. *)
PollFirst ==
  /\ pending = <<>> /\ ~started /\ started' = TRUE
  /\ Enumerate
  /\ UNCHANGED <<busVars, settling, seen>>

PollSettled ==
  /\ pending = <<>> /\ started /\ settling /\ settling' = FALSE
  /\ Enumerate
  /\ UNCHANGED <<busVars, started, seen>>

(* A notification only starts the settle delay. *)
PollUsb ==
  /\ pending = <<>> /\ started /\ ~settling /\ notices > 0
  /\ notices' = notices - 1 /\ settling' = TRUE
  /\ UNCHANGED <<plugged, readable, changes, known, pending, started, seen, missed, failures>>

Poll == PollPending \/ PollFirst \/ PollSettled \/ PollUsb

HotplugNext == Bus \/ Poll

(* The consumer keeps polling. *)
HotplugSpec == HotplugInit /\ [][HotplugNext]_hotplugVars /\ WF_hotplugVars(Poll)
-----------------------------------------------------------------------------
(* The consumer's picture, once the events found are handed out, is what the watch knows. *)
HotplugTypeOK ==
  /\ plugged \subseteq DeviceKeys /\ readable \subseteq plugged /\ known \subseteq DeviceKeys
  /\ settling => started
  /\ seen = (known \ {e.key : e \in {x \in ToSet(pending) : x.is = "Arrived"}})
            \cup {e.key : e \in {x \in ToSet(pending) : x.is = "Left"}}

(* A phone that takes another one's place, or comes back as another device, is a departure
   and then an arrival: the consumer never has two devices on one port. *)
OneDevicePerPort == \A k, l \in seen : k.port = l.port => k = l

(* When the bus is quiet the consumer's picture becomes the bus, unless the last enumeration
   failed or came before a device could be read. *)
CatchesUp == <>[](seen = plugged \/ missed)
=============================================================================
