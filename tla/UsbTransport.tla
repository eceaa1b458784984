---------------------------- MODULE UsbTransport ----------------------------
(***************************************************************************)
(* NusbTransport (transport/nusb.rs) below the session: the transfers that *)
(* stay pending on an endpoint when the future that awaits them goes away, *)
(* the drains of a cancel and of a reset, the status poll, and the mutexes *)
(* of the endpoints.                                                       *)
(*                                                                         *)
(* The session, which holds its operation lock, is the one user of the     *)
(* bulk endpoints; next_event listens on the interrupt endpoint beside it. *)
(* Bulk IN reads are numbered in the order the device sends them, and so   *)
(* are events.  A step of the host runs from one await to the next.        *)
(***************************************************************************)
EXTENDS Naturals, Sequences, FiniteSets, SequencesExt

CONSTANTS
  Responses,    \* the reads that are a Response container
  MaxPackets,   \* bound: reads the device has to send
  MaxEvents,    \* bound: events it raises
  MaxPolls,     \* MAX_POLLS of the device status
  MaxHostCalls  \* bound: calls made of cancel, reset and drain

ASSUME TransportAssumption ==
  /\ MaxPackets \in Nat /\ MaxEvents \in Nat /\ MaxPolls \in Nat \ {0} /\ MaxHostCalls \in Nat
  /\ Responses \subseteq 1 .. MaxPackets

VARIABLES
  wire,      \* reads the device has sent, and how many of them transfers have brought
  events,    \* the same of the events it has raised
  bulkIn,    \* the transfer on bulk IN: [at, n, by]
  intrIn,    \* the one on interrupt IN
  intrLock,  \* who holds interrupt_in: "free", "host" or "listener"
  host,      \* where the session's call is
  calls,     \* cancels, resets and drains so far
  polls,     \* status polls of this cancel
  outcome,   \* how the last of these calls ended
  taken,     \* the reads receive_bulk returned
  thrown,    \* the reads a drain threw away
  listener,  \* where next_event is
  heard,     \* the events it returned
  swallowed  \* the events a cancel consumed

linkState == <<wire, events, bulkIn, intrIn>>
transportVars == <<linkState, intrLock, host, calls, polls, outcome, taken, thrown,
                   listener, heard, swallowed>>

(* No transfer; one that is pending; one that has completed with read or event n, or, for 0,
   with an error.  `by` is the call that submitted it. *)
NoTransfer == [at |-> "none", n |-> 0, by |-> "none"]
Pending(by) == [at |-> "pending", n |-> 0, by |-> by]
Completed(t, n) == [t EXCEPT !.at = "done", !.n = n]

NoneSent == [sent |-> 0, brought |-> 0]

TransportInit ==
  /\ wire = NoneSent /\ events = NoneSent /\ bulkIn = NoTransfer /\ intrIn = NoTransfer
  /\ intrLock = "free" /\ host = "idle" /\ calls = 0 /\ polls = 0 /\ outcome = "none"
  /\ taken = <<>> /\ thrown = {} /\ listener = "idle" /\ heard = <<>> /\ swallowed = {}
-----------------------------------------------------------------------------
(* The device and the USB stack. *)

(* What a completed transfer holds. *)
InHand == IF bulkIn.at = "done" /\ bulkIn.n > 0 THEN {bulkIn.n} ELSE {}
EventInHand == IF intrIn.at = "done" /\ intrIn.n > 0 THEN {intrIn.n} ELSE {}

(* The reads, or events, returned once a call returns what t completed with. *)
Returned(s, t) == IF t.n > 0 THEN Append(s, t.n) ELSE s

Underway(w) == w.brought < w.sent
Brought(w) == [w EXCEPT !.brought = @ + 1]

DeviceSendsRead ==
  /\ wire.sent < MaxPackets /\ wire' = [wire EXCEPT !.sent = @ + 1]
  /\ UNCHANGED <<events, bulkIn, intrIn>>

DeviceRaises ==
  /\ events.sent < MaxEvents /\ events' = [events EXCEPT !.sent = @ + 1]
  /\ UNCHANGED <<wire, bulkIn, intrIn>>

(* A pending transfer completes with what comes next, or fails. *)
BulkCompletes ==
  /\ bulkIn.at = "pending"
  /\ \/ Underway(wire) /\ wire' = Brought(wire) /\ bulkIn' = Completed(bulkIn, wire.brought + 1)
     \/ bulkIn' = Completed(bulkIn, 0) /\ UNCHANGED wire
  /\ UNCHANGED <<events, intrIn>>

IntrCompletes ==
  /\ intrIn.at = "pending"
  /\ \/ /\ Underway(events) /\ events' = Brought(events)
        /\ intrIn' = Completed(intrIn, events.brought + 1)
     \/ intrIn' = Completed(intrIn, 0) /\ UNCHANGED events
  /\ UNCHANGED <<wire, bulkIn>>

Environment ==
  /\ DeviceSendsRead \/ DeviceRaises \/ BulkCompletes \/ IntrCompletes
  /\ UNCHANGED <<intrLock, host, calls, polls, outcome, taken, thrown, listener, heard, swallowed>>

(* cancel_all, and the completions that follow: what they bring is thrown away. *)
CancelAll ==
  /\ bulkIn' = NoTransfer
  /\ \/ thrown' = thrown \cup InHand /\ UNCHANGED wire
     \/ /\ bulkIn.at = "pending" /\ Underway(wire) /\ wire' = Brought(wire)
        /\ thrown' = thrown \cup {wire'.brought}
-----------------------------------------------------------------------------
(* receive_bulk. *)

Listening == <<intrLock, listener, heard, swallowed, intrIn, events>>

(* A transfer is submitted if none is pending. *)
Submitted(t, by) == IF t.at = "none" THEN Pending(by) ELSE t

ReceiveStart ==
  /\ host = "idle" /\ host' = "receive"
  /\ bulkIn' = Submitted(bulkIn, "receive")
  /\ UNCHANGED <<wire, calls, polls, outcome, taken, thrown, Listening>>

(* clear_halt_if_stalled leaves the endpoint usable after an error. *)
ReceiveReturns ==
  /\ host = "receive" /\ bulkIn.at = "done" /\ host' = "idle"
  /\ bulkIn' = NoTransfer
  /\ taken' = Returned(taken, bulkIn)
  /\ UNCHANGED <<wire, calls, polls, outcome, thrown, Listening>>

(* Mutant: a read that times out is cancelled. *)
ReceiveGivesUpCancelling ==
  /\ host = "receive" /\ host' = "idle"
  /\ bulkIn' = NoTransfer
  /\ UNCHANGED <<wire, calls, polls, outcome, taken, thrown, Listening>>

(* The timeout fires, or the caller drops the future: the transfer stays. *)
ReceiveGivesUp ==
  /\ host = "receive" /\ host' = "idle"
  /\ UNCHANGED <<wire, bulkIn, calls, polls, outcome, taken, thrown, Listening>>
-----------------------------------------------------------------------------
(* cancel_transfer, drain_bulk_in and reset_device. *)

Ends(how) == host' = "idle" /\ outcome' = how

CallStart ==
  /\ host = "idle" /\ calls < MaxHostCalls /\ calls' = calls + 1
  /\ host' \in {"cancel", "drain_only", "reset"}
  /\ outcome' = "none" /\ polls' = 0
  /\ UNCHANGED <<wire, bulkIn, taken, thrown, Listening>>

(* Step 1: acted on, refused or skipped, the drain follows; any other failure ends the call. *)
ClassCancelSent ==
  /\ host = "cancel"
  /\ \/ host' = "drain" /\ UNCHANGED outcome
     \/ Ends("error")
  /\ UNCHANGED <<wire, bulkIn, calls, polls, taken, thrown, Listening>>

Draining == host \in {"drain", "drain_only", "reset_drain"}

DrainSubmits ==
  /\ Draining /\ bulkIn.at = "none"
  /\ bulkIn' = Pending("drain")
  /\ UNCHANGED <<wire, host, calls, polls, outcome, taken, thrown, Listening>>

(* Where the call goes when its drain has ended. *)
AfterDrain ==
  CASE host = "drain" -> host' = "interrupt" /\ UNCHANGED outcome
    [] host = "drain_only" -> Ends("ok")
    [] host = "reset_drain" /\ polls = 0 -> Ends("ok")
    [] host = "reset_drain" /\ polls > 0 -> Ends("device_reset")

(* A read is thrown away; a Response ends the drain of a cancel. *)
DrainReads ==
  /\ Draining /\ bulkIn.at = "done" /\ bulkIn.n > 0
  /\ thrown' = thrown \cup InHand /\ bulkIn' = NoTransfer
  /\ IF host = "drain" /\ bulkIn.n \in Responses THEN AfterDrain ELSE UNCHANGED <<host, outcome>>
  /\ UNCHANGED <<wire, calls, polls, taken, Listening>>

(* A failed read ends it too; the device is gone, or the drain counts as done. *)
DrainFails ==
  /\ Draining /\ bulkIn.at = "done" /\ bulkIn.n = 0
  /\ bulkIn' = NoTransfer
  /\ AfterDrain \/ (host # "reset_drain" /\ Ends("disconnected"))
  /\ UNCHANGED <<wire, calls, polls, taken, thrown, Listening>>

(* Mutant: the drain goes on and leaves its transfer to whoever reads next. *)
DrainIdlesPending ==
  /\ Draining /\ bulkIn.at = "pending"
  /\ AfterDrain
  /\ UNCHANGED <<wire, bulkIn, calls, polls, taken, thrown, Listening>>

(* Mutant: the idle timer starts with the first read. *)
DrainIdlesAfterData ==
  /\ Draining /\ bulkIn.at = "pending" /\ thrown # {}
  /\ CancelAll /\ AfterDrain
  /\ UNCHANGED <<calls, polls, taken, Listening>>

(* Nothing arrives for idle_timeout, or the deadline passes: the transfer is cancelled. *)
DrainIdles ==
  /\ Draining /\ bulkIn.at = "pending"
  /\ CancelAll /\ AfterDrain
  /\ UNCHANGED <<calls, polls, taken, Listening>>

(* Step 3 waits for the lock of the interrupt endpoint. *)
InterruptLocks ==
  /\ host = "interrupt" /\ intrLock = "free"
  /\ intrLock' = "host" /\ host' = "interrupt_wait"
  /\ intrIn' = Submitted(intrIn, "cancel")
  /\ UNCHANGED <<wire, events, bulkIn, calls, polls, outcome, taken, thrown, listener, heard, swallowed>>

(* Mutant: the events are drained until none comes. *)
InterruptDrainsAll ==
  /\ host = "interrupt_wait" /\ intrIn.at = "done"
  /\ swallowed' = swallowed \cup EventInHand
  /\ intrIn' = Pending("cancel")
  /\ UNCHANGED <<wire, events, bulkIn, intrLock, host, calls, polls, outcome, taken, thrown, listener, heard>>

(* One completion is consumed, the CancelTransaction event or whatever came first. *)
InterruptReads ==
  /\ host = "interrupt_wait" /\ intrIn.at = "done"
  /\ swallowed' = swallowed \cup EventInHand
  /\ intrIn' = NoTransfer /\ intrLock' = "free" /\ host' = "settle"
  /\ UNCHANGED <<wire, events, bulkIn, calls, polls, outcome, taken, thrown, listener, heard>>

InterruptIdles ==
  /\ host = "interrupt_wait" /\ intrIn.at = "pending"
  /\ \/ UNCHANGED <<events, swallowed>>
     \/ Underway(events) /\ events' = Brought(events) /\ swallowed' = swallowed \cup {events'.brought}
  /\ intrIn' = NoTransfer /\ intrLock' = "free" /\ host' = "settle"
  /\ UNCHANGED <<wire, bulkIn, calls, polls, outcome, taken, thrown, listener, heard>>

(* Mutant: a busy device is polled for ever. *)
SettlePollsOn ==
  /\ host = "settle" /\ polls' = polls + 1
  /\ UNCHANGED <<wire, bulkIn, host, calls, outcome, taken, thrown, Listening>>

(* Step 4.  A busy device is polled again, up to MAX_POLLS; halted endpoints are cleared,
   which throws away what is pending on them; a silent one is reset. *)
SettlePolls ==
  /\ host = "settle" /\ polls' = polls + 1
  /\ \/ polls' < MaxPolls /\ UNCHANGED <<host, outcome>>    \* Device_Busy
     \/ Ends("ok")                                          \* OK, refused, or busy to the end
     \/ host' = "reset" /\ UNCHANGED outcome                \* wedged
  /\ CancelAll \/ UNCHANGED <<wire, bulkIn, thrown>>
  /\ UNCHANGED <<calls, taken, Listening>>

(* DEVICE_RESET, alone or, when polls were made, at the end of a cancel.  A device too stuck
   for it fails the call.  Both bulk endpoints are cleared. *)
ResetSent ==
  /\ host = "reset"
  /\ \/ host' = "reset_drain" /\ CancelAll /\ UNCHANGED outcome
     \/ /\ Ends(IF polls > 0 THEN "device_reset" ELSE "error")
        /\ UNCHANGED <<wire, bulkIn, thrown>>
  /\ UNCHANGED <<calls, polls, taken, Listening>>

InCall == host \in {"cancel", "drain", "drain_only", "interrupt", "interrupt_wait", "settle",
                    "reset", "reset_drain"}

(* The caller drops the future at an await: locks go, transfers stay. *)
CallDropped ==
  /\ InCall
  /\ Ends("dropped")
  /\ intrLock' = IF intrLock = "host" THEN "free" ELSE intrLock
  /\ bulkIn' = IF bulkIn.by = "drain" THEN [bulkIn EXCEPT !.by = "dropped"] ELSE bulkIn
  /\ UNCHANGED <<wire, events, intrIn, calls, polls, taken, thrown, listener, heard, swallowed>>
-----------------------------------------------------------------------------
(* receive_interrupt, for next_event. *)

SessionState == <<wire, events, bulkIn, host, calls, polls, outcome, taken, thrown, swallowed>>

ListenStart ==
  /\ listener = "idle" /\ listener' = "locking"
  /\ UNCHANGED <<intrIn, intrLock, heard, SessionState>>

ListenLocks ==
  /\ listener = "locking" /\ intrLock = "free"
  /\ listener' = "waiting" /\ intrLock' = "listener"
  /\ intrIn' = Submitted(intrIn, "listener")
  /\ UNCHANGED <<heard, SessionState>>

ListenReturns ==
  /\ listener = "waiting" /\ intrIn.at = "done"
  /\ heard' = Returned(heard, intrIn)
  /\ intrIn' = NoTransfer /\ listener' = "idle" /\ intrLock' = "free"
  /\ UNCHANGED SessionState

(* The caller drops next_event, as with a timeout or a select. *)
ListenDropped ==
  /\ listener # "idle" /\ listener' = "idle"
  /\ intrLock' = IF intrLock = "listener" THEN "free" ELSE intrLock
  /\ UNCHANGED <<intrIn, heard, SessionState>>

(* What the executor and the timers do of themselves. *)
HostStep ==
  \/ ReceiveReturns
  \/ ClassCancelSent \/ DrainSubmits \/ DrainReads \/ DrainFails \/ DrainIdles
  \/ InterruptLocks \/ InterruptReads \/ InterruptIdles
  \/ SettlePolls \/ ResetSent

TransportNext ==
  \/ Environment
  \/ HostStep
  \/ ReceiveStart \/ ReceiveGivesUp \/ CallStart \/ CallDropped
  \/ ListenStart \/ ListenLocks \/ ListenReturns \/ ListenDropped

(* The session's task is polled and its timers fire.  The device owes no event, and nobody
   has to drop a future. *)
TransportSpec ==
  TransportInit /\ [][TransportNext]_transportVars /\ WF_transportVars(HostStep)
-----------------------------------------------------------------------------
(* The shape of the endpoints, and who holds which lock where. *)
TransportTypeOK ==
  /\ wire.brought \in 0 .. wire.sent /\ wire.sent \in 0 .. MaxPackets
  /\ events.brought \in 0 .. events.sent /\ events.sent \in 0 .. MaxEvents
  /\ bulkIn \in [at : {"none", "pending", "done"}, n : 0 .. wire.brought,
                 by : {"none", "receive", "drain", "dropped"}]
  /\ intrIn \in [at : {"none", "pending", "done"}, n : 0 .. events.brought,
                 by : {"none", "listener", "cancel"}]
  /\ intrLock = "host" <=> host = "interrupt_wait"
  /\ intrLock = "listener" <=> listener = "waiting"
  /\ host = "idle" \/ host = "receive" \/ InCall
  /\ polls \in 0 .. MaxPolls /\ calls \in 0 .. MaxHostCalls
  /\ outcome \in {"none", "ok", "error", "disconnected", "device_reset", "dropped"}

(* No read is lost, repeated or returned out of order, whichever futures were dropped or
   timed out: each one that a transfer brought was returned by receive_bulk, thrown away by
   a drain, or waits in the pending transfer for the next call. *)
ReadsAreKept ==
  /\ \A i, j \in DOMAIN taken : i < j => taken[i] < taken[j]
  /\ ToSet(taken) \cap thrown = {}
  /\ ToSet(taken) \cup thrown \cup InHand = 1 .. wire.brought

(* A receive never picks up a transfer that a drain submitted, with the size of one packet,
   unless that drain's caller left it. *)
NoDrainTransferLeft == host \in {"idle", "receive"} => bulkIn.by # "drain"

(* Events reach next_event in order however often it is dropped, and a cancel costs at most
   one of them. *)
EventsSurvive ==
  /\ \A i, j \in DOMAIN heard : i < j => heard[i] < heard[j]
  /\ Cardinality(swallowed) <= calls
  /\ ToSet(heard) \cup swallowed \cup EventInHand = 1 .. events.brought

(* A cancel, drain or reset ends in bounded time whatever the device does, unless a
   next_event holds the interrupt endpoint. *)
CallsEnd == InCall ~> ~InCall \/ listener = "waiting"

(* device.rs: "it is safe to call `next_event()` concurrently with other `MtpDevice` methods". *)
CallsEndBesideListener == InCall ~> ~InCall

(* What transfers bring is neither lost nor mixed up: reads and events come once, in order,
   to whoever asks next, and a drain leaves no transfer of its own behind. *)
TransfersAreKept == ReadsAreKept /\ NoDrainTransferLeft /\ EventsSurvive
=============================================================================
