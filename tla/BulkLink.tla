------------------------------ MODULE BulkLink ------------------------------
(***************************************************************************)
(* The device end of the two bulk pipes, as the session code meets it: a   *)
(* responder that takes commands in order, sends at most one data          *)
(* container and then one response for each, and may act on, refuse, or    *)
(* be wedged by a CLASS_CANCEL.  The device is not part of the repository; *)
(* what it may do is what the comments of nusb.rs and ptp/session/mod.rs   *)
(* report of real devices.                                                 *)
(*                                                                         *)
(* One packet of a pipe is what one bulk read or write moves.  A data      *)
(* container is a "Data" packet that announces more further reads, each a  *)
(* "Raw" packet without a header.  Every packet carries the transaction id *)
(* the protocol gives it and req, the number of the request it belongs to, *)
(* which no code can see and the properties are stated with.               *)
(***************************************************************************)
EXTENDS Integers, Sequences, SequencesExt

CONSTANT
  MaxMore     \* bound: a data container spans at most 1 + MaxMore bulk reads

ASSUME MaxMoreAssumption == MaxMore \in Nat

VARIABLES
  outPipe,    \* bulk OUT: commands and data containers the device has not taken
  pipe,       \* bulk IN: packets sent by the device and not read by the host
  emit,       \* packets of the reply in progress the device has still to send
  awaiting,   \* <<command>> while the device waits for its data phase, else <<>>
  wedged      \* the device went silent on every endpoint (#18)

linkVars == <<outPipe, pipe, emit, awaiting, wedged>>

DataKinds == {"receive", "stream"}
Kinds     == {"execute", "close", "send"} \cup DataKinds

Packet(type, o, more) ==
  [type |-> type, kind |-> o.kind, tx |-> o.tx, req |-> o.req, more |-> more]

Response(o) == Packet("Response", o, 0)

(* A complete reply: the data container, in 1 + n packets, and the response. *)
DataReply(o, n) ==
  <<Packet("Data", o, n)>> \o [i \in 1 .. n |-> Packet("Raw", o, 0)] \o <<Response(o)>>

LinkInit ==
  /\ outPipe = <<>> /\ pipe = <<>> /\ emit = <<>> /\ awaiting = <<>>
  /\ wedged = FALSE

(* Nothing more will come out of the device until the host sends something. *)
DeviceQuiet == wedged \/ (emit = <<>> /\ outPipe = <<>>)

(***************************************************************************)
(* The device takes the next packet of the OUT pipe.  While it waits for a *)
(* data phase, whatever arrives is taken for that data, a command of the   *)
(* next operation included; a data packet nobody waits for is discarded.   *)
(***************************************************************************)
TakesCommand(p) ==
  /\ p.type = "Command" /\ awaiting = <<>>
  /\ \/ p.kind \in DataKinds /\ \E n \in 0 .. MaxMore : emit' = DataReply(p, n)
     \/ p.kind # "send" /\ emit' = <<Response(p)>>
     \/ p.kind = "send" /\ emit' = <<>>
  /\ awaiting' = IF p.kind = "send" THEN <<p>> ELSE <<>>

TakesData(p) ==
  /\ awaiting # <<>>
  /\ IF p.type = "Data" /\ p.more > 0
     THEN UNCHANGED <<emit, awaiting>>
     ELSE emit' = <<Response(Head(awaiting))>> /\ awaiting' = <<>>

DiscardsData(p) ==
  /\ p.type # "Command" /\ awaiting = <<>>
  /\ UNCHANGED <<emit, awaiting>>

DeviceTakes ==
  /\ ~wedged /\ emit = <<>> /\ outPipe # <<>>
  /\ LET p == Head(outPipe)
     IN  TakesCommand(p) \/ TakesData(p) \/ DiscardsData(p)
  /\ outPipe' = Tail(outPipe)
  /\ UNCHANGED <<pipe, wedged>>

DeviceSends ==
  /\ ~wedged /\ emit # <<>>
  /\ pipe' = Append(pipe, Head(emit))
  /\ emit' = Tail(emit)
  /\ UNCHANGED <<outPipe, awaiting, wedged>>

(***************************************************************************)
(* The device acts on a CLASS_CANCEL: it gives up the transaction it       *)
(* serves, with or without a closing response, or goes silent.             *)
(***************************************************************************)
DeviceAborts ==
  /\ ~wedged
  /\ \/ /\ emit # <<>>
        /\ emit' \in {<<>>, <<Last(emit)>>}
        /\ UNCHANGED <<awaiting, wedged>>
     \/ /\ awaiting # <<>>
        /\ emit' \in {<<>>, <<Response(Head(awaiting))>>}
        /\ awaiting' = <<>>
        /\ UNCHANGED wedged
     \/ wedged' = TRUE /\ UNCHANGED <<emit, awaiting>>
  /\ UNCHANGED <<outPipe, pipe>>

(* A DEVICE_RESET the device obeys, with the drain that ends it. *)
DeviceResets ==
  /\ outPipe' = <<>> /\ pipe' = <<>> /\ emit' = <<>> /\ awaiting' = <<>>
  /\ wedged' = FALSE

DeviceNext == DeviceTakes \/ DeviceSends
=============================================================================
