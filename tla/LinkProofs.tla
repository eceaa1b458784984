----------------------------- MODULE LinkProofs -----------------------------
(***************************************************************************)
(* What goes on over one USB link, proved for every value of the           *)
(* constants: the transfers, the opens and the watch for devices.          *)
(*                                                                         *)
(* Transfers.  What they bring is kept, for any number of reads, events,   *)
(* polls and calls, and whichever Responses there are.  The invariant has  *)
(* three parts, and an action disturbs one or two of them: where the call  *)
(* is, which transfer it owns and what it has spent (ControlInv); the      *)
(* reads (ReadInv); the events (EventInv).  What makes the order of the    *)
(* reads inductive is that there is one transfer on the endpoint, so that  *)
(* what it holds is the newest read brought.                               *)
(*                                                                         *)
(* The watch.  The events still to be handed out are those between the     *)
(* consumer's picture (seen) and the watch's (known), each once,           *)
(* departures first.  That is what makes the picture of one device on each *)
(* port inductive: while departures are handed out it is part of the       *)
(* picture of before, and from the first arrival on part of the new one.   *)
(*                                                                         *)
(* Opens.  What can be in the pipe is told by where the process is: before *)
(* the first death (FirstLife) only replies to its own last command; after *)
(* it (AfterDeath) the reads a death can leave, and behind them the late   *)
(* replies to the OpenSessions of this attempt, fewer with each open that  *)
(* reads one.                                                              *)
(***************************************************************************)
EXTENDS MCLink, FiniteSetTheorems, TLAPS

(* The steps of a cancel before the event of its own that it may swallow. *)
BeforeEvent == {"cancel", "drain", "interrupt", "interrupt_wait"}

(* Who holds the lock of the interrupt endpoint, whose transfer is pending, and how many
   polls a call can have made where it is. *)
ControlInv ==
  /\ host = "idle" \/ host = "receive" \/ InCall
  /\ listener \in {"idle", "locking", "waiting"}
  /\ intrLock \in {"free", "host", "listener"}
  /\ intrLock = "host" <=> host = "interrupt_wait"
  /\ intrLock = "listener" <=> listener = "waiting"
  /\ polls \in 0 .. MaxPolls /\ calls \in 0 .. MaxHostCalls
  /\ host = "settle" => polls < MaxPolls
  /\ host \in BeforeEvent => polls = 0
  /\ outcome \in {"none", "ok", "error", "disconnected", "device_reset", "dropped"}
  /\ bulkIn.by = "drain" => Draining

(* A link on which no more than max were sent. *)
Wires(max) == {w \in [sent : Nat, brought : Nat] : w.brought <= w.sent /\ w.sent <= max}

Transfers(by) == [at : {"none", "pending", "done"}, n : Nat, by : by]

(* A transfer holds nothing until it completes, and then the newest of what w brought. *)
HoldsNewest(t, w) == (t.at # "done" => t.n = 0) /\ (t.n > 0 => t.n = w.brought)

Rising(s) == \A i, j \in DOMAIN s : i < j => s[i] < s[j]

ReadInv ==
  /\ wire \in Wires(MaxPackets)
  /\ bulkIn \in Transfers({"none", "receive", "drain", "dropped"})
  /\ HoldsNewest(bulkIn, wire)
  /\ taken \in Seq(Nat) /\ Rising(taken)
  /\ ToSet(taken) \cap thrown = {}
  /\ bulkIn.n > 0 => bulkIn.n \notin ToSet(taken) \cup thrown
  /\ ToSet(taken) \cup thrown \cup InHand = 1 .. wire.brought

EventInv ==
  /\ events \in Wires(MaxEvents)
  /\ intrIn \in Transfers({"none", "listener", "cancel"})
  /\ HoldsNewest(intrIn, events)
  /\ heard \in Seq(Nat) /\ Rising(heard)
  /\ intrIn.n > 0 => intrIn.n \notin ToSet(heard) \cup swallowed
  /\ ToSet(heard) \cup swallowed \cup EventInHand = 1 .. events.brought

(* A cancel swallows one event, and only after those of the calls before it. *)
CostInv ==
  /\ IsFiniteSet(swallowed)
  /\ Cardinality(swallowed) <= calls
  /\ host \in BeforeEvent => Cardinality(swallowed) < calls

TransportInv == ControlInv /\ ReadInv /\ EventInv /\ CostInv
-----------------------------------------------------------------------------
(* The sequences of what was returned. *)

LEMMA RangeOfAppend ==
  ASSUME NEW s \in Seq(Nat), NEW n \in Nat
  PROVE  Append(s, n) \in Seq(Nat) /\ ToSet(Append(s, n)) = ToSet(s) \cup {n}
<1>1. Append(s, n) \in Seq(Nat) /\ Len(Append(s, n)) = Len(s) + 1 /\ Len(s) \in Nat
      /\ DOMAIN s = 1 .. Len(s) /\ DOMAIN Append(s, n) = 1 .. Len(s) + 1
  OBVIOUS
<1>2. \A i \in 1 .. Len(s) : Append(s, n)[i] = s[i]
  OBVIOUS
<1>3. Append(s, n)[Len(s) + 1] = n
  OBVIOUS
<1>4. ASSUME NEW x \in ToSet(Append(s, n)) PROVE x \in ToSet(s) \cup {n}
  <2>1. PICK i \in 1 .. Len(s) + 1 : x = Append(s, n)[i]
    BY <1>1, <1>4 DEF ToSet
  <2>2. CASE i \in 1 .. Len(s)
    BY <1>1, <1>2, <2>1, <2>2 DEF ToSet
  <2>3. CASE i = Len(s) + 1
    BY <1>3, <2>1, <2>3
  <2> QED BY <1>1, <2>2, <2>3
<1>5. ASSUME NEW x \in ToSet(s) PROVE x \in ToSet(Append(s, n))
  <2>1. PICK i \in 1 .. Len(s) : x = s[i]
    BY <1>1, <1>5 DEF ToSet
  <2>2. i \in 1 .. Len(s) + 1
    BY <1>1
  <2> QED BY <1>1, <1>2, <2>1, <2>2 DEF ToSet
<1>6. n \in ToSet(Append(s, n))
  BY <1>1, <1>3 DEF ToSet
<1> QED BY <1>1, <1>4, <1>5, <1>6

(* What is newer than all that was returned is returned in its place. *)
LEMMA RisingAppend ==
  ASSUME NEW s \in Seq(Nat), NEW n \in Nat, Rising(s), \A x \in ToSet(s) : x < n
  PROVE  Rising(Append(s, n))
<1>1. Len(s) \in Nat /\ DOMAIN s = 1 .. Len(s) /\ DOMAIN Append(s, n) = 1 .. Len(s) + 1
  OBVIOUS
<1>2. \A i \in 1 .. Len(s) : Append(s, n)[i] = s[i] /\ s[i] \in Nat /\ s[i] < n
  BY <1>1 DEF ToSet
<1>3. Append(s, n)[Len(s) + 1] = n
  OBVIOUS
<1>4. SUFFICES ASSUME NEW i \in 1 .. Len(s) + 1, NEW j \in 1 .. Len(s) + 1, i < j
      PROVE  Append(s, n)[i] < Append(s, n)[j]
  BY <1>1 DEF Rising
<1>5. i \in 1 .. Len(s)
  BY <1>1, <1>4
<1>6. CASE j \in 1 .. Len(s)
  BY <1>1, <1>2, <1>4, <1>5, <1>6 DEF Rising
<1>7. CASE j = Len(s) + 1
  BY <1>2, <1>3, <1>5, <1>7
<1> QED BY <1>1, <1>6, <1>7

(* Returning what a completed transfer holds: the same of both endpoints. *)
LEMMA ReturnKeeps ==
  ASSUME NEW s \in Seq(Nat), NEW gone, NEW max \in Nat, NEW w \in Wires(max),
         NEW by, NEW t \in Transfers(by), HoldsNewest(t, w), Rising(s),
         t.n > 0 => t.n \notin ToSet(s) \cup gone,
         ToSet(s) \cup gone \cup (IF t.at = "done" /\ t.n > 0 THEN {t.n} ELSE {})
            = 1 .. w.brought
  PROVE  /\ Returned(s, t) \in Seq(Nat) /\ Rising(Returned(s, t))
         /\ ToSet(Returned(s, t)) \cup gone = 1 .. w.brought
         /\ ToSet(s) \cap gone = {} => ToSet(Returned(s, t)) \cap gone = {}
<1>1. t.n \in Nat /\ w.brought \in Nat
  BY DEF Transfers, Wires
<1>2. CASE t.n > 0
  <2>1. t.at = "done" /\ t.n = w.brought /\ Returned(s, t) = Append(s, t.n)
    BY <1>1, <1>2 DEF HoldsNewest, Returned
  <2>2. \A x \in ToSet(s) : x < t.n
    BY <1>1, <1>2, <2>1
  <2>3. Append(s, t.n) \in Seq(Nat) /\ ToSet(Append(s, t.n)) = ToSet(s) \cup {t.n}
    BY <1>1, RangeOfAppend
  <2>4. Rising(Append(s, t.n))
    BY <1>1, <2>2, RisingAppend
  <2> QED BY <1>2, <2>1, <2>3, <2>4
<1>3. CASE ~(t.n > 0)
  BY <1>3 DEF Returned
<1> QED BY <1>2, <1>3
-----------------------------------------------------------------------------
(* The reads. *)

(* ReadInv is about these, and so is the claim. *)
LEMMA ReadsStay ==
  ASSUME ReadInv, UNCHANGED <<wire, taken, thrown>>,
         bulkIn' \in Transfers({"none", "receive", "drain", "dropped"}),
         bulkIn'.at = bulkIn.at /\ bulkIn'.n = bulkIn.n
  PROVE  ReadInv'
BY DEF ReadInv, HoldsNewest, InHand

LEMMA ReadsSubmitted ==
  ASSUME ReadInv, UNCHANGED <<wire, taken, thrown>>, bulkIn.at = "none",
         NEW by \in {"receive", "drain"}, bulkIn' = Pending(by)
  PROVE  ReadInv'
<1>1. bulkIn' \in Transfers({"none", "receive", "drain", "dropped"})
  BY DEF Pending, Transfers
<1> QED BY <1>1 DEF ReadInv, HoldsNewest, InHand, Pending

(* The device sends one more. *)
LEMMA OneMoreSent ==
  ASSUME NEW max \in Nat, NEW w \in Wires(max), w.sent < max
  PROVE  LET m == [w EXCEPT !.sent = @ + 1] IN m \in Wires(max) /\ m.brought = w.brought
BY DEF Wires

LEMMA ReadsSent ==
  ASSUME ReadInv, DeviceSendsRead, UNCHANGED <<taken, thrown>>
  PROVE  ReadInv'
<1>1. wire' \in Wires(MaxPackets) /\ wire'.brought = wire.brought
  BY OneMoreSent, TransportAssumption DEF ReadInv, DeviceSendsRead
<1> QED BY <1>1 DEF ReadInv, HoldsNewest, InHand, DeviceSendsRead

(* What is underway comes next. *)
LEMMA NextBrought ==
  ASSUME NEW max, NEW w \in Wires(max), Underway(w)
  PROVE  /\ Brought(w) \in Wires(max) /\ Brought(w).brought = w.brought + 1
         /\ 1 .. w.brought + 1 = (1 .. w.brought) \cup {w.brought + 1}
         /\ w.brought + 1 \notin 1 .. w.brought /\ w.brought + 1 \in Nat \ {0}
BY DEF Wires, Underway, Brought

LEMMA ReadsComplete ==
  ASSUME ReadInv, BulkCompletes, UNCHANGED <<taken, thrown>>
  PROVE  ReadInv'
<1> USE DEF ReadInv
<1>1. bulkIn.n = 0 /\ InHand = {} /\ bulkIn.at = "pending"
  BY DEF BulkCompletes, HoldsNewest, InHand
<1>2. CASE Underway(wire) /\ wire' = Brought(wire) /\ bulkIn' = Completed(bulkIn, wire.brought + 1)
  <2>1. /\ wire' \in Wires(MaxPackets) /\ wire'.brought = wire.brought + 1
        /\ 1 .. wire'.brought = (1 .. wire.brought) \cup {wire.brought + 1}
        /\ wire.brought + 1 \notin 1 .. wire.brought /\ wire.brought + 1 \in Nat \ {0}
    BY <1>2, NextBrought
  <2>2. /\ bulkIn' \in Transfers({"none", "receive", "drain", "dropped"})
        /\ bulkIn'.at = "done" /\ bulkIn'.n = wire.brought + 1
    BY <1>2, <2>1 DEF Completed, Transfers
  <2>3. InHand' = {wire.brought + 1}
    BY <2>1, <2>2 DEF InHand
  <2>4. ToSet(taken) \cup thrown = 1 .. wire.brought
    BY <1>1
  <2> QED BY <2>1, <2>2, <2>3, <2>4 DEF HoldsNewest
<1>3. CASE bulkIn' = Completed(bulkIn, 0) /\ UNCHANGED wire
  <2>1. /\ bulkIn' \in Transfers({"none", "receive", "drain", "dropped"})
        /\ bulkIn'.at = "done" /\ bulkIn'.n = 0
    BY <1>3 DEF Completed, Transfers
  <2> QED BY <1>1, <1>3, <2>1 DEF HoldsNewest, InHand
<1> QED BY <1>2, <1>3 DEF BulkCompletes

LEMMA EmptyTransfer ==
  ASSUME NEW by, "none" \in by
  PROVE  NoTransfer \in Transfers(by) /\ NoTransfer.at = "none" /\ NoTransfer.n = 0
BY DEF NoTransfer, Transfers

(* What a completed transfer holds is thrown away. *)
LEMMA ReadsThrown ==
  ASSUME ReadInv, UNCHANGED <<wire, taken>>, bulkIn' = NoTransfer, thrown' = thrown \cup InHand
  PROVE  ReadInv'
<1> USE DEF ReadInv
<1>1. /\ bulkIn' \in Transfers({"none", "receive", "drain", "dropped"})
      /\ bulkIn'.at = "none" /\ bulkIn'.n = 0
  BY EmptyTransfer
<1>2. InHand' = {}
  BY <1>1 DEF InHand
<1>3. ToSet(taken) \cap InHand = {}
  BY DEF InHand
<1> QED BY <1>1, <1>2, <1>3 DEF HoldsNewest

LEMMA ReadsCancelled ==
  ASSUME ReadInv, CancelAll, UNCHANGED taken
  PROVE  ReadInv'
<1> USE DEF ReadInv
<1>1. CASE thrown' = thrown \cup InHand /\ UNCHANGED wire
  BY <1>1, ReadsThrown DEF CancelAll
<1>2. CASE /\ bulkIn.at = "pending" /\ Underway(wire) /\ wire' = Brought(wire)
           /\ thrown' = thrown \cup {wire'.brought}
  <2>1. /\ bulkIn' \in Transfers({"none", "receive", "drain", "dropped"})
        /\ bulkIn'.at = "none" /\ bulkIn'.n = 0
    BY EmptyTransfer DEF CancelAll
  <2>2. InHand' = {} /\ InHand = {}
    BY <1>2, <2>1 DEF InHand
  <2>3. /\ wire' \in Wires(MaxPackets) /\ wire'.brought = wire.brought + 1
        /\ 1 .. wire'.brought = (1 .. wire.brought) \cup {wire.brought + 1}
        /\ wire.brought + 1 \notin 1 .. wire.brought
    BY <1>2, NextBrought
  <2> QED BY <1>2, <2>1, <2>2, <2>3 DEF HoldsNewest
<1> QED BY <1>1, <1>2 DEF CancelAll

LEMMA ReadsReturned ==
  ASSUME ReadInv, ReceiveReturns
  PROVE  ReadInv'
<1> USE DEF ReadInv
<1>1. /\ bulkIn' \in Transfers({"none", "receive", "drain", "dropped"})
      /\ bulkIn'.at = "none" /\ bulkIn'.n = 0
  BY EmptyTransfer DEF ReceiveReturns
<1>2. InHand' = {}
  BY <1>1 DEF InHand
<1>3. /\ Returned(taken, bulkIn) \in Seq(Nat) /\ Rising(Returned(taken, bulkIn))
      /\ ToSet(Returned(taken, bulkIn)) \cup thrown = 1 .. wire.brought
      /\ ToSet(Returned(taken, bulkIn)) \cap thrown = {}
  BY ReturnKeeps, TransportAssumption DEF InHand
<1> QED BY <1>1, <1>2, <1>3 DEF ReceiveReturns, HoldsNewest
-----------------------------------------------------------------------------
(* The events. *)

LEMMA EventsStay ==
  ASSUME EventInv, UNCHANGED <<events, intrIn, heard, swallowed>>
  PROVE  EventInv'
BY DEF EventInv, HoldsNewest, EventInHand

LEMMA EventsSubmitted ==
  ASSUME EventInv, UNCHANGED <<events, heard, swallowed>>,
         NEW by \in {"listener", "cancel"}, intrIn' = Submitted(intrIn, by)
  PROVE  EventInv'
<1>1. CASE intrIn.at = "none"
  <2>1. intrIn' = Pending(by)
    BY <1>1 DEF Submitted
  <2>2. intrIn' \in Transfers({"none", "listener", "cancel"})
    BY <2>1 DEF Pending, Transfers
  <2> QED BY <1>1, <2>1, <2>2 DEF EventInv, HoldsNewest, EventInHand, Pending
<1>2. CASE intrIn.at # "none"
  BY <1>2, EventsStay DEF Submitted
<1> QED BY <1>1, <1>2

LEMMA EventsRaised ==
  ASSUME EventInv, DeviceRaises, UNCHANGED <<heard, swallowed>>
  PROVE  EventInv'
<1>1. events' \in Wires(MaxEvents) /\ events'.brought = events.brought
  BY OneMoreSent, TransportAssumption DEF EventInv, DeviceRaises
<1> QED BY <1>1 DEF EventInv, HoldsNewest, EventInHand, DeviceRaises

LEMMA EventsComplete ==
  ASSUME EventInv, IntrCompletes, UNCHANGED <<heard, swallowed>>
  PROVE  EventInv'
<1> USE DEF EventInv
<1>1. intrIn.n = 0 /\ EventInHand = {} /\ intrIn.at = "pending"
  BY DEF IntrCompletes, HoldsNewest, EventInHand
<1>2. CASE /\ Underway(events) /\ events' = Brought(events)
           /\ intrIn' = Completed(intrIn, events.brought + 1)
  <2>1. /\ events' \in Wires(MaxEvents) /\ events'.brought = events.brought + 1
        /\ 1 .. events'.brought = (1 .. events.brought) \cup {events.brought + 1}
        /\ events.brought + 1 \notin 1 .. events.brought /\ events.brought + 1 \in Nat \ {0}
    BY <1>2, NextBrought
  <2>2. /\ intrIn' \in Transfers({"none", "listener", "cancel"})
        /\ intrIn'.at = "done" /\ intrIn'.n = events.brought + 1
    BY <1>2, <2>1 DEF Completed, Transfers
  <2>3. EventInHand' = {events.brought + 1}
    BY <2>1, <2>2 DEF EventInHand
  <2>4. ToSet(heard) \cup swallowed = 1 .. events.brought
    BY <1>1
  <2> QED BY <2>1, <2>2, <2>3, <2>4 DEF HoldsNewest
<1>3. CASE intrIn' = Completed(intrIn, 0) /\ UNCHANGED events
  <2>1. /\ intrIn' \in Transfers({"none", "listener", "cancel"})
        /\ intrIn'.at = "done" /\ intrIn'.n = 0
    BY <1>3 DEF Completed, Transfers
  <2> QED BY <1>1, <1>3, <2>1 DEF HoldsNewest, EventInHand
<1> QED BY <1>2, <1>3 DEF IntrCompletes

(* A cancel consumes what its transfer holds, or brings while it is cancelled. *)
LEMMA EventsSwallowed ==
  ASSUME EventInv, UNCHANGED heard, intrIn' = NoTransfer,
         \/ swallowed' = swallowed \cup EventInHand /\ UNCHANGED events
         \/ /\ intrIn.at = "pending" /\ Underway(events) /\ events' = Brought(events)
            /\ swallowed' = swallowed \cup {events'.brought}
  PROVE  EventInv'
<1> USE DEF EventInv
<1>1. /\ intrIn' \in Transfers({"none", "listener", "cancel"})
      /\ intrIn'.at = "none" /\ intrIn'.n = 0 /\ EventInHand' = {}
  BY EmptyTransfer DEF EventInHand
<1>2. CASE swallowed' = swallowed \cup EventInHand /\ UNCHANGED events
  BY <1>1, <1>2 DEF HoldsNewest
<1>3. CASE /\ intrIn.at = "pending" /\ Underway(events) /\ events' = Brought(events)
           /\ swallowed' = swallowed \cup {events'.brought}
  <2>1. /\ events' \in Wires(MaxEvents) /\ events'.brought = events.brought + 1
        /\ 1 .. events'.brought = (1 .. events.brought) \cup {events.brought + 1}
    BY <1>3, NextBrought
  <2>2. EventInHand = {}
    BY <1>3 DEF EventInHand
  <2> QED BY <1>1, <1>3, <2>1, <2>2 DEF HoldsNewest
<1> QED BY <1>2, <1>3

LEMMA EventsReturned ==
  ASSUME EventInv, ListenReturns
  PROVE  EventInv'
<1> USE DEF EventInv
<1>1. /\ intrIn' \in Transfers({"none", "listener", "cancel"})
      /\ intrIn'.at = "none" /\ intrIn'.n = 0 /\ EventInHand' = {}
  BY EmptyTransfer DEF ListenReturns, EventInHand
<1>2. /\ Returned(heard, intrIn) \in Seq(Nat) /\ Rising(Returned(heard, intrIn))
      /\ ToSet(Returned(heard, intrIn)) \cup swallowed = 1 .. events.brought
  BY ReturnKeeps, TransportAssumption DEF EventInHand
<1> QED BY <1>1, <1>2 DEF ListenReturns, SessionState, HoldsNewest
-----------------------------------------------------------------------------
(* What the calls cost. *)

LEMMA CostStays ==
  ASSUME ControlInv, CostInv, UNCHANGED swallowed,
         \/ UNCHANGED calls /\ (host' \in BeforeEvent => host \in BeforeEvent)
         \/ calls' = calls + 1
  PROVE  CostInv'
<1>1. calls \in Nat /\ Cardinality(swallowed) \in Nat
  BY FS_CardinalityType, TransportAssumption DEF ControlInv, CostInv
<1> QED BY <1>1 DEF CostInv

LEMMA CostPaid ==
  ASSUME ControlInv, CostInv, host = "interrupt_wait", host' = "settle", UNCHANGED calls,
         \/ UNCHANGED swallowed
         \/ \E n : swallowed' = swallowed \cup {n}
  PROVE  CostInv'
<1>1. calls \in Nat /\ Cardinality(swallowed) \in Nat /\ Cardinality(swallowed) < calls
  BY FS_CardinalityType, TransportAssumption DEF ControlInv, CostInv, BeforeEvent
<1>2. IsFiniteSet(swallowed') /\ Cardinality(swallowed') <= Cardinality(swallowed) + 1
  <2>1. CASE UNCHANGED swallowed
    BY <1>1, <2>1 DEF CostInv
  <2>2. CASE \E n : swallowed' = swallowed \cup {n}
    BY <1>1, <2>2, FS_AddElement DEF CostInv
  <2> QED BY <2>1, <2>2
<1>3. Cardinality(swallowed') \in Nat
  BY <1>2, FS_CardinalityType
<1> QED BY <1>1, <1>2, <1>3 DEF CostInv, BeforeEvent
-----------------------------------------------------------------------------
(* The steps, one for each action. *)

LEMMA EnvironmentKeeps ==
  ASSUME TransportInv, Environment
  PROVE  TransportInv'
<1> USE DEF TransportInv
<1>1. CostInv'
  BY CostStays DEF Environment
<1>2. bulkIn'.by = bulkIn.by
  BY DEF Environment, DeviceSendsRead, DeviceRaises, BulkCompletes, IntrCompletes, Completed,
         ReadInv, Transfers
<1>3. ControlInv'
  BY <1>2 DEF Environment, ControlInv, InCall, Draining
<1>4. CASE DeviceSendsRead
  BY <1>1, <1>3, <1>4, ReadsSent, EventsStay DEF Environment, DeviceSendsRead
<1>5. CASE DeviceRaises
  BY <1>1, <1>3, <1>5, ReadsStay, EventsRaised DEF Environment, DeviceRaises, ReadInv
<1>6. CASE BulkCompletes
  BY <1>1, <1>3, <1>6, ReadsComplete, EventsStay DEF Environment, BulkCompletes
<1>7. CASE IntrCompletes
  BY <1>1, <1>3, <1>7, ReadsStay, EventsComplete DEF Environment, IntrCompletes, ReadInv
<1> QED BY <1>4, <1>5, <1>6, <1>7 DEF Environment

LEMMA ReceiveKeeps ==
  ASSUME TransportInv, ReceiveStart \/ ReceiveReturns \/ ReceiveGivesUp
  PROVE  TransportInv'
<1> USE DEF TransportInv
<1>1. CASE ReceiveStart
  <2>1. ReadInv'
    <3>1. CASE bulkIn.at = "none"
      BY <1>1, <3>1, ReadsSubmitted DEF ReceiveStart, Submitted
    <3>2. CASE bulkIn.at # "none"
      BY <1>1, <3>2, ReadsStay DEF ReceiveStart, Submitted, ReadInv
    <3> QED BY <3>1, <3>2
  <2>2. ControlInv'
    BY <1>1 DEF ControlInv, ReceiveStart, Submitted, Pending, Listening, InCall, Draining, BeforeEvent
  <2>3. EventInv' /\ CostInv'
    BY <1>1, EventsStay, CostStays DEF ReceiveStart, Listening, BeforeEvent
  <2> QED BY <2>1, <2>2, <2>3
<1>2. CASE ReceiveReturns
  <2>1. ControlInv'
    BY <1>2 DEF ControlInv, ReceiveReturns, NoTransfer, Listening, InCall, Draining, BeforeEvent
  <2>2. EventInv' /\ CostInv'
    BY <1>2, EventsStay, CostStays DEF ReceiveReturns, Listening, BeforeEvent
  <2> QED BY <1>2, <2>1, <2>2, ReadsReturned
<1>3. CASE ReceiveGivesUp
  <2>1. ControlInv'
    BY <1>3 DEF ControlInv, ReceiveGivesUp, Listening, InCall, Draining, BeforeEvent
  <2>2. EventInv' /\ CostInv' /\ ReadInv'
    BY <1>3, EventsStay, CostStays, ReadsStay DEF ReceiveGivesUp, Listening, BeforeEvent, ReadInv
  <2> QED BY <2>1, <2>2
<1> QED BY <1>1, <1>2, <1>3

LEMMA CallKeeps ==
  ASSUME TransportInv, CallStart \/ ClassCancelSent \/ CallDropped
  PROVE  TransportInv'
<1> USE DEF TransportInv
<1>1. CASE CallStart
  <2>1. ControlInv'
    BY <1>1, TransportAssumption
    DEF ControlInv, CallStart, Listening, InCall, Draining, BeforeEvent
  <2>2. EventInv' /\ CostInv' /\ ReadInv'
    BY <1>1, EventsStay, CostStays, ReadsStay DEF CallStart, Listening, ReadInv
  <2> QED BY <2>1, <2>2
<1>2. CASE ClassCancelSent
  <2>1. ControlInv'
    BY <1>2 DEF ControlInv, ClassCancelSent, Ends, Listening, InCall, Draining, BeforeEvent
  <2>2. EventInv' /\ CostInv' /\ ReadInv'
    BY <1>2, EventsStay, CostStays, ReadsStay
    DEF ClassCancelSent, Listening, Ends, BeforeEvent, ReadInv
  <2> QED BY <2>1, <2>2
<1>3. CASE CallDropped
  <2>1. /\ bulkIn' \in Transfers({"none", "receive", "drain", "dropped"})
        /\ bulkIn'.at = bulkIn.at /\ bulkIn'.n = bulkIn.n /\ bulkIn'.by # "drain"
    BY <1>3 DEF CallDropped, ReadInv, Transfers
  <2>2. ControlInv'
    BY <1>3, <2>1 DEF ControlInv, CallDropped, Ends, InCall, Draining, BeforeEvent
  <2>3. EventInv' /\ CostInv' /\ ReadInv'
    BY <1>3, <2>1, EventsStay, CostStays, ReadsStay DEF CallDropped, Ends, BeforeEvent
  <2> QED BY <2>2, <2>3
<1> QED BY <1>1, <1>2, <1>3

(* Where a drain ends: at the interrupt endpoint, or back with the caller. *)
LEMMA AfterDrainLeads ==
  ASSUME ControlInv, Draining, AfterDrain
  PROVE  \/ host = "drain" /\ host' = "interrupt" /\ UNCHANGED outcome
         \/ host' = "idle" /\ outcome' \in {"ok", "device_reset"}
<1>1. CASE host = "drain"
  BY <1>1 DEF AfterDrain
<1>2. CASE host = "drain_only"
  BY <1>2 DEF AfterDrain, Ends
<1>3. CASE host = "reset_drain"
  <2>1. polls \in Nat
    BY TransportAssumption DEF ControlInv
  <2>2. CASE polls = 0
    BY <1>3, <2>2 DEF AfterDrain, Ends
  <2>3. CASE polls > 0
    BY <1>3, <2>1, <2>3 DEF AfterDrain, Ends
  <2> QED BY <2>1, <2>2, <2>3
<1> QED BY <1>1, <1>2, <1>3 DEF Draining

(* A step of a drain leaves no transfer of its own behind where it ends. *)
LEMMA DrainControl ==
  ASSUME ControlInv, CostInv, Draining, UNCHANGED <<calls, polls, Listening>>,
         \/ UNCHANGED <<host, outcome>>
         \/ bulkIn' = NoTransfer /\ AfterDrain
         \/ bulkIn' = NoTransfer /\ Ends("disconnected")
  PROVE  ControlInv' /\ CostInv'
<1>1. host \in {"drain", "drain_only", "reset_drain"}
  BY DEF Draining
<1>2. \/ UNCHANGED <<host, outcome>>
      \/ host = "drain" /\ bulkIn'.by = "none" /\ host' = "interrupt" /\ UNCHANGED outcome
      \/ /\ host' = "idle" /\ bulkIn'.by = "none"
         /\ outcome' \in {"ok", "device_reset", "disconnected"}
  BY AfterDrainLeads DEF NoTransfer, Ends
<1>3. ControlInv'
  BY <1>1, <1>2 DEF ControlInv, Listening, InCall, Draining, BeforeEvent
<1>4. CostInv'
  BY <1>1, <1>2, CostStays DEF Listening, BeforeEvent
<1> QED BY <1>3, <1>4

LEMMA DrainKeeps ==
  ASSUME TransportInv, DrainSubmits \/ DrainReads \/ DrainFails \/ DrainIdles
  PROVE  TransportInv'
<1> USE DEF TransportInv
<1>1. EventInv'
  BY EventsStay DEF DrainSubmits, DrainReads, DrainFails, DrainIdles, Listening
<1>2. CASE DrainSubmits
  <2>1. ReadInv'
    BY <1>2, ReadsSubmitted DEF DrainSubmits
  <2>2. ControlInv' /\ CostInv'
    BY <1>2, DrainControl DEF DrainSubmits
  <2> QED BY <1>1, <2>1, <2>2
<1>3. CASE DrainReads
  <2>1. ReadInv'
    BY <1>3, ReadsThrown DEF DrainReads
  <2>2. ControlInv' /\ CostInv'
    BY <1>3, DrainControl DEF DrainReads
  <2> QED BY <1>1, <2>1, <2>2
<1>4. CASE DrainFails
  <2>1. InHand = {}
    BY <1>4 DEF DrainFails, InHand
  <2>2. ReadInv'
    BY <1>4, <2>1, ReadsThrown DEF DrainFails
  <2>3. ControlInv' /\ CostInv'
    BY <1>4, DrainControl DEF DrainFails
  <2> QED BY <1>1, <2>2, <2>3
<1>5. CASE DrainIdles
  <2>1. ReadInv'
    BY <1>5, ReadsCancelled DEF DrainIdles
  <2>2. ControlInv' /\ CostInv'
    BY <1>5, DrainControl DEF DrainIdles, CancelAll
  <2> QED BY <1>1, <2>1, <2>2
<1> QED BY <1>2, <1>3, <1>4, <1>5

LEMMA InterruptKeeps ==
  ASSUME TransportInv, InterruptLocks \/ InterruptReads \/ InterruptIdles
  PROVE  TransportInv'
<1> USE DEF TransportInv
<1>1. ReadInv'
  BY ReadsStay DEF InterruptLocks, InterruptReads, InterruptIdles, ReadInv
<1>2. CASE InterruptLocks
  <2>1. ControlInv'
    BY <1>2 DEF ControlInv, InterruptLocks, InCall, Draining, BeforeEvent
  <2>2. EventInv' /\ CostInv'
    BY <1>2, EventsSubmitted, CostStays DEF InterruptLocks, BeforeEvent
  <2> QED BY <1>1, <2>1, <2>2
<1>3. CASE InterruptReads
  <2>1. ControlInv'
    BY <1>3, TransportAssumption DEF ControlInv, InterruptReads, InCall, Draining, BeforeEvent
  <2>2. UNCHANGED swallowed \/ \E n : swallowed' = swallowed \cup {n}
    BY <1>3 DEF InterruptReads, EventInHand
  <2>3. EventInv' /\ CostInv'
    BY <1>3, <2>2, EventsSwallowed, CostPaid DEF InterruptReads
  <2> QED BY <1>1, <2>1, <2>3
<1>4. CASE InterruptIdles
  <2>1. ControlInv'
    BY <1>4, TransportAssumption DEF ControlInv, InterruptIdles, InCall, Draining, BeforeEvent
  <2>2. EventInHand = {}
    BY <1>4 DEF InterruptIdles, EventInHand
  <2>3. UNCHANGED swallowed \/ \E n : swallowed' = swallowed \cup {n}
    BY <1>4 DEF InterruptIdles
  <2>4. EventInv' /\ CostInv'
    BY <1>4, <2>2, <2>3, EventsSwallowed, CostPaid DEF InterruptIdles
  <2> QED BY <1>1, <2>1, <2>4
<1> QED BY <1>2, <1>3, <1>4

LEMMA ResetKeeps ==
  ASSUME TransportInv, SettlePolls \/ ResetSent
  PROVE  TransportInv'
<1> USE DEF TransportInv
<1>1. EventInv'
  BY EventsStay DEF SettlePolls, ResetSent, Listening
<1>2. ReadInv'
  <2>1. (CancelAll /\ UNCHANGED taken) \/ UNCHANGED <<wire, bulkIn, thrown, taken>>
    BY DEF SettlePolls, ResetSent
  <2> QED BY <2>1, ReadsCancelled, ReadsStay DEF ReadInv
<1>3. bulkIn' = NoTransfer \/ UNCHANGED bulkIn
  BY DEF SettlePolls, ResetSent, CancelAll
<1>4. CASE SettlePolls
  <2>1. ControlInv'
    BY <1>3, <1>4, TransportAssumption
    DEF ControlInv, SettlePolls, Ends, NoTransfer, Listening, InCall, Draining, BeforeEvent
  <2>2. CostInv'
    BY <1>4, CostStays DEF SettlePolls, Ends, Listening, BeforeEvent
  <2> QED BY <1>1, <1>2, <2>1, <2>2
<1>5. CASE ResetSent
  <2>1. ControlInv'
    BY <1>3, <1>5
    DEF ControlInv, ResetSent, Ends, NoTransfer, Listening, InCall, Draining, BeforeEvent
  <2>2. CostInv'
    BY <1>5, CostStays DEF ResetSent, Ends, Listening, BeforeEvent
  <2> QED BY <1>1, <1>2, <2>1, <2>2
<1> QED BY <1>4, <1>5

LEMMA ListenKeeps ==
  ASSUME TransportInv, ListenStart \/ ListenLocks \/ ListenReturns \/ ListenDropped
  PROVE  TransportInv'
<1> USE DEF TransportInv
<1>1. ReadInv'
  BY ReadsStay DEF ListenStart, ListenLocks, ListenReturns, ListenDropped, SessionState, ReadInv
<1>2. CostInv'
  BY CostStays DEF ListenStart, ListenLocks, ListenReturns, ListenDropped, SessionState
<1>3. ControlInv'
  BY DEF ListenStart, ListenLocks, ListenReturns, ListenDropped, SessionState, ControlInv,
         InCall, Draining
<1>4. EventInv'
  <2>1. CASE ListenStart \/ ListenDropped
    BY <2>1, EventsStay DEF ListenStart, ListenDropped, SessionState
  <2>2. CASE ListenLocks
    BY <2>2, EventsSubmitted DEF ListenLocks, SessionState
  <2>3. CASE ListenReturns
    BY <2>3, EventsReturned
  <2> QED BY <2>1, <2>2, <2>3
<1> QED BY <1>1, <1>2, <1>3, <1>4
-----------------------------------------------------------------------------
LEMMA TransportStarts ==
  ASSUME TransportInit
  PROVE  TransportInv
<1> USE DEF TransportInit
<1>1. ControlInv
  BY TransportAssumption DEF ControlInv, InCall, Draining, BeforeEvent, NoTransfer
<1>2. wire \in Wires(MaxPackets) /\ events \in Wires(MaxEvents)
  BY TransportAssumption DEF Wires, NoneSent
<1>3. 1 .. wire.brought = {} /\ 1 .. events.brought = {}
  BY DEF NoneSent
<1>4. /\ bulkIn \in Transfers({"none", "receive", "drain", "dropped"})
      /\ intrIn \in Transfers({"none", "listener", "cancel"})
      /\ bulkIn.at = "none" /\ bulkIn.n = 0 /\ intrIn.at = "none" /\ intrIn.n = 0
  BY EmptyTransfer
<1>5. /\ taken \in Seq(Nat) /\ heard \in Seq(Nat)
      /\ ToSet(taken) = {} /\ ToSet(heard) = {} /\ Rising(taken) /\ Rising(heard)
  BY DEF ToSet, Rising
<1>6. InHand = {} /\ EventInHand = {} /\ thrown = {} /\ swallowed = {}
  BY <1>4 DEF InHand, EventInHand
<1>7. CostInv
  BY FS_EmptySet DEF CostInv, BeforeEvent
<1> HIDE DEF TransportInit
<1>8. ReadInv
  BY <1>2, <1>3, <1>4, <1>5, <1>6 DEF ReadInv, HoldsNewest
<1>9. EventInv
  BY <1>2, <1>3, <1>4, <1>5, <1>6 DEF EventInv, HoldsNewest
<1> QED BY <1>1, <1>7, <1>8, <1>9 DEF TransportInv

LEMMA TransportSteps ==
  ASSUME TransportInv, [TransportNext]_transportVars
  PROVE  TransportInv'
<1>1. CASE UNCHANGED transportVars
  <2>1. ReadInv' /\ EventInv' /\ CostInv'
    BY <1>1, ReadsStay, EventsStay, CostStays DEF transportVars, linkState, TransportInv, ReadInv
  <2>2. ControlInv'
    BY <1>1 DEF transportVars, linkState, TransportInv, ControlInv, InCall, Draining
  <2> QED BY <2>1, <2>2 DEF TransportInv
<1> QED BY <1>1, EnvironmentKeeps, ReceiveKeeps, CallKeeps, DrainKeeps, InterruptKeeps,
           ResetKeeps, ListenKeeps DEF TransportNext, HostStep

LEMMA TransportInvHolds == TransportSpec => []TransportInv
<1>1. TransportInit => TransportInv
  BY TransportStarts
<1>2. TransportInv /\ [TransportNext]_transportVars => TransportInv'
  BY TransportSteps
<1> QED BY <1>1, <1>2, PTL DEF TransportSpec

LEMMA TransportIsOfType ==
  ASSUME TransportInv
  PROVE  TransportTypeOK
<1>1. /\ wire.brought \in 0 .. wire.sent /\ wire.sent \in 0 .. MaxPackets
      /\ events.brought \in 0 .. events.sent /\ events.sent \in 0 .. MaxEvents
  BY TransportAssumption DEF TransportInv, ReadInv, EventInv, Wires
<1>2. bulkIn.n \in 0 .. wire.brought /\ intrIn.n \in 0 .. events.brought
  BY <1>1, TransportAssumption DEF TransportInv, ReadInv, EventInv, HoldsNewest, Transfers
<1>3. /\ bulkIn \in [at : {"none", "pending", "done"}, n : 0 .. wire.brought,
                     by : {"none", "receive", "drain", "dropped"}]
      /\ intrIn \in [at : {"none", "pending", "done"}, n : 0 .. events.brought,
                     by : {"none", "listener", "cancel"}]
  BY <1>2 DEF TransportInv, ReadInv, EventInv, Transfers
<1> QED BY <1>1, <1>3 DEF TransportInv, ControlInv, TransportTypeOK

(* NusbTransport's endpoints keep their shape: at most one transfer on each, and the lock of
   interrupt_in is held exactly by the step 3 of a cancel or by the receive_interrupt that
   awaits it, whichever futures are dropped. *)
THEOREM TransportIsTyped == TransportSpec => []TransportTypeOK
<1>1. TransportInv => TransportTypeOK
  BY TransportIsOfType
<1> QED BY <1>1, TransportInvHolds, PTL

(* receive_bulk, the drains of cancel_transfer, drain_bulk_in and reset_device, and
   receive_interrupt lose, repeat and reorder nothing that the device sent, however futures
   are dropped or time out between two awaits; no drain leaves its transfer to a receive; and
   a cancel costs next_event at most one event. *)
THEOREM TransportKeeps == TransportSpec => []TransfersAreKept
<1>1. TransportInv => TransfersAreKept
  BY DEF TransportInv, TransfersAreKept, ControlInv, ReadInv, EventInv, CostInv, Rising,
         ReadsAreKept, NoDrainTransferLeft, EventsSurvive, Draining
<1> QED BY <1>1, TransportInvHolds, PTL
-----------------------------------------------------------------------------
OnePerPort(keys) == \A k, l \in keys : k.port = l.port => k = l

HotplugEvents == [is : {"Arrived", "Left"}, key : DeviceKeys]

Distinct(s) == \A i, j \in DOMAIN s : i # j => s[i] # s[j]

(* No arrival before a departure. *)
DeparturesFirst(s) == \A i, j \in DOMAIN s : i < j /\ s[j].is = "Left" => s[i].is = "Left"

BusInv ==
  /\ plugged \subseteq DeviceKeys /\ readable \subseteq plugged /\ known \subseteq DeviceKeys
  /\ settling \in BOOLEAN /\ started \in BOOLEAN /\ (settling => started)
  /\ OnePerPort(plugged) /\ OnePerPort(known)

PendingInv ==
  /\ pending \in Seq(HotplugEvents) /\ Distinct(pending) /\ DeparturesFirst(pending)
  /\ \A k \in known : Event("Left", k) \notin ToSet(pending)
  /\ \A k : Event("Arrived", k) \in ToSet(pending) => k \in known

(* The consumer's picture is behind by the events pending. *)
SeenInv ==
  /\ OnePerPort(seen)
  /\ \A k : k \in seen <=> \/ k \in known /\ Event("Arrived", k) \notin ToSet(pending)
                           \/ Event("Left", k) \in ToSet(pending)

HotplugInv == BusInv /\ PendingInv /\ SeenInv
-----------------------------------------------------------------------------
(* Sequences that hold each of their elements once. *)

(* What SetToSeqs makes of a finite set is all of it, each element once. *)
LEMMA AllOnce ==
  ASSUME NEW S, IsFiniteSet(S), NEW f \in SetToSeqs(S)
  PROVE  f \in Seq(S) /\ Distinct(f) /\ ToSet(f) = S
<1>1. Cardinality(S) \in Nat
  BY FS_CardinalityType
<1>2. f \in [1 .. Cardinality(S) -> S] /\ \A i, j \in 1 .. Cardinality(S) : i # j => f[i] # f[j]
  BY DEF SetToSeqs
<1>3. f \in Injection(1 .. Cardinality(S), S)
  BY <1>2 DEF Injection, IsInjective
<1>4. Cardinality(1 .. Cardinality(S)) = Cardinality(S)
  BY <1>1, FS_Interval
<1>5. f \in Surjection(1 .. Cardinality(S), S)
  BY <1>3, <1>4, FS_Injection
<1>6. DOMAIN f = 1 .. Cardinality(S) /\ f \in Seq(S)
  BY <1>1, <1>2
<1> QED BY <1>2, <1>5, <1>6 DEF Distinct, ToSet, Surjection

LEMMA TailOnce ==
  ASSUME NEW E, NEW q \in Seq(E), q # <<>>, Distinct(q)
  PROVE  /\ Tail(q) \in Seq(E) /\ Distinct(Tail(q)) /\ ToSet(Tail(q)) = ToSet(q) \ {Head(q)}
         /\ Head(q) \in ToSet(q) /\ Head(q) \in E
         /\ DOMAIN Tail(q) = 1 .. Len(q) - 1 /\ DOMAIN q = 1 .. Len(q) /\ Len(q) \in Nat \ {0}
         /\ \A i \in 1 .. Len(q) - 1 : Tail(q)[i] = q[i + 1]
<1>1. /\ Tail(q) \in Seq(E) /\ Len(q) \in Nat \ {0} /\ Len(Tail(q)) = Len(q) - 1
      /\ DOMAIN q = 1 .. Len(q) /\ DOMAIN Tail(q) = 1 .. Len(q) - 1
      /\ Head(q) = q[1]
  OBVIOUS
<1>2. \A i \in 1 .. Len(q) - 1 : Tail(q)[i] = q[i + 1] /\ i + 1 \in 1 .. Len(q)
  BY <1>1
<1>3. Distinct(Tail(q))
  BY <1>1, <1>2 DEF Distinct
<1>4. ASSUME NEW x \in ToSet(Tail(q)) PROVE x \in ToSet(q) \ {Head(q)}
  <2>1. PICK i \in 1 .. Len(q) - 1 : x = Tail(q)[i]
    BY <1>1, <1>4 DEF ToSet
  <2>2. x = q[i + 1] /\ i + 1 \in 1 .. Len(q) /\ i + 1 # 1
    BY <1>2, <2>1
  <2> QED BY <1>1, <2>2 DEF ToSet, Distinct
<1>5. ASSUME NEW x \in ToSet(q) \ {Head(q)} PROVE x \in ToSet(Tail(q))
  <2>1. PICK i \in 1 .. Len(q) : x = q[i]
    BY <1>1, <1>5 DEF ToSet
  <2>2. i - 1 \in 1 .. Len(q) - 1 /\ (i - 1) + 1 = i
    BY <1>1, <1>5, <2>1
  <2>3. Tail(q)[i - 1] = q[i]
    BY <1>2, <2>2
  <2> QED BY <1>1, <2>1, <2>2, <2>3 DEF ToSet
<1>6. Head(q) \in ToSet(q) /\ Head(q) \in E
  BY <1>1 DEF ToSet
<1> QED BY <1>1, <1>2, <1>3, <1>4, <1>5, <1>6

LEMMA ConcatOnce ==
  ASSUME NEW E, NEW p \in Seq(E), NEW q \in Seq(E), Distinct(p), Distinct(q),
         ToSet(p) \cap ToSet(q) = {}
  PROVE  /\ p \o q \in Seq(E) /\ Distinct(p \o q) /\ ToSet(p \o q) = ToSet(p) \cup ToSet(q)
         /\ Len(p) \in Nat /\ Len(q) \in Nat /\ DOMAIN (p \o q) = 1 .. Len(p) + Len(q)
         /\ \A i \in 1 .. Len(p) : (p \o q)[i] \in ToSet(p)
         /\ \A i \in Len(p) + 1 .. Len(p) + Len(q) : (p \o q)[i] \in ToSet(q)
<1>1. /\ p \o q \in Seq(E) /\ Len(p \o q) = Len(p) + Len(q) /\ Len(p) \in Nat /\ Len(q) \in Nat
      /\ DOMAIN p = 1 .. Len(p) /\ DOMAIN q = 1 .. Len(q) /\ DOMAIN (p \o q) = 1 .. Len(p) + Len(q)
  OBVIOUS
<1>2. \A i \in 1 .. Len(p) : (p \o q)[i] = p[i]
  OBVIOUS
<1>3. \A i \in Len(p) + 1 .. Len(p) + Len(q) : (p \o q)[i] = q[i - Len(p)]
  OBVIOUS
<1>4. \A i \in 1 .. Len(p) : (p \o q)[i] \in ToSet(p)
  BY <1>1, <1>2 DEF ToSet
<1>5. \A i \in Len(p) + 1 .. Len(p) + Len(q) : (p \o q)[i] \in ToSet(q)
  <2> SUFFICES ASSUME NEW i \in Len(p) + 1 .. Len(p) + Len(q) PROVE q[i - Len(p)] \in ToSet(q)
    BY <1>3
  <2>1. i - Len(p) \in 1 .. Len(q)
    BY <1>1
  <2> QED BY <1>1, <2>1 DEF ToSet
<1>6. Distinct(p \o q)
  <2> SUFFICES ASSUME NEW i \in 1 .. Len(p) + Len(q), NEW j \in 1 .. Len(p) + Len(q), i # j
      PROVE (p \o q)[i] # (p \o q)[j]
    BY <1>1 DEF Distinct
  <2>1. CASE i \in 1 .. Len(p) /\ j \in 1 .. Len(p)
    BY <1>1, <1>2, <2>1 DEF Distinct
  <2>2. CASE i \in Len(p) + 1 .. Len(p) + Len(q) /\ j \in Len(p) + 1 .. Len(p) + Len(q)
    <3>1. i - Len(p) \in 1 .. Len(q) /\ j - Len(p) \in 1 .. Len(q) /\ i - Len(p) # j - Len(p)
      BY <1>1, <2>2
    <3> QED BY <1>1, <1>3, <2>2, <3>1 DEF Distinct
  <2>3. CASE i \in 1 .. Len(p) /\ j \in Len(p) + 1 .. Len(p) + Len(q)
    BY <1>4, <1>5, <2>3
  <2>4. CASE j \in 1 .. Len(p) /\ i \in Len(p) + 1 .. Len(p) + Len(q)
    BY <1>4, <1>5, <2>4
  <2> QED BY <1>1, <2>1, <2>2, <2>3, <2>4
<1>7. ToSet(p \o q) \subseteq ToSet(p) \cup ToSet(q)
  <2> SUFFICES ASSUME NEW i \in 1 .. Len(p) + Len(q) PROVE (p \o q)[i] \in ToSet(p) \cup ToSet(q)
    BY <1>1 DEF ToSet
  <2>1. i \in 1 .. Len(p) \/ i \in Len(p) + 1 .. Len(p) + Len(q)
    BY <1>1
  <2> QED BY <1>4, <1>5, <2>1
<1>8. ToSet(p) \subseteq ToSet(p \o q)
  <2> SUFFICES ASSUME NEW i \in 1 .. Len(p) PROVE p[i] \in ToSet(p \o q)
    BY <1>1 DEF ToSet
  <2>1. i \in 1 .. Len(p) + Len(q)
    BY <1>1
  <2> QED BY <1>1, <1>2, <2>1 DEF ToSet
<1>9. ToSet(q) \subseteq ToSet(p \o q)
  <2> SUFFICES ASSUME NEW i \in 1 .. Len(q) PROVE q[i] \in ToSet(p \o q)
    BY <1>1 DEF ToSet
  <2>1. i + Len(p) \in Len(p) + 1 .. Len(p) + Len(q) /\ (i + Len(p)) - Len(p) = i
        /\ i + Len(p) \in 1 .. Len(p) + Len(q)
    BY <1>1
  <2>2. (p \o q)[i + Len(p)] = q[i]
    BY <1>3, <2>1
  <2> QED BY <1>1, <2>1, <2>2 DEF ToSet
<1> QED BY <1>1, <1>4, <1>5, <1>6, <1>7, <1>8, <1>9
-----------------------------------------------------------------------------
(* The bus is finite, and so is every change of it. *)
LEMMA BusIsFinite == IsFiniteSet(DeviceKeys)
<1> DEFINE f == [p \in Ports \X Phones |-> [port |-> p[1], phone |-> p[2]]]
<1>1. IsFiniteSet(Ports \X Phones)
  BY HotplugAssumption, FS_Product
<1>2. f \in [Ports \X Phones -> DeviceKeys]
  BY DEF DeviceKeys
<1>3. ASSUME NEW k \in DeviceKeys PROVE \E p \in Ports \X Phones : f[p] = k
  <2>1. <<k.port, k.phone>> \in Ports \X Phones /\ k = [port |-> k.port, phone |-> k.phone]
    BY <1>3 DEF DeviceKeys
  <2>2. f[<<k.port, k.phone>>] = [port |-> k.port, phone |-> k.phone]
    BY <2>1
  <2> QED BY <2>1, <2>2
<1>4. f \in Surjection(Ports \X Phones, DeviceKeys)
  BY <1>2, <1>3 DEF Surjection
<1> QED BY <1>1, <1>4, FS_Surjection

LEMMA EventsOfFinite ==
  ASSUME NEW is, NEW keys \in SUBSET DeviceKeys
  PROVE  IsFiniteSet(EventsOf(is, keys))
<1>1. IsFiniteSet(keys)
  BY BusIsFinite, FS_Subset
<1> DEFINE f == [k \in keys |-> Event(is, k)]
<1>2. f \in Surjection(keys, EventsOf(is, keys))
  BY DEF Surjection, EventsOf
<1> QED BY <1>1, <1>2, FS_Surjection

LEMMA EventFields ==
  /\ \A is, k : Event(is, k).is = is /\ Event(is, k).key = k
  /\ \A e \in HotplugEvents : e = Event(e.is, e.key) /\ e.is \in {"Arrived", "Left"} /\ e.key \in DeviceKeys
BY DEF Event, HotplugEvents

(* diff reports each departure and each arrival of the change once, departures first. *)
LEMMA DiffReports ==
  ASSUME known \subseteq DeviceKeys, NEW current \in SUBSET DeviceKeys, NEW es \in Diff(current)
  PROVE  /\ es \in Seq(HotplugEvents) /\ Distinct(es) /\ DeparturesFirst(es)
         /\ \A k : Event("Left", k) \in ToSet(es) <=> k \in known \ current
         /\ \A k : Event("Arrived", k) \in ToSet(es) <=> k \in current \ known
<1> DEFINE L == EventsOf("Left", known \ current)
           A == EventsOf("Arrived", current \ known)
<1>1. PICK l \in SetToSeqs(L), a \in SetToSeqs(A) : es = l \o a
  <2>1. PICK r \in SetToSeqs(L) \X SetToSeqs(A) : es = r[1] \o r[2]
    BY DEF Diff
  <2> QED BY <2>1
<1>2. /\ \A k : Event("Left", k) \in L <=> k \in known \ current
      /\ \A k : Event("Arrived", k) \in A <=> k \in current \ known
      /\ \A e \in L : e \in HotplugEvents /\ e.is = "Left"
      /\ \A e \in A : e \in HotplugEvents /\ e.is = "Arrived"
  <2>1. \A is : \A k \in DeviceKeys : is \in {"Arrived", "Left"} => Event(is, k) \in HotplugEvents
    BY DEF Event, HotplugEvents
  <2>2. \A is, k, keys : Event(is, k) \in EventsOf(is, keys) <=> k \in keys
    BY EventFields DEF EventsOf
  <2>3. \A is, keys : \A e \in EventsOf(is, keys) : \E k \in keys : e = Event(is, k)
    BY DEF EventsOf
  <2>4. \A e \in L : e \in HotplugEvents /\ e.is = "Left"
    BY <2>1, <2>3, EventFields
  <2>5. \A e \in A : e \in HotplugEvents /\ e.is = "Arrived"
    BY <2>1, <2>3, EventFields
  <2> QED BY <2>2, <2>4, <2>5
<1>3. IsFiniteSet(L) /\ IsFiniteSet(A)
  BY EventsOfFinite
<1> HIDE DEF L, A
<1>4. l \in Seq(L) /\ Distinct(l) /\ ToSet(l) = L
  BY <1>3, AllOnce
<1>5. a \in Seq(A) /\ Distinct(a) /\ ToSet(a) = A
  BY <1>3, AllOnce
<1>6. L \cap A = {} /\ L \subseteq HotplugEvents /\ A \subseteq HotplugEvents
  BY <1>2
<1>7. l \in Seq(HotplugEvents) /\ a \in Seq(HotplugEvents)
  BY <1>4, <1>5, <1>6
<1>8. /\ es \in Seq(HotplugEvents) /\ Distinct(es) /\ ToSet(es) = L \cup A
      /\ Len(l) \in Nat /\ Len(a) \in Nat /\ DOMAIN es = 1 .. Len(l) + Len(a)
      /\ \A i \in 1 .. Len(l) : es[i] \in L
      /\ \A i \in Len(l) + 1 .. Len(l) + Len(a) : es[i] \in A
  BY <1>1, <1>4, <1>5, <1>6, <1>7, ConcatOnce
<1>9. DeparturesFirst(es)
  <2> SUFFICES ASSUME NEW i \in 1 .. Len(l) + Len(a), NEW j \in 1 .. Len(l) + Len(a),
                      i < j, es[j].is = "Left"
      PROVE es[i].is = "Left"
    BY <1>8 DEF DeparturesFirst
  <2>1. ~(j \in Len(l) + 1 .. Len(l) + Len(a))
    BY <1>2, <1>8
  <2>2. i \in 1 .. Len(l)
    BY <1>8, <2>1
  <2> QED BY <1>2, <1>8, <2>2
<1>10. /\ \A k : Event("Left", k) \in ToSet(es) <=> k \in known \ current
       /\ \A k : Event("Arrived", k) \in ToSet(es) <=> k \in current \ known
  <2>1. \A k : Event("Left", k) \notin A /\ Event("Arrived", k) \notin L
    BY <1>2, EventFields
  <2> QED BY <1>2, <1>8, <2>1
<1> QED BY <1>8, <1>9, <1>10
-----------------------------------------------------------------------------
LEMMA NothingPending ==
  ASSUME HotplugInv, pending = <<>>
  PROVE  seen = known
<1>1. ToSet(pending) = {}
  BY DEF ToSet
<1> QED BY <1>1 DEF HotplugInv, SeenInv

LEMMA EnumerateKeeps ==
  ASSUME HotplugInv, pending = <<>>, Enumerate, UNCHANGED <<plugged, readable, seen>>,
         settling' \in BOOLEAN, started' \in BOOLEAN, settling' => started'
  PROVE  HotplugInv'
<1> USE DEF HotplugInv
<1>1. CASE EnumerateFails
  BY <1>1 DEF EnumerateFails, BusInv, PendingInv, SeenInv
<1>2. CASE EnumerateSucceeds
  <2>1. PICK es \in Diff(readable) : pending' = pending \o es
    BY <1>2 DEF EnumerateSucceeds
  <2>2. known \subseteq DeviceKeys /\ readable \in SUBSET DeviceKeys /\ known' = readable
    BY <1>2 DEF EnumerateSucceeds, BusInv
  <2>3. /\ es \in Seq(HotplugEvents) /\ Distinct(es) /\ DeparturesFirst(es)
        /\ \A k : Event("Left", k) \in ToSet(es) <=> k \in known \ readable
        /\ \A k : Event("Arrived", k) \in ToSet(es) <=> k \in readable \ known
    BY <2>2, DiffReports
  <2>4. pending' = es
    BY <2>1, <2>3
  <2>5. BusInv'
    BY <2>2 DEF BusInv, OnePerPort
  <2>6. PendingInv'
    BY <2>2, <2>3, <2>4 DEF PendingInv
  <2>7. seen = known
    BY NothingPending
  <2>8. SeenInv'
    BY <2>2, <2>3, <2>4, <2>7 DEF SeenInv
  <2> QED BY <2>5, <2>6, <2>8
<1> QED BY <1>1, <1>2 DEF Enumerate

LEMMA HandOutKeeps ==
  ASSUME HotplugInv, PollPending
  PROVE  HotplugInv'
<1> USE DEF HotplugInv
<1> DEFINE e == Head(pending)
<1>1. BusInv'
  BY DEF PollPending, BusInv, busVars
<1>2. pending # <<>> /\ pending' = Tail(pending) /\ UNCHANGED known
      /\ seen' = IF e.is = "Arrived" THEN seen \cup {e.key} ELSE seen \ {e.key}
  BY DEF PollPending
<1>3. /\ pending' \in Seq(HotplugEvents) /\ Distinct(pending')
      /\ ToSet(pending') = ToSet(pending) \ {e}
      /\ e \in ToSet(pending) /\ e \in HotplugEvents
      /\ DOMAIN pending' = 1 .. Len(pending) - 1 /\ DOMAIN pending = 1 .. Len(pending)
      /\ Len(pending) \in Nat \ {0}
      /\ \A i \in 1 .. Len(pending) - 1 : pending'[i] = pending[i + 1]
  BY <1>2, TailOnce DEF PendingInv
<1>4. e = pending[1]
  BY <1>2 DEF PendingInv
<1> HIDE DEF e
<1>5. e = Event(e.is, e.key) /\ e.is \in {"Arrived", "Left"} /\ e.key \in DeviceKeys
  BY <1>3, EventFields
<1>6. DeparturesFirst(pending')
  <2> SUFFICES ASSUME NEW i \in 1 .. Len(pending) - 1, NEW j \in 1 .. Len(pending) - 1,
                      i < j, pending'[j].is = "Left"
      PROVE pending'[i].is = "Left"
    BY <1>3 DEF DeparturesFirst
  <2>1. i + 1 \in 1 .. Len(pending) /\ j + 1 \in 1 .. Len(pending) /\ i + 1 < j + 1
    BY <1>3
  <2> QED BY <1>3, <2>1 DEF PendingInv, DeparturesFirst
<1>7. PendingInv'
  BY <1>2, <1>3, <1>6 DEF PendingInv
<1>8. CASE e.is = "Left"
  <2>1. seen' = seen \ {e.key} /\ e = Event("Left", e.key)
    BY <1>2, <1>5, <1>8
  <2>2. \A k : k # e.key => Event("Left", k) # e
    BY EventFields
  <2>3. \A k : Event("Arrived", k) # e
    BY <1>8, EventFields
  <2>4. e.key \notin known
    BY <1>3, <2>1 DEF PendingInv
  <2> QED BY <1>1, <1>2, <1>3, <1>7, <2>1, <2>2, <2>3, <2>4 DEF SeenInv, OnePerPort
<1>9. CASE e.is = "Arrived"
  <2>1. seen' = seen \cup {e.key} /\ e = Event("Arrived", e.key)
    BY <1>2, <1>5, <1>9
  <2>2. \A k : k # e.key => Event("Arrived", k) # e
    BY EventFields
  <2>3. \A k : Event("Left", k) # e
    BY <1>9, EventFields
  <2>4. e.key \in known
    BY <1>3, <2>1 DEF PendingInv
  <2>5. \A k : Event("Left", k) \notin ToSet(pending)
    <3> SUFFICES ASSUME NEW k, Event("Left", k) \in ToSet(pending) PROVE FALSE
      OBVIOUS
    <3>1. PICK i \in 1 .. Len(pending) : pending[i] = Event("Left", k)
      BY <1>3 DEF ToSet
    <3>2. pending[i].is = "Left"
      BY <3>1, EventFields
    <3>3. CASE i = 1
      BY <1>4, <1>9, <3>2, <3>3
    <3>4. CASE 1 < i
      <4>1. 1 \in 1 .. Len(pending)
        BY <1>3
      <4> QED BY <1>3, <1>4, <1>9, <3>2, <3>4, <4>1 DEF PendingInv, DeparturesFirst
    <3> QED BY <1>3, <3>3, <3>4
  <2>6. seen' \subseteq known
    BY <2>1, <2>4, <2>5 DEF SeenInv
  <2>7. OnePerPort(seen')
    BY <2>6 DEF BusInv, OnePerPort
  <2> QED BY <1>1, <1>2, <1>3, <1>7, <2>1, <2>2, <2>3, <2>4, <2>5, <2>7 DEF SeenInv
<1> QED BY <1>5, <1>8, <1>9

LEMMA BusKeeps ==
  ASSUME HotplugInv, Bus
  PROVE  HotplugInv'
<1>1. PICK k \in DeviceKeys : Plug(k) \/ Unplug(k) \/ DescriptorsReadable(k)
  BY DEF Bus
<1>2. PendingInv' /\ SeenInv'
  BY DEF Bus, HotplugInv, PendingInv, SeenInv
<1>3. BusInv'
  BY <1>1 DEF Bus, HotplugInv, BusInv, Plug, Unplug, DescriptorsReadable, OnePerPort
<1> QED BY <1>2, <1>3 DEF HotplugInv

LEMMA HotplugStarts ==
  ASSUME HotplugInit
  PROVE  HotplugInv
<1>1. pending = <<>> /\ ToSet(pending) = {} /\ DOMAIN pending = {}
  BY DEF HotplugInit, ToSet
<1>2. PendingInv
  BY <1>1 DEF HotplugInit, PendingInv, Distinct, DeparturesFirst
<1> QED BY <1>1, <1>2 DEF HotplugInit, HotplugInv, BusInv, SeenInv, OnePerPort

LEMMA HotplugSteps ==
  ASSUME HotplugInv, [HotplugNext]_hotplugVars
  PROVE  HotplugInv'
<1>1. CASE PollFirst
  BY <1>1, EnumerateKeeps DEF PollFirst, busVars, HotplugInv, BusInv
<1>2. CASE PollSettled
  BY <1>2, EnumerateKeeps DEF PollSettled, busVars, HotplugInv, BusInv
<1>3. CASE PollUsb
  BY <1>3 DEF PollUsb, HotplugInv, BusInv, PendingInv, SeenInv
<1>4. CASE UNCHANGED hotplugVars
  BY <1>4 DEF hotplugVars, busVars, HotplugInv, BusInv, PendingInv, SeenInv
<1> QED BY <1>1, <1>2, <1>3, <1>4, BusKeeps, HandOutKeeps DEF HotplugNext, Poll

LEMMA HotplugInvHolds == HotplugSpec => []HotplugInv
<1>1. HotplugInit => HotplugInv
  BY HotplugStarts
<1>2. HotplugInv /\ [HotplugNext]_hotplugVars => HotplugInv'
  BY HotplugSteps
<1> QED BY <1>1, <1>2, PTL DEF HotplugSpec

LEMMA PendingIsExplained ==
  ASSUME HotplugInv
  PROVE  HotplugTypeOK
<1> USE DEF HotplugInv
<1> DEFINE KeysOf(is) == {e.key : e \in {x \in ToSet(pending) : x.is = is}}
<1>1. \A e \in ToSet(pending) : e \in HotplugEvents
  BY DEF PendingInv, ToSet
<1>2. \A is, k : k \in KeysOf(is) <=> Event(is, k) \in ToSet(pending)
  <2> SUFFICES ASSUME NEW is, NEW k PROVE k \in KeysOf(is) <=> Event(is, k) \in ToSet(pending)
    OBVIOUS
  <2>1. ASSUME k \in KeysOf(is) PROVE Event(is, k) \in ToSet(pending)
    <3>1. PICK e \in ToSet(pending) : e.is = is /\ e.key = k
      BY <2>1
    <3> QED BY <1>1, <3>1, EventFields
  <2>2. ASSUME Event(is, k) \in ToSet(pending) PROVE k \in KeysOf(is)
    BY <2>2, EventFields
  <2> QED BY <2>1, <2>2
<1> HIDE DEF KeysOf
<1>3. seen = (known \ KeysOf("Arrived")) \cup KeysOf("Left")
  BY <1>2 DEF SeenInv
<1> QED BY <1>3 DEF HotplugTypeOK, BusInv, KeysOf

(* The events that DeviceWatch::diff has found and poll_next has not handed out are just
   what lies between the consumer's picture and the devices known. *)
THEOREM PendingExplainsSeen == HotplugSpec => []HotplugTypeOK
<1>1. HotplugInv => HotplugTypeOK
  BY PendingIsExplained
<1> QED BY <1>1, HotplugInvHolds, PTL

(* However devices replace each other on a port between two enumerations, and whichever of
   those fail, the consumer is told of the departure before the arrival. *)
THEOREM ReplugsAreOrdered == HotplugSpec => []OneDevicePerPort
<1>1. HotplugInv => OneDevicePerPort
  BY DEF HotplugInv, SeenInv, OnePerPort, OneDevicePerPort
<1> QED BY <1>1, HotplugInvHolds, PTL
-----------------------------------------------------------------------------
(* A reply not yet read, and where a process can be. *)
Message == [kind : {"response", "info", "object", "chunk"}, tx : 0 .. 2,
            code : {"ok", "already", "refused"}, mine : BOOLEAN]

Ats == {"down", "ask_raw", "raw", "ask_open", "opening", "draining", "ask_close", "closing",
        "ask_info", "info", "open"}

App == [mode : Modes, at : Ats, drained : BOOLEAN, again : BOOLEAN, skipped : 0 .. MaxStale,
        data : {"none", "mine", "left", "mixed"}]

(* The state is of its type. *)
OpenShape ==
  /\ devSession \in BOOLEAN /\ pipe \in Seq(Message) /\ app \in App
  /\ deaths \in Nat /\ slow \in Nat /\ fails \in Nat
  /\ app.mode = "reuse" => app.at \notin {"ask_close", "closing"} /\ ~app.again

(* What the pipe may hold: a response that grants, a reply to an OpenSession, the answer. *)
Grants(m) == m.kind = "response" /\ m.code = "ok"
OpenReply(m) == m.kind = "response" /\ m.tx = 0 /\ m.code \in {"ok", "already"}
InfoData(m) == m.kind = "info" /\ m.mine

(* n replies to an OpenSession. *)
Late(s, n) == Len(s) = n /\ \A i \in 1 .. Len(s) : OpenReply(s[i])

(* k reads that are no response, a response that grants, and n replies to an OpenSession. *)
Heap(s, k, n) ==
  /\ Len(s) = k + 1 + n
  /\ \A i \in 1 .. k : s[i].kind # "response"
  /\ Grants(s[k + 1])
  /\ \A i \in k + 2 .. Len(s) : OpenReply(s[i])

(* A response that refuses, and n replies to an OpenSession. *)
Refusal(s, n) ==
  /\ Len(s) = 1 + n
  /\ s[1].kind = "response" /\ s[1].code = "refused"
  /\ \A i \in 2 .. Len(s) : OpenReply(s[i])

(* What a process leaves, and n replies to an OpenSession. *)
Leaves(s, n) == Late(s, n) \/ Refusal(s, n) \/ \E k \in 0 .. MaxChunks + 1 : Heap(s, k, n)

(* The same after the drain, after the open that failed, and after the CloseSession. *)
Drained(s, n) == Late(s, n) \/ Late(s, n + 1) \/ Heap(s, 0, n + 1) \/ Heap(s, 1, n + 1)
Failed(s, n)  == Late(s, n + 1) \/ Heap(s, 0, n + 2)
Closed(s, n)  == Late(s, n) \/ Heap(s, 0, n)

(* What is in the pipe when n OpenSessions have been sent in this attempt and not answered. *)
InPipe(s, n) ==
  IF app.again THEN Closed(s, n) /\ (n = 1 => s[1].code = "ok")
  ELSE IF fails = 1 THEN Failed(s, n)
  ELSE IF app.drained THEN Drained(s, n)
  ELSE Leaves(s, n)

(* The device info is on its way behind replies to an OpenSession, or half read. *)
Informed ==
  \/ /\ app.data = "none" /\ Len(pipe) >= 2 /\ Len(pipe) + app.skipped <= 5
     /\ \A i \in 1 .. Len(pipe) - 2 : OpenReply(pipe[i])
     /\ InfoData(pipe[Len(pipe) - 1]) /\ Grants(pipe[Len(pipe)])
  \/ app.data = "mine" /\ Len(pipe) = 1 /\ Grants(pipe[1])

(* A process after the one that died. *)
AfterDeath ==
  /\ fails \in 0 .. 1 /\ app.at \notin {"ask_raw", "raw"}
  /\ app.at = "down" => ~app.again /\ ~app.drained
  /\ app.drained => fails = 0
  /\ app.at \in {"down", "ask_open"} => InPipe(pipe, 0) /\ (app.again => ~devSession)
  /\ app.at = "opening" => InPipe(pipe, 1) /\ devSession
  /\ app.at = "draining" =>
       ~app.drained /\ ~app.again /\ fails = 0 /\ \E k \in 0 .. MaxChunks : Heap(pipe, k, 1)
  /\ app.at = "ask_close" => devSession /\ (Late(pipe, 0) \/ Late(pipe, 1))
  /\ app.at = "closing" => ~devSession /\ Len(pipe) \in 1 .. 2 /\ Grants(pipe[Len(pipe)])
  /\ app.at = "ask_info" => \E n \in 0 .. 3 : Late(pipe, n)
  /\ app.at \notin {"info", "open"} => app.data = "none" /\ app.skipped = 0
  /\ app.at = "info" => Informed /\ pipe[Len(pipe)].tx = 1
  /\ app.at = "open" => pipe = <<>> /\ app.data = "mine"

(* The first process finds nothing in the pipe, and has in it only what it asked for. *)
FirstLife ==
  /\ fails = 0 /\ ~app.again /\ ~app.drained
  /\ app.at \notin {"draining", "ask_close", "closing"}
  /\ app.at \in {"down", "ask_raw", "ask_open", "ask_info", "open"} => pipe = <<>>
  /\ app.at \in {"down", "ask_raw", "raw", "ask_open"} => ~devSession
  /\ app.at = "opening" => Late(pipe, 1) /\ pipe[1].code = "ok"
  /\ app.at \in {"raw", "info"} => Informed /\ Len(pipe) <= 2 /\ app.skipped = 0
  /\ app.at = "info" => pipe[Len(pipe)].tx = 1
  /\ app.at \in {"down", "ask_raw", "ask_info"} => app.data = "none" /\ app.skipped = 0
  /\ app.at \in {"ask_open", "opening"} /\ app.mode # "ptp" => app.data = "none" /\ app.skipped = 0
  /\ app.at = "open" => app.data = "mine"
  /\ app.mode = "ptp" /\ app.at \in {"ask_open", "opening"} => app.data = "mine"
  /\ IF app.mode = "ptp" THEN app.at \notin {"ask_info", "info"} ELSE app.at \notin {"ask_raw", "raw"}

(* What the promise is about: no reply late, no second death, no info outside a session. *)
Lives ==
  /\ slow = 0 /\ deaths = 0 => FirstLife
  /\ slow = 0 /\ deaths = 1 /\ app.mode # "ptp" => AfterDeath

OpenInv == OpenShape /\ Lives
-----------------------------------------------------------------------------
(* What is sent, left and read stays in shape. *)
LEMMA MessageShapes ==
  /\ \A tx \in 0 .. 2, code \in {"ok", "already", "refused"} :
       /\ Response(tx, code) \in Message
       /\ Response(tx, code).kind = "response" /\ Response(tx, code).tx = tx
       /\ Response(tx, code).code = code
  /\ \A tx \in 0 .. 2 :
       /\ Info(tx) \in Seq(Message) /\ Len(Info(tx)) = 2
       /\ InfoData(Info(tx)[1]) /\ Grants(Info(tx)[2]) /\ Info(tx)[2].tx = tx
<1>1. ASSUME NEW tx \in 0 .. 2, NEW code \in {"ok", "already", "refused"}
      PROVE  /\ Response(tx, code) \in Message
             /\ Response(tx, code).kind = "response" /\ Response(tx, code).tx = tx
             /\ Response(tx, code).code = code /\ Response(tx, code).mine = TRUE
  BY DEF Response, Message
<1>2. ASSUME NEW tx \in 0 .. 2
      PROVE  /\ Info(tx) \in Seq(Message) /\ Len(Info(tx)) = 2
             /\ InfoData(Info(tx)[1]) /\ Grants(Info(tx)[2]) /\ Info(tx)[2].tx = tx
  <2> DEFINE r == Response(tx, "ok")
             d == [r EXCEPT !.kind = "info"]
  <2>1. /\ r \in Message /\ r.kind = "response" /\ r.tx = tx /\ r.code = "ok" /\ r.mine = TRUE
    BY DEF Response, Message
  <2>2. d \in Message /\ d.kind = "info" /\ d.mine = TRUE
    BY <2>1 DEF Message
  <2>3. Info(tx) = <<d, r>>
    BY DEF Info
  <2> HIDE DEF r, d
  <2> QED BY <2>1, <2>2, <2>3 DEF InfoData, Grants
<1> QED BY <1>1, <1>2

LEMMA LeftKeeps ==
  ASSUME NEW s \in Seq(Message)
  PROVE  /\ Left(s) \in Seq(Message) /\ Len(Left(s)) = Len(s)
         /\ \A i \in 1 .. Len(s) : /\ Left(s)[i].kind = s[i].kind /\ Left(s)[i].tx = s[i].tx
                                   /\ Left(s)[i].code = s[i].code
<1>1. ASSUME NEW m \in Message, NEW f \in BOOLEAN
      PROVE  /\ [m EXCEPT !.mine = f] \in Message
             /\ [m EXCEPT !.mine = f].kind = m.kind /\ [m EXCEPT !.mine = f].tx = m.tx
             /\ [m EXCEPT !.mine = f].code = m.code
  BY DEF Message
<1>2. Left(s) = [i \in 1 .. Len(s) |-> [s[i] EXCEPT !.mine = FALSE]]
  BY DEF Left
<1>3. Len(s) \in Nat
  OBVIOUS
<1>4. Left(s) \in Seq(Message) /\ Len(Left(s)) = Len(s)
  <2>1. \A m \in Message : [m EXCEPT !.mine = FALSE] \in Message
    BY <1>1, Zenon
  <2> QED BY <1>2, <1>3, <2>1
<1>5. \A i \in 1 .. Len(s) : s[i] \in Message /\ Left(s)[i] = [s[i] EXCEPT !.mine = FALSE]
  BY <1>2
<1> QED BY <1>1, <1>4, <1>5

LEMMA LeftoversKeep ==
  ASSUME NEW l \in Leftovers
  PROVE  l \in Seq(Message) /\ Leaves(l, 0)
<1> DEFINE part(k) == [Response(2, "ok") EXCEPT !.kind = k]
           ok == Response(2, "ok")
           no == Response(2, "refused")
<1>1. /\ ok \in Message /\ ok.kind = "response" /\ ok.code = "ok"
      /\ no \in Message /\ no.kind = "response" /\ no.code = "refused"
  BY MessageShapes
<1>2. /\ part("chunk") \in Message /\ part("chunk").kind = "chunk"
      /\ part("object") \in Message /\ part("object").kind = "object"
  BY <1>1 DEF Message
<1>3. MaxChunks \in Nat
  BY OpenAssumption
<1>4. \/ l \in {<<>>, <<ok>>, <<no>>}
      \/ \E n \in 1 .. MaxChunks : l = [i \in 1 .. n |-> part("chunk")] \o <<ok>>
      \/ \E n \in 0 .. MaxChunks : l = <<part("object")>> \o [i \in 1 .. n |-> part("chunk")] \o <<ok>>
  BY DEF Leftovers
<1> HIDE DEF part, ok, no
<1>5. CASE l = <<>>
  BY <1>5 DEF Leaves, Late
<1>6. CASE l = <<ok>>
  <2>1. l \in Seq(Message) /\ Heap(l, 0, 0)
    BY <1>1, <1>6 DEF Heap, Grants
  <2> QED BY <1>3, <2>1 DEF Leaves
<1>7. CASE l = <<no>>
  <2>1. l \in Seq(Message) /\ Refusal(l, 0)
    BY <1>1, <1>7 DEF Refusal
  <2> QED BY <2>1 DEF Leaves
<1>8. ASSUME NEW n \in 1 .. MaxChunks, l = [i \in 1 .. n |-> part("chunk")] \o <<ok>>
      PROVE  l \in Seq(Message) /\ Leaves(l, 0)
  <2> DEFINE c == [i \in 1 .. n |-> part("chunk")]
  <2>1. n \in Nat /\ c \in Seq(Message) /\ Len(c) = n
    BY <1>2, <1>3
  <2>2. <<ok>> \in Seq(Message) /\ Len(<<ok>>) = 1
    BY <1>1
  <2>3. l \in Seq(Message) /\ Len(l) = n + 1
    BY <1>8, <2>1, <2>2
  <2>4. \A i \in 1 .. n : l[i] = part("chunk")
    BY <1>8, <2>1, <2>2
  <2>5. l[n + 1] = ok
    BY <1>8, <2>1, <2>2
  <2>6. Heap(l, n, 0)
    BY <1>1, <1>2, <2>1, <2>3, <2>4, <2>5 DEF Heap, Grants
  <2> QED BY <1>3, <2>3, <2>6 DEF Leaves
<1>9. ASSUME NEW n \in 0 .. MaxChunks,
             l = <<part("object")>> \o [i \in 1 .. n |-> part("chunk")] \o <<ok>>
      PROVE  l \in Seq(Message) /\ Leaves(l, 0)
  <2> DEFINE c == [i \in 1 .. n |-> part("chunk")]
             o == <<part("object")>> \o c
  <2>1. n \in Nat /\ c \in Seq(Message) /\ Len(c) = n /\ \A i \in 1 .. n : c[i] = part("chunk")
    BY <1>2, <1>3
  <2> HIDE DEF c
  <2>2. /\ o \in Seq(Message) /\ Len(o) = n + 1 /\ o[1] = part("object")
        /\ \A i \in 2 .. n + 1 : o[i] = part("chunk")
    <3>1. <<part("object")>> \in Seq(Message) /\ Len(<<part("object")>>) = 1
      BY <1>2
    <3>2. \A i \in 2 .. n + 1 : o[i] = c[i - 1]
      BY <2>1, <3>1
    <3> QED BY <1>2, <2>1, <3>1, <3>2
  <2> HIDE DEF o
  <2>3. <<ok>> \in Seq(Message) /\ Len(<<ok>>) = 1
    BY <1>1
  <2>4. l = o \o <<ok>>
    BY <1>9 DEF o, c
  <2>5. l \in Seq(Message) /\ Len(l) = n + 2 /\ l[n + 2] = ok /\ \A i \in 1 .. n + 1 : l[i] = o[i]
    BY <2>1, <2>2, <2>3, <2>4
  <2>6. \A i \in 1 .. n + 1 : l[i].kind # "response"
    BY <1>2, <2>1, <2>2, <2>5
  <2>7. Heap(l, n + 1, 0)
    BY <1>1, <2>1, <2>5, <2>6 DEF Heap, Grants
  <2> QED BY <1>3, <2>5, <2>7 DEF Leaves
<1> QED BY <1>4, <1>5, <1>6, <1>7, <1>8, <1>9

(* One message more, one less, and fewer. *)
LEMMA AppendKeeps ==
  ASSUME NEW s \in Seq(Message), NEW m \in Message
  PROVE  /\ Append(s, m) \in Seq(Message) /\ Len(Append(s, m)) = Len(s) + 1
         /\ Append(s, m)[Len(s) + 1] = m /\ \A i \in 1 .. Len(s) : Append(s, m)[i] = s[i]
  OBVIOUS

LEMMA TailKeeps ==
  ASSUME NEW s \in Seq(Message), s # <<>>
  PROVE  /\ Tail(s) \in Seq(Message) /\ Len(s) >= 1 /\ Len(Tail(s)) = Len(s) - 1
         /\ Head(s) = s[1] /\ Head(s) \in Message
         /\ \A i \in 1 .. Len(s) - 1 : Tail(s)[i] = s[i + 1]
  OBVIOUS

LEMMA RestKeeps ==
  ASSUME pipe \in Seq(Message), NEW n \in 0 .. Len(pipe)
  PROVE  /\ Rest(n) \in Seq(Message) /\ Len(Rest(n)) = Len(pipe) - n
         /\ \A i \in 1 .. Len(pipe) - n : Rest(n)[i] = pipe[n + i]
  BY DEF Rest

LEMMA ConcatKeeps ==
  ASSUME NEW s \in Seq(Message), NEW r \in Seq(Message)
  PROVE  /\ s \o r \in Seq(Message) /\ Len(s \o r) = Len(s) + Len(r)
         /\ \A i \in 1 .. Len(s) : (s \o r)[i] = s[i]
         /\ \A i \in 1 .. Len(r) : (s \o r)[Len(s) + i] = r[i]
  OBVIOUS
(* Where the process goes. *)
LEMMA BecomeKeeps ==
  ASSUME app \in App, NEW at \in Ats, Become(at)
  PROVE  /\ app' \in App /\ app'.at = at /\ app'.mode = app.mode
         /\ app'.drained = app.drained /\ app'.again = app.again
         /\ app'.skipped = app.skipped /\ app'.data = app.data
  BY DEF Become, App

LEMMA DownFields ==
  ASSUME NEW m \in Modes
  PROVE  /\ Down(m) \in App /\ Down(m).mode = m /\ Down(m).at = "down"
         /\ ~Down(m).drained /\ ~Down(m).again /\ Down(m).skipped = 0 /\ Down(m).data = "none"
<1>1. 0 \in 0 .. MaxStale
  BY OpenAssumption
<1>2. ASSUME NEW f \in BOOLEAN, f = FALSE
      PROVE  Down(m) = [mode |-> m, at |-> "down", drained |-> f, again |-> f, skipped |-> 0, data |-> "none"]
  BY <1>2, Zenon DEF Down
<1>3. ASSUME NEW f \in BOOLEAN, f = FALSE, NEW d,
             d = [mode |-> m, at |-> "down", drained |-> f, again |-> f, skipped |-> 0, data |-> "none"]
      PROVE  /\ d \in App /\ d.mode = m /\ d.at = "down"
             /\ d.drained = f /\ d.again = f /\ d.skipped = 0 /\ d.data = "none"
  BY <1>1, <1>3 DEF App, Ats
<1>4. PICK f \in BOOLEAN : f = FALSE
  OBVIOUS
<1>5. /\ Down(m) \in App /\ Down(m).mode = m /\ Down(m).at = "down"
      /\ Down(m).drained = f /\ Down(m).again = f /\ Down(m).skipped = 0 /\ Down(m).data = "none"
  BY <1>2, <1>3, <1>4
<1> QED BY <1>4, <1>5

LEMMA DrainedKeeps ==
  ASSUME app \in App, app' = [app EXCEPT !.at = "ask_open", !.drained = TRUE]
  PROVE  /\ app' \in App /\ app'.at = "ask_open" /\ app'.mode = app.mode
         /\ app'.drained = TRUE /\ app'.again = app.again
         /\ app'.skipped = app.skipped /\ app'.data = app.data
<1>1. ASSUME NEW d \in BOOLEAN, NEW a, a = [app EXCEPT !.at = "ask_open", !.drained = d]
      PROVE  /\ a \in App /\ a.at = "ask_open" /\ a.mode = app.mode
             /\ a.drained = d /\ a.again = app.again
             /\ a.skipped = app.skipped /\ a.data = app.data
  BY <1>1 DEF App, Ats
<1> QED BY <1>1, Zenon

LEMMA ClosedKeeps ==
  ASSUME app \in App, app' = [app EXCEPT !.at = "ask_open", !.again = TRUE, !.drained = FALSE]
  PROVE  /\ app' \in App /\ app'.at = "ask_open" /\ app'.mode = app.mode
         /\ app'.drained = FALSE /\ app'.again = TRUE
         /\ app'.skipped = app.skipped /\ app'.data = app.data
<1>1. ASSUME NEW d \in BOOLEAN, NEW g \in BOOLEAN, NEW a,
             a = [app EXCEPT !.at = "ask_open", !.again = g, !.drained = d]
      PROVE  /\ a \in App /\ a.at = "ask_open" /\ a.mode = app.mode
             /\ a.drained = d /\ a.again = g
             /\ a.skipped = app.skipped /\ a.data = app.data
  BY <1>1 DEF App, Ats
<1> QED BY <1>1, Zenon

LEMMA FailKeeps ==
  ASSUME OpenShape, Fail
  PROVE  /\ app' \in App /\ app'.mode = app.mode /\ app'.at = "down" /\ fails' \in Nat
         /\ ~app'.drained /\ ~app'.again /\ app'.skipped = 0 /\ app'.data = "none"
         /\ fails' = IF fails < 2 THEN fails + 1 ELSE fails
<1>1. app.mode \in Modes
  BY DEF OpenShape, App
<1> QED BY <1>1, DownFields DEF Fail, OpenShape, FailsCounted
(* Every step keeps the shape, however much a process leaves. *)
LEMMA ShapeSteps ==
  ASSUME OpenShape, [OpenNext]_openVars
  PROVE  OpenShape'
<1>1. /\ devSession \in BOOLEAN /\ pipe \in Seq(Message) /\ app \in App
      /\ deaths \in Nat /\ slow \in Nat /\ fails \in Nat /\ app.mode \in Modes /\ app.at \in Ats
      /\ app.skipped \in 0 .. MaxStale /\ MaxStale \in Nat
  BY OpenAssumption DEF OpenShape, App
<1>2. CASE OpenStart
  <2>1. pipe' \in Seq(Message)
    BY <1>1, <1>2, LeftKeeps DEF OpenStart
  <2>2. app' \in App /\ app'.mode = app.mode /\ app'.again = app.again /\ app'.at \in {"ask_raw", "ask_open"}
    BY <1>1, <1>2, BecomeKeeps DEF OpenStart, Ats
  <2> QED BY <1>1, <1>2, <2>1, <2>2 DEF OpenStart, OpenShape
<1>3. CASE AskOpen
  <2>1. pipe' \in Seq(Message)
    BY <1>1, <1>3, MessageShapes, AppendKeeps DEF AskOpen
  <2>2. app' \in App /\ app'.mode = app.mode /\ app'.again = app.again /\ app'.at = "opening"
    BY <1>1, <1>3, BecomeKeeps DEF AskOpen, Ats
  <2> QED BY <1>1, <1>3, <2>1, <2>2 DEF AskOpen, OpenShape
<1>4. CASE ReadOpen
  <2>1. pipe' \in Seq(Message)
    BY <1>1, <1>4, TailKeeps DEF ReadOpen
  <2>2. \/ Fail
        \/ Granted /\ UNCHANGED fails
        \/ app.mode # "reuse" /\ Become("ask_close") /\ UNCHANGED fails
        \/ Become("draining") /\ UNCHANGED fails
    BY <1>4 DEF ReadOpen
  <2>3. CASE Fail
    BY <1>1, <1>4, <2>1, <2>3, FailKeeps DEF ReadOpen, OpenShape
  <2>4. CASE Granted /\ UNCHANGED fails
    <3>1. app' \in App /\ app'.mode = app.mode /\ app'.again = app.again /\ app'.at \in {"open", "ask_info"}
      BY <1>1, <2>4, BecomeKeeps DEF Granted, Ats
    <3> QED BY <1>1, <1>4, <2>1, <2>4, <3>1 DEF ReadOpen, OpenShape
  <2>5. CASE app.mode # "reuse" /\ Become("ask_close") /\ UNCHANGED fails
    <3>1. app' \in App /\ app'.mode = app.mode /\ app'.again = app.again /\ app'.at = "ask_close"
      BY <1>1, <2>5, BecomeKeeps DEF Ats
    <3> QED BY <1>1, <1>4, <2>1, <2>5, <3>1 DEF ReadOpen, OpenShape
  <2>6. CASE Become("draining") /\ UNCHANGED fails
    <3>1. app' \in App /\ app'.mode = app.mode /\ app'.again = app.again /\ app'.at = "draining"
      BY <1>1, <2>6, BecomeKeeps DEF Ats
    <3> QED BY <1>1, <1>4, <2>1, <2>6, <3>1 DEF ReadOpen, OpenShape
  <2> QED BY <2>2, <2>3, <2>4, <2>5, <2>6
<1>5. CASE DrainLeftovers
  <2>1. PICK n \in 0 .. Len(pipe) : pipe' = Rest(n)
    <3>1. (IF Len(pipe) < DrainCap THEN Len(pipe) ELSE DrainCap) \in 0 .. Len(pipe)
      BY <1>1, OpenAssumption
    <3> QED BY <1>5, <3>1 DEF DrainLeftovers
  <2>2. pipe' \in Seq(Message)
    BY <1>1, <2>1, RestKeeps
  <2>3. slow' \in Nat
    BY <1>1, <1>5 DEF DrainLeftovers
  <2>4. app' \in App /\ app'.mode = app.mode /\ app'.again = app.again /\ app'.at = "ask_open"
    BY <1>1, <1>5, DrainedKeeps DEF DrainLeftovers
  <2> QED BY <1>1, <1>5, <2>2, <2>3, <2>4 DEF DrainLeftovers, OpenShape
<1>6. CASE AskClose
  <2>1. pipe' \in Seq(Message)
    BY <1>1, <1>6, MessageShapes, AppendKeeps DEF AskClose
  <2>2. app' \in App /\ app'.mode = app.mode /\ app'.again = app.again /\ app.at = "ask_close"
    BY <1>1, <1>6, BecomeKeeps DEF AskClose, Ats
  <2> QED BY <1>1, <1>6, <2>1, <2>2 DEF AskClose, OpenShape
<1>7. CASE ReadClose
  <2>1. pipe' \in Seq(Message)
    BY <1>1, <1>7, TailKeeps DEF ReadClose
  <2>2. app' \in App /\ app'.mode = app.mode /\ app.at = "closing"
    BY <1>1, <1>7, ClosedKeeps DEF ReadClose
  <2> QED BY <1>1, <1>7, <2>1, <2>2 DEF ReadClose, OpenShape
<1>8. CASE AskDeviceInfo
  <2>1. pipe' \in Seq(Message)
    <3>1. Info(0) \in Seq(Message) /\ Info(1) \in Seq(Message)
      BY MessageShapes
    <3>2. pipe' = pipe \o Info(0) \/ pipe' = pipe \o Info(1)
      BY <1>8 DEF AskDeviceInfo
    <3> QED BY <1>1, <3>1, <3>2, ConcatKeeps
  <2>2. app' \in App /\ app'.mode = app.mode /\ app'.again = app.again /\ app'.at \in {"info", "raw"}
    BY <1>1, <1>8, BecomeKeeps DEF AskDeviceInfo, Ats
  <2> QED BY <1>1, <1>8, <2>1, <2>2 DEF AskDeviceInfo, OpenShape
<1>9. CASE ReadInfoData
  <2>1. \/ pipe' = Tail(pipe)
        \/ \E n \in 1 .. Len(pipe) : pipe' = Rest(n)
    BY <1>9 DEF ReadInfoData
  <2>2. pipe # <<>>
    BY <1>9 DEF ReadInfoData
  <2>3. pipe' \in Seq(Message)
    <3>1. Tail(pipe) \in Seq(Message)
      BY <1>1, <2>2, TailKeeps
    <3>2. \A n \in 1 .. Len(pipe) : Rest(n) \in Seq(Message)
      <4>1. \A n \in 1 .. Len(pipe) : n \in 0 .. Len(pipe)
        BY <1>1
      <4> QED BY <1>1, <4>1, RestKeeps
    <3> QED BY <2>1, <3>1, <3>2
  <2>4. \/ \E d \in {"none", "mine", "left", "mixed"} : app' = [app EXCEPT !.data = d] /\ UNCHANGED fails
        \/ Fail
    BY <1>9 DEF ReadInfoData
  <2>5. CASE Fail
    BY <1>1, <1>9, <2>3, <2>5, FailKeeps DEF ReadInfoData, OpenShape
  <2>6. ASSUME NEW d \in {"none", "mine", "left", "mixed"}, app' = [app EXCEPT !.data = d], UNCHANGED fails
        PROVE  OpenShape'
    <3>1. app' \in App /\ app'.mode = app.mode /\ app'.again = app.again /\ app'.at = app.at
      BY <1>1, <2>6 DEF App
    <3> QED BY <1>1, <1>9, <2>3, <2>6, <3>1 DEF ReadInfoData, OpenShape
  <2> QED BY <2>4, <2>5, <2>6
<1>10. CASE ReadInfoResponse
  <2>1. pipe' \in Seq(Message)
    BY <1>1, <1>10, TailKeeps DEF ReadInfoResponse
  <2>2. \/ Become(IF app.at = "raw" THEN "ask_open" ELSE "open") /\ UNCHANGED fails
        \/ Fail
        \/ app.skipped < MaxStale /\ app' = [app EXCEPT !.skipped = @ + 1] /\ UNCHANGED fails
    BY <1>10 DEF ReadInfoResponse, IsSkipped
  <2>3. CASE Become(IF app.at = "raw" THEN "ask_open" ELSE "open") /\ UNCHANGED fails
    <3>1. app' \in App /\ app'.mode = app.mode /\ app'.again = app.again /\ app'.at \in {"ask_open", "open"}
      BY <1>1, <2>3, BecomeKeeps DEF Ats
    <3> QED BY <1>1, <1>10, <2>1, <2>3, <3>1 DEF ReadInfoResponse, OpenShape
  <2>4. CASE Fail
    BY <1>1, <1>10, <2>1, <2>4, FailKeeps DEF ReadInfoResponse, OpenShape
  <2>5. CASE app.skipped < MaxStale /\ app' = [app EXCEPT !.skipped = @ + 1] /\ UNCHANGED fails
    <3>1. app.skipped + 1 \in 0 .. MaxStale
      BY <1>1, <2>5
    <3>2. app' \in App /\ app'.mode = app.mode /\ app'.again = app.again /\ app'.at = app.at
      BY <1>1, <2>5, <3>1 DEF App
    <3> QED BY <1>1, <1>10, <2>1, <2>5, <3>2 DEF ReadInfoResponse, OpenShape
  <2> QED BY <2>2, <2>3, <2>4, <2>5
<1>11. CASE ReadTimesOut
  <2>1. slow' \in Nat
    BY <1>1, <1>11 DEF ReadTimesOut
  <2>2. CASE app.at = "closing"
    <3>1. app' \in App /\ app'.mode = app.mode /\ app'.at = "ask_open"
      BY <1>1, <1>11, <2>2, ClosedKeeps DEF ReadTimesOut
    <3> QED BY <1>1, <1>11, <2>1, <2>2, <3>1 DEF ReadTimesOut, OpenShape
  <2>3. CASE app.at # "closing"
    BY <1>1, <1>11, <2>1, <2>3, FailKeeps DEF ReadTimesOut, OpenShape
  <2> QED BY <2>2, <2>3
<1>12. CASE ProcessEnds
  <2>1. PICK m \in Modes : app' = Down(m)
    BY <1>12 DEF ProcessEnds
  <2>2. app' \in App /\ app'.at = "down" /\ ~app'.again
    BY <2>1, DownFields
  <2>3. pipe' \in Seq(Message) /\ devSession' \in BOOLEAN
    <3>1. \/ \E l \in Leftovers : pipe' = Left(pipe \o l)
          \/ pipe' = Left(pipe)
      BY <1>12 DEF ProcessEnds
    <3>2. \A l \in Leftovers : pipe \o l \in Seq(Message)
      BY <1>1, LeftoversKeep, ConcatKeeps
    <3>3. devSession' \in BOOLEAN
      BY <1>1, <1>12, Zenon DEF ProcessEnds
    <3> QED BY <1>1, <3>1, <3>2, <3>3, LeftKeeps
  <2> QED BY <1>1, <1>12, <2>2, <2>3 DEF ProcessEnds, OpenShape
<1>13. CASE UNCHANGED openVars
  BY <1>13 DEF openVars, OpenShape
<1> QED BY <1>2, <1>3, <1>4, <1>5, <1>6, <1>7, <1>8, <1>9, <1>10, <1>11, <1>12, <1>13 DEF OpenNext, OpenStep
-----------------------------------------------------------------------------
(* The counts for which one death is healed: the drain of open gets        *)
(* through what a process leaves, but for the last read of the object, its *)
(* response and the reply to the OpenSession, and three late replies can   *)
(* be skipped.  With one read more, or one skip less, TLC finds opens that *)
(* fail twice.                                                             *)
LeftoversFit == MaxChunks <= DrainCap + 1 /\ MaxStale >= 3

Alike(s, r) ==
  /\ Len(r) = Len(s)
  /\ \A i \in 1 .. Len(s) : r[i].kind = s[i].kind /\ r[i].tx = s[i].tx /\ r[i].code = s[i].code

LEMMA AlikeLeaves ==
  ASSUME NEW s \in Seq(Message), NEW r \in Seq(Message), Alike(s, r), NEW n \in Nat
  PROVE  /\ Late(s, n) => Late(r, n)
         /\ \A k \in Nat : Heap(s, k, n) => Heap(r, k, n)
         /\ Leaves(s, n) => Leaves(r, n)
<1>1. Len(s) \in Nat
  OBVIOUS
<1>2. Late(s, n) => Late(r, n)
  BY <1>1 DEF Alike, Late, OpenReply
<1>3. ASSUME NEW k \in Nat, Heap(s, k, n) PROVE Heap(r, k, n)
  <2>1. Len(s) = k + 1 + n /\ Len(r) = Len(s)
    BY <1>3 DEF Alike, Heap
  <2>2. \A i \in 1 .. k : r[i].kind # "response"
    BY <1>3, <2>1 DEF Alike, Heap
  <2>3. Grants(r[k + 1])
    BY <1>3, <2>1 DEF Alike, Heap, Grants
  <2>4. \A i \in k + 2 .. Len(r) : OpenReply(r[i])
    BY <1>3, <2>1 DEF Alike, Heap, OpenReply
  <2> QED BY <2>1, <2>2, <2>3, <2>4 DEF Heap
<1>4. Refusal(s, n) => Refusal(r, n)
  BY <1>1 DEF Alike, Refusal, OpenReply
<1>5. 0 .. MaxChunks + 1 \subseteq Nat
  BY OpenAssumption
<1> QED BY <1>2, <1>3, <1>4, <1>5 DEF Leaves

LEMMA LeftAlike == ASSUME NEW s \in Seq(Message) PROVE Left(s) \in Seq(Message) /\ Alike(s, Left(s))
  BY LeftKeeps DEF Alike

LEMMA LateAppends ==
  ASSUME NEW s \in Seq(Message), NEW m \in Message, OpenReply(m), NEW n \in Nat
  PROVE  /\ Late(s, n) => Late(Append(s, m), n + 1)
         /\ \A k \in Nat : Heap(s, k, n) => Heap(Append(s, m), k, n + 1)
         /\ Leaves(s, n) => Leaves(Append(s, m), n + 1)
<1> DEFINE r == Append(s, m)
<1>1. /\ Len(s) \in Nat /\ r \in Seq(Message) /\ Len(r) = Len(s) + 1
      /\ r[Len(s) + 1] = m /\ \A i \in 1 .. Len(s) : r[i] = s[i]
  BY AppendKeeps
<1> HIDE DEF r
<1>2. Late(s, n) => Late(r, n + 1)
  BY <1>1 DEF Late
<1>3. ASSUME NEW k \in Nat, Heap(s, k, n) PROVE Heap(r, k, n + 1)
  <2>1. Len(s) = k + 1 + n /\ Len(r) = k + 1 + (n + 1) /\ r[k + 1] = s[k + 1]
    BY <1>1, <1>3 DEF Heap
  <2>2. \A i \in 1 .. k : r[i].kind # "response"
    BY <1>1, <1>3, <2>1 DEF Heap
  <2>3. \A i \in k + 2 .. Len(r) : OpenReply(r[i])
    <3>1. SUFFICES ASSUME NEW i \in k + 2 .. Len(r) PROVE OpenReply(r[i])
      OBVIOUS
    <3>2. i = Len(s) + 1 \/ (i \in k + 2 .. Len(s) /\ i \in 1 .. Len(s))
      BY <1>1, <2>1
    <3>3. CASE i = Len(s) + 1
      BY <1>1, <3>3
    <3>4. CASE i \in k + 2 .. Len(s) /\ i \in 1 .. Len(s)
      <4>1. OpenReply(s[i])
        BY <1>3, <3>4 DEF Heap
      <4> QED BY <1>1, <3>4, <4>1
    <3> QED BY <3>2, <3>3, <3>4
  <2> QED BY <1>3, <2>1, <2>2, <2>3 DEF Heap
<1>4. ASSUME Refusal(s, n) PROVE Refusal(r, n + 1)
  <2>1. Len(s) = 1 + n /\ Len(r) = 1 + (n + 1) /\ r[1] = s[1]
    BY <1>1, <1>4 DEF Refusal
  <2>2. \A i \in 2 .. Len(r) : OpenReply(r[i])
    BY <1>1, <1>4, <2>1 DEF Refusal
  <2> QED BY <1>4, <2>1, <2>2 DEF Refusal
<1>5. 0 .. MaxChunks + 1 \subseteq Nat
  BY OpenAssumption
<1> QED BY <1>2, <1>3, <1>4, <1>5 DEF Leaves, r

LEMMA TailLeaves ==
  ASSUME NEW s \in Seq(Message), s # <<>>, NEW n \in Nat
  PROVE  /\ Late(s, n + 1) => OpenReply(s[1]) /\ Late(Tail(s), n)
         /\ Heap(s, 0, n) => Grants(s[1]) /\ Late(Tail(s), n)
         /\ \A k \in Nat : Heap(s, k + 1, n) => s[1].kind # "response" /\ Heap(Tail(s), k, n)
         /\ Refusal(s, n) => s[1].kind = "response" /\ s[1].code = "refused" /\ Late(Tail(s), n)
<1> DEFINE r == Tail(s)
<1>1. /\ Len(s) \in Nat /\ Len(s) >= 1 /\ r \in Seq(Message) /\ Len(r) = Len(s) - 1
      /\ \A i \in 1 .. Len(s) - 1 : r[i] = s[i + 1]
  BY TailKeeps
<1> HIDE DEF r
<1>2. Late(s, n + 1) => OpenReply(s[1]) /\ Late(r, n)
  BY <1>1 DEF Late
<1>3. Heap(s, 0, n) => Grants(s[1]) /\ Late(r, n)
  BY <1>1 DEF Heap, Late
<1>4. ASSUME NEW k \in Nat, Heap(s, k + 1, n) PROVE s[1].kind # "response" /\ Heap(r, k, n)
  <2>1. Len(s) = k + 2 + n /\ Len(r) = k + 1 + n
    BY <1>1, <1>4 DEF Heap
  <2>2. s[1].kind # "response" /\ \A i \in 1 .. k : r[i].kind # "response"
    BY <1>1, <1>4, <2>1 DEF Heap
  <2>3. Grants(r[k + 1])
    <3>1. r[k + 1] = s[k + 2] /\ (k + 1) + 1 = k + 2
      BY <1>1, <2>1
    <3> QED BY <1>4, <3>1 DEF Heap
  <2>4. \A i \in k + 2 .. Len(r) : OpenReply(r[i])
    <3>1. SUFFICES ASSUME NEW i \in k + 2 .. Len(r) PROVE OpenReply(r[i])
      OBVIOUS
    <3>2. r[i] = s[i + 1] /\ i + 1 \in (k + 1) + 2 .. Len(s)
      BY <1>1, <2>1
    <3> QED BY <1>4, <3>2 DEF Heap
  <2> QED BY <2>1, <2>2, <2>3, <2>4 DEF Heap
<1>5. Refusal(s, n) => s[1].kind = "response" /\ s[1].code = "refused" /\ Late(r, n)
  BY <1>1 DEF Refusal, Late
<1> QED BY <1>2, <1>3, <1>4, <1>5 DEF r

LEMMA OpenStartLives ==
  ASSUME OpenShape, Lives, OpenStart
  PROVE  Lives'
<1>1. /\ pipe \in Seq(Message) /\ pipe' = Left(pipe) /\ app \in App /\ app.at = "down"
      /\ UNCHANGED <<devSession, deaths, slow, fails>>
      /\ pipe' \in Seq(Message) /\ Alike(pipe, pipe')
  BY LeftAlike DEF OpenShape, OpenStart
<1>2. /\ app'.at = (IF app.mode = "ptp" THEN "ask_raw" ELSE "ask_open") /\ app'.mode = app.mode
      /\ app'.drained = app.drained /\ app'.again = app.again
      /\ app'.skipped = app.skipped /\ app'.data = app.data
  BY <1>1, BecomeKeeps DEF OpenStart, Ats
<1>3. ASSUME FirstLife PROVE FirstLife'
  <2>1. Len(pipe') = 0
    BY <1>1, <1>3 DEF FirstLife, Alike
  <2>2. pipe' = <<>>
    BY <1>1, <2>1
  <2> QED BY <1>1, <1>2, <1>3, <2>2 DEF FirstLife
<1>4. ASSUME AfterDeath, app.mode # "ptp" PROVE AfterDeath'
  <2>1. InPipe(pipe, 0) /\ ~app.again /\ ~app.drained
    BY <1>1, <1>4 DEF AfterDeath
  <2>2. (Leaves(pipe, 0) => Leaves(pipe', 0)) /\ (Failed(pipe, 0) => Failed(pipe', 0))
    BY <1>1, AlikeLeaves DEF Failed
  <2>3. InPipe(pipe, 0)'
    BY <1>1, <1>2, <2>1, <2>2 DEF InPipe
  <2> QED BY <1>1, <1>2, <1>4, <2>1, <2>3 DEF AfterDeath
<1> QED BY <1>1, <1>2, <1>3, <1>4 DEF Lives

LEMMA AskOpenLives ==
  ASSUME OpenShape, Lives, AskOpen
  PROVE  Lives'
<1> DEFINE m == Response(0, IF devSession THEN "already" ELSE "ok")
<1>1. /\ pipe \in Seq(Message) /\ pipe' = Append(pipe, m) /\ app \in App /\ app.at = "ask_open"
      /\ devSession' = TRUE /\ UNCHANGED <<deaths, slow, fails>>
  BY DEF OpenShape, AskOpen
<1>2. m \in Message /\ OpenReply(m) /\ (~devSession => m.code = "ok" /\ Grants(m))
  BY MessageShapes DEF OpenReply, Grants
<1> HIDE DEF m
<1>3. /\ app'.at = "opening" /\ app'.mode = app.mode
      /\ app'.drained = app.drained /\ app'.again = app.again
      /\ app'.skipped = app.skipped /\ app'.data = app.data
  BY <1>1, BecomeKeeps DEF AskOpen, Ats
<1>4. /\ pipe' \in Seq(Message) /\ Len(pipe') = Len(pipe) + 1 /\ Len(pipe) \in Nat
      /\ pipe'[Len(pipe) + 1] = m /\ \A i \in 1 .. Len(pipe) : pipe'[i] = pipe[i]
  BY <1>1, <1>2, AppendKeeps
<1>5. \A n \in Nat : /\ Late(pipe, n) => Late(pipe', n + 1)
                     /\ \A k \in Nat : Heap(pipe, k, n) => Heap(pipe', k, n + 1)
                     /\ Leaves(pipe, n) => Leaves(pipe', n + 1)
  BY <1>1, <1>2, LateAppends
<1>6. ASSUME FirstLife PROVE FirstLife'
  <2>1. Len(pipe) = 0 /\ Late(pipe, 0) /\ ~devSession
    BY <1>1, <1>6 DEF FirstLife, Late
  <2>2. Late(pipe', 1) /\ pipe'[1].code = "ok"
    BY <1>2, <1>4, <1>5, <2>1
  <2> QED BY <1>1, <1>3, <1>6, <2>2 DEF FirstLife
<1>7. ASSUME AfterDeath PROVE AfterDeath'
  <2>1. InPipe(pipe, 0) /\ (app.again => ~devSession)
    BY <1>1, <1>7 DEF AfterDeath
  <2>2. Late(pipe, 0) => Late(pipe', 1)
    BY <1>5
  <2>3. Late(pipe, 1) => Late(pipe', 2)
    BY <1>5
  <2>4. (Heap(pipe, 0, 0) => Heap(pipe', 0, 1)) /\ (Heap(pipe, 0, 1) => Heap(pipe', 0, 2))
    BY <1>5
  <2>5. (Heap(pipe, 1, 1) => Heap(pipe', 1, 2)) /\ (Heap(pipe, 0, 2) => Heap(pipe', 0, 3))
    BY <1>5
  <2>6. Leaves(pipe, 0) => Leaves(pipe', 1)
    BY <1>5
  <2>7. ASSUME app.again PROVE pipe'[1].code = "ok"
    <3>1. Late(pipe, 0) \/ Heap(pipe, 0, 0)
      BY <2>1, <2>7 DEF InPipe, Closed
    <3>2. CASE Late(pipe, 0)
      BY <1>2, <1>4, <2>1, <2>7, <3>2 DEF Late
    <3>3. CASE Heap(pipe, 0, 0)
      BY <1>4, <3>3 DEF Heap, Grants
    <3> QED BY <3>1, <3>2, <3>3
  <2>8. InPipe(pipe, 1)'
    BY <1>1, <1>3, <2>1, <2>2, <2>3, <2>4, <2>5, <2>6, <2>7 DEF InPipe, Closed, Failed, Drained
  <2> QED BY <1>1, <1>3, <1>7, <2>8 DEF AfterDeath
<1> QED BY <1>1, <1>3, <1>6, <1>7 DEF Lives
(* Where a process goes that reads the reply to its OpenSession, or one    *)
(* that was late, or what is not a reply.                                  *)
LEMMA ReadOpenLives ==
  ASSUME OpenShape, Lives, LeftoversFit, ReadOpen
  PROVE  Lives'
<1>1. /\ pipe \in Seq(Message) /\ pipe # <<>> /\ pipe' = Tail(pipe) /\ app \in App /\ app.at = "opening"
      /\ UNCHANGED <<devSession, deaths, slow>> /\ Head(pipe) = pipe[1] /\ pipe[1] \in Message
      /\ Len(pipe) \in Nat /\ Len(pipe') = Len(pipe) - 1
  BY TailKeeps DEF OpenShape, ReadOpen
<1>2. Granted => /\ app'.at = (IF app.mode = "ptp" THEN "open" ELSE "ask_info") /\ app'.mode = app.mode
                 /\ app'.drained = app.drained /\ app'.again = app.again
                 /\ app'.skipped = app.skipped /\ app'.data = app.data
  BY <1>1, BecomeKeeps DEF Granted, Ats
<1>3. ASSUME FirstLife PROVE FirstLife'
  <2>1. Late(pipe, 1) /\ pipe[1].code = "ok"
    BY <1>1, <1>3 DEF FirstLife
  <2>2. OpenReply(pipe[1]) /\ Len(pipe') = 0
    BY <1>1, <2>1 DEF Late
  <2>3. Granted /\ UNCHANGED fails
    BY <1>1, <2>1, <2>2 DEF ReadOpen, OpenReply
  <2>4. pipe' = <<>>
    BY <1>1, <2>2, TailKeeps
  <2> QED BY <1>1, <1>2, <1>3, <2>3, <2>4 DEF FirstLife
<1>4. ASSUME AfterDeath, app.mode # "ptp" PROVE AfterDeath'
  <2>1. InPipe(pipe, 1) /\ devSession = TRUE /\ app.data = "none" /\ app.skipped = 0 /\ fails \in 0 .. 1
        /\ (app.drained => fails = 0)
    BY <1>1, <1>4 DEF AfterDeath, OpenShape
  <2>2. \A n \in Nat : Late(pipe, n + 1) => OpenReply(pipe[1]) /\ Late(pipe', n)
    BY <1>1, TailLeaves
  <2>3. \A n \in Nat : Heap(pipe, 0, n) => Grants(pipe[1]) /\ Late(pipe', n)
    BY <1>1, TailLeaves
  <2>4. \A k, n \in Nat : Heap(pipe, k + 1, n) => pipe[1].kind # "response" /\ Heap(pipe', k, n)
    BY <1>1, TailLeaves
  <2>5. \A n \in Nat :
          Refusal(pipe, n) => pipe[1].kind = "response" /\ pipe[1].code = "refused" /\ Late(pipe', n)
    BY <1>1, TailLeaves
  <2>6. Late(pipe, 1) => OpenReply(pipe[1]) /\ Late(pipe', 0)
    BY <2>2
  <2>7. Late(pipe, 2) => OpenReply(pipe[1]) /\ Late(pipe', 1)
    BY <2>2
  <2>8. /\ Heap(pipe, 0, 1) => Grants(pipe[1]) /\ Late(pipe', 1)
        /\ Heap(pipe, 0, 2) => Grants(pipe[1]) /\ Late(pipe', 2)
        /\ Heap(pipe, 0, 3) => Grants(pipe[1]) /\ Late(pipe', 3)
    BY <2>3
  <2>9. Heap(pipe, 1, 2) => pipe[1].kind # "response" /\ Heap(pipe', 0, 2)
    BY <2>4
  <2>10. Refusal(pipe, 1) => pipe[1].kind = "response" /\ pipe[1].code = "refused" /\ Late(pipe', 1)
    BY <2>5
  <2>11. (\E k \in 0 .. MaxChunks + 1 : Heap(pipe, k, 1)) =>
           \/ Heap(pipe, 0, 1)
           \/ pipe[1].kind # "response" /\ \E k \in 0 .. MaxChunks : Heap(pipe', k, 1)
    <3>1. SUFFICES ASSUME NEW k \in 0 .. MaxChunks + 1, Heap(pipe, k, 1), k # 0
                   PROVE  pipe[1].kind # "response" /\ \E l \in 0 .. MaxChunks : Heap(pipe', l, 1)
      OBVIOUS
    <3>2. MaxChunks \in Nat
      BY OpenAssumption
    <3>3. k - 1 \in 0 .. MaxChunks /\ k - 1 \in Nat /\ k = (k - 1) + 1
      BY <3>1, <3>2
    <3>4. Heap(pipe, (k - 1) + 1, 1)
      BY <3>1, <3>3
    <3>5. pipe[1].kind # "response" /\ Heap(pipe', k - 1, 1)
      BY <2>4, <3>3, <3>4
    <3> QED BY <3>3, <3>5
  (* What may be read, and what is behind it. *)
  <2>12. \/ Late(pipe, 1) \/ Heap(pipe, 0, 1)
         \/ ~app.again /\ (Late(pipe, 2) \/ Heap(pipe, 0, 2) \/ Heap(pipe, 0, 3))
         \/ ~app.again /\ fails = 0 /\ app.drained /\ Heap(pipe, 1, 2)
         \/ ~app.again /\ fails = 0 /\ ~app.drained /\ Refusal(pipe, 1)
         \/ ~app.again /\ fails = 0 /\ ~app.drained /\ pipe[1].kind # "response"
            /\ \E k \in 0 .. MaxChunks : Heap(pipe', k, 1)
    <3>1. app.again => Late(pipe, 1) \/ Heap(pipe, 0, 1)
      BY <2>1 DEF InPipe, Closed
    <3>2. ~app.again /\ fails = 1 => Late(pipe, 2) \/ Heap(pipe, 0, 3)
      BY <2>1 DEF InPipe, Failed
    <3>3. ~app.again /\ fails # 1 /\ app.drained =>
            Late(pipe, 1) \/ Late(pipe, 2) \/ Heap(pipe, 0, 2) \/ Heap(pipe, 1, 2)
      BY <2>1 DEF InPipe, Drained
    <3>4. ~app.again /\ fails # 1 /\ ~app.drained => Leaves(pipe, 1)
      BY <2>1 DEF InPipe
    <3>5. fails = 0 \/ fails = 1
      BY <2>1
    <3> QED BY <2>11, <3>1, <3>2, <3>3, <3>4, <3>5 DEF Leaves
  <2>13. app.again => pipe[1].code = "ok"
    BY <2>1 DEF InPipe
  <2>14. CASE pipe[1].kind # "response"
    <3>1. \/ ~app.again /\ fails = 0 /\ app.drained /\ Heap(pipe', 0, 2)
          \/ ~app.again /\ fails = 0 /\ ~app.drained /\ \E k \in 0 .. MaxChunks : Heap(pipe', k, 1)
      BY <2>6, <2>7, <2>8, <2>9, <2>10, <2>12, <2>14 DEF OpenReply, Grants
    <3>2. CASE app.drained
      <4>1. Fail
        BY <1>1, <2>14, <3>2 DEF ReadOpen
      <4>2. /\ app'.at = "down" /\ ~app'.drained /\ ~app'.again /\ app'.skipped = 0 /\ app'.data = "none"
            /\ fails' = IF fails < 2 THEN fails + 1 ELSE fails
        BY <4>1, FailKeeps
      <4>3. fails' = 1 /\ Heap(pipe', 0, 2)
        BY <3>1, <3>2, <4>2
      <4> QED BY <4>2, <4>3 DEF AfterDeath, InPipe, Failed
    <3>3. CASE ~app.drained
      <4>1. Become("draining") /\ UNCHANGED fails
        BY <1>1, <2>14, <3>3 DEF ReadOpen
      <4>2. /\ app'.at = "draining" /\ app'.drained = app.drained /\ app'.again = app.again
            /\ app'.skipped = app.skipped /\ app'.data = app.data
        BY <1>1, <4>1, BecomeKeeps DEF Ats
      <4> QED BY <1>1, <2>1, <3>1, <3>3, <4>1, <4>2 DEF AfterDeath
    <3> QED BY <3>2, <3>3
  <2>15. CASE pipe[1].kind = "response" /\ pipe[1].code = "refused"
    <3>1. ~app.again /\ fails = 0 /\ Late(pipe', 1)
      BY <2>6, <2>7, <2>8, <2>9, <2>10, <2>12, <2>13, <2>15 DEF OpenReply, Grants
    <3>2. Fail
      BY <1>1, <2>15 DEF ReadOpen
    <3>3. /\ app'.at = "down" /\ ~app'.drained /\ ~app'.again /\ app'.skipped = 0 /\ app'.data = "none"
          /\ fails' = IF fails < 2 THEN fails + 1 ELSE fails
      BY <3>2, FailKeeps
    <3>4. fails' = 1
      BY <3>1, <3>3
    <3> QED BY <3>1, <3>3, <3>4 DEF AfterDeath, InPipe, Failed
  <2>16. CASE pipe[1].kind = "response" /\ pipe[1].code # "refused"
    <3>1. \E n \in 0 .. 3 : Late(pipe', n)
      <4>1. Late(pipe', 0) \/ Late(pipe', 1) \/ Late(pipe', 2) \/ Late(pipe', 3)
        BY <2>6, <2>7, <2>8, <2>9, <2>10, <2>12, <2>16
      <4> QED BY <4>1
    <3>2. pipe[1].code = "already" => Late(pipe', 0) \/ Late(pipe', 1)
      BY <2>6, <2>7, <2>8, <2>9, <2>10, <2>12, <2>16 DEF Grants
    <3>3. \/ Granted /\ UNCHANGED fails
          \/ pipe[1].code = "already" /\ app.mode # "reuse" /\ Become("ask_close") /\ UNCHANGED fails
      BY <1>1, <2>13, <2>16 DEF ReadOpen
    <3>4. CASE Granted /\ UNCHANGED fails
      BY <1>1, <1>2, <1>4, <2>1, <3>1, <3>4 DEF AfterDeath
    <3>5. CASE pipe[1].code = "already" /\ app.mode # "reuse" /\ Become("ask_close") /\ UNCHANGED fails
      <4>1. /\ app'.at = "ask_close" /\ app'.drained = app.drained /\ app'.again = app.again
            /\ app'.skipped = app.skipped /\ app'.data = app.data
        BY <1>1, <3>5, BecomeKeeps DEF Ats
      <4> QED BY <1>1, <2>1, <3>2, <3>5, <4>1 DEF AfterDeath
    <3> QED BY <3>3, <3>4, <3>5
  <2> QED BY <2>14, <2>15, <2>16
<1>5. app'.mode = app.mode
  <2>1. Fail \/ Granted \/ Become("ask_close") \/ Become("draining")
    BY DEF ReadOpen
  <2> QED BY <1>1, <1>2, <2>1, FailKeeps, BecomeKeeps DEF Ats
<1> QED BY <1>1, <1>3, <1>4, <1>5 DEF Lives

LEMMA DrainLives ==
  ASSUME OpenShape, Lives, LeftoversFit, DrainLeftovers
  PROVE  Lives'
<1>1. /\ pipe \in Seq(Message) /\ app \in App /\ app.at = "draining" /\ slow \in Nat
      /\ UNCHANGED <<devSession, deaths, fails>>
  BY DEF OpenShape, DrainLeftovers
<1>2. /\ app'.at = "ask_open" /\ app'.mode = app.mode /\ app'.drained = TRUE /\ app'.again = app.again
      /\ app'.skipped = app.skipped /\ app'.data = app.data
  BY <1>1, DrainedKeeps DEF DrainLeftovers
<1>3. SUFFICES ASSUME slow' = 0 PROVE Lives'
  BY DEF Lives
<1>4. slow = 0 /\ pipe' = Rest(IF Len(pipe) < DrainCap THEN Len(pipe) ELSE DrainCap)
  BY <1>1, <1>3 DEF DrainLeftovers
<1>5. ~FirstLife
  BY <1>1 DEF FirstLife
<1>6. ASSUME AfterDeath PROVE AfterDeath'
  <2>1. PICK k \in 0 .. MaxChunks : Heap(pipe, k, 1)
    BY <1>1, <1>6 DEF AfterDeath
  <2>2. /\ MaxChunks \in Nat /\ DrainCap \in Nat /\ DrainCap >= 1 /\ k <= DrainCap + 1 /\ k \in Nat
        /\ Len(pipe) = k + 2
    BY <2>1, OpenAssumption DEF LeftoversFit, Heap
  <2> PICK n \in Nat : n = IF Len(pipe) < DrainCap THEN Len(pipe) ELSE DrainCap
    BY <2>2
  <2>3. n \in 0 .. Len(pipe) /\ n \in Nat /\ (n = k + 2 \/ n = k + 1 \/ n = k \/ n = k - 1)
    BY <2>2
  <2>4. /\ pipe' \in Seq(Message) /\ Len(pipe') = k + 2 - n
        /\ \A i \in 1 .. k + 2 - n : pipe'[i] = pipe[n + i]
    <3>1. pipe' = Rest(n)
      BY <1>4
    <3>2. /\ Rest(n) \in Seq(Message) /\ Len(Rest(n)) = Len(pipe) - n
          /\ \A i \in 1 .. Len(pipe) - n : Rest(n)[i] = pipe[n + i]
      BY <1>1, <2>3, RestKeeps
    <3> QED BY <2>2, <3>1, <3>2
  <2>5. /\ \A i \in 1 .. k : pipe[i].kind # "response"
        /\ Grants(pipe[k + 1]) /\ OpenReply(pipe[k + 2])
    BY <2>1, <2>2 DEF Heap
  <2>6. Drained(pipe', 0)
    <3>1. CASE n = k + 2
      BY <2>2, <2>4, <3>1 DEF Drained, Late
    <3>2. CASE n = k + 1
      BY <2>2, <2>4, <2>5, <3>2 DEF Drained, Late
    <3>3. CASE n = k
      <4>1. Len(pipe') = 2 /\ pipe'[1] = pipe[k + 1] /\ pipe'[2] = pipe[k + 2]
        BY <2>2, <2>4, <3>3
      <4> QED BY <2>5, <4>1 DEF Drained, Heap
    <3>4. CASE n = k - 1
      <4>1. k >= 1 /\ n + 1 = k
        BY <2>2, <2>3, <3>4
      <4>2. Len(pipe') = 3 /\ pipe'[1] = pipe[k] /\ pipe'[2] = pipe[k + 1] /\ pipe'[3] = pipe[k + 2]
        <5>1. n \in Nat /\ k + 2 - n = 3 /\ n + 1 = k /\ n + 2 = k + 1 /\ n + 3 = k + 2
          BY <2>2, <2>3, <4>1
        <5>2. 1 \in 1 .. k + 2 - n /\ 2 \in 1 .. k + 2 - n /\ 3 \in 1 .. k + 2 - n
          BY <5>1
        <5>3. pipe'[1] = pipe[n + 1] /\ pipe'[2] = pipe[n + 2] /\ pipe'[3] = pipe[n + 3]
          BY <2>4, <5>2
        <5> QED BY <2>4, <5>1, <5>3
      <4>3. pipe'[1].kind # "response" /\ Grants(pipe'[2]) /\ OpenReply(pipe'[3])
        BY <2>2, <2>5, <4>1, <4>2
      <4> QED BY <4>2, <4>3 DEF Drained, Heap
    <3> QED BY <2>3, <3>1, <3>2, <3>3, <3>4
  <2> QED BY <1>1, <1>2, <1>6, <2>6 DEF AfterDeath, InPipe
<1> QED BY <1>1, <1>2, <1>4, <1>5, <1>6 DEF Lives

LEMMA AskCloseLives ==
  ASSUME OpenShape, Lives, AskClose
  PROVE  Lives'
<1> DEFINE m == Response(1, IF devSession THEN "ok" ELSE "refused")
<1>1. /\ pipe \in Seq(Message) /\ pipe' = Append(pipe, m) /\ app \in App /\ app.at = "ask_close"
      /\ devSession' = FALSE /\ UNCHANGED <<deaths, slow, fails>>
  BY DEF OpenShape, AskClose
<1>2. m \in Message /\ (devSession => Grants(m))
  BY MessageShapes DEF Grants
<1> HIDE DEF m
<1>3. /\ app'.at = "closing" /\ app'.mode = app.mode
      /\ app'.drained = app.drained /\ app'.again = app.again
      /\ app'.skipped = app.skipped /\ app'.data = app.data
  BY <1>1, BecomeKeeps DEF AskClose, Ats
<1>4. Len(pipe') = Len(pipe) + 1 /\ Len(pipe) \in Nat /\ pipe'[Len(pipe) + 1] = m
  BY <1>1, <1>2, AppendKeeps
<1>5. ~FirstLife
  BY <1>1 DEF FirstLife
<1>6. ASSUME AfterDeath PROVE AfterDeath'
  <2>1. devSession /\ (Len(pipe) = 0 \/ Len(pipe) = 1)
    BY <1>1, <1>6 DEF AfterDeath, Late
  <2>2. Len(pipe') \in 1 .. 2 /\ Grants(pipe'[Len(pipe')])
    <3>1. Len(pipe') \in 1 .. 2 /\ pipe'[Len(pipe')] = m
      <4>1. CASE Len(pipe) = 0
        BY <1>4, <4>1
      <4>2. CASE Len(pipe) = 1
        BY <1>4, <4>2
      <4> QED BY <2>1, <4>1, <4>2
    <3> QED BY <1>2, <2>1, <3>1
  <2> QED BY <1>1, <1>3, <1>6, <2>2 DEF AfterDeath
<1> QED BY <1>1, <1>3, <1>5, <1>6 DEF Lives

LEMMA ReadCloseLives ==
  ASSUME OpenShape, Lives, ReadClose
  PROVE  Lives'
<1>1. /\ pipe \in Seq(Message) /\ pipe # <<>> /\ pipe' = Tail(pipe) /\ app \in App /\ app.at = "closing"
      /\ UNCHANGED <<devSession, deaths, slow, fails>>
  BY DEF OpenShape, ReadClose
<1>2. /\ app'.at = "ask_open" /\ app'.mode = app.mode /\ app'.drained = FALSE /\ app'.again = TRUE
      /\ app'.skipped = app.skipped /\ app'.data = app.data
  BY <1>1, ClosedKeeps DEF ReadClose
<1>3. /\ Len(pipe) \in Nat /\ Len(pipe') = Len(pipe) - 1 /\ pipe' \in Seq(Message)
      /\ \A i \in 1 .. Len(pipe) - 1 : pipe'[i] = pipe[i + 1]
  BY <1>1, TailKeeps
<1>4. ~FirstLife
  BY <1>1 DEF FirstLife
<1>5. ASSUME AfterDeath PROVE AfterDeath'
  <2>1. ~devSession /\ (Len(pipe) = 1 \/ (Len(pipe) = 2 /\ Grants(pipe[2])))
    <3>1. ~devSession /\ Len(pipe) \in 1 .. 2 /\ Grants(pipe[Len(pipe)])
      BY <1>1, <1>5 DEF AfterDeath
    <3> QED BY <1>3, <3>1
  <2>2. CASE Len(pipe) = 1
    <3>1. Late(pipe', 0)
      BY <1>3, <2>2 DEF Late
    <3> QED BY <1>1, <1>2, <1>5, <2>1, <3>1 DEF AfterDeath, InPipe, Closed
  <2>3. CASE Len(pipe) = 2 /\ Grants(pipe[2])
    <3>1. Len(pipe') = 1 /\ pipe'[1] = pipe[2]
      BY <1>3, <2>3
    <3>2. Heap(pipe', 0, 0)
      BY <2>3, <3>1 DEF Heap
    <3> QED BY <1>1, <1>2, <1>5, <2>1, <3>2 DEF AfterDeath, InPipe, Closed
  <2> QED BY <2>1, <2>2, <2>3
<1> QED BY <1>1, <1>2, <1>4, <1>5 DEF Lives

LEMMA AskDeviceInfoLives ==
  ASSUME OpenShape, Lives, AskDeviceInfo
  PROVE  Lives'
<1>1. PICK tx \in 0 .. 1 : /\ pipe' = pipe \o Info(tx)
                           /\ \/ app.at = "ask_info" /\ Become("info") /\ tx = 1
                              \/ app.at = "ask_raw" /\ Become("raw") /\ tx = 0
  BY DEF AskDeviceInfo
<1>2. pipe \in Seq(Message) /\ app \in App /\ UNCHANGED <<devSession, deaths, slow, fails>>
  BY DEF OpenShape, AskDeviceInfo
<1>3. /\ app'.at = (IF app.at = "ask_info" THEN "info" ELSE "raw") /\ app'.mode = app.mode
      /\ app'.drained = app.drained /\ app'.again = app.again
      /\ app'.skipped = app.skipped /\ app'.data = app.data
  BY <1>1, <1>2, BecomeKeeps DEF Ats
<1>4. /\ Info(tx) \in Seq(Message) /\ Len(Info(tx)) = 2
      /\ InfoData(Info(tx)[1]) /\ Grants(Info(tx)[2]) /\ Info(tx)[2].tx = tx
  BY MessageShapes
<1>5. /\ Len(pipe) \in Nat /\ Len(pipe') = Len(pipe) + 2
      /\ \A i \in 1 .. Len(pipe) : pipe'[i] = pipe[i]
      /\ pipe'[Len(pipe) + 1] = Info(tx)[1] /\ pipe'[Len(pipe) + 2] = Info(tx)[2]
  <2>1. /\ Len(pipe) \in Nat /\ Len(pipe') = Len(pipe) + Len(Info(tx))
        /\ \A i \in 1 .. Len(pipe) : pipe'[i] = pipe[i]
        /\ \A i \in 1 .. Len(Info(tx)) : pipe'[Len(pipe) + i] = Info(tx)[i]
    <3>1. PICK i \in Seq(Message) : i = Info(tx)
      BY <1>4
    <3>2. /\ Len(pipe \o i) = Len(pipe) + Len(i) /\ Len(pipe) \in Nat
          /\ \A j \in 1 .. Len(pipe) : (pipe \o i)[j] = pipe[j]
          /\ \A j \in 1 .. Len(i) : (pipe \o i)[Len(pipe) + j] = i[j]
      BY <1>2, ConcatKeeps
    <3>3. pipe' = pipe \o i
      BY <1>1, <3>1
    <3> QED BY <3>1, <3>2, <3>3
  <2> QED BY <1>4, <2>1
<1>6. ASSUME Len(pipe) <= 3, \A i \in 1 .. Len(pipe) : OpenReply(pipe[i]),
             app.data = "none", app.skipped = 0
      PROVE  Informed' /\ pipe'[Len(pipe')].tx = tx
  <2>1. /\ Len(pipe') >= 2 /\ Len(pipe') <= 5 /\ Len(pipe') - 2 = Len(pipe)
        /\ Len(pipe') - 1 = Len(pipe) + 1
    BY <1>5, <1>6
  <2>2. InfoData(pipe'[Len(pipe') - 1]) /\ Grants(pipe'[Len(pipe')]) /\ pipe'[Len(pipe')].tx = tx
    BY <1>4, <1>5, <2>1
  <2>3. \A i \in 1 .. Len(pipe') - 2 : OpenReply(pipe'[i])
    BY <1>5, <1>6, <2>1
  <2> QED BY <1>3, <1>6, <2>1, <2>2, <2>3 DEF Informed
<1>7. ASSUME FirstLife PROVE FirstLife'
  <2>1. pipe = <<>> /\ app.data = "none" /\ app.skipped = 0
    BY <1>1, <1>7 DEF FirstLife
  <2>2. Len(pipe) = 0 /\ Len(pipe') = 2
    BY <1>5, <2>1
  <2>3. Informed' /\ pipe'[Len(pipe')].tx = tx
    BY <1>6, <2>1, <2>2
  <2>4. CASE app.at = "ask_info"
    <3>1. tx = 1 /\ app'.at = "info" /\ app'.mode # "ptp"
      BY <1>1, <1>3, <1>7, <2>4 DEF FirstLife
    <3> QED BY <1>2, <1>3, <1>7, <2>1, <2>2, <2>3, <3>1 DEF FirstLife
  <2>5. CASE app.at = "ask_raw"
    <3>1. app'.at = "raw" /\ app'.mode = "ptp" /\ ~devSession'
      BY <1>2, <1>3, <1>7, <2>5 DEF FirstLife
    <3> QED BY <1>2, <1>3, <1>7, <2>1, <2>2, <2>3, <3>1 DEF FirstLife
  <2> QED BY <1>1, <2>4, <2>5
<1>8. ASSUME AfterDeath PROVE AfterDeath'
  <2>1. app.at = "ask_info" /\ tx = 1
    BY <1>1, <1>8 DEF AfterDeath
  <2>2. app.data = "none" /\ app.skipped = 0 /\ \E n \in 0 .. 3 : Late(pipe, n)
    BY <1>8, <2>1 DEF AfterDeath
  <2>3. Len(pipe) <= 3 /\ \A i \in 1 .. Len(pipe) : OpenReply(pipe[i])
    BY <2>2 DEF Late
  <2>4. Informed' /\ pipe'[Len(pipe')].tx = 1
    BY <1>6, <2>1, <2>2, <2>3
  <2> QED BY <1>2, <1>3, <1>8, <2>1, <2>2, <2>4 DEF AfterDeath
<1> QED BY <1>2, <1>3, <1>7, <1>8 DEF Lives

(* What is read of a device info. *)
LEMMA InfoCases ==
  ASSUME pipe \in Seq(Message), Informed
  PROVE  \/ app.data = "mine" /\ Len(pipe) = 1 /\ Grants(pipe[1])
         \/ app.data = "none" /\ Len(pipe) = 2 /\ InfoData(pipe[1]) /\ Grants(pipe[2])
         \/ app.data = "none" /\ Len(pipe) >= 3 /\ OpenReply(pipe[1])
<1>1. Len(pipe) \in Nat
  OBVIOUS
<1>2. CASE app.data = "mine" /\ Len(pipe) = 1 /\ Grants(pipe[1])
  BY <1>2
<1>3. CASE /\ app.data = "none" /\ Len(pipe) >= 2 /\ Len(pipe) + app.skipped <= 5
           /\ \A i \in 1 .. Len(pipe) - 2 : OpenReply(pipe[i])
           /\ InfoData(pipe[Len(pipe) - 1]) /\ Grants(pipe[Len(pipe)])
  <2>1. CASE Len(pipe) = 2
    <3>1. Len(pipe) - 1 = 1
      BY <2>1
    <3> QED BY <1>3, <2>1, <3>1
  <2>2. CASE Len(pipe) # 2
    <3>1. PICK n \in Nat : n = Len(pipe)
      BY <1>1
    <3>2. n >= 2 /\ n # 2
      BY <1>3, <2>2, <3>1
    <3>3. n >= 3 /\ 1 \in 1 .. n - 2
      BY <3>2
    <3> QED BY <1>3, <3>1, <3>3
  <2> QED BY <2>1, <2>2
<1> QED BY <1>2, <1>3 DEF Informed

LEMMA ReadInfoDataLives ==
  ASSUME OpenShape, Lives, ReadInfoData
  PROVE  Lives'
<1>1. /\ pipe \in Seq(Message) /\ pipe # <<>> /\ app \in App /\ app.at \in {"info", "raw"}
      /\ pipe[1].kind # "response" /\ Head(pipe) = pipe[1]
      /\ UNCHANGED <<devSession, deaths, slow>>
      /\ Len(pipe) \in Nat /\ Len(pipe) >= 1
  BY TailKeeps DEF OpenShape, ReadInfoData
<1>2. ASSUME Informed
      PROVE  /\ app.data = "none" /\ Len(pipe) = 2 /\ InfoData(pipe[1]) /\ Grants(pipe[2])
             /\ UNCHANGED fails /\ pipe' = Tail(pipe) /\ app' = [app EXCEPT !.data = "mine"]
  <2>1. ~Grants(pipe[1]) /\ ~OpenReply(pipe[1])
    BY <1>1 DEF Grants, OpenReply
  <2>2. app.data = "none" /\ Len(pipe) = 2 /\ InfoData(pipe[1]) /\ Grants(pipe[2])
    BY <1>1, <1>2, <2>1, InfoCases
  <2> QED BY <1>1, <2>2 DEF ReadInfoData, InfoData
<1>3. ASSUME Informed
      PROVE  /\ app'.data = "mine" /\ app'.mode = app.mode /\ app'.at = app.at
             /\ app'.drained = app.drained /\ app'.again = app.again /\ app'.skipped = app.skipped
             /\ Len(pipe') = 1 /\ pipe'[1] = pipe[2] /\ Informed'
  <2>1. Len(pipe') = 1 /\ pipe'[1] = pipe[2]
    <3>1. Len(pipe) = 2 /\ pipe' = Tail(pipe)
      BY <1>2, <1>3
    <3>2. 1 \in 1 .. Len(pipe) - 1 /\ Len(pipe) - 1 = 1 /\ 1 + 1 = 2
      BY <3>1
    <3>3. Len(pipe') = Len(pipe) - 1 /\ \A i \in 1 .. Len(pipe) - 1 : pipe'[i] = pipe[i + 1]
      BY <1>1, <3>1, TailKeeps
    <3> QED BY <3>2, <3>3
  <2>2. /\ app'.data = "mine" /\ app'.mode = app.mode /\ app'.at = app.at
        /\ app'.drained = app.drained /\ app'.again = app.again /\ app'.skipped = app.skipped
    BY <1>1, <1>2, <1>3 DEF App
  <2>3. Informed'
    BY <1>2, <1>3, <2>1, <2>2 DEF Informed
  <2> QED BY <2>1, <2>2, <2>3
<1>4. ASSUME app.at = "info" => pipe[Len(pipe)].tx = 1, Informed
      PROVE  app.at = "info" => pipe'[Len(pipe')].tx = 1
  BY <1>2, <1>3, <1>4
<1>5. ASSUME FirstLife PROVE FirstLife'
  <2>1. Informed /\ app.skipped = 0 /\ (app.at = "info" => pipe[Len(pipe)].tx = 1)
    BY <1>1, <1>5 DEF FirstLife
  <2>2. UNCHANGED fails /\ (app.at = "info" => pipe'[Len(pipe')].tx = 1)
    BY <1>2, <1>4, <2>1
  <2>3. /\ app'.data = "mine" /\ app'.mode = app.mode /\ app'.at = app.at
        /\ app'.drained = app.drained /\ app'.again = app.again /\ app'.skipped = app.skipped
        /\ Len(pipe') = 1 /\ Informed'
    BY <1>3, <2>1
  <2> QED BY <1>1, <1>5, <2>1, <2>2, <2>3 DEF FirstLife
<1>6. ASSUME AfterDeath PROVE AfterDeath'
  <2>1. app.at = "info" /\ Informed /\ pipe[Len(pipe)].tx = 1
    BY <1>1, <1>6 DEF AfterDeath
  <2>2. UNCHANGED fails /\ pipe'[Len(pipe')].tx = 1
    BY <1>2, <1>4, <2>1
  <2> QED BY <1>1, <1>3, <1>6, <2>1, <2>2 DEF AfterDeath
<1>7. ASSUME Informed PROVE app'.mode = app.mode
  BY <1>3, <1>7
<1>8. slow = 0 /\ deaths = 0 => Informed
  BY <1>1 DEF Lives, FirstLife
<1>9. slow = 0 /\ deaths = 1 /\ app'.mode # "ptp" => app.mode # "ptp"
  <2>1. app.mode \in Modes
    BY <1>1 DEF App
  <2>2. app'.mode = app.mode
    <3>1. CASE Fail
      BY <3>1, FailKeeps
    <3>2. CASE ~Fail
      <4>1. \E d \in {"mine", "left", "mixed"} : app' = [app EXCEPT !.data = d]
        BY <3>2 DEF ReadInfoData
      <4> QED BY <1>1, <4>1 DEF App
    <3> QED BY <3>1, <3>2
  <2> QED BY <2>2
<1> QED BY <1>1, <1>5, <1>6, <1>9 DEF Lives

LEMMA ReadInfoResponseLives ==
  ASSUME OpenShape, Lives, LeftoversFit, ReadInfoResponse
  PROVE  Lives'
<1>1. /\ pipe \in Seq(Message) /\ pipe # <<>> /\ app \in App /\ app.at \in {"info", "raw"}
      /\ pipe[1].kind = "response" /\ Head(pipe) = pipe[1] /\ pipe' = Tail(pipe)
      /\ UNCHANGED <<devSession, deaths, slow>>
      /\ app.skipped \in 0 .. MaxStale
  BY TailKeeps DEF OpenShape, App, ReadInfoResponse
<1>2. /\ Len(pipe) \in Nat /\ Len(pipe) >= 1 /\ Len(pipe') = Len(pipe) - 1 /\ pipe' \in Seq(Message)
      /\ \A i \in 1 .. Len(pipe) - 1 : pipe'[i] = pipe[i + 1]
  BY <1>1, TailKeeps
<1>3. ASSUME app.data = "mine", Len(pipe) = 1, Grants(pipe[1]), app.at = "info" => pipe[1].tx = 1
      PROVE  /\ app'.at = (IF app.at = "raw" THEN "ask_open" ELSE "open") /\ UNCHANGED fails /\ pipe' = <<>>
             /\ app'.mode = app.mode /\ app'.drained = app.drained /\ app'.again = app.again
             /\ app'.skipped = app.skipped /\ app'.data = app.data
  <2>1. Answers(pipe[1]) /\ pipe[1].code = "ok"
    BY <1>1, <1>3 DEF Answers, Grants
  <2>2. Become(IF app.at = "raw" THEN "ask_open" ELSE "open") /\ UNCHANGED fails
    BY <1>1, <1>3, <2>1 DEF ReadInfoResponse
  <2>3. pipe' = <<>>
    BY <1>2, <1>3
  <2> QED BY <1>1, <2>2, <2>3, BecomeKeeps DEF Ats
<1>4. ASSUME FirstLife PROVE FirstLife'
  <2>1. Informed /\ Len(pipe) <= 2 /\ app.skipped = 0 /\ (app.at = "info" => pipe[Len(pipe)].tx = 1)
    BY <1>1, <1>4 DEF FirstLife
  <2>2. app.data = "mine" /\ Len(pipe) = 1 /\ Grants(pipe[1])
    <3>1. ~InfoData(pipe[1])
      BY <1>1 DEF InfoData
    <3> QED BY <1>1, <1>2, <2>1, <3>1, InfoCases
  <2>3. app.at = "info" => pipe[1].tx = 1
    BY <2>1, <2>2
  <2>4. CASE app.at = "raw"
    BY <1>1, <1>3, <1>4, <2>1, <2>2, <2>3, <2>4 DEF FirstLife
  <2>5. CASE app.at = "info"
    BY <1>1, <1>3, <1>4, <2>1, <2>2, <2>3, <2>5 DEF FirstLife
  <2> QED BY <1>1, <2>4, <2>5
<1>5. ASSUME AfterDeath PROVE AfterDeath'
  <2>1. Informed /\ app.at = "info" /\ pipe[Len(pipe)].tx = 1
    BY <1>1, <1>5 DEF AfterDeath
  <2>2. CASE app.data = "mine" /\ Len(pipe) = 1 /\ Grants(pipe[1])
    <3>1. pipe[1].tx = 1
      BY <2>1, <2>2
    <3> QED BY <1>1, <1>3, <1>5, <2>1, <2>2, <3>1 DEF AfterDeath
  <2>3. CASE /\ app.data = "none" /\ Len(pipe) >= 2 /\ Len(pipe) + app.skipped <= 5
             /\ \A i \in 1 .. Len(pipe) - 2 : OpenReply(pipe[i])
             /\ InfoData(pipe[Len(pipe) - 1]) /\ Grants(pipe[Len(pipe)])
    <3>1. ~InfoData(pipe[1])
      BY <1>1 DEF InfoData
    <3>2. Len(pipe) >= 3 /\ OpenReply(pipe[1])
      BY <1>1, <2>1, <2>3, <3>1, InfoCases
    <3>3. app.skipped < MaxStale /\ app.skipped \in Nat
      BY <1>1, <1>2, <2>3, <3>2, OpenAssumption DEF LeftoversFit
    <3>4. ~Answers(pipe[1]) /\ IsSkipped(pipe[1])
      BY <2>1, <2>3, <3>2, <3>3 DEF Answers, IsSkipped, OpenReply
    <3>5. app' = [app EXCEPT !.skipped = @ + 1] /\ UNCHANGED fails
      BY <1>1, <3>4 DEF ReadInfoResponse
    <3>6. /\ app'.skipped = app.skipped + 1 /\ app'.at = app.at /\ app'.mode = app.mode
          /\ app'.drained = app.drained /\ app'.again = app.again /\ app'.data = app.data
      BY <1>1, <3>5 DEF App
    <3>7. /\ Len(pipe') >= 2 /\ Len(pipe') + app'.skipped <= 5
          /\ pipe'[Len(pipe') - 1] = pipe[Len(pipe) - 1] /\ pipe'[Len(pipe')] = pipe[Len(pipe)]
      <4>1. Len(pipe') >= 2 /\ Len(pipe') + app'.skipped <= 5
        BY <1>2, <2>3, <3>2, <3>3, <3>6
      <4>2. /\ Len(pipe') - 1 \in 1 .. Len(pipe) - 1 /\ (Len(pipe') - 1) + 1 = Len(pipe) - 1
            /\ Len(pipe') \in 1 .. Len(pipe) - 1 /\ Len(pipe') + 1 = Len(pipe)
        BY <1>2, <3>2
      <4> QED BY <1>2, <4>1, <4>2
    <3>8. \A i \in 1 .. Len(pipe') - 2 : OpenReply(pipe'[i])
      <4>1. SUFFICES ASSUME NEW i \in 1 .. Len(pipe') - 2 PROVE OpenReply(pipe'[i])
        OBVIOUS
      <4>2. i \in 1 .. Len(pipe) - 1 /\ i + 1 \in 1 .. Len(pipe) - 2
        BY <1>2, <3>2
      <4> QED BY <1>2, <2>3, <4>2
    <3>9. Informed' /\ pipe'[Len(pipe')].tx = 1
      BY <2>1, <2>3, <3>6, <3>7, <3>8 DEF Informed
    <3> QED BY <1>1, <1>5, <2>1, <3>5, <3>6, <3>9 DEF AfterDeath
  <2> QED BY <2>1, <2>2, <2>3 DEF Informed
<1>6. app'.mode = app.mode
  <2>1. \/ Fail \/ Become("open") \/ Become("ask_open") \/ app' = [app EXCEPT !.skipped = @ + 1]
    BY DEF ReadInfoResponse
  <2>2. app' = [app EXCEPT !.skipped = @ + 1] => app'.mode = app.mode
    BY <1>1 DEF App
  <2> QED BY <1>1, <2>1, <2>2, FailKeeps, BecomeKeeps DEF Ats
<1> QED BY <1>1, <1>4, <1>5, <1>6 DEF Lives

LEMMA ProcessEndsLives ==
  ASSUME OpenShape, Lives, ProcessEnds
  PROVE  Lives'
<1>1. /\ pipe \in Seq(Message) /\ app \in App /\ app.at # "down" /\ deaths \in Nat
      /\ deaths' = deaths + 1 /\ fails' = 0 /\ slow' = slow
  BY DEF OpenShape, ProcessEnds
<1>2. PICK m \in Modes : app' = Down(m)
  BY DEF ProcessEnds
<1>3. /\ app'.at = "down" /\ ~app'.drained /\ ~app'.again /\ app'.skipped = 0 /\ app'.data = "none"
  BY <1>2, DownFields
<1>4. ASSUME FirstLife PROVE AfterDeath'
  <2>1. Leaves(pipe, 0)
    <3>1. MaxChunks \in Nat
      BY OpenAssumption
    <3>2. 0 \in 0 .. MaxChunks + 1 /\ 1 \in 0 .. MaxChunks + 1
      BY <3>1
    <3>3. Len(pipe) = 1 /\ Grants(pipe[1]) => Heap(pipe, 0, 0)
      BY DEF Heap
    <3>4. Len(pipe) = 2 /\ Grants(pipe[2]) /\ pipe[1].kind # "response" => Heap(pipe, 1, 0)
      BY DEF Heap
    <3>5. CASE app.at \in {"ask_raw", "ask_open", "ask_info", "open"}
      BY <1>4, <3>5 DEF FirstLife, Leaves, Late
    <3>6. CASE app.at = "opening"
      <4>1. Late(pipe, 1) /\ pipe[1].code = "ok"
        BY <1>4, <3>6 DEF FirstLife
      <4>2. Len(pipe) = 1 /\ Grants(pipe[1])
        BY <4>1 DEF Late, OpenReply, Grants
      <4> QED BY <3>2, <3>3, <4>2 DEF Leaves
    <3>7. CASE app.at \in {"raw", "info"}
      <4>1. Informed /\ Len(pipe) <= 2 /\ Len(pipe) \in Nat
        BY <1>1, <1>4, <3>7 DEF FirstLife
      <4>2. \/ Len(pipe) = 1 /\ Grants(pipe[1])
            \/ Len(pipe) = 2 /\ Grants(pipe[2]) /\ pipe[1].kind # "response"
        BY <1>1, <4>1, InfoCases DEF InfoData
      <4> QED BY <3>2, <3>3, <3>4, <4>2 DEF Leaves
    <3>8. app.at \notin {"draining", "ask_close", "closing"} /\ app.at \in Ats
      BY <1>1, <1>4 DEF FirstLife, App
    <3> QED BY <1>1, <3>5, <3>6, <3>7, <3>8 DEF Ats
  <2>2. \E l \in Seq(Message) : Leaves(l, 0) /\ pipe' = Left(l)
    <3>1. CASE pipe' = Left(pipe)
      BY <1>1, <2>1, <3>1
    <3>2. CASE app.at = "open" /\ \E l \in Leftovers : pipe' = Left(pipe \o l)
      <4>1. PICK l \in Leftovers : pipe' = Left(pipe \o l)
        BY <3>2
      <4>2. pipe = <<>> /\ l \in Seq(Message) /\ Leaves(l, 0)
        BY <1>4, <3>2, LeftoversKeep DEF FirstLife
      <4>3. pipe \o l = l
        BY <4>2
      <4> QED BY <4>1, <4>2, <4>3
    <3> QED BY <3>1, <3>2 DEF ProcessEnds
  <2>3. Leaves(pipe', 0)
    <3>1. PICK l \in Seq(Message) : Leaves(l, 0) /\ pipe' = Left(l)
      BY <2>2
    <3> QED BY <3>1, LeftAlike, AlikeLeaves
  <2> QED BY <1>1, <1>3, <2>3 DEF AfterDeath, InPipe
<1>5. deaths' # 0 /\ (deaths' = 1 => deaths = 0)
  BY <1>1
<1> QED BY <1>1, <1>4, <1>5 DEF Lives

LEMMA LivesSteps ==
  ASSUME OpenShape, Lives, LeftoversFit, [OpenNext]_openVars
  PROVE  Lives'
<1>1. CASE ReadTimesOut
  <2>1. slow' # 0
    BY <1>1 DEF ReadTimesOut, OpenShape
  <2> QED BY <2>1 DEF Lives
<1>2. CASE UNCHANGED openVars
  <2>1. /\ devSession' = devSession /\ pipe' = pipe /\ app' = app
        /\ deaths' = deaths /\ slow' = slow /\ fails' = fails
    BY <1>2 DEF openVars
  <2>2. Informed' <=> Informed
    BY <2>1 DEF Informed
  <2>3. (InPipe(pipe, 0)' <=> InPipe(pipe, 0)) /\ (InPipe(pipe, 1)' <=> InPipe(pipe, 1))
    BY <2>1 DEF InPipe
  <2>4. FirstLife' <=> FirstLife
    BY <2>1, <2>2 DEF FirstLife
  <2>5. AfterDeath' <=> AfterDeath
    BY <2>1, <2>2, <2>3 DEF AfterDeath
  <2> QED BY <2>1, <2>4, <2>5 DEF Lives
<1> QED BY <1>1, <1>2, OpenStartLives, AskOpenLives, ReadOpenLives, DrainLives, AskCloseLives,
           ReadCloseLives, AskDeviceInfoLives, ReadInfoDataLives,
           ReadInfoResponseLives, ProcessEndsLives DEF OpenNext, OpenStep

LEMMA OpenInitShape == OpenInit => OpenShape /\ Lives
<1> SUFFICES ASSUME OpenInit PROVE OpenShape /\ Lives
  OBVIOUS
<1>1. PICK m \in Modes : app = Down(m)
  BY DEF OpenInit
<1>2. /\ devSession = FALSE /\ pipe = <<>> /\ deaths = 0 /\ slow = 0 /\ fails = 0
      /\ app \in App /\ app.at = "down" /\ ~app.drained /\ ~app.again
      /\ app.skipped = 0 /\ app.data = "none"
  BY <1>1, DownFields DEF OpenInit
<1>3. OpenShape
  <2>1. devSession \in BOOLEAN
    BY <1>2, Zenon
  <2>2. pipe \in Seq(Message)
    BY <1>2
  <2> QED BY <1>2, <2>1, <2>2 DEF OpenShape
<1>4. FirstLife
  BY <1>2 DEF FirstLife
<1> QED BY <1>2, <1>3, <1>4 DEF Lives

LEMMA ShapeIsType == OpenShape => OpenTypeOK
<1> SUFFICES ASSUME OpenShape PROVE OpenTypeOK
  OBVIOUS
<1>1. \A i \in DOMAIN pipe : pipe[i] \in Message
  BY DEF OpenShape
<1>2. app \in App
  BY DEF OpenShape
<1> QED BY <1>1, <1>2 DEF OpenShape, OpenTypeOK, App, Ats, Message

(* PtpSession::open and its callers keep their shape, whatever earlier processes left and
   however late the replies are; an open that reuses the session never closes it. *)
THEOREM OpenIsTyped == OpenSpec => []OpenTypeOK
<1>1. OpenInit => OpenShape
  BY OpenInitShape
<1>2. OpenShape /\ [OpenNext]_openVars => OpenShape'
  BY ShapeSteps
<1> QED BY <1>1, <1>2, ShapeIsType, PTL DEF OpenSpec

LEMMA LivesHeal == OpenShape /\ Lives => OneDeathHeals
<1> SUFFICES ASSUME OpenShape, Lives, deaths <= 1, slow = 0, app.mode # "ptp"
             PROVE  fails <= 1 /\ (app.at = "open" => pipe = <<>> /\ app.data = "mine")
  BY DEF OneDeathHeals
<1>1. deaths = 0 \/ deaths = 1
  BY DEF OpenShape
<1>2. CASE deaths = 0
  BY <1>2 DEF Lives, FirstLife
<1>3. CASE deaths = 1
  BY <1>3 DEF Lives, AfterDeath
<1> QED BY <1>1, <1>2, <1>3

(* Wherever the one process before it died, at most one open fails, and the next one succeeds
   with its own device info and an empty pipe: for leftovers of any length that the drain of
   open gets through, and any MAX_STALE_REPLIES that lets the late replies to the OpenSessions
   of one attempt be skipped. *)
THEOREM OneDeathIsHealed ==
  ASSUME LeftoversFit
  PROVE  OpenSpec => []OneDeathHeals
<1>1. OpenInit => OpenInv
  BY OpenInitShape DEF OpenInv
<1>2. OpenInv /\ [OpenNext]_openVars => OpenInv'
  BY ShapeSteps, LivesSteps DEF OpenInv
<1>3. OpenInv => OneDeathHeals
  BY LivesHeal DEF OpenInv
<1> QED BY <1>1, <1>2, <1>3, PTL DEF OpenSpec
-----------------------------------------------------------------------------
(* What holds of each of the three, whichever of them runs. *)
LinkInv == TransportInv /\ OpenShape /\ HotplugInv

(* The composed link is of its shape: no step of one of the three disturbs another. *)
THEOREM LinkIsTyped == LinkSpec => []LinkTypeOK
<1>1. LinkInit => LinkInv
  <2> SUFFICES ASSUME LinkInit PROVE LinkInv
    OBVIOUS
  <2>1. TransportInit /\ OpenInit /\ HotplugInit
    BY DEF LinkInit, RestOpen, RestHotplug
  <2> QED BY <2>1, TransportStarts, OpenInitShape, HotplugStarts DEF LinkInv
<1>2. LinkInv /\ [LinkNext]_LinkVars => LinkInv'
  <2> SUFFICES ASSUME LinkInv, [LinkNext]_LinkVars PROVE LinkInv'
    OBVIOUS
  <2>1. [TransportNext]_transportVars /\ [OpenNext]_openVars /\ [HotplugNext]_hotplugVars
    BY DEF LinkNext, LinkVars
  <2> QED BY <2>1, TransportSteps, ShapeSteps, HotplugSteps DEF LinkInv
<1>3. LinkInv => LinkTypeOK
  BY TransportIsOfType, ShapeIsType, PendingIsExplained DEF LinkInv, LinkTypeOK
<1> QED BY <1>1, <1>2, <1>3, PTL DEF LinkSpec
=============================================================================
