----------------------------- MODULE PtpSession -----------------------------
(***************************************************************************)
(* One PTP session shared by several tasks: the operation lock, the        *)
(* transaction counter, the lazy recovery flag, and the execute family,    *)
(* streamed downloads and cancel_transfer that use them                    *)
(* (ptp/session/mod.rs, ptp/session/streaming.rs, transport/nusb.rs).      *)
(*                                                                         *)
(* A step ends where the code awaits.  A task's future may be dropped at   *)
(* any await; the TransactionScope or the ReceiveStream then flags the     *)
(* session before the lock guard is released.                              *)
(*                                                                         *)
(* An empty bulk read fails a stream's next_chunk without ending it, which *)
(* is no step here; ReceiveStream has the bytes of a stream.               *)
(***************************************************************************)
EXTENDS TransactionIds, BulkLink

CONSTANTS
  Tasks, NoTask,
  UsedKinds,       \* the operations the tasks of this instance perform
  StartId,         \* the counter when the observation starts (1 in a fresh session)
  MaxRequests,     \* bound: transactions of one behaviour, less than a full turn of ids
  MaxStaleReplies, \* MAX_STALE_REPLIES, 4 in the code
  SplitHeaderData, \* split_header_data: header and payload are two bulk writes
  DrainOnCancel,   \* drain_on_cancel: no CLASS_CANCEL is sent (Android)
  ThoroughDrain,   \* no drain ends before the device is quiet: the idle timeout
                   \* outlasts a busy device, and no drain read fails
  DropsInRecovery  \* callers also drop a future that awaits recover_if_needed

ASSUME SessionAssumption ==
  /\ NoTask \notin Tasks
  /\ UsedKinds \subseteq Kinds
  /\ StartId \in IssuedIds
  /\ MaxRequests \in Nat /\ MaxRequests <= LastId
  /\ MaxStaleReplies \in Nat
  /\ {SplitHeaderData, DrainOnCancel, ThoroughDrain, DropsInRecovery} \subseteq BOOLEAN

VARIABLES
  lock,       \* operation_lock: the task that holds its guard
  counter,    \* transaction_id: the id the next transaction gets
  recovery,   \* RecoveryState: [needed, tx]
  pc,         \* where each task's call stands
  kind,       \* the operation each task performs
  op,         \* the transaction of the task that holds the lock
  cancel,     \* the cancel_transfer in progress: whose, and for which transaction
  issued,     \* how many transactions have been started (names them)
  result,     \* what a completed call returned
  gone        \* a call reported DeviceReset: the session is no longer usable

sessionVars == <<lock, counter, recovery, pc, kind, op, cancel, issued, result, gone>>
vars == <<linkVars, sessionVars>>

Sending    == {"send", "sendData", "sendPayload"}
Receiving  == {"receive", "more"}
Armed      == Sending \cup Receiving
Cancelling == {"cancel", "drain", "settle"}
Resting    == {"idle", "ok", "err"}
Pcs        == Resting \cup {"waiting"} \cup Armed \cup Cancelling

NoOp     == [kind |-> "execute", tx |-> 0, req |-> 0, skipped |-> 0, data |-> {}, more |-> 0]
NoResult == [req |-> 0, reply |-> 0, data |-> {}]
NoCancel == [for |-> "recovery", tx |-> 0]

Init ==
  /\ LinkInit
  /\ lock = NoTask /\ counter = StartId
  /\ recovery = [needed |-> FALSE, tx |-> 0]
  /\ pc = [t \in Tasks |-> "idle"]
  /\ kind \in [Tasks -> UsedKinds]
  /\ op = NoOp /\ cancel = NoCancel
  /\ issued = 0
  /\ result = [t \in Tasks |-> NoResult]
  /\ gone = FALSE

Flagged(tx) == [needed |-> TRUE, tx |-> tx]
Goto(t, l)  == pc' = [pc EXCEPT ![t] = l]

(***************************************************************************)
(* Every path that gives the lock back.  The flag, when there is one, is   *)
(* set before the guard goes, so the next holder sees it.                  *)
(***************************************************************************)
Release(t, l, rec) ==
  /\ recovery' = rec
  /\ lock' = NoTask
  /\ Goto(t, l)
  /\ op' = NoOp /\ cancel' = NoCancel

(* A variant of Abandon that names the next transaction, not the abandoned one. *)
AbandonNamesNext(t, l) == Release(t, l, Flagged(counter))

(* TransactionScope::drop and ReceiveStream's finish(true) and drop. *)
Abandon(t, l) == Release(t, l, Flagged(op.tx))

(***************************************************************************)
(* Taking the lock.  recover_if_needed runs without an await up to         *)
(* cancel_transfer, so the flag is taken in the step that takes the lock.  *)
(***************************************************************************)
Begin(t, k) ==
  /\ pc[t] \in Resting
  /\ Goto(t, "waiting")
  /\ kind' = [kind EXCEPT ![t] = k]
  /\ result' = [result EXCEPT ![t] = NoResult]
  /\ UNCHANGED <<linkVars, lock, counter, recovery, op, cancel, issued, gone>>

(* next_transaction_id, then TransactionScope::arm. *)
Arm(t) ==
  /\ counter' = NextId(counter)
  /\ issued' = issued + 1
  /\ op' = [kind |-> kind[t], tx |-> counter, req |-> issued + 1,
            skipped |-> 0, data |-> {}, more |-> 0]
  /\ Goto(t, "send")

Acquire(t) ==
  /\ pc[t] = "waiting" /\ lock = NoTask
  /\ issued < MaxRequests
  /\ lock' = t
  /\ IF recovery.needed
     THEN /\ recovery' = [recovery EXCEPT !.needed = FALSE]
          /\ cancel' = [for |-> "recovery", tx |-> recovery.tx]
          /\ Goto(t, "cancel")
          /\ UNCHANGED <<counter, issued, op>>
     ELSE Arm(t) /\ UNCHANGED <<recovery, cancel>>
  /\ UNCHANGED <<linkVars, kind, result, gone>>

(***************************************************************************)
(* The command, the data phase the host sends, and the reply.              *)
(***************************************************************************)
Sends(p) == outPipe' = Append(outPipe, p) /\ UNCHANGED <<pipe, emit, awaiting, wedged>>

SendCommand(t) ==
  /\ lock = t /\ pc[t] = "send"
  /\ Sends(Packet("Command", op, 0))
  /\ Goto(t, IF op.kind = "send" THEN "sendData" ELSE "receive")
  /\ UNCHANGED <<lock, counter, recovery, kind, op, cancel, issued, result, gone>>

SendData(t) ==
  /\ lock = t /\ pc[t] = "sendData"
  /\ Sends(Packet("Data", op, IF SplitHeaderData THEN 1 ELSE 0))
  /\ Goto(t, IF SplitHeaderData THEN "sendPayload" ELSE "receive")
  /\ UNCHANGED <<lock, counter, recovery, kind, op, cancel, issued, result, gone>>

SendPayload(t) ==
  /\ lock = t /\ pc[t] = "sendPayload"
  /\ Sends(Packet("Raw", op, 0))
  /\ Goto(t, "receive")
  /\ UNCHANGED <<lock, counter, recovery, kind, op, cancel, issued, result, gone>>

Reads == pipe' = Tail(pipe) /\ UNCHANGED <<outPipe, emit, awaiting, wedged>>

MaySkipStaleReply == op.kind # "close" /\ op.skipped < MaxStaleReplies

(* A variant of SkipsStale that skips after data has been collected too. *)
SkipsStaleAmidData(p) ==
  /\ p.type = "Response" /\ p.tx # op.tx
  /\ IsStaleReply(p.tx, op.tx)
  /\ MaySkipStaleReply

(* A late reply is skipped only before any data has been collected. *)
SkipsStale(p) ==
  /\ p.type = "Response" /\ p.tx # op.tx
  /\ op.data = {}
  /\ IsStaleReply(p.tx, op.tx)
  /\ MaySkipStaleReply

StartsData(p) == p.type = "Data" /\ op.kind \in DataKinds

(* A variant of Accepts without the id check. *)
AcceptsAnyResponse(p) == p.type = "Response"

Accepts(p) == p.type = "Response" /\ p.tx = op.tx

(* A variant of ReceiveResponse in which a finished stream keeps its guard  *)
(* until it is dropped.                                                    *)
FinishedStreamKeepsLock(t) ==
  /\ lock = t /\ pc[t] = "receive" /\ pipe # <<>>
  /\ Accepts(Head(pipe))
  /\ Reads
  /\ IF op.kind = "stream"
     THEN Goto(t, "ok") /\ UNCHANGED <<lock, recovery, op, cancel>>
     ELSE Release(t, "ok", recovery)
  /\ result' = [result EXCEPT ![t] =
                  [req |-> op.req, reply |-> Head(pipe).req, data |-> op.data]]
  /\ UNCHANGED <<counter, kind, issued, gone>>

(* The response of this transaction: the scope is disarmed, or the stream  *)
(* finishes, and the lock goes back.                                       *)
ReceiveResponse(t) ==
  /\ lock = t /\ pc[t] = "receive" /\ pipe # <<>>
  /\ Accepts(Head(pipe))
  /\ Reads
  /\ Release(t, "ok", recovery)
  /\ result' = [result EXCEPT ![t] =
                  [req |-> op.req, reply |-> Head(pipe).req, data |-> op.data]]
  /\ UNCHANGED <<counter, kind, issued, gone>>

SkipStaleReply(t) ==
  /\ lock = t /\ pc[t] = "receive" /\ pipe # <<>>
  /\ SkipsStale(Head(pipe))
  /\ Reads
  /\ op' = [op EXCEPT !.skipped = @ + 1]
  /\ UNCHANGED <<lock, counter, recovery, pc, kind, cancel, issued, result, gone>>

(* The header of a data container.  Its transaction id is not looked at. *)
ReceiveData(t) ==
  /\ lock = t /\ pc[t] = "receive" /\ pipe # <<>>
  /\ StartsData(Head(pipe))
  /\ Reads
  /\ op' = [op EXCEPT !.data = @ \cup {Head(pipe).req}, !.more = Head(pipe).more]
  /\ Goto(t, IF Head(pipe).more > 0 THEN "more" ELSE "receive")
  /\ UNCHANGED <<lock, counter, recovery, kind, cancel, issued, result, gone>>

(* The rest of a data container is read by count, whatever arrives.  A     *)
(* packet that is not a continuation may or may not make up the count.     *)
ReceiveMore(t) ==
  /\ lock = t /\ pc[t] = "more" /\ pipe # <<>>
  /\ Reads
  /\ \E left \in IF Head(pipe).type = "Raw" THEN {op.more - 1} ELSE {op.more - 1, op.more} :
       /\ op' = [op EXCEPT !.data = @ \cup {Head(pipe).req}, !.more = left]
       /\ Goto(t, IF left > 0 THEN "more" ELSE "receive")
  /\ UNCHANGED <<lock, counter, recovery, kind, cancel, issued, result, gone>>

(* A reply of another transaction, or a read that is no container. *)
ReceiveUnexpected(t) ==
  /\ lock = t /\ pc[t] = "receive" /\ pipe # <<>>
  /\ LET p == Head(pipe) IN ~Accepts(p) /\ ~SkipsStale(p) /\ ~StartsData(p)
  /\ Reads
  /\ Abandon(t, "err")
  /\ UNCHANGED <<counter, kind, issued, result, gone>>

(* A variant of ReceiveTimeout whose early return leaves no flag. *)
TimeoutUnflagged(t) ==
  /\ lock = t /\ pc[t] \in Receiving /\ pipe = <<>>
  /\ Release(t, "err", recovery)
  /\ UNCHANGED <<linkVars, counter, kind, issued, result, gone>>

ReceiveTimeout(t) ==
  /\ lock = t /\ pc[t] \in Receiving /\ pipe = <<>>
  /\ Abandon(t, "err")
  /\ UNCHANGED <<linkVars, counter, kind, issued, result, gone>>

(* Any other transport error; after a failed send the packet may or may    *)
(* not have arrived, which is a failure before or after the send step.     *)
TransferError(t) ==
  /\ lock = t /\ pc[t] \in Armed
  /\ Abandon(t, "err")
  /\ UNCHANGED <<linkVars, counter, kind, issued, result, gone>>

(* The caller drops the future, or the stream, in the middle. *)
DropArmed(t) ==
  /\ lock = t /\ pc[t] \in Armed
  /\ Abandon(t, "idle")
  /\ UNCHANGED <<linkVars, counter, kind, issued, result, gone>>

(* A variant of DropWaiting that gives back a lock it does not hold. *)
DropWaitingUnlocks(t) ==
  /\ pc[t] = "waiting"
  /\ Goto(t, "idle")
  /\ lock' = NoTask
  /\ UNCHANGED <<linkVars, counter, recovery, kind, op, cancel, issued, result, gone>>

DropWaiting(t) ==
  /\ pc[t] = "waiting"
  /\ Goto(t, "idle")
  /\ UNCHANGED <<linkVars, lock, counter, recovery, kind, op, cancel, issued, result, gone>>

(***************************************************************************)
(* cancel_transfer, run by recover_if_needed for the flagged transaction   *)
(* or by ReceiveStream::cancel for its own.  Step 1 asks the device to     *)
(* stop, step 2 reads the IN pipe to a response or to silence, steps 3 to  *)
(* 5 find out whether the device is wedged and reset it if so.             *)
(***************************************************************************)
StreamCancel(t) ==
  /\ lock = t /\ op.kind = "stream" /\ pc[t] \in Receiving
  /\ cancel' = [for |-> "stream", tx |-> op.tx]
  /\ Goto(t, "cancel")
  /\ UNCHANGED <<linkVars, lock, counter, recovery, kind, op, issued, result, gone>>

ClassCancel(t) ==
  /\ lock = t /\ pc[t] = "cancel"
  /\ \/ UNCHANGED linkVars
     \/ ~DrainOnCancel /\ DeviceAborts
  /\ Goto(t, "drain")
  /\ UNCHANGED <<lock, counter, recovery, kind, op, cancel, issued, result, gone>>

(* A variant of DrainRead that takes the first read for the end. *)
DrainStopsEarly(t) ==
  /\ lock = t /\ pc[t] = "drain" /\ pipe # <<>>
  /\ Reads
  /\ Goto(t, "settle")
  /\ UNCHANGED <<lock, counter, recovery, kind, op, cancel, issued, result, gone>>

DrainRead(t) ==
  /\ lock = t /\ pc[t] = "drain" /\ pipe # <<>>
  /\ Reads
  /\ Goto(t, IF Head(pipe).type = "Response" THEN "settle" ELSE "drain")
  /\ UNCHANGED <<lock, counter, recovery, kind, op, cancel, issued, result, gone>>

(* No read completes within the idle timeout, or one fails with anything   *)
(* but a disconnect: both end the drain as a success.                      *)
DrainGivesUp(t) ==
  /\ lock = t /\ pc[t] = "drain"
  /\ ThoroughDrain => (pipe = <<>> /\ DeviceQuiet)
  /\ Goto(t, "settle")
  /\ UNCHANGED <<linkVars, lock, counter, recovery, kind, op, cancel, issued, result, gone>>

(* The cancel succeeds.  A recovery goes on to its own command; a stream   *)
(* is finished without a flag.                                             *)
SettleHealthy(t) ==
  /\ lock = t /\ pc[t] = "settle" /\ ~wedged
  /\ IF cancel.for = "recovery"
     THEN Arm(t) /\ cancel' = NoCancel /\ UNCHANGED <<lock, recovery>>
     ELSE Release(t, "idle", recovery) /\ UNCHANGED <<counter, issued>>
  /\ UNCHANGED <<linkVars, kind, result, gone>>

(* The device is silent: reset it, best effort, and report DeviceReset.    *)
(* recover_if_needed flags again on any error; a stream does not.          *)
SettleWedged(t) ==
  /\ lock = t /\ pc[t] = "settle" /\ wedged
  /\ DeviceResets \/ UNCHANGED linkVars
  /\ Release(t, "err", IF cancel.for = "recovery" THEN Flagged(cancel.tx) ELSE recovery)
  /\ gone' = TRUE
  /\ UNCHANGED <<counter, kind, issued, result>>

(* CLASS_CANCEL fails for another reason, or the drain sees a disconnect. *)
CancelFails(t) ==
  /\ lock = t /\ pc[t] \in {"cancel", "drain"}
  /\ Release(t, "err", Flagged(cancel.tx))
  /\ UNCHANGED <<linkVars, counter, kind, issued, result, gone>>

(* The caller drops the future that awaits the cancel.  The stream of a    *)
(* dropped cancel() is still there; a dropped recovery leaves nothing that *)
(* remembers the flag it took.                                             *)
DropCancelling(t) ==
  /\ lock = t /\ pc[t] \in Cancelling
  /\ IF cancel.for = "stream"
     THEN /\ cancel' = NoCancel
          /\ Goto(t, IF op.more > 0 THEN "more" ELSE "receive")
          /\ UNCHANGED <<lock, recovery, op>>
     ELSE DropsInRecovery /\ Release(t, "idle", recovery)
  /\ UNCHANGED <<linkVars, counter, kind, issued, result, gone>>

(* The steps the executor takes once the caller polls. *)
TaskStep(t) ==
  \/ Acquire(t)
  \/ SendCommand(t) \/ SendData(t) \/ SendPayload(t)
  \/ ReceiveResponse(t) \/ SkipStaleReply(t) \/ ReceiveData(t) \/ ReceiveMore(t)
  \/ ReceiveUnexpected(t) \/ ReceiveTimeout(t)
  \/ ClassCancel(t) \/ DrainRead(t) \/ DrainGivesUp(t)
  \/ SettleHealthy(t) \/ SettleWedged(t)

(* What callers decide, and faults. *)
CallerStep(t) ==
  \/ \E k \in UsedKinds : Begin(t, k)
  \/ StreamCancel(t)
  \/ DropWaiting(t) \/ DropArmed(t) \/ DropCancelling(t)
  \/ TransferError(t) \/ CancelFails(t)

Next ==
  \/ \E t \in Tasks : TaskStep(t) \/ CallerStep(t)
  \/ DeviceNext /\ UNCHANGED sessionVars

Spec == Init /\ [][Next]_vars

(***************************************************************************)
(* The holder of the lock keeps being polled, and timers fire.  The device *)
(* owes nothing, callers never have to cancel or drop.                     *)
(***************************************************************************)
FairSpec == Spec /\ \A t \in Tasks : WF_vars(lock = t /\ TaskStep(t))
-----------------------------------------------------------------------------
(* Properties *)

Packets == [type : {"Command", "Data", "Raw", "Response"}, kind : Kinds,
            tx : IssuedIds, req : 1 .. MaxRequests, more : Nat]

(* The shape of the session's and the link's state. *)
TypeOK ==
  /\ lock \in Tasks \cup {NoTask}
  /\ counter \in IssuedIds
  /\ recovery \in [needed : BOOLEAN, tx : 0 .. LastId]
  /\ pc \in [Tasks -> Pcs]
  /\ kind \in [Tasks -> Kinds]
  /\ op \in [kind : Kinds, tx : 0 .. LastId, req : 0 .. MaxRequests,
             skipped : Nat, data : SUBSET (1 .. MaxRequests), more : Nat]
  /\ cancel \in [for : {"recovery", "stream"}, tx : 0 .. LastId]
  /\ issued \in 0 .. MaxRequests
  /\ result \in [Tasks -> [req : 0 .. MaxRequests, reply : 0 .. MaxRequests,
                          data : SUBSET (1 .. MaxRequests)]]
  /\ gone \in BOOLEAN
  /\ outPipe \in Seq(Packets) /\ pipe \in Seq(Packets) /\ emit \in Seq(Packets)
  /\ awaiting \in Seq(Packets) /\ Len(awaiting) <= 1
  /\ wedged \in BOOLEAN

(* A call that returns a response returns the device's answer to its own   *)
(* request, however many abandoned transactions answer late (the id checks *)
(* of receive_response, execute_with_receive and consume_container_header, *)
(* across a wrap of the counter).                                          *)
OwnReply == \A t \in Tasks : pc[t] = "ok" => result[t].reply = result[t].req

(* A call that completes returns data of its own transaction only, though  *)
(* the ids of data containers are never compared.                          *)
OwnData == \A t \in Tasks : pc[t] = "ok" => result[t].data \subseteq {result[t].req}

InFlight == Range(outPipe) \cup Range(pipe) \cup Range(emit) \cup Range(awaiting)

(* RecoveryState's promise: whatever was abandoned, the operation that     *)
(* runs now has the pipes to itself; nothing of another transaction is in  *)
(* flight when it sends or receives.                                       *)
HealedBeforeUse ==
  (lock # NoTask /\ ~gone) => (pc[lock] \in Armed => \A p \in InFlight : p.req = op.req)

(* A free, unflagged session has nothing in flight: every way out of a     *)
(* transaction either saw its response, drained it, or left the flag.      *)
UnflaggedIsClean == (lock = NoTask /\ ~recovery.needed /\ ~gone) => InFlight = {}

(* A pending recovery names the transaction issued last, the one a device  *)
(* that checks CLASS_CANCEL's id is still serving.                         *)
RecoveryNamesLast ==
  /\ recovery.needed => recovery.tx = NthId(StartId, issued)
  /\ \A t \in Tasks : pc[t] \in Cancelling => cancel.tx = NthId(StartId, issued)

(* A holder gives the session back without any help from its caller or the *)
(* device: a finished, failed or silent transfer never keeps the lock.     *)
(* The exception is a caller that drops its own cancel() again and again.  *)
LockIsReleased ==
  \A t \in Tasks : (<>[][~DropCancelling(t)]_vars) => (lock = t ~> lock # t)

(* The session serves its callers one at a time and never confuses their   *)
(* answers: it implements SerialRpc, a call being served while it holds    *)
(* the operation lock.                                                     *)
PhaseOf(l) == CASE l = "ok"  -> "answered"
                [] l = "err" -> "failed"
                [] l \in Armed \cup Cancelling -> "served"
                [] OTHER -> l
Rpc == INSTANCE SerialRpc WITH
  phase  <- [t \in Tasks |-> PhaseOf(pc[t])],
  holder <- lock,
  answer <- result
ImplementsSerialRpc == Rpc!Spec
=============================================================================
