----------------------------- MODULE WpdWorker -----------------------------
(***************************************************************************)
(* The Windows backend (mtp/backend/wpd): one thread owns the COM device   *)
(* and serves requests from a queue, one at a time.  A download's bytes    *)
(* come back, and an upload's bytes go out, over a bounded channel; the    *)
(* read stream of a finished window is kept for the next one.              *)
(*                                                                         *)
(* A unit is the data of one channel message.  A reply reaches its caller  *)
(* at once; a caller may drop the future that waits for it.                *)
(***************************************************************************)
EXTENDS Naturals, Sequences, FiniteSets

CONSTANTS
  Clients,      \* tasks that use the device
  Kinds,        \* the requests they make that read nothing
  Reads,        \* the ranged reads, windows and downloads they make
  FileSize,     \* units in an object, and an upload's declared size
  Bound,        \* DATA_BOUND
  MaxCalls      \* bound: requests made

ASSUME WpdAssumption ==
  /\ IsFiniteSet(Clients) /\ Kinds \subseteq {"plain", "upload"}
  /\ FileSize \in Nat \ {0}
  /\ \A r \in Reads : /\ DOMAIN r = {"kind", "obj", "offset", "len"}
                     /\ r.kind \in {"download", "window", "read"}
                     /\ r.offset \in 0 .. FileSize /\ r.len \in Nat \ {0}
                     /\ r.obj # "error"    \* which marks a ReadError
  /\ Bound \in Nat \ {0} /\ MaxCalls \in Nat

VARIABLES
  queue,     \* requests on their way to the worker
  worker,    \* what the worker is doing
  kept,      \* last_read: the stream kept for the next window
  chan,      \* each request's data channel
  client,    \* what each client is doing
  stored,    \* units committed to the device by each upload, Absent if it was not
  calls,     \* requests made so far
  device     \* some MtpDevice or Storage still holds the backend

wpdVars == <<queue, worker, kept, chan, client, stored, calls, device>>

NoStream == [obj |-> "none"]
Absent == FileSize + 2    \* more units than any upload sends
ToEnd == FileSize + 1     \* more units than any object has

(* pos is where the stream is; at is where its keeper believes it is. *)
OpenRead(o, at, pos) == [obj |-> o, at |-> at, pos |-> pos]

(* reply is an upload's verdict; other replies are delivered at once. *)
Closed == [q |-> <<>>, rx |-> FALSE, tx |-> FALSE, reply |-> "none"]
Opened == [q |-> <<>>, rx |-> TRUE, tx |-> TRUE, reply |-> "none"]

(* A read's failure, sent in place of its data. *)
ReadError == <<"error", 0>>

Ids == 1 .. MaxCalls

Idle(result) == [at |-> "idle", result |-> result]
Receiving == [at |-> "recv"]
Ended == [at |-> "ended"]

WpdInit ==
  /\ queue = <<>> /\ worker = Receiving /\ kept = NoStream
  /\ chan = [i \in Ids |-> Closed]
  /\ client = [c \in Clients |-> Idle("none")]
  /\ stored = [i \in Ids |-> Absent]
  /\ calls = 0 /\ device = TRUE
-----------------------------------------------------------------------------
(* Clients: WpdHandle::call, WpdDownloadBody and WpdBackend::upload. *)

(* len is ToEnd for a read without a length. *)
Requests(c, i) ==
  [kind : Kinds, id : {i}, client : {c}]
  \cup {[kind |-> r.kind, id |-> i, client |-> c, obj |-> r.obj, offset |-> r.offset, len |-> r.len] :
          r \in Reads}

(* An upload drives its channel while its request waits in the queue. *)
Call(c) ==
  /\ device /\ client[c].at = "idle" /\ calls < MaxCalls
  /\ calls' = calls + 1
  /\ \E r \in Requests(c, calls') :
       IF worker.at = "ended"
       THEN client' = [client EXCEPT ![c] = Idle("disconnected")] /\ UNCHANGED <<queue, chan>>
       ELSE /\ queue' = Append(queue, r)
            /\ client' = [client EXCEPT ![c] =
                 [at |-> IF r.kind = "upload" THEN "upload" ELSE "call", req |-> r, sent |-> 0,
                  stop |-> "none"]]
            /\ chan' = IF r.kind = "upload" THEN [chan EXCEPT ![r.id] = Opened] ELSE chan
  /\ UNCHANGED <<worker, kept, stored, device>>

(* The request stays in the queue; only its reply is lost. *)
DropCall(c) ==
  /\ client[c].at = "call"
  /\ client' = [client EXCEPT ![c] = Idle("dropped")]
  /\ UNCHANGED <<queue, worker, kept, chan, stored, calls, device>>

ChannelOf(c) == chan[client[c].req.id]

(* A worker that is gone has dropped the reply's sender. *)
Disconnected(c) ==
  /\ worker.at = "ended"
  /\ client[c].at = "call" \/ (client[c].at = "verdict" /\ ChannelOf(c).reply = "none")
  /\ client' = [client EXCEPT ![c] = Idle("disconnected")]
  /\ UNCHANGED <<queue, worker, kept, chan, stored, calls, device>>

ReadChunk(c) ==
  /\ client[c].at = "body" /\ ChannelOf(c).q # <<>>
  /\ chan' = [chan EXCEPT ![client[c].req.id].q = Tail(@)]
  /\ client' = IF Head(ChannelOf(c).q) = ReadError
               THEN [client EXCEPT ![c].failed = TRUE]
               ELSE [client EXCEPT ![c].got = Append(@, Head(ChannelOf(c).q))]
  /\ UNCHANGED <<queue, worker, kept, stored, calls, device>>

Shutdown == [kind |-> "shutdown"]

(* This download is all that still holds the backend. *)
IsLast(c) == ~device /\ \A d \in Clients \ {c} : client[d].at # "body"

(* The last holder stops the worker as it goes. *)
QueueAfter(last) ==
  IF last /\ worker.at # "ended" THEN Append(queue, Shutdown) ELSE queue

EndBody(c) ==
  /\ client[c].at = "body" /\ ChannelOf(c).q = <<>> /\ ~ChannelOf(c).tx
  /\ queue' = QueueAfter(IsLast(c))
  /\ client' = [client EXCEPT ![c] =
       [at |-> "idle", result |-> IF @.failed THEN "failed" ELSE "end",
        req |-> @.req, got |-> @.got]]
  /\ chan' = [chan EXCEPT ![client[c].req.id] = Closed]
  /\ UNCHANGED <<worker, kept, stored, calls, device>>

(* cancel closes and drains the receiver; so does dropping a body that is not the last. *)
CancelBody(c) ==
  /\ client[c].at = "body"
  /\ queue' = QueueAfter(IsLast(c))
  /\ chan' = [chan EXCEPT ![client[c].req.id].q = <<>>, ![client[c].req.id].rx = FALSE]
  /\ client' = [client EXCEPT ![c] = Idle("dropped")]
  /\ UNCHANGED <<worker, kept, stored, calls, device>>

(***************************************************************************)
(* Dropping the FileDownload that holds the backend's last reference: its  *)
(* fields go in their order, so WpdHandle::drop sends Shutdown and joins   *)
(* the worker while the body's receiver is still there.                    *)
(***************************************************************************)
DropLastBody(c) ==
  /\ client[c].at = "body" /\ IsLast(c)
  /\ queue' = QueueAfter(TRUE)
  /\ client' = [client EXCEPT ![c].at = "joining"]
  /\ UNCHANGED <<worker, kept, chan, stored, calls, device>>

Joined(c) ==
  /\ client[c].at = "joining" /\ worker.at = "ended"
  /\ chan' = [chan EXCEPT ![client[c].req.id] = Closed]
  /\ client' = [client EXCEPT ![c] = Idle("dropped")]
  /\ UNCHANGED <<queue, worker, kept, stored, calls, device>>

(* MtpDevice::close only asks the worker to stop. *)
Close ==
  /\ device /\ worker.at # "ended" /\ Shutdown \notin {queue[i] : i \in 1 .. Len(queue)}
  /\ queue' = Append(queue, Shutdown)
  /\ UNCHANGED <<worker, kept, chan, client, stored, calls, device>>

(* No call borrows the backend any more, though downloads may still hold it. *)
DropDevice ==
  /\ device /\ \A c \in Clients : client[c].at \in {"idle", "body"}
  /\ device' = FALSE
  /\ queue' = QueueAfter(\A c \in Clients : client[c].at # "body")
  /\ UNCHANGED <<worker, kept, chan, client, stored, calls>>

(* send waits for room; a closed receiver ends the source loop. *)
SendChunk(c) ==
  /\ client[c].at = "upload" /\ client[c].sent <= FileSize
  /\ ChannelOf(c).rx /\ Len(ChannelOf(c).q) <= Bound
  /\ chan' = [chan EXCEPT ![client[c].req.id].q = Append(@, client[c].sent)]
  /\ client' = [client EXCEPT ![c].sent = @ + 1]
  /\ UNCHANGED <<queue, worker, kept, stored, calls, device>>

(* The source ends, fails or is cancelled, once the last send found room. *)
StopUpload(c) ==
  /\ client[c].at = "upload"
  /\ Len(ChannelOf(c).q) <= Bound \/ ~ChannelOf(c).rx
  /\ \E stop \in {"clean", "aborted"} :
       /\ ~ChannelOf(c).rx => stop = "clean"
       /\ client' = [client EXCEPT ![c].at = "verdict", ![c].stop = stop]
  /\ chan' = [chan EXCEPT ![client[c].req.id].tx = FALSE]
  /\ UNCHANGED <<queue, worker, kept, stored, calls, device>>

DropUpload(c) ==
  /\ client[c].at \in {"upload", "verdict"}
  /\ chan' = [chan EXCEPT ![client[c].req.id].tx = FALSE]
  /\ client' = [client EXCEPT ![c] = Idle("dropped")]
  /\ UNCHANGED <<queue, worker, kept, stored, calls, device>>

(* The worker's verdict, read with why the source stopped. *)
Verdict(c) ==
  /\ client[c].at = "verdict" /\ ChannelOf(c).reply # "none"
  /\ client' = [client EXCEPT ![c] =
       [at |-> "idle", req |-> @.req,
        result |-> CASE ChannelOf(c).reply = "error" -> "failed"
                     [] ChannelOf(c).reply = "committed" -> "stored"
                     [] ChannelOf(c).reply = "short" -> @.stop]]
  /\ chan' = [chan EXCEPT ![client[c].req.id] = Closed]
  /\ UNCHANGED <<queue, worker, kept, stored, calls, device>>
-----------------------------------------------------------------------------
(* The worker: worker_main. *)

(* A variant that keeps the stream open for every request. *)
KeptForAny(r) == kept

(* An open read stream is released before anything but the next read. *)
KeptFor(r) == IF r.kind \in {"read", "window"} THEN kept ELSE NoStream

Waits(r) == client[r.client].at = "call" /\ client[r.client].req.id = r.id

Reply(r, state) == client' = IF Waits(r) THEN [client EXCEPT ![r.client] = state] ELSE client

Takes(kinds) == worker.at = "recv" /\ queue # <<>> /\ Head(queue).kind \in kinds

Continues(r) == KeptFor(r) # NoStream /\ kept.obj = r.obj /\ kept.at = r.offset

(* The kept stream if it continues here, or a new one sought to the offset. *)
StreamAt(r) == IF Continues(r) THEN kept.pos ELSE r.offset

(* Storages, List, ObjectInfo, Thumbnail, CreateFolder, Delete, Rename, MoveObject and *)
(* CopyObject: one COM call, which an open read stream makes fail as busy.             *)
ServePlain ==
  /\ Takes({"plain"})
  /\ queue' = Tail(queue) /\ kept' = KeptFor(Head(queue))
  /\ Reply(Head(queue), Idle(IF kept' = NoStream THEN "answered" ELSE "busy"))
  /\ UNCHANGED <<worker, chan, stored, calls, device>>

(* The receiver goes to the caller before the first byte is read. *)
StartPump ==
  /\ Takes({"download", "window"})
  /\ queue' = Tail(queue) /\ kept' = NoStream
  /\ LET r == Head(queue)
     IN  IF ~Waits(r) THEN UNCHANGED <<worker, chan, client>>
         ELSE /\ chan' = [chan EXCEPT ![r.id] = Opened]
              /\ Reply(r, [at |-> "body", req |-> r, got |-> <<>>, failed |-> FALSE])
              /\ worker' = [at |-> "pump", req |-> r, pos |-> StreamAt(r), left |-> r.len,
                            fails |-> FALSE]
  /\ UNCHANGED <<stored, calls, device>>

(* GetStream, Seek or, for a buffered read, Read fails. *)
StreamFails ==
  /\ Takes({"download", "window", "read"})
  /\ Head(queue).kind = "window" => ~Continues(Head(queue))
  /\ queue' = Tail(queue) /\ kept' = NoStream
  /\ Reply(Head(queue), Idle("failed"))
  /\ UNCHANGED <<worker, chan, stored, calls, device>>

(* handle_read_range: the stream is kept unless it ended. *)
ServeRead ==
  /\ Takes({"read"})
  /\ queue' = Tail(queue)
  /\ LET r   == Head(queue)
         pos == StreamAt(r)
         n   == IF pos + r.len <= FileSize THEN r.len ELSE FileSize - pos
     IN  /\ kept' = IF n < r.len THEN NoStream ELSE OpenRead(r.obj, r.offset + n, pos + n)
         /\ Reply(r, [at |-> "idle", result |-> "end", req |-> r,
                      got |-> [i \in 1 .. n |-> <<r.obj, pos + i - 1>>]])
  /\ UNCHANGED <<worker, chan, stored, calls, device>>

(* A variant that never lets go of the stream. *)
ReleaseNever == FALSE /\ UNCHANGED wpdVars

(* recv_timeout: no window came for a second. *)
ReleaseIdle ==
  /\ worker.at = "recv" /\ queue = <<>> /\ kept # NoStream
  /\ kept' = NoStream
  /\ UNCHANGED <<queue, worker, chan, client, stored, calls, device>>

(* The queue goes with the worker, and with it the uploads waiting in it. *)
Stop ==
  /\ Takes({"shutdown"})
  /\ worker' = Ended /\ kept' = NoStream /\ queue' = <<>>
  /\ LET dropped == {queue[i].id : i \in {j \in 1 .. Len(queue) : queue[j].kind = "upload"}}
     IN  chan' = [i \in Ids |-> IF i \in dropped THEN [chan[i] EXCEPT !.q = <<>>, !.rx = FALSE]
                                ELSE chan[i]]
  /\ UNCHANGED <<client, stored, calls, device>>
-----------------------------------------------------------------------------
(* pump_chunks. *)

(* A variant that keeps the stream of an interrupted window too. *)
KeepAfterAnyPump(outcome) ==
  IF worker.req.kind = "window" /\ outcome # "eof"
  THEN OpenRead(worker.req.obj, worker.req.offset + worker.req.len, worker.pos)
  ELSE NoStream

(* Only a window that went out whole leaves its stream to the next. *)
KeepAfterPump(outcome) ==
  IF worker.req.kind = "window" /\ outcome = "complete"
  THEN OpenRead(worker.req.obj, worker.req.offset + worker.req.len, worker.pos)
  ELSE NoStream

EndPump(outcome) ==
  /\ kept' = KeepAfterPump(outcome)
  /\ chan' = [chan EXCEPT ![worker.req.id].tx = FALSE]
  /\ worker' = Receiving
  /\ UNCHANGED <<queue, client, stored, calls, device>>

Pumping == worker.at = "pump"

PumpComplete == Pumping /\ ~worker.fails /\ worker.left = 0 /\ EndPump("complete")

PumpEof == Pumping /\ ~worker.fails /\ worker.left > 0 /\ worker.pos >= FileSize /\ EndPump("eof")

(* The consumer is gone, or has been sent the error. *)
PumpStopped ==
  /\ Pumping
  /\ \/ worker.fails
     \/ worker.left > 0 /\ worker.pos < FileSize /\ ~chan[worker.req.id].rx
  /\ EndPump("stopped")

(* A read, or its failure, goes into the channel; send then waits for room. *)
PumpSend ==
  /\ Pumping /\ ~worker.fails /\ worker.left > 0
  /\ chan[worker.req.id].rx
  /\ \/ /\ worker.pos < FileSize
        /\ chan' = [chan EXCEPT ![worker.req.id].q = Append(@, <<worker.req.obj, worker.pos>>)]
        /\ worker' = [worker EXCEPT !.at = "flush", !.pos = @ + 1, !.left = @ - 1]
     \/ /\ chan' = [chan EXCEPT ![worker.req.id].q = Append(@, ReadError)]
        /\ worker' = [worker EXCEPT !.at = "flush", !.fails = TRUE]
  /\ UNCHANGED <<queue, kept, client, stored, calls, device>>

(* A variant that queues another chunk without waiting. *)
FlushedAtOnce ==
  /\ worker.at = "flush"
  /\ worker' = [worker EXCEPT !.at = "pump"]
  /\ UNCHANGED <<queue, kept, chan, client, stored, calls, device>>

(* A variant that a consumer's leaving does not wake. *)
FlushedWithRoom ==
  /\ worker.at = "flush"
  /\ chan[worker.req.id].rx /\ Len(chan[worker.req.id].q) <= Bound
  /\ worker' = [worker EXCEPT !.at = "pump"]
  /\ UNCHANGED <<queue, kept, chan, client, stored, calls, device>>

Flushed ==
  /\ worker.at = "flush"
  /\ Len(chan[worker.req.id].q) <= Bound \/ ~chan[worker.req.id].rx
  /\ worker' = [worker EXCEPT !.at = "pump"]
  /\ UNCHANGED <<queue, kept, chan, client, stored, calls, device>>
-----------------------------------------------------------------------------
(* handle_upload. *)

(* The receiver goes with the request; the verdict reaches a caller that is still there. *)
UploadReply(r, reply) ==
  LET waits == client[r.client].at \in {"upload", "verdict"} /\ client[r.client].req.id = r.id
  IN  chan' = [chan EXCEPT ![r.id] =
        IF waits THEN [@ EXCEPT !.q = <<>>, !.rx = FALSE, !.reply = reply] ELSE Closed]

CreateStream ==
  /\ Takes({"upload"})
  /\ queue' = Tail(queue) /\ kept' = KeptFor(Head(queue))
  /\ \/ /\ worker' = [at |-> "write", req |-> Head(queue), written |-> 0]
        /\ UNCHANGED chan
     \/ /\ UploadReply(Head(queue), "error")
        /\ UNCHANGED worker
  /\ UNCHANGED <<client, stored, calls, device>>

WriteChunk ==
  /\ worker.at = "write" /\ chan[worker.req.id].q # <<>>
  /\ \/ /\ chan' = [chan EXCEPT ![worker.req.id].q = Tail(@)]
        /\ worker' = [worker EXCEPT !.written = @ + 1]
     \/ UploadReply(worker.req, "error") /\ worker' = Receiving
  /\ UNCHANGED <<queue, kept, client, stored, calls, device>>

(* A variant that commits whatever arrived when the source closed the channel. *)
IsWholeIfAnything(written) == written > 0

IsWhole(written) == written = FileSize

(* The channel is closed: commit a whole object, release a short one. *)
FinishUpload ==
  /\ worker.at = "write" /\ chan[worker.req.id].q = <<>> /\ ~chan[worker.req.id].tx
  /\ IF IsWhole(worker.written)
     THEN \/ /\ UploadReply(worker.req, "committed")
             /\ stored' = [stored EXCEPT ![worker.req.id] = worker.written]
          \/ /\ UploadReply(worker.req, "error")
             /\ stored' \in {stored, [stored EXCEPT ![worker.req.id] = worker.written]}
     ELSE UploadReply(worker.req, "short") /\ UNCHANGED stored
  /\ worker' = Receiving
  /\ UNCHANGED <<queue, kept, client, calls, device>>
-----------------------------------------------------------------------------
WorkerStep ==
  \/ ServePlain \/ StartPump \/ StreamFails \/ ServeRead \/ ReleaseIdle \/ Stop
  \/ PumpComplete \/ PumpEof \/ PumpStopped \/ PumpSend \/ Flushed
  \/ CreateStream \/ WriteChunk \/ FinishUpload

(* What a client does of itself once it has begun. *)
ClientStep(c) ==
  \/ Disconnected(c) \/ ReadChunk(c) \/ EndBody(c) \/ Joined(c)
  \/ SendChunk(c) \/ StopUpload(c) \/ Verdict(c)

WpdNext ==
  \/ WorkerStep
  \/ \E c \in Clients :
       ClientStep(c) \/ Call(c) \/ DropCall(c) \/ CancelBody(c) \/ DropLastBody(c) \/ DropUpload(c)
  \/ Close \/ DropDevice

WpdSpec == WpdInit /\ [][WpdNext]_wpdVars

(* The thread runs, and a client reads the body it holds, feeds its upload *)
(* and polls its calls: until it does, the worker serves nobody else.      *)
WpdFairSpec == WpdSpec /\ WF_wpdVars(WorkerStep) /\ \A c \in Clients : WF_wpdVars(ClientStep(c))
-----------------------------------------------------------------------------
(* Properties *)

(* The shape of the worker's, the clients' and the channels' state: a      *)
(* channel holds at most one unit more than DATA_BOUND.                    *)
WpdTypeOK ==
  /\ worker.at \in {"recv", "pump", "flush", "write", "ended"}
  /\ \A i \in Ids : Len(chan[i].q) <= Bound + 1
  /\ \A c \in Clients : client[c].at \in {"idle", "call", "body", "joining", "upload", "verdict"}
  /\ kept # NoStream => worker.at = "recv"
  /\ worker.at = "ended" => queue = <<>>
  /\ calls \in 0 .. MaxCalls /\ device \in BOOLEAN

(* What a download, a window or a ranged read delivers is its object's     *)
(* bytes from its offset on, in order, and all of them when it ends        *)
(* without an error, whether its stream was opened for it or kept from an  *)
(* earlier window that others cancelled, dropped or outran.                *)
ReadsOwnBytes ==
  \A c \in Clients :
    "got" \in DOMAIN client[c] =>
      LET r == client[c].req
          n == Len(client[c].got)
      IN  /\ client[c].got = [i \in 1 .. n |-> <<r.obj, r.offset + i - 1>>]
          /\ n <= r.len
          /\ (client[c].at = "idle" /\ client[c].result = "end") =>
               n = r.len \/ r.offset + n = FileSize

(* No request meets a read stream left open: the device would refuse it as *)
(* busy.                                                                   *)
NeverBusy == \A c \in Clients : client[c].at = "idle" => client[c].result # "busy"

(* An upload reports success only when the device committed every declared *)
(* unit, and a cancelled, failed or truncated source commits nothing.      *)
UploadVerdict ==
  \A c \in Clients :
    (client[c].at = "idle" /\ "req" \in DOMAIN client[c] /\ client[c].req.kind = "upload") =>
      /\ client[c].result = "stored" => stored[client[c].req.id] = FileSize
      /\ client[c].result \in {"clean", "aborted"} => stored[client[c].req.id] = Absent

(* Every call comes back, with an answer or as disconnected, though other  *)
(* clients drop, cancel and stop the device around it.                     *)
CallsReturn == \A c \in Clients : client[c].at \in {"call", "verdict"} ~> client[c].at \in {"idle", "body"}

(* The device is not kept busy by a stream nobody continues.               *)
KeptIsReleased == []<>(kept = NoStream)

(* stream.rs: "Dropping the download is safe too".                         *)
DropReturns == \A c \in Clients : client[c].at = "joining" ~> client[c].at = "idle"

(* A read is served from its own stream, and no request finds the device   *)
(* busy with a stream that the worker keeps for another.                   *)
ReadsAreServed == ReadsOwnBytes /\ NeverBusy
=============================================================================
