--------------------------- MODULE ReceiveStream ----------------------------
(***************************************************************************)
(* The data phase of a streamed download, byte by byte: how                *)
(* ReceiveStream::next_chunk (ptp/session/streaming.rs) finds the payload  *)
(* in what bulk reads return, and when it gives the session back.          *)
(*                                                                         *)
(* The device's answer is laid out on one line of bytes, 1 .. the total:   *)
(* late replies of earlier transactions, the data container, the response. *)
(* The buffer is the stretch of it between pos and got, so what a byte     *)
(* means is known from its place and no content is needed.                 *)
(***************************************************************************)
EXTENDS Integers, Sequences, SequencesExt

CONSTANTS
  HeaderSize,       \* HEADER_SIZE, 12 bytes in the code
  ResponseSize,     \* a response container: the header and its parameters
  PacketSize,       \* the bulk endpoint's packet size
  ChunkSize,        \* RECEIVE_CHUNK, a multiple of the packet size
  LengthLimit,      \* u32::MAX: the length field's largest value, and the sentinel
  MaxPayload,       \* bound: the object's size
  MaxLate,          \* bound: late replies in front of the answer
  MaxStaleReplies   \* MAX_STALE_REPLIES

ASSUME StreamAssumption ==
  /\ {HeaderSize, ResponseSize, PacketSize, ChunkSize} \subseteq Nat \ {0}
  /\ HeaderSize <= ResponseSize /\ ResponseSize < PacketSize
  /\ ChunkSize % PacketSize = 0
  /\ LengthLimit > HeaderSize + ChunkSize   \* 4 GiB is far more than one read
  /\ {LengthLimit, MaxPayload, MaxLate, MaxStaleReplies} \subseteq Nat

VARIABLES
  answer,   \* what the device has to say, fixed by the command
  got,      \* bytes received from the transport
  xfer,     \* the USB transfer the next read reads from
  s,        \* the fields of the ReceiveStream
  guard,    \* the stream holds the operation lock
  flagged,  \* it has flagged the session for recovery
  at,       \* where the caller is: outside, in next_chunk's loop, at its await, or gone
  out,      \* the bytes handed to the caller
  returned  \* what the last next_chunk returned

streamVars == <<answer, got, xfer, s, guard, flagged, at, out, returned>>

Unknown == -1     \* payload_remaining of None

(***************************************************************************)
(* The device's answer.  A split answer sends the data header as a         *)
(* transfer of its own; a transfer that ends on a packet boundary is       *)
(* closed by a zero-length packet, or, on some devices and when the length *)
(* is known, not at all.  A stray device also returns empty reads where    *)
(* no transfer ends.                                                       *)
(***************************************************************************)
LengthField(n) == IF HeaderSize + n <= LengthLimit THEN HeaderSize + n ELSE LengthLimit

Answers ==
  {a \in [late : 0 .. MaxLate, data : BOOLEAN, size : 0 .. MaxPayload, split : BOOLEAN,
          zlp : BOOLEAN, sized : BOOLEAN, ok : BOOLEAN, stray : BOOLEAN] :
     /\ ~a.data => a.size = 0 /\ ~a.split /\ ~a.ok
     /\ LengthField(a.size) = LengthLimit => a.zlp
     \* UsbBackend::download passes the size of objects past u32::MAX only
     /\ a.sized => a.size > LengthLimit}

DataAt     == answer.late * ResponseSize
PayloadAt  == DataAt + HeaderSize
ResponseAt == IF answer.data THEN PayloadAt + answer.size ELSE DataAt
Payload    == IF answer.data THEN PayloadAt + 1 .. PayloadAt + answer.size ELSE {}

(* Where each USB transfer of the answer ends. *)
TransferEnds ==
  [i \in 1 .. answer.late |-> i * ResponseSize]
  \o (IF answer.data /\ answer.split THEN <<PayloadAt>> ELSE <<>>)
  \o (IF answer.data /\ ~(answer.split /\ answer.size = 0) THEN <<ResponseAt>> ELSE <<>>)
  \o <<ResponseAt + ResponseSize>>

TransferStart(k) == IF k = 1 THEN 0 ELSE TransferEnds[k - 1]

(* The transfer's end shows on the wire, as a short or an empty packet. *)
EndShows(k) == (TransferEnds[k] - TransferStart(k)) % PacketSize # 0 \/ answer.zlp

(***************************************************************************)
(* One bulk read of RECEIVE_CHUNK bytes: it completes when it is full or   *)
(* at the first short packet, so a transfer whose end does not show runs   *)
(* into the next one.  <<bytes received, next transfer>>.                  *)
(***************************************************************************)
BulkRead ==
  LET left == TransferEnds[xfer] - got
  IN  CASE left > ChunkSize -> <<got + ChunkSize, xfer>>
        [] left = ChunkSize -> <<got + ChunkSize, IF EndShows(xfer) THEN xfer ELSE xfer + 1>>
        [] left < ChunkSize /\ EndShows(xfer) -> <<TransferEnds[xfer], xfer + 1>>
        [] OTHER -> <<TransferEnds[xfer + 1], xfer + 2>>

StreamInit ==
  /\ answer \in Answers
  /\ got = 0 /\ xfer = 1
  /\ s = [pos |-> 0, remaining |-> Unknown, yielded |-> 0, large |-> FALSE,
          inPayload |-> FALSE, shortRead |-> FALSE, expectZlp |-> FALSE,
          skipped |-> 0, sawData |-> FALSE, done |-> FALSE]
  /\ guard = TRUE /\ flagged = FALSE
  /\ at = "caller" /\ out = {} /\ returned = "none"

Buffered == got - s.pos

(* finish: flag first when the pipe is in doubt, then give the lock back. *)
Finish(inDoubt, r) ==
  /\ s' = [s EXCEPT !.done = TRUE]
  /\ flagged' = (flagged \/ inDoubt)
  /\ guard' = FALSE
  /\ at' = "caller" /\ returned' = r

NextChunk ==
  /\ at = "caller" /\ ~s.done
  /\ at' = "loop"
  /\ UNCHANGED <<answer, got, xfer, s, guard, flagged, out, returned>>

(* A variant of StartPayload that counts the header into the payload. *)
StartPayloadWithHeader ==
  [s EXCEPT !.pos = @ + HeaderSize,
            !.large = (LengthField(answer.size) = LengthLimit),
            !.remaining = IF LengthField(answer.size) = LengthLimit
                          THEN IF answer.sized THEN answer.size ELSE Unknown
                          ELSE LengthField(answer.size),
            !.yielded = 0, !.inPayload = TRUE, !.sawData = TRUE]

(* consume_container_header on a data container. *)
StartPayload ==
  [s EXCEPT !.pos = @ + HeaderSize,
            !.large = (LengthField(answer.size) = LengthLimit),
            !.remaining = IF LengthField(answer.size) = LengthLimit
                          THEN IF answer.sized THEN answer.size ELSE Unknown
                          ELSE LengthField(answer.size) - HeaderSize,
            !.yielded = 0, !.inPayload = TRUE, !.sawData = TRUE]

AtHeader == at = "loop" /\ ~s.inPayload /\ Buffered >= HeaderSize

(***************************************************************************)
(* consume_container_header.  A place that starts no container is garbage  *)
(* to it.                                                                  *)
(***************************************************************************)
ConsumeData ==
  /\ AtHeader /\ answer.data /\ s.pos = DataAt
  /\ s' = StartPayload
  /\ UNCHANGED <<answer, got, xfer, guard, flagged, at, out, returned>>

(* A variant of SkipLateReply without the limit. *)
SkipAnyLateReply ==
  /\ AtHeader /\ s.pos < DataAt
  /\ ~s.sawData
  /\ s' = [s EXCEPT !.skipped = @ + 1, !.pos = @ + ResponseSize]
  /\ UNCHANGED <<answer, got, xfer, guard, flagged, at, out, returned>>

SkipLateReply ==
  /\ AtHeader /\ s.pos < DataAt
  /\ ~s.sawData /\ s.skipped < MaxStaleReplies
  /\ s' = [s EXCEPT !.skipped = @ + 1, !.pos = @ + ResponseSize]
  /\ UNCHANGED <<answer, got, xfer, guard, flagged, at, out, returned>>

ConsumeResponse ==
  /\ AtHeader /\ s.pos = ResponseAt
  /\ Finish(FALSE, IF answer.ok THEN "end" ELSE "refused")
  /\ UNCHANGED <<answer, got, xfer, out>>

ConsumeUnexpected ==
  /\ AtHeader
  /\ \/ s.pos < DataAt /\ s.skipped >= MaxStaleReplies
     \/ s.pos > DataAt /\ s.pos # ResponseAt
  /\ Finish(TRUE, "error")
  /\ UNCHANGED <<answer, got, xfer, out>>

(***************************************************************************)
(* The payload.  A container with the length sentinel ends where a read    *)
(* comes up short, once something of it has been handed out.               *)
(***************************************************************************)
Lesser(a, b) == IF a < b THEN a ELSE b

Remaining ==
  IF s.large /\ s.shortRead /\ s.yielded > 0
  THEN IF s.remaining = Unknown THEN Buffered ELSE Lesser(s.remaining, Buffered)
  ELSE s.remaining

(* A variant of Take that waits for the whole container. *)
TakeWhenWhole ==
  IF Remaining = Unknown THEN Buffered
  ELSE IF ~s.large /\ Buffered < Remaining THEN 0 ELSE Lesser(Remaining, Buffered)

Take == IF Remaining = Unknown THEN Buffered ELSE Lesser(Remaining, Buffered)

(* A variant of EndContainer that expects no zero-length packet. *)
EndContainerUnterminated(r) ==
  [r EXCEPT !.inPayload = FALSE, !.remaining = Unknown, !.yielded = 0, !.large = FALSE]

EndContainer(r) ==
  [r EXCEPT !.expectZlp = TRUE, !.inPayload = FALSE, !.remaining = Unknown,
            !.yielded = 0, !.large = FALSE]

YieldChunk ==
  /\ at = "loop" /\ s.inPayload /\ Take > 0
  /\ LET left == IF Remaining = Unknown THEN Unknown ELSE Remaining - Take
         r    == [s EXCEPT !.pos = @ + Take, !.yielded = @ + Take, !.remaining = left]
     IN  s' = IF left = 0 THEN EndContainer(r) ELSE r
  /\ out' = out \cup (s.pos + 1 .. s.pos + Take)
  /\ at' = "caller" /\ returned' = "chunk"
  /\ UNCHANGED <<answer, got, xfer, guard, flagged>>

(* A variant of EndEmpty that leaves the exhausted container open. *)
EndEmptyAgain ==
  /\ at = "loop" /\ s.inPayload /\ Take = 0 /\ Remaining = 0
  /\ UNCHANGED streamVars

EndEmpty ==
  /\ at = "loop" /\ s.inPayload /\ Take = 0 /\ Remaining = 0
  /\ s' = EndContainer(s)
  /\ UNCHANGED <<answer, got, xfer, guard, flagged, at, out, returned>>

NeedMore ==
  /\ at = "loop"
  /\ IF s.inPayload THEN Take = 0 /\ Remaining # 0 ELSE Buffered < HeaderSize
  /\ s' = [s EXCEPT !.shortRead = FALSE]
  /\ at' = "read"
  /\ UNCHANGED <<answer, got, xfer, guard, flagged, out, returned>>

(***************************************************************************)
(* The bulk read at next_chunk's await.  An empty read ends a container    *)
(* with the sentinel, is expected once after any other, and is an error    *)
(* elsewhere; that error leaves the stream as it is.                       *)
(***************************************************************************)
OnEmptyRead ==
  \/ /\ s.inPayload /\ s.large
     /\ s' = [s EXCEPT !.shortRead = TRUE]
     /\ at' = "loop" /\ UNCHANGED returned
  \/ /\ ~(s.inPayload /\ s.large) /\ s.expectZlp
     /\ s' = [s EXCEPT !.expectZlp = FALSE]
     /\ at' = "loop" /\ UNCHANGED returned
  \/ /\ ~(s.inPayload /\ s.large) /\ ~s.expectZlp
     /\ at' = "caller" /\ returned' = "error"
     /\ UNCHANGED s

ReceiveBytes ==
  /\ at = "read" /\ xfer <= Len(TransferEnds)
  /\ got' = BulkRead[1] /\ xfer' = BulkRead[2]
  /\ IF got' = got
     THEN OnEmptyRead
     ELSE /\ s' = [s EXCEPT !.expectZlp = FALSE, !.shortRead = (got' - got < ChunkSize)]
          /\ at' = "loop" /\ UNCHANGED returned
  /\ UNCHANGED <<answer, guard, flagged, out>>

ReceiveStrayEmpty ==
  /\ answer.stray /\ at = "read"
  /\ OnEmptyRead
  /\ UNCHANGED <<answer, got, xfer, guard, flagged, out>>

ReceiveFails ==
  /\ at = "read"
  /\ \E reset \in BOOLEAN : Finish(~reset, IF reset THEN "reset" ELSE "failed")
  /\ UNCHANGED <<answer, got, xfer, out>>

(***************************************************************************)
(* The caller: it may drop next_chunk's future at its await and poll       *)
(* again, cancel, or drop the stream.  cancel_transfer's own steps are in  *)
(* PtpSession.                                                             *)
(***************************************************************************)
DropFuture ==
  /\ at = "read" /\ at' = "caller"
  /\ UNCHANGED <<answer, got, xfer, s, guard, flagged, out, returned>>

Cancel ==
  /\ at = "caller" /\ ~s.done
  /\ \E r \in {"cancelled", "reset", "failed"} : Finish(r = "failed", r)
  /\ UNCHANGED <<answer, got, xfer, out>>

(* A variant of DropStream without the flag. *)
DropStreamSilently ==
  /\ at \in {"caller", "read"}
  /\ at' = "dropped" /\ guard' = FALSE
  /\ UNCHANGED <<answer, got, xfer, s, flagged, out, returned>>

DropStream ==
  /\ at \in {"caller", "read"}
  /\ at' = "dropped"
  /\ flagged' = (flagged \/ ~s.done)
  /\ guard' = FALSE
  /\ UNCHANGED <<answer, got, xfer, s, out, returned>>

StreamStep ==
  \/ NextChunk
  \/ ConsumeData \/ SkipLateReply \/ ConsumeResponse \/ ConsumeUnexpected
  \/ YieldChunk \/ EndEmpty \/ NeedMore
  \/ ReceiveBytes

StreamNext == StreamStep \/ ReceiveStrayEmpty \/ ReceiveFails \/ DropFuture \/ Cancel \/ DropStream

StreamSpec == StreamInit /\ [][StreamNext]_streamVars

(* The caller keeps asking.  A bulk read goes on when the future that      *)
(* awaits it is dropped, and the next call picks it up: reads complete     *)
(* however short the caller's patience is.                                 *)
StreamFairSpec == StreamSpec /\ WF_streamVars(StreamStep) /\ SF_streamVars(ReceiveBytes)
-----------------------------------------------------------------------------
(* Properties *)

(* The shape of the stream's state. *)
StreamTypeOK ==
  /\ answer \in Answers
  /\ got \in Nat /\ xfer \in Nat \ {0}
  /\ s \in [pos : Nat, remaining : Nat \cup {Unknown}, yielded : Nat, large : BOOLEAN,
            inPayload : BOOLEAN, shortRead : BOOLEAN, expectZlp : BOOLEAN,
            skipped : 0 .. MaxStaleReplies, sawData : BOOLEAN, done : BOOLEAN]
  /\ guard \in BOOLEAN /\ flagged \in BOOLEAN
  /\ at \in {"caller", "loop", "read", "dropped"}
  /\ out \subseteq Nat
  /\ returned \in {"none", "chunk", "end", "refused", "error", "failed", "reset",
                   "cancelled"}

(* What next_chunk has yielded is always a prefix of the object, and all   *)
(* of it once the stream reports its end: headers, the response and late   *)
(* replies never end up in the file, and nothing is cut off or dropped at  *)
(* a packet boundary, at the 4 GiB sentinel or at a split header.          *)
YieldsObject ==
  /\ out \subseteq Payload
  /\ \A b \in out : PayloadAt + 1 .. b \subseteq out
  /\ returned = "end" => out = Payload

(* No well-formed answer is refused as malformed, except one behind more   *)
(* late replies than the stream may skip or with empty reads out of place. *)
NoFalseAlarm == returned = "error" => answer.late > MaxStaleReplies \/ answer.stray

(* RECEIVE_CHUNK's promise that the stream holds about one bulk read,      *)
(* whatever the object's size.                                             *)
BufferIsBounded == Buffered < ChunkSize + HeaderSize

(* The lock never goes back with the answer partly unread and nobody told: *)
(* the session is flagged, unless the response has been read, the cancel   *)
(* drained it, or a reset has ended the session.                           *)
UnreadIsFlagged == ~guard => (flagged \/ returned \in {"end", "refused", "reset", "cancelled"})

(* A caller that has begun to ask, and keeps asking, reaches the end of    *)
(* the stream, or leaves it.                                               *)
StreamEnds == at # "caller" ~> s.done \/ at = "dropped"

(* A stream reports the object, all of it and nothing else, and reports it *)
(* as an error only where the device left no other choice.                 *)
StreamIsExact == YieldsObject /\ NoFalseAlarm
=============================================================================
