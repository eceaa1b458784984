------------------------------ MODULE BulkSend ------------------------------
(***************************************************************************)
(* NusbTransport::send_bulk_streaming: a data phase of unknown length is   *)
(* cut into bulk transfers of one size as its chunks come, and ended so    *)
(* that the device sees a packet shorter than the endpoint's packet size.  *)
(* The endpoint hands completions out in the order of submission, also     *)
(* those of a transfer that an earlier call stopped waiting for.           *)
(***************************************************************************)
EXTENDS Naturals, Sequences, FiniteSetsExt, SequencesExt

CONSTANTS
  SendPacket,    \* max_packet_size of the endpoint
  WantedSize,    \* bytes that a transfer should have, 256 KiB in the code
  MaxChunkLen,   \* bound: bytes of a chunk
  MaxSendChunks, \* bound: chunks of a call
  MaxSends,      \* bound: calls
  MaxUnanswered  \* bound: transfers the device takes too long over

ASSUME SendAssumption ==
  /\ SendPacket \in Nat \ {0} /\ WantedSize \in Nat \ {0} /\ MaxChunkLen \in Nat
  /\ MaxSendChunks \in Nat /\ MaxSends \in Nat /\ MaxUnanswered \in Nat

VARIABLES
  sender,      \* the call: [at, rest, buf, total]
  outQueue,    \* transfers submitted whose completion is still to be taken: their calls
  received,    \* the lengths of the transfers of this call that the device took
  fed,         \* bytes this call got from its stream
  chunks,      \* chunks it got
  sends,       \* calls so far
  unanswered   \* waits that ran out so far

sendVars == <<sender, outQueue, received, fed, chunks, sends, unanswered>>

TransferSize == ((WantedSize + SendPacket - 1) \div SendPacket) * SendPacket

SendInit ==
  /\ sender = [at |-> "idle", rest |-> 0, buf |-> 0, total |-> 0]
  /\ outQueue = <<>> /\ received = <<>> /\ fed = 0 /\ chunks = 0 /\ sends = 0 /\ unanswered = 0

SendStart ==
  /\ sender.at \in {"idle", "sent", "failed"} /\ sends < MaxSends /\ sends' = sends + 1
  /\ sender' = [at |-> "stream", rest |-> 0, buf |-> 0, total |-> 0]
  /\ received' = <<>> /\ fed' = 0 /\ chunks' = 0
  /\ UNCHANGED <<outQueue, unanswered>>

(* The stream has a chunk, an error, or no more; or the caller drops the future. *)
ChunkComes ==
  /\ sender.at = "stream" /\ chunks < MaxSendChunks /\ chunks' = chunks + 1
  /\ \E n \in 0 .. MaxChunkLen :
       sender' = [sender EXCEPT !.at = "copy", !.rest = n] /\ fed' = fed + n
  /\ UNCHANGED <<outQueue, received, sends, unanswered>>

SourceFails ==
  /\ sender.at = "stream" /\ sender' = [sender EXCEPT !.at = "failed"]
  /\ UNCHANGED <<outQueue, received, fed, chunks, sends, unanswered>>

(* A transfer is submitted, and its completion, or an older one, awaited. *)
Submit(len, at) ==
  /\ outQueue' = Append(outQueue, sends)
  /\ received' = Append(received, len)
  /\ sender' = [sender EXCEPT !.at = at, !.buf = 0,
                              !.total = IF at = "wait_full" THEN @ + TransferSize ELSE @,
                              !.rest = IF at = "wait_full" THEN @ - (len - sender.buf) ELSE @]

(* Mutant: the buffer goes out with the chunk after the one that fills it. *)
CopyChunkLate ==
  /\ sender.at = "copy"
  /\ LET space == TransferSize - sender.buf IN
     IF sender.rest > space
       THEN Submit(TransferSize, "wait_full")
       ELSE /\ sender' = [sender EXCEPT !.at = "stream", !.rest = 0, !.buf = @ + sender.rest]
            /\ UNCHANGED <<outQueue, received>>
  /\ UNCHANGED <<fed, chunks, sends, unanswered>>

(* The chunk goes into the buffer; a buffer that is full goes out. *)
CopyChunk ==
  /\ sender.at = "copy"
  /\ LET space == TransferSize - sender.buf IN
     IF sender.rest >= space
       THEN Submit(TransferSize, "wait_full")
       ELSE /\ sender' = [sender EXCEPT !.at = "stream", !.rest = 0, !.buf = @ + sender.rest]
            /\ UNCHANGED <<outQueue, received>>
  /\ UNCHANGED <<fed, chunks, sends, unanswered>>

(* Mutant: a data phase that ends with a full buffer ends there. *)
SourceEndsBare ==
  /\ sender.at = "stream"
  /\ IF sender.buf > 0
       THEN Submit(sender.buf, "wait_end")
       ELSE sender' = [sender EXCEPT !.at = "sent"] /\ UNCHANGED <<outQueue, received>>
  /\ UNCHANGED <<fed, chunks, sends, unanswered>>

(* What is left goes out; if nothing is, and something was sent, a packet of no length. *)
SourceEnds ==
  /\ sender.at = "stream"
  /\ \/ /\ sender.buf > 0
        /\ Submit(sender.buf, IF sender.buf % SendPacket = 0 THEN "wait_last" ELSE "wait_end")
     \/ sender.buf = 0 /\ sender.total > 0 /\ Submit(0, "wait_end")
     \/ /\ sender.buf = 0 /\ sender.total = 0
        /\ sender' = [sender EXCEPT !.at = "sent"] /\ UNCHANGED <<outQueue, received>>
  /\ UNCHANGED <<fed, chunks, sends, unanswered>>

(* The oldest completion is taken, good or bad. *)
Completes ==
  /\ sender.at \in {"wait_full", "wait_last", "wait_end"} /\ outQueue # <<>>
  /\ \/ /\ sender.at = "wait_full" /\ outQueue' = Tail(outQueue) /\ UNCHANGED received
        /\ sender' = [sender EXCEPT !.at = "copy"]
     \/ /\ sender.at = "wait_last" /\ outQueue' = Append(Tail(outQueue), sends)
        /\ received' = Append(received, 0)
        /\ sender' = [sender EXCEPT !.at = "wait_end"]
     \/ /\ sender.at = "wait_end" /\ outQueue' = Tail(outQueue) /\ UNCHANGED received
        /\ sender' = [sender EXCEPT !.at = "sent"]
     \/ /\ outQueue' = Tail(outQueue) /\ UNCHANGED received
        /\ sender' = [sender EXCEPT !.at = "failed"]
  /\ UNCHANGED <<fed, chunks, sends, unanswered>>

(* wait_next_complete gives up: the transfer stays submitted. *)
TimesOut ==
  /\ sender.at \in {"wait_full", "wait_last", "wait_end"}
  /\ unanswered < MaxUnanswered /\ unanswered' = unanswered + 1
  /\ sender' = [sender EXCEPT !.at = "failed"]
  /\ UNCHANGED <<outQueue, received, fed, chunks, sends>>

SendNext ==
  \/ SendStart \/ ChunkComes \/ SourceFails \/ CopyChunk \/ SourceEnds \/ Completes \/ TimesOut

SendSpec == SendInit /\ [][SendNext]_sendVars
-----------------------------------------------------------------------------
(* The buffer never exceeds a transfer, and every byte fed is in a transfer, in the buffer
   or still in the chunk. *)
SendTypeOK ==
  /\ sender.at \in {"idle", "stream", "copy", "wait_full", "wait_last", "wait_end", "sent", "failed"}
  /\ sender.buf \in 0 .. TransferSize - 1
  /\ fed = FoldLeft(LAMBDA a, n : a + n, 0, received) + sender.buf + sender.rest

(* The device can tell where the data phase ends: every transfer of it but the last is
   made of full packets, and the last one ends short, or is empty.  And it has all of it,
   unless an earlier call gave up on a transfer, whose completion this one took for its own. *)
PhaseIsDelimited ==
  sender.at = "sent" /\ fed > 0 =>
    /\ \A i \in 1 .. Len(received) - 1 : received[i] > 0 /\ received[i] % SendPacket = 0
    /\ Last(received) = 0 \/ Last(received) % SendPacket # 0
    /\ unanswered = 0 => outQueue = <<>>
=============================================================================
