--------------------------- MODULE TransferProofs ---------------------------
(***************************************************************************)
(* What the three ways data moves promise, for files, windows, headers,    *)
(* packets, transfers and chunks of any size and any number of late        *)
(* replies.  A stream gives its caller the object and nothing else,        *)
(* buffers about one read at most, and never gives the lock back over an   *)
(* unread answer unflagged; a download is its range; an upload's data      *)
(* phase ends where the device can see it.                                 *)
(***************************************************************************)
EXTENDS MCTransfers, FiniteSetTheorems, TLAPS

-----------------------------------------------------------------------------
(* ReceiveStream.  The inductive invariant of a stream. *)

LastXfer == Len(TransferEnds)

(* The payload has a transfer of its own, or shares the header's. *)
HasBody == answer.data /\ ~(answer.split /\ answer.size = 0)

BodyAt == IF answer.split THEN PayloadAt ELSE DataAt

BodyEndShows == EndShows(LastXfer - 1)

(* The object is one of those whose length field is the sentinel. *)
Huge == HeaderSize + answer.size >= LengthLimit

(* Reads begin where transfers do, except inside the data transfer, where  *)
(* they have taken whole chunks; its end is still to come only if it shows *)
(* on the wire.                                                            *)
ReadInv ==
  /\ xfer \in 1 .. LastXfer + 1 /\ got \in Nat
  /\ xfer <= answer.late => got = (xfer - 1) * ResponseSize
  /\ xfer = LastXfer => got = ResponseAt
  /\ xfer = LastXfer + 1 => got = ResponseAt + ResponseSize
  /\ answer.split /\ xfer = answer.late + 1 => got = DataAt
  /\ HasBody /\ xfer = LastXfer - 1 =>
       /\ \E q \in Nat : got = BodyAt + q * ChunkSize
       /\ got <= ResponseAt
       /\ got = ResponseAt => BodyEndShows

(* Who holds the lock, and what the one who gave it back has said. *)
LockInv ==
  /\ guard = (~s.done /\ at # "dropped")
  /\ s.done => at \in {"caller", "dropped"}
  /\ ~guard => flagged \/ returned \in {"end", "refused", "reset", "cancelled"}

(* Before the data header: whole late replies, one read each, and none is  *)
(* read while the one before it is unskipped.                              *)
LateInv ==
  ~s.sawData =>
    /\ ~s.inPayload /\ out = {}
    /\ s.skipped <= answer.late /\ s.pos = s.skipped * ResponseSize
    /\ \/ xfer = s.skipped + 1 /\ got = s.pos
       \/ /\ at # "read" /\ got >= s.pos + HeaderSize /\ got <= s.pos + ChunkSize
          /\ s.skipped < answer.late => xfer = s.skipped + 2 /\ got = s.pos + ResponseSize
          /\ s.skipped = answer.late => xfer > answer.late
          /\ s.skipped = answer.late /\ Huge /\ s.shortRead => got = s.pos + HeaderSize

(* In the payload: what is left of it is known, or is up to the reads; and *)
(* past the sentinel the response is not read before the container is      *)
(* closed.                                                                 *)
PayloadInv ==
  s.inPayload =>
    /\ answer.data /\ s.sawData
    /\ s.large = Huge
    /\ PayloadAt <= s.pos /\ s.pos <= ResponseAt
    /\ s.yielded = s.pos - PayloadAt
    /\ s.remaining = (IF Huge /\ ~answer.sized THEN Unknown ELSE ResponseAt - s.pos)
    /\ at = "read" => got = s.pos /\ s.remaining # 0 /\ ~s.shortRead
    /\ Huge =>
         /\ got <= ResponseAt
         /\ xfer >= LastXfer => at = "loop" /\ s.shortRead /\ s.yielded > 0
         /\ s.shortRead /\ got > s.pos => got = ResponseAt
         /\ s.shortRead /\ s.yielded > 0 => got = ResponseAt \/ answer.stray

(* After the payload: at the response, with an empty read still expected   *)
(* when the data transfer is not over.                                     *)
AfterInv ==
  s.sawData /\ ~s.inPayload =>
    /\ answer.data
    /\ PayloadAt <= s.pos /\ s.pos <= ResponseAt
    /\ s.pos = ResponseAt \/ answer.stray
    /\ xfer < LastXfer => s.expectZlp \/ answer.stray

(* The caller has what lies between the header and the stream's position. *)
OutInv == out = IF s.sawData THEN PayloadAt + 1 .. s.pos ELSE {}

EndInv == returned = "end" => s.sawData /\ s.pos = ResponseAt /\ s.done

BufferInv ==
  /\ s.pos <= got /\ BufferIsBounded
  /\ at = "read" => Buffered < HeaderSize

StreamInv ==
  /\ StreamTypeOK /\ ReadInv /\ LockInv /\ LateInv /\ PayloadInv /\ AfterInv
  /\ OutInv /\ EndInv /\ BufferInv /\ NoFalseAlarm
-----------------------------------------------------------------------------
(* Arithmetic of packets. *)

(* What is left of a transfer of whole packets is whole packets, so a      *)
(* response still fits behind it in the read that comes up short of it.    *)
LEMMA WholePackets ==
  ASSUME NEW P \in Nat \ {0}, NEW C \in Nat, NEW len \in Nat, NEW q \in Nat, NEW r \in Nat,
         C % P = 0, len % P = 0, len - q * C < C, r < P
  PROVE  len - q * C + r < C
<1> DEFINE a == len \div P
           b == C \div P
           k == q * b
<1>1. a \in Nat /\ b \in Nat
  BY Z3
<1>2. len = P * a /\ C = P * b
  BY <1>1, Z3
<1>3. k \in Nat
  BY <1>1, Z3
<1> HIDE DEF a, b
<1>4. q * C = P * k
  BY <1>1, <1>2, Z3
<1>5. a - k < b
  <2> HIDE DEF k
  <2>1. SUFFICES ASSUME a - k >= b PROVE FALSE
    BY <1>1, <1>3
  <2>2. PICK d \in Nat : a = k + b + d
    <3>1. a - k - b \in Nat /\ a = k + b + (a - k - b)
      BY <2>1, <1>1, <1>3
    <3> QED BY <3>1
  <2>3. P * a = P * k + P * b + P * d /\ P * d >= 0
    BY <2>2, <1>1, <1>3, Z3
  <2>4. P * k \in Nat /\ P * b \in Nat /\ P * d \in Nat
    BY <1>1, <1>3, <2>2, Z3
  <2> QED BY <2>3, <2>4, <1>2, <1>4
<1>6. PICK d \in Nat : a + d + 1 = k + b
  <2> HIDE DEF k
  <2>1. k + b - a - 1 \in Nat /\ a + (k + b - a - 1) + 1 = k + b
    BY <1>5, <1>1, <1>3
  <2> QED BY <2>1
<1>7. P * a + P * d + P = P * k + P * b /\ P * d \in Nat
  <2> HIDE DEF k
  <2>1. P * (a + d + 1) = P * (k + b)
    BY <1>6
  <2>2. P * (a + d + 1) = P * a + P * d + P
    BY <1>1, Z3
  <2>3. P * (k + b) = P * k + P * b
    BY <1>1, <1>3, Z3
  <2>4. P * d \in Nat
    BY Z3
  <2> QED BY <2>1, <2>2, <2>3, <2>4
<1>8. P * a \in Nat /\ P * b \in Nat /\ P * k \in Nat
  BY <1>1, <1>3, Z3
<1> HIDE DEF k
<1> QED BY <1>2, <1>4, <1>7, <1>8
-----------------------------------------------------------------------------
(* The layout of the device's answer. *)

LEMMA AnswerParts ==
  ASSUME answer \in Answers
  PROVE  /\ answer.late \in Nat /\ answer.size \in Nat
         /\ {answer.data, answer.split, answer.zlp, answer.sized, answer.ok, answer.stray}
              \subseteq BOOLEAN
         /\ ~answer.data => answer.size = 0 /\ ~answer.split /\ ~answer.ok
         /\ LengthField(answer.size) = LengthLimit => answer.zlp
         /\ answer.sized => answer.size > LengthLimit
  BY StreamAssumption DEF Answers

LEMMA Places ==
  ASSUME answer \in Answers
  PROVE  /\ DataAt \in Nat /\ PayloadAt \in Nat /\ ResponseAt \in Nat
         /\ PayloadAt = DataAt + HeaderSize
         /\ answer.data => ResponseAt = PayloadAt + answer.size
         /\ ~answer.data => ResponseAt = DataAt
         /\ Huge = (LengthField(answer.size) = LengthLimit)
         /\ Huge => answer.size > ChunkSize /\ answer.zlp
         /\ answer.sized => Huge
<1> USE StreamAssumption
<1>1. answer.late \in Nat /\ answer.size \in Nat
  BY AnswerParts
<1>2. DataAt \in Nat
  BY <1>1, Z3 DEF DataAt
<1>3. PayloadAt \in Nat /\ ResponseAt \in Nat /\ PayloadAt = DataAt + HeaderSize
  BY <1>1, <1>2 DEF PayloadAt, ResponseAt
<1>4. Huge = (LengthField(answer.size) = LengthLimit)
  BY <1>1 DEF Huge, LengthField
<1>5. Huge => answer.size > ChunkSize /\ answer.zlp
  BY <1>1, <1>4, AnswerParts DEF Huge
<1>6. answer.sized => Huge
  BY <1>1, AnswerParts DEF Huge
<1> QED BY <1>2, <1>3, <1>4, <1>5, <1>6 DEF ResponseAt

LEMMA Appended ==
  ASSUME NEW a \in Seq(Nat), NEW b \in Seq(Nat)
  PROVE  /\ a \o b \in Seq(Nat) /\ Len(a \o b) = Len(a) + Len(b)
         /\ \A k \in 1 .. Len(a) : (a \o b)[k] = a[k]
         /\ \A k \in 1 .. Len(b) : (a \o b)[Len(a) + k] = b[k]
         /\ Len(a) \in Nat /\ Len(b) \in Nat /\ Len(a \o b) \in Nat
<1>1. a \o b \in Seq(Nat) /\ Len(a \o b) = Len(a) + Len(b)
  OBVIOUS
<1>2. Len(a) \in Nat /\ Len(b) \in Nat
  OBVIOUS
<1>3. \A k \in 1 .. Len(a) : (a \o b)[k] = a[k]
  BY <1>2
<1>4. \A k \in 1 .. Len(b) : (a \o b)[Len(a) + k] = b[k]
  <2>1. TAKE k \in 1 .. Len(b)
  <2>2. Len(a) + k \in 1 .. Len(a) + Len(b) /\ ~(Len(a) + k <= Len(a))
        /\ Len(a) + k - Len(a) = k
    BY <1>2
  <2> QED BY <2>2, <1>1, <1>2
<1> QED BY <1>1, <1>2, <1>3, <1>4

LEMMA Layout ==
  ASSUME answer \in Answers
  PROVE  /\ LastXfer \in Nat
         /\ \A k \in 1 .. answer.late : TransferEnds[k] = k * ResponseSize
         /\ answer.split => TransferEnds[answer.late + 1] = PayloadAt
         /\ LastXfer = answer.late + 1 + (IF answer.split THEN 1 ELSE 0)
                                    + (IF HasBody THEN 1 ELSE 0)
         /\ HasBody => TransferEnds[LastXfer - 1] = ResponseAt
         /\ TransferEnds[LastXfer] = ResponseAt + ResponseSize
<1> DEFINE L == [i \in 1 .. answer.late |-> i * ResponseSize]
           X == IF answer.data /\ answer.split THEN <<PayloadAt>> ELSE <<>>
           Y == IF answer.data /\ ~(answer.split /\ answer.size = 0)
                THEN <<ResponseAt>> ELSE <<>>
           Z == <<ResponseAt + ResponseSize>>
<1> USE StreamAssumption
<1>1. answer.late \in Nat /\ (answer.split => answer.data) /\ answer.split \in BOOLEAN
      /\ answer.data \in BOOLEAN
  BY AnswerParts
<1>2. L \in Seq(Nat) /\ Len(L) = answer.late
  <2>1. \A i \in 1 .. answer.late : i * ResponseSize \in Nat
    BY <1>1, Z3T(30)
  <2> QED BY <2>1, <1>1
<1>3. X \in Seq(Nat) /\ Len(X) = (IF answer.split THEN 1 ELSE 0)
      /\ (answer.split => X[1] = PayloadAt)
  BY Places, <1>1
<1>4. Y \in Seq(Nat) /\ Len(Y) = (IF HasBody THEN 1 ELSE 0)
      /\ (HasBody => Y[1] = ResponseAt)
  BY Places, <1>1 DEF HasBody
<1>5. Z \in Seq(Nat) /\ Len(Z) = 1 /\ Z[1] = ResponseAt + ResponseSize
  BY Places
<1>6. TransferEnds = ((L \o X) \o Y) \o Z
  BY DEF TransferEnds
<1>7. \A k \in 1 .. answer.late : L[k] = k * ResponseSize
  OBVIOUS
<1> HIDE DEF L, X, Y, Z
<1> DEFINE LX == L \o X
           LXY == LX \o Y
<1>8. /\ LX \in Seq(Nat) /\ Len(LX) = Len(L) + Len(X)
      /\ \A k \in 1 .. Len(L) : LX[k] = L[k]
      /\ \A k \in 1 .. Len(X) : LX[Len(L) + k] = X[k]
  BY ONLY <1>2, <1>3, Appended
<1> HIDE DEF LX
<1>9. /\ LXY \in Seq(Nat) /\ Len(LXY) = Len(LX) + Len(Y)
      /\ \A k \in 1 .. Len(LX) : LXY[k] = LX[k]
      /\ \A k \in 1 .. Len(Y) : LXY[Len(LX) + k] = Y[k]
  BY ONLY <1>8, <1>4, Appended
<1> HIDE DEF LXY
<1>10. /\ Len(TransferEnds) = Len(LXY) + 1
       /\ \A k \in 1 .. Len(LXY) : TransferEnds[k] = LXY[k]
       /\ TransferEnds[Len(LXY) + 1] = Z[1]
  <2>1. TransferEnds = LXY \o Z
    BY ONLY <1>6 DEF LXY, LX
  <2>2. 1 \in 1 .. Len(Z)
    BY ONLY <1>5
  <2>3. /\ Len(TransferEnds) = Len(LXY) + Len(Z)
        /\ \A k \in 1 .. Len(LXY) : TransferEnds[k] = LXY[k]
        /\ \A k \in 1 .. Len(Z) : TransferEnds[Len(LXY) + k] = Z[k]
    BY ONLY <2>1, <1>9, <1>5, Appended
  <2>4. TransferEnds[Len(LXY) + 1] = Z[1]
    BY ONLY <2>2, <2>3, Zenon
  <2>5. Len(TransferEnds) = Len(LXY) + 1
    BY ONLY <2>3, <1>5, Zenon
  <2> QED BY ONLY <2>3, <2>4, <2>5
<1>11. /\ Len(X) = 0 \/ Len(X) = 1
       /\ Len(Y) = 0 \/ Len(Y) = 1
       /\ Len(L) = answer.late
       /\ Len(LX) = answer.late + Len(X)
       /\ Len(LXY) = answer.late + Len(X) + Len(Y)
  BY ONLY <1>2, <1>3, <1>4, <1>8, <1>9
<1>12. ASSUME NEW k \in 1 .. answer.late PROVE TransferEnds[k] = k * ResponseSize
  <2>1. k \in 1 .. Len(L) /\ k \in 1 .. Len(LX) /\ k \in 1 .. Len(LXY)
    BY ONLY <1>1, <1>11, k \in 1 .. answer.late
  <2> QED BY ONLY <2>1, <1>7, <1>8, <1>9, <1>10, k \in 1 .. answer.late
<1>13. ASSUME answer.split PROVE TransferEnds[answer.late + 1] = PayloadAt
  <2>1. Len(X) = 1
    BY ONLY <1>13, <1>3
  <2>2. answer.late + 1 \in 1 .. Len(LXY) /\ answer.late + 1 \in 1 .. Len(LX)
    BY ONLY <2>1, <1>1, <1>11
  <2>3. 1 \in 1 .. Len(X)
    BY ONLY <2>1
  <2>4. LX[answer.late + 1] = X[1]
    BY ONLY <2>3, <1>8, <1>11, Zenon
  <2> QED BY ONLY <2>2, <2>4, <1>13, <1>3, <1>9, <1>10, Zenon
<1>14. ASSUME HasBody PROVE TransferEnds[Len(LXY)] = ResponseAt
  <2>1. Len(LXY) = Len(LX) + 1 /\ Len(LXY) \in 1 .. Len(LXY) /\ 1 \in 1 .. Len(Y)
    BY ONLY <1>14, <1>1, <1>2, <1>4, <1>8, <1>9, <1>11
  <2> QED BY ONLY <2>1, <1>14, <1>4, <1>9, <1>10
<1>15. Len(LXY) = answer.late + (IF answer.split THEN 1 ELSE 0) + (IF HasBody THEN 1 ELSE 0)
  BY ONLY <1>2, <1>3, <1>4, <1>8, <1>9
<1>16. LastXfer = Len(LXY) + 1
  BY ONLY <1>10 DEF LastXfer
<1>17. LastXfer \in Nat /\ Len(LXY) = LastXfer - 1
  BY ONLY <1>1, <1>15, <1>16
<1>18. LastXfer = answer.late + 1 + (IF answer.split THEN 1 ELSE 0)
                               + (IF HasBody THEN 1 ELSE 0)
  BY ONLY <1>1, <1>15, <1>16
<1> QED BY ONLY <1>5, <1>10, <1>12, <1>13, <1>14, <1>16, <1>17, <1>18

LEMMA Sizes ==
  /\ {HeaderSize, ResponseSize, PacketSize, ChunkSize} \subseteq Nat \ {0}
  /\ HeaderSize <= ResponseSize /\ ResponseSize < PacketSize /\ PacketSize <= ChunkSize
  /\ {LengthLimit, MaxStaleReplies} \subseteq Nat /\ LengthLimit > HeaderSize + ChunkSize
<1>1. PacketSize \in Nat \ {0} /\ ChunkSize \in Nat \ {0} /\ ChunkSize % PacketSize = 0
  BY StreamAssumption
<1>2. PacketSize <= ChunkSize
  BY ONLY <1>1, Z3
<1> QED BY <1>2, StreamAssumption

LEMMA Starts ==
  ASSUME answer \in Answers
  PROVE  /\ \A k \in 1 .. answer.late : /\ TransferStart(k) = (k - 1) * ResponseSize
                                        /\ TransferEnds[k] = TransferStart(k) + ResponseSize
                                        /\ TransferStart(k) \in Nat
         /\ TransferStart(answer.late + 1) = DataAt
         /\ answer.split => TransferEnds[answer.late + 1] = DataAt + HeaderSize
         /\ HasBody => TransferStart(LastXfer - 1) = BodyAt /\ TransferEnds[LastXfer - 1] = ResponseAt
                       /\ BodyAt \in Nat /\ BodyAt < ResponseAt /\ BodyAt <= PayloadAt
         /\ TransferStart(LastXfer) = ResponseAt
         /\ TransferEnds[LastXfer] = ResponseAt + ResponseSize
<1>1. answer.late \in Nat /\ answer.size \in Nat /\ (answer.split => answer.data)
      /\ ResponseSize \in Nat /\ HeaderSize \in Nat \ {0} /\ answer.split \in BOOLEAN
      /\ answer.data \in BOOLEAN
  BY AnswerParts, Sizes
<1>2. ASSUME NEW k \in 1 .. answer.late
      PROVE  /\ TransferStart(k) = (k - 1) * ResponseSize
             /\ TransferEnds[k] = TransferStart(k) + ResponseSize
             /\ TransferStart(k) \in Nat
  <2>1. TransferEnds[k] = k * ResponseSize
    BY Layout
  <2>2. (k - 1) * ResponseSize \in Nat /\ k * ResponseSize = (k - 1) * ResponseSize + ResponseSize
    BY <1>1, Z3
  <2>3. CASE k = 1
    <3>1. (k - 1) * ResponseSize = 0
      BY <2>3, <1>1, Z3
    <3> QED BY <2>1, <2>2, <2>3, <3>1 DEF TransferStart
  <2>4. CASE k # 1
    <3>1. k - 1 \in 1 .. answer.late
      BY <2>4, <1>1
    <3>2. TransferEnds[k - 1] = (k - 1) * ResponseSize
      BY <3>1, Layout
    <3> QED BY <2>1, <2>2, <2>4, <3>2 DEF TransferStart
  <2> QED BY <2>3, <2>4
<1>3. TransferStart(answer.late + 1) = DataAt
  <2>1. CASE answer.late = 0
    <3>1. answer.late * ResponseSize = 0
      BY <2>1, <1>1, Z3
    <3> QED BY <2>1, <3>1 DEF TransferStart, DataAt
  <2>2. CASE answer.late # 0
    <3>1. answer.late \in 1 .. answer.late /\ answer.late + 1 # 1 /\ answer.late + 1 - 1 = answer.late
      BY <2>2, <1>1
    <3> QED BY <3>1, Layout DEF TransferStart, DataAt
  <2> QED BY <2>1, <2>2
<1>4. ASSUME HasBody
      PROVE  /\ TransferStart(LastXfer - 1) = BodyAt /\ TransferEnds[LastXfer - 1] = ResponseAt
             /\ BodyAt \in Nat /\ BodyAt < ResponseAt /\ BodyAt <= PayloadAt
  <2>1. CASE answer.split
    <3>1. LastXfer - 1 = answer.late + 2 /\ LastXfer - 1 # 1 /\ LastXfer - 1 - 1 = answer.late + 1
      BY <2>1, <1>1, <1>4, Layout
    <3>2. TransferStart(LastXfer - 1) = BodyAt
      BY <2>1, <3>1, Layout DEF TransferStart, BodyAt
    <3> QED BY <2>1, <1>1, <1>4, <3>2, Places, Layout DEF HasBody, BodyAt
  <2>2. CASE ~answer.split
    <3>1. LastXfer - 1 = answer.late + 1
      BY <2>2, <1>1, <1>4, Layout
    <3> QED BY <2>2, <1>1, <1>3, <1>4, <3>1, Places, Layout DEF HasBody, BodyAt
  <2> QED BY <2>1, <2>2, <1>1
<1>5. TransferStart(LastXfer) = ResponseAt
  <2>1. CASE HasBody
    <3>1. LastXfer # 1
      BY <2>1, <1>1, Layout
    <3> QED BY <2>1, <3>1, <1>4 DEF TransferStart
  <2>2. CASE ~HasBody /\ answer.split
    <3>1. LastXfer = answer.late + 2 /\ LastXfer # 1 /\ LastXfer - 1 = answer.late + 1
      BY <2>2, <1>1, Layout
    <3>2. ResponseAt = PayloadAt
      BY <2>2, <1>1, Places DEF HasBody
    <3> QED BY <2>2, <3>1, <3>2, Layout DEF TransferStart
  <2>3. CASE ~HasBody /\ ~answer.split
    <3>1. LastXfer = answer.late + 1
      BY <2>3, <1>1, Layout
    <3>2. ResponseAt = DataAt
      BY <2>3, <1>1, Places DEF HasBody
    <3> QED BY <3>1, <3>2, <1>3
  <2> QED BY <2>1, <2>2, <2>3
<1> QED BY <1>2, <1>3, <1>4, <1>5, Layout DEF PayloadAt

(* A transfer shorter than a packet is one read, and its end shows. *)
LEMMA ShortRead ==
  ASSUME NEW start \in Nat, NEW len \in Nat \ {0}, len < PacketSize,
         got = start, TransferStart(xfer) = start, TransferEnds[xfer] = start + len
  PROVE  BulkRead = <<start + len, xfer + 1>>
<1>1. len % PacketSize = len
  <2>1. PacketSize \in Nat \ {0}
    BY Sizes
  <2> QED BY <2>1, Z3
<1>2. TransferEnds[xfer] - got = len /\ TransferEnds[xfer] - TransferStart(xfer) = len
  OBVIOUS
<1>3. EndShows(xfer)
  BY <1>1, <1>2 DEF EndShows
<1>4. len < ChunkSize /\ ChunkSize \in Nat
  BY Sizes
<1>5. ~(len > ChunkSize) /\ ~(len = ChunkSize)
  BY <1>4
<1> QED BY <1>2, <1>3, <1>4, <1>5 DEF BulkRead

LEMMA SameAnswer ==
  ASSUME answer' = answer
  PROVE  /\ LastXfer' = LastXfer /\ HasBody' = HasBody /\ BodyAt' = BodyAt /\ Huge' = Huge
         /\ DataAt' = DataAt /\ PayloadAt' = PayloadAt /\ ResponseAt' = ResponseAt
         /\ BodyEndShows' = BodyEndShows /\ Payload' = Payload
<1>1. TransferEnds' = TransferEnds
  BY DEF TransferEnds, DataAt, PayloadAt, ResponseAt
<1>2. LastXfer' = LastXfer
  BY <1>1 DEF LastXfer
<1>3. BodyEndShows' = BodyEndShows
  BY <1>1, <1>2 DEF BodyEndShows, EndShows, TransferStart
<1> QED BY <1>2, <1>3 DEF HasBody, BodyAt, Huge, DataAt, PayloadAt, ResponseAt, Payload

(* What one read inside the data transfer brings. *)
LEMMA BodyRead ==
  ASSUME answer \in Answers, HasBody, xfer = LastXfer - 1, got \in Nat, got <= ResponseAt,
         NEW q \in Nat, got = BodyAt + q * ChunkSize, got = ResponseAt => BodyEndShows
  PROVE  \/ /\ BulkRead = <<got + ChunkSize, xfer>>
            /\ got + ChunkSize <= ResponseAt
            /\ got + ChunkSize = BodyAt + (q + 1) * ChunkSize
            /\ got + ChunkSize = ResponseAt => BodyEndShows
         \/ /\ BulkRead = <<ResponseAt, LastXfer>>
            /\ BodyEndShows /\ ResponseAt < got + ChunkSize
            /\ got = BodyAt => ResponseAt > got
         \/ /\ BulkRead = <<ResponseAt, LastXfer>>
            /\ ~BodyEndShows /\ ResponseAt = got + ChunkSize
         \/ /\ BulkRead = <<ResponseAt + ResponseSize, LastXfer + 1>>
            /\ ~BodyEndShows /\ ResponseAt + ResponseSize < got + ChunkSize
<1> DEFINE left == ResponseAt - got
<1>1. /\ ResponseAt \in Nat /\ ChunkSize \in Nat \ {0} /\ ResponseSize \in Nat
      /\ LastXfer \in Nat /\ BodyAt \in Nat /\ BodyAt < ResponseAt
  BY Places, Sizes, Layout, Starts
<1>2. TransferEnds[xfer] = ResponseAt /\ TransferStart(xfer) = BodyAt
      /\ xfer + 1 = LastXfer /\ xfer + 2 = LastXfer + 1
      /\ TransferEnds[LastXfer] = ResponseAt + ResponseSize
      /\ (EndShows(xfer) <=> BodyEndShows)
  BY <1>1, Starts DEF BodyEndShows
<1>3. left \in Nat
  BY <1>1
<1>4. (q + 1) * ChunkSize = q * ChunkSize + ChunkSize /\ q * ChunkSize \in Nat
  BY <1>1, Z3
<1>5. CASE left > ChunkSize
  <2>1. BulkRead = <<got + ChunkSize, xfer>>
    <3>1. ~(left = ChunkSize) /\ ~(left < ChunkSize)
      BY <1>5, <1>1, <1>3
    <3> QED BY <1>2, <1>5, <3>1 DEF BulkRead
  <2> QED BY <2>1, <1>5, <1>1, <1>4
<1>6. CASE left = ChunkSize
  <2>1. BulkRead = <<got + ChunkSize, IF EndShows(xfer) THEN xfer ELSE xfer + 1>>
    <3>1. ~(left > ChunkSize)
      BY <1>6, <1>1
    <3> QED BY <1>2, <1>6, <3>1 DEF BulkRead
  <2> QED BY <2>1, <1>6, <1>1, <1>2, <1>4
<1>7. CASE left < ChunkSize /\ BodyEndShows
  <2>1. BulkRead = <<ResponseAt, LastXfer>>
    <3>1. ~(left > ChunkSize) /\ ~(left = ChunkSize)
      BY <1>7, <1>1, <1>3
    <3> QED BY <1>2, <1>7, <3>1 DEF BulkRead
  <2> QED BY <2>1, <1>7, <1>1
<1>8. CASE left < ChunkSize /\ ~BodyEndShows
  <2>1. BulkRead = <<ResponseAt + ResponseSize, LastXfer + 1>>
    <3>1. ~(left > ChunkSize) /\ ~(left = ChunkSize)
      BY <1>8, <1>1, <1>3
    <3> QED BY <1>2, <1>8, <3>1 DEF BulkRead
  <2>2. (ResponseAt - BodyAt) % PacketSize = 0
    BY <1>2, <1>8 DEF EndShows
  <2>3. ResponseAt - BodyAt - q * ChunkSize + ResponseSize < ChunkSize
    <3>1. ResponseAt - BodyAt \in Nat /\ ResponseAt - BodyAt - q * ChunkSize < ChunkSize
      BY <1>8, <1>1, <1>4
    <3>2. PacketSize \in Nat \ {0} /\ ChunkSize % PacketSize = 0 /\ ResponseSize < PacketSize
      BY StreamAssumption
    <3> QED BY ONLY <3>1, <3>2, <2>2, <1>1, WholePackets, q \in Nat
  <2> QED BY <2>1, <2>3, <1>8, <1>1, <1>4
<1> QED BY <1>3, <1>1, <1>5, <1>6, <1>7, <1>8

(* What the next read brings, wherever it begins. *)
LEMMA BulkReads ==
  ASSUME answer \in Answers, ReadInv, xfer <= LastXfer,
         answer' = answer, got' = BulkRead[1], xfer' = BulkRead[2]
  PROVE  /\ ReadInv'
         /\ got <= got' /\ got' <= got + ChunkSize
         /\ got' = got => /\ got = ResponseAt /\ answer.data
                         /\ xfer = LastXfer - 1 /\ xfer' = LastXfer
         /\ xfer <= answer.late => got' = got + ResponseSize /\ xfer' = xfer + 1
         /\ xfer = answer.late + 1 /\ got = DataAt =>
              /\ got' >= DataAt + HeaderSize
              /\ Huge /\ got' < got + ChunkSize => got' = PayloadAt
         /\ xfer > answer.late => xfer' > answer.late
         /\ xfer' < LastXfer => got' <= ResponseAt
         /\ xfer = LastXfer => got' = got + ResponseSize /\ xfer' = LastXfer + 1
         /\ Huge /\ xfer < LastXfer /\ got >= PayloadAt =>
              /\ got' <= ResponseAt /\ xfer' <= LastXfer
              /\ xfer' = LastXfer <=> got' < got + ChunkSize
              /\ xfer' = LastXfer => got' = ResponseAt
<1>1. /\ answer.late \in Nat /\ answer.size \in Nat /\ (answer.split => answer.data)
      /\ answer.split \in BOOLEAN /\ answer.data \in BOOLEAN
      /\ LastXfer = answer.late + 1 + (IF answer.split THEN 1 ELSE 0)
                                 + (IF HasBody THEN 1 ELSE 0)
      /\ LastXfer \in Nat /\ DataAt \in Nat /\ ResponseAt \in Nat
      /\ PayloadAt = DataAt + HeaderSize /\ (answer.data => ResponseAt = PayloadAt + answer.size)
      /\ (~answer.data => ResponseAt = DataAt)
      /\ (HasBody => answer.data /\ BodyAt \in Nat)
      /\ (Huge => HasBody /\ answer.size > ChunkSize)
  BY AnswerParts, Layout, Places, Starts, Sizes DEF HasBody
<1>2. /\ xfer \in 1 .. LastXfer + 1 /\ got \in Nat
  BY DEF ReadInv
<1>3. /\ HeaderSize \in Nat \ {0} /\ ResponseSize \in Nat \ {0} /\ ChunkSize \in Nat \ {0}
      /\ HeaderSize <= ResponseSize /\ ResponseSize < PacketSize /\ PacketSize <= ChunkSize
      /\ PacketSize \in Nat
  BY Sizes
<1>4. CASE xfer <= answer.late
  <2>1. xfer \in 1 .. answer.late
    BY <1>1, <1>2, <1>4
  <2>2. got = (xfer - 1) * ResponseSize
    BY <1>4 DEF ReadInv
  <2>3. TransferStart(xfer) = got /\ TransferEnds[xfer] = got + ResponseSize
    BY <2>1, <2>2, Starts
  <2>4. BulkRead = <<got + ResponseSize, xfer + 1>>
    BY <2>3, <1>2, <1>3, ShortRead
  <2>5. got' = got + ResponseSize /\ xfer' = xfer + 1
    BY <2>4
  <2>6. got' = (xfer' - 1) * ResponseSize
    <3>1. xfer * ResponseSize = (xfer - 1) * ResponseSize + ResponseSize
      BY <2>1, <1>1, <1>3, Z3
    <3>2. xfer' - 1 = xfer
      BY <2>5, <2>1
    <3> QED BY <3>1, <3>2, <2>5, <2>2
  <2>7. xfer = answer.late => got' = DataAt
    <3>1. xfer' - 1 = xfer
      BY <2>5, <2>1
    <3> QED BY <2>6, <3>1 DEF DataAt
  <2>8. xfer < LastXfer
    BY <1>1, <1>2, <1>4
  <2>9. got + ResponseSize <= DataAt
    <3>1. PICK d \in Nat : answer.late = xfer + d
      <4>1. answer.late - xfer \in Nat /\ answer.late = xfer + (answer.late - xfer)
        BY <2>1, <1>1
      <4> QED BY <4>1
    <3>2. answer.late * ResponseSize = xfer * ResponseSize + d * ResponseSize
          /\ d * ResponseSize \in Nat
      BY <3>1, <2>1, <1>1, <1>3, Z3
    <3>3. xfer * ResponseSize = got + ResponseSize
      BY <2>2, <2>1, <1>1, <1>3, Z3
    <3> QED BY <3>2, <3>3, <1>1, <1>2, <1>3 DEF DataAt
  <2>10. Huge /\ got >= PayloadAt => FALSE
    BY <2>9, <1>1, <1>2, <1>3
  <2>11. ReadInv'
    <3> USE SameAnswer
    <3>1. xfer' \in 1 .. LastXfer' + 1 /\ got' \in Nat
      BY <2>5, <2>8, <1>1, <1>2, <1>3
    <3>2. xfer' = answer.late + 1 => xfer = answer.late
      BY <2>5, <1>1, <1>2
    <3>3. xfer' # LastXfer + 1
      BY <2>5, <2>8, <1>1, <1>2
    <3>4. xfer' = LastXfer => xfer = answer.late /\ ResponseAt = DataAt
      BY <2>5, <1>1, <1>2, <1>4 DEF HasBody
    <3>5. HasBody /\ xfer' = LastXfer - 1 => xfer = answer.late /\ BodyAt = DataAt
      BY <2>5, <1>1, <1>2, <1>4 DEF HasBody, BodyAt
    <3>6. HasBody => BodyAt = BodyAt + 0 * ChunkSize /\ BodyAt < ResponseAt
      BY <1>1, <1>3, Starts
    <3> QED BY <3>1, <3>2, <3>3, <3>4, <3>5, <3>6, <2>6, <2>7, <1>1 DEF ReadInv
  <2>12. got < got' /\ got' <= got + ChunkSize
    BY <2>5, <1>2, <1>3
  <2>13. got' # got /\ ~(xfer > answer.late) /\ xfer # answer.late + 1 /\ xfer # LastXfer
    BY <2>12, <2>8, <2>5, <1>1, <1>2, <1>3, <1>4
  <2>14. got' <= ResponseAt
    BY <2>5, <2>9, <1>1, <1>2, <1>3
  <2> QED BY <2>5, <2>10, <2>11, <2>12, <2>13, <2>14, <1>2, <1>3
<1>5. CASE answer.split /\ xfer = answer.late + 1
  <2>1. got = DataAt
    BY <1>5 DEF ReadInv
  <2>2. BulkRead = <<DataAt + HeaderSize, xfer + 1>>
    <3>1. TransferStart(xfer) = DataAt /\ TransferEnds[xfer] = DataAt + HeaderSize
      BY <1>5, Starts
    <3> QED BY <2>1, <3>1, <1>1, <1>3, ShortRead
  <2>3. got' = PayloadAt /\ xfer' = answer.late + 2
    BY <2>2, <1>1, <1>5
  <2>4. xfer' <= LastXfer /\ (xfer' = LastXfer => PayloadAt = ResponseAt)
        /\ BodyAt = PayloadAt
    <3>1. xfer' <= LastXfer /\ (xfer' = LastXfer => ~HasBody)
      BY <2>3, <1>1, <1>5
    <3>2. ~HasBody => PayloadAt = ResponseAt
      BY <1>1, <1>5, <1>3 DEF HasBody
    <3> QED BY <3>1, <3>2, <1>5 DEF BodyAt
  <2>5. ReadInv'
    <3> USE SameAnswer
    <3>1. HasBody => BodyAt = BodyAt + 0 * ChunkSize /\ BodyAt < ResponseAt
      BY <1>1, <1>3, Starts
    <3>2. xfer' \in 1 .. LastXfer' + 1 /\ got' \in Nat /\ xfer' # LastXfer + 1
          /\ ~(xfer' <= answer.late) /\ xfer' # answer.late + 1
      BY <2>3, <2>4, <1>1, <1>3
    <3> QED BY <3>1, <3>2, <2>3, <2>4, <1>1 DEF ReadInv
  <2>6. xfer < LastXfer /\ got < PayloadAt /\ got' = got + HeaderSize /\ HeaderSize <= ChunkSize
    BY <2>1, <2>3, <2>4, <1>1, <1>2, <1>3, <1>5
  <2> QED BY <2>1, <2>3, <2>5, <2>6, <1>1, <1>2, <1>3, <1>5
<1>6. CASE HasBody /\ xfer = LastXfer - 1
  <2>1. got <= ResponseAt /\ (got = ResponseAt => BodyEndShows)
    BY <1>6 DEF ReadInv
  <2>2. PICK q \in Nat : got = BodyAt + q * ChunkSize
    BY <1>6 DEF ReadInv
  <2>3. xfer > answer.late /\ xfer < LastXfer
        /\ ~(answer.split /\ xfer = answer.late + 1) /\ LastXfer - 1 # LastXfer
    BY <1>1, <1>2, <1>6
  <2>4. Huge => BodyEndShows
    BY <1>6, Places DEF BodyEndShows, EndShows
  <2>5. xfer = answer.late + 1 => BodyAt = DataAt /\ ResponseAt >= DataAt + HeaderSize
    BY <2>3, <1>1, <1>3, <1>6 DEF BodyAt
  <2>6. CASE /\ BulkRead = <<got + ChunkSize, xfer>>
             /\ got + ChunkSize <= ResponseAt
             /\ got + ChunkSize = BodyAt + (q + 1) * ChunkSize
             /\ got + ChunkSize = ResponseAt => BodyEndShows
    <3>1. got' = got + ChunkSize /\ xfer' = xfer
      BY <2>6
    <3>2. ReadInv'
      <4>1. q + 1 \in Nat
        OBVIOUS
      <4>2. got' = BodyAt + (q + 1) * ChunkSize /\ got' <= ResponseAt /\ got' \in Nat
            /\ (got' = ResponseAt => BodyEndShows)
        BY <2>6, <3>1, <1>2, <1>3
      <4>3. ~(xfer <= answer.late) /\ xfer # LastXfer /\ xfer # LastXfer + 1
        BY <2>3, <1>1, <1>2, <1>6
      <4> QED BY <4>1, <4>2, <4>3, <3>1, <2>3, <1>2, SameAnswer DEF ReadInv
    <3> QED BY <3>1, <3>2, <2>3, <2>5, <2>6, <1>1, <1>2, <1>3, <1>6
  <2>7. CASE /\ BulkRead = <<ResponseAt, LastXfer>>
             /\ BodyEndShows /\ ResponseAt < got + ChunkSize
             /\ got = BodyAt => ResponseAt > got
    <3>1. got' = ResponseAt /\ xfer' = LastXfer
      BY <2>7
    <3>2. ReadInv'
      <4>1. ~(LastXfer <= answer.late) /\ LastXfer # LastXfer + 1 /\ LastXfer # LastXfer - 1
            /\ ~(answer.split /\ LastXfer = answer.late + 1) /\ LastXfer \in 1 .. LastXfer + 1
        BY <1>1
      <4> QED BY <4>1, <3>1, <1>1, SameAnswer DEF ReadInv
    <3> QED BY <3>1, <3>2, <2>1, <2>3, <2>5, <2>7, <1>1, <1>2, <1>3, <1>6
  <2>8. CASE /\ BulkRead = <<ResponseAt, LastXfer>>
             /\ ~BodyEndShows /\ ResponseAt = got + ChunkSize
    <3>1. got' = ResponseAt /\ xfer' = LastXfer
      BY <2>8
    <3>2. ReadInv'
      <4>1. ~(LastXfer <= answer.late) /\ LastXfer # LastXfer + 1 /\ LastXfer # LastXfer - 1
            /\ ~(answer.split /\ LastXfer = answer.late + 1) /\ LastXfer \in 1 .. LastXfer + 1
        BY <1>1
      <4> QED BY <4>1, <3>1, <1>1, SameAnswer DEF ReadInv
    <3> QED BY <3>1, <3>2, <2>1, <2>3, <2>4, <2>5, <2>8, <1>1, <1>2, <1>3, <1>6
  <2>9. CASE /\ BulkRead = <<ResponseAt + ResponseSize, LastXfer + 1>>
             /\ ~BodyEndShows /\ ResponseAt + ResponseSize < got + ChunkSize
    <3>1. got' = ResponseAt + ResponseSize /\ xfer' = LastXfer + 1
      BY <2>9
    <3>2. ReadInv'
      <4>1. ~(LastXfer + 1 <= answer.late) /\ LastXfer + 1 # LastXfer /\ LastXfer + 1 # LastXfer - 1
            /\ ~(answer.split /\ LastXfer + 1 = answer.late + 1)
            /\ LastXfer + 1 \in 1 .. LastXfer + 1 /\ ResponseAt + ResponseSize \in Nat
        BY <1>1, <1>3
      <4> QED BY <4>1, <3>1, <1>1, SameAnswer DEF ReadInv
    <3> QED BY <3>1, <3>2, <2>1, <2>3, <2>4, <2>5, <2>9, <1>1, <1>2, <1>3, <1>6
  <2> QED BY <2>1, <2>2, <2>6, <2>7, <2>8, <2>9, <1>2, <1>6, BodyRead
<1>7. CASE xfer = LastXfer
  <2>1. got = ResponseAt
    BY <1>7 DEF ReadInv
  <2>2. BulkRead = <<ResponseAt + ResponseSize, xfer + 1>>
    BY <2>1, <1>1, <1>3, <1>7, Starts, ShortRead
  <2>3. got' = ResponseAt + ResponseSize /\ xfer' = LastXfer + 1
    BY <2>2, <1>7
  <2>4. ReadInv'
    <3>1. ~(LastXfer + 1 <= answer.late) /\ LastXfer + 1 # LastXfer /\ LastXfer + 1 # LastXfer - 1
          /\ ~(answer.split /\ LastXfer + 1 = answer.late + 1)
          /\ LastXfer + 1 \in 1 .. LastXfer + 1 /\ ResponseAt + ResponseSize \in Nat
      BY <1>1, <1>3
    <3> QED BY <3>1, <2>3, <1>1, SameAnswer DEF ReadInv
  <2> QED BY <2>1, <2>3, <2>4, <1>1, <1>2, <1>3, <1>7
<1>8. xfer <= answer.late \/ (answer.split /\ xfer = answer.late + 1)
      \/ (HasBody /\ xfer = LastXfer - 1) \/ xfer = LastXfer
  BY <1>1, <1>2
<1> QED BY <1>4, <1>5, <1>6, <1>7, <1>8

-----------------------------------------------------------------------------
(* One lemma per kind of step. *)

(* The numbers a step is about. *)
LEMMA Known ==
  ASSUME StreamInv
  PROVE  /\ answer \in Answers /\ answer.late \in Nat /\ answer.size \in Nat
         /\ got \in Nat /\ xfer \in Nat \ {0} /\ LastXfer \in Nat /\ xfer <= LastXfer + 1
         /\ s.pos \in Nat /\ s.yielded \in Nat /\ s.skipped \in Nat
         /\ s.skipped <= MaxStaleReplies
         /\ s.remaining \in Nat \cup {Unknown}
         /\ s.large \in BOOLEAN /\ s.inPayload \in BOOLEAN /\ s.shortRead \in BOOLEAN
         /\ s.expectZlp \in BOOLEAN /\ s.sawData \in BOOLEAN /\ s.done \in BOOLEAN
         /\ guard \in BOOLEAN /\ flagged \in BOOLEAN
         /\ DataAt \in Nat /\ ResponseAt \in Nat /\ PayloadAt \in Nat
         /\ PayloadAt = DataAt + HeaderSize
         /\ answer.data => ResponseAt = PayloadAt + answer.size
         /\ ~answer.data => ResponseAt = DataAt
         /\ Huge => answer.size > ChunkSize
         /\ HeaderSize \in Nat \ {0} /\ ResponseSize \in Nat \ {0} /\ ChunkSize \in Nat \ {0}
         /\ HeaderSize <= ResponseSize /\ ResponseSize < ChunkSize /\ MaxStaleReplies \in Nat
<1>1. StreamTypeOK /\ ReadInv
  BY DEF StreamInv
<1>2. answer \in Answers
  BY <1>1 DEF StreamTypeOK
<1>3. /\ s.pos \in Nat /\ s.yielded \in Nat /\ s.remaining \in Nat \cup {Unknown}
      /\ s.skipped \in 0 .. MaxStaleReplies
      /\ s.large \in BOOLEAN /\ s.inPayload \in BOOLEAN /\ s.shortRead \in BOOLEAN
      /\ s.expectZlp \in BOOLEAN /\ s.sawData \in BOOLEAN /\ s.done \in BOOLEAN
  BY <1>1 DEF StreamTypeOK
<1>4. PacketSize \in Nat /\ ResponseSize < PacketSize /\ PacketSize <= ChunkSize
      /\ ResponseSize \in Nat \ {0} /\ ChunkSize \in Nat \ {0} /\ HeaderSize \in Nat \ {0}
      /\ HeaderSize <= ResponseSize /\ MaxStaleReplies \in Nat
  BY Sizes
<1>5. s.skipped \in Nat /\ s.skipped <= MaxStaleReplies /\ ResponseSize < ChunkSize
  BY <1>3, <1>4
<1>6. LastXfer \in Nat
  BY <1>2, Layout
<1>7. got \in Nat /\ xfer \in Nat \ {0} /\ xfer <= LastXfer + 1
      /\ guard \in BOOLEAN /\ flagged \in BOOLEAN
  BY <1>1, <1>6 DEF StreamTypeOK, ReadInv
<1> QED BY <1>2, <1>3, <1>4, <1>5, <1>6, <1>7, Places, AnswerParts

(* Where the stream is among the late replies. *)
LEMMA LatePosition ==
  ASSUME StreamInv, ~s.sawData
  PROVE  /\ s.pos = s.skipped * ResponseSize /\ s.skipped <= answer.late /\ s.pos <= DataAt
         /\ s.skipped = answer.late <=> s.pos = DataAt
         /\ s.skipped < answer.late => s.pos + ResponseSize <= DataAt
<1>1. s.pos = s.skipped * ResponseSize /\ s.skipped <= answer.late
  BY DEF StreamInv, LateInv
<1>2. s.skipped \in Nat /\ answer.late \in Nat /\ ResponseSize \in Nat \ {0} /\ s.pos \in Nat
      /\ DataAt \in Nat
  BY Known
<1>3. CASE s.skipped = answer.late
  <2>1. s.pos = DataAt
    BY <1>1, <1>3 DEF DataAt
  <2> QED BY <1>1, <1>2, <1>3, <2>1
<1>4. CASE s.skipped < answer.late
  <2>1. PICK d \in Nat : answer.late = s.skipped + d + 1
    <3>1. answer.late - s.skipped - 1 \in Nat
          /\ answer.late = s.skipped + (answer.late - s.skipped - 1) + 1
      BY <1>2, <1>4
    <3> QED BY <3>1
  <2>2. answer.late * ResponseSize = s.skipped * ResponseSize + d * ResponseSize + ResponseSize
        /\ d * ResponseSize \in Nat
    BY <1>2, <2>1, Z3
  <2>3. DataAt = s.pos + d * ResponseSize + ResponseSize
    BY <1>1, <2>2 DEF DataAt
  <2>4. s.pos + ResponseSize <= DataAt /\ s.pos < DataAt
    BY <1>2, <2>2, <2>3
  <2> QED BY <1>1, <1>2, <1>4, <2>4
<1>5. s.skipped = answer.late \/ s.skipped < answer.late
  BY <1>1, <1>2
<1> QED BY <1>3, <1>4, <1>5

StateTypes ==
  [pos : Nat, remaining : Nat \cup {Unknown}, yielded : Nat, large : BOOLEAN,
   inPayload : BOOLEAN, shortRead : BOOLEAN, expectZlp : BOOLEAN,
   skipped : 0 .. MaxStaleReplies, sawData : BOOLEAN, done : BOOLEAN]

(* Reads go on from where they are. *)
LEMMA NothingRead ==
  ASSUME ReadInv, answer' = answer, got' = got, xfer' = xfer
  PROVE  ReadInv'
BY SameAnswer DEF ReadInv

(* A step that only moves the caller, or ends the stream. *)
LEMMA Resting ==
  ASSUME StreamInv, answer' = answer, got' = got, xfer' = xfer, out' = out,
         s' = s \/ s' = [s EXCEPT !.done = TRUE],
         at' \in {"caller", "loop", "dropped"},
         at' = "loop" \/ ~(s.inPayload /\ Huge /\ xfer >= LastXfer)
  PROVE  /\ ReadInv' /\ LateInv' /\ PayloadInv' /\ AfterInv' /\ OutInv' /\ BufferInv'
         /\ s' \in StateTypes /\ answer' \in Answers /\ got' \in Nat /\ xfer' \in Nat \ {0}
         /\ out' \subseteq Nat
         /\ s'.pos = s.pos /\ s'.sawData = s.sawData
<1>1. /\ StreamTypeOK /\ ReadInv /\ LateInv /\ PayloadInv /\ AfterInv /\ OutInv /\ BufferInv
  BY DEF StreamInv
<1>2. s \in StateTypes
  BY <1>1 DEF StreamTypeOK, StateTypes
<1>3. /\ s' \in StateTypes
      /\ s'.pos = s.pos /\ s'.remaining = s.remaining /\ s'.yielded = s.yielded
      /\ s'.large = s.large /\ s'.inPayload = s.inPayload /\ s'.shortRead = s.shortRead
      /\ s'.expectZlp = s.expectZlp /\ s'.skipped = s.skipped /\ s'.sawData = s.sawData
  <2>1. CASE s' = s
    BY <1>2, <2>1
  <2>2. CASE s' = [s EXCEPT !.done = TRUE]
    BY <1>2, <2>2 DEF StateTypes
  <2> QED BY <2>1, <2>2
<1>4. at' # "read"
  OBVIOUS
<1> USE <1>1, <1>3, <1>4, SameAnswer
<1>5. ReadInv'
  BY NothingRead
<1>6. LateInv'
  <2>1. at' # "read"
    BY <1>4
  <2>2. s.skipped < answer.late \/ s.skipped = answer.late \/ s.skipped > answer.late
    BY Known
  <2>3. CASE s.sawData
    BY <2>3 DEF LateInv
  <2>4. CASE ~s.sawData
    BY <2>1, <2>4 DEF LateInv
  <2> QED BY <2>3, <2>4
<1>7. PayloadInv'
  <2>1. CASE ~s.inPayload
    BY <2>1 DEF PayloadInv
  <2>2. CASE s.inPayload
    BY <2>2 DEF PayloadInv
  <2> QED BY <2>1, <2>2
<1>8. AfterInv'
  BY DEF AfterInv
<1>9. OutInv'
  BY DEF OutInv
<1>10. BufferInv'
  BY DEF BufferInv, BufferIsBounded, Buffered
<1> QED BY <1>5, <1>6, <1>7, <1>8, <1>9, <1>10 DEF StreamTypeOK

Outcomes ==
  {"none", "chunk", "end", "refused", "error", "failed", "reset", "cancelled"}

LEMMA Typed ==
  ASSUME s' \in StateTypes, answer' \in Answers, got' \in Nat, xfer' \in Nat \ {0},
         out' \subseteq Nat, guard' \in BOOLEAN, flagged' \in BOOLEAN,
         at' \in {"caller", "loop", "read", "dropped"}, returned' \in Outcomes
  PROVE  StreamTypeOK'
BY DEF StreamTypeOK, StateTypes, Outcomes

(* The steps that end the stream. *)
LEMMA FinishKeeps ==
  ASSUME StreamInv, answer' = answer, got' = got, xfer' = xfer, out' = out, ~s.done,
         at # "dropped",
         NEW inDoubt \in BOOLEAN, NEW r \in Outcomes, Finish(inDoubt, r),
         ~(s.inPayload /\ Huge /\ xfer >= LastXfer),
         inDoubt \/ r \in {"end", "refused", "reset", "cancelled"},
         r = "end" => s.sawData /\ s.pos = ResponseAt,
         r = "error" => answer.late > MaxStaleReplies \/ answer.stray
  PROVE  StreamInv'
<1>1. /\ s' = [s EXCEPT !.done = TRUE] /\ flagged' = (flagged \/ inDoubt) /\ guard' = FALSE
      /\ at' = "caller" /\ returned' = r
  BY DEF Finish
<1>2. /\ ReadInv' /\ LateInv' /\ PayloadInv' /\ AfterInv' /\ OutInv' /\ BufferInv'
      /\ s' \in StateTypes /\ answer' \in Answers /\ got' \in Nat /\ xfer' \in Nat \ {0}
      /\ out' \subseteq Nat
      /\ s'.pos = s.pos /\ s'.sawData = s.sawData
  BY <1>1, Resting
<1>3. s'.done = TRUE
  <2>1. s \in StateTypes
    BY DEF StreamInv, StreamTypeOK, StateTypes
  <2> QED BY <2>1, <1>1 DEF StateTypes
<1>4. flagged' \in BOOLEAN
  BY <1>1
<1>5. StreamTypeOK'
  BY <1>1, <1>2, <1>4, Typed
<1>6. LockInv'
  BY <1>1, <1>3 DEF LockInv
<1>7. EndInv'
  BY <1>1, <1>2, <1>3, SameAnswer DEF EndInv
<1>8. NoFalseAlarm'
  BY <1>1 DEF NoFalseAlarm
<1> QED BY <1>2, <1>5, <1>6, <1>7, <1>8 DEF StreamInv

LEMMA ConsumeResponseKeeps ==
  ASSUME StreamInv, ConsumeResponse PROVE StreamInv'
<1>1. /\ at = "loop" /\ ~s.inPayload /\ s.pos = ResponseAt
      /\ Finish(FALSE, IF answer.ok THEN "end" ELSE "refused")
      /\ answer' = answer /\ got' = got /\ xfer' = xfer /\ out' = out
  BY DEF ConsumeResponse, AtHeader
<1>2. ~s.done
  BY <1>1 DEF StreamInv, LockInv
<1> DEFINE r == IF answer.ok THEN "end" ELSE "refused"
<1>3. r \in Outcomes /\ r \in {"end", "refused"} /\ r # "error" /\ at # "dropped"
  BY <1>1 DEF Outcomes
<1>4. r = "end" => s.sawData
  <2>1. SUFFICES ASSUME answer.ok, ~s.sawData PROVE FALSE
    BY DEF StreamInv, StreamTypeOK
  <2>2. answer.data
    BY <2>1, Known, AnswerParts
  <2>3. s.pos <= DataAt
    BY <2>1, LatePosition
  <2>4. /\ ResponseAt = PayloadAt + answer.size /\ PayloadAt = DataAt + HeaderSize
        /\ HeaderSize \in Nat \ {0} /\ DataAt \in Nat /\ answer.size \in Nat
    BY <2>2, Known
  <2> QED BY <1>1, <2>3, <2>4
<1> HIDE DEF r
<1>5. Finish(FALSE, r) /\ ~(s.inPayload /\ Huge /\ xfer >= LastXfer)
  BY <1>1 DEF r
<1> QED BY <1>1, <1>2, <1>3, <1>4, <1>5, FinishKeeps

LEMMA ConsumeUnexpectedKeeps ==
  ASSUME StreamInv, ConsumeUnexpected PROVE StreamInv'
<1>1. /\ at = "loop" /\ ~s.inPayload /\ Finish(TRUE, "error")
      /\ \/ s.pos < DataAt /\ s.skipped >= MaxStaleReplies
         \/ s.pos > DataAt /\ s.pos # ResponseAt
      /\ answer' = answer /\ got' = got /\ xfer' = xfer /\ out' = out
  BY DEF ConsumeUnexpected, AtHeader
<1>2. ~s.done
  BY <1>1 DEF StreamInv, LockInv
<1>3. "error" \in Outcomes /\ at # "dropped" /\ ~(s.inPayload /\ Huge /\ xfer >= LastXfer)
  BY <1>1 DEF Outcomes
<1>4. answer.late > MaxStaleReplies \/ answer.stray
  <2>1. CASE s.sawData
    <3>1. /\ answer.data /\ PayloadAt <= s.pos
          /\ s.pos = ResponseAt \/ answer.stray
      BY <2>1, <1>1 DEF StreamInv, AfterInv
    <3> QED BY <3>1, <1>1, Known
  <2>2. CASE ~s.sawData
    <3>1. s.skipped <= answer.late /\ s.pos <= DataAt /\ (s.skipped = answer.late <=> s.pos = DataAt)
      BY <2>2, LatePosition
    <3> QED BY <3>1, <1>1, Known
  <2> QED BY <2>1, <2>2, Known
<1> QED BY <1>1, <1>2, <1>3, <1>4, FinishKeeps

LEMMA ReceiveFailsKeeps ==
  ASSUME StreamInv, ReceiveFails PROVE StreamInv'
<1>1. PICK reset \in BOOLEAN : Finish(~reset, IF reset THEN "reset" ELSE "failed")
  BY DEF ReceiveFails
<1>2. at = "read" /\ answer' = answer /\ got' = got /\ xfer' = xfer /\ out' = out
  BY DEF ReceiveFails
<1>3. ~s.done /\ ~(s.inPayload /\ Huge /\ xfer >= LastXfer) /\ at # "dropped"
  BY <1>2 DEF StreamInv, LockInv, PayloadInv
<1> DEFINE r == IF reset THEN "reset" ELSE "failed"
<1>4. r \in Outcomes /\ r # "error" /\ r # "end"
      /\ (~reset \/ r \in {"end", "refused", "reset", "cancelled"}) /\ (~reset) \in BOOLEAN
  BY DEF Outcomes
<1>5. Finish(~reset, r)
  BY <1>1
<1> HIDE DEF r
<1> QED BY <1>2, <1>3, <1>4, <1>5, FinishKeeps

LEMMA CancelKeeps ==
  ASSUME StreamInv, Cancel PROVE StreamInv'
<1>1. PICK r \in {"cancelled", "reset", "failed"} : Finish(r = "failed", r)
  BY DEF Cancel
<1>2. at = "caller" /\ ~s.done /\ answer' = answer /\ got' = got /\ xfer' = xfer /\ out' = out
  BY DEF Cancel
<1>3. ~(s.inPayload /\ Huge /\ xfer >= LastXfer) /\ at # "dropped"
  BY <1>2 DEF StreamInv, PayloadInv
<1>4. r \in Outcomes /\ r # "error" /\ r # "end"
      /\ (r = "failed" \/ r \in {"end", "refused", "reset", "cancelled"})
      /\ (r = "failed") \in BOOLEAN
  BY DEF Outcomes
<1> QED BY <1>1, <1>2, <1>3, <1>4, FinishKeeps

(* The steps that only move the caller. *)
LEMMA CallerKeeps ==
  ASSUME StreamInv, NextChunk \/ DropFuture \/ DropStream PROVE StreamInv'
<1>1. answer' = answer /\ got' = got /\ xfer' = xfer /\ out' = out /\ s' = s
      /\ returned' = returned
  BY DEF NextChunk, DropFuture, DropStream
<1>2. /\ at' \in {"caller", "loop", "dropped"}
      /\ at' = "loop" \/ ~(s.inPayload /\ Huge /\ xfer >= LastXfer)
  BY DEF NextChunk, DropFuture, DropStream, StreamInv, PayloadInv
<1>3. /\ ReadInv' /\ LateInv' /\ PayloadInv' /\ AfterInv' /\ OutInv' /\ BufferInv'
      /\ s' \in StateTypes /\ answer' \in Answers /\ got' \in Nat /\ xfer' \in Nat \ {0}
      /\ out' \subseteq Nat
  BY <1>1, <1>2, Resting
<1>4. LockInv'
  <2>1. LockInv /\ s.done \in BOOLEAN
    BY Known DEF StreamInv
  <2>2. CASE NextChunk
    BY <2>1, <2>2 DEF NextChunk, LockInv
  <2>3. CASE DropFuture
    BY <2>1, <2>3 DEF DropFuture, LockInv
  <2>4. CASE DropStream
    BY <2>1, <2>4 DEF DropStream, LockInv
  <2> QED BY <2>2, <2>3, <2>4
<1>5. StreamTypeOK'
  <2>1. guard' \in BOOLEAN /\ flagged' \in BOOLEAN
    BY Known DEF NextChunk, DropFuture, DropStream
  <2>2. returned' \in Outcomes
    BY <1>1 DEF StreamInv, StreamTypeOK, Outcomes
  <2> QED BY <1>2, <1>3, <2>1, <2>2, Typed
<1>6. EndInv' /\ NoFalseAlarm'
  BY <1>1, SameAnswer DEF StreamInv, EndInv, NoFalseAlarm
<1> QED BY <1>3, <1>4, <1>5, <1>6 DEF StreamInv

(* What a step inside next_chunk leaves alone. *)
LEMMA GoingOn ==
  ASSUME StreamInv, at \in {"loop", "read"}, at' \in {"caller", "loop", "read"},
         s' \in StateTypes, s'.done = s.done, answer' = answer, guard' = guard,
         flagged' = flagged, got' \in Nat, xfer' \in Nat \ {0}, out' \subseteq Nat,
         \/ returned' = returned
         \/ returned' = "chunk"
         \/ returned' = "error" /\ answer.stray
  PROVE  StreamTypeOK' /\ LockInv' /\ EndInv' /\ NoFalseAlarm'
<1>1. StreamTypeOK /\ LockInv /\ EndInv /\ NoFalseAlarm
  BY DEF StreamInv
<1>2. ~s.done /\ guard = TRUE /\ returned # "end"
  BY <1>1 DEF LockInv, EndInv
<1>3. returned' \in Outcomes
  BY <1>1 DEF StreamTypeOK, Outcomes
<1>4. answer' \in Answers /\ guard' \in BOOLEAN /\ flagged' \in BOOLEAN
  BY <1>1 DEF StreamTypeOK
<1>5. at' \in {"caller", "loop", "read", "dropped"} /\ at' # "dropped"
  OBVIOUS
<1>6. StreamTypeOK'
  BY <1>3, <1>4, <1>5, Typed
<1>7. LockInv'
  BY <1>2, <1>5 DEF LockInv
<1>8. EndInv' /\ NoFalseAlarm'
  BY <1>1, <1>2 DEF EndInv, NoFalseAlarm
<1> QED BY <1>6, <1>7, <1>8

LEMMA ConsumeDataKeeps ==
  ASSUME StreamInv, ConsumeData PROVE StreamInv'
<1>1. /\ at = "loop" /\ ~s.inPayload /\ answer.data /\ s.pos = DataAt
      /\ got - s.pos >= HeaderSize /\ s' = StartPayload
      /\ answer' = answer /\ got' = got /\ xfer' = xfer /\ guard' = guard /\ flagged' = flagged
      /\ at' = at /\ out' = out /\ returned' = returned
  BY DEF ConsumeData, AtHeader, Buffered
<1>2. s \in StateTypes
  BY DEF StreamInv, StreamTypeOK, StateTypes
<1>3. /\ DataAt \in Nat /\ ResponseAt \in Nat /\ PayloadAt = DataAt + HeaderSize
      /\ ResponseAt = PayloadAt + answer.size /\ answer.size \in Nat
      /\ HeaderSize \in Nat \ {0} /\ ChunkSize \in Nat \ {0} /\ got \in Nat /\ s.pos \in Nat
      /\ Huge => answer.size > ChunkSize
      /\ LastXfer \in Nat /\ xfer \in Nat \ {0} /\ xfer <= LastXfer + 1
      /\ ResponseSize \in Nat
  BY <1>1, Known
<1>4. ~s.sawData
  BY <1>1, <1>3, Known DEF StreamInv, AfterInv
<1>5. out = {} /\ at # "read" /\ got <= s.pos + ChunkSize
  BY <1>1, <1>3, <1>4 DEF StreamInv, LateInv
<1>6. Huge => got < ResponseAt /\ xfer < LastXfer
  <2>1. ReadInv
    BY DEF StreamInv
  <2>2. Huge => got < ResponseAt
    BY <1>1, <1>3, <1>5
  <2> QED BY <2>1, <2>2, <1>3 DEF ReadInv
<1>7. /\ Huge = (LengthField(answer.size) = LengthLimit)
      /\ answer.sized => Huge
      /\ ~Huge => LengthField(answer.size) - HeaderSize = answer.size
  <2>1. Huge = (LengthField(answer.size) = LengthLimit) /\ (answer.sized => Huge)
    BY Known, Places
  <2>2. ~Huge => LengthField(answer.size) = HeaderSize + answer.size
    BY <1>3, Sizes DEF Huge, LengthField
  <2> QED BY <2>1, <2>2, <1>3
<1>8. /\ s'.pos = s.pos + HeaderSize /\ s'.large = Huge /\ s'.yielded = 0
      /\ s'.inPayload = TRUE /\ s'.sawData = TRUE /\ s'.done = s.done
      /\ s'.shortRead = s.shortRead
      /\ s'.remaining = IF Huge THEN IF answer.sized THEN answer.size ELSE Unknown
                        ELSE answer.size
      /\ s' \in StateTypes
  <2>1. StartPayload =
          [s EXCEPT !.pos = @ + HeaderSize, !.large = Huge,
                    !.remaining = IF Huge THEN IF answer.sized THEN answer.size ELSE Unknown
                                  ELSE answer.size,
                    !.yielded = 0, !.inPayload = TRUE, !.sawData = TRUE]
    <3>1. CASE Huge
      BY <3>1, <1>7 DEF StartPayload
    <3>2. CASE ~Huge
      BY <3>2, <1>7 DEF StartPayload
    <3> QED BY <3>1, <3>2
  <2>2. Huge \in BOOLEAN /\ s.pos + HeaderSize \in Nat
        /\ (IF Huge THEN IF answer.sized THEN answer.size ELSE Unknown ELSE answer.size)
            \in Nat \cup {Unknown}
    BY <1>3 DEF Huge
  <2> QED BY <2>1, <2>2, <1>1, <1>2 DEF StateTypes
<1>9. StreamTypeOK' /\ LockInv' /\ EndInv' /\ NoFalseAlarm'
  <2>1. out' \subseteq Nat /\ got' \in Nat /\ xfer' \in Nat \ {0}
    BY <1>1, <1>3, <1>5
  <2> QED BY <2>1, <1>1, <1>8, GoingOn
<1>10. ReadInv'
  BY <1>1, NothingRead DEF StreamInv
<1>11. LateInv' /\ AfterInv'
  BY <1>8 DEF LateInv, AfterInv
<1>12. PayloadInv'
  <2>1. s'.remaining = IF Huge /\ ~answer.sized THEN Unknown ELSE ResponseAt - s'.pos
    BY <1>1, <1>3, <1>7, <1>8
  <2>2. s'.pos = PayloadAt /\ PayloadAt <= ResponseAt /\ s'.yielded = s'.pos - PayloadAt
    BY <1>1, <1>3, <1>8
  <2>3. Huge => got' <= ResponseAt /\ ~(xfer' >= LastXfer)
    BY <1>1, <1>3, <1>6
  <2>4. ~(s'.yielded > 0) /\ at' # "read"
    BY <1>1, <1>8
  <2>5. Huge /\ s'.shortRead => ~(got' > s'.pos)
    <3>1. s.skipped = answer.late
      BY <1>1, <1>4, LatePosition
    <3>2. got # s.pos
      BY <1>1, <1>3
    <3>3. Huge /\ s.shortRead => got = s.pos + HeaderSize
      BY <1>4, <3>1, <3>2 DEF StreamInv, LateInv
    <3> QED BY <3>3, <1>1, <1>3, <1>8
  <2> QED BY <1>1, <1>3, <1>8, <2>1, <2>2, <2>3, <2>4, <2>5, SameAnswer DEF PayloadInv
<1>13. OutInv'
  <2>1. PayloadAt + 1 .. s'.pos = {}
    BY <1>1, <1>3, <1>8
  <2> QED BY <2>1, <1>1, <1>5, <1>8, SameAnswer DEF OutInv
<1>14. BufferInv'
  BY <1>1, <1>3, <1>5, <1>8 DEF BufferInv, BufferIsBounded, Buffered
<1> QED BY <1>9, <1>10, <1>11, <1>12, <1>13, <1>14 DEF StreamInv

LEMMA SkipLateReplyKeeps ==
  ASSUME StreamInv, SkipLateReply PROVE StreamInv'
<1>1. /\ at = "loop" /\ ~s.inPayload /\ s.pos < DataAt /\ ~s.sawData
      /\ s.skipped < MaxStaleReplies /\ got - s.pos >= HeaderSize
      /\ s' = [s EXCEPT !.skipped = @ + 1, !.pos = @ + ResponseSize]
      /\ answer' = answer /\ got' = got /\ xfer' = xfer /\ guard' = guard /\ flagged' = flagged
      /\ at' = at /\ out' = out /\ returned' = returned
  BY DEF SkipLateReply, AtHeader, Buffered
<1>2. s \in StateTypes
  BY DEF StreamInv, StreamTypeOK, StateTypes
<1>3. /\ DataAt \in Nat /\ HeaderSize \in Nat \ {0} /\ ChunkSize \in Nat \ {0} /\ got \in Nat
      /\ s.pos \in Nat /\ s.skipped \in Nat /\ answer.late \in Nat /\ ResponseSize \in Nat
      /\ xfer \in Nat \ {0} /\ MaxStaleReplies \in Nat
  BY Known
<1>4. /\ s'.pos = s.pos + ResponseSize /\ s'.skipped = s.skipped + 1
      /\ s'.inPayload = s.inPayload /\ s'.sawData = s.sawData /\ s'.done = s.done
      /\ s' \in StateTypes
  <2>1. s.skipped + 1 \in 0 .. MaxStaleReplies /\ s.pos + ResponseSize \in Nat
    BY <1>1, <1>3
  <2> QED BY <2>1, <1>1, <1>2 DEF StateTypes
<1>5. /\ s.pos = s.skipped * ResponseSize /\ s.skipped < answer.late
  <2>1. /\ s.pos = s.skipped * ResponseSize /\ s.skipped <= answer.late
        /\ s.skipped = answer.late <=> s.pos = DataAt
    BY <1>1, LatePosition
  <2>2. s.skipped # answer.late
    BY <1>1, <1>3, <2>1
  <2>3. s.skipped < answer.late
    BY ONLY <1>3, <2>1, <2>2
  <2> QED BY <2>1, <2>3
<1>6. out = {} /\ xfer = s.skipped + 2 /\ got = s.pos + ResponseSize
  <2>1. got # s.pos
    BY <1>1, <1>3
  <2> QED BY <2>1, <1>1, <1>5 DEF StreamInv, LateInv
<1>7. StreamTypeOK' /\ LockInv' /\ EndInv' /\ NoFalseAlarm'
  <2>1. out' \subseteq Nat /\ got' \in Nat /\ xfer' \in Nat \ {0}
    BY <1>1, <1>3, <1>6
  <2> QED BY <2>1, <1>1, <1>4, GoingOn
<1>8. ReadInv'
  BY <1>1, NothingRead DEF StreamInv
<1>9. LateInv'
  <2>1. s'.skipped * ResponseSize = s.skipped * ResponseSize + ResponseSize
    BY <1>3, <1>4, Z3
  <2>2. s'.pos = s'.skipped * ResponseSize
    <3>1. s'.pos = s.pos + ResponseSize /\ s.pos = s.skipped * ResponseSize
      BY ONLY <1>4, <1>5
    <3> QED BY ONLY <3>1, <2>1, Zenon
  <2>3. s'.skipped <= answer.late /\ xfer' = s'.skipped + 1
    <3>1. s.skipped < answer.late
      BY <1>5
    <3>2. xfer' = s.skipped + 2 /\ s'.skipped = s.skipped + 1
      BY <1>1, <1>4, <1>6
    <3> QED BY ONLY <3>1, <3>2, <1>3
  <2>4. got' = s'.pos
    BY ONLY <1>1, <1>4, <1>6
  <2> QED BY <2>2, <2>3, <2>4, <1>1, <1>4, <1>6 DEF LateInv
<1>10. PayloadInv' /\ AfterInv' /\ OutInv'
  BY <1>1, <1>4, <1>6 DEF PayloadInv, AfterInv, OutInv
<1>11. BufferInv'
  BY <1>1, <1>3, <1>4, <1>6 DEF BufferInv, BufferIsBounded, Buffered
<1> QED BY <1>7, <1>8, <1>9, <1>10, <1>11 DEF StreamInv

TakeLeft == IF Remaining = Unknown THEN Unknown ELSE Remaining - Take

(* What there is to hand out, and when it is the last of the object. *)
LEMMA TakeIs ==
  ASSUME StreamInv, at = "loop", s.inPayload
  PROVE  /\ Take \in Nat /\ s.pos + Take <= got /\ s.pos + Take <= ResponseAt
         /\ TakeLeft \in Nat \cup {Unknown}
         /\ TakeLeft = 0 => s.pos + Take = ResponseAt \/ answer.stray
         /\ TakeLeft # 0 =>
              /\ TakeLeft = IF Huge /\ ~answer.sized THEN Unknown
                            ELSE ResponseAt - (s.pos + Take)
              /\ Huge => ~(xfer >= LastXfer) /\ ~(s.shortRead /\ s.yielded > 0)
         /\ Take = 0 /\ Remaining # 0 => got = s.pos
         /\ Take = 0 => TakeLeft = Remaining
<1> DEFINE B == got - s.pos
           R == ResponseAt - s.pos
<1>1. /\ s.large = Huge /\ s.pos <= ResponseAt
      /\ s.remaining = (IF Huge /\ ~answer.sized THEN Unknown ELSE R)
      /\ Huge => got <= ResponseAt
      /\ Huge /\ xfer >= LastXfer => s.shortRead /\ s.yielded > 0
      /\ Huge /\ s.shortRead /\ s.yielded > 0 => got = ResponseAt \/ answer.stray
  BY DEF StreamInv, PayloadInv
<1>2. s.pos <= got
  BY DEF StreamInv, BufferInv
<1>3. B \in Nat /\ R \in Nat /\ Buffered = B /\ Unknown = -1 /\ s.pos \in Nat /\ got \in Nat
      /\ ResponseAt \in Nat /\ s.yielded \in Nat /\ s.shortRead \in BOOLEAN
  BY <1>1, <1>2, Known DEF Buffered, Unknown
<1>4. s.pos + B = got /\ s.pos + R = ResponseAt
  BY <1>3
<1> DEFINE closing == Huge /\ s.shortRead /\ s.yielded > 0
<1>5. CASE closing
  <2>1. Remaining \in Nat /\ Remaining <= B /\ Remaining <= R
        /\ (got = ResponseAt => Remaining = R)
    <3>1. B <= R /\ (got = ResponseAt => B = R)
      BY <1>1, <1>3, <1>5
    <3>2. Remaining = IF s.remaining = Unknown THEN B ELSE Lesser(s.remaining, B)
      BY <1>1, <1>3, <1>5 DEF Remaining
    <3>3. CASE s.remaining = Unknown
      BY <3>1, <3>2, <3>3, <1>3
    <3>4. CASE s.remaining = R
      <4>1. s.remaining # Unknown
        BY <3>4, <1>3
      <4> QED BY <3>1, <3>2, <3>4, <4>1, <1>3 DEF Lesser
    <3> QED BY <3>3, <3>4, <1>1
  <2>2. Take = Remaining /\ Remaining # Unknown
    BY <2>1, <1>3 DEF Take, Lesser
  <2>3. TakeLeft = 0
    BY <2>1, <2>2 DEF TakeLeft
  <2>4. s.pos + Take <= got /\ s.pos + Take <= ResponseAt
    BY <2>1, <2>2, <1>3, <1>4
  <2>5. s.pos + Take = ResponseAt \/ answer.stray
    BY <2>1, <2>2, <1>1, <1>4, <1>5
  <2> QED BY <2>1, <2>2, <2>3, <2>4, <2>5
<1>6. CASE ~closing
  <2>1. Remaining = s.remaining
    BY <1>6, <1>1 DEF Remaining
  <2>2. Huge => ~(xfer >= LastXfer) /\ ~(s.shortRead /\ s.yielded > 0)
    BY <1>6, <1>1
  <2>3. CASE s.remaining = Unknown
    <3>1. Take = B /\ TakeLeft = Unknown
      BY <2>1, <2>3, <1>3 DEF Take, TakeLeft
    <3>2. Huge /\ ~answer.sized
      <4>1. ~(Huge /\ ~answer.sized) => s.remaining = R
        BY <1>1
      <4>2. s.remaining # R
        BY <2>3, <1>3
      <4> QED BY ONLY <4>1, <4>2
    <3>3. Take \in Nat /\ s.pos + Take = got /\ got <= ResponseAt /\ (Take = 0 => got = s.pos)
      BY <3>1, <3>2, <1>1, <1>3, <1>4
    <3>4. TakeLeft # 0 /\ TakeLeft \in Nat \cup {Unknown} /\ TakeLeft = Remaining
      BY <2>1, <2>3, <3>1, <1>3
    <3>5. TakeLeft = IF Huge /\ ~answer.sized THEN Unknown ELSE ResponseAt - (s.pos + Take)
      BY <3>1, <3>2
    <3>6. s.pos + Take <= got /\ s.pos + Take <= ResponseAt
      BY <3>3, <1>3
    <3> QED BY ONLY <2>2, <3>2, <3>3, <3>4, <3>5, <3>6
  <2>4. CASE s.remaining # Unknown
    <3>1. s.remaining = R /\ ~(Huge /\ ~answer.sized)
      BY <2>4, <1>1
    <3>2. Take = Lesser(R, B) /\ TakeLeft = R - Take
      BY <2>1, <2>4, <3>1, <1>3 DEF Take, TakeLeft
    <3>3. Take \in Nat /\ Take <= R /\ Take <= B /\ (Take = 0 => R = 0 \/ B = 0)
      BY <3>2, <1>3 DEF Lesser
    <3>4. TakeLeft = ResponseAt - (s.pos + Take) /\ TakeLeft \in Nat
      BY <3>2, <3>3, <1>3
    <3> QED BY <2>1, <2>2, <3>1, <3>2, <3>3, <3>4, <1>3, <1>4
  <2> QED BY <2>3, <2>4
<1> QED BY <1>5, <1>6

LEMMA YieldChunkKeeps ==
  ASSUME StreamInv, YieldChunk PROVE StreamInv'
<1> DEFINE r == [s EXCEPT !.pos = @ + Take, !.yielded = @ + Take, !.remaining = TakeLeft]
<1>1. /\ at = "loop" /\ s.inPayload /\ Take > 0
      /\ s' = IF TakeLeft = 0 THEN EndContainer(r) ELSE r
      /\ out' = out \cup (s.pos + 1 .. s.pos + Take)
      /\ at' = "caller" /\ returned' = "chunk"
      /\ answer' = answer /\ got' = got /\ xfer' = xfer /\ guard' = guard /\ flagged' = flagged
  BY DEF YieldChunk, TakeLeft
<1>2. /\ s \in StateTypes /\ s.sawData /\ answer.data /\ PayloadAt <= s.pos
      /\ s.yielded = s.pos - PayloadAt /\ s.large = Huge /\ out = PayloadAt + 1 .. s.pos
      /\ s.pos <= got /\ got - s.pos < ChunkSize + HeaderSize
      /\ Huge => /\ got <= ResponseAt
                 /\ s.shortRead /\ got > s.pos => got = ResponseAt
  BY <1>1 DEF StreamInv, StreamTypeOK, StateTypes, PayloadInv, OutInv, BufferInv,
              BufferIsBounded, Buffered
<1>3. /\ DataAt \in Nat /\ ResponseAt \in Nat /\ PayloadAt \in Nat /\ got \in Nat /\ s.pos \in Nat
      /\ s.yielded \in Nat /\ xfer \in Nat \ {0} /\ LastXfer \in Nat /\ ChunkSize \in Nat
      /\ HeaderSize \in Nat
  BY Known
<1>4. /\ Take \in Nat /\ s.pos + Take <= got /\ s.pos + Take <= ResponseAt
      /\ TakeLeft \in Nat \cup {Unknown}
      /\ TakeLeft = 0 => s.pos + Take = ResponseAt \/ answer.stray
      /\ TakeLeft # 0 =>
           /\ TakeLeft = IF Huge /\ ~answer.sized THEN Unknown
                         ELSE ResponseAt - (s.pos + Take)
           /\ Huge => ~(xfer >= LastXfer) /\ ~(s.shortRead /\ s.yielded > 0)
  BY <1>1, TakeIs
<1>5. s.pos + Take \in Nat /\ s.yielded + Take \in Nat
  BY <1>3, <1>4
<1>6. /\ s' \in StateTypes /\ s'.pos = s.pos + Take /\ s'.sawData = TRUE /\ s'.done = s.done
      /\ TakeLeft = 0 => s'.inPayload = FALSE /\ s'.expectZlp = TRUE
      /\ TakeLeft # 0 => /\ s'.inPayload = TRUE /\ s'.yielded = s.yielded + Take
                         /\ s'.remaining = TakeLeft /\ s'.large = s.large
                         /\ s'.shortRead = s.shortRead
  <2>1. /\ r \in StateTypes /\ r.pos = s.pos + Take /\ r.sawData = TRUE /\ r.done = s.done
        /\ r.inPayload = TRUE /\ r.yielded = s.yielded + Take
        /\ r.remaining = TakeLeft /\ r.large = s.large /\ r.shortRead = s.shortRead
    BY <1>1, <1>2, <1>4, <1>5 DEF StateTypes
  <2>2. CASE TakeLeft # 0
    BY <1>1, <2>1, <2>2
  <2>3. CASE TakeLeft = 0
    <3>1. s' = EndContainer(r)
      BY <1>1, <2>3
    <3> HIDE DEF r
    <3> QED BY <2>1, <2>3, <3>1 DEF EndContainer, StateTypes
  <2> QED BY <2>2, <2>3
<1> HIDE DEF r
<1>7. out' = PayloadAt + 1 .. s.pos + Take
  BY <1>1, <1>2, <1>3, <1>4
<1>8. StreamTypeOK' /\ LockInv' /\ EndInv' /\ NoFalseAlarm'
  <2>1. out' \subseteq Nat
    BY <1>3, <1>4, <1>7
  <2>2. got' \in Nat /\ xfer' \in Nat \ {0}
    BY <1>1, <1>3
  <2>3. at \in {"loop", "read"} /\ at' \in {"caller", "loop", "read"}
    BY <1>1
  <2> QED BY <2>1, <2>2, <2>3, <1>1, <1>6, GoingOn
<1>9. ReadInv'
  BY <1>1, NothingRead DEF StreamInv
<1>10. LateInv'
  BY <1>6 DEF LateInv
<1>11. OutInv'
  BY <1>1, <1>6, <1>7, SameAnswer DEF OutInv
<1>12. BufferInv'
  <2>1. s'.pos = s.pos + Take /\ got' = got
    BY <1>1, <1>6
  <2>2. s'.pos \in Nat /\ s'.pos <= got /\ got - s'.pos <= got - s.pos
    BY <2>1, <1>3, <1>4
  <2>3. got' - s'.pos < ChunkSize + HeaderSize /\ s'.pos <= got'
    BY <2>1, <2>2, <1>2, <1>3
  <2> QED BY <2>3, <1>1 DEF BufferInv, BufferIsBounded, Buffered
<1>13. PayloadAt <= s'.pos /\ s'.pos <= ResponseAt
  BY <1>2, <1>3, <1>4, <1>6
<1>14. CASE TakeLeft = 0
  <2>1. s'.inPayload = FALSE /\ s'.expectZlp = TRUE /\ (s'.pos = ResponseAt \/ answer.stray)
    BY <1>4, <1>6, <1>14
  <2>2. PayloadInv'
    BY <2>1 DEF PayloadInv
  <2>3. AfterInv'
    BY <2>1, <1>1, <1>2, <1>13, SameAnswer DEF AfterInv
  <2> QED BY <2>2, <2>3, <1>8, <1>9, <1>10, <1>11, <1>12 DEF StreamInv
<1>15. CASE TakeLeft # 0
  <2>1. /\ s'.inPayload = TRUE /\ s'.yielded = s.yielded + Take /\ s'.remaining = TakeLeft
        /\ s'.large = s.large /\ s'.shortRead = s.shortRead
    BY <1>6, <1>15
  <2>2. AfterInv'
    BY <2>1 DEF AfterInv
  <2>3. s'.yielded = s'.pos - PayloadAt
    BY <2>1, <1>2, <1>3, <1>4, <1>6
  <2>4. s'.remaining = IF Huge /\ ~answer.sized THEN Unknown ELSE ResponseAt - s'.pos
    BY <2>1, <1>4, <1>6, <1>15
  <2>5. got > s.pos
    BY <1>1, <1>3, <1>4
  <2>6. Huge => /\ got <= ResponseAt /\ ~(xfer >= LastXfer)
                /\ s'.shortRead => got = ResponseAt
    BY <2>1, <2>5, <1>2, <1>4, <1>15
  <2>7. PayloadInv'
    BY <2>1, <2>3, <2>4, <2>6, <1>1, <1>2, <1>6, <1>13, SameAnswer DEF PayloadInv
  <2> QED BY <2>2, <2>7, <1>8, <1>9, <1>10, <1>11, <1>12 DEF StreamInv
<1> QED BY <1>14, <1>15

LEMMA EndEmptyKeeps ==
  ASSUME StreamInv, EndEmpty PROVE StreamInv'
<1>1. /\ at = "loop" /\ s.inPayload /\ Take = 0 /\ Remaining = 0
      /\ s' = EndContainer(s) /\ at' = at /\ out' = out /\ returned' = returned
      /\ answer' = answer /\ got' = got /\ xfer' = xfer /\ guard' = guard /\ flagged' = flagged
  BY DEF EndEmpty
<1>2. /\ s \in StateTypes /\ s.sawData /\ answer.data /\ PayloadAt <= s.pos /\ s.pos <= ResponseAt
      /\ got \in Nat /\ xfer \in Nat \ {0} /\ out \subseteq Nat
  BY <1>1, Known DEF StreamInv, StreamTypeOK, StateTypes, PayloadInv
<1>3. s.pos = ResponseAt \/ answer.stray
  <2>1. TakeLeft = 0 => s.pos + Take = ResponseAt \/ answer.stray
    BY <1>1, TakeIs
  <2>2. TakeLeft = 0
    BY <1>1, TakeIs
  <2> QED BY <2>1, <2>2, <1>1, Known
<1>4. /\ s' \in StateTypes /\ s'.pos = s.pos /\ s'.sawData = s.sawData /\ s'.done = s.done
      /\ s'.inPayload = FALSE /\ s'.expectZlp = TRUE
  BY <1>1, <1>2 DEF EndContainer, StateTypes
<1>5. StreamTypeOK' /\ LockInv' /\ EndInv' /\ NoFalseAlarm'
  <2>1. at \in {"loop", "read"} /\ at' \in {"caller", "loop", "read"}
    BY <1>1
  <2> QED BY <2>1, <1>1, <1>2, <1>4, GoingOn
<1>6. ReadInv'
  BY <1>1, NothingRead DEF StreamInv
<1>7. LateInv' /\ PayloadInv'
  BY <1>2, <1>4 DEF LateInv, PayloadInv
<1>8. AfterInv'
  BY <1>1, <1>2, <1>3, <1>4, SameAnswer DEF AfterInv
<1>9. OutInv'
  BY <1>1, <1>4, SameAnswer DEF StreamInv, OutInv
<1>10. BufferInv'
  BY <1>1, <1>4 DEF StreamInv, BufferInv, BufferIsBounded, Buffered
<1> QED BY <1>5, <1>6, <1>7, <1>8, <1>9, <1>10 DEF StreamInv

LEMMA NeedMoreKeeps ==
  ASSUME StreamInv, NeedMore PROVE StreamInv'
<1>1. /\ at = "loop" /\ at' = "read" /\ s' = [s EXCEPT !.shortRead = FALSE]
      /\ IF s.inPayload THEN Take = 0 /\ Remaining # 0 ELSE got - s.pos < HeaderSize
      /\ answer' = answer /\ got' = got /\ xfer' = xfer /\ guard' = guard /\ flagged' = flagged
      /\ out' = out /\ returned' = returned
  BY DEF NeedMore, Buffered
<1>2. s \in StateTypes /\ out \subseteq Nat
  BY DEF StreamInv, StreamTypeOK, StateTypes
<1>3. /\ s' \in StateTypes /\ s'.shortRead = FALSE
      /\ s'.pos = s.pos /\ s'.remaining = s.remaining /\ s'.yielded = s.yielded
      /\ s'.large = s.large /\ s'.inPayload = s.inPayload /\ s'.expectZlp = s.expectZlp
      /\ s'.skipped = s.skipped /\ s'.sawData = s.sawData /\ s'.done = s.done
  BY <1>1, <1>2 DEF StateTypes
<1>4. /\ got \in Nat /\ xfer \in Nat \ {0} /\ s.pos \in Nat /\ HeaderSize \in Nat \ {0}
      /\ s.inPayload \in BOOLEAN /\ ChunkSize \in Nat
  BY Known
<1>5. s.pos <= got /\ got - s.pos < HeaderSize
  <2>1. s.pos <= got
    BY DEF StreamInv, BufferInv
  <2>2. s.inPayload => got = s.pos
    BY <1>1, TakeIs
  <2> QED BY <2>1, <2>2, <1>1, <1>4
<1>6. StreamTypeOK' /\ LockInv' /\ EndInv' /\ NoFalseAlarm'
  <2>1. at \in {"loop", "read"} /\ at' \in {"caller", "loop", "read"}
    BY <1>1
  <2> QED BY <2>1, <1>1, <1>2, <1>3, <1>4, GoingOn
<1>7. ReadInv'
  BY <1>1, NothingRead DEF StreamInv
<1>8. LateInv'
  <2>1. SUFFICES ASSUME ~s.sawData PROVE LateInv'
    BY <1>3 DEF LateInv
  <2>2. ~(got >= s.pos + HeaderSize)
    BY <1>4, <1>5
  <2>3. /\ ~s.inPayload /\ out = {} /\ s.skipped <= answer.late
        /\ s.pos = s.skipped * ResponseSize /\ xfer = s.skipped + 1 /\ got = s.pos
    BY <2>1, <2>2 DEF StreamInv, LateInv
  <2> QED BY <2>3, <1>1, <1>3 DEF LateInv
<1>9. PayloadInv'
  <2>1. SUFFICES ASSUME s.inPayload PROVE PayloadInv'
    BY <1>3 DEF PayloadInv
  <2>2. got = s.pos /\ TakeLeft # 0
        /\ (Huge => ~(xfer >= LastXfer))
        /\ TakeLeft = IF Huge /\ ~answer.sized THEN Unknown ELSE ResponseAt - (s.pos + Take)
    <3>1. Take = 0 /\ Remaining # 0
      BY <1>1, <2>1
    <3>2. TakeLeft = Remaining /\ got = s.pos
      BY <1>1, <2>1, <3>1, TakeIs
    <3>3. TakeLeft # 0
      BY <3>1, <3>2
    <3> QED BY <1>1, <2>1, <3>2, <3>3, TakeIs
  <2>3. s.remaining # 0
    <3>1. s.pos + Take = s.pos
      BY <1>1, <2>1, <1>4
    <3>2. s.remaining = (IF Huge /\ ~answer.sized THEN Unknown ELSE ResponseAt - s.pos)
      BY <2>1 DEF StreamInv, PayloadInv
    <3> QED BY <2>2, <3>1, <3>2
  <2>4. s'.shortRead = FALSE /\ s'.remaining # 0 /\ got' = s'.pos
    BY <1>1, <1>3, <2>2, <2>3
  <2> QED BY <2>1, <2>2, <2>4, <1>1, <1>3, SameAnswer DEF StreamInv, PayloadInv
<1>10. AfterInv' /\ OutInv'
  BY <1>1, <1>3, SameAnswer DEF StreamInv, AfterInv, OutInv
<1>11. BufferInv'
  <2>1. s'.pos <= got' /\ got' - s'.pos < HeaderSize /\ got' - s'.pos < ChunkSize + HeaderSize
    BY <1>1, <1>3, <1>4, <1>5
  <2> QED BY <2>1 DEF BufferInv, BufferIsBounded, Buffered
<1> QED BY <1>6, <1>7, <1>8, <1>9, <1>10, <1>11 DEF StreamInv

(* An empty read, whether it ends the data transfer or is a stray one. *)
LEMMA EmptyReadKeeps ==
  ASSUME StreamInv, at = "read", OnEmptyRead,
         answer' = answer, got' = got, guard' = guard, flagged' = flagged, out' = out,
         xfer' \in Nat \ {0}, ReadInv',
         \/ xfer' = xfer /\ answer.stray
         \/ /\ got = ResponseAt /\ answer.data /\ xfer = LastXfer - 1 /\ xfer' = LastXfer
  PROVE  StreamInv'
<1>1. /\ s \in StateTypes /\ out \subseteq Nat /\ ReadInv /\ LockInv /\ LateInv /\ PayloadInv
      /\ AfterInv /\ OutInv /\ BufferInv
  BY DEF StreamInv, StreamTypeOK, StateTypes
<1>2. /\ s' \in StateTypes
      /\ s'.pos = s.pos /\ s'.remaining = s.remaining /\ s'.yielded = s.yielded
      /\ s'.large = s.large /\ s'.inPayload = s.inPayload
      /\ s'.skipped = s.skipped /\ s'.sawData = s.sawData /\ s'.done = s.done
      /\ at' \in {"caller", "loop"}
      /\ \/ s.inPayload /\ s.large /\ s'.shortRead = TRUE /\ at' = "loop" /\ returned' = returned
         \/ ~(s.inPayload /\ s.large) /\ s'.shortRead = s.shortRead
            /\ s.expectZlp /\ returned' = returned
         \/ ~(s.inPayload /\ s.large) /\ s'.shortRead = s.shortRead
            /\ ~s.expectZlp /\ s' = s /\ returned' = "error"
  <2>1. CASE s.inPayload /\ s.large /\ s' = [s EXCEPT !.shortRead = TRUE] /\ at' = "loop"
             /\ returned' = returned
    BY <1>1, <2>1 DEF StateTypes
  <2>2. CASE ~(s.inPayload /\ s.large) /\ s.expectZlp /\ s' = [s EXCEPT !.expectZlp = FALSE]
             /\ at' = "loop" /\ returned' = returned
    BY <1>1, <2>2 DEF StateTypes
  <2>3. CASE ~(s.inPayload /\ s.large) /\ ~s.expectZlp /\ at' = "caller"
             /\ returned' = "error" /\ s' = s
    BY <1>1, <2>3
  <2> QED BY <2>1, <2>2, <2>3 DEF OnEmptyRead
<1>3. /\ got \in Nat /\ s.pos \in Nat /\ LastXfer \in Nat /\ ResponseAt \in Nat /\ PayloadAt \in Nat
      /\ DataAt \in Nat /\ HeaderSize \in Nat \ {0} /\ answer.size \in Nat /\ ChunkSize \in Nat
      /\ PayloadAt = DataAt + HeaderSize
      /\ answer.data => ResponseAt = PayloadAt + answer.size
      /\ Huge => answer.size > ChunkSize
      /\ s.inPayload \in BOOLEAN /\ s.sawData \in BOOLEAN
  BY Known
<1>4. ~s.sawData => answer.stray /\ xfer' = xfer
  <2>1. SUFFICES ASSUME ~s.sawData, got = ResponseAt, answer.data PROVE FALSE
    BY <1>3
  <2>2. got = s.pos
    BY <2>1, <1>1 DEF LateInv
  <2>3. s.pos <= DataAt
    BY <2>1, LatePosition
  <2>4. ResponseAt = DataAt + HeaderSize + answer.size
    BY <2>1, <1>3
  <2> QED BY <2>1, <2>2, <2>3, <2>4, <1>3
<1>5. returned' = "error" => returned' = returned \/ answer.stray
  <2>1. SUFFICES ASSUME ~(s.inPayload /\ s.large), ~s.expectZlp, ~answer.stray PROVE FALSE
    BY <1>2
  <2>2. got = ResponseAt /\ answer.data /\ xfer = LastXfer - 1 /\ s.sawData
    BY <2>1, <1>4
  <2>3. CASE s.inPayload
    <3>1. ~Huge /\ got = s.pos /\ s.remaining # 0 /\ s.remaining = ResponseAt - s.pos
      BY <2>1, <2>3, <1>1 DEF PayloadInv
    <3> QED BY <3>1, <2>2, <1>3
  <2>4. CASE ~s.inPayload
    <3>1. xfer < LastXfer
      BY <2>2, <1>3
    <3> QED BY <3>1, <2>1, <2>2, <2>4, <1>1 DEF AfterInv
  <2> QED BY <2>3, <2>4
<1>6. StreamTypeOK' /\ LockInv' /\ EndInv' /\ NoFalseAlarm'
  <2>1. at \in {"loop", "read"} /\ at' \in {"caller", "loop", "read"}
    BY <1>2
  <2>2. returned' = returned \/ (returned' = "error" /\ answer.stray)
    BY <1>2, <1>5
  <2> QED BY <2>1, <2>2, <1>1, <1>2, <1>3, GoingOn
<1>7. LateInv'
  <2>1. SUFFICES ASSUME ~s.sawData PROVE LateInv'
    BY <1>2 DEF LateInv
  <2>2. /\ ~s.inPayload /\ out = {} /\ s.skipped <= answer.late
        /\ s.pos = s.skipped * ResponseSize /\ xfer = s.skipped + 1 /\ got = s.pos
    BY <2>1, <1>1 DEF LateInv
  <2> QED BY <2>1, <2>2, <1>2, <1>4 DEF LateInv
<1>8. PayloadInv'
  <2>1. SUFFICES ASSUME s.inPayload PROVE PayloadInv'
    BY <1>2 DEF PayloadInv
  <2>2. /\ answer.data /\ s.sawData /\ s.large = Huge
        /\ PayloadAt <= s.pos /\ s.pos <= ResponseAt
        /\ s.yielded = s.pos - PayloadAt
        /\ s.remaining = (IF Huge /\ ~answer.sized THEN Unknown ELSE ResponseAt - s.pos)
        /\ got = s.pos
        /\ Huge => got <= ResponseAt /\ ~(xfer >= LastXfer)
    BY <2>1, <1>1 DEF PayloadInv
  <2>3. at' # "read" /\ ~(got' > s'.pos)
    BY <2>2, <1>2, <1>3
  <2>4. Huge => at' = "loop" /\ s'.shortRead
    BY <2>1, <2>2, <1>2
  <2>5. Huge /\ xfer' >= LastXfer => got = ResponseAt /\ s.yielded > 0
    <3>1. Huge /\ xfer' >= LastXfer => got = ResponseAt
      BY <2>2
    <3>2. Huge /\ got = ResponseAt => s.yielded > 0
      BY <2>2, <1>3
    <3> QED BY <3>1, <3>2
  <2>6. Huge => got = ResponseAt \/ answer.stray
    OBVIOUS
  <2> QED BY <2>2, <2>3, <2>4, <2>5, <2>6, <1>2, SameAnswer DEF PayloadInv
<1>9. AfterInv'
  <2>1. SUFFICES ASSUME s.sawData, ~s.inPayload PROVE AfterInv'
    BY <1>2 DEF AfterInv
  <2>2. xfer' < LastXfer => answer.stray
    BY <1>3
  <2> QED BY <2>1, <2>2, <1>1, <1>2, SameAnswer DEF AfterInv
<1>10. OutInv' /\ BufferInv'
  BY <1>1, <1>2, SameAnswer DEF OutInv, BufferInv, BufferIsBounded, Buffered
<1> QED BY <1>6, <1>7, <1>8, <1>9, <1>10 DEF StreamInv

LEMMA ReceiveStrayEmptyKeeps ==
  ASSUME StreamInv, ReceiveStrayEmpty PROVE StreamInv'
<1>1. /\ answer.stray /\ at = "read" /\ OnEmptyRead /\ answer' = answer /\ got' = got
      /\ xfer' = xfer /\ guard' = guard /\ flagged' = flagged /\ out' = out
  BY DEF ReceiveStrayEmpty
<1>2. ReadInv' /\ xfer \in Nat \ {0}
  BY <1>1, NothingRead, Known DEF StreamInv
<1> QED BY <1>1, <1>2, EmptyReadKeeps

LEMMA ReceiveBytesKeeps ==
  ASSUME StreamInv, ReceiveBytes PROVE StreamInv'
<1>1. /\ at = "read" /\ xfer <= LastXfer /\ got' = BulkRead[1] /\ xfer' = BulkRead[2]
      /\ answer' = answer /\ guard' = guard /\ flagged' = flagged /\ out' = out
      /\ IF got' = got
         THEN OnEmptyRead
         ELSE /\ s' = [s EXCEPT !.expectZlp = FALSE, !.shortRead = (got' - got < ChunkSize)]
              /\ at' = "loop" /\ returned' = returned
  BY DEF ReceiveBytes, LastXfer
<1>2. /\ s \in StateTypes /\ out \subseteq Nat /\ ReadInv /\ LateInv /\ PayloadInv
      /\ AfterInv /\ OutInv /\ BufferInv
  BY DEF StreamInv, StreamTypeOK, StateTypes
<1>3. /\ answer \in Answers /\ got \in Nat /\ xfer \in Nat \ {0} /\ s.pos \in Nat /\ LastXfer \in Nat
      /\ ResponseAt \in Nat /\ PayloadAt \in Nat /\ DataAt \in Nat /\ answer.late \in Nat
      /\ s.skipped \in Nat
      /\ HeaderSize \in Nat \ {0} /\ ResponseSize \in Nat /\ ChunkSize \in Nat \ {0}
      /\ HeaderSize <= ResponseSize /\ ResponseSize < ChunkSize /\ answer.size \in Nat
      /\ PayloadAt = DataAt + HeaderSize
      /\ answer.data => ResponseAt = PayloadAt + answer.size
      /\ Huge => answer.size > ChunkSize
      /\ s.inPayload \in BOOLEAN /\ s.sawData \in BOOLEAN
  BY Known
<1>4. /\ ReadInv'
      /\ got <= got' /\ got' <= got + ChunkSize
      /\ got' = got => /\ got = ResponseAt /\ answer.data
                      /\ xfer = LastXfer - 1 /\ xfer' = LastXfer
      /\ xfer <= answer.late => got' = got + ResponseSize /\ xfer' = xfer + 1
      /\ xfer = answer.late + 1 /\ got = DataAt =>
           /\ got' >= DataAt + HeaderSize
           /\ Huge /\ got' < got + ChunkSize => got' = PayloadAt
      /\ xfer > answer.late => xfer' > answer.late
      /\ xfer' < LastXfer => got' <= ResponseAt
      /\ Huge /\ xfer < LastXfer /\ got >= PayloadAt =>
           /\ got' <= ResponseAt /\ xfer' <= LastXfer
           /\ xfer' = LastXfer <=> got' < got + ChunkSize
           /\ xfer' = LastXfer => got' = ResponseAt
  BY <1>1, <1>2, <1>3, BulkReads
<1>5. got' \in Nat /\ xfer' \in Nat \ {0}
  BY <1>1, <1>3, <1>4, SameAnswer DEF ReadInv
<1>6. CASE got' = got
  <2>1. OnEmptyRead /\ got = ResponseAt /\ answer.data /\ xfer = LastXfer - 1 /\ xfer' = LastXfer
    BY <1>1, <1>4, <1>6
  <2> QED BY <2>1, <1>1, <1>4, <1>5, <1>6, EmptyReadKeeps
<1>7. CASE got' # got
  <2>1. /\ s' \in StateTypes /\ (s'.shortRead <=> got' < got + ChunkSize)
        /\ s'.pos = s.pos /\ s'.remaining = s.remaining /\ s'.yielded = s.yielded
        /\ s'.large = s.large /\ s'.inPayload = s.inPayload
        /\ s'.skipped = s.skipped /\ s'.sawData = s.sawData /\ s'.done = s.done
        /\ at' = "loop" /\ returned' = returned
    <3>1. (got' - got < ChunkSize) <=> (got' < got + ChunkSize)
      <4>1. \A a \in Nat, b \in Nat, c \in Nat : (a - b < c) <=> (a < b + c)
        OBVIOUS
      <4>2. got \in Nat /\ got' \in Nat /\ ChunkSize \in Nat
        BY <1>3, <1>5
      <4> QED BY ONLY <4>1, <4>2, Zenon
    <3>2. PICK short \in BOOLEAN : short = (got' - got < ChunkSize)
      <4>1. (got' - got < ChunkSize) \in BOOLEAN
        OBVIOUS
      <4> QED BY <4>1, Zenon
    <3>3. s' = [s EXCEPT !.expectZlp = FALSE, !.shortRead = short]
      BY <1>1, <1>7, <3>2, Zenon
    <3>4. at' = "loop" /\ returned' = returned
      BY <1>1, <1>7
    <3>5. /\ s' \in StateTypes /\ s'.shortRead = short
          /\ s'.pos = s.pos /\ s'.remaining = s.remaining /\ s'.yielded = s.yielded
          /\ s'.large = s.large /\ s'.inPayload = s.inPayload
          /\ s'.skipped = s.skipped /\ s'.sawData = s.sawData /\ s'.done = s.done
      BY ONLY <1>2, <3>3, short \in BOOLEAN DEF StateTypes
    <3>6. s'.shortRead <=> got' < got + ChunkSize
      <4>1. s'.shortRead <=> (got' - got < ChunkSize)
        BY ONLY <3>2, <3>5, Zenon
      <4> QED BY ONLY <3>1, <4>1, Zenon
    <3> QED BY ONLY <3>4, <3>5, <3>6, Zenon
  <2>2. got < got' /\ (s'.shortRead <=> got' < got + ChunkSize)
    <3>1. got < got'
      BY ONLY <1>3, <1>4, <1>5, <1>7
    <3>2. s'.shortRead <=> got' < got + ChunkSize
      BY ONLY <2>1, Zenon
    <3> QED BY ONLY <3>1, <3>2, Zenon
  <2>3. s.pos <= got /\ got - s.pos < HeaderSize
    BY <1>1, <1>2 DEF BufferInv, Buffered
  <2>4. StreamTypeOK' /\ LockInv' /\ EndInv' /\ NoFalseAlarm'
    <3>1. at \in {"loop", "read"} /\ at' \in {"caller", "loop", "read"}
      BY <1>1, <2>1
    <3> QED BY <3>1, <2>1, <1>1, <1>2, <1>5, GoingOn
  <2>5. LateInv'
    <3>1. SUFFICES ASSUME ~s.sawData PROVE LateInv'
      BY <2>1 DEF LateInv
    <3>2. /\ ~s.inPayload /\ out = {} /\ s.skipped <= answer.late
          /\ s.pos = s.skipped * ResponseSize /\ xfer = s.skipped + 1 /\ got = s.pos
      BY <3>1, <1>1, <1>2 DEF LateInv
    <3>3. xfer = s.skipped + 1 /\ got = s.pos /\ s.skipped <= answer.late
      BY <3>2
    <3>4. s.skipped < answer.late => xfer' = s.skipped + 2 /\ got' = s.pos + ResponseSize
      BY <3>3, <1>3, <1>4
    <3>5. s.skipped = answer.late => s.pos = DataAt
      BY <3>1, LatePosition
    <3>6. s.skipped = answer.late =>
            /\ xfer' > answer.late /\ got' >= s.pos + HeaderSize
            /\ Huge /\ s'.shortRead => got' = s.pos + HeaderSize
      BY <3>3, <3>5, <1>3, <1>4, <2>2
    <3>7. got' >= s.pos + HeaderSize /\ got' <= s.pos + ChunkSize
      BY <3>3, <3>4, <3>6, <1>3, <1>4
    <3> QED BY <3>2, <3>4, <3>6, <3>7, <2>1, <1>1, SameAnswer DEF LateInv
  <2>6. PayloadInv'
    <3>1. SUFFICES ASSUME s.inPayload PROVE PayloadInv'
      BY <2>1 DEF PayloadInv
    <3>2. /\ answer.data /\ s.sawData /\ s.large = Huge
          /\ PayloadAt <= s.pos /\ s.pos <= ResponseAt
          /\ s.yielded = s.pos - PayloadAt
          /\ s.remaining = (IF Huge /\ ~answer.sized THEN Unknown ELSE ResponseAt - s.pos)
          /\ got = s.pos
          /\ Huge => ~(xfer >= LastXfer)
      BY <3>1, <1>1, <1>2 DEF PayloadInv
    <3>3. ASSUME Huge
          PROVE  /\ got' <= ResponseAt
                 /\ xfer' >= LastXfer => s'.shortRead /\ s.yielded > 0
                 /\ s'.shortRead => got' = ResponseAt
      <4>1. /\ got' <= ResponseAt /\ xfer' <= LastXfer
            /\ xfer' = LastXfer <=> s'.shortRead
            /\ xfer' = LastXfer => got' = ResponseAt
        BY <3>2, <3>3, <1>3, <1>4, <2>2
      <4>2. s'.shortRead => s.yielded > 0
        <5>1. s'.shortRead => got' = ResponseAt /\ got' < got + ChunkSize
          BY <4>1, <2>2
        <5>2. ResponseAt = PayloadAt + answer.size /\ answer.size > ChunkSize
          BY <3>2, <3>3, <1>3
        <5> QED BY <5>1, <5>2, <3>2, <1>3
      <4> QED BY <4>1, <4>2, <1>3, <1>5
    <3> QED BY <3>2, <3>3, <2>1, <1>1, SameAnswer DEF PayloadInv
  <2>7. AfterInv'
    <3>1. SUFFICES ASSUME s.sawData, ~s.inPayload PROVE AfterInv'
      BY <2>1 DEF AfterInv
    <3>2. /\ answer.data /\ PayloadAt <= s.pos /\ s.pos <= ResponseAt
          /\ s.pos = ResponseAt \/ answer.stray
      BY <3>1, <1>2 DEF AfterInv
    <3>3. xfer' < LastXfer => answer.stray
      BY <3>2, <2>2, <2>3, <1>3, <1>4, <1>5
    <3> QED BY <3>1, <3>2, <3>3, <2>1, <1>1, SameAnswer DEF AfterInv
  <2>8. OutInv'
    BY <2>1, <1>1, <1>2, SameAnswer DEF OutInv
  <2>9. BufferInv'
    <3>1. s'.pos <= got' /\ got' - s'.pos < ChunkSize + HeaderSize
      BY <2>1, <2>2, <2>3, <1>3, <1>4, <1>5
    <3> QED BY <3>1, <2>1 DEF BufferInv, BufferIsBounded, Buffered
  <2> QED BY <2>4, <2>5, <2>6, <2>7, <2>8, <2>9, <1>4 DEF StreamInv
<1> QED BY <1>6, <1>7

-----------------------------------------------------------------------------
(* The theorems. *)

LEMMA StreamStart == StreamInit => StreamInv
<1> SUFFICES ASSUME StreamInit PROVE StreamInv
  OBVIOUS
<1>1. /\ answer \in Answers /\ got = 0 /\ xfer = 1
      /\ s = [pos |-> 0, remaining |-> Unknown, yielded |-> 0, large |-> FALSE,
              inPayload |-> FALSE, shortRead |-> FALSE, expectZlp |-> FALSE,
              skipped |-> 0, sawData |-> FALSE, done |-> FALSE]
      /\ guard = TRUE /\ flagged = FALSE
      /\ at = "caller" /\ out = {} /\ returned = "none"
  BY DEF StreamInit
<1>2. MaxStaleReplies \in Nat /\ 0 \in 0 .. MaxStaleReplies /\ HeaderSize \in Nat \ {0}
      /\ ChunkSize \in Nat \ {0} /\ ResponseSize \in Nat
  BY Sizes
<1>3. /\ answer.late \in Nat /\ LastXfer \in Nat /\ ResponseAt \in Nat
      /\ LastXfer = answer.late + 1 + (IF answer.split THEN 1 ELSE 0)
                                 + (IF HasBody THEN 1 ELSE 0)
      /\ answer.split \in BOOLEAN /\ (answer.split => answer.data)
  BY <1>1, AnswerParts, Layout, Places
<1>4. StreamTypeOK
  <2>1. s \in [pos : Nat, remaining : Nat \cup {Unknown}, yielded : Nat, large : BOOLEAN,
               inPayload : BOOLEAN, shortRead : BOOLEAN, expectZlp : BOOLEAN,
               skipped : 0 .. MaxStaleReplies, sawData : BOOLEAN, done : BOOLEAN]
    BY <1>1, <1>2
  <2>2. got \in Nat /\ xfer \in Nat \ {0}
    BY <1>1
  <2>3. /\ guard \in BOOLEAN /\ flagged \in BOOLEAN
        /\ at \in {"caller", "loop", "read", "dropped"} /\ out \subseteq Nat
        /\ returned \in {"none", "chunk", "end", "refused", "error", "failed", "reset",
                         "cancelled"}
    BY <1>1
  <2> QED BY <1>1, <2>1, <2>2, <2>3 DEF StreamTypeOK
<1>5. ReadInv
  <2>1. answer.late = 0 => DataAt = 0
    BY <1>2, Z3 DEF DataAt
  <2>2. xfer <= answer.late => got = (xfer - 1) * ResponseSize
    BY <1>1, <1>2, Z3
  <2>3. xfer = LastXfer => answer.late = 0 /\ ~HasBody /\ ~answer.split
    BY <1>1, <1>3
  <2>4. xfer = LastXfer => got = ResponseAt
    <3>1. ~HasBody /\ ~answer.split => ResponseAt = DataAt
      BY <1>1, Places DEF HasBody
    <3> QED BY <2>1, <2>3, <3>1, <1>1
  <2>5. xfer # LastXfer + 1 /\ xfer \in 1 .. LastXfer + 1
    BY <1>1, <1>3
  <2>6. answer.split /\ xfer = answer.late + 1 => got = DataAt
    BY <1>1, <1>3, <2>1
  <2>7. ASSUME HasBody, xfer = LastXfer - 1
        PROVE  /\ \E q \in Nat : got = BodyAt + q * ChunkSize
               /\ got <= ResponseAt
               /\ got = ResponseAt => BodyEndShows
    <3>1. answer.late = 0 /\ ~answer.split
      BY <1>1, <1>3, <2>7
    <3>2. BodyAt = 0 /\ BodyAt < ResponseAt
      BY <1>1, <2>1, <2>7, <3>1, Starts DEF BodyAt
    <3>3. got = BodyAt + 0 * ChunkSize
      BY <1>1, <1>2, <3>2
    <3> QED BY <1>1, <1>3, <3>2, <3>3
  <2> QED BY <1>1, <2>2, <2>4, <2>5, <2>6, <2>7 DEF ReadInv
<1>6. LockInv /\ PayloadInv /\ AfterInv /\ OutInv /\ EndInv /\ NoFalseAlarm
  BY <1>1 DEF LockInv, PayloadInv, AfterInv, OutInv, EndInv, NoFalseAlarm
<1>7. LateInv
  <2>1. s.pos = s.skipped * ResponseSize
    BY <1>1, <1>2, Z3
  <2>2. s.skipped <= answer.late /\ xfer = s.skipped + 1
    BY <1>1, <1>3
  <2> QED BY <1>1, <2>1, <2>2 DEF LateInv
<1>8. BufferInv
  BY <1>1, <1>2 DEF BufferInv, BufferIsBounded, Buffered
<1> QED BY <1>4, <1>5, <1>6, <1>7, <1>8 DEF StreamInv

LEMMA StreamKeeps == StreamInv /\ [StreamNext]_streamVars => StreamInv'
<1> SUFFICES ASSUME StreamInv, [StreamNext]_streamVars PROVE StreamInv'
  OBVIOUS
<1>1. CASE NextChunk \/ DropFuture \/ DropStream
  BY <1>1, CallerKeeps
<1>2. CASE ConsumeData
  BY <1>2, ConsumeDataKeeps
<1>3. CASE SkipLateReply
  BY <1>3, SkipLateReplyKeeps
<1>4. CASE ConsumeResponse
  BY <1>4, ConsumeResponseKeeps
<1>5. CASE ConsumeUnexpected
  BY <1>5, ConsumeUnexpectedKeeps
<1>6. CASE YieldChunk
  BY <1>6, YieldChunkKeeps
<1>7. CASE EndEmpty
  BY <1>7, EndEmptyKeeps
<1>8. CASE NeedMore
  BY <1>8, NeedMoreKeeps
<1>9. CASE ReceiveBytes
  BY <1>9, ReceiveBytesKeeps
<1>10. CASE ReceiveStrayEmpty
  BY <1>10, ReceiveStrayEmptyKeeps
<1>11. CASE ReceiveFails
  BY <1>11, ReceiveFailsKeeps
<1>12. CASE Cancel
  BY <1>12, CancelKeeps
<1>13. CASE UNCHANGED streamVars
  <2>1. /\ answer' = answer /\ got' = got /\ xfer' = xfer /\ s' = s /\ guard' = guard
        /\ flagged' = flagged /\ at' = at /\ out' = out /\ returned' = returned
    BY <1>13 DEF streamVars
  <2>2. StreamTypeOK' /\ LockInv' /\ EndInv' /\ OutInv' /\ BufferInv' /\ NoFalseAlarm'
    BY <2>1, SameAnswer DEF StreamInv, StreamTypeOK, LockInv, EndInv, OutInv, BufferInv,
       BufferIsBounded, Buffered, NoFalseAlarm
  <2>3. ReadInv'
    BY <2>1, NothingRead DEF StreamInv
  <2>4. LateInv' /\ PayloadInv' /\ AfterInv'
    BY <2>1, SameAnswer DEF StreamInv, LateInv, PayloadInv, AfterInv
  <2> QED BY <2>2, <2>3, <2>4 DEF StreamInv
<1> QED BY <1>1, <1>2, <1>3, <1>4, <1>5, <1>6, <1>7, <1>8, <1>9, <1>10, <1>11, <1>12, <1>13
        DEF StreamNext, StreamStep

LEMMA StreamInvariant == StreamSpec => []StreamInv
BY StreamStart, StreamKeeps, PTL DEF StreamSpec

(* What next_chunk has handed out is a prefix of the object, and all of it *)
(* when it reports the end, for any mix of late replies, split headers,    *)
(* packet boundaries and the 4 GiB length sentinel; and only a device with *)
(* more late replies than MAX_STALE_REPLIES, or with empty reads out of    *)
(* place, is answered with a protocol error.                               *)
THEOREM StreamsAreExact == StreamSpec => []StreamIsExact
<1>1. StreamInv => StreamIsExact
  <2> SUFFICES ASSUME StreamInv PROVE StreamIsExact
    OBVIOUS
  <2>1. /\ DataAt \in Nat /\ ResponseAt \in Nat /\ PayloadAt \in Nat /\ s.pos \in Nat
        /\ answer.data => ResponseAt = PayloadAt + answer.size
        /\ answer.size \in Nat
    BY Known
  <2>2. /\ OutInv /\ EndInv /\ NoFalseAlarm
        /\ s.sawData => answer.data /\ s.pos <= ResponseAt
    BY Known DEF StreamInv, PayloadInv, AfterInv
  <2>3. CASE s.sawData
    <3>1. Payload = PayloadAt + 1 .. ResponseAt /\ out = PayloadAt + 1 .. s.pos
      BY <2>1, <2>2, <2>3 DEF Payload, OutInv
    <3>2. out \subseteq Payload /\ (\A b \in out : PayloadAt + 1 .. b \subseteq out)
      BY <2>1, <2>2, <2>3, <3>1
    <3>3. returned = "end" => out = Payload
      BY <2>2, <3>1 DEF EndInv
    <3> QED BY <2>2, <3>2, <3>3 DEF StreamIsExact, YieldsObject
  <2>4. CASE ~s.sawData
    BY <2>2, <2>4 DEF StreamIsExact, YieldsObject, OutInv, EndInv
  <2> QED BY <2>3, <2>4
<1> QED BY <1>1, StreamInvariant, PTL

(* RECEIVE_CHUNK's promise: less than one read and a header is buffered,   *)
(* whatever the size of the object.                                        *)
THEOREM BuffersAreBounded == StreamSpec => []BufferIsBounded
<1>1. StreamInv => BufferIsBounded
  BY DEF StreamInv, BufferInv
<1> QED BY <1>1, StreamInvariant, PTL

(* The lock is never given back over an unread answer without the session  *)
(* being flagged for recovery, drained, or reset: the drop of the stream   *)
(* or of next_chunk's future at any await, a failed read, a cancel.        *)
THEOREM UnreadAnswersAreFlagged == StreamSpec => []UnreadIsFlagged
<1>1. StreamInv => UnreadIsFlagged
  BY DEF StreamInv, LockInv, UnreadIsFlagged
<1> QED BY <1>1, StreamInvariant, PTL

-----------------------------------------------------------------------------
(***************************************************************************)
(* BulkSend.  What the device took is known from where the call is: whole  *)
(* transfers while the stream lasts, and after that one more, short or     *)
(* empty.  `total` is what makes it inductive: it is 0 only while nothing  *)
(* was sent, so a phase that ends with an empty buffer is closed.          *)
(***************************************************************************)
Waits == {"wait_full", "wait_last", "wait_end"}

Senders == [at : {"idle", "stream", "copy", "sent", "failed"} \cup Waits,
            rest : Nat, buf : Nat, total : Nat]

SendShape ==
  /\ sender \in Senders
  /\ sender.buf < TransferSize
  /\ received \in Seq(Nat) /\ outQueue \in Seq(Nat)
  /\ fed \in Nat /\ sends \in Nat /\ unanswered \in Nat

(* Every byte fed is sent, in the buffer or in the chunk. *)
FedInv ==
  /\ sender.at \in {"stream", "copy", "wait_full"} =>
       /\ fed = sender.total + sender.buf + sender.rest
       /\ sender.total = 0 <=> received = <<>>
  /\ sender.at = "stream" => sender.rest = 0
  /\ sender.at = "wait_full" => sender.buf = 0

FullPackets(n) == n > 0 /\ n % SendPacket = 0

(* All of q but its last element are full. *)
FullUpToLast(q) == \A i \in 1 .. Len(q) - 1 : FullPackets(q[i])

EndsShort(q) == q # <<>> /\ FullUpToLast(q) /\ (q[Len(q)] = 0 \/ q[Len(q)] % SendPacket # 0)

PhaseInv ==
  /\ sender.at \in {"stream", "copy", "wait_full", "wait_last"} =>
       \A i \in 1 .. Len(received) : FullPackets(received[i])
  /\ sender.at = "wait_end" => EndsShort(received)
  /\ sender.at = "sent" => fed = 0 \/ EndsShort(received)

(* Completions are owed only to the transfer awaited, until a wait runs out. *)
QueueInv == unanswered = 0 => Len(outQueue) = IF sender.at \in Waits THEN 1 ELSE 0

SendInv == SendShape /\ FedInv /\ PhaseInv /\ QueueInv

(* A transfer is made of whole packets. *)
LEMMA WholeTransfers == TransferSize \in Nat /\ FullPackets(TransferSize)
<1> USE SendAssumption
<1> DEFINE q == (WantedSize + SendPacket - 1) \div SendPacket
<1>1. q \in Nat \ {0}
  OBVIOUS
<1> HIDE DEF q
<1>2. (q * SendPacket) % SendPacket = 0 /\ q * SendPacket \in Nat
  BY <1>1
<1>3. q * SendPacket > 0
  BY <1>1
<1> QED BY <1>2, <1>3 DEF TransferSize, FullPackets, q

LEMMA SenderFields ==
  ASSUME NEW c \in Senders
  PROVE  /\ c.buf \in Nat /\ c.rest \in Nat /\ c.total \in Nat
         /\ c.at \in {"idle", "stream", "copy", "sent", "failed"} \cup Waits
BY DEF Senders

LEMMA AppendEnds ==
  ASSUME NEW q \in Seq(Nat), NEW n \in Nat
  PROVE  /\ Append(q, n) \in Seq(Nat) /\ Append(q, n) # <<>>
         /\ Len(Append(q, n)) = Len(q) + 1 /\ Len(q) \in Nat
         /\ \A i \in 1 .. Len(q) : Append(q, n)[i] = q[i]
         /\ Append(q, n)[Len(q) + 1] = n
OBVIOUS

(* A full transfer after full ones, and a last one that is short. *)
LEMMA OneMoreFull ==
  ASSUME NEW q \in Seq(Nat), NEW n \in Nat, \A i \in 1 .. Len(q) : FullPackets(q[i])
  PROVE  /\ FullPackets(n) => \A i \in 1 .. Len(Append(q, n)) : FullPackets(Append(q, n)[i])
         /\ n = 0 \/ n % SendPacket # 0 => EndsShort(Append(q, n))
<1>1. /\ Append(q, n) # <<>> /\ Len(Append(q, n)) = Len(q) + 1 /\ Len(q) \in Nat
      /\ \A i \in 1 .. Len(q) : Append(q, n)[i] = q[i]
      /\ Append(q, n)[Len(q) + 1] = n
  BY AppendEnds
<1>2. \A i \in 1 .. Len(q) : FullPackets(Append(q, n)[i])
  BY <1>1
<1>3. 1 .. (Len(q) + 1) - 1 = 1 .. Len(q)
  BY <1>1
<1>4. ASSUME FullPackets(n), NEW i \in 1 .. Len(q) + 1 PROVE FullPackets(Append(q, n)[i])
  <2>1. CASE i = Len(q) + 1
    BY <1>1, <1>4, <2>1
  <2>2. CASE i # Len(q) + 1
    <3>1. i \in 1 .. Len(q)
      BY <1>1, <2>2
    <3> QED BY <1>2, <3>1
  <2> QED BY <2>1, <2>2
<1>5. ASSUME n = 0 \/ n % SendPacket # 0 PROVE EndsShort(Append(q, n))
  BY <1>1, <1>2, <1>3, <1>5 DEF EndsShort, FullUpToLast
<1> QED BY <1>1, <1>4, <1>5

(* What the fields are once a transfer is submitted. *)
LEMMA Submitted ==
  ASSUME SendShape, NEW len \in Nat, NEW to \in Waits, Submit(len, to),
         to = "wait_full" => len = TransferSize /\ sender.rest >= TransferSize - sender.buf,
         UNCHANGED <<fed, sends, unanswered>>
  PROVE  /\ SendShape'
         /\ sender'.at = to /\ sender'.buf = 0
         /\ sender'.total = IF to = "wait_full" THEN sender.total + TransferSize ELSE sender.total
         /\ sender'.rest = IF to = "wait_full" THEN sender.rest - (TransferSize - sender.buf)
                                               ELSE sender.rest
         /\ received' = Append(received, len) /\ outQueue' = Append(outQueue, sends)
<1>1. TransferSize \in Nat /\ TransferSize > 0
  BY WholeTransfers DEF FullPackets
<1>2. /\ sender' \in Senders /\ sender'.at = to /\ sender'.buf = 0
      /\ sender'.total = IF to = "wait_full" THEN sender.total + TransferSize ELSE sender.total
      /\ sender'.rest = IF to = "wait_full" THEN sender.rest - (TransferSize - sender.buf)
                                            ELSE sender.rest
  <2> DEFINE t == IF to = "wait_full" THEN sender.total + TransferSize ELSE sender.total
             r == IF to = "wait_full" THEN sender.rest - (len - sender.buf) ELSE sender.rest
  <2>1. sender \in Senders /\ sender.buf \in Nat /\ sender.buf < TransferSize
        /\ sender.rest \in Nat /\ sender.total \in Nat
    BY DEF SendShape, Senders
  <2>2. t \in Nat /\ r \in Nat
    BY <1>1, <2>1
  <2>3. sender' = [sender EXCEPT !.at = to, !.buf = 0, !.total = t, !.rest = r]
    BY DEF Submit
  <2> HIDE DEF t, r
  <2>4. sender' \in Senders /\ sender'.at = to /\ sender'.buf = 0 /\ sender'.total = t /\ sender'.rest = r
    BY <2>1, <2>2, <2>3 DEF Senders
  <2> QED BY <2>4 DEF t, r
<1>3. received' \in Seq(Nat) /\ outQueue' \in Seq(Nat)
  BY AppendEnds DEF Submit, SendShape
<1> HIDE DEF TransferSize
<1> QED BY <1>1, <1>2, <1>3 DEF Submit, SendShape

LEMMA SubmittedQueue ==
  ASSUME SendShape, QueueInv, sender.at \notin Waits, sender'.at \in Waits,
         outQueue' = Append(outQueue, sends), UNCHANGED unanswered
  PROVE  QueueInv'
<1>1. Len(Append(outQueue, sends)) = Len(outQueue) + 1
  BY AppendEnds DEF SendShape
<1> QED BY <1>1 DEF QueueInv, SendShape

LEMMA CopyKeeps ==
  ASSUME SendInv, CopyChunk
  PROVE  SendInv'
<1> USE DEF SendInv
<1>1. TransferSize \in Nat /\ TransferSize > 0 /\ FullPackets(TransferSize)
  BY WholeTransfers DEF FullPackets
<1>2. sender.at = "copy" /\ sender.buf \in Nat /\ sender.rest \in Nat /\ sender.total \in Nat
  BY SenderFields DEF CopyChunk, SendShape
<1>3. CASE sender.rest >= TransferSize - sender.buf
  <2>1. Submit(TransferSize, "wait_full") /\ UNCHANGED <<fed, sends, unanswered>>
    BY <1>3 DEF CopyChunk
  <2>2. /\ SendShape' /\ sender'.at = "wait_full" /\ sender'.buf = 0
        /\ sender'.total = sender.total + TransferSize
        /\ sender'.rest = sender.rest - (TransferSize - sender.buf)
        /\ received' = Append(received, TransferSize) /\ outQueue' = Append(outQueue, sends)
    BY <1>1, <1>3, <2>1, Submitted DEF Waits
  <2>3. QueueInv'
    BY <1>2, <2>1, <2>2, SubmittedQueue DEF Waits
  <2>4. received' # <<>>
    BY <1>1, <2>2, AppendEnds DEF SendShape
  <2>5. FedInv'
    BY <1>1, <1>2, <2>1, <2>2, <2>4, SMTT(30) DEF FedInv
  <2>6. PhaseInv'
    BY <1>1, <1>2, <2>2, OneMoreFull DEF PhaseInv, SendShape
  <2> QED BY <2>2, <2>3, <2>5, <2>6
<1>4. CASE ~(sender.rest >= TransferSize - sender.buf)
  <2>1. /\ sender' = [sender EXCEPT !.at = "stream", !.rest = 0, !.buf = sender.buf + sender.rest]
        /\ UNCHANGED <<outQueue, received, fed, sends, unanswered>>
    BY <1>4 DEF CopyChunk
  <2>2. /\ sender' \in Senders
        /\ sender'.at = "stream" /\ sender'.rest = 0 /\ sender'.buf = sender.buf + sender.rest
        /\ sender'.total = sender.total
    <3>1. sender \in Senders /\ sender.buf + sender.rest \in Nat
      BY <1>2 DEF SendShape
    <3> QED BY <2>1, <3>1 DEF Senders
  <2>3. SendShape'
    BY <1>1, <1>2, <1>4, <2>1, <2>2 DEF SendShape
  <2> QED BY <1>2, <2>1, <2>2, <2>3 DEF FedInv, PhaseInv, QueueInv, Waits
<1> QED BY <1>3, <1>4

LEMMA EndKeeps ==
  ASSUME SendInv, SourceEnds
  PROVE  SendInv'
<1> USE DEF SendInv
<1>1. /\ sender.at = "stream" /\ sender.buf \in Nat /\ sender.total \in Nat /\ received \in Seq(Nat)
      /\ UNCHANGED <<fed, sends, unanswered>>
  BY SenderFields DEF SourceEnds, SendShape
<1>2. \A i \in 1 .. Len(received) : FullPackets(received[i])
  BY <1>1 DEF PhaseInv
<1>3. ASSUME NEW len \in Nat, Submit(len, "wait_end"), len = 0 \/ len % SendPacket # 0
      PROVE  SendInv'
  <2>1. /\ SendShape' /\ sender'.at = "wait_end"
        /\ received' = Append(received, len) /\ outQueue' = Append(outQueue, sends)
    BY <1>1, <1>3, Submitted DEF Waits
  <2>2. QueueInv'
    BY <1>1, <2>1, SubmittedQueue DEF Waits
  <2>3. EndsShort(received')
    BY <1>1, <1>2, <1>3, <2>1, OneMoreFull
  <2> QED BY <2>1, <2>2, <2>3 DEF FedInv, PhaseInv
<1>4. CASE sender.buf > 0 /\ sender.buf % SendPacket = 0
  <2>1. Submit(sender.buf, "wait_last")
    BY <1>1, <1>4 DEF SourceEnds, Submit
  <2>2. /\ SendShape' /\ sender'.at = "wait_last"
        /\ received' = Append(received, sender.buf) /\ outQueue' = Append(outQueue, sends)
    BY <1>1, <2>1, Submitted DEF Waits
  <2>3. QueueInv'
    BY <1>1, <2>2, SubmittedQueue DEF Waits
  <2>4. FullPackets(sender.buf)
    BY <1>4 DEF FullPackets
  <2>5. \A i \in 1 .. Len(received') : FullPackets(received'[i])
    BY <1>1, <1>2, <2>2, <2>4, OneMoreFull
  <2> QED BY <2>2, <2>3, <2>5 DEF FedInv, PhaseInv
<1>5. CASE sender.buf > 0 /\ sender.buf % SendPacket # 0
  <2>1. Submit(sender.buf, "wait_end")
    BY <1>1, <1>5 DEF SourceEnds, Submit
  <2> QED BY <1>1, <1>3, <1>5, <2>1
<1>6. CASE sender.buf = 0 /\ sender.total > 0
  <2>1. Submit(0, "wait_end")
    BY <1>1, <1>6 DEF SourceEnds, Submit
  <2> QED BY <1>3, <2>1
<1>7. CASE sender.buf = 0 /\ sender.total = 0
  <2>1. sender' = [sender EXCEPT !.at = "sent"] /\ UNCHANGED <<outQueue, received>>
    BY <1>1, <1>7 DEF SourceEnds
  <2>2. fed = 0
    BY <1>1, <1>7 DEF FedInv, SendShape
  <2>3. SendShape' /\ sender'.at = "sent"
    <3>1. sender' \in Senders /\ sender'.at = "sent" /\ sender'.buf = sender.buf
      BY <2>1 DEF SendShape, Senders
    <3> QED BY <1>1, <2>1, <3>1 DEF SendShape
  <2> QED BY <1>1, <2>1, <2>2, <2>3 DEF FedInv, PhaseInv, QueueInv, Waits
<1> QED BY <1>1, <1>4, <1>5, <1>6, <1>7

LEMMA CompletesKeeps ==
  ASSUME SendInv, Completes
  PROVE  SendInv'
<1> USE DEF SendInv
<1>1. /\ sender.at \in Waits /\ outQueue # <<>> /\ received \in Seq(Nat)
      /\ UNCHANGED <<fed, sends, unanswered>> /\ sends \in Nat /\ outQueue \in Seq(Nat)
  BY DEF Completes, SendShape, Waits
<1>2. Tail(outQueue) \in Seq(Nat) /\ Len(Tail(outQueue)) = Len(outQueue) - 1 /\ Len(outQueue) \in Nat
  BY <1>1
<1>3. ASSUME NEW to \in {"copy", "sent", "failed"},
             sender' = [sender EXCEPT !.at = to], outQueue' = Tail(outQueue), UNCHANGED received
      PROVE  SendShape' /\ QueueInv' /\ sender'.at = to
             /\ sender'.buf = sender.buf /\ sender'.rest = sender.rest /\ sender'.total = sender.total
  <2>1. sender' \in Senders /\ sender'.at = to
        /\ sender'.buf = sender.buf /\ sender'.rest = sender.rest /\ sender'.total = sender.total
    BY <1>3 DEF SendShape, Senders
  <2>2. SendShape'
    BY <1>1, <1>2, <1>3, <2>1 DEF SendShape
  <2> QED BY <1>1, <1>2, <1>3, <2>1, <2>2 DEF QueueInv, Waits
<1>4. CASE /\ sender.at = "wait_full" /\ outQueue' = Tail(outQueue) /\ UNCHANGED received
           /\ sender' = [sender EXCEPT !.at = "copy"]
  BY <1>1, <1>3, <1>4 DEF FedInv, PhaseInv
<1>5. CASE /\ sender.at = "wait_end" /\ outQueue' = Tail(outQueue) /\ UNCHANGED received
           /\ sender' = [sender EXCEPT !.at = "sent"]
  BY <1>1, <1>3, <1>5 DEF FedInv, PhaseInv
<1>6. CASE /\ outQueue' = Tail(outQueue) /\ UNCHANGED received
           /\ sender' = [sender EXCEPT !.at = "failed"]
  BY <1>1, <1>3, <1>6 DEF FedInv, PhaseInv
<1>7. CASE /\ sender.at = "wait_last" /\ outQueue' = Append(Tail(outQueue), sends)
           /\ received' = Append(received, 0)
           /\ sender' = [sender EXCEPT !.at = "wait_end"]
  <2>1. outQueue' \in Seq(Nat) /\ Len(outQueue') = Len(outQueue) /\ received' \in Seq(Nat)
    BY <1>1, <1>2, <1>7, AppendEnds
  <2>2. SendShape' /\ sender'.at = "wait_end"
    <3>1. sender' \in Senders /\ sender'.at = "wait_end" /\ sender'.buf = sender.buf
      BY <1>7 DEF SendShape, Senders, Waits
    <3> QED BY <1>1, <2>1, <3>1 DEF SendShape
  <2>3. EndsShort(received')
    BY <1>1, <1>7, OneMoreFull DEF PhaseInv
  <2> QED BY <1>1, <2>1, <2>2, <2>3 DEF FedInv, PhaseInv, QueueInv, Waits
<1> QED BY <1>4, <1>5, <1>6, <1>7 DEF Completes

LEMMA SendStarts == SendInit => SendInv
<1> USE DEF SendInv
<1> SUFFICES ASSUME SendInit PROVE SendInv
  OBVIOUS
<1>1. TransferSize \in Nat /\ TransferSize > 0
  BY WholeTransfers DEF FullPackets
<1>2. sender.at = "idle" /\ SendShape
  BY <1>1 DEF SendInit, SendShape, Senders
<1> QED BY <1>2 DEF SendInit, FedInv, PhaseInv, QueueInv, Waits

LEMMA SendKeeps == SendInv /\ [SendNext]_sendVars => SendInv'
<1> USE DEF SendInv
<1> SUFFICES ASSUME SendInv, [SendNext]_sendVars PROVE SendInv'
  OBVIOUS
<1>1. CASE SendStart
  <2>1. TransferSize \in Nat /\ TransferSize > 0
    BY WholeTransfers DEF FullPackets
  <2>2. sender'.at = "stream" /\ SendShape'
    BY <1>1, <2>1 DEF SendStart, SendShape, Senders
  <2> QED BY <1>1, <2>2 DEF SendStart, FedInv, PhaseInv, QueueInv, Waits
<1>2. CASE ChunkComes
  <2>1. PICK n \in 0 .. MaxChunkLen :
          sender' = [sender EXCEPT !.at = "copy", !.rest = n] /\ fed' = fed + n
    BY <1>2 DEF ChunkComes
  <2>2. n \in Nat
    BY SendAssumption
  <2>3. SendShape' /\ sender'.at = "copy" /\ sender'.rest = n
        /\ sender'.buf = sender.buf /\ sender'.total = sender.total
    <3>1. sender' \in Senders /\ sender'.at = "copy" /\ sender'.rest = n
          /\ sender'.buf = sender.buf /\ sender'.total = sender.total
      BY <2>1, <2>2 DEF SendShape, Senders
    <3> QED BY <1>2, <2>1, <2>2, <3>1 DEF ChunkComes, SendShape
  <2>4. sender.at = "stream" /\ UNCHANGED <<outQueue, received, sends, unanswered>>
    BY <1>2 DEF ChunkComes
  <2>5. FedInv'
    BY <2>1, <2>2, <2>3, <2>4, SenderFields DEF SendShape, FedInv
  <2> QED BY <2>3, <2>4, <2>5 DEF PhaseInv, QueueInv, Waits
<1>3. CASE SourceFails
  <2>1. SendShape' /\ sender'.at = "failed"
    <3>1. sender' \in Senders /\ sender'.at = "failed" /\ sender'.buf = sender.buf
      BY <1>3 DEF SourceFails, SendShape, Senders
    <3> QED BY <1>3, <3>1 DEF SourceFails, SendShape
  <2> QED BY <1>3, <2>1 DEF SourceFails, FedInv, PhaseInv, QueueInv, Waits
<1>4. CASE TimesOut
  <2>1. SendShape' /\ sender'.at = "failed" /\ unanswered' # 0
    <3>1. sender' \in Senders /\ sender'.at = "failed" /\ sender'.buf = sender.buf
      BY <1>4 DEF TimesOut, SendShape, Senders
    <3> QED BY <1>4, <3>1 DEF TimesOut, SendShape
  <2> QED BY <2>1 DEF FedInv, PhaseInv, QueueInv
<1>5. CASE UNCHANGED sendVars
  BY <1>5 DEF sendVars, SendShape, FedInv, PhaseInv, QueueInv
<1> QED BY <1>1, <1>2, <1>3, <1>4, <1>5, CopyKeeps, EndKeeps, CompletesKeeps DEF SendNext

LEMMA SendInvHolds == SendSpec => []SendInv
BY SendStarts, SendKeeps, PTL DEF SendSpec

(* NusbTransport::send_bulk_streaming, for any endpoint and any chunks: the transfers of a
   data phase that was sent are whole packets up to a last one that is short or empty, and a
   call takes only completions of its own unless an earlier wait ran out. *)
THEOREM PhasesAreDelimited == SendSpec => []PhaseIsDelimited
<1>1. SendInv => PhaseIsDelimited
  <2> SUFFICES ASSUME SendInv, sender.at = "sent", fed > 0 PROVE
         /\ \A i \in 1 .. Len(received) - 1 : received[i] > 0 /\ received[i] % SendPacket = 0
         /\ Last(received) = 0 \/ Last(received) % SendPacket # 0
         /\ unanswered = 0 => outQueue = <<>>
    BY DEF PhaseIsDelimited
  <2>1. EndsShort(received)
    BY DEF SendInv, PhaseInv, SendShape
  <2>2. unanswered = 0 => outQueue = <<>>
    BY DEF SendInv, QueueInv, SendShape, Waits
  <2> QED BY <2>1, <2>2 DEF EndsShort, FullUpToLast, FullPackets, Last
<1> QED BY <1>1, SendInvHolds, PTL
-----------------------------------------------------------------------------
(***************************************************************************)
(* FileDownload.  A patient caller has the range up to a point d, and the  *)
(* bytes from d to the offset are those of a window being closed; only a   *)
(* download that is over can have read past d.  A window never reaches     *)
(* past the range, by what it has still to receive.                        *)
(***************************************************************************)
Reads == [held : BOOLEAN, requested : Nat, received : Nat, left : Nat]

DownloadShape ==
  /\ file \in Ranges
  /\ file.held \/ ~WholeFile(file) \/ file.end = 0 \/ file.ops # "none"
  /\ offset \in Nat /\ offset >= file.start
  /\ current \in Reads
  /\ done \in BOOLEAN
  /\ stage \in {"caller", "start", "body", "close"}
  /\ result \in {"none", "chunk", "end", "error", "cancelled"}

(* A window asks for something, and what it has still to receive is in the range. *)
WindowInv ==
  current # NoRead /\ ~current.held =>
    /\ current.requested \in 1 .. Cap
    /\ offset + current.requested <= file.end + current.received
    /\ current.received <= current.requested
    /\ stage # "close" => current.received < current.requested

StageInv ==
  /\ stage = "start" => current = NoRead /\ offset < file.end /\ ~done
  /\ stage = "body" => current # NoRead /\ ~done
  /\ stage = "close" => current # NoRead /\ ~current.held /\ ~done
  /\ done => current = NoRead
  /\ ~file.held => ~current.held
  /\ result = "end" => done

(* The caller has all bytes up to d, and next_chunk those from d on. *)
DeliveredTo(d) ==
  /\ file.start <= d /\ d <= offset
  /\ delivered = file.start .. d - 1
  /\ stage = "close" => chunk = d .. offset - 1
  /\ ~done /\ stage # "close" => d = offset
  /\ result = "end" => d >= file.end

DeliveryInv ==
  /\ stage # "close" => chunk = {}
  /\ chunk \subseteq file.start .. file.end - 1
  /\ delivered \subseteq Nat
  /\ ~file.held => delivered \subseteq file.start .. file.end - 1
  /\ file.patient => \E d \in Nat : DeliveredTo(d)

DownloadInv == DownloadShape /\ WindowInv /\ StageInv /\ DeliveryInv

LEMMA RangeFields ==
  ASSUME file \in Ranges
  PROVE  /\ file.size \in Nat /\ file.start \in Nat /\ file.end \in Nat
         /\ file.start <= file.end /\ file.end <= file.size
         /\ file.held \in BOOLEAN /\ file.patient \in BOOLEAN /\ file.ops \in {"none", "narrow", "wide"}
<1>1. file.size \in 0 .. MaxSize /\ file.start \in 0 .. MaxSize /\ file.end \in 0 .. MaxSize
      /\ file.start <= file.end /\ file.end <= file.size
  BY DEF Ranges
<1>2. file.held \in BOOLEAN /\ file.patient \in BOOLEAN /\ file.ops \in {"none", "narrow", "wide"}
  BY DEF Ranges
<1> QED BY <1>1, <1>2, DownloadAssumption

LEMMA NoReadFields ==
  /\ NoRead \in Reads /\ NoRead.held = FALSE /\ NoRead.requested = 0 /\ NoRead.received = 0
BY DEF NoRead, Reads

LEMMA ReadFields ==
  ASSUME NEW c \in Reads
  PROVE  c.held \in BOOLEAN /\ c.requested \in Nat /\ c.received \in Nat /\ c.left \in Nat
BY DEF Reads

(* A download that ends early keeps what it has delivered. *)
LEMMA StopKeeps ==
  ASSUME DownloadInv, ~done, current' = NoRead, done' = TRUE, stage' = "caller",
         result' \in {"error", "cancelled"}, chunk' = {}, UNCHANGED <<file, delivered>>,
         offset' \in Nat, offset' >= offset
  PROVE  DownloadInv'
<1> USE DEF DownloadInv
<1>1. /\ file.start \in Nat /\ offset \in Nat /\ file.start <= offset
  BY RangeFields DEF DownloadShape
<1>2. DownloadShape'
  BY <1>1, NoReadFields DEF DownloadShape, WholeFile
<1>3. WindowInv' /\ StageInv'
  BY NoReadFields DEF WindowInv, StageInv
<1>4. ASSUME NEW d \in Nat, DeliveredTo(d) PROVE DeliveredTo(d)'
  BY <1>1, <1>4 DEF DeliveredTo
<1>5. DeliveryInv'
  BY <1>4 DEF DeliveryInv
<1> QED BY <1>2, <1>3, <1>5

LEMMA FailKeeps ==
  ASSUME DownloadInv, ~done, Fail, chunk' = {}, UNCHANGED <<file, delivered>>,
         offset' \in Nat, offset' >= offset
  PROVE  DownloadInv'
BY StopKeeps DEF Fail, Return

(* The end of next_chunk's loop, with no read in flight. *)
LEMMA LoopKeeps ==
  ASSUME DownloadInv, ~done, stage \in {"caller", "body"}, current' = NoRead, NextReadOrEnd,
         UNCHANGED <<file, offset, chunk, delivered>>
  PROVE  DownloadInv'
<1> USE DEF DownloadInv
<1>1. /\ file.start \in Nat /\ file.end \in Nat /\ offset \in Nat /\ file.start <= offset
  BY RangeFields DEF DownloadShape
<1>2. \/ offset >= file.end /\ done' = TRUE /\ stage' = "caller" /\ result' = "end"
      \/ offset < file.end /\ stage' = "start" /\ UNCHANGED <<done, result>>
  BY <1>1 DEF NextReadOrEnd, Return
<1>3. DownloadShape'
  BY <1>1, <1>2, NoReadFields DEF DownloadShape, WholeFile
<1>4. WindowInv' /\ StageInv'
  BY <1>2, NoReadFields DEF WindowInv, StageInv
<1>5. ASSUME NEW d \in Nat, DeliveredTo(d) PROVE DeliveredTo(d)'
  BY <1>1, <1>2, <1>5 DEF DeliveredTo
<1>6. DeliveryInv'
  BY <1>2, <1>5 DEF DeliveryInv
<1> QED BY <1>3, <1>4, <1>6

LEMMA AskKeeps ==
  ASSUME DownloadInv, AskChunk
  PROVE  DownloadInv'
<1> USE DEF DownloadInv
<1>1. CASE current # NoRead
  <2>1. stage = "caller" /\ stage' = "body" /\ ~done
        /\ UNCHANGED <<file, offset, current, chunk, done, delivered, result>>
    BY <1>1 DEF AskChunk
  <2>2. DownloadShape' /\ WindowInv' /\ StageInv'
    BY <1>1, <2>1 DEF DownloadShape, WholeFile, WindowInv, StageInv
  <2>3. ASSUME NEW d \in Nat, DeliveredTo(d) PROVE DeliveredTo(d)'
    BY <2>1, <2>3 DEF DeliveredTo
  <2>4. DeliveryInv'
    BY <2>1, <2>3 DEF DeliveryInv
  <2> QED BY <2>2, <2>4
<1>2. CASE current = NoRead
  BY <1>2, LoopKeeps DEF AskChunk
<1> QED BY <1>1, <1>2

(* A read is started where the last one ended. *)
LEMMA StartedKeeps ==
  ASSUME DownloadInv, stage = "start", stage' \in {"caller", "body"}, current' \in Reads,
         current' # NoRead,
         \/ current'.held /\ file.held
         \/ /\ ~current'.held /\ current'.received = 0
            /\ current'.requested \in 1 .. Cap /\ offset + current'.requested <= file.end,
         UNCHANGED <<file, offset, chunk, done, delivered, result>>
  PROVE  DownloadInv'
<1> USE DEF DownloadInv
<1>1. DownloadShape'
  BY DEF DownloadShape, WholeFile
<1>2. WindowInv'
  BY RangeFields, DownloadAssumption DEF DownloadShape, WindowInv
<1>3. StageInv'
  BY RangeFields, ReadFields DEF DownloadShape, StageInv
<1>4. ASSUME NEW d \in Nat, DeliveredTo(d) PROVE DeliveredTo(d)'
  BY <1>4 DEF DeliveredTo
<1>5. DeliveryInv'
  BY <1>4 DEF DeliveryInv
<1> QED BY <1>1, <1>2, <1>3, <1>5

LEMMA StartKeeps ==
  ASSUME DownloadInv, StartWindow \/ StartHeldOpen \/ StartUnsupported \/ StartFails
  PROVE  DownloadInv'
<1> USE DEF DownloadInv
<1>1. /\ stage = "start" /\ offset \in Nat /\ file.end \in Nat /\ offset < file.end /\ ~done
      /\ chunk = {}
  BY RangeFields
  DEF StartWindow, StartHeldOpen, StartUnsupported, StartFails, DownloadShape, StageInv, DeliveryInv
<1>2. CASE StartWindow
  <2>1. PICK want \in Wants : \E left \in 0 .. NextWindow(want, file.end - offset) + 1 :
          current' = [held |-> FALSE, requested |-> NextWindow(want, file.end - offset),
                      received |-> 0, left |-> left]
    BY <1>2 DEF StartWindow
  <2>2. /\ NextWindow(want, file.end - offset) \in Nat
        /\ NextWindow(want, file.end - offset) \in 1 .. Cap
        /\ offset + NextWindow(want, file.end - offset) <= file.end
    BY <1>1, DownloadAssumption DEF NextWindow, Smaller
  <2> DEFINE len == NextWindow(want, file.end - offset)
  <2> HIDE DEF len
  <2>3. PICK left \in 0 .. len + 1 :
          current' = [held |-> FALSE, requested |-> len, received |-> 0, left |-> left]
    BY <2>1 DEF len
  <2>4. len \in Nat /\ len \in 1 .. Cap /\ offset + len <= file.end /\ left \in Nat
    BY <2>2, <2>3 DEF len
  <2>5. /\ current' \in Reads /\ current'.held = FALSE /\ current'.requested = len
        /\ current'.received = 0
    BY <2>3, <2>4 DEF Reads
  <2>6. current' # NoRead
    BY <2>4, <2>5, NoReadFields
  <2>7. stage' = "body" /\ UNCHANGED <<file, offset, chunk, done, delivered, result>>
    BY <1>2 DEF StartWindow
  <2> QED BY <1>1, <2>4, <2>5, <2>6, <2>7, StartedKeeps
<1>3. CASE StartHeldOpen
  <2>1. file.held
    <3> SUFFICES ASSUME ~file.held PROVE FALSE
      OBVIOUS
    <3>1. ~CanReadPartiallyAt(offset)
      BY <1>3 DEF StartHeldOpen, Windowed
    <3>2. offset = 0 /\ WholeFile(file)
      BY <1>3, <3>1 DEF StartHeldOpen, Full
    <3>3. file.ops # "none"
      BY <1>1, <3>2 DEF DownloadShape
    <3>4. 0 <= NarrowLimit
      BY DownloadAssumption
    <3> QED BY <3>1, <3>2, <3>3, <3>4, RangeFields DEF CanReadPartiallyAt, DownloadShape
  <2> DEFINE r == file.end - offset
             m == IF Full THEN r ELSE Smaller(r, Cap)
  <2>2. r \in Nat /\ m \in Nat
    BY <1>1, DownloadAssumption DEF Smaller
  <2>3. PICK left \in 0 .. m + 1 :
          current' = [held |-> TRUE, requested |-> r, received |-> 0, left |-> left]
    BY <1>3 DEF StartHeldOpen
  <2> HIDE DEF r, m
  <2>4. current' \in Reads /\ current'.held = TRUE
    BY <2>2, <2>3 DEF Reads
  <2>5. current' # NoRead
    BY <2>4, NoReadFields
  <2>6. stage' \in {"caller", "body"} /\ UNCHANGED <<file, offset, chunk, done, delivered, result>>
    BY <1>3 DEF StartHeldOpen
  <2> QED BY <1>1, <2>1, <2>4, <2>5, <2>6, StartedKeeps
<1>4. CASE StartUnsupported \/ StartFails
  BY <1>1, <1>4, FailKeeps DEF StartUnsupported, StartFails
<1> QED BY <1>2, <1>3, <1>4

(* Bytes that stay in the range extend what was delivered. *)
LEMMA YieldKeeps ==
  ASSUME DownloadInv, BodyYields
  PROVE  DownloadInv'
<1> USE DEF DownloadInv
<1>1. /\ stage = "body" /\ ~done /\ chunk = {} /\ current \in Reads /\ current # NoRead
      /\ offset \in Nat /\ file.start \in Nat /\ file.end \in Nat /\ file.start <= offset
      /\ current.left \in Nat /\ current.received \in Nat /\ current.requested \in Nat
      /\ current.held \in BOOLEAN
  BY RangeFields, ReadFields DEF BodyYields, DownloadShape, StageInv, DeliveryInv
<1>2. PICK n \in 1 .. current.left :
        LET read == [current EXCEPT !.received = @ + n, !.left = @ - n]
        IN  /\ offset' = offset + n
            /\ CASE ~read.held /\ read.received > read.requested ->
                      Fail /\ UNCHANGED <<chunk, delivered>>
                 [] ~read.held /\ read.received = read.requested ->
                      /\ current' = read /\ chunk' = TakeChunk(n) /\ stage' = "close"
                      /\ UNCHANGED <<done, delivered, result>>
                 [] OTHER ->
                      /\ current' = read /\ delivered' = delivered \cup TakeChunk(n)
                      /\ Return("chunk") /\ UNCHANGED <<chunk, done>>
  BY DEF BodyYields
<1>3. n \in Nat /\ n > 0 /\ n <= current.left /\ offset' = offset + n /\ UNCHANGED file
  BY <1>1, <1>2 DEF BodyYields
<1> DEFINE read == [current EXCEPT !.received = current.received + n, !.left = current.left - n]
<1>4. /\ read \in Reads /\ read.held = current.held /\ read.requested = current.requested
      /\ read.received = current.received + n
  <2>1. current.received + n \in Nat /\ current.left - n \in Nat
    BY <1>1, <1>3
  <2> QED BY <1>1, <2>1 DEF Reads
<1>5. \/ Fail /\ UNCHANGED <<chunk, delivered>>
      \/ /\ ~read.held /\ read.received = read.requested
         /\ current' = read /\ chunk' = TakeChunk(n) /\ stage' = "close"
         /\ UNCHANGED <<done, delivered, result>>
      \/ /\ read.held \/ ~(read.received > read.requested \/ read.received = read.requested)
         /\ current' = read /\ delivered' = delivered \cup TakeChunk(n)
         /\ Return("chunk") /\ UNCHANGED <<chunk, done>>
  BY <1>2
<1> HIDE DEF read
<1>6. read # NoRead
  BY <1>1, <1>3, <1>4, NoReadFields
<1>7. CASE Fail /\ UNCHANGED <<chunk, delivered>>
  <2>1. offset' \in Nat /\ offset' >= offset
    BY <1>1, <1>3
  <2> QED BY <1>1, <1>3, <1>7, <2>1, FailKeeps
<1>8. CASE /\ ~read.held /\ read.received = read.requested
           /\ current' = read /\ chunk' = TakeChunk(n) /\ stage' = "close"
           /\ UNCHANGED <<done, delivered, result>>
  <2>1. DownloadShape'
    BY <1>1, <1>3, <1>4, <1>8 DEF DownloadShape, WholeFile
  <2>2. /\ current.requested \in 1 .. Cap
        /\ offset + current.requested <= file.end + current.received
    BY <1>1, <1>4, <1>8 DEF WindowInv
  <2>3. offset' + read.requested <= file.end + read.received /\ offset' <= file.end
    BY <1>1, <1>3, <1>4, <1>8, <2>2
  <2>4. WindowInv'
    BY <1>1, <1>3, <1>4, <1>8, <2>2, <2>3, DownloadAssumption DEF WindowInv
  <2>5. StageInv'
    BY <1>1, <1>3, <1>4, <1>6, <1>8 DEF StageInv
  <2>6. chunk' = offset .. offset' - 1
    BY <1>1, <1>3, <1>8 DEF TakeChunk
  <2>7. ASSUME NEW d \in Nat, DeliveredTo(d) PROVE DeliveredTo(d)'
    BY <1>1, <1>3, <1>8, <2>6, <2>7 DEF DeliveredTo
  <2>8. DeliveryInv'
    BY <1>1, <1>3, <1>8, <2>3, <2>6, <2>7 DEF DeliveryInv
  <2> QED BY <2>1, <2>4, <2>5, <2>8
<1>9. CASE /\ read.held \/ ~(read.received > read.requested \/ read.received = read.requested)
           /\ current' = read /\ delivered' = delivered \cup TakeChunk(n)
           /\ Return("chunk") /\ UNCHANGED <<chunk, done>>
  <2>1. stage' = "caller" /\ result' = "chunk"
    BY <1>9 DEF Return
  <2>2. DownloadShape'
    BY <1>1, <1>3, <1>4, <1>9, <2>1 DEF DownloadShape, WholeFile
  <2>3. ~current.held => /\ current.requested \in 1 .. Cap
                         /\ offset + current.requested <= file.end + current.received
                         /\ current.received + n < current.requested
    BY <1>1, <1>3, <1>4, <1>9 DEF WindowInv
  <2>4. ~current.held => offset' + read.requested <= file.end + read.received /\ offset' <= file.end
    BY <1>1, <1>3, <1>4, <2>3
  <2>5. WindowInv'
    BY <1>1, <1>3, <1>4, <1>9, <2>3, <2>4, DownloadAssumption DEF WindowInv
  <2>6. StageInv'
    BY <1>1, <1>3, <1>4, <1>9, <2>1 DEF StageInv
  <2>7. delivered' = delivered \cup (offset .. offset' - 1)
    BY <1>1, <1>3, <1>9 DEF TakeChunk
  <2>8. file.patient => DeliveredTo(offset)'
    <3> SUFFICES ASSUME file.patient PROVE DeliveredTo(offset)'
      OBVIOUS
    <3>1. PICK d \in Nat : DeliveredTo(d)
      BY DEF DeliveryInv
    <3>2. delivered = file.start .. offset - 1
      BY <1>1, <3>1 DEF DeliveredTo
    <3>3. delivered' = file.start .. offset' - 1
      BY <1>1, <1>3, <2>7, <3>2
    <3> QED BY <1>1, <1>3, <2>1, <3>3 DEF DeliveredTo
  <2>9. delivered' \subseteq Nat /\ offset' \in Nat
    BY <1>1, <1>3, <2>7 DEF DeliveryInv
  <2>10. ~file.held => delivered' \subseteq file.start .. file.end - 1
    BY <1>1, <1>3, <2>4, <2>7 DEF DeliveryInv, StageInv
  <2>11. DeliveryInv'
    BY <1>1, <1>3, <1>9, <2>1, <2>8, <2>9, <2>10 DEF DeliveryInv
  <2> QED BY <2>2, <2>5, <2>6, <2>11
<1> QED BY <1>5, <1>7, <1>8, <1>9

LEMMA BodyKeeps ==
  ASSUME DownloadInv, BodyFails \/ BodyEnds
  PROVE  DownloadInv'
<1> USE DEF DownloadInv
<1>1. stage = "body" /\ ~done /\ chunk = {} /\ offset \in Nat
  BY DEF BodyFails, BodyEnds, StageInv, DeliveryInv, DownloadShape
<1>2. CASE Fail /\ UNCHANGED <<file, offset, chunk, delivered>>
  BY <1>1, <1>2, FailKeeps
<1>3. CASE current' = NoRead /\ NextReadOrEnd /\ UNCHANGED <<file, offset, chunk, delivered>>
  BY <1>1, <1>3, LoopKeeps
<1> QED BY <1>2, <1>3 DEF BodyFails, BodyEnds

LEMMA CloseKeeps ==
  ASSUME DownloadInv, CloseWindow
  PROVE  DownloadInv'
<1> USE DEF DownloadInv
<1>1. /\ stage = "close" /\ ~done /\ offset \in Nat /\ file.start \in Nat /\ file.end \in Nat
      /\ file.start <= offset
  BY RangeFields DEF CloseWindow, StageInv, DownloadShape
<1>2. /\ current' = NoRead /\ delivered' = delivered \cup chunk /\ chunk' = {}
      /\ stage' = "caller" /\ result' = "chunk" /\ UNCHANGED <<file, offset, done>>
  BY DEF CloseWindow, Return
<1>3. DownloadShape' /\ WindowInv' /\ StageInv'
  BY <1>1, <1>2, NoReadFields DEF DownloadShape, WholeFile, WindowInv, StageInv
<1>4. file.patient => DeliveredTo(offset)'
  <2> SUFFICES ASSUME file.patient PROVE DeliveredTo(offset)'
    OBVIOUS
  <2>1. PICK d \in Nat : DeliveredTo(d)
    BY DEF DeliveryInv
  <2>2. delivered' = (file.start .. d - 1) \cup (d .. offset - 1) /\ file.start <= d /\ d <= offset
    BY <1>1, <1>2, <2>1 DEF DeliveredTo
  <2>3. delivered' = file.start .. offset - 1
    BY <1>1, <2>2
  <2> QED BY <1>1, <1>2, <2>3 DEF DeliveredTo
<1>5. delivered' \subseteq Nat
  BY <1>1, <1>2 DEF DeliveryInv
<1>6. DeliveryInv'
  BY <1>1, <1>2, <1>4, <1>5 DEF DeliveryInv
<1> QED BY <1>3, <1>6

LEMMA DropKeeps ==
  ASSUME DownloadInv, DropAskChunk
  PROVE  DownloadInv'
<1> USE DEF DownloadInv
<1>1. /\ stage' = "caller" /\ chunk' = {} /\ UNCHANGED <<file, offset, done, delivered, result>>
      /\ stage \in {"start", "body", "close"} /\ (stage = "close" => ~file.patient /\ current' = NoRead)
      /\ (stage # "close" => current' = current)
  BY DEF DropAskChunk
<1>2. DownloadShape' /\ WindowInv' /\ StageInv'
  BY <1>1, NoReadFields DEF DownloadShape, WholeFile, WindowInv, StageInv
<1>3. ASSUME NEW d \in Nat, DeliveredTo(d), stage # "close" PROVE DeliveredTo(d)'
  BY <1>1, <1>3 DEF DeliveredTo
<1>4. DeliveryInv'
  BY <1>1, <1>3 DEF DeliveryInv
<1> QED BY <1>2, <1>4

LEMMA DownloadStarts == DownloadInit => DownloadInv
<1> USE DEF DownloadInv
<1> SUFFICES ASSUME DownloadInit PROVE DownloadInv
  OBVIOUS
<1>1. PICK f \in Ranges :
        file = [f EXCEPT !.held = @ \/ (WholeFile(f) /\ f.end > 0 /\
                 ~(f.ops = "wide" \/ (f.ops = "narrow" /\ f.end - 1 <= NarrowLimit)))]
  BY DEF DownloadInit
<1> DEFINE h == f.held \/ (WholeFile(f) /\ f.end > 0 /\
                  ~(f.ops = "wide" \/ (f.ops = "narrow" /\ f.end - 1 <= NarrowLimit)))
<1>2. h \in BOOLEAN /\ file = [f EXCEPT !.held = h]
  BY <1>1
<1>3. h \/ ~WholeFile(f) \/ ~(f.end > 0) \/ f.ops # "none"
  OBVIOUS
<1> HIDE DEF h
<1>4. /\ file \in Ranges /\ file.held = h /\ file.size = f.size /\ file.start = f.start
      /\ file.end = f.end /\ file.ops = f.ops
  BY <1>2 DEF Ranges
<1>5. file.start \in Nat /\ file.end \in Nat /\ file.start <= file.end
  BY <1>4, RangeFields
<1>6. file.held \/ ~WholeFile(file) \/ file.end = 0 \/ file.ops # "none"
  BY <1>3, <1>4, <1>5 DEF WholeFile
<1>7. /\ offset = file.start /\ current = NoRead /\ chunk = {} /\ done = FALSE
      /\ stage \in {"caller", "start"} /\ (stage = "start" => file.start < file.end)
      /\ delivered = {} /\ result = "none"
  BY DEF DownloadInit, StartsHeldOpen
<1>8. DownloadShape /\ WindowInv /\ StageInv
  <2>1. DownloadShape
    <3>1. offset \in Nat /\ offset >= file.start
      BY <1>5, <1>7
    <3>2. current \in Reads /\ done \in BOOLEAN /\ stage \in {"caller", "start", "body", "close"}
          /\ result \in {"none", "chunk", "end", "error", "cancelled"}
      BY <1>7, NoReadFields
    <3> QED BY <1>4, <1>6, <3>1, <3>2 DEF DownloadShape
  <2> QED BY <1>7, <2>1, NoReadFields DEF WindowInv, StageInv
<1>9. DeliveredTo(file.start)
  BY <1>5, <1>7 DEF DeliveredTo
<1>10. DeliveryInv
  BY <1>5, <1>7, <1>9 DEF DeliveryInv
<1> QED BY <1>8, <1>10

LEMMA DownloadKeeps == DownloadInv /\ [DownloadNext]_downloadVars => DownloadInv'
<1> USE DEF DownloadInv
<1> SUFFICES ASSUME DownloadInv, [DownloadNext]_downloadVars PROVE DownloadInv'
  OBVIOUS
<1>1. CASE CloseFails
  BY <1>1, FailKeeps DEF CloseFails, StageInv, DownloadShape
<1>2. CASE CancelDownload
  BY <1>2, StopKeeps DEF CancelDownload, Return, DownloadShape, DeliveryInv
<1>3. CASE UNCHANGED downloadVars
  <2>1. ASSUME NEW d \in Nat, DeliveredTo(d) PROVE DeliveredTo(d)'
    BY <1>3, <2>1 DEF downloadVars, DeliveredTo
  <2>2. DeliveryInv'
    BY <1>3, <2>1 DEF downloadVars, DeliveryInv
  <2> QED BY <1>3, <2>2 DEF downloadVars, DownloadShape, WholeFile, WindowInv, StageInv
<1> QED BY <1>1, <1>2, <1>3, AskKeeps, StartKeeps, YieldKeeps, BodyKeeps, CloseKeeps, DropKeeps
        DEF DownloadNext, DownloadStep

LEMMA DownloadInvHolds == DownloadSpec => []DownloadInv
BY DownloadStarts, DownloadKeeps, PTL DEF DownloadSpec

(* FileDownload over windows and held-open reads, for objects, windows and limits of any
   size: whatever short, empty or oversized reads the device serves and whichever futures are
   dropped, a caller that lets windows close gets the range without a hole, and all of it
   before the end is reported. *)
THEOREM DownloadsAreExact == DownloadSpec => []DownloadIsExact
<1>1. DownloadInv => DownloadIsExact
  <2> SUFFICES ASSUME DownloadInv PROVE DownloadIsExact
    OBVIOUS
  <2> USE DEF DownloadInv
  <2>1. /\ file.start \in Nat /\ file.end \in Nat /\ offset \in Nat
        /\ current.received \in Nat /\ current.requested \in Nat
    BY RangeFields, ReadFields DEF DownloadShape
  <2>2. ASSUME file.patient
        PROVE  /\ delivered = file.start .. file.start + Cardinality(delivered) - 1
               /\ result = "end" => file.start .. file.end - 1 \subseteq delivered
    <3>1. PICK d \in Nat : DeliveredTo(d)
      BY <2>2 DEF DeliveryInv
    <3>2. file.start <= d /\ delivered = file.start .. d - 1 /\ (result = "end" => d >= file.end)
      BY <3>1 DEF DeliveredTo
    <3>3. Cardinality(file.start .. d - 1) = d - file.start
      <4>1. file.start \in Int /\ d - 1 \in Int
        BY <2>1
      <4>2. Cardinality(file.start .. d - 1)
              = IF file.start > d - 1 THEN 0 ELSE (d - 1) - file.start + 1
        BY <4>1, FS_Interval
      <4> QED BY <2>1, <3>2, <4>2
    <3> QED BY <2>1, <3>2, <3>3
  <2>3. DeliversRange
    BY <2>2 DEF DeliversRange, DeliveryInv
  <2>4. WindowsMakeProgress
    BY <2>1 DEF WindowsMakeProgress, StageInv, WindowInv
  <2>5. FreeAfterWindow
    BY DEF FreeAfterWindow, WindowInv
  <2> QED BY <2>3, <2>4, <2>5 DEF DownloadIsExact
<1> QED BY <1>1, DownloadInvHolds, PTL
-----------------------------------------------------------------------------
(***************************************************************************)
(* The bytes sent are a fold over the transfers.  It is the function that  *)
(* the fold's recursion describes: there is one on the sets of indices,    *)
(* and its value depends on the lengths alone, so that a transfer more     *)
(* adds its length.                                                        *)
(***************************************************************************)

(* A set of numbers that is finite has a least. *)
LEMMA LeastNumber ==
  ASSUME NEW S \in SUBSET Nat, IsFiniteSet(S), S # {}
  PROVE  \E m \in S : \A k \in S : m <= k
<1> DEFINE L(x) == {y \in S : y < x}
           n == Cardinality(S)
           r == [x \in S |-> Cardinality(L(x))]
<1>1. SUFFICES ASSUME \A m \in S : L(m) # {} PROVE FALSE
  <2>1. ASSUME NEW m \in S, L(m) = {} PROVE \A k \in S : m <= k
    <3>1. TAKE k \in S
    <3>2. m \in Nat /\ k \in Nat /\ ~(k < m)
      BY <2>1, <3>1
    <3> QED BY <3>2
  <2> QED BY <2>1
<1>2. n \in Nat
  BY FS_CardinalityType
<1>3. ASSUME NEW x \in S
      PROVE  IsFiniteSet(L(x)) /\ Cardinality(L(x)) \in 1 .. n - 1
  <2>1. L(x) \in SUBSET S /\ x \notin L(x)
    OBVIOUS
  <2>2. IsFiniteSet(L(x)) /\ Cardinality(L(x)) <= n /\ Cardinality(L(x)) # n
    BY <2>1, FS_Subset
  <2>3. Cardinality(L(x)) \in Nat
    BY <2>2, FS_CardinalityType
  <2>4. Cardinality(L(x)) # 0
    BY <1>1, <2>2, FS_EmptySet
  <2> QED BY <1>2, <2>2, <2>3, <2>4
<1>4. ASSUME NEW x \in S, NEW y \in S, x < y
      PROVE  Cardinality(L(x)) # Cardinality(L(y))
  <2>1. x \in Nat /\ y \in Nat
    OBVIOUS
  <2>2. L(x) \in SUBSET L(y)
    <3>1. SUFFICES ASSUME NEW z \in S, z < x PROVE z < y
      OBVIOUS
    <3>2. z \in Nat
      BY <3>1
    <3> QED BY <1>4, <2>1, <3>1, <3>2
  <2>3. x \in L(y) /\ x \notin L(x)
    BY <1>4, <2>1
  <2>4. IsFiniteSet(L(y))
    BY <1>3
  <2> QED BY <2>2, <2>3, <2>4, FS_Subset
<1> HIDE DEF L
<1>5. IsFiniteSet(1 .. n - 1) /\ Cardinality(1 .. n - 1) < n
  <2>1. n # 0
    BY FS_EmptySet
  <2>2. 1 \in Int /\ n - 1 \in Int
    BY <1>2
  <2> HIDE DEF n
  <2>3. IsFiniteSet(1 .. n - 1) /\ Cardinality(1 .. n - 1) = IF 1 > n - 1 THEN 0 ELSE (n - 1) - 1 + 1
    BY <2>2, FS_Interval
  <2> QED BY <1>2, <2>1, <2>3
<1>6. r \in [S -> 1 .. n - 1]
  BY <1>3
<1>7. PICK x \in S, y \in S : x # y /\ r[x] = r[y]
  <2> HIDE DEF r, n
  <2> QED BY <1>5, <1>6, FS_PigeonHole DEF n
<1>8. Cardinality(L(x)) = Cardinality(L(y))
  BY <1>7
<1>9. x < y \/ y < x
  <2>1. x \in Nat /\ y \in Nat
    OBVIOUS
  <2> QED BY <1>7, <2>1
<1> QED BY <1>4, <1>8, <1>9

(* Induction, for a set of numbers. *)
LEMMA Induct ==
  ASSUME NEW S, 0 \in S, \A n \in Nat : n \in S => n + 1 \in S
  PROVE  \A n \in Nat : n \in S
<1> SUFFICES ASSUME NEW n \in Nat, n \notin S PROVE FALSE
  OBVIOUS
<1> DEFINE T == {k \in 0 .. n : k \notin S}
<1>1. T \in SUBSET Nat /\ n \in T
  OBVIOUS
<1>2. IsFiniteSet(0 .. n)
  BY FS_Interval
<1>3. IsFiniteSet(T)
  BY <1>2, FS_Subset
<1> HIDE DEF T
<1>4. PICK m \in T : \A k \in T : m <= k
  BY <1>1, <1>3, LeastNumber
<1> USE DEF T
<1>5. m \in Nat /\ m # 0 /\ m <= n /\ m \notin S
  BY <1>4
<1>6. m - 1 \in 0 .. n /\ m - 1 \notin T
  BY <1>4, <1>5
<1> QED BY <1>5, <1>6

(* The sum of a sequence, and the sums of the sets of its indices. *)
Sent(q) == FoldLeft(LAMBDA a, n : a + n, 0, q)

Sums(q, f) ==
  f = [t \in SUBSET DOMAIN q |-> IF t = {} THEN 0 ELSE f[t \ {Max(t)}] + q[Max(t)]]

LEMMA MaxIs ==
  ASSUME NEW n \in Nat, NEW t \in SUBSET (1 .. n), t # {}
  PROVE  Max(t) \in t /\ \A k \in t : k <= Max(t)
<1> DEFINE S == {j \in 0 .. n : n - j \in t}
<1>0. \A k \in t : k \in Nat /\ k <= n
  OBVIOUS
<1>1. S \in SUBSET Nat /\ S # {}
  <2>1. PICK k \in t : TRUE
    OBVIOUS
  <2>2. k \in Nat /\ k <= n /\ n - k \in 0 .. n /\ n - (n - k) = k
    BY <1>0
  <2>3. n - k \in S
    BY <2>1, <2>2
  <2> QED BY <2>3
<1>2. IsFiniteSet(S)
  <2>1. IsFiniteSet(0 .. n)
    BY FS_Interval
  <2> QED BY <2>1, FS_Subset
<1> HIDE DEF S
<1>3. PICK m \in S : \A k \in S : m <= k
  BY <1>1, <1>2, LeastNumber
<1>4. m \in 0 .. n /\ n - m \in t
  BY <1>3 DEF S
<1>5. ASSUME NEW j \in t PROVE j <= n - m
  <2>1. j \in Nat /\ j <= n
    BY <1>0
  <2>2. n - j \in S
    BY <2>1 DEF S
  <2> QED BY <1>3, <1>4, <2>1, <2>2
<1> QED BY <1>4, <1>5 DEF Max

LEMMA SentIs ==
  ASSUME NEW q \in Seq(Nat)
  PROVE  Sent(q) = (CHOOSE f : Sums(q, f))[DOMAIN q]
BY DEF Sent, FoldLeft, MapThenFoldSet, Sums

LEMMA MaxOfUpto ==
  ASSUME NEW n \in Nat
  PROVE  /\ 1 .. n + 1 # {} /\ Max(1 .. n + 1) = n + 1 /\ (1 .. n + 1) \ {n + 1} = 1 .. n
<1> DEFINE t == 1 .. n + 1
<1>1. n + 1 \in Nat /\ n + 1 \in t
  OBVIOUS
<1>2. \A j \in t : j \in Nat /\ j <= n + 1
  OBVIOUS
<1>3. t \ {n + 1} = 1 .. n
  OBVIOUS
<1>4. t # {} /\ t \in SUBSET (1 .. n + 1)
  BY <1>1
<1> HIDE DEF t
<1>5. Max(t) \in t /\ \A j \in t : j <= Max(t)
  BY <1>1, <1>4, MaxIs
<1>6. Max(t) = n + 1
  BY <1>1, <1>2, <1>5
<1> QED BY <1>3, <1>4, <1>6 DEF t

LEMMA SumStep ==
  ASSUME NEW q, NEW f, Sums(q, f), NEW n \in Nat, 1 .. n + 1 \in SUBSET DOMAIN q
  PROVE  f[1 .. n + 1] = f[1 .. n] + q[n + 1]
<1> DEFINE t == 1 .. n + 1
<1>1. t # {} /\ Max(t) = n + 1 /\ t \ {n + 1} = 1 .. n
  BY MaxOfUpto
<1>2. t \in SUBSET DOMAIN q
  OBVIOUS
<1> HIDE DEF t
<1>3. f[t] = f[t \ {Max(t)}] + q[Max(t)]
  BY <1>1, <1>2 DEF Sums
<1>4. f[t \ {Max(t)}] = f[1 .. n] /\ q[Max(t)] = q[n + 1]
  BY <1>1
<1>5. f[t] = f[1 .. n] + q[n + 1]
  BY <1>3, <1>4
<1> QED BY <1>5 DEF t

(* There are such sums: those of sets with n + 1 come from those without it. *)
LEMMA SumsExist ==
  ASSUME NEW q \in Seq(Nat)
  PROVE  \E f : Sums(q, f)
<1> DEFINE Upto(n, f) == f = [t \in SUBSET (1 .. n) |->
                                IF t = {} THEN 0 ELSE f[t \ {Max(t)}] + q[Max(t)]]
           S == {n \in Nat : \E f : Upto(n, f)}
<1>1. 0 \in S
  <2> DEFINE f == [t \in SUBSET (1 .. 0) |-> 0]
  <2>1. \A t \in SUBSET (1 .. 0) : t = {}
    OBVIOUS
  <2>2. Upto(0, f)
    BY <2>1
  <2> HIDE DEF f, Upto
  <2> QED BY <2>2
<1>2. ASSUME NEW n \in Nat, n \in S PROVE n + 1 \in S
  <2>1. PICK g : Upto(n, g)
    BY <1>2
  <2> DEFINE f == [t \in SUBSET (1 .. n + 1) |->
                     IF n + 1 \in t THEN g[t \ {n + 1}] + q[n + 1] ELSE g[t]]
  <2>2. ASSUME NEW t \in SUBSET (1 .. n + 1)
        PROVE  f[t] = IF t = {} THEN 0 ELSE f[t \ {Max(t)}] + q[Max(t)]
    <3>0. \A u \in SUBSET (1 .. n) : u \in SUBSET (1 .. n + 1) /\ n + 1 \notin u
      OBVIOUS
    <3>1. CASE t = {}
      <4>1. {} \in SUBSET (1 .. n) /\ g[{}] = 0
        BY <2>1
      <4> QED BY <3>1, <4>1
    <3>2. CASE n + 1 \in t
      <4>0. n + 1 \in Nat /\ t # {}
        BY <3>2
      <4>1. t # {} /\ Max(t) \in t /\ \A k \in t : k <= Max(t)
        <5> HIDE DEF f
        <5> QED BY <4>0, MaxIs
      <4>2. Max(t) = n + 1
        <5>1. Max(t) \in 1 .. n + 1 /\ n + 1 <= Max(t)
          BY <3>2, <4>1
        <5> HIDE DEF f
        <5> QED BY <5>1
      <4>3. t \ {n + 1} \in SUBSET (1 .. n)
        <5> HIDE DEF f
        <5> QED BY <2>2
      <4>4. f[t \ {n + 1}] = g[t \ {n + 1}]
        BY <3>0, <4>3
      <4>5. f[t] = g[t \ {n + 1}] + q[n + 1]
        BY <3>2
      <4> HIDE DEF f
      <4> QED BY <4>1, <4>2, <4>4, <4>5
    <3>3. CASE n + 1 \notin t /\ t # {}
      <4>1. t \in SUBSET (1 .. n)
        <5> HIDE DEF f
        <5> QED BY <2>2, <3>3
      <4>2. g[t] = g[t \ {Max(t)}] + q[Max(t)]
        BY <2>1, <3>3, <4>1
      <4>3. t \ {Max(t)} \in SUBSET (1 .. n)
        BY <4>1
      <4>4. f[t] = g[t] /\ f[t \ {Max(t)}] = g[t \ {Max(t)}]
        BY <3>0, <3>3, <4>1, <4>3
      <4> HIDE DEF f
      <4> QED BY <3>3, <4>2, <4>4
    <3> QED BY <3>1, <3>2, <3>3
  <2>3. f = [t \in SUBSET (1 .. n + 1) |-> f[t]]
    OBVIOUS
  <2> HIDE DEF f
  <2>4. Upto(n + 1, f)
    BY <2>2, <2>3
  <2> HIDE DEF Upto
  <2> QED BY <2>4
<1>3. Len(q) \in Nat /\ DOMAIN q = 1 .. Len(q)
  OBVIOUS
<1> HIDE DEF S
<1>4. Len(q) \in S
  BY <1>1, <1>2, <1>3, Induct
<1> QED BY <1>3, <1>4 DEF S, Sums

(* A sum depends on the elements only. *)
LEMMA SumsAgree ==
  ASSUME NEW q \in Seq(Nat), NEW r \in Seq(Nat), NEW f, NEW g, Sums(q, f), Sums(r, g),
         NEW n \in Nat, n <= Len(q), n <= Len(r), \A i \in 1 .. n : q[i] = r[i]
  PROVE  f[1 .. n] = g[1 .. n] /\ f[1 .. n] \in Nat
<1> DEFINE S == {k \in Nat : k <= n => f[1 .. k] = g[1 .. k] /\ f[1 .. k] \in Nat}
<1>1. /\ Len(q) \in Nat /\ DOMAIN q = 1 .. Len(q)
      /\ Len(r) \in Nat /\ DOMAIN r = 1 .. Len(r)
      /\ \A i \in 1 .. Len(q) : q[i] \in Nat
  OBVIOUS
<1>2. ASSUME NEW k \in Nat, k <= Len(q), k <= Len(r)
      PROVE  1 .. k \in SUBSET DOMAIN q /\ 1 .. k \in SUBSET DOMAIN r
  BY <1>1, <1>2
<1>3. 0 \in S
  <2>1. 1 .. 0 = {} /\ {} \in SUBSET DOMAIN q /\ {} \in SUBSET DOMAIN r
    OBVIOUS
  <2>2. f[{}] = 0 /\ g[{}] = 0
    BY <2>1 DEF Sums
  <2> QED BY <2>1, <2>2
<1>4. ASSUME NEW k \in Nat, k \in S PROVE k + 1 \in S
  <2>1. SUFFICES ASSUME k + 1 <= n
                 PROVE  f[1 .. k + 1] = g[1 .. k + 1] /\ f[1 .. k + 1] \in Nat
    BY <1>4
  <2>5. 1 .. k + 1 \in SUBSET DOMAIN q /\ 1 .. k + 1 \in SUBSET DOMAIN r
    BY <1>1, <1>2, <2>1
  <2>6. f[1 .. k + 1] = f[1 .. k] + q[k + 1] /\ g[1 .. k + 1] = g[1 .. k] + r[k + 1]
    BY <2>5, SumStep
  <2>7. q[k + 1] = r[k + 1] /\ q[k + 1] \in Nat
    BY <1>1, <2>1
  <2>8. f[1 .. k] = g[1 .. k] /\ f[1 .. k] \in Nat
    BY <1>4, <2>1
  <2> QED BY <2>6, <2>7, <2>8
<1> HIDE DEF S
<1>5. n \in S
  BY <1>3, <1>4, Induct
<1> QED BY <1>5 DEF S

(* The sum of one transfer more. *)
LEMMA SentGrows ==
  ASSUME NEW q \in Seq(Nat), NEW n \in Nat
  PROVE  Sent(<<>>) = 0 /\ Sent(q) \in Nat /\ Sent(Append(q, n)) = Sent(q) + n
<1> DEFINE r == Append(q, n)
           F(p) == CHOOSE f : Sums(p, f)
<1>1. /\ r \in Seq(Nat) /\ Len(q) \in Nat /\ DOMAIN q = 1 .. Len(q)
      /\ Len(r) = Len(q) + 1 /\ DOMAIN r = 1 .. Len(q) + 1
      /\ r[Len(q) + 1] = n /\ \A i \in 1 .. Len(q) : r[i] = q[i]
  OBVIOUS
<1>2. <<>> \in Seq(Nat) /\ DOMAIN <<>> = {}
  OBVIOUS
<1>3. \A p \in Seq(Nat) : Sums(p, F(p))
  BY SumsExist
<1>4. \A p \in Seq(Nat) : Sent(p) = F(p)[DOMAIN p]
  BY SentIs
<1> HIDE DEF F, r
<1>5. Sent(<<>>) = 0
  <2>1. Sums(<<>>, F(<<>>)) /\ {} \in SUBSET DOMAIN <<>>
    BY <1>2, <1>3
  <2> QED BY <2>1, <1>2, <1>4 DEF Sums
<1>6. F(q)[1 .. Len(q)] = F(r)[1 .. Len(q)] /\ F(q)[1 .. Len(q)] \in Nat
  BY <1>1, <1>3, SumsAgree, SMTT(30)
<1>7. F(r)[1 .. Len(q) + 1] = F(r)[1 .. Len(q)] + r[Len(q) + 1]
  <2>1. Sums(r, F(r)) /\ 1 .. Len(q) + 1 \in SUBSET DOMAIN r
    BY <1>1, <1>3
  <2> QED BY <1>1, <2>1, SumStep
<1>8. Sent(r) = F(r)[1 .. Len(q) + 1] /\ Sent(q) = F(q)[1 .. Len(q)]
  BY <1>1, <1>4
<1> QED BY <1>1, <1>5, <1>6, <1>7, <1>8 DEF r

(* Every byte fed is in a transfer, in the buffer or in the chunk. *)
SentInv == fed = Sent(received) + sender.buf + sender.rest

LEMMA SentStarts == SendInit => SentInv
<1>1. Sent(<<>>) = 0
  <2>1. <<>> \in Seq(Nat) /\ 0 \in Nat
    OBVIOUS
  <2> QED BY <2>1, SentGrows
<1> QED BY <1>1 DEF SendInit, SentInv

LEMMA SentOneMore ==
  ASSUME SendShape, SentInv, NEW n \in Nat, received' = Append(received, n),
         sender' \in Senders, UNCHANGED fed,
         sender'.buf + sender'.rest + n = sender.buf + sender.rest
  PROVE  SentInv'
<1>1. PICK a \in Nat : a = Sent(received) /\ Sent(received') = a + n
  <2>1. Sent(received) \in Nat /\ Sent(Append(received, n)) = Sent(received) + n
    BY SentGrows DEF SendShape
  <2> QED BY <2>1
<1>2. /\ sender.buf \in Nat /\ sender.rest \in Nat /\ sender'.buf \in Nat /\ sender'.rest \in Nat
  BY SenderFields DEF SendShape
<1>3. fed = a + sender.buf + sender.rest
  BY <1>1 DEF SentInv
<1>4. a + sender.buf + sender.rest = (a + n) + sender'.buf + sender'.rest
  <2>1. ASSUME NEW b \in Nat, NEW r \in Nat, NEW c \in Nat, NEW e \in Nat, c + e + n = b + r
        PROVE  a + b + r = (a + n) + c + e
    BY <2>1
  <2>2. sender'.buf + sender'.rest + n = sender.buf + sender.rest
    OBVIOUS
  <2> QED BY ONLY <1>2, <2>1, <2>2
<1>5. fed' = (a + n) + sender'.buf + sender'.rest
  BY <1>3, <1>4
<1> QED BY <1>1, <1>5 DEF SentInv

LEMMA SentTheSame ==
  ASSUME SentInv, UNCHANGED <<fed, received>>,
         sender'.buf = sender.buf, sender'.rest = sender.rest
  PROVE  SentInv'
BY DEF SentInv

LEMMA SentKeeps == SendInv /\ SentInv /\ [SendNext]_sendVars => SentInv'
<1> SUFFICES ASSUME SendInv, SentInv, [SendNext]_sendVars PROVE SentInv'
  OBVIOUS
<1>1. /\ sender \in Senders /\ sender.buf \in Nat /\ sender.rest \in Nat /\ fed \in Nat
      /\ received \in Seq(Nat) /\ sender.buf < TransferSize /\ SendShape
  BY SenderFields DEF SendInv, SendShape
<1>2. TransferSize \in Nat /\ TransferSize > 0
  BY WholeTransfers DEF FullPackets
<1>3. Sent(received) \in Nat /\ Sent(<<>>) = 0
  BY <1>1, SentGrows
<1>4. sender' \in Senders
  BY SendKeeps DEF SendInv, SendShape
<1>5. CASE SendStart
  BY <1>3, <1>5 DEF SendStart, SentInv
<1>6. CASE ChunkComes
  <2>1. PICK n \in 0 .. MaxChunkLen :
          sender' = [sender EXCEPT !.at = "copy", !.rest = n] /\ fed' = fed + n
    BY <1>6 DEF ChunkComes
  <2>2. n \in Nat
    BY SendAssumption
  <2>3. sender'.rest = n /\ sender'.buf = sender.buf /\ sender.rest = 0 /\ received' = received
    BY <1>1, <1>6, <2>1 DEF ChunkComes, Senders, SendInv, FedInv
  <2> QED BY <1>1, <1>3, <2>1, <2>2, <2>3 DEF SentInv
<1>7. CASE CopyChunk
  <2>1. CASE sender.rest >= TransferSize - sender.buf
    <3>1. Submit(TransferSize, "wait_full") /\ UNCHANGED fed
      BY <1>7, <2>1 DEF CopyChunk
    <3>2. /\ received' = Append(received, TransferSize) /\ sender'.buf = 0
          /\ sender'.rest = sender.rest - (TransferSize - sender.buf)
      BY <1>1, <3>1 DEF Submit, Senders
    <3> QED BY <1>1, <1>2, <1>4, <3>1, <3>2, SentOneMore, SMTT(30)
  <2>2. CASE ~(sender.rest >= TransferSize - sender.buf)
    <3>1. /\ sender'.rest = 0 /\ sender'.buf = sender.buf + sender.rest
          /\ UNCHANGED <<fed, received>>
      BY <1>1, <1>7, <2>2 DEF CopyChunk, Senders
    <3> QED BY <1>1, <1>3, <3>1 DEF SentInv
  <2> QED BY <2>1, <2>2
<1>8. CASE SourceEnds
  <2>1. ASSUME NEW n \in Nat, NEW to \in {"wait_last", "wait_end"}, n = sender.buf, Submit(n, to)
        PROVE  SentInv'
    <3>1. /\ received' = Append(received, n) /\ sender'.buf = 0 /\ sender'.rest = sender.rest
      BY <1>1, <2>1 DEF Submit, Senders
    <3>2. UNCHANGED fed
      BY <1>8 DEF SourceEnds
    <3> QED BY <1>1, <1>4, <2>1, <3>1, <3>2, SentOneMore
  <2>2. CASE sender' = [sender EXCEPT !.at = "sent"] /\ UNCHANGED received
    BY <1>1, <1>8, <2>2, SentTheSame DEF SourceEnds, Senders
  <2>3. CASE sender.buf > 0
    BY <1>1, <1>8, <2>1, <2>3 DEF SourceEnds
  <2>4. CASE sender.buf = 0 /\ sender.total > 0 /\ Submit(0, "wait_end")
    BY <2>1, <2>4
  <2> QED BY <1>8, <2>2, <2>3, <2>4 DEF SourceEnds
<1>9. CASE Completes
  <2>1. sender'.buf = sender.buf /\ sender'.rest = sender.rest /\ UNCHANGED fed
    BY <1>1, <1>9 DEF Completes, Senders
  <2>2. CASE UNCHANGED received
    BY <2>1, <2>2, SentTheSame
  <2>3. CASE received' = Append(received, 0)
    <3>1. sender'.buf + sender'.rest + 0 = sender.buf + sender.rest /\ 0 \in Nat
      BY <1>1, <2>1
    <3> QED BY <1>1, <1>4, <2>1, <2>3, <3>1, SentOneMore
  <2> QED BY <1>9, <2>2, <2>3 DEF Completes
<1>10. CASE SourceFails \/ TimesOut
  <2>1. /\ sender'.buf = sender.buf /\ sender'.rest = sender.rest
        /\ UNCHANGED <<fed, received>>
    BY <1>1, <1>10 DEF SourceFails, TimesOut, Senders
  <2> QED BY <2>1, SentTheSame
<1>11. CASE UNCHANGED sendVars
  BY <1>11, SentTheSame DEF sendVars
<1> QED BY <1>5, <1>6, <1>7, <1>8, <1>9, <1>10, <1>11 DEF SendNext

LEMMA SendIsTyped == SendInv /\ SentInv => SendTypeOK
<1> SUFFICES ASSUME SendInv, SentInv PROVE SendTypeOK
  OBVIOUS
<1>1. sender.buf \in 0 .. TransferSize - 1
  BY SenderFields, WholeTransfers DEF SendInv, SendShape
<1>2. sender.at \in {"idle", "stream", "copy", "wait_full", "wait_last", "wait_end", "sent", "failed"}
  BY SenderFields DEF SendInv, SendShape, Waits
<1> QED BY <1>1, <1>2 DEF SentInv, Sent, SendTypeOK

LEMMA DownloadIsTyped == DownloadInv => DownloadTypeOK
BY DEF DownloadInv, DownloadShape, DeliveryInv, Reads, DownloadTypeOK

TransferInv == StreamInv /\ DownloadInv /\ SendInv /\ SentInv

(* NusbTransport::send_bulk_streaming loses no byte between the stream and the wire, and    *)
(* what next_chunk and the windows of a download keep has its shape: the three of them side *)
(* by side, as the run has them.                                                            *)
THEOREM TransfersAreTyped == TransferSpec => []TransferTypeOK
<1>1. TransferInit => TransferInv
  <2> SUFFICES ASSUME TransferInit PROVE TransferInv
    OBVIOUS
  <2>1. StreamInit /\ DownloadInit /\ SendInit
    BY DEF TransferInit
  <2> QED BY <2>1, StreamStart, DownloadStarts, SendStarts, SentStarts DEF TransferInv
<1>2. TransferInv /\ [TransferNext]_TransferVars => TransferInv'
  <2> SUFFICES ASSUME TransferInv, [TransferNext]_TransferVars PROVE TransferInv'
    OBVIOUS
  <2>1. [StreamNext]_streamVars /\ [DownloadNext]_downloadVars /\ [SendNext]_sendVars
    BY DEF TransferNext, TransferVars
  <2> QED BY <2>1, StreamKeeps, DownloadKeeps, SendKeeps, SentKeeps DEF TransferInv
<1>3. TransferInv => TransferTypeOK
  BY SendIsTyped, DownloadIsTyped DEF TransferInv, TransferTypeOK, StreamInv
<1> QED BY <1>1, <1>2, <1>3, PTL DEF TransferSpec
=============================================================================
