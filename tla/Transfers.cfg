SPECIFICATION TransferSpec
CONSTANTS
  HeaderSize = 2
  ResponseSize = 3
  PacketSize = 4
  ChunkSize = 8
  LengthLimit = 22
  MaxPayload = 40
  MaxLate = 3
  MaxStaleReplies = 2
  MaxSize = 5
  Wants = {0, 2, 4}
  Cap = 3
  NarrowLimit = 2
  SendPacket = 2
  WantedSize = 3
  MaxChunkLen = 5
  MaxSendChunks = 3
  MaxSends = 2
  MaxUnanswered = 1
INVARIANTS
  TransferTypeOK
  StreamIsExact
  BufferIsBounded
  UnreadIsFlagged
  DownloadIsExact
  PhaseIsDelimited
PROPERTY
  TransfersEnd
CHECK_DEADLOCK FALSE
