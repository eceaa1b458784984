---------------------------- MODULE MCWpdWorker ----------------------------
EXTENDS WpdWorker

Read(kind, obj, offset, len) == [kind |-> kind, obj |-> obj, offset |-> offset, len |-> len]

(* Windows and reads of two objects that do and do not follow each other, *)
(* past the end of one, and a download longer than the channel.            *)
MixedReads ==
  {Read("window", "o1", 0, 1), Read("window", "o1", 1, 1), Read("window", "o2", 1, 1),
   Read("read", "o1", 1, 1), Read("read", "o2", 0, 1), Read("read", "o1", 1, ToEnd),
   Read("window", "o1", 1, 3), Read("download", "o1", 0, ToEnd)}

OneDownload == {Read("download", "o1", 0, ToEnd)}
=============================================================================
