---------------------------- MODULE FileDownload ----------------------------
(***************************************************************************)
(* A file download spread over device transactions (mtp/stream.rs): the    *)
(* windows or the one held-open transfer it reads, the closing of each     *)
(* full window, and what its caller may do in between.  A read's body      *)
(* stands for UsbDownloadBody over a ReceiveStream (backend/usb.rs).       *)
(*                                                                         *)
(* A step ends where the code awaits; the caller may drop next_chunk's     *)
(* future there and still hold the download.                               *)
(***************************************************************************)
EXTENDS Integers, FiniteSets

CONSTANTS
  MaxSize,       \* bound: the object's size
  Wants,         \* the window sizes the pacing may ask for (0 counts as 1)
  Cap,           \* u32::MAX: the most one partial read can ask for
  NarrowLimit    \* u32::MAX: the last offset the 32-bit partial read reaches

ASSUME DownloadAssumption ==
  /\ MaxSize \in Nat /\ Wants \subseteq Nat /\ Wants # {}
  /\ Cap \in Nat \ {0} /\ NarrowLimit \in Nat

VARIABLES
  file,       \* the range, its pacing, the device's partial reads, and whether the
              \* caller is patient: never drops next_chunk while it closes a window
  offset,     \* offset(): the next byte to read
  current,    \* the ActiveRead in flight, or NoRead
  chunk,      \* the bytes next_chunk holds while it closes their window
  done,
  stage,      \* "caller", or next_chunk's await: "start", "body", "close"
  delivered,  \* the bytes the caller has got
  result      \* what the last call returned

downloadVars == <<file, offset, current, chunk, done, stage, delivered, result>>

NoRead == [held |-> FALSE, requested |-> 0, received |-> 0, left |-> 0]

Smaller(a, b) == IF a < b THEN a ELSE b

(* plan_partial_read and can_read_partially_at. *)
CanReadPartiallyAt(o) == file.ops = "wide" \/ (file.ops = "narrow" /\ o <= NarrowLimit)

(* A variant of NextWindow for which a window of size 0 is one. *)
NextWindowOfAnySize(want, remaining) == Smaller(Smaller(want, remaining), Cap)

(* Pacer::next_window, whatever the pacing makes of the measured rate. *)
NextWindow(want, remaining) ==
  Smaller(Smaller(IF want = 0 THEN 1 ELSE want, remaining), Cap)

WholeFile(f) == f.start = 0 /\ f.end = f.size

(***************************************************************************)
(* FileDownload::start, after object_info: a range past the object is      *)
(* refused, a whole file that partial reads cannot cover is held open, and *)
(* a held-open read starts at once.                                        *)
(***************************************************************************)
Ranges ==
  {f \in [size : 0 .. MaxSize, start : 0 .. MaxSize, end : 0 .. MaxSize,
          held : BOOLEAN, ops : {"none", "narrow", "wide"}, patient : BOOLEAN] :
     f.start <= f.end /\ f.end <= f.size}

StartsHeldOpen ==
  (file.held \/ ~CanReadPartiallyAt(file.start)) /\ file.start < file.end

DownloadInit ==
  /\ \E f \in Ranges :
       file = [f EXCEPT !.held = @ \/ (WholeFile(f) /\ f.end > 0 /\
                 ~(f.ops = "wide" \/ (f.ops = "narrow" /\ f.end - 1 <= NarrowLimit)))]
  /\ offset = file.start
  /\ current = NoRead /\ chunk = {}
  /\ done = FALSE
  /\ stage = IF StartsHeldOpen THEN "start" ELSE "caller"
  /\ delivered = {} /\ result = "none"

Return(r) == stage' = "caller" /\ result' = r

(* fail: the read in flight is dropped and the download is over. *)
Fail ==
  /\ current' = NoRead /\ done' = TRUE
  /\ Return("error")

(* The end of next_chunk's loop: finish, or start the next read. *)
NextReadOrEnd ==
  IF offset' >= file.end
  THEN done' = TRUE /\ Return("end")
  ELSE stage' = "start" /\ UNCHANGED <<done, result>>

AskChunk ==
  /\ stage = "caller" /\ ~done
  /\ UNCHANGED <<offset, current>>
  /\ IF current # NoRead
     THEN stage' = "body" /\ UNCHANGED <<done, result>>
     ELSE NextReadOrEnd
  /\ UNCHANGED <<file, chunk, delivered>>

(***************************************************************************)
(* start_next_read.  left is how much the device will serve of what was    *)
(* asked: a short read is legal, an empty one a stall, and one byte too    *)
(* many is a device that ignores the length, or an object that has grown.  *)
(***************************************************************************)
Windowed == ~file.held /\ CanReadPartiallyAt(offset)

Full == offset = 0 /\ WholeFile(file)

(* start() awaits a held-open download's first read itself. *)
InStart == stage = "start" /\ result = "none" /\ StartsHeldOpen

StartWindow ==
  /\ stage = "start" /\ Windowed
  /\ \E want \in Wants :
       LET len == NextWindow(want, file.end - offset)
       IN  \E left \in 0 .. len + 1 :
             current' = [held |-> FALSE, requested |-> len, received |-> 0, left |-> left]
  /\ stage' = "body"
  /\ UNCHANGED <<file, offset, chunk, done, delivered, result>>

StartHeldOpen ==
  /\ stage = "start" /\ ~Windowed /\ (Full \/ CanReadPartiallyAt(offset))
  /\ LET remaining == file.end - offset
     IN  \E left \in 0 .. (IF Full THEN remaining ELSE Smaller(remaining, Cap)) + 1 :
           current' = [held |-> TRUE, requested |-> remaining, received |-> 0, left |-> left]
  /\ stage' = IF InStart THEN "caller" ELSE "body"
  /\ UNCHANGED <<file, offset, chunk, done, delivered, result>>

(* download: no partial read reaches this offset, and the range is not the *)
(* whole file.                                                             *)
StartUnsupported ==
  /\ stage = "start" /\ ~Windowed /\ ~(Full \/ CanReadPartiallyAt(offset))
  /\ Fail
  /\ UNCHANGED <<file, offset, chunk, delivered>>

(* The device or the session refuses the read. *)
StartFails ==
  /\ stage = "start"
  /\ Fail
  /\ UNCHANGED <<file, offset, chunk, delivered>>

(***************************************************************************)
(* The read's body: some bytes, an error, or its end.                      *)
(***************************************************************************)
TakeOneMore(n) == offset .. offset + n    \* a variant of TakeChunk

TakeChunk(n) == offset .. offset + n - 1

(* A variant of BodyYields that hands out a window's last bytes at once. *)
BodyYieldsUnclosed ==
  /\ stage = "body" /\ current.left > 0
  /\ \E n \in 1 .. current.left :
       LET read == [current EXCEPT !.received = @ + n, !.left = @ - n]
       IN  /\ offset' = offset + n
           /\ IF ~read.held /\ read.received > read.requested
              THEN Fail /\ UNCHANGED <<chunk, delivered>>
              ELSE /\ current' = read /\ delivered' = delivered \cup TakeChunk(n)
                   /\ Return("chunk") /\ UNCHANGED <<chunk, done>>
  /\ UNCHANGED file

BodyYields ==
  /\ stage = "body" /\ current.left > 0
  /\ \E n \in 1 .. current.left :
       LET read == [current EXCEPT !.received = @ + n, !.left = @ - n]
       IN  /\ offset' = offset + n
           /\ CASE ~read.held /\ read.received > read.requested ->
                     Fail /\ UNCHANGED <<chunk, delivered>>
                [] ~read.held /\ read.received = read.requested ->
                     /\ current' = read /\ chunk' = TakeChunk(n) /\ stage' = "close"
                     /\ UNCHANGED <<done, delivered, result>>
                [] OTHER ->
                     /\ current' = read /\ delivered' = delivered \cup TakeChunk(n)
                     /\ Return("chunk") /\ UNCHANGED <<chunk, done>>
  /\ UNCHANGED file

BodyFails ==
  /\ stage = "body"
  /\ Fail
  /\ UNCHANGED <<file, offset, chunk, delivered>>

(* A variant of BodyEnds that takes an empty read for a short one. *)
BodyEndsEmpty ==
  /\ stage = "body" /\ current.left = 0
  /\ UNCHANGED offset
  /\ current' = NoRead
  /\ NextReadOrEnd
  /\ UNCHANGED <<file, chunk, delivered>>

(* A variant of BodyEnds that takes a short read for the end. *)
BodyEndsShort ==
  /\ stage = "body" /\ current.left = 0
  /\ UNCHANGED offset
  /\ IF current.received = 0 /\ offset < file.end
     THEN Fail
     ELSE current' = NoRead /\ done' = TRUE /\ Return("end")
  /\ UNCHANGED <<file, chunk, delivered>>

(* Nothing at all is a stall; less than was asked is picked up by the next read. *)
BodyEnds ==
  /\ stage = "body" /\ current.left = 0
  /\ UNCHANGED offset
  /\ IF current.received = 0 /\ offset < file.end
     THEN Fail
     ELSE current' = NoRead /\ NextReadOrEnd
  /\ UNCHANGED <<file, chunk, delivered>>

(***************************************************************************)
(* close_full_window takes the read out of the download and waits for its  *)
(* end; only then are the window's last bytes handed out.                  *)
(***************************************************************************)
CloseWindow ==
  /\ stage = "close" /\ current.left = 0
  /\ current' = NoRead
  /\ delivered' = delivered \cup chunk /\ chunk' = {}
  /\ Return("chunk")
  /\ UNCHANGED <<file, offset, done>>

(* An error, or more bytes than were asked for. *)
CloseFails ==
  /\ stage = "close"
  /\ Fail /\ chunk' = {}
  /\ UNCHANGED <<file, offset, delivered>>

(***************************************************************************)
(* The caller.  Dropped at a body's await, the read stays in the download; *)
(* dropped while a window closes, the read and its last bytes are gone.    *)
(***************************************************************************)
DropAskChunk ==
  /\ stage \in {"start", "body"} \cup (IF file.patient THEN {} ELSE {"close"})
  /\ ~InStart
  /\ stage' = "caller"
  /\ current' = IF stage = "close" THEN NoRead ELSE current
  /\ chunk' = {}
  /\ UNCHANGED <<file, offset, done, delivered, result>>

CancelDownload ==
  /\ stage = "caller" /\ ~done
  /\ done' = TRUE /\ current' = NoRead
  /\ Return("cancelled")
  /\ UNCHANGED <<file, offset, chunk, delivered>>

DownloadStep ==
  \/ AskChunk
  \/ StartWindow \/ StartHeldOpen \/ StartUnsupported
  \/ BodyYields \/ BodyEnds
  \/ CloseWindow

DownloadNext ==
  \/ DownloadStep
  \/ StartFails \/ BodyFails \/ CloseFails
  \/ DropAskChunk \/ CancelDownload

DownloadSpec == DownloadInit /\ [][DownloadNext]_downloadVars

(* The caller keeps asking, does not drop every future it makes, and the   *)
(* device answers or the wait for it times out.                            *)
DownloadFairSpec ==
  /\ DownloadSpec
  /\ WF_downloadVars(DownloadStep \/ CloseFails)
  /\ SF_downloadVars(StartWindow \/ StartHeldOpen \/ StartUnsupported)
  /\ SF_downloadVars(BodyYields \/ BodyEnds)
-----------------------------------------------------------------------------
(* Properties *)

(* The shape of the download's state. *)
DownloadTypeOK ==
  /\ file \in Ranges
  /\ offset \in Nat
  /\ current \in [held : BOOLEAN, requested : Nat, received : Nat, left : Nat]
  /\ ~done => offset >= file.start
  /\ chunk \subseteq file.start .. file.end - 1 /\ delivered \subseteq Nat
  /\ done \in BOOLEAN
  /\ stage \in {"caller", "start", "body", "close"}
  /\ result \in {"none", "chunk", "end", "error", "cancelled"}

(* A patient caller gets the range from its start, in order, without a     *)
(* hole, and all of it before next_chunk says it is over: short, empty and *)
(* oversized reads, refused windows and dropped futures included.  Windows *)
(* never hand out a byte past the range; a held-open transfer is taken     *)
(* whole.                                                                  *)
DeliversRange ==
  /\ file.patient =>
       /\ delivered = file.start .. file.start + Cardinality(delivered) - 1
       /\ result = "end" => file.start .. file.end - 1 \subseteq delivered
  /\ ~file.held => delivered \subseteq file.start .. file.end - 1

(* holds_session's promise: when a call returns the last bytes of a        *)
(* window, the device is free.                                             *)
FreeAfterWindow ==
  (stage = "caller" /\ current # NoRead /\ ~current.held) => current.received < current.requested

(* A window always asks for something, and never for more than the range   *)
(* has left or one partial read can carry.                                 *)
WindowsMakeProgress ==
  (stage = "body" /\ ~current.held) =>
     /\ current.requested \in 1 .. Cap
     /\ offset - current.received + current.requested <= file.end

(* offset(): "File offset of the next byte to arrive. Resume from here     *)
(* with ByteRange::From after a cancel".                                   *)
ResumesWithoutHole ==
  result = "cancelled" => offset = file.start + Cardinality(delivered)

(* A download whose caller has begun to ask, and keeps asking, ends: it    *)
(* neither spins on a device that serves nothing nor waits for bytes that  *)
(* will not come.                                                          *)
DownloadEnds == stage # "caller" ~> done

(* A download is its range, made of windows that each ask for something    *)
(* the range still lacks and leave the device free.                        *)
DownloadIsExact == DeliversRange /\ WindowsMakeProgress /\ FreeAfterWindow
=============================================================================
