---------------------------- MODULE SessionOpen ----------------------------
(***************************************************************************)
(* Opening a session on a device that earlier host processes have used     *)
(* (PtpSession::open, MtpDeviceBuilder::open_usb_device, PtpDevice): the   *)
(* device keeps its session and its unread replies when a process dies, so *)
(* a new process may read what a dead one left.                            *)
(*                                                                         *)
(* The device answers commands in order, and `pipe` is what it has still   *)
(* to hand over.  A transaction id is 0 for OpenSession, 1 for the first   *)
(* command of a session, 2 for a later one.                                *)
(***************************************************************************)
EXTENDS Naturals, Sequences

CONSTANTS
  MaxChunks,  \* bound: reads of an object a dead process leaves
  DrainCap,   \* reads that the drain of open gets through in OPEN_DRAIN_MAX_DURATION
  MaxStale,   \* MAX_STALE_REPLIES
  MaxDeaths,  \* bound: processes that end with the device in use
  MaxSlow     \* bound: replies that come later than the process waits

ASSUME OpenAssumption ==
  /\ MaxChunks \in Nat /\ DrainCap \in Nat \ {0} /\ MaxStale \in Nat
  /\ MaxDeaths \in Nat /\ MaxSlow \in Nat

VARIABLES
  devSession,  \* the device has a session
  pipe,        \* replies not yet read: [kind, tx, code, mine]
  app,         \* the process: [mode, at, drained, again, skipped, data]
  deaths,      \* processes that ended so far
  slow,        \* replies that came too late so far
  fails        \* opens that failed since the last end of a process

openVars == <<devSession, pipe, app, deaths, slow, fails>>

(* "mtp": MtpDeviceBuilder; "reuse": with reuse_existing_session; "ptp": PtpDevice, which
   asks for the device info outside the session. *)
Modes == {"mtp", "reuse", "ptp"}

Down(mode) == [mode |-> mode, at |-> "down", drained |-> FALSE, again |-> FALSE,
               skipped |-> 0, data |-> "none"]

OpenInit ==
  /\ devSession = FALSE /\ pipe = <<>> /\ deaths = 0 /\ slow = 0 /\ fails = 0
  /\ app \in {Down(m) : m \in Modes}
-----------------------------------------------------------------------------
Response(tx, code) == [kind |-> "response", tx |-> tx, code |-> code, mine |-> TRUE]
Info(tx) == <<[Response(tx, "ok") EXCEPT !.kind = "info"], Response(tx, "ok")>>

(* What a process of before leaves unread is nobody's. *)
Left(replies) == [i \in DOMAIN replies |-> [replies[i] EXCEPT !.mine = FALSE]]

(* What a transaction in the session leaves, cut anywhere: the rest of an object, its
   response, or an error. *)
Leftovers ==
  LET part(k) == [Response(2, "ok") EXCEPT !.kind = k] IN
  {<<>>, <<Response(2, "ok")>>, <<Response(2, "refused")>>}
  \cup {[i \in 1 .. n |-> part("chunk")] \o <<Response(2, "ok")>> : n \in 1 .. MaxChunks}
  \cup {<<part("object")>> \o [i \in 1 .. n |-> part("chunk")] \o <<Response(2, "ok")>> : n \in 0 .. MaxChunks}

Become(at) == app' = [app EXCEPT !.at = at]

(* Opens that failed in a row are counted as far as the properties tell them apart. *)
FailsCounted == 2
Fail == app' = Down(app.mode) /\ fails' = IF fails < FailsCounted THEN fails + 1 ELSE fails

OpenStart ==
  /\ app.at = "down"
  /\ Become(IF app.mode = "ptp" THEN "ask_raw" ELSE "ask_open")
  /\ pipe' = Left(pipe)
  /\ UNCHANGED <<devSession, deaths, slow, fails>>

(* send_open_session_once sends; the device answers in turn. *)
AskOpen ==
  /\ app.at = "ask_open" /\ Become("opening")
  /\ pipe' = Append(pipe, Response(0, IF devSession THEN "already" ELSE "ok"))
  /\ devSession' = TRUE
  /\ UNCHANGED <<deaths, slow, fails>>

(* Where an open that the device granted goes on. *)
Granted == Become(IF app.mode = "ptp" THEN "open" ELSE "ask_info")

(* Mutant: a session of before fails the open. *)
ReadOpenUnclosed ==
  /\ app.at = "opening" /\ pipe # <<>>
  /\ pipe' = Tail(pipe)
  /\ IF Head(pipe).code = "ok" THEN Granted /\ UNCHANGED fails ELSE Fail
  /\ UNCHANGED <<devSession, deaths, slow>>

(* Mutant: the session of before is closed in every mode. *)
ReadOpenClosesAll ==
  /\ app.at = "opening" /\ pipe # <<>>
  /\ pipe' = Tail(pipe)
  /\ Become(IF Head(pipe).code = "ok" THEN "ask_info" ELSE "ask_close")
  /\ UNCHANGED <<devSession, deaths, slow, fails>>

(* The reply is read whatever transaction it is of.  One that is not a response is drained
   away, once. *)
ReadOpen ==
  /\ app.at = "opening" /\ pipe # <<>>
  /\ pipe' = Tail(pipe)
  /\ LET r == Head(pipe) IN
     \/ r.kind = "response" /\ r.code = "ok" /\ Granted /\ UNCHANGED fails
     \/ /\ r.kind = "response" /\ r.code = "already"
        /\ CASE app.mode = "reuse" -> Granted /\ UNCHANGED fails
             [] app.mode # "reuse" /\ ~app.again -> Become("ask_close") /\ UNCHANGED fails
             [] app.mode # "reuse" /\ app.again -> Fail
     \/ r.kind = "response" /\ r.code = "refused" /\ Fail
     \/ r.kind # "response" /\ ~app.drained /\ Become("draining") /\ UNCHANGED fails
     \/ r.kind # "response" /\ app.drained /\ Fail
  /\ UNCHANGED <<devSession, deaths, slow>>

Rest(n) == SubSeq(pipe, n + 1, Len(pipe))

(* drain_bulk_in reads until the device is silent, or for as long as it may. *)
DrainLeftovers ==
  /\ app.at = "draining"
  /\ app' = [app EXCEPT !.at = "ask_open", !.drained = TRUE]
  /\ \/ pipe' = Rest(IF Len(pipe) < DrainCap THEN Len(pipe) ELSE DrainCap) /\ UNCHANGED slow
     \/ /\ slow < MaxSlow /\ slow' = slow + 1           \* a gap of OPEN_DRAIN_IDLE_TIMEOUT
        /\ \E n \in 0 .. Len(pipe) : n <= DrainCap /\ pipe' = Rest(n)
  /\ UNCHANGED <<devSession, deaths, fails>>

(* CloseSession, the first command of the session object that is then dropped.  Its reply is
   read once, whatever it is, and its errors are ignored; a fresh session object asks again. *)
AskClose ==
  /\ app.at = "ask_close" /\ Become("closing")
  /\ pipe' = Append(pipe, Response(1, IF devSession THEN "ok" ELSE "refused"))
  /\ devSession' = FALSE
  /\ UNCHANGED <<deaths, slow, fails>>

ReadClose ==
  /\ app.at = "closing" /\ pipe # <<>>
  /\ pipe' = Tail(pipe)
  /\ app' = [app EXCEPT !.at = "ask_open", !.again = TRUE, !.drained = FALSE]
  /\ UNCHANGED <<devSession, deaths, slow, fails>>

(* GetDeviceInfo, the first command of the session, or outside of one. *)
AskDeviceInfo ==
  /\ \/ app.at = "ask_info" /\ Become("info") /\ pipe' = pipe \o Info(1)
     \/ app.at = "ask_raw" /\ Become("raw") /\ pipe' = pipe \o Info(0)
  /\ UNCHANGED <<devSession, deaths, slow, fails>>

(* A Data container is taken without a look at its transaction; reads that are the middle
   of an object are no container. *)
ReadInfoData ==
  /\ app.at \in {"info", "raw"} /\ pipe # <<>> /\ Head(pipe).kind # "response"
  /\ \/ /\ Head(pipe).kind = "info"
        /\ app' = [app EXCEPT !.data = IF @ = "none" THEN (IF Head(pipe).mine THEN "mine" ELSE "left") ELSE "mixed"]
        /\ pipe' = Tail(pipe) /\ UNCHANGED fails
     \/ /\ Head(pipe).kind = "object"
        /\ app' = [app EXCEPT !.data = "mixed"]
        /\ \E n \in 1 .. Len(pipe) :
             /\ \A i \in 2 .. n : pipe[i].kind = "chunk"
             /\ n = Len(pipe) \/ pipe[n + 1].kind # "chunk"
             /\ pipe' = Rest(n)
        /\ UNCHANGED fails
     \/ Head(pipe).kind = "chunk" /\ Fail /\ pipe' = Tail(pipe)
  /\ UNCHANGED <<devSession, deaths, slow>>

(* Mutant: a reply to an earlier transaction is a desync. *)
IsSkippedNever(r) == FALSE

(* is_stale_reply and may_skip_stale_reply, for the transaction 1. *)
IsSkipped(r) ==
  /\ app.at = "info" /\ r.tx = 0 /\ app.data = "none"
  /\ app.skipped < MaxStale

(* Outside a session nobody looks at the transaction. *)
Answers(r) == app.at = "raw" \/ r.tx = 1

ReadInfoResponse ==
  /\ app.at \in {"info", "raw"} /\ pipe # <<>> /\ Head(pipe).kind = "response"
  /\ pipe' = Tail(pipe)
  /\ LET r == Head(pipe) IN
     \/ /\ Answers(r) /\ r.code = "ok" /\ app.data \in {"mine", "left"}
        /\ Become(IF app.at = "raw" THEN "ask_open" ELSE "open") /\ UNCHANGED fails
     \/ /\ Answers(r) /\ (r.code # "ok" \/ app.data \in {"none", "mixed"})
        /\ Fail
     \/ /\ ~Answers(r) /\ IsSkipped(r)
        /\ app' = [app EXCEPT !.skipped = @ + 1] /\ UNCHANGED fails
     \/ /\ ~Answers(r) /\ ~IsSkipped(r)
        /\ Fail
  /\ UNCHANGED <<devSession, deaths, slow>>

(* A reply does not come within the transfer timeout, or at all in time. *)
ReadTimesOut ==
  /\ app.at \in {"opening", "closing", "info", "raw"} /\ slow < MaxSlow /\ slow' = slow + 1
  /\ IF app.at = "closing"
       THEN app' = [app EXCEPT !.at = "ask_open", !.again = TRUE, !.drained = FALSE] /\ UNCHANGED fails
       ELSE Fail
  /\ UNCHANGED <<devSession, pipe, deaths>>

(* The process ends: killed where it is, or in the middle of a transaction of its session;
   its MtpDevice dropped or closed. *)
ProcessEnds ==
  /\ app.at # "down" /\ deaths < MaxDeaths /\ deaths' = deaths + 1 /\ fails' = 0
  /\ \E m \in Modes : app' = Down(m)
  /\ \/ /\ IF app.at = "open" THEN \E l \in Leftovers : pipe' = Left(pipe \o l) ELSE pipe' = Left(pipe)
        /\ UNCHANGED devSession
     \/ app.at = "open" /\ devSession' = FALSE /\ pipe' = Left(pipe)   \* close(), its reply read
  /\ UNCHANGED slow

OpenStep ==
  \/ OpenStart \/ AskOpen \/ ReadOpen \/ DrainLeftovers \/ AskClose \/ ReadClose
  \/ AskDeviceInfo \/ ReadInfoData \/ ReadInfoResponse

OpenNext == OpenStep \/ ReadTimesOut \/ ProcessEnds

(* Somebody retries a failed open, and the device answers. *)
OpenSpec == OpenInit /\ [][OpenNext]_openVars /\ WF_openVars(OpenStep)
-----------------------------------------------------------------------------
(* The state is of its type, and an open that reuses the session never closes it. *)
OpenTypeOK ==
  /\ devSession \in BOOLEAN /\ app.mode \in Modes
  /\ app.at \in {"down", "ask_raw", "raw", "ask_open", "opening", "draining", "ask_close",
                 "closing", "ask_info", "info", "open"}
  /\ app.mode = "reuse" => app.at \notin {"ask_close", "closing"} /\ ~app.again
  /\ app.skipped \in 0 .. MaxStale /\ app.data \in {"none", "mine", "left", "mixed"}
  /\ \A i \in DOMAIN pipe : pipe[i].tx \in 0 .. 2 /\ pipe[i].kind \in {"response", "info", "object", "chunk"}

(* Wherever one process dies, in an open or in a transaction, at most one open after it
   fails, and the one that succeeds has its own answers and leaves none in the pipe.  (A
   device that falls silent, a second death, or PtpDevice's info outside the session can
   leave the session a few replies behind; they are replies to earlier transactions.) *)
OneDeathHeals ==
  deaths <= 1 /\ slow = 0 /\ app.mode # "ptp" =>
    /\ fails <= 1
    /\ app.at = "open" => pipe = <<>> /\ app.data = "mine"

(* However many processes died, and whatever they left, retrying the open succeeds: no
   leftover is read again and again. *)
Reopens == <>[](app.at = "open")
=============================================================================
