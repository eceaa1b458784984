----------------------------- MODULE SerialRpc ------------------------------
(***************************************************************************)
(* What a PTP session promises its callers ("MTP only allows one operation *)
(* at a time", PtpSession): calls are served one after the other, and a    *)
(* call that is served either fails, is withdrawn by its caller, or gets   *)
(* the answer to its own request, with no data but its own.  Nothing here  *)
(* speaks of pipes, ids or recovery.                                       *)
(***************************************************************************)
EXTENDS Naturals

CONSTANTS Tasks, NoTask

VARIABLES
  phase,    \* each call: "idle", "waiting", "served", "answered", "failed"
  holder,   \* the task whose call is being served
  answer    \* what an answered call got

rpcVars == <<phase, holder, answer>>

NoAnswer == [req |-> 0, reply |-> 0, data |-> {}]

Init ==
  /\ phase = [t \in Tasks |-> "idle"]
  /\ holder = NoTask
  /\ answer = [t \in Tasks |-> NoAnswer]

Call(t) ==
  /\ phase[t] \notin {"waiting", "served"}
  /\ phase' = [phase EXCEPT ![t] = "waiting"]
  /\ answer' = [answer EXCEPT ![t] = NoAnswer]
  /\ UNCHANGED holder

Serve(t) ==
  /\ phase[t] = "waiting" /\ holder = NoTask
  /\ phase' = [phase EXCEPT ![t] = "served"]
  /\ holder' = t
  /\ UNCHANGED answer

Answer(t) ==
  /\ holder = t
  /\ phase' = [phase EXCEPT ![t] = "answered"]
  /\ holder' = NoTask
  /\ LET a == answer'[t]
     IN  /\ a.req > 0 /\ a.reply = a.req /\ a.data \subseteq {a.req}
         /\ answer' = [answer EXCEPT ![t] = a]

Fail(t) ==
  /\ holder = t
  /\ phase' = [phase EXCEPT ![t] = "failed"]
  /\ holder' = NoTask
  /\ UNCHANGED answer

Withdraw(t) ==
  /\ phase[t] \in {"waiting", "served"}
  /\ phase' = [phase EXCEPT ![t] = "idle"]
  /\ holder' = IF holder = t THEN NoTask ELSE holder
  /\ UNCHANGED answer

Next == \E t \in Tasks : Call(t) \/ Serve(t) \/ Answer(t) \/ Fail(t) \/ Withdraw(t)

Spec == Init /\ [][Next]_rpcVars
=============================================================================
