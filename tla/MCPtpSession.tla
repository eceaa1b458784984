---------------------------- MODULE MCPtpSession ----------------------------
(* Instances of PtpSession for TLC. *)
EXTENDS PtpSession, TLC

CONSTANTS t1, t2

MCTasks  == {t1, t2}
Symmetry == Permutations(MCTasks)

ExecuteAndReceive == {"execute", "close", "receive"}
Downloads         == {"execute", "receive", "stream"}
StreamAndExecute  == {"execute", "stream"}
StreamAndSend     == {"execute", "stream", "send"}
=============================================================================
