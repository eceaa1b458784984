-------------------------- MODULE MCSessionReplies --------------------------
(* Two instances of PtpSession in one run for TLC.  In the scene "late"    *)
(* drains stop early and callers leave anywhere, so that replies of        *)
(* abandoned transactions meet later ones; in the scene "healing" a drain  *)
(* reads everything there is and no caller leaves during one.              *)
EXTENDS MCPtpSession

VARIABLE scene

Healing == INSTANCE PtpSession WITH
  UsedKinds <- Downloads, MaxRequests <- 3, MaxStaleReplies <- 4,
  DrainOnCancel <- FALSE, ThoroughDrain <- TRUE, DropsInRecovery <- FALSE

RepliesInit ==
  \/ scene = "late" /\ Init
  \/ scene = "healing" /\ Healing!Init

RepliesNext ==
  /\ UNCHANGED scene
  /\ \/ scene = "late" /\ Next
     \/ scene = "healing" /\ Healing!Next

RepliesSpec == RepliesInit /\ [][RepliesNext]_<<scene, vars>>

(* "The next operation drains the pipe under the operation lock before it   *)
(* sends" (RecoveryState): where drains read everything, an operation runs *)
(* with no packet of an earlier one in the pipes, and a session that is    *)
(* not flagged for recovery has nothing left in them, whatever the callers *)
(* dropped.                                                                *)
SessionHeals == scene = "healing" => Healing!HealedBeforeUse /\ Healing!UnflaggedIsClean
=============================================================================
