----------------------------- MODULE MCTransfers -----------------------------
(* Instances for TLC of what carries a file over USB: the stream of one    *)
(* transaction, the windows a download is made of, and the bulk transfers  *)
(* of an upload's data phase.  They share no state, so a behaviour is of   *)
(* one of them, `scene` says which, and the others are at rest.            *)
EXTENDS ReceiveStream, FileDownload, BulkSend

VARIABLE scene

TransferVars == <<scene, streamVars, downloadVars, sendVars>>

RestAnswer == CHOOSE a \in Answers : TRUE
RestRange  == CHOOSE f \in Ranges : f.size = 0 /\ f.ops = "none" /\ f.patient /\ ~f.held

TransferInit ==
  /\ scene \in {"stream", "download", "send"}
  /\ IF scene = "stream" THEN StreamInit ELSE answer = RestAnswer /\ StreamInit
  /\ IF scene = "download" THEN DownloadInit ELSE file = RestRange /\ DownloadInit
  /\ SendInit

TransferNext ==
  /\ UNCHANGED scene
  /\ \/ scene = "stream" /\ StreamNext /\ UNCHANGED <<downloadVars, sendVars>>
     \/ scene = "download" /\ DownloadNext /\ UNCHANGED <<streamVars, sendVars>>
     \/ scene = "send" /\ SendNext /\ UNCHANGED <<streamVars, downloadVars>>

(* The fairness of StreamFairSpec and DownloadFairSpec, for the one that runs. *)
TransferSpec ==
  /\ TransferInit /\ [][TransferNext]_TransferVars
  /\ WF_streamVars(scene = "stream" /\ StreamStep)
  /\ SF_streamVars(scene = "stream" /\ ReceiveBytes)
  /\ WF_downloadVars(scene = "download" /\ (DownloadStep \/ CloseFails))
  /\ SF_downloadVars(scene = "download" /\ (StartWindow \/ StartHeldOpen \/ StartUnsupported))
  /\ SF_downloadVars(scene = "download" /\ (BodyYields \/ BodyEnds))

(* The state of each of them is of its shape. *)
TransferTypeOK == StreamTypeOK /\ DownloadTypeOK /\ SendTypeOK

(* A stream and a download whose callers keep asking come to an end.       *)
TransfersEnd == StreamEnds /\ DownloadEnds
=============================================================================
