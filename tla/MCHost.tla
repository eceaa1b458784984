------------------------------- MODULE MCHost -------------------------------
(* Instances for TLC of what callers ask of the library: the storage's     *)
(* uploads, copies, moves and deletes, the commands of the command-line    *)
(* tool, the choice of a device to open, and the bytes and dates of the    *)
(* datasets.  They share no state, so a behaviour is of one of them,       *)
(* `scene` says which, and the others are at rest.                         *)
EXTENDS UsbObjects, CliCommands, DeviceOpen, Datasets, MtpDateTime

CONSTANTS w1, w2

VARIABLE scene

MCWriters == {w1, w2}
MCFold(n) == IF n = "A" THEN "a" ELSE n
MCSeeds == (1 :> Item("a", 0, <<"seed", 1>>, "seed1")) @@ (2 :> Item("b", 8, <<"seed", 2>>, "seed2"))

(* Names of no, one and several characters, and two that are too long to   *)
(* send, one of them for its surrogate pairs.                              *)
MCNames == {<<>>, <<3>>, <<3, 3, 3, 3, 3, Beyond>>, <<Beyond, Beyond, Beyond, Beyond>>}

(* Units with NULs, a plain character and halves of a pair, up to the most  *)
(* the length byte can say.                                                 *)
MCRawStrings ==
  UNION {[1 .. n -> {0, 3, HighSurrogate, LowSurrogate}] : n \in 0 .. 4}
    \cup [1 .. Base - 1 -> {0, HighSurrogate, LowSurrogate}]

(* From 0000-01-01, the days of one turn of the calendar, 400 years. *)
MCSpans == {<<d, d + 1000>> : d \in {-719528 + 1000 * i : i \in 0 .. 146}}
MCOffsets == {-1439, -1, 0, 330, 1439}

HostVars == <<scene, objectsVars, cliVars, choiceVars, datasetVars, dated>>

RestObjects == style = "refuses" /\ ObjectsInit
RestCli ==
  /\ objs = [h \in {1, 2} |-> Catalogue[h]] /\ cmd = [op |-> "rm", source |-> << "x" >>]
  /\ device = [clash |-> "refuse", folds |-> FALSE, rename |-> TRUE, dim |-> {}]
  /\ CliInit
RestChoice ==
  /\ attached = [windows |-> FALSE, usb |-> <<>>, virtuals |-> <<>>]
  /\ request = (CHOOSE r \in Requests : TRUE) /\ answer = Failed("none")
RestData == sample = [is |-> "string", value |-> <<0>>] /\ payload = <<>> /\ whole = TRUE /\ read = Unread
RestDate == dated = [is |-> "days", first |-> 0, last |-> 0]

HostInit ==
  \/ scene = "objects" /\ RestCli /\ RestChoice /\ RestData /\ RestDate /\ ObjectsInit
  \/ scene = "cli" /\ RestObjects /\ RestChoice /\ RestData /\ RestDate /\ CliInit
  \/ scene = "choice" /\ RestObjects /\ RestCli /\ RestData /\ RestDate /\ ChoiceInit
  \/ scene = "data" /\ RestObjects /\ RestCli /\ RestChoice /\ RestDate /\ DatasetInit
  \/ scene = "dates" /\ RestObjects /\ RestCli /\ RestChoice /\ RestData /\ DateInit

HostNext ==
  /\ UNCHANGED <<scene, dated>>
  /\ \/ scene = "objects" /\ ObjectsNext /\ UNCHANGED <<cliVars, choiceVars, datasetVars>>
     \/ scene = "cli" /\ CliNext /\ UNCHANGED <<objectsVars, choiceVars, datasetVars>>
     \/ scene = "choice" /\ ChoiceNext /\ UNCHANGED <<objectsVars, cliVars, datasetVars>>
     \/ scene = "data" /\ DatasetNext /\ UNCHANGED <<objectsVars, cliVars, choiceVars>>

HostSpec == HostInit /\ [][HostNext]_HostVars
=============================================================================
