----------------------------- MODULE CliCommands -----------------------------
(* The command-line tool (crates/mtp-rs-cli): one command runs against one  *)
(* storage.  Every call of the library and of the local file system is a    *)
(* step of its own that may fail, and one of the library may fail although  *)
(* the device did what it asks; the process may be killed between any two   *)
(* steps, and another program may add a file to the storage meanwhile.      *)
(* A remote path is a sequence of names; contents are numbers: an object's  *)
(* own number, LocalData for the file put uploads, Partial for an upload    *)
(* that stopped.                                                            *)
EXTENDS Integers, Sequences, FiniteSets, SequencesExt, FiniteSetsExt

CONSTANTS
    OptionalObjects,   \* numbers of the objects a storage may or may not hold
    MaxFaults,  \* calls that fail
    MaxOthers,  \* files another program adds
    MaxDim      \* objects the device cannot describe

ASSUME CliAssumption ==
    OptionalObjects \subseteq 3 .. 7 /\ MaxFaults \in Nat /\ MaxOthers \in Nat /\ MaxDim \in Nat

VARIABLES
    objs,      \* the storage: handle -> object
    orig,      \* the storage before the command
    device,    \* what it does about names, what it supports and cannot describe
    local,     \* the local destination: name -> contents
    disk,      \* whether the destination was there and whether it folds case
    temp,      \* the temporary file of a download: contents and whether whole
    cmd,       \* the command line
    run,       \* where the command is, what it has resolved
    faults,    \* calls that have failed
    others     \* files another program has added

cliVars == << objs, orig, device, local, disk, temp, cmd, run, faults, others >>

Root == 0
Nobody == 0
LocalData == 100
Partial == 101
Elsewhere == 102
Lower(n) == IF n = "X" THEN "x" ELSE n
BadName(n) == n = "a/b"

Obj(parent, name, folder, data) == [parent |-> parent, name |-> name, folder |-> folder, data |-> data]

(* The objects a storage may start with. *)
Catalogue ==
    << Obj(Root, "b", TRUE, 1), Obj(Root, "x", FALSE, 2), Obj(1, "x", FALSE, 3),
       Obj(1, "y", FALSE, 4), Obj(1, "X", FALSE, 5), Obj(Root, "y", FALSE, 6),
       Obj(1, "a/b", FALSE, 7) >>

Fresh == CHOOSE h \in 8 .. 8 + Cardinality(DOMAIN objs) : h \notin DOMAIN objs

(* ---- The device and the library ----------------------------------------- *)

ObjectsIn(parent) == {h \in DOMAIN objs : objs[h].parent = parent}
DeviceSameName(a, b) == IF device.folds THEN Lower(a) = Lower(b) ELSE a = b
Occupants(parent, name, h) == {g \in ObjectsIn(parent) \ {h} : DeviceSameName(objs[g].name, name)}

Removed(f, gone) == [h \in DOMAIN f \ gone |-> f[h]]
Added(f, h, o) == [g \in DOMAIN f \cup {h} |-> IF g = h THEN o ELSE f[g]]

(* What becomes of the storage when the device puts object o at handle h:   *)
(* where the name is taken it refuses, keeps both or writes over the other, *)
(* as its system does (the virtual device's std::fs::rename writes over).   *)
Refuses(h, o) ==
    LET taken == Occupants(o.parent, o.name, h)
    IN  taken # {} /\ (device.clash = "refuse" \/ \E g \in taken : objs[g].folder)

Placed(h, o) ==
    LET taken == Occupants(o.parent, o.name, h)
    IN  Added(IF device.clash = "overwrite" THEN Removed(objs, taken) ELSE objs, h, o)

(* list_objects: it leaves out the objects the device cannot describe, and  *)
(* is an error where a folder has no other.                                 *)
Seen(parent) == ObjectsIn(parent) \ device.dim
Listable(parent) == ObjectsIn(parent) = {} \/ Seen(parent) # {}

(* The first object of that name in a listing, files or folders or both. *)
Find(parent, name, folder) ==
    LET found == {h \in Seen(parent) : objs[h].name = name /\ objs[h].folder \in folder}
    IN  IF found = {} THEN Nobody ELSE Min(found)

(* resolve_existing: the object at a path of one or two names. *)
Missing == -1
ResolveExisting(path) ==
    LET named(parent, n) == Find(parent, n, BOOLEAN)
    IN  IF path = << >> THEN Root
        ELSE LET top == named(Root, path[1])
             IN  IF top = Nobody THEN Missing
                 ELSE IF Len(path) = 1 THEN top
                 ELSE IF ~objs[top].folder \/ named(top, path[2]) = Nobody THEN Missing
                 ELSE named(top, path[2])

IsFolderAt(h) == h = Root \/ (h # Missing /\ objs[h].folder)

NoTarget == [parent |-> Missing, name |-> "", existing |-> Nobody]

(* resolve_upload_target: a path that names a folder means the folder; only *)
(* the folder that the path itself names is searched for a file to replace. *)
UploadTarget(dest, name) ==
    IF dest.path = << >> THEN [parent |-> Root, name |-> name, existing |-> Nobody]
    ELSE LET final  == IF dest.slash THEN name ELSE Last(dest.path)
             parent == ResolveExisting(IF dest.slash THEN dest.path ELSE Front(dest.path))
             folder == Find(parent, final, {TRUE})
             file   == Find(parent, final, {FALSE})
         IN  IF ~IsFolderAt(parent) \/ ~Listable(parent) THEN NoTarget
             ELSE IF folder # Nobody THEN [parent |-> folder, name |-> name, existing |-> Nobody]
             ELSE [parent |-> parent, name |-> final, existing |-> file]

(* ---- Steps --------------------------------------------------------------- *)

Running == run.result = "running"
Doing(op, pc) == Running /\ cmd.op = op /\ run.pc = pc

Go(pc) == run' = [run EXCEPT !.pc = pc]
End(result) == run' = [run EXCEPT !.result = result]

OnlyRun == UNCHANGED << objs, orig, device, local, disk, temp, cmd, faults, others >>
OnlyStorage == UNCHANGED << orig, device, local, disk, temp, cmd, faults, others >>
OnlyLocal == UNCHANGED << objs, orig, device, disk, cmd, faults, others >>

(* The call at hand fails: the device is gone or refuses for reasons of its *)
(* own.                                                                     *)
Fault == faults < MaxFaults /\ faults' = faults + 1
AfterFault == UNCHANGED << objs, orig, device, local, disk, cmd, others >>

(* existing_object, or resolve_existing for get, rm and mkdir's parent. *)
ResolveSource ==
    /\ Running /\ run.pc = "source" /\ cmd.op \in {"mv", "cp", "rm", "rename", "get"}
    /\ LET h == ResolveExisting(cmd.source)
       IN  IF h = Missing \/ (h = Root /\ cmd.op # "get") THEN End("error")
           ELSE run' = [run EXCEPT !.source = h,
                                   !.pc = CASE cmd.op = "rm"     -> "delete source"
                                            [] cmd.op = "rename" -> "siblings"
                                            [] cmd.op = "get"    -> "plan"
                                            [] OTHER             -> "target"]
    /\ OnlyRun

(* resolve_object_destination and ensure_rename_supported for mv and cp,    *)
(* resolve_upload_target for put.                                           *)
SourceName == IF cmd.op = "put" THEN "x" ELSE objs[run.source].name

ResolveTarget ==
    /\ Running /\ run.pc = "target" /\ cmd.op \in {"mv", "cp", "put"}
    /\ cmd.op = "put" \/ run.source \in DOMAIN objs
    /\ LET t == UploadTarget(cmd.dest, SourceName)
           renamed == cmd.op # "put" /\ t.name # SourceName
       IN  IF t.parent = Missing \/ (renamed /\ ~device.rename) THEN End("error")
           ELSE run' = [run EXCEPT !.parent = t.parent, !.name = t.name, !.existing = t.existing,
                                   !.renamed = renamed, !.had = SourceName,
                                   !.pc = IF cmd.op = "cp" THEN "siblings" ELSE "replace"]
    /\ OnlyRun

(* Mutant: cp does not look for its source's name in the destination. *)
CopySiblingsUnchecked ==
    /\ Doing("cp", "siblings") /\ Go("replace") /\ OnlyRun

(* cp: a clash with the source's own name stages the copy, or refuses it    *)
(* when the name is to stay.                                                *)
CopySiblings ==
    /\ Doing("cp", "siblings")
    /\ LET clash == {h \in Seen(run.parent) \ {run.existing} : Lower(objs[h].name) = Lower(run.had)}
       IN  IF ~Listable(run.parent) \/ (clash # {} /\ ~run.renamed) THEN End("error")
           ELSE run' = [run EXCEPT !.staged = clash # {}, !.pc = "replace"]
    /\ OnlyRun

(* ensure_not_same_object, --replace, and storage.delete of the object in   *)
(* the way.                                                                 *)
AfterReplace ==
    CASE cmd.op = "mv"  -> "move"
      [] cmd.op = "put" -> "upload"
      [] OTHER          -> IF run.staged THEN "stage" ELSE "copy"

MayReplace == cmd.replace /\ (cmd.op # "put" => run.existing # run.source)

Replace ==
    /\ Running /\ run.pc = "replace"
    /\ \/ /\ run.existing = Nobody
          /\ Go(AfterReplace) /\ OnlyRun
       \/ /\ run.existing # Nobody /\ ~MayReplace
          /\ End("error") /\ OnlyRun
       \/ /\ run.existing # Nobody /\ MayReplace
          /\ objs' = Removed(objs, {run.existing})
          /\ Go(AfterReplace) /\ OnlyStorage

(* mv: move_object keeps the handle, then a rename where it was asked for. *)
InDestination(h) == [objs[h] EXCEPT !.parent = run.parent]

Move ==
    /\ Doing("mv", "move")
    /\ IF Refuses(run.source, InDestination(run.source)) THEN End("error") /\ UNCHANGED objs
       ELSE /\ objs' = Placed(run.source, InDestination(run.source))
            /\ IF run.renamed THEN Go("rename") ELSE End("ok")
    /\ OnlyStorage

(* rename: the new name must be free among the siblings (mv and cp ask for  *)
(* the rename without that look).                                           *)
RenameSiblings ==
    /\ Doing("rename", "siblings")
    /\ IF ~device.rename \/ \E h \in Seen(objs[run.source].parent) \ {run.source} :
                                objs[h].name = cmd.name
       THEN End("error")
       ELSE run' = [run EXCEPT !.pc = "rename", !.name = cmd.name, !.copy = run.source]
    /\ OnlyRun

ToRename == IF cmd.op = "cp" THEN run.copy ELSE run.source
Renamed == [objs[ToRename] EXCEPT !.name = run.name]

CopyStops == IF run.staged THEN Go("clear") ELSE End("error")

Rename ==
    /\ Running /\ run.pc = "rename"
    /\ IF Refuses(ToRename, Renamed) THEN CopyStops /\ UNCHANGED objs
       ELSE /\ objs' = Placed(ToRename, Renamed)
            /\ IF run.staged THEN Go("move copy") ELSE End("ok")
    /\ OnlyStorage

(* cp: storage.copy_object refuses a name it sees in the folder, in whatever *)
(* case; otherwise the device makes a copy under the source's name.          *)
CopyDest == IF run.staged THEN run.stage ELSE run.parent
TheCopy == Obj(CopyDest, objs[run.source].name, FALSE, objs[run.source].data)

CopyBlocked ==
    ~Listable(CopyDest) \/ \E h \in Seen(CopyDest) : Lower(objs[h].name) = Lower(TheCopy.name)

(* A device that wrote over an object nobody could see may answer with a    *)
(* handle that names no copy, which verify_copy refuses.                    *)
Copy ==
    /\ Doing("cp", "copy")
    /\ IF CopyBlocked \/ Refuses(Fresh, TheCopy) THEN CopyStops /\ UNCHANGED objs
       ELSE /\ objs' = Placed(Fresh, TheCopy)
            /\ \/ run' = [run EXCEPT !.copy = Fresh,
                                     !.pc = IF run.renamed THEN "rename" ELSE "done",
                                     !.result = IF run.renamed THEN "running" ELSE "ok"]
               \/ Occupants(CopyDest, TheCopy.name, Fresh) # {} /\ CopyStops
    /\ OnlyStorage

(* staged_copy: a hidden folder, the copy and its rename in there, the move *)
(* out of it.                                                               *)
TheStage == Obj(run.parent, "stage", TRUE, 0)

Stage ==
    /\ Doing("cp", "stage")
    /\ objs' = Added(objs, Fresh, TheStage)
    /\ run' = [run EXCEPT !.stage = Fresh, !.pc = "copy"]
    /\ OnlyStorage

MoveCopy ==
    /\ Doing("cp", "move copy")
    /\ IF Refuses(run.copy, InDestination(run.copy)) THEN Go("clear") /\ UNCHANGED objs
       ELSE objs' = Placed(run.copy, InDestination(run.copy)) /\ Go("look up")
    /\ OnlyStorage

(* The copy is looked up by its new name: a move may give it a new handle. *)
LookUpCopy ==
    /\ Doing("cp", "look up")
    /\ run' = [run EXCEPT !.pc = "clear",
                          !.copied = Find(run.parent, run.name, BOOLEAN) # Nobody]
    /\ OnlyRun

(* Mutant: the staging folder is kept when a step failed. *)
ClearStageOnSuccess ==
    /\ Doing("cp", "clear")
    /\ objs' = IF run.copied THEN Removed(objs, Seen(run.stage)) ELSE objs
    /\ IF run.copied THEN Go("clear folder") ELSE End("error")
    /\ OnlyStorage

(* remove_staging_folder: what a failed step left in it, then the folder. *)
ClearStage ==
    /\ Doing("cp", "clear")
    /\ objs' = Removed(objs, Seen(run.stage))
    /\ Go("clear folder")
    /\ OnlyStorage

RemoveStage ==
    /\ Doing("cp", "clear folder")
    /\ objs' = Removed(objs, {run.stage})
    /\ End(IF run.copied THEN "ok" ELSE "error")
    /\ OnlyStorage

(* put: upload_with_progress. *)
TheUpload(data) == Obj(run.parent, run.name, FALSE, data)

Upload ==
    /\ Doing("put", "upload")
    /\ IF Refuses(Fresh, TheUpload(LocalData)) THEN End("error") /\ UNCHANGED objs
       ELSE /\ objs' = Placed(Fresh, TheUpload(LocalData))
            /\ run' = [run EXCEPT !.copy = Fresh, !.result = IF cmd.verify THEN @ ELSE "ok",
                                  !.pc = "verify"]
    /\ OnlyStorage

(* An upload that stops after its first transaction leaves a partial        *)
(* object, or the whole of it, whose handle the error carries; put deletes  *)
(* it.                                                                      *)
UploadStops ==
    /\ Doing("put", "upload") /\ Fault
    /\ ~Refuses(Fresh, TheUpload(Partial))
    /\ \E data \in {Partial, LocalData} : objs' = Placed(Fresh, TheUpload(data))
    /\ run' = [run EXCEPT !.copy = Fresh, !.pc = "drop partial"]
    /\ UNCHANGED << orig, device, local, disk, temp, cmd, others >>

(* Mutant: the error is reported and the partial forgotten. *)
PartialForgotten ==
    /\ Doing("put", "drop partial") /\ End("error") /\ OnlyRun

(* put: the partial object is deleted; a failure of that is not reported. *)
DropPartial ==
    /\ Doing("put", "drop partial")
    /\ objs' = Removed(objs, {run.copy})
    /\ End("error") /\ OnlyStorage

(* verify_remote_matches_local. *)
Verify ==
    /\ Doing("put", "verify")
    /\ End(IF run.copy \in DOMAIN objs /\ objs[run.copy].data = LocalData THEN "ok" ELSE "error")
    /\ OnlyRun

(* rm, mkdir. *)
WithoutSource == Removed(objs, {run.source} \cup ObjectsIn(run.source))

DeleteSource ==
    /\ Doing("rm", "delete source")
    /\ objs' = WithoutSource
    /\ End("ok") /\ OnlyStorage

Mkdir ==
    /\ Doing("mkdir", "source")
    /\ LET parent == ResolveExisting(Front(cmd.source))
           taken  == Find(parent, Last(cmd.source), BOOLEAN)
       IN  IF ~IsFolderAt(parent) \/ ~Listable(parent) \/ taken # Nobody THEN End("error")
           ELSE run' = [run EXCEPT !.parent = parent, !.name = Last(cmd.source), !.pc = "create"]
    /\ OnlyRun

TheFolder == Obj(run.parent, run.name, TRUE, 0)

CreateFolder ==
    /\ Doing("mkdir", "create")
    /\ IF Refuses(Fresh, TheFolder) THEN End("error") /\ UNCHANGED objs
       ELSE objs' = Added(objs, Fresh, TheFolder) /\ End("ok")
    /\ OnlyStorage

(* ---- get ----------------------------------------------------------------- *)

(* A local path is the names below the destination; two that differ in case  *)
(* alone are one file on a disk that folds case.                             *)
LocalPath(h) ==
    IF h = run.source THEN << >>
    ELSE IF objs[h].parent = run.source THEN << objs[h].name >>
    ELSE << objs[objs[h].parent].name, objs[h].name >>

Key(path) == IF disk.folds THEN [i \in DOMAIN path |-> Lower(path[i])] ELSE path

(* walk_folder: everything it is shown below the source. *)
Below(h) == LET top == Seen(h) IN top \cup UNION {Seen(g) : g \in top}
Entries == IF run.source # Root /\ ~objs[run.source].folder THEN {run.source} ELSE Below(run.source)
ToFetch == {h \in Entries : ~objs[h].folder}

(* get looks at the destination; a folder that cannot be listed or a name    *)
(* that cannot be local ends it before anything is written.                  *)
CannotPlan ==
    \/ disk.there /\ ~cmd.replace
    \/ \E h \in Entries \cup {run.source} : ~Listable(h)
    \/ \E h \in Entries \ {run.source} : BadName(objs[h].name)

Planned ==
    run' = [run EXCEPT !.files = [h \in ToFetch |-> [path |-> Key(LocalPath(h)), data |-> objs[h].data]],
                       !.pc = "next file"]

(* Mutant: names are compared as they are written. *)
PlanExactNames ==
    /\ Doing("get", "plan")
    /\ IF CannotPlan \/ \E g, h \in Entries : g # h /\ LocalPath(g) = LocalPath(h)
       THEN End("error") ELSE Planned
    /\ OnlyRun

(* plan_folder and check_no_collisions: nor does it write anything where two *)
(* entries are one local path.                                               *)
Plan ==
    /\ Doing("get", "plan")
    /\ IF CannotPlan \/ \E g, h \in Entries : g # h /\ Key(LocalPath(g)) = Key(LocalPath(h))
       THEN End("error") ELSE Planned
    /\ OnlyRun

(* download_file: the local file must be free, or to be replaced; then the   *)
(* temporary file is there.                                                  *)
Target == run.files[run.copy].path

Fetching(h, exists) ==
    /\ run' = [run EXCEPT !.copy = h, !.existing = IF exists THEN 1 ELSE Nobody, !.pc = "fetch"]
    /\ temp' = [data |-> run.files[h].data, whole |-> FALSE]

(* Mutant: the file to be replaced goes before its successor is there. *)
NextFileRemovesFirst ==
    /\ Doing("get", "next file") /\ run.done # DOMAIN run.files
    /\ LET h == Min(DOMAIN run.files \ run.done)
           exists == run.files[h].path \in DOMAIN local
       IN  IF exists /\ ~cmd.replace THEN End("error") /\ UNCHANGED << temp, local >>
           ELSE Fetching(h, FALSE) /\ local' = Removed(local, {run.files[h].path})
    /\ OnlyLocal

NextFile ==
    /\ Doing("get", "next file") /\ run.done # DOMAIN run.files
    /\ LET h == Min(DOMAIN run.files \ run.done)
           exists == run.files[h].path \in DOMAIN local
       IN  IF exists /\ ~cmd.replace THEN End("error") /\ UNCHANGED temp
           ELSE Fetching(h, exists)
    /\ local' = local /\ OnlyLocal

AllFetched ==
    /\ Doing("get", "next file") /\ run.done = DOMAIN run.files
    /\ End("ok") /\ OnlyRun

Fetch ==
    /\ Doing("get", "fetch")
    /\ temp' = [temp EXCEPT !.whole = TRUE]
    /\ Go(IF run.existing # Nobody THEN "remove old" ELSE "into place")
    /\ local' = local /\ OnlyLocal

NoTemp == [data |-> 0, whole |-> FALSE]

(* A download that stops takes its temporary file with it. *)
FetchFails ==
    /\ Doing("get", "fetch") /\ Fault
    /\ temp' = NoTemp
    /\ End("error")
    /\ AfterFault

RemoveOld ==
    /\ Doing("get", "remove old")
    /\ local' = Removed(local, {Target})
    /\ Go("into place")
    /\ temp' = temp /\ OnlyLocal

IntoPlace ==
    /\ Doing("get", "into place")
    /\ local' = Added(local, Target, IF temp.whole THEN temp.data ELSE Partial)
    /\ temp' = NoTemp
    /\ run' = [run EXCEPT !.done = @ \cup {run.copy}, !.pc = "next file"]
    /\ OnlyLocal

(* ---- Faults -------------------------------------------------------------- *)

(* The storage after a call that took effect though its answer was lost, as  *)
(* UsbObjects has it for SendObjectInfo: of an upload there is a file that   *)
(* waits for its data, whose handle nobody learns.                           *)
PlacedUnheard(h, o) == IF Refuses(h, o) THEN {} ELSE {Placed(h, o)}

Unheard ==
    CASE run.pc = "replace"       -> IF MayReplace THEN {Removed(objs, {run.existing})} ELSE {}
      [] run.pc = "move"          -> PlacedUnheard(run.source, InDestination(run.source))
      [] run.pc = "rename"        -> PlacedUnheard(ToRename, Renamed)
      [] run.pc = "copy"          -> IF CopyBlocked THEN {} ELSE PlacedUnheard(Fresh, TheCopy)
      [] run.pc = "stage"         -> {Added(objs, Fresh, TheStage)}
      [] run.pc = "move copy"     -> PlacedUnheard(run.copy, InDestination(run.copy))
      [] run.pc = "clear"         -> {Removed(objs, S) : S \in SUBSET Seen(run.stage)}
      [] run.pc = "clear folder"  -> {Removed(objs, {run.stage})}
      [] run.pc = "upload"        -> PlacedUnheard(Fresh, TheUpload(Partial))
      [] run.pc = "drop partial"  -> {Removed(objs, {run.copy})}
      [] run.pc = "delete source" -> {WithoutSource}
      [] run.pc = "create"        -> PlacedUnheard(Fresh, TheFolder)
      [] OTHER                    -> {}

(* Any other call fails, heard of by the device or not: the command ends    *)
(* with the error, except that a staged copy first clears its folder, and   *)
(* says so if that fails.                                                   *)
CallFails ==
    /\ Running /\ Fault /\ run.pc # "fetch"
    /\ run.pc = "replace" => run.existing # Nobody
    /\ objs' \in {objs} \cup Unheard
    /\ IF run.pc \in {"copy", "rename", "move copy", "look up"} /\ run.stage # Nobody
       THEN Go("clear")
       ELSE run' = [run EXCEPT !.result = "error", !.named = (run.pc \in {"clear", "clear folder"})]
    /\ UNCHANGED << orig, device, local, disk, temp, cmd, others >>

Killed ==
    /\ Running /\ End("killed") /\ OnlyRun

(* Another program adds a file, once the command has begun. *)
OtherAdds ==
    /\ Running /\ others < MaxOthers
    /\ \E p \in {Root, 1} : Occupants(p, "y", Nobody) = {}
           /\ objs' = Added(objs, Fresh, Obj(p, "y", FALSE, Elsewhere))
    /\ others' = others + 1
    /\ UNCHANGED << orig, device, local, disk, temp, cmd, run, faults >>

(* ---- The specification --------------------------------------------------- *)

Sources == { << "x" >>, << "b", "x" >> }
Dests ==
    { [path |-> << >>, slash |-> FALSE] }
        \cup { [path |-> << "b" >>, slash |-> s] : s \in BOOLEAN }
        \cup { [path |-> p, slash |-> FALSE] : p \in {<< "x" >>, << "y" >>, << "b", "x" >>, << "b", "y" >>, << "b", "X" >>} }

Commands ==
    [op : {"mv", "cp"}, source : Sources, dest : Dests, replace : BOOLEAN]
        \cup [op : {"put"}, dest : Dests, replace : BOOLEAN, verify : BOOLEAN]
        \cup [op : {"rm"}, source : Sources \cup {<< "b" >>}]
        \cup [op : {"rename"}, source : Sources, name : {"x", "y", "X"}]
        \cup [op : {"mkdir"}, source : {<< "d" >>, << "b", "x" >>, << "b", "d" >>}]
        \cup [op : {"get"}, source : Sources \cup {<< >>, << "b" >>}, replace : BOOLEAN]

(* A destination that is there is the file, or a folder with a file x. *)
OldData == -1
OldPath == IF cmd.source \in Sources THEN << >> ELSE << "x" >>

CliInit ==
    /\ \E present \in SUBSET OptionalObjects :
          objs = [h \in {1, 2} \cup present |-> Catalogue[h]]
    /\ orig = objs
    /\ cmd \in Commands
    /\ device \in [clash : {"refuse", "both", "overwrite"}, folds : BOOLEAN, rename : BOOLEAN,
                   dim : {S \in SUBSET DOMAIN objs : Cardinality(S) <= MaxDim}]
    /\ device.clash # "both" => \A h \in DOMAIN objs : Occupants(objs[h].parent, objs[h].name, h) = {}
    /\ disk \in [there : BOOLEAN, folds : BOOLEAN]
    /\ cmd.op # "get" => disk = [there |-> FALSE, folds |-> FALSE]
    /\ (\E h \in DOMAIN objs : BadName(objs[h].name)) => cmd.op = "get"
    /\ cmd.op = "get" => device.clash = "refuse" /\ ~device.folds /\ device.rename
    /\ local = [n \in IF disk.there THEN {OldPath} ELSE {} |-> OldData]
    /\ temp = NoTemp
    /\ run = [pc |-> IF cmd.op = "put" THEN "target" ELSE "source", result |-> "running",
              source |-> Nobody, parent |-> Root, name |-> "", had |-> "", existing |-> Nobody,
              renamed |-> FALSE, staged |-> FALSE, stage |-> Nobody, copy |-> Nobody,
              copied |-> FALSE, named |-> FALSE, files |-> [h \in {} |-> 0], done |-> {}]
    /\ faults = 0 /\ others = 0

CliStep ==
    \/ ResolveSource \/ ResolveTarget \/ CopySiblings \/ Replace \/ Move \/ RenameSiblings
    \/ Rename \/ Copy \/ Stage \/ MoveCopy \/ LookUpCopy \/ ClearStage \/ RemoveStage \/ Upload \/ UploadStops \/ DropPartial
    \/ Verify \/ DeleteSource \/ Mkdir \/ CreateFolder \/ Plan \/ NextFile \/ AllFetched \/ Fetch \/ FetchFails
    \/ RemoveOld \/ IntoPlace \/ CallFails

CliNext == CliStep \/ Killed \/ OtherAdds

CliSpec == CliInit /\ [][CliNext]_cliVars

(* ---- Properties ---------------------------------------------------------- *)

Returned == run.result \in {"ok", "error"}
Spared(h) == h \in DOMAIN objs /\ objs[h] = orig[h]

(* A name the device takes for the asked one, though it is spelt otherwise:  *)
(* paths are matched exactly ("devices disagree about case behavior").       *)
IsVariant(h) ==
    device.folds /\ orig[h].parent = run.parent
        /\ orig[h].name # run.name /\ Lower(orig[h].name) = Lower(run.name)

(* An object the device cannot describe, under the name asked for or the     *)
(* source's: "Objects in the destination the device couldn't describe [...]  *)
(* have no known name and don't block the copy" (storage.rs).                *)
IsUnseen(h) ==
    /\ h \in device.dim /\ orig[h].parent = run.parent
    /\ \E name \in {run.name, run.had} : DeviceSameName(orig[h].name, name)

(* No call of the command failed, nobody else wrote, and the device can      *)
(* describe whatever was in the destination.                                 *)
Undisturbed == faults = 0 /\ others = 0 /\ \A h \in device.dim : orig[h].parent # run.parent

(* cp leaves everything that was on the storage as it was, whatever the      *)
(* device does about a name that is taken, and wherever it fails or is       *)
(* killed: all it may cost is the file --replace gave up, one whose name     *)
(* is the asked one in another case, or one no listing shows.  Nor does it   *)
(* give up the former for a copy that cannot be made: cp.rs says to "Decide  *)
(* before `--replace` deletes anything, so a copy that can't happen never    *)
(* costs the destination", which it can where it sees all of the             *)
(* destination.                                                              *)
CopyHarmsNothing ==
    cmd.op = "cp" =>
        \A h \in DOMAIN orig :
            \/ Spared(h) \/ IsVariant(h) \/ IsUnseen(h)
            \/ cmd.replace /\ h = run.existing /\ (run.result = "error" => ~Undisturbed)

(* A cp that returns has removed its staging folder, with whatever a failed  *)
(* step left in it, or its error names the folder, unless that step is the   *)
(* one that made the folder: create_folder failed, and its answer, with the  *)
(* folder's handle, was lost.                                                *)
StagingIsCleared ==
    Returned /\ cmd.op = "cp" =>
        run.named \/ run.pc = "stage" \/ \A h \in DOMAIN objs : objs[h].name # "stage"

(* A put that returns leaves no part of a file behind, unless the delete     *)
(* failed as well, or the upload failed in its first transaction, whose      *)
(* answer, with the handle to delete, was lost.                              *)
NoJunkFromPut ==
    Returned /\ faults < 2 => run.pc = "upload" \/ \A h \in DOMAIN objs : objs[h].data # Partial

(* At no moment of a get, killed ones included, is a file that was there     *)
(* gone with nothing whole in its stead: it, or its successor, is in its     *)
(* place or in the temporary file.  No part of a file gets a final name, and *)
(* only a kill leaves a part of one in a temporary file.                     *)
InterruptedGetKeepsFile ==
    cmd.op = "get" =>
        /\ disk.there => OldPath \in DOMAIN local \/ temp.whole
        /\ \A path \in DOMAIN local : local[path] # Partial
        /\ Returned => temp = NoTemp \/ temp.whole

(* A get that succeeds has brought every file it was shown below the source, *)
(* each to a file of its own, whether or not the local disk tells cases      *)
(* apart.                                                                    *)
FolderCopyIsFaithful ==
    cmd.op = "get" /\ run.result = "ok" =>
        \A h \in DOMAIN run.files :
            run.files[h].path \in DOMAIN local /\ local[run.files[h].path] = run.files[h].data

(* docs/cli.md: "If a destination file exists, pass `--replace` where        *)
(* supported."  Without it, no mv, cp or put costs a file that was there.    *)
ReplaceIsAsked ==
    (cmd.op \in {"mv", "cp", "put"} /\ ~cmd.replace) =>
        \A h \in DOMAIN orig : h \in DOMAIN objs \/ IsVariant(h)

(* What cp and put do to the storage when something fails: a cp costs no     *)
(* file that it sees and was not asked to give up, and neither leaves junk   *)
(* behind that it could know of.  What mv and put cost is ReplaceIsAsked.    *)
RemoteIsSafe == CopyHarmsNothing /\ StagingIsCleared /\ NoJunkFromPut

(* get never costs a local file, and brings all it says it brought.          *)
LocalIsSafe == InterruptedGetKeepsFile /\ FolderCopyIsFaithful
=============================================================================
