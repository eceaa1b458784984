------------------------------ MODULE HostProofs -----------------------------
(***************************************************************************)
(* What a host may count on, proved of CliCommands, for whichever objects  *)
(* a storage holds and hides, any number of calls that fail, heard of by   *)
(* the device or not, and of files another program adds, of MtpDateTime,   *)
(* for every day, second and offset, and of DeviceOpen, for any number of  *)
(* devices and interfaces.                                                 *)
(*                                                                         *)
(* What every command keeps is BaseInv: the shape of the storage and of    *)
(* the call, where the command may be, that the object it is about stays   *)
(* while it is needed, and that a part of a file is the one put is about   *)
(* to delete, or one of which it never heard.                              *)
(*                                                                         *)
(* get (GetInv): entries have paths of their own, what has been fetched is *)
(* in its place, and the old file goes only once a whole one is there.     *)
(*                                                                         *)
(* cp (CpInv): its promises are not inductive.  That it harms nothing it   *)
(* sees needs to know why the target path names one such file at most      *)
(* (TargetInv), so that what a device writes over is a variant of the      *)
(* asked name or hidden (InTheWay, CopyOver); that a file given up for a   *)
(* copy is not given up in vain needs the look at the siblings to hold     *)
(* until the copy is made (DecidedInv); both need what the staging folder  *)
(* holds at each step (StageInv, CopyInv).                                 *)
(*                                                                         *)
(* The calendar: a year that begins in March is a number of eras,          *)
(* centuries, four years and years (YearParts), and so is its first day    *)
(* (StartIs); civil_from_days undoes this (YearOfEra, CivilFromDaysIs),    *)
(* and the months of such a year follow one table (MonthsAre).             *)
(*                                                                         *)
(* The open (ChoiceInv): places are positions, a virtual device is at none *)
(* of them, and the answer is none yet or what the attached devices give.  *)
(* Every device that is an answer is one of four (AnswerReaches).          *)
(***************************************************************************)
EXTENDS CliCommands, MtpDateTime, DeviceOpen, FiniteSetTheorems, TLAPS

-----------------------------------------------------------------------------
(* The inductive invariants. *)

(* What is on the storage, and what was: a few objects of the catalogue.      *)
Names == {"", "b", "x", "y", "X", "a/b", "d", "stage"}
Things == [parent : Int, name : Names, folder : BOOLEAN, data : Int]

StorageInv ==
  /\ IsFiniteSet(DOMAIN objs) /\ DOMAIN objs \subseteq Nat \ {0}
  /\ \A h \in DOMAIN objs : objs[h] \in Things /\ (h \in DOMAIN orig \/ h >= 8)

OrigInv ==
  /\ orig = [h \in DOMAIN orig |-> Catalogue[h]]
  /\ {1, 2} \subseteq DOMAIN orig /\ DOMAIN orig \subseteq 1 .. 7 /\ device.dim \subseteq DOMAIN orig
  /\ device.clash # "both" => \A g, h \in DOMAIN orig :
       g # h /\ orig[g].parent = orig[h].parent => ~DeviceSameName(orig[g].name, orig[h].name)

Points ==
  {"source", "target", "siblings", "replace", "move", "rename", "copy", "done", "stage", "move copy",
   "look up", "clear", "clear folder", "upload", "drop partial", "verify", "delete source", "create",
   "plan", "next file", "fetch", "remove old", "into place"}

Runs ==
  [pc : Points, result : {"running", "ok", "error", "killed"},
   source : Int, parent : Int, name : Names, had : Names,
   existing : Int, renamed : BOOLEAN, staged : BOOLEAN, stage : Int, copy : {run.copy},
   copied : BOOLEAN, named : BOOLEAN, files : {run.files}, done : {run.done}]

Early == {"source", "target", "siblings", "replace"}
Late == {"copy", "rename", "move copy", "look up", "clear", "clear folder"}
Idle == {"source", "plan", "next file"}
Placing == {"fetch", "remove old", "into place"}

CallInv ==
  /\ cmd \in Commands /\ run \in Runs
  /\ temp \in [data : {temp.data}, whole : BOOLEAN] /\ faults \in Nat /\ others \in Nat

(* Where a command may be.                                                    *)
PointsOf(op) ==
  CASE op = "mv"     -> {"source", "target", "replace", "move", "rename"}
    [] op = "cp"     -> Early \cup {"stage", "done"} \cup Late
    [] op = "put"    -> {"target", "replace", "upload", "drop partial", "verify"}
    [] op = "rm"     -> {"source", "delete source"}
    [] op = "rename" -> {"source", "siblings", "rename"}
    [] op = "mkdir"  -> {"source", "create"}
    [] OTHER         -> Idle \cup Placing

PlaceInv ==
  /\ run.pc \in PointsOf(cmd.op)
  /\ run.staged \/ run.stage # Nobody => cmd.op = "cp"

(* The object a command is about stays while it is needed.                    *)
SourceInv == Running =>
  /\ cmd.op = "get" /\ run.pc = "plan" => run.source \in DOMAIN objs \cup {Root}
  /\ cmd.op \in {"mv", "rename"} /\ run.pc # "source" => run.source \in DOMAIN objs
  /\ cmd.op = "cp" /\ run.pc \in {"target", "siblings", "replace", "stage", "copy"} =>
       /\ run.source \in DOMAIN objs
       /\ run.pc # "target" => objs[run.source].name = run.had
  /\ cmd.op = "cp" /\ run.pc \in {"rename", "move copy"} => run.copy \in DOMAIN objs

(* A part of a file is the one that put is about to delete, could not delete, *)
(* or never heard of.                                                         *)
PartInv ==
  \A h \in DOMAIN objs :
    objs[h].data = Partial =>
      /\ faults >= 1
      /\ Running => cmd.op = "put" /\ run.pc = "drop partial" /\ h = run.copy
      /\ Returned => run.pc = "upload" \/ faults >= 2

-----------------------------------------------------------------------------
(* get *)


(* What is to be fetched: each to a path of its own, none a part of a file.   *)
PlanInv ==
  /\ run.pc \in {"source", "plan"} => DOMAIN run.files = {}
  /\ IsFiniteSet(DOMAIN run.files) /\ DOMAIN run.files \subseteq Nat
  /\ \A g, h \in DOMAIN run.files : run.files[g].path = run.files[h].path => g = h
  /\ \A h \in DOMAIN run.files : run.files[h].data \in Int \ {Partial}
  /\ run.result = "ok" => run.done = DOMAIN run.files

(* What has been fetched is in its place.                                     *)
FetchedInv ==
  /\ run.done \subseteq DOMAIN run.files
  /\ \A h \in run.done : run.files[h].path \in DOMAIN local /\ local[run.files[h].path] = run.files[h].data
  /\ \A path \in DOMAIN local : local[path] # Partial

(* The file at hand: whole before the old one goes, which its path names.     *)
TempInv ==
  /\ run.pc \in Idle => temp = NoTemp
  /\ run.pc \in Placing => run.copy \in DOMAIN run.files \ run.done
  /\ Running /\ run.pc \in Placing => temp.data = run.files[run.copy].data
  /\ run.pc \in {"remove old", "into place"} => temp.whole
  /\ run.pc = "fetch" /\ Returned => temp = NoTemp
  /\ disk.there => OldPath \in DOMAIN local \/ (run.pc = "into place" /\ Target = OldPath)

GetInv == cmd.op = "get" => PlanInv /\ FetchedInv /\ TempInv

-----------------------------------------------------------------------------
(* cp *)


(* The folders are b and the staging folder, and everything is in one, unless *)
(* the answer to create_folder was lost, and the folder's handle with it.     *)
Lost == run.pc = "stage" /\ run.result = "error"

Housed ==
  \A h \in DOMAIN objs :
    /\ objs[h].parent \in {Root, 1} \/ (run.stage # Nobody /\ objs[h].parent = run.stage)
    /\ objs[h].folder => h = 1 \/ h = run.stage
    /\ objs[h].name = "stage" => h = run.stage

FolderInv ==
  /\ run.parent \in {Root, 1} /\ run.name # "stage" /\ run.had # "stage"
  /\ Lost \/ Housed

(* The staging folder is there while the copy is in it, and holds the copy.   *)
StageThere ==
  run.stage # Nobody =>
    run.stage \in DOMAIN objs /\ objs[run.stage].name = "stage" /\ objs[run.stage].folder

StageInv ==
  /\ run.stage # Nobody => run.stage >= 8 /\ run.staged /\ run.pc \in Late
  /\ run.staged => run.renamed /\ run.pc \notin {"source", "target", "siblings"}
  /\ run.pc \in {"stage", "move copy", "look up", "clear", "clear folder"} => run.staged
  /\ run.pc \in Late /\ run.staged => run.stage # Nobody
  /\ Returned /\ run.stage \in DOMAIN objs => run.named
  /\ Running /\ run.pc \in Late \ {"clear folder"} => StageThere
  /\ run.pc \in Late \ {"clear folder"} /\ run.stage # Nobody =>
       /\ run.pc = "copy" => ObjectsIn(run.stage) = {}
       /\ run.pc \in {"rename", "move copy"} => ObjectsIn(run.stage) = {run.copy}
  /\ run.pc = "clear folder" => ObjectsIn(run.stage) = {}

(* The copy, where it is made and where it is to go.                          *)
CopyInv == Running =>
  /\ run.pc \in {"rename", "move copy", "look up"} =>
       /\ run.copy \in DOMAIN objs /\ run.copy >= 8 /\ ~objs[run.copy].folder
       /\ objs[run.copy].parent = IF run.staged /\ run.pc # "look up" THEN run.stage ELSE run.parent
       /\ run.pc # "rename" => objs[run.copy].name = run.name
  /\ run.pc = "rename" => run.renamed

(* What the target path names: the file to be replaced, and nothing else of   *)
(* that name that can be seen where names are unique.                         *)
TargetInv ==
  run.pc \notin {"source", "target"} =>
    /\ \A g \in DOMAIN orig \ device.dim : run.renamed /\ orig[g].parent = run.parent /\ orig[g].name = run.name =>
         ~orig[g].folder /\ (device.clash # "both" => g = run.existing)
    /\ run.existing \in DOMAIN orig =>
         /\ orig[run.existing].parent = run.parent /\ orig[run.existing].name = run.name
         /\ ~orig[run.existing].folder
    /\ faults = 0 /\ others = 0 /\ run.existing # Nobody => run.existing \in DOMAIN orig

(* What was on the storage is as it was, or gone for a reason.                *)
HarmInv ==
  /\ \A h \in DOMAIN orig \cap DOMAIN objs : objs[h] = orig[h]
  /\ \A h \in DOMAIN orig \ DOMAIN objs : IsVariant(h) \/ IsUnseen(h) \/ (cmd.replace /\ h = run.existing)
  /\ run.pc \in Early /\ (Running \/ faults = 0) => DOMAIN orig \subseteq DOMAIN objs
  /\ run.pc \in {"stage"} \cup Late => run.existing \notin DOMAIN orig \cap DOMAIN objs

(* A copy that gives up a file is made, where nothing disturbs it.            *)
GivesUp == Undisturbed /\ run.existing # Nobody
Quiet == Running /\ faults = 0 /\ others = 0

DecidedInv ==
  /\ Quiet => \A h \in DOMAIN objs :
       h \in DOMAIN orig \/ h = run.stage
         \/ (h = run.copy /\ run.pc \in {"rename", "move copy", "look up", "clear", "clear folder"})
  /\ Quiet /\ ~run.staged /\ run.pc \in {"replace", "copy"} =>
       \A h \in Seen(run.parent) \ {run.existing} : Lower(objs[h].name) # Lower(run.had)
  /\ GivesUp /\ run.pc \in {"clear", "clear folder"} => run.copied
  /\ GivesUp /\ run.result = "error" => run.pc \in Early

CpInv == cmd.op = "cp" =>
  FolderInv /\ StageInv /\ CopyInv /\ TargetInv /\ HarmInv /\ DecidedInv

BaseInv == StorageInv /\ OrigInv /\ CallInv /\ PlaceInv /\ SourceInv /\ PartInv
CliInv == BaseInv /\ GetInv /\ CpInv
-----------------------------------------------------------------------------
(* Finding and adding objects *)

(* A finite set of numbers has a least one: otherwise each would have fewer   *)
(* numbers below it than there are, at least one, and no two the same.        *)
LEMMA LeastNumber ==
  ASSUME NEW S \in SUBSET Nat, IsFiniteSet(S), S # {}
  PROVE  \E m \in S : \A k \in S : m <= k
<1> DEFINE L(x) == {y \in S : y < x}
           n == Cardinality(S)
           r == [x \in S |-> Cardinality(L(x))]
<1>1. SUFFICES ASSUME \A m \in S : L(m) # {} PROVE FALSE
  <2>1. ASSUME NEW m \in S, L(m) = {} PROVE \A k \in S : m <= k
    <3>1. TAKE k \in S
    <3>2. m \in Nat /\ k \in Nat /\ ~(k < m)
      BY <2>1, <3>1
    <3> QED BY <3>2
  <2> QED BY <2>1
<1>2. n \in Nat
  BY FS_CardinalityType
<1>3. ASSUME NEW x \in S
      PROVE  IsFiniteSet(L(x)) /\ Cardinality(L(x)) \in 1 .. n - 1
  <2>1. L(x) \in SUBSET S /\ x \notin L(x)
    OBVIOUS
  <2>2. IsFiniteSet(L(x)) /\ Cardinality(L(x)) <= n /\ Cardinality(L(x)) # n
    BY <2>1, FS_Subset
  <2>3. Cardinality(L(x)) \in Nat
    BY <2>2, FS_CardinalityType
  <2>4. Cardinality(L(x)) # 0
    BY <1>1, <2>2, FS_EmptySet
  <2> QED BY <1>2, <2>2, <2>3, <2>4
<1>4. ASSUME NEW x \in S, NEW y \in S, x < y
      PROVE  Cardinality(L(x)) # Cardinality(L(y))
  <2>1. x \in Nat /\ y \in Nat
    OBVIOUS
  <2>2. L(x) \in SUBSET L(y)
    <3>1. SUFFICES ASSUME NEW z \in S, z < x PROVE z < y
      OBVIOUS
    <3>2. z \in Nat
      BY <3>1
    <3> QED BY <1>4, <2>1, <3>1, <3>2
  <2>3. x \in L(y) /\ x \notin L(x)
    BY <1>4, <2>1
  <2>4. IsFiniteSet(L(y))
    BY <1>3
  <2> QED BY <2>2, <2>3, <2>4, FS_Subset
<1> HIDE DEF L
<1>5. IsFiniteSet(1 .. n - 1) /\ Cardinality(1 .. n - 1) < n
  <2>1. n # 0
    BY FS_EmptySet
  <2>2. 1 \in Int /\ n - 1 \in Int
    BY <1>2
  <2> HIDE DEF n
  <2>3. IsFiniteSet(1 .. n - 1) /\ Cardinality(1 .. n - 1) = IF 1 > n - 1 THEN 0 ELSE (n - 1) - 1 + 1
    BY <2>2, FS_Interval
  <2> QED BY <1>2, <2>1, <2>3
<1>6. r \in [S -> 1 .. n - 1]
  BY <1>3
<1>7. PICK x \in S, y \in S : x # y /\ r[x] = r[y]
  <2> HIDE DEF r, n
  <2> QED BY <1>5, <1>6, FS_PigeonHole DEF n
<1>8. Cardinality(L(x)) = Cardinality(L(y))
  BY <1>7
<1>9. x < y \/ y < x
  <2>1. x \in Nat /\ y \in Nat
    OBVIOUS
  <2> QED BY <1>7, <2>1
<1> QED BY <1>4, <1>8, <1>9

LEMMA MinIs ==
  ASSUME NEW S \in SUBSET Nat, IsFiniteSet(S), S # {}
  PROVE  Min(S) \in S /\ \A k \in S : Min(S) <= k
<1>1. \E m \in S : \A k \in S : m <= k
  BY LeastNumber
<1> QED BY <1>1 DEF Min

(* A new handle: there is always one.                                         *)
LEMMA FreshIs ==
  ASSUME StorageInv
  PROVE  Fresh \in Nat /\ Fresh >= 8 /\ Fresh \notin DOMAIN objs
<1>1. PICK n \in Nat : n = Cardinality(DOMAIN objs)
  BY FS_CardinalityType DEF StorageInv
<1>2. \E h \in 8 .. 8 + n : h \notin DOMAIN objs
  <2> SUFFICES ASSUME 8 .. 8 + n \subseteq DOMAIN objs PROVE FALSE
    OBVIOUS
  <2>0. 8 \in Int /\ 8 + n \in Int
    BY <1>1
  <2>1. IsFiniteSet(8 .. 8 + n) /\ Cardinality(8 .. 8 + n) = IF 8 > 8 + n THEN 0 ELSE (8 + n) - 8 + 1
    BY <2>0, FS_Interval
  <2>2. Cardinality(8 .. 8 + n) <= n
    BY <1>1, FS_Subset DEF StorageInv
  <2> QED BY <1>1, <2>1, <2>2
<1>3. Fresh \in 8 .. 8 + n /\ Fresh \notin DOMAIN objs
  BY <1>1, <1>2 DEF Fresh
<1> QED BY <1>1, <1>3

(* An object found by name is one of the folder's that can be seen.           *)
Sighted == DOMAIN objs \ device.dim

LEMMA FindIs ==
  ASSUME StorageInv, NEW parent, NEW name, NEW folder
  PROVE  /\ \A h \in Sighted :
              objs[h].parent = parent /\ objs[h].name = name /\ objs[h].folder \in folder =>
                Find(parent, name, folder) <= h
         /\ Find(parent, name, folder) # Nobody =>
              /\ Find(parent, name, folder) \in Sighted
              /\ objs[Find(parent, name, folder)].parent = parent
              /\ objs[Find(parent, name, folder)].name = name
              /\ objs[Find(parent, name, folder)].folder \in folder
         /\ Find(parent, name, folder) = Nobody => \A h \in Sighted :
              ~(objs[h].parent = parent /\ objs[h].name = name /\ objs[h].folder \in folder)
         /\ Find(parent, name, folder) \in Nat
<1> DEFINE found == {h \in Seen(parent) : objs[h].name = name /\ objs[h].folder \in folder}
<1>1. found \in SUBSET DOMAIN objs
  BY DEF Seen, ObjectsIn
<1>2. IsFiniteSet(found) /\ found \in SUBSET (Nat \ {0})
  BY <1>1, FS_Subset DEF StorageInv
<1>3. CASE found = {}
  <2>1. Find(parent, name, folder) = Nobody
    BY <1>3 DEF Find
  <2> QED BY <1>3, <2>1 DEF Seen, ObjectsIn, Sighted, Nobody
<1>4. CASE found # {}
  <2>1. Find(parent, name, folder) = Min(found)
    BY <1>4 DEF Find
  <2>2. Min(found) \in found /\ \A k \in found : Min(found) <= k
    BY <1>2, <1>4, MinIs
  <2> QED BY <1>2, <2>1, <2>2 DEF Seen, ObjectsIn, Sighted, Nobody
<1> QED BY <1>3, <1>4

(* What a device writes over for an object.                                   *)
WrittenOver(h, o) ==
  IF device.clash = "overwrite" THEN Occupants(o.parent, o.name, h) ELSE {}

(* What is on the storage stays of its shape, and without parts of files.     *)
NoPart == \A h \in DOMAIN objs : objs[h].data # Partial

LEMMA StorageKeeps ==
  ASSUME StorageInv, NEW gone, NEW x \in Nat \ {0}, x \in DOMAIN objs \/ x >= 8, NEW o \in Things,
         \/ objs' = objs
         \/ objs' = Removed(objs, gone)
         \/ objs' = Added(objs, x, o)
         \/ objs' = Placed(x, o),
         orig' = orig
  PROVE  /\ StorageInv'
         /\ \A h \in DOMAIN objs' : (h = x /\ objs'[h] = o) \/ (h \in DOMAIN objs /\ objs'[h] = objs[h])
         /\ NoPart /\ o.data # Partial => PartInv' /\ NoPart'
<1>1. /\ DOMAIN objs' \subseteq DOMAIN objs \cup {x}
      /\ \A h \in DOMAIN objs' : (h = x /\ objs'[h] = o) \/ (h \in DOMAIN objs /\ objs'[h] = objs[h])
  <2>1. CASE objs' = objs
    BY <2>1
  <2>2. CASE objs' = Removed(objs, gone)
    BY <2>2 DEF Removed
  <2>3. CASE objs' = Added(objs, x, o)
    <3>1. /\ DOMAIN objs' = DOMAIN objs \cup {x} /\ objs'[x] = o
          /\ \A y \in DOMAIN objs \ {x} : objs'[y] = objs[y]
      BY <2>3 DEF Added
    <3> QED BY <3>1
  <2>4. CASE objs' = Placed(x, o)
    <3>1. /\ DOMAIN objs' = (DOMAIN objs \ WrittenOver(x, o)) \cup {x} /\ objs'[x] = o
          /\ \A g \in DOMAIN objs \ (WrittenOver(x, o) \cup {x}) : objs'[g] = objs[g]
      BY <2>4 DEF Placed, WrittenOver, Added, Removed, Occupants
    <3> QED BY <3>1
  <2> QED BY <2>1, <2>2, <2>3, <2>4
<1>3. IsFiniteSet(DOMAIN objs \cup {x})
  BY FS_AddElement DEF StorageInv
<1>4. IsFiniteSet(DOMAIN objs')
  BY <1>1, <1>3, FS_Subset
<1>5. StorageInv'
  <2>1. ASSUME NEW h \in DOMAIN objs'
        PROVE  objs'[h] \in Things /\ (h \in DOMAIN orig \/ h >= 8) /\ h \in Nat \ {0}
    BY <1>1, <2>1 DEF StorageInv
  <2> QED BY <1>4, <2>1 DEF StorageInv
<1>6. ASSUME NoPart, o.data # Partial PROVE PartInv' /\ NoPart'
  <2>1. \A h \in DOMAIN objs' : objs'[h].data # Partial
    BY <1>1, <1>6 DEF NoPart
  <2> QED BY <2>1 DEF PartInv, NoPart
<1> QED BY <1>1, <1>5, <1>6
-----------------------------------------------------------------------------
(* Commands and what their paths name *)

LEMMA CommandIs ==
  ASSUME CallInv
  PROVE  /\ cmd.op \in {"mv", "cp", "put", "rm", "rename", "mkdir", "get"}
         /\ cmd.op \in {"mv", "cp"} => cmd.source \in Sources
         /\ cmd.op \in {"mv", "cp", "put"} => cmd.dest \in Dests
         /\ cmd.op = "rename" => cmd.name \in Names
         /\ cmd.op = "mkdir" => cmd.source \in {<<"d">>, <<"b", "x">>, <<"b", "d">>}
<1> DEFINE A == [op : {"mv", "cp"}, source : Sources, dest : Dests, replace : BOOLEAN]
           B == [op : {"put"}, dest : Dests, replace : BOOLEAN, verify : BOOLEAN]
           C == [op : {"rm"}, source : Sources \cup {<< "b" >>}]
           D == [op : {"rename"}, source : Sources, name : {"x", "y", "X"}]
           E == [op : {"mkdir"}, source : {<< "d" >>, << "b", "x" >>, << "b", "d" >>}]
           F == [op : {"get"}, source : Sources \cup {<< >>, << "b" >>}, replace : BOOLEAN]
<1>1. cmd \in A \/ cmd \in B \/ cmd \in C \/ cmd \in D \/ cmd \in E \/ cmd \in F
  BY DEF CallInv, Commands
<1>2. CASE cmd \in A
  BY <1>2
<1>3. CASE cmd \in B
  BY <1>3
<1>4. CASE cmd \in C
  BY <1>4
<1>5. CASE cmd \in D
  BY <1>5 DEF Names
<1>6. CASE cmd \in E
  BY <1>6
<1>7. CASE cmd \in F
  BY <1>7
<1> QED BY <1>1, <1>2, <1>3, <1>4, <1>5, <1>6, <1>7

(* What a path names.                                                         *)
LEMMA ResolveIs ==
  ASSUME StorageInv, NEW path
  PROVE  /\ ResolveExisting(path) \in DOMAIN objs \cup {Root, Missing}
         /\ ResolveExisting(path) \in Int
<1> DEFINE top == Find(Root, path[1], BOOLEAN)
           next == Find(top, path[2], BOOLEAN)
<1>1. ResolveExisting(path) \in {Root, Missing, top, next}
      /\ (ResolveExisting(path) = top => top # Nobody \/ top = Root)
  BY DEF ResolveExisting, Root, Nobody
<1>2. top \in DOMAIN objs \cup {Nobody} /\ next \in DOMAIN objs \cup {Nobody}
  BY FindIs DEF Sighted
<1>3. DOMAIN objs \subseteq Nat
  BY DEF StorageInv
<1> QED BY <1>1, <1>2, <1>3 DEF Root, Nobody, Missing

(* The target of mv, cp and put: a folder, a name, and the file of that name  *)
(* in it, the first there is.                                                 *)
Targets(name) ==
  {t \in [parent : Int, name : Names, existing : Int] :
     t.parent # Missing =>
       /\ t.parent = Root \/ (t.parent \in DOMAIN objs /\ objs[t.parent].folder)
       /\ t.name \in {name, "x", "y", "X", "b"}
       /\ t.existing # Nobody =>
            /\ t.existing \in Sighted /\ objs[t.existing].parent = t.parent
            /\ objs[t.existing].name = t.name /\ ~objs[t.existing].folder
       /\ t.name # name => \A h \in Sighted :
            objs[h].parent = t.parent /\ objs[h].name = t.name =>
              ~objs[h].folder /\ t.existing # Nobody /\ t.existing <= h}

LEMMA TargetIs ==
  ASSUME StorageInv, NEW dest \in Dests, NEW name \in Names
  PROVE  UploadTarget(dest, name) \in Targets(name)
<1>1. CASE dest.path = <<>>
  <2>1. UploadTarget(dest, name) = [parent |-> Root, name |-> name, existing |-> Nobody]
    BY <1>1 DEF UploadTarget
  <2> QED BY <2>1 DEF Targets, Root, Nobody
<1>2. CASE dest.path # <<>>
  <2> DEFINE final  == IF dest.slash THEN name ELSE Last(dest.path)
             parent == ResolveExisting(IF dest.slash THEN dest.path ELSE Front(dest.path))
             folder == Find(parent, final, {TRUE})
             file   == Find(parent, final, {FALSE})
  <2>1. UploadTarget(dest, name) =
          IF ~IsFolderAt(parent) \/ ~Listable(parent) THEN NoTarget
          ELSE IF folder # Nobody THEN [parent |-> folder, name |-> name, existing |-> Nobody]
          ELSE [parent |-> parent, name |-> final, existing |-> file]
    BY <1>2 DEF UploadTarget
  <2>2. final \in {name, "x", "y", "X", "b"}
    BY <1>2 DEF Dests, Last
  <2>3. parent \in DOMAIN objs \cup {Root, Missing} /\ parent \in Int
    BY ResolveIs
  <2>k. \A h \in DOMAIN objs : objs[h].folder \in BOOLEAN
    BY DEF StorageInv, Things
  <2>4. /\ folder # Nobody => folder \in DOMAIN objs /\ objs[folder].folder
        /\ folder = Nobody => \A h \in Sighted :
             ~(objs[h].parent = parent /\ objs[h].name = final /\ objs[h].folder)
        /\ folder \in Nat
    <3> DEFINE only == {TRUE}
    <3>0. folder = Find(parent, final, only)
      OBVIOUS
    <3> HIDE DEF final, parent, only, folder
    <3>1. /\ folder # Nobody => folder \in Sighted /\ objs[folder].folder \in only
          /\ folder = Nobody => \A h \in Sighted :
               ~(objs[h].parent = parent /\ objs[h].name = final /\ objs[h].folder \in only)
          /\ folder \in Nat
      BY <3>0, FindIs
    <3> QED BY <2>k, <3>1 DEF only, Sighted
  <2>5. /\ file # Nobody => /\ file \in Sighted /\ objs[file].parent = parent
                            /\ objs[file].name = final /\ ~objs[file].folder
        /\ \A h \in Sighted : objs[h].parent = parent /\ objs[h].name = final /\ ~objs[h].folder =>
             file <= h /\ file # Nobody
        /\ file \in Nat
    <3> DEFINE only == {FALSE}
    <3>0. file = Find(parent, final, only)
      OBVIOUS
    <3> HIDE DEF final, parent, only, file
    <3>1. /\ file # Nobody => /\ file \in Sighted /\ objs[file].parent = parent
                              /\ objs[file].name = final /\ objs[file].folder \in only
          /\ file = Nobody => \A h \in Sighted :
               ~(objs[h].parent = parent /\ objs[h].name = final /\ objs[h].folder \in only)
          /\ \A h \in Sighted : objs[h].parent = parent /\ objs[h].name = final /\ objs[h].folder \in only =>
               file <= h
          /\ file \in Nat
      BY <3>0, FindIs
    <3> QED BY <2>k, <3>1 DEF only, Sighted
  <2> HIDE DEF final, parent, folder, file
  <2>6. CASE ~IsFolderAt(parent) \/ ~Listable(parent)
    <3>1. UploadTarget(dest, name) = [parent |-> Missing, name |-> "", existing |-> Nobody]
      BY <2>1, <2>6 DEF NoTarget
    <3>2. [parent |-> Missing, name |-> "", existing |-> Nobody] \in [parent : Int, name : Names, existing : Int]
      <4>1. -1 \in Int /\ 0 \in Int
        OBVIOUS
      <4>2. "" \in Names
        BY DEF Names
      <4> QED BY <4>1, <4>2 DEF Missing, Nobody
    <3> DEFINE t == [parent |-> Missing, name |-> "", existing |-> Nobody]
    <3>3. t \in [parent : Int, name : Names, existing : Int] /\ t.parent = Missing
      BY <3>2
    <3> HIDE DEF t
    <3>4. t \in Targets(name)
      BY <3>3 DEF Targets
    <3> QED BY <3>1, <3>4 DEF t
  <2>7. CASE IsFolderAt(parent) /\ Listable(parent) /\ folder # Nobody
    <3>1. UploadTarget(dest, name) = [parent |-> folder, name |-> name, existing |-> Nobody]
      BY <2>1, <2>7
    <3> QED BY <2>4, <2>7, <3>1 DEF Targets, Missing, Nobody
  <2>8. CASE IsFolderAt(parent) /\ Listable(parent) /\ folder = Nobody
    <3>1. UploadTarget(dest, name) = [parent |-> parent, name |-> final, existing |-> file]
      BY <2>1, <2>8
    <3>2. parent = Root \/ (parent \in DOMAIN objs /\ objs[parent].folder)
      BY <2>3, <2>8 DEF IsFolderAt
    <3>3. parent \in Int /\ final \in Names /\ file \in Int
      <4>1. final \in Names
        BY <2>2 DEF Names
      <4>2. file \in Int
        BY <2>5
      <4> QED BY <2>3, <4>1, <4>2
    <3>4. ASSUME final # name, NEW h \in Sighted, objs[h].parent = parent, objs[h].name = final
          PROVE  ~objs[h].folder /\ file # Nobody /\ file <= h
      BY <2>k, <2>4, <2>5, <2>8, <3>4 DEF Sighted
    <3> DEFINE t == [parent |-> parent, name |-> final, existing |-> file]
    <3>5. /\ t \in [parent : Int, name : Names, existing : Int]
          /\ t.parent = parent /\ t.name = final /\ t.existing = file
      BY <3>3
    <3> HIDE DEF t
    <3>6. t \in Targets(name)
      BY <2>2, <2>5, <3>2, <3>4, <3>5 DEF Targets
    <3> QED BY <3>1, <3>6 DEF t
  <2> QED BY <2>6, <2>7, <2>8
<1> QED BY <1>1, <1>2
-----------------------------------------------------------------------------
(* What every step keeps *)

(* No step changes the command, the device, the disk or what was.             *)
Frame == cmd' = cmd /\ device' = device /\ disk' = disk /\ orig' = orig

LEMMA FrameKeeps ==
  ASSUME CliNext
  PROVE  Frame
<1>1. CASE ResolveSource
  BY <1>1 DEF ResolveSource, Frame, OnlyRun, OnlyStorage, OnlyLocal, AfterFault
<1>2. CASE ResolveTarget
  BY <1>2 DEF ResolveTarget, Frame, OnlyRun, OnlyStorage, OnlyLocal, AfterFault
<1>3. CASE CopySiblings
  BY <1>3 DEF CopySiblings, Frame, OnlyRun, OnlyStorage, OnlyLocal, AfterFault
<1>4. CASE Replace
  BY <1>4 DEF Replace, Frame, OnlyRun, OnlyStorage, OnlyLocal, AfterFault
<1>5. CASE Move
  BY <1>5 DEF Move, Frame, OnlyRun, OnlyStorage, OnlyLocal, AfterFault
<1>6. CASE RenameSiblings
  BY <1>6 DEF RenameSiblings, Frame, OnlyRun, OnlyStorage, OnlyLocal, AfterFault
<1>7. CASE Rename
  BY <1>7 DEF Rename, Frame, OnlyRun, OnlyStorage, OnlyLocal, AfterFault
<1>8. CASE Copy
  BY <1>8 DEF Copy, Frame, OnlyRun, OnlyStorage, OnlyLocal, AfterFault
<1>9. CASE Stage
  BY <1>9 DEF Stage, Frame, OnlyRun, OnlyStorage, OnlyLocal, AfterFault
<1>10. CASE MoveCopy
  BY <1>10 DEF MoveCopy, Frame, OnlyRun, OnlyStorage, OnlyLocal, AfterFault
<1>11. CASE LookUpCopy
  BY <1>11 DEF LookUpCopy, Frame, OnlyRun, OnlyStorage, OnlyLocal, AfterFault
<1>12. CASE ClearStage
  BY <1>12 DEF ClearStage, Frame, OnlyRun, OnlyStorage, OnlyLocal, AfterFault
<1>13. CASE RemoveStage
  BY <1>13 DEF RemoveStage, Frame, OnlyRun, OnlyStorage, OnlyLocal, AfterFault
<1>14. CASE Upload
  BY <1>14 DEF Upload, Frame, OnlyRun, OnlyStorage, OnlyLocal, AfterFault
<1>15. CASE UploadStops
  BY <1>15 DEF UploadStops, Frame, OnlyRun, OnlyStorage, OnlyLocal, AfterFault
<1>16. CASE DropPartial
  BY <1>16 DEF DropPartial, Frame, OnlyRun, OnlyStorage, OnlyLocal, AfterFault
<1>17. CASE Verify
  BY <1>17 DEF Verify, Frame, OnlyRun, OnlyStorage, OnlyLocal, AfterFault
<1>18. CASE DeleteSource
  BY <1>18 DEF DeleteSource, Frame, OnlyRun, OnlyStorage, OnlyLocal, AfterFault
<1>19. CASE Mkdir
  BY <1>19 DEF Mkdir, Frame, OnlyRun, OnlyStorage, OnlyLocal, AfterFault
<1>20. CASE CreateFolder
  BY <1>20 DEF CreateFolder, Frame, OnlyRun, OnlyStorage, OnlyLocal, AfterFault
<1>21. CASE Plan
  BY <1>21 DEF Plan, Frame, OnlyRun, OnlyStorage, OnlyLocal, AfterFault
<1>22. CASE NextFile
  BY <1>22 DEF NextFile, Frame, OnlyRun, OnlyStorage, OnlyLocal, AfterFault
<1>23. CASE AllFetched
  BY <1>23 DEF AllFetched, Frame, OnlyRun, OnlyStorage, OnlyLocal, AfterFault
<1>24. CASE Fetch
  BY <1>24 DEF Fetch, Frame, OnlyRun, OnlyStorage, OnlyLocal, AfterFault
<1>25. CASE FetchFails
  BY <1>25 DEF FetchFails, Frame, OnlyRun, OnlyStorage, OnlyLocal, AfterFault
<1>26. CASE RemoveOld
  BY <1>26 DEF RemoveOld, Frame, OnlyRun, OnlyStorage, OnlyLocal, AfterFault
<1>27. CASE IntoPlace
  BY <1>27 DEF IntoPlace, Frame, OnlyRun, OnlyStorage, OnlyLocal, AfterFault
<1>28. CASE CallFails
  BY <1>28 DEF CallFails, Frame, OnlyRun, OnlyStorage, OnlyLocal, AfterFault
<1>29. CASE Killed
  BY <1>29 DEF Killed, Frame, OnlyRun, OnlyStorage, OnlyLocal, AfterFault
<1>30. CASE OtherAdds
  BY <1>30 DEF OtherAdds, Frame, OnlyRun, OnlyStorage, OnlyLocal, AfterFault
<1> QED BY <1>1, <1>2, <1>3, <1>4, <1>5, <1>6, <1>7, <1>8, <1>9, <1>10, <1>11, <1>12, <1>13, <1>14, <1>15, <1>16,
           <1>17, <1>18, <1>19, <1>20, <1>21, <1>22, <1>23, <1>24, <1>25, <1>26, <1>27, <1>28, <1>29, <1>30
       DEF CliNext, CliStep

(* A command that has ended does nothing.                                     *)
LEMMA StepsRun ==
  ASSUME CliNext
  PROVE  Running
  BY DEF CliNext, CliStep, ResolveSource, ResolveTarget, CopySiblings, Replace, Move, RenameSiblings, Rename,
       Copy, Stage, MoveCopy, LookUpCopy, ClearStage, RemoveStage, Upload, UploadStops, DropPartial, Verify, DeleteSource,
       Mkdir, CreateFolder, Plan, NextFile, AllFetched, Fetch, FetchFails, RemoveOld, IntoPlace, CallFails, Killed, OtherAdds,
       Doing

LEMMA OrigKeeps ==
  ASSUME OrigInv, Frame
  PROVE  OrigInv'
  BY DEF OrigInv, Frame, DeviceSameName

(* The record of what a command has resolved keeps its shape, and a command   *)
(* goes from point to point of its own.                                       *)
RunShape == run \in Runs /\ PlaceInv

LEMMA GoKeeps ==
  ASSUME RunShape, Frame, NEW pc \in PointsOf(cmd.op), pc \in Points, Go(pc)
  PROVE  RunShape'
  BY DEF RunShape, Runs, PlaceInv, Go, Frame, PointsOf

LEMMA EndKeeps ==
  ASSUME RunShape, Frame, NEW result \in {"running", "ok", "error", "killed"}, End(result)
  PROVE  RunShape'
  BY DEF RunShape, Runs, PlaceInv, End, Frame, PointsOf

LEMMA RunShapeKeeps ==
  ASSUME StorageInv, CallInv, PlaceInv, SourceInv, CliNext
  PROVE  RunShape'
<1>0. Frame /\ RunShape
  BY FrameKeeps DEF CallInv, RunShape
<1>f. Fresh \in Int
  BY FreshIs
<1> USE <1>0 DEF Doing, Running
<1>1. CASE ResolveSource
  <2>1. PICK h \in Int : h = ResolveExisting(cmd.source)
    BY ResolveIs
  <2>2. \/ End("error")
        \/ /\ cmd.op \in {"mv", "cp", "rm", "rename", "get"}
           /\ run' = [run EXCEPT !.source = h,
                                   !.pc = CASE cmd.op = "rm"     -> "delete source"
                                            [] cmd.op = "rename" -> "siblings"
                                            [] cmd.op = "get"    -> "plan"
                                            [] OTHER             -> "target"]
    BY <1>1, <2>1 DEF ResolveSource
  <2>3. CASE End("error")
    BY <2>3, EndKeeps
  <2>4. CASE ~End("error")
    <3>1. PICK pc \in {"delete source", "siblings", "plan", "target"} :
            /\ run' = [run EXCEPT !.source = h, !.pc = pc]
            /\ cmd.op = "rm" => pc = "delete source"
            /\ cmd.op = "rename" => pc = "siblings"
            /\ cmd.op = "get" => pc = "plan"
            /\ cmd.op \in {"mv", "cp"} => pc = "target"
      BY <2>2, <2>4
    <3>2. cmd.op \in {"mv", "cp", "rm", "rename", "get"}
      BY <2>2, <2>4
    <3>3. pc \in PointsOf(cmd.op) /\ pc \in Points
      BY <3>1, <3>2 DEF PointsOf, Points, Early, Idle
    <3> QED BY <3>1, <3>3 DEF RunShape, Runs, PlaceInv, Frame
  <2> QED BY <2>3, <2>4
<1>2. CASE ResolveTarget
  <2>1. SourceName \in Names /\ cmd.dest \in Dests
    BY <1>2, CommandIs DEF ResolveTarget, SourceName, StorageInv, Things, Names
  <2>2. PICK t \in Targets(SourceName) : t = UploadTarget(cmd.dest, SourceName)
    BY <2>1, TargetIs
  <2>3. PICK renamed \in BOOLEAN : renamed = (cmd.op # "put" /\ t.name # SourceName)
    OBVIOUS
  <2>4. PICK name \in Names : name = SourceName
    BY <2>1
  <2>5. \/ End("error")
        \/ /\ cmd.op \in {"mv", "cp", "put"}
           /\ run' = [run EXCEPT !.parent = t.parent, !.name = t.name, !.existing = t.existing,
                                   !.renamed = renamed, !.had = name,
                                   !.pc = IF cmd.op = "cp" THEN "siblings" ELSE "replace"]
    BY <1>2, <2>2, <2>3, <2>4 DEF ResolveTarget
  <2>6. CASE End("error")
    BY <2>6, EndKeeps
  <2>7. t.parent \in Int /\ t.name \in Names /\ t.existing \in Int
    BY <2>2 DEF Targets
  <2>8. CASE ~End("error")
    <3>1. PICK pc \in PointsOf(cmd.op) \cap Points : pc = IF cmd.op = "cp" THEN "siblings" ELSE "replace"
      BY <2>5, <2>8 DEF PointsOf, Points, Early
    <3>2. run' = [run EXCEPT !.parent = t.parent, !.name = t.name, !.existing = t.existing,
                             !.renamed = renamed, !.had = name, !.pc = pc]
      BY <2>5, <2>8, <3>1
    <3> QED BY <2>7, <3>1, <3>2, ZenonT(30) DEF RunShape, Runs, PlaceInv, Frame
  <2> QED BY <2>6, <2>8
<1>3. CASE CopySiblings
  <2>1. PICK staged \in BOOLEAN :
          End("error") \/ (cmd.op = "cp" /\ run' = [run EXCEPT !.staged = staged, !.pc = "replace"])
    BY <1>3 DEF CopySiblings
  <2>2. CASE End("error")
    BY <2>2, EndKeeps
  <2>3. CASE ~End("error")
    BY <2>1, <2>3 DEF RunShape, Runs, PlaceInv, Points, Frame, PointsOf, Early
  <2> QED BY <2>2, <2>3
<1>4. CASE Replace
  <2>1. \/ End("error")
        \/ run.pc = "replace" /\ Go(AfterReplace)
    BY <1>4 DEF Replace
  <2>2. CASE End("error")
    BY <2>2, EndKeeps
  <2>3. CASE run.pc = "replace" /\ Go(AfterReplace)
    <3>1. AfterReplace \in PointsOf(cmd.op) /\ AfterReplace \in Points
      <4>1. cmd.op \in {"mv", "cp", "put"}
        BY <2>3, CommandIs DEF PlaceInv, PointsOf, Idle, Placing
      <4>2. CASE cmd.op = "mv"
        BY <4>2 DEF AfterReplace, PointsOf, Points
      <4>3. CASE cmd.op = "put"
        BY <4>3 DEF AfterReplace, PointsOf, Points
      <4>4. CASE cmd.op = "cp"
        BY <4>4 DEF AfterReplace, PointsOf, Points, Early, Late
      <4> QED BY <4>1, <4>2, <4>3, <4>4
    <3> QED BY <2>3, <3>1, GoKeeps
  <2> QED BY <2>1, <2>2, <2>3
<1>5. CASE Move
  <2>1. cmd.op = "mv" /\ (End("error") \/ End("ok") \/ Go("rename"))
    BY <1>5 DEF Move
  <2>2. "rename" \in PointsOf(cmd.op) /\ "rename" \in Points
    BY <2>1 DEF PointsOf, Points
  <2> QED BY <2>1, <2>2, GoKeeps, EndKeeps
<1>6. CASE RenameSiblings
  <2>1. PICK n \in Names : n = cmd.name
    BY <1>6, CommandIs DEF RenameSiblings
  <2>2. \/ End("error")
        \/ cmd.op = "rename" /\ run' = [run EXCEPT !.pc = "rename", !.name = n, !.copy = run.source]
    BY <1>6, <2>1 DEF RenameSiblings
  <2>3. CASE End("error")
    BY <2>3, EndKeeps
  <2>4. CASE ~End("error")
    BY <2>2, <2>4, ZenonT(30) DEF RunShape, Runs, PlaceInv, Points, Frame, PointsOf
  <2> QED BY <2>3, <2>4
<1>7. CASE Rename
  <2>1. \/ End("error") \/ End("ok")
        \/ run.staged /\ (Go("clear") \/ Go("move copy"))
    BY <1>7 DEF Rename, CopyStops
  <2>2. run.staged => {"clear", "move copy"} \subseteq PointsOf(cmd.op) \cap Points
    BY DEF PlaceInv, PointsOf, Points, Late
  <2> QED BY <2>1, <2>2, GoKeeps, EndKeeps
<1>8. CASE Copy
  <2>1. cmd.op = "cp"
    BY <1>8 DEF Copy
  <2>2. {"clear", "rename", "done"} \subseteq PointsOf(cmd.op) \cap Points
    BY <2>1 DEF PointsOf, Points, Late
  <2>3. \/ End("error") \/ Go("clear")
        \/ run' = [run EXCEPT !.copy = Fresh, !.pc = "rename", !.result = "running"]
        \/ run' = [run EXCEPT !.copy = Fresh, !.pc = "done", !.result = "ok"]
    BY <1>8 DEF Copy, CopyStops
  <2>4. CASE run' = [run EXCEPT !.copy = Fresh, !.pc = "rename", !.result = "running"]
    BY <2>1, <2>2, <2>4 DEF RunShape, Runs, PlaceInv, Frame
  <2>5. CASE run' = [run EXCEPT !.copy = Fresh, !.pc = "done", !.result = "ok"]
    BY <2>1, <2>2, <2>5 DEF RunShape, Runs, PlaceInv, Frame
  <2> QED BY <2>2, <2>3, <2>4, <2>5, GoKeeps, EndKeeps
<1>9. CASE Stage
  <2>1. cmd.op = "cp" /\ run' = [run EXCEPT !.stage = Fresh, !.pc = "copy"]
    BY <1>9 DEF Stage
  <2> QED BY <1>f, <2>1, ZenonT(30) DEF RunShape, Runs, PlaceInv, Frame, PointsOf, Points, Late
<1>10. CASE MoveCopy
  <2>1. cmd.op = "cp" /\ (Go("clear") \/ Go("look up"))
    BY <1>10 DEF MoveCopy
  <2>2. {"clear", "look up"} \subseteq PointsOf(cmd.op) \cap Points
    BY <2>1 DEF PointsOf, Points, Late
  <2> QED BY <2>1, <2>2, GoKeeps
<1>11. CASE LookUpCopy
  <2>1. PICK copied \in BOOLEAN : cmd.op = "cp" /\ run' = [run EXCEPT !.pc = "clear", !.copied = copied]
    BY <1>11 DEF LookUpCopy
  <2> QED BY <2>1, ZenonT(30) DEF RunShape, Runs, PlaceInv, Frame, PointsOf, Points, Late
<1>12. CASE ClearStage
  <2>1. cmd.op = "cp" /\ Go("clear folder")
    BY <1>12 DEF ClearStage
  <2>2. "clear folder" \in PointsOf(cmd.op) /\ "clear folder" \in Points
    BY <2>1 DEF PointsOf, Points, Late
  <2> QED BY <2>1, <2>2, GoKeeps
<1>13. CASE RemoveStage \/ DropPartial \/ Verify \/ DeleteSource \/ CreateFolder \/ AllFetched \/ Killed \/ FetchFails
  <2>1. End("ok") \/ End("error") \/ End("killed")
    BY <1>13 DEF RemoveStage, DropPartial, Verify, DeleteSource, CreateFolder, AllFetched, Killed, FetchFails
  <2> QED BY <2>1, EndKeeps
<1>14. CASE Upload
  <2>1. PICK result \in {"running", "ok"} : 
          \/ End("error")
          \/ /\ cmd.op = "put" /\ run.result = "running"
             /\ run' = [run EXCEPT !.copy = Fresh, !.result = result, !.pc = "verify"]
    BY <1>14 DEF Upload
  <2>2. CASE End("error")
    BY <2>2, EndKeeps
  <2>3. CASE ~End("error")
    BY <1>f, <2>1, <2>3 DEF RunShape, Runs, PlaceInv, Frame, PointsOf, Points
  <2> QED BY <2>2, <2>3
<1>15. CASE UploadStops
  <2>1. cmd.op = "put" /\ run' = [run EXCEPT !.copy = Fresh, !.pc = "drop partial"]
    BY <1>15 DEF UploadStops
  <2> QED BY <1>f, <2>1 DEF RunShape, Runs, PlaceInv, Frame, PointsOf, Points
<1>16. CASE Mkdir
  <2>1. PICK parent \in Int : parent = ResolveExisting(Front(cmd.source))
    BY ResolveIs
  <2>2. cmd.op = "mkdir"
    BY <1>16 DEF Mkdir
  <2>3. PICK name \in Names : name = Last(cmd.source)
    <3>1. cmd.source \in {<<"d">>, <<"b", "x">>, <<"b", "d">>}
      BY <2>2, CommandIs
    <3>2. Last(cmd.source) \in {"d", "x"}
      <4>1. \A a, b : Last(<<a>>) = a /\ Last(<<a, b>>) = b
        BY DEF Last
      <4> QED BY <3>1, <4>1
    <3> QED BY <3>2 DEF Names
  <2>4. End("error") \/ run' = [run EXCEPT !.parent = parent, !.name = name, !.pc = "create"]
    BY <1>16, <2>1, <2>3 DEF Mkdir
  <2>5. CASE End("error")
    BY <2>5, EndKeeps
  <2>6. CASE ~End("error")
    BY <2>2, <2>4, <2>6, ZenonT(30) DEF RunShape, Runs, PlaceInv, Frame, PointsOf, Points
  <2> QED BY <2>5, <2>6
<1>17. CASE Plan
  <2>1. PICK files : cmd.op = "get" /\ (End("error") \/ run' = [run EXCEPT !.files = files, !.pc = "next file"])
    BY <1>17 DEF Plan, Planned
  <2>2. CASE End("error")
    BY <2>2, EndKeeps
  <2>3. CASE ~End("error")
    BY <2>1, <2>3 DEF RunShape, Runs, PlaceInv, Frame, PointsOf, Points, Idle
  <2> QED BY <2>2, <2>3
<1>18. CASE NextFile
  <2>1. PICK e \in Int : e = IF run.files[Min(DOMAIN run.files \ run.done)].path \in DOMAIN local THEN 1 ELSE Nobody
    BY DEF Nobody
  <2>2. PICK h : h = Min(DOMAIN run.files \ run.done)
    OBVIOUS
  <2>3. cmd.op = "get" /\ (End("error") \/ run' = [run EXCEPT !.copy = h, !.existing = e, !.pc = "fetch"])
    BY <1>18, <2>1, <2>2 DEF NextFile, Fetching
  <2>4. CASE End("error")
    BY <2>4, EndKeeps
  <2>5. CASE ~End("error")
    BY <2>3, <2>5 DEF RunShape, Runs, PlaceInv, Frame, PointsOf, Points, Placing
  <2> QED BY <2>4, <2>5
<1>19. CASE Fetch \/ RemoveOld
  <2>1. cmd.op = "get" /\ (Go("remove old") \/ Go("into place"))
    BY <1>19 DEF Fetch, RemoveOld
  <2>2. {"remove old", "into place"} \subseteq PointsOf(cmd.op) \cap Points
    BY <2>1 DEF PointsOf, Points, Placing
  <2> QED BY <2>1, <2>2, GoKeeps
<1>20. CASE IntoPlace
  <2>1. PICK done : cmd.op = "get" /\ run' = [run EXCEPT !.done = done, !.pc = "next file"]
    BY <1>20 DEF IntoPlace
  <2> QED BY <2>1 DEF RunShape, Runs, PlaceInv, Frame, PointsOf, Points, Idle
<1>21. CASE CallFails
  <2>1. \/ run.stage # Nobody /\ Go("clear")
        \/ \E named \in BOOLEAN : run' = [run EXCEPT !.result = "error", !.named = named]
    <3>1. PICK named \in BOOLEAN : named = (run.pc \in {"clear", "clear folder"})
      <4> DEFINE clearing == run.pc \in {"clear", "clear folder"}
      <4>1. clearing \in BOOLEAN
        OBVIOUS
      <4> HIDE DEF clearing
      <4> SUFFICES \E named \in BOOLEAN : named = clearing
        BY DEF clearing
      <4> QED BY <4>1
    <3>2. \/ run.stage # Nobody /\ Go("clear")
          \/ run' = [run EXCEPT !.result = "error", !.named = named]
      BY <1>21, <3>1 DEF CallFails
    <3> QED BY <3>2
  <2>2. run.stage # Nobody => "clear" \in PointsOf(cmd.op) /\ "clear" \in Points
    BY DEF PlaceInv, PointsOf, Points, Late
  <2>3. CASE \E named \in BOOLEAN : run' = [run EXCEPT !.result = "error", !.named = named]
    BY <2>3 DEF RunShape, Runs, PlaceInv, Frame, PointsOf
  <2> QED BY <2>1, <2>2, <2>3, GoKeeps
<1>22. CASE OtherAdds
  BY <1>22 DEF OtherAdds, RunShape, Runs, PlaceInv, Frame
<1> QED BY <1>1, <1>2, <1>3, <1>4, <1>5, <1>6, <1>7, <1>8, <1>9, <1>10, <1>11, <1>12, <1>13, <1>14, <1>15,
           <1>16, <1>17, <1>18, <1>19, <1>20, <1>21, <1>22 DEF CliNext, CliStep

(* What a step may do to the storage: take things out, put one in, or let the *)
(* device put one at a handle; none of them a part of a file, but where an    *)
(* upload stops.                                                              *)
Changes(gone, x, o) ==
  \/ objs' = objs
  \/ objs' = Removed(objs, gone)
  \/ objs' = Added(objs, x, o)
  \/ objs' = Placed(x, o)

(* An upload that stops, or fails in its first transaction.                   *)
Parting == UploadStops \/ (CallFails /\ run.pc = "upload")

Fits(x, o) == x \in Nat \ {0} /\ (x \in DOMAIN objs \/ x >= 8) /\ o \in Things

Putting(x, o) == Fits(x, o) /\ (NoPart /\ ~Parting => o.data # Partial)

(* What a command puts on the storage.                                        *)
LEMMA PutsAre ==
  ASSUME StorageInv, CallInv, PlaceInv, SourceInv, Running
  PROVE  /\ run.pc = "move" => Putting(run.source, InDestination(run.source))
         /\ run.pc = "rename" => Putting(ToRename, Renamed)
         /\ run.pc = "copy" => Putting(Fresh, TheCopy)
         /\ run.pc = "move copy" => Putting(run.copy, InDestination(run.copy))
         /\ Putting(Fresh, TheStage) /\ Putting(Fresh, TheFolder) /\ Putting(Fresh, TheUpload(LocalData))
         /\ Parting => Putting(Fresh, TheUpload(Partial))
<1>f. Fresh \in Nat \ {0} /\ Fresh >= 8
  BY FreshIs
<1>o. ASSUME NEW h \in DOMAIN objs
      PROVE  /\ h \in Nat \ {0} /\ objs[h] \in Things
             /\ NoPart => objs[h].data # Partial
  BY DEF StorageInv, NoPart
<1>t. run.parent \in Int /\ run.stage \in Int /\ run.name \in Names
  BY DEF CallInv, Runs
<1>p. ASSUME NEW h \in DOMAIN objs
      PROVE  Putting(h, InDestination(h)) /\ Putting(h, [objs[h] EXCEPT !.name = run.name])
  BY <1>o, <1>t, <1>p DEF Putting, Fits, InDestination, Things
<1>1. ASSUME run.pc = "move" PROVE Putting(run.source, InDestination(run.source))
  <2>1. cmd.op = "mv"
    BY <1>1, CommandIs DEF PlaceInv, PointsOf, Early, Late, Idle, Placing
  <2> QED BY <1>1, <1>p, <2>1 DEF SourceInv
<1>2. ASSUME run.pc = "rename" PROVE Putting(ToRename, Renamed)
  <2>1. cmd.op \in {"mv", "cp", "rename"}
    BY <1>2, CommandIs DEF PlaceInv, PointsOf, Idle, Placing
  <2>2. ToRename \in DOMAIN objs
    BY <1>2, <2>1 DEF SourceInv, ToRename
  <2> QED BY <1>p, <2>2 DEF Renamed
<1>3. ASSUME run.pc = "copy" PROVE Putting(Fresh, TheCopy)
  <2>1. cmd.op = "cp"
    BY <1>3, CommandIs DEF PlaceInv, PointsOf, Idle, Placing
  <2>2. run.source \in DOMAIN objs /\ CopyDest \in Int
    BY <1>3, <1>t, <2>1 DEF SourceInv, CopyDest
  <2>3. objs[run.source].name \in Names /\ objs[run.source].data \in Int
    BY <1>o, <2>2 DEF Things
  <2>4. TheCopy \in Things /\ TheCopy.data = objs[run.source].data
    BY <2>2, <2>3 DEF TheCopy, Obj, Things
  <2> QED BY <1>f, <1>o, <2>2, <2>4 DEF Putting, Fits
<1>4. ASSUME run.pc = "move copy" PROVE Putting(run.copy, InDestination(run.copy))
  <2>1. cmd.op = "cp"
    BY <1>4, CommandIs DEF PlaceInv, PointsOf, Idle, Placing
  <2> QED BY <1>4, <1>p, <2>1 DEF SourceInv
<1>5. /\ TheStage \in Things /\ TheStage.data # Partial
      /\ TheFolder \in Things /\ TheFolder.data # Partial
      /\ TheUpload(LocalData) \in Things /\ TheUpload(LocalData).data # Partial
      /\ TheUpload(Partial) \in Things
  <2>1. "stage" \in Names /\ 0 \in Int /\ LocalData \in Int /\ Partial \in Int /\ 0 # Partial /\ LocalData # Partial
    BY DEF Names, LocalData, Partial
  <2>2. TheStage \in Things /\ TheStage.data # Partial
    BY <1>t, <2>1 DEF TheStage, Obj, Things
  <2>3. TheFolder \in Things /\ TheFolder.data # Partial
    BY <1>t, <2>1 DEF TheFolder, Obj, Things
  <2>4. \A d \in {LocalData, Partial} : TheUpload(d) \in Things /\ TheUpload(d).data = d
    BY <1>t, <2>1 DEF TheUpload, Obj, Things
  <2> QED BY <2>1, <2>2, <2>3, <2>4
<1> QED BY <1>f, <1>1, <1>2, <1>3, <1>4, <1>5 DEF Putting, Fits

(* What a call may have done that fails.                                      *)
LEMMA UnheardIs ==
  ASSUME NEW s \in Unheard
  PROVE  \/ s = Removed(objs, {run.existing}) /\ run.pc = "replace" /\ MayReplace
         \/ s = Placed(run.source, InDestination(run.source)) /\ run.pc = "move"
         \/ s = Placed(ToRename, Renamed) /\ run.pc = "rename"
         \/ s = Placed(Fresh, TheCopy) /\ run.pc = "copy" /\ ~CopyBlocked
         \/ s = Added(objs, Fresh, TheStage) /\ run.pc = "stage"
         \/ s = Placed(run.copy, InDestination(run.copy)) /\ run.pc = "move copy"
         \/ (\E S \in SUBSET Seen(run.stage) : s = Removed(objs, S)) /\ run.pc = "clear"
         \/ s = Removed(objs, {run.stage}) /\ run.pc = "clear folder"
         \/ s = Placed(Fresh, TheUpload(Partial)) /\ run.pc = "upload"
         \/ s = Removed(objs, {run.copy}) /\ run.pc = "drop partial"
         \/ s = WithoutSource /\ run.pc = "delete source"
         \/ s = Placed(Fresh, TheFolder) /\ run.pc = "create"
<1>1. CASE run.pc = "replace"
  BY <1>1 DEF Unheard
<1>2. CASE run.pc \in {"move", "rename", "copy", "move copy"}
  BY <1>2 DEF Unheard, PlacedUnheard
<1>3. CASE run.pc = "clear"
  <2>1. Unheard = {Removed(objs, S) : S \in SUBSET Seen(run.stage)}
    BY <1>3 DEF Unheard
  <2> QED BY <1>3, <2>1
<1>4. CASE run.pc \in {"upload", "create"}
  BY <1>4 DEF Unheard, PlacedUnheard
<1>5. CASE run.pc \in {"stage", "clear folder", "drop partial", "delete source"}
  BY <1>5 DEF Unheard
<1>6. CASE run.pc \notin {"replace", "move", "rename", "copy", "move copy", "clear", "upload", "create", "stage",
                         "clear folder", "drop partial", "delete source"}
  BY <1>6 DEF Unheard
<1> QED BY <1>1, <1>2, <1>3, <1>4, <1>5, <1>6

LEMMA StorageChanges ==
  ASSUME StorageInv, CallInv, PlaceInv, SourceInv, CliNext
  PROVE  \E gone, x, o : Changes(gone, x, o) /\ Putting(x, o)
<1>f. Fresh \in Nat \ {0} /\ Fresh >= 8
  BY FreshIs
<1>n. Putting(Fresh, Obj(Root, "y", FALSE, Elsewhere))
  BY <1>f DEF Putting, Fits, Obj, Things, Names, Root, Elsewhere, Partial
<1> DEFINE Changed == \E gone, x, o : Changes(gone, x, o) /\ Putting(x, o)
<1>u. ASSUME objs' = objs PROVE Changed
  BY <1>n, <1>u DEF Changes
<1>r. ASSUME NEW gone, objs' = Removed(objs, gone) PROVE Changed
  BY <1>n, <1>r DEF Changes
<1>a. ASSUME NEW x, NEW o, objs' = Added(objs, x, o) \/ objs' = Placed(x, o), Putting(x, o) PROVE Changed
  BY <1>a DEF Changes
<1>s. Running
  BY StepsRun
<1>p. /\ run.pc = "move" => Putting(run.source, InDestination(run.source))
      /\ run.pc = "rename" => Putting(ToRename, Renamed)
      /\ run.pc = "copy" => Putting(Fresh, TheCopy)
      /\ run.pc = "move copy" => Putting(run.copy, InDestination(run.copy))
      /\ Putting(Fresh, TheStage) /\ Putting(Fresh, TheFolder) /\ Putting(Fresh, TheUpload(LocalData))
      /\ Parting => Putting(Fresh, TheUpload(Partial))
  BY <1>s, PutsAre
<1> HIDE DEF Changed
<1> SUFFICES Changed
  BY DEF Changed
<1>1. CASE objs' = objs
  BY <1>1, <1>u
<1>2. CASE Replace \/ ClearStage \/ RemoveStage \/ DropPartial \/ DeleteSource
  <2>1. objs' = objs \/ \E gone : objs' = Removed(objs, gone)
    BY <1>2 DEF Replace, ClearStage, RemoveStage, DropPartial, DeleteSource, WithoutSource, OnlyRun
  <2> QED BY <2>1, <1>u, <1>r
<1>3. CASE Move
  <2>1. run.pc = "move" /\ (objs' = objs \/ objs' = Placed(run.source, InDestination(run.source)))
    BY <1>3 DEF Move, Doing
  <2> QED BY <2>1, <1>p, <1>u, <1>a
<1>4. CASE Rename
  <2>1. run.pc = "rename" /\ (objs' = objs \/ objs' = Placed(ToRename, Renamed))
    BY <1>4 DEF Rename
  <2> QED BY <2>1, <1>p, <1>u, <1>a
<1>5. CASE Copy
  <2>1. run.pc = "copy" /\ (objs' = objs \/ objs' = Placed(Fresh, TheCopy))
    BY <1>5 DEF Copy, Doing
  <2> QED BY <2>1, <1>p, <1>u, <1>a
<1>6. CASE Stage
  BY <1>6, <1>p, <1>a DEF Stage
<1>7. CASE MoveCopy
  <2>1. run.pc = "move copy" /\ (objs' = objs \/ objs' = Placed(run.copy, InDestination(run.copy)))
    BY <1>7 DEF MoveCopy, Doing
  <2> QED BY <2>1, <1>p, <1>u, <1>a
<1>8. CASE Upload
  <2>1. objs' = objs \/ objs' = Placed(Fresh, TheUpload(LocalData))
    BY <1>8 DEF Upload
  <2> QED BY <2>1, <1>p, <1>u, <1>a
<1>9. CASE UploadStops
  <2>1. objs' = Placed(Fresh, TheUpload(Partial)) \/ objs' = Placed(Fresh, TheUpload(LocalData))
    BY <1>9 DEF UploadStops
  <2> QED BY <1>9, <2>1, <1>p, <1>a DEF Parting
<1>10. CASE CreateFolder
  <2>1. objs' = objs \/ objs' = Added(objs, Fresh, TheFolder)
    BY <1>10 DEF CreateFolder
  <2> QED BY <2>1, <1>p, <1>u, <1>a
<1>11. CASE OtherAdds
  <2>1. PICK p \in {Root, 1} : objs' = Added(objs, Fresh, Obj(p, "y", FALSE, Elsewhere))
    BY <1>11 DEF OtherAdds
  <2>2. Putting(Fresh, Obj(p, "y", FALSE, Elsewhere))
    BY <1>f DEF Putting, Fits, Obj, Things, Names, Root, Elsewhere, Partial
  <2> QED BY <2>1, <2>2, <1>a
<1>12. CASE CallFails
  <2>1. SUFFICES ASSUME objs' \in Unheard PROVE Changed
    BY <1>12, <1>u DEF CallFails
  <2>2. CASE \E gone : objs' = Removed(objs, gone)
    BY <2>2, <1>r
  <2>3. CASE ~\E gone : objs' = Removed(objs, gone)
    <3>1. \/ objs' = Placed(run.source, InDestination(run.source)) /\ run.pc = "move"
          \/ objs' = Placed(ToRename, Renamed) /\ run.pc = "rename"
          \/ objs' = Placed(Fresh, TheCopy) /\ run.pc = "copy"
          \/ objs' = Added(objs, Fresh, TheStage)
          \/ objs' = Placed(run.copy, InDestination(run.copy)) /\ run.pc = "move copy"
          \/ objs' = Placed(Fresh, TheUpload(Partial)) /\ run.pc = "upload"
          \/ objs' = Placed(Fresh, TheFolder)
      BY <2>1, <2>3, UnheardIs DEF WithoutSource
    <3> QED BY <3>1, <1>12, <1>p, <1>a DEF Parting
  <2> QED BY <2>2, <2>3
<1>13. CASE ResolveSource \/ ResolveTarget \/ CopySiblings \/ RenameSiblings \/ LookUpCopy \/ Verify \/ Mkdir
              \/ Plan \/ NextFile \/ AllFetched \/ Fetch \/ FetchFails \/ RemoveOld \/ IntoPlace \/ Killed
  <2>1. objs' = objs
    BY <1>13 DEF ResolveSource, ResolveTarget, CopySiblings, RenameSiblings, LookUpCopy, Verify, Mkdir, Plan, NextFile,
         AllFetched, Fetch, FetchFails, RemoveOld, IntoPlace, Killed, OnlyRun, OnlyLocal, AfterFault
  <2> QED BY <2>1, <1>u
<1> QED BY <1>2, <1>3, <1>4, <1>5, <1>6, <1>7, <1>8, <1>9, <1>10, <1>11, <1>12, <1>13 DEF CliNext, CliStep

LEMMA StorageStays ==
  ASSUME StorageInv, CallInv, PlaceInv, SourceInv, CliNext
  PROVE  StorageInv' /\ (NoPart /\ ~Parting => NoPart' /\ PartInv')
<1>1. PICK gone, x, o : Changes(gone, x, o) /\ Putting(x, o)
  BY StorageChanges
<1>2. orig' = orig
  BY FrameKeeps DEF Frame
<1> QED BY <1>1, <1>2, StorageKeeps DEF Changes, Putting, Fits

(* Parts of files.                                                            *)
LEMMA PartKeeps ==
  ASSUME StorageInv, CallInv, PlaceInv, SourceInv, PartInv, CliNext
  PROVE  PartInv'
<1>s. Running /\ Frame /\ run \in Runs /\ faults \in Nat
  BY StepsRun, FrameKeeps DEF CallInv
<1>1. CASE NoPart /\ ~Parting
  BY <1>1, StorageStays
<1>2. CASE UploadStops
  <2>1. NoPart
    BY <1>s, <1>2 DEF UploadStops, Doing, PartInv, NoPart
  <2>2. /\ cmd' = cmd /\ cmd.op = "put" /\ run'.pc = "drop partial" /\ run'.copy = Fresh
        /\ run'.result = "running" /\ faults' >= 1
    BY <1>s, <1>2 DEF UploadStops, Doing, Running, Fault, Runs
  <2>3. PICK o : objs' = Placed(Fresh, o)
    BY <1>2 DEF UploadStops
  <2>4. \A h \in DOMAIN objs' : h = Fresh \/ (h \in DOMAIN objs /\ objs'[h] = objs[h])
    BY <2>3 DEF Placed, Added, Removed
  <2> QED BY <2>1, <2>2, <2>4 DEF PartInv, NoPart, Returned
<1>3. CASE CallFails /\ run.pc = "upload"
  <2>1. run'.pc = "upload" /\ run'.result = "error" /\ faults' >= 1
    <3>1. faults' = faults + 1
      BY <1>3 DEF CallFails, Fault
    <3>2. \E named : run' = [run EXCEPT !.result = "error", !.named = named]
      BY <1>3 DEF CallFails
    <3>3. run'.pc = "upload" /\ run'.result = "error"
      BY <1>s, <1>3, <3>2 DEF Runs
    <3>4. faults \in Nat
      BY <1>s
    <3> QED BY <3>1, <3>3, <3>4
  <2> QED BY <2>1 DEF PartInv, Running
<1>4. CASE ~NoPart /\ ~Parting
  <2>1. cmd.op = "put" /\ run.pc = "drop partial" /\ faults >= 1
    BY <1>s, <1>4 DEF NoPart, PartInv
  <2>3. DropPartial \/ CallFails \/ Killed \/ OtherAdds
    BY <1>4, <2>1 DEF Parting, CliNext, CliStep, ResolveSource, ResolveTarget, CopySiblings, Replace, Move, RenameSiblings, Rename,
         Copy, Stage, MoveCopy, LookUpCopy, ClearStage, RemoveStage, Upload, Verify, DeleteSource, Mkdir, CreateFolder,
         Plan, NextFile, AllFetched, Fetch, FetchFails, RemoveOld, IntoPlace, Doing
  <2>4. CASE DropPartial
    <3>1. objs' = Removed(objs, {run.copy})
      BY <2>4 DEF DropPartial
    <3>2. \A h \in DOMAIN objs' : h \in DOMAIN objs \ {run.copy} /\ objs'[h] = objs[h]
      BY <3>1 DEF Removed
    <3> QED BY <1>s, <3>2 DEF PartInv
  <2>5. CASE CallFails
    <3>1. faults' = faults + 1
      BY <2>5 DEF CallFails, Fault
    <3>2. run'.result = "error"
      <4>1. \E named : run' = [run EXCEPT !.result = "error", !.named = named]
        BY <2>1, <2>5 DEF CallFails
      <4> QED BY <1>s, <4>1 DEF Runs
    <3>3. faults' >= 2 /\ faults' >= 1
      <4>1. faults \in Nat /\ faults >= 1
        BY <1>s, <2>1
      <4> QED BY <3>1, <4>1
    <3> QED BY <3>2, <3>3 DEF PartInv, Running
  <2>6. CASE Killed
    <3>1. faults' = faults /\ run'.result = "killed"
      BY <1>s, <2>6 DEF Killed, OnlyRun, End, Runs
    <3> QED BY <2>1, <3>1 DEF PartInv, Running, Returned
  <2>7. CASE OtherAdds
    <3>1. PICK p \in {Root, 1} : objs' = Added(objs, Fresh, Obj(p, "y", FALSE, Elsewhere))
      BY <2>7 DEF OtherAdds
    <3>2. \A h \in DOMAIN objs' : objs'[h].data = Elsewhere \/ (h \in DOMAIN objs /\ objs'[h] = objs[h])
      BY <3>1 DEF Obj, Added
    <3>3. run' = run /\ faults' = faults /\ cmd' = cmd
      BY <1>s, <2>7 DEF OtherAdds, Frame
    <3>4. Elsewhere # Partial
      BY DEF Elsewhere, Partial
    <3> QED BY <3>2, <3>3, <3>4 DEF PartInv, Returned, Running
  <2> QED BY <2>3, <2>4, <2>5, <2>6, <2>7
<1> QED BY <1>1, <1>2, <1>3, <1>4 DEF Parting

(* The counters and the temporary file keep their shapes.                     *)
LEMMA CallKeeps ==
  ASSUME StorageInv, CallInv, PlaceInv, SourceInv, CliNext
  PROVE  CallInv' /\ PlaceInv'
<1>1. Frame /\ RunShape'
  BY FrameKeeps, RunShapeKeeps
<1>2. cmd' \in Commands
  BY <1>1 DEF Frame, CallInv
<1>3. faults' \in Nat /\ others' \in Nat
  <2>1. (faults' = faults \/ faults' = faults + 1) /\ (others' = others \/ others' = others + 1)
    BY DEF CliNext, CliStep, ResolveSource, ResolveTarget, CopySiblings, Replace, Move, RenameSiblings, Rename,
         Copy, Stage, MoveCopy, LookUpCopy, ClearStage, RemoveStage, Upload, UploadStops, DropPartial, Verify, DeleteSource,
         Mkdir, CreateFolder, Plan, NextFile, AllFetched, Fetch, FetchFails, RemoveOld, IntoPlace, CallFails, Killed, OtherAdds,
         OnlyRun, OnlyStorage, OnlyLocal, AfterFault, Fault
  <2>2. faults \in Nat /\ others \in Nat
    BY DEF CallInv
  <2> QED BY <2>1, <2>2
<1>4. temp' \in [data : {temp'.data}, whole : BOOLEAN]
  <2>1. \/ temp' = temp \/ temp' = NoTemp
        \/ temp' = [temp EXCEPT !.whole = TRUE]
        \/ \E data : temp' = [data |-> data, whole |-> FALSE]
    BY DEF CliNext, CliStep, ResolveSource, ResolveTarget, CopySiblings, Replace, Move, RenameSiblings, Rename,
         Copy, Stage, MoveCopy, LookUpCopy, ClearStage, RemoveStage, Upload, UploadStops, DropPartial, Verify, DeleteSource,
         Mkdir, CreateFolder, Plan, NextFile, Fetching, AllFetched, Fetch, FetchFails, RemoveOld, IntoPlace, CallFails, Killed, OtherAdds,
         OnlyRun, OnlyStorage
  <2>2. temp \in [data : {temp.data}, whole : BOOLEAN]
    BY DEF CallInv
  <2>3. CASE temp' = temp
    BY <2>2, <2>3
  <2>4. CASE temp' = [temp EXCEPT !.whole = TRUE]
    BY <2>2, <2>4
  <2>5. CASE temp' = NoTemp
    BY <2>5 DEF NoTemp
  <2>6. ASSUME NEW data, temp' = [data |-> data, whole |-> FALSE] PROVE temp' \in [data : {temp'.data}, whole : BOOLEAN]
    BY <2>6
  <2> QED BY <2>1, <2>3, <2>4, <2>5, <2>6
<1> QED BY <1>1, <1>2, <1>3, <1>4 DEF RunShape, CallInv

(* The object a command is about.                                             *)
LEMMA SourceKeeps ==
  ASSUME StorageInv, CallInv, PlaceInv, SourceInv, CliNext
  PROVE  SourceInv'
<1>0. Frame /\ Running
  BY FrameKeeps, StepsRun
<1>f. Fresh \notin DOMAIN objs
  BY FreshIs
<1>r. run \in Runs
  BY DEF CallInv
(* A step that ends the command, or goes where its object is not needed.      *)
<1>e. ASSUME run'.result # "running" PROVE SourceInv'
  BY <1>e DEF SourceInv, Running
(* A step that keeps the record but for its end.                              *)
<1>s. ASSUME run'.pc = run.pc, run'.source = run.source, run'.copy = run.copy, run'.had = run.had,
             \A h \in DOMAIN objs : (h = run.source \/ h = run.copy) => h \in DOMAIN objs' /\ objs'[h].name = objs[h].name
      PROVE  SourceInv'
  BY <1>0, <1>s DEF SourceInv, Frame
<1>1. CASE ResolveSource
  <2>1. PICK h \in DOMAIN objs \cup {Root, Missing} : h = ResolveExisting(cmd.source)
    BY ResolveIs
  <2>2. objs' = objs
    BY <1>1 DEF ResolveSource, OnlyRun
  <2>3. \/ End("error")
        \/ /\ cmd.op \in {"mv", "cp", "rm", "rename", "get"}
           /\ h # Missing /\ (cmd.op # "get" => h # Root)
           /\ run' = [run EXCEPT !.source = h,
                                   !.pc = CASE cmd.op = "rm"     -> "delete source"
                                            [] cmd.op = "rename" -> "siblings"
                                            [] cmd.op = "get"    -> "plan"
                                            [] OTHER             -> "target"]
    BY <1>1, <2>1 DEF ResolveSource
  <2>4. CASE End("error")
    BY <1>r, <1>s, <2>2, <2>4 DEF End, Runs
  <2>5. CASE ~End("error")
    <3>1. run'.source = h /\ h \in DOMAIN objs' \cup {Root} /\ (cmd.op # "get" => h \in DOMAIN objs')
      BY <1>r, <2>1, <2>2, <2>3, <2>5 DEF Runs
    <3>2. run'.pc \notin {"siblings", "replace", "stage", "copy", "rename", "move copy"} \/ cmd.op = "rename"
      BY <1>r, <2>3, <2>5, ZenonT(30) DEF Runs
    <3> QED BY <1>0, <3>1, <3>2 DEF SourceInv, Frame
  <2> QED BY <2>3, <2>4, <2>5
<1>2. CASE ResolveTarget
  <2>1. objs' = objs /\ cmd.op \in {"mv", "cp", "put"} /\ run.pc = "target"
    BY <1>2 DEF ResolveTarget, OnlyRun
  <2>2. \/ End("error")
        \/ run'.had = SourceName /\ run'.source = run.source /\ run'.pc \in {"siblings", "replace"}
    BY <1>2, <1>r DEF ResolveTarget, Runs
  <2>3. CASE End("error")
    BY <1>r, <1>s, <2>1, <2>3 DEF End, Runs
  <2>4. CASE ~End("error")
    BY <1>0, <2>1, <2>2, <2>4 DEF SourceInv, Frame, SourceName
  <2> QED BY <2>3, <2>4
<1>3. CASE CopySiblings
  <2>1. objs' = objs /\ cmd.op = "cp" /\ run.pc = "siblings" /\ run'.pc \in {"siblings", "replace"}
        /\ run'.source = run.source /\ run'.had = run.had
    BY <1>3, <1>r DEF CopySiblings, OnlyRun, Doing, End, Runs
  <2> QED BY <1>0, <2>1 DEF SourceInv, Frame
<1>4. CASE Replace
  <2>1. run.pc = "replace" /\ run'.source = run.source /\ run'.had = run.had
        /\ run'.pc \in {"replace", "move", "upload", "stage", "copy"}
        /\ (objs' = objs \/ (objs' = Removed(objs, {run.existing}) /\ (cmd.op # "put" => run.existing # run.source)))
    BY <1>4, <1>r DEF Replace, MayReplace, OnlyRun, End, Go, AfterReplace, Runs
  <2>2. cmd.op \in {"mv", "cp", "put"}
    BY <2>1, CommandIs DEF PlaceInv, PointsOf, Idle, Placing
  <2>s. cmd.op # "put" => run.source \in DOMAIN objs
    BY <1>0, <2>1, <2>2 DEF SourceInv
  <2>3. cmd.op # "put" => run.source \in DOMAIN objs' /\ objs'[run.source] = objs[run.source]
    BY <2>1, <2>s DEF Removed
  <2> QED BY <1>0, <2>1, <2>2, <2>3 DEF SourceInv, Frame
<1>5. CASE Move
  <2>1. cmd.op = "mv" /\ run.pc = "move" /\ run'.source = run.source
        /\ (objs' = objs \/ \E o : objs' = Placed(run.source, o))
    BY <1>5, <1>r DEF Move, Doing, End, Go, Runs
  <2>2. run.source \in DOMAIN objs'
    BY <1>0, <2>1 DEF SourceInv, Placed, Added
  <2> QED BY <1>0, <2>1, <2>2 DEF SourceInv, Frame
<1>6. CASE RenameSiblings
  <2>1. cmd.op = "rename" /\ run.pc = "siblings" /\ run'.source = run.source /\ objs' = objs
    BY <1>6, <1>r DEF RenameSiblings, Doing, End, OnlyRun, Runs
  <2> QED BY <1>0, <2>1 DEF SourceInv, Frame
<1>7. CASE Rename
  <2>1. cmd.op \in {"mv", "cp", "rename"} /\ run.pc = "rename"
    BY <1>7, CommandIs DEF Rename, PlaceInv, PointsOf, Idle, Placing
  <2>2. run'.source = run.source /\ run'.copy = run.copy /\ run'.pc \in {"rename", "clear", "move copy"}
    BY <1>7, <1>r, <2>1 DEF Rename, CopyStops, End, Go, Runs
  <2>3. objs' = objs \/ \E o : objs' = Placed(IF cmd.op = "cp" THEN run.copy ELSE run.source, o)
    BY <1>7 DEF Rename, ToRename
  <2>4. (IF cmd.op = "cp" THEN run.copy ELSE run.source) \in DOMAIN objs'
    <3>1. (IF cmd.op = "cp" THEN run.copy ELSE run.source) \in DOMAIN objs
      BY <1>0, <2>1 DEF SourceInv
    <3> QED BY <2>3, <3>1 DEF Placed, Added
  <2> QED BY <1>0, <2>1, <2>2, <2>4 DEF SourceInv, Frame
<1>8. CASE Copy
  <2>1. cmd.op = "cp" /\ run'.pc \in {"copy", "clear", "rename", "done"}
        /\ (run'.pc = "copy" => run'.result # "running")
        /\ (run'.pc = "rename" => run'.copy = Fresh /\ \E o : objs' = Placed(Fresh, o))
    <3>1. CASE Go("clear") \/ End("error")
      BY <1>8, <1>r, <3>1 DEF Copy, Doing, Go, End, Runs
    <3>2. CASE ~(Go("clear") \/ End("error"))
      BY <1>8, <1>r, <3>2 DEF Copy, CopyStops, Doing, Runs
    <3> QED BY <3>1, <3>2
  <2>2. run'.pc = "rename" => run'.copy \in DOMAIN objs'
    BY <2>1 DEF Placed, Added
  <2> QED BY <1>0, <1>e, <2>1, <2>2 DEF SourceInv, Frame
<1>9. CASE Stage
  <2>1. cmd.op = "cp" /\ run.pc = "stage" /\ run'.source = run.source /\ run'.had = run.had /\ run'.pc = "copy"
        /\ \E o : objs' = Added(objs, Fresh, o)
    BY <1>9, <1>r DEF Stage, Doing, Runs
  <2>2. run.source \in DOMAIN objs' /\ objs'[run.source] = objs[run.source]
    BY <1>0, <1>f, <2>1 DEF Added, SourceInv
  <2> QED BY <1>0, <2>1, <2>2 DEF SourceInv, Frame
<1>10. CASE MoveCopy \/ LookUpCopy \/ ClearStage \/ RemoveStage
  <2>1. cmd.op = "cp" /\ run'.pc \in {"look up", "clear", "clear folder"}
    BY <1>10, <1>r DEF MoveCopy, LookUpCopy, ClearStage, RemoveStage, Doing, Go, End, Runs
  <2> QED BY <1>0, <2>1 DEF SourceInv, Frame
<1>11. CASE Upload \/ UploadStops \/ DropPartial \/ Verify \/ DeleteSource \/ Mkdir \/ CreateFolder
  <2>1. cmd.op \in {"put", "rm", "mkdir"}
    BY <1>11 DEF Upload, UploadStops, DropPartial, Verify, DeleteSource, Mkdir, CreateFolder, Doing
  <2> QED BY <1>0, <2>1 DEF SourceInv, Frame
<1>12. CASE Plan \/ NextFile \/ AllFetched \/ Fetch \/ FetchFails \/ RemoveOld \/ IntoPlace
  <2>1. cmd.op = "get" /\ objs' = objs /\ run'.source = run.source /\ (run'.pc = "plan" => run.pc = "plan")
    BY <1>12, <1>r DEF Plan, Planned, NextFile, Fetching, AllFetched, Fetch, FetchFails, RemoveOld, IntoPlace, Doing, Go, End, Runs,
         OnlyRun, OnlyLocal, AfterFault
  <2> QED BY <1>0, <2>1 DEF SourceInv, Frame
<1>13. CASE CallFails
  <2>1. run'.result = "error" \/ (run.stage # Nobody /\ run'.pc = "clear")
    BY <1>13, <1>r DEF CallFails, Go, Runs
  <2>2. CASE run.stage # Nobody /\ run'.pc = "clear"
    <3>1. cmd.op = "cp"
      BY <2>2 DEF PlaceInv
    <3> QED BY <1>0, <2>2, <3>1 DEF SourceInv, Frame
  <2> QED BY <1>e, <2>1, <2>2
<1>14. CASE Killed
  <2>1. run'.result = "killed"
    BY <1>14, <1>r DEF Killed, End, Runs
  <2> QED BY <1>e, <2>1
<1>15. CASE OtherAdds
  <2>1. run' = run /\ \E o : objs' = Added(objs, Fresh, o)
    BY <1>15 DEF OtherAdds
  <2>2. \A h \in DOMAIN objs : h \in DOMAIN objs' /\ objs'[h] = objs[h]
    BY <1>f, <2>1 DEF Added
  <2> QED BY <1>s, <2>1, <2>2
<1> QED BY <1>1, <1>2, <1>3, <1>4, <1>5, <1>6, <1>7, <1>8, <1>9, <1>10, <1>11, <1>12, <1>13, <1>14, <1>15 DEF CliNext, CliStep

LEMMA BaseKeeps ==
  ASSUME BaseInv, [CliNext]_cliVars
  PROVE  BaseInv'
<1>1. CASE CliNext
  BY <1>1, StorageStays, CallKeeps, SourceKeeps, PartKeeps, FrameKeeps, OrigKeeps DEF BaseInv
<1>2. CASE UNCHANGED cliVars
  <2>1. /\ objs' = objs /\ orig' = orig /\ device' = device /\ cmd' = cmd /\ run' = run /\ temp' = temp
        /\ faults' = faults /\ others' = others
    BY <1>2 DEF cliVars
  <2>2. StorageInv' /\ OrigInv'
    BY <2>1 DEF BaseInv, StorageInv, OrigInv, DeviceSameName
  <2>3. CallInv' /\ PlaceInv'
    BY <2>1 DEF BaseInv, CallInv, Runs, PlaceInv
  <2>4. SourceInv' /\ PartInv'
    BY <2>1 DEF BaseInv, SourceInv, PartInv, Returned, Running
  <2> QED BY <2>2, <2>3, <2>4 DEF BaseInv
<1> QED BY <1>1, <1>2

(* The objects of the catalogue.                                              *)
LEMMA CatalogueIs ==
  /\ \A h \in 1 .. 7 :
       /\ Catalogue[h].parent \in {Root, 1}
       /\ (Catalogue[h].folder <=> (h = 1))
       /\ Catalogue[h].data = h
       /\ Catalogue[h].name = IF h = 1 THEN "b" ELSE IF h \in {2, 3} THEN "x"
                              ELSE IF h \in {4, 6} THEN "y" ELSE IF h = 5 THEN "X" ELSE "a/b"
       /\ Catalogue[h] \in Things
       /\ Catalogue[h].parent = IF h \in {1, 2, 6} THEN Root ELSE 1
<1>1. SUFFICES ASSUME NEW h \in {1, 2, 3, 4, 5, 6, 7}
               PROVE  /\ Catalogue[h].parent = IF h \in {1, 2, 6} THEN Root ELSE 1
                      /\ (Catalogue[h].folder <=> (h = 1))
                      /\ Catalogue[h].data = h
                      /\ Catalogue[h].name = IF h = 1 THEN "b" ELSE IF h \in {2, 3} THEN "x"
                                             ELSE IF h \in {4, 6} THEN "y" ELSE IF h = 5 THEN "X" ELSE "a/b"
                      /\ Catalogue[h] \in Things
  <2>1. 1 .. 7 = {1, 2, 3, 4, 5, 6, 7}
    OBVIOUS
  <2> QED BY <2>1 DEF Root
<1>2. /\ Catalogue[1] = Obj(Root, "b", TRUE, 1) /\ Catalogue[2] = Obj(Root, "x", FALSE, 2)
      /\ Catalogue[3] = Obj(1, "x", FALSE, 3) /\ Catalogue[4] = Obj(1, "y", FALSE, 4)
      /\ Catalogue[5] = Obj(1, "X", FALSE, 5) /\ Catalogue[6] = Obj(Root, "y", FALSE, 6)
      /\ Catalogue[7] = Obj(1, "a/b", FALSE, 7)
  BY DEF Catalogue
<1>3. {"b", "x", "y", "X", "a/b"} \subseteq Names /\ Root \in Int /\ 1 \in Int
  BY DEF Names, Root
<1>c1. CASE h = 1
  <2>1. Catalogue[1].parent = Root /\ Catalogue[1].name = "b" /\ Catalogue[1].data = 1
    BY <1>2 DEF Obj
  <2>2. Catalogue[1].folder
    BY <1>2 DEF Obj
  <2>3. Catalogue[1] \in Things
    BY <1>2, <1>3 DEF Obj, Things
  <2> QED BY <1>c1, <2>1, <2>2, <2>3
<1>c2. CASE h = 2
  <2>1. Catalogue[2].parent = Root /\ Catalogue[2].name = "x" /\ Catalogue[2].data = 2
    BY <1>2 DEF Obj
  <2>2. ~Catalogue[2].folder
    BY <1>2 DEF Obj
  <2>3. Catalogue[2] \in Things
    BY <1>2, <1>3 DEF Obj, Things
  <2> QED BY <1>c2, <2>1, <2>2, <2>3
<1>c3. CASE h = 3
  <2>1. Catalogue[3].parent = 1 /\ Catalogue[3].name = "x" /\ Catalogue[3].data = 3
    BY <1>2 DEF Obj
  <2>2. ~Catalogue[3].folder
    BY <1>2 DEF Obj
  <2>3. Catalogue[3] \in Things
    BY <1>2, <1>3 DEF Obj, Things
  <2> QED BY <1>c3, <2>1, <2>2, <2>3
<1>c4. CASE h = 4
  <2>1. Catalogue[4].parent = 1 /\ Catalogue[4].name = "y" /\ Catalogue[4].data = 4
    BY <1>2 DEF Obj
  <2>2. ~Catalogue[4].folder
    BY <1>2 DEF Obj
  <2>3. Catalogue[4] \in Things
    BY <1>2, <1>3 DEF Obj, Things
  <2> QED BY <1>c4, <2>1, <2>2, <2>3
<1>c5. CASE h = 5
  <2>1. Catalogue[5].parent = 1 /\ Catalogue[5].name = "X" /\ Catalogue[5].data = 5
    BY <1>2 DEF Obj
  <2>2. ~Catalogue[5].folder
    BY <1>2 DEF Obj
  <2>3. Catalogue[5] \in Things
    BY <1>2, <1>3 DEF Obj, Things
  <2> QED BY <1>c5, <2>1, <2>2, <2>3
<1>c6. CASE h = 6
  <2>1. Catalogue[6].parent = Root /\ Catalogue[6].name = "y" /\ Catalogue[6].data = 6
    BY <1>2 DEF Obj
  <2>2. ~Catalogue[6].folder
    BY <1>2 DEF Obj
  <2>3. Catalogue[6] \in Things
    BY <1>2, <1>3 DEF Obj, Things
  <2> QED BY <1>c6, <2>1, <2>2, <2>3
<1>c7. CASE h = 7
  <2>1. Catalogue[7].parent = 1 /\ Catalogue[7].name = "a/b" /\ Catalogue[7].data = 7
    BY <1>2 DEF Obj
  <2>2. ~Catalogue[7].folder
    BY <1>2 DEF Obj
  <2>3. Catalogue[7] \in Things
    BY <1>2, <1>3 DEF Obj, Things
  <2> QED BY <1>c7, <2>1, <2>2, <2>3
<1> QED BY <1>1, <1>c1, <1>c2, <1>c3, <1>c4, <1>c5, <1>c6, <1>c7

LEMMA InitBase ==
  ASSUME CliInit
  PROVE  BaseInv /\ NoPart /\ orig = objs
<1>1. PICK present \in SUBSET OptionalObjects : objs = [h \in {1, 2} \cup present |-> Catalogue[h]]
  BY DEF CliInit
<1>2. DOMAIN objs = {1, 2} \cup present /\ DOMAIN objs \subseteq 1 .. 7 /\ orig = objs
  <2>1. present \subseteq 3 .. 7
    BY CliAssumption
  <2>2. DOMAIN objs = {1, 2} \cup present
    BY <1>1
  <2>3. \A n \in 3 .. 7 : n \in 1 .. 7
    OBVIOUS
  <2>4. 1 \in 1 .. 7 /\ 2 \in 1 .. 7
    OBVIOUS
  <2>5. orig = objs
    BY DEF CliInit
  <2> QED BY <2>1, <2>2, <2>3, <2>4, <2>5
<1>3. \A h \in DOMAIN objs : objs[h] = Catalogue[h]
  BY <1>1
<1>4. IsFiniteSet(DOMAIN objs)
  <2>1. IsFiniteSet(1 .. 7)
    <3>1. 1 \in Int /\ 7 \in Int
      OBVIOUS
    <3> QED BY <3>1, FS_Interval
  <2> QED BY <1>2, <2>1, FS_Subset
<1>5. \A h \in DOMAIN objs : objs[h] \in Things /\ objs[h].data = h /\ h \in 1 .. 7
  BY <1>2, <1>3, CatalogueIs
<1>6. StorageInv
  BY <1>2, <1>4, <1>5 DEF StorageInv
<1>7. NoPart
  BY <1>5 DEF NoPart, Partial
<1>8. OrigInv
  <2>1. orig = [h \in DOMAIN orig |-> Catalogue[h]]
    BY <1>1, <1>2
  <2>2. ASSUME device.clash # "both", NEW g \in DOMAIN orig, NEW h \in DOMAIN orig, g # h, orig[g].parent = orig[h].parent
        PROVE  ~DeviceSameName(orig[g].name, orig[h].name)
    <3>1. Occupants(objs[h].parent, objs[h].name, h) = {}
      BY <1>2, <2>2 DEF CliInit
    <3> QED BY <1>2, <2>2, <3>1 DEF Occupants, ObjectsIn
  <2>3. device.dim \subseteq DOMAIN orig
    BY <1>2 DEF CliInit
  <2> QED BY <1>2, <2>1, <2>2, <2>3 DEF OrigInv
<1>9. run = [pc |-> IF cmd.op = "put" THEN "target" ELSE "source", result |-> "running",
              source |-> Nobody, parent |-> Root, name |-> "", had |-> "", existing |-> Nobody,
              renamed |-> FALSE, staged |-> FALSE, stage |-> Nobody, copy |-> Nobody,
              copied |-> FALSE, named |-> FALSE, files |-> [h \in {} |-> 0], done |-> {}]
      /\ cmd \in Commands /\ temp = NoTemp /\ faults = 0 /\ others = 0
  BY DEF CliInit
<1>10. CallInv
  <2>1. run \in Runs
    <3>1. run.pc \in Points /\ run.result \in {"running", "ok", "error", "killed"} /\ run.name \in Names /\ run.had \in Names
      BY <1>9 DEF Points, Names
    <3>2. run.source \in Int /\ run.parent \in Int /\ run.existing \in Int /\ run.stage \in Int
      <4>1. Root \in Int /\ Nobody \in Int
        BY DEF Root, Nobody
      <4> QED BY <1>9, <4>1
    <3>3. run.renamed \in BOOLEAN /\ run.staged \in BOOLEAN /\ run.copied \in BOOLEAN /\ run.named \in BOOLEAN
      BY <1>9
    <3>4. run = [pc |-> run.pc, result |-> run.result, source |-> run.source, parent |-> run.parent, name |-> run.name,
                 had |-> run.had, existing |-> run.existing, renamed |-> run.renamed, staged |-> run.staged,
                 stage |-> run.stage, copy |-> run.copy, copied |-> run.copied, named |-> run.named,
                 files |-> run.files, done |-> run.done]
      BY <1>9
    <3> QED BY <3>1, <3>2, <3>3, <3>4 DEF Runs
  <2> QED BY <1>9, <2>1 DEF CallInv, NoTemp
<1>11. PlaceInv
  <2>1. run.pc = (IF cmd.op = "put" THEN "target" ELSE "source") /\ run.staged = FALSE /\ run.stage = Nobody
    BY <1>9
  <2>2. cmd.op \in {"mv", "cp", "put", "rm", "rename", "mkdir", "get"}
    BY <1>10, CommandIs
  <2> QED BY <2>1, <2>2 DEF PlaceInv, PointsOf, Early, Idle
<1>12. SourceInv
  <2>1. run.pc = (IF cmd.op = "put" THEN "target" ELSE "source")
    BY <1>9
  <2> QED BY <2>1 DEF SourceInv
<1>13. PartInv
  BY <1>7 DEF PartInv, NoPart
<1> QED BY <1>2, <1>6, <1>7, <1>8, <1>10, <1>11, <1>12, <1>13 DEF BaseInv

-----------------------------------------------------------------------------
(* get *)

LEMMA InitGet ==
  ASSUME CliInit
  PROVE  GetInv
<1>1. /\ run.pc = (IF cmd.op = "put" THEN "target" ELSE "source") /\ run.result = "running"
      /\ run.files = [h \in {} |-> 0] /\ run.done = {} /\ temp = NoTemp
      /\ local = [n \in IF disk.there THEN {OldPath} ELSE {} |-> OldData]
  BY DEF CliInit
<1>2. DOMAIN run.files = {} /\ IsFiniteSet({})
  BY <1>1, FS_EmptySet
<1>3. \A path \in DOMAIN local : local[path] # Partial
  <2>1. OldData # Partial
    BY DEF OldData, Partial
  <2> QED BY <1>1, <2>1
<1>4. disk.there => OldPath \in DOMAIN local
  BY <1>1
<1>5. ASSUME cmd.op = "get" PROVE PlanInv /\ FetchedInv /\ TempInv
  <2>1. run.pc = "source"
    BY <1>1, <1>5
  <2>2. PlanInv
    BY <1>1, <1>2, <2>1 DEF PlanInv
  <2>3. FetchedInv
    BY <1>1, <1>2, <1>3 DEF FetchedInv
  <2>4. TempInv
    BY <1>1, <1>4, <2>1 DEF TempInv, Idle, Placing
  <2> QED BY <2>2, <2>3, <2>4
<1> QED BY <1>5 DEF GetInv

(* What is below a folder, or it, is on the storage.                          *)
LEMMA EntriesAre ==
  ASSUME StorageInv, run.source \in DOMAIN objs \cup {Root}
  PROVE  Entries \subseteq DOMAIN objs /\ IsFiniteSet(ToFetch) /\ ToFetch \subseteq DOMAIN objs
<1>1. Entries \subseteq DOMAIN objs
  BY DEF Entries, Below, Seen, ObjectsIn
<1>2. ToFetch \subseteq DOMAIN objs
  BY <1>1 DEF ToFetch
<1> QED BY <1>1, <1>2, FS_Subset DEF StorageInv

(* The steps of get.                                                          *)
LEMMA GetSteps ==
  ASSUME BaseInv, cmd.op = "get", CliNext
  PROVE  \/ ResolveSource \/ Plan \/ NextFile \/ AllFetched \/ Fetch \/ FetchFails \/ RemoveOld \/ IntoPlace
         \/ CallFails \/ Killed \/ OtherAdds
<1>1. run.pc \in Idle \cup Placing
  BY DEF BaseInv, PlaceInv, PointsOf
<1> QED BY <1>1 DEF CliNext, CliStep, ResolveTarget, CopySiblings, Replace, Move, RenameSiblings, Rename,
       Copy, Stage, MoveCopy, LookUpCopy, ClearStage, RemoveStage, Upload, UploadStops, DropPartial, Verify, DeleteSource,
       Mkdir, CreateFolder, Doing, Idle, Placing

LEMMA GetKeeps ==
  ASSUME BaseInv, GetInv, CliNext
  PROVE  GetInv'
<1>0. Frame
  BY FrameKeeps
<1> SUFFICES ASSUME cmd.op = "get" PROVE PlanInv' /\ FetchedInv' /\ TempInv'
  BY <1>0 DEF GetInv, Frame
<1>p. PlanInv /\ FetchedInv /\ TempInv
  BY DEF GetInv
<1>r. run \in Runs /\ temp \in [data : {temp.data}, whole : BOOLEAN] /\ run.pc \in Idle \cup Placing /\ run.stage = Nobody
  BY DEF BaseInv, CallInv, PlaceInv, PointsOf
<1>d. OldPath' = OldPath /\ disk' = disk
  BY <1>0 DEF Frame, OldPath
(* A step that leaves all as it is but where it ends, and not well.           *)
<1>e. ASSUME run'.pc = run.pc, run'.files = run.files, run'.done = run.done, run'.copy = run.copy,
             Running, run'.result # "ok", local' = local,
             temp' = temp, run.pc = "fetch" => ~Returned'
      PROVE  PlanInv' /\ FetchedInv' /\ TempInv'
  <2>1. PlanInv'
    BY <1>p, <1>e DEF PlanInv
  <2>2. FetchedInv'
    BY <1>p, <1>e DEF FetchedInv
  <2>3. TempInv'
    BY <1>p, <1>d, <1>e DEF TempInv, Target, Running, NoTemp
  <2> QED BY <2>1, <2>2, <2>3
<1>1. CASE ResolveSource
  <2>1. /\ run.pc = "source" /\ Running /\ local' = local /\ temp' = temp
        /\ run'.pc \in {"source", "plan"} /\ run'.files = run.files /\ run'.done = run.done /\ run'.result # "ok"
    BY <1>1, <1>r DEF ResolveSource, OnlyRun, End, Runs, Running
  <2>2. PlanInv'
    BY <1>p, <2>1 DEF PlanInv
  <2>3. FetchedInv'
    BY <1>p, <2>1 DEF FetchedInv
  <2>4. TempInv'
    BY <1>p, <1>d, <2>1 DEF TempInv, Idle, Placing, NoTemp
  <2> QED BY <2>2, <2>3, <2>4
<1>2. CASE Plan
  <2>1. run.pc = "plan" /\ Running /\ local' = local /\ temp' = temp /\ run.files = run.files
    BY <1>2 DEF Plan, Doing, OnlyRun
  <2>2. CASE End("error")
    <3>1. run'.pc = run.pc /\ run'.files = run.files /\ run'.done = run.done /\ run'.copy = run.copy /\ run'.result = "error"
      BY <1>r, <2>2 DEF End, Runs
    <3> QED BY <1>e, <2>1, <3>1
  <2>3. CASE ~End("error")
    <3>1. Planned /\ \A g, h \in Entries : g # h => Key(LocalPath(g)) # Key(LocalPath(h))
      BY <1>2, <2>3 DEF Plan
    <3>2. PICK files : files = [h \in ToFetch |-> [path |-> Key(LocalPath(h)), data |-> objs[h].data]]
      OBVIOUS
    <3>3. run'.files = files /\ run'.pc = "next file" /\ run'.done = run.done /\ run'.result = "running"
      BY <1>r, <2>1, <3>1, <3>2 DEF Planned, Runs, Running
    <3>4. IsFiniteSet(DOMAIN files) /\ DOMAIN files = ToFetch /\ ToFetch \subseteq DOMAIN objs /\ ToFetch \subseteq Entries
      BY <2>1, <3>2, EntriesAre DEF BaseInv, SourceInv, ToFetch
    <3>5. \A h \in DOMAIN files : files[h].path = Key(LocalPath(h)) /\ files[h].data = objs[h].data
      BY <3>2
    <3>6. \A g, h \in DOMAIN files : files[g].path = files[h].path => g = h
      BY <3>1, <3>4, <3>5
    <3>7. \A h \in DOMAIN objs : objs[h].data \in Int \ {Partial} /\ h \in Nat
      <4>1. Running
        BY <2>1
      <4> QED BY <4>1 DEF BaseInv, StorageInv, Things, PartInv
    <3>8. run.done = {}
      BY <1>p, <2>1 DEF FetchedInv, PlanInv
    <3>9. PlanInv'
      BY <3>3, <3>4, <3>5, <3>6, <3>7 DEF PlanInv
    <3>10. FetchedInv'
      BY <1>p, <2>1, <3>3, <3>8 DEF FetchedInv
    <3>11. TempInv'
      BY <1>p, <1>d, <2>1, <3>3 DEF TempInv, Idle, Placing, NoTemp
    <3> QED BY <3>9, <3>10, <3>11
  <2> QED BY <2>2, <2>3
<1>3. CASE NextFile
  <2>1. PICK h : h = Min(DOMAIN run.files \ run.done)
    OBVIOUS
  <2>2. PICK exists : exists = (run.files[h].path \in DOMAIN local)
    OBVIOUS
  <2>3. /\ run.pc = "next file" /\ Running /\ run.done # DOMAIN run.files /\ local' = local
        /\ \/ End("error") /\ temp' = temp
           \/ Fetching(h, exists)
    BY <1>3, <2>1, <2>2 DEF NextFile, Doing
  <2>4. CASE End("error") /\ temp' = temp
    <3>1. run'.pc = run.pc /\ run'.files = run.files /\ run'.done = run.done /\ run'.copy = run.copy /\ run'.result = "error"
      BY <1>r, <2>4 DEF End, Runs
    <3> QED BY <1>e, <2>3, <2>4, <3>1
  <2>5. CASE Fetching(h, exists)
    <3>1. /\ run'.pc = "fetch" /\ run'.copy = h /\ run'.files = run.files /\ run'.done = run.done /\ run'.result = "running"
          /\ temp'.data = run.files[h].data
      BY <1>r, <2>3, <2>5 DEF Fetching, Runs, Running
    <3>2. h \in DOMAIN run.files \ run.done
      <4> DEFINE S == DOMAIN run.files \ run.done
      <4>1. S \in SUBSET Nat /\ IsFiniteSet(S) /\ S # {}
        BY <1>p, <2>3, FS_Subset DEF PlanInv, FetchedInv
      <4> HIDE DEF S
      <4>2. Min(S) \in S
        BY <4>1, MinIs
      <4> QED BY <2>1, <4>2 DEF S
    <3>3. PlanInv'
      BY <1>p, <3>1 DEF PlanInv
    <3>4. FetchedInv'
      BY <1>p, <2>3, <3>1 DEF FetchedInv
    <3>5. TempInv'
      BY <1>p, <1>d, <2>3, <3>1, <3>2 DEF TempInv, Idle, Placing, Returned
    <3> QED BY <3>3, <3>4, <3>5
  <2> QED BY <2>3, <2>4, <2>5
<1>4. CASE AllFetched
  <2>1. /\ run.pc = "next file" /\ run.done = DOMAIN run.files /\ local' = local /\ temp' = temp
        /\ run'.pc = run.pc /\ run'.files = run.files /\ run'.done = run.done /\ run'.copy = run.copy
    BY <1>4, <1>r DEF AllFetched, Doing, End, OnlyRun, Runs
  <2>2. PlanInv'
    BY <1>p, <2>1 DEF PlanInv
  <2>3. FetchedInv'
    BY <1>p, <2>1 DEF FetchedInv
  <2>4. TempInv'
    BY <1>p, <1>d, <2>1 DEF TempInv, Idle, Placing, NoTemp
  <2> QED BY <2>2, <2>3, <2>4
<1>5. CASE Fetch
  <2>1. /\ run.pc = "fetch" /\ Running /\ run'.pc \in {"remove old", "into place"} /\ run'.files = run.files
        /\ run'.done = run.done /\ run'.copy = run.copy /\ run'.result = "running" /\ local' = local
    BY <1>5, <1>r DEF Fetch, Doing, Go, Running, Runs
  <2>2. temp'.whole /\ temp'.data = temp.data
    BY <1>5, <1>r DEF Fetch
  <2>3. PlanInv'
    BY <1>p, <2>1 DEF PlanInv
  <2>4. FetchedInv'
    BY <1>p, <2>1 DEF FetchedInv
  <2>5. TempInv'
    BY <1>p, <1>d, <2>1, <2>2 DEF TempInv, Idle, Placing
  <2> QED BY <2>3, <2>4, <2>5
<1>6. CASE FetchFails
  <2>1. /\ run.pc = "fetch" /\ temp' = NoTemp /\ local' = local
        /\ run'.pc = run.pc /\ run'.files = run.files /\ run'.done = run.done /\ run'.copy = run.copy /\ run'.result = "error"
    BY <1>6, <1>r DEF FetchFails, Doing, End, AfterFault, Runs
  <2>2. PlanInv'
    BY <1>p, <2>1 DEF PlanInv
  <2>3. FetchedInv'
    BY <1>p, <2>1 DEF FetchedInv
  <2>4. TempInv'
    BY <1>p, <1>d, <2>1 DEF TempInv, Idle, Placing, NoTemp, Running
  <2> QED BY <2>2, <2>3, <2>4
<1>7. CASE RemoveOld
  <2>1. /\ run.pc = "remove old" /\ Running /\ run'.pc = "into place" /\ run'.files = run.files
        /\ run'.done = run.done /\ run'.copy = run.copy /\ run'.result = "running" /\ temp' = temp
        /\ local' = Removed(local, {Target})
    BY <1>7, <1>r DEF RemoveOld, Doing, Go, Running, Runs
  <2>2. /\ DOMAIN local' = DOMAIN local \ {Target}
        /\ \A path \in DOMAIN local' : local'[path] = local[path]
    BY <2>1 DEF Removed
  <2>3. run.copy \in DOMAIN run.files \ run.done /\ \A h \in run.done : run.files[h].path # Target
    BY <1>p, <2>1 DEF TempInv, PlanInv, FetchedInv, Placing, Target
  <2>4. PlanInv'
    BY <1>p, <2>1 DEF PlanInv
  <2>5. FetchedInv'
    <3>1. \A h \in run.done : run.files[h].path \in DOMAIN local' /\ local'[run.files[h].path] = run.files[h].data
      BY <1>p, <2>2, <2>3 DEF FetchedInv
    <3>2. \A path \in DOMAIN local' : local'[path] # Partial
      BY <1>p, <2>2 DEF FetchedInv
    <3> QED BY <1>p, <2>1, <3>1, <3>2 DEF FetchedInv
  <2>6. TempInv'
    <3>1. disk.there => OldPath \in DOMAIN local
      BY <1>p, <2>1 DEF TempInv
    <3>2. disk.there => OldPath \in DOMAIN local' \/ Target = OldPath
      BY <2>2, <3>1
    <3> QED BY <1>p, <1>d, <2>1, <3>2 DEF TempInv, Idle, Placing, Target
  <2> QED BY <2>4, <2>5, <2>6
<1>8. CASE IntoPlace
  <2>1. run.pc = "into place" /\ Running
    BY <1>8 DEF IntoPlace, Doing
  <2>2. /\ run.copy \in DOMAIN run.files \ run.done /\ temp.whole
        /\ temp.data = run.files[run.copy].data /\ temp.data # Partial
    BY <1>p, <2>1 DEF TempInv, PlanInv, Placing
  <2>3. /\ run'.pc = "next file" /\ run'.files = run.files /\ run'.done = run.done \cup {run.copy}
        /\ run'.result = "running" /\ temp' = NoTemp
    BY <1>8, <1>r, <2>1 DEF IntoPlace, Running, Runs
  <2>4. local' = Added(local, Target, temp.data)
    BY <1>8, <2>2 DEF IntoPlace
  <2>5. /\ DOMAIN local' = DOMAIN local \cup {Target} /\ local'[Target] = temp.data
        /\ \A path \in DOMAIN local \ {Target} : local'[path] = local[path]
    BY <2>4 DEF Added
  <2>6. \A h \in run.done : run.files[h].path # Target
    BY <1>p, <2>2 DEF PlanInv, FetchedInv, Target
  <2>7. PlanInv'
    BY <1>p, <2>3 DEF PlanInv
  <2>8. FetchedInv'
    <3>1. ASSUME NEW h \in run.done \cup {run.copy}
          PROVE  run.files[h].path \in DOMAIN local' /\ local'[run.files[h].path] = run.files[h].data
      BY <1>p, <2>2, <2>5, <2>6 DEF FetchedInv, Target
    <3>2. \A path \in DOMAIN local' : local'[path] # Partial
      BY <1>p, <2>2, <2>5 DEF FetchedInv
    <3>3. run.done \cup {run.copy} \subseteq DOMAIN run.files
      BY <1>p, <2>2 DEF FetchedInv
    <3> QED BY <2>3, <3>1, <3>2, <3>3 DEF FetchedInv
  <2>9. TempInv'
    <3>1. disk.there => OldPath \in DOMAIN local'
      BY <1>p, <2>5 DEF TempInv
    <3> QED BY <1>d, <2>3, <3>1 DEF TempInv, Idle, Placing, NoTemp
  <2> QED BY <2>7, <2>8, <2>9
<1>9. CASE CallFails
  <2>1. /\ Running /\ run.pc # "fetch" /\ temp' = temp /\ local' = local
        /\ run'.pc = run.pc /\ run'.files = run.files /\ run'.done = run.done /\ run'.copy = run.copy /\ run'.result = "error"
    BY <1>9, <1>r, ZenonT(30) DEF CallFails, AfterFault, Runs
  <2> QED BY <1>e, <2>1
<1>10. CASE Killed
  <2>1. /\ Running /\ temp' = temp /\ local' = local
        /\ run'.pc = run.pc /\ run'.files = run.files /\ run'.done = run.done /\ run'.copy = run.copy /\ run'.result = "killed"
    BY <1>10, <1>r DEF Killed, OnlyRun, End, Runs
  <2> QED BY <1>e, <2>1 DEF Returned
<1>11. CASE OtherAdds
  <2>1. Running /\ run' = run /\ temp' = temp /\ local' = local
    BY <1>11 DEF OtherAdds
  <2> QED BY <1>e, <2>1 DEF Returned, Running
<1> QED BY <1>1, <1>2, <1>3, <1>4, <1>5, <1>6, <1>7, <1>8, <1>9, <1>10, <1>11, GetSteps

LEMMA GetIsSafe ==
  ASSUME BaseInv, GetInv
  PROVE  LocalIsSafe
<1>1. SUFFICES ASSUME cmd.op = "get" PROVE LocalIsSafe
  BY DEF LocalIsSafe, InterruptedGetKeepsFile, FolderCopyIsFaithful
<1>2. PlanInv /\ FetchedInv /\ TempInv /\ run.pc \in Idle \cup Placing
  BY <1>1 DEF GetInv, BaseInv, PlaceInv, PointsOf
<1>3. disk.there => OldPath \in DOMAIN local \/ temp.whole
  BY <1>2 DEF TempInv
<1>4. Returned => temp = NoTemp \/ temp.whole
  BY <1>2 DEF TempInv, Idle, Placing
<1>5. InterruptedGetKeepsFile
  BY <1>2, <1>3, <1>4 DEF InterruptedGetKeepsFile, FetchedInv
<1>6. FolderCopyIsFaithful
  BY <1>2 DEF FolderCopyIsFaithful, PlanInv, FetchedInv
<1> QED BY <1>5, <1>6 DEF LocalIsSafe

(* LocalIsSafe.  Wherever a get fails or is killed, the file that was there   *)
(* or its successor is whole, in its place or in the temporary file; and a    *)
(* get that succeeds has brought every file, each to a path of its own        *)
(* (download_file, plan_folder and check_no_collisions).                      *)
THEOREM GetCostsNothing == CliSpec => []LocalIsSafe
<1>1. CliInit => BaseInv /\ GetInv
  BY InitBase, InitGet
<1>2. BaseInv /\ GetInv /\ [CliNext]_cliVars => (BaseInv /\ GetInv)'
  <2>1. SUFFICES ASSUME BaseInv, GetInv, [CliNext]_cliVars PROVE (BaseInv /\ GetInv)'
    OBVIOUS
  <2>2. CASE CliNext
    BY <2>1, <2>2, BaseKeeps, GetKeeps
  <2>3. CASE UNCHANGED cliVars
    <3>1. GetInv'
      BY <2>1, <2>3 DEF cliVars, GetInv, PlanInv, FetchedInv, TempInv, Running, Returned, Target, OldPath, NoTemp
    <3> QED BY <2>1, <3>1, BaseKeeps
  <2> QED BY <2>1, <2>2, <2>3
<1>3. BaseInv /\ GetInv => LocalIsSafe
  BY GetIsSafe
<1> QED BY <1>1, <1>2, <1>3, PTL DEF CliSpec

-----------------------------------------------------------------------------
(* cp *)

(* What was on the storage is as the catalogue has it.                        *)
LEMMA OrigIs ==
  ASSUME OrigInv
  PROVE  /\ DOMAIN orig \subseteq 1 .. 7 /\ {1, 2} \subseteq DOMAIN orig /\ device.dim \subseteq DOMAIN orig
         /\ \A h \in DOMAIN orig :
              /\ orig[h].parent \in {Root, 1} /\ orig[h].name # "stage"
              /\ orig[h].folder <=> h = 1
         /\ orig[1].name = "b"
         /\ device.clash # "both" => \A g, h \in DOMAIN orig :
              orig[g].parent = orig[h].parent /\ DeviceSameName(orig[g].name, orig[h].name) => g = h
<1>1. \A h \in DOMAIN orig : orig[h] = Catalogue[h] /\ h \in 1 .. 7
  BY DEF OrigInv
<1>2. DOMAIN orig \subseteq 1 .. 7 /\ {1, 2} \subseteq DOMAIN orig /\ device.dim \subseteq DOMAIN orig
  BY DEF OrigInv
<1>3. \A h \in DOMAIN orig : orig[h].parent \in {Root, 1} /\ orig[h].name # "stage"
  BY <1>1, CatalogueIs
<1>4. \A h \in DOMAIN orig : orig[h].folder <=> h = 1
  BY <1>1, CatalogueIs
<1>5. orig[1].name = "b"
  <2>1. 1 \in DOMAIN orig /\ 1 \in 1 .. 7
    BY <1>2
  <2> QED BY <1>1, <2>1, CatalogueIs
<1>6. ASSUME NEW g \in DOMAIN orig, NEW h \in DOMAIN orig, device.clash # "both",
             orig[g].parent = orig[h].parent, DeviceSameName(orig[g].name, orig[h].name)
      PROVE  g = h
  BY <1>6 DEF OrigInv
<1> QED BY <1>2, <1>3, <1>4, <1>5, <1>6

LEMMA OldHandles ==
  ASSUME BaseInv
  PROVE  \A h \in DOMAIN orig : ~(h >= 8)
  BY DEF BaseInv, OrigInv

LEMMA NewHandles ==
  ASSUME run.stage >= 8
  PROVE  run.stage # Root /\ run.stage # 1
  BY DEF Root

(* What a device takes for one name.                                          *)
LEMMA SameNames ==
  ASSUME NEW n, NEW m
  PROVE  /\ DeviceSameName(n, n)
         /\ DeviceSameName(n, m) => Lower(n) = Lower(m) /\ (n # m => device.folds)
         /\ n \in {"b", "stage"} /\ DeviceSameName(n, m) => n = m
  BY DEF DeviceSameName, Lower

(* What a step keeps of where a copy is to go, and of how it is made.         *)
SameAim ==
  /\ run'.parent = run.parent /\ run'.name = run.name /\ run'.had = run.had
  /\ run'.existing = run.existing /\ run'.renamed = run.renamed

SameStage == run'.staged = run.staged /\ run'.stage = run.stage

SameCopy == run'.copy = run.copy /\ run'.copied = run.copied

LEMMA GoIs ==
  ASSUME CallInv, NEW pc, Go(pc)
  PROVE  SameAim /\ SameStage /\ SameCopy /\ run'.pc = pc /\ run'.result = run.result /\ run'.named = run.named
  BY DEF CallInv, Runs, Go, SameAim, SameStage, SameCopy

LEMMA EndIs ==
  ASSUME CallInv, NEW result, End(result)
  PROVE  SameAim /\ SameStage /\ SameCopy /\ run'.pc = run.pc /\ run'.result = result /\ run'.named = run.named
  BY DEF CallInv, Runs, End, SameAim, SameStage, SameCopy

(* The steps of cp.                                                           *)
LEMMA CpSteps ==
  ASSUME BaseInv, cmd.op = "cp", CliNext
  PROVE  \/ ResolveSource \/ ResolveTarget \/ CopySiblings \/ Replace \/ Rename \/ Copy \/ Stage \/ MoveCopy
         \/ LookUpCopy \/ ClearStage \/ RemoveStage \/ CallFails \/ Killed \/ OtherAdds
  BY DEF CliNext, CliStep, Move, RenameSiblings, Upload, UploadStops, DropPartial, Verify, DeleteSource,
       Mkdir, CreateFolder, Plan, NextFile, AllFetched, Fetch, FetchFails, RemoveOld, IntoPlace, Doing

Cp == FolderInv /\ StageInv /\ CopyInv /\ TargetInv /\ HarmInv /\ DecidedInv

(* What can be seen of the staging folder, and of the destination where       *)
(* nothing disturbs the copy, is all that is in them.                         *)
LEMMA SeenIs ==
  ASSUME BaseInv, HarmInv
  PROVE  /\ run.stage >= 8 => Seen(run.stage) = ObjectsIn(run.stage)
         /\ Undisturbed => Seen(run.parent) = ObjectsIn(run.parent)
         /\ \A h \in DOMAIN objs : h >= 8 => h \in Sighted
<1>1. ASSUME NEW h \in DOMAIN objs, h \in device.dim
      PROVE  h \in DOMAIN orig /\ objs[h].parent = orig[h].parent /\ orig[h].parent \in {0, 1} /\ h \in 1 .. 7
  BY <1>1, OrigIs DEF BaseInv, HarmInv, Root
<1>2. ASSUME run.stage >= 8 PROVE Seen(run.stage) = ObjectsIn(run.stage)
  <2>1. run.stage \notin {0, 1}
    BY <1>2
  <2> QED BY <1>1, <2>1 DEF Seen, ObjectsIn
<1>3. ASSUME Undisturbed PROVE Seen(run.parent) = ObjectsIn(run.parent)
  BY <1>1, <1>3 DEF Seen, ObjectsIn, Undisturbed
<1>4. \A h \in DOMAIN objs : h >= 8 => h \in Sighted
  BY <1>1 DEF Sighted
<1> QED BY <1>2, <1>3, <1>4

(* What a variant is, and what disturbs, where the aim is the same.           *)
LEMMA AimStays ==
  ASSUME Frame, SameAim
  PROVE  /\ \A h : (IsVariant(h) => IsVariant(h)') /\ (IsUnseen(h) => IsUnseen(h)')
         /\ faults' = faults /\ others' = others => (GivesUp' <=> GivesUp) /\ (Undisturbed' <=> Undisturbed)
         /\ faults' # 0 => ~GivesUp' /\ ~Quiet'
<1>1. /\ run'.parent = run.parent /\ run'.name = run.name /\ run'.had = run.had /\ run'.existing = run.existing
      /\ orig' = orig /\ device' = device
  BY DEF Frame, SameAim
<1>2. ASSUME NEW h PROVE (IsVariant(h) => IsVariant(h)') /\ (IsUnseen(h) => IsUnseen(h)')
  BY <1>1 DEF IsVariant, IsUnseen, DeviceSameName
<1>3. faults' = faults /\ others' = others => (Undisturbed' <=> Undisturbed)
  BY <1>1 DEF Undisturbed
<1>4. faults' = faults /\ others' = others => (GivesUp' <=> GivesUp)
  BY <1>1, <1>3 DEF GivesUp
<1>5. faults' # 0 => ~GivesUp' /\ ~Quiet'
  BY DEF GivesUp, Undisturbed, Quiet
<1> QED BY <1>2, <1>3, <1>4, <1>5

(* What is in the way of a copy under its new name is a variant of it, or     *)
(* cannot be seen; and nothing is, where nothing disturbs a copy that gave a  *)
(* file up for it.                                                            *)
LEMMA InTheWay ==
  ASSUME BaseInv, Cp, Running, ~Lost, run.pc \in {"rename", "move copy"}, run.renamed,
         NEW g \in Occupants(run.parent, run.name, run.copy)
  PROVE  /\ g \in DOMAIN objs /\ g # run.copy /\ g # run.stage
         /\ g \in DOMAIN orig /\ device.clash # "both" => IsVariant(g) \/ IsUnseen(g)
         /\ GivesUp => device.clash = "both" /\ ~objs[g].folder
<1>1. /\ g \in DOMAIN objs /\ g # run.copy /\ objs[g].parent = run.parent /\ DeviceSameName(objs[g].name, run.name)
  BY DEF Occupants, ObjectsIn
<1>2. run.pc \in Late \ {"clear folder"}
  BY DEF Late
<1>3. g # run.stage
  <2>1. SUFFICES ASSUME g = run.stage PROVE FALSE
    OBVIOUS
  <2>2. run.stage # Nobody
    BY <1>1, <2>1 DEF BaseInv, StorageInv, Nobody
  <2>4. objs[g].name = "stage"
    BY <1>2, <2>1, <2>2 DEF Cp, StageInv, StageThere
  <2> QED BY <1>1, <2>4, SameNames DEF Cp, FolderInv
<1>4. ASSUME g \in DOMAIN orig
      PROVE  objs[g] = orig[g] /\ (device.clash # "both" => IsVariant(g) \/ IsUnseen(g))
  <2>1. objs[g] = orig[g]
    BY <1>1, <1>4 DEF Cp, HarmInv
  <2>2. run.existing # g
    BY <1>1, <1>2, <1>4 DEF Cp, HarmInv
  <2>3. device.clash # "both" /\ g \notin device.dim => orig[g].name # run.name
    BY <1>1, <1>4, <2>1, <2>2 DEF Cp, TargetInv
  <2>4. orig[g].name # run.name => IsVariant(g)
    BY <1>1, <2>1, SameNames DEF IsVariant
  <2>5. g \in device.dim => IsUnseen(g)
    BY <1>1, <2>1 DEF IsUnseen
  <2> QED BY <2>1, <2>3, <2>4, <2>5
<1>5. ASSUME GivesUp PROVE device.clash = "both" /\ ~objs[g].folder
  <2>1. g \in DOMAIN orig
    BY <1>1, <1>3, <1>5 DEF Cp, DecidedInv, GivesUp, Undisturbed, Quiet
  <2>2. objs[g] = orig[g] /\ orig[g].parent = run.parent /\ DeviceSameName(orig[g].name, run.name)
    BY <1>1, <1>4, <2>1
  <2>v. g \notin device.dim
    BY <1>5, <2>2 DEF GivesUp, Undisturbed
  <2>3. run.existing \in DOMAIN orig /\ orig[run.existing].parent = run.parent /\ orig[run.existing].name = run.name
    BY <1>5 DEF Cp, TargetInv, GivesUp, Undisturbed
  <2>4. run.existing # g
    BY <1>1, <1>2, <2>1 DEF Cp, HarmInv
  <2>5. device.clash = "both"
    BY <2>1, <2>2, <2>3, <2>4, OrigIs DEF BaseInv
  <2>6. ~orig[g].folder
    <3>1. SUFFICES ASSUME g = 1 PROVE FALSE
      BY <2>1, OrigIs DEF BaseInv
    <3>2. orig[1].name = "b"
      BY OrigIs DEF BaseInv
    <3>3. orig[1].name = run.name
      BY <2>2, <3>1, <3>2, SameNames
    <3>4. ~orig[1].folder
      BY <2>1, <2>2, <2>v, <3>1, <3>3 DEF Cp, TargetInv
    <3>5. orig[1].folder
      BY <2>1, <3>1, OrigIs DEF BaseInv
    <3> QED BY <3>4, <3>5
  <2> QED BY <2>2, <2>5, <2>6
<1> QED BY <1>1, <1>3, <1>4, <1>5

(* What a device writes over for a copy that it makes cannot be seen, and is  *)
(* not in the staging folder.                                                 *)
LEMMA CopyOver ==
  ASSUME BaseInv, Cp, Running, cmd.op = "cp", run.pc = "copy", ~CopyBlocked,
         NEW g \in Occupants(CopyDest, TheCopy.name, Fresh)
  PROVE  g \in DOMAIN objs /\ g \in DOMAIN orig /\ IsUnseen(g) /\ ~run.staged /\ ~Undisturbed
<1>1. TheCopy.name = run.had
  BY DEF TheCopy, Obj, BaseInv, SourceInv
<1>2. g \in ObjectsIn(CopyDest) /\ g \in DOMAIN objs /\ objs[g].parent = CopyDest /\ DeviceSameName(objs[g].name, run.had)
  BY <1>1 DEF Occupants, ObjectsIn
<1>3. g \in device.dim
  <2>1. Lower(objs[g].name) = Lower(TheCopy.name)
    BY <1>1, <1>2, SameNames
  <2> QED BY <1>2, <2>1 DEF CopyBlocked, Seen
<1>4. g \in DOMAIN orig /\ objs[g] = orig[g]
  BY <1>2, <1>3, OrigIs DEF BaseInv, Cp, HarmInv
<1>5. ~run.staged
  <2>1. SUFFICES ASSUME run.staged PROVE FALSE
    OBVIOUS
  <2>2. run.stage # Nobody /\ ObjectsIn(run.stage) = {} /\ CopyDest = run.stage
    BY <2>1 DEF Cp, StageInv, Late, CopyDest
  <2> QED BY <1>2, <2>2
<1>6. orig[g].parent = run.parent
  BY <1>2, <1>4, <1>5 DEF CopyDest
<1> QED BY <1>2, <1>3, <1>4, <1>5, <1>6 DEF IsUnseen, Undisturbed

(* What a step may do to what was there.                                      *)
Harmless ==
  /\ \A h \in DOMAIN orig \cap DOMAIN objs' : h \in DOMAIN objs /\ objs'[h] = objs[h]
  /\ \A h \in (DOMAIN orig \cap DOMAIN objs) \ DOMAIN objs' : IsVariant(h) \/ IsUnseen(h)

LEMMA HarmKeeps ==
  ASSUME HarmInv, Harmless, Frame, SameAim, run.pc \in {"stage"} \cup Late, run'.pc \notin Early
  PROVE  HarmInv'
<1>1. \A h \in DOMAIN orig \cap DOMAIN objs' : objs'[h] = orig[h]
  BY DEF HarmInv, Harmless
<1>2. ASSUME NEW h \in DOMAIN orig \ DOMAIN objs'
      PROVE  IsVariant(h)' \/ IsUnseen(h)' \/ (cmd'.replace /\ h = run'.existing)
  <2>1. IsVariant(h) \/ IsUnseen(h) \/ (cmd.replace /\ h = run.existing)
    BY DEF HarmInv, Harmless
  <2>2. cmd' = cmd /\ run'.existing = run.existing
    BY DEF Frame, SameAim
  <2> QED BY <2>1, <2>2, AimStays
<1>3. run.existing \notin DOMAIN orig \cap DOMAIN objs'
  BY DEF HarmInv, Harmless
<1>4. orig' = orig /\ run'.existing = run.existing
  BY DEF Frame, SameAim
<1> QED BY <1>1, <1>2, <1>3, <1>4 DEF HarmInv

(* The copy in its folder, whether or not its answer arrives.                 *)
LEMMA CopyDoes ==
  ASSUME BaseInv, Cp, Running, ~Lost, cmd.op = "cp", Frame, SameAim, SameStage, run.pc = "copy", ~CopyBlocked,
         objs' = Placed(Fresh, TheCopy)
  PROVE  /\ Harmless /\ Housed' /\ StageThere'
         /\ Fresh \in DOMAIN objs' /\ objs'[Fresh] = TheCopy
         /\ \A h \in DOMAIN objs' : h = Fresh \/ (h \in DOMAIN objs /\ objs'[h] = objs[h])
         /\ run.staged => ObjectsIn(run.stage)' = {Fresh}
<1>r. Fresh \in Nat /\ Fresh >= 8 /\ Fresh \notin DOMAIN objs
  BY FreshIs DEF BaseInv
<1>1. /\ run.staged <=> run.stage # Nobody
      /\ run.staged => /\ ObjectsIn(run.stage) = {} /\ run.stage \in DOMAIN objs /\ run.stage >= 8
                       /\ objs[run.stage].name = "stage" /\ objs[run.stage].folder
  BY DEF Cp, StageInv, StageThere, Late
<1>2. TheCopy.parent = CopyDest /\ TheCopy.name = run.had /\ ~TheCopy.folder
  BY DEF TheCopy, Obj, BaseInv, SourceInv
<1> DEFINE over == WrittenOver(Fresh, TheCopy)
<1>3. /\ DOMAIN objs' = (DOMAIN objs \ over) \cup {Fresh} /\ objs'[Fresh] = TheCopy
      /\ \A g \in DOMAIN objs \ (over \cup {Fresh}) : objs'[g] = objs[g]
  BY DEF Placed, WrittenOver, Added, Removed, Occupants
<1>4. \A g \in over : g \in DOMAIN orig /\ IsUnseen(g) /\ ~run.staged
  <2>1. over \subseteq Occupants(CopyDest, TheCopy.name, Fresh)
    BY <1>2 DEF WrittenOver
  <2> QED BY <2>1, CopyOver
<1> HIDE DEF over
<1>5. Fresh \notin DOMAIN orig
  BY <1>r, OrigIs DEF BaseInv
<1>6. Harmless
  BY <1>3, <1>4, <1>5 DEF Harmless
<1>7. run'.stage = run.stage /\ run'.staged = run.staged
  BY DEF SameStage
<1>8. Housed'
  <2>1. Housed /\ run.parent \in {Root, 1} /\ run.had # "stage"
    BY DEF Cp, FolderInv
  <2>2. CopyDest \in {Root, 1} \/ (run.stage # Nobody /\ CopyDest = run.stage)
    BY <1>1, <2>1 DEF CopyDest
  <2> QED BY <1>2, <1>3, <1>7, <2>1, <2>2 DEF Housed
<1>9. StageThere'
  <2>1. SUFFICES ASSUME run.staged
                 PROVE  run.stage \in DOMAIN objs' /\ objs'[run.stage].name = "stage" /\ objs'[run.stage].folder
    BY <1>1, <1>7 DEF StageThere
  <2> QED BY <1>1, <1>3, <1>4, <1>r, <2>1
<1>10. run.staged => ObjectsIn(run.stage)' = {Fresh}
  <2>1. ASSUME run.staged PROVE {h \in DOMAIN objs' : objs'[h].parent = run.stage} = {Fresh}
    <3>1. \A h \in DOMAIN objs : objs[h].parent # run.stage
      BY <1>1, <2>1 DEF ObjectsIn
    <3>2. TheCopy.parent = run.stage
      BY <1>2, <2>1 DEF CopyDest
    <3> QED BY <1>3, <3>1, <3>2
  <2> QED BY <1>7, <2>1 DEF ObjectsIn
<1> QED BY <1>3, <1>6, <1>8, <1>9, <1>10

(* The copy under its new name: what the device writes over for it is a       *)
(* variant of that name or cannot be seen, and nothing in the staging folder. *)
LEMMA RenameDoes ==
  ASSUME BaseInv, Cp, Running, ~Lost, cmd.op = "cp", Frame, SameAim, SameStage, run.pc = "rename",
         objs' = Placed(ToRename, Renamed)
  PROVE  /\ Harmless /\ Housed' /\ StageThere'
         /\ run.copy \in DOMAIN objs' /\ objs'[run.copy] = Renamed
         /\ \A h \in DOMAIN objs' : h = run.copy \/ (h \in DOMAIN objs /\ objs'[h] = objs[h])
         /\ run.staged => ObjectsIn(run.stage)' = {run.copy}
<1>1. /\ run.copy \in DOMAIN objs /\ run.copy >= 8 /\ ~objs[run.copy].folder /\ run.renamed
      /\ objs[run.copy].parent = IF run.staged THEN run.stage ELSE run.parent
      /\ run.staged <=> run.stage # Nobody
      /\ run.staged => run.stage \in DOMAIN objs /\ run.stage >= 8 /\ ObjectsIn(run.stage) = {run.copy}
                       /\ objs[run.stage].name = "stage" /\ objs[run.stage].folder
  BY DEF Cp, CopyInv, StageInv, StageThere, Late
<1>2. ToRename = run.copy /\ Renamed.name = run.name /\ Renamed.parent = objs[run.copy].parent /\ ~Renamed.folder
  BY <1>1 DEF ToRename, Renamed, BaseInv, StorageInv, Things
<1> DEFINE over == WrittenOver(run.copy, Renamed)
<1>3. /\ DOMAIN objs' = (DOMAIN objs \ over) \cup {run.copy} /\ objs'[run.copy] = Renamed
      /\ \A g \in DOMAIN objs \ (over \cup {run.copy}) : objs'[g] = objs[g]
  BY <1>2 DEF Placed, WrittenOver, Added, Removed, Occupants
<1>4. run.staged => over = {}
  BY <1>1, <1>2 DEF WrittenOver, Occupants
<1>5. ASSUME NEW h \in over, h \in DOMAIN orig PROVE IsVariant(h) \/ IsUnseen(h)
  <2>1. ~run.staged /\ device.clash = "overwrite"
    BY <1>4, <1>5 DEF WrittenOver
  <2>2. h \in Occupants(run.parent, run.name, run.copy)
    BY <1>1, <1>2, <1>5, <2>1 DEF WrittenOver
  <2> QED BY <1>1, <1>5, <2>1, <2>2, InTheWay
<1> HIDE DEF over
<1>6. run.copy \notin DOMAIN orig
  BY <1>1, OrigIs DEF BaseInv
<1>7. Harmless
  BY <1>3, <1>5, <1>6 DEF Harmless
<1>8. run'.stage = run.stage /\ run'.staged = run.staged
  BY DEF SameStage
<1>9. Housed'
  <2>1. Housed /\ run.name # "stage"
    BY DEF Cp, FolderInv
  <2> QED BY <1>1, <1>2, <1>3, <1>8, <2>1 DEF Housed
<1>10. StageThere'
  BY <1>1, <1>3, <1>4, <1>8 DEF StageThere
<1>11. run.staged => ObjectsIn(run.stage)' = {run.copy}
  <2>1. ASSUME run.staged PROVE {h \in DOMAIN objs' : objs'[h].parent = run.stage} = {run.copy}
    <3>1. \A h \in DOMAIN objs : objs[h].parent = run.stage <=> h = run.copy
      BY <1>1, <2>1 DEF ObjectsIn
    <3> QED BY <1>1, <1>2, <1>3, <3>1, <2>1
  <2> QED BY <1>8, <2>1 DEF ObjectsIn
<1> QED BY <1>3, <1>7, <1>9, <1>10, <1>11

(* The copy in its place.                                                     *)
LEMMA MoveDoes ==
  ASSUME BaseInv, Cp, Running, ~Lost, cmd.op = "cp", Frame, SameAim, SameStage, run.pc = "move copy",
         objs' = Placed(run.copy, InDestination(run.copy))
  PROVE  /\ Harmless /\ Housed' /\ StageThere'
         /\ run.copy \in DOMAIN objs' /\ objs'[run.copy] = InDestination(run.copy)
         /\ \A h \in DOMAIN objs' : h = run.copy \/ (h \in DOMAIN objs /\ objs'[h] = objs[h])
<1>1. /\ run.copy \in DOMAIN objs /\ run.copy >= 8 /\ ~objs[run.copy].folder /\ run.renamed
      /\ objs[run.copy].name = run.name /\ run.staged /\ run.stage # Nobody /\ run.stage >= 8
      /\ objs[run.copy].parent = run.stage
      /\ run.stage \in DOMAIN objs /\ objs[run.stage].name = "stage" /\ objs[run.stage].folder
  BY DEF Cp, CopyInv, StageInv, StageThere, Late
<1> DEFINE o == InDestination(run.copy)
           over == WrittenOver(run.copy, o)
<1>2. o.name = run.name /\ o.parent = run.parent /\ ~o.folder
  BY <1>1 DEF InDestination, BaseInv, StorageInv, Things
<1>3. /\ DOMAIN objs' = (DOMAIN objs \ over) \cup {run.copy} /\ objs'[run.copy] = o
      /\ \A g \in DOMAIN objs \ (over \cup {run.copy}) : objs'[g] = objs[g]
  BY DEF Placed, WrittenOver, Added, Removed, Occupants
<1>5. ASSUME NEW h \in over
      PROVE  h # run.stage /\ (h \in DOMAIN orig => IsVariant(h) \/ IsUnseen(h))
  <2>1. device.clash = "overwrite" /\ h \in Occupants(run.parent, run.name, run.copy)
    BY <1>2, <1>5 DEF WrittenOver
  <2> QED BY <1>1, <2>1, InTheWay
<1> HIDE DEF over, o
<1>6. run.copy \notin DOMAIN orig
  <2>1. \A h \in DOMAIN orig : ~(h >= 8)
    BY OldHandles
  <2>2. run.copy >= 8
    BY <1>1
  <2> QED BY <2>1, <2>2
<1>7. Harmless
  BY <1>3, <1>5, <1>6 DEF Harmless
<1>8. run'.stage = run.stage /\ run'.staged = run.staged
  BY DEF SameStage
<1>9. Housed'
  <2>1. Housed /\ run.name # "stage" /\ run.parent \in {Root, 1}
    BY DEF Cp, FolderInv
  <2>2. \A h \in DOMAIN objs' : h = run.copy \/ (h \in DOMAIN objs /\ objs'[h] = objs[h])
    BY <1>3
  <2>3. /\ objs'[run.copy].name = run.name /\ objs'[run.copy].parent = run.parent
        /\ ~objs'[run.copy].folder
    BY <1>2, <1>3
  <2> QED BY <1>8, <2>1, <2>2, <2>3 DEF Housed
<1>10. StageThere'
  <2>1. run.copy # run.stage
    <3>1. SUFFICES ASSUME run.copy = run.stage PROVE FALSE
      OBVIOUS
    <3> QED BY <1>1, <3>1
  <2> QED BY <1>1, <1>3, <1>5, <1>8, <2>1 DEF StageThere
<1> QED BY <1>3, <1>7, <1>9, <1>10 DEF o

(* What goes of the staging folder, or with it.                               *)
LEMMA ClearDoes ==
  ASSUME BaseInv, Cp, Running, ~Lost, Frame, SameAim, SameStage, NEW gone,
         \/ run.pc = "clear" /\ gone \in SUBSET Seen(run.stage)
         \/ run.pc = "clear folder" /\ gone = {run.stage},
         objs' = Removed(objs, gone)
  PROVE  /\ Harmless /\ Housed'
         /\ \A h \in DOMAIN objs' : h \in DOMAIN objs /\ objs'[h] = objs[h]
         /\ DOMAIN objs' = DOMAIN objs \ gone
<1>1. run.staged /\ run.stage # Nobody /\ run.stage >= 8
  BY DEF Cp, StageInv, Late
<1>2. /\ DOMAIN objs' = DOMAIN objs \ gone /\ \A h \in DOMAIN objs' : h \in DOMAIN objs /\ objs'[h] = objs[h]
  BY DEF Removed
<1>3. \A h \in DOMAIN orig \cap gone : h \notin DOMAIN objs
  <2>1. SUFFICES ASSUME NEW h \in DOMAIN orig, h \in gone, h \in DOMAIN objs PROVE FALSE
    OBVIOUS
  <2>2. objs[h] = orig[h] /\ orig[h].parent \in {Root, 1} /\ h \in 1 .. 7
    BY <2>1, OrigIs DEF BaseInv, Cp, HarmInv
  <2>3. CASE run.pc = "clear"
    <3>1. gone \subseteq Seen(run.stage)
      BY <2>3
    <3>2. orig[h].parent = run.stage
      BY <2>1, <2>2, <3>1 DEF Seen, ObjectsIn
    <3>3. run.stage # Root /\ run.stage # 1
      BY <1>1, NewHandles
    <3>4. orig[h].parent \in {Root, 1}
      BY <2>2
    <3> QED BY <3>2, <3>3, <3>4
  <2>4. CASE run.pc # "clear"
    <3>1. gone = {run.stage}
      BY <2>4
    <3>2. h = run.stage
      BY <2>1, <3>1
    <3>3. ~(h >= 8)
      BY <2>1, OldHandles
    <3>4. run.stage >= 8
      BY <1>1
    <3> QED BY <3>2, <3>3, <3>4
  <2> QED BY <2>3, <2>4
<1>4. Harmless
  BY <1>2, <1>3 DEF Harmless
<1>5. run'.stage = run.stage
  BY DEF SameStage
<1>6. Housed'
  <2>1. Housed
    BY DEF Cp, FolderInv
  <2> QED BY <1>2, <1>5, <2>1 DEF Housed
<1> QED BY <1>2, <1>4, <1>6

(* The steps of cp that look, and leave the storage alone.                    *)
LEMMA CpLooks ==
  ASSUME BaseInv, BaseInv', Cp, Running, ~Lost, cmd.op = "cp", Frame, ResolveSource \/ CopySiblings \/ LookUpCopy
  PROVE  Cp'
<1>r. run \in Runs
  BY DEF BaseInv, CallInv
<1>1. CASE ResolveSource
  <2>1. /\ objs' = objs /\ others' = others /\ faults' = faults /\ run.pc = "source"
        /\ run'.pc \in {"source", "target"} /\ SameAim /\ SameStage /\ SameCopy /\ run'.named = run.named
    BY <1>1, <1>r DEF ResolveSource, OnlyRun, End, Runs, SameAim, SameStage, SameCopy
  <2>2. FolderInv' /\ StageInv' /\ CopyInv' /\ TargetInv'
    <3>1. FolderInv'
      BY <2>1 DEF Cp, FolderInv, Housed, SameAim, SameStage
    <3>2. StageInv'
      BY <2>1 DEF Cp, StageInv, SameAim, SameStage, Late, BaseInv, StorageInv, Nobody
    <3>3. CopyInv' /\ TargetInv'
      BY <2>1 DEF CopyInv, TargetInv
    <3> QED BY <3>1, <3>2, <3>3
  <2>3. HarmInv'
    BY <2>1 DEF Cp, HarmInv, Frame, Early, Late
  <2>4. DecidedInv'
    BY <2>1 DEF Cp, DecidedInv, Quiet, Early, SameStage, Frame
  <2> QED BY <2>2, <2>3, <2>4 DEF Cp
<1>2. CASE CopySiblings
  <2> DEFINE clash == {h \in Seen(run.parent) \ {run.existing} : Lower(objs[h].name) = Lower(run.had)}
  <2>1. /\ objs' = objs /\ others' = others /\ faults' = faults /\ run.pc = "siblings" /\ Running
    BY <1>2 DEF CopySiblings, OnlyRun, Doing
  <2>2. SameAim /\ SameCopy /\ run'.stage = run.stage /\ run'.named = run.named
    BY <1>2, <1>r DEF CopySiblings, End, Runs, SameAim, SameCopy
  <2>3. \/ run'.pc = "siblings" /\ run'.staged = run.staged
        \/ run'.pc = "replace" /\ run'.result = "running" /\ (run'.staged <=> clash # {}) /\ (clash # {} => run.renamed)
    <3>1. CASE End("error")
      BY <1>r, <2>1, <3>1 DEF End, Runs
    <3>2. CASE ~End("error")
      <4>1. run' = [run EXCEPT !.staged = clash # {}, !.pc = "replace"] /\ (clash # {} => run.renamed)
        BY <1>2, <3>2 DEF CopySiblings
      <4> QED BY <1>r, <2>1, <4>1 DEF Runs, Running
    <3> QED BY <3>1, <3>2
  <2>4. run.stage = Nobody
    BY <2>1 DEF Cp, StageInv, Late
  <2>5. FolderInv'
    BY <2>1, <2>2 DEF Cp, FolderInv, Housed, SameAim
  <2>6. StageInv'
    BY <2>1, <2>2, <2>3, <2>4 DEF Cp, StageInv, SameAim, Late, BaseInv, StorageInv, Nobody
  <2>7. CopyInv'
    BY <2>3 DEF CopyInv
  <2>8. TargetInv'
    BY <2>1, <2>2, <2>3 DEF Cp, TargetInv, SameAim, Frame
  <2>9. HarmInv'
    BY <2>1, <2>2, <2>3 DEF Cp, HarmInv, Frame, Early, Late
  <2>10. DecidedInv'
    <3>1. run'.pc \in Early
      BY <2>3 DEF Early
    <3>2. Quiet' => \A h \in DOMAIN objs' : h \in DOMAIN orig' \/ h = run'.stage
      BY <2>1, <2>2 DEF Cp, DecidedInv, Quiet, Frame
    <3>3. run'.pc = "replace" /\ ~run'.staged =>
            \A h \in Seen(run.parent)' \ {run'.existing} : Lower(objs'[h].name) # Lower(run'.had)
      BY <2>1, <2>2, <2>3 DEF SameAim, Seen, ObjectsIn, Frame
    <3>4. run'.pc \notin {"copy", "clear", "clear folder"}
      BY <2>3
    <3> QED BY <3>1, <3>2, <3>3, <3>4 DEF DecidedInv
  <2> QED BY <2>5, <2>6, <2>7, <2>8, <2>9, <2>10 DEF Cp
<1>3. CASE LookUpCopy
  <2>1. /\ objs' = objs /\ others' = others /\ faults' = faults /\ run.pc = "look up" /\ Running
    BY <1>3 DEF LookUpCopy, OnlyRun, Doing
  <2>2. SameAim /\ SameStage /\ run'.copy = run.copy /\ run'.named = run.named /\ run'.pc = "clear" /\ run'.result = "running"
    BY <1>3, <1>r, <2>1 DEF LookUpCopy, Runs, Running, SameAim, SameStage
  <2>3. run'.copied
    <3>1. /\ run.copy \in DOMAIN objs /\ objs[run.copy].parent = run.parent /\ objs[run.copy].name = run.name
      BY <2>1 DEF Cp, CopyInv
    <3>2. objs[run.copy].folder \in BOOLEAN /\ run.copy \in Sighted
      BY <2>1, <3>1, SeenIs DEF BaseInv, StorageInv, Things, Cp, CopyInv
    <3>3. Find(run.parent, run.name, BOOLEAN) # Nobody
      BY <3>1, <3>2, FindIs DEF BaseInv
    <3> QED BY <1>3, <1>r, <3>3 DEF LookUpCopy, Runs
  <2>4. FolderInv'
    BY <2>1, <2>2 DEF Cp, FolderInv, Housed, SameAim, SameStage
  <2>5. StageInv'
    BY <2>1, <2>2 DEF Cp, StageInv, StageThere, SameAim, SameStage, Late, Returned
  <2>6. CopyInv' /\ TargetInv'
    <3>1. CopyInv'
      BY <2>2 DEF CopyInv
    <3>2. TargetInv'
      BY <2>1, <2>2, ZenonT(30) DEF Cp, TargetInv, SameAim, Frame
    <3> QED BY <3>1, <3>2
  <2>7. HarmInv'
    <3>1. Harmless
      BY <2>1 DEF Harmless
    <3> QED BY <2>1, <2>2, <3>1, HarmKeeps DEF Cp, Early, Late
  <2>8. DecidedInv'
    BY <2>1, <2>2, <2>3 DEF Cp, DecidedInv, Quiet, SameStage, Frame
  <2> QED BY <2>4, <2>5, <2>6, <2>7, <2>8 DEF Cp
<1> QED BY <1>1, <1>2, <1>3

(* cp resolves its target: while nothing has gone, the file to be replaced is *)
(* the only one of that name that was there, if names are unique.             *)
LEMMA CpTargets ==
  ASSUME BaseInv, BaseInv', Cp, Running, ~Lost, cmd.op = "cp", Frame, ResolveTarget
  PROVE  Cp'
<1>r. run \in Runs
  BY DEF BaseInv, CallInv
<1>1. /\ objs' = objs /\ others' = others /\ faults' = faults /\ run.pc = "target" /\ Running
      /\ run.source \in DOMAIN objs
  BY DEF ResolveTarget, OnlyRun
<1>2. CASE End("error")
  <2>1. SameAim /\ SameStage /\ SameCopy /\ run'.pc = run.pc /\ run'.result = "error" /\ run'.named = run.named
    BY <1>2, EndIs DEF BaseInv
  <2>2. FolderInv'
    BY <1>1, <2>1 DEF Cp, FolderInv, Housed, SameAim, SameStage
  <2>3. StageInv'
    BY <1>1, <2>1 DEF Cp, StageInv, SameAim, SameStage, Late, BaseInv, StorageInv, Nobody
  <2>4. CopyInv' /\ TargetInv'
    BY <1>1, <2>1 DEF CopyInv, TargetInv
  <2>5. HarmInv'
    BY <1>1, <2>1 DEF Cp, HarmInv, Frame, Early, Late
  <2>6. DecidedInv'
    BY <1>1, <2>1 DEF Cp, DecidedInv, Quiet, Running, Early, SameStage, Frame
  <2> QED BY <2>2, <2>3, <2>4, <2>5, <2>6 DEF Cp
<1>3. CASE ~End("error")
  <2>1. cmd.dest \in Dests
    BY CommandIs DEF BaseInv
  <2>2. PICK name \in Names : name = SourceName /\ name = objs[run.source].name
    BY <1>1 DEF SourceName, BaseInv, StorageInv, Things
  <2>3. PICK t \in Targets(name) : t = UploadTarget(cmd.dest, SourceName)
    BY <2>1, <2>2, TargetIs DEF BaseInv
  <2>4. /\ run'.parent = t.parent /\ run'.name = t.name /\ run'.existing = t.existing
        /\ run'.had = name /\ run'.pc = "siblings" /\ (run'.renamed <=> t.name # name) /\ t.parent # Missing
        /\ SameStage /\ SameCopy /\ run'.named = run.named /\ run'.result = "running"
    <3>1. /\ t.parent # Missing
          /\ run' = [run EXCEPT !.parent = t.parent, !.name = t.name, !.existing = t.existing,
                                !.renamed = (cmd.op # "put" /\ t.name # SourceName), !.had = SourceName,
                                !.pc = IF cmd.op = "cp" THEN "siblings" ELSE "replace"]
      BY <1>3, <2>3 DEF ResolveTarget
    <3> QED BY <1>1, <1>r, <2>2, <3>1 DEF Runs, SameStage, SameCopy, Running
  <2>5. /\ t.parent = Root \/ (t.parent \in DOMAIN objs /\ objs[t.parent].folder)
        /\ t.name \in {name, "x", "y", "X", "b"}
        /\ t.existing # Nobody =>
             /\ t.existing \in Sighted /\ objs[t.existing].parent = t.parent
             /\ objs[t.existing].name = t.name /\ ~objs[t.existing].folder
        /\ t.name # name => \A h \in Sighted :
             objs[h].parent = t.parent /\ objs[h].name = t.name =>
               ~objs[h].folder /\ t.existing # Nobody /\ t.existing <= h
    BY <2>3, <2>4 DEF Targets
  <2>6. run.stage = Nobody /\ ~run.staged /\ \A h \in DOMAIN objs : h # Nobody
    BY <1>1 DEF Cp, StageInv, Late, BaseInv, StorageInv, Nobody
  <2>7. DOMAIN orig \subseteq DOMAIN objs /\ \A h \in DOMAIN orig : objs[h] = orig[h]
    BY <1>1 DEF Cp, HarmInv, Early
  <2>8. FolderInv'
    <3>1. name # "stage"
      BY <1>1, <2>2, <2>6 DEF Cp, FolderInv, Housed
    <3>2. t.parent \in {Root, 1}
      BY <2>5, <2>6 DEF Cp, FolderInv, Housed
    <3>3. t.name # "stage"
      BY <2>5, <3>1
    <3> QED BY <1>1, <2>4, <3>1, <3>2, <3>3 DEF Cp, FolderInv, Housed, SameStage
  <2>9. StageInv'
    BY <1>1, <2>4, <2>6 DEF StageInv, SameStage, Late, BaseInv, StorageInv, Returned
  <2>10. CopyInv'
    BY <2>4 DEF CopyInv
  <2>11. TargetInv'
    <3>1. ASSUME NEW g \in DOMAIN orig \ device.dim, t.name # name, orig[g].parent = t.parent, orig[g].name = t.name
          PROVE  ~orig[g].folder /\ (device.clash # "both" => g = t.existing)
      <4>1. ~objs[g].folder /\ t.existing # Nobody /\ t.existing <= g
        BY <2>5, <2>7, <3>1 DEF Sighted
      <4>2. t.existing \in DOMAIN objs /\ objs[t.existing].parent = t.parent /\ objs[t.existing].name = t.name
        BY <2>5, <4>1 DEF Sighted
      <4>3. t.existing \in DOMAIN orig
        <5>1. t.existing \in Nat /\ (t.existing \in DOMAIN orig \/ t.existing >= 8)
          BY <4>2 DEF BaseInv, StorageInv
        <5>2. g \in 1 .. 7
          BY OrigIs DEF BaseInv
        <5> QED BY <4>1, <5>1, <5>2
      <4>4. orig[t.existing].parent = orig[g].parent /\ DeviceSameName(orig[t.existing].name, orig[g].name)
        BY <2>7, <3>1, <4>2, <4>3, SameNames
      <4>5. device.clash # "both" => g = t.existing
        BY <4>3, <4>4, OrigIs DEF BaseInv
      <4> QED BY <2>7, <4>1, <4>5
    <3>2. t.existing \in DOMAIN orig =>
            /\ orig[t.existing].parent = t.parent /\ orig[t.existing].name = t.name
            /\ ~orig[t.existing].folder
      BY <2>5, <2>6, <2>7, OrigIs DEF BaseInv, Nobody
    <3>3. faults = 0 /\ others = 0 /\ t.existing # Nobody => t.existing \in DOMAIN orig
      BY <1>1, <2>5, <2>6 DEF Cp, DecidedInv, Quiet, Sighted
    <3> QED BY <1>1, <2>4, <3>1, <3>2, <3>3 DEF TargetInv, Frame
  <2>12. HarmInv'
    BY <1>1, <2>4, <2>7 DEF HarmInv, Frame, Early, Late
  <2>13. DecidedInv'
    BY <1>1, <2>4 DEF Cp, DecidedInv, Quiet, Running, Early, SameStage, Frame
  <2> QED BY <2>8, <2>9, <2>10, <2>11, <2>12, <2>13 DEF Cp
<1> QED BY <1>2, <1>3

(* A call that fails, a kill, and what another program does.                  *)
LEMMA CpSuffers ==
  ASSUME BaseInv, BaseInv', Cp, Running, ~Lost, cmd.op = "cp", Frame, CallFails \/ Killed \/ OtherAdds
  PROVE  Cp'
<1>r. run \in Runs
  BY DEF BaseInv, CallInv
<1>n. faults \in Nat /\ others \in Nat /\ \A h \in DOMAIN objs : h # Nobody
  BY DEF BaseInv, CallInv, StorageInv, Nobody
<1>1. CASE CallFails
  <2>1. others' = others /\ faults' = faults + 1 /\ faults' # 0 /\ (objs' = objs \/ objs' \in Unheard)
    <3>1. others' = others /\ (objs' = objs \/ objs' \in Unheard)
      BY <1>1 DEF CallFails
    <3>2. faults' = faults + 1
      BY <1>1 DEF CallFails, Fault
    <3> QED BY <1>n, <3>1, <3>2
  <2>2. SameAim /\ SameStage /\ SameCopy
    BY <1>1, <1>r DEF CallFails, Go, Runs, SameAim, SameStage, SameCopy
  <2>3. \/ /\ run.pc \in {"copy", "rename", "move copy", "look up"} /\ run.stage # Nobody
           /\ run'.pc = "clear" /\ run'.result = "running"
        \/ /\ ~(run.pc \in {"copy", "rename", "move copy", "look up"} /\ run.stage # Nobody)
           /\ run'.pc = run.pc /\ run'.result = "error" /\ (run'.named <=> run.pc \in {"clear", "clear folder"})
    BY <1>1, <1>r DEF CallFails, Go, Runs, Running
  <2>m. run.pc \in Early \cup {"stage", "done"} \cup Late
    BY DEF BaseInv, PlaceInv, PointsOf
  <2>h. Housed
    BY DEF Cp, FolderInv
  <2>4. \/ objs' = objs
        \/ run.pc = "replace" /\ cmd.replace /\ objs' = Removed(objs, {run.existing})
        \/ run.pc = "stage" /\ objs' = Added(objs, Fresh, TheStage)
        \/ run.pc = "copy" /\ ~CopyBlocked /\ objs' = Placed(Fresh, TheCopy)
        \/ run.pc = "rename" /\ objs' = Placed(ToRename, Renamed)
        \/ run.pc = "move copy" /\ objs' = Placed(run.copy, InDestination(run.copy))
        \/ \E gone : /\ \/ run.pc = "clear" /\ gone \in SUBSET Seen(run.stage)
                        \/ run.pc = "clear folder" /\ gone = {run.stage}
                     /\ objs' = Removed(objs, gone)
    BY <2>1, <2>m, UnheardIs DEF MayReplace, Early, Late
  <2>5. run.pc \in Late => /\ Harmless /\ Housed'
                           /\ run.pc \in {"copy", "rename", "move copy", "look up"} => StageThere'
    <3>1. SUFFICES ASSUME run.pc \in Late
                   PROVE  /\ Harmless /\ Housed'
                          /\ run.pc \in {"copy", "rename", "move copy", "look up"} => StageThere'
      OBVIOUS
    <3>2. CASE objs' = objs
      BY <2>2, <2>h, <3>1, <3>2 DEF Harmless, Housed, Cp, StageInv, StageThere, SameStage
    <3>3. CASE objs' # objs
      BY <2>2, <2>4, <3>1, <3>3, CopyDoes, RenameDoes, MoveDoes, ClearDoes DEF Late
    <3> QED BY <3>2, <3>3
  <2>6. FolderInv'
    <3>1. run'.parent \in {Root, 1} /\ run'.name # "stage" /\ run'.had # "stage"
      BY <2>2 DEF Cp, FolderInv, SameAim
    <3>2. CASE run.pc \in Late
      <4>1. Housed'
        BY <2>5, <3>2
      <4> QED BY <3>1, <4>1 DEF FolderInv
    <3>3. CASE run.pc = "stage"
      BY <2>3, <3>1, <3>3 DEF FolderInv, Lost
    <3>4. CASE run.pc \in Early \cup {"done"}
      <4>1. \A h \in DOMAIN objs' : h \in DOMAIN objs /\ objs'[h] = objs[h]
        BY <2>4, <3>4 DEF Early, Removed
      <4> QED BY <2>2, <2>h, <3>1, <4>1 DEF FolderInv, Housed, SameStage
    <3> QED BY <2>m, <3>2, <3>3, <3>4
  <2>7. StageInv'
    <3>1. /\ run'.stage = run.stage /\ run'.staged = run.staged /\ run'.renamed = run.renamed
          /\ Nobody \notin DOMAIN objs'
      BY <2>2 DEF SameAim, SameStage, BaseInv, StorageInv, Nobody
    <3>2. CASE run'.pc = "clear" /\ run'.result = "running" /\ run.pc \in {"copy", "rename", "move copy", "look up"}
      <4>1. StageThere'
        <5>1. run.pc \in Late
          BY <3>2 DEF Late
        <5> QED BY <2>5, <3>2, <5>1
      <4> QED BY <2>3, <3>1, <3>2, <4>1 DEF Cp, StageInv, Late, Returned
    <3>3. CASE run'.pc = run.pc /\ run'.result = "error"
      <4>1. run.stage # Nobody => run.pc \in {"clear", "clear folder"} /\ run'.named
        BY <2>3, <3>3 DEF Cp, StageInv, Late
      <4>2. run.pc = "clear folder" => ObjectsIn(run.stage)' = {}
        <5>1. SUFFICES ASSUME run.pc = "clear folder" PROVE \A h \in DOMAIN objs' : objs'[h].parent # run.stage
          BY <3>1 DEF ObjectsIn
        <5>2. \A h \in DOMAIN objs' : h \in DOMAIN objs /\ objs'[h] = objs[h]
          BY <2>4, <5>1 DEF Removed
        <5>3. \A h \in DOMAIN objs : objs[h].parent # run.stage
          BY <5>1 DEF Cp, StageInv, ObjectsIn
        <5> QED BY <5>2, <5>3
      <4> QED BY <3>1, <3>3, <4>1, <4>2 DEF Cp, StageInv, Late, Returned, Running
    <3> QED BY <2>3, <3>2, <3>3
  <2>8. CopyInv'
    BY <2>3 DEF CopyInv, Running
  <2>9. TargetInv'
    BY <2>1, <2>2, <2>3 DEF Cp, TargetInv, SameAim, Frame
  <2>10. HarmInv'
    <3>1. CASE run.pc \in Late
      <4>1. run'.pc \notin Early
        BY <2>3, <3>1 DEF Early, Late
      <4>2. Harmless
        BY <2>5, <3>1
      <4>3. HarmInv /\ run.pc \in {"stage"} \cup Late
        BY <3>1 DEF Cp
      <4> QED BY <2>2, <4>1, <4>2, <4>3, HarmKeeps
    <3>2. CASE run.pc = "stage"
      <4>1. Harmless
        <5>1. Fresh \notin DOMAIN objs /\ Fresh \notin DOMAIN orig
          BY FreshIs, OrigIs DEF BaseInv
        <5> QED BY <2>4, <3>2, <5>1 DEF Harmless, Added, Late
      <4> QED BY <2>2, <2>3, <3>2, <4>1, HarmKeeps DEF Cp, Early
    <3>3. CASE run.pc \in Early \cup {"done"}
      <4>1. /\ \A h \in DOMAIN objs' : h \in DOMAIN objs /\ objs'[h] = objs[h]
            /\ \A h \in DOMAIN objs \ DOMAIN objs' : cmd.replace /\ h = run.existing
        BY <2>4, <3>3 DEF Early, Removed
      <4>2. run'.result = "error" /\ run'.pc = run.pc
        BY <2>3, <3>3 DEF Early
      <4>3. cmd' = cmd /\ orig' = orig /\ run'.existing = run.existing
        BY <2>2 DEF Frame, SameAim
      <4>4. \A h \in DOMAIN orig \ DOMAIN objs' :
              IsVariant(h) \/ IsUnseen(h) \/ (cmd.replace /\ h = run.existing)
        BY <4>1 DEF Cp, HarmInv
      <4> QED BY <2>1, <2>2, <3>3, <4>1, <4>2, <4>3, <4>4, AimStays DEF Cp, HarmInv, Running, Early, Late
    <3> QED BY <2>m, <3>1, <3>2, <3>3
  <2>11. DecidedInv'
    BY <2>1, <2>2, AimStays DEF DecidedInv
  <2> QED BY <2>6, <2>7, <2>8, <2>9, <2>10, <2>11 DEF Cp
<1>2. CASE Killed
  <2>1. objs' = objs /\ others' = others /\ faults' = faults
    BY <1>2 DEF Killed, OnlyRun
  <2>2. SameAim /\ SameStage /\ SameCopy /\ run'.pc = run.pc /\ run'.result = "killed" /\ run'.named = run.named
    BY <1>2, EndIs DEF Killed, BaseInv
  <2>3. FolderInv'
    BY <2>1, <2>2 DEF Cp, FolderInv, Housed, SameAim, SameStage
  <2>4. StageInv'
    BY <2>1, <2>2, ZenonT(30) DEF Cp, StageInv, SameAim, SameStage, SameCopy, Late, Returned, Running, ObjectsIn
  <2>5. CopyInv'
    BY <2>2 DEF CopyInv, Running
  <2>6. TargetInv'
    BY <2>1, <2>2 DEF Cp, TargetInv, SameAim, Frame
  <2>7. HarmInv'
    BY <2>1, <2>2, AimStays DEF Cp, HarmInv, Frame, SameAim, Early, Late
  <2>8. DecidedInv'
    <3>1. ~Quiet' /\ GivesUp' = GivesUp
      BY <2>1, <2>2 DEF Quiet, Running, GivesUp, Undisturbed, SameAim, Frame
    <3> QED BY <2>2, <3>1 DEF Cp, DecidedInv, SameCopy
  <2> QED BY <2>3, <2>4, <2>5, <2>6, <2>7, <2>8 DEF Cp
<1>3. CASE OtherAdds
  <2>1. run' = run /\ others' # 0 /\ Running
    BY <1>3, <1>n DEF OtherAdds
  <2>2. PICK p \in {Root, 1} : \E o : objs' = Added(objs, Fresh, o) /\ o = Obj(p, "y", FALSE, Elsewhere)
    BY <1>3 DEF OtherAdds
  <2>o. PICK o : objs' = Added(objs, Fresh, o) /\ o = Obj(p, "y", FALSE, Elsewhere)
    BY <2>2
  <2>3. o.parent = p /\ o.name = "y" /\ ~o.folder
    BY <2>o DEF Obj
  <2>4. Fresh \in Nat /\ Fresh >= 8 /\ Fresh \notin DOMAIN objs
    BY FreshIs DEF BaseInv
  <2>5. /\ DOMAIN objs' = DOMAIN objs \cup {Fresh} /\ objs'[Fresh] = o
        /\ \A h \in DOMAIN objs : objs'[h] = objs[h]
    BY <2>o, <2>4 DEF Added
  <2>6. run.stage # Nobody => run.stage >= 8 /\ run.stage \in Int
    BY <1>r DEF Cp, StageInv, Runs
  <2>7. run.stage # Nobody => ObjectsIn(run.stage)' = ObjectsIn(run.stage)
    BY <2>1, <2>3, <2>5, <2>6 DEF ObjectsIn, Root
  <2>8. FolderInv'
    BY <2>1, <2>3, <2>5 DEF Cp, FolderInv, Housed
  <2>9. StageInv'
    BY <2>1, <2>5, <2>7 DEF Cp, StageInv, StageThere, Returned, Running, Late
  <2>10. CopyInv' /\ TargetInv'
    <3>1. CopyInv'
      BY <2>1, <2>5 DEF Cp, CopyInv, Running
    <3>2. TargetInv'
      BY <2>1 DEF Cp, TargetInv, Frame
    <3> QED BY <3>1, <3>2
  <2>11. HarmInv'
    <3>1. Fresh \notin DOMAIN orig
      BY <2>4, OrigIs DEF BaseInv
    <3>2. SameAim
      BY <2>1 DEF SameAim
    <3>3. \A h \in DOMAIN orig \ DOMAIN objs' :
            IsVariant(h) \/ IsUnseen(h) \/ (cmd.replace /\ h = run.existing)
      BY <2>5 DEF Cp, HarmInv
    <3> QED BY <2>1, <2>5, <3>1, <3>2, <3>3, AimStays DEF Cp, HarmInv, Frame, Running
  <2>12. DecidedInv'
    BY <2>1 DEF DecidedInv, GivesUp, Undisturbed, Quiet, Running
  <2> QED BY <2>8, <2>9, <2>10, <2>11, <2>12 DEF Cp
<1> QED BY <1>1, <1>2, <1>3

(* The file in the way goes, the staging folder and the copy come.            *)
LEMMA CpReplaces ==
  ASSUME BaseInv, BaseInv', Cp, Running, ~Lost, cmd.op = "cp", Frame, Replace
  PROVE  Cp'
<1>r. run \in Runs
  BY DEF BaseInv, CallInv
<1>n. \A h \in DOMAIN objs : h # Nobody
  BY DEF BaseInv, StorageInv, Nobody
<1>1. /\ others' = others /\ faults' = faults /\ run.pc = "replace" /\ Running
  BY DEF Replace, OnlyRun, OnlyStorage
<1>2. SameAim /\ SameStage /\ SameCopy /\ run'.named = run.named
  BY <1>r DEF Replace, Go, End, Runs, SameAim, SameStage, SameCopy
<1>3. \/ objs' = objs /\ run'.pc = "replace" /\ run'.result = "error"
      \/ /\ run'.pc = (IF run.staged THEN "stage" ELSE "copy") /\ run'.result = "running"
         /\ \/ run.existing = Nobody /\ objs' = objs
            \/ cmd.replace /\ objs' = Removed(objs, {run.existing})
  BY <1>1, <1>r DEF Replace, MayReplace, OnlyRun, Go, End, AfterReplace, Runs, Running
<1>4. /\ DOMAIN objs' \subseteq DOMAIN objs /\ \A h \in DOMAIN objs' : objs'[h] = objs[h]
      /\ \A h \in DOMAIN objs \ DOMAIN objs' : h = run.existing /\ cmd.replace
      /\ run'.pc \in {"stage", "copy"} => run.existing \notin DOMAIN objs'
  <2>1. CASE objs' = objs
    BY <1>3, <1>n, <2>1 DEF Removed
  <2>2. CASE objs' # objs
    BY <1>3, <2>2 DEF Removed
  <2> QED BY <2>1, <2>2
<1>5. run.stage = Nobody
  BY <1>1 DEF Cp, StageInv, Late
<1>6. run'.pc \in {"replace", "stage", "copy"}
  BY <1>3
<1>7. FolderInv'
  BY <1>2, <1>4 DEF Cp, FolderInv, Housed, SameAim, SameStage
<1>8. StageInv'
  BY <1>1, <1>2, <1>3, <1>4, <1>5, <1>n DEF Cp, StageInv, StageThere, SameAim, SameStage, Late, Returned
<1>9. CopyInv'
  BY <1>6 DEF CopyInv
<1>10. TargetInv'
  BY <1>1, <1>2, <1>6 DEF Cp, TargetInv, SameAim, Frame
<1>11. HarmInv'
  <2>1. \A h \in DOMAIN orig \cap DOMAIN objs' : objs'[h] = orig[h]
    BY <1>4 DEF Cp, HarmInv
  <2>2. DOMAIN orig \subseteq DOMAIN objs
    BY <1>1 DEF Cp, HarmInv, Early
  <2>3. \A h \in DOMAIN orig \ DOMAIN objs' : cmd.replace /\ h = run.existing
    BY <1>4, <2>2
  <2>4. run'.pc \in Early => objs' = objs
    BY <1>3 DEF Early
  <2>5. run'.pc \in {"stage"} \cup Late => run.existing \notin DOMAIN orig \cap DOMAIN objs'
    BY <1>4, <1>6 DEF Late
  <2> QED BY <1>2, <2>1, <2>2, <2>3, <2>4, <2>5 DEF HarmInv, Frame, SameAim
<1>12. DecidedInv'
  <2>1. Quiet' => Quiet
    BY <1>1 DEF Quiet
  <2>2. Quiet' => \A h \in DOMAIN objs' : h \in DOMAIN orig' \/ h = run'.stage
    BY <1>1, <1>2, <1>4, <2>1 DEF Cp, DecidedInv, Frame, SameStage
  <2>3. Quiet' /\ ~run'.staged =>
          \A h \in Seen(run.parent)' \ {run'.existing} : Lower(objs'[h].name) # Lower(run'.had)
    <3>1. \A h \in Seen(run.parent)' : h \in Seen(run.parent) /\ objs'[h] = objs[h]
      <4>1. run'.parent = run.parent /\ device' = device
        BY <1>2 DEF SameAim, Frame
      <4> QED BY <1>4, <4>1 DEF Seen, ObjectsIn
    <3> QED BY <1>1, <1>2, <2>1, <3>1 DEF Cp, DecidedInv, SameStage, SameAim
  <2>4. run'.result = "error" => run'.pc \in Early
    BY <1>3 DEF Early
  <2> QED BY <1>6, <2>2, <2>3, <2>4 DEF DecidedInv
<1> QED BY <1>7, <1>8, <1>9, <1>10, <1>11, <1>12 DEF Cp

LEMMA CpStages ==
  ASSUME BaseInv, BaseInv', Cp, Running, ~Lost, cmd.op = "cp", Frame, Stage
  PROVE  Cp'
<1>r. run \in Runs /\ Fresh \in Nat /\ Fresh >= 8 /\ Fresh \notin DOMAIN objs /\ Fresh # Nobody
  BY FreshIs DEF BaseInv, CallInv, Nobody
<1>n. \A h \in DOMAIN objs : h # Nobody
  BY DEF BaseInv, StorageInv, Nobody
<1>1. others' = others /\ faults' = faults /\ run.pc = "stage" /\ Running
  BY DEF Stage, OnlyStorage, Doing
<1>2. /\ SameAim /\ SameCopy /\ run'.staged = run.staged /\ run'.named = run.named /\ run'.stage = Fresh
      /\ run'.pc = "copy" /\ run'.result = "running"
  BY <1>1, <1>r DEF Stage, Runs, SameAim, SameCopy, Running
<1>3. PICK o : o = TheStage /\ objs' = Added(objs, Fresh, o)
  BY DEF Stage
<1>4. o.parent = run.parent /\ o.name = "stage" /\ o.folder
  BY <1>3 DEF TheStage, Obj
<1>5. /\ DOMAIN objs' = DOMAIN objs \cup {Fresh} /\ objs'[Fresh] = o
      /\ \A h \in DOMAIN objs : objs'[h] = objs[h]
  BY <1>3, <1>r DEF Added
<1>6. run.stage = Nobody /\ run.staged
  BY <1>1 DEF Cp, StageInv, Late
<1>7. \A h \in DOMAIN objs' : objs'[h].parent \in {Root, 1}
  BY <1>4, <1>5, <1>6 DEF Cp, FolderInv, Housed
<1>8. FolderInv'
  <2>1. Housed'
    BY <1>2, <1>4, <1>5, <1>6, <1>7, <1>n DEF Cp, FolderInv, Housed
  <2> QED BY <1>2, <2>1 DEF Cp, FolderInv, SameAim
<1>10. StageInv'
  <2>1. ObjectsIn(run.stage)' = {}
    BY <1>2, <1>7, <1>r DEF ObjectsIn, Root
  <2>2. StageThere'
    BY <1>2, <1>4, <1>5 DEF StageThere
  <2> QED BY <1>2, <1>6, <1>r, <2>1, <2>2 DEF Cp, StageInv, SameAim, Late, Returned
<1>11. CopyInv'
  BY <1>2 DEF CopyInv
<1>12. TargetInv'
  BY <1>1, <1>2 DEF Cp, TargetInv, SameAim, Frame
<1>13. HarmInv'
  <2>1. Fresh \notin DOMAIN orig
    BY <1>r, OrigIs DEF BaseInv
  <2>2. Harmless
    BY <1>5, <2>1 DEF Harmless
  <2> QED BY <1>1, <1>2, <2>2, HarmKeeps DEF Cp, Early, Late
<1>14. DecidedInv'
  <2>1. Quiet' => \A h \in DOMAIN objs' : h \in DOMAIN orig' \/ h = run'.stage
    BY <1>1, <1>2, <1>5, <1>6, <1>n DEF Cp, DecidedInv, Quiet, Frame
  <2> QED BY <1>2, <1>6, <2>1 DEF DecidedInv
<1> QED BY <1>8, <1>10, <1>11, <1>12, <1>13, <1>14 DEF Cp

LEMMA CpCopies ==
  ASSUME BaseInv, BaseInv', Cp, Running, ~Lost, cmd.op = "cp", Frame, Copy
  PROVE  Cp'
<1>r. run \in Runs /\ Fresh \in Nat /\ Fresh >= 8 /\ Fresh \notin DOMAIN objs /\ Fresh # Nobody
  BY FreshIs DEF BaseInv, CallInv, Nobody
<1>n. Nobody \notin DOMAIN objs /\ Nobody \notin DOMAIN objs'
  BY DEF BaseInv, StorageInv, Nobody
<1>1. others' = others /\ faults' = faults /\ run.pc = "copy"
  BY DEF Copy, OnlyStorage, Doing
<1>2. /\ run.staged <=> run.stage # Nobody
      /\ run.staged => run.renamed /\ ObjectsIn(run.stage) = {} /\ CopyDest = run.stage
      /\ ~run.staged => CopyDest = run.parent
      /\ TheCopy.name = run.had /\ TheCopy.parent = CopyDest /\ ~TheCopy.folder
  BY <1>1 DEF TheCopy, Obj, BaseInv, SourceInv, Cp, StageInv, CopyDest, Late
<1>3. run.pc \in Late /\ run.pc \notin Early
  BY <1>1 DEF Early, Late
(* What disturbs the copy, if it stops.                                       *)
<1>4. ASSUME Occupants(CopyDest, TheCopy.name, Fresh) # {}, ~CopyBlocked PROVE ~run.staged /\ ~Undisturbed
  BY <1>1, <1>4, CopyOver
<1>5. ASSUME CopyBlocked \/ Refuses(Fresh, TheCopy) PROVE ~run.staged /\ ~GivesUp
  <2>1. CASE ~CopyBlocked
    BY <1>2, <1>4, <1>5, <2>1 DEF Refuses, GivesUp
  <2>2. CASE CopyBlocked
    <3>1. CopyBlocked => ObjectsIn(CopyDest) # {}
      BY DEF CopyBlocked, Listable, Seen
    <3>2. ~run.staged
      BY <1>2, <2>2, <3>1
    <3>3. SUFFICES ASSUME GivesUp PROVE FALSE
      BY <3>2
    <3>4. Seen(run.parent) = ObjectsIn(run.parent) /\ Quiet
      BY <3>3, SeenIs DEF Cp, GivesUp, Undisturbed, Quiet
    <3>5. PICK h \in Seen(run.parent) : Lower(objs[h].name) = Lower(run.had)
      BY <1>2, <2>2, <3>2, <3>4 DEF CopyBlocked, Listable
    <3>6. h # run.existing
      <4>1. run.existing \notin DOMAIN objs
        BY <1>3, <3>3, <1>1 DEF Cp, HarmInv, TargetInv, GivesUp, Undisturbed
      <4> QED BY <4>1 DEF Seen, ObjectsIn
    <3> QED BY <1>1, <3>2, <3>4, <3>5, <3>6 DEF Cp, DecidedInv
  <2> QED BY <2>1, <2>2
<1>6. \/ /\ CopyStops /\ ~run.staged /\ ~GivesUp
         /\ objs' = objs \/ (~CopyBlocked /\ objs' = Placed(Fresh, TheCopy))
      \/ /\ ~CopyBlocked /\ objs' = Placed(Fresh, TheCopy)
         /\ run' = [run EXCEPT !.copy = Fresh, !.pc = IF run.renamed THEN "rename" ELSE "done",
                               !.result = IF run.renamed THEN "running" ELSE "ok"]
  <2>1. CASE CopyBlocked \/ Refuses(Fresh, TheCopy)
    BY <1>5, <2>1 DEF Copy
  <2>2. CASE ~(CopyBlocked \/ Refuses(Fresh, TheCopy))
    BY <1>4, <2>2 DEF Copy, GivesUp
  <2> QED BY <2>1, <2>2
<1>7. CASE /\ CopyStops /\ ~run.staged /\ ~GivesUp
           /\ objs' = objs \/ (~CopyBlocked /\ objs' = Placed(Fresh, TheCopy))
  <2>1. SameAim /\ SameStage /\ SameCopy /\ run'.pc = "copy" /\ run'.result = "error" /\ run'.named = run.named
    BY <1>1, <1>7, EndIs DEF CopyStops, BaseInv
  <2>2. Harmless /\ Housed'
    <3>1. CASE objs' = objs
      BY <2>1, <3>1 DEF Harmless, Cp, FolderInv, Housed, SameStage
    <3>2. CASE objs' # objs
      BY <1>1, <1>7, <2>1, <3>2, CopyDoes
    <3> QED BY <3>1, <3>2
  <2>3. FolderInv'
    BY <2>1, <2>2 DEF Cp, FolderInv, SameAim
  <2>4. StageInv'
    BY <1>1, <1>2, <1>7, <1>n, <2>1 DEF Cp, StageInv, SameAim, SameStage, Late, Running
  <2>5. CopyInv'
    BY <2>1 DEF CopyInv, Running
  <2>6. TargetInv'
    BY <1>1, <2>1 DEF Cp, TargetInv, SameAim, Frame
  <2>7. HarmInv'
    BY <1>1, <1>3, <2>1, <2>2, HarmKeeps DEF Cp
  <2>8. DecidedInv'
    BY <1>1, <1>7, <2>1, AimStays DEF DecidedInv, Quiet, Running
  <2> QED BY <2>3, <2>4, <2>5, <2>6, <2>7, <2>8 DEF Cp
<1>8. CASE /\ ~CopyBlocked /\ objs' = Placed(Fresh, TheCopy)
           /\ run' = [run EXCEPT !.copy = Fresh, !.pc = IF run.renamed THEN "rename" ELSE "done",
                                 !.result = IF run.renamed THEN "running" ELSE "ok"]
  <2>1. /\ SameAim /\ SameStage /\ run'.copied = run.copied /\ run'.named = run.named /\ run'.copy = Fresh
        /\ run'.pc = (IF run.renamed THEN "rename" ELSE "done")
        /\ run'.result = (IF run.renamed THEN "running" ELSE "ok")
    BY <1>r, <1>8 DEF Runs, SameAim, SameStage
  <2>2. /\ Harmless /\ Housed' /\ StageThere'
        /\ Fresh \in DOMAIN objs' /\ objs'[Fresh] = TheCopy
        /\ \A h \in DOMAIN objs' : h = Fresh \/ (h \in DOMAIN objs /\ objs'[h] = objs[h])
        /\ run.staged => ObjectsIn(run.stage)' = {Fresh}
    BY <1>1, <1>8, <2>1, CopyDoes
  <2>3. FolderInv'
    BY <2>1, <2>2 DEF Cp, FolderInv, SameAim
  <2>4. StageInv'
    BY <1>1, <1>2, <1>n, <2>1, <2>2 DEF Cp, StageInv, SameAim, SameStage, Late, Returned
  <2>5. CopyInv'
    BY <1>r, <1>2, <2>1, <2>2 DEF CopyInv, SameAim, SameStage, Running
  <2>6. TargetInv'
    BY <1>1, <2>1 DEF Cp, TargetInv, SameAim, Frame
  <2>7. HarmInv'
    <3>1. run'.pc \notin Early
      BY <2>1 DEF Early
    <3> QED BY <1>3, <2>1, <2>2, <3>1, HarmKeeps DEF Cp
  <2>8. DecidedInv'
    <3>1. Quiet' => \A h \in DOMAIN objs' : h \in DOMAIN orig' \/ h = run'.stage \/ (h = run'.copy /\ run'.pc = "rename")
      BY <1>1, <2>1, <2>2 DEF Cp, DecidedInv, Quiet, Running, Frame, SameStage
    <3> QED BY <2>1, <3>1 DEF DecidedInv
  <2> QED BY <2>3, <2>4, <2>5, <2>6, <2>7, <2>8 DEF Cp
<1> QED BY <1>6, <1>7, <1>8

(* The copy gets its name and its place.                                      *)
LEMMA CpRenames ==
  ASSUME BaseInv, BaseInv', Cp, Running, ~Lost, cmd.op = "cp", Frame, Rename
  PROVE  Cp'
<1>n. Nobody \notin DOMAIN objs /\ Nobody \notin DOMAIN objs'
  BY DEF BaseInv, StorageInv, Nobody
<1>1. others' = others /\ faults' = faults /\ run.pc = "rename" /\ run.pc \in Late
  BY DEF Rename, OnlyStorage, Late
<1>2. /\ run.copy \in DOMAIN objs /\ run.copy >= 8 /\ ~objs[run.copy].folder /\ run.renamed
      /\ objs[run.copy].parent = IF run.staged THEN run.stage ELSE run.parent
      /\ run.staged <=> run.stage # Nobody
      /\ run.staged => run.stage >= 8 /\ ObjectsIn(run.stage) = {run.copy}
  BY <1>1 DEF Cp, CopyInv, StageInv, Late
<1>3. /\ ToRename = run.copy /\ Renamed.name = run.name /\ Renamed.parent = objs[run.copy].parent /\ ~Renamed.folder
  BY <1>2 DEF ToRename, Renamed, BaseInv, StorageInv, Things
<1>4. \/ Refuses(run.copy, Renamed) /\ objs' = objs /\ (IF run.staged THEN Go("clear") ELSE End("error"))
      \/ objs' = Placed(ToRename, Renamed) /\ (IF run.staged THEN Go("move copy") ELSE End("ok"))
  BY <1>3 DEF Rename, CopyStops
<1>5. SameAim /\ SameStage /\ SameCopy /\ run'.named = run.named
  BY <1>4, GoIs, EndIs DEF BaseInv
<1>6. TargetInv' /\ run'.pc \notin Early
  <2>1. run'.pc \in {"rename", "clear", "move copy"}
    BY <1>1, <1>4, GoIs, EndIs DEF BaseInv
  <2> QED BY <1>1, <1>5, <2>1 DEF Cp, TargetInv, SameAim, Frame, Early
<1>7. CASE Refuses(run.copy, Renamed) /\ objs' = objs /\ (IF run.staged THEN Go("clear") ELSE End("error"))
  <2>1. ~run.staged
    BY <1>2, <1>3, <1>7 DEF Refuses, Occupants
  <2>2. run'.pc = "rename" /\ run'.result = "error"
    BY <1>1, <1>7, <2>1, EndIs DEF BaseInv
  <2>3. FolderInv'
    BY <1>5, <1>7 DEF Cp, FolderInv, Housed, SameAim, SameStage
  <2>4. StageInv'
    BY <1>1, <1>2, <1>5, <1>n, <2>1, <2>2 DEF Cp, StageInv, SameAim, SameStage, Late, Running
  <2>5. CopyInv'
    BY <2>2 DEF CopyInv, Running
  <2>6. HarmInv'
    <3>1. Harmless
      BY <1>7 DEF Harmless
    <3> QED BY <1>1, <1>5, <1>6, <3>1, HarmKeeps DEF Cp
  <2>7. ~GivesUp
    <3>1. PICK g \in Occupants(run.parent, run.name, run.copy) : device.clash = "refuse" \/ objs[g].folder
      BY <1>2, <1>3, <1>7, <2>1 DEF Refuses
    <3>2. GivesUp => device.clash = "both" /\ ~objs[g].folder
      BY <1>1, <1>2, InTheWay
    <3> QED BY <3>1, <3>2
  <2>8. DecidedInv'
    BY <1>1, <1>5, <2>2, <2>7, AimStays DEF DecidedInv, Quiet, Running
  <2> QED BY <1>6, <2>3, <2>4, <2>5, <2>6, <2>8 DEF Cp
<1>8. CASE objs' = Placed(ToRename, Renamed) /\ (IF run.staged THEN Go("move copy") ELSE End("ok"))
  <2>1. /\ Harmless /\ Housed' /\ StageThere'
        /\ run.copy \in DOMAIN objs' /\ objs'[run.copy] = Renamed
        /\ \A h \in DOMAIN objs' : h = run.copy \/ (h \in DOMAIN objs /\ objs'[h] = objs[h])
        /\ run.staged => ObjectsIn(run.stage)' = {run.copy}
    BY <1>1, <1>5, <1>8, RenameDoes
  <2>2. \/ run.staged /\ run'.pc = "move copy" /\ run'.result = "running"
        \/ ~run.staged /\ run'.pc = "rename" /\ run'.result = "ok"
    BY <1>1, <1>8, GoIs, EndIs DEF BaseInv, Running
  <2>3. FolderInv'
    BY <1>5, <2>1 DEF Cp, FolderInv, SameAim
  <2>4. StageInv'
    BY <1>1, <1>2, <1>5, <1>n, <2>1, <2>2 DEF Cp, StageInv, SameAim, SameStage, SameCopy, Late, Returned, Running
  <2>5. CopyInv'
    BY <1>2, <1>3, <1>5, <2>1, <2>2, ZenonT(30) DEF CopyInv, SameAim, SameStage, SameCopy, Running
  <2>6. HarmInv'
    BY <1>1, <1>5, <1>6, <2>1, HarmKeeps DEF Cp
  <2>7. DecidedInv'
    <3>1. Quiet' => \A h \in DOMAIN objs' : h \in DOMAIN orig' \/ h = run'.stage \/ h = run'.copy
      BY <1>1, <1>5, <2>1 DEF Cp, DecidedInv, Quiet, Frame, SameStage, SameCopy
    <3>2. Quiet' => run'.pc = "move copy"
      BY <2>2 DEF Quiet, Running
    <3> QED BY <2>2, <3>1, <3>2 DEF DecidedInv
  <2> QED BY <1>6, <2>3, <2>4, <2>5, <2>6, <2>7 DEF Cp
<1> QED BY <1>4, <1>7, <1>8

LEMMA CpMoves ==
  ASSUME BaseInv, BaseInv', Cp, Running, ~Lost, cmd.op = "cp", Frame, MoveCopy
  PROVE  Cp'
<1>1. others' = others /\ faults' = faults /\ run.pc = "move copy" /\ run.pc \in Late
  BY DEF MoveCopy, OnlyStorage, Doing, Late
<1>2. /\ run.copy \in DOMAIN objs /\ run.copy >= 8 /\ ~objs[run.copy].folder /\ run.renamed
      /\ objs[run.copy].name = run.name /\ run.staged /\ run.stage # Nobody /\ run.stage >= 8
      /\ StageThere
  BY <1>1 DEF Cp, CopyInv, StageInv, Late
<1> DEFINE o == InDestination(run.copy)
<1>3. o.name = run.name /\ o.parent = run.parent /\ ~o.folder
  BY <1>2 DEF InDestination, BaseInv, StorageInv, Things
<1>4. \/ Refuses(run.copy, o) /\ objs' = objs /\ Go("clear")
      \/ objs' = Placed(run.copy, InDestination(run.copy)) /\ Go("look up")
  BY DEF MoveCopy
<1> HIDE DEF o
<1>5. SameAim /\ SameStage /\ SameCopy /\ run'.named = run.named /\ run'.result = "running"
  BY <1>1, <1>4, GoIs DEF BaseInv, Running
<1>6. TargetInv' /\ run'.pc \notin Early
  <2>1. run'.pc \in {"look up", "clear"}
    BY <1>4, GoIs DEF BaseInv
  <2> QED BY <1>1, <1>5, <2>1 DEF Cp, TargetInv, SameAim, Frame, Early
<1>7. CASE Refuses(run.copy, o) /\ objs' = objs /\ Go("clear")
  <2>1. run'.pc = "clear"
    BY <1>7, GoIs DEF BaseInv
  <2>2. FolderInv'
    BY <1>5, <1>7 DEF Cp, FolderInv, Housed, SameAim, SameStage
  <2>3. StageInv'
    <3>1. StageThere'
      BY <1>2, <1>5, <1>7 DEF StageThere, SameStage
    <3> QED BY <1>2, <1>5, <2>1, <3>1 DEF StageInv, SameAim, SameStage, Late, Returned
  <2>4. CopyInv'
    BY <2>1 DEF CopyInv
  <2>5. HarmInv'
    <3>1. Harmless
      BY <1>7 DEF Harmless
    <3> QED BY <1>1, <1>5, <1>6, <3>1, HarmKeeps DEF Cp
  <2>6. ~GivesUp
    <3>1. PICK g \in Occupants(run.parent, run.name, run.copy) : device.clash = "refuse" \/ objs[g].folder
      BY <1>3, <1>7 DEF Refuses
    <3>2. GivesUp => device.clash = "both" /\ ~objs[g].folder
      BY <1>1, <1>2, InTheWay
    <3> QED BY <3>1, <3>2
  <2>7. DecidedInv'
    <3>1. ~GivesUp'
      BY <1>1, <1>5, <2>6, AimStays
    <3>2. Quiet' => \A h \in DOMAIN objs' : h \in DOMAIN orig' \/ h = run'.stage \/ h = run'.copy
      BY <1>1, <1>5, <1>7 DEF Cp, DecidedInv, Quiet, Frame, SameStage, SameCopy
    <3> QED BY <2>1, <3>1, <3>2 DEF DecidedInv
  <2> QED BY <1>6, <2>2, <2>3, <2>4, <2>5, <2>7 DEF Cp
<1>8. CASE objs' = Placed(run.copy, InDestination(run.copy)) /\ Go("look up")
  <2>1. /\ Harmless /\ Housed' /\ StageThere'
        /\ run.copy \in DOMAIN objs' /\ objs'[run.copy] = o
        /\ \A h \in DOMAIN objs' : h = run.copy \/ (h \in DOMAIN objs /\ objs'[h] = objs[h])
    BY <1>1, <1>5, <1>8, MoveDoes DEF o
  <2>2. run'.pc = "look up"
    BY <1>8, GoIs DEF BaseInv
  <2>3. FolderInv'
    BY <1>5, <2>1 DEF Cp, FolderInv, SameAim
  <2>4. StageInv'
    BY <1>2, <1>5, <2>1, <2>2 DEF StageInv, SameAim, SameStage, Late, Returned
  <2>5. CopyInv'
    BY <1>2, <1>3, <1>5, <2>1, <2>2 DEF CopyInv, SameAim, SameStage, SameCopy
  <2>6. HarmInv'
    BY <1>1, <1>5, <1>6, <2>1, HarmKeeps DEF Cp
  <2>7. DecidedInv'
    <3>1. Quiet' => \A h \in DOMAIN objs' : h \in DOMAIN orig' \/ h = run'.stage \/ h = run'.copy
      BY <1>1, <1>5, <2>1 DEF Cp, DecidedInv, Quiet, Frame, SameStage, SameCopy
    <3> QED BY <1>5, <2>2, <3>1 DEF DecidedInv
  <2> QED BY <1>6, <2>3, <2>4, <2>5, <2>6, <2>7 DEF Cp
<1> QED BY <1>4, <1>7, <1>8

(* The staging folder is emptied, and goes.                                   *)
LEMMA CpClears ==
  ASSUME BaseInv, BaseInv', Cp, Running, ~Lost, cmd.op = "cp", Frame, ClearStage \/ RemoveStage
  PROVE  Cp'
<1>1. others' = others /\ faults' = faults /\ run.pc \in {"clear", "clear folder"} /\ run.pc \in Late
  BY DEF ClearStage, RemoveStage, OnlyStorage, Doing, Late
<1>2. run.staged /\ run.stage # Nobody /\ run.stage >= 8 /\ run.renamed
  BY <1>1 DEF Cp, StageInv, Late
<1>3. PICK gone : objs' = Removed(objs, gone) /\ gone = IF run.pc = "clear" THEN Seen(run.stage) ELSE {run.stage}
  BY <1>1 DEF ClearStage, RemoveStage, Doing
<1>5. SameAim /\ SameStage /\ SameCopy /\ run'.named = run.named /\ run'.pc = "clear folder"
  BY <1>1, GoIs, EndIs DEF ClearStage, RemoveStage, Doing, BaseInv
<1>4. /\ Harmless /\ Housed' /\ DOMAIN objs' = DOMAIN objs \ gone
      /\ \A h \in DOMAIN objs' : h \in DOMAIN objs /\ objs'[h] = objs[h]
  BY <1>1, <1>3, <1>5, ClearDoes
<1>6. \/ run.pc = "clear" /\ run'.result = "running"
      \/ run.pc = "clear folder" /\ run'.result = (IF run.copied THEN "ok" ELSE "error")
  BY <1>1, GoIs, EndIs DEF ClearStage, RemoveStage, Doing, BaseInv, Running
<1>8. FolderInv'
  BY <1>4, <1>5 DEF Cp, FolderInv, SameAim
<1>9. StageInv'
  <2>1. ObjectsIn(run.stage)' = {}
    <3>1. \A h \in DOMAIN objs' : objs'[h].parent # run.stage
      <4>1. CASE run.pc = "clear"
        <5>1. gone = {h \in DOMAIN objs : objs[h].parent = run.stage}
          BY <1>2, <1>3, <4>1, SeenIs DEF Cp, ObjectsIn
        <5> QED BY <1>4, <5>1
      <4>2. CASE run.pc = "clear folder"
        <5>1. {h \in DOMAIN objs : objs[h].parent = run.stage} = {}
          BY <4>2 DEF Cp, StageInv, ObjectsIn
        <5> QED BY <1>4, <5>1
      <4> QED BY <1>1, <4>1, <4>2
    <3>2. run'.stage = run.stage
      BY <1>5 DEF SameStage
    <3> QED BY <3>1, <3>2 DEF ObjectsIn
  <2>2. Returned' => run'.stage \notin DOMAIN objs'
    BY <1>3, <1>4, <1>5, <1>6 DEF Returned, SameStage
  <2> QED BY <1>2, <1>5, <2>1, <2>2 DEF StageInv, SameAim, SameStage, Late
<1>10. CopyInv'
  BY <1>5 DEF CopyInv
<1>11. TargetInv'
  BY <1>1, <1>5 DEF Cp, TargetInv, SameAim, Frame
<1>12. HarmInv'
  <2>1. run'.pc \notin Early
    BY <1>5 DEF Early
  <2> QED BY <1>1, <1>4, <1>5, <2>1, HarmKeeps DEF Cp
<1>13. DecidedInv'
  <2>1. Quiet' => \A h \in DOMAIN objs' : h \in DOMAIN orig' \/ h = run'.stage \/ h = run'.copy
    BY <1>1, <1>4, <1>5 DEF Cp, DecidedInv, Quiet, Frame, SameStage, SameCopy
  <2>2. GivesUp' <=> GivesUp
    BY <1>1, <1>5, AimStays
  <2>3. GivesUp => run.copied
    BY <1>1 DEF Cp, DecidedInv
  <2>4. GivesUp' => run'.copied /\ run'.result # "error"
    BY <1>5, <1>6, <2>2, <2>3 DEF SameCopy
  <2> QED BY <1>5, <2>1, <2>4 DEF DecidedInv
<1> QED BY <1>8, <1>9, <1>10, <1>11, <1>12, <1>13 DEF Cp

LEMMA CpKeeps ==
  ASSUME BaseInv, CpInv, CliNext
  PROVE  CpInv'
<1>1. Frame /\ BaseInv' /\ Running /\ ~Lost
  BY FrameKeeps, BaseKeeps, StepsRun DEF Lost, Running
<1>2. ASSUME cmd.op = "cp" PROVE Cp'
  <2>1. Cp
    BY <1>2 DEF CpInv, Cp
  <2> QED BY <1>1, <1>2, <2>1, CpSteps, CpLooks, CpTargets, CpSuffers, CpReplaces, CpStages, CpCopies, CpRenames, CpMoves, CpClears
<1> QED BY <1>1, <1>2 DEF CpInv, Cp, Frame

LEMMA InitCp ==
  ASSUME CliInit
  PROVE  CpInv
<1>1. BaseInv /\ orig = objs
  BY InitBase
<1>2. ASSUME cmd.op = "cp" PROVE Cp
  <2>1. /\ run.pc = "source" /\ run.result = "running" /\ run.parent = Root /\ run.name = "" /\ run.had = ""
        /\ ~run.renamed /\ ~run.staged /\ run.stage = Nobody /\ others = 0
    BY <1>2 DEF CliInit
  <2>2. \A h \in DOMAIN objs : h # Nobody /\ objs[h].parent \in {Root, 1} /\ objs[h].name # "stage" /\ (objs[h].folder <=> h = 1)
    BY <1>1, OrigIs DEF BaseInv, StorageInv, Nobody
  <2>3. FolderInv
    BY <2>1, <2>2 DEF FolderInv, Housed
  <2>4. StageInv
    BY <2>1, <2>2 DEF StageInv, StageThere, Late, Returned
  <2>5. CopyInv /\ TargetInv
    BY <2>1 DEF CopyInv, TargetInv
  <2>6. HarmInv
    BY <1>1, <2>1 DEF HarmInv, Late
  <2>7. DecidedInv
    BY <1>1, <2>1 DEF DecidedInv
  <2> QED BY <2>3, <2>4, <2>5, <2>6, <2>7 DEF Cp
<1> QED BY <1>2 DEF CpInv, Cp

LEMMA CpIsSafe ==
  ASSUME BaseInv, CpInv
  PROVE  RemoteIsSafe
<1>1. ASSUME cmd.op = "cp", NEW h \in DOMAIN orig, ~Spared(h), ~IsVariant(h), ~IsUnseen(h)
      PROVE  /\ cmd.replace /\ h = run.existing
             /\ run.result = "error" => ~Undisturbed
  <2>1. HarmInv /\ DecidedInv
    BY <1>1 DEF CpInv
  <2>2. h \notin DOMAIN objs
    BY <1>1, <2>1 DEF HarmInv, Spared
  <2>3. cmd.replace /\ h = run.existing
    BY <1>1, <2>1, <2>2 DEF HarmInv
  <2>4. h # Nobody
    BY OrigIs DEF BaseInv, Nobody
  <2>5. ASSUME run.result = "error", Undisturbed PROVE FALSE
    <3>1. run.pc \in Early
      BY <2>1, <2>3, <2>4, <2>5 DEF DecidedInv, GivesUp
    <3>2. faults = 0
      BY <2>5 DEF Undisturbed
    <3> QED BY <2>1, <2>2, <3>1, <3>2 DEF HarmInv
  <2> QED BY <2>3, <2>5
<1>2. CopyHarmsNothing
  BY <1>1 DEF CopyHarmsNothing
<1>3. StagingIsCleared
  <2>1. SUFFICES ASSUME Returned, cmd.op = "cp", ~run.named, run.pc # "stage",
                        NEW h \in DOMAIN objs, objs[h].name = "stage"
                 PROVE  FALSE
    BY DEF StagingIsCleared
  <2>2. h = run.stage
    BY <2>1 DEF CpInv, FolderInv, Lost, Housed
  <2> QED BY <2>1, <2>2 DEF CpInv, StageInv
<1>4. NoJunkFromPut
  <2>1. SUFFICES ASSUME Returned, faults < 2, run.pc # "upload", NEW h \in DOMAIN objs, objs[h].data = Partial
                 PROVE  FALSE
    BY DEF NoJunkFromPut
  <2>2. faults >= 2 /\ faults \in Nat
    BY <2>1 DEF BaseInv, PartInv, CallInv
  <2> QED BY <2>1, <2>2
<1> QED BY <1>2, <1>3, <1>4 DEF RemoteIsSafe

(* RemoteIsSafe.  Whatever the device does about names that are taken and     *)
(* about objects it cannot describe, and wherever cp fails, with or without   *)
(* effect, or is killed, it costs nothing that it sees but a name in another  *)
(* case and the file --replace gave up, and that one not in vain where it     *)
(* sees all of the destination; its staging folder is removed or named and    *)
(* put leaves no part of a file, but for one whose handle was lost with an    *)
(* answer (staged_copy, remove_staging_folder and the clean-up of put).       *)
THEOREM CommandsHarmNothing == CliSpec => []RemoteIsSafe
<1>1. CliInit => BaseInv /\ CpInv
  BY InitBase, InitCp
<1>2. BaseInv /\ CpInv /\ [CliNext]_cliVars => (BaseInv /\ CpInv)'
  <2>1. SUFFICES ASSUME BaseInv, CpInv, [CliNext]_cliVars PROVE (BaseInv /\ CpInv)'
    OBVIOUS
  <2>2. CASE CliNext
    BY <2>1, <2>2, BaseKeeps, CpKeeps
  <2>3. CASE UNCHANGED cliVars
    <3>0. ASSUME cmd.op = "cp" PROVE FolderInv' /\ CopyInv' /\ TargetInv'
      <4>1. FolderInv'
        BY <2>1, <2>3, <3>0 DEF cliVars, CpInv, FolderInv, Housed, Lost
      <4>2. CopyInv'
        BY <2>1, <2>3, <3>0 DEF cliVars, CpInv, CopyInv, Running
      <4>3. TargetInv'
        BY <2>1, <2>3, <3>0 DEF cliVars, CpInv, TargetInv
      <4> QED BY <4>1, <4>2, <4>3
    <3>1. ASSUME cmd.op = "cp" PROVE StageInv'
      BY <2>1, <2>3, <3>1 DEF cliVars, CpInv, StageInv, StageThere, Returned, Running, ObjectsIn
    <3>2. ASSUME cmd.op = "cp" PROVE HarmInv'
      BY <2>1, <2>3, <3>2, ZenonT(30) DEF cliVars, CpInv, HarmInv, IsVariant, IsUnseen, DeviceSameName, Running
    <3>3. ASSUME cmd.op = "cp" PROVE DecidedInv'
      BY <2>1, <2>3, <3>3, ZenonT(30)
         DEF cliVars, CpInv, DecidedInv, GivesUp, Undisturbed, Quiet, Running, Seen, ObjectsIn
    <3>4. CpInv'
      BY <2>3, <3>0, <3>1, <3>2, <3>3 DEF cliVars, CpInv
    <3> QED BY <2>1, <3>4, BaseKeeps
  <2> QED BY <2>1, <2>2, <2>3
<1>3. BaseInv /\ CpInv => RemoteIsSafe
  BY CpIsSafe
<1> QED BY <1>1, <1>2, <1>3, PTL DEF CliSpec

-----------------------------------------------------------------------------
(* The calendar. *)

(* The day that March 1 of a year is on, and how many days there are to the   *)
(* next.  Years here begin in March, so that a leap day ends one.             *)
Start(y) == 365 * y + y \div 4 - y \div 100 + y \div 400 - 719468
Length(y) == IF IsLeapYear(y + 1) THEN 366 ELSE 365

(* A year and its first day by era, century, four years and year of these.    *)
YearNo(e, c, q, i) == 400 * e + 100 * c + 4 * q + i
FirstDay(e, c, q, i) == 146097 * e + 36524 * c + 1461 * q + 365 * i - 719468
DaysOf(c, q, i) == IF i = 3 /\ (q = 24 => c = 3) THEN 366 ELSE 365

(* Eras of 400 years, centuries, four years, years.                           *)
LEMMA EraOf ==
  ASSUME NEW z \in Int
  PROVE  \E e \in Int, r \in Nat : r < 146097 /\ z = 146097 * e + r
<1>1. PICK e \in Int : e = z \div 146097
  BY SMT
<1>2. z - 146097 * e \in Nat /\ z - 146097 * e < 146097
  BY <1>1, SMT
<1>3. z = 146097 * e + (z - 146097 * e)
  BY SMT
<1> QED BY <1>2, <1>3, SMT

LEMMA CenturyOf ==
  ASSUME NEW r \in Nat, r < 146097
  PROVE  \E c \in 0 .. 3, s \in Nat : s <= 36524 /\ r = 36524 * c + s /\ (s = 36524 => c = 3)
<1> DEFINE c == IF r = 146096 THEN 3 ELSE r \div 36524
<1>1. c \in 0 .. 3
  BY SMT
<1>2. r - 36524 * c \in Nat /\ r - 36524 * c <= 36524 /\ (r - 36524 * c = 36524 => c = 3)
  BY SMT
<1> HIDE DEF c
<1>3. r = 36524 * c + (r - 36524 * c)
  BY <1>1, SMT
<1> QED BY <1>1, <1>2, <1>3, SMT

LEMMA FourYearsOf ==
  ASSUME NEW s \in Nat, s <= 36524
  PROVE  \E q \in 0 .. 24, t \in Nat : t <= 1460 /\ s = 1461 * q + t
<1>1. PICK q \in Int : q = s \div 1461
  BY SMT
<1>2. q \in 0 .. 24
  BY <1>1, SMT
<1>3. s - 1461 * q \in Nat /\ s - 1461 * q <= 1460
  BY <1>1, SMT
<1>4. s = 1461 * q + (s - 1461 * q)
  BY <1>1, SMT
<1> QED BY <1>2, <1>3, <1>4, SMT

LEMMA YearOfFour ==
  ASSUME NEW t \in Nat, t <= 1460
  PROVE  \E i \in 0 .. 3, doy \in 0 .. 365 :
           t = 365 * i + doy /\ (doy = 365 => t = 1460 /\ i = 3)
<1> DEFINE i == IF t = 1460 THEN 3 ELSE t \div 365
<1>1. i \in 0 .. 3
  BY SMT
<1>2. t - 365 * i \in 0 .. 365 /\ (t - 365 * i = 365 => t = 1460 /\ i = 3)
  BY SMT
<1> HIDE DEF i
<1>3. t = 365 * i + (t - 365 * i)
  BY <1>1, SMT
<1> QED BY <1>1, <1>2, <1>3, SMT

LEMMA YearParts ==
  ASSUME NEW y \in Int
  PROVE  \E e \in Int, c \in 0 .. 3, q \in 0 .. 24, i \in 0 .. 3 :
           y = YearNo(e, c, q, i)
<1>1. PICK e \in Int : e = y \div 400
  BY SMT
<1>2. PICK r \in 0 .. 399 : y = 400 * e + r
  <2>1. y - 400 * e \in 0 .. 399 /\ y = 400 * e + (y - 400 * e)
    BY <1>1, SMT
  <2> QED BY <2>1, SMT
<1>3. PICK c \in 0 .. 3, s \in 0 .. 99 : r = 100 * c + s
  <2>1. PICK c \in 0 .. 3 : c = r \div 100
    BY SMT
  <2>2. r - 100 * c \in 0 .. 99 /\ r = 100 * c + (r - 100 * c)
    BY <2>1, SMT
  <2> QED BY <2>2, SMT
<1>4. PICK q \in 0 .. 24, i \in 0 .. 3 : s = 4 * q + i
  <2>1. PICK q \in 0 .. 24 : q = s \div 4
    BY SMT
  <2>2. s - 4 * q \in 0 .. 3 /\ s = 4 * q + (s - 4 * q)
    BY <2>1, SMT
  <2> QED BY <2>2, SMT
<1>5. y = YearNo(e, c, q, i)
  BY <1>2, <1>3, <1>4, SMT DEF YearNo
<1> QED BY <1>5, SMT

(* Where a year begins, and whether it ends with a leap day.                  *)
LEMMA StartIs ==
  ASSUME NEW e \in Int, NEW c \in 0 .. 3, NEW q \in 0 .. 24, NEW i \in 0 .. 3
  PROVE  /\ Start(YearNo(e, c, q, i)) = FirstDay(e, c, q, i)
         /\ Length(YearNo(e, c, q, i)) = DaysOf(c, q, i)
<1>0. PICK y \in Int : y = 400 * e + 100 * c + 4 * q + i
  BY SMT
<1>1. y \div 400 = e /\ y \div 100 = 4 * e + c /\ y \div 4 = 100 * e + 25 * c + q
  BY <1>0, SMT
<1>2. (y + 1) % 4 = 0 <=> i = 3
  BY <1>0, SMT
<1>3. (y + 1) % 100 = 0 <=> i = 3 /\ q = 24
  BY <1>0, SMT
<1>4. (y + 1) % 400 = 0 <=> i = 3 /\ q = 24 /\ c = 3
  BY <1>0, SMT
<1>5. Length(y) = DaysOf(c, q, i)
  BY <1>2, <1>3, <1>4, SMT DEF IsLeapYear, Length, DaysOf
<1>6. Start(y) = FirstDay(e, c, q, i)
  BY <1>0, <1>1, SMT DEF Start, FirstDay
<1>8. y = YearNo(e, c, q, i)
  BY <1>0, SMT DEF YearNo
<1> QED BY <1>5, <1>6, <1>8, Zenon

(* Every day is in a year.                                                    *)
LEMMA DayIsInYear ==
  ASSUME NEW d \in Int
  PROVE  \E y \in Int : \E doy \in 0 .. Length(y) - 1 : d = Start(y) + doy
<1>1. PICK e \in Int, r \in Nat : r < 146097 /\ d + 719468 = 146097 * e + r
  <2>1. PICK z \in Int : z = d + 719468
    BY SMT
  <2>2. PICK e \in Int, r \in Nat : r < 146097 /\ z = 146097 * e + r
    BY EraOf, SMT
  <2> QED BY <2>1, <2>2, SMT
<1>2. PICK c \in 0 .. 3, s \in Nat : s <= 36524 /\ r = 36524 * c + s /\ (s = 36524 => c = 3)
  BY <1>1, CenturyOf, SMT
<1>3. PICK q \in 0 .. 24, t \in Nat : t <= 1460 /\ s = 1461 * q + t
  BY <1>2, FourYearsOf, SMT
<1>4. PICK i \in 0 .. 3, doy \in 0 .. 365 : t = 365 * i + doy /\ (doy = 365 => t = 1460 /\ i = 3)
  BY <1>3, YearOfFour, SMT
<1>5. doy = 365 => i = 3 /\ (q = 24 => c = 3)
  BY <1>2, <1>3, <1>4, SMT
<1>6. YearNo(e, c, q, i) \in Int
  BY SMT DEF YearNo
<1>7. Start(YearNo(e, c, q, i)) = FirstDay(e, c, q, i)
  BY StartIs, Zenon
<1>8. Length(YearNo(e, c, q, i)) = DaysOf(c, q, i)
  BY StartIs, Zenon
<1>9. PICK y \in Int : y = YearNo(e, c, q, i)
  BY <1>6, Zenon
<1>10. Start(y) = FirstDay(e, c, q, i)
  BY <1>7, <1>9, Zenon
<1>11. Length(y) = DaysOf(c, q, i)
  BY <1>8, <1>9, Zenon
<1>12. doy \in 0 .. Length(y) - 1
  BY <1>5, <1>11, SMT DEF DaysOf
<1>13. d = Start(y) + doy
  BY <1>1, <1>2, <1>3, <1>4, <1>10, SMT DEF FirstDay
<1> QED BY <1>12, <1>13, SMT

(* civil_from_days: the divisions by 1460, 36524 and 146096 take the leap     *)
(* days off, whatever the century and the four years.                         *)
DayNo(c, q, i, doy) == 36524 * c + 1461 * q + 365 * i + doy
YearInEra(c, q, i) == 100 * c + 4 * q + i
YearOfDay(doe) == (doe - doe \div 1460 + doe \div 36524 - doe \div 146096) \div 365

LEMMA YearOfEra ==
  ASSUME NEW c \in 0 .. 3, NEW q \in 0 .. 24, NEW i \in 0 .. 3,
         NEW doy \in 0 .. DaysOf(c, q, i) - 1
  PROVE  YearOfDay(DayNo(c, q, i, doy)) = YearInEra(c, q, i)
<1>0. doy \in 0 .. 365 /\ (doy = 365 => i = 3 /\ (q = 24 => c = 3))
  BY SMT DEF DaysOf
<1> PICK doe \in Int : doe = 36524 * c + 1461 * q + 365 * i + doy
  BY <1>0, SMT
<1>1. doe \div 36524 - doe \div 146096 = c
  <2>1. doe \div 146096 = IF doe = 146096 THEN 1 ELSE 0
    BY <1>0, SMT
  <2>2. doe = 146096 => doe \div 36524 = 4 /\ c = 3
    BY <1>0, SMT
  <2>3. doe # 146096 => doe \div 36524 = c
    BY <1>0, SMT
  <2> QED BY <2>1, <2>2, <2>3, SMT
<1>2. PICK u \in Int : u = 24 * c + q + 365 * i + doy
  BY <1>0, SMT
<1>3. PICK b \in {0, 1} : b = IF u >= 1460 THEN 1 ELSE 0
  BY SMT
<1>4. doe = 1460 * (25 * c + q) + u /\ u \in 0 .. 1556
  BY <1>0, <1>2, SMT
<1>5. doe \div 1460 = 25 * c + q + b
  BY <1>3, <1>4, SMT
<1>6. b = 1 => i = 3 /\ doy >= 1
  BY <1>0, <1>2, <1>3, SMT
<1>7. doy - b \in 0 .. 364
  BY <1>0, <1>2, <1>3, <1>6, SMT
<1>8. PICK v \in 0 .. 364 : v = doy - b
  BY <1>0, <1>7, SMT
<1>9. PICK w \in Int : w = doe - doe \div 1460 + doe \div 36524 - doe \div 146096
  BY SMT
<1>10. w = 365 * (100 * c + 4 * q + i) + v
  <2>1. w = doe - (25 * c + q + b) + c
    BY <1>0, <1>1, <1>5, <1>9, SMT
  <2> QED BY <1>0, <1>2, <1>4, <1>8, <2>1, SMT
<1>11. w \div 365 = 100 * c + 4 * q + i
  BY <1>10, SMT
<1> QED BY <1>9, <1>11, SMT DEF YearOfDay, DayNo, YearInEra

(* The months of a year that begins in March: how many days precede one.      *)
MonthAt(doy) == (5 * doy + 2) \div 153
DaysBefore(mp) == (153 * mp + 2) \div 5
MonthNo(mp) == IF mp < 10 THEN mp + 3 ELSE mp - 9
YearIn(y, mp) == IF mp < 10 THEN y ELSE y + 1

LEMMA MonthsAre ==
  /\ DaysBefore(0) = 0 /\ DaysBefore(1) = 31 /\ DaysBefore(2) = 61 /\ DaysBefore(3) = 92
  /\ DaysBefore(4) = 122 /\ DaysBefore(5) = 153 /\ DaysBefore(6) = 184 /\ DaysBefore(7) = 214
  /\ DaysBefore(8) = 245 /\ DaysBefore(9) = 275 /\ DaysBefore(10) = 306 /\ DaysBefore(11) = 337
BY SMT DEF DaysBefore

(* A day is in the month its number gives.                                    *)
LEMMA MonthAtIs ==
  ASSUME NEW doy \in 0 .. 365
  PROVE  /\ MonthAt(doy) \in 0 .. 11
         /\ DaysBefore(MonthAt(doy)) <= doy
         /\ MonthAt(doy) < 11 => doy < DaysBefore(MonthAt(doy) + 1)
<1>1. PICK mp \in Int : mp = (5 * doy + 2) \div 153
  BY SMT
<1>2. 153 * mp <= 5 * doy + 2 /\ 5 * doy + 2 < 153 * mp + 153
  BY <1>1, SMT
<1>3. mp \in 0 .. 11
  BY <1>2, SMT
<1>4. PICK b \in Int : b = (153 * mp + 2) \div 5
  BY <1>3, SMT
<1>5. b <= doy
  BY <1>2, <1>3, <1>4, SMT
<1>6. PICK b2 \in Int : b2 = (153 * (mp + 1) + 2) \div 5
  BY <1>3, SMT
<1>7. doy < b2
  BY <1>2, <1>3, <1>6, SMT
<1> QED BY <1>1, <1>3, <1>4, <1>5, <1>6, <1>7, SMT DEF MonthAt, DaysBefore

(* days_in_month: a month lasts until the next one, February until the year   *)
(* ends.                                                                      *)
LEMMA MonthLasts ==
  ASSUME NEW y \in Int, NEW mp \in 0 .. 11
  PROVE  DaysInMonth(YearIn(y, mp), MonthNo(mp)) =
           (IF mp < 11 THEN DaysBefore(mp + 1) ELSE Length(y)) - DaysBefore(mp)
<1>1. CASE mp = 11
  <2>1. DaysInMonth(y + 1, 2) = Length(y) - 337
    BY SMT DEF DaysInMonth, Length
  <2> QED BY <1>1, <2>1, MonthsAre, SMT DEF YearIn, MonthNo
<1>2. CASE mp # 11
  <2>1. mp \in {0, 1, 2, 3, 4, 5, 6, 7, 8, 9, 10}
    BY <1>2, SMT
  <2>2. \A yr : /\ DaysInMonth(yr, 1) = 31 /\ DaysInMonth(yr, 3) = 31
                /\ DaysInMonth(yr, 4) = 30 /\ DaysInMonth(yr, 5) = 31
                /\ DaysInMonth(yr, 6) = 30 /\ DaysInMonth(yr, 7) = 31
                /\ DaysInMonth(yr, 8) = 31 /\ DaysInMonth(yr, 9) = 30
                /\ DaysInMonth(yr, 10) = 31 /\ DaysInMonth(yr, 11) = 30
                /\ DaysInMonth(yr, 12) = 31
    BY SMT DEF DaysInMonth
  <2> QED BY <1>2, <2>1, <2>2, MonthsAre, SMT DEF MonthNo
<1> QED BY <1>1, <1>2

(* Years follow each other.                                                   *)
LEMMA NextStart ==
  ASSUME NEW y \in Int
  PROVE  Start(y + 1) = Start(y) + Length(y)
<1>1. (y + 1) \div 4 = y \div 4 + (IF (y + 1) % 4 = 0 THEN 1 ELSE 0)
  BY SMT
<1>2. (y + 1) \div 100 = y \div 100 + (IF (y + 1) % 100 = 0 THEN 1 ELSE 0)
  BY SMT
<1>3. (y + 1) \div 400 = y \div 400 + (IF (y + 1) % 400 = 0 THEN 1 ELSE 0)
  BY SMT
<1>4. (y + 1) % 100 = 0 => (y + 1) % 4 = 0
  BY SMT
<1>5. (y + 1) % 400 = 0 => (y + 1) % 100 = 0
  BY SMT
<1> QED BY <1>1, <1>2, <1>3, <1>4, <1>5, SMT DEF Start, Length, IsLeapYear

(* days_from_civil: the days before the year, the month and the day.          *)
LEMMA DaysFromCivilIs ==
  ASSUME NEW y \in Int, NEW mp \in 0 .. 11, NEW day \in Int
  PROVE  DaysFromCivil(YearIn(y, mp), MonthNo(mp), day) = Start(y) + DaysBefore(mp) + day - 1
<1>1. MonthNo(mp) \in 1 .. 12 /\ (MonthNo(mp) <= 2 <=> mp >= 10) /\ (MonthNo(mp) + 9) % 12 = mp
  BY SMT DEF MonthNo
<1>2. PICK yr \in Int, month \in 1 .. 12 : yr = YearIn(y, mp) /\ month = MonthNo(mp)
  BY <1>1, SMT DEF YearIn
<1>3. (IF month <= 2 THEN yr - 1 ELSE yr) = y
  BY <1>1, <1>2, SMT DEF YearIn
<1>31. (153 * ((month + 9) % 12) + 2) \div 5 = DaysBefore(mp)
  BY <1>1, <1>2, SMT DEF DaysBefore
<1>4. PICK e \in Int : e = y \div 400
  BY SMT
<1>5. (y - e * 400) \div 4 = y \div 4 - 100 * e
  BY <1>4, SMT
<1>6. (y - e * 400) \div 100 = y \div 100 - 4 * e
  BY <1>4, SMT
<1>7. PICK b \in Int : b = DaysBefore(mp)
  BY SMT DEF DaysBefore
<1>8. DaysFromCivil(yr, month, day) =
        e * 146097 + ((y - e * 400) * 365 + (y - e * 400) \div 4 - (y - e * 400) \div 100
          + (b + day - 1)) - 719468
  BY <1>3, <1>31, <1>4, <1>7, SMT DEF DaysFromCivil
<1> QED BY <1>2, <1>4, <1>5, <1>6, <1>7, <1>8, SMT DEF Start

(* The day after is in the same month, or the first of the next.              *)
LEMMA SameMonth ==
  ASSUME NEW doy \in 0 .. 364, NEW mp \in 0 .. 11, mp = MonthAt(doy),
         mp < 11 => doy + 1 < DaysBefore(mp + 1)
  PROVE  MonthAt(doy + 1) = mp
<1>1. mp = (5 * doy + 2) \div 153
  BY Zenon DEF MonthAt
<1>2. 153 * mp <= 5 * doy + 2
  BY <1>1, SMT
<1>3. 5 * doy + 7 < 153 * mp + 153
  <2>1. CASE mp = 11
    BY <2>1, SMT
  <2>2. CASE mp < 11
    <3>1. PICK b \in Int : b = (153 * (mp + 1) + 2) \div 5
      BY SMT
    <3>2. doy + 2 <= b
      BY <2>2, <3>1, SMT DEF DaysBefore
    <3> QED BY <3>1, <3>2, SMT
  <2> QED BY <2>1, <2>2, SMT
<1>4. (5 * (doy + 1) + 2) \div 153 = mp
  BY <1>2, <1>3, SMT
<1> QED BY <1>4, Zenon DEF MonthAt

LEMMA FirstOfMonth ==
  ASSUME NEW mp \in 0 .. 11
  PROVE  MonthAt(DaysBefore(mp)) = mp
<1>1. PICK b \in Int : b = (153 * mp + 2) \div 5
  BY SMT
<1>2. 5 * b <= 153 * mp + 2 /\ 153 * mp + 2 < 5 * b + 5
  BY <1>1, SMT
<1>3. (5 * b + 2) \div 153 = mp
  BY <1>2, SMT
<1> QED BY <1>1, <1>3, Zenon DEF MonthAt, DaysBefore

(* civil_from_days: the year, the month and the day of the day `doy` of a     *)
(* year that begins in March.                                                 *)
DateOf(y, doy) ==
  << YearIn(y, MonthAt(doy)), MonthNo(MonthAt(doy)), doy - DaysBefore(MonthAt(doy)) + 1 >>

FromYear(era, yoe, doy) ==
  << yoe + era * 400 + (IF MonthNo(MonthAt(doy)) <= 2 THEN 1 ELSE 0),
     MonthNo(MonthAt(doy)), doy - DaysBefore(MonthAt(doy)) + 1 >>

DayInYear(doe, yoe) == doe - (365 * yoe + yoe \div 4 - yoe \div 100)

FromEra(era, doe) == FromYear(era, YearOfDay(doe), DayInYear(doe, YearOfDay(doe)))

LEMMA CivilFromDaysIs ==
  ASSUME NEW y \in Int, NEW doy \in 0 .. Length(y) - 1, NEW d \in Int, d = Start(y) + doy
  PROVE  CivilFromDays(d) = DateOf(y, doy)
<1>1. PICK e \in Int, c \in 0 .. 3, q \in 0 .. 24, i \in 0 .. 3 : y = YearNo(e, c, q, i)
  BY YearParts, Zenon
<1>2. Start(y) = FirstDay(e, c, q, i) /\ Length(y) = DaysOf(c, q, i)
  BY <1>1, StartIs, Zenon
<1>3. doy \in 0 .. DaysOf(c, q, i) - 1
  BY <1>2, Zenon
<1>31. doy \in 0 .. 365 /\ (doy = 365 => i = 3 /\ (q = 24 => c = 3))
  BY <1>3, SMT DEF DaysOf
<1>4. PICK doe \in Int : doe = DayNo(c, q, i, doy) /\ doe = 36524 * c + 1461 * q + 365 * i + doy
  BY <1>31, SMT DEF DayNo
<1>5. 0 <= doe /\ doe < 146097
  BY <1>31, <1>4, SMT
<1>6. d + 719468 = 146097 * e + doe
  BY <1>2, <1>31, <1>4, SMT DEF FirstDay
<1>7. PICK yoe \in 0 .. 399 : yoe = YearInEra(c, q, i) /\ yoe = 100 * c + 4 * q + i
  BY SMT DEF YearInEra
<1>8. YearOfDay(doe) = yoe
  <2>1. YearOfDay(DayNo(c, q, i, doy)) = YearInEra(c, q, i)
    BY <1>3, YearOfEra, Zenon
  <2>2. doe = DayNo(c, q, i, doy) /\ yoe = YearInEra(c, q, i)
    BY <1>4, <1>7, SMT
  <2> QED BY <2>1, <2>2, Zenon
<1>9. yoe \div 4 = 25 * c + q /\ yoe \div 100 = c
  BY <1>7, SMT
<1>10. DayInYear(doe, yoe) = doy
  BY <1>31, <1>4, <1>7, <1>9, SMT DEF DayInYear
<1>11. (d + 719468) \div 146097 = e
  BY <1>5, <1>6, SMT
<1>12. (d + 719468) - e * 146097 = doe
  BY <1>6, SMT
<1>13. yoe + e * 400 = y
  BY <1>1, <1>7, SMT DEF YearNo
<1>14. PICK mp \in 0 .. 11 : mp = MonthAt(doy)
  BY <1>31, MonthAtIs, Zenon
<1>15. MonthNo(mp) <= 2 <=> mp >= 10
  BY SMT DEF MonthNo
<1>16. FromYear(e, yoe, doy) = DateOf(y, doy)
  BY <1>13, <1>14, <1>15, SMT DEF FromYear, DateOf, YearIn
<1>17. FromEra(e, doe) = FromYear(e, yoe, doy)
  BY <1>8, <1>10, Zenon DEF FromEra
<1>18. CivilFromDays(d) = FromEra((d + 719468) \div 146097, (d + 719468) - ((d + 719468) \div 146097) * 146097)
  BY SMT DEF CivilFromDays, FromEra, FromYear, DayInYear, YearOfDay, MonthAt, MonthNo, DaysBefore
<1>19. FromEra((d + 719468) \div 146097, (d + 719468) - ((d + 719468) \div 146097) * 146097) = FromEra(e, doe)
  BY <1>11, <1>12, SMT
<1> QED BY <1>16, <1>17, <1>18, <1>19, SMT

(* The date of a day is a real one, its day count is that day again, and the  *)
(* next day has the next date.                                                *)
LEMMA DaysAreGregorian ==
  ASSUME NEW d \in Int
  PROVE  /\ CivilFromDays(d) \in Int \X (1 .. 12) \X Nat
         /\ DayIsGregorian(d)
<1>1. PICK y \in Int : \E doy \in 0 .. Length(y) - 1 : d = Start(y) + doy
  BY DayIsInYear, Zenon
<1>2. PICK doy \in 0 .. Length(y) - 1 : d = Start(y) + doy
  BY <1>1, Zenon
<1>3. Length(y) \in {365, 366} /\ Length(y + 1) \in {365, 366}
  BY SMT DEF Length
<1>4. doy \in 0 .. 365
  BY <1>3, SMT
<1>5. PICK mp \in 0 .. 11 : /\ mp = MonthAt(doy) /\ DaysBefore(mp) <= doy
                            /\ mp < 11 => doy < DaysBefore(mp + 1)
  BY <1>4, MonthAtIs, Zenon
<1>6. PICK b \in Int, last \in Int :
         b = DaysBefore(mp) /\ last = IF mp < 11 THEN DaysBefore(mp + 1) ELSE Length(y)
  BY <1>3, SMT DEF DaysBefore
<1>7. PICK yr \in Int, month \in 1 .. 12 : yr = YearIn(y, mp) /\ month = MonthNo(mp)
  BY SMT DEF YearIn, MonthNo
<1>8. CivilFromDays(d) = << yr, month, doy - b + 1 >>
  BY <1>2, <1>5, <1>6, <1>7, CivilFromDaysIs, SMT DEF DateOf
<1>9. DaysInMonth(yr, month) = last - b
  BY <1>6, <1>7, MonthLasts, SMT
<1>10. b <= doy /\ doy < last
  BY <1>3, <1>5, <1>6, SMT
<1>11. doy - b + 1 \in 1 .. DaysInMonth(yr, month)
  BY <1>4, <1>9, <1>10, SMT
<1>12. DaysFromCivil(yr, month, doy - b + 1) = d
  <2>1. PICK day \in Int : day = doy - b + 1
    BY <1>4, SMT
  <2>2. DaysFromCivil(yr, month, day) = Start(y) + b + day - 1
    <3>1. DaysFromCivil(YearIn(y, mp), MonthNo(mp), day) = Start(y) + DaysBefore(mp) + day - 1
      BY DaysFromCivilIs, Zenon
    <3>2. yr = YearIn(y, mp) /\ month = MonthNo(mp) /\ b = DaysBefore(mp)
      BY <1>6, <1>7, SMT
    <3> QED BY <3>1, <3>2, Zenon
  <2>3. Start(y) \in Int
    BY SMT DEF Start
  <2> QED BY <1>2, <1>4, <2>1, <2>2, <2>3, SMT
<1>13. CivilFromDays(d + 1) = NextDate(<< yr, month, doy - b + 1 >>)
  <2>1. PICK n \in Int : n = d + 1
    BY SMT
  <2>2. Start(y) \in Int /\ Start(y + 1) = Start(y) + Length(y)
    <3>1. Start(y) \in Int
      BY SMT DEF Start
    <3>2. Start(y + 1) = Start(y) + Length(y)
      BY NextStart, Zenon
    <3> QED BY <3>1, <3>2, Zenon
  <2>3. CASE doy + 1 < last
    <3>1. doy + 1 \in 0 .. Length(y) - 1 /\ n = Start(y) + (doy + 1)
      <4>1. last <= Length(y)
        BY <1>3, <1>6, MonthsAre, SMT
      <4> QED BY <1>2, <1>4, <2>1, <2>2, <2>3, <4>1, <1>3, SMT
    <3>2. CivilFromDays(n) = DateOf(y, doy + 1)
      BY <3>1, CivilFromDaysIs, Zenon
    <3>3. MonthAt(doy + 1) = mp
      <4>1. doy \in 0 .. 364 /\ (mp < 11 => doy + 1 < DaysBefore(mp + 1))
        BY <1>3, <1>4, <1>6, <2>3, <3>1, SMT
      <4> QED BY <1>5, <4>1, SameMonth, ZenonT(30)
    <3>4. CivilFromDays(n) = << yr, month, (doy + 1) - b + 1 >>
      BY <1>6, <1>7, <3>2, <3>3, SMT DEF DateOf
    <3> QED BY <1>4, <1>9, <2>1, <2>3, <3>4, SMT DEF NextDate
  <2>4. CASE doy + 1 = last /\ mp < 11
    <3>1. doy + 1 = DaysBefore(mp + 1)
      BY <1>6, <2>4, Zenon
    <3>2. doy + 1 \in 0 .. Length(y) - 1 /\ n = Start(y) + (doy + 1)
      <4>1. doy + 1 <= 337
        BY <2>4, <3>1, MonthsAre, SMT
      <4> QED BY <1>2, <1>3, <1>4, <2>1, <2>2, <4>1, SMT
    <3>3. CivilFromDays(n) = DateOf(y, doy + 1)
      BY <3>2, CivilFromDaysIs, Zenon
    <3>4. MonthAt(doy + 1) = mp + 1
      BY <2>4, <3>1, FirstOfMonth, SMT
    <3>5. CivilFromDays(n) = << YearIn(y, mp + 1), MonthNo(mp + 1), 1 >>
      BY <1>4, <3>1, <3>3, <3>4, SMT DEF DateOf
    <3> QED BY <1>4, <1>7, <1>9, <2>1, <2>4, <3>5, SMT DEF NextDate, YearIn, MonthNo
  <2>5. CASE doy + 1 = last /\ mp = 11
    <3>1. 0 \in 0 .. Length(y + 1) - 1 /\ n = Start(y + 1) + 0
      BY <1>2, <1>3, <1>4, <1>6, <2>1, <2>2, <2>5, SMT
    <3>2. y + 1 \in Int
      BY SMT
    <3>3. CivilFromDays(n) = DateOf(y + 1, 0)
      BY <3>1, <3>2, CivilFromDaysIs, Zenon
    <3>4. MonthAt(0) = 0
      BY SMT DEF MonthAt
    <3>5. CivilFromDays(n) = << y + 1, 3, 1 >>
      BY <3>3, <3>4, MonthsAre, SMT DEF DateOf, YearIn, MonthNo
    <3> QED BY <1>4, <1>7, <1>9, <2>1, <2>5, <3>5, SMT DEF NextDate, YearIn, MonthNo
  <2> QED BY <1>4, <1>10, <2>3, <2>4, <2>5, SMT
<1> QED BY <1>4, <1>8, <1>11, <1>12, <1>13, SMT DEF DayIsGregorian

(* A date, and the offsets one may have.                                      *)
Stamp(year, month, day, hour, minute, second, offset) ==
  [ok |-> TRUE, year |-> year, month |-> month, day |-> day,
   hour |-> hour, minute |-> minute, second |-> second, offset |-> offset]
Offsets == {Zoneless} \cup {UtcOffset(m) : m \in {n \in Int : -1440 < n /\ n < 1440}}

(* The hours and the minutes of an offset.                                    *)
LEMMA HoursAndMinutes ==
  ASSUME NEW n \in Int, 0 <= n, n < 1440
  PROVE  n \div 60 \in 0 .. 23 /\ n % 60 \in 0 .. 59 /\ (n \div 60) * 60 + (n % 60) = n
<1>1. PICK hh \in 0 .. 23 : hh = n \div 60
  BY SMT
<1>2. PICK mm \in 0 .. 59 : mm = n - 60 * hh
  BY <1>1, SMT
<1>3. mm = n % 60
  BY <1>1, <1>2, SMT
<1> QED BY <1>1, <1>2, <1>3, SMT

LEMMA SignedIsRead ==
  ASSUME NEW hh \in Nat, NEW mm \in Nat, ~(hh > 23 \/ mm > 59)
  PROVE  /\ ParseSuffix(Signed("+", hh, mm)) = [ok |-> TRUE, offset |-> UtcOffset(hh * 60 + mm)]
         /\ ParseSuffix(Signed("-", hh, mm)) = [ok |-> TRUE, offset |-> UtcOffset(-(hh * 60 + mm))]
<1>1. ASSUME NEW sign \in {"+", "-"}
      PROVE  ParseSuffix(Signed(sign, hh, mm)) =
               [ok |-> TRUE,
                offset |-> UtcOffset(IF sign = "-" THEN -(hh * 60 + mm) ELSE hh * 60 + mm)]
  <2>1. PICK x : x = Signed(sign, hh, mm)
    BY Zenon
  <2>2. x.kind = "signed" /\ x.sign = sign /\ x.hh = hh /\ x.mm = mm
    BY <2>1, SMT DEF Signed
  <2>3. ParseSuffix(x) =
          [ok |-> TRUE,
           offset |-> UtcOffset(IF sign = "-" THEN -(hh * 60 + mm) ELSE hh * 60 + mm)]
    BY <2>2, SMT DEF ParseSuffix
  <2> QED BY <2>1, <2>3, SMT
<1> QED BY <1>1, SMT

(* A suffix is written and read back.                                         *)
LEMMA SuffixOfOffset ==
  ASSUME NEW m \in Int, -1440 < m, m < 1440
  PROVE  Suffix(UtcOffset(m)) =
           IF m = 0 THEN [kind |-> "Z"]
           ELSE IF m > 0 THEN Signed("+", m \div 60, m % 60)
           ELSE Signed("-", (-m) \div 60, (-m) % 60)
<1>1. PICK x : x = UtcOffset(m)
  BY SMT
<1>2. x.zone = TRUE /\ x.zone /\ x.minutes = m
  BY <1>1, SMT DEF UtcOffset
<1>3. UtcOffset(0).minutes = 0
  BY SMT DEF UtcOffset
<1>4. x = UtcOffset(0) <=> m = 0
  BY <1>1, <1>2, <1>3, SMT
<1> QED BY <1>1, <1>2, <1>4, SMT DEF Suffix

LEMMA SuffixSurvives ==
  ASSUME NEW offset \in Offsets
  PROVE  ParseSuffix(Suffix(offset)) = [ok |-> TRUE, offset |-> offset]
<1>1. CASE offset = Zoneless
  <2>1. Suffix(offset) = NoSuffix
    BY <1>1, SMT DEF Suffix, Zoneless, UtcOffset
  <2> QED BY <1>1, <2>1, SMT DEF ParseSuffix, NoSuffix
<1>2. ASSUME NEW m \in Int, -1440 < m, m < 1440, offset = UtcOffset(m)
      PROVE  ParseSuffix(Suffix(offset)) = [ok |-> TRUE, offset |-> offset]
  <2>1. CASE m = 0
    <3>1. Suffix(offset) = [kind |-> "Z"]
      BY <1>2, <2>1, SuffixOfOffset, SMT
    <3> QED BY <1>2, <2>1, <3>1, SMT DEF ParseSuffix
  <2>2. CASE m > 0
    <3>2. PICK hh \in 0 .. 23, mm \in 0 .. 59 : hh = m \div 60 /\ mm = m % 60 /\ hh * 60 + mm = m
      BY <1>2, <2>2, HoursAndMinutes, SMT
    <3>3. Suffix(offset) = Signed("+", hh, mm)
      BY <1>2, <2>2, <3>2, SuffixOfOffset, SMT
    <3>4. ParseSuffix(Signed("+", hh, mm)) = [ok |-> TRUE, offset |-> UtcOffset(m)]
      <4>1. hh \in Nat /\ mm \in Nat /\ ~(hh > 23 \/ mm > 59)
        BY SMT
      <4>2. ParseSuffix(Signed("+", hh, mm)) = [ok |-> TRUE, offset |-> UtcOffset(hh * 60 + mm)]
        BY <4>1, SignedIsRead, Zenon
      <4>3. hh * 60 + mm = m
        BY <3>2, SMT
      <4> QED BY <4>2, <4>3, SMT
    <3> QED BY <1>2, <3>3, <3>4, SMT
  <2>3. CASE m < 0
    <3>1. PICK n \in Int : n = -m /\ 0 <= n /\ n < 1440
      BY <1>2, <2>3, SMT
    <3>2. PICK hh \in 0 .. 23, mm \in 0 .. 59 : hh = n \div 60 /\ mm = n % 60 /\ hh * 60 + mm = n
      BY <3>1, HoursAndMinutes, SMT
    <3>3. Suffix(offset) = Signed("-", hh, mm)
      BY <1>2, <2>3, <3>1, <3>2, SuffixOfOffset, SMT
    <3>4. ParseSuffix(Signed("-", hh, mm)) = [ok |-> TRUE, offset |-> UtcOffset(m)]
      <4>1. hh \in Nat /\ mm \in Nat /\ ~(hh > 23 \/ mm > 59)
        BY SMT
      <4>2. ParseSuffix(Signed("-", hh, mm)) = [ok |-> TRUE, offset |-> UtcOffset(-(hh * 60 + mm))]
        BY <4>1, SignedIsRead, Zenon
      <4>3. -(hh * 60 + mm) = m
        BY <3>1, <3>2, SMT
      <4> QED BY <4>2, <4>3, SMT
    <3> QED BY <1>2, <3>3, <3>4, SMT
  <2> QED BY <2>1, <2>2, <2>3, SMT
<1> QED BY <1>1, <1>2, SMT DEF Offsets

(* A valid date is written and read back.                                     *)
LEMMA DateSurvives ==
  ASSUME NEW year, NEW month, NEW day, NEW hour, NEW minute, NEW second, NEW offset \in Offsets,
         IsValid(Stamp(year, month, day, hour, minute, second, offset))
  PROVE  Parse(Format(Stamp(year, month, day, hour, minute, second, offset))) =
           Stamp(year, month, day, hour, minute, second, offset)
<1>1. PICK t : t = Format(Stamp(year, month, day, hour, minute, second, offset))
  BY Zenon
<1>2. /\ t.year = year /\ t.month = month /\ t.day = day
      /\ t.hour = hour /\ t.minute = minute /\ t.second = second
      /\ t.tenths = "none" /\ t.suffix = Suffix(offset)
  BY <1>1, SMT DEF Format, Stamp
<1>3. ParseSuffix(t.suffix) = [ok |-> TRUE, offset |-> offset]
  BY <1>2, SuffixSurvives, SMT
<1>31. PICK p : p = ParseSuffix(t.suffix) /\ p.ok /\ p.offset = offset
  BY <1>3, SMT
<1>32. (IF p.ok THEN p.offset ELSE Zoneless) = offset
  BY <1>31, Zenon
<1>4. [ok |-> TRUE, year |-> t.year, month |-> t.month, day |-> t.day,
       hour |-> t.hour, minute |-> t.minute, second |-> t.second,
       offset |-> IF p.ok THEN p.offset ELSE Zoneless]
        = Stamp(year, month, day, hour, minute, second, offset)
  BY <1>2, <1>32, Zenon DEF Stamp
<1>5. Parse(t) = Stamp(year, month, day, hour, minute, second, offset)
  BY <1>2, <1>31, <1>4, Zenon DEF Parse
<1> QED BY <1>1, <1>5, SMT

(* The seconds of a day, moved by an offset and moved back.                   *)
LEMMA ShiftBack ==
  ASSUME NEW d \in Int, NEW s, IsSecond(s), NEW m, IsOffset(m)
  PROVE  \E ld \in Int, ls \in Int :
            /\ Shift(<< d, s >>, m) = << ld, ls >> /\ IsSecond(ls)
            /\ Shift(<< ld, ls >>, -m) = << d, s >>
<1> s \in Int /\ 0 <= s /\ s < 86400 /\ m \in Int
  BY SMT DEF IsSecond, IsOffset
<1>1. PICK t \in Int : t = s + m * 60
  BY SMT
<1>2. PICK q \in Int : q = t \div 86400
  BY SMT
<1>3. PICK r \in Int : r = t % 86400 /\ 0 <= r /\ r < 86400 /\ t = 86400 * q + r
  <2>1. t - 86400 * q = t % 86400 /\ 0 <= t - 86400 * q /\ t - 86400 * q < 86400
    BY <1>2, SMT
  <2> QED BY <2>1, SMT
<1>4. Shift(<< d, s >>, m) = << d + q, r >>
  BY <1>1, <1>2, <1>3, SMT DEF Shift
<1>5. PICK u \in Int : u = r + (-m) * 60
  BY SMT
<1>6. u = 86400 * (-q) + s
  BY <1>1, <1>3, <1>5, SMT
<1>7. u \div 86400 = -q /\ u % 86400 = s
  BY <1>6, SMT
<1>8. Shift(<< d + q, r >>, -m) = << (d + q) + (-q), s >>
  BY <1>5, <1>7, SMT DEF Shift
<1>9. Shift(<< d + q, r >>, -m) = << d, s >>
  BY <1>8, SMT
<1> QED BY <1>3, <1>4, <1>9, SMTT(30) DEF IsSecond

(* The hour, the minute and the second of a second of a day.                  *)
ClockOf(s, hh, mi, se) ==
  /\ hh = s \div 3600 /\ mi = (s \div 60) % 60 /\ se = s % 60
  /\ hh * 3600 + mi * 60 + se = s

LEMMA ClockIs ==
  ASSUME NEW s, IsSecond(s)
  PROVE  \E hh \in 0 .. 23, mi \in 0 .. 59, se \in 0 .. 59 : ClockOf(s, hh, mi, se)
<1>0. s \in Int /\ 0 <= s /\ s < 86400
  BY SMT DEF IsSecond
<1>1. PICK h \in 0 .. 23, a \in Int : h = s \div 3600 /\ s = 3600 * h + a /\ 0 <= a /\ a < 3600
  <2>1. PICK h \in 0 .. 23 : h = s \div 3600
    BY <1>0, SMT
  <2>2. 0 <= s - 3600 * h /\ s - 3600 * h < 3600 /\ s = 3600 * h + (s - 3600 * h)
    BY <1>0, <2>1, SMT
  <2> QED BY <1>0, <2>1, <2>2, SMT
<1>2. PICK m \in 0 .. 59, b \in 0 .. 59 : a = 60 * m + b
  <2>1. PICK m \in 0 .. 59 : m = a \div 60
    BY <1>1, SMT
  <2>2. a - 60 * m \in 0 .. 59 /\ a = 60 * m + (a - 60 * m)
    BY <1>1, <2>1, SMT
  <2> QED BY <2>2, SMT
<1>3. s = 60 * (60 * h + m) + b
  BY <1>0, <1>1, <1>2, SMT
<1>4. s \div 60 = 60 * h + m /\ s % 60 = b
  BY <1>0, <1>3, SMT
<1>5. (60 * h + m) % 60 = m
  BY SMT
<1>6. h * 3600 + m * 60 + b = s
  BY <1>0, <1>3, SMT
<1>7. s \div 3600 = h /\ (s \div 60) % 60 = m /\ s % 60 = b
  BY <1>0, <1>1, <1>4, <1>5, SMT
<1>8. ClockOf(s, h, m, b)
  BY <1>6, <1>7, SMT DEF ClockOf
<1> QED BY <1>8, Zenon

(* The days whose years have four digits.                                     *)
LEMMA FourDigitYears ==
  ASSUME NEW d \in Int, HasFourDigits(d)
  PROVE  0 <= CivilFromDays(d)[1] /\ CivilFromDays(d)[1] <= 9999
<1>1. PICK y \in Int : \E doy \in 0 .. Length(y) - 1 : d = Start(y) + doy
  BY DayIsInYear, Zenon
<1>2. PICK doy \in 0 .. Length(y) - 1 : d = Start(y) + doy
  BY <1>1, Zenon
<1>3. Length(y) \in {365, 366}
  BY SMT DEF Length
<1>4. doy \in 0 .. 365 /\ doy + 1 <= Length(y)
  BY <1>3, SMT
<1>5. PICK mp \in 0 .. 11 : /\ mp = MonthAt(doy) /\ DaysBefore(mp) <= doy
                            /\ mp < 11 => doy < DaysBefore(mp + 1)
  BY <1>4, MonthAtIs, Zenon
<1>6. CivilFromDays(d) = DateOf(y, doy)
  BY <1>2, CivilFromDaysIs, Zenon
<1>7. CivilFromDays(d)[1] = YearIn(y, mp)
  BY <1>5, <1>6, SMT DEF DateOf
<1>8. PICK a \in Int, b \in Int, c \in Int : a = y \div 4 /\ b = y \div 100 /\ c = y \div 400
  BY SMT
<1>9. Start(y) = 365 * y + a - b + c - 719468
  BY <1>8, SMT DEF Start
<1>10. d + 1 <= Start(y + 1)
  <2>1. Start(y + 1) = Start(y) + Length(y)
    BY NextStart, Zenon
  <2> QED BY <1>2, <1>3, <1>4, <1>9, <2>1, SMT
<1>11. y >= -1
  <2>1. ASSUME y + 1 <= -1
        PROVE  FALSE
    <3>1. PICK p \in Int, q \in Int, r \in Int :
             p = (y + 1) \div 4 /\ q = (y + 1) \div 100 /\ r = (y + 1) \div 400
      BY SMT
    <3>2. Start(y + 1) = 365 * (y + 1) + p - q + r - 719468
      BY <3>1, SMT DEF Start
    <3>3. p <= q /\ r <= -1
      BY <2>1, <3>1, SMT
    <3> QED BY <1>10, <2>1, <3>2, <3>3, SMT DEF HasFourDigits
  <2> QED BY <2>1, SMT
<1>12. y <= 9999
  <2>1. ASSUME y >= 10000
        PROVE  FALSE
    <3>1. a - b >= 2400 /\ c >= 25
      BY <1>8, <2>1, SMT
    <3> QED BY <1>2, <1>4, <1>9, <2>1, <3>1, SMT DEF HasFourDigits
  <2> QED BY <2>1, SMT
<1>13. CASE y = -1
  <2>1. Start(y) = -719834
    <3>1. a = -1 /\ b = -1 /\ c = -1
      <4>1. 4 * a <= y /\ y < 4 * a + 4 /\ 100 * b <= y /\ y < 100 * b + 100
            /\ 400 * c <= y /\ y < 400 * c + 400
        BY <1>8, SMT
      <4> QED BY <1>13, <4>1, SMT
    <3> QED BY <1>9, <1>13, <3>1, SMT
  <2>2. doy >= 306
    BY <1>2, <2>1, <1>4, SMT DEF HasFourDigits
  <2>3. mp >= 10
    BY <1>5, <2>2, MonthsAre, SMT
  <2> QED BY <1>7, <1>13, <2>3, SMT DEF YearIn
<1>14. CASE y = 9999
  <2>1. Start(y) = 2932591
    BY <1>14, SMT DEF Start
  <2>2. doy <= 305
    BY <1>2, <2>1, <1>4, SMT DEF HasFourDigits
  <2>3. mp < 10
    BY <1>5, <2>2, MonthsAre, SMT
  <2> QED BY <1>7, <1>14, <2>3, SMT DEF YearIn
<1>15. CASE y # -1 /\ y # 9999
  <2>1. 0 <= y /\ y < 9999
    BY <1>11, <1>12, <1>15, SMT
  <2> QED BY <1>7, <2>1, SMT DEF YearIn
<1> QED BY <1>13, <1>14, <1>15, SMT

(* A file time comes back, from every day, second and offset, whether or not  *)
(* the offset is written (pack_file_time, DateTime::parse and                 *)
(* to_unix_seconds_with_fallback).                                            *)
THEOREM FileTimeComesBack ==
  ASSUME NEW d \in Int, NEW s, IsSecond(s), NEW m, IsOffset(m), NEW own \in BOOLEAN
  PROVE  FileTimeSurvives(<< d, s >>, m, own)
<1>1. PICK ld \in Int, ls \in Int :
         /\ Shift(<< d, s >>, m) = << ld, ls >> /\ IsSecond(ls)
         /\ Shift(<< ld, ls >>, -m) = << d, s >>
  BY ShiftBack, Zenon
<1>3. PICK hh \in 0 .. 23, mi \in 0 .. 59, se \in 0 .. 59 : ClockOf(ls, hh, mi, se)
  BY <1>1, ClockIs, Zenon
<1>4. PICK yr \in Int, mo \in 1 .. 12, da \in Nat : CivilFromDays(ld) = << yr, mo, da >>
  <2>1. CivilFromDays(ld) \in Int \X (1 .. 12) \X Nat
    BY DaysAreGregorian, Zenon
  <2> QED BY <2>1, SMT
<1>5. da \in 1 .. DaysInMonth(yr, mo) /\ DaysFromCivil(yr, mo, da) = ld
  <2>1. DayIsGregorian(ld)
    BY DaysAreGregorian, Zenon
  <2> QED BY <1>4, <2>1, SMT DEF DayIsGregorian
<1>6. Earlier(MinUnixSeconds, << ld, ls >>) /\ Earlier(<< ld, ls >>, MaxUnixSeconds)
        <=> HasFourDigits(ld)
  BY <1>1, SMT DEF Earlier, MinUnixSeconds, MaxUnixSeconds, IsSecond, HasFourDigits
<1>8. CASE ~HasFourDigits(ld)
  <2>1. FromUnixSeconds(<< d, s >>, m) = NoDate
    BY <1>1, <1>6, <1>8, SMT DEF FromUnixSeconds
  <2>2. PackFileTime(<< d, s >>, m, own) = [kind |-> "empty"]
    BY <2>1, SMT DEF PackFileTime, NoDate
  <2> QED BY <1>1, <1>8, <2>2, SMT DEF FileTimeSurvives
<1>9. CASE HasFourDigits(ld)
  <2>1. FromUnixSeconds(<< d, s >>, m) = Stamp(yr, mo, da, hh, mi, se, UtcOffset(m))
    <3>1. PICK shifted : shifted = Shift(<< d, s >>, m)
      BY Zenon
    <3>2. shifted[1] = ld /\ shifted[2] = ls
      BY <1>1, <3>1, SMT
    <3>3. PICK civil : civil = CivilFromDays(shifted[1])
      BY Zenon
    <3>4. civil[1] = yr /\ civil[2] = mo /\ civil[3] = da
      BY <1>4, <3>2, <3>3, SMT
    <3>5. hh = shifted[2] \div 3600 /\ mi = (shifted[2] \div 60) % 60 /\ se = shifted[2] % 60
      BY <1>3, <3>2, SMT DEF ClockOf
    <3>6. Earlier(MinUnixSeconds, shifted) /\ Earlier(shifted, MaxUnixSeconds)
      BY <1>1, <1>6, <1>9, <3>1, SMT
    <3>7. FromUnixSeconds(<< d, s >>, m) =
            [ok |-> TRUE, year |-> civil[1], month |-> civil[2], day |-> civil[3],
             hour |-> shifted[2] \div 3600, minute |-> (shifted[2] \div 60) % 60,
             second |-> shifted[2] % 60, offset |-> UtcOffset(m)]
      BY <3>1, <3>3, <3>6, SMT DEF FromUnixSeconds
    <3>8. Stamp(civil[1], civil[2], civil[3], shifted[2] \div 3600, (shifted[2] \div 60) % 60,
                shifted[2] % 60, UtcOffset(m)) = Stamp(yr, mo, da, hh, mi, se, UtcOffset(m))
      BY <3>4, <3>5, SMT
    <3> QED BY <3>7, <3>8, SMT DEF Stamp
  <2>2. PICK offset \in Offsets : offset = IF own THEN UtcOffset(m) ELSE Zoneless
    BY SMT DEF Offsets, IsOffset
  <2>3. PackFileTime(<< d, s >>, m, own) =
          [kind |-> "text", text |-> Format(Stamp(yr, mo, da, hh, mi, se, offset))]
    <3>1. PICK dt : dt = Stamp(yr, mo, da, hh, mi, se, UtcOffset(m))
      BY SMT
    <3>2. dt.ok /\ dt.offset = UtcOffset(m)
      BY <3>1, SMT DEF Stamp
    <3>3. PICK f : f = [dt EXCEPT !.offset = offset]
      BY Zenon
    <3>4. /\ f.year = yr /\ f.month = mo /\ f.day = da
          /\ f.hour = hh /\ f.minute = mi /\ f.second = se /\ f.offset = offset
      BY <3>1, <3>3, SMT DEF Stamp
    <3>5. PICK g : g = Stamp(yr, mo, da, hh, mi, se, offset)
      BY Zenon
    <3>6. /\ g.year = yr /\ g.month = mo /\ g.day = da
          /\ g.hour = hh /\ g.minute = mi /\ g.second = se /\ g.offset = offset
      BY <3>5, SMT DEF Stamp
    <3>7. Format(f) = Format(g)
      BY <3>4, <3>6, SMT DEF Format
    <3>8. PackFileTime(<< d, s >>, m, own) = [kind |-> "text", text |-> Format(f)]
      BY <2>1, <2>2, <3>1, <3>2, <3>3, SMT DEF PackFileTime
    <3> QED BY <3>5, <3>7, <3>8, SMT
  <2>4. IsValid(Stamp(yr, mo, da, hh, mi, se, offset))
    <3>1. 0 <= yr /\ yr <= 9999
      BY <1>4, <1>9, FourDigitYears, SMT
    <3> QED BY <1>5, <3>1, SMT DEF IsValid, Stamp
  <2>5. Parse(Format(Stamp(yr, mo, da, hh, mi, se, offset))) = Stamp(yr, mo, da, hh, mi, se, offset)
    BY <2>4, DateSurvives, Zenon
  <2>6. ToUnixSeconds(Stamp(yr, mo, da, hh, mi, se, offset), m) = << d, s >>
    <3>1. PICK dt : dt = Stamp(yr, mo, da, hh, mi, se, offset)
      BY SMT
    <3>2. /\ dt.year = yr /\ dt.month = mo /\ dt.day = da
          /\ dt.hour = hh /\ dt.minute = mi /\ dt.second = se /\ dt.offset = offset
      BY <3>1, SMT DEF Stamp
    <3>3. (IF dt.offset.zone THEN dt.offset.minutes ELSE m) = m
      BY <2>2, <3>2, SMT DEF UtcOffset, Zoneless
    <3>4. /\ DaysFromCivil(dt.year, dt.month, dt.day) = ld
          /\ dt.hour * 3600 + dt.minute * 60 + dt.second = ls
      BY <1>3, <1>5, <3>2, SMT DEF ClockOf
    <3>5. ToUnixSeconds(dt, m) = Shift(<< ld, ls >>, -m)
      <4>1. PICK offset1 : offset1 = IF dt.offset.zone THEN dt.offset.minutes ELSE m
        BY Zenon
      <4>2. ToUnixSeconds(dt, m) =
              Shift(<< DaysFromCivil(dt.year, dt.month, dt.day),
                       dt.hour * 3600 + dt.minute * 60 + dt.second >>, -offset1)
        BY <4>1, SMT DEF ToUnixSeconds
      <4>3. offset1 = m
        BY <3>3, <4>1, Zenon
      <4> QED BY <3>4, <4>2, <4>3, SMT
    <3> QED BY <1>1, <3>1, <3>5, SMT
  <2>7. Stamp(yr, mo, da, hh, mi, se, offset).ok
    BY SMT DEF Stamp
  <2> QED BY <2>3, <2>5, <2>6, <2>7, SMT DEF FileTimeSurvives
<1> QED BY <1>8, <1>9, Zenon

(* The digit groups of a date string.                                         *)
Text(year, month, day, hour, minute, second, tenths, suffix) ==
  [year |-> year, month |-> month, day |-> day, hour |-> hour, minute |-> minute,
   second |-> second, tenths |-> tenths, suffix |-> suffix]
Texts(T, S) ==
  [year : Int, month : Int, day : Int, hour : Int, minute : Int, second : Int,
   tenths : T, suffix : S]

LEMMA TextIs ==
  ASSUME NEW T, NEW S, NEW s \in Texts(T, S)
  PROVE  s = Text(s.year, s.month, s.day, s.hour, s.minute, s.second, s.tenths, s.suffix)
BY SMT DEF Texts, Text

LEMMA TextWithoutTenths ==
  ASSUME NEW T, NEW S, NEW s \in Texts(T, S), "none" \in T
  PROVE  /\ WithoutTenths(s) \in Texts(T, S)
         /\ WithoutTenths(s) =
              Text(s.year, s.month, s.day, s.hour, s.minute, s.second, "none", s.suffix)
<1>1. PICK r : r = [s EXCEPT !.tenths = "none"]
  BY Zenon
<1>2. /\ r.year = s.year /\ r.month = s.month /\ r.day = s.day
      /\ r.hour = s.hour /\ r.minute = s.minute /\ r.second = s.second
      /\ r.tenths = "none" /\ r.suffix = s.suffix
  BY <1>1, SMT DEF Texts
<1>3. r \in Texts(T, S)
  BY <1>1, SMT DEF Texts
<1>4. r = Text(r.year, r.month, r.day, r.hour, r.minute, r.second, r.tenths, r.suffix)
  BY <1>3, TextIs, Zenon
<1>5. r = Text(s.year, s.month, s.day, s.hour, s.minute, s.second, "none", s.suffix)
  BY <1>2, <1>4, SMT
<1> QED BY <1>1, <1>3, <1>5, Zenon DEF WithoutTenths

Zulu == [kind |-> "Z"]

LEMMA TextInUtc ==
  ASSUME NEW T, NEW S, NEW s \in Texts(T, S), Zulu \in S
  PROVE  InUtc(s) = Text(s.year, s.month, s.day, s.hour, s.minute, s.second, s.tenths, Zulu)
<1>1. PICK r : r = [s EXCEPT !.suffix = Zulu]
  BY Zenon
<1>2. /\ r.year = s.year /\ r.month = s.month /\ r.day = s.day
      /\ r.hour = s.hour /\ r.minute = s.minute /\ r.second = s.second
      /\ r.tenths = s.tenths /\ r.suffix = Zulu
  BY <1>1, SMT DEF Texts
<1>3. r \in Texts(T, S)
  BY <1>1, SMT DEF Texts
<1>4. r = Text(r.year, r.month, r.day, r.hour, r.minute, r.second, r.tenths, r.suffix)
  BY <1>3, TextIs, Zenon
<1>5. r = Text(s.year, s.month, s.day, s.hour, s.minute, s.second, s.tenths, Zulu)
  BY <1>2, <1>4, SMT
<1> QED BY <1>1, <1>5, Zenon DEF InUtc, Zulu

(* What a suffix is read as, if it is, and how that is written.               *)
DateSuffixes ==
  {NoSuffix, Zulu, [kind |-> "junk"]} \cup {Signed(g, h, m) : g \in {"+", "-"}, h \in Nat, m \in Nat}

LEMMA SuffixIsRead ==
  ASSUME NEW x \in DateSuffixes, NEW p, p = ParseSuffix(x), p.ok
  PROVE  /\ p.offset \in Offsets
         /\ \/ Suffix(p.offset) = x
            \/ x.kind = "signed" /\ x.hh = 0 /\ x.mm = 0 /\ Suffix(p.offset) = Zulu
<1>1. CASE x = NoSuffix
  <2>1. p.offset = Zoneless
    BY <1>1, SMT DEF ParseSuffix, NoSuffix
  <2>2. Suffix(Zoneless) = NoSuffix
    BY SMT DEF Suffix, Zoneless, UtcOffset
  <2> QED BY <1>1, <2>1, <2>2, SMT DEF Offsets
<1>2. CASE x = Zulu
  <2>1. p.offset = UtcOffset(0)
    BY <1>2, SMT DEF ParseSuffix, Zulu
  <2>2. Suffix(UtcOffset(0)) = Zulu
    BY SuffixOfOffset, SMT DEF Zulu
  <2>3. UtcOffset(0) \in Offsets
    BY SMT DEF Offsets
  <2> QED BY <1>2, <2>1, <2>2, <2>3, SMT
<1>3. CASE x = [kind |-> "junk"]
  <2>1. ParseSuffix(x) = NoDate
    BY <1>3, SMT DEF ParseSuffix
  <2> QED BY <2>1, SMT DEF NoDate
<1>4. ASSUME NEW g \in {"+", "-"}, NEW h \in Nat, NEW m \in Nat, x = Signed(g, h, m)
      PROVE  /\ p.offset \in Offsets
             /\ \/ Suffix(p.offset) = x
                \/ x.kind = "signed" /\ x.hh = 0 /\ x.mm = 0 /\ Suffix(p.offset) = Zulu
  <2>1. x.kind = "signed" /\ x.sign = g /\ x.hh = h /\ x.mm = m
    BY <1>4, SMT DEF Signed
  <2>2. ~(h > 23 \/ m > 59)
    <3>1. CASE h > 23 \/ m > 59
      <4>1. ParseSuffix(x) = NoDate
        BY <2>1, <3>1, SMT DEF ParseSuffix
      <4> QED BY <4>1, SMT DEF NoDate
    <3> QED BY <3>1
  <2>3. PICK n \in Int : n = h * 60 + m /\ 0 <= n /\ n < 1440
    BY <2>2, SMT
  <2>4. CASE g = "+"
    <3>1. ParseSuffix(Signed("+", h, m)) = [ok |-> TRUE, offset |-> UtcOffset(h * 60 + m)]
      BY <2>2, SignedIsRead, Zenon
    <3>2. p.offset = UtcOffset(n)
      BY <1>4, <2>3, <2>4, <3>1, SMT
    <3>3. UtcOffset(n) \in Offsets
      BY <2>3, SMT DEF Offsets
    <3>4. CASE n = 0
      <4>1. h = 0 /\ m = 0
        BY <2>3, <3>4, SMT
      <4>2. Suffix(UtcOffset(n)) = Zulu
        BY <3>4, SuffixOfOffset, SMT DEF Zulu
      <4> QED BY <2>1, <3>2, <3>3, <4>1, <4>2, SMT
    <3>5. CASE n > 0
      <4>1. n \div 60 = h /\ n % 60 = m
        BY <2>2, <2>3, SMT
      <4>2. Suffix(UtcOffset(n)) = Signed("+", n \div 60, n % 60)
        BY <2>3, <3>5, SuffixOfOffset, SMT
      <4> QED BY <1>4, <2>4, <3>2, <3>3, <4>1, <4>2, SMT
    <3> QED BY <2>3, <3>4, <3>5, SMT
  <2>5. CASE g = "-"
    <3>1. ParseSuffix(Signed("-", h, m)) = [ok |-> TRUE, offset |-> UtcOffset(-(h * 60 + m))]
      BY <2>2, SignedIsRead, Zenon
    <3>2. PICK k \in Int : k = -n /\ -1440 < k /\ k <= 0
      BY <2>3, SMT
    <3>3. p.offset = UtcOffset(k)
      BY <1>4, <2>3, <2>5, <3>1, <3>2, SMT
    <3>4. UtcOffset(k) \in Offsets
      BY <3>2, SMT DEF Offsets
    <3>5. CASE n = 0
      <4>1. h = 0 /\ m = 0 /\ k = 0
        BY <2>3, <3>2, <3>5, SMT
      <4>2. Suffix(UtcOffset(k)) = Zulu
        BY <4>1, SuffixOfOffset, SMT DEF Zulu
      <4> QED BY <2>1, <3>3, <3>4, <4>1, <4>2, SMT
    <3>6. CASE n > 0
      <4>1. n \div 60 = h /\ n % 60 = m /\ -k = n /\ k # 0 /\ ~(k > 0)
        BY <2>2, <2>3, <3>2, <3>6, SMT
      <4>2. Suffix(UtcOffset(k)) = Signed("-", (-k) \div 60, (-k) % 60)
        BY <3>2, <4>1, SuffixOfOffset, SMT
      <4>3. Suffix(UtcOffset(k)) = Signed("-", h, m)
        BY <4>1, <4>2, SMT
      <4> QED BY <1>4, <2>5, <3>3, <3>4, <4>3, SMT
    <3> QED BY <2>3, <3>5, <3>6, SMT
  <2> QED BY <2>4, <2>5
<1> QED BY <1>1, <1>2, <1>3, <1>4, SMT DEF DateSuffixes

(* A string a device sends, whatever its digits say, is a date if it is taken *)
(* for one, and is written as it came but for its tenths and a zero offset    *)
(* (DateTime::parse, DateTime::format).                                       *)
THEOREM TextsAreReal ==
  ASSUME NEW T, NEW t \in Texts(T, DateSuffixes), "none" \in T
  PROVE  TextIsReal(t)
<1>1. PICK p : p = ParseSuffix(t.suffix)
  BY Zenon
<1>2. PICK offset : offset = IF p.ok THEN p.offset ELSE Zoneless
  BY Zenon
<1>3. PICK dt : dt = Stamp(t.year, t.month, t.day, t.hour, t.minute, t.second, offset)
  BY Zenon
<1>4. Parse(t) = IF IsValid(dt) /\ t.tenths # "bare dot" /\ p.ok THEN dt ELSE NoDate
  BY <1>1, <1>2, <1>3, Zenon DEF Parse, Stamp
<1>5. CASE ~(IsValid(dt) /\ t.tenths # "bare dot" /\ p.ok)
  <2>1. Parse(t) = NoDate
    BY <1>4, <1>5, Zenon
  <2>2. ~NoDate.ok
    BY SMT DEF NoDate
  <2> QED BY <2>1, <2>2, Zenon DEF TextIsReal
<1>6. CASE IsValid(dt) /\ p.ok /\ Parse(t) = dt
  <2>1. t.suffix \in DateSuffixes
    BY SMT DEF Texts
  <2>2. offset = p.offset
    BY <1>2, <1>6, Zenon
  <2>3. /\ p.offset \in Offsets
        /\ \/ Suffix(p.offset) = t.suffix
           \/ /\ t.suffix.kind = "signed" /\ t.suffix.hh = 0 /\ t.suffix.mm = 0
              /\ Suffix(p.offset) = Zulu
    BY <1>1, <1>6, <2>1, SuffixIsRead, Zenon
  <2>4. Parse(Format(dt)) = dt
    <3>1. offset \in Offsets
      BY <2>2, <2>3, Zenon
    <3>2. IsValid(Stamp(t.year, t.month, t.day, t.hour, t.minute, t.second, offset))
      BY <1>3, <1>6, Zenon
    <3>3. Parse(Format(Stamp(t.year, t.month, t.day, t.hour, t.minute, t.second, offset))) =
            Stamp(t.year, t.month, t.day, t.hour, t.minute, t.second, offset)
      BY <3>1, <3>2, DateSurvives, Zenon
    <3> QED BY <1>3, <3>3, Zenon
  <2>5. Format(dt) = Text(t.year, t.month, t.day, t.hour, t.minute, t.second, "none", Suffix(offset))
    <3>1. /\ dt.year = t.year /\ dt.month = t.month /\ dt.day = t.day
          /\ dt.hour = t.hour /\ dt.minute = t.minute /\ dt.second = t.second
          /\ dt.offset = offset
      BY <1>3, SMT DEF Stamp
    <3> QED BY <3>1, SMT DEF Format, Text
  <2>6. /\ WithoutTenths(t) \in Texts(T, DateSuffixes)
        /\ WithoutTenths(t) =
             Text(t.year, t.month, t.day, t.hour, t.minute, t.second, "none", t.suffix)
    BY TextWithoutTenths, Zenon
  <2>7. Zulu \in DateSuffixes
    BY SMT DEF DateSuffixes
  <2>8. InUtc(WithoutTenths(t)) =
          Text(t.year, t.month, t.day, t.hour, t.minute, t.second, "none", Zulu)
    <3>1. PICK w : w = WithoutTenths(t)
      BY Zenon
    <3>2. InUtc(w) = Text(w.year, w.month, w.day, w.hour, w.minute, w.second, w.tenths, Zulu)
      BY <2>6, <2>7, <3>1, TextInUtc, Zenon
    <3>3. /\ w.year = t.year /\ w.month = t.month /\ w.day = t.day
          /\ w.hour = t.hour /\ w.minute = t.minute /\ w.second = t.second /\ w.tenths = "none"
      BY <2>6, <3>1, SMT DEF Text
    <3> QED BY <3>1, <3>2, <3>3, SMT
  <2>9. CASE Suffix(offset) = t.suffix
    <3>1. Format(dt) = WithoutTenths(t)
      BY <2>5, <2>6, <2>9, Zenon
    <3> QED BY <1>6, <2>4, <3>1, Zenon DEF TextIsReal
  <2>10. CASE /\ t.suffix.kind = "signed" /\ t.suffix.hh = 0 /\ t.suffix.mm = 0
              /\ Suffix(offset) = Zulu
    <3>1. Format(dt) = InUtc(WithoutTenths(t))
      BY <2>5, <2>8, <2>10, Zenon
    <3> QED BY <1>6, <2>4, <2>10, <3>1, Zenon DEF TextIsReal
  <2> QED BY <2>2, <2>3, <2>9, <2>10, Zenon
<1> QED BY <1>4, <1>5, <1>6, Zenon

(* Of every sample: the days of a span, a file time, a string.                *)
LEMMA SamplesAreReal == DateInit => DatesAreReal
<1> SUFFICES ASSUME DateInit
             PROVE  DatesAreReal
  OBVIOUS
<1>1. ASSUME NEW span \in Spans, dated = [is |-> "days", first |-> span[1], last |-> span[2]]
      PROVE  DatesAreReal
  <2>1. dated.is = "days" /\ dated.first = span[1] /\ dated.last = span[2]
    BY <1>1, SMT
  <2>2. span[1] \in Int /\ span[2] \in Int
    BY DateAssumption, SMT
  <2>3. ASSUME NEW d \in span[1] .. span[2]
        PROVE  DayIsGregorian(d)
    <3>1. d \in Int
      BY <2>2, SMT
    <3> QED BY <3>1, DaysAreGregorian, Zenon
  <2> QED BY <2>1, <2>3, Zenon DEF DatesAreReal, CalendarIsGregorian, FileTimesSurvive, ParsedDatesAreReal
<1>2. ASSUME NEW i \in Instants, NEW m \in OffsetMins, NEW own \in BOOLEAN,
             dated = [is |-> "file time", at |-> i, minutes |-> m, own |-> own]
      PROVE  DatesAreReal
  <2>1. dated.is = "file time" /\ dated.at = i /\ dated.minutes = m /\ dated.own = own
    BY <1>2, Zenon
  <2>2. PICK d \in Int, s \in Seconds : i = << d, s >>
    BY SMT DEF Instants
  <2>3. IsSecond(s) /\ IsOffset(m)
    BY DateAssumption, Zenon
  <2>4. FileTimeSurvives(i, m, own)
    BY <2>2, <2>3, FileTimeComesBack, Zenon
  <2> QED BY <2>1, <2>4, Zenon DEF DatesAreReal, CalendarIsGregorian, FileTimesSurvive, ParsedDatesAreReal
<1>3. ASSUME NEW t \in SentDates, dated = [is |-> "text", text |-> t]
      PROVE  DatesAreReal
  <2>1. dated.is = "text" /\ dated.text = t
    BY <1>3, Zenon
  <2>2. SentSuffixes \subseteq DateSuffixes
    BY SMT DEF SentSuffixes, DateSuffixes, Zulu
  <2>3. t \in Texts(Tenths, DateSuffixes)
    BY <2>2, SMT DEF SentDates, Texts
  <2>4. "none" \in Tenths
    BY Zenon DEF Tenths
  <2>5. TextIsReal(t)
    BY <2>3, <2>4, TextsAreReal, Zenon
  <2> QED BY <2>1, <2>5, Zenon DEF DatesAreReal, CalendarIsGregorian, FileTimesSurvive, ParsedDatesAreReal
<1> QED BY <1>1, <1>2, <1>3, Zenon DEF DateInit

(* days_from_civil, civil_from_days, days_in_month and is_leap_year agree on  *)
(* the Gregorian calendar, for every day before and after the epoch.          *)
THEOREM EveryDayIsGregorian ==
  \A d \in Int : DayIsGregorian(d)
BY DaysAreGregorian, Zenon

(* Dates mean the same instant on both sides, whichever days, seconds and     *)
(* offsets are taken.                                                         *)
THEOREM DatesStayReal == DateSpec => []DatesAreReal
<1>1. DateInit /\ UNCHANGED dated => DateInit'
  BY Zenon DEF DateInit
<1> QED BY <1>1, SamplesAreReal, PTL DEF DateSpec
-----------------------------------------------------------------------------
(* Which device is opened.                                                   *)

(* The first of some positions is one of them.                                *)
LEMMA FirstIs ==
  ASSUME NEW n \in Nat, NEW S \in SUBSET (1 .. n)
  PROVE  /\ S = {} => First(S) = 0
         /\ S # {} => First(S) \in S /\ First(S) # 0
<1>1. CASE S = {}
  BY <1>1 DEF First
<1>2. CASE S # {}
  <2>1. IsFiniteSet(S)
    <3>1. IsFiniteSet(1 .. n)
      BY FS_Interval
    <3> QED BY <3>1, FS_Subset
  <2>2. S \in SUBSET Nat
    OBVIOUS
  <2>3. PICK m \in S : \A k \in S : m <= k
    BY <1>2, <2>1, <2>2, LeastNumber
  <2>4. First(S) \in S
    BY <1>2, <2>3, Zenon DEF First
  <2>5. 0 \notin S
    OBVIOUS
  <2> QED BY <1>2, <2>4, <2>5, Zenon
<1> QED BY <1>1, <1>2

(* What is attached and what is asked: places are positions, a virtual device *)
(* is at none of them.                                                        *)
DeviceOK(d) ==
  /\ d.class \in {"mtp", "composite", "other"}
  /\ \E m \in Nat : DOMAIN d.interfaces = 1 .. m

AttachedOK ==
  /\ \E n \in Nat :
       /\ DOMAIN attached.usb = 1 .. n
       /\ \A i \in 1 .. n : attached.usb[i].at = i /\ DeviceOK(attached.usb[i])
       /\ \A p \in DOMAIN attached.virtuals : attached.virtuals[p].at \notin 1 .. n
  /\ \E m \in Nat : DOMAIN attached.virtuals = 1 .. m

RequestOK ==
  /\ request.call \in {"open", "reset"}
  /\ request.how.by \in {"first", "serial", "location"}
  /\ request.how.by = "serial" => request.how.serial = "s1"
  /\ request.how.by # "location" => request.how.at = 0

ChoiceInv == AttachedOK /\ RequestOK /\ answer \in {Failed("none"), Answer}

(* The answers. *)
LEMMA AnswersAre ==
  /\ \A why : Failed(why).is = why /\ Failed(why).via = "none"
  /\ \A d, via, n : /\ Got(d, via, n).is = "ok" /\ Got(d, via, n).at = d.at
                    /\ Got(d, via, n).via = via /\ Got(d, via, n).interface = n
BY SMT DEF Failed, Got

(* The USB device found is one that is listed and asked for.                  *)
LEMMA UsbIsAsked ==
  ASSUME AttachedOK, Usb # 0
  PROVE  /\ Usb \in DOMAIN attached.usb /\ Usb \in Listed(request.known)
         /\ Asked(attached.usb[Usb]) /\ attached.usb[Usb].at = Usb
<1>1. PICK n \in Nat : /\ DOMAIN attached.usb = 1 .. n
                       /\ \A i \in 1 .. n : attached.usb[i].at = i
  BY Zenon DEF AttachedOK
<1> DEFINE S == {k \in Listed(request.known) : Asked(attached.usb[k])}
<1>2. S \in SUBSET (1 .. n) /\ Listed(request.known) \subseteq 1 .. n
  BY <1>1, Zenon DEF Listed
<1>3. Usb = First(S)
  BY Zenon DEF Usb
<1> HIDE DEF S
<1>4. Usb \in S
  BY <1>2, <1>3, FirstIs, Zenon
<1> USE DEF S
<1> QED BY <1>1, <1>2, <1>4, Zenon

(* What is opened over WPD is one of the devices that it looked through.      *)
LEMMA WpdIsOneOf ==
  ASSUME AttachedOK, NEW S \in SUBSET WpdDevices, NEW otherwise, OpenWpd(First(S), otherwise).is = "ok",
         otherwise # "ok"
  PROVE  /\ First(S) \in S /\ First(S) \in DOMAIN attached.usb
         /\ OpenWpd(First(S), otherwise).via = "wpd"
         /\ OpenWpd(First(S), otherwise).at = First(S)
<1>1. PICK n \in Nat : /\ DOMAIN attached.usb = 1 .. n
                       /\ \A i \in 1 .. n : attached.usb[i].at = i
  BY Zenon DEF AttachedOK
<1>2. S \in SUBSET (1 .. n)
  BY <1>1, Zenon DEF WpdDevices
<1>3. First(S) # 0
  BY AnswersAre, Zenon DEF OpenWpd
<1>4. First(S) \in S
  BY <1>2, <1>3, FirstIs, Zenon
<1>5. OpenWpd(First(S), otherwise) = Got(attached.usb[First(S)], "wpd", 0)
  BY <1>3, Zenon DEF OpenWpd
<1>6. attached.usb[First(S)].at = First(S)
  BY <1>1, <1>2, <1>4, Zenon
<1>7. First(S) \in DOMAIN attached.usb
  BY <1>1, <1>2, <1>4, Zenon
<1> QED BY <1>4, <1>5, <1>6, <1>7, AnswersAre, SMT

(* The devices at the place of an answer.                                     *)
LEMMA ReachedIs ==
  ASSUME AttachedOK, NEW k \in DOMAIN attached.usb, answer.at = k
  PROVE  Reached = {attached.usb[k]}
BY SMT DEF AttachedOK, Reached, Devices

(* A USB open gives the device it is given, over USB.                         *)
LEMMA OpenUsbIs ==
  ASSUME NEW d, OpenUsb(d).is = "ok"
  PROVE  OpenUsb(d).via = "usb" /\ OpenUsb(d).at = d.at
BY AnswersAre, SMT DEF OpenUsb

(* Over WPD by serial.                                                        *)
LEMMA WpdSerialIs ==
  ASSUME AttachedOK, NEW serial, WpdSerial(serial).is = "ok"
  PROVE  \E k \in DOMAIN attached.usb :
           /\ WpdSerial(serial).via = "wpd" /\ WpdSerial(serial).at = k
           /\ attached.usb[k].wpdSerial = serial
<1> DEFINE S == {n \in WpdDevices : attached.usb[n].wpdSerial = serial}
<1>1. WpdSerial(serial) = OpenWpd(First(S), "no_device")
  BY Zenon DEF WpdSerial
<1>2. S \in SUBSET WpdDevices /\ \A k \in S : attached.usb[k].wpdSerial = serial
  BY Zenon
<1> HIDE DEF S
<1> QED BY <1>1, <1>2, WpdIsOneOf, SMT

(* Over WPD in place of a USB device.                                         *)
LEMMA WpdForUsbIs ==
  ASSUME AttachedOK, NEW e, WpdForUsb(e).is = "ok"
  PROVE  \E k \in DOMAIN attached.usb :
           /\ WpdForUsb(e).via = "wpd" /\ WpdForUsb(e).at = k
           /\ e.model = attached.usb[k].model
           /\ \/ attached.usb[k].serial = e.serial
              \/ \A n \in WpdDevices : attached.usb[n].model = e.model => attached.usb[n] = attached.usb[k]
<1>1. WpdOfModel(e) \in SUBSET WpdDevices
      /\ \A n \in WpdDevices : n \in WpdOfModel(e) <=> attached.usb[n].model = e.model
  BY Zenon DEF WpdOfModel
<1>2. CASE Cardinality(WpdOfModel(e)) <= 1
  <2>1. WpdForUsb(e) = OpenWpd(First(WpdOfModel(e)), "no_device")
    BY <1>2, Zenon DEF WpdForUsb
  <2>2. PICK k : k = First(WpdOfModel(e))
    BY Zenon
  <2>3. /\ k \in WpdOfModel(e) /\ k \in DOMAIN attached.usb
        /\ WpdForUsb(e).via = "wpd" /\ WpdForUsb(e).at = k
    BY <1>1, <2>1, <2>2, WpdIsOneOf, SMT
  <2>4. \A n \in WpdOfModel(e) : n = k
    <3>1. IsFiniteSet(WpdOfModel(e))
      <4>1. PICK m \in Nat : DOMAIN attached.usb = 1 .. m
        BY Zenon DEF AttachedOK
      <4>2. WpdOfModel(e) \in SUBSET (1 .. m) /\ IsFiniteSet(1 .. m)
        <5>1. WpdOfModel(e) \in SUBSET (1 .. m)
          BY <1>1, <4>1, Zenon DEF WpdDevices
        <5>2. IsFiniteSet(1 .. m)
          BY FS_Interval
        <5> QED BY <5>1, <5>2
      <4> QED BY <4>2, FS_Subset
    <3>2. SUFFICES ASSUME NEW n \in WpdOfModel(e), n # k
                   PROVE  FALSE
      OBVIOUS
    <3>3. Cardinality(WpdOfModel(e) \ {k}) = Cardinality(WpdOfModel(e)) - 1
          /\ IsFiniteSet(WpdOfModel(e) \ {k})
      BY <2>3, <3>1, FS_RemoveElement
    <3>4. Cardinality(WpdOfModel(e) \ {k}) # 0
      BY <3>2, <3>3, FS_EmptySet
    <3>5. Cardinality(WpdOfModel(e) \ {k}) \in Nat /\ Cardinality(WpdOfModel(e)) \in Nat
      BY <3>1, <3>3, FS_CardinalityType
    <3> QED BY <1>2, <3>3, <3>4, <3>5, SMT
  <2>5. k \in WpdDevices /\ e.model = attached.usb[k].model
    BY <1>1, <2>3, Zenon
  <2>6. \A n \in WpdDevices : attached.usb[n].model = e.model => attached.usb[n] = attached.usb[k]
    BY <1>1, <2>4, Zenon
  <2> QED BY <2>3, <2>5, <2>6, Zenon
<1>3. CASE ~(Cardinality(WpdOfModel(e)) <= 1)
  <2> DEFINE S == {n \in WpdOfModel(e) : e.serial # "none" /\ attached.usb[n].serial = e.serial}
  <2>1. WpdForUsb(e) = OpenWpd(First(S), "other")
    BY <1>3, Zenon DEF WpdForUsb
  <2>2. S \in SUBSET WpdDevices
        /\ \A n \in S : attached.usb[n].serial = e.serial /\ e.model = attached.usb[n].model
    BY <1>1, Zenon
  <2> HIDE DEF S
  <2>3. PICK k : k = First(S)
    BY Zenon
  <2>4. /\ k \in S /\ k \in DOMAIN attached.usb
        /\ WpdForUsb(e).via = "wpd" /\ WpdForUsb(e).at = k
    BY <2>1, <2>2, <2>3, WpdIsOneOf, SMT
  <2> QED BY <2>2, <2>4, Zenon
<1> QED BY <1>2, <1>3

(* Where an answer over USB or WPD comes from.                                *)
LEMMA TryWpdIs ==
  ASSUME NEW found
  PROVE  /\ TryWpd(found) \in {found, Failed("none"), Failed("unsupported")}
         /\ request.backend = "usb" => TryWpd(found) = Failed("none")
BY SMT DEF TryWpd

LEMMA OrElseIs ==
  ASSUME NEW tried, NEW otherwise
  PROVE  /\ tried.is = "none" => OrElse(tried, otherwise) = otherwise
         /\ tried.is # "none" => OrElse(tried, otherwise) = tried
BY Zenon DEF OrElse

LEMMA VirtualIs ==
  ASSUME AttachedOK
  PROVE  /\ Virtual = Failed("none") \/ (Virtual.is = "ok" /\ Virtual.via = "virtual")
         /\ Virtual = Failed("none") =>
              \A p \in DOMAIN attached.virtuals : ~Asked(attached.virtuals[p])
         /\ (\A p \in DOMAIN attached.virtuals : ~Asked(attached.virtuals[p])) =>
              Virtual = Failed("none")
<1> DEFINE S == {k \in DOMAIN attached.virtuals : Asked(attached.virtuals[k])}
<1>1. PICK m \in Nat : DOMAIN attached.virtuals = 1 .. m
  BY Zenon DEF AttachedOK
<1>2. S \in SUBSET (1 .. m)
  BY <1>1, Zenon
<1>3. Virtual = IF First(S) = 0 THEN Failed("none") ELSE Got(attached.virtuals[First(S)], "virtual", 0)
  BY Zenon DEF Virtual
<1>4. S = {} <=> \A p \in DOMAIN attached.virtuals : ~Asked(attached.virtuals[p])
  BY Zenon
<1> HIDE DEF S
<1>5. (S = {} => First(S) = 0) /\ (S # {} => First(S) # 0)
  BY <1>2, FirstIs, Zenon
<1>6. CASE S = {}
  BY <1>3, <1>4, <1>5, <1>6, Zenon
<1>7. CASE S # {}
  <2>1. Virtual = Got(attached.virtuals[First(S)], "virtual", 0)
    BY <1>3, <1>5, <1>7, Zenon
  <2>2. Virtual.is = "ok" /\ Virtual.via = "virtual"
    BY <2>1, AnswersAre, SMT
  <2>3. Virtual # Failed("none")
    BY <2>2, AnswersAre, SMT
  <2> QED BY <1>4, <1>7, <2>2, <2>3, Zenon
<1> QED BY <1>6, <1>7

(* Every answer that is a device: a virtual one, the USB device that is asked *)
(* for, or one over WPD.                                                      *)
Reaches(a) ==
  \/ a.via = "virtual" /\ request.call = "open"
  \/ a = OpenAskedUsb
  \/ a = WpdFirst /\ request.how.by = "first" /\ request.call = "open"
  \/ a = WpdSerial(request.how.serial) /\ request.how.by = "serial" /\ request.call = "open"
  \/ /\ Usb # 0 /\ a = WpdForUsb(attached.usb[Usb])
     /\ request.how.by = "location" /\ request.call = "open"

LEMMA AnswerReaches ==
  ASSUME AttachedOK, RequestOK, Answer.is = "ok"
  PROVE  Reaches(Answer)
<1> DEFINE F == {Failed("none"), Failed("unsupported"), Failed("no_device")}
<1>1. \A f \in F : f.is # "ok"
  BY AnswersAre, SMT
<1>2. Failed("none").is = "none"
  BY AnswersAre, Zenon
<1>3. OpenAskedUsb = IF Usb = 0 THEN Failed("no_device") ELSE OpenUsb(attached.usb[Usb])
  BY Zenon DEF OpenAskedUsb
<1> HIDE DEF F
<1>4. Failed("none") \in F /\ Failed("unsupported") \in F /\ Failed("no_device") \in F
  BY Zenon DEF F
<1>5. CASE request.call = "open" /\ request.how.by = "first"
  <2>1. Answer = OrElse(TryWpd(WpdFirst), OpenAskedUsb)
    BY <1>5, SMT DEF Answer, OpenFirst
  <2> QED BY <1>1, <1>2, <1>4, <1>5, <2>1, TryWpdIs, OrElseIs, SMT DEF Reaches
<1>6. CASE request.call = "open" /\ request.how.by = "serial"
  <2>1. Answer = OrElse(Virtual, OrElse(TryWpd(WpdSerial(request.how.serial)), OpenAskedUsb))
    BY <1>6, SMT DEF Answer, OpenBySerial
  <2>2. CASE Virtual.is = "ok" /\ Virtual.via = "virtual"
    BY <1>6, <2>1, <2>2, OrElseIs, SMT DEF Reaches
  <2>3. CASE Virtual = Failed("none")
    <3>1. Answer = OrElse(TryWpd(WpdSerial(request.how.serial)), OpenAskedUsb)
      BY <1>2, <2>1, <2>3, OrElseIs, SMT
    <3> QED BY <1>1, <1>2, <1>4, <1>6, <3>1, TryWpdIs, OrElseIs, SMT DEF Reaches
  <2> QED BY <2>2, <2>3, VirtualIs, Zenon
<1>7. CASE request.call = "open" /\ request.how.by = "location"
  <2> DEFINE R == IF Usb = 0 THEN Failed("no_device")
                  ELSE OrElse(TryWpd(WpdForUsb(attached.usb[Usb])), OpenUsb(attached.usb[Usb]))
  <2>1. Answer = OrElse(Virtual, R)
    BY <1>7, SMT DEF Answer, OpenByLocation
  <2>2. CASE Virtual.is = "ok" /\ Virtual.via = "virtual"
    <3> HIDE DEF R
    <3> QED BY <1>7, <2>1, <2>2, OrElseIs, SMT DEF Reaches
  <2>3. CASE Virtual = Failed("none")
    <3>1. Answer = R
      BY <1>2, <2>1, <2>3, OrElseIs, SMT
    <3>2. Usb # 0
      BY <1>1, <1>4, <3>1, SMT
    <3>3. Answer = OrElse(TryWpd(WpdForUsb(attached.usb[Usb])), OpenAskedUsb)
      BY <1>3, <3>1, <3>2, Zenon
    <3> QED BY <1>1, <1>2, <1>4, <1>7, <3>2, <3>3, TryWpdIs, OrElseIs, SMT DEF Reaches
  <2> QED BY <2>2, <2>3, VirtualIs, Zenon
<1>8. CASE request.call = "reset" /\ request.how.by = "first"
  BY <1>8, SMT DEF Answer, Reaches
<1>9. CASE request.call = "reset" /\ request.how.by # "first"
  <2>1. Answer = IF Virtual.is = "none" THEN OpenAskedUsb ELSE Failed("unsupported")
    BY <1>9, SMT DEF Answer, Reset
  <2> QED BY <1>1, <1>4, <2>1, SMT DEF Reaches
<1> QED BY <1>5, <1>6, <1>7, <1>8, <1>9, Zenon DEF RequestOK

(* An answer over USB or WPD is the device asked for.                         *)
LEMMA AskedIsAnswered ==
  ASSUME AttachedOK, RequestOK, answer = Answer
  PROVE  AskedIsReached
<1>1. SUFFICES ASSUME answer.is = "ok", answer.via # "virtual", NEW d \in Reached
               PROVE  /\ request.how.by = "serial" =>
                           (IF answer.via = "wpd" THEN d.wpdSerial ELSE d.serial) = "s1"
                      /\ request.how.by = "location" =>
                           \/ d.at = request.how.at
                           \/ /\ answer.via = "wpd"
                              /\ \A e \in Devices : e.at = request.how.at =>
                                   /\ e.model = d.model
                                   /\ d.serial = e.serial
                                      \/ \A n \in WpdDevices :
                                           attached.usb[n].model = e.model => attached.usb[n] = d
  BY Zenon DEF AskedIsReached
<1>2. Reaches(answer)
  BY <1>1, AnswerReaches, Zenon
<1>3. CASE answer = OpenAskedUsb
  <2>1. Usb # 0 /\ answer = OpenUsb(attached.usb[Usb])
    BY <1>1, <1>3, AnswersAre, SMT DEF OpenAskedUsb
  <2>2. answer.via = "usb" /\ answer.at = attached.usb[Usb].at
    BY <1>1, <2>1, OpenUsbIs, SMT
  <2>3. Asked(attached.usb[Usb]) /\ attached.usb[Usb].at = Usb /\ Usb \in DOMAIN attached.usb
    BY <2>1, UsbIsAsked, Zenon
  <2>4. d = attached.usb[Usb]
    <3>1. PICK k \in DOMAIN attached.usb : k = Usb
      BY <2>3, Zenon
    <3>2. answer.at = k
      BY <2>2, <2>3, <3>1, Zenon
    <3>3. Reached = {attached.usb[k]}
      BY <3>2, ReachedIs
    <3> QED BY <1>1, <3>1, <3>3, Zenon
  <2>5. Asked(d) /\ (request.how.by = "serial" => request.how.serial = "s1")
    BY <2>3, <2>4, Zenon DEF RequestOK
  <2>6. (request.how.by = "serial" => d.serial = "s1")
        /\ (request.how.by = "location" => d.at = request.how.at)
    <3>1. CASE request.how.by = "serial"
      BY <2>5, <3>1, SMT DEF Asked
    <3>2. CASE request.how.by = "location"
      BY <2>5, <3>2, SMT DEF Asked
    <3> QED BY <3>1, <3>2, Zenon
  <2>7. answer.via # "wpd"
    BY <2>2, SMT
  <2> QED BY <2>6, <2>7, Zenon
<1>4. CASE answer = WpdFirst /\ request.how.by = "first"
  BY <1>4, SMT
<1>5. CASE answer = WpdSerial(request.how.serial) /\ request.how.by = "serial"
  <2>1. PICK k \in DOMAIN attached.usb :
           /\ answer.via = "wpd" /\ answer.at = k
           /\ attached.usb[k].wpdSerial = request.how.serial
    <3>1. PICK serial : serial = request.how.serial
      BY Zenon
    <3>2. answer = WpdSerial(serial) /\ WpdSerial(serial).is = "ok"
      BY <1>1, <1>5, <3>1, Zenon
    <3> QED BY <3>1, <3>2, WpdSerialIs, SMT
  <2>2. d = attached.usb[k]
    BY <1>1, <2>1, ReachedIs, SMT
  <2> QED BY <1>5, <2>1, <2>2, SMT DEF RequestOK
<1>6. CASE Usb # 0 /\ answer = WpdForUsb(attached.usb[Usb]) /\ request.how.by = "location"
  <2>1. PICK b : b = attached.usb[Usb]
    BY Zenon
  <2>2. PICK k \in DOMAIN attached.usb :
           /\ answer.via = "wpd" /\ answer.at = k
           /\ b.model = attached.usb[k].model
           /\ \/ attached.usb[k].serial = b.serial
              \/ \A n \in WpdDevices : attached.usb[n].model = b.model => attached.usb[n] = attached.usb[k]
    <3>1. answer = WpdForUsb(b) /\ WpdForUsb(b).is = "ok"
      BY <1>1, <1>6, <2>1, Zenon
    <3> QED BY <3>1, WpdForUsbIs, SMT
  <2>3. d = attached.usb[k]
    BY <1>1, <2>2, ReachedIs, SMT
  <2>4. ASSUME NEW e \in Devices, e.at = request.how.at
        PROVE  e = b
    <3>1. b.at = request.how.at /\ b.at = Usb /\ Usb \in DOMAIN attached.usb
      BY <1>6, <2>1, UsbIsAsked, SMT DEF Asked
    <3> QED BY <2>1, <2>4, <3>1, SMT DEF Devices, AttachedOK
  <2> QED BY <1>6, <2>2, <2>3, <2>4, SMT
<1> QED BY <1>1, <1>2, <1>3, <1>4, <1>5, <1>6, Zenon DEF Reaches

(* A reset is over USB, and of no device that a virtual one shields.          *)
LEMMA ResetIsOverUsb ==
  ASSUME AttachedOK, RequestOK, answer = Answer
  PROVE  ResetIsUsb
<1>1. SUFFICES ASSUME request.call = "reset", answer.is = "ok"
               PROVE  /\ answer.via = "usb"
                      /\ \/ request.how.by = "first"
                         \/ \A n \in DOMAIN attached.virtuals : ~Asked(attached.virtuals[n])
  BY Zenon DEF ResetIsUsb
<1>2. answer = OpenAskedUsb
  BY <1>1, AnswerReaches, SMT DEF Reaches
<1>3. answer.via = "usb"
  <2>1. Usb # 0 /\ answer = OpenUsb(attached.usb[Usb])
    BY <1>1, <1>2, AnswersAre, SMT DEF OpenAskedUsb
  <2> QED BY <1>1, <2>1, OpenUsbIs, SMT
<1>4. CASE request.how.by # "first"
  <2>1. answer = Reset
    BY <1>1, <1>4, SMT DEF Answer
  <2>2. Virtual.is = "none"
    BY <1>1, <2>1, AnswersAre, SMT DEF Reset
  <2> QED BY <1>3, <2>2, VirtualIs, SMT
<1> QED BY <1>3, <1>4

(* A first position of one is that one.                                       *)
LEMMA FirstOfOne ==
  ASSUME NEW n \in Nat, NEW k \in 1 .. n
  PROVE  First({k}) = k
BY FirstIs DEF First

(* The interface picked is one of the device, and one that counts as MTP if   *)
(* one does; if it has no interface of the layout it is none.                 *)
LEMMA PickIs ==
  ASSUME NEW d, DeviceOK(d)
  PROVE  /\ MtpInterfaces(d) # {} => Pick(d) \in MtpInterfaces(d) /\ Pick(d) # 0
         /\ (MtpInterfaces(d) = {} /\ \E i \in InterfacesOf(d) : i.layout) =>
              /\ Pick(d) \in DOMAIN d.interfaces /\ Pick(d) # 0
              /\ d.interfaces[Pick(d)].layout
<1>1. PICK m \in Nat : DOMAIN d.interfaces = 1 .. m
  BY Zenon DEF DeviceOK
<1>2. MtpInterfaces(d) \in SUBSET (1 .. m)
  BY <1>1, Zenon DEF MtpInterfaces
<1>3. ASSUME MtpInterfaces(d) # {}
      PROVE  Pick(d) \in MtpInterfaces(d) /\ Pick(d) # 0
  BY <1>2, <1>3, FirstIs, Zenon DEF Pick
<1>4. ASSUME MtpInterfaces(d) = {}, NEW i \in InterfacesOf(d), i.layout
      PROVE  /\ Pick(d) \in DOMAIN d.interfaces /\ Pick(d) # 0
             /\ d.interfaces[Pick(d)].layout
  <2> DEFINE S == {n \in DOMAIN d.interfaces : d.interfaces[n].layout}
  <2>1. S \in SUBSET (1 .. m)
    BY <1>1, Zenon
  <2>2. S # {}
    BY <1>4, Zenon DEF InterfacesOf
  <2>3. Pick(d) = First(S)
    BY <1>4, Zenon DEF Pick
  <2>4. \A n \in S : n \in DOMAIN d.interfaces /\ d.interfaces[n].layout
    BY Zenon
  <2> HIDE DEF S
  <2>5. Pick(d) \in S /\ Pick(d) # 0
    BY <2>1, <2>2, <2>3, FirstIs, Zenon
  <2> QED BY <2>4, <2>5, Zenon
<1> QED BY <1>3, <1>4, Zenon

(* A device that is listed opens over USB on an interface of the layout.      *)
LEMMA ListedIsOpened ==
  ASSUME NEW d, DeviceOK(d), NEW known, d.driver = "usb",
         \A i \in InterfacesOf(d) : i.class = "mtp" => i.layout,
         \/ MatchReason(d, {}) = "opened_descriptor_scan"
         \/ \E i \in InterfacesOf(d) : i.class = "mtp" /\ d.class = "composite"
         \/ d.model \in known /\ \E i \in InterfacesOf(d) : i.layout
  PROVE  /\ MatchReason(d, known) # "none"
         /\ OpenUsb(d) = Got(d, "usb", Pick(d)) /\ d.interfaces[Pick(d)].layout
<1>1. PICK m \in Nat : DOMAIN d.interfaces = 1 .. m
  BY Zenon DEF DeviceOK
<1> DEFINE H == {n \in DOMAIN d.interfaces : SummaryReason(d.interfaces[n]) # "none"}
<1>2. H \in SUBSET (1 .. m) /\ \A n \in H : SummaryReason(d.interfaces[n]) # "none"
  BY <1>1, Zenon
<1>3. \A k : /\ d.model \in k => MatchReason(d, k) = "known_vid_pid"
             /\ d.model \notin k /\ d.class = "mtp" => MatchReason(d, k) = "standard_class"
             /\ d.model \notin k /\ d.class = "other" => MatchReason(d, k) = "none"
             /\ d.model \notin k /\ d.class = "composite" =>
                  MatchReason(d, k) = IF First(H) # 0 THEN SummaryReason(d.interfaces[First(H)])
                                      ELSE IF d.driver = "usb" /\ MtpInterfaces(d) # {}
                                             THEN "opened_descriptor_scan" ELSE "none"
  BY SMT DEF MatchReason
<1>4. \A i : SummaryReason(i) \in {"standard_class", "interface_string", "none"}
  BY SMT DEF SummaryReason
<1>5. \A i \in InterfacesOf(d) : i.class = "mtp" => \E n \in H : d.interfaces[n] = i
  BY SMT DEF InterfacesOf, SummaryReason
<1>6. \A n \in MtpInterfaces(d) : d.interfaces[n].layout
  BY SMT DEF MtpInterfaces, IsMtpInterface, InterfacesOf
<1>7. \A i \in InterfacesOf(d) : i.class = "mtp" => MtpInterfaces(d) # {}
  BY SMT DEF MtpInterfaces, IsMtpInterface, InterfacesOf
<1> HIDE DEF H
<1>8. (H = {} => First(H) = 0) /\ (H # {} => First(H) \in H /\ First(H) # 0)
  BY <1>2, FirstIs, Zenon
<1>9. MtpInterfaces(d) # {} \/ \E i \in InterfacesOf(d) : i.layout
  <2>1. CASE MatchReason(d, {}) = "opened_descriptor_scan"
    <3>1. d.model \notin {}
      BY Zenon
    <3>2. d.class = "composite"
      BY <1>3, <2>1, <3>1, SMT DEF DeviceOK
    <3>3. SummaryReason(d.interfaces[First(H)]) # "opened_descriptor_scan"
      BY <1>4, SMT
    <3> QED BY <1>3, <2>1, <3>1, <3>2, <3>3, SMT
  <2> QED BY <1>7, <2>1, Zenon
<1>10. MatchReason(d, known) # "none"
  <2>1. CASE d.model \in known
    BY <1>3, <2>1, SMT
  <2>2. CASE d.model \notin known /\ MatchReason(d, {}) = "opened_descriptor_scan"
    <3>1. d.model \notin {}
      BY Zenon
    <3>2. d.class = "composite"
      BY <1>3, <2>2, <3>1, SMT DEF DeviceOK
    <3>3. MatchReason(d, known) = MatchReason(d, {})
      BY <1>3, <2>2, <3>1, <3>2, Zenon
    <3> QED BY <2>2, <3>3, SMT
  <2>3. CASE d.model \notin known /\ \E i \in InterfacesOf(d) : i.class = "mtp" /\ d.class = "composite"
    <3>1. d.class = "composite" /\ H # {}
      BY <1>5, <2>3, Zenon
    <3>2. SummaryReason(d.interfaces[First(H)]) # "none" /\ First(H) # 0
      BY <1>2, <1>8, <3>1, Zenon
    <3> QED BY <1>3, <2>3, <3>1, <3>2, Zenon
  <2> QED BY <2>1, <2>2, <2>3, Zenon
<1>11. Pick(d) # 0 /\ d.interfaces[Pick(d)].layout
  BY <1>6, <1>9, PickIs, Zenon
<1>12. OpenUsb(d) = Got(d, "usb", Pick(d))
  BY <1>11, Zenon DEF OpenUsb
<1> QED BY <1>10, <1>11, <1>12, Zenon

(* What is listed opens.                                                      *)
LEMMA WhatIsListedOpens ==
  ASSUME AttachedOK, RequestOK, answer \in {Failed("none"), Answer}
  PROVE  ListedOpens
<1>1. SUFFICES ASSUME NEW d \in Devices,
                      answer.is # "none", request.how.at = d.at, request.backend = "usb", d.driver = "usb",
                      \A i \in InterfacesOf(d) : i.class = "mtp" => i.layout,
                      \/ MatchReason(d, {}) = "opened_descriptor_scan"
                      \/ \E i \in InterfacesOf(d) : i.class = "mtp" /\ d.class = "composite"
                      \/ d.model \in request.known /\ \E i \in InterfacesOf(d) : i.layout
               PROVE  answer.is = "ok" /\ d.interfaces[answer.interface].layout
  BY Zenon DEF ListedOpens
<1>2. answer = Answer
  BY <1>1, AnswersAre, Zenon
<1>3. PICK n \in Nat : /\ DOMAIN attached.usb = 1 .. n
                       /\ \A i \in 1 .. n : attached.usb[i].at = i /\ DeviceOK(attached.usb[i])
                       /\ \A p \in DOMAIN attached.virtuals : attached.virtuals[p].at \notin 1 .. n
  BY Zenon DEF AttachedOK
<1>4. PICK k \in 1 .. n : d = attached.usb[k]
  BY <1>1, <1>3, Zenon DEF Devices
<1>5. d.at = k /\ DeviceOK(d) /\ request.how.at = k
  BY <1>1, <1>3, <1>4, Zenon
<1>6. request.how.by = "location"
  <2>1. k # 0
    BY SMT
  <2> QED BY <1>5, <2>1, Zenon DEF RequestOK
<1>7. \A e : Asked(e) <=> e.at = k
  BY <1>5, <1>6, SMT DEF Asked
<1>8. /\ MatchReason(d, request.known) # "none"
      /\ OpenUsb(d) = Got(d, "usb", Pick(d)) /\ d.interfaces[Pick(d)].layout
  BY <1>1, <1>5, ListedIsOpened
<1>9. Usb = k
  <2>1. Listed(request.known) \subseteq 1 .. n /\ k \in Listed(request.known)
    BY <1>3, <1>4, <1>8, Zenon DEF Listed
  <2>2. {j \in Listed(request.known) : Asked(attached.usb[j])} = {k}
    <3>1. ASSUME NEW j \in Listed(request.known)
          PROVE  Asked(attached.usb[j]) <=> j = k
      BY <1>3, <1>7, <2>1, <3>1, Zenon
    <3> QED BY <2>1, <3>1, Zenon
  <2> QED BY <2>2, FirstOfOne, Zenon DEF Usb
<1>10. OpenAskedUsb = Got(d, "usb", Pick(d))
  BY <1>4, <1>8, <1>9, SMT DEF OpenAskedUsb
<1>11. Virtual = Failed("none")
  <2>1. \A p \in DOMAIN attached.virtuals : ~Asked(attached.virtuals[p])
    BY <1>3, <1>7, Zenon
  <2> QED BY <2>1, VirtualIs, Zenon
<1>12. Answer = OpenAskedUsb
  <2>1. CASE request.call = "open"
    <3>1. Answer = OpenByLocation
      BY <1>6, <2>1, SMT DEF Answer
    <3>2. OpenByLocation = OrElse(TryWpd(WpdForUsb(attached.usb[Usb])), OpenUsb(attached.usb[Usb]))
      <4>1. Usb # 0
        BY <1>9, SMT
      <4>2. Failed("none").is = "none"
        BY AnswersAre, Zenon
      <4> QED BY <1>11, <4>1, <4>2, OrElseIs, Zenon DEF OpenByLocation
    <3>3. TryWpd(WpdForUsb(attached.usb[Usb])).is = "none"
      BY <1>1, TryWpdIs, AnswersAre, Zenon
    <3>4. OpenByLocation = OpenUsb(d)
      BY <1>4, <1>9, <3>2, <3>3, OrElseIs, Zenon
    <3> QED BY <1>8, <1>10, <3>1, <3>4, Zenon
  <2>2. CASE request.call = "reset"
    <3>1. Answer = Reset
      BY <1>6, <2>2, SMT DEF Answer
    <3> QED BY <1>11, <3>1, AnswersAre, Zenon DEF Reset
  <2> QED BY <2>1, <2>2, Zenon DEF RequestOK
<1>13. answer.is = "ok" /\ answer.interface = Pick(d)
  BY <1>2, <1>10, <1>12, AnswersAre, SMT
<1> QED BY <1>8, <1>13, Zenon

LEMMA ChoiceStarts ==
  ASSUME ChoiceInit
  PROVE  ChoiceInv
<1>1. MaxAttached \in Nat /\ MaxInterfaces \in Nat
  BY ChoiceAssumption
<1>2. answer = Failed("none")
  BY Zenon DEF ChoiceInit
<1>3. CASE /\ \E d \in Alone : attached = [windows |-> FALSE, usb |-> <<d>>, virtuals |-> <<>>]
           /\ request = [call |-> "open", backend |-> "usb", known |-> {},
                         how |-> [by |-> "location", serial |-> "none", at |-> 1]]
  <2>1. PICK d \in Alone : attached = [windows |-> FALSE, usb |-> <<d>>, virtuals |-> <<>>]
    BY <1>3
  <2>2. d.at = 1 /\ DeviceOK(d)
    <3>1. PICK c \in {"mtp", "composite", "other"}, s \in Shapes :
             d = [at |-> 1, model |-> "m1", serial |-> "s1", wpdSerial |-> "w1", driver |-> "usb",
                  class |-> c, interfaces |-> s]
      BY SMT DEF Alone
    <3>2. PICK m \in 0 .. MaxInterfaces : s \in [1 .. m -> Interfaces]
      BY <3>1, Zenon DEF Shapes
    <3>3. m \in Nat /\ DOMAIN s = 1 .. m
      BY <1>1, <3>2
    <3>4. d.at = 1 /\ d.class = c /\ d.interfaces = s
      BY <3>1
    <3> QED BY <3>1, <3>3, <3>4, Zenon DEF DeviceOK
  <2>3. AttachedOK
    <3>1. /\ DOMAIN attached.usb = 1 .. 1 /\ DOMAIN attached.virtuals = 1 .. 0
          /\ \A i \in 1 .. 1 : i = 1 /\ attached.usb[i] = d
      BY <2>1
    <3>2. \A p \in DOMAIN attached.virtuals : FALSE
      BY <3>1
    <3>3. 1 \in Nat /\ 0 \in Nat
      OBVIOUS
    <3> QED BY <2>2, <3>1, <3>2, <3>3, Zenon DEF AttachedOK
  <2>4. RequestOK
    BY <1>3, SMT DEF RequestOK
  <2> QED BY <1>2, <2>3, <2>4, Zenon DEF ChoiceInv
<1>4. ASSUME NEW n \in 0 .. MaxAttached, NEW w \in BOOLEAN, NEW v \in Registered,
             NEW s \in [1 .. n -> Beside],
             attached = [windows |-> w, usb |-> [i \in 1 .. n |-> At(i, s[i])], virtuals |-> v],
             request \in Requests
      PROVE  ChoiceInv
  <2>1. n \in Nat /\ VirtualPlace \notin 1 .. n
    BY <1>1 DEF VirtualPlace
  <2>2. attached.usb = [i \in 1 .. n |-> At(i, s[i])] /\ attached.virtuals = v
    BY <1>4
  <2>3. ASSUME NEW i \in 1 .. n
        PROVE  attached.usb[i].at = i /\ DeviceOK(attached.usb[i])
    <3>1. s[i] \in Beside
      BY <1>4
    <3>2. s[i].class = "composite" /\ s[i].interfaces \in {MtpShape, OddShape}
      BY <3>1, SMT DEF Beside
    <3>3. DOMAIN s[i].interfaces = 1 .. 1
      BY <3>2 DEF MtpShape, OddShape
    <3>4. attached.usb[i] = At(i, s[i])
      BY <2>2
    <3>5. attached.usb[i].at = i /\ attached.usb[i].class = s[i].class
          /\ attached.usb[i].interfaces = s[i].interfaces
      BY <3>4, SMT DEF At
    <3>6. 1 \in Nat
      OBVIOUS
    <3> QED BY <3>2, <3>3, <3>5, <3>6, Zenon DEF DeviceOK
  <2>4. (\E m \in Nat : DOMAIN v = 1 .. m) /\ \A p \in DOMAIN v : v[p].at = VirtualPlace
    <3>1. CASE v = <<>>
      <4>1. DOMAIN v = 1 .. 0 /\ 0 \in Nat /\ \A p \in 1 .. 0 : FALSE
        BY <3>1
      <4> QED BY <4>1, Zenon
    <3>2. CASE v = <<[at |-> VirtualPlace, serial |-> "s1"]>>
      <4>1. DOMAIN v = 1 .. 1 /\ 1 \in Nat /\ \A p \in 1 .. 1 : p = 1
        BY <3>2
      <4>2. v[1].at = VirtualPlace
        BY <3>2
      <4> QED BY <4>1, <4>2, Zenon
    <3> QED BY <3>1, <3>2, Zenon DEF Registered
  <2>5. DOMAIN attached.usb = 1 .. n
    BY <2>2
  <2>6. AttachedOK
    BY <2>1, <2>2, <2>3, <2>4, <2>5, Zenon DEF AttachedOK
  <2>7. RequestOK
    <3>1. /\ request.call \in {"open", "reset"}
          /\ request.how \in {[by |-> "first", serial |-> "none", at |-> 0],
                              [by |-> "serial", serial |-> "s1", at |-> 0]}
               \cup {[by |-> "location", serial |-> "none", at |-> m] : m \in 1 .. VirtualPlace}
      BY <1>4, SMT DEF Requests
    <3> QED BY <3>1, SMT DEF RequestOK
  <2> QED BY <1>2, <2>6, <2>7, Zenon DEF ChoiceInv
<1> QED BY <1>3, <1>4, SMT DEF ChoiceInit

LEMMA ChoiceSteps ==
  ASSUME ChoiceInv, [ChoiceNext]_choiceVars
  PROVE  ChoiceInv'
<1>1. attached' = attached /\ request' = request /\ answer' \in {answer, Answer}
  BY Zenon DEF ChoiceNext, Resolve, choiceVars
<1>2. AttachedOK' /\ RequestOK'
  BY <1>1, Zenon DEF ChoiceInv, AttachedOK, RequestOK, DeviceOK
<1>3. Answer' = Answer
  <2>1. \A d : Asked(d)' = Asked(d)
    BY <1>1, Zenon DEF Asked
  <2>2. \A found : TryWpd(found)' = TryWpd(found)
    BY <1>1, Zenon DEF TryWpd
  <2>3. WpdDevices' = WpdDevices /\ Listed(request.known)' = Listed(request.known)
    BY <1>1, Zenon DEF WpdDevices, Listed
  <2>4. \A n, otherwise : OpenWpd(n, otherwise)' = OpenWpd(n, otherwise)
    BY <1>1, Zenon DEF OpenWpd
  <2>5. \A d : WpdOfModel(d)' = WpdOfModel(d)
    BY <1>1, <2>3, Zenon DEF WpdOfModel
  <2>6. \A d : WpdForUsb(d)' = WpdForUsb(d)
    BY <1>1, <2>4, <2>5, Zenon DEF WpdForUsb
  <2>7. WpdFirst' = WpdFirst /\ \A serial : WpdSerial(serial)' = WpdSerial(serial)
    BY <1>1, <2>3, <2>4, Zenon DEF WpdFirst, WpdSerial
  <2>8. Virtual' = Virtual /\ Usb' = Usb
    BY <1>1, <2>1, <2>3, Zenon DEF Virtual, Usb
  <2>9. OpenAskedUsb' = OpenAskedUsb
    BY <1>1, <2>8, Zenon DEF OpenAskedUsb
  <2>10. OpenFirst' = OpenFirst /\ OpenBySerial' = OpenBySerial
    BY <1>1, <2>2, <2>7, <2>8, <2>9, Zenon DEF OpenFirst, OpenBySerial
  <2>11. OpenByLocation' = OpenByLocation /\ Reset' = Reset
    BY <1>1, <2>2, <2>6, <2>8, <2>9, Zenon DEF OpenByLocation, Reset
  <2> QED BY <1>1, <2>9, <2>10, <2>11, Zenon DEF Answer
<1>4. answer' \in {Failed("none"), Answer}
  BY <1>1, Zenon DEF ChoiceInv
<1> QED BY <1>2, <1>3, <1>4, Zenon DEF ChoiceInv

(* Whatever is attached, what is opened or reset is what was asked for, by a  *)
(* way that can serve the request, and what a listing shows can be opened.    *)
THEOREM OpensAsAsked == ChoiceSpec => []OpensWhatWasAsked
<1>1. ChoiceInit => ChoiceInv
  BY ChoiceStarts
<1>2. ChoiceInv /\ [ChoiceNext]_choiceVars => ChoiceInv'
  BY ChoiceSteps
<1>3. ChoiceInv => OpensWhatWasAsked
  <2>1. SUFFICES ASSUME ChoiceInv
                 PROVE  OpensWhatWasAsked
    OBVIOUS
  <2>2. CASE answer = Answer
    BY <2>1, <2>2, AskedIsAnswered, ResetIsOverUsb, WhatIsListedOpens, Zenon
       DEF OpensWhatWasAsked, ChoiceInv
  <2>3. CASE answer = Failed("none")
    <3>1. answer.is # "ok"
      BY <2>3, AnswersAre, SMT
    <3> QED BY <2>1, <3>1, WhatIsListedOpens, Zenon
            DEF OpensWhatWasAsked, ChoiceInv, AskedIsReached, ResetIsUsb
  <2> QED BY <2>1, <2>2, <2>3, Zenon DEF ChoiceInv
<1> QED BY <1>1, <1>2, <1>3, PTL DEF ChoiceSpec
=============================================================================
