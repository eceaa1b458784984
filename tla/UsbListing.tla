---------------------------- MODULE UsbListing ----------------------------
(***************************************************************************)
(* Folder listings over USB (mtp/backend/usb.rs `list`, mtp/storage.rs     *)
(* `collect_in`, `list_objects_stream`, `collect_objects_recursive`): the  *)
(* property-list fast path and what the backend remembers of its refusals, *)
(* the root-listing fallbacks, the parent filter, the objects that may be  *)
(* skipped and the cancel token.                                           *)
(*                                                                         *)
(* A step is one transaction of the session, from the check of the token   *)
(* in front of it to the handling of its answer; the phone and other tasks *)
(* change the tree between any two of them.                                *)
(***************************************************************************)
EXTENDS Naturals, Sequences, FiniteSets, SequencesExt

CONSTANTS
  Folders,       \* handles of folders
  Files,         \* handles of files
  Huge,          \* the files of 4 GiB or more
  AllHandle,     \* ObjectHandle::ALL, 0xFFFFFFFF
  ListedDevices, \* the devices met: records, see DeviceShape
  ListedTrees,   \* the trees they start with
  ListingModes,  \* "collect", "stream" or "walk"
  MaxChanges,    \* how often the tree changes
  MaxListings    \* how many calls are made

(* The storage's root, ObjectHandle::ROOT, and an object that is not there. *)
RootHandle == 0
NotThere == AllHandle + 1

Objects == Folders \cup Files
Parents == Folders \cup {RootHandle, NotThere}

DeviceShape ==
  [all : {"roots", "every", "declines"},    \* GetObjectHandles for parent 0xFFFFFFFF
   zero : {"roots", "every", "invalid"},    \* ... and for parent 0
   mark : Nat,                              \* the parent it reports of root objects
   storage : Nat,                           \* the storage's id
   lists : {"none", "serves", "declines", "depth0", "foreign"},    \* GetObjectPropList
   bad : SUBSET Objects,                    \* GetObjectInfo answers GeneralError
   dated : SUBSET Objects]                  \* have a DateModified

ASSUME ListingAssumption ==
  /\ AllHandle \in Nat /\ \A h \in Objects : h \in 1 .. AllHandle - 1
  /\ Folders \cap Files = {} /\ Huge \subseteq Files /\ IsFiniteSet(Objects)
  /\ ListedDevices \subseteq DeviceShape
  /\ \A d \in ListedDevices :
       /\ d.mark \in {RootHandle, AllHandle, d.storage}
       /\ d.storage \in 1 .. AllHandle - 1
       /\ d.mark = d.storage => d.storage \notin Objects
  /\ \A t \in ListedTrees :
       /\ t \in [Objects -> Parents]
       /\ \A h \in Objects : t[h] \in Folders => t[t[h]] # NotThere
  /\ MaxChanges \in Nat /\ MaxListings \in Nat

(* resolve_listing takes the answer for parent 0 with the exact filter for 0: a device that *)
(* declines 0xFFFFFFFF and answers 0 must report 0 of its root objects.                     *)
ASSUME RootMarkAssumption ==
  \A d \in ListedDevices :
    d.all = "declines" /\ d.zero # "invalid" => d.mark = RootHandle

VARIABLES
  dev,       \* the device
  tree,      \* where each object is
  off,       \* prop_list_off
  declined,  \* prop_list_declined_optional
  token,     \* the CancelToken
  call,      \* the listing in progress
  history    \* what happened since the call, and since this folder's listing, began

listing == <<off, declined, token, call>>
listingVars == <<dev, tree, listing, history>>

Required == <<"parent", "name", "format", "size">>    \* PROP_LIST_REQUIRED
Optional == <<"modified", "created">>                 \* PROP_LIST_OPTIONAL

Children(f) == {h \in Objects : tree[h] = f}

NoAnswers == [i \in 1 .. Len(Required) |-> {}]

(* The fields up to `start` are the call's, the others those of the folder it is at. *)
NoCall ==
  [mode |-> "collect", made |-> 0, start |-> RootHandle, visit |-> <<>>, objects |-> <<>>,
   skipped |-> {}, verdict |-> "none",
   at |-> "idle", folder |-> RootHandle, asked |-> 0, found |-> NoAnswers, alien |-> FALSE,
   handles |-> <<>>, accepts |-> {}, listed |-> <<>>, omitted |-> {}]

ListingInit ==
  /\ dev \in ListedDevices /\ tree \in ListedTrees
  /\ off = FALSE /\ declined = {} /\ token = FALSE
  /\ call = NoCall
  /\ history = [changes |-> 0, stayed |-> {}, ever |-> {}, late |-> 0,
                raced |-> FALSE, walkRaced |-> FALSE]
-----------------------------------------------------------------------------
(* Starting a listing of a folder, and the next one of a recursive walk. *)

Folder(c, f) ==
  [c EXCEPT !.at = "start", !.folder = f, !.asked = 0, !.found = NoAnswers, !.alien = FALSE,
            !.handles = <<>>, !.accepts = {}, !.listed = <<>>, !.omitted = {}]

FolderHistory(f) ==
  [history EXCEPT !.stayed = Children(f), !.ever = Children(f), !.raced = FALSE]

StartListing(mode, f) ==
  /\ call.at \in {"idle", "done"} /\ call.made < MaxListings
  /\ f # RootHandle => tree[f] # NotThere
  /\ call' = Folder([NoCall EXCEPT !.mode = mode, !.made = call.made + 1, !.start = f], f)
  /\ history' = [FolderHistory(f) EXCEPT !.late = 0, !.walkRaced = FALSE]
  /\ token' = FALSE
  /\ UNCHANGED <<dev, tree, off, declined>>

(* The phone, or another task, changes the tree. *)
ChangeTree(h, p) ==
  /\ history.changes < MaxChanges /\ call.at \notin {"idle", "done"}
  /\ tree[h] # p
  /\ tree[h] = NotThere => h \in Files
  /\ p \in Folders => tree[p] # NotThere /\ p # h /\ h \in Files
  /\ p = NotThere => Children(h) = {}
  /\ tree' = [tree EXCEPT ![h] = p]
  /\ LET here == {o \in Objects : tree'[o] = call.folder}
     IN  history' = [history EXCEPT !.changes = @ + 1, !.stayed = @ \cap here,
                                    !.ever = @ \cup here, !.raced = TRUE, !.walkRaced = TRUE]
  /\ UNCHANGED <<dev, listing>>

CancelListing ==
  /\ call.at \notin {"idle", "done"} /\ call.mode # "walk" /\ ~token
  /\ token' = TRUE
  /\ UNCHANGED <<dev, tree, off, declined, call, history>>
-----------------------------------------------------------------------------
(* The session carries a transaction out; a call that is cancelled may have one on its way. *)
Transaction ==
  /\ history' = [history EXCEPT !.late = @ + IF token THEN 1 ELSE 0]
  /\ UNCHANGED <<dev, tree, token>>

ListingEnded(c, verdict) == [c EXCEPT !.at = "done", !.verdict = verdict]

(* An optional property is left to ask for. *)
Wanted == call.asked < Len(Optional) /\ Optional[call.asked + 1] \notin declined

(* A request is next. *)
Due ==
  /\ call.at \in {"required", "optional", "all", "folder", "samsung", "info"}
  /\ call.at = "optional" => Wanted
  /\ call.at = "info" => call.handles # <<>>

(* bail_if_cancelled stands in front of these. *)
Checked == {"start", "required", "optional", "folder", "info"}

BailIfCancelled ==
  /\ call.at = "start" \/ (Due /\ call.at \in Checked)
  /\ token
  /\ call' = ListingEnded(call, "error")
  /\ UNCHANGED <<dev, tree, off, declined, token, history>>

(* The session or the transport fails: no fallback, the error is the caller's. *)
SessionFails ==
  /\ Due /\ (call.at \in Checked => ~token)
  /\ call' = ListingEnded(call, "error")
  /\ Transaction /\ UNCHANGED <<off, declined>>

(* resolve_listing asks 0xFFFFFFFF first for the root. *)
PerHandle(c) == [c EXCEPT !.at = IF c.folder = RootHandle THEN "all" ELSE "folder"]

List ==
  /\ call.at = "start" /\ ~token
  /\ call' = IF call.folder # RootHandle /\ dev.lists # "none" /\ ~off
             THEN [call EXCEPT !.at = "required"]
             ELSE PerHandle(call)
  /\ UNCHANGED <<dev, tree, off, declined, token, history>>
-----------------------------------------------------------------------------
(* list_by_prop_list: one request for each property. *)

(* The handles for which a property-list request brings a value of the property. *)
HasValue(property) ==
  IF dev.lists = "depth0" \/ property = "created" THEN {}
  ELSE CASE property = "parent" -> Children(call.folder)
                                   \cup IF dev.lists = "foreign" THEN Objects \ {call.folder} ELSE {}
         [] property = "modified" -> Children(call.folder) \cap dev.dated
         [] OTHER -> Children(call.folder) \ dev.bad

(* is_prop_list_capability_decline: the device cannot serve this at all. *)
DeclinesRequired ==
  /\ call.at = "required" /\ ~token /\ dev.lists = "declines"
  /\ off' = TRUE
  /\ call' = PerHandle(call)
  /\ Transaction /\ UNCHANGED declined

(* Mutant: any refusal turns the property lists off. *)
RefusesFolderForGood ==
  /\ call.at = "required" \/ (call.at = "optional" /\ Wanted)
  /\ ~token /\ dev.lists # "declines"
  /\ off' = TRUE
  /\ call' = PerHandle(call)
  /\ Transaction /\ UNCHANGED declined

(* Any other refusal is about this folder. *)
RefusesFolder ==
  /\ call.at = "required" \/ (call.at = "optional" /\ Wanted)
  /\ ~token /\ dev.lists # "declines"
  /\ call' = IF call.at = "required" THEN PerHandle(call)
             ELSE [call EXCEPT !.asked = @ + 1]
  /\ Transaction /\ UNCHANGED <<off, declined>>

Seen(found) == UNION {found[i] : i \in DOMAIN Required}

(* Whether a child must carry a property: a folder needs no size. *)
Needing(found, i) ==
  {c \in Seen(found) : Required[i] = "size" => ~(c \in Folders /\ c \in found[3])}
Lacking(found, i) == Needing(found, i) \ found[i]

(* children_from_prop_list: the device answered something else than what was asked, or
   serves no child a property ... *)
Systemic(found, alien) ==
  alien \/ \E i \in DOMAIN Required : Lacking(found, i) # {} /\ Lacking(found, i) = Needing(found, i)
(* ... or leaves some child without one. *)
Incomplete(found) == \E i \in DOMAIN Required : Lacking(found, i) # {}

(* What the required answers come to. *)
Conclude(c) ==
  IF Incomplete(c.found) \/ c.alien \/ Seen(c.found) = {} THEN PerHandle(c)
  ELSE [c EXCEPT !.at = "optional", !.asked = 0, !.listed = SetToSeq(Seen(c.found))]

AskRequired ==
  /\ call.at = "required" /\ ~token
  /\ dev.lists \in {"serves", "depth0", "foreign"} /\ tree[call.folder] # NotThere
  /\ LET i == call.asked + 1
         answer == HasValue(Required[i])
         c == [call EXCEPT !.asked = i, !.found[i] = answer,
                           !.alien = @ \/ (i = 1 /\ ~(answer \subseteq Children(call.folder)))]
     IN  /\ call' = IF i < Len(Required) THEN c ELSE Conclude(c)
         /\ off' = (off \/ (i = Len(Required) /\ Systemic(c.found, c.alien)))
  /\ Transaction /\ UNCHANGED declined

(* add_optional_properties: one that no child has is not asked for again. *)
AskOptional ==
  /\ call.at = "optional" /\ Wanted /\ ~token
  /\ LET property == Optional[call.asked + 1] IN
     declined' = IF HasValue(property) \cap ToSet(call.listed) = {}
                 THEN declined \cup {property} ELSE declined
  /\ call' = [call EXCEPT !.asked = @ + 1]
  /\ Transaction /\ UNCHANGED off

PassOptional ==
  /\ call.at = "optional" /\ call.asked < Len(Optional)
  /\ Optional[call.asked + 1] \in declined
  /\ call' = [call EXCEPT !.asked = @ + 1]
  /\ UNCHANGED <<dev, tree, off, declined, token, history>>

ServedByPropList ==
  /\ call.at = "optional" /\ call.asked = Len(Optional)
  /\ call' = [call EXCEPT !.at = "collected"]
  /\ UNCHANGED <<dev, tree, off, declined, token, history>>
-----------------------------------------------------------------------------
(* resolve_listing: which handles to ask about, and which parents to accept. *)

Present == {h \in Objects : tree[h] # NotThere}

HandlesFor(style) == IF style = "every" THEN Present ELSE Children(RootHandle)

(* Mutants: one spelling of the root forgotten; the storage's id always taken for the root. *)
RootFilterWithoutAll(handles) == {RootHandle, dev.storage}
RootFilterAnyStorage(handles) == {RootHandle, AllHandle, dev.storage}

(* ParentFilter::Root, as the parents it accepts: the storage's id cannot mark the root
   where it is also the handle of an object. *)
RootFilter(handles) ==
  {RootHandle, AllHandle} \cup IF dev.storage \in handles THEN {} ELSE {dev.storage}

Resolved(handles, accepts) ==
  [call EXCEPT !.at = "info", !.handles = SetToSeq(handles), !.accepts = accepts]

AskAll ==
  /\ call.at = "all"
  /\ call' = IF dev.all = "declines" THEN [call EXCEPT !.at = "folder"]
             ELSE LET handles == HandlesFor(dev.all) IN Resolved(handles, RootFilter(handles))
  /\ Transaction /\ UNCHANGED <<off, declined>>

AskFolder ==
  /\ call.at = "folder" /\ ~token
  /\ call' =
       CASE call.folder = RootHandle /\ dev.zero = "invalid" -> [call EXCEPT !.at = "samsung"]
         [] call.folder = RootHandle /\ dev.zero # "invalid" ->
              Resolved(HandlesFor(dev.zero), {RootHandle})
         [] call.folder # RootHandle /\ tree[call.folder] = NotThere -> ListingEnded(call, "error")
         [] OTHER -> Resolved(Children(call.folder), {call.folder})
  /\ Transaction /\ UNCHANGED <<off, declined>>

(* The fallback repeats 0xFFFFFFFF, without a look at the token. *)
AskSamsung ==
  /\ call.at = "samsung"
  /\ \/ call' = ListingEnded(call, "error")
     \/ LET handles == Present IN call' = Resolved(handles, RootFilter(handles))
  /\ Transaction /\ UNCHANGED <<off, declined>>
-----------------------------------------------------------------------------
(* The stream of per-handle answers: get_object_info_full. *)

ReportedParent(h) == IF tree[h] = RootHandle THEN dev.mark ELSE tree[h]

Next1(c) == [c EXCEPT !.handles = Tail(@)]

(* Mutant: the parent is kept for the object. *)
TakeParent(c, h, parent) ==
  IF parent \in c.accepts THEN [Next1(c) EXCEPT !.listed = Append(@, parent)] ELSE Next1(c)

TakeListed(c, h, parent) ==
  IF parent \in c.accepts THEN [Next1(c) EXCEPT !.listed = Append(@, h)] ELSE Next1(c)

(* Mutant: the token is looked at only when the listing starts. *)
AskInfoUnchecked ==
  /\ call.at = "info" /\ call.handles # <<>>
  /\ call' = TakeListed(call, Head(call.handles), ReportedParent(Head(call.handles)))
  /\ Transaction /\ UNCHANGED <<off, declined>>

AskInfo ==
  /\ call.at = "info" /\ call.handles # <<>> /\ ~token
  /\ LET h == Head(call.handles) IN
     call' = CASE tree[h] = NotThere -> ListingEnded(call, "error")
               [] tree[h] # NotThere /\ h \in dev.bad -> [Next1(call) EXCEPT !.omitted = @ \cup {h}]
               [] OTHER ->
                    LET c == TakeListed(call, h, ReportedParent(h))
                    IN  IF h \in Huge THEN [c EXCEPT !.at = "size"] ELSE c
  /\ Transaction /\ UNCHANGED <<off, declined>>

(* Mutant: the size is asked for until the device gives one. *)
AskSizeAgain ==
  /\ call.at = "size"
  /\ call' = call
  /\ Transaction /\ UNCHANGED <<off, declined>>

(* The size of 4 GiB and more is asked for separately; any failure leaves it saturated. *)
AskSize ==
  /\ call.at = "size"
  /\ call' = [call EXCEPT !.at = "info"]
  /\ Transaction /\ UNCHANGED <<off, declined>>

InfoExhausted ==
  /\ call.at = "info" /\ call.handles = <<>>
  /\ call' = [call EXCEPT !.at = "collected"]
  /\ UNCHANGED <<dev, tree, off, declined, token, history>>
-----------------------------------------------------------------------------
(* collect_in, list_objects_stream and collect_objects_recursive. *)

(* A folder in which every object was skipped is a failure, not an empty folder. *)
NothingReadable == call.listed = <<>> /\ call.omitted # {} /\ call.mode # "stream"

(* The folders among what was listed, in some order: that of a listing is the device's. *)
FoldersIn(listed) == SetToSeq(ToSet(listed) \cap Folders)

(* Mutant: the folders still to visit are lost with each folder visited. *)
CollectForgets ==
  /\ call.at = "collected"
  /\ LET c == [call EXCEPT !.objects = @ \o call.listed, !.skipped = @ \cup call.omitted]
         visit == IF call.mode = "walk"
                  THEN FoldersIn(call.listed) ELSE <<>>
     IN  IF visit = <<>> THEN call' = ListingEnded(c, "ok") /\ UNCHANGED history
         ELSE /\ call' = Folder([c EXCEPT !.visit = Front(visit)], Last(visit))
              /\ history' = FolderHistory(Last(visit))
  /\ UNCHANGED <<dev, tree, off, declined, token>>

Collect ==
  /\ call.at = "collected"
  /\ LET c == [call EXCEPT !.objects = @ \o call.listed, !.skipped = @ \cup call.omitted]
         visit == IF call.mode = "walk"
                  THEN call.visit \o FoldersIn(call.listed) ELSE <<>>
     IN  IF NothingReadable THEN call' = ListingEnded(call, "error") /\ UNCHANGED history
         ELSE IF visit = <<>> THEN call' = ListingEnded(c, "ok") /\ UNCHANGED history
         ELSE /\ call' = Folder([c EXCEPT !.visit = Front(visit)], Last(visit))
              /\ history' = FolderHistory(Last(visit))
  /\ UNCHANGED <<dev, tree, off, declined, token>>

Advance ==
  \/ BailIfCancelled \/ SessionFails \/ List
  \/ DeclinesRequired \/ RefusesFolder \/ AskRequired
  \/ AskOptional \/ PassOptional \/ ServedByPropList
  \/ AskAll \/ AskFolder \/ AskSamsung
  \/ AskInfo \/ AskSize \/ InfoExhausted \/ Collect

ListingNext ==
  \/ \E mode \in ListingModes, f \in Folders \cup {RootHandle} : StartListing(mode, f)
  \/ \E h \in Objects, p \in Parents : ChangeTree(h, p)
  \/ CancelListing
  \/ Advance

ListingSpec == ListingInit /\ [][ListingNext]_listingVars /\ WF_listingVars(Advance)
-----------------------------------------------------------------------------
(* The shape of the device, the call and what it has found. *)
ListingTypeOK ==
  /\ dev \in ListedDevices /\ tree \in [Objects -> Parents]
  /\ off \in BOOLEAN /\ declined \subseteq ToSet(Optional) /\ token \in BOOLEAN
  /\ call.at \in {"idle", "start", "required", "optional", "all", "folder", "samsung",
                  "info", "size", "collected", "done"}
  /\ call.folder \in Folders \cup {RootHandle} /\ call.verdict \in {"none", "ok", "error"}
  /\ ToSet(call.handles) \cup ToSet(call.listed) \cup ToSet(call.objects) \subseteq Objects
  /\ call.omitted \cup call.skipped \subseteq Objects
  /\ history.stayed \subseteq history.ever /\ history.ever \subseteq Objects

(* A folder listing hides nothing: an object that was in the folder from the call's first
   request to its last is reported, or reported as skipped, whichever requests served the
   listing and whatever else came and went meanwhile. *)
ListingIsComplete ==
  call.at = "collected" => history.stayed \subseteq ToSet(call.listed) \cup call.omitted

(* ... and invents nothing: what it reports was in that folder at some time during the call
   (children of a folder that has the storage's id as its handle are not the root's). *)
ListingIsSound ==
  call.at = "collected" => ToSet(call.listed) \subseteq history.ever

(* After the token is set, at most the one request that the code does not check in front of
   goes out: the third root request, or the size of a huge file. *)
CancelIsPrompt == history.late <= 1

(* All folders below f, f included, without those whose metadata cannot be read. *)
WalkedFolders(f) ==
  LET level[n \in 0 .. Cardinality(Folders)] ==
        IF n = 0 THEN {f}
        ELSE level[n - 1] \cup {g \in Folders \ dev.bad : tree[g] \in level[n - 1]}
  IN  level[Cardinality(Folders)]

(* A recursive walk during which the tree stays as it is reports every object below its
   start exactly once, as an object or as skipped. *)
WalkReportsTree ==
  (call.at = "done" /\ call.mode = "walk" /\ call.verdict = "ok" /\ ~history.walkRaced) =>
    /\ IsInjective(call.objects) /\ ToSet(call.objects) \cap call.skipped = {}
    /\ ToSet(call.objects) \cup call.skipped =
         {h \in Objects : tree[h] \in WalkedFolders(call.start)}

(* On a device that serves property lists, and describes all its objects, the fast path is
   given up for the session only when an object came or went during the listing. *)
FastPathSurvives ==
  [][off' /\ ~off /\ dev.lists = "serves" /\ dev.bad = {} => history.raced]_listingVars

(* What the comment at `Unusable::Incomplete` promises of an object that comes or goes
   between two per-property requests: this listing falls back, later ones do not. *)
RaceFallsBackOnce == dev.lists = "serves" /\ dev.bad = {} => ~off

(* Every listing comes to an end, recursive walks included. *)
ListingEnds == call.at \notin {"idle", "done"} ~> call.at = "done"

(* A listing hides nothing and invents nothing. *)
ListingIsExact == ListingIsComplete /\ ListingIsSound
============================================================================
