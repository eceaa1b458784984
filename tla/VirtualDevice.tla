--------------------------- MODULE VirtualDevice ---------------------------
(***************************************************************************)
(* The virtual MTP device (transport/virtual_device): the operation        *)
(* handlers over a backing file tree, the object handles it tracks, the    *)
(* events it queues, the file watcher that follows changes made outside    *)
(* MTP, and the registry calls a test harness drives it with.              *)
(*                                                                         *)
(* Every step holds the state mutex.  The file system's notifications      *)
(* reach the watcher in order but arbitrarily late.  Responses and events  *)
(* carry only what the properties read.                                    *)
(***************************************************************************)
EXTENDS Naturals, Sequences, FiniteSets, BackingStore

CONSTANTS
  Storages,     \* storage ids
  ReadOnly,     \* the read-only ones
  Names,        \* file and folder names
  Data,         \* contents a file may be given: sequences of blocks
  Ops,          \* the operations the host uses
  Outsiders,    \* programs that change the backing directories directly
  Watching,     \* watch_backing_dirs
  FreshNames,   \* nobody creates, copies, renames or uploads onto a name that is taken
  DirMoves,     \* folders are renamed and moved too
  Disciplined,  \* outsiders change files under a pause guard, and drain and rescan before dropping it
  DroppedCap,   \* DROPPED_PATHS_CAP
  MaxHandle, MaxDepth, MaxQueued, MaxNotes    \* bounds

ASSUME DeviceAssumption ==
  /\ Storages \subseteq Nat \ {0} /\ ReadOnly \subseteq Storages
  /\ IsFiniteSet(Storages) /\ IsFiniteSet(Names)
  /\ Watching \in BOOLEAN /\ FreshNames \in BOOLEAN
  /\ DirMoves \in BOOLEAN /\ Disciplined \in BOOLEAN
  /\ DroppedCap \in Nat /\ MaxHandle \in Nat /\ MaxDepth \in Nat
  /\ MaxQueued \in Nat /\ MaxNotes \in Nat

VARIABLES
  disk,         \* the tree of backing files
  objects,      \* tracked handles: [path, parent]
  nextHandle,
  session,      \* session_open
  send,         \* pending_send: the object the next SendObject fills
  command,      \* pending_command: a command waiting for its data phase
  replies,      \* response_queue
  events,       \* event_queue
  notes,        \* notifications on their way to the watcher
  pauses,       \* pause_count
  dropped,      \* dropped_paths
  holding,      \* the outsiders that hold a WatcherGuard
  dirty         \* the outsiders that changed files since the last rescan

device == <<disk, objects, nextHandle, session, send, command, replies, events>>
watch == <<notes, pauses, dropped, holding, dirty>>
virtualVars == <<device, watch>>

Root == 0    \* ObjectHandle::ROOT

NoSend == [handle |-> 0]
NoCommand == [op |-> "none"]

Host == "host"

Paths == UNION {{<<s>> \o n : n \in UNION {[1 .. k -> Names] : k \in 1 .. MaxDepth}} : s \in Storages}

Tracks(objs, p) == {h \in DOMAIN objs : objs[h].path = p}

Note(by, gone, p) == [by |-> by, gone |-> gone, path |-> p]

Notes(by, gone, order) == [i \in DOMAIN order |-> Note(by, gone, order[i])]

(* What the file system may report of entries that came, a folder before what *)
(* it holds, and of entries that went, a folder after what it held.           *)
ParentsFirst(S) == {o \in SetToSeqs(S) : \A i, j \in DOMAIN o : i < j => Len(o[i]) <= Len(o[j])}
ParentsLast(S) == {o \in SetToSeqs(S) : \A i, j \in DOMAIN o : i < j => Len(o[i]) >= Len(o[j])}

Came(by, S) == {Notes(by, FALSE, order) : order \in ParentsFirst(S)}
Went(by, S) == {Notes(by, TRUE, order) : order \in ParentsLast(S)}
Quiet == {<<>>}
Then(A, B) == UNION {{a \o b : b \in B} : a \in A}

Notify(reports) ==
  IF Watching THEN \E ns \in reports : notes' = notes \o ns ELSE UNCHANGED notes

Added(h) == <<[code |-> "ObjectAdded", arg |-> h]>>
Removed(h) == <<[code |-> "ObjectRemoved", arg |-> h]>>
InfoChanged(h) == <<[code |-> "ObjectInfoChanged", arg |-> h]>>
StorageChanged(s) == <<[code |-> "StorageInfoChanged", arg |-> s]>>

Announce(es) == events' = events \o es
Reply(r) == replies' = replies \o r
Ok == <<"OK">>
OkWithData == <<"data", "OK">>

(* Bounds: the host reads events, and notifications arrive, before more pile up. *)
Room == Len(events) <= MaxQueued /\ Len(notes) <= MaxNotes
CanAlloc(n) == nextHandle + n <= MaxHandle + 1

VirtualInit ==
  /\ disk = [p \in {<<s>> : s \in Storages} |-> Dir]
  /\ objects = <<>> /\ nextHandle = 1
  /\ session = FALSE /\ send = NoSend /\ command = NoCommand
  /\ replies = <<>> /\ events = <<>>
  /\ notes = <<>> /\ pauses = 0 /\ dropped = <<>>
  /\ holding = {} /\ dirty = {}
-----------------------------------------------------------------------------
(* The transport: send_bulk, receive_bulk, receive_interrupt, cancel_transfer. *)

(* The session serializes its transactions and cancels an abandoned one. *)
Ready == command = NoCommand /\ replies = <<>>

(* A command without a data phase is dispatched at once. *)
Runs(op) == op \in Ops /\ Ready /\ Room /\ UNCHANGED <<command, pauses, dropped, holding, dirty>>

(* The data container of the pending command dispatches it. *)
RunsWithData(op) ==
  /\ command.op = op /\ Room
  /\ command' = NoCommand
  /\ UNCHANGED <<pauses, dropped, holding, dirty>>

Refuse(code) ==
  /\ Reply(<<code>>)
  /\ UNCHANGED <<disk, objects, nextHandle, session, send, events, notes>>

SendBulk ==
  /\ Ready
  /\ command' \in
       [op : Ops \cap {"SendObjectInfo"}, storage : Storages, parent : 0 .. nextHandle - 1,
        name : Names, dir : BOOLEAN]
       \cup [op : Ops \cap {"SendObject"}, data : Data]
       \cup [op : Ops \cap {"SetObjectPropValue"}, handle : 1 .. nextHandle - 1, name : Names]
  /\ UNCHANGED <<disk, objects, nextHandle, session, send, replies, events, watch>>

ReceiveBulk ==
  /\ replies # <<>> /\ replies' = Tail(replies)
  /\ UNCHANGED <<disk, objects, nextHandle, session, send, command, events, watch>>

ReceiveInterrupt ==
  /\ events # <<>> /\ events' = Tail(events)
  /\ UNCHANGED <<disk, objects, nextHandle, session, send, command, replies, watch>>

CancelTransfer ==
  /\ ~Ready
  /\ command' = NoCommand /\ replies' = <<>>
  /\ UNCHANGED <<disk, objects, nextHandle, session, send, events, watch>>

(* dispatch: every other operation needs an open session. *)
SessionNotOpen ==
  /\ ~session
  /\ \/ Runs("GetObjectHandles")
     \/ \E op \in {"SendObjectInfo", "SendObject", "SetObjectPropValue"} : RunsWithData(op)
  /\ Refuse("SessionNotOpen")

OpenSession ==
  /\ Runs("OpenSession")
  /\ Reply(IF session THEN <<"SessionAlreadyOpen">> ELSE Ok)
  /\ session' = TRUE
  /\ UNCHANGED <<disk, objects, nextHandle, send, events, notes>>

CloseSessionForgetsHandles ==    \* a variant that starts over at handle 1
  /\ Runs("CloseSession")
  /\ session' = FALSE /\ objects' = <<>> /\ send' = NoSend /\ nextHandle' = 1
  /\ Reply(Ok)
  /\ UNCHANGED <<disk, events, notes>>

CloseSession ==
  /\ Runs("CloseSession")
  /\ session' = FALSE /\ objects' = <<>> /\ send' = NoSend
  /\ Reply(Ok)
  /\ UNCHANGED <<disk, nextHandle, events, notes>>

(* GetObjectInfo, GetObject, GetPartialObject(64), GetThumb, GetObjectPropValue *)
(* and the storage and device queries only read.                                *)
Read ==
  /\ Runs("Read") /\ session
  /\ \E h \in 1 .. nextHandle - 1 :
       Reply(IF h \notin DOMAIN objects THEN <<"InvalidObjectHandle">>
             ELSE IF Has(disk, objects[h].path) THEN OkWithData ELSE <<"GeneralError">>)
  /\ UNCHANGED <<disk, objects, nextHandle, session, send, events, notes>>
-----------------------------------------------------------------------------
(* Listing: scan_dir and scan_all give a handle to every entry they meet. *)

Track(objs, order, parent) ==
  Over(objs, [h \in nextHandle .. nextHandle + Len(order) - 1 |->
                [path |-> order[h - nextHandle + 1], parent |-> parent[h - nextHandle + 1]]])

(* The handle of an entry's folder, whichever of them HashMap finds first. *)
ParentsOf(objs, order) ==
  {parent \in [1 .. Len(order) -> 0 .. MaxHandle] :
     LET objs2 == Track(objs, order, parent)
     IN  \A i \in 1 .. Len(order) :
           IF Len(order[i]) = 2 THEN parent[i] = Root
           ELSE parent[i] \in Tracks(objs2, Front(order[i]))}

Untracked(objs, S) == {p \in S : Tracks(objs, p) = {}}

ScanDir(p, parent) ==
  LET new == Untracked(objects, IF IsDir(disk, p) THEN Children(disk, p) ELSE {})
  IN  /\ CanAlloc(Cardinality(new))
      /\ \E order \in SetToSeqs(new) :
           objects' = Track(objects, order, [i \in 1 .. Len(order) |-> parent])
      /\ nextHandle' = nextHandle + Cardinality(new)

ScanAll(ss) ==
  LET new == Untracked(objects, {p \in DOMAIN disk : p[1] \in ss /\ Len(p) > 1})
  IN  /\ CanAlloc(Cardinality(new))
      /\ \E order \in SetToSeqs(new) : \E parent \in ParentsOf(objects, order) :
           objects' = Track(objects, order, parent)
      /\ nextHandle' = nextHandle + Cardinality(new)

(* A folder of one storage, its root, or all of it. *)
GetObjectHandles ==
  /\ Runs("GetObjectHandles") /\ session
  /\ \/ \E s \in Storages, parent \in 0 .. nextHandle - 1 :
          IF parent # Root /\ (parent \notin DOMAIN objects \/ objects[parent].path[1] # s)
          THEN Refuse("InvalidObjectHandle")
          ELSE /\ ScanDir(IF parent = Root THEN <<s>> ELSE objects[parent].path, parent)
               /\ Reply(OkWithData)
               /\ UNCHANGED <<disk, session, send, events, notes>>
     \/ \E s \in Storages :
          /\ ScanAll({s})
          /\ Reply(OkWithData)
          /\ UNCHANGED <<disk, session, send, events, notes>>

(* The whole device, or one object and its children (prop_list.rs). *)
GetObjectPropList ==
  /\ Runs("GetObjectPropList") /\ session
  /\ \/ ScanAll(Storages) /\ Reply(OkWithData) /\ UNCHANGED <<disk, session, send, events, notes>>
     \/ \E h \in 1 .. nextHandle - 1 :
          IF h \notin DOMAIN objects THEN Refuse("InvalidObjectHandle")
          ELSE /\ ScanDir(objects[h].path, h)
               /\ Reply(OkWithData)
               /\ UNCHANGED <<disk, session, send, events, notes>>
-----------------------------------------------------------------------------
(* Uploads. *)

PathOf(s, parent) == IF parent = Root THEN <<s>> ELSE <<s>> \o Tail(objects[parent].path)

NameIsFree(p) == FreshNames => ~Has(disk, p)

(* A variant that registers the object before it exists on disk. *)
SendObjectInfoRegistersFirst ==
  /\ RunsWithData("SendObjectInfo") /\ session
  /\ LET c == command
         p == PathOf(c.storage, c.parent) \o <<c.name>>
     IN  /\ c.storage \notin ReadOnly /\ c.parent = Root
         /\ NameIsFree(p) /\ Len(p) <= MaxDepth + 1 /\ CanAlloc(1)
         /\ nextHandle' = nextHandle + 1
         /\ objects' = Extend(objects, nextHandle, [path |-> p, parent |-> c.parent])
         /\ IF ~(IF c.dir THEN CanMakeDir(disk, p) ELSE CanWrite(disk, p))
            THEN Reply(<<"GeneralError">>) /\ UNCHANGED <<disk, send, events, notes>>
            ELSE /\ disk' = IF c.dir THEN MakeDir(disk, p) ELSE Write(disk, p, <<>>)
                 /\ Announce(Added(nextHandle) \o StorageChanged(c.storage))
                 /\ Reply(Ok) /\ UNCHANGED <<send, notes>>
  /\ UNCHANGED session

(* The object exists, as an empty file, from here on; a folder is done. *)
SendObjectInfo ==
  /\ RunsWithData("SendObjectInfo") /\ session
  /\ LET c == command
         known == c.parent \in DOMAIN objects /\ objects[c.parent].path[1] = c.storage
         p == PathOf(c.storage, c.parent) \o <<c.name>>
         made == IF c.dir THEN CanMakeDir(disk, p) ELSE CanWrite(disk, p)
     IN  CASE c.storage \in ReadOnly -> Refuse("StoreReadOnly")
           [] c.storage \notin ReadOnly /\ c.parent # Root
                /\ ~(known /\ IsDir(disk, objects[c.parent].path)) -> Refuse("InvalidParent")
           [] OTHER ->
                /\ NameIsFree(p) /\ Len(p) <= MaxDepth + 1 /\ CanAlloc(1)
                /\ nextHandle' = nextHandle + 1
                /\ IF ~made
                   THEN /\ send' = NoSend /\ Reply(<<"GeneralError">>)
                        /\ UNCHANGED <<disk, objects, events, notes>>
                   ELSE /\ disk' = IF c.dir THEN MakeDir(disk, p) ELSE Write(disk, p, <<>>)
                        /\ Notify(IF Has(disk, p) THEN Quiet ELSE Came(Host, {p}))
                        /\ objects' = Extend(objects, nextHandle, [path |-> p, parent |-> c.parent])
                        /\ Announce(Added(nextHandle) \o StorageChanged(c.storage))
                        /\ send' = IF c.dir THEN NoSend
                                   ELSE [handle |-> nextHandle, storage |-> c.storage,
                                         parent |-> c.parent, name |-> c.name]
                        /\ Reply(Ok)
  /\ UNCHANGED session

(* A variant that announces the object again. *)
SendObjectAddsAgain ==
  /\ RunsWithData("SendObject") /\ session /\ send # NoSend
  /\ LET p == PathOf(send.storage, send.parent) \o <<send.name>>
     IN  /\ send.parent \in DOMAIN objects \cup {Root} /\ CanWrite(disk, p)
         /\ disk' = Write(disk, p, command.data)
         /\ Notify(IF Has(disk, p) THEN Quiet ELSE Came(Host, {p}))
         /\ objects' = Extend(objects, send.handle, [path |-> p, parent |-> send.parent])
         /\ Announce(Added(send.handle) \o StorageChanged(send.storage))
  /\ send' = NoSend /\ Reply(Ok)
  /\ UNCHANGED <<nextHandle, session>>

(* The data goes where the parent is now, under the name it was announced with. *)
SendObject ==
  /\ RunsWithData("SendObject") /\ session
  /\ send' = NoSend
  /\ LET gone == send # NoSend /\ send.parent # Root /\ send.parent \notin DOMAIN objects
         p == PathOf(send.storage, send.parent) \o <<send.name>>
     IN  IF send = NoSend \/ gone \/ ~CanWrite(disk, p)
         THEN /\ Reply(IF gone THEN <<"InvalidParent">> ELSE <<"GeneralError">>)
              /\ UNCHANGED <<disk, objects, events, notes>>
         ELSE /\ NameIsFree(p) \/ send.handle \in Tracks(objects, p)
              /\ Len(p) <= MaxDepth + 1
              /\ disk' = Write(disk, p, command.data)
              /\ Notify(IF Has(disk, p) THEN Quiet ELSE Came(Host, {p}))
              /\ objects' = Extend(objects, send.handle, [path |-> p, parent |-> send.parent])
              /\ Announce(InfoChanged(send.handle) \o StorageChanged(send.storage))
              /\ Reply(Ok)
  /\ UNCHANGED <<nextHandle, session>>
-----------------------------------------------------------------------------
(* Deleting, renaming, moving and copying by handle. *)

Tracked(h) == h \in DOMAIN objects
Storage(h) == objects[h].path[1]
Valid(p) == Has(disk, p) \/ Has(disk, Front(p))    \* validate_path_within

(* Every handle at or below the path goes; only the deleted one is announced. *)
DeleteObject ==
  /\ Runs("DeleteObject") /\ session
  /\ \E h \in 1 .. nextHandle - 1 :
       CASE ~Tracked(h) -> Refuse("InvalidObjectHandle")
         [] Tracked(h) /\ Storage(h) \in ReadOnly -> Refuse("StoreReadOnly")
         [] Tracked(h) /\ Storage(h) \notin ReadOnly /\ ~Has(disk, objects[h].path) ->
              Refuse("GeneralError")
         [] OTHER ->
              LET p == objects[h].path
              IN  /\ disk' = Cut(disk, p)
                  /\ Notify(Went(Host, Below(disk, p)))
                  /\ objects' = [x \in {y \in DOMAIN objects : ~IsPrefix(p, objects[y].path)}
                                   |-> objects[x]]
                  /\ Announce(Removed(h) \o StorageChanged(Storage(h)))
                  /\ Reply(Ok)
                  /\ UNCHANGED <<nextHandle, session, send>>

(* SetObjectPropValue of the file name. The object's descendants keep their paths. *)
SetObjectPropValue ==
  /\ RunsWithData("SetObjectPropValue") /\ session
  /\ LET h == command.handle
         p == objects[h].path
         r == Front(p) \o <<command.name>>
     IN  CASE ~Tracked(h) -> Refuse("InvalidObjectHandle")
           [] Tracked(h) /\ Storage(h) \in ReadOnly -> Refuse("StoreReadOnly")
           [] Tracked(h) /\ Storage(h) \notin ReadOnly /\ ~CanRename(disk, p, r) ->
                Refuse("GeneralError")
           [] OTHER ->
                /\ NameIsFree(r) /\ (IsDir(disk, p) => DirMoves)
                /\ disk' = Renamed(disk, p, r)
                /\ Notify(IF p = r THEN Quiet ELSE Then(Went(Host, {p}), Came(Host, {r})))
                /\ objects' = [objects EXCEPT ![h].path = r]
                /\ Reply(Ok)
                /\ UNCHANGED <<nextHandle, session, send, events>>

(* The destination of a move or a copy, wherever the parent's own storage is. *)
Destination(h, s, parent) == PathOf(s, parent) \o <<Last(objects[h].path)>>

(* A variant that does not look at the destination's storage. *)
MoveRefusalOfSource(h, s, parent) ==
  CASE ~Tracked(h) -> "InvalidObjectHandle"
    [] Tracked(h) /\ Storage(h) \in ReadOnly -> "StoreReadOnly"
    [] OTHER -> IF parent # Root /\ ~Tracked(parent) THEN "InvalidParent" ELSE "none"

MoveRefusal(h, s, parent) ==
  CASE ~Tracked(h) -> "InvalidObjectHandle"
    [] Tracked(h) /\ (Storage(h) \in ReadOnly \/ s \in ReadOnly) -> "StoreReadOnly"
    [] OTHER -> IF parent # Root /\ ~Tracked(parent) THEN "InvalidParent" ELSE "none"

(* rename, or copy and delete where rename fails; a folder is merged then. *)
MovedTree(p, r) ==
  IF CanRename(disk, p, r)
  THEN [ok |-> TRUE, tree |-> Renamed(disk, p, r),
        ns |-> IF p = r THEN Quiet ELSE Then(Went(Host, {p}), Came(Host, {r}))]
  ELSE IF IsDir(disk, p) /\ CanCopy(disk, p, r)
  THEN LET copied == Copied(disk, p, r, Below(disk, p))
       IN  [ok |-> TRUE, tree |-> Cut(copied, p),
            ns |-> Then(Came(Host, DOMAIN copied \ DOMAIN disk), Went(Host, Below(disk, p)))]
  ELSE [ok |-> FALSE, tree |-> disk, ns |-> Quiet]

(* A folder is never sent into itself, nor deeper than the bound. *)
Fits(p, r) ==
  /\ p = r \/ ~IsPrefix(p, r)
  /\ \A q \in Below(disk, p) \cup {p} : Rebase(q, p, r) \in Paths

(* What a failed merge leaves behind. *)
FailedCopy(p, r) ==
  \E S \in (IF IsDir(disk, p) /\ Valid(r) THEN PartialCopies(disk, p, r) ELSE {{}}) :
    /\ disk' = Copied(disk, p, r, S)
    /\ Notify(Came(Host, DOMAIN disk' \ DOMAIN disk))
    /\ Reply(<<"GeneralError">>)
    /\ UNCHANGED <<objects, nextHandle, session, send, events>>

MoveObject ==
  /\ Runs("MoveObject") /\ session
  /\ \E h \in 1 .. nextHandle - 1, s \in Storages, parent \in 0 .. nextHandle - 1 :
       LET refusal == MoveRefusal(h, s, parent)
       IN  IF refusal # "none" THEN Refuse(refusal)
           ELSE LET p == objects[h].path
                    r == Destination(h, s, parent)
                    moved == MovedTree(p, r)
                IN  /\ Fits(p, r)
                    /\ p = r \/ NameIsFree(r)
                    /\ IsDir(disk, p) => DirMoves
                    /\ IF ~Valid(r) \/ ~moved.ok THEN FailedCopy(p, r)
                       ELSE /\ disk' = moved.tree /\ Notify(moved.ns)
                            /\ objects' = [objects EXCEPT ![h] = [path |-> r, parent |-> parent]]
                            /\ Announce(InfoChanged(h) \o StorageChanged(Storage(h)) \o
                                 IF s # Storage(h) THEN StorageChanged(s) ELSE <<>>)
                            /\ Reply(Ok)
                            /\ UNCHANGED <<nextHandle, session, send>>

(***************************************************************************)
(* A copy onto a tracked name is Android's: the data is copied over what   *)
(* is there, no object is added, and a folder answers GeneralError.        *)
(***************************************************************************)
Clashes(h, s, parent) ==
  \E o \in DOMAIN objects :
    /\ Storage(o) = s /\ objects[o].parent = parent
    /\ Last(objects[o].path) = Last(objects[h].path)

CopyRefusal(h, s, parent) ==
  CASE ~Tracked(h) -> "InvalidObjectHandle"
    [] Tracked(h) /\ s \in ReadOnly -> "StoreReadOnly"
    [] OTHER -> IF parent # Root /\ ~Tracked(parent) THEN "InvalidParent" ELSE "none"

CopyObject ==
  /\ Runs("CopyObject") /\ session
  /\ \E h \in 1 .. nextHandle - 1, s \in Storages, parent \in 0 .. nextHandle - 1 :
       LET refusal == CopyRefusal(h, s, parent)
       IN  IF refusal # "none" THEN Refuse(refusal)
           ELSE LET p == objects[h].path
                    r == Destination(h, s, parent)
                    clash == Clashes(h, s, parent)
                IN  /\ Fits(p, r)
                    /\ NameIsFree(r)
                    /\ IF ~Valid(r) \/ ~CanCopy(disk, p, r) THEN FailedCopy(p, r)
                       ELSE /\ disk' = Copied(disk, p, r, Below(disk, p))
                            /\ Notify(Came(Host, DOMAIN disk' \ DOMAIN disk))
                            /\ IF clash
                               THEN /\ Reply(IF IsDir(disk, p) THEN <<"GeneralError">> ELSE Ok)
                                    /\ UNCHANGED <<objects, nextHandle, events>>
                               ELSE /\ CanAlloc(1) /\ nextHandle' = nextHandle + 1
                                    /\ objects' = Extend(objects, nextHandle,
                                                        [path |-> r, parent |-> parent])
                                    /\ Announce(Added(nextHandle) \o StorageChanged(s))
                                    /\ Reply(Ok)
                            /\ UNCHANGED <<session, send>>
-----------------------------------------------------------------------------
(* The watcher: handle_notify_event for the oldest notification. *)

(* A variant that tracks the path again. *)
WatchCreateAlways(n) ==
  /\ CanAlloc(1) /\ nextHandle' = nextHandle + 1
  /\ objects' = Extend(objects, nextHandle, [path |-> n.path, parent |-> Root])
  /\ Announce(Added(nextHandle) \o StorageChanged(n.path[1]))

(* A create tracks the path unless it is tracked already. *)
WatchCreate(n) ==
  IF Tracks(objects, n.path) # {}
  THEN UNCHANGED <<objects, nextHandle, events>>
  ELSE /\ CanAlloc(1) /\ nextHandle' = nextHandle + 1
       /\ \E parent \in IF Len(n.path) = 2 \/ Tracks(objects, Front(n.path)) = {} THEN {Root}
                        ELSE Tracks(objects, Front(n.path)) :
            objects' = Extend(objects, nextHandle, [path |-> n.path, parent |-> parent])
       /\ Announce(Added(nextHandle) \o StorageChanged(n.path[1]))

(* A remove untracks one handle of the path, if there is one. *)
WatchRemove(n) ==
  IF Tracks(objects, n.path) = {}
  THEN UNCHANGED <<objects, nextHandle, events>>
  ELSE /\ \E h \in Tracks(objects, n.path) :
            /\ objects' = [x \in DOMAIN objects \ {h} |-> objects[x]]
            /\ Announce(Removed(h) \o StorageChanged(n.path[1]))
       /\ UNCHANGED nextHandle

LastOf(s, n) == SubSeq(s, IF Len(s) > n THEN Len(s) - n + 1 ELSE 1, Len(s))

WatchEvent ==
  /\ notes # <<>> /\ Len(events) <= MaxQueued
  /\ notes' = Tail(notes)
  /\ LET n == Head(notes)
     IN  IF pauses > 0
         THEN /\ dropped' = LastOf(Append(dropped, n.path), DroppedCap)
              /\ UNCHANGED <<objects, nextHandle, events>>
         ELSE /\ IF n.gone THEN WatchRemove(n) ELSE WatchCreate(n)
              /\ UNCHANGED dropped
  /\ UNCHANGED <<disk, session, send, command, replies, pauses, holding, dirty>>
-----------------------------------------------------------------------------
(* The registry: what a test harness calls. *)

PauseWatcher(t) ==
  /\ t \notin holding
  /\ holding' = holding \cup {t} /\ pauses' = pauses + 1
  /\ UNCHANGED <<device, notes, dropped, dirty>>

(* A variant for which the first guard dropped resumes the watcher. *)
DropGuardResumes(t) ==
  /\ t \in holding
  /\ Disciplined => t \notin dirty /\ \A i \in 1 .. Len(notes) : notes[i].by # t
  /\ holding' = holding \ {t} /\ pauses' = 0
  /\ UNCHANGED <<device, notes, dropped, dirty>>

DropGuard(t) ==
  /\ t \in holding
  /\ Disciplined => t \notin dirty /\ \A i \in 1 .. Len(notes) : notes[i].by # t
  /\ holding' = holding \ {t} /\ pauses' = IF pauses = 0 THEN 0 ELSE pauses - 1
  /\ UNCHANGED <<device, notes, dropped, dirty>>

ClearDroppedPaths ==
  /\ dropped # <<>> /\ dropped' = <<>>
  /\ UNCHANGED <<device, notes, pauses, holding, dirty>>

EventsOf(what, S) == [i \in 1 .. Cardinality(S) |-> [code |-> what, arg |-> SetToSeq(S)[i]]]

(* rescan_backing_dirs: what is gone is untracked, then what is new is tracked. *)
RescanBackingDirs ==
  LET stale == {h \in DOMAIN objects : ~Has(disk, objects[h].path)}
      kept == [h \in DOMAIN objects \ stale |-> objects[h]]
      new == Untracked(kept, {p \in DOMAIN disk : Len(p) > 1})
  IN  /\ "Rescan" \in Ops /\ Room /\ CanAlloc(Cardinality(new))
      /\ \E order \in SetToSeqs(new) : \E parent \in ParentsOf(kept, order) :
           objects' = Track(kept, order, parent)
      /\ nextHandle' = nextHandle + Cardinality(new)
      /\ Announce(EventsOf("ObjectRemoved", stale)
                  \o EventsOf("ObjectAdded", nextHandle .. nextHandle + Cardinality(new) - 1)
                  \o EventsOf("StorageInfoChanged",
                              {objects[h].path[1] : h \in stale} \cup {p[1] : p \in new}))
      /\ dirty' = {}
      /\ UNCHANGED <<disk, session, send, command, replies, notes, pauses, dropped, holding>>

(* rekey_object: the object keeps its path and gets a new handle. *)
RekeyObject ==
  /\ "Rekey" \in Ops /\ Room /\ CanAlloc(1)
  /\ \E h \in DOMAIN objects :
       LET rest == Extend([x \in DOMAIN objects \ {h} |-> objects[x]], nextHandle, objects[h])
       IN  objects' = [x \in DOMAIN rest |->
             [rest[x] EXCEPT !.parent = IF @ = h THEN nextHandle ELSE @]]
  /\ nextHandle' = nextHandle + 1
  /\ UNCHANGED <<disk, session, send, command, replies, events, watch>>

(* Changes made in the backing directories, outside MTP. *)
Outside(t) ==
  /\ Room
  /\ Disciplined => t \in holding
  /\ \/ \E p \in Paths :
          /\ ~Has(disk, p)
          /\ \/ CanMakeDir(disk, p) /\ disk' = MakeDir(disk, p)
             \/ CanWrite(disk, p) /\ \E data \in Data : disk' = Write(disk, p, data)
          /\ Notify(Came(t, {p}))
     \/ \E p \in DOMAIN disk \cap Paths :
          disk' = Cut(disk, p) /\ Notify(Went(t, Below(disk, p)))
     \/ \E p \in DOMAIN disk \cap Paths, r \in Paths :
          /\ p # r /\ CanRename(disk, p, r) /\ NameIsFree(r)
          /\ IsDir(disk, p) => DirMoves
          /\ \A q \in Below(disk, p) : Rebase(q, p, r) \in Paths
          /\ disk' = Renamed(disk, p, r) /\ Notify(Then(Went(t, {p}), Came(t, {r})))
  /\ dirty' = IF Disciplined THEN dirty \cup {t} ELSE dirty
  /\ UNCHANGED <<objects, nextHandle, session, send, command, replies, events,
                 pauses, dropped, holding>>
-----------------------------------------------------------------------------
(* The host's operations and the transport under them. *)
HostNext ==
  \/ SendBulk \/ ReceiveBulk \/ ReceiveInterrupt \/ CancelTransfer
  \/ SessionNotOpen \/ OpenSession \/ CloseSession \/ Read
  \/ GetObjectHandles \/ GetObjectPropList
  \/ SendObjectInfo \/ SendObject
  \/ DeleteObject \/ SetObjectPropValue \/ MoveObject \/ CopyObject

(* What the watcher and the test harnesses do. *)
WatchNext ==
  \/ WatchEvent \/ RescanBackingDirs \/ RekeyObject \/ ClearDroppedPaths
  \/ \E t \in Outsiders : "Pause" \in Ops /\ (PauseWatcher(t) \/ DropGuard(t))

OutsideNext == \E t \in Outsiders : Outside(t)

VirtualNext == HostNext \/ WatchNext \/ OutsideNext

(* A device with a watcher, and one whose backing directories nobody watches. *)
VirtualSpec == VirtualInit /\ [][VirtualNext]_virtualVars
UnwatchedSpec == VirtualInit /\ [][HostNext \/ OutsideNext]_virtualVars
-----------------------------------------------------------------------------
(* Properties *)

(* The shape of the device's state: every tracked, pending and announced   *)
(* handle has been allocated, and every pause has its guard.               *)
VirtualTypeOK ==
  /\ DOMAIN disk \subseteq Paths \cup {<<s>> : s \in Storages}
  /\ \A p \in DOMAIN disk : Len(p) > 1 => IsDir(disk, Front(p))
  /\ nextHandle \in 1 .. MaxHandle + 1
  /\ DOMAIN objects \subseteq 1 .. nextHandle - 1
  /\ \A h \in DOMAIN objects : objects[h].path \in Paths /\ objects[h].parent < nextHandle
  /\ send.handle < nextHandle
  /\ session \in BOOLEAN
  /\ Len(replies) <= 2 /\ (replies # <<>> => command = NoCommand)
  /\ \A i \in 1 .. Len(events) : events[i].code \in {"ObjectAdded", "ObjectRemoved", "ObjectInfoChanged"}
       => events[i].arg \in 1 .. nextHandle - 1
  /\ pauses = Cardinality(holding) /\ Len(dropped) <= DroppedCap

(* A handle a host may still remember is never given to another object:    *)
(* what becomes tracked is new, or the object an upload has pending,       *)
(* across closed sessions, rescans and re-keyed objects.                   *)
HandlesStayFresh ==
  [][/\ nextHandle' >= nextHandle
     /\ \A h \in DOMAIN objects' \ DOMAIN objects :
          h \in nextHandle .. nextHandle' - 1 \/ h = send.handle]_virtualVars

(* An object is announced as added once, when its handle is allocated: the *)
(* data phase, a listing or the watcher do not announce it again.          *)
AnnouncedOnce ==
  [][\A i \in Len(events) + 1 .. Len(events') :
       events'[i].code = "ObjectAdded" => events'[i].arg >= nextHandle]_virtualVars

(* A refused operation leaves the handles and the event queue alone, and,  *)
(* unless the file system itself failed it half way, the files too.        *)
RefusalsChangeNothing ==
  [][LET failed == Len(replies') = 1 /\ replies = <<>> /\ replies'[1] # "OK"
     IN  failed => /\ UNCHANGED <<objects, events>>
                   /\ replies'[1] # "GeneralError" => UNCHANGED disk]_virtualVars

(* No operation of the host changes a file on a read-only storage.         *)
ReadOnlyIsUntouched ==
  [][Len(replies') > Len(replies) =>
       \A s \in ReadOnly : Below(disk, <<s>>) = Below(disk', <<s>>)
                           /\ \A p \in Below(disk, <<s>>) : disk'[p] = disk[p]]_virtualVars

(* Once the watcher has caught up, no handle is left for a file that is    *)
(* gone, in whatever order uploads, deletes, listings, rescans, changes    *)
(* outside MTP and their late notifications met.                           *)
NoPhantoms ==
  (notes = <<>> /\ pauses = 0 /\ dropped = <<>>) =>
    \A h \in DOMAIN objects : Has(disk, objects[h].path)

(* Harnesses that change files under a pause guard, drain and rescan       *)
(* compose: when the last guard is gone the tracked tree is what is on     *)
(* disk, and no stale notification takes it apart afterwards.              *)
HarnessesCompose ==
  pauses = 0 => {objects[h].path : h \in DOMAIN objects} = {p \in DOMAIN disk : Len(p) > 1}

(* Handles and events can be trusted: a handle names one object for ever,  *)
(* and an object is announced as added when it gets its handle, once.      *)
HandlesAreTruthful == HandlesStayFresh /\ AnnouncedOnce

(* An operation that is refused, or that names a read-only storage, leaves *)
(* what it was refused to change as it was.                                *)
RefusalsAreClean == RefusalsChangeNothing /\ ReadOnlyIsUntouched
=============================================================================
