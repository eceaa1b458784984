---------------------------- MODULE UsbObjects ----------------------------
(***************************************************************************)
(* Changes to a device's objects over USB (mtp/backend/usb.rs and          *)
(* mtp/storage.rs): uploads in two transactions, folders, copies with the  *)
(* check of the destination before and of the copy after, deletes, moves   *)
(* and renames, by several tasks on one session, while the phone changes   *)
(* its files too.                                                          *)
(*                                                                         *)
(* A step is one transaction of the session, which SerialRpc says is       *)
(* carried out alone.  The device is external: what it may answer is what  *)
(* the code in src/ provides for.                                          *)
(***************************************************************************)
EXTENDS Naturals, Sequences, FiniteSets, Functions

CONSTANTS
  Writers,       \* tasks
  ItemNames,     \* names, as the device compares them
  Fold(_),       \* to_lowercase
  LongNames,     \* names over MAX_NAME_UNITS
  Places,        \* handles of the folders, the root 0 among them
  Seeds,         \* the files there at first: handle -> record
  CopyStyles,    \* how a device copies onto a taken name: "refuses", "android" or "echoes"
  JobKinds,      \* what the tasks do
  PhonyHandle,   \* 0xFFFF, which names nothing
  MaxItem,       \* how many handles the device hands out
  MaxPhone,      \* how many changes the phone makes
  MaxJobs        \* how many calls a task makes

Nothing == 0         \* no object
NoData == "empty"    \* the contents of a file that waits for its data

ASSUME ObjectsAssumption ==
  /\ Places \subseteq Nat /\ 0 \in Places /\ IsFiniteSet(Places)
  /\ PhonyHandle \in Nat /\ MaxItem \in Nat /\ MaxPhone \in Nat /\ MaxJobs \in Nat
  /\ PhonyHandle > MaxItem /\ \A p \in Places : p > PhonyHandle \/ p = 0
  /\ \E n \in 0 .. MaxItem : DOMAIN Seeds = 1 .. n
  /\ \A h \in DOMAIN Seeds :
       /\ Seeds[h] \in [name : ItemNames, place : Places, by : {Seeds[h].by}, data : {Seeds[h].data}]
       /\ Seeds[h].by[1] \notin Writers
  /\ LongNames \subseteq ItemNames /\ "phone" \notin Writers

VARIABLES
  items,     \* the device's objects: handle -> [name, place, by, data]
  nextItem,  \* the next handle it hands out
  awaiting,  \* the object the next SendObject fills
  style,     \* how it copies onto a taken name
  job,       \* the call of each task
  trail      \* what happened: see the properties

objectsVars == <<items, nextItem, awaiting, style, job, trail>>

NoJob == [kind |-> "none", at |-> "idle", made |-> 0, name |-> "", place |-> 0, source |-> 0,
          handle |-> 0, partial |-> 0, result |-> "none"]

ObjectsInit ==
  /\ items = Seeds /\ nextItem = 1 + Cardinality(DOMAIN Seeds)
  /\ awaiting = Nothing /\ style \in CopyStyles
  /\ job = [t \in Writers |-> NoJob]
  /\ trail = [phone |-> 0, disturbed |-> {}, unheard |-> {}, unseen |-> {}, clash |-> {}, clobbered |-> {}]

Items == DOMAIN items
In(place) == {h \in Items : items[h].place = place}
Named(place, name) == {h \in In(place) : items[h].name = name}
SameName(a, b) == a = b \/ Fold(a) = Fold(b)

Without(h) == [o \in Items \ {h} |-> items[o]]
With(h, item) == [o \in Items \cup {h} |-> IF o = h THEN item ELSE items[o]]

Item(name, place, by, data) == [name |-> name, place |-> place, by |-> by, data |-> data]

(* An object with that name comes to a place: copies that have looked there will not see it. *)
Arrives(place, name) ==
  {t \in Writers : /\ job[t].kind = "copy" /\ job[t].at = "copy"
                   /\ job[t].place = place /\ SameName(job[t].name, name)}

(* Who made an object: a task's n-th call. *)
ByJob(t) == <<t, job[t].made>>

Goes(t, at) == job' = [job EXCEPT ![t].at = at]
Fails(t) == job' = [job EXCEPT ![t].at = "done", ![t].result = "error"]
Succeeds(t, h) == job' = [job EXCEPT ![t].at = "done", ![t].result = "ok", ![t].handle = h]
-----------------------------------------------------------------------------
(* What a task may call.  A new name that is too long fails before anything is sent. *)
Refused(kind, name) == kind \in {"upload", "folder", "rename"} /\ name \in LongNames

Call(t, kind, name, place, source) ==
  /\ job[t].at \in {"idle", "done"} /\ job[t].made < MaxJobs
  /\ job' = [job EXCEPT ![t] =
       [NoJob EXCEPT !.kind = kind, !.name = name, !.place = place, !.source = source,
                     !.made = job[t].made + 1,
                     !.at = IF Refused(kind, name) THEN "done" ELSE "begin",
                     !.result = IF Refused(kind, name) THEN "error" ELSE "none"]]
  /\ trail' = [trail EXCEPT !.disturbed = @ \ {t}, !.unheard = @ \ {t}, !.clash = @ \ {t}]
  /\ UNCHANGED <<items, nextItem, awaiting, style>>

CallCreate(t) ==
  \E kind \in JobKinds \cap {"upload", "folder"}, name \in ItemNames, place \in Places :
    Call(t, kind, name, place, Nothing)

CallChange(t) ==
  \E kind \in JobKinds \cap {"delete", "move", "rename", "copy"}, source \in Items,
     place \in Places, name \in ItemNames :
    /\ kind # "rename" => name = items[source].name
    /\ kind \in {"delete", "rename"} => place = items[source].place
    /\ Call(t, kind, name, place, source)

Starts(t, kinds) == job[t].kind \in kinds /\ job[t].at = "begin"

(* SendObjectInfo by a task takes the place of what the device awaits for another. *)
Disturbs(t) == trail.disturbed \cup {u \in Writers \ {t} : job[u].kind = "upload" /\ job[u].at = "data"}

(* The device makes the object, and awaits its data if it is a file. *)
Creates(t) ==
  /\ nextItem <= MaxItem
  /\ items' = With(nextItem, Item(job[t].name, job[t].place, ByJob(t), NoData))
  /\ nextItem' = nextItem + 1
  /\ awaiting' = IF job[t].kind = "upload" THEN nextItem ELSE Nothing
  /\ UNCHANGED style

SendObjectInfo(t) ==
  /\ Starts(t, {"upload", "folder"})
  /\ Creates(t)
  /\ IF job[t].kind = "upload"
     THEN job' = [job EXCEPT ![t].at = "data", ![t].handle = nextItem]
     ELSE Succeeds(t, nextItem)
  /\ trail' = [trail EXCEPT !.disturbed = Disturbs(t),
                            !.clash = @ \cup Arrives(job[t].place, job[t].name)]

(* The device refuses, or the session fails before the command is taken. *)
SendObjectInfoRefused(t) ==
  /\ Starts(t, {"upload", "folder"})
  /\ Fails(t)
  /\ UNCHANGED <<items, nextItem, awaiting, style, trail>>

(* The object is made, but the response is lost or names no handle. *)
SendObjectInfoUnheard(t) ==
  /\ Starts(t, {"upload", "folder"})
  /\ Creates(t)
  /\ Fails(t)
  /\ trail' = [trail EXCEPT !.disturbed = Disturbs(t), !.unheard = @ \cup {t},
                            !.clash = @ \cup Arrives(job[t].place, job[t].name)]

(* Mutant: the error names no partial. *)
PartialOfNone(t) == [job EXCEPT ![t].at = "done", ![t].result = "error"]

PartialOf(t) == [job EXCEPT ![t].at = "done", ![t].result = "error", ![t].partial = job[t].handle]

(* Mutant: the upload ends with its first transaction. *)
SendObjectSkipped(t) ==
  /\ job[t].kind = "upload" /\ job[t].at = "data"
  /\ Succeeds(t, job[t].handle)
  /\ UNCHANGED <<items, nextItem, awaiting, style, trail>>

(* The data goes to the object the device awaits it for; the response may be lost. *)
SendObject(t) ==
  /\ job[t].kind = "upload" /\ job[t].at = "data" /\ awaiting \in Items
  /\ items' = [items EXCEPT ![awaiting].data = t]
  /\ awaiting' = Nothing
  /\ Succeeds(t, job[t].handle) \/ job' = PartialOf(t)
  /\ UNCHANGED <<nextItem, style, trail>>

(* NoValidObjectInfo, a failing source, a cancel from the progress callback, a failing
   transfer: the handle of phase 1 is surfaced. *)
SendObjectFails(t) ==
  /\ job[t].kind = "upload" /\ job[t].at = "data"
  /\ job' = PartialOf(t)
  /\ awaiting' \in {awaiting, Nothing}
  /\ UNCHANGED <<items, nextItem, style, trail>>
-----------------------------------------------------------------------------
(* Storage::copy_object and UsbBackend::copy_object, verify_copy. *)

CopyReadsName(t) ==
  /\ Starts(t, {"copy"})
  /\ IF job[t].source \in Items
     THEN job' = [job EXCEPT ![t].at = "siblings", ![t].name = items[job[t].source].name]
     ELSE Fails(t)
  /\ UNCHANGED <<items, nextItem, awaiting, style, trail>>

(* The objects of the destination that same_name takes for the copy's. *)
Rivals(t) == {h \in In(job[t].place) : SameName(items[h].name, job[t].name)}

(* Objects and the call that passes over them or writes over them. *)
Marks(t, handles) == {[by |-> ByJob(t), item |-> h] : h \in handles}

(* Mutant: names that differ in case are taken for different. *)
CopyChecksExactNames(t) ==
  /\ job[t].kind = "copy" /\ job[t].at = "siblings"
  /\ IF Named(job[t].place, job[t].name) # {} THEN Fails(t) ELSE Goes(t, "copy")
  /\ UNCHANGED <<items, nextItem, awaiting, style, trail>>

(* collect_in, one look here (UsbListing has its steps): it leaves out the objects the device
   could not describe, which do not block the copy, and is an error if it got none at all. *)
CopyChecksSiblings(t) ==
  /\ job[t].kind = "copy" /\ job[t].at = "siblings"
  /\ \E omitted \in SUBSET In(job[t].place) :
       IF Rivals(t) \ omitted # {} \/ (omitted # {} /\ omitted = In(job[t].place))
       THEN Fails(t) /\ UNCHANGED trail
       ELSE Goes(t, "copy") /\ trail' = [trail EXCEPT !.unseen = @ \cup Marks(t, Rivals(t))]
  /\ UNCHANGED <<items, nextItem, awaiting, style>>

(* What CopyObject does on the device, and the handle it answers with, unless that is lost. *)
CopyObject(t) ==
  LET j == job[t]
      name == items[j.source].name
      exact == Named(j.place, name)
      variants == {h \in In(j.place) : SameName(items[h].name, name)} \ exact
      answered(h) == job' = [job EXCEPT ![t].at = "verify", ![t].handle = h] \/ Fails(t)
      overwritten(S) == [o \in Items |-> IF o \in S THEN [items[o] EXCEPT !.data = items[j.source].data]
                                         ELSE items[o]]
      made == [o \in Items \cup {nextItem} |->
                 IF o = nextItem THEN Item(name, j.place, ByJob(t), items[j.source].data)
                 ELSE overwritten(variants)[o]]
  IN  /\ j.kind = "copy" /\ j.at = "copy" /\ j.source \in Items
      /\ \/ /\ style = "refuses" /\ exact \cup variants # {}
            /\ Fails(t) /\ UNCHANGED <<items, nextItem, trail>>
         \/ /\ style = "android" /\ exact # {}
            /\ items' = overwritten(exact)
            /\ trail' = [trail EXCEPT !.clobbered = @ \cup Marks(t, exact)]
            /\ answered(PhonyHandle) /\ UNCHANGED nextItem
         \/ /\ style = "echoes"
            /\ answered(j.source) /\ UNCHANGED <<items, nextItem, trail>>
         \/ /\ style = "android" => exact = {}
            /\ style = "refuses" => exact \cup variants = {}
            /\ nextItem <= MaxItem /\ nextItem' = nextItem + 1
            /\ items' = IF style = "android" THEN made ELSE With(nextItem, made[nextItem])
            /\ trail' = [trail EXCEPT
                 !.clobbered = @ \cup Marks(t, IF style = "android" THEN variants ELSE {}),
                 !.clash = @ \cup (Arrives(j.place, name) \ {t})]
            /\ answered(nextItem)
      /\ UNCHANGED <<awaiting, style>>

CopyFails(t) ==
  /\ job[t].kind = "copy" /\ job[t].at \in {"begin", "siblings", "copy", "verify"}
  /\ Fails(t)
  /\ UNCHANGED <<items, nextItem, awaiting, style, trail>>

(* Mutant: any object the handle names will do. *)
IsCopyIfThere(t, h) == h \in Items

(* A handle that is the source's, names nothing or is elsewhere is no copy. *)
IsCopy(t, h) == h # job[t].source /\ h \in Items /\ items[h].place = job[t].place

VerifyCopy(t) ==
  /\ job[t].kind = "copy" /\ job[t].at = "verify"
  /\ IF IsCopy(t, job[t].handle) THEN Succeeds(t, job[t].handle) ELSE Fails(t)
  /\ UNCHANGED <<items, nextItem, awaiting, style, trail>>
-----------------------------------------------------------------------------
(* One transaction each, whose response may be lost when the device has done what it asks. *)
Answered(t, h) == Succeeds(t, h) \/ Fails(t)

DeleteObject(t) ==
  /\ Starts(t, {"delete"})
  /\ \/ /\ job[t].source \in Items
        /\ items' = Without(job[t].source)
        /\ awaiting' = IF awaiting = job[t].source THEN Nothing ELSE awaiting
        /\ Answered(t, job[t].source)
     \/ Fails(t) /\ UNCHANGED <<items, awaiting>>
  /\ UNCHANGED <<nextItem, style, trail>>

(* Mutant: the object's handle is sent where the new parent's belongs. *)
RelocateSwapped(h, place, name) ==
  /\ items' = [items EXCEPT ![h].place = h, ![h].name = name]
  /\ trail' = trail

(* The device gives an object a new place or name. *)
Relocate(h, place, name) ==
  /\ items' = [items EXCEPT ![h].place = place, ![h].name = name]
  /\ trail' = [trail EXCEPT !.clash = @ \cup Arrives(place, name) \cup
       {t \in Writers : /\ job[t].kind = "copy" /\ job[t].at \in {"siblings", "copy"}
                        /\ job[t].source = h /\ name # job[t].name}]

MoveObject(t) ==
  /\ Starts(t, {"move"})
  /\ \/ /\ job[t].source \in Items
        /\ Relocate(job[t].source, job[t].place, items[job[t].source].name)
        /\ Answered(t, job[t].source)
     \/ Fails(t) /\ UNCHANGED <<items, trail>>
  /\ UNCHANGED <<nextItem, awaiting, style>>

RenameObject(t) ==
  /\ Starts(t, {"rename"})
  /\ \/ /\ job[t].source \in Items
        /\ Relocate(job[t].source, items[job[t].source].place, job[t].name)
        /\ Answered(t, job[t].source)
     \/ Fails(t) /\ UNCHANGED <<items, trail>>
  /\ UNCHANGED <<nextItem, awaiting, style>>

(* Somebody makes a file on the phone. *)
PhoneCreates(name, place) ==
  /\ trail.phone < MaxPhone /\ nextItem <= MaxItem
  /\ items' = With(nextItem, Item(name, place, <<"phone", trail.phone>>, "photo"))
  /\ nextItem' = nextItem + 1
  /\ trail' = [trail EXCEPT !.phone = @ + 1, !.clash = @ \cup Arrives(place, name)]
  /\ UNCHANGED <<awaiting, style, job>>

Works(t) ==
  \/ SendObjectInfo(t) \/ SendObjectInfoRefused(t) \/ SendObjectInfoUnheard(t)
  \/ SendObject(t) \/ SendObjectFails(t)
  \/ CopyReadsName(t) \/ CopyChecksSiblings(t) \/ CopyObject(t) \/ CopyFails(t) \/ VerifyCopy(t)
  \/ DeleteObject(t) \/ MoveObject(t) \/ RenameObject(t)

ObjectsNext ==
  \/ \E t \in Writers : CallCreate(t) \/ CallChange(t) \/ Works(t)
  \/ \E name \in ItemNames, place \in Places : PhoneCreates(name, place)

ObjectsSpec == ObjectsInit /\ [][ObjectsNext]_objectsVars
-----------------------------------------------------------------------------
(* The shape of the device and of the calls: every handle in use was handed out. *)
ObjectsTypeOK ==
  /\ Items \subseteq 1 .. nextItem - 1 /\ nextItem \in 1 .. MaxItem + 1
  /\ awaiting \in 0 .. MaxItem /\ style \in CopyStyles
  /\ \A h \in Items : items[h].name \in ItemNames /\ items[h].place \in Places
  /\ \A t \in Writers :
       /\ job[t].at \in {"idle", "begin", "data", "siblings", "copy", "verify", "done"}
       /\ job[t].result \in {"none", "ok", "error"}
       /\ job[t].handle \in 0 .. MaxItem \cup {PhonyHandle} /\ job[t].partial \in 0 .. MaxItem

Uploaded(t) == job[t].kind = "upload" /\ job[t].result = "ok"
Overwritten(h) == \E c \in trail.clobbered : c.item = h

(* `Storage` may "be used from multiple tasks" (storage.rs): an upload that succeeded left
   its own bytes in the object it names. *)
UploadsKeepTheirBytes ==
  \A t \in Writers : Uploaded(t) /\ job[t].handle \in Items /\ ~Overwritten(job[t].handle) =>
    items[job[t].handle].data = t

(* The same for an upload between whose two transactions nobody else began to upload or made
   a folder, whatever else was deleted, moved or copied meanwhile. *)
AloneUploadsKeepTheirBytes ==
  \A t \in Writers \ trail.disturbed :
    Uploaded(t) /\ job[t].handle \in Items /\ ~Overwritten(job[t].handle) =>
      items[job[t].handle].data = t

(* No object is left without its data unannounced: the upload it belongs to goes on, names it
   as its object or as what it left behind, or never heard that it was made. *)
PartialsAreSurfaced ==
  \A h \in Items, t \in Writers :
    (items[h].data = NoData /\ items[h].by = ByJob(t) /\ job[t].kind = "upload") =>
      \/ job[t].at = "data" /\ job[t].handle = h
      \/ job[t].result = "ok" /\ job[t].handle = h
      \/ job[t].result = "error" /\ job[t].partial = h
      \/ t \in trail.unheard

(* The handle of a copy names an object this copy made, wherever the device's answer came
   from and whoever moved the source in between; it may have been renamed or moved since. *)
CopyIsReal ==
  \A t \in Writers : job[t].kind = "copy" /\ job[t].result = "ok" /\ job[t].handle \in Items =>
    items[job[t].handle].by = ByJob(t) /\ job[t].handle # job[t].source

(* A copy writes over an object only if one of that name came to the destination after the
   copy had looked there, or the source got another name after the copy had read it, or the
   device could not describe the object to that look: "Objects in the destination the device
   couldn't describe [...] have no known name and don't block the copy" (storage.rs). *)
ClobberNeedsRace ==
  \A c \in trail.clobbered, t \in Writers : c.by = ByJob(t) => t \in trail.clash \/ c \in trail.unseen

(* What an upload returns is true: the object it names has its bytes, and an object without
   its data has been named to the caller. *)
UploadsAreTruthful == AloneUploadsKeepTheirBytes /\ PartialsAreSurfaced

(* What a copy returns is a copy, and it costs nothing that the look before it showed. *)
CopiesAreTruthful == CopyIsReal /\ ClobberNeedsRace
============================================================================
