---------------------------- MODULE ObjectProofs ----------------------------
(***************************************************************************)
(* Uploads and copies tell the truth, proved of UsbObjects for any tasks,  *)
(* names, folders, first files and styles of copying.                      *)
(*                                                                         *)
(* Neither promise is inductive.  UploadsAreTruthful needs to know whose   *)
(* data the device awaits between the two transactions of an upload        *)
(* (BytesInv), and that every object an upload made is one it names        *)
(* (PartialInv), which rests on makers' marks never being used twice       *)
(* (MadeInv).  CopiesAreTruthful needs what a copy may be answered with    *)
(* before it has verified it (CopyInv), and what its look at the           *)
(* destination still says while it waits to copy (LookInv).                *)
(*                                                                         *)
(* Most steps are of one task, and the invariant is of each: OthersKeep    *)
(* carries a task's part over any step that spares its call.               *)
(***************************************************************************)
EXTENDS UsbObjects, FiniteSetTheorems, TLAPS

(* The shape of objects, calls and what happened. *)
Makers == ((Writers \cup {"phone"}) \X Nat) \cup {Seeds[h].by : h \in DOMAIN Seeds}
Contents == {NoData, "photo"} \cup Writers \cup {Seeds[h].data : h \in DOMAIN Seeds}

ItemShape == [name : ItemNames, place : Places, by : Makers, data : Contents]

JobShape ==
  [kind : {"none", "upload", "folder", "delete", "move", "rename", "copy"},
   at : {"idle", "begin", "data", "siblings", "copy", "verify", "done"},
   made : Nat, name : ItemNames \cup {""}, place : Places, source : Nat, handle : Nat,
   partial : Nat, result : {"none", "ok", "error"}]

TrailShape ==
  [phone : Nat, disturbed : SUBSET Writers, unheard : SUBSET Writers, clash : SUBSET Writers,
   unseen : SUBSET [by : Writers \X Nat, item : Nat],
   clobbered : SUBSET [by : Writers \X Nat, item : Nat]]

ObjectsShape ==
  /\ nextItem \in 1 .. MaxItem + 1 /\ Items \subseteq 1 .. nextItem - 1
  /\ \A h \in Items : items[h] \in ItemShape
  /\ awaiting \in 0 .. nextItem - 1 /\ style \in CopyStyles
  /\ job \in [Writers -> JobShape] /\ trail \in TrailShape

(* What a call names was handed out before, and its step is one of its kind. *)
HandleInv(t) ==
  LET j == job[t] IN
  /\ j.source < nextItem /\ j.partial < nextItem
  /\ j.handle < nextItem \/ (j.kind = "copy" /\ j.handle = PhonyHandle)
  /\ j.at # "idle" => j.name \in ItemNames
  /\ j.at = "data" => j.kind = "upload"
  /\ j.at \in {"siblings", "copy", "verify"} => j.kind = "copy"
  /\ j.result # "none" => j.at = "done"
  /\ j.kind = "upload" /\ (j.at = "data" \/ j.result = "ok") => j.handle # Nothing

(* What a task made and wrote over, it did in this call or an earlier one. *)
MadeInv(t) ==
  /\ \A h \in Items : items[h].by[1] = t => items[h].by[2] <= job[t].made
  /\ \A c \in trail.clobbered : c.by[1] = t => c.by[2] <= job[t].made

(* Whatever an upload made it names, unless it did not hear of it. *)
PartialInv(t) ==
  \A h \in Items : (items[h].by = ByJob(t) /\ job[t].kind = "upload") =>
    \/ job[t].at = "data" /\ job[t].handle = h
    \/ job[t].result = "ok" /\ job[t].handle = h
    \/ job[t].result = "error" /\ job[t].partial = h
    \/ t \in trail.unheard

(* The device awaits the data of an upload nobody came between for its own *)
(* object or for none, and for another one once it has it.                 *)
BytesInv(t) ==
  job[t].kind = "upload" /\ t \notin trail.disturbed =>
    /\ job[t].at = "data" => awaiting \in {job[t].handle, Nothing}
    /\ job[t].result = "ok" =>
         /\ awaiting # job[t].handle
         /\ job[t].handle \in Items =>
              Overwritten(job[t].handle) \/ items[job[t].handle].data = t

(* The device answers a copy with the source, or with what the copy made, if anything. *)
Mine(t) == job[t].handle \in Items => items[job[t].handle].by = ByJob(t)

CopyInv(t) ==
  job[t].kind = "copy" =>
    /\ job[t].at = "verify" => job[t].handle = job[t].source \/ Mine(t)
    /\ job[t].result = "ok" => job[t].handle # job[t].source /\ Mine(t)

(* What a copy read and saw is still so, unless there was a race: the only *)
(* objects in its way are those its look could not see.                    *)
LookInv(t) ==
  t \notin trail.clash =>
    /\ \A c \in trail.clobbered : c.by = ByJob(t) => c \in trail.unseen
    /\ job[t].kind = "copy" /\ job[t].at \in {"siblings", "copy"} /\ job[t].source \in Items =>
         items[job[t].source].name = job[t].name
    /\ job[t].kind = "copy" /\ job[t].at = "copy" =>
         \A h \in In(job[t].place) : SameName(items[h].name, job[t].name) =>
           [by |-> ByJob(t), item |-> h] \in trail.unseen

WriterInv(t) ==
  HandleInv(t) /\ MadeInv(t) /\ PartialInv(t) /\ BytesInv(t) /\ CopyInv(t) /\ LookInv(t)

ObjectsInv == ObjectsShape /\ \A t \in Writers : WriterInv(t)
-----------------------------------------------------------------------------
(* Types of a call, and the mark of what it makes. *)
LEMMA JobTypes ==
  ASSUME ObjectsShape, NEW t \in Writers
  PROVE  /\ job[t] \in JobShape /\ job[t].made \in Nat /\ job[t].place \in Places
         /\ job[t].source \in Nat /\ job[t].handle \in Nat /\ job[t].partial \in Nat
         /\ ByJob(t) \in Writers \X Nat /\ ByJob(t) \in Makers
         /\ ByJob(t)[1] = t /\ ByJob(t)[2] = job[t].made
         /\ nextItem \in Nat /\ awaiting \in Nat
<1>1. job[t] \in JobShape
  BY DEF ObjectsShape
<1>2. /\ job[t].made \in Nat /\ job[t].place \in Places
      /\ job[t].source \in Nat /\ job[t].handle \in Nat /\ job[t].partial \in Nat
  BY <1>1 DEF JobShape
<1>3. ByJob(t) \in Writers \X Nat /\ ByJob(t) \in Makers
  BY <1>2 DEF ByJob, Makers
<1>4. ByJob(t)[1] = t /\ ByJob(t)[2] = job[t].made
  BY DEF ByJob
<1>5. nextItem \in Nat /\ awaiting \in Nat
  BY ObjectsAssumption DEF ObjectsShape
<1> QED BY <1>1, <1>2, <1>3, <1>4, <1>5

LEMMA MarksTypes ==
  ASSUME ObjectsShape, NEW t \in Writers, NEW S, S \subseteq Items
  PROVE  Marks(t, S) \subseteq [by : Writers \X Nat, item : Nat]
<1>1. ByJob(t) \in Writers \X Nat
  BY JobTypes
<1>2. S \subseteq Nat
  BY DEF ObjectsShape
<1>3. \A h \in S : [by |-> ByJob(t), item |-> h] \in [by : Writers \X Nat, item : Nat]
  BY <1>1, <1>2
<1> QED BY <1>3 DEF Marks

(* What a step of others may do to a task's call: nothing to the call      *)
(* itself, nothing to what it made but its place and name and, through     *)
(* what the device awaits or an overwriting copy, its data.                *)
Spares(u) ==
  /\ job'[u] = job[u] /\ nextItem' \in Nat /\ nextItem <= nextItem' /\ nextItem <= MaxItem + 1
  /\ \A h \in Items' :
       \/ /\ h \in Items /\ items'[h].by = items[h].by
          /\ items'[h].data = items[h].data \/ h = awaiting \/ Overwritten(h)'
       \/ h = nextItem /\ h <= MaxItem /\ items'[h].by[1] # u
  /\ awaiting' \in {awaiting, Nothing, nextItem}
  /\ u \in trail'.disturbed \/ job[u].at # "data" \/ job[u].kind # "upload" \/ awaiting' \in {awaiting, Nothing}
  /\ u \in trail.disturbed => u \in trail'.disturbed
  /\ u \in trail.unheard => u \in trail'.unheard
  /\ u \in trail.clash => u \in trail'.clash
  /\ trail.unseen \subseteq trail'.unseen /\ trail.clobbered \subseteq trail'.clobbered
  /\ \A c \in trail'.clobbered : c \in trail.clobbered \/ c.by[1] # u

(* What a copy read and saw, a step of others leaves so or marks as a race. *)
LeavesLook(u) ==
  u \notin trail'.clash /\ job[u].kind = "copy" =>
    /\ job[u].at \in {"siblings", "copy"} /\ job[u].source \in Items' =>
         job[u].source \in Items /\ items'[job[u].source].name = items[job[u].source].name
    /\ job[u].at = "copy" =>
         \A h \in Items' : items'[h].place = job[u].place /\ SameName(items'[h].name, job[u].name) =>
           h \in Items /\ items[h].place = job[u].place /\ SameName(items[h].name, job[u].name)

LEMMA OthersKeep ==
  ASSUME ObjectsInv, NEW u \in Writers, Spares(u), LeavesLook(u)
  PROVE  WriterInv(u)'
<1> USE DEF Nothing
<1>1. /\ job[u] \in JobShape /\ job[u].made \in Nat /\ job[u].source \in Nat
      /\ job[u].handle \in Nat /\ job[u].partial \in Nat
      /\ ByJob(u)[1] = u /\ ByJob(u)[2] = job[u].made
      /\ nextItem \in Nat /\ awaiting \in Nat
  BY JobTypes DEF ObjectsInv
<1>2. WriterInv(u)
  BY DEF ObjectsInv
<1>3. job'[u] = job[u] /\ ByJob(u)' = ByJob(u)
  BY DEF Spares, ByJob
<1>4. HandleInv(u)'
  BY <1>1, <1>2, <1>3 DEF WriterInv, HandleInv, Spares
<1>5. MadeInv(u)'
  BY <1>1, <1>2, <1>3 DEF WriterInv, MadeInv, Spares
<1>6. PartialInv(u)'
  BY <1>1, <1>2, <1>3 DEF WriterInv, PartialInv, Spares
<1>7. \A h : Overwritten(h) => Overwritten(h)'
  BY DEF Overwritten, Spares
<1>8. job[u].handle # nextItem \/ nextItem > MaxItem
  BY <1>1, <1>2, ObjectsAssumption DEF WriterInv, HandleInv, Spares
<1>9. BytesInv(u)'
  <2>1. SUFFICES ASSUME job[u].kind = "upload", u \notin trail'.disturbed
                 PROVE  /\ job[u].at = "data" => awaiting' \in {job[u].handle, Nothing}
                        /\ job[u].result = "ok" =>
                             /\ awaiting' # job[u].handle
                             /\ job[u].handle \in Items' =>
                                  Overwritten(job[u].handle)' \/ items'[job[u].handle].data = u
    BY <1>3 DEF BytesInv
  <2>2. u \notin trail.disturbed
    BY <2>1 DEF Spares
  <2>3. job[u].at = "data" => awaiting' \in {job[u].handle, Nothing}
    BY <1>2, <2>1, <2>2 DEF WriterInv, BytesInv, Spares
  <2>4. ASSUME job[u].result = "ok"
        PROVE  /\ awaiting' # job[u].handle
               /\ job[u].handle \in Items' =>
                    Overwritten(job[u].handle)' \/ items'[job[u].handle].data = u
    <3>1. /\ awaiting # job[u].handle
          /\ job[u].handle \in Items =>
               Overwritten(job[u].handle) \/ items[job[u].handle].data = u
      BY <1>2, <2>1, <2>2, <2>4 DEF WriterInv, BytesInv
    <3>2. job[u].handle # Nothing /\ job[u].handle # nextItem
      BY <1>1, <1>2, <2>1, <2>4 DEF WriterInv, HandleInv
    <3> QED BY <1>7, <3>1, <3>2 DEF Spares
  <2> QED BY <2>3, <2>4
<1>10. job[u].handle \in Items' =>
         job[u].handle \in Items /\ items'[job[u].handle].by = items[job[u].handle].by
  BY <1>8, <1>1, ObjectsAssumption DEF Spares
<1>11. CopyInv(u)'
  BY <1>2, <1>3, <1>10 DEF WriterInv, CopyInv, Mine
<1>12. LookInv(u)'
  BY <1>1, <1>2, <1>3 DEF WriterInv, LookInv, Spares, LeavesLook, In
<1> QED BY <1>4, <1>5, <1>6, <1>9, <1>11, <1>12 DEF WriterInv

(* What becomes of the calls when t's changes. *)
Steps(t) == job' \in [Writers -> JobShape] /\ \A u \in Writers : u # t => job'[u] = job[u]

LEMMA FailsTypes ==
  ASSUME ObjectsShape, NEW t \in Writers, Fails(t)
  PROVE  /\ Steps(t) /\ job'[t].at = "done" /\ job'[t].result = "error"
         /\ job'[t].kind = job[t].kind /\ job'[t].made = job[t].made /\ job'[t].name = job[t].name
         /\ job'[t].place = job[t].place /\ job'[t].source = job[t].source
         /\ job'[t].handle = job[t].handle /\ job'[t].partial = job[t].partial
<1>1. job[t] \in JobShape
  BY DEF ObjectsShape
<1> DEFINE j == [job[t] EXCEPT !.at = "done", !.result = "error"]
<1>2. j \in JobShape
  BY <1>1 DEF JobShape
<1>3. job' = [job EXCEPT ![t] = j]
  BY DEF ObjectsShape, Fails
<1>4. job'[t] = j /\ Steps(t)
  BY <1>2, <1>3 DEF ObjectsShape, Steps
<1>5. /\ j.at = "done" /\ j.result = "error"
      /\ j.kind = job[t].kind /\ j.made = job[t].made /\ j.name = job[t].name
      /\ j.place = job[t].place /\ j.source = job[t].source
      /\ j.handle = job[t].handle /\ j.partial = job[t].partial
  BY <1>1 DEF JobShape
<1> QED BY <1>4, <1>5

LEMMA SucceedsTypes ==
  ASSUME ObjectsShape, NEW t \in Writers, NEW h \in Nat, Succeeds(t, h)
  PROVE  /\ Steps(t) /\ job'[t].at = "done" /\ job'[t].result = "ok" /\ job'[t].handle = h
         /\ job'[t].kind = job[t].kind /\ job'[t].made = job[t].made /\ job'[t].name = job[t].name
         /\ job'[t].place = job[t].place /\ job'[t].source = job[t].source
         /\ job'[t].partial = job[t].partial
<1>1. job[t] \in JobShape
  BY DEF ObjectsShape
<1> DEFINE j == [job[t] EXCEPT !.at = "done", !.result = "ok", !.handle = h]
<1>2. j \in JobShape
  BY <1>1 DEF JobShape
<1>3. job' = [job EXCEPT ![t] = j]
  BY DEF ObjectsShape, Succeeds
<1>4. job'[t] = j /\ Steps(t)
  BY <1>2, <1>3 DEF ObjectsShape, Steps
<1>5. /\ j.at = "done" /\ j.result = "ok" /\ j.handle = h
      /\ j.kind = job[t].kind /\ j.made = job[t].made /\ j.name = job[t].name
      /\ j.place = job[t].place /\ j.source = job[t].source /\ j.partial = job[t].partial
  BY <1>1 DEF JobShape
<1> QED BY <1>4, <1>5

LEMMA PartialTypes ==
  ASSUME ObjectsShape, NEW t \in Writers, job' = PartialOf(t)
  PROVE  /\ Steps(t) /\ job'[t].at = "done" /\ job'[t].result = "error" /\ job'[t].partial = job[t].handle
         /\ job'[t].kind = job[t].kind /\ job'[t].made = job[t].made /\ job'[t].name = job[t].name
         /\ job'[t].place = job[t].place /\ job'[t].source = job[t].source
         /\ job'[t].handle = job[t].handle
<1>1. job[t] \in JobShape
  BY DEF ObjectsShape
<1> DEFINE j == [job[t] EXCEPT !.at = "done", !.result = "error", !.partial = job[t].handle]
<1>2. j \in JobShape
  BY <1>1 DEF JobShape
<1>3. job' = [job EXCEPT ![t] = j]
  BY DEF PartialOf, ObjectsShape
<1>4. job'[t] = j /\ Steps(t)
  BY <1>2, <1>3 DEF ObjectsShape, Steps
<1>5. /\ j.at = "done" /\ j.result = "error" /\ j.partial = job[t].handle
      /\ j.kind = job[t].kind /\ j.made = job[t].made /\ j.name = job[t].name
      /\ j.place = job[t].place /\ j.source = job[t].source /\ j.handle = job[t].handle
  BY <1>1 DEF JobShape
<1> QED BY <1>4, <1>5

LEMMA AnsweredTypes ==
  ASSUME ObjectsShape, NEW t \in Writers, NEW h \in Nat, Answered(t, h)
  PROVE  /\ Steps(t) /\ job'[t].at = "done"
         /\ job'[t].kind = job[t].kind /\ job'[t].made = job[t].made /\ job'[t].name = job[t].name
         /\ job'[t].place = job[t].place /\ job'[t].source = job[t].source
         /\ job'[t].partial = job[t].partial
         /\ \/ job'[t].result = "ok" /\ job'[t].handle = h
            \/ job'[t].result = "error" /\ job'[t].handle = job[t].handle
  BY SucceedsTypes, FailsTypes DEF Answered

LEMMA GoesTypes ==
  ASSUME ObjectsShape, NEW t \in Writers, NEW at \in {"siblings", "copy"}, Goes(t, at)
  PROVE  /\ Steps(t) /\ job'[t].at = at
         /\ job'[t].kind = job[t].kind /\ job'[t].made = job[t].made /\ job'[t].name = job[t].name
         /\ job'[t].place = job[t].place /\ job'[t].source = job[t].source
         /\ job'[t].handle = job[t].handle /\ job'[t].partial = job[t].partial
         /\ job'[t].result = job[t].result
<1>1. job[t] \in JobShape
  BY DEF ObjectsShape
<1> DEFINE j == [job[t] EXCEPT !.at = at]
<1>2. j \in JobShape
  BY <1>1 DEF JobShape
<1>3. job' = [job EXCEPT ![t] = j]
  BY DEF ObjectsShape, Goes
<1>4. job'[t] = j /\ Steps(t)
  BY <1>2, <1>3 DEF ObjectsShape, Steps
<1>5. /\ j.at = at /\ j.kind = job[t].kind /\ j.made = job[t].made /\ j.name = job[t].name
      /\ j.place = job[t].place /\ j.source = job[t].source
      /\ j.handle = job[t].handle /\ j.partial = job[t].partial /\ j.result = job[t].result
  BY <1>1 DEF JobShape
<1> QED BY <1>4, <1>5

(* A step of t that only its own call shows. *)
LEMMA OwnStep ==
  ASSUME ObjectsInv, NEW t \in Writers, Steps(t),
         UNCHANGED <<items, nextItem, awaiting, style, trail>>, WriterInv(t)'
  PROVE  ObjectsInv'
<1>1. ObjectsShape'
  BY DEF ObjectsInv, ObjectsShape, Items, Steps
<1>2. ASSUME NEW u \in Writers, u # t PROVE WriterInv(u)'
  <2>1. job'[u] = job[u]
    BY <1>2 DEF Steps
  <2> QED BY <2>1 DEF ObjectsInv, WriterInv, HandleInv, MadeInv, PartialInv, BytesInv, CopyInv,
          LookInv, Items, ByJob, Overwritten, Mine, In
<1> QED BY <1>1, <1>2 DEF ObjectsInv

LEMMA NoJobFields ==
  /\ NoJob.kind = "none" /\ NoJob.at = "idle" /\ NoJob.source = 0
  /\ NoJob.handle = 0 /\ NoJob.partial = 0 /\ NoJob.result = "none"
  /\ NoJob \in JobShape
  BY ObjectsAssumption DEF NoJob, JobShape

LEMMA ObjectsBegin == ObjectsInit => ObjectsInv
<1> SUFFICES ASSUME ObjectsInit PROVE ObjectsInv
  OBVIOUS
<1> USE DEF Nothing
<1>1. PICK n \in 0 .. MaxItem : DOMAIN Seeds = 1 .. n
  BY ObjectsAssumption
<1>2. n \in Nat /\ Cardinality(DOMAIN Seeds) = n /\ nextItem = 1 + n
  <2>1. n \in Nat
    BY ObjectsAssumption
  <2>2. Cardinality(1 .. n) = n
    BY <2>1, FS_Interval
  <2> QED BY <1>1, <2>1, <2>2 DEF ObjectsInit
<1>3. NoJob \in JobShape
  BY NoJobFields
<1>4. \A h \in Items : items[h] \in ItemShape
  BY ObjectsAssumption DEF ObjectsInit, Items, ItemShape, Makers, Contents
<1>5. trail \in TrailShape
  BY DEF ObjectsInit, TrailShape
<1>6. ObjectsShape
  BY <1>1, <1>2, <1>3, <1>4, <1>5, ObjectsAssumption DEF ObjectsShape, ObjectsInit, Items
<1>7. ASSUME NEW t \in Writers PROVE WriterInv(t)
  <2>1. job[t] = NoJob /\ items = Seeds /\ trail.clobbered = {}
    BY DEF ObjectsInit
  <2>2. \A h \in Items : items[h].by[1] # t
    BY <2>1, ObjectsAssumption DEF Items
  <2>3. \A h \in Items : items[h].by # ByJob(t)
    BY <2>2, <1>6, JobTypes
  <2>4. /\ job[t].kind = "none" /\ job[t].at = "idle" /\ job[t].source = 0
        /\ job[t].handle = 0 /\ job[t].partial = 0 /\ job[t].result = "none"
    BY <2>1, NoJobFields
  <2>5. HandleInv(t)
    BY <1>2, <2>4 DEF HandleInv
  <2>6. MadeInv(t) /\ PartialInv(t) /\ BytesInv(t) /\ CopyInv(t) /\ LookInv(t)
    BY <2>1, <2>2, <2>3, <2>4 DEF MadeInv, PartialInv, BytesInv, CopyInv, LookInv
  <2> QED BY <2>5, <2>6 DEF WriterInv
<1> QED BY <1>6, <1>7 DEF ObjectsInv

(* A call begins: what its task made before, it made in earlier calls. *)
LEMMA KeepsCall ==
  ASSUME ObjectsInv, NEW t \in Writers,
         NEW kind \in {"upload", "folder", "delete", "move", "rename", "copy"},
         NEW name \in ItemNames, NEW place \in Places, NEW source \in Nat, source < nextItem,
         Call(t, kind, name, place, source)
  PROVE  ObjectsInv'
<1> DEFINE j == [NoJob EXCEPT !.kind = kind, !.name = name, !.place = place, !.source = source,
                     !.made = job[t].made + 1,
                     !.at = IF Refused(kind, name) THEN "done" ELSE "begin",
                     !.result = IF Refused(kind, name) THEN "error" ELSE "none"]
<1>1. /\ job[t].made \in Nat /\ nextItem \in Nat /\ nextItem >= 1
      /\ ObjectsShape /\ \A u \in Writers : WriterInv(u)
  BY JobTypes DEF ObjectsInv, ObjectsShape
<1>2. /\ job' = [job EXCEPT ![t] = j]
      /\ trail' = [trail EXCEPT !.disturbed = @ \ {t}, !.unheard = @ \ {t}, !.clash = @ \ {t}]
      /\ UNCHANGED <<items, nextItem, awaiting, style>>
  BY DEF Call
<1>3. /\ j.kind = kind /\ j.name = name /\ j.place = place /\ j.source = source
      /\ j.made = job[t].made + 1 /\ j.at \in {"done", "begin"} /\ j.result \in {"none", "error"}
      /\ j.result # "none" => j.at = "done"
      /\ j.handle = 0 /\ j.partial = 0 /\ j \in JobShape
  <2>1. NoJob \in JobShape /\ NoJob.handle = 0 /\ NoJob.partial = 0
    BY NoJobFields
  <2>2. job[t].made + 1 \in Nat
    BY <1>1
  <2>3. j \in JobShape
    <3>1. ASSUME NEW n \in Nat, NEW a \in {"done", "begin"}, NEW r \in {"none", "error"}
          PROVE  [NoJob EXCEPT !.kind = kind, !.name = name, !.place = place, !.source = source,
                               !.made = n, !.at = a, !.result = r] \in JobShape
      BY <2>1 DEF JobShape
    <3>2. /\ (IF Refused(kind, name) THEN "done" ELSE "begin") \in {"done", "begin"}
          /\ (IF Refused(kind, name) THEN "error" ELSE "none") \in {"none", "error"}
      OBVIOUS
    <3> QED BY ONLY <2>2, <3>1, <3>2, Zenon
  <2>4. j.kind = kind /\ j.name = name /\ j.place = place
    BY <2>1 DEF JobShape
  <2>5. j.source = source /\ j.made = job[t].made + 1
    BY <2>1 DEF JobShape
  <2>6. /\ j.at \in {"done", "begin"} /\ j.result \in {"none", "error"}
        /\ j.result # "none" => j.at = "done"
    BY <2>1 DEF JobShape
  <2>7. j.handle = 0 /\ j.partial = 0
    BY <2>1 DEF JobShape
  <2> QED BY <2>3, <2>4, <2>5, <2>6, <2>7
<1> HIDE DEF j
<1>4. /\ trail' \in TrailShape /\ trail'.clobbered = trail.clobbered /\ trail'.unseen = trail.unseen
      /\ trail'.disturbed = trail.disturbed \ {t} /\ trail'.unheard = trail.unheard \ {t}
      /\ trail'.clash = trail.clash \ {t}
  BY <1>1, <1>2 DEF ObjectsShape, TrailShape
<1>5. job' \in [Writers -> JobShape] /\ job'[t] = j /\ \A u \in Writers : u # t => job'[u] = job[u]
  BY <1>1, <1>2, <1>3 DEF ObjectsShape
<1>6. ObjectsShape'
  BY <1>1, <1>2, <1>4, <1>5 DEF ObjectsShape, Items
<1>7. ASSUME NEW u \in Writers, u # t PROVE WriterInv(u)'
  <2>1. Spares(u)
    BY <1>1, <1>2, <1>4, <1>5, <1>7 DEF Spares, Items, ObjectsShape
  <2>2. LeavesLook(u)
    BY <1>2, <1>4, <1>5, <1>7 DEF LeavesLook, Items
  <2> QED BY <2>1, <2>2, OthersKeep
<1>8. WriterInv(t)'
  <2>1. HandleInv(t)'
    BY <1>1, <1>2, <1>3, <1>5 DEF HandleInv
  <2>2. ByJob(t)' = <<t, job[t].made + 1>>
    BY <1>3, <1>5 DEF ByJob
  <2>3. \A h \in Items : items[h].by[1] = t => items[h].by[2] <= job[t].made
    BY <1>1 DEF WriterInv, MadeInv
  <2>4. \A c \in trail.clobbered : c.by[1] = t => c.by[2] <= job[t].made
    BY <1>1 DEF WriterInv, MadeInv
  <2>5. ASSUME NEW h \in Items, items[h].by = ByJob(t)' PROVE FALSE
    BY ONLY <1>1, <2>2, <2>3, <2>5
  <2>6. ASSUME NEW c \in trail.clobbered, c.by = ByJob(t)' PROVE FALSE
    BY ONLY <1>1, <2>2, <2>4, <2>6
  <2>7. ASSUME NEW c \in trail.clobbered, c.by[1] = t PROVE c.by[2] <= job[t].made + 1
    <3>1. c.by[2] \in Nat
      BY <1>1 DEF ObjectsShape, TrailShape
    <3> QED BY <1>1, <2>4, <2>7, <3>1
  <2>8. ASSUME NEW h \in Items, items[h].by[1] = t PROVE items[h].by[2] <= job[t].made + 1
    <3>1. items[h].by \in Makers
      BY <1>1 DEF ObjectsShape, ItemShape
    <3>2. items[h].by \notin {Seeds[g].by : g \in DOMAIN Seeds}
      BY <2>8, ObjectsAssumption
    <3>3. items[h].by[2] \in Nat
      BY <3>1, <3>2 DEF Makers
    <3> QED BY <1>1, <2>3, <2>8, <3>3
  <2>9. MadeInv(t)'
    BY <1>2, <1>3, <1>4, <1>5, <2>7, <2>8 DEF MadeInv, Items
  <2>10. PartialInv(t)' /\ LookInv(t)'
    BY <1>2, <1>3, <1>4, <1>5, <2>5, <2>6 DEF PartialInv, LookInv, Items
  <2>11. BytesInv(t)' /\ CopyInv(t)'
    BY <1>3, <1>5 DEF BytesInv, CopyInv
  <2> QED BY <2>1, <2>9, <2>10, <2>11 DEF WriterInv
<1> QED BY <1>6, <1>7, <1>8 DEF ObjectsInv

(* A call fails, having sent nothing or left no object of its own behind. *)
LEMMA KeepsFailure ==
  ASSUME ObjectsInv, NEW t \in Writers, Fails(t),
         job[t].at \in {"begin", "siblings", "copy", "verify"},
         UNCHANGED <<items, nextItem, awaiting, style, trail>>
  PROVE  ObjectsInv'
<1>1. ObjectsShape /\ WriterInv(t)
  BY DEF ObjectsInv
<1>2. /\ Steps(t) /\ job'[t].at = "done" /\ job'[t].result = "error"
      /\ job'[t].kind = job[t].kind /\ job'[t].made = job[t].made /\ job'[t].name = job[t].name
      /\ job'[t].place = job[t].place /\ job'[t].source = job[t].source
      /\ job'[t].handle = job[t].handle /\ job'[t].partial = job[t].partial
  BY <1>1, FailsTypes
<1>3. ByJob(t)' = ByJob(t)
  BY <1>2 DEF ByJob
<1>4. job[t].result = "none"
  BY <1>1, JobTypes DEF WriterInv, HandleInv
<1>5. HandleInv(t)' /\ MadeInv(t)'
  BY <1>1, <1>2 DEF WriterInv, HandleInv, MadeInv, Items
<1>6. PartialInv(t)'
  BY <1>1, <1>2, <1>3, <1>4 DEF WriterInv, PartialInv, Items
<1>7. BytesInv(t)' /\ CopyInv(t)' /\ LookInv(t)'
  BY <1>1, <1>2, <1>3 DEF WriterInv, BytesInv, CopyInv, LookInv, Items
<1>8. WriterInv(t)'
  BY <1>5, <1>6, <1>7 DEF WriterInv
<1> QED BY <1>2, <1>8, OwnStep

(* A copy reads its source's name, looks at its siblings, and is looked at. *)
LEMMA KeepsReadsName == ASSUME ObjectsInv, NEW t \in Writers, CopyReadsName(t) PROVE ObjectsInv'
<1>1. ObjectsShape /\ WriterInv(t) /\ job[t].kind = "copy" /\ job[t].at = "begin"
      /\ UNCHANGED <<items, nextItem, awaiting, style, trail>>
  BY DEF ObjectsInv, CopyReadsName, Starts
<1>2. CASE job[t].source \notin Items
  BY <1>1, <1>2, KeepsFailure DEF CopyReadsName
<1>3. CASE job[t].source \in Items
  <2>1. items[job[t].source].name \in ItemNames
    BY <1>1, <1>3 DEF ObjectsShape, ItemShape
  <2>2. job' = [job EXCEPT ![t].at = "siblings", ![t].name = items[job[t].source].name]
    BY <1>3 DEF CopyReadsName
  <2>3. /\ Steps(t) /\ job'[t].at = "siblings" /\ job'[t].name = items[job[t].source].name
        /\ job'[t].kind = job[t].kind /\ job'[t].made = job[t].made
        /\ job'[t].place = job[t].place /\ job'[t].source = job[t].source
        /\ job'[t].handle = job[t].handle /\ job'[t].partial = job[t].partial
        /\ job'[t].result = job[t].result
    <3>1. job[t] \in JobShape
      BY <1>1 DEF ObjectsShape
    <3> DEFINE j == [job[t] EXCEPT !.at = "siblings", !.name = items[job[t].source].name]
    <3>2. j \in JobShape
      BY <2>1, <3>1 DEF JobShape
    <3>3. job' = [job EXCEPT ![t] = j]
      BY <1>1, <2>2 DEF ObjectsShape
    <3>4. job'[t] = j /\ Steps(t)
      BY <1>1, <3>2, <3>3 DEF ObjectsShape, Steps
    <3>5. /\ j.at = "siblings" /\ j.name = items[job[t].source].name
          /\ j.kind = job[t].kind /\ j.made = job[t].made
          /\ j.place = job[t].place /\ j.source = job[t].source
          /\ j.handle = job[t].handle /\ j.partial = job[t].partial /\ j.result = job[t].result
      BY <3>1 DEF JobShape
    <3> QED BY <3>4, <3>5
  <2>4. ByJob(t)' = ByJob(t)
    BY <2>3 DEF ByJob
  <2>5. HandleInv(t)' /\ MadeInv(t)'
    BY <1>1, <2>1, <2>3 DEF WriterInv, HandleInv, MadeInv, Items
  <2>6. PartialInv(t)' /\ BytesInv(t)' /\ CopyInv(t)' /\ LookInv(t)'
    BY <1>1, <2>3, <2>4 DEF WriterInv, HandleInv, PartialInv, BytesInv, CopyInv, LookInv, Items
  <2>7. WriterInv(t)'
    BY <2>5, <2>6 DEF WriterInv
  <2> QED BY <1>1, <2>3, <2>7, OwnStep
<1> QED BY <1>2, <1>3

LEMMA KeepsSiblings == ASSUME ObjectsInv, NEW t \in Writers, CopyChecksSiblings(t) PROVE ObjectsInv'
<1>1. /\ ObjectsShape /\ WriterInv(t) /\ job[t].kind = "copy" /\ job[t].at = "siblings"
      /\ UNCHANGED <<items, nextItem, awaiting, style>>
  BY DEF ObjectsInv, CopyChecksSiblings
<1>2. CASE Fails(t) /\ UNCHANGED trail
  BY <1>1, <1>2, KeepsFailure
<1>3. CASE Goes(t, "copy") /\ trail' = [trail EXCEPT !.unseen = @ \cup Marks(t, Rivals(t))]
  <2>1. /\ Steps(t) /\ job'[t].at = "copy"
        /\ job'[t].kind = job[t].kind /\ job'[t].made = job[t].made /\ job'[t].name = job[t].name
        /\ job'[t].place = job[t].place /\ job'[t].source = job[t].source
        /\ job'[t].handle = job[t].handle /\ job'[t].partial = job[t].partial
        /\ job'[t].result = job[t].result
    BY <1>1, <1>3, GoesTypes
  <2>2. ByJob(t)' = ByJob(t) /\ ByJob(t) \in Writers \X Nat
    BY <1>1, <2>1, JobTypes DEF ByJob
  <2>3. Marks(t, Rivals(t)) \subseteq [by : Writers \X Nat, item : Nat]
    BY <1>1, MarksTypes DEF Rivals, In
  <2>4. /\ trail' \in TrailShape /\ trail'.unseen = trail.unseen \cup Marks(t, Rivals(t))
        /\ trail'.clobbered = trail.clobbered /\ trail'.disturbed = trail.disturbed
        /\ trail'.unheard = trail.unheard /\ trail'.clash = trail.clash
    BY <1>1, <1>3, <2>3 DEF ObjectsShape, TrailShape
  <2>5. ObjectsShape'
    BY <1>1, <2>1, <2>4 DEF ObjectsShape, Items, Steps
  <2>6. ASSUME NEW u \in Writers, u # t PROVE WriterInv(u)'
    <3>1. Spares(u)
      BY <1>1, <2>1, <2>4, <2>6, JobTypes DEF Spares, Steps, Items, ObjectsShape
    <3>2. LeavesLook(u)
      BY <1>1, <2>1, <2>4, <2>6 DEF LeavesLook, Items
    <3> QED BY <3>1, <3>2, OthersKeep
  <2>7. HandleInv(t)' /\ MadeInv(t)'
    BY <1>1, <2>1, <2>4 DEF WriterInv, HandleInv, MadeInv, Items
  <2>8. PartialInv(t)' /\ BytesInv(t)' /\ CopyInv(t)'
    BY <1>1, <2>1 DEF WriterInv, HandleInv, PartialInv, BytesInv, CopyInv
  <2>9. LookInv(t)'
    <3>1. ASSUME NEW h \in In(job[t].place), SameName(items[h].name, job[t].name)
          PROVE  [by |-> ByJob(t), item |-> h] \in trail'.unseen
      BY <2>4, <3>1 DEF Marks, Rivals
    <3> QED BY <1>1, <2>1, <2>2, <2>4, <3>1 DEF WriterInv, LookInv, Items, In
  <2> QED BY <2>5, <2>6, <2>7, <2>8, <2>9 DEF ObjectsInv, WriterInv
<1> QED BY <1>2, <1>3 DEF CopyChecksSiblings

LEMMA KeepsVerify == ASSUME ObjectsInv, NEW t \in Writers, VerifyCopy(t) PROVE ObjectsInv'
<1>1. ObjectsShape /\ WriterInv(t) /\ job[t].kind = "copy" /\ job[t].at = "verify"
      /\ UNCHANGED <<items, nextItem, awaiting, style, trail>>
  BY DEF ObjectsInv, VerifyCopy
<1>2. CASE ~IsCopy(t, job[t].handle)
  BY <1>1, <1>2, KeepsFailure DEF VerifyCopy
<1>3. CASE IsCopy(t, job[t].handle)
  <2>1. job[t].handle \in Nat /\ job[t].result = "none"
    BY <1>1, JobTypes DEF WriterInv, HandleInv
  <2>2. Succeeds(t, job[t].handle)
    BY <1>3 DEF VerifyCopy
  <2>3. /\ Steps(t) /\ job'[t].at = "done" /\ job'[t].result = "ok" /\ job'[t].handle = job[t].handle
        /\ job'[t].kind = job[t].kind /\ job'[t].made = job[t].made /\ job'[t].name = job[t].name
        /\ job'[t].place = job[t].place /\ job'[t].source = job[t].source
        /\ job'[t].partial = job[t].partial
    BY <1>1, <2>1, <2>2, SucceedsTypes
  <2>4. ByJob(t)' = ByJob(t)
    BY <2>3 DEF ByJob
  <2>5. HandleInv(t)' /\ MadeInv(t)'
    BY <1>1, <2>3 DEF WriterInv, HandleInv, MadeInv, Items
  <2>6. PartialInv(t)' /\ BytesInv(t)' /\ LookInv(t)'
    BY <1>1, <2>3, <2>4 DEF WriterInv, HandleInv, PartialInv, BytesInv, LookInv, Items
  <2>7. CopyInv(t)'
    BY <1>1, <1>3, <2>3, <2>4 DEF WriterInv, CopyInv, Mine, IsCopy, Items
  <2>8. WriterInv(t)'
    BY <2>5, <2>6, <2>7 DEF WriterInv
  <2> QED BY <1>1, <2>3, <2>8, OwnStep
<1> QED BY <1>2, <1>3

(* The device makes an object under a new handle. *)
Makes(item) ==
  /\ nextItem <= MaxItem /\ nextItem' = nextItem + 1
  /\ Items' = Items \cup {nextItem} /\ items'[nextItem] = item
  /\ \A h \in Items : items'[h] = items[h]

(* What happened only grows, but for the arrivals. *)
Grows ==
  /\ trail' \in TrailShape /\ trail'.clobbered = trail.clobbered /\ trail'.unseen = trail.unseen
  /\ trail.disturbed \subseteq trail'.disturbed /\ trail.unheard \subseteq trail'.unheard
  /\ trail.clash \subseteq trail'.clash

LEMMA WithMakes ==
  ASSUME ObjectsShape, NEW item, nextItem <= MaxItem, nextItem' = nextItem + 1,
         items' = With(nextItem, item)
  PROVE  Makes(item)
<1>1. nextItem \notin Items
  BY ObjectsAssumption DEF ObjectsShape
<1> QED BY <1>1 DEF With, Makes, Items

LEMMA MakesShape ==
  ASSUME ObjectsShape, NEW item \in ItemShape, Makes(item), style' = style,
         awaiting' \in {awaiting, Nothing, nextItem}, job' \in [Writers -> JobShape],
         trail' \in TrailShape
  PROVE  ObjectsShape'
<1>1. nextItem \in Nat /\ nextItem >= 1 /\ MaxItem \in Nat /\ awaiting \in Nat
  BY ObjectsAssumption DEF ObjectsShape
<1>2. nextItem' \in 1 .. MaxItem + 1 /\ Items' \subseteq 1 .. nextItem' - 1
  BY <1>1 DEF ObjectsShape, Makes
<1>3. \A h \in Items' : items'[h] \in ItemShape
  BY DEF ObjectsShape, Makes
<1>4. awaiting' \in 0 .. nextItem' - 1
  BY <1>1 DEF ObjectsShape, Makes, Nothing
<1> QED BY <1>2, <1>3, <1>4 DEF ObjectsShape

(* Another task's call is spared by it, and learns that the name arrived. *)
LEMMA MakesSpares ==
  ASSUME ObjectsShape, NEW u \in Writers, job'[u] = job[u], NEW item \in ItemShape, Makes(item),
         item.by[1] # u, awaiting' \in {awaiting, Nothing, nextItem}, Grows,
         u \in Arrives(item.place, item.name) => u \in trail'.clash,
         \/ u \in trail'.disturbed \/ job[u].at # "data" \/ job[u].kind # "upload"
         \/ awaiting' \in {awaiting, Nothing},
         job[u].source < nextItem
  PROVE  Spares(u) /\ LeavesLook(u)
<1>1. nextItem \in Nat /\ MaxItem \in Nat /\ nextItem' \in Nat /\ nextItem <= nextItem'
      /\ job[u].source \in Nat
  BY JobTypes, ObjectsAssumption DEF Makes
<1>2. Spares(u)
  BY <1>1 DEF Spares, Makes, Grows
<1>3. LeavesLook(u)
  <2>1. SUFFICES ASSUME u \notin trail'.clash, job[u].kind = "copy"
                 PROVE  /\ job[u].at \in {"siblings", "copy"} /\ job[u].source \in Items' =>
                             /\ job[u].source \in Items
                             /\ items'[job[u].source].name = items[job[u].source].name
                        /\ job[u].at = "copy" =>
                             \A h \in Items' :
                               items'[h].place = job[u].place /\ SameName(items'[h].name, job[u].name) =>
                                 h \in Items /\ items[h].place = job[u].place /\ SameName(items[h].name, job[u].name)
    BY DEF LeavesLook
  <2>2. job[u].source # nextItem
    BY <1>1
  <2>3. ASSUME job[u].at = "copy"
        PROVE  ~(item.place = job[u].place /\ SameName(item.name, job[u].name))
    BY <2>1, <2>3 DEF Arrives, SameName
  <2> QED BY <2>2, <2>3 DEF Makes
<1> QED BY <1>2, <1>3

LEMMA KeepsPhone ==
  ASSUME ObjectsInv, NEW name \in ItemNames, NEW place \in Places, PhoneCreates(name, place)
  PROVE  ObjectsInv'
<1> DEFINE item == Item(name, place, <<"phone", trail.phone>>, "photo")
<1>1. ObjectsShape /\ \A u \in Writers : WriterInv(u)
  BY DEF ObjectsInv
<1>2. item \in ItemShape /\ item.place = place /\ item.name = name /\ item.by[1] = "phone"
  <2>1. <<"phone", trail.phone>> \in Makers
    BY <1>1 DEF ObjectsShape, TrailShape, Makers
  <2> QED BY <2>1 DEF Item, ItemShape, Contents
<1> HIDE DEF item
<1>3. Makes(item)
  BY <1>1, WithMakes DEF PhoneCreates, item
<1>4. trail' = [trail EXCEPT !.phone = @ + 1, !.clash = @ \cup Arrives(place, name)]
      /\ UNCHANGED <<awaiting, style, job>>
  BY DEF PhoneCreates
<1>5. Arrives(place, name) \subseteq Writers
  BY DEF Arrives
<1>6. Grows /\ trail'.clash = trail.clash \cup Arrives(place, name)
  <2>1. trail \in TrailShape
    BY <1>1 DEF ObjectsShape
  <2>2. trail.phone + 1 \in Nat /\ trail.clash \cup Arrives(place, name) \in SUBSET Writers
    BY <1>5, <2>1 DEF TrailShape
  <2>3. trail' \in TrailShape
    BY <1>4, <2>1, <2>2 DEF TrailShape
  <2>4. /\ trail'.clobbered = trail.clobbered /\ trail'.disturbed = trail.disturbed
        /\ trail'.unseen = trail.unseen /\ trail'.unheard = trail.unheard /\ trail'.clash = trail.clash \cup Arrives(place, name)
    BY <1>4, <2>1 DEF TrailShape
  <2> QED BY <2>3, <2>4 DEF Grows
<1>7. ObjectsShape'
  BY <1>1, <1>2, <1>3, <1>4, <1>6, MakesShape DEF Grows, ObjectsShape
<1>8. ASSUME NEW u \in Writers PROVE WriterInv(u)'
  <2>1. item.by[1] # u /\ job'[u] = job[u] /\ job[u].source < nextItem
    BY <1>1, <1>2, <1>4, ObjectsAssumption DEF WriterInv, HandleInv
  <2>2. Spares(u) /\ LeavesLook(u)
    BY <1>1, <1>2, <1>3, <1>4, <1>6, <2>1, MakesSpares
  <2> QED BY <2>2, OthersKeep
<1> QED BY <1>7, <1>8 DEF ObjectsInv

(* What SendObjectInfo makes is its task's, and waits for its data. *)
LEMMA CreatesMakes ==
  ASSUME ObjectsInv, NEW t \in Writers, Starts(t, {"upload", "folder"}), Creates(t), Steps(t),
         NEW C \in SUBSET {t},
         trail' = [trail EXCEPT !.disturbed = Disturbs(t), !.unheard = @ \cup C,
                                !.clash = @ \cup Arrives(job[t].place, job[t].name)]
  PROVE  /\ Grows /\ ObjectsShape' /\ \A u \in Writers : u # t => WriterInv(u)'
         /\ Makes(Item(job[t].name, job[t].place, ByJob(t), NoData))
         /\ trail'.disturbed = Disturbs(t) /\ trail'.unheard = trail.unheard \cup C
<1> DEFINE item == Item(job[t].name, job[t].place, ByJob(t), NoData)
<1>1. ObjectsShape /\ \A u \in Writers : WriterInv(u)
  BY DEF ObjectsInv
<1>2. job[t].name \in ItemNames
  BY <1>1 DEF WriterInv, HandleInv, Starts
<1>3. item \in ItemShape /\ item.place = job[t].place /\ item.name = job[t].name /\ item.by[1] = t
  <2>1. ByJob(t) \in Makers /\ ByJob(t)[1] = t /\ job[t].place \in Places
    BY <1>1, JobTypes
  <2> QED BY <1>2, <2>1 DEF Item, ItemShape, Contents
<1>4. Makes(item)
  BY <1>1, WithMakes DEF Creates
<1> HIDE DEF item
<1>5. Disturbs(t) \subseteq Writers /\ Arrives(job[t].place, job[t].name) \subseteq Writers
      /\ trail.disturbed \subseteq Disturbs(t)
  BY <1>1 DEF Disturbs, Arrives, ObjectsShape, TrailShape
<1>6. /\ Grows /\ trail'.clash = trail.clash \cup Arrives(job[t].place, job[t].name)
      /\ trail'.disturbed = Disturbs(t) /\ trail'.unheard = trail.unheard \cup C
  BY <1>1, <1>5 DEF Grows, ObjectsShape, TrailShape
<1>7. awaiting' \in {awaiting, Nothing, nextItem} /\ style' = style
  BY DEF Creates
<1>8. ObjectsShape'
  BY <1>1, <1>3, <1>4, <1>6, <1>7, MakesShape DEF Grows, Steps
<1>9. ASSUME NEW u \in Writers, u # t PROVE WriterInv(u)'
  <2>1. item.by[1] # u /\ job'[u] = job[u] /\ job[u].source < nextItem
    BY <1>1, <1>3, <1>9 DEF WriterInv, HandleInv, Steps
  <2>2. u \in trail'.disturbed \/ job[u].at # "data" \/ job[u].kind # "upload"
    BY <1>6, <1>9 DEF Disturbs
  <2>3. Spares(u) /\ LeavesLook(u)
    BY <1>1, <1>3, <1>4, <1>6, <1>7, <2>1, <2>2, MakesSpares
  <2> QED BY <2>3, OthersKeep
<1> QED BY <1>4, <1>6, <1>8, <1>9 DEF item

LEMMA KeepsObjectInfo == ASSUME ObjectsInv, NEW t \in Writers, SendObjectInfo(t) PROVE ObjectsInv'
<1> DEFINE item == Item(job[t].name, job[t].place, ByJob(t), NoData)
<1>1. ObjectsShape /\ WriterInv(t) /\ Starts(t, {"upload", "folder"}) /\ Creates(t)
      /\ nextItem \in Nat /\ nextItem >= 1 /\ job[t] \in JobShape
  BY JobTypes DEF ObjectsInv, ObjectsShape, SendObjectInfo
<1>2. /\ Steps(t) /\ job'[t].handle = nextItem
      /\ job'[t].kind = job[t].kind /\ job'[t].made = job[t].made /\ job'[t].name = job[t].name
      /\ job'[t].place = job[t].place /\ job'[t].source = job[t].source
      /\ job'[t].partial = job[t].partial
      /\ IF job[t].kind = "upload" THEN job'[t].at = "data" /\ job'[t].result = job[t].result
         ELSE job'[t].at = "done" /\ job'[t].result = "ok"
  <2>1. CASE job[t].kind = "upload"
    <3> DEFINE j == [job[t] EXCEPT !.at = "data", !.handle = nextItem]
    <3>1. j \in JobShape
      BY <1>1 DEF JobShape
    <3>2. job' = [job EXCEPT ![t] = j]
      BY <1>1, <2>1 DEF SendObjectInfo, ObjectsShape
    <3>3. job'[t] = j /\ Steps(t)
      BY <1>1, <3>1, <3>2 DEF ObjectsShape, Steps
    <3>4. /\ j.at = "data" /\ j.handle = nextItem /\ j.result = job[t].result
          /\ j.kind = job[t].kind /\ j.made = job[t].made /\ j.name = job[t].name
          /\ j.place = job[t].place /\ j.source = job[t].source /\ j.partial = job[t].partial
      BY <1>1 DEF JobShape
    <3> QED BY <2>1, <3>3, <3>4
  <2>2. CASE job[t].kind # "upload"
    <3>1. Succeeds(t, nextItem)
      BY <2>2 DEF SendObjectInfo
    <3> QED BY <1>1, <2>2, <3>1, SucceedsTypes
  <2> QED BY <2>1, <2>2
<1>3. trail' = [trail EXCEPT !.disturbed = Disturbs(t), !.unheard = @ \cup {},
                             !.clash = @ \cup Arrives(job[t].place, job[t].name)]
  BY <1>1 DEF SendObjectInfo, ObjectsShape, TrailShape
<1>4. /\ Grows /\ ObjectsShape' /\ (\A u \in Writers : u # t => WriterInv(u)')
      /\ Makes(item) /\ trail'.disturbed = Disturbs(t) /\ trail'.unheard = trail.unheard
  <2>1. {} \in SUBSET {t}
    OBVIOUS
  <2>2. /\ Grows /\ ObjectsShape' /\ (\A u \in Writers : u # t => WriterInv(u)')
        /\ Makes(item) /\ trail'.disturbed = Disturbs(t) /\ trail'.unheard = trail.unheard \cup {}
    BY <1>1, <1>2, <1>3, <2>1, CreatesMakes
  <2> QED BY <2>2
<1>5. ByJob(t)' = ByJob(t) /\ item.by = ByJob(t) /\ ByJob(t)[1] = t /\ ByJob(t)[2] = job[t].made
      /\ job[t].made \in Nat
  <2>1. ByJob(t)' = ByJob(t) /\ item.by = ByJob(t)
    BY <1>2 DEF ByJob, Item
  <2> QED BY <1>1, <2>1, JobTypes
<1> HIDE DEF item
<1>6. HandleInv(t)'
  <2>1. job[t].source \in Nat /\ job[t].partial \in Nat /\ job[t].kind # "copy"
    BY <1>1, JobTypes DEF Starts
  <2>2. nextItem' = nextItem + 1 /\ job[t].source < nextItem /\ job[t].partial < nextItem
        /\ job[t].name \in ItemNames /\ (job[t].result # "none" => job[t].at = "done")
        /\ job[t].at = "begin" /\ nextItem # Nothing
    BY <1>1, <1>4 DEF WriterInv, HandleInv, Makes, Starts, Nothing
  <2>3. job'[t].source < nextItem' /\ job'[t].partial < nextItem' /\ job'[t].handle < nextItem'
    BY <1>1, <1>2, <2>1, <2>2
  <2> QED BY <1>2, <2>1, <2>2, <2>3 DEF HandleInv
<1>7. MadeInv(t)'
  BY <1>1, <1>2, <1>4, <1>5 DEF WriterInv, MadeInv, Makes, Grows
<1>8. PartialInv(t)'
  BY <1>1, <1>2, <1>4, <1>5 DEF WriterInv, HandleInv, PartialInv, Makes, Starts
<1>9. job[t].kind = "upload" => awaiting' = nextItem /\ job'[t].result = "none"
  BY <1>1, <1>2 DEF Creates, WriterInv, HandleInv, Starts
<1>10. BytesInv(t)'
  BY <1>2, <1>9 DEF BytesInv
<1>11. job[t].kind # "copy" /\ CopyInv(t)'
  BY <1>1, <1>2 DEF Starts, CopyInv
<1>12. LookInv(t)'
  BY <1>1, <1>2, <1>4, <1>5, <1>11 DEF WriterInv, LookInv, Grows
<1>13. WriterInv(t)'
  BY <1>6, <1>7, <1>8, <1>10, <1>11, <1>12 DEF WriterInv
<1> QED BY <1>4, <1>13 DEF ObjectsInv

LEMMA KeepsUnheard == ASSUME ObjectsInv, NEW t \in Writers, SendObjectInfoUnheard(t) PROVE ObjectsInv'
<1> DEFINE item == Item(job[t].name, job[t].place, ByJob(t), NoData)
<1>1. ObjectsShape /\ WriterInv(t) /\ Starts(t, {"upload", "folder"}) /\ Creates(t) /\ Fails(t)
      /\ nextItem \in Nat /\ nextItem >= 1
  BY JobTypes DEF ObjectsInv, ObjectsShape, SendObjectInfoUnheard
<1>2. /\ Steps(t) /\ job'[t].at = "done" /\ job'[t].result = "error"
      /\ job'[t].kind = job[t].kind /\ job'[t].made = job[t].made /\ job'[t].name = job[t].name
      /\ job'[t].place = job[t].place /\ job'[t].source = job[t].source
      /\ job'[t].handle = job[t].handle /\ job'[t].partial = job[t].partial
  BY <1>1, FailsTypes
<1>3. /\ Grows /\ ObjectsShape' /\ (\A u \in Writers : u # t => WriterInv(u)')
      /\ Makes(item) /\ trail'.unheard = trail.unheard \cup {t}
  BY <1>1, <1>2, CreatesMakes DEF SendObjectInfoUnheard
<1>4. ByJob(t)' = ByJob(t) /\ item.by = ByJob(t) /\ ByJob(t)[1] = t /\ ByJob(t)[2] = job[t].made
      /\ job[t].made \in Nat /\ job[t] \in JobShape
  <2>1. ByJob(t)' = ByJob(t) /\ item.by = ByJob(t)
    BY <1>2 DEF ByJob, Item
  <2> QED BY <1>1, <2>1, JobTypes
<1> HIDE DEF item
<1>5. HandleInv(t)'
  <2>1. job[t].kind # "copy" /\ job[t].source \in Nat /\ job[t].handle \in Nat /\ job[t].partial \in Nat
    BY <1>1, JobTypes DEF Starts
  <2> QED BY <1>1, <1>2, <1>3, <2>1 DEF WriterInv, HandleInv, Makes, Starts, Nothing
<1>6. MadeInv(t)'
  BY <1>1, <1>2, <1>3, <1>4 DEF WriterInv, MadeInv, Makes, Grows
<1>7. PartialInv(t)' /\ BytesInv(t)'
  BY <1>2, <1>3 DEF PartialInv, BytesInv
<1>8. job[t].kind # "copy" /\ CopyInv(t)'
  BY <1>1, <1>2 DEF Starts, CopyInv
<1>9. LookInv(t)'
  BY <1>1, <1>2, <1>3, <1>4, <1>8 DEF WriterInv, LookInv, Grows
<1>10. WriterInv(t)'
  BY <1>5, <1>6, <1>7, <1>8, <1>9 DEF WriterInv
<1> QED BY <1>3, <1>10 DEF ObjectsInv

LEMMA KeepsData == ASSUME ObjectsInv, NEW t \in Writers, SendObject(t) PROVE ObjectsInv'
<1>1. /\ ObjectsShape /\ (\A u \in Writers : WriterInv(u)) /\ job[t].kind = "upload" /\ job[t].at = "data"
      /\ awaiting \in Items /\ items' = [items EXCEPT ![awaiting].data = t] /\ awaiting' = Nothing
      /\ Succeeds(t, job[t].handle) \/ job' = PartialOf(t)
      /\ UNCHANGED <<nextItem, style, trail>>
      /\ job[t].handle \in Nat /\ nextItem \in Nat /\ nextItem >= 1 /\ nextItem <= MaxItem + 1
  BY JobTypes DEF ObjectsInv, SendObject, ObjectsShape
<1>2. /\ Steps(t) /\ job'[t].at = "done" /\ job'[t].handle = job[t].handle
      /\ job'[t].kind = job[t].kind /\ job'[t].made = job[t].made /\ job'[t].name = job[t].name
      /\ job'[t].place = job[t].place /\ job'[t].source = job[t].source
      /\ \/ job'[t].result = "ok" /\ job'[t].partial = job[t].partial
         \/ job'[t].result = "error" /\ job'[t].partial = job[t].handle
  BY <1>1, SucceedsTypes, PartialTypes
<1>3. /\ Items' = Items /\ items'[awaiting].data = t
      /\ \A h \in Items : /\ items'[h] \in ItemShape /\ items'[h].by = items[h].by
                          /\ items'[h].name = items[h].name /\ items'[h].place = items[h].place
                          /\ h # awaiting => items'[h] = items[h]
  <2>1. Items' = Items /\ \A h \in Items : items'[h] = IF h = awaiting THEN [items[h] EXCEPT !.data = t] ELSE items[h]
    BY <1>1 DEF Items
  <2>2. \A h \in Items : /\ [items[h] EXCEPT !.data = t] \in ItemShape
                         /\ [items[h] EXCEPT !.data = t].by = items[h].by
                         /\ [items[h] EXCEPT !.data = t].name = items[h].name
                         /\ [items[h] EXCEPT !.data = t].place = items[h].place
                         /\ [items[h] EXCEPT !.data = t].data = t
    BY <1>1 DEF ObjectsShape, ItemShape, Contents
  <2> QED BY <1>1, <2>1, <2>2 DEF ObjectsShape
<1>4. ObjectsShape'
  <2>1. Items' \subseteq 1 .. nextItem' - 1 /\ nextItem' \in 1 .. MaxItem + 1
        /\ \A h \in Items' : items'[h] \in ItemShape
    <3>1. Items' = Items /\ nextItem' = nextItem /\ \A h \in Items : items'[h] \in ItemShape
      BY ONLY <1>1, <1>3
    <3>2. Items \subseteq 1 .. nextItem - 1 /\ nextItem \in 1 .. MaxItem + 1
      BY DEF ObjectsInv, ObjectsShape
    <3> QED BY ONLY <3>1, <3>2
  <2>2. awaiting' \in 0 .. nextItem' - 1
    <3>1. awaiting' = 0 /\ nextItem' = nextItem /\ nextItem \in Nat /\ nextItem >= 1
      BY <1>1 DEF Nothing
    <3> QED BY ONLY <3>1
  <2> QED BY <1>1, <1>2, <2>1, <2>2 DEF ObjectsShape, Steps
<1>5. ASSUME NEW u \in Writers, u # t PROVE WriterInv(u)'
  <2>1. Spares(u)
    BY <1>1, <1>2, <1>3, <1>5 DEF Spares, Steps
  <2>2. LeavesLook(u)
    BY <1>1, <1>2, <1>3, <1>5 DEF LeavesLook, Steps
  <2> QED BY <2>1, <2>2, OthersKeep
<1>6. ByJob(t)' = ByJob(t) /\ WriterInv(t)
  BY <1>1, <1>2 DEF ByJob
<1>7. HandleInv(t)' /\ MadeInv(t)'
  BY <1>1, <1>2, <1>3, <1>6 DEF WriterInv, HandleInv, MadeInv
<1>8. PartialInv(t)'
  BY <1>1, <1>2, <1>3, <1>6 DEF WriterInv, HandleInv, PartialInv
<1>9. BytesInv(t)'
  <2>1. job[t].handle # Nothing
    BY <1>1, <1>6 DEF WriterInv, HandleInv
  <2>2. t \notin trail.disturbed => awaiting \in {job[t].handle, Nothing}
    BY <1>1, <1>6 DEF WriterInv, BytesInv
  <2>3. awaiting # Nothing
    BY <1>1 DEF ObjectsShape, Nothing
  <2> QED BY <1>1, <1>2, <1>3, <2>1, <2>2, <2>3 DEF BytesInv
<1>10. CopyInv(t)' /\ LookInv(t)'
  BY <1>1, <1>2, <1>6 DEF WriterInv, CopyInv, LookInv
<1>11. WriterInv(t)'
  BY <1>7, <1>8, <1>9, <1>10 DEF WriterInv
<1> QED BY <1>4, <1>5, <1>11 DEF ObjectsInv

LEMMA KeepsDataFailure == ASSUME ObjectsInv, NEW t \in Writers, SendObjectFails(t) PROVE ObjectsInv'
<1>1. /\ ObjectsShape /\ (\A u \in Writers : WriterInv(u)) /\ job[t].kind = "upload" /\ job[t].at = "data"
      /\ job' = PartialOf(t) /\ awaiting' \in {awaiting, Nothing} /\ UNCHANGED <<items, nextItem, style, trail>>
      /\ job[t] \in JobShape /\ nextItem \in Nat /\ nextItem >= 1 /\ nextItem <= MaxItem + 1
      /\ Items' = Items
  BY JobTypes DEF ObjectsInv, SendObjectFails, ObjectsShape, Items
<1>2. /\ Steps(t) /\ job'[t].at = "done" /\ job'[t].result = "error" /\ job'[t].partial = job[t].handle
      /\ job'[t].kind = job[t].kind /\ job'[t].made = job[t].made /\ job'[t].name = job[t].name
      /\ job'[t].place = job[t].place /\ job'[t].source = job[t].source
      /\ job'[t].handle = job[t].handle
  BY <1>1, PartialTypes
<1>3. ObjectsShape'
  BY <1>1, <1>2 DEF ObjectsShape, Steps, Nothing
<1>4. ASSUME NEW u \in Writers, u # t PROVE WriterInv(u)'
  <2>1. Spares(u) /\ LeavesLook(u)
    BY <1>1, <1>2, <1>4 DEF Spares, LeavesLook, Steps
  <2> QED BY <2>1, OthersKeep
<1>5. ByJob(t)' = ByJob(t) /\ WriterInv(t)
  BY <1>1, <1>2 DEF ByJob
<1>6. HandleInv(t)' /\ MadeInv(t)'
  BY <1>1, <1>2, <1>5 DEF WriterInv, HandleInv, MadeInv
<1>7. PartialInv(t)' /\ BytesInv(t)' /\ CopyInv(t)' /\ LookInv(t)'
  BY <1>1, <1>2, <1>5 DEF WriterInv, HandleInv, PartialInv, BytesInv, CopyInv, LookInv
<1>8. WriterInv(t)'
  BY <1>6, <1>7 DEF WriterInv
<1> QED BY <1>3, <1>4, <1>8 DEF ObjectsInv

LEMMA KeepsDelete == ASSUME ObjectsInv, NEW t \in Writers, DeleteObject(t) PROVE ObjectsInv'
<1>1. /\ ObjectsShape /\ (\A u \in Writers : WriterInv(u)) /\ job[t].kind = "delete" /\ job[t].at = "begin"
      /\ UNCHANGED <<nextItem, style, trail>>
      /\ job[t].source \in Nat /\ nextItem \in Nat /\ nextItem >= 1 /\ nextItem <= MaxItem + 1
  BY JobTypes DEF ObjectsInv, DeleteObject, Starts, ObjectsShape
<1>2. CASE Fails(t) /\ UNCHANGED <<items, awaiting>>
  BY <1>1, <1>2, KeepsFailure
<1>3. CASE /\ job[t].source \in Items /\ items' = Without(job[t].source)
           /\ awaiting' = IF awaiting = job[t].source THEN Nothing ELSE awaiting
           /\ Answered(t, job[t].source)
  <2>1. /\ Steps(t) /\ job'[t].at = "done"
        /\ job'[t].kind = job[t].kind /\ job'[t].made = job[t].made /\ job'[t].name = job[t].name
        /\ job'[t].place = job[t].place /\ job'[t].source = job[t].source
        /\ job'[t].partial = job[t].partial
        /\ \/ job'[t].result = "ok" /\ job'[t].handle = job[t].source
           \/ job'[t].result = "error" /\ job'[t].handle = job[t].handle
    BY <1>1, <1>3, AnsweredTypes
  <2>2. Items' = Items \ {job[t].source} /\ \A h \in Items' : items'[h] = items[h]
    BY <1>3 DEF Without, Items
  <2>3. ObjectsShape'
    <3>1. Items' \subseteq 1 .. nextItem' - 1 /\ nextItem' \in 1 .. MaxItem + 1
          /\ \A h \in Items' : items'[h] \in ItemShape
      BY <1>1, <2>2 DEF ObjectsShape
    <3>2. awaiting' \in 0 .. nextItem' - 1
      BY <1>1, <1>3 DEF ObjectsShape, Nothing
    <3> QED BY <1>1, <2>1, <3>1, <3>2 DEF ObjectsShape, Steps
  <2>4. ASSUME NEW u \in Writers, u # t PROVE WriterInv(u)'
    <3>1. Spares(u) /\ LeavesLook(u)
      BY <1>1, <1>3, <2>1, <2>2, <2>4 DEF Spares, LeavesLook, Steps
    <3> QED BY <3>1, OthersKeep
  <2>5. ByJob(t)' = ByJob(t) /\ WriterInv(t)
    BY <1>1, <2>1 DEF ByJob
  <2>6. HandleInv(t)' /\ MadeInv(t)'
    BY <1>1, <2>1, <2>2, <2>5 DEF WriterInv, HandleInv, MadeInv
  <2>7. PartialInv(t)' /\ BytesInv(t)' /\ CopyInv(t)' /\ LookInv(t)'
    BY <1>1, <2>1, <2>5 DEF WriterInv, PartialInv, BytesInv, CopyInv, LookInv
  <2>8. WriterInv(t)'
    BY <2>6, <2>7 DEF WriterInv
  <2> QED BY <2>3, <2>4, <2>8 DEF ObjectsInv
<1> QED BY <1>1, <1>2, <1>3 DEF DeleteObject

(* A move or a rename changes where its object is and what it is called. *)
LEMMA KeepsRelocation ==
  ASSUME ObjectsInv, NEW t \in Writers, Starts(t, {"move", "rename"}), job[t].source \in Items,
         NEW place \in Places, NEW name \in ItemNames, Relocate(job[t].source, place, name),
         Answered(t, job[t].source), UNCHANGED <<nextItem, awaiting, style>>
  PROVE  ObjectsInv'
<1> DEFINE R == {u \in Writers : /\ job[u].kind = "copy" /\ job[u].at \in {"siblings", "copy"}
                                 /\ job[u].source = job[t].source /\ name # job[u].name}
<1>1. /\ ObjectsShape /\ (\A u \in Writers : WriterInv(u)) /\ job[t].at = "begin"
      /\ job[t].kind # "upload" /\ job[t].kind # "copy"
      /\ job[t].source \in Nat /\ nextItem \in Nat /\ nextItem >= 1 /\ nextItem <= MaxItem + 1
  BY JobTypes DEF ObjectsInv, Starts, ObjectsShape
<1>2. /\ Steps(t) /\ job'[t].at = "done"
      /\ job'[t].kind = job[t].kind /\ job'[t].made = job[t].made /\ job'[t].name = job[t].name
      /\ job'[t].place = job[t].place /\ job'[t].source = job[t].source
      /\ job'[t].partial = job[t].partial
      /\ \/ job'[t].result = "ok" /\ job'[t].handle = job[t].source
         \/ job'[t].result = "error" /\ job'[t].handle = job[t].handle
  BY <1>1, AnsweredTypes
<1>3. /\ Items' = Items
      /\ items'[job[t].source].name = name /\ items'[job[t].source].place = place
      /\ \A h \in Items : /\ items'[h] \in ItemShape /\ items'[h].by = items[h].by
                          /\ items'[h].data = items[h].data
                          /\ h # job[t].source => items'[h] = items[h]
  <2>1. Items' = Items /\ \A h \in Items : items'[h] =
          IF h = job[t].source THEN [items[h] EXCEPT !.place = place, !.name = name] ELSE items[h]
    BY <1>1 DEF Items, Relocate
  <2>2. \A h \in Items : /\ [items[h] EXCEPT !.place = place, !.name = name] \in ItemShape
                         /\ [items[h] EXCEPT !.place = place, !.name = name].by = items[h].by
                         /\ [items[h] EXCEPT !.place = place, !.name = name].data = items[h].data
                         /\ [items[h] EXCEPT !.place = place, !.name = name].name = name
                         /\ [items[h] EXCEPT !.place = place, !.name = name].place = place
    BY <1>1 DEF ObjectsShape, ItemShape
  <2> QED BY <1>1, <2>1, <2>2 DEF ObjectsShape
<1>4. /\ trail' \in TrailShape /\ trail'.clobbered = trail.clobbered /\ trail'.unseen = trail.unseen
      /\ trail'.disturbed = trail.disturbed /\ trail'.unheard = trail.unheard
      /\ trail'.clash = trail.clash \cup Arrives(place, name) \cup R
  <2>1. trail' = [trail EXCEPT !.clash = @ \cup Arrives(place, name) \cup R]
    BY DEF Relocate
  <2>2. Arrives(place, name) \subseteq Writers /\ R \subseteq Writers
    BY DEF Arrives
  <2> QED BY <1>1, <2>1, <2>2 DEF ObjectsShape, TrailShape
<1>5. ObjectsShape'
  <2>1. Items' \subseteq 1 .. nextItem' - 1 /\ nextItem' \in 1 .. MaxItem + 1
        /\ (\A h \in Items' : items'[h] \in ItemShape) /\ awaiting' \in 0 .. nextItem' - 1
    <3>1. Items' = Items /\ nextItem' = nextItem /\ awaiting' = awaiting
          /\ \A h \in Items : items'[h] \in ItemShape
      BY ONLY <1>3, UNCHANGED <<nextItem, awaiting, style>>
    <3>2. Items \subseteq 1 .. nextItem - 1 /\ nextItem \in 1 .. MaxItem + 1 /\ awaiting \in 0 .. nextItem - 1
      BY DEF ObjectsInv, ObjectsShape
    <3> QED BY ONLY <3>1, <3>2
  <2> QED BY <1>1, <1>2, <1>4, <2>1 DEF ObjectsShape, Steps
<1>6. ASSUME NEW u \in Writers, u # t PROVE WriterInv(u)'
  <2>1. Spares(u)
    <3>1. job'[u] = job[u] /\ nextItem' = nextItem /\ awaiting' = awaiting
      BY <1>2, <1>6 DEF Steps
    <3>2. \A h \in Items' : h \in Items /\ items'[h].by = items[h].by /\ items'[h].data = items[h].data
      BY ONLY <1>3
    <3> QED BY <1>1, <1>4, <3>1, <3>2 DEF Spares
  <2>2. SUFFICES ASSUME u \notin trail'.clash, job[u].kind = "copy"
                 PROVE  /\ job[u].at \in {"siblings", "copy"} /\ job[u].source \in Items' =>
                             /\ job[u].source \in Items
                             /\ items'[job[u].source].name = items[job[u].source].name
                        /\ job[u].at = "copy" =>
                             \A h \in Items' :
                               items'[h].place = job[u].place /\ SameName(items'[h].name, job[u].name) =>
                                 h \in Items /\ items[h].place = job[u].place /\ SameName(items[h].name, job[u].name)
    BY <2>1, OthersKeep DEF LeavesLook
  <2>3. u \notin trail.clash /\ u \notin Arrives(place, name) /\ u \notin R
    BY <1>4, <2>2
  <2>4. ASSUME job[u].at \in {"siblings", "copy"}, job[u].source \in Items'
        PROVE  job[u].source \in Items /\ items'[job[u].source].name = items[job[u].source].name
    <3>1. CASE job[u].source = job[t].source
      <4>1. name = job[u].name
        BY <2>2, <2>3, <2>4, <3>1
      <4>2. items[job[u].source].name = job[u].name
        BY <1>1, <1>3, <2>2, <2>3, <2>4 DEF WriterInv, LookInv
      <4> QED BY <1>3, <2>4, <3>1, <4>1, <4>2
    <3>2. CASE job[u].source # job[t].source
      BY ONLY <1>3, <2>4, <3>2
    <3> QED BY <3>1, <3>2
  <2>5. ASSUME job[u].at = "copy"
        PROVE  ~(place = job[u].place /\ SameName(name, job[u].name))
    BY <2>2, <2>3, <2>5 DEF Arrives, SameName
  <2>6. ASSUME job[u].at = "copy", NEW h \in Items', items'[h].place = job[u].place,
               SameName(items'[h].name, job[u].name)
        PROVE  h \in Items /\ items[h].place = job[u].place /\ SameName(items[h].name, job[u].name)
    <3>1. h \in Items /\ h # job[t].source
      BY <1>3, <2>5, <2>6
    <3>2. items'[h] = items[h]
      BY ONLY <1>3, <3>1
    <3> QED BY <2>6, <3>1, <3>2
  <2> QED BY <2>4, <2>6
<1>7. ByJob(t)' = ByJob(t) /\ WriterInv(t)
  BY <1>1, <1>2 DEF ByJob
<1>8. HandleInv(t)' /\ MadeInv(t)'
  <2>1. HandleInv(t)'
    BY <1>1, <1>2, <1>7 DEF WriterInv, HandleInv
  <2>2. Items' = Items /\ \A h \in Items : items'[h].by = items[h].by
    BY ONLY <1>3
  <2>3. MadeInv(t)'
    BY <1>2, <1>4, <1>7, <2>2 DEF WriterInv, MadeInv
  <2> QED BY <2>1, <2>3
<1>9. PartialInv(t)' /\ BytesInv(t)' /\ CopyInv(t)' /\ LookInv(t)'
  BY <1>1, <1>2, <1>4, <1>7 DEF WriterInv, PartialInv, BytesInv, CopyInv, LookInv
<1>10. WriterInv(t)'
  BY <1>8, <1>9 DEF WriterInv
<1> QED BY <1>5, <1>6, <1>10 DEF ObjectsInv

LEMMA KeepsMove == ASSUME ObjectsInv, NEW t \in Writers, MoveObject(t) PROVE ObjectsInv'
<1>1. /\ ObjectsShape /\ job[t].place \in Places /\ Starts(t, {"move", "rename"})
      /\ UNCHANGED <<nextItem, awaiting, style>> /\ job[t].at = "begin"
  BY JobTypes DEF ObjectsInv, MoveObject, Starts
<1>2. CASE Fails(t) /\ UNCHANGED <<items, trail>>
  BY <1>1, <1>2, KeepsFailure
<1>3. CASE /\ job[t].source \in Items
           /\ Relocate(job[t].source, job[t].place, items[job[t].source].name)
           /\ Answered(t, job[t].source)
  <2>1. items[job[t].source].name \in ItemNames
    BY <1>1, <1>3 DEF ObjectsShape, ItemShape
  <2> QED BY <1>1, <1>3, <2>1, KeepsRelocation
<1> QED BY <1>2, <1>3 DEF MoveObject

LEMMA KeepsRename == ASSUME ObjectsInv, NEW t \in Writers, RenameObject(t) PROVE ObjectsInv'
<1>1. /\ ObjectsShape /\ WriterInv(t) /\ Starts(t, {"move", "rename"})
      /\ UNCHANGED <<nextItem, awaiting, style>> /\ job[t].at = "begin"
  BY DEF ObjectsInv, RenameObject, Starts
<1>2. CASE Fails(t) /\ UNCHANGED <<items, trail>>
  BY <1>1, <1>2, KeepsFailure
<1>3. CASE /\ job[t].source \in Items
           /\ Relocate(job[t].source, items[job[t].source].place, job[t].name)
           /\ Answered(t, job[t].source)
  <2>1. items[job[t].source].place \in Places /\ job[t].name \in ItemNames
    BY <1>1, <1>3 DEF ObjectsShape, ItemShape, WriterInv, HandleInv
  <2> QED BY <1>1, <1>3, <2>1, KeepsRelocation
<1> QED BY <1>2, <1>3 DEF RenameObject

(* What the device answers a copy with. *)
LEMMA AnswersTypes ==
  ASSUME ObjectsShape, NEW t \in Writers, NEW h \in Nat,
         job' = [job EXCEPT ![t].at = "verify", ![t].handle = h]
  PROVE  /\ Steps(t) /\ job'[t].at = "verify" /\ job'[t].handle = h
         /\ job'[t].kind = job[t].kind /\ job'[t].made = job[t].made /\ job'[t].name = job[t].name
         /\ job'[t].place = job[t].place /\ job'[t].source = job[t].source
         /\ job'[t].partial = job[t].partial /\ job'[t].result = job[t].result
<1>1. job[t] \in JobShape
  BY DEF ObjectsShape
<1> DEFINE j == [job[t] EXCEPT !.at = "verify", !.handle = h]
<1>2. j \in JobShape
  BY <1>1 DEF JobShape
<1>3. job' = [job EXCEPT ![t] = j]
  BY DEF ObjectsShape
<1>4. job'[t] = j /\ Steps(t)
  BY <1>2, <1>3 DEF ObjectsShape, Steps
<1>5. /\ j.at = "verify" /\ j.handle = h
      /\ j.kind = job[t].kind /\ j.made = job[t].made /\ j.name = job[t].name
      /\ j.place = job[t].place /\ j.source = job[t].source
      /\ j.partial = job[t].partial /\ j.result = job[t].result
  BY <1>1 DEF JobShape
<1> QED BY <1>4, <1>5

(* What a copy by t does on the device: it writes over the objects of C,   *)
(* if any, and makes one, unless it wrote over those of its name.          *)
Copies(t, C) ==
  /\ C \subseteq Items /\ Items \subseteq Items' /\ Items' \subseteq Items \cup {nextItem}
  /\ \A h \in Items : /\ items'[h] \in ItemShape /\ items'[h].by = items[h].by
                      /\ items'[h].name = items[h].name /\ items'[h].place = items[h].place
                      /\ h \notin C => items'[h].data = items[h].data
  /\ nextItem \in Items' =>
       /\ nextItem <= MaxItem /\ nextItem' = nextItem + 1 /\ items'[nextItem] \in ItemShape
       /\ items'[nextItem].by = ByJob(t)
       /\ Arrives(items'[nextItem].place, items'[nextItem].name) \ {t} \subseteq trail'.clash
  /\ nextItem \notin Items' => nextItem' = nextItem
  /\ trail' \in TrailShape
  /\ trail'.clobbered = trail.clobbered \cup {[by |-> ByJob(t), item |-> h] : h \in C}
  /\ trail'.disturbed = trail.disturbed /\ trail'.unheard = trail.unheard
  /\ trail'.unseen = trail.unseen
  /\ trail.clash \subseteq trail'.clash /\ (t \in trail'.clash => t \in trail.clash)
  /\ UNCHANGED <<awaiting, style>>

LEMMA CopiesSpare ==
  ASSUME ObjectsInv, NEW t \in Writers, NEW u \in Writers, u # t, job'[u] = job[u], NEW C, Copies(t, C)
  PROVE  WriterInv(u)'
<1>1. /\ ObjectsShape /\ WriterInv(u) /\ nextItem \in Nat /\ nextItem <= MaxItem + 1
      /\ job[u].source \in Nat /\ job[u].source < nextItem /\ ByJob(t)[1] = t
      /\ nextItem \notin Items /\ MaxItem \in Nat
  <2>1. ObjectsShape /\ WriterInv(u)
    BY DEF ObjectsInv
  <2>2. nextItem \in Nat /\ job[u].source \in Nat /\ ByJob(t)[1] = t /\ MaxItem \in Nat
    BY <2>1, JobTypes, ObjectsAssumption
  <2>3. job[u].source < nextItem
    BY <2>1 DEF WriterInv, HandleInv
  <2> QED BY <2>1, <2>2, <2>3 DEF ObjectsShape
<1>2. nextItem' \in Nat /\ nextItem <= nextItem'
  BY <1>1 DEF Copies
<1>3. \A h \in C : Overwritten(h)'
  <2>1. SUFFICES ASSUME NEW h \in C PROVE Overwritten(h)'
    OBVIOUS
  <2>2. [by |-> ByJob(t), item |-> h] \in trail'.clobbered
    BY DEF Copies
  <2>3. [by |-> ByJob(t), item |-> h].item = h
    OBVIOUS
  <2> QED BY <2>2, <2>3 DEF Overwritten
<1>4. \A c \in trail'.clobbered : c \in trail.clobbered \/ c.by[1] # u
  BY <1>1 DEF Copies
<1>5. \A h \in Items' :
        \/ /\ h \in Items /\ items'[h].by = items[h].by
           /\ items'[h].data = items[h].data \/ h = awaiting \/ Overwritten(h)'
        \/ h = nextItem /\ h <= MaxItem /\ items'[h].by[1] # u
  BY <1>1, <1>3 DEF Copies
<1>6. Spares(u)
  BY <1>1, <1>2, <1>4, <1>5 DEF Spares, Copies
<1>7. LeavesLook(u)
  <2>1. SUFFICES ASSUME u \notin trail'.clash, job[u].kind = "copy"
                 PROVE  /\ job[u].at \in {"siblings", "copy"} /\ job[u].source \in Items' =>
                             /\ job[u].source \in Items
                             /\ items'[job[u].source].name = items[job[u].source].name
                        /\ job[u].at = "copy" =>
                             \A h \in Items' :
                               items'[h].place = job[u].place /\ SameName(items'[h].name, job[u].name) =>
                                 h \in Items /\ items[h].place = job[u].place /\ SameName(items[h].name, job[u].name)
    BY DEF LeavesLook
  <2>2. job[u].source # nextItem
    BY <1>1
  <2>3. ASSUME job[u].at = "copy", nextItem \in Items'
        PROVE  ~(items'[nextItem].place = job[u].place /\ SameName(items'[nextItem].name, job[u].name))
    <3>1. u \notin Arrives(items'[nextItem].place, items'[nextItem].name)
      BY <2>1, <2>3 DEF Copies
    <3> QED BY <2>1, <2>3, <3>1 DEF Arrives, SameName
  <2> QED BY <2>2, <2>3 DEF Copies
<1> QED BY <1>6, <1>7, OthersKeep

(* The copy itself, then: it wrote over nothing it could see, and what it  *)
(* was answered, if it was, names what it made, or its source, or nothing. *)
LEMMA CopiesKeep ==
  ASSUME ObjectsInv, NEW t \in Writers, job[t].kind = "copy", job[t].at = "copy", NEW C, Copies(t, C),
         NEW h \in Nat, job' = [job EXCEPT ![t].at = "verify", ![t].handle = h] \/ Fails(t),
         t \in trail.clash \/ \A g \in C : [by |-> ByJob(t), item |-> g] \in trail.unseen,
         h = PhonyHandle \/ (h = nextItem /\ nextItem \in Items')
  PROVE  ObjectsInv'
<1>1. ObjectsShape /\ (\A u \in Writers : WriterInv(u)) /\ WriterInv(t)
  BY DEF ObjectsInv
<1>2. /\ Steps(t)
      /\ job'[t].kind = job[t].kind /\ job'[t].made = job[t].made /\ job'[t].name = job[t].name
      /\ job'[t].place = job[t].place /\ job'[t].source = job[t].source
      /\ job'[t].partial = job[t].partial
      /\ \/ job'[t].at = "verify" /\ job'[t].handle = h /\ job'[t].result = job[t].result
         \/ job'[t].at = "done" /\ job'[t].handle = job[t].handle /\ job'[t].result = "error"
  BY <1>1, AnswersTypes, FailsTypes
<1>3. /\ nextItem \in Nat /\ nextItem >= 1 /\ nextItem <= MaxItem + 1 /\ MaxItem \in Nat
      /\ PhonyHandle \in Nat /\ PhonyHandle > MaxItem /\ awaiting \in Nat
      /\ job[t].source \in Nat /\ job[t].partial \in Nat /\ job[t].made \in Nat
      /\ ByJob(t)[1] = t /\ ByJob(t)[2] = job[t].made /\ ByJob(t)' = ByJob(t)
  <2>1. ByJob(t)' = ByJob(t)
    BY <1>2 DEF ByJob
  <2>2. nextItem >= 1 /\ nextItem <= MaxItem + 1
    BY <1>1 DEF ObjectsShape
  <2> QED BY <1>1, <2>1, <2>2, JobTypes, ObjectsAssumption
<1>4. nextItem' \in Nat /\ nextItem <= nextItem' /\ nextItem' <= MaxItem + 1
  BY <1>3 DEF Copies
<1>5. Items \subseteq 1 .. nextItem - 1
  BY <1>1 DEF ObjectsShape
<1>6. ObjectsShape'
  <2>1. Items' \subseteq 1 .. nextItem' - 1 /\ nextItem' \in 1 .. MaxItem + 1
    BY <1>3, <1>4, <1>5 DEF Copies
  <2>2. \A g \in Items' : items'[g] \in ItemShape
    BY DEF Copies
  <2>3. awaiting' \in 0 .. nextItem' - 1
    BY <1>1, <1>3, <1>4 DEF ObjectsShape, Copies
  <2> QED BY <1>1, <1>2, <2>1, <2>2, <2>3 DEF ObjectsShape, Steps, Copies
<1>7. ASSUME NEW u \in Writers, u # t PROVE WriterInv(u)'
  BY <1>2, <1>7, CopiesSpare DEF Steps
<1>8. job[t].result = "none" /\ job[t].source < nextItem /\ job[t].partial < nextItem /\ job[t].name \in ItemNames
  BY <1>1 DEF WriterInv, HandleInv
<1>9. HandleInv(t)'
  <2>1. job'[t].source < nextItem' /\ job'[t].partial < nextItem'
    BY <1>2, <1>3, <1>4, <1>8
  <2>2. job'[t].handle < nextItem' \/ job'[t].handle = PhonyHandle
    <3>1. job[t].handle \in Nat /\ (job[t].handle < nextItem \/ job[t].handle = PhonyHandle)
      BY <1>1, JobTypes DEF WriterInv, HandleInv
    <3> QED BY <1>2, <1>3, <1>4, <3>1 DEF Copies
  <2> QED BY <1>2, <1>8, <2>1, <2>2 DEF HandleInv
<1>10. MadeInv(t)'
  <2>1. \A g \in Items' : items'[g].by[1] = t => items'[g].by[2] <= job[t].made
    BY <1>1, <1>3 DEF WriterInv, MadeInv, Copies
  <2>2. \A c \in trail'.clobbered : c.by[1] = t => c.by[2] <= job[t].made
    BY <1>1, <1>3 DEF WriterInv, MadeInv, Copies
  <2> QED BY <1>2, <2>1, <2>2 DEF MadeInv
<1>11. PartialInv(t)' /\ BytesInv(t)'
  BY <1>2 DEF PartialInv, BytesInv
<1>12. CopyInv(t)'
  <2>1. PhonyHandle \notin Items'
    BY <1>3, <1>5 DEF Copies
  <2>2. job'[t].at = "verify" => Mine(t)'
    BY <1>2, <1>3, <2>1 DEF Mine, Copies
  <2> QED BY <1>2, <1>8, <2>2 DEF CopyInv
<1>13. LookInv(t)'
  <2>1. SUFFICES ASSUME t \notin trail'.clash, NEW c \in trail'.clobbered, c.by = ByJob(t)
                 PROVE  c \in trail'.unseen
    BY <1>2, <1>3 DEF LookInv
  <2>2. t \notin trail.clash /\ trail'.unseen = trail.unseen
    BY <2>1 DEF Copies
  <2>3. c \in trail.clobbered \/ \E g \in C : c = [by |-> ByJob(t), item |-> g]
    BY <2>1 DEF Copies
  <2> QED BY <1>1, <2>1, <2>2, <2>3 DEF WriterInv, LookInv
<1>14. WriterInv(t)'
  BY <1>9, <1>10, <1>11, <1>12, <1>13 DEF WriterInv
<1> QED BY <1>6, <1>7, <1>14 DEF ObjectsInv

LEMMA KeepsCopyObject == ASSUME ObjectsInv, NEW t \in Writers, CopyObject(t) PROVE ObjectsInv'
<1> DEFINE j == job[t]
           name == items[j.source].name
           exact == Named(j.place, name)
           variants == {h \in In(j.place) : SameName(items[h].name, name)} \ exact
           answered(h) == job' = [job EXCEPT ![t].at = "verify", ![t].handle = h] \/ Fails(t)
           overwritten(S) == [o \in Items |-> IF o \in S THEN [items[o] EXCEPT !.data = items[j.source].data]
                                              ELSE items[o]]
           made == [o \in Items \cup {nextItem} |->
                      IF o = nextItem THEN Item(name, j.place, ByJob(t), items[j.source].data)
                      ELSE overwritten(variants)[o]]
           marks(S) == {[by |-> ByJob(t), item |-> h] : h \in S}
<1>1. /\ ObjectsShape /\ (\A u \in Writers : WriterInv(u)) /\ WriterInv(t)
      /\ job[t].kind = "copy" /\ job[t].at = "copy" /\ job[t].source \in Items
      /\ UNCHANGED <<awaiting, style>>
  BY DEF ObjectsInv, CopyObject
<1>2. /\ nextItem \in Nat /\ nextItem \notin Items /\ job[t].place \in Places /\ PhonyHandle \in Nat
      /\ job[t].source \in Nat /\ ByJob(t) \in Makers /\ ByJob(t) \in Writers \X Nat
      /\ name \in ItemNames /\ items[job[t].source].data \in Contents /\ job[t].result = "none"
      /\ trail \in TrailShape
  <2>1. /\ nextItem \in Nat /\ job[t].place \in Places /\ PhonyHandle \in Nat /\ job[t].source \in Nat
        /\ ByJob(t) \in Makers /\ ByJob(t) \in Writers \X Nat
    BY <1>1, JobTypes, ObjectsAssumption
  <2>2. nextItem \notin Items
    BY <1>1, <2>1 DEF ObjectsShape
  <2>3. name \in ItemNames /\ items[job[t].source].data \in Contents
    BY <1>1 DEF ObjectsShape, ItemShape
  <2> QED BY <1>1, <2>1, <2>2, <2>3 DEF WriterInv, HandleInv, ObjectsShape
<1>3. exact \subseteq Items /\ variants \subseteq Items
  BY DEF Named, In
<1>4. t \in trail.clash \/ \A h \in exact \cup variants : [by |-> ByJob(t), item |-> h] \in trail.unseen
  <2>1. SUFFICES ASSUME NEW h \in In(job[t].place), SameName(items[h].name, name), t \notin trail.clash
                 PROVE  [by |-> ByJob(t), item |-> h] \in trail.unseen
    BY DEF Named, SameName
  <2>2. name = job[t].name
    BY <1>1, <2>1 DEF WriterInv, LookInv
  <2> QED BY <1>1, <2>1, <2>2 DEF WriterInv, LookInv
<1>5. ASSUME NEW S \in SUBSET Items, NEW h \in Items
      PROVE  /\ overwritten(S)[h] \in ItemShape /\ overwritten(S)[h].by = items[h].by
             /\ overwritten(S)[h].name = items[h].name /\ overwritten(S)[h].place = items[h].place
             /\ h \notin S => overwritten(S)[h].data = items[h].data
  <2>1. items[h] \in ItemShape
    BY <1>1 DEF ObjectsShape
  <2>2. overwritten(S)[h] = IF h \in S THEN [items[h] EXCEPT !.data = items[j.source].data] ELSE items[h]
    OBVIOUS
  <2> QED BY <1>2, <2>1, <2>2 DEF ItemShape
<1>6. ASSUME NEW S \in SUBSET Items PROVE marks(S) \subseteq [by : Writers \X Nat, item : Nat]
  BY <1>1, MarksTypes DEF Marks
<1>7. CASE Fails(t) /\ UNCHANGED <<items, nextItem, trail>>
  BY <1>1, <1>7, KeepsFailure
<1>8. CASE /\ exact # {} /\ items' = overwritten(exact)
           /\ trail' = [trail EXCEPT !.clobbered = @ \cup marks(exact)]
           /\ answered(PhonyHandle) /\ UNCHANGED nextItem
  <2>1. Items' = Items /\ \A h \in Items : items'[h] = overwritten(exact)[h]
    BY <1>8 DEF Items
  <2>2. /\ trail' \in TrailShape /\ trail'.clobbered = trail.clobbered \cup marks(exact)
        /\ trail'.disturbed = trail.disturbed /\ trail'.unheard = trail.unheard
        /\ trail'.clash = trail.clash /\ trail'.unseen = trail.unseen
    BY <1>2, <1>3, <1>6, <1>8 DEF TrailShape
  <2>3. \A h \in Items :
          /\ items'[h] \in ItemShape /\ items'[h].by = items[h].by
          /\ items'[h].name = items[h].name /\ items'[h].place = items[h].place
          /\ h \notin exact => items'[h].data = items[h].data
    <3>1. exact \in SUBSET Items
      BY <1>3
    <3> HIDE DEF overwritten, exact
    <3> QED BY <1>5, <2>1, <3>1
  <2>4. Copies(t, exact)
    BY <1>1, <1>2, <1>3, <1>8, <2>1, <2>2, <2>3 DEF Copies
  <2>5. t \in trail.clash \/ \A g \in exact : [by |-> ByJob(t), item |-> g] \in trail.unseen
    BY <1>4
  <2> HIDE DEF name, exact, overwritten
  <2> QED BY <1>1, <1>2, <1>8, <2>4, <2>5, CopiesKeep
<1>9. CASE /\ job' = [job EXCEPT ![t].at = "verify", ![t].handle = job[t].source]
           /\ UNCHANGED <<items, nextItem, trail>>
  <2>1. /\ Steps(t) /\ job'[t].at = "verify" /\ job'[t].handle = job[t].source
        /\ job'[t].kind = job[t].kind /\ job'[t].made = job[t].made /\ job'[t].name = job[t].name
        /\ job'[t].place = job[t].place /\ job'[t].source = job[t].source
        /\ job'[t].partial = job[t].partial /\ job'[t].result = job[t].result
    BY <1>1, <1>2, <1>9, AnswersTypes
  <2>2. ByJob(t)' = ByJob(t)
    BY <2>1 DEF ByJob
  <2>3. HandleInv(t)' /\ MadeInv(t)'
    BY <1>1, <1>2, <1>9, <2>1 DEF WriterInv, HandleInv, MadeInv, Items
  <2>4. PartialInv(t)' /\ BytesInv(t)' /\ CopyInv(t)'
    BY <1>1, <1>2, <2>1 DEF PartialInv, BytesInv, CopyInv
  <2>5. LookInv(t)'
    BY <1>1, <1>9, <2>1, <2>2 DEF WriterInv, LookInv
  <2>6. WriterInv(t)'
    BY <2>3, <2>4, <2>5 DEF WriterInv
  <2> QED BY <1>1, <1>9, <2>1, <2>6, OwnStep
<1>10. CASE /\ nextItem <= MaxItem /\ nextItem' = nextItem + 1
            /\ items' = IF style = "android" THEN made ELSE With(nextItem, made[nextItem])
            /\ trail' = [trail EXCEPT
                 !.clobbered = @ \cup marks(IF style = "android" THEN variants ELSE {}),
                 !.clash = @ \cup (Arrives(j.place, name) \ {t})]
            /\ answered(nextItem)
  <2> DEFINE C == IF style = "android" THEN variants ELSE {}
             item == Item(name, j.place, ByJob(t), items[j.source].data)
  <2>1. /\ C \in SUBSET Items
        /\ t \in trail.clash \/ \A g \in C : [by |-> ByJob(t), item |-> g] \in trail.unseen
    BY <1>3, <1>4
  <2>2. Items' = Items \cup {nextItem} /\ items'[nextItem] = item
        /\ \A h \in Items : items'[h] = overwritten(C)[h]
    <3>1. CASE style = "android"
      <4>1. items' = made
        BY <1>10, <3>1
      <4>2. DOMAIN made = Items \cup {nextItem} /\ made[nextItem] = item
            /\ \A h \in Items : made[h] = overwritten(variants)[h]
        BY <1>2
      <4> QED BY <3>1, <4>1, <4>2 DEF Items
    <3>2. CASE style # "android"
      <4>1. items' = With(nextItem, item)
        BY <1>10, <3>2
      <4>2. \A h \in Items : overwritten({})[h] = items[h]
        OBVIOUS
      <4> QED BY <1>2, <3>2, <4>1, <4>2 DEF With, Items
    <3> QED BY <3>1, <3>2
  <2>3. item \in ItemShape /\ item.by = ByJob(t) /\ item.place = job[t].place /\ item.name = name
    BY <1>2 DEF Item, ItemShape
  <2>4. /\ trail' \in TrailShape /\ trail'.clobbered = trail.clobbered \cup marks(C)
        /\ trail'.disturbed = trail.disturbed /\ trail'.unheard = trail.unheard
        /\ trail'.clash = trail.clash \cup (Arrives(job[t].place, name) \ {t})
        /\ trail'.unseen = trail.unseen
    <3>1. trail' = [trail EXCEPT !.clobbered = @ \cup marks(C),
                                 !.clash = @ \cup (Arrives(job[t].place, name) \ {t})]
      BY <1>10
    <3>2. Arrives(job[t].place, name) \subseteq Writers
      BY DEF Arrives
    <3>3. marks(C) \subseteq [by : Writers \X Nat, item : Nat]
      BY <1>6, <2>1
    <3> QED BY <1>2, <3>1, <3>2, <3>3 DEF TrailShape
  <2>5. \A h \in Items :
          /\ items'[h] \in ItemShape /\ items'[h].by = items[h].by
          /\ items'[h].name = items[h].name /\ items'[h].place = items[h].place
          /\ h \notin C => items'[h].data = items[h].data
    <3> HIDE DEF overwritten, C, item
    <3> QED BY <1>5, <2>1, <2>2
  <2>6. Copies(t, C)
    <3> HIDE DEF C, item, name, overwritten, made
    <3>1. items'[nextItem].by = ByJob(t) /\ items'[nextItem].place = job[t].place
          /\ items'[nextItem].name = name /\ items'[nextItem] \in ItemShape
      BY <2>2, <2>3
    <3>2. Arrives(items'[nextItem].place, items'[nextItem].name) \ {t} \subseteq trail'.clash
      BY <2>4, <3>1
    <3>3. C \subseteq Items /\ Items \subseteq Items' /\ Items' \subseteq Items \cup {nextItem}
      BY <2>1, <2>2
    <3>4. nextItem \in Items' /\ nextItem <= MaxItem /\ nextItem' = nextItem + 1
      BY <1>10, <2>2
    <3>5. trail.clash \subseteq trail'.clash /\ (t \in trail'.clash => t \in trail.clash)
      BY <2>4
    <3> QED BY <1>1, <2>4, <2>5, <3>1, <3>2, <3>3, <3>4, <3>5 DEF Copies
  <2>7. answered(nextItem) /\ nextItem \in Items'
    BY <1>10, <2>2
  <2> HIDE DEF C, item, name, overwritten, made, marks
  <2> QED BY <1>1, <1>2, <2>1, <2>6, <2>7, CopiesKeep
<1> QED
  BY <1>7, <1>8, <1>9, <1>10 DEF CopyObject, Marks

(* Every step of the device, of the calls and of the phone keeps the invariant. *)
LEMMA ObjectsSteps == ObjectsInv /\ [ObjectsNext]_objectsVars => ObjectsInv'
<1> SUFFICES ASSUME ObjectsInv, [ObjectsNext]_objectsVars PROVE ObjectsInv'
  OBVIOUS
<1>1. ObjectsShape /\ nextItem \in Nat /\ nextItem >= 1
  BY ObjectsAssumption DEF ObjectsInv, ObjectsShape
<1>2. CASE UNCHANGED objectsVars
  BY <1>2 DEF ObjectsInv, ObjectsShape, WriterInv, HandleInv, MadeInv, PartialInv, BytesInv, CopyInv,
     LookInv, Mine, Items, In, ByJob, Overwritten, objectsVars
<1>3. ASSUME NEW t \in Writers, CallCreate(t) PROVE ObjectsInv'
  <2>1. PICK kind \in JobKinds \cap {"upload", "folder"}, name \in ItemNames, place \in Places :
          Call(t, kind, name, place, Nothing)
    BY <1>3 DEF CallCreate
  <2> QED BY <1>1, <2>1, KeepsCall DEF Nothing
<1>4. ASSUME NEW t \in Writers, CallChange(t) PROVE ObjectsInv'
  <2>1. PICK kind \in JobKinds \cap {"delete", "move", "rename", "copy"}, source \in Items,
             place \in Places, name \in ItemNames : Call(t, kind, name, place, source)
    BY <1>4 DEF CallChange
  <2>2. source \in Nat /\ source < nextItem
    BY <1>1 DEF ObjectsShape
  <2> QED BY <2>1, <2>2, KeepsCall
<1>5. ASSUME NEW t \in Writers, SendObjectInfoRefused(t) PROVE ObjectsInv'
  BY <1>5, KeepsFailure DEF SendObjectInfoRefused, Starts
<1>6. ASSUME NEW t \in Writers, CopyFails(t) PROVE ObjectsInv'
  BY <1>6, KeepsFailure DEF CopyFails
<1>7. ASSUME NEW t \in Writers, Works(t) PROVE ObjectsInv'
  BY <1>5, <1>6, <1>7, KeepsObjectInfo, KeepsUnheard, KeepsData, KeepsDataFailure, KeepsReadsName,
     KeepsSiblings, KeepsCopyObject, KeepsVerify, KeepsDelete, KeepsMove, KeepsRename DEF Works
<1>8. ASSUME NEW name \in ItemNames, NEW place \in Places, PhoneCreates(name, place) PROVE ObjectsInv'
  BY <1>8, KeepsPhone
<1> QED BY <1>2, <1>3, <1>4, <1>7, <1>8 DEF ObjectsNext
-----------------------------------------------------------------------------
(* The invariant holds from the first files on, for any number of tasks,   *)
(* names, folders and files, and however the device copies (usb.rs,        *)
(* upload_with_progress, copy_object, verify_copy).                        *)
THEOREM ObjectsAreKept == ObjectsSpec => []ObjectsInv
  BY ObjectsBegin, ObjectsSteps, PTL DEF ObjectsSpec

(* Every handle in use was handed out, and every call is at one of its     *)
(* steps (UsbBackend's handlers and the device's object table).            *)
THEOREM ObjectsAreTyped == ObjectsSpec => []ObjectsTypeOK
<1>1. ObjectsInv => ObjectsTypeOK
  <2> SUFFICES ASSUME ObjectsInv PROVE ObjectsTypeOK
    OBVIOUS
  <2>1. ObjectsShape /\ nextItem \in Nat /\ MaxItem \in Nat /\ nextItem <= MaxItem + 1
    BY ObjectsAssumption DEF ObjectsInv, ObjectsShape
  <2>2. ASSUME NEW t \in Writers
        PROVE  /\ job[t].at \in {"idle", "begin", "data", "siblings", "copy", "verify", "done"}
               /\ job[t].result \in {"none", "ok", "error"}
               /\ job[t].handle \in (0 .. MaxItem) \cup {PhonyHandle} /\ job[t].partial \in 0 .. MaxItem
    <3>1. job[t] \in JobShape /\ job[t].handle \in Nat /\ job[t].partial \in Nat
      BY <2>1, JobTypes
    <3>2. job[t].partial < nextItem /\ (job[t].handle < nextItem \/ job[t].handle = PhonyHandle)
      BY DEF ObjectsInv, WriterInv, HandleInv
    <3>3. /\ job[t].at \in {"idle", "begin", "data", "siblings", "copy", "verify", "done"}
          /\ job[t].result \in {"none", "ok", "error"}
      BY <3>1 DEF JobShape
    <3>4. job[t].handle \in (0 .. MaxItem) \cup {PhonyHandle} /\ job[t].partial \in 0 .. MaxItem
      BY ONLY <2>1, <3>1, <3>2
    <3> QED BY <3>3, <3>4
  <2>3. awaiting \in 0 .. MaxItem
    BY <2>1 DEF ObjectsShape
  <2>4. \A h \in Items : items[h].name \in ItemNames /\ items[h].place \in Places
    BY <2>1 DEF ObjectsShape, ItemShape
  <2> QED BY <2>1, <2>2, <2>3, <2>4 DEF ObjectsTypeOK, ObjectsShape
<1> QED BY <1>1, ObjectsAreKept, PTL

(* An upload that succeeded with nobody between its two transactions has   *)
(* its own bytes in the object it names, and an object left without data   *)
(* was named to the caller (upload_with_progress, PartialObject).          *)
THEOREM UploadsTellTheTruth == ObjectsSpec => []UploadsAreTruthful
<1>1. ObjectsInv => UploadsAreTruthful
  BY DEF ObjectsInv, WriterInv, BytesInv, PartialInv, UploadsAreTruthful, AloneUploadsKeepTheirBytes,
     PartialsAreSurfaced, Uploaded
<1> QED BY <1>1, ObjectsAreKept, PTL

(* The handle a copy returns is of an object this copy made, and it wrote  *)
(* over another only if that came, or the source was renamed, after it had *)
(* looked, or the device could not describe that one to its look           *)
(* (copy_object, collect_in, verify_copy).                                 *)
THEOREM CopiesTellTheTruth == ObjectsSpec => []CopiesAreTruthful
<1>1. ObjectsInv => CopiesAreTruthful
  <2> SUFFICES ASSUME ObjectsInv PROVE CopiesAreTruthful
    OBVIOUS
  <2>1. CopyIsReal
    BY DEF ObjectsInv, WriterInv, CopyInv, Mine, CopyIsReal
  <2>2. ClobberNeedsRace
    BY DEF ObjectsInv, WriterInv, LookInv, ClobberNeedsRace
  <2> QED BY <2>1, <2>2 DEF CopiesAreTruthful
<1> QED BY <1>1, ObjectsAreKept, PTL
=============================================================================
