---------------------------- MODULE BackendProofs ----------------------------
(***************************************************************************)
(* Proofs about the two backends.  Of the USB backend's listings: a folder *)
(* listing is exact, whichever requests served it and whatever the phone   *)
(* did meanwhile, a race alone never costs a device its fast path, and a   *)
(* cancelled listing sends at most one request more.  Of the Windows       *)
(* worker: a read delivers its own bytes, and an upload's verdict is what  *)
(* the device committed.                                                   *)
(*                                                                         *)
(* A listing is exact because what stayed in the folder is within each     *)
(* answer, and each answer is within what was ever there: the invariant    *)
(* (ListInv) carries both through the four property lists, the sizes and   *)
(* the folders left.  The worker's (WpdInv) says that a request is held by *)
(* one party at a time under an id of its own, so that a step disturbs one *)
(* channel, and that the units ahead of a reader are those it asked for    *)
(* next (FlowOK).                                                          *)
(***************************************************************************)
EXTENDS MCBackends, FiniteSetTheorems, SequenceTheorems, TLAPS

(* The shape of a call and of what is remembered about it. *)
CallShape ==
  [mode : ListingModes \cup {"collect"}, made : Nat, start : Parents, visit : Seq(Folders),
   objects : Seq(Objects), skipped : SUBSET Objects, verdict : {"none", "ok", "error"},
   at : {"idle", "start", "required", "optional", "all", "folder", "samsung", "info", "size",
         "collected", "done"},
   folder : Folders \cup {RootHandle}, asked : Nat,
   found : [1 .. 4 -> SUBSET Objects], alien : BOOLEAN, handles : Seq(Objects),
   accepts : SUBSET Nat, listed : Seq(Objects), omitted : SUBSET Objects]

HistoryShape ==
  [changes : Nat, stayed : SUBSET Objects, ever : SUBSET Objects, late : Nat,
   raced : BOOLEAN, walkRaced : BOOLEAN]

ListingShape ==
  /\ dev \in ListedDevices /\ off \in BOOLEAN /\ token \in BOOLEAN
  /\ call \in CallShape /\ history \in HistoryShape

(* An object that is in a folder is in one that is there. *)
TreeInv ==
  /\ tree \in [Objects -> Parents]
  /\ \A h \in Objects : tree[h] \in Folders => tree[tree[h]] # NotThere

(* What stayed in the folder since its listing began is there now, and     *)
(* what is there now was there at some time since.                         *)
FolderInv ==
  call.at # "idle" => /\ history.stayed \subseteq Children(call.folder)
                      /\ Children(call.folder) \subseteq history.ever

(* Each answer of the property lists holds all that stayed, on a device    *)
(* that serves them, and nothing that was never there, unless it is marked *)
(* as alien; without a race it is what the folder holds.                   *)
AnswersInv(found, alien, asked) ==
  /\ \A i \in 1 .. 4 :
       /\ i > asked \/ dev.lists = "depth0" => found[i] = {}
       /\ i > 1 \/ ~alien => found[i] \subseteq history.ever
  /\ asked >= 1 /\ dev.lists # "depth0" => history.stayed \subseteq found[1]
  /\ ~history.raced /\ dev.lists = "serves" /\ dev.bad = {} =>
       ~alien /\ \A i \in 1 .. asked : found[i] = Children(call.folder)

RequiredInv ==
  call.at = "required" =>
    /\ call.folder # RootHandle /\ call.asked \in 0 .. 3 /\ call.listed = <<>>
    /\ AnswersInv(call.found, call.alien, call.asked)

(* Nothing is listed before the handles are known, and a listing of the    *)
(* root asks for parent 0 only where 0xFFFFFFFF is declined.               *)
UnresolvedInv ==
  /\ call.at \in {"start", "all", "folder", "samsung"} => call.listed = <<>>
  /\ call.at = "start" => call.asked = 0 /\ call.found = NoAnswers /\ ~call.alien
  /\ call.at \in {"all", "samsung"} => call.folder = RootHandle
  /\ call.at = "folder" /\ call.folder = RootHandle => dev.all = "declines"

(* Where the storage's id marks the root, no folder with that handle can   *)
(* hold one of the objects still to be asked about.                        *)
Unambiguous ==
  \/ dev.storage \notin call.accepts
  \/ dev.storage \notin Folders
  \/ tree[dev.storage] = NotThere
  \/ ToSet(call.handles) \subseteq history.ever

(* The objects still to be asked about are all that may be missing, and    *)
(* the parent filter accepts the children of this folder alone.            *)
InfoInv ==
  call.at \in {"info", "size"} =>
    /\ history.stayed \subseteq ToSet(call.handles) \cup ToSet(call.listed) \cup call.omitted
    /\ ToSet(call.listed) \subseteq history.ever
    /\ IF call.folder = RootHandle
       THEN /\ dev.mark \in call.accepts
            /\ call.accepts \subseteq {RootHandle, AllHandle, dev.storage}
            /\ Unambiguous
       ELSE call.accepts = {call.folder}

(* A listing that is complete is exact. *)
ListedInv ==
  call.at \in {"optional", "collected"} =>
    /\ history.stayed \subseteq ToSet(call.listed) \cup call.omitted
    /\ ToSet(call.listed) \subseteq history.ever

(* A request on its way under a set token was the last one not checked.    *)
CancelInv ==
  /\ history.late <= 1
  /\ ~token => history.late = 0
  /\ history.late = 1 => call.at \notin {"all", "samsung", "size"}

ExactInv == TreeInv /\ FolderInv /\ RequiredInv /\ UnresolvedInv /\ InfoInv /\ ListedInv
ListInv == ListingShape /\ ExactInv /\ CancelInv
-----------------------------------------------------------------------------
(* Sequences of the members of a set *)

(* SetToSeq gives a sequence of just the members of the set. *)
LEMMA SeqOfSet ==
  ASSUME NEW S, IsFiniteSet(S)
  PROVE  SetToSeq(S) \in Seq(S) /\ ToSet(SetToSeq(S)) = S
<1> DEFINE n == Cardinality(S)
           g == SetToSeq(S)
<1>1. n \in Nat /\ ExistsBijection(1 .. n, S)
  BY FS_CardinalityType
<1>2. \E f \in [1 .. n -> S] : IsInjective(f)
  BY <1>1 DEF ExistsBijection, Bijection, Injection
<1>3. g \in [1 .. n -> S] /\ IsInjective(g)
  BY <1>2 DEF SetToSeq
<1>4. g \in Injection(1 .. n, S)
  BY <1>3 DEF Injection
<1>5. IsFiniteSet(1 .. n) /\ Cardinality(1 .. n) = n
  BY <1>1, FS_Interval
<1>6. g \in Surjection(1 .. n, S)
  BY <1>4, <1>5, FS_Injection
<1>7. \A x \in S : \E i \in 1 .. n : g[i] = x
  BY <1>6 DEF Surjection
<1>8. g \in Seq(S) /\ DOMAIN g = 1 .. n
  BY <1>1, <1>3, IsASeq
<1> QED BY <1>3, <1>7, <1>8 DEF ToSet

(* The first of a sequence and the rest of it are all that is in it. *)
LEMMA SetOfTail ==
  ASSUME NEW S, NEW s \in Seq(S), s # <<>>
  PROVE  /\ Head(s) \in S /\ Tail(s) \in Seq(S)
         /\ ToSet(s) = {Head(s)} \cup ToSet(Tail(s))
<1>1. /\ Head(s) \in S /\ Tail(s) \in Seq(S)
      /\ Len(s) \in Nat \ {0} /\ Len(Tail(s)) = Len(s) - 1
      /\ \A i \in 1 .. Len(Tail(s)) : Tail(s)[i] = s[i + 1]
  BY HeadTailProperties, LenProperties, EmptySeq
<1>2. ToSet(s) = {s[i] : i \in 1 .. Len(s)} /\ ToSet(Tail(s)) = {Tail(s)[i] : i \in 1 .. Len(Tail(s))}
  BY <1>1, LenProperties DEF ToSet
<1>3. ASSUME NEW x \in ToSet(s) PROVE x \in {Head(s)} \cup ToSet(Tail(s))
  <2>1. PICK i \in 1 .. Len(s) : x = s[i]
    BY <1>2
  <2>2. CASE i = 1
    BY <2>1, <2>2
  <2>3. CASE i # 1
    <3>1. i - 1 \in 1 .. Len(Tail(s)) /\ Tail(s)[i - 1] = s[i - 1 + 1] /\ i - 1 + 1 = i
      BY <1>1, <2>3
    <3> QED BY <1>2, <2>1, <3>1
  <2> QED BY <2>2, <2>3
<1>4. ASSUME NEW x \in ToSet(Tail(s)) PROVE x \in ToSet(s)
  <2>1. PICK i \in 1 .. Len(Tail(s)) : x = Tail(s)[i]
    BY <1>2
  <2>2. i + 1 \in 1 .. Len(s)
    BY <1>1
  <2> QED BY <1>1, <1>2, <2>1, <2>2
<1>5. Head(s) \in ToSet(s)
  <2>1. 1 \in 1 .. Len(s) /\ Head(s) = s[1]
    BY <1>1
  <2> QED BY <1>2, <2>1
<1> QED BY <1>1, <1>3, <1>4, <1>5

(* Appending adds one member. *)
LEMMA SetOfAppend ==
  ASSUME NEW S, NEW s \in Seq(S), NEW x \in S
  PROVE  Append(s, x) \in Seq(S) /\ ToSet(Append(s, x)) = ToSet(s) \cup {x}
<1>1. /\ Append(s, x) \in Seq(S) /\ Len(s) \in Nat /\ Len(Append(s, x)) = Len(s) + 1
      /\ \A i \in 1 .. Len(s) : Append(s, x)[i] = s[i]
      /\ Append(s, x)[Len(s) + 1] = x
  BY AppendProperties, LenProperties
<1>2. /\ DOMAIN s = 1 .. Len(s)
      /\ DOMAIN Append(s, x) = 1 .. Len(Append(s, x))
      /\ \A i : i \in 1 .. Len(Append(s, x)) <=> i \in 1 .. Len(s) \/ i = Len(s) + 1
  BY <1>1, LenProperties
<1>3. ASSUME NEW y PROVE y \in ToSet(Append(s, x)) <=> y \in ToSet(s) \/ y = x
  BY <1>1, <1>2 DEF ToSet
<1> QED BY <1>1, <1>3

LEMMA SetOfEmpty == ToSet(<<>>) = {}
  BY DEF ToSet
-----------------------------------------------------------------------------
(* Listings: every step keeps the invariant *)

(* What the constants and the device are. *)
LEMMA Handles ==
  /\ AllHandle \in Nat /\ RootHandle = 0 /\ NotThere = AllHandle + 1
  /\ \A h \in Objects : h \in Nat /\ h > 0 /\ h < AllHandle
  /\ Folders \subseteq Objects /\ Files \subseteq Objects /\ Folders \cap Files = {}
  /\ \A p \in Parents : p \in Nat /\ (p = RootHandle \/ p = NotThere \/ p \in Folders)
  /\ RootHandle \notin Objects /\ NotThere \notin Objects /\ RootHandle # NotThere
  BY ListingAssumption DEF RootHandle, NotThere, Objects, Parents

LEMMA DeviceFacts ==
  ASSUME dev \in ListedDevices
  PROVE  /\ dev.mark \in {RootHandle, AllHandle, dev.storage} /\ dev.storage \in Nat
         /\ dev.storage # RootHandle /\ dev.storage # AllHandle
         /\ dev.mark = dev.storage => dev.storage \notin Objects
         /\ dev.all = "declines" /\ dev.zero # "invalid" => dev.mark = RootHandle
  BY ListingAssumption, RootMarkAssumption DEF RootHandle

LEMMA ListingStarts == ListingInit => ListInv
<1> SUFFICES ASSUME ListingInit PROVE ListInv
  OBVIOUS
<1>1. ListingShape
  BY EmptySeq, Handles
  DEF ListingInit, ListingShape, CallShape, HistoryShape, NoCall, NoAnswers, Required, Parents
<1>2. TreeInv
  BY ListingAssumption DEF ListingInit, TreeInv
<1> QED
  BY <1>1, <1>2 DEF ListingInit, ListInv, ExactInv, FolderInv, RequiredInv, UnresolvedInv, InfoInv,
     ListedInv, CancelInv, NoCall

(* The sets of handles the device may answer with. *)
LEMMA HandleSets ==
  /\ \A f : Children(f) \subseteq Objects /\ IsFiniteSet(Children(f))
  /\ Present \subseteq Objects /\ IsFiniteSet(Present)
  /\ \A property : HasValue(property) \subseteq Objects
<1>1. \A S \in SUBSET Objects : IsFiniteSet(S)
  BY ListingAssumption, FS_Subset
<1> QED BY <1>1 DEF Children, Present, HasValue

(* The phone's changes. *)
LEMMA TreeChanges ==
  ASSUME ListInv, NEW h \in Objects, NEW p \in Parents, ChangeTree(h, p)
  PROVE  ListInv'
<1> USE Handles DEF ListInv, ExactInv
<1>1. /\ call' = call /\ dev' = dev /\ off' = off /\ token' = token
      /\ call.at \notin {"idle", "done"}
      /\ tree' = [tree EXCEPT ![h] = p] /\ tree \in [Objects -> Parents]
  BY DEF ChangeTree, listing, TreeInv
<1>2. /\ \A f : Children(f)' \subseteq Objects
      /\ history' = [history EXCEPT !.changes = @ + 1, !.stayed = @ \cap Children(call.folder)',
                                    !.ever = @ \cup Children(call.folder)', !.raced = TRUE,
                                    !.walkRaced = TRUE]
  BY <1>1 DEF ChangeTree, Children
<1>3. ListingShape'
  <2>1. Children(call.folder)' \in SUBSET Objects
    BY <1>2
  <2>2. history' \in HistoryShape
    <3>1. /\ history \in HistoryShape /\ history.changes + 1 \in Nat
          /\ history.stayed \cap Children(call.folder)' \in SUBSET Objects
          /\ history.ever \cup Children(call.folder)' \in SUBSET Objects
      BY <2>1 DEF ListingShape, HistoryShape
    <3> QED BY ONLY <3>1, <1>2 DEF HistoryShape
  <2> QED BY <1>1, <2>2 DEF ListingShape
<1>4. /\ history'.stayed \subseteq history.stayed /\ history.ever \subseteq history'.ever
      /\ history'.stayed \subseteq Children(call.folder)'
      /\ Children(call.folder)' \subseteq history'.ever
      /\ history'.raced /\ history'.late = history.late
  BY <1>2 DEF ListingShape, HistoryShape
<1>5. TreeInv'
  <2>1. tree' \in [Objects -> Parents]
    BY <1>1
  <2>2. ASSUME NEW o \in Objects, tree'[o] \in Folders PROVE tree'[tree'[o]] # NotThere
    <3>1. CASE o = h
      BY <1>1, <2>2, <3>1 DEF ChangeTree
    <3>2. CASE o # h
      <4>1. tree'[o] = tree[o] /\ tree[tree[o]] # NotThere
        BY <1>1, <2>2, <3>2 DEF TreeInv
      <4>2. tree[o] = h => p # NotThere
        BY <3>2 DEF ChangeTree, Children
      <4> QED BY <1>1, <2>2, <4>1, <4>2
    <3> QED BY <3>1, <3>2
  <2> QED BY <2>1, <2>2 DEF TreeInv
<1>6. FolderInv'
  BY <1>1, <1>4 DEF FolderInv
<1>7. RequiredInv'
  <2>1. AnswersInv(call.found, call.alien, call.asked) =>
          AnswersInv(call.found, call.alien, call.asked)'
    BY <1>1, <1>4 DEF AnswersInv
  <2> QED BY <1>1, <1>4, <2>1 DEF RequiredInv
<1>8. UnresolvedInv' /\ CancelInv'
  BY <1>1, <1>4 DEF UnresolvedInv, CancelInv
<1>9. Unambiguous => Unambiguous'
  <2>1. \A f \in Folders : tree[f] = NotThere => tree'[f] = NotThere
    BY <1>1 DEF ChangeTree
  <2> QED BY <1>1, <1>4, <2>1 DEF Unambiguous
<1>10. InfoInv'
  BY <1>1, <1>4, <1>9 DEF InfoInv
<1>11. ListedInv'
  BY <1>1, <1>4 DEF ListedInv
<1> QED BY <1>3, <1>5, <1>6, <1>7, <1>8, <1>10, <1>11

(* A folder of a call is started on with nothing listed yet. *)
LEMMA FolderShape ==
  ASSUME NEW c \in CallShape, NEW f \in Folders \cup {RootHandle}
  PROVE  /\ Folder(c, f) \in CallShape
         /\ Folder(c, f).at = "start" /\ Folder(c, f).folder = f /\ Folder(c, f).listed = <<>>
         /\ Folder(c, f).asked = 0 /\ Folder(c, f).found = NoAnswers /\ ~Folder(c, f).alien
<1>1. NoAnswers \in [1 .. 4 -> SUBSET Objects] /\ <<>> \in Seq(Objects) /\ 0 \in Nat
  BY EmptySeq DEF NoAnswers, Required
<1> QED BY <1>1 DEF Folder, CallShape

(* A listing of a folder begins. *)
LEMMA ListingBegins ==
  ASSUME ListInv, NEW mode \in ListingModes, NEW f \in Folders \cup {RootHandle},
         StartListing(mode, f)
  PROVE  ListInv'
<1> USE Handles DEF ListInv, ExactInv
<1>1. /\ call' \in CallShape /\ call'.at = "start" /\ call'.folder = f /\ call'.listed = <<>>
      /\ call'.asked = 0 /\ call'.found = NoAnswers /\ ~call'.alien
  <2> DEFINE c == [NoCall EXCEPT !.mode = mode, !.made = call.made + 1, !.start = f]
  <2>1. NoCall \in CallShape
    BY EmptySeq DEF NoCall, CallShape, NoAnswers, Required, Parents
  <2>2. call.made + 1 \in Nat /\ f \in Parents
    BY DEF ListingShape, CallShape, Parents
  <2>3. c \in CallShape
    BY <2>1, <2>2 DEF CallShape
  <2> QED BY <2>3, FolderShape DEF StartListing
<1>2. /\ history' \in HistoryShape /\ history'.stayed = Children(f) /\ history'.ever = Children(f)
      /\ history'.late = 0
  BY HandleSets DEF StartListing, ListingShape, HistoryShape, FolderHistory
<1>3. dev' = dev /\ tree' = tree /\ off' = off /\ token' = FALSE
  BY DEF StartListing
<1>4. ListingShape' /\ TreeInv'
  BY <1>1, <1>2, <1>3 DEF ListingShape, TreeInv
<1>5. FolderInv'
  BY <1>1, <1>2, <1>3 DEF FolderInv, Children
<1> QED
  BY <1>1, <1>2, <1>4, <1>5
     DEF RequiredInv, UnresolvedInv, InfoInv, ListedInv, CancelInv

(* What a step of the call leaves alone. *)
Undisturbed ==
  /\ dev' = dev /\ tree' = tree /\ token' = token
  /\ history' \in HistoryShape /\ history'.stayed = history.stayed
  /\ history'.ever = history.ever /\ history'.raced = history.raced

(* A transaction counts as late under a set token. *)
LEMMA Transacts ==
  ASSUME ListInv, Transaction
  PROVE  /\ Undisturbed /\ history'.late \in Nat
         /\ ~token => history'.late = 0
         /\ call.at \in {"all", "samsung", "size"} => history'.late <= 1
<1>1. /\ history \in HistoryShape /\ history.late \in Nat
      /\ history' = [history EXCEPT !.late = @ + IF token THEN 1 ELSE 0]
      /\ token \in BOOLEAN
  BY DEF ListInv, ListingShape, HistoryShape, Transaction
<1>2. /\ history.late + (IF token THEN 1 ELSE 0) \in Nat
      /\ history'.late = history.late + IF token THEN 1 ELSE 0
  BY <1>1 DEF HistoryShape
<1>3. history' \in HistoryShape
  BY <1>1, <1>2 DEF HistoryShape
<1>4. /\ history'.stayed = history.stayed /\ history'.ever = history.ever
      /\ history'.raced = history.raced
  BY <1>1 DEF HistoryShape
<1>5. /\ ~token => history'.late = 0
      /\ call.at \in {"all", "samsung", "size"} => history'.late <= 1
  BY <1>1, <1>2 DEF ListInv, CancelInv
<1> QED BY <1>2, <1>3, <1>4, <1>5 DEF Undisturbed, Transaction

(* A step without a transaction. *)
LEMMA Idles ==
  ASSUME ListInv, UNCHANGED <<dev, tree, token, history>>
  PROVE  Undisturbed /\ history'.late = history.late
  BY DEF ListInv, ListingShape, Undisturbed

(* What is left to show of a step within a folder. *)
LEMMA StepsOn ==
  ASSUME ListInv, Undisturbed, call.at # "idle", call' \in CallShape, off' \in BOOLEAN,
         call'.folder = call.folder,
         RequiredInv', UnresolvedInv', InfoInv', ListedInv', CancelInv'
  PROVE  ListInv'
<1>1. ListingShape' /\ TreeInv'
  BY DEF ListInv, ExactInv, ListingShape, TreeInv, Undisturbed
<1>2. FolderInv'
  BY DEF ListInv, ExactInv, FolderInv, Undisturbed, Children
<1> QED BY <1>1, <1>2 DEF ListInv, ExactInv

(* The call ends. *)
LEMMA Ends ==
  ASSUME ListInv, Undisturbed, call.at # "idle", off' \in BOOLEAN,
         NEW verdict \in {"ok", "error"}, call' = ListingEnded(call, verdict),
         history'.late <= 1, ~token => history'.late = 0
  PROVE  ListInv'
<1>1. call' \in CallShape /\ call'.folder = call.folder /\ call'.at = "done"
  BY DEF ListingEnded, ListInv, ListingShape, CallShape
<1>2. RequiredInv' /\ UnresolvedInv' /\ InfoInv' /\ ListedInv' /\ CancelInv'
  BY <1>1 DEF RequiredInv, UnresolvedInv, InfoInv, ListedInv, CancelInv, Undisturbed
<1> QED BY <1>1, <1>2, StepsOn

LEMMA KeepsBail == ListInv /\ BailIfCancelled => ListInv'
<1> SUFFICES ASSUME ListInv, BailIfCancelled PROVE ListInv'
  OBVIOUS
<1>1. /\ call.at # "idle" /\ call' = ListingEnded(call, "error") /\ off' \in BOOLEAN
      /\ UNCHANGED <<dev, tree, token, history>>
  BY DEF BailIfCancelled, Due, ListInv, ListingShape
<1>2. history.late <= 1 /\ (~token => history.late = 0)
  BY DEF ListInv, CancelInv
<1> QED BY <1>1, <1>2, Idles, Ends

LEMMA KeepsFailure == ListInv /\ SessionFails => ListInv'
<1> SUFFICES ASSUME ListInv, SessionFails PROVE ListInv'
  OBVIOUS
<1>1. /\ call.at # "idle" /\ call' = ListingEnded(call, "error") /\ off' \in BOOLEAN
      /\ call.at \in {"all", "samsung"} \/ ~token
  BY DEF SessionFails, Due, Checked, ListInv, ListingShape
<1>2. /\ Undisturbed /\ history'.late \in Nat /\ (~token => history'.late = 0)
      /\ call.at \in {"all", "samsung", "size"} => history'.late <= 1
  BY Transacts DEF SessionFails
<1> QED BY <1>1, <1>2, Ends

(* From the property lists, or at the start of the root, to the handles.   *)
LEMMA GoesPerHandle ==
  ASSUME ListInv, Undisturbed, call.at # "idle", off' \in BOOLEAN, NEW c \in CallShape,
         c.folder = call.folder, c.listed = <<>>, call' = PerHandle(c), history'.late = 0
  PROVE  ListInv'
<1>1. /\ call' \in CallShape /\ call'.folder = call.folder /\ call'.listed = <<>>
      /\ call'.at = IF call.folder = RootHandle THEN "all" ELSE "folder"
  BY DEF PerHandle, CallShape
<1>2. RequiredInv' /\ UnresolvedInv' /\ InfoInv' /\ ListedInv' /\ CancelInv'
  BY <1>1 DEF RequiredInv, UnresolvedInv, InfoInv, ListedInv, CancelInv
<1> QED BY <1>1, <1>2, StepsOn

LEMMA KeepsList == ListInv /\ List => ListInv'
<1> SUFFICES ASSUME ListInv, List PROVE ListInv'
  OBVIOUS
<1>1. /\ call.at = "start" /\ off' \in BOOLEAN /\ call \in CallShape /\ call.listed = <<>>
      /\ ~token /\ history.late = 0
  BY DEF List, ListInv, ExactInv, UnresolvedInv, ListingShape, CancelInv
<1>2. Undisturbed /\ history'.late = 0
  BY <1>1, Idles DEF List
<1>3. CASE call' = PerHandle(call)
  BY <1>1, <1>2, <1>3, GoesPerHandle
<1>4. CASE call' = [call EXCEPT !.at = "required"] /\ call.folder # RootHandle
  <2>1. /\ call' \in CallShape /\ call'.folder = call.folder /\ call'.listed = <<>>
        /\ call'.at = "required" /\ call'.asked = call.asked /\ call'.found = call.found
        /\ call'.alien = call.alien
    BY <1>1, <1>4 DEF CallShape
  <2>2. call.asked = 0 /\ ~call.alien /\ \A i \in 1 .. 4 : call.found[i] = {}
    BY <1>1 DEF ListInv, ExactInv, UnresolvedInv, NoAnswers, Required
  <2>3. RequiredInv'
    BY <1>4, <2>1, <2>2 DEF RequiredInv, AnswersInv
  <2>4. UnresolvedInv' /\ InfoInv' /\ ListedInv' /\ CancelInv'
    BY <1>2, <2>1 DEF UnresolvedInv, InfoInv, ListedInv, CancelInv
  <2> QED BY <1>1, <1>2, <2>1, <2>3, <2>4, StepsOn
<1> QED BY <1>1, <1>3, <1>4 DEF List

LEMMA KeepsDecline == ListInv /\ DeclinesRequired => ListInv'
<1> SUFFICES ASSUME ListInv, DeclinesRequired PROVE ListInv'
  OBVIOUS
<1>1. /\ call.at = "required" /\ call \in CallShape /\ off' \in BOOLEAN /\ call.listed = <<>>
      /\ call' = PerHandle(call) /\ ~token
  BY DEF DeclinesRequired, ListInv, ExactInv, RequiredInv, ListingShape
<1>2. Undisturbed /\ history'.late = 0
  BY <1>1, Transacts DEF DeclinesRequired
<1> QED BY <1>1, <1>2, GoesPerHandle

(* Another optional property is done with. *)
LEMMA AsksMore ==
  ASSUME ListInv, Undisturbed, call.at = "optional", off' \in BOOLEAN,
         history'.late <= 1, ~token => history'.late = 0,
         call' \in CallShape, call'.at \in {"optional", "collected"},
         call'.folder = call.folder, call'.listed = call.listed, call'.omitted = call.omitted
  PROVE  ListInv'
<1>1. ListedInv'
  BY DEF ListInv, ExactInv, ListedInv, Undisturbed
<1>2. RequiredInv' /\ UnresolvedInv' /\ InfoInv' /\ CancelInv'
  BY DEF RequiredInv, UnresolvedInv, InfoInv, CancelInv, Undisturbed
<1> QED BY <1>1, <1>2, StepsOn

(* Counting a property as asked, or done with all, changes nothing else. *)
LEMMA NextAsked ==
  ASSUME NEW c \in CallShape, NEW d \in {[c EXCEPT !.asked = @ + 1], [c EXCEPT !.at = "collected"]}
  PROVE  /\ d \in CallShape /\ d.at \in {c.at, "collected"}
         /\ d.folder = c.folder /\ d.listed = c.listed /\ d.omitted = c.omitted
<1>1. c.asked + 1 \in Nat
  BY DEF CallShape
<1>2. CASE d = [c EXCEPT !.asked = @ + 1]
  <2>1. \A n \in Nat : LET e == [c EXCEPT !.asked = n]
                      IN  /\ e \in CallShape /\ e.at = c.at
                          /\ e.folder = c.folder /\ e.listed = c.listed /\ e.omitted = c.omitted
    BY DEF CallShape
  <2>2. d = [c EXCEPT !.asked = c.asked + 1]
    BY <1>2
  <2> QED BY <1>1, <2>1, <2>2
<1>3. CASE d = [c EXCEPT !.at = "collected"]
  BY <1>3 DEF CallShape
<1> QED BY <1>2, <1>3

LEMMA KeepsRefusal == ListInv /\ RefusesFolder => ListInv'
<1> SUFFICES ASSUME ListInv, RefusesFolder PROVE ListInv'
  OBVIOUS
<1>1. call \in CallShape /\ off' \in BOOLEAN /\ ~token /\ call.at # "idle"
  BY DEF RefusesFolder, ListInv, ListingShape
<1>2. Undisturbed /\ history'.late = 0
  BY <1>1, Transacts DEF RefusesFolder
<1>3. CASE call.at = "required"
  <2>1. call' = PerHandle(call) /\ call.listed = <<>>
    BY <1>3 DEF RefusesFolder, ListInv, ExactInv, RequiredInv
  <2> QED BY <1>1, <1>2, <2>1, GoesPerHandle
<1>4. CASE call.at = "optional"
  <2>1. call' \in {[call EXCEPT !.asked = @ + 1], [call EXCEPT !.at = "collected"]}
    BY <1>4 DEF RefusesFolder
  <2>2. /\ call' \in CallShape /\ call'.at \in {call.at, "collected"}
        /\ call'.folder = call.folder /\ call'.listed = call.listed
        /\ call'.omitted = call.omitted
    BY <1>1, <2>1, NextAsked
  <2>3. history'.late <= 1
    BY <1>2
  <2> QED BY <1>1, <1>2, <1>4, <2>2, <2>3, AsksMore
<1> QED BY <1>3, <1>4 DEF RefusesFolder

LEMMA KeepsOptional ==
  ListInv /\ (AskOptional \/ PassOptional \/ ServedByPropList) => ListInv'
<1> SUFFICES ASSUME ListInv, AskOptional \/ PassOptional \/ ServedByPropList PROVE ListInv'
  OBVIOUS
<1>1. call \in CallShape /\ call.at = "optional"
  BY DEF AskOptional, PassOptional, ServedByPropList, ListInv, ListingShape
<1>2. off' \in BOOLEAN
  BY DEF AskOptional, PassOptional, ServedByPropList, ListInv, ListingShape
<1>3. call' \in {[call EXCEPT !.asked = @ + 1], [call EXCEPT !.at = "collected"]}
  BY DEF AskOptional, PassOptional, ServedByPropList
<1>4. Undisturbed /\ history'.late <= 1 /\ (~token => history'.late = 0)
  <2>1. CASE AskOptional
    BY <2>1, Transacts DEF AskOptional
  <2>2. CASE PassOptional \/ ServedByPropList
    BY <2>2, Idles DEF PassOptional, ServedByPropList, ListInv, CancelInv
  <2> QED BY <2>1, <2>2
<1> QED BY <1>1, <1>2, <1>3, <1>4, NextAsked, AsksMore

(* What the device answers for a required property. *)
LEMMA Answers ==
  ASSUME NEW i \in 1 .. 4
  PROVE  /\ HasValue(Required[i]) \in SUBSET Objects
         /\ dev.lists = "depth0" => HasValue(Required[i]) = {}
         /\ i > 1 => HasValue(Required[i]) \subseteq Children(call.folder)
         /\ i = 1 /\ dev.lists # "depth0" => Children(call.folder) \subseteq HasValue(Required[i])
         /\ dev.lists = "serves" /\ dev.bad = {} => HasValue(Required[i]) = Children(call.folder)
<1>1. /\ Required[1] = "parent" /\ Required[2] = "name" /\ Required[3] = "format"
      /\ Required[4] = "size"
  BY DEF Required
<1>2. CASE i = 1
  BY <1>1, <1>2, HandleSets DEF HasValue
<1>3. CASE i \in 2 .. 4
  <2>1. Required[i] \in {"name", "format", "size"}
    BY <1>1, <1>3
  <2>2. HasValue(Required[i]) = IF dev.lists = "depth0" THEN {} ELSE Children(call.folder) \ dev.bad
    BY <2>1 DEF HasValue
  <2> QED BY <1>3, <2>2, HandleSets
<1> QED BY <1>2, <1>3

(* One more answer keeps what is known of them. *)
LEMMA AnswersKept ==
  ASSUME NEW found \in [1 .. 4 -> SUBSET Objects], NEW alien \in BOOLEAN, NEW n \in 0 .. 3,
         history.stayed \subseteq Children(call.folder),
         Children(call.folder) \subseteq history.ever,
         AnswersInv(found, alien, n)
  PROVE  LET answer == HasValue(Required[n + 1])
         IN  AnswersInv([found EXCEPT ![n + 1] = answer],
                        alien \/ (n + 1 = 1 /\ ~(answer \subseteq Children(call.folder))), n + 1)
<1> DEFINE answer == HasValue(Required[n + 1])
           f == [found EXCEPT ![n + 1] = answer]
           a == alien \/ (n + 1 = 1 /\ ~(answer \subseteq Children(call.folder)))
<1>1. n + 1 \in 1 .. 4
  OBVIOUS
<1>2. /\ dev.lists = "depth0" => answer = {}
      /\ n + 1 > 1 => answer \subseteq Children(call.folder)
      /\ n + 1 = 1 /\ dev.lists # "depth0" => Children(call.folder) \subseteq answer
      /\ dev.lists = "serves" /\ dev.bad = {} => answer = Children(call.folder)
  BY <1>1, Answers
<1> HIDE DEF answer
<1>3. f[n + 1] = answer /\ \A i \in 1 .. 4 : i # n + 1 => f[i] = found[i]
  BY <1>1
<1>4. ASSUME NEW i \in 1 .. 4
      PROVE  /\ i > n + 1 \/ dev.lists = "depth0" => f[i] = {}
             /\ i > 1 \/ ~a => f[i] \subseteq history.ever
  <2>1. CASE i = n + 1
    BY <1>2, <1>3, <2>1
  <2>2. CASE i # n + 1
    BY <1>3, <2>2 DEF AnswersInv
  <2> QED BY <2>1, <2>2
<1>5. dev.lists # "depth0" => history.stayed \subseteq f[1]
  <2>1. CASE n = 0
    BY <1>2, <1>3, <2>1
  <2>2. CASE n # 0
    BY <1>3, <2>2 DEF AnswersInv
  <2> QED BY <2>1, <2>2
<1>6. ASSUME ~history.raced, dev.lists = "serves", dev.bad = {}
      PROVE  ~a /\ \A i \in 1 .. n + 1 : f[i] = Children(call.folder)
  <2>1. ~alien /\ answer = Children(call.folder)
    BY <1>2, <1>6 DEF AnswersInv
  <2>2. \A i \in 1 .. n : f[i] = Children(call.folder)
    BY <1>3, <1>6 DEF AnswersInv
  <2> QED BY <1>3, <2>1, <2>2
<1> HIDE DEF f, a
<1>7. n + 1 >= 1
  OBVIOUS
<1>8. AnswersInv(f, a, n + 1)
  BY <1>4, <1>5, <1>6 DEF AnswersInv
<1> QED BY <1>8 DEF f, a, answer

(* The required answers stand for the whole folder, or the handles are asked for. *)
LEMMA Concludes ==
  ASSUME ListInv, NEW c \in CallShape, c.folder = call.folder, c.listed = <<>>,
         AnswersInv(c.found, c.alien, 4)
  PROVE  \/ Conclude(c) = PerHandle(c)
         \/ /\ Conclude(c) \in CallShape /\ Conclude(c).at = "optional"
            /\ Conclude(c).folder = call.folder
            /\ history.stayed \subseteq ToSet(Conclude(c).listed)
            /\ ToSet(Conclude(c).listed) \subseteq history.ever
<1>1. CASE Incomplete(c.found) \/ c.alien \/ Seen(c.found) = {}
  BY <1>1 DEF Conclude
<1>2. CASE ~(Incomplete(c.found) \/ c.alien \/ Seen(c.found) = {})
  <2> DEFINE seen == Seen(c.found)
  <2>1. DOMAIN Required = 1 .. 4 /\ seen = UNION {c.found[i] : i \in 1 .. 4}
    BY DEF Required, Seen
  <2>2. c.found \in [1 .. 4 -> SUBSET Objects]
    BY DEF CallShape
  <2>3. seen \in SUBSET Objects
    BY <2>1, <2>2
  <2>4. IsFiniteSet(seen)
    BY <2>3, ListingAssumption, FS_Subset
  <2>5. SetToSeq(seen) \in Seq(Objects) /\ ToSet(SetToSeq(seen)) = seen
    <3>1. SetToSeq(seen) \in Seq(seen) /\ ToSet(SetToSeq(seen)) = seen
      BY <2>4, SeqOfSet
    <3> QED BY <2>3, <3>1, SeqMonotonic
  <2>6. seen \subseteq history.ever
    BY <1>2, <2>1 DEF AnswersInv
  <2>7. history.stayed \subseteq seen
    <3>1. dev.lists # "depth0"
      BY <1>2, <2>1 DEF AnswersInv
    <3>2. history.stayed \subseteq c.found[1]
      BY <3>1 DEF AnswersInv
    <3> QED BY <2>1, <3>2
  <2> DEFINE d == [c EXCEPT !.at = "optional", !.asked = 0, !.listed = SetToSeq(seen)]
  <2>8. Conclude(c) = d
    BY <1>2 DEF Conclude
  <2> HIDE DEF seen
  <2>9. d \in CallShape /\ d.at = "optional" /\ d.folder = c.folder /\ d.listed = SetToSeq(seen)
    BY <2>5 DEF CallShape
  <2>10. /\ Conclude(c) \in CallShape /\ Conclude(c).at = "optional"
         /\ Conclude(c).folder = call.folder /\ Conclude(c).listed = SetToSeq(seen)
    BY <2>8, <2>9
  <2> QED BY <2>5, <2>6, <2>7, <2>10
<1> QED BY <1>1, <1>2

(* The call once a required property is answered. *)
WithAnswer ==
  LET i == call.asked + 1
      answer == HasValue(Required[i])
  IN  [call EXCEPT !.asked = i, !.found[i] = answer,
                   !.alien = @ \/ (i = 1 /\ ~(answer \subseteq Children(call.folder)))]

LEMMA AnswerTaken ==
  ASSUME ListInv, call.at = "required"
  PROVE  LET c == WithAnswer
         IN  /\ c \in CallShape /\ c.at = "required" /\ c.folder = call.folder
             /\ c.listed = <<>> /\ c.asked = call.asked + 1 /\ c.asked \in 1 .. 4
             /\ AnswersInv(c.found, c.alien, c.asked)
<1> DEFINE i == call.asked + 1
           answer == HasValue(Required[i])
           a == call.alien \/ (i = 1 /\ ~(answer \subseteq Children(call.folder)))
           c == [call EXCEPT !.asked = i, !.found[i] = answer, !.alien = a]
<1>1. /\ call \in CallShape /\ call.asked \in 0 .. 3 /\ call.listed = <<>>
      /\ AnswersInv(call.found, call.alien, call.asked)
      /\ history.stayed \subseteq Children(call.folder)
      /\ Children(call.folder) \subseteq history.ever
  BY DEF ListInv, ExactInv, RequiredInv, FolderInv, ListingShape
<1>2. WithAnswer = c
  BY DEF WithAnswer
<1>3. /\ i \in 1 .. 4 /\ i \in Nat /\ call.found \in [1 .. 4 -> SUBSET Objects]
      /\ call.alien \in BOOLEAN
  BY <1>1 DEF CallShape
<1>4. answer \in SUBSET Objects
  BY <1>3, Answers
<1>5. AnswersInv([call.found EXCEPT ![i] = answer], a, i)
  BY <1>1, <1>3, AnswersKept
<1>6. a \in BOOLEAN
  BY <1>3
<1> HIDE DEF i, answer, a
<1>7. [call.found EXCEPT ![i] = answer] \in [1 .. 4 -> SUBSET Objects]
  BY <1>3, <1>4
<1>8. /\ c \in CallShape /\ c.at = call.at /\ c.folder = call.folder /\ c.listed = call.listed
      /\ c.asked = i /\ c.alien = a /\ c.found = [call.found EXCEPT ![i] = answer]
  BY <1>1, <1>3, <1>6, <1>7 DEF CallShape
<1> QED BY <1>1, <1>2, <1>3, <1>5, <1>8 DEF i

LEMMA KeepsRequired == ListInv /\ AskRequired => ListInv'
<1> SUFFICES ASSUME ListInv, AskRequired PROVE ListInv'
  OBVIOUS
<1> DEFINE c == WithAnswer
<1>1. /\ call.at = "required" /\ ~token
      /\ call' = IF c.asked < 4 THEN c ELSE Conclude(c)
  BY DEF AskRequired, WithAnswer, Required
<1>2. /\ c \in CallShape /\ c.at = "required" /\ c.folder = call.folder
      /\ c.listed = <<>> /\ c.asked = call.asked + 1 /\ c.asked \in 1 .. 4
      /\ AnswersInv(c.found, c.alien, c.asked)
  BY <1>1, AnswerTaken
<1>3. Undisturbed /\ history'.late = 0
  BY <1>1, Transacts DEF AskRequired
<1>4. off' \in BOOLEAN /\ call.folder # RootHandle
  BY <1>1 DEF AskRequired, ListInv, ExactInv, RequiredInv, ListingShape
<1> HIDE DEF c
<1>5. CASE call' = c /\ c.asked < 4
  <2>1. RequiredInv'
    BY <1>2, <1>3, <1>4, <1>5 DEF RequiredInv, AnswersInv, Undisturbed, Children
  <2>2. UnresolvedInv' /\ InfoInv' /\ ListedInv' /\ CancelInv'
    BY <1>2, <1>3, <1>5 DEF UnresolvedInv, InfoInv, ListedInv, CancelInv
  <2> QED BY <1>1, <1>2, <1>3, <1>4, <1>5, <2>1, <2>2, StepsOn
<1>6. CASE call' = PerHandle(c)
  BY <1>1, <1>2, <1>3, <1>4, <1>6, GoesPerHandle
<1>7. CASE /\ call' \in CallShape /\ call'.at = "optional" /\ call'.folder = call.folder
           /\ history.stayed \subseteq ToSet(call'.listed)
           /\ ToSet(call'.listed) \subseteq history.ever
  <2>1. ListedInv'
    BY <1>3, <1>7 DEF ListedInv, Undisturbed
  <2>2. RequiredInv' /\ UnresolvedInv' /\ InfoInv' /\ CancelInv'
    BY <1>3, <1>7 DEF RequiredInv, UnresolvedInv, InfoInv, CancelInv
  <2> QED BY <1>1, <1>3, <1>4, <1>7, <2>1, <2>2, StepsOn
<1>8. c.asked = 4 /\ call' = Conclude(c) => call' = PerHandle(c) \/
        (/\ call' \in CallShape /\ call'.at = "optional" /\ call'.folder = call.folder
         /\ history.stayed \subseteq ToSet(call'.listed)
         /\ ToSet(call'.listed) \subseteq history.ever)
  BY <1>2, Concludes
<1> QED BY <1>1, <1>2, <1>5, <1>6, <1>7, <1>8

(* The handles are known, and the parents to accept. *)
LEMMA Resolves ==
  ASSUME ListInv, Undisturbed, call.at \in {"all", "folder", "samsung"}, off' \in BOOLEAN,
         history'.late <= 1, ~token => history'.late = 0,
         NEW handles \in SUBSET Objects, NEW accepts \in SUBSET Nat,
         call' = Resolved(handles, accepts), Children(call.folder) \subseteq handles,
         IF call.folder = RootHandle
         THEN /\ dev.mark \in accepts /\ accepts \subseteq {RootHandle, AllHandle, dev.storage}
              /\ \/ dev.storage \notin accepts \/ dev.storage \notin Folders
                 \/ tree[dev.storage] = NotThere \/ handles \subseteq history.ever
         ELSE accepts = {call.folder}
  PROVE  ListInv'
<1> DEFINE q == SetToSeq(handles)
<1>1. q \in Seq(Objects) /\ ToSet(q) = handles
  <2>1. IsFiniteSet(handles)
    BY ListingAssumption, FS_Subset
  <2>2. q \in Seq(handles) /\ ToSet(q) = handles
    BY <2>1, SeqOfSet
  <2> QED BY <2>2, SeqMonotonic
<1>2. call \in CallShape /\ call.at # "idle" /\ call.listed = <<>>
  BY DEF ListInv, ExactInv, UnresolvedInv, ListingShape
<1>3. call' = [call EXCEPT !.at = "info", !.handles = q, !.accepts = accepts]
  BY DEF Resolved
<1> HIDE DEF q
<1>4. /\ call' \in CallShape /\ call'.at = "info" /\ call'.folder = call.folder
      /\ call'.handles = q /\ call'.accepts = accepts /\ call'.listed = <<>>
  BY <1>1, <1>2, <1>3 DEF CallShape
<1>5. history.stayed \subseteq handles
  BY <1>2 DEF ListInv, ExactInv, FolderInv
<1>6. Unambiguous' \/ call.folder # RootHandle
  BY <1>1, <1>4 DEF Unambiguous, Undisturbed
<1>7. InfoInv'
  BY <1>1, <1>4, <1>5, <1>6, SetOfEmpty DEF InfoInv, Undisturbed
<1>8. RequiredInv' /\ UnresolvedInv' /\ ListedInv' /\ CancelInv'
  BY <1>4 DEF RequiredInv, UnresolvedInv, ListedInv, CancelInv, Undisturbed
<1> QED BY <1>2, <1>4, <1>7, <1>8, StepsOn

(* The filter of a root listing tells the root from every folder. *)
LEMMA RootFilterTells ==
  ASSUME ListInv, call.at # "idle", call.folder = RootHandle,
         NEW handles, handles = Present \/ handles = Children(RootHandle)
  PROVE  /\ handles \in SUBSET Objects /\ RootFilter(handles) \in SUBSET Nat
         /\ Children(call.folder) \subseteq handles
         /\ dev.mark \in RootFilter(handles)
         /\ RootFilter(handles) \subseteq {RootHandle, AllHandle, dev.storage}
         /\ \/ dev.storage \notin RootFilter(handles) \/ dev.storage \notin Folders
            \/ tree[dev.storage] = NotThere \/ handles \subseteq history.ever
<1>1. dev \in ListedDevices
  BY DEF ListInv, ListingShape
<1>2. Children(RootHandle) \subseteq Present
  BY Handles DEF Children, Present
<1>3. handles \in SUBSET Objects /\ Children(call.folder) \subseteq handles
  BY <1>2, HandleSets
<1>4. /\ RootFilter(handles) \in SUBSET Nat /\ dev.mark \in RootFilter(handles)
      /\ RootFilter(handles) \subseteq {RootHandle, AllHandle, dev.storage}
  BY <1>1, <1>3, Handles, DeviceFacts DEF RootFilter
<1>5. dev.storage \in RootFilter(handles) => dev.storage \notin handles
  BY <1>1, DeviceFacts DEF RootFilter
<1>6. \/ dev.storage \notin RootFilter(handles) \/ dev.storage \notin Folders
      \/ tree[dev.storage] = NotThere \/ handles \subseteq history.ever
  <2>1. CASE handles = Present
    BY <1>5, <2>1, Handles DEF Present
  <2>2. CASE handles = Children(RootHandle)
    BY <2>2 DEF ListInv, ExactInv, FolderInv
  <2> QED BY <2>1, <2>2
<1> QED BY <1>3, <1>4, <1>6

LEMMA KeepsAll == ListInv /\ AskAll => ListInv'
<1> SUFFICES ASSUME ListInv, AskAll PROVE ListInv'
  OBVIOUS
<1>1. /\ call.at = "all" /\ call \in CallShape /\ off' \in BOOLEAN
      /\ call.folder = RootHandle /\ call.listed = <<>>
  BY DEF AskAll, ListInv, ExactInv, UnresolvedInv, ListingShape
<1>2. /\ Undisturbed /\ history'.late \in Nat /\ history'.late <= 1
      /\ ~token => history'.late = 0
  BY <1>1, Transacts DEF AskAll
<1>3. CASE dev.all = "declines"
  <2>1. /\ call' \in CallShape /\ call'.at = "folder" /\ call'.folder = RootHandle
        /\ call'.listed = <<>>
    BY <1>1, <1>3 DEF AskAll, CallShape
  <2>2. UnresolvedInv'
    BY <1>2, <1>3, <2>1 DEF UnresolvedInv, Undisturbed
  <2>3. RequiredInv' /\ InfoInv' /\ ListedInv' /\ CancelInv'
    BY <1>2, <2>1 DEF RequiredInv, InfoInv, ListedInv, CancelInv, Undisturbed
  <2> QED BY <1>1, <1>2, <2>1, <2>2, <2>3, StepsOn
<1>4. CASE dev.all # "declines"
  <2> DEFINE handles == HandlesFor(dev.all)
  <2>1. call' = Resolved(handles, RootFilter(handles))
    BY <1>4 DEF AskAll
  <2>2. handles = Present \/ handles = Children(RootHandle)
    BY DEF HandlesFor
  <2> HIDE DEF handles
  <2> QED BY <1>1, <1>2, <2>1, <2>2, RootFilterTells, Resolves
<1> QED BY <1>3, <1>4

LEMMA KeepsSamsung == ListInv /\ AskSamsung => ListInv'
<1> SUFFICES ASSUME ListInv, AskSamsung PROVE ListInv'
  OBVIOUS
<1>1. call.at = "samsung" /\ off' \in BOOLEAN /\ call.folder = RootHandle
  BY DEF AskSamsung, ListInv, ExactInv, UnresolvedInv, ListingShape
<1>2. /\ Undisturbed /\ history'.late \in Nat /\ history'.late <= 1
      /\ ~token => history'.late = 0
  BY <1>1, Transacts DEF AskSamsung
<1>3. CASE call' = ListingEnded(call, "error")
  BY <1>1, <1>2, <1>3, Ends
<1>4. CASE call' = Resolved(Present, RootFilter(Present))
  BY <1>1, <1>2, <1>4, RootFilterTells, Resolves
<1> QED BY <1>3, <1>4 DEF AskSamsung

LEMMA KeepsFolder == ListInv /\ AskFolder => ListInv'
<1> SUFFICES ASSUME ListInv, AskFolder PROVE ListInv'
  OBVIOUS
<1>1. /\ call.at = "folder" /\ call \in CallShape /\ off' \in BOOLEAN /\ ~token
      /\ call.listed = <<>> /\ dev \in ListedDevices
      /\ call.folder = RootHandle \/ call.folder \in Folders
  BY DEF AskFolder, ListInv, ExactInv, UnresolvedInv, ListingShape, CallShape
<1>2. Undisturbed /\ history'.late = 0 /\ history'.late <= 1
  BY <1>1, Transacts DEF AskFolder
<1>3. CASE call.folder = RootHandle /\ dev.zero = "invalid"
  <2>1. call' = [call EXCEPT !.at = "samsung"]
    BY <1>3 DEF AskFolder
  <2>2. /\ call' \in CallShape /\ call'.at = "samsung" /\ call'.folder = RootHandle
        /\ call'.listed = <<>>
    BY <1>1, <1>3, <2>1 DEF CallShape
  <2>3. RequiredInv' /\ UnresolvedInv' /\ InfoInv' /\ ListedInv' /\ CancelInv'
    BY <1>2, <2>2 DEF RequiredInv, UnresolvedInv, InfoInv, ListedInv, CancelInv
  <2> QED BY <1>1, <1>2, <1>3, <2>2, <2>3, StepsOn
<1>4. CASE call.folder = RootHandle /\ dev.zero # "invalid"
  <2> DEFINE handles == HandlesFor(dev.zero)
  <2>1. call' = Resolved(handles, {RootHandle})
    BY <1>4 DEF AskFolder
  <2>2. handles \in SUBSET Objects /\ Children(call.folder) \subseteq handles
    BY <1>4, HandleSets, Handles DEF HandlesFor, Children, Present
  <2>3. dev.mark = RootHandle /\ dev.storage # RootHandle
    BY <1>1, <1>4, DeviceFacts DEF ListInv, ExactInv, UnresolvedInv
  <2>4. {RootHandle} \in SUBSET Nat
    BY Handles
  <2> HIDE DEF handles
  <2> QED BY <1>1, <1>2, <1>4, <2>1, <2>2, <2>3, <2>4, Resolves
<1>5. CASE call.folder # RootHandle /\ tree[call.folder] = NotThere
  <2>1. call' = ListingEnded(call, "error")
    BY <1>5 DEF AskFolder
  <2> QED BY <1>1, <1>2, <2>1, Ends
<1>6. CASE call.folder # RootHandle /\ tree[call.folder] # NotThere
  <2>1. call' = Resolved(Children(call.folder), {call.folder})
    BY <1>6 DEF AskFolder
  <2>2. Children(call.folder) \in SUBSET Objects /\ {call.folder} \in SUBSET Nat
    BY <1>1, <1>6, HandleSets, Handles
  <2> QED BY <1>1, <1>2, <1>6, <2>1, <2>2, Resolves
<1> QED BY <1>3, <1>4, <1>5, <1>6

(* The parent filter accepts an object of the folder, and nothing that was *)
(* never in it.                                                            *)
LEMMA FilterTells ==
  ASSUME ListInv, call.at = "info", call.handles # <<>>
  PROVE  LET h == Head(call.handles)
         IN  tree[h] # NotThere =>
               /\ h \in history.stayed => ReportedParent(h) \in call.accepts
               /\ ReportedParent(h) \in call.accepts => h \in history.ever
<1> DEFINE h == Head(call.handles)
<1> SUFFICES ASSUME tree[h] # NotThere
             PROVE  /\ h \in history.stayed => ReportedParent(h) \in call.accepts
                    /\ ReportedParent(h) \in call.accepts => h \in history.ever
  OBVIOUS
<1>1. /\ call \in CallShape /\ dev \in ListedDevices /\ tree \in [Objects -> Parents]
      /\ call.handles \in Seq(Objects)
      /\ call.folder = RootHandle \/ call.folder \in Folders
  BY DEF ListInv, ExactInv, TreeInv, ListingShape, CallShape
<1>2. h \in Objects /\ h \in ToSet(call.handles)
  BY <1>1, SetOfTail
<1>3. /\ tree[h] = call.folder => h \in history.ever
      /\ h \in history.stayed => tree[h] = call.folder
  BY <1>2 DEF ListInv, ExactInv, FolderInv, Children
<1>4. tree[h] = RootHandle \/ tree[h] \in Folders
  BY <1>1, <1>2, Handles
<1> HIDE DEF h
<1>5. CASE call.folder # RootHandle
  <2>1. call.accepts = {call.folder} /\ call.folder \in Folders
    BY <1>1, <1>5 DEF ListInv, ExactInv, InfoInv
  <2>2. dev.mark # call.folder
    BY <1>1, <2>1, DeviceFacts, Handles
  <2> QED BY <1>3, <1>5, <2>1, <2>2 DEF ReportedParent
<1>6. CASE call.folder = RootHandle
  <2>1. /\ dev.mark \in call.accepts
        /\ call.accepts \subseteq {RootHandle, AllHandle, dev.storage} /\ Unambiguous
    BY <1>6 DEF ListInv, ExactInv, InfoInv
  <2>2. CASE tree[h] = RootHandle
    BY <1>3, <1>6, <2>1, <2>2 DEF ReportedParent
  <2>3. CASE tree[h] \in Folders
    <3>1. ReportedParent(h) = tree[h] /\ h \notin history.stayed
      BY <1>3, <1>6, <2>3, Handles DEF ReportedParent
    <3>2. tree[h] # RootHandle /\ tree[h] # AllHandle
      BY <2>3, Handles
    <3>3. tree[tree[h]] # NotThere
      BY <1>2, <2>3 DEF ListInv, ExactInv, TreeInv
    <3> QED BY <1>2, <2>1, <2>3, <3>1, <3>2, <3>3 DEF Unambiguous
  <2> QED BY <1>4, <2>2, <2>3
<1> QED BY <1>5, <1>6 DEF h

(* An object is asked about: it is listed, skipped or none of the folder's. *)
LEMMA TakesOne ==
  ASSUME ListInv, Undisturbed, call.at = "info", call.handles # <<>>, history'.late = 0,
         off' \in BOOLEAN, NEW h, h = Head(call.handles), call' \in CallShape,
         call'.at \in {"info", "size"}, call'.folder = call.folder,
         call'.accepts = call.accepts, call'.handles = Tail(call.handles),
         \/ /\ call'.listed = call.listed /\ call'.omitted = call.omitted
            /\ h \notin history.stayed
         \/ /\ call'.listed = call.listed /\ call'.omitted = call.omitted \cup {h}
         \/ /\ call'.listed = Append(call.listed, h) /\ call'.omitted = call.omitted
            /\ h \in history.ever
  PROVE  ListInv'
<1>1. call.handles \in Seq(Objects) /\ call.listed \in Seq(Objects)
  BY DEF ListInv, ListingShape, CallShape
<1>2. /\ ToSet(call.handles) = {h} \cup ToSet(call'.handles)
      /\ ToSet(Append(call.listed, h)) = ToSet(call.listed) \cup {h}
  <2>1. h \in Objects /\ ToSet(call.handles) = {h} \cup ToSet(Tail(call.handles))
    BY <1>1, SetOfTail
  <2> QED BY <1>1, <2>1, SetOfAppend
<1>3. /\ history.stayed \subseteq ToSet(call.handles) \cup ToSet(call.listed) \cup call.omitted
      /\ ToSet(call.listed) \subseteq history.ever
  BY DEF ListInv, ExactInv, InfoInv
<1>4. /\ history.stayed \subseteq ToSet(call'.handles) \cup ToSet(call'.listed) \cup call'.omitted
      /\ ToSet(call'.listed) \subseteq history.ever
  BY <1>2, <1>3
<1>5. Unambiguous => Unambiguous'
  BY <1>2 DEF Unambiguous, Undisturbed
<1>6. InfoInv'
  BY <1>4, <1>5 DEF ListInv, ExactInv, InfoInv, Undisturbed
<1>7. RequiredInv' /\ UnresolvedInv' /\ ListedInv' /\ CancelInv'
  <2>1. token' = token /\ (token => TRUE) /\ history'.late <= 1
    BY DEF Undisturbed
  <2> QED BY <2>1 DEF RequiredInv, UnresolvedInv, ListedInv, CancelInv
<1> QED BY <1>6, <1>7, StepsOn

LEMMA KeepsInfo == ListInv /\ AskInfo => ListInv'
<1> SUFFICES ASSUME ListInv, AskInfo PROVE ListInv'
  OBVIOUS
<1> DEFINE h == Head(call.handles)
<1>1. /\ call.at = "info" /\ call \in CallShape /\ off' \in BOOLEAN /\ ~token
      /\ call.handles # <<>>
  BY DEF AskInfo, ListInv, ListingShape
<1>2. Undisturbed /\ history'.late = 0 /\ history'.late <= 1
  BY <1>1, Transacts DEF AskInfo
<1>3. /\ h \in Objects /\ Tail(call.handles) \in Seq(Objects)
      /\ Append(call.listed, h) \in Seq(Objects)
  <2>1. call.handles \in Seq(Objects) /\ call.listed \in Seq(Objects)
    BY <1>1 DEF CallShape
  <2>2. h \in Objects /\ Tail(call.handles) \in Seq(Objects)
    BY <1>1, <2>1, SetOfTail
  <2> QED BY <2>1, <2>2, SetOfAppend
<1>4. CASE tree[h] = NotThere
  <2>1. call' = ListingEnded(call, "error")
    BY <1>4 DEF AskInfo
  <2> QED BY <1>1, <1>2, <2>1, Ends
<1>5. CASE tree[h] # NotThere /\ h \in dev.bad
  <2>1. call' = [Next1(call) EXCEPT !.omitted = @ \cup {h}]
    BY <1>5 DEF AskInfo
  <2>2. call' = [call EXCEPT !.handles = Tail(call.handles), !.omitted = call.omitted \cup {h}]
    BY <1>1, <2>1 DEF Next1, CallShape
  <2>3. call.omitted \cup {h} \in SUBSET Objects
    BY <1>1, <1>3 DEF CallShape
  <2> HIDE DEF h
  <2>4. /\ call' \in CallShape /\ call'.at = "info" /\ call'.folder = call.folder
        /\ call'.accepts = call.accepts /\ call'.handles = Tail(call.handles)
        /\ call'.listed = call.listed /\ call'.omitted = call.omitted \cup {h}
    BY <1>1, <1>3, <2>2, <2>3 DEF CallShape
  <2> QED BY <1>1, <1>2, <2>4, TakesOne DEF h
<1>6. CASE tree[h] # NotThere /\ h \notin dev.bad
  <2> DEFINE c == TakeListed(call, h, ReportedParent(h))
             accepted == ReportedParent(h) \in call.accepts
  <2>1. call' = IF h \in Huge THEN [c EXCEPT !.at = "size"] ELSE c
    BY <1>6 DEF AskInfo
  <2>2. /\ c = IF accepted
              THEN [call EXCEPT !.handles = Tail(call.handles), !.listed = Append(call.listed, h)]
              ELSE [call EXCEPT !.handles = Tail(call.handles)]
    BY <1>1 DEF TakeListed, Next1, CallShape
  <2>3. (h \in history.stayed => accepted) /\ (accepted => h \in history.ever)
    BY <1>1, <1>6, FilterTells
  <2> HIDE DEF h, accepted, c
  <2>4. /\ c \in CallShape /\ c.at = "info" /\ c.folder = call.folder
        /\ c.accepts = call.accepts /\ c.handles = Tail(call.handles)
        /\ c.listed = IF accepted THEN Append(call.listed, h) ELSE call.listed
        /\ c.omitted = call.omitted
    <3>1. CASE accepted
      <4>1. c = [call EXCEPT !.handles = Tail(call.handles), !.listed = Append(call.listed, h)]
        BY <2>2, <3>1
      <4> QED BY <1>1, <1>3, <3>1, <4>1 DEF CallShape
    <3>2. CASE ~accepted
      <4>1. c = [call EXCEPT !.handles = Tail(call.handles)]
        BY <2>2, <3>2
      <4> QED BY <1>1, <1>3, <3>2, <4>1 DEF CallShape
    <3> QED BY <3>1, <3>2
  <2>5. /\ call' \in CallShape /\ call'.at \in {"info", "size"} /\ call'.folder = c.folder
        /\ call'.accepts = c.accepts /\ call'.handles = c.handles /\ call'.listed = c.listed
        /\ call'.omitted = c.omitted
    BY <2>1, <2>4 DEF CallShape
  <2>6. \/ /\ call'.listed = call.listed /\ call'.omitted = call.omitted
           /\ h \notin history.stayed
        \/ /\ call'.listed = Append(call.listed, h) /\ call'.omitted = call.omitted
           /\ h \in history.ever
    BY <2>3, <2>4, <2>5
  <2> QED BY <1>1, <1>2, <2>4, <2>5, <2>6, TakesOne DEF h
<1> QED BY <1>4, <1>5, <1>6

(* Back to the handles after a size, or done with them all. *)
LEMMA KeepsSize == ListInv /\ (AskSize \/ InfoExhausted) => ListInv'
<1> SUFFICES ASSUME ListInv, AskSize \/ InfoExhausted PROVE ListInv'
  OBVIOUS
<1>1. call \in CallShape /\ off' \in BOOLEAN /\ call.at \in {"info", "size"}
  BY DEF AskSize, InfoExhausted, ListInv, ListingShape
<1>2. Undisturbed /\ history'.late <= 1 /\ (~token => history'.late = 0)
  <2>1. CASE AskSize
    BY <2>1, Transacts DEF AskSize
  <2>2. CASE InfoExhausted
    BY <2>2, Idles DEF InfoExhausted, ListInv, CancelInv
  <2> QED BY <2>1, <2>2
<1>3. /\ call' \in CallShape /\ call'.folder = call.folder /\ call'.listed = call.listed
      /\ call'.omitted = call.omitted /\ call'.handles = call.handles
      /\ call'.accepts = call.accepts
      /\ call'.at = "info" \/ (call'.at = "collected" /\ call.at = "info" /\ call.handles = <<>>)
  BY <1>1 DEF AskSize, InfoExhausted, CallShape
<1>4. Unambiguous => Unambiguous'
  BY <1>2, <1>3 DEF Unambiguous, Undisturbed
<1>5. InfoInv'
  BY <1>1, <1>2, <1>3, <1>4 DEF ListInv, ExactInv, InfoInv, Undisturbed
<1>6. ListedInv'
  BY <1>1, <1>2, <1>3, SetOfEmpty DEF ListInv, ExactInv, InfoInv, ListedInv, Undisturbed
<1>7. RequiredInv' /\ UnresolvedInv' /\ CancelInv'
  BY <1>2, <1>3 DEF RequiredInv, UnresolvedInv, CancelInv, Undisturbed
<1> QED BY <1>1, <1>2, <1>3, <1>5, <1>6, <1>7, StepsOn

(* The folder is done with: the call ends or goes on with another one. *)
LEMMA KeepsCollect == ListInv /\ Collect => ListInv'
<1> SUFFICES ASSUME ListInv, Collect PROVE ListInv'
  OBVIOUS
<1> DEFINE c == [call EXCEPT !.objects = @ \o call.listed, !.skipped = @ \cup call.omitted]
           visit == IF call.mode = "walk" THEN call.visit \o FoldersIn(call.listed) ELSE <<>>
<1>1. /\ call.at = "collected" /\ call \in CallShape /\ off' = off /\ off \in BOOLEAN
      /\ UNCHANGED <<dev, tree, token>> /\ history \in HistoryShape /\ dev \in ListedDevices
      /\ token \in BOOLEAN
  BY DEF Collect, ListInv, ListingShape
<1>2. c \in CallShape
  <2>1. call.objects \o call.listed \in Seq(Objects)
    BY <1>1, ConcatProperties DEF CallShape
  <2>2. call.skipped \cup call.omitted \in SUBSET Objects
    BY <1>1 DEF CallShape
  <2> QED BY <1>1, <2>1, <2>2 DEF CallShape
<1>3. visit \in Seq(Folders)
  <2>1. ToSet(call.listed) \cap Folders \in SUBSET Folders /\ IsFiniteSet(ToSet(call.listed) \cap Folders)
    <3>1. IsFiniteSet(Folders)
      BY ListingAssumption, Handles, FS_Subset
    <3> QED BY <3>1, FS_Subset
  <2>2. FoldersIn(call.listed) \in Seq(Folders)
    BY <2>1, SeqOfSet, SeqMonotonic DEF FoldersIn
  <2>3. call.visit \in Seq(Folders)
    BY <1>1 DEF CallShape
  <2> QED BY <2>2, <2>3, ConcatProperties, EmptySeq
<1>4. ASSUME NEW d \in CallShape, NEW verdict \in {"ok", "error"},
             call' = ListingEnded(d, verdict), d.folder = call.folder, UNCHANGED history
      PROVE  ListInv'
  <2>1. call' \in CallShape /\ call'.at = "done" /\ call'.folder = call.folder
    BY <1>4 DEF ListingEnded, CallShape
  <2>2. Undisturbed /\ history'.late = history.late
    BY <1>1, <1>4, Idles
  <2>3. RequiredInv' /\ UnresolvedInv' /\ InfoInv' /\ ListedInv' /\ CancelInv'
    BY <2>1, <2>2 DEF RequiredInv, UnresolvedInv, InfoInv, ListedInv, CancelInv, Undisturbed,
                      ListInv
  <2> QED BY <1>1, <2>1, <2>2, <2>3, StepsOn
<1>5. CASE NothingReadable
  <2>1. call' = ListingEnded(call, "error") /\ UNCHANGED history
    BY <1>5 DEF Collect
  <2> QED BY <1>1, <1>4, <2>1
<1>6. CASE ~NothingReadable /\ visit = <<>>
  <2>1. call' = ListingEnded(c, "ok") /\ UNCHANGED history
    BY <1>6 DEF Collect
  <2>2. c.folder = call.folder
    BY <1>1 DEF CallShape
  <2> HIDE DEF c
  <2> QED BY <1>2, <1>4, <2>1, <2>2
<1>7. CASE ~NothingReadable /\ visit # <<>>
  <2> DEFINE d == [c EXCEPT !.visit = Front(visit)]
             f == Last(visit)
  <2>1. call' = Folder(d, f) /\ history' = FolderHistory(f)
    BY <1>7 DEF Collect
  <2> HIDE DEF c, visit
  <2>2. f \in Folders /\ Front(visit) \in Seq(Folders)
    <3>1. /\ Len(visit) \in Nat \ {0} /\ Len(visit) - 1 \in Nat
          /\ \A i \in 1 .. Len(visit) : visit[i] \in Folders
      BY <1>3, <1>7, LenProperties, EmptySeq, ElementOfSeq
    <3>2. visit[Len(visit)] \in Folders
      BY <3>1
    <3>3. SubSeq(visit, 1, Len(visit) - 1) \in Seq(Folders)
      BY <1>3, <3>1, SubSeqProperties
    <3> QED BY <3>2, <3>3 DEF Last, Front
  <2>3. d \in CallShape
    BY <1>2, <2>2 DEF CallShape
  <2> HIDE DEF d, f
  <2>4. /\ call' \in CallShape /\ call'.at = "start" /\ call'.folder = f /\ call'.listed = <<>>
        /\ call'.asked = 0 /\ call'.found = NoAnswers /\ ~call'.alien
    BY <2>1, <2>2, <2>3, FolderShape
  <2>5. /\ history' \in HistoryShape /\ history'.stayed = Children(f) /\ history'.ever = Children(f)
        /\ history'.late = history.late
    <3>1. Children(f) \in SUBSET Objects
      BY HandleSets
    <3> QED BY <1>1, <2>1, <3>1 DEF HistoryShape, FolderHistory
  <2>6. ListingShape' /\ TreeInv'
    BY <1>1, <2>4, <2>5 DEF ListingShape, TreeInv, ListInv, ExactInv
  <2>7. FolderInv'
    BY <1>1, <2>4, <2>5 DEF FolderInv, Children
  <2>8. RequiredInv' /\ UnresolvedInv' /\ InfoInv' /\ ListedInv' /\ CancelInv'
    BY <1>1, <2>4, <2>5 DEF RequiredInv, UnresolvedInv, InfoInv, ListedInv, CancelInv, ListInv
  <2> QED BY <2>6, <2>7, <2>8 DEF ListInv, ExactInv
<1> QED BY <1>5, <1>6, <1>7

LEMMA KeepsCancel == ListInv /\ CancelListing => ListInv'
<1> SUFFICES ASSUME ListInv, CancelListing PROVE ListInv'
  OBVIOUS
<1>1. UNCHANGED <<dev, tree, off, call, history>> /\ token' = TRUE /\ ~token
  BY DEF CancelListing
<1>2. ListingShape' /\ CancelInv'
  BY <1>1 DEF ListInv, ListingShape, CancelInv
<1>3. ExactInv'
  BY <1>1 DEF ListInv, ExactInv, TreeInv, FolderInv, RequiredInv, UnresolvedInv, InfoInv, ListedInv,
              AnswersInv, Unambiguous, Children
<1> QED BY <1>2, <1>3 DEF ListInv

LEMMA ListingStutters == ListInv /\ UNCHANGED listingVars => ListInv'
<1> SUFFICES ASSUME ListInv, UNCHANGED listingVars PROVE ListInv'
  OBVIOUS
<1>1. UNCHANGED <<dev, tree, off, token, call, history>>
  BY DEF listingVars, listing
<1> QED BY <1>1 DEF ListInv, ListingShape, ExactInv, TreeInv, FolderInv, RequiredInv, UnresolvedInv,
                    InfoInv, ListedInv, CancelInv, AnswersInv, Unambiguous, Children

LEMMA ListingSteps == ListInv /\ [ListingNext]_listingVars => ListInv'
  BY ListingBegins, TreeChanges, KeepsCancel, KeepsBail, KeepsFailure, KeepsList, KeepsDecline,
     KeepsRefusal, KeepsRequired, KeepsOptional, KeepsAll, KeepsFolder, KeepsSamsung, KeepsInfo,
     KeepsSize, KeepsCollect, ListingStutters
     DEF ListingNext, Advance

(* The invariant of the listings. *)
THEOREM ListingIsKept == ListingSpec => []ListInv
  BY ListingStarts, ListingSteps, PTL DEF ListingSpec

(* A folder listing hides nothing that stayed in the folder, and reports   *)
(* nothing that was not in it meanwhile (`list`, `resolve_listing`,        *)
(* `list_by_prop_list`): for every tree, every device's quirks and every   *)
(* change of the tree between two transactions.                            *)
THEOREM ListingsAreExact == ListingSpec => []ListingIsExact
<1>1. ListInv => ListingIsExact
  BY DEF ListInv, ExactInv, ListedInv, ListingIsExact, ListingIsComplete, ListingIsSound
<1> QED BY <1>1, ListingIsKept, PTL

(* A set token lets at most one more request out (`bail_if_cancelled`).    *)
THEOREM CancelsArePrompt == ListingSpec => []CancelIsPrompt
<1>1. ListInv => CancelIsPrompt
  BY DEF ListInv, CancelInv, CancelIsPrompt
<1> QED BY <1>1, ListingIsKept, PTL

(* The fast path of a device that serves property lists is given up for    *)
(* the session only in a listing during which the tree changed             *)
(* (`Unusable::Systemic`).                                                 *)
THEOREM RacesAloneCostTheFastPath == ListingSpec => FastPathSurvives
<1> DEFINE Survives == off' /\ ~off /\ dev.lists = "serves" /\ dev.bad = {} => history.raced
<1>1. ListInv /\ [ListingNext]_listingVars => [Survives]_listingVars
  <2> SUFFICES ASSUME ListInv, ListingNext, off', ~off, dev.lists = "serves", dev.bad = {},
                      ~history.raced
               PROVE  FALSE
    BY DEF Survives
  <2>1. DeclinesRequired \/ AskRequired
    BY DEF ListingNext, Advance, StartListing, ChangeTree, CancelListing, BailIfCancelled,
           SessionFails, List, RefusesFolder, AskOptional, PassOptional, ServedByPropList, AskAll,
           AskFolder, AskSamsung, AskInfo, AskSize, InfoExhausted, Collect, listing
  <2>2. CASE DeclinesRequired
    BY <2>2 DEF DeclinesRequired
  <2>3. CASE AskRequired
    <3> DEFINE c == WithAnswer
    <3>1. /\ call.at = "required"
          /\ off' = (off \/ (call.asked + 1 = Len(Required) /\ Systemic(c.found, c.alien)))
      BY <2>3 DEF AskRequired, WithAnswer
    <3>2. AnswersInv(c.found, c.alien, c.asked) /\ c.asked = call.asked + 1
      BY <3>1, AnswerTaken
    <3> HIDE DEF c
    <3>3. ~c.alien /\ \A i \in 1 .. 4 : c.found[i] = Children(call.folder)
      BY <3>1, <3>2 DEF AnswersInv, Required
    <3>4. DOMAIN Required = 1 .. 4
      BY DEF Required
    <3>5. Seen(c.found) \subseteq Children(call.folder)
      BY <3>3, <3>4 DEF Seen
    <3>6. \A i \in 1 .. 4 : Lacking(c.found, i) = {}
      BY <3>3, <3>5 DEF Lacking, Needing
    <3> QED BY <3>1, <3>3, <3>4, <3>6 DEF Systemic
  <2> QED BY <2>1, <2>2, <2>3
<1> QED BY <1>1, ListingIsKept, PTL DEF ListingSpec, FastPathSurvives
-----------------------------------------------------------------------------
(* The worker: its invariant *)

Objs == {r.obj : r \in Reads}

(* Requests on their way from a client to the worker. *)
PlainReqs == [kind : Kinds, id : Ids, client : Clients]
ReadReqs == [kind : {"download", "window", "read"}, id : Ids, client : Clients, obj : Objs,
             offset : 0 .. FileSize, len : Nat \ {0}]
Reqs == PlainReqs \cup ReadReqs

(* The units of an object, and all that goes over a channel. *)
Data == Objs \X Nat
Units == Data \cup {ReadError} \cup Nat

Writing == worker.at = "write"
Pumps == worker.at \in {"pump", "flush"}

(* The states of a client, and of a channel. *)
Bare == [at : {"idle"}, result : {"none", "disconnected", "dropped", "answered", "failed"}]
ReadResults == [at : {"idle"}, result : {"end", "failed"}, req : ReadReqs, got : Seq(Data)]
UploadResults == [at : {"idle"}, result : {"failed", "stored", "clean", "aborted"}, req : PlainReqs]
Callers == [at : {"call"}, req : Reqs, sent : Nat, stop : {"none"}]
Uploaders == [at : {"upload", "verdict"}, req : PlainReqs, sent : Nat,
              stop : {"none", "clean", "aborted"}]
Readers == [at : {"body", "joining"}, req : ReadReqs, got : Seq(Data), failed : BOOLEAN]

ClientStates == Bare \cup ReadResults \cup UploadResults \cup Callers \cup Uploaders \cup Readers

Channels == [q : Seq(Units), rx : BOOLEAN, tx : BOOLEAN,
             reply : {"none", "error", "committed", "short"}]

WorkerStates ==
  {Receiving, Ended}
    \cup [at : {"pump", "flush"}, req : ReadReqs, pos : Nat, left : Nat, fails : BOOLEAN]
    \cup [at : {"write"}, req : PlainReqs, written : Nat]

WpdShape ==
  /\ queue \in Seq(Reqs \cup {Shutdown}) /\ worker \in WorkerStates
  /\ kept \in {NoStream} \cup [obj : Objs, at : Nat, pos : Nat]
  /\ chan \in [Ids -> Channels] /\ client \in [Clients -> ClientStates]
  /\ stored \in [Ids -> Nat] /\ calls \in 0 .. MaxCalls /\ device \in BOOLEAN

(* The requests that are somewhere: in the queue, served, or waited for. *)
Queued == ToSet(queue) \ {Shutdown}
Served == IF Pumps \/ Writing THEN {worker.req} ELSE {}
Awaited == {client[c].req : c \in {d \in Clients : client[d].at # "idle"}}
Held == Queued \cup Served \cup Awaited

(* A request's id is its own. *)
UniqueInv ==
  /\ \A r, s \in Held : r.id = s.id => r = s
  /\ \A r \in Held : r.id <= calls

(* No request is in the queue twice, or there while it is served. *)
Distinct(s) == \A i, j \in DOMAIN s : s[i] = s[j] /\ s[i] # Shutdown => i = j
QueueInv == Distinct(queue) /\ Queued \cap Served = {}

(* The stream that is kept is where its keeper believes it is. *)
KeptInv == kept # NoStream => kept.pos = kept.at

(* The pump's position, and what a writer writes. *)
WorkerInv ==
  /\ Pumps => /\ worker.pos + worker.left = worker.req.offset + worker.req.len
              /\ worker.req.offset <= worker.pos /\ worker.pos <= FileSize
  /\ Writing => worker.req.kind = "upload"

(* A channel is at most one unit over its bound, and only until that unit  *)
(* is waited for; what else the worker's state implies.                    *)
BoundInv ==
  /\ \A i \in Ids : Len(chan[i].q) <= Bound + 1
  /\ worker.at = "pump" => Len(chan[worker.req.id].q) <= Bound \/ ~chan[worker.req.id].rx
  /\ kept # NoStream => worker.at = "recv"
  /\ worker.at = "ended" => queue = <<>>

(* A verdict is true of what the device stored, and nothing is stored for  *)
(* an upload that is not through.                                          *)
StoredInv ==
  /\ \A i \in Ids : /\ i > calls => chan[i].reply = "none" /\ stored[i] = Absent
                    /\ chan[i].reply = "committed" => stored[i] = FileSize
                    /\ chan[i].reply = "short" => stored[i] = Absent
  /\ \A r \in Queued \cup Served : chan[r.id].reply = "none" /\ stored[r.id] = Absent

(* A client waits for a request of its own, of the kind it waits for. *)
RoleOK(c) ==
  /\ client[c].at # "idle" => client[c].req.client = c
  /\ client[c].at \in {"upload", "verdict"} => client[c].req.kind = "upload"
  /\ client[c].at = "verdict" => client[c].stop # "none"

(* The n-th unit that a read request asks for. *)
Unit(r, n) == <<r.obj, r.offset + n - 1>>

(* What a client has read are the first units it asked for. *)
GotOK(c) ==
  "got" \in DOMAIN client[c] =>
    /\ \A i \in 1 .. Len(client[c].got) : client[c].got[i] = Unit(client[c].req, i)
    /\ Len(client[c].got) <= client[c].req.len
    /\ client[c].at = "idle" /\ client[c].result = "end" =>
         \/ Len(client[c].got) = client[c].req.len
         \/ client[c].req.offset + Len(client[c].got) = FileSize

(* What is ahead of a reader that has n units: the next ones it asked for, *)
(* and possibly a failure behind them, with which the pump ends.           *)
Broken(failed, q) == failed \/ (q # <<>> /\ q[Len(q)] = ReadError)

FlowOK(r, n, failed, q, source, pos) ==
  /\ failed => q = <<>>
  /\ \A i \in 1 .. Len(q) : q[i] = Unit(r, n + i) \/ (i = Len(q) /\ q[i] = ReadError)
  /\ ~Broken(failed, q) =>
       /\ n + Len(q) <= r.len /\ source # "failed"
       /\ source = "open" => pos = r.offset + n + Len(q)
       /\ source = "ended" => n + Len(q) = r.len \/ r.offset + n + Len(q) = FileSize
  /\ Broken(failed, q) => n + Len(q) <= r.len + 1 /\ source # "open"

(* What the channel k still has to expect of the pump. *)
Source(k) == IF ~k.tx THEN "ended" ELSE IF worker.fails THEN "failed" ELSE "open"

BodyOK(c) ==
  client[c].at = "body" =>
    LET r == client[c].req
        k == chan[r.id]
    IN  /\ r \notin Queued /\ k.rx /\ (k.tx <=> Pumps /\ worker.req = r)
        /\ FlowOK(r, Len(client[c].got), client[c].failed, k.q, Source(k), worker.pos)

(* An upload's result is what the device stored, and stays it. *)
ResultOK(c) ==
  client[c].at = "idle" /\ client[c].result \in {"stored", "clean", "aborted"} =>
    /\ client[c].req.id \in Ids /\ client[c].req.id <= calls
    /\ \A r \in Queued \cup Served : r.id # client[c].req.id
    /\ client[c].result = "stored" => stored[client[c].req.id] = FileSize
    /\ client[c].result # "stored" => stored[client[c].req.id] = Absent

ClientInv(c) == RoleOK(c) /\ GotOK(c) /\ BodyOK(c) /\ ResultOK(c)

WpdInv ==
  /\ WpdShape /\ UniqueInv /\ QueueInv /\ KeptInv /\ WorkerInv /\ BoundInv /\ StoredInv
  /\ \A c \in Clients : ClientInv(c)
-----------------------------------------------------------------------------
(* Requests, queues and what is ahead of a reader *)

LEMMA Sizes ==
  /\ FileSize \in Nat /\ Bound \in Nat /\ MaxCalls \in Nat /\ Kinds \subseteq {"plain", "upload"}
  /\ Absent \in Nat /\ Absent # FileSize
  /\ "error" \notin Objs
  /\ \A r \in ReadReqs : /\ r.kind \in {"download", "window", "read"} /\ r.id \in Ids
                         /\ r.client \in Clients /\ r.obj \in Objs /\ r.offset \in Nat
                         /\ r.offset <= FileSize /\ r.len \in Nat /\ r.len > 0
  /\ \A r \in PlainReqs : r.kind \in {"plain", "upload"} /\ r.id \in Ids /\ r.client \in Clients
  /\ \A i \in Ids : i \in Nat
<1>1. FileSize \in Nat /\ Bound \in Nat /\ MaxCalls \in Nat /\ Kinds \subseteq {"plain", "upload"}
  BY WpdAssumption
<1>2. "error" \notin Objs
  BY WpdAssumption DEF Objs
<1>3. Absent \in Nat /\ Absent # FileSize
  BY <1>1 DEF Absent
<1>4. \A i \in Ids : i \in Nat
  BY <1>1 DEF Ids
<1>5. \A r \in ReadReqs : /\ r.kind \in {"download", "window", "read"} /\ r.id \in Ids
                          /\ r.client \in Clients /\ r.obj \in Objs /\ r.offset \in Nat
                          /\ r.offset <= FileSize /\ r.len \in Nat /\ r.len > 0
  BY <1>1 DEF ReadReqs
<1>6. \A r \in PlainReqs : r.kind \in {"plain", "upload"} /\ r.id \in Ids /\ r.client \in Clients
  BY <1>1 DEF PlainReqs
<1> QED BY <1>1, <1>2, <1>3, <1>4, <1>5, <1>6

LEMMA KindsOfRequests ==
  /\ \A r \in Reqs : r.id \in Ids /\ r.client \in Clients
  /\ \A r \in Reqs : r.kind \in {"download", "window", "read"} => r \in ReadReqs
  /\ \A r \in Reqs : r.kind \in {"plain", "upload"} => r \in PlainReqs
  /\ \A r \in Reqs : r # Shutdown /\ r.kind # "shutdown"
<1>1. \A r \in Reqs : r.id \in Ids /\ r.client \in Clients
  BY Sizes DEF Reqs
<1>2. \A r \in Reqs : r.kind \in {"download", "window", "read"} => r \in ReadReqs
  BY Sizes DEF Reqs
<1>3. \A r \in Reqs : r.kind \in {"plain", "upload"} => r \in PlainReqs
  BY Sizes DEF Reqs
<1>4. \A r \in Reqs : r.kind # "shutdown"
  BY Sizes DEF Reqs
<1>5. Shutdown.kind = "shutdown"
  BY DEF Shutdown
<1> QED BY <1>1, <1>2, <1>3, <1>4, <1>5

(* What the place of a client says of its state. *)
LEMMA ClientShapes ==
  ASSUME WpdShape, NEW c \in Clients
  PROVE  /\ client[c] \in ClientStates
         /\ client[c].at \in {"idle", "call", "upload", "verdict", "body", "joining"}
         /\ client[c].at = "call" => client[c] \in Callers
         /\ client[c].at \in {"upload", "verdict"} => client[c] \in Uploaders
         /\ client[c].at \in {"body", "joining"} => client[c] \in Readers
         /\ client[c].at # "idle" => client[c].req \in Reqs
<1>1. client[c] \in ClientStates
  BY DEF WpdShape
<1> QED BY <1>1 DEF ClientStates, Bare, ReadResults, UploadResults, Callers, Uploaders, Readers, Reqs

(* Only a reader, or one that has read, has units. *)
LEMMA GotShapes ==
  ASSUME NEW s \in ClientStates
  PROVE  /\ "got" \in DOMAIN s <=> s \in Readers \cup ReadResults
         /\ s \in Bare => /\ s.at = "idle" /\ s.result \notin {"stored", "clean", "aborted"}
                          /\ "got" \notin DOMAIN s
         /\ s \in Callers => s.at = "call" /\ "got" \notin DOMAIN s
         /\ s \in Uploaders => s.at \in {"upload", "verdict"} /\ "got" \notin DOMAIN s
         /\ s \in UploadResults => s.at = "idle" /\ "got" \notin DOMAIN s
<1>1. s \in Readers \cup ReadResults => "got" \in DOMAIN s
  BY DEF Readers, ReadResults
<1>2. s \in Bare \cup UploadResults \cup Callers \cup Uploaders => "got" \notin DOMAIN s
  BY DEF Bare, UploadResults, Callers, Uploaders
<1>3. /\ s \in Bare => s.at = "idle" /\ s.result \notin {"stored", "clean", "aborted"}
      /\ s \in Callers => s.at = "call"
      /\ s \in Uploaders => s.at \in {"upload", "verdict"}
      /\ s \in UploadResults => s.at = "idle"
  BY DEF Bare, UploadResults, Callers, Uploaders
<1> QED BY <1>1, <1>2, <1>3 DEF ClientStates

(* What the worker is doing. *)
LEMMA WorkerShapes ==
  ASSUME WpdShape
  PROVE  /\ worker.at \in {"recv", "ended", "pump", "flush", "write"}
         /\ worker.at = "recv" => worker = Receiving
         /\ worker.at = "ended" => worker = Ended
         /\ Pumps => /\ worker \in [at : {"pump", "flush"}, req : ReadReqs, pos : Nat, left : Nat,
                                    fails : BOOLEAN]
                     /\ worker.req \in ReadReqs /\ worker.pos \in Nat /\ worker.left \in Nat
                     /\ worker.fails \in BOOLEAN
         /\ Writing => /\ worker \in [at : {"write"}, req : PlainReqs, written : Nat]
                       /\ worker.req \in PlainReqs /\ worker.written \in Nat
  BY DEF WpdShape, WorkerStates, Receiving, Ended, Pumps, Writing

(* The requests held are requests. *)
LEMMA HeldShapes ==
  ASSUME WpdShape
  PROVE  Queued \subseteq Reqs /\ Served \subseteq Reqs /\ Held \subseteq Reqs
<1>1. Queued \subseteq Reqs
  <2>1. ToSet(queue) \subseteq Reqs \cup {Shutdown}
    BY ElementOfSeq, LenProperties DEF WpdShape, ToSet
  <2> QED BY <2>1 DEF Queued
<1>2. Served \subseteq Reqs
  BY WorkerShapes DEF Served, Reqs
<1>3. Awaited \subseteq Reqs
  BY ClientShapes DEF Awaited
<1> QED BY <1>1, <1>2, <1>3 DEF Held

(* Taking the first request leaves the others, and it was there only once. *)
LEMMA DistinctTail ==
  ASSUME NEW S, NEW s \in Seq(S), s # <<>>, Distinct(s)
  PROVE  /\ Distinct(Tail(s))
         /\ Head(s) # Shutdown => Head(s) \notin ToSet(Tail(s))
<1>1. /\ Len(s) \in Nat \ {0} /\ Len(Tail(s)) = Len(s) - 1 /\ Tail(s) \in Seq(S)
      /\ \A i \in 1 .. Len(Tail(s)) : Tail(s)[i] = s[i + 1]
      /\ Head(s) = s[1]
  BY HeadTailProperties, LenProperties, EmptySeq
<1>2. DOMAIN s = 1 .. Len(s) /\ DOMAIN Tail(s) = 1 .. Len(Tail(s))
  BY <1>1, LenProperties
<1>3. \A i \in DOMAIN Tail(s) : i + 1 \in DOMAIN s /\ i + 1 # 1 /\ Tail(s)[i] = s[i + 1] /\ i \in Int
  BY <1>1, <1>2
<1>4. 1 \in DOMAIN s
  BY <1>1, <1>2
<1>5. ASSUME NEW i \in DOMAIN Tail(s), NEW j \in DOMAIN Tail(s),
             Tail(s)[i] = Tail(s)[j], Tail(s)[i] # Shutdown
      PROVE  i = j
  <2>1. i + 1 = j + 1
    BY <1>3, <1>5 DEF Distinct
  <2> QED BY <1>3, <2>1
<1>6. ASSUME Head(s) # Shutdown, NEW i \in DOMAIN Tail(s), Tail(s)[i] = Head(s) PROVE FALSE
  BY <1>1, <1>3, <1>4, <1>6 DEF Distinct
<1> QED BY <1>5, <1>6 DEF Distinct, ToSet

(* Another request behind them, or another order to stop, is not among them. *)
LEMMA DistinctAppend ==
  ASSUME NEW S, NEW s \in Seq(S), NEW x \in S, Distinct(s), x = Shutdown \/ x \notin ToSet(s)
  PROVE  Distinct(Append(s, x))
<1>1. /\ Append(s, x) \in Seq(S) /\ Len(s) \in Nat /\ Len(Append(s, x)) = Len(s) + 1
      /\ \A i \in 1 .. Len(s) : Append(s, x)[i] = s[i]
      /\ Append(s, x)[Len(s) + 1] = x
  BY AppendProperties, LenProperties
<1>2. /\ DOMAIN s = 1 .. Len(s) /\ DOMAIN Append(s, x) = 1 .. Len(Append(s, x))
      /\ \A i : i \in DOMAIN Append(s, x) <=> i \in DOMAIN s \/ i = Len(s) + 1
  BY <1>1, LenProperties
<1>3. \A i \in DOMAIN s : s[i] = x => x = Shutdown
  BY DEF ToSet
<1> QED BY <1>1, <1>2, <1>3 DEF Distinct

(* Reading what is ahead *)
LEMMA FlowRead ==
  ASSUME NEW r \in ReadReqs, NEW n \in Nat, NEW failed \in BOOLEAN,
         NEW q \in Seq(Units), q # <<>>, NEW source, NEW pos,
         FlowOK(r, n, failed, q, source, pos), n <= r.len
  PROVE  /\ Head(q) = ReadError => FlowOK(r, n, TRUE, Tail(q), source, pos)
         /\ Head(q) # ReadError => /\ Head(q) = Unit(r, n + 1) /\ n + 1 <= r.len
                                   /\ FlowOK(r, n + 1, failed, Tail(q), source, pos)
<1>1. /\ Len(q) \in Nat /\ Len(q) >= 1 /\ Len(Tail(q)) = Len(q) - 1
      /\ \A i \in 1 .. Len(Tail(q)) : Tail(q)[i] = q[i + 1]
      /\ Head(q) = q[1] /\ Tail(q) \in Seq(Units)
  <2>1. q # <<>> => Len(q) # 0
    BY EmptySeq
  <2> QED BY <2>1, HeadTailProperties, LenProperties
<1>2. r.len \in Nat /\ r.offset \in Nat /\ r.obj # "error"
  BY Sizes
<1>3. \A i \in Nat : Unit(r, i) # ReadError
  BY <1>2 DEF Unit, ReadError
<1>4. /\ ~failed
      /\ q[1] = Unit(r, n + 1) \/ (Len(q) = 1 /\ q[1] = ReadError)
  <2>1. 1 \in 1 .. Len(q)
    BY <1>1
  <2> QED BY <2>1 DEF FlowOK
<1>5. Len(q) > 1 => Tail(q)[Len(Tail(q))] = q[Len(q)]
  BY <1>1
<1>6. CASE Head(q) = ReadError
  <2>1. Len(q) = 1 /\ Tail(q) = <<>> /\ Len(Tail(q)) = 0
    BY <1>1, <1>3, <1>4, <1>6, EmptySeq
  <2>2. Broken(failed, q)
    BY <1>1, <1>6, <2>1 DEF Broken
  <2>3. source # "open" /\ n + 0 <= r.len + 1
    BY <1>2, <2>2 DEF FlowOK
  <2>4. FlowOK(r, n, TRUE, Tail(q), source, pos)
    BY <1>2, <2>1, <2>3 DEF FlowOK, Broken
  <2> QED BY <1>6, <2>4
<1>7. CASE Head(q) # ReadError
  <2>1. Head(q) = Unit(r, n + 1) /\ ~failed
    BY <1>1, <1>4, <1>7 DEF FlowOK
  <2>2. Broken(failed, q) <=> Broken(failed, Tail(q))
    <3>1. q # <<>>
      OBVIOUS
    <3>2. CASE Len(q) = 1
      <4>1. q[Len(q)] # ReadError
        BY <1>1, <1>7, <3>2
      <4>2. Len(Tail(q)) = 0
        BY <1>1, <3>2
      <4>3. Tail(q) = <<>>
        BY <1>1, <4>2, EmptySeq
      <4> QED BY <2>1, <4>1, <4>3 DEF Broken
    <3>3. CASE Len(q) > 1
      <4>1. Len(Tail(q)) # 0
        BY <1>1, <3>3
      <4>2. Tail(q) # <<>>
        BY <1>1, <4>1, EmptySeq
      <4> QED BY <1>5, <2>1, <3>1, <3>3, <4>2 DEF Broken
    <3> QED BY <1>1, <3>2, <3>3
  <2>3. Broken(failed, q) => Len(q) >= 2
    BY <1>1, <1>7, <2>1 DEF Broken
  <2>4. n + 1 <= r.len /\ n + 1 + Len(Tail(q)) = n + Len(q)
    <3>1. Broken(failed, q) => n + Len(q) <= r.len + 1 /\ Len(q) >= 2
      BY <2>3 DEF FlowOK
    <3>2. ~Broken(failed, q) => n + Len(q) <= r.len
      BY DEF FlowOK
    <3> QED BY ONLY <1>1, <1>2, <3>1, <3>2, n \in Nat
  <2>5. ASSUME NEW i \in 1 .. Len(Tail(q))
        PROVE  Tail(q)[i] = Unit(r, n + 1 + i) \/ (i = Len(Tail(q)) /\ Tail(q)[i] = ReadError)
    <3>1. i + 1 \in 1 .. Len(q) /\ n + (i + 1) = n + 1 + i /\ (i + 1 = Len(q) <=> i = Len(Tail(q)))
      BY <1>1
    <3> QED BY <1>1, <3>1 DEF FlowOK
  <2>6. FlowOK(r, n + 1, failed, Tail(q), source, pos)
    <3>1. r.offset + (n + 1) + Len(Tail(q)) = r.offset + n + Len(q)
      BY <1>1, <1>2
    <3> QED BY <2>1, <2>2, <2>4, <2>5, <3>1 DEF FlowOK
  <2> QED BY <1>7, <2>1, <2>4, <2>6
<1> QED BY <1>6, <1>7

(* Putting one more unit, or the failure, behind what is ahead. *)
LEMMA FlowSend ==
  ASSUME NEW r \in ReadReqs, NEW n \in Nat, NEW failed \in BOOLEAN,
         NEW q \in Seq(Units), NEW pos \in Nat, NEW left \in Nat,
         pos + left = r.offset + r.len, left > 0,
         FlowOK(r, n, failed, q, "open", pos)
  PROVE  /\ FlowOK(r, n, failed, Append(q, <<r.obj, pos>>), "open", pos + 1)
         /\ FlowOK(r, n, failed, Append(q, ReadError), "failed", pos)
<1>1. r.len \in Nat /\ r.offset \in Nat /\ r.obj # "error" /\ r.obj \in Objs
  BY Sizes
<1>2. ~Broken(failed, q) /\ ~failed
  BY DEF FlowOK, Broken
<1>3. Len(q) \in Nat /\ pos = r.offset + n + Len(q) /\ n + Len(q) + 1 <= r.len
  BY <1>1, <1>2, LenProperties DEF FlowOK
<1>4. \A i \in 1 .. Len(q) : q[i] = Unit(r, n + i)
  BY <1>2, <1>3 DEF FlowOK, Broken
<1>5. <<r.obj, pos>> = Unit(r, n + (Len(q) + 1)) /\ <<r.obj, pos>> # ReadError
  <2>1. r.offset + (n + (Len(q) + 1)) - 1 = pos
    BY <1>1, <1>3
  <2> QED BY <1>1, <2>1 DEF Unit, ReadError
<1>6. ASSUME NEW x \in {<<r.obj, pos>>, ReadError}
      PROVE  /\ Len(Append(q, x)) = Len(q) + 1 /\ Append(q, x) # <<>>
             /\ \A i \in 1 .. Len(q) : Append(q, x)[i] = Unit(r, n + i)
             /\ Append(q, x)[Len(q) + 1] = x
  <2>1. x \in Units
    BY <1>1 DEF Units, Data
  <2> QED BY <1>3, <1>4, <2>1, AppendProperties, EmptySeq
<1>7. FlowOK(r, n, failed, Append(q, <<r.obj, pos>>), "open", pos + 1)
  <2> DEFINE p == Append(q, <<r.obj, pos>>)
  <2>1. Len(p) = Len(q) + 1 /\ p # <<>> /\ p[Len(p)] # ReadError
    BY <1>5, <1>6
  <2>2. \A i \in 1 .. Len(p) : p[i] = Unit(r, n + i)
    <3>1. \A i \in 1 .. Len(p) : i \in 1 .. Len(q) \/ i = Len(q) + 1
      BY <1>3, <2>1
    <3> QED BY <1>5, <1>6, <3>1
  <2>3. n + (Len(q) + 1) <= r.len /\ pos + 1 = r.offset + n + (Len(q) + 1)
    BY ONLY <1>1, <1>3, n \in Nat, pos \in Nat
  <2> HIDE DEF p
  <2>4. ~Broken(failed, p)
    BY <1>2, <2>1 DEF Broken
  <2>5. FlowOK(r, n, failed, p, "open", pos + 1)
    BY <1>2, <2>1, <2>2, <2>3, <2>4 DEF FlowOK
  <2> QED BY <2>5 DEF p
<1>8. FlowOK(r, n, failed, Append(q, ReadError), "failed", pos)
  <2> DEFINE p == Append(q, ReadError)
  <2>1. Len(p) = Len(q) + 1 /\ p # <<>> /\ p[Len(p)] = ReadError
    BY <1>6
  <2>2. \A i \in 1 .. Len(p) : p[i] = Unit(r, n + i) \/ (i = Len(p) /\ p[i] = ReadError)
    <3>1. \A i \in 1 .. Len(p) : i \in 1 .. Len(q) \/ i = Len(p)
      BY <1>3, <2>1
    <3> QED BY <1>6, <2>1, <3>1
  <2>3. n + Len(p) <= r.len + 1
    BY <1>1, <1>3, <2>1
  <2> HIDE DEF p
  <2>4. Broken(failed, p)
    BY <2>1 DEF Broken
  <2>5. FlowOK(r, n, failed, p, "failed", pos)
    BY <1>2, <2>2, <2>3, <2>4 DEF FlowOK
  <2> QED BY <2>5 DEF p
<1> QED BY <1>7, <1>8

(* Nothing more comes: all that was asked for, or that there is, is ahead. *)
LEMMA FlowEnd ==
  ASSUME NEW r \in ReadReqs, NEW n \in Nat, NEW failed \in BOOLEAN, NEW q \in Seq(Units),
         NEW source \in {"open", "failed"}, NEW pos \in Nat, NEW left \in Nat,
         pos + left = r.offset + r.len, pos <= FileSize,
         source = "failed" \/ left = 0 \/ pos >= FileSize,
         FlowOK(r, n, failed, q, source, pos), NEW p
  PROVE  FlowOK(r, n, failed, q, "ended", p)
<1>1. r.len \in Nat /\ r.offset \in Nat /\ FileSize \in Nat /\ Len(q) \in Nat
  BY Sizes, LenProperties
<1>2. ~Broken(failed, q) => n + Len(q) = r.len \/ r.offset + n + Len(q) = FileSize
  <2>1. SUFFICES ASSUME ~Broken(failed, q)
                 PROVE  n + Len(q) = r.len \/ r.offset + n + Len(q) = FileSize
    OBVIOUS
  <2>2. source # "failed" /\ (source = "open" => pos = r.offset + n + Len(q))
    BY <2>1 DEF FlowOK
  <2>3. pos = r.offset + n + Len(q) /\ (left = 0 \/ pos >= FileSize)
    BY <2>2
  <2>4. n \in Nat /\ pos \in Nat /\ left \in Nat /\ pos + left = r.offset + r.len /\ pos <= FileSize
    OBVIOUS
  <2> QED BY ONLY <1>1, <2>3, <2>4
<1> QED BY <1>2 DEF FlowOK
-----------------------------------------------------------------------------
(* What a step leaves alone *)

(* A client that a step does not touch keeps its invariant. *)
LEMMA Bystander ==
  ASSUME NEW d \in Clients, WpdShape, ClientInv(d), client'[d] = client[d],
         client[d].at = "body" =>
           /\ chan'[client[d].req.id] = chan[client[d].req.id]
           /\ client[d].req \notin Queued'
           /\ \/ worker' = worker
              \/ /\ ~(Pumps /\ worker.req = client[d].req)
                 /\ ~(Pumps' /\ worker'.req = client[d].req),
         calls' \in {calls, calls + 1},
         \A r \in Queued' \cup Served' : r \in Queued \cup Served \/ r.id = calls + 1,
         \A j \in Ids : stored'[j] = stored[j] \/ \E r \in Queued \cup Served : r.id = j
  PROVE  ClientInv(d)'
<1>1. RoleOK(d)' /\ GotOK(d)'
  BY DEF ClientInv, RoleOK, GotOK
<1>2. BodyOK(d)'
  <2>1. SUFFICES ASSUME client[d].at = "body" PROVE BodyOK(d)'
    BY DEF BodyOK
  <2> DEFINE r == client[d].req
             k == chan[r.id]
  <2>2. /\ k.rx /\ (k.tx <=> Pumps /\ worker.req = r)
        /\ FlowOK(r, Len(client[d].got), client[d].failed, k.q, Source(k), worker.pos)
    BY <2>1 DEF ClientInv, BodyOK
  <2>3. /\ client'[d].at = "body" /\ client'[d].req = r /\ chan'[r.id] = k /\ r \notin Queued'
        /\ client'[d].got = client[d].got /\ client'[d].failed = client[d].failed
    BY <2>1
  <2> HIDE DEF r, k
  <2>4. CASE worker' = worker
    <3>1. Pumps' <=> Pumps
      BY <2>4 DEF Pumps
    <3>2. (IF ~k.tx THEN "ended" ELSE IF worker'.fails THEN "failed" ELSE "open") = Source(k)
      BY <2>4 DEF Source
    <3>3. FlowOK(r, Len(client'[d].got), client'[d].failed, chan'[r.id].q,
                 IF ~chan'[r.id].tx THEN "ended" ELSE IF worker'.fails THEN "failed" ELSE "open",
                 worker'.pos)
      BY <2>2, <2>3, <2>4, <3>2
    <3> QED BY <2>2, <2>3, <2>4, <3>1, <3>3 DEF BodyOK, Source
  <2>5. CASE /\ ~(Pumps /\ worker.req = r)
             /\ ~(Pumps' /\ worker'.req = r)
    <3>1. ~k.tx /\ Source(k) = "ended"
      BY <2>2, <2>5 DEF Source
    <3>2. FlowOK(r, Len(client'[d].got), client'[d].failed, chan'[r.id].q, "ended", worker'.pos)
      BY <2>2, <2>3, <3>1 DEF FlowOK
    <3> QED BY <2>2, <2>3, <2>5, <3>1, <3>2 DEF BodyOK, Source, FlowOK, Broken
  <2> QED BY <2>1, <2>4, <2>5 DEF r
<1>3. ResultOK(d)'
  <2>1. SUFFICES ASSUME client[d].at = "idle", client[d].result \in {"stored", "clean", "aborted"}
                 PROVE  ResultOK(d)'
    BY DEF ResultOK
  <2> DEFINE i == client[d].req.id
  <2>2. /\ i \in Ids /\ i <= calls /\ \A r \in Queued \cup Served : r.id # i
        /\ client[d].result = "stored" => stored[i] = FileSize
        /\ client[d].result # "stored" => stored[i] = Absent
    BY <2>1 DEF ClientInv, ResultOK
  <2>3. i \in Nat /\ calls \in Nat /\ i # calls + 1 /\ i <= calls'
    BY <2>2, Sizes DEF WpdShape
  <2>4. stored'[i] = stored[i]
    BY <2>2
  <2>5. \A r \in Queued' \cup Served' : r.id # i
    BY <2>2, <2>3
  <2> QED BY <2>1, <2>2, <2>3, <2>4, <2>5 DEF ResultOK
<1> QED BY <1>1, <1>2, <1>3 DEF ClientInv

(* A client that has its answer, and nothing of it that counts. *)
LEMMA BareIsFine ==
  ASSUME NEW c \in Clients, client'[c] \in Bare
  PROVE  ClientInv(c)'
<1>1. client'[c] \in ClientStates
  BY DEF ClientStates
<1>2. /\ client'[c].at = "idle" /\ client'[c].result \notin {"stored", "clean", "aborted"}
      /\ "got" \notin DOMAIN client'[c]
  BY <1>1, GotShapes
<1> QED BY <1>2 DEF ClientInv, RoleOK, GotOK, BodyOK, ResultOK

(* An order to stop is no request. *)
LEMMA QueueGrows ==
  ASSUME WpdInv, queue' = queue \/ (worker.at # "ended" /\ queue' = Append(queue, Shutdown)),
         worker' = worker
  PROVE  /\ queue' \in Seq(Reqs \cup {Shutdown}) /\ Queued' = Queued /\ Served' = Served
         /\ QueueInv' /\ (worker.at = "ended" => queue' = <<>>)
<1>1. queue \in Seq(Reqs \cup {Shutdown}) /\ Distinct(queue) /\ Queued \cap Served = {}
  BY DEF WpdInv, WpdShape, QueueInv
<1>2. Served' = Served
  BY DEF Served, Pumps, Writing
<1>3. worker.at = "ended" => queue' = <<>>
  BY DEF WpdInv, BoundInv
<1>4. CASE queue' = queue
  BY <1>1, <1>2, <1>3, <1>4 DEF QueueInv, Queued, Distinct
<1>5. CASE queue' = Append(queue, Shutdown)
  <2>1. queue' \in Seq(Reqs \cup {Shutdown}) /\ Distinct(queue')
    BY <1>1, <1>5, DistinctAppend, AppendProperties
  <2>2. ToSet(queue') = ToSet(queue) \cup {Shutdown}
    BY <1>1, <1>5, SetOfAppend
  <2>3. Queued' = Queued
    BY <2>2 DEF Queued
  <2> QED BY <1>1, <1>2, <1>3, <2>1, <2>3 DEF QueueInv, Distinct
<1> QED BY <1>4, <1>5
(* A step of a client that has a request out: it may change its own state  *)
(* and its own channel, and stop the worker as it goes.                    *)
LEMMA ClientActs ==
  ASSUME WpdInv, NEW c \in Clients, client[c].at # "idle",
         NEW s \in ClientStates, s.at # "idle" => s.req = client[c].req,
         client' = [client EXCEPT ![c] = s],
         NEW k \in Channels, chan' = [chan EXCEPT ![client[c].req.id] = k],
         k.reply \in {chan[client[c].req.id].reply, "none"}, Len(k.q) <= Bound + 1,
         worker.at = "pump" /\ worker.req.id = client[c].req.id => Len(k.q) <= Bound \/ ~k.rx,
         queue' = queue \/ (worker.at # "ended" /\ queue' = Append(queue, Shutdown)),
         UNCHANGED <<worker, kept, stored, calls>>, device' \in BOOLEAN,
         ClientInv(c)'
  PROVE  WpdInv'
<1> DEFINE i == client[c].req.id
<1>1. WpdShape /\ \A d \in Clients : ClientInv(d)
  BY DEF WpdInv
<1>2. client[c].req \in Awaited /\ client[c].req \in Held /\ i \in Ids
  <2>1. client[c].req \in Awaited
    BY DEF Awaited
  <2>2. client[c].req \in Reqs
    BY <1>1, ClientShapes
  <2> QED BY <2>1, <2>2, KindsOfRequests DEF Held
<1> HIDE DEF i
<1>3. /\ queue' \in Seq(Reqs \cup {Shutdown}) /\ Queued' = Queued /\ Served' = Served
      /\ QueueInv' /\ (worker.at = "ended" => queue' = <<>>)
  BY QueueGrows
<1>4. /\ chan' \in [Ids -> Channels] /\ chan'[i] = k
      /\ \A j \in Ids : j # i => chan'[j] = chan[j]
  BY <1>1, <1>2 DEF WpdShape, i
<1>5. /\ client' \in [Clients -> ClientStates] /\ client'[c] = s
      /\ \A d \in Clients : d # c => client'[d] = client[d]
  BY <1>1 DEF WpdShape
<1>6. WpdShape'
  BY <1>1, <1>3, <1>4, <1>5 DEF WpdShape
<1>7. UniqueInv'
  <2>1. Awaited' \subseteq Awaited
    <3>1. SUFFICES ASSUME NEW d \in Clients, client'[d].at # "idle"
                   PROVE  client'[d].req \in Awaited
      BY DEF Awaited
    <3> QED BY <1>2, <1>5, <3>1 DEF Awaited
  <2>2. Held' \subseteq Held
    BY <1>3, <2>1 DEF Held
  <2> QED BY <2>2 DEF WpdInv, UniqueInv
<1>8. KeptInv' /\ WorkerInv'
  BY DEF WpdInv, KeptInv, WorkerInv, Pumps, Writing
<1>9. BoundInv'
  <2>1. \A j \in Ids : Len(chan'[j].q) <= Bound + 1
    BY <1>4 DEF WpdInv, BoundInv
  <2>2. ASSUME worker.at = "pump"
        PROVE  Len(chan'[worker.req.id].q) <= Bound \/ ~chan'[worker.req.id].rx
    <3>1. worker.req.id \in Ids
      BY <1>1, <2>2, WorkerShapes, KindsOfRequests DEF Pumps, Reqs
    <3>2. CASE worker.req.id = i
      BY <1>4, <2>2, <3>2 DEF i
    <3>3. CASE worker.req.id # i
      BY <1>4, <2>2, <3>1, <3>3 DEF WpdInv, BoundInv
    <3> QED BY <3>2, <3>3
  <2> QED BY <1>3, <2>1, <2>2 DEF WpdInv, BoundInv
<1>10. StoredInv'
  <2>1. \A j \in Ids : chan'[j].reply \in {chan[j].reply, "none"}
    BY <1>4 DEF i
  <2>2. \A r \in Queued \cup Served : r.id \in Ids
    BY <1>1, HeldShapes, KindsOfRequests
  <2> QED BY <1>3, <2>1, <2>2 DEF WpdInv, StoredInv
<1>11. ASSUME NEW d \in Clients, d # c PROVE ClientInv(d)'
  <2>1. client'[d] = client[d]
    BY <1>5, <1>11
  <2>2. ASSUME client[d].at = "body"
        PROVE  chan'[client[d].req.id] = chan[client[d].req.id] /\ client[d].req \notin Queued'
    <3>1. client[d].req \in Held /\ client[d].req \in Reqs
      BY <1>1, <2>2, ClientShapes DEF Held, Awaited
    <3>2. client[d].req.client = d /\ client[c].req.client = c
      BY <1>1, <2>2 DEF ClientInv, RoleOK
    <3>3. client[d].req.id # i
      BY <1>2, <1>11, <3>1, <3>2 DEF WpdInv, UniqueInv, i
    <3>4. client[d].req \notin Queued
      BY <1>1, <2>2 DEF ClientInv, BodyOK
    <3> QED BY <1>3, <1>4, <3>1, <3>3, <3>4, KindsOfRequests
  <2> QED BY <1>1, <1>3, <2>1, <2>2, Bystander
<1> QED BY <1>3, <1>5, <1>6, <1>7, <1>8, <1>9, <1>10, <1>11 DEF WpdInv

(* What a client with a request out has. *)
LEMMA Caller ==
  ASSUME WpdInv, NEW c \in Clients, client[c].at # "idle"
  PROVE  /\ client[c] \in ClientStates /\ client[c].req \in Reqs /\ client[c].req.id \in Ids
         /\ client[c].req \in Held /\ client[c].req.id <= calls
         /\ chan[client[c].req.id] \in Channels
         /\ Len(chan[client[c].req.id].q) <= Bound + 1
         /\ worker.at = "pump" /\ worker.req.id = client[c].req.id =>
              /\ worker.req = client[c].req
              /\ Len(chan[client[c].req.id].q) <= Bound \/ ~chan[client[c].req.id].rx
         /\ ClientInv(c)
<1>1. WpdShape /\ ClientInv(c)
  BY DEF WpdInv
<1>2. client[c] \in ClientStates /\ client[c].req \in Reqs /\ client[c].req.id \in Ids
  BY <1>1, ClientShapes, KindsOfRequests
<1>3. client[c].req \in Held
  BY DEF Held, Awaited
<1>4. client[c].req.id <= calls
  BY <1>3 DEF WpdInv, UniqueInv
<1>5. chan[client[c].req.id] \in Channels
  BY <1>1, <1>2 DEF WpdShape
<1>6. Len(chan[client[c].req.id].q) <= Bound + 1
  BY <1>2 DEF WpdInv, BoundInv
<1>7. ASSUME worker.at = "pump", worker.req.id = client[c].req.id
      PROVE  /\ worker.req = client[c].req
             /\ Len(chan[client[c].req.id].q) <= Bound \/ ~chan[client[c].req.id].rx
  <2>1. worker.req \in Held
    BY <1>7 DEF Held, Served, Pumps
  <2>2. worker.req = client[c].req
    BY <1>3, <1>7, <2>1 DEF WpdInv, UniqueInv
  <2> QED BY <1>7, <2>2 DEF WpdInv, BoundInv
<1> QED BY <1>1, <1>2, <1>3, <1>4, <1>5, <1>6, <1>7
-----------------------------------------------------------------------------
(* Clients *)

(* A client that leaves: its channel is closed, closes, or goes unread. *)
LEMMA ClientLeaves ==
  ASSUME WpdInv, NEW c \in Clients, client[c].at # "idle",
         NEW s \in Bare, client' = [client EXCEPT ![c] = s],
         NEW k, k \in {chan[client[c].req.id], Closed, [chan[client[c].req.id] EXCEPT !.tx = FALSE],
                       [chan[client[c].req.id] EXCEPT !.q = <<>>, !.rx = FALSE]},
         chan' = [chan EXCEPT ![client[c].req.id] = k],
         queue' = queue \/ (worker.at # "ended" /\ queue' = Append(queue, Shutdown)),
         UNCHANGED <<worker, kept, stored, calls, device>>
  PROVE  WpdInv'
<1>1. WpdShape /\ device \in BOOLEAN /\ Bound \in Nat
  BY Sizes DEF WpdInv, WpdShape
<1>2. s \in ClientStates /\ s.at = "idle" /\ client'[c] \in Bare
  BY <1>1 DEF ClientStates, Bare, WpdShape
<1>3. /\ chan[client[c].req.id] \in Channels
      /\ Len(chan[client[c].req.id].q) <= Bound + 1
      /\ worker.at = "pump" /\ worker.req.id = client[c].req.id =>
           Len(chan[client[c].req.id].q) <= Bound \/ ~chan[client[c].req.id].rx
  BY Caller
<1>4. <<>> \in Seq(Units) /\ Len(<<>>) = 0
  BY EmptySeq
<1>5. Closed \in Channels /\ Len(Closed.q) = 0 /\ Closed.reply = "none"
  BY <1>4 DEF Closed, Channels
<1>6. k \in Channels /\ k.reply \in {chan[client[c].req.id].reply, "none"}
      /\ ((k.q = chan[client[c].req.id].q /\ k.rx = chan[client[c].req.id].rx) \/ Len(k.q) = 0)
  BY <1>3, <1>4, <1>5 DEF Channels
<1>7. Len(k.q) <= Bound + 1
      /\ (worker.at = "pump" /\ worker.req.id = client[c].req.id => Len(k.q) <= Bound \/ ~k.rx)
  BY <1>1, <1>3, <1>6
<1>8. ClientInv(c)'
  BY <1>2, BareIsFine
<1> QED BY <1>1, <1>2, <1>6, <1>7, <1>8, ClientActs

(* Going on with the channel as it is. *)
LEMMA SameChannel ==
  ASSUME WpdInv, NEW c \in Clients, client[c].at # "idle", UNCHANGED chan
  PROVE  chan' = [chan EXCEPT ![client[c].req.id] = chan[client[c].req.id]]
<1>1. WpdShape
  BY DEF WpdInv
<1> QED BY <1>1 DEF WpdShape

LEMMA ClientsLeave ==
  ASSUME WpdInv, NEW c \in Clients,
         Disconnected(c) \/ DropCall(c) \/ CancelBody(c) \/ Joined(c) \/ DropUpload(c)
  PROVE  WpdInv'
<1>1. Idle("disconnected") \in Bare /\ Idle("dropped") \in Bare
  BY DEF Idle, Bare
<1>2. CASE Disconnected(c)
  <2>1. client[c].at # "idle" /\ chan' = [chan EXCEPT ![client[c].req.id] = chan[client[c].req.id]]
    BY <1>2, SameChannel DEF Disconnected
  <2> QED BY <1>1, <1>2, <2>1, ClientLeaves DEF Disconnected
<1>3. CASE DropCall(c)
  <2>1. client[c].at # "idle" /\ chan' = [chan EXCEPT ![client[c].req.id] = chan[client[c].req.id]]
    BY <1>3, SameChannel DEF DropCall
  <2> QED BY <1>1, <1>3, <2>1, ClientLeaves DEF DropCall
<1>4. CASE CancelBody(c)
  <2>1. client[c].at # "idle" /\ client[c].req.id \in Ids /\ chan \in [Ids -> Channels]
    BY <1>4, Caller DEF CancelBody, WpdInv, WpdShape
  <2>2. chan' = [chan EXCEPT ![client[c].req.id] =
                   [chan[client[c].req.id] EXCEPT !.q = <<>>, !.rx = FALSE]]
    BY <1>4, <2>1 DEF CancelBody
  <2>3. queue' = queue \/ (worker.at # "ended" /\ queue' = Append(queue, Shutdown))
    BY <1>4 DEF CancelBody, QueueAfter
  <2> QED BY <1>1, <1>4, <2>1, <2>2, <2>3, ClientLeaves DEF CancelBody
<1>5. CASE Joined(c)
  <2>1. client[c].at # "idle"
    BY <1>5 DEF Joined
  <2> QED BY <1>1, <1>5, <2>1, ClientLeaves DEF Joined
<1>6. CASE DropUpload(c)
  <2>1. client[c].at # "idle" /\ client[c].req.id \in Ids /\ chan \in [Ids -> Channels]
    BY <1>6, Caller DEF DropUpload, WpdInv, WpdShape
  <2>2. chan' = [chan EXCEPT ![client[c].req.id] = [chan[client[c].req.id] EXCEPT !.tx = FALSE]]
    BY <1>6, <2>1 DEF DropUpload
  <2> QED BY <1>1, <1>6, <2>1, <2>2, ClientLeaves DEF DropUpload
<1> QED BY <1>2, <1>3, <1>4, <1>5, <1>6

(* A reader takes the next unit, or learns of the failure. *)
LEMMA ReadsChunk ==
  ASSUME WpdInv, NEW c \in Clients, ReadChunk(c)
  PROVE  WpdInv'
<1> DEFINE i == client[c].req.id
           r == client[c].req
           q == chan[i].q
           n == Len(client[c].got)
           failed == client[c].failed
           s == IF Head(q) = ReadError THEN [client[c] EXCEPT !.failed = TRUE]
                ELSE [client[c] EXCEPT !.got = Append(@, Head(q))]
           k == [chan[i] EXCEPT !.q = Tail(@)]
<1>1. /\ WpdShape /\ ClientInv(c) /\ client[c] \in Readers /\ client[c].at = "body"
      /\ r \in ReadReqs /\ failed \in BOOLEAN /\ client[c].got \in Seq(Data) /\ n \in Nat
  <2>1. client[c] \in Readers
    BY ClientShapes DEF ReadChunk, WpdInv
  <2> QED BY <2>1, LenProperties DEF ReadChunk, WpdInv, Readers
<1>2. /\ i \in Ids /\ chan[i] \in Channels /\ Len(q) <= Bound + 1
      /\ worker.at = "pump" /\ worker.req.id = i => Len(q) <= Bound \/ ~chan[i].rx
  BY <1>1, Caller
<1>3. q \in Seq(Units) /\ q # <<>> /\ Len(q) \in Nat /\ Len(Tail(q)) = Len(q) - 1 /\ Tail(q) \in Seq(Units)
  <2>1. q \in Seq(Units) /\ q # <<>>
    BY <1>2 DEF ReadChunk, ChannelOf, Channels
  <2> QED BY <2>1, HeadTailProperties, LenProperties
<1>4. client' = [client EXCEPT ![c] = s] /\ chan' = [chan EXCEPT ![i] = k]
  BY <1>1, <1>2 DEF ReadChunk, ChannelOf, WpdShape
<1>5. k \in Channels /\ k.reply = chan[i].reply /\ k.q = Tail(q) /\ k.rx = chan[i].rx /\ k.tx = chan[i].tx
  BY <1>2, <1>3 DEF Channels
<1>6. /\ r \notin Queued /\ chan[i].rx /\ (chan[i].tx <=> Pumps /\ worker.req = r)
      /\ FlowOK(r, n, failed, q, Source(chan[i]), worker.pos)
  BY <1>1 DEF ClientInv, BodyOK
<1>7. n <= r.len /\ \A j \in 1 .. n : client[c].got[j] = Unit(r, j)
  <2>1. "got" \in DOMAIN client[c]
    BY <1>1 DEF Readers
  <2> QED BY <1>1, <2>1 DEF ClientInv, GotOK
<1>8. Source(k) = Source(chan[i])
  BY <1>5 DEF Source
<1> HIDE DEF k
<1>9. FlowOK(r, n, failed, q, Source(k), worker.pos)
  BY <1>6, <1>8
<1>10. /\ Head(q) = ReadError => FlowOK(r, n, TRUE, Tail(q), Source(k), worker.pos)
       /\ Head(q) # ReadError => /\ Head(q) = Unit(r, n + 1) /\ n + 1 <= r.len
                                 /\ FlowOK(r, n + 1, failed, Tail(q), Source(k), worker.pos)
  <2>1. /\ r \in ReadReqs /\ n \in Nat /\ failed \in BOOLEAN /\ q \in Seq(Units) /\ q # <<>>
        /\ FlowOK(r, n, failed, q, Source(k), worker.pos) /\ n <= r.len
    BY <1>1, <1>3, <1>7, <1>9
  <2> HIDE DEF q, n, failed, r, i
  <2>2. Head(q) = ReadError => FlowOK(r, n, TRUE, Tail(q), Source(k), worker.pos)
    BY ONLY <2>1, FlowRead, Zenon
  <2>3. Head(q) # ReadError => /\ Head(q) = Unit(r, n + 1) /\ n + 1 <= r.len
                              /\ FlowOK(r, n + 1, failed, Tail(q), Source(k), worker.pos)
    BY ONLY <2>1, FlowRead
  <2> QED BY <2>2, <2>3
<1>11. /\ s \in Readers /\ s.at = "body" /\ s.req = r
      /\ FlowOK(r, Len(s.got), s.failed, Tail(q), Source(k), worker.pos)
      /\ Len(s.got) <= r.len /\ \A j \in 1 .. Len(s.got) : s.got[j] = Unit(r, j)
  <2> HIDE DEF q, i
  <2>1. CASE Head(q) = ReadError
    <3>1. FlowOK(r, n, TRUE, Tail(q), Source(k), worker.pos)
      BY <1>10, <2>1
    <3>2. s \in Readers /\ s.at = "body" /\ s.req = r /\ s.got = client[c].got /\ s.failed
      BY <1>1, <2>1 DEF Readers
    <3>3. s.failed = TRUE
      BY <1>1, <2>1 DEF Readers
    <3> QED BY <1>7, <3>1, <3>2, <3>3
  <2>2. CASE Head(q) # ReadError
    <3>1. /\ Head(q) = Unit(r, n + 1) /\ n + 1 <= r.len
          /\ FlowOK(r, n + 1, failed, Tail(q), Source(k), worker.pos)
      BY <1>10, <2>2
    <3>2. Unit(r, n + 1) \in Data
      <4>1. r.obj \in Objs /\ r.offset + (n + 1) - 1 \in Nat
        BY <1>1, Sizes
      <4> QED BY <4>1 DEF Unit, Data
    <3> DEFINE g == Append(client[c].got, Head(q))
    <3>3. /\ g \in Seq(Data) /\ Len(g) = n + 1 /\ g[n + 1] = Unit(r, n + 1)
          /\ \A j \in 1 .. n : g[j] = client[c].got[j]
      BY <1>1, <3>1, <3>2, AppendProperties
    <3>4. s = [client[c] EXCEPT !.got = g]
      BY <2>2
    <3> HIDE DEF g
    <3>5. s \in Readers /\ s.at = "body" /\ s.req = r /\ s.got = g /\ s.failed = failed
      BY <1>1, <3>3, <3>4 DEF Readers
    <3>6. \A j \in 1 .. (n + 1) : j \in 1 .. n \/ j = n + 1
      BY <1>1
    <3>7. \A j \in 1 .. Len(g) : g[j] = Unit(r, j)
      BY <1>7, <3>3, <3>6
    <3> HIDE DEF s, failed, n
    <3> QED BY <3>1, <3>3, <3>5, <3>7
  <2> QED BY <2>1, <2>2
<1> HIDE DEF s
<1>12. client'[c] = s /\ chan'[i] = k /\ worker' = worker
  BY <1>1, <1>2, <1>4 DEF ReadChunk, WpdShape
<1>13. Queued' = Queued /\ (Pumps' <=> Pumps) /\ queue' = queue
  BY DEF ReadChunk, Queued, Pumps
<1>14. ClientInv(c)'
  <2>1. RoleOK(c)'
    BY <1>1, <1>11, <1>12 DEF RoleOK, ClientInv
  <2>2. GotOK(c)'
    BY <1>11, <1>12 DEF GotOK
  <2>3. BodyOK(c)'
    <3>1. chan'[client'[c].req.id] = k /\ client'[c].req = r
      BY <1>11, <1>12
    <3> HIDE DEF r, i
    <3>2. FlowOK(r, Len(client'[c].got), client'[c].failed, k.q,
                 IF ~k.tx THEN "ended" ELSE IF worker'.fails THEN "failed" ELSE "open", worker'.pos)
      BY <1>5, <1>11, <1>12 DEF Source
    <3> QED BY <1>5, <1>6, <1>12, <1>13, <3>1, <3>2 DEF BodyOK, Source
  <2>4. ResultOK(c)'
    BY <1>11, <1>12 DEF ResultOK
  <2> QED BY <2>1, <2>2, <2>3, <2>4 DEF ClientInv
<1>15. s \in ClientStates
  BY <1>11 DEF ClientStates
<1>16. Len(k.q) <= Bound + 1 /\ (worker.at = "pump" /\ worker.req.id = i => Len(k.q) <= Bound \/ ~k.rx)
  BY <1>2, <1>3, <1>5, Sizes
<1>17. UNCHANGED <<worker, kept, stored, calls>> /\ device' \in BOOLEAN
  BY <1>1 DEF ReadChunk, WpdShape
<1>18. client[c].at # "idle" /\ (s.at # "idle" => s.req = client[c].req)
  BY <1>1, <1>11
<1>19. k.reply \in {chan[i].reply, "none"}
  BY <1>5
<1> QED BY <1>4, <1>5, <1>13, <1>14, <1>15, <1>16, <1>17, <1>18, <1>19, ClientActs
(* The end of a body: all that was asked for has been read, unless it failed. *)
LEMMA EndsBody ==
  ASSUME WpdInv, NEW c \in Clients, EndBody(c)
  PROVE  WpdInv'
<1> DEFINE r == client[c].req
           n == Len(client[c].got)
           s == [at |-> "idle", result |-> IF client[c].failed THEN "failed" ELSE "end",
                 req |-> r, got |-> client[c].got]
<1>1. /\ WpdShape /\ ClientInv(c) /\ client[c] \in Readers /\ client[c].at = "body"
      /\ r \in ReadReqs /\ client[c].failed \in BOOLEAN /\ client[c].got \in Seq(Data) /\ n \in Nat
  <2>1. client[c] \in Readers
    BY ClientShapes DEF EndBody, WpdInv
  <2> QED BY <2>1, LenProperties DEF EndBody, WpdInv, Readers
<1>2. /\ n <= r.len /\ \A j \in 1 .. n : client[c].got[j] = Unit(r, j)
  <2>1. "got" \in DOMAIN client[c]
    BY <1>1 DEF Readers
  <2> QED BY <1>1, <2>1 DEF ClientInv, GotOK
<1>3. ~client[c].failed => n = r.len \/ r.offset + n = FileSize
  <2>1. FlowOK(r, n, client[c].failed, <<>>, "ended", worker.pos)
    BY <1>1 DEF EndBody, ChannelOf, ClientInv, BodyOK, Source
  <2>2. Len(<<>>) = 0 /\ r.offset + n + 0 = r.offset + n /\ n + 0 = n
    BY <1>1, Sizes, EmptySeq
  <2> HIDE DEF n
  <2> QED BY <2>1, <2>2 DEF FlowOK, Broken
<1>4. s \in ReadResults /\ s \in ClientStates /\ s.at = "idle"
  BY <1>1 DEF ReadResults, ClientStates
<1>5. client' = [client EXCEPT ![c] = s] /\ client'[c] = s
  BY <1>1 DEF EndBody, WpdShape
<1>6. ClientInv(c)'
  <2>1. s.got = client[c].got /\ s.req = r /\ (s.result = "end" <=> ~client[c].failed)
        /\ s.result \in {"failed", "end"}
    BY <1>1
  <2> HIDE DEF s, r
  <2>2. GotOK(c)'
    BY <1>2, <1>3, <1>5, <2>1 DEF GotOK
  <2>3. RoleOK(c)' /\ BodyOK(c)' /\ ResultOK(c)'
    BY <1>4, <1>5, <2>1 DEF RoleOK, BodyOK, ResultOK
  <2> QED BY <2>2, <2>3 DEF ClientInv
<1>7. Closed \in Channels /\ Len(Closed.q) = 0 /\ Closed.reply = "none"
  BY EmptySeq DEF Closed, Channels
<1>8. chan' = [chan EXCEPT ![r.id] = Closed] /\ UNCHANGED <<worker, kept, stored, calls>>
      /\ device' \in BOOLEAN
      /\ (queue' = queue \/ (worker.at # "ended" /\ queue' = Append(queue, Shutdown)))
  BY <1>1 DEF EndBody, QueueAfter, WpdShape
<1>9. 0 <= Bound + 1 /\ 0 <= Bound
  BY Sizes
<1> HIDE DEF s
<1> QED BY <1>1, <1>4, <1>5, <1>6, <1>7, <1>8, <1>9, ClientActs

(* The last body's client waits for the worker and reads no more. *)
LEMMA DropsLastBody ==
  ASSUME WpdInv, NEW c \in Clients, DropLastBody(c)
  PROVE  WpdInv'
<1> DEFINE s == [client[c] EXCEPT !.at = "joining"]
           k == chan[client[c].req.id]
<1>1. WpdShape /\ ClientInv(c) /\ client[c] \in Readers /\ client[c].at = "body" /\ device \in BOOLEAN
  <2>1. client[c] \in Readers
    BY ClientShapes DEF DropLastBody, WpdInv
  <2> QED BY <2>1 DEF DropLastBody, WpdInv, WpdShape
<1>2. s \in Readers /\ s.at = "joining" /\ s.req = client[c].req /\ s.got = client[c].got
  BY <1>1 DEF Readers
<1>3. client' = [client EXCEPT ![c] = s] /\ client'[c] = s
  BY <1>1 DEF DropLastBody, WpdShape
<1>4. chan' = [chan EXCEPT ![client[c].req.id] = k]
  BY <1>1, SameChannel DEF DropLastBody
<1>5. /\ k \in Channels /\ Len(k.q) <= Bound + 1
      /\ worker.at = "pump" /\ worker.req.id = client[c].req.id => Len(k.q) <= Bound \/ ~k.rx
  BY <1>1, Caller
<1>6. ClientInv(c)'
  <2>1. "got" \in DOMAIN client[c]
    BY <1>1 DEF Readers
  <2> HIDE DEF s
  <2> QED BY <1>1, <1>2, <1>3, <2>1 DEF ClientInv, RoleOK, GotOK, BodyOK, ResultOK
<1>7. s \in ClientStates
  BY <1>2 DEF ClientStates
<1>8. UNCHANGED <<worker, kept, stored, calls>> /\ device' \in BOOLEAN
      /\ (queue' = queue \/ (worker.at # "ended" /\ queue' = Append(queue, Shutdown)))
  BY <1>1 DEF DropLastBody, QueueAfter
<1> HIDE DEF s, k
<1>9. k.reply \in {chan[client[c].req.id].reply, "none"}
  BY DEF k
<1>10. client[c].at # "idle"
  BY <1>1
<1> QED BY <1>2, <1>3, <1>4, <1>5, <1>6, <1>7, <1>8, <1>9, <1>10, ClientActs

(* An uploader feeds its channel, and stops. *)
LEMMA Uploads ==
  ASSUME WpdInv, NEW c \in Clients, SendChunk(c) \/ StopUpload(c)
  PROVE  WpdInv'
<1> DEFINE i == client[c].req.id
<1>1. WpdShape /\ ClientInv(c) /\ client[c] \in Uploaders /\ client[c].at = "upload"
      /\ client[c].sent \in Nat /\ client[c].req.kind = "upload" /\ client[c].req.client = c
      /\ device \in BOOLEAN /\ Bound \in Nat
  <2>1. client[c] \in Uploaders /\ client[c].at = "upload"
    BY ClientShapes DEF SendChunk, StopUpload, WpdInv
  <2> QED BY <2>1, Sizes DEF WpdInv, Uploaders, WpdShape, ClientInv, RoleOK
<1>2. /\ chan[i] \in Channels /\ Len(chan[i].q) <= Bound + 1 /\ i \in Ids
      /\ ~(worker.at = "pump" /\ worker.req.id = i)
  <2>1. worker.at = "pump" => worker.req.kind # "upload"
    BY <1>1, WorkerShapes, Sizes DEF Pumps
  <2> QED BY <1>1, <2>1, Caller
<1>3. chan[i].q \in Seq(Units) /\ Len(chan[i].q) \in Nat
  BY <1>2, LenProperties DEF Channels
<1>4. CASE SendChunk(c)
  <2> DEFINE q == Append(chan[i].q, client[c].sent)
             s == [client[c] EXCEPT !.sent = @ + 1]
             k == [chan[i] EXCEPT !.q = q]
  <2>1. q \in Seq(Units) /\ Len(q) = Len(chan[i].q) + 1 /\ Len(chan[i].q) <= Bound
    <3>1. client[c].sent \in Units
      BY <1>1 DEF Units
    <3> QED BY <1>3, <1>4, <3>1, AppendProperties DEF SendChunk, ChannelOf
  <2>2. client' = [client EXCEPT ![c] = s] /\ chan' = [chan EXCEPT ![i] = k]
    BY <1>1, <1>2, <1>4 DEF SendChunk, WpdShape
  <2> HIDE DEF q
  <2>3. k \in Channels /\ k.q = q /\ k.reply = chan[i].reply
    BY <1>2, <2>1 DEF Channels
  <2>4. s \in Uploaders /\ s.at = "upload" /\ s.req = client[c].req /\ s \in ClientStates
    BY <1>1 DEF Uploaders, ClientStates
  <2>5. client'[c] = s
    BY <1>1, <2>2 DEF WpdShape
  <2> HIDE DEF s, k
  <2>6. ClientInv(c)'
    BY <1>1, <2>4, <2>5, GotShapes DEF ClientInv, RoleOK, GotOK, BodyOK, ResultOK
  <2>7. Len(k.q) <= Bound + 1
    BY <1>1, <1>3, <2>1, <2>3
  <2>8. UNCHANGED <<worker, kept, stored, calls>> /\ device' \in BOOLEAN /\ queue' = queue
    BY <1>1, <1>4 DEF SendChunk
  <2> QED BY <1>1, <1>2, <2>2, <2>3, <2>4, <2>6, <2>7, <2>8, ClientActs
<1>5. CASE StopUpload(c)
  <2>1. PICK stop \in {"clean", "aborted"} :
          client' = [client EXCEPT ![c].at = "verdict", ![c].stop = stop]
    BY <1>5 DEF StopUpload
  <2> DEFINE s == [client[c] EXCEPT !.at = "verdict", !.stop = stop]
             k == [chan[i] EXCEPT !.tx = FALSE]
  <2>2. client' = [client EXCEPT ![c] = s] /\ chan' = [chan EXCEPT ![i] = k]
    BY <1>1, <1>2, <1>5, <2>1 DEF StopUpload, WpdShape
  <2>3. k \in Channels /\ k.q = chan[i].q /\ k.reply = chan[i].reply
    BY <1>2 DEF Channels
  <2>4. s \in Uploaders /\ s.at = "verdict" /\ s.req = client[c].req /\ s \in ClientStates
        /\ s.stop # "none"
    BY <1>1 DEF Uploaders, ClientStates
  <2>5. client'[c] = s
    BY <1>1, <2>2 DEF WpdShape
  <2> HIDE DEF s, k
  <2>6. ClientInv(c)'
    BY <1>1, <2>4, <2>5, GotShapes DEF ClientInv, RoleOK, GotOK, BodyOK, ResultOK
  <2>8. UNCHANGED <<worker, kept, stored, calls>> /\ device' \in BOOLEAN /\ queue' = queue
    BY <1>1, <1>5 DEF StopUpload
  <2> QED BY <1>1, <1>2, <2>2, <2>3, <2>4, <2>6, <2>8, ClientActs
<1> QED BY <1>4, <1>5

(* The verdict is what the device stored, and nothing more is stored for it. *)
LEMMA ReadsVerdict ==
  ASSUME WpdInv, NEW c \in Clients, Verdict(c)
  PROVE  WpdInv'
<1> DEFINE r == client[c].req
           k == chan[r.id]
           result == CASE k.reply = "error" -> "failed"
                       [] k.reply = "committed" -> "stored"
                       [] k.reply = "short" -> client[c].stop
           s == [at |-> "idle", req |-> r, result |-> result]
<1>1. WpdShape /\ ClientInv(c) /\ client[c] \in Uploaders /\ client[c].at = "verdict"
      /\ r \in PlainReqs /\ client[c].stop \in {"clean", "aborted"} /\ device \in BOOLEAN
  <2>1. client[c] \in Uploaders /\ client[c].at = "verdict"
    BY ClientShapes DEF Verdict, WpdInv
  <2> QED BY <2>1 DEF WpdInv, Uploaders, WpdShape, ClientInv, RoleOK
<1>2. /\ r.id \in Ids /\ r.id <= calls /\ r \in Held /\ k \in Channels
  BY <1>1, Caller
<1>3. k.reply \in {"error", "committed", "short"}
  BY <1>2 DEF Verdict, ChannelOf, Channels
<1>4. /\ result \in {"failed", "stored", "clean", "aborted"}
      /\ result = "stored" => k.reply = "committed"
      /\ result \in {"clean", "aborted"} => k.reply = "short"
  BY <1>1, <1>3
<1>5. \A x \in Queued \cup Served : x.id # r.id
  BY <1>3 DEF WpdInv, StoredInv
<1>6. /\ k.reply = "committed" => stored[r.id] = FileSize
      /\ k.reply = "short" => stored[r.id] = Absent
  BY <1>2 DEF WpdInv, StoredInv
<1>7. client' = [client EXCEPT ![c] = s] /\ chan' = [chan EXCEPT ![r.id] = Closed]
  BY <1>1 DEF Verdict, ChannelOf, WpdShape
<1> HIDE DEF result
<1>8. s \in UploadResults /\ s \in ClientStates /\ s.at = "idle" /\ s.req = r /\ s.result = result
  BY <1>1, <1>4 DEF UploadResults, ClientStates
<1> HIDE DEF s
<1>9. client'[c] = s /\ UNCHANGED <<queue, worker, kept, stored, calls, device>>
      /\ Queued' = Queued /\ Served' = Served
  BY <1>1, <1>7 DEF Verdict, WpdShape, Queued, Served, Pumps, Writing
<1>10. ClientInv(c)'
  <2>1. GotOK(c)' /\ RoleOK(c)' /\ BodyOK(c)'
    BY <1>8, <1>9, GotShapes DEF GotOK, RoleOK, BodyOK
  <2>2. ResultOK(c)'
    <3> HIDE DEF k, r
    <3> QED BY <1>2, <1>4, <1>5, <1>6, <1>8, <1>9 DEF ResultOK
  <2> QED BY <2>1, <2>2 DEF ClientInv
<1>11. Closed \in Channels /\ Len(Closed.q) = 0 /\ Closed.reply = "none" /\ 0 <= Bound + 1 /\ 0 <= Bound
  BY EmptySeq, Sizes DEF Closed, Channels
<1> QED BY <1>1, <1>7, <1>8, <1>9, <1>10, <1>11, ClientActs
(* The device is closed, or let go of: at most an order to stop is queued. *)
LEMMA Closes ==
  ASSUME WpdInv, Close \/ DropDevice
  PROVE  WpdInv'
<1>1. WpdShape /\ \A d \in Clients : ClientInv(d)
  BY DEF WpdInv
<1>2. UNCHANGED <<worker, kept, chan, client, stored, calls>> /\ device' \in BOOLEAN
      /\ (queue' = queue \/ (worker.at # "ended" /\ queue' = Append(queue, Shutdown)))
  BY <1>1 DEF Close, DropDevice, QueueAfter, WpdShape
<1>3. /\ queue' \in Seq(Reqs \cup {Shutdown}) /\ Queued' = Queued /\ Served' = Served
      /\ QueueInv' /\ (worker.at = "ended" => queue' = <<>>)
  BY <1>2, QueueGrows
<1>4. WpdShape'
  BY <1>1, <1>2, <1>3 DEF WpdShape
<1>5. UniqueInv'
  BY <1>2, <1>3 DEF WpdInv, UniqueInv, Held, Awaited
<1>6. KeptInv' /\ WorkerInv' /\ BoundInv' /\ StoredInv'
  BY <1>2, <1>3 DEF WpdInv, KeptInv, WorkerInv, BoundInv, StoredInv, Pumps, Writing
<1>7. ASSUME NEW d \in Clients PROVE ClientInv(d)'
  <2>1. client[d].at = "body" => client[d].req \notin Queued'
    BY <1>1, <1>3 DEF ClientInv, BodyOK
  <2> QED BY <1>1, <1>2, <1>3, <2>1, Bystander
<1> QED BY <1>3, <1>4, <1>5, <1>6, <1>7 DEF WpdInv

(* An idle worker lets go of the stream it kept. *)
LEMMA Releases ==
  ASSUME WpdInv, ReleaseIdle
  PROVE  WpdInv'
<1>1. WpdShape /\ \A d \in Clients : ClientInv(d)
  BY DEF WpdInv
<1>2. UNCHANGED <<queue, worker, chan, client, stored, calls, device>> /\ kept' = NoStream
  BY DEF ReleaseIdle
<1>3. Queued' = Queued /\ Served' = Served
  BY <1>2 DEF Queued, Served, Pumps, Writing
<1>4. WpdShape'
  BY <1>1, <1>2 DEF WpdShape
<1>5. UniqueInv' /\ QueueInv'
  BY <1>2, <1>3 DEF WpdInv, UniqueInv, Held, Awaited, QueueInv, Distinct
<1>6. KeptInv' /\ WorkerInv' /\ BoundInv' /\ StoredInv'
  BY <1>2, <1>3 DEF WpdInv, KeptInv, WorkerInv, BoundInv, StoredInv, Pumps, Writing
<1>7. ASSUME NEW d \in Clients PROVE ClientInv(d)'
  <2>1. client[d].at = "body" => client[d].req \notin Queued'
    BY <1>1, <1>3 DEF ClientInv, BodyOK
  <2> QED BY <1>1, <1>2, <1>3, <2>1, Bystander
<1> QED BY <1>4, <1>5, <1>6, <1>7 DEF WpdInv

(* The worker ends, and with it the queue: an upload that waited there     *)
(* sends to nobody.  No body is being sent.                                *)
LEMMA Stops ==
  ASSUME WpdInv, Stop
  PROVE  WpdInv'
<1> DEFINE dropped == {queue[i].id : i \in {j \in 1 .. Len(queue) : queue[j].kind = "upload"}}
<1>1. WpdShape /\ \A d \in Clients : ClientInv(d)
  BY DEF WpdInv
<1>2. /\ worker.at = "recv" /\ worker' = Ended /\ kept' = NoStream /\ queue' = <<>>
      /\ UNCHANGED <<client, stored, calls, device>>
      /\ chan' = [i \in Ids |-> IF i \in dropped THEN [chan[i] EXCEPT !.q = <<>>, !.rx = FALSE]
                                ELSE chan[i]]
  BY DEF Stop, Takes
<1>3. /\ Queued' = {} /\ Served' = {} /\ Served = {} /\ ~Pumps /\ ~Pumps' /\ ~Writing'
      /\ worker'.at = "ended"
  BY <1>2, SetOfEmpty DEF Queued, Served, Pumps, Writing, Ended
<1>4. \A i \in dropped : \E r \in Queued : r.id = i
  <2>1. SUFFICES ASSUME NEW j \in 1 .. Len(queue), queue[j].kind = "upload"
                 PROVE  queue[j] \in Queued
    OBVIOUS
  <2>2. DOMAIN queue = 1 .. Len(queue)
    BY <1>1, LenProperties DEF WpdShape
  <2> QED BY <2>1, <2>2 DEF Queued, ToSet, Shutdown
<1> HIDE DEF dropped
<1>5. ASSUME NEW i \in Ids
      PROVE  /\ chan'[i] \in Channels /\ Len(chan'[i].q) <= Bound + 1
             /\ chan'[i].reply = chan[i].reply
             /\ i \notin dropped => chan'[i] = chan[i]
  <2>1. chan[i] \in Channels /\ Len(chan[i].q) <= Bound + 1
    BY <1>1 DEF WpdShape, WpdInv, BoundInv
  <2>2. <<>> \in Seq(Units) /\ Len(<<>>) = 0 /\ 0 <= Bound + 1
    BY EmptySeq, Sizes
  <2>3. chan'[i] = chan[i] \/ chan'[i] = [chan[i] EXCEPT !.q = <<>>, !.rx = FALSE]
    BY <1>2
  <2>4. i \notin dropped => chan'[i] = chan[i]
    BY <1>2
  <2> QED BY <2>1, <2>2, <2>3, <2>4 DEF Channels
<1>6. WpdShape'
  <2>1. chan' \in [Ids -> Channels]
    BY <1>2, <1>5
  <2>2. queue' \in Seq(Reqs \cup {Shutdown})
    BY <1>2, EmptySeq
  <2> QED BY <1>1, <1>2, <2>1, <2>2 DEF WpdShape, WorkerStates
<1>7. UniqueInv' /\ QueueInv'
  <2>1. Held' \subseteq Held
    BY <1>2, <1>3 DEF Held, Awaited
  <2>2. UniqueInv'
    BY <1>2, <2>1 DEF WpdInv, UniqueInv
  <2>3. DOMAIN queue' = {}
    <3>1. queue' \in Seq(Reqs \cup {Shutdown}) /\ Len(queue') = 0
      BY <1>2, EmptySeq
    <3> QED BY <3>1, LenProperties
  <2> QED BY <1>3, <2>2, <2>3 DEF QueueInv, Distinct
<1>8. KeptInv' /\ WorkerInv'
  BY <1>2, <1>3 DEF KeptInv, WorkerInv
<1>9. BoundInv' /\ StoredInv'
  BY <1>2, <1>3, <1>5 DEF WpdInv, BoundInv, StoredInv
<1>10. ASSUME NEW d \in Clients PROVE ClientInv(d)'
  <2>1. ASSUME client[d].at = "body" PROVE chan'[client[d].req.id] = chan[client[d].req.id]
    <3>1. client[d].req \in Held /\ client[d].req.id \in Ids
      BY <2>1, Caller
    <3>2. client[d].req \notin Queued
      BY <1>1, <2>1 DEF ClientInv, BodyOK
    <3>3. client[d].req.id \notin dropped
      BY <1>4, <3>1, <3>2 DEF WpdInv, UniqueInv, Held
    <3> QED BY <1>5, <3>1, <3>3
  <2> QED BY <1>1, <1>2, <1>3, <2>1, Bystander
<1> QED BY <1>6, <1>7, <1>8, <1>9, <1>10 DEF WpdInv

(* The requests that a client makes. *)
LEMMA MadeRequests ==
  ASSUME NEW c \in Clients, NEW i \in Ids, NEW r \in Requests(c, i)
  PROVE  /\ r \in PlainReqs \/ (r \in ReadReqs /\ r.kind \in {"download", "window", "read"})
         /\ r.id = i /\ r.client = c
<1>1. CASE r \in [kind : Kinds, id : {i}, client : {c}]
  BY <1>1 DEF PlainReqs
<1>2. CASE r \in {[kind |-> x.kind, id |-> i, client |-> c, obj |-> x.obj, offset |-> x.offset,
                  len |-> x.len] : x \in Reads}
  <2>1. PICK x \in Reads : r = [kind |-> x.kind, id |-> i, client |-> c, obj |-> x.obj,
                                offset |-> x.offset, len |-> x.len]
    BY <1>2
  <2>2. /\ x.kind \in {"download", "window", "read"} /\ x.obj \in Objs
        /\ x.offset \in 0 .. FileSize /\ x.len \in Nat \ {0}
    BY WpdAssumption DEF Objs
  <2>3. r \in ReadReqs
    BY <2>1, <2>2 DEF ReadReqs
  <2> QED BY <2>1, <2>2, <2>3
<1> QED BY <1>1, <1>2 DEF Requests

(* A call has an id of its own, and a channel that nobody has used. *)
LEMMA Calls ==
  ASSUME WpdInv, NEW c \in Clients, Call(c)
  PROVE  WpdInv'
<1>1. WpdShape /\ (\A d \in Clients : ClientInv(d)) /\ calls \in Nat /\ calls < MaxCalls
      /\ MaxCalls \in Nat /\ device \in BOOLEAN
  BY Sizes DEF WpdInv, WpdShape, Call
<1>2. UNCHANGED <<worker, kept, stored, device>> /\ calls' = calls + 1 /\ client[c].at = "idle"
  BY DEF Call
<1>3. calls' \in 0 .. MaxCalls /\ calls' \in Ids /\ Served' = Served
  BY <1>1, <1>2 DEF Ids, Served, Pumps, Writing
<1>4. PICK r \in Requests(c, calls') :
        IF worker.at = "ended"
        THEN client' = [client EXCEPT ![c] = Idle("disconnected")] /\ UNCHANGED <<queue, chan>>
        ELSE /\ queue' = Append(queue, r)
             /\ client' = [client EXCEPT ![c] =
                  [at |-> IF r.kind = "upload" THEN "upload" ELSE "call", req |-> r, sent |-> 0,
                   stop |-> "none"]]
             /\ chan' = IF r.kind = "upload" THEN [chan EXCEPT ![r.id] = Opened] ELSE chan
  BY <1>2 DEF Call
<1>5. \A x \in Held : x.id # calls'
  BY <1>1, <1>2, HeldShapes, KindsOfRequests, Sizes DEF WpdInv, UniqueInv
<1>6. KeptInv' /\ WorkerInv'
  BY <1>2 DEF WpdInv, KeptInv, WorkerInv, Pumps, Writing
<1>7. CASE worker.at = "ended"
  <2>1. client' = [client EXCEPT ![c] = Idle("disconnected")] /\ UNCHANGED <<queue, chan>>
    BY <1>4, <1>7
  <2>2. Idle("disconnected") \in Bare /\ Idle("disconnected") \in ClientStates
        /\ Idle("disconnected").at = "idle"
    BY DEF Idle, Bare, ClientStates
  <2>3. /\ client' \in [Clients -> ClientStates] /\ client'[c] = Idle("disconnected")
        /\ \A d \in Clients : d # c => client'[d] = client[d]
    BY <1>1, <2>1, <2>2 DEF WpdShape
  <2>4. Queued' = Queued /\ Queued = {}
    BY <1>7, <2>1, SetOfEmpty DEF Queued, WpdInv, BoundInv
  <2>5. WpdShape'
    BY <1>1, <1>2, <1>3, <2>1, <2>3 DEF WpdShape
  <2>6. UniqueInv' /\ QueueInv'
    <3>1. Awaited' \subseteq Awaited
      BY <2>2, <2>3 DEF Awaited
    <3>2. Held' \subseteq Held
      BY <1>3, <2>4, <3>1 DEF Held
    <3>3. \A x \in Held : x.id <= calls'
      BY <1>1, <1>2, HeldShapes, KindsOfRequests, Sizes DEF WpdInv, UniqueInv
    <3> QED BY <1>3, <2>1, <2>4, <3>2, <3>3 DEF WpdInv, UniqueInv, QueueInv, Distinct
  <2>7. BoundInv' /\ StoredInv'
    <3>1. \A i \in Ids : i > calls' => i > calls
      BY <1>1, <1>2, Sizes
    <3> QED BY <1>2, <1>3, <2>1, <2>4, <3>1 DEF WpdInv, BoundInv, StoredInv
  <2>8. ASSUME NEW d \in Clients PROVE ClientInv(d)'
    <3>1. CASE d = c
      BY <2>2, <2>3, <3>1, BareIsFine
    <3>2. CASE d # c
      <4>1. client'[d] = client[d]
        BY <2>3, <3>2
      <4> QED BY <1>1, <1>2, <1>3, <2>1, <2>4, <4>1, Bystander
    <3> QED BY <3>1, <3>2
  <2> QED BY <1>6, <2>5, <2>6, <2>7, <2>8 DEF WpdInv
<1>8. CASE worker.at # "ended"
  <2> DEFINE s == [at |-> IF r.kind = "upload" THEN "upload" ELSE "call", req |-> r, sent |-> 0,
                   stop |-> "none"]
  <2>1. /\ queue' = Append(queue, r) /\ client' = [client EXCEPT ![c] = s]
        /\ chan' = IF r.kind = "upload" THEN [chan EXCEPT ![r.id] = Opened] ELSE chan
    BY <1>4, <1>8
  <2>2. /\ r \in Reqs /\ r.id = calls' /\ r.client = c /\ r # Shutdown
        /\ r.kind = "upload" => r \in PlainReqs
    <3>1. /\ r \in PlainReqs \/ (r \in ReadReqs /\ r.kind \in {"download", "window", "read"})
          /\ r.id = calls' /\ r.client = c
      BY <1>3, MadeRequests
    <3>3. r \in Reqs
      BY <3>1 DEF Reqs
    <3> QED BY <3>1, <3>3, KindsOfRequests
  <2>3. s \in ClientStates /\ s.req = r /\ s.at \in {"upload", "call"}
        /\ (s.at = "upload" <=> r.kind = "upload") /\ "got" \notin DOMAIN s
    <3>1. CASE r.kind = "upload"
      <4>1. s \in Uploaders
        BY <2>2, <3>1 DEF Uploaders
      <4> QED BY <3>1, <4>1 DEF ClientStates
    <3>2. CASE r.kind # "upload"
      <4>1. s \in Callers
        BY <2>2, <3>2 DEF Callers
      <4> QED BY <3>2, <4>1 DEF ClientStates
    <3> QED BY <3>1, <3>2
  <2> HIDE DEF s
  <2>4. /\ client' \in [Clients -> ClientStates] /\ client'[c] = s
        /\ \A d \in Clients : d # c => client'[d] = client[d]
    BY <1>1, <2>1, <2>3 DEF WpdShape
  <2>5. r \notin ToSet(queue) /\ r \notin Held /\ r \notin Served
    <3>1. r \notin Held
      BY <1>5, <2>2
    <3> QED BY <2>2, <3>1 DEF Held, Queued
  <2>6. queue \in Seq(Reqs \cup {Shutdown})
    BY <1>1 DEF WpdShape
  <2>7. queue' \in Seq(Reqs \cup {Shutdown}) /\ ToSet(queue') = ToSet(queue) \cup {r}
    BY <2>1, <2>2, <2>6, SetOfAppend
  <2>8. Queued' = Queued \cup {r}
    BY <2>2, <2>7 DEF Queued
  <2>9. QueueInv'
    <3>1. Distinct(queue')
      BY <2>1, <2>2, <2>5, <2>6, DistinctAppend DEF WpdInv, QueueInv
    <3> QED BY <1>3, <2>5, <2>8, <3>1 DEF WpdInv, QueueInv, Distinct
  <2>10. UniqueInv'
    <3>1. Awaited' \subseteq Awaited \cup {r}
      BY <2>3, <2>4 DEF Awaited
    <3>2. Held' \subseteq Held \cup {r}
      BY <1>3, <2>8, <3>1 DEF Held
    <3>3. \A x \in Held : x.id <= calls'
      BY <1>1, <1>2, HeldShapes, KindsOfRequests, Sizes DEF WpdInv, UniqueInv
    <3>4. r.id <= calls'
      BY <1>3, <2>2, Sizes
    <3> QED BY <1>5, <2>2, <3>2, <3>3, <3>4 DEF WpdInv, UniqueInv
  <2>11. /\ chan' \in [Ids -> Channels] /\ Opened.reply = "none" /\ Len(Opened.q) = 0
         /\ \A i \in Ids : chan'[i] = chan[i] \/ (i = r.id /\ chan'[i] = Opened)
    <3>1. Opened \in Channels /\ Opened.reply = "none" /\ Len(Opened.q) = 0
      BY EmptySeq DEF Opened, Channels
    <3> QED BY <1>1, <1>3, <2>1, <2>2, <3>1 DEF WpdShape
  <2>12. WpdShape'
    BY <1>1, <1>2, <1>3, <2>4, <2>7, <2>11 DEF WpdShape
  <2>13. BoundInv'
    <3>1. \A i \in Ids : Len(chan'[i].q) <= Bound + 1
      BY <2>11, Sizes DEF WpdInv, BoundInv
    <3>2. ASSUME worker.at = "pump"
          PROVE  Len(chan'[worker.req.id].q) <= Bound \/ ~chan'[worker.req.id].rx
      <4>1. worker.req \in Held /\ worker.req \in Reqs
        BY <1>1, <3>2, HeldShapes DEF Held, Served, Pumps
      <4>2. chan'[worker.req.id] = chan[worker.req.id]
        BY <1>5, <2>2, <2>11, <4>1, KindsOfRequests
      <4> QED BY <3>2, <4>2 DEF WpdInv, BoundInv
    <3> QED BY <1>2, <1>8, <3>1, <3>2 DEF WpdInv, BoundInv
  <2>14. StoredInv'
    <3>1. \A i \in Ids : i > calls' => i > calls
      BY <1>1, <1>2, Sizes
    <3>2. calls' > calls /\ r.id \in Ids
      BY <1>1, <1>2, <1>3, <2>2
    <3>3. \A i \in Ids : chan'[i].reply \in {chan[i].reply, "none"}
      BY <2>11
    <3>4. chan[r.id].reply = "none" /\ stored[r.id] = Absent
      BY <2>2, <3>2 DEF WpdInv, StoredInv
    <3>5. \A x \in Queued \cup Served : x.id \in Ids
      BY <1>1, HeldShapes, KindsOfRequests
    <3> QED BY <1>2, <1>3, <2>8, <3>1, <3>2, <3>3, <3>4, <3>5 DEF WpdInv, StoredInv
  <2>15. ASSUME NEW d \in Clients PROVE ClientInv(d)'
    <3>1. CASE d = c
      <4>1. RoleOK(d)' /\ GotOK(d)' /\ BodyOK(d)' /\ ResultOK(d)'
        BY <2>2, <2>3, <2>4, <3>1 DEF RoleOK, GotOK, BodyOK, ResultOK
      <4> QED BY <4>1 DEF ClientInv
    <3>2. CASE d # c
      <4>1. client'[d] = client[d]
        BY <2>4, <3>2
      <4>2. ASSUME client[d].at = "body"
            PROVE  chan'[client[d].req.id] = chan[client[d].req.id] /\ client[d].req \notin Queued'
        <5>1. client[d].req \in Held /\ client[d].req.id \in Ids
          BY <4>2, Caller
        <5>2. client[d].req \notin Queued
          BY <1>1, <4>2 DEF ClientInv, BodyOK
        <5> QED BY <1>5, <2>2, <2>5, <2>8, <2>11, <5>1, <5>2
      <4>3. \A x \in Queued' \cup Served' : x \in Queued \cup Served \/ x.id = calls + 1
        BY <1>2, <1>3, <2>2, <2>8
      <4> QED BY <1>1, <1>2, <4>1, <4>2, <4>3, Bystander
    <3> QED BY <3>1, <3>2
  <2> QED BY <1>6, <2>9, <2>10, <2>12, <2>13, <2>14, <2>15 DEF WpdInv
<1> QED BY <1>7, <1>8
-----------------------------------------------------------------------------
(* The worker *)

(* What the worker serves, or is about to. *)
LEMMA InHand ==
  ASSUME WpdInv, NEW r \in Queued \cup Served
  PROVE  /\ r \in Held /\ r \in Reqs /\ r.id \in Ids /\ r.client \in Clients /\ r.id <= calls
         /\ chan[r.id] \in Channels /\ Len(chan[r.id].q) <= Bound + 1
         /\ chan[r.id].reply = "none" /\ stored[r.id] = Absent
         /\ \A x \in Held : x.id = r.id => x = r
<1>1. r \in Held /\ r \in Reqs
  BY HeldShapes DEF WpdInv, Held
<1>2. r.id \in Ids /\ r.client \in Clients
  BY <1>1, KindsOfRequests
<1>3. chan[r.id] \in Channels /\ Len(chan[r.id].q) <= Bound + 1
  BY <1>2 DEF WpdInv, WpdShape, BoundInv
<1>4. r.id <= calls /\ \A x \in Held : x.id = r.id => x = r
  BY <1>1 DEF WpdInv, UniqueInv
<1>5. chan[r.id].reply = "none" /\ stored[r.id] = Absent
  BY DEF WpdInv, StoredInv
<1> QED BY <1>1, <1>2, <1>3, <1>4, <1>5

(* A step of the worker that serves r: it may change r's channel, what is  *)
(* stored for r and, if it waits, r's client.                              *)
LEMMA WorkerActs ==
  ASSUME WpdInv, NEW r \in Queued \cup Served,
         \/ queue' = queue /\ r \in Served
         \/ queue # <<>> /\ Head(queue) = r /\ queue' = Tail(queue) /\ worker.at = "recv",
         worker' \in WorkerStates, worker'.at # "ended", Served' \subseteq {r}, WorkerInv',
         kept' \in {NoStream} \cup [obj : Objs, at : Nat, pos : Nat], KeptInv',
         kept' # NoStream => worker'.at = "recv",
         NEW k \in Channels, chan' = [chan EXCEPT ![r.id] = k], Len(k.q) <= Bound + 1,
         worker'.at = "pump" => Len(k.q) <= Bound \/ ~k.rx,
         stored' \in [Ids -> Nat], \A j \in Ids : j # r.id => stored'[j] = stored[j],
         k.reply = "committed" => stored'[r.id] = FileSize,
         k.reply = "short" => stored'[r.id] = Absent,
         r \in Served' => k.reply = "none" /\ stored'[r.id] = Absent,
         client' \in [Clients -> ClientStates],
         \A d \in Clients : d # r.client => client'[d] = client[d],
         client'[r.client].at # "idle" =>
           client[r.client].at # "idle" /\ client'[r.client].req = client[r.client].req,
         \/ ClientInv(r.client)'
         \/ /\ client'[r.client] = client[r.client]
            /\ ~(client[r.client].at = "body" /\ client[r.client].req = r),
         UNCHANGED <<calls, device>>
  PROVE  WpdInv'
<1>1. WpdShape /\ \A d \in Clients : ClientInv(d)
  BY DEF WpdInv
<1>2. /\ r \in Held /\ r \in Reqs /\ r.id \in Ids /\ r.client \in Clients /\ r.id <= calls
      /\ \A x \in Held : x.id = r.id => x = r
  BY InHand
<1>3. r # Shutdown
  BY <1>2, KindsOfRequests
<1>4. queue \in Seq(Reqs \cup {Shutdown}) /\ Distinct(queue) /\ Queued \cap Served = {}
  BY DEF WpdInv, WpdShape, QueueInv
<1>5. /\ queue' \in Seq(Reqs \cup {Shutdown}) /\ Distinct(queue')
      /\ Queued' \subseteq Queued /\ r \notin Queued'
  <2>1. CASE queue' = queue /\ r \in Served
    <3>1. Queued' = Queued
      BY <2>1 DEF Queued
    <3> QED BY <1>4, <2>1, <3>1 DEF Distinct
  <2>2. CASE queue # <<>> /\ Head(queue) = r /\ queue' = Tail(queue) /\ worker.at = "recv"
    <3>1. /\ queue' \in Seq(Reqs \cup {Shutdown}) /\ ToSet(queue) = {r} \cup ToSet(queue')
      BY <1>4, <2>2, SetOfTail
    <3>2. Distinct(Tail(queue)) /\ r \notin ToSet(Tail(queue))
      BY <1>3, <1>4, <2>2, DistinctTail
    <3>3. Distinct(queue') /\ r \notin ToSet(queue')
      BY <2>2, <3>2 DEF Distinct
    <3> QED BY <3>1, <3>3 DEF Queued
  <2> QED BY <2>1, <2>2
<1>6. /\ chan' \in [Ids -> Channels] /\ chan'[r.id] = k
      /\ \A j \in Ids : j # r.id => chan'[j] = chan[j]
  BY <1>1, <1>2 DEF WpdShape
<1>7. WpdShape'
  BY <1>1, <1>5, <1>6 DEF WpdShape
<1>8. UniqueInv'
  <2>1. Awaited' \subseteq Awaited
    <3>1. SUFFICES ASSUME NEW d \in Clients, client'[d].at # "idle"
                   PROVE  client[d].at # "idle" /\ client'[d].req = client[d].req
      BY DEF Awaited
    <3> QED BY <3>1
  <2>2. Held' \subseteq Held
    BY <1>2, <1>5, <2>1 DEF Held
  <2> QED BY <2>2 DEF WpdInv, UniqueInv
<1>9. QueueInv'
  <2>1. Queued' \cap Served' = {}
    BY <1>5
  <2> QED BY <1>5, <2>1 DEF QueueInv, Distinct
<1>10. BoundInv'
  <2>1. \A j \in Ids : Len(chan'[j].q) <= Bound + 1
    BY <1>6 DEF WpdInv, BoundInv
  <2>2. worker'.at = "pump" => worker'.req = r
    BY DEF Served, Pumps
  <2> QED BY <1>6, <2>1, <2>2 DEF BoundInv
<1>11. StoredInv'
  <2>1. \A x \in Queued' : x.id \in Ids /\ x.id # r.id
    BY <1>2, <1>5, HeldShapes, KindsOfRequests, <1>1 DEF Held
  <2>2. \A x \in Queued' : chan'[x.id].reply = "none" /\ stored'[x.id] = Absent
    BY <1>5, <1>6, <2>1 DEF WpdInv, StoredInv
  <2>3. \A x \in Served' : chan'[x.id].reply = "none" /\ stored'[x.id] = Absent
    BY <1>6
  <2>4. \A i \in Ids : /\ i > calls => chan'[i].reply = "none" /\ stored'[i] = Absent
                       /\ chan'[i].reply = "committed" => stored'[i] = FileSize
                       /\ chan'[i].reply = "short" => stored'[i] = Absent
    <3>1. SUFFICES ASSUME NEW i \in Ids
                   PROVE  /\ i > calls => chan'[i].reply = "none" /\ stored'[i] = Absent
                          /\ chan'[i].reply = "committed" => stored'[i] = FileSize
                          /\ chan'[i].reply = "short" => stored'[i] = Absent
      OBVIOUS
    <3>2. CASE i = r.id
      <4>1. ~(i > calls)
        BY <1>1, <1>2, <3>2, Sizes DEF WpdShape
      <4> QED BY <1>6, <3>2, <4>1
    <3>3. CASE i # r.id
      BY <1>6, <3>3 DEF WpdInv, StoredInv
    <3> QED BY <3>2, <3>3
  <2> QED BY <2>2, <2>3, <2>4 DEF StoredInv
<1>12. ASSUME NEW d \in Clients, client'[d] = client[d],
              ~(client[d].at = "body" /\ client[d].req = r)
       PROVE  ClientInv(d)'
  <2>1. ASSUME client[d].at = "body"
        PROVE  /\ chan'[client[d].req.id] = chan[client[d].req.id]
               /\ client[d].req \notin Queued'
               /\ ~(Pumps /\ worker.req = client[d].req)
               /\ ~(Pumps' /\ worker'.req = client[d].req)
    <3>1. client[d].req \in Held /\ client[d].req.id \in Ids /\ client[d].req # r
      BY <1>12, <2>1, Caller
    <3>2. client[d].req \notin Queued
      BY <1>1, <2>1 DEF ClientInv, BodyOK
    <3>3. client[d].req.id # r.id
      BY <1>2, <3>1
    <3>4. Pumps => worker.req = r
      <4>1. Pumps => r \in Served /\ Served = {worker.req}
        BY DEF Served, Pumps
      <4> QED BY <4>1
    <3>5. Pumps' => worker'.req = r
      BY DEF Served
    <3> QED BY <1>5, <1>6, <3>1, <3>2, <3>3, <3>4, <3>5
  <2>2. \A x \in Queued' \cup Served' : x \in Queued \cup Served
    BY <1>5
  <2> QED BY <1>1, <1>12, <2>1, <2>2, Bystander
<1>13. ASSUME NEW d \in Clients PROVE ClientInv(d)'
  <2>1. CASE d = r.client
    BY <1>12, <2>1
  <2>2. CASE d # r.client
    <3>1. client[d].at = "body" => client[d].req.client = d
      BY <1>1 DEF ClientInv, RoleOK
    <3> QED BY <1>12, <2>2, <3>1
  <2> QED BY <2>1, <2>2
<1> QED BY <1>7, <1>8, <1>9, <1>10, <1>11, <1>13 DEF WpdInv
(* The worker takes the next request. *)
LEMMA Taken ==
  ASSUME WpdInv, NEW kinds \in SUBSET {"plain", "upload", "download", "window", "read"}, Takes(kinds)
  PROVE  /\ queue # <<>> /\ worker.at = "recv" /\ worker = Receiving /\ Served = {}
         /\ \E r \in Queued :
              /\ r = Head(queue) /\ r \in Reqs /\ r.kind \in kinds
              /\ ~(client[r.client].at = "body" /\ client[r.client].req = r)
              /\ Waits(r) => client[r.client].at = "call" /\ client[r.client].req = r
<1> DEFINE r == Head(queue)
<1>1. WpdShape
  BY DEF WpdInv
<1>2. queue # <<>> /\ worker.at = "recv" /\ r.kind \in kinds
  BY DEF Takes
<1>3. worker = Receiving /\ Served = {}
  BY <1>1, <1>2, WorkerShapes DEF Served, Pumps, Writing
<1>4. r \in Queued
  <2>1. r \in ToSet(queue)
    BY <1>1, <1>2, SetOfTail DEF WpdShape
  <2>2. r # Shutdown
    BY <1>2 DEF Shutdown
  <2> QED BY <2>1, <2>2 DEF Queued
<1>5. r \in Reqs /\ r \in Held /\ r.client \in Clients /\ \A x \in Held : x.id = r.id => x = r
  BY <1>4, InHand
<1> HIDE DEF r
<1>6. ~(client[r.client].at = "body" /\ client[r.client].req = r)
  BY <1>4, <1>5 DEF WpdInv, ClientInv, BodyOK
<1>7. Waits(r) => client[r.client].at = "call" /\ client[r.client].req = r
  <2>1. SUFFICES ASSUME Waits(r) PROVE client[r.client].at = "call" /\ client[r.client].req = r
    OBVIOUS
  <2>2. client[r.client].at = "call" /\ client[r.client].req.id = r.id
    BY <2>1 DEF Waits
  <2>3. client[r.client].req \in Held
    BY <1>5, <2>2, Caller
  <2> QED BY <1>5, <2>2, <2>3
<1>8. r = Head(queue) /\ r.kind \in kinds
  BY <1>2 DEF r
<1> QED BY <1>2, <1>3, <1>4, <1>5, <1>6, <1>7, <1>8

(* A request that is answered at once leaves the channels as they are. *)
LEMMA ServesAtOnce ==
  ASSUME WpdInv, NEW kinds \in SUBSET {"plain", "download", "window", "read"}, Takes(kinds),
         NEW r, r = Head(queue), NEW s \in ClientStates, s.at = "idle", Reply(r, s),
         Waits(r) /\ client'[r.client] = s => ClientInv(r.client)',
         kept' \in {NoStream} \cup [obj : Objs, at : Nat, pos : Nat], KeptInv',
         queue' = Tail(queue), UNCHANGED <<worker, chan, stored, calls, device>>
  PROVE  WpdInv'
<1> DEFINE k == chan[r.id]
<1>1. WpdShape
  BY DEF WpdInv
<1>2. kinds \in SUBSET {"plain", "upload", "download", "window", "read"}
  OBVIOUS
<1>3. /\ queue # <<>> /\ worker.at = "recv" /\ worker = Receiving
      /\ r \in Queued /\ r \in Reqs /\ r.kind \in kinds /\ Served = {}
      /\ ~(client[r.client].at = "body" /\ client[r.client].req = r)
      /\ Waits(r) => client[r.client].at = "call" /\ client[r.client].req = r
  BY <1>2, Taken
<1>4. r.id \in Ids /\ r.client \in Clients /\ k \in Channels /\ Len(k.q) <= Bound + 1
      /\ k.reply = "none" /\ stored[r.id] = Absent
  BY <1>3, InHand
<1>5. chan' = [chan EXCEPT ![r.id] = k]
  BY <1>1, <1>4 DEF WpdShape
<1>6. /\ worker' = worker /\ worker' = Receiving /\ worker'.at = "recv" /\ Served' = {}
      /\ worker' \in WorkerStates /\ WorkerInv'
  BY <1>3 DEF Receiving, WorkerStates, Served, WorkerInv, Pumps, Writing
<1>7. stored' = stored /\ stored \in [Ids -> Nat]
  BY <1>1 DEF WpdShape
<1>8. /\ client' \in [Clients -> ClientStates]
      /\ \A d \in Clients : d # r.client => client'[d] = client[d]
      /\ \/ client'[r.client] = client[r.client] /\ client' = client
         \/ Waits(r) /\ client'[r.client] = s
  BY <1>1, <1>4 DEF Reply, WpdShape
<1>9. \/ ClientInv(r.client)'
      \/ /\ client'[r.client] = client[r.client]
         /\ ~(client[r.client].at = "body" /\ client[r.client].req = r)
  BY <1>3, <1>8
<1>10. client'[r.client].at # "idle" =>
         client[r.client].at # "idle" /\ client'[r.client].req = client[r.client].req
  BY <1>8
<1> HIDE DEF k
<1>11. queue # <<>> /\ Head(queue) = r /\ queue' = Tail(queue)
  BY <1>3
<1>12. /\ worker'.at # "ended" /\ (worker'.at = "pump" => Len(k.q) <= Bound \/ ~k.rx)
       /\ kept' # NoStream => worker'.at = "recv"
       /\ Served' \subseteq {r} /\ (r \in Served' => k.reply = "none" /\ stored'[r.id] = Absent)
       /\ k.reply # "committed" /\ k.reply # "short"
  BY <1>4, <1>6
<1>13. stored' \in [Ids -> Nat] /\ \A j \in Ids : j # r.id => stored'[j] = stored[j]
  BY <1>7
<1>14. r \in Queued \cup Served /\ UNCHANGED <<calls, device>>
  BY <1>3
<1>15. worker.at = "recv"
  BY <1>3
<1> QED
  BY <1>4, <1>5, <1>6, <1>8, <1>9, <1>10, <1>11, <1>12, <1>13, <1>14, <1>15, WorkerActs

LEMMA ServesPlain ==
  ASSUME WpdInv, ServePlain \/ StreamFails
  PROVE  WpdInv'
<1>1. PICK s \in Bare, kinds \in SUBSET {"plain", "download", "window", "read"} :
        Takes(kinds) /\ Reply(Head(queue), s)
  <2>1. CASE ServePlain
    <3>1. kept' = NoStream
      BY <2>1 DEF ServePlain, KeptFor, Takes
    <3>2. Takes({"plain"}) /\ Reply(Head(queue), Idle("answered"))
      BY <2>1, <3>1 DEF ServePlain
    <3>3. Idle("answered") \in Bare
      BY DEF Idle, Bare
    <3>4. {"plain"} \in SUBSET {"plain", "download", "window", "read"}
      OBVIOUS
    <3> QED BY <3>2, <3>3, <3>4
  <2>2. CASE StreamFails
    <3>1. Takes({"download", "window", "read"}) /\ Reply(Head(queue), Idle("failed"))
      BY <2>2 DEF StreamFails
    <3>2. Idle("failed") \in Bare
      BY DEF Idle, Bare
    <3>3. {"download", "window", "read"} \in SUBSET {"plain", "download", "window", "read"}
      OBVIOUS
    <3> QED BY <3>1, <3>2, <3>3
  <2> QED BY <2>1, <2>2
<1>2. kept' = NoStream /\ queue' = Tail(queue) /\ UNCHANGED <<worker, chan, stored, calls, device>>
  BY DEF ServePlain, StreamFails, KeptFor, Takes
<1>3. KeptInv'
  BY <1>2 DEF KeptInv
<1>4. s \in ClientStates /\ s.at = "idle"
  BY DEF ClientStates, Bare
<1>5. PICK r \in Queued : r = Head(queue)
  BY <1>1, Taken
<1>6. ASSUME client'[r.client] = s PROVE ClientInv(r.client)'
  <2>1. r.client \in Clients
    BY InHand
  <2> QED BY <1>6, <2>1, BareIsFine
<1>7. Reply(r, s)
  BY <1>1, <1>5
<1> QED BY <1>1, <1>2, <1>3, <1>4, <1>5, <1>6, <1>7, ServesAtOnce

(* A stream that is kept continues where a request that takes it begins. *)
LEMMA StreamIsThere ==
  ASSUME WpdInv, NEW r \in ReadReqs
  PROVE  StreamAt(r) = r.offset
  BY DEF StreamAt, Continues, KeptFor, WpdInv, KeptInv

(* A buffered read delivers what it asked for, as far as there is any. *)
LEMMA ServesRead ==
  ASSUME WpdInv, ServeRead
  PROVE  WpdInv'
<1>1. Takes({"read"}) /\ {"read"} \in SUBSET {"plain", "download", "window", "read"}
      /\ {"read"} \in SUBSET {"plain", "upload", "download", "window", "read"}
  BY DEF ServeRead
<1>2. PICK r \in Queued : /\ r = Head(queue) /\ r \in Reqs /\ r.kind \in {"read"}
                          /\ (Waits(r) => client[r.client].at = "call" /\ client[r.client].req = r)
  BY <1>1, Taken
<1> DEFINE pos == StreamAt(r)
           n == IF pos + r.len <= FileSize THEN r.len ELSE FileSize - pos
           got == [i \in 1 .. n |-> <<r.obj, pos + i - 1>>]
           s == [at |-> "idle", result |-> "end", req |-> r, got |-> got]
<1>3. r \in ReadReqs
  BY <1>2, KindsOfRequests
<1>4. /\ r.obj \in Objs /\ r.offset \in Nat /\ r.offset <= FileSize /\ r.len \in Nat /\ r.len > 0
      /\ FileSize \in Nat /\ r.client \in Clients
  BY <1>3, Sizes
<1>5. pos = r.offset
  BY <1>3, StreamIsThere
<1>6. /\ queue' = Tail(queue) /\ UNCHANGED <<worker, chan, stored, calls, device>>
      /\ kept' = IF n < r.len THEN NoStream ELSE OpenRead(r.obj, r.offset + n, pos + n)
      /\ Reply(r, s)
  BY <1>2 DEF ServeRead
<1>7. n \in Nat /\ n <= r.len /\ (n = r.len \/ r.offset + n = FileSize)
  BY <1>4, <1>5
<1> HIDE DEF n, pos
<1>8. /\ got \in Seq(Data) /\ Len(got) = n /\ \A i \in 1 .. n : got[i] = Unit(r, i)
  <2>1. \A i \in 1 .. n : <<r.obj, pos + i - 1>> = Unit(r, i) /\ Unit(r, i) \in Data
    <3>1. SUFFICES ASSUME NEW i \in 1 .. n PROVE r.offset + i - 1 \in Nat
      BY <1>4, <1>5 DEF Unit, Data
    <3> QED BY <1>4, <1>7
  <2>2. got \in [1 .. n -> Data]
    BY <2>1
  <2>3. got \in Seq(Data)
    BY <1>7, <2>2, IsASeq
  <2>4. DOMAIN got = 1 .. n /\ \A i \in 1 .. n : got[i] = Unit(r, i)
    BY <2>1
  <2> HIDE DEF got
  <2>5. Len(got) = n
    BY <1>7, <2>3, <2>4, LenProperties
  <2> QED BY <2>3, <2>4, <2>5
<1> HIDE DEF got
<1>9. s \in ReadResults /\ s \in ClientStates /\ s.at = "idle"
  BY <1>3, <1>8 DEF ReadResults, ClientStates
<1>10. kept' \in {NoStream} \cup [obj : Objs, at : Nat, pos : Nat] /\ KeptInv'
  BY <1>4, <1>5, <1>6, <1>7 DEF OpenRead, KeptInv
<1>11. ASSUME Waits(r), client'[r.client] = s PROVE ClientInv(r.client)'
  <2>1. client'[r.client].at = "idle" /\ client'[r.client].result = "end"
        /\ client'[r.client].req = r /\ client'[r.client].got = got
    BY <1>11
  <2>2. GotOK(r.client)'
    BY <1>7, <1>8, <2>1 DEF GotOK
  <2>3. RoleOK(r.client)' /\ BodyOK(r.client)' /\ ResultOK(r.client)'
    BY <2>1 DEF RoleOK, BodyOK, ResultOK
  <2> QED BY <2>2, <2>3 DEF ClientInv
<1> HIDE DEF s
<1> QED BY <1>1, <1>2, <1>6, <1>9, <1>10, <1>11, ServesAtOnce

(* A pump begins at the offset, with an empty channel. *)
LEMMA StartsPump ==
  ASSUME WpdInv, StartPump
  PROVE  WpdInv'
<1>1. Takes({"download", "window"})
      /\ {"download", "window"} \in SUBSET {"plain", "download", "window", "read"}
      /\ {"download", "window"} \in SUBSET {"plain", "upload", "download", "window", "read"}
  BY DEF StartPump
<1>2. /\ queue # <<>> /\ worker.at = "recv" /\ worker = Receiving /\ Served = {}
      /\ \E r \in Queued :
           /\ r = Head(queue) /\ r \in Reqs /\ r.kind \in {"download", "window"}
           /\ ~(client[r.client].at = "body" /\ client[r.client].req = r)
           /\ Waits(r) => client[r.client].at = "call" /\ client[r.client].req = r
  BY <1>1, Taken
<1>3. PICK r \in Queued :
         /\ r = Head(queue) /\ r \in Reqs /\ r.kind \in {"download", "window"}
         /\ ~(client[r.client].at = "body" /\ client[r.client].req = r)
         /\ Waits(r) => client[r.client].at = "call" /\ client[r.client].req = r
  BY <1>2
<1> DEFINE w == [at |-> "pump", req |-> r, pos |-> StreamAt(r), left |-> r.len, fails |-> FALSE]
           s == [at |-> "body", req |-> r, got |-> <<>>, failed |-> FALSE]
<1>4. r \in ReadReqs
  BY <1>3, KindsOfRequests
<1>5. /\ r.obj \in Objs /\ r.offset \in Nat /\ r.offset <= FileSize /\ r.len \in Nat
      /\ FileSize \in Nat /\ r.client \in Clients /\ r.id \in Ids /\ Bound \in Nat
  BY <1>4, Sizes
<1>6. StreamAt(r) = r.offset
  BY <1>4, StreamIsThere
<1>7. WpdShape /\ stored \in [Ids -> Nat]
  BY DEF WpdInv, WpdShape
<1>8. kept' = NoStream /\ KeptInv' /\ queue' = Tail(queue) /\ UNCHANGED <<stored, calls, device>>
  BY DEF StartPump, KeptInv
<1>9. CASE ~Waits(r)
  <2>1. UNCHANGED <<worker, chan, client>>
    BY <1>9, <1>3 DEF StartPump
  <2>2. Reply(r, Idle("dropped")) /\ Idle("dropped") \in ClientStates /\ Idle("dropped").at = "idle"
    BY <1>9, <2>1 DEF Reply, ClientStates, Bare, Idle
  <2> QED BY <1>1, <1>8, <1>9, <1>3, <2>1, <2>2, ServesAtOnce
<1>10. CASE Waits(r)
  <2>1. chan' = [chan EXCEPT ![r.id] = Opened] /\ client' = [client EXCEPT ![r.client] = s] /\ worker' = w
    BY <1>10, <1>3 DEF StartPump, Reply
  <2>2. /\ worker' \in WorkerStates /\ worker'.at = "pump" /\ worker'.req = r /\ ~worker'.fails
        /\ worker'.pos = r.offset /\ worker'.left = r.len
        /\ w \in [at : {"pump", "flush"}, req : ReadReqs, pos : Nat, left : Nat, fails : BOOLEAN]
    BY <1>4, <1>5, <1>6, <2>1 DEF WorkerStates
  <2>3. Served' = {r} /\ Pumps' /\ ~Writing'
    BY <2>2 DEF Served, Pumps, Writing
  <2>4. WorkerInv'
    BY <1>5, <2>2, <2>3 DEF WorkerInv
  <2>5. Opened \in Channels /\ Len(Opened.q) = 0 /\ Opened.reply = "none" /\ Opened.rx /\ Opened.tx
        /\ Opened.q = <<>> /\ 0 <= Bound /\ 0 <= Bound + 1
    BY <1>5, EmptySeq DEF Opened, Channels
  <2>6. s \in Readers /\ s \in ClientStates /\ s.at = "body" /\ s.req = r /\ s.got = <<>> /\ Len(s.got) = 0
        /\ s.failed = FALSE
    <3>1. <<>> \in Seq(Data) /\ Len(<<>>) = 0
      BY EmptySeq
    <3> QED BY <1>4, <3>1 DEF Readers, ClientStates
  <2> HIDE DEF s, w
  <2>7. /\ client' \in [Clients -> ClientStates] /\ client'[r.client] = s
        /\ \A d \in Clients : d # r.client => client'[d] = client[d]
    BY <1>5, <1>7, <2>1, <2>6 DEF WpdShape
  <2>8. r \notin Queued'
    <3>1. r \notin ToSet(Tail(queue))
      <4>1. r # Shutdown /\ queue \in Seq(Reqs \cup {Shutdown}) /\ Distinct(queue)
        BY <1>3, KindsOfRequests DEF WpdInv, WpdShape, QueueInv
      <4> QED BY <1>2, <1>3, <4>1, DistinctTail
    <3> QED BY <1>8, <3>1 DEF Queued
  <2>9. chan'[r.id] = Opened
    BY <1>5, <1>7, <2>1 DEF WpdShape
  <2>10. ClientInv(r.client)'
    <3>1. RoleOK(r.client)' /\ GotOK(r.client)' /\ ResultOK(r.client)'
      <4>1. r.client = client'[r.client].req.client /\ client'[r.client].at = "body"
        BY <2>6, <2>7
      <4>2. 0 <= r.len /\ \A i : i \notin 1 .. 0
        BY <1>5
      <4> QED BY <2>6, <2>7, <4>1, <4>2 DEF RoleOK, GotOK, ResultOK
    <3>2. FlowOK(r, 0, FALSE, <<>>, "open", r.offset)
      <4>1. r.offset = r.offset + 0 + 0 /\ 0 + 0 <= r.len /\ Len(<<>>) = 0 /\ \A i : i \notin 1 .. 0
        BY <1>5, EmptySeq
      <4> QED BY <4>1 DEF FlowOK, Broken
    <3>3. FlowOK(r, Len(client'[r.client].got), client'[r.client].failed, Opened.q,
                 IF ~Opened.tx THEN "ended" ELSE IF worker'.fails THEN "failed" ELSE "open", worker'.pos)
      BY <2>2, <2>5, <2>6, <2>7, <3>2
    <3>4. BodyOK(r.client)'
      BY <2>2, <2>3, <2>5, <2>6, <2>7, <2>8, <2>9, <3>3 DEF BodyOK, Source
    <3> QED BY <3>1, <3>4 DEF ClientInv
  <2>11. stored[r.id] = Absent
    BY InHand
  <2>12. client'[r.client].at # "idle" =>
           client[r.client].at # "idle" /\ client'[r.client].req = client[r.client].req
    BY <1>3, <1>10, <2>6, <2>7
  <2>13. queue # <<>> /\ Head(queue) = r /\ queue' = Tail(queue) /\ worker.at = "recv"
    BY <1>2, <1>8, <1>3
  <2> QED
    BY <1>2, <1>7, <1>8, <2>1, <2>2, <2>3, <2>4, <2>5, <2>7, <2>10, <2>11, <2>12, <2>13, WorkerActs
<1> QED BY <1>9, <1>10
(* What a pump has, and what is ahead of the body it sends to. *)
LEMMA PumpedTo ==
  ASSUME WpdInv, Pumps, NEW r, r = worker.req
  PROVE  /\ r \in Served /\ r \in ReadReqs /\ r.client \in Clients /\ r.id \in Ids /\ r.obj \in Objs
         /\ worker \in [at : {"pump", "flush"}, req : ReadReqs, pos : Nat, left : Nat, fails : BOOLEAN]
         /\ worker.pos + worker.left = r.offset + r.len /\ r.offset <= worker.pos
         /\ worker.pos <= FileSize /\ kept = NoStream
         /\ chan[r.id] \in Channels /\ Len(chan[r.id].q) <= Bound + 1 /\ chan[r.id].reply = "none"
         /\ worker.at = "pump" => Len(chan[r.id].q) <= Bound \/ ~chan[r.id].rx
         /\ client[r.client].at = "body" /\ client[r.client].req = r =>
              /\ r \notin Queued /\ chan[r.id].rx /\ chan[r.id].tx /\ client[r.client] \in Readers
              /\ FlowOK(r, Len(client[r.client].got), client[r.client].failed, chan[r.id].q,
                        IF worker.fails THEN "failed" ELSE "open", worker.pos)
<1>1. WpdShape
  BY DEF WpdInv
<1>2. /\ worker \in [at : {"pump", "flush"}, req : ReadReqs, pos : Nat, left : Nat, fails : BOOLEAN]
      /\ r \in ReadReqs /\ worker.at # "recv"
  BY <1>1, WorkerShapes DEF Pumps
<1>3. r \in Served
  BY DEF Served
<1>4. r.client \in Clients /\ r.id \in Ids /\ r.obj \in Objs
  BY <1>2, Sizes
<1>5. /\ worker.pos + worker.left = r.offset + r.len /\ r.offset <= worker.pos
      /\ worker.pos <= FileSize
  BY DEF WpdInv, WorkerInv
<1>6. kept = NoStream /\ (worker.at = "pump" => Len(chan[r.id].q) <= Bound \/ ~chan[r.id].rx)
  BY <1>2 DEF WpdInv, BoundInv
<1>7. chan[r.id] \in Channels /\ Len(chan[r.id].q) <= Bound + 1 /\ chan[r.id].reply = "none"
  BY <1>3, InHand
<1>8. ASSUME client[r.client].at = "body", client[r.client].req = r
      PROVE  /\ r \notin Queued /\ chan[r.id].rx /\ chan[r.id].tx /\ client[r.client] \in Readers
             /\ FlowOK(r, Len(client[r.client].got), client[r.client].failed, chan[r.id].q,
                       IF worker.fails THEN "failed" ELSE "open", worker.pos)
  <2>1. BodyOK(r.client)
    BY <1>4 DEF WpdInv, ClientInv
  <2>2. client[r.client] \in Readers
    BY <1>1, <1>4, <1>8, ClientShapes
  <2> QED BY <1>8, <2>1, <2>2 DEF BodyOK, Source
<1> QED BY <1>2, <1>3, <1>4, <1>5, <1>6, <1>7, <1>8

(* A step of the pump: what is ahead of its body stays what it asked for. *)
LEMMA PumpActs ==
  ASSUME WpdInv, Pumps, NEW r, r = worker.req, UNCHANGED <<queue, client, stored, calls, device>>,
         worker' \in WorkerStates,
         worker' = Receiving \/ (Pumps' /\ worker'.req = r), WorkerInv',
         kept' \in {NoStream} \cup [obj : Objs, at : Nat, pos : Nat], KeptInv',
         kept' # NoStream => worker'.at = "recv",
         NEW k \in Channels, chan' = [chan EXCEPT ![r.id] = k],
         k.reply = "none", k.rx = chan[r.id].rx, Len(k.q) <= Bound + 1,
         worker'.at = "pump" => Len(k.q) <= Bound \/ ~k.rx,
         client[r.client].at = "body" /\ client[r.client].req = r =>
           /\ k.tx <=> Pumps'
           /\ FlowOK(r, Len(client[r.client].got), client[r.client].failed, k.q,
                     IF ~k.tx THEN "ended" ELSE IF worker'.fails THEN "failed" ELSE "open", worker'.pos)
  PROVE  WpdInv'
<1>1. WpdShape /\ stored \in [Ids -> Nat] /\ client \in [Clients -> ClientStates]
  BY DEF WpdInv, WpdShape
<1>2. r \in Served /\ r.client \in Clients /\ r.id \in Ids
  BY PumpedTo
<1>3. worker'.at # "ended" /\ Served' \subseteq {r}
  BY DEF Receiving, Served, Pumps, Writing
<1>4. /\ chan' \in [Ids -> Channels] /\ chan'[r.id] = k
  BY <1>1, <1>2 DEF WpdShape
<1>5. stored[r.id] = Absent
  BY <1>2, InHand
<1>6. ASSUME client[r.client].at = "body", client[r.client].req = r PROVE ClientInv(r.client)'
  <2>1. client' = client /\ queue' = queue
    OBVIOUS
  <2>2. Queued' = Queued
    BY <2>1 DEF Queued
  <2>3. ClientInv(r.client)
    BY <1>2 DEF WpdInv
  <2>4. RoleOK(r.client)' /\ GotOK(r.client)'
    BY <2>1, <2>3 DEF ClientInv, RoleOK, GotOK
  <2>5. ResultOK(r.client)'
    BY <1>6, <2>1 DEF ResultOK
  <2>6. BodyOK(r.client)'
    <3>1. r \notin Queued' /\ k.rx
      BY <1>6, <2>2, PumpedTo
    <3>2. client'[r.client].req = r /\ client'[r.client].got = client[r.client].got
          /\ client'[r.client].failed = client[r.client].failed
      BY <1>6, <2>1
    <3>3. Pumps' => worker'.req = r
      BY DEF Receiving, Pumps
    <3>4. FlowOK(r, Len(client'[r.client].got), client'[r.client].failed, k.q,
                 IF ~k.tx THEN "ended" ELSE IF worker'.fails THEN "failed" ELSE "open", worker'.pos)
      BY <1>6, <3>2
    <3>5. k.tx <=> Pumps'
      BY <1>6
    <3> QED BY <1>4, <3>1, <3>2, <3>3, <3>4, <3>5 DEF BodyOK, Source
  <2> QED BY <2>4, <2>5, <2>6 DEF ClientInv
<1>7. \/ ClientInv(r.client)'
      \/ /\ client'[r.client] = client[r.client]
         /\ ~(client[r.client].at = "body" /\ client[r.client].req = r)
  BY <1>6
<1>8. /\ r \in Queued \cup Served /\ queue' = queue /\ UNCHANGED <<calls, device>>
      /\ stored' \in [Ids -> Nat] /\ (\A j \in Ids : j # r.id => stored'[j] = stored[j])
      /\ client' \in [Clients -> ClientStates]
      /\ (\A d \in Clients : d # r.client => client'[d] = client[d])
      /\ (client'[r.client].at # "idle" =>
           client[r.client].at # "idle" /\ client'[r.client].req = client[r.client].req)
  BY <1>1, <1>2
<1>9. /\ k.reply # "committed" /\ k.reply # "short"
      /\ r \in Served' => k.reply = "none" /\ stored'[r.id] = Absent
  BY <1>5
<1> QED BY <1>2, <1>3, <1>7, <1>8, <1>9, WorkerActs

LEMMA PumpEnds ==
  ASSUME WpdInv, PumpComplete \/ PumpEof \/ PumpStopped
  PROVE  WpdInv'
<1>1. PICK outcome : EndPump(outcome) /\ (outcome = "complete" => worker.left = 0)
  <2>1. CASE PumpComplete
    BY <2>1 DEF PumpComplete
  <2>2. CASE PumpEof
    BY <2>2 DEF PumpEof
  <2>3. CASE PumpStopped
    BY <2>3 DEF PumpStopped
  <2> QED BY <2>1, <2>2, <2>3
<1>2. worker.at = "pump" /\ Pumps
  BY DEF PumpComplete, PumpEof, PumpStopped, Pumping, Pumps
<1>3. PICK r : r = worker.req
  OBVIOUS
<1> DEFINE k == [chan[r.id] EXCEPT !.tx = FALSE]
<1>4. /\ r \in ReadReqs /\ r.client \in Clients /\ r.id \in Ids /\ r.obj \in Objs
      /\ worker \in [at : {"pump", "flush"}, req : ReadReqs, pos : Nat, left : Nat, fails : BOOLEAN]
      /\ worker.pos + worker.left = r.offset + r.len /\ worker.pos <= FileSize
      /\ chan[r.id] \in Channels /\ Len(chan[r.id].q) <= Bound + 1 /\ chan[r.id].reply = "none"
      /\ client[r.client].at = "body" /\ client[r.client].req = r =>
           /\ chan[r.id].rx /\ client[r.client] \in Readers
           /\ FlowOK(r, Len(client[r.client].got), client[r.client].failed, chan[r.id].q,
                     IF worker.fails THEN "failed" ELSE "open", worker.pos)
  BY <1>2, <1>3, PumpedTo
<1>5. /\ kept' = KeepAfterPump(outcome) /\ worker' = Receiving
      /\ UNCHANGED <<queue, client, stored, calls, device>>
      /\ chan' = [chan EXCEPT ![worker.req.id].tx = FALSE]
  BY <1>1 DEF EndPump
<1>6. chan' = [chan EXCEPT ![r.id] = k]
  BY <1>3, <1>4, <1>5 DEF WpdInv, WpdShape
<1>7. /\ k \in Channels /\ k.q = chan[r.id].q /\ k.reply = "none" /\ k.rx = chan[r.id].rx
      /\ k.tx = FALSE /\ Len(k.q) <= Bound + 1
  BY <1>4 DEF Channels
<1> HIDE DEF k
<1>8. /\ worker' \in WorkerStates /\ worker'.at = "recv" /\ ~Pumps' /\ ~Writing' /\ WorkerInv'
  BY <1>5 DEF WorkerStates, Receiving, Pumps, Writing, WorkerInv
<1>9. outcome = "complete" => worker.left = 0
  BY <1>1
<1>10. kept' \in {NoStream} \cup [obj : Objs, at : Nat, pos : Nat] /\ KeptInv'
  <2>1. r.offset + r.len \in Nat /\ (outcome = "complete" => worker.pos = r.offset + r.len)
    BY <1>4, <1>9, Sizes
  <2> QED BY <1>3, <1>4, <1>5, <2>1 DEF KeepAfterPump, OpenRead, KeptInv, NoStream
<1>11. ASSUME client[r.client].at = "body", client[r.client].req = r
       PROVE  FlowOK(r, Len(client[r.client].got), client[r.client].failed, k.q, "ended", worker'.pos)
  <2> DEFINE n == Len(client[r.client].got)
             failed == client[r.client].failed
             source == IF worker.fails THEN "failed" ELSE "open"
  <2>1. n \in Nat /\ failed \in BOOLEAN
    BY <1>4, <1>11, LenProperties DEF Readers
  <2>2. k.q \in Seq(Units) /\ source \in {"open", "failed"}
    BY <1>7 DEF Channels
  <2>3. source = "failed" \/ worker.left = 0 \/ worker.pos >= FileSize
    <3>1. chan[r.id].rx
      BY <1>4, <1>11
    <3>2. worker.fails \/ worker.left = 0 \/ worker.pos >= FileSize
      BY <1>3, <1>4, <3>1, Sizes DEF PumpComplete, PumpEof, PumpStopped
    <3> QED BY <3>2
  <2>4. FlowOK(r, n, failed, k.q, source, worker.pos)
    BY <1>4, <1>7, <1>11
  <2>5. worker.pos \in Nat /\ worker.left \in Nat
    BY <1>4
  <2> HIDE DEF n, failed, source
  <2>6. FlowOK(r, n, failed, k.q, "ended", worker'.pos)
    BY <1>4, <2>1, <2>2, <2>3, <2>4, <2>5, FlowEnd
  <2> QED BY <2>6 DEF n, failed
<1>12. client[r.client].at = "body" /\ client[r.client].req = r =>
         /\ k.tx <=> Pumps'
         /\ FlowOK(r, Len(client[r.client].got), client[r.client].failed, k.q,
                   IF ~k.tx THEN "ended" ELSE IF worker'.fails THEN "failed" ELSE "open", worker'.pos)
  BY <1>7, <1>8, <1>11
<1>13. (kept' # NoStream => worker'.at = "recv")
       /\ (worker'.at = "pump" => Len(k.q) <= Bound \/ ~k.rx)
  BY <1>8
<1>14. WpdInv /\ UNCHANGED <<queue, client, stored, calls, device>> /\ worker' = Receiving
  BY <1>5
<1> QED BY ONLY <1>2, <1>3, <1>6, <1>7, <1>8, <1>10, <1>12, <1>13, <1>14, PumpActs
(* The next unit, or the failure, goes behind what is ahead. *)
LEMMA PumpSends ==
  ASSUME WpdInv, PumpSend
  PROVE  WpdInv'
<1>1. worker.at = "pump" /\ Pumps /\ ~worker.fails /\ worker.left > 0
  BY DEF PumpSend, Pumping, Pumps
<1>2. PICK r : r = worker.req
  OBVIOUS
<1> DEFINE data == <<r.obj, worker.pos>>
<1>3. /\ r \in ReadReqs /\ r.client \in Clients /\ r.id \in Ids /\ r.obj \in Objs
      /\ worker \in [at : {"pump", "flush"}, req : ReadReqs, pos : Nat, left : Nat, fails : BOOLEAN]
      /\ worker.pos + worker.left = r.offset + r.len /\ r.offset <= worker.pos
      /\ worker.pos <= FileSize
      /\ chan[r.id] \in Channels /\ Len(chan[r.id].q) <= Bound + 1 /\ chan[r.id].reply = "none"
      /\ Len(chan[r.id].q) <= Bound \/ ~chan[r.id].rx
      /\ client[r.client].at = "body" /\ client[r.client].req = r =>
           /\ chan[r.id].tx /\ client[r.client] \in Readers
           /\ FlowOK(r, Len(client[r.client].got), client[r.client].failed, chan[r.id].q,
                     IF worker.fails THEN "failed" ELSE "open", worker.pos)
  BY <1>1, <1>2, PumpedTo
<1>4. chan[r.id].rx /\ UNCHANGED <<queue, kept, client, stored, calls, device>> /\ kept = NoStream
  BY <1>1, <1>2, PumpedTo DEF PumpSend
<1>5. PICK x, w :
        /\ chan' = [chan EXCEPT ![r.id] = [chan[r.id] EXCEPT !.q = Append(chan[r.id].q, x)]]
        /\ worker' = w
        /\ \/ /\ worker.pos < FileSize /\ x = data
              /\ w = [worker EXCEPT !.at = "flush", !.pos = @ + 1, !.left = @ - 1]
           \/ x = ReadError /\ w = [worker EXCEPT !.at = "flush", !.fails = TRUE]
  <2>1. chan \in [Ids -> Channels]
    BY DEF WpdInv, WpdShape
  <2>2. CASE /\ worker.pos < FileSize
             /\ chan' = [chan EXCEPT ![worker.req.id].q = Append(@, <<worker.req.obj, worker.pos>>)]
             /\ worker' = [worker EXCEPT !.at = "flush", !.pos = @ + 1, !.left = @ - 1]
    BY <1>2, <1>3, <2>1, <2>2
  <2>3. CASE /\ chan' = [chan EXCEPT ![worker.req.id].q = Append(@, ReadError)]
             /\ worker' = [worker EXCEPT !.at = "flush", !.fails = TRUE]
    BY <1>2, <1>3, <2>1, <2>3
  <2> QED BY <2>2, <2>3 DEF PumpSend
<1> DEFINE q == Append(chan[r.id].q, x)
           k == [chan[r.id] EXCEPT !.q = q]
<1>6. x \in Units
  <2>1. data \in Data
    BY <1>3 DEF Data
  <2> QED BY <1>5, <2>1 DEF Units
<1>7. q \in Seq(Units) /\ Len(q) = Len(chan[r.id].q) + 1 /\ Len(chan[r.id].q) <= Bound
      /\ chan[r.id].q \in Seq(Units) /\ Len(chan[r.id].q) \in Nat
  <2>1. chan[r.id].q \in Seq(Units)
    BY <1>3 DEF Channels
  <2> QED BY <1>3, <1>4, <1>6, <2>1, AppendProperties, LenProperties
<1> HIDE DEF q
<1>8. /\ k \in Channels /\ k.q = q /\ k.reply = "none" /\ k.rx = chan[r.id].rx /\ k.tx = chan[r.id].tx
  BY <1>3, <1>7 DEF Channels
<1> HIDE DEF k
<1>9. /\ w \in [at : {"pump", "flush"}, req : ReadReqs, pos : Nat, left : Nat, fails : BOOLEAN]
      /\ w.at = "flush" /\ w.req = r /\ w.pos + w.left = r.offset + r.len
      /\ r.offset <= w.pos /\ w.pos <= FileSize
      /\ \/ x = data /\ w.pos = worker.pos + 1 /\ w.fails = FALSE
         \/ x = ReadError /\ w.pos = worker.pos /\ w.fails = TRUE
  <2>1. /\ worker.pos \in Nat /\ worker.left \in Nat /\ r.offset \in Nat /\ r.len \in Nat
        /\ FileSize \in Nat /\ worker.fails = FALSE
    BY <1>1, <1>3, Sizes
  <2>2. CASE /\ worker.pos < FileSize /\ x = data
             /\ w = [worker EXCEPT !.at = "flush", !.pos = @ + 1, !.left = @ - 1]
    <3>1. worker.left - 1 \in Nat /\ worker.pos + 1 \in Nat
      BY <1>1, <2>1
    <3>2. /\ w \in [at : {"pump", "flush"}, req : ReadReqs, pos : Nat, left : Nat, fails : BOOLEAN]
          /\ w.at = "flush" /\ w.req = r /\ w.pos = worker.pos + 1 /\ w.left = worker.left - 1
          /\ w.fails = FALSE
      BY <1>2, <1>3, <2>1, <2>2, <3>1
    <3>3. worker.pos + 1 + (worker.left - 1) = r.offset + r.len /\ r.offset <= worker.pos + 1
          /\ worker.pos + 1 <= FileSize
      <4>1. worker.pos + worker.left = r.offset + r.len /\ r.offset <= worker.pos /\ worker.pos < FileSize
        BY <1>3, <2>2
      <4> QED BY ONLY <2>1, <4>1
    <3> QED BY <2>2, <3>2, <3>3
  <2>3. CASE x = ReadError /\ w = [worker EXCEPT !.at = "flush", !.fails = TRUE]
    <3>1. /\ w \in [at : {"pump", "flush"}, req : ReadReqs, pos : Nat, left : Nat, fails : BOOLEAN]
          /\ w.at = "flush" /\ w.req = r /\ w.pos = worker.pos /\ w.left = worker.left
          /\ w.fails = TRUE
      BY <1>2, <1>3, <2>3
    <3> QED BY <1>3, <2>3, <3>1
  <2> QED BY <1>5, <2>2, <2>3
<1>10. /\ worker' = w /\ worker' \in WorkerStates /\ Pumps' /\ worker'.req = r /\ ~Writing'
       /\ worker'.at # "pump"
  BY <1>5, <1>9 DEF WorkerStates, Pumps, Writing
<1>11. WorkerInv' /\ KeptInv'
  BY <1>4, <1>9, <1>10 DEF WorkerInv, KeptInv
<1>12. ASSUME client[r.client].at = "body", client[r.client].req = r
       PROVE  /\ k.tx = TRUE
              /\ FlowOK(r, Len(client[r.client].got), client[r.client].failed, q,
                        IF worker'.fails THEN "failed" ELSE "open", worker'.pos)
  <2> DEFINE n == Len(client[r.client].got)
             failed == client[r.client].failed
  <2>1. n \in Nat /\ failed \in BOOLEAN /\ k.tx = TRUE
    BY <1>3, <1>8, <1>12, LenProperties DEF Readers, Channels
  <2>2. FlowOK(r, n, failed, chan[r.id].q, "open", worker.pos)
    BY <1>1, <1>3, <1>12
  <2>3. worker.pos \in Nat /\ worker.left \in Nat
    BY <1>3
  <2> HIDE DEF n, failed
  <2>4. /\ FlowOK(r, n, failed, Append(chan[r.id].q, <<r.obj, worker.pos>>), "open", worker.pos + 1)
        /\ FlowOK(r, n, failed, Append(chan[r.id].q, ReadError), "failed", worker.pos)
    BY <1>1, <1>3, <1>7, <2>1, <2>2, <2>3, FlowSend
  <2>5. CASE x = data /\ w.pos = worker.pos + 1 /\ w.fails = FALSE
    BY <1>10, <2>4, <2>1, <2>5 DEF q, n, failed
  <2>6. CASE x = ReadError /\ w.pos = worker.pos /\ w.fails = TRUE
    BY <1>10, <2>4, <2>1, <2>6 DEF q, n, failed
  <2> QED BY <1>9, <2>5, <2>6
<1>13. client[r.client].at = "body" /\ client[r.client].req = r =>
         /\ k.tx <=> Pumps'
         /\ FlowOK(r, Len(client[r.client].got), client[r.client].failed, k.q,
                   IF ~k.tx THEN "ended" ELSE IF worker'.fails THEN "failed" ELSE "open", worker'.pos)
  BY <1>8, <1>10, <1>12
<1>14. Len(k.q) <= Bound + 1
  BY <1>7, <1>8, Sizes
<1>15. /\ kept' \in {NoStream} \cup [obj : Objs, at : Nat, pos : Nat]
       /\ (kept' # NoStream => worker'.at = "recv")
       /\ (worker'.at = "pump" => Len(k.q) <= Bound \/ ~k.rx)
       /\ chan' = [chan EXCEPT ![r.id] = k]
  BY <1>4, <1>5, <1>10 DEF k, q
<1>16. WpdInv /\ UNCHANGED <<queue, client, stored, calls, device>>
  BY <1>4
<1> QED BY ONLY <1>1, <1>2, <1>8, <1>10, <1>11, <1>13, <1>14, <1>15, <1>16, PumpActs

LEMMA Flushes ==
  ASSUME WpdInv, Flushed
  PROVE  WpdInv'
<1>1. worker.at = "flush" /\ Pumps /\ UNCHANGED <<queue, kept, chan, client, stored, calls, device>>
      /\ worker' = [worker EXCEPT !.at = "pump"]
  BY DEF Flushed, Pumps
<1>2. PICK r : r = worker.req
  OBVIOUS
<1>3. /\ r \in ReadReqs /\ r.client \in Clients /\ r.id \in Ids
      /\ worker \in [at : {"pump", "flush"}, req : ReadReqs, pos : Nat, left : Nat, fails : BOOLEAN]
      /\ worker.pos + worker.left = r.offset + r.len /\ r.offset <= worker.pos
      /\ worker.pos <= FileSize /\ kept = NoStream
      /\ chan[r.id] \in Channels /\ Len(chan[r.id].q) <= Bound + 1 /\ chan[r.id].reply = "none"
      /\ client[r.client].at = "body" /\ client[r.client].req = r =>
           /\ chan[r.id].tx
           /\ FlowOK(r, Len(client[r.client].got), client[r.client].failed, chan[r.id].q,
                     IF worker.fails THEN "failed" ELSE "open", worker.pos)
  BY <1>1, <1>2, PumpedTo
<1> DEFINE k == chan[r.id]
<1>4. chan' = [chan EXCEPT ![r.id] = k]
  BY <1>1, <1>3 DEF WpdInv, WpdShape
<1>5. /\ worker' \in [at : {"pump", "flush"}, req : ReadReqs, pos : Nat, left : Nat, fails : BOOLEAN]
      /\ worker'.at = "pump" /\ worker'.req = r /\ worker'.pos = worker.pos
      /\ worker'.left = worker.left /\ worker'.fails = worker.fails
  BY <1>1, <1>2, <1>3
<1>6. worker' \in WorkerStates /\ Pumps' /\ ~Writing'
  BY <1>5 DEF WorkerStates, Pumps, Writing
<1>7. WorkerInv' /\ KeptInv'
  BY <1>1, <1>3, <1>5, <1>6 DEF WorkerInv, KeptInv
<1>8. client[r.client].at = "body" /\ client[r.client].req = r =>
        /\ k.tx <=> Pumps'
        /\ FlowOK(r, Len(client[r.client].got), client[r.client].failed, k.q,
                  IF ~k.tx THEN "ended" ELSE IF worker'.fails THEN "failed" ELSE "open", worker'.pos)
  BY <1>3, <1>5, <1>6
<1>9. /\ kept' \in {NoStream} \cup [obj : Objs, at : Nat, pos : Nat]
      /\ (kept' # NoStream => worker'.at = "recv")
      /\ (worker'.at = "pump" => Len(k.q) <= Bound \/ ~k.rx)
      /\ k.reply = "none" /\ k.rx = chan[r.id].rx /\ k \in Channels /\ Len(k.q) <= Bound + 1
  BY <1>1, <1>2, <1>3 DEF Flushed
<1>10. WpdInv /\ UNCHANGED <<queue, client, stored, calls, device>>
  BY <1>1
<1> HIDE DEF k
<1>11. k.rx = chan[r.id].rx
  BY DEF k
<1>12. Pumps /\ (Pumps' /\ worker'.req = r)
  BY <1>1, <1>5, <1>6
<1> QED BY ONLY <1>2, <1>4, <1>6, <1>7, <1>8, <1>9, <1>10, <1>11, <1>12, PumpActs
(* A step of an upload's writer: its client reads the verdict later. *)
LEMMA UploadActs ==
  ASSUME WpdInv, NEW r \in Queued \cup Served, r.kind = "upload",
         \/ queue' = queue /\ r \in Served
         \/ queue # <<>> /\ Head(queue) = r /\ queue' = Tail(queue) /\ worker.at = "recv",
         \/ worker' = Receiving
         \/ worker' \in [at : {"write"}, req : PlainReqs, written : Nat] /\ worker'.req = r,
         kept' = NoStream, UNCHANGED <<client, calls, device>>,
         NEW k \in Channels, chan' = [chan EXCEPT ![r.id] = k], Len(k.q) <= Bound + 1,
         stored' \in [Ids -> Nat], \A j \in Ids : j # r.id => stored'[j] = stored[j],
         k.reply = "committed" => stored'[r.id] = FileSize,
         k.reply = "short" => stored'[r.id] = Absent,
         worker' = Receiving \/ (k.reply = "none" /\ stored'[r.id] = Absent)
  PROVE  WpdInv'
<1>1. WpdShape /\ client \in [Clients -> ClientStates]
  BY DEF WpdInv, WpdShape
<1>2. r.client \in Clients
  BY InHand
<1>3. /\ worker' \in WorkerStates /\ worker'.at \in {"recv", "write"} /\ ~Pumps' /\ Served' \subseteq {r}
      /\ worker' = Receiving => Served' = {}
  BY DEF WorkerStates, Receiving, Served, Pumps, Writing
<1>4. WorkerInv' /\ KeptInv'
  BY <1>3 DEF WorkerInv, KeptInv, Writing, Receiving
<1>5. ~(client[r.client].at = "body" /\ client[r.client].req = r)
  <2>1. client[r.client].at = "body" => client[r.client].req \in ReadReqs
    BY <1>1, <1>2, ClientShapes DEF Readers
  <2> QED BY <2>1, Sizes
<1>6. r \in Served' => k.reply = "none" /\ stored'[r.id] = Absent
  BY <1>3
<1>7. /\ kept' \in {NoStream} \cup [obj : Objs, at : Nat, pos : Nat]
      /\ kept' # NoStream => worker'.at = "recv"
      /\ worker'.at = "pump" => Len(k.q) <= Bound \/ ~k.rx
      /\ worker'.at # "ended"
  BY <1>3
<1>8. /\ client' \in [Clients -> ClientStates] /\ UNCHANGED <<calls, device>>
      /\ \A d \in Clients : d # r.client => client'[d] = client[d]
      /\ client'[r.client].at # "idle" =>
           client[r.client].at # "idle" /\ client'[r.client].req = client[r.client].req
      /\ client'[r.client] = client[r.client]
  BY <1>1
<1> QED BY <1>3, <1>4, <1>5, <1>6, <1>7, <1>8, WorkerActs

(* A verdict empties the channel and closes it. *)
LEMMA Replied ==
  ASSUME NEW r, r.id \in Ids, chan \in [Ids -> Channels], chan[r.id].reply = "none",
         NEW reply \in {"error", "committed", "short"}, UploadReply(r, reply)
  PROVE  \E k \in Channels : /\ chan' = [chan EXCEPT ![r.id] = k] /\ Len(k.q) = 0
                             /\ k.reply \in {"none", reply}
<1> DEFINE waits == client[r.client].at \in {"upload", "verdict"} /\ client[r.client].req.id = r.id
           k == IF waits THEN [chan[r.id] EXCEPT !.q = <<>>, !.rx = FALSE, !.reply = reply] ELSE Closed
<1>1. chan' = [chan EXCEPT ![r.id] = k]
  BY DEF UploadReply
<1>2. <<>> \in Seq(Units) /\ Len(<<>>) = 0 /\ chan[r.id] \in Channels
  BY EmptySeq
<1>3. [chan[r.id] EXCEPT !.q = <<>>, !.rx = FALSE, !.reply = reply] \in Channels
  BY <1>2 DEF Channels
<1>4. Closed \in Channels /\ Len(Closed.q) = 0 /\ Closed.reply = "none"
  BY <1>2 DEF Closed, Channels
<1>5. k \in Channels /\ Len(k.q) = 0 /\ k.reply \in {"none", reply}
  BY <1>2, <1>3, <1>4 DEF Channels
<1> HIDE DEF k
<1> QED BY <1>1, <1>5

LEMMA CreatesStream ==
  ASSUME WpdInv, CreateStream
  PROVE  WpdInv'
<1>1. Takes({"upload"}) /\ {"upload"} \in SUBSET {"plain", "upload", "download", "window", "read"}
  BY DEF CreateStream
<1>2. PICK r \in Queued : r = Head(queue) /\ r \in Reqs /\ r.kind \in {"upload"}
  BY <1>1, Taken
<1>3. queue # <<>> /\ worker.at = "recv" /\ worker = Receiving
  BY <1>1, Taken
<1>4. r \in PlainReqs
  BY <1>2, KindsOfRequests
<1>5. r.id \in Ids /\ chan[r.id] \in Channels /\ chan[r.id].reply = "none" /\ stored[r.id] = Absent
      /\ Len(chan[r.id].q) <= Bound + 1
  BY <1>2, InHand
<1>6. chan \in [Ids -> Channels] /\ stored \in [Ids -> Nat]
  BY DEF WpdInv, WpdShape
<1>7. /\ queue' = Tail(queue) /\ kept' = NoStream /\ UNCHANGED <<client, stored, calls, device>>
      /\ \/ worker' = [at |-> "write", req |-> r, written |-> 0] /\ UNCHANGED chan
         \/ UploadReply(r, "error") /\ UNCHANGED worker
  BY <1>2 DEF CreateStream, KeptFor
<1>8. stored' = stored /\ r \in Queued \cup Served /\ Head(queue) = r
  BY <1>2, <1>7
<1>9. CASE worker' = [at |-> "write", req |-> r, written |-> 0] /\ UNCHANGED chan
  <2>1. worker' \in [at : {"write"}, req : PlainReqs, written : Nat] /\ worker'.req = r
    BY <1>4, <1>9
  <2>2. chan' = [chan EXCEPT ![r.id] = chan[r.id]]
    BY <1>5, <1>6, <1>9
  <2> QED BY <1>2, <1>3, <1>5, <1>6, <1>7, <1>8, <2>1, <2>2, UploadActs
<1>10. CASE UploadReply(r, "error") /\ UNCHANGED worker
  <2>1. PICK k \in Channels : /\ chan' = [chan EXCEPT ![r.id] = k] /\ Len(k.q) = 0
                              /\ k.reply \in {"none", "error"}
    BY <1>5, <1>6, <1>10, Replied
  <2>2. Len(k.q) <= Bound + 1 /\ k.reply # "committed" /\ k.reply # "short" /\ worker' = Receiving
    BY <1>3, <1>10, <2>1, Sizes
  <2> QED BY <1>2, <1>3, <1>5, <1>6, <1>7, <1>8, <2>1, <2>2, UploadActs
<1> QED BY <1>7, <1>9, <1>10

(* The writer takes a chunk, or is done: the device has it all, or nothing. *)
LEMMA Writes ==
  ASSUME WpdInv, WriteChunk \/ FinishUpload
  PROVE  WpdInv'
<1>1. Writing /\ worker.at = "write"
  BY DEF WriteChunk, FinishUpload, Writing
<1>2. PICK r : r = worker.req
  OBVIOUS
<1>3. /\ worker \in [at : {"write"}, req : PlainReqs, written : Nat] /\ r \in PlainReqs
      /\ r \in Served /\ r.kind = "upload"
  BY <1>1, <1>2, WorkerShapes DEF Served, WpdInv, WorkerInv
<1>4. r.id \in Ids /\ chan[r.id] \in Channels /\ chan[r.id].reply = "none" /\ stored[r.id] = Absent
      /\ Len(chan[r.id].q) <= Bound + 1
  BY <1>3, InHand
<1>5. chan \in [Ids -> Channels] /\ stored \in [Ids -> Nat] /\ kept = NoStream
  BY <1>1 DEF WpdInv, WpdShape, BoundInv
<1>6. /\ queue' = queue /\ kept' = NoStream /\ UNCHANGED <<client, calls, device>>
      /\ r \in Queued \cup Served
  BY <1>3, <1>5 DEF WriteChunk, FinishUpload
<1>7. CASE /\ chan[r.id].q # <<>> /\ chan' = [chan EXCEPT ![r.id].q = Tail(@)]
           /\ worker' = [worker EXCEPT !.written = @ + 1] /\ UNCHANGED stored
  <2> DEFINE q == Tail(chan[r.id].q)
             k == [chan[r.id] EXCEPT !.q = q]
  <2>1. q \in Seq(Units) /\ Len(q) = Len(chan[r.id].q) - 1 /\ Len(chan[r.id].q) \in Nat
    <3>1. chan[r.id].q \in Seq(Units)
      BY <1>4 DEF Channels
    <3> QED BY <1>7, <3>1, HeadTailProperties, LenProperties
  <2>2. chan' = [chan EXCEPT ![r.id] = k]
    BY <1>4, <1>5, <1>7
  <2> HIDE DEF q
  <2>3. k \in Channels /\ k.q = q /\ k.reply = "none"
    BY <1>4, <2>1 DEF Channels
  <2> HIDE DEF k
  <2>4. worker' \in [at : {"write"}, req : PlainReqs, written : Nat] /\ worker'.req = r
    BY <1>2, <1>3, <1>7
  <2>5. Len(k.q) <= Bound + 1 /\ k.reply # "committed" /\ k.reply # "short"
    BY <1>4, <2>1, <2>3, Sizes
  <2>6. stored' = stored
    BY <1>7
  <2> QED BY <1>3, <1>4, <1>5, <1>6, <2>2, <2>3, <2>4, <2>5, <2>6, UploadActs
<1>8. ASSUME NEW reply \in {"error", "committed", "short"}, UploadReply(r, reply),
             worker' = Receiving, stored' \in [Ids -> Nat],
             \A j \in Ids : j # r.id => stored'[j] = stored[j],
             reply = "committed" => stored'[r.id] = FileSize,
             reply = "short" => stored'[r.id] = Absent
      PROVE  WpdInv'
  <2>1. PICK k \in Channels : /\ chan' = [chan EXCEPT ![r.id] = k] /\ Len(k.q) = 0
                              /\ k.reply \in {"none", reply}
    BY <1>4, <1>5, <1>8, Replied
  <2>2. /\ Len(k.q) <= Bound + 1 /\ (k.reply = "committed" => stored'[r.id] = FileSize)
        /\ k.reply = "short" => stored'[r.id] = Absent
    BY <1>8, <2>1, Sizes
  <2> QED BY <1>3, <1>6, <1>8, <2>1, <2>2, UploadActs
<1>9. CASE WriteChunk
  <2>1. \/ /\ chan[r.id].q # <<>> /\ chan' = [chan EXCEPT ![r.id].q = Tail(@)]
           /\ worker' = [worker EXCEPT !.written = @ + 1] /\ UNCHANGED stored
        \/ UploadReply(r, "error") /\ worker' = Receiving /\ stored' = stored
    BY <1>2, <1>9 DEF WriteChunk
  <2>2. CASE UploadReply(r, "error") /\ worker' = Receiving /\ stored' = stored
    BY <1>5, <1>8, <2>2
  <2> QED BY <1>7, <2>1, <2>2
<1>10. CASE FinishUpload
  <2> DEFINE committed == [stored EXCEPT ![r.id] = worker.written]
  <2>1. worker' = Receiving
    BY <1>10 DEF FinishUpload
  <2>2. /\ committed \in [Ids -> Nat] /\ committed[r.id] = worker.written
        /\ \A j \in Ids : j # r.id => committed[j] = stored[j]
    BY <1>3, <1>4, <1>5
  <2>3. CASE worker.written = FileSize /\ UploadReply(r, "committed") /\ stored' = committed
    <3> HIDE DEF committed
    <3> QED BY <1>8, <2>1, <2>2, <2>3
  <2>4. CASE UploadReply(r, "error") /\ stored' \in {stored, committed}
    <3> HIDE DEF committed
    <3> QED BY <1>5, <1>8, <2>1, <2>2, <2>4
  <2>5. CASE UploadReply(r, "short") /\ stored' = stored
    BY <1>4, <1>5, <1>8, <2>1, <2>5
  <2> QED BY <1>2, <1>10, <2>3, <2>4, <2>5 DEF FinishUpload, IsWhole
<1> QED BY <1>9, <1>10
-----------------------------------------------------------------------------
(* The worker's theorems *)

LEMMA WpdBegins ==
  ASSUME WpdInit
  PROVE  WpdInv
<1>1. /\ queue = <<>> /\ worker = Receiving /\ kept = NoStream /\ chan = [i \in Ids |-> Closed]
      /\ client = [c \in Clients |-> Idle("none")] /\ stored = [i \in Ids |-> Absent]
      /\ calls = 0 /\ device = TRUE
  BY DEF WpdInit
<1>2. /\ Closed \in Channels /\ Closed.q = <<>> /\ Closed.reply = "none"
      /\ Len(<<>>) = 0 /\ <<>> \in Seq(Reqs \cup {Shutdown})
  <2>1. Len(<<>>) = 0 /\ <<>> \in Seq(Reqs \cup {Shutdown}) /\ <<>> \in Seq(Units)
    BY EmptySeq
  <2> QED BY <2>1 DEF Closed, Channels
<1>3. Idle("none") \in Bare /\ Idle("none") \in ClientStates /\ Idle("none").at = "idle"
      /\ Idle("none").result \notin {"stored", "clean", "aborted"} /\ "got" \notin DOMAIN Idle("none")
  BY DEF Idle, Bare, ClientStates
<1>4. WpdShape
  <2>1. calls \in 0 .. MaxCalls /\ \A i \in Ids : Absent \in Nat
    BY <1>1, Sizes
  <2>2. worker \in WorkerStates /\ kept \in {NoStream}
    BY <1>1 DEF WorkerStates
  <2>3. chan \in [Ids -> Channels] /\ client \in [Clients -> ClientStates] /\ stored \in [Ids -> Nat]
    BY <1>1, <1>2, <1>3, <2>1
  <2> QED BY <1>1, <1>2, <2>1, <2>2, <2>3 DEF WpdShape
<1>5. Held = {} /\ Queued = {} /\ Served = {} /\ ~Pumps /\ ~Writing /\ worker.at = "recv"
  <2>1. Queued = {}
    BY <1>1, SetOfEmpty DEF Queued
  <2>2. Served = {} /\ ~Pumps /\ ~Writing /\ worker.at = "recv"
    BY <1>1 DEF Served, Pumps, Writing, Receiving
  <2>3. Awaited = {}
    BY <1>1, <1>3 DEF Awaited
  <2> QED BY <2>1, <2>2, <2>3 DEF Held
<1>6. UniqueInv /\ KeptInv /\ WorkerInv
  BY <1>1, <1>5 DEF UniqueInv, KeptInv, WorkerInv
<1>7. QueueInv
  <2>1. DOMAIN queue = {}
    BY <1>1, <1>2, LenProperties
  <2> QED BY <1>5, <2>1 DEF QueueInv, Distinct
<1>8. BoundInv
  <2>1. \A i \in Ids : Len(chan[i].q) <= Bound + 1
    BY <1>1, <1>2, Sizes
  <2> QED BY <1>1, <1>5, <2>1 DEF BoundInv
<1>9. StoredInv
  BY <1>1, <1>2, <1>5 DEF StoredInv
<1>10. ASSUME NEW c \in Clients PROVE ClientInv(c)
  <2>1. client[c] = Idle("none")
    BY <1>1
  <2> QED BY <1>3, <2>1 DEF ClientInv, RoleOK, GotOK, BodyOK, ResultOK
<1> QED BY <1>4, <1>6, <1>7, <1>8, <1>9, <1>10 DEF WpdInv

LEMMA WpdSteps ==
  ASSUME WpdInv, [WpdNext]_wpdVars
  PROVE  WpdInv'
<1>1. CASE WorkerStep
  BY <1>1, ServesPlain, StartsPump, ServesRead, Releases, Stops, PumpEnds, PumpSends, Flushes,
     CreatesStream, Writes
  DEF WorkerStep
<1>2. ASSUME NEW c \in Clients,
             \/ ClientStep(c) \/ Call(c) \/ DropCall(c) \/ CancelBody(c) \/ DropLastBody(c)
             \/ DropUpload(c)
      PROVE  WpdInv'
  BY <1>2, ClientsLeave, ReadsChunk, EndsBody, Uploads, ReadsVerdict, Calls, DropsLastBody
  DEF ClientStep
<1>3. CASE Close \/ DropDevice
  BY <1>3, Closes
<1>4. CASE UNCHANGED wpdVars
  <2>1. UNCHANGED <<queue, worker, kept, chan, client, stored, calls, device>>
    BY <1>4 DEF wpdVars
  <2>2. WpdShape' /\ UniqueInv' /\ QueueInv' /\ KeptInv' /\ WorkerInv' /\ BoundInv' /\ StoredInv'
    BY <2>1 DEF WpdInv, WpdShape, UniqueInv, QueueInv, Distinct, KeptInv, WorkerInv, BoundInv, StoredInv,
       Held, Queued, Served, Awaited, Pumps, Writing
  <2>3. ASSUME NEW d \in Clients PROVE ClientInv(d)'
    <3>1. Queued' = Queued /\ Served' = Served
      BY <2>1 DEF Queued, Served, Pumps, Writing
    <3>2. client[d].at = "body" => client[d].req \notin Queued'
      BY <3>1 DEF WpdInv, ClientInv, BodyOK
    <3> QED BY <2>1, <3>1, <3>2, Bystander DEF WpdInv
  <2> QED BY <2>2, <2>3 DEF WpdInv
<1> QED BY <1>1, <1>2, <1>3, <1>4 DEF WpdNext

(* The invariant of the worker, its channels and its clients. *)
THEOREM WorkerIsKept == WpdSpec => []WpdInv
<1>1. WpdInit => WpdInv
  BY WpdBegins
<1>2. WpdInv /\ [WpdNext]_wpdVars => WpdInv'
  BY WpdSteps
<1> QED BY <1>1, <1>2, PTL DEF WpdSpec

LEMMA WorkerTypes == WpdInv => WpdTypeOK
<1>1. SUFFICES ASSUME WpdInv PROVE WpdTypeOK
  OBVIOUS
<1>2. WpdShape
  BY <1>1 DEF WpdInv
<1>3. \A c \in Clients : client[c].at \in {"idle", "call", "body", "joining", "upload", "verdict"}
  BY <1>2, ClientShapes
<1>4. worker.at \in {"recv", "pump", "flush", "write", "ended"}
  BY <1>2, WorkerShapes
<1> QED BY <1>1, <1>2, <1>3, <1>4 DEF WpdTypeOK, WpdInv, WpdShape, BoundInv

(* The worker, its channels and its clients are of their shape: a channel  *)
(* holds at most one unit more than DATA_BOUND, whatever is dropped.       *)
THEOREM ChannelsAreBounded == WpdSpec => []WpdTypeOK
  BY WorkerTypes, WorkerIsKept, PTL

(* What a download, a window or a ranged read delivers is its object's     *)
(* bytes from its offset on, and all of them when it ends without an       *)
(* error, whatever windows before it were cancelled, dropped or outrun;    *)
(* and no request finds the device busy with a stream kept for another.    *)
THEOREM ReadsDeliver == WpdSpec => []ReadsAreServed
<1>1. WpdInv => ReadsOwnBytes
  <2>1. SUFFICES ASSUME WpdInv, NEW c \in Clients, "got" \in DOMAIN client[c]
                 PROVE  LET r == client[c].req
                            n == Len(client[c].got)
                        IN  /\ client[c].got = [i \in 1 .. n |-> <<r.obj, r.offset + i - 1>>]
                            /\ n <= r.len
                            /\ (client[c].at = "idle" /\ client[c].result = "end") =>
                                 n = r.len \/ r.offset + n = FileSize
    BY DEF ReadsOwnBytes
  <2> DEFINE r == client[c].req
             g == client[c].got
             n == Len(g)
  <2>2. client[c] \in ClientStates
    BY <2>1 DEF WpdInv, WpdShape
  <2>3. client[c] \in Readers \cup ReadResults
    BY <2>1, <2>2, GotShapes
  <2>4. g \in Seq(Data)
    BY <2>3 DEF Readers, ReadResults
  <2>5. /\ \A i \in 1 .. n : g[i] = <<r.obj, r.offset + i - 1>>
        /\ n <= r.len
        /\ client[c].at = "idle" /\ client[c].result = "end" => n = r.len \/ r.offset + n = FileSize
    BY <2>1 DEF WpdInv, ClientInv, GotOK, Unit
  <2> HIDE DEF g, r
  <2>6. g = [i \in 1 .. n |-> g[i]]
    BY <2>4, LenProperties
  <2>7. g = [i \in 1 .. n |-> <<r.obj, r.offset + i - 1>>]
    BY <2>5, <2>6
  <2> QED BY <2>5, <2>7 DEF g, r
<1>2. WpdInv => NeverBusy
  <2>1. SUFFICES ASSUME WpdInv, NEW c \in Clients, client[c].at = "idle"
                 PROVE  client[c].result # "busy"
    BY DEF NeverBusy
  <2>2. client[c] \in ClientStates
    BY <2>1 DEF WpdInv, WpdShape
  <2>3. client[c] \in Bare \cup ReadResults \cup UploadResults
    BY <2>1, <2>2 DEF ClientStates, Callers, Uploaders, Readers
  <2> QED BY <2>3 DEF Bare, ReadResults, UploadResults
<1>3. WpdInv => ReadsAreServed
  BY <1>1, <1>2 DEF ReadsAreServed
<1> QED BY <1>3, WorkerIsKept, PTL

(* An upload reports success only when the device committed every declared *)
(* unit, and a cancelled, failed or truncated source commits nothing.      *)
THEOREM VerdictsAreTrue == WpdSpec => []UploadVerdict
<1>1. WpdInv => UploadVerdict
  <2>1. SUFFICES ASSUME WpdInv, NEW c \in Clients, client[c].at = "idle"
                 PROVE  /\ client[c].result = "stored" => stored[client[c].req.id] = FileSize
                        /\ client[c].result \in {"clean", "aborted"} => stored[client[c].req.id] = Absent
    BY DEF UploadVerdict
  <2> QED BY <2>1 DEF WpdInv, ClientInv, ResultOK
<1> QED BY <1>1, WorkerIsKept, PTL
-----------------------------------------------------------------------------
(* The two backends as they are checked together. *)

(* What the backend remembers of refusals, and what stayed was there at some time. *)
Remembered == declined \subseteq ToSet(Optional) /\ history.stayed \subseteq history.ever

LEMMA RemembersFirst == ListingInit => Remembered
  BY DEF ListingInit, Remembered

LEMMA Remembers ==
  ASSUME ListInv, Remembered, [ListingNext]_listingVars
  PROVE  Remembered'
<1>1. history \in HistoryShape
  BY DEF ListInv, ListingShape
<1>2. Transaction => history'.stayed \subseteq history'.ever
  BY <1>1 DEF Transaction, HistoryShape, Remembered
<1>3. ASSUME NEW f, history' = FolderHistory(f) PROVE history'.stayed \subseteq history'.ever
  BY <1>1, <1>3 DEF FolderHistory, HistoryShape
<1>4. ASSUME NEW mode \in ListingModes, NEW f \in Folders \cup {RootHandle}, StartListing(mode, f)
      PROVE  Remembered'
  BY <1>1, <1>4 DEF StartListing, FolderHistory, HistoryShape, Remembered
<1>5. ASSUME NEW h \in Objects, NEW p \in Parents, ChangeTree(h, p)
      PROVE  Remembered'
  BY <1>1, <1>5 DEF ChangeTree, listing, HistoryShape, Remembered
<1>6. CASE CancelListing \/ BailIfCancelled \/ List \/ PassOptional \/ ServedByPropList \/ InfoExhausted
           \/ UNCHANGED listingVars
  BY <1>6 DEF CancelListing, BailIfCancelled, List, PassOptional, ServedByPropList, InfoExhausted,
              listingVars, listing, Remembered
<1>7. CASE SessionFails \/ DeclinesRequired \/ RefusesFolder \/ AskRequired \/ AskAll \/ AskFolder
           \/ AskSamsung \/ AskInfo \/ AskSize
  BY <1>2, <1>7 DEF SessionFails, DeclinesRequired, RefusesFolder, AskRequired, AskAll, AskFolder,
                    AskSamsung, AskInfo, AskSize, Remembered
<1>8. CASE AskOptional
  <2>1. call.asked + 1 \in DOMAIN Optional
    BY <1>8, <1>1 DEF AskOptional, Wanted, Optional, ListInv, ListingShape, CallShape
  <2>2. Optional[call.asked + 1] \in ToSet(Optional)
    BY <2>1 DEF ToSet
  <2>3. declined' \subseteq declined \cup {Optional[call.asked + 1]}
    BY <1>8 DEF AskOptional
  <2> QED BY <1>2, <1>8, <2>2, <2>3 DEF AskOptional, Remembered
<1>9. CASE Collect
  <2>1. declined' = declined
    BY <1>9 DEF Collect
  <2>2. history' = history \/ \E f : history' = FolderHistory(f)
    BY <1>9 DEF Collect
  <2> QED BY <1>3, <2>1, <2>2 DEF Remembered
<1> QED BY <1>4, <1>5, <1>6, <1>7, <1>8, <1>9 DEF ListingNext, Advance

LEMMA ListingTypes == ListInv /\ Remembered => ListingTypeOK
<1> SUFFICES ASSUME ListInv, Remembered PROVE ListingTypeOK
  OBVIOUS
<1>1. call \in CallShape /\ history \in HistoryShape
  BY DEF ListInv, ListingShape
<1>2. \A s \in Seq(Objects) : ToSet(s) \subseteq Objects
  BY DEF ToSet
<1>3. ToSet(call.handles) \cup ToSet(call.listed) \cup ToSet(call.objects) \subseteq Objects
  BY <1>1, <1>2 DEF CallShape
<1> QED
  BY <1>1, <1>3 DEF ListInv, ExactInv, TreeInv, ListingShape, CallShape, HistoryShape, Remembered,
     ListingTypeOK

(* The call, the backend's memory, the worker, its channels and its        *)
(* clients keep their shape, whichever backend runs.                       *)
THEOREM BackendIsTyped == BackendSpec => []BackendTypeOK
<1> DEFINE Inv == ListInv /\ Remembered /\ WpdInv
<1>1. BackendInit => Inv
  BY ListingStarts, RemembersFirst, WpdBegins DEF BackendInit, RestListing
<1>2. Inv /\ [BackendNext]_BackendVars => Inv'
  <2> SUFFICES ASSUME Inv, [BackendNext]_BackendVars PROVE Inv'
    OBVIOUS
  <2>1. [ListingNext]_listingVars /\ [WpdNext]_wpdVars
    BY DEF BackendNext, BackendVars
  <2> QED BY <2>1, ListingSteps, Remembers, WpdSteps
<1>3. Inv => BackendTypeOK
  BY ListingTypes, WorkerTypes DEF BackendTypeOK
<1> QED BY <1>1, <1>2, <1>3, PTL DEF BackendSpec
=============================================================================
