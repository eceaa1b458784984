---------------------------- MODULE VirtualProofs ----------------------------
(***************************************************************************)
(* Proofs about the virtual device: for every tree of files, every host    *)
(* that calls it and every program that changes its backing directories,   *)
(* a handle names one object, an object is announced once, and what is     *)
(* refused changes nothing.                                                *)
(*                                                                         *)
(* VirtualInv is inductive: the files on disk form a tree and the handles, *)
(* the pending upload, the events and the notifications are of their kinds *)
(* (DeviceInv), the one call that is running is answered once (CallInv),   *)
(* the pauses are those their guards hold (GuardInv).  Each handler is     *)
(* proved to have an Outcome, what it may do to the device, and to Answer. *)
(*                                                                         *)
(* The watcher's two promises have invariants of their own: CatchUpInv     *)
(* counts the handles of a path against its file and the removals still to *)
(* come; HarnessInv says that the handles are of the entries on disk       *)
(* unless a harness that still holds its guard owes a rescan.              *)
(***************************************************************************)
EXTENDS MCDeviceWatch, FiniteSetTheorems, SequenceTheorems, TLAPS

(* A backing directory, or what is in one: a storage followed by names. *)
Elements == Storages \cup Names

Places ==
  {p \in Seq(Elements) : /\ Len(p) \in 1 .. MaxDepth + 1 /\ p[1] \in Storages
                         /\ \A i \in 2 .. Len(p) : p[i] \in Names}

(* What the trees of the backing directories are like. *)
Tree(t) ==
  /\ IsFiniteSet(DOMAIN t) /\ DOMAIN t \subseteq Places
  /\ \A p \in DOMAIN t : Len(p) > 1 => IsDir(t, Front(p))

(* Two trees hold the same on a storage. *)
SameOn(s, t1, t2) ==
  /\ Below(t1, <<s>>) = Below(t2, <<s>>)
  /\ \A p \in Below(t1, <<s>>) : t2[p] = t1[p]
-----------------------------------------------------------------------------
(* Paths *)

LEMMA PlaceTypes ==
  ASSUME NEW p \in Places
  PROVE  /\ p \in Seq(Elements) /\ Len(p) \in Nat /\ Len(p) >= 1 /\ Len(p) <= MaxDepth + 1
         /\ p[1] \in Storages /\ p # <<>> /\ MaxDepth \in Nat
         /\ \A i \in 2 .. Len(p) : p[i] \in Names
         /\ \A i \in 1 .. Len(p) : p[i] \in Elements
<1>1. p \in Seq(Elements) /\ Len(p) \in 1 .. MaxDepth + 1 /\ p[1] \in Storages
      /\ \A i \in 2 .. Len(p) : p[i] \in Names
  BY DEF Places
<1>2. Len(p) \in Nat /\ Len(p) >= 1 /\ Len(p) <= MaxDepth + 1 /\ MaxDepth \in Nat
  BY <1>1, DeviceAssumption
<1>3. \A i \in 1 .. Len(p) : p[i] \in Elements
  BY <1>1, ElementOfSeq
<1>4. p # <<>>
  BY <1>2, EmptySeq
<1> QED BY <1>1, <1>2, <1>3, <1>4

LEMMA PathsArePlaces == Paths = {p \in Places : Len(p) > 1}
<1> USE DeviceAssumption
<1>1. ASSUME NEW p \in Paths PROVE p \in Places /\ Len(p) > 1
  <2> DEFINE Tails == UNION {[1 .. k -> Names] : k \in 1 .. MaxDepth}
  <2>0. PICK s \in Storages : p \in {<<s>> \o n : n \in Tails}
    BY <1>1 DEF Paths
  <2>1. PICK n \in Tails : p = <<s>> \o n
    BY <2>0
  <2>2. PICK k \in 1 .. MaxDepth : n \in [1 .. k -> Names]
    BY <2>1
  <2>3. k \in Nat /\ n \in Seq(Names) /\ Len(n) = k
    BY <2>2
  <2>4. n \in Seq(Elements) /\ <<s>> \in Seq(Elements) /\ Len(<<s>>) = 1 /\ <<s>>[1] = s
    BY <2>3, SeqMonotonic DEF Elements
  <2>5. /\ p \in Seq(Elements) /\ Len(p) = 1 + k
        /\ \A i \in 1 .. 1 + k : p[i] = IF i <= 1 THEN <<s>>[i] ELSE n[i - 1]
    BY <2>1, <2>3, <2>4, ConcatProperties
  <2>6. p[1] = s
    BY <2>3, <2>4, <2>5
  <2>7. \A i \in 2 .. 1 + k : p[i] \in Names
    <3>1. SUFFICES ASSUME NEW i \in 2 .. 1 + k PROVE p[i] \in Names
      OBVIOUS
    <3>2. i - 1 \in 1 .. k /\ ~(i <= 1) /\ i \in 1 .. 1 + k
      BY <2>3
    <3> QED BY <2>2, <2>5, <3>2
  <2>8. 1 + k \in 1 .. MaxDepth + 1 /\ 1 + k > 1
    BY <2>2
  <2> QED BY <2>5, <2>6, <2>7, <2>8 DEF Places
<1>2. ASSUME NEW p \in Places, Len(p) > 1 PROVE p \in Paths
  <2>1. PICK k \in 1 .. MaxDepth : k = Len(p) - 1
    BY <1>2, PlaceTypes
  <2> DEFINE n == [i \in 1 .. k |-> p[i + 1]]
  <2>2. n \in [1 .. k -> Names]
    <3>1. \A i \in 1 .. k : i + 1 \in 2 .. Len(p)
      BY <2>1, PlaceTypes
    <3> QED BY <3>1, PlaceTypes
  <2>3. n \in Seq(Elements) /\ Len(n) = k
    BY <2>2 DEF Elements
  <2>4. <<p[1]>> \in Seq(Elements) /\ Len(<<p[1]>>) = 1 /\ <<p[1]>>[1] = p[1]
    BY PlaceTypes DEF Elements
  <2>5. /\ <<p[1]>> \o n \in Seq(Elements) /\ Len(<<p[1]>> \o n) = 1 + k
        /\ \A i \in 1 .. 1 + k : (<<p[1]>> \o n)[i] = IF i <= 1 THEN <<p[1]>>[i] ELSE n[i - 1]
    BY ONLY <2>3, <2>4, ConcatProperties
  <2>6. Len(p) = 1 + k /\ p \in Seq(Elements)
    BY <2>1, PlaceTypes
  <2>7. \A i \in 1 .. Len(p) : p[i] = (<<p[1]>> \o n)[i]
    <3>1. SUFFICES ASSUME NEW i \in 1 .. Len(p) PROVE p[i] = (<<p[1]>> \o n)[i]
      OBVIOUS
    <3>2. CASE i = 1
      BY <2>4, <2>5, <2>6, <3>2
    <3>3. CASE i # 1
      <4>1. PICK j \in 1 .. k : j + 1 = i /\ j = i - 1
        <5>1. i - 1 \in 1 .. k /\ i - 1 + 1 = i
          BY <2>6, <3>3
        <5> QED BY <5>1
      <4>2. n[j] = p[i] /\ ~(i <= 1) /\ i \in 1 .. 1 + k
        BY <2>6, <3>3, <4>1
      <4> HIDE DEF n
      <4> QED BY <2>5, <2>6, <4>1, <4>2
    <3> QED BY <3>2, <3>3
  <2>8. p = <<p[1]>> \o n
    <3> HIDE DEF n
    <3> QED BY <2>5, <2>6, <2>7, SeqEqual
  <2>9. p[1] \in Storages
    BY PlaceTypes
  <2> HIDE DEF n
  <2>10. n \in UNION {[1 .. j -> Names] : j \in 1 .. MaxDepth}
    BY <2>2
  <2> DEFINE Tails == UNION {[1 .. j -> Names] : j \in 1 .. MaxDepth}
             Of(s) == {<<s>> \o m : m \in Tails}
  <2>11. p \in Of(p[1])
    BY <2>8, <2>10
  <2>12. Paths = UNION {Of(s) : s \in Storages}
    BY DEF Paths
  <2> HIDE DEF Of, Tails
  <2> QED BY ONLY <2>9, <2>11, <2>12
<1> QED BY <1>1, <1>2

LEMMA RootsArePlaces ==
  ASSUME NEW s \in Storages
  PROVE  <<s>> \in Places /\ Len(<<s>>) = 1 /\ <<s>>[1] = s
<1>1. <<s>> \in Seq(Elements) /\ Len(<<s>>) = 1 /\ <<s>>[1] = s
  BY DEF Elements
<1>2. 1 \in 1 .. MaxDepth + 1 /\ 2 .. 1 = {}
  BY DeviceAssumption
<1> QED BY <1>1, <1>2 DEF Places

(* Prefixes, element by element. *)
LEMMA PrefixIs ==
  ASSUME NEW p \in Seq(Elements), NEW q \in Seq(Elements)
  PROVE  IsPrefix(p, q) <=> Len(p) <= Len(q) /\ \A i \in 1 .. Len(p) : p[i] = q[i]
<1>1. Len(p) \in Nat /\ Len(q) \in Nat /\ \A i \in 1 .. Len(p) : p[i] \in Elements
  BY ElementOfSeq, LenProperties
<1>2. SUFFICES ASSUME Len(p) <= Len(q)
               PROVE  SubSeq(p, 1, Len(p)) = SubSeq(q, 1, Len(p)) <=> \A i \in 1 .. Len(p) : p[i] = q[i]
  BY DEF IsPrefix
<1>3. SubSeq(p, 1, Len(p)) = p
  BY SubSeqFull
<1>4. \A i \in 1 .. Len(p) : i \in 1 .. Len(q) /\ q[i] \in Elements
  <2>1. \A i \in 1 .. Len(p) : i \in 1 .. Len(q)
    BY <1>1, <1>2
  <2> QED BY <2>1, ElementOfSeq
<1>5. /\ SubSeq(q, 1, Len(p)) \in Seq(Elements) /\ Len(SubSeq(q, 1, Len(p))) = Len(p)
      /\ \A i \in 1 .. Len(p) : SubSeq(q, 1, Len(p))[i] = q[i]
  <2>1. /\ SubSeq(q, 1, Len(p)) \in Seq(Elements)
        /\ Len(SubSeq(q, 1, Len(p))) = IF 1 <= Len(p) THEN Len(p) - 1 + 1 ELSE 0
        /\ \A i \in 1 .. Len(p) - 1 + 1 : SubSeq(q, 1, Len(p))[i] = q[1 + i - 1]
    BY <1>1, <1>4, SubSeqProperties
  <2>2. Len(p) - 1 + 1 = Len(p) /\ \A i \in 1 .. Len(p) : 1 + i - 1 = i
    BY <1>1
  <2> QED BY <1>1, <2>1, <2>2
<1>6. (\A i \in 1 .. Len(p) : p[i] = q[i]) => SubSeq(q, 1, Len(p)) = p
  BY <1>5, SeqEqual
<1> QED BY <1>3, <1>5, <1>6

LEMMA PrefixTransitive ==
  ASSUME NEW p \in Seq(Elements), NEW q \in Seq(Elements), NEW r \in Seq(Elements),
         IsPrefix(p, q), IsPrefix(q, r)
  PROVE  IsPrefix(p, r)
<1>1. Len(p) \in Nat /\ Len(q) \in Nat /\ Len(r) \in Nat
  BY LenProperties
<1>2. Len(p) <= Len(q) /\ Len(q) <= Len(r) /\ Len(p) <= Len(r)
  BY <1>1, PrefixIs
<1>3. \A i \in 1 .. Len(p) : i \in 1 .. Len(q)
  BY <1>1, <1>2
<1> QED BY <1>2, <1>3, PrefixIs

LEMMA PrefixReflexive ==
  ASSUME NEW p \in Seq(Elements)
  PROVE  IsPrefix(p, p)
  BY LenProperties, PrefixIs

(* The folder of an entry. *)
LEMMA FrontOf ==
  ASSUME NEW p \in Places, Len(p) > 1
  PROVE  /\ Front(p) \in Places /\ Len(Front(p)) = Len(p) - 1
         /\ \A i \in 1 .. Len(p) - 1 : Front(p)[i] = p[i]
         /\ Front(p)[1] = p[1] /\ IsPrefix(Front(p), p)
<1>1. /\ p \in Seq(Elements) /\ Len(p) \in Nat /\ Len(p) <= MaxDepth + 1 /\ MaxDepth \in Nat
      /\ p[1] \in Storages /\ \A i \in 2 .. Len(p) : p[i] \in Names
      /\ \A i \in 1 .. Len(p) : p[i] \in Elements
  BY PlaceTypes
<1>2. PICK k \in Nat : k = Len(p) - 1
  BY <1>1
<1>3. k >= 1 /\ k <= MaxDepth /\ \A i \in 1 .. k : i \in 1 .. Len(p)
  BY <1>1, <1>2
<1>4. /\ Front(p) \in Seq(Elements) /\ Len(Front(p)) = k /\ \A i \in 1 .. k : Front(p)[i] = p[i]
  <2>1. /\ SubSeq(p, 1, k) \in Seq(Elements)
        /\ Len(SubSeq(p, 1, k)) = IF 1 <= k THEN k - 1 + 1 ELSE 0
        /\ \A i \in 1 .. k - 1 + 1 : SubSeq(p, 1, k)[i] = p[1 + i - 1]
    BY <1>1, <1>2, <1>3, SubSeqProperties
  <2>2. k - 1 + 1 = k /\ \A i \in 1 .. k : 1 + i - 1 = i
    BY <1>2
  <2> QED BY <1>2, <1>3, <2>1, <2>2 DEF Front
<1>5. 1 \in 1 .. k /\ k \in 1 .. MaxDepth + 1 /\ \A i \in 2 .. k : i \in 1 .. k /\ i \in 2 .. Len(p)
  BY <1>1, <1>2, <1>3
<1>6. Front(p) \in Places
  BY <1>1, <1>4, <1>5 DEF Places
<1>7. IsPrefix(Front(p), p)
  BY <1>1, <1>2, <1>4, PrefixIs
<1> QED BY <1>2, <1>4, <1>5, <1>6, <1>7

(* Of a longer path, what is below p is below it in its folder too. *)
LEMMA FrontBelow ==
  ASSUME NEW p \in Places, NEW q \in Places, IsPrefix(p, q)
  PROVE  /\ Len(p) <= Len(q) /\ q[1] = p[1]
         /\ Len(q) > Len(p) => Len(q) > 1 /\ IsPrefix(p, Front(q))
         /\ Len(q) = Len(p) => q = p
         /\ Len(q) > 1 => (IsPrefix(p, Front(q)) => Len(q) > Len(p))
<1>1. /\ Len(p) \in Nat /\ Len(q) \in Nat /\ Len(p) >= 1 /\ Len(q) >= 1
      /\ p \in Seq(Elements) /\ q \in Seq(Elements)
  BY PlaceTypes
<1>2. Len(p) <= Len(q) /\ \A i \in 1 .. Len(p) : p[i] = q[i]
  BY <1>1, PrefixIs
<1>3. q[1] = p[1]
  <2>1. 1 \in 1 .. Len(p)
    BY <1>1
  <2> QED BY <1>2, <2>1
<1>4. ASSUME Len(q) > Len(p) PROVE Len(q) > 1 /\ IsPrefix(p, Front(q))
  <2>1. Len(q) > 1
    BY <1>1, <1>4
  <2>2. /\ Front(q) \in Seq(Elements) /\ Len(Front(q)) = Len(q) - 1
        /\ \A i \in 1 .. Len(q) - 1 : Front(q)[i] = q[i]
    BY <2>1, FrontOf, PlaceTypes
  <2>3. Len(p) <= Len(q) - 1 /\ \A i \in 1 .. Len(p) : i \in 1 .. Len(q) - 1
    BY <1>1, <1>4
  <2> QED BY <1>1, <1>2, <2>1, <2>2, <2>3, PrefixIs
<1>5. Len(q) = Len(p) => q = p
  BY <1>1, <1>2, SeqEqual
<1>6. ASSUME Len(q) > 1, IsPrefix(p, Front(q)) PROVE Len(q) > Len(p)
  <2>1. Front(q) \in Seq(Elements) /\ Len(Front(q)) = Len(q) - 1
    BY <1>6, FrontOf, PlaceTypes
  <2>2. Len(p) <= Len(q) - 1
    BY <1>1, <1>6, <2>1, PrefixIs
  <2> QED BY <1>1, <2>2
<1> QED BY <1>2, <1>3, <1>4, <1>5, <1>6

(* A storage's own entries begin with it. *)
LEMMA BelowRoot ==
  ASSUME NEW s \in Storages, NEW p \in Places
  PROVE  IsPrefix(<<s>>, p) <=> p[1] = s
<1>1. /\ <<s>> \in Seq(Elements) /\ Len(<<s>>) = 1 /\ <<s>>[1] = s
      /\ p \in Seq(Elements) /\ Len(p) \in Nat /\ Len(p) >= 1
  BY RootsArePlaces, PlaceTypes
<1>2. IsPrefix(<<s>>, p) <=> 1 <= Len(p) /\ \A i \in 1 .. 1 : <<s>>[i] = p[i]
  BY <1>1, PrefixIs
<1>3. (\A i \in 1 .. 1 : <<s>>[i] = p[i]) <=> s = p[1]
  BY <1>1
<1> QED BY <1>1, <1>2, <1>3

(* An entry seen from elsewhere, and back. *)
LEMMA RebaseIs ==
  ASSUME NEW p \in Places, NEW q \in Places, NEW r \in Seq(Elements), IsPrefix(p, q)
  PROVE  /\ Rebase(q, p, r) \in Seq(Elements)
         /\ Len(Rebase(q, p, r)) = Len(r) + Len(q) - Len(p)
         /\ \A i \in 1 .. Len(r) : Rebase(q, p, r)[i] = r[i]
         /\ \A i \in Len(p) + 1 .. Len(q) : Rebase(q, p, r)[Len(r) + i - Len(p)] = q[i]
<1>1. /\ Len(p) \in Nat /\ Len(q) \in Nat /\ Len(r) \in Nat /\ Len(p) <= Len(q)
      /\ r \in Seq(Elements) /\ \A i \in 1 .. Len(q) : q[i] \in Elements
  <2>1. Len(r) \in Nat /\ Len(p) <= Len(q)
    BY FrontBelow, LenProperties
  <2> QED BY <2>1, PlaceTypes
<1> DEFINE rest == SubSeq(q, Len(p) + 1, Len(q))
<1>2. /\ rest \in Seq(Elements) /\ Len(rest) = Len(q) - Len(p)
      /\ \A i \in 1 .. Len(q) - Len(p) : rest[i] = q[Len(p) + i]
  <2>1. \A i \in Len(p) + 1 .. Len(q) : q[i] \in Elements
    <3>1. \A i \in Len(p) + 1 .. Len(q) : i \in 1 .. Len(q)
      BY <1>1
    <3> QED BY <1>1, <3>1
  <2>2. Len(p) + 1 \in Int /\ Len(q) \in Int
    BY <1>1
  <2>3. /\ rest \in Seq(Elements)
        /\ Len(rest) = IF Len(p) + 1 <= Len(q) THEN Len(q) - (Len(p) + 1) + 1 ELSE 0
        /\ \A i \in 1 .. Len(q) - (Len(p) + 1) + 1 : rest[i] = q[Len(p) + 1 + i - 1]
    BY <2>1, <2>2, SubSeqProperties
  <2>4. /\ Len(q) - (Len(p) + 1) + 1 = Len(q) - Len(p)
        /\ \A i \in 1 .. Len(q) - Len(p) : Len(p) + 1 + i - 1 = Len(p) + i
        /\ ~(Len(p) + 1 <= Len(q)) => Len(q) - Len(p) = 0
    BY <1>1
  <2> HIDE DEF rest
  <2> QED BY <2>3, <2>4
<1>3. Rebase(q, p, r) = r \o rest
  BY DEF Rebase
<1> HIDE DEF rest
<1>4. /\ r \o rest \in Seq(Elements) /\ Len(r \o rest) = Len(r) + Len(rest)
      /\ \A i \in 1 .. Len(r) + Len(rest) : (r \o rest)[i] = IF i <= Len(r) THEN r[i] ELSE rest[i - Len(r)]
  BY <1>1, <1>2, ConcatProperties
<1>5. Len(r) + Len(rest) = Len(r) + Len(q) - Len(p)
  BY <1>1, <1>2
<1>6. \A i \in 1 .. Len(r) : i \in 1 .. Len(r) + Len(rest) /\ i <= Len(r)
  BY <1>1, <1>2
<1>7. ASSUME NEW i \in Len(p) + 1 .. Len(q) PROVE (r \o rest)[Len(r) + i - Len(p)] = q[i]
  <2>0. i - Len(p) \in Nat
    BY <1>1
  <2>1. PICK j \in Nat : j = i - Len(p)
    BY <2>0
  <2>2. /\ j \in 1 .. Len(q) - Len(p) /\ Len(p) + j = i
        /\ Len(r) + i - Len(p) = Len(r) + j /\ Len(r) + j - Len(r) = j
        /\ ~(Len(r) + j <= Len(r)) /\ Len(r) + j \in 1 .. Len(r) + Len(rest)
    BY <1>1, <1>2, <2>1
  <2>3. rest[j] = q[i]
    BY <1>2, <2>2
  <2>4. (r \o rest)[Len(r) + j] = rest[Len(r) + j - Len(r)]
    BY <1>4, <2>2
  <2> QED BY <2>2, <2>3, <2>4
<1> QED BY <1>3, <1>4, <1>5, <1>6, <1>7

(* A name added to a place. *)
LEMMA Extended ==
  ASSUME NEW p \in Places, NEW name \in Names, Len(p) <= MaxDepth
  PROVE  LET q == p \o <<name>>
         IN  q \in Paths /\ Len(q) = Len(p) + 1 /\ Front(q) = p /\ q[1] = p[1]
<1>1. /\ p \in Seq(Elements) /\ Len(p) \in Nat /\ Len(p) >= 1 /\ p[1] \in Storages
      /\ MaxDepth \in Nat /\ \A i \in 2 .. Len(p) : p[i] \in Names
  BY PlaceTypes
<1>2. <<name>> \in Seq(Elements) /\ Len(<<name>>) = 1 /\ <<name>>[1] = name
  BY DEF Elements
<1> DEFINE q == p \o <<name>>
<1>3. /\ q \in Seq(Elements) /\ Len(q) = Len(p) + 1
      /\ \A i \in 1 .. Len(p) + 1 : q[i] = IF i <= Len(p) THEN p[i] ELSE <<name>>[i - Len(p)]
  BY <1>1, <1>2, ConcatProperties
<1>4. (\A i \in 1 .. Len(p) : q[i] = p[i]) /\ q[Len(p) + 1] = name
  <2>1. \A i \in 1 .. Len(p) : i \in 1 .. Len(p) + 1 /\ i <= Len(p)
    BY <1>1
  <2>2. Len(p) + 1 \in 1 .. Len(p) + 1 /\ ~(Len(p) + 1 <= Len(p)) /\ Len(p) + 1 - Len(p) = 1
    BY <1>1
  <2> HIDE DEF q
  <2> QED BY <1>2, <1>3, <2>1, <2>2
<1> HIDE DEF q
<1>5. q[1] = p[1]
  BY <1>1, <1>4
<1>6. \A i \in 2 .. Len(q) : q[i] \in Names
  <2>1. \A i \in 2 .. Len(p) + 1 : (i \in 1 .. Len(p) /\ i \in 2 .. Len(p)) \/ i = Len(p) + 1
    BY <1>1
  <2> QED BY <1>1, <1>3, <1>4, <2>1
<1>7. Len(q) \in 1 .. MaxDepth + 1 /\ Len(q) > 1
  BY <1>1, <1>3
<1>8. q \in Places
  BY <1>1, <1>3, <1>5, <1>6, <1>7 DEF Places
<1>9. Front(q) = p
  <2>1. /\ Front(q) \in Seq(Elements) /\ Len(Front(q)) = Len(q) - 1
        /\ \A i \in 1 .. Len(q) - 1 : Front(q)[i] = q[i]
    BY <1>7, <1>8, FrontOf, PlaceTypes
  <2>2. Len(q) - 1 = Len(p)
    BY <1>1, <1>3
  <2> QED BY <1>1, <1>4, <2>1, <2>2, SeqEqual
<1> QED BY <1>3, <1>5, <1>7, <1>8, <1>9, PathsArePlaces DEF q

(* The same names on another storage. *)
LEMMA Transplanted ==
  ASSUME NEW p \in Places, NEW s \in Storages
  PROVE  <<s>> \o Tail(p) \in Places /\ (<<s>> \o Tail(p))[1] = s
<1>1. /\ p \in Seq(Elements) /\ p # <<>> /\ Len(p) \in Nat /\ Len(p) >= 1
      /\ Len(p) <= MaxDepth + 1 /\ MaxDepth \in Nat
      /\ \A i \in 2 .. Len(p) : p[i] \in Names
  BY PlaceTypes
<1>2. /\ Tail(p) \in Seq(Elements) /\ Len(Tail(p)) = Len(p) - 1
      /\ \A i \in 1 .. Len(p) - 1 : Tail(p)[i] = p[i + 1]
  BY <1>1, HeadTailProperties
<1>3. <<s>> \in Seq(Elements) /\ Len(<<s>>) = 1 /\ <<s>>[1] = s
  BY DEF Elements
<1> DEFINE q == <<s>> \o Tail(p)
<1>4. /\ q \in Seq(Elements) /\ Len(q) = 1 + Len(Tail(p))
      /\ \A i \in 1 .. 1 + Len(Tail(p)) : q[i] = IF i <= 1 THEN <<s>>[i] ELSE Tail(p)[i - 1]
  BY <1>2, <1>3, ConcatProperties
<1> HIDE DEF q
<1>5. Len(q) = Len(p) /\ 1 + Len(Tail(p)) = Len(p)
  BY <1>1, <1>2, <1>4
<1>6. q[1] = s
  BY <1>1, <1>3, <1>4, <1>5
<1>7. \A i \in 2 .. Len(q) : q[i] \in Names
  <2>1. SUFFICES ASSUME NEW i \in 2 .. Len(p) PROVE q[i] \in Names
    BY <1>5
  <2>2. PICK j \in 1 .. Len(p) - 1 : j + 1 = i /\ j = i - 1
    <3>1. i - 1 \in 1 .. Len(p) - 1 /\ i - 1 + 1 = i
      BY <1>1
    <3> QED BY <3>1
  <2>3. i \in 1 .. 1 + Len(Tail(p)) /\ ~(i <= 1)
    BY <1>1, <1>5
  <2>4. q[i] = p[i]
    BY <1>2, <1>4, <2>2, <2>3
  <2> QED BY <1>1, <2>4
<1> QED BY <1>1, <1>4, <1>5, <1>6, <1>7 DEF Places, q

(* What is seen from another place is a path if it is not too deep. *)
LEMMA RebasedPlace ==
  ASSUME NEW p \in Paths, NEW q \in Places, NEW r \in Paths, IsPrefix(p, q),
         Len(r) + Len(q) - Len(p) <= MaxDepth + 1
  PROVE  Rebase(q, p, r) \in Paths
<1>1. /\ p \in Places /\ r \in Places /\ Len(p) > 1 /\ Len(r) > 1
  BY PathsArePlaces
<1>2. /\ Len(p) \in Nat /\ Len(q) \in Nat /\ Len(r) \in Nat /\ Len(p) <= Len(q)
      /\ r \in Seq(Elements) /\ r[1] \in Storages /\ MaxDepth \in Nat
      /\ \A i \in 2 .. Len(r) : r[i] \in Names
      /\ \A i \in 2 .. Len(q) : q[i] \in Names
  BY <1>1, PlaceTypes, FrontBelow
<1>3. PICK b : b = Rebase(q, p, r)
  OBVIOUS
<1>4. /\ b \in Seq(Elements) /\ Len(b) = Len(r) + Len(q) - Len(p)
      /\ \A i \in 1 .. Len(r) : b[i] = r[i]
      /\ \A i \in Len(p) + 1 .. Len(q) : b[Len(r) + i - Len(p)] = q[i]
  <2>1. p \in Places /\ q \in Places /\ r \in Seq(Elements) /\ IsPrefix(p, q)
    BY <1>1, <1>2
  <2> QED BY ONLY <1>3, <2>1, RebaseIs
<1>5. b[1] = r[1] /\ Len(b) \in 1 .. MaxDepth + 1 /\ Len(b) > 1
  BY <1>1, <1>2, <1>4
<1>6. ASSUME NEW i \in 2 .. Len(b) PROVE b[i] \in Names
  <2>1. CASE i <= Len(r)
    <3>1. i \in 1 .. Len(r) /\ i \in 2 .. Len(r)
      BY <1>2, <1>6, <2>1
    <3> QED BY <1>2, <1>4, <3>1
  <2>2. CASE i > Len(r)
    <3>1. /\ i - Len(r) + Len(p) \in Len(p) + 1 .. Len(q)
          /\ Len(r) + (i - Len(r) + Len(p)) - Len(p) = i
      BY <1>2, <1>4, <2>2
    <3>2. PICK j \in Len(p) + 1 .. Len(q) : Len(r) + j - Len(p) = i
      BY <3>1
    <3>3. b[i] = q[j]
      BY <1>4, <3>2
    <3>4. j \in 2 .. Len(q)
      BY <1>1, <1>2, <3>2
    <3> QED BY <1>2, <3>3, <3>4
  <2> QED BY <1>2, <1>4, <2>1, <2>2
<1>7. b \in Places
  BY <1>2, <1>4, <1>5, <1>6 DEF Places
<1> QED BY <1>3, <1>5, <1>7, PathsArePlaces

(* What is seen from r is below it, and is seen as it was from where it came. *)
LEMMA Rebased ==
  ASSUME NEW p \in Places, NEW q \in Places, NEW r \in Places, IsPrefix(p, q),
         Rebase(q, p, r) \in Places
  PROVE  /\ IsPrefix(r, Rebase(q, p, r)) /\ Rebase(q, p, r)[1] = r[1]
         /\ Rebase(Rebase(q, p, r), r, p) = q
         /\ q = p => Rebase(q, p, r) = r
         /\ q # p => /\ Len(q) > 1 /\ IsPrefix(p, Front(q))
                     /\ Len(Rebase(q, p, r)) > Len(r) /\ Len(Rebase(q, p, r)) > 1
                     /\ Front(Rebase(q, p, r)) = Rebase(Front(q), p, r)
<1>1. PICK b \in Places : b = Rebase(q, p, r)
  OBVIOUS
<1>2. /\ Len(p) \in Nat /\ Len(q) \in Nat /\ Len(r) \in Nat /\ Len(b) \in Nat /\ Len(p) <= Len(q)
      /\ Len(p) >= 1 /\ Len(r) >= 1
      /\ p \in Seq(Elements) /\ q \in Seq(Elements) /\ r \in Seq(Elements) /\ b \in Seq(Elements)
  BY <1>1, PlaceTypes, FrontBelow
<1>3. /\ Len(b) = Len(r) + Len(q) - Len(p)
      /\ \A i \in 1 .. Len(r) : b[i] = r[i]
      /\ \A i \in Len(p) + 1 .. Len(q) : b[Len(r) + i - Len(p)] = q[i]
  <2>1. p \in Places /\ q \in Places /\ r \in Seq(Elements) /\ IsPrefix(p, q)
    BY <1>2
  <2>2. /\ Rebase(q, p, r) \in Seq(Elements)
        /\ Len(Rebase(q, p, r)) = Len(r) + Len(q) - Len(p)
        /\ \A i \in 1 .. Len(r) : Rebase(q, p, r)[i] = r[i]
        /\ \A i \in Len(p) + 1 .. Len(q) : Rebase(q, p, r)[Len(r) + i - Len(p)] = q[i]
    BY ONLY <2>1, RebaseIs
  <2> QED BY <1>1, <2>2
<1>4. Len(r) <= Len(b)
  BY <1>2, <1>3
<1>5. IsPrefix(r, b)
  BY <1>2, <1>3, <1>4, PrefixIs
<1>6. b[1] = r[1]
  BY <1>2, <1>3
<1>7. Rebase(b, r, p) = q
  <2>1. PICK c : c = Rebase(b, r, p)
    OBVIOUS
  <2>2. /\ c \in Seq(Elements) /\ Len(c) = Len(p) + Len(b) - Len(r)
        /\ \A i \in 1 .. Len(p) : c[i] = p[i]
        /\ \A i \in Len(r) + 1 .. Len(b) : c[Len(p) + i - Len(r)] = b[i]
    <3>1. r \in Places /\ b \in Places /\ p \in Seq(Elements) /\ IsPrefix(r, b)
      BY <1>2, <1>5
    <3>2. /\ Rebase(b, r, p) \in Seq(Elements)
          /\ Len(Rebase(b, r, p)) = Len(p) + Len(b) - Len(r)
          /\ \A i \in 1 .. Len(p) : Rebase(b, r, p)[i] = p[i]
          /\ \A i \in Len(r) + 1 .. Len(b) : Rebase(b, r, p)[Len(p) + i - Len(r)] = b[i]
      BY ONLY <3>1, RebaseIs
    <3> QED BY <2>1, <3>2
  <2>3. Len(c) = Len(q)
    BY <1>2, <1>3, <2>2
  <2>4. \A i \in 1 .. Len(p) : p[i] = q[i]
    BY <1>2, PrefixIs
  <2>5. ASSUME NEW i \in 1 .. Len(q) PROVE c[i] = q[i]
    <3>1. CASE i <= Len(p)
      <4>1. i \in 1 .. Len(p)
        BY <1>2, <3>1
      <4> QED BY <2>2, <2>4, <4>1
    <3>2. CASE i > Len(p)
      <4>1. /\ i \in Len(p) + 1 .. Len(q)
            /\ Len(r) + i - Len(p) \in Len(r) + 1 .. Len(b)
            /\ Len(p) + (Len(r) + i - Len(p)) - Len(r) = i
        BY <1>2, <1>3, <3>2
      <4>2. PICK j \in Len(r) + 1 .. Len(b) : j = Len(r) + i - Len(p) /\ Len(p) + j - Len(r) = i
        BY <4>1
      <4>3. b[j] = q[i] /\ c[i] = b[j]
        BY <1>3, <2>2, <4>1, <4>2
      <4> QED BY <4>3
    <3> QED BY <1>2, <3>1, <3>2
  <2> QED BY <1>2, <2>1, <2>2, <2>3, <2>5, SeqEqual
<1>8. ASSUME q = p PROVE b = r
  <2>1. Len(b) = Len(r)
    BY <1>2, <1>3, <1>8
  <2> QED BY <1>2, <1>3, <2>1, SeqEqual
<1>9. ASSUME q # p
      PROVE  /\ Len(q) > 1 /\ IsPrefix(p, Front(q)) /\ Len(b) > Len(r) /\ Len(b) > 1
             /\ Front(b) = Rebase(Front(q), p, r)
  <2>1. Len(q) > Len(p)
    BY <1>2, <1>9, FrontBelow
  <2>2. Len(q) > 1 /\ IsPrefix(p, Front(q)) /\ Len(b) > Len(r) /\ Len(b) > 1
    BY <1>2, <1>3, <2>1, FrontBelow
  <2>3. /\ Front(q) \in Places /\ Len(Front(q)) = Len(q) - 1
        /\ \A i \in 1 .. Len(q) - 1 : Front(q)[i] = q[i]
    BY <2>2, FrontOf
  <2>4. PICK c : c = Rebase(Front(q), p, r)
    OBVIOUS
  <2>5. /\ c \in Seq(Elements) /\ Len(c) = Len(r) + Len(Front(q)) - Len(p)
        /\ \A i \in 1 .. Len(r) : c[i] = r[i]
        /\ \A i \in Len(p) + 1 .. Len(Front(q)) : c[Len(r) + i - Len(p)] = Front(q)[i]
    <3>1. p \in Places /\ Front(q) \in Places /\ r \in Seq(Elements) /\ IsPrefix(p, Front(q))
      BY <1>2, <2>2, <2>3
    <3>2. /\ Rebase(Front(q), p, r) \in Seq(Elements)
          /\ Len(Rebase(Front(q), p, r)) = Len(r) + Len(Front(q)) - Len(p)
          /\ \A i \in 1 .. Len(r) : Rebase(Front(q), p, r)[i] = r[i]
          /\ \A i \in Len(p) + 1 .. Len(Front(q)) : Rebase(Front(q), p, r)[Len(r) + i - Len(p)] = Front(q)[i]
      BY ONLY <3>1, RebaseIs
    <3> QED BY <2>4, <3>2
  <2>6. /\ Front(b) \in Seq(Elements) /\ Len(Front(b)) = Len(b) - 1
        /\ \A i \in 1 .. Len(b) - 1 : Front(b)[i] = b[i]
    BY <2>2, FrontOf, PlaceTypes
  <2>7. Len(c) = Len(b) - 1
    BY <1>2, <1>3, <2>3, <2>5
  <2>8. ASSUME NEW i \in 1 .. Len(b) - 1 PROVE c[i] = b[i]
    <3>1. CASE i <= Len(r)
      <4>1. i \in 1 .. Len(r)
        BY <1>2, <3>1
      <4> QED BY <1>3, <2>5, <4>1
    <3>2. CASE i > Len(r)
      <4>1. /\ i - Len(r) + Len(p) \in Len(p) + 1 .. Len(q) - 1
            /\ Len(r) + (i - Len(r) + Len(p)) - Len(p) = i
        BY <1>2, <1>3, <3>2
      <4>2. PICK j \in Len(p) + 1 .. Len(q) - 1 : Len(r) + j - Len(p) = i
        BY <4>1
      <4>3. j \in Len(p) + 1 .. Len(q) /\ j \in Len(p) + 1 .. Len(Front(q)) /\ j \in 1 .. Len(q) - 1
        BY <1>2, <2>3, <4>2
      <4>4. b[i] = q[j] /\ c[i] = Front(q)[j] /\ Front(q)[j] = q[j]
        BY <1>3, <2>3, <2>5, <4>2, <4>3
      <4> QED BY <4>4
    <3> QED BY <1>2, <3>1, <3>2
  <2>9. Front(b) = c
    BY <2>5, <2>6, <2>7, <2>8, SeqEqual
  <2> QED BY <2>2, <2>4, <2>9
<1> QED BY <1>1, <1>5, <1>6, <1>7, <1>8, <1>9
-----------------------------------------------------------------------------
(* Trees *)

(* A tree without what is at and below a path. *)
LEMMA CutTree ==
  ASSUME NEW t, Tree(t), NEW p \in Places
  PROVE  /\ Tree(Cut(t, p)) /\ DOMAIN Cut(t, p) = DOMAIN t \ Below(t, p)
         /\ \A q \in DOMAIN Cut(t, p) : Cut(t, p)[q] = t[q]
         /\ \A s \in Storages : s # p[1] => SameOn(s, t, Cut(t, p))
<1>1. /\ DOMAIN Cut(t, p) = DOMAIN t \ Below(t, p)
      /\ \A q \in DOMAIN Cut(t, p) : Cut(t, p)[q] = t[q]
  BY DEF Cut
<1>2. IsFiniteSet(DOMAIN Cut(t, p)) /\ DOMAIN Cut(t, p) \subseteq Places
  <2>1. DOMAIN Cut(t, p) \in SUBSET DOMAIN t
    BY <1>1
  <2> QED BY <2>1, FS_Subset DEF Tree
<1>3. ASSUME NEW q \in DOMAIN Cut(t, p), Len(q) > 1 PROVE IsDir(Cut(t, p), Front(q))
  <2>1. q \in DOMAIN t /\ ~IsPrefix(p, q) /\ q \in Places
    BY <1>1, <1>2 DEF Below
  <2>2. Front(q) \in Places /\ IsPrefix(Front(q), q)
    BY <1>3, <2>1, FrontOf
  <2>3. ~IsPrefix(p, Front(q))
    BY <2>1, <2>2, PrefixTransitive, PlaceTypes
  <2>4. IsDir(t, Front(q))
    BY <1>3, <2>1 DEF Tree
  <2>5. Front(q) \in DOMAIN Cut(t, p)
    BY <1>1, <2>3, <2>4 DEF IsDir, Has, Below
  <2> QED BY <1>1, <2>4, <2>5 DEF IsDir, Has
<1>4. ASSUME NEW s \in Storages, s # p[1] PROVE SameOn(s, t, Cut(t, p))
  <2>1. \A q \in DOMAIN t : IsPrefix(<<s>>, q) => ~IsPrefix(p, q)
    <3>1. SUFFICES ASSUME NEW q \in DOMAIN t, IsPrefix(<<s>>, q), IsPrefix(p, q) PROVE FALSE
      OBVIOUS
    <3>2. q \in Places
      BY DEF Tree
    <3> QED BY <1>4, <3>1, <3>2, BelowRoot, FrontBelow
  <2>2. Below(Cut(t, p), <<s>>) = Below(t, <<s>>)
    BY <1>1, <2>1 DEF Below
  <2>3. \A q \in Below(t, <<s>>) : q \in DOMAIN Cut(t, p)
    BY <2>2 DEF Below
  <2> QED BY <1>1, <2>2, <2>3 DEF SameOn
<1> QED BY <1>1, <1>2, <1>3, <1>4 DEF Tree

(* A tree with one entry more, or with another one in its place. *)
LEMMA PutTree ==
  ASSUME NEW t, Tree(t), NEW p \in Places, NEW item,
         Len(p) > 1 => IsDir(t, Front(p)), IsDir(t, p) => item.dir
  PROVE  /\ Tree(Extend(t, p, item))
         /\ \A s \in Storages : s # p[1] => SameOn(s, t, Extend(t, p, item))
<1> DEFINE u == Extend(t, p, item)
<1>1. /\ DOMAIN u = DOMAIN t \cup {p} /\ u[p] = item
      /\ \A q \in DOMAIN t : q # p => u[q] = t[q]
  BY DEF Extend
<1> HIDE DEF u
<1>2. IsFiniteSet(DOMAIN u) /\ DOMAIN u \subseteq Places
  BY <1>1, FS_AddElement DEF Tree
<1>3. ASSUME NEW q \in DOMAIN u, Len(q) > 1 PROVE IsDir(u, Front(q))
  <2>1. IsDir(t, Front(q))
    BY <1>1, <1>3 DEF Tree
  <2> QED BY <1>1, <2>1 DEF IsDir, Has
<1>4. ASSUME NEW s \in Storages, s # p[1] PROVE SameOn(s, t, u)
  <2>1. ~IsPrefix(<<s>>, p)
    BY <1>4, BelowRoot
  <2>2. Below(u, <<s>>) = Below(t, <<s>>) /\ p \notin Below(t, <<s>>)
    BY <1>1, <2>1 DEF Below
  <2> QED BY <1>1, <2>2 DEF SameOn, Below
<1> QED BY <1>2, <1>3, <1>4 DEF Tree, u

(* The entries at and below p, seen from r. *)
Seen(S, p, r) == {Rebase(q, p, r) : q \in S}

LEMMA SeenFrom ==
  ASSUME NEW t, Tree(t), NEW p \in Places, NEW r \in Places, NEW S \in SUBSET Below(t, p),
         \A q \in Below(t, p) : Rebase(q, p, r) \in Places
  PROVE  /\ IsFiniteSet(Seen(S, p, r)) /\ Seen(S, p, r) \subseteq Places
         /\ \A b \in Seen(S, p, r) : /\ Rebase(b, r, p) \in S /\ IsPrefix(r, b) /\ b[1] = r[1]
                                     /\ b = Rebase(Rebase(b, r, p), p, r)
         /\ \A q \in S : /\ q \in Places /\ IsPrefix(p, q) /\ q \in DOMAIN t
                         /\ Rebase(q, p, r) \in Seen(S, p, r) /\ Rebase(Rebase(q, p, r), r, p) = q
<1> DEFINE R == {Rebase(q, p, r) : q \in S}
<1>1. ASSUME NEW q \in S
      PROVE  /\ q \in Places /\ IsPrefix(p, q) /\ q \in DOMAIN t /\ Rebase(q, p, r) \in Places
             /\ Rebase(Rebase(q, p, r), r, p) = q
             /\ IsPrefix(r, Rebase(q, p, r)) /\ Rebase(q, p, r)[1] = r[1]
  <2>1. q \in Places /\ IsPrefix(p, q) /\ q \in DOMAIN t /\ Rebase(q, p, r) \in Places
    BY <1>1 DEF Below, Tree
  <2> QED BY <2>1, Rebased
<1>2. IsFiniteSet(R)
  <2>1. IsFiniteSet(S)
    <3>1. S \in SUBSET DOMAIN t
      BY DEF Below
    <3> QED BY <3>1, FS_Subset DEF Tree
  <2> DEFINE f == [q \in S |-> Rebase(q, p, r)]
  <2>2. f \in Surjection(S, R)
    BY DEF Surjection
  <2> QED BY <2>1, <2>2, FS_Surjection
<1>3. ASSUME NEW b \in R
      PROVE  /\ b \in Places /\ Rebase(b, r, p) \in S /\ IsPrefix(r, b) /\ b[1] = r[1]
             /\ b = Rebase(Rebase(b, r, p), p, r)
  <2>1. PICK q \in S : b = Rebase(q, p, r)
    BY <1>3
  <2> QED BY <1>1, <2>1
<1>4. R = Seen(S, p, r) /\ \A q \in S : Rebase(q, p, r) \in R
  BY DEF Seen
<1> HIDE DEF R
<1> QED BY <1>1, <1>2, <1>3, <1>4

(* A tree in which an entry has moved with all below it. *)
LEMMA RenamedTree ==
  ASSUME NEW t, Tree(t), NEW p \in Places, NEW r \in Places, Len(r) > 1, CanRename(t, p, r),
         \A q \in Below(t, p) : Rebase(q, p, r) \in Places
  PROVE  /\ Tree(Renamed(t, p, r))
         /\ \A s \in Storages : s # p[1] /\ s # r[1] => SameOn(s, t, Renamed(t, p, r))
<1> DEFINE R == Seen(Below(t, p), p, r)
           moved == [q \in R |-> t[Rebase(q, r, p)]]
           rest == Cut(Cut(t, p), r)
           u == Renamed(t, p, r)
<1>1. /\ IsFiniteSet(R) /\ R \subseteq Places
      /\ \A b \in R : /\ Rebase(b, r, p) \in Below(t, p) /\ IsPrefix(r, b) /\ b[1] = r[1]
                      /\ b = Rebase(Rebase(b, r, p), p, r)
      /\ \A q \in Below(t, p) : /\ q \in Places /\ IsPrefix(p, q) /\ q \in DOMAIN t
                                /\ Rebase(q, p, r) \in R /\ Rebase(Rebase(q, p, r), r, p) = q
  <2>1. Below(t, p) \in SUBSET Below(t, p)
    OBVIOUS
  <2> QED BY <2>1, SeenFrom
<1>2. /\ Tree(rest) /\ DOMAIN rest = (DOMAIN t \ Below(t, p)) \ Below(Cut(t, p), r)
      /\ \A q \in DOMAIN rest : rest[q] = t[q]
      /\ \A s \in Storages : s # p[1] /\ s # r[1] => SameOn(s, t, rest)
  <2>1. /\ Tree(Cut(t, p)) /\ DOMAIN Cut(t, p) = DOMAIN t \ Below(t, p)
        /\ \A q \in DOMAIN Cut(t, p) : Cut(t, p)[q] = t[q]
        /\ \A s \in Storages : s # p[1] => SameOn(s, t, Cut(t, p))
    BY CutTree
  <2>2. /\ Tree(rest) /\ DOMAIN rest = DOMAIN Cut(t, p) \ Below(Cut(t, p), r)
        /\ \A q \in DOMAIN rest : rest[q] = Cut(t, p)[q]
        /\ \A s \in Storages : s # r[1] => SameOn(s, Cut(t, p), rest)
    BY <2>1, CutTree
  <2>3. \A s \in Storages : s # p[1] /\ s # r[1] => SameOn(s, t, rest)
    BY <2>1, <2>2 DEF SameOn
  <2> QED BY <2>1, <2>2, <2>3
<1>3. DOMAIN rest = {q \in DOMAIN t : ~IsPrefix(p, q) /\ ~IsPrefix(r, q)}
  <2>1. DOMAIN Cut(t, p) = DOMAIN t \ Below(t, p)
    BY CutTree
  <2> QED BY <1>2, <2>1 DEF Below
<1>4. /\ DOMAIN u = R \cup DOMAIN rest
      /\ \A q \in R : u[q] = t[Rebase(q, r, p)]
      /\ \A q \in DOMAIN rest : u[q] = t[q]
  <2>1. u = Over(moved, rest)
    BY DEF Renamed, Seen
  <2>2. DOMAIN moved = R /\ \A q \in R : moved[q] = t[Rebase(q, r, p)]
    OBVIOUS
  <2>3. \A q \in DOMAIN rest : q \notin R
    BY <1>1, <1>3
  <2> HIDE DEF moved, rest, R, u
  <2> QED BY <1>2, <2>1, <2>2, <2>3 DEF Over
<1> HIDE DEF u, rest, moved, R
<1>5. IsFiniteSet(DOMAIN u) /\ DOMAIN u \subseteq Places
  <2>1. IsFiniteSet(DOMAIN rest) /\ DOMAIN rest \subseteq Places
    BY <1>2 DEF Tree
  <2>2. IsFiniteSet(R) /\ R \subseteq Places
    BY <1>1
  <2>3. IsFiniteSet(R \cup DOMAIN rest)
    BY ONLY <2>1, <2>2, FS_Union
  <2> QED BY <1>4, <2>1, <2>2, <2>3
<1>6. Front(r) \in DOMAIN rest /\ t[Front(r)].dir
  <2>1. IsDir(t, Front(r)) /\ (p = r \/ ~IsPrefix(p, r))
    BY DEF CanRename
  <2>2. Front(r) \in Places /\ IsPrefix(Front(r), r)
    BY FrontOf
  <2>3. ~IsPrefix(r, Front(r))
    <3>1. IsPrefix(r, r)
      BY PrefixReflexive, PlaceTypes
    <3> QED BY <3>1, FrontBelow, PlaceTypes
  <2>4. ~IsPrefix(p, Front(r))
    BY <2>1, <2>2, <2>3, PrefixTransitive, PlaceTypes
  <2> QED BY <1>3, <2>1, <2>3, <2>4 DEF IsDir, Has
<1>7. ASSUME NEW q \in DOMAIN u, Len(q) > 1 PROVE IsDir(u, Front(q))
  <2>1. CASE q \in R
    <3>1. PICK x \in Below(t, p) : x = Rebase(q, r, p) /\ q = Rebase(x, p, r)
      BY <1>1, <2>1
    <3>2. x \in Places /\ IsPrefix(p, x) /\ x \in DOMAIN t /\ q \in Places
      BY <1>1, <2>1, <3>1
    <3>3. CASE x = p
      <4>1. q = r
        BY <3>1, <3>2, <3>3, Rebased
      <4> QED BY <1>4, <1>6, <4>1 DEF IsDir, Has
    <3>4. CASE x # p
      <4>1. Len(x) > 1 /\ IsPrefix(p, Front(x)) /\ Front(q) = Rebase(Front(x), p, r)
        BY <3>1, <3>2, <3>4, Rebased
      <4>2. IsDir(t, Front(x))
        BY <3>2, <4>1 DEF Tree
      <4>3. Front(x) \in Below(t, p)
        BY <4>1, <4>2 DEF Below, IsDir, Has
      <4>4. Front(q) \in R /\ Rebase(Front(q), r, p) = Front(x)
        BY <1>1, <4>1, <4>3
      <4> QED BY <1>4, <4>2, <4>4 DEF IsDir, Has
    <3> QED BY <3>3, <3>4
  <2>2. CASE q \in DOMAIN rest
    <3>1. IsDir(rest, Front(q))
      BY <1>2, <1>7, <2>2 DEF Tree
    <3> QED BY <1>2, <1>4, <3>1 DEF IsDir, Has
  <2> QED BY <1>4, <1>7, <2>1, <2>2
<1>8. ASSUME NEW s \in Storages, s # p[1], s # r[1] PROVE SameOn(s, t, u)
  <2>1. \A b \in R : ~IsPrefix(<<s>>, b)
    BY <1>1, <1>8, BelowRoot
  <2>2. SameOn(s, t, rest)
    BY <1>2, <1>8
  <2>3. Below(u, <<s>>) = Below(rest, <<s>>)
    BY <1>4, <2>1 DEF Below
  <2>4. \A q \in Below(t, <<s>>) : q \in DOMAIN rest
    BY <2>2 DEF SameOn, Below
  <2> QED BY <1>4, <2>2, <2>3, <2>4 DEF SameOn
<1> QED BY <1>5, <1>7, <1>8 DEF Tree, u

(* A tree into which entries of p have been copied, each with the folders it *)
(* was in, and none over an entry of the other kind.                         *)
LEMMA CopiedTree ==
  ASSUME NEW t, Tree(t), NEW p \in Places, NEW r \in Places, NEW S \in SUBSET Below(t, p),
         \A q \in Below(t, p) : Rebase(q, p, r) \in Places,
         \A q \in S : Copies(t, p, r, q) /\ IsDir(t, Front(r)) /\ (q = p \/ Front(q) \in S)
  PROVE  /\ Tree(Copied(t, p, r, S))
         /\ DOMAIN Copied(t, p, r, S) = DOMAIN t \cup Seen(S, p, r)
         /\ \A s \in Storages : s # r[1] => SameOn(s, t, Copied(t, p, r, S))
<1> DEFINE R == Seen(S, p, r)
           item(b) == LET new == t[Rebase(b, r, p)]
                      IN  IF IsFile(t, b) /\ ~new.dir THEN File(InPlace(t[b].data, new.data)) ELSE new
           copies == [b \in R |-> item(b)]
           u == Copied(t, p, r, S)
<1>1. /\ IsFiniteSet(R) /\ R \subseteq Places
      /\ \A b \in R : /\ Rebase(b, r, p) \in S /\ IsPrefix(r, b) /\ b[1] = r[1]
                      /\ b = Rebase(Rebase(b, r, p), p, r)
      /\ \A q \in S : /\ q \in Places /\ IsPrefix(p, q) /\ q \in DOMAIN t
                      /\ Rebase(q, p, r) \in R /\ Rebase(Rebase(q, p, r), r, p) = q
  BY SeenFrom
<1>2. \A b \in R : t[Rebase(b, r, p)].dir => item(b).dir
  OBVIOUS
<1>3. /\ DOMAIN u = DOMAIN t \cup R
      /\ \A b \in R : u[b] = item(b)
      /\ \A b \in DOMAIN t : b \notin R => u[b] = t[b]
  <2>1. u = Over(copies, t)
    BY DEF Copied, Seen
  <2>2. DOMAIN copies = R /\ \A b \in R : copies[b] = item(b)
    OBVIOUS
  <2> HIDE DEF copies, R, u, item
  <2> QED BY <2>1, <2>2 DEF Over
<1> HIDE DEF u, copies, R, item
<1>4. IsFiniteSet(DOMAIN u) /\ DOMAIN u \subseteq Places
  <2>1. IsFiniteSet(DOMAIN t) /\ DOMAIN t \subseteq Places
    BY DEF Tree
  <2>2. IsFiniteSet(R) /\ R \subseteq Places
    BY <1>1
  <2>3. IsFiniteSet(R \cup DOMAIN t)
    BY ONLY <2>1, <2>2, FS_Union
  <2>4. DOMAIN t \cup R = R \cup DOMAIN t
    OBVIOUS
  <2> QED BY <1>3, <2>1, <2>2, <2>3, <2>4
<1>5. ASSUME NEW b, IsDir(t, b) PROVE IsDir(u, b)
  <2>1. CASE b \notin R
    BY <1>3, <1>5, <2>1 DEF IsDir, Has
  <2>2. CASE b \in R
    <3>1. PICK x \in S : x = Rebase(b, r, p) /\ b = Rebase(x, p, r)
      BY <1>1, <2>2
    <3>2. IsDir(t, x)
      BY <1>5, <3>1 DEF Copies, IsDir, Has
    <3> QED BY <1>2, <1>3, <2>2, <3>1, <3>2 DEF IsDir, Has
  <2> QED BY <2>1, <2>2
<1>6. ASSUME NEW q \in DOMAIN u, Len(q) > 1 PROVE IsDir(u, Front(q))
  <2>1. CASE q \in R
    <3>1. PICK x \in S : x = Rebase(q, r, p) /\ q = Rebase(x, p, r)
      BY <1>1, <2>1
    <3>2. x \in Places /\ IsPrefix(p, x) /\ x \in DOMAIN t /\ q \in Places
      BY <1>1, <2>1, <3>1
    <3>3. CASE x = p
      <4>1. q = r
        BY <3>1, <3>2, <3>3, Rebased
      <4> QED BY <1>5, <3>1, <4>1
    <3>4. CASE x # p
      <4>1. Len(x) > 1 /\ Front(q) = Rebase(Front(x), p, r)
        BY <3>1, <3>2, <3>4, Rebased
      <4>2. IsDir(t, Front(x)) /\ Front(x) \in S
        BY <3>2, <3>4, <4>1 DEF Tree
      <4>3. Front(q) \in R /\ Rebase(Front(q), r, p) = Front(x)
        BY <1>1, <4>1, <4>2
      <4> QED BY <1>2, <1>3, <4>2, <4>3 DEF IsDir, Has
    <3> QED BY <3>3, <3>4
  <2>2. CASE q \in DOMAIN t
    BY <1>5, <1>6, <2>2 DEF Tree
  <2> QED BY <1>3, <2>1, <2>2
<1>7. ASSUME NEW s \in Storages, s # r[1] PROVE SameOn(s, t, u)
  <2>1. \A b \in R : ~IsPrefix(<<s>>, b)
    BY <1>1, <1>7, BelowRoot
  <2>2. Below(u, <<s>>) = Below(t, <<s>>) /\ \A b \in Below(t, <<s>>) : b \notin R
    BY <1>3, <2>1 DEF Below
  <2> QED BY <1>3, <2>2 DEF SameOn, Below
<1> QED BY <1>3, <1>4, <1>6, <1>7 DEF Tree, u, R

(* A whole copy, and one that stopped half way. *)
LEMMA WholeCopy ==
  ASSUME NEW t, Tree(t), NEW p \in Places, NEW r \in Places, CanCopy(t, p, r),
         \A q \in Below(t, p) : Rebase(q, p, r) \in Places
  PROVE  /\ Tree(Copied(t, p, r, Below(t, p)))
         /\ \A s \in Storages : s # r[1] => SameOn(s, t, Copied(t, p, r, Below(t, p)))
<1>1. Below(t, p) \in SUBSET Below(t, p)
  OBVIOUS
<1>2. ASSUME NEW q \in Below(t, p), q # p PROVE Front(q) \in Below(t, p)
  <2>1. q \in Places /\ q \in DOMAIN t /\ IsPrefix(p, q)
    BY <1>2 DEF Below, Tree
  <2>2. Len(q) > Len(p)
    BY <1>2, <2>1, FrontBelow, PlaceTypes
  <2>3. Len(q) > 1 /\ IsPrefix(p, Front(q))
    BY <2>1, <2>2, FrontBelow
  <2>4. Front(q) \in DOMAIN t
    BY <2>1, <2>3 DEF Tree, IsDir, Has
  <2> QED BY <2>3, <2>4 DEF Below
<1>3. \A q \in Below(t, p) : Copies(t, p, r, q) /\ IsDir(t, Front(r)) /\ (q = p \/ Front(q) \in Below(t, p))
  BY <1>2 DEF CanCopy
<1> QED BY <1>1, <1>3, CopiedTree

LEMMA PartialCopy ==
  ASSUME NEW t, Tree(t), NEW p \in Places, NEW r \in Places, NEW S \in PartialCopies(t, p, r),
         \A q \in Below(t, p) : Rebase(q, p, r) \in Places
  PROVE  /\ Tree(Copied(t, p, r, S))
         /\ \A s \in Storages : s # r[1] => SameOn(s, t, Copied(t, p, r, S))
<1>1. /\ S \in SUBSET Below(t, p)
      /\ \A q \in S : Copies(t, p, r, q) /\ IsDir(t, Front(r)) /\ (q = p \/ Front(q) \in S)
  BY DEF PartialCopies
<1> QED BY <1>1, CopiedTree

(* Nothing copied. *)
LEMMA NoCopy ==
  ASSUME NEW t, Tree(t), NEW p, NEW r
  PROVE  /\ Tree(Copied(t, p, r, {}))
         /\ DOMAIN Copied(t, p, r, {}) = DOMAIN t
         /\ \A s \in Storages : SameOn(s, t, Copied(t, p, r, {}))
<1> DEFINE u == Copied(t, p, r, {})
<1>1. DOMAIN u = DOMAIN t /\ \A q \in DOMAIN t : u[q] = t[q]
  BY DEF Copied, Over
<1> HIDE DEF u
<1> QED BY <1>1 DEF Tree, SameOn, Below, IsDir, Has, u
-----------------------------------------------------------------------------
(* The invariant *)

ObjectsAt(n) == [path : Paths, parent : 0 .. n - 1]

Sends(n) ==
  {NoSend} \cup [handle : 1 .. n - 1, storage : Storages \ ReadOnly, parent : 0 .. n - 1, name : Names]

Commands(n) ==
  {NoCommand}
  \cup [op : {"SendObjectInfo"}, storage : Storages, parent : 0 .. n - 1, name : Names, dir : BOOLEAN]
  \cup [op : {"SendObject"}, data : Data]
  \cup [op : {"SetObjectPropValue"}, handle : 1 .. n - 1, name : Names]

Codes ==
  {"data", "OK", "GeneralError", "InvalidObjectHandle", "InvalidParent", "StoreReadOnly",
   "SessionNotOpen", "SessionAlreadyOpen"}

(* Events about objects allocated before m, and added since n. *)
EventsOn(n, m) ==
  [code : {"ObjectAdded"}, arg : n .. m - 1]
  \cup [code : {"ObjectRemoved", "ObjectInfoChanged"}, arg : 1 .. m - 1]
  \cup [code : {"StorageInfoChanged"}, arg : Storages]

AllNotes == [by : {Host} \cup Outsiders, gone : BOOLEAN, path : Paths]

HandlesAre(objs, n) ==
  \A h \in DOMAIN objs : h \in 1 .. n - 1 /\ objs[h] \in ObjectsAt(n)

DeviceInv ==
  /\ Tree(disk)
  /\ nextHandle \in 1 .. MaxHandle + 1
  /\ HandlesAre(objects, nextHandle)
  /\ send \in Sends(nextHandle) /\ session \in BOOLEAN
  /\ events \in Seq(EventsOn(1, nextHandle)) /\ notes \in Seq(AllNotes)

CallInv ==
  /\ command \in Commands(nextHandle)
  /\ replies \in Seq(Codes) /\ Len(replies) <= 2
  /\ replies # <<>> => command = NoCommand

GuardInv ==
  /\ IsFiniteSet(holding) /\ pauses = Cardinality(holding)
  /\ dropped \in Seq(Paths) /\ Len(dropped) <= DroppedCap

VirtualInv == DeviceInv /\ CallInv /\ GuardInv
-----------------------------------------------------------------------------
(* Ranges *)

LEMMA Bounds ==
  DeviceInv => /\ nextHandle \in Nat /\ nextHandle >= 1 /\ nextHandle <= MaxHandle + 1
               /\ MaxHandle \in Nat /\ MaxDepth \in Nat
  BY DeviceAssumption DEF DeviceInv

LEMMA SetsGrow ==
  ASSUME NEW n \in Nat, NEW m \in Nat, n <= m
  PROVE  /\ ObjectsAt(n) \subseteq ObjectsAt(m) /\ Sends(n) \subseteq Sends(m)
         /\ Commands(n) \subseteq Commands(m)
         /\ \A k \in Nat : k >= 1 => EventsOn(k, n) \subseteq EventsOn(1, m)
         /\ \A k : EventsOn(k, n) \subseteq EventsOn(k, m)
         /\ 1 .. n - 1 \subseteq 1 .. m - 1 /\ 0 .. n - 1 \subseteq 0 .. m - 1
<1>1. 1 .. n - 1 \subseteq 1 .. m - 1 /\ 0 .. n - 1 \subseteq 0 .. m - 1
  OBVIOUS
<1>2. \A k \in Nat : k >= 1 => k .. n - 1 \subseteq 1 .. m - 1
  OBVIOUS
<1>3. ObjectsAt(n) \subseteq ObjectsAt(m) /\ Sends(n) \subseteq Sends(m)
  BY <1>1 DEF ObjectsAt, Sends
<1>4. Commands(n) \subseteq Commands(m)
  BY <1>1 DEF Commands
<1>5. \A k \in Nat : k >= 1 => EventsOn(k, n) \subseteq EventsOn(1, m)
  BY <1>1, <1>2 DEF EventsOn
<1>6. \A k : EventsOn(k, n) \subseteq EventsOn(k, m)
  BY <1>1 DEF EventsOn
<1> QED BY <1>1, <1>3, <1>4, <1>5, <1>6

(* One event, and several. *)
LEMMA EventTypes ==
  ASSUME NEW n \in Nat, NEW m \in Nat
  PROVE  /\ \A h \in n .. m - 1 : Added(h) \in Seq(EventsOn(n, m))
         /\ \A h \in 1 .. m - 1 : Removed(h) \in Seq(EventsOn(n, m)) /\ InfoChanged(h) \in Seq(EventsOn(n, m))
         /\ \A s \in Storages : StorageChanged(s) \in Seq(EventsOn(n, m))
         /\ <<>> \in Seq(EventsOn(n, m))
         /\ \A a, b \in Seq(EventsOn(n, m)) : a \o b \in Seq(EventsOn(n, m))
  BY DEF EventsOn, Added, Removed, InfoChanged, StorageChanged

(* Notifications. *)
LEMMA NoteTypes ==
  ASSUME NEW by \in {Host} \cup Outsiders, NEW S \in SUBSET Paths, IsFiniteSet(S)
  PROVE  Came(by, S) \subseteq Seq(AllNotes) /\ Went(by, S) \subseteq Seq(AllNotes)
<1>1. PICK k \in Nat : k = Cardinality(S)
  BY FS_CardinalityType
<1>2. ASSUME NEW gone \in BOOLEAN, NEW order \in SetToSeqs(S)
      PROVE  Notes(by, gone, order) \in Seq(AllNotes)
  <2>1. order \in [1 .. k -> S]
    BY <1>1, <1>2 DEF SetToSeqs
  <2>2. \A i \in 1 .. k : Note(by, gone, order[i]) \in AllNotes
    BY <2>1 DEF Note, AllNotes
  <2>3. Notes(by, gone, order) \in [1 .. k -> AllNotes]
    BY <2>1, <2>2 DEF Notes
  <2> QED BY <2>3
<1> QED BY <1>2 DEF Came, Went, ParentsFirst, ParentsLast

LEMMA Notified ==
  ASSUME notes \in Seq(AllNotes), NEW A \in SUBSET Seq(AllNotes)
  PROVE  /\ Notify(A) => notes' \in Seq(AllNotes)
         /\ \A B \in SUBSET Seq(AllNotes) : Then(A, B) \subseteq Seq(AllNotes)
<1>1. \A a, b \in Seq(AllNotes) : a \o b \in Seq(AllNotes)
  OBVIOUS
<1>2. Notify(A) => notes' \in Seq(AllNotes)
  BY <1>1 DEF Notify
<1>3. ASSUME NEW B \in SUBSET Seq(AllNotes), NEW x \in Then(A, B) PROVE x \in Seq(AllNotes)
  <2>1. PICK a \in A : x \in {a \o b : b \in B}
    BY <1>3 DEF Then
  <2>2. PICK b \in B : x = a \o b
    BY <2>1
  <2> QED BY <1>1, <1>3, <2>2
<1> QED BY <1>2, <1>3

LEMMA QuietNotes == Quiet \subseteq Seq(AllNotes)
  BY DEF Quiet

(* What is at and below a path is finite, and of paths. *)
LEMMA BelowPaths ==
  ASSUME NEW t, Tree(t), NEW p \in Paths
  PROVE  Below(t, p) \subseteq Paths /\ IsFiniteSet(Below(t, p))
<1>1. p \in Places /\ Len(p) > 1
  BY PathsArePlaces
<1>2. ASSUME NEW q \in Below(t, p) PROVE q \in Paths
  <2>1. q \in Places /\ IsPrefix(p, q)
    BY <1>2 DEF Below, Tree
  <2>2. Len(p) \in Nat /\ Len(q) \in Nat /\ Len(p) <= Len(q)
    BY <1>1, <2>1, FrontBelow, PlaceTypes
  <2>3. Len(q) > 1
    BY <1>1, <2>2
  <2> QED BY <2>1, <2>3, PathsArePlaces
<1>3. Below(t, p) \in SUBSET DOMAIN t
  BY DEF Below
<1> QED BY <1>2, <1>3, FS_Subset DEF Tree

LEMMA PathTypes ==
  ASSUME NEW p \in Paths
  PROVE  /\ p \in Places /\ Len(p) > 1 /\ Len(p) <= MaxDepth + 1 /\ p[1] \in Storages
         /\ Front(p) \in Places /\ Len(Front(p)) <= MaxDepth /\ Front(p)[1] = p[1]
         /\ Last(p) \in Names
<1>1. p \in Places /\ Len(p) > 1
  BY PathsArePlaces
<1>2. /\ Len(p) <= MaxDepth + 1 /\ MaxDepth \in Nat /\ Len(p) \in Nat /\ p[1] \in Storages
      /\ \A i \in 2 .. Len(p) : p[i] \in Names
  BY <1>1, PlaceTypes
<1>3. Front(p) \in Places /\ Len(Front(p)) = Len(p) - 1 /\ Front(p)[1] = p[1]
  BY <1>1, FrontOf
<1>4. Len(p) \in 2 .. Len(p)
  BY <1>1, <1>2
<1>5. Last(p) \in Names
  BY <1>2, <1>4 DEF Last
<1> QED BY <1>1, <1>2, <1>3, <1>5
-----------------------------------------------------------------------------
(* What an operation may do *)

HandleStep ==
  /\ nextHandle' \in nextHandle .. MaxHandle + 1
  /\ HandlesAre(objects', nextHandle')
  /\ \A h \in DOMAIN objects' \ DOMAIN objects : h \in nextHandle .. nextHandle' - 1 \/ h = send.handle

Announces == \E es \in Seq(EventsOn(nextHandle, nextHandle')) : events' = events \o es

Outcome ==
  /\ Tree(disk') /\ HandleStep /\ Announces
  /\ notes' \in Seq(AllNotes) /\ send' \in Sends(nextHandle') /\ session' \in BOOLEAN

(* A failure that leaves handles, events and, unless the files failed, the disk. *)
Fails(code) ==
  /\ replies' = <<code>> /\ objects' = objects /\ events' = events
  /\ code # "GeneralError" => disk' = disk

(* An answered operation: a refusal changes neither handles nor events. *)
Answers ==
  /\ \A s \in ReadOnly : SameOn(s, disk, disk')
  /\ \/ replies' = Ok \/ replies' = OkWithData
     \/ \E code \in Codes : Fails(code)

Dispatched == replies = <<>> /\ command' = NoCommand /\ UNCHANGED <<pauses, dropped, holding>>

LEMMA HandlesStay ==
  ASSUME DeviceInv, UNCHANGED <<objects, nextHandle>>
  PROVE  HandleStep
<1>1. nextHandle \in nextHandle .. MaxHandle + 1
  BY Bounds
<1> QED BY <1>1 DEF HandleStep, DeviceInv

LEMMA EventsStay ==
  ASSUME DeviceInv, UNCHANGED events
  PROVE  Announces
<1>1. events \o <<>> = events
  BY ConcatEmptySeq DEF DeviceInv
<1>2. <<>> \in Seq(EventsOn(nextHandle, nextHandle'))
  OBVIOUS
<1> QED BY <1>1, <1>2 DEF Announces

LEMMA SendStays ==
  ASSUME DeviceInv, UNCHANGED send, nextHandle' \in nextHandle .. MaxHandle + 1
  PROVE  send' \in Sends(nextHandle')
<1>1. nextHandle \in Nat /\ nextHandle' \in Nat /\ nextHandle <= nextHandle'
  BY Bounds
<1>2. Sends(nextHandle) \subseteq Sends(nextHandle')
  BY <1>1, SetsGrow
<1> QED BY <1>2 DEF DeviceInv

LEMMA SameTree ==
  ASSUME NEW t
  PROVE  \A s : SameOn(s, t, t)
  BY DEF SameOn

LEMMA ReadOnlySame ==
  ASSUME NEW t, NEW p, NEW r, p[1] \notin ReadOnly, r[1] \notin ReadOnly,
         \A s \in Storages : s # p[1] /\ s # r[1] => SameOn(s, disk, t)
  PROVE  \A s \in ReadOnly : SameOn(s, disk, t)
  BY DeviceAssumption

LEMMA Dispatches ==
  ASSUME CallInv
  PROVE  /\ \A op : Runs(op) => Dispatched
         /\ \A op : RunsWithData(op) /\ op # "none" => Dispatched /\ command # NoCommand
<1>1. NoCommand.op = "none"
  BY DEF NoCommand
<1> QED BY <1>1 DEF CallInv, Runs, RunsWithData, Dispatched, Ready

LEMMA Refused ==
  ASSUME DeviceInv, replies = <<>>, NEW code \in Codes, Refuse(code)
  PROVE  Outcome /\ Answers
<1>1. /\ UNCHANGED <<disk, objects, nextHandle, session, send, events, notes>>
      /\ replies' = <<code>>
  BY DEF Refuse, Reply
<1>2. HandleStep /\ Announces
  BY <1>1, HandlesStay, EventsStay
<1>3. Outcome
  BY <1>1, <1>2 DEF Outcome, DeviceInv
<1>4. \A s \in ReadOnly : SameOn(s, disk, disk')
  BY <1>1, SameTree
<1> QED BY <1>1, <1>3, <1>4 DEF Answers, Fails

LEMMA Refusal ==
  ASSUME DeviceInv, replies = <<>>
  PROVE  /\ Refuse("InvalidObjectHandle") => Outcome /\ Answers
         /\ Refuse("StoreReadOnly") => Outcome /\ Answers
         /\ Refuse("GeneralError") => Outcome /\ Answers
         /\ Refuse("InvalidParent") => Outcome /\ Answers
         /\ Refuse("SessionNotOpen") => Outcome /\ Answers
<1>1. \A code \in Codes : Refuse(code) => Outcome /\ Answers
  BY Refused
<1> QED BY <1>1 DEF Codes

(* A handle allocated for a path. *)
LEMMA HandleAdded ==
  ASSUME DeviceInv, NEW p \in Paths, NEW parent \in 0 .. nextHandle - 1, CanAlloc(1),
         nextHandle' = nextHandle + 1,
         objects' = Extend(objects, nextHandle, [path |-> p, parent |-> parent])
  PROVE  HandleStep /\ nextHandle \in nextHandle .. nextHandle' - 1
<1>1. nextHandle \in Nat /\ nextHandle >= 1 /\ nextHandle + 1 <= MaxHandle + 1 /\ MaxHandle \in Nat
  BY Bounds DEF CanAlloc
<1>2. nextHandle' \in nextHandle .. MaxHandle + 1 /\ nextHandle \in nextHandle .. nextHandle' - 1
  BY <1>1
<1>3. ObjectsAt(nextHandle) \subseteq ObjectsAt(nextHandle + 1)
      /\ 1 .. nextHandle - 1 \subseteq 1 .. nextHandle + 1 - 1
  BY <1>1, SetsGrow
<1>4. [path |-> p, parent |-> parent] \in ObjectsAt(nextHandle)
  BY DEF ObjectsAt
<1>5. DOMAIN objects' = DOMAIN objects \cup {nextHandle}
  BY DEF Extend
<1>6. ASSUME NEW h \in DOMAIN objects' PROVE h \in 1 .. nextHandle' - 1 /\ objects'[h] \in ObjectsAt(nextHandle')
  <2>1. CASE h = nextHandle
    <3>1. objects'[h] = [path |-> p, parent |-> parent]
      BY <1>6, <2>1 DEF Extend
    <3> QED BY <1>1, <1>3, <1>4, <2>1, <3>1
  <2>2. CASE h # nextHandle
    <3>1. h \in DOMAIN objects /\ objects'[h] = objects[h]
      BY <1>5, <1>6, <2>2 DEF Extend
    <3> QED BY <1>3, <3>1 DEF DeviceInv, HandlesAre
  <2> QED BY <2>1, <2>2
<1> QED BY <1>2, <1>5, <1>6 DEF HandleStep, HandlesAre

(* A handle given a path again. *)
LEMMA HandlePlaced ==
  ASSUME DeviceInv, NEW h \in 1 .. nextHandle - 1, h \in DOMAIN objects \/ h = send.handle,
         NEW item \in ObjectsAt(nextHandle), nextHandle' = nextHandle,
         DOMAIN objects' = DOMAIN objects \cup {h}, objects'[h] = item,
         \A x \in DOMAIN objects : x # h => objects'[x] = objects[x]
  PROVE  HandleStep
<1>1. nextHandle \in nextHandle .. MaxHandle + 1
  BY Bounds
<1>2. HandlesAre(objects', nextHandle')
  BY DEF DeviceInv, HandlesAre
<1> QED BY <1>1, <1>2 DEF HandleStep

(* Handles given up. *)
LEMMA HandlesGone ==
  ASSUME DeviceInv, UNCHANGED nextHandle, DOMAIN objects' \subseteq DOMAIN objects,
         \A x \in DOMAIN objects' : objects'[x] = objects[x]
  PROVE  HandleStep
<1>1. nextHandle \in nextHandle .. MaxHandle + 1
  BY Bounds
<1>2. HandlesAre(objects', nextHandle')
  BY DEF DeviceInv, HandlesAre
<1> QED BY <1>1, <1>2 DEF HandleStep

(* Handles allocated for several paths. *)
LEMMA Tracking ==
  ASSUME DeviceInv, NEW objs, HandlesAre(objs, nextHandle), DOMAIN objs \subseteq DOMAIN objects,
         NEW k \in Nat, NEW order \in [1 .. k -> Paths],
         NEW parent \in [1 .. k -> 0 .. nextHandle + k - 1], CanAlloc(k),
         nextHandle' = nextHandle + k, objects' = Track(objs, order, parent)
  PROVE  HandleStep
<1>1. nextHandle \in Nat /\ nextHandle >= 1 /\ nextHandle + k <= MaxHandle + 1 /\ MaxHandle \in Nat
  BY Bounds DEF CanAlloc
<1>2. nextHandle' \in nextHandle .. MaxHandle + 1
  BY <1>1
<1>3. ObjectsAt(nextHandle) \subseteq ObjectsAt(nextHandle') /\ 1 .. nextHandle - 1 \subseteq 1 .. nextHandle' - 1
  BY <1>1, SetsGrow
<1>4. Len(order) = k
  OBVIOUS
<1> DEFINE new == [h \in nextHandle .. nextHandle + k - 1 |->
                     [path |-> order[h - nextHandle + 1], parent |-> parent[h - nextHandle + 1]]]
<1>5. objects' = Over(objs, new)
  BY <1>4 DEF Track
<1>6. ASSUME NEW h \in nextHandle .. nextHandle + k - 1
      PROVE  h \in 1 .. nextHandle' - 1 /\ new[h] \in ObjectsAt(nextHandle')
  <2>1. h - nextHandle + 1 \in 1 .. k /\ h \in 1 .. nextHandle' - 1
    BY <1>1
  <2>2. order[h - nextHandle + 1] \in Paths /\ parent[h - nextHandle + 1] \in 0 .. nextHandle + k - 1
    BY <2>1
  <2>3. 0 .. nextHandle + k - 1 = 0 .. nextHandle' - 1
    BY <1>1
  <2>4. new[h] = [path |-> order[h - nextHandle + 1], parent |-> parent[h - nextHandle + 1]]
    BY <1>6
  <2>5. PICK p \in Paths, c \in 0 .. nextHandle' - 1 : new[h] = [path |-> p, parent |-> c]
    BY <2>2, <2>3, <2>4
  <2> HIDE DEF new
  <2> QED BY <2>1, <2>5 DEF ObjectsAt
<1>7. DOMAIN new = nextHandle .. nextHandle + k - 1
  OBVIOUS
<1> HIDE DEF new
<1>8. /\ DOMAIN objects' = DOMAIN objs \cup (nextHandle .. nextHandle + k - 1)
      /\ \A h \in DOMAIN objs : objects'[h] = objs[h]
      /\ \A h \in nextHandle .. nextHandle + k - 1 : h \notin DOMAIN objs => objects'[h] = new[h]
  BY <1>5, <1>7 DEF Over
<1>9. \A h \in DOMAIN objs : h \in 1 .. nextHandle' - 1 /\ objects'[h] \in ObjectsAt(nextHandle')
  BY <1>3, <1>8 DEF HandlesAre
<1>10. \A h \in nextHandle .. nextHandle + k - 1 :
         h \notin DOMAIN objs => h \in 1 .. nextHandle' - 1 /\ objects'[h] \in ObjectsAt(nextHandle')
  BY <1>6, <1>8
<1>11. HandlesAre(objects', nextHandle')
  BY <1>8, <1>9, <1>10 DEF HandlesAre
<1>12. \A h \in DOMAIN objects' \ DOMAIN objects : h \in nextHandle .. nextHandle' - 1
  <2>1. nextHandle .. nextHandle + k - 1 = nextHandle .. nextHandle' - 1
    BY <1>1
  <2> QED BY <1>8, <2>1
<1> QED BY <1>2, <1>11, <1>12 DEF HandleStep
-----------------------------------------------------------------------------
(* What follows of a step that does so *)

FreshStep ==
  /\ nextHandle' >= nextHandle
  /\ \A h \in DOMAIN objects' \ DOMAIN objects :
       h \in nextHandle .. nextHandle' - 1 \/ h = send.handle

OnceStep ==
  \A i \in Len(events) + 1 .. Len(events') :
    events'[i].code = "ObjectAdded" => events'[i].arg >= nextHandle

CleanStep ==
  LET failed == Len(replies') = 1 /\ replies = <<>> /\ replies'[1] # "OK"
  IN  failed => /\ UNCHANGED <<objects, events>>
                /\ replies'[1] # "GeneralError" => UNCHANGED disk

UntouchedStep ==
  Len(replies') > Len(replies) =>
    \A s \in ReadOnly : Below(disk, <<s>>) = Below(disk', <<s>>)
                        /\ \A p \in Below(disk, <<s>>) : disk'[p] = disk[p]

TruthfulSteps == FreshStep /\ OnceStep
CleanSteps == CleanStep /\ UntouchedStep

LEMMA OutcomeKeeps ==
  ASSUME DeviceInv, Outcome
  PROVE  DeviceInv' /\ TruthfulSteps
<1>1. /\ nextHandle \in Nat /\ nextHandle >= 1 /\ nextHandle' \in Nat /\ nextHandle <= nextHandle'
      /\ nextHandle' \in 1 .. MaxHandle + 1
  BY Bounds DEF Outcome, HandleStep
<1>2. FreshStep
  BY <1>1 DEF Outcome, HandleStep, FreshStep
<1>3. PICK es \in Seq(EventsOn(nextHandle, nextHandle')) : events' = events \o es
  BY DEF Outcome, Announces
<1>4. /\ EventsOn(nextHandle, nextHandle') \subseteq EventsOn(1, nextHandle')
      /\ EventsOn(1, nextHandle) \subseteq EventsOn(1, nextHandle')
  BY <1>1, SetsGrow
<1>5. events \in Seq(EventsOn(1, nextHandle')) /\ es \in Seq(EventsOn(1, nextHandle'))
  BY <1>4, SeqMonotonic DEF DeviceInv
<1>6. events' \in Seq(EventsOn(1, nextHandle'))
  BY <1>3, <1>5
<1>7. OnceStep
  <2>1. SUFFICES ASSUME NEW i \in Len(events) + 1 .. Len(events')
                 PROVE  events'[i].code = "ObjectAdded" => events'[i].arg >= nextHandle
    BY DEF OnceStep
  <2>2. /\ Len(events) \in Nat /\ Len(es) \in Nat /\ Len(events') = Len(events) + Len(es)
        /\ \A j \in 1 .. Len(events) + Len(es) :
             events'[j] = IF j <= Len(events) THEN events[j] ELSE es[j - Len(events)]
    BY <1>3, <1>5, ConcatProperties, LenProperties
  <2>3. /\ i \in 1 .. Len(events) + Len(es) /\ ~(i <= Len(events))
        /\ i - Len(events) \in 1 .. Len(es)
    BY <2>2
  <2>4. events'[i] = es[i - Len(events)]
    BY <2>2, <2>3
  <2>5. PICK e \in EventsOn(nextHandle, nextHandle') : e = events'[i]
    BY <2>3, <2>4, ElementOfSeq
  <2>6. e.code = "ObjectAdded" => e.arg \in nextHandle .. nextHandle' - 1
    BY DEF EventsOn
  <2> QED BY <1>1, <2>5, <2>6
<1>8. DeviceInv'
  BY <1>1, <1>6 DEF Outcome, HandleStep, DeviceInv
<1> QED BY <1>2, <1>7, <1>8 DEF TruthfulSteps

LEMMA AnswerKeeps ==
  ASSUME VirtualInv, Dispatched, Outcome, Answers
  PROVE  VirtualInv' /\ TruthfulSteps /\ CleanSteps
<1>1. DeviceInv' /\ TruthfulSteps
  BY OutcomeKeeps DEF VirtualInv
<1>2. UntouchedStep
  BY DEF Answers, SameOn, UntouchedStep
<1>3. CleanStep
  <2>1. CASE replies' = Ok \/ replies' = OkWithData
    BY <2>1 DEF CleanStep, Ok, OkWithData
  <2>2. ASSUME NEW code \in Codes, Fails(code) PROVE CleanStep
    BY <2>2 DEF CleanStep, Fails
  <2> QED BY <2>1, <2>2 DEF Answers
<1>4. replies' \in Seq(Codes) /\ Len(replies') <= 2
  <2>1. "OK" \in Codes /\ "data" \in Codes
    BY DEF Codes
  <2>2. \A code \in Codes : <<code>> \in Seq(Codes) /\ Len(<<code>>) <= 2
    BY ONLY TRUE
  <2>3. \A c, d \in Codes : <<c, d>> \in Seq(Codes) /\ Len(<<c, d>>) <= 2
    BY ONLY TRUE
  <2>4. replies' = Ok \/ replies' = OkWithData \/ \E code \in Codes : replies' = <<code>>
    BY DEF Answers, Fails
  <2> QED BY ONLY <2>1, <2>2, <2>3, <2>4 DEF Ok, OkWithData
<1>5. CallInv'
  BY <1>4 DEF CallInv, Dispatched, Commands
<1>6. GuardInv'
  BY DEF VirtualInv, GuardInv, Dispatched
<1> QED BY <1>1, <1>2, <1>3, <1>5, <1>6 DEF VirtualInv, CleanSteps

(* Steps that answer nothing. *)
LEMMA SilentKeeps ==
  ASSUME VirtualInv, Outcome, UNCHANGED <<command, replies>>, GuardInv'
  PROVE  VirtualInv' /\ TruthfulSteps /\ CleanSteps
<1>1. DeviceInv' /\ TruthfulSteps
  BY OutcomeKeeps DEF VirtualInv
<1>2. CleanSteps
  <2>1. Len(replies') = 1 => replies # <<>>
    BY DEF VirtualInv, CallInv
  <2>2. ~(Len(replies') > Len(replies))
    BY LenProperties DEF VirtualInv, CallInv
  <2> QED BY <2>1, <2>2 DEF CleanSteps, CleanStep, UntouchedStep
<1>3. nextHandle \in Nat /\ nextHandle' \in Nat /\ nextHandle <= nextHandle'
  BY Bounds DEF VirtualInv, Outcome, HandleStep
<1>4. Commands(nextHandle) \subseteq Commands(nextHandle')
  BY <1>3, SetsGrow
<1>5. CallInv'
  BY <1>4 DEF VirtualInv, CallInv
<1> QED BY <1>1, <1>2, <1>5 DEF VirtualInv
-----------------------------------------------------------------------------
(* The transport *)

LEMMA DeviceStays ==
  ASSUME DeviceInv, UNCHANGED <<disk, objects, nextHandle, session, send, events, notes>>
  PROVE  Outcome
<1>1. HandleStep /\ Announces
  BY HandlesStay, EventsStay
<1> QED BY <1>1 DEF Outcome, DeviceInv

LEMMA TransportKeeps ==
  ASSUME VirtualInv, SendBulk \/ ReceiveBulk \/ ReceiveInterrupt \/ CancelTransfer
  PROVE  VirtualInv' /\ TruthfulSteps /\ CleanSteps
<1>1. CASE SendBulk \/ ReceiveBulk \/ CancelTransfer
  <2>1. UNCHANGED <<disk, objects, nextHandle, session, send, events, notes, pauses, dropped, holding>>
    BY <1>1 DEF SendBulk, ReceiveBulk, CancelTransfer, watch
  <2>2. DeviceInv' /\ TruthfulSteps
    BY <2>1, DeviceStays, OutcomeKeeps DEF VirtualInv
  <2>3. GuardInv'
    BY <2>1 DEF VirtualInv, GuardInv
  <2>4. command' \in Commands(nextHandle')
    <3>1. CASE SendBulk
      <4>1. command' \in
              [op : Ops \cap {"SendObjectInfo"}, storage : Storages, parent : 0 .. nextHandle - 1,
               name : Names, dir : BOOLEAN]
              \cup [op : Ops \cap {"SendObject"}, data : Data]
              \cup [op : Ops \cap {"SetObjectPropValue"}, handle : 1 .. nextHandle - 1, name : Names]
        BY <3>1 DEF SendBulk
      <4> QED BY <2>1, <4>1 DEF Commands
    <3>2. CASE ReceiveBulk
      BY <2>1, <3>2 DEF ReceiveBulk, VirtualInv, CallInv
    <3>3. CASE CancelTransfer
      BY <3>3 DEF CancelTransfer, Commands
    <3> QED BY <1>1, <3>1, <3>2, <3>3
  <2>5. /\ replies' \in Seq(Codes) /\ Len(replies') <= 2 /\ Len(replies') <= Len(replies)
        /\ replies' # <<>> => command' = NoCommand /\ replies # <<>>
    <3>1. CASE SendBulk
      BY <3>1 DEF SendBulk, Ready
    <3>2. CASE ReceiveBulk
      <4>1. replies' = Tail(replies) /\ replies # <<>> /\ command' = command
        BY <3>2 DEF ReceiveBulk
      <4>2. replies \in Seq(Codes) /\ Len(replies) <= 2 /\ Len(replies) \in Nat
        BY LenProperties DEF VirtualInv, CallInv
      <4>3. Tail(replies) \in Seq(Codes) /\ Len(Tail(replies)) = Len(replies) - 1
        BY <4>1, <4>2, HeadTailProperties
      <4> QED BY <4>1, <4>2, <4>3 DEF VirtualInv, CallInv
    <3>3. CASE CancelTransfer
      BY <3>3, LenProperties DEF CancelTransfer, VirtualInv, CallInv
    <3> QED BY <1>1, <3>1, <3>2, <3>3
  <2>6. CallInv'
    BY <2>4, <2>5 DEF CallInv
  <2>7. CleanSteps
    <3>1. Len(replies') = 1 => replies # <<>>
      BY <2>5
    <3>2. ~(Len(replies') > Len(replies))
      BY <2>5, LenProperties DEF VirtualInv, CallInv
    <3> QED BY <3>1, <3>2 DEF CleanSteps, CleanStep, UntouchedStep
  <2> QED BY <2>2, <2>3, <2>6, <2>7 DEF VirtualInv
<1>2. CASE ReceiveInterrupt
  <2>1. /\ events # <<>> /\ events' = Tail(events)
        /\ UNCHANGED <<disk, objects, nextHandle, session, send, command, replies,
                       notes, pauses, dropped, holding>>
    BY <1>2 DEF ReceiveInterrupt, watch
  <2>2. /\ events' \in Seq(EventsOn(1, nextHandle)) /\ Len(events') = Len(events) - 1
        /\ Len(events) \in Nat
    BY <2>1, HeadTailProperties, LenProperties DEF VirtualInv, DeviceInv
  <2>3. VirtualInv'
    BY <2>1, <2>2 DEF VirtualInv, DeviceInv, CallInv, GuardInv
  <2>4. TruthfulSteps
    <3>1. FreshStep
      BY <2>1, Bounds DEF FreshStep, VirtualInv
    <3>2. Len(events) + 1 .. Len(events') = {}
      BY <2>2
    <3> QED BY <3>1, <3>2 DEF TruthfulSteps, OnceStep
  <2>5. CleanSteps
    <3>1. Len(replies') = 1 => replies # <<>>
      BY <2>1
    <3>2. ~(Len(replies') > Len(replies))
      BY <2>1, LenProperties DEF VirtualInv, CallInv
    <3> QED BY <3>1, <3>2 DEF CleanSteps, CleanStep, UntouchedStep
  <2> QED BY <2>3, <2>4, <2>5
<1> QED BY <1>1, <1>2
-----------------------------------------------------------------------------
(* Sessions and reads *)

LEMMA SessionAnswers ==
  ASSUME DeviceInv, replies = <<>>, SessionNotOpen \/ OpenSession \/ CloseSession \/ Read
  PROVE  Outcome /\ Answers
<1>1. CASE SessionNotOpen
  BY <1>1, Refusal DEF SessionNotOpen
<1>2. CASE OpenSession
  <2>1. /\ UNCHANGED <<disk, objects, nextHandle, send, events, notes>> /\ session' = TRUE
        /\ replies' = IF session THEN <<"SessionAlreadyOpen">> ELSE Ok
    BY <1>2 DEF OpenSession, Reply, Ok
  <2>2. HandleStep /\ Announces
    BY <2>1, HandlesStay, EventsStay
  <2>3. Outcome
    BY <2>1, <2>2 DEF Outcome, DeviceInv
  <2>4. replies' = Ok \/ Fails("SessionAlreadyOpen")
    BY <2>1 DEF Fails
  <2>5. \A s \in ReadOnly : SameOn(s, disk, disk')
    BY <2>1, SameTree
  <2> QED BY <2>3, <2>4, <2>5 DEF Answers, Codes
<1>3. CASE CloseSession
  <2>1. /\ UNCHANGED <<disk, nextHandle, events, notes>> /\ session' = FALSE /\ objects' = <<>>
        /\ send' = NoSend /\ replies' = Ok
    BY <1>3 DEF CloseSession, Reply, Ok
  <2>2. HandleStep
    <3>1. DOMAIN objects' = {}
      BY <2>1
    <3> QED BY <2>1, <3>1, HandlesGone
  <2>3. Announces /\ send' \in Sends(nextHandle')
    BY <2>1, EventsStay DEF Sends
  <2>4. \A s \in ReadOnly : SameOn(s, disk, disk')
    BY <2>1, SameTree
  <2> QED BY <2>1, <2>2, <2>3, <2>4 DEF Outcome, DeviceInv, Answers
<1>4. CASE Read
  <2>1. /\ UNCHANGED <<disk, objects, nextHandle, session, send, events, notes>>
        /\ \/ replies' = OkWithData \/ Fails("InvalidObjectHandle") \/ Fails("GeneralError")
    BY <1>4 DEF Read, Reply, OkWithData, Fails
  <2>2. Outcome
    BY <2>1, DeviceStays
  <2>3. \A s \in ReadOnly : SameOn(s, disk, disk')
    BY <2>1, SameTree
  <2> QED BY <2>1, <2>2, <2>3 DEF Answers, Codes
<1> QED BY <1>1, <1>2, <1>3, <1>4
-----------------------------------------------------------------------------
(* Listings *)

LEMMA Listing ==
  ASSUME DeviceInv, NEW objs, HandlesAre(objs, nextHandle), DOMAIN objs \subseteq DOMAIN objects,
         NEW new \in SUBSET Paths, IsFiniteSet(new), CanAlloc(Cardinality(new)),
         NEW order \in SetToSeqs(new), nextHandle' = nextHandle + Cardinality(new)
  PROVE  /\ \A parent \in 0 .. nextHandle - 1 :
              objects' = Track(objs, order, [i \in 1 .. Len(order) |-> parent]) => HandleStep
         /\ \A parent \in ParentsOf(objs, order) :
              objects' = Track(objs, order, parent) => HandleStep
<1>1. PICK k \in Nat : k = Cardinality(new)
  BY FS_CardinalityType
<1>2. order \in [1 .. k -> Paths] /\ Len(order) = k
  <2>1. order \in [1 .. k -> new]
    BY <1>1 DEF SetToSeqs
  <2> QED BY <2>1
<1>3. nextHandle \in Nat /\ nextHandle >= 1 /\ CanAlloc(k) /\ nextHandle' = nextHandle + k
  BY <1>1, Bounds
<1>4. ASSUME NEW parent \in 0 .. nextHandle - 1,
             objects' = Track(objs, order, [i \in 1 .. Len(order) |-> parent])
      PROVE  HandleStep
  <2>1. [i \in 1 .. Len(order) |-> parent] \in [1 .. k -> 0 .. nextHandle + k - 1]
    BY <1>2, <1>3
  <2> QED BY <1>2, <1>3, <1>4, <2>1, Tracking
<1>5. ASSUME NEW parent \in ParentsOf(objs, order), objects' = Track(objs, order, parent)
      PROVE  HandleStep
  <2>1. /\ parent \in [1 .. k -> 0 .. MaxHandle]
        /\ \A i \in 1 .. k : parent[i] = Root \/ parent[i] \in DOMAIN objects'
    BY <1>2, <1>5 DEF ParentsOf, Tracks
  <2>2. DOMAIN objects' = DOMAIN objs \cup (nextHandle .. nextHandle + k - 1)
    BY <1>2, <1>5 DEF Track, Over
  <2>3. \A i \in 1 .. k : parent[i] \in 0 .. nextHandle + k - 1
    BY <1>3, <2>1, <2>2 DEF HandlesAre, Root
  <2>4. parent \in [1 .. k -> 0 .. nextHandle + k - 1]
    BY <2>1, <2>3
  <2> QED BY <1>2, <1>3, <1>5, <2>4, Tracking
<1> QED BY <1>4, <1>5

LEMMA EntriesArePaths ==
  ASSUME NEW t, Tree(t), NEW S \in SUBSET DOMAIN t, \A q \in S : Len(q) > 1, NEW objs
  PROVE  Untracked(objs, S) \in SUBSET Paths /\ IsFiniteSet(Untracked(objs, S))
<1>1. Untracked(objs, S) \in SUBSET DOMAIN t
  BY DEF Untracked
<1>2. IsFiniteSet(Untracked(objs, S))
  BY <1>1, FS_Subset DEF Tree
<1> QED BY <1>1, <1>2, PathsArePlaces DEF Tree, Untracked

LEMMA Scans ==
  ASSUME DeviceInv
  PROVE  /\ \A p \in Places, parent \in 0 .. nextHandle - 1 : ScanDir(p, parent) => HandleStep
         /\ \A ss : ScanAll(ss) => HandleStep
<1>0. HandlesAre(objects, nextHandle) /\ Tree(disk)
  BY DEF DeviceInv
<1>1. ASSUME NEW p \in Places, NEW parent \in 0 .. nextHandle - 1, ScanDir(p, parent) PROVE HandleStep
  <2> DEFINE S == IF IsDir(disk, p) THEN Children(disk, p) ELSE {}
  <2>1. S \in SUBSET DOMAIN disk /\ \A q \in S : Len(q) > 1
    BY PlaceTypes DEF Children
  <2>2. PICK new : new = Untracked(objects, S)
    OBVIOUS
  <2>3. /\ CanAlloc(Cardinality(new)) /\ nextHandle' = nextHandle + Cardinality(new)
        /\ \E order \in SetToSeqs(new) :
             objects' = Track(objects, order, [i \in 1 .. Len(order) |-> parent])
    BY <1>1, <2>2 DEF ScanDir
  <2> HIDE DEF S
  <2>4. new \in SUBSET Paths /\ IsFiniteSet(new)
    BY <1>0, <2>1, <2>2, EntriesArePaths
  <2> QED BY <1>0, <2>3, <2>4, Listing
<1>2. ASSUME NEW ss, ScanAll(ss) PROVE HandleStep
  <2> DEFINE S == {p \in DOMAIN disk : p[1] \in ss /\ Len(p) > 1}
  <2>1. S \in SUBSET DOMAIN disk /\ \A q \in S : Len(q) > 1
    OBVIOUS
  <2>2. PICK new : new = Untracked(objects, S)
    OBVIOUS
  <2>3. /\ CanAlloc(Cardinality(new)) /\ nextHandle' = nextHandle + Cardinality(new)
        /\ \E order \in SetToSeqs(new) : \E parent \in ParentsOf(objects, order) :
             objects' = Track(objects, order, parent)
    BY <1>2, <2>2 DEF ScanAll
  <2> HIDE DEF S
  <2>4. new \in SUBSET Paths /\ IsFiniteSet(new)
    BY <1>0, <2>1, <2>2, EntriesArePaths
  <2> QED BY <1>0, <2>3, <2>4, Listing
<1> QED BY <1>1, <1>2

LEMMA Listed ==
  ASSUME DeviceInv, replies = <<>>, HandleStep, Reply(OkWithData),
         UNCHANGED <<disk, session, send, events, notes>>
  PROVE  Outcome /\ Answers
<1>1. Announces
  BY EventsStay
<1>2. send' \in Sends(nextHandle')
  BY SendStays DEF HandleStep
<1>3. \A s \in ReadOnly : SameOn(s, disk, disk')
  BY SameTree
<1>4. replies' = OkWithData
  BY DEF Reply, OkWithData
<1> QED BY <1>1, <1>2, <1>3, <1>4 DEF Outcome, DeviceInv, Answers

LEMMA ListingAnswers ==
  ASSUME DeviceInv, replies = <<>>, GetObjectHandles \/ GetObjectPropList
  PROVE  Outcome /\ Answers
<1>0. \A h \in DOMAIN objects : objects[h].path \in Places
  BY PathsArePlaces DEF DeviceInv, HandlesAre, ObjectsAt
<1>1. CASE GetObjectHandles
  <2>1. ASSUME NEW s \in Storages, NEW parent \in 0 .. nextHandle - 1,
               ~(parent # Root /\ (parent \notin DOMAIN objects \/ objects[parent].path[1] # s)),
               ScanDir(IF parent = Root THEN <<s>> ELSE objects[parent].path, parent)
        PROVE  HandleStep
    <3>1. PICK p : p = IF parent = Root THEN <<s>> ELSE objects[parent].path
      OBVIOUS
    <3>2. p \in Places
      BY <1>0, <2>1, <3>1, RootsArePlaces
    <3> QED BY <2>1, <3>1, <3>2, Scans
  <2>2. ASSUME NEW s \in Storages, NEW parent \in 0 .. nextHandle - 1,
               IF parent # Root /\ (parent \notin DOMAIN objects \/ objects[parent].path[1] # s)
               THEN Refuse("InvalidObjectHandle")
               ELSE /\ ScanDir(IF parent = Root THEN <<s>> ELSE objects[parent].path, parent)
                    /\ Reply(OkWithData)
                    /\ UNCHANGED <<disk, session, send, events, notes>>
        PROVE  Outcome /\ Answers
    BY <2>1, <2>2, Refusal, Listed
  <2>3. ASSUME NEW s \in Storages, ScanAll({s}), Reply(OkWithData),
               UNCHANGED <<disk, session, send, events, notes>>
        PROVE  Outcome /\ Answers
    BY <2>3, Scans, Listed
  <2> QED BY <1>1, <2>2, <2>3 DEF GetObjectHandles
<1>2. CASE GetObjectPropList
  <2>1. ASSUME ScanAll(Storages), Reply(OkWithData), UNCHANGED <<disk, session, send, events, notes>>
        PROVE  Outcome /\ Answers
    BY <2>1, Scans, Listed
  <2>2. ASSUME NEW h \in 1 .. nextHandle - 1, h \in DOMAIN objects, ScanDir(objects[h].path, h),
               Reply(OkWithData), UNCHANGED <<disk, session, send, events, notes>>
        PROVE  Outcome /\ Answers
    <3>1. h \in 0 .. nextHandle - 1
      BY Bounds
    <3> QED BY <1>0, <2>2, <3>1, Scans, Listed
  <2>3. ASSUME NEW h \in 1 .. nextHandle - 1,
               IF h \notin DOMAIN objects THEN Refuse("InvalidObjectHandle")
               ELSE /\ ScanDir(objects[h].path, h)
                    /\ Reply(OkWithData)
                    /\ UNCHANGED <<disk, session, send, events, notes>>
        PROVE  Outcome /\ Answers
    BY <2>2, <2>3, Refusal
  <2> QED BY <1>2, <2>1, <2>3 DEF GetObjectPropList
<1> QED BY <1>1, <1>2
-----------------------------------------------------------------------------
(* Uploads *)

LEMMA PathOfIs ==
  ASSUME DeviceInv, NEW s \in Storages, NEW parent,
         parent = Root \/ parent \in DOMAIN objects
  PROVE  PathOf(s, parent) \in Places /\ PathOf(s, parent)[1] = s
<1>1. CASE parent = Root
  BY <1>1, RootsArePlaces DEF PathOf
<1>2. CASE parent # Root
  <2>1. objects[parent].path \in Places
    BY <1>2, PathsArePlaces DEF DeviceInv, HandlesAre, ObjectsAt
  <2> QED BY <1>2, <2>1, Transplanted DEF PathOf
<1> QED BY <1>1, <1>2

LEMMA NamedPlace ==
  ASSUME NEW d \in Places, NEW name \in Names, Len(d \o <<name>>) <= MaxDepth + 1
  PROVE  d \o <<name>> \in Paths /\ (d \o <<name>>)[1] = d[1] /\ Front(d \o <<name>>) = d
<1>1. Len(d) \in Nat /\ MaxDepth \in Nat /\ d \in Seq(Elements)
  BY PlaceTypes
<1>2. <<name>> \in Seq(Elements) /\ Len(<<name>>) = 1
  BY DEF Elements
<1>3. Len(d \o <<name>>) = Len(d) + 1
  BY <1>1, <1>2, ConcatProperties
<1>4. Len(d) <= MaxDepth
  BY <1>1, <1>3
<1> QED BY <1>4, Extended

(* The host's own notifications of one new entry. *)
LEMMA OneNote ==
  ASSUME NEW p \in Paths
  PROVE  /\ Came(Host, {p}) \subseteq Seq(AllNotes) /\ Went(Host, {p}) \subseteq Seq(AllNotes)
<1>1. {p} \in SUBSET Paths /\ IsFiniteSet({p}) /\ Host \in {Host} \cup Outsiders
  BY FS_Singleton
<1> QED BY <1>1, NoteTypes

LEMMA NewEntryNoted ==
  ASSUME DeviceInv, NEW p \in Paths, Notify(IF Has(disk, p) THEN Quiet ELSE Came(Host, {p}))
  PROVE  notes' \in Seq(AllNotes)
<1>1. (IF Has(disk, p) THEN Quiet ELSE Came(Host, {p})) \in SUBSET Seq(AllNotes)
  BY OneNote, QuietNotes
<1> QED BY <1>1, Notified DEF DeviceInv

LEMMA EntryPut ==
  ASSUME DeviceInv, NEW p \in Paths, p[1] \notin ReadOnly, NEW item,
         IsDir(disk, Front(p)), IsDir(disk, p) => item.dir, disk' = Extend(disk, p, item)
  PROVE  Tree(disk') /\ \A s \in ReadOnly : SameOn(s, disk, disk')
<1>1. p \in Places /\ p[1] \in Storages
  BY PathTypes
<1>2. Tree(disk') /\ \A s \in Storages : s # p[1] => SameOn(s, disk, disk')
  BY <1>1, PutTree DEF DeviceInv
<1> QED BY <1>2, DeviceAssumption

LEMMA SendObjectInfoAnswers ==
  ASSUME DeviceInv, replies = <<>>, command \in Commands(nextHandle), SendObjectInfo
  PROVE  Outcome /\ Answers
<1>1. command.op = "SendObjectInfo"
  BY DEF SendObjectInfo, RunsWithData
<1>2. PICK s \in Storages, parent \in 0 .. nextHandle - 1, name \in Names, dir \in BOOLEAN :
        s = command.storage /\ parent = command.parent /\ name = command.name /\ dir = command.dir
  BY <1>1 DEF Commands, NoCommand
<1> DEFINE known == parent \in DOMAIN objects /\ objects[parent].path[1] = s
           p == PathOf(s, parent) \o <<name>>
           made == IF dir THEN CanMakeDir(disk, p) ELSE CanWrite(disk, p)
           item == IF dir THEN Dir ELSE File(<<>>)
<1>3. CASE s \in ReadOnly
  <2>1. Refuse("StoreReadOnly")
    BY <1>2, <1>3 DEF SendObjectInfo
  <2> QED BY <2>1, Refusal
<1>4. CASE s \notin ReadOnly /\ parent # Root /\ ~(known /\ IsDir(disk, objects[parent].path))
  <2>1. Refuse("InvalidParent")
    BY <1>2, <1>4 DEF SendObjectInfo
  <2> QED BY <2>1, Refusal
<1>5. CASE s \notin ReadOnly /\ ~(parent # Root /\ ~(known /\ IsDir(disk, objects[parent].path)))
  <2>1. /\ NameIsFree(p) /\ Len(p) <= MaxDepth + 1 /\ CanAlloc(1)
        /\ nextHandle' = nextHandle + 1
        /\ IF ~made
           THEN /\ send' = NoSend /\ Reply(<<"GeneralError">>)
                /\ UNCHANGED <<disk, objects, events, notes>>
           ELSE /\ disk' = IF dir THEN MakeDir(disk, p) ELSE Write(disk, p, <<>>)
                /\ Notify(IF Has(disk, p) THEN Quiet ELSE Came(Host, {p}))
                /\ objects' = Extend(objects, nextHandle, [path |-> p, parent |-> parent])
                /\ Announce(Added(nextHandle) \o StorageChanged(s))
                /\ send' = IF dir THEN NoSend
                           ELSE [handle |-> nextHandle, storage |-> s, parent |-> parent, name |-> name]
                /\ Reply(Ok)
    BY <1>2, <1>5 DEF SendObjectInfo
  <2>2. UNCHANGED session
    BY DEF SendObjectInfo
  <2>3. p \in Paths /\ p[1] = s /\ Front(p) = PathOf(s, parent)
    <3>1. PathOf(s, parent) \in Places /\ PathOf(s, parent)[1] = s
      BY <1>5, PathOfIs
    <3> QED BY <2>1, <3>1, NamedPlace
  <2>4. nextHandle \in Nat /\ nextHandle >= 1 /\ nextHandle + 1 <= MaxHandle + 1 /\ MaxHandle \in Nat
    BY <2>1, Bounds DEF CanAlloc
  <2>5. CASE ~made
    <3>1. HandleStep
      <4>1. nextHandle' \in nextHandle .. MaxHandle + 1
        BY <2>1, <2>4
      <4>2. ObjectsAt(nextHandle) \subseteq ObjectsAt(nextHandle')
            /\ 1 .. nextHandle - 1 \subseteq 1 .. nextHandle' - 1
        BY <2>1, <2>4, SetsGrow
      <4> QED BY <2>1, <2>5, <4>1, <4>2 DEF HandleStep, HandlesAre, DeviceInv
    <3>2. Announces
      BY <2>1, <2>5, EventsStay
    <3>3. Fails("GeneralError")
      BY <2>1, <2>5 DEF Fails, Reply
    <3>4. \A x \in ReadOnly : SameOn(x, disk, disk')
      BY <2>1, <2>5, SameTree
    <3>5. send' \in Sends(nextHandle')
      BY <2>1, <2>5 DEF Sends
    <3> QED BY <2>1, <2>2, <2>5, <3>1, <3>2, <3>3, <3>4, <3>5 DEF Outcome, Answers, DeviceInv, Codes
  <2>6. CASE made
    <3>1. HandleStep /\ nextHandle \in nextHandle .. nextHandle' - 1
      BY <2>1, <2>3, <2>6, HandleAdded
    <3>2. Announces
      <4>1. nextHandle \in Nat /\ nextHandle' \in Nat
        BY <2>1, <2>4
      <4>2. Added(nextHandle) \o StorageChanged(s) \in Seq(EventsOn(nextHandle, nextHandle'))
        BY <3>1, <4>1, EventTypes
      <4> QED BY <2>1, <2>6, <4>2 DEF Announces, Announce
    <3>3. disk' = Extend(disk, p, item)
      BY <2>1, <2>6 DEF MakeDir, Write
    <3>4. IsDir(disk, Front(p)) /\ (IsDir(disk, p) => item.dir)
      BY <2>6 DEF CanMakeDir, CanWrite, Dir
    <3>5. Tree(disk') /\ \A x \in ReadOnly : SameOn(x, disk, disk')
      <4> HIDE DEF item, p
      <4> QED BY <1>5, <2>3, <3>3, <3>4, EntryPut
    <3>6. notes' \in Seq(AllNotes)
      BY <2>1, <2>3, <2>6, NewEntryNoted
    <3>7. send' \in Sends(nextHandle')
      <4>1. nextHandle \in 1 .. nextHandle' - 1 /\ parent \in 0 .. nextHandle' - 1 /\ s \in Storages \ ReadOnly
        BY <1>5, <2>1, <2>4
      <4> QED BY <2>1, <2>6, <4>1 DEF Sends
    <3>8. replies' = Ok
      BY <2>1, <2>6 DEF Reply, Ok
    <3> QED BY <2>2, <3>1, <3>2, <3>5, <3>6, <3>7, <3>8 DEF Outcome, Answers, DeviceInv
  <2> QED BY <2>5, <2>6
<1> QED BY <1>3, <1>4, <1>5

LEMMA SendObjectAnswers ==
  ASSUME DeviceInv, replies = <<>>, command \in Commands(nextHandle), SendObject
  PROVE  Outcome /\ Answers
<1> DEFINE gone == send # NoSend /\ send.parent # Root /\ send.parent \notin DOMAIN objects
           p == PathOf(send.storage, send.parent) \o <<send.name>>
<1>1. send' = NoSend /\ UNCHANGED <<nextHandle, session>>
  BY DEF SendObject
<1>2. send' \in Sends(nextHandle')
  BY <1>1 DEF Sends
<1>3. CASE send = NoSend \/ gone \/ ~CanWrite(disk, p)
  <2>1. /\ Reply(IF gone THEN <<"InvalidParent">> ELSE <<"GeneralError">>)
        /\ UNCHANGED <<disk, objects, events, notes>>
    BY <1>3 DEF SendObject
  <2>2. Fails("InvalidParent") \/ Fails("GeneralError")
    BY <2>1 DEF Reply, Fails
  <2>3. HandleStep /\ Announces
    BY <1>1, <2>1, HandlesStay, EventsStay
  <2>4. \A s \in ReadOnly : SameOn(s, disk, disk')
    BY <2>1, SameTree
  <2> QED BY <1>1, <1>2, <2>1, <2>2, <2>3, <2>4 DEF Outcome, Answers, DeviceInv, Codes
<1>4. CASE ~(send = NoSend \/ gone \/ ~CanWrite(disk, p))
  <2>1. /\ Len(p) <= MaxDepth + 1
        /\ disk' = Write(disk, p, command.data)
        /\ Notify(IF Has(disk, p) THEN Quiet ELSE Came(Host, {p}))
        /\ objects' = Extend(objects, send.handle, [path |-> p, parent |-> send.parent])
        /\ Announce(InfoChanged(send.handle) \o StorageChanged(send.storage))
        /\ Reply(Ok)
    BY <1>4 DEF SendObject
  <2>2. PICK h \in 1 .. nextHandle - 1, s \in Storages \ ReadOnly, parent \in 0 .. nextHandle - 1,
             name \in Names :
          h = send.handle /\ s = send.storage /\ parent = send.parent /\ name = send.name
    BY <1>4 DEF DeviceInv, Sends
  <2>3. p \in Paths /\ p[1] = s /\ Front(p) = PathOf(s, parent)
    <3>1. PathOf(s, parent) \in Places /\ PathOf(s, parent)[1] = s
      BY <1>4, <2>2, PathOfIs
    <3> QED BY <2>1, <2>2, <3>1, NamedPlace
  <2>4. HandleStep
    <3>1. PICK item \in ObjectsAt(nextHandle) : item = [path |-> p, parent |-> parent]
      BY <2>2, <2>3 DEF ObjectsAt
    <3>2. /\ DOMAIN objects' = DOMAIN objects \cup {h} /\ objects'[h] = item
          /\ \A x \in DOMAIN objects : x # h => objects'[x] = objects[x]
      BY <2>1, <2>2, <3>1 DEF Extend
    <3> QED BY <1>1, <2>2, <3>1, <3>2, HandlePlaced
  <2>5. Announces
    <3>1. nextHandle \in Nat /\ nextHandle' = nextHandle
      BY <1>1, Bounds
    <3>2. InfoChanged(h) \o StorageChanged(s) \in Seq(EventsOn(nextHandle, nextHandle'))
      BY <2>2, <3>1, EventTypes
    <3> QED BY <2>1, <2>2, <3>2 DEF Announces, Announce
  <2>6. Tree(disk') /\ \A x \in ReadOnly : SameOn(x, disk, disk')
    <3>1. disk' = Extend(disk, p, File(command.data))
      BY <2>1 DEF Write
    <3>2. IsDir(disk, Front(p)) /\ ~IsDir(disk, p)
      BY <1>4 DEF CanWrite
    <3> HIDE DEF p
    <3> QED BY <2>2, <2>3, <3>1, <3>2, EntryPut
  <2>7. notes' \in Seq(AllNotes)
    BY <2>1, <2>3, NewEntryNoted
  <2>8. replies' = Ok
    BY <2>1 DEF Reply, Ok
  <2> QED BY <1>1, <1>2, <2>4, <2>5, <2>6, <2>7, <2>8 DEF Outcome, Answers, DeviceInv
<1> QED BY <1>3, <1>4
-----------------------------------------------------------------------------
(* Deleting and renaming *)

LEMMA ObjectTypes ==
  ASSUME DeviceInv, NEW h \in DOMAIN objects
  PROVE  /\ h \in 1 .. nextHandle - 1 /\ objects[h] \in ObjectsAt(nextHandle)
         /\ objects[h].path \in Paths /\ objects[h].path[1] \in Storages
<1>1. h \in 1 .. nextHandle - 1 /\ objects[h] \in ObjectsAt(nextHandle)
  BY DEF DeviceInv, HandlesAre
<1>2. objects[h].path \in Paths
  BY <1>1 DEF ObjectsAt
<1> QED BY <1>1, <1>2, PathTypes

LEMMA DeleteObjectAnswers ==
  ASSUME DeviceInv, replies = <<>>, DeleteObject
  PROVE  Outcome /\ Answers
<1>1. PICK h \in 1 .. nextHandle - 1 :
        CASE ~Tracked(h) -> Refuse("InvalidObjectHandle")
          [] Tracked(h) /\ Storage(h) \in ReadOnly -> Refuse("StoreReadOnly")
          [] Tracked(h) /\ Storage(h) \notin ReadOnly /\ ~Has(disk, objects[h].path) ->
               Refuse("GeneralError")
          [] OTHER ->
               LET p == objects[h].path
               IN  /\ disk' = Cut(disk, p)
                   /\ Notify(Went(Host, Below(disk, p)))
                   /\ objects' = [x \in {y \in DOMAIN objects : ~IsPrefix(p, objects[y].path)}
                                    |-> objects[x]]
                   /\ Announce(Removed(h) \o StorageChanged(Storage(h)))
                   /\ Reply(Ok)
                   /\ UNCHANGED <<nextHandle, session, send>>
  BY DEF DeleteObject
<1>2. CASE ~Tracked(h) \/ Storage(h) \in ReadOnly \/ ~Has(disk, objects[h].path)
  <2>1. Refuse("InvalidObjectHandle") \/ Refuse("StoreReadOnly") \/ Refuse("GeneralError")
    BY <1>1, <1>2
  <2> QED BY <2>1, Refusal
<1>3. CASE Tracked(h) /\ Storage(h) \notin ReadOnly /\ Has(disk, objects[h].path)
  <2>1. PICK p \in Paths : p = objects[h].path /\ p[1] = Storage(h) /\ p[1] \in Storages
    BY <1>3, ObjectTypes DEF Tracked, Storage
  <2>2. /\ disk' = Cut(disk, p)
        /\ Notify(Went(Host, Below(disk, p)))
        /\ objects' = [x \in {y \in DOMAIN objects : ~IsPrefix(p, objects[y].path)} |-> objects[x]]
        /\ Announce(Removed(h) \o StorageChanged(Storage(h)))
        /\ Reply(Ok)
        /\ UNCHANGED <<nextHandle, session, send>>
    BY <1>1, <1>3, <2>1
  <2>3. HandleStep
    <3>1. DOMAIN objects' \subseteq DOMAIN objects /\ \A x \in DOMAIN objects' : objects'[x] = objects[x]
      BY <2>2
    <3> QED BY <2>2, <3>1, HandlesGone
  <2>4. Announces
    <3>1. nextHandle \in Nat /\ nextHandle' = nextHandle
      BY <2>2, Bounds
    <3>2. Removed(h) \o StorageChanged(Storage(h)) \in Seq(EventsOn(nextHandle, nextHandle'))
      BY <2>1, <3>1, EventTypes
    <3> QED BY <2>2, <3>2 DEF Announces, Announce
  <2>5. Tree(disk') /\ \A s \in ReadOnly : SameOn(s, disk, disk')
    <3>1. p \in Places
      BY PathTypes
    <3>2. Tree(disk') /\ \A s \in Storages : s # p[1] => SameOn(s, disk, disk')
      BY <2>2, <3>1, CutTree DEF DeviceInv
    <3> QED BY <1>3, <2>1, <3>2, DeviceAssumption
  <2>6. notes' \in Seq(AllNotes)
    <3>1. Below(disk, p) \in SUBSET Paths /\ IsFiniteSet(Below(disk, p))
      BY BelowPaths DEF DeviceInv
    <3>2. Went(Host, Below(disk, p)) \in SUBSET Seq(AllNotes)
      BY <3>1, NoteTypes
    <3> QED BY <2>2, <3>2, Notified DEF DeviceInv
  <2>7. send' \in Sends(nextHandle') /\ replies' = Ok
    BY <2>2 DEF Reply, Ok, DeviceInv
  <2> QED BY <2>2, <2>3, <2>4, <2>5, <2>6, <2>7 DEF Outcome, Answers, DeviceInv
<1> QED BY <1>2, <1>3

(* The notifications of an entry that changed places. *)
LEMMA MoveNoted ==
  ASSUME DeviceInv, NEW p \in Paths, NEW r \in Paths
  PROVE  (IF p = r THEN Quiet ELSE Then(Went(Host, {p}), Came(Host, {r}))) \in SUBSET Seq(AllNotes)
<1>1. Then(Went(Host, {p}), Came(Host, {r})) \in SUBSET Seq(AllNotes)
  BY OneNote, Notified DEF DeviceInv
<1> QED BY <1>1, QuietNotes

LEMMA EntryRenamed ==
  ASSUME DeviceInv, NEW p \in Paths, NEW r \in Paths, p[1] \notin ReadOnly, r[1] \notin ReadOnly,
         CanRename(disk, p, r), \A q \in Below(disk, p) : Rebase(q, p, r) \in Places,
         disk' = Renamed(disk, p, r)
  PROVE  Tree(disk') /\ \A s \in ReadOnly : SameOn(s, disk, disk')
<1>1. p \in Places /\ r \in Places /\ Len(r) > 1
  BY PathTypes
<1>2. Tree(disk') /\ \A s \in Storages : s # p[1] /\ s # r[1] => SameOn(s, disk, disk')
  BY <1>1, RenamedTree DEF DeviceInv
<1> QED BY <1>2, DeviceAssumption

LEMMA SetObjectPropValueAnswers ==
  ASSUME DeviceInv, replies = <<>>, command \in Commands(nextHandle), SetObjectPropValue
  PROVE  Outcome /\ Answers
<1>1. command.op = "SetObjectPropValue"
  BY DEF SetObjectPropValue, RunsWithData
<1>2. PICK h \in 1 .. nextHandle - 1, name \in Names : h = command.handle /\ name = command.name
  BY <1>1 DEF Commands, NoCommand
<1> DEFINE p == objects[h].path
           r == Front(p) \o <<name>>
<1>3. (CASE ~Tracked(h) -> Refuse("InvalidObjectHandle")
        [] Tracked(h) /\ Storage(h) \in ReadOnly -> Refuse("StoreReadOnly")
        [] Tracked(h) /\ Storage(h) \notin ReadOnly /\ ~CanRename(disk, p, r) ->
             Refuse("GeneralError")
        [] OTHER ->
             /\ NameIsFree(r) /\ (IsDir(disk, p) => DirMoves)
             /\ disk' = Renamed(disk, p, r)
             /\ Notify(IF p = r THEN Quiet ELSE Then(Went(Host, {p}), Came(Host, {r})))
             /\ objects' = [objects EXCEPT ![h].path = r]
             /\ Reply(Ok)
             /\ UNCHANGED <<nextHandle, session, send, events>>)
  BY <1>2 DEF SetObjectPropValue
<1>4. CASE ~Tracked(h) \/ Storage(h) \in ReadOnly \/ ~CanRename(disk, p, r)
  <2>1. Refuse("InvalidObjectHandle") \/ Refuse("StoreReadOnly") \/ Refuse("GeneralError")
    BY <1>3, <1>4
  <2> QED BY <2>1, Refusal
<1>5. CASE Tracked(h) /\ Storage(h) \notin ReadOnly /\ CanRename(disk, p, r)
  <2>1. /\ disk' = Renamed(disk, p, r)
        /\ Notify(IF p = r THEN Quiet ELSE Then(Went(Host, {p}), Came(Host, {r})))
        /\ objects' = [objects EXCEPT ![h].path = r]
        /\ Reply(Ok)
        /\ UNCHANGED <<nextHandle, session, send, events>>
    BY <1>3, <1>5
  <2>2. p \in Paths /\ p[1] = Storage(h) /\ p[1] \in Storages /\ h \in DOMAIN objects
    BY <1>5, ObjectTypes DEF Tracked, Storage
  <2>3. /\ p \in Places /\ Len(p) > 1 /\ Front(p) \in Places /\ Len(Front(p)) <= MaxDepth
        /\ Front(p)[1] = p[1]
    <3> HIDE DEF p
    <3> QED BY <2>2, PathTypes
  <2>4. r \in Paths /\ r[1] = p[1] /\ Len(r) = Len(p)
    <3>1. r \in Paths /\ Len(r) = Len(Front(p)) + 1 /\ r[1] = Front(p)[1]
      BY <2>3, Extended
    <3>2. Len(Front(p)) = Len(p) - 1 /\ Len(p) \in Nat
      BY <2>3, FrontOf, PlaceTypes
    <3>3. Len(r) = Len(p)
      BY <3>1, <3>2
    <3> QED BY <2>3, <3>1, <3>3
  <2> HIDE DEF p, r
  <2>5. \A q \in Below(disk, p) : Rebase(q, p, r) \in Places
    <3>1. SUFFICES ASSUME NEW q \in Below(disk, p) PROVE Rebase(q, p, r) \in Places
      OBVIOUS
    <3>2. q \in Places /\ IsPrefix(p, q)
      BY DEF Below, DeviceInv, Tree
    <3>3. Len(r) + Len(q) - Len(p) <= MaxDepth + 1
      BY <2>3, <2>4, <3>2, PlaceTypes
    <3>4. Rebase(q, p, r) \in Paths
      BY <2>2, <2>4, <3>2, <3>3, RebasedPlace
    <3> QED BY <3>4, PathTypes
  <2>6. Tree(disk') /\ \A s \in ReadOnly : SameOn(s, disk, disk')
    BY <1>5, <2>1, <2>2, <2>4, <2>5, EntryRenamed
  <2>7. HandleStep
    <3>1. PICK parent \in 0 .. nextHandle - 1 : objects[h] = [path |-> p, parent |-> parent]
      BY <2>2, ObjectTypes DEF ObjectsAt, p
    <3>2. PICK item \in ObjectsAt(nextHandle) : item = [path |-> r, parent |-> parent]
      BY <2>4 DEF ObjectsAt
    <3>3. /\ DOMAIN objects' = DOMAIN objects \cup {h} /\ objects'[h] = item
          /\ \A x \in DOMAIN objects : x # h => objects'[x] = objects[x]
      <4>1. [objects[h] EXCEPT !.path = r] = item
        BY ONLY <3>1, <3>2
      <4>2. objects' = [x \in DOMAIN objects |->
                          IF x = h THEN [objects[h] EXCEPT !.path = r] ELSE objects[x]]
        BY ONLY <2>1
      <4> QED BY ONLY <2>2, <4>1, <4>2
    <3> QED BY <2>1, <2>2, <3>2, <3>3, HandlePlaced
  <2>8. Announces
    BY <2>1, EventsStay
  <2>9. notes' \in Seq(AllNotes)
    <3>1. (IF p = r THEN Quiet ELSE Then(Went(Host, {p}), Came(Host, {r}))) \in SUBSET Seq(AllNotes)
      BY <2>2, <2>4, MoveNoted
    <3> QED BY <2>1, <3>1, Notified DEF DeviceInv
  <2>10. send' \in Sends(nextHandle') /\ replies' = Ok
    BY <2>1 DEF Reply, Ok, DeviceInv
  <2> QED BY <2>1, <2>6, <2>7, <2>8, <2>9, <2>10 DEF Outcome, Answers, DeviceInv
<1> QED BY <1>4, <1>5
-----------------------------------------------------------------------------
(* Moving and copying *)

LEMMA FitsPlaces ==
  ASSUME DeviceInv, NEW s \in Storages, NEW parent, parent = Root \/ parent \in DOMAIN objects,
         NEW name \in Names, NEW p \in Paths, NEW r, r = PathOf(s, parent) \o <<name>>, Fits(p, r)
  PROVE  /\ r \in Paths /\ r[1] = s
         /\ \A q \in Below(disk, p) : Rebase(q, p, r) \in Paths /\ Rebase(q, p, r) \in Places
<1>1. PICK d \in Places : d = PathOf(s, parent) /\ d[1] = s
  BY PathOfIs
<1>2. r \in Seq(Elements) /\ r = d \o <<name>>
  <2>1. d \in Seq(Elements) /\ <<name>> \in Seq(Elements)
    BY PlaceTypes DEF Elements
  <2> QED BY <1>1, <2>1
<1>3. p \in Places /\ IsPrefix(p, p)
  BY PathTypes, PlaceTypes, PrefixReflexive
<1>4. Len(Rebase(p, p, r)) = Len(r) + Len(p) - Len(p)
  BY <1>2, <1>3, RebaseIs
<1>5. Len(Rebase(p, p, r)) <= MaxDepth + 1
  <2>1. Rebase(p, p, r) \in Paths
    BY DEF Fits
  <2> QED BY <2>1, PathTypes
<1>6. Len(r) <= MaxDepth + 1
  <2>1. Len(r) \in Nat /\ Len(p) \in Nat
    BY <1>2, <1>3, PlaceTypes, LenProperties
  <2> QED BY <1>4, <1>5, <2>1
<1>7. r \in Paths /\ r[1] = s
  BY <1>1, <1>2, <1>6, NamedPlace
<1>8. \A q \in Below(disk, p) : Rebase(q, p, r) \in Paths
  BY DEF Fits
<1> QED BY <1>7, <1>8, PathTypes

(* What a copy brings is noted. *)
LEMMA CopyNoted ==
  ASSUME DeviceInv, NEW p, NEW r, NEW S \in SUBSET Below(disk, p),
         \A q \in Below(disk, p) : Rebase(q, p, r) \in Paths, Tree(Copied(disk, p, r, S))
  PROVE  Came(Host, DOMAIN Copied(disk, p, r, S) \ DOMAIN disk) \in SUBSET Seq(AllNotes)
<1> DEFINE new == DOMAIN Copied(disk, p, r, S) \ DOMAIN disk
<1>1. DOMAIN Copied(disk, p, r, S) = {Rebase(q, p, r) : q \in S} \cup DOMAIN disk
  BY DEF Copied, Over
<1>2. new \in SUBSET Paths
  BY <1>1
<1>3. IsFiniteSet(new)
  <2>1. new \in SUBSET DOMAIN Copied(disk, p, r, S)
    OBVIOUS
  <2> QED BY <2>1, FS_Subset DEF Tree
<1> HIDE DEF new
<1> QED BY <1>2, <1>3, NoteTypes DEF new

LEMMA SameOnTransitive ==
  ASSUME NEW s, NEW t, NEW u, NEW v, SameOn(s, t, u), SameOn(s, u, v)
  PROVE  SameOn(s, t, v)
  BY DEF SameOn

LEMMA EntryMoved ==
  ASSUME DeviceInv, NEW p \in Paths, NEW r \in Paths, p[1] \notin ReadOnly, r[1] \notin ReadOnly,
         \A q \in Below(disk, p) : Rebase(q, p, r) \in Paths /\ Rebase(q, p, r) \in Places,
         MovedTree(p, r).ok, disk' = MovedTree(p, r).tree, Notify(MovedTree(p, r).ns)
  PROVE  /\ Tree(disk') /\ \A s \in ReadOnly : SameOn(s, disk, disk')
         /\ notes' \in Seq(AllNotes)
<1>0. Tree(disk) /\ notes \in Seq(AllNotes) /\ p \in Places /\ r \in Places
  BY PathTypes DEF DeviceInv
<1>1. CASE CanRename(disk, p, r)
  <2>1. /\ disk' = Renamed(disk, p, r)
        /\ Notify(IF p = r THEN Quiet ELSE Then(Went(Host, {p}), Came(Host, {r})))
    BY <1>1 DEF MovedTree
  <2>2. (IF p = r THEN Quiet ELSE Then(Went(Host, {p}), Came(Host, {r}))) \in SUBSET Seq(AllNotes)
    BY MoveNoted
  <2>3. notes' \in Seq(AllNotes)
    BY <1>0, <2>1, <2>2, Notified
  <2> QED BY <1>1, <2>1, <2>3, EntryRenamed
<1>2. CASE ~CanRename(disk, p, r)
  <2> DEFINE copied == Copied(disk, p, r, Below(disk, p))
  <2>1. /\ IsDir(disk, p) /\ CanCopy(disk, p, r)
        /\ disk' = Cut(copied, p)
        /\ Notify(Then(Came(Host, DOMAIN copied \ DOMAIN disk), Went(Host, Below(disk, p))))
    BY <1>2 DEF MovedTree
  <2>2. Tree(copied) /\ \A s \in Storages : s # r[1] => SameOn(s, disk, copied)
    BY <1>0, <2>1, WholeCopy
  <2>3. Came(Host, DOMAIN copied \ DOMAIN disk) \in SUBSET Seq(AllNotes)
    <3>1. Below(disk, p) \in SUBSET Below(disk, p)
      OBVIOUS
    <3> QED BY <2>2, <3>1, CopyNoted
  <2> HIDE DEF copied
  <2>4. Tree(Cut(copied, p)) /\ \A s \in Storages : s # p[1] => SameOn(s, copied, Cut(copied, p))
    BY <1>0, <2>2, CutTree
  <2>5. \A s \in ReadOnly : SameOn(s, disk, disk')
    <3>1. SUFFICES ASSUME NEW s \in ReadOnly PROVE SameOn(s, disk, disk')
      OBVIOUS
    <3>2. s \in Storages /\ s # p[1] /\ s # r[1]
      BY DeviceAssumption
    <3>3. SameOn(s, disk, copied) /\ SameOn(s, copied, Cut(copied, p))
      BY <2>2, <2>4, <3>2
    <3> QED BY <2>1, <3>3, SameOnTransitive
  <2>6. Went(Host, Below(disk, p)) \in SUBSET Seq(AllNotes)
    <3>1. Below(disk, p) \in SUBSET Paths /\ IsFiniteSet(Below(disk, p))
      BY <1>0, BelowPaths
    <3> QED BY <3>1, NoteTypes
  <2>7. Then(Came(Host, DOMAIN copied \ DOMAIN disk), Went(Host, Below(disk, p))) \in SUBSET Seq(AllNotes)
    BY <1>0, <2>3, <2>6, Notified
  <2>8. notes' \in Seq(AllNotes)
    BY <1>0, <2>1, <2>7, Notified
  <2> QED BY <2>1, <2>4, <2>5, <2>8
<1> QED BY <1>1, <1>2

LEMMA FailedCopyAnswers ==
  ASSUME DeviceInv, replies = <<>>, NEW p \in Paths, NEW r \in Paths, r[1] \notin ReadOnly,
         \A q \in Below(disk, p) : Rebase(q, p, r) \in Paths /\ Rebase(q, p, r) \in Places,
         FailedCopy(p, r)
  PROVE  Outcome /\ Answers
<1>0. Tree(disk) /\ notes \in Seq(AllNotes) /\ p \in Places /\ r \in Places
  BY PathTypes DEF DeviceInv
<1>1. PICK S \in (IF IsDir(disk, p) /\ Valid(r) THEN PartialCopies(disk, p, r) ELSE {{}}) :
        /\ disk' = Copied(disk, p, r, S)
        /\ Notify(Came(Host, DOMAIN disk' \ DOMAIN disk))
        /\ Reply(<<"GeneralError">>)
        /\ UNCHANGED <<objects, nextHandle, session, send, events>>
  BY DEF FailedCopy
<1>2. /\ S \in SUBSET Below(disk, p) /\ Tree(disk')
      /\ \A s \in Storages : s # r[1] => SameOn(s, disk, disk')
  <2>1. CASE S \in PartialCopies(disk, p, r)
    <3>1. S \in SUBSET Below(disk, p)
      BY <2>1 DEF PartialCopies
    <3> QED BY <1>0, <1>1, <2>1, <3>1, PartialCopy
  <2>2. CASE S = {}
    BY <1>0, <1>1, <2>2, NoCopy
  <2> QED BY <1>1, <2>1, <2>2
<1>3. notes' \in Seq(AllNotes)
  <2>1. Came(Host, DOMAIN disk' \ DOMAIN disk) \in SUBSET Seq(AllNotes)
    BY <1>1, <1>2, CopyNoted
  <2> QED BY <1>0, <1>1, <2>1, Notified
<1>4. \A s \in ReadOnly : SameOn(s, disk, disk')
  BY <1>2, DeviceAssumption
<1>5. HandleStep /\ Announces
  BY <1>1, HandlesStay, EventsStay
<1>6. Fails("GeneralError")
  BY <1>1 DEF Fails, Reply
<1> QED BY <1>1, <1>2, <1>3, <1>4, <1>5, <1>6 DEF Outcome, Answers, DeviceInv, Codes

LEMMA MoveObjectAnswers ==
  ASSUME DeviceInv, replies = <<>>, MoveObject
  PROVE  Outcome /\ Answers
<1>1. PICK h \in 1 .. nextHandle - 1, s \in Storages, parent \in 0 .. nextHandle - 1 :
        LET refusal == MoveRefusal(h, s, parent)
        IN  IF refusal # "none" THEN Refuse(refusal)
            ELSE LET p == objects[h].path
                     r == Destination(h, s, parent)
                     moved == MovedTree(p, r)
                 IN  /\ Fits(p, r)
                     /\ p = r \/ NameIsFree(r)
                     /\ IsDir(disk, p) => DirMoves
                     /\ IF ~Valid(r) \/ ~moved.ok THEN FailedCopy(p, r)
                        ELSE /\ disk' = moved.tree /\ Notify(moved.ns)
                             /\ objects' = [objects EXCEPT ![h] = [path |-> r, parent |-> parent]]
                             /\ Announce(InfoChanged(h) \o StorageChanged(Storage(h)) \o
                                  IF s # Storage(h) THEN StorageChanged(s) ELSE <<>>)
                             /\ Reply(Ok)
                             /\ UNCHANGED <<nextHandle, session, send>>
  BY DEF MoveObject
<1>2. CASE MoveRefusal(h, s, parent) # "none"
  <2>1. Refuse(MoveRefusal(h, s, parent))
    BY <1>1, <1>2
  <2>2. MoveRefusal(h, s, parent) \in {"InvalidObjectHandle", "StoreReadOnly", "InvalidParent"}
    BY <1>2 DEF MoveRefusal
  <2> QED BY <2>1, <2>2, Refusal
<1>3. CASE MoveRefusal(h, s, parent) = "none"
  <2>1. /\ Tracked(h) /\ Storage(h) \notin ReadOnly /\ s \notin ReadOnly
        /\ parent = Root \/ Tracked(parent)
    BY <1>3 DEF MoveRefusal
  <2>2. PICK p \in Paths : p = objects[h].path /\ p[1] = Storage(h) /\ p[1] \in Storages
    BY <2>1, ObjectTypes DEF Tracked, Storage
  <2>3. PICK r : r = Destination(h, s, parent)
    OBVIOUS
  <2>4. /\ Fits(p, r)
        /\ IF ~Valid(r) \/ ~MovedTree(p, r).ok THEN FailedCopy(p, r)
           ELSE /\ disk' = MovedTree(p, r).tree /\ Notify(MovedTree(p, r).ns)
                /\ objects' = [objects EXCEPT ![h] = [path |-> r, parent |-> parent]]
                /\ Announce(InfoChanged(h) \o StorageChanged(Storage(h)) \o
                     IF s # Storage(h) THEN StorageChanged(s) ELSE <<>>)
                /\ Reply(Ok)
                /\ UNCHANGED <<nextHandle, session, send>>
    BY <1>1, <1>3, <2>2, <2>3
  <2>5. /\ r \in Paths /\ r[1] = s
        /\ \A q \in Below(disk, p) : Rebase(q, p, r) \in Paths /\ Rebase(q, p, r) \in Places
    <3>1. Last(p) \in Names /\ r = PathOf(s, parent) \o <<Last(p)>>
      BY <2>2, <2>3, PathTypes DEF Destination
    <3>2. Fits(p, r) /\ (parent = Root \/ parent \in DOMAIN objects)
      BY <2>1, <2>4 DEF Tracked
    <3>3. PICK name \in Names : r = PathOf(s, parent) \o <<name>>
      BY <3>1
    <3>4. DeviceInv
      OBVIOUS
    <3> QED BY ONLY <3>2, <3>3, <3>4, FitsPlaces
  <2>6. CASE ~Valid(r) \/ ~MovedTree(p, r).ok
    BY <2>1, <2>4, <2>5, <2>6, FailedCopyAnswers
  <2>7. CASE ~(~Valid(r) \/ ~MovedTree(p, r).ok)
    <3>1. /\ disk' = MovedTree(p, r).tree /\ Notify(MovedTree(p, r).ns)
          /\ objects' = [objects EXCEPT ![h] = [path |-> r, parent |-> parent]]
          /\ Announce(InfoChanged(h) \o StorageChanged(Storage(h)) \o
               IF s # Storage(h) THEN StorageChanged(s) ELSE <<>>)
          /\ Reply(Ok)
          /\ UNCHANGED <<nextHandle, session, send>>
      BY <2>4, <2>7
    <3>2. /\ Tree(disk') /\ \A x \in ReadOnly : SameOn(x, disk, disk')
          /\ notes' \in Seq(AllNotes)
      BY <2>1, <2>2, <2>5, <2>7, <3>1, EntryMoved
    <3>3. HandleStep
      <4>1. PICK item \in ObjectsAt(nextHandle) : item = [path |-> r, parent |-> parent]
        BY <2>5 DEF ObjectsAt
      <4>2. /\ DOMAIN objects' = DOMAIN objects \cup {h} /\ objects'[h] = item
            /\ \A x \in DOMAIN objects : x # h => objects'[x] = objects[x]
        BY <2>1, <3>1, <4>1 DEF Tracked
      <4> QED BY <2>1, <3>1, <4>1, <4>2, HandlePlaced DEF Tracked
    <3>4. Announces
      <4>1. nextHandle \in Nat /\ nextHandle' = nextHandle
        BY <3>1, Bounds
      <4>2. /\ InfoChanged(h) \in Seq(EventsOn(nextHandle, nextHandle'))
            /\ StorageChanged(Storage(h)) \in Seq(EventsOn(nextHandle, nextHandle'))
            /\ (IF s # Storage(h) THEN StorageChanged(s) ELSE <<>>) \in Seq(EventsOn(nextHandle, nextHandle'))
        BY <2>2, <4>1, EventTypes
      <4>3. InfoChanged(h) \o StorageChanged(Storage(h)) \in Seq(EventsOn(nextHandle, nextHandle'))
        BY <4>1, <4>2, EventTypes
      <4>4. (InfoChanged(h) \o StorageChanged(Storage(h))) \o
              (IF s # Storage(h) THEN StorageChanged(s) ELSE <<>>) \in Seq(EventsOn(nextHandle, nextHandle'))
        BY <4>1, <4>2, <4>3, EventTypes
      <4> QED BY <3>1, <4>4 DEF Announces, Announce
    <3>5. send' \in Sends(nextHandle') /\ replies' = Ok
      BY <3>1 DEF Reply, Ok, DeviceInv
    <3> QED BY <3>1, <3>2, <3>3, <3>4, <3>5 DEF Outcome, Answers, DeviceInv
  <2> QED BY <2>6, <2>7
<1> QED BY <1>2, <1>3

LEMMA CopyObjectAnswers ==
  ASSUME DeviceInv, replies = <<>>, CopyObject
  PROVE  Outcome /\ Answers
<1>1. PICK h \in 1 .. nextHandle - 1, s \in Storages, parent \in 0 .. nextHandle - 1 :
        LET refusal == CopyRefusal(h, s, parent)
        IN  IF refusal # "none" THEN Refuse(refusal)
            ELSE LET p == objects[h].path
                     r == Destination(h, s, parent)
                     clash == Clashes(h, s, parent)
                 IN  /\ Fits(p, r)
                     /\ NameIsFree(r)
                     /\ IF ~Valid(r) \/ ~CanCopy(disk, p, r) THEN FailedCopy(p, r)
                        ELSE /\ disk' = Copied(disk, p, r, Below(disk, p))
                             /\ Notify(Came(Host, DOMAIN disk' \ DOMAIN disk))
                             /\ IF clash
                                THEN /\ Reply(IF IsDir(disk, p) THEN <<"GeneralError">> ELSE Ok)
                                     /\ UNCHANGED <<objects, nextHandle, events>>
                                ELSE /\ CanAlloc(1) /\ nextHandle' = nextHandle + 1
                                     /\ objects' = Extend(objects, nextHandle,
                                                         [path |-> r, parent |-> parent])
                                     /\ Announce(Added(nextHandle) \o StorageChanged(s))
                                     /\ Reply(Ok)
                             /\ UNCHANGED <<session, send>>
  BY DEF CopyObject
<1>2. CASE CopyRefusal(h, s, parent) # "none"
  <2>1. Refuse(CopyRefusal(h, s, parent))
    BY <1>1, <1>2
  <2>2. CopyRefusal(h, s, parent) \in {"InvalidObjectHandle", "StoreReadOnly", "InvalidParent"}
    BY <1>2 DEF CopyRefusal
  <2> QED BY <2>1, <2>2, Refusal
<1>3. CASE CopyRefusal(h, s, parent) = "none"
  <2>1. Tracked(h) /\ s \notin ReadOnly /\ (parent = Root \/ Tracked(parent))
    BY <1>3 DEF CopyRefusal
  <2>2. PICK p \in Paths : p = objects[h].path
    BY <2>1, ObjectTypes DEF Tracked
  <2>3. PICK r : r = Destination(h, s, parent)
    OBVIOUS
  <2>4. /\ Fits(p, r)
        /\ IF ~Valid(r) \/ ~CanCopy(disk, p, r) THEN FailedCopy(p, r)
           ELSE /\ disk' = Copied(disk, p, r, Below(disk, p))
                /\ Notify(Came(Host, DOMAIN disk' \ DOMAIN disk))
                /\ IF Clashes(h, s, parent)
                   THEN /\ Reply(IF IsDir(disk, p) THEN <<"GeneralError">> ELSE Ok)
                        /\ UNCHANGED <<objects, nextHandle, events>>
                   ELSE /\ CanAlloc(1) /\ nextHandle' = nextHandle + 1
                        /\ objects' = Extend(objects, nextHandle, [path |-> r, parent |-> parent])
                        /\ Announce(Added(nextHandle) \o StorageChanged(s))
                        /\ Reply(Ok)
                /\ UNCHANGED <<session, send>>
    BY <1>1, <1>3, <2>2, <2>3
  <2>5. /\ r \in Paths /\ r[1] = s
        /\ \A q \in Below(disk, p) : Rebase(q, p, r) \in Paths /\ Rebase(q, p, r) \in Places
    <3>1. Last(p) \in Names /\ r = PathOf(s, parent) \o <<Last(p)>>
      BY <2>2, <2>3, PathTypes DEF Destination
    <3>2. Fits(p, r) /\ (parent = Root \/ parent \in DOMAIN objects)
      BY <2>1, <2>4 DEF Tracked
    <3>3. PICK name \in Names : r = PathOf(s, parent) \o <<name>>
      BY <3>1
    <3>4. DeviceInv
      OBVIOUS
    <3> QED BY ONLY <3>2, <3>3, <3>4, FitsPlaces
  <2>6. CASE ~Valid(r) \/ ~CanCopy(disk, p, r)
    BY <2>1, <2>4, <2>5, <2>6, FailedCopyAnswers
  <2>7. CASE ~(~Valid(r) \/ ~CanCopy(disk, p, r))
    <3>1. /\ disk' = Copied(disk, p, r, Below(disk, p))
          /\ Notify(Came(Host, DOMAIN disk' \ DOMAIN disk))
          /\ UNCHANGED <<session, send>>
      BY <2>4, <2>7
    <3>2. Tree(disk') /\ \A x \in ReadOnly : SameOn(x, disk, disk')
      <4>1. p \in Places /\ r \in Places /\ Tree(disk)
        BY <2>5, PathTypes DEF DeviceInv
      <4>2. Tree(disk') /\ \A x \in Storages : x # r[1] => SameOn(x, disk, disk')
        BY <2>5, <2>7, <3>1, <4>1, WholeCopy
      <4> QED BY <2>1, <2>5, <4>2, DeviceAssumption
    <3>3. notes' \in Seq(AllNotes)
      <4>1. Below(disk, p) \in SUBSET Below(disk, p)
        OBVIOUS
      <4>2. Came(Host, DOMAIN disk' \ DOMAIN disk) \in SUBSET Seq(AllNotes)
        BY <2>5, <3>1, <3>2, <4>1, CopyNoted
      <4> QED BY <3>1, <4>2, Notified DEF DeviceInv
    <3>4. CASE Clashes(h, s, parent)
      <4>1. /\ Reply(IF IsDir(disk, p) THEN <<"GeneralError">> ELSE Ok)
            /\ UNCHANGED <<objects, nextHandle, events>>
        BY <2>4, <2>7, <3>4
      <4>2. HandleStep /\ Announces
        BY <4>1, HandlesStay, EventsStay
      <4>3. replies' = Ok \/ Fails("GeneralError")
        BY <4>1 DEF Fails, Reply, Ok
      <4> QED BY <3>1, <3>2, <3>3, <4>1, <4>2, <4>3 DEF Outcome, Answers, DeviceInv, Codes
    <3>5. CASE ~Clashes(h, s, parent)
      <4>1. /\ CanAlloc(1) /\ nextHandle' = nextHandle + 1
            /\ objects' = Extend(objects, nextHandle, [path |-> r, parent |-> parent])
            /\ Announce(Added(nextHandle) \o StorageChanged(s))
            /\ Reply(Ok)
        BY <2>4, <2>7, <3>5
      <4>2. HandleStep /\ nextHandle \in nextHandle .. nextHandle' - 1
        BY <2>5, <4>1, HandleAdded
      <4>3. nextHandle \in Nat /\ nextHandle' \in Nat
        BY <4>1, Bounds
      <4>4. Announces
        <5>1. Added(nextHandle) \o StorageChanged(s) \in Seq(EventsOn(nextHandle, nextHandle'))
          BY <4>2, <4>3, EventTypes
        <5> QED BY <4>1, <5>1 DEF Announces, Announce
      <4>5. send' \in Sends(nextHandle') /\ replies' = Ok
        BY <3>1, <4>1, <4>2, SendStays DEF Reply, Ok, HandleStep
      <4> QED BY <3>1, <3>2, <3>3, <4>2, <4>4, <4>5 DEF Outcome, Answers, DeviceInv
    <3> QED BY <3>4, <3>5
  <2> QED BY <2>6, <2>7
<1> QED BY <1>2, <1>3
-----------------------------------------------------------------------------
(* The watcher and the registry *)

LEMMA GuardsStay ==
  ASSUME GuardInv, UNCHANGED <<pauses, dropped, holding>>
  PROVE  GuardInv'
  BY DEF GuardInv

(* Of a sequence, at most the last n. *)
LEMMA LastOfIs ==
  ASSUME NEW T, NEW s \in Seq(T), NEW n \in Nat
  PROVE  LastOf(s, n) \in Seq(T) /\ Len(LastOf(s, n)) <= n
<1>1. PICK k \in Nat : k = Len(s)
  BY LenProperties
<1>2. PICK m \in 1 .. k + 1 : m = IF k > n THEN k - n + 1 ELSE 1
  <2>1. (IF k > n THEN k - n + 1 ELSE 1) \in 1 .. k + 1
    BY <1>1
  <2> QED BY <2>1
<1>3. \A i \in m .. k : s[i] \in T
  <2>1. \A i \in m .. k : i \in 1 .. k
    BY <1>2
  <2> QED BY <1>1, <2>1, ElementOfSeq
<1>4. /\ SubSeq(s, m, k) \in Seq(T)
      /\ Len(SubSeq(s, m, k)) = IF m <= k THEN k - m + 1 ELSE 0
  <2>1. m \in Int /\ k \in Int
    BY <1>1, <1>2
  <2> QED BY <1>3, <2>1, SubSeqProperties
<1>5. (IF m <= k THEN k - m + 1 ELSE 0) <= n
  BY <1>1, <1>2
<1>6. LastOf(s, n) = SubSeq(s, m, k)
  BY <1>1, <1>2 DEF LastOf
<1> QED BY <1>4, <1>5, <1>6

LEMMA WatchCreates ==
  ASSUME DeviceInv, NEW n \in AllNotes, WatchCreate(n)
  PROVE  HandleStep /\ Announces
<1>1. CASE Tracks(objects, n.path) # {}
  BY <1>1, HandlesStay, EventsStay DEF WatchCreate
<1>2. CASE Tracks(objects, n.path) = {}
  <2>1. PICK p \in Paths : p = n.path /\ p[1] \in Storages
    BY PathTypes DEF AllNotes
  <2>2. /\ CanAlloc(1) /\ nextHandle' = nextHandle + 1
        /\ Announce(Added(nextHandle) \o StorageChanged(p[1]))
    BY <1>2, <2>1 DEF WatchCreate
  <2>3. PICK parent \in IF Len(p) = 2 \/ Tracks(objects, Front(p)) = {} THEN {Root}
                        ELSE Tracks(objects, Front(p)) :
          objects' = Extend(objects, nextHandle, [path |-> p, parent |-> parent])
    BY <1>2, <2>1 DEF WatchCreate
  <2>4. parent \in 0 .. nextHandle - 1
    <3>1. parent = 0 \/ parent \in DOMAIN objects
      BY <2>3 DEF Tracks, Root
    <3> QED BY <3>1, Bounds, ObjectTypes
  <2>5. HandleStep /\ nextHandle \in nextHandle .. nextHandle' - 1
    BY <2>2, <2>3, <2>4, HandleAdded
  <2>6. Announces
    <3>1. nextHandle \in Nat /\ nextHandle' \in Nat
      BY <2>2, Bounds
    <3>2. Added(nextHandle) \o StorageChanged(p[1]) \in Seq(EventsOn(nextHandle, nextHandle'))
      BY <2>1, <2>5, <3>1, EventTypes
    <3> QED BY <2>2, <3>2 DEF Announces, Announce
  <2> QED BY <2>5, <2>6
<1> QED BY <1>1, <1>2

LEMMA WatchRemoves ==
  ASSUME DeviceInv, NEW n \in AllNotes, WatchRemove(n)
  PROVE  HandleStep /\ Announces
<1>1. CASE Tracks(objects, n.path) = {}
  BY <1>1, HandlesStay, EventsStay DEF WatchRemove
<1>2. CASE Tracks(objects, n.path) # {}
  <2>1. PICK s \in Storages : s = n.path[1]
    BY PathTypes DEF AllNotes
  <2>2. UNCHANGED nextHandle
    BY <1>2 DEF WatchRemove
  <2>3. PICK h \in Tracks(objects, n.path) :
          /\ objects' = [x \in DOMAIN objects \ {h} |-> objects[x]]
          /\ Announce(Removed(h) \o StorageChanged(s))
    BY <1>2, <2>1 DEF WatchRemove
  <2>4. HandleStep
    <3>1. DOMAIN objects' \subseteq DOMAIN objects /\ \A x \in DOMAIN objects' : objects'[x] = objects[x]
      BY <2>3
    <3> QED BY <2>2, <3>1, HandlesGone
  <2>5. Announces
    <3>1. nextHandle \in Nat /\ nextHandle' = nextHandle /\ h \in 1 .. nextHandle - 1
      BY <2>2, <2>3, Bounds, ObjectTypes DEF Tracks
    <3>2. Removed(h) \o StorageChanged(s) \in Seq(EventsOn(nextHandle, nextHandle'))
      BY <3>1, EventTypes
    <3> QED BY <2>3, <3>2 DEF Announces, Announce
  <2> QED BY <2>4, <2>5
<1> QED BY <1>1, <1>2

LEMMA WatchEventKeeps ==
  ASSUME VirtualInv, WatchEvent
  PROVE  VirtualInv' /\ TruthfulSteps /\ CleanSteps
<1>1. DeviceInv /\ GuardInv
  BY DEF VirtualInv
<1>2. /\ notes # <<>> /\ notes' = Tail(notes)
      /\ UNCHANGED <<disk, session, send, command, replies, pauses, holding>>
  BY DEF WatchEvent
<1>3. Head(notes) \in AllNotes /\ notes' \in Seq(AllNotes)
  BY <1>1, <1>2, HeadTailProperties DEF DeviceInv
<1>4. PICK n \in AllNotes : n = Head(notes)
  BY <1>3
<1>5. (HandleStep /\ Announces) /\ GuardInv'
  <2>1. CASE pauses > 0
    <3>1. /\ dropped' = LastOf(Append(dropped, n.path), DroppedCap)
          /\ UNCHANGED <<objects, nextHandle, events>>
      BY <1>4, <2>1 DEF WatchEvent
    <3>2. Append(dropped, n.path) \in Seq(Paths)
      BY <1>1 DEF GuardInv, AllNotes
    <3>3. dropped' \in Seq(Paths) /\ Len(dropped') <= DroppedCap
      BY <3>1, <3>2, LastOfIs, DeviceAssumption
    <3>4. HandleStep /\ Announces
      BY <1>1, <3>1, HandlesStay, EventsStay
    <3> QED BY <1>1, <1>2, <3>3, <3>4 DEF GuardInv
  <2>2. CASE ~(pauses > 0)
    <3>1. /\ IF n.gone THEN WatchRemove(n) ELSE WatchCreate(n)
          /\ UNCHANGED dropped
      BY <1>4, <2>2 DEF WatchEvent
    <3>2. HandleStep /\ Announces
      BY <1>1, <3>1, WatchCreates, WatchRemoves
    <3> QED BY <1>1, <1>2, <3>1, <3>2, GuardsStay
  <2> QED BY <2>1, <2>2
<1>6. Outcome
  <2>1. send' \in Sends(nextHandle')
    BY <1>1, <1>2, <1>5, SendStays DEF HandleStep
  <2> QED BY <1>1, <1>2, <1>3, <1>5, <2>1 DEF Outcome, DeviceInv
<1> QED BY <1>2, <1>5, <1>6, SilentKeeps

(* The events of a rescan: one for each handle or storage of a set. *)
LEMMA EventsOfIs ==
  ASSUME NEW T, NEW S, IsFiniteSet(S), NEW what, \A x \in S : [code |-> what, arg |-> x] \in T
  PROVE  EventsOf(what, S) \in Seq(T)
<1>1. PICK k \in Nat : k = Cardinality(S) /\ ExistsBijection(1 .. k, S)
  BY FS_CardinalityType
<1>2. \E f \in [1 .. k -> S] : IsInjective(f)
  BY <1>1 DEF ExistsBijection, Bijection, Injection
<1>3. SetToSeq(S) \in [1 .. k -> S]
  BY <1>1, <1>2 DEF SetToSeq
<1>4. \A i \in 1 .. k : [code |-> what, arg |-> SetToSeq(S)[i]] \in T
  BY <1>3
<1>5. EventsOf(what, S) \in [1 .. k -> T]
  BY <1>1, <1>4 DEF EventsOf
<1> QED BY <1>5

LEMMA RescanKeeps ==
  ASSUME VirtualInv, RescanBackingDirs
  PROVE  VirtualInv' /\ TruthfulSteps /\ CleanSteps
<1>1. DeviceInv /\ GuardInv /\ Tree(disk)
  BY DEF VirtualInv, DeviceInv
<1> DEFINE stale == {h \in DOMAIN objects : ~Has(disk, objects[h].path)}
           kept == [h \in DOMAIN objects \ stale |-> objects[h]]
           entries == {p \in DOMAIN disk : Len(p) > 1}
           new == Untracked(kept, entries)
           roots == {objects[h].path[1] : h \in stale} \cup {p[1] : p \in new}
<1>2. /\ CanAlloc(Cardinality(new))
      /\ \E order \in SetToSeqs(new) : \E parent \in ParentsOf(kept, order) :
           objects' = Track(kept, order, parent)
      /\ nextHandle' = nextHandle + Cardinality(new)
      /\ Announce(EventsOf("ObjectRemoved", stale)
                  \o EventsOf("ObjectAdded", nextHandle .. nextHandle + Cardinality(new) - 1)
                  \o EventsOf("StorageInfoChanged", roots))
      /\ UNCHANGED <<disk, session, send, command, replies, notes, pauses, dropped, holding>>
  BY DEF RescanBackingDirs
<1>3. /\ HandlesAre(kept, nextHandle) /\ DOMAIN kept \subseteq DOMAIN objects
      /\ stale \subseteq DOMAIN objects /\ entries \in SUBSET DOMAIN disk /\ \A p \in entries : Len(p) > 1
  BY <1>1 DEF DeviceInv, HandlesAre
<1>4. stale \subseteq 1 .. nextHandle - 1
  BY <1>1, <1>3 DEF DeviceInv, HandlesAre
<1>5. roots \subseteq Storages
  <2>1. \A h \in stale : objects[h].path[1] \in Storages
    BY <1>1, <1>3, ObjectTypes
  <2>2. \A p \in new : p[1] \in Storages
    BY <1>1, PlaceTypes DEF Untracked, Tree
  <2> QED BY <2>1, <2>2
<1> HIDE DEF stale, kept, entries, roots
<1>6. new \in SUBSET Paths /\ IsFiniteSet(new)
  BY <1>1, <1>3, EntriesArePaths
<1> HIDE DEF new
<1>7. PICK k \in Nat : k = Cardinality(new)
  BY <1>6, FS_CardinalityType
<1>8. HandleStep
  BY <1>1, <1>2, <1>3, <1>6, Listing
<1>9. nextHandle \in Nat /\ nextHandle' \in Nat /\ nextHandle' = nextHandle + k /\ nextHandle <= nextHandle'
  BY <1>1, <1>2, <1>7, Bounds
<1>10. Announces
  <2> DEFINE E == EventsOn(nextHandle, nextHandle')
  <2>1. EventsOf("ObjectRemoved", stale) \in Seq(E)
    <3>1. IsFiniteSet(stale)
      <4>1. IsFiniteSet(1 .. nextHandle - 1)
        BY <1>9, FS_Interval
      <4> QED BY <1>4, <4>1, FS_Subset
    <3>2. \A h \in stale : h \in 1 .. nextHandle' - 1
      BY <1>4, <1>9
    <3>3. \A h \in stale : [code |-> "ObjectRemoved", arg |-> h] \in E
      BY <3>2 DEF EventsOn
    <3> HIDE DEF E
    <3> QED BY <3>1, <3>3, EventsOfIs
  <2>2. EventsOf("ObjectAdded", nextHandle .. nextHandle + Cardinality(new) - 1) \in Seq(E)
    <3>1. IsFiniteSet(nextHandle .. nextHandle' - 1)
      BY <1>9, FS_Interval
    <3>2. \A h \in nextHandle .. nextHandle' - 1 : [code |-> "ObjectAdded", arg |-> h] \in E
      BY DEF EventsOn
    <3> HIDE DEF E
    <3>3. EventsOf("ObjectAdded", nextHandle .. nextHandle' - 1) \in Seq(E)
      BY <3>1, <3>2, EventsOfIs
    <3>4. nextHandle + Cardinality(new) - 1 = nextHandle' - 1
      BY ONLY <1>7, <1>9
    <3> QED BY ONLY <3>3, <3>4
  <2>3. EventsOf("StorageInfoChanged", roots) \in Seq(E)
    <3>1. IsFiniteSet(roots)
      BY <1>5, FS_Subset, DeviceAssumption
    <3>2. \A s \in roots : [code |-> "StorageInfoChanged", arg |-> s] \in E
      BY <1>5 DEF EventsOn
    <3> HIDE DEF E
    <3> QED BY <3>1, <3>2, EventsOfIs
  <2> HIDE DEF E
  <2>4. PICK a \in Seq(E), b \in Seq(E), c \in Seq(E) : events' = events \o (a \o b \o c)
    BY <1>2, <2>1, <2>2, <2>3 DEF Announce
  <2>5. a \o b \o c \in Seq(E)
    OBVIOUS
  <2> QED BY <2>4, <2>5 DEF Announces, E
<1>11. Outcome
  <2>1. send' \in Sends(nextHandle')
    BY <1>1, <1>2, <1>8, SendStays DEF HandleStep
  <2> QED BY <1>1, <1>2, <1>8, <1>10, <2>1 DEF Outcome, DeviceInv
<1> QED BY <1>1, <1>2, <1>11, GuardsStay, SilentKeeps

LEMMA RekeyKeeps ==
  ASSUME VirtualInv, RekeyObject
  PROVE  VirtualInv' /\ TruthfulSteps /\ CleanSteps
<1>1. DeviceInv /\ GuardInv
  BY DEF VirtualInv
<1>2. /\ CanAlloc(1) /\ nextHandle' = nextHandle + 1
      /\ UNCHANGED <<disk, session, send, command, replies, events, notes, pauses, dropped, holding>>
  BY DEF RekeyObject, watch
<1>3. PICK h \in DOMAIN objects :
        LET rest == Extend([x \in DOMAIN objects \ {h} |-> objects[x]], nextHandle, objects[h])
        IN  objects' = [x \in DOMAIN rest |->
              [rest[x] EXCEPT !.parent = IF @ = h THEN nextHandle ELSE @]]
  BY DEF RekeyObject
<1> DEFINE rest == Extend([x \in DOMAIN objects \ {h} |-> objects[x]], nextHandle, objects[h])
<1>4. /\ objects' = [x \in DOMAIN rest |->
                       [rest[x] EXCEPT !.parent = IF rest[x].parent = h THEN nextHandle ELSE rest[x].parent]]
      /\ DOMAIN rest = (DOMAIN objects \ {h}) \cup {nextHandle}
      /\ \A x \in DOMAIN rest : rest[x] \in ObjectsAt(nextHandle)
  <2>1. DOMAIN rest = (DOMAIN objects \ {h}) \cup {nextHandle}
    BY DEF Extend
  <2>2. \A x \in DOMAIN rest : rest[x] = objects[h] \/ (x \in DOMAIN objects /\ rest[x] = objects[x])
    BY <2>1 DEF Extend
  <2>3. \A x \in DOMAIN rest : rest[x] \in ObjectsAt(nextHandle)
    BY <1>1, <2>2, ObjectTypes
  <2> QED BY <1>3, <2>1, <2>3
<1> HIDE DEF rest
<1>5. nextHandle \in Nat /\ nextHandle >= 1 /\ nextHandle + 1 <= MaxHandle + 1 /\ MaxHandle \in Nat
  BY <1>1, <1>2, Bounds DEF CanAlloc
<1>6. HandleStep
  <2>1. ASSUME NEW x \in DOMAIN objects'
        PROVE  x \in 1 .. nextHandle' - 1 /\ objects'[x] \in ObjectsAt(nextHandle')
    <3>1. x \in DOMAIN rest
      BY <1>4
    <3>2. PICK p \in Paths, parent \in 0 .. nextHandle - 1 : rest[x] = [path |-> p, parent |-> parent]
      BY <1>4, <3>1 DEF ObjectsAt
    <3>3. objects'[x] = [rest[x] EXCEPT !.parent = IF rest[x].parent = h THEN nextHandle ELSE rest[x].parent]
      BY <1>4, <3>1
    <3>4. objects'[x] = [path |-> p, parent |-> IF parent = h THEN nextHandle ELSE parent]
      BY <3>2, <3>3
    <3>5. (IF parent = h THEN nextHandle ELSE parent) \in 0 .. nextHandle' - 1
      BY <1>2, <1>5
    <3>6. x \in 1 .. nextHandle' - 1
      BY <1>1, <1>2, <1>4, <1>5, <3>1, ObjectTypes
    <3> QED BY <3>4, <3>5, <3>6 DEF ObjectsAt
  <2>2. \A x \in DOMAIN objects' \ DOMAIN objects : x \in nextHandle .. nextHandle' - 1
    BY <1>2, <1>4, <1>5
  <2>3. nextHandle' \in nextHandle .. MaxHandle + 1
    BY <1>2, <1>5
  <2> QED BY <2>1, <2>2, <2>3 DEF HandleStep, HandlesAre
<1>7. Outcome
  <2>1. send' \in Sends(nextHandle') /\ Announces
    BY <1>1, <1>2, <1>6, SendStays, EventsStay DEF HandleStep
  <2> QED BY <1>1, <1>2, <1>6, <2>1 DEF Outcome, DeviceInv
<1> QED BY <1>1, <1>2, <1>7, GuardsStay, SilentKeeps

LEMMA GuardKeeps ==
  ASSUME VirtualInv, NEW t, PauseWatcher(t) \/ DropGuard(t) \/ ClearDroppedPaths
  PROVE  VirtualInv' /\ TruthfulSteps /\ CleanSteps
<1>1. DeviceInv /\ GuardInv
  BY DEF VirtualInv
<1>2. UNCHANGED <<disk, objects, nextHandle, session, send, command, replies, events, notes>>
  BY DEF PauseWatcher, DropGuard, ClearDroppedPaths, device
<1>3. GuardInv'
  <2>1. CASE PauseWatcher(t)
    <3>1. t \notin holding /\ holding' = holding \cup {t} /\ pauses' = pauses + 1 /\ dropped' = dropped
      BY <2>1 DEF PauseWatcher
    <3>2. IsFiniteSet(holding') /\ Cardinality(holding') = Cardinality(holding) + 1
      BY <1>1, <3>1, FS_AddElement DEF GuardInv
    <3> QED BY <1>1, <3>1, <3>2 DEF GuardInv
  <2>2. CASE DropGuard(t)
    <3>1. /\ t \in holding /\ holding' = holding \ {t} /\ dropped' = dropped
          /\ pauses' = IF pauses = 0 THEN 0 ELSE pauses - 1
      BY <2>2 DEF DropGuard
    <3>2. /\ IsFiniteSet(holding') /\ Cardinality(holding') = Cardinality(holding) - 1
          /\ Cardinality(holding) \in Nat /\ Cardinality(holding) # 0
      BY <1>1, <3>1, FS_RemoveElement, FS_CardinalityType, FS_EmptySet DEF GuardInv
    <3> QED BY <1>1, <3>1, <3>2 DEF GuardInv
  <2>3. CASE ClearDroppedPaths
    <3>1. dropped' = <<>> /\ holding' = holding /\ pauses' = pauses
      BY <2>3 DEF ClearDroppedPaths
    <3> QED BY <1>1, <3>1, DeviceAssumption DEF GuardInv
  <2> QED BY <2>1, <2>2, <2>3
<1>4. Outcome
  BY <1>1, <1>2, DeviceStays
<1> QED BY <1>2, <1>3, <1>4, SilentKeeps
-----------------------------------------------------------------------------
(* Changes made outside MTP *)

LEMMA OutsideChanges ==
  ASSUME DeviceInv, NEW t \in Outsiders, Outside(t)
  PROVE  Tree(disk') /\ notes' \in Seq(AllNotes)
<1>0. Tree(disk) /\ notes \in Seq(AllNotes) /\ t \in {Host} \cup Outsiders
  BY DEF DeviceInv
<1>1. ASSUME NEW p \in Paths, ~Has(disk, p), Notify(Came(t, {p})),
             \/ CanMakeDir(disk, p) /\ disk' = MakeDir(disk, p)
             \/ CanWrite(disk, p) /\ \E data \in Data : disk' = Write(disk, p, data)
      PROVE  Tree(disk') /\ notes' \in Seq(AllNotes)
  <2>1. p \in Places
    BY PathTypes
  <2>2. PICK item : disk' = Extend(disk, p, item)
    BY <1>1 DEF MakeDir, Write
  <2>3. IsDir(disk, Front(p)) /\ ~IsDir(disk, p)
    BY <1>1 DEF CanMakeDir, CanWrite, IsDir
  <2>4. Tree(disk')
    BY <1>0, <2>1, <2>2, <2>3, PutTree
  <2>5. {p} \in SUBSET Paths /\ IsFiniteSet({p})
    BY FS_Singleton
  <2>6. Came(t, {p}) \in SUBSET Seq(AllNotes)
    BY <1>0, <2>5, NoteTypes
  <2> QED BY <1>0, <1>1, <2>4, <2>6, Notified
<1>2. ASSUME NEW p \in Paths, disk' = Cut(disk, p), Notify(Went(t, Below(disk, p)))
      PROVE  Tree(disk') /\ notes' \in Seq(AllNotes)
  <2>1. p \in Places
    BY PathTypes
  <2>2. Tree(disk')
    BY <1>0, <1>2, <2>1, CutTree
  <2>3. Below(disk, p) \in SUBSET Paths /\ IsFiniteSet(Below(disk, p))
    BY <1>0, BelowPaths
  <2>4. Went(t, Below(disk, p)) \in SUBSET Seq(AllNotes)
    BY <1>0, <2>3, NoteTypes
  <2> QED BY <1>0, <1>2, <2>2, <2>4, Notified
<1>3. ASSUME NEW p \in Paths, NEW r \in Paths, CanRename(disk, p, r),
             \A q \in Below(disk, p) : Rebase(q, p, r) \in Paths,
             disk' = Renamed(disk, p, r), Notify(Then(Went(t, {p}), Came(t, {r})))
      PROVE  Tree(disk') /\ notes' \in Seq(AllNotes)
  <2>1. p \in Places /\ r \in Places /\ Len(r) > 1
    BY PathTypes
  <2>2. \A q \in Below(disk, p) : Rebase(q, p, r) \in Places
    BY <1>3, PathTypes
  <2>3. Tree(disk')
    BY <1>0, <1>3, <2>1, <2>2, RenamedTree
  <2>4. /\ {p} \in SUBSET Paths /\ IsFiniteSet({p})
        /\ {r} \in SUBSET Paths /\ IsFiniteSet({r})
    BY FS_Singleton
  <2>5. Went(t, {p}) \in SUBSET Seq(AllNotes) /\ Came(t, {r}) \in SUBSET Seq(AllNotes)
    BY <1>0, <2>4, NoteTypes
  <2>6. Then(Went(t, {p}), Came(t, {r})) \in SUBSET Seq(AllNotes)
    BY <1>0, <2>5, Notified
  <2> QED BY <1>0, <1>3, <2>3, <2>6, Notified
<1>4. \/ \E p \in Paths :
           /\ ~Has(disk, p)
           /\ \/ CanMakeDir(disk, p) /\ disk' = MakeDir(disk, p)
              \/ CanWrite(disk, p) /\ \E data \in Data : disk' = Write(disk, p, data)
           /\ Notify(Came(t, {p}))
      \/ \E p \in DOMAIN disk \cap Paths :
           disk' = Cut(disk, p) /\ Notify(Went(t, Below(disk, p)))
      \/ \E p \in DOMAIN disk \cap Paths, r \in Paths :
           /\ p # r /\ CanRename(disk, p, r) /\ NameIsFree(r)
           /\ IsDir(disk, p) => DirMoves
           /\ \A q \in Below(disk, p) : Rebase(q, p, r) \in Paths
           /\ disk' = Renamed(disk, p, r) /\ Notify(Then(Went(t, {p}), Came(t, {r})))
  BY DEF Outside
<1> QED BY <1>1, <1>2, <1>3, <1>4

LEMMA OutsideKeeps ==
  ASSUME VirtualInv, NEW t \in Outsiders, Outside(t)
  PROVE  VirtualInv' /\ TruthfulSteps /\ CleanSteps
<1>1. DeviceInv /\ GuardInv
  BY DEF VirtualInv
<1>2. UNCHANGED <<objects, nextHandle, session, send, command, replies, events, pauses, dropped, holding>>
  BY DEF Outside
<1>3. Tree(disk') /\ notes' \in Seq(AllNotes)
  BY <1>1, OutsideChanges
<1>4. HandleStep /\ Announces
  BY <1>1, <1>2, HandlesStay, EventsStay
<1>5. Outcome
  BY <1>1, <1>2, <1>3, <1>4 DEF Outcome, DeviceInv
<1> QED BY <1>1, <1>2, <1>5, GuardsStay, SilentKeeps
-----------------------------------------------------------------------------
(* Every step *)

LEMMA HostKeeps ==
  ASSUME VirtualInv, HostNext
  PROVE  VirtualInv' /\ TruthfulSteps /\ CleanSteps
<1>0. DeviceInv /\ CallInv /\ command \in Commands(nextHandle)
  BY DEF VirtualInv, CallInv
<1>1. CASE SendBulk \/ ReceiveBulk \/ ReceiveInterrupt \/ CancelTransfer
  BY <1>1, TransportKeeps
<1>2. CASE SessionNotOpen \/ OpenSession \/ CloseSession \/ Read
  <2>1. Dispatched
    BY <1>0, <1>2, Dispatches DEF SessionNotOpen, OpenSession, CloseSession, Read
  <2> QED BY <1>0, <1>2, <2>1, SessionAnswers, AnswerKeeps DEF Dispatched
<1>3. CASE GetObjectHandles \/ GetObjectPropList
  <2>1. Dispatched
    BY <1>0, <1>3, Dispatches DEF GetObjectHandles, GetObjectPropList
  <2> QED BY <1>0, <1>3, <2>1, ListingAnswers, AnswerKeeps DEF Dispatched
<1>4. CASE SendObjectInfo
  <2>1. Dispatched
    BY <1>0, <1>4, Dispatches DEF SendObjectInfo
  <2> QED BY <1>0, <1>4, <2>1, SendObjectInfoAnswers, AnswerKeeps DEF Dispatched
<1>5. CASE SendObject
  <2>1. Dispatched
    BY <1>0, <1>5, Dispatches DEF SendObject
  <2> QED BY <1>0, <1>5, <2>1, SendObjectAnswers, AnswerKeeps DEF Dispatched
<1>6. CASE DeleteObject
  <2>1. Dispatched
    BY <1>0, <1>6, Dispatches DEF DeleteObject
  <2> QED BY <1>0, <1>6, <2>1, DeleteObjectAnswers, AnswerKeeps DEF Dispatched
<1>7. CASE SetObjectPropValue
  <2>1. Dispatched
    BY <1>0, <1>7, Dispatches DEF SetObjectPropValue
  <2> QED BY <1>0, <1>7, <2>1, SetObjectPropValueAnswers, AnswerKeeps DEF Dispatched
<1>8. CASE MoveObject
  <2>1. Dispatched
    BY <1>0, <1>8, Dispatches DEF MoveObject
  <2> QED BY <1>0, <1>8, <2>1, MoveObjectAnswers, AnswerKeeps DEF Dispatched
<1>9. CASE CopyObject
  <2>1. Dispatched
    BY <1>0, <1>9, Dispatches DEF CopyObject
  <2> QED BY <1>0, <1>9, <2>1, CopyObjectAnswers, AnswerKeeps DEF Dispatched
<1> QED BY <1>1, <1>2, <1>3, <1>4, <1>5, <1>6, <1>7, <1>8, <1>9 DEF HostNext

LEMMA VirtualKeeps ==
  ASSUME VirtualInv, [VirtualNext]_virtualVars
  PROVE  VirtualInv' /\ TruthfulSteps /\ CleanSteps
<1>1. CASE HostNext
  BY <1>1, HostKeeps
<1>2. CASE WatchNext
  <2>1. CASE WatchEvent
    BY <2>1, WatchEventKeeps
  <2>2. CASE RescanBackingDirs
    BY <2>2, RescanKeeps
  <2>3. CASE RekeyObject
    BY <2>3, RekeyKeeps
  <2>4. CASE ClearDroppedPaths
    BY <2>4, GuardKeeps
  <2>5. CASE \E t \in Outsiders : "Pause" \in Ops /\ (PauseWatcher(t) \/ DropGuard(t))
    BY <2>5, GuardKeeps
  <2> QED BY <1>2, <2>1, <2>2, <2>3, <2>4, <2>5 DEF WatchNext
<1>3. CASE OutsideNext
  BY <1>3, OutsideKeeps DEF OutsideNext
<1>4. CASE UNCHANGED virtualVars
  <2>1. UNCHANGED <<disk, objects, nextHandle, session, send, command, replies, events, notes,
                    pauses, dropped, holding>>
    BY <1>4 DEF virtualVars, device, watch
  <2>2. DeviceInv /\ GuardInv
    BY DEF VirtualInv
  <2>3. Outcome
    BY <2>1, <2>2, DeviceStays
  <2> QED BY <2>1, <2>2, <2>3, GuardsStay, SilentKeeps
<1> QED BY <1>1, <1>2, <1>3, <1>4 DEF VirtualNext

LEMMA VirtualStarts == VirtualInit => VirtualInv
<1> SUFFICES ASSUME VirtualInit PROVE VirtualInv
  OBVIOUS
<1> DEFINE roots == {<<s>> : s \in Storages}
<1>1. /\ disk = [p \in roots |-> Dir] /\ objects = <<>> /\ nextHandle = 1
      /\ session = FALSE /\ send = NoSend /\ command = NoCommand
      /\ replies = <<>> /\ events = <<>> /\ notes = <<>> /\ pauses = 0 /\ dropped = <<>> /\ holding = {}
  BY DEF VirtualInit
<1>2. Tree(disk)
  <2>1. IsFiniteSet(roots)
    <3> DEFINE f == [s \in Storages |-> <<s>>]
    <3>1. f \in Surjection(Storages, roots)
      BY DEF Surjection
    <3> QED BY <3>1, FS_Surjection, DeviceAssumption
  <2>2. ASSUME NEW p \in roots PROVE p \in Places /\ ~(Len(p) > 1)
    <3>1. PICK s \in Storages : p = <<s>>
      BY <2>2
    <3>2. <<s>> \in Places /\ Len(<<s>>) = 1
      BY RootsArePlaces
    <3> QED BY <3>1, <3>2
  <2> QED BY <1>1, <2>1, <2>2 DEF Tree
<1>3. nextHandle \in 1 .. MaxHandle + 1
  BY <1>1, DeviceAssumption
<1>4. HandlesAre(objects, nextHandle)
  BY <1>1 DEF HandlesAre
<1>5. DeviceInv
  <2>1. send \in Sends(nextHandle)
    BY <1>1 DEF Sends
  <2>2. events \in Seq(EventsOn(1, nextHandle)) /\ notes \in Seq(AllNotes) /\ session \in BOOLEAN
    <3>1. events = <<>> /\ notes = <<>>
      BY <1>1
    <3>2. events \in Seq(EventsOn(1, nextHandle)) /\ notes \in Seq(AllNotes)
      BY ONLY <3>1
    <3>3. session \in BOOLEAN
      BY <1>1
    <3> QED BY <3>2, <3>3
  <2> QED BY <1>2, <1>3, <1>4, <2>1, <2>2 DEF DeviceInv
<1>6. CallInv
  BY <1>1 DEF CallInv, Commands
<1>7. GuardInv
  BY <1>1, FS_EmptySet, DeviceAssumption DEF GuardInv
<1> QED BY <1>5, <1>6, <1>7 DEF VirtualInv

LEMMA VirtualShape == VirtualInv => VirtualTypeOK
<1> SUFFICES ASSUME VirtualInv PROVE VirtualTypeOK
  OBVIOUS
<1>1. DeviceInv /\ CallInv /\ GuardInv
  BY DEF VirtualInv
<1>2. Tree(disk) /\ nextHandle \in 1 .. MaxHandle + 1 /\ nextHandle \in Nat /\ nextHandle >= 1
  BY <1>1, Bounds DEF DeviceInv
<1>3. DOMAIN disk \subseteq Paths \cup {<<s>> : s \in Storages}
  <2>1. SUFFICES ASSUME NEW p \in Places, ~(Len(p) > 1) PROVE p \in {<<s>> : s \in Storages}
    BY <1>2, PathsArePlaces DEF Tree
  <2>2. PICK s \in Storages : s = p[1]
    <3>1. p[1] \in Storages
      BY PlaceTypes
    <3> QED BY <3>1
  <2>3. Len(p) = 1 /\ p \in Seq(Elements)
    <3>1. p \in Seq(Elements)
      BY PlaceTypes
    <3>2. PICK n \in Nat : n = Len(p) /\ n >= 1
      BY PlaceTypes
    <3>3. ~(n > 1)
      BY ONLY <2>1, <3>2
    <3>4. n = 1
      BY ONLY <3>2, <3>3
    <3> QED BY <3>1, <3>2, <3>4
  <2>4. <<s>> \in Seq(Elements) /\ Len(<<s>>) = 1 /\ <<s>>[1] = s
    BY DEF Elements
  <2>5. \A i \in 1 .. 1 : p[i] = <<s>>[i]
    BY <2>2, <2>4
  <2>6. p = <<s>>
    BY <2>3, <2>4, <2>5, SeqEqual
  <2> QED BY <2>6
<1>4. \A h \in DOMAIN objects :
        h \in 1 .. nextHandle - 1 /\ objects[h].path \in Paths /\ objects[h].parent < nextHandle
  BY <1>1, <1>2 DEF DeviceInv, HandlesAre, ObjectsAt
<1>5. send.handle < nextHandle
  BY <1>1, <1>2 DEF DeviceInv, Sends, NoSend
<1>6. ASSUME NEW i \in 1 .. Len(events),
             events[i].code \in {"ObjectAdded", "ObjectRemoved", "ObjectInfoChanged"}
      PROVE  events[i].arg \in 1 .. nextHandle - 1
  <2>1. PICK e \in EventsOn(1, nextHandle) : e = events[i]
    BY <1>1, ElementOfSeq DEF DeviceInv
  <2> QED BY <1>6, <2>1 DEF EventsOn
<1> QED BY <1>1, <1>2, <1>3, <1>4, <1>5, <1>6 DEF VirtualTypeOK, Tree, CallInv, GuardInv, DeviceInv
-----------------------------------------------------------------------------
(* The theorems *)

(* Every behaviour of the device, its watcher and the programs around it keeps *)
(* the invariant: the steps of the device nobody watches are among its own.    *)
LEMMA VirtualInvariant ==
  /\ VirtualSpec => []VirtualInv
  /\ UnwatchedSpec => VirtualSpec
<1>1. VirtualInv /\ [VirtualNext]_virtualVars => VirtualInv'
  BY VirtualKeeps
<1>2. [HostNext \/ OutsideNext]_virtualVars => [VirtualNext]_virtualVars
  BY DEF VirtualNext
<1> QED BY <1>1, <1>2, VirtualStarts, PTL DEF VirtualSpec, UnwatchedSpec

(* The shape of the device's state, for every tree of files, every host and    *)
(* every program around it: what is on disk hangs together, every handle that  *)
(* is tracked, announced or pending has been allocated, every pause has its    *)
(* guard (virtual_device: state.rs, handlers.rs, watcher.rs).                  *)
THEOREM DeviceIsTyped == VirtualSpec => []VirtualTypeOK
<1> QED BY VirtualInvariant, VirtualShape, PTL

(* A handle names one object for ever, and an object is announced as added     *)
(* when it gets its handle, once (alloc_handle, the events of handlers.rs and  *)
(* watcher.rs).                                                                *)
THEOREM DeviceHandlesAreTruthful == VirtualSpec => HandlesAreTruthful
<1>1. VirtualInv /\ [VirtualNext]_virtualVars => TruthfulSteps
  BY VirtualKeeps
<1>2. TruthfulSteps =>
        /\ nextHandle' >= nextHandle
        /\ \A h \in DOMAIN objects' \ DOMAIN objects :
             h \in nextHandle .. nextHandle' - 1 \/ h = send.handle
  BY DEF TruthfulSteps, FreshStep
<1>3. TruthfulSteps =>
        \A i \in Len(events) + 1 .. Len(events') :
          events'[i].code = "ObjectAdded" => events'[i].arg >= nextHandle
  BY DEF TruthfulSteps, OnceStep
<1> QED BY <1>1, <1>2, <1>3, VirtualInvariant, PTL
        DEF VirtualSpec, HandlesAreTruthful, HandlesStayFresh, AnnouncedOnce

(* What is refused changes no handle, announces nothing and, unless the files  *)
(* themselves failed, leaves them alone, and no operation of the host reaches  *)
(* a read-only storage (the refusals at the top of each handler).              *)
THEOREM DeviceRefusesCleanly == VirtualSpec => RefusalsAreClean
<1>1. VirtualInv /\ [VirtualNext]_virtualVars => CleanSteps
  BY VirtualKeeps
<1>2. CleanSteps =>
        LET failed == Len(replies') = 1 /\ replies = <<>> /\ replies'[1] # "OK"
        IN  failed => /\ UNCHANGED <<objects, events>>
                      /\ replies'[1] # "GeneralError" => UNCHANGED disk
  BY DEF CleanSteps, CleanStep
<1>3. CleanSteps =>
        (Len(replies') > Len(replies) =>
          \A s \in ReadOnly : Below(disk, <<s>>) = Below(disk', <<s>>)
                              /\ \A p \in Below(disk, <<s>>) : disk'[p] = disk[p])
  BY DEF CleanSteps, UntouchedStep
<1> QED BY <1>1, <1>2, <1>3, VirtualInvariant, PTL
        DEF VirtualSpec, RefusalsAreClean, RefusalsChangeNothing, ReadOnlyIsUntouched

(* So does the device nobody watches.                                          *)
THEOREM UnwatchedDeviceIsSafe ==
  UnwatchedSpec => []VirtualTypeOK /\ HandlesAreTruthful /\ RefusalsAreClean
<1> QED BY VirtualInvariant, DeviceIsTyped, DeviceHandlesAreTruthful, DeviceRefusesCleanly, PTL
-----------------------------------------------------------------------------
(* The watcher catches up *)

(* A finite set of numbers has a least one: otherwise each would have fewer   *)
(* numbers below it than there are, at least one, and no two the same.        *)
LEMMA LeastNumber ==
  ASSUME NEW S \in SUBSET Nat, IsFiniteSet(S), S # {}
  PROVE  \E m \in S : \A k \in S : m <= k
<1> DEFINE L(x) == {y \in S : y < x}
           n == Cardinality(S)
           r == [x \in S |-> Cardinality(L(x))]
<1>1. SUFFICES ASSUME \A m \in S : L(m) # {} PROVE FALSE
  <2>1. ASSUME NEW m \in S, L(m) = {} PROVE \A k \in S : m <= k
    <3>1. TAKE k \in S
    <3>2. m \in Nat /\ k \in Nat /\ ~(k < m)
      BY <2>1, <3>1
    <3> QED BY <3>2
  <2> QED BY <2>1
<1>2. n \in Nat
  BY FS_CardinalityType
<1>3. ASSUME NEW x \in S
      PROVE  IsFiniteSet(L(x)) /\ Cardinality(L(x)) \in 1 .. n - 1
  <2>1. L(x) \in SUBSET S /\ x \notin L(x)
    OBVIOUS
  <2>2. IsFiniteSet(L(x)) /\ Cardinality(L(x)) <= n /\ Cardinality(L(x)) # n
    BY <2>1, FS_Subset
  <2>3. Cardinality(L(x)) \in Nat
    BY <2>2, FS_CardinalityType
  <2>4. Cardinality(L(x)) # 0
    BY <1>1, <2>2, FS_EmptySet
  <2> QED BY <1>2, <2>2, <2>3, <2>4
<1>4. ASSUME NEW x \in S, NEW y \in S, x < y
      PROVE  Cardinality(L(x)) # Cardinality(L(y))
  <2>1. x \in Nat /\ y \in Nat
    OBVIOUS
  <2>2. L(x) \in SUBSET L(y)
    <3>1. SUFFICES ASSUME NEW z \in S, z < x PROVE z < y
      OBVIOUS
    <3>2. z \in Nat
      BY <3>1
    <3> QED BY <1>4, <2>1, <3>1, <3>2
  <2>3. x \in L(y) /\ x \notin L(x)
    BY <1>4, <2>1
  <2>4. IsFiniteSet(L(y))
    BY <1>3
  <2> QED BY <2>2, <2>3, <2>4, FS_Subset
<1> HIDE DEF L
<1>5. IsFiniteSet(1 .. n - 1) /\ Cardinality(1 .. n - 1) < n
  <2>1. n # 0
    BY FS_EmptySet
  <2>2. 1 \in Int /\ n - 1 \in Int
    BY <1>2
  <2> HIDE DEF n
  <2>3. IsFiniteSet(1 .. n - 1) /\ Cardinality(1 .. n - 1) = IF 1 > n - 1 THEN 0 ELSE (n - 1) - 1 + 1
    BY <2>2, FS_Interval
  <2> QED BY <1>2, <2>1, <2>3
<1>6. r \in [S -> 1 .. n - 1]
  BY <1>3
<1>7. PICK x \in S, y \in S : x # y /\ r[x] = r[y]
  <2> HIDE DEF r, n
  <2> QED BY <1>5, <1>6, FS_PigeonHole DEF n
<1>8. Cardinality(L(x)) = Cardinality(L(y))
  BY <1>7
<1>9. x < y \/ y < x
  <2>1. x \in Nat /\ y \in Nat
    OBVIOUS
  <2> QED BY <1>7, <2>1
<1> QED BY <1>4, <1>8, <1>9

(* Only a folder has anything below it.                                       *)
LEMMA NothingBelow ==
  ASSUME NEW t, Tree(t), NEW p \in Places, ~IsDir(t, p)
  PROVE  Below(t, p) \subseteq {p}
<1> DEFINE B == Below(t, p) \ {p}
           S == {Len(q) : q \in B}
<1>1. SUFFICES ASSUME B # {} PROVE FALSE
  OBVIOUS
<1>2. B \in SUBSET DOMAIN t /\ \A q \in B : q \in Places /\ IsPrefix(p, q) /\ q # p
  BY DEF Tree, Below
<1>3. IsFiniteSet(B)
  BY <1>2, FS_Subset DEF Tree
<1>4. \A q \in B : Len(q) \in Nat
  BY <1>2, PlaceTypes
<1>5. S \in SUBSET Nat /\ S # {}
  BY <1>1, <1>4
<1>6. IsFiniteSet(S)
  <2> DEFINE f == [q \in B |-> Len(q)]
  <2>1. f \in Surjection(B, S)
    BY DEF Surjection
  <2> QED BY <1>3, <2>1, FS_Surjection
<1>7. PICK m \in S : \A k \in S : m <= k
  BY <1>5, <1>6, LeastNumber
<1>8. PICK q \in B : Len(q) = m
  OBVIOUS
<1>9. q \in Places /\ IsPrefix(p, q) /\ q # p /\ q \in DOMAIN t
  BY <1>2
<1>10. Len(p) <= Len(q) /\ Len(p) # Len(q) /\ Len(p) \in Nat /\ Len(q) \in Nat
  BY <1>9, FrontBelow, PlaceTypes
<1>11. Len(q) > Len(p)
  <2>1. PICK a \in Nat, b \in Nat : a = Len(p) /\ b = Len(q)
    BY <1>10
  <2> QED BY <1>10, <2>1
<1>12. Len(q) > 1 /\ IsPrefix(p, Front(q))
  BY <1>9, <1>11, FrontBelow
<1>13. IsDir(t, Front(q))
  BY <1>9, <1>12 DEF Tree
<1>14. Front(q) \in B
  BY <1>12, <1>13 DEF Below, IsDir, Has
<1>15. Len(Front(q)) = Len(q) - 1
  BY <1>9, <1>12, FrontOf
<1>16. m <= Len(Front(q))
  BY <1>7, <1>14
<1> QED
  <2>1. PICK b \in Nat : b = Len(q)
    BY <1>10
  <2>2. m = b /\ m <= b - 1
    BY ONLY <1>8, <1>15, <1>16, <2>1
  <2> QED BY ONLY <2>1, <2>2

(* Notifications of one entry each, and of a move. *)

(* Everything in ns is of what came, and of S. *)
CameOnly(ns, S) == \A i \in 1 .. Len(ns) : ~ns[i].gone /\ ns[i].path \in S

LEMMA CameNotes ==
  ASSUME NEW by \in {Host} \cup Outsiders, NEW S \in SUBSET Paths, IsFiniteSet(S),
         NEW ns \in Came(by, S)
  PROVE  ns \in Seq(AllNotes) /\ CameOnly(ns, S)
<1>1. PICK order \in SetToSeqs(S) : ns = Notes(by, FALSE, order)
  BY DEF Came, ParentsFirst
<1>2. PICK n \in Nat : n = Cardinality(S)
  BY FS_CardinalityType
<1>3. order \in [1 .. n -> S]
  BY <1>1, <1>2 DEF SetToSeqs
<1>4. Len(ns) = n
  BY <1>1, <1>2, <1>3 DEF Notes
<1>5. \A i \in 1 .. n : ns[i] = [by |-> by, gone |-> FALSE, path |-> order[i]]
  BY <1>1, <1>3 DEF Notes, Note
<1>6. ns \in Seq(AllNotes)
  BY NoteTypes
<1> QED BY <1>3, <1>4, <1>5, <1>6 DEF CameOnly

LEMMA WentNotes ==
  ASSUME NEW by \in {Host} \cup Outsiders, NEW S \in SUBSET Paths, IsFiniteSet(S),
         NEW ns \in Went(by, S)
  PROVE  /\ ns \in Seq(AllNotes)
         /\ \A i \in 1 .. Len(ns) : ns[i].gone
         /\ \A p \in S : \E i \in 1 .. Len(ns) : ns[i].path = p
<1>1. PICK order \in SetToSeqs(S) : ns = Notes(by, TRUE, order)
  BY DEF Went, ParentsLast
<1>2. PICK n \in Nat : n = Cardinality(S)
  BY FS_CardinalityType
<1>3. order \in [1 .. n -> S] /\ \A i, j \in 1 .. n : i # j => order[i] # order[j]
  BY <1>1, <1>2 DEF SetToSeqs
<1>4. Len(ns) = n
  BY <1>1, <1>2, <1>3 DEF Notes
<1>5. \A i \in 1 .. n : ns[i] = [by |-> by, gone |-> TRUE, path |-> order[i]]
  BY <1>1, <1>3 DEF Notes, Note
<1>6. ns \in Seq(AllNotes)
  BY NoteTypes
<1>7. order \in Injection(1 .. n, S)
  BY <1>3 DEF Injection, IsInjective
<1>8. Cardinality(1 .. n) = n
  BY <1>2, FS_Interval
<1>9. order \in Surjection(1 .. n, S)
  BY <1>2, <1>7, <1>8, FS_Injection
<1>10. \A p \in S : \E i \in 1 .. n : order[i] = p
  BY <1>9 DEF Surjection
<1> QED BY <1>4, <1>5, <1>6, <1>10

LEMMA OneCame ==
  ASSUME NEW by \in {Host} \cup Outsiders, NEW p \in Paths, NEW ns \in Came(by, {p})
  PROVE  ns \in Seq(AllNotes) /\ CameOnly(ns, {p})
<1>1. {p} \in SUBSET Paths /\ IsFiniteSet({p})
  BY FS_Singleton
<1> QED BY <1>1, CameNotes

LEMMA OneWent ==
  ASSUME NEW by \in {Host} \cup Outsiders, NEW p \in Paths, NEW ns \in Went(by, {p})
  PROVE  /\ ns \in Seq(AllNotes)
         /\ \A i \in 1 .. Len(ns) : ns[i].gone
         /\ \E i \in 1 .. Len(ns) : ns[i].path = p
<1>1. {p} \in SUBSET Paths /\ IsFiniteSet({p})
  BY FS_Singleton
<1>2. /\ ns \in Seq(AllNotes)
      /\ \A i \in 1 .. Len(ns) : ns[i].gone
      /\ \A q \in {p} : \E i \in 1 .. Len(ns) : ns[i].path = q
  BY <1>1, WentNotes
<1> QED BY <1>2

(* ns tells that p went, and that nothing but r came.                         *)
MoveOnly(ns, p, r) ==
  /\ \E i \in 1 .. Len(ns) : ns[i].gone /\ ns[i].path = p
  /\ \A i \in 1 .. Len(ns) : ~ns[i].gone => ns[i].path = r

LEMMA MovedNotes ==
  ASSUME NEW by \in {Host} \cup Outsiders, NEW p \in Paths, NEW r \in Paths,
         NEW ns \in Then(Went(by, {p}), Came(by, {r}))
  PROVE  ns \in Seq(AllNotes) /\ MoveOnly(ns, p, r)
<1>1. PICK a \in Went(by, {p}), b \in Came(by, {r}) : ns = a \o b
  BY DEF Then
<1>2. /\ a \in Seq(AllNotes) /\ \A i \in 1 .. Len(a) : a[i].gone
      /\ \E i \in 1 .. Len(a) : a[i].path = p
  BY <1>1, OneWent
<1>3. b \in Seq(AllNotes) /\ CameOnly(b, {r})
  BY <1>1, OneCame
<1>4. ns \in Seq(AllNotes) /\ Len(ns) = Len(a) + Len(b)
  BY <1>1, <1>2, <1>3, ConcatProperties
<1>5. PICK k \in Nat, m \in Nat : k = Len(a) /\ m = Len(b)
  BY <1>2, <1>3
<1>6. \A i \in 1 .. k + m : ns[i] = IF i <= k THEN a[i] ELSE b[i - k]
  BY <1>1, <1>2, <1>3, <1>5, ConcatProperties
<1>7. ASSUME NEW i \in 1 .. k + m, ~ns[i].gone PROVE ns[i].path = r
  <2>1. CASE i <= k
    <3>1. i \in 1 .. k
      BY <2>1
    <3> QED BY <1>2, <1>5, <1>6, <1>7, <2>1, <3>1
  <2>2. CASE ~(i <= k)
    <3>1. i - k \in 1 .. m
      BY <2>2
    <3> QED BY <1>3, <1>5, <1>6, <2>2, <3>1 DEF CameOnly
  <2> QED BY <2>1, <2>2
<1>8. \E i \in 1 .. k + m : ns[i].gone /\ ns[i].path = p
  <2>1. PICK i \in 1 .. k : a[i].path = p /\ a[i].gone
    BY <1>2, <1>5
  <2>2. i \in 1 .. k + m /\ i <= k
    OBVIOUS
  <2> QED BY <1>6, <2>1, <2>2
<1> QED BY <1>4, <1>5, <1>7, <1>8 DEF MoveOnly

(* The invariant: as many handles of a path at most as there are removals of  *)
(* it to come and entries there are, and what is to come as new is there,     *)
(* unless its removal is to come as well.                                     *)

GoneAt(ns, p) == {i \in 1 .. Len(ns) : ns[i].gone /\ ns[i].path = p}

HandlesAreDue ==
  \A p \in Paths :
    Cardinality(Tracks(objects, p)) <=
      Cardinality(GoneAt(notes, p)) + (IF Has(disk, p) THEN 1 ELSE 0)

CameIsThere ==
  \A i \in 1 .. Len(notes) :
    ~notes[i].gone =>
      \/ Has(disk, notes[i].path)
      \/ \E j \in i + 1 .. Len(notes) : notes[j].gone /\ notes[j].path = notes[i].path

CatchUpInv == pauses = 0 /\ HandlesAreDue /\ CameIsThere

(* What a step other than the watcher's may do to files, notifications and    *)
(* the handles of a path.                                                     *)
Reported(ns) ==
  /\ ns \in Seq(AllNotes) /\ notes' = notes \o ns
  /\ \A p \in Paths : Has(disk, p) /\ ~Has(disk', p) => GoneAt(ns, p) # {}
  /\ \A i \in 1 .. Len(ns) : ~ns[i].gone => Has(disk', ns[i].path)

FewerTracks(p) == Tracks(objects', p) \subseteq Tracks(objects, p)
NewTrack(p) ==
  /\ Has(disk', p) /\ (~Has(disk, p) \/ Tracks(objects, p) = {})
  /\ \E x : Tracks(objects', p) \subseteq Tracks(objects, p) \cup {x}
SwappedTrack(p) ==
  \E x \in Tracks(objects, p) : \E y : Tracks(objects', p) \subseteq (Tracks(objects, p) \ {x}) \cup {y}

Tracked1(p) == FewerTracks(p) \/ NewTrack(p) \/ SwappedTrack(p)

DiskTold == \E ns : Reported(ns)
HandlesFollow == \A p \in Paths : Tracked1(p)
FollowedStep == DiskTold /\ HandlesFollow

LEMMA TracksFinite ==
  ASSUME DeviceInv
  PROVE  \A p : IsFiniteSet(Tracks(objects, p)) /\ Cardinality(Tracks(objects, p)) \in Nat
<1>1. TAKE p
<1>2. nextHandle \in Nat
  BY Bounds
<1>3. Tracks(objects, p) \in SUBSET (1 .. nextHandle - 1)
  BY DEF DeviceInv, HandlesAre, Tracks
<1>4. IsFiniteSet(1 .. nextHandle - 1)
  BY <1>2, FS_Interval
<1>5. IsFiniteSet(Tracks(objects, p))
  BY <1>3, <1>4, FS_Subset
<1> QED BY <1>5, FS_CardinalityType

LEMMA GoneFinite ==
  ASSUME NEW ns \in Seq(AllNotes), NEW p
  PROVE  IsFiniteSet(GoneAt(ns, p)) /\ Cardinality(GoneAt(ns, p)) \in Nat
<1>1. GoneAt(ns, p) \in SUBSET (1 .. Len(ns))
  BY DEF GoneAt
<1>2. Len(ns) \in Int /\ 1 \in Int
  OBVIOUS
<1>3. IsFiniteSet(1 .. Len(ns))
  BY <1>2, FS_Interval
<1>4. IsFiniteSet(GoneAt(ns, p))
  BY <1>1, <1>3, FS_Subset
<1> QED BY <1>4, FS_CardinalityType

(* More notifications, more removals to come.                                 *)
LEMMA GoneAppended ==
  ASSUME NEW a \in Seq(AllNotes), NEW b \in Seq(AllNotes), NEW p
  PROVE  /\ Cardinality(GoneAt(a \o b, p)) >= Cardinality(GoneAt(a, p))
         /\ GoneAt(b, p) # {} => Cardinality(GoneAt(a \o b, p)) >= Cardinality(GoneAt(a, p)) + 1
<1> DEFINE A == GoneAt(a, p)
           AB == GoneAt(a \o b, p)
<1>1. PICK k \in Nat, m \in Nat : k = Len(a) /\ m = Len(b)
  OBVIOUS
<1>2. a \o b \in Seq(AllNotes) /\ Len(a \o b) = k + m
  BY <1>1, ConcatProperties
<1>3. \A i \in 1 .. k + m : (a \o b)[i] = IF i <= k THEN a[i] ELSE b[i - k]
  BY <1>1, ConcatProperties
<1>4. A \in SUBSET AB
  <2>1. ASSUME NEW i \in A PROVE i \in AB
    <3>1. i \in 1 .. k /\ a[i].gone /\ a[i].path = p
      BY <1>1, <2>1 DEF GoneAt
    <3>2. i \in 1 .. k + m /\ i <= k
      BY <3>1
    <3>3. (a \o b)[i] = a[i]
      BY <1>3, <3>2
    <3> QED BY <1>2, <3>1, <3>2, <3>3 DEF GoneAt
  <2> QED BY <2>1
<1>5. IsFiniteSet(A) /\ IsFiniteSet(AB) /\ Cardinality(A) \in Nat /\ Cardinality(AB) \in Nat
  BY <1>2, GoneFinite
<1>6. Cardinality(A) <= Cardinality(AB)
  BY <1>4, <1>5, FS_Subset
<1>7. ASSUME NEW j \in GoneAt(b, p) PROVE Cardinality(A) + 1 <= Cardinality(AB)
  <2>1. j \in 1 .. m /\ b[j].gone /\ b[j].path = p
    BY <1>1 DEF GoneAt
  <2>2. k + j \in 1 .. k + m /\ ~(k + j <= k) /\ (k + j) - k = j
    BY <2>1
  <2>3. (a \o b)[k + j] = b[j]
    BY <1>3, <2>2
  <2>4. k + j \in AB
    BY <1>2, <2>1, <2>2, <2>3 DEF GoneAt
  <2>5. k + j \notin A
    BY <1>1, <2>2 DEF GoneAt
  <2>6. A \cup {k + j} \in SUBSET AB
    BY <1>4, <2>4
  <2>7. Cardinality(A \cup {k + j}) = Cardinality(A) + 1
    BY <1>5, <2>5, FS_AddElement
  <2>8. Cardinality(A \cup {k + j}) <= Cardinality(AB)
    BY <1>5, <2>6, FS_Subset
  <2> QED BY <2>7, <2>8
<1> HIDE DEF A, AB
<1> QED BY <1>5, <1>6, <1>7 DEF A, AB

(* The oldest notification taken off.                                         *)
LEMMA GoneTail ==
  ASSUME NEW ns \in Seq(AllNotes), ns # <<>>, NEW p
  PROVE  Cardinality(GoneAt(Tail(ns), p)) =
           Cardinality(GoneAt(ns, p)) - (IF Head(ns).gone /\ Head(ns).path = p THEN 1 ELSE 0)
<1> DEFINE A == GoneAt(ns, p)
           B == GoneAt(Tail(ns), p)
           f == [i \in B |-> i + 1]
<1>1. PICK m \in Nat : Len(ns) = m + 1 /\ Len(Tail(ns)) = m
  <2>1. PICK k \in Nat : k = Len(ns) /\ k # 0 /\ Len(Tail(ns)) = k - 1
    OBVIOUS
  <2>2. k - 1 \in Nat /\ k = (k - 1) + 1
    BY <2>1
  <2> QED BY <2>1, <2>2
<1>2. \A i \in 1 .. m : Tail(ns)[i] = ns[i + 1]
  BY <1>1
<1>3. Tail(ns) \in Seq(AllNotes) /\ Head(ns) = ns[1]
  OBVIOUS
<1>4. \A i : i \in A <=> i \in 1 .. m + 1 /\ ns[i].gone /\ ns[i].path = p
  BY <1>1 DEF GoneAt
<1>5. \A i : i \in B <=> i \in 1 .. m /\ Tail(ns)[i].gone /\ Tail(ns)[i].path = p
  BY <1>1 DEF GoneAt
<1>6. IsFiniteSet(A) /\ IsFiniteSet(B) /\ Cardinality(A) \in Nat
  BY <1>3, GoneFinite
<1> HIDE DEF A, B
<1>7. f \in Bijection(B, A \ {1})
  <2>1. ASSUME NEW i \in B PROVE i + 1 \in A \ {1}
    <3>1. i \in 1 .. m /\ Tail(ns)[i] = ns[i + 1] /\ Tail(ns)[i].gone /\ Tail(ns)[i].path = p
      BY <1>2, <1>5
    <3>2. i + 1 \in 1 .. m + 1 /\ i + 1 # 1
      BY <3>1
    <3> QED BY <1>4, <3>1, <3>2
  <2>2. ASSUME NEW j \in A \ {1} PROVE \E i \in B : i + 1 = j
    <3>1. j \in 1 .. m + 1 /\ ns[j].gone /\ ns[j].path = p /\ j # 1
      BY <1>4, <2>2
    <3>2. j - 1 \in 1 .. m /\ (j - 1) + 1 = j
      BY <3>1
    <3>3. Tail(ns)[j - 1] = ns[j]
      BY <1>2, <3>2
    <3>4. j - 1 \in B
      BY <1>5, <3>1, <3>2, <3>3
    <3> QED BY <3>2, <3>4
  <2>3. f \in [B -> A \ {1}]
    BY <2>1
  <2>4. \A x, y \in B : f[x] = f[y] => x = y
    <3>1. \A x \in B : x \in Nat
      BY <1>5
    <3> QED BY <3>1
  <2>5. \A j \in A \ {1} : \E i \in B : f[i] = j
    BY <2>2
  <2> HIDE DEF f
  <2> QED BY <2>3, <2>4, <2>5 DEF Bijection, Injection, Surjection, IsInjective
<1>8. Cardinality(A \ {1}) = Cardinality(B)
  <2>1. ExistsBijection(B, A \ {1})
    BY <1>7 DEF ExistsBijection
  <2> QED BY <1>6, <2>1, FS_Bijection
<1>9. Cardinality(A \ {1}) = IF 1 \in A THEN Cardinality(A) - 1 ELSE Cardinality(A)
  BY <1>6, FS_RemoveElement
<1>10. 1 \in A <=> Head(ns).gone /\ Head(ns).path = p
  <2>1. 1 \in 1 .. m + 1
    BY <1>1
  <2> QED BY <1>3, <1>4, <2>1
<1>11. Cardinality(B) = Cardinality(A) - (IF 1 \in A THEN 1 ELSE 0)
  BY <1>6, <1>8, <1>9
<1>12. Cardinality(B) = Cardinality(A) - (IF Head(ns).gone /\ Head(ns).path = p THEN 1 ELSE 0)
  BY <1>10, <1>11
<1> QED BY <1>12 DEF A, B

(* A step that reports what it did keeps the invariant.                       *)
LEMMA FollowedKeeps ==
  ASSUME DeviceInv, CatchUpInv, pauses' = 0, FollowedStep
  PROVE  CatchUpInv'
<1>1. PICK ns : Reported(ns)
  BY DEF FollowedStep, DiskTold
<1>2. /\ ns \in Seq(AllNotes) /\ notes \in Seq(AllNotes) /\ notes' = notes \o ns
      /\ \A p \in Paths : Has(disk, p) /\ ~Has(disk', p) => GoneAt(ns, p) # {}
      /\ \A i \in 1 .. Len(ns) : ~ns[i].gone => Has(disk', ns[i].path)
  BY <1>1 DEF Reported, DeviceInv
<1>3. ASSUME NEW p \in Paths
      PROVE  Cardinality(Tracks(objects', p)) <=
               Cardinality(GoneAt(notes', p)) + (IF Has(disk', p) THEN 1 ELSE 0)
  <2> DEFINE T == Tracks(objects, p)
             U == Tracks(objects', p)
  <2>1. IsFiniteSet(T) /\ Cardinality(T) \in Nat
    BY TracksFinite
  <2>2. PICK c \in Nat, g \in Nat, h \in Nat :
          c = Cardinality(T) /\ g = Cardinality(GoneAt(notes, p)) /\ h = Cardinality(GoneAt(notes', p))
    <3>1. notes' \in Seq(AllNotes)
      BY <1>2, ConcatProperties
    <3>2. Cardinality(GoneAt(notes, p)) \in Nat /\ Cardinality(GoneAt(notes', p)) \in Nat
      BY <1>2, <3>1, GoneFinite
    <3> QED BY <2>1, <3>2
  <2>3. h >= g /\ (Has(disk, p) /\ ~Has(disk', p) => h >= g + 1)
    BY <1>2, <2>2, GoneAppended
  <2>4. c <= g + (IF Has(disk, p) THEN 1 ELSE 0)
    BY <2>2 DEF CatchUpInv, HandlesAreDue
  <2> HIDE DEF T, U
  <2>5. CASE FewerTracks(p)
    <3>1. U \in SUBSET T
      BY <2>5 DEF FewerTracks, T, U
    <3>2. PICK d \in Nat : d = Cardinality(U) /\ d <= c
      BY <2>1, <2>2, <3>1, FS_Subset, FS_CardinalityType
    <3>3. d <= h + (IF Has(disk', p) THEN 1 ELSE 0)
      BY <2>3, <2>4, <3>2
    <3> QED BY <2>2, <3>2, <3>3 DEF U
  <2>6. CASE NewTrack(p)
    <3>1. PICK x : U \in SUBSET (T \cup {x})
      BY <2>6 DEF NewTrack, T, U
    <3>2. IsFiniteSet(T \cup {x}) /\ Cardinality(T \cup {x}) <= c + 1 /\ Cardinality(T \cup {x}) \in Nat
      BY <2>1, <2>2, FS_AddElement
    <3>3. PICK d \in Nat : d = Cardinality(U) /\ d <= c + 1
      <4>1. IsFiniteSet(U) /\ Cardinality(U) <= Cardinality(T \cup {x})
        BY <3>1, <3>2, FS_Subset
      <4>2. Cardinality(U) \in Nat
        BY <4>1, FS_CardinalityType
      <4> QED BY <3>2, <4>1, <4>2
    <3>4. Has(disk', p) /\ (~Has(disk, p) \/ c = 0)
      BY <2>1, <2>2, <2>6, FS_EmptySet DEF NewTrack, T
    <3>5. d <= h + 1
      BY <2>3, <2>4, <3>3, <3>4
    <3> QED BY <2>2, <3>3, <3>4, <3>5 DEF U
  <2>7. CASE SwappedTrack(p)
    <3>1. PICK x \in T : \E y : U \in SUBSET ((T \ {x}) \cup {y})
      BY <2>7 DEF SwappedTrack, T, U
    <3>2. PICK y : U \in SUBSET ((T \ {x}) \cup {y})
      BY <3>1
    <3>3. IsFiniteSet(T \ {x}) /\ Cardinality(T \ {x}) = c - 1
      BY <2>1, <2>2, FS_RemoveElement
    <3>4. /\ IsFiniteSet((T \ {x}) \cup {y})
          /\ Cardinality((T \ {x}) \cup {y}) = c - 1 \/ Cardinality((T \ {x}) \cup {y}) = (c - 1) + 1
      BY <3>3, FS_AddElement
    <3>5. PICK d \in Nat : d = Cardinality(U) /\ d <= c
      <4>1. IsFiniteSet(U) /\ Cardinality(U) <= Cardinality((T \ {x}) \cup {y})
        BY <3>2, <3>4, FS_Subset
      <4>2. Cardinality(U) \in Nat
        BY <4>1, FS_CardinalityType
      <4> QED BY <2>2, <3>4, <4>1, <4>2
    <3>6. d <= h + (IF Has(disk', p) THEN 1 ELSE 0)
      BY <2>3, <2>4, <3>5
    <3> QED BY <2>2, <3>5, <3>6 DEF U
  <2> QED BY <2>5, <2>6, <2>7 DEF FollowedStep, HandlesFollow, Tracked1
<1>4. ASSUME NEW i \in 1 .. Len(notes'), ~notes'[i].gone
      PROVE  \/ Has(disk', notes'[i].path)
             \/ \E j \in i + 1 .. Len(notes') : notes'[j].gone /\ notes'[j].path = notes'[i].path
  <2>1. PICK k \in Nat, m \in Nat : k = Len(notes) /\ m = Len(ns)
    BY <1>2
  <2>2. Len(notes') = k + m /\ \A j \in 1 .. k + m : notes'[j] = IF j <= k THEN notes[j] ELSE ns[j - k]
    BY <1>2, <2>1, ConcatProperties
  <2>3. CASE i <= k
    <3>1. i \in 1 .. k /\ notes'[i] = notes[i]
      BY <1>4, <2>2, <2>3
    <3>2. CASE \E j \in i + 1 .. k : notes[j].gone /\ notes[j].path = notes[i].path
      <4>1. PICK j \in i + 1 .. k : notes[j].gone /\ notes[j].path = notes[i].path
        BY <3>2
      <4>2. j \in 1 .. k + m /\ j <= k /\ j \in i + 1 .. k + m
        BY <3>1
      <4>3. notes'[j] = notes[j]
        BY <2>2, <4>2
      <4> QED BY <2>2, <3>1, <4>1, <4>2, <4>3
    <3>3. CASE Has(disk, notes[i].path) /\ ~Has(disk', notes[i].path)
      <4>1. notes[i].path \in Paths
        <5>1. notes[i] \in AllNotes
          BY <1>2, <2>1, <3>1, ElementOfSeq
        <5> QED BY <5>1 DEF AllNotes
      <4>2. PICK j \in 1 .. m : ns[j].gone /\ ns[j].path = notes[i].path
        BY <1>2, <2>1, <3>3, <4>1 DEF GoneAt
      <4>3. k + j \in i + 1 .. k + m /\ k + j \in 1 .. k + m /\ ~(k + j <= k) /\ (k + j) - k = j
        BY <3>1
      <4>4. notes'[k + j] = ns[j]
        BY <2>2, <4>3
      <4> QED BY <2>2, <3>1, <4>2, <4>3, <4>4
    <3> QED BY <1>4, <2>1, <3>1, <3>2, <3>3 DEF CatchUpInv, CameIsThere
  <2>4. CASE ~(i <= k)
    <3>1. i - k \in 1 .. m /\ notes'[i] = ns[i - k]
      BY <1>4, <2>2, <2>4
    <3> QED BY <1>2, <1>4, <2>1, <3>1
  <2> QED BY <2>3, <2>4
<1> QED BY <1>3, <1>4 DEF CatchUpInv, HandlesAreDue, CameIsThere

(* What the watcher does with the oldest notification.                        *)
LEMMA WatchEventCatchesUp ==
  ASSUME DeviceInv, CatchUpInv, WatchEvent
  PROVE  CatchUpInv'
<1> DEFINE n == Head(notes)
<1>1. /\ notes \in Seq(AllNotes) /\ notes # <<>> /\ notes' = Tail(notes) /\ disk' = disk
      /\ pauses = 0 /\ pauses' = 0
      /\ IF n.gone THEN WatchRemove(n) ELSE WatchCreate(n)
  BY DEF WatchEvent, CatchUpInv, DeviceInv
<1>2. n \in AllNotes /\ n = notes[1]
  BY <1>1
<1>3. n.path \in Paths /\ n.gone \in BOOLEAN
  BY <1>2 DEF AllNotes
<1>4. PICK m \in Nat : Len(notes) = m + 1 /\ Len(notes') = m
  <2>1. PICK k \in Nat : k = Len(notes) /\ k # 0 /\ Len(Tail(notes)) = k - 1
    BY <1>1
  <2>2. k - 1 \in Nat /\ k = (k - 1) + 1
    BY <2>1
  <2> QED BY <1>1, <2>1, <2>2
<1>5. \A i \in 1 .. m : notes'[i] = notes[i + 1]
  BY <1>1, <1>4
<1> HIDE DEF n
<1>6. ASSUME NEW p \in Paths
      PROVE  Cardinality(Tracks(objects', p)) <=
               Cardinality(GoneAt(notes', p)) + (IF Has(disk', p) THEN 1 ELSE 0)
  <2> DEFINE T == Tracks(objects, p)
             U == Tracks(objects', p)
  <2>1. IsFiniteSet(T) /\ Cardinality(T) \in Nat
    BY TracksFinite
  <2>2. PICK c \in Nat, g \in Nat : c = Cardinality(T) /\ g = Cardinality(GoneAt(notes, p))
    BY <1>1, <2>1, GoneFinite
  <2>3. Cardinality(GoneAt(notes', p)) = g - (IF n.gone /\ n.path = p THEN 1 ELSE 0)
    BY <1>1, <2>2, GoneTail DEF n
  <2>4. PICK h \in Nat : h = Cardinality(GoneAt(notes', p))
    <3>1. notes' \in Seq(AllNotes)
      BY <1>1
    <3> QED BY <3>1, GoneFinite
  <2>5. c <= g + (IF Has(disk, p) THEN 1 ELSE 0)
    BY <2>2 DEF CatchUpInv, HandlesAreDue
  <2>6. SUFFICES Cardinality(U) <= h + (IF Has(disk, p) THEN 1 ELSE 0)
    BY <1>1, <2>4
  <2>7. ASSUME U \subseteq T PROVE Cardinality(U) \in Nat /\ Cardinality(U) <= c
    <3> HIDE DEF T, U
    <3>1. IsFiniteSet(U) /\ Cardinality(U) <= Cardinality(T)
      BY <2>1, <2>7, FS_Subset
    <3> QED BY <2>2, <3>1, FS_CardinalityType
  <2>8. CASE n.gone
    <3>1. WatchRemove(n)
      BY <1>1, <2>8
    <3>2. CASE n.path # p
      <4>1. U \subseteq T
        BY <3>1 DEF WatchRemove, Tracks
      <4>2. h = g
        BY <2>2, <2>3, <2>4, <3>2
      <4> HIDE DEF U, T
      <4> QED BY <2>5, <2>7, <4>1, <4>2
    <3>3. CASE n.path = p /\ T = {}
      <4>1. objects' = objects
        BY <3>1, <3>3 DEF WatchRemove
      <4>2. Cardinality(U) = 0
        BY <3>3, <4>1, FS_EmptySet
      <4> HIDE DEF U, T
      <4> QED BY <4>2
    <3>4. CASE n.path = p /\ T # {}
      <4>1. PICK x \in T : objects' = [y \in DOMAIN objects \ {x} |-> objects[y]]
        BY <3>1, <3>4 DEF WatchRemove
      <4>2. U \subseteq T \ {x}
        BY <4>1 DEF Tracks
      <4> HIDE DEF U, T
      <4>3. IsFiniteSet(T \ {x}) /\ Cardinality(T \ {x}) = c - 1
        BY <2>1, <2>2, FS_RemoveElement
      <4>4. Cardinality(U) <= c - 1
        BY <4>2, <4>3, FS_Subset
      <4>5. h = g - 1
        BY <2>2, <2>3, <2>4, <2>8, <3>4
      <4>6. Cardinality(U) \in Nat
        BY <2>7, <4>2
      <4> QED BY <2>5, <4>4, <4>5, <4>6
    <3> QED BY <3>2, <3>3, <3>4
  <2>9. CASE ~n.gone
    <3>1. WatchCreate(n)
      BY <1>1, <2>9
    <3>2. h = g
      BY <2>2, <2>3, <2>4, <2>9
    <3>3. CASE n.path # p \/ T # {}
      <4>1. U \subseteq T
        <5>1. CASE Tracks(objects, n.path) # {}
          BY <3>1, <5>1 DEF WatchCreate, Tracks
        <5>2. CASE Tracks(objects, n.path) = {}
          <6>1. PICK parent : objects' = Extend(objects, nextHandle, [path |-> n.path, parent |-> parent])
            BY <3>1, <5>2 DEF WatchCreate
          <6>2. n.path # p
            BY <3>3, <5>2
          <6>3. \A x \in DOMAIN objects' :
                  objects'[x] = IF x = nextHandle THEN [path |-> n.path, parent |-> parent] ELSE objects[x]
            BY <6>1 DEF Extend
          <6>4. DOMAIN objects' = DOMAIN objects \cup {nextHandle}
            BY <6>1 DEF Extend
          <6> QED BY <6>2, <6>3, <6>4 DEF Tracks
        <5> QED BY <5>1, <5>2
      <4> HIDE DEF U, T
      <4> QED BY <2>5, <2>7, <3>2, <4>1
    <3>4. CASE n.path = p /\ T = {}
      <4>1. PICK parent : objects' = Extend(objects, nextHandle, [path |-> n.path, parent |-> parent])
        BY <3>1, <3>4 DEF WatchCreate
      <4>2. U \subseteq {nextHandle}
        <5>1. DOMAIN objects' = DOMAIN objects \cup {nextHandle}
          BY <4>1 DEF Extend
        <5>2. \A x \in DOMAIN objects' : x # nextHandle => objects'[x] = objects[x]
          BY <4>1 DEF Extend
        <5> QED BY <3>4, <5>1, <5>2 DEF Tracks
      <4>3. Cardinality(U) <= 1
        <5> HIDE DEF U
        <5>1. IsFiniteSet({nextHandle}) /\ Cardinality({nextHandle}) = 1
          BY FS_Singleton
        <5>2. IsFiniteSet(U) /\ Cardinality(U) <= Cardinality({nextHandle})
          BY <4>2, <5>1, FS_Subset
        <5> QED BY <5>1, <5>2
      <4>4. Cardinality(U) \in Nat
        <5> HIDE DEF U
        <5> QED BY <4>2, FS_Singleton, FS_Subset, FS_CardinalityType
      <4>5. Has(disk, p) \/ g >= 1
        <5>1. 1 \in 1 .. Len(notes) /\ ~notes[1].gone /\ notes[1].path = p
          BY <1>2, <1>4, <2>9, <3>4
        <5>2. Has(disk, p) \/ \E j \in 2 .. Len(notes) : notes[j].gone /\ notes[j].path = p
          BY <5>1 DEF CatchUpInv, CameIsThere
        <5>3. ASSUME NEW j \in 2 .. Len(notes), notes[j].gone, notes[j].path = p PROVE g >= 1
          <6>1. j \in 1 .. Len(notes)
            BY <1>4
          <6>2. GoneAt(notes, p) # {}
            BY <5>3, <6>1 DEF GoneAt
          <6>3. g # 0
            BY <1>1, <2>2, <6>2, GoneFinite, FS_EmptySet
          <6> QED BY <6>3
        <5> QED BY <5>2, <5>3
      <4> HIDE DEF U, T
      <4> QED BY <3>2, <4>3, <4>4, <4>5
    <3> QED BY <3>3, <3>4
  <2> QED BY <2>8, <2>9
<1>7. ASSUME NEW i \in 1 .. Len(notes'), ~notes'[i].gone
      PROVE  \/ Has(disk', notes'[i].path)
             \/ \E j \in i + 1 .. Len(notes') : notes'[j].gone /\ notes'[j].path = notes'[i].path
  <2>1. i \in 1 .. m /\ i + 1 \in 1 .. m + 1 /\ notes'[i] = notes[i + 1]
    BY <1>4, <1>5
  <2>2. \/ Has(disk, notes[i + 1].path)
        \/ \E j \in (i + 1) + 1 .. m + 1 : notes[j].gone /\ notes[j].path = notes[i + 1].path
    BY <1>4, <1>7, <2>1 DEF CatchUpInv, CameIsThere
  <2>3. ASSUME NEW j \in (i + 1) + 1 .. m + 1, notes[j].gone, notes[j].path = notes[i + 1].path
        PROVE  \E l \in i + 1 .. Len(notes') : notes'[l].gone /\ notes'[l].path = notes'[i].path
    <3>1. j - 1 \in i + 1 .. m /\ j - 1 \in 1 .. m /\ (j - 1) + 1 = j
      BY <2>1
    <3>2. notes'[j - 1] = notes[j]
      BY <1>5, <3>1
    <3> QED BY <1>4, <2>1, <2>3, <3>1, <3>2
  <2> QED BY <1>1, <2>1, <2>2, <2>3
<1> QED BY <1>1, <1>6, <1>7 DEF CatchUpInv, HandlesAreDue, CameIsThere

-----------------------------------------------------------------------------
(* What the notifications of a change must tell, kind by kind of change       *)

LEMMA QuietTold ==
  ASSUME DeviceInv, UNCHANGED notes, DOMAIN disk \subseteq DOMAIN disk'
  PROVE  DiskTold
<1>1. notes \o <<>> = notes
  BY ConcatEmptySeq DEF DeviceInv
<1>2. <<>> \in Seq(AllNotes) /\ 1 .. Len(<<>>) = {}
  OBVIOUS
<1>3. Reported(<<>>)
  BY <1>1, <1>2 DEF Reported, Has
<1> QED BY <1>3 DEF DiskTold

LEMMA CameTold ==
  ASSUME DeviceInv, Watching, NEW by \in {Host} \cup Outsiders,
         NEW S \in SUBSET Paths, IsFiniteSet(S), S \subseteq DOMAIN disk',
         DOMAIN disk \subseteq DOMAIN disk', Notify(Came(by, S))
  PROVE  DiskTold
<1>1. PICK ns \in Came(by, S) : notes' = notes \o ns
  BY DEF Notify
<1>2. ns \in Seq(AllNotes) /\ CameOnly(ns, S)
  BY CameNotes
<1>3. Reported(ns)
  BY <1>1, <1>2 DEF Reported, CameOnly, Has
<1> QED BY <1>3 DEF DiskTold

LEMMA WentTold ==
  ASSUME DeviceInv, Watching, NEW by \in {Host} \cup Outsiders, NEW p \in Paths,
         disk' = Cut(disk, p), Notify(Went(by, Below(disk, p)))
  PROVE  DiskTold
<1>1. PICK ns \in Went(by, Below(disk, p)) : notes' = notes \o ns
  BY DEF Notify
<1>2. Below(disk, p) \in SUBSET Paths /\ IsFiniteSet(Below(disk, p))
  BY BelowPaths DEF DeviceInv
<1>3. /\ ns \in Seq(AllNotes)
      /\ \A i \in 1 .. Len(ns) : ns[i].gone
      /\ \A q \in Below(disk, p) : \E i \in 1 .. Len(ns) : ns[i].path = q
  BY <1>2, WentNotes
<1>4. DOMAIN disk' = DOMAIN disk \ Below(disk, p)
  BY DEF Cut
<1>5. ASSUME NEW q \in Paths, Has(disk, q), ~Has(disk', q) PROVE GoneAt(ns, q) # {}
  <2>1. q \in Below(disk, p)
    BY <1>4, <1>5 DEF Has
  <2>2. PICK i \in 1 .. Len(ns) : ns[i].path = q /\ ns[i].gone
    BY <1>3, <2>1
  <2> QED BY <2>2 DEF GoneAt
<1>6. Reported(ns)
  BY <1>1, <1>3, <1>5 DEF Reported
<1> QED BY <1>6 DEF DiskTold

LEMMA MovedTold ==
  ASSUME DeviceInv, Watching, NEW by \in {Host} \cup Outsiders, NEW p \in Paths, NEW r \in Paths,
         r \in DOMAIN disk', DOMAIN disk \ {p} \subseteq DOMAIN disk',
         Notify(Then(Went(by, {p}), Came(by, {r})))
  PROVE  DiskTold
<1>1. PICK ns \in Then(Went(by, {p}), Came(by, {r})) : notes' = notes \o ns
  BY DEF Notify
<1>2. ns \in Seq(AllNotes) /\ MoveOnly(ns, p, r)
  BY MovedNotes
<1>3. \A q \in Paths : Has(disk, q) /\ ~Has(disk', q) => q = p
  BY DEF Has
<1>4. GoneAt(ns, p) # {}
  BY <1>2 DEF GoneAt, MoveOnly
<1>5. \A i \in 1 .. Len(ns) : ~ns[i].gone => Has(disk', ns[i].path)
  BY <1>2 DEF Has, MoveOnly
<1>6. Reported(ns)
  BY <1>1, <1>2, <1>3, <1>4, <1>5 DEF Reported
<1> QED BY <1>6 DEF DiskTold

(* A path seen from another is that other.                                    *)
LEMMA RebaseSelf ==
  ASSUME NEW p \in Paths, NEW r \in Paths
  PROVE  Rebase(p, p, r) = r
<1>1. p \in Places /\ r \in Places /\ p \in Seq(Elements) /\ r \in Seq(Elements)
  BY PathTypes, PlaceTypes
<1>2. IsPrefix(p, p)
  BY <1>1, PrefixReflexive
<1>3. PICK a \in Nat, b \in Nat : a = Len(p) /\ b = Len(r)
  BY <1>1
<1>4. PICK q : q = Rebase(p, p, r)
  OBVIOUS
<1>5. /\ q \in Seq(Elements) /\ Len(q) = b + a - a
      /\ \A i \in 1 .. b : q[i] = r[i]
  BY <1>1, <1>2, <1>3, <1>4, RebaseIs
<1>6. Len(q) = b
  BY <1>3, <1>5
<1>7. q = r
  BY <1>1, <1>3, <1>5, <1>6, SeqEqual
<1> QED BY <1>4, <1>7

(* A file that changes places leaves one place for another, no more.          *)
LEMMA FileRenamed ==
  ASSUME NEW t, Tree(t), NEW p \in Paths, NEW r \in Paths, CanRename(t, p, r),
         ~IsDir(t, p), p = r \/ ~Has(t, r)
  PROVE  DOMAIN Renamed(t, p, r) = (DOMAIN t \ {p}) \cup {r}
<1>1. p \in Places /\ r \in Places /\ p \in DOMAIN t
  BY PathTypes DEF CanRename, Has
<1>2. p \in Seq(Elements) /\ r \in Seq(Elements) /\ IsPrefix(p, p)
  BY <1>1, PlaceTypes, PrefixReflexive
<1>3. Below(t, p) = {p}
  BY <1>1, <1>2, NothingBelow DEF Below
<1>4. Below(t, r) \subseteq {r}
  <2>1. ~IsDir(t, r)
    BY DEF IsDir
  <2> QED BY <1>1, <2>1, NothingBelow
<1>5. Rebase(p, p, r) = r
  BY RebaseSelf
<1>6. {Rebase(x, p, r) : x \in Below(t, p)} = {r}
  BY <1>3, <1>5
<1>7. DOMAIN Cut(t, p) = DOMAIN t \ {p}
  BY <1>3 DEF Cut
<1>8. /\ DOMAIN Cut(Cut(t, p), r) = (DOMAIN t \ {p}) \ Below(Cut(t, p), r)
      /\ Below(Cut(t, p), r) \subseteq {r}
  BY <1>4, <1>7 DEF Cut, Below
<1>9. DOMAIN Renamed(t, p, r) = {r} \cup DOMAIN Cut(Cut(t, p), r)
  <2> DEFINE f == [q \in {Rebase(x, p, r) : x \in Below(t, p)} |-> t[Rebase(q, r, p)]]
             g == Cut(Cut(t, p), r)
  <2>1. Renamed(t, p, r) = Over(f, g) /\ DOMAIN f = {r}
    BY <1>6 DEF Renamed
  <2> HIDE DEF f
  <2>2. DOMAIN Over(f, g) = DOMAIN f \cup DOMAIN g
    BY DEF Over
  <2> QED BY <2>1, <2>2
<1> QED BY <1>8, <1>9
-----------------------------------------------------------------------------
(* What becomes of the handles of a path                                      *)

LEMMA HandlesLeft ==
  ASSUME DOMAIN objects' \subseteq DOMAIN objects,
         \A x \in DOMAIN objects' : objects'[x].path = objects[x].path
  PROVE  HandlesFollow
<1>1. \A p \in Paths : Tracks(objects', p) \subseteq Tracks(objects, p)
  BY DEF Tracks
<1> QED BY <1>1 DEF HandlesFollow, Tracked1, FewerTracks

LEMMA HandlesSame ==
  ASSUME UNCHANGED objects
  PROVE  HandlesFollow
<1>1. DOMAIN objects' \subseteq DOMAIN objects /\ \A x \in DOMAIN objects' : objects'[x].path = objects[x].path
  OBVIOUS
<1> QED BY <1>1, HandlesLeft

(* One handle given a path that was free, untracked or its own.               *)
LEMMA OneHandle ==
  ASSUME NEW h, NEW p, p \in DOMAIN disk',
         p \notin DOMAIN disk \/ Tracks(objects, p) = {} \/ h \in Tracks(objects, p),
         DOMAIN objects' = DOMAIN objects \cup {h}, objects'[h].path = p,
         \A x \in DOMAIN objects : x # h => objects'[x] = objects[x]
  PROVE  HandlesFollow
<1>1. SUFFICES ASSUME NEW q \in Paths PROVE Tracked1(q)
  BY DEF HandlesFollow
<1>2. CASE q # p \/ h \in Tracks(objects, p)
  <2>1. Tracks(objects', q) \subseteq Tracks(objects, q)
    BY <1>2 DEF Tracks
  <2> QED BY <2>1 DEF Tracked1, FewerTracks
<1>3. CASE q = p /\ h \notin Tracks(objects, p)
  <2>1. Tracks(objects', q) \subseteq Tracks(objects, q) \cup {h}
    BY <1>3 DEF Tracks
  <2> QED BY <1>3, <2>1 DEF Tracked1, NewTrack, Has
<1> QED BY <1>2, <1>3

(* New handles, one for each of the paths.                                    *)
LEMMA HandlesTracked ==
  ASSUME DeviceInv, NEW objs, DOMAIN objs \subseteq DOMAIN objects,
         \A x \in DOMAIN objs : objs[x].path = objects[x].path,
         NEW new \in SUBSET Paths, IsFiniteSet(new), new \subseteq DOMAIN disk',
         \A p \in new : Tracks(objects, p) = {},
         NEW order \in SetToSeqs(new), NEW parent, objects' = Track(objs, order, parent)
  PROVE  HandlesFollow
<1>1. PICK n \in Nat : n = nextHandle
  BY Bounds
<1>2. PICK k \in Nat : k = Cardinality(new)
  BY FS_CardinalityType
<1>3. order \in [1 .. k -> new] /\ \A i, j \in 1 .. k : i # j => order[i] # order[j]
  BY <1>2 DEF SetToSeqs
<1>4. Len(order) = k
  BY <1>3
<1> DEFINE added == [h \in n .. n + k - 1 |-> [path |-> order[h - n + 1], parent |-> parent[h - n + 1]]]
<1>5. objects' = Over(objs, added)
  BY <1>1, <1>4 DEF Track
<1>6. DOMAIN added = n .. n + k - 1 /\ \A h \in n .. n + k - 1 : added[h].path = order[h - n + 1]
  OBVIOUS
<1> HIDE DEF added
<1>7. /\ DOMAIN objects' = DOMAIN objs \cup (n .. n + k - 1)
      /\ \A x \in DOMAIN objs : objects'[x].path = objects[x].path
      /\ \A h \in (n .. n + k - 1) \ DOMAIN objs : objects'[h].path = order[h - n + 1]
  BY <1>5, <1>6 DEF Over
<1>8. \A h \in n .. n + k - 1 : h - n + 1 \in 1 .. k /\ \A g \in n .. n + k - 1 : h - n + 1 = g - n + 1 => h = g
  BY <1>1, <1>2
<1>9. SUFFICES ASSUME NEW p \in Paths PROVE Tracked1(p)
  BY DEF HandlesFollow
<1>10. CASE p \in new
  <2>1. PICK x : \A h \in n .. n + k - 1 : order[h - n + 1] = p => h = x
    <3>1. \A g, h \in n .. n + k - 1 : order[g - n + 1] = p /\ order[h - n + 1] = p => g = h
      <4>1. SUFFICES ASSUME NEW g \in n .. n + k - 1, NEW h \in n .. n + k - 1,
                            order[g - n + 1] = p, order[h - n + 1] = p
                     PROVE  g = h
        OBVIOUS
      <4>2. PICK i \in 1 .. k, j \in 1 .. k : i = g - n + 1 /\ j = h - n + 1
        BY <1>8
      <4>3. i = j
        BY ONLY <1>3, <4>1, <4>2
      <4> QED BY ONLY <1>8, <4>2, <4>3
    <3> QED BY <3>1
  <2>2. Tracks(objects', p) \subseteq Tracks(objects, p) \cup {x}
    <3>1. SUFFICES ASSUME NEW h \in DOMAIN objects', objects'[h].path = p
                   PROVE  h \in Tracks(objects, p) \cup {x}
      BY DEF Tracks
    <3>2. CASE h \in DOMAIN objs
      BY <1>7, <3>1, <3>2 DEF Tracks
    <3>3. CASE h \notin DOMAIN objs
      BY <1>7, <2>1, <3>1, <3>3
    <3> QED BY <3>2, <3>3
  <2> QED BY <1>10, <2>2 DEF Tracked1, NewTrack, Has
<1>11. CASE p \notin new
  <2>1. \A h \in n .. n + k - 1 : order[h - n + 1] # p
    BY <1>3, <1>8, <1>11
  <2>2. Tracks(objects', p) \subseteq Tracks(objects, p)
    BY <1>7, <2>1 DEF Tracks
  <2> QED BY <2>2 DEF Tracked1, FewerTracks
<1> QED BY <1>10, <1>11

-----------------------------------------------------------------------------
(* The host's operations tell what they did                                   *)

(* A watched device nobody overwrites, or moves the folders of.               *)
Plain == Watching /\ FreshNames /\ ~DirMoves

LEMMA StillFollows ==
  ASSUME DeviceInv, UNCHANGED <<disk, objects, notes>>
  PROVE  FollowedStep
<1>1. DiskTold
  BY QuietTold
<1>2. HandlesFollow
  BY HandlesSame
<1> QED BY <1>1, <1>2 DEF FollowedStep

LEMMA RefusalFollows ==
  ASSUME DeviceInv, NEW code, Refuse(code)
  PROVE  FollowedStep
<1>1. UNCHANGED <<disk, objects, notes>>
  BY DEF Refuse
<1> QED BY <1>1, StillFollows

LEMMA TransportFollows ==
  ASSUME DeviceInv, SendBulk \/ ReceiveBulk \/ ReceiveInterrupt \/ CancelTransfer
  PROVE  FollowedStep
<1>1. UNCHANGED <<disk, objects, notes>>
  BY DEF SendBulk, ReceiveBulk, ReceiveInterrupt, CancelTransfer, watch
<1> QED BY <1>1, StillFollows

LEMMA SessionFollows ==
  ASSUME DeviceInv, SessionNotOpen \/ OpenSession \/ CloseSession \/ Read
  PROVE  FollowedStep
<1>1. CASE SessionNotOpen
  BY <1>1, RefusalFollows DEF SessionNotOpen
<1>2. CASE OpenSession \/ Read
  <2>1. UNCHANGED <<disk, objects, notes>>
    BY <1>2 DEF OpenSession, Read
  <2> QED BY <2>1, StillFollows
<1>3. CASE CloseSession
  <2>1. UNCHANGED <<disk, notes>> /\ objects' = <<>>
    BY <1>3 DEF CloseSession
  <2>2. DiskTold
    BY <2>1, QuietTold
  <2>3. HandlesFollow
    <3>1. DOMAIN objects' = {}
      BY <2>1
    <3> QED BY <3>1, HandlesLeft
  <2> QED BY <2>2, <2>3 DEF FollowedStep
<1> QED BY <1>1, <1>2, <1>3

(* What a listing tracks is on disk and was not tracked.                      *)
LEMMA ScansFollow ==
  ASSUME DeviceInv, UNCHANGED <<disk, notes>>
  PROVE  /\ \A p \in Places : \A parent : ScanDir(p, parent) => FollowedStep
         /\ \A ss : ScanAll(ss) => FollowedStep
<1>0. DiskTold /\ Tree(disk)
  BY QuietTold DEF DeviceInv
<1>1. ASSUME NEW S \in SUBSET DOMAIN disk, \A q \in S : Len(q) > 1,
             NEW order \in SetToSeqs(Untracked(objects, S)), NEW parent,
             objects' = Track(objects, order, parent)
      PROVE  FollowedStep
  <2>1. PICK new : new = Untracked(objects, S)
    OBVIOUS
  <2>2. new \in SUBSET Paths /\ IsFiniteSet(new)
    BY <1>0, <1>1, <2>1, EntriesArePaths
  <2>3. new \subseteq DOMAIN disk' /\ \A p \in new : Tracks(objects, p) = {}
    BY <2>1 DEF Untracked
  <2>4. order \in SetToSeqs(new)
    BY <1>1, <2>1
  <2>5. DOMAIN objects \subseteq DOMAIN objects /\ \A x \in DOMAIN objects : objects[x].path = objects[x].path
    OBVIOUS
  <2>6. HandlesFollow
    BY <1>1, <2>2, <2>3, <2>4, <2>5, HandlesTracked
  <2> QED BY <1>0, <2>6 DEF FollowedStep
<1>2. ASSUME NEW p \in Places, NEW parent, ScanDir(p, parent) PROVE FollowedStep
  <2> DEFINE S == IF IsDir(disk, p) THEN Children(disk, p) ELSE {}
  <2>1. S \in SUBSET DOMAIN disk /\ \A q \in S : Len(q) > 1
    BY PlaceTypes DEF Children
  <2>2. PICK order \in SetToSeqs(Untracked(objects, S)) :
          objects' = Track(objects, order, [i \in 1 .. Len(order) |-> parent])
    BY <1>2 DEF ScanDir
  <2> HIDE DEF S
  <2> QED BY <1>1, <2>1, <2>2
<1>3. ASSUME NEW ss, ScanAll(ss) PROVE FollowedStep
  <2> DEFINE S == {p \in DOMAIN disk : p[1] \in ss /\ Len(p) > 1}
  <2>1. S \in SUBSET DOMAIN disk /\ \A q \in S : Len(q) > 1
    OBVIOUS
  <2>2. PICK order \in SetToSeqs(Untracked(objects, S)) :
          \E parent \in ParentsOf(objects, order) : objects' = Track(objects, order, parent)
    BY <1>3 DEF ScanAll
  <2>3. PICK parent : objects' = Track(objects, order, parent)
    BY <2>2
  <2> HIDE DEF S
  <2> QED BY <1>1, <2>1, <2>2, <2>3
<1> QED BY <1>2, <1>3

LEMMA ListingFollows ==
  ASSUME DeviceInv, GetObjectHandles \/ GetObjectPropList
  PROVE  FollowedStep
<1>0. \A h \in DOMAIN objects : objects[h].path \in Places
  BY PathsArePlaces DEF DeviceInv, HandlesAre, ObjectsAt
<1>1. ASSUME NEW p, p \in Places, NEW parent, ScanDir(p, parent), UNCHANGED <<disk, notes>>
      PROVE  FollowedStep
  BY <1>1, ScansFollow
<1>2. CASE GetObjectHandles
  <2>1. ASSUME NEW s \in Storages, NEW parent \in 0 .. nextHandle - 1,
               IF parent # Root /\ (parent \notin DOMAIN objects \/ objects[parent].path[1] # s)
               THEN Refuse("InvalidObjectHandle")
               ELSE /\ ScanDir(IF parent = Root THEN <<s>> ELSE objects[parent].path, parent)
                    /\ Reply(OkWithData)
                    /\ UNCHANGED <<disk, session, send, events, notes>>
        PROVE  FollowedStep
    <3>1. CASE Refuse("InvalidObjectHandle")
      BY <3>1, RefusalFollows
    <3>2. CASE ~(parent # Root /\ (parent \notin DOMAIN objects \/ objects[parent].path[1] # s))
      <4>1. PICK p : p = IF parent = Root THEN <<s>> ELSE objects[parent].path
        OBVIOUS
      <4>2. p \in Places
        BY <1>0, <3>2, <4>1, RootsArePlaces
      <4>3. ScanDir(p, parent) /\ UNCHANGED <<disk, notes>>
        BY <2>1, <3>2, <4>1
      <4> QED BY <1>1, <4>2, <4>3
    <3> QED BY <2>1, <3>1, <3>2
  <2>2. ASSUME NEW s \in Storages, ScanAll({s}), UNCHANGED <<disk, session, send, events, notes>>
        PROVE  FollowedStep
    BY <2>2, ScansFollow
  <2> QED BY <1>2, <2>1, <2>2 DEF GetObjectHandles
<1>3. CASE GetObjectPropList
  <2>1. ASSUME ScanAll(Storages), UNCHANGED <<disk, session, send, events, notes>> PROVE FollowedStep
    BY <2>1, ScansFollow
  <2>2. ASSUME NEW h, IF h \notin DOMAIN objects THEN Refuse("InvalidObjectHandle")
               ELSE /\ ScanDir(objects[h].path, h)
                    /\ Reply(OkWithData)
                    /\ UNCHANGED <<disk, session, send, events, notes>>
        PROVE  FollowedStep
    <3>1. CASE h \notin DOMAIN objects
      BY <2>2, <3>1, RefusalFollows
    <3>2. CASE h \in DOMAIN objects
      BY <1>0, <1>1, <2>2, <3>2
    <3> QED BY <3>1, <3>2
  <2> QED BY <1>3, <2>1, <2>2 DEF GetObjectPropList
<1> QED BY <1>2, <1>3

(* A new entry is reported; one that was there had its handle already.        *)
LEMMA EntryTold ==
  ASSUME DeviceInv, Watching, NEW p \in Paths, NEW item, disk' = Extend(disk, p, item),
         Notify(IF Has(disk, p) THEN Quiet ELSE Came(Host, {p}))
  PROVE  DiskTold /\ p \in DOMAIN disk'
<1>1. DOMAIN disk' = DOMAIN disk \cup {p}
  BY DEF Extend
<1>2. CASE Has(disk, p)
  <2>1. notes' = notes \o <<>>
    BY <1>2 DEF Notify, Quiet
  <2>2. notes' = notes
    BY <2>1, ConcatEmptySeq DEF DeviceInv
  <2> QED BY <1>1, <2>2, QuietTold
<1>3. CASE ~Has(disk, p)
  <2>1. {p} \in SUBSET Paths /\ IsFiniteSet({p}) /\ Host \in {Host} \cup Outsiders
    BY FS_Singleton
  <2>2. Notify(Came(Host, {p}))
    BY <1>3
  <2> QED BY <1>1, <2>1, <2>2, CameTold
<1> QED BY <1>2, <1>3

LEMMA SendObjectInfoFollows ==
  ASSUME DeviceInv, Plain, command \in Commands(nextHandle), SendObjectInfo
  PROVE  FollowedStep
<1>1. command.op = "SendObjectInfo"
  BY DEF SendObjectInfo, RunsWithData
<1>2. PICK s \in Storages, parent \in 0 .. nextHandle - 1, name \in Names, dir \in BOOLEAN :
        s = command.storage /\ parent = command.parent /\ name = command.name /\ dir = command.dir
  BY <1>1 DEF Commands, NoCommand
<1> DEFINE known == parent \in DOMAIN objects /\ objects[parent].path[1] = s
           p == PathOf(s, parent) \o <<name>>
           made == IF dir THEN CanMakeDir(disk, p) ELSE CanWrite(disk, p)
           item == IF dir THEN Dir ELSE File(<<>>)
<1>3. CASE s \in ReadOnly
  <2>1. Refuse("StoreReadOnly")
    BY <1>2, <1>3 DEF SendObjectInfo
  <2> QED BY <2>1, RefusalFollows
<1>4. CASE s \notin ReadOnly /\ parent # Root /\ ~(known /\ IsDir(disk, objects[parent].path))
  <2>1. Refuse("InvalidParent")
    BY <1>2, <1>4 DEF SendObjectInfo
  <2> QED BY <2>1, RefusalFollows
<1>5. CASE s \notin ReadOnly /\ ~(parent # Root /\ ~(known /\ IsDir(disk, objects[parent].path)))
  <2>1. /\ NameIsFree(p) /\ Len(p) <= MaxDepth + 1
        /\ IF ~made
           THEN UNCHANGED <<disk, objects, notes>>
           ELSE /\ disk' = IF dir THEN MakeDir(disk, p) ELSE Write(disk, p, <<>>)
                /\ Notify(IF Has(disk, p) THEN Quiet ELSE Came(Host, {p}))
                /\ objects' = Extend(objects, nextHandle, [path |-> p, parent |-> parent])
    BY <1>2, <1>5 DEF SendObjectInfo
  <2>2. p \in Paths
    <3>1. PathOf(s, parent) \in Places
      BY <1>5, PathOfIs
    <3> QED BY <2>1, <3>1, NamedPlace
  <2>3. CASE ~made
    BY <2>1, <2>3, StillFollows
  <2>4. CASE made
    <3>1. disk' = Extend(disk, p, item)
      BY <2>1, <2>4 DEF MakeDir, Write
    <3>2. DiskTold /\ p \in DOMAIN disk'
      BY <2>1, <2>2, <2>4, <3>1, EntryTold DEF Plain
    <3>3. p \notin DOMAIN disk
      BY <2>1 DEF NameIsFree, Plain, Has
    <3>4. /\ DOMAIN objects' = DOMAIN objects \cup {nextHandle} /\ objects'[nextHandle].path = p
          /\ \A x \in DOMAIN objects : x # nextHandle => objects'[x] = objects[x]
      BY <2>1, <2>4 DEF Extend
    <3> HIDE DEF p
    <3>5. HandlesFollow
      BY <3>2, <3>3, <3>4, OneHandle
    <3> QED BY <3>2, <3>5 DEF FollowedStep
  <2> QED BY <2>3, <2>4
<1> QED BY <1>3, <1>4, <1>5

LEMMA SendObjectFollows ==
  ASSUME DeviceInv, Plain, SendObject
  PROVE  FollowedStep
<1> DEFINE gone == send # NoSend /\ send.parent # Root /\ send.parent \notin DOMAIN objects
           p == PathOf(send.storage, send.parent) \o <<send.name>>
<1>1. CASE send = NoSend \/ gone \/ ~CanWrite(disk, p)
  <2>1. UNCHANGED <<disk, objects, notes>>
    BY <1>1 DEF SendObject
  <2> QED BY <2>1, StillFollows
<1>2. CASE ~(send = NoSend \/ gone \/ ~CanWrite(disk, p))
  <2>1. /\ NameIsFree(p) \/ send.handle \in Tracks(objects, p)
        /\ Len(p) <= MaxDepth + 1
        /\ disk' = Write(disk, p, command.data)
        /\ Notify(IF Has(disk, p) THEN Quiet ELSE Came(Host, {p}))
        /\ objects' = Extend(objects, send.handle, [path |-> p, parent |-> send.parent])
    BY <1>2 DEF SendObject
  <2>2. PICK h \in 1 .. nextHandle - 1, s \in Storages \ ReadOnly, parent \in 0 .. nextHandle - 1,
             name \in Names :
          h = send.handle /\ s = send.storage /\ parent = send.parent /\ name = send.name
    BY <1>2 DEF DeviceInv, Sends
  <2>3. p \in Paths
    <3>1. PathOf(s, parent) \in Places
      BY <1>2, <2>2, PathOfIs
    <3> QED BY <2>1, <2>2, <3>1, NamedPlace
  <2>4. disk' = Extend(disk, p, File(command.data))
    BY <2>1 DEF Write
  <2>5. DiskTold /\ p \in DOMAIN disk'
    BY <2>1, <2>3, <2>4, EntryTold DEF Plain
  <2>6. p \notin DOMAIN disk \/ h \in Tracks(objects, p)
    BY <2>1, <2>2 DEF NameIsFree, Plain, Has
  <2>7. /\ DOMAIN objects' = DOMAIN objects \cup {h} /\ objects'[h].path = p
        /\ \A x \in DOMAIN objects : x # h => objects'[x] = objects[x]
    BY <2>1, <2>2 DEF Extend
  <2> HIDE DEF p
  <2>8. HandlesFollow
    BY <2>5, <2>6, <2>7, OneHandle
  <2> QED BY <2>5, <2>8 DEF FollowedStep
<1> QED BY <1>1, <1>2

LEMMA DeleteObjectFollows ==
  ASSUME DeviceInv, Plain, DeleteObject
  PROVE  FollowedStep
<1>1. PICK h \in 1 .. nextHandle - 1 :
        CASE ~Tracked(h) -> Refuse("InvalidObjectHandle")
          [] Tracked(h) /\ Storage(h) \in ReadOnly -> Refuse("StoreReadOnly")
          [] Tracked(h) /\ Storage(h) \notin ReadOnly /\ ~Has(disk, objects[h].path) ->
               Refuse("GeneralError")
          [] OTHER ->
               LET p == objects[h].path
               IN  /\ disk' = Cut(disk, p)
                   /\ Notify(Went(Host, Below(disk, p)))
                   /\ objects' = [x \in {y \in DOMAIN objects : ~IsPrefix(p, objects[y].path)}
                                    |-> objects[x]]
                   /\ Announce(Removed(h) \o StorageChanged(Storage(h)))
                   /\ Reply(Ok)
                   /\ UNCHANGED <<nextHandle, session, send>>
  BY DEF DeleteObject
<1>2. CASE ~Tracked(h) \/ Storage(h) \in ReadOnly \/ ~Has(disk, objects[h].path)
  <2>1. Refuse("InvalidObjectHandle") \/ Refuse("StoreReadOnly") \/ Refuse("GeneralError")
    BY <1>1, <1>2
  <2> QED BY <2>1, RefusalFollows
<1>3. CASE Tracked(h) /\ Storage(h) \notin ReadOnly /\ Has(disk, objects[h].path)
  <2>1. PICK p \in Paths : p = objects[h].path
    BY <1>3, ObjectTypes DEF Tracked
  <2>2. /\ disk' = Cut(disk, p)
        /\ Notify(Went(Host, Below(disk, p)))
        /\ objects' = [x \in {y \in DOMAIN objects : ~IsPrefix(p, objects[y].path)} |-> objects[x]]
    BY <1>1, <1>3, <2>1
  <2>3. DiskTold
    <3>1. Host \in {Host} \cup Outsiders /\ Watching
      BY DEF Plain
    <3> QED BY <2>2, <3>1, WentTold
  <2>4. HandlesFollow
    <3>1. DOMAIN objects' \subseteq DOMAIN objects /\ \A x \in DOMAIN objects' : objects'[x].path = objects[x].path
      BY <2>2
    <3> QED BY <3>1, HandlesLeft
  <2> QED BY <2>3, <2>4 DEF FollowedStep
<1> QED BY <1>2, <1>3

(* A file that is renamed or moved takes the one handle along.                *)
LEMMA FileMoved ==
  ASSUME DeviceInv, Plain, NEW h \in DOMAIN objects, NEW p \in Paths, NEW r \in Paths,
         p = objects[h].path, CanRename(disk, p, r), ~IsDir(disk, p), p = r \/ ~Has(disk, r),
         disk' = Renamed(disk, p, r),
         Notify(IF p = r THEN Quiet ELSE Then(Went(Host, {p}), Came(Host, {r}))),
         DOMAIN objects' = DOMAIN objects, objects'[h].path = r,
         \A x \in DOMAIN objects : x # h => objects'[x] = objects[x]
  PROVE  FollowedStep
<1>1. DOMAIN disk' = (DOMAIN disk \ {p}) \cup {r} /\ p \in DOMAIN disk
  <2>1. Tree(disk) /\ p \in DOMAIN disk
    BY DEF DeviceInv, CanRename, Has
  <2>2. DOMAIN Renamed(disk, p, r) = (DOMAIN disk \ {p}) \cup {r}
    BY <2>1, FileRenamed
  <2> QED BY <2>1, <2>2
<1>2. DiskTold
  <2>1. CASE p = r
    <3>1. notes' = notes \o <<>>
      BY <2>1 DEF Notify, Quiet
    <3>2. notes' = notes /\ DOMAIN disk \subseteq DOMAIN disk'
      BY <1>1, <2>1, <3>1, ConcatEmptySeq DEF DeviceInv
    <3> QED BY <3>2, QuietTold
  <2>2. CASE p # r
    <3>1. /\ Notify(Then(Went(Host, {p}), Came(Host, {r}))) /\ Watching /\ Host \in {Host} \cup Outsiders
          /\ r \in DOMAIN disk' /\ DOMAIN disk \ {p} \subseteq DOMAIN disk'
      BY <1>1, <2>2 DEF Plain
    <3> QED BY <3>1, MovedTold
  <2> QED BY <2>1, <2>2
<1>3. HandlesFollow
  <2>1. r \in DOMAIN disk' /\ (r \notin DOMAIN disk \/ h \in Tracks(objects, r))
    BY <1>1 DEF Has, Tracks
  <2>2. DOMAIN objects' = DOMAIN objects \cup {h}
    OBVIOUS
  <2> QED BY <2>1, <2>2, OneHandle
<1> QED BY <1>2, <1>3 DEF FollowedStep

LEMMA SetObjectPropValueFollows ==
  ASSUME DeviceInv, Plain, command \in Commands(nextHandle), SetObjectPropValue
  PROVE  FollowedStep
<1>1. command.op = "SetObjectPropValue"
  BY DEF SetObjectPropValue, RunsWithData
<1>2. PICK h \in 1 .. nextHandle - 1, name \in Names : h = command.handle /\ name = command.name
  BY <1>1 DEF Commands, NoCommand
<1> DEFINE p == objects[h].path
           r == Front(p) \o <<name>>
<1>3. (CASE ~Tracked(h) -> Refuse("InvalidObjectHandle")
        [] Tracked(h) /\ Storage(h) \in ReadOnly -> Refuse("StoreReadOnly")
        [] Tracked(h) /\ Storage(h) \notin ReadOnly /\ ~CanRename(disk, p, r) ->
             Refuse("GeneralError")
        [] OTHER ->
             /\ NameIsFree(r) /\ (IsDir(disk, p) => DirMoves)
             /\ disk' = Renamed(disk, p, r)
             /\ Notify(IF p = r THEN Quiet ELSE Then(Went(Host, {p}), Came(Host, {r})))
             /\ objects' = [objects EXCEPT ![h].path = r]
             /\ Reply(Ok)
             /\ UNCHANGED <<nextHandle, session, send, events>>)
  BY <1>2 DEF SetObjectPropValue
<1>4. CASE ~Tracked(h) \/ Storage(h) \in ReadOnly \/ ~CanRename(disk, p, r)
  <2>1. Refuse("InvalidObjectHandle") \/ Refuse("StoreReadOnly") \/ Refuse("GeneralError")
    BY <1>3, <1>4
  <2> QED BY <2>1, RefusalFollows
<1>5. CASE Tracked(h) /\ Storage(h) \notin ReadOnly /\ CanRename(disk, p, r)
  <2>1. /\ NameIsFree(r) /\ (IsDir(disk, p) => DirMoves)
        /\ disk' = Renamed(disk, p, r)
        /\ Notify(IF p = r THEN Quiet ELSE Then(Went(Host, {p}), Came(Host, {r})))
        /\ objects' = [objects EXCEPT ![h].path = r]
    BY <1>3, <1>5
  <2>2. p \in Paths /\ h \in DOMAIN objects /\ objects[h] \in ObjectsAt(nextHandle)
    BY <1>5, ObjectTypes DEF Tracked
  <2>3. Front(p) \in Places /\ Len(Front(p)) <= MaxDepth
    <3> HIDE DEF p
    <3> QED BY <2>2, PathTypes
  <2>4. r \in Paths
    BY <2>3, Extended
  <2>5. ~IsDir(disk, p) /\ ~Has(disk, r)
    BY <2>1 DEF Plain, NameIsFree
  <2>6. p = objects[h].path
    OBVIOUS
  <2> HIDE DEF p, r
  <2>7. /\ DOMAIN objects' = DOMAIN objects /\ objects'[h].path = r
        /\ \A x \in DOMAIN objects : x # h => objects'[x] = objects[x]
    <3>1. objects' = [x \in DOMAIN objects |->
                        IF x = h THEN [objects[h] EXCEPT !.path = r] ELSE objects[x]]
      BY ONLY <2>1
    <3>2. PICK parent \in 0 .. nextHandle - 1 : objects[h] = [path |-> p, parent |-> parent]
      BY <2>2, <2>6 DEF ObjectsAt
    <3>3. [objects[h] EXCEPT !.path = r].path = r
      BY ONLY <3>2
    <3> QED BY ONLY <2>2, <3>1, <3>3
  <2> QED BY <1>5, <2>1, <2>2, <2>4, <2>5, <2>6, <2>7, FileMoved
<1> QED BY <1>4, <1>5

(* What a copy brings is reported, whole or in part.                          *)
LEMMA CopyTold ==
  ASSUME DeviceInv, Plain, NEW p, NEW r, NEW S \in SUBSET Below(disk, p),
         \A q \in Below(disk, p) : Rebase(q, p, r) \in Paths, Tree(disk'),
         disk' = Copied(disk, p, r, S), Notify(Came(Host, DOMAIN disk' \ DOMAIN disk))
  PROVE  DiskTold
<1> DEFINE new == DOMAIN disk' \ DOMAIN disk
<1>1. DOMAIN disk' = {Rebase(q, p, r) : q \in S} \cup DOMAIN disk
  BY DEF Copied, Over
<1>2. new \in SUBSET Paths /\ new \subseteq DOMAIN disk' /\ DOMAIN disk \subseteq DOMAIN disk'
  BY <1>1
<1>3. IsFiniteSet(new)
  <2>1. new \in SUBSET DOMAIN disk'
    OBVIOUS
  <2> QED BY <2>1, FS_Subset DEF Tree
<1>4. Notify(Came(Host, new)) /\ Host \in {Host} \cup Outsiders /\ Watching
  BY DEF Plain
<1> HIDE DEF new
<1> QED BY <1>2, <1>3, <1>4, CameTold

LEMMA FailedCopyFollows ==
  ASSUME DeviceInv, Plain, NEW p \in Paths, NEW r \in Paths,
         \A q \in Below(disk, p) : Rebase(q, p, r) \in Paths /\ Rebase(q, p, r) \in Places,
         Tree(disk'), FailedCopy(p, r)
  PROVE  FollowedStep
<1>1. PICK S \in (IF IsDir(disk, p) /\ Valid(r) THEN PartialCopies(disk, p, r) ELSE {{}}) :
        /\ disk' = Copied(disk, p, r, S)
        /\ Notify(Came(Host, DOMAIN disk' \ DOMAIN disk))
        /\ UNCHANGED objects
  BY DEF FailedCopy
<1>2. S \in SUBSET Below(disk, p)
  BY <1>1 DEF PartialCopies
<1>3. DiskTold
  BY <1>1, <1>2, CopyTold
<1>4. HandlesFollow
  BY <1>1, HandlesSame
<1> QED BY <1>3, <1>4 DEF FollowedStep

LEMMA MoveObjectFollows ==
  ASSUME DeviceInv, Plain, Tree(disk'), MoveObject
  PROVE  FollowedStep
<1>1. PICK h \in 1 .. nextHandle - 1, s \in Storages, parent \in 0 .. nextHandle - 1 :
        LET refusal == MoveRefusal(h, s, parent)
        IN  IF refusal # "none" THEN Refuse(refusal)
            ELSE LET p == objects[h].path
                     r == Destination(h, s, parent)
                     moved == MovedTree(p, r)
                 IN  /\ Fits(p, r)
                     /\ p = r \/ NameIsFree(r)
                     /\ IsDir(disk, p) => DirMoves
                     /\ IF ~Valid(r) \/ ~moved.ok THEN FailedCopy(p, r)
                        ELSE /\ disk' = moved.tree /\ Notify(moved.ns)
                             /\ objects' = [objects EXCEPT ![h] = [path |-> r, parent |-> parent]]
                             /\ Announce(InfoChanged(h) \o StorageChanged(Storage(h)) \o
                                  IF s # Storage(h) THEN StorageChanged(s) ELSE <<>>)
                             /\ Reply(Ok)
                             /\ UNCHANGED <<nextHandle, session, send>>
  BY DEF MoveObject
<1>2. CASE MoveRefusal(h, s, parent) # "none"
  <2>1. Refuse(MoveRefusal(h, s, parent))
    BY <1>1, <1>2
  <2> QED BY <2>1, RefusalFollows
<1>3. CASE MoveRefusal(h, s, parent) = "none"
  <2>1. Tracked(h) /\ (parent = Root \/ Tracked(parent))
    BY <1>3 DEF MoveRefusal
  <2>2. PICK p \in Paths : p = objects[h].path
    BY <2>1, ObjectTypes DEF Tracked
  <2>3. PICK r : r = Destination(h, s, parent)
    OBVIOUS
  <2>4. /\ Fits(p, r) /\ (p = r \/ NameIsFree(r)) /\ (IsDir(disk, p) => DirMoves)
        /\ IF ~Valid(r) \/ ~MovedTree(p, r).ok THEN FailedCopy(p, r)
           ELSE /\ disk' = MovedTree(p, r).tree /\ Notify(MovedTree(p, r).ns)
                /\ objects' = [objects EXCEPT ![h] = [path |-> r, parent |-> parent]]
    BY <1>1, <1>3, <2>2, <2>3
  <2>5. /\ r \in Paths
        /\ \A q \in Below(disk, p) : Rebase(q, p, r) \in Paths /\ Rebase(q, p, r) \in Places
    <3>1. Last(p) \in Names /\ r = PathOf(s, parent) \o <<Last(p)>>
      BY <2>2, <2>3, PathTypes DEF Destination
    <3>2. Fits(p, r) /\ (parent = Root \/ parent \in DOMAIN objects)
      BY <2>1, <2>4 DEF Tracked
    <3>3. PICK name \in Names : r = PathOf(s, parent) \o <<name>>
      BY <3>1
    <3>4. DeviceInv
      OBVIOUS
    <3> QED BY ONLY <3>2, <3>3, <3>4, FitsPlaces
  <2>6. ~IsDir(disk, p) /\ (p = r \/ ~Has(disk, r))
    BY <2>4 DEF Plain, NameIsFree
  <2>7. CASE ~Valid(r) \/ ~MovedTree(p, r).ok
    BY <2>4, <2>5, <2>7, FailedCopyFollows
  <2>8. CASE ~(~Valid(r) \/ ~MovedTree(p, r).ok)
    <3>1. CanRename(disk, p, r)
      BY <2>6, <2>8 DEF MovedTree
    <3>2. /\ MovedTree(p, r).tree = Renamed(disk, p, r)
          /\ MovedTree(p, r).ns = IF p = r THEN Quiet ELSE Then(Went(Host, {p}), Came(Host, {r}))
      BY <3>1 DEF MovedTree
    <3>3. /\ disk' = Renamed(disk, p, r)
          /\ Notify(IF p = r THEN Quiet ELSE Then(Went(Host, {p}), Came(Host, {r})))
          /\ objects' = [objects EXCEPT ![h] = [path |-> r, parent |-> parent]]
      BY <2>4, <2>8, <3>2
    <3>4. /\ h \in DOMAIN objects /\ DOMAIN objects' = DOMAIN objects /\ objects'[h].path = r
          /\ \A x \in DOMAIN objects : x # h => objects'[x] = objects[x]
      BY <2>1, <3>3 DEF Tracked
    <3> QED BY <2>2, <2>5, <2>6, <3>1, <3>3, <3>4, FileMoved
  <2> QED BY <2>7, <2>8
<1> QED BY <1>2, <1>3

LEMMA CopyObjectFollows ==
  ASSUME DeviceInv, Plain, Tree(disk'), CopyObject
  PROVE  FollowedStep
<1>1. PICK h \in 1 .. nextHandle - 1, s \in Storages, parent \in 0 .. nextHandle - 1 :
        LET refusal == CopyRefusal(h, s, parent)
        IN  IF refusal # "none" THEN Refuse(refusal)
            ELSE LET p == objects[h].path
                     r == Destination(h, s, parent)
                     clash == Clashes(h, s, parent)
                 IN  /\ Fits(p, r)
                     /\ NameIsFree(r)
                     /\ IF ~Valid(r) \/ ~CanCopy(disk, p, r) THEN FailedCopy(p, r)
                        ELSE /\ disk' = Copied(disk, p, r, Below(disk, p))
                             /\ Notify(Came(Host, DOMAIN disk' \ DOMAIN disk))
                             /\ IF clash
                                THEN /\ Reply(IF IsDir(disk, p) THEN <<"GeneralError">> ELSE Ok)
                                     /\ UNCHANGED <<objects, nextHandle, events>>
                                ELSE /\ CanAlloc(1) /\ nextHandle' = nextHandle + 1
                                     /\ objects' = Extend(objects, nextHandle,
                                                         [path |-> r, parent |-> parent])
                                     /\ Announce(Added(nextHandle) \o StorageChanged(s))
                                     /\ Reply(Ok)
                             /\ UNCHANGED <<session, send>>
  BY DEF CopyObject
<1>2. CASE CopyRefusal(h, s, parent) # "none"
  <2>1. Refuse(CopyRefusal(h, s, parent))
    BY <1>1, <1>2
  <2> QED BY <2>1, RefusalFollows
<1>3. CASE CopyRefusal(h, s, parent) = "none"
  <2>1. Tracked(h) /\ (parent = Root \/ Tracked(parent))
    BY <1>3 DEF CopyRefusal
  <2>2. PICK p \in Paths : p = objects[h].path
    BY <2>1, ObjectTypes DEF Tracked
  <2>3. PICK r : r = Destination(h, s, parent)
    OBVIOUS
  <2>4. /\ Fits(p, r) /\ NameIsFree(r)
        /\ IF ~Valid(r) \/ ~CanCopy(disk, p, r) THEN FailedCopy(p, r)
           ELSE /\ disk' = Copied(disk, p, r, Below(disk, p))
                /\ Notify(Came(Host, DOMAIN disk' \ DOMAIN disk))
                /\ IF Clashes(h, s, parent) THEN UNCHANGED <<objects, nextHandle, events>>
                   ELSE objects' = Extend(objects, nextHandle, [path |-> r, parent |-> parent])
    BY <1>1, <1>3, <2>2, <2>3
  <2>5. /\ r \in Paths
        /\ \A q \in Below(disk, p) : Rebase(q, p, r) \in Paths /\ Rebase(q, p, r) \in Places
    <3>1. Last(p) \in Names /\ r = PathOf(s, parent) \o <<Last(p)>>
      BY <2>2, <2>3, PathTypes DEF Destination
    <3>2. Fits(p, r) /\ (parent = Root \/ parent \in DOMAIN objects)
      BY <2>1, <2>4 DEF Tracked
    <3>3. PICK name \in Names : r = PathOf(s, parent) \o <<name>>
      BY <3>1
    <3>4. DeviceInv
      OBVIOUS
    <3> QED BY ONLY <3>2, <3>3, <3>4, FitsPlaces
  <2>6. CASE ~Valid(r) \/ ~CanCopy(disk, p, r)
    BY <2>4, <2>5, <2>6, FailedCopyFollows
  <2>7. CASE ~(~Valid(r) \/ ~CanCopy(disk, p, r))
    <3>1. /\ disk' = Copied(disk, p, r, Below(disk, p))
          /\ Notify(Came(Host, DOMAIN disk' \ DOMAIN disk))
      BY <2>4, <2>7
    <3>2. DiskTold
      BY <2>5, <3>1, CopyTold
    <3>3. CASE Clashes(h, s, parent)
      <4>1. HandlesFollow
        BY <2>4, <2>7, <3>3, HandlesSame
      <4> QED BY <3>2, <4>1 DEF FollowedStep
    <3>4. CASE ~Clashes(h, s, parent)
      <4>1. objects' = Extend(objects, nextHandle, [path |-> r, parent |-> parent])
        BY <2>4, <2>7, <3>4
      <4>2. /\ DOMAIN objects' = DOMAIN objects \cup {nextHandle} /\ objects'[nextHandle].path = r
            /\ \A x \in DOMAIN objects : x # nextHandle => objects'[x] = objects[x]
        BY <4>1 DEF Extend
      <4>3. r \notin DOMAIN disk
        BY <2>4 DEF Plain, NameIsFree, Has
      <4>4. r \in DOMAIN disk'
        <5>1. p \in Below(disk, p)
          <6>1. Has(disk, p) /\ p \in Places /\ p \in Seq(Elements)
            BY <2>7, PathTypes, PlaceTypes DEF CanCopy
          <6> QED BY <6>1, PrefixReflexive DEF Below, Has
        <5>2. Rebase(p, p, r) = r
          BY <2>5, RebaseSelf
        <5>3. DOMAIN disk' = {Rebase(q, p, r) : q \in Below(disk, p)} \cup DOMAIN disk
          BY <3>1 DEF Copied, Over
        <5> QED BY <5>1, <5>2, <5>3
      <4>5. HandlesFollow
        BY <4>2, <4>3, <4>4, OneHandle
      <4> QED BY <3>2, <4>5 DEF FollowedStep
    <3> QED BY <3>3, <3>4
  <2> QED BY <2>6, <2>7
<1> QED BY <1>2, <1>3
-----------------------------------------------------------------------------
(* The harness's calls, and changes made outside MTP, tell what they did      *)

LEMMA RescanFollows ==
  ASSUME DeviceInv, RescanBackingDirs
  PROVE  FollowedStep
<1> DEFINE stale == {h \in DOMAIN objects : ~Has(disk, objects[h].path)}
           kept == [h \in DOMAIN objects \ stale |-> objects[h]]
           entries == {p \in DOMAIN disk : Len(p) > 1}
           new == Untracked(kept, entries)
<1>1. UNCHANGED <<disk, notes>>
  BY DEF RescanBackingDirs
<1>2. PICK order \in SetToSeqs(new) : \E parent \in ParentsOf(kept, order) : objects' = Track(kept, order, parent)
  BY DEF RescanBackingDirs
<1>3. PICK parent : objects' = Track(kept, order, parent)
  BY <1>2
<1>4. DOMAIN kept \subseteq DOMAIN objects /\ \A x \in DOMAIN kept : kept[x].path = objects[x].path
  OBVIOUS
<1>5. ASSUME NEW p \in new PROVE Tracks(objects, p) = {}
  <2>1. p \in DOMAIN disk /\ Tracks(kept, p) = {}
    BY DEF Untracked
  <2>2. \A h \in DOMAIN objects : objects[h].path = p => h \in DOMAIN kept /\ kept[h].path = p
    BY <2>1 DEF Has
  <2> QED BY <2>1, <2>2 DEF Tracks
<1>6. entries \in SUBSET DOMAIN disk /\ (\A p \in entries : Len(p) > 1) /\ Tree(disk)
  BY DEF DeviceInv
<1>7. new \subseteq DOMAIN disk'
  BY <1>1 DEF Untracked
<1> HIDE DEF stale, kept, entries
<1>8. new \in SUBSET Paths /\ IsFiniteSet(new)
  BY <1>6, EntriesArePaths
<1> HIDE DEF new
<1>9. DiskTold
  BY <1>1, QuietTold
<1>10. HandlesFollow
  BY <1>2, <1>3, <1>4, <1>5, <1>7, <1>8, HandlesTracked
<1> QED BY <1>9, <1>10 DEF FollowedStep

LEMMA RekeyFollows ==
  ASSUME DeviceInv, RekeyObject
  PROVE  FollowedStep
<1>1. UNCHANGED <<disk, notes>>
  BY DEF RekeyObject, watch
<1>2. PICK h \in DOMAIN objects :
        LET rest == Extend([x \in DOMAIN objects \ {h} |-> objects[x]], nextHandle, objects[h])
        IN  objects' = [x \in DOMAIN rest |->
              [rest[x] EXCEPT !.parent = IF @ = h THEN nextHandle ELSE @]]
  BY DEF RekeyObject
<1> DEFINE rest == Extend([x \in DOMAIN objects \ {h} |-> objects[x]], nextHandle, objects[h])
<1>3. objects' = [x \in DOMAIN rest |->
                    [rest[x] EXCEPT !.parent = IF rest[x].parent = h THEN nextHandle ELSE rest[x].parent]]
  BY <1>2
<1>4. /\ DOMAIN rest = (DOMAIN objects \ {h}) \cup {nextHandle}
      /\ \A x \in DOMAIN objects \ {h} : x # nextHandle => rest[x] = objects[x]
      /\ rest[nextHandle] = objects[h]
      /\ \A x \in DOMAIN rest : rest[x] \in ObjectsAt(nextHandle)
  <2>1. nextHandle \notin DOMAIN objects
    BY ObjectTypes, Bounds
  <2> QED BY <2>1, ObjectTypes DEF Extend
<1> HIDE DEF rest
<1>5. \A x \in DOMAIN objects' : objects'[x].path = rest[x].path
  <2>1. SUFFICES ASSUME NEW x \in DOMAIN objects' PROVE objects'[x].path = rest[x].path
    OBVIOUS
  <2>2. x \in DOMAIN rest
    BY <1>3
  <2>3. PICK p \in Paths, parent \in 0 .. nextHandle - 1 : rest[x] = [path |-> p, parent |-> parent]
    BY <1>4, <2>2 DEF ObjectsAt
  <2>4. objects'[x] = [rest[x] EXCEPT !.parent = IF rest[x].parent = h THEN nextHandle ELSE rest[x].parent]
    BY <1>3, <2>2
  <2> QED BY <2>3, <2>4
<1>6. /\ DOMAIN objects' = (DOMAIN objects \ {h}) \cup {nextHandle}
      /\ \A x \in DOMAIN objects \ {h} : x # nextHandle => objects'[x].path = objects[x].path
      /\ objects'[nextHandle].path = objects[h].path
  BY <1>3, <1>4, <1>5
<1>7. ASSUME NEW p \in Paths PROVE Tracked1(p)
  <2>1. CASE p = objects[h].path
    <3>1. h \in Tracks(objects, p)
      BY <2>1 DEF Tracks
    <3>2. Tracks(objects', p) \subseteq (Tracks(objects, p) \ {h}) \cup {nextHandle}
      BY <1>6 DEF Tracks
    <3> QED BY <3>1, <3>2 DEF Tracked1, SwappedTrack
  <2>2. CASE p # objects[h].path
    <3>1. Tracks(objects', p) \subseteq Tracks(objects, p)
      BY <1>6, <2>2 DEF Tracks
    <3> QED BY <3>1 DEF Tracked1, FewerTracks
  <2> QED BY <2>1, <2>2
<1>8. HandlesFollow
  BY <1>7 DEF HandlesFollow
<1>9. DiskTold
  BY <1>1, QuietTold
<1> QED BY <1>8, <1>9 DEF FollowedStep

LEMMA OutsideFollows ==
  ASSUME DeviceInv, Plain, NEW t \in Outsiders, Outside(t)
  PROVE  FollowedStep
<1>0. t \in {Host} \cup Outsiders /\ Watching
  BY DEF Plain
<1>1. ASSUME NEW p \in Paths, ~Has(disk, p), Notify(Came(t, {p})),
             \/ CanMakeDir(disk, p) /\ disk' = MakeDir(disk, p)
             \/ CanWrite(disk, p) /\ \E data \in Data : disk' = Write(disk, p, data)
      PROVE  DiskTold
  <2>1. PICK item : disk' = Extend(disk, p, item)
    BY <1>1 DEF MakeDir, Write
  <2>2. DOMAIN disk' = DOMAIN disk \cup {p}
    BY <2>1 DEF Extend
  <2>3. {p} \in SUBSET Paths /\ IsFiniteSet({p})
    BY FS_Singleton
  <2> QED BY <1>0, <1>1, <2>2, <2>3, CameTold
<1>2. ASSUME NEW p \in Paths, disk' = Cut(disk, p), Notify(Went(t, Below(disk, p)))
      PROVE  DiskTold
  BY <1>0, <1>2, WentTold
<1>3. ASSUME NEW p \in Paths, NEW r \in Paths, CanRename(disk, p, r), NameIsFree(r),
             IsDir(disk, p) => DirMoves, disk' = Renamed(disk, p, r),
             Notify(Then(Went(t, {p}), Came(t, {r})))
      PROVE  DiskTold
  <2>1. ~IsDir(disk, p) /\ ~Has(disk, r) /\ Tree(disk)
    BY <1>3 DEF Plain, NameIsFree, DeviceInv
  <2>2. DOMAIN disk' = (DOMAIN disk \ {p}) \cup {r}
    BY <1>3, <2>1, FileRenamed
  <2> QED BY <1>0, <1>3, <2>2, MovedTold
<1>4. \/ \E p \in Paths :
           /\ ~Has(disk, p)
           /\ \/ CanMakeDir(disk, p) /\ disk' = MakeDir(disk, p)
              \/ CanWrite(disk, p) /\ \E data \in Data : disk' = Write(disk, p, data)
           /\ Notify(Came(t, {p}))
      \/ \E p \in DOMAIN disk \cap Paths :
           disk' = Cut(disk, p) /\ Notify(Went(t, Below(disk, p)))
      \/ \E p \in DOMAIN disk \cap Paths, r \in Paths :
           /\ p # r /\ CanRename(disk, p, r) /\ NameIsFree(r)
           /\ IsDir(disk, p) => DirMoves
           /\ \A q \in Below(disk, p) : Rebase(q, p, r) \in Paths
           /\ disk' = Renamed(disk, p, r) /\ Notify(Then(Went(t, {p}), Came(t, {r})))
  BY DEF Outside
<1>5. DiskTold
  BY <1>1, <1>2, <1>3, <1>4
<1>6. HandlesFollow
  <2>1. UNCHANGED objects
    BY DEF Outside
  <2> QED BY <2>1, HandlesSame
<1> QED BY <1>5, <1>6 DEF FollowedStep
-----------------------------------------------------------------------------
(* Every step *)

LEMMA HostFollows ==
  ASSUME VirtualInv, Plain, Tree(disk'), HostNext
  PROVE  FollowedStep
<1>1. DeviceInv /\ command \in Commands(nextHandle)
  BY DEF VirtualInv, CallInv
<1> QED BY <1>1, TransportFollows, SessionFollows, ListingFollows, SendObjectInfoFollows,
           SendObjectFollows, DeleteObjectFollows, SetObjectPropValueFollows,
           MoveObjectFollows, CopyObjectFollows DEF HostNext

LEMMA CatchesUp ==
  ASSUME VirtualInv, CatchUpInv, Plain, "Pause" \notin Ops, [VirtualNext]_virtualVars
  PROVE  CatchUpInv'
<1>0. DeviceInv /\ pauses = 0
  BY DEF VirtualInv, CatchUpInv
<1>1. Tree(disk')
  <2>1. VirtualInv'
    BY VirtualKeeps
  <2> QED BY <2>1 DEF VirtualInv, DeviceInv
<1>2. CASE HostNext
  <2>1. pauses' = 0
    BY <1>0, <1>2 DEF HostNext, SendBulk, ReceiveBulk, ReceiveInterrupt, CancelTransfer, SessionNotOpen,
       OpenSession, CloseSession, Read, GetObjectHandles, GetObjectPropList, SendObjectInfo, SendObject,
       DeleteObject, SetObjectPropValue, MoveObject, CopyObject, Runs, RunsWithData, watch
  <2> QED BY <1>0, <1>1, <1>2, <2>1, HostFollows, FollowedKeeps
<1>3. CASE WatchEvent
  BY <1>0, <1>3, WatchEventCatchesUp
<1>4. CASE RescanBackingDirs
  <2>1. pauses' = 0
    BY <1>0, <1>4 DEF RescanBackingDirs
  <2> QED BY <1>0, <1>4, <2>1, RescanFollows, FollowedKeeps
<1>5. CASE RekeyObject
  <2>1. pauses' = 0
    BY <1>0, <1>5 DEF RekeyObject, watch
  <2> QED BY <1>0, <1>5, <2>1, RekeyFollows, FollowedKeeps
<1>6. CASE ClearDroppedPaths \/ UNCHANGED virtualVars
  <2>1. pauses' = 0 /\ UNCHANGED <<disk, objects, notes>>
    BY <1>0, <1>6 DEF ClearDroppedPaths, virtualVars, device, watch
  <2> QED BY <1>0, <2>1, StillFollows, FollowedKeeps
<1>7. CASE OutsideNext
  <2>1. PICK t \in Outsiders : Outside(t)
    BY <1>7 DEF OutsideNext
  <2>2. pauses' = 0
    BY <1>0, <2>1 DEF Outside
  <2> QED BY <1>0, <2>1, <2>2, OutsideFollows, FollowedKeeps
<1> QED BY <1>2, <1>3, <1>4, <1>5, <1>6, <1>7 DEF VirtualNext, WatchNext

LEMMA CatchUpStarts == VirtualInit => CatchUpInv
<1> SUFFICES ASSUME VirtualInit PROVE CatchUpInv
  OBVIOUS
<1>1. pauses = 0 /\ notes = <<>> /\ objects = <<>>
  BY DEF VirtualInit
<1>2. Len(notes) = 0
  BY <1>1
<1>3. \A p : Tracks(objects, p) = {} /\ GoneAt(notes, p) = {}
  BY <1>1, <1>2 DEF Tracks, GoneAt
<1>4. HandlesAreDue
  BY <1>3, FS_EmptySet DEF HandlesAreDue
<1>5. CameIsThere
  BY <1>2 DEF CameIsThere
<1> QED BY <1>1, <1>4, <1>5 DEF CatchUpInv

(* With nothing to come, every handle has its file.                           *)
LEMMA CaughtUp ==
  ASSUME DeviceInv, CatchUpInv
  PROVE  NoPhantoms
<1> SUFFICES ASSUME notes = <<>>, NEW h \in DOMAIN objects, ~Has(disk, objects[h].path)
             PROVE  FALSE
  BY DEF NoPhantoms
<1>1. PICK p \in Paths : p = objects[h].path
  BY ObjectTypes
<1>2. GoneAt(notes, p) = {}
  BY DEF GoneAt
<1>3. Cardinality(Tracks(objects, p)) <= 0 /\ Cardinality(Tracks(objects, p)) \in Nat
  <2>1. Cardinality(Tracks(objects, p)) <= Cardinality(GoneAt(notes, p)) + (IF Has(disk, p) THEN 1 ELSE 0)
    BY DEF CatchUpInv, HandlesAreDue
  <2>2. Cardinality(GoneAt(notes, p)) = 0
    BY <1>2, FS_EmptySet
  <2>3. ~Has(disk, p)
    BY <1>1
  <2>4. Cardinality(Tracks(objects, p)) \in Nat
    BY TracksFinite
  <2> HIDE DEF Has
  <2> QED BY <2>1, <2>2, <2>3, <2>4
<1>4. Tracks(objects, p) = {}
  BY <1>3, FS_EmptySet, TracksFinite
<1> QED BY <1>1, <1>4 DEF Tracks

(* With a watcher that is never paused, and no file overwritten nor folder    *)
(* moved, the handles follow the files: whatever the host, the harness's      *)
(* rescans and other programs do, and however late their notifications are,   *)
(* once these are handled no handle is left for a file that is gone.          *)
THEOREM WatcherCatchesUp ==
  ASSUME Watching, FreshNames, ~DirMoves, "Pause" \notin Ops
  PROVE  WatchSpec => []WatcherLeavesNoPhantoms
<1> DEFINE Inv == scene = "watch" => VirtualInv /\ CatchUpInv
<1>1. DeviceInit => Inv
  BY VirtualStarts, CatchUpStarts DEF DeviceInit
<1>2. Inv /\ [DeviceNext]_<<scene, virtualVars>> => Inv'
  <2> SUFFICES ASSUME Inv, [DeviceNext]_<<scene, virtualVars>>, scene' = "watch"
               PROVE  VirtualInv' /\ CatchUpInv'
    OBVIOUS
  <2>1. scene = "watch" /\ [VirtualNext]_virtualVars
    BY DEF DeviceNext
  <2>2. Plain
    BY DEF Plain
  <2> QED BY <2>1, <2>2, VirtualKeeps, CatchesUp
<1>3. Inv => WatcherLeavesNoPhantoms
  BY CaughtUp DEF WatcherLeavesNoPhantoms, VirtualInv
<1> QED BY <1>1, <1>2, <1>3, PTL DEF WatchSpec
-----------------------------------------------------------------------------
(* Harnesses that pause the watcher                                           *)

(* The harnesses' device is this device: what does not depend on the          *)
(* operations, on who the outsiders are and on their discipline is the same.  *)
LEMMA SameDevice ==
  /\ \A S : Harness!Cardinality(S) = Cardinality(S)
  /\ \A S : Harness!IsFiniteSet(S) = IsFiniteSet(S)
  /\ \A p, q : Harness!IsPrefix(p, q) = IsPrefix(p, q)
  /\ \A p : Harness!Front(p) = Front(p)
  /\ \A p : Harness!Last(p) = Last(p)
  /\ \A S : Harness!SetToSeqs(S) = SetToSeqs(S)
<1>1. \A S : Harness!Cardinality(S) = Cardinality(S)
  BY DEF Harness!Cardinality, Cardinality
<1>2. \A S : Harness!IsFiniteSet(S) = IsFiniteSet(S)
  BY DEF Harness!IsFiniteSet, IsFiniteSet
<1>3. \A p, q : Harness!IsPrefix(p, q) = IsPrefix(p, q)
  BY DEF Harness!IsPrefix, IsPrefix
<1>4. \A p : Harness!Front(p) = Front(p)
  BY DEF Harness!Front, Front
<1>5. \A p : Harness!Last(p) = Last(p)
  BY DEF Harness!Last, Last
<1>6. \A S : Harness!SetToSeqs(S) = SetToSeqs(S)
  BY <1>1 DEF Harness!SetToSeqs, SetToSeqs
<1> QED BY <1>1, <1>2, <1>3, <1>4, <1>5, <1>6

LEMMA SameTrees ==
  /\ \A t, p : Harness!Has(t, p) <=> Has(t, p)
  /\ \A t, p : Harness!IsDir(t, p) <=> IsDir(t, p)
  /\ \A t, p : Harness!Below(t, p) = Below(t, p)
  /\ \A t, p : Harness!Children(t, p) = Children(t, p)
  /\ \A t, p : Harness!Cut(t, p) = Cut(t, p)
  /\ \A t, p, v : Harness!Extend(t, p, v) = Extend(t, p, v)
  /\ \A f, g : Harness!Over(f, g) = Over(f, g)
  /\ \A q, p, r : Harness!Rebase(q, p, r) = Rebase(q, p, r)
  /\ \A t, p, r : Harness!Renamed(t, p, r) = Renamed(t, p, r)
<1>1. \A t, p : Harness!Has(t, p) <=> Has(t, p)
  BY DEF Harness!Has, Has
<1>2. \A t, p : Harness!IsDir(t, p) <=> IsDir(t, p)
  BY <1>1 DEF Harness!IsDir, IsDir
<1>3. \A t, p : Harness!Below(t, p) = Below(t, p)
  BY SameDevice DEF Harness!Below, Below
<1>4. \A t, p : Harness!Children(t, p) = Children(t, p)
  BY SameDevice DEF Harness!Children, Children
<1>5. \A t, p : Harness!Cut(t, p) = Cut(t, p)
  BY <1>3 DEF Harness!Cut, Cut
<1>6. \A t, p, v : Harness!Extend(t, p, v) = Extend(t, p, v)
  BY DEF Harness!Extend, Extend
<1>7. \A f, g : Harness!Over(f, g) = Over(f, g)
  BY DEF Harness!Over, Over
<1>8. \A q, p, r : Harness!Rebase(q, p, r) = Rebase(q, p, r)
  BY DEF Harness!Rebase, Rebase
<1>9. \A t, p, r : Harness!Renamed(t, p, r) = Renamed(t, p, r)
  BY <1>3, <1>5, <1>7, <1>8 DEF Harness!Renamed, Renamed
<1> QED BY <1>1, <1>2, <1>3, <1>4, <1>5, <1>6, <1>7, <1>8, <1>9

LEMMA SameCalls ==
  /\ Harness!Paths = Paths /\ Harness!Root = Root /\ Harness!NoCommand = NoCommand
  /\ \A objs, p : Harness!Tracks(objs, p) = Tracks(objs, p)
  /\ \A objs, order, parent : Harness!Track(objs, order, parent) = Track(objs, order, parent)
  /\ \A objs, order : Harness!ParentsOf(objs, order) = ParentsOf(objs, order)
  /\ \A objs, S : Harness!Untracked(objs, S) = Untracked(objs, S)
  /\ \A p, parent : Harness!ScanDir(p, parent) <=> ScanDir(p, parent)
  /\ \A ss : Harness!ScanAll(ss) <=> ScanAll(ss)
  /\ \A n : Harness!CanAlloc(n) <=> CanAlloc(n)
  /\ \A reports : Harness!Notify(reports) <=> Notify(reports)
  /\ \A by, S : Harness!Came(by, S) = Came(by, S) /\ Harness!Went(by, S) = Went(by, S)
  /\ \A A, B : Harness!Then(A, B) = Then(A, B)
<1>1. Harness!Paths = Paths /\ Harness!Root = Root /\ Harness!NoCommand = NoCommand
  BY DEF Harness!Paths, Paths, Harness!Root, Root, Harness!NoCommand, NoCommand
<1>2. \A objs, p : Harness!Tracks(objs, p) = Tracks(objs, p)
  BY DEF Harness!Tracks, Tracks
<1>3. \A objs, order, parent : Harness!Track(objs, order, parent) = Track(objs, order, parent)
  BY SameTrees DEF Harness!Track, Track
<1>4. \A objs, order : Harness!ParentsOf(objs, order) = ParentsOf(objs, order)
  BY <1>1, <1>2, <1>3, SameDevice DEF Harness!ParentsOf, ParentsOf
<1>5. \A objs, S : Harness!Untracked(objs, S) = Untracked(objs, S)
  BY <1>2 DEF Harness!Untracked, Untracked
<1>6. \A n : Harness!CanAlloc(n) <=> CanAlloc(n)
  BY DEF Harness!CanAlloc, CanAlloc
<1>7. \A p, parent : Harness!ScanDir(p, parent) <=> ScanDir(p, parent)
  BY <1>3, <1>5, <1>6, SameDevice, SameTrees DEF Harness!ScanDir, ScanDir
<1>8. \A ss : Harness!ScanAll(ss) <=> ScanAll(ss)
  BY <1>3, <1>4, <1>5, <1>6, SameDevice DEF Harness!ScanAll, ScanAll
<1>9. \A reports : Harness!Notify(reports) <=> Notify(reports)
  BY DEF Harness!Notify, Notify
<1>10. \A by, S : Harness!Came(by, S) = Came(by, S) /\ Harness!Went(by, S) = Went(by, S)
  <2>1. \A by, gone, order : Harness!Notes(by, gone, order) = Notes(by, gone, order)
    BY DEF Harness!Notes, Notes, Harness!Note, Note
  <2>2. \A S : Harness!ParentsFirst(S) = ParentsFirst(S) /\ Harness!ParentsLast(S) = ParentsLast(S)
    BY SameDevice DEF Harness!ParentsFirst, ParentsFirst, Harness!ParentsLast, ParentsLast
  <2> QED BY <2>1, <2>2 DEF Harness!Came, Came, Harness!Went, Went
<1>11. \A A, B : Harness!Then(A, B) = Then(A, B)
  BY DEF Harness!Then, Then
<1> QED BY <1>1, <1>2, <1>3, <1>4, <1>5, <1>6, <1>7, <1>8, <1>9, <1>10, <1>11
(* A note's sender, and who may still hold a guard.                           *)
NotesBy(S) == [by : S, gone : BOOLEAN, path : Paths]

(* The invariant: while every change has been rescanned, the tracked paths    *)
(* are the entries on disk; who changed something, or has notifications on    *)
(* their way, still holds a guard.                                            *)
TrackedPaths == {objects[h].path : h \in DOMAIN objects}
Entries == {p \in DOMAIN disk : Len(p) > 1}

FilesAre == IsFiniteSet(DOMAIN disk) /\ DOMAIN disk \subseteq Places
TracksAre ==
  /\ nextHandle \in Nat /\ nextHandle >= 1
  /\ \A h \in DOMAIN objects : h \in 1 .. nextHandle - 1 /\ objects[h] \in [path : Paths, parent : Nat]
GuardsAre ==
  /\ command = NoCommand
  /\ IsFiniteSet(holding) /\ pauses = Cardinality(holding)
  /\ dirty \subseteq holding /\ notes \in Seq(NotesBy(holding))
Synced == dirty = {} => TrackedPaths = Entries

HarnessInv == FilesAre /\ TracksAre /\ GuardsAre /\ Synced

LEMMA Sequences ==
  ASSUME NEW T
  PROVE  /\ \A k \in Nat : \A f \in [1 .. k -> T] : f \in Seq(T)
         /\ \A U : T \subseteq U => Seq(T) \subseteq Seq(U)
  OBVIOUS

(* The notifications of a change are of the one who made it.                  *)
LEMMA NotesOf ==
  ASSUME NEW t, NEW S \in SUBSET Paths, IsFiniteSet(S), NEW ns \in Came(t, S) \cup Went(t, S)
  PROVE  ns \in Seq(NotesBy({t}))
<1>1. PICK k \in Nat : k = Cardinality(S)
  BY FS_CardinalityType
<1>2. ASSUME NEW gone \in BOOLEAN, NEW order \in SetToSeqs(S)
      PROVE  Notes(t, gone, order) \in Seq(NotesBy({t}))
  <2>1. order \in [1 .. k -> S]
    BY <1>1, <1>2 DEF SetToSeqs
  <2>2. \A i \in 1 .. k : Note(t, gone, order[i]) \in NotesBy({t})
    BY <2>1 DEF Note, NotesBy
  <2>3. Notes(t, gone, order) \in [1 .. k -> NotesBy({t})]
    BY <2>1, <2>2 DEF Notes
  <2> QED BY <2>3, <1>1, Sequences
<1>3. CASE ns \in Came(t, S)
  <2>1. PICK order \in SetToSeqs(S) : ns = Notes(t, FALSE, order)
    BY <1>3 DEF Came, ParentsFirst
  <2> QED BY <1>2, <2>1
<1>4. CASE ns \in Went(t, S)
  <2>1. PICK order \in SetToSeqs(S) : ns = Notes(t, TRUE, order)
    BY <1>4 DEF Went, ParentsLast
  <2> QED BY <1>2, <2>1
<1> QED BY <1>3, <1>4

LEMMA NotifiedBy ==
  ASSUME NEW t \in holding, notes \in Seq(NotesBy(holding)), NEW reports,
         \A ns \in reports : ns \in Seq(NotesBy({t})), Notify(reports)
  PROVE  notes' \in Seq(NotesBy(holding))
<1>1. Seq(NotesBy({t})) \subseteq Seq(NotesBy(holding))
  <2>1. NotesBy({t}) \subseteq NotesBy(holding)
    BY DEF NotesBy
  <2> QED BY <2>1, Sequences
<1>2. CASE Watching
  <2>1. PICK ns \in reports : notes' = notes \o ns
    BY <1>2 DEF Notify
  <2>2. ns \in Seq(NotesBy(holding))
    BY <1>1, <2>1
  <2> QED BY <2>1, <2>2, ConcatProperties
<1>3. CASE ~Watching
  BY <1>3 DEF Notify
<1> QED BY <1>2, <1>3

(* Tracking the paths of a set adds just these.                               *)
LEMMA Retracked ==
  ASSUME TracksAre, NEW objs, DOMAIN objs \subseteq DOMAIN objects,
         \A x \in DOMAIN objs : objs[x] = objects[x],
         NEW new \in SUBSET Paths, IsFiniteSet(new), NEW order \in SetToSeqs(new),
         NEW parent, \A i \in 1 .. Len(order) : parent[i] \in Nat,
         objects' = Track(objs, order, parent), nextHandle' = nextHandle + Cardinality(new)
  PROVE  TracksAre' /\ TrackedPaths' = {objs[x].path : x \in DOMAIN objs} \cup new
<1>1. PICK n \in Nat : n = nextHandle /\ n >= 1
  BY DEF TracksAre
<1>2. PICK k \in Nat : k = Cardinality(new)
  BY FS_CardinalityType
<1>3. order \in [1 .. k -> new] /\ \A i, j \in 1 .. k : i # j => order[i] # order[j]
  BY <1>2 DEF SetToSeqs
<1>4. Len(order) = k
  BY <1>3
<1> DEFINE added == [h \in n .. n + k - 1 |-> [path |-> order[h - n + 1], parent |-> parent[h - n + 1]]]
<1>5. objects' = Over(objs, added)
  BY <1>1, <1>4 DEF Track
<1>6. /\ DOMAIN added = n .. n + k - 1
      /\ \A h \in n .. n + k - 1 : added[h] = [path |-> order[h - n + 1], parent |-> parent[h - n + 1]]
  OBVIOUS
<1> HIDE DEF added
<1>7. /\ DOMAIN objects' = DOMAIN objs \cup (n .. n + k - 1)
      /\ \A x \in DOMAIN objs : objects'[x] = objects[x] /\ x \in 1 .. n - 1
      /\ \A h \in n .. n + k - 1 :
           objects'[h] = [path |-> order[h - n + 1], parent |-> parent[h - n + 1]]
  <2>1. \A x \in DOMAIN objs : x \in 1 .. n - 1
    BY <1>1 DEF TracksAre
  <2>2. \A h \in n .. n + k - 1 : h \notin DOMAIN objs
    BY <1>1, <1>2, <2>1
  <2> QED BY <1>5, <1>6, <2>1, <2>2 DEF Over
<1>8. \A h \in n .. n + k - 1 : h - n + 1 \in 1 .. k
  BY <1>1, <1>2
<1>14. ASSUME NEW h \in n .. n + k - 1 PROVE objects'[h].path = order[h - n + 1] /\ h \in DOMAIN objects'
  <2>1. PICK p, c : p = order[h - n + 1] /\ c = parent[h - n + 1]
    OBVIOUS
  <2>2. objects'[h] = [path |-> p, parent |-> c] /\ h \in DOMAIN objects'
    BY ONLY <1>7, <2>1, h \in n .. n + k - 1
  <2>3. objects'[h].path = p
    BY ONLY <2>2
  <2> QED BY <2>1, <2>2, <2>3
<1>9. \A i \in 1 .. k : n + i - 1 \in n .. n + k - 1 /\ n + i - 1 - n + 1 = i
  BY <1>1, <1>2
<1>10. \A p \in new : \E i \in 1 .. k : order[i] = p
  <2>1. order \in Injection(1 .. k, new)
    BY <1>3 DEF Injection, IsInjective
  <2>2. Cardinality(1 .. k) = k
    BY <1>2, FS_Interval
  <2>3. order \in Surjection(1 .. k, new)
    BY <1>2, <2>1, <2>2, FS_Injection
  <2> QED BY <2>3 DEF Surjection
<1>11. nextHandle' = n + k
  BY <1>1, <1>2
<1>12. TracksAre'
  <2>1. ASSUME NEW h \in DOMAIN objects'
        PROVE  h \in 1 .. nextHandle' - 1 /\ objects'[h] \in [path : Paths, parent : Nat]
    <3>1. CASE h \in DOMAIN objs
      <4>1. h \in 1 .. nextHandle' - 1
        BY <1>1, <1>2, <1>7, <1>11, <3>1
      <4> QED BY <1>7, <3>1, <4>1 DEF TracksAre
    <3>2. CASE h \in n .. n + k - 1
      <4>1. h \in 1 .. nextHandle' - 1
        BY <1>1, <1>2, <1>11, <3>2
      <4>2. order[h - n + 1] \in Paths /\ parent[h - n + 1] \in Nat
        BY <1>3, <1>4, <1>8, <3>2
      <4>3. PICK p \in Paths, c \in Nat : p = order[h - n + 1] /\ c = parent[h - n + 1]
        BY <4>2
      <4>4. objects'[h] = [path |-> p, parent |-> c]
        BY ONLY <1>7, <3>2, <4>3
      <4> QED BY <4>1, <4>4
    <3> QED BY <1>7, <2>1, <3>1, <3>2
  <2>2. nextHandle' \in Nat /\ nextHandle' >= 1
    BY <1>1, <1>2, <1>11
  <2> QED BY <2>1, <2>2 DEF TracksAre
<1>13. TrackedPaths' = {objs[x].path : x \in DOMAIN objs} \cup new
  <2>1. \A h \in DOMAIN objects' : objects'[h].path \in {objs[x].path : x \in DOMAIN objs} \cup new
    <3>1. SUFFICES ASSUME NEW h \in DOMAIN objects'
                   PROVE  objects'[h].path \in {objs[x].path : x \in DOMAIN objs} \cup new
      OBVIOUS
    <3>2. CASE h \in DOMAIN objs
      BY <1>7, <3>2
    <3>3. CASE h \in n .. n + k - 1
      <4>1. objects'[h].path = order[h - n + 1]
        BY <1>14, <3>3
      <4>2. order[h - n + 1] \in new
        BY <1>3, <1>8, <3>3
      <4> QED BY <4>1, <4>2
    <3> QED BY <1>7, <3>2, <3>3
  <2>2. \A x \in DOMAIN objs : x \in DOMAIN objects' /\ objects'[x].path = objs[x].path
    BY <1>7
  <2>3. \A p \in new : \E h \in DOMAIN objects' : objects'[h].path = p
    <3>1. SUFFICES ASSUME NEW p \in new PROVE \E h \in DOMAIN objects' : objects'[h].path = p
      OBVIOUS
    <3>2. PICK i \in 1 .. k : order[i] = p
      BY <1>10
    <3>3. PICK h \in n .. n + k - 1 : h - n + 1 = i
      BY <1>9
    <3>4. h \in DOMAIN objects' /\ objects'[h].path = order[h - n + 1]
      BY <1>14, <3>3
    <3> QED BY <3>2, <3>3, <3>4
  <2> QED BY <2>1, <2>2, <2>3 DEF TrackedPaths
<1> QED BY <1>12, <1>13
-----------------------------------------------------------------------------
(* The harnesses' steps                                                       *)

LEMMA HarnessStays ==
  ASSUME HarnessInv, UNCHANGED <<disk, objects, nextHandle, command, notes, pauses, holding, dirty>>
  PROVE  HarnessInv'
  BY DEF HarnessInv, FilesAre, TracksAre, GuardsAre, Synced, TrackedPaths, Entries

(* The calls a harness does not make, and those that touch neither the tree   *)
(* nor the handles.                                                           *)
LEMMA HarnessCalls ==
  ASSUME HarnessInv, Harness!HostNext
  PROVE  HarnessInv' \/ Harness!GetObjectHandles
<1>1. command = NoCommand /\ command.op = "none"
  BY DEF HarnessInv, GuardsAre, NoCommand
<1>2. \A op \in {"SendObjectInfo", "SendObject", "SetObjectPropValue"} : ~Harness!RunsWithData(op)
  BY <1>1 DEF Harness!RunsWithData
<1>3. \A op : Harness!Runs(op) => op \in HarnessOps
  BY DEF Harness!Runs
<1>4. ~Harness!SendObjectInfo /\ ~Harness!SendObject /\ ~Harness!SetObjectPropValue
  BY <1>2 DEF Harness!SendObjectInfo, Harness!SendObject, Harness!SetObjectPropValue
<1>5. /\ ~Harness!CloseSession /\ ~Harness!Read /\ ~Harness!GetObjectPropList
      /\ ~Harness!DeleteObject /\ ~Harness!MoveObject /\ ~Harness!CopyObject
  BY <1>3 DEF Harness!CloseSession, Harness!Read, Harness!GetObjectPropList,
              Harness!DeleteObject, Harness!MoveObject, Harness!CopyObject, HarnessOps
<1>6. ~Harness!SendBulk
  BY DEF Harness!SendBulk, HarnessOps
<1>7. CASE Harness!ReceiveBulk
  BY <1>7, HarnessStays DEF Harness!ReceiveBulk, Harness!watch
<1>8. CASE Harness!ReceiveInterrupt
  BY <1>8, HarnessStays DEF Harness!ReceiveInterrupt, Harness!watch
<1>9. CASE Harness!CancelTransfer
  <2>1. command' = command
    BY <1>1, <1>9, SameCalls DEF Harness!CancelTransfer
  <2> QED BY <1>9, <2>1, HarnessStays DEF Harness!CancelTransfer, Harness!watch
<1>10. CASE Harness!SessionNotOpen
  <2>1. Harness!Runs("GetObjectHandles") /\ Harness!Refuse("SessionNotOpen")
    BY <1>2, <1>10 DEF Harness!SessionNotOpen
  <2> QED BY <2>1, HarnessStays DEF Harness!Runs, Harness!Refuse
<1>11. CASE Harness!OpenSession
  BY <1>11, HarnessStays DEF Harness!OpenSession, Harness!Runs
<1> QED BY <1>4, <1>5, <1>6, <1>7, <1>8, <1>9, <1>10, <1>11 DEF Harness!HostNext

(* The paths that entries on disk have and no handle does.                    *)
LEMMA NewPaths ==
  ASSUME FilesAre, NEW S \in SUBSET Entries, NEW objs
  PROVE  /\ Untracked(objs, S) \in SUBSET Paths /\ IsFiniteSet(Untracked(objs, S))
         /\ Untracked(objs, S) = S \ {objs[h].path : h \in DOMAIN objs}
<1>1. Untracked(objs, S) \in SUBSET DOMAIN disk
  BY DEF Untracked, Entries
<1>2. IsFiniteSet(Untracked(objs, S))
  BY <1>1, FS_Subset DEF FilesAre
<1>3. Untracked(objs, S) \in SUBSET Paths
  BY PathsArePlaces DEF FilesAre, Untracked, Entries
<1>4. Untracked(objs, S) = S \ {objs[h].path : h \in DOMAIN objs}
  BY DEF Untracked, Tracks
<1> QED BY <1>2, <1>3, <1>4

(* A listing gives handles to what has none; with every change rescanned,     *)
(* that is nothing.                                                           *)
LEMMA HarnessLists ==
  ASSUME HarnessInv, NEW S \in SUBSET Entries, NEW new, new = Untracked(objects, S),
         NEW order \in SetToSeqs(new), NEW parent, \A i \in 1 .. Len(order) : parent[i] \in Nat,
         objects' = Track(objects, order, parent), nextHandle' = nextHandle + Cardinality(new),
         UNCHANGED <<disk, command, notes, pauses, holding, dirty>>
  PROVE  HarnessInv'
<1>1. /\ new \in SUBSET Paths /\ IsFiniteSet(new)
      /\ new = S \ {objects[h].path : h \in DOMAIN objects}
  BY NewPaths DEF HarnessInv
<1>2. TracksAre' /\ TrackedPaths' = {objects[x].path : x \in DOMAIN objects} \cup new
  <2>1. TracksAre /\ new \in SUBSET Paths /\ IsFiniteSet(new)
    BY <1>1 DEF HarnessInv
  <2>2. PICK objs : objs = objects
    OBVIOUS
  <2>3. objects' = Track(objs, order, parent)
    BY <2>2
  <2>4. DOMAIN objs \subseteq DOMAIN objects /\ \A x \in DOMAIN objs : objs[x] = objects[x]
    BY <2>2
  <2>5. TracksAre' /\ TrackedPaths' = {objs[x].path : x \in DOMAIN objs} \cup new
    BY <2>1, <2>3, <2>4, Retracked
  <2> QED BY <2>2, <2>5
<1>3. Synced'
  BY <1>1, <1>2 DEF HarnessInv, Synced, TrackedPaths, Entries
<1>4. FilesAre' /\ GuardsAre'
  BY DEF HarnessInv, FilesAre, GuardsAre
<1> QED BY <1>2, <1>3, <1>4 DEF HarnessInv

(* A folder's handle is a number.                                             *)
LEMMA ParentTypes ==
  ASSUME NEW objs, NEW order, NEW parent \in ParentsOf(objs, order)
  PROVE  \A i \in 1 .. Len(order) : parent[i] \in Nat
  BY DEF ParentsOf

LEMMA HarnessListing ==
  ASSUME HarnessInv, Harness!GetObjectHandles
  PROVE  HarnessInv'
<1>0. UNCHANGED <<command, pauses, holding, dirty>>
  BY DEF Harness!GetObjectHandles, Harness!Runs
<1>1. CASE \E code : Harness!Refuse(code)
  BY <1>0, <1>1, HarnessStays DEF Harness!Refuse
<1>2. ASSUME NEW s \in Storages, NEW parent \in 0 .. nextHandle - 1,
             ~(parent # Root /\ (parent \notin DOMAIN objects \/ objects[parent].path[1] # s)),
             ScanDir(IF parent = Root THEN <<s>> ELSE objects[parent].path, parent),
             UNCHANGED <<disk, notes>>
      PROVE  HarnessInv'
  <2>1. PICK p : p = IF parent = Root THEN <<s>> ELSE objects[parent].path
    OBVIOUS
  <2>2. p \in Places
    <3>1. CASE parent = Root
      BY <2>1, <3>1, RootsArePlaces
    <3>2. CASE parent # Root
      <4>1. parent \in DOMAIN objects /\ p = objects[parent].path
        BY <1>2, <2>1, <3>2
      <4>2. PICK o \in [path : Paths, parent : Nat] : o = objects[parent]
        BY <4>1 DEF HarnessInv, TracksAre
      <4>3. p \in Paths
        BY <4>1, <4>2
      <4> QED BY <4>3, PathsArePlaces
    <3> QED BY <3>1, <3>2
  <2> DEFINE S == IF IsDir(disk, p) THEN Children(disk, p) ELSE {}
  <2>3. S \in SUBSET Entries
    BY <2>2, PlaceTypes DEF Children, Entries
  <2>4. PICK new : new = Untracked(objects, S)
    OBVIOUS
  <2>5. /\ nextHandle' = nextHandle + Cardinality(new)
        /\ \E order \in SetToSeqs(new) :
             objects' = Track(objects, order, [i \in 1 .. Len(order) |-> parent])
    BY <1>2, <2>1, <2>4 DEF ScanDir
  <2> HIDE DEF S
  <2>6. PICK order \in SetToSeqs(new) :
          objects' = Track(objects, order, [i \in 1 .. Len(order) |-> parent])
    BY <2>5
  <2>7. PICK parents : parents = [i \in 1 .. Len(order) |-> parent]
    OBVIOUS
  <2>8. \A i \in 1 .. Len(order) : parents[i] \in Nat
    BY <2>7
  <2>9. objects' = Track(objects, order, parents)
    BY <2>6, <2>7
  <2> QED BY <1>0, <1>2, <2>3, <2>4, <2>5, <2>8, <2>9, HarnessLists
<1>3. ASSUME NEW ss, ScanAll(ss), UNCHANGED <<disk, notes>>
      PROVE  HarnessInv'
  <2> DEFINE S == {p \in DOMAIN disk : p[1] \in ss /\ Len(p) > 1}
  <2>1. S \in SUBSET Entries
    BY DEF Entries
  <2>2. PICK new : new = Untracked(objects, S)
    OBVIOUS
  <2>3. /\ nextHandle' = nextHandle + Cardinality(new)
        /\ \E order \in SetToSeqs(new) : \E parent \in ParentsOf(objects, order) :
             objects' = Track(objects, order, parent)
    BY <1>3, <2>2 DEF ScanAll
  <2> HIDE DEF S
  <2>4. PICK order \in SetToSeqs(new) :
          \E parent \in ParentsOf(objects, order) : objects' = Track(objects, order, parent)
    BY <2>3
  <2>5. PICK parent \in ParentsOf(objects, order) : objects' = Track(objects, order, parent)
    BY <2>4
  <2> QED BY <1>0, <1>3, <2>1, <2>2, <2>3, <2>5, ParentTypes, HarnessLists
<1>4. \/ \E code : Harness!Refuse(code)
      \/ \E s \in Storages, parent \in 0 .. nextHandle - 1 :
           /\ ~(parent # Root /\ (parent \notin DOMAIN objects \/ objects[parent].path[1] # s))
           /\ ScanDir(IF parent = Root THEN <<s>> ELSE objects[parent].path, parent)
           /\ UNCHANGED <<disk, notes>>
      \/ \E s \in Storages : ScanAll({s}) /\ UNCHANGED <<disk, notes>>
  BY SameCalls DEF Harness!GetObjectHandles
<1> QED BY <1>1, <1>2, <1>3, <1>4

(* A rescan: the handles are of the entries on disk again.                    *)
LEMMA HarnessRescans ==
  ASSUME HarnessInv, Harness!RescanBackingDirs
  PROVE  HarnessInv'
<1> DEFINE stale == {h \in DOMAIN objects : ~Has(disk, objects[h].path)}
           kept == [h \in DOMAIN objects \ stale |-> objects[h]]
           new == Untracked(kept, Entries)
<1>1. /\ UNCHANGED <<disk, command, notes, pauses, holding>> /\ dirty' = {}
      /\ nextHandle' = nextHandle + Cardinality(new)
      /\ \E order \in SetToSeqs(new) : \E parent \in ParentsOf(kept, order) :
           objects' = Track(kept, order, parent)
  BY SameDevice, SameTrees, SameCalls DEF Harness!RescanBackingDirs, Entries
<1>2. /\ DOMAIN kept = {h \in DOMAIN objects : Has(disk, objects[h].path)}
      /\ \A h \in DOMAIN kept : kept[h] = objects[h]
  OBVIOUS
<1>3. /\ new \in SUBSET Paths /\ IsFiniteSet(new)
      /\ new = Entries \ {kept[h].path : h \in DOMAIN kept}
  BY NewPaths DEF HarnessInv
<1> HIDE DEF stale, kept, new
<1>4. PICK order \in SetToSeqs(new) : \E parent \in ParentsOf(kept, order) :
        objects' = Track(kept, order, parent)
  BY <1>1
<1>5. PICK parent \in ParentsOf(kept, order) : objects' = Track(kept, order, parent)
  BY <1>4
<1>6. \A i \in 1 .. Len(order) : parent[i] \in Nat
  BY ParentTypes
<1>7. TracksAre /\ DOMAIN kept \subseteq DOMAIN objects
  BY <1>2 DEF HarnessInv
<1>8. TracksAre' /\ TrackedPaths' = {kept[x].path : x \in DOMAIN kept} \cup new
  BY <1>1, <1>2, <1>3, <1>5, <1>6, <1>7, Retracked
<1>9. {kept[x].path : x \in DOMAIN kept} \subseteq Entries
  <2>1. ASSUME NEW x \in DOMAIN kept PROVE kept[x].path \in Entries
    <3>1. x \in DOMAIN objects /\ kept[x] = objects[x] /\ objects[x].path \in DOMAIN disk
      BY <1>2 DEF Has
    <3>2. objects[x].path \in Paths
      BY <3>1, <1>7 DEF TracksAre
    <3>3. Len(objects[x].path) > 1
      BY <3>2, PathsArePlaces
    <3> QED BY <3>1, <3>3 DEF Entries
  <2> QED BY <2>1
<1>10. TrackedPaths' = Entries
  BY <1>3, <1>8, <1>9
<1>11. Synced' /\ FilesAre'
  BY <1>1, <1>10 DEF HarnessInv, Synced, FilesAre, Entries
<1>12. GuardsAre'
  BY <1>1 DEF HarnessInv, GuardsAre
<1> QED BY <1>8, <1>11, <1>12 DEF HarnessInv

(* A new handle for an object: the path is tracked as before.                 *)
LEMMA HarnessRekeys ==
  ASSUME HarnessInv, Harness!RekeyObject
  PROVE  HarnessInv'
<1>1. /\ nextHandle' = nextHandle + 1
      /\ UNCHANGED <<disk, command, notes, pauses, holding, dirty>>
  BY DEF Harness!RekeyObject, Harness!watch
<1>2. PICK h \in DOMAIN objects :
        LET rest == Extend([x \in DOMAIN objects \ {h} |-> objects[x]], nextHandle, objects[h])
        IN  objects' = [x \in DOMAIN rest |->
              [rest[x] EXCEPT !.parent = IF @ = h THEN nextHandle ELSE @]]
  BY SameTrees DEF Harness!RekeyObject
<1>3. PICK n \in Nat : n = nextHandle /\ n >= 1
  BY DEF HarnessInv, TracksAre
<1>4. \A x \in DOMAIN objects : x \in 1 .. n - 1 /\ objects[x] \in [path : Paths, parent : Nat]
  BY <1>3 DEF HarnessInv, TracksAre
<1> DEFINE rest == Extend([x \in DOMAIN objects \ {h} |-> objects[x]], n, objects[h])
<1>5. /\ DOMAIN rest = (DOMAIN objects \ {h}) \cup {n}
      /\ rest[n] = objects[h]
      /\ \A x \in DOMAIN objects \ {h} : rest[x] = objects[x]
  <2>1. n \notin DOMAIN objects
    BY <1>3, <1>4
  <2> QED BY <2>1 DEF Extend
<1>6. objects' = [x \in DOMAIN rest |->
                    [rest[x] EXCEPT !.parent = IF rest[x].parent = h THEN n ELSE rest[x].parent]]
  BY <1>2, <1>3
<1> HIDE DEF rest
<1>7. ASSUME NEW x \in DOMAIN rest
      PROVE  objects'[x] \in [path : Paths, parent : Nat] /\ objects'[x].path = rest[x].path
  <2>1. rest[x] \in [path : Paths, parent : Nat]
    BY <1>4, <1>5
  <2>2. PICK p \in Paths, c \in Nat : rest[x] = [path |-> p, parent |-> c]
    BY <2>1
  <2>3. objects'[x] = [path |-> p, parent |-> IF c = h THEN n ELSE c]
    BY <1>6, <2>2
  <2>4. PICK d \in Nat : d = IF c = h THEN n ELSE c
    OBVIOUS
  <2>5. objects'[x] = [path |-> p, parent |-> d]
    BY <2>3, <2>4
  <2> QED BY <2>2, <2>5
<1>8. DOMAIN objects' = (DOMAIN objects \ {h}) \cup {n}
  BY <1>5, <1>6
<1>9. TracksAre'
  <2>1. nextHandle' \in Nat /\ nextHandle' >= 1 /\ nextHandle' - 1 = n
    BY <1>1, <1>3
  <2>2. \A x \in DOMAIN objects' : x \in 1 .. nextHandle' - 1
    <3>1. \A x \in DOMAIN objects : x \in 1 .. n - 1
      BY <1>4
    <3>2. \A x \in 1 .. n - 1 : x \in 1 .. n
      BY <1>3
    <3>3. n \in 1 .. n
      BY <1>3
    <3> QED BY <1>8, <2>1, <3>1, <3>2, <3>3
  <2> QED BY <1>5, <1>7, <1>8, <2>1, <2>2 DEF TracksAre
<1>10. TrackedPaths' = TrackedPaths
  <2>1. objects'[n].path = objects[h].path
    BY <1>5, <1>7
  <2>2. \A x \in DOMAIN objects \ {h} : objects'[x].path = objects[x].path
    BY <1>5, <1>7
  <2> QED BY <1>8, <2>1, <2>2 DEF TrackedPaths
<1>11. FilesAre' /\ GuardsAre' /\ Synced'
  BY <1>1, <1>10 DEF HarnessInv, FilesAre, GuardsAre, Synced, Entries
<1> QED BY <1>9, <1>11 DEF HarnessInv

(* While a notification is on its way its sender holds a guard, so the        *)
(* watcher drops it.                                                          *)
LEMMA HarnessWatches ==
  ASSUME HarnessInv, Harness!WatchEvent
  PROVE  HarnessInv'
<1>1. /\ notes # <<>> /\ notes' = Tail(notes)
      /\ UNCHANGED <<disk, command, pauses, holding, dirty>>
  BY DEF Harness!WatchEvent
<1>2. IsFiniteSet(holding) /\ pauses = Cardinality(holding) /\ notes \in Seq(NotesBy(holding))
  BY DEF HarnessInv, GuardsAre
<1>3. pauses > 0
  <2>1. Head(notes) \in NotesBy(holding)
    BY <1>1, <1>2
  <2>2. holding # {}
    BY <2>1 DEF NotesBy
  <2> QED BY <1>2, <2>2, FS_EmptySet, FS_CardinalityType
<1>4. UNCHANGED <<objects, nextHandle>>
  BY <1>3 DEF Harness!WatchEvent
<1>5. notes' \in Seq(NotesBy(holding))
  BY <1>1, <1>2
<1>6. GuardsAre'
  BY <1>1, <1>5 DEF HarnessInv, GuardsAre
<1> QED BY <1>1, <1>4, <1>6 DEF HarnessInv, FilesAre, TracksAre, Synced, TrackedPaths, Entries

LEMMA HarnessPauses ==
  ASSUME HarnessInv, NEW t, Harness!PauseWatcher(t)
  PROVE  HarnessInv'
<1>1. /\ t \notin holding /\ holding' = holding \cup {t} /\ pauses' = pauses + 1
      /\ UNCHANGED <<disk, objects, nextHandle, command, notes, dirty>>
  BY DEF Harness!PauseWatcher, Harness!device
<1>2. IsFiniteSet(holding') /\ Cardinality(holding') = Cardinality(holding) + 1
  BY <1>1, FS_AddElement DEF HarnessInv, GuardsAre
<1>3. notes' \in Seq(NotesBy(holding'))
  <2>1. NotesBy(holding) \subseteq NotesBy(holding')
    BY <1>1 DEF NotesBy
  <2>2. Seq(NotesBy(holding)) \subseteq Seq(NotesBy(holding'))
    BY <2>1, Sequences
  <2> QED BY <1>1, <2>2 DEF HarnessInv, GuardsAre
<1>4. GuardsAre'
  BY <1>1, <1>2, <1>3 DEF HarnessInv, GuardsAre
<1> QED BY <1>1, <1>4 DEF HarnessInv, FilesAre, TracksAre, Synced, TrackedPaths, Entries

(* A harness that drops its guard has rescanned, and its notifications have   *)
(* come.                                                                      *)
LEMMA HarnessResumes ==
  ASSUME HarnessInv, NEW t, Harness!DropGuard(t)
  PROVE  HarnessInv'
<1>1. /\ t \in holding /\ holding' = holding \ {t}
      /\ pauses' = IF pauses = 0 THEN 0 ELSE pauses - 1
      /\ t \notin dirty /\ \A i \in 1 .. Len(notes) : notes[i].by # t
      /\ UNCHANGED <<disk, objects, nextHandle, command, notes, dirty>>
  BY DEF Harness!DropGuard, Harness!device
<1>2. IsFiniteSet(holding) /\ pauses = Cardinality(holding) /\ notes \in Seq(NotesBy(holding))
  BY DEF HarnessInv, GuardsAre
<1>3. /\ IsFiniteSet(holding') /\ Cardinality(holding') = Cardinality(holding) - 1
      /\ Cardinality(holding) \in Nat /\ Cardinality(holding) # 0
  BY <1>1, <1>2, FS_RemoveElement, FS_CardinalityType, FS_EmptySet
<1>4. pauses' = Cardinality(holding')
  BY <1>1, <1>2, <1>3
<1>5. notes' \in Seq(NotesBy(holding'))
  <2>1. PICK k \in Nat : k = Len(notes)
    BY <1>2, LenProperties
  <2>2. notes \in [1 .. k -> NotesBy(holding)]
    BY <1>2, <2>1, LenProperties
  <2>3. ASSUME NEW i \in 1 .. k PROVE notes[i] \in NotesBy(holding')
    <3>1. notes[i] \in NotesBy(holding) /\ notes[i].by # t
      BY <1>1, <2>1, <2>2
    <3>2. PICK by \in holding : \E gone \in BOOLEAN, p \in Paths :
            notes[i] = [by |-> by, gone |-> gone, path |-> p]
      BY <3>1 DEF NotesBy
    <3>3. PICK gone \in BOOLEAN, p \in Paths : notes[i] = [by |-> by, gone |-> gone, path |-> p]
      BY <3>2
    <3>4. by # t
      BY <3>1, <3>3
    <3> QED BY <1>1, <3>3, <3>4 DEF NotesBy
  <2>4. notes \in [1 .. k -> NotesBy(holding')]
    BY <2>2, <2>3
  <2> QED BY <1>1, <2>4, Sequences
<1>6. GuardsAre'
  BY <1>1, <1>3, <1>4, <1>5 DEF HarnessInv, GuardsAre
<1> QED BY <1>1, <1>6 DEF HarnessInv, FilesAre, TracksAre, Synced, TrackedPaths, Entries

(* A harness that changes the files holds a guard and owes a rescan.          *)
LEMMA HarnessFiles ==
  ASSUME HarnessInv, NEW t, Harness!Outside(t)
  PROVE  FilesAre' /\ notes' \in Seq(NotesBy(holding))
<1>0. FilesAre /\ t \in holding /\ notes \in Seq(NotesBy(holding))
  BY DEF Harness!Outside, HarnessInv, GuardsAre
<1>1. ASSUME NEW p \in Paths, Notify(Came(t, {p})), NEW item, disk' = Extend(disk, p, item)
      PROVE  FilesAre' /\ notes' \in Seq(NotesBy(holding))
  <2>1. DOMAIN disk' = DOMAIN disk \cup {p}
    BY <1>1 DEF Extend
  <2>2. FilesAre'
    BY <1>0, <2>1, FS_AddElement, PathsArePlaces DEF FilesAre
  <2>3. {p} \in SUBSET Paths /\ IsFiniteSet({p})
    BY FS_Singleton
  <2>4. \A ns \in Came(t, {p}) : ns \in Seq(NotesBy({t}))
    BY <2>3, NotesOf
  <2> QED BY <1>0, <1>1, <2>2, <2>4, NotifiedBy
<1>2. ASSUME NEW p \in Paths
      PROVE  Below(disk, p) \in SUBSET Paths /\ IsFiniteSet(Below(disk, p))
  <2>1. p \in Places /\ Len(p) > 1
    BY PathsArePlaces
  <2>2. ASSUME NEW q \in Below(disk, p) PROVE q \in Paths
    <3>1. q \in Places /\ IsPrefix(p, q)
      BY <1>0, <2>2 DEF Below, FilesAre
    <3>2. Len(p) \in Nat /\ Len(q) \in Nat /\ Len(p) <= Len(q)
      BY <2>1, <3>1, FrontBelow, PlaceTypes
    <3>3. Len(q) > 1
      BY <2>1, <3>2
    <3> QED BY <3>1, <3>3, PathsArePlaces
  <2>3. Below(disk, p) \in SUBSET DOMAIN disk
    BY DEF Below
  <2> QED BY <1>0, <2>2, <2>3, FS_Subset DEF FilesAre
<1>3. ASSUME NEW p \in Paths, disk' = Cut(disk, p), Notify(Went(t, Below(disk, p)))
      PROVE  FilesAre' /\ notes' \in Seq(NotesBy(holding))
  <2>1. DOMAIN disk' \in SUBSET DOMAIN disk
    BY <1>3 DEF Cut
  <2>2. FilesAre'
    BY <1>0, <2>1, FS_Subset DEF FilesAre
  <2>3. \A ns \in Went(t, Below(disk, p)) : ns \in Seq(NotesBy({t}))
    BY <1>2, NotesOf
  <2> QED BY <1>0, <1>3, <2>2, <2>3, NotifiedBy
<1>4. ASSUME NEW p \in Paths, NEW r \in Paths,
             \A q \in Below(disk, p) : Rebase(q, p, r) \in Paths,
             disk' = Renamed(disk, p, r), Notify(Then(Went(t, {p}), Came(t, {r})))
      PROVE  FilesAre' /\ notes' \in Seq(NotesBy(holding))
  <2> DEFINE moved == {Rebase(q, p, r) : q \in Below(disk, p)}
             left == DOMAIN Cut(Cut(disk, p), r)
  <2>1. DOMAIN disk' = moved \cup left
    BY <1>4 DEF Renamed, Over
  <2>2. left \in SUBSET DOMAIN disk
    BY DEF Cut
  <2>3. moved \in SUBSET Paths
    BY <1>4
  <2>4. IsFiniteSet(moved)
    <3> DEFINE f == [q \in Below(disk, p) |-> Rebase(q, p, r)]
    <3>1. f \in Surjection(Below(disk, p), moved)
      BY DEF Surjection
    <3> QED BY <1>2, <3>1, FS_Surjection
  <2> HIDE DEF moved, left
  <2>5. IsFiniteSet(left) /\ left \in SUBSET Places
    BY <1>0, <2>2, FS_Subset DEF FilesAre
  <2>6. FilesAre'
    BY <2>1, <2>3, <2>4, <2>5, FS_Union, PathsArePlaces DEF FilesAre
  <2>7. /\ {p} \in SUBSET Paths /\ IsFiniteSet({p})
        /\ {r} \in SUBSET Paths /\ IsFiniteSet({r})
    BY FS_Singleton
  <2>8. /\ \A ns \in Went(t, {p}) : ns \in Seq(NotesBy({t}))
        /\ \A ns \in Came(t, {r}) : ns \in Seq(NotesBy({t}))
    BY <2>7, NotesOf
  <2>9. ASSUME NEW ns \in Then(Went(t, {p}), Came(t, {r})) PROVE ns \in Seq(NotesBy({t}))
    <3>1. PICK a \in Went(t, {p}) : ns \in {a \o b : b \in Came(t, {r})}
      BY <2>9 DEF Then
    <3>2. PICK b \in Came(t, {r}) : ns = a \o b
      BY <3>1
    <3> QED BY <2>8, <3>2, ConcatProperties
  <2> QED BY <1>0, <1>4, <2>6, <2>9, NotifiedBy
<1>5. \/ \E p \in Paths :
           /\ \E item : disk' = Extend(disk, p, item)
           /\ Notify(Came(t, {p}))
      \/ \E p \in Paths : disk' = Cut(disk, p) /\ Notify(Went(t, Below(disk, p)))
      \/ \E p \in Paths : \E r \in Paths :
           /\ \A q \in Below(disk, p) : Rebase(q, p, r) \in Paths
           /\ disk' = Renamed(disk, p, r) /\ Notify(Then(Went(t, {p}), Came(t, {r})))
  BY SameTrees, SameCalls DEF Harness!Outside, Harness!MakeDir, Harness!Write
<1> QED BY <1>1, <1>3, <1>4, <1>5

LEMMA HarnessChanges ==
  ASSUME HarnessInv, NEW t, Harness!Outside(t)
  PROVE  HarnessInv'
<1>1. /\ t \in holding /\ dirty' = dirty \cup {t}
      /\ UNCHANGED <<objects, nextHandle, command, pauses, holding>>
  BY DEF Harness!Outside
<1>2. GuardsAre'
  BY <1>1, HarnessFiles DEF HarnessInv, GuardsAre
<1>3. dirty' # {}
  BY <1>1
<1> QED BY <1>1, <1>2, <1>3, HarnessFiles DEF HarnessInv, TracksAre, Synced

LEMMA HarnessKeeps ==
  ASSUME HarnessInv, [Harness!VirtualNext]_virtualVars
  PROVE  HarnessInv'
<1>1. CASE Harness!HostNext
  BY <1>1, HarnessCalls, HarnessListing
<1>2. CASE Harness!WatchNext
  <2>1. CASE Harness!ClearDroppedPaths
    BY <2>1, HarnessStays DEF Harness!ClearDroppedPaths, Harness!device
  <2> QED BY <1>2, <2>1, HarnessWatches, HarnessRescans, HarnessRekeys, HarnessPauses,
             HarnessResumes DEF Harness!WatchNext
<1>3. CASE Harness!OutsideNext
  BY <1>3, HarnessChanges DEF Harness!OutsideNext
<1>4. CASE UNCHANGED virtualVars
  BY <1>4, HarnessStays DEF virtualVars, device, watch
<1> QED BY <1>1, <1>2, <1>3, <1>4 DEF Harness!VirtualNext

LEMMA HarnessStarts == VirtualInit => HarnessInv
<1> SUFFICES ASSUME VirtualInit PROVE HarnessInv
  OBVIOUS
<1>1. /\ disk = [p \in {<<s>> : s \in Storages} |-> Dir] /\ objects = <<>> /\ nextHandle = 1
      /\ command = NoCommand /\ notes = <<>> /\ pauses = 0 /\ holding = {} /\ dirty = {}
  BY DEF VirtualInit
<1>2. DOMAIN disk = {<<s>> : s \in Storages}
  BY <1>1
<1>3. FilesAre
  BY VirtualStarts DEF VirtualInv, DeviceInv, Tree, FilesAre
<1>4. TracksAre
  BY <1>1 DEF TracksAre
<1>5. GuardsAre
  BY <1>1, FS_EmptySet DEF GuardsAre
<1>6. Entries = {}
  <2>1. ASSUME NEW p \in DOMAIN disk PROVE ~(Len(p) > 1)
    <3>1. PICK s \in Storages : p = <<s>>
      BY <1>2, <2>1
    <3>2. Len(p) = 1
      BY <3>1, RootsArePlaces
    <3> QED BY <3>2
  <2> QED BY <2>1 DEF Entries
<1>7. TrackedPaths = {}
  BY <1>1 DEF TrackedPaths
<1> QED BY <1>3, <1>4, <1>5, <1>6, <1>7 DEF HarnessInv, Synced

(* Harnesses that pause the watcher, change files, drain and rescan compose:  *)
(* when the last guard is dropped the handles are of the entries on disk, and *)
(* no late notification of theirs takes that apart afterwards.                *)
THEOREM HarnessesAgree == WatchSpec => []PausedHarnessesCompose
<1> DEFINE Inv == scene = "harness" => HarnessInv
<1>1. DeviceInit => Inv
  BY HarnessStarts DEF DeviceInit
<1>2. Inv /\ [DeviceNext]_<<scene, virtualVars>> => Inv'
  <2> SUFFICES ASSUME Inv, [DeviceNext]_<<scene, virtualVars>>, scene' = "harness"
               PROVE  HarnessInv'
    OBVIOUS
  <2>1. scene = "harness" /\ [Harness!VirtualNext]_virtualVars
    BY DEF DeviceNext
  <2> QED BY <2>1, HarnessKeeps
<1>3. Inv => PausedHarnessesCompose
  <2> SUFFICES ASSUME HarnessInv, pauses = 0 PROVE TrackedPaths = Entries
    BY DEF PausedHarnessesCompose, HarnessesCompose, TrackedPaths, Entries
  <2>1. holding = {}
    BY FS_EmptySet DEF HarnessInv, GuardsAre
  <2> QED BY <2>1 DEF HarnessInv, GuardsAre, Synced
<1> QED BY <1>1, <1>2, <1>3, PTL DEF WatchSpec
=============================================================================
