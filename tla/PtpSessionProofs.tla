-------------------------- MODULE PtpSessionProofs --------------------------
(***************************************************************************)
(* Proofs about PtpSession, for every set of tasks, every id modulus and   *)
(* every bound.                                                            *)
(***************************************************************************)
EXTENDS PtpSession, SequenceTheorems, TLAPS

-----------------------------------------------------------------------------
(* Transaction ids *)

(* NextId continues the numbering: NthId(first, n) is what the counter     *)
(* shows before the n-th transaction.                                      *)
LEMMA NextIsNth ==
  ASSUME NEW first \in IssuedIds, NEW n \in Nat, 1 <= n, n <= LastId
  PROVE  /\ NthId(first, n) \in IssuedIds
         /\ NextId(NthId(first, n)) = NthId(first, n + 1)
  BY IdModulusAssumption, SMT
     DEF NthId, NextId, IssuedIds, FirstId, LastId

(* Within one turn of the counter no two transactions share an id. *)
LEMMA NthInjective ==
  ASSUME NEW first \in IssuedIds,
         NEW m \in 1 .. LastId, NEW n \in 1 .. LastId,
         NthId(first, m) = NthId(first, n)
  PROVE  m = n
  BY IdModulusAssumption, SMT DEF NthId, IssuedIds, FirstId, LastId

-----------------------------------------------------------------------------
(* Sequences of packets *)

(* A larger set of elements admits all the sequences of a smaller one. *)
LEMMA SeqMonotone ==
  ASSUME NEW S, NEW T, S \subseteq T
  PROVE  Seq(S) \subseteq Seq(T)
  OBVIOUS

(* The shortest sequences. *)
LEMMA ShortSeqs ==
  ASSUME NEW G
  PROVE  <<>> \in Seq(G) /\ \A x \in G : <<x>> \in Seq(G)
  OBVIOUS

(* The packets of a link, wherever they are, belong to G. *)
LinkIn(G) ==
  outPipe \in Seq(G) /\ pipe \in Seq(G) /\ emit \in Seq(G) /\ awaiting \in Seq(G)

PacketTypes == {"Command", "Data", "Raw", "Response"}

(* G does not tell packets of one request apart. *)
Closed(G) ==
  /\ G \subseteq Packets
  /\ \A p \in G, type \in PacketTypes, n \in Nat : Packet(type, p, n) \in G

(* A reply is made of packets of the command it answers. *)
LEMMA ReplyInG ==
  ASSUME NEW G, Closed(G), NEW p \in G, NEW n \in Nat
  PROVE  DataReply(p, n) \in Seq(G)
<1> DEFINE d == Packet("Data", p, n)
           w == Packet("Raw", p, 0)
           r == Packet("Response", p, 0)
           mid == [i \in 1 .. n |-> w]
<1>1. d \in G /\ w \in G /\ r \in G
  BY DEF Closed, PacketTypes
<1>2. mid \in Seq(G)
  BY <1>1
<1>3. <<d>> \in Seq(G) /\ <<r>> \in Seq(G)
  BY <1>1
<1> HIDE DEF d, w, r, mid
<1>4. <<d>> \o mid \in Seq(G)
  BY <1>2, <1>3
<1>5. (<<d>> \o mid) \o <<r>> \in Seq(G)
  BY <1>3, <1>4
<1> QED
  BY <1>5 DEF DataReply, Response, d, w, r, mid

(* The device invents no packets: it answers what it was sent. *)
LEMMA DeviceInG ==
  ASSUME NEW G, Closed(G), LinkIn(G), DeviceNext
  PROVE  LinkIn(G)'
<1>1. CASE DeviceTakes
  <2> DEFINE p == Head(outPipe)
  <2>1. p \in G /\ Tail(outPipe) \in Seq(G)
    BY <1>1 DEF DeviceTakes, LinkIn
  <2>2. Response(p) \in G
    BY <2>1 DEF Closed, Response, PacketTypes
  <2>3. awaiting # <<>> => Head(awaiting) \in G /\ Response(Head(awaiting)) \in G
    <3> HAVE awaiting # <<>>
    <3>1. Head(awaiting) \in G
      BY DEF LinkIn
    <3> QED BY <3>1 DEF Closed, Response, PacketTypes
  <2> HIDE DEF p
  <2>4. CASE TakesCommand(p)
    <3>1. emit' \in Seq(G)
      <4>1. CASE \E n \in 0 .. MaxMore : emit' = DataReply(p, n)
        BY <4>1, <2>1, ReplyInG, MaxMoreAssumption
      <4>2. CASE emit' = <<Response(p)>> \/ emit' = <<>>
        BY <4>2, <2>2, ShortSeqs
      <4> QED BY <2>4, <4>1, <4>2 DEF TakesCommand
    <3>2. awaiting' \in Seq(G)
      BY <2>4, <2>1 DEF TakesCommand
    <3> QED BY <1>1, <2>1, <3>1, <3>2 DEF DeviceTakes, LinkIn, p
  <2>5. CASE TakesData(p)
    <3>1. emit' \in Seq(G) /\ awaiting' \in Seq(G)
      BY <2>3, <2>5, ShortSeqs DEF LinkIn, TakesData
    <3> QED BY <1>1, <2>1, <3>1 DEF DeviceTakes, LinkIn, p
  <2>6. CASE DiscardsData(p)
    BY <1>1, <2>1, <2>6 DEF DeviceTakes, LinkIn, DiscardsData, p
  <2> QED BY <1>1, <2>4, <2>5, <2>6 DEF DeviceTakes, p
<1>2. CASE DeviceSends
  BY <1>2 DEF DeviceSends, LinkIn
<1> QED BY <1>1, <1>2 DEF DeviceNext

(* An aborted reply is a part of the reply. *)
LEMMA AbortInG ==
  ASSUME NEW G, Closed(G), LinkIn(G), DeviceAborts
  PROVE  LinkIn(G)'
<1>1. awaiting # <<>> => Response(Head(awaiting)) \in G
  <2> HAVE awaiting # <<>>
  <2>1. Head(awaiting) \in G
    BY DEF LinkIn
  <2> QED BY <2>1 DEF Closed, Response, PacketTypes
<1>2. emit # <<>> => Last(emit) \in G
  BY DEF LinkIn, Last
<1>3. emit' \in Seq(G) /\ awaiting' \in Seq(G)
  BY <1>1, <1>2, ShortSeqs DEF DeviceAborts, LinkIn
<1> QED BY <1>3 DEF DeviceAborts, LinkIn
-----------------------------------------------------------------------------
(* The inductive invariant *)

(* The packets of the first n transactions, under the ids those had. *)
Good(n) == {p \in Packets : p.req <= n /\ p.tx = NthId(StartId, p.req)}

(* The session's own variables. *)
SessionType ==
  /\ lock \in Tasks \cup {NoTask}
  /\ recovery \in [needed : BOOLEAN, tx : 0 .. LastId]
  /\ pc \in [Tasks -> Pcs]
  /\ kind \in [Tasks -> Kinds]
  /\ op \in [kind : Kinds, tx : 0 .. LastId, req : 0 .. MaxRequests,
             skipped : Nat, data : SUBSET (1 .. MaxRequests), more : Nat]
  /\ cancel \in [for : {"recovery", "stream"}, tx : 0 .. LastId]
  /\ issued \in 0 .. MaxRequests
  /\ result \in [Tasks -> [req : 0 .. MaxRequests, reply : 0 .. MaxRequests,
                          data : SUBSET (1 .. MaxRequests)]]
  /\ gone \in BOOLEAN

(* The link, its packets taken from G. *)
LinkType(G) == LinkIn(G) /\ Len(awaiting) <= 1 /\ wedged \in BOOLEAN

(* Only the holder of the lock is in the middle of a call, and a recovery  *)
(* has a transaction left to start.                                        *)
HolderInv ==
  /\ \A t \in Tasks : pc[t] \in Armed \cup Cancelling <=> lock = t
  /\ \A t \in Tasks : pc[t] \in Cancelling /\ cancel.for = "recovery" => issued < MaxRequests

(* The transaction in progress is the last one issued, under the id that   *)
(* was the counter's; a flag is never pending while the lock is held.      *)
IdInv ==
  /\ counter = NthId(StartId, issued + 1)
  /\ op.req # 0 => op.req = issued /\ op.tx = NthId(StartId, issued)
  /\ \A t \in Tasks :
       /\ pc[t] \in Armed => op.req # 0
       /\ pc[t] \in Cancelling /\ cancel.for = "stream" => op.req # 0
       /\ pc[t] = "more" => op.more > 0
  /\ lock # NoTask => ~recovery.needed

IInv ==
  /\ SessionType
  /\ LinkType(Good(issued))
  /\ HolderInv
  /\ IdInv
  /\ OwnReply
  /\ RecoveryNamesLast

(* Good sets are closed, and grow with n. *)
LEMMA GoodClosed ==
  ASSUME NEW n \in 0 .. MaxRequests
  PROVE  Closed(Good(n))
  BY SessionAssumption DEF Closed, Good, Packets, Packet, PacketTypes

(* What is good for n transactions is good for one more. *)
LEMMA GoodGrows ==
  ASSUME NEW n \in Nat, NEW m \in Nat, n <= m
  PROVE  Good(n) \subseteq Good(m)
  BY DEF Good, Packets

(* The link's packets stay good when a transaction is started. *)
LEMMA LinkGrows ==
  ASSUME NEW G, NEW H, G \subseteq H, LinkIn(G)
  PROVE  LinkIn(H)
<1>1. Seq(G) \subseteq Seq(H)
  BY SeqMonotone
<1> QED BY <1>1 DEF LinkIn

(* The invariant has the type invariant's shape in it. *)
LEMMA IInvType ==
  ASSUME IInv
  PROVE  TypeOK
<1>1. Good(issued) \subseteq Packets
  BY DEF Good
<1>2. LinkIn(Packets)
  BY <1>1, LinkGrows DEF IInv, LinkType
<1>3. counter \in IssuedIds
  <2>1. MaxRequests \in Nat /\ MaxRequests <= LastId /\ StartId \in IssuedIds
    BY SessionAssumption
  <2>2. issued \in Nat /\ issued <= LastId
    BY <2>1, IdModulusAssumption DEF IInv, SessionType, LastId
  <2> QED BY <2>1, <2>2, IdModulusAssumption, SMT
          DEF IInv, IdInv, NthId, IssuedIds, FirstId, LastId
<1> QED
  BY <1>2, <1>3 DEF IInv, SessionType, LinkType, LinkIn, TypeOK

(* The invariant holds when the session is created. *)
LEMMA InitIInv == Init => IInv
<1> SUFFICES ASSUME Init PROVE IInv
  OBVIOUS
<1> USE SessionAssumption
<1>1. SessionType
  <2> USE DEF Init, Pcs, Resting, NoOp, NoResult, NoCancel, Kinds
  <2>1. LastId \in Nat /\ 0 \in 0 .. LastId /\ 0 \in 0 .. MaxRequests
    BY IdModulusAssumption DEF LastId
  <2>2. lock \in Tasks \cup {NoTask} /\ pc \in [Tasks -> Pcs] /\ kind \in [Tasks -> Kinds]
    OBVIOUS
  <2>3. recovery \in [needed : BOOLEAN, tx : 0 .. LastId]
    BY <2>1
  <2>4. op \in [kind : Kinds, tx : 0 .. LastId, req : 0 .. MaxRequests,
               skipped : Nat, data : SUBSET (1 .. MaxRequests), more : Nat]
    BY <2>1
  <2>5. cancel \in [for : {"recovery", "stream"}, tx : 0 .. LastId]
    BY <2>1
  <2>6. result \in [Tasks -> [req : 0 .. MaxRequests, reply : 0 .. MaxRequests,
                            data : SUBSET (1 .. MaxRequests)]]
    BY <2>1
  <2>7. issued \in 0 .. MaxRequests /\ gone \in BOOLEAN
    BY <2>1
  <2> QED BY <2>2, <2>3, <2>4, <2>5, <2>6, <2>7 DEF SessionType
<1>2. LinkType(Good(issued))
  <2> DEFINE G == Good(issued)
  <2> HIDE DEF G
  <2>1. LinkIn(G)
    BY ShortSeqs DEF Init, LinkInit, LinkIn
  <2>2. Len(awaiting) <= 1
    BY DEF Init, LinkInit
  <2>3. wedged \in BOOLEAN
    BY DEF Init, LinkInit
  <2> QED BY <2>1, <2>2, <2>3 DEF LinkType, G
<1>3. HolderInv
  BY DEF Init, HolderInv, Armed, Sending, Receiving, Cancelling
<1>4. IdInv
  BY IdModulusAssumption DEF Init, IdInv, NoOp, Armed, Sending, Receiving, Cancelling, NthId,
     IssuedIds, FirstId, LastId
<1>5. OwnReply /\ RecoveryNamesLast
  BY DEF Init, OwnReply, RecoveryNamesLast, Cancelling
<1> QED BY <1>1, <1>2, <1>3, <1>4, <1>5 DEF IInv
-----------------------------------------------------------------------------
(* Every step keeps the packets good *)

(* A bulk read keeps the packets good. *)
LEMMA ReadsKeepLink ==
  ASSUME NEW G, LinkType(G), pipe # <<>>, Reads
  PROVE  LinkType(G)'
<1>1. Tail(pipe) \in Seq(G)
  BY DEF LinkType, LinkIn
<1> QED BY <1>1 DEF LinkType, LinkIn, Reads

(* A bulk write of a good packet keeps the packets good. *)
LEMMA SendsKeepLink ==
  ASSUME NEW G, LinkType(G), NEW p \in G, Sends(p)
  PROVE  LinkType(G)'
<1>1. Append(outPipe, p) \in Seq(G)
  BY DEF LinkType, LinkIn
<1> QED BY <1>1 DEF LinkType, LinkIn, Sends

(* So does leaving the link alone. *)
LEMMA StillLinkKept ==
  ASSUME NEW G, LinkType(G), UNCHANGED linkVars
  PROVE  LinkType(G)'
  BY DEF LinkType, LinkIn, linkVars

(* A device that acts on CLASS_CANCEL keeps the packets good. *)
LEMMA AbortKeepsLink ==
  ASSUME NEW G, Closed(G), LinkType(G), DeviceAborts
  PROVE  LinkType(G)'
<1>1. LinkIn(G)'
  BY AbortInG DEF LinkType
<1>2. Len(awaiting') <= 1
  BY DEF LinkType, DeviceAborts
<1>3. wedged' \in BOOLEAN
  BY DEF LinkType, DeviceAborts
<1> QED BY <1>1, <1>2, <1>3 DEF LinkType

(* A step of the device's own keeps the packets good. *)
LEMMA DeviceKeepsLink ==
  ASSUME NEW G, Closed(G), LinkType(G), DeviceNext
  PROVE  LinkType(G)'
<1>1. LinkIn(G)'
  BY DeviceInG DEF LinkType
<1>2. Len(awaiting') <= 1
  <2>1. awaiting' \in {awaiting, <<>>, <<Head(outPipe)>>}
    BY DEF DeviceNext, DeviceTakes, DeviceSends, TakesCommand, TakesData, DiscardsData
  <2> QED BY <2>1 DEF LinkType
<1>3. wedged' \in BOOLEAN
  BY DEF LinkType, DeviceNext, DeviceTakes, DeviceSends
<1> QED BY <1>1, <1>2, <1>3 DEF LinkType

(* DEVICE_RESET empties the link. *)
LEMMA ResetKeepsLink ==
  ASSUME NEW G, DeviceResets
  PROVE  LinkType(G)'
<1>1. LinkIn(G)'
  BY ShortSeqs DEF DeviceResets, LinkIn
<1>2. Len(awaiting') <= 1
  BY DEF DeviceResets
<1>3. wedged' \in BOOLEAN
  BY DEF DeviceResets
<1> QED BY <1>1, <1>2, <1>3 DEF LinkType

(* The packets a task sends are those of the transaction it has started. *)
LEMMA OwnPacketGood ==
  ASSUME IInv, NEW t \in Tasks, pc[t] \in Armed, NEW type \in PacketTypes, NEW n \in Nat
  PROVE  Packet(type, op, n) \in Good(issued)
<1>1. op.req = issued /\ op.req # 0 /\ op.tx = NthId(StartId, issued)
  BY DEF IInv, IdInv
<1>2. op.kind \in Kinds /\ issued \in 0 .. MaxRequests /\ MaxRequests \in Nat /\ MaxRequests <= LastId
  BY SessionAssumption DEF IInv, SessionType
<1>3. issued \in 1 .. MaxRequests /\ issued \in Nat /\ issued <= LastId
  BY <1>1, <1>2, IdModulusAssumption DEF LastId
<1>4. op.tx \in IssuedIds
  BY <1>1, <1>3, NextIsNth, SessionAssumption
<1> QED BY <1>1, <1>2, <1>3, <1>4 DEF Good, Packets, Packet, PacketTypes

(* Every step of the specification keeps the packets good. *)
LEMMA NextKeepsLink ==
  ASSUME IInv, Next
  PROVE  LinkType(Good(issued))'
<1> DEFINE G == Good(issued)
<1>0. PICK n : n = issued
  OBVIOUS
<1>1. n \in Nat /\ n \in 0 .. MaxRequests
  BY <1>0, SessionAssumption DEF IInv, SessionType
<1>2. Closed(Good(n)) /\ LinkType(Good(n))
  BY <1>0, <1>1, GoodClosed DEF IInv
<1>3. issued' \in {n, n + 1}
  BY <1>0 DEF Next, TaskStep, CallerStep, Begin, Arm, Acquire, SendCommand, SendData, SendPayload,
     ReceiveResponse, SkipStaleReply, ReceiveData, ReceiveMore, ReceiveUnexpected,
     ReceiveTimeout, TransferError, DropArmed, DropWaiting, StreamCancel, ClassCancel,
     DrainRead, DrainGivesUp, SettleHealthy, SettleWedged, CancelFails, DropCancelling,
     sessionVars
<1>4. LinkType(Good(n))'
  <2>1. CASE DeviceNext
    BY <2>1, <1>2, DeviceKeepsLink
  <2>2. CASE UNCHANGED linkVars
    BY <2>2, <1>2, StillLinkKept
  <2>3. CASE pipe # <<>> /\ Reads
    BY <2>3, <1>2, ReadsKeepLink
  <2>4. CASE DeviceAborts
    BY <2>4, <1>2, AbortKeepsLink
  <2>5. CASE DeviceResets
    BY <2>5, ResetKeepsLink
  <2>6. CASE \E t \in Tasks : SendCommand(t) \/ SendData(t) \/ SendPayload(t)
    <3>1. PICK t \in Tasks : SendCommand(t) \/ SendData(t) \/ SendPayload(t)
      BY <2>6
    <3>2. pc[t] \in Armed
      BY <3>1 DEF SendCommand, SendData, SendPayload, Armed, Sending
    <3>3. \E type \in PacketTypes, k \in Nat : Sends(Packet(type, op, k))
      BY <3>1 DEF SendCommand, SendData, SendPayload, PacketTypes
    <3> QED BY <3>2, <3>3, <1>0, <1>2, OwnPacketGood, SendsKeepLink
  <2> QED
    BY <2>1, <2>2, <2>3, <2>4, <2>5, <2>6
       DEF Next, TaskStep, CallerStep, Begin, Acquire, ReceiveResponse, SkipStaleReply,
           ReceiveData, ReceiveMore, ReceiveUnexpected, ReceiveTimeout, TransferError, DropArmed,
           DropWaiting, StreamCancel, ClassCancel, DrainRead, DrainGivesUp, SettleHealthy,
           SettleWedged, CancelFails, DropCancelling
<1>5. Good(n) \subseteq Good(issued')
  BY <1>1, <1>3, GoodGrows
<1>6. /\ outPipe' \in Seq(Good(issued')) /\ pipe' \in Seq(Good(issued'))
      /\ emit' \in Seq(Good(issued')) /\ awaiting' \in Seq(Good(issued'))
  <2>1. Seq(Good(n)) \subseteq Seq(Good(issued'))
    BY <1>5, SeqMonotone
  <2> QED BY <2>1, <1>4 DEF LinkType, LinkIn
<1> QED BY <1>4, <1>6 DEF LinkType, LinkIn
-----------------------------------------------------------------------------
(* Every step keeps the session's part *)

SessionInv == SessionType /\ HolderInv /\ IdInv /\ OwnReply /\ RecoveryNamesLast

Rec == [needed : BOOLEAN, tx : 0 .. LastId]

(* The bounds the types are made of. *)
LEMMA Bounds ==
  /\ LastId \in Nat /\ MaxRequests \in Nat /\ MaxRequests <= LastId
  /\ 0 \in 0 .. LastId /\ 0 \in 0 .. MaxRequests
  /\ StartId \in IssuedIds
  BY SessionAssumption, IdModulusAssumption DEF LastId

(* The locations of a call are told apart. *)
LEMMA Locations ==
  /\ \A l \in Resting \cup {"waiting"} : l \in Pcs /\ l \notin Armed \cup Cancelling
  /\ \A l \in Armed : l \in Pcs /\ l \notin Cancelling /\ l \notin Resting
  /\ \A l \in Cancelling : l \in Pcs /\ l \notin Resting
  /\ "more" \in Armed
  BY DEF Resting, Armed, Sending, Receiving, Cancelling, Pcs

(* Giving the lock back keeps the invariant, if the flag left behind names *)
(* the last transaction and the result returned is the caller's own.       *)
LEMMA ReleaseKeeps ==
  ASSUME IInv, NEW t \in Tasks, lock = t,
         NEW l \in Resting, NEW rec \in Rec,
         rec.needed => rec.tx = NthId(StartId, issued),
         Release(t, l, rec),
         UNCHANGED <<counter, kind, issued>>, gone' \in BOOLEAN,
         result' = result \/ \E r \in [req : 0 .. MaxRequests, reply : 0 .. MaxRequests,
                                       data : SUBSET (1 .. MaxRequests)] :
                               r.reply = r.req /\ result' = [result EXCEPT ![t] = r],
         l = "ok" => result'[t].reply = result'[t].req
  PROVE  SessionInv'
<1>1. pc' = [pc EXCEPT ![t] = l] /\ pc' \in [Tasks -> Pcs] /\ pc'[t] = l
  BY Locations DEF Release, Goto, IInv, SessionType
<1>2. SessionType'
  <2>1. op' \in [kind : Kinds, tx : 0 .. LastId, req : 0 .. MaxRequests,
                skipped : Nat, data : SUBSET (1 .. MaxRequests), more : Nat]
    BY Bounds DEF Release, NoOp, Kinds
  <2>2. cancel' \in [for : {"recovery", "stream"}, tx : 0 .. LastId]
    BY Bounds DEF Release, NoCancel
  <2>3. result' \in [Tasks -> [req : 0 .. MaxRequests, reply : 0 .. MaxRequests,
                             data : SUBSET (1 .. MaxRequests)]]
    BY DEF IInv, SessionType
  <2>4. lock' \in Tasks \cup {NoTask} /\ recovery' \in Rec
    BY DEF Release
  <2> QED BY <1>1, <2>1, <2>2, <2>3, <2>4 DEF IInv, SessionType, Rec
<1>3. HolderInv'
  <2>1. \A u \in Tasks : pc'[u] \notin Armed \cup Cancelling
    BY <1>1, Locations DEF IInv, HolderInv, SessionType
  <2>2. \A u \in Tasks : lock' # u
    BY SessionAssumption DEF Release
  <2> QED BY <2>1, <2>2 DEF HolderInv
<1>4. IdInv'
  BY <1>3, SessionAssumption, Locations DEF HolderInv, IdInv, IInv, Release, NoOp
<1>5. OwnReply'
  BY <1>1 DEF IInv, OwnReply, SessionType
<1>6. RecoveryNamesLast'
  BY <1>3, SessionAssumption DEF HolderInv, RecoveryNamesLast, Release
<1> QED BY <1>2, <1>3, <1>4, <1>5, <1>6 DEF SessionInv

(* Starting the next transaction keeps the invariant. *)
LEMMA ArmKeeps ==
  ASSUME IInv, NEW t \in Tasks, issued < MaxRequests,
         lock = t \/ lock = NoTask, lock' = t,
         recovery' = recovery, ~recovery.needed,
         Arm(t),
         cancel' \in [for : {"recovery", "stream"}, tx : 0 .. LastId],
         UNCHANGED <<kind, result, gone>>
  PROVE  SessionInv'
<1>1. pc' = [pc EXCEPT ![t] = "send"] /\ pc' \in [Tasks -> Pcs] /\ pc'[t] = "send"
  BY DEF Arm, Goto, IInv, SessionType, Pcs, Armed, Sending
<1>2. issued' = issued + 1 /\ issued' \in 0 .. MaxRequests /\ issued' \in Nat /\ issued' # 0
      /\ issued' <= LastId /\ 1 <= issued'
  BY Bounds DEF Arm, IInv, SessionType
<1>3. counter = NthId(StartId, issued') /\ counter \in IssuedIds
  BY <1>2, Bounds, NextIsNth DEF IInv, IdInv
<1>4. counter' = NthId(StartId, issued' + 1)
  BY <1>2, <1>3, Bounds, NextIsNth DEF Arm
<1>5. op'.req = issued' /\ op'.tx = counter
  BY <1>2 DEF Arm
<1>6. SessionType'
  <2>1. counter \in 0 .. LastId
    BY <1>3, Bounds DEF IssuedIds, FirstId
  <2>2. op' \in [kind : Kinds, tx : 0 .. LastId, req : 0 .. MaxRequests,
                skipped : Nat, data : SUBSET (1 .. MaxRequests), more : Nat]
    BY <1>2, <2>1 DEF Arm, IInv, SessionType
  <2> QED BY <1>1, <1>2, <2>2 DEF IInv, SessionType
<1>7. "send" \in Armed /\ "send" \notin Cancelling /\ "send" # "ok"
  BY DEF Armed, Sending, Cancelling
<1>8. HolderInv'
  <2>1. \A u \in Tasks : u # t => pc'[u] \notin Armed \cup Cancelling
    BY <1>1, SessionAssumption DEF IInv, HolderInv, SessionType
  <2> QED BY <1>1, <1>7, <2>1 DEF HolderInv
<1>9. IdInv'
  <2>1. \A u \in Tasks : u # t => pc'[u] \notin Armed \cup Cancelling
    BY <1>8 DEF HolderInv
  <2> QED BY <1>1, <1>2, <1>3, <1>4, <1>5, <1>7, <2>1, Locations DEF IdInv
<1>10. OwnReply'
  BY <1>1, <1>7 DEF IInv, OwnReply, SessionType
<1>11. RecoveryNamesLast'
  BY <1>1, <1>7, <1>8 DEF RecoveryNamesLast, HolderInv
<1> QED BY <1>6, <1>8, <1>9, <1>10, <1>11 DEF SessionInv
OpType == [kind : Kinds, tx : 0 .. LastId, req : 0 .. MaxRequests,
           skipped : Nat, data : SUBSET (1 .. MaxRequests), more : Nat]
CancelType == [for : {"recovery", "stream"}, tx : 0 .. LastId]

(* The holder goes on with its transaction or its cancel. *)
LEMMA HolderMoves ==
  ASSUME IInv, NEW t \in Tasks, lock' = t, lock \in {t, NoTask},
         NEW l \in Armed \cup Cancelling, pc' = [pc EXCEPT ![t] = l],
         op' \in OpType, op'.req = op.req, op'.tx = op.tx,
         cancel' \in CancelType,
         recovery' \in Rec, ~recovery'.needed,
         l \in Armed => op.req # 0,
         l = "more" => op'.more > 0,
         l \in Cancelling =>
           /\ cancel'.tx = NthId(StartId, issued)
           /\ cancel'.for = "recovery" => issued < MaxRequests
           /\ cancel'.for = "stream" => op.req # 0,
         UNCHANGED <<counter, kind, issued, result, gone>>
  PROVE  SessionInv'
<1>1. pc' \in [Tasks -> Pcs] /\ pc'[t] = l /\ l # "ok"
  BY Locations DEF IInv, SessionType, Resting
<1>2. SessionType'
  BY <1>1 DEF IInv, SessionType, OpType, CancelType, Rec
<1>3. \A u \in Tasks : u # t => pc'[u] = pc[u] /\ pc'[u] \notin Armed \cup Cancelling
  BY SessionAssumption DEF IInv, HolderInv, SessionType
<1>4. HolderInv'
  BY <1>1, <1>3 DEF HolderInv
<1>5. IdInv'
  BY <1>1, <1>3, Locations DEF IInv, IdInv
<1>6. OwnReply'
  BY <1>1, <1>3 DEF IInv, OwnReply
<1>7. RecoveryNamesLast'
  BY <1>1, <1>3 DEF RecoveryNamesLast
<1> QED BY <1>2, <1>4, <1>5, <1>6, <1>7 DEF SessionInv

(* A task that does not hold the lock starts or stops waiting for it. *)
LEMMA OutsiderMoves ==
  ASSUME IInv, NEW t \in Tasks, pc[t] \notin Armed \cup Cancelling,
         NEW l \in {"idle", "waiting"}, pc' = [pc EXCEPT ![t] = l],
         kind' \in [Tasks -> Kinds],
         result' = result \/ result' = [result EXCEPT ![t] = NoResult],
         UNCHANGED <<lock, counter, recovery, op, cancel, issued, gone>>
  PROVE  SessionInv'
<1>1. pc' \in [Tasks -> Pcs] /\ pc'[t] = l /\ l # "ok" /\ l \notin Armed \cup Cancelling
  BY Locations DEF IInv, SessionType, Resting
<1>2. NoResult \in [req : 0 .. MaxRequests, reply : 0 .. MaxRequests,
                   data : SUBSET (1 .. MaxRequests)]
  BY Bounds DEF NoResult
<1>3. SessionType'
  <2>1. result' \in [Tasks -> [req : 0 .. MaxRequests, reply : 0 .. MaxRequests,
                             data : SUBSET (1 .. MaxRequests)]]
    <3> DEFINE R == [req : 0 .. MaxRequests, reply : 0 .. MaxRequests,
                     data : SUBSET (1 .. MaxRequests)]
    <3>1. result \in [Tasks -> R] /\ NoResult \in R
      BY <1>2 DEF IInv, SessionType
    <3> HIDE DEF R
    <3>2. result' \in [Tasks -> R]
      BY <3>1
    <3> QED BY <3>2 DEF R
  <2> QED BY <1>1, <2>1 DEF IInv, SessionType
<1>4. \A u \in Tasks : u # t => pc'[u] = pc[u] /\ result'[u] = result[u]
  BY DEF IInv, SessionType
<1>5. HolderInv'
  BY <1>1, <1>4 DEF IInv, HolderInv
<1>6. IdInv'
  BY <1>1, <1>4 DEF IInv, IdInv
<1>7. OwnReply'
  BY <1>1, <1>4 DEF IInv, OwnReply
<1>8. RecoveryNamesLast'
  BY <1>1, <1>4 DEF IInv, RecoveryNamesLast
<1> QED BY <1>3, <1>5, <1>6, <1>7, <1>8 DEF SessionInv

(* What the holder's location tells about its transaction. *)
LEMMA HolderFacts ==
  ASSUME IInv, NEW t \in Tasks, lock = t
  PROVE  /\ pc[t] = "more" => op.more > 0
         /\ pc[t] \in Armed => op.req = issued /\ op.req # 0 /\ op.tx = NthId(StartId, issued)
         /\ pc[t] \in Cancelling =>
              /\ cancel.tx = NthId(StartId, issued)
              /\ cancel.for = "recovery" => issued < MaxRequests
              /\ cancel.for = "stream" =>
                   op.req = issued /\ op.req # 0 /\ op.tx = NthId(StartId, issued)
         /\ recovery \in Rec /\ ~recovery.needed
         /\ op \in OpType /\ cancel \in CancelType
         /\ pc[t] \in Armed \cup Cancelling
         /\ gone \in BOOLEAN
  BY SessionAssumption
     DEF IInv, HolderInv, IdInv, RecoveryNamesLast, SessionType, Rec, OpType, CancelType

(* The record left by a flag. *)
LEMMA FlaggedRec ==
  ASSUME NEW tx \in 0 .. LastId
  PROVE  Flagged(tx) \in Rec /\ Flagged(tx).tx = tx
  BY DEF Flagged, Rec

(* The packet at the head of the IN pipe is good. *)
LEMMA HeadGood ==
  ASSUME IInv, pipe # <<>>
  PROVE  /\ Head(pipe) \in Packets
         /\ Head(pipe).tx = NthId(StartId, Head(pipe).req)
         /\ Head(pipe).req \in 1 .. MaxRequests /\ Head(pipe).more \in Nat
<1>1. Head(pipe) \in Good(issued)
  BY DEF IInv, LinkType, LinkIn
<1> QED BY <1>1 DEF Good, Packets

(* The id check singles out the caller's own response. *)
LEMMA AcceptedIsOwn ==
  ASSUME IInv, NEW t \in Tasks, lock = t, pc[t] \in Armed, pipe # <<>>, Accepts(Head(pipe))
  PROVE  Head(pipe).req = op.req
<1>1. op.req \in 1 .. LastId /\ op.tx = NthId(StartId, op.req)
  BY HolderFacts, Bounds DEF IInv, SessionType
<1>2. Head(pipe).req \in 1 .. LastId
  BY HeadGood, Bounds
<1>3. NthId(StartId, Head(pipe).req) = NthId(StartId, op.req)
  BY <1>1, HeadGood DEF Accepts
<1> QED BY <1>1, <1>2, <1>3, NthInjective, Bounds
-----------------------------------------------------------------------------
(* The step, one action at a time *)

(* Every step of a task keeps the session's part of the invariant. *)
LEMMA StepKeepsSession ==
  ASSUME IInv, Next
  PROVE  SessionInv'
<1>1. CASE DeviceNext /\ UNCHANGED sessionVars
  BY <1>1 DEF sessionVars, IInv, SessionInv, SessionType, HolderInv, IdInv, OwnReply,
     RecoveryNamesLast
<1>2. ASSUME NEW t \in Tasks, TaskStep(t) PROVE SessionInv'
  <2> USE <1>2
  <2> "receive" \in Armed /\ "more" \in Armed /\ "cancel" \in Cancelling
      /\ "drain" \in Cancelling /\ "settle" \in Cancelling
      /\ Receiving \subseteq Armed /\ Sending \subseteq Armed
      /\ "ok" \in Resting /\ "err" \in Resting /\ "idle" \in Resting
    BY DEF Armed, Receiving, Sending, Cancelling, Resting
  <2>1. CASE Acquire(t)
    <3>1. CASE recovery.needed
      <4>1. pc' = [pc EXCEPT ![t] = "cancel"] /\ lock' = t /\ lock = NoTask /\ op' = op
            /\ UNCHANGED <<counter, kind, issued, result, gone>> /\ issued < MaxRequests
        BY <2>1, <3>1 DEF Acquire, Goto
      <4>2. recovery' \in Rec /\ ~recovery'.needed
        BY <2>1, <3>1 DEF Acquire, IInv, SessionType, Rec
      <4>3. cancel' \in CancelType /\ cancel'.tx = NthId(StartId, issued) /\ cancel'.for = "recovery"
        BY <2>1, <3>1 DEF Acquire, IInv, SessionType, CancelType, RecoveryNamesLast
      <4>4. op \in OpType
        BY DEF IInv, SessionType, OpType
      <4>5. "cancel" \notin Armed
        BY DEF Armed, Sending, Receiving
      <4> QED BY <4>1, <4>2, <4>3, <4>4, <4>5, HolderMoves
    <3>2. CASE ~recovery.needed
      BY <2>1, <3>2, ArmKeeps DEF Acquire, IInv, SessionType
    <3> QED BY <3>1, <3>2
  <2>2. CASE SendCommand(t) \/ SendData(t) \/ SendPayload(t)
    <3>1. \E l \in Armed \ {"more"} : pc' = [pc EXCEPT ![t] = l]
      BY <2>2 DEF SendCommand, SendData, SendPayload, Goto, Armed, Sending, Receiving
    <3>2. lock = t /\ pc[t] \in Armed
          /\ UNCHANGED <<lock, counter, recovery, kind, op, cancel, issued, result, gone>>
      BY <2>2 DEF SendCommand, SendData, SendPayload, Armed, Sending
    <3> QED BY <3>1, <3>2, HolderFacts, HolderMoves, Locations
  <2>3. CASE ReceiveResponse(t)
    <3> DEFINE r == [req |-> op.req, reply |-> Head(pipe).req, data |-> op.data]
    <3>1. lock = t /\ pc[t] \in Armed /\ pipe # <<>> /\ Accepts(Head(pipe))
          /\ Release(t, "ok", recovery) /\ UNCHANGED <<counter, kind, issued, gone>>
          /\ result' = [result EXCEPT ![t] = r]
      BY <2>3 DEF ReceiveResponse
    <3>2. r.reply = r.req
      BY <3>1, AcceptedIsOwn
    <3>3. r \in [req : 0 .. MaxRequests, reply : 0 .. MaxRequests,
                data : SUBSET (1 .. MaxRequests)]
      BY <3>1, <3>2, HolderFacts DEF OpType
    <3>4. result'[t] = r
      BY <3>1 DEF IInv, SessionType
    <3> HIDE DEF r
    <3> QED BY <3>1, <3>2, <3>3, <3>4, HolderFacts, ReleaseKeeps
  <2>4. CASE SkipStaleReply(t)
    <3>1. lock = t /\ pc[t] = "receive" /\ op' = [op EXCEPT !.skipped = @ + 1]
          /\ UNCHANGED <<lock, counter, recovery, pc, kind, cancel, issued, result, gone>>
      BY <2>4 DEF SkipStaleReply
    <3>2. op' \in OpType /\ op'.req = op.req /\ op'.tx = op.tx
      BY <3>1, HolderFacts DEF OpType
    <3>3. pc' = [pc EXCEPT ![t] = "receive"]
      BY <3>1 DEF IInv, SessionType
    <3> QED BY <3>1, <3>2, <3>3, HolderFacts, HolderMoves, Locations
  <2>5. CASE ReceiveData(t) \/ ReceiveMore(t)
    <3>1. lock = t /\ pc[t] \in Armed /\ pipe # <<>>
          /\ UNCHANGED <<lock, counter, recovery, kind, cancel, issued, result, gone>>
      BY <2>5 DEF ReceiveData, ReceiveMore
    <3>2. \E l \in Armed : pc' = [pc EXCEPT ![t] = l] /\ (l = "more" => op'.more > 0)
      <4>1. CASE ReceiveData(t)
        BY <4>1, <3>1, HolderFacts DEF ReceiveData, Goto, OpType
      <4>2. CASE ReceiveMore(t)
        BY <4>2, <3>1, HolderFacts DEF ReceiveMore, Goto, OpType
      <4> QED BY <2>5, <4>1, <4>2
    <3>3. op' \in OpType /\ op'.req = op.req /\ op'.tx = op.tx
      <4>1. CASE ReceiveData(t)
        BY <4>1, <3>1, HeadGood, HolderFacts DEF ReceiveData, OpType
      <4>2. CASE ReceiveMore(t)
        <5>1. op.more > 0 /\ op.more - 1 \in Nat /\ op.more \in Nat
          BY <4>2, <3>1, HolderFacts DEF ReceiveMore, OpType
        <5>2. PICK left \in {op.more - 1, op.more} :
                op' = [op EXCEPT !.data = @ \cup {Head(pipe).req}, !.more = left]
          BY <4>2 DEF ReceiveMore
        <5>3. left \in Nat
          BY <5>1, <5>2
        <5> QED BY <5>2, <5>3, <3>1, HeadGood, HolderFacts DEF OpType
      <4> QED BY <2>5, <4>1, <4>2
    <3> QED BY <3>1, <3>2, <3>3, HolderFacts, HolderMoves, Locations
  <2>6. CASE ReceiveUnexpected(t) \/ ReceiveTimeout(t)
    <3>1. lock = t /\ pc[t] \in Armed /\ Release(t, "err", Flagged(op.tx))
          /\ UNCHANGED <<counter, kind, issued, result, gone>>
      BY <2>6 DEF ReceiveUnexpected, ReceiveTimeout, Abandon
    <3>2. Flagged(op.tx) \in Rec /\ Flagged(op.tx).tx = NthId(StartId, issued)
      BY <3>1, HolderFacts, FlaggedRec DEF OpType
    <3> QED BY <3>1, <3>2, HolderFacts, ReleaseKeeps
  <2>7. CASE ClassCancel(t) \/ DrainRead(t) \/ DrainGivesUp(t)
    <3>1. lock = t /\ pc[t] \in Cancelling
          /\ UNCHANGED <<lock, counter, recovery, kind, op, cancel, issued, result, gone>>
      BY <2>7 DEF ClassCancel, DrainRead, DrainGivesUp
    <3>2. \E l \in Cancelling : pc' = [pc EXCEPT ![t] = l]
      BY <2>7 DEF ClassCancel, DrainRead, DrainGivesUp, Goto
    <3> QED BY <3>1, <3>2, HolderFacts, HolderMoves, Locations
  <2>8. CASE SettleHealthy(t)
    <3>1. lock = t /\ pc[t] \in Cancelling
      BY <2>8 DEF SettleHealthy
    <3>2. CASE cancel.for = "recovery"
      BY <2>8, <3>1, <3>2, HolderFacts, ArmKeeps, Bounds DEF SettleHealthy, NoCancel
    <3>3. CASE cancel.for # "recovery"
      BY <2>8, <3>1, <3>3, HolderFacts, ReleaseKeeps DEF SettleHealthy
    <3> QED BY <3>2, <3>3
  <2>9. CASE SettleWedged(t)
    <3>1. lock = t /\ pc[t] \in Cancelling /\ gone' \in BOOLEAN
          /\ UNCHANGED <<counter, kind, issued, result>>
      BY <2>9 DEF SettleWedged
    <3>2. Flagged(cancel.tx) \in Rec /\ Flagged(cancel.tx).tx = NthId(StartId, issued)
      BY <3>1, HolderFacts, FlaggedRec DEF CancelType
    <3>3. Release(t, "err", Flagged(cancel.tx)) \/ Release(t, "err", recovery)
      BY <2>9 DEF SettleWedged
    <3> QED BY <3>1, <3>2, <3>3, HolderFacts, ReleaseKeeps
  <2> QED
    BY <2>1, <2>2, <2>3, <2>4, <2>5, <2>6, <2>7, <2>8, <2>9 DEF TaskStep
<1>3. ASSUME NEW t \in Tasks, CallerStep(t) PROVE SessionInv'
  <2> USE <1>3
  <2> "receive" \in Armed /\ "more" \in Armed /\ "cancel" \in Cancelling
      /\ "drain" \in Cancelling /\ Receiving \subseteq Armed
      /\ "err" \in Resting /\ "idle" \in Resting
    BY DEF Armed, Receiving, Sending, Cancelling, Resting
  <2>1. CASE \E k \in UsedKinds : Begin(t, k)
    <3>0. PICK k \in UsedKinds : Begin(t, k)
      BY <2>1
    <3>1. pc[t] \in Resting /\ pc' = [pc EXCEPT ![t] = "waiting"]
          /\ result' = [result EXCEPT ![t] = NoResult]
          /\ UNCHANGED <<lock, counter, recovery, op, cancel, issued, gone>>
      BY <3>0 DEF Begin, Goto
    <3>2. kind' \in [Tasks -> Kinds]
      BY <3>0, SessionAssumption DEF Begin, IInv, SessionType
    <3> QED BY <3>1, <3>2, Locations, OutsiderMoves
  <2>2. CASE StreamCancel(t)
    <3>1. lock = t /\ pc[t] \in Armed /\ pc' = [pc EXCEPT ![t] = "cancel"]
          /\ UNCHANGED <<lock, counter, recovery, kind, op, issued, result, gone>>
      BY <2>2 DEF StreamCancel, Goto
    <3>2. cancel' \in CancelType /\ cancel'.tx = NthId(StartId, issued) /\ cancel'.for = "stream"
      BY <2>2, <3>1, HolderFacts DEF StreamCancel, CancelType, OpType
    <3> QED BY <3>1, <3>2, HolderFacts, HolderMoves, Locations
  <2>3. CASE DropWaiting(t)
    <3>1. pc[t] = "waiting" /\ pc' = [pc EXCEPT ![t] = "idle"]
          /\ UNCHANGED <<lock, counter, recovery, kind, op, cancel, issued, result, gone>>
      BY <2>3 DEF DropWaiting, Goto
    <3>2. kind \in [Tasks -> Kinds]
      BY DEF IInv, SessionType
    <3> QED BY <3>1, <3>2, Locations, OutsiderMoves
  <2>4. CASE DropArmed(t) \/ TransferError(t)
    <3>1. lock = t /\ pc[t] \in Armed /\ UNCHANGED <<counter, kind, issued, result, gone>>
          /\ (Release(t, "err", Flagged(op.tx)) \/ Release(t, "idle", Flagged(op.tx)))
      BY <2>4 DEF DropArmed, TransferError, Abandon
    <3>2. Flagged(op.tx) \in Rec /\ Flagged(op.tx).tx = NthId(StartId, issued)
      BY <3>1, HolderFacts, FlaggedRec DEF OpType
    <3> QED BY <3>1, <3>2, HolderFacts, ReleaseKeeps
  <2>5. CASE CancelFails(t)
    <3>1. lock = t /\ pc[t] \in Cancelling /\ UNCHANGED <<counter, kind, issued, result, gone>>
          /\ Release(t, "err", Flagged(cancel.tx))
      BY <2>5 DEF CancelFails
    <3>2. Flagged(cancel.tx) \in Rec /\ Flagged(cancel.tx).tx = NthId(StartId, issued)
      BY <3>1, HolderFacts, FlaggedRec DEF CancelType
    <3> QED BY <3>1, <3>2, HolderFacts, ReleaseKeeps
  <2>6. CASE DropCancelling(t)
    <3>1. lock = t /\ pc[t] \in Cancelling /\ UNCHANGED <<counter, kind, issued, result, gone>>
      BY <2>6 DEF DropCancelling
    <3>2. CASE cancel.for = "stream"
      <4>1. \E l \in Armed : pc' = [pc EXCEPT ![t] = l] /\ (l = "more" => op.more > 0)
        BY <2>6, <3>2 DEF DropCancelling, Goto
      <4>2. UNCHANGED <<lock, recovery, op>> /\ cancel' \in CancelType
        BY <2>6, <3>2, Bounds DEF DropCancelling, NoCancel, CancelType
      <4> QED BY <3>1, <3>2, <4>1, <4>2, HolderFacts, HolderMoves, Locations
    <3>3. CASE cancel.for # "stream"
      BY <2>6, <3>1, <3>3, HolderFacts, ReleaseKeeps DEF DropCancelling
    <3> QED BY <3>2, <3>3
  <2> QED BY <2>1, <2>2, <2>3, <2>4, <2>5, <2>6 DEF CallerStep
<1> QED BY <1>1, <1>2, <1>3 DEF Next

(* The invariant holds in every reachable state. *)
THEOREM Invariance == Spec => []IInv
<1>1. IInv /\ [Next]_vars => IInv'
  <2> SUFFICES ASSUME IInv, [Next]_vars PROVE IInv'
    OBVIOUS
  <2>1. CASE Next
    BY <2>1, NextKeepsLink, StepKeepsSession DEF IInv, SessionInv
  <2>2. CASE UNCHANGED vars
    BY <2>2 DEF vars, linkVars, sessionVars, IInv, SessionType, LinkType, LinkIn, HolderInv,
       IdInv, OwnReply, RecoveryNamesLast
  <2> QED BY <2>1, <2>2
<1> QED BY InitIInv, <1>1, PTL DEF Spec

(* Type correctness of the session and the link, for every instance. *)
THEOREM TypeCorrect == Spec => []TypeOK
  BY Invariance, IInvType, PTL

(* However many abandoned transactions answer late, on a device that acts  *)
(* on cancels or not, a call that returns a response returns the answer to *)
(* its own request, for less than a full turn of the id counter.           *)
THEOREM RepliesAreOwn == Spec => []OwnReply
<1>1. IInv => OwnReply
  BY DEF IInv
<1> QED BY Invariance, <1>1, PTL

(* A pending recovery always cancels the transaction issued last. *)
THEOREM RecoveryIsForLast == Spec => []RecoveryNamesLast
<1>1. IInv => RecoveryNamesLast
  BY DEF IInv
<1> QED BY Invariance, <1>1, PTL
=============================================================================
