------------------------- MODULE SessionDataProofs --------------------------
(***************************************************************************)
(* Proofs about the data a session returns, and about its lazy recovery:   *)
(* where a drain reads on until the device is quiet and no caller leaves   *)
(* during a recovery, every operation starts on clean pipes.               *)
(***************************************************************************)
EXTENDS PtpSessionProofs

-----------------------------------------------------------------------------
(* Framing *)

(* After position k of S come n continuation packets of request r and then *)
(* the response of r.                                                      *)
Completed(S, k, n, r) ==
  /\ k + n + 1 <= Len(S)
  /\ \A j \in 1 .. n : S[k + j].type = "Raw" /\ S[k + j].req = r
  /\ S[k + n + 1].type = "Response" /\ S[k + n + 1].req = r

(* Every data container in S is whole from its header on. *)
Framed(S) ==
  \A i \in 1 .. Len(S) :
    S[i].type = "Data" => Completed(S, i, S[i].more, S[i].req)

(* What the host will read, in this order, if the device gets no further   *)
(* command.                                                                *)
Incoming == pipe \o emit

(* A task that has collected data has it from one request, whose response  *)
(* is what comes after the rest of the container.                          *)
CollectedInv ==
  \A t \in Tasks :
    /\ pc[t] \in Sending => op.data = {} /\ op.more = 0
    /\ pc[t] = "receive" => op.more = 0
    /\ pc[t] \in Receiving =>
         \/ op.data = {} /\ op.more = 0
         \/ \E r \in 1 .. MaxRequests : op.data = {r} /\ Completed(Incoming, 0, op.more, r)

(* Without downloads as streams and without CLASS_CANCEL nothing cuts a    *)
(* reply short.                                                            *)
UncutInv ==
  /\ ~wedged
  /\ kind \in [Tasks -> UsedKinds]
  /\ \A t \in Tasks : /\ pc[t] \in Cancelling => cancel.for = "recovery"
                      /\ pc[t] \in Armed => op.kind \in UsedKinds

DataInv == UncutInv /\ Framed(Incoming) /\ CollectedInv /\ OwnData
-----------------------------------------------------------------------------
(* How framing survives what the pipes do to it *)

(* The numbers a packet carries. *)
LEMMA PacketFields == \A p \in Packets : p.more \in Nat /\ p.req \in 1 .. MaxRequests
  BY DEF Packets

(* Reading the first packet moves every position down by one. *)
LEMMA CompletedTail ==
  ASSUME NEW S \in Seq(Packets), S # <<>>, NEW k \in Nat, NEW n \in Nat, NEW r,
         Completed(S, k + 1, n, r)
  PROVE  Completed(Tail(S), k, n, r)
<1>1. Len(Tail(S)) = Len(S) - 1 /\ Len(S) \in Nat
      /\ \A i \in 1 .. Len(Tail(S)) : Tail(S)[i] = S[i + 1]
  BY HeadTailProperties, LenProperties
<1>2. k + n + 1 <= Len(Tail(S))
  BY <1>1 DEF Completed
<1>3. \A j \in 1 .. n + 1 : Tail(S)[k + j] = S[k + 1 + j]
  BY <1>1, <1>2
<1>4. \A j \in 1 .. n : Tail(S)[k + j].type = "Raw" /\ Tail(S)[k + j].req = r
  <2> SUFFICES ASSUME NEW j \in 1 .. n
               PROVE  Tail(S)[k + j].type = "Raw" /\ Tail(S)[k + j].req = r
    OBVIOUS
  <2>1. j \in 1 .. n + 1
    OBVIOUS
  <2>2. Tail(S)[k + j] = S[k + 1 + j]
    BY <1>3, <2>1
  <2>3. S[k + 1 + j].type = "Raw" /\ S[k + 1 + j].req = r
    BY DEF Completed
  <2> QED BY <2>2, <2>3
<1>5. Tail(S)[k + n + 1] = S[k + 1 + n + 1]
  BY <1>1, <1>2
<1> QED BY <1>2, <1>4, <1>5 DEF Completed

(* Reading a continuation packet leaves one less to come. *)
LEMMA CompletedNext ==
  ASSUME NEW S \in Seq(Packets), NEW n \in Nat, n > 0, NEW r, Completed(S, 0, n, r)
  PROVE  /\ S # <<>> /\ Head(S).type = "Raw" /\ Head(S).req = r
         /\ Completed(Tail(S), 0, n - 1, r)
<1>1. Len(S) \in Nat /\ 0 + n + 1 <= Len(S)
  BY LenProperties DEF Completed
<1>2. S # <<>> /\ Head(S) = S[1]
  BY <1>1
<1>3. S[0 + 1].type = "Raw" /\ S[0 + 1].req = r
  BY DEF Completed
<1>4. Completed(S, 0 + 1, n - 1, r)
  <2>1. 0 + 1 + (n - 1) + 1 <= Len(S) /\ 0 + 1 + (n - 1) + 1 = 0 + n + 1
    BY <1>1
  <2>2. \A j \in 1 .. n - 1 : 0 + 1 + j = 0 + (1 + j) /\ 1 + j \in 1 .. n
    OBVIOUS
  <2> QED BY <2>1, <2>2 DEF Completed
<1> QED BY <1>2, <1>3, <1>4, CompletedTail

(* A whole container stays whole when its head is read. *)
LEMMA FramedTail ==
  ASSUME NEW S \in Seq(Packets), S # <<>>, Framed(S)
  PROVE  Framed(Tail(S))
<1>1. Len(Tail(S)) = Len(S) - 1 /\ Len(S) \in Nat
      /\ \A i \in 1 .. Len(Tail(S)) : Tail(S)[i] = S[i + 1]
  BY HeadTailProperties, LenProperties
<1> SUFFICES ASSUME NEW i \in 1 .. Len(Tail(S)), Tail(S)[i].type = "Data"
             PROVE  Completed(Tail(S), i, Tail(S)[i].more, Tail(S)[i].req)
  BY DEF Framed
<1>2. i + 1 \in 1 .. Len(S) /\ Tail(S)[i] = S[i + 1] /\ i \in Nat
  BY <1>1
<1>3. S[i + 1] \in Packets
  BY <1>2
<1>4. Completed(S, i + 1, S[i + 1].more, S[i + 1].req)
  BY <1>2 DEF Framed
<1> QED BY <1>2, <1>3, <1>4, PacketFields, CompletedTail

(* What is complete stays complete when more arrives behind it. *)
LEMMA CompletedConcat ==
  ASSUME NEW S \in Seq(Packets), NEW T \in Seq(Packets), NEW k \in Nat, NEW n \in Nat, NEW r,
         Completed(S, k, n, r)
  PROVE  Completed(S \o T, k, n, r)
<1> DEFINE U == S \o T
<1>1. Len(S) \in Nat /\ Len(U) \in Nat /\ Len(S) <= Len(U)
      /\ \A i \in 1 .. Len(S) : U[i] = S[i]
  BY ConcatProperties, LenProperties
<1> HIDE DEF U
<1>2. k + n + 1 <= Len(S)
  BY DEF Completed
<1>3. \A j \in 1 .. n : U[k + j] = S[k + j]
  BY <1>1, <1>2
<1>4. U[k + n + 1] = S[k + n + 1] /\ k + n + 1 <= Len(U)
  BY <1>1, <1>2
<1>5. Completed(U, k, n, r)
  BY <1>3, <1>4 DEF Completed
<1> QED BY <1>5 DEF U

(* What is complete stays complete when something else is in front of it. *)
LEMMA CompletedShift ==
  ASSUME NEW S \in Seq(Packets), NEW T \in Seq(Packets), NEW m \in Nat, NEW n \in Nat, NEW r,
         Completed(T, m, n, r)
  PROVE  Completed(S \o T, Len(S) + m, n, r)
<1> DEFINE U == S \o T
           l == Len(S)
<1>1. l \in Nat /\ Len(T) \in Nat /\ Len(U) = l + Len(T)
      /\ \A i \in 1 .. Len(T) : U[l + i] = T[i]
  BY ConcatProperties, LenProperties
<1> HIDE DEF U, l
<1>2. m + n + 1 <= Len(T)
  BY DEF Completed
<1>3. \A j \in 1 .. n : U[l + m + j] = T[m + j]
  <2> SUFFICES ASSUME NEW j \in 1 .. n PROVE U[l + m + j] = T[m + j]
    OBVIOUS
  <2>1. m + j \in 1 .. Len(T) /\ l + (m + j) = l + m + j
    BY <1>1, <1>2
  <2>2. U[l + (m + j)] = T[m + j]
    BY <1>1, <2>1
  <2> QED BY <2>1, <2>2
<1>4. U[l + m + n + 1] = T[m + n + 1]
  <2>1. m + n + 1 \in 1 .. Len(T) /\ l + (m + n + 1) = l + m + n + 1
    BY <1>1, <1>2
  <2>2. U[l + (m + n + 1)] = T[m + n + 1]
    BY <1>1, <2>1
  <2> QED BY <2>1, <2>2
<1>5. l + m + n + 1 <= Len(U)
  BY <1>1, <1>2
<1>6. Completed(U, l + m, n, r)
  BY <1>3, <1>4, <1>5 DEF Completed
<1> QED BY <1>6 DEF U, l

(* Two framed sequences, one behind the other. *)
LEMMA FramedConcat ==
  ASSUME NEW S \in Seq(Packets), NEW T \in Seq(Packets), Framed(S), Framed(T)
  PROVE  Framed(S \o T)
<1>1. Len(S) \in Nat /\ Len(T) \in Nat /\ Len(S \o T) = Len(S) + Len(T)
      /\ \A i \in 1 .. Len(S) + Len(T) :
           (S \o T)[i] = IF i <= Len(S) THEN S[i] ELSE T[i - Len(S)]
  BY ConcatProperties, LenProperties
<1> SUFFICES ASSUME NEW i \in 1 .. Len(S) + Len(T), (S \o T)[i].type = "Data"
             PROVE  Completed(S \o T, i, (S \o T)[i].more, (S \o T)[i].req)
  BY <1>1 DEF Framed
<1>2. CASE i <= Len(S)
  <2>1. i \in 1 .. Len(S) /\ (S \o T)[i] = S[i] /\ i \in Nat
    BY <1>1, <1>2
  <2>2. S[i] \in Packets
    BY <2>1
  <2> QED BY <2>1, <2>2, PacketFields, CompletedConcat DEF Framed
<1>3. CASE i > Len(S)
  <2> DEFINE m == i - Len(S)
  <2>1. m \in 1 .. Len(T) /\ m \in Nat /\ (S \o T)[i] = T[m] /\ Len(S) + m = i
    BY <1>1, <1>3
  <2> HIDE DEF m
  <2>2. T[m] \in Packets
    BY <2>1
  <2>3. Completed(T, m, T[m].more, T[m].req)
    BY <2>1 DEF Framed
  <2> QED BY <2>1, <2>2, <2>3, PacketFields, CompletedShift
<1> QED BY <1>1, <1>2, <1>3

(* What the device makes of a command is framed. *)
LEMMA RepliesFramed ==
  ASSUME NEW p \in Packets, NEW n \in Nat
  PROVE  Framed(<<>>) /\ Framed(<<Response(p)>>) /\ Framed(DataReply(p, n))
<1>1. Framed(<<>>) /\ Framed(<<Response(p)>>)
  BY DEF Framed, Response, Packet
<1>2. Framed(DataReply(p, n))
  <2> DEFINE d == Packet("Data", p, n)
             w == Packet("Raw", p, 0)
             r == Packet("Response", p, 0)
             mid == [i \in 1 .. n |-> w]
             S == DataReply(p, n)
  <2>1. d \in Packets /\ w \in Packets /\ r \in Packets
    BY DEF Packets, Packet
  <2>2. d.type = "Data" /\ d.more = n /\ d.req = p.req /\ w.type = "Raw" /\ w.req = p.req
        /\ r.type = "Response" /\ r.req = p.req
    BY DEF Packet
  <2>3. S = (<<d>> \o mid) \o <<r>>
    BY DEF DataReply, Response
  <2>4. mid \in Seq(Packets) /\ Len(mid) = n /\ \A i \in 1 .. n : mid[i] = w
    BY <2>1
  <2>5. <<d>> \in Seq(Packets) /\ Len(<<d>>) = 1 /\ <<d>>[1] = d
        /\ <<r>> \in Seq(Packets) /\ Len(<<r>>) = 1 /\ <<r>>[1] = r
    BY <2>1
  <2> HIDE DEF d, w, r, mid, S
  <2>6. <<d>> \o mid \in Seq(Packets) /\ Len(<<d>> \o mid) = n + 1
        /\ (<<d>> \o mid)[1] = d /\ \A i \in 2 .. n + 1 : (<<d>> \o mid)[i] = w
    BY <2>4, <2>5, ConcatProperties
  <2>7. Len(S) = n + 2 /\ S[1] = d /\ (\A i \in 2 .. n + 1 : S[i] = w) /\ S[n + 2] = r
    <3> DEFINE U == <<d>> \o mid
               V == <<r>>
    <3>1. U \in Seq(Packets) /\ Len(U) = n + 1 /\ U[1] = d /\ (\A i \in 2 .. n + 1 : U[i] = w)
          /\ V \in Seq(Packets) /\ Len(V) = 1 /\ V[1] = r /\ S = U \o V
      BY <2>3, <2>5, <2>6
    <3> HIDE DEF U, V
    <3>2. Len(U \o V) = n + 2
      BY <3>1, ConcatProperties
    <3>3. \A i \in 1 .. n + 1 : (U \o V)[i] = U[i]
      BY <3>1, ConcatProperties
    <3>4. (U \o V)[n + 2] = V[1]
      <4>1. n + 2 \in 1 .. Len(U) + Len(V) /\ ~(n + 2 <= Len(U)) /\ (n + 2) - Len(U) = 1
        BY <3>1
      <4>2. (U \o V)[n + 2] = IF n + 2 <= Len(U) THEN U[n + 2] ELSE V[(n + 2) - Len(U)]
        BY <3>1, <4>1, ConcatProperties
      <4> QED BY <4>1, <4>2
    <3>5. 1 \in 1 .. n + 1 /\ 2 .. n + 1 \subseteq 1 .. n + 1
      OBVIOUS
    <3> QED BY <3>1, <3>2, <3>3, <3>4, <3>5
  <2>8. Completed(S, 1, n, p.req)
    <3>1. 1 + n + 1 = n + 2 /\ \A j \in 1 .. n : 1 + j \in 2 .. n + 1
      OBVIOUS
    <3> QED BY <2>2, <2>7, <3>1 DEF Completed
  <2>9. \A i \in 1 .. Len(S) : S[i].type = "Data" => i = 1
    BY <2>2, <2>7
  <2>10. Framed(S)
    BY <2>2, <2>7, <2>8, <2>9 DEF Framed
  <2> QED BY <2>10 DEF S
<1> QED BY <1>1, <1>2
-----------------------------------------------------------------------------
(* What the steps do to the incoming packets *)

(* The link's packets are packets. *)
LEMMA IncomingType ==
  ASSUME IInv
  PROVE  /\ pipe \in Seq(Packets) /\ emit \in Seq(Packets) /\ Incoming \in Seq(Packets)
         /\ outPipe \in Seq(Packets) /\ awaiting \in Seq(Packets)
<1>1. /\ pipe \in Seq(Packets) /\ emit \in Seq(Packets)
      /\ outPipe \in Seq(Packets) /\ awaiting \in Seq(Packets)
  BY IInvType DEF TypeOK
<1> QED BY <1>1, ConcatProperties DEF Incoming

(* A bulk read takes the first of them. *)
LEMMA ReadsIncoming ==
  ASSUME IInv, pipe # <<>>, Reads
  PROVE  /\ Incoming # <<>> /\ Head(Incoming) = Head(pipe)
         /\ Incoming' = Tail(Incoming)
<1>1. pipe \in Seq(Packets) /\ emit \in Seq(Packets)
  BY IncomingType
<1>2. Incoming # <<>> /\ Head(Incoming) = Head(pipe)
  BY <1>1 DEF Incoming
<1>3. Tail(pipe \o emit) = Tail(pipe) \o emit
  BY <1>1
<1> QED BY <1>2, <1>3 DEF Incoming, Reads

(* The device adds whole replies, behind what is there. *)
LEMMA DeviceIncoming ==
  ASSUME IInv, Framed(Incoming), DeviceNext
  PROVE  /\ Framed(Incoming')
         /\ \A n \in Nat, r \in 1 .. MaxRequests :
              Completed(Incoming, 0, n, r) => Completed(Incoming', 0, n, r)
<1>0. pipe \in Seq(Packets) /\ emit \in Seq(Packets) /\ Incoming \in Seq(Packets)
      /\ outPipe \in Seq(Packets) /\ awaiting \in Seq(Packets)
  BY IncomingType
<1>1. CASE DeviceTakes
  <2> DEFINE p == Head(outPipe)
  <2>1. p \in Packets /\ emit = <<>> /\ pipe' = pipe
    BY <1>0, <1>1 DEF DeviceTakes
  <2>2. awaiting # <<>> => Head(awaiting) \in Packets
    BY <1>0
  <2> HIDE DEF p
  <2>3. Framed(emit')
    <3>1. CASE TakesCommand(p)
      <4>1. (\E n \in Nat : emit' = DataReply(p, n)) \/ emit' = <<Response(p)>> \/ emit' = <<>>
        BY <3>1, MaxMoreAssumption DEF TakesCommand
      <4> QED BY <4>1, <2>1, RepliesFramed
    <3>2. CASE TakesData(p)
      <4>1. emit' = emit \/ (awaiting # <<>> /\ emit' = <<Response(Head(awaiting))>>)
        BY <3>2 DEF TakesData
      <4>2. 0 \in Nat
        OBVIOUS
      <4> QED BY <4>1, <4>2, <2>1, <2>2, RepliesFramed
    <3>3. CASE DiscardsData(p)
      <4>1. emit' = <<>> /\ 0 \in Nat
        BY <3>3, <2>1 DEF DiscardsData
      <4> QED BY <4>1, <2>1, RepliesFramed
    <3> QED BY <1>1, <3>1, <3>2, <3>3 DEF DeviceTakes, p
  <2>4. emit' \in Seq(Packets)
    <3>1. LinkIn(Good(issued)) /\ Closed(Good(issued)) /\ Good(issued) \subseteq Packets
      BY GoodClosed DEF IInv, LinkType, SessionType, Good
    <3>2. \A G : Closed(G) /\ LinkIn(G) => emit' \in Seq(G)
      BY <1>1, DeviceInG DEF DeviceNext, LinkIn
    <3> QED BY <3>1, <3>2, SeqMonotone
  <2>5. Incoming = pipe /\ Incoming' = pipe \o emit'
    BY <1>0, <2>1 DEF Incoming
  <2>6. Framed(Incoming')
    BY <1>0, <2>3, <2>4, <2>5, FramedConcat
  <2>7. \A n \in Nat, r \in 1 .. MaxRequests :
          Completed(Incoming, 0, n, r) => Completed(Incoming', 0, n, r)
    BY <1>0, <2>4, <2>5, CompletedConcat
  <2> QED BY <2>6, <2>7
<1>2. CASE DeviceSends
  <2>0. emit # <<>>
    BY <1>2 DEF DeviceSends
  <2>1. Append(pipe, Head(emit)) \o Tail(emit) = pipe \o emit
    BY <1>0, <2>0
  <2>2. Incoming' = Incoming
    BY <1>2, <2>1 DEF DeviceSends, Incoming
  <2> QED BY <2>2
<1> QED BY <1>1, <1>2 DEF DeviceNext

(* Every step keeps the incoming packets framed, and only a read takes     *)
(* anything away.                                                          *)
LEMMA StepFramed ==
  ASSUME DrainOnCancel, IInv, ~wedged, Framed(Incoming), Next
  PROVE  /\ Framed(Incoming') /\ ~wedged'
         /\ \/ pipe # <<>> /\ Reads
            \/ \A n \in Nat, r \in 1 .. MaxRequests :
                 Completed(Incoming, 0, n, r) => Completed(Incoming', 0, n, r)
<1>1. CASE DeviceNext
  BY <1>1, DeviceIncoming DEF DeviceNext, DeviceTakes, DeviceSends
<1>2. CASE pipe # <<>> /\ Reads
  BY <1>2, IncomingType, ReadsIncoming, FramedTail DEF Reads
<1>3. CASE pipe' = pipe /\ emit' = emit /\ wedged' = wedged
  BY <1>3 DEF Incoming
<1> QED
  BY <1>1, <1>2, <1>3
     DEF Next, TaskStep, CallerStep, Begin, Acquire, SendCommand, SendData, SendPayload, Sends,
         ReceiveResponse, SkipStaleReply, ReceiveData, ReceiveMore, ReceiveUnexpected,
         ReceiveTimeout, TransferError, DropArmed, DropWaiting, StreamCancel, ClassCancel,
         DrainRead, DrainGivesUp, SettleHealthy, SettleWedged, CancelFails, DropCancelling,
         linkVars
-----------------------------------------------------------------------------
(* What the steps do to collected data *)

(* IInv is inductive. *)
LEMMA NextKeepsIInv ==
  ASSUME IInv, Next
  PROVE  IInv'
  BY NextKeepsLink, StepKeepsSession DEF IInv, SessionInv

(* The condition on the collected data of a task that is in the middle of  *)
(* a call.                                                                 *)
Collects(l) ==
  /\ l \in Sending => op.data = {} /\ op.more = 0
  /\ l = "receive" => op.more = 0
  /\ l \in Receiving =>
       \/ op.data = {} /\ op.more = 0
       \/ \E r \in 1 .. MaxRequests : op.data = {r} /\ Completed(Incoming, 0, op.more, r)

(* Only the holder's location matters to CollectedInv. *)
LEMMA HolderCollects ==
  ASSUME IInv', \A t \in Tasks : lock' = t => Collects(pc[t])'
  PROVE  CollectedInv'
  BY DEF CollectedInv, Collects, IInv, HolderInv, Armed, Receiving

(* The holder's data, as CollectedInv has it. *)
LEMMA CollectedByHolder ==
  ASSUME CollectedInv, NEW t \in Tasks
  PROVE  Collects(pc[t])
  BY DEF CollectedInv, Collects

(* Taking data from the pipe. *)
LEMMA DataCollected ==
  ASSUME IInv, Framed(Incoming), NEW t \in Tasks, lock = t, Collects(pc[t]), pipe # <<>>, Reads,
         ReceiveData(t) \/ ReceiveMore(t)
  PROVE  Collects(pc[t])'
<1>0. Incoming \in Seq(Packets) /\ Incoming # <<>> /\ Head(Incoming) = Head(pipe)
      /\ Incoming' = Tail(Incoming) /\ Incoming[1] = Head(Incoming)
      /\ Len(Incoming) \in Nat /\ 1 \in 1 .. Len(Incoming)
  BY IncomingType, ReadsIncoming, HeadTailProperties, LenProperties
<1>1. op \in OpType /\ pc \in [Tasks -> Pcs] /\ Head(pipe).req \in 1 .. MaxRequests
      /\ Head(pipe).more \in Nat
  BY HeadGood, HolderFacts DEF IInv, SessionType
<1>2. CASE ReceiveData(t)
  <2>1. pc[t] = "receive" /\ Head(pipe).type = "Data"
        /\ op' = [op EXCEPT !.data = @ \cup {Head(pipe).req}, !.more = Head(pipe).more]
        /\ pc' = [pc EXCEPT ![t] = IF Head(pipe).more > 0 THEN "more" ELSE "receive"]
    BY <1>2 DEF ReceiveData, StartsData, Goto
  <2>2. op.data = {}
    <3>1. ~ \E r \in 1 .. MaxRequests : Completed(Incoming, 0, 0, r)
      BY <1>0, <2>1 DEF Completed
    <3> QED BY <2>1, <3>1 DEF Collects, Receiving
  <2>3. Completed(Incoming, 1, Head(pipe).more, Head(pipe).req)
    BY <1>0, <2>1 DEF Framed
  <2>4. Completed(Incoming', 0, Head(pipe).more, Head(pipe).req)
    <3>1. Completed(Incoming, 0 + 1, Head(pipe).more, Head(pipe).req)
      BY <2>3
    <3> QED BY <1>0, <1>1, <3>1, CompletedTail
  <2>5. op'.data = {Head(pipe).req} /\ op'.more = Head(pipe).more
    BY <1>1, <2>1, <2>2 DEF OpType
  <2>6. pc'[t] = (IF Head(pipe).more > 0 THEN "more" ELSE "receive") /\ pc'[t] \notin Sending
    BY <1>1, <2>1 DEF Sending
  <2>7. pc'[t] = "receive" => op'.more = 0
    BY <1>1, <2>5, <2>6
  <2> QED BY <1>1, <2>4, <2>5, <2>6, <2>7 DEF Collects
<1>3. CASE ReceiveMore(t)
  <2>1. pc[t] = "more" /\ op.more > 0 /\ op.more \in Nat
    BY <1>1, <1>3, HolderFacts DEF ReceiveMore, OpType
  <2>2. PICK r \in 1 .. MaxRequests : op.data = {r} /\ Completed(Incoming, 0, op.more, r)
    BY <2>1 DEF Collects, Receiving
  <2>3. Head(pipe).type = "Raw" /\ Head(pipe).req = r
        /\ Completed(Incoming', 0, op.more - 1, r)
    BY <1>0, <2>1, <2>2, CompletedNext
  <2>4. /\ op' = [op EXCEPT !.data = @ \cup {Head(pipe).req}, !.more = op.more - 1]
        /\ pc' = [pc EXCEPT ![t] = IF op.more - 1 > 0 THEN "more" ELSE "receive"]
    BY <1>3, <2>3 DEF ReceiveMore, Goto
  <2>5. op'.data = {r} /\ op'.more = op.more - 1
    BY <1>1, <2>2, <2>3, <2>4 DEF OpType
  <2>6. pc'[t] = (IF op.more - 1 > 0 THEN "more" ELSE "receive") /\ pc'[t] \notin Sending
    BY <1>1, <2>4 DEF Sending
  <2>7. pc'[t] = "receive" => op'.more = 0
    BY <2>1, <2>5, <2>6
  <2> QED BY <2>3, <2>5, <2>6, <2>7 DEF Collects
<1> QED BY <1>2, <1>3

(* A response that is accepted closes the caller's own data. *)
LEMMA ResponseClosesOwn ==
  ASSUME IInv, NEW t \in Tasks, lock = t, pc[t] = "receive", Collects(pc[t]),
         pipe # <<>>, Accepts(Head(pipe))
  PROVE  op.data \subseteq {op.req}
<1>1. Head(pipe).req = op.req
  BY AcceptedIsOwn DEF Armed, Receiving
<1>2. CASE op.data # {}
  <2>1. PICK r \in 1 .. MaxRequests : op.data = {r} /\ Completed(Incoming, 0, 0, r)
    BY <1>2 DEF Collects, Receiving
  <2>2. Incoming[1] = Head(pipe)
    BY IncomingType DEF Incoming
  <2>3. Head(pipe).req = r
    BY <2>1, <2>2 DEF Completed
  <2> QED BY <1>1, <2>1, <2>3
<1> QED BY <1>2
-----------------------------------------------------------------------------
(* The step *)

(* Where the session sends no CLASS_CANCEL and opens no streams, every     *)
(* step keeps the data invariant.                                          *)
LEMMA NextKeepsData ==
  ASSUME DrainOnCancel, "stream" \notin UsedKinds, IInv, DataInv, Next
  PROVE  DataInv'
<1> USE DEF DataInv
<1>0. IInv'
  BY NextKeepsIInv
<1>1. Framed(Incoming') /\ ~wedged'
  BY StepFramed DEF UncutInv
<1>2. pc \in [Tasks -> Pcs] /\ kind \in [Tasks -> UsedKinds]
      /\ result \in [Tasks -> [req : 0 .. MaxRequests, reply : 0 .. MaxRequests,
                               data : SUBSET (1 .. MaxRequests)]]
  BY DEF IInv, SessionType, UncutInv
<1>3. /\ \A t \in Tasks : pc[t] \in Armed \cup Cancelling <=> lock = t
      /\ \A t \in Tasks : pc'[t] \in Armed \cup Cancelling <=> lock' = t
  BY <1>0 DEF IInv, HolderInv
<1>4. CASE DeviceNext /\ UNCHANGED sessionVars
  <2>1. UNCHANGED <<lock, pc, op, kind, cancel, result>>
    BY <1>4 DEF sessionVars
  <2>2. \A n \in Nat, r \in 1 .. MaxRequests :
          Completed(Incoming, 0, n, r) => Completed(Incoming', 0, n, r)
    BY <1>4, DeviceIncoming
  <2>3. op.more \in Nat
    BY DEF IInv, SessionType
  <2>4. CollectedInv'
    BY <2>1, <2>2, <2>3 DEF CollectedInv
  <2>5. UncutInv' /\ OwnData'
    BY <1>1, <2>1 DEF UncutInv, OwnData
  <2> QED BY <1>1, <2>4, <2>5
<1>5. ASSUME NEW t \in Tasks, TaskStep(t) \/ CallerStep(t)
      PROVE  DataInv'
  <2>1. CASE \/ \E k \in UsedKinds : Begin(t, k)
             \/ DropWaiting(t)
    <3>1. /\ pc[t] \in Resting \cup {"waiting"}
          /\ \E l \in {"idle", "waiting"} : pc' = [pc EXCEPT ![t] = l]
          /\ kind' \in [Tasks -> UsedKinds]
          /\ \A u \in Tasks : u # t => result'[u] = result[u]
          /\ UNCHANGED <<linkVars, lock, op, cancel>>
      BY <1>2, <2>1 DEF Begin, DropWaiting, Goto
    <3>2. \A u \in Tasks : pc'[u] = pc[u] \/ (u = t /\ pc'[u] \in {"idle", "waiting"})
      BY <1>2, <3>1
    <3>3. CollectedInv'
      BY <3>1, <3>2 DEF CollectedInv, Incoming, linkVars, Sending, Receiving
    <3>4. UncutInv'
      BY <1>1, <3>1, <3>2 DEF UncutInv, Armed, Sending, Receiving, Cancelling
    <3>5. OwnData'
      BY <1>2, <3>1, <3>2 DEF OwnData
    <3> QED BY <1>1, <3>3, <3>4, <3>5
  <2>2. CASE lock' = NoTask /\ pc'[t] # "ok" /\ result' = result /\ kind' = kind
             /\ \A u \in Tasks : u # t => pc'[u] = pc[u]
    <3>1. \A u \in Tasks : pc'[u] \notin Armed \cup Cancelling
      BY <1>3, <2>2, SessionAssumption
    <3>2. CollectedInv' /\ UncutInv'
      BY <1>1, <2>2, <3>1 DEF CollectedInv, UncutInv, Armed, Receiving
    <3>3. OwnData'
      BY <2>2 DEF OwnData
    <3> QED BY <1>1, <3>2, <3>3
  <2>3. CASE ReceiveResponse(t)
    <3>1. lock = t /\ pc[t] = "receive" /\ pipe # <<>> /\ Accepts(Head(pipe))
          /\ lock' = NoTask /\ pc' = [pc EXCEPT ![t] = "ok"] /\ kind' = kind
          /\ result' = [result EXCEPT ![t] =
                          [req |-> op.req, reply |-> Head(pipe).req, data |-> op.data]]
      BY <2>3 DEF ReceiveResponse, Release, Goto
    <3>2. \A u \in Tasks : pc'[u] \notin Armed \cup Cancelling
      BY <1>3, <3>1, SessionAssumption
    <3>3. CollectedInv' /\ UncutInv'
      BY <1>1, <1>2, <3>1, <3>2 DEF CollectedInv, UncutInv, Armed, Receiving
    <3>4. op.data \subseteq {op.req}
      BY <3>1, CollectedByHolder, ResponseClosesOwn
    <3>5. OwnData'
      BY <1>2, <3>1, <3>4 DEF OwnData
    <3> QED BY <1>1, <3>3, <3>5
  <2>4. CASE /\ lock' = t /\ result' = result /\ kind' = kind
             /\ \A u \in Tasks : u # t => pc'[u] = pc[u]
             /\ pc'[t] # "ok"
             /\ Collects(pc[t])'
             /\ pc'[t] \in Armed => op'.kind \in UsedKinds
             /\ pc'[t] \in Cancelling => cancel'.for = "recovery"
    <3>1. CollectedInv'
      BY <1>0, <2>4, HolderCollects
    <3>2. \A u \in Tasks : u # t => pc'[u] \notin Armed \cup Cancelling
      BY <1>3, <2>4
    <3>3. UncutInv'
      BY <1>1, <1>2, <2>4, <3>2 DEF UncutInv
    <3>4. OwnData'
      BY <2>4 DEF OwnData
    <3> QED BY <1>1, <3>1, <3>3, <3>4
  <2>5. CASE Acquire(t) \/ SettleHealthy(t)
    <3>1. CASE Arm(t) /\ lock' = t
      <4>1. pc' = [pc EXCEPT ![t] = "send"] /\ op'.data = {} /\ op'.more = 0 /\ op'.kind = kind[t]
        BY <3>1 DEF Arm, Goto
      <4>2. Collects(pc[t])' /\ pc'[t] = "send"
        BY <1>2, <4>1 DEF Collects, Receiving
      <4>3. result' = result /\ kind' = kind
        BY <2>5 DEF Acquire, SettleHealthy
      <4> QED BY <1>2, <2>4, <3>1, <4>1, <4>2, <4>3 DEF Cancelling
    <3>2. CASE Acquire(t) /\ recovery.needed
      <4>1. pc' = [pc EXCEPT ![t] = "cancel"] /\ cancel'.for = "recovery" /\ lock' = t
            /\ result' = result /\ kind' = kind
        BY <3>2 DEF Acquire, Goto
      <4>2. Collects(pc[t])' /\ pc'[t] = "cancel"
        BY <1>2, <4>1 DEF Collects, Receiving, Sending
      <4> QED BY <1>2, <2>4, <4>1, <4>2 DEF Armed, Sending, Receiving
    <3>3. CASE SettleHealthy(t) /\ cancel.for # "recovery"
      BY <1>2, <2>2, <3>3 DEF SettleHealthy, Release, Goto
    <3> QED BY <2>5, <3>1, <3>2, <3>3 DEF Acquire, SettleHealthy
  <2>6. CASE SendCommand(t) \/ SendData(t) \/ SendPayload(t)
    <3>1. pc[t] \in Sending /\ lock = t /\ UNCHANGED <<lock, op, result, kind, cancel>>
          /\ \E l \in (Sending \cup {"receive"}) : pc' = [pc EXCEPT ![t] = l]
      BY <2>6 DEF SendCommand, SendData, SendPayload, Sending, Goto
    <3>2. op.data = {} /\ op.more = 0 /\ op.kind \in UsedKinds
      BY <3>1 DEF CollectedInv, UncutInv, Armed
    <3>3. pc'[t] \in Sending \cup {"receive"}
      BY <1>2, <3>1
    <3>4. Collects(pc[t])'
      BY <3>1, <3>2 DEF Collects
    <3>5. pc'[t] # "ok" /\ pc'[t] \notin Cancelling
      BY <3>3 DEF Sending, Cancelling
    <3> QED BY <1>2, <2>4, <3>1, <3>2, <3>4, <3>5
  <2>7. CASE SkipStaleReply(t)
    <3>1. lock = t /\ pc[t] = "receive" /\ op.data = {} /\ pc' = pc
          /\ op' = [op EXCEPT !.skipped = @ + 1] /\ UNCHANGED <<lock, result, kind, cancel>>
      BY <2>7 DEF SkipStaleReply, SkipsStale
    <3>2. op'.data = {} /\ op'.more = 0 /\ op'.kind = op.kind /\ op.kind \in UsedKinds
      BY <3>1 DEF IInv, SessionType, CollectedInv, UncutInv, Armed, Receiving
    <3>3. Collects(pc[t])'
      BY <3>1, <3>2 DEF Collects
    <3> QED BY <2>4, <3>1, <3>2, <3>3 DEF Cancelling
  <2>8. CASE ReceiveData(t) \/ ReceiveMore(t)
    <3>1. lock = t /\ pc[t] \in Receiving /\ pipe # <<>> /\ Reads
          /\ op'.kind = op.kind
          /\ (\E l \in Receiving : pc' = [pc EXCEPT ![t] = l])
          /\ UNCHANGED <<lock, result, kind, cancel>>
      BY <2>8 DEF ReceiveData, ReceiveMore, Receiving, Goto, IInv, SessionType
    <3>2. Collects(pc[t])'
      BY <2>8, <3>1, CollectedByHolder, DataCollected
    <3>3. op.kind \in UsedKinds
      BY <3>1 DEF UncutInv, Armed
    <3>4. pc'[t] \in Receiving /\ pc'[t] # "ok" /\ pc'[t] \notin Cancelling
      BY <1>2, <3>1 DEF Receiving, Cancelling
    <3> QED BY <1>2, <2>4, <3>1, <3>2, <3>3, <3>4
  <2>9. CASE ClassCancel(t) \/ DrainRead(t) \/ DrainGivesUp(t)
    <3>1. lock = t /\ pc[t] \in Cancelling /\ UNCHANGED <<lock, result, kind, cancel>>
          /\ (\E l \in Cancelling : pc' = [pc EXCEPT ![t] = l])
      BY <2>9 DEF ClassCancel, DrainRead, DrainGivesUp, Goto, Cancelling
    <3>2. pc'[t] \in Cancelling /\ pc'[t] \notin Armed /\ pc'[t] # "ok"
      BY <1>2, <3>1 DEF Cancelling, Armed, Sending, Receiving
    <3>3. Collects(pc[t])'
      BY <3>2 DEF Collects, Armed, Receiving
    <3> QED BY <1>2, <2>4, <3>1, <3>2, <3>3 DEF UncutInv
  <2>10. CASE \/ ReceiveUnexpected(t) \/ ReceiveTimeout(t) \/ TransferError(t) \/ DropArmed(t)
              \/ CancelFails(t)
    BY <1>2, <2>2, <2>10 DEF ReceiveUnexpected, ReceiveTimeout, TransferError, DropArmed,
       CancelFails, Abandon, Release, Goto
  <2>11. CASE SettleWedged(t)
    BY <2>11 DEF SettleWedged, UncutInv
  <2>12. CASE StreamCancel(t)
    BY <2>12 DEF StreamCancel, UncutInv, Armed
  <2>13. CASE DropCancelling(t)
    <3>1. cancel.for = "recovery"
      BY <2>13 DEF DropCancelling, UncutInv
    <3> QED BY <1>2, <2>2, <2>13, <3>1 DEF DropCancelling, Release, Goto
  <2> QED
    BY <1>5, <2>1, <2>3, <2>5, <2>6, <2>7, <2>8, <2>9, <2>10, <2>11, <2>12, <2>13
       DEF TaskStep, CallerStep
<1> QED BY <1>4, <1>5 DEF Next

(* On a device that gets no CLASS_CANCEL (every Android device), and for   *)
(* every operation but streamed downloads, a call that completes returns   *)
(* data of its own transaction only, however drains end and wherever       *)
(* callers leave: data of an earlier transaction is always followed by     *)
(* that transaction's response, which ends the call in an error.           *)
THEOREM DataIsOwn ==
  ASSUME DrainOnCancel, "stream" \notin UsedKinds
  PROVE  Spec => []OwnData
<1>1. Init => DataInv
  <2> SUFFICES ASSUME Init PROVE DataInv
    OBVIOUS
  <2>1. Incoming = <<>>
    BY DEF Init, LinkInit, Incoming
  <2>2. Framed(Incoming)
    BY <2>1 DEF Framed
  <2>3. CollectedInv /\ OwnData /\ UncutInv
    BY DEF Init, LinkInit, CollectedInv, OwnData, UncutInv, Armed, Sending, Receiving, Cancelling
  <2> QED BY <2>2, <2>3 DEF DataInv
<1>2. IInv /\ DataInv /\ [Next]_vars => DataInv'
  <2> SUFFICES ASSUME IInv, DataInv, [Next]_vars PROVE DataInv'
    OBVIOUS
  <2>1. CASE Next
    BY <2>1, NextKeepsData
  <2>2. CASE UNCHANGED vars
    BY <2>2 DEF vars, linkVars, sessionVars, DataInv, UncutInv, CollectedInv, OwnData, Incoming
  <2> QED BY <2>1, <2>2
<1>3. DataInv => OwnData
  BY DEF DataInv
<1> QED BY <1>1, <1>2, <1>3, Invariance, PTL DEF Spec
-----------------------------------------------------------------------------
(* The session implements SerialRpc *)

phaseBar == [t \in Tasks |-> PhaseOf(pc[t])]

(* Where a call stands, for a caller. *)
LEMMA Phases ==
  /\ PhaseOf("idle") = "idle" /\ PhaseOf("waiting") = "waiting"
  /\ PhaseOf("ok") = "answered" /\ PhaseOf("err") = "failed"
  /\ \A l \in Armed \cup Cancelling : PhaseOf(l) = "served"
  /\ \A l \in Resting : PhaseOf(l) \notin {"waiting", "served"}
  BY DEF PhaseOf, Armed, Sending, Receiving, Cancelling, Resting

(* One call moves. *)
LEMMA PhaseMoves ==
  ASSUME IInv, NEW t \in Tasks, NEW l, pc' = [pc EXCEPT ![t] = l]
  PROVE  phaseBar' = [phaseBar EXCEPT ![t] = PhaseOf(l)]
<1>1. pc \in [Tasks -> Pcs]
  BY DEF IInv, SessionType
<1>2. \A u \in Tasks : pc'[u] = IF u = t THEN l ELSE pc[u]
  BY <1>1
<1>3. phaseBar' = [u \in Tasks |-> PhaseOf(pc'[u])]
  BY DEF phaseBar, PhaseOf
<1>4. phaseBar = [u \in Tasks |-> PhaseOf(pc[u])]
  BY DEF phaseBar
<1> QED BY <1>2, <1>3, <1>4

(* Every step of the session is a step of SerialRpc or changes nothing a   *)
(* caller sees, as long as data is returned to its own transaction.        *)
LEMMA StepImplements ==
  ASSUME IInv, OwnData', [Next]_vars
  PROVE  [Rpc!Next]_<<phaseBar, lock, result>>
<1> DEFINE Goal == [Rpc!Next]_<<phaseBar, lock, result>>
<1>1. CASE UNCHANGED sessionVars
  BY <1>1 DEF sessionVars, phaseBar
<1>2. ASSUME NEW t \in Tasks, TaskStep(t) \/ CallerStep(t)
      PROVE  Goal
  <2>0. /\ pc \in [Tasks -> Pcs]
        /\ phaseBar = [u \in Tasks |-> PhaseOf(pc[u])]
        /\ phaseBar[t] = PhaseOf(pc[t])
        /\ pc[t] \in Armed \cup Cancelling <=> lock = t
    BY DEF IInv, HolderInv, SessionType, phaseBar
  <2>1. CASE \E k \in UsedKinds : Begin(t, k)
    <3>1. pc[t] \in Resting /\ pc' = [pc EXCEPT ![t] = "waiting"] /\ lock' = lock
          /\ result' = [result EXCEPT ![t] = NoResult] /\ NoResult = Rpc!NoAnswer
      BY <2>1 DEF Begin, Goto, NoResult, Rpc!NoAnswer
    <3>2. phaseBar' = [phaseBar EXCEPT ![t] = "waiting"]
      <4>1. pc' = [pc EXCEPT ![t] = "waiting"]
        BY <3>1
      <4>2. phaseBar' = [phaseBar EXCEPT ![t] = PhaseOf("waiting")]
        BY <4>1, PhaseMoves
      <4>3. PhaseOf("waiting") = "waiting"
        BY Phases
      <4> QED BY ONLY <4>2, <4>3
    <3>3. phaseBar[t] \notin {"waiting", "served"}
      BY <2>0, <3>1, Phases
    <3>4. Rpc!Call(t)
      BY <3>1, <3>2, <3>3 DEF phaseBar, Rpc!Call
    <3> QED BY <3>4 DEF Rpc!Next
  <2>2. CASE Acquire(t)
    <3>1. pc[t] = "waiting" /\ lock = NoTask /\ lock' = t /\ result' = result
          /\ \E l \in Armed \cup Cancelling : pc' = [pc EXCEPT ![t] = l]
      BY <2>2 DEF Acquire, Arm, Goto, Armed, Sending, Cancelling
    <3>2. phaseBar' = [phaseBar EXCEPT ![t] = "served"]
      <4>1. PICK l \in Armed \cup Cancelling : pc' = [pc EXCEPT ![t] = l]
        BY <3>1
      <4>2. PhaseOf(l) = "served"
        BY Phases
      <4> QED BY <4>1, <4>2, PhaseMoves
    <3>3. Rpc!Serve(t)
      BY <2>0, <3>1, <3>2, Phases DEF phaseBar, Rpc!Serve
    <3> QED BY <3>3 DEF Rpc!Next
  <2>3. CASE \* the holder goes on
             /\ lock = t /\ lock' = t /\ result' = result
             /\ pc' = pc \/ \E l \in Armed \cup Cancelling : pc' = [pc EXCEPT ![t] = l]
    <3>1. phaseBar' = phaseBar
      <4>1. CASE pc' = pc
        BY <4>1 DEF phaseBar
      <4>2. CASE \E l \in Armed \cup Cancelling : pc' = [pc EXCEPT ![t] = l]
        <5>1. phaseBar' = [phaseBar EXCEPT ![t] = "served"]
          <6>1. PICK l \in Armed \cup Cancelling : pc' = [pc EXCEPT ![t] = l]
            BY <4>2
          <6>2. PhaseOf(l) = "served"
            BY Phases
          <6> QED BY <6>1, <6>2, PhaseMoves
        <5>2. phaseBar[t] = "served"
          BY <2>0, <2>3, Phases
        <5> QED BY <2>0, <5>1, <5>2
      <4> QED BY <2>3, <4>1, <4>2
    <3> QED BY <2>3, <3>1
  <2>4. CASE /\ lock = t /\ lock' = NoTask /\ result' = result /\ pc' = [pc EXCEPT ![t] = "err"]
    <3>1. phaseBar' = [phaseBar EXCEPT ![t] = "failed"]
      <4>1. pc' = [pc EXCEPT ![t] = "err"]
        BY <2>4
      <4>2. phaseBar' = [phaseBar EXCEPT ![t] = PhaseOf("err")]
        BY <4>1, PhaseMoves
      <4>3. PhaseOf("err") = "failed"
        BY Phases
      <4> QED BY ONLY <4>2, <4>3
    <3>2. Rpc!Fail(t)
      BY <2>4, <3>1 DEF phaseBar, Rpc!Fail
    <3> QED BY <3>2 DEF Rpc!Next
  <2>5. CASE /\ lock = t /\ lock' = NoTask /\ result' = result /\ pc' = [pc EXCEPT ![t] = "idle"]
    <3>1. phaseBar' = [phaseBar EXCEPT ![t] = "idle"]
      <4>1. pc' = [pc EXCEPT ![t] = "idle"]
        BY <2>5
      <4>2. phaseBar' = [phaseBar EXCEPT ![t] = PhaseOf("idle")]
        BY <4>1, PhaseMoves
      <4>3. PhaseOf("idle") = "idle"
        BY Phases
      <4> QED BY ONLY <4>2, <4>3
    <3>2. phaseBar[t] = "served"
      BY <2>0, <2>5, Phases
    <3>3. Rpc!Withdraw(t)
      BY <2>5, <3>1, <3>2 DEF phaseBar, Rpc!Withdraw
    <3> QED BY <3>3 DEF Rpc!Next
  <2>6. CASE DropWaiting(t)
    <3>1. pc[t] = "waiting" /\ lock' = lock /\ result' = result /\ pc' = [pc EXCEPT ![t] = "idle"]
      BY <2>6 DEF DropWaiting, Goto
    <3>2. phaseBar' = [phaseBar EXCEPT ![t] = "idle"]
      <4>1. pc' = [pc EXCEPT ![t] = "idle"]
        BY <3>1
      <4>2. PhaseOf("idle") = "idle"
        BY Phases
      <4> QED BY <4>1, <4>2, PhaseMoves
    <3>3. phaseBar[t] = "waiting" /\ lock # t
      BY <2>0, <3>1, Phases, Locations
    <3>4. Rpc!Withdraw(t)
      BY <3>1, <3>2, <3>3 DEF phaseBar, Rpc!Withdraw
    <3> QED BY <3>4 DEF Rpc!Next
  <2>7. CASE ReceiveResponse(t)
    <3> DEFINE a == [req |-> op.req, reply |-> Head(pipe).req, data |-> op.data]
    <3>1. lock = t /\ lock' = NoTask /\ pc' = [pc EXCEPT ![t] = "ok"] /\ pc[t] = "receive"
          /\ result' = [result EXCEPT ![t] = a] /\ pipe # <<>> /\ Accepts(Head(pipe))
      BY <2>7 DEF ReceiveResponse, Release, Goto
    <3>2. result'[t] = a /\ pc'[t] = "ok"
      BY <3>1 DEF IInv, SessionType
    <3>3. a.req > 0 /\ a.reply = a.req
      BY <3>1, AcceptedIsOwn, HolderFacts, Bounds DEF OpType, Armed, Receiving
    <3>4. a.data \subseteq {a.req}
      BY <3>2 DEF OwnData
    <3> HIDE DEF a
    <3>5. phaseBar' = [phaseBar EXCEPT ![t] = "answered"]
      <4>1. pc' = [pc EXCEPT ![t] = "ok"]
        BY <3>1
      <4>2. PhaseOf("ok") = "answered"
        BY Phases
      <4> QED BY <4>1, <4>2, PhaseMoves
    <3>6. Rpc!Answer(t)
      BY <3>1, <3>2, <3>3, <3>4, <3>5 DEF phaseBar, Rpc!Answer
    <3> QED BY <3>6 DEF Rpc!Next
  <2>8. CASE \/ SendCommand(t) \/ SendData(t) \/ SendPayload(t) \/ SkipStaleReply(t)
             \/ ReceiveData(t) \/ ReceiveMore(t) \/ StreamCancel(t)
             \/ ClassCancel(t) \/ DrainRead(t) \/ DrainGivesUp(t)
    BY <2>3, <2>8 DEF SendCommand, SendData, SendPayload, SkipStaleReply, ReceiveData,
       ReceiveMore, StreamCancel, ClassCancel, DrainRead, DrainGivesUp, Goto, Armed, Sending,
       Receiving, Cancelling
  <2>9. CASE \/ ReceiveUnexpected(t) \/ ReceiveTimeout(t) \/ TransferError(t) \/ CancelFails(t)
             \/ SettleWedged(t)
    BY <2>4, <2>9 DEF ReceiveUnexpected, ReceiveTimeout, TransferError, CancelFails,
       SettleWedged, Abandon, Release, Goto
  <2>10. CASE DropArmed(t)
    BY <2>5, <2>10 DEF DropArmed, Abandon, Release, Goto
  <2>11. CASE SettleHealthy(t)
    BY <2>3, <2>5, <2>11 DEF SettleHealthy, Arm, Release, Goto, Armed, Sending
  <2>12. CASE DropCancelling(t)
    BY <2>3, <2>5, <2>12 DEF DropCancelling, Release, Goto, Armed, Receiving
  <2> HIDE DEF Goal
  <2> QED
    BY <1>2, <2>1, <2>2, <2>6, <2>7, <2>8, <2>9, <2>10, <2>11, <2>12 DEF TaskStep, CallerStep
<1>3. CASE Next
  BY <1>1, <1>2, <1>3 DEF Next, Goal
<1>4. CASE UNCHANGED vars
  BY <1>1, <1>4 DEF vars
<1> QED BY <1>3, <1>4

(* A session that returns data only to its own transaction implements      *)
(* SerialRpc, in every instance: calls are served one at a time, under the *)
(* operation lock, and each gets its own answer, an error, or is withdrawn *)
(* by its caller, however the pipes, the device and the recovery behave.   *)
THEOREM OwnDataImplements == Spec /\ []OwnData => ImplementsSerialRpc
<1>1. Init => Rpc!Init
  BY Phases DEF Init, Rpc!Init, Rpc!NoAnswer, NoResult
<1>2. IInv /\ OwnData' /\ [Next]_vars => [Rpc!Next]_Rpc!rpcVars
  BY StepImplements DEF Rpc!rpcVars, phaseBar
<1> QED BY <1>1, <1>2, Invariance, PTL DEF Spec, ImplementsSerialRpc, Rpc!Spec

(* On a device that gets no CLASS_CANCEL, and without streamed downloads,  *)
(* the session implements SerialRpc.                                       *)
THEOREM SessionImplementsRpc ==
  ASSUME DrainOnCancel, "stream" \notin UsedKinds
  PROVE  Spec => ImplementsSerialRpc
  BY DataIsOwn, OwnDataImplements, PTL
-----------------------------------------------------------------------------
(* The inductive invariant of a session that heals itself *)

(* The packets of the n-th transaction, one without a data phase out. *)
Own(n) == {p \in Packets : p.req = n /\ p.kind # "send"}

LinkEmpty == outPipe = <<>> /\ pipe = <<>> /\ emit = <<>>

(* A response is the last thing of S. *)
ResponseLast(S) == \A i \in 1 .. Len(S) : S[i].type = "Response" => i = Len(S)

(* Everything in flight is of the transaction issued last: its command, or *)
(* what is left of its reply, never both.                                  *)
OneTransaction ==
  /\ LinkIn(Own(issued))
  /\ awaiting = <<>>
  /\ Len(outPipe) <= 1
  /\ outPipe # <<>> => Incoming = <<>>
  /\ ResponseLast(Incoming)

(* The pipes are empty where the code takes them to be. *)
EmptyWhenDue ==
  /\ lock = NoTask /\ ~recovery.needed => LinkEmpty
  /\ \A t \in Tasks :
       /\ pc[t] = "send" => LinkEmpty
       /\ pc[t] = "settle" => pipe = <<>> /\ (~wedged => LinkEmpty)

(* After DeviceReset was reported: a device that stays silent. *)
DeadLink == gone /\ wedged /\ pipe = <<>>

(* No uploads; and no data but the transaction's own is collected. *)
DownloadsOnly ==
  /\ kind \in [Tasks -> UsedKinds]
  /\ op.kind # "send"
  /\ \A t \in Tasks : pc[t] \notin {"sendData", "sendPayload"}
  /\ op.data \subseteq {op.req}

HealInv ==
  /\ DownloadsOnly
  /\ OwnData
  /\ (OneTransaction /\ EmptyWhenDue) \/ DeadLink
-----------------------------------------------------------------------------
(* What the steps do to the link *)

(* Own(n) does not tell packets of the transaction apart. *)
LEMMA OwnClosed ==
  ASSUME NEW n \in 0 .. MaxRequests
  PROVE  Closed(Own(n)) /\ Own(n) \subseteq Packets
  BY DEF Closed, Own, Packets, Packet, PacketTypes

(* A sequence of packets and nothing else. *)
LEMMA EmptyConcat ==
  ASSUME IInv
  PROVE  /\ Incoming = <<>> <=> pipe = <<>> /\ emit = <<>>
         /\ pipe = <<>> => Incoming = emit
         /\ emit = <<>> => Incoming = pipe
  BY IncomingType, ConcatEqualIffEmpty, ConcatEmptySeq DEF Incoming

(* A reply has its response at the end. *)
LEMMA RepliesEnd ==
  ASSUME NEW p \in Packets, NEW n \in Nat
  PROVE  /\ ResponseLast(<<>>) /\ ResponseLast(<<Response(p)>>)
         /\ ResponseLast(DataReply(p, n))
<1>1. ResponseLast(<<>>) /\ ResponseLast(<<Response(p)>>)
  BY DEF ResponseLast
<1>2. ResponseLast(DataReply(p, n))
  <2> DEFINE d == Packet("Data", p, n)
             w == Packet("Raw", p, 0)
             r == Packet("Response", p, 0)
             mid == [i \in 1 .. n |-> w]
             U == <<d>> \o mid
             V == <<r>>
             S == DataReply(p, n)
  <2>1. d \in Packets /\ w \in Packets /\ r \in Packets
        /\ d.type # "Response" /\ w.type # "Response"
    BY DEF Packets, Packet
  <2>2. S = U \o V
    BY DEF DataReply, Response
  <2>3. mid \in Seq(Packets) /\ Len(mid) = n /\ \A i \in 1 .. n : mid[i] = w
    BY <2>1
  <2>4. <<d>> \in Seq(Packets) /\ Len(<<d>>) = 1 /\ <<d>>[1] = d
        /\ V \in Seq(Packets) /\ Len(V) = 1
    BY <2>1
  <2> HIDE DEF d, w, r, mid, V, S
  <2>5. U \in Seq(Packets) /\ Len(U) = n + 1 /\ \A i \in 1 .. n + 1 : U[i] \in {d, w}
    <3>1. U \in Seq(Packets) /\ Len(U) = 1 + n
          /\ \A i \in 1 .. 1 + n : U[i] = IF i <= 1 THEN <<d>>[i] ELSE mid[i - 1]
      BY <2>3, <2>4, ConcatProperties
    <3>2. \A i \in 1 .. n + 1 : i \in 1 .. 1 + n /\ (i = 1 \/ (~(i <= 1) /\ i - 1 \in 1 .. n))
      OBVIOUS
    <3>3. \A i \in 1 .. n + 1 : U[i] \in {d, w}
      BY <2>3, <2>4, <3>1, <3>2
    <3> QED BY <3>1, <3>3
  <2> HIDE DEF U
  <2>6. Len(U \o V) = n + 2 /\ \A i \in 1 .. n + 1 : (U \o V)[i] = U[i]
    <3>1. Len(U \o V) = n + 2
      <4>1. Len(U \o V) = Len(U) + Len(V)
        BY <2>4, <2>5, ConcatProperties
      <4> QED BY <2>4, <2>5, <4>1
    <3>2. \A i \in 1 .. n + 1 : (U \o V)[i] = U[i]
      BY <2>4, <2>5, ConcatProperties
    <3> QED BY <3>1, <3>2
  <2>7. \A i \in 1 .. n + 2 : i \in 1 .. n + 1 \/ i = n + 2
    OBVIOUS
  <2>8. \A i \in 1 .. n + 1 : (U \o V)[i].type # "Response"
    BY <2>1, <2>5, <2>6
  <2>9. ResponseLast(U \o V)
    BY <2>6, <2>7, <2>8 DEF ResponseLast
  <2> QED BY <2>2, <2>9 DEF S
<1> QED BY <1>1, <1>2

(* The rest of a reply has it too. *)
LEMMA TailEnds ==
  ASSUME NEW S \in Seq(Packets), S # <<>>, ResponseLast(S)
  PROVE  ResponseLast(Tail(S))
<1> DEFINE T == Tail(S)
<1>1. Len(T) = Len(S) - 1 /\ Len(S) \in Nat /\ \A i \in 1 .. Len(T) : T[i] = S[i + 1]
  BY HeadTailProperties, LenProperties
<1> HIDE DEF T
<1>2. \A i \in 1 .. Len(T) : i + 1 \in 1 .. Len(S) /\ (i + 1 = Len(S) => i = Len(T))
  BY <1>1
<1>3. ResponseLast(T)
  BY <1>1, <1>2 DEF ResponseLast
<1> QED BY <1>3 DEF T

(* A reply that the device cuts short has it too. *)
LEMMA CutEnds ==
  ASSUME NEW S \in Seq(Packets), NEW T \in Seq(Packets), T # <<>>, ResponseLast(S \o T),
         NEW p \in Packets
  PROVE  ResponseLast(S) /\ ResponseLast(Append(S, p))
<1>1. Len(S) \in Nat /\ Len(T) \in Nat /\ Len(T) # 0 /\ Len(S \o T) = Len(S) + Len(T)
      /\ \A i \in 1 .. Len(S) : (S \o T)[i] = S[i]
  BY ConcatProperties, LenProperties
<1>2. \A i \in 1 .. Len(S) : i \in 1 .. Len(S \o T) /\ i # Len(S \o T)
  BY <1>1
<1>3. \A i \in 1 .. Len(S) : S[i].type # "Response"
  BY <1>1, <1>2 DEF ResponseLast
<1>4. ResponseLast(S)
  BY <1>3 DEF ResponseLast
<1>5. Len(Append(S, p)) = Len(S) + 1 /\ \A i \in 1 .. Len(S) : Append(S, p)[i] = S[i]
  BY AppendProperties
<1>6. \A i \in 1 .. Len(S) + 1 : i \in 1 .. Len(S) \/ i = Len(S) + 1
  BY <1>1
<1>7. ResponseLast(Append(S, p))
  BY <1>3, <1>5, <1>6 DEF ResponseLast
<1> QED BY <1>4, <1>7

(* A step of the device keeps the link to one transaction. *)
LEMMA DeviceOneTransaction ==
  ASSUME IInv, OneTransaction, DeviceNext, issued' = issued
  PROVE  OneTransaction'
<1>0. PICK n : n = issued
  OBVIOUS
<1>1. n \in 0 .. MaxRequests /\ Closed(Own(n)) /\ Own(n) \subseteq Packets /\ LinkIn(Own(n))
  BY <1>0, OwnClosed DEF IInv, SessionType, OneTransaction
<1>2. LinkIn(Own(n))'
  BY <1>1, DeviceInG
<1>3. LinkIn(Own(issued))'
  BY <1>0, <1>2 DEF LinkIn, Own
<1>4. /\ outPipe \in Seq(Packets) /\ pipe \in Seq(Packets) /\ emit \in Seq(Packets)
      /\ awaiting = <<>>
  BY IncomingType DEF OneTransaction
<1>5. CASE DeviceTakes
  <2> DEFINE p == Head(outPipe)
  <2>1. p \in Own(n) /\ outPipe # <<>> /\ Len(outPipe) = 1
    <3>1. outPipe # <<>> /\ outPipe \in Seq(Own(n)) /\ Len(outPipe) <= 1
      BY <1>1, <1>5 DEF DeviceTakes, LinkIn, OneTransaction
    <3>2. p \in Own(n)
      BY <3>1
    <3>3. Len(outPipe) \in Nat \ {0}
      BY <3>1, EmptySeq
    <3>4. Len(outPipe) = 1
      <4>1. \A m \in Nat \ {0} : m <= 1 => m = 1
        OBVIOUS
      <4> QED BY <3>1, <3>3, <4>1, Zenon
    <3> HIDE DEF p
    <3> QED BY <3>1, <3>2, <3>4
  <2>2. p \in Packets /\ p.kind # "send"
    BY <2>1 DEF Own
  <2>3. Incoming = <<>> /\ pipe = <<>> /\ pipe' = pipe
    BY <1>5, <2>1, EmptyConcat DEF OneTransaction, DeviceTakes
  <2>4. outPipe' = <<>>
    BY <1>4, <1>5, <2>1 DEF DeviceTakes
  <2> HIDE DEF p
  <2>5. awaiting' = <<>> /\ ResponseLast(emit')
    <3>1. CASE TakesCommand(p)
      <4>1. (\E k \in Nat : emit' = DataReply(p, k)) \/ emit' = <<Response(p)>>
        BY <3>1, <2>2, MaxMoreAssumption DEF TakesCommand
      <4>2. awaiting' = <<>>
        BY <3>1, <2>2 DEF TakesCommand
      <4>3. 0 \in Nat
        OBVIOUS
      <4> QED BY <4>1, <4>2, <4>3, <2>2, RepliesEnd
    <3>2. CASE TakesData(p)
      BY <3>2, <1>4 DEF TakesData
    <3>3. CASE DiscardsData(p)
      <4>1. emit' = <<>> /\ awaiting' = <<>> /\ 0 \in Nat
        BY <3>3, <1>4, <1>5 DEF DiscardsData, DeviceTakes
      <4> QED BY <4>1, <2>2, RepliesEnd
    <3> QED BY <1>5, <3>1, <3>2, <3>3 DEF DeviceTakes, p
  <2>6. emit' \in Seq(Packets)
    <3>1. emit' \in Seq(Own(n))
      BY <1>2 DEF LinkIn
    <3> QED BY <3>1, <1>1, SeqMonotone
  <2>7. Incoming' = emit'
    BY <2>3, <2>6, ConcatEmptySeq DEF Incoming
  <2>8. Len(outPipe') <= 1
    BY <2>4
  <2> QED BY <1>3, <2>4, <2>5, <2>7, <2>8 DEF OneTransaction
<1>6. CASE DeviceSends
  <2>0. emit # <<>>
    BY <1>6 DEF DeviceSends
  <2>1. Append(pipe, Head(emit)) \o Tail(emit) = pipe \o emit
    BY <1>4, <2>0
  <2>2. Incoming' = Incoming /\ UNCHANGED <<outPipe, awaiting>>
    BY <1>6, <2>1 DEF DeviceSends, Incoming
  <2> QED BY <1>3, <2>2 DEF OneTransaction
<1> QED BY <1>5, <1>6 DEF DeviceNext

(* So does a device that acts on CLASS_CANCEL. *)
LEMMA AbortOneTransaction ==
  ASSUME IInv, OneTransaction, DeviceAborts, issued' = issued
  PROVE  OneTransaction'
<1>0. PICK n : n = issued
  OBVIOUS
<1>1. n \in 0 .. MaxRequests /\ Closed(Own(n)) /\ LinkIn(Own(n))
  BY <1>0, OwnClosed DEF IInv, SessionType, OneTransaction
<1>2. LinkIn(Own(n))'
  BY <1>1, AbortInG
<1>3. LinkIn(Own(issued))'
  BY <1>0, <1>2 DEF LinkIn, Own
<1>4. /\ outPipe \in Seq(Packets) /\ pipe \in Seq(Packets) /\ emit \in Seq(Packets)
      /\ awaiting = <<>>
  BY IncomingType DEF OneTransaction
<1>5. UNCHANGED <<outPipe, pipe, awaiting>>
  BY <1>4 DEF DeviceAborts
<1>6. CASE emit # <<>> /\ emit' \in {<<>>, <<Last(emit)>>}
  <2>1. Last(emit) \in Packets
    BY <1>4, <1>6 DEF Last
  <2>2. ResponseLast(pipe) /\ ResponseLast(Append(pipe, Last(emit)))
    BY <1>4, <1>6, <2>1, CutEnds DEF OneTransaction, Incoming
  <2>3. pipe \o <<>> = pipe /\ pipe \o <<Last(emit)>> = Append(pipe, Last(emit))
    BY <1>4, <2>1, ConcatEmptySeq, AppendIsConcat
  <2>4. Incoming' \in {pipe, Append(pipe, Last(emit))}
    BY <1>5, <1>6, <2>3 DEF Incoming
  <2>5. outPipe = <<>>
    BY <1>6, EmptyConcat DEF OneTransaction
  <2> QED BY <1>3, <1>5, <2>2, <2>4, <2>5 DEF OneTransaction
<1>7. CASE emit' = emit
  BY <1>3, <1>5, <1>7 DEF OneTransaction, Incoming
<1> QED BY <1>4, <1>6, <1>7 DEF DeviceAborts

(* So does a bulk read; one that returns the response empties the link. *)
LEMMA ReadOneTransaction ==
  ASSUME IInv, OneTransaction, pipe # <<>>, Reads, issued' = issued
  PROVE  /\ OneTransaction'
         /\ Head(pipe).type = "Response" => LinkEmpty'
<1>1. Incoming \in Seq(Packets) /\ Incoming # <<>> /\ Head(Incoming) = Head(pipe)
      /\ Incoming' = Tail(Incoming) /\ pipe \in Seq(Packets) /\ emit \in Seq(Packets)
  BY IncomingType, ReadsIncoming
<1>2. outPipe = <<>> /\ outPipe' = <<>> /\ emit' = emit /\ awaiting' = awaiting
  BY <1>1 DEF OneTransaction, Reads
<1>3. LinkIn(Own(issued))'
  <2>0. PICK n : n = issued
    OBVIOUS
  <2>1. Tail(pipe) \in Seq(Own(n)) /\ outPipe \in Seq(Own(n)) /\ emit \in Seq(Own(n))
        /\ awaiting \in Seq(Own(n))
    BY <2>0 DEF OneTransaction, LinkIn
  <2> QED BY <2>0, <2>1, <1>2 DEF LinkIn, Reads, Own
<1>4. ResponseLast(Incoming')
  BY <1>1, TailEnds DEF OneTransaction
<1>5. Len(outPipe') <= 1
  BY <1>2
<1>6. OneTransaction'
  BY <1>2, <1>3, <1>4, <1>5 DEF OneTransaction
<1>7. ASSUME Head(pipe).type = "Response" PROVE LinkEmpty'
  <2>1. Incoming[1] = Head(Incoming) /\ Len(Incoming) \in Nat /\ 1 \in 1 .. Len(Incoming)
    BY <1>1
  <2>2. Len(Incoming) = 1
    BY <1>1, <1>7, <2>1 DEF OneTransaction, ResponseLast
  <2>3. Incoming' = <<>>
    BY <1>1, <2>2
  <2>4. pipe' \in Seq(Packets) /\ emit' \in Seq(Packets)
    BY <1>1, <1>2 DEF Reads
  <2>5. pipe' = <<>> /\ emit' = <<>>
    BY <2>3, <2>4, ConcatEqualIffEmpty DEF Incoming
  <2> QED BY <1>2, <2>5 DEF LinkEmpty
<1> QED BY <1>6, <1>7

(* Leaving the link alone. *)
LEMMA StillOneTransaction ==
  ASSUME OneTransaction, UNCHANGED linkVars, issued' = issued
  PROVE  OneTransaction'
  BY DEF OneTransaction, LinkIn, Own, linkVars, Incoming, ResponseLast
-----------------------------------------------------------------------------
(* The step *)

(* An empty link is all that is ever due. *)
LEMMA EmptyIsClean ==
  ASSUME LinkEmpty', awaiting' = <<>>
  PROVE  OneTransaction' /\ EmptyWhenDue'
<1>1. LinkIn(Own(issued))'
  BY DEF LinkEmpty, LinkIn
<1>2. Incoming' = <<>> /\ Len(outPipe') <= 1
  BY DEF LinkEmpty, Incoming
<1>3. ResponseLast(Incoming')
  BY <1>2 DEF ResponseLast
<1>4. OneTransaction'
  BY <1>1, <1>2, <1>3 DEF OneTransaction
<1>5. EmptyWhenDue'
  BY DEF EmptyWhenDue, LinkEmpty
<1> QED BY <1>4, <1>5

(* Nothing is due while the holder works, or once a flag is left. *)
LEMMA NothingDue ==
  ASSUME IInv', lock' # NoTask \/ recovery'.needed,
         \A t \in Tasks : lock' = t => pc'[t] \notin {"send", "settle"}
  PROVE  EmptyWhenDue'
<1>1. \A t \in Tasks : pc'[t] \notin {"send", "settle"}
  BY DEF IInv, HolderInv, Armed, Sending, Cancelling
<1> QED BY <1>1 DEF EmptyWhenDue

(* A link that is not dead is kept clean, until a reset fails. *)
LEMMA CleanStep ==
  ASSUME ThoroughDrain, ~DropsInRecovery,
         IInv, DownloadsOnly, OneTransaction, EmptyWhenDue, Next
  PROVE  (OneTransaction' /\ EmptyWhenDue') \/ DeadLink'
<1>0. IInv' /\ pc \in [Tasks -> Pcs] /\ awaiting = <<>> /\ lock \in Tasks \cup {NoTask}
      /\ (lock # NoTask => ~recovery.needed)
      /\ issued \in 0 .. MaxRequests
  BY NextKeepsIInv DEF IInv, IdInv, SessionType, OneTransaction
<1>1. CASE DeviceNext /\ UNCHANGED sessionVars
  <2>1. OneTransaction' /\ ~LinkEmpty /\ ~wedged
    BY <1>1, DeviceOneTransaction DEF sessionVars, LinkEmpty, DeviceNext, DeviceTakes, DeviceSends
  <2>2. ~(lock = NoTask /\ ~recovery.needed) /\ \A t \in Tasks : pc[t] \notin {"send", "settle"}
    BY <2>1 DEF EmptyWhenDue
  <2>3. EmptyWhenDue'
    BY <1>1, <2>2 DEF EmptyWhenDue, sessionVars
  <2> QED BY <2>1, <2>3
<1>2. ASSUME NEW t \in Tasks, TaskStep(t) \/ CallerStep(t)
      PROVE  (OneTransaction' /\ EmptyWhenDue') \/ DeadLink'
  <2>0. NoTask # t
    BY SessionAssumption
  <2>1. CASE (\E k \in UsedKinds : Begin(t, k)) \/ DropWaiting(t)
    <3>1. UNCHANGED <<linkVars, lock, recovery, issued>>
          /\ \E l \in {"idle", "waiting"} : pc' = [pc EXCEPT ![t] = l]
      BY <2>1 DEF Begin, DropWaiting, Goto
    <3>2. \A u \in Tasks : pc'[u] = pc[u] \/ pc'[u] \in {"idle", "waiting"}
      BY <1>0, <3>1
    <3>3. EmptyWhenDue'
      BY <3>1, <3>2 DEF EmptyWhenDue, LinkEmpty, linkVars
    <3> QED BY <3>1, <3>3, StillOneTransaction
  <2>2. CASE \* the link was empty and is left alone
             LinkEmpty /\ UNCHANGED linkVars
    BY <1>0, <2>2, EmptyIsClean DEF LinkEmpty, linkVars
  <2>3. CASE \* the holder goes on
             /\ lock' = t /\ issued' = issued
             /\ \E l \in (Armed \cup Cancelling) \ {"send", "settle"} : pc' = [pc EXCEPT ![t] = l]
             /\ \/ UNCHANGED linkVars
                \/ pipe # <<>> /\ Reads
                \/ DeviceAborts
    <3>1. OneTransaction'
      BY <2>3, StillOneTransaction, ReadOneTransaction, AbortOneTransaction
    <3>2. pc'[t] \notin {"send", "settle"}
      BY <1>0, <2>3
    <3>3. EmptyWhenDue'
      BY <1>0, <2>0, <2>3, <3>2, NothingDue
    <3> QED BY <3>1, <3>3
  <2>4. CASE \* the holder leaves a flag
             /\ lock' = NoTask /\ recovery'.needed /\ issued' = issued
             /\ \/ UNCHANGED linkVars
                \/ pipe # <<>> /\ Reads
    <3>1. OneTransaction'
      BY <2>4, StillOneTransaction, ReadOneTransaction
    <3>2. EmptyWhenDue'
      BY <1>0, <2>4, SessionAssumption, NothingDue
    <3> QED BY <3>1, <3>2
  <2>5. CASE Acquire(t)
    <3>1. CASE recovery.needed
      <4>1. lock' = t /\ issued' = issued /\ UNCHANGED linkVars
            /\ pc' = [pc EXCEPT ![t] = "cancel"]
        BY <2>5, <3>1 DEF Acquire, Goto
      <4>2. "cancel" \in (Armed \cup Cancelling) \ {"send", "settle"}
        BY DEF Cancelling
      <4> QED BY <2>3, <4>1, <4>2
    <3>2. CASE ~recovery.needed
      BY <2>2, <2>5, <3>2 DEF Acquire, EmptyWhenDue
    <3> QED BY <3>1, <3>2
  <2>6. CASE SendCommand(t)
    <3> DEFINE p == Packet("Command", op, 0)
    <3>1. lock = t /\ pc[t] = "send" /\ LinkEmpty /\ op.kind # "send"
          /\ Sends(p) /\ pc' = [pc EXCEPT ![t] = "receive"]
          /\ UNCHANGED <<lock, issued>>
      BY <2>6 DEF SendCommand, EmptyWhenDue, DownloadsOnly, Armed, Sending, Goto
    <3>2. p \in Own(issued)
      <4>1. p \in Good(issued)
        BY <3>1, OwnPacketGood DEF Armed, Sending, PacketTypes
      <4>2. p.req = issued /\ p.kind # "send"
        BY <3>1, HolderFacts DEF Packet, Armed, Sending
      <4> QED BY <4>1, <4>2 DEF Good, Own
    <3> HIDE DEF p
    <3>3. outPipe' = <<p>> /\ pipe' = <<>> /\ emit' = <<>> /\ awaiting' = <<>>
      BY <1>0, <3>1 DEF Sends, LinkEmpty
    <3>4. LinkIn(Own(issued))'
      <4>0. PICK G : G = Own(issued)
        OBVIOUS
      <4>1. <<p>> \in Seq(G) /\ <<>> \in Seq(G)
        BY <3>2, <4>0, ShortSeqs
      <4>2. Own(issued)' = G
        BY <3>1, <4>0 DEF Own
      <4> QED BY <3>3, <4>1, <4>2 DEF LinkIn
    <3>5. Incoming' = <<>> /\ Len(outPipe') <= 1
      BY <3>3 DEF Incoming
    <3>6. ResponseLast(Incoming')
      BY <3>5 DEF ResponseLast
    <3>7. OneTransaction'
      BY <3>3, <3>4, <3>5, <3>6 DEF OneTransaction
    <3>8. pc'[t] = "receive" /\ lock' = t
      BY <1>0, <3>1
    <3>9. EmptyWhenDue'
      BY <1>0, <2>0, <3>8, NothingDue
    <3> QED BY <3>7, <3>9
  <2>7. CASE SendData(t) \/ SendPayload(t)
    BY <2>7 DEF SendData, SendPayload, DownloadsOnly
  <2>8. CASE ReceiveResponse(t)
    <3>1. LinkEmpty'
      BY <2>8, ReadOneTransaction DEF ReceiveResponse, Accepts
    <3>2. awaiting' = <<>>
      BY <1>0, <2>8 DEF ReceiveResponse, Reads
    <3> QED BY <3>1, <3>2, EmptyIsClean
  <2>9. CASE SkipStaleReply(t) \/ ReceiveData(t) \/ ReceiveMore(t)
    <3>1. lock' = t /\ issued' = issued /\ pipe # <<>> /\ Reads
      BY <2>9 DEF SkipStaleReply, ReceiveData, ReceiveMore
    <3>2. \E l \in Receiving : pc' = [pc EXCEPT ![t] = l]
      <4>1. CASE SkipStaleReply(t)
        <5>1. pc' = pc /\ pc[t] = "receive" /\ pc = [pc EXCEPT ![t] = "receive"]
          BY <1>0, <4>1 DEF SkipStaleReply
        <5> QED BY <5>1 DEF Receiving
      <4>2. CASE ReceiveData(t) \/ ReceiveMore(t)
        BY <4>2 DEF ReceiveData, ReceiveMore, Goto, Receiving
      <4> QED BY <2>9, <4>1, <4>2
    <3>3. Receiving \subseteq (Armed \cup Cancelling) \ {"send", "settle"}
      BY DEF Receiving, Armed
    <3> QED BY <2>3, <3>1, <3>2, <3>3
  <2>10. CASE \/ ReceiveUnexpected(t) \/ ReceiveTimeout(t) \/ TransferError(t) \/ DropArmed(t)
              \/ CancelFails(t)
    BY <2>4, <2>10 DEF ReceiveUnexpected, ReceiveTimeout, TransferError, DropArmed,
       CancelFails, Abandon, Release, Flagged
  <2>11. CASE StreamCancel(t) \/ ClassCancel(t)
    <3>1. "cancel" \in (Armed \cup Cancelling) \ {"send", "settle"}
          /\ "drain" \in (Armed \cup Cancelling) \ {"send", "settle"}
      BY DEF Cancelling
    <3>2. lock' = t /\ issued' = issued /\ (UNCHANGED linkVars \/ DeviceAborts)
          /\ \E l \in {"cancel", "drain"} : pc' = [pc EXCEPT ![t] = l]
      BY <2>11 DEF StreamCancel, ClassCancel, Goto
    <3> QED BY <2>3, <3>1, <3>2
  <2>12. CASE DrainRead(t)
    <3>1. CASE Head(pipe).type = "Response"
      <4>1. LinkEmpty'
        BY <2>12, <3>1, ReadOneTransaction DEF DrainRead
      <4>2. awaiting' = <<>>
        BY <1>0, <2>12 DEF DrainRead, Reads
      <4> QED BY <4>1, <4>2, EmptyIsClean
    <3>2. CASE Head(pipe).type # "Response"
      <4>1. lock' = t /\ issued' = issued /\ pipe # <<>> /\ Reads
            /\ pc' = [pc EXCEPT ![t] = "drain"]
        BY <2>12, <3>2 DEF DrainRead, Goto
      <4>2. "drain" \in (Armed \cup Cancelling) \ {"send", "settle"}
        BY DEF Cancelling
      <4> QED BY <2>3, <4>1, <4>2
    <3> QED BY <3>1, <3>2
  <2>13. CASE DrainGivesUp(t)
    <3>1. /\ pipe = <<>> /\ (wedged \/ (emit = <<>> /\ outPipe = <<>>))
          /\ lock' = t /\ issued' = issued /\ UNCHANGED linkVars
      BY <2>13 DEF DrainGivesUp, DeviceQuiet
    <3>2. OneTransaction'
      BY <3>1, StillOneTransaction
    <3>3. \A u \in Tasks : pc'[u] # "send"
      <4>1. pc' = [pc EXCEPT ![t] = "settle"] /\ lock = t
        BY <2>13 DEF DrainGivesUp, Goto
      <4>2. \A u \in Tasks : pc[u] \in Armed => u = t
        BY <4>1 DEF IInv, HolderInv
      <4> QED BY <1>0, <4>1, <4>2 DEF Armed, Sending
    <3>4. EmptyWhenDue'
      BY <2>0, <3>1, <3>3 DEF EmptyWhenDue, LinkEmpty, linkVars
    <3> QED BY <3>2, <3>4
  <2>14. CASE SettleHealthy(t)
    BY <2>2, <2>14 DEF SettleHealthy, EmptyWhenDue
  <2>15. CASE SettleWedged(t)
    <3>1. CASE DeviceResets
      <4>1. LinkEmpty' /\ awaiting' = <<>>
        BY <3>1 DEF DeviceResets, LinkEmpty
      <4> QED BY <4>1, EmptyIsClean
    <3>2. CASE UNCHANGED linkVars
      BY <2>15, <3>2 DEF SettleWedged, EmptyWhenDue, DeadLink, linkVars
    <3> QED BY <2>15, <3>1, <3>2 DEF SettleWedged
  <2>16. CASE DropCancelling(t)
    <3>1. lock' = t /\ issued' = issued /\ UNCHANGED linkVars
          /\ \E l \in Receiving : pc' = [pc EXCEPT ![t] = l]
      BY <2>16 DEF DropCancelling, Goto, Receiving
    <3>2. Receiving \subseteq (Armed \cup Cancelling) \ {"send", "settle"}
      BY DEF Receiving, Armed
    <3> QED BY <2>3, <3>1, <3>2
  <2> QED
    BY <1>2, <2>1, <2>5, <2>6, <2>7, <2>8, <2>9, <2>10, <2>11, <2>12, <2>13, <2>14, <2>15,
       <2>16 DEF TaskStep, CallerStep
<1> QED BY <1>1, <1>2 DEF Next

(* A dead link stays dead until the device obeys a reset. *)
LEMMA DeadStep ==
  ASSUME IInv, DeadLink, Next
  PROVE  (OneTransaction' /\ EmptyWhenDue') \/ DeadLink'
<1>1. CASE DeviceResets
  <2>1. LinkEmpty' /\ awaiting' = <<>>
    BY <1>1 DEF DeviceResets, LinkEmpty
  <2> QED BY <2>1, EmptyIsClean
<1>2. CASE pipe' = pipe /\ wedged' = wedged /\ gone'
  BY <1>2 DEF DeadLink
<1> QED
  BY <1>1, <1>2
     DEF DeadLink, Next, DeviceNext, DeviceTakes, DeviceSends, DeviceAborts, sessionVars,
         TaskStep, CallerStep, Begin, Acquire,
         SendCommand, SendData, SendPayload, Sends, ReceiveResponse, SkipStaleReply, ReceiveData,
         ReceiveMore, ReceiveUnexpected, ReceiveTimeout, TransferError, DropArmed, DropWaiting,
         StreamCancel, ClassCancel, DrainRead, DrainGivesUp, SettleHealthy, SettleWedged,
         CancelFails, DropCancelling, linkVars

(* Every step keeps to downloads, and collects its own data only. *)
LEMMA DownloadsStep ==
  ASSUME "send" \notin UsedKinds, IInv, DownloadsOnly, OwnData,
         OneTransaction \/ pipe = <<>>, Next
  PROVE  DownloadsOnly' /\ OwnData'
<1>0. /\ pc \in [Tasks -> Pcs] /\ kind \in [Tasks -> UsedKinds]
      /\ op \in OpType /\ op.data \subseteq {op.req}
      /\ result \in [Tasks -> [req : 0 .. MaxRequests, reply : 0 .. MaxRequests,
                               data : SUBSET (1 .. MaxRequests)]]
      /\ \A u \in Tasks : pc[u] \in Armed \cup Cancelling <=> lock = u
  BY DEF IInv, SessionType, HolderInv, DownloadsOnly, OpType
<1>1. CASE DeviceNext /\ UNCHANGED sessionVars
  BY <1>1 DEF sessionVars, DownloadsOnly, OwnData
<1>2. ASSUME NEW t \in Tasks, TaskStep(t) \/ CallerStep(t)
      PROVE  DownloadsOnly' /\ OwnData'
  <2>1. CASE (\E k \in UsedKinds : Begin(t, k)) \/ DropWaiting(t)
    <3>1. /\ \E l \in {"idle", "waiting"} : pc' = [pc EXCEPT ![t] = l]
          /\ kind' \in [Tasks -> UsedKinds]
          /\ \A u \in Tasks : u # t => result'[u] = result[u]
          /\ op' = op
      BY <1>0, <2>1 DEF Begin, DropWaiting, Goto
    <3>2. \A u \in Tasks : pc'[u] = pc[u] \/ (u = t /\ pc'[u] \in {"idle", "waiting"})
      BY <1>0, <3>1
    <3>3. DownloadsOnly'
      BY <1>0, <3>1, <3>2 DEF DownloadsOnly, Armed, Sending, Receiving
    <3>4. OwnData'
      BY <1>0, <3>1, <3>2 DEF OwnData
    <3> QED BY <3>3, <3>4
  <2>2. CASE \* the holder gives the lock back
             \E l \in Resting, rec \in {recovery, Flagged(op.tx), Flagged(cancel.tx)} :
               /\ lock = t /\ kind' = kind /\ Release(t, l, rec)
               /\ \/ result' = result /\ l # "ok"
                  \/ ReceiveResponse(t)
    <3>1. PICK l \in Resting :
            /\ pc' = [pc EXCEPT ![t] = l] /\ op' = NoOp /\ lock = t /\ kind' = kind
            /\ (result' = result /\ l # "ok") \/ ReceiveResponse(t)
      BY <2>2 DEF Release, Goto
    <3>2. \A u \in Tasks : pc'[u] \notin {"sendData", "sendPayload"}
      BY <1>0, <3>1 DEF DownloadsOnly, Resting
    <3>3. DownloadsOnly'
      BY <1>0, <3>1, <3>2 DEF DownloadsOnly, NoOp
    <3>4. OwnData'
      <4>1. CASE result' = result /\ l # "ok"
        BY <1>0, <3>1, <4>1 DEF OwnData
      <4>2. CASE ReceiveResponse(t)
        <5>1. result' = [result EXCEPT ![t] =
                          [req |-> op.req, reply |-> Head(pipe).req, data |-> op.data]]
          BY <4>2 DEF ReceiveResponse
        <5>2. result'[t].data \subseteq {result'[t].req}
          BY <1>0, <5>1
        <5>3. \A u \in Tasks : u # t => result'[u] = result[u] /\ pc'[u] = pc[u]
          BY <1>0, <3>1, <5>1
        <5> QED BY <5>2, <5>3 DEF OwnData
      <4> QED BY <3>1, <4>1, <4>2
    <3> QED BY <3>3, <3>4
  <2>3. CASE \* the holder goes on with its transaction
             /\ lock = t /\ kind' = kind /\ result' = result
             /\ op'.kind = op.kind /\ op'.data \subseteq {op'.req}
             /\ \E l \in {"receive", "more"} \cup Cancelling : pc' = [pc EXCEPT ![t] = l]
    <3>1. \A u \in Tasks : pc'[u] = pc[u] \/ pc'[u] \in {"receive", "more"} \cup Cancelling
      BY <1>0, <2>3
    <3>2. \A l \in {"receive", "more"} \cup Cancelling :
            l # "ok" /\ l \notin {"sendData", "sendPayload"}
      BY DEF Cancelling
    <3>3. DownloadsOnly'
      BY <1>0, <2>3, <3>1, <3>2 DEF DownloadsOnly
    <3>4. OwnData'
      BY <2>3, <3>1, <3>2 DEF OwnData
    <3> QED BY <3>3, <3>4
  <2>4. CASE \* a transaction is started
             Arm(t) /\ kind' = kind /\ result' = result
    <3>1. pc' = [pc EXCEPT ![t] = "send"] /\ op'.kind = kind[t] /\ op'.data = {}
      BY <2>4 DEF Arm, Goto
    <3>2. kind[t] # "send"
      BY <1>0
    <3>3. \A u \in Tasks : pc'[u] = pc[u] \/ pc'[u] = "send"
      BY <1>0, <3>1
    <3>4. DownloadsOnly'
      BY <1>0, <2>4, <3>1, <3>2, <3>3 DEF DownloadsOnly
    <3>5. OwnData'
      BY <2>4, <3>3 DEF OwnData
    <3> QED BY <3>4, <3>5
  <2>5. CASE Acquire(t)
    <3>1. CASE recovery.needed
      <4>1. pc' = [pc EXCEPT ![t] = "cancel"] /\ op' = op /\ kind' = kind /\ result' = result
        BY <2>5, <3>1 DEF Acquire, Goto
      <4>2. \A u \in Tasks : pc'[u] = pc[u] \/ pc'[u] = "cancel"
        BY <1>0, <4>1
      <4>3. DownloadsOnly'
        BY <1>0, <4>1, <4>2 DEF DownloadsOnly, Armed, Sending, Receiving
      <4> QED BY <4>1, <4>2, <4>3 DEF OwnData
    <3>2. CASE ~recovery.needed
      BY <2>4, <2>5, <3>2 DEF Acquire
    <3> QED BY <3>1, <3>2
  <2>6. CASE SendCommand(t)
    <3>1. lock = t /\ op.kind # "send" /\ pc' = [pc EXCEPT ![t] = "receive"]
          /\ UNCHANGED <<kind, result, op>>
      BY <2>6 DEF SendCommand, DownloadsOnly, Armed, Sending, Goto
    <3> QED BY <1>0, <2>3, <3>1
  <2>7. CASE SendData(t) \/ SendPayload(t)
    BY <2>7 DEF SendData, SendPayload, DownloadsOnly
  <2>8. CASE SkipStaleReply(t) \/ ReceiveData(t) \/ ReceiveMore(t)
    <3>1. lock = t /\ pc[t] \in {"receive", "more"} /\ pipe # <<>> /\ UNCHANGED <<kind, result>>
      BY <2>8 DEF SkipStaleReply, ReceiveData, ReceiveMore
    <3>2. Head(pipe).req = op.req /\ op.kind # "send"
      <4>1. pipe \in Seq(Own(issued))
        BY <3>1 DEF OneTransaction, LinkIn
      <4>2. Head(pipe) \in Own(issued)
        BY <3>1, <4>1
      <4>3. op.req = issued /\ op.kind # "send"
        BY <3>1, HolderFacts DEF DownloadsOnly, Armed, Receiving
      <4> QED BY <4>2, <4>3 DEF Own
    <3>3. op'.kind = op.kind /\ op'.req = op.req /\ op'.data \subseteq op.data \cup {Head(pipe).req}
      BY <1>0, <2>8 DEF SkipStaleReply, ReceiveData, ReceiveMore, OpType
    <3>4. \E l \in {"receive", "more"} : pc' = [pc EXCEPT ![t] = l]
      <4>1. CASE SkipStaleReply(t)
        <5>1. pc' = pc /\ pc = [pc EXCEPT ![t] = "receive"]
          BY <1>0, <4>1 DEF SkipStaleReply
        <5> QED BY <5>1
      <4>2. CASE ReceiveData(t) \/ ReceiveMore(t)
        BY <4>2 DEF ReceiveData, ReceiveMore, Goto
      <4> QED BY <2>8, <4>1, <4>2
    <3> QED BY <1>0, <2>3, <3>1, <3>2, <3>3, <3>4
  <2>9. CASE StreamCancel(t) \/ ClassCancel(t) \/ DrainRead(t) \/ DrainGivesUp(t)
    <3>1. lock = t /\ UNCHANGED <<kind, result, op>>
          /\ \E l \in Cancelling : pc' = [pc EXCEPT ![t] = l]
      BY <2>9 DEF StreamCancel, ClassCancel, DrainRead, DrainGivesUp, Goto, Cancelling
    <3>2. pc'[t] \notin {"receive", "more"}
      BY <1>0, <3>1 DEF Cancelling
    <3> QED BY <1>0, <2>3, <3>1, <3>2
  <2>10. CASE ReceiveResponse(t)
    BY <2>2, <2>10 DEF ReceiveResponse, Resting
  <2>11. CASE \/ ReceiveUnexpected(t) \/ ReceiveTimeout(t) \/ TransferError(t) \/ DropArmed(t)
              \/ CancelFails(t)
    BY <2>2, <2>11 DEF ReceiveUnexpected, ReceiveTimeout, TransferError, DropArmed, CancelFails,
       Abandon, Resting
  <2>12. CASE SettleHealthy(t)
    BY <2>2, <2>4, <2>12 DEF SettleHealthy, Resting
  <2>13. CASE SettleWedged(t)
    BY <2>2, <2>13 DEF SettleWedged, Resting
  <2>14. CASE DropCancelling(t)
    <3>1. CASE cancel.for = "stream"
      <4>1. lock = t /\ UNCHANGED <<kind, result, op>> /\ pc[t] \in Cancelling
            /\ \E l \in {"receive", "more"} : pc' = [pc EXCEPT ![t] = l]
        BY <2>14, <3>1 DEF DropCancelling, Goto
      <4> QED BY <1>0, <2>3, <4>1
    <3>2. CASE cancel.for # "stream"
      BY <2>2, <2>14, <3>2 DEF DropCancelling, Resting
    <3> QED BY <3>1, <3>2
  <2> QED
    BY <1>2, <2>1, <2>5, <2>6, <2>7, <2>8, <2>9, <2>10, <2>11, <2>12, <2>13, <2>14
       DEF TaskStep, CallerStep
<1> QED BY <1>1, <1>2 DEF Next
-----------------------------------------------------------------------------
(* What follows *)

(* The healing invariant holds in every reachable state. *)
LEMMA HealingInvariance ==
  ASSUME ThoroughDrain, ~DropsInRecovery, "send" \notin UsedKinds
  PROVE  Spec => [](IInv /\ HealInv)
<1>1. Init => HealInv
  <2> SUFFICES ASSUME Init PROVE HealInv
    OBVIOUS
  <2>1. DownloadsOnly /\ OwnData
    BY DEF Init, DownloadsOnly, OwnData, NoOp
  <2>2. LinkEmpty /\ awaiting = <<>>
    BY DEF Init, LinkInit, LinkEmpty
  <2>3. LinkIn(Own(issued))
    BY <2>2 DEF LinkEmpty, LinkIn
  <2>4. Incoming = <<>> /\ Len(outPipe) <= 1
    BY <2>2 DEF LinkEmpty, Incoming
  <2>5. OneTransaction
    BY <2>2, <2>3, <2>4 DEF OneTransaction, ResponseLast
  <2>6. EmptyWhenDue
    BY <2>2 DEF EmptyWhenDue, LinkEmpty
  <2> QED BY <2>1, <2>5, <2>6 DEF HealInv
<1>2. IInv /\ HealInv /\ [Next]_vars => HealInv'
  <2> SUFFICES ASSUME IInv, HealInv, [Next]_vars PROVE HealInv'
    OBVIOUS
  <2>1. CASE Next
    <3>1. DownloadsOnly' /\ OwnData'
      BY <2>1, DownloadsStep DEF HealInv, DeadLink
    <3>2. (OneTransaction' /\ EmptyWhenDue') \/ DeadLink'
      BY <2>1, CleanStep, DeadStep DEF HealInv
    <3> QED BY <3>1, <3>2 DEF HealInv
  <2>2. CASE UNCHANGED vars
    BY <2>2 DEF vars, linkVars, sessionVars, HealInv, DownloadsOnly, OwnData, OneTransaction,
       EmptyWhenDue, DeadLink, LinkEmpty, LinkIn, Own, Incoming, ResponseLast
  <2> QED BY <2>1, <2>2
<1> QED BY <1>1, <1>2, Invariance, PTL DEF Spec

(* Everything in flight is of the transaction issued last. *)
LEMMA FlightIsOwn ==
  ASSUME OneTransaction
  PROVE  \A p \in InFlight : p.req = issued
<1>1. /\ outPipe \in Seq(Own(issued)) /\ pipe \in Seq(Own(issued))
      /\ emit \in Seq(Own(issued)) /\ awaiting \in Seq(Own(issued))
  BY DEF OneTransaction, LinkIn
<1>2. InFlight \subseteq Own(issued)
  BY <1>1, RangeOfSeq DEF InFlight
<1> QED BY <1>2 DEF Own

(* RecoveryState's promise, for every device that acts on, refuses or is   *)
(* wedged by CLASS_CANCEL, every number of tasks and every way of leaving  *)
(* a transfer: where drains read on until the device is quiet and nobody   *)
(* drops a recovery, an operation runs with no packet of another one in    *)
(* flight, and a free session without a flag has nothing in flight, up to  *)
(* the DeviceReset that ends the session.  With drops in a recovery it is  *)
(* false: SessionDroppedRecovery.cfg finds the counterexample.             *)
THEOREM SessionHealsItself ==
  ASSUME ThoroughDrain, ~DropsInRecovery, "send" \notin UsedKinds
  PROVE  Spec => [](HealedBeforeUse /\ UnflaggedIsClean)
<1>1. IInv /\ HealInv => HealedBeforeUse /\ UnflaggedIsClean
  <2> SUFFICES ASSUME IInv, HealInv, ~gone PROVE HealedBeforeUse /\ UnflaggedIsClean
    BY DEF HealedBeforeUse, UnflaggedIsClean
  <2>1. OneTransaction /\ EmptyWhenDue
    BY DEF HealInv, DeadLink
  <2>2. HealedBeforeUse
    <3> SUFFICES ASSUME lock # NoTask, pc[lock] \in Armed
                 PROVE  \A p \in InFlight : p.req = op.req
      BY DEF HealedBeforeUse
    <3>1. lock \in Tasks
      BY DEF IInv, SessionType
    <3>2. op.req = issued
      BY <3>1 DEF IInv, IdInv
    <3> QED BY <2>1, <3>2, FlightIsOwn
  <2>3. UnflaggedIsClean
    <3> SUFFICES ASSUME lock = NoTask, ~recovery.needed PROVE InFlight = {}
      BY DEF UnflaggedIsClean
    <3>1. outPipe = <<>> /\ pipe = <<>> /\ emit = <<>> /\ awaiting = <<>>
      BY <2>1 DEF EmptyWhenDue, LinkEmpty, OneTransaction
    <3>2. Range(<<>>) = {}
      BY DEF Range
    <3> QED BY <3>1, <3>2 DEF InFlight
  <2> QED BY <2>2, <2>3
<1> QED BY <1>1, HealingInvariance, PTL

(* Under the same hypotheses no call returns data of another transaction,  *)
(* on a device that acts on CLASS_CANCEL and with streamed downloads too,  *)
(* after a reset included.                                                 *)
THEOREM HealedDataIsOwn ==
  ASSUME ThoroughDrain, ~DropsInRecovery, "send" \notin UsedKinds
  PROVE  Spec => []OwnData
<1>1. IInv /\ HealInv => OwnData
  BY DEF HealInv
<1> QED BY <1>1, HealingInvariance, PTL

(* Under the same hypotheses the session implements SerialRpc. *)
THEOREM HealedSessionImplementsRpc ==
  ASSUME ThoroughDrain, ~DropsInRecovery, "send" \notin UsedKinds
  PROVE  Spec => ImplementsSerialRpc
  BY HealedDataIsOwn, OwnDataImplements, PTL
=============================================================================
