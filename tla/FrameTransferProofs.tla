------------------------- MODULE FrameTransferProofs -------------------------
(***************************************************************************)
(* Proofs about the packet layer of the d1 driver, for every number and    *)
(* length of messages, every packet size and every bound on a burst of     *)
(* losses.  Whether get_input_data joins packets of one message only       *)
(* depends on what the counters of the headers cannot show: the proofs     *)
(* assume ShortBursts, that a burst of lost packets is shorter than any    *)
(* message of several packets.  The inductive invariant IInv relates the   *)
(* receiver to the link and the link to the sender by the number of        *)
(* packets lost in between (Follows).  BudgetInv adds what has become of   *)
(* each message, and which loss it is charged to.                          *)
(***************************************************************************)
EXTENDS FrameTransfer, SequenceTheorems, FiniteSetTheorems, TLAPS

Total(m) == PacketTotal(Length[m])

\* Where in the payload packet k begins, and the words it carries.
Offset(k) == (k - 1) * MaxPack
Chunk(m, k) ==
  SubSeq(Payload(m), Offset(k) + 1, Offset(k) + SendLength(Length[m] - Offset(k)))

\* What get_input_data has joined once it holds c packets of message m.
Joined(m, c) == SubSeq(Payload(m), 1, Offset(c + 1))

\* yjdnet_write cuts a message into packets of MaxPack words: the last packet
\* begins within the payload, or at its end, and takes less than a full packet.
LEMMA TotalBounds ==
  ASSUME NEW m \in 1..NMsg
  PROVE  /\ Total(m) \in Nat \ {0}
         /\ Offset(Total(m)) <= Length[m]
         /\ Length[m] < Offset(Total(m)) + MaxPack
<1> DEFINE q == Length[m] \div MaxPack
<1>1. Length[m] \in Nat /\ MaxPack \in Nat \ {0}
  BY LengthAssumption, MaxPackAssumption
<1>2. q \in Nat /\ q * MaxPack <= Length[m] /\ Length[m] < q * MaxPack + MaxPack
  BY <1>1
<1>3. Total(m) = q + 1 /\ Offset(Total(m)) = q * MaxPack
  BY <1>1, <1>2 DEF Total, PacketTotal, Offset
<1>4. QED  BY <1>2, <1>3

\* Each packet begins a full packet after the one before it.
LEMMA OffsetSteps ==
  ASSUME NEW k \in Nat \ {0}
  PROVE  /\ Offset(1) = 0
         /\ Offset(k) \in Nat
         /\ Offset(k + 1) = Offset(k) + MaxPack
<1>1. MaxPack \in Nat \ {0}
  BY MaxPackAssumption
<1>2. (k - 1) * MaxPack \in Nat /\ k * MaxPack = (k - 1) * MaxPack + MaxPack
  BY <1>1
<1>3. QED  BY <1>1, <1>2 DEF Offset

\* Later packets begin later.
LEMMA OffsetMonotone ==
  ASSUME NEW j \in Nat \ {0}, NEW k \in Nat \ {0}, j <= k
  PROVE  Offset(j) <= Offset(k)
<1>1. MaxPack \in Nat \ {0}
  BY MaxPackAssumption
<1>2. \E d \in Nat : k = j + d
  <2>1. k - j \in Nat /\ k = j + (k - j)
    OBVIOUS
  <2>2. QED  BY <2>1
<1>3. PICK d \in Nat : k = j + d
  BY <1>2
<1>4. (k - 1) * MaxPack = (j - 1) * MaxPack + d * MaxPack /\ d * MaxPack \in Nat
  BY <1>1, <1>3
<1>5. QED  BY <1>1, <1>4 DEF Offset

Words == (1..NMsg) \X Nat

\* A payload is a non-empty sequence of words, and its first word names its message.
LEMMA PayloadIsSeq ==
  ASSUME NEW m \in 1..NMsg
  PROVE  /\ Payload(m) \in Seq(Words)
         /\ Len(Payload(m)) = Length[m]
         /\ Payload(m) # <<>>
         /\ Payload(m)[1] = <<m, 1>>
<1>1. Length[m] \in Nat \ {0}
  BY LengthAssumption
<1>2. \A i \in 1..Length[m] : <<m, i>> \in Words
  BY <1>1 DEF Words
<1>3. Payload(m) \in [1..Length[m] -> Words]
  BY <1>2 DEF Payload
<1>4. Payload(m) \in Seq(Words) /\ Len(Payload(m)) = Length[m]
  BY <1>1, <1>3
<1>5. Payload(m) # <<>>
  BY <1>1, <1>4
<1>6. Payload(m)[1] = <<m, 1>>
  BY <1>1 DEF Payload
<1>7. QED  BY <1>4, <1>5, <1>6

\* A packet before the last one is full; the last one takes what is left.
LEMMA ChunkBounds ==
  ASSUME NEW m \in 1..NMsg, NEW k \in 1..Total(m)
  PROVE  /\ Offset(k) \in 0..Length[m]
         /\ SendLength(Length[m] - Offset(k)) \in 0..(Length[m] - Offset(k))
         /\ k < Total(m) =>
              /\ SendLength(Length[m] - Offset(k)) = MaxPack
              /\ Offset(k + 1) = Offset(k) + MaxPack
              /\ Offset(k + 1) <= Length[m]
         /\ k = Total(m) => Offset(k) + SendLength(Length[m] - Offset(k)) = Length[m]
<1>1. Length[m] \in Nat \ {0} /\ MaxPack \in Nat \ {0} /\ Total(m) \in Nat \ {0}
  BY LengthAssumption, MaxPackAssumption, TotalBounds
<1>2. Offset(k) \in Nat /\ Offset(k + 1) = Offset(k) + MaxPack
  BY <1>1, OffsetSteps
<1>3. Offset(k) <= Offset(Total(m))
  BY <1>1, OffsetMonotone
<1>4. Offset(Total(m)) \in Nat
  BY <1>1, OffsetSteps
<1>5. k < Total(m) => Offset(k + 1) <= Offset(Total(m))
  BY <1>1, OffsetMonotone
<1>6. Offset(Total(m)) <= Length[m] /\ Length[m] < Offset(Total(m)) + MaxPack
  BY TotalBounds
<1>7. Length[m] - Offset(k) \in Nat
  BY <1>1, <1>2, <1>3, <1>4, <1>6
<1>8. QED
  BY <1>1, <1>2, <1>3, <1>4, <1>5, <1>6, <1>7 DEF SendLength

\* What a packet carries is a sequence of words.
LEMMA ChunkIsSeq ==
  ASSUME NEW m \in 1..NMsg, NEW k \in 1..Total(m)
  PROVE  Chunk(m, k) \in Seq(Words)
<1> DEFINE a == Offset(k) + 1
           b == Offset(k) + SendLength(Length[m] - Offset(k))
<1>1. a \in 1..(Length[m] + 1) /\ b \in 0..Length[m]
  BY ChunkBounds, LengthAssumption
<1>2. Length[m] \in Nat
  BY LengthAssumption
<1>3. \A i \in a..b : Payload(m)[i] \in Words
  BY <1>1, <1>2, PayloadIsSeq
<1>4. SubSeq(Payload(m), a, b) \in Seq(Words)
  <2> HIDE DEF a, b
  <2>1. QED  BY <1>1, <1>2, <1>3, SubSeqProperties
<1>5. QED  BY <1>4 DEF Chunk

\* Joining the next packet of a message to the ones before it.
LEMMA JoinChunk ==
  ASSUME NEW m \in 1..NMsg, NEW c \in Nat, c + 1 \in 1..Total(m)
  PROVE  /\ c + 1 < Total(m) => Joined(m, c) \o Chunk(m, c + 1) = Joined(m, c + 1)
         /\ c + 1 = Total(m) => Joined(m, c) \o Chunk(m, c + 1) = Payload(m)
<1> DEFINE a == Offset(c + 1)
           b == a + SendLength(Length[m] - a)
<1>1. Length[m] \in Nat \ {0}
  BY LengthAssumption
<1>2. a \in 0..Length[m] /\ b \in a..Length[m]
  BY <1>1, ChunkBounds
<1>3. SubSeq(Payload(m), 1, a) \o SubSeq(Payload(m), a + 1, b) = SubSeq(Payload(m), 1, b)
  <2> HIDE DEF a, b
  <2>1. QED  BY <1>1, <1>2, PayloadIsSeq, ConcatAdjacentSubSeq
<1>4. Joined(m, c) \o Chunk(m, c + 1) = SubSeq(Payload(m), 1, b)
  BY <1>3 DEF Joined, Chunk
<1>5. CASE c + 1 < Total(m)
  <2>1. b = Offset((c + 1) + 1)
    BY <1>5, ChunkBounds
  <2>2. Joined(m, c + 1) = SubSeq(Payload(m), 1, b)
    BY <2>1 DEF Joined
  <2>3. c + 1 # Total(m)
    BY <1>5, TotalBounds
  <2>4. QED  BY <1>4, <2>2, <2>3
<1>6. CASE c + 1 = Total(m)
  <2>1. b = Length[m]
    BY <1>6, ChunkBounds
  <2>2. SubSeq(Payload(m), 1, b) = Payload(m)
    BY <2>1, PayloadIsSeq, SubSeqFull
  <2>3. ~(c + 1 < Total(m))
    BY <1>6, TotalBounds
  <2>4. QED  BY <1>4, <2>2, <2>3
<1>7. QED
  BY <1>5, <1>6, TotalBounds

\* Before its first packet nothing of a message is joined.
LEMMA JoinedNone ==
  ASSUME NEW m \in 1..NMsg
  PROVE  Joined(m, 0) = <<>>
<1>1. Offset(0 + 1) = 0
  BY OffsetSteps
<1>2. QED  BY <1>1, SubSeqEmpty DEF Joined

-----------------------------------------------------------------------------
(* The inductive invariant *)

\* Packet k of message m comes before packet j of message n.
Before(m, k, n, j) == m < n \/ (m = n /\ k < j)

\* Packet j of message n is the first to get through after packet k of
\* message m, g packets having been lost in between.
Follows(m, k, n, j, g) ==
  \/ m = n /\ j = k + g + 1
  \/ m < n /\ g >= (Total(m) - k) + (j - 1)

\* A packet as yjdnet_write cut it.
Genuine(p) ==
  /\ p.msg \in 1..tx.msg
  /\ p.current_pkt \in 1..Total(p.msg)
  /\ p.total_size = Total(p.msg)
  /\ p.data = Chunk(p.msg, p.current_pkt)
  /\ p.gap \in 0..MaxBurst

TxInv ==
  /\ tx.msg > 0 => tx.current_num <= Total(tx.msg) + 1
  /\ Sending => /\ tx.data_sent = Offset(tx.current_num)
                /\ tx.left_length = Length[tx.msg] - Offset(tx.current_num)

\* What is being written is newer than what has been handed over.
TxAhead ==
  /\ LastDelivered \in 0..tx.msg
  /\ Sending => LastDelivered < tx.msg

\* Every packet on the fibre is as it was cut, and of a message newer than
\* the last one handed over.
LinkGenuine == \A i \in 1..Len(link) : Genuine(link[i])

LinkNewer == \A i \in 1..Len(link) : LastDelivered < link[i].msg

\* The fibre keeps the order of the packets,
LinkOrdered ==
  /\ \A i \in 1..Len(link) :
       Before(link[i].msg, link[i].current_pkt, tx.msg, tx.current_num)
  /\ \A i, j \in 1..Len(link) :
       i < j => Before(link[i].msg, link[i].current_pkt,
                       link[j].msg, link[j].current_pkt)

\* and the gaps between them are made of lost packets only.
LinkGaps ==
  /\ \A i \in 1..(Len(link) - 1) :
       Follows(link[i].msg, link[i].current_pkt,
               link[i+1].msg, link[i+1].current_pkt, link[i+1].gap)
  /\ link # <<>> =>
       Follows(link[Len(link)].msg, link[Len(link)].current_pkt,
               tx.msg, tx.current_num, burst)

LinkInv == LinkGenuine /\ LinkNewer /\ LinkOrdered /\ LinkGaps

\* get_input_data has joined the first packets of message m, and what it
\* reads next comes after them.
Joining(m) ==
  /\ rx.current_pack \in 1..(Total(m) - 1)
  /\ rx.total_size = Total(m)
  /\ rx.data_receive = Joined(m, rx.current_pack)
  /\ LastDelivered < m
  /\ Before(m, rx.current_pack, tx.msg, tx.current_num)
  /\ \A i \in 1..Len(link) :
       Before(m, rx.current_pack, link[i].msg, link[i].current_pkt)
  /\ link = <<>> => Follows(m, rx.current_pack, tx.msg, tx.current_num, burst)
  /\ link # <<>> => Follows(m, rx.current_pack, link[1].msg,
                            link[1].current_pkt, link[1].gap)

RxInv == rx = FreshRx \/ \E m \in 1..tx.msg : Joining(m)

IInv == TxAhead /\ LinkInv /\ RxInv /\ WholeMessages

-----------------------------------------------------------------------------
(* Type correctness, which needs no assumption about losses *)

TypeInv == TypeOK /\ TxInv

\* The packet the driver is about to send is the one its header claims to be.
LEMMA PacketIsGenuine ==
  ASSUME TypeInv, Sending
  PROVE  Genuine(Packet(tx)) /\ Packet(tx) \in Packets
<1> DEFINE p == Packet(tx)
<1>1. tx.msg \in 1..NMsg /\ tx.current_num \in 1..Total(tx.msg)
  BY SMTT(30), LengthAssumption, TotalBounds DEF TypeInv, TypeOK, TxInv, Sending, Total
<1>2. /\ p.msg = tx.msg
      /\ p.current_pkt = tx.current_num
      /\ p.total_size = Total(tx.msg)
      /\ p.gap = burst
      /\ p.data = SubSeq(Payload(tx.msg), tx.data_sent + 1,
                         tx.data_sent + SendLength(tx.left_length))
  BY DEF Packet, Total
<1>3. p.data = Chunk(tx.msg, tx.current_num)
  BY <1>2 DEF TypeInv, TxInv, Chunk
<1>4. p.data \in Seq(Words)
  BY <1>1, <1>3, ChunkIsSeq
<1>5. Total(tx.msg) \in Nat /\ burst \in 0..MaxBurst
  BY <1>1, TotalBounds DEF TypeInv, TypeOK
<1>6. p \in Packets
  <2>1. p = [total_size |-> p.total_size, current_pkt |-> p.current_pkt,
             data |-> p.data, msg |-> p.msg, gap |-> p.gap]
    BY DEF Packet
  <2>2. p.data \in Seq((1..NMsg) \X Nat)
    BY <1>4 DEF Words
  <2>3. p.total_size \in Nat /\ p.current_pkt \in Nat
    BY <1>1, <1>2, <1>5
  <2>4. p.msg \in 1..NMsg /\ p.gap \in 0..MaxBurst
    BY <1>1, <1>2, <1>5
  <2>5. QED
    <3> HIDE DEF p
    <3>1. QED  BY <2>1, <2>2, <2>3, <2>4 DEF Packets
<1>7. Genuine(p)
  <2> HIDE DEF p
  <2>1. QED  BY <1>1, <1>2, <1>3, <1>5 DEF Genuine
<1>8. QED  BY <1>6, <1>7

\* The sender's next position after one turn of its loop.
LEMMA NextPacketInv ==
  ASSUME TypeInv, Sending, NextPacket
  PROVE  /\ tx' \in [msg : 0..NMsg, current_num : Nat \ {0}, data_sent : Nat,
                     left_length : Nat]
         /\ TxInv'
         /\ tx'.msg = tx.msg
         /\ tx'.current_num = tx.current_num + 1
<1> DEFINE m == tx.msg
           k == tx.current_num
<1>1. m \in 1..NMsg /\ k \in 1..Total(m)
  BY SMTT(30), LengthAssumption, TotalBounds DEF TypeInv, TypeOK, TxInv, Sending, Total
<1>2. tx.data_sent = Offset(k) /\ tx.left_length = Length[m] - Offset(k)
  BY DEF TypeInv, TxInv
<1>3. tx \in [msg : 0..NMsg, current_num : Nat \ {0}, data_sent : Nat,
              left_length : Nat]
  BY DEF TypeInv, TypeOK
<1>4. /\ tx'.msg = m
      /\ tx'.current_num = k + 1
      /\ tx'.data_sent = tx.data_sent + SendLength(tx.left_length)
      /\ tx'.left_length = tx.left_length - SendLength(tx.left_length)
      /\ tx' = [msg |-> tx'.msg, current_num |-> tx'.current_num,
                data_sent |-> tx'.data_sent, left_length |-> tx'.left_length]
  BY <1>3 DEF NextPacket
<1>5. Length[m] \in Nat /\ Total(m) \in Nat
  BY <1>1, LengthAssumption, TotalBounds
<1>6. /\ Offset(k) \in 0..Length[m]
      /\ SendLength(Length[m] - Offset(k)) \in 0..(Length[m] - Offset(k))
  BY <1>1, ChunkBounds
<1>7. k < Total(m) => /\ SendLength(Length[m] - Offset(k)) = MaxPack
                      /\ Offset(k + 1) = Offset(k) + MaxPack
  BY <1>1, ChunkBounds
<1>8. tx'.data_sent \in Nat /\ tx'.left_length \in Nat
  BY <1>2, <1>4, <1>5, <1>6
<1>9. tx' \in [msg : 0..NMsg, current_num : Nat \ {0}, data_sent : Nat,
               left_length : Nat]
  <2>1. tx'.msg \in 0..NMsg /\ tx'.current_num \in Nat \ {0}
    BY <1>1, <1>4, LengthAssumption, <1>5
  <2>2. QED  BY <1>4, <1>8, <2>1
<1>10. TxInv'
  <2>1. tx'.current_num <= Total(tx'.msg) + 1
    BY <1>1, <1>4, <1>5
  <2>2. ASSUME Sending'
        PROVE  /\ tx'.data_sent = Offset(tx'.current_num)
               /\ tx'.left_length = Length[tx'.msg] - Offset(tx'.current_num)
    <3>1. k < Total(m)
      BY <2>2, <1>1, <1>4, <1>5 DEF Sending, Total
    <3>2. MaxPack \in Nat
      BY MaxPackAssumption
    <3>3. QED  BY <3>1, <3>2, <1>2, <1>4, <1>5, <1>6, <1>7
  <2>3. QED  BY <2>1, <2>2 DEF TxInv
<1>11. QED  BY <1>4, <1>9, <1>10

\* The type invariant and the sender's bookkeeping hold at the start,
LEMMA InitTypeInv == Init => TypeInv
<1> SUFFICES ASSUME Init PROVE TypeInv
  OBVIOUS
<1>1. tx = [msg |-> 0, current_num |-> 1, data_sent |-> 0, left_length |-> 0]
  BY DEF Init
<1>2. ~Sending /\ TxInv
  BY <1>1 DEF Sending, TxInv
<1>3. TypeOK
  BY <1>1, LengthAssumption, BoundsAssumption DEF Init, TypeOK, FreshRx
<1>4. QED  BY <1>2, <1>3 DEF TypeInv

\* and every step keeps them.
LEMMA StepTypeInv == TypeInv /\ [Next]_vars => TypeInv'
<1> SUFFICES ASSUME TypeInv, [Next]_vars PROVE TypeInv'
  OBVIOUS
<1> USE DEF TypeInv
<1>1. CASE StartWrite
  <2>1. /\ tx'.msg = tx.msg + 1 /\ tx'.current_num = 1 /\ tx'.data_sent = 0
        /\ tx'.left_length = Length[tx.msg + 1]
        /\ tx.msg + 1 \in 1..NMsg
    BY SMTT(30), <1>1, LengthAssumption DEF StartWrite, TypeOK
  <2>2. TxInv'
    <3>1. Total(tx'.msg) \in Nat /\ Offset(1) = 0
      BY <2>1, TotalBounds, OffsetSteps
    <3>2. Length[tx.msg + 1] \in Nat
      BY <2>1, LengthAssumption
    <3>3. QED  BY <2>1, <3>1, <3>2 DEF TxInv
  <2>3. TypeOK'
    <3>1. tx' \in [msg : 0..NMsg, current_num : Nat \ {0}, data_sent : Nat,
                   left_length : Nat]
      BY SMTT(30), <1>1, LengthAssumption DEF StartWrite, TypeOK
    <3>2. QED  BY <1>1, <3>1 DEF StartWrite, TypeOK
  <2>4. QED  BY <2>2, <2>3
<1>2. CASE SendPacket
  <2>1. NextPacket /\ Sending
    BY <1>2 DEF SendPacket
  <2>2. Packet(tx) \in Packets
    BY <2>1, PacketIsGenuine
  <2>3. link' \in Seq(Packets)
    BY <1>2, <2>2, AppendProperties DEF SendPacket, TypeOK
  <2>4. TypeOK'
    BY <1>2, <2>1, <2>3, NextPacketInv, BoundsAssumption DEF SendPacket, TypeOK
  <2>5. QED  BY <2>1, <2>4, NextPacketInv
<1>3. CASE LosePacket
  <2>1. NextPacket /\ Sending
    BY <1>3 DEF LosePacket
  <2>2. TypeOK'
    BY <1>3, <2>1, NextPacketInv, BoundsAssumption DEF LosePacket, TypeOK
  <2>3. QED  BY <2>1, <2>2, NextPacketInv
<1>4. CASE RxPacket
  <2>1. link # <<>> /\ tx' = tx /\ link' = Tail(link)
    BY <1>4 DEF RxPacket, RefusePacket, JoinPacket, DeliverMessage
  <2>2. TxInv'
    BY <2>1 DEF TxInv, Sending
  <2>3. link' \in Seq(Packets) /\ Head(link) \in Packets
    BY <2>1, HeadTailProperties DEF TypeOK
  <2>4. /\ Head(link).total_size \in Nat
        /\ Head(link).current_pkt \in Nat
        /\ Head(link).data \in Seq((1..NMsg) \X Nat)
    BY <2>3 DEF Packets
  <2>5. rx.data_receive \in Seq((1..NMsg) \X Nat)
    BY DEF TypeOK
  <2>6. rx.data_receive \o Head(link).data \in Seq((1..NMsg) \X Nat)
    BY <2>4, <2>5, ConcatProperties
  <2>7. FreshRx \in [total_size : Nat, current_pack : Nat,
                     data_receive : Seq((1..NMsg) \X Nat)]
    BY DEF FreshRx
  <2>8. CASE RefusePacket
    BY <2>1, <2>2, <2>3, <2>7, <2>8 DEF RefusePacket, TypeOK
  <2>9. CASE JoinPacket
    BY <2>1, <2>2, <2>3, <2>4, <2>6, <2>9 DEF JoinPacket, TypeOK
  <2>10. CASE DeliverMessage
    <3>1. delivered' \in Seq(Seq((1..NMsg) \X Nat))
      BY <2>6, <2>10, AppendProperties DEF DeliverMessage, TypeOK
    <3>2. QED  BY <2>1, <2>2, <2>3, <2>7, <2>10, <3>1 DEF DeliverMessage, TypeOK
  <2>11. QED  BY <1>4, <2>8, <2>9, <2>10 DEF RxPacket
<1>5. CASE UNCHANGED vars
  BY <1>5 DEF vars, TypeOK, TxInv, Sending
<1>6. QED  BY <1>1, <1>2, <1>3, <1>4, <1>5 DEF Next

\* On every behaviour, whatever is lost, the state keeps the shape TypeOK
\* gives it; the offsets of yjdnet_write stay inside the payload.
THEOREM TypeCorrect == Spec => []TypeOK
<1>1. Spec => []TypeInv
  BY InitTypeInv, StepTypeInv, PTL DEF Spec
<1>2. TypeInv => TypeOK
  BY DEF TypeInv
<1>3. QED  BY <1>1, <1>2, PTL

-----------------------------------------------------------------------------
(* Whole messages, when no burst of losses is as long as a message *)

\* Losing a packet moves the sender one packet further and makes the gap one longer.
LEMMA FollowsLoss ==
  ASSUME NEW m \in 1..NMsg, NEW k \in 1..Total(m), NEW n \in Nat, NEW j \in Nat,
         NEW g \in Nat, Follows(m, k, n, j, g)
  PROVE  Follows(m, k, n, j + 1, g + 1)
BY TotalBounds DEF Follows

\* After the last packet of message n comes the first packet of message n + 1.
LEMMA FollowsMessage ==
  ASSUME NEW m \in 1..NMsg, NEW k \in 1..Total(m), NEW n \in 1..NMsg,
         NEW g \in Nat, Follows(m, k, n, Total(n) + 1, g)
  PROVE  Follows(m, k, n + 1, 1, g)
<1>1. Total(m) \in Nat \ {0} /\ Total(n) \in Nat \ {0}
  BY TotalBounds
<1>2. CASE m = n /\ Total(n) + 1 = k + g + 1
  BY <1>1, <1>2, LengthAssumption DEF Follows
<1>3. CASE m < n /\ g >= (Total(m) - k) + ((Total(n) + 1) - 1)
  BY <1>1, <1>3, LengthAssumption DEF Follows
<1>4. QED  BY <1>2, <1>3 DEF Follows

\* The packet that is next to the ones joined is of the same message: to
\* stand in for it, a packet of a later message needs as many losses in a
\* row as the message has packets.
LEMMA NoMixing ==
  ASSUME ShortBursts, NEW m \in 1..NMsg, NEW c \in 1..(Total(m) - 1),
         NEW n \in 1..NMsg, NEW g \in 0..MaxBurst,
         Follows(m, c, n, c + 1, g)
  PROVE  n = m
<1>1. Total(m) \in Nat \ {0} /\ MaxBurst \in Nat
  BY TotalBounds, BoundsAssumption
<1>2. Total(m) > 1 => MaxBurst < Total(m)
  BY DEF ShortBursts, Total
<1>3. QED  BY <1>1, <1>2 DEF Follows

\* The last delivered message was sent.
LEMMA LastDeliveredType ==
  ASSUME TypeInv, WholeMessages
  PROVE  LastDelivered \in 0..tx.msg
<1>1. tx.msg \in 0..NMsg /\ NMsg \in Nat
  BY LengthAssumption DEF TypeInv, TypeOK
<1>2. CASE delivered = <<>>
  BY <1>1, <1>2 DEF LastDelivered
<1>3. CASE delivered # <<>>
  <2>1. Len(delivered) \in DOMAIN delivered
    BY <1>3 DEF TypeInv, TypeOK
  <2>2. PICK m \in 1..tx.msg : delivered[Len(delivered)] = Payload(m)
    BY <2>1 DEF WholeMessages
  <2>3. LastDelivered = m
    BY <1>1, <1>3, <2>2, PayloadIsSeq DEF LastDelivered
  <2>4. QED  BY <1>1, <2>3
<1>4. QED  BY <1>2, <1>3

\* What the receiver holds is the part of a message that comes before the
\* packet it accepts.
LEMMA AcceptedFits ==
  ASSUME ShortBursts, TypeInv, IInv, link # <<>>, ~Refused(Head(link))
  PROVE  /\ Genuine(Head(link))
         /\ LastDelivered < Head(link).msg
         /\ rx.current_pack = Head(link).current_pkt - 1
         /\ rx.data_receive = Joined(Head(link).msg, Head(link).current_pkt - 1)
<1> DEFINE p == Head(link)
<1>1. 1 \in 1..Len(link) /\ p = link[1]
  BY DEF TypeInv, TypeOK
<1>2. Genuine(p) /\ LastDelivered < p.msg
  BY <1>1 DEF IInv, LinkInv, LinkGenuine, LinkNewer
<1>3. p.msg \in 1..NMsg /\ p.current_pkt \in 1..Total(p.msg) /\ p.total_size = Total(p.msg)
  BY <1>2, LengthAssumption DEF Genuine, TypeInv, TypeOK
<1>4. Total(p.msg) \in Nat \ {0}
  BY <1>3, TotalBounds
<1>5. rx.current_pack \in Nat /\ p.current_pkt \in Nat
  BY <1>3, <1>4 DEF TypeInv, TypeOK
<1>6. rx.current_pack = p.current_pkt - 1
  BY DEF Refused
<1>7. CASE rx = FreshRx
  <2>1. rx.current_pack = 0 /\ rx.data_receive = <<>>
    BY <1>7 DEF FreshRx
  <2>2. QED  BY <1>2, <1>3, <1>6, <2>1, JoinedNone
<1>8. ASSUME NEW m \in 1..tx.msg, Joining(m)
      PROVE  rx.data_receive = Joined(p.msg, p.current_pkt - 1)
  <2>1. m \in 1..NMsg
    BY LengthAssumption DEF TypeInv, TypeOK
  <2>2. rx.current_pack \in 1..(Total(m) - 1) /\ Total(m) \in Nat \ {0}
    BY <1>8, <2>1, TotalBounds DEF Joining
  <2>3. p.current_pkt = rx.current_pack + 1
    BY <1>5, <1>6
  <2>4. p.gap \in 0..MaxBurst
    BY <1>2 DEF Genuine
  <2>5. Follows(m, rx.current_pack, p.msg, rx.current_pack + 1, p.gap)
    BY <1>1, <1>8, <2>3 DEF Joining
  <2>6. p.msg = m
    BY <1>3, <2>1, <2>2, <2>4, <2>5, NoMixing
  <2>7. QED  BY <1>6, <1>8, <2>6 DEF Joining
<1>9. QED
  BY <1>2, <1>6, <1>7, <1>8 DEF IInv, RxInv

\* The inductive invariant holds at the start; the lemmas up to StepIInv show that each
\* action keeps it.
LEMMA InitIInv == Init => IInv
<1> SUFFICES ASSUME Init PROVE IInv
  OBVIOUS
<1>1. tx.msg = 0 /\ link = <<>> /\ rx = FreshRx /\ delivered = <<>>
  BY DEF Init
<1>2. LastDelivered = 0 /\ ~Sending
  BY <1>1 DEF LastDelivered, Sending
<1>3. LinkInv
  BY <1>1 DEF LinkInv, LinkGenuine, LinkNewer, LinkOrdered, LinkGaps
<1>4. QED
  BY <1>1, <1>2, <1>3 DEF IInv, TxAhead, RxInv, WholeMessages

\* A new message: the sender's position is the first packet of message n + 1.
LEMMA StartWriteIInv ==
  ASSUME TypeInv, IInv, StartWrite
  PROVE  IInv'
<1>1. /\ tx'.msg = tx.msg + 1 /\ tx'.current_num = 1
      /\ tx.msg \in Nat /\ tx.msg + 1 \in 1..NMsg
      /\ link' = link /\ rx' = rx /\ delivered' = delivered /\ burst' = burst
  BY SMTT(30), LengthAssumption DEF StartWrite, TypeInv, TypeOK
<1>2. LastDelivered' = LastDelivered /\ LastDelivered \in 0..tx.msg
  BY <1>1 DEF LastDelivered, IInv, TxAhead
<1>3. TxAhead'
  BY <1>1, <1>2 DEF TxAhead
<1>4. tx.msg > 0 => /\ tx.msg \in 1..NMsg
                    /\ tx.current_num = Total(tx.msg) + 1
  <2>1. tx.msg > 0 => tx.msg \in 1..NMsg
    BY <1>1, LengthAssumption DEF TypeInv, TypeOK
  <2>2. tx.msg > 0 => Total(tx.msg) \in Nat /\ tx.current_num \in Nat
    BY <2>1, TotalBounds DEF TypeInv, TypeOK
  <2>3. tx.msg > 0 => tx.current_num <= Total(tx.msg) + 1
    BY DEF TypeInv, TxInv
  <2>4. tx.msg > 0 => ~(tx.current_num <= Total(tx.msg))
    BY DEF StartWrite, Sending, Total
  <2>5. QED  BY <2>1, <2>2, <2>3, <2>4
<1>5. burst \in Nat
  BY BoundsAssumption DEF TypeInv, TypeOK
<1>6. ASSUME NEW m \in 1..tx.msg, NEW k \in 1..Total(m),
             Follows(m, k, tx.msg, tx.current_num, burst)
      PROVE  Follows(m, k, tx'.msg, tx'.current_num, burst')
  <2>1. m \in 1..NMsg /\ tx.msg \in 1..NMsg /\ tx.msg > 0
    BY <1>1, LengthAssumption
  <2>2. QED  BY <1>1, <1>4, <1>5, <1>6, <2>1, FollowsMessage
<1>7. LinkInv'
  <2>1. \A i \in 1..Len(link) : Genuine(link[i]) /\ link[i].msg \in 1..tx.msg
    BY DEF IInv, LinkInv, LinkGenuine, Genuine
  <2>2. LinkGenuine'
    BY <1>1, <2>1 DEF LinkGenuine, Genuine
  <2>3. LinkNewer'
    BY <1>1, <1>2 DEF IInv, LinkInv, LinkNewer
  <2>4. LinkOrdered'
    BY <1>1, <2>1 DEF IInv, LinkInv, LinkOrdered, Before
  <2>5. LinkGaps'
    <3>1. CASE link = <<>>
      BY <1>1, <3>1 DEF LinkGaps
    <3>2. CASE link # <<>>
      <4>1. Len(link) \in 1..Len(link)
        BY <3>2 DEF TypeInv, TypeOK
      <4>2. link[Len(link)].msg \in 1..tx.msg
            /\ link[Len(link)].current_pkt \in 1..Total(link[Len(link)].msg)
        BY <2>1, <4>1 DEF Genuine
      <4>3. QED  BY <1>1, <1>6, <3>2, <4>2 DEF IInv, LinkInv, LinkGaps
    <3>3. QED  BY <3>1, <3>2
  <2>6. QED  BY <2>2, <2>3, <2>4, <2>5 DEF LinkInv
<1>8. RxInv'
  <2>1. CASE rx = FreshRx
    BY <1>1, <2>1 DEF RxInv, FreshRx
  <2>2. ASSUME NEW m \in 1..tx.msg, Joining(m)
        PROVE  m \in 1..(tx'.msg) /\ Joining(m)'
    <3>1. m \in 1..NMsg /\ Total(m) \in Nat \ {0}
      BY <1>1, TotalBounds, LengthAssumption
    <3>2. rx.current_pack \in 1..Total(m)
      BY <2>2, <3>1 DEF Joining
    <3>3. link = <<>> => Follows(m, rx.current_pack, tx'.msg, tx'.current_num, burst')
      BY <1>6, <2>2, <3>2 DEF Joining
    <3>4. Before(m, rx.current_pack, tx'.msg, tx'.current_num)
      BY <1>1 DEF Before
    <3>5. /\ rx'.current_pack \in 1..(Total(m) - 1)
          /\ rx'.total_size = Total(m)
          /\ rx'.data_receive = Joined(m, rx'.current_pack)
      BY <1>1, <2>2 DEF Joining
    <3>6. LastDelivered' < m
      BY <1>2, <2>2 DEF Joining
    <3>7. /\ \A i \in 1..Len(link') :
               Before(m, rx'.current_pack, link'[i].msg, link'[i].current_pkt)
          /\ link' # <<>> => Follows(m, rx'.current_pack, link'[1].msg,
                                     link'[1].current_pkt, link'[1].gap)
      BY <1>1, <2>2 DEF Joining
    <3>8. /\ Before(m, rx'.current_pack, tx'.msg, tx'.current_num)
          /\ link' = <<>> => Follows(m, rx'.current_pack, tx'.msg, tx'.current_num, burst')
      BY <1>1, <3>3, <3>4
    <3>9. m \in 1..(tx'.msg)
      BY <1>1, <3>1 DEF TypeInv, TypeOK
    <3>10. QED  BY <3>5, <3>6, <3>7, <3>8, <3>9 DEF Joining
  <2>3. QED  BY <2>1, <2>2 DEF IInv, RxInv
<1>9. WholeMessages'
  BY <1>1 DEF IInv, WholeMessages
<1>10. QED  BY <1>3, <1>7, <1>8, <1>9 DEF IInv

\* A lost packet: the gap behind the link, or behind what was joined, grows by one.
LEMMA LosePacketIInv ==
  ASSUME TypeInv, IInv, LosePacket
  PROVE  IInv'
<1>1. /\ tx'.msg = tx.msg /\ tx'.current_num = tx.current_num + 1
      /\ link' = link /\ rx' = rx /\ delivered' = delivered /\ burst' = burst + 1
      /\ Sending
  BY NextPacketInv DEF LosePacket
<1>2. LastDelivered' = LastDelivered /\ LastDelivered \in 0..tx.msg
  BY <1>1 DEF LastDelivered, IInv, TxAhead
<1>3. /\ tx.msg \in 1..NMsg /\ tx.current_num \in Nat /\ burst \in Nat
  BY <1>1, LengthAssumption, BoundsAssumption DEF Sending, TypeInv, TypeOK
<1>4. TxAhead'
  BY <1>1, <1>2 DEF TxAhead, IInv
<1>5. ASSUME NEW m \in 1..tx.msg, NEW k \in 1..Total(m),
             Follows(m, k, tx.msg, tx.current_num, burst)
      PROVE  Follows(m, k, tx'.msg, tx'.current_num, burst')
  <2>1. m \in 1..NMsg
    BY <1>3, LengthAssumption
  <2>2. QED  BY <1>1, <1>3, <1>5, <2>1, FollowsLoss
<1>6. LinkInv'
  <2>1. \A i \in 1..Len(link) : Genuine(link[i]) /\ link[i].msg \in 1..tx.msg
    BY DEF IInv, LinkInv, LinkGenuine, Genuine
  <2>2. \A i \in 1..Len(link) : link[i].current_pkt \in Int
    BY <2>1, <1>3, TotalBounds DEF Genuine
  <2>3. LinkGenuine'
    BY <1>1, <2>1 DEF LinkGenuine, Genuine
  <2>4. LinkNewer'
    BY <1>1, <1>2 DEF IInv, LinkInv, LinkNewer
  <2>5. LinkOrdered'
    BY <1>1, <1>3, <2>1, <2>2 DEF IInv, LinkInv, LinkOrdered, Before
  <2>6. LinkGaps'
    <3>1. CASE link = <<>>
      BY <1>1, <3>1 DEF LinkGaps
    <3>2. CASE link # <<>>
      <4>1. Len(link) \in 1..Len(link)
        BY <3>2 DEF TypeInv, TypeOK
      <4>2. link[Len(link)].msg \in 1..tx.msg
            /\ link[Len(link)].current_pkt \in 1..Total(link[Len(link)].msg)
        BY <2>1, <4>1 DEF Genuine
      <4>3. QED  BY <1>1, <1>5, <3>2, <4>2 DEF IInv, LinkInv, LinkGaps
    <3>3. QED  BY <3>1, <3>2
  <2>7. QED  BY <2>3, <2>4, <2>5, <2>6 DEF LinkInv
<1>7. RxInv'
  <2>1. CASE rx = FreshRx
    BY <1>1, <2>1 DEF RxInv, FreshRx
  <2>2. ASSUME NEW m \in 1..tx.msg, Joining(m)
        PROVE  Joining(m)'
    <3>1. m \in 1..NMsg /\ Total(m) \in Nat \ {0}
      BY <1>3, TotalBounds, LengthAssumption
    <3>2. rx.current_pack \in 1..Total(m)
      BY <2>2, <3>1 DEF Joining
    <3>3. link = <<>> => Follows(m, rx.current_pack, tx'.msg, tx'.current_num, burst')
      BY <1>5, <2>2, <3>2 DEF Joining
    <3>4. Before(m, rx.current_pack, tx'.msg, tx'.current_num)
      BY <1>1, <1>3, <2>2, <3>1, <3>2 DEF Before, Joining
    <3>5. /\ rx'.current_pack \in 1..(Total(m) - 1)
          /\ rx'.total_size = Total(m)
          /\ rx'.data_receive = Joined(m, rx'.current_pack)
      BY <1>1, <2>2 DEF Joining
    <3>6. LastDelivered' < m
      BY <1>2, <2>2 DEF Joining
    <3>7. /\ \A i \in 1..Len(link') :
               Before(m, rx'.current_pack, link'[i].msg, link'[i].current_pkt)
          /\ link' # <<>> => Follows(m, rx'.current_pack, link'[1].msg,
                                     link'[1].current_pkt, link'[1].gap)
      BY <1>1, <2>2 DEF Joining
    <3>8. /\ Before(m, rx'.current_pack, tx'.msg, tx'.current_num)
          /\ link' = <<>> => Follows(m, rx'.current_pack, tx'.msg, tx'.current_num, burst')
      BY <1>1, <3>3, <3>4
    <3>9. QED  BY <3>5, <3>6, <3>7, <3>8 DEF Joining
  <2>3. QED  BY <1>1, <2>1, <2>2 DEF IInv, RxInv
<1>8. WholeMessages'
  BY <1>1 DEF IInv, WholeMessages
<1>9. QED  BY <1>4, <1>6, <1>7, <1>8 DEF IInv

\* A sent packet: it is genuine, newer than everything on the link, and the gap in front
\* of it is at most MaxBurst.
LEMMA SendPacketIInv ==
  ASSUME TypeInv, IInv, SendPacket
  PROVE  IInv'
<1> DEFINE p == Packet(tx)
           L == Len(link)
<1>1. /\ tx'.msg = tx.msg /\ tx'.current_num = tx.current_num + 1
      /\ link' = Append(link, p) /\ rx' = rx /\ delivered' = delivered /\ burst' = 0
      /\ Sending
  BY NextPacketInv DEF SendPacket
<1>2. LastDelivered' = LastDelivered /\ LastDelivered \in 0..tx.msg /\ LastDelivered < tx.msg
  BY <1>1 DEF LastDelivered, IInv, TxAhead
<1>3. tx.msg \in 1..NMsg /\ tx.current_num \in Nat /\ NMsg \in Nat
  BY <1>1, LengthAssumption DEF Sending, TypeInv, TypeOK
<1>4. Genuine(p) /\ p \in Packets /\ p.msg = tx.msg /\ p.current_pkt = tx.current_num
      /\ p.gap = burst
  BY <1>1, PacketIsGenuine DEF Packet
<1> HIDE DEF p
<1>5. L \in Nat /\ Len(link') = L + 1 /\ link'[L + 1] = p /\ link' # <<>>
      /\ \A i \in 1..L : link'[i] = link[i]
  BY <1>1, <1>4, AppendProperties DEF TypeInv, TypeOK
<1>6. TxAhead'
  BY <1>1, <1>2 DEF TxAhead
<1>7. \A i \in 1..(L + 1) : i \in 1..L \/ i = L + 1
  BY <1>5
<1>8. LinkGenuine'
  BY <1>1, <1>4, <1>5, <1>7 DEF IInv, LinkInv, LinkGenuine, Genuine
<1>9. LinkNewer'
  BY <1>2, <1>4, <1>5, <1>7 DEF IInv, LinkInv, LinkNewer
<1>10. LinkOrdered'
  <2>1. \A i \in 1..L : /\ link[i].msg \in Int /\ link[i].current_pkt \in Int
                        /\ Before(link[i].msg, link[i].current_pkt, tx.msg, tx.current_num)
    BY <1>3, TotalBounds DEF IInv, LinkInv, LinkGenuine, LinkOrdered, Genuine
  <2>2. \A i \in 1..L : Before(link'[i].msg, link'[i].current_pkt, p.msg, p.current_pkt)
    BY <2>1, <1>4, <1>5
  <2>3. \A i \in 1..(L + 1) :
          Before(link'[i].msg, link'[i].current_pkt, tx'.msg, tx'.current_num)
    BY <2>1, <1>1, <1>3, <1>4, <1>5, <1>7 DEF Before
  <2>4. \A i, j \in 1..(L + 1) :
          i < j => Before(link'[i].msg, link'[i].current_pkt,
                          link'[j].msg, link'[j].current_pkt)
    <3> SUFFICES ASSUME NEW i \in 1..(L + 1), NEW j \in 1..(L + 1), i < j
                 PROVE  Before(link'[i].msg, link'[i].current_pkt,
                               link'[j].msg, link'[j].current_pkt)
      OBVIOUS
    <3>1. i \in 1..L
      BY <1>5
    <3>2. CASE j = L + 1
      BY <2>2, <3>1, <3>2, <1>5
    <3>3. CASE j \in 1..L
      BY <3>1, <3>3, <1>5 DEF IInv, LinkInv, LinkOrdered
    <3>4. QED  BY <3>2, <3>3, <1>7
  <2>5. QED  BY <2>3, <2>4, <1>5 DEF LinkOrdered
<1>11. LinkGaps'
  <2>1. ASSUME NEW i \in 1..L
        PROVE  Follows(link'[i].msg, link'[i].current_pkt,
                       link'[i+1].msg, link'[i+1].current_pkt, link'[i+1].gap)
    <3>1. CASE i = L
      <4>1. link # <<>>
        BY <3>1, <1>5 DEF TypeInv, TypeOK
      <4>2. QED  BY <3>1, <4>1, <1>4, <1>5 DEF IInv, LinkInv, LinkGaps
    <3>2. CASE i # L
      <4>1. i \in 1..(L - 1) /\ i + 1 \in 1..L
        BY <3>2, <1>5
      <4>2. QED  BY <4>1, <1>5 DEF IInv, LinkInv, LinkGaps
    <3>3. QED  BY <3>1, <3>2
  <2>2. Follows(p.msg, p.current_pkt, tx'.msg, tx'.current_num, burst')
    BY <1>1, <1>3, <1>4 DEF Follows
  <2>3. Len(link') - 1 = L
    BY <1>5
  <2>4. QED  BY <2>1, <2>2, <2>3, <1>5 DEF LinkGaps
<1>12. RxInv'
  <2>1. CASE rx = FreshRx
    BY <1>1, <2>1 DEF RxInv, FreshRx
  <2>2. ASSUME NEW m \in 1..tx.msg, Joining(m)
        PROVE  Joining(m)'
    <3>1. m \in 1..NMsg /\ Total(m) \in Nat \ {0}
      BY <1>3, TotalBounds
    <3>2. rx.current_pack \in 1..Total(m)
      BY <2>2, <3>1 DEF Joining
    <3>3. Before(m, rx.current_pack, p.msg, p.current_pkt)
      BY <1>4, <2>2 DEF Joining
    <3>4. Before(m, rx.current_pack, tx'.msg, tx'.current_num)
      BY <1>1, <1>3, <2>2, <3>1, <3>2 DEF Before, Joining
    <3>5. \A i \in 1..(L + 1) :
            Before(m, rx.current_pack, link'[i].msg, link'[i].current_pkt)
      BY <1>5, <1>7, <2>2, <3>3 DEF Joining
    <3>6. Follows(m, rx.current_pack, link'[1].msg, link'[1].current_pkt, link'[1].gap)
      <4>1. CASE link = <<>>
        <5>1. L = 0
          BY <4>1
        <5>2. QED  BY <4>1, <5>1, <1>4, <1>5, <2>2 DEF Joining
      <4>2. CASE link # <<>>
        <5>1. 1 \in 1..L
          BY <4>2 DEF TypeInv, TypeOK
        <5>2. QED  BY <4>2, <5>1, <1>5, <2>2 DEF Joining
      <4>3. QED  BY <4>1, <4>2
    <3>7. QED  BY <1>1, <1>2, <1>5, <2>2, <3>4, <3>5, <3>6 DEF Joining
  <2>3. QED  BY <1>1, <2>1, <2>2 DEF IInv, RxInv
<1>13. WholeMessages'
  BY <1>1 DEF IInv, WholeMessages
<1>14. QED  BY <1>6, <1>8, <1>9, <1>10, <1>11, <1>12, <1>13 DEF IInv, LinkInv

\* Reading a packet leaves the rest of the fibre as it was.
LEMMA TailIInv ==
  ASSUME TypeInv, IInv, link # <<>>, link' = Tail(link), tx' = tx, burst' = burst
  PROVE  /\ LinkGenuine' /\ LinkOrdered' /\ LinkGaps'
         /\ Len(link') = Len(link) - 1 /\ Len(link) \in Nat \ {0}
         /\ \A i \in 1..Len(link') : link'[i] = link[i + 1] /\ i + 1 \in 1..Len(link)
<1>1. Len(link') = Len(link) - 1 /\ Len(link) \in Nat \ {0}
      /\ \A i \in 1..Len(link') : link'[i] = link[i + 1] /\ i + 1 \in 1..Len(link)
  BY HeadTailProperties DEF TypeInv, TypeOK
<1>2. LinkGenuine'
  BY <1>1 DEF IInv, LinkInv, LinkGenuine, Genuine
<1>3. LinkOrdered'
  BY <1>1 DEF IInv, LinkInv, LinkOrdered
<1>4. LinkGaps'
  <2>1. ASSUME NEW i \in 1..(Len(link') - 1)
        PROVE  Follows(link'[i].msg, link'[i].current_pkt,
                       link'[i+1].msg, link'[i+1].current_pkt, link'[i+1].gap)
    <3>1. i + 1 \in 1..(Len(link) - 1) /\ i \in 1..Len(link') /\ i + 1 \in 1..Len(link')
      BY <1>1
    <3>2. QED  BY <3>1, <1>1 DEF IInv, LinkInv, LinkGaps
  <2>2. ASSUME link' # <<>>
        PROVE  Follows(link'[Len(link')].msg, link'[Len(link')].current_pkt,
                       tx'.msg, tx'.current_num, burst')
    <3>1. Len(link') # 0
      <4>1. link' \in Seq(Packets)
        BY HeadTailProperties DEF TypeInv, TypeOK
      <4>2. QED  BY <2>2, <4>1, EmptySeq
    <3>2. Len(link') \in 1..Len(link') /\ Len(link') + 1 = Len(link)
      BY <1>1, <3>1
    <3>3. link'[Len(link')] = link[Len(link)]
      BY <1>1, <3>2
    <3>4. QED  BY <3>3 DEF IInv, LinkInv, LinkGaps
  <2>3. QED  BY <2>1, <2>2 DEF LinkGaps
<1>5. QED  BY <1>1, <1>2, <1>3, <1>4

\* A refused packet: get_input_data forgets what it joined.
LEMMA RefusePacketIInv ==
  ASSUME TypeInv, IInv, RefusePacket
  PROVE  IInv'
<1>1. /\ link # <<>> /\ link' = Tail(link) /\ tx' = tx /\ burst' = burst
      /\ rx' = FreshRx /\ delivered' = delivered
  BY DEF RefusePacket
<1>2. LastDelivered' = LastDelivered
  BY <1>1 DEF LastDelivered
<1>3. LinkNewer'
  BY <1>1, <1>2, TailIInv DEF IInv, LinkInv, LinkNewer
<1>4. TxAhead' /\ WholeMessages'
  BY <1>1, <1>2 DEF IInv, TxAhead, Sending, WholeMessages
<1>5. RxInv'
  BY <1>1 DEF RxInv, FreshRx
<1>6. QED  BY <1>1, <1>3, <1>4, <1>5, TailIInv DEF IInv, LinkInv

\* A joined packet: by AcceptedFits it continues what is already there.
LEMMA JoinPacketIInv ==
  ASSUME ShortBursts, TypeInv, IInv, JoinPacket
  PROVE  /\ IInv'
         /\ Head(link).current_pkt \in 1..(Total(Head(link).msg) - 1)
         /\ rx'.data_receive = Joined(Head(link).msg, Head(link).current_pkt)
<1> DEFINE p == Head(link)
           m == p.msg
           k == p.current_pkt
<1>1. /\ link # <<>> /\ link' = Tail(link) /\ tx' = tx /\ burst' = burst
      /\ ~Refused(p) /\ k # p.total_size /\ delivered' = delivered
      /\ rx'.total_size = p.total_size
      /\ rx'.current_pack = k
      /\ rx'.data_receive = rx.data_receive \o p.data
  BY DEF JoinPacket
<1>2. LastDelivered' = LastDelivered
  BY <1>1 DEF LastDelivered
<1>3. LinkNewer'
  BY <1>1, <1>2, TailIInv DEF IInv, LinkInv, LinkNewer
<1>4. TxAhead' /\ WholeMessages'
  BY <1>1, <1>2 DEF IInv, TxAhead, Sending, WholeMessages
<1>5. /\ Genuine(p) /\ LastDelivered < m
      /\ rx.data_receive = Joined(m, k - 1)
  BY <1>1, AcceptedFits
<1>6. p = link[1] /\ 1 \in 1..Len(link)
  BY <1>1 DEF TypeInv, TypeOK
<1>7. /\ m \in 1..tx.msg /\ m \in 1..NMsg /\ Total(m) \in Nat \ {0}
      /\ k \in 1..Total(m) /\ p.total_size = Total(m) /\ p.data = Chunk(m, k)
  <2>1. /\ m \in 1..tx.msg /\ k \in 1..Total(m) /\ p.total_size = Total(m)
        /\ p.data = Chunk(m, k)
    BY <1>5 DEF Genuine
  <2>2. m \in 1..NMsg
    BY <2>1, LengthAssumption DEF TypeInv, TypeOK
  <2>3. QED  BY <2>1, <2>2, TotalBounds
<1>8. k < Total(m)
  BY <1>1, <1>7
<1>9. rx'.data_receive = Joined(m, k)
  <2>1. k - 1 \in Nat /\ (k - 1) + 1 = k
    BY <1>7
  <2>2. Joined(m, k - 1) \o Chunk(m, k) = Joined(m, k)
    BY <1>7, <1>8, <2>1, JoinChunk
  <2>3. QED  BY <1>1, <1>5, <1>7, <2>2
<1>10. Before(m, k, tx.msg, tx.current_num)
  BY <1>6 DEF IInv, LinkInv, LinkOrdered
<1>11. \A i \in 1..Len(link') : Before(m, k, link'[i].msg, link'[i].current_pkt)
  <2>1. ASSUME NEW i \in 1..Len(link')
        PROVE  Before(m, k, link'[i].msg, link'[i].current_pkt)
    <3>1. i + 1 \in 1..Len(link) /\ link'[i] = link[i + 1] /\ 1 < i + 1
      BY <1>1, TailIInv
    <3>2. QED  BY <1>6, <3>1 DEF IInv, LinkInv, LinkOrdered
  <2>2. QED  BY <2>1
<1>12. link' = <<>> => Follows(m, k, tx.msg, tx.current_num, burst)
  <2>1. ASSUME link' = <<>> PROVE Len(link) = 1
    <3>1. Len(link') = 0
      BY <2>1
    <3>2. Len(link') = Len(link) - 1 /\ Len(link) \in Nat
      BY <1>1, TailIInv
    <3>3. QED  BY <3>1, <3>2
  <2>2. QED  BY <1>1, <1>6, <2>1 DEF IInv, LinkInv, LinkGaps
<1>13. link' # <<>> => Follows(m, k, link'[1].msg, link'[1].current_pkt, link'[1].gap)
  <2>1. ASSUME link' # <<>> PROVE 1 \in 1..Len(link')
    <3>1. link' \in Seq(Packets)
      BY <1>1, HeadTailProperties DEF TypeInv, TypeOK
    <3>2. QED  BY <2>1, <3>1, EmptySeq
  <2>2. ASSUME link' # <<>>
        PROVE  link'[1] = link[1 + 1] /\ 1 \in 1..(Len(link) - 1)
    BY <1>1, <2>1, <2>2, TailIInv
  <2>3. QED  BY <1>6, <2>2 DEF IInv, LinkInv, LinkGaps
<1>14. RxInv'
  <2> HIDE DEF p, m, k
  <2>1. k \in 1..(Total(m) - 1)
    BY <1>7, <1>8
  <2>2. \A n : n = m => Joining(n)'
    BY <1>1, <1>2, <1>5, <1>7, <2>1, <1>9, <1>10, <1>11, <1>12, <1>13 DEF Joining
  <2>3. \E n \in 1..(tx'.msg) : Joining(n)'
    BY <1>1, <1>7, <2>2
  <2>4. QED  BY <2>3 DEF RxInv
<1>15. IInv'
  BY <1>1, <1>3, <1>4, <1>14, TailIInv DEF IInv, LinkInv
<1>16. QED  BY <1>7, <1>8, <1>9, <1>15

\* A complete message: it is a payload, newer than the last one delivered.
LEMMA DeliverMessageIInv ==
  ASSUME ShortBursts, TypeInv, IInv, DeliverMessage
  PROVE  IInv' /\ LastDelivered' = Head(link).msg
         /\ delivered' = Append(delivered, Payload(Head(link).msg))
         /\ LastDelivered < Head(link).msg /\ Head(link).msg \in 1..tx.msg
<1> DEFINE p == Head(link)
           m == p.msg
           k == p.current_pkt
<1>1. /\ link # <<>> /\ link' = Tail(link) /\ tx' = tx /\ burst' = burst
      /\ ~Refused(p) /\ k = p.total_size /\ rx' = FreshRx
      /\ delivered' = Append(delivered, rx.data_receive \o p.data)
  BY DEF DeliverMessage
<1>2. /\ Genuine(p) /\ LastDelivered < m
      /\ rx.data_receive = Joined(m, k - 1)
  BY <1>1, AcceptedFits
<1>3. p = link[1] /\ 1 \in 1..Len(link)
  BY <1>1 DEF TypeInv, TypeOK
<1>4. /\ m \in 1..tx.msg /\ m \in 1..NMsg /\ Total(m) \in Nat \ {0}
      /\ k \in 1..Total(m) /\ p.total_size = Total(m) /\ p.data = Chunk(m, k)
  <2>1. /\ m \in 1..tx.msg /\ k \in 1..Total(m) /\ p.total_size = Total(m)
        /\ p.data = Chunk(m, k)
    BY <1>2 DEF Genuine
  <2>2. m \in 1..NMsg
    BY <2>1, LengthAssumption DEF TypeInv, TypeOK
  <2>3. QED  BY <2>1, <2>2, TotalBounds
<1>5. k = Total(m)
  BY <1>1, <1>4
<1>6. rx.data_receive \o p.data = Payload(m)
  <2>1. k - 1 \in Nat /\ (k - 1) + 1 = k
    BY <1>4
  <2>2. Joined(m, k - 1) \o Chunk(m, k) = Payload(m)
    BY <1>4, <1>5, <2>1, JoinChunk
  <2>3. QED  BY <1>2, <1>4, <2>2
<1>7. delivered' = Append(delivered, Payload(m))
  BY <1>1, <1>6
<1> HIDE DEF p, m, k
<1>8. /\ delivered' # <<>> /\ Len(delivered) \in Nat /\ Len(delivered') = Len(delivered) + 1
      /\ delivered'[Len(delivered')] = Payload(m)
      /\ \A i \in 1..Len(delivered) : delivered'[i] = delivered[i]
      /\ DOMAIN delivered' = 1..Len(delivered') /\ DOMAIN delivered = 1..Len(delivered)
  <2>1. delivered \in Seq(Seq(Words)) /\ Payload(m) \in Seq(Words)
    BY <1>4, PayloadIsSeq DEF TypeInv, TypeOK, Words
  <2>2. QED  BY <1>7, <2>1, AppendProperties, LenProperties
<1>9. LastDelivered' = m
  BY <1>4, <1>8, PayloadIsSeq DEF LastDelivered
<1>10. WholeMessages'
  <2>1. ASSUME NEW i \in DOMAIN delivered'
        PROVE  \E n \in 1..(tx'.msg) : delivered'[i] = Payload(n)
    <3>1. CASE i \in 1..Len(delivered)
      BY <3>1, <1>1, <1>8 DEF IInv, WholeMessages
    <3>2. CASE i = Len(delivered')
      BY <3>2, <1>1, <1>4, <1>8
    <3>3. QED  BY <2>1, <3>1, <3>2, <1>8
  <2>2. QED  BY <2>1 DEF WholeMessages
<1>11. Before(m, k, tx.msg, tx.current_num)
  BY <1>3 DEF IInv, LinkInv, LinkOrdered, m, k
<1>12. TxAhead'
  <2>1. tx.msg \in Nat /\ tx.current_num \in Nat
    BY LengthAssumption DEF TypeInv, TypeOK
  <2>2. Sending => tx.current_num <= Total(tx.msg)
    BY DEF Sending, Total
  <2>3. Sending => m < tx.msg
    BY <2>1, <2>2, <1>4, <1>5, <1>11 DEF Before
  <2>4. Sending' = Sending
    BY <1>1 DEF Sending
  <2>5. QED  BY <1>1, <1>4, <1>9, <2>3, <2>4 DEF TxAhead
<1>13. LinkNewer'
  <2>1. ASSUME NEW i \in 1..Len(link')
        PROVE  m < link'[i].msg
    <3>1. i + 1 \in 1..Len(link) /\ link'[i] = link[i + 1] /\ 1 < i + 1
      BY <1>1, TailIInv
    <3>2. Before(m, k, link[i + 1].msg, link[i + 1].current_pkt)
      BY <1>3, <3>1 DEF IInv, LinkInv, LinkOrdered, m, k
    <3>3. link[i + 1].current_pkt \in 1..Total(link[i + 1].msg)
      BY <3>1 DEF IInv, LinkInv, LinkGenuine, Genuine
    <3>4. QED  BY <1>4, <1>5, <3>1, <3>2, <3>3 DEF Before
  <2>2. QED  BY <1>9, <2>1 DEF LinkNewer
<1>14. RxInv'
  BY <1>1 DEF RxInv, FreshRx
<1>15. IInv'
  BY <1>1, <1>10, <1>12, <1>13, <1>14, TailIInv DEF IInv, LinkInv
<1>16. QED  BY <1>2, <1>4, <1>7, <1>9, <1>15 DEF m, p

\* A stuttering step changes nothing the invariant reads.
LEMMA StutterIInv ==
  ASSUME TypeInv, IInv, UNCHANGED vars
  PROVE  IInv'
BY DEF vars, IInv, TxAhead, LinkInv, LinkGenuine, LinkNewer, LinkOrdered, LinkGaps,
       RxInv, Joining, WholeMessages, Sending, LastDelivered, Genuine, FreshRx

\* Every step keeps the inductive invariant, if bursts are shorter than messages.
LEMMA StepIInv ==
  ASSUME ShortBursts
  PROVE  TypeInv /\ IInv /\ [Next]_vars => IInv'
<1> SUFFICES ASSUME TypeInv, IInv, [Next]_vars PROVE IInv'
  OBVIOUS
<1>1. CASE StartWrite
  BY <1>1, StartWriteIInv
<1>2. CASE SendPacket
  BY <1>2, SendPacketIInv
<1>3. CASE LosePacket
  BY <1>3, LosePacketIInv
<1>4. CASE RefusePacket
  BY <1>4, RefusePacketIInv
<1>5. CASE JoinPacket
  BY <1>5, JoinPacketIInv
<1>6. CASE DeliverMessage
  BY <1>6, DeliverMessageIInv
<1>7. CASE UNCHANGED vars
  BY <1>7, StutterIInv
<1>8. QED
  BY <1>1, <1>2, <1>3, <1>4, <1>5, <1>6, <1>7 DEF Next, RxPacket

\* Under the same assumption it holds in every state of every behaviour.
LEMMA Invariant ==
  ASSUME ShortBursts
  PROVE  Spec => [](TypeInv /\ IInv)
<1>1. Init => TypeInv /\ IInv
  BY InitTypeInv, InitIInv
<1>2. TypeInv /\ IInv /\ [Next]_vars => (TypeInv /\ IInv)'
  BY StepTypeInv, StepIInv
<1>3. QED  BY <1>1, <1>2, PTL DEF Spec

\* As long as no run of lost packets is as long as a message of several
\* packets, whatever the lengths of the messages and the number of losses,
\* get_input_data hands over whole messages only.
THEOREM OnlyWholeMessages ==
  ASSUME ShortBursts
  PROVE  Spec => []WholeMessages
<1>1. IInv => WholeMessages
  BY DEF IInv
<1>2. QED  BY <1>1, Invariant, PTL

\* Under the same assumption the packet layer implements MessageTransfer:
\* every packet step is a stutter of the whole-message transfer, the writing
\* of a message or the delivery of a newer one.
THEOREM TransferRefinement ==
  ASSUME ShortBursts
  PROVE  Spec => ImplementsTransfer
<1>1. Init => Transfer!Init
  BY DEF Init, Transfer!Init, LastDelivered
<1>2. TypeInv /\ IInv /\ [Next]_vars => [Transfer!Next]_(Transfer!vars)
  <2> SUFFICES ASSUME TypeInv, IInv, [Next]_vars
               PROVE  [Transfer!Next]_(Transfer!vars)
    OBVIOUS
  <2>1. CASE StartWrite
    <3>1. Transfer!Write
      BY <2>1 DEF StartWrite, Transfer!Write, LastDelivered
    <3>2. QED  BY <3>1 DEF Transfer!Next
  <2>2. CASE DeliverMessage
    <3>1. /\ LastDelivered' = Head(link).msg /\ LastDelivered < Head(link).msg
          /\ Head(link).msg \in 1..tx.msg
          /\ delivered' = Append(delivered, Payload(Head(link).msg)) /\ tx' = tx
      BY <2>2, DeliverMessageIInv DEF DeliverMessage
    <3>2. Head(link).msg \in 1..NMsg /\ Head(link).msg <= tx.msg
      BY <3>1, LengthAssumption DEF TypeInv, TypeOK
    <3>3. Transfer!Deliver(Head(link).msg)
      BY <3>1, <3>2 DEF Transfer!Deliver
    <3>4. QED  BY <3>2, <3>3 DEF Transfer!Next
  <2>3. CASE SendPacket \/ LosePacket
    <3>1. tx'.msg = tx.msg /\ delivered' = delivered
      BY <2>3, NextPacketInv DEF SendPacket, LosePacket
    <3>2. QED  BY <3>1 DEF Transfer!vars, LastDelivered
  <2>4. CASE RefusePacket \/ JoinPacket
    BY <2>4 DEF RefusePacket, JoinPacket, Transfer!vars, LastDelivered
  <2>5. CASE UNCHANGED vars
    BY <2>5 DEF vars, Transfer!vars, LastDelivered
  <2>6. QED  BY <2>1, <2>2, <2>3, <2>4, <2>5 DEF Next, RxPacket
<1>3. QED
  BY <1>1, <1>2, Invariant, PTL DEF Spec, ImplementsTransfer, Transfer!Spec

-----------------------------------------------------------------------------
(* What a lost packet costs, under the same assumption                     *)

\* What get_input_data has joined is of message m.
InRx(m) == rx.data_receive # <<>> /\ rx.data_receive[1][1] = m

\* The first packet of m is still to be read, or to be sent.
Coming(m) ==
  \/ tx.msg = m /\ tx.current_num = 1
  \/ \E i \in 1..Len(link) : link[i].msg = m /\ link[i].current_pkt = 1

\* Nothing more can become of message m, for its first packet has been read
\* and is not kept.
Gone(m) == ~Coming(m) /\ ~InRx(m)

\* All that is still to be read, and what is kept, is of later messages.
Past(m) ==
  /\ m < tx.msg
  /\ \A i \in 1..Len(link) : m < link[i].msg
  /\ ~InRx(m)

\* How many packets of a message have been cut.
Cut(m) == IF m < tx.msg THEN Total(m) ELSE tx.current_num - 1

\* No packet of m is missing: packet k is at place i + k of the link, the
\* packets before the first place are in rx, the others are not yet cut.
OnItsWay(m, i) ==
  /\ 0 - i < Total(m)
  /\ i < 0 => InRx(m) /\ rx.current_pack = 0 - i
  /\ \A k \in 1..Cut(m) :
       i + k >= 1 =>
         /\ i + k <= Len(link)
         /\ link[i + k].msg = m
         /\ link[i + k].current_pkt = k
  /\ Cut(m) < Total(m) => i + Cut(m) = Len(link)

\* What has become of a message no packet of which was lost: it was handed
\* over, found rx not empty (it is in H then), or did not fit; or it is on its way.
Kept(m, H) ==
  \/ Gone(m) /\ (m \in Handed \cup H \/ Length[m] > LimitedLength)
  \/ \E i \in Int : OnItsWay(m, i)

\* L are the messages that lost a packet, D those of them the head of which was
\* in rx when the first packet of another message came, which is in H then.
Budget(L, D, H) ==
  /\ L \subseteq 1..tx.msg /\ D \subseteq L /\ H \subseteq 1..tx.msg
  /\ Cardinality(L) <= lost
  /\ Cardinality(H) <= Cardinality(D)
  /\ \A m \in D : Past(m)
  /\ \A m \in (1..tx.msg) \ L : Kept(m, H)

BudgetInv == \E L, D, H \in SUBSET (1..tx.msg) : Budget(L, D, H)

\* What is joined of a message begins with its first word.
LEMMA JoinedFirst ==
  ASSUME NEW m \in 1..NMsg, NEW c \in 1..(Total(m) - 1)
  PROVE  /\ Joined(m, c) # <<>> /\ Joined(m, c)[1] = <<m, 1>>
         /\ Len(Joined(m, c)) <= Length[m]
<1>1. Total(m) \in Nat \ {0} /\ MaxPack \in Nat \ {0} /\ Length[m] \in Nat \ {0}
  BY TotalBounds, MaxPackAssumption, LengthAssumption
<1>2. c \in 1..Total(m) /\ c < Total(m)
  BY <1>1
<1>3. Offset(c) \in Nat /\ Offset(c + 1) = Offset(c) + MaxPack /\ Offset(c + 1) <= Length[m]
  BY <1>2, ChunkBounds
<1>4. Offset(c + 1) \in 1..Length[m]
  BY <1>1, <1>3
<1> DEFINE b == Offset(c + 1)
<1> HIDE DEF b
<1>5. Joined(m, c) = SubSeq(Payload(m), 1, b) /\ b \in 1..Length[m]
  BY <1>4 DEF Joined, b
<1>6. /\ Payload(m) \in Seq(Words) /\ Len(Payload(m)) = Length[m]
      /\ Payload(m)[1] = <<m, 1>>
  BY PayloadIsSeq
<1>7. Len(SubSeq(Payload(m), 1, b)) = b /\ SubSeq(Payload(m), 1, b)[1] = Payload(m)[1]
  BY <1>1, <1>5, <1>6
<1>8. QED  BY <1>1, <1>5, <1>6, <1>7

\* Whose packets rx holds.
LEMMA RxHolds ==
  ASSUME TypeInv, IInv
  PROVE  /\ rx = FreshRx => \A m \in 1..tx.msg : ~InRx(m)
         /\ \A m \in 1..tx.msg : InRx(m) <=> Joining(m)
         /\ \A m, n \in 1..tx.msg : InRx(m) /\ InRx(n) => m = n
         /\ rx # FreshRx => \E m \in 1..tx.msg : InRx(m)
<1>1. tx.msg \in 0..NMsg /\ NMsg \in Nat
  BY LengthAssumption DEF TypeInv, TypeOK
<1>2. rx = FreshRx => \A m \in 1..tx.msg : ~InRx(m) /\ ~Joining(m)
  <2> SUFFICES ASSUME rx = FreshRx, NEW m \in 1..tx.msg
               PROVE  ~InRx(m) /\ ~Joining(m)
    OBVIOUS
  <2>1. rx.data_receive = <<>> /\ rx.current_pack = 0
    BY DEF FreshRx
  <2>2. m \in 1..NMsg
    BY <1>1
  <2>3. Total(m) \in Nat
    BY <2>2, TotalBounds
  <2>4. QED  BY <2>1, <2>3 DEF InRx, Joining
<1>3. ASSUME NEW m \in 1..tx.msg, Joining(m)
      PROVE  rx.data_receive # <<>> /\ rx.data_receive[1] = <<m, 1>>
  <2>1. m \in 1..NMsg
    BY <1>1
  <2>2. QED  BY <1>3, <2>1, JoinedFirst DEF Joining
<1>4. \A m \in 1..tx.msg : Joining(m) => InRx(m)
  BY <1>3 DEF InRx
<1>5. \A m \in 1..tx.msg : InRx(m) => Joining(m)
  <2> SUFFICES ASSUME NEW m \in 1..tx.msg, InRx(m) PROVE Joining(m)
    OBVIOUS
  <2>1. rx # FreshRx
    BY <1>2
  <2>2. PICK n \in 1..tx.msg : Joining(n)
    BY <2>1 DEF IInv, RxInv
  <2>3. rx.data_receive[1] = <<n, 1>>
    BY <1>3, <2>2
  <2>4. n = m
    BY <2>3 DEF InRx
  <2>5. QED  BY <2>2, <2>4
<1>6. \A m, n \in 1..tx.msg : InRx(m) /\ InRx(n) => m = n
  BY DEF InRx
<1>7. rx # FreshRx => \E m \in 1..tx.msg : InRx(m)
  BY <1>4 DEF IInv, RxInv
<1>8. QED  BY <1>2, <1>4, <1>5, <1>6, <1>7

\* The packets on the link are of messages sent, in the order of their numbers.
LEMMA LinkFacts ==
  ASSUME TypeInv, IInv
  PROVE  /\ tx.msg \in 0..NMsg /\ NMsg \in Nat /\ Len(link) \in Nat
         /\ tx.current_num \in Nat \ {0}
         /\ \A m \in 1..tx.msg : Total(m) \in Nat \ {0} /\ m \in 1..NMsg /\ Length[m] \in Nat
         /\ \A i \in 1..Len(link) :
              /\ link[i].msg \in 1..tx.msg
              /\ link[i].current_pkt \in 1..Total(link[i].msg)
              /\ link[i].current_pkt \in Nat
              /\ link[i].msg <= tx.msg
              /\ link[i].msg = tx.msg => link[i].current_pkt < tx.current_num
         /\ \A i, j \in 1..Len(link) :
              i < j => /\ link[i].msg <= link[j].msg
                       /\ link[i].msg = link[j].msg =>
                            link[i].current_pkt < link[j].current_pkt
         /\ \A m \in 1..tx.msg : Cut(m) \in 0..Total(m)
<1>1. /\ tx.msg \in 0..NMsg /\ NMsg \in Nat /\ tx.current_num \in Nat \ {0}
      /\ Len(link) \in Nat
  BY LengthAssumption DEF TypeInv, TypeOK
<1>2. \A m \in 1..tx.msg : Total(m) \in Nat \ {0} /\ m \in 1..NMsg /\ Length[m] \in Nat
  BY <1>1, TotalBounds, LengthAssumption
<1>3. \A i \in 1..Len(link) :
        /\ link[i].msg \in 1..tx.msg
        /\ link[i].current_pkt \in 1..Total(link[i].msg)
  BY DEF IInv, LinkInv, LinkGenuine, Genuine
<1>4. \A i \in 1..Len(link) : link[i].msg \in Int /\ link[i].current_pkt \in Nat
  BY <1>1, <1>2, <1>3
<1>5. \A i \in 1..Len(link) :
        /\ link[i].msg <= tx.msg
        /\ link[i].msg = tx.msg => link[i].current_pkt < tx.current_num
  BY <1>1, <1>3, <1>4 DEF IInv, LinkInv, LinkOrdered, Before
<1>6. \A i, j \in 1..Len(link) :
        i < j => /\ link[i].msg <= link[j].msg
                 /\ link[i].msg = link[j].msg =>
                      link[i].current_pkt < link[j].current_pkt
  BY <1>4 DEF IInv, LinkInv, LinkOrdered, Before
<1>7. ASSUME NEW m \in 1..tx.msg
      PROVE  Cut(m) \in 0..Total(m)
  <2>1. CASE m < tx.msg
    BY <1>2, <2>1 DEF Cut
  <2>2. CASE m = tx.msg
    <3>1. tx.current_num <= Total(tx.msg) + 1
      BY <1>1, <2>2 DEF TypeInv, TxInv
    <3>2. QED  BY <1>1, <1>2, <2>2, <3>1 DEF Cut
  <2>3. QED  BY <1>1, <2>1, <2>2
<1>8. QED  BY <1>1, <1>2, <1>3, <1>4, <1>5, <1>6, <1>7

\* When rx holds what there is of a message on its way, or nothing is before its
\* first packet, the next packet read is the next of the message.
LEMMA WayFacts ==
  ASSUME TypeInv, IInv, link # <<>>, NEW m \in 1..tx.msg, NEW i \in Int, OnItsWay(m, i),
         i <= 0
  PROVE  /\ link[1].msg = m /\ link[1].current_pkt = 1 - i
         /\ 1 - i \in 1..Cut(m)
<1>1. Len(link) \in Nat /\ Total(m) \in Nat \ {0} /\ Cut(m) \in 0..Total(m)
  BY LinkFacts
<1>2. Len(link) >= 1
  BY DEF TypeInv, TypeOK
<1>3. 1 - i \in 1..Total(m)
  BY <1>1 DEF OnItsWay
<1>4. 1 - i \in 1..Cut(m)
  <2>1. CASE Cut(m) < Total(m)
    <3>1. i + Cut(m) >= 1
      BY <1>2, <2>1 DEF OnItsWay
    <3>2. QED  BY <1>1, <1>3, <3>1
  <2>2. CASE Cut(m) = Total(m)
    BY <1>3, <2>2
  <2>3. QED  BY <1>1, <2>1, <2>2
<1>5. i + (1 - i) = 1
  OBVIOUS
<1>6. QED  BY <1>4, <1>5 DEF OnItsWay

\* Reading a packet moves the others one place towards the receiver,
LEMMA ReadMoves ==
  ASSUME TypeInv, IInv, link # <<>>, link' = Tail(link), tx' = tx, burst' = burst,
         NEW m \in 1..tx.msg
  PROVE  /\ Cut(m)' = Cut(m)
         /\ \A i \in Int : i > 0 /\ OnItsWay(m, i) => OnItsWay(m, i - 1)'
         /\ ~Coming(m) => ~Coming(m)'
         /\ link[1].msg = m => ~Coming(m)'
         /\ (\A i \in 1..Len(link) : m < link[i].msg) =>
              \A i \in 1..Len(link') : m < link'[i].msg
<1>1. /\ Len(link') = Len(link) - 1 /\ Len(link) \in Nat \ {0}
      /\ \A i \in 1..Len(link') : link'[i] = link[i + 1] /\ i + 1 \in 1..Len(link)
  BY TailIInv
<1>2. Cut(m)' = Cut(m)
  BY DEF Cut
<1>3. Total(m) \in Nat \ {0} /\ Cut(m) \in 0..Total(m)
  BY LinkFacts
<1>4. ASSUME NEW i \in Int, i > 0, OnItsWay(m, i)
      PROVE  OnItsWay(m, i - 1)'
    <2>1. ASSUME NEW k \in 1..Cut(m), i - 1 + k >= 1
          PROVE  /\ i - 1 + k <= Len(link')
                 /\ link'[i - 1 + k].msg = m
                 /\ link'[i - 1 + k].current_pkt = k
      <3>1. i + k >= 1 /\ k \in Int
        BY <2>1, <1>3, <1>4
      <3>2. /\ i + k <= Len(link)
            /\ link[i + k].msg = m
            /\ link[i + k].current_pkt = k
        BY <1>4, <3>1 DEF OnItsWay
      <3>3. i - 1 + k \in 1..Len(link') /\ (i - 1 + k) + 1 = i + k
        BY <1>1, <2>1, <3>1, <3>2
      <3>4. link'[i - 1 + k] = link[i + k]
        BY <1>1, <3>3
      <3>5. QED  BY <3>2, <3>3, <3>4
    <2>2. Cut(m) < Total(m) => i - 1 + Cut(m) = Len(link')
      BY <1>1, <1>3, <1>4 DEF OnItsWay
    <2>3. 0 - (i - 1) < Total(m) /\ ~(i - 1 < 0)
      BY <1>3, <1>4
    <2>4. QED
      BY <1>2, <2>1, <2>2, <2>3 DEF OnItsWay
<1>5. ASSUME ~Coming(m)
      PROVE  ~Coming(m)'
  BY <1>1, <1>5 DEF Coming
<1>6. ASSUME link[1].msg = m
      PROVE  ~Coming(m)'
  <2>1. 1 \in 1..Len(link)
    BY <1>1
  <2>2. /\ link[1].current_pkt \in Nat \ {0}
        /\ link[1].msg = tx.msg => link[1].current_pkt < tx.current_num
    BY <2>1, <1>3, <1>6, LinkFacts
  <2>3. ~(tx'.msg = m /\ tx'.current_num = 1)
    BY <1>6, <2>2, LinkFacts
  <2>4. ASSUME NEW i \in 1..Len(link'), link'[i].msg = m
        PROVE  link'[i].current_pkt # 1
    <3>1. i + 1 \in 1..Len(link) /\ link'[i] = link[i + 1] /\ 1 < i + 1
      BY <1>1
    <3>2. link[1].current_pkt < link[i + 1].current_pkt
      BY <1>6, <2>1, <2>4, <3>1, LinkFacts
    <3>3. link[i + 1].current_pkt \in Nat
      BY <3>1, LinkFacts
    <3>4. QED  BY <2>2, <3>1, <3>2, <3>3
  <2>5. QED  BY <2>3, <2>4 DEF Coming
<1>7. ASSUME \A i \in 1..Len(link) : m < link[i].msg, NEW i \in 1..Len(link')
      PROVE  m < link'[i].msg
  BY <1>1, <1>7
<1>8. QED  BY <1>2, <1>4, <1>5, <1>6, <1>7

\* A packet that is accepted when rx holds packets of m is of m.
LEMMA AcceptedOfSame ==
  ASSUME ShortBursts, TypeInv, IInv, link # <<>>, ~Refused(Head(link)),
         NEW m \in 1..tx.msg, InRx(m)
  PROVE  link[1].msg = m
<1>1. 1 \in 1..Len(link) /\ Head(link) = link[1]
  BY DEF TypeInv, TypeOK
<1>2. Joining(m) /\ m \in 1..NMsg /\ Total(m) \in Nat \ {0}
  BY RxHolds, LinkFacts
<1>3. Genuine(link[1])
  BY <1>1 DEF IInv, LinkInv, LinkGenuine
<1>4. link[1].gap \in 0..MaxBurst /\ link[1].msg \in 1..NMsg
  BY <1>3, LinkFacts DEF Genuine
<1>5. rx.current_pack \in 1..(Total(m) - 1)
  BY <1>2 DEF Joining
<1>6. link[1].current_pkt = rx.current_pack + 1
  <2>1. link[1].current_pkt - 1 = rx.current_pack
    BY <1>1 DEF Refused
  <2>2. link[1].current_pkt \in Nat
    BY <1>1, LinkFacts
  <2>3. QED  BY <2>1, <2>2
<1>7. Follows(m, rx.current_pack, link[1].msg, rx.current_pack + 1, link[1].gap)
  BY <1>2, <1>6 DEF Joining
<1>8. QED  BY <1>2, <1>4, <1>5, <1>7, NoMixing

\* An accepted packet: the messages behind it move on, and what was joined is of
\* its message.
LEMMA AcceptedKept ==
  ASSUME ShortBursts, TypeInv, IInv, link # <<>>, ~Refused(Head(link)),
         link' = Tail(link), tx' = tx, burst' = burst, delivered' = delivered \/ DeliverMessage,
         NEW m \in 1..tx.msg, m # link[1].msg, ~InRx(m)',
         NEW H, Kept(m, H)
  PROVE  Kept(m, H)'
<1>1. CASE Gone(m) /\ (m \in Handed \cup H \/ Length[m] > LimitedLength)
  <2>1. Gone(m)'
    BY <1>1, ReadMoves DEF Gone
  <2>2. m \in Handed => m \in Handed'
    <3>1. CASE delivered' = delivered
      BY <3>1 DEF Handed
    <3>2. CASE DeliverMessage
      <4>1. delivered' = Append(delivered, Payload(Head(link).msg)) /\ Head(link).msg \in 1..tx.msg
        BY <3>2, DeliverMessageIInv
      <4>2. delivered \in Seq(Seq(Words)) /\ Payload(Head(link).msg) \in Seq(Words)
        BY <4>1, LinkFacts, PayloadIsSeq DEF TypeInv, TypeOK, Words
      <4>3. /\ DOMAIN delivered \subseteq DOMAIN delivered'
            /\ \A i \in DOMAIN delivered : delivered'[i] = delivered[i]
        BY <4>1, <4>2, AppendProperties
      <4>4. QED  BY <4>3 DEF Handed
    <3>3. QED  BY <3>1, <3>2
  <2>3. QED  BY <1>1, <2>1, <2>2 DEF Kept
<1>2. ASSUME NEW i \in Int, OnItsWay(m, i)
      PROVE  Kept(m, H)'
  <2>1. i > 0
    BY <1>2, WayFacts
  <2>2. OnItsWay(m, i - 1)'
    BY <1>2, <2>1, ReadMoves
  <2>3. i - 1 \in Int
    OBVIOUS
  <2>4. QED  BY <2>2, <2>3 DEF Kept
<1>3. QED  BY <1>1, <1>2 DEF Kept

\* The budget at the start; the lemmas up to StepBudget show that each action
\* keeps it.
LEMMA InitBudget == Init => BudgetInv
<1> SUFFICES ASSUME Init PROVE BudgetInv
  OBVIOUS
<1>1. tx.msg = 0 /\ lost = 0
  BY DEF Init
<1>2. Budget({}, {}, {})
  <2>1. Cardinality({}) = 0
    BY FS_EmptySet
  <2>2. 1..tx.msg = {}
    BY <1>1
  <2>3. QED  BY <1>1, <2>1, <2>2 DEF Budget
<1>3. QED  BY <1>2 DEF BudgetInv

\* A joined packet is the next of a message on its way, or of one that lost a packet.
LEMMA JoinBudget ==
  ASSUME ShortBursts, TypeInv, IInv, JoinPacket, BudgetInv
  PROVE  BudgetInv'
<1> DEFINE m0 == link[1].msg
           k0 == link[1].current_pkt
<1>1. /\ link # <<>> /\ link' = Tail(link) /\ tx' = tx /\ burst' = burst
      /\ ~Refused(Head(link)) /\ delivered' = delivered /\ lost' = lost
      /\ rx'.current_pack = Head(link).current_pkt
  BY DEF JoinPacket
<1>2. Head(link) = link[1] /\ 1 \in 1..Len(link)
  BY <1>1 DEF TypeInv, TypeOK
<1>3. /\ m0 \in 1..tx.msg /\ k0 \in 1..(Total(m0) - 1) /\ m0 \in 1..NMsg
      /\ Total(m0) \in Nat \ {0} /\ k0 \in Nat \ {0}
  BY <1>2, LinkFacts, JoinPacketIInv
<1>4. rx'.data_receive # <<>> /\ rx'.data_receive[1] = <<m0, 1>>
  BY <1>2, <1>3, JoinPacketIInv, JoinedFirst
<1>5. \A m \in 1..tx.msg : InRx(m)' <=> m = m0
  BY <1>4 DEF InRx
<1>6. rx.current_pack = k0 - 1
  <2>1. k0 - 1 = rx.current_pack
    BY <1>1, <1>2 DEF Refused
  <2>2. QED  BY <1>3, <2>1
<1>7. k0 = 1 => Coming(m0)
  BY <1>2 DEF Coming
<1>8. k0 # 1 => InRx(m0)
  <2>1. k0 # 1 => rx # FreshRx
    BY <1>3, <1>6 DEF FreshRx
  <2>2. QED  BY <1>1, <2>1, RxHolds, AcceptedOfSame
<1>9. PICK L, D, H \in SUBSET (1..tx.msg) : Budget(L, D, H)
  BY DEF BudgetInv
<1> HIDE DEF m0, k0
<1>10. ASSUME NEW m \in D
       PROVE  Past(m)'
  <2>1. m \in 1..tx.msg /\ Past(m)
    BY <1>9 DEF Budget
  <2>2. m < m0
    BY <1>2, <2>1 DEF Past, m0
  <2>3. ~InRx(m)'
    BY <1>3, <1>5, <2>1, <2>2
  <2>4. QED  BY <1>1, <2>1, <2>3, ReadMoves DEF Past
<1>11. ASSUME NEW m \in (1..tx.msg) \ L
       PROVE  Kept(m, H)'
  <2>1. Kept(m, H)
    BY <1>9 DEF Budget
  <2>2. CASE m # m0
    BY <1>1, <1>5, <2>1, <2>2, AcceptedKept DEF m0
  <2>3. CASE m = m0
    <3>1. ~Gone(m)
      BY <1>7, <1>8, <2>3 DEF Gone
    <3>2. PICK i \in Int : OnItsWay(m, i)
      BY <2>1, <3>1 DEF Kept
    <3>3. i <= 0
      <4>1. ASSUME i > 0 PROVE FALSE
        <5>1. /\ Cut(m) \in 0..Total(m) /\ Len(link) \in Nat
          BY LinkFacts
        <5>2. Cut(m) # 0
          <6>1. CASE m < tx.msg
            BY <1>3, <2>3, <6>1 DEF Cut
          <6>2. CASE m = tx.msg
            <7>1. k0 < tx.current_num /\ tx.current_num \in Nat
              BY <1>2, <2>3, <6>2, LinkFacts DEF m0, k0
            <7>2. QED  BY <1>3, <6>2, <7>1 DEF Cut
          <6>3. QED  BY <6>1, <6>2, LinkFacts
        <5>3. 1 \in 1..Cut(m) /\ i + 1 >= 1
          BY <4>1, <5>1, <5>2
        <5>4. /\ i + 1 <= Len(link)
              /\ link[i + 1].msg = m
              /\ link[i + 1].current_pkt = 1
          BY <3>2, <5>3 DEF OnItsWay
        <5>5. i + 1 \in 1..Len(link) /\ 1 < i + 1
          BY <4>1, <5>1, <5>4
        <5>6. k0 < 1
          BY <1>2, <2>3, <5>4, <5>5, LinkFacts DEF m0, k0
        <5>7. QED  BY <1>3, <5>6
      <4>2. QED  BY <4>1
    <3>4. k0 = 1 - i /\ 1 - i \in 1..Cut(m)
      BY <1>1, <3>2, <3>3, WayFacts DEF k0
    <3>5. OnItsWay(m, i - 1)'
      <4>1. /\ Len(link') = Len(link) - 1 /\ Len(link) \in Nat \ {0}
            /\ \A j \in 1..Len(link') : link'[j] = link[j + 1] /\ j + 1 \in 1..Len(link)
        BY <1>1, TailIInv
      <4>2. Cut(m)' = Cut(m) /\ Cut(m) \in 0..Total(m)
        BY <1>1, ReadMoves, LinkFacts
      <4>3. ASSUME NEW k \in 1..Cut(m), i - 1 + k >= 1
            PROVE  /\ i - 1 + k <= Len(link')
                   /\ link'[i - 1 + k].msg = m
                   /\ link'[i - 1 + k].current_pkt = k
        <5>1. i + k >= 1 /\ k \in Int
          BY <4>2, <4>3
        <5>2. /\ i + k <= Len(link)
              /\ link[i + k].msg = m
              /\ link[i + k].current_pkt = k
          BY <3>2, <5>1 DEF OnItsWay
        <5>3. i - 1 + k \in 1..Len(link') /\ (i - 1 + k) + 1 = i + k
          BY <4>1, <4>3, <5>1, <5>2
        <5>4. link'[i - 1 + k] = link[i + k]
          BY <4>1, <5>3
        <5>5. QED  BY <5>2, <5>3, <5>4
      <4>4. Cut(m) < Total(m) => i - 1 + Cut(m) = Len(link')
        BY <3>2, <4>1, <4>2, <2>3, <1>3 DEF OnItsWay
      <4>5. 0 - (i - 1) < Total(m)
        BY <1>3, <2>3, <3>4
      <4>6. InRx(m)' /\ rx'.current_pack = 0 - (i - 1)
        BY <1>1, <1>2, <1>5, <2>3, <3>4 DEF k0
      <4>7. QED
        BY <4>2, <4>3, <4>4, <4>5, <4>6 DEF OnItsWay
    <3>6. i - 1 \in Int
      OBVIOUS
    <3>7. QED  BY <3>5, <3>6 DEF Kept
  <2>4. QED  BY <2>2, <2>3
<1>12. Budget(L, D, H)'
  BY <1>1, <1>9, <1>10, <1>11 DEF Budget
<1>13. QED  BY <1>1, <1>9, <1>12 DEF BudgetInv

\* A complete message has been handed over, and is gone.
LEMMA DeliverBudget ==
  ASSUME ShortBursts, TypeInv, IInv, DeliverMessage, BudgetInv
  PROVE  BudgetInv'
<1> DEFINE m0 == link[1].msg
<1>1. /\ link # <<>> /\ link' = Tail(link) /\ tx' = tx /\ burst' = burst
      /\ ~Refused(Head(link)) /\ rx' = FreshRx /\ lost' = lost
  BY DEF DeliverMessage
<1>2. Head(link) = link[1] /\ 1 \in 1..Len(link)
  BY <1>1 DEF TypeInv, TypeOK
<1>3. \A m \in 1..tx.msg : ~InRx(m)'
  BY <1>1 DEF InRx, FreshRx
<1>4. m0 \in 1..tx.msg /\ m0 \in 1..NMsg
  BY <1>2, LinkFacts
<1>5. m0 \in Handed'
  <2>1. delivered' = Append(delivered, Payload(m0))
    BY <1>2, DeliverMessageIInv
  <2>2. delivered \in Seq(Seq(Words)) /\ Payload(m0) \in Seq(Words)
        /\ Payload(m0) # <<>> /\ Payload(m0)[1] = <<m0, 1>>
    BY <1>4, PayloadIsSeq DEF TypeInv, TypeOK, Words
  <2> HIDE DEF m0
  <2>3. /\ Len(delivered) + 1 \in DOMAIN delivered'
        /\ delivered'[Len(delivered) + 1] = Payload(m0)
    BY <2>1, <2>2, AppendProperties
  <2>4. QED  BY <2>2, <2>3 DEF Handed
<1>6. PICK L, D, H \in SUBSET (1..tx.msg) : Budget(L, D, H)
  BY DEF BudgetInv
<1>7. ASSUME NEW m \in D
      PROVE  Past(m)'
  <2>1. m \in 1..tx.msg /\ Past(m)
    BY <1>6 DEF Budget
  <2>2. QED  BY <1>1, <1>3, <2>1, ReadMoves DEF Past
<1>8. ASSUME NEW m \in (1..tx.msg) \ L
      PROVE  Kept(m, H)'
  <2>1. Kept(m, H) /\ ~InRx(m)'
    BY <1>3, <1>6 DEF Budget
  <2>2. CASE m # m0
    BY <1>1, <2>1, <2>2, AcceptedKept
  <2>3. CASE m = m0
    <3>1. Gone(m)'
      BY <1>1, <2>1, <2>3, ReadMoves DEF Gone
    <3>2. QED  BY <1>5, <2>3, <3>1 DEF Kept
  <2>4. QED  BY <2>2, <2>3
<1> HIDE DEF m0
<1>9. Budget(L, D, H)'
  BY <1>1, <1>6, <1>7, <1>8 DEF Budget
<1>10. QED  BY <1>1, <1>6, <1>9 DEF BudgetInv

\* A refused packet of message m on its way: rx held packets of another message, or
\* m does not fit.
LEMMA RefusedWay ==
  ASSUME TypeInv, IInv, RefusePacket, NEW m \in 1..tx.msg, NEW i \in Int,
         OnItsWay(m, i), i <= 0
  PROVE  \/ Length[m] > LimitedLength
         \/ rx # FreshRx /\ link[1].current_pkt = 1
<1> DEFINE k == link[1].current_pkt
<1>1. link # <<>> /\ Refused(Head(link))
  BY DEF RefusePacket
<1>2. Head(link) = link[1] /\ 1 \in 1..Len(link)
  BY <1>1 DEF TypeInv, TypeOK
<1>3. link[1].msg = m /\ k = 1 - i /\ m \in 1..NMsg /\ Length[m] \in Nat
  BY <1>1, WayFacts, LinkFacts
<1>4. /\ k \in 1..Total(m) /\ link[1].total_size = Total(m)
      /\ link[1].data = Chunk(m, k)
  BY <1>2, <1>3 DEF IInv, LinkInv, LinkGenuine, Genuine
<1>5. Total(m) \in Nat \ {0}
  BY LinkFacts
<1> HIDE DEF k
<1>6. ASSUME i < 0 \/ rx = FreshRx
      PROVE  /\ rx.total_size = 0 \/ rx.total_size = Total(m)
             /\ rx.current_pack = k - 1 /\ rx.data_receive = Joined(m, k - 1)
  <2>1. CASE i < 0
    <3>1. Joining(m) /\ rx.current_pack = 0 - i
      BY <2>1, RxHolds DEF OnItsWay
    <3>2. rx.current_pack = k - 1
      BY <1>3, <3>1
    <3>3. QED  BY <3>1, <3>2 DEF Joining
  <2>2. CASE i = 0 /\ rx = FreshRx
    <3>1. k = 1
      BY <1>3, <2>2
    <3>2. QED  BY <1>3, <2>2, <3>1, JoinedNone DEF FreshRx
  <2>3. QED  BY <1>6, <2>1, <2>2
<1>7. ASSUME i < 0 \/ rx = FreshRx
      PROVE  Length[m] > LimitedLength
  <2>1. Len(Joined(m, k - 1)) + Len(Chunk(m, k)) > LimitedLength
    <3>1. ~(rx.total_size # 0 /\ rx.total_size # link[1].total_size)
      BY <1>4, <1>6, <1>7
    <3>2. ~(link[1].current_pkt - 1 # rx.current_pack)
      BY <1>6, <1>7 DEF k
    <3>3. Len(rx.data_receive) + Len(link[1].data) > LimitedLength
      BY <1>1, <1>2, <3>1, <3>2 DEF Refused
    <3>4. QED  BY <1>4, <1>6, <1>7, <3>3
  <2>2. Joined(m, k - 1) \in Seq(Words) /\ Chunk(m, k) \in Seq(Words)
    <3>1. rx.data_receive \in Seq(Words)
      BY DEF TypeInv, TypeOK, Words
    <3>2. QED  BY <1>3, <1>4, <1>6, <1>7, <3>1, ChunkIsSeq
  <2>3. Len(Joined(m, k - 1) \o Chunk(m, k)) = Len(Joined(m, k - 1)) + Len(Chunk(m, k))
    BY <2>2, ConcatProperties
  <2>4. Len(Joined(m, k - 1) \o Chunk(m, k)) <= Length[m]
    <3>1. k - 1 \in Nat /\ (k - 1) + 1 = k /\ k \in Nat
      BY <1>4, <1>5
    <3>2. CASE k < Total(m)
      <4>1. Joined(m, k - 1) \o Chunk(m, k) = Joined(m, k)
        BY <1>3, <1>4, <3>1, <3>2, JoinChunk
      <4>2. k \in 1..(Total(m) - 1)
        BY <1>4, <1>5, <3>2
      <4>3. QED  BY <1>3, <4>1, <4>2, JoinedFirst
    <3>3. CASE k = Total(m)
      <4>1. Joined(m, k - 1) \o Chunk(m, k) = Payload(m)
        BY <1>3, <1>4, <3>1, <3>3, JoinChunk
      <4>2. QED  BY <1>3, <4>1, PayloadIsSeq
    <3>4. QED  BY <1>4, <1>5, <3>2, <3>3
  <2>5. Len(Joined(m, k - 1)) \in Nat /\ Len(Chunk(m, k)) \in Nat /\ LimitedLength \in Nat
    BY <2>2, BoundsAssumption
  <2>6. QED  BY <1>3, <2>1, <2>3, <2>4, <2>5
<1>8. CASE i < 0 \/ rx = FreshRx
  BY <1>7, <1>8
<1>9. CASE i = 0 /\ rx # FreshRx
  <2>1. k = 1
    BY <1>3, <1>9
  <2>2. QED  BY <1>9, <2>1 DEF k
<1>10. QED  BY <1>8, <1>9

\* The message in rx when the first packet of another one comes has lost a packet.
LEMMA BrokenOff ==
  ASSUME TypeInv, IInv, link # <<>>, rx # FreshRx, link[1].current_pkt = 1,
         NEW L, NEW D, NEW H, Budget(L, D, H)
  PROVE  \E m \in L : InRx(m) /\ m < link[1].msg
<1>1. PICK m \in 1..tx.msg : InRx(m)
  BY RxHolds
<1>2. 1 \in 1..Len(link)
  BY DEF TypeInv, TypeOK
<1>3. /\ Joining(m) /\ Total(m) \in Nat \ {0} /\ rx.current_pack \in 1..(Total(m) - 1)
      /\ tx.msg \in Nat
  BY <1>1, RxHolds, LinkFacts DEF Joining
<1>4. m < link[1].msg /\ link[1].msg \in 1..tx.msg
  <2>1. Before(m, rx.current_pack, link[1].msg, link[1].current_pkt)
    BY <1>2, <1>3 DEF Joining
  <2>2. QED  BY <1>2, <1>3, <2>1, LinkFacts DEF Before
<1>5. ASSUME m \notin L PROVE FALSE
  <2>1. ~Gone(m)
    BY <1>1 DEF Gone
  <2>2. PICK i \in Int : OnItsWay(m, i)
    BY <1>1, <1>5, <2>1 DEF Budget, Kept
  <2>3. i > 0
    BY <1>4, <2>2, WayFacts
  <2>4. Cut(m) = Total(m)
    BY <1>3, <1>4 DEF Cut
  <2>5. 1 \in 1..Cut(m) /\ i + 1 >= 1
    BY <1>3, <2>3, <2>4
  <2>6. /\ i + 1 <= Len(link)
        /\ link[i + 1].msg = m
        /\ link[i + 1].current_pkt = 1
    BY <2>2, <2>5 DEF OnItsWay
  <2>7. i + 1 \in 1..Len(link)
    BY <2>3, <2>6
  <2>8. Before(m, rx.current_pack, link[i + 1].msg, link[i + 1].current_pkt)
    BY <1>3, <2>7 DEF Joining
  <2>9. QED  BY <1>3, <2>6, <2>8 DEF Before
<1>6. QED  BY <1>1, <1>4, <1>5

\* A refused packet: a message on its way is hurt only if its first packet came
\* when rx held part of one that lost a packet, which is charged for it once.
LEMMA RefuseBudget ==
  ASSUME TypeInv, IInv, RefusePacket, BudgetInv
  PROVE  BudgetInv'
<1>1. /\ link # <<>> /\ link' = Tail(link) /\ tx' = tx /\ burst' = burst
      /\ rx' = FreshRx /\ lost' = lost /\ delivered' = delivered
  BY DEF RefusePacket
<1>2. 1 \in 1..Len(link)
  BY <1>1 DEF TypeInv, TypeOK
<1>3. \A m \in 1..tx.msg : ~InRx(m)'
  BY <1>1 DEF InRx, FreshRx
<1>4. link[1].msg \in 1..tx.msg /\ tx.msg \in Nat
  BY <1>2, LinkFacts
<1>m. PICK m0 \in 1..tx.msg : m0 = link[1].msg
  BY <1>4
<1>5. PICK L, D, H \in SUBSET (1..tx.msg) : Budget(L, D, H)
  BY DEF BudgetInv
<1>6. ASSUME NEW m \in D
      PROVE  Past(m)'
  <2>1. m \in 1..tx.msg /\ Past(m)
    BY <1>5 DEF Budget
  <2>2. QED  BY <1>1, <1>3, <2>1, ReadMoves DEF Past
<1>7. ASSUME NEW m \in (1..tx.msg) \ L, NEW G, H \subseteq G,
             m = m0 /\ rx # FreshRx /\ link[1].current_pkt = 1 => m \in G
      PROVE  Kept(m, G)'
  <2>1. Kept(m, H) /\ ~InRx(m)'
    BY <1>3, <1>5 DEF Budget
  <2>2. CASE Gone(m) /\ (m \in Handed \cup H \/ Length[m] > LimitedLength)
    <3>1. Gone(m)'
      BY <1>1, <2>1, <2>2, ReadMoves DEF Gone
    <3>2. Handed' = Handed
      BY <1>1 DEF Handed
    <3>3. QED  BY <1>7, <2>2, <3>1, <3>2 DEF Kept
  <2>3. ASSUME NEW i \in Int, OnItsWay(m, i)
        PROVE  Kept(m, G)'
    <3>1. CASE i > 0
      <4>1. OnItsWay(m, i - 1)'
        BY <1>1, <2>3, <3>1, ReadMoves
      <4>2. i - 1 \in Int
        OBVIOUS
      <4>3. QED  BY <4>1, <4>2 DEF Kept
    <3>2. CASE i <= 0
      <4>1. m = m0
        BY <1>1, <1>m, <2>3, <3>2, WayFacts
      <4>2. Gone(m)'
        BY <1>1, <1>m, <2>1, <4>1, ReadMoves DEF Gone
      <4>3. m \in G \/ Length[m] > LimitedLength
        BY <1>7, <2>3, <3>2, <4>1, RefusedWay
      <4>4. QED  BY <4>2, <4>3 DEF Kept
    <3>3. QED  BY <3>1, <3>2
  <2>4. QED  BY <2>1, <2>2, <2>3 DEF Kept
<1>8. CASE ~(rx # FreshRx /\ link[1].current_pkt = 1)
  <2>1. \A m \in (1..tx.msg) \ L : Kept(m, H)'
    BY <1>7, <1>8
  <2>2. Budget(L, D, H)'
    BY <1>1, <1>5, <1>6, <2>1 DEF Budget
  <2>3. QED  BY <1>1, <1>5, <2>2 DEF BudgetInv
<1>9. CASE rx # FreshRx /\ link[1].current_pkt = 1
  <2>1. PICK n \in L : InRx(n) /\ n < m0
    BY <1>1, <1>m, <1>5, <1>9, BrokenOff
  <2>2. \A m \in (1..tx.msg) \ L : Kept(m, H \cup {m0})'
    BY <1>7
  <2>3. n \notin D /\ n \in 1..tx.msg
    BY <1>5, <2>1 DEF Budget, Past
  <2>4. Past(n)'
    <3>1. \A i \in 1..Len(link) : n < link[i].msg
      <4>1. ASSUME NEW i \in 1..Len(link) PROVE n < link[i].msg
        <5>1. m0 <= link[i].msg
          <6>1. CASE i = 1
            BY <1>4, <1>m, <6>1
          <6>2. CASE i # 1
            BY <1>2, <1>m, <6>2, LinkFacts
          <6>3. QED  BY <6>1, <6>2
        <5>2. link[i].msg \in Int /\ n \in Int /\ m0 \in Int
          BY SMTT(30), <1>4, <2>3, LinkFacts
        <5>3. QED  BY <2>1, <5>1, <5>2
      <4>2. QED  BY <4>1
    <3>2. n < tx.msg
      BY <1>4, <2>1, <2>3
    <3>3. QED  BY <1>1, <1>3, <2>3, <3>1, <3>2, ReadMoves DEF Past
  <2>5. /\ IsFiniteSet(D) /\ IsFiniteSet(H)
    <3>1. IsFiniteSet(1..tx.msg)
      BY <1>4, FS_Interval
    <3>2. QED  BY <1>5, <3>1, FS_Subset
  <2>6. /\ Cardinality(D \cup {n}) = Cardinality(D) + 1
        /\ Cardinality(H \cup {m0}) <= Cardinality(H) + 1
        /\ Cardinality(D) \in Nat /\ Cardinality(H) \in Nat
        /\ Cardinality(H \cup {m0}) \in Nat
    <3>1. Cardinality(D) \in Nat /\ Cardinality(H) \in Nat
      BY <2>5, FS_CardinalityType
    <3>2. Cardinality(D \cup {n}) = Cardinality(D) + 1
      BY <2>3, <2>5, FS_AddElement
    <3>3. CASE m0 \in H
      <4>1. H \cup {m0} = H
        BY <3>3
      <4>2. QED  BY <3>1, <3>2, <4>1
    <3>4. CASE m0 \notin H
      <4>1. Cardinality(H \cup {m0}) = Cardinality(H) + 1
        BY <2>5, <3>4, FS_AddElement
      <4>2. QED  BY <3>1, <3>2, <4>1
    <3>5. QED  BY <3>3, <3>4
  <2>7. Cardinality(H \cup {m0}) <= Cardinality(D \cup {n})
    <3>1. Cardinality(H) <= Cardinality(D)
      BY <1>5 DEF Budget
    <3>2. QED  BY <2>6, <3>1
  <2>8. /\ D \cup {n} \subseteq L /\ H \cup {m0} \subseteq 1..tx.msg
        /\ D \cup {n} \in SUBSET (1..tx.msg)
    BY <1>4, <1>5, <2>1, <2>3 DEF Budget
  <2>9. Budget(L, D \cup {n}, H \cup {m0})'
    BY <1>1, <1>5, <1>6, <2>2, <2>4, <2>7, <2>8 DEF Budget
  <2>10. QED  BY <1>1, <1>5, <2>8, <2>9 DEF BudgetInv
<1>10. QED  BY <1>8, <1>9

\* A new message is on its way, all of its packets still to be cut.
LEMMA StartBudget ==
  ASSUME TypeInv, IInv, StartWrite, BudgetInv
  PROVE  BudgetInv'
<1>1. /\ tx'.msg = tx.msg + 1 /\ tx'.current_num = 1
      /\ tx.msg \in Nat /\ tx.msg + 1 \in 1..NMsg
      /\ link' = link /\ rx' = rx /\ delivered' = delivered /\ lost' = lost
  BY LengthAssumption DEF StartWrite, TypeInv, TypeOK
<1>2. Len(link) \in Nat
  BY LinkFacts
<1>3. \A m \in 1..tx.msg : Cut(m) = Total(m) /\ Cut(m)' = Total(m) /\ Total(m) \in Nat
  <2> SUFFICES ASSUME NEW m \in 1..tx.msg
               PROVE  Cut(m) = Total(m) /\ Cut(m)' = Total(m) /\ Total(m) \in Nat
    OBVIOUS
  <2>1. Total(m) \in Nat \ {0} /\ Cut(m) \in 0..Total(m)
    BY LinkFacts
  <2>2. m = tx.msg => Cut(m) >= Total(m)
    <3>1. m = tx.msg => ~(tx.current_num <= Total(tx.msg))
      BY <1>1 DEF StartWrite, Sending, Total
    <3>2. tx.current_num \in Nat
      BY DEF TypeInv, TypeOK
    <3>3. QED  BY <1>1, <2>1, <3>1, <3>2 DEF Cut
  <2>3. QED  BY <1>1, <2>1, <2>2 DEF Cut
<1>4. PICK L, D, H \in SUBSET (1..tx.msg) : Budget(L, D, H)
  BY DEF BudgetInv
<1>5. ASSUME NEW m \in D
      PROVE  Past(m)'
  BY <1>1, <1>4 DEF Budget, Past, InRx
<1>6. ASSUME NEW m \in (1..tx.msg) \ L
      PROVE  Kept(m, H)'
  <2>1. Kept(m, H)
    BY <1>4 DEF Budget
  <2>2. Gone(m) => Gone(m)'
    BY <1>1 DEF Gone, Coming, InRx
  <2>3. \A i \in Int : OnItsWay(m, i) => OnItsWay(m, i)'
    BY <1>1, <1>3 DEF OnItsWay, InRx
  <2>4. Handed' = Handed
    BY <1>1 DEF Handed
  <2>5. QED  BY <2>1, <2>2, <2>3, <2>4 DEF Kept
<1>7. ASSUME NEW m, m = tx.msg + 1
      PROVE  Kept(m, H)'
  <2>1. m \in 1..NMsg /\ Cut(m)' = 0
    BY <1>1, <1>7 DEF Cut
  <2>2. Total(m) \in Nat \ {0}
    BY <2>1, TotalBounds
  <2>3. OnItsWay(m, Len(link))'
    BY <1>1, <1>2, <2>1, <2>2 DEF OnItsWay
  <2>4. OnItsWay(m, Len(link))' => Kept(m, H)'
    BY <1>1, <1>2 DEF Kept
  <2>5. QED  BY <2>3, <2>4
<1>8. 1..tx'.msg = (1..tx.msg) \cup {tx.msg + 1}
  BY <1>1
<1>9. Budget(L, D, H)'
  <2>1. \A m \in (1..tx'.msg) \ L : Kept(m, H)'
    BY <1>6, <1>7, <1>8
  <2>2. L \subseteq 1..tx'.msg /\ H \subseteq 1..tx'.msg
    BY <1>4, <1>8
  <2>3. QED  BY <1>1, <1>4, <1>5, <2>1, <2>2 DEF Budget
<1>10. QED  BY <1>4, <1>8, <1>9 DEF BudgetInv

\* A sent packet is the next of its message.
LEMMA SendBudget ==
  ASSUME TypeInv, IInv, SendPacket, BudgetInv
  PROVE  BudgetInv'
<1> DEFINE p == Packet(tx)
           l == Len(link)
<1>1. /\ tx'.msg = tx.msg /\ tx'.current_num = tx.current_num + 1
      /\ link' = Append(link, p) /\ rx' = rx /\ delivered' = delivered /\ lost' = lost
      /\ Sending
  BY NextPacketInv DEF SendPacket
<1>2. p \in Packets /\ p.msg = tx.msg /\ p.current_pkt = tx.current_num
  BY <1>1, PacketIsGenuine DEF Packet
<1> HIDE DEF p
<1>3. l \in Nat /\ Len(link') = l + 1 /\ link'[l + 1] = p
      /\ \A i \in 1..l : link'[i] = link[i]
  BY <1>1, <1>2, AppendProperties DEF TypeInv, TypeOK
<1>4. /\ tx.msg \in Nat \ {0} /\ tx.current_num \in Nat \ {0}
      /\ tx.current_num <= Total(tx.msg)
  BY <1>1, LinkFacts DEF Sending, Total
<1>5. \A i \in 1..(l + 1) : i \in 1..l \/ i = l + 1
  BY <1>3
<1>6. PICK L, D, H \in SUBSET (1..tx.msg) : Budget(L, D, H)
  BY DEF BudgetInv
<1>7. ASSUME NEW m \in D
      PROVE  Past(m)'
  BY <1>1, <1>2, <1>3, <1>5, <1>6 DEF Budget, Past, InRx
<1>8. ASSUME NEW m \in (1..tx.msg) \ L
      PROVE  Kept(m, H)'
  <2>1. Kept(m, H)
    BY <1>6 DEF Budget
  <2>2. ASSUME Gone(m) PROVE Gone(m)'
    <3>1. ~(tx'.msg = m /\ tx'.current_num = 1)
      BY <1>1, <1>4
    <3>2. \A i \in 1..(l + 1) : ~(link'[i].msg = m /\ link'[i].current_pkt = 1)
      BY <1>2, <1>3, <1>5, <2>2 DEF Gone, Coming
    <3>3. QED  BY <1>1, <1>3, <2>2, <3>1, <3>2 DEF Gone, Coming, InRx
  <2>3. Handed' = Handed
    BY <1>1 DEF Handed
  <2>4. ASSUME NEW i \in Int, OnItsWay(m, i) PROVE OnItsWay(m, i)'
    <3>1. Total(m) \in Nat \ {0} /\ Cut(m) \in 0..Total(m)
      BY LinkFacts
    <3>2. ASSUME NEW k \in 1..Cut(m), i + k >= 1
          PROVE  /\ i + k <= Len(link')
                 /\ link'[i + k].msg = m
                 /\ link'[i + k].current_pkt = k
      <4>1. /\ i + k <= l
            /\ link[i + k].msg = m
            /\ link[i + k].current_pkt = k
        BY <2>4, <3>2 DEF OnItsWay
      <4>2. i + k \in 1..l
        BY <1>3, <3>1, <3>2, <4>1
      <4>3. QED  BY <1>3, <4>1, <4>2
    <3>3. CASE m < tx.msg
      <4>1. Cut(m)' = Cut(m) /\ Cut(m) = Total(m)
        BY <1>1, <3>3 DEF Cut
      <4>2. QED  BY <1>1, <2>4, <3>1, <3>2, <4>1 DEF OnItsWay, InRx
    <3>4. CASE m = tx.msg
      <4>1. Cut(m)' = Cut(m) + 1 /\ Cut(m) < Total(m) /\ Cut(m) + 1 = tx.current_num
        <5>1. Cut(m) = tx.current_num - 1 /\ Cut(m)' = tx.current_num + 1 - 1
          BY <1>1, <1>4, <3>4 DEF Cut
        <5>2. QED  BY <1>4, <3>1, <3>4, <5>1
      <4>2. i + Cut(m) = l
        BY <2>4, <4>1 DEF OnItsWay
      <4>3. i + (Cut(m) + 1) = l + 1
        BY <1>3, <3>1, <4>2
      <4>4. ASSUME NEW k \in 1..(Cut(m) + 1), i + k >= 1
            PROVE  /\ i + k <= Len(link')
                   /\ link'[i + k].msg = m
                   /\ link'[i + k].current_pkt = k
        <5>1. CASE k = Cut(m) + 1
          BY <1>2, <1>3, <3>4, <4>1, <4>3, <5>1
        <5>2. CASE k # Cut(m) + 1
          <6>1. k \in 1..Cut(m)
            BY <3>1, <5>2
          <6>2. QED  BY <3>2, <4>4, <6>1
        <5>3. QED  BY <5>1, <5>2
      <4>5. QED  BY <1>1, <1>3, <2>4, <4>1, <4>3, <4>4 DEF OnItsWay, InRx
    <3>5. QED  BY <1>4, <3>3, <3>4
  <2>5. QED  BY <2>1, <2>2, <2>3, <2>4 DEF Kept
<1>9. Budget(L, D, H)'
  BY <1>1, <1>6, <1>7, <1>8 DEF Budget
<1>10. QED  BY <1>1, <1>6, <1>9 DEF BudgetInv

\* A lost packet costs its own message.
LEMMA LoseBudget ==
  ASSUME TypeInv, IInv, LosePacket, BudgetInv
  PROVE  BudgetInv'
<1>1. /\ tx'.msg = tx.msg /\ tx'.current_num = tx.current_num + 1
      /\ link' = link /\ rx' = rx /\ delivered' = delivered /\ lost' = lost + 1
      /\ Sending
  BY NextPacketInv DEF LosePacket
<1>2. tx.msg \in Nat \ {0} /\ tx.current_num \in Nat \ {0} /\ lost \in Nat
  BY <1>1, LinkFacts, BoundsAssumption DEF Sending, TypeInv, TypeOK
<1>3. PICK L, D, H \in SUBSET (1..tx.msg) : Budget(L, D, H)
  BY DEF BudgetInv
<1>4. ASSUME NEW m \in D
      PROVE  Past(m)'
  BY <1>1, <1>3 DEF Budget, Past, InRx
<1>m. PICK n \in 1..tx.msg : n = tx.msg
  BY <1>2
<1>5. ASSUME NEW m \in (1..tx.msg) \ (L \cup {n})
      PROVE  Kept(m, H)'
  <2>1. Kept(m, H) /\ m < tx.msg
    BY <1>2, <1>3, <1>m DEF Budget
  <2>2. Gone(m) => Gone(m)'
    BY <1>1, <1>m DEF Gone, Coming, InRx
  <2>3. Cut(m)' = Cut(m)
    BY <1>1, <2>1 DEF Cut
  <2>4. \A i \in Int : OnItsWay(m, i) => OnItsWay(m, i)'
    BY <1>1, <2>3 DEF OnItsWay, InRx
  <2>5. Handed' = Handed
    BY <1>1 DEF Handed
  <2>6. QED  BY <2>1, <2>2, <2>4, <2>5 DEF Kept
<1>6. Cardinality(L \cup {n}) <= lost + 1
  <2>1. IsFiniteSet(L)
    <3>1. IsFiniteSet(1..tx.msg)
      BY SMTT(30), <1>2, FS_Interval
    <3>2. QED  BY <1>3, <3>1, FS_Subset
  <2>2. Cardinality(L) \in Nat /\ Cardinality(L) <= lost
    BY <1>3, <2>1, FS_CardinalityType DEF Budget
  <2>3. CASE n \in L
    <3>1. L \cup {n} = L
      BY <2>3
    <3>2. QED  BY <1>2, <2>2, <3>1
  <2>4. CASE n \notin L
    <3>1. Cardinality(L \cup {n}) = Cardinality(L) + 1
      BY <2>1, <2>4, FS_AddElement
    <3>2. QED  BY <1>2, <2>2, <3>1
  <2>5. QED  BY <2>3, <2>4
<1>7. Budget(L \cup {n}, D, H)'
  BY <1>1, <1>3, <1>4, <1>5, <1>6 DEF Budget
<1>8. QED  BY <1>1, <1>3, <1>7 DEF BudgetInv

\* Every step keeps the budget.
LEMMA StepBudget ==
  ASSUME ShortBursts
  PROVE  TypeInv /\ IInv /\ BudgetInv /\ [Next]_vars => BudgetInv'
<1> SUFFICES ASSUME TypeInv, IInv, BudgetInv, [Next]_vars PROVE BudgetInv'
  OBVIOUS
<1>1. CASE UNCHANGED vars
  <2>1. Handed' = Handed
    BY <1>1 DEF vars, Handed
  <2>2. tx' = tx /\ link' = link /\ rx' = rx /\ lost' = lost
    BY <1>1 DEF vars
  <2>3. PICK L, D, H \in SUBSET (1..tx.msg) : Budget(L, D, H)
    BY DEF BudgetInv
  <2>4. \A m \in 1..tx.msg : /\ Past(m) => Past(m)'
                             /\ Gone(m) => Gone(m)'
                             /\ \A i \in Int : OnItsWay(m, i) => OnItsWay(m, i)'
    BY <2>2 DEF Past, Gone, Coming, InRx, OnItsWay, Cut
  <2>5. \A m \in 1..tx.msg : Kept(m, H) => Kept(m, H)'
    BY <2>1, <2>4 DEF Kept
  <2>6. Budget(L, D, H)'
    BY <2>2, <2>3, <2>4, <2>5 DEF Budget
  <2>7. QED  BY <2>2, <2>3, <2>6 DEF BudgetInv
<1>2. QED
  BY <1>1, StartBudget, SendBudget, LoseBudget, RefuseBudget, JoinBudget, DeliverBudget
  DEF Next, RxPacket

\* As long as no run of lost packets is as long as a message of several packets,
\* each lost packet costs at most two messages of those that fit data_receive:
\* its own, and the one whose first packet get_input_data refuses because it
\* still holds the head of the first.  What is too long costs no other message.
THEOREM LossIsBounded ==
  ASSUME ShortBursts
  PROVE  Spec => []LossBudget
<1>1. TypeInv /\ IInv /\ BudgetInv => LossBudget
  <2> SUFFICES ASSUME TypeInv, IInv, BudgetInv, ~Sending, link = <<>>
               PROVE  Cardinality(Fitting \ Handed) <= 2 * lost
    BY DEF LossBudget
  <2>1. PICK L, D, H \in SUBSET (1..tx.msg) : Budget(L, D, H)
    BY DEF BudgetInv
  <2>2. tx.msg \in Nat /\ tx.current_num \in Nat \ {0} /\ lost \in Nat
    BY LinkFacts, BoundsAssumption DEF TypeInv, TypeOK
  <2>3. ASSUME NEW m \in 1..tx.msg, NEW i \in Int, OnItsWay(m, i)
        PROVE  FALSE
    <3>1. Total(m) \in Nat \ {0} /\ Cut(m) \in 0..Total(m)
      BY LinkFacts
    <3>2. Cut(m) = Total(m)
      <4>1. CASE m < tx.msg
        BY <4>1 DEF Cut
      <4>2. CASE m = tx.msg
        <5>1. ~(tx.current_num <= Total(m))
          BY <2>2, <4>2 DEF Sending, Total
        <5>2. QED  BY <2>2, <3>1, <4>2, <5>1 DEF Cut
      <4>3. QED  BY <2>2, <4>1, <4>2
    <3>3. Total(m) \in 1..Cut(m) /\ i + Total(m) >= 1
      BY <2>3, <3>1, <3>2 DEF OnItsWay
    <3>4. i + Total(m) <= Len(link)
      BY <2>3, <3>3 DEF OnItsWay
    <3>5. QED  BY <3>1, <3>3, <3>4
  <2>4. Fitting \ Handed \subseteq L \cup H
    <3>1. ASSUME NEW m \in Fitting \ Handed, m \notin L
          PROVE  m \in H
      <4>1. m \in 1..tx.msg /\ Length[m] <= LimitedLength
        BY DEF Fitting
      <4>2. Kept(m, H)
        BY <2>1, <3>1, <4>1 DEF Budget
      <4>3. ~(Length[m] > LimitedLength)
        BY <4>1, LinkFacts, BoundsAssumption
      <4>4. QED  BY <2>3, <3>1, <4>1, <4>2, <4>3 DEF Kept
    <3>2. QED  BY <3>1
  <2>5. IsFiniteSet(L) /\ IsFiniteSet(D) /\ IsFiniteSet(H)
    <3>1. IsFiniteSet(1..tx.msg)
      BY <2>2, FS_Interval
    <3>2. QED  BY <2>1, <3>1, FS_Subset
  <2>6. /\ Cardinality(L) \in Nat /\ Cardinality(D) \in Nat /\ Cardinality(H) \in Nat
        /\ Cardinality(D) <= Cardinality(L)
    BY <2>1, <2>5, FS_CardinalityType, FS_Subset DEF Budget
  <2>7. /\ Cardinality(L \cup H) <= Cardinality(L) + Cardinality(H)
        /\ IsFiniteSet(L \cup H) /\ Cardinality(L \cup H) \in Nat
    <3>1. /\ IsFiniteSet(L \cup H)
          /\ Cardinality(L \cup H) = Cardinality(L) + Cardinality(H) - Cardinality(L \cap H)
      BY <2>5, FS_Union
    <3>2. IsFiniteSet(L \cap H)
      BY <2>5, FS_Intersection
    <3>3. Cardinality(L \cap H) \in Nat
      BY <3>2, FS_CardinalityType
    <3>4. Cardinality(L \cup H) \in Nat
      BY <3>1, FS_CardinalityType
    <3>5. QED  BY <2>6, <3>1, <3>3, <3>4
  <2>8. /\ Cardinality(Fitting \ Handed) <= Cardinality(L \cup H)
        /\ Cardinality(Fitting \ Handed) \in Nat
    BY <2>4, <2>7, FS_Subset, FS_CardinalityType
  <2>9. Cardinality(L) <= lost /\ Cardinality(H) <= Cardinality(D)
    BY <2>1 DEF Budget
  <2>10. QED  BY <2>2, <2>6, <2>7, <2>8, <2>9
<1>2. Spec => []BudgetInv
  <2>1. Init => BudgetInv
    BY InitBudget
  <2>2. TypeInv /\ IInv /\ BudgetInv /\ [Next]_vars => BudgetInv'
    BY StepBudget
  <2>3. QED  BY <2>1, <2>2, Invariant, PTL DEF Spec
<1>3. QED  BY <1>1, <1>2, Invariant, PTL
=============================================================================
