---------------------------- MODULE FrameTransfer ----------------------------
(***************************************************************************)
(* The packet layer of piditf_d1/yjdnet.c on one fibre channel.            *)
(* yjdnet_write cuts a message into packets of at most MaxPack words,      *)
(* each headed by the number of packets and its own number; get_input_data *)
(* joins them again.  The header does not say which message a packet       *)
(* belongs to, a failed dpdk_write is logged and the loop goes on, and a   *)
(* packet out of place makes the receiver drop what it has: the module is  *)
(* about what survives of a message on a link that loses packets.          *)
(* The build is the one that has a fibre, DPDK_ENABLE 1; the sender at the *)
(* other end, a box, is taken to cut its messages as yjdnet_write does.    *)
(*                                                                         *)
(* A word of payload is the pair <<message, position>>, so that words of   *)
(* different messages can be told apart; the code cannot.                  *)
(***************************************************************************)
EXTENDS Integers, Sequences, FiniteSets

CONSTANTS
  MaxPack,        \* MAX_PACK_LENGTH, in words
  NMsg,           \* bound: how many messages are written
  Length,         \* Length[m]: words of message m
  LimitedLength,  \* limited_length of get_input_data, in words
  LinkCap,        \* bound: packets in flight
  MaxBurst,       \* bound: packets lost in a row
  MaxLost         \* bound: packets lost in all

ASSUME MaxPackAssumption == MaxPack \in Nat \ {0}
ASSUME LengthAssumption ==
  /\ NMsg \in Nat
  /\ Length \in [1..NMsg -> Nat \ {0}]
ASSUME BoundsAssumption ==
  /\ LimitedLength \in Nat
  /\ LinkCap \in Nat
  /\ MaxBurst \in Nat
  /\ MaxLost \in Nat

VARIABLES
  tx,         \* locals of yjdnet_write: message, current_num, data_sent, left_length
  link,       \* packets on the fibre, oldest first
  rx,         \* locals of get_input_data: total_size, current_pack, data_receive
  delivered,  \* history: every data_receive copied to the device buffers
  burst,      \* history: packets lost since the last one that got through
  lost        \* history: packets lost in all

vars == <<tx, link, rx, delivered, burst, lost>>

-----------------------------------------------------------------------------
(* Messages and packets *)

Payload(m) == [i \in 1..Length[m] |-> <<m, i>>]

\* packet_total_num: a length that is a multiple of MaxPack gets one packet
\* more, with no data in it.
PacketTotal(len) == (len \div MaxPack) + 1

\* send_length of the packet cut from left_length remaining words.
SendLength(left) == IF left > MaxPack THEN MaxPack ELSE left

\* The packet yjdnet_write builds in datasend: the header, then a copy of
\* the payload from data_sent on.  The fields msg and gap (the packets lost
\* since the last one that got through) are history: they are not on the
\* fibre and nothing the receiver does depends on them.
Packet(t) ==
  [total_size  |-> PacketTotal(Length[t.msg]),
   current_pkt |-> t.current_num,
   data        |-> SubSeq(Payload(t.msg), t.data_sent + 1,
                          t.data_sent + SendLength(t.left_length)),
   msg         |-> t.msg,
   gap         |-> burst]

\* Mutant of Sending: the last packet is left out.
SendingStopsShort ==
  tx.msg > 0 /\ tx.current_num < PacketTotal(Length[tx.msg])

Sending == tx.msg > 0 /\ tx.current_num <= PacketTotal(Length[tx.msg])

\* The locals get_input_data starts with on every call.
FreshRx == [total_size |-> 0, current_pack |-> 0, data_receive |-> <<>>]

Init ==
  /\ tx = [msg |-> 0, current_num |-> 1, data_sent |-> 0, left_length |-> 0]
  /\ link = <<>>
  /\ rx = FreshRx
  /\ delivered = <<>>
  /\ burst = 0
  /\ lost = 0

-----------------------------------------------------------------------------
(* yjdnet_write *)

\* yjdnet_write is called with the next message.
StartWrite ==
  /\ ~Sending
  /\ tx.msg < NMsg
  /\ tx' = [msg |-> tx.msg + 1, current_num |-> 1, data_sent |-> 0,
            left_length |-> Length[tx.msg + 1]]
  /\ UNCHANGED <<link, rx, delivered, burst, lost>>

\* The end of one turn of the packet loop, whatever dpdk_write returned.
NextPacket ==
  tx' = [tx EXCEPT !.current_num = @ + 1,
                   !.data_sent   = @ + SendLength(tx.left_length),
                   !.left_length = @ - SendLength(tx.left_length)]

\* dpdk_write puts the packet on the fibre.
SendPacket ==
  /\ Sending
  /\ Len(link) < LinkCap
  /\ link' = Append(link, Packet(tx))
  /\ burst' = 0
  /\ NextPacket
  /\ UNCHANGED <<rx, delivered, lost>>

\* dpdk_write fails, or the fibre or the card drops the packet: the loop
\* of yjdnet_write goes on with the next packet all the same.
LosePacket ==
  /\ Sending
  /\ burst < MaxBurst
  /\ lost < MaxLost
  /\ burst' = burst + 1
  /\ lost' = lost + 1
  /\ NextPacket
  /\ UNCHANGED <<link, rx, delivered>>

-----------------------------------------------------------------------------
(* get_input_data, one packet of dpdk_read at a time *)

\* Mutant of Refused: the number of the packet is not checked.
RefusedWithoutSequence(p) ==
  \/ rx.total_size # 0 /\ rx.total_size # p.total_size
  \/ Len(rx.data_receive) + Len(p.data) > LimitedLength

\* The three checks that make get_input_data return -1: another number of
\* packets than the first packet announced, a packet out of sequence, and
\* more data than data_receive holds.
Refused(p) ==
  \/ rx.total_size # 0 /\ rx.total_size # p.total_size
  \/ p.current_pkt - 1 # rx.current_pack
  \/ Len(rx.data_receive) + Len(p.data) > LimitedLength

\* Mutant of RefusePacket: current_pack outlives the refusal.
RefusePacketKeepingCount ==
  /\ link # <<>>
  /\ Refused(Head(link))
  /\ link' = Tail(link)
  /\ rx' = [FreshRx EXCEPT !.current_pack = rx.current_pack]
  /\ UNCHANGED <<tx, delivered, burst, lost>>

\* A refused packet is gone, and so is what was joined before it.
RefusePacket ==
  /\ link # <<>>
  /\ Refused(Head(link))
  /\ link' = Tail(link)
  /\ rx' = FreshRx
  /\ UNCHANGED <<tx, delivered, burst, lost>>

\* The packet is the next of its message, and not the last.
JoinPacket ==
  /\ link # <<>>
  /\ ~Refused(Head(link))
  /\ Head(link).current_pkt # Head(link).total_size
  /\ link' = Tail(link)
  /\ rx' = [total_size   |-> Head(link).total_size,
            current_pack |-> Head(link).current_pkt,
            data_receive |-> rx.data_receive \o Head(link).data]
  /\ UNCHANGED <<tx, delivered, burst, lost>>

\* The packet is the last of its message: the loop ends and data_receive is
\* copied to the device buffers.
DeliverMessage ==
  /\ link # <<>>
  /\ ~Refused(Head(link))
  /\ Head(link).current_pkt = Head(link).total_size
  /\ link' = Tail(link)
  /\ rx' = FreshRx
  /\ delivered' = Append(delivered, rx.data_receive \o Head(link).data)
  /\ UNCHANGED <<tx, burst, lost>>

RxPacket == RefusePacket \/ JoinPacket \/ DeliverMessage

Next == StartWrite \/ SendPacket \/ LosePacket \/ RxPacket

Spec == Init /\ [][Next]_vars

\* The receive thread polls for ever (__rx_event) and the simulation loop
\* keeps calling PID_Update_NewData; whether a packet is lost is left open.
FairSpec ==
  /\ Spec
  /\ WF_vars(StartWrite)
  /\ WF_vars(SendPacket \/ LosePacket)
  /\ WF_vars(RxPacket)
-----------------------------------------------------------------------------
(* Properties *)

Packets ==
  [total_size : Nat, current_pkt : Nat, data : Seq((1..NMsg) \X Nat),
   msg : 1..NMsg, gap : 0..MaxBurst]

\* The state has the shape the C variables give it.
TypeOK ==
  /\ tx \in [msg : 0..NMsg, current_num : Nat \ {0}, data_sent : Nat,
            left_length : Nat]
  /\ link \in Seq(Packets)
  /\ rx \in [total_size : Nat, current_pack : Nat,
            data_receive : Seq((1..NMsg) \X Nat)]
  /\ delivered \in Seq(Seq((1..NMsg) \X Nat))
  /\ burst \in 0..MaxBurst
  /\ lost \in 0..MaxLost

\* The losses the packet header can tell: fewer in a row than any message of
\* several packets has.  Exactly as many in a row can join the head of one
\* message to the tail of the next one.
ShortBursts ==
  \A m \in 1..NMsg :
    PacketTotal(Length[m]) > 1 => MaxBurst < PacketTotal(Length[m])

\* get_input_data never copies to the device buffers data that yjdnet_write
\* was not given as one message: not a message with a hole, not the head of
\* one message joined to the tail of another.
WholeMessages ==
  \A i \in DOMAIN delivered :
    \E m \in 1..tx.msg : delivered[i] = Payload(m)

\* The number of the last message handed over, read off its first word.
LastDelivered ==
  IF delivered = <<>> THEN 0 ELSE delivered[Len(delivered)][1][1]

Transfer == INSTANCE MessageTransfer
            WITH sent <- tx.msg, last <- LastDelivered

\* The packet layer implements the whole-message transfer: whole messages,
\* at most once each, in the order they were written.
ImplementsTransfer == Transfer!Spec

\* The messages handed over, each read off the first word of its data.
Handed == {delivered[i][1][1] : i \in {j \in DOMAIN delivered : delivered[j] # <<>>}}

\* What can arrive: a longer message is refused by get_input_data part way.
Fitting == {m \in 1..tx.msg : Length[m] <= LimitedLength}

\* Once the fibre is drained, each lost packet has cost at most two messages,
\* its own and the one whose first packet ended the wait for it; a message
\* that does not fit data_receive costs no message but itself.
LossBudget ==
  ~Sending /\ link = <<>> => Cardinality(Fitting \ Handed) <= 2 * lost

\* Every message is written in the end and every packet read; with the
\* loss budget, what fits and is not lost arrives.
AllArrive ==
  <>[](/\ tx.msg = NMsg
       /\ link = <<>>
       /\ Cardinality(Fitting \ Handed) <= 2 * lost)
=============================================================================
