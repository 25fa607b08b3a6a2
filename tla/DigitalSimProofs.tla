-------------------------- MODULE DigitalSimProofs --------------------------
(***************************************************************************)
(* Proofs about DigitalSim, for every number of subnets, boxes and small   *)
(* steps, every set of boxes with outputs, every fault at the start and    *)
(* every moment of the end.  The inductive invariant IInv is a conjunction *)
(* of parts, each of which says what one group of variables means at each  *)
(* place of the loop; each part is kept by every step if those before it   *)
(* are (one lemma a part), and each of the safety properties follows.      *)
(***************************************************************************)
EXTENDS DigitalSim, SequenceTheorems, TLAPS

(***************************************************************************)
(* Quotients and remainders by a positive number: a box counts its         *)
(* frames in small steps of a step.                                        *)
(***************************************************************************)
\* A number is its quotient times the divisor, plus its remainder.
LEMMA DivisionTheorem ==
  ASSUME NEW a \in Int, NEW m \in Nat, m > 0
  PROVE  /\ a \div m \in Int
         /\ a % m \in 0 .. m - 1
         /\ a = m * (a \div m) + (a % m)
<1>1. a % m \in 0 .. m - 1
  OBVIOUS
<1>2. a \div m \in Int
  OBVIOUS
<1>3. a = m * (a \div m) + (a % m)
  OBVIOUS
<1> QED BY <1>1, <1>2, <1>3

\* A multiple of m nearer to 0 than m is 0.
LEMMA SmallMultiple ==
  ASSUME NEW m \in Nat, m > 0, NEW q \in Int, m * q < m, -m < m * q
  PROVE  q = 0
<1>1. CASE q >= 1
  <2>1. m * q >= m
    BY <1>1
  <2> QED BY <2>1
<1>2. CASE q <= -1
  <2>1. m * q <= -m
    BY <1>2
  <2> QED BY <2>1
<1> QED BY <1>1, <1>2

\* The remainder is the only number below m that differs from a by a multiple.
LEMMA RemainderUnique ==
  ASSUME NEW m \in Nat, m > 0, NEW a \in Int, NEW q \in Int, NEW r \in 0 .. m - 1,
         a = m * q + r
  PROVE  a % m = r
<1> DEFINE p == a \div m
<1> DEFINE s == a % m
<1>1. p \in Int /\ s \in 0 .. m - 1 /\ a = m * p + s
  BY DivisionTheorem
<1> HIDE DEF p, s
<1>2. m * (p - q) = r - s
  BY <1>1
<1>3. p - q = 0
  BY <1>1, <1>2, SmallMultiple
<1>4. s = r
  BY <1>1, <1>3
<1> QED BY <1>4 DEF s

\* Nor has a any other quotient.
LEMMA QuotientUnique ==
  ASSUME NEW m \in Nat, m > 0, NEW a \in Int, NEW q \in Int, NEW r \in 0 .. m - 1,
         a = m * q + r
  PROVE  a \div m = q /\ a % m = r
<1> DEFINE p == a \div m
<1>1. a % m = r
  BY RemainderUnique
<1>2. p \in Int /\ a = m * p + r
  BY <1>1, DivisionTheorem
<1> HIDE DEF p
<1>3. m * (p - q) = 0
  BY <1>2
<1>4. p - q = 0
  BY <1>2, <1>3, SmallMultiple
<1>5. p = q
  BY <1>2, <1>4
<1> QED BY <1>1, <1>5 DEF p

\* The places of main: up to the loop, in the loop, and those where pid.i
\* counts boxes or subnets.
Early == {"init", "gone", "thread", "register", "deal", "err1", "err2", "start"}
InLoop == {"recv", "readAI", "readDI", "send", "out", "wait"}
Busy == Early \cup InLoop
CountsBoxes == {"init", "thread", "register", "readAI", "readDI", "out", "wait"}
CountsSubnets == {"start", "recv", "send"}

\* The index of a loop of the code is one of its range, and the counters of
\* steps begin at 0.
IndexInv ==
  /\ pid.pc \in CountsBoxes => pid.i \in Boxes
  /\ pid.pc \in CountsSubnets => pid.i \in Subnets
  /\ pid.pc \in Early => pid.NT = 0
  /\ pid.pc \in Busy \ {"out", "wait"} => pid.kNT = 0
  /\ pid.pc \in Busy => pid.word \in CASE pid.pc = "readAI" -> AIWords
                                      [] pid.pc = "readDI" -> Words \ AIWords
                                      [] OTHER -> {1}

\* A process that has not come to SubDealParaErr has said nothing; one that
\* says the second time that all is well has been told so by all.
ReadyInv ==
  /\ pid.pc \in {"init", "gone", "thread", "register", "deal"} =>
       told[1][Self] = "nothing"
  /\ \A s \in Subnets : subnet[s].pc = "init" => told[1][s] = "nothing"
  /\ \A x \in Procs : told[2][x] = "ok" => \A y \in Procs : told[1][y] = "ok"
  /\ SimulateTogether

\* How many messages of subnet s the loop has received.
Taken(s) ==
  IF pid.pc \in Early \/ (pid.pc = "recv" /\ s >= pid.i) THEN pid.NT ELSE pid.NT + 1

\* The messages a subnet has sent and the loop not received are of the steps
\* that follow, and then comes the step the subnet computes.
MailInv ==
  pid.pc \in Busy => \A s \in Subnets :
    /\ \A k \in 1..Len(toPid[s]) : toPid[s][k].step = Taken(s) + k - 1
    /\ subnet[s].pc \in {"init", "err1", "err2", "send"} =>
         subnet[s].step = Taken(s) + Len(toPid[s])
    /\ subnet[s].pc = "recv" => subnet[s].step + 1 = Taken(s) + Len(toPid[s])

\* The subnets whose values of step NT are staged are staged in every box.
StageInv ==
  \A s \in Subnets :
    (\/ pid.pc \in InLoop \ {"recv"}
     \/ pid.pc = "recv" /\ s < pid.i) =>
      \A b \in Boxes : /\ b \in HasAO => volt[b][s] = pid.NT
                       /\ b \in HasDO => data[b][s] = pid.NT

\* The box is sent a frame in every small step.
Driven(b) == b \in HasAO \cup HasDO /\ dev[b].opens > 0

\* The frames box b should have been sent.
Owed(b) ==
  IF pid.pc \in InLoop /\ Driven(b)
  THEN pid.NT * Ikt + pid.kNT +
         (IF pid.pc = "wait" \/ (pid.pc = "out" /\ b < pid.i) THEN 1 ELSE 0)
  ELSE 0

\* Box b was sent those, and a device has no outputs of a kind its box does
\* not have.
FrameInv ==
  /\ pid.pc \in Busy => \A b \in Boxes :
       /\ b \notin HasAO => dev[b].ao = <<>>
       /\ b \notin HasDO => dev[b].do = <<>>
       /\ Len(frames[b]) = Owed(b)
  /\ FramesOfOneStep

\* A word is of the last message or, as long as it is not copied, of the one
\* before.
CopyInv ==
  \A b \in Boxes : \A w \in Words :
    dev[b].inputs[w] = IF w \in copying[b] THEN dev[b].rx_count - 1 ELSE dev[b].rx_count

\* The loop has read word v of box b in this step, and not yet word w.
ReadBetween(b, v, w) ==
  pid.pc \in {"readAI", "readDI"} /\ b = pid.i /\ v < pid.word /\ pid.word <= w

\* What the loop holds is not newer than the device, and no word lags by more
\* than one message behind one before it, unless it is to be read yet.
SnapInv ==
  pid.pc \in Busy => \A b \in Boxes : \A w \in Words :
    /\ snap[b][w] <= dev[b].inputs[w]
    /\ \A v \in Words : v < w => snap[b][w] >= snap[b][v] - 1 \/ ReadBetween(b, v, w)

\* All inputs subnet s was sent, received or not.
Sent(s) == got[s] \o toSubnet[s]

\* The loop sends one set of inputs a step, to one subnet after the other.
SentInv ==
  /\ pid.pc \in Busy => \A s \in Subnets :
       Len(Sent(s)) = IF pid.pc \in {"out", "wait"} \/ (pid.pc = "send" /\ s < pid.i)
                      THEN pid.NT + 1 ELSE pid.NT
  /\ pid.pc = "send" => \A s \in Subnets : s < pid.i => Sent(s)[pid.NT + 1] = snap
  /\ \A s, t \in Subnets : \A k \in 1..Len(Sent(s)) :
       k <= Len(Sent(t)) => Sent(s)[k] = Sent(t)[k]

\* Word by word: no word of v is newer than that of w; and no word of v lags by
\* more than one message behind a word before it.
NotNewer(v, w) == \A b \in Boxes : \A k \in Words : v[b][k] <= w[b][k]
LagsByOne(v) ==
  \A b \in Boxes : \A j, k \in Words : j < k => v[b][k] >= v[b][j] - 1

\* No word of the inputs sent lags by more than that, and what was sent is no
\* newer than what is sent next and than what the loop holds.
OrderInv ==
  \A s \in Subnets : \A k \in 1..Len(Sent(s)) :
    /\ LagsByOne(Sent(s)[k])
    /\ pid.pc \in Busy => NotNewer(Sent(s)[k], snap)
    /\ k < Len(Sent(s)) => NotNewer(Sent(s)[k], Sent(s)[k + 1])

IInv ==
  /\ TypeOK /\ IndexInv /\ ReadyInv
  /\ MailInv /\ StageInv /\ FrameInv
  /\ CopyInv /\ SnapInv /\ SentInv /\ OrderInv

-----------------------------------------------------------------------------
(* Constants *)

\* There is a first subnet and a first box, the numbers end with the last.
LEMMA Numbers ==
  /\ NumSubnet \in Nat \ {0} /\ NumBox \in Nat \ {0} /\ Ikt \in Nat \ {0}
  /\ Subnets = 1..NumSubnet /\ 1 \in Subnets /\ NumSubnet \in Subnets
  /\ Boxes = 0..(NumBox - 1) /\ 0 \in Boxes
  /\ HasAO \subseteq Boxes /\ HasDO \subseteq Boxes
  /\ Self \notin Subnets /\ Procs = Subnets \cup {Self}
BY DigitalSimAssumption DEF Subnets, Boxes, Self, Procs

\* The analogue words come before the digital ones, and there is a word of each
\* kind.
LEMMA WordNumbers ==
  /\ 1 \in AIWords /\ 1 \in Words /\ AIWords \subseteq Words /\ Words \subseteq Nat
  /\ \A w \in AIWords : w + 1 \in IF w = NumAI THEN Words \ AIWords ELSE AIWords
  /\ \A w \in Words \ AIWords : (w < NumAI + NumDI) => (w + 1 \in Words \ AIWords)
  /\ \A v, w \in Words : v <= w \/ w < NumAI + NumDI
BY DigitalSimAssumption DEF AIWords, Words

\* The values of the subnets are not the empty array of a device.
LEMMA ValuesNotEmpty == \A v \in Values : v # <<>>
<1> SUFFICES ASSUME NEW v \in Values, v = <<>> PROVE FALSE
  OBVIOUS
<1>1. DOMAIN v = Subnets /\ DOMAIN v = {}
  BY DEF Values
<1> QED BY <1>1, Numbers

\* The next index is one of the range as long as the last is not reached.
LEMMA NextIndex ==
  /\ \A i \in Subnets : i \in Nat /\ (i # NumSubnet => i + 1 \in Subnets)
  /\ \A i \in Boxes : i \in Nat /\ (i # NumBox - 1 => i + 1 \in Boxes)
BY Numbers

-----------------------------------------------------------------------------
(* Records *)

\* A change of place makes a state of a subnet of one.
LEMMA SubnetChange ==
  ASSUME NEW u \in SubnetStates,
         NEW pc \in {"init", "err1", "err2", "send", "recv", "done", "world"}
  PROVE  [u EXCEPT !.pc = pc] \in SubnetStates
BY DEF SubnetStates

\* What the driver does to a device makes a device of it.
LEMMA DeviceChange ==
  ASSUME NEW d \in Devices, NEW n \in Nat, NEW v \in Values \cup {<<>>}
  PROVE  /\ [d EXCEPT !.opens = n] \in Devices
         /\ [d EXCEPT !.updates = n] \in Devices
         /\ [d EXCEPT !.ao = v] \in Devices
         /\ [d EXCEPT !.do = v] \in Devices
         /\ [d EXCEPT !.updates = n, !.ao = v, !.do = v] \in Devices
BY DEF Devices

-----------------------------------------------------------------------------
(* Types, one group of variables after the other *)

\* The initial state has its types, and the counters begin where they should.
LEMMA InitType == Init => TypeOK /\ IndexInv
<1> SUFFICES ASSUME Init PROVE TypeOK /\ IndexInv
  OBVIOUS
<1> USE Numbers
<1>1. MpiTypeOK /\ SimTypeOK
  BY DEF Init, MpiTypeOK, SimTypeOK, SubnetStates
<1>2. StageTypeOK
  BY DigitalSimAssumption DEF Init, StageTypeOK, Values, Inputs
<1>3. LinkTypeOK /\ BoxTypeOK /\ HistoryTypeOK
  <2>1. [rx_count |-> 0, inputs |-> [w \in Words |-> 0], updates |-> 0, ao |-> <<>>,
         do |-> <<>>, opens |-> 0] \in Devices
    BY DigitalSimAssumption DEF Devices
  <2>2. dev \in [Boxes -> Devices]
    BY <2>1 DEF Init
  <2>3. copying \in [Boxes -> SUBSET Words]
    BY DEF Init
  <2>4. boxSent \in [Boxes -> 0..MaxInput]
    BY DigitalSimAssumption DEF Init
  <2>5. frames \in [Boxes -> Seq(Frames)]
    BY DEF Init
  <2>6. got \in [Subnets -> Seq(Inputs)]
    BY DEF Init
  <2>7. LinkTypeOK
    BY DEF Init, LinkTypeOK
  <2> QED BY <2>2, <2>3, <2>4, <2>5, <2>6, <2>7 DEF BoxTypeOK, HistoryTypeOK
<1>4. pid \in Locals /\ IndexInv
  BY WordNumbers DEF Init, Locals, Places, IndexInv, CountsBoxes, CountsSubnets, Early, Busy, InLoop
<1> QED BY <1>1, <1>2, <1>3, <1>4 DEF Init, TypeOK

\* What the processes tell each other keeps its type.
LEMMA MpiType == MpiTypeOK /\ Next => MpiTypeOK'
<1> SUFFICES ASSUME MpiTypeOK, Next PROVE MpiTypeOK'
  OBVIOUS
<1> USE Numbers DEF MpiTypeOK, Tell
<1>1. CASE \E s \in Subnets : SubnetTells(s) \/ SubnetTellsAgain(s)
  BY <1>1 DEF SubnetTells, SubnetTellsAgain
<1>2. CASE \E s \in Subnets : SubnetLeaves(s)
  BY <1>2 DEF SubnetLeaves
<1>3. CASE Deal \/ DealAgain
  BY <1>3 DEF Deal, DealAgain
<1>4. CASE EnterWorld
  BY <1>4 DEF EnterWorld
<1>5. CASE UNCHANGED mpiVars
  BY <1>5 DEF mpiVars
<1> QED
  BY <1>1, <1>2, <1>3, <1>4, <1>5
  DEF Next, Main, StartUp, Simulating, Ending, SubnetNext, RxNext, TakeMessage, mpiVars,
      InitLink, pid_thread_create, PID_Register, Decide, RecvStart, RecvStep, ReadAI,
      ReadDI, ReadWord, SendSubnet, SenddataToPID, MarkInput_Wait, SpinsForEver,
      ClearOutput, dpdk_release, finalize, PollReleased, SubnetStarts, SubnetSends,
      SubnetReceives, CopyAI, CopyDI, Copy, BoxSends

\* The messages of the simulator and its subnets keep their types.
LEMMA SimType ==
  ASSUME TypeOK, IndexInv, Next PROVE SimTypeOK'
<1> USE Numbers DEF SimTypeOK
<1>1. ASSUME NEW s \in Subnets,
             SubnetTells(s) \/ SubnetTellsAgain(s) \/ SubnetStarts(s) \/ SubnetLeaves(s)
      PROVE  SimTypeOK'
  <2>1. PICK pc \in {"err1", "err2", "send", "world"} :
          subnet' = [subnet EXCEPT ![s].pc = pc]
    BY <1>1 DEF SubnetTells, SubnetTellsAgain, SubnetStarts, SubnetLeaves
  <2>2. subnet' \in [Subnets -> SubnetStates]
    BY <2>1, SubnetChange DEF TypeOK
  <2>3. started' \subseteq Subnets /\ UNCHANGED <<toPid, toSubnet>>
    BY <1>1 DEF SubnetTells, SubnetTellsAgain, SubnetStarts, SubnetLeaves, TypeOK
  <2> QED BY <2>2, <2>3 DEF TypeOK
<1>2. ASSUME NEW s \in Subnets, SubnetSends(s) PROVE SimTypeOK'
  <2>1. subnet' \in [Subnets -> SubnetStates]
    BY <1>2 DEF SubnetSends, TypeOK, SubnetStates
  <2>2. toPid' \in [Subnets -> Seq(Messages)]
    BY <1>2 DEF SubnetSends, TypeOK, SubnetStates, Messages
  <2> QED BY <1>2, <2>1, <2>2 DEF SubnetSends, TypeOK
<1>3. ASSUME NEW s \in Subnets, SubnetReceives(s) PROVE SimTypeOK'
  <2>1. subnet' \in [Subnets -> SubnetStates]
    BY <1>3 DEF SubnetReceives, TypeOK, SubnetStates
  <2>2. toSubnet' \in [Subnets -> Seq(Inputs)]
    BY <1>3 DEF SubnetReceives, TypeOK
  <2> QED BY <1>3, <2>1, <2>2 DEF SubnetReceives, TypeOK
<1>4. CASE RecvStart
  BY <1>4 DEF RecvStart, TypeOK
<1>5. CASE RecvStep
  <2>1. pid.i \in Subnets
    BY <1>5 DEF RecvStep, IndexInv, CountsSubnets
  <2>2. toPid' \in [Subnets -> Seq(Messages)]
    BY <1>5, <2>1 DEF RecvStep, TypeOK
  <2> QED BY <1>5, <2>2 DEF RecvStep, TypeOK
<1>6. CASE SendSubnet
  <2>1. pid.i \in Subnets /\ snap \in Inputs
    BY <1>6 DEF SendSubnet, IndexInv, CountsSubnets, TypeOK, StageTypeOK
  <2>2. toSubnet' \in [Subnets -> Seq(Inputs)]
    BY <1>6, <2>1 DEF SendSubnet, TypeOK
  <2> QED BY <1>6, <2>2 DEF SendSubnet, TypeOK
<1>7. CASE UNCHANGED simVars
  BY <1>7 DEF simVars, TypeOK
<1> QED
  BY <1>1, <1>2, <1>3, <1>4, <1>5, <1>6, <1>7
  DEF Next, Main, StartUp, Simulating, Ending, SubnetNext, RxNext, TakeMessage, simVars,
      InitLink, pid_thread_create, PID_Register, Deal, DealAgain, Decide, ReadAI,
      ReadDI, ReadWord, SenddataToPID, MarkInput_Wait, SpinsForEver, ClearOutput,
      EnterWorld, dpdk_release, finalize, PollReleased, CopyAI, CopyDI, Copy, BoxSends

\* The locals of main keep their types.
LEMMA LocalsType ==
  ASSUME TypeOK, IndexInv, Next PROVE pid' \in Locals
<1>0. pid \in Locals
  BY DEF TypeOK
<1>i. /\ 0 \in Boxes /\ 1 \in Subnets
      /\ pid.pc \in CountsBoxes /\ pid.i # NumBox - 1 => pid.i + 1 \in Boxes
      /\ pid.pc \in CountsSubnets /\ pid.i # NumSubnet => pid.i + 1 \in Subnets
  BY NextIndex, Numbers DEF IndexInv
<1>1. CASE InitLink \/ pid_thread_create
  BY ZenonT(30), <1>0, <1>1 DEF InitLink, pid_thread_create, Locals, Places
<1>2. CASE PID_Register
  BY <1>0, <1>2, <1>i DEF PID_Register, Locals, Places, Advance, CountsBoxes
<1>3. CASE Deal
  BY <1>0, <1>3 DEF Deal, Locals, Places
<1>4. CASE DealAgain \/ Decide
  <2>1. ErrorNo(1) \in BOOLEAN /\ ErrorNo(2) \in BOOLEAN
    BY DEF ErrorNo
  <2> QED BY <1>0, <1>4, <1>i, <2>1 DEF DealAgain, Decide, Locals, Places
<1>5. CASE RecvStart
  BY <1>0, <1>5, <1>i DEF RecvStart, Locals, Places, Advance, CountsSubnets
<1>6. CASE RecvStep
  <2>1. pid.i \in Subnets
    BY <1>6 DEF RecvStep, IndexInv, CountsSubnets
  <2>2. toPid[pid.i] \in Seq(Messages) /\ toPid[pid.i] # <<>>
    BY <1>6, <2>1 DEF RecvStep, TypeOK, SimTypeOK
  <2> DEFINE m == Head(toPid[pid.i])
  <2>3. m \in Messages
    BY <2>2
  <2>4. m.stop \in BOOLEAN
    BY <2>3 DEF Messages
  <2>5. pid' = [Advance(NumSubnet, "recv", 0, IF m.stop THEN "over" ELSE "readAI")
                EXCEPT !.IsContinue = m.stop]
    BY <1>6 DEF RecvStep
  <2> HIDE DEF m
  <2> QED BY <1>0, <1>i, <2>4, <2>5, <1>6 DEF RecvStep, Locals, Places, Advance, CountsSubnets
<1>7. CASE ReadAI
  <2>1. pid.word + 1 \in Words
    BY <1>7, WordNumbers DEF ReadAI, IndexInv, Busy, InLoop
  <2> QED BY <1>0, <1>7, <2>1 DEF ReadAI, Locals, Places
<1>8. CASE ReadDI
  <2>1. 1 \in Words /\ (pid.word < NumAI + NumDI => pid.word + 1 \in Words)
    BY <1>8, WordNumbers DEF ReadDI, IndexInv, Busy, InLoop
  <2>2. Advance(NumBox - 1, "readAI", 1, "send") \in Locals
    BY <1>0, <1>8, <1>i DEF ReadDI, Locals, Places, Advance, CountsBoxes
  <2> QED BY <1>0, <1>8, <2>1, <2>2 DEF ReadDI, Locals
<1>9. CASE SendSubnet
  BY <1>0, <1>9, <1>i DEF SendSubnet, Locals, Places, Advance, CountsSubnets
<1>10. CASE SenddataToPID
  BY <1>0, <1>10, <1>i DEF SenddataToPID, Locals, Places, Advance, CountsBoxes
<1>11. CASE MarkInput_Wait
  <2>1. /\ 0 \in 0..(Ikt - 1)
        /\ pid.kNT + 1 < Ikt => pid.kNT + 1 \in 0..(Ikt - 1)
        /\ pid.NT + 1 \in Nat
    BY <1>0, Numbers DEF Locals
  <2>2. NextSmallStep \in Locals
    BY <1>0, <1>i, <2>1 DEF NextSmallStep, Locals, Places
  <2> QED BY <1>0, <1>11, <1>i, <2>2 DEF MarkInput_Wait, Locals, CountsBoxes
<1>12. CASE ClearOutput \/ EnterWorld \/ dpdk_release
  BY <1>0, <1>12 DEF ClearOutput, EnterWorld, dpdk_release, Locals, Places
<1>13. CASE finalize \/ PollReleased \/ SpinsForEver
  BY <1>0, <1>13 DEF finalize, PollReleased, SpinsForEver, Locals, Places
<1>14. CASE UNCHANGED pid
  BY <1>0, <1>14
<1> QED
  BY <1>1, <1>2, <1>3, <1>4, <1>5, <1>6, <1>7, <1>8, <1>9, <1>10, <1>11, <1>12, <1>13,
     <1>14
  DEF Next, Main, StartUp, Simulating, SpinsForEver, Ending, SubnetNext, RxNext,
      TakeMessage, SubnetTells, SubnetTellsAgain, SubnetStarts, SubnetSends,
      SubnetReceives, SubnetLeaves, CopyAI, CopyDI, Copy, BoxSends

\* And a loop keeps its index within its range.
LEMMA IndexKept ==
  ASSUME TypeOK, IndexInv, Next PROVE IndexInv'
<1> USE DEF IndexInv, CountsBoxes, CountsSubnets, Early, InLoop, Busy
<1>0. pid \in Locals
  BY DEF TypeOK
<1>i. /\ 0 \in Boxes /\ 1 \in Subnets
      /\ pid.pc \in CountsBoxes /\ pid.i # NumBox - 1 => pid.i + 1 \in Boxes
      /\ pid.pc \in CountsSubnets /\ pid.i # NumSubnet => pid.i + 1 \in Subnets
  BY NextIndex, Numbers
<1>1. CASE InitLink \/ pid_thread_create
  BY <1>0, <1>1 DEF Locals, InitLink, pid_thread_create
<1>2. CASE Deal \/ DealAgain \/ Decide
  BY <1>0, <1>i, <1>2 DEF Locals, Deal, DealAgain, Decide
<1>3. CASE PID_Register
  BY <1>0, <1>i, <1>3 DEF Locals, PID_Register, Advance
<1>4. CASE RecvStart
  BY <1>0, <1>i, <1>4 DEF Locals, RecvStart, Advance
<1>5. CASE RecvStep
  BY <1>0, <1>i, <1>5, WordNumbers DEF Locals, RecvStep, Advance
<1>6. CASE ReadAI
  BY <1>0, <1>i, <1>6, WordNumbers DEF Locals, ReadAI
<1>7. CASE ReadDI
  BY <1>0, <1>i, <1>7, WordNumbers DEF Locals, ReadDI, Advance
<1>8. CASE SendSubnet
  BY <1>0, <1>i, <1>8 DEF Locals, SendSubnet, Advance
<1>9. CASE SenddataToPID
  BY <1>0, <1>i, <1>9 DEF Locals, SenddataToPID, Advance
<1>10. CASE MarkInput_Wait
  BY <1>0, <1>i, <1>10 DEF Locals, MarkInput_Wait, NextSmallStep
<1>11. CASE ClearOutput \/ Ending \/ PollReleased \/ SpinsForEver
  BY <1>0, <1>11
  DEF Locals, ClearOutput, Ending, EnterWorld, dpdk_release, finalize, PollReleased,
      SpinsForEver
<1>12. CASE UNCHANGED pid
  BY <1>12
<1> QED
  BY <1>1, <1>2, <1>3, <1>4, <1>5, <1>6, <1>7, <1>8, <1>9, <1>10, <1>11, <1>12
  DEF Next, Main, StartUp, Simulating, SpinsForEver, SubnetNext, RxNext, TakeMessage,
      SubnetTells, SubnetTellsAgain, SubnetStarts, SubnetSends, SubnetReceives,
      SubnetLeaves, CopyAI, CopyDI, Copy, BoxSends

\* The staged outputs and the inputs held keep their types.
LEMMA StageType ==
  ASSUME TypeOK, IndexInv, Next PROVE StageTypeOK'
<1> USE Numbers DEF StageTypeOK
<1>1. CASE RecvStep
  <2>1. pid.i \in Subnets
    BY <1>1 DEF RecvStep, IndexInv, CountsSubnets
  <2>2. toPid[pid.i] \in Seq(Messages) /\ toPid[pid.i] # <<>>
    BY <1>1, <2>1 DEF RecvStep, TypeOK, SimTypeOK
  <2>3. Head(toPid[pid.i]) \in Messages
    BY <2>2
  <2>4. Head(toPid[pid.i]).step \in Nat
    BY <2>3 DEF Messages
  <2>5. volt' \in [Boxes -> Values] /\ data' \in [Boxes -> Values]
    BY <1>1, <2>1, <2>4 DEF RecvStep, GetSimuVal, Staged, TypeOK, Values
  <2> QED BY <1>1, <2>5 DEF RecvStep, TypeOK
<1>2. CASE ReadAI \/ ReadDI
  <2>1. pid.i \in Boxes /\ pid.word \in Words
    BY <1>2 DEF ReadAI, ReadDI, IndexInv, CountsBoxes, TypeOK, Locals
  <2>2. dev[pid.i].inputs[pid.word] \in 0..MaxInput
    BY <2>1 DEF TypeOK, BoxTypeOK, Devices
  <2>3. snap' \in Inputs
    <3>1. snap' = [snap EXCEPT ![pid.i] =
                     [snap[pid.i] EXCEPT ![pid.word] = dev[pid.i].inputs[pid.word]]]
      BY <1>2 DEF ReadAI, ReadDI, ReadWord
    <3>2. snap \in Inputs /\ snap[pid.i] \in [Words -> 0..MaxInput]
      BY <2>1 DEF TypeOK, Inputs
    <3>3. [snap[pid.i] EXCEPT ![pid.word] = dev[pid.i].inputs[pid.word]]
          \in [Words -> 0..MaxInput]
      BY <2>1, <2>2, <3>2
    <3> QED BY <2>1, <3>1, <3>2, <3>3 DEF Inputs
  <2> QED BY <1>2, <2>3 DEF ReadAI, ReadDI, ReadWord, TypeOK
<1>4. CASE ClearOutput
  <2>1. volt' \in [Boxes -> Values]
    BY <1>4 DEF ClearOutput, Values
  <2> QED BY <1>4, <2>1 DEF ClearOutput, TypeOK
<1>5. CASE UNCHANGED stageVars
  BY <1>5 DEF stageVars, TypeOK
<1> QED
  BY <1>1, <1>2, <1>4, <1>5
  DEF Next, Main, StartUp, Simulating, Ending, SubnetNext, RxNext, TakeMessage,
      stageVars, InitLink, pid_thread_create, PID_Register, Deal, DealAgain, Decide,
      RecvStart, SendSubnet, SenddataToPID, MarkInput_Wait, SpinsForEver, EnterWorld,
      dpdk_release, finalize, PollReleased, SubnetTells, SubnetTellsAgain, SubnetStarts,
      SubnetSends, SubnetReceives, SubnetLeaves, CopyAI, CopyDI, Copy, BoxSends

\* So does what belongs to the link.
LEMMA LinkType ==
  ASSUME TypeOK, IndexInv, Next PROVE LinkTypeOK'
<1> USE DEF LinkTypeOK
<1>1. CASE InitLink
  BY <1>1 DEF InitLink, TypeOK
<1>2. CASE pid_thread_create
  BY <1>2 DEF pid_thread_create, TypeOK
<1>3. CASE PID_Register
  BY <1>3 DEF PID_Register, TypeOK, IndexInv, CountsBoxes
<1>4. CASE dpdk_release \/ finalize \/ PollReleased
  BY <1>4 DEF dpdk_release, finalize, PollReleased, TypeOK
<1>5. CASE UNCHANGED linkVars
  BY <1>5 DEF linkVars, TypeOK
<1> QED
  BY <1>1, <1>2, <1>3, <1>4, <1>5
  DEF Next, Main, StartUp, Simulating, Ending, SubnetNext, RxNext, TakeMessage,
      linkVars, Deal, DealAgain, Decide, RecvStart, RecvStep, ReadAI, ReadDI, ReadWord,
      SendSubnet, SenddataToPID, MarkInput_Wait, SpinsForEver, ClearOutput, EnterWorld,
      SubnetTells, SubnetTellsAgain, SubnetStarts, SubnetSends, SubnetReceives,
      SubnetLeaves, CopyAI, CopyDI, Copy, BoxSends

\* And the devices; a device has values only of a box of the process.
LEMMA BoxType ==
  ASSUME TypeOK, IndexInv, Next PROVE BoxTypeOK'
<1> USE Numbers DEF BoxTypeOK
<1>0. /\ \A b \in Boxes : dev[b] \in Devices /\ boxSent[b] \in 0..MaxInput
      /\ \A b \in Boxes : volt[b] \in Values /\ data[b] \in Values
      /\ MaxInput \in Nat
  BY DigitalSimAssumption DEF TypeOK, StageTypeOK
<1>1. ASSUME NEW b \in Boxes, BoxSends(b) PROVE BoxTypeOK'
  <2>1. boxSent[b] + 1 \in 0..MaxInput
    BY <1>0, <1>1 DEF BoxSends
  <2> QED BY <1>1, <2>1 DEF BoxSends, TypeOK
<1>2. ASSUME NEW b \in Boxes, TakeMessage(b) PROVE BoxTypeOK'
  <2>1. dev[b].rx_count + 1 \in 0..MaxInput
    BY <1>0, <1>2 DEF TakeMessage, Devices
  <2>2. [dev[b] EXCEPT !.rx_count = @ + 1] \in Devices
    BY <1>0, <2>1 DEF Devices
  <2> QED BY <1>2, <2>2 DEF TakeMessage, TypeOK
<1>3. ASSUME NEW b \in Boxes, CopyAI(b) \/ CopyDI(b) PROVE BoxTypeOK'
  <2>1. PICK w \in Words : Copy(b, w)
    BY <1>3, WordNumbers DEF CopyAI, CopyDI, TypeOK
  <2>2. dev[b].rx_count \in 0..MaxInput /\ dev[b].inputs \in [Words -> 0..MaxInput]
    BY <1>0 DEF Devices
  <2>3. [dev[b] EXCEPT !.inputs[w] = dev[b].rx_count] \in Devices
    BY <1>0, <2>2 DEF Devices
  <2> QED BY <2>1, <2>3 DEF Copy, TypeOK
<1>4. CASE PID_Register
  <2>1. pid.i \in Boxes
    BY <1>4 DEF PID_Register, IndexInv, CountsBoxes
  <2>2. \A malloc \in BOOLEAN :
          [dev[pid.i] EXCEPT !.opens = IF malloc THEN @ + 1 ELSE @] \in Devices
    <3>1. dev[pid.i].opens \in Nat /\ dev[pid.i].opens + 1 \in Nat
      BY <1>0, <2>1 DEF Devices
    <3> QED BY <1>0, <2>1, <3>1, DeviceChange
  <2> QED BY <1>4, <2>1, <2>2 DEF PID_Register, TypeOK
<1>5. CASE SenddataToPID
  <2>1. pid.i \in Boxes
    BY <1>5 DEF SenddataToPID, IndexInv, CountsBoxes
  <2> DEFINE d == PID_DO_GrpWrite(pid.i, PID_AO_GrpWrite(pid.i, dev[pid.i]))
  <2>2. PID_AO_GrpWrite(pid.i, dev[pid.i]) \in Devices
    BY ZenonT(30), <1>0, <2>1 DEF PID_AO_GrpWrite, Devices
  <2>3. d \in Devices
    BY <1>0, <2>1, <2>2 DEF PID_DO_GrpWrite, Devices
  <2>4. PID_Update_NewData(d) \in Devices
    <3> HIDE DEF d
    <3>1. d.updates + 1 \in Nat /\ <<>> \in Values \cup {<<>>}
      BY <2>3 DEF Devices
    <3>2. [d EXCEPT !.updates = @ + 1, !.ao = <<>>, !.do = <<>>] \in Devices
      BY <2>3, <3>1 DEF Devices
    <3>3. [d EXCEPT !.updates = @ + 1] \in Devices
      BY <2>3, <3>1 DEF Devices
    <3> QED BY <3>2, <3>3 DEF PID_Update_NewData
  <2> QED BY <1>5, <2>4 DEF SenddataToPID, TypeOK
<1>6. CASE MarkInput_Wait
  <2>1. pid.i \in Boxes
    BY <1>6 DEF MarkInput_Wait, IndexInv, CountsBoxes
  <2>2. PID_MarkInput_Wait(dev[pid.i]) \in Devices
    BY ZenonT(30), <1>0, <2>1 DEF PID_MarkInput_Wait, Devices
  <2> QED BY <1>6, <2>2 DEF MarkInput_Wait, TypeOK
<1>7. CASE ClearOutput
  <2>1. \A b \in Boxes : volt'[b] \in Values
    BY <1>7 DEF ClearOutput, Values
  <2>2. \A b \in Boxes : [dev[b] EXCEPT !.ao = volt'[b]] \in Devices
    BY <1>0, <2>1 DEF Devices
  <2> QED BY <1>0, <1>7, <2>2 DEF ClearOutput, TypeOK
<1>8. CASE finalize
  <2>1. \A b \in Boxes : PID_Release(dev[b]) \in Devices
    <3>1. \A b \in Boxes : dev[b].opens > 0 => dev[b].opens - 1 \in Nat
      BY <1>0 DEF Devices
    <3> QED BY <1>0, <3>1, DeviceChange DEF PID_Release
  <2> QED BY <1>8, <2>1 DEF finalize, TypeOK
<1>9. CASE UNCHANGED boxVars
  BY <1>9 DEF boxVars, TypeOK
<1> QED
  BY <1>1, <1>2, <1>3, <1>4, <1>5, <1>6, <1>7, <1>8, <1>9
  DEF Next, Main, StartUp, Simulating, SpinsForEver, Ending, SubnetNext, RxNext,
      TakeMessage, boxVars, InitLink, pid_thread_create, Deal, DealAgain, Decide,
      RecvStart, RecvStep, ReadAI, ReadDI, ReadWord, SendSubnet, EnterWorld,
      dpdk_release, PollReleased, SubnetTells, SubnetTellsAgain, SubnetStarts,
      SubnetSends, SubnetReceives, SubnetLeaves

\* And the histories.
LEMMA HistoryType ==
  ASSUME TypeOK, IndexInv, Next PROVE HistoryTypeOK'
<1> USE Numbers DEF HistoryTypeOK
<1>1. ASSUME NEW s \in Subnets, SubnetReceives(s) PROVE HistoryTypeOK'
  <2>1. toSubnet[s] \in Seq(Inputs) /\ toSubnet[s] # <<>>
    BY <1>1 DEF SubnetReceives, TypeOK, SimTypeOK
  <2>2. got' \in [Subnets -> Seq(Inputs)]
    BY <1>1, <2>1 DEF SubnetReceives, TypeOK
  <2> QED BY <1>1, <2>2 DEF SubnetReceives, TypeOK
<1>2. CASE SenddataToPID
  <2>1. pid.i \in Boxes
    BY <1>2 DEF SenddataToPID, IndexInv, CountsBoxes
  <2> DEFINE d == PID_DO_GrpWrite(pid.i, PID_AO_GrpWrite(pid.i, dev[pid.i]))
  <2>2. dev[pid.i] \in Devices /\ volt[pid.i] \in Values /\ data[pid.i] \in Values
    BY <2>1 DEF TypeOK, BoxTypeOK, StageTypeOK
  <2>3. d.ao \in Values \cup {<<>>} /\ d.do \in Values \cup {<<>>}
    BY <2>2 DEF PID_AO_GrpWrite, PID_DO_GrpWrite, Devices
  <2>4. Frame(d) \in Frames
    <3> HIDE DEF d
    <3> QED BY <2>3 DEF Frame, Frames, TypeOK, Locals
  <2>5. frames' \in [Boxes -> Seq(Frames)]
    <3> HIDE DEF d
    <3>1. frames' = IF Sends(d) THEN [frames EXCEPT ![pid.i] = Append(@, Frame(d))]
                                ELSE frames
      BY <1>2 DEF SenddataToPID, d
    <3> QED BY <2>1, <2>4, <3>1 DEF TypeOK
  <2> QED BY <1>2, <2>5 DEF SenddataToPID, TypeOK
<1>3. CASE UNCHANGED <<frames, got>>
  BY <1>3 DEF TypeOK
<1> QED
  BY <1>1, <1>2, <1>3
  DEF Next, Main, StartUp, Simulating, Ending, SubnetNext, RxNext, TakeMessage,
      InitLink, pid_thread_create, PID_Register, Deal, DealAgain, Decide, RecvStart,
      RecvStep, ReadAI, ReadDI, ReadWord, SendSubnet, MarkInput_Wait, SpinsForEver,
      ClearOutput, EnterWorld, dpdk_release, finalize, PollReleased, SubnetTells,
      SubnetTellsAgain, SubnetStarts, SubnetSends, SubnetLeaves, CopyAI, CopyDI, Copy,
      BoxSends

\* Every step keeps all types.
LEMMA StepType == TypeOK /\ IndexInv /\ Next => TypeOK' /\ IndexInv'
<1> SUFFICES ASSUME TypeOK, IndexInv, Next PROVE TypeOK' /\ IndexInv'
  OBVIOUS
<1>1. fault' \in Faults /\ stopAt' \in 0..MaxStep
  BY DEF TypeOK, Next, Main, StartUp, Simulating, Ending, SubnetNext, RxNext,
         TakeMessage, InitLink, pid_thread_create, PID_Register, Deal, DealAgain,
         Decide, RecvStart, RecvStep, ReadAI, ReadDI, ReadWord, SendSubnet,
         SenddataToPID, MarkInput_Wait, SpinsForEver, ClearOutput, EnterWorld,
         dpdk_release, finalize, PollReleased, SubnetTells, SubnetTellsAgain,
         SubnetStarts, SubnetSends, SubnetReceives, SubnetLeaves, CopyAI, CopyDI, Copy,
         BoxSends
<1>2. MpiTypeOK'
  BY MpiType DEF TypeOK
<1> QED
  BY <1>1, <1>2, SimType, LocalsType, IndexKept, StageType, LinkType, BoxType, HistoryType DEF TypeOK

-----------------------------------------------------------------------------
(* All are ready *)

\* Nobody has said anything at the beginning.
LEMMA InitReady == Init => ReadyInv
<1> SUFFICES ASSUME Init PROVE ReadyInv
  OBVIOUS
<1>1. \A x \in Procs : told[1][x] = "nothing" /\ told[2][x] = "nothing"
  BY DEF Init
<1>2. pid.pc = "init" /\ \A s \in Subnets : subnet[s].pc = "init"
  BY DEF Init
<1>3. Self \in Procs /\ \A s \in Subnets : s \in Procs
  BY Numbers
<1> QED BY <1>1, <1>2, <1>3 DEF ReadyInv, SimulateTogether

\* Who is told for the first time that a process is ready has not been told
\* before; the second time it only repeats what all said the first time.
LEMMA ReadyKept ==
  ASSUME TypeOK, IndexInv, ReadyInv, Next PROVE ReadyInv'
<1> USE DEF ReadyInv, SimulateTogether
<1>0. /\ pid \in Locals
      /\ told \in [1..2 -> [Procs -> {"nothing", "ok", "error"}]]
      /\ subnet \in [Subnets -> SubnetStates]
      /\ Procs = Subnets \cup {Self} /\ Self \notin Subnets /\ 1 \in 1..2 /\ 2 \in 1..2
  BY Numbers DEF TypeOK, MpiTypeOK, SimTypeOK
<1>t. ASSUME NEW x \in Procs, NEW Ierr, Tell(1, x, Ierr), told[1][x] = "nothing"
      PROVE  /\ \A y \in Procs : y # x => told'[1][y] = told[1][y]
             /\ \A y \in Procs : told'[2][y] # "ok"
             /\ \A y \in Procs : told[2][y] # "ok"
  <2>1. \A y \in Procs : told[2][y] # "ok"
    BY <1>t
  <2>2. told'[2] = told[2] /\ \A y \in Procs : y # x => told'[1][y] = told[1][y]
    BY <1>0, <1>t DEF Tell
  <2> QED BY <2>1, <2>2
<1>1. ASSUME NEW s \in Subnets, SubnetTells(s) PROVE ReadyInv'
  <2>1. told[1][s] = "nothing" /\ s \in Procs
    BY <1>0, <1>1 DEF SubnetTells
  <2>2. /\ \A y \in Procs : y # s => told'[1][y] = told[1][y]
        /\ \A y \in Procs : told'[2][y] # "ok"
    BY <1>1, <1>t, <2>1 DEF SubnetTells
  <2>3. subnet'[s].pc = "err1" /\ \A t \in Subnets : t # s => subnet'[t] = subnet[t]
    BY <1>0, <1>1 DEF SubnetTells, SubnetStates
  <2>4. pid' = pid
    BY <1>1 DEF SubnetTells
  <2> QED BY <1>0, <2>1, <2>2, <2>3, <2>4
<1>2. CASE Deal
  <2>1. told[1][Self] = "nothing" /\ Self \in Procs
    BY <1>0, <1>2 DEF Deal
  <2>2. /\ \A y \in Procs : y # Self => told'[1][y] = told[1][y]
        /\ \A y \in Procs : told'[2][y] # "ok"
    BY <1>2, <1>t, <2>1 DEF Deal
  <2>3. pid'.pc = "err1" /\ subnet' = subnet
    BY <1>0, <1>2 DEF Deal, Locals, simVars
  <2> QED BY <1>0, <2>1, <2>2, <2>3
<1>a. ASSUME NEW x \in Procs, AllTold(1), Tell(2, x, ErrorNo(1))
      PROVE  /\ told'[1] = told[1]
             /\ \A y \in Procs : told'[2][y] = "ok" => \A z \in Procs : told[1][z] = "ok"
  <2>1. told'[1] = told[1]
    BY <1>0, <1>a DEF Tell
  <2>2. ~ErrorNo(1) => \A z \in Procs : told[1][z] = "ok"
    BY <1>0, <1>a DEF AllTold, ErrorNo
  <2>3. \A y \in Procs : y # x => told'[2][y] = told[2][y]
    BY <1>0, <1>a DEF Tell
  <2>4. told'[2][x] = "ok" => ~ErrorNo(1)
    BY <1>0, <1>a DEF Tell
  <2> QED BY <2>1, <2>2, <2>3, <2>4
<1>3. ASSUME NEW s \in Subnets, SubnetTellsAgain(s) PROVE ReadyInv'
  <2>1. /\ told'[1] = told[1]
        /\ \A y \in Procs : told'[2][y] = "ok" => \A z \in Procs : told[1][z] = "ok"
    BY <1>0, <1>3, <1>a DEF SubnetTellsAgain
  <2>2. subnet'[s].pc = "err2" /\ \A t \in Subnets : t # s => subnet'[t] = subnet[t]
    BY <1>0, <1>3 DEF SubnetTellsAgain, SubnetStates
  <2>3. pid' = pid
    BY <1>3 DEF SubnetTellsAgain
  <2> QED BY <1>0, <2>1, <2>2, <2>3
<1>4. CASE DealAgain
  <2>1. /\ told'[1] = told[1]
        /\ \A y \in Procs : told'[2][y] = "ok" => \A z \in Procs : told[1][z] = "ok"
    BY <1>0, <1>4, <1>a DEF DealAgain
  <2>2. pid'.pc = "err2" /\ subnet' = subnet
    BY <1>0, <1>4 DEF DealAgain, Locals, simVars
  <2> QED BY <1>0, <2>1, <2>2
<1>5. ASSUME NEW s \in Subnets, SubnetStarts(s) PROVE ReadyInv'
  <2>1. told' = told /\ pid' = pid
    BY <1>5 DEF SubnetStarts, mpiVars
  <2>2. told[2][s] = "ok"
    BY <1>0, <1>5 DEF SubnetStarts, AllTold, ErrorNo
  <2>3. subnet'[s].pc = "send" /\ \A t \in Subnets : t # s => subnet'[t] = subnet[t]
    BY <1>0, <1>5 DEF SubnetStarts, SubnetStates
  <2> QED BY <1>0, <2>1, <2>2, <2>3
<1>6. CASE Decide
  <2>1. told' = told /\ subnet' = subnet
    BY <1>6 DEF Decide, mpiVars, simVars
  <2>2. pid'.pc = (IF ErrorNo(2) THEN "end" ELSE "start")
    BY <1>0, <1>6 DEF Decide, Locals
  <2>3. ~ErrorNo(2) => told[2][Self] = "ok"
    BY <1>0, <1>6 DEF Decide, AllTold, ErrorNo
  <2> QED BY <1>0, <2>1, <2>2, <2>3
<1>7. ASSUME NEW s \in Subnets, SubnetSends(s) \/ SubnetReceives(s) \/ SubnetLeaves(s)
      PROVE  ReadyInv'
  <2>1. told' = told /\ pid' = pid
    BY <1>7 DEF SubnetSends, SubnetReceives, SubnetLeaves, mpiVars
  <2>2. \A t \in Subnets : t # s => subnet'[t] = subnet[t]
    BY <1>0, <1>7 DEF SubnetSends, SubnetReceives, SubnetLeaves
  <2>3. subnet'[s].pc \in {"send", "recv", "done", "world"}
    BY <1>0, <1>7 DEF SubnetSends, SubnetReceives, SubnetLeaves, SubnetStates
  <2>4. subnet'[s].pc # "world" => subnet[s].pc \in {"send", "recv"}
    BY <1>0, <1>7 DEF SubnetSends, SubnetReceives, SubnetLeaves, SubnetStates
  <2> QED BY <1>0, <2>1, <2>2, <2>3, <2>4
<1>8. CASE InitLink \/ pid_thread_create \/ PID_Register
  <2>1. told' = told /\ subnet' = subnet
    BY <1>8 DEF InitLink, pid_thread_create, PID_Register, mpiVars, simVars
  <2>2. /\ pid.pc \in {"init", "thread", "register"}
        /\ pid'.pc \in {"gone", "thread", "register", "deal"}
    <3>1. CASE InitLink
      BY <1>0, <3>1 DEF InitLink, Locals
    <3>2. CASE pid_thread_create
      BY <1>0, <3>2 DEF pid_thread_create, Locals
    <3>3. CASE PID_Register
      BY <1>0, <3>3 DEF PID_Register, Locals, Advance
    <3> QED BY <1>8, <3>1, <3>2, <3>3
  <2> QED BY <1>0, <2>1, <2>2
<1> DEFINE Sim == {"start", "recv", "readAI", "readDI", "send", "out", "wait", "spin",
                   "over"}
<1>9. CASE Simulating
  <2>1. told' = told /\ \A s \in Subnets : subnet'[s] = subnet[s]
    BY <1>9 DEF Simulating, RecvStart, RecvStep, ReadAI, ReadDI, ReadWord, SendSubnet,
                SenddataToPID, MarkInput_Wait, SpinsForEver, ClearOutput, mpiVars,
                simVars
  <2>2. pid.pc \in Sim /\ pid'.pc \in Sim \cup {"end"}
    <3>1. CASE RecvStart \/ RecvStep \/ ReadAI
      BY <1>0, <3>1 DEF RecvStart, RecvStep, ReadAI, ReadWord, Advance, Locals
    <3>2. CASE ReadDI \/ SendSubnet \/ SenddataToPID
      BY <1>0, <3>2 DEF ReadDI, ReadWord, SendSubnet, SenddataToPID, Advance, Locals
    <3>3. CASE MarkInput_Wait \/ SpinsForEver \/ ClearOutput
      BY <1>0, <3>3
      DEF MarkInput_Wait, NextSmallStep, SpinsForEver, ClearOutput, Locals
    <3> QED BY <1>9, <3>1, <3>2, <3>3 DEF Simulating, SpinsForEver
  <2> QED BY <1>0, <2>1, <2>2
<1>10. CASE Ending \/ PollReleased
  <2>1. told' = told /\ subnet' = subnet
    BY <1>10 DEF Ending, EnterWorld, dpdk_release, finalize, PollReleased, mpiVars, simVars
  <2>2. pid'.pc \in {"world", "finalize", "exit", "crash"}
    BY <1>0, <1>10 DEF Ending, EnterWorld, dpdk_release, finalize, PollReleased, Locals
  <2> QED BY <1>0, <2>1, <2>2
<1>11. CASE RxNext \/ \E b \in Boxes : BoxSends(b)
  <2>1. told' = told /\ subnet' = subnet /\ pid' = pid
    BY <1>11 DEF RxNext, TakeMessage, CopyAI, CopyDI, Copy, BoxSends, mpiVars, simVars
  <2> QED BY <2>1
<1> QED
  BY <1>1, <1>2, <1>3, <1>4, <1>5, <1>6, <1>7, <1>8, <1>9, <1>10, <1>11
  DEF Next, Main, StartUp, SubnetNext

-----------------------------------------------------------------------------
(* The messages of the subnets and what is staged of them *)

\* Nothing was sent and nothing staged at the beginning.
LEMMA InitMail == Init => MailInv /\ StageInv
<1> SUFFICES ASSUME Init PROVE MailInv /\ StageInv
  OBVIOUS
<1>1. pid.pc = "init" /\ pid.NT = 0
  BY DEF Init
<1>2. \A s \in Subnets : toPid[s] = <<>> /\ subnet[s].step = 0 /\ subnet[s].pc = "init"
  BY DEF Init
<1>3. \A s \in Subnets : Taken(s) = 0
  BY <1>1 DEF Taken, Early
<1> QED BY <1>1, <1>2, <1>3 DEF MailInv, StageInv, InLoop

\* A subnet sends its steps in order; the loop takes one of each subnet for
\* every step of its own.
LEMMA MailKept ==
  ASSUME TypeOK, IndexInv, MailInv, Next PROVE MailInv'
<1> USE DEF MailInv
<1>0. /\ pid \in Locals
      /\ subnet \in [Subnets -> SubnetStates]
      /\ toPid \in [Subnets -> Seq(Messages)]
      /\ stopAt \in Nat
      /\ Subnets = 1..NumSubnet /\ NumSubnet \in Nat \ {0}
  BY Numbers, DigitalSimAssumption DEF TypeOK, SimTypeOK
\* Where the loop has taken no other message and the subnets have done nothing.
<1>k. ASSUME toPid' = toPid, subnet' = subnet,
             pid'.pc \in Busy => /\ pid.pc \in Busy
                                 /\ \A s \in Subnets : Taken(s)' = Taken(s)
      PROVE  MailInv'
  BY <1>k
<1>1. ASSUME NEW s \in Subnets, SubnetTells(s) \/ SubnetTellsAgain(s) \/ SubnetStarts(s)
      PROVE  MailInv'
  <2>1. pid' = pid /\ toPid' = toPid
    BY <1>1 DEF SubnetTells, SubnetTellsAgain, SubnetStarts
  <2>2. /\ subnet[s].pc \in {"init", "err1", "err2"}
        /\ subnet'[s].pc \in {"err1", "err2", "send"}
        /\ subnet'[s].step = subnet[s].step
        /\ \A t \in Subnets : t # s => subnet'[t] = subnet[t]
    BY <1>0, <1>1 DEF SubnetTells, SubnetTellsAgain, SubnetStarts, SubnetStates
  <2>3. \A t \in Subnets : Taken(t)' = Taken(t)
    BY <2>1 DEF Taken
  <2> QED BY <2>1, <2>2, <2>3
<1>2. ASSUME NEW s \in Subnets, SubnetSends(s) PROVE MailInv'
  <2> DEFINE m == [step |-> subnet[s].step, stop |-> subnet[s].step = stopAt]
  <2>1. pid' = pid /\ \A t \in Subnets : Taken(t)' = Taken(t)
    BY <1>2 DEF SubnetSends, Taken
  <2>2. m \in Messages /\ m.step = subnet[s].step
    BY <1>0 DEF SubnetStates, Messages
  <2>3. /\ toPid'[s] = Append(toPid[s], m)
        /\ \A t \in Subnets : t # s => toPid'[t] = toPid[t]
    BY <1>0, <1>2 DEF SubnetSends
  <2> HIDE DEF m
  <2>4. /\ Len(toPid'[s]) = Len(toPid[s]) + 1
        /\ \A k \in 1..Len(toPid[s]) : toPid'[s][k] = toPid[s][k]
        /\ toPid'[s][Len(toPid[s]) + 1] = m
    BY <1>0, <2>2, <2>3
  <2>5. /\ subnet[s].pc = "send" /\ subnet'[s].pc \in {"done", "recv"}
        /\ subnet'[s].step = subnet[s].step
        /\ \A t \in Subnets : t # s => subnet'[t] = subnet[t]
    BY <1>0, <1>2 DEF SubnetSends, SubnetStates
  <2>6. Len(toPid[s]) \in Nat /\ subnet[s].step \in Nat
    BY <1>0 DEF SubnetStates
  <2>7. Taken(s) \in Nat
    BY <1>0 DEF Taken, Locals
  <2>8. pid.pc \in Busy => subnet[s].step = Taken(s) + Len(toPid[s])
    BY <2>5
  <2>9. pid.pc \in Busy =>
          \A k \in 1..Len(toPid'[s]) : toPid'[s][k].step = Taken(s) + k - 1
    <3> SUFFICES ASSUME pid.pc \in Busy, NEW k \in 1..Len(toPid'[s])
                 PROVE  toPid'[s][k].step = Taken(s) + k - 1
      OBVIOUS
    <3>1. CASE k \in 1..Len(toPid[s])
      BY <2>4, <3>1
    <3>2. CASE k = Len(toPid[s]) + 1
      BY <2>2, <2>4, <2>6, <2>7, <2>8, <3>2
    <3> QED BY <2>4, <2>6, <3>1, <3>2
  <2>10. pid.pc \in Busy => subnet'[s].step + 1 = Taken(s) + Len(toPid'[s])
    BY <2>4, <2>5, <2>6, <2>7, <2>8
  <2> QED BY SMTT(30), <2>1, <2>3, <2>5, <2>9, <2>10
<1>3. ASSUME NEW s \in Subnets, SubnetReceives(s) PROVE MailInv'
  <2>1. pid' = pid /\ toPid' = toPid /\ \A t \in Subnets : Taken(t)' = Taken(t)
    BY <1>3 DEF SubnetReceives, Taken
  <2>2. /\ subnet[s].pc = "recv" /\ subnet'[s].pc = "send"
        /\ subnet'[s].step = subnet[s].step + 1
        /\ \A t \in Subnets : t # s => subnet'[t] = subnet[t]
    BY <1>0, <1>3 DEF SubnetReceives
  <2> QED BY <2>1, <2>2
<1>4. ASSUME NEW s \in Subnets, SubnetLeaves(s) PROVE MailInv'
  <2>1. pid' = pid /\ toPid' = toPid /\ \A t \in Subnets : Taken(t)' = Taken(t)
    BY <1>4 DEF SubnetLeaves, Taken
  <2>2. /\ subnet'[s].pc = "world"
        /\ \A t \in Subnets : t # s => subnet'[t] = subnet[t]
    BY <1>0, <1>4 DEF SubnetLeaves, SubnetStates
  <2> QED BY <2>1, <2>2
<1>5. CASE RecvStep
  <2>0. PICK j \in Subnets : j = pid.i
    BY <1>5 DEF RecvStep, IndexInv, CountsSubnets
  <2>1. pid.i = j /\ pid.pc = "recv" /\ toPid[j] # <<>>
    BY <2>0, <1>5 DEF RecvStep, IndexInv, CountsSubnets
  <2>2. /\ toPid'[j] = Tail(toPid[j])
        /\ \A t \in Subnets : t # j => toPid'[t] = toPid[t]
        /\ subnet' = subnet
    BY <1>0, <1>5, <2>1 DEF RecvStep
  <2>3. /\ pid'.NT = pid.NT /\ pid.NT \in Nat
        /\ j # NumSubnet => pid'.pc = "recv" /\ pid'.i = j + 1
        /\ j = NumSubnet => pid'.pc \in {"over", "readAI"}
    BY <1>0, <1>5, <2>1 DEF RecvStep, Advance, Locals
  <2>4. /\ Taken(j) = pid.NT /\ Taken(j)' = pid.NT + 1
        /\ \A t \in Subnets : t # j => Taken(t)' = Taken(t)
    <3>1. \A t \in Subnets : Taken(t) = IF t >= j THEN pid.NT ELSE pid.NT + 1
      BY <2>1 DEF Taken, Early
    <3>2. \A t \in Subnets : Taken(t)' = IF j = NumSubnet \/ t < j + 1
                                         THEN pid.NT + 1 ELSE pid.NT
      <4>1. CASE j = NumSubnet
        BY <2>3, <4>1 DEF Taken, Early
      <4>2. CASE j # NumSubnet
        <5>1. \A t \in Subnets : Taken(t)' = IF t >= j + 1 THEN pid.NT ELSE pid.NT + 1
          BY <2>3, <4>2 DEF Taken, Early
        <5>2. \A t \in Subnets : t >= j + 1 <=> ~(t < j + 1)
          BY <1>0, <2>1
        <5> QED BY <4>2, <5>1, <5>2
      <4> QED BY <4>1, <4>2
    <3>3. \A t \in Subnets : (t >= j /\ t # j) => ~(j = NumSubnet \/ t < j + 1)
      BY <1>0, <2>1
    <3>4. \A t \in Subnets : ~(t >= j) => (j = NumSubnet \/ t < j + 1)
      BY <1>0, <2>1
    <3>5. j >= j /\ j < j + 1
      BY <1>0, <2>1
    <3> QED BY <2>1, <3>1, <3>2, <3>3, <3>4, <3>5
  <2>5. /\ Len(toPid'[j]) = Len(toPid[j]) - 1 /\ Len(toPid[j]) \in Nat
        /\ \A k \in 1..Len(toPid'[j]) : toPid'[j][k] = toPid[j][k + 1]
    BY <1>0, <2>1, <2>2
  <2>6. pid.pc \in Busy
    BY <2>1 DEF Busy, InLoop
  <2>7. \A k \in 1..Len(toPid'[j]) : toPid'[j][k].step = pid.NT + 1 + k - 1
    <3> SUFFICES ASSUME NEW k \in 1..Len(toPid'[j])
                 PROVE  toPid'[j][k].step = pid.NT + 1 + k - 1
      OBVIOUS
    <3>1. k + 1 \in 1..Len(toPid[j]) /\ k \in Nat
      BY <2>5
    <3>2. toPid[j][k + 1].step = Taken(j) + (k + 1) - 1
      BY <2>1, <2>6, <3>1
    <3>3. toPid'[j][k] = toPid[j][k + 1] /\ Taken(j) = pid.NT
      BY <2>4, <2>5
    <3>4. pid.NT + (k + 1) - 1 = pid.NT + 1 + k - 1
      BY <2>3, <3>1
    <3> QED BY <3>2, <3>3, <3>4
  <2>8. /\ subnet[j].pc \in {"init", "err1", "err2", "send"} =>
             subnet[j].step = (pid.NT + 1) + Len(toPid'[j])
        /\ subnet[j].pc = "recv" =>
             subnet[j].step + 1 = (pid.NT + 1) + Len(toPid'[j])
    <3>1. Taken(j) = pid.NT
      BY <2>4
    <3>2. pid.NT + Len(toPid[j]) = (pid.NT + 1) + Len(toPid'[j])
      BY SMTT(30), <2>3, <2>5
    <3> QED BY <2>0, <2>6, <3>1, <3>2
  <2>9. \A t \in Subnets : t # j => Taken(t)' = Taken(t) /\ toPid'[t] = toPid[t]
    BY <2>2, <2>4
  <2>10. \A t \in Subnets :
           /\ \A k \in 1..Len(toPid'[t]) : toPid'[t][k].step = Taken(t)' + k - 1
           /\ subnet[t].pc \in {"init", "err1", "err2", "send"} =>
                subnet[t].step = Taken(t)' + Len(toPid'[t])
           /\ subnet[t].pc = "recv" => subnet[t].step + 1 = Taken(t)' + Len(toPid'[t])
    BY <2>4, <2>6, <2>7, <2>8, <2>9
  <2> QED BY <2>2, <2>10
<1>6. CASE StartUp \/ RecvStart
  <2>1. toPid' = toPid /\ subnet' = subnet
    BY <1>6 DEF StartUp, InitLink, pid_thread_create, PID_Register, Deal, DealAgain, Decide,
                RecvStart, simVars
  <2>2. /\ pid.pc \in Early /\ pid'.NT = pid.NT
        /\ pid'.pc \in Early \cup {"end"} \/ (pid'.pc = "recv" /\ pid'.i = 1)
    <3>1. CASE InitLink \/ pid_thread_create \/ Deal
      BY <1>0, <3>1 DEF InitLink, pid_thread_create, Deal, Locals, Early
    <3>2. CASE PID_Register \/ RecvStart
      BY <1>0, <3>2 DEF PID_Register, RecvStart, Advance, Locals, Early
    <3>3. CASE DealAgain \/ Decide
      BY <1>0, <3>3 DEF DealAgain, Decide, Locals, Early
    <3> QED BY <1>6, <3>1, <3>2, <3>3 DEF StartUp
  <2>3. pid'.pc \in Busy => \A s \in Subnets : Taken(s)' = Taken(s)
    BY <1>0, <2>2 DEF Taken, Busy, InLoop, Early
  <2> QED BY <1>k, <2>1, <2>2, <2>3 DEF Busy
<1>7. CASE ReadAI \/ ReadDI \/ SendSubnet \/ SenddataToPID
  <2>1. toPid' = toPid /\ subnet' = subnet
    BY <1>7 DEF ReadAI, ReadDI, ReadWord, SendSubnet, SenddataToPID, simVars
  <2>2. /\ pid.pc \in InLoop \ {"recv"} /\ pid'.pc \in InLoop \ {"recv"}
        /\ pid'.NT = pid.NT
    BY <1>0, <1>7 DEF ReadAI, ReadDI, ReadWord, SendSubnet, SenddataToPID, Advance,
                      Locals, InLoop
  <2>3. \A s \in Subnets : Taken(s)' = Taken(s)
    BY <2>2 DEF Taken, Early, InLoop
  <2> QED BY <1>k, <2>1, <2>2, <2>3 DEF Busy
<1>8. CASE MarkInput_Wait
  <2>1. toPid' = toPid /\ subnet' = subnet
    BY <1>8 DEF MarkInput_Wait, simVars
  <2>2. /\ pid.pc = "wait"
        /\ \/ pid'.pc \in {"out", "wait"} /\ pid'.NT = pid.NT
           \/ pid'.pc = "recv" /\ pid'.i = 1 /\ pid'.NT = pid.NT + 1
    BY <1>0, <1>8 DEF MarkInput_Wait, NextSmallStep, Locals
  <2>3. \A s \in Subnets : Taken(s)' = Taken(s)
    BY <1>0, <2>2 DEF Taken, Early
  <2>4. pid.pc \in Busy
    BY <2>2 DEF Busy, InLoop
  <2> QED BY <1>k, <2>1, <2>3, <2>4
<1>9. CASE ClearOutput \/ Ending \/ PollReleased \/ SpinsForEver
  <2>1. toPid' = toPid /\ subnet' = subnet
    BY <1>9 DEF ClearOutput, Ending, EnterWorld, dpdk_release, finalize, PollReleased,
                SpinsForEver, simVars
  <2>2. pid'.pc \notin Busy
    BY <1>0, <1>9 DEF ClearOutput, Ending, EnterWorld, dpdk_release, finalize, PollReleased,
                      SpinsForEver,
                      Locals, Busy, Early, InLoop
  <2> QED BY <1>k, <2>1, <2>2
<1>10. CASE RxNext \/ \E b \in Boxes : BoxSends(b)
  <2>1. toPid' = toPid /\ subnet' = subnet /\ pid' = pid
    BY <1>10 DEF RxNext, TakeMessage, CopyAI, CopyDI, Copy, BoxSends, simVars
  <2> QED BY <1>k, <2>1 DEF Taken
<1> QED
  BY <1>1, <1>2, <1>3, <1>4, <1>5, <1>6, <1>7, <1>8, <1>9, <1>10
  DEF Next, Main, Simulating, SpinsForEver, SubnetNext

\* In each turn of the first loop the values of one subnet, of the step the
\* loop counts, are staged in every box, and nothing else stages any.
LEMMA StageKept ==
  ASSUME TypeOK, IndexInv, MailInv, StageInv, Next PROVE StageInv'
<1> USE DEF StageInv, InLoop
<1>0. /\ pid \in Locals
      /\ volt \in [Boxes -> Values] /\ data \in [Boxes -> Values]
      /\ toPid \in [Subnets -> Seq(Messages)]
      /\ Subnets = 1..NumSubnet /\ NumSubnet \in Nat \ {0}
  BY Numbers DEF TypeOK, SimTypeOK, StageTypeOK
<1>1. CASE RecvStep
  <2>0. PICK j \in Subnets : j = pid.i
    BY <1>1 DEF RecvStep, IndexInv, CountsSubnets
  <2>1. pid.pc = "recv" /\ toPid[j] # <<>>
    BY <1>1, <2>0 DEF RecvStep
  <2>2. Taken(j) = pid.NT /\ pid.NT \in Nat
    BY <1>0, <2>0, <2>1 DEF Taken, Locals
  <2>3. Len(toPid[j]) \in Nat \ {0} /\ Head(toPid[j]) = toPid[j][1]
    BY <1>0, <2>1
  <2>4. toPid[j][1].step = Taken(j) + 1 - 1
    <3>1. 1 \in 1..Len(toPid[j]) /\ pid.pc \in Busy
      BY <2>1, <2>3 DEF Busy
    <3> QED BY <3>1 DEF MailInv
  <2>5. Head(toPid[j]).step = pid.NT
    BY <2>2, <2>3, <2>4
  <2>6. /\ volt' = [b \in Boxes |-> IF b \in HasAO THEN [volt[b] EXCEPT ![j] = pid.NT]
                                                   ELSE volt[b]]
        /\ data' = [b \in Boxes |-> IF b \in HasDO THEN [data[b] EXCEPT ![j] = pid.NT]
                                                   ELSE data[b]]
    BY <1>1, <2>0, <2>5 DEF RecvStep, GetSimuVal, Staged
  <2>7. \A b \in Boxes : /\ b \in HasAO => volt'[b][j] = pid.NT
                         /\ b \in HasDO => data'[b][j] = pid.NT
                         /\ \A t \in Subnets : t # j => /\ volt'[b][t] = volt[b][t]
                                                        /\ data'[b][t] = data[b][t]
    BY <1>0, <2>6 DEF Values
  <2>8. \A t \in Subnets : t < j => \A b \in Boxes : /\ b \in HasAO => volt[b][t] = pid.NT
                                                     /\ b \in HasDO => data[b][t] = pid.NT
    BY <2>0, <2>1
  <2>9. /\ pid'.NT = pid.NT
        /\ j # NumSubnet => pid'.pc = "recv" /\ pid'.i = j + 1
        /\ j = NumSubnet => pid'.pc \in {"over", "readAI"}
    BY <1>0, <1>1, <2>0 DEF RecvStep, Advance, Locals
  <2>10. \A t \in Subnets : (j = NumSubnet \/ t < j + 1) => (t < j \/ t = j)
    BY <1>0
  <2>11. \A t \in Subnets : (j = NumSubnet \/ t < j + 1) =>
           \A b \in Boxes : /\ b \in HasAO => volt'[b][t] = pid.NT
                            /\ b \in HasDO => data'[b][t] = pid.NT
    BY <2>7, <2>8, <2>10
  <2> QED BY <2>9, <2>11
\* Where nothing is staged and no more is counted as staged.
<1>k. ASSUME volt' = volt, data' = data,
             pid'.pc \in InLoop \ {"recv"} => pid.pc \in InLoop \ {"recv"} /\ pid'.NT = pid.NT,
             pid'.pc = "recv" => pid'.i = 1
      PROVE  StageInv'
  <2>1. \A s \in Subnets : ~(s < 1)
    BY <1>0
  <2> QED BY <1>k, <2>1
<1>2. CASE StartUp \/ RecvStart
  <2>1. volt' = volt /\ data' = data
    BY <1>2 DEF StartUp, InitLink, pid_thread_create, PID_Register, Deal, DealAgain, Decide,
                RecvStart, stageVars
  <2>2. pid'.pc \in Early \cup {"end"} \/ (pid'.pc = "recv" /\ pid'.i = 1)
    <3>1. CASE InitLink \/ pid_thread_create \/ Deal
      BY <1>0, <3>1 DEF InitLink, pid_thread_create, Deal, Locals, Early
    <3>2. CASE PID_Register \/ RecvStart
      BY <1>0, <3>2 DEF PID_Register, RecvStart, Advance, Locals, Early
    <3>3. CASE DealAgain \/ Decide
      BY <1>0, <3>3 DEF DealAgain, Decide, Locals, Early
    <3> QED BY <1>2, <3>1, <3>2, <3>3 DEF StartUp
  <2> QED BY <1>k, <2>1, <2>2 DEF Early
<1>3. CASE ReadAI \/ ReadDI \/ SendSubnet \/ SenddataToPID
  <2>1. volt' = volt /\ data' = data
    BY <1>3 DEF ReadAI, ReadDI, ReadWord, SendSubnet, SenddataToPID, stageVars
  <2>2. /\ pid.pc \in InLoop \ {"recv"} /\ pid'.pc \in InLoop \ {"recv"}
        /\ pid'.NT = pid.NT
    BY <1>0, <1>3 DEF ReadAI, ReadDI, ReadWord, SendSubnet, SenddataToPID, Advance,
                      Locals
  <2> QED BY <1>k, <2>1, <2>2
<1>4. CASE MarkInput_Wait
  <2>1. volt' = volt /\ data' = data
    BY <1>4 DEF MarkInput_Wait, stageVars
  <2>2. /\ pid.pc = "wait"
        /\ \/ pid'.pc \in {"out", "wait"} /\ pid'.NT = pid.NT
           \/ pid'.pc = "recv" /\ pid'.i = 1
    BY <1>0, <1>4 DEF MarkInput_Wait, NextSmallStep, Locals
  <2> QED BY <1>k, <2>1, <2>2
<1>5. CASE ClearOutput \/ Ending \/ PollReleased \/ SpinsForEver
  <2>1. pid'.pc \notin InLoop
    BY <1>0, <1>5 DEF ClearOutput, Ending, EnterWorld, dpdk_release, finalize, PollReleased,
                      SpinsForEver,
                      Locals
  <2> QED BY <2>1
<1>6. CASE UNCHANGED <<pid, stageVars>>
  BY <1>6 DEF stageVars
<1> QED
  BY <1>1, <1>2, <1>3, <1>4, <1>5, <1>6
  DEF Next, Main, Simulating, SpinsForEver, SubnetNext, RxNext, TakeMessage,
      SubnetTells, SubnetTellsAgain, SubnetStarts, SubnetSends, SubnetReceives,
      SubnetLeaves, CopyAI, CopyDI, Copy, BoxSends

-----------------------------------------------------------------------------
(* The inputs *)

\* main does not touch the inputs of a device.
LEMMA InputsKept ==
  ASSUME TypeOK, IndexInv,
         PID_Register \/ SenddataToPID \/ MarkInput_Wait \/ ClearOutput \/ finalize
  PROVE  /\ copying' = copying
         /\ \A b \in Boxes : /\ dev'[b].rx_count = dev[b].rx_count
                             /\ dev'[b].inputs = dev[b].inputs
<1>0. /\ \A b \in Boxes : dev[b] \in Devices
      /\ dev \in [Boxes -> Devices]
  BY DEF TypeOK, BoxTypeOK
<1>1. CASE PID_Register
  BY <1>0, <1>1 DEF PID_Register, Devices
<1>2. CASE SenddataToPID
  <2> DEFINE d == PID_DO_GrpWrite(pid.i, PID_AO_GrpWrite(pid.i, dev[pid.i]))
  <2>1. pid.i \in Boxes
    BY <1>2 DEF SenddataToPID, IndexInv, CountsBoxes
  <2>2. /\ d \in Devices
        /\ d.rx_count = dev[pid.i].rx_count /\ d.inputs = dev[pid.i].inputs
    <3>1. volt[pid.i] \in Values /\ data[pid.i] \in Values
      BY <2>1 DEF TypeOK, StageTypeOK
    <3> QED BY <1>0, <2>1, <3>1 DEF PID_AO_GrpWrite, PID_DO_GrpWrite, Devices
  <2>3. dev' = [dev EXCEPT ![pid.i] = PID_Update_NewData(d)] /\ copying' = copying
    BY <1>2 DEF SenddataToPID
  <2> HIDE DEF d
  <2>4. /\ PID_Update_NewData(d).rx_count = d.rx_count
        /\ PID_Update_NewData(d).inputs = d.inputs
    BY <2>2 DEF PID_Update_NewData, Devices
  <2> QED BY <1>0, <2>1, <2>2, <2>3, <2>4
<1>3. CASE MarkInput_Wait
  BY <1>0, <1>3 DEF MarkInput_Wait, PID_MarkInput_Wait, Devices
<1>4. CASE ClearOutput
  BY <1>0, <1>4 DEF ClearOutput, Devices
<1>5. CASE finalize
  BY <1>0, <1>5 DEF finalize, PID_Release, Devices
<1> QED BY <1>1, <1>2, <1>3, <1>4, <1>5

\* A message is counted before its words are copied, and a copy changes one word.
LEMMA RxChange ==
  ASSUME TypeOK, NEW b \in Boxes
  PROVE  /\ TakeMessage(b) =>
              /\ copying[b] = {} /\ copying'[b] = Words
              /\ dev'[b].rx_count = dev[b].rx_count + 1
              /\ dev'[b].inputs = dev[b].inputs
              /\ \A c \in Boxes : c # b => dev'[c] = dev[c] /\ copying'[c] = copying[c]
         /\ CopyAI(b) \/ CopyDI(b) => \E w \in copying[b] :
              /\ w \in Words /\ copying'[b] = copying[b] \ {w}
              /\ dev'[b].rx_count = dev[b].rx_count
              /\ dev'[b].inputs = [dev[b].inputs EXCEPT ![w] = dev[b].rx_count]
              /\ \A c \in Boxes : c # b => dev'[c] = dev[c] /\ copying'[c] = copying[c]
<1>0. dev \in [Boxes -> Devices] /\ copying \in [Boxes -> SUBSET Words]
  BY DEF TypeOK, BoxTypeOK
<1>1. CASE TakeMessage(b)
  <2>1. CopyAI(b) \/ CopyDI(b) => FALSE
    BY <1>1 DEF TakeMessage, CopyAI, CopyDI
  <2> QED BY <1>0, <1>1, <2>1 DEF TakeMessage, Devices
<1>2. CASE ~TakeMessage(b) /\ (CopyAI(b) \/ CopyDI(b))
  <2>1. PICK w \in copying[b] : Copy(b, w)
    BY <1>2 DEF CopyAI, CopyDI
  <2>2. w \in Words /\ dev[b] \in Devices
    BY <1>0
  <2>3. /\ copying' = [copying EXCEPT ![b] = @ \ {w}]
        /\ dev' = [dev EXCEPT ![b] = [dev[b] EXCEPT !.inputs[w] = dev[b].rx_count]]
    BY <2>1 DEF Copy
  <2> QED BY <1>0, <1>2, <2>2, <2>3 DEF Devices
<1> QED BY <1>1, <1>2

\* What the devices count and hold are numbers.
LEMMA InputsType ==
  ASSUME TypeOK, NEW b \in Boxes
  PROVE  /\ dev[b].rx_count \in Nat
         /\ \A w \in Words : dev[b].inputs[w] \in Nat /\ snap[b][w] \in Nat
<1>1. dev[b] \in Devices /\ snap[b] \in [Words -> 0..MaxInput]
  BY DEF TypeOK, BoxTypeOK, StageTypeOK, Inputs
<1> QED BY <1>1, DigitalSimAssumption DEF Devices

\* The receive thread copies one message after the other.
LEMMA CopyKept ==
  ASSUME TypeOK, IndexInv, CopyInv, Next PROVE CopyInv'
<1> USE DEF CopyInv
<1>0. \A b \in Boxes : /\ dev[b].rx_count \in Nat
                       /\ \A w \in Words : dev[b].inputs[w] \in Nat
  BY InputsType
<1>i. \A b \in Boxes : dev[b].inputs \in [Words -> 0..MaxInput]
  BY DEF TypeOK, BoxTypeOK, Devices
<1>1. ASSUME NEW b \in Boxes, TakeMessage(b) PROVE CopyInv'
  BY <1>0, <1>1, RxChange
<1>2. ASSUME NEW b \in Boxes, CopyAI(b) \/ CopyDI(b) PROVE CopyInv'
  <2>1. PICK w \in copying[b] :
          /\ w \in Words /\ copying'[b] = copying[b] \ {w}
          /\ dev'[b].rx_count = dev[b].rx_count
          /\ dev'[b].inputs = [dev[b].inputs EXCEPT ![w] = dev[b].rx_count]
          /\ \A c \in Boxes : c # b => dev'[c] = dev[c] /\ copying'[c] = copying[c]
    BY <1>2, RxChange
  <2>2. \A v \in Words : dev'[b].inputs[v] = IF v = w THEN dev[b].rx_count
                                                      ELSE dev[b].inputs[v]
    BY <1>i, <2>1
  <2>3. ASSUME NEW c \in Boxes, NEW v \in Words
        PROVE  dev'[c].inputs[v] = IF v \in copying'[c] THEN dev'[c].rx_count - 1
                                                       ELSE dev'[c].rx_count
    <3>1. CASE c # b
      BY <2>1, <3>1
    <3>2. CASE c = b /\ v = w
      BY <2>1, <2>2, <3>2
    <3>3. CASE c = b /\ v # w
      BY <2>1, <2>2, <3>3
    <3> QED BY <3>1, <3>2, <3>3
  <2> QED BY <2>3
<1>3. ASSUME copying' = copying,
             \A b \in Boxes : /\ dev'[b].rx_count = dev[b].rx_count
                              /\ dev'[b].inputs = dev[b].inputs
      PROVE  CopyInv'
  BY <1>3
<1>4. ASSUME PID_Register \/ SenddataToPID \/ MarkInput_Wait \/ ClearOutput \/ finalize
      PROVE  CopyInv'
  BY <1>3, <1>4, InputsKept
<1>5. CASE UNCHANGED boxVars \/ \E b \in Boxes : BoxSends(b)
  BY <1>5 DEF boxVars, BoxSends
<1> QED
  BY <1>1, <1>2, <1>4, <1>5
  DEF Next, Main, StartUp, Simulating, SpinsForEver, Ending, SubnetNext, RxNext, boxVars,
      InitLink, pid_thread_create, Deal, DealAgain, Decide, RecvStart, RecvStep, ReadAI,
      ReadDI, ReadWord, SendSubnet, EnterWorld, dpdk_release, PollReleased, SubnetTells,
      SubnetTellsAgain, SubnetStarts, SubnetSends, SubnetReceives, SubnetLeaves

\* So no word of a device lags by more than one message behind another.
LEMMA DeviceLag ==
  ASSUME TypeOK, CopyInv, NEW b \in Boxes, NEW v \in Words, NEW w \in Words
  PROVE  dev[b].inputs[w] >= dev[b].inputs[v] - 1
BY InputsType DEF CopyInv

\* The thread takes nothing back of what it copied.
LEMMA RxAdvances ==
  ASSUME TypeOK, CopyInv, NEW b \in Boxes, TakeMessage(b) \/ CopyAI(b) \/ CopyDI(b)
  PROVE  \A c \in Boxes : \A w \in Words : dev[c].inputs[w] <= dev'[c].inputs[w]
<1>0. /\ \A c \in Boxes : dev[c].inputs \in [Words -> 0..MaxInput]
      /\ \A c \in Boxes : \A w \in Words : dev[c].inputs[w] \in Nat
      /\ dev[b].rx_count \in Nat
  BY InputsType DEF TypeOK, BoxTypeOK, Devices
<1>1. CASE TakeMessage(b)
  BY <1>0, <1>1, RxChange
<1>2. CASE CopyAI(b) \/ CopyDI(b)
  <2>1. PICK w \in copying[b] :
          /\ w \in Words
          /\ dev'[b].inputs = [dev[b].inputs EXCEPT ![w] = dev[b].rx_count]
          /\ \A c \in Boxes : c # b => dev'[c] = dev[c]
    BY <1>2, RxChange
  <2>2. \A v \in Words : dev'[b].inputs[v] = IF v = w THEN dev[b].rx_count
                                                      ELSE dev[b].inputs[v]
    BY <1>0, <2>1
  <2>3. dev[b].inputs[w] <= dev[b].rx_count
    BY <1>0, <2>1 DEF CopyInv
  <2> QED BY <1>0, <2>1, <2>2, <2>3
<1> QED BY <1>1, <1>2

\* A reading of the loop puts one word of one box in its place, and goes on to
\* the next word or, past the last, to word 1.
LEMMA Reading ==
  ASSUME TypeOK, IndexInv, ReadAI \/ ReadDI
  PROVE  /\ pid.pc \in {"readAI", "readDI"} /\ pid.i \in Boxes /\ pid.word \in Words
         /\ \A w \in Words : snap'[pid.i][w] = IF w = pid.word THEN dev[pid.i].inputs[w]
                                                               ELSE snap[pid.i][w]
         /\ \A b \in Boxes : b # pid.i => snap'[b] = snap[b]
         /\ dev' = dev
         /\ \/ /\ pid'.pc \in {"readAI", "readDI"} /\ pid'.i = pid.i
               /\ pid'.word = pid.word + 1
            \/ /\ pid'.word = 1
               /\ \A v \in Words : v <= pid.word
<1>0. pid \in Locals /\ snap \in [Boxes -> [Words -> 0..MaxInput]]
  BY DEF TypeOK, StageTypeOK, Inputs
<1>1. /\ pid.pc \in {"readAI", "readDI"} /\ pid.i \in Boxes /\ pid.word \in Words
  BY <1>0 DEF ReadAI, ReadDI, IndexInv, CountsBoxes, Locals
<1>2. snap' = [snap EXCEPT ![pid.i][pid.word] = dev[pid.i].inputs[pid.word]] /\ dev' = dev
  BY DEF ReadAI, ReadDI, ReadWord, boxVars
<1>3. CASE ReadAI
  <2>1. pid' = [pid EXCEPT !.word = @ + 1,
                           !.pc = IF pid.word = NumAI THEN "readDI" ELSE "readAI"]
    BY <1>3 DEF ReadAI
  <2>2. /\ pid'.pc \in {"readAI", "readDI"} /\ pid'.i = pid.i
        /\ pid'.word = pid.word + 1
    BY <1>0, <2>1 DEF Locals
  <2> QED BY <1>0, <1>1, <1>2, <2>2
<1>4. CASE ReadDI
  <2>1. CASE pid.word < NumAI + NumDI
    <3>1. pid' = [pid EXCEPT !.word = @ + 1] /\ pid.pc = "readDI"
      BY <1>4, <2>1 DEF ReadDI
    <3> QED BY <1>0, <1>1, <1>2, <3>1 DEF Locals
  <2>2. CASE ~(pid.word < NumAI + NumDI)
    <3>1. pid' = [Advance(NumBox - 1, "readAI", 1, "send") EXCEPT !.word = 1]
      BY <1>4, <2>2 DEF ReadDI
    <3>2. pid'.word = 1
      BY <1>0, <3>1 DEF Advance, Locals
    <3>3. \A v \in Words : v <= pid.word
      BY <1>1, <2>2, WordNumbers
    <3> QED BY <1>0, <1>1, <1>2, <3>2, <3>3
  <2> QED BY <2>1, <2>2
<1> QED BY <1>3, <1>4

\* The inputs the loop holds are those of a device, read word by word.
LEMMA SnapKept ==
  ASSUME TypeOK, IndexInv, CopyInv, SnapInv, Next PROVE SnapInv'
<1> USE DEF SnapInv
<1>0. /\ pid \in Locals
      /\ \A b \in Boxes : \A w \in Words :
           dev[b].inputs[w] \in Nat /\ snap[b][w] \in Nat
  BY InputsType DEF TypeOK
<1>t. TypeOK'
  BY StepType
<1>n. \A b \in Boxes : \A w \in Words : dev'[b].inputs[w] \in Nat /\ snap'[b][w] \in Nat
  <2>1. ASSUME NEW b \in Boxes
        PROVE  \A w \in Words : dev'[b].inputs[w] \in Nat /\ snap'[b][w] \in Nat
    <3>1. dev'[b] \in Devices /\ snap'[b] \in [Words -> 0..MaxInput]
      BY <1>t DEF TypeOK, BoxTypeOK, StageTypeOK, Inputs
    <3> QED BY <3>1, DigitalSimAssumption DEF Devices
  <2> QED BY <2>1
\* A step that does not read, and does not take back what was copied.
<1>k. ASSUME snap' = snap,
             \A b \in Boxes : \A w \in Words : dev[b].inputs[w] <= dev'[b].inputs[w],
             pid'.pc \in Busy => /\ pid.pc \in Busy
                                 /\ pid.pc \in {"readAI", "readDI"} => pid' = pid
      PROVE  SnapInv'
  <2> SUFFICES ASSUME pid'.pc \in Busy, NEW b \in Boxes, NEW w \in Words
               PROVE  /\ snap'[b][w] <= dev'[b].inputs[w]
                      /\ \A v \in Words : v < w =>
                           snap'[b][w] >= snap'[b][v] - 1 \/ ReadBetween(b, v, w)'
    OBVIOUS
  <2>1. pid.pc \in Busy /\ (pid.pc \in {"readAI", "readDI"} => pid' = pid)
    BY <1>k
  <2>2. snap[b][w] <= dev[b].inputs[w] /\ dev[b].inputs[w] <= dev'[b].inputs[w]
    BY <1>k, <2>1
  <2>3. snap'[b][w] <= dev'[b].inputs[w]
    BY <1>0, <1>n, <1>k, <2>2
  <2>4. ASSUME NEW v \in Words, v < w, ReadBetween(b, v, w) PROVE ReadBetween(b, v, w)'
    BY <2>1, <2>4 DEF ReadBetween
  <2> QED BY <1>k, <2>1, <2>3, <2>4
<1>1. CASE ReadAI \/ ReadDI
  <2> SUFFICES ASSUME pid'.pc \in Busy, NEW b \in Boxes, NEW w \in Words
               PROVE  /\ snap'[b][w] <= dev'[b].inputs[w]
                      /\ \A v \in Words : v < w =>
                           snap'[b][w] >= snap'[b][v] - 1 \/ ReadBetween(b, v, w)'
    OBVIOUS
  <2>1. /\ pid.pc \in {"readAI", "readDI"} /\ pid.i \in Boxes /\ pid.word \in Words
        /\ \A u \in Words : snap'[pid.i][u] = IF u = pid.word THEN dev[pid.i].inputs[u]
                                                              ELSE snap[pid.i][u]
        /\ \A c \in Boxes : c # pid.i => snap'[c] = snap[c]
        /\ dev' = dev
        /\ \/ /\ pid'.pc \in {"readAI", "readDI"} /\ pid'.i = pid.i
              /\ pid'.word = pid.word + 1
           \/ /\ pid'.word = 1
              /\ \A v \in Words : v <= pid.word
    BY <1>1, Reading
  <2>2. pid.pc \in Busy
    BY <2>1 DEF Busy, InLoop
  <2>3. snap'[b][w] <= dev'[b].inputs[w]
    BY <1>0, <2>1, <2>2
  <2>4. CASE b # pid.i
    BY <2>1, <2>2, <2>3, <2>4 DEF ReadBetween
  <2>5. CASE b = pid.i
    <3>1. ASSUME NEW v \in Words, v < w
          PROVE  snap'[b][w] >= snap'[b][v] - 1 \/ ReadBetween(b, v, w)'
      <4>1. v \in Nat /\ w \in Nat /\ pid.word \in Nat
        BY <2>1, WordNumbers
      <4>2. CASE w < pid.word
        <5>1. snap'[b][w] = snap[b][w] /\ snap'[b][v] = snap[b][v] /\ ~ReadBetween(b, v, w)
          BY <2>1, <2>5, <3>1, <4>1, <4>2 DEF ReadBetween
        <5> QED BY <2>2, <3>1, <5>1
      <4>3. CASE w = pid.word
        <5>1. snap'[b][w] = dev[b].inputs[w] /\ snap'[b][v] = snap[b][v]
          BY <2>1, <2>5, <3>1, <4>1, <4>3
        <5>2. snap[b][v] <= dev[b].inputs[v]
          BY <2>2
        <5>3. dev[b].inputs[w] >= dev[b].inputs[v] - 1
          BY DeviceLag
        <5> QED BY <1>0, <5>1, <5>2, <5>3
      <4>4. CASE w > pid.word /\ v <= pid.word
        <5>1. /\ pid'.pc \in {"readAI", "readDI"} /\ pid'.i = pid.i
              /\ pid'.word = pid.word + 1
          BY <2>1, <4>1, <4>4
        <5> QED BY <2>5, <4>1, <4>4, <5>1 DEF ReadBetween
      <4>5. CASE v > pid.word
        <5>1. snap'[b][w] = snap[b][w] /\ snap'[b][v] = snap[b][v] /\ ~ReadBetween(b, v, w)
          BY <2>1, <2>5, <3>1, <4>1, <4>5 DEF ReadBetween
        <5> QED BY <2>2, <3>1, <5>1
      <4> QED BY <4>1, <4>2, <4>3, <4>4, <4>5
    <3> QED BY <2>3, <3>1
  <2> QED BY <2>4, <2>5
<1>3. ASSUME NEW b \in Boxes, TakeMessage(b) \/ CopyAI(b) \/ CopyDI(b) PROVE SnapInv'
  <2>1. snap' = snap /\ pid' = pid
    BY <1>3 DEF TakeMessage, CopyAI, CopyDI, Copy, stageVars
  <2>2. \A c \in Boxes : \A w \in Words : dev[c].inputs[w] <= dev'[c].inputs[w]
    BY <1>3, RxAdvances
  <2> QED BY <1>k, <2>1, <2>2
<1>5. CASE PID_Register \/ SenddataToPID \/ MarkInput_Wait \/ ClearOutput \/ finalize
  <2>1. \A c \in Boxes : \A w \in Words : dev[c].inputs[w] <= dev'[c].inputs[w]
    BY <1>0, <1>5, InputsKept
  <2>2. snap' = snap
    BY <1>5 DEF PID_Register, SenddataToPID, MarkInput_Wait, ClearOutput, finalize, stageVars
  <2>3. pid'.pc \in Busy => pid.pc \in Busy \ {"readAI", "readDI"}
    <3>1. CASE PID_Register \/ SenddataToPID \/ MarkInput_Wait
      BY <3>1 DEF PID_Register, SenddataToPID, MarkInput_Wait, Busy, Early, InLoop
    <3>2. CASE ClearOutput \/ finalize
      BY <1>0, <3>2 DEF ClearOutput, finalize, Locals, Busy, Early, InLoop
    <3> QED BY <1>5, <3>1, <3>2
  <2> QED BY <1>k, <2>1, <2>2, <2>3
<1>6. ASSUME snap' = snap, dev' = dev,
             pid'.pc \in Busy => /\ pid.pc \in Busy
                                 /\ pid.pc \in {"readAI", "readDI"} => pid' = pid
      PROVE  SnapInv'
  BY <1>0, <1>6, <1>k
<1>7. CASE InitLink \/ pid_thread_create \/ Deal \/ DealAgain \/ Decide
  <2>1. snap' = snap /\ dev' = dev
    BY <1>7 DEF InitLink, pid_thread_create, Deal, DealAgain, Decide, stageVars, boxVars
  <2>2. pid.pc \in Busy \ {"readAI", "readDI"}
    BY <1>7 DEF InitLink, pid_thread_create, Deal, DealAgain, Decide, Busy, Early
  <2> QED BY <1>6, <2>1, <2>2
<1>8. CASE RecvStart \/ RecvStep \/ SendSubnet
  <2>1. snap' = snap /\ dev' = dev
    BY <1>8 DEF RecvStart, RecvStep, SendSubnet, stageVars, boxVars
  <2>2. pid.pc \in Busy \ {"readAI", "readDI"}
    BY <1>8 DEF RecvStart, RecvStep, SendSubnet, Busy, Early, InLoop
  <2> QED BY <1>6, <2>1, <2>2
<1>9. CASE EnterWorld \/ dpdk_release \/ PollReleased \/ SpinsForEver
  <2>1. pid'.pc \notin Busy
    BY <1>0, <1>9 DEF EnterWorld, dpdk_release, PollReleased, SpinsForEver, Locals, Busy,
                      Early, InLoop
  <2> QED BY <2>1
<1>10. CASE UNCHANGED <<pid, snap, dev>>
  BY <1>6, <1>10
<1> QED
  BY <1>1, <1>3, <1>5, <1>7, <1>8, <1>9, <1>10
  DEF Next, Main, StartUp, Simulating, Ending, SubnetNext, RxNext, SubnetTells, SubnetTellsAgain, SubnetStarts, SubnetSends,
      SubnetReceives, SubnetLeaves, BoxSends, stageVars, boxVars

\* A message that is received moves from the end of what is on its way to
\* the beginning of what was received.
LEMMA ReceiveKeeps ==
  ASSUME NEW S, NEW g \in Seq(S), NEW q \in Seq(S), q # <<>>
  PROVE  Append(g, Head(q)) \o Tail(q) = g \o q
<1>1. Append(g, Head(q)) \in Seq(S) /\ Tail(q) \in Seq(S)
  OBVIOUS
<1>2. Len(Append(g, Head(q))) = Len(g) + 1 /\ Len(Tail(q)) = Len(q) - 1 /\ Len(q) > 0
  OBVIOUS
<1> DEFINE a == Append(g, Head(q)) \o Tail(q)
           c == g \o q
<1>3. a \in Seq(S) /\ c \in Seq(S) /\ Len(a) = Len(c)
  BY <1>1, <1>2
<1>4. ASSUME NEW k \in 1..Len(a) PROVE a[k] = c[k]
  <2>0. Len(a) = Len(g) + Len(q) /\ k \in Nat \ {0} /\ Len(g) \in Nat /\ Len(q) \in Nat
    BY <1>1, <1>2
  <2>1. CASE k <= Len(g)
    BY <1>1, <1>2, <2>0, <2>1
  <2>2. CASE k = Len(g) + 1
    BY <1>1, <1>2, <2>0, <2>2
  <2>3. CASE k > Len(g) + 1
    <3>1. a[k] = Tail(q)[k - (Len(g) + 1)]
      BY <1>1, <1>2, <2>0, <2>3
    <3>2. c[k] = q[k - Len(g)]
      BY <2>0, <2>3
    <3>3. k - (Len(g) + 1) \in 1..Len(Tail(q))
      BY <1>2, <2>0, <2>3
    <3> QED BY <2>0, <3>1, <3>2, <3>3
  <2> QED BY <2>0, <2>1, <2>2, <2>3
<1> HIDE DEF a, c
<1>5. a = c
  BY <1>3, <1>4, SeqEqual
<1> QED BY <1>5 DEF a, c

\* A message that is sent comes after all others.
LEMMA SendAppends ==
  ASSUME NEW S, NEW g \in Seq(S), NEW q \in Seq(S), NEW e \in S
  PROVE  /\ Len(g \o Append(q, e)) = Len(g \o q) + 1
         /\ \A k \in 1..Len(g \o q) : (g \o Append(q, e))[k] = (g \o q)[k]
         /\ (g \o Append(q, e))[Len(g \o q) + 1] = e
<1>1. Append(q, e) \in Seq(S) /\ Len(Append(q, e)) = Len(q) + 1
  OBVIOUS
<1>2. Len(g \o q) = Len(g) + Len(q) /\ Len(g) \in Nat /\ Len(q) \in Nat
  OBVIOUS
<1>3. Len(g \o Append(q, e)) = Len(g) + Len(q) + 1
  BY <1>1, <1>2
<1>4. ASSUME NEW k \in 1..(Len(g) + Len(q))
      PROVE  (g \o Append(q, e))[k] = (g \o q)[k]
  BY <1>1, <1>2, <1>4
<1>5. (g \o Append(q, e))[Len(g) + Len(q) + 1] = e
  BY <1>1, <1>2
<1> QED BY <1>2, <1>3, <1>4, <1>5

\* Each subnet is sent the inputs the loop holds once in a step, and the loop
\* reads no others before it has sent them to all.
LEMMA SentKept ==
  ASSUME TypeOK, IndexInv, SentInv, Next PROVE SentInv'
<1> USE DEF SentInv
<1>0. /\ pid \in Locals /\ pid.NT \in Nat /\ snap \in Inputs
      /\ got \in [Subnets -> Seq(Inputs)] /\ toSubnet \in [Subnets -> Seq(Inputs)]
  BY DEF TypeOK, SimTypeOK, StageTypeOK, HistoryTypeOK, Locals
<1>l. \A s \in Subnets : Sent(s) \in Seq(Inputs) /\ Len(Sent(s)) \in Nat
  BY <1>0 DEF Sent
<1>n. Subnets = 1..NumSubnet /\ NumSubnet \in Nat \ {0}
  BY Numbers
\* Where nothing is sent.
<1>k. ASSUME \A s \in Subnets : Sent(s)' = Sent(s),
             pid'.pc \in Busy =>
               /\ pid.pc \in Busy
               /\ \A s \in Subnets :
                    (IF pid'.pc \in {"out", "wait"} \/ (pid'.pc = "send" /\ s < pid'.i)
                     THEN pid'.NT + 1 ELSE pid'.NT)
                    = (IF pid.pc \in {"out", "wait"} \/ (pid.pc = "send" /\ s < pid.i)
                       THEN pid.NT + 1 ELSE pid.NT),
             pid'.pc = "send" => \/ pid'.i = 1
                                 \/ pid' = pid /\ snap' = snap
      PROVE  SentInv'
  <2>1. \A s \in Subnets : ~(s < 1)
    BY <1>n
  <2>2. pid'.pc = "send" => \A s \in Subnets : s < pid'.i => Sent(s)'[pid'.NT + 1] = snap'
    BY <1>k, <2>1
  <2> QED BY <1>k, <2>2
<1>1. CASE SendSubnet
  <2>0. PICK j \in Subnets : j = pid.i
    BY <1>1 DEF SendSubnet, IndexInv, CountsSubnets
  <2>1. /\ toSubnet'[j] = Append(toSubnet[j], snap) /\ got' = got /\ snap' = snap
        /\ \A t \in Subnets : t # j => toSubnet'[t] = toSubnet[t]
    BY <1>0, <1>1, <2>0 DEF SendSubnet, stageVars
  <2>2. /\ pid.pc = "send" /\ pid'.NT = pid.NT
        /\ j # NumSubnet => pid'.pc = "send" /\ pid'.i = j + 1
        /\ j = NumSubnet => pid'.pc = "out"
    BY <1>0, <1>1, <2>0 DEF SendSubnet, Advance, Locals
  <2>3. \A t \in Subnets : t # j => Sent(t)' = Sent(t)
    BY <2>1 DEF Sent
  <2>4. Len(Sent(j)) = pid.NT
    <3>1. pid.pc \in Busy /\ pid.pc \notin {"out", "wait"}
      BY <2>2 DEF Busy, InLoop
    <3>2. ~(j < pid.i)
      BY <1>n, <2>0
    <3> QED BY <3>1, <3>2
  <2>5. /\ Len(Sent(j)') = pid.NT + 1
        /\ \A k \in 1..pid.NT : Sent(j)'[k] = Sent(j)[k]
        /\ Sent(j)'[pid.NT + 1] = snap
    <3>1. /\ Len(got[j] \o Append(toSubnet[j], snap)) = Len(Sent(j)) + 1
          /\ \A k \in 1..Len(Sent(j)) :
               (got[j] \o Append(toSubnet[j], snap))[k] = Sent(j)[k]
          /\ (got[j] \o Append(toSubnet[j], snap))[Len(Sent(j)) + 1] = snap
      <4> DEFINE g == got[j]
                 q == toSubnet[j]
      <4>1. g \in Seq(Inputs) /\ q \in Seq(Inputs) /\ snap \in Inputs
        BY <1>0
      <4>2. Sent(j) = g \o q
        BY DEF Sent
      <4> HIDE DEF g, q
      <4>3. /\ Len(g \o Append(q, snap)) = Len(g \o q) + 1
            /\ \A k \in 1..Len(g \o q) : (g \o Append(q, snap))[k] = (g \o q)[k]
            /\ (g \o Append(q, snap))[Len(g \o q) + 1] = snap
        BY <4>1, SendAppends
      <4> QED BY <4>2, <4>3 DEF g, q
    <3>2. Sent(j)' = got[j] \o Append(toSubnet[j], snap)
      BY <2>1 DEF Sent
    <3> QED BY <2>4, <3>1, <3>2
  <2>6. \A t \in Subnets : /\ t < j => /\ Len(Sent(t)) = pid.NT + 1
                                       /\ Sent(t)[pid.NT + 1] = snap
                           /\ ~(t < j) => Len(Sent(t)) = pid.NT
    BY <2>0, <2>2 DEF Busy, InLoop
  <2>7. \A t \in Subnets : (j = NumSubnet \/ t < j + 1) <=> (t < j \/ t = j)
    BY <1>n
  <2>8. pid'.pc \in Busy => \A t \in Subnets :
          Len(Sent(t)') = IF pid'.pc \in {"out", "wait"} \/ (pid'.pc = "send" /\ t < pid'.i)
                          THEN pid'.NT + 1 ELSE pid'.NT
    <3> SUFFICES ASSUME NEW t \in Subnets
                 PROVE  Len(Sent(t)') = IF j = NumSubnet \/ t < j + 1
                                        THEN pid.NT + 1 ELSE pid.NT
      BY <2>2
    <3> QED BY <2>3, <2>5, <2>6, <2>7
  <2>9. pid'.pc = "send" => \A t \in Subnets : t < pid'.i => Sent(t)'[pid'.NT + 1] = snap'
    BY <2>1, <2>2, <2>3, <2>5, <2>6, <2>7
  <2>10. \A t \in Subnets : \A k \in 1..Len(Sent(t)') :
           /\ k \in Nat
           /\ k <= pid.NT => k \in 1..Len(Sent(t)) /\ Sent(t)'[k] = Sent(t)[k]
           /\ k > pid.NT => k = pid.NT + 1 /\ Sent(t)'[k] = snap
    <3> SUFFICES ASSUME NEW t \in Subnets, NEW k \in 1..Len(Sent(t)')
                 PROVE  /\ k \in Nat
                        /\ k <= pid.NT => k \in 1..Len(Sent(t)) /\ Sent(t)'[k] = Sent(t)[k]
                        /\ k > pid.NT => k = pid.NT + 1 /\ Sent(t)'[k] = snap
      OBVIOUS
    <3>0. pid.NT \in Nat
      BY <1>0
    <3>1. CASE t = j
      BY <3>0, <2>4, <2>5, <3>1
    <3>2. CASE t # j
      <4>1. Sent(t)' = Sent(t) /\ Len(Sent(t)) \in {pid.NT, pid.NT + 1}
        BY <2>3, <2>6, <3>2
      <4>2. Len(Sent(t)) = pid.NT + 1 => Sent(t)[pid.NT + 1] = snap
        BY <2>6, <3>0
      <4> QED BY <3>0, <4>1, <4>2
    <3> QED BY <3>1, <3>2
  <2>11. \A s, t \in Subnets : \A k \in 1..Len(Sent(s)') :
           k <= Len(Sent(t)') => Sent(s)'[k] = Sent(t)'[k]
    <3> SUFFICES ASSUME NEW s \in Subnets, NEW t \in Subnets, NEW k \in 1..Len(Sent(s)'),
                        k <= Len(Sent(t)')
                 PROVE  Sent(s)'[k] = Sent(t)'[k]
      OBVIOUS
    <3>1. Len(Sent(s)') \in Nat /\ Len(Sent(t)') \in Nat
      BY SMTT(30), <1>0, <1>l, <2>3, <2>5
    <3>2. k \in 1..Len(Sent(t)') /\ k \in Nat
      BY <3>1
    <3>3. CASE k <= pid.NT
      <4>1. /\ k \in 1..Len(Sent(s)) /\ Sent(s)'[k] = Sent(s)[k]
            /\ k \in 1..Len(Sent(t)) /\ Sent(t)'[k] = Sent(t)[k]
        BY <2>10, <3>2, <3>3
      <4>2. k <= Len(Sent(t))
        BY <1>l, <3>2, <4>1
      <4> QED BY <4>1, <4>2
    <3>4. CASE k > pid.NT
      <4>1. Sent(s)'[k] = snap /\ Sent(t)'[k] = snap
        BY <2>10, <3>2, <3>4
      <4> QED BY <4>1
    <3>5. k <= pid.NT \/ k > pid.NT
      BY <1>0, <3>2
    <3> QED BY <3>3, <3>4, <3>5
  <2> QED BY <2>8, <2>9, <2>11
<1>2. ASSUME NEW s \in Subnets, SubnetReceives(s) PROVE SentInv'
  <2>1. /\ toSubnet[s] # <<>> /\ pid' = pid /\ snap' = snap
        /\ got'[s] = Append(got[s], Head(toSubnet[s])) /\ toSubnet'[s] = Tail(toSubnet[s])
        /\ \A t \in Subnets : t # s => got'[t] = got[t] /\ toSubnet'[t] = toSubnet[t]
    BY <1>0, <1>2 DEF SubnetReceives, stageVars
  <2>2. Sent(s)' = Sent(s)
    BY <1>0, <2>1, ReceiveKeeps DEF Sent
  <2>3. \A t \in Subnets : Sent(t)' = Sent(t)
    BY <2>1, <2>2 DEF Sent
  <2> QED BY <1>k, <2>1, <2>3
<1>s. ASSUME got' = got, toSubnet' = toSubnet PROVE \A s \in Subnets : Sent(s)' = Sent(s)
  BY <1>s DEF Sent
<1>3. CASE StartUp \/ RecvStart
  <2>1. got' = got /\ toSubnet' = toSubnet
    BY <1>3 DEF StartUp, InitLink, pid_thread_create, PID_Register, Deal, DealAgain, Decide,
                RecvStart, simVars
  <2>2. /\ pid.pc \in Early /\ pid'.NT = pid.NT
        /\ pid'.pc \in Early \cup {"end", "recv"}
    <3>1. CASE InitLink \/ pid_thread_create \/ Deal
      BY <1>0, <3>1 DEF InitLink, pid_thread_create, Deal, Locals, Early
    <3>2. CASE PID_Register \/ RecvStart
      BY <1>0, <3>2 DEF PID_Register, RecvStart, Advance, Locals, Early
    <3>3. CASE DealAgain \/ Decide
      BY <1>0, <3>3 DEF DealAgain, Decide, Locals, Early
    <3> QED BY <1>3, <3>1, <3>2, <3>3 DEF StartUp
  <2> QED BY <1>k, <1>s, <2>1, <2>2 DEF Early, Busy
<1>4. CASE RecvStep \/ ReadAI
  <2>1. got' = got /\ toSubnet' = toSubnet
    BY <1>4 DEF RecvStep, ReadAI, ReadWord, simVars
  <2>2. /\ pid.pc \in {"recv", "readAI"} /\ pid'.NT = pid.NT
        /\ pid'.pc \in {"over", "recv", "readAI", "readDI"}
    BY <1>0, <1>4 DEF RecvStep, ReadAI, ReadWord, Advance, Locals
  <2> QED BY <1>k, <1>s, <2>1, <2>2 DEF Busy, InLoop
<1>5. CASE ReadDI
  <2>1. got' = got /\ toSubnet' = toSubnet
    BY <1>5 DEF ReadDI, ReadWord, simVars
  <2>2. /\ pid.pc = "readDI" /\ pid'.NT = pid.NT
        /\ pid'.pc \in {"readAI", "readDI", "send"} /\ (pid'.pc = "send" => pid'.i = 1)
    <3>1. CASE pid.word < NumAI + NumDI
      BY <1>0, <1>5, <3>1 DEF ReadDI, Locals
    <3>2. CASE ~(pid.word < NumAI + NumDI)
      BY <1>0, <1>5, <3>2 DEF ReadDI, Advance, Locals
    <3> QED BY <3>1, <3>2
  <2>3. \A s \in Subnets : ~(s < 1)
    BY <1>n
  <2> QED BY <1>k, <1>s, <2>1, <2>2, <2>3 DEF Busy, InLoop
<1>6. CASE SenddataToPID \/ MarkInput_Wait
  <2>1. got' = got /\ toSubnet' = toSubnet
    BY <1>6 DEF SenddataToPID, MarkInput_Wait, simVars
  <2>2. /\ pid.pc \in {"out", "wait"}
        /\ \/ pid'.pc \in {"out", "wait"} /\ pid'.NT = pid.NT
           \/ pid'.pc = "recv" /\ pid'.NT = pid.NT + 1
    <3>1. CASE SenddataToPID
      BY <1>0, <3>1 DEF SenddataToPID, Advance, Locals
    <3>2. CASE MarkInput_Wait
      BY <1>0, <3>2 DEF MarkInput_Wait, NextSmallStep, Locals
    <3> QED BY <1>6, <3>1, <3>2
  <2> QED BY <1>k, <1>s, <2>1, <2>2 DEF Busy, InLoop
<1>7. CASE ClearOutput \/ Ending \/ PollReleased \/ SpinsForEver
  <2>1. got' = got /\ toSubnet' = toSubnet
    BY <1>7 DEF ClearOutput, Ending, EnterWorld, dpdk_release, finalize, PollReleased,
                SpinsForEver, simVars
  <2>2. pid'.pc \notin Busy
    BY <1>0, <1>7 DEF ClearOutput, Ending, EnterWorld, dpdk_release, finalize, PollReleased,
                      SpinsForEver,
                      Locals, Busy, Early, InLoop
  <2> QED BY <1>k, <1>s, <2>1, <2>2 DEF Busy, InLoop
<1>8. ASSUME pid' = pid, snap' = snap, got' = got, toSubnet' = toSubnet PROVE SentInv'
  BY <1>k, <1>s, <1>8
<1>9. CASE \E s \in Subnets : \/ SubnetTells(s) \/ SubnetTellsAgain(s)
                              \/ SubnetStarts(s) \/ SubnetSends(s) \/ SubnetLeaves(s)
  BY <1>8, <1>9 DEF SubnetTells, SubnetTellsAgain, SubnetStarts, SubnetSends,
                    SubnetLeaves, stageVars
<1>10. CASE RxNext \/ \E b \in Boxes : BoxSends(b)
  BY <1>8, <1>10 DEF RxNext, TakeMessage, CopyAI, CopyDI, Copy, BoxSends, stageVars,
                     simVars
<1> QED
  BY <1>1, <1>2, <1>3, <1>4, <1>5, <1>6, <1>7, <1>9, <1>10
  DEF Next, Main, Simulating, SpinsForEver, SubnetNext

\* The loop is not entered again once it was left.
LEMMA BusyBefore ==
  ASSUME TypeOK, Next, pid'.pc \in Busy PROVE pid.pc \in Busy
<1>0. pid \in Locals
  BY DEF TypeOK
<1> USE DEF Busy, Early, InLoop
<1>1. CASE StartUp
  BY <1>1 DEF StartUp, InitLink, pid_thread_create, PID_Register, Deal, DealAgain, Decide
<1>2. CASE Simulating
  <2>1. CASE ClearOutput
    BY <1>0, <2>1 DEF ClearOutput, Locals
  <2>2. CASE ~ClearOutput
    BY <1>2, <2>2 DEF Simulating, RecvStart, RecvStep, ReadAI, ReadDI, ReadWord,
                      SendSubnet, SenddataToPID, MarkInput_Wait, SpinsForEver
  <2> QED BY <2>1, <2>2
<1>3. CASE Ending \/ PollReleased
  BY <1>0, <1>3 DEF Ending, EnterWorld, dpdk_release, finalize, PollReleased, Locals
<1>4. CASE pid' = pid
  BY <1>4
<1> QED
  BY <1>1, <1>2, <1>3, <1>4
  DEF Next, Main, SubnetNext, RxNext, TakeMessage, SubnetTells, SubnetTellsAgain,
      SubnetStarts, SubnetSends, SubnetReceives, SubnetLeaves, CopyAI, CopyDI, Copy,
      BoxSends

\* Only the loop sends inputs to a subnet; to receive them changes nothing in
\* the order of what was sent.
LEMMA SentSame ==
  ASSUME TypeOK, Next, ~SendSubnet PROVE \A s \in Subnets : Sent(s)' = Sent(s)
<1>1. ASSUME NEW s \in Subnets, SubnetReceives(s)
      PROVE  \A t \in Subnets : Sent(t)' = Sent(t)
  <2>0. got \in [Subnets -> Seq(Inputs)] /\ toSubnet \in [Subnets -> Seq(Inputs)]
    BY DEF TypeOK, SimTypeOK, HistoryTypeOK
  <2>1. /\ toSubnet[s] # <<>>
        /\ got'[s] = Append(got[s], Head(toSubnet[s])) /\ toSubnet'[s] = Tail(toSubnet[s])
        /\ \A t \in Subnets : t # s => got'[t] = got[t] /\ toSubnet'[t] = toSubnet[t]
    BY <1>1, <2>0 DEF SubnetReceives
  <2>2. Sent(s)' = Sent(s)
    BY <2>0, <2>1, ReceiveKeeps DEF Sent
  <2> QED BY <2>1, <2>2 DEF Sent
<1>2. CASE got' = got /\ toSubnet' = toSubnet
  BY <1>2 DEF Sent
<1> QED
  BY <1>1, <1>2
  DEF Next, Main, StartUp, Simulating, Ending, SubnetNext, RxNext, TakeMessage, simVars,
      InitLink, pid_thread_create, PID_Register, Deal, DealAgain, Decide, RecvStart,
      RecvStep, ReadAI, ReadDI, ReadWord, SenddataToPID, MarkInput_Wait, SpinsForEver,
      ClearOutput, EnterWorld, dpdk_release, finalize, PollReleased, SubnetTells,
      SubnetTellsAgain, SubnetStarts, SubnetSends, SubnetLeaves, CopyAI, CopyDI, Copy,
      BoxSends

\* What is not newer is not newer than what follows either, nor than itself.
LEMMA NotNewerThan ==
  ASSUME NEW u \in Inputs, NEW v \in Inputs, NEW w \in Inputs
  PROVE  /\ NotNewer(u, u)
         /\ NotNewer(u, v) /\ NotNewer(v, w) => NotNewer(u, w)
<1>1. \A x \in Inputs : \A b \in Boxes : \A k \in Words : x[b][k] \in Int
  <2> SUFFICES ASSUME NEW x \in Inputs, NEW b \in Boxes, NEW k \in Words
               PROVE  x[b][k] \in Int
    OBVIOUS
  <2>1. x[b] \in [Words -> 0..MaxInput]
    BY DEF Inputs
  <2> QED BY <2>1
<1>2. NotNewer(u, u)
  BY <1>1 DEF NotNewer
<1>3. ASSUME NotNewer(u, v), NotNewer(v, w), NEW b \in Boxes, NEW k \in Words
      PROVE  u[b][k] <= w[b][k]
  <2>1. u[b][k] <= v[b][k] /\ v[b][k] <= w[b][k]
    BY <1>3 DEF NotNewer
  <2> QED BY <1>1, <2>1
<1> QED BY <1>2, <1>3 DEF NotNewer

\* No step takes back an input the loop holds.
LEMMA SnapGrows ==
  ASSUME TypeOK, IndexInv, SnapInv, Next, pid.pc \in Busy
  PROVE  NotNewer(snap, snap')
<1>1. CASE ReadAI \/ ReadDI
  <2>1. ASSUME NEW b \in Boxes, NEW k \in Words PROVE snap[b][k] <= snap'[b][k]
    <3>1. snap[b][k] <= dev[b].inputs[k] /\ snap[b][k] \in Nat
      BY InputsType DEF SnapInv
    <3>2. snap'[b][k] = snap[b][k] \/ snap'[b][k] = dev[b].inputs[k]
      BY <1>1, Reading
    <3> QED BY <3>1, <3>2
  <2> QED BY <2>1 DEF NotNewer
<1>2. CASE snap' = snap
  <2>1. snap \in Inputs
    BY DEF TypeOK, StageTypeOK
  <2> QED BY <1>2, <2>1, NotNewerThan
<1> QED
  BY <1>1, <1>2
  DEF Next, Main, StartUp, Simulating, Ending, SubnetNext, RxNext, TakeMessage,
      stageVars, InitLink, pid_thread_create, PID_Register, Deal, DealAgain, Decide,
      RecvStart, RecvStep, SendSubnet, SenddataToPID, MarkInput_Wait, SpinsForEver,
      ClearOutput, EnterWorld, dpdk_release, finalize, PollReleased, SubnetTells,
      SubnetTellsAgain, SubnetStarts, SubnetSends, SubnetReceives, SubnetLeaves, CopyAI,
      CopyDI, Copy, BoxSends

\* What is sent is what the loop holds, which only gets newer.
LEMMA OrderKept ==
  ASSUME TypeOK, IndexInv, SnapInv, SentInv, OrderInv, Next PROVE OrderInv'
<1>0. /\ pid \in Locals /\ pid.NT \in Nat
      /\ snap \in Inputs /\ snap' \in Inputs
      /\ \A s \in Subnets : Sent(s) \in Seq(Inputs) /\ Sent(s)' \in Seq(Inputs)
      /\ \A s \in Subnets : Len(Sent(s)) \in Nat /\ Len(Sent(s)') \in Nat
  <2>1. TypeOK'
    BY StepType
  <2>2. /\ got \in [Subnets -> Seq(Inputs)] /\ toSubnet \in [Subnets -> Seq(Inputs)]
        /\ got' \in [Subnets -> Seq(Inputs)] /\ toSubnet' \in [Subnets -> Seq(Inputs)]
    BY <2>1 DEF TypeOK, SimTypeOK, HistoryTypeOK
  <2>3. ASSUME NEW s \in Subnets
        PROVE  Sent(s) \in Seq(Inputs) /\ Sent(s)' \in Seq(Inputs)
    BY <2>2 DEF Sent
  <2>4. /\ pid \in Locals /\ pid.NT \in Nat /\ snap \in Inputs /\ snap' \in Inputs
    BY <2>1 DEF TypeOK, StageTypeOK, Locals
  <2> QED BY <2>3, <2>4
<1>e. \A s \in Subnets : \A k \in 1..Len(Sent(s)) : Sent(s)[k] \in Inputs
  BY <1>0
<1>1. CASE SendSubnet
  <2>0. PICK j \in Subnets : j = pid.i
    BY <1>1 DEF SendSubnet, IndexInv, CountsSubnets
  <2>1. /\ toSubnet'[j] = Append(toSubnet[j], snap) /\ got' = got /\ snap' = snap
        /\ \A t \in Subnets : t # j => toSubnet'[t] = toSubnet[t]
        /\ pid.pc = "send"
    <3>1. toSubnet \in [Subnets -> Seq(Inputs)]
      BY DEF TypeOK, SimTypeOK
    <3> QED BY <1>1, <2>0, <3>1 DEF SendSubnet, stageVars
  <2>2. \A t \in Subnets : t # j => Sent(t)' = Sent(t)
    BY <2>1 DEF Sent
  <2> DEFINE n == Len(Sent(j))
  <2>3. /\ Len(Sent(j)') = n + 1
        /\ \A k \in 1..n : Sent(j)'[k] = Sent(j)[k]
        /\ Sent(j)'[n + 1] = snap
    <3> DEFINE g == got[j]
               q == toSubnet[j]
    <3>1. g \in Seq(Inputs) /\ q \in Seq(Inputs) /\ snap \in Inputs
      BY <1>0 DEF TypeOK, SimTypeOK, HistoryTypeOK
    <3>2. Sent(j) = g \o q /\ Sent(j)' = g \o Append(q, snap)
      BY <2>1 DEF Sent
    <3> HIDE DEF g, q
    <3>3. /\ Len(g \o Append(q, snap)) = Len(g \o q) + 1
          /\ \A k \in 1..Len(g \o q) : (g \o Append(q, snap))[k] = (g \o q)[k]
          /\ (g \o Append(q, snap))[Len(g \o q) + 1] = snap
      BY <3>1, SendAppends
    <3> QED BY <3>2, <3>3
  <2>4. pid.pc \in Busy
    BY <2>1 DEF Busy, InLoop
  <2>5. LagsByOne(snap) /\ NotNewer(snap, snap)
    <3>1. LagsByOne(snap)
      BY <2>1, <2>4 DEF SnapInv, ReadBetween, LagsByOne
    <3> QED BY <1>0, <3>1, NotNewerThan
  <2>6. n \in Nat
    BY <1>0
  <2> HIDE DEF n
  <2>7. ASSUME NEW s \in Subnets, NEW k \in 1..Len(Sent(s)')
        PROVE  /\ LagsByOne(Sent(s)'[k])
               /\ NotNewer(Sent(s)'[k], snap)
               /\ k < Len(Sent(s)') => NotNewer(Sent(s)'[k], Sent(s)'[k + 1])
    <3>1. CASE s # j
      <4>1. Sent(s)' = Sent(s)
        BY <2>2, <3>1
      <4> QED BY <2>4, <4>1 DEF OrderInv
    <3>2. CASE s = j /\ k = n + 1
      <4>1. Sent(s)'[k] = snap /\ ~(k < Len(Sent(s)'))
        BY <2>3, <2>6, <3>2
      <4> QED BY <2>5, <4>1
    <3>3. CASE s = j /\ k # n + 1
      <4>1. k \in 1..n /\ (k # n => k + 1 \in 1..n)
        BY <2>3, <2>6, <3>3
      <4>2. Sent(s)'[k] = Sent(j)[k]
        BY <2>3, <3>3, <4>1
      <4>3. LagsByOne(Sent(j)[k]) /\ NotNewer(Sent(j)[k], snap)
        BY <2>4, <4>1 DEF OrderInv, n
      <4>4. CASE k = n
        <5>1. Sent(s)'[k + 1] = snap
          BY <2>3, <3>3, <4>4
        <5> QED BY <4>2, <4>3, <5>1
      <4>5. CASE k # n
        <5>1. Sent(s)'[k + 1] = Sent(j)[k + 1]
          BY <2>3, <3>3, <4>1, <4>5
        <5>2. k < n
          BY <2>6, <4>1, <4>5
        <5>3. NotNewer(Sent(j)[k], Sent(j)[k + 1])
          BY <4>1, <5>2 DEF OrderInv, n
        <5> QED BY <4>2, <4>3, <5>1, <5>3
      <4> QED BY <4>4, <4>5
    <3> QED BY <3>1, <3>2, <3>3
  <2>8. OrderInv' = \A s \in Subnets : \A k \in 1..Len(Sent(s)') :
          /\ LagsByOne(Sent(s)'[k])
          /\ pid'.pc \in Busy => NotNewer(Sent(s)'[k], snap')
          /\ k < Len(Sent(s)') => NotNewer(Sent(s)'[k], Sent(s)'[k + 1])
    BY DEF OrderInv, LagsByOne, NotNewer
  <2> QED BY <2>1, <2>7, <2>8
<1>2. CASE ~SendSubnet
  <2>1. \A s \in Subnets : Sent(s)' = Sent(s)
    BY <1>2, SentSame
  <2>2. ASSUME NEW s \in Subnets, NEW k \in 1..Len(Sent(s)), pid'.pc \in Busy
        PROVE  NotNewer(Sent(s)[k], snap')
    <3>1. pid.pc \in Busy
      BY <2>2, BusyBefore
    <3>2. NotNewer(Sent(s)[k], snap) /\ NotNewer(snap, snap')
      BY <3>1, SnapGrows DEF OrderInv
    <3>3. Sent(s)[k] \in Inputs
      BY <1>e
    <3> QED BY <1>0, <3>2, <3>3, NotNewerThan
  <2>3. OrderInv' = \A s \in Subnets : \A k \in 1..Len(Sent(s)') :
          /\ LagsByOne(Sent(s)'[k])
          /\ pid'.pc \in Busy => NotNewer(Sent(s)'[k], snap')
          /\ k < Len(Sent(s)') => NotNewer(Sent(s)'[k], Sent(s)'[k + 1])
    BY DEF OrderInv, LagsByOne, NotNewer
  <2>4. ASSUME NEW s \in Subnets, NEW k \in 1..Len(Sent(s))
        PROVE  LagsByOne(Sent(s)[k])
               /\ (k < Len(Sent(s)) => NotNewer(Sent(s)[k], Sent(s)[k + 1]))
    BY DEF OrderInv
  <2> QED BY <2>1, <2>2, <2>3, <2>4
<1> QED BY <1>1, <1>2

-----------------------------------------------------------------------------
(* The frames *)


\* Only the loop sends frames.
LEMMA FramesSame ==
  ASSUME Next, ~SenddataToPID PROVE frames' = frames
BY DEF Next, Main, StartUp, Simulating, Ending, SubnetNext, RxNext, TakeMessage,
       InitLink, pid_thread_create, PID_Register, Deal, DealAgain, Decide, RecvStart,
       RecvStep, ReadAI, ReadDI, ReadWord, SendSubnet, MarkInput_Wait, SpinsForEver,
       ClearOutput, EnterWorld, dpdk_release, finalize, PollReleased, SubnetTells,
       SubnetTellsAgain, SubnetStarts, SubnetSends, SubnetReceives, SubnetLeaves,
       CopyAI, CopyDI, Copy, BoxSends

\* Only the loop and the end of the program touch the outputs of a device;
\* that a box is opened is another matter.
LEMMA OutputsKept ==
  ASSUME TypeOK, IndexInv, Next, pid'.pc \in Busy, ~SenddataToPID
  PROVE  /\ frames' = frames
         /\ \A b \in Boxes : dev'[b].ao = dev[b].ao /\ dev'[b].do = dev[b].do
         /\ ~PID_Register => \A b \in Boxes : dev'[b].opens = dev[b].opens
<1>0. /\ \A b \in Boxes : dev[b] \in Devices
      /\ dev \in [Boxes -> Devices] /\ pid \in Locals
  BY DEF TypeOK, BoxTypeOK
<1>1. CASE PID_Register
  <2>1. frames' = frames
    BY <1>1 DEF PID_Register
  <2>2. PICK j \in Boxes : j = pid.i
    BY <1>1 DEF PID_Register, IndexInv, CountsBoxes
  <2>3. PICK n \in Nat : dev' = [dev EXCEPT ![j].opens = n]
    <3>1. PICK malloc \in BOOLEAN :
            dev' = [dev EXCEPT ![j].opens = IF malloc THEN @ + 1 ELSE @]
      BY <1>1, <2>2 DEF PID_Register
    <3>2. dev[j].opens \in Nat /\ dev[j].opens + 1 \in Nat
      BY <1>0 DEF Devices
    <3>3. CASE malloc
      BY <3>1, <3>2, <3>3
    <3>4. CASE ~malloc
      BY <3>1, <3>2, <3>4
    <3> QED BY <3>3, <3>4
  <2>4. \A b \in Boxes : dev'[b].ao = dev[b].ao /\ dev'[b].do = dev[b].do
    BY <1>0, <2>3 DEF Devices
  <2> QED BY <1>1, <2>1, <2>4
<1>2. CASE MarkInput_Wait
  <2>1. /\ frames' = frames
        /\ dev' = [dev EXCEPT ![pid.i].updates = 0]
    BY <1>2 DEF MarkInput_Wait, PID_MarkInput_Wait
  <2>2. \A b \in Boxes : /\ dev'[b].ao = dev[b].ao /\ dev'[b].do = dev[b].do
                         /\ dev'[b].opens = dev[b].opens
    BY <1>0, <2>1 DEF Devices
  <2> QED BY <2>1, <2>2
<1>3. ASSUME NEW b \in Boxes, TakeMessage(b) \/ CopyAI(b) \/ CopyDI(b)
      PROVE  /\ frames' = frames
             /\ \A c \in Boxes : /\ dev'[c].ao = dev[c].ao /\ dev'[c].do = dev[c].do
                                 /\ dev'[c].opens = dev[c].opens
  <2>1. CASE TakeMessage(b)
    <3>1. frames' = frames /\ dev' = [dev EXCEPT ![b].rx_count = @ + 1]
      BY <2>1 DEF TakeMessage
    <3> QED BY <1>0, <3>1 DEF Devices
  <2>2. CASE CopyAI(b) \/ CopyDI(b)
    <3>1. PICK w \in copying[b] : Copy(b, w)
      BY <2>2 DEF CopyAI, CopyDI
    <3>2. frames' = frames /\ dev' = [dev EXCEPT ![b].inputs[w] = dev[b].rx_count]
      BY <3>1 DEF Copy
    <3> QED BY <1>0, <3>2 DEF Devices
  <2> QED BY <1>3, <2>1, <2>2
<1>4. ~(ClearOutput \/ finalize)
  <2>1. ASSUME ClearOutput \/ finalize PROVE pid'.pc \in {"end", "exit"}
    BY <1>0, <2>1 DEF ClearOutput, finalize, Locals
  <2> QED BY <2>1 DEF Busy, Early, InLoop
<1>5. CASE frames' = frames /\ dev' = dev
  BY <1>5
<1> QED
  BY <1>1, <1>2, <1>3, <1>4, <1>5
  DEF Next, Main, StartUp, Simulating, SpinsForEver, Ending, SubnetNext, RxNext,
      boxVars, InitLink, pid_thread_create, Deal, DealAgain, Decide,
      RecvStart, RecvStep, ReadAI, ReadDI, ReadWord, SendSubnet, EnterWorld,
      dpdk_release, PollReleased, SubnetTells, SubnetTellsAgain, SubnetStarts,
      SubnetSends, SubnetReceives, SubnetLeaves, BoxSends

\* The frame of a box that is sent one: the values of the step the loop is in.
FrameOf(b, NT, kNT) ==
  LET vals == [s \in Subnets |-> NT]
  IN [NT |-> NT, kNT |-> kNT,
      ao |-> IF b \in HasAO THEN vals ELSE <<>>,
      do |-> IF b \in HasDO THEN vals ELSE <<>>]
StepFrame(b) == FrameOf(b, pid.NT, pid.kNT)

\* What the loop does to a box in a small step.
LEMMA OutputSent ==
  ASSUME TypeOK, IndexInv, StageInv, FrameInv, SenddataToPID,
         NEW j \in Boxes, j = pid.i
  PROVE  /\ frames'[j] = IF Driven(j) THEN Append(frames[j], StepFrame(j)) ELSE frames[j]
         /\ j \notin HasAO => dev'[j].ao = <<>>
         /\ j \notin HasDO => dev'[j].do = <<>>
         /\ dev'[j].opens = dev[j].opens
         /\ \A b \in Boxes : b # j => frames'[b] = frames[b] /\ dev'[b] = dev[b]
<1>0. /\ dev \in [Boxes -> Devices] /\ dev[j] \in Devices
      /\ frames \in [Boxes -> Seq(Frames)]
      /\ volt[j] \in Values /\ data[j] \in Values
      /\ pid.pc = "out"
  BY DEF TypeOK, BoxTypeOK, HistoryTypeOK, StageTypeOK, SenddataToPID
<1> DEFINE d == PID_DO_GrpWrite(j, PID_AO_GrpWrite(j, dev[j]))
           vals == [s \in Subnets |-> pid.NT]
<1>1. /\ j \notin HasAO => dev[j].ao = <<>>
      /\ j \notin HasDO => dev[j].do = <<>>
  BY <1>0 DEF FrameInv, Busy, InLoop
<1>2. /\ j \in HasAO => volt[j] = vals
      /\ j \in HasDO => data[j] = vals
  <2>1. \A s \in Subnets : /\ j \in HasAO => volt[j][s] = pid.NT
                           /\ j \in HasDO => data[j][s] = pid.NT
    BY <1>0 DEF StageInv, InLoop
  <2> QED BY <1>0, <2>1 DEF Values
<1>3. /\ d.ao = IF j \in HasAO THEN vals ELSE <<>>
      /\ d.do = IF j \in HasDO THEN vals ELSE <<>>
      /\ d.opens = dev[j].opens
      /\ d \in Devices
  BY <1>0, <1>1, <1>2 DEF PID_AO_GrpWrite, PID_DO_GrpWrite, Devices
<1>4. vals # <<>>
  <2>1. pid.NT \in Nat
    BY DEF TypeOK, Locals
  <2>2. vals \in Values
    BY <2>1 DEF Values
  <2> QED BY <2>2, ValuesNotEmpty
<1>5. Sends(d) <=> Driven(j)
  BY <1>3, <1>4 DEF Sends, Driven
<1>6. /\ dev' = [dev EXCEPT ![j] = PID_Update_NewData(d)]
      /\ frames' = IF Sends(d) THEN [frames EXCEPT ![j] = Append(@, Frame(d))] ELSE frames
  BY DEF SenddataToPID
<1>7. Frame(d) = StepFrame(j)
  BY <1>3 DEF Frame, StepFrame, FrameOf
<1> HIDE DEF d, vals
<1>8. /\ PID_Update_NewData(d).opens = d.opens
      /\ PID_Update_NewData(d).ao \in {d.ao, <<>>}
      /\ PID_Update_NewData(d).do \in {d.do, <<>>}
  BY <1>3 DEF PID_Update_NewData, Devices
<1>9. dev'[j] = PID_Update_NewData(d)
  BY <1>0, <1>6
<1>10. frames'[j] = IF Driven(j) THEN Append(frames[j], StepFrame(j)) ELSE frames[j]
  BY <1>0, <1>5, <1>6, <1>7
<1>11. \A b \in Boxes : b # j => frames'[b] = frames[b] /\ dev'[b] = dev[b]
  BY <1>0, <1>6
<1> QED BY <1>3, <1>8, <1>9, <1>10, <1>11

\* The place of a frame among those of its box tells its step and small step.
LEMMA FrameNumber ==
  ASSUME NEW n \in Nat, NEW k \in 0..(Ikt - 1)
  PROVE  (n * Ikt + k) \div Ikt = n /\ (n * Ikt + k) % Ikt = k
<1>1. Ikt \in Nat /\ Ikt > 0
  BY Numbers
<1>2. n * Ikt + k \in Int /\ n * Ikt + k = Ikt * n + k
  BY <1>1
<1> QED BY <1>1, <1>2, QuotientUnique

\* Where no frame is sent, none is owed: the small steps of a step are as
\* many as Ikt says, and the loop begins with the first.
LEMMA OwedKept ==
  ASSUME TypeOK, IndexInv, Next, pid'.pc \in Busy, ~SenddataToPID, NEW b \in Boxes
  PROVE  Owed(b)' = Owed(b)
<1>0. /\ pid \in Locals /\ pid.NT \in Nat /\ pid.kNT \in 0..(Ikt - 1)
      /\ Ikt \in Nat \ {0} /\ b \in Nat
  BY Numbers DEF TypeOK, Locals
<1>1. CASE PID_Register
  <2>1. pid.pc \in Early /\ pid'.pc \in Early
    BY <1>0, <1>1 DEF PID_Register, Advance, Locals, Early
  <2> QED BY <2>1 DEF Owed, Early, InLoop
<1>2. CASE ~PID_Register
  <2>0. Driven(b)' = Driven(b)
    BY <1>2, OutputsKept DEF Driven
  <2>1. CASE StartUp \/ RecvStart
    <3>1. pid.pc \in Early /\ pid.NT = 0 /\ pid.kNT = 0
      BY <2>1 DEF StartUp, InitLink, pid_thread_create, PID_Register, Deal, DealAgain,
                  Decide, RecvStart, IndexInv, Early, Busy
    <3>2. /\ pid'.NT = pid.NT /\ pid'.kNT = pid.kNT
          /\ pid'.pc \in Early \cup {"end", "recv"}
      <4>1. CASE InitLink \/ pid_thread_create \/ Deal
        BY <1>0, <4>1 DEF InitLink, pid_thread_create, Deal, Locals, Early
      <4>2. CASE RecvStart
        BY <1>0, <4>2 DEF RecvStart, Advance, Locals, Early
      <4>3. CASE DealAgain \/ Decide
        BY <1>0, <4>3 DEF DealAgain, Decide, Locals, Early
      <4> QED BY <1>2, <2>1, <4>1, <4>2, <4>3 DEF StartUp
    <3>3. Owed(b) = 0
      BY <3>1 DEF Owed, Early, InLoop
    <3>4. 0 * Ikt = 0
      BY <1>0
    <3>5. Owed(b)' = 0
      BY <3>1, <3>2, <3>4 DEF Owed, Early, InLoop
    <3> QED BY <3>3, <3>5
  <2>2. CASE RecvStep \/ ReadAI \/ ReadDI \/ SendSubnet
    <3>1. /\ pid.pc \in {"recv", "readAI", "readDI", "send"}
          /\ pid'.NT = pid.NT /\ pid'.kNT = pid.kNT
          /\ \/ pid'.pc \in {"recv", "readAI", "readDI", "send"}
             \/ pid'.pc = "over"
             \/ pid'.pc = "out" /\ pid'.i = 0
      <4>1. CASE RecvStep \/ ReadAI
        BY <1>0, <4>1 DEF RecvStep, ReadAI, ReadWord, Advance, Locals
      <4>2. CASE ReadDI \/ SendSubnet
        BY <1>0, <4>2 DEF ReadDI, ReadWord, SendSubnet, Advance, Locals
      <4> QED BY <2>2, <4>1, <4>2
    <3>2. pid'.pc # "over"
      BY DEF Busy, Early, InLoop
    <3>3. ~(b < 0)
      BY <1>0
    <3> QED BY <2>0, <3>1, <3>2, <3>3 DEF Owed, InLoop
  <2>3. CASE MarkInput_Wait
    <3>1. /\ pid.pc = "wait"
          /\ \/ pid'.pc = "wait" /\ pid'.NT = pid.NT /\ pid'.kNT = pid.kNT
             \/ pid'.pc = "out" /\ pid'.i = 0 /\ pid'.NT = pid.NT /\ pid'.kNT = pid.kNT + 1
             \/ /\ pid'.pc = "recv" /\ pid'.NT = pid.NT + 1 /\ pid'.kNT = 0
                /\ pid.kNT + 1 = Ikt
      <4>1. ~(pid.kNT + 1 < Ikt) => pid.kNT + 1 = Ikt
        BY <1>0
      <4> QED BY <1>0, <2>3, <4>1 DEF MarkInput_Wait, NextSmallStep, Locals
    <3>2. /\ (pid.NT + 1) * Ikt + 0 + 0 = pid.NT * Ikt + (Ikt - 1) + 1
          /\ pid.NT * Ikt + (pid.kNT + 1) + 0 = pid.NT * Ikt + pid.kNT + 1
      BY <1>0
    <3>3. ~(b < 0) /\ (pid.kNT + 1 = Ikt => pid.kNT = Ikt - 1)
      BY <1>0
    <3> DEFINE owed == pid.NT * Ikt + pid.kNT + 1
    <3>4. Owed(b) = IF Driven(b) THEN owed ELSE 0
      BY <3>1 DEF Owed, InLoop
    <3>5. CASE pid'.pc = "wait"
      BY <2>0, <3>1, <3>5 DEF Owed, InLoop
    <3>6. CASE pid'.pc = "out"
      <4>1. Owed(b)' = IF Driven(b) THEN pid.NT * Ikt + (pid.kNT + 1) + 0 ELSE 0
        BY <2>0, <3>1, <3>3, <3>6 DEF Owed, InLoop
      <4> QED BY <3>2, <3>4, <4>1
    <3>7. CASE pid'.pc = "recv"
      <4>1. Owed(b)' = IF Driven(b) THEN (pid.NT + 1) * Ikt + 0 + 0 ELSE 0
        BY <2>0, <3>1, <3>7 DEF Owed, InLoop
      <4>2. owed = pid.NT * Ikt + (Ikt - 1) + 1
        BY <3>1, <3>3, <3>7
      <4> HIDE DEF owed
      <4> QED BY <3>2, <3>4, <4>1, <4>2
    <3> QED BY <3>1, <3>5, <3>6, <3>7
  <2>4. ~(ClearOutput \/ Ending \/ PollReleased \/ SpinsForEver)
    <3>1. ASSUME ClearOutput \/ Ending \/ PollReleased \/ SpinsForEver
          PROVE  pid'.pc \notin Busy
      BY <1>0, <3>1 DEF ClearOutput, Ending, EnterWorld, dpdk_release, finalize,
                        PollReleased, SpinsForEver, Locals, Busy, Early, InLoop
    <3> QED BY <3>1
  <2>5. CASE pid' = pid
    BY <2>0, <2>5 DEF Owed
  <2> QED
    BY <2>1, <2>2, <2>3, <2>4, <2>5
    DEF Next, Main, Simulating, SubnetNext, RxNext, TakeMessage,
        SubnetTells, SubnetTellsAgain, SubnetStarts, SubnetSends, SubnetReceives,
        SubnetLeaves, CopyAI, CopyDI, Copy, BoxSends
<1> QED BY <1>1, <1>2

\* A box is sent the frame it is owed, of the values that were staged.
LEMMA FrameKept ==
  ASSUME TypeOK, IndexInv, StageInv, FrameInv, Next PROVE FrameInv'
<1>0. /\ pid \in Locals /\ pid.NT \in Nat /\ pid.kNT \in 0..(Ikt - 1)
      /\ frames \in [Boxes -> Seq(Frames)]
      /\ \A b \in Boxes : Len(frames[b]) \in Nat
  BY DEF TypeOK, HistoryTypeOK, Locals
<1>1. CASE SenddataToPID
  <2>0. PICK j \in Boxes : j = pid.i
    BY <1>1 DEF SenddataToPID, IndexInv, CountsBoxes
  <2>1. /\ frames'[j] = IF Driven(j) THEN Append(frames[j], StepFrame(j)) ELSE frames[j]
        /\ j \notin HasAO => dev'[j].ao = <<>>
        /\ j \notin HasDO => dev'[j].do = <<>>
        /\ dev'[j].opens = dev[j].opens
        /\ \A b \in Boxes : b # j => frames'[b] = frames[b] /\ dev'[b] = dev[b]
    BY <1>1, <2>0, OutputSent
  <2>2. \A b \in Boxes : Driven(b)' = Driven(b)
    BY <2>1 DEF Driven
  <2>3. /\ pid.pc = "out" /\ pid'.NT = pid.NT /\ pid'.kNT = pid.kNT
        /\ \/ pid'.pc = "wait" /\ j = NumBox - 1
           \/ pid'.pc = "out" /\ pid'.i = j + 1
    BY <1>0, <1>1, <2>0 DEF SenddataToPID, Advance, Locals
  <2>4. pid.pc \in Busy
    BY <2>3 DEF Busy, InLoop
  <2>5. \A b \in Boxes : /\ b \in Nat /\ (b # j => (b < j + 1 <=> b < j))
                         /\ j = NumBox - 1 => b <= j
    BY Numbers
  <2> DEFINE n == pid.NT * Ikt + pid.kNT
  <2>n. n \in Nat
    <3>1. Ikt \in Nat /\ pid.kNT \in Nat
      BY <1>0, Numbers
    <3>2. pid.NT * Ikt \in Nat
      BY <1>0, <3>1
    <3> QED BY <3>1, <3>2
  <2>6. Len(frames[j]) = IF Driven(j) THEN n ELSE 0
    <3>1. ~(j < pid.i)
      BY <2>0, <2>5
    <3>2. Owed(j) = IF Driven(j) THEN n + 0 ELSE 0
      BY <2>3, <3>1 DEF Owed, InLoop
    <3> HIDE DEF n
    <3> QED BY <2>4, <2>n, <3>2 DEF FrameInv
  <2>7. Owed(j)' = IF Driven(j) THEN n + 1 ELSE 0
    <3>1. j < j + 1
      BY <2>5
    <3> QED BY <2>2, <2>3, <3>1 DEF Owed, InLoop
  <2>8. Len(frames'[j]) = Owed(j)'
    <3> HIDE DEF n
    <3>1. CASE Driven(j)
      BY <1>0, <2>1, <2>6, <2>7, <3>1
    <3>2. CASE ~Driven(j)
      BY <2>1, <2>6, <2>7, <3>2
    <3> QED BY <3>1, <3>2
  <2>9. ASSUME NEW b \in Boxes, b # j PROVE Owed(b)' = Owed(b)
    <3>1. /\ pid'.pc = "wait" => b < j
          /\ b < j + 1 <=> b < j
      BY <2>3, <2>5, <2>9
    <3> QED BY <2>0, <2>2, <2>3, <3>1 DEF Owed, InLoop
  <2>10. \A b \in Boxes : /\ b \notin HasAO => dev'[b].ao = <<>>
                          /\ b \notin HasDO => dev'[b].do = <<>>
                          /\ Len(frames'[b]) = Owed(b)'
    BY <2>1, <2>4, <2>8, <2>9 DEF FrameInv
  <2>11. FramesOfOneStep'
    <3> DEFINE F(b, k) == FrameOf(b, (k - 1) \div Ikt, (k - 1) % Ikt)
    <3>1. \A b \in Boxes : \A k \in DOMAIN frames[b] : frames[b][k] = F(b, k)
      BY DEF FrameInv, FramesOfOneStep, FrameOf
    <3>2. ASSUME NEW k, k - 1 = n PROVE StepFrame(j) = F(j, k)
      <4>1. n \div Ikt = pid.NT /\ n % Ikt = pid.kNT
        BY <1>0, FrameNumber
      <4> HIDE DEF n
      <4>2. (k - 1) \div Ikt = pid.NT /\ (k - 1) % Ikt = pid.kNT
        BY <3>2, <4>1, Zenon
      <4> QED BY <4>2, Zenon DEF StepFrame
    <3>3. ASSUME NEW b \in Boxes, NEW k \in DOMAIN frames'[b]
          PROVE  \/ k \in DOMAIN frames[b] /\ frames'[b][k] = frames[b][k]
                 \/ b = j /\ Driven(j) /\ k = n + 1 /\ frames'[b][k] = StepFrame(j)
      <4>1. CASE b = j /\ Driven(j)
        <5>1. frames[j] \in Seq(Frames) /\ Len(frames[j]) = n
          BY <1>0, <2>6, <4>1
        <5>2. frames'[b] = Append(frames[j], StepFrame(j))
          BY <2>1, <4>1
        <5> QED BY <2>n, <4>1, <5>1, <5>2
      <4>2. CASE ~(b = j /\ Driven(j))
        BY <2>1, <4>2
      <4> QED BY <4>1, <4>2
    <3>4. (\A b \in Boxes : \A k \in DOMAIN frames'[b] : frames'[b][k] = F(b, k))
          => FramesOfOneStep'
      BY DEF FramesOfOneStep, FrameOf
    <3> HIDE DEF F
    <3>5. \A b \in Boxes : \A k \in DOMAIN frames'[b] : frames'[b][k] = F(b, k)
      <4> SUFFICES ASSUME NEW b \in Boxes, NEW k \in DOMAIN frames'[b]
                   PROVE  frames'[b][k] = F(b, k)
        OBVIOUS
      <4>1. CASE k \in DOMAIN frames[b] /\ frames'[b][k] = frames[b][k]
        BY <3>1, <4>1
      <4>2. CASE b = j /\ k = n + 1 /\ frames'[b][k] = StepFrame(j)
        <5>1. k - 1 = n
          BY <2>n, <4>2
        <5>2. StepFrame(j) = F(j, k)
          BY <3>2, <5>1
        <5> QED BY <4>2, <5>2
      <4> QED BY <3>3, <4>1, <4>2
    <3> QED BY <3>4, <3>5
  <2> QED BY <2>10, <2>11 DEF FrameInv
<1>2. CASE ~SenddataToPID
  <2>1. frames' = frames
    BY <1>2, FramesSame
  <2>2. FramesOfOneStep'
    BY <2>1 DEF FrameInv, FramesOfOneStep
  <2>3. ASSUME pid'.pc \in Busy, NEW b \in Boxes
        PROVE  /\ b \notin HasAO => dev'[b].ao = <<>>
               /\ b \notin HasDO => dev'[b].do = <<>>
               /\ Len(frames'[b]) = Owed(b)'
    <3>1. dev'[b].ao = dev[b].ao /\ dev'[b].do = dev[b].do
      BY <1>2, <2>3, OutputsKept
    <3>2. Owed(b)' = Owed(b)
      BY <1>2, <2>3, OwedKept
    <3>3. pid.pc \in Busy
      BY <2>3, BusyBefore
    <3> QED BY <2>1, <3>1, <3>2, <3>3 DEF FrameInv
  <2> QED BY <2>2, <2>3 DEF FrameInv
<1> QED BY <1>1, <1>2

-----------------------------------------------------------------------------
(* The invariant and what follows from it *)

\* Nothing was sent and nothing read at the beginning.
LEMMA InitInputs == Init => FrameInv /\ CopyInv /\ SnapInv /\ SentInv /\ OrderInv
<1> SUFFICES ASSUME Init PROVE FrameInv /\ CopyInv /\ SnapInv /\ SentInv /\ OrderInv
  OBVIOUS
<1>1. pid.pc = "init" /\ pid.NT = 0
  BY DEF Init
<1>2. FrameInv
  <2>1. \A b \in Boxes : frames[b] = <<>> /\ dev[b].ao = <<>> /\ dev[b].do = <<>>
    BY DEF Init
  <2>2. \A b \in Boxes : Owed(b) = 0
    BY <1>1 DEF Owed, InLoop
  <2> QED BY <2>1, <2>2 DEF FrameInv, FramesOfOneStep
<1>3. CopyInv /\ SnapInv
  <2>1. \A b \in Boxes : /\ dev[b].rx_count = 0 /\ copying[b] = {}
                         /\ \A w \in Words : dev[b].inputs[w] = 0 /\ snap[b][w] = 0
    BY DEF Init
  <2> QED BY <2>1 DEF CopyInv, SnapInv
<1>4. SentInv /\ OrderInv
  <2>1. \A s \in Subnets : Sent(s) = <<>>
    BY DEF Init, Sent
  <2>2. \A s \in Subnets : Len(Sent(s)) = 0 /\ 1..Len(Sent(s)) = {}
    BY <2>1
  <2>3. SentInv
    BY <1>1, <2>2 DEF SentInv
  <2>4. OrderInv
    BY <2>2 DEF OrderInv
  <2> QED BY <2>3, <2>4
<1> QED BY <1>2, <1>3, <1>4

\* A step that changes no variable changes no part of the invariant.
LEMMA StutterInv == IInv /\ UNCHANGED vars => IInv'
<1> SUFFICES ASSUME IInv, UNCHANGED vars PROVE IInv'
  OBVIOUS
<1> USE DEF IInv, vars, mpiVars, simVars, stageVars, linkVars, boxVars
<1>1. TypeOK' /\ IndexInv'
  BY DEF TypeOK, MpiTypeOK, SimTypeOK, StageTypeOK, LinkTypeOK, BoxTypeOK,
         HistoryTypeOK, IndexInv
<1>2. ReadyInv'
  BY DEF ReadyInv, SimulateTogether
<1>3. MailInv' /\ StageInv'
  BY DEF MailInv, Taken, StageInv
<1>4. FrameInv'
  BY DEF FrameInv, Owed, Driven, FramesOfOneStep
<1>5. CopyInv' /\ SnapInv'
  BY DEF CopyInv, SnapInv, ReadBetween
<1>6. SentInv' /\ OrderInv'
  <2>1. (\A s \in Subnets : Sent(s)' = Sent(s)) /\ pid' = pid /\ snap' = snap
    BY DEF Sent
  <2>2. SentInv /\ OrderInv
    OBVIOUS
  <2>3. SentInv'
    BY ONLY <2>1, <2>2 DEF SentInv
  <2>4. OrderInv'
    BY ONLY <2>1, <2>2 DEF OrderInv, LagsByOne, NotNewer
  <2> QED BY <2>3, <2>4
<1> QED BY <1>1, <1>2, <1>3, <1>4, <1>5, <1>6

\* IInv holds in every state of every behaviour.
THEOREM InvariantHolds == Spec => []IInv
<1>1. Init => IInv
  BY InitType, InitReady, InitMail, InitInputs DEF IInv
<1>2. IInv /\ Next => IInv'
  <2> SUFFICES ASSUME IInv, Next PROVE IInv'
    OBVIOUS
  <2>1. TypeOK /\ IndexInv /\ ReadyInv /\ MailInv /\ StageInv /\ FrameInv /\ CopyInv
        /\ SnapInv /\ SentInv /\ OrderInv
    BY DEF IInv
  <2>2. TypeOK' /\ IndexInv'
    BY <2>1, StepType
  <2>3. ReadyInv' /\ MailInv' /\ StageInv'
    BY <2>1, ReadyKept, MailKept, StageKept
  <2>4. FrameInv' /\ CopyInv' /\ SnapInv'
    BY <2>1, FrameKept, CopyKept, SnapKept
  <2>5. SentInv' /\ OrderInv'
    BY <2>1, SentKept, OrderKept
  <2> QED BY <2>2, <2>3, <2>4, <2>5 DEF IInv
<1>3. IInv /\ [Next]_vars => IInv'
  BY <1>2, StutterInv
<1> QED BY <1>1, <1>3, PTL DEF Spec

\* Every index, count and array keeps to its range, in main and in the driver.
THEOREM SimTypeCorrect == Spec => []TypeOK
<1>1. IInv => TypeOK
  BY DEF IInv
<1> QED BY InvariantHolds, <1>1, PTL

\* Nobody simulates before every process has said that it is ready.
THEOREM AllSimulateTogether == Spec => []SimulateTogether
<1>1. IInv => SimulateTogether
  BY DEF IInv, ReadyInv
<1> QED BY InvariantHolds, <1>1, PTL

\* A frame is of one step and one small step, and none is left out, doubled or
\* out of order, for any number of boxes, subnets and small steps.
THEOREM FramesAreOfOneStep == Spec => []FramesOfOneStep
<1>1. IInv => FramesOfOneStep
  BY DEF IInv, FrameInv
<1> QED BY InvariantHolds, <1>1, PTL

\* What a subnet has received are the first of the inputs it was sent.
LEMMA ReceivedWasSent ==
  ASSUME TypeOK, NEW s \in Subnets
  PROVE  /\ got[s] \in Seq(Inputs) /\ DOMAIN got[s] = 1..Len(got[s])
         /\ Len(got[s]) \in Nat /\ Len(Sent(s)) \in Nat /\ Len(got[s]) <= Len(Sent(s))
         /\ \A k \in 1..Len(got[s]) : got[s][k] = Sent(s)[k]
<1>1. got[s] \in Seq(Inputs) /\ toSubnet[s] \in Seq(Inputs)
  BY DEF TypeOK, SimTypeOK, HistoryTypeOK
<1> DEFINE g == got[s]
           q == toSubnet[s]
<1>2. g \in Seq(Inputs) /\ q \in Seq(Inputs) /\ Sent(s) = g \o q
  BY <1>1 DEF Sent
<1> HIDE DEF g, q
<1>3. Len(g \o q) = Len(g) + Len(q) /\ Len(g) \in Nat /\ Len(q) \in Nat
  BY <1>2
<1>4. \A k \in 1..Len(g) : (g \o q)[k] = g[k]
  BY <1>2
<1>5. DOMAIN g = 1..Len(g)
  BY <1>2
<1> QED BY <1>2, <1>3, <1>4, <1>5 DEF g

\* Two subnets that compute the same step compute it with the same inputs.
THEOREM SubnetsGetSameInputs == Spec => []SameInputs
<1>1. IInv => SameInputs
  <2> SUFFICES ASSUME IInv, NEW s \in Subnets, NEW t \in Subnets,
                      NEW k \in DOMAIN got[s] \cap DOMAIN got[t]
               PROVE  got[s][k] = got[t][k]
    BY DEF SameInputs
  <2>1. TypeOK
    BY DEF IInv
  <2>2. /\ k \in 1..Len(got[s]) /\ Len(got[s]) \in Nat /\ Len(Sent(s)) \in Nat
        /\ Len(got[s]) <= Len(Sent(s)) /\ got[s][k] = Sent(s)[k]
    BY <2>1, ReceivedWasSent
  <2>3. /\ k \in 1..Len(got[t]) /\ Len(got[t]) \in Nat /\ Len(Sent(t)) \in Nat
        /\ Len(got[t]) <= Len(Sent(t)) /\ got[t][k] = Sent(t)[k]
    BY <2>1, ReceivedWasSent
  <2>4. k \in 1..Len(Sent(s)) /\ k <= Len(Sent(t))
    BY <2>2, <2>3
  <2>5. Sent(s)[k] = Sent(t)[k]
    BY <2>4 DEF IInv, SentInv
  <2> QED BY <2>2, <2>3, <2>5
<1> QED BY InvariantHolds, <1>1, PTL

\* Without a lock between the thread and the loop, a word of a box may be newer
\* than one read before it, but it never lags by more than one message behind it.
THEOREM TornInputs == Spec => []LagsByOneAtMost
<1>1. IInv => LagsByOneAtMost
  <2> SUFFICES ASSUME IInv, NEW s \in Subnets, NEW k \in DOMAIN got[s], NEW b \in Boxes,
                      NEW v \in Words, NEW w \in Words, v < w
               PROVE  got[s][k][b][w] >= got[s][k][b][v] - 1
    BY DEF LagsByOneAtMost
  <2>1. /\ k \in 1..Len(got[s]) /\ Len(got[s]) \in Nat /\ Len(Sent(s)) \in Nat
        /\ Len(got[s]) <= Len(Sent(s)) /\ got[s][k] = Sent(s)[k]
    BY ReceivedWasSent DEF IInv
  <2>2. k \in 1..Len(Sent(s))
    BY <2>1
  <2>3. LagsByOne(Sent(s)[k])
    BY <2>2 DEF IInv, OrderInv
  <2> QED BY <2>1, <2>3 DEF LagsByOne
<1> QED BY InvariantHolds, <1>1, PTL

\* From step to step the inputs of a box stay or get newer.
THEOREM InputsOnlyAdvance == Spec => []InputsNeverGoBack
<1>1. IInv => InputsNeverGoBack
  <2> SUFFICES ASSUME IInv, NEW s \in Subnets, NEW k \in 1..(Len(got[s]) - 1),
                      NEW b \in Boxes, NEW w \in Words
               PROVE  got[s][k + 1][b][w] >= got[s][k][b][w]
    BY DEF InputsNeverGoBack
  <2>1. /\ got[s] \in Seq(Inputs)
        /\ Len(got[s]) \in Nat /\ Len(Sent(s)) \in Nat /\ Len(got[s]) <= Len(Sent(s))
        /\ \A n \in 1..Len(got[s]) : got[s][n] = Sent(s)[n]
    BY ReceivedWasSent DEF IInv
  <2>2. /\ k \in 1..Len(got[s]) /\ k + 1 \in 1..Len(got[s])
        /\ k \in 1..Len(Sent(s)) /\ k < Len(Sent(s))
    BY <2>1
  <2>3. Sent(s)[k][b][w] <= Sent(s)[k + 1][b][w]
    BY <2>2 DEF IInv, OrderInv, NotNewer
  <2>4. got[s][k] = Sent(s)[k] /\ got[s][k + 1] = Sent(s)[k + 1]
    BY <2>1, <2>2
  <2>5. got[s][k][b] \in [Words -> 0..MaxInput] /\ got[s][k + 1][b] \in [Words -> 0..MaxInput]
    BY <2>1, <2>2 DEF Inputs
  <2>6. got[s][k][b][w] \in Int /\ got[s][k + 1][b][w] \in Int
    BY <2>5
  <2> QED BY <2>3, <2>4, <2>6
<1> QED BY InvariantHolds, <1>1, PTL
=============================================================================
