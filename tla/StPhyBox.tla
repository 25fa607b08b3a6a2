----------------------------- MODULE StPhyBox -----------------------------
(***************************************************************************)
(* The data of the boxes in one interface process of piditf_b1: the list   *)
(* of variables (RecvSendPhyIO), the classes CADPSS_PID_AI/AO/DI/DO,       *)
(* CADPSS_PID and CADPSS_PID_ITF, and what the thread RTSTPhySim carries   *)
(* through them while it searches for a balance, holds it and simulates    *)
(* (PstPIDItf_rt64.cpp).  RtStPhy has the threads and the other processes  *)
(* of the same program; here main is the flag "over" of the hold.          *)
(*                                                                         *)
(* A value is named by the variable and the step it comes from; 0 is the   *)
(* step of the values before the first step, -1 names what was never       *)
(* assigned.  A value of type Virt2InstVal arrives as two variables, real  *)
(* and imaginary part, and leaves as a wave: Ikt values for each step, at  *)
(* angles that advance by one part of Cycle, whose amplitude passes from   *)
(* the last one to the new one.  Factors and calibrations are left out.    *)
(***************************************************************************)
EXTENDS Integers, Sequences, SequencesExt, FiniteSetsExt

CONSTANTS
  Tables,  \* the lists of variables main control may send
  CardAt,  \* CardAt[b][s]: the kind of card in slot s of box b
  Master,  \* MasterNo, or -1 when a box of another process is master
  Ikt,     \* simio.Ikt: small steps of a step
  Cycle,   \* small steps of a period (1 / (fhz * DTINST))
  MaxK,    \* how many turns the search takes before it gives up (1000)
  MaxPosts, \* bound: samples the semaphore of a box counts
  Steps    \* bound: the steps of the simulation

Boxes == DOMAIN CardAt
Kinds == {"AI", "AO", "DI", "DO"}
ToBox(kind) == kind \in {"AO", "DO"}   \* MarkIO

IOVars == [kind : Kinds, net : Nat, box : Boxes, idno : Nat, slot : Nat, inst : BOOLEAN]

ASSUME StPhyBoxAssumption ==
  /\ Boxes \subseteq Nat
  /\ Tables \subseteq Seq(IOVars)
  /\ Ikt \in Nat \ {0} /\ Cycle \in Nat \ {0} /\ MaxPosts \in Nat \ {0}
  /\ MaxK \in Nat /\ Steps \in Nat

VARIABLES
  iovars,  \* the list received from main control
  pcsubnet, \* the subnets of the list, in the order they are met
  sig,     \* sig[b][k]: VarInf of the class k of box b
  ready,   \* ready[b]: the classes of box b that could be initialised
  pc,      \* where the thread is, and its counters
  out,     \* out[b]: the fields of the AO and of the DO of box b
  in,      \* in[b]: data of the AI and DI of box b
  Vout,    \* Vout[n]: what is sent to subnet n
  frame,   \* frame[b]: the last words written for box b
  sent,    \* how many times all boxes were written to
  box      \* box[b]: the box: is it running, how many samples are not waited for yet, the last one

vars == <<iovars, pcsubnet, sig, ready, pc, out, in, Vout, frame, sent, box>>
table == <<iovars, pcsubnet, sig>>

(***************************************************************************)
(* The list of variables: RecvSendPhyIO.                                   *)
(***************************************************************************)
\* Nin or Nout when the i-th variable is added: its place among those of its subnet
\* that go the same way.
Place(i) ==
  Cardinality({j \in 1 .. i - 1 : iovars[j].net = iovars[i].net
                                  /\ ToBox(iovars[j].kind) = ToBox(iovars[i].kind)})

Nin(n)  == Cardinality({i \in DOMAIN iovars : iovars[i].net = n /\ ToBox(iovars[i].kind)})
Nout(n) == Cardinality({i \in DOMAIN iovars : iovars[i].net = n /\ ~ToBox(iovars[i].kind)})

SimuVar(i) == [prono |-> iovars[i].net, idxIO |-> Place(i)]
NewSignal(i, inst, v) == [idno |-> iovars[i].idno, slot |-> iovars[i].slot, inst |-> inst,
                          idxVal2 |-> v, VSimIO |-> <<SimuVar(i)>>]
Plain(i) == NewSignal(i, FALSE, -1)

\* The signals of a list that have the number of the i-th variable: one or none.
Same(list, i) == {x \in DOMAIN list : list[x].idno = iovars[i].idno}
Another(list, i) ==
  [x \in DOMAIN list |-> IF x \in Same(list, i)
                         THEN [list[x] EXCEPT !.VSimIO = Append(@, SimuVar(i))] ELSE list[x]]
Instants(list) == Cardinality({i \in DOMAIN list : list[i].inst})   \* NumInstant

\* Mutant of AO_addavar: a wave is numbered by the place of its signal.
AO_addavarByPlace(list, i) ==
  IF Same(list, i) # {} THEN Another(list, i)
  ELSE Append(list, IF iovars[i].inst THEN NewSignal(i, TRUE, Len(list)) ELSE Plain(i))

\* A number that is there already is an error for an AI; the other classes add the
\* variable to the signal.  The AO number their Virt2InstVal signals separately.
AI_addavar(list, i) == IF Same(list, i) # {} THEN list ELSE Append(list, Plain(i))
DI_addavar(list, i) == IF Same(list, i) # {} THEN Another(list, i) ELSE Append(list, Plain(i))
DO_addavar(list, i) == IF Same(list, i) # {} THEN Another(list, i) ELSE Append(list, Plain(i))
AO_addavar(list, i) ==
  IF Same(list, i) # {} THEN Another(list, i)
  ELSE Append(list, IF iovars[i].inst THEN NewSignal(i, TRUE, Instants(list)) ELSE Plain(i))

PID_addavar(lists, i) ==
  [k \in Kinds |-> IF k # iovars[i].kind THEN lists[k]
                   ELSE CASE k = "AI" -> AI_addavar(lists[k], i)
                          [] k = "AO" -> AO_addavar(lists[k], i)
                          [] k = "DI" -> DI_addavar(lists[k], i)
                          [] k = "DO" -> DO_addavar(lists[k], i)]

addavar(i) == [b \in Boxes |-> IF b = iovars[i].box THEN PID_addavar(sig[b], i) ELSE sig[b]]

NoSignals == [b \in Boxes |-> [k \in Kinds |-> <<>>]]

\* The boxes that have a CADPSS_PID.
pids == {b \in Boxes : \E k \in Kinds : sig[b][k] # <<>>}

(***************************************************************************)
(* Buffers and initialisation of the classes.                              *)
(***************************************************************************)
Garbage == [net |-> -1, idx |-> -1, step |-> -1]
Flat == [last |-> 0, new |-> 0, part |-> Ikt - 1, angle |-> Cycle - 1]   \* memset(.., 0)
AtRest(s) == IF s.inst THEN Flat ELSE {}

\* new F64[n] of the AO, zeroed by its init and initInstantPara.
AO_allocBuf(s) == [i \in DOMAIN s |-> AtRest(s[i])]
AO_initInstantPara(s) == [v \in 0 .. Instants(s) - 1 |-> [A |-> 0, AL |-> 0]]
DO_allocBuf(s) == [i \in DOMAIN s |-> Garbage]

\* new F64[n] of the AI and new U8[n] of the DI.
InBuf(s) == [i \in DOMAIN s |-> [no |-> -1, frame |-> -1]]

allocBuf == [b \in Boxes |-> [Volt |-> AO_allocBuf(sig[b]["AO"]),
                               Vinst |-> AO_initInstantPara(sig[b]["AO"]),
                               data |-> DO_allocBuf(sig[b]["DO"])]]

\* init of a class: every signal must lie on a card of its kind, as slot_info says.
\* An entry that PID_Slot_ReadInfo could not fill is what the stack held.
CardsFit(s, kind, slot_info) == s # <<>> /\ \A i \in DOMAIN s : slot_info[s[i].slot] = kind
AI_init(b, slot_info) == CardsFit(sig[b]["AI"], "AI", slot_info)
AO_init(b, slot_info) == CardsFit(sig[b]["AO"], "AO", slot_info)
DI_init(b, slot_info) == CardsFit(sig[b]["DI"], "DI", slot_info)
DO_init(b, slot_info) == CardsFit(sig[b]["DO"], "DO", slot_info)

\* init of a box: each class for itself.
PID_init(b, slot_info) ==
  {k \in Kinds : CASE k = "AI" -> AI_init(b, slot_info[k])
                   [] k = "AO" -> AO_init(b, slot_info[k])
                   [] k = "DI" -> DI_init(b, slot_info[k])
                   [] k = "DO" -> DO_init(b, slot_info[k])}

ishaveInstantInput == \E b \in Boxes : Instants(sig[b]["AO"]) > 0

(***************************************************************************)
(* From the subnets to the boxes.                                          *)
(***************************************************************************)
\* Mutant of NextWave: the new amplitude is stored before it is handed down.
NextWaveSwapped(w, s) == [A |-> s, AL |-> s]

\* A new amplitude (and phase): the present one becomes the last one.
NextWave(w, s) == [A |-> s, AL |-> w.A]

\* The variables of a signal that subnet procno has sent values of, named by the step.
Takes(signal, procno) == {j \in DOMAIN signal.VSimIO : signal.VSimIO[j].prono = procno}
Term(var, s) == [net |-> var.prono, idx |-> var.idxIO, step |-> s]
Terms(signal, procno, s) == {Term(signal.VSimIO[j], s) : j \in Takes(signal, procno)}

\* The first variable of a signal sets the sum, the others add to it.
AO_GetSimuVal(b, procno, s) ==
  LET list == sig[b]["AO"]
      Volt == out[b].Volt
  IN [i \in DOMAIN list |->
       IF list[i].inst THEN Volt[i]
       ELSE IF 1 \in Takes(list[i], procno) THEN Terms(list[i], procno, s)
       ELSE Volt[i] \cup Terms(list[i], procno, s)]

\* The imaginary part of a Virt2InstVal signal makes its amplitude the last one and
\* sets a new one.
AO_GetInstant(b, procno, s) ==
  LET list == sig[b]["AO"]
  IN [v \in DOMAIN out[b].Vinst |->
       IF \E i \in DOMAIN list : list[i].idxVal2 = v /\ 2 \in Takes(list[i], procno)
       THEN NextWave(out[b].Vinst[v], s) ELSE out[b].Vinst[v]]

\* Only the first variable of a DO is taken.
DO_GetSimuVal(b, procno, s) ==
  LET list == sig[b]["DO"]
  IN [i \in DOMAIN list |-> IF 1 \in Takes(list[i], procno) THEN Term(list[i].VSimIO[1], s)
                            ELSE out[b].data[i]]

PID_GetSimuVal(b, procno, s) ==
  [Volt |-> AO_GetSimuVal(b, procno, s), Vinst |-> AO_GetInstant(b, procno, s),
   data |-> DO_GetSimuVal(b, procno, s)]

GetSimuVal(procno, s) == [b \in Boxes |-> PID_GetSimuVal(b, procno, s)]

\* The next values of the waves: the angle is that of small step knt of step nt.
WaveValue(w, nt, knt) ==
  [last |-> w.AL, new |-> w.A, part |-> knt, angle |-> (nt * Ikt + knt) % Cycle]
AO_updateInstantVal(b, nt, knt) ==
  LET list == sig[b]["AO"]
  IN [i \in DOMAIN list |-> IF list[i].inst
                            THEN WaveValue(out[b].Vinst[list[i].idxVal2], nt, knt)
                            ELSE out[b].Volt[i]]

updateInstantVal(nt, knt) ==
  [b \in Boxes |-> [out[b] EXCEPT !.Volt = AO_updateInstantVal(b, nt, knt)]]

\* GrpWrite of what a class configured at its init.
AO_SenddataToPID(b, o) == IF "AO" \in ready[b] THEN o.Volt ELSE frame[b].AO
DO_SenddataToPID(b, o) == IF "DO" \in ready[b] THEN o.data ELSE frame[b].DO
PID_SenddataToPID(b, o) == [AO |-> AO_SenddataToPID(b, o), DO |-> DO_SenddataToPID(b, o)]
SenddataToPID(os) == [b \in Boxes |-> PID_SenddataToPID(b, os[b])]

\* Only the analogue outputs are cleared.
AO_ClearOutput(b) == [i \in DOMAIN sig[b]["AO"] |-> AtRest(sig[b]["AO"][i])]
ClearOutput == [b \in Boxes |-> [out[b] EXCEPT !.Volt = AO_ClearOutput(b)]]

(***************************************************************************)
(* From the boxes to the subnets.                                          *)
(***************************************************************************)
\* GrpRead of a class: the samples in the order of the signals.
Samples(b, kind) ==
  [i \in DOMAIN sig[b][kind] |-> IF kind \in ready[b]
                                 THEN [no |-> sig[b][kind][i].idno, frame |-> box[b].sample]
                                 ELSE in[b][kind][i]]
AI_getdatafromPID(b) == Samples(b, "AI")
DI_getdatafromPID(b) == Samples(b, "DI")
PID_getdatafromPID(b) == [AI |-> AI_getdatafromPID(b), DI |-> DI_getdatafromPID(b)]
getdatafromPID == [b \in Boxes |-> PID_getdatafromPID(b)]

\* The signals whose first variable belongs to place idx of subnet n.
Serves(b, kind, n, idx) ==
  {i \in DOMAIN sig[b][kind] : sig[b][kind][i].VSimIO[1] = [prono |-> n, idxIO |-> idx]}

Served(b, kind, n, idx) == Serves(b, kind, n, idx) # {}

\* A class stores one signal after the other: the last one stays.
InputOf(b, kind, data, n, idx) ==
  [kind |-> kind, box |-> b, got |-> data[b][kind][Max(Serves(b, kind, n, idx))]]
AI_setSimuVal(b, data, n, idx) == InputOf(b, "AI", data, n, idx)
DI_setSimuVal(b, data, n, idx) == InputOf(b, "DI", data, n, idx)

\* The DI of a box store after the AI, a box after those of smaller numbers.
PID_setSimuVal(b, data, n, idx) ==
  IF Served(b, "DI", n, idx) THEN DI_setSimuVal(b, data, n, idx)
  ELSE AI_setSimuVal(b, data, n, idx)

setSimuVal(data, n) ==
  [idx \in DOMAIN Vout[n] |->
     LET serving == {b \in pids : \E k \in {"AI", "DI"} : Served(b, k, n, idx)}
     IN IF serving = {} THEN Vout[n][idx] ELSE PID_setSimuVal(Max(serving), data, n, idx)]

(***************************************************************************)
(* The boxes and the kernel driver, which are not in the repository: at    *)
(* every synchronisation a running box puts out the words last written and *)
(* samples its inputs; the driver posts a semaphore when they arrive       *)
(* (PID_SEM_MODE is 1 in b1).                                              *)
(***************************************************************************)
Tick(b) ==
  /\ box[b].running
  /\ Master \in Boxes => box[Master].running
  /\ box' = [box EXCEPT ![b].posts = Min({@ + 1, MaxPosts}), ![b].sample = sent]
  /\ UNCHANGED <<table, ready, pc, out, in, Vout, frame, sent>>

\* startSim: forget earlier marks, start.
Start(S) == [b \in Boxes |-> IF b \in S THEN [box[b] EXCEPT !.posts = 0, !.running = TRUE]
                             ELSE box[b]]
startSlaveSim == Start(pids \ {Master})
startMasterSim == Start(pids \cap {Master})

\* stopSim gives up after ten attempts: S are the boxes that answered one.
stopSim(S) == [b \in Boxes |-> IF b \in S THEN [box[b] EXCEPT !.running = FALSE] ELSE box[b]]

(***************************************************************************)
(* main.                                                                   *)
(***************************************************************************)
Init ==
  /\ iovars \in Tables
  /\ pcsubnet = <<>>
  /\ sig = NoSignals
  /\ ready = [b \in Boxes |-> {}]
  /\ pc = [at |-> "subnets", loop |-> "none", k |-> 0, kNT |-> 0, n |-> 1, i |-> 1]
  /\ out = allocBuf
  /\ in = [b \in Boxes |-> [AI |-> <<>>, DI |-> <<>>]]
  /\ Vout = [n \in {} |-> <<>>]
  /\ frame = [b \in Boxes |-> [AO |-> <<>>, DO |-> <<>>]]
  /\ sent = 0
  /\ box = [b \in Boxes |-> [running |-> FALSE, posts |-> 0, sample |-> 0]]

\* RecvSendPhyIO: the subnets of the list, each once.
CollectSubnets ==
  /\ pc.at = "subnets"
  /\ IF pc.i <= Len(iovars)
     THEN /\ pcsubnet' = IF Contains(pcsubnet, iovars[pc.i].net) THEN pcsubnet
                         ELSE Append(pcsubnet, iovars[pc.i].net)
          /\ pc' = [pc EXCEPT !.i = @ + 1]
     ELSE /\ pc' = [pc EXCEPT !.at = "vars", !.i = 1]
          /\ UNCHANGED pcsubnet
  /\ UNCHANGED <<iovars, sig, ready, out, in, Vout, frame, sent, box>>

\* Mutant of OfSubnet: the variables are added in the order of the list.
OfSubnetInOrder(v) == pc.n = 1

OfSubnet(v) == v.net = pcsubnet[pc.n]

\* Subnet after subnet, the variables of the list that belong to it.
AddVar ==
  /\ pc.at = "vars" /\ pc.n <= Len(pcsubnet) /\ pc.i <= Len(iovars)
  /\ sig' = IF OfSubnet(iovars[pc.i]) THEN addavar(pc.i) ELSE sig
  /\ pc' = [pc EXCEPT !.i = @ + 1]
  /\ UNCHANGED <<iovars, pcsubnet, ready, out, in, Vout, frame, sent, box>>

SubnetDone ==
  /\ pc.at = "vars" /\ pc.n <= Len(pcsubnet) /\ pc.i > Len(iovars)
  /\ pc' = [pc EXCEPT !.n = @ + 1, !.i = 1]
  /\ UNCHANGED <<table, ready, out, in, Vout, frame, sent, box>>

\* All are filed: the arrays of the subnets and (allocBuf, initInstantPara) of the classes.
AllocBuf ==
  /\ pc.at = "vars" /\ pc.n > Len(pcsubnet)
  /\ out' = allocBuf
  /\ in' = [b \in Boxes |-> [AI |-> InBuf(sig[b]["AI"]), DI |-> InBuf(sig[b]["DI"])]]
  /\ Vout' = [n \in ToSet(pcsubnet) |-> [j \in 0 .. Nout(n) - 1 |-> Garbage]]
  /\ frame' = [b \in Boxes |-> [AO |-> AO_allocBuf(sig[b]["AO"]), DO |-> DO_allocBuf(sig[b]["DO"])]]
  /\ pc' = [pc EXCEPT !.at = "init", !.i = 1]
  /\ UNCHANGED <<table, ready, sent, box>>

RecvSendPhyIO == CollectSubnets \/ AddVar \/ SubnetDone \/ AllocBuf

\* What the classes may read of the cards: one request of one class may go unanswered.
SlotInfos ==
  {[b \in Boxes |-> [k \in Kinds |-> CardAt[b]]]} \cup
  {[b \in Boxes |-> [k \in Kinds |->
      IF b = lost.b /\ k = lost.k THEN [CardAt[b] EXCEPT ![lost.s] = g] ELSE CardAt[b]]] :
    lost \in {[b |-> b, k |-> k, s |-> s] : b \in Boxes, k \in Kinds,
              s \in UNION {DOMAIN CardAt[x] : x \in Boxes}},
    g \in Kinds \cup {"NO"}}

\* init of the interface fails only if no class of any box could be initialised.
InitBoxes ==
  /\ pc.at = "init"
  /\ \E slot_info \in SlotInfos :
       ready' = [b \in Boxes |-> IF b \in pids THEN PID_init(b, slot_info[b]) ELSE {}]
  /\ IF \A b \in Boxes : ready'[b] = {}
     THEN /\ pc' = [pc EXCEPT !.at = "over"]
          /\ UNCHANGED box
     ELSE /\ pc' = [pc EXCEPT !.at = "first"]
          /\ box' = startSlaveSim
  /\ UNCHANGED <<table, out, in, Vout, frame, sent>>

(***************************************************************************)
(* RTSTPhySim and RTSTPhySimulating.                                       *)
(***************************************************************************)
\* The values of the next subnet, named by step s.
Receive(s) ==
  IF Nin(pcsubnet[pc.i]) > 0 THEN out' = GetSimuVal(pcsubnet[pc.i], s) ELSE UNCHANGED out

LastSubnet == pc.i = Len(pcsubnet)
Over == [pc EXCEPT !.at = "over"]
Begin(loop) == [pc EXCEPT !.at = "out", !.loop = loop, !.k = 0, !.kNT = 0]

\* The first values; the message of the last subnet may say that all is over.
RecvFirst ==
  /\ pc.at = "first"
  /\ Receive(1)
  /\ \/ ~LastSubnet /\ pc' = [pc EXCEPT !.i = @ + 1] /\ UNCHANGED box
     \/ LastSubnet /\ pc' = Over /\ UNCHANGED box
     \/ LastSubnet /\ pc' = [Begin("search") EXCEPT !.i = 1] /\ box' = startMasterSim
  /\ UNCHANGED <<table, ready, in, Vout, frame, sent>>

\* One output to all boxes.
Output ==
  /\ pc.at = "out"
  /\ out' = IF ishaveInstantInput THEN updateInstantVal(pc.k, pc.kNT) ELSE out
  /\ frame' = SenddataToPID(out')
  /\ sent' = sent + 1
  /\ pc' = [pc EXCEPT !.at = "wait", !.i = Min(pids)]
  /\ UNCHANGED <<table, ready, in, Vout, box>>

\* How often the loops write in one turn.
Parts == IF ishaveInstantInput THEN Ikt ELSE 1

Later == {b \in pids : b > pc.i}   \* the boxes not waited for yet

AfterWait ==
  CASE Later # {} -> [pc EXCEPT !.i = Min(Later)]
    [] Later = {} /\ pc.kNT + 1 < Parts -> [pc EXCEPT !.at = "out", !.kNT = @ + 1, !.i = 1]
    [] Later = {} /\ pc.kNT + 1 >= Parts /\ pc.loop # "simulate" ->
         [pc EXCEPT !.at = "get", !.i = 1]
    [] Later = {} /\ pc.kNT + 1 >= Parts /\ pc.loop = "simulate" ->
         [pc EXCEPT !.at = "recv", !.k = @ + 1, !.kNT = 0, !.i = 1]

\* Mutant of WaitedFor: the same box every time.
WaitedForFirst == Min(pids)

WaitedFor == pc.i

\* Wait for one box after the other until each has sampled its inputs.
MarkInput_Wait ==
  /\ pc.at = "wait"
  /\ box[WaitedFor].posts > 0
  /\ box' = [box EXCEPT ![WaitedFor].posts = @ - 1]
  /\ pc' = AfterWait
  /\ UNCHANGED <<table, ready, out, in, Vout, frame, sent>>

\* Read the boxes and set the inputs of the subnets: of all of them while searching,
\* of those that have inputs in a step, which are then sent.
GetData ==
  /\ pc.at = "get"
  /\ in' = getdatafromPID
  /\ Vout' = [n \in DOMAIN Vout |-> IF pc.loop # "simulate" \/ Nout(n) > 0
                                    THEN setSimuVal(in', n) ELSE Vout[n]]
  /\ pc' = IF pc.loop = "simulate" THEN [pc EXCEPT !.at = "out", !.kNT = 0]
           ELSE [pc EXCEPT !.at = "decide"]
  /\ UNCHANGED <<table, ready, out, frame, sent, box>>

\* Mutant of WholeCycle: any turn will do.
AnyTurn(k) == TRUE

\* tt = fhz * dt * (k + 1) periods have passed: fabs(tt - int(tt + 0.4)) <= 0.01.
WholeCycle(k) ==
  LET t       == (k + 1) * Ikt
      nearest == Cycle * ((5 * t + 2 * Cycle) \div (5 * Cycle))
      off     == IF t >= nearest THEN t - nearest ELSE nearest - t
  IN 100 * off <= Cycle

MayLeave == ishaveInstantInput => WholeCycle(pc.k)
Again == [pc EXCEPT !.at = "out", !.k = @ + 1, !.kNT = 0]

\* The end of a turn of the search: still is dd < 0.01.  The values found are sent to
\* all subnets.
SearchTurn ==
  /\ pc.at = "decide" /\ pc.loop = "search"
  /\ \E still \in BOOLEAN :
       \/ still /\ MayLeave /\ pc' = Begin("hold") /\ UNCHANGED box
       \/ still /\ ~MayLeave /\ pc' = Again /\ UNCHANGED box
       \/ /\ ~still /\ pc.k > MaxK
          /\ pc' = Over
          /\ \E S \in SUBSET pids : box' = stopSim(S)
       \/ ~still /\ pc.k <= MaxK /\ pc' = Again /\ UNCHANGED box
  /\ UNCHANGED <<table, ready, out, in, Vout, frame, sent>>

\* The end of a turn of the hold: main has told PhyInit_Over and the time is near, or
\* not (bounded by MaxK turns here).
HoldTurn ==
  /\ pc.at = "decide" /\ pc.loop = "hold"
  /\ \E still, over \in BOOLEAN :
       /\ pc.k > MaxK => over
       /\ IF over /\ (still \/ pc.k > MaxK) /\ MayLeave
          THEN pc' = [pc EXCEPT !.at = "recv", !.loop = "simulate", !.k = 0, !.kNT = 0, !.i = 1]
          ELSE pc' = Again
  /\ UNCHANGED <<table, ready, out, in, Vout, frame, sent, box>>

\* A step: the values of all subnets; that of the last one tells whether it goes on.
RecvStep ==
  /\ pc.at = "recv"
  /\ Receive(pc.k + 2)
  /\ \/ ~LastSubnet /\ pc' = [pc EXCEPT !.i = @ + 1]
     \/ LastSubnet /\ pc.k < Steps /\ pc' = [pc EXCEPT !.at = "get"]
     \/ LastSubnet /\ pc' = [pc EXCEPT !.at = "clear"]
  /\ UNCHANGED <<table, ready, in, Vout, frame, sent, box>>

\* The end: clear the analogue outputs, stop the boxes.
EndSimulating ==
  /\ pc.at = "clear"
  /\ out' = ClearOutput
  /\ frame' = SenddataToPID(out')
  /\ \E S \in SUBSET pids : box' = stopSim(S)
  /\ pc' = Over
  /\ UNCHANGED <<table, ready, in, Vout, sent>>

RTSTPhySim == RecvFirst \/ Output \/ MarkInput_Wait \/ GetData \/ SearchTurn \/ HoldTurn
              \/ RecvStep \/ EndSimulating

Next == RecvSendPhyIO \/ InitBoxes \/ RTSTPhySim \/ \E b \in Boxes : Tick(b)

Spec == Init /\ [][Next]_vars

(***************************************************************************)
(* Properties.                                                             *)
(***************************************************************************)
TypeOK ==
  /\ iovars \in Tables
  /\ pc.at \in {"subnets", "vars", "init", "first", "out", "wait", "get", "decide", "recv", "clear", "over"}
  /\ pc.loop \in {"none", "search", "hold", "simulate"}
  /\ pc.kNT \in 0 .. Parts - 1
  /\ pc.at \in {"first", "recv"} => pc.i \in DOMAIN pcsubnet
  /\ pc.at = "wait" => pc.i \in pids
  /\ \A b \in Boxes :
       /\ ready[b] \subseteq Kinds
       /\ box[b] \in [running : BOOLEAN, posts : 0 .. MaxPosts, sample : 0 .. sent]
       /\ pc.at \notin {"subnets", "vars"} =>
            {sig[b]["AO"][i].idxVal2 : i \in DOMAIN sig[b]["AO"]} \ {-1} = DOMAIN out[b].Vinst

\* The waves a box is driven with.
Waves(b) == {i \in DOMAIN sig[b]["AO"] : "AO" \in ready[b] /\ sig[b]["AO"][i].inst}

\* The angle of a wave advances by one small step from each output to the next, from
\* the first turn of the search through the hold into the simulation: k starts again in
\* each of the three loops, which therefore may be left after whole periods only.
PhaseContinues ==
  [][Output => \A b \in Boxes : \A i \in Waves(b) :
       frame'[b].AO[i].angle = (frame[b].AO[i].angle + 1) % Cycle]_vars

\* The amplitude of a wave has no jump in the simulation: the first value of a step
\* starts from the amplitude the step before (or the hold) was passing to, the others go
\* on along the same line.
AmplitudeContinues ==
  [][Output /\ pc.loop = "simulate" => \A b \in Boxes : \A i \in Waves(b) :
       LET w == frame[b].AO[i]
           x == frame'[b].AO[i]
       IN IF w.part = Ikt - 1 THEN x.part = 0 /\ x.last = w.new
          ELSE x = [w EXCEPT !.part = @ + 1, !.angle = x.angle]]_vars

\* The variables of the list that make up output number no of box b.
Shares(b, kind, no) == {i \in DOMAIN iovars : iovars[i].box = b /\ iovars[i].kind = kind
                                              /\ iovars[i].idno = no}
StepShown == IF pc.loop = "simulate" THEN pc.k + 2 ELSE 1

\* Every output holds the values of one step of the subnets, the whole sum of those that
\* share an analogue output, and nothing that was never assigned: the order in which
\* variables were added agrees with the order in which the subnets are received.
OutputsOfOneStep ==
  pc.at = "wait" =>
    \A b \in Boxes :
      /\ "AO" \in ready[b] => \A i \in DOMAIN sig[b]["AO"] :
           LET s == sig[b]["AO"][i]
           IN IF s.inst THEN frame[b].AO[i].new = StepShown
              ELSE frame[b].AO[i] = {[net |-> iovars[j].net, idx |-> Place(j), step |-> StepShown] :
                                      j \in Shares(b, "AO", s.idno)}
      /\ "DO" \in ready[b] => \A i \in DOMAIN sig[b]["DO"] :
           \E j \in Shares(b, "DO", sig[b]["DO"][i].idno) :
             frame[b].DO[i] = [net |-> iovars[j].net, idx |-> Place(j), step |-> StepShown]

\* What a subnet is sent in the place of a variable is the sample of that signal, and the
\* box took it no more than MaxPosts outputs ago: MarkInput_Wait lets each box fall behind
\* by what its semaphore has counted, and not by more.
InputsFollowOutputs ==
  \/ pc.at = "decide"
  \/ pc.at = "out" /\ pc.loop = "simulate" /\ pc.kNT = 0
  => \A j \in DOMAIN iovars : iovars[j].kind \in ready[iovars[j].box] \ {"AO", "DO"} =>
       LET got == Vout[iovars[j].net][Place(j)]
       IN /\ got.kind = iovars[j].kind /\ got.box = iovars[j].box /\ got.got.no = iovars[j].idno
          /\ got.got.frame >= sent - MaxPosts
=============================================================================
