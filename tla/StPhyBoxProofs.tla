-------------------------- MODULE StPhyBoxProofs --------------------------
(***************************************************************************)
(* Proofs about StPhyBox, for every list of variables and every number of  *)
(* boxes, subnets, cards, steps and small steps. The inductive invariant   *)
(* Inv is a conjunction of parts: where the thread is (PcOK), which        *)
(* variables have been filed in which signals (SubnetsOK, SignalsOK), what *)
(* every output holds after the messages received so far (OutInv), what    *)
(* each box was given last (FrameInv, ShapeInv, AmplitudeInv, AngleInv),   *)
(* and how far each box has come (SamplesOK). Each part is kept by every   *)
(* step if those before it hold (one lemma a part); the lemmas on the      *)
(* operators of the classes come first in each section.                    *)
(***************************************************************************)
EXTENDS StPhyBox, SequenceTheorems, FiniteSetTheorems, WellFoundedInduction, TLAPS

(***************************************************************************)
(* The list of variables and the signals.                                  *)
(***************************************************************************)
Places == {"subnets", "vars", "init", "first", "out", "wait", "get", "decide", "recv",
           "clear", "over"}
Filing == pc.at \in {"subnets", "vars"}
Looping == pc.at \in {"out", "wait", "get", "decide"}

PcType == [at : Places, loop : {"none", "search", "hold", "simulate"},
           k : Nat, kNT : Nat, n : Nat, i : Nat]

\* The counters of the thread.
PcOK ==
  /\ pc \in PcType
  /\ Filing => pc.i \in 1 .. Len(iovars) + 1 /\ pc.n \in 1 .. Len(pcsubnet) + 1
  /\ pc.at = "subnets" => pc.n = 1
  /\ pc.at \in {"subnets", "vars", "init", "first"} => pc.loop = "none" /\ pc.k = 0
  /\ pc.at = "init" => pc.i = 1
  /\ pc.at \in {"recv", "clear"} => pc.loop = "simulate"
  /\ Looping => pc.loop # "none"
  /\ pc.at = "decide" => pc.loop # "simulate"
  /\ pc.at \in {"first", "recv"} => pc.i \in DOMAIN pcsubnet
  /\ pc.at = "wait" => pc.i \in pids
  /\ pc.kNT \in 0 .. Parts - 1
  /\ pc.at \in {"get", "decide"} /\ pc.loop # "simulate" => pc.kNT = Parts - 1
  /\ pc.at \in {"subnets", "vars", "init", "first", "recv"} => pc.kNT = 0
  /\ pc.at = "get" /\ pc.loop = "simulate" => pc.kNT = 0
  /\ ~Filing /\ pc.at \notin {"init", "over"} => pids # {}

\* The subnets are those of the list, each once.
SubnetsOK ==
  /\ pcsubnet \in Seq(Nat)
  /\ \A m, n \in DOMAIN pcsubnet : pcsubnet[m] = pcsubnet[n] => m = n
  /\ \A i \in DOMAIN iovars : (pc.at = "subnets" => i < pc.i) =>
       \E n \in DOMAIN pcsubnet : pcsubnet[n] = iovars[i].net

\* The turn of a subnet.
Turn(p) == CHOOSE n \in DOMAIN pcsubnet : pcsubnet[n] = p

\* The variables that are filed already.
Filed ==
  {i \in DOMAIN iovars :
     /\ pc.at # "subnets"
     /\ pc.at = "vars" => \/ Turn(iovars[i].net) < pc.n
                          \/ Turn(iovars[i].net) = pc.n /\ i < pc.i}

Simu == [prono : Nat, idxIO : Nat]
Signal == [idno : Nat, slot : Nat, inst : BOOLEAN, idxVal2 : Int, VSimIO : Seq(Simu)]

\* The signals of a list have different numbers; the variables of a signal are of the list
\* received, in the order of their subnets.
ListOK(list, b, k, filed) ==
  /\ list \in Seq(Signal)
  /\ \A x, y \in DOMAIN list : list[x].idno = list[y].idno => x = y
  /\ \A x \in DOMAIN list :
       /\ 1 \in DOMAIN list[x].VSimIO
       /\ \A j \in DOMAIN list[x].VSimIO :
            /\ \E i \in filed \cap Shares(b, k, list[x].idno) : list[x].VSimIO[j] = SimuVar(i)
            /\ Turn(list[x].VSimIO[1].prono) <= Turn(list[x].VSimIO[j].prono)

\* Every variable filed is in a signal.
ListHas(list, b, k, filed) ==
  \A i \in filed : iovars[i].box = b /\ iovars[i].kind = k =>
    \E x \in DOMAIN list :
      /\ list[x].idno = iovars[i].idno
      /\ k # "AI" => \E j \in DOMAIN list[x].VSimIO : list[x].VSimIO[j] = SimuVar(i)

\* The waves are numbered from 0.
WavesOK(list) ==
  /\ Instants(list) \in Nat
  /\ \A x \in DOMAIN list : IF list[x].inst THEN list[x].idxVal2 \in 0 .. Instants(list) - 1
                            ELSE list[x].idxVal2 = -1
  /\ \A x, y \in DOMAIN list : list[x].inst /\ list[y].inst /\ list[x].idxVal2 = list[y].idxVal2
                               => x = y
  /\ \A v \in 0 .. Instants(list) - 1 : \E x \in DOMAIN list : list[x].inst /\ list[x].idxVal2 = v

\* A wave is asked for by the list received.
FromTable(list, b, filed) ==
  \A x \in DOMAIN list : list[x].inst =>
    \E i \in filed \cap Shares(b, "AO", list[x].idno) : iovars[i].inst

SignalsOK ==
  /\ DOMAIN sig = Boxes
  /\ \A b \in Boxes : DOMAIN sig[b] = Kinds
  /\ \A b \in Boxes, k \in Kinds : ListOK(sig[b][k], b, k, Filed) /\ ListHas(sig[b][k], b, k, Filed)
  /\ \A b \in Boxes : WavesOK(sig[b]["AO"]) /\ FromTable(sig[b]["AO"], b, Filed)

(***************************************************************************)
(* The values.                                                             *)
(***************************************************************************)
\* The step of the last values of each subnet, 0 before the first.
Arrival ==
  [n \in DOMAIN pcsubnet |->
     CASE pc.at = "init" -> 0
       [] pc.at = "first" -> IF n < pc.i THEN 1 ELSE 0
       [] pc.at = "recv" -> IF n < pc.i THEN pc.k + 2 ELSE pc.k + 1
       [] pc.at \notin {"init", "first", "recv"} /\ pc.loop = "simulate" -> pc.k + 2
       [] pc.at \notin {"init", "first", "recv"} /\ pc.loop # "simulate" -> 1]

\* The turn of a variable of a signal.
TurnOf(signal, j) == Turn(signal.VSimIO[j].prono)

\* The sum of a signal that is no wave: what the subnets have sent since the first one.
Gathered(signal, a) ==
  IF a[TurnOf(signal, 1)] = 0 THEN {}
  ELSE {Term(signal.VSimIO[j], a[TurnOf(signal, 1)]) :
         j \in {x \in DOMAIN signal.VSimIO : a[TurnOf(signal, x)] = a[TurnOf(signal, 1)]}}

\* The amplitude of a wave.
Whole(signal) == 2 \in DOMAIN signal.VSimIO
Amplitude(signal, a) == IF Whole(signal) THEN a[TurnOf(signal, 2)] ELSE 0

Word(signal, a) ==
  IF a[TurnOf(signal, 1)] = 0 THEN Garbage ELSE Term(signal.VSimIO[1], a[TurnOf(signal, 1)])

OutOK(b) ==
  /\ out[b] = [Volt |-> out[b].Volt, Vinst |-> out[b].Vinst, data |-> out[b].data]
  /\ DOMAIN out[b].Volt = DOMAIN sig[b]["AO"]
  /\ DOMAIN out[b].Vinst = 0 .. Instants(sig[b]["AO"]) - 1
  /\ DOMAIN out[b].data = DOMAIN sig[b]["DO"]

ValuesOK(b) ==
  /\ \A i \in DOMAIN sig[b]["AO"] : ~sig[b]["AO"][i].inst => out[b].Volt[i] = Gathered(sig[b]["AO"][i], Arrival)
  /\ \A i \in DOMAIN sig[b]["DO"] : out[b].data[i] = Word(sig[b]["DO"][i], Arrival)
  /\ \A i \in DOMAIN sig[b]["AO"] : sig[b]["AO"][i].inst =>
       /\ out[b].Vinst[sig[b]["AO"][i].idxVal2].A = Amplitude(sig[b]["AO"][i], Arrival)
       /\ ~Whole(sig[b]["AO"][i]) => out[b].Vinst[sig[b]["AO"][i].idxVal2].AL = 0

OutInv == ~Filing => \A b \in Boxes : OutOK(b) /\ (pc.at # "over" => ValuesOK(b))

\* The words that a box was given last.
FrameOK(b) ==
  /\ DOMAIN frame[b].AO = DOMAIN sig[b]["AO"]
  /\ pc.at \in {"init", "first"} => frame[b].AO = AO_allocBuf(sig[b]["AO"])
  /\ pc.at = "wait" =>
       /\ "AO" \in ready[b] => frame[b].AO = out[b].Volt
       /\ "DO" \in ready[b] => frame[b].DO = out[b].data

FrameInv == \A b \in Boxes : ready[b] \subseteq Kinds /\ (~Filing => FrameOK(b))

\* A word of a wave has the four fields of WaveValue.
IsWave(w) ==
  /\ w = [last |-> w.last, new |-> w.new, part |-> w.part, angle |-> w.angle]
  /\ w.angle \in 0 .. Cycle - 1
ShapeInv == ~Filing => \A b \in Boxes : \A i \in Waves(b) : IsWave(frame[b].AO[i])

\* Has the amplitude of a wave come in the present round of messages?
New(signal) ==
  /\ Whole(signal)
  /\ \/ pc.at = "recv" /\ TurnOf(signal, 2) < pc.i
     \/ pc.at \in {"get", "out"} /\ pc.loop = "simulate" /\ pc.kNT = 0

WaveOf(b, i) == out[b].Vinst[sig[b]["AO"][i].idxVal2]

\* The waves of the frame.
AmplitudeOK(b, i) ==
  LET w == frame[b].AO[i]
      v == WaveOf(b, i)
  IN CASE pc.at = "wait" -> w.last = v.AL /\ w.new = v.A /\ w.part = pc.kNT
       [] pc.at = "out" /\ pc.kNT > 0 -> w.last = v.AL /\ w.new = v.A /\ w.part = pc.kNT - 1
       [] pc.at \in {"get", "decide"} /\ pc.loop # "simulate" ->
            w.last = v.AL /\ w.new = v.A /\ w.part = Ikt - 1
       [] pc.at = "recv" \/ (pc.at \in {"get", "out"} /\ pc.loop = "simulate" /\ pc.kNT = 0) ->
            w.new = (IF New(sig[b]["AO"][i]) THEN v.AL ELSE v.A) /\ w.part = Ikt - 1
       [] OTHER -> TRUE

AmplitudeInv == \A b \in Boxes : ~Filing => \A i \in Waves(b) : AmplitudeOK(b, i)

\* A period that is a whole number of steps, fewer than 100, or so short that a small step is
\* more than a hundredth of it.
PeriodFits == Cycle < 100 \/ (Cycle < 100 * Ikt /\ \E q \in Nat : Cycle = q * Ikt)

\* No more than a hundredth of a period.
Small(e) == 100 * e <= Cycle /\ -Cycle <= 100 * e /\ (PeriodFits => e = 0)

\* The angle of the next output, if the thread goes on at small step t, is near to the next.
Follows(angle, t) == \E e \in Int : Small(e) /\ (angle + 1 + e) % Cycle = t % Cycle

AngleOK(a) ==
  CASE pc.at = "out" /\ pc.kNT = 0 -> Follows(a, pc.k * Ikt)
    [] pc.at = "out" /\ pc.kNT > 0 -> a = (pc.k * Ikt + pc.kNT - 1) % Cycle
    [] pc.at = "wait" -> a = (pc.k * Ikt + pc.kNT) % Cycle
    [] pc.at \in {"get", "decide"} /\ pc.loop # "simulate" -> a = (pc.k * Ikt + Ikt - 1) % Cycle
    [] pc.at = "recv" \/ (pc.at = "get" /\ pc.loop = "simulate") -> Follows(a, pc.k * Ikt)
    [] OTHER -> TRUE

AngleInv == \A b \in Boxes : ~Filing => \A i \in Waves(b) : AngleOK(frame[b].AO[i].angle)

(***************************************************************************)
(* The boxes and the inputs.                                               *)
(***************************************************************************)
\* How many outputs the thread has waited for box b after.
WaitedOf(b) == IF pc.at = "wait" /\ b >= pc.i THEN sent - 1 ELSE sent

SamplesOK ==
  /\ sent \in Nat
  /\ box \in [Boxes -> [running : BOOLEAN, posts : 0 .. MaxPosts, sample : Nat]]
  /\ \A b \in Boxes : box[b].sample <= sent
  /\ pc.at \in {"subnets", "vars", "init", "first"} => sent = 0
  /\ pc.at \notin {"over"} => \A b \in pids : WaitedOf(b) + box[b].posts <= box[b].sample + MaxPosts

VoutOK ==
  ~Filing => /\ DOMAIN Vout = ToSet(pcsubnet)
             /\ \A n \in DOMAIN Vout : DOMAIN Vout[n] = 0 .. Nout(n) - 1

\* Every variable that is an input has a signal of its own: an AI of a number already met is
\* refused, a DI is not served.
OwnSignals ==
  \A t \in Tables : \A i, j \in DOMAIN t :
    t[i].kind \in {"AI", "DI"} /\ t[i].box = t[j].box /\ t[i].kind = t[j].kind /\ t[i].idno = t[j].idno
      => i = j

\* Every wave has a real and an imaginary part: AO_GetSimuVal takes over an amplitude with the
\* second variable of a signal only.
WholeWaves ==
  \A t \in Tables : \A i \in DOMAIN t :
    t[i].kind = "AO" /\ t[i].inst =>
      \E j \in DOMAIN t : j # i /\ t[j].kind = "AO" /\ t[j].box = t[i].box /\ t[j].idno = t[i].idno

Inv == iovars \in Tables /\ PcOK /\ SubnetsOK /\ SignalsOK /\ OutInv /\ FrameInv /\ ShapeInv
       /\ AmplitudeInv /\ AngleInv /\ SamplesOK /\ VoutOK
-----------------------------------------------------------------------------
(* Numbers and sets. *)

\* A set of natural numbers has a least one.
LEMMA LeastOf ==
  ASSUME NEW S \in SUBSET Nat, S # {}
  PROVE  Min(S) \in S /\ \A y \in S : Min(S) <= y
<1> DEFINE R == {p \in Nat \X Nat : p[1] < p[2]}
<1>1. IsWellFoundedOn(R, Nat)
  BY NatLessThanWellFounded DEF OpToRel
<1>2. PICK x \in S : \A y \in S : <<y, x>> \notin R
  <2> HIDE DEF R
  <2> QED BY <1>1, WFMin
<1>3. \A y \in S : x <= y
  <2> SUFFICES ASSUME NEW y \in S PROVE x <= y
    OBVIOUS
  <2>1. x \in Nat /\ y \in Nat /\ <<y, x>> \in Nat \X Nat
    OBVIOUS
  <2>2. ~(<<y, x>>[1] < <<y, x>>[2])
    BY <1>2, <2>1
  <2> QED BY <2>1, <2>2
<1>4. \E z \in S : \A y \in S : z <= y
  BY <1>3
<1> QED BY <1>4, Zenon DEF Min

\* The greatest of one number.
LEMMA OnlyOne ==
  ASSUME NEW x \in Int
  PROVE  Max({x}) = x
BY DEF Max

-----------------------------------------------------------------------------
(* The thread and the subnets. *)

\* A turn writes at least once.
LEMMA PartsPositive == Parts \in Nat /\ Parts > 0
BY StPhyBoxAssumption DEF Parts

\* Where the thread goes when a box has been waited for.
LEMMA WaitCases ==
  ASSUME PcOK, MarkInput_Wait
  PROVE  \/ Later # {} /\ pc' = [pc EXCEPT !.i = Min(Later)]
         \/ Later = {} /\ pc.kNT + 1 < Parts
            /\ pc' = [pc EXCEPT !.at = "out", !.kNT = @ + 1, !.i = 1]
         \/ Later = {} /\ pc.kNT = Parts - 1 /\ pc.loop # "simulate"
            /\ pc' = [pc EXCEPT !.at = "get", !.i = 1]
         \/ Later = {} /\ pc.kNT = Parts - 1 /\ pc.loop = "simulate"
            /\ pc' = [pc EXCEPT !.at = "recv", !.k = @ + 1, !.kNT = 0, !.i = 1]
<1> DEFINE n == Parts
<1>1. n \in Nat /\ pc.kNT \in 0 .. n - 1 /\ pc.kNT \in Nat
  BY PartsPositive DEF PcOK, PcType
<1>2. pc' = AfterWait
  BY DEF MarkInput_Wait
<1>3. CASE Later # {}
  BY <1>2, <1>3 DEF AfterWait
<1>4. CASE Later = {} /\ pc.kNT + 1 < n
  <2> HIDE DEF n
  <2>1. ~(pc.kNT + 1 >= n)
    BY <1>1, <1>4
  <2> QED BY <1>2, <1>4, <2>1 DEF AfterWait, n
<1>5. CASE Later = {} /\ ~(pc.kNT + 1 < n)
  <2> HIDE DEF n
  <2>1. pc.kNT = n - 1 /\ pc.kNT + 1 >= n
    BY <1>1, <1>5
  <2>2. CASE pc.loop = "simulate"
    BY <1>2, <1>5, <2>1, <2>2 DEF AfterWait, n
  <2>3. CASE pc.loop # "simulate"
    BY <1>2, <1>5, <2>1, <2>3 DEF AfterWait, n
  <2> QED BY <2>2, <2>3
<1> QED BY <1>3, <1>4, <1>5

\* Nothing changes the list received, and the table is fixed once it is built.
LEMMA TableFixed ==
  ASSUME PcOK, [Next]_vars
  PROVE  /\ iovars' = iovars
         /\ ~Filing => ~Filing' /\ UNCHANGED table
<1>1. CASE RecvSendPhyIO
  BY <1>1 DEF RecvSendPhyIO, CollectSubnets, AddVar, SubnetDone, AllocBuf, Filing, table
<1>2. CASE InitBoxes
  BY <1>2 DEF InitBoxes, Filing, table, PcOK, PcType
<1>3. CASE RTSTPhySim
  <2>1. CASE RecvFirst
    BY <2>1 DEF RecvFirst, Over, Begin, Filing, table, PcOK, PcType
  <2>2. CASE Output
    BY <2>2 DEF Output, Filing, table, PcOK, PcType
  <2>3. CASE MarkInput_Wait
    BY <2>3, WaitCases DEF MarkInput_Wait, Filing, table, PcOK, PcType
  <2>4. CASE GetData
    BY <2>4 DEF GetData, Filing, table, PcOK, PcType
  <2>5. CASE SearchTurn
    BY <2>5 DEF SearchTurn, Begin, Over, Again, Filing, table, PcOK, PcType
  <2>6. CASE HoldTurn
    BY <2>6 DEF HoldTurn, Again, Filing, table, PcOK, PcType
  <2>7. CASE RecvStep
    BY <2>7 DEF RecvStep, Filing, table, PcOK, PcType
  <2>8. CASE EndSimulating
    BY <2>8 DEF EndSimulating, Over, Filing, table, PcOK, PcType
  <2> QED BY <1>3, <2>1, <2>2, <2>3, <2>4, <2>5, <2>6, <2>7, <2>8 DEF RTSTPhySim
<1>4. CASE \E b \in Boxes : Tick(b)
  BY <1>4 DEF Tick, Filing, table
<1>5. CASE UNCHANGED vars
  BY <1>5 DEF vars, Filing, table
<1> QED BY <1>1, <1>2, <1>3, <1>4, <1>5 DEF Next

\* At its turn a subnet is what it is.
LEMMA TurnFacts ==
  ASSUME SubnetsOK
  PROVE  /\ \A n \in DOMAIN pcsubnet : Turn(pcsubnet[n]) = n
         /\ \A i \in DOMAIN iovars : pc.at # "subnets" =>
              /\ Turn(iovars[i].net) \in DOMAIN pcsubnet
              /\ pcsubnet[Turn(iovars[i].net)] = iovars[i].net
<1>1. \A p : (\E n \in DOMAIN pcsubnet : pcsubnet[n] = p) =>
              Turn(p) \in DOMAIN pcsubnet /\ pcsubnet[Turn(p)] = p
  BY Zenon DEF Turn
<1>2. ASSUME NEW n \in DOMAIN pcsubnet PROVE Turn(pcsubnet[n]) = n
  BY <1>1, Zenon DEF SubnetsOK
<1>3. ASSUME NEW i \in DOMAIN iovars, pc.at # "subnets"
      PROVE  \E n \in DOMAIN pcsubnet : pcsubnet[n] = iovars[i].net
  BY <1>3 DEF SubnetsOK
<1> QED BY <1>1, <1>2, <1>3

\* The list received is one of variables.
LEMMA ListTyped ==
  ASSUME iovars \in Tables
  PROVE  /\ iovars \in Seq(IOVars)
         /\ DOMAIN iovars = 1 .. Len(iovars) /\ Len(iovars) \in Nat
         /\ \A i \in DOMAIN iovars : iovars[i] \in IOVars
<1>1. iovars \in Seq(IOVars)
  BY StPhyBoxAssumption
<1> QED BY <1>1

\* Every step keeps the list of subnets right.
LEMMA SubnetsStep ==
  ASSUME iovars \in Tables, PcOK, SubnetsOK, [Next]_vars
  PROVE  SubnetsOK'
<1>1. CASE CollectSubnets
  <2>1. iovars' = iovars /\ DOMAIN iovars = 1 .. Len(iovars) /\ Len(iovars) \in Nat
        /\ pc.i \in 1 .. Len(iovars) + 1 /\ \A i \in DOMAIN iovars : iovars[i].net \in Nat
    BY <1>1, ListTyped DEF CollectSubnets, PcOK, PcType, Filing, IOVars
  <2>2. CASE pc.i <= Len(iovars) /\ Contains(pcsubnet, iovars[pc.i].net)
    <3>1. pcsubnet' = pcsubnet /\ pc' = [pc EXCEPT !.i = @ + 1] /\ pc.at = "subnets"
      BY <1>1, <2>2 DEF CollectSubnets
    <3>2. \E n \in DOMAIN pcsubnet : pcsubnet[n] = iovars[pc.i].net
      BY <2>2 DEF Contains, SubnetsOK
    <3>3. pc'.i = pc.i + 1 /\ pc'.at = "subnets"
      BY <3>1 DEF PcOK, PcType
    <3>4. ASSUME NEW i \in DOMAIN iovars, i < pc.i + 1
          PROVE  \E n \in DOMAIN pcsubnet : pcsubnet[n] = iovars[i].net
      <4>1. CASE i = pc.i
        BY <3>2, <4>1
      <4>2. CASE i < pc.i
        BY <3>1, <4>2 DEF SubnetsOK
      <4> QED BY <2>1, <3>4, <4>1, <4>2
    <3> QED BY <2>1, <3>1, <3>3, <3>4 DEF SubnetsOK
  <2>3. CASE pc.i <= Len(iovars) /\ ~Contains(pcsubnet, iovars[pc.i].net)
    <3> DEFINE p == iovars[pc.i].net
    <3>1. pcsubnet' = Append(pcsubnet, p) /\ pc'.i = pc.i + 1 /\ pc'.at = "subnets" /\ pc.at = "subnets"
      BY <1>1, <2>3 DEF CollectSubnets, PcOK, PcType
    <3>2. pcsubnet \in Seq(Nat) /\ p \in Nat
      BY <2>1, <2>3 DEF SubnetsOK
    <3>3. \A n \in DOMAIN pcsubnet : pcsubnet[n] # p
      BY <2>3, <3>2 DEF Contains
    <3> HIDE DEF p
    <3>4. /\ pcsubnet' \in Seq(Nat) /\ DOMAIN pcsubnet' = 1 .. Len(pcsubnet) + 1
          /\ DOMAIN pcsubnet = 1 .. Len(pcsubnet) /\ Len(pcsubnet) \in Nat
          /\ \A n \in DOMAIN pcsubnet : pcsubnet'[n] = pcsubnet[n]
          /\ pcsubnet'[Len(pcsubnet) + 1] = p
      BY <3>1, <3>2
    <3>5. \A m, n \in DOMAIN pcsubnet' : pcsubnet'[m] = pcsubnet'[n] => m = n
      BY <3>3, <3>4 DEF SubnetsOK
    <3>6. ASSUME NEW i \in DOMAIN iovars, i < pc.i + 1
          PROVE  \E n \in DOMAIN pcsubnet' : pcsubnet'[n] = iovars[i].net
      <4>1. CASE i = pc.i
        BY <3>4, <4>1 DEF p
      <4>2. CASE i < pc.i
        <5>1. PICK n \in DOMAIN pcsubnet : pcsubnet[n] = iovars[i].net
          BY <3>1, <4>2 DEF SubnetsOK
        <5> QED BY <3>4, <5>1
      <4> QED BY <2>1, <3>6, <4>1, <4>2
    <3> QED BY <2>1, <3>1, <3>4, <3>5, <3>6 DEF SubnetsOK
  <2>4. CASE ~(pc.i <= Len(iovars))
    BY <1>1, <2>1, <2>4 DEF CollectSubnets, SubnetsOK
  <2> QED BY <2>2, <2>3, <2>4
<1>2. CASE AddVar \/ SubnetDone \/ AllocBuf
  <2>1. pcsubnet' = pcsubnet /\ pc.at # "subnets"
    BY <1>2 DEF AddVar, SubnetDone, AllocBuf, table
  <2>2. iovars' = iovars
    BY TableFixed
  <2> QED BY <2>1, <2>2 DEF SubnetsOK
<1>3. CASE ~Filing
  BY <1>3, TableFixed DEF SubnetsOK, Filing, table
<1>4. CASE UNCHANGED vars \/ \E b \in Boxes : Tick(b)
  BY <1>4 DEF vars, Tick, table, SubnetsOK
<1>5. CASE InitBoxes \/ RTSTPhySim
  BY <1>3, <1>5 DEF InitBoxes, RTSTPhySim, RecvFirst, Output, MarkInput_Wait, GetData, SearchTurn,
     HoldTurn, RecvStep, EndSimulating, Filing
<1> QED BY <1>1, <1>2, <1>4, <1>5 DEF Next, RecvSendPhyIO

-----------------------------------------------------------------------------
(* The signals. *)

\* The place of a variable is a number, and variables of one subnet that go the same way
\* have different places.
LEMMA PlaceFacts ==
  ASSUME iovars \in Tables
  PROVE  /\ \A i \in DOMAIN iovars : Place(i) \in Nat
         /\ \A i, j \in DOMAIN iovars :
              /\ i < j /\ iovars[i].net = iovars[j].net
              /\ ToBox(iovars[i].kind) = ToBox(iovars[j].kind)
              => Place(i) < Place(j)
<1> DEFINE Before(i) == {j \in 1 .. i - 1 : iovars[j].net = iovars[i].net
                                  /\ ToBox(iovars[j].kind) = ToBox(iovars[i].kind)}
<1>0. DOMAIN iovars \subseteq Nat
  BY ListTyped
<1>1. ASSUME NEW i \in DOMAIN iovars
      PROVE  IsFiniteSet(Before(i)) /\ Cardinality(Before(i)) \in Nat
  <2>1. IsFiniteSet(1 .. i - 1)
    BY <1>0, FS_Interval
  <2>2. Before(i) \in SUBSET (1 .. i - 1)
    OBVIOUS
  <2> HIDE DEF Before
  <2>3. IsFiniteSet(Before(i))
    BY <2>1, <2>2, FS_Subset
  <2> QED BY <2>3, FS_CardinalityType
<1>2. ASSUME NEW i \in DOMAIN iovars, NEW j \in DOMAIN iovars, i < j,
             iovars[i].net = iovars[j].net, ToBox(iovars[i].kind) = ToBox(iovars[j].kind)
      PROVE  Cardinality(Before(i)) < Cardinality(Before(j))
  <2>1. i \in Before(j) /\ i \notin Before(i) /\ Before(i) \subseteq Before(j)
    BY <1>0, <1>2, ListTyped
  <2> HIDE DEF Before
  <2>2. /\ Cardinality(Before(i)) \in Nat /\ Cardinality(Before(j)) \in Nat
        /\ Cardinality(Before(i)) <= Cardinality(Before(j))
        /\ Cardinality(Before(j)) = Cardinality(Before(i)) => Before(j) = Before(i)
    BY <1>1, <2>1, FS_Subset
  <2> QED BY <2>1, <2>2
<1>3. \A i : Place(i) = Cardinality(Before(i))
  BY DEF Place
<1> QED BY <1>1, <1>2, <1>3

\* What a signal keeps of a variable.
LEMMA SimuVarTyped ==
  ASSUME iovars \in Tables, NEW i \in DOMAIN iovars
  PROVE  SimuVar(i) \in Simu
<1>1. Place(i) \in Nat /\ iovars[i] \in IOVars
  BY PlaceFacts, ListTyped
<1> QED BY <1>1 DEF SimuVar, Simu, IOVars

\* Another variable of a signal changes nothing but its list of variables.
LEMMA AnotherFacts ==
  ASSUME iovars \in Tables, NEW i \in DOMAIN iovars, NEW list \in Seq(Signal)
  PROVE  /\ Another(list, i) \in Seq(Signal)
         /\ DOMAIN Another(list, i) = DOMAIN list
         /\ \A x \in DOMAIN list :
              /\ Another(list, i)[x].idno = list[x].idno
              /\ Another(list, i)[x].inst = list[x].inst
              /\ Another(list, i)[x].idxVal2 = list[x].idxVal2
              /\ Another(list, i)[x].VSimIO = IF list[x].idno = iovars[i].idno
                                              THEN Append(list[x].VSimIO, SimuVar(i))
                                              ELSE list[x].VSimIO
<1>1. \A x \in DOMAIN list : list[x] \in Signal
  OBVIOUS
<1>2. ASSUME NEW x \in DOMAIN list
      PROVE  /\ Another(list, i)[x] = IF list[x].idno = iovars[i].idno
                                      THEN [list[x] EXCEPT !.VSimIO = Append(@, SimuVar(i))]
                                      ELSE list[x]
             /\ Another(list, i)[x] \in Signal
  <2>1. Another(list, i)[x] = IF list[x].idno = iovars[i].idno
                              THEN [list[x] EXCEPT !.VSimIO = Append(@, SimuVar(i))]
                              ELSE list[x]
    BY DEF Another, Same
  <2>2. list[x].VSimIO \in Seq(Simu) /\ SimuVar(i) \in Simu
    BY <1>1, SimuVarTyped DEF Signal
  <2>3. Append(list[x].VSimIO, SimuVar(i)) \in Seq(Simu)
    BY <2>2
  <2>4. [list[x] EXCEPT !.VSimIO = Append(@, SimuVar(i))] \in Signal
    BY <1>1, <2>3 DEF Signal
  <2> QED BY <1>1, <2>1, <2>4
<1>3. Another(list, i) = [x \in 1 .. Len(list) |-> Another(list, i)[x]]
  BY DEF Another
<1>4. Another(list, i) \in Seq(Signal)
  <2> DEFINE A == Another(list, i)
  <2>0. DOMAIN list = 1 .. Len(list)
    OBVIOUS
  <2>4. \A x \in DOMAIN list : A[x] \in Signal
    BY <1>2, Zenon
  <2>1. A = [x \in 1 .. Len(list) |-> A[x]]
    BY <1>3
  <2> HIDE DEF A
  <2>2. A \in [1 .. Len(list) -> Signal] /\ Len(list) \in Nat
    BY <2>0, <2>1, <2>4
  <2>3. A \in Seq(Signal)
    BY <2>2
  <2> QED BY <2>3 DEF A
<1>5. DOMAIN Another(list, i) = DOMAIN list
  BY DEF Another
<1>6. ASSUME NEW x \in DOMAIN list
      PROVE  /\ Another(list, i)[x].idno = list[x].idno
             /\ Another(list, i)[x].inst = list[x].inst
             /\ Another(list, i)[x].idxVal2 = list[x].idxVal2
             /\ Another(list, i)[x].VSimIO = IF list[x].idno = iovars[i].idno
                                             THEN Append(list[x].VSimIO, SimuVar(i))
                                             ELSE list[x].VSimIO
  BY <1>1, <1>2 DEF Signal
<1> QED BY <1>4, <1>5, <1>6

\* Waves stay numbered when no signal is added ...
LEMMA WavesSame ==
  ASSUME NEW list, NEW other, WavesOK(list), DOMAIN other = DOMAIN list,
         \A x \in DOMAIN list : other[x].inst = list[x].inst /\ other[x].idxVal2 = list[x].idxVal2
  PROVE  WavesOK(other) /\ Instants(other) = Instants(list)
<1>1. {x \in DOMAIN other : other[x].inst} = {x \in DOMAIN list : list[x].inst}
  OBVIOUS
<1>2. Instants(other) = Instants(list)
  BY <1>1 DEF Instants
<1> QED BY <1>2 DEF WavesOK

\* A list has a number of waves.
LEMMA InstantsFinite ==
  ASSUME NEW list \in Seq(Signal)
  PROVE  IsFiniteSet({x \in DOMAIN list : list[x].inst}) /\ Instants(list) \in Nat
<1>1. DOMAIN list = 1 .. Len(list) /\ Len(list) \in Nat
  OBVIOUS
<1>2. IsFiniteSet(DOMAIN list)
  BY <1>1, FS_Interval
<1> DEFINE S == {x \in DOMAIN list : list[x].inst}
<1>3. S \in SUBSET DOMAIN list
  OBVIOUS
<1>4. Instants(list) = Cardinality(S)
  BY DEF Instants
<1> HIDE DEF S
<1>5. IsFiniteSet(S)
  BY <1>2, <1>3, FS_Subset
<1> QED BY <1>4, <1>5, FS_CardinalityType DEF S

\* ... and when a wave is added with the next number.
LEMMA WavesAppend ==
  ASSUME NEW list \in Seq(Signal), WavesOK(list), NEW s \in Signal,
         s.idxVal2 = IF s.inst THEN Instants(list) ELSE -1
  PROVE  WavesOK(Append(list, s))
<1> DEFINE more == Append(list, s)
<1> DEFINE n == Instants(list)
<1> DEFINE S == {x \in DOMAIN list : list[x].inst}
<1>1. /\ DOMAIN list = 1 .. Len(list) /\ Len(list) \in Nat
      /\ DOMAIN more = 1 .. Len(list) + 1
      /\ \A x \in DOMAIN list : more[x] = list[x]
      /\ more[Len(list) + 1] = s
      /\ \A x \in DOMAIN list : list[x] \in Signal
  OBVIOUS
<1> HIDE DEF more
<1>2. {x \in DOMAIN more : more[x].inst} = IF s.inst THEN S \cup {Len(list) + 1} ELSE S
  <2>1. s.inst \in BOOLEAN
    BY DEF Signal
  <2>2. DOMAIN more = DOMAIN list \cup {Len(list) + 1} /\ Len(list) + 1 \notin DOMAIN list
    BY <1>1
  <2>3. \A x \in DOMAIN list : more[x].inst = list[x].inst
    BY <1>1
  <2> QED BY <1>1, <2>1, <2>2, <2>3, Zenon
<1>3. n \in Nat /\ n = Cardinality(S) /\ IsFiniteSet(S)
  BY InstantsFinite DEF Instants
<1>4. Len(list) + 1 \notin S
  BY <1>1
<1> HIDE DEF S
<1>5. Instants(more) = IF s.inst THEN n + 1 ELSE n
  <2>1. Cardinality(S \cup {Len(list) + 1}) = n + 1
    BY <1>3, <1>4, FS_AddElement
  <2>2. Instants(more) = Cardinality({x \in DOMAIN more : more[x].inst})
    BY DEF Instants
  <2> QED BY <1>2, <1>3, <2>1, <2>2, Zenon
<1> HIDE DEF n
<1>6. /\ \A x \in DOMAIN list : IF list[x].inst THEN list[x].idxVal2 \in 0 .. n - 1
                                ELSE list[x].idxVal2 = -1
      /\ \A x, y \in DOMAIN list : list[x].inst /\ list[y].inst /\ list[x].idxVal2 = list[y].idxVal2
                                   => x = y
      /\ \A v \in 0 .. n - 1 : \E x \in DOMAIN list : list[x].inst /\ list[x].idxVal2 = v
  BY DEF WavesOK, n
<1>7. s.idxVal2 = IF s.inst THEN n ELSE -1
  BY DEF n
<1>8. ASSUME NEW x \in DOMAIN more
      PROVE  IF more[x].inst THEN more[x].idxVal2 \in 0 .. Instants(more) - 1
             ELSE more[x].idxVal2 = -1
  <2>1. CASE x = Len(list) + 1
    BY <1>1, <1>3, <1>5, <1>7, <2>1
  <2>2. CASE x \in DOMAIN list
    BY <1>1, <1>3, <1>5, <1>6, <2>2
  <2> QED BY <1>1, <2>1, <2>2
<1>9. ASSUME NEW x \in DOMAIN more, NEW y \in DOMAIN more, more[x].inst, more[y].inst,
             more[x].idxVal2 = more[y].idxVal2
      PROVE  x = y
  <2>1. CASE x \in DOMAIN list /\ y \in DOMAIN list
    BY <1>1, <1>6, <1>9, <2>1
  <2>2. CASE x = Len(list) + 1 /\ y \in DOMAIN list
    BY <1>1, <1>3, <1>6, <1>7, <1>9, <2>2
  <2>3. CASE x \in DOMAIN list /\ y = Len(list) + 1
    BY <1>1, <1>3, <1>6, <1>7, <1>9, <2>3
  <2> QED BY <1>1, <2>1, <2>2, <2>3
<1>10. ASSUME NEW v \in 0 .. Instants(more) - 1
       PROVE  \E x \in DOMAIN more : more[x].inst /\ more[x].idxVal2 = v
  <2>1. CASE v \in 0 .. n - 1
    BY <1>1, <1>6, <2>1
  <2>2. CASE v \notin 0 .. n - 1
    <3>1. s.inst /\ v = n
      BY <1>3, <1>5, <2>2
    <3> QED BY <1>1, <1>7, <3>1
  <2> QED BY <2>1, <2>2
<1>11. Instants(more) \in Nat
  BY <1>3, <1>5
<1>12. WavesOK(more)
  BY <1>8, <1>9, <1>10, <1>11, Zenon DEF WavesOK
<1> QED BY <1>12 DEF more

\* A list stays right when variables of other lists are filed.
LEMMA ListKept ==
  ASSUME NEW list, NEW b, NEW k, NEW filed, NEW more, filed \subseteq more,
         ListOK(list, b, k, filed), ListHas(list, b, k, filed),
         \A i \in more \ filed : iovars[i].box # b \/ iovars[i].kind # k
  PROVE  ListOK(list, b, k, more) /\ ListHas(list, b, k, more)
BY DEF ListOK, ListHas

\* A variable is filed in its list: in the signal of its number if there is one ...
LEMMA ListJoined ==
  ASSUME iovars \in Tables, NEW i \in DOMAIN iovars, NEW list, NEW b, NEW k, NEW filed,
         filed \subseteq DOMAIN iovars, pcsubnet \in Seq(Nat),
         iovars[i].box = b, iovars[i].kind = k,
         \A j \in filed \cup {i} : Turn(iovars[j].net) \in DOMAIN pcsubnet,
         \A j \in filed : Turn(iovars[j].net) <= Turn(iovars[i].net),
         ListOK(list, b, k, filed), ListHas(list, b, k, filed), Same(list, i) # {}
  PROVE  /\ ListOK(Another(list, i), b, k, filed \cup {i})
         /\ ListHas(Another(list, i), b, k, filed \cup {i})
         /\ k = "AI" => ListOK(list, b, k, filed \cup {i}) /\ ListHas(list, b, k, filed \cup {i})
<1> DEFINE more == Another(list, i)
<1>0. list \in Seq(Signal)
  BY DEF ListOK
<1>1. /\ more \in Seq(Signal) /\ DOMAIN more = DOMAIN list
      /\ \A x \in DOMAIN list :
           /\ more[x].idno = list[x].idno
           /\ more[x].VSimIO = IF list[x].idno = iovars[i].idno
                               THEN Append(list[x].VSimIO, SimuVar(i)) ELSE list[x].VSimIO
  BY <1>0, AnotherFacts
<1> HIDE DEF more
<1>2. \A x \in DOMAIN list : list[x].VSimIO \in Seq(Simu)
  <2>1. \A x \in DOMAIN list : list[x] \in Signal
    BY <1>0
  <2> QED BY <2>1 DEF Signal
<1>3. PICK y \in DOMAIN list : list[y].idno = iovars[i].idno
  BY DEF Same
<1>4. \A x, z \in DOMAIN list : list[x].idno = list[z].idno => x = z
  BY DEF ListOK
<1>5. SimuVar(i).prono = iovars[i].net /\ i \in Shares(b, k, iovars[i].idno) /\ SimuVar(i) \in Simu
  BY SimuVarTyped DEF SimuVar, Shares
<1>6. ASSUME NEW x \in DOMAIN list, list[x].idno = iovars[i].idno
      PROVE  LET v == more[x].VSimIO
                 w == list[x].VSimIO
             IN /\ DOMAIN w = 1 .. Len(w) /\ DOMAIN v = 1 .. Len(w) + 1 /\ Len(w) \in Nat
                /\ \A j \in DOMAIN w : v[j] = w[j]
                /\ v[Len(w) + 1] = SimuVar(i)
  <2> DEFINE w == list[x].VSimIO
  <2>1. w \in Seq(Simu) /\ more[x].VSimIO = Append(w, SimuVar(i))
    BY <1>1, <1>2, <1>6
  <2> HIDE DEF w
  <2>2. LET v == more[x].VSimIO
        IN /\ DOMAIN w = 1 .. Len(w) /\ DOMAIN v = 1 .. Len(w) + 1 /\ Len(w) \in Nat
           /\ \A j \in DOMAIN w : v[j] = w[j]
           /\ v[Len(w) + 1] = SimuVar(i)
    BY <1>5, <2>1
  <2> QED BY <2>2 DEF w
<1>7. \A x \in DOMAIN list : 1 \in DOMAIN list[x].VSimIO
  BY DEF ListOK
<1>8. \A x \in DOMAIN list : \A j \in DOMAIN list[x].VSimIO :
        /\ \E h \in filed \cap Shares(b, k, list[x].idno) : list[x].VSimIO[j] = SimuVar(h)
        /\ Turn(list[x].VSimIO[1].prono) <= Turn(list[x].VSimIO[j].prono)
  BY DEF ListOK
<1>9. ASSUME NEW x \in DOMAIN more, NEW j \in DOMAIN more[x].VSimIO
      PROVE  /\ 1 \in DOMAIN more[x].VSimIO
             /\ \E h \in (filed \cup {i}) \cap Shares(b, k, more[x].idno) : more[x].VSimIO[j] = SimuVar(h)
             /\ Turn(more[x].VSimIO[1].prono) <= Turn(more[x].VSimIO[j].prono)
  <2>1. CASE list[x].idno # iovars[i].idno
    BY <1>1, <1>7, <1>8, <2>1
  <2>2. CASE list[x].idno = iovars[i].idno
    <3> DEFINE v == more[x].VSimIO
    <3> DEFINE w == list[x].VSimIO
    <3>1. /\ DOMAIN w = 1 .. Len(w) /\ DOMAIN v = 1 .. Len(w) + 1 /\ Len(w) \in Nat
          /\ \A l \in DOMAIN w : v[l] = w[l]
          /\ v[Len(w) + 1] = SimuVar(i)
      BY <1>1, <1>6, <2>2
    <3>2. 1 \in DOMAIN w /\ v[1] = w[1] /\ more[x].idno = list[x].idno
      BY <1>1, <1>7, <3>1
    <3>3. CASE j \in DOMAIN w
      <4>1. v[j] = w[j] /\ v[1] = w[1] /\ more[x].idno = list[x].idno /\ x \in DOMAIN list
        BY <1>1, <3>1, <3>2, <3>3
      <4>2. /\ \E h \in filed \cap Shares(b, k, list[x].idno) : w[j] = SimuVar(h)
            /\ Turn(w[1].prono) <= Turn(w[j].prono)
        BY <1>8, <3>3, <4>1
      <4> HIDE DEF v, w
      <4>3. \E h \in (filed \cup {i}) \cap Shares(b, k, more[x].idno) : v[j] = SimuVar(h)
        BY <4>1, <4>2
      <4>4. Turn(v[1].prono) <= Turn(v[j].prono)
        BY <4>1, <4>2
      <4>5. 1 \in DOMAIN v
        BY <3>1
      <4> QED BY <4>3, <4>4, <4>5 DEF v
    <3>4. CASE j = Len(w) + 1
      <4>1. v[j] = SimuVar(i) /\ i \in (filed \cup {i}) \cap Shares(b, k, more[x].idno)
        BY <1>5, <2>2, <3>1, <3>2, <3>4
      <4>2. PICK h \in filed : w[1] = SimuVar(h)
        BY <1>1, <1>8, <3>2
      <4>3. Turn(w[1].prono) <= Turn(iovars[i].net)
        BY <4>2 DEF SimuVar
      <4> QED BY <1>5, <3>1, <3>2, <4>1, <4>3
    <3> HIDE DEF v, w
    <3>5. j \in DOMAIN w \/ j = Len(w) + 1
      BY <3>1 DEF v
    <3> QED BY <3>3, <3>4, <3>5
  <2> QED BY <2>1, <2>2
<1>10. \A x, z \in DOMAIN more : more[x].idno = more[z].idno => x = z
  BY <1>1, <1>4
<1>11. ASSUME NEW x \in DOMAIN more PROVE 1 \in DOMAIN more[x].VSimIO
  BY <1>1, <1>6, <1>7
<1>12. ListOK(more, b, k, filed \cup {i})
  BY <1>1, <1>9, <1>10, <1>11 DEF ListOK
<1>13. ASSUME NEW h \in filed \cup {i}, iovars[h].box = b, iovars[h].kind = k
       PROVE  \E x \in DOMAIN more :
                /\ more[x].idno = iovars[h].idno
                /\ k # "AI" => \E j \in DOMAIN more[x].VSimIO : more[x].VSimIO[j] = SimuVar(h)
  <2>1. CASE h = i
    <3>1. more[y].idno = iovars[i].idno /\ y \in DOMAIN more
      BY <1>1, <1>3
    <3>2. Len(list[y].VSimIO) + 1 \in DOMAIN more[y].VSimIO
          /\ more[y].VSimIO[Len(list[y].VSimIO) + 1] = SimuVar(i)
      BY <1>3, <1>6
    <3> QED BY <2>1, <3>1, <3>2
  <2>2. CASE h \in filed
    <3>1. PICK x \in DOMAIN list :
            /\ list[x].idno = iovars[h].idno
            /\ k # "AI" => \E j \in DOMAIN list[x].VSimIO : list[x].VSimIO[j] = SimuVar(h)
      BY <1>13, <2>2 DEF ListHas
    <3>2. CASE list[x].idno # iovars[i].idno
      BY <1>1, <3>1, <3>2
    <3>3. CASE list[x].idno = iovars[i].idno
      <4>1. \A j \in DOMAIN list[x].VSimIO : j \in DOMAIN more[x].VSimIO
                                            /\ more[x].VSimIO[j] = list[x].VSimIO[j]
        BY <1>6, <3>3
      <4> QED BY <1>1, <3>1, <4>1
    <3> QED BY <3>2, <3>3
  <2> QED BY <2>1, <2>2
<1>14. ListHas(more, b, k, filed \cup {i})
  BY <1>13 DEF ListHas
<1>15. ASSUME k = "AI"
       PROVE  ListOK(list, b, k, filed \cup {i}) /\ ListHas(list, b, k, filed \cup {i})
  BY <1>3, <1>15 DEF ListOK, ListHas
<1> QED BY <1>12, <1>14, <1>15 DEF more

\* ... and in a new one if there is none.
LEMMA ListAppended ==
  ASSUME iovars \in Tables, NEW i \in DOMAIN iovars, NEW list, NEW b, NEW k, NEW filed,
         pcsubnet \in Seq(Nat), Turn(iovars[i].net) \in DOMAIN pcsubnet,
         iovars[i].box = b, iovars[i].kind = k,
         ListOK(list, b, k, filed), ListHas(list, b, k, filed), Same(list, i) = {},
         NEW s \in Signal, s.idno = iovars[i].idno, s.VSimIO = <<SimuVar(i)>>
  PROVE  /\ ListOK(Append(list, s), b, k, filed \cup {i})
         /\ ListHas(Append(list, s), b, k, filed \cup {i})
<1> DEFINE more == Append(list, s)
<1>0. list \in Seq(Signal)
  BY DEF ListOK
<1>1. /\ DOMAIN list = 1 .. Len(list) /\ Len(list) \in Nat
      /\ DOMAIN more = 1 .. Len(list) + 1 /\ more \in Seq(Signal)
      /\ \A x \in DOMAIN list : more[x] = list[x]
      /\ more[Len(list) + 1] = s
  BY <1>0
<1> HIDE DEF more
<1>2. \A x \in DOMAIN list : list[x].idno # iovars[i].idno
  BY DEF Same
<1>3. DOMAIN s.VSimIO = {1} /\ s.VSimIO[1] = SimuVar(i) /\ SimuVar(i).prono = iovars[i].net
  BY DEF SimuVar
<1>4. Turn(iovars[i].net) \in Nat /\ i \in Shares(b, k, iovars[i].idno)
  BY DEF Shares
<1>5. \A x, z \in DOMAIN more : more[x].idno = more[z].idno => x = z
  BY <1>1, <1>2 DEF ListOK
<1>6. ASSUME NEW x \in DOMAIN more
      PROVE  /\ 1 \in DOMAIN more[x].VSimIO
             /\ \A j \in DOMAIN more[x].VSimIO :
                  /\ \E h \in (filed \cup {i}) \cap Shares(b, k, more[x].idno) :
                       more[x].VSimIO[j] = SimuVar(h)
                  /\ Turn(more[x].VSimIO[1].prono) <= Turn(more[x].VSimIO[j].prono)
  <2>1. CASE x \in DOMAIN list
    BY <1>1, <2>1 DEF ListOK
  <2>2. CASE x = Len(list) + 1
    BY <1>1, <1>3, <1>4, <2>2
  <2> QED BY <1>1, <2>1, <2>2
<1>7. ListOK(more, b, k, filed \cup {i})
  BY <1>1, <1>5, <1>6 DEF ListOK
<1>8. ASSUME NEW h \in filed \cup {i}, iovars[h].box = b, iovars[h].kind = k
      PROVE  \E x \in DOMAIN more :
               /\ more[x].idno = iovars[h].idno
               /\ k # "AI" => \E j \in DOMAIN more[x].VSimIO : more[x].VSimIO[j] = SimuVar(h)
  <2>1. CASE h = i
    <3>1. Len(list) + 1 \in DOMAIN more /\ more[Len(list) + 1] = s
      BY <1>1
    <3>2. s.idno = iovars[h].idno /\ 1 \in DOMAIN s.VSimIO /\ s.VSimIO[1] = SimuVar(h)
      BY <1>3, <2>1
    <3> QED BY <3>1, <3>2
  <2>2. CASE h \in filed
    <3>1. PICK x \in DOMAIN list :
            /\ list[x].idno = iovars[h].idno
            /\ k # "AI" => \E j \in DOMAIN list[x].VSimIO : list[x].VSimIO[j] = SimuVar(h)
      BY <1>8, <2>2 DEF ListHas
    <3>2. x \in DOMAIN more /\ more[x] = list[x]
      BY <1>1
    <3> QED BY <3>1, <3>2
  <2> QED BY <2>1, <2>2
<1>9. ListHas(more, b, k, filed \cup {i})
  BY <1>8 DEF ListHas
<1> QED BY <1>7, <1>9 DEF more

\* What a step files: the variable that is added, if it is of the subnet whose turn it is.
LEMMA FiledStep ==
  ASSUME iovars \in Tables, PcOK, SubnetsOK, [Next]_vars
  PROVE  /\ CollectSubnets => Filed = {} /\ Filed' = {}
         /\ AddVar => /\ pc.i \in DOMAIN iovars
                      /\ Filed' = IF OfSubnet(iovars[pc.i]) THEN Filed \cup {pc.i} ELSE Filed
                      /\ \A j \in Filed : Turn(iovars[j].net) <= pc.n
                      /\ OfSubnet(iovars[pc.i]) => Turn(iovars[pc.i].net) = pc.n
         /\ ~CollectSubnets /\ ~AddVar => Filed' = Filed /\ pcsubnet' = pcsubnet /\ sig' = sig
<1>0. DOMAIN iovars = 1 .. Len(iovars) /\ Len(iovars) \in Nat /\ iovars' = iovars
  BY ListTyped, TableFixed
<1>1. SubnetsOK'
  BY SubnetsStep
<1>2. \A j \in DOMAIN iovars : pc.at # "subnets" => Turn(iovars[j].net) \in Nat \ {0}
  <2>1. DOMAIN pcsubnet \subseteq Nat \ {0}
    BY DEF SubnetsOK
  <2> QED BY <2>1, TurnFacts
<1>3. \A p : pcsubnet' = pcsubnet => Turn(p)' = Turn(p)
  BY DEF Turn
<1>4. ASSUME CollectSubnets PROVE Filed = {} /\ Filed' = {}
  <2>1. pc.at = "subnets"
    BY <1>4 DEF CollectSubnets
  <2>2. Filed = {}
    BY <2>1 DEF Filed
  <2>3. CASE pc'.at = "subnets"
    BY <2>2, <2>3 DEF Filed
  <2>4. CASE pc'.at # "subnets"
    <3>1. pc'.at = "vars" /\ pc'.i = 1 /\ pc'.n = 1
      BY <1>4, <2>4, <2>1 DEF CollectSubnets, PcOK, PcType
    <3>2. ASSUME NEW j \in DOMAIN iovars PROVE Turn(iovars[j].net)' \in Nat \ {0}
      <4>1. /\ \A m, n \in DOMAIN pcsubnet' : pcsubnet'[m] = pcsubnet'[n] => m = n
            /\ \E n \in DOMAIN pcsubnet' : pcsubnet'[n] = iovars[j].net
            /\ pcsubnet' \in Seq(Nat)
        BY <1>0, <1>1, <3>1 DEF SubnetsOK
      <4>3. DOMAIN pcsubnet' \subseteq Nat \ {0}
        BY <4>1
      <4>2. Turn(iovars[j].net)' \in DOMAIN pcsubnet'
        BY <1>0, <4>1, Zenon DEF Turn
      <4> QED BY <4>2, <4>3
    <3>3. ASSUME NEW j \in Filed' PROVE FALSE
      <4>1. j \in DOMAIN iovars
        BY <1>0, <3>3 DEF Filed
      <4>2. Turn(iovars[j].net)' < 1 \/ (Turn(iovars[j].net)' = 1 /\ j < 1)
        BY <1>0, <3>1, <3>3, Zenon DEF Filed
      <4>3. Turn(iovars[j].net)' \in Nat \ {0}
        BY <3>2, <4>1
      <4> QED BY <1>0, <4>1, <4>2, <4>3
    <3> QED BY <2>2, <3>3
  <2> QED BY <2>3, <2>4
<1>5. ASSUME AddVar
      PROVE  /\ pc.i \in DOMAIN iovars
             /\ Filed' = IF OfSubnet(iovars[pc.i]) THEN Filed \cup {pc.i} ELSE Filed
             /\ \A j \in Filed : Turn(iovars[j].net) <= pc.n
             /\ OfSubnet(iovars[pc.i]) => Turn(iovars[pc.i].net) = pc.n
  <2>1. /\ pc.at = "vars" /\ pc.n \in DOMAIN pcsubnet /\ pc.n \in Nat /\ pc.i \in Nat
        /\ pc.i \in DOMAIN iovars /\ pcsubnet' = pcsubnet
        /\ pc'.at = "vars" /\ pc'.n = pc.n /\ pc'.i = pc.i + 1
    BY <1>0, <1>5 DEF AddVar, PcOK, PcType, SubnetsOK, Filing
  <2>2. OfSubnet(iovars[pc.i]) <=> Turn(iovars[pc.i].net) = pc.n
    BY <2>1, TurnFacts DEF OfSubnet
  <2>3. \A j \in DOMAIN iovars : j \in Filed' <=> Turn(iovars[j].net) < pc.n
                                               \/ (Turn(iovars[j].net) = pc.n /\ j < pc.i + 1)
    BY <1>0, <1>3, <2>1 DEF Filed
  <2>4. \A j \in DOMAIN iovars : j \in Filed <=> Turn(iovars[j].net) < pc.n
                                              \/ (Turn(iovars[j].net) = pc.n /\ j < pc.i)
    BY <2>1 DEF Filed
  <2>5. Filed \subseteq DOMAIN iovars /\ Filed' \subseteq DOMAIN iovars
    BY <1>0 DEF Filed
  <2>6. \A j \in DOMAIN iovars : j < pc.i + 1 <=> j < pc.i \/ j = pc.i
    BY <1>0, <2>1
  <2>7. \A j \in DOMAIN iovars : Turn(iovars[j].net) \in Nat
    BY <1>2, <2>1
  <2>8. CASE OfSubnet(iovars[pc.i])
    <3>1. \A j \in DOMAIN iovars : j \in Filed' <=> j \in Filed \/ j = pc.i
      BY <2>1, <2>2, <2>3, <2>4, <2>6, <2>8
    <3> QED BY <2>1, <2>2, <2>4, <2>5, <2>7, <2>8, <3>1
  <2>9. CASE ~OfSubnet(iovars[pc.i])
    <3>1. \A j \in DOMAIN iovars : j \in Filed' <=> j \in Filed
      BY <2>1, <2>2, <2>3, <2>4, <2>6, <2>9
    <3>2. Filed' = Filed
      BY <2>5, <3>1
    <3>3. \A j \in Filed : Turn(iovars[j].net) <= pc.n
      BY <2>1, <2>4, <2>5, <2>7
    <3> QED BY <2>1, <2>9, <3>2, <3>3
  <2> QED BY <2>8, <2>9
<1>6. ASSUME ~CollectSubnets, ~AddVar
      PROVE  Filed' = Filed /\ pcsubnet' = pcsubnet /\ sig' = sig
  <2>1. CASE SubnetDone
    <3>1. /\ pc.at = "vars" /\ pc'.at = "vars" /\ pcsubnet' = pcsubnet /\ sig' = sig /\ pc.n \in Nat
          /\ pc.i \in Nat /\ pc.i > Len(iovars) /\ pc'.i = 1 /\ pc'.n = pc.n + 1
      BY <2>1 DEF SubnetDone, table, PcOK, PcType
    <3>2. \A j \in DOMAIN iovars : j \in Filed' <=> Turn(iovars[j].net) < pc.n + 1
                                                 \/ (Turn(iovars[j].net) = pc.n + 1 /\ j < 1)
      BY <1>0, <1>3, <3>1 DEF Filed
    <3>3. \A j \in DOMAIN iovars : j \in Filed <=> Turn(iovars[j].net) < pc.n
                                                \/ (Turn(iovars[j].net) = pc.n /\ j < pc.i)
      BY <3>1 DEF Filed
    <3>4. \A j \in DOMAIN iovars : ~(j < 1) /\ j < pc.i /\ Turn(iovars[j].net) \in Nat
      BY <1>0, <1>2, <3>1
    <3>5. \A j \in DOMAIN iovars : j \in Filed' <=> j \in Filed
      BY <3>1, <3>2, <3>3, <3>4
    <3>6. Filed \subseteq DOMAIN iovars /\ Filed' \subseteq DOMAIN iovars
      BY <1>0 DEF Filed
    <3> QED BY <3>1, <3>5, <3>6
  <2>2. CASE AllocBuf
    <3>1. /\ pc.at = "vars" /\ pc'.at = "init" /\ pcsubnet' = pcsubnet /\ sig' = sig
          /\ pc.n > Len(pcsubnet) /\ pc.n \in Nat
      BY <2>2 DEF AllocBuf, table, PcOK, PcType
    <3>2. \A j \in DOMAIN iovars : Turn(iovars[j].net) < pc.n
      <4>1. DOMAIN pcsubnet = 1 .. Len(pcsubnet) /\ Len(pcsubnet) \in Nat
        BY DEF SubnetsOK
      <4>2. \A j \in DOMAIN iovars : Turn(iovars[j].net) \in DOMAIN pcsubnet
        BY <3>1, TurnFacts
      <4> QED BY <3>1, <4>1, <4>2
    <3>3. Filed = DOMAIN iovars
      BY <3>1, <3>2 DEF Filed
    <3>4. Filed' = DOMAIN iovars
      BY <1>0, <3>1 DEF Filed
    <3> QED BY <3>1, <3>3, <3>4
  <2>3. CASE ~Filing
    <3>1. ~Filing' /\ UNCHANGED table
      BY <2>3, TableFixed
    <3> QED BY <1>0, <2>3, <3>1 DEF Filing, Filed, table
  <2>4. CASE UNCHANGED vars \/ \E b \in Boxes : Tick(b)
    BY <1>0, <2>4, <1>3 DEF vars, Tick, table, Filed
  <2>5. CASE InitBoxes \/ RTSTPhySim
    BY <2>3, <2>5 DEF InitBoxes, RTSTPhySim, RecvFirst, Output, MarkInput_Wait, GetData, SearchTurn,
       HoldTurn, RecvStep, EndSimulating, Filing
  <2> QED BY <1>6, <2>1, <2>2, <2>4, <2>5 DEF Next, RecvSendPhyIO
<1> QED BY <1>4, <1>5, <1>6

\* What a step has to keep of the signals, with the list and the subnets as they are.
LEMMA SignalsAfter ==
  ASSUME iovars' = iovars, pcsubnet' = pcsubnet,
         DOMAIN sig' = Boxes, \A b \in Boxes : DOMAIN sig'[b] = Kinds,
         \A b \in Boxes, k \in Kinds :
           ListOK(sig'[b][k], b, k, Filed') /\ ListHas(sig'[b][k], b, k, Filed'),
         \A b \in Boxes : WavesOK(sig'[b]["AO"]) /\ FromTable(sig'[b]["AO"], b, Filed')
  PROVE  SignalsOK'
<1>1. ASSUME NEW b \in Boxes, NEW k \in Kinds
      PROVE  ListOK(sig[b][k], b, k, Filed)' /\ ListHas(sig[b][k], b, k, Filed)'
  <2>1. ListOK(sig'[b][k], b, k, Filed') /\ ListHas(sig'[b][k], b, k, Filed')
    OBVIOUS
  <2>2. \A no : Shares(b, k, no)' = Shares(b, k, no)
    BY DEF Shares
  <2>3. \A i : SimuVar(i)' = SimuVar(i)
    BY DEF SimuVar, Place
  <2>4. \A p : Turn(p)' = Turn(p)
    BY DEF Turn
  <2> QED BY <2>1, <2>2, <2>3, <2>4 DEF ListOK, ListHas
<1>2. ASSUME NEW b \in Boxes PROVE WavesOK(sig[b]["AO"])' /\ FromTable(sig[b]["AO"], b, Filed)'
  <2>1. WavesOK(sig[b]["AO"])'
    BY DEF WavesOK, Instants
  <2>2. FromTable(sig[b]["AO"], b, Filed)'
    BY DEF FromTable, Shares
  <2> QED BY <2>1, <2>2
<1> QED BY <1>1, <1>2 DEF SignalsOK

\* A list in which nothing can be filed yet is empty.
LEMMA ListEmpty ==
  ASSUME NEW list, NEW b, NEW k, ListOK(list, b, k, {})
  PROVE  list = <<>>
<1>1. list \in Seq(Signal) /\ \A x \in DOMAIN list : 1 \in DOMAIN list[x].VSimIO
  BY DEF ListOK
<1>2. ASSUME NEW x \in DOMAIN list PROVE FALSE
  BY <1>1 DEF ListOK
<1> QED BY <1>1, <1>2

\* A new signal of the AO: a wave has the next number.
NewOutput(list, i) ==
  IF iovars[i].inst THEN NewSignal(i, TRUE, Instants(list)) ELSE Plain(i)

\* A variable of a number that is not there yet makes a signal of its own.
LEMMA NewSignalFacts ==
  ASSUME iovars \in Tables, NEW i \in DOMAIN iovars, NEW list \in Seq(Signal)
  PROVE  /\ Plain(i) \in Signal /\ NewOutput(list, i) \in Signal
         /\ Plain(i).idno = iovars[i].idno /\ NewOutput(list, i).idno = iovars[i].idno
         /\ Plain(i).VSimIO = <<SimuVar(i)>> /\ NewOutput(list, i).VSimIO = <<SimuVar(i)>>
         /\ NewOutput(list, i).idxVal2 =
              IF NewOutput(list, i).inst THEN Instants(list) ELSE -1
<1>1. iovars[i].idno \in Nat /\ iovars[i].slot \in Nat /\ <<SimuVar(i)>> \in Seq(Simu)
  BY ListTyped, SimuVarTyped DEF IOVars
<1>2. ASSUME NEW inst \in BOOLEAN, NEW v \in Int
      PROVE  /\ NewSignal(i, inst, v) \in Signal
             /\ NewSignal(i, inst, v).idno = iovars[i].idno
             /\ NewSignal(i, inst, v).VSimIO = <<SimuVar(i)>>
             /\ NewSignal(i, inst, v).inst = inst /\ NewSignal(i, inst, v).idxVal2 = v
  <2>1. ASSUME NEW no \in Nat, NEW slot \in Nat, NEW l \in Seq(Simu)
        PROVE  LET r == [idno |-> no, slot |-> slot, inst |-> inst, idxVal2 |-> v, VSimIO |-> l]
               IN r \in Signal /\ r.idno = no /\ r.VSimIO = l /\ r.inst = inst /\ r.idxVal2 = v
    <3> DEFINE r == [idno |-> no, slot |-> slot, inst |-> inst, idxVal2 |-> v, VSimIO |-> l]
    <3>1. r \in Signal
      BY Zenon DEF Signal
    <3>2. r.idno = no /\ r.VSimIO = l /\ r.inst = inst /\ r.idxVal2 = v
      BY Zenon
    <3> QED BY <3>1, <3>2, Zenon
  <2> DEFINE no == iovars[i].idno
  <2> DEFINE slot == iovars[i].slot
  <2> DEFINE l == <<SimuVar(i)>>
  <2> DEFINE r == [idno |-> no, slot |-> slot, inst |-> inst, idxVal2 |-> v, VSimIO |-> l]
  <2>2. NewSignal(i, inst, v) = r
    BY Zenon DEF NewSignal
  <2>3. no \in Nat /\ slot \in Nat /\ l \in Seq(Simu)
    BY <1>1
  <2>4. r \in Signal /\ r.idno = no /\ r.VSimIO = l /\ r.inst = inst /\ r.idxVal2 = v
    <3> HIDE DEF no, slot, l
    <3> QED BY <2>1, <2>3, Zenon
  <2> HIDE DEF r
  <2> QED BY <2>2, <2>4, Zenon
<1>3. Instants(list) \in Int
  <2>1. Instants(list) \in Nat
    BY InstantsFinite, Zenon
  <2> QED BY <2>1
<1> DEFINE w == NewSignal(i, TRUE, Instants(list))
<1> DEFINE p == NewSignal(i, FALSE, -1)
<1>4. /\ w \in Signal /\ w.idno = iovars[i].idno /\ w.VSimIO = <<SimuVar(i)>>
      /\ w.inst = TRUE /\ w.idxVal2 = Instants(list)
      /\ p \in Signal /\ p.idno = iovars[i].idno /\ p.VSimIO = <<SimuVar(i)>>
      /\ p.inst = FALSE /\ p.idxVal2 = -1
  <2>1. -1 \in Int /\ TRUE \in BOOLEAN /\ FALSE \in BOOLEAN
    OBVIOUS
  <2> QED BY <1>2, <1>3, <2>1, Zenon
<1>5. Plain(i) = p /\ (NewOutput(list, i) = w \/ NewOutput(list, i) = p)
  BY DEF NewOutput, Plain
<1> HIDE DEF w, p
<1> QED BY <1>4, <1>5

\* The signal of a variable is filed in the list of its box and kind, and nowhere else.
LEMMA AddedFacts ==
  ASSUME NEW i \in DOMAIN iovars, iovars[i] \in IOVars, DOMAIN sig = Boxes,
         \A b \in Boxes : DOMAIN sig[b] = Kinds,
         NEW b \in Boxes, NEW k \in Kinds
  PROVE  LET list == sig[b][k]
         IN addavar(i)[b][k] =
              IF iovars[i].box # b \/ iovars[i].kind # k THEN list
              ELSE IF Same(list, i) # {} THEN IF k = "AI" THEN list ELSE Another(list, i)
              ELSE IF k # "AO" THEN Append(list, Plain(i))
              ELSE Append(list, NewOutput(list, i))
<1>1. CASE iovars[i].box # b
  BY <1>1 DEF addavar
<1>2. CASE iovars[i].box = b /\ iovars[i].kind # k
  BY <1>2 DEF addavar, PID_addavar
<1>3. CASE iovars[i].box = b /\ iovars[i].kind = k
  <2>1. addavar(i)[b][k] = CASE k = "AI" -> AI_addavar(sig[b][k], i)
                             [] k = "AO" -> AO_addavar(sig[b][k], i)
                             [] k = "DI" -> DI_addavar(sig[b][k], i)
                             [] k = "DO" -> DO_addavar(sig[b][k], i)
    BY <1>3 DEF addavar, PID_addavar
  <2>2. CASE k = "AI"
    BY <1>3, <2>1, <2>2 DEF AI_addavar
  <2>3. CASE k = "AO"
    BY <1>3, <2>1, <2>3 DEF AO_addavar, NewOutput
  <2>4. CASE k = "DI"
    BY <1>3, <2>1, <2>4 DEF DI_addavar
  <2>5. CASE k = "DO"
    BY <1>3, <2>1, <2>5 DEF DO_addavar
  <2> QED BY <2>2, <2>3, <2>4, <2>5 DEF Kinds
<1> QED BY <1>1, <1>2, <1>3

\* Every step keeps the signals right.
LEMMA SignalsStep ==
  ASSUME iovars \in Tables, PcOK, SubnetsOK, SignalsOK, [Next]_vars
  PROVE  SignalsOK'
<1>0. iovars' = iovars
  BY TableFixed
<1>1. /\ DOMAIN sig = Boxes
      /\ \A b \in Boxes : DOMAIN sig[b] = Kinds
      /\ \A b \in Boxes, k \in Kinds :
           ListOK(sig[b][k], b, k, Filed) /\ ListHas(sig[b][k], b, k, Filed)
      /\ \A b \in Boxes : WavesOK(sig[b]["AO"]) /\ FromTable(sig[b]["AO"], b, Filed)
  BY DEF SignalsOK
<1>d. DOMAIN sig = Boxes /\ \A b \in Boxes : DOMAIN sig[b] = Kinds
  BY DEF SignalsOK
<1>2. CASE CollectSubnets
  <2>1. Filed = {} /\ Filed' = {} /\ sig' = sig
    BY <1>2, FiledStep DEF CollectSubnets
  <2>2. \A b \in Boxes, k \in Kinds : sig[b][k] = <<>>
    BY <1>1, <2>1, ListEmpty
  <2>3. ASSUME NEW b \in Boxes, NEW k \in Kinds
        PROVE  ListOK(sig[b][k], b, k, Filed)' /\ ListHas(sig[b][k], b, k, Filed)'
    <3>1. sig'[b][k] = <<>> /\ Filed' = {}
      BY <2>1, <2>2
    <3>2. sig'[b][k] \in Seq(Signal) /\ DOMAIN sig'[b][k] = {}
      BY <3>1
    <3>3. \A x : x \notin DOMAIN sig'[b][k] /\ x \notin Filed'
      BY <3>1, <3>2
    <3>4. ListOK(sig[b][k], b, k, Filed)'
      BY <3>2, <3>3, Zenon DEF ListOK
    <3>5. ListHas(sig[b][k], b, k, Filed)'
      BY <3>3, Zenon DEF ListHas
    <3> QED BY <3>4, <3>5
  <2>4. ASSUME NEW b \in Boxes PROVE WavesOK(sig[b]["AO"])' /\ FromTable(sig[b]["AO"], b, Filed)'
    <3>1. WavesOK(sig'[b]["AO"])
      BY <1>1, <2>1
    <3>2. sig'[b]["AO"] = <<>>
      BY <2>1, <2>2 DEF Kinds
    <3>3. \A x : x \notin DOMAIN sig'[b]["AO"]
      BY <3>2
    <3>4. FromTable(sig[b]["AO"], b, Filed)'
      BY <3>3, Zenon DEF FromTable
    <3>5. WavesOK(sig[b]["AO"])'
      BY <3>1 DEF WavesOK, Instants
    <3> QED BY <3>4, <3>5
  <2> QED BY <1>1, <2>1, <2>3, <2>4 DEF SignalsOK
<1>3. CASE ~CollectSubnets /\ ~(AddVar /\ OfSubnet(iovars[pc.i]))
  <2>1. Filed' = Filed /\ pcsubnet' = pcsubnet /\ sig' = sig
    BY <1>3, FiledStep DEF AddVar
  <2> QED BY <1>0, <1>1, <2>1, SignalsAfter
<1>4. CASE AddVar /\ OfSubnet(iovars[pc.i])
  <2> DEFINE i == pc.i
  <2>1. /\ i \in DOMAIN iovars /\ Filed' = Filed \cup {i} /\ Turn(iovars[i].net) = pc.n
        /\ \A j \in Filed : Turn(iovars[j].net) <= Turn(iovars[i].net)
        /\ sig' = addavar(i) /\ pcsubnet' = pcsubnet
    BY <1>4, FiledStep DEF AddVar
  <2>2. /\ iovars[i] \in IOVars /\ Filed \subseteq DOMAIN iovars /\ pcsubnet \in Seq(Nat)
        /\ \A j \in DOMAIN iovars : Turn(iovars[j].net) \in DOMAIN pcsubnet
    <3>1. pc.at = "vars"
      BY <1>4 DEF AddVar
    <3> QED BY <2>1, <3>1, ListTyped, TurnFacts DEF Filed, SubnetsOK
  <2> HIDE DEF i
  <2>3. ASSUME NEW b \in Boxes, NEW k \in Kinds
        PROVE  ListOK(sig'[b][k], b, k, Filed') /\ ListHas(sig'[b][k], b, k, Filed')
    <3> DEFINE list == sig[b][k]
    <3>1. ListOK(list, b, k, Filed) /\ ListHas(list, b, k, Filed)
      BY <1>1
    <3>2. sig'[b][k] =
            IF iovars[i].box # b \/ iovars[i].kind # k THEN list
            ELSE IF Same(list, i) # {} THEN IF k = "AI" THEN list ELSE Another(list, i)
            ELSE IF k # "AO" THEN Append(list, Plain(i))
            ELSE Append(list, NewOutput(list, i))
      BY <1>1, <2>1, <2>2, AddedFacts
    <3>3. list \in Seq(Signal)
      BY <3>1 DEF ListOK
    <3> HIDE DEF list
    <3>4. CASE iovars[i].box # b \/ iovars[i].kind # k
      <4>1. sig'[b][k] = list /\ Filed' = Filed \cup {i}
        BY <2>1, <3>2, <3>4
      <4>2. \A j \in (Filed \cup {i}) \ Filed : iovars[j].box # b \/ iovars[j].kind # k
        BY <3>4
      <4>3. ListOK(list, b, k, Filed \cup {i}) /\ ListHas(list, b, k, Filed \cup {i})
        BY <3>1, <4>2, ListKept
      <4> QED BY <4>1, <4>3
    <3>5. CASE iovars[i].box = b /\ iovars[i].kind = k /\ Same(list, i) # {}
      <4>1. /\ ListOK(Another(list, i), b, k, Filed \cup {i})
            /\ ListHas(Another(list, i), b, k, Filed \cup {i})
            /\ k = "AI" => ListOK(list, b, k, Filed \cup {i}) /\ ListHas(list, b, k, Filed \cup {i})
        BY <2>1, <2>2, <3>1, <3>5, ListJoined
      <4>2. sig'[b][k] = IF k = "AI" THEN list ELSE Another(list, i)
        BY <3>2, <3>5
      <4> QED BY <2>1, <4>1, <4>2, Zenon
    <3>6. CASE iovars[i].box = b /\ iovars[i].kind = k /\ Same(list, i) = {}
      <4>1. PICK s \in Signal : /\ sig'[b][k] = Append(list, s)
                                /\ s.idno = iovars[i].idno /\ s.VSimIO = <<SimuVar(i)>>
        <5>1. /\ Plain(i) \in Signal /\ NewOutput(list, i) \in Signal
              /\ Plain(i).idno = iovars[i].idno /\ NewOutput(list, i).idno = iovars[i].idno
              /\ Plain(i).VSimIO = <<SimuVar(i)>> /\ NewOutput(list, i).VSimIO = <<SimuVar(i)>>
          BY <2>1, <3>3, NewSignalFacts
        <5>2. sig'[b][k] = Append(list, Plain(i)) \/ sig'[b][k] = Append(list, NewOutput(list, i))
          BY <3>2, <3>6
        <5> QED BY <5>1, <5>2
      <4>2. /\ ListOK(Append(list, s), b, k, Filed \cup {i})
            /\ ListHas(Append(list, s), b, k, Filed \cup {i})
        BY <2>1, <2>2, <3>1, <3>6, <4>1, ListAppended
      <4> QED BY <2>1, <4>1, <4>2, Zenon
    <3> QED BY <3>4, <3>5, <3>6
  <2>4. ASSUME NEW b \in Boxes PROVE WavesOK(sig'[b]["AO"])
    <3> DEFINE list == sig[b]["AO"]
    <3>1. WavesOK(list) /\ "AO" \in Kinds /\ ListOK(list, b, "AO", Filed)
      BY <1>1 DEF Kinds
    <3>2. sig'[b]["AO"] =
            IF iovars[i].box # b \/ iovars[i].kind # "AO" THEN list
            ELSE IF Same(list, i) # {} THEN Another(list, i)
            ELSE Append(list, NewOutput(list, i))
      <4>1. i \in DOMAIN iovars /\ iovars[i] \in IOVars /\ "AO" \in Kinds /\ sig' = addavar(i)
        BY <2>1, <2>2, <3>1
      <4> QED BY <1>d, <4>1, AddedFacts
    <3>3. list \in Seq(Signal)
      BY <3>1 DEF ListOK
    <3> HIDE DEF list
    <3>4. CASE iovars[i].box # b \/ iovars[i].kind # "AO"
      BY <3>1, <3>2, <3>4
    <3>5. CASE iovars[i].box = b /\ iovars[i].kind = "AO" /\ Same(list, i) # {}
      BY <2>1, <3>1, <3>2, <3>3, <3>5, AnotherFacts, WavesSame
    <3>6. CASE iovars[i].box = b /\ iovars[i].kind = "AO" /\ Same(list, i) = {}
      <4> DEFINE s == NewOutput(list, i)
      <4>1. s \in Signal /\ s.idxVal2 = IF s.inst THEN Instants(list) ELSE -1
        BY <2>1, <3>3, NewSignalFacts
      <4>2. sig'[b]["AO"] = Append(list, s)
        BY <3>2, <3>6
      <4> HIDE DEF s
      <4> QED BY <3>1, <3>3, <4>1, <4>2, WavesAppend
    <3> QED BY <3>4, <3>5, <3>6
  <2>5. DOMAIN sig' = Boxes /\ \A b \in Boxes : DOMAIN sig'[b] = Kinds
    BY <1>1, <2>1 DEF addavar, PID_addavar
  <2>6. ASSUME NEW b \in Boxes PROVE FromTable(sig'[b]["AO"], b, Filed')
    <3> DEFINE list == sig[b]["AO"]
    <3>1. FromTable(list, b, Filed) /\ "AO" \in Kinds /\ ListOK(list, b, "AO", Filed)
      BY <1>1 DEF Kinds
    <3>2. sig'[b]["AO"] =
            IF iovars[i].box # b \/ iovars[i].kind # "AO" THEN list
            ELSE IF Same(list, i) # {} THEN Another(list, i)
            ELSE Append(list, NewOutput(list, i))
      <4>1. i \in DOMAIN iovars /\ iovars[i] \in IOVars /\ "AO" \in Kinds /\ sig' = addavar(i)
        BY <2>1, <2>2, <3>1
      <4> QED BY <1>d, <4>1, AddedFacts
    <3>3. list \in Seq(Signal)
      BY <3>1 DEF ListOK
    <3> HIDE DEF list
    <3>4. CASE iovars[i].box # b \/ iovars[i].kind # "AO"
      BY <2>1, <3>1, <3>2, <3>4 DEF FromTable
    <3>5. CASE iovars[i].box = b /\ iovars[i].kind = "AO" /\ Same(list, i) # {}
      <4>1. /\ DOMAIN Another(list, i) = DOMAIN list
            /\ \A x \in DOMAIN list : /\ Another(list, i)[x].idno = list[x].idno
                                      /\ Another(list, i)[x].inst = list[x].inst
        BY <2>1, <3>3, AnotherFacts
      <4>2. sig'[b]["AO"] = Another(list, i)
        BY <3>2, <3>5
      <4>3. FromTable(Another(list, i), b, Filed \cup {i})
        BY <3>1, <4>1 DEF FromTable
      <4> QED BY <2>1, <4>2, <4>3, Zenon
    <3>6. CASE iovars[i].box = b /\ iovars[i].kind = "AO" /\ Same(list, i) = {}
      <4> DEFINE s == NewOutput(list, i)
      <4>1. s \in Signal /\ s.idno = iovars[i].idno /\ (s.inst => iovars[i].inst)
        <5>1. s \in Signal /\ s.idno = iovars[i].idno
          BY <2>1, <3>3, NewSignalFacts
        <5>2. CASE iovars[i].inst
          BY <5>1, <5>2
        <5>3. CASE ~iovars[i].inst
          <6>1. s = NewSignal(i, FALSE, -1)
            BY <5>3 DEF NewOutput, Plain
          <6>2. ~NewSignal(i, FALSE, -1).inst
            BY Zenon DEF NewSignal
          <6> HIDE DEF s
          <6>3. ~s.inst
            BY <6>1, <6>2, Zenon
          <6> QED BY <5>1, <6>3
        <5> QED BY <5>2, <5>3
      <4>2. sig'[b]["AO"] = Append(list, s)
        BY <3>2, <3>6
      <4> HIDE DEF s
      <4>3. /\ DOMAIN Append(list, s) = 1 .. Len(list) + 1 /\ DOMAIN list = 1 .. Len(list)
            /\ Len(list) \in Nat
            /\ \A x \in DOMAIN list : Append(list, s)[x] = list[x]
            /\ Append(list, s)[Len(list) + 1] = s
        BY <3>3, <4>1
      <4>4. i \in (Filed \cup {i}) \cap Shares(b, "AO", s.idno)
        BY <2>1, <3>6, <4>1 DEF Shares
      <4> DEFINE more == Append(list, s)
      <4> HIDE DEF more
      <4>5. ASSUME NEW x \in DOMAIN more, more[x].inst
            PROVE  \E h \in (Filed \cup {i}) \cap Shares(b, "AO", more[x].idno) : iovars[h].inst
        <5>1. CASE x \in DOMAIN list
          BY <3>1, <4>3, <4>5, <5>1 DEF FromTable, more
        <5>2. CASE x = Len(list) + 1
          BY <4>1, <4>3, <4>4, <4>5, <5>2 DEF more
        <5> QED BY <4>3, <5>1, <5>2 DEF more
      <4>6. FromTable(more, b, Filed \cup {i})
        BY <4>5, Zenon DEF FromTable
      <4> QED BY <2>1, <4>2, <4>6, Zenon DEF more
    <3> QED BY <3>4, <3>5, <3>6
  <2> QED BY <1>0, <2>1, <2>3, <2>4, <2>5, <2>6, SignalsAfter
<1> QED BY <1>2, <1>3, <1>4

-----------------------------------------------------------------------------
(* The counters of the thread. *)

\* What does not change with the signals.
LEMMA SigSame ==
  ASSUME sig' = sig
  PROVE  Parts' = Parts /\ pids' = pids /\ ishaveInstantInput' = ishaveInstantInput
BY DEF Parts, pids, ishaveInstantInput, Instants

\* A box with a signal has a variable in the list, which belongs to one of the subnets.
LEMMA SubnetOfBox ==
  ASSUME iovars \in Tables, SubnetsOK, SignalsOK, pc.at # "subnets", pids # {}
  PROVE  1 \in DOMAIN pcsubnet
<1>1. PICK b \in Boxes, k \in Kinds : sig[b][k] # <<>>
  BY DEF pids
<1>2. ListOK(sig[b][k], b, k, Filed)
  BY DEF SignalsOK
<1>3. PICK x \in DOMAIN sig[b][k] : TRUE
  BY <1>1, <1>2 DEF ListOK
<1>4. PICK i \in Filed : TRUE
  BY <1>2, <1>3 DEF ListOK
<1>5. Turn(iovars[i].net) \in DOMAIN pcsubnet
  BY TurnFacts DEF Filed
<1>6. pcsubnet \in Seq(Nat)
  BY DEF SubnetsOK
<1> QED BY <1>5, <1>6

\* Every step keeps the counters of the thread in their ranges.
LEMMA PcStep ==
  ASSUME iovars \in Tables, PcOK, SubnetsOK, SignalsOK, [Next]_vars
  PROVE  PcOK'
<1>0. /\ pc \in PcType /\ pc.i \in Nat /\ pc.k \in Nat /\ pc.n \in Nat /\ pc.kNT \in Nat
      /\ Parts \in Nat /\ Parts > 0
      /\ 0 \in 0 .. Parts' - 1
      /\ Boxes \subseteq Nat /\ pids \subseteq Boxes
      /\ Len(pcsubnet) \in Nat /\ Len(iovars) \in Nat /\ DOMAIN pcsubnet = 1 .. Len(pcsubnet)
  <2>1. 0 \in 0 .. Parts' - 1
    BY StPhyBoxAssumption DEF Parts
  <2>2. pc \in PcType /\ pc.i \in Nat /\ pc.k \in Nat /\ pc.n \in Nat /\ pc.kNT \in Nat
    BY DEF PcOK, PcType
  <2>3. pcsubnet \in Seq(Nat)
    BY DEF SubnetsOK
  <2>4. Boxes \subseteq Nat /\ pids \subseteq Boxes
    BY StPhyBoxAssumption DEF pids
  <2> QED BY <2>1, <2>2, <2>3, <2>4, PartsPositive, ListTyped
<1>1. CASE CollectSubnets
  <2>1. /\ iovars' = iovars /\ pc.at = "subnets" /\ pc.loop = "none" /\ pc.k = 0 /\ pc.kNT = 0
        /\ pc.n = 1 /\ pc.i \in 1 .. Len(iovars) + 1
    BY <1>1 DEF CollectSubnets, PcOK, Filing
  <2>2. CASE pc.i <= Len(iovars)
    <3>1. /\ pc' \in PcType /\ pc'.at = "subnets" /\ pc'.loop = "none" /\ pc'.k = 0 /\ pc'.kNT = 0
          /\ pc'.n = 1 /\ pc'.i = pc.i + 1
      BY <1>0, <1>1, <2>1, <2>2 DEF CollectSubnets, PcType, Places
    <3>2. 1 \in 1 .. Len(pcsubnet') + 1
      <4>1. SubnetsOK'
        BY SubnetsStep
      <4>2. pcsubnet' \in Seq(Nat)
        BY <4>1 DEF SubnetsOK
      <4> QED BY <4>2
    <3>3. pc'.kNT \in 0 .. Parts' - 1 /\ pc'.i \in 1 .. Len(iovars') + 1
      BY <1>0, <2>1, <2>2, <3>1
    <3> QED BY <3>1, <3>2, <3>3 DEF PcOK, Filing, Looping
  <2>3. CASE ~(pc.i <= Len(iovars))
    <3>1. /\ pc' \in PcType /\ pc'.at = "vars" /\ pc'.loop = "none" /\ pc'.k = 0 /\ pc'.kNT = 0
          /\ pc'.n = 1 /\ pc'.i = 1 /\ pcsubnet' = pcsubnet
      BY <1>0, <1>1, <2>1, <2>3 DEF CollectSubnets, PcType, Places
    <3>2. /\ pc'.kNT \in 0 .. Parts' - 1 /\ pc'.i \in 1 .. Len(iovars') + 1
          /\ pc'.n \in 1 .. Len(pcsubnet') + 1
      BY <1>0, <2>1, <3>1
    <3> QED BY <3>1, <3>2 DEF PcOK, Filing, Looping
  <2> QED BY <2>2, <2>3
<1>2. CASE AddVar
  <2>1. /\ iovars' = iovars /\ pc.at = "vars" /\ pc.loop = "none" /\ pc.k = 0 /\ pc.kNT = 0
        /\ pc.n \in 1 .. Len(pcsubnet) + 1 /\ pc.i \in 1 .. Len(iovars) + 1
        /\ pc.i <= Len(iovars) /\ pcsubnet' = pcsubnet
    BY <1>2 DEF AddVar, PcOK, Filing
  <2>2. /\ pc' \in PcType /\ pc'.at = "vars" /\ pc'.loop = "none" /\ pc'.k = 0 /\ pc'.kNT = 0
        /\ pc'.n = pc.n /\ pc'.i = pc.i + 1
    BY <1>0, <1>2, <2>1 DEF AddVar, PcType
  <2>3. /\ pc'.kNT \in 0 .. Parts' - 1 /\ pc'.i \in 1 .. Len(iovars') + 1
        /\ pc'.n \in 1 .. Len(pcsubnet') + 1
    BY <1>0, <2>1, <2>2
  <2> QED BY <2>2, <2>3 DEF PcOK, Filing, Looping
<1>3. CASE SubnetDone
  <2>1. /\ iovars' = iovars /\ pc.at = "vars" /\ pc.loop = "none" /\ pc.k = 0 /\ pc.kNT = 0
        /\ pc.n \in 1 .. Len(pcsubnet) + 1 /\ pc.n <= Len(pcsubnet) /\ pcsubnet' = pcsubnet
    BY <1>3 DEF SubnetDone, PcOK, Filing, table
  <2>2. /\ pc' \in PcType /\ pc'.at = "vars" /\ pc'.loop = "none" /\ pc'.k = 0 /\ pc'.kNT = 0
        /\ pc'.n = pc.n + 1 /\ pc'.i = 1
    <3> DEFINE next == pc.n + 1
    <3>1. pc' = [pc EXCEPT !.n = next, !.i = 1] /\ next \in Nat
      BY <1>0, <1>3 DEF SubnetDone
    <3> HIDE DEF next
    <3>2. /\ pc' \in PcType /\ pc'.at = "vars" /\ pc'.loop = "none" /\ pc'.k = 0 /\ pc'.kNT = 0
          /\ pc'.n = next /\ pc'.i = 1
      BY <1>0, <2>1, <3>1 DEF PcType
    <3> QED BY <3>2 DEF next
  <2>3. /\ pc'.kNT \in 0 .. Parts' - 1 /\ pc'.i \in 1 .. Len(iovars') + 1
        /\ pc'.n \in 1 .. Len(pcsubnet') + 1
    BY <1>0, <2>1, <2>2
  <2> QED BY <2>2, <2>3 DEF PcOK, Filing, Looping
<1>4. CASE AllocBuf
  <2>1. pc.at = "vars" /\ pc.loop = "none" /\ pc.k = 0 /\ pc.kNT = 0
    BY <1>4 DEF AllocBuf, PcOK, Filing
  <2>2. /\ pc' \in PcType /\ pc'.at = "init" /\ pc'.loop = "none" /\ pc'.k = 0 /\ pc'.kNT = 0
        /\ pc'.i = 1
    BY <1>0, <1>4, <2>1 DEF AllocBuf, PcType, Places
  <2>3. pc'.kNT \in 0 .. Parts' - 1
    BY <1>0, <2>2
  <2> QED BY <2>2, <2>3 DEF PcOK, Filing, Looping
<1>5. CASE ~Filing /\ [InitBoxes \/ RTSTPhySim]_vars
  <2>1. UNCHANGED table /\ Parts' = Parts /\ pids' = pids /\ ~Filing'
    BY <1>5, TableFixed, SigSame DEF Next, table, vars
  <2>2. CASE InitBoxes
    <3>1. pc.at = "init" /\ pc.loop = "none" /\ pc.k = 0 /\ pc.kNT = 0 /\ pc.i = 1
      BY <2>2 DEF InitBoxes, PcOK
    <3>2. CASE \A b \in Boxes : ready'[b] = {}
      <4>1. pc' \in PcType /\ pc'.at = "over" /\ pc'.kNT = 0
        BY <1>0, <2>2, <3>1, <3>2 DEF InitBoxes, PcType, Places
      <4> QED BY <1>0, <2>1, <4>1 DEF PcOK, Filing, Looping
    <3>3. CASE ~\A b \in Boxes : ready'[b] = {}
      <4>1. /\ pc' \in PcType /\ pc'.at = "first" /\ pc'.loop = "none" /\ pc'.k = 0
            /\ pc'.kNT = 0 /\ pc'.i = 1
        BY <1>0, <2>2, <3>1, <3>3 DEF InitBoxes, PcType, Places
      <4>2. pids # {}
        BY <2>2, <3>3 DEF InitBoxes
      <4>3. 1 \in DOMAIN pcsubnet
        BY <3>1, <4>2, SubnetOfBox
      <4>4. pcsubnet' = pcsubnet
        BY <2>1 DEF table
      <4> QED BY <1>0, <2>1, <4>1, <4>2, <4>3, <4>4 DEF PcOK, Filing, Looping
    <3> QED BY <3>2, <3>3
  <2>3. CASE RecvFirst
    <3>1. /\ pc.at = "first" /\ pc.loop = "none" /\ pc.k = 0 /\ pc.kNT = 0
          /\ pc.i \in DOMAIN pcsubnet /\ pids # {} /\ pcsubnet' = pcsubnet
      BY <2>1, <2>3 DEF RecvFirst, PcOK, Filing, table
    <3>2. \/ ~LastSubnet /\ pc' = [pc EXCEPT !.i = @ + 1]
          \/ pc' = Over
          \/ pc' = [Begin("search") EXCEPT !.i = 1]
      BY <2>3 DEF RecvFirst
    <3>3. CASE ~LastSubnet /\ pc' = [pc EXCEPT !.i = @ + 1]
      <4>1. /\ pc' \in PcType /\ pc'.at = "first" /\ pc'.loop = "none" /\ pc'.k = 0
            /\ pc'.kNT = 0 /\ pc'.i = pc.i + 1
        BY <1>0, <3>1, <3>3 DEF PcType
      <4>2. pc.i + 1 \in DOMAIN pcsubnet
        BY <1>0, <3>1, <3>3 DEF LastSubnet
      <4> QED BY <1>0, <2>1, <3>1, <4>1, <4>2 DEF PcOK, Filing, Looping
    <3>4. CASE pc' = Over
      <4>1. pc' \in PcType /\ pc'.at = "over" /\ pc'.kNT = 0
        BY <1>0, <3>1, <3>4 DEF Over, PcType, Places
      <4> QED BY <1>0, <2>1, <4>1 DEF PcOK, Filing, Looping
    <3>5. CASE pc' = [Begin("search") EXCEPT !.i = 1]
      <4>1. pc' \in PcType /\ pc'.at = "out" /\ pc'.loop = "search" /\ pc'.kNT = 0
        BY <1>0, <3>1, <3>5 DEF Begin, PcType, Places
      <4> QED BY <1>0, <2>1, <3>1, <4>1 DEF PcOK, Filing, Looping
    <3> QED BY <3>2, <3>3, <3>4, <3>5
  <2>4. CASE Output
    <3>1. pc.at = "out" /\ pc.loop # "none" /\ pc.kNT \in 0 .. Parts - 1 /\ pids # {}
      BY <2>4 DEF Output, PcOK, Filing, Looping
    <3>2. Min(pids) \in pids
      BY <1>0, <3>1, LeastOf
    <3>3. /\ pc' \in PcType /\ pc'.at = "wait" /\ pc'.loop = pc.loop /\ pc'.kNT = pc.kNT
          /\ pc'.i = Min(pids)
      BY <1>0, <2>4, <3>1, <3>2 DEF Output, PcType, Places
    <3> QED BY <1>0, <2>1, <3>1, <3>2, <3>3 DEF PcOK, Filing, Looping
  <2>5. CASE MarkInput_Wait
    <3>1. pc.at = "wait" /\ pc.loop # "none" /\ pc.kNT \in 0 .. Parts - 1 /\ pids # {}
      BY <2>5 DEF MarkInput_Wait, PcOK, Filing, Looping
    <3>2. CASE Later # {} /\ pc' = [pc EXCEPT !.i = Min(Later)]
      <4>1. Min(Later) \in pids /\ Min(Later) \in Nat
        BY <1>0, <3>2, LeastOf DEF Later
      <4>2. /\ pc' \in PcType /\ pc'.at = "wait" /\ pc'.loop = pc.loop /\ pc'.kNT = pc.kNT
            /\ pc'.i = Min(Later)
        BY <1>0, <3>1, <3>2, <4>1 DEF PcType
      <4> QED BY <1>0, <2>1, <3>1, <4>1, <4>2 DEF PcOK, Filing, Looping
    <3>3. CASE pc.kNT + 1 < Parts /\ pc' = [pc EXCEPT !.at = "out", !.kNT = @ + 1, !.i = 1]
      <4>1. pc' \in PcType /\ pc'.at = "out" /\ pc'.loop = pc.loop /\ pc'.kNT = pc.kNT + 1
        <5> DEFINE next == pc.kNT + 1
        <5>1. pc' = [pc EXCEPT !.at = "out", !.kNT = next, !.i = 1] /\ next \in Nat
          BY <1>0, <3>3
        <5> HIDE DEF next
        <5>2. pc' \in PcType /\ pc'.at = "out" /\ pc'.loop = pc.loop /\ pc'.kNT = next
          BY <1>0, <5>1 DEF PcType, Places
        <5> QED BY <5>2 DEF next
      <4> QED BY <1>0, <2>1, <3>1, <3>3, <4>1 DEF PcOK, Filing, Looping
    <3>4. CASE pc.kNT = Parts - 1 /\ pc.loop # "simulate" /\ pc' = [pc EXCEPT !.at = "get", !.i = 1]
      <4>1. pc' \in PcType /\ pc'.at = "get" /\ pc'.loop = pc.loop /\ pc'.kNT = pc.kNT
        BY <1>0, <3>1, <3>4 DEF PcType, Places
      <4> QED BY <1>0, <2>1, <3>1, <3>4, <4>1 DEF PcOK, Filing, Looping
    <3>5. CASE pc.loop = "simulate"
               /\ pc' = [pc EXCEPT !.at = "recv", !.k = @ + 1, !.kNT = 0, !.i = 1]
      <4>1. /\ pc' \in PcType /\ pc'.at = "recv" /\ pc'.loop = "simulate" /\ pc'.kNT = 0
            /\ pc'.i = 1
        <5> DEFINE next == pc.k + 1
        <5>1. pc' = [pc EXCEPT !.at = "recv", !.k = next, !.kNT = 0, !.i = 1] /\ next \in Nat
          BY <1>0, <3>5
        <5> HIDE DEF next
        <5>2. pc' \in PcType
          BY <1>0, <5>1 DEF PcType, Places
        <5>3. pc'.at = "recv" /\ pc'.loop = pc.loop
          BY <1>0, <5>1 DEF PcType
        <5>4. pc'.kNT = 0 /\ pc'.i = 1
          BY <1>0, <5>1 DEF PcType
        <5> QED BY <3>5, <5>2, <5>3, <5>4
      <4>2. 1 \in DOMAIN pcsubnet /\ pcsubnet' = pcsubnet
        BY <2>1, <3>1, SubnetOfBox DEF table
      <4> QED BY <1>0, <2>1, <3>1, <4>1, <4>2 DEF PcOK, Filing, Looping
    <3> QED BY <2>5, <3>2, <3>3, <3>4, <3>5, WaitCases
  <2>6. CASE GetData
    <3>1. /\ pc.at = "get" /\ pc.loop # "none" /\ pids # {}
          /\ pc.loop # "simulate" => pc.kNT = Parts - 1
      BY <2>6 DEF GetData, PcOK, Filing, Looping
    <3>2. CASE pc.loop = "simulate"
      <4>1. pc' \in PcType /\ pc'.at = "out" /\ pc'.loop = "simulate" /\ pc'.kNT = 0
        BY <1>0, <2>6, <3>1, <3>2 DEF GetData, PcType, Places
      <4> QED BY <1>0, <2>1, <3>1, <4>1 DEF PcOK, Filing, Looping
    <3>3. CASE pc.loop # "simulate"
      <4>1. pc' \in PcType /\ pc'.at = "decide" /\ pc'.loop = pc.loop /\ pc'.kNT = pc.kNT
        BY <1>0, <2>6, <3>1, <3>3 DEF GetData, PcType, Places
      <4> QED BY <1>0, <2>1, <3>1, <3>3, <4>1 DEF PcOK, Filing, Looping
    <3> QED BY <3>2, <3>3
  <2>7. CASE SearchTurn
    <3>1. pc.at = "decide" /\ pc.loop = "search" /\ pids # {} /\ pc.kNT \in 0 .. Parts - 1
      BY <2>7 DEF SearchTurn, PcOK, Filing
    <3>2. pc' = Begin("hold") \/ pc' = Again \/ pc' = Over
      BY <2>7 DEF SearchTurn
    <3>3. CASE pc' = Over
      <4>1. pc' \in PcType /\ pc'.at = "over" /\ pc'.kNT = pc.kNT
        BY <1>0, <3>1, <3>3 DEF Over, PcType, Places
      <4> QED BY <1>0, <2>1, <3>1, <4>1 DEF PcOK, Filing, Looping
    <3>4. CASE pc' = Again
      <4>1. pc' \in PcType /\ pc'.at = "out" /\ pc'.loop = "search" /\ pc'.kNT = 0
        <5> DEFINE next == pc.k + 1
        <5>1. pc' = [pc EXCEPT !.at = "out", !.k = next, !.kNT = 0] /\ next \in Nat
          BY <1>0, <3>4 DEF Again
        <5> HIDE DEF next
        <5> QED BY <1>0, <3>1, <5>1 DEF PcType, Places
      <4> QED BY <1>0, <2>1, <3>1, <4>1 DEF PcOK, Filing, Looping
    <3>5. CASE pc' = Begin("hold")
      <4>1. pc' \in PcType /\ pc'.at = "out" /\ pc'.loop = "hold" /\ pc'.kNT = 0
        BY <1>0, <3>1, <3>5 DEF Begin, PcType, Places
      <4> QED BY <1>0, <2>1, <3>1, <4>1 DEF PcOK, Filing, Looping
    <3> QED BY <3>2, <3>3, <3>4, <3>5
  <2>8. CASE HoldTurn
    <3>1. pc.at = "decide" /\ pc.loop = "hold" /\ pids # {}
      BY <2>8 DEF HoldTurn, PcOK, Filing
    <3>2. \/ pc' = Again
          \/ pc' = [pc EXCEPT !.at = "recv", !.loop = "simulate", !.k = 0, !.kNT = 0, !.i = 1]
      BY <2>8 DEF HoldTurn
    <3>3. CASE pc' = Again
      <4>1. pc' \in PcType /\ pc'.at = "out" /\ pc'.loop = "hold" /\ pc'.kNT = 0
        <5> DEFINE next == pc.k + 1
        <5>1. pc' = [pc EXCEPT !.at = "out", !.k = next, !.kNT = 0] /\ next \in Nat
          BY <1>0, <3>3 DEF Again
        <5> HIDE DEF next
        <5> QED BY <1>0, <3>1, <5>1 DEF PcType, Places
      <4> QED BY <1>0, <2>1, <3>1, <4>1 DEF PcOK, Filing, Looping
    <3>4. CASE pc' = [pc EXCEPT !.at = "recv", !.loop = "simulate", !.k = 0, !.kNT = 0, !.i = 1]
      <4>1. /\ pc' \in PcType /\ pc'.at = "recv" /\ pc'.loop = "simulate" /\ pc'.kNT = 0
            /\ pc'.i = 1
        BY <1>0, <3>1, <3>4 DEF PcType, Places
      <4>2. 1 \in DOMAIN pcsubnet /\ pcsubnet' = pcsubnet
        BY <2>1, <3>1, SubnetOfBox DEF table
      <4> QED BY <1>0, <2>1, <3>1, <4>1, <4>2 DEF PcOK, Filing, Looping
    <3> QED BY <3>2, <3>3, <3>4
  <2>9. CASE RecvStep
    <3>1. /\ pc.at = "recv" /\ pc.loop = "simulate" /\ pc.kNT = 0 /\ pids # {}
          /\ pc.i \in DOMAIN pcsubnet /\ pcsubnet' = pcsubnet
      BY <2>1, <2>9 DEF RecvStep, PcOK, Filing, table
    <3>2. \/ ~LastSubnet /\ pc' = [pc EXCEPT !.i = @ + 1]
          \/ pc' = [pc EXCEPT !.at = "get"]
          \/ pc' = [pc EXCEPT !.at = "clear"]
      BY <2>9 DEF RecvStep
    <3>3. CASE ~LastSubnet /\ pc' = [pc EXCEPT !.i = @ + 1]
      <4>1. /\ pc' \in PcType /\ pc'.at = "recv" /\ pc'.loop = "simulate" /\ pc'.kNT = 0
            /\ pc'.i = pc.i + 1
        BY <1>0, <3>1, <3>3 DEF PcType
      <4>2. pc.i + 1 \in DOMAIN pcsubnet
        BY <1>0, <3>1, <3>3 DEF LastSubnet
      <4> QED BY <1>0, <2>1, <3>1, <4>1, <4>2 DEF PcOK, Filing, Looping
    <3>4. CASE pc' = [pc EXCEPT !.at = "get"]
      <4>1. pc' \in PcType /\ pc'.at = "get" /\ pc'.loop = "simulate" /\ pc'.kNT = 0
        BY <1>0, <3>1, <3>4 DEF PcType, Places
      <4> QED BY <1>0, <2>1, <3>1, <4>1 DEF PcOK, Filing, Looping
    <3>5. CASE pc' = [pc EXCEPT !.at = "clear"]
      <4>1. pc' \in PcType /\ pc'.at = "clear" /\ pc'.loop = "simulate" /\ pc'.kNT = 0
        BY <1>0, <3>1, <3>5 DEF PcType, Places
      <4> QED BY <1>0, <2>1, <3>1, <4>1 DEF PcOK, Filing, Looping
    <3> QED BY <3>2, <3>3, <3>4, <3>5
  <2>10. CASE EndSimulating
    <3>1. pc.at = "clear" /\ pc.kNT \in 0 .. Parts - 1
      BY <2>10 DEF EndSimulating, PcOK
    <3>2. pc' \in PcType /\ pc'.at = "over" /\ pc'.kNT = pc.kNT
      BY <1>0, <2>10, <3>1 DEF EndSimulating, Over, PcType, Places
    <3> QED BY <1>0, <2>1, <3>1, <3>2 DEF PcOK, Filing, Looping
  <2>11. CASE UNCHANGED vars
    BY <2>1, <2>11 DEF vars, table, PcOK, Filing, Looping
  <2> QED BY <1>5, <2>2, <2>3, <2>4, <2>5, <2>6, <2>7, <2>8, <2>9, <2>10, <2>11 DEF RTSTPhySim
<1>6. CASE UNCHANGED vars \/ \E b \in Boxes : Tick(b)
  <2>1. pc' = pc /\ iovars' = iovars /\ pcsubnet' = pcsubnet /\ sig' = sig
    BY <1>6 DEF vars, Tick, table
  <2>2. Parts' = Parts /\ pids' = pids
    BY <2>1, SigSame
  <2> QED BY <2>1, <2>2 DEF PcOK, Filing, Looping
<1>7. CASE InitBoxes \/ RTSTPhySim
  <2>1. ~Filing
    BY <1>7 DEF InitBoxes, RTSTPhySim, RecvFirst, Output, MarkInput_Wait, GetData, SearchTurn,
       HoldTurn, RecvStep, EndSimulating, Filing
  <2> QED BY <1>5, <1>7, <2>1
<1> QED BY <1>1, <1>2, <1>3, <1>4, <1>6, <1>7 DEF Next, RecvSendPhyIO

\* Where each step takes the thread.
Stays == pc'.loop = pc.loop /\ pc'.k = pc.k

\* Where each handler takes the thread, and with which counters.
LEMMA Moves ==
  ASSUME PcOK
  PROVE  /\ InitBoxes => /\ pc.at = "init"
                         /\ \/ pc'.at = "over"
                            \/ pc'.at = "first" /\ pc'.i = 1 /\ Stays /\ pc'.kNT = pc.kNT
         /\ RecvFirst => /\ pc.at = "first"
                         /\ \/ ~LastSubnet /\ pc'.at = "first" /\ pc'.i = pc.i + 1 /\ Stays
                               /\ pc'.kNT = pc.kNT
                            \/ pc'.at = "over"
                            \/ LastSubnet /\ pc'.at = "out" /\ pc'.loop = "search" /\ pc'.k = 0
                               /\ pc'.kNT = 0
         /\ Output => /\ pc.at = "out" /\ pc'.at = "wait" /\ pc'.i = Min(pids) /\ Stays
                      /\ pc'.kNT = pc.kNT
         /\ GetData => /\ pc.at = "get" /\ Stays
                       /\ IF pc.loop = "simulate" THEN pc'.at = "out" /\ pc'.kNT = 0
                          ELSE pc'.at = "decide" /\ pc'.kNT = pc.kNT
         /\ SearchTurn => /\ pc.at = "decide" /\ pc.loop = "search"
                          /\ \/ pc'.at = "over"
                             \/ MayLeave /\ pc'.at = "out" /\ pc'.loop = "hold" /\ pc'.k = 0
                                /\ pc'.kNT = 0
                             \/ pc'.at = "out" /\ pc'.loop = pc.loop /\ pc'.k = pc.k + 1
                                /\ pc'.kNT = 0
         /\ HoldTurn => /\ pc.at = "decide" /\ pc.loop # "simulate"
                        /\ \/ MayLeave /\ pc'.at = "recv" /\ pc'.loop = "simulate" /\ pc'.k = 0
                              /\ pc'.kNT = 0 /\ pc'.i = 1
                           \/ pc'.at = "out" /\ pc'.loop = pc.loop /\ pc'.k = pc.k + 1
                              /\ pc'.kNT = 0
         /\ RecvStep => /\ pc.at = "recv" /\ Stays /\ pc'.kNT = pc.kNT
                        /\ \/ ~LastSubnet /\ pc'.at = "recv" /\ pc'.i = pc.i + 1
                           \/ LastSubnet /\ pc'.at \in {"get", "clear"} /\ pc'.i = pc.i
         /\ EndSimulating => pc.at = "clear" /\ pc'.at = "over"
<1>0. pc \in PcType /\ pc.k \in Nat /\ pc.i \in Nat
  BY DEF PcOK, PcType
<1> DEFINE next == pc.k + 1
<1>n. next \in Nat
  BY <1>0
<1>1. ASSUME InitBoxes
      PROVE  /\ pc.at = "init"
             /\ \/ pc'.at = "over"
                \/ pc'.at = "first" /\ pc'.i = 1 /\ Stays /\ pc'.kNT = pc.kNT
  <2>1. pc.at = "init" /\ pc.i = 1
    BY <1>1 DEF InitBoxes, PcOK
  <2>2. pc' = [pc EXCEPT !.at = "over"] \/ pc' = [pc EXCEPT !.at = "first"]
    BY <1>1 DEF InitBoxes
  <2> QED BY <1>0, <2>1, <2>2 DEF PcType, Stays
<1>2. ASSUME RecvFirst
      PROVE  /\ pc.at = "first"
             /\ \/ ~LastSubnet /\ pc'.at = "first" /\ pc'.i = pc.i + 1 /\ Stays
                   /\ pc'.kNT = pc.kNT
                \/ pc'.at = "over"
                \/ LastSubnet /\ pc'.at = "out" /\ pc'.loop = "search" /\ pc'.k = 0
                   /\ pc'.kNT = 0
  <2>1. /\ pc.at = "first"
        /\ \/ ~LastSubnet /\ pc' = [pc EXCEPT !.i = @ + 1]
           \/ pc' = Over
           \/ LastSubnet /\ pc' = [Begin("search") EXCEPT !.i = 1]
    BY <1>2 DEF RecvFirst
  <2>2. CASE ~LastSubnet /\ pc' = [pc EXCEPT !.i = @ + 1]
    BY <1>0, <2>1, <2>2 DEF PcType, Stays
  <2>3. CASE pc' = Over
    BY <1>0, <2>1, <2>3 DEF PcType, Over
  <2>4. CASE LastSubnet /\ pc' = [Begin("search") EXCEPT !.i = 1]
    BY <1>0, <2>1, <2>4 DEF PcType, Begin
  <2> QED BY <2>1, <2>2, <2>3, <2>4
<1>3. ASSUME Output
      PROVE  /\ pc.at = "out" /\ pc'.at = "wait" /\ pc'.i = Min(pids) /\ Stays
             /\ pc'.kNT = pc.kNT
  BY <1>0, <1>3 DEF Output, PcType, Stays
<1>4. ASSUME GetData
      PROVE  /\ pc.at = "get" /\ Stays
             /\ IF pc.loop = "simulate" THEN pc'.at = "out" /\ pc'.kNT = 0
                ELSE pc'.at = "decide" /\ pc'.kNT = pc.kNT
  <2>1. pc.at = "get" /\ pc' = IF pc.loop = "simulate" THEN [pc EXCEPT !.at = "out", !.kNT = 0]
                               ELSE [pc EXCEPT !.at = "decide"]
    BY <1>4 DEF GetData
  <2> QED BY <1>0, <2>1 DEF PcType, Stays
<1>5. ASSUME SearchTurn
      PROVE  /\ pc.at = "decide" /\ pc.loop = "search"
             /\ \/ pc'.at = "over"
                \/ MayLeave /\ pc'.at = "out" /\ pc'.loop = "hold" /\ pc'.k = 0 /\ pc'.kNT = 0
                \/ pc'.at = "out" /\ pc'.loop = pc.loop /\ pc'.k = pc.k + 1 /\ pc'.kNT = 0
  <2>1. /\ pc.at = "decide" /\ pc.loop = "search"
        /\ (MayLeave /\ pc' = Begin("hold")) \/ pc' = Again \/ pc' = Over
    BY <1>5 DEF SearchTurn
  <2>2. CASE MayLeave /\ pc' = Begin("hold")
    BY <1>0, <2>1, <2>2 DEF PcType, Begin
  <2>3. CASE pc' = Again
    <3>1. pc' = [pc EXCEPT !.at = "out", !.k = next, !.kNT = 0]
      BY <1>0, <2>3 DEF Again
    <3> HIDE DEF next
    <3>2. pc'.at = "out" /\ pc'.loop = pc.loop /\ pc'.k = next /\ pc'.kNT = 0
      BY <1>0, <1>n, <3>1 DEF PcType
    <3> QED BY <2>1, <3>2 DEF next
  <2>4. CASE pc' = Over
    BY <1>0, <2>1, <2>4 DEF PcType, Over
  <2> QED BY <2>1, <2>2, <2>3, <2>4
<1>6. ASSUME HoldTurn
      PROVE  /\ pc.at = "decide" /\ pc.loop # "simulate"
             /\ \/ MayLeave /\ pc'.at = "recv" /\ pc'.loop = "simulate" /\ pc'.k = 0
                   /\ pc'.kNT = 0 /\ pc'.i = 1
                \/ pc'.at = "out" /\ pc'.loop = pc.loop /\ pc'.k = pc.k + 1 /\ pc'.kNT = 0
  <2>1. /\ pc.at = "decide" /\ pc.loop = "hold"
        /\ \/ MayLeave /\ pc' = [pc EXCEPT !.at = "recv", !.loop = "simulate", !.k = 0, !.kNT = 0, !.i = 1]
           \/ pc' = Again
    BY <1>6 DEF HoldTurn
  <2>2. CASE MayLeave /\ pc' = [pc EXCEPT !.at = "recv", !.loop = "simulate", !.k = 0, !.kNT = 0, !.i = 1]
    BY <1>0, <2>1, <2>2 DEF PcType
  <2>3. CASE pc' = Again
    <3>1. pc' = [pc EXCEPT !.at = "out", !.k = next, !.kNT = 0]
      BY <1>0, <2>3 DEF Again
    <3> HIDE DEF next
    <3>2. pc'.at = "out" /\ pc'.loop = pc.loop /\ pc'.k = next /\ pc'.kNT = 0
      BY <1>0, <1>n, <3>1 DEF PcType
    <3> QED BY <2>1, <3>2 DEF next
  <2> QED BY <2>1, <2>2, <2>3
<1>7. ASSUME RecvStep
      PROVE  /\ pc.at = "recv" /\ Stays /\ pc'.kNT = pc.kNT
             /\ \/ ~LastSubnet /\ pc'.at = "recv" /\ pc'.i = pc.i + 1
                \/ LastSubnet /\ pc'.at \in {"get", "clear"} /\ pc'.i = pc.i
  <2>1. /\ pc.at = "recv"
        /\ \/ ~LastSubnet /\ pc' = [pc EXCEPT !.i = @ + 1]
           \/ LastSubnet /\ pc' = [pc EXCEPT !.at = "get"]
           \/ LastSubnet /\ pc' = [pc EXCEPT !.at = "clear"]
    BY <1>7 DEF RecvStep
  <2>2. CASE ~LastSubnet /\ pc' = [pc EXCEPT !.i = @ + 1]
    BY <1>0, <2>1, <2>2 DEF PcType, Stays
  <2>3. CASE LastSubnet /\ pc' = [pc EXCEPT !.at = "get"]
    BY <1>0, <2>1, <2>3 DEF PcType, Stays
  <2>4. CASE LastSubnet /\ pc' = [pc EXCEPT !.at = "clear"]
    BY <1>0, <2>1, <2>4 DEF PcType, Stays
  <2> QED BY <2>1, <2>2, <2>3, <2>4
<1>8. ASSUME EndSimulating PROVE pc.at = "clear" /\ pc'.at = "over"
  BY <1>0, <1>8 DEF EndSimulating, Over, PcType
<1> HIDE DEF next
<1> QED BY <1>1, <1>2, <1>3, <1>4, <1>5, <1>6, <1>7, <1>8

\* Where a wait takes the thread, by the counters it leaves.
LEMMA WaitMoves ==
  ASSUME PcOK, MarkInput_Wait
  PROVE  /\ pc.at = "wait" /\ pc'.loop = pc.loop
         /\ \/ Later # {} /\ pc'.at = "wait" /\ pc'.i = Min(Later) /\ pc'.k = pc.k
               /\ pc'.kNT = pc.kNT
            \/ Later = {} /\ pc.kNT + 1 < Parts /\ pc'.at = "out" /\ pc'.k = pc.k
               /\ pc'.kNT = pc.kNT + 1
            \/ Later = {} /\ pc.kNT = Parts - 1 /\ pc.loop # "simulate" /\ pc'.at = "get"
               /\ pc'.k = pc.k /\ pc'.kNT = pc.kNT
            \/ Later = {} /\ pc.kNT = Parts - 1 /\ pc.loop = "simulate" /\ pc'.at = "recv"
               /\ pc'.k = pc.k + 1 /\ pc'.kNT = 0 /\ pc'.i = 1
<1>0. pc \in PcType /\ pc.k \in Nat /\ pc.kNT \in Nat /\ pc.at = "wait"
  BY DEF PcOK, PcType, MarkInput_Wait
<1>1. CASE Later # {} /\ pc' = [pc EXCEPT !.i = Min(Later)]
  BY <1>0, <1>1 DEF PcType
<1>2. CASE Later = {} /\ pc.kNT + 1 < Parts /\ pc' = [pc EXCEPT !.at = "out", !.kNT = @ + 1, !.i = 1]
  <2> DEFINE next == pc.kNT + 1
  <2>1. pc' = [pc EXCEPT !.at = "out", !.kNT = next, !.i = 1]
    BY <1>0, <1>2
  <2> HIDE DEF next
  <2>2. pc'.at = "out" /\ pc'.loop = pc.loop /\ pc'.k = pc.k /\ pc'.kNT = next
    BY <1>0, <2>1 DEF PcType
  <2> QED BY <1>0, <1>2, <2>2 DEF next
<1>3. CASE Later = {} /\ pc.kNT = Parts - 1 /\ pc.loop # "simulate"
           /\ pc' = [pc EXCEPT !.at = "get", !.i = 1]
  BY <1>0, <1>3 DEF PcType
<1>4. CASE Later = {} /\ pc.kNT = Parts - 1 /\ pc.loop = "simulate"
           /\ pc' = [pc EXCEPT !.at = "recv", !.k = @ + 1, !.kNT = 0, !.i = 1]
  <2> DEFINE next == pc.k + 1
  <2>1. pc' = [pc EXCEPT !.at = "recv", !.k = next, !.kNT = 0, !.i = 1]
    BY <1>0, <1>4
  <2> HIDE DEF next
  <2>2. pc'.at = "recv" /\ pc'.loop = pc.loop
    BY <1>0, <2>1 DEF PcType
  <2>3. pc'.k = next /\ pc'.kNT = 0 /\ pc'.i = 1
    BY <1>0, <2>1 DEF PcType
  <2> QED BY <1>0, <1>4, <2>2, <2>3 DEF next
<1> QED BY <1>1, <1>2, <1>3, <1>4, WaitCases

-----------------------------------------------------------------------------
(* The values. *)

\* The step that the values of the present message belong to.
StepOf == IF pc.at = "first" THEN 1 ELSE pc.k + 2

\* A subnet that has had its turn in the present round is one step ahead of the others.
LEMMA ArrivalFacts ==
  ASSUME PcOK, SubnetsOK, NEW n \in DOMAIN pcsubnet
  PROVE  /\ pc.at = "init" => Arrival[n] = 0
         /\ pc.at \in {"first", "recv"} =>
              Arrival[n] = IF n < pc.i THEN StepOf ELSE StepOf - 1
         /\ pc.at \notin {"init", "first", "recv"} =>
              Arrival[n] = IF pc.loop = "simulate" THEN pc.k + 2 ELSE 1
<1>0. pc.k \in Nat /\ pc.i \in Nat /\ n \in Nat
  BY DEF PcOK, PcType, SubnetsOK
<1>1. CASE pc.at = "init"
  BY <1>1 DEF Arrival
<1>2. CASE pc.at = "first"
  BY <1>0, <1>2 DEF Arrival, StepOf
<1>3. CASE pc.at = "recv"
  BY <1>0, <1>3 DEF Arrival, StepOf
<1>4. CASE pc.at \notin {"init", "first", "recv"} /\ pc.loop = "simulate"
  BY <1>4 DEF Arrival
<1>5. CASE pc.at \notin {"init", "first", "recv"} /\ pc.loop # "simulate"
  BY <1>5 DEF Arrival
<1> QED BY <1>1, <1>2, <1>3, <1>4, <1>5

\* The step of the values of a subnet is a new one when its message is received, and no
\* other's is.
LEMMA ArrivalStep ==
  ASSUME iovars \in Tables, PcOK, SubnetsOK, SignalsOK, [Next]_vars, ~Filing, pc'.at # "over"
  PROVE  /\ RecvFirst \/ RecvStep => Arrival' = [Arrival EXCEPT ![pc.i] = StepOf]
         /\ ~RecvFirst /\ ~RecvStep => Arrival' = Arrival
<1>0. /\ pcsubnet' = pcsubnet /\ iovars' = iovars /\ PcOK' /\ SubnetsOK'
      /\ DOMAIN pcsubnet = 1 .. Len(pcsubnet) /\ Len(pcsubnet) \in Nat
      /\ pc.k \in Nat /\ pc.i \in Nat
  BY TableFixed, PcStep, SubnetsStep DEF table, SubnetsOK, PcOK, PcType
<1>1. DOMAIN Arrival = DOMAIN pcsubnet /\ DOMAIN Arrival' = DOMAIN pcsubnet
      /\ Arrival = [n \in DOMAIN pcsubnet |-> Arrival[n]]
      /\ Arrival' = [n \in DOMAIN pcsubnet |-> Arrival'[n]]
  BY <1>0 DEF Arrival
<1>2. ASSUME NEW n \in DOMAIN pcsubnet
      PROVE  /\ pc.at = "init" => Arrival[n] = 0
             /\ pc.at \in {"first", "recv"} => Arrival[n] = IF n < pc.i THEN StepOf ELSE StepOf - 1
             /\ pc.at \notin {"init", "first", "recv"} =>
                  Arrival[n] = IF pc.loop = "simulate" THEN pc.k + 2 ELSE 1
  BY <1>2, ArrivalFacts
<1>3. ASSUME NEW n \in DOMAIN pcsubnet
      PROVE  /\ pc'.at = "first" => Arrival'[n] = IF n < pc'.i THEN 1 ELSE 0
             /\ pc'.at = "recv" => Arrival'[n] = IF n < pc'.i THEN pc'.k + 2 ELSE pc'.k + 1
             /\ pc'.at \notin {"init", "first", "recv"} =>
                  Arrival'[n] = IF pc'.loop = "simulate" THEN pc'.k + 2 ELSE 1
  <2>1. CASE pc'.at = "first"
    BY <1>0, <2>1 DEF Arrival
  <2>2. CASE pc'.at = "recv"
    BY <1>0, <2>2 DEF Arrival
  <2>3. CASE pc'.at \notin {"init", "first", "recv"} /\ pc'.loop = "simulate"
    BY <1>0, <2>3 DEF Arrival
  <2>4. CASE pc'.at \notin {"init", "first", "recv"} /\ pc'.loop # "simulate"
    BY <1>0, <2>4 DEF Arrival
  <2>5. CASE pc'.at = "init"
    BY <2>5
  <2> QED BY <2>1, <2>2, <2>3, <2>4, <2>5
<1>4. ASSUME NEW n \in DOMAIN pcsubnet
      PROVE  Arrival'[n] = IF (RecvFirst \/ RecvStep) /\ n = pc.i THEN StepOf ELSE Arrival[n]
  <2>0. n \in Nat \ {0}
    BY <1>0
  <2>1. CASE InitBoxes
    <3>1. pc.at = "init" /\ pc'.at = "first" /\ pc'.i = 1
      BY <2>1, Moves
    <3> QED BY <1>2, <1>3, <2>0, <3>1 DEF RecvFirst, RecvStep
  <2>2. CASE RecvFirst
    <3>1. pc.at = "first" /\ StepOf = 1 /\ pc.i \in DOMAIN pcsubnet
      BY <2>2, Moves DEF StepOf, PcOK
    <3>2. CASE ~LastSubnet /\ pc'.at = "first" /\ pc'.i = pc.i + 1
      BY <1>0, <1>2, <1>3, <2>0, <2>2, <3>1, <3>2
    <3>3. CASE LastSubnet /\ pc'.at = "out" /\ pc'.loop = "search"
      BY <1>0, <1>2, <1>3, <2>0, <2>2, <3>1, <3>3 DEF LastSubnet
    <3> QED BY <2>2, <3>2, <3>3, Moves
  <2>3. CASE RecvStep
    <3>1. /\ pc.at = "recv" /\ StepOf = pc.k + 2 /\ pc.i \in DOMAIN pcsubnet
          /\ pc'.k = pc.k /\ pc'.loop = pc.loop /\ pc.loop = "simulate"
      BY <2>3, Moves DEF StepOf, PcOK, Stays
    <3>2. CASE ~LastSubnet /\ pc'.at = "recv" /\ pc'.i = pc.i + 1
      BY <1>0, <1>2, <1>3, <2>0, <2>3, <3>1, <3>2
    <3>3. CASE LastSubnet /\ pc'.at \in {"get", "clear"}
      BY <1>0, <1>2, <1>3, <2>0, <2>3, <3>1, <3>3 DEF LastSubnet
    <3> QED BY <2>3, <3>2, <3>3, Moves
  <2>4. CASE Output
    <3>1. pc.at = "out" /\ pc'.at = "wait" /\ pc'.loop = pc.loop /\ pc'.k = pc.k
      BY <2>4, Moves DEF Stays
    <3> QED BY <1>2, <1>3, <3>1 DEF RecvFirst, RecvStep
  <2>5. CASE MarkInput_Wait
    <3>1. /\ pc.at = "wait" /\ pc'.loop = pc.loop
          /\ \/ pc'.at \in {"wait", "out", "get"} /\ pc'.k = pc.k
             \/ pc.loop = "simulate" /\ pc'.at = "recv" /\ pc'.k = pc.k + 1 /\ pc'.i = 1
      BY <2>5, WaitMoves
    <3> QED BY <1>0, <1>2, <1>3, <2>0, <3>1 DEF RecvFirst, RecvStep
  <2>6. CASE GetData
    <3>1. pc.at = "get" /\ pc'.at \in {"out", "decide"} /\ pc'.loop = pc.loop /\ pc'.k = pc.k
      BY <2>6, Moves DEF Stays
    <3> QED BY <1>2, <1>3, <3>1 DEF RecvFirst, RecvStep
  <2>7. CASE SearchTurn \/ HoldTurn
    <3>1. /\ pc.at = "decide" /\ pc.loop # "simulate"
          /\ \/ pc'.at = "out" /\ pc'.loop # "simulate"
             \/ pc'.at = "recv" /\ pc'.k = 0 /\ pc'.i = 1
      BY <2>7, Moves
    <3> QED BY <1>2, <1>3, <2>0, <3>1 DEF RecvFirst, RecvStep
  <2>8. CASE UNCHANGED vars \/ \E b \in Boxes : Tick(b)
    <3>1. pc' = pc
      BY <2>8 DEF vars, Tick
    <3>2. Arrival' = Arrival
      BY <1>0, <3>1 DEF Arrival
    <3>3. ~RecvFirst /\ ~RecvStep
      <4>1. ASSUME RecvFirst \/ RecvStep PROVE pc' # pc
        BY <1>0, <4>1, Moves DEF LastSubnet
      <4> QED BY <3>1, <4>1
    <3> QED BY <3>2, <3>3
  <2>9. ~RecvSendPhyIO /\ ~EndSimulating
    <3>1. ASSUME EndSimulating PROVE FALSE
      BY <3>1, Moves
    <3>2. ASSUME RecvSendPhyIO PROVE FALSE
      BY <3>2 DEF RecvSendPhyIO, CollectSubnets, AddVar, SubnetDone, AllocBuf, Filing
    <3> QED BY <3>1, <3>2
  <2> QED BY <2>1, <2>2, <2>3, <2>4, <2>5, <2>6, <2>7, <2>8, <2>9 DEF Next, RTSTPhySim
<1>5. CASE RecvFirst \/ RecvStep
  BY <1>1, <1>4, <1>5
<1>6. CASE ~RecvFirst /\ ~RecvStep
  <2>1. \A n \in DOMAIN pcsubnet : Arrival'[n] = Arrival[n]
    BY <1>4, <1>6
  <2> QED BY <1>1, <1>6, <2>1
<1> QED BY <1>5, <1>6

\* The variables of a signal and their turns.
LEMMA SignalFacts ==
  ASSUME iovars \in Tables, SubnetsOK, SignalsOK, pc.at # "subnets",
         NEW b \in Boxes, NEW k \in Kinds, NEW x \in DOMAIN sig[b][k]
  PROVE  LET s == sig[b][k][x]
         IN /\ s \in Signal /\ 1 \in DOMAIN s.VSimIO /\ DOMAIN s.VSimIO \subseteq Nat
            /\ \A j \in DOMAIN s.VSimIO :
                 /\ TurnOf(s, j) \in DOMAIN pcsubnet
                 /\ pcsubnet[TurnOf(s, j)] = s.VSimIO[j].prono
                 /\ TurnOf(s, 1) <= TurnOf(s, j)
                 /\ \E i \in DOMAIN iovars : s.VSimIO[j] = SimuVar(i) /\ i \in Shares(b, k, s.idno)
            /\ \A p \in DOMAIN pcsubnet :
                 Takes(s, pcsubnet[p]) = {j \in DOMAIN s.VSimIO : TurnOf(s, j) = p}
<1> DEFINE s == sig[b][k][x]
<1>1. ListOK(sig[b][k], b, k, Filed)
  BY DEF SignalsOK
<1>2. s \in Signal /\ 1 \in DOMAIN s.VSimIO
  BY <1>1 DEF ListOK
<1>3. s.VSimIO \in Seq(Simu)
  BY <1>2 DEF Signal
<1>4. ASSUME NEW j \in DOMAIN s.VSimIO
      PROVE  /\ TurnOf(s, j) \in DOMAIN pcsubnet
             /\ pcsubnet[TurnOf(s, j)] = s.VSimIO[j].prono
             /\ TurnOf(s, 1) <= TurnOf(s, j)
             /\ \E i \in DOMAIN iovars : s.VSimIO[j] = SimuVar(i) /\ i \in Shares(b, k, s.idno)
  <2>1. PICK i \in Filed \cap Shares(b, k, s.idno) : s.VSimIO[j] = SimuVar(i)
    BY <1>1 DEF ListOK
  <2>2. i \in DOMAIN iovars /\ s.VSimIO[j].prono = iovars[i].net
    BY <2>1 DEF Filed, SimuVar
  <2>3. Turn(iovars[i].net) \in DOMAIN pcsubnet /\ pcsubnet[Turn(iovars[i].net)] = iovars[i].net
    BY <2>2, TurnFacts
  <2>4. TurnOf(s, 1) <= TurnOf(s, j)
    BY <1>1 DEF ListOK, TurnOf
  <2> HIDE DEF s
  <2>5. TurnOf(s, j) = Turn(iovars[i].net)
    BY <2>2 DEF TurnOf
  <2> QED BY <2>1, <2>2, <2>3, <2>4, <2>5
<1> HIDE DEF s
<1>5. \A p \in DOMAIN pcsubnet : Takes(s, pcsubnet[p]) = {j \in DOMAIN s.VSimIO : TurnOf(s, j) = p}
  <2>1. \A m, n \in DOMAIN pcsubnet : pcsubnet[m] = pcsubnet[n] => m = n
    BY DEF SubnetsOK
  <2>2. ASSUME NEW p \in DOMAIN pcsubnet, NEW j \in DOMAIN s.VSimIO
        PROVE  s.VSimIO[j].prono = pcsubnet[p] <=> TurnOf(s, j) = p
    BY <1>4, <2>1
  <2> QED BY <2>2 DEF Takes
<1>6. DOMAIN s.VSimIO \subseteq Nat
  BY <1>3
<1> QED BY <1>2, <1>4, <1>5, <1>6 DEF s

\* What a signal does not take from a message is what the subnet has not sent it.
LEMMA NothingToTake ==
  ASSUME iovars \in Tables, SubnetsOK, SignalsOK, pc.at # "subnets",
         NEW p \in DOMAIN pcsubnet, ~(Nin(pcsubnet[p]) > 0),
         NEW b \in Boxes, NEW k \in {"AO", "DO"}, NEW x \in DOMAIN sig[b][k]
  PROVE  Takes(sig[b][k][x], pcsubnet[p]) = {}
<1> DEFINE s == sig[b][k][x]
<1> DEFINE n == pcsubnet[p]
<1> DEFINE S == {i \in DOMAIN iovars : iovars[i].net = n /\ ToBox(iovars[i].kind)}
<1>1. IsFiniteSet(S) /\ Nin(n) = Cardinality(S)
  <2>1. S \in SUBSET DOMAIN iovars /\ IsFiniteSet(DOMAIN iovars)
    BY ListTyped, FS_Interval
  <2>2. Nin(n) = Cardinality(S)
    BY DEF Nin
  <2> HIDE DEF S
  <2> QED BY <2>1, <2>2, FS_Subset
<1> SUFFICES ASSUME NEW j \in Takes(s, n) PROVE FALSE
  OBVIOUS
<1>2. j \in DOMAIN s.VSimIO /\ s.VSimIO[j].prono = n
  BY DEF Takes
<1>3. PICK i \in DOMAIN iovars : s.VSimIO[j] = SimuVar(i) /\ i \in Shares(b, k, s.idno)
  BY <1>2, SignalFacts DEF Kinds
<1>4. i \in S
  BY <1>2, <1>3 DEF SimuVar, Shares, ToBox
<1> HIDE DEF S
<1>5. Cardinality(S) \in Nat /\ Cardinality(S) # 0
  BY <1>1, <1>4, FS_CardinalityType, FS_EmptySet
<1> QED BY <1>1, <1>5

\* What becomes of the fields of box b when it is given the values of subnet p of step s.
Takeover(b, p, s) ==
  /\ \A i \in DOMAIN sig[b]["AO"] : ~sig[b]["AO"][i].inst =>
       out'[b].Volt[i] = IF 1 \in Takes(sig[b]["AO"][i], p) THEN Terms(sig[b]["AO"][i], p, s)
                         ELSE out[b].Volt[i] \cup Terms(sig[b]["AO"][i], p, s)
  /\ \A i \in DOMAIN sig[b]["DO"] :
       out'[b].data[i] = IF 1 \in Takes(sig[b]["DO"][i], p)
                         THEN Term(sig[b]["DO"][i].VSimIO[1], s) ELSE out[b].data[i]
  /\ \A v \in DOMAIN out[b].Vinst :
       out'[b].Vinst[v] =
         IF \E i \in DOMAIN sig[b]["AO"] : sig[b]["AO"][i].idxVal2 = v
                                           /\ 2 \in Takes(sig[b]["AO"][i], p)
         THEN NextWave(out[b].Vinst[v], s) ELSE out[b].Vinst[v]

\* The message of a subnet is taken over into the fields of a box.
LEMMA Received ==
  ASSUME iovars \in Tables, SubnetsOK, SignalsOK, pc.at # "subnets", pc.i \in DOMAIN pcsubnet,
         UNCHANGED table, NEW p, p = pcsubnet[pc.i], NEW s, Receive(s), NEW b \in Boxes, OutOK(b)
  PROVE  OutOK(b)' /\ Takeover(b, p, s)
<1>1. CASE Nin(p) > 0
  <2>1. out'[b] = [Volt |-> AO_GetSimuVal(b, p, s), Vinst |-> AO_GetInstant(b, p, s),
                   data |-> DO_GetSimuVal(b, p, s)]
    BY <1>1 DEF Receive, GetSimuVal, PID_GetSimuVal
  <2>2. /\ out'[b].Volt = AO_GetSimuVal(b, p, s) /\ out'[b].Vinst = AO_GetInstant(b, p, s)
        /\ out'[b].data = DO_GetSimuVal(b, p, s)
    BY <2>1
  <2>3. DOMAIN out'[b].Volt = DOMAIN sig[b]["AO"]
    BY <2>2 DEF AO_GetSimuVal
  <2>4. DOMAIN out'[b].Vinst = 0 .. Instants(sig[b]["AO"]) - 1
    BY <2>2 DEF AO_GetInstant, OutOK
  <2>5. DOMAIN out'[b].data = DOMAIN sig[b]["DO"]
    BY <2>2 DEF DO_GetSimuVal
  <2>6. ASSUME NEW i \in DOMAIN sig[b]["AO"], ~sig[b]["AO"][i].inst
        PROVE  out'[b].Volt[i] = IF 1 \in Takes(sig[b]["AO"][i], p)
                                 THEN Terms(sig[b]["AO"][i], p, s)
                                 ELSE out[b].Volt[i] \cup Terms(sig[b]["AO"][i], p, s)
    BY <2>2, <2>6 DEF AO_GetSimuVal
  <2>7. ASSUME NEW i \in DOMAIN sig[b]["DO"]
        PROVE  out'[b].data[i] = IF 1 \in Takes(sig[b]["DO"][i], p)
                                 THEN Term(sig[b]["DO"][i].VSimIO[1], s) ELSE out[b].data[i]
    BY <2>2 DEF DO_GetSimuVal
  <2>8. ASSUME NEW v \in DOMAIN out[b].Vinst
        PROVE  out'[b].Vinst[v] =
                   IF \E i \in DOMAIN sig[b]["AO"] : sig[b]["AO"][i].idxVal2 = v
                                                     /\ 2 \in Takes(sig[b]["AO"][i], p)
                   THEN NextWave(out[b].Vinst[v], s) ELSE out[b].Vinst[v]
    BY <2>2 DEF AO_GetInstant
  <2>9. Takeover(b, p, s)
    BY <2>6, <2>7, <2>8 DEF Takeover
  <2>10. OutOK(b)'
    BY <2>1, <2>2, <2>3, <2>4, <2>5 DEF OutOK, table, Instants
  <2> QED BY <2>9, <2>10
<1>2. CASE ~(Nin(p) > 0)
  <2>1. out' = out
    BY <1>2 DEF Receive
  <2>2. \A i \in DOMAIN sig[b]["AO"] : Takes(sig[b]["AO"][i], p) = {}
    BY <1>2, NothingToTake
  <2>3. \A i \in DOMAIN sig[b]["DO"] : Takes(sig[b]["DO"][i], p) = {}
    BY <1>2, NothingToTake
  <2>4. \A i \in DOMAIN sig[b]["AO"] : Terms(sig[b]["AO"][i], p, s) = {}
    BY <2>2 DEF Terms
  <2>5. Takeover(b, p, s)
    BY <2>1, <2>2, <2>3, <2>4 DEF Takeover
  <2>6. OutOK(b)'
    BY <2>1 DEF OutOK, table, Instants
  <2> QED BY <2>5, <2>6
<1> QED BY <1>1, <1>2

\* The values of subnet n, whose turn is p, are received in step s: those before it in D
\* have sent theirs (a is what has arrived, next what has then).
Taking(signal, D, p, s, n, a, next) ==
  /\ D \in SUBSET Nat /\ p \in D /\ s \in Nat \ {0}
  /\ \A m \in D : a[m] = (IF m < p THEN s ELSE s - 1) /\ next[m] = IF m = p THEN s ELSE a[m]
  /\ 1 \in DOMAIN signal.VSimIO
  /\ \A j \in DOMAIN signal.VSimIO : TurnOf(signal, j) \in D
                                      /\ TurnOf(signal, 1) <= TurnOf(signal, j)
  /\ Takes(signal, n) = {j \in DOMAIN signal.VSimIO : TurnOf(signal, j) = p}

\* A sum, an amplitude and a word take them in.
LEMMA TakenIn ==
  ASSUME NEW signal, NEW D, NEW p, NEW s, NEW n, NEW a, NEW next,
         Taking(signal, D, p, s, n, a, next)
  PROVE  /\ Gathered(signal, next) = IF 1 \in Takes(signal, n) THEN Terms(signal, n, s)
                                     ELSE Gathered(signal, a) \cup Terms(signal, n, s)
         /\ Word(signal, next) = IF 1 \in Takes(signal, n) THEN Term(signal.VSimIO[1], s)
                                 ELSE Word(signal, a)
         /\ Amplitude(signal, next) = IF 2 \in Takes(signal, n) THEN s ELSE Amplitude(signal, a)
<1>0. /\ D \in SUBSET Nat /\ p \in D /\ s \in Nat \ {0}
      /\ \A m \in D : a[m] = (IF m < p THEN s ELSE s - 1) /\ next[m] = IF m = p THEN s ELSE a[m]
      /\ 1 \in DOMAIN signal.VSimIO
      /\ \A j \in DOMAIN signal.VSimIO : TurnOf(signal, j) \in D
                                          /\ TurnOf(signal, 1) <= TurnOf(signal, j)
      /\ Takes(signal, n) = {j \in DOMAIN signal.VSimIO : TurnOf(signal, j) = p}
  BY DEF Taking
<1> DEFINE V == signal.VSimIO
<1> DEFINE J == DOMAIN signal.VSimIO
<1> DEFINE T(j) == TurnOf(signal, j)
<1>1. \A m \in D : next[m] = (IF m = p THEN s ELSE a[m]) /\ a[m] = IF m < p THEN s ELSE s - 1
  BY <1>0
<1>2. s \in Nat /\ s # 0 /\ \A m \in D : m \in Nat
  BY <1>0
<1>3. \A j \in J : T(j) \in D /\ T(j) \in Nat /\ T(1) <= T(j)
  BY <1>0, <1>2
<1>4. 1 \in J /\ p \in Nat /\ p \in D
  BY <1>0
<1>5. Terms(signal, n, s) = {Term(V[j], s) : j \in {x \in J : T(x) = p}}
  BY <1>0 DEF Terms
<1>6. /\ Gathered(signal, next) = IF next[T(1)] = 0 THEN {}
                             ELSE {Term(V[j], next[T(1)]) : j \in {x \in J : next[T(x)] = next[T(1)]}}
      /\ Gathered(signal, a) = IF a[T(1)] = 0 THEN {}
                          ELSE {Term(V[j], a[T(1)]) : j \in {x \in J : a[T(x)] = a[T(1)]}}
  BY DEF Gathered
<1>7. /\ Word(signal, next) = IF next[T(1)] = 0 THEN Garbage ELSE Term(V[1], next[T(1)])
      /\ Word(signal, a) = IF a[T(1)] = 0 THEN Garbage ELSE Term(V[1], a[T(1)])
  BY DEF Word
<1>8. /\ Amplitude(signal, next) = IF 2 \in J THEN next[T(2)] ELSE 0
      /\ Amplitude(signal, a) = IF 2 \in J THEN a[T(2)] ELSE 0
  BY DEF Amplitude, Whole
<1>9. \A j : j \in Takes(signal, n) <=> j \in J /\ T(j) = p
  BY <1>0
<1> HIDE DEF V, J, T
<1>10. Amplitude(signal, next) = IF 2 \in Takes(signal, n) THEN s ELSE Amplitude(signal, a)
  <2>1. CASE 2 \in J
    BY <1>1, <1>3, <1>8, <1>9, <2>1
  <2>2. CASE 2 \notin J
    BY <1>8, <1>9, <2>2
  <2> QED BY <2>1, <2>2
<1>11. CASE T(1) = p
  <2>1. next[T(1)] = s /\ s # 0 /\ 1 \in Takes(signal, n)
    BY <1>1, <1>2, <1>3, <1>4, <1>9, <1>11
  <2>2. \A x \in J : next[T(x)] = s <=> T(x) = p
    BY <1>1, <1>2, <1>3, <1>4, <1>11
  <2>3. {x \in J : next[T(x)] = s} = {x \in J : T(x) = p}
    BY <2>2
  <2>4. Gathered(signal, next) = Terms(signal, n, s)
    BY <1>5, <1>6, <2>1, <2>3
  <2>5. Word(signal, next) = Term(V[1], s)
    BY <1>7, <2>1
  <2> QED BY <1>10, <2>1, <2>4, <2>5 DEF V
<1>12. CASE T(1) < p
  <2>1. next[T(1)] = s /\ a[T(1)] = s /\ s # 0 /\ 1 \notin Takes(signal, n)
    BY <1>1, <1>2, <1>3, <1>4, <1>9, <1>12
  <2>2. \A x \in J : next[T(x)] = s <=> (a[T(x)] = s \/ T(x) = p)
    BY <1>1, <1>2, <1>3
  <2>3. {x \in J : next[T(x)] = s} = {x \in J : a[T(x)] = s} \cup {x \in J : T(x) = p}
    BY <2>2
  <2>4. Gathered(signal, next) = {Term(V[j], s) : j \in {x \in J : next[T(x)] = s}}
    BY <1>6, <2>1
  <2>5. Gathered(signal, a) = {Term(V[j], s) : j \in {x \in J : a[T(x)] = s}}
    BY <1>6, <2>1
  <2>6. Gathered(signal, next) = Gathered(signal, a) \cup Terms(signal, n, s)
    BY <1>5, <2>3, <2>4, <2>5
  <2>7. Word(signal, next) = Word(signal, a)
    BY <1>7, <2>1
  <2> QED BY <1>10, <2>1, <2>6, <2>7
<1>13. CASE p < T(1)
  <2>1. \A x \in J : next[T(x)] = a[T(x)] /\ T(x) # p
    BY <1>1, <1>3, <1>4, <1>13
  <2>2. 1 \notin Takes(signal, n) /\ next[T(1)] = a[T(1)]
    BY <1>4, <1>9, <2>1
  <2>3. {x \in J : T(x) = p} = {}
    BY <2>1
  <2>4. Terms(signal, n, s) = {}
    BY <1>5, <2>3
  <2>5. {x \in J : next[T(x)] = next[T(1)]} = {x \in J : a[T(x)] = a[T(1)]}
    BY <2>1, <2>2
  <2>6. Gathered(signal, next) = Gathered(signal, a)
    BY <1>6, <2>2, <2>5
  <2>7. Word(signal, next) = Word(signal, a)
    BY <1>7, <2>2
  <2> QED BY <1>10, <2>2, <2>4, <2>6, <2>7
<1> QED BY <1>3, <1>4, <1>11, <1>12, <1>13

\* A message leaves the right values.
LEMMA ValuesReceived ==
  ASSUME iovars \in Tables, PcOK, SubnetsOK, SignalsOK, pc.at \in {"first", "recv"},
         UNCHANGED table, Receive(StepOf), Arrival' = [Arrival EXCEPT ![pc.i] = StepOf],
         NEW b \in Boxes, OutOK(b), ValuesOK(b)
  PROVE  ValuesOK(b)'
<1> DEFINE AO == sig[b]["AO"]
<1> DEFINE DO == sig[b]["DO"]
<1> DEFINE n == pcsubnet[pc.i]
<1> DEFINE a == Arrival
<1> DEFINE a2 == [a EXCEPT ![pc.i] = StepOf]
<1>1. /\ pc.i \in DOMAIN pcsubnet /\ StepOf \in Nat \ {0} /\ DOMAIN a = DOMAIN pcsubnet
      /\ DOMAIN pcsubnet \in SUBSET Nat
      /\ \A m \in DOMAIN pcsubnet : a[m] = IF m < pc.i THEN StepOf ELSE StepOf - 1
  <2>1. pc.i \in DOMAIN pcsubnet /\ pc.k \in Nat /\ StepOf \in Nat \ {0}
    BY DEF PcOK, PcType, StepOf
  <2>2. \A m \in DOMAIN pcsubnet : a[m] = IF m < pc.i THEN StepOf ELSE StepOf - 1
    BY ArrivalFacts
  <2>3. DOMAIN a = DOMAIN pcsubnet /\ DOMAIN pcsubnet \in SUBSET Nat
    BY DEF Arrival, SubnetsOK
  <2> QED BY <2>1, <2>2, <2>3
<1>2. ASSUME NEW k \in {"AO", "DO"}, NEW i \in DOMAIN sig[b][k]
      PROVE  LET s == sig[b][k][i]
             IN /\ Gathered(s, a2) = IF 1 \in Takes(s, n) THEN Terms(s, n, StepOf)
                                ELSE Gathered(s, a) \cup Terms(s, n, StepOf)
                /\ Word(s, a2) = IF 1 \in Takes(s, n) THEN Term(s.VSimIO[1], StepOf) ELSE Word(s, a)
                /\ Amplitude(s, a2) = IF 2 \in Takes(s, n) THEN StepOf ELSE Amplitude(s, a)
  <2> DEFINE s == sig[b][k][i]
  <2>0. pc.at # "subnets" /\ k \in Kinds /\ pc.i \in DOMAIN pcsubnet
    BY <1>1 DEF Kinds
  <2>1. /\ 1 \in DOMAIN s.VSimIO
        /\ \A j \in DOMAIN s.VSimIO : TurnOf(s, j) \in DOMAIN pcsubnet
                                      /\ TurnOf(s, 1) <= TurnOf(s, j)
        /\ Takes(s, n) = {j \in DOMAIN s.VSimIO : TurnOf(s, j) = pc.i}
    BY <2>0, SignalFacts
  <2> HIDE DEF s, n, a
  <2>d. Taking(s, DOMAIN pcsubnet, pc.i, StepOf, n, a, a2)
    BY <1>1, <2>1 DEF Taking
  <2> HIDE DEF a2
  <2>2. /\ Gathered(s, a2) = IF 1 \in Takes(s, n) THEN Terms(s, n, StepOf)
                        ELSE Gathered(s, a) \cup Terms(s, n, StepOf)
        /\ Word(s, a2) = IF 1 \in Takes(s, n) THEN Term(s.VSimIO[1], StepOf) ELSE Word(s, a)
        /\ Amplitude(s, a2) = IF 2 \in Takes(s, n) THEN StepOf ELSE Amplitude(s, a)
    BY <2>d, TakenIn
  <2> QED BY <2>2 DEF s
<1>3. /\ \A i \in DOMAIN AO : ~AO[i].inst =>
           out'[b].Volt[i] = IF 1 \in Takes(AO[i], n) THEN Terms(AO[i], n, StepOf)
                             ELSE out[b].Volt[i] \cup Terms(AO[i], n, StepOf)
      /\ \A i \in DOMAIN DO :
           out'[b].data[i] = IF 1 \in Takes(DO[i], n) THEN Term(DO[i].VSimIO[1], StepOf)
                             ELSE out[b].data[i]
      /\ \A v \in DOMAIN out[b].Vinst :
           out'[b].Vinst[v] = IF \E i \in DOMAIN AO : AO[i].idxVal2 = v /\ 2 \in Takes(AO[i], n)
                              THEN NextWave(out[b].Vinst[v], StepOf) ELSE out[b].Vinst[v]
  <2>1. pc.at # "subnets" /\ pc.i \in DOMAIN pcsubnet
    BY <1>1
  <2>2. PICK st, p : st = StepOf /\ p = n
    OBVIOUS
  <2>3. Receive(st)
    BY <2>2
  <2>4. Takeover(b, p, st)
    BY <2>1, <2>2, <2>3, Received
  <2>5. /\ \A i \in DOMAIN AO : ~AO[i].inst =>
             out'[b].Volt[i] = IF 1 \in Takes(AO[i], p) THEN Terms(AO[i], p, st)
                               ELSE out[b].Volt[i] \cup Terms(AO[i], p, st)
        /\ \A i \in DOMAIN DO :
             out'[b].data[i] = IF 1 \in Takes(DO[i], p) THEN Term(DO[i].VSimIO[1], st)
                               ELSE out[b].data[i]
        /\ \A v \in DOMAIN out[b].Vinst :
             out'[b].Vinst[v] = IF \E i \in DOMAIN AO : AO[i].idxVal2 = v /\ 2 \in Takes(AO[i], p)
                                THEN NextWave(out[b].Vinst[v], st) ELSE out[b].Vinst[v]
    BY <2>4 DEF Takeover
  <2> HIDE DEF n
  <2> QED BY <2>2, <2>5
<1>4. ASSUME NEW i \in DOMAIN AO, ~AO[i].inst
      PROVE  out'[b].Volt[i] = Gathered(AO[i], a2)
  <2>1. out[b].Volt[i] = Gathered(AO[i], a)
    BY <1>4 DEF ValuesOK
  <2> HIDE DEF n, a2, a
  <2> QED BY <1>2, <1>3, <1>4, <2>1
<1>5. ASSUME NEW i \in DOMAIN DO
      PROVE  out'[b].data[i] = Word(DO[i], a2)
  <2>1. out[b].data[i] = Word(DO[i], a)
    BY <1>5 DEF ValuesOK
  <2> HIDE DEF n, a2, a
  <2> QED BY <1>2, <1>3, <1>5, <2>1
<1>6. ASSUME NEW i \in DOMAIN AO, AO[i].inst
      PROVE  /\ out'[b].Vinst[AO[i].idxVal2].A = Amplitude(AO[i], a2)
             /\ ~Whole(AO[i]) => out'[b].Vinst[AO[i].idxVal2].AL = 0
  <2> DEFINE v == AO[i].idxVal2
  <2>1. /\ out[b].Vinst[v].A = Amplitude(AO[i], a)
        /\ ~Whole(AO[i]) => out[b].Vinst[v].AL = 0
    BY <1>6 DEF ValuesOK
  <2>2. WavesOK(AO)
    BY DEF SignalsOK
  <2>3. v \in DOMAIN out[b].Vinst
    BY <1>6, <2>2 DEF WavesOK, OutOK
  <2>4. ASSUME NEW x \in DOMAIN AO, AO[x].idxVal2 = v PROVE x = i
    <3>1. AO[x].inst
      BY <1>6, <2>2, <2>4 DEF WavesOK
    <3> QED BY <1>6, <2>2, <2>4, <3>1 DEF WavesOK
  <2>5. (\E x \in DOMAIN AO : AO[x].idxVal2 = v /\ 2 \in Takes(AO[x], n)) <=> 2 \in Takes(AO[i], n)
    BY <2>4
  <2>6. Amplitude(AO[i], a2) = IF 2 \in Takes(AO[i], n) THEN StepOf ELSE Amplitude(AO[i], a)
    BY <1>2
  <2>7. 2 \in Takes(AO[i], n) => Whole(AO[i])
    BY DEF Takes, Whole
  <2>8. out'[b].Vinst[v] = IF 2 \in Takes(AO[i], n) THEN NextWave(out[b].Vinst[v], StepOf)
                           ELSE out[b].Vinst[v]
    BY <1>3, <2>3, <2>5
  <2> HIDE DEF v, n, a2, a
  <2>9. CASE 2 \in Takes(AO[i], n)
    BY <2>6, <2>7, <2>8, <2>9 DEF NextWave, v
  <2>10. CASE 2 \notin Takes(AO[i], n)
    BY <2>1, <2>6, <2>8, <2>10 DEF v
  <2> QED BY <2>9, <2>10
<1>7. Arrival' = a2 /\ sig' = sig
  BY DEF table
<1>8. PICK f : f = a2
  OBVIOUS
<1>9. \A p : Turn(p)' = Turn(p)
  BY DEF table, Turn
<1>10. \A s, j : TurnOf(s, j)' = TurnOf(s, j)
  BY <1>9 DEF TurnOf
<1> HIDE DEF a2, a, n
<1>11. \A s : /\ Gathered(s, f)' = Gathered(s, f) /\ Word(s, f)' = Word(s, f)
              /\ Amplitude(s, f)' = Amplitude(s, f)
  BY <1>10 DEF Gathered, Word, Amplitude
<1>12. /\ \A i \in DOMAIN AO : ~AO[i].inst => out'[b].Volt[i] = Gathered(AO[i], f)'
       /\ \A i \in DOMAIN DO : out'[b].data[i] = Word(DO[i], f)'
       /\ \A i \in DOMAIN AO : AO[i].inst =>
            /\ out'[b].Vinst[AO[i].idxVal2].A = Amplitude(AO[i], f)'
            /\ ~Whole(AO[i]) => out'[b].Vinst[AO[i].idxVal2].AL = 0
  BY <1>4, <1>5, <1>6, <1>7, <1>8, <1>11
<1> QED BY <1>7, <1>8, <1>12 DEF ValuesOK

\* Values stay right as long as nothing arrives.
LEMMA ValuesKept ==
  ASSUME UNCHANGED table, Arrival' = Arrival, NEW b \in Boxes, ValuesOK(b),
         \A i \in DOMAIN sig[b]["AO"] : ~sig[b]["AO"][i].inst => out'[b].Volt[i] = out[b].Volt[i],
         out'[b].Vinst = out[b].Vinst, out'[b].data = out[b].data
  PROVE  ValuesOK(b)'
<1> DEFINE AO == sig[b]["AO"]
<1> DEFINE DO == sig[b]["DO"]
<1>1. PICK f : f = Arrival
  OBVIOUS
<1>2. \A p : Turn(p)' = Turn(p)
  BY DEF table, Turn
<1>3. \A s, j : TurnOf(s, j)' = TurnOf(s, j)
  BY <1>2 DEF TurnOf
<1>4. \A s : /\ Gathered(s, f)' = Gathered(s, f) /\ Word(s, f)' = Word(s, f)
             /\ Amplitude(s, f)' = Amplitude(s, f)
  BY <1>3 DEF Gathered, Word, Amplitude
<1>5. /\ \A i \in DOMAIN AO : ~AO[i].inst => out[b].Volt[i] = Gathered(AO[i], f)
      /\ \A i \in DOMAIN DO : out[b].data[i] = Word(DO[i], f)
      /\ \A i \in DOMAIN AO : AO[i].inst =>
           /\ out[b].Vinst[AO[i].idxVal2].A = Amplitude(AO[i], f)
           /\ ~Whole(AO[i]) => out[b].Vinst[AO[i].idxVal2].AL = 0
  BY <1>1 DEF ValuesOK
<1>6. sig' = sig /\ Arrival' = f
  BY <1>1 DEF table
<1>7. /\ \A i \in DOMAIN AO : ~AO[i].inst => out'[b].Volt[i] = Gathered(AO[i], f)'
      /\ \A i \in DOMAIN DO : out'[b].data[i] = Word(DO[i], f)'
      /\ \A i \in DOMAIN AO : AO[i].inst =>
           /\ out'[b].Vinst[AO[i].idxVal2].A = Amplitude(AO[i], f)'
           /\ ~Whole(AO[i]) => out'[b].Vinst[AO[i].idxVal2].AL = 0
  BY <1>4, <1>5, <1>6
<1> QED BY <1>6, <1>7 DEF ValuesOK

\* The buffers before the first message.
LEMMA ValuesAllocated ==
  ASSUME iovars \in Tables, PcOK, SubnetsOK, SignalsOK, AllocBuf, NEW b \in Boxes
  PROVE  OutOK(b)' /\ ValuesOK(b)'
<1> DEFINE AO == sig[b]["AO"]
<1> DEFINE DO == sig[b]["DO"]
<1>1. /\ out'[b] = [Volt |-> AO_allocBuf(AO), Vinst |-> AO_initInstantPara(AO),
                    data |-> DO_allocBuf(DO)]
      /\ UNCHANGED table /\ pc.at = "vars"
  BY DEF AllocBuf, allocBuf
<1>2. /\ out'[b].Volt = [i \in DOMAIN AO |-> AtRest(AO[i])]
      /\ out'[b].Vinst = [v \in 0 .. Instants(AO) - 1 |-> [A |-> 0, AL |-> 0]]
      /\ out'[b].data = [i \in DOMAIN DO |-> Garbage]
  BY <1>1 DEF AO_allocBuf, AO_initInstantPara, DO_allocBuf
<1>3. OutOK(b)'
  BY <1>1, <1>2 DEF OutOK, table, Instants
<1>4. pc'.at = "init"
  <2>1. pc' = [pc EXCEPT !.at = "init", !.i = 1] /\ pc \in PcType
    BY DEF AllocBuf, PcOK
  <2> QED BY <2>1 DEF PcType
<1>5. \A n \in DOMAIN pcsubnet : Arrival'[n] = 0
  BY <1>1, <1>4 DEF Arrival, table
<1>6. \A p : Turn(p)' = Turn(p)
  BY <1>1 DEF table, Turn
<1>7. PICK f : f = Arrival'
  OBVIOUS
<1>8. ASSUME NEW k \in {"AO", "DO"}, NEW i \in DOMAIN sig[b][k]
      PROVE  LET s == sig[b][k][i]
             IN f[TurnOf(s, 1)] = 0 /\ (Whole(s) => f[TurnOf(s, 2)] = 0)
  <2>1. k \in Kinds /\ pc.at # "subnets"
    BY <1>1 DEF Kinds
  <2>2. /\ 1 \in DOMAIN sig[b][k][i].VSimIO
        /\ \A j \in DOMAIN sig[b][k][i].VSimIO : TurnOf(sig[b][k][i], j) \in DOMAIN pcsubnet
    BY <2>1, SignalFacts
  <2> QED BY <1>5, <1>7, <2>2 DEF Whole
<1>9. ASSUME NEW s, f[TurnOf(s, 1)] = 0
      PROVE  Gathered(s, f)' = {} /\ Word(s, f)' = Garbage
  BY <1>6, <1>9 DEF Gathered, Word, TurnOf
<1>10. ASSUME NEW s, Whole(s) => f[TurnOf(s, 2)] = 0
       PROVE  Amplitude(s, f)' = 0
  BY <1>6, <1>10 DEF Amplitude, Whole, TurnOf
<1>11. sig' = sig
  BY <1>1 DEF table
<1>12. ASSUME NEW i \in DOMAIN AO, ~AO[i].inst
       PROVE  out'[b].Volt[i] = Gathered(AO[i], f)'
  <2>1. out'[b].Volt[i] = {}
    BY <1>2, <1>12 DEF AtRest
  <2>2. PICK s : s = AO[i]
    OBVIOUS
  <2>3. Gathered(s, f)' = {}
    BY <1>8, <1>9, <2>2
  <2> QED BY <1>11, <2>1, <2>2, <2>3
<1>13. \A i \in DOMAIN DO : out'[b].data[i] = Word(DO[i], f)'
  BY <1>2, <1>8, <1>9, <1>11
<1>14. ASSUME NEW i \in DOMAIN AO, AO[i].inst
       PROVE  /\ out'[b].Vinst[AO[i].idxVal2].A = Amplitude(AO[i], f)'
              /\ out'[b].Vinst[AO[i].idxVal2].AL = 0
  <2>1. WavesOK(AO)
    BY DEF SignalsOK
  <2>2. AO[i].idxVal2 \in 0 .. Instants(AO) - 1
    BY <1>14, <2>1 DEF WavesOK
  <2>3. out'[b].Vinst[AO[i].idxVal2] = [A |-> 0, AL |-> 0]
    BY <1>2, <2>2
  <2> QED BY <1>8, <1>10, <1>11, <2>3
<1>15. ValuesOK(b)'
  BY <1>7, <1>11, <1>12, <1>13, <1>14 DEF ValuesOK
<1> QED BY <1>3, <1>15

\* Output and ClearOutput write the waves, the latter all the analogue values.
LEMMA OutputFacts ==
  ASSUME SignalsOK, Output, NEW b \in Boxes, OutOK(b)
  PROVE  /\ OutOK(b)'
         /\ out'[b].Vinst = out[b].Vinst /\ out'[b].data = out[b].data
         /\ \A i \in DOMAIN sig[b]["AO"] :
              out'[b].Volt[i] = IF sig[b]["AO"][i].inst
                                THEN WaveValue(out[b].Vinst[sig[b]["AO"][i].idxVal2], pc.k, pc.kNT)
                                ELSE out[b].Volt[i]
<1>1. sig' = sig
  BY DEF Output, table
<1>2. CASE ishaveInstantInput
  <2>1. out'[b] = [out[b] EXCEPT !.Volt = AO_updateInstantVal(b, pc.k, pc.kNT)]
    BY <1>2 DEF Output, updateInstantVal
  <2>2. out[b] = [Volt |-> out[b].Volt, Vinst |-> out[b].Vinst, data |-> out[b].data]
    BY DEF OutOK
  <2>3. out'[b] = [Volt |-> AO_updateInstantVal(b, pc.k, pc.kNT), Vinst |-> out[b].Vinst,
                   data |-> out[b].data]
    BY <2>1, <2>2
  <2>4. /\ out'[b].Volt = AO_updateInstantVal(b, pc.k, pc.kNT)
        /\ out'[b].Vinst = out[b].Vinst /\ out'[b].data = out[b].data
    BY <2>3
  <2>5. /\ DOMAIN out'[b].Volt = DOMAIN sig[b]["AO"]
        /\ \A i \in DOMAIN sig[b]["AO"] :
              out'[b].Volt[i] = IF sig[b]["AO"][i].inst
                                THEN WaveValue(out[b].Vinst[sig[b]["AO"][i].idxVal2], pc.k, pc.kNT)
                                ELSE out[b].Volt[i]
    BY <2>4 DEF AO_updateInstantVal
  <2>6. out'[b] = [Volt |-> out'[b].Volt, Vinst |-> out'[b].Vinst, data |-> out'[b].data]
    BY <2>3, <2>4
  <2>7. OutOK(b)'
    BY <1>1, <2>4, <2>5, <2>6 DEF OutOK, Instants
  <2> QED BY <2>4, <2>5, <2>7
<1>3. CASE ~ishaveInstantInput
  <2>1. out' = out
    BY <1>3 DEF Output
  <2>2. OutOK(b)'
    BY <1>1, <2>1 DEF OutOK, Instants
  <2>3. ASSUME NEW i \in DOMAIN sig[b]["AO"], sig[b]["AO"][i].inst
        PROVE  FALSE
    <3>0. sig[b]["AO"] \in Seq(Signal)
      BY DEF SignalsOK, ListOK, Kinds
    <3> DEFINE S == {x \in DOMAIN sig[b]["AO"] : sig[b]["AO"][x].inst}
    <3>1. IsFiniteSet(S) /\ Instants(sig[b]["AO"]) \in Nat /\ Instants(sig[b]["AO"]) = Cardinality(S)
      BY <3>0, InstantsFinite DEF Instants
    <3>2. S # {}
      BY <2>3
    <3> HIDE DEF S
    <3>3. Instants(sig[b]["AO"]) # 0
      BY <3>1, <3>2, FS_EmptySet
    <3> QED BY <1>3, <3>1, <3>3 DEF ishaveInstantInput
  <2> QED BY <2>1, <2>2, <2>3
<1> QED BY <1>2, <1>3

\* The end clears the analogue outputs.
LEMMA ClearFacts ==
  ASSUME EndSimulating, NEW b \in Boxes, OutOK(b)
  PROVE  OutOK(b)'
<1>1. sig' = sig /\ out'[b] = [out[b] EXCEPT !.Volt = AO_ClearOutput(b)]
  BY DEF EndSimulating, table, ClearOutput
<1>2. out[b] = [Volt |-> out[b].Volt, Vinst |-> out[b].Vinst, data |-> out[b].data]
  BY DEF OutOK
<1>3. out'[b] = [Volt |-> AO_ClearOutput(b), Vinst |-> out[b].Vinst, data |-> out[b].data]
  BY <1>1, <1>2
<1>4. /\ out'[b].Volt = AO_ClearOutput(b) /\ out'[b].Vinst = out[b].Vinst
      /\ out'[b].data = out[b].data
  BY <1>3
<1>5. DOMAIN out'[b].Volt = DOMAIN sig[b]["AO"]
  BY <1>4 DEF AO_ClearOutput
<1>6. out'[b] = [Volt |-> out'[b].Volt, Vinst |-> out'[b].Vinst, data |-> out'[b].data]
  BY <1>3, <1>4
<1> QED BY <1>1, <1>4, <1>5, <1>6 DEF OutOK, Instants

\* Every step keeps the fields of the boxes what the messages received make of them.
LEMMA OutStep ==
  ASSUME iovars \in Tables, PcOK, SubnetsOK, SignalsOK, OutInv, [Next]_vars
  PROVE  OutInv'
<1> SUFFICES ASSUME ~Filing', NEW b \in Boxes
             PROVE  OutOK(b)' /\ (pc'.at # "over" => ValuesOK(b)')
  BY DEF OutInv
<1>1. CASE RecvSendPhyIO
  <2>1. AllocBuf
    <3>1. ASSUME CollectSubnets \/ AddVar \/ SubnetDone PROVE FALSE
      BY <3>1 DEF CollectSubnets, AddVar, SubnetDone, Filing, PcOK, PcType
    <3> QED BY <1>1, <3>1 DEF RecvSendPhyIO
  <2> QED BY <2>1, ValuesAllocated
<1>2. CASE ~RecvSendPhyIO
  <2>1. ~Filing
    BY <1>2 DEF Next, InitBoxes, RTSTPhySim, RecvFirst, Output, MarkInput_Wait, GetData,
       SearchTurn, HoldTurn, RecvStep, EndSimulating, Filing, Tick, vars
  <2>2. /\ UNCHANGED table /\ OutOK(b) /\ (pc.at # "over" => ValuesOK(b))
        /\ sig' = sig /\ pc.at # "subnets"
    BY <2>1, TableFixed DEF OutInv, table, Filing
  <2>3. pc.at = "over" => pc'.at = "over"
    <3>1. ASSUME pc.at = "over" PROVE pc' = pc
      BY <1>2, <3>1 DEF Next, InitBoxes, RTSTPhySim, RecvFirst, Output, MarkInput_Wait, GetData,
         SearchTurn, HoldTurn, RecvStep, EndSimulating, Tick, vars
    <3> QED BY <3>1
  <2>4. CASE RecvFirst \/ RecvStep
    <3>1. Receive(StepOf) /\ pc.at \in {"first", "recv"}
      BY <2>4 DEF RecvFirst, RecvStep, StepOf
    <3>2. pc.i \in DOMAIN pcsubnet
      BY <3>1 DEF PcOK
    <3>3. PICK s, p : s = StepOf /\ p = pcsubnet[pc.i]
      OBVIOUS
    <3>4. Receive(s)
      BY <3>1, <3>3
    <3>5. OutOK(b)'
      BY <2>2, <3>2, <3>3, <3>4, Received
    <3>6. ASSUME pc'.at # "over" PROVE ValuesOK(b)'
      <4>1. Arrival' = [Arrival EXCEPT ![pc.i] = StepOf]
        BY <2>1, <2>4, <3>6, ArrivalStep
      <4>2. ValuesOK(b)
        BY <2>2, <3>1
      <4> QED BY <2>2, <3>1, <4>1, <4>2, ValuesReceived
    <3> QED BY <3>5, <3>6
  <2>5. CASE EndSimulating
    <3>1. pc'.at = "over"
      BY <2>5, Moves
    <3> QED BY <2>2, <2>5, <3>1, ClearFacts
  <2>6. CASE ~RecvFirst /\ ~RecvStep /\ ~EndSimulating
    <3>1. /\ OutOK(b)'
          /\ \A i \in DOMAIN sig[b]["AO"] :
               ~sig[b]["AO"][i].inst => out'[b].Volt[i] = out[b].Volt[i]
          /\ out'[b].Vinst = out[b].Vinst /\ out'[b].data = out[b].data
      <4>1. CASE Output
        BY <2>2, <4>1, OutputFacts
      <4>2. CASE ~Output
        <5>1. out' = out
          BY <1>2, <2>6, <4>2 DEF Next, RTSTPhySim, InitBoxes, MarkInput_Wait, GetData,
             SearchTurn, HoldTurn, Tick, vars
        <5>2. OutOK(b)'
          BY <2>2, <5>1 DEF OutOK, Instants
        <5> QED BY <5>1, <5>2
      <4> QED BY <4>1, <4>2
    <3>2. ASSUME pc'.at # "over" PROVE ValuesOK(b)'
      <4>1. Arrival' = Arrival
        BY <2>1, <2>6, <3>2, ArrivalStep
      <4>2. ValuesOK(b)
        BY <2>2, <2>3, <3>2
      <4> QED BY <2>2, <3>1, <4>1, <4>2, ValuesKept
    <3> QED BY <3>1, <3>2
  <2> QED BY <2>4, <2>5, <2>6
<1> QED BY <1>1, <1>2

\* What a box has been given.
LEMMA FrameStep ==
  ASSUME iovars \in Tables, PcOK, SubnetsOK, SignalsOK, OutInv, FrameInv, [Next]_vars
  PROVE  FrameInv'
<1> SUFFICES ASSUME NEW b \in Boxes
             PROVE  (ready[b] \subseteq Kinds)' /\ (~Filing' => FrameOK(b)')
  BY DEF FrameInv
<1>0. ready[b] \subseteq Kinds
  BY DEF FrameInv
<1>1. (ready[b] \subseteq Kinds)'
  <2>1. CASE InitBoxes
    <3>1. PICK slot_info \in SlotInfos :
            ready' = [c \in Boxes |-> IF c \in pids THEN PID_init(c, slot_info[c]) ELSE {}]
      BY <2>1 DEF InitBoxes
    <3> QED BY <3>1 DEF PID_init
  <2>2. CASE ~InitBoxes
    <3>1. ready' = ready
      BY <2>2 DEF Next, RecvSendPhyIO, CollectSubnets, AddVar, SubnetDone, AllocBuf, RTSTPhySim,
         RecvFirst, Output, MarkInput_Wait, GetData, SearchTurn, HoldTurn, RecvStep,
         EndSimulating, Tick, vars
    <3> QED BY <1>0, <3>1
  <2> QED BY <2>1, <2>2
<1>2. ASSUME ~Filing' PROVE FrameOK(b)'
  <2>1. CASE AllocBuf
    <3>1. sig' = sig /\ frame'[b].AO = AO_allocBuf(sig[b]["AO"])
      BY <2>1 DEF AllocBuf, table
    <3>2. AO_allocBuf(sig[b]["AO"])' = AO_allocBuf(sig[b]["AO"])
      BY <3>1 DEF AO_allocBuf, AtRest, Flat
    <3>3. DOMAIN frame'[b].AO = DOMAIN sig[b]["AO"]
      BY <3>1 DEF AO_allocBuf
    <3>4. pc'.at # "wait"
      <4>1. pc' = [pc EXCEPT !.at = "init", !.i = 1] /\ pc \in PcType
        BY <2>1 DEF AllocBuf, PcOK
      <4> QED BY <4>1 DEF PcType
    <3> QED BY <3>1, <3>2, <3>3, <3>4 DEF FrameOK
  <2>2. CASE ~AllocBuf
    <3>1. ~Filing
      <4>1. ASSUME CollectSubnets \/ AddVar \/ SubnetDone PROVE FALSE
        BY <1>2, <4>1 DEF CollectSubnets, AddVar, SubnetDone, Filing, PcOK, PcType
      <4> QED BY <1>2, <2>2, <4>1 DEF Next, RecvSendPhyIO, InitBoxes, RTSTPhySim, RecvFirst,
           Output, MarkInput_Wait, GetData, SearchTurn, HoldTurn, RecvStep, EndSimulating, Filing,
           Tick, vars
    <3>2. FrameOK(b) /\ OutOK(b) /\ UNCHANGED table /\ sig' = sig
      BY <3>1, TableFixed DEF FrameInv, OutInv, table
    <3>3. AO_allocBuf(sig[b]["AO"])' = AO_allocBuf(sig[b]["AO"])
      BY <3>2 DEF AO_allocBuf, AtRest, Flat
    <3>4. ~RecvSendPhyIO
      BY <3>1 DEF RecvSendPhyIO, CollectSubnets, AddVar, SubnetDone, AllocBuf, Filing
    <3>5. CASE Output \/ EndSimulating
      <4>1. frame'[b] = PID_SenddataToPID(b, out'[b]) /\ ready' = ready
        BY <3>5 DEF Output, EndSimulating, SenddataToPID
      <4>2. frame'[b].AO = AO_SenddataToPID(b, out'[b]) /\ frame'[b].DO = DO_SenddataToPID(b, out'[b])
        BY <4>1 DEF PID_SenddataToPID
      <4>3. "AO" \in ready[b] => frame'[b].AO = out'[b].Volt
        BY <4>2 DEF AO_SenddataToPID
      <4>4. "AO" \notin ready[b] => frame'[b].AO = frame[b].AO
        BY <4>2 DEF AO_SenddataToPID
      <4>5. "DO" \in ready[b] => frame'[b].DO = out'[b].data
        BY <4>2 DEF DO_SenddataToPID
      <4>6. OutOK(b)'
        BY <3>2, <3>5, OutputFacts, ClearFacts
      <4>7. DOMAIN out'[b].Volt = DOMAIN sig[b]["AO"]
        BY <3>2, <4>6 DEF OutOK
      <4>8. DOMAIN frame'[b].AO = DOMAIN sig[b]["AO"]
        BY <3>2, <4>3, <4>4, <4>7 DEF FrameOK
      <4>9. pc'.at \notin {"init", "first"}
        BY <3>5, Moves
      <4> QED BY <3>2, <4>1, <4>3, <4>5, <4>8, <4>9 DEF FrameOK
    <3>6. CASE ~Output /\ ~EndSimulating
      <4>1. frame' = frame
        BY <3>4, <3>6 DEF Next, InitBoxes, RTSTPhySim, RecvFirst, MarkInput_Wait, GetData,
           SearchTurn, HoldTurn, RecvStep, Tick, vars
      <4>2. pc'.at \in {"init", "first"} => pc.at \in {"init", "first"}
        BY <3>4, <3>6, Moves, WaitMoves DEF Next, RTSTPhySim, Tick, vars
      <4>3. pc'.at = "wait" => pc.at = "wait" /\ ready' = ready /\ out' = out
        <5>1. CASE MarkInput_Wait
          BY <5>1 DEF MarkInput_Wait
        <5>2. CASE UNCHANGED vars \/ \E c \in Boxes : Tick(c)
          BY <5>2 DEF vars, Tick
        <5>3. CASE InitBoxes \/ RecvFirst \/ GetData \/ SearchTurn \/ HoldTurn \/ RecvStep
          BY <5>3, Moves
        <5> QED BY <3>4, <3>6, <5>1, <5>2, <5>3 DEF Next, RTSTPhySim
      <4> QED BY <3>2, <3>3, <4>1, <4>2, <4>3 DEF FrameOK
    <3> QED BY <3>5, <3>6
  <2> QED BY <2>1, <2>2
<1> QED BY <1>1, <1>2

-----------------------------------------------------------------------------
(* The waves. *)

\* What a step of the thread leaves alone.
LEMMA LeftAlone ==
  ASSUME [Next]_vars, ~Filing
  PROVE  /\ ~Output /\ ~EndSimulating => frame' = frame
         /\ ~InitBoxes => ready' = ready
         /\ ~Output /\ ~EndSimulating /\ ~RecvFirst /\ ~RecvStep => out' = out
         /\ ~RecvSendPhyIO
<1>1. ~RecvSendPhyIO
  BY DEF RecvSendPhyIO, CollectSubnets, AddVar, SubnetDone, AllocBuf, Filing
<1>2. ~Output /\ ~EndSimulating => frame' = frame
  BY <1>1 DEF Next, InitBoxes, RTSTPhySim, RecvFirst, MarkInput_Wait, GetData, SearchTurn,
     HoldTurn, RecvStep, Tick, vars
<1>3. ~InitBoxes => ready' = ready
  BY <1>1 DEF Next, RTSTPhySim, RecvFirst, Output, MarkInput_Wait, GetData, SearchTurn,
     HoldTurn, RecvStep, EndSimulating, Tick, vars
<1>4. ~Output /\ ~EndSimulating /\ ~RecvFirst /\ ~RecvStep => out' = out
  BY <1>1 DEF Next, InitBoxes, RTSTPhySim, MarkInput_Wait, GetData, SearchTurn, HoldTurn,
     Tick, vars
<1> QED BY <1>1, <1>2, <1>3, <1>4

\* Where there is a wave, every turn has Ikt outputs.
LEMMA WavesPart ==
  ASSUME SignalsOK, NEW b \in Boxes, NEW i \in DOMAIN sig[b]["AO"], sig[b]["AO"][i].inst
  PROVE  ishaveInstantInput /\ Parts = Ikt
<1> DEFINE S == {x \in DOMAIN sig[b]["AO"] : sig[b]["AO"][x].inst}
<1>0. sig[b]["AO"] \in Seq(Signal)
  BY DEF SignalsOK, ListOK, Kinds
<1>1. IsFiniteSet(S) /\ Instants(sig[b]["AO"]) \in Nat /\ Instants(sig[b]["AO"]) = Cardinality(S)
  BY <1>0, InstantsFinite DEF Instants
<1>2. S # {}
  OBVIOUS
<1> HIDE DEF S
<1>3. Instants(sig[b]["AO"]) # 0
  BY <1>1, <1>2, FS_EmptySet
<1>4. ishaveInstantInput
  BY <1>1, <1>3 DEF ishaveInstantInput
<1> QED BY <1>4 DEF Parts

\* A message gives a wave a new amplitude when it carries its imaginary part.
LEMMA WaveReceived ==
  ASSUME iovars \in Tables, SubnetsOK, SignalsOK, pc.at # "subnets", pc.i \in DOMAIN pcsubnet,
         UNCHANGED table, NEW st, Receive(st),
         NEW b \in Boxes, OutOK(b), NEW i \in DOMAIN sig[b]["AO"], sig[b]["AO"][i].inst
  PROVE  WaveOf(b, i)' = IF Whole(sig[b]["AO"][i]) /\ TurnOf(sig[b]["AO"][i], 2) = pc.i
                         THEN NextWave(WaveOf(b, i), st) ELSE WaveOf(b, i)
<1> DEFINE AO == sig[b]["AO"]
<1> DEFINE v == AO[i].idxVal2
<1>1. PICK n : n = pcsubnet[pc.i]
  OBVIOUS
<1>2. Takeover(b, n, st)
  BY <1>1, Received
<1>3. WavesOK(AO)
  BY DEF SignalsOK
<1>4. v \in DOMAIN out[b].Vinst
  BY <1>3 DEF WavesOK, OutOK
<1>5. ASSUME NEW x \in DOMAIN AO, AO[x].idxVal2 = v PROVE x = i
  <2>1. AO[x].inst
    BY <1>3, <1>5 DEF WavesOK
  <2> QED BY <1>3, <1>5, <2>1 DEF WavesOK
<1>6. (\E x \in DOMAIN AO : AO[x].idxVal2 = v /\ 2 \in Takes(AO[x], n)) <=> 2 \in Takes(AO[i], n)
  BY <1>5
<1>7. Takes(AO[i], n) = {j \in DOMAIN AO[i].VSimIO : TurnOf(AO[i], j) = pc.i}
  BY <1>1, SignalFacts DEF Kinds
<1>8. 2 \in Takes(AO[i], n) <=> Whole(AO[i]) /\ TurnOf(AO[i], 2) = pc.i
  BY <1>7 DEF Whole
<1>9. out'[b].Vinst[v] = IF 2 \in Takes(AO[i], n) THEN NextWave(out[b].Vinst[v], st)
                         ELSE out[b].Vinst[v]
  BY <1>2, <1>4, <1>6 DEF Takeover
<1>10. WaveOf(b, i)' = out'[b].Vinst[v] /\ WaveOf(b, i) = out[b].Vinst[v]
  BY DEF table, WaveOf
<1> QED BY <1>8, <1>9, <1>10

\* What a wave was driven with stays what the amplitudes say.
LEMMA AmplitudeStep ==
  ASSUME iovars \in Tables, PcOK, SubnetsOK, SignalsOK, OutInv, FrameInv, AmplitudeInv,
         [Next]_vars
  PROVE  AmplitudeInv'
<1> SUFFICES ASSUME NEW b \in Boxes, ~Filing', NEW i \in Waves(b)'
             PROVE  AmplitudeOK(b, i)'
  BY DEF AmplitudeInv
<1>0. pc.k \in Nat /\ pc.kNT \in Nat /\ pc.i \in Nat /\ Ikt \in Nat /\ pc.kNT \in 0 .. Parts - 1
  BY StPhyBoxAssumption DEF PcOK, PcType
<1>1. CASE RecvSendPhyIO \/ InitBoxes
  <2>1. pc'.at \in {"init", "first", "over"}
    <3>1. CASE InitBoxes
      BY <3>1, Moves
    <3>2. CASE AllocBuf
      <4>1. pc' = [pc EXCEPT !.at = "init", !.i = 1] /\ pc \in PcType
        BY <3>2 DEF AllocBuf, PcOK
      <4> QED BY <4>1 DEF PcType
    <3>3. ASSUME CollectSubnets \/ AddVar \/ SubnetDone PROVE FALSE
      BY <3>3 DEF CollectSubnets, AddVar, SubnetDone, Filing, PcOK, PcType
    <3> QED BY <1>1, <3>1, <3>2, <3>3 DEF RecvSendPhyIO
  <2> QED BY <2>1 DEF AmplitudeOK
<1>2. CASE ~RecvSendPhyIO /\ ~InitBoxes
  <2>1. ~Filing
    BY <1>2 DEF Next, RTSTPhySim, RecvFirst, Output, MarkInput_Wait, GetData,
       SearchTurn, HoldTurn, RecvStep, EndSimulating, Filing, Tick, vars
  <2>2. UNCHANGED table /\ sig' = sig /\ ready' = ready /\ pcsubnet' = pcsubnet
    BY <1>2, <2>1, TableFixed, LeftAlone DEF table
  <2>s. PICK s : s = sig[b]["AO"][i]
    OBVIOUS
  <2>3. /\ i \in DOMAIN sig[b]["AO"] /\ s.inst /\ "AO" \in ready[b] /\ i \in Waves(b)
        /\ sig'[b]["AO"][i] = s
    BY <2>2, <2>s DEF Waves
  <2>4. Parts = Ikt
    BY <2>3, <2>s, WavesPart
  <2>5. AmplitudeOK(b, i) /\ OutOK(b) /\ FrameOK(b)
    BY <2>1, <2>3 DEF AmplitudeInv, OutInv, FrameInv
  <2>6. pc.at # "subnets" /\ 1 \in DOMAIN s.VSimIO
        /\ (Whole(s) => TurnOf(s, 2) \in DOMAIN pcsubnet)
    BY <2>1, <2>3, <2>s, SignalFacts DEF Filing, Whole, Kinds
  <2>7. DOMAIN pcsubnet = 1 .. Len(pcsubnet) /\ Len(pcsubnet) \in Nat
    BY DEF SubnetsOK
  <2>8. TurnOf(s, 2)' = TurnOf(s, 2)
    BY <2>2 DEF TurnOf, Turn
  <2> DEFINE t == TurnOf(s, 2)
  <2>9. New(s)' <=> /\ Whole(s)
                    /\ \/ pc'.at = "recv" /\ t < pc'.i
                       \/ pc'.at \in {"get", "out"} /\ pc'.loop = "simulate" /\ pc'.kNT = 0
    BY <2>8 DEF New, Whole
  <2>10. New(s) <=> /\ Whole(s)
                    /\ \/ pc.at = "recv" /\ t < pc.i
                       \/ pc.at \in {"get", "out"} /\ pc.loop = "simulate" /\ pc.kNT = 0
    BY DEF New
  <2>11. PICK w, v, w2, v2, new, new2 :
           /\ w = frame[b].AO[i] /\ v = WaveOf(b, i) /\ w2 = frame'[b].AO[i] /\ v2 = WaveOf(b, i)'
           /\ new = New(s) /\ new2 = New(s)'
    OBVIOUS
  <2>12. (CASE pc.at = "wait" -> w.last = v.AL /\ w.new = v.A /\ w.part = pc.kNT
           [] pc.at = "out" /\ pc.kNT > 0 -> w.last = v.AL /\ w.new = v.A /\ w.part = pc.kNT - 1
           [] pc.at \in {"get", "decide"} /\ pc.loop # "simulate" ->
                w.last = v.AL /\ w.new = v.A /\ w.part = Ikt - 1
           [] pc.at = "recv" \/ (pc.at \in {"get", "out"} /\ pc.loop = "simulate" /\ pc.kNT = 0) ->
                w.new = (IF new THEN v.AL ELSE v.A) /\ w.part = Ikt - 1
           [] OTHER -> TRUE)
    BY <2>5, <2>11, <2>s DEF AmplitudeOK
  <2>13. SUFFICES
         (CASE pc'.at = "wait" -> w2.last = v2.AL /\ w2.new = v2.A /\ w2.part = pc'.kNT
           [] pc'.at = "out" /\ pc'.kNT > 0 -> w2.last = v2.AL /\ w2.new = v2.A /\ w2.part = pc'.kNT - 1
           [] pc'.at \in {"get", "decide"} /\ pc'.loop # "simulate" ->
                w2.last = v2.AL /\ w2.new = v2.A /\ w2.part = Ikt - 1
           [] pc'.at = "recv" \/ (pc'.at \in {"get", "out"} /\ pc'.loop = "simulate" /\ pc'.kNT = 0) ->
                w2.new = (IF new2 THEN v2.AL ELSE v2.A) /\ w2.part = Ikt - 1
           [] OTHER -> TRUE)
    BY <2>2, <2>3, <2>11, <2>s DEF AmplitudeOK
  <2>14. v2 = out'[b].Vinst[s.idxVal2] /\ v = out[b].Vinst[s.idxVal2]
    BY <2>2, <2>3, <2>11, <2>s DEF WaveOf
  <2> HIDE DEF t
  <2>15. CASE RecvStep
    <3>1. /\ pc.at = "recv" /\ Stays /\ pc'.kNT = pc.kNT /\ pc.loop = "simulate" /\ pc.kNT = 0
          /\ \/ ~LastSubnet /\ pc'.at = "recv" /\ pc'.i = pc.i + 1
             \/ LastSubnet /\ pc'.at \in {"get", "clear"} /\ pc'.i = pc.i
          /\ pc.i \in DOMAIN pcsubnet
      BY <2>15, Moves DEF PcOK
    <3>2. PICK st : st = pc.k + 2
      OBVIOUS
    <3>3. Receive(st)
      BY <2>15, <3>2 DEF RecvStep
    <3>4. v2 = IF Whole(s) /\ t = pc.i THEN NextWave(v, st) ELSE v
      BY <2>2, <2>3, <2>5, <2>6, <2>11, <3>1, <3>3, <2>s, WaveReceived DEF t
    <3>5. w2 = w
      BY <2>1, <2>11, <2>15, <3>1, LeftAlone, Moves DEF RecvStep, Output, EndSimulating
    <3>6. w.new = (IF new THEN v.AL ELSE v.A) /\ w.part = Ikt - 1
      BY <2>12, <3>1
    <3>7. new <=> Whole(s) /\ t < pc.i
      BY <2>10, <2>11, <3>1
    <3>8. Whole(s) => t \in Nat /\ t <= Len(pcsubnet)
      BY <2>6, <2>7 DEF t
    <3>9. pc'.at # "clear" => (new2 <=> Whole(s) /\ (t < pc.i \/ t = pc.i))
      BY <1>0, <2>9, <2>11, <3>1, <3>8 DEF LastSubnet, Stays
    <3>10. w2.part = Ikt - 1 /\ (pc'.at # "clear" => w2.new = (IF new2 THEN v2.AL ELSE v2.A))
      <4>1. CASE Whole(s) /\ t = pc.i
        BY <1>0, <3>4, <3>5, <3>6, <3>7, <3>9, <4>1 DEF NextWave
      <4>2. CASE ~(Whole(s) /\ t = pc.i)
        BY <1>0, <3>4, <3>5, <3>6, <3>7, <3>9, <4>2
      <4> QED BY <4>1, <4>2
    <3> QED BY <3>1, <3>10 DEF Stays
  <2>16. CASE RecvFirst \/ EndSimulating
    <3>1. /\ pc'.at \in {"first", "over", "out"}
          /\ pc'.at = "out" => pc'.loop = "search" /\ pc'.kNT = 0
      BY <2>16, Moves
    <3> QED BY <3>1
  <2>17. CASE Output
    <3>1. pc'.at = "wait" /\ pc'.kNT = pc.kNT
      BY <2>17, Moves
    <3>2. FrameOK(b)'
      BY FrameStep, <2>1, <2>2, TableFixed DEF FrameInv
    <3>3. w2 = out'[b].Volt[i]
      BY <2>2, <2>3, <2>11, <3>1, <3>2 DEF FrameOK
    <3>4. w2 = WaveValue(v, pc.k, pc.kNT) /\ v2 = v
      BY <2>3, <2>5, <2>14, <2>17, <3>3, <2>s, OutputFacts
    <3> QED BY <3>1, <3>4 DEF WaveValue
  <2>18. CASE ~RecvStep /\ ~RecvFirst /\ ~EndSimulating /\ ~Output
    <3>1. w2 = w /\ v2 = v
      BY <2>1, <2>11, <2>14, <2>18, LeftAlone
    <3>2. CASE MarkInput_Wait
      <4>1. w.last = v.AL /\ w.new = v.A /\ w.part = pc.kNT
        BY <2>12, <3>2 DEF MarkInput_Wait
      <4>2. /\ pc'.loop = pc.loop
            /\ \/ pc'.at = "wait" /\ pc'.kNT = pc.kNT
               \/ pc'.at = "out" /\ pc'.kNT = pc.kNT + 1
               \/ pc.kNT = Ikt - 1 /\ pc.loop # "simulate" /\ pc'.at = "get"
               \/ pc.kNT = Ikt - 1 /\ pc'.at = "recv" /\ pc'.i = 1
        BY <2>4, <3>2, WaitMoves
      <4>3. pc'.at = "recv" /\ pc'.i = 1 => ~new2
        <5>1. ASSUME Whole(s) PROVE t \in Nat /\ t >= 1
          BY <2>6, <2>7, <5>1 DEF t
        <5> QED BY <2>9, <2>11, <5>1
      <4> QED BY <1>0, <3>1, <4>1, <4>2, <4>3
    <3>3. CASE GetData
      <4>1. /\ pc.at = "get" /\ Stays
            /\ IF pc.loop = "simulate" THEN pc'.at = "out" /\ pc'.kNT = 0
               ELSE pc'.at = "decide" /\ pc'.kNT = pc.kNT
        BY <3>3, Moves
      <4>2. CASE pc.loop = "simulate"
        <5>1. pc.kNT = 0
          BY <4>1, <4>2 DEF PcOK
        <5>2. new2 <=> new
          BY <2>9, <2>10, <2>11, <4>1, <4>2, <5>1 DEF Stays
        <5> QED BY <2>12, <3>1, <4>1, <4>2, <5>1, <5>2 DEF Stays
      <4>3. CASE pc.loop # "simulate"
        BY <2>12, <3>1, <4>1, <4>3 DEF Stays
      <4> QED BY <4>2, <4>3
    <3>4. CASE SearchTurn \/ HoldTurn
      <4>1. /\ pc.at = "decide" /\ pc.loop # "simulate"
            /\ \/ pc'.at = "out" /\ pc'.loop # "simulate" /\ pc'.kNT = 0
               \/ pc'.at = "over"
               \/ pc'.at = "recv" /\ pc'.i = 1
        BY <3>4, Moves
      <4>2. pc'.at = "recv" /\ pc'.i = 1 => ~new2
        <5>1. ASSUME Whole(s) PROVE t \in Nat /\ t >= 1
          BY <2>6, <2>7, <5>1 DEF t
        <5> QED BY <2>9, <2>11, <5>1
      <4> QED BY <2>12, <3>1, <4>1, <4>2
    <3>5. CASE UNCHANGED vars \/ \E c \in Boxes : Tick(c)
      <4>1. pc' = pc
        BY <3>5 DEF vars, Tick
      <4>2. new2 <=> new
        BY <2>9, <2>10, <2>11, <4>1
      <4> QED BY <2>12, <3>1, <4>1, <4>2
    <3> QED BY <1>2, <2>18, <3>2, <3>3, <3>4, <3>5 DEF Next, RTSTPhySim
  <2> QED BY <2>15, <2>16, <2>17, <2>18
<1> QED BY <1>1, <1>2

-----------------------------------------------------------------------------
(* Remainders. *)

\* A number is its quotient times the divisor, plus its remainder.
LEMMA DivisionTheorem ==
  ASSUME NEW a \in Int, NEW m \in Nat, m > 0
  PROVE  /\ a \div m \in Int
         /\ a % m \in 0 .. m - 1
         /\ a = m * (a \div m) + (a % m)
<1>1. a % m \in 0 .. m - 1
  OBVIOUS
<1>2. a \div m \in Int
  OBVIOUS
<1>3. a = m * (a \div m) + (a % m)
  OBVIOUS
<1> QED BY <1>1, <1>2, <1>3

\* A multiple of m nearer to 0 than m is 0.
LEMMA SmallMultiple ==
  ASSUME NEW m \in Nat, m > 0, NEW q \in Int, m * q < m, -m < m * q
  PROVE  q = 0
<1>1. CASE q >= 1
  <2>1. m * q >= m
    BY <1>1
  <2> QED BY <2>1
<1>2. CASE q <= -1
  <2>1. m * q <= -m
    BY <1>2
  <2> QED BY <2>1
<1> QED BY <1>1, <1>2

\* The remainder is the only number below m that differs from a by a multiple.
LEMMA RemainderUnique ==
  ASSUME NEW m \in Nat, m > 0, NEW a \in Int, NEW q \in Int, NEW r \in 0 .. m - 1,
         a = m * q + r
  PROVE  a % m = r
<1> DEFINE p == a \div m
<1> DEFINE s == a % m
<1>1. p \in Int /\ s \in 0 .. m - 1 /\ a = m * p + s
  BY DivisionTheorem
<1> HIDE DEF p, s
<1>2. m * (p - q) = r - s
  BY <1>1
<1>3. p - q = 0
  BY <1>1, <1>2, SmallMultiple
<1>4. s = r
  BY <1>1, <1>3
<1> QED BY <1>4 DEF s

\* A remainder may be taken before a number is added.
LEMMA RemainderAdd ==
  ASSUME NEW m \in Nat, m > 0, NEW x \in Int, NEW e \in Int
  PROVE  ((x % m) + e) % m = (x + e) % m
<1> DEFINE q == x \div m
<1> DEFINE r == x % m
<1>1. q \in Int /\ r \in Int /\ x = m * q + r
  BY DivisionTheorem
<1> HIDE DEF q, r
<1> DEFINE p == (r + e) \div m
<1> DEFINE s == (r + e) % m
<1>2. p \in Int /\ s \in 0 .. m - 1 /\ r + e = m * p + s
  <2>1. r + e \in Int
    BY <1>1
  <2> QED BY <2>1, DivisionTheorem
<1> HIDE DEF p, s
<1>3. x + e = m * (q + p) + s /\ q + p \in Int /\ x + e \in Int
  BY <1>1, <1>2
<1>4. (x + e) % m = s
  <2> DEFINE y == x + e
  <2> DEFINE d == q + p
  <2>1. y \in Int /\ d \in Int /\ y = m * d + s
    BY <1>3
  <2> HIDE DEF y, d
  <2>2. y % m = s
    BY <1>2, <2>1, RemainderUnique
  <2> QED BY <2>2 DEF y
<1> QED BY <1>4 DEF s, r

\* The turns that the thread may leave a loop after end near whole periods.
LEMMA WholeCycleNear ==
  ASSUME NEW k \in Nat, WholeCycle(k)
  PROVE  \E e \in Int : Small(e) /\ ((k + 1) * Ikt + e) % Cycle = 0
<1> DEFINE c == Cycle
<1> DEFINE t == (k + 1) * Ikt
<1> DEFINE m == (5 * t + 2 * c) \div (5 * c)
<1> DEFINE near == c * m
<1>0. c \in Nat /\ c > 0 /\ t \in Nat /\ Ikt \in Nat /\ Ikt > 0
  BY StPhyBoxAssumption
<1>1. 100 * (IF t >= near THEN t - near ELSE near - t) <= c
  BY DEF WholeCycle
<1> DEFINE e == near - t
<1>2. m \in Int /\ near \in Int
  <2>1. 5 * t + 2 * c \in Int /\ 5 * c \in Nat /\ 5 * c > 0
    BY <1>0
  <2>2. m \in Int
    <3> DEFINE x == 5 * t + 2 * c
    <3> DEFINE y == 5 * c
    <3>1. x \in Int /\ y \in Nat /\ y > 0
      BY <2>1
    <3> HIDE DEF x, y
    <3>2. x \div y \in Int
      BY <3>1, DivisionTheorem
    <3> QED BY <3>2 DEF x, y
  <2> HIDE DEF m
  <2> QED BY <1>0, <2>2
<1> HIDE DEF m
<1>3. e \in Int /\ 100 * e <= c /\ -c <= 100 * e /\ t + e = c * m
  <2> HIDE DEF t
  <2>1. near \in Int /\ near = c * m
    BY <1>2
  <2> HIDE DEF near
  <2>2. e \in Int /\ t + e = near
    BY <1>0, <2>1
  <2>3. 100 * e <= c /\ -c <= 100 * e
    BY <1>0, <1>1, <2>1
  <2> QED BY <2>1, <2>2, <2>3
<1> HIDE DEF e, near
<1>4. ASSUME PeriodFits PROVE e = 0
  <2>1. CASE c < 100
    BY <1>0, <1>3, <2>1
  <2>2. CASE c < 100 * Ikt /\ \E q \in Nat : c = q * Ikt
    <3>1. PICK q \in Nat : c = q * Ikt
      BY <2>2
    <3> DEFINE d == q * m - (k + 1)
    <3>2. d \in Int
      BY <1>2
    <3>3. e = Ikt * d
      <4>1. e = (q * Ikt) * m - (k + 1) * Ikt
        BY <1>0, <1>2, <1>3, <3>1
      <4>2. (q * Ikt) * m = Ikt * (q * m)
        BY <1>0, <1>2
      <4>3. q * m \in Int
        BY <1>2
      <4> QED BY <1>0, <4>1, <4>2, <4>3
    <3> HIDE DEF d
    <3>4. Ikt * d < Ikt /\ -Ikt < Ikt * d
      BY <1>0, <1>3, <2>2, <3>2, <3>3
    <3>5. d = 0
      BY <1>0, <3>2, <3>4, SmallMultiple
    <3> QED BY <1>0, <3>3, <3>5
  <2> QED BY <1>4, <2>1, <2>2 DEF PeriodFits
<1>5. (t + e) % c = 0
  <2> DEFINE y == t + e
  <2>1. y \in Int /\ y = c * m + 0 /\ 0 \in 0 .. c - 1
    BY <1>0, <1>2, <1>3
  <2> HIDE DEF y, c
  <2>2. y % c = 0
    BY <1>0, <1>2, <2>1, RemainderUnique
  <2> QED BY <2>2 DEF y
<1>6. Small(e)
  BY <1>3, <1>4 DEF Small
<1> QED BY <1>3, <1>5, <1>6

\* The next turn goes on where this one ends.
LEMMA NextTurn ==
  ASSUME NEW k \in Nat
  PROVE  Follows((k * Ikt + Ikt - 1) % Cycle, (k + 1) * Ikt)
<1> DEFINE x == k * Ikt + Ikt - 1
<1> DEFINE y == (k + 1) * Ikt
<1>0. Cycle \in Nat /\ Cycle > 0 /\ x \in Int /\ y \in Int /\ y = x + 1
  BY StPhyBoxAssumption
<1> HIDE DEF x, y
<1>1. ((x % Cycle) + 1) % Cycle = (x + 1) % Cycle
  <2>1. \A e \in Int : ((x % Cycle) + e) % Cycle = (x + e) % Cycle
    BY <1>0, RemainderAdd
  <2> QED BY <2>1
<1>2. x % Cycle \in Int
  BY <1>0, DivisionTheorem
<1>3. Small(0)
  BY <1>0 DEF Small
<1>4. (x % Cycle) + 1 + 0 = (x % Cycle) + 1
  BY <1>2
<1>5. Follows(x % Cycle, y)
  BY <1>0, <1>1, <1>3, <1>4 DEF Follows
<1> QED BY <1>5 DEF x, y

\* So does a loop that starts again from its first turn.
LEMMA FirstTurn ==
  ASSUME NEW k \in Nat, WholeCycle(k)
  PROVE  Follows((k * Ikt + Ikt - 1) % Cycle, 0)
<1> DEFINE x == k * Ikt + Ikt - 1
<1> DEFINE y == (k + 1) * Ikt
<1>0. Cycle \in Nat /\ Cycle > 0 /\ x \in Int /\ y \in Int /\ y = x + 1
  BY StPhyBoxAssumption
<1>1. PICK e \in Int : Small(e) /\ (y + e) % Cycle = 0
  BY WholeCycleNear
<1> HIDE DEF x, y
<1>2. ((x % Cycle) + (1 + e)) % Cycle = (x + (1 + e)) % Cycle
  <2>1. \A d \in Int : ((x % Cycle) + d) % Cycle = (x + d) % Cycle
    BY <1>0, RemainderAdd
  <2>2. 1 + e \in Int
    OBVIOUS
  <2> QED BY <2>1, <2>2
<1>3. x % Cycle \in Int
  BY <1>0, DivisionTheorem
<1>4. (x % Cycle) + 1 + e = (x % Cycle) + (1 + e) /\ x + (1 + e) = y + e
  BY <1>0, <1>3
<1>5. 0 % Cycle = 0
  <2>1. 0 = Cycle * 0 + 0 /\ 0 \in 0 .. Cycle - 1
    BY <1>0
  <2> QED BY <1>0, <2>1, RemainderUnique
<1>6. Follows(x % Cycle, 0)
  BY <1>1, <1>2, <1>4, <1>5 DEF Follows
<1> QED BY <1>6 DEF x

\* The angles of the waves.
LEMMA AngleStep ==
  ASSUME iovars \in Tables, PcOK, SubnetsOK, SignalsOK, OutInv, FrameInv, AngleInv, [Next]_vars
  PROVE  AngleInv'
<1> SUFFICES ASSUME NEW b \in Boxes, ~Filing', NEW i \in Waves(b)'
             PROVE  AngleOK(frame[b].AO[i].angle)'
  BY DEF AngleInv
<1>0. pc.k \in Nat /\ pc.kNT \in Nat /\ Ikt \in Nat /\ Ikt > 0 /\ Cycle \in Nat /\ Cycle > 0
  BY StPhyBoxAssumption DEF PcOK, PcType
<1> DEFINE a == frame[b].AO[i].angle
<1>1. CASE RecvSendPhyIO \/ InitBoxes
  <2>1. pc'.at \in {"init", "first", "over"}
    <3>1. CASE InitBoxes
      BY <3>1, Moves
    <3>2. CASE AllocBuf
      <4>1. pc' = [pc EXCEPT !.at = "init", !.i = 1] /\ pc \in PcType
        BY <3>2 DEF AllocBuf, PcOK
      <4> QED BY <4>1 DEF PcType
    <3>3. ASSUME CollectSubnets \/ AddVar \/ SubnetDone PROVE FALSE
      BY <3>3 DEF CollectSubnets, AddVar, SubnetDone, Filing, PcOK, PcType
    <3> QED BY <1>1, <3>1, <3>2, <3>3 DEF RecvSendPhyIO
  <2> QED BY <2>1 DEF AngleOK
<1>2. CASE ~RecvSendPhyIO /\ ~InitBoxes
  <2>1. ~Filing
    BY <1>2 DEF Next, RTSTPhySim, RecvFirst, Output, MarkInput_Wait, GetData,
       SearchTurn, HoldTurn, RecvStep, EndSimulating, Filing, Tick, vars
  <2>2. UNCHANGED table /\ sig' = sig /\ ready' = ready
    BY <1>2, <2>1, TableFixed, LeftAlone DEF table
  <2>3. i \in DOMAIN sig[b]["AO"] /\ sig[b]["AO"][i].inst /\ "AO" \in ready[b] /\ i \in Waves(b)
    BY <2>2 DEF Waves
  <2>4. Parts = Ikt /\ ishaveInstantInput
    BY <2>3, WavesPart
  <2>5. AngleOK(a) /\ OutOK(b) /\ FrameOK(b)
    BY <2>1, <2>3 DEF AngleInv, OutInv, FrameInv
  <2>6. PICK x, x2 : x = a /\ x2 = a'
    OBVIOUS
  <2>7. AngleOK(x)
    BY <2>5, <2>6
  <2>8. SUFFICES AngleOK(x2)'
    BY <2>6
  <2> HIDE DEF a
  <2>9. CASE Output
    <3>1. pc'.at = "wait" /\ pc'.kNT = pc.kNT /\ pc'.k = pc.k
      BY <2>9, Moves DEF Stays
    <3>2. FrameOK(b)'
      BY FrameStep, <2>1, <2>2, TableFixed DEF FrameInv
    <3>3. frame'[b].AO[i] = out'[b].Volt[i]
      BY <2>2, <2>3, <3>1, <3>2 DEF FrameOK
    <3>4. frame'[b].AO[i] = WaveValue(out[b].Vinst[sig[b]["AO"][i].idxVal2], pc.k, pc.kNT)
      BY <2>3, <2>5, <2>9, <3>3, OutputFacts
    <3>5. x2 = (pc.k * Ikt + pc.kNT) % Cycle
      BY <2>6, <3>4 DEF WaveValue, a
    <3> QED BY <3>1, <3>5 DEF AngleOK
  <2>10. CASE EndSimulating
    <3>1. pc'.at = "over"
      BY <2>10, Moves
    <3> QED BY <3>1 DEF AngleOK
  <2>11. CASE ~Output /\ ~EndSimulating
    <3>0. x2 = x
      BY <2>1, <2>6, <2>11, LeftAlone DEF a
    <3>1. CASE RecvFirst
      <4>1. CASE pc'.at = "out" /\ pc'.k = 0 /\ pc'.kNT = 0
        <5>1. pc.at = "first"
          BY <3>1 DEF RecvFirst
        <5>2. frame[b].AO[i] = Flat
          BY <2>3, <2>5, <5>1 DEF FrameOK, AO_allocBuf, AtRest
        <5>3. x = Cycle - 1
          BY <2>6, <5>2 DEF Flat, a
        <5>4. Small(0) /\ x + 1 + 0 = Cycle
          BY <1>0, <5>3 DEF Small
        <5>5. Cycle % Cycle = 0 /\ 0 % Cycle = 0
          <6>1. Cycle = Cycle * 1 + 0 /\ 0 = Cycle * 0 + 0 /\ 0 \in 0 .. Cycle - 1
            BY <1>0
          <6> QED BY <1>0, <6>1, RemainderUnique
        <5>6. Follows(x, 0)
          BY <5>4, <5>5 DEF Follows
        <5>7. 0 * Ikt = 0
          BY <1>0
        <5> QED BY <3>0, <4>1, <5>6, <5>7 DEF AngleOK
      <4>2. CASE pc'.at \in {"first", "over"}
        BY <4>2 DEF AngleOK
      <4> QED BY <3>1, <4>1, <4>2, Moves
    <3>2. CASE RecvStep
      <4>1. /\ pc.at = "recv" /\ pc'.k = pc.k /\ pc'.loop = pc.loop /\ pc.loop = "simulate"
            /\ pc'.at \in {"recv", "get", "clear"}
        BY <3>2, Moves DEF Stays, PcOK
      <4>2. Follows(x, pc.k * Ikt)
        BY <2>7, <4>1 DEF AngleOK
      <4> QED BY <3>0, <4>1, <4>2 DEF AngleOK
    <3>3. CASE MarkInput_Wait
      <4>1. x = (pc.k * Ikt + pc.kNT) % Cycle
        BY <2>7, <3>3 DEF AngleOK, MarkInput_Wait
      <4>2. CASE pc'.at = "wait" /\ pc'.k = pc.k /\ pc'.kNT = pc.kNT
        BY <3>0, <4>1, <4>2 DEF AngleOK
      <4>3. CASE pc'.at = "out" /\ pc'.k = pc.k /\ pc'.kNT = pc.kNT + 1
        <5>1. pc.k * Ikt + pc.kNT = pc'.k * Ikt + pc'.kNT - 1 /\ pc'.kNT > 0
          <6> DEFINE y == pc.k * Ikt
          <6>1. y \in Nat /\ pc'.k * Ikt = y
            BY <1>0, <4>3
          <6> HIDE DEF y
          <6>2. y + pc.kNT = y + pc'.kNT - 1 /\ pc'.kNT > 0
            BY <1>0, <4>3, <6>1
          <6> QED BY <6>1, <6>2 DEF y
        <5> QED BY <3>0, <4>1, <4>3, <5>1 DEF AngleOK
      <4>4. CASE pc.kNT = Parts - 1 /\ pc.loop # "simulate" /\ pc'.at = "get" /\ pc'.k = pc.k
                 /\ pc'.loop = pc.loop
        <5>1. pc.k * Ikt + pc.kNT = pc'.k * Ikt + Ikt - 1
          BY <1>0, <2>4, <4>4
        <5> QED BY <3>0, <4>1, <4>4, <5>1 DEF AngleOK
      <4>5. CASE pc.kNT = Parts - 1 /\ pc'.at = "recv" /\ pc'.k = pc.k + 1
        <5>1. pc.k * Ikt + pc.kNT = pc.k * Ikt + Ikt - 1
          BY <1>0, <2>4, <4>5
        <5>2. Follows(x, (pc.k + 1) * Ikt)
          BY <1>0, <4>1, <5>1, NextTurn
        <5>3. Follows(x, pc'.k * Ikt)
          BY <4>5, <5>2
        <5> QED BY <3>0, <4>5, <5>3 DEF AngleOK
      <4> QED BY <3>3, <4>2, <4>3, <4>4, <4>5, WaitMoves
    <3>4. CASE GetData
      <4>1. /\ pc.at = "get" /\ pc'.k = pc.k /\ pc'.loop = pc.loop
            /\ IF pc.loop = "simulate" THEN pc'.at = "out" /\ pc'.kNT = 0
               ELSE pc'.at = "decide" /\ pc'.kNT = pc.kNT
        BY <3>4, Moves DEF Stays
      <4>2. CASE pc.loop = "simulate"
        <5>1. Follows(x, pc.k * Ikt)
          BY <2>7, <4>1, <4>2 DEF AngleOK
        <5> QED BY <3>0, <4>1, <4>2, <5>1 DEF AngleOK
      <4>3. CASE pc.loop # "simulate"
        <5>1. x = (pc.k * Ikt + Ikt - 1) % Cycle
          BY <2>7, <4>1, <4>3 DEF AngleOK
        <5> QED BY <3>0, <4>1, <4>3, <5>1 DEF AngleOK
      <4> QED BY <4>2, <4>3
    <3>5. CASE SearchTurn \/ HoldTurn
      <4>1. /\ pc.at = "decide" /\ pc.loop # "simulate"
            /\ \/ pc'.at = "over"
               \/ MayLeave /\ pc'.at = "out" /\ pc'.k = 0 /\ pc'.kNT = 0
               \/ MayLeave /\ pc'.at = "recv" /\ pc'.k = 0
               \/ pc'.at = "out" /\ pc'.k = pc.k + 1 /\ pc'.kNT = 0
        BY <3>5, Moves
      <4>2. x = (pc.k * Ikt + Ikt - 1) % Cycle
        BY <2>7, <4>1 DEF AngleOK
      <4>3. CASE pc'.at = "over"
        BY <4>3 DEF AngleOK
      <4>4. CASE MayLeave /\ pc'.at \in {"out", "recv"} /\ pc'.k = 0 /\ (pc'.at = "out" => pc'.kNT = 0)
        <5>1. WholeCycle(pc.k)
          BY <2>4, <4>4 DEF MayLeave
        <5>2. Follows(x, 0)
          BY <1>0, <4>2, <5>1, FirstTurn
        <5>3. pc'.k * Ikt = 0
          BY <1>0, <4>4
        <5>4. Follows(x, pc'.k * Ikt)
          BY <5>2, <5>3
        <5> QED BY <3>0, <4>4, <5>4 DEF AngleOK
      <4>5. CASE pc'.at = "out" /\ pc'.k = pc.k + 1 /\ pc'.kNT = 0
        <5>1. Follows(x, (pc.k + 1) * Ikt)
          BY <1>0, <4>2, NextTurn
        <5>2. Follows(x, pc'.k * Ikt)
          BY <4>5, <5>1
        <5> QED BY <3>0, <4>5, <5>2 DEF AngleOK
      <4> QED BY <4>1, <4>3, <4>4, <4>5
    <3>6. CASE UNCHANGED vars \/ \E c \in Boxes : Tick(c)
      <4>1. pc' = pc
        BY <3>6 DEF vars, Tick
      <4> QED BY <2>7, <3>0, <4>1 DEF AngleOK
    <3> QED BY <1>2, <2>11, <3>1, <3>2, <3>3, <3>4, <3>5, <3>6 DEF Next, RTSTPhySim
  <2> QED BY <2>9, <2>10, <2>11
<1> QED BY <1>1, <1>2

-----------------------------------------------------------------------------
(* The boxes and the inputs. *)

BoxType == [running : BOOLEAN, posts : 0 .. MaxPosts, sample : Nat]

\* Starting and stopping touch no sample and add no post.
LEMMA StartStop ==
  ASSUME NEW S, NEW bx \in [Boxes -> BoxType], box = bx,
         box' = Start(S) \/ box' = stopSim(S) \/ box' = box
  PROVE  /\ box' \in [Boxes -> BoxType]
         /\ \A b \in Boxes : box'[b].sample = bx[b].sample /\ box'[b].posts <= bx[b].posts
<1>0. MaxPosts \in Nat /\ 0 \in 0 .. MaxPosts
  BY StPhyBoxAssumption
<1>1. ASSUME NEW b \in Boxes
      PROVE  /\ bx[b] \in BoxType /\ bx[b].posts \in 0 .. MaxPosts
             /\ [bx[b] EXCEPT !.posts = 0, !.running = TRUE] \in BoxType
             /\ [bx[b] EXCEPT !.posts = 0, !.running = TRUE].sample = bx[b].sample
             /\ [bx[b] EXCEPT !.posts = 0, !.running = TRUE].posts = 0
             /\ [bx[b] EXCEPT !.running = FALSE] \in BoxType
             /\ [bx[b] EXCEPT !.running = FALSE].sample = bx[b].sample
             /\ [bx[b] EXCEPT !.running = FALSE].posts = bx[b].posts
  <2>1. bx[b] \in BoxType
    OBVIOUS
  <2> QED BY <1>0, <2>1 DEF BoxType
<1>b. \A b \in Boxes : bx[b].posts \in 0 .. MaxPosts /\ bx[b].sample \in Nat
  BY <1>1 DEF BoxType
<1>2. CASE box' = Start(S)
  <2>1. box' = [b \in Boxes |-> IF b \in S THEN [bx[b] EXCEPT !.posts = 0, !.running = TRUE]
                                ELSE bx[b]]
    BY <1>2 DEF Start
  <2>2. \A b \in Boxes : box'[b] \in BoxType
    BY <1>1, <2>1
  <2>3. box' \in [Boxes -> BoxType]
    BY <2>1, <2>2
  <2>4. ASSUME NEW b \in Boxes
        PROVE  box'[b].sample = bx[b].sample /\ box'[b].posts <= bx[b].posts
    <3>1. CASE b \in S
      <4>1. box'[b].sample = bx[b].sample /\ box'[b].posts = 0
        BY <1>1, <2>1, <3>1
      <4> QED BY <1>0, <1>b, <4>1
    <3>2. CASE b \notin S
      <4>1. box'[b] = bx[b]
        BY <2>1, <3>2
      <4> QED BY <1>0, <1>b, <4>1
    <3> QED BY <3>1, <3>2
  <2> QED BY <2>3, <2>4
<1>3. CASE box' = stopSim(S)
  <2>1. box' = [b \in Boxes |-> IF b \in S THEN [bx[b] EXCEPT !.running = FALSE] ELSE bx[b]]
    BY <1>3 DEF stopSim
  <2>2. \A b \in Boxes : box'[b] \in BoxType
    BY <1>1, <2>1
  <2>3. box' \in [Boxes -> BoxType]
    BY <2>1, <2>2
  <2>4. ASSUME NEW b \in Boxes
        PROVE  box'[b].sample = bx[b].sample /\ box'[b].posts <= bx[b].posts
    <3>1. box'[b].sample = bx[b].sample /\ box'[b].posts = bx[b].posts
      BY <1>1, <2>1
    <3> QED BY <1>0, <1>b, <3>1
  <2> QED BY <2>3, <2>4
<1>4. CASE box' = box
  BY <1>0, <1>b, <1>4
<1> QED BY <1>2, <1>3, <1>4

\* What a step does to the samples and the posts of a box.
LEMMA BoxStep ==
  ASSUME PcOK, SamplesOK, [Next]_vars
  PROVE  /\ box' \in [Boxes -> BoxType]
         /\ \A b \in Boxes :
              \/ box'[b].sample = sent /\ UNCHANGED <<pc, sent, table>>
              \/ /\ box'[b].sample = box[b].sample /\ MarkInput_Wait /\ b = pc.i
                 /\ box'[b].posts = box[b].posts - 1
              \/ /\ box'[b].sample = box[b].sample /\ ~(MarkInput_Wait /\ b = pc.i)
                 /\ box'[b].posts <= box[b].posts
<1>0. /\ box \in [Boxes -> BoxType] /\ sent \in Nat /\ MaxPosts \in Nat \ {0}
      /\ \A b \in Boxes : box[b] \in BoxType /\ box[b].posts \in 0 .. MaxPosts
  BY StPhyBoxAssumption DEF SamplesOK, BoxType
<1>1. CASE \E b \in Boxes : Tick(b)
  <2>1. PICK c \in Boxes : Tick(c)
    BY <1>1
  <2> DEFINE p == Min({box[c].posts + 1, MaxPosts})
  <2>2. p \in 0 .. MaxPosts
    <3>1. {box[c].posts + 1, MaxPosts} \in SUBSET Nat
      BY <1>0
    <3>2. p \in {box[c].posts + 1, MaxPosts} /\ p <= MaxPosts
      BY <3>1, LeastOf
    <3> HIDE DEF p
    <3> QED BY <1>0, <3>2
  <2>3. box' = [box EXCEPT ![c] = [box[c] EXCEPT !.posts = p, !.sample = sent]]
    BY <2>1 DEF Tick
  <2> HIDE DEF p
  <2>4. [box[c] EXCEPT !.posts = p, !.sample = sent] \in BoxType
    BY <1>0, <2>2 DEF BoxType
  <2>5. box' \in [Boxes -> BoxType]
    BY <1>0, <2>3, <2>4
  <2>6. box'[c].sample = sent
    BY <1>0, <2>3 DEF BoxType
  <2>7. \A b \in Boxes : b # c => box'[b] = box[b]
    BY <1>0, <2>3
  <2>8. UNCHANGED <<pc, sent, table>> /\ ~MarkInput_Wait
    <3>1. pc' = pc
      BY <2>1 DEF Tick
    <3>2. ASSUME MarkInput_Wait PROVE pc' # pc
      <4>1. pc.i \in Nat /\ pc.kNT \in Nat
        BY DEF PcOK, PcType
      <4>2. CASE pc'.at # "wait"
        BY <3>2, <4>2, WaitMoves
      <4>3. CASE pc'.at = "wait"
        <5>1. Later # {} /\ pc'.i = Min(Later)
          BY <3>2, <4>3, WaitMoves
        <5>2. Later \in SUBSET Nat
          BY StPhyBoxAssumption DEF Later, pids
        <5>3. Min(Later) \in Later
          BY <5>1, <5>2, LeastOf
        <5> QED BY <4>1, <5>1, <5>3 DEF Later
      <4> QED BY <4>2, <4>3
    <3> QED BY <2>1, <3>1, <3>2 DEF Tick
  <2>9. ASSUME NEW b \in Boxes
        PROVE  \/ box'[b].sample = sent /\ UNCHANGED <<pc, sent, table>>
               \/ /\ box'[b].sample = box[b].sample /\ ~(MarkInput_Wait /\ b = pc.i)
                  /\ box'[b].posts <= box[b].posts
    BY <1>0, <2>6, <2>7, <2>8
  <2> QED BY <2>5, <2>9
<1>2. CASE MarkInput_Wait
  <2>1. pc.i \in Boxes /\ box[pc.i].posts > 0
        /\ box' = [box EXCEPT ![pc.i] = [box[pc.i] EXCEPT !.posts = box[pc.i].posts - 1]]
    BY <1>2 DEF MarkInput_Wait, WaitedFor, PcOK, pids
  <2> DEFINE p == box[pc.i].posts - 1
  <2>2. p \in 0 .. MaxPosts
    BY <1>0, <2>1
  <2>3. box' = [box EXCEPT ![pc.i] = [box[pc.i] EXCEPT !.posts = p]]
    BY <2>1
  <2> HIDE DEF p
  <2>4. [box[pc.i] EXCEPT !.posts = p] \in BoxType
    BY <1>0, <2>1, <2>2 DEF BoxType
  <2>5. box' \in [Boxes -> BoxType]
    BY <1>0, <2>1, <2>3, <2>4
  <2>6. box'[pc.i].sample = box[pc.i].sample /\ box'[pc.i].posts = p
    BY <1>0, <2>1, <2>3 DEF BoxType
  <2>7. \A b \in Boxes : b # pc.i => box'[b] = box[b]
    BY <1>0, <2>3
  <2>8. ASSUME NEW b \in Boxes
        PROVE  \/ /\ box'[b].sample = box[b].sample /\ b = pc.i
                  /\ box'[b].posts = box[b].posts - 1
               \/ /\ box'[b].sample = box[b].sample /\ b # pc.i
                  /\ box'[b].posts <= box[b].posts
    BY <1>0, <2>6, <2>7 DEF p
  <2> QED BY <1>2, <2>5, <2>8
<1>3. CASE ~MarkInput_Wait /\ ~(\E b \in Boxes : Tick(b))
  <2>1. \E S : box' = Start(S) \/ box' = stopSim(S) \/ box' = box
    <3>1. CASE RecvSendPhyIO
      BY <3>1 DEF RecvSendPhyIO, CollectSubnets, AddVar, SubnetDone, AllocBuf
    <3>2. CASE InitBoxes
      BY <3>2 DEF InitBoxes, startSlaveSim
    <3>3. CASE RecvFirst
      BY <3>3 DEF RecvFirst, startMasterSim
    <3>4. CASE SearchTurn
      BY <3>4 DEF SearchTurn
    <3>5. CASE EndSimulating
      BY <3>5 DEF EndSimulating
    <3>6. CASE Output \/ GetData \/ HoldTurn \/ RecvStep \/ UNCHANGED vars
      BY <3>6 DEF Output, GetData, HoldTurn, RecvStep, vars
    <3> QED BY <1>3, <3>1, <3>2, <3>3, <3>4, <3>5, <3>6 DEF Next, RTSTPhySim
  <2>2. PICK S : box' = Start(S) \/ box' = stopSim(S) \/ box' = box
    BY <2>1
  <2>3. /\ box' \in [Boxes -> BoxType]
        /\ \A b \in Boxes : box'[b].sample = box[b].sample /\ box'[b].posts <= box[b].posts
    BY <1>0, <2>2, StartStop
  <2> QED BY <1>3, <2>3
<1> QED BY <1>1, <1>2, <1>3

\* A box falls behind by no more than its posts.
LEMMA SamplesStep ==
  ASSUME iovars \in Tables, PcOK, SubnetsOK, SignalsOK, SamplesOK, [Next]_vars
  PROVE  SamplesOK'
<1>0. /\ box \in [Boxes -> BoxType] /\ sent \in Nat /\ MaxPosts \in Nat /\ pc.i \in Nat
      /\ \A b \in Boxes : /\ box[b].posts \in 0 .. MaxPosts /\ box[b].sample \in Nat
                          /\ box[b].sample <= sent
  BY StPhyBoxAssumption DEF SamplesOK, BoxType, PcOK, PcType
<1>1. box' \in [Boxes -> BoxType]
  BY BoxStep
<1>2. \A b \in Boxes : box'[b].posts \in 0 .. MaxPosts /\ box'[b].sample \in Nat
  BY <1>1 DEF BoxType
<1>3. sent' = IF Output THEN sent + 1 ELSE sent
  BY DEF Next, RecvSendPhyIO, CollectSubnets, AddVar, SubnetDone, AllocBuf, InitBoxes, RTSTPhySim,
     RecvFirst, Output, MarkInput_Wait, GetData, SearchTurn, HoldTurn, RecvStep, EndSimulating,
     Tick, vars
<1>4. sent' \in Nat /\ sent <= sent'
  BY <1>0, <1>3
<1>5. \A b \in Boxes : box'[b].sample \in {box[b].sample, sent}
  BY BoxStep
<1>6. \A b \in Boxes : box'[b].sample <= sent'
  BY <1>0, <1>4, <1>5
<1>7. pc'.at \in {"subnets", "vars", "init", "first"} => sent' = 0
  <2>1. ASSUME pc'.at \in {"subnets", "vars", "init", "first"}
        PROVE  pc.at \in {"subnets", "vars", "init", "first"} /\ ~Output
    <3>1. CASE RecvSendPhyIO
      BY <3>1 DEF RecvSendPhyIO, CollectSubnets, AddVar, SubnetDone, AllocBuf, Output
    <3>2. CASE InitBoxes \/ RTSTPhySim
      BY <2>1, <3>2, Moves, WaitMoves DEF RTSTPhySim, Output
    <3>3. CASE UNCHANGED vars \/ \E b \in Boxes : Tick(b)
      <4>1. pc' = pc
        BY <3>3 DEF vars, Tick
      <4>2. ASSUME Output PROVE pc'.at # pc.at
        BY <4>2, Moves
      <4> QED BY <2>1, <4>1, <4>2
    <3> QED BY <3>1, <3>2, <3>3 DEF Next
  <2> QED BY <1>3, <2>1 DEF SamplesOK
<1>8. ASSUME pc'.at # "over", NEW b \in pids'
      PROVE  WaitedOf(b)' + box'[b].posts <= box'[b].sample + MaxPosts
  <2>0. b \in Boxes
    BY <1>8 DEF pids
  <2>1. WaitedOf(b)' = IF pc'.at = "wait" /\ b >= pc'.i THEN sent' - 1 ELSE sent'
    BY DEF WaitedOf
  <2>2. WaitedOf(b) = IF pc.at = "wait" /\ b >= pc.i THEN sent - 1 ELSE sent
    BY DEF WaitedOf
  <2>b. b \in Nat
    BY <2>0, StPhyBoxAssumption
  <2>3. CASE RecvSendPhyIO
    <3>1. pc.at \in {"subnets", "vars"} /\ ~Output
      BY <2>3 DEF RecvSendPhyIO, CollectSubnets, AddVar, SubnetDone, AllocBuf, Output
    <3>2. sent = 0 /\ sent' = 0
      BY <1>3, <3>1 DEF SamplesOK
    <3>3. WaitedOf(b)' <= 0 /\ WaitedOf(b)' \in Int
      BY <2>1, <3>2
    <3> QED BY <1>0, <1>2, <2>0, <3>3
  <2>4. CASE ~RecvSendPhyIO
    <3>1. sig' = sig /\ pc.at # "over"
      <4>2. sig' = sig
        BY <2>4 DEF Next, InitBoxes, RTSTPhySim, RecvFirst, Output, MarkInput_Wait, GetData,
           SearchTurn, HoldTurn, RecvStep, EndSimulating, Tick, vars, table
      <4>3. ASSUME pc.at = "over" PROVE pc' = pc
        BY <2>4, <4>3 DEF Next, InitBoxes, RTSTPhySim, RecvFirst, Output, MarkInput_Wait,
           GetData, SearchTurn, HoldTurn, RecvStep, EndSimulating, Tick, vars
      <4> QED BY <1>8, <4>2, <4>3
    <3>2. b \in pids
      BY <1>8, <3>1 DEF pids
    <3>3. WaitedOf(b) + box[b].posts <= box[b].sample + MaxPosts
      BY <3>1, <3>2 DEF SamplesOK
    <3>4. CASE box'[b].sample = sent /\ UNCHANGED <<pc, sent, table>>
      BY <1>0, <1>2, <2>0, <2>1, <3>4
    <3>5. CASE /\ box'[b].sample = box[b].sample /\ MarkInput_Wait /\ b = pc.i
               /\ box'[b].posts = box[b].posts - 1
      <4>1. WaitedOf(b) = sent - 1
        BY <2>2, <2>b, <3>5 DEF MarkInput_Wait
      <4>2. WaitedOf(b)' \in Int /\ WaitedOf(b)' <= sent
        BY <1>0, <2>1, <3>5 DEF MarkInput_Wait
      <4>3. box'[b].posts = box[b].posts - 1 /\ box'[b].sample = box[b].sample
        BY <3>5
      <4> QED BY <1>0, <2>0, <3>3, <4>1, <4>2, <4>3
    <3>6. CASE /\ box'[b].sample = box[b].sample /\ ~(MarkInput_Wait /\ b = pc.i)
               /\ box'[b].posts <= box[b].posts
      <4>1. WaitedOf(b)' <= WaitedOf(b) /\ WaitedOf(b)' \in Int /\ WaitedOf(b) \in Int
        <5>1. CASE MarkInput_Wait
          <6>1. pc.at = "wait" /\ sent' = sent /\ b # pc.i
            BY <3>6, <5>1 DEF MarkInput_Wait
          <6>2. CASE b > pc.i
            <7>1. b \in Later
              BY <3>2, <6>2 DEF Later
            <7>2. Later \in SUBSET Nat
              BY StPhyBoxAssumption DEF Later, pids
            <7>3. pc'.at = "wait" /\ pc'.i = Min(Later)
              BY <5>1, <7>1, WaitMoves
            <7>4. Min(Later) \in Nat /\ Min(Later) <= b
              BY <7>1, <7>2, LeastOf
            <7> QED BY <1>0, <2>1, <2>2, <2>b, <6>1, <7>3, <7>4
          <6>3. CASE b < pc.i
            BY <1>0, <2>1, <2>2, <2>b, <6>1, <6>3
          <6> QED BY <1>0, <2>b, <6>1, <6>2, <6>3
        <5>2. CASE Output
          <6>1. pc.at = "out" /\ pc'.at = "wait" /\ pc'.i = Min(pids)
            BY <5>2, Moves
          <6>2. pids \in SUBSET Nat
            BY StPhyBoxAssumption DEF pids
          <6>3. Min(pids) <= b
            BY <3>2, <6>2, LeastOf
          <6> QED BY <1>0, <1>3, <2>1, <2>2, <5>2, <6>1, <6>3
        <5>3. CASE ~MarkInput_Wait /\ ~Output
          <6>1. sent' = sent /\ (pc.at = "wait" => pc' = pc)
            BY <1>3, <2>4, <5>3 DEF Next, InitBoxes, RTSTPhySim, RecvFirst, GetData,
               SearchTurn, HoldTurn, RecvStep, EndSimulating, Tick, vars
          <6> QED BY <1>0, <2>1, <2>2, <6>1
        <5> QED BY <5>1, <5>2, <5>3
      <4> QED BY <1>0, <1>2, <2>0, <3>3, <3>6, <4>1
    <3> QED BY <2>0, <3>4, <3>5, <3>6, BoxStep
  <2> QED BY <2>3, <2>4
<1> QED BY <1>1, <1>4, <1>6, <1>7, <1>8 DEF SamplesOK, BoxType

\* The arrays of the subnets.
LEMMA VoutStep ==
  ASSUME PcOK, VoutOK, [Next]_vars
  PROVE  VoutOK'
<1> SUFFICES ASSUME ~Filing'
             PROVE  /\ DOMAIN Vout' = ToSet(pcsubnet')
                    /\ \A n \in DOMAIN Vout' : DOMAIN Vout'[n] = 0 .. Nout(n)' - 1
  BY DEF VoutOK
<1>0. \A n : Nout(n)' = Nout(n)
  BY TableFixed DEF Nout
<1>1. CASE AllocBuf
  BY <1>0, <1>1 DEF AllocBuf, table
<1>2. CASE ~AllocBuf
  <2>1. ~Filing
    <3>1. ASSUME CollectSubnets \/ AddVar \/ SubnetDone PROVE FALSE
      BY <3>1 DEF CollectSubnets, AddVar, SubnetDone, Filing, PcOK, PcType
    <3> QED BY <1>2, <3>1 DEF Next, RecvSendPhyIO, InitBoxes, RTSTPhySim, RecvFirst,
         Output, MarkInput_Wait, GetData, SearchTurn, HoldTurn, RecvStep, EndSimulating, Filing,
         Tick, vars
  <2>2. /\ pcsubnet' = pcsubnet /\ DOMAIN Vout = ToSet(pcsubnet)
        /\ \A n \in DOMAIN Vout : DOMAIN Vout[n] = 0 .. Nout(n) - 1
    BY <2>1, TableFixed DEF VoutOK, table
  <2>3. CASE GetData
    <3>1. Vout' = [n \in DOMAIN Vout |-> IF pc.loop # "simulate" \/ Nout(n) > 0
                                         THEN setSimuVal(in', n) ELSE Vout[n]]
      BY <2>3 DEF GetData
    <3>2. \A n \in DOMAIN Vout : DOMAIN Vout'[n] = DOMAIN Vout[n]
      BY <3>1 DEF setSimuVal
    <3> QED BY <1>0, <2>2, <3>1, <3>2
  <2>4. CASE ~GetData
    <3>1. Vout' = Vout
      BY <2>1, <2>4 DEF Next, RecvSendPhyIO, CollectSubnets, AddVar, SubnetDone, AllocBuf, InitBoxes,
         RTSTPhySim, RecvFirst, Output, MarkInput_Wait, SearchTurn, HoldTurn, RecvStep,
         EndSimulating, Filing, Tick, vars
    <3> QED BY <1>0, <2>2, <3>1
  <2> QED BY <2>3, <2>4
<1> QED BY <1>1, <1>2

\* The place of an input is one of those of its subnet.
LEMMA PlaceOfInput ==
  ASSUME iovars \in Tables, NEW j \in DOMAIN iovars, ~ToBox(iovars[j].kind)
  PROVE  Place(j) \in 0 .. Nout(iovars[j].net) - 1 /\ Nout(iovars[j].net) > 0
<1> DEFINE T == {i \in DOMAIN iovars : iovars[i].net = iovars[j].net /\ ~ToBox(iovars[i].kind)}
<1> DEFINE S == {i \in 1 .. j - 1 : iovars[i].net = iovars[j].net
                                    /\ ToBox(iovars[i].kind) = ToBox(iovars[j].kind)}
<1>1. S \subseteq T /\ j \in T /\ j \notin S /\ T \subseteq DOMAIN iovars /\ IsFiniteSet(DOMAIN iovars)
  <2>1. DOMAIN iovars = 1 .. Len(iovars) /\ Len(iovars) \in Nat
    BY ListTyped
  <2>2. IsFiniteSet(DOMAIN iovars)
    BY <2>1, FS_Interval
  <2>3. 1 .. j - 1 \subseteq DOMAIN iovars /\ j \notin 1 .. j - 1
    BY <2>1
  <2>4. \A i : ToBox(iovars[i].kind) \in BOOLEAN
    BY DEF ToBox
  <2>5. S \subseteq T
    BY <2>3, <2>4
  <2> QED BY <2>2, <2>3, <2>5
<1>2. Place(j) = Cardinality(S) /\ Nout(iovars[j].net) = Cardinality(T)
  BY DEF Place, Nout
<1> HIDE DEF S, T
<1>3. IsFiniteSet(T)
  BY <1>1, FS_Subset
<1>4. /\ Cardinality(S) \in Nat /\ Cardinality(T) \in Nat /\ Cardinality(S) <= Cardinality(T)
      /\ Cardinality(T) = Cardinality(S) => T = S
  <2>1. IsFiniteSet(S)
    BY <1>1, <1>3, FS_Subset
  <2> QED BY <1>1, <1>3, <2>1, FS_Subset, FS_CardinalityType
<1>5. Cardinality(S) < Cardinality(T)
  BY <1>1, <1>4
<1> QED BY <1>2, <1>4, <1>5

\* What the subnets are sent is read from the signals their variables have.
LEMMA InputsTaken ==
  ASSUME iovars \in Tables, PcOK, SubnetsOK, SignalsOK, FrameInv, SamplesOK, VoutOK, OwnSignals,
         GetData, NEW j \in DOMAIN iovars, NEW b, NEW k,
         b = iovars[j].box, k = iovars[j].kind, k \in ready[b] \ {"AO", "DO"}
  PROVE  /\ Vout'[iovars[j].net][Place(j)] =
              [kind |-> k, box |-> b,
               got |-> [no |-> iovars[j].idno, frame |-> box[b].sample]]
         /\ box[b].sample >= sent - MaxPosts
<1> DEFINE n == iovars[j].net
<1> DEFINE idx == Place(j)
<1>0. /\ b \in Boxes /\ k \in {"AI", "DI"} /\ k \in Kinds /\ pc.at = "get" /\ ~Filing
      /\ iovars \in Seq(IOVars) /\ DOMAIN iovars \subseteq Nat
  <2>1. iovars[j] \in IOVars /\ iovars \in Seq(IOVars) /\ DOMAIN iovars \subseteq Nat
    BY ListTyped
  <2> QED BY <2>1 DEF IOVars, Kinds, GetData, Filing
<1>1. n \in DOMAIN Vout
  <2>1. Turn(n) \in DOMAIN pcsubnet /\ pcsubnet[Turn(n)] = n
    BY <1>0, TurnFacts
  <2> QED BY <1>0, <2>1 DEF VoutOK, ToSet
<1>2. idx \in DOMAIN Vout[n] /\ Nout(n) > 0
  <2>1. ~ToBox(iovars[j].kind)
    BY <1>0 DEF ToBox
  <2>2. idx \in 0 .. Nout(n) - 1 /\ Nout(n) > 0
    BY <2>1, PlaceOfInput
  <2> QED BY <1>0, <1>1, <2>2 DEF VoutOK
<1>3. Filed = DOMAIN iovars
  BY <1>0 DEF Filed
<1>4. PICK x \in DOMAIN sig[b][k] : sig[b][k][x].idno = iovars[j].idno
  <2>1. ListHas(sig[b][k], b, k, Filed)
    BY <1>0 DEF SignalsOK
  <2> QED BY <1>3, <2>1 DEF ListHas
<1>5. ASSUME NEW c \in Boxes, NEW h \in Kinds, NEW y \in DOMAIN sig[c][h]
      PROVE  \E i \in DOMAIN iovars :
               /\ sig[c][h][y].VSimIO[1] = SimuVar(i) /\ iovars[i].box = c /\ iovars[i].kind = h
               /\ iovars[i].idno = sig[c][h][y].idno
  <2>1. ListOK(sig[c][h], c, h, Filed)
    BY DEF SignalsOK
  <2>2. PICK i \in Filed \cap Shares(c, h, sig[c][h][y].idno) : sig[c][h][y].VSimIO[1] = SimuVar(i)
    BY <2>1 DEF ListOK
  <2> QED BY <1>3, <2>2 DEF Shares
<1>6. sig[b][k][x].VSimIO[1] = SimuVar(j)
  <2>1. PICK i \in DOMAIN iovars :
               /\ sig[b][k][x].VSimIO[1] = SimuVar(i) /\ iovars[i].box = b /\ iovars[i].kind = k
               /\ iovars[i].idno = sig[b][k][x].idno
    BY <1>0, <1>5
  <2>2. i = j
    BY <1>0, <1>4, <2>1 DEF OwnSignals
  <2> QED BY <2>1, <2>2
<1>7. ASSUME NEW c \in Boxes, NEW h \in {"AI", "DI"}, NEW y \in DOMAIN sig[c][h],
             sig[c][h][y].VSimIO[1] = SimuVar(j)
      PROVE  c = b /\ h = k /\ y = x
  <2>1. h \in Kinds
    BY DEF Kinds
  <2>2. PICK i \in DOMAIN iovars :
               /\ sig[c][h][y].VSimIO[1] = SimuVar(i) /\ iovars[i].box = c /\ iovars[i].kind = h
               /\ iovars[i].idno = sig[c][h][y].idno
    BY <1>5, <2>1
  <2>3. iovars[i].net = iovars[j].net /\ Place(i) = Place(j)
    <3>1. SimuVar(i) = SimuVar(j)
      BY <1>7, <2>2
    <3>2. SimuVar(i).prono = SimuVar(j).prono /\ SimuVar(i).idxIO = SimuVar(j).idxIO
      BY <3>1
    <3> QED BY <3>2 DEF SimuVar
  <2>4. ToBox(iovars[i].kind) = ToBox(iovars[j].kind)
    BY <1>0, <2>2 DEF ToBox
  <2>5. ~(i < j) /\ ~(j < i)
    <3>1. Place(i) \in Nat /\ ~(Place(i) < Place(j)) /\ ~(Place(j) < Place(i))
      BY <2>3, PlaceFacts
    <3> QED BY <2>3, <2>4, <3>1, PlaceFacts
  <2>6. i = j
    BY <1>0, <2>5
  <2>7. c = b /\ h = k /\ sig[b][k][y].idno = sig[b][k][x].idno
    BY <1>4, <2>2, <2>6
  <2>8. ListOK(sig[b][k], b, k, Filed)
    BY <1>0 DEF SignalsOK
  <2> QED BY <2>7, <2>8 DEF ListOK
<1>8. SimuVar(j) = [prono |-> n, idxIO |-> idx]
  BY DEF SimuVar
<1> HIDE DEF n, idx
<1>9. /\ Serves(b, k, n, idx) = {x}
      /\ \A c \in Boxes, h \in {"AI", "DI"} : Served(c, h, n, idx) <=> c = b /\ h = k
  <2>1. ASSUME NEW c \in Boxes, NEW h \in {"AI", "DI"}
        PROVE  Serves(c, h, n, idx) = {y \in DOMAIN sig[c][h] : sig[c][h][y].VSimIO[1] = SimuVar(j)}
    BY <1>8 DEF Serves
  <2>2. Serves(b, k, n, idx) = {x}
    BY <1>0, <1>4, <1>6, <1>7, <2>1
  <2>3. ASSUME NEW c \in Boxes, NEW h \in {"AI", "DI"}, Serves(c, h, n, idx) # {}
        PROVE  c = b /\ h = k
    BY <1>7, <2>1, <2>3
  <2> QED BY <2>2, <2>3 DEF Served
<1>10. {c \in pids : \E h \in {"AI", "DI"} : Served(c, h, n, idx)} = {b}
  <2>1. pids \subseteq Boxes /\ b \in pids
    <3>1. sig[b][k] # <<>>
      BY <1>4
    <3> QED BY <1>0, <3>1 DEF pids
  <2> QED BY <1>0, <1>9, <2>1
<1>11. PICK data : data = in'
  OBVIOUS
<1>12. PID_setSimuVal(b, data, n, idx) = [kind |-> k, box |-> b, got |-> data[b][k][x]]
  <2>1. sig[b][k] \in Seq(Signal)
    BY <1>0 DEF SignalsOK, ListOK
  <2>2. Max(Serves(b, k, n, idx)) = x
    BY <1>4, <1>9, <2>1, OnlyOne
  <2>3. InputOf(b, k, data, n, idx) = [kind |-> k, box |-> b, got |-> data[b][k][x]]
    BY <2>2 DEF InputOf
  <2>4. CASE k = "DI"
    BY <1>0, <1>9, <2>3, <2>4 DEF PID_setSimuVal, DI_setSimuVal
  <2>5. CASE k = "AI"
    BY <1>0, <1>9, <2>3, <2>5 DEF PID_setSimuVal, AI_setSimuVal
  <2> QED BY <1>0, <2>4, <2>5
<1>13. Vout'[n][idx] = PID_setSimuVal(b, data, n, idx)
  <2>1. Vout'[n] = setSimuVal(data, n)
    BY <1>1, <1>2, <1>11 DEF GetData
  <2>2. b \in Nat /\ Max({b}) = b
    BY <1>0, StPhyBoxAssumption, OnlyOne
  <2> QED BY <1>2, <1>10, <2>1, <2>2 DEF setSimuVal
<1>14. data[b][k][x] = [no |-> iovars[j].idno, frame |-> box[b].sample]
  <2>1. data[b] = [AI |-> Samples(b, "AI"), DI |-> Samples(b, "DI")]
    BY <1>0, <1>11 DEF GetData, getdatafromPID, PID_getdatafromPID, AI_getdatafromPID, DI_getdatafromPID
  <2>2. data[b][k] = Samples(b, k)
    BY <1>0, <2>1
  <2>3. k \in ready[b]
    OBVIOUS
  <2> QED BY <1>4, <2>2, <2>3 DEF Samples
<1>15. box[b].sample >= sent - MaxPosts
  <2>1. b \in pids /\ WaitedOf(b) = sent
    BY <1>0, <1>10 DEF WaitedOf
  <2>2. sent + box[b].posts <= box[b].sample + MaxPosts
    BY <1>0, <2>1 DEF SamplesOK
  <2>3. sent \in Nat /\ box[b].posts \in 0 .. MaxPosts /\ box[b].sample \in Nat /\ MaxPosts \in Nat
    BY <1>0, StPhyBoxAssumption DEF SamplesOK
  <2> QED BY <2>2, <2>3
<1> QED BY <1>12, <1>13, <1>14, <1>15 DEF n, idx

\* The inputs of the subnets stay those of their variables until they are used.
LEMMA InputsStep ==
  ASSUME iovars \in Tables, PcOK, SubnetsOK, SignalsOK, FrameInv, SamplesOK, VoutOK, OwnSignals,
         InputsFollowOutputs, [Next]_vars
  PROVE  InputsFollowOutputs'
<1> DEFINE Fresh == \/ pc.at = "decide"
                    \/ pc.at = "out" /\ pc.loop = "simulate" /\ pc.kNT = 0
<1> SUFFICES ASSUME Fresh', NEW j \in DOMAIN iovars',
                    iovars'[j].kind \in ready'[iovars'[j].box] \ {"AO", "DO"}
             PROVE  LET got == Vout'[iovars'[j].net][Place(j)']
                    IN /\ got.kind = iovars'[j].kind /\ got.box = iovars'[j].box
                       /\ got.got.no = iovars'[j].idno
                       /\ got.got.frame >= sent' - MaxPosts
  BY DEF InputsFollowOutputs
<1>1. iovars' = iovars
  BY TableFixed
<1>2. Place(j)' = Place(j)
  BY <1>1 DEF Place
<1>3. CASE GetData
  <2>1. ready' = ready /\ sent' = sent
    BY <1>3 DEF GetData
  <2>2. PICK b, k : b = iovars[j].box /\ k = iovars[j].kind
    OBVIOUS
  <2>3. j \in DOMAIN iovars /\ k \in ready[b] \ {"AO", "DO"}
    BY <1>1, <2>1, <2>2
  <2>4. /\ Vout'[iovars[j].net][Place(j)] =
             [kind |-> k, box |-> b, got |-> [no |-> iovars[j].idno, frame |-> box[b].sample]]
        /\ box[b].sample >= sent - MaxPosts
    BY <1>3, <2>2, <2>3, InputsTaken
  <2>5. Vout'[iovars'[j].net][Place(j)'] =
          [kind |-> k, box |-> b, got |-> [no |-> iovars[j].idno, frame |-> box[b].sample]]
    BY <1>1, <1>2, <2>4
  <2> QED BY <1>1, <2>1, <2>2, <2>4, <2>5
<1>4. CASE ~GetData
  <2>1. pc' = pc /\ Vout' = Vout /\ ready' = ready /\ sent' = sent
    <3>1. CASE UNCHANGED vars \/ \E c \in Boxes : Tick(c)
      BY <3>1 DEF vars, Tick
    <3>2. CASE RecvSendPhyIO
      <4>1. CASE AllocBuf
        <5>1. pc' = [pc EXCEPT !.at = "init", !.i = 1] /\ pc \in PcType
          BY <4>1 DEF AllocBuf, PcOK
        <5> QED BY <5>1 DEF PcType
      <4>2. CASE CollectSubnets \/ AddVar \/ SubnetDone
        <5>1. pc'.at \in {"subnets", "vars"}
          BY <4>2 DEF CollectSubnets, AddVar, SubnetDone, PcOK, PcType
        <5> QED BY <5>1
      <4> QED BY <3>2, <4>1, <4>2 DEF RecvSendPhyIO
    <3>3. CASE InitBoxes \/ RecvFirst \/ Output \/ SearchTurn \/ HoldTurn \/ RecvStep \/ EndSimulating
      BY <3>3, Moves
    <3>4. CASE MarkInput_Wait
      <4>1. pc'.at = "out" => pc'.kNT = pc.kNT + 1 /\ pc.kNT \in Nat
        BY <3>4, WaitMoves DEF PcOK, PcType
      <4> QED BY <3>4, <4>1, WaitMoves
    <3> QED BY <1>4, <3>1, <3>2, <3>3, <3>4 DEF Next, RTSTPhySim
  <2> QED BY <1>1, <1>2, <2>1 DEF InputsFollowOutputs
<1> QED BY <1>3, <1>4

-----------------------------------------------------------------------------
(* The invariant, and the theorems. *)

\* Every step keeps the words of the waves.
LEMMA ShapeStep ==
  ASSUME iovars \in Tables, PcOK, SubnetsOK, SignalsOK, OutInv, FrameInv, ShapeInv, [Next]_vars
  PROVE  ShapeInv'
<1> SUFFICES ASSUME NEW b \in Boxes, ~Filing', NEW i \in Waves(b)'
             PROVE  IsWave(frame[b].AO[i])'
  BY DEF ShapeInv
<1>0. IsWave(Flat)
  BY StPhyBoxAssumption DEF IsWave, Flat
<1>1. CASE pc'.at \in {"init", "first"}
  <2>1. FrameOK(b)'
    BY FrameStep DEF FrameInv
  <2>2. frame'[b].AO[i] = AtRest(sig[b]["AO"][i])'
    BY <1>1, <2>1 DEF FrameOK, AO_allocBuf, Waves
  <2>3. frame'[b].AO[i] = Flat
    BY <2>2 DEF AtRest, Waves, Flat
  <2> QED BY <1>0, <2>3 DEF IsWave
<1>2. CASE pc'.at \notin {"init", "first"}
  <2>1. ~Filing /\ ~AllocBuf
    <3>1. ASSUME AllocBuf PROVE FALSE
      <4>1. pc' = [pc EXCEPT !.at = "init", !.i = 1] /\ pc \in PcType
        BY <3>1 DEF AllocBuf, PcOK
      <4> QED BY <1>2, <4>1 DEF PcType
    <3>2. ASSUME CollectSubnets \/ AddVar \/ SubnetDone PROVE FALSE
      BY <3>2 DEF CollectSubnets, AddVar, SubnetDone, Filing, PcOK, PcType
    <3> QED BY <3>1, <3>2 DEF Next, RecvSendPhyIO, InitBoxes, RTSTPhySim, RecvFirst,
         Output, MarkInput_Wait, GetData, SearchTurn, HoldTurn, RecvStep, EndSimulating, Filing,
         Tick, vars
  <2>2. UNCHANGED table /\ sig' = sig
    BY <2>1, TableFixed DEF table
  <2>3. i \in DOMAIN sig[b]["AO"] /\ sig[b]["AO"][i].inst /\ "AO" \in ready'[b]
    BY <2>2 DEF Waves
  <2>4. CASE InitBoxes
    <3>1. FrameOK(b) /\ pc.at = "init" /\ frame' = frame
      BY <2>1, <2>4 DEF FrameInv, InitBoxes
    <3>2. frame[b].AO[i] = Flat
      BY <2>3, <3>1 DEF FrameOK, AO_allocBuf, AtRest
    <3> QED BY <1>0, <3>1, <3>2 DEF IsWave
  <2>5. CASE Output \/ EndSimulating
    <3>1. ready' = ready /\ frame'[b].AO = AO_SenddataToPID(b, out'[b])
      BY <2>5 DEF Output, EndSimulating, SenddataToPID, PID_SenddataToPID
    <3>2. frame'[b].AO = out'[b].Volt
      BY <2>3, <3>1 DEF AO_SenddataToPID
    <3>3. OutOK(b)
      BY <2>1 DEF OutInv
    <3>4. CASE Output
      <4>1. PICK v : v = out[b].Vinst[sig[b]["AO"][i].idxVal2]
        OBVIOUS
      <4>2. out'[b].Volt[i] = WaveValue(v, pc.k, pc.kNT)
        BY <2>3, <3>3, <3>4, <4>1, OutputFacts
      <4>3. (pc.k * Ikt + pc.kNT) % Cycle \in 0 .. Cycle - 1
        <5> DEFINE t == pc.k * Ikt + pc.kNT
        <5>1. t \in Int /\ Cycle \in Nat /\ Cycle > 0
          BY StPhyBoxAssumption DEF PcOK, PcType
        <5> HIDE DEF t
        <5>2. t % Cycle \in 0 .. Cycle - 1
          BY <5>1, DivisionTheorem
        <5> QED BY <5>2 DEF t
      <4> QED BY <3>2, <4>2, <4>3 DEF IsWave, WaveValue
    <3>5. CASE EndSimulating
      <4>1. out'[b] = [out[b] EXCEPT !.Volt = AO_ClearOutput(b)]
        BY <3>5 DEF EndSimulating, ClearOutput
      <4>2. out[b] = [Volt |-> out[b].Volt, Vinst |-> out[b].Vinst, data |-> out[b].data]
        BY <3>3 DEF OutOK
      <4>3. out'[b].Volt = AO_ClearOutput(b)
        BY <4>1, <4>2
      <4>4. out'[b].Volt[i] = Flat
        BY <2>3, <4>3 DEF AO_ClearOutput, AtRest
      <4> QED BY <1>0, <3>2, <4>4 DEF IsWave
    <3> QED BY <2>5, <3>4, <3>5
  <2>6. CASE ~InitBoxes /\ ~Output /\ ~EndSimulating
    <3>1. frame' = frame /\ ready' = ready
      BY <2>1, <2>6, LeftAlone
    <3>2. i \in Waves(b)
      BY <2>3, <3>1 DEF Waves
    <3>3. IsWave(frame[b].AO[i])
      BY <2>1, <3>2 DEF ShapeInv
    <3> QED BY <3>1, <3>3 DEF IsWave
  <2> QED BY <2>4, <2>5, <2>6
<1> QED BY <1>1, <1>2

\* The start: nothing is filed.
LEMMA InitInv ==
  ASSUME Init
  PROVE  Inv
<1>1. /\ pc = [at |-> "subnets", loop |-> "none", k |-> 0, kNT |-> 0, n |-> 1, i |-> 1]
      /\ iovars \in Tables /\ pcsubnet = <<>> /\ sig = NoSignals /\ Filing /\ pc.at = "subnets"
      /\ sent = 0 /\ ready = [b \in Boxes |-> {}]
      /\ box = [b \in Boxes |-> [running |-> FALSE, posts |-> 0, sample |-> 0]]
      /\ pids = {}
  BY DEF Init, Filing, pids, NoSignals
<1>2. PcOK
  <2>1. iovars \in Seq(IOVars)
    BY <1>1, ListTyped
  <2>2. 1 \in 1 .. Len(iovars) + 1 /\ 1 \in 1 .. Len(pcsubnet) + 1
    BY <1>1, <2>1
  <2>3. 0 \in 0 .. Parts - 1
    BY PartsPositive
  <2>4. pc \in PcType
    BY <1>1 DEF PcType, Places
  <2> QED BY <1>1, <2>2, <2>3, <2>4 DEF PcOK, Looping, Filing
<1>3. SubnetsOK
  <2>1. DOMAIN iovars \subseteq Nat \ {0}
    BY <1>1, ListTyped
  <2>2. \A i \in DOMAIN iovars : ~(i < pc.i)
    BY <1>1, <2>1
  <2>3. pcsubnet \in Seq(Nat) /\ DOMAIN pcsubnet = {}
    BY <1>1
  <2> QED BY <2>2, <2>3, <1>1 DEF SubnetsOK
<1>4. SignalsOK
  <2>1. Filed = {}
    BY <1>1 DEF Filed
  <2>2. \A b \in Boxes, k \in Kinds : sig[b][k] = <<>>
    BY <1>1 DEF NoSignals
  <2>3. DOMAIN sig = Boxes /\ \A b \in Boxes : DOMAIN sig[b] = Kinds
    BY <1>1 DEF NoSignals
  <2>e. <<>> \in Seq(Signal) /\ DOMAIN <<>> = {}
    OBVIOUS
  <2>4. ASSUME NEW b, NEW k
        PROVE  /\ ListOK(<<>>, b, k, {}) /\ ListHas(<<>>, b, k, {}) /\ WavesOK(<<>>)
               /\ FromTable(<<>>, b, {})
    <3>1. ListOK(<<>>, b, k, {})
      BY <2>e DEF ListOK
    <3>2. ListHas(<<>>, b, k, {})
      BY DEF ListHas
    <3>3. Instants(<<>>) = 0
      <4>1. {i \in DOMAIN <<>> : <<>>[i].inst} = {}
        BY <2>e
      <4> QED BY <4>1, FS_EmptySet DEF Instants
    <3>4. WavesOK(<<>>)
      BY <2>e, <3>3 DEF WavesOK
    <3>5. FromTable(<<>>, b, {})
      BY <2>e DEF FromTable
    <3> QED BY <3>1, <3>2, <3>4, <3>5
  <2>5. "AO" \in Kinds
    BY DEF Kinds
  <2> QED BY <2>1, <2>2, <2>3, <2>4, <2>5 DEF SignalsOK
<1>5. OutInv /\ FrameInv /\ ShapeInv /\ AmplitudeInv /\ AngleInv /\ VoutOK
  BY <1>1 DEF OutInv, FrameInv, ShapeInv, AmplitudeInv, AngleInv, VoutOK
<1>6. SamplesOK
  <2>1. MaxPosts \in Nat /\ 0 \in 0 .. MaxPosts
    BY StPhyBoxAssumption
  <2> QED BY <1>1, <2>1 DEF SamplesOK
<1> QED BY <1>1, <1>2, <1>3, <1>4, <1>5, <1>6 DEF Inv

\* Every step keeps the invariant.
LEMMA InvStep ==
  ASSUME Inv, [Next]_vars
  PROVE  Inv'
<1>1. iovars' \in Tables
  BY TableFixed DEF Inv
<1>2. PcOK' /\ SubnetsOK' /\ SignalsOK'
  BY PcStep, SubnetsStep, SignalsStep DEF Inv
<1>3. OutInv' /\ FrameInv' /\ ShapeInv'
  BY OutStep, FrameStep, ShapeStep DEF Inv
<1>4. AmplitudeInv' /\ AngleInv'
  BY AmplitudeStep, AngleStep DEF Inv
<1>5. SamplesOK' /\ VoutOK'
  BY SamplesStep, VoutStep DEF Inv
<1> QED BY <1>1, <1>2, <1>3, <1>4, <1>5 DEF Inv

\* Inv holds in every state of every behaviour.
THEOREM InvariantHolds == Spec => []Inv
<1>1. Inv /\ UNCHANGED vars => Inv'
  BY InvStep
<1>2. Inv /\ [Next]_vars => Inv'
  BY InvStep
<1> QED BY InitInv, <1>1, <1>2, PTL DEF Spec

\* Types, and that the thread never looks at a subnet or a box that does not exist, and that
\* the waves of a box are numbered as their parameters are.
THEOREM TypeCorrect == Spec => []TypeOK
<1>1. Inv => TypeOK
  <2> SUFFICES ASSUME Inv PROVE TypeOK
    OBVIOUS
  <2>1. /\ iovars \in Tables /\ pc \in PcType /\ pc.kNT \in 0 .. Parts - 1
        /\ pc.at \in {"first", "recv"} => pc.i \in DOMAIN pcsubnet
        /\ pc.at = "wait" => pc.i \in pids
    BY DEF Inv, PcOK
  <2>2. pc.at \in Places /\ pc.loop \in {"none", "search", "hold", "simulate"}
    BY <2>1 DEF PcType
  <2>3. ASSUME NEW b \in Boxes
        PROVE  /\ ready[b] \subseteq Kinds
               /\ box[b] \in [running : BOOLEAN, posts : 0 .. MaxPosts, sample : 0 .. sent]
               /\ pc.at \notin {"subnets", "vars"} =>
                    {sig[b]["AO"][i].idxVal2 : i \in DOMAIN sig[b]["AO"]} \ {-1} = DOMAIN out[b].Vinst
    <3>1. ready[b] \subseteq Kinds
      BY DEF Inv, FrameInv
    <3>2. box[b] \in [running : BOOLEAN, posts : 0 .. MaxPosts, sample : 0 .. sent]
      <4>1. box[b] \in BoxType /\ box[b].sample <= sent /\ sent \in Nat
        BY DEF Inv, SamplesOK, BoxType
      <4>2. box[b].sample \in 0 .. sent
        BY <4>1 DEF BoxType
      <4> QED BY <4>1, <4>2 DEF BoxType
    <3>3. ASSUME pc.at \notin {"subnets", "vars"}
          PROVE  {sig[b]["AO"][i].idxVal2 : i \in DOMAIN sig[b]["AO"]} \ {-1} = DOMAIN out[b].Vinst
      <4> DEFINE list == sig[b]["AO"]
      <4>1. WavesOK(list)
        BY DEF Inv, SignalsOK
      <4>2. DOMAIN out[b].Vinst = 0 .. Instants(list) - 1
        BY <3>3 DEF Inv, OutInv, OutOK, Filing
      <4> HIDE DEF list
      <4>3. ASSUME NEW v PROVE (\E i \in DOMAIN list : list[i].idxVal2 = v) /\ v # -1
                               <=> v \in 0 .. Instants(list) - 1
        BY <4>1 DEF WavesOK
      <4>4. {list[i].idxVal2 : i \in DOMAIN list} \ {-1} = 0 .. Instants(list) - 1
        BY <4>3
      <4> QED BY <4>2, <4>4 DEF list
    <3> QED BY <3>1, <3>2, <3>3
  <2> QED BY <2>1, <2>2, <2>3 DEF TypeOK, Places
<1> QED BY InvariantHolds, <1>1, PTL

\* If every input variable has a signal of its own, a subnet is sent in its place the sample of
\* that signal, no older than the posts the driver counts.
THEOREM InputsOfTheirVariables == ASSUME OwnSignals PROVE Spec => []InputsFollowOutputs
<1>1. Init => InputsFollowOutputs
  BY DEF Init, InputsFollowOutputs
<1>2. Inv /\ InputsFollowOutputs /\ [Next]_vars => InputsFollowOutputs'
  BY InputsStep DEF Inv
<1> QED BY <1>1, <1>2, InvariantHolds, PTL DEF Spec

\* While the thread waits, all subnets have sent their values of one step.
LEMMA ArrivedWhileWaiting ==
  ASSUME PcOK, SubnetsOK, pc.at = "wait"
  PROVE  /\ \A n \in DOMAIN pcsubnet : Arrival[n] = StepShown
         /\ StepShown \in Nat \ {0}
<1>1. pc.k \in Nat
  BY DEF PcOK, PcType
<1> QED BY <1>1, ArrivalFacts DEF StepShown

\* If every wave has its two variables, a box is given the values of one step of the subnets,
\* whole sums, and nothing that was never assigned.
THEOREM OutputsOfOneStepHold == ASSUME WholeWaves PROVE Spec => []OutputsOfOneStep
<1>1. Inv => OutputsOfOneStep
  <2> SUFFICES ASSUME Inv, pc.at = "wait", NEW b \in Boxes
               PROVE  /\ "AO" \in ready[b] => \A i \in DOMAIN sig[b]["AO"] :
                           LET s == sig[b]["AO"][i]
                           IN IF s.inst THEN frame[b].AO[i].new = StepShown
                              ELSE frame[b].AO[i] = {[net |-> iovars[j].net, idx |-> Place(j), step |-> StepShown] :
                                                      j \in Shares(b, "AO", s.idno)}
                      /\ "DO" \in ready[b] => \A i \in DOMAIN sig[b]["DO"] :
                           \E j \in Shares(b, "DO", sig[b]["DO"][i].idno) :
                             frame[b].DO[i] = [net |-> iovars[j].net, idx |-> Place(j), step |-> StepShown]
    BY DEF OutputsOfOneStep
  <2>0. /\ iovars \in Tables /\ PcOK /\ SubnetsOK /\ SignalsOK /\ FrameOK(b) /\ OutOK(b)
        /\ ValuesOK(b) /\ AmplitudeInv /\ ~Filing /\ pc.at # "subnets"
    BY DEF Inv, FrameInv, OutInv, Filing
  <2>1. PICK st : st = StepShown
    OBVIOUS
  <2>2. (\A n \in DOMAIN pcsubnet : Arrival[n] = st) /\ st # 0
    BY <2>0, <2>1, ArrivedWhileWaiting
  <2>3. PICK a : a = Arrival
    OBVIOUS
  <2>4. Filed = DOMAIN iovars
    BY DEF Filed
  <2>5. ASSUME NEW k \in {"AO", "DO"}, NEW i \in DOMAIN sig[b][k]
        PROVE  LET s == sig[b][k][i]
               IN /\ 1 \in DOMAIN s.VSimIO
                  /\ \A j \in DOMAIN s.VSimIO : a[TurnOf(s, j)] = st
                  /\ \A j \in DOMAIN s.VSimIO :
                       \E x \in Shares(b, k, s.idno) : s.VSimIO[j] = SimuVar(x)
                  /\ \A x \in Shares(b, k, s.idno) :
                       \E j \in DOMAIN s.VSimIO : s.VSimIO[j] = SimuVar(x)
    <3>1. PICK s : s = sig[b][k][i]
      OBVIOUS
    <3>2. /\ 1 \in DOMAIN s.VSimIO
          /\ \A j \in DOMAIN s.VSimIO :
               /\ TurnOf(s, j) \in DOMAIN pcsubnet
               /\ \E x \in DOMAIN iovars : s.VSimIO[j] = SimuVar(x) /\ x \in Shares(b, k, s.idno)
      BY <2>0, <3>1, SignalFacts DEF Kinds
    <3>3. ListHas(sig[b][k], b, k, DOMAIN iovars) /\ ListOK(sig[b][k], b, k, DOMAIN iovars)
      BY <2>0, <2>4 DEF SignalsOK, Kinds
    <3>4. ASSUME NEW x \in Shares(b, k, s.idno)
          PROVE  \E j \in DOMAIN s.VSimIO : s.VSimIO[j] = SimuVar(x)
      <4>1. x \in DOMAIN iovars /\ iovars[x].box = b /\ iovars[x].kind = k /\ iovars[x].idno = s.idno
        BY DEF Shares
      <4>2. PICK y \in DOMAIN sig[b][k] :
              /\ sig[b][k][y].idno = iovars[x].idno
              /\ \E j \in DOMAIN sig[b][k][y].VSimIO : sig[b][k][y].VSimIO[j] = SimuVar(x)
        BY <3>3, <4>1 DEF ListHas
      <4>3. y = i
        BY <3>1, <3>3, <4>1, <4>2 DEF ListOK
      <4> QED BY <3>1, <4>2, <4>3
    <3> QED BY <2>2, <2>3, <3>1, <3>2, <3>4
  <2>6. ASSUME "AO" \in ready[b], NEW i \in DOMAIN sig[b]["AO"], ~sig[b]["AO"][i].inst
        PROVE  frame[b].AO[i] = {[net |-> iovars[j].net, idx |-> Place(j), step |-> st] :
                                  j \in Shares(b, "AO", sig[b]["AO"][i].idno)}
    <3>1. PICK s : s = sig[b]["AO"][i]
      OBVIOUS
    <3>2. frame[b].AO[i] = Gathered(s, a)
      BY <2>0, <2>3, <2>6, <3>1 DEF FrameOK, ValuesOK
    <3>3. /\ 1 \in DOMAIN s.VSimIO /\ \A j \in DOMAIN s.VSimIO : a[TurnOf(s, j)] = st
          /\ \A j \in DOMAIN s.VSimIO : \E x \in Shares(b, "AO", s.idno) : s.VSimIO[j] = SimuVar(x)
          /\ \A x \in Shares(b, "AO", s.idno) : \E j \in DOMAIN s.VSimIO : s.VSimIO[j] = SimuVar(x)
      BY <2>5, <3>1
    <3>4. Gathered(s, a) = {Term(s.VSimIO[j], st) : j \in DOMAIN s.VSimIO}
      <4>1. {x \in DOMAIN s.VSimIO : a[TurnOf(s, x)] = a[TurnOf(s, 1)]} = DOMAIN s.VSimIO
        BY <3>3
      <4> QED BY <2>2, <3>3, <4>1 DEF Gathered
    <3>5. \A x : Term(SimuVar(x), st) = [net |-> iovars[x].net, idx |-> Place(x), step |-> st]
      BY DEF Term, SimuVar
    <3>6. {Term(s.VSimIO[j], st) : j \in DOMAIN s.VSimIO}
            = {Term(SimuVar(x), st) : x \in Shares(b, "AO", s.idno)}
      BY <3>3
    <3>7. {Term(SimuVar(x), st) : x \in Shares(b, "AO", s.idno)}
            = {[net |-> iovars[x].net, idx |-> Place(x), step |-> st] : x \in Shares(b, "AO", s.idno)}
      BY <3>5
    <3> QED BY <3>1, <3>2, <3>4, <3>6, <3>7
  <2>7. ASSUME "AO" \in ready[b], NEW i \in DOMAIN sig[b]["AO"], sig[b]["AO"][i].inst
        PROVE  frame[b].AO[i].new = st
    <3>1. PICK s : s = sig[b]["AO"][i]
      OBVIOUS
    <3>2. frame[b].AO[i].new = WaveOf(b, i).A
      <4>1. i \in Waves(b)
        BY <2>7 DEF Waves
      <4>2. AmplitudeOK(b, i)
        BY <2>0, <4>1 DEF AmplitudeInv
      <4> QED BY <4>2 DEF AmplitudeOK
    <3>3. WaveOf(b, i).A = Amplitude(s, a)
      BY <2>0, <2>3, <2>7, <3>1 DEF ValuesOK, WaveOf
    <3>4. /\ \A j \in DOMAIN s.VSimIO : a[TurnOf(s, j)] = st
          /\ \A x \in Shares(b, "AO", s.idno) : \E j \in DOMAIN s.VSimIO : s.VSimIO[j] = SimuVar(x)
      BY <2>5, <3>1
    <3>5. PICK x \in Shares(b, "AO", s.idno) : iovars[x].inst
      <4>1. FromTable(sig[b]["AO"], b, Filed)
        BY <2>0 DEF SignalsOK
      <4> QED BY <2>7, <3>1, <4>1 DEF FromTable
    <3>6. PICK y \in Shares(b, "AO", s.idno) : y # x
      <4>1. x \in DOMAIN iovars /\ iovars[x].kind = "AO" /\ iovars[x].box = b /\ iovars[x].idno = s.idno
        BY <3>5 DEF Shares
      <4>2. PICK y \in DOMAIN iovars : /\ y # x /\ iovars[y].kind = "AO" /\ iovars[y].box = iovars[x].box
                                       /\ iovars[y].idno = iovars[x].idno
        BY <2>0, <3>5, <4>1 DEF WholeWaves
      <4> QED BY <4>1, <4>2 DEF Shares
    <3>7. PICK p \in DOMAIN s.VSimIO, q \in DOMAIN s.VSimIO :
            s.VSimIO[p] = SimuVar(x) /\ s.VSimIO[q] = SimuVar(y)
      BY <3>4, <3>5, <3>6
    <3>8. SimuVar(x) # SimuVar(y)
      <4>1. ASSUME SimuVar(x) = SimuVar(y) PROVE FALSE
        <5>1. iovars[x].net = iovars[y].net /\ Place(x) = Place(y)
          <6>1. SimuVar(x).prono = SimuVar(y).prono /\ SimuVar(x).idxIO = SimuVar(y).idxIO
            BY <4>1
          <6> QED BY <6>1 DEF SimuVar
        <5>2. x \in DOMAIN iovars /\ y \in DOMAIN iovars /\ iovars[x].kind = iovars[y].kind
          BY DEF Shares
        <5>3. Place(x) \in Nat /\ ~(Place(x) < Place(y)) /\ ~(Place(y) < Place(x))
          BY <2>0, <5>1, <5>2, PlaceFacts
        <5>4. ~(x < y) /\ ~(y < x)
          BY <2>0, <5>1, <5>2, <5>3, PlaceFacts
        <5>5. DOMAIN iovars \subseteq Nat
          BY <2>0, ListTyped
        <5> QED BY <3>6, <5>2, <5>4, <5>5
      <4> QED BY <4>1
    <3>9. Whole(s)
      <4>1. s \in Signal
        BY <2>0, <3>1, SignalFacts DEF Kinds
      <4>2. s.VSimIO \in Seq(Simu)
        BY <4>1 DEF Signal
      <4>3. p # q
        BY <3>7, <3>8
      <4>4. p \in 1 .. Len(s.VSimIO) /\ q \in 1 .. Len(s.VSimIO) /\ Len(s.VSimIO) \in Nat
        BY <4>2
      <4>5. 2 \in 1 .. Len(s.VSimIO)
        BY <4>3, <4>4
      <4> QED BY <4>2, <4>5 DEF Whole
    <3> QED BY <3>2, <3>3, <3>4, <3>9 DEF Amplitude, Whole
  <2>8. ASSUME "DO" \in ready[b], NEW i \in DOMAIN sig[b]["DO"]
        PROVE  \E j \in Shares(b, "DO", sig[b]["DO"][i].idno) :
                 frame[b].DO[i] = [net |-> iovars[j].net, idx |-> Place(j), step |-> st]
    <3>1. PICK s : s = sig[b]["DO"][i]
      OBVIOUS
    <3>2. frame[b].DO[i] = Word(s, a)
      BY <2>0, <2>3, <2>8, <3>1 DEF FrameOK, ValuesOK
    <3>3. /\ 1 \in DOMAIN s.VSimIO /\ a[TurnOf(s, 1)] = st
          /\ \E x \in Shares(b, "DO", s.idno) : s.VSimIO[1] = SimuVar(x)
      BY <2>5, <3>1
    <3>4. Word(s, a) = Term(s.VSimIO[1], st)
      BY <2>2, <3>3 DEF Word
    <3> QED BY <3>1, <3>2, <3>3, <3>4 DEF Term, SimuVar
  <2> QED BY <2>1, <2>6, <2>7, <2>8
<1> QED BY InvariantHolds, <1>1, PTL

\* What an output gives a box for a wave.
LEMMA WaveOutput ==
  ASSUME Inv, Output, NEW b \in Boxes, NEW i \in Waves(b)
  PROVE  frame'[b].AO[i] = WaveValue(WaveOf(b, i), pc.k, pc.kNT)
<1>1. i \in DOMAIN sig[b]["AO"] /\ sig[b]["AO"][i].inst /\ "AO" \in ready[b]
  BY DEF Waves
<1>2. SignalsOK /\ OutOK(b)
  BY DEF Inv, OutInv, Output, Filing
<1>3. frame'[b].AO = out'[b].Volt
  BY <1>1 DEF Output, SenddataToPID, PID_SenddataToPID, AO_SenddataToPID
<1> QED BY <1>1, <1>2, <1>3, OutputFacts DEF WaveOf

\* The angle of an output and of the one before it.
LEMMA AngleOfOutput ==
  ASSUME Inv, Output, NEW b \in Boxes, NEW i \in Waves(b)
  PROVE  \E e \in Int : Small(e) /\ frame'[b].AO[i].angle = (frame[b].AO[i].angle + 1 + e) % Cycle
<1>0. /\ pc.k \in Nat /\ pc.kNT \in Nat /\ Ikt \in Nat /\ Cycle \in Nat /\ Cycle > 0
      /\ pc.at = "out"
  BY StPhyBoxAssumption DEF Inv, PcOK, PcType, Output
<1>1. frame'[b].AO[i].angle = (pc.k * Ikt + pc.kNT) % Cycle
  <2>1. frame'[b].AO[i] = WaveValue(WaveOf(b, i), pc.k, pc.kNT)
    BY WaveOutput
  <2> QED BY <2>1 DEF WaveValue
<1>2. PICK a : a = frame[b].AO[i].angle
  OBVIOUS
<1>3. AngleOK(a)
  BY <1>0, <1>2 DEF Inv, AngleInv, Filing
<1>4. CASE pc.kNT = 0
  <2>1. Follows(a, pc.k * Ikt)
    BY <1>0, <1>3, <1>4 DEF AngleOK
  <2>2. pc.k * Ikt + pc.kNT = pc.k * Ikt
    BY <1>0, <1>4
  <2> QED BY <1>1, <1>2, <2>1, <2>2 DEF Follows
<1>5. CASE pc.kNT > 0
  <2> DEFINE x == pc.k * Ikt + pc.kNT - 1
  <2>1. x \in Int /\ pc.k * Ikt + pc.kNT = x + 1
    <3> DEFINE y == pc.k * Ikt
    <3>1. y \in Nat
      BY <1>0
    <3> HIDE DEF y
    <3>2. y + pc.kNT - 1 \in Int /\ y + pc.kNT = y + pc.kNT - 1 + 1
      BY <1>0, <3>1
    <3> QED BY <3>2 DEF y
  <2>2. a = x % Cycle
    BY <1>0, <1>3, <1>5 DEF AngleOK
  <2> HIDE DEF x
  <2>3. \A e \in Int : ((x % Cycle) + e) % Cycle = (x + e) % Cycle
    BY <1>0, <2>1, RemainderAdd
  <2>4. ((x % Cycle) + 1) % Cycle = (x + 1) % Cycle
    BY <2>3
  <2>5. x % Cycle \in Int
    BY <1>0, <2>1, DivisionTheorem
  <2>6. a + 1 + 0 = (x % Cycle) + 1 /\ Small(0)
    BY <1>0, <2>2, <2>5 DEF Small
  <2> QED BY <1>1, <1>2, <2>1, <2>4, <2>6
<1> QED BY <1>0, <1>4, <1>5

\* From each output to the next a wave advances by a small step, or is off by a hundredth of a
\* period at the most: that is what the loops allow when they are left.
PhaseNearlyContinues ==
  [][Output => \A b \in Boxes : \A i \in Waves(b) :
       \E e \in Int : /\ 100 * e <= Cycle /\ -Cycle <= 100 * e
                      /\ frame'[b].AO[i].angle = (frame[b].AO[i].angle + 1 + e) % Cycle]_vars

\* So it is for every length of the period.
THEOREM PhaseIsNearlyKept == Spec => PhaseNearlyContinues
<1>1. Inv /\ [Next]_vars =>
        [Output => \A b \in Boxes : \A i \in Waves(b) :
           \E e \in Int : /\ 100 * e <= Cycle /\ -Cycle <= 100 * e
                          /\ frame'[b].AO[i].angle = (frame[b].AO[i].angle + 1 + e) % Cycle]_vars
  BY AngleOfOutput DEF Small
<1> QED BY <1>1, InvariantHolds, PTL DEF Spec, PhaseNearlyContinues

\* Nothing is off when a period is a whole number of steps, fewer than 100, or has fewer than 100
\* small steps: WholeCycle then lets the loops be left after whole periods only.
THEOREM PhaseIsKept == ASSUME PeriodFits PROVE Spec => PhaseContinues
<1>1. Inv /\ [Next]_vars =>
        [Output => \A b \in Boxes : \A i \in Waves(b) :
           frame'[b].AO[i].angle = (frame[b].AO[i].angle + 1) % Cycle]_vars
  <2> SUFFICES ASSUME Inv, Output, NEW b \in Boxes, NEW i \in Waves(b)
               PROVE  frame'[b].AO[i].angle = (frame[b].AO[i].angle + 1) % Cycle
    OBVIOUS
  <2>1. PICK e \in Int : Small(e) /\ frame'[b].AO[i].angle = (frame[b].AO[i].angle + 1 + e) % Cycle
    BY AngleOfOutput
  <2>2. e = 0
    BY <2>1 DEF Small
  <2>3. frame[b].AO[i].angle \in Int
    <3>1. IsWave(frame[b].AO[i])
      BY DEF Inv, ShapeInv, Output, Filing
    <3> QED BY <3>1 DEF IsWave
  <2> QED BY <2>1, <2>2, <2>3
<1> QED BY <1>1, InvariantHolds, PTL DEF Spec, PhaseContinues

\* The amplitude of a wave passes from that of one step to that of the next, without a jump.
THEOREM AmplitudeIsContinuous == Spec => AmplitudeContinues
<1>1. Inv /\ [Next]_vars =>
        [Output /\ pc.loop = "simulate" => \A b \in Boxes : \A i \in Waves(b) :
           LET w == frame[b].AO[i]
               x == frame'[b].AO[i]
           IN IF w.part = Ikt - 1 THEN x.part = 0 /\ x.last = w.new
              ELSE x = [w EXCEPT !.part = @ + 1, !.angle = x.angle]]_vars
  <2> SUFFICES ASSUME Inv, Output, pc.loop = "simulate", NEW b \in Boxes, NEW i \in Waves(b)
               PROVE  LET w == frame[b].AO[i]
                          x == frame'[b].AO[i]
                      IN IF w.part = Ikt - 1 THEN x.part = 0 /\ x.last = w.new
                         ELSE x = [w EXCEPT !.part = @ + 1, !.angle = x.angle]
    OBVIOUS
  <2>0. /\ pc.at = "out" /\ ~Filing /\ pc.kNT \in 0 .. Parts - 1 /\ pc.kNT \in Nat
        /\ i \in DOMAIN sig[b]["AO"] /\ sig[b]["AO"][i].inst /\ SignalsOK
    BY DEF Output, Filing, Inv, PcOK, PcType, Waves
  <2>1. PICK w, x, v : w = frame[b].AO[i] /\ x = frame'[b].AO[i] /\ v = WaveOf(b, i)
    OBVIOUS
  <2>2. x.last = v.AL /\ x.new = v.A /\ x.part = pc.kNT
        /\ x = [last |-> v.AL, new |-> v.A, part |-> pc.kNT, angle |-> x.angle]
    <3>1. x = WaveValue(v, pc.k, pc.kNT)
      BY <2>1, WaveOutput
    <3> QED BY <3>1 DEF WaveValue
  <2>3. AmplitudeOK(b, i) /\ IsWave(w)
    BY <2>0, <2>1 DEF Inv, AmplitudeInv, ShapeInv
  <2>4. pc.kNT < Ikt /\ Ikt \in Nat /\ Parts = Ikt
    BY <2>0, WavesPart, StPhyBoxAssumption
  <2>5. CASE pc.kNT = 0
    <3>1. w.new = (IF New(sig[b]["AO"][i]) THEN v.AL ELSE v.A) /\ w.part = Ikt - 1
      BY <2>0, <2>1, <2>3, <2>5 DEF AmplitudeOK
    <3>2. w.new = v.AL
      <4>1. CASE Whole(sig[b]["AO"][i])
        BY <2>0, <2>5, <3>1, <4>1 DEF New
      <4>2. CASE ~Whole(sig[b]["AO"][i])
        <5>1. ValuesOK(b)
          BY <2>0 DEF Inv, OutInv
        <5>2. v.A = 0 /\ v.AL = 0
          BY <2>0, <2>1, <4>2, <5>1 DEF ValuesOK, Amplitude, WaveOf
        <5> QED BY <3>1, <5>2
      <4> QED BY <4>1, <4>2
    <3> QED BY <2>1, <2>2, <2>5, <3>1, <3>2
  <2>6. CASE pc.kNT > 0
    <3>1. w.last = v.AL /\ w.new = v.A /\ w.part = pc.kNT - 1
      BY <2>0, <2>1, <2>3, <2>6 DEF AmplitudeOK
    <3>2. w.part # Ikt - 1 /\ w.part + 1 = pc.kNT
      BY <2>0, <2>4, <3>1
    <3>3. w = [last |-> v.AL, new |-> v.A, part |-> w.part, angle |-> w.angle]
      BY <2>3, <3>1 DEF IsWave
    <3>4. [w EXCEPT !.part = w.part + 1, !.angle = x.angle]
            = [last |-> v.AL, new |-> v.A, part |-> pc.kNT, angle |-> x.angle]
      <4>1. PICK l, n, p, a, p2, a2 : /\ l = v.AL /\ n = v.A /\ p = w.part /\ a = w.angle
                                      /\ p2 = pc.kNT /\ a2 = x.angle
        OBVIOUS
      <4>2. w = [last |-> l, new |-> n, part |-> p, angle |-> a]
        BY <3>3, <4>1
      <4>3. PICK r : r = [w EXCEPT !.part = p2]
        OBVIOUS
      <4>4. r = [last |-> l, new |-> n, part |-> p2, angle |-> a]
        BY <4>2, <4>3
      <4>5. [r EXCEPT !.angle = a2] = [last |-> l, new |-> n, part |-> p2, angle |-> a2]
        BY <4>4
      <4>6. [w EXCEPT !.part = p2, !.angle = a2] = [[w EXCEPT !.part = p2] EXCEPT !.angle = a2]
        BY <4>2
      <4>7. [w EXCEPT !.part = p2, !.angle = a2] = [last |-> l, new |-> n, part |-> p2, angle |-> a2]
        BY <4>3, <4>5, <4>6
      <4> QED BY <3>2, <4>1, <4>7
    <3> QED BY <2>1, <2>2, <3>2, <3>4
  <2> QED BY <2>0, <2>5, <2>6
<1> QED BY <1>1, InvariantHolds, PTL DEF Spec, AmplitudeContinues
=============================================================================
