--------------------------- MODULE IOTableProofs ---------------------------
(***************************************************************************)
(* Proofs about FormComm and IOTable, for any number and kinds of          *)
(* processes, any boxes and any list of variables.  Three invariants, one  *)
(* on the other:                                                           *)
(*                                                                         *)
(*   TableInv  the table: every variable of a subnet is filed under its    *)
(*             box, kind and number, with its place in the list that the   *)
(*             subnet gets;                                                *)
(*   ValueInv  the step: what was stored so far is where the numbers of    *)
(*             the signals say, and what is sent where the lists say;      *)
(*   CommsOK   the communicators: each is empty or has whom it is for, in  *)
(*             the order of their ranks.                                   *)
(***************************************************************************)
EXTENDS IOTable, SequenceTheorems, FiniteSetTheorems, WellFoundedInduction, TLAPS

Stages == {"list", "subnets", "vars", "receive", "read", "done"}
InTypes == {"AI", "DI"}
OutTypes == {"AO", "DO"}
Svar == [prono : Nat, idxIO : Nat]
Signal == [idno : Nat \ {0}, VSimIO : Seq(Svar) \ {<<>>}]
Begun == loop.pc \notin {"list", "subnets"}
Built == loop.pc \in {"receive", "read", "done"}

LoopType == [pc : Stages, n : Nat, i : Nat, Nin : Nat, Nout : Nat]

LoopOK ==
  /\ loop \in LoopType
  /\ 0 < loop.n /\ loop.n <= Len(pcsubnet) + 1 /\ loop.i <= Len(iovars) + 1
  /\ loop.Nin + loop.Nout < loop.i
  /\ ~Begun => loop.n = 1 /\ loop.Nin = 0 /\ loop.Nout = 0

ListOK ==
  /\ Ntype \in Layouts
  /\ IF loop.pc = "list" THEN iovars = <<>> /\ loop.i = 1 ELSE iovars \in Configs(Ntype)

\* The variables looked at for their subnets.
Met == {i \in DOMAIN iovars : loop.pc = "subnets" => i < loop.i}

SubnetsOK ==
  /\ pcsubnet \in Seq(Nat)
  /\ \A m, n \in DOMAIN pcsubnet : pcsubnet[m] = pcsubnet[n] => m = n
  /\ \A m \in DOMAIN pcsubnet : \E i \in Met : pcsubnet[m] = iovars[i].SimProcNo
  /\ \A i \in Met : \E m \in DOMAIN pcsubnet : pcsubnet[m] = iovars[i].SimProcNo

Filed ==
  {i \in DOMAIN iovars :
     /\ Begun
     /\ loop.pc = "vars" => \E m \in DOMAIN pcsubnet :
                              /\ pcsubnet[m] = iovars[i].SimProcNo
                              /\ m < loop.n \/ (m = loop.n /\ i < loop.i)}

StnetsType == stnetios \in Seq([Sides -> Seq(Nat)]) /\ Len(stnetios) = Len(pcsubnet)

\* Each list has filed variables of its subnet, each once ...
StnetsOwn ==
  \A m \in DOMAIN pcsubnet, s \in Sides :
    /\ \A p, q \in DOMAIN stnetios[m][s] : stnetios[m][s][p] = stnetios[m][s][q] => p = q
    /\ \A p \in DOMAIN stnetios[m][s] :
         /\ stnetios[m][s][p] \in Filed
         /\ iovars[stnetios[m][s][p]].SimProcNo = pcsubnet[m]
         /\ Side(iovars[stnetios[m][s][p]]) = s

\* ... and all of them.
StnetsAll ==
  \A i \in Filed, m \in DOMAIN pcsubnet :
    pcsubnet[m] = iovars[i].SimProcNo =>
      \E p \in DOMAIN stnetios[m][Side(iovars[i])] : stnetios[m][Side(iovars[i])][p] = i

\* Nin and Nout count those of the subnet whose turn it is.
CountersOK ==
  loop.pc = "vars" /\ loop.n \in DOMAIN pcsubnet =>
    loop.Nin = Len(stnetios[loop.n]["in"]) /\ loop.Nout = Len(stnetios[loop.n]["out"])

StnetsOK ==
  IF Begun THEN StnetsType /\ StnetsOwn /\ StnetsAll /\ CountersOK ELSE stnetios = <<>>

\* Variable i is that of a signal of number idno, and its place is right.
IsVar(i, idno, svar) ==
  /\ iovars[i].Vidno = idno /\ iovars[i].SimProcNo = svar.prono
  /\ \E m \in DOMAIN pcsubnet :
       /\ pcsubnet[m] = svar.prono
       /\ svar.idxIO + 1 \in DOMAIN stnetios[m][Side(iovars[i])]
       /\ stnetios[m][Side(iovars[i])][svar.idxIO + 1] = i

FiledOf(b, t) == {i \in Filed : iovars[i].PidNo = b /\ iovars[i].SigType = t}

SignalsOf(list, S) ==
  /\ list \in Seq(Signal)
  /\ \A k, l \in DOMAIN list : list[k].idno = list[l].idno => k = l
  /\ \A k \in DOMAIN list : \A j \in DOMAIN list[k].VSimIO :
       \E i \in S : IsVar(i, list[k].idno, list[k].VSimIO[j])
  /\ \A i \in S : \E k \in DOMAIN list : list[k].idno = iovars[i].Vidno

TableOK ==
  /\ table \in [Boxes -> [SignTypes -> Seq(Signal)]]
  /\ \A b \in Boxes, t \in SignTypes : SignalsOf(table[b][t], FiledOf(b, t))

IdsOK ==
  /\ IdVin \in Seq(Nat) /\ IdVout \in Seq(Nat)
  /\ Len(IdVin) = Len(IdVout)
  /\ Len(IdVout) = IF ~Begun THEN 1 ELSE IF loop.pc = "vars" THEN loop.n ELSE Len(pcsubnet) + 1
  /\ \A m, l \in DOMAIN IdVout : m < l => IdVout[m] + Len(stnetios[m]["out"]) <= IdVout[l]

HasArrived(signal) ==
  \E m \in DOMAIN pcsubnet : pcsubnet[m] = signal.VSimIO[1].prono /\ (loop.pc = "receive" => m < loop.n)

\* An array has the value of an output of that number at its place.
IsStaged(arr, b, t, idno) ==
  /\ idno - 1 \in DOMAIN arr
  /\ arr[idno - 1] \in Of(b, t)
  /\ iovars[arr[idno - 1]].Vidno = idno

StagedOK ==
  /\ outside => Built
  /\ DOMAIN staged = Boxes
  /\ \A b \in Boxes : DOMAIN staged[b] = OutTypes
  /\ Built => \A b \in Boxes, t \in OutTypes :
       /\ DOMAIN staged[b][t] = 0 .. Len(table[b][t]) - 1
       /\ \A k \in DOMAIN table[b][t] :
            HasArrived(table[b][t][k]) /\ ~outside => IsStaged(staged[b][t], b, t, table[b][t][k].idno)

FrameOK ==
  /\ outside => ~Numbered(iovars)
  /\ loop.pc = "done" => \A b \in Boxes, t \in OutTypes :
       frame[b][t] = [p \in DOMAIN staged[b][t] |->
                        [of |-> staged[b][t][p], bits |-> IF t = "AO" THEN Float ELSE Word \cap Byte]]

\* An input is sent from the place of its signal, whatever its number.
SentFor(i, at) ==
  \E k \in DOMAIN table[iovars[i].PidNo][iovars[i].SigType] :
    /\ table[iovars[i].PidNo][iovars[i].SigType][k].idno = iovars[i].Vidno
    /\ vout[at] = [box |-> iovars[i].PidNo, kind |-> iovars[i].SigType, place |-> k - 1]

VoutOK ==
  Built =>
    /\ DOMAIN vout = 0 .. Last(IdVout) - 1
    /\ \A m \in DOMAIN pcsubnet : \A p \in DOMAIN stnetios[m]["out"] :
         loop.pc # "receive" /\ (loop.pc = "read" => m < loop.n) =>
           SentFor(stnetios[m]["out"][p], IdVout[m] + p - 1)

-----------------------------------------------------------------------------
\* What a step leaves alone, told apart by what it changes.

\* A list with one more entry.
LEMMA Appended ==
  ASSUME NEW S, NEW s \in Seq(S), NEW e \in S
  PROVE  /\ Append(s, e) \in Seq(S)
         /\ Len(Append(s, e)) = Len(s) + 1 /\ Len(s) \in Nat
         /\ DOMAIN s = 1 .. Len(s)
         /\ DOMAIN Append(s, e) = DOMAIN s \cup {Len(s) + 1}
         /\ Len(s) + 1 \notin DOMAIN s
         /\ Append(s, e)[Len(s) + 1] = e
         /\ \A m \in DOMAIN s : Append(s, e)[m] = s[m]
  OBVIOUS

\* The list is one of variables.
LEMMA ListTyped ==
  ASSUME ListOK
  PROVE  /\ iovars \in Seq(IOVars)
         /\ loop.pc # "list" => iovars \in Configs(Ntype)
<1>1. CASE loop.pc = "list"
  BY <1>1 DEF ListOK
<1>2. CASE loop.pc # "list"
  BY <1>2, IOTableAssumption DEF ListOK
<1> QED BY <1>1, <1>2

\* The fields of a variable.
LEMMA VarTyped ==
  ASSUME ListOK, NEW i \in DOMAIN iovars
  PROVE  /\ iovars[i] \in IOVars
         /\ iovars[i].SimProcNo \in Nat /\ iovars[i].Vidno \in Nat \ {0}
         /\ iovars[i].PidNo \in Boxes /\ iovars[i].SigType \in SignTypes
         /\ iovars[i].Valid \in {1, 2} /\ Side(iovars[i]) \in Sides
         /\ i \in 1 .. Len(iovars)
<1>1. iovars \in Seq(IOVars)
  BY ListTyped
<1>2. iovars[i] \in IOVars /\ i \in 1 .. Len(iovars)
  BY <1>1
<1> QED BY <1>2 DEF IOVars, Side, Sides

\* ReceiveList.
LEMMA ReceiveListFacts ==
  ASSUME loop \in LoopType, ReceiveList
  PROVE  /\ loop.pc = "list"
         /\ loop' \in LoopType
         /\ loop'.pc = "subnets" /\ loop'.n = loop.n /\ loop'.i = loop.i
         /\ loop'.Nin = loop.Nin /\ loop'.Nout = loop.Nout
         /\ pcsubnet' = pcsubnet /\ table' = table /\ IdVin' = IdVin /\ IdVout' = IdVout
         /\ stnetios' = stnetios /\ staged' = staged /\ outside' = outside
         /\ frame' = frame /\ vout' = vout
BY DEF ReceiveList, LoopType, Stages, tableVars

\* SubnetDone.
LEMMA SubnetDoneFacts ==
  ASSUME loop \in LoopType, SubnetDone
  PROVE  /\ loop.pc = "vars" /\ loop.n <= Len(pcsubnet) /\ loop.i > Len(iovars)
         /\ loop' \in LoopType
         /\ loop'.pc = "vars" /\ loop'.n = loop.n + 1 /\ loop'.i = 1
         /\ loop'.Nin = 0 /\ loop'.Nout = 0
         /\ iovars' = iovars /\ pcsubnet' = pcsubnet /\ table' = table
         /\ stnetios' = stnetios /\ staged' = staged /\ outside' = outside
         /\ frame' = frame /\ vout' = vout
<1>1. /\ loop.pc = "vars" /\ loop.n <= Len(pcsubnet) /\ loop.i > Len(iovars)
      /\ loop' = [loop EXCEPT !.n = @ + 1, !.i = 1, !.Nin = 0, !.Nout = 0]
      /\ iovars' = iovars /\ pcsubnet' = pcsubnet /\ table' = table
      /\ stnetios' = stnetios /\ staged' = staged /\ outside' = outside
      /\ frame' = frame /\ vout' = vout
  BY DEF SubnetDone
<1>2. loop' = [pc |-> loop.pc, n |-> loop.n + 1, i |-> 1, Nin |-> 0, Nout |-> 0]
  BY <1>1 DEF LoopType
<1>3. loop.pc \in Stages /\ loop.n + 1 \in Nat
  BY DEF LoopType
<1> QED BY <1>1, <1>2, <1>3 DEF LoopType

\* AllocBuf.
LEMMA AllocBufFacts ==
  ASSUME loop \in LoopType, AllocBuf
  PROVE  /\ loop.pc = "vars" /\ loop.n > Len(pcsubnet)
         /\ loop' \in LoopType
         /\ loop'.pc = "receive" /\ loop'.n = 1 /\ loop'.i = loop.i
         /\ loop'.Nin = loop.Nin /\ loop'.Nout = loop.Nout
         /\ iovars' = iovars /\ pcsubnet' = pcsubnet /\ table' = table /\ IdVin' = IdVin
         /\ IdVout' = IdVout /\ stnetios' = stnetios /\ outside' = outside
         /\ frame' = frame
BY DEF AllocBuf, LoopType, Stages, tableVars

\* GetSimuVal.
LEMMA GetSimuValFacts ==
  ASSUME loop \in LoopType, GetSimuVal
  PROVE  /\ loop.pc = "receive" /\ loop.n <= Len(pcsubnet)
         /\ loop' \in LoopType
         /\ loop'.pc = "receive" /\ loop'.n = loop.n + 1 /\ loop'.i = loop.i
         /\ loop'.Nin = loop.Nin /\ loop'.Nout = loop.Nout
         /\ iovars' = iovars /\ pcsubnet' = pcsubnet /\ table' = table /\ IdVin' = IdVin
         /\ IdVout' = IdVout /\ stnetios' = stnetios /\ frame' = frame /\ vout' = vout
BY DEF GetSimuVal, LoopType, Stages, tableVars

\* getdatafromPID.
LEMMA getdatafromPIDFacts ==
  ASSUME loop \in LoopType, getdatafromPID
  PROVE  /\ loop.pc = "receive" /\ loop.n > Len(pcsubnet)
         /\ loop' \in LoopType
         /\ loop'.pc = "read" /\ loop'.n = 1 /\ loop'.i = loop.i
         /\ loop'.Nin = loop.Nin /\ loop'.Nout = loop.Nout
         /\ iovars' = iovars /\ pcsubnet' = pcsubnet /\ table' = table /\ IdVin' = IdVin
         /\ IdVout' = IdVout /\ stnetios' = stnetios /\ staged' = staged
         /\ outside' = outside /\ frame' = frame /\ vout' = vout
BY DEF getdatafromPID, LoopType, Stages, tableVars

\* setSimuVal.
LEMMA setSimuValFacts ==
  ASSUME loop \in LoopType, setSimuVal
  PROVE  /\ loop.pc = "read" /\ loop.n <= Len(pcsubnet)
         /\ loop' \in LoopType
         /\ loop'.pc = "read" /\ loop'.n = loop.n + 1 /\ loop'.i = loop.i
         /\ loop'.Nin = loop.Nin /\ loop'.Nout = loop.Nout
         /\ iovars' = iovars /\ pcsubnet' = pcsubnet /\ table' = table /\ IdVin' = IdVin
         /\ IdVout' = IdVout /\ stnetios' = stnetios /\ staged' = staged
         /\ outside' = outside /\ frame' = frame
BY DEF setSimuVal, LoopType, Stages, tableVars

\* WriteFrame.
LEMMA WriteFrameFacts ==
  ASSUME loop \in LoopType, WriteFrame
  PROVE  /\ loop.pc = "read" /\ loop.n > Len(pcsubnet)
         /\ loop' \in LoopType
         /\ loop'.pc = "done" /\ loop'.n = loop.n /\ loop'.i = loop.i
         /\ loop'.Nin = loop.Nin /\ loop'.Nout = loop.Nout
         /\ iovars' = iovars /\ pcsubnet' = pcsubnet /\ table' = table /\ IdVin' = IdVin
         /\ IdVout' = IdVout /\ stnetios' = stnetios /\ staged' = staged
         /\ outside' = outside /\ vout' = vout
BY DEF WriteFrame, LoopType, Stages, tableVars


\* CollectSubnets: a variable is looked at, or all have been.
LEMMA CollectFacts ==
  ASSUME loop \in LoopType, CollectSubnets
  PROVE  /\ loop.pc = "subnets"
         /\ loop' \in LoopType
         /\ loop'.n = loop.n /\ loop'.Nin = loop.Nin /\ loop'.Nout = loop.Nout
         /\ loop.i <= Len(iovars) =>
              /\ loop'.pc = "subnets" /\ loop'.i = loop.i + 1 /\ stnetios' = stnetios
              /\ pcsubnet' = IF Contains(pcsubnet, iovars[loop.i].SimProcNo) THEN pcsubnet
                             ELSE Append(pcsubnet, iovars[loop.i].SimProcNo)
         /\ ~(loop.i <= Len(iovars)) =>
              /\ loop'.pc = "vars" /\ loop'.i = 1 /\ pcsubnet' = pcsubnet
              /\ stnetios' = [n \in DOMAIN pcsubnet |-> [s \in Sides |-> <<>>]]
         /\ iovars' = iovars /\ table' = table /\ IdVin' = IdVin /\ IdVout' = IdVout
         /\ staged' = staged /\ outside' = outside /\ frame' = frame /\ vout' = vout
<1>1. CASE loop.i <= Len(iovars)
  BY <1>1 DEF CollectSubnets, LoopType, Stages
<1>2. CASE ~(loop.i <= Len(iovars))
  <2>1. loop.pc = "subnets" /\ loop' = [loop EXCEPT !.pc = "vars", !.i = 1]
    BY <1>2 DEF CollectSubnets
  <2>2. /\ loop' \in LoopType
        /\ loop'.n = loop.n /\ loop'.Nin = loop.Nin /\ loop'.Nout = loop.Nout
        /\ loop'.pc = "vars" /\ loop'.i = 1
    BY <2>1 DEF LoopType, Stages
  <2> QED BY <1>2, <2>1, <2>2 DEF CollectSubnets
<1> QED BY <1>1, <1>2

\* AddVar: the variable is of another subnet, or it is filed.
LEMMA AddVarFacts ==
  ASSUME loop \in LoopType, AddVar
  PROVE  /\ loop.pc = "vars" /\ loop.n <= Len(pcsubnet) /\ loop.i <= Len(iovars)
         /\ loop' \in LoopType
         /\ loop'.pc = "vars" /\ loop'.n = loop.n /\ loop'.i = loop.i + 1
         /\ loop'.Nin + loop'.Nout <= loop.Nin + loop.Nout + 1
         /\ iovars[loop.i].SimProcNo # pcsubnet[loop.n] =>
              /\ loop'.Nin = loop.Nin /\ loop'.Nout = loop.Nout
              /\ table' = table /\ stnetios' = stnetios
         /\ iovars[loop.i].SimProcNo = pcsubnet[loop.n] =>
              LET v == iovars[loop.i]
              IN /\ table' = [table EXCEPT ![v.PidNo][v.SigType] =
                                addavar(@, v.SigType, v.Vidno,
                                        [prono |-> v.SimProcNo, idxIO |-> IdxIO(v)])]
                 /\ stnetios' = [stnetios EXCEPT ![loop.n][Side(v)] = Append(@, loop.i)]
                 /\ loop'.Nin = IF Side(v) = "in" THEN loop.Nin + 1 ELSE loop.Nin
                 /\ loop'.Nout = IF Side(v) = "in" THEN loop.Nout ELSE loop.Nout + 1
         /\ iovars' = iovars /\ pcsubnet' = pcsubnet /\ IdVin' = IdVin /\ IdVout' = IdVout
         /\ staged' = staged /\ outside' = outside /\ frame' = frame /\ vout' = vout
<1> DEFINE v == iovars[loop.i]
<1>1. CASE v.SimProcNo # pcsubnet[loop.n]
  <2>1. loop.pc = "vars" /\ loop' = [loop EXCEPT !.i = @ + 1]
    BY <1>1 DEF AddVar
  <2>2. /\ loop' \in LoopType
        /\ loop'.n = loop.n /\ loop'.Nin = loop.Nin /\ loop'.Nout = loop.Nout
        /\ loop'.pc = "vars" /\ loop'.i = loop.i + 1
        /\ loop'.Nin + loop'.Nout <= loop.Nin + loop.Nout + 1
    BY <2>1 DEF LoopType, Stages
  <2> QED BY <1>1, <2>1, <2>2 DEF AddVar
<1>2. CASE v.SimProcNo = pcsubnet[loop.n]
  <2>1. loop.pc = "vars" /\ loop' = IF Side(v) = "in"
                                     THEN [loop EXCEPT !.i = @ + 1, !.Nin = @ + 1]
                                     ELSE [loop EXCEPT !.i = @ + 1, !.Nout = @ + 1]
    BY <1>2 DEF AddVar
  <2>2. /\ loop' \in LoopType
        /\ loop'.n = loop.n /\ loop'.pc = "vars" /\ loop'.i = loop.i + 1
        /\ loop'.Nin = IF Side(v) = "in" THEN loop.Nin + 1 ELSE loop.Nin
        /\ loop'.Nout = IF Side(v) = "in" THEN loop.Nout ELSE loop.Nout + 1
        /\ loop'.Nin + loop'.Nout <= loop.Nin + loop.Nout + 1
    <3>1. CASE Side(v) = "in"
      <4>1. loop' = [loop EXCEPT !.i = @ + 1, !.Nin = @ + 1]
        BY <2>1, <3>1
      <4>2. /\ loop'.n = loop.n /\ loop'.pc = "vars" /\ loop'.i = loop.i + 1
            /\ loop'.Nin = loop.Nin + 1 /\ loop'.Nout = loop.Nout
        BY <2>1, <4>1 DEF LoopType
      <4>3. loop' = [pc |-> "vars", n |-> loop.n, i |-> loop.i + 1,
                     Nin |-> loop.Nin + 1, Nout |-> loop.Nout]
        BY <2>1, <4>1 DEF LoopType
      <4>4. loop.n \in Nat /\ loop.i \in Nat /\ loop.Nin \in Nat /\ loop.Nout \in Nat
        BY DEF LoopType
      <4>5. loop' \in LoopType
        BY <4>4, <4>3 DEF LoopType, Stages
      <4> QED BY <3>1, <4>2, <4>5, <4>4
    <3>2. CASE Side(v) # "in"
      <4>1. loop' = [loop EXCEPT !.i = @ + 1, !.Nout = @ + 1]
        BY <2>1, <3>2
      <4>2. /\ loop'.n = loop.n /\ loop'.pc = "vars" /\ loop'.i = loop.i + 1
            /\ loop'.Nout = loop.Nout + 1 /\ loop'.Nin = loop.Nin
        BY <2>1, <4>1 DEF LoopType
      <4>3. loop' = [pc |-> "vars", n |-> loop.n, i |-> loop.i + 1,
                     Nin |-> loop.Nin, Nout |-> loop.Nout + 1]
        BY <2>1, <4>1 DEF LoopType
      <4>4. loop.n \in Nat /\ loop.i \in Nat /\ loop.Nin \in Nat /\ loop.Nout \in Nat
        BY DEF LoopType
      <4>5. loop' \in LoopType
        BY <4>4, <4>3 DEF LoopType, Stages
      <4> QED BY <3>2, <4>2, <4>5, <4>4
    <3> QED BY <3>1, <3>2
  <2> QED BY <1>2, <2>1, <2>2 DEF AddVar
<1> QED BY <1>1, <1>2

\* The counters keep their ranges.
LEMMA LoopStep ==
  ASSUME LoopOK, ListOK, SubnetsOK, PhyIO
  PROVE  LoopOK'
<1>0. loop \in LoopType /\ loop.n \in Nat /\ loop.i \in Nat /\ loop.Nin \in Nat /\ loop.Nout \in Nat
  BY DEF LoopOK, LoopType
<1>1. iovars \in Seq(IOVars) /\ pcsubnet \in Seq(Nat) /\ Len(iovars) \in Nat /\ Len(pcsubnet) \in Nat
  BY ListTyped DEF SubnetsOK
<1>2. CASE ReceiveList
  <2>1. iovars' \in Seq(IOVars) /\ Len(iovars') \in Nat
    BY <1>2, IOTableAssumption DEF ListOK, ReceiveList
  <2> QED BY <1>0, <1>1, <1>2, <2>1, ReceiveListFacts DEF LoopOK, ListOK, Begun
<1>3. CASE CollectSubnets
  <2>1. CASE loop.i <= Len(iovars)
    <3>1. Len(pcsubnet') >= Len(pcsubnet) /\ Len(pcsubnet') \in Nat
      <4>1. loop.i \in DOMAIN iovars
        BY <1>0, <1>1, <2>1 DEF LoopOK
      <4>2. iovars[loop.i].SimProcNo \in Nat
        BY <4>1, VarTyped
      <4> QED BY <1>0, <1>1, <1>3, <2>1, <4>2, CollectFacts
    <3>2. /\ loop'.pc = "subnets" /\ loop'.i = loop.i + 1 /\ iovars' = iovars /\ loop.pc = "subnets"
          /\ loop' \in LoopType /\ loop'.n = loop.n /\ loop'.Nin = loop.Nin /\ loop'.Nout = loop.Nout
      BY <1>0, <1>3, <2>1, CollectFacts
    <3>3. loop.n = 1 /\ loop.Nin = 0 /\ loop.Nout = 0 /\ 0 < loop.i
      BY <1>0, <3>2 DEF LoopOK, Begun
    <3>4. loop'.n = 1 /\ loop'.Nin = 0 /\ loop'.Nout = 0 /\ 1 < loop'.i
      BY <1>0, <3>2, <3>3
    <3>5. loop'.n <= Len(pcsubnet') + 1 /\ loop'.i <= Len(iovars') + 1
      BY <1>0, <1>1, <2>1, <3>1, <3>2, <3>4
    <3>6. loop'.Nin + loop'.Nout < loop'.i
      BY <1>0, <3>2, <3>4
    <3> QED BY <3>2, <3>4, <3>5, <3>6 DEF LoopOK
  <2>2. CASE ~(loop.i <= Len(iovars))
    <3>1. /\ loop'.pc = "vars" /\ loop'.i = 1 /\ iovars' = iovars /\ pcsubnet' = pcsubnet
          /\ loop' \in LoopType /\ loop'.n = loop.n /\ loop'.Nin = loop.Nin /\ loop'.Nout = loop.Nout
          /\ loop.pc = "subnets"
      BY <1>0, <1>3, <2>2, CollectFacts
    <3>2. loop.n = 1 /\ loop.Nin = 0 /\ loop.Nout = 0
      BY <1>0, <3>1 DEF LoopOK, Begun
    <3> QED BY <1>1, <3>1, <3>2 DEF LoopOK, Begun
  <2> QED BY <2>1, <2>2
<1>4. CASE AddVar
  <2>1. loop'.Nin \in Nat /\ loop'.Nout \in Nat
    <3>1. loop' \in LoopType
      BY <1>0, <1>4, AddVarFacts
    <3> QED BY <3>1 DEF LoopType
  <2>2. /\ loop'.pc = "vars" /\ loop'.n = loop.n /\ loop'.i = loop.i + 1 /\ loop' \in LoopType
        /\ loop'.Nin + loop'.Nout <= loop.Nin + loop.Nout + 1
        /\ loop.n <= Len(pcsubnet) /\ loop.i <= Len(iovars)
        /\ iovars' = iovars /\ pcsubnet' = pcsubnet
    BY <1>0, <1>4, AddVarFacts
  <2>3. 0 < loop.n /\ loop.Nin + loop.Nout < loop.i
    BY DEF LoopOK
  <2>4. loop'.Nin + loop'.Nout < loop'.i
    BY <1>0, <2>1, <2>2, <2>3
  <2>5. loop'.n <= Len(pcsubnet') + 1 /\ loop'.i <= Len(iovars') + 1 /\ 0 < loop'.n
    BY <1>0, <1>1, <2>2, <2>3
  <2>6. Begun'
    BY <2>2 DEF Begun
  <2> QED BY <2>2, <2>4, <2>5, <2>6 DEF LoopOK
<1>5. CASE SubnetDone
  BY <1>0, <1>1, <1>5, SubnetDoneFacts DEF LoopOK, Begun
<1>6. CASE AllocBuf
  BY <1>0, <1>1, <1>6, AllocBufFacts DEF LoopOK, Begun
<1>7. CASE GetSimuVal
  BY <1>0, <1>1, <1>7, GetSimuValFacts DEF LoopOK, Begun
<1>8. CASE getdatafromPID
  BY <1>0, <1>1, <1>8, getdatafromPIDFacts DEF LoopOK, Begun
<1>9. CASE setSimuVal
  BY <1>0, <1>1, <1>9, setSimuValFacts DEF LoopOK, Begun
<1>10. CASE WriteFrame
  BY <1>0, <1>1, <1>10, WriteFrameFacts DEF LoopOK, Begun
<1> QED BY <1>2, <1>3, <1>4, <1>5, <1>6, <1>7, <1>8, <1>9, <1>10 DEF PhyIO

\* The list stays the one received.
LEMMA ListStep ==
  ASSUME LoopOK, ListOK, PhyIO, UNCHANGED commVars
  PROVE  ListOK'
<1>0. loop \in LoopType
  BY DEF LoopOK
<1>1. Ntype' = Ntype
  BY DEF commVars
<1>2. CASE ReceiveList
  BY <1>0, <1>1, <1>2, ReceiveListFacts DEF ListOK, ReceiveList
<1>3. CASE CollectSubnets
  BY <1>0, <1>1, <1>3, CollectFacts DEF ListOK
<1>4. CASE AddVar
  BY <1>0, <1>1, <1>4, AddVarFacts DEF ListOK
<1>5. CASE SubnetDone
  BY <1>0, <1>1, <1>5, SubnetDoneFacts DEF ListOK
<1>6. CASE AllocBuf
  BY <1>0, <1>1, <1>6, AllocBufFacts DEF ListOK
<1>7. CASE GetSimuVal
  BY <1>0, <1>1, <1>7, GetSimuValFacts DEF ListOK
<1>8. CASE getdatafromPID
  BY <1>0, <1>1, <1>8, getdatafromPIDFacts DEF ListOK
<1>9. CASE setSimuVal
  BY <1>0, <1>1, <1>9, setSimuValFacts DEF ListOK
<1>10. CASE WriteFrame
  BY <1>0, <1>1, <1>10, WriteFrameFacts DEF ListOK
<1> QED BY <1>2, <1>3, <1>4, <1>5, <1>6, <1>7, <1>8, <1>9, <1>10 DEF PhyIO

\* Each subnet of the variables looked at is in the list of subnets once.
LEMMA SubnetsStep ==
  ASSUME LoopOK, ListOK, SubnetsOK, PhyIO
  PROVE  SubnetsOK'
<1>0. loop \in LoopType /\ loop.n \in Nat /\ loop.i \in Nat /\ 0 < loop.i
  BY DEF LoopOK, LoopType
<1>1. iovars \in Seq(IOVars) /\ pcsubnet \in Seq(Nat) /\ Len(iovars) \in Nat /\ Len(pcsubnet) \in Nat
  BY ListTyped DEF SubnetsOK
<1>2. CASE ReceiveList
  <2>1. /\ pcsubnet' = pcsubnet /\ loop.i = 1 /\ loop'.i = 1 /\ loop'.pc = "subnets"
        /\ loop.pc = "list" /\ iovars = <<>>
    BY <1>0, <1>2, ReceiveListFacts DEF ListOK
  <2>2. Met' = {} /\ Met = {}
    <3>1. iovars' \in Seq(IOVars)
      BY <1>2, IOTableAssumption DEF ListOK, ReceiveList
    <3> QED BY <2>1, <3>1 DEF Met
  <2> QED BY <2>1, <2>2 DEF SubnetsOK
<1>3. CASE CollectSubnets
  <2>1. CASE loop.i <= Len(iovars)
    <3>0. iovars[loop.i].SimProcNo \in Nat
      <4>1. loop.i \in DOMAIN iovars
        BY <1>0, <1>1, <2>1
      <4> QED BY <4>1, VarTyped
    <3>p. PICK p \in Nat : p = iovars[loop.i].SimProcNo
      BY <3>0
    <3>1. p \in Nat /\ loop.i \in DOMAIN iovars /\ iovars' = iovars
      <4>1. loop.i \in DOMAIN iovars
        BY <1>0, <1>1, <2>1
      <4> QED BY <1>0, <1>3, <4>1, CollectFacts, <3>p
    <3>2. Met' = Met \cup {loop.i}
      <4>1. loop'.pc = "subnets" /\ loop'.i = loop.i + 1 /\ loop.pc = "subnets"
        BY <1>0, <1>3, <2>1, CollectFacts
      <4> QED BY <1>0, <1>1, <3>1, <4>1 DEF Met
    <3>3. CASE \E m \in DOMAIN pcsubnet : pcsubnet[m] = p
      <4>1. pcsubnet' = pcsubnet
        <5>1. Contains(pcsubnet, p)
          BY <1>1, <3>3 DEF Contains
        <5> QED BY <1>0, <1>3, <2>1, <3>p, <5>1, CollectFacts
      <4> QED BY <1>1, <3>1, <3>p, <3>2, <3>3, <4>1 DEF SubnetsOK
    <3>4. CASE ~\E m \in DOMAIN pcsubnet : pcsubnet[m] = p
      <4>2. ~Contains(pcsubnet, p)
        BY <1>1, <3>4 DEF Contains
      <4>1. pcsubnet' = Append(pcsubnet, p)
        BY <1>0, <1>3, <2>1, <4>2, <3>p, CollectFacts
      <4>3. /\ pcsubnet' \in Seq(Nat) /\ DOMAIN pcsubnet' = DOMAIN pcsubnet \cup {Len(pcsubnet) + 1}
            /\ pcsubnet'[Len(pcsubnet) + 1] = p /\ Len(pcsubnet) + 1 \notin DOMAIN pcsubnet
            /\ \A m \in DOMAIN pcsubnet : pcsubnet'[m] = pcsubnet[m]
        BY <1>1, <3>p, <4>1, Appended
      <4>4. \A m \in DOMAIN pcsubnet' : \E i \in Met' : pcsubnet'[m] = iovars'[i].SimProcNo
        <5>1. \A m \in DOMAIN pcsubnet : \E i \in Met : pcsubnet[m] = iovars[i].SimProcNo
          BY DEF SubnetsOK
        <5> QED BY <3>1, <3>p, <3>2, <4>3, <5>1
      <4>5. \A i \in Met' : \E m \in DOMAIN pcsubnet' : pcsubnet'[m] = iovars'[i].SimProcNo
        <5>1. \A i \in Met : \E m \in DOMAIN pcsubnet : pcsubnet[m] = iovars[i].SimProcNo
          BY DEF SubnetsOK
        <5>2. \A i \in Met : \E m \in DOMAIN pcsubnet' : pcsubnet'[m] = iovars'[i].SimProcNo
          BY <3>1, <4>3, <5>1
        <5>3. \E m \in DOMAIN pcsubnet' : pcsubnet'[m] = iovars'[loop.i].SimProcNo
          BY <3>1, <3>p, <4>3
        <5> QED BY <3>2, <5>2, <5>3
      <4>6. \A m, n \in DOMAIN pcsubnet' : pcsubnet'[m] = pcsubnet'[n] => m = n
        BY <3>4, <4>3 DEF SubnetsOK
      <4> QED BY <4>3, <4>4, <4>5, <4>6 DEF SubnetsOK
    <3> QED BY <3>3, <3>4
  <2>2. CASE ~(loop.i <= Len(iovars))
    <3>1. Met' = Met
      BY <1>0, <1>1, <1>3, <2>2, CollectFacts DEF Met
    <3> QED BY <1>0, <1>3, <2>2, <3>1, CollectFacts DEF SubnetsOK
  <2> QED BY <2>1, <2>2
<1>4. CASE AddVar
  BY <1>0, <1>4, AddVarFacts DEF SubnetsOK, Met
<1>5. CASE SubnetDone
  BY <1>0, <1>5, SubnetDoneFacts DEF SubnetsOK, Met
<1>6. CASE AllocBuf
  BY <1>0, <1>6, AllocBufFacts DEF SubnetsOK, Met
<1>7. CASE GetSimuVal
  BY <1>0, <1>7, GetSimuValFacts DEF SubnetsOK, Met
<1>8. CASE getdatafromPID
  BY <1>0, <1>8, getdatafromPIDFacts DEF SubnetsOK, Met
<1>9. CASE setSimuVal
  BY <1>0, <1>9, setSimuValFacts DEF SubnetsOK, Met
<1>10. CASE WriteFrame
  BY <1>0, <1>10, WriteFrameFacts DEF SubnetsOK, Met
<1> QED BY <1>2, <1>3, <1>4, <1>5, <1>6, <1>7, <1>8, <1>9, <1>10 DEF PhyIO


\* The variables filed are told by the counters; a turn of the loop files one at most.
LEMMA FiledStep ==
  ASSUME LoopOK, ListOK, SubnetsOK, PhyIO
  PROVE  /\ ReceiveList \/ CollectSubnets => Filed = {} /\ Filed' = {}
         /\ AddVar /\ iovars[loop.i].SimProcNo = pcsubnet[loop.n] =>
              loop.i \notin Filed /\ Filed' = Filed \cup {loop.i}
         /\ AddVar /\ iovars[loop.i].SimProcNo # pcsubnet[loop.n] => Filed' = Filed
         /\ ~(ReceiveList \/ CollectSubnets \/ AddVar) => Filed' = Filed
         /\ ~(ReceiveList \/ CollectSubnets \/ AddVar \/ SubnetDone) => Filed' = DOMAIN iovars
<1>0. loop \in LoopType /\ loop.n \in Nat /\ loop.i \in Nat /\ 0 < loop.n /\ 0 < loop.i
  BY DEF LoopOK, LoopType
<1>1. iovars \in Seq(IOVars) /\ pcsubnet \in Seq(Nat) /\ Len(iovars) \in Nat /\ Len(pcsubnet) \in Nat
  BY ListTyped DEF SubnetsOK
<1>n. \A m, n \in DOMAIN pcsubnet : pcsubnet[m] = pcsubnet[n] => m = n
  BY DEF SubnetsOK
<1>2. CASE ReceiveList
  BY <1>0, <1>2, ReceiveListFacts DEF Filed, Begun, CollectSubnets, AddVar, SubnetDone
<1>3. CASE CollectSubnets
  <2>1. loop.pc = "subnets" /\ (loop'.pc = "subnets" \/ (loop'.pc = "vars" /\ loop'.n = loop.n /\ loop'.i = 1))
    BY <1>0, <1>3, CollectFacts
  <2>2. loop.n = 1
    BY <2>1 DEF LoopOK, Begun
  <2>3. Filed = {}
    BY <2>1 DEF Filed, Begun
  <2>4. Filed' = {}
    <3>1. ASSUME NEW i \in Filed' PROVE FALSE
      <4>1. loop'.pc = "vars" /\ loop'.n = 1 /\ loop'.i = 1
        BY <2>1, <2>2, <3>1 DEF Filed, Begun
      <4>2. pcsubnet' = pcsubnet /\ iovars' = iovars
        BY <1>0, <1>3, <4>1, CollectFacts
      <4>3. i \in 1 .. Len(iovars) /\ \E m \in DOMAIN pcsubnet : m < 1 \/ (m = 1 /\ i < 1)
        BY <1>1, <3>1, <4>1, <4>2 DEF Filed
      <4> QED BY <1>1, <4>3
    <3> QED BY <3>1
  <2> QED BY <1>3, <2>1, <2>3, <2>4 DEF AddVar, SubnetDone
<1>4. CASE AddVar
  <2>1. /\ loop.pc = "vars" /\ loop.n <= Len(pcsubnet) /\ loop.i <= Len(iovars)
        /\ loop'.pc = "vars" /\ loop'.n = loop.n /\ loop'.i = loop.i + 1
        /\ iovars' = iovars /\ pcsubnet' = pcsubnet
    BY <1>0, <1>4, AddVarFacts
  <2>2. loop.n \in DOMAIN pcsubnet /\ loop.i \in DOMAIN iovars
    BY <1>0, <1>1, <2>1
  <2>3. \A i \in DOMAIN iovars : i \in Filed' <=> i \in Filed \/ (i = loop.i /\ pcsubnet[loop.n] = iovars[i].SimProcNo)
    <3>1. \A i \in DOMAIN iovars : i \in Filed <=>
             \E m \in DOMAIN pcsubnet : pcsubnet[m] = iovars[i].SimProcNo /\ (m < loop.n \/ (m = loop.n /\ i < loop.i))
      BY <2>1 DEF Filed, Begun
    <3>2. \A i \in DOMAIN iovars : i \in Filed' <=>
             \E m \in DOMAIN pcsubnet : pcsubnet[m] = iovars[i].SimProcNo /\ (m < loop.n \/ (m = loop.n /\ i < loop.i + 1))
      BY <2>1 DEF Filed, Begun
    <3>3. \A i \in DOMAIN iovars : i < loop.i + 1 <=> i < loop.i \/ i = loop.i
      BY <1>0, <1>1
    <3> QED BY <2>2, <3>1, <3>2, <3>3
  <2>4. pcsubnet[loop.n] = iovars[loop.i].SimProcNo => loop.i \notin Filed
    <3>1. ASSUME loop.i \in Filed, pcsubnet[loop.n] = iovars[loop.i].SimProcNo PROVE FALSE
      <4>1. PICK m \in DOMAIN pcsubnet : pcsubnet[m] = iovars[loop.i].SimProcNo /\ (m < loop.n \/ (m = loop.n /\ loop.i < loop.i))
        BY <2>1, <3>1 DEF Filed
      <4>2. m = loop.n
        BY <1>n, <2>2, <3>1, <4>1
      <4> QED BY <1>0, <4>1, <4>2
    <3> QED BY <3>1
  <2>5. Filed \subseteq DOMAIN iovars /\ Filed' \subseteq DOMAIN iovars
    BY <2>1 DEF Filed
  <2>6. ~ReceiveList /\ ~CollectSubnets
    BY <2>1 DEF ReceiveList, CollectSubnets
  <2> QED BY <1>4, <2>2, <2>3, <2>4, <2>5, <2>6
<1>5. CASE SubnetDone
  <2>1. /\ loop.pc = "vars" /\ loop.n <= Len(pcsubnet) /\ loop.i > Len(iovars)
        /\ loop'.pc = "vars" /\ loop'.n = loop.n + 1 /\ loop'.i = 1
        /\ iovars' = iovars /\ pcsubnet' = pcsubnet
    BY <1>0, <1>5, SubnetDoneFacts
  <2>2. \A i \in DOMAIN iovars : i \in Filed' <=> i \in Filed
    <3>1. \A i \in DOMAIN iovars : i \in Filed <=>
             \E m \in DOMAIN pcsubnet : pcsubnet[m] = iovars[i].SimProcNo /\ (m < loop.n \/ (m = loop.n /\ i < loop.i))
      BY <2>1 DEF Filed, Begun
    <3>2. \A i \in DOMAIN iovars : i \in Filed' <=>
             \E m \in DOMAIN pcsubnet : pcsubnet[m] = iovars[i].SimProcNo /\ (m < loop.n + 1 \/ (m = loop.n + 1 /\ i < 1))
      BY <2>1 DEF Filed, Begun
    <3>3. \A i \in DOMAIN iovars : i < loop.i /\ ~(i < 1)
      BY <1>0, <1>1, <2>1
    <3>4. \A m \in DOMAIN pcsubnet : m < loop.n + 1 <=> m < loop.n \/ m = loop.n
      BY <1>0, <1>1
    <3> QED BY <3>1, <3>2, <3>3, <3>4
  <2>3. Filed \subseteq DOMAIN iovars /\ Filed' \subseteq DOMAIN iovars
    BY <2>1 DEF Filed
  <2>4. ~ReceiveList /\ ~CollectSubnets /\ ~AddVar
    BY <1>0, <1>1, <2>1 DEF ReceiveList, CollectSubnets, AddVar
  <2> QED BY <1>5, <2>2, <2>3, <2>4
<1>6. CASE AllocBuf
  <2>1. /\ loop.pc = "vars" /\ loop.n > Len(pcsubnet) /\ loop'.pc = "receive"
        /\ iovars' = iovars /\ pcsubnet' = pcsubnet
    BY <1>0, <1>6, AllocBufFacts
  <2>2. \A i \in DOMAIN iovars : i \in Filed
    <3>1. ASSUME NEW i \in DOMAIN iovars PROVE i \in Filed
      <4>1. PICK m \in DOMAIN pcsubnet : pcsubnet[m] = iovars[i].SimProcNo
        <5>1. i \in Met
          BY <2>1 DEF Met
        <5> QED BY <5>1 DEF SubnetsOK
      <4>2. m < loop.n
        BY <1>0, <1>1, <2>1, <4>1
      <4> QED BY <2>1, <4>1, <4>2 DEF Filed, Begun
    <3> QED BY <3>1
  <2>3. Filed' = DOMAIN iovars /\ Filed \subseteq DOMAIN iovars
    BY <2>1 DEF Filed, Begun
  <2>4. ~ReceiveList /\ ~CollectSubnets /\ ~AddVar
    BY <1>0, <1>1, <2>1 DEF ReceiveList, CollectSubnets, AddVar
  <2> QED BY <2>2, <2>3, <2>4
<1>7. CASE GetSimuVal \/ getdatafromPID \/ setSimuVal \/ WriteFrame
  <2>1. /\ loop.pc \in {"receive", "read"} /\ loop'.pc \in {"receive", "read", "done"}
        /\ iovars' = iovars /\ pcsubnet' = pcsubnet
    BY <1>0, <1>7, GetSimuValFacts, getdatafromPIDFacts, setSimuValFacts, WriteFrameFacts
  <2>2. Filed = DOMAIN iovars /\ Filed' = DOMAIN iovars
    BY <2>1 DEF Filed, Begun
  <2>3. ~ReceiveList /\ ~CollectSubnets /\ ~AddVar
    BY <2>1 DEF ReceiveList, CollectSubnets, AddVar
  <2> QED BY <2>2, <2>3
<1> QED BY <1>2, <1>3, <1>4, <1>5, <1>6, <1>7 DEF PhyIO

\* The variable is appended to the list of its side of its subnet, and no other list changes.
LEMMA NamedTo ==
  ASSUME LoopOK, ListOK, SubnetsOK, StnetsOK, AddVar,
         iovars[loop.i].SimProcNo = pcsubnet[loop.n]
  PROVE  /\ loop.n \in DOMAIN pcsubnet /\ loop.i \in DOMAIN iovars /\ loop.i \in Nat
         /\ StnetsType /\ StnetsType'
         /\ stnetios'[loop.n][Side(iovars[loop.i])] =
              Append(stnetios[loop.n][Side(iovars[loop.i])], loop.i)
         /\ \A m \in DOMAIN pcsubnet, s \in Sides :
              m # loop.n \/ s # Side(iovars[loop.i]) => stnetios'[m][s] = stnetios[m][s]
         /\ \A m \in DOMAIN pcsubnet, s \in Sides : stnetios[m][s] \in Seq(Nat)
<1>0. loop \in LoopType /\ loop.n \in Nat /\ loop.i \in Nat /\ 0 < loop.n /\ 0 < loop.i
  BY DEF LoopOK, LoopType
<1>1. iovars \in Seq(IOVars) /\ pcsubnet \in Seq(Nat) /\ Len(iovars) \in Nat /\ Len(pcsubnet) \in Nat
  BY ListTyped DEF SubnetsOK
<1>2. /\ loop.pc = "vars" /\ loop.n <= Len(pcsubnet) /\ loop.i <= Len(iovars)
      /\ stnetios' = [stnetios EXCEPT ![loop.n][Side(iovars[loop.i])] = Append(@, loop.i)]
      /\ pcsubnet' = pcsubnet
  BY <1>0, AddVarFacts
<1>3. loop.n \in DOMAIN pcsubnet /\ loop.i \in DOMAIN iovars
  BY <1>0, <1>1, <1>2
<1>4. PICK s \in Sides : s = Side(iovars[loop.i])
  BY <1>3, VarTyped
<1>5. StnetsType
  BY <1>2 DEF StnetsOK, Begun
<1>6. stnetios \in Seq([Sides -> Seq(Nat)]) /\ DOMAIN stnetios = DOMAIN pcsubnet
  BY <1>1, <1>5 DEF StnetsType
<1>7. stnetios' = [stnetios EXCEPT ![loop.n] = [stnetios[loop.n] EXCEPT ![s] = Append(stnetios[loop.n][s], loop.i)]]
  BY <1>2, <1>4
<1>8. stnetios[loop.n] \in [Sides -> Seq(Nat)] /\ stnetios[loop.n][s] \in Seq(Nat)
  BY <1>3, <1>6, <1>4
<1>9. [stnetios[loop.n] EXCEPT ![s] = Append(stnetios[loop.n][s], loop.i)] \in [Sides -> Seq(Nat)]
  <2>1. Append(stnetios[loop.n][s], loop.i) \in Seq(Nat)
    BY <1>0, <1>8, Appended
  <2> QED BY <1>8, <2>1
<1>10. stnetios' \in Seq([Sides -> Seq(Nat)]) /\ Len(stnetios') = Len(stnetios)
  BY <1>3, <1>6, <1>7, <1>9
<1>11. StnetsType'
  BY <1>2, <1>5, <1>10 DEF StnetsType
<1>12. stnetios'[loop.n] = [stnetios[loop.n] EXCEPT ![s] = Append(stnetios[loop.n][s], loop.i)]
  BY <1>3, <1>6, <1>7
<1>13. \A m \in DOMAIN pcsubnet : m # loop.n => stnetios'[m] = stnetios[m]
  BY <1>3, <1>6, <1>7
<1>14. stnetios'[loop.n][s] = Append(stnetios[loop.n][s], loop.i)
  BY <1>8, <1>12
<1>15. \A x \in Sides : x # s => stnetios'[loop.n][x] = stnetios[loop.n][x]
  BY <1>8, <1>12
<1>16. \A m \in DOMAIN pcsubnet, x \in Sides : stnetios[m][x] \in Seq(Nat)
  BY <1>6
<1> QED BY <1>0, <1>3, <1>4, <1>5, <1>11, <1>13, <1>14, <1>15, <1>16

\* A subnet whose turn has not come has an empty list.
LEMMA NotYetNamed ==
  ASSUME LoopOK, ListOK, SubnetsOK, StnetsOK, loop.pc = "vars",
         NEW m \in DOMAIN pcsubnet, loop.n < m, NEW s \in Sides
  PROVE  Len(stnetios[m][s]) = 0
<1>1. loop.n \in Nat /\ pcsubnet \in Seq(Nat) /\ Len(pcsubnet) \in Nat /\ m \in Nat
  BY DEF LoopOK, LoopType, SubnetsOK
<1>2. StnetsType /\ StnetsOwn
  BY DEF StnetsOK, Begun
<1>3. stnetios[m][s] \in Seq(Nat)
  BY <1>1, <1>2 DEF StnetsType
<1>4. ASSUME NEW p \in DOMAIN stnetios[m][s] PROVE FALSE
  <2>1. PICK i : i = stnetios[m][s][p]
    OBVIOUS
  <2>2. i \in Filed /\ iovars[i].SimProcNo = pcsubnet[m]
    BY <1>2, <1>4, <2>1 DEF StnetsOwn
  <2>3. PICK k \in DOMAIN pcsubnet : pcsubnet[k] = iovars[i].SimProcNo /\ (k < loop.n \/ (k = loop.n /\ i < loop.i))
    BY <2>2 DEF Filed
  <2>4. k = m
    BY <2>2, <2>3 DEF SubnetsOK
  <2> QED BY <1>1, <2>3, <2>4
<1>5. 1 \notin DOMAIN stnetios[m][s]
  BY <1>4
<1> QED BY <1>3, <1>5

\* The lists keep: each has the filed variables of its subnet.
LEMMA StnetsStep ==
  ASSUME LoopOK, ListOK, SubnetsOK, StnetsOK, PhyIO
  PROVE  StnetsOK'
<1>0. loop \in LoopType /\ loop.n \in Nat /\ loop.i \in Nat /\ 0 < loop.n /\ 0 < loop.i
  BY DEF LoopOK, LoopType
<1>1. iovars \in Seq(IOVars) /\ pcsubnet \in Seq(Nat) /\ Len(iovars) \in Nat /\ Len(pcsubnet) \in Nat
  BY ListTyped DEF SubnetsOK
<1>2. CASE ReceiveList
  BY <1>0, <1>2, ReceiveListFacts DEF StnetsOK, Begun
<1>3. CASE CollectSubnets
  <2>1. CASE loop.i <= Len(iovars)
    BY <1>0, <1>3, <2>1, CollectFacts DEF StnetsOK, Begun
  <2>2. CASE ~(loop.i <= Len(iovars))
    <3>1. /\ loop'.pc = "vars" /\ loop'.i = 1 /\ pcsubnet' = pcsubnet /\ loop.pc = "subnets"
          /\ stnetios' = [n \in DOMAIN pcsubnet |-> [s \in Sides |-> <<>>]]
          /\ loop'.n = loop.n /\ loop'.Nin = loop.Nin /\ loop'.Nout = loop.Nout
      BY <1>0, <1>3, <2>2, CollectFacts
    <3>2. loop.Nin = 0 /\ loop.Nout = 0
      BY <3>1 DEF LoopOK, Begun
    <3>3. stnetios' \in Seq([Sides -> Seq(Nat)]) /\ Len(stnetios') = Len(pcsubnet)
      <4>1. DOMAIN pcsubnet = 1 .. Len(pcsubnet)
        BY <1>1
      <4>2. [s \in Sides |-> <<>>] \in [Sides -> Seq(Nat)]
        OBVIOUS
      <4>3. stnetios' \in [1 .. Len(pcsubnet) -> [Sides -> Seq(Nat)]]
        BY <3>1, <4>1, <4>2
      <4> QED BY <1>1, <4>3, SeqDef, LenProperties
    <3>4. \A m \in DOMAIN pcsubnet, s \in Sides : stnetios'[m][s] = <<>>
      BY <3>1
    <3>5. StnetsType'
      BY <3>1, <3>3 DEF StnetsType
    <3>6. StnetsOwn'
      BY <3>1, <3>4 DEF StnetsOwn
    <3>7. Filed' = {}
      BY <1>3, FiledStep
    <3>8. StnetsAll'
      BY <3>7 DEF StnetsAll
    <3>9. CountersOK'
      BY <3>1, <3>2, <3>4 DEF CountersOK, Sides
    <3> QED BY <3>1, <3>5, <3>6, <3>8, <3>9 DEF StnetsOK, Begun
  <2> QED BY <2>1, <2>2
<1>4. CASE AddVar
  <2>1. /\ loop.pc = "vars" /\ loop.n <= Len(pcsubnet) /\ loop.i <= Len(iovars)
        /\ loop'.pc = "vars" /\ loop'.n = loop.n /\ loop'.i = loop.i + 1
        /\ iovars' = iovars /\ pcsubnet' = pcsubnet
    BY <1>0, <1>4, AddVarFacts
  <2>2. StnetsType /\ StnetsOwn /\ StnetsAll /\ CountersOK
    BY <2>1 DEF StnetsOK, Begun
  <2>3. CASE iovars[loop.i].SimProcNo # pcsubnet[loop.n]
    <3>1. Filed' = Filed /\ stnetios' = stnetios /\ loop'.Nin = loop.Nin /\ loop'.Nout = loop.Nout
      BY <1>0, <1>4, <2>3, FiledStep, AddVarFacts
    <3> QED BY <2>1, <2>2, <3>1 DEF StnetsOK, Begun, StnetsType, StnetsOwn, StnetsAll, CountersOK
  <2>4. CASE iovars[loop.i].SimProcNo = pcsubnet[loop.n]
    <3>1. PICK n, i, x : n = loop.n /\ i = loop.i /\ x = Side(iovars[loop.i])
      OBVIOUS
    <3>2. /\ n \in DOMAIN pcsubnet /\ i \in DOMAIN iovars /\ i \in Nat /\ x \in Sides
          /\ iovars[i].SimProcNo = pcsubnet[n] /\ x = Side(iovars[i])
          /\ i \notin Filed /\ Filed' = Filed \cup {i}
          /\ stnetios'[n][x] = Append(stnetios[n][x], i)
          /\ \A m \in DOMAIN pcsubnet, s \in Sides : m # n \/ s # x => stnetios'[m][s] = stnetios[m][s]
          /\ stnetios[n][x] \in Seq(Nat)
      BY <1>4, <2>4, <3>1, FiledStep, NamedTo, VarTyped
    <3>3. StnetsType'
      BY <1>4, <2>4, NamedTo
    <3>4. /\ Len(stnetios'[n][x]) = Len(stnetios[n][x]) + 1 /\ Len(stnetios[n][x]) \in Nat
          /\ DOMAIN stnetios'[n][x] = DOMAIN stnetios[n][x] \cup {Len(stnetios[n][x]) + 1}
          /\ Len(stnetios[n][x]) + 1 \notin DOMAIN stnetios[n][x]
          /\ stnetios'[n][x][Len(stnetios[n][x]) + 1] = i
          /\ \A p \in DOMAIN stnetios[n][x] : stnetios'[n][x][p] = stnetios[n][x][p]
      BY <3>2, Appended
    <3>5. StnetsOwn'
      <4> SUFFICES ASSUME NEW m \in DOMAIN pcsubnet, NEW s \in Sides
                   PROVE  /\ \A p, q \in DOMAIN stnetios'[m][s] :
                               stnetios'[m][s][p] = stnetios'[m][s][q] => p = q
                          /\ \A p \in DOMAIN stnetios'[m][s] :
                               /\ stnetios'[m][s][p] \in Filed'
                               /\ iovars[stnetios'[m][s][p]].SimProcNo = pcsubnet[m]
                               /\ Side(iovars[stnetios'[m][s][p]]) = s
        BY <2>1 DEF StnetsOwn
      <4>1. /\ \A p, q \in DOMAIN stnetios[m][s] : stnetios[m][s][p] = stnetios[m][s][q] => p = q
            /\ \A p \in DOMAIN stnetios[m][s] :
                 /\ stnetios[m][s][p] \in Filed
                 /\ iovars[stnetios[m][s][p]].SimProcNo = pcsubnet[m]
                 /\ Side(iovars[stnetios[m][s][p]]) = s
        BY <2>2 DEF StnetsOwn
      <4>2. CASE m # n \/ s # x
        <5>1. stnetios'[m][s] = stnetios[m][s]
          BY <3>2, <4>2
        <5> QED BY <3>2, <4>1, <5>1
      <4>3. CASE m = n /\ s = x
        <5>1. \A p \in DOMAIN stnetios[n][x] : stnetios[n][x][p] # i
          BY <3>2, <4>1, <4>3
        <5>2. /\ stnetios'[n][x][Len(stnetios[n][x]) + 1] \in Filed'
              /\ iovars[stnetios'[n][x][Len(stnetios[n][x]) + 1]].SimProcNo = pcsubnet[n]
              /\ Side(iovars[stnetios'[n][x][Len(stnetios[n][x]) + 1]]) = x
          BY <3>2, <3>4
        <5>3. \A p \in DOMAIN stnetios[n][x] :
                /\ stnetios'[n][x][p] \in Filed'
                /\ iovars[stnetios'[n][x][p]].SimProcNo = pcsubnet[n]
                /\ Side(iovars[stnetios'[n][x][p]]) = x
          BY <3>2, <3>4, <4>1, <4>3
        <5>4. \A p, q \in DOMAIN stnetios'[n][x] :
                stnetios'[n][x][p] = stnetios'[n][x][q] => p = q
          BY <3>4, <4>1, <4>3, <5>1
        <5> QED BY <3>4, <4>3, <5>2, <5>3, <5>4
      <4> QED BY <4>2, <4>3
    <3>6. StnetsAll'
      <4> SUFFICES ASSUME NEW j \in Filed', NEW m \in DOMAIN pcsubnet, pcsubnet[m] = iovars[j].SimProcNo
                   PROVE  \E p \in DOMAIN stnetios'[m][Side(iovars[j])] :
                            stnetios'[m][Side(iovars[j])][p] = j
        BY <2>1 DEF StnetsAll
      <4>1. CASE j = i
        <5>1. m = n
          BY <3>2, <4>1 DEF SubnetsOK
        <5> QED BY <3>2, <3>4, <4>1, <5>1
      <4>2. CASE j # i
        <5>1. j \in Filed /\ j \in DOMAIN iovars
          BY <3>2, <4>2 DEF Filed
        <5>2. PICK s \in Sides : s = Side(iovars[j])
          BY <5>1, VarTyped
        <5>3. PICK p \in DOMAIN stnetios[m][s] : stnetios[m][s][p] = j
          BY <2>2, <5>1, <5>2 DEF StnetsAll
        <5>4. p \in DOMAIN stnetios'[m][s] /\ stnetios'[m][s][p] = j
          <6>1. CASE m # n \/ s # x
            <7>1. stnetios'[m][s] = stnetios[m][s]
              BY <3>2, <6>1
            <7> QED BY <5>3, <7>1
          <6>2. CASE m = n /\ s = x
            BY <3>4, <5>3, <6>2
          <6> QED BY <6>1, <6>2
        <5> QED BY <5>2, <5>4
      <4> QED BY <4>1, <4>2
    <3>7. CountersOK'
      <4>1. loop.Nin = Len(stnetios[n]["in"]) /\ loop.Nout = Len(stnetios[n]["out"])
        BY <2>1, <2>2, <3>1, <3>2 DEF CountersOK
      <4>2. /\ loop'.Nin = IF x = "in" THEN loop.Nin + 1 ELSE loop.Nin
            /\ loop'.Nout = IF x = "in" THEN loop.Nout ELSE loop.Nout + 1
        BY <1>0, <1>4, <2>4, <3>1, AddVarFacts
      <4>3. CASE x = "in"
        <5>1. stnetios'[n]["out"] = stnetios[n]["out"]
          BY <3>2, <4>3 DEF Sides
        <5> QED BY <2>1, <3>1, <3>4, <4>1, <4>2, <4>3, <5>1 DEF CountersOK
      <4>4. CASE x = "out"
        <5>1. stnetios'[n]["in"] = stnetios[n]["in"]
          BY <3>2, <4>4 DEF Sides
        <5> QED BY <2>1, <3>1, <3>4, <4>1, <4>2, <4>4, <5>1 DEF CountersOK
      <4> QED BY <3>2, <4>3, <4>4 DEF Sides
    <3> QED BY <2>1, <3>3, <3>5, <3>6, <3>7 DEF StnetsOK, Begun
  <2> QED BY <2>3, <2>4
<1>5. CASE SubnetDone
  <2>1. /\ loop.pc = "vars" /\ loop'.pc = "vars" /\ loop'.n = loop.n + 1 /\ loop'.i = 1
        /\ loop'.Nin = 0 /\ loop'.Nout = 0
        /\ iovars' = iovars /\ pcsubnet' = pcsubnet /\ stnetios' = stnetios
    BY <1>0, <1>5, SubnetDoneFacts
  <2>2. StnetsType /\ StnetsOwn /\ StnetsAll /\ CountersOK
    BY <2>1 DEF StnetsOK, Begun
  <2>3. Filed' = Filed
    <3>1. ~(ReceiveList \/ CollectSubnets \/ AddVar)
      BY <1>0, <1>1, <1>5, <2>1, SubnetDoneFacts DEF ReceiveList, CollectSubnets, AddVar
    <3> QED BY <3>1, FiledStep
  <2>4. CountersOK'
    <3>1. ASSUME loop.n + 1 \in DOMAIN pcsubnet
          PROVE  Len(stnetios[loop.n + 1]["in"]) = 0 /\ Len(stnetios[loop.n + 1]["out"]) = 0
      <4>1. PICK m \in DOMAIN pcsubnet : m = loop.n + 1
        BY <3>1
      <4>2. loop.n < m
        BY <1>0, <4>1
      <4> QED BY <2>1, <4>1, <4>2, NotYetNamed DEF Sides
    <3> QED BY <2>1, <3>1 DEF CountersOK
  <2>5. StnetsType' /\ StnetsOwn' /\ StnetsAll'
    BY <2>1, <2>2, <2>3 DEF StnetsType, StnetsOwn, StnetsAll
  <2> QED BY <2>1, <2>4, <2>5 DEF StnetsOK, Begun
<1>6. CASE AllocBuf \/ GetSimuVal \/ getdatafromPID \/ setSimuVal \/ WriteFrame
  <2>1. /\ loop.pc \in {"vars", "receive", "read"} /\ loop'.pc \in {"receive", "read", "done"}
        /\ iovars' = iovars /\ pcsubnet' = pcsubnet /\ stnetios' = stnetios
    BY <1>0, <1>6, AllocBufFacts, GetSimuValFacts, getdatafromPIDFacts, setSimuValFacts, WriteFrameFacts
  <2>2. StnetsType /\ StnetsOwn /\ StnetsAll
    BY <2>1 DEF StnetsOK, Begun
  <2>3. Filed' = Filed
    <3>1. ~(ReceiveList \/ CollectSubnets \/ AddVar)
      BY <2>1, <1>0, AddVarFacts DEF ReceiveList, CollectSubnets
    <3> QED BY <3>1, FiledStep
  <2>4. CountersOK'
    BY <2>1 DEF CountersOK
  <2>5. StnetsType' /\ StnetsOwn' /\ StnetsAll'
    BY <2>1, <2>2, <2>3 DEF StnetsType, StnetsOwn, StnetsAll
  <2> QED BY <2>1, <2>4, <2>5 DEF StnetsOK, Begun
<1> QED BY <1>2, <1>3, <1>4, <1>5, <1>6 DEF PhyIO

\* A list of signals to which a variable of number idno was added: it knows the number, and each
\* variable is the new one or an older one of the same number.
FiledIn(list, new, idno, sv) ==
  /\ new \in Seq(Signal)
  /\ \A k, l \in DOMAIN new : new[k].idno = new[l].idno => k = l
  /\ \A k \in DOMAIN new : \A j \in DOMAIN new[k].VSimIO :
       \/ new[k].idno = idno /\ new[k].VSimIO[j] = sv
       \/ /\ k \in DOMAIN list /\ new[k].idno = list[k].idno
          /\ j \in DOMAIN list[k].VSimIO /\ new[k].VSimIO[j] = list[k].VSimIO[j]
  /\ \A k \in DOMAIN list : k \in DOMAIN new /\ new[k].idno = list[k].idno
  /\ \E k \in DOMAIN new : new[k].idno = idno

\* addavar gives a list that knows the number, in which each variable is the new one or an
\* older one of the same number.
LEMMA AddavarFiles ==
  ASSUME NEW list \in Seq(Signal), NEW t, NEW idno \in Nat \ {0}, NEW sv \in Svar,
         \A k, l \in DOMAIN list : list[k].idno = list[l].idno => k = l,
         NEW new, new = addavar(list, t, idno, sv)
  PROVE  FiledIn(list, new, idno, sv)
<1> USE DEF FiledIn
<1> DEFINE known == {i \in DOMAIN list : list[i].idno = idno}
<1>0. \A k \in DOMAIN list : list[k] \in Signal
  OBVIOUS
<1>1. CASE known = {}
  <2>1. PICK sig : sig = [idno |-> idno, VSimIO |-> <<sv>>]
    OBVIOUS
  <2>2. new = Append(list, sig)
    BY <1>1, <2>1 DEF addavar
  <2>3. <<sv>> \in Seq(Svar) \ {<<>>}
    OBVIOUS
  <2>4. sig \in Signal /\ sig.idno = idno /\ sig.VSimIO = <<sv>>
    BY <2>1, <2>3 DEF Signal
  <2>5. /\ new \in Seq(Signal)
        /\ DOMAIN new = DOMAIN list \cup {Len(list) + 1}
        /\ Len(list) + 1 \notin DOMAIN list
        /\ new[Len(list) + 1] = sig
        /\ \A m \in DOMAIN list : new[m] = list[m]
    BY <2>2, <2>4, Appended
  <2>6. \A k \in DOMAIN list : list[k].idno # idno
    BY <1>1
  <2>7. DOMAIN <<sv>> = {1} /\ <<sv>>[1] = sv
    OBVIOUS
  <2>8. \A k, l \in DOMAIN new : new[k].idno = new[l].idno => k = l
    BY <2>4, <2>5, <2>6
  <2>9. \A k \in DOMAIN new : \A j \in DOMAIN new[k].VSimIO :
          \/ new[k].idno = idno /\ new[k].VSimIO[j] = sv
          \/ /\ k \in DOMAIN list /\ new[k].idno = list[k].idno
             /\ j \in DOMAIN list[k].VSimIO /\ new[k].VSimIO[j] = list[k].VSimIO[j]
    <3>1. \A j \in DOMAIN sig.VSimIO : sig.VSimIO[j] = sv
      BY <2>4, <2>7
    <3> QED BY <2>4, <2>5, <3>1
  <2> QED BY <2>4, <2>5, <2>8, <2>9
<1>2. CASE known # {}
  <2>1. PICK k \in DOMAIN list : list[k].idno = idno
    BY <1>2
  <2>2. known = {k}
    BY <2>1
  <2>3. CASE t = "AI"
    <3>1. new = list
      BY <1>2, <2>3 DEF addavar
    <3> QED BY <2>1, <3>1
  <2>4. CASE t # "AI"
    <3>1. Min({k}) = k
      <4>1. k \in Nat
        OBVIOUS
      <4>2. k \in {k} /\ \A y \in {k} : k <= y
        BY <4>1
      <4> QED BY <4>2 DEF Min
    <3>2. new = [list EXCEPT ![Min(known)].VSimIO = Append(@, sv)]
      BY <1>2, <2>4 DEF addavar
    <3>3. PICK sig : sig = [list[k] EXCEPT !.VSimIO = Append(list[k].VSimIO, sv)]
      OBVIOUS
    <3>4. new = [list EXCEPT ![k] = sig]
      BY <2>1, <2>2, <3>1, <3>2, <3>3
    <3>5. list[k] \in Signal /\ list[k].VSimIO \in Seq(Svar)
      BY <1>0, <2>1 DEF Signal
    <3>6. /\ Append(list[k].VSimIO, sv) \in Seq(Svar)
          /\ DOMAIN Append(list[k].VSimIO, sv) = DOMAIN list[k].VSimIO \cup {Len(list[k].VSimIO) + 1}
          /\ Append(list[k].VSimIO, sv)[Len(list[k].VSimIO) + 1] = sv
          /\ \A m \in DOMAIN list[k].VSimIO : Append(list[k].VSimIO, sv)[m] = list[k].VSimIO[m]
          /\ Len(Append(list[k].VSimIO, sv)) = Len(list[k].VSimIO) + 1 /\ Len(list[k].VSimIO) \in Nat
      BY <3>5, Appended
    <3>7. Append(list[k].VSimIO, sv) # <<>>
      BY <3>6
    <3>8. sig \in Signal /\ sig.idno = idno /\ sig.VSimIO = Append(list[k].VSimIO, sv)
      BY <2>1, <3>3, <3>5, <3>6, <3>7 DEF Signal
    <3>9. /\ new \in Seq(Signal) /\ DOMAIN new = DOMAIN list
          /\ \A j \in DOMAIN list : new[j] = IF j = k THEN sig ELSE list[j]
      BY <3>4, <3>8, ExceptSeq, LenProperties
    <3>10. \A j \in DOMAIN list : new[j].idno = list[j].idno
      BY <2>1, <3>8, <3>9
    <3>11. \A l \in DOMAIN new : \A j \in DOMAIN new[l].VSimIO :
             \/ new[l].idno = idno /\ new[l].VSimIO[j] = sv
             \/ /\ l \in DOMAIN list /\ new[l].idno = list[l].idno
                /\ j \in DOMAIN list[l].VSimIO /\ new[l].VSimIO[j] = list[l].VSimIO[j]
      <4> SUFFICES ASSUME NEW l \in DOMAIN new, NEW j \in DOMAIN new[l].VSimIO
                   PROVE  \/ new[l].idno = idno /\ new[l].VSimIO[j] = sv
                          \/ /\ l \in DOMAIN list /\ new[l].idno = list[l].idno
                             /\ j \in DOMAIN list[l].VSimIO /\ new[l].VSimIO[j] = list[l].VSimIO[j]
        OBVIOUS
      <4>1. CASE l # k
        BY <3>9, <4>1
      <4>2. CASE l = k
        BY <2>1, <3>6, <3>8, <3>9, <4>2
      <4> QED BY <4>1, <4>2
    <3> QED BY <2>1, <3>9, <3>10, <3>11
  <2> QED BY <2>3, <2>4
<1> QED BY <1>1, <1>2

\* What was true of a variable filed before stays true of it.
LEMMA IsVarKept ==
  ASSUME LoopOK, ListOK, SubnetsOK, StnetsOK, AddVar,
         iovars[loop.i].SimProcNo = pcsubnet[loop.n],
         NEW j \in Filed, NEW idno, NEW svar, IsVar(j, idno, svar)
  PROVE  IsVar(j, idno, svar)'
<1>1. iovars' = iovars /\ pcsubnet' = pcsubnet
  BY AddVarFacts DEF LoopOK
<1>2. PICK m \in DOMAIN pcsubnet :
        /\ pcsubnet[m] = svar.prono
        /\ svar.idxIO + 1 \in DOMAIN stnetios[m][Side(iovars[j])]
        /\ stnetios[m][Side(iovars[j])][svar.idxIO + 1] = j
  BY DEF IsVar
<1>3. PICK s \in Sides : s = Side(iovars[j])
  BY VarTyped DEF Filed
<1>4. svar.idxIO + 1 \in DOMAIN stnetios'[m][s] /\ stnetios'[m][s][svar.idxIO + 1] = j
  <2>1. CASE m # loop.n \/ s # Side(iovars[loop.i])
    <3>1. stnetios'[m][s] = stnetios[m][s]
      BY <2>1, NamedTo
    <3> QED BY <1>2, <1>3, <3>1
  <2>2. CASE m = loop.n /\ s = Side(iovars[loop.i])
    <3>1. stnetios'[m][s] = Append(stnetios[m][s], loop.i) /\ stnetios[m][s] \in Seq(Nat) /\ loop.i \in Nat
      BY <2>2, NamedTo
    <3>2. PICK e \in Nat : e = loop.i
      BY <3>1
    <3>3. PICK list \in Seq(Nat) : list = stnetios[m][s]
      BY <3>1
    <3>4. stnetios'[m][s] = Append(list, e)
      BY <3>1, <3>2, <3>3
    <3> QED BY <1>2, <1>3, <3>3, <3>4, Appended
  <2> QED BY <2>1, <2>2
<1> QED BY <1>1, <1>2, <1>3, <1>4 DEF IsVar

\* The place of a variable that is filed is where it is named to its subnet.
LEMMA IsVarFiled ==
  ASSUME LoopOK, ListOK, SubnetsOK, StnetsOK, AddVar,
         iovars[loop.i].SimProcNo = pcsubnet[loop.n],
         NEW sv, sv = [prono |-> iovars[loop.i].SimProcNo, idxIO |-> IdxIO(iovars[loop.i])],
         NEW i, i = loop.i
  PROVE  /\ sv \in Svar
         /\ IsVar(i, iovars[i].Vidno, sv)'
<1>1. iovars' = iovars /\ pcsubnet' = pcsubnet /\ loop.pc = "vars" /\ loop'.i = loop.i + 1
  BY AddVarFacts DEF LoopOK
<1>2. loop.n \in DOMAIN pcsubnet /\ loop.i \in DOMAIN iovars /\ loop.i \in Nat
  BY NamedTo
<1>3. PICK n, s : i = loop.i /\ n = loop.n /\ s = Side(iovars[loop.i])
  OBVIOUS
<1>4. /\ s \in Sides /\ s = Side(iovars[i]) /\ n \in DOMAIN pcsubnet /\ i \in DOMAIN iovars /\ i \in Nat
      /\ stnetios'[n][s] = Append(stnetios[n][s], i) /\ stnetios[n][s] \in Seq(Nat)
      /\ iovars[i].SimProcNo = pcsubnet[n] /\ iovars[i].SimProcNo \in Nat
  BY <1>2, <1>3, NamedTo, VarTyped
<1>5. IdxIO(iovars[i]) = Len(stnetios[n][s])
  <2>1. CountersOK
    BY <1>1 DEF StnetsOK, Begun
  <2>2. loop.Nin = Len(stnetios[n]["in"]) /\ loop.Nout = Len(stnetios[n]["out"])
    BY <1>1, <1>3, <1>4, <2>1 DEF CountersOK
  <2> QED BY <1>4, <2>2 DEF IdxIO, Sides
<1>6. PICK list \in Seq(Nat) : list = stnetios[n][s]
  BY <1>4
<1>7. sv.prono = pcsubnet[n] /\ sv.idxIO = Len(list) /\ sv \in Svar
  <2>1. Len(list) \in Nat
    BY <1>6
  <2> QED BY <1>3, <1>4, <1>5, <1>6, <2>1 DEF Svar
<1>8. stnetios'[n][s] = Append(list, i)
  BY <1>4, <1>6
<1>9. sv.idxIO + 1 \in DOMAIN stnetios'[n][s] /\ stnetios'[n][s][sv.idxIO + 1] = i
  BY <1>4, <1>7, <1>8, Appended
<1>10. IsVar(i, iovars[i].Vidno, sv)'
  BY <1>1, <1>4, <1>7, <1>9 DEF IsVar
<1> QED BY <1>7, <1>10

\* The table does not depend on anything else.
LEMMA TableKept ==
  ASSUME TableOK, Filed' = Filed, table' = table, iovars' = iovars, pcsubnet' = pcsubnet,
         stnetios' = stnetios
  PROVE  TableOK'
<1>1. ASSUME NEW i, NEW idno, NEW sv PROVE IsVar(i, idno, sv)' <=> IsVar(i, idno, sv)
  BY DEF IsVar
<1>2. ASSUME NEW b \in Boxes, NEW t \in SignTypes PROVE SignalsOf(table[b][t], FiledOf(b, t))'
  <2>1. FiledOf(b, t)' = FiledOf(b, t)
    BY DEF FiledOf
  <2>2. PICK list, S : list = table[b][t] /\ S = FiledOf(b, t)
    OBVIOUS
  <2>3. SignalsOf(list, S)
    BY <2>2 DEF TableOK
  <2>4. SignalsOf(list, S)'
    BY <1>1, <2>3 DEF SignalsOf
  <2>5. table'[b][t] = list /\ FiledOf(b, t)' = S
    BY <2>1, <2>2
  <2> QED BY <2>4, <2>5 DEF SignalsOf
<1>3. table' \in [Boxes -> [SignTypes -> Seq(Signal)]]
  BY DEF TableOK
<1> QED BY <1>2, <1>3 DEF TableOK

\* The signals keep: each has the filed variables of its number, each with its place.
LEMMA TableStep ==
  ASSUME LoopOK, ListOK, SubnetsOK, StnetsOK, TableOK, PhyIO
  PROVE  TableOK'
<1>0. loop \in LoopType
  BY DEF LoopOK
<1>1. CASE ~AddVar
  <2>1. table' = table
    BY <1>0, <1>1, ReceiveListFacts, CollectFacts, SubnetDoneFacts, AllocBufFacts, GetSimuValFacts,
       getdatafromPIDFacts, setSimuValFacts, WriteFrameFacts DEF PhyIO
  <2>2. CASE ReceiveList \/ CollectSubnets
    <3>1. Filed = {} /\ Filed' = {}
      BY <2>2, FiledStep
    <3>2. \A b \in Boxes, t \in SignTypes : FiledOf(b, t) = {} /\ FiledOf(b, t)' = {}
      BY <3>1 DEF FiledOf
    <3> QED BY <2>1, <3>2 DEF TableOK, SignalsOf
  <2>3. CASE ~(ReceiveList \/ CollectSubnets)
    <3>1. Filed' = Filed
      BY <1>1, <2>3, FiledStep
    <3>2. iovars' = iovars /\ pcsubnet' = pcsubnet /\ stnetios' = stnetios
      BY <1>0, <1>1, <2>3, SubnetDoneFacts, AllocBufFacts, GetSimuValFacts,
         getdatafromPIDFacts, setSimuValFacts, WriteFrameFacts DEF PhyIO
    <3> QED BY <2>1, <3>1, <3>2, TableKept
  <2> QED BY <2>2, <2>3
<1>2. CASE AddVar /\ iovars[loop.i].SimProcNo # pcsubnet[loop.n]
  <2>1. table' = table /\ stnetios' = stnetios /\ iovars' = iovars /\ pcsubnet' = pcsubnet
    BY <1>0, <1>2, AddVarFacts
  <2>2. Filed' = Filed
    BY <1>2, FiledStep
  <2> QED BY <2>1, <2>2, TableKept
<1>3. CASE AddVar /\ iovars[loop.i].SimProcNo = pcsubnet[loop.n]
  <2>1. PICK i, sv : i = loop.i /\ sv = [prono |-> iovars[loop.i].SimProcNo, idxIO |-> IdxIO(iovars[loop.i])]
    OBVIOUS
  <2>2. /\ i \in DOMAIN iovars /\ sv \in Svar /\ IsVar(i, iovars[i].Vidno, sv)'
        /\ i \notin Filed /\ Filed' = Filed \cup {i} /\ iovars' = iovars /\ pcsubnet' = pcsubnet
        /\ table' = [table EXCEPT ![iovars[i].PidNo][iovars[i].SigType] =
                       addavar(@, iovars[i].SigType, iovars[i].Vidno, sv)]
    <3>1. i \in DOMAIN iovars
      BY <1>3, <2>1, NamedTo
    <3>2. IsVar(i, iovars[i].Vidno, sv)' /\ sv \in Svar
      BY <1>3, <2>1, IsVarFiled
    <3> QED BY <1>0, <1>3, <2>1, <3>1, <3>2, AddVarFacts, FiledStep
  <2>3. PICK b0, t0, id : b0 = iovars[i].PidNo /\ t0 = iovars[i].SigType /\ id = iovars[i].Vidno
    OBVIOUS
  <2>4. b0 \in Boxes /\ t0 \in SignTypes /\ id \in Nat \ {0}
    BY <2>2, <2>3, VarTyped
  <2>5. table \in [Boxes -> [SignTypes -> Seq(Signal)]]
    BY DEF TableOK
  <2>6. PICK new : new = addavar(table[b0][t0], t0, id, sv)
    OBVIOUS
  <2>7. table' = [table EXCEPT ![b0][t0] = new]
    BY <2>2, <2>3, <2>4, <2>5, <2>6
  <2>8. SignalsOf(table[b0][t0], FiledOf(b0, t0))
    BY <2>4 DEF TableOK
  <2>9. PICK list : list = table[b0][t0]
    OBVIOUS
  <2>10. /\ list \in Seq(Signal)
         /\ \A k, l \in DOMAIN list : list[k].idno = list[l].idno => k = l
         /\ \A k \in DOMAIN list : \A j \in DOMAIN list[k].VSimIO :
              \E x \in FiledOf(b0, t0) : IsVar(x, list[k].idno, list[k].VSimIO[j])
         /\ \A x \in FiledOf(b0, t0) : \E k \in DOMAIN list : list[k].idno = iovars[x].Vidno
    BY <2>8, <2>9 DEF SignalsOf
  <2>11. /\ new \in Seq(Signal)
         /\ \A k, l \in DOMAIN new : new[k].idno = new[l].idno => k = l
         /\ \A k \in DOMAIN new : \A j \in DOMAIN new[k].VSimIO :
              \/ new[k].idno = id /\ new[k].VSimIO[j] = sv
              \/ /\ k \in DOMAIN list /\ new[k].idno = list[k].idno
                 /\ j \in DOMAIN list[k].VSimIO /\ new[k].VSimIO[j] = list[k].VSimIO[j]
         /\ \A k \in DOMAIN list : k \in DOMAIN new /\ new[k].idno = list[k].idno
         /\ \E k \in DOMAIN new : new[k].idno = id
    <3>1. new = addavar(list, t0, id, sv)
      BY <2>6, <2>9
    <3>2. list \in Seq(Signal) /\ sv \in Svar
      BY <2>2, <2>10
    <3>3. \A k, l \in DOMAIN list : list[k].idno = list[l].idno => k = l
      BY <2>10
    <3>4. id \in Nat \ {0}
      BY <2>4
    <3>5. FiledIn(list, new, id, sv)
      BY <3>1, <3>2, <3>3, <3>4, AddavarFiles
    <3> QED BY <3>5 DEF FiledIn
  <2>12. FiledOf(b0, t0)' = FiledOf(b0, t0) \cup {i}
    BY <2>2, <2>3 DEF FiledOf
  <2>13. \A b \in Boxes, t \in SignTypes : b # b0 \/ t # t0 => FiledOf(b, t)' = FiledOf(b, t)
    BY <2>2, <2>3 DEF FiledOf
  <2>14. table' \in [Boxes -> [SignTypes -> Seq(Signal)]]
    BY <2>4, <2>5, <2>7, <2>11
  <2>15. table'[b0][t0] = new /\ \A b \in Boxes, t \in SignTypes : b # b0 \/ t # t0 => table'[b][t] = table[b][t]
    BY <2>4, <2>5, <2>7
  <2>16. \A idno, svar : \A x \in Filed : IsVar(x, idno, svar) => IsVar(x, idno, svar)'
    BY <1>3, IsVarKept
  <2>17. SignalsOf(new, FiledOf(b0, t0))'
    <3>1. \A k \in DOMAIN new : \A j \in DOMAIN new[k].VSimIO :
            \E x \in FiledOf(b0, t0)' : IsVar(x, new[k].idno, new[k].VSimIO[j])'
      <4> SUFFICES ASSUME NEW k \in DOMAIN new, NEW j \in DOMAIN new[k].VSimIO
                   PROVE  \E x \in FiledOf(b0, t0)' : IsVar(x, new[k].idno, new[k].VSimIO[j])'
        OBVIOUS
      <4>1. CASE new[k].idno = id /\ new[k].VSimIO[j] = sv
        <5>1. IsVar(i, new[k].idno, new[k].VSimIO[j])'
          BY <2>2, <2>3, <4>1
        <5> QED BY <2>12, <5>1
      <4>2. CASE /\ k \in DOMAIN list /\ new[k].idno = list[k].idno
                 /\ j \in DOMAIN list[k].VSimIO /\ new[k].VSimIO[j] = list[k].VSimIO[j]
        <5>1. PICK x \in FiledOf(b0, t0) : IsVar(x, list[k].idno, list[k].VSimIO[j])
          BY <2>10, <4>2
        <5>2. x \in Filed
          BY <5>1 DEF FiledOf
        <5>3. PICK a, c : a = new[k].idno /\ c = new[k].VSimIO[j]
          OBVIOUS
        <5>4. IsVar(x, a, c)
          BY <4>2, <5>1, <5>3
        <5>5. IsVar(x, a, c)'
          BY <2>16, <5>2, <5>4
        <5>6. IsVar(x, new[k].idno, new[k].VSimIO[j])'
          BY <5>3, <5>5
        <5> QED BY <2>12, <5>1, <5>6
      <4> QED BY <2>11, <4>1, <4>2
    <3>2. \A x \in FiledOf(b0, t0)' : \E k \in DOMAIN new : new[k].idno = iovars'[x].Vidno
      <4>1. \A x \in FiledOf(b0, t0) : \E k \in DOMAIN new : new[k].idno = iovars[x].Vidno
        BY <2>10, <2>11
      <4>2. \E k \in DOMAIN new : new[k].idno = iovars[i].Vidno
        BY <2>3, <2>11
      <4> QED BY <2>2, <2>12, <4>1, <4>2
    <3> QED BY <2>11, <3>1, <3>2 DEF SignalsOf
  <2>18. \A b \in Boxes, t \in SignTypes : SignalsOf(table[b][t], FiledOf(b, t))'
    <3> SUFFICES ASSUME NEW b \in Boxes, NEW t \in SignTypes
                 PROVE  SignalsOf(table[b][t], FiledOf(b, t))'
      OBVIOUS
    <3>1. CASE b = b0 /\ t = t0
      <4>1. table'[b][t] = new
        BY <2>15, <3>1
      <4> QED BY <2>17, <3>1, <4>1 DEF SignalsOf
    <3>2. CASE b # b0 \/ t # t0
      <4>1. PICK old : old = table[b][t]
        OBVIOUS
      <4>2. table'[b][t] = old
        BY <2>15, <3>2, <4>1
      <4>3. FiledOf(b, t)' = FiledOf(b, t) /\ FiledOf(b, t) \subseteq Filed
        BY <2>13, <3>2 DEF FiledOf
      <4>4. /\ old \in Seq(Signal)
            /\ \A k, l \in DOMAIN old : old[k].idno = old[l].idno => k = l
            /\ \A k \in DOMAIN old : \A j \in DOMAIN old[k].VSimIO :
                 \E x \in FiledOf(b, t) : IsVar(x, old[k].idno, old[k].VSimIO[j])
            /\ \A x \in FiledOf(b, t) : \E k \in DOMAIN old : old[k].idno = iovars[x].Vidno
        BY <4>1 DEF TableOK, SignalsOf
      <4>5. \A k \in DOMAIN old : \A j \in DOMAIN old[k].VSimIO :
              \E x \in FiledOf(b, t)' : IsVar(x, old[k].idno, old[k].VSimIO[j])'
        BY <2>16, <4>3, <4>4
      <4> QED BY <2>2, <4>2, <4>3, <4>4, <4>5 DEF SignalsOf
    <3> QED BY <3>1, <3>2
  <2> QED BY <2>14, <2>18 DEF TableOK
<1> QED BY <1>1, <1>2, <1>3

\* The parts of Vout keep: that of a subnet is as long as its list.
LEMMA IdsStep ==
  ASSUME LoopOK, ListOK, SubnetsOK, StnetsOK, IdsOK, PhyIO
  PROVE  IdsOK'
<1>0. loop \in LoopType /\ loop.n \in Nat /\ 0 < loop.n /\ loop.n <= Len(pcsubnet) + 1
  BY DEF LoopOK, LoopType
<1>1. pcsubnet \in Seq(Nat) /\ Len(pcsubnet) \in Nat /\ DOMAIN pcsubnet = 1 .. Len(pcsubnet)
  BY DEF SubnetsOK
<1>2. IdVin \in Seq(Nat) /\ IdVout \in Seq(Nat) /\ Len(IdVin) = Len(IdVout) /\ Len(IdVout) \in Nat
      /\ DOMAIN IdVout = 1 .. Len(IdVout)
  <2>1. IdVin \in Seq(Nat) /\ IdVout \in Seq(Nat) /\ Len(IdVin) = Len(IdVout)
    BY DEF IdsOK
  <2> QED BY <2>1
<1>3. CASE ReceiveList \/ CollectSubnets
  <2>1. /\ loop.pc \in {"list", "subnets"} /\ IdVin' = IdVin /\ IdVout' = IdVout
        /\ loop'.n = loop.n /\ loop'.pc \in {"subnets", "vars"}
    BY <1>0, <1>3, ReceiveListFacts, CollectFacts
  <2>2. Len(IdVout) = 1 /\ loop.n = 1
    BY <2>1 DEF IdsOK, LoopOK, Begun
  <2>3. ~(\E m, l \in DOMAIN IdVout : m < l)
    BY <1>2, <2>2
  <2> QED BY <1>2, <2>1, <2>2, <2>3 DEF IdsOK, Begun
<1>4. CASE AddVar
  <2>1. /\ loop.pc = "vars" /\ loop'.pc = "vars" /\ loop'.n = loop.n
        /\ IdVin' = IdVin /\ IdVout' = IdVout /\ pcsubnet' = pcsubnet
    BY <1>0, <1>4, AddVarFacts
  <2>2. Len(IdVout) = loop.n /\ loop.n <= Len(pcsubnet)
    BY <1>0, <1>4, <2>1, AddVarFacts DEF IdsOK, Begun
  <2>3. \A m, l \in DOMAIN IdVout : m < l => m # loop.n /\ m \in DOMAIN pcsubnet
    <3>1. PICK n, k \in Nat : n = loop.n /\ k = Len(pcsubnet)
      BY <1>0, <1>1, <1>2 DEF LoopType
    <3>2. DOMAIN IdVout = 1 .. n /\ DOMAIN pcsubnet = 1 .. k /\ n <= k
      BY <1>1, <1>2, <2>2, <3>1
    <3>3. \A m, l \in 1 .. n : m < l => m # n /\ m \in 1 .. k
      BY <3>2
    <3> QED BY <3>1, <3>2, <3>3
  <2>4. \A m \in DOMAIN pcsubnet : m # loop.n => stnetios'[m]["out"] = stnetios[m]["out"]
    <3>1. CASE iovars[loop.i].SimProcNo = pcsubnet[loop.n]
      BY <1>4, <3>1, NamedTo DEF Sides
    <3>2. CASE iovars[loop.i].SimProcNo # pcsubnet[loop.n]
      BY <1>0, <1>4, <3>2, AddVarFacts
    <3> QED BY <3>1, <3>2
  <2> QED BY <1>2, <2>1, <2>2, <2>3, <2>4 DEF IdsOK, Begun
<1>5. CASE SubnetDone
  <2>1. /\ loop.pc = "vars" /\ loop'.pc = "vars" /\ loop'.n = loop.n + 1 /\ loop.n <= Len(pcsubnet)
        /\ pcsubnet' = pcsubnet /\ stnetios' = stnetios
    BY <1>0, <1>5, SubnetDoneFacts
  <2>2. Len(IdVout) = loop.n
    BY <2>1 DEF IdsOK, Begun
  <2>3. StnetsType /\ CountersOK /\ loop.n \in DOMAIN pcsubnet
    BY <1>0, <1>1, <2>1 DEF StnetsOK, Begun
  <2>4. loop.Nout = Len(stnetios[loop.n]["out"]) /\ loop.Nout \in Nat /\ loop.Nin \in Nat
    BY <1>0, <2>1, <2>3 DEF CountersOK, LoopType
  <2>5. \A m \in DOMAIN pcsubnet : Len(stnetios[m]["out"]) \in Nat
    <3>1. \A m \in DOMAIN pcsubnet : stnetios[m] \in [Sides -> Seq(Nat)]
      BY <1>1, <2>3 DEF StnetsType
    <3>2. \A m \in DOMAIN pcsubnet : stnetios[m]["out"] \in Seq(Nat)
      BY <3>1 DEF Sides
    <3> QED BY <3>2
  <2>6. Last(IdVin) \in Nat /\ Last(IdVout) = IdVout[loop.n] /\ IdVout[loop.n] \in Nat
    <3>1. Len(IdVin) \in DOMAIN IdVin /\ Len(IdVout) \in DOMAIN IdVout
      BY <1>0, <1>2, <2>2
    <3> QED BY <1>2, <2>2, <3>1 DEF Last
  <2>7. PICK e, f : e = IdVout[loop.n] + loop.Nout /\ f = Last(IdVin) + loop.Nin
    OBVIOUS
  <2>8. e \in Nat /\ f \in Nat
    BY <2>4, <2>6, <2>7
  <2>9. IdVin' = Append(IdVin, f) /\ IdVout' = Append(IdVout, e)
    BY <1>5, <2>6, <2>7 DEF SubnetDone
  <2>10. /\ IdVin' \in Seq(Nat) /\ IdVout' \in Seq(Nat)
         /\ Len(IdVin') = loop.n + 1 /\ Len(IdVout') = loop.n + 1
         /\ DOMAIN IdVout' = DOMAIN IdVout \cup {loop.n + 1}
         /\ IdVout'[loop.n + 1] = e /\ \A m \in DOMAIN IdVout : IdVout'[m] = IdVout[m]
    BY <1>2, <2>2, <2>8, <2>9, Appended
  <2>11. \A m, l \in DOMAIN IdVout : m < l => IdVout[m] + Len(stnetios[m]["out"]) <= IdVout[l]
    BY DEF IdsOK
  <2>12. \A m, l \in DOMAIN IdVout' : m < l => IdVout'[m] + Len(stnetios'[m]["out"]) <= IdVout'[l]
    <3> SUFFICES ASSUME NEW m \in DOMAIN IdVout', NEW l \in DOMAIN IdVout', m < l
                 PROVE  IdVout'[m] + Len(stnetios[m]["out"]) <= IdVout'[l]
      BY <2>1
    <3>1. m \in DOMAIN IdVout /\ m \in DOMAIN pcsubnet /\ m \in Nat /\ m <= loop.n
      <4>1. DOMAIN IdVout = 1 .. loop.n /\ m \in 1 .. loop.n + 1 /\ l \in 1 .. loop.n + 1
        BY <1>0, <1>2, <2>2, <2>10
      <4>2. m \in 1 .. loop.n
        BY <1>0, <4>1
      <4>3. m \in 1 .. Len(pcsubnet)
        BY <1>0, <1>1, <2>1, <4>2
      <4> QED BY <1>0, <1>1, <4>1, <4>2, <4>3
    <3>2. IdVout[m] \in Nat /\ IdVout'[m] = IdVout[m] /\ Len(stnetios[m]["out"]) \in Nat
      BY <1>2, <2>5, <2>10, <3>1
    <3>3. CASE l \in DOMAIN IdVout
      BY <2>10, <2>11, <3>1, <3>2, <3>3
    <3>4. CASE l = loop.n + 1 /\ m = loop.n
      BY <2>4, <2>7, <2>10, <3>2, <3>4
    <3>5. CASE l = loop.n + 1 /\ m # loop.n
      <4>1. loop.n \in DOMAIN IdVout /\ m < loop.n
        BY <1>0, <1>2, <2>2, <3>1, <3>5
      <4>2. IdVout[m] + Len(stnetios[m]["out"]) <= IdVout[loop.n]
        BY <2>11, <3>1, <4>1
      <4>3. IdVout[loop.n] <= e
        BY <2>4, <2>6, <2>7
      <4>4. IdVout'[l] = e
        BY <2>10, <3>5
      <4> QED BY <2>6, <2>8, <3>2, <4>2, <4>3, <4>4
    <3> QED BY <2>10, <3>3, <3>4, <3>5
  <2> QED BY <2>1, <2>10, <2>12 DEF IdsOK, Begun
<1>6. CASE AllocBuf \/ GetSimuVal \/ getdatafromPID \/ setSimuVal \/ WriteFrame
  <2>1. /\ loop.pc \in {"vars", "receive", "read"} /\ loop'.pc \in {"receive", "read", "done"}
        /\ IdVin' = IdVin /\ IdVout' = IdVout /\ pcsubnet' = pcsubnet /\ stnetios' = stnetios
        /\ loop.pc = "vars" => loop.n > Len(pcsubnet)
    BY <1>0, <1>6, AllocBufFacts, GetSimuValFacts, getdatafromPIDFacts, setSimuValFacts, WriteFrameFacts
  <2>2. Len(IdVout) = Len(pcsubnet) + 1
    BY <1>0, <1>1, <2>1 DEF IdsOK, Begun
  <2> QED BY <2>1, <2>2 DEF IdsOK, Begun
<1> QED BY <1>3, <1>4, <1>5, <1>6 DEF PhyIO

-----------------------------------------------------------------------------
\* A step of the communicators leaves the table alone.
LEMMA CommLeaves ==
  ASSUME CommNext, UNCHANGED vars
  PROVE  Ntype' = Ntype /\ vars' = vars
BY DEF CommNext, Collective

\* The parts that are about the table alone.
TableInv == LoopOK /\ ListOK /\ SubnetsOK /\ StnetsOK /\ TableOK /\ IdsOK /\ outside \in BOOLEAN

LEMMA TableInvInit ==
  ASSUME Init
  PROVE  TableInv
<1>1. /\ Ntype \in Layouts /\ iovars = <<>> /\ pcsubnet = <<>>
      /\ loop = [pc |-> "list", n |-> 1, i |-> 1, Nin |-> 0, Nout |-> 0]
      /\ table = [b \in Boxes |-> [t \in SignTypes |-> <<>>]]
      /\ IdVin = <<0>> /\ IdVout = <<0>> /\ stnetios = <<>> /\ outside = FALSE
  BY DEF Init, CommInit
<1>2. loop \in LoopType
  BY <1>1 DEF LoopType, Stages
<1>3. LoopOK
  BY <1>1, <1>2 DEF LoopOK, Begun
<1>4. ListOK /\ SubnetsOK /\ StnetsOK
  BY <1>1 DEF ListOK, SubnetsOK, StnetsOK, Met, Begun
<1>5. TableOK
  <2>1. \A b \in Boxes, t \in SignTypes : FiledOf(b, t) = {}
    BY <1>1 DEF FiledOf, Filed
  <2>2. table \in [Boxes -> [SignTypes -> Seq(Signal)]]
    BY <1>1
  <2>3. \A b \in Boxes, t \in SignTypes : table[b][t] = <<>>
    BY <1>1
  <2> QED BY <2>1, <2>2, <2>3 DEF TableOK, SignalsOf
<1>6. IdsOK
  <2>1. IdVin \in Seq(Nat) /\ IdVout \in Seq(Nat) /\ Len(IdVin) = 1 /\ Len(IdVout) = 1 /\ DOMAIN IdVout = {1}
    BY <1>1
  <2>2. ~(\E m, l \in DOMAIN IdVout : m < l)
    BY <2>1
  <2> QED BY <1>1, <2>1, <2>2 DEF IdsOK, Begun
<1> QED BY <1>1, <1>3, <1>4, <1>5, <1>6 DEF TableInv

\* Nothing changes them but the steps of RecvSendPhyIO and of the exchange.
LEMMA TableInvKept ==
  ASSUME TableInv, Ntype' = Ntype, vars' = vars
  PROVE  TableInv'
<1>1. /\ iovars' = iovars /\ pcsubnet' = pcsubnet /\ loop' = loop /\ table' = table
      /\ IdVin' = IdVin /\ IdVout' = IdVout /\ stnetios' = stnetios /\ outside' = outside
  BY DEF vars
<1>2. Filed' = Filed /\ Met' = Met
  BY <1>1 DEF Filed, Met, Begun
<1>3. LoopOK' /\ ListOK' /\ SubnetsOK'
  BY <1>1, <1>2 DEF TableInv, LoopOK, ListOK, SubnetsOK, Begun
<1>4. StnetsOK'
  BY <1>1, <1>2 DEF TableInv, StnetsOK, StnetsType, StnetsOwn, StnetsAll, CountersOK, Begun
<1>5. TableOK'
  <2>1. TableOK
    BY DEF TableInv
  <2>2. iovars' = iovars /\ pcsubnet' = pcsubnet /\ stnetios' = stnetios /\ table' = table
    BY <1>1
  <2> QED BY <1>2, <2>1, <2>2, TableKept
<1>6. IdsOK'
  BY <1>1 DEF TableInv, IdsOK, Begun
<1> QED BY <1>1, <1>3, <1>4, <1>5, <1>6 DEF TableInv

LEMMA TableInvNext ==
  ASSUME TableInv, [Next]_<<commVars, vars>>
  PROVE  TableInv'
<1>1. CASE PhyIO /\ UNCHANGED commVars
  <2>1. loop \in LoopType
    BY DEF TableInv, LoopOK
  <2>2. outside' \in BOOLEAN
    <3>1. CASE GetSimuVal
      BY <3>1 DEF GetSimuVal
    <3>2. CASE ~GetSimuVal
      <4>1. outside' = outside
        BY <1>1, <2>1, <3>2, ReceiveListFacts, CollectFacts, AddVarFacts, SubnetDoneFacts, AllocBufFacts,
           getdatafromPIDFacts, setSimuValFacts, WriteFrameFacts DEF PhyIO
      <4> QED BY <4>1 DEF TableInv
    <3> QED BY <3>1, <3>2
  <2> QED BY <1>1, <2>2, LoopStep, ListStep, SubnetsStep, StnetsStep, TableStep, IdsStep DEF TableInv
<1>2. CASE CommNext /\ UNCHANGED vars
  BY <1>2, CommLeaves, TableInvKept
<1>3. CASE UNCHANGED <<commVars, vars>>
  <2>1. Ntype' = Ntype /\ vars' = vars
    BY <1>3 DEF commVars
  <2> QED BY <2>1, TableInvKept
<1> QED BY <1>1, <1>2, <1>3 DEF Next

\* The lists of a subnet are no longer than the list received.
LEMMA StnetsShort ==
  ASSUME TableInv, Begun, NEW m \in DOMAIN pcsubnet, NEW s \in Sides
  PROVE  /\ stnetios[m][s] \in Seq(Nat) /\ Len(stnetios[m][s]) \in Nat
         /\ DOMAIN stnetios[m][s] = 1 .. Len(stnetios[m][s])
         /\ Len(stnetios[m][s]) <= Len(iovars)
<1>1. StnetsType /\ StnetsOwn
  BY DEF TableInv, StnetsOK
<1>2. stnetios \in Seq([Sides -> Seq(Nat)]) /\ Len(stnetios) = Len(pcsubnet)
  BY <1>1 DEF StnetsType
<1>3. m \in DOMAIN stnetios
  BY <1>2 DEF TableInv, SubnetsOK
<1>4. stnetios[m][s] \in Seq(Nat)
  BY <1>2, <1>3
<1>5. PICK list \in Seq(Nat) : list = stnetios[m][s]
  BY <1>4
<1>6. iovars \in Seq(IOVars) /\ Len(iovars) \in Nat /\ DOMAIN iovars = 1 .. Len(iovars)
  BY ListTyped DEF TableInv
<1>7. DOMAIN list = 1 .. Len(list) /\ Len(list) \in Nat
  BY <1>5
<1>8. \A p \in DOMAIN list : list[p] \in DOMAIN iovars
  BY <1>1, <1>5 DEF StnetsOwn, Filed
<1>9. \A p, q \in DOMAIN list : list[p] = list[q] => p = q
  BY <1>1, <1>5 DEF StnetsOwn
<1>10. list \in [1 .. Len(list) -> 1 .. Len(iovars)]
  BY <1>6, <1>7, <1>8
<1>11. list \in Injection(1 .. Len(list), 1 .. Len(iovars))
  BY <1>7, <1>9, <1>10 DEF Injection, IsInjective
<1>12. IsFiniteSet(1 .. Len(iovars)) /\ Cardinality(1 .. Len(iovars)) = Len(iovars)
       /\ Cardinality(1 .. Len(list)) = Len(list)
  <2>1. \A n \in Nat : IsFiniteSet(1 .. n) /\ Cardinality(1 .. n) = n
    <3> SUFFICES ASSUME NEW n \in Nat PROVE IsFiniteSet(1 .. n) /\ Cardinality(1 .. n) = n
      OBVIOUS
    <3>1. IsFiniteSet(1 .. n) /\ Cardinality(1 .. n) = IF 1 > n THEN 0 ELSE n - 1 + 1
      BY FS_Interval
    <3> QED BY <3>1
  <2> QED BY <1>6, <1>7, <2>1
<1>13. Cardinality(1 .. Len(list)) <= Cardinality(1 .. Len(iovars))
  BY <1>11, <1>12, FS_Injection
<1> QED BY <1>4, <1>5, <1>7, <1>12, <1>13

\* The state keeps the shape the C++ variables give it, and the places of the variables stay within the
\* arrays exchanged with their subnets.
THEOREM TablesTyped == Spec => []TypeOK
<1>1. Init => TableInv
  BY TableInvInit
<1>2. TableInv /\ [Next]_<<commVars, vars>> => TableInv'
  BY TableInvNext
<1>3. TableInv => TypeOK
  <2> SUFFICES ASSUME TableInv PROVE TypeOK
    OBVIOUS
  <2>1. LoopOK /\ ListOK /\ SubnetsOK /\ StnetsOK /\ TableOK /\ IdsOK /\ outside \in BOOLEAN
    BY DEF TableInv
  <2>2. iovars \in Seq(IOVars) /\ Len(iovars) \in Nat
    BY <2>1, ListTyped
  <2>3. iovars \in Configs(Ntype) \cup {<<>>}
    BY <2>1 DEF ListOK
  <2>4. /\ loop.pc \in Stages /\ loop.n \in Nat /\ loop.i \in Nat /\ loop.Nin \in Nat /\ loop.Nout \in Nat
        /\ 0 < loop.n /\ loop.n <= Len(pcsubnet) + 1 /\ loop.i <= Len(iovars) + 1
        /\ loop.Nin + loop.Nout < loop.i
    BY <2>1 DEF LoopOK, LoopType
  <2>5. pcsubnet \in Seq(Nat) /\ Len(pcsubnet) \in Nat
    BY <2>1 DEF SubnetsOK
  <2>6. loop.n \in 1 .. (Len(pcsubnet) + 1) /\ loop.i \in 1 .. (Len(iovars) + 1)
        /\ loop.Nin + loop.Nout \in 0 .. Len(iovars)
    BY <2>2, <2>4, <2>5
  <2>7. ASSUME NEW b \in Boxes, NEW t \in SignTypes, NEW k \in DOMAIN table[b][t]
        PROVE  /\ table[b][t][k].idno \in Nat \ {0}
               /\ \A j \in DOMAIN table[b][t][k].VSimIO :
                    table[b][t][k].VSimIO[j].idxIO \in 0 .. (Len(iovars) - 1)
    <3>1. SignalsOf(table[b][t], FiledOf(b, t))
      BY <2>1 DEF TableOK
    <3>2. table[b][t] \in Seq(Signal)
      BY <3>1 DEF SignalsOf
    <3>3. table[b][t][k] \in Signal
      BY <3>2
    <3>4. ASSUME NEW j \in DOMAIN table[b][t][k].VSimIO
          PROVE  table[b][t][k].VSimIO[j].idxIO \in 0 .. (Len(iovars) - 1)
      <4>1. table[b][t][k].VSimIO \in Seq(Svar)
        BY <3>3 DEF Signal
      <4>2. PICK sv \in Svar : sv = table[b][t][k].VSimIO[j]
        BY <4>1
      <4>3. PICK i \in FiledOf(b, t) : IsVar(i, table[b][t][k].idno, sv)
        BY <3>1, <4>2 DEF SignalsOf
      <4>4. i \in DOMAIN iovars /\ Begun
        BY <4>3 DEF FiledOf, Filed
      <4>5. PICK s \in Sides : s = Side(iovars[i])
        BY <2>1, <4>4, VarTyped
      <4>6. PICK m \in DOMAIN pcsubnet : sv.idxIO + 1 \in DOMAIN stnetios[m][s]
        BY <4>3, <4>5 DEF IsVar
      <4>7. Len(stnetios[m][s]) \in Nat /\ DOMAIN stnetios[m][s] = 1 .. Len(stnetios[m][s])
            /\ Len(stnetios[m][s]) <= Len(iovars)
        BY <4>4, StnetsShort
      <4>8. sv.idxIO \in Nat
        BY DEF Svar
      <4>9. sv.idxIO \in 0 .. (Len(iovars) - 1)
        BY <2>2, <4>6, <4>7, <4>8
      <4> QED BY <4>2, <4>9
    <3> QED BY <3>3, <3>4 DEF Signal
  <2>8. \A n \in DOMAIN pcsubnet : pcsubnet[n] \in Nat
    BY <2>5
  <2>9. Len(IdVin) = Len(IdVout)
    BY <2>1 DEF IdsOK
  <2> QED BY <2>1, <2>3, <2>4, <2>6, <2>7, <2>8, <2>9 DEF TypeOK, Stages
<1> QED BY <1>1, <1>2, <1>3, PTL DEF Spec

-----------------------------------------------------------------------------
(* The values of a step. *)

\* When the table is built all variables are filed.
LEMMA WhenBuilt ==
  ASSUME TableInv, Built
  PROVE  /\ Begun /\ loop.pc # "vars" /\ loop.pc # "list" /\ loop.pc # "subnets"
         /\ Filed = DOMAIN iovars
         /\ \A b \in Boxes, t \in SignTypes : FiledOf(b, t) = Of(b, t)
         /\ iovars \in Configs(Ntype) /\ Ntype \in Layouts
<1>1. Begun /\ loop.pc # "vars" /\ loop.pc # "list" /\ loop.pc # "subnets"
  BY DEF Built, Begun
<1>2. Filed = DOMAIN iovars
  BY <1>1 DEF Filed
<1> QED BY <1>1, <1>2 DEF FiledOf, Of, TableInv, ListOK

\* A list of signals has as many numbers as it has signals.
LEMMA NumbersOfList ==
  ASSUME NEW list \in Seq(Signal), \A k, l \in DOMAIN list : list[k].idno = list[l].idno => k = l,
         NEW numbers, numbers = {list[k].idno : k \in DOMAIN list}
  PROVE  /\ IsFiniteSet(numbers) /\ Cardinality(numbers) = Len(list)
         /\ numbers \subseteq 1 .. Len(list) => numbers = 1 .. Len(list)
<1>1. DOMAIN list = 1 .. Len(list) /\ Len(list) \in Nat
  OBVIOUS
<1> DEFINE f == [k \in 1 .. Len(list) |-> list[k].idno]
<1>2. f \in [1 .. Len(list) -> numbers]
  BY <1>1
<1>3. \A k, l \in 1 .. Len(list) : f[k] = f[l] => k = l
  BY <1>1
<1>4. \A x \in numbers : \E k \in 1 .. Len(list) : f[k] = x
  BY <1>1
<1>5. f \in Injection(1 .. Len(list), numbers) /\ f \in Surjection(1 .. Len(list), numbers)
  <2> HIDE DEF f
  <2> QED BY <1>2, <1>3, <1>4 DEF Injection, IsInjective, Surjection
<1>6. ExistsBijection(1 .. Len(list), numbers)
  BY <1>5 DEF ExistsBijection, Bijection
<1>7. IsFiniteSet(1 .. Len(list)) /\ Cardinality(1 .. Len(list)) = Len(list)
  <2>1. /\ IsFiniteSet(1 .. Len(list))
        /\ Cardinality(1 .. Len(list)) = IF 1 > Len(list) THEN 0 ELSE Len(list) - 1 + 1
    BY <1>1, FS_Interval
  <2> QED BY <1>1, <2>1
<1>8. IsFiniteSet(numbers) /\ Cardinality(numbers) = Len(list)
  BY <1>6, <1>7, FS_Bijection
<1>9. ASSUME numbers \subseteq 1 .. Len(list) PROVE numbers = 1 .. Len(list)
  BY <1>7, <1>8, <1>9, FS_Subset
<1> QED BY <1>8, <1>9

\* The numbers of the signals of a box and kind are those of its variables, and as many as the array
\* is long; if they are numbered from 1 they are the places of the array, from 1.
Numbers(b, t) == {iovars[i].Vidno : i \in Of(b, t)}

LEMMA NumbersOfTable ==
  ASSUME TableInv, Built, NEW b \in Boxes, NEW t \in SignTypes
  PROVE  /\ table[b][t] \in Seq(Signal) /\ Len(table[b][t]) \in Nat
         /\ DOMAIN table[b][t] = 1 .. Len(table[b][t])
         /\ \A k \in DOMAIN table[b][t] : table[b][t][k].idno \in Nat \ {0}
         /\ Numbers(b, t) = {table[b][t][k].idno : k \in DOMAIN table[b][t]}
         /\ Cardinality(Numbers(b, t)) = Len(table[b][t])
         /\ Numbers(b, t) \subseteq 1 .. Len(table[b][t]) => Numbers(b, t) = 1 .. Len(table[b][t])
<1>1. SignalsOf(table[b][t], Of(b, t))
  BY WhenBuilt DEF TableInv, TableOK
<1>0. PICK numbers : numbers = Numbers(b, t)
  OBVIOUS
<1>2. PICK list : list = table[b][t]
  OBVIOUS
<1>3. /\ list \in Seq(Signal)
      /\ \A k, l \in DOMAIN list : list[k].idno = list[l].idno => k = l
      /\ \A i \in Of(b, t) : \E k \in DOMAIN list : list[k].idno = iovars[i].Vidno
      /\ \A k \in DOMAIN list : \A j \in DOMAIN list[k].VSimIO :
            \E i \in Of(b, t) : IsVar(i, list[k].idno, list[k].VSimIO[j])
  BY <1>1, <1>2 DEF SignalsOf
<1>4. \A k \in DOMAIN list : \E i \in Of(b, t) : list[k].idno = iovars[i].Vidno
  <2> SUFFICES ASSUME NEW k \in DOMAIN list PROVE \E i \in Of(b, t) : list[k].idno = iovars[i].Vidno
    OBVIOUS
  <2>0. list[k] \in Signal
    BY <1>3
  <2>1. list[k].VSimIO \in Seq(Svar) \ {<<>>}
    BY <2>0 DEF Signal
  <2>2. 1 \in DOMAIN list[k].VSimIO
    BY <2>1
  <2> QED BY <1>3, <2>2 DEF IsVar
<1>5. numbers = {list[k].idno : k \in DOMAIN list}
  BY <1>0, <1>3, <1>4 DEF Numbers
<1>6. /\ Cardinality(numbers) = Len(list)
      /\ numbers \subseteq 1 .. Len(list) => numbers = 1 .. Len(list)
  <2>1. list \in Seq(Signal) /\ \A k, l \in DOMAIN list : list[k].idno = list[l].idno => k = l
    BY <1>3
  <2> QED BY <1>5, <2>1, NumbersOfList
<1>7. \A k \in DOMAIN list : list[k].idno \in Nat \ {0}
  <2>1. \A k \in DOMAIN list : list[k] \in Signal
    BY <1>3
  <2> QED BY <2>1 DEF Signal
<1>8. DOMAIN list = 1 .. Len(list) /\ Len(list) \in Nat
  BY <1>3
<1>9. /\ Cardinality(Numbers(b, t)) = Len(list)
      /\ Numbers(b, t) \subseteq 1 .. Len(list) => Numbers(b, t) = 1 .. Len(list)
  BY <1>0, <1>6
<1>10. Numbers(b, t) = {list[k].idno : k \in DOMAIN list}
  BY <1>0, <1>5
<1>11. list \in Seq(Signal)
  BY <1>3
<1> QED BY <1>2, <1>7, <1>8, <1>9, <1>10, <1>11

\* The outputs of the list are numbered kind by kind just if no number of a box and kind lies beyond its
\* array.
LEMMA NumberedFits ==
  ASSUME TableInv, Built
  PROVE  Numbered(iovars) <=>
           \A b \in Boxes, t \in OutTypes : Numbers(b, t) \subseteq 1 .. Len(table[b][t])
<1>1. ASSUME NEW b \in Boxes, NEW t \in OutTypes
      PROVE  /\ Numbers(b, t) = {iovars[i].Vidno : i \in Mine(iovars, b, t)}
             /\ Numbers(b, t) = 1 .. Cardinality(Numbers(b, t)) <=>
                  Numbers(b, t) \subseteq 1 .. Len(table[b][t])
  <2>1. t \in SignTypes
    BY DEF OutTypes, SignTypes
  <2>2. /\ Cardinality(Numbers(b, t)) = Len(table[b][t])
        /\ Numbers(b, t) \subseteq 1 .. Len(table[b][t]) => Numbers(b, t) = 1 .. Len(table[b][t])
    BY <2>1, NumbersOfTable
  <2>3. Numbers(b, t) = {iovars[i].Vidno : i \in Mine(iovars, b, t)}
    BY DEF Numbers, Of, Mine
  <2> QED BY <2>2, <2>3
<1> QED BY <1>1 DEF Numbered, OutTypes

\* A set of natural numbers has a least one.
LEMMA LeastOf ==
  ASSUME NEW S \in SUBSET Nat, S # {}
  PROVE  \E x \in S : \A y \in S : x <= y
<1> DEFINE R == {p \in Nat \X Nat : p[1] < p[2]}
<1>1. IsWellFoundedOn(R, Nat)
  BY NatLessThanWellFounded DEF OpToRel
<1>2. PICK x \in S : \A y \in S : <<y, x>> \notin R
  <2> HIDE DEF R
  <2> QED BY <1>1, WFMin
<1>3. \A y \in S : x <= y
  <2> SUFFICES ASSUME NEW y \in S PROVE x <= y
    OBVIOUS
  <2>1. x \in Nat /\ y \in Nat /\ <<y, x>> \in Nat \X Nat
    OBVIOUS
  <2>2. ~(<<y, x>>[1] < <<y, x>>[2])
    BY <1>2, <2>1
  <2> QED BY <2>1, <2>2
<1> QED
  BY <1>3

\* A set of numbers that is not empty and has a bound has a last one.
LEMMA LastOf ==
  ASSUME NEW n \in Nat, NEW S \in SUBSET (1 .. n), S # {}
  PROVE  \E x \in S : \A y \in S : y <= x
<1> DEFINE R == {n - x : x \in S}
<1>1. \A x \in S : x \in Nat /\ n - x \in Nat
  OBVIOUS
<1>2. R \in SUBSET Nat /\ R # {}
  BY <1>1
<1>3. PICK m \in R : \A y \in R : m <= y
  <2> HIDE DEF R
  <2> QED BY <1>2, LeastOf
<1>4. PICK x \in S : m = n - x
  OBVIOUS
<1>5. \A y \in S : y <= x
  <2> SUFFICES ASSUME NEW y \in S PROVE y <= x
    OBVIOUS
  <2>1. n - y \in R
    OBVIOUS
  <2>2. n - x <= n - y
    BY <1>3, <1>4, <2>1
  <2> QED BY <1>1, <2>2
<1> QED BY <1>5

\* Which variables of a signal count: they are of the process, and there is one if the first is.
LEMMA CountingFacts ==
  ASSUME NEW list \in Seq(Svar), NEW t, NEW proc
  PROVE  /\ \A j \in Counting(list, t, proc) : j \in DOMAIN list /\ list[j].prono = proc
         /\ 1 \in DOMAIN list /\ list[1].prono = proc => \E j \in Counting(list, t, proc) : TRUE
<1> DEFINE mine == {j \in DOMAIN list : list[j].prono = proc}
<1>1. \A j \in Counting(list, t, proc) : j \in mine
  BY DEF Counting
<1>2. ASSUME 1 \in DOMAIN list, list[1].prono = proc
      PROVE  \E j \in Counting(list, t, proc) : TRUE
  <2>1. 1 \in mine /\ mine \subseteq 1 .. Len(list) /\ Len(list) \in Nat
    BY <1>2
  <2>2. CASE t = "AO"
    <3>1. PICK x \in mine : \A y \in mine : y <= x
      <4> HIDE DEF mine
      <4> QED BY <2>1, LastOf
    <3>2. x \in Counting(list, t, proc)
      BY <2>2, <3>1 DEF Counting
    <3> QED BY <3>2
  <2>3. CASE t # "AO"
    BY <2>1, <2>3 DEF Counting
  <2> QED BY <2>2, <2>3
<1> QED BY <1>1, <1>2

\* A signal's variable is one of the list, at its place among those of its subnet.
VariableOf(b, t, idno, sv) ==
  \E i \in Of(b, t), m \in DOMAIN pcsubnet :
    /\ i \in DOMAIN iovars /\ iovars[i].PidNo = b /\ iovars[i].SigType = t
    /\ iovars[i].Vidno = idno /\ iovars[i].SimProcNo = sv.prono /\ pcsubnet[m] = sv.prono
    /\ sv.idxIO + 1 \in DOMAIN stnetios[m][Side(iovars[i])]
    /\ stnetios[m][Side(iovars[i])][sv.idxIO + 1] = i

LEMMA VarOf ==
  ASSUME TableInv, Built, NEW b \in Boxes, NEW t \in SignTypes, NEW k \in DOMAIN table[b][t],
         NEW j \in DOMAIN table[b][t][k].VSimIO
  PROVE  /\ table[b][t][k].VSimIO[j] \in Svar
         /\ VariableOf(b, t, table[b][t][k].idno, table[b][t][k].VSimIO[j])
<1>1. SignalsOf(table[b][t], Of(b, t))
  BY WhenBuilt DEF TableInv, TableOK
<1>2. PICK i \in Of(b, t) : IsVar(i, table[b][t][k].idno, table[b][t][k].VSimIO[j])
  BY <1>1 DEF SignalsOf
<1>3. table[b][t][k].VSimIO[j] \in Svar
  <2>1. table[b][t][k] \in Signal
    BY <1>1 DEF SignalsOf
  <2>2. table[b][t][k].VSimIO \in Seq(Svar)
    BY <2>1 DEF Signal
  <2> QED BY <2>2
<1>4. PICK m \in DOMAIN pcsubnet :
        /\ pcsubnet[m] = table[b][t][k].VSimIO[j].prono
        /\ table[b][t][k].VSimIO[j].idxIO + 1 \in DOMAIN stnetios[m][Side(iovars[i])]
        /\ stnetios[m][Side(iovars[i])][table[b][t][k].VSimIO[j].idxIO + 1] = i
  BY <1>2 DEF IsVar
<1>5. i \in DOMAIN iovars /\ iovars[i].PidNo = b /\ iovars[i].SigType = t
      /\ iovars[i].Vidno = table[b][t][k].idno /\ iovars[i].SimProcNo = table[b][t][k].VSimIO[j].prono
  BY <1>2 DEF IsVar, Of
<1> QED BY <1>3, <1>4, <1>5 DEF VariableOf

\* A signal has a first variable.
LEMMA FirstVar ==
  ASSUME TableInv, NEW b \in Boxes, NEW t \in SignTypes, NEW k \in DOMAIN table[b][t]
  PROVE  table[b][t][k].VSimIO \in Seq(Svar) /\ 1 \in DOMAIN table[b][t][k].VSimIO
<1>1. table[b][t] \in Seq(Signal)
  BY DEF TableInv, TableOK
<1>2. table[b][t][k] \in Signal
  BY <1>1
<1>3. table[b][t][k].VSimIO \in Seq(Svar) \ {<<>>}
  BY <1>2 DEF Signal
<1> QED BY <1>3

\* A variable goes to its box from its subnet if it is of an output, and the other way if not.
LEMMA SideOf ==
  ASSUME TableInv, Built, NEW i \in DOMAIN iovars
  PROVE  /\ iovars[i].SigType \in OutTypes => Side(iovars[i]) = "in"
         /\ iovars[i].SigType \in InTypes => Side(iovars[i]) = "out"
<1>1. Directed(iovars)
  BY WhenBuilt, ListsAssumption
<1> QED BY <1>1 DEF Directed, Side, InTypes, OutTypes

\* Of the values of a subnet each is of the signal it is stored for, and a signal whose first variable is
\* of the subnet has one.
LEMMA NewFacts ==
  ASSUME TableInv, loop.pc = "receive", loop.n <= Len(pcsubnet),
         NEW b \in Boxes, NEW t \in OutTypes, NEW new,
         new = NewValues(table[b][t], t, pcsubnet[loop.n], Received(loop.n))
  PROVE  /\ \A nv \in new : /\ nv[1] \in Nat \ {0}
                            /\ nv[2] \in Of(b, t) /\ iovars[nv[2]].Vidno = nv[1]
         /\ \A k \in DOMAIN table[b][t] :
              table[b][t][k].VSimIO[1].prono = pcsubnet[loop.n] =>
                \E nv \in new : nv[1] = table[b][t][k].idno
<1>0. t \in SignTypes /\ Built /\ Begun
  BY DEF OutTypes, SignTypes, Built, Begun
<1>1. PICK n \in DOMAIN pcsubnet : n = loop.n
  <2>1. loop.n \in Nat /\ 0 < loop.n /\ pcsubnet \in Seq(Nat)
    BY DEF TableInv, LoopOK, LoopType, SubnetsOK
  <2> QED BY <2>1
<1>2. PICK list : list = table[b][t]
  OBVIOUS
<1>3. PICK val : val = Received(n)
  OBVIOUS
<1>4. new = UNION {{<<list[k].idno, val[list[k].VSimIO[j].idxIO]>> :
                      j \in Counting(list[k].VSimIO, t, pcsubnet[n])} : k \in DOMAIN list}
  BY <1>1, <1>2, <1>3 DEF NewValues
<1>5. \A k \in DOMAIN list : \A j \in Counting(list[k].VSimIO, t, pcsubnet[n]) :
        /\ list[k].idno \in Nat \ {0}
        /\ val[list[k].VSimIO[j].idxIO] \in Of(b, t)
        /\ iovars[val[list[k].VSimIO[j].idxIO]].Vidno = list[k].idno
  <2> SUFFICES ASSUME NEW k \in DOMAIN list, NEW j \in Counting(list[k].VSimIO, t, pcsubnet[n])
               PROVE  /\ list[k].idno \in Nat \ {0}
                      /\ val[list[k].VSimIO[j].idxIO] \in Of(b, t)
                      /\ iovars[val[list[k].VSimIO[j].idxIO]].Vidno = list[k].idno
    OBVIOUS
  <2>1. j \in DOMAIN list[k].VSimIO /\ list[k].VSimIO[j].prono = pcsubnet[n]
    <3>1. list[k].VSimIO \in Seq(Svar)
      BY <1>0, <1>2, FirstVar
    <3> QED BY <3>1, CountingFacts
  <2>2. PICK sv \in Svar : sv = list[k].VSimIO[j]
    BY <1>0, <1>2, <2>1, VarOf
  <2>3. PICK i \in Of(b, t), m \in DOMAIN pcsubnet :
          /\ i \in DOMAIN iovars /\ iovars[i].SigType = t
          /\ iovars[i].Vidno = list[k].idno /\ pcsubnet[m] = sv.prono
          /\ sv.idxIO + 1 \in DOMAIN stnetios[m][Side(iovars[i])]
          /\ stnetios[m][Side(iovars[i])][sv.idxIO + 1] = i
    <3>1. VariableOf(b, t, table[b][t][k].idno, table[b][t][k].VSimIO[j])
      BY <1>0, <1>2, <2>1, VarOf
    <3>2. VariableOf(b, t, list[k].idno, sv)
      BY <1>2, <2>2, <3>1
    <3> QED BY <3>2 DEF VariableOf
  <2>4. m = n
    BY <2>1, <2>2, <2>3 DEF TableInv, SubnetsOK
  <2>5. Side(iovars[i]) = "in"
    BY <1>0, <2>3, SideOf
  <2>6. sv.idxIO \in Nat
    BY DEF Svar
  <2>7. DOMAIN stnetios[n]["in"] = 1 .. Len(stnetios[n]["in"]) /\ Len(stnetios[n]["in"]) \in Nat
    BY <1>0, StnetsShort DEF Sides
  <2>8. sv.idxIO \in 0 .. (Len(stnetios[n]["in"]) - 1)
    BY <2>3, <2>4, <2>5, <2>6, <2>7
  <2>9. val[sv.idxIO] = i
    BY <1>3, <2>3, <2>4, <2>5, <2>8 DEF Received
  <2>10. list[k].idno \in Nat \ {0}
    BY <1>0, <1>2, NumbersOfTable
  <2> QED BY <2>2, <2>3, <2>9, <2>10
<1>6. ASSUME NEW k \in DOMAIN list, list[k].VSimIO[1].prono = pcsubnet[n]
      PROVE  \E nv \in new : nv[1] = list[k].idno
  <2>1. list[k].VSimIO \in Seq(Svar) /\ 1 \in DOMAIN list[k].VSimIO
    BY <1>0, <1>2, FirstVar
  <2>2. PICK j \in Counting(list[k].VSimIO, t, pcsubnet[n]) : TRUE
    BY <1>6, <2>1, CountingFacts
  <2>3. PICK nv : nv = <<list[k].idno, val[list[k].VSimIO[j].idxIO]>>
    OBVIOUS
  <2>4. nv \in new /\ nv[1] = list[k].idno
    BY <1>4, <2>2, <2>3
  <2> QED BY <2>4
<1>7. \A nv \in new : nv[1] \in Nat \ {0} /\ nv[2] \in Of(b, t) /\ iovars[nv[2]].Vidno = nv[1]
  <2> SUFFICES ASSUME NEW nv \in new
               PROVE  nv[1] \in Nat \ {0} /\ nv[2] \in Of(b, t) /\ iovars[nv[2]].Vidno = nv[1]
    OBVIOUS
  <2>1. PICK k \in DOMAIN list : \E j \in Counting(list[k].VSimIO, t, pcsubnet[n]) :
                                   nv = <<list[k].idno, val[list[k].VSimIO[j].idxIO]>>
    BY <1>4
  <2>2. PICK j \in Counting(list[k].VSimIO, t, pcsubnet[n]) :
          nv = <<list[k].idno, val[list[k].VSimIO[j].idxIO]>>
    BY <2>1
  <2> QED BY <1>5, <2>2
<1> QED BY <1>1, <1>2, <1>6, <1>7

\* An array after values were stored.
LEMMA StoreFacts ==
  ASSUME NEW n \in Nat, NEW arr, DOMAIN arr = 0 .. n - 1, NEW new, NEW s, s = Store(arr, new),
         NEW x \in 1 .. n
  PROVE  /\ DOMAIN s = 0 .. n - 1
         /\ \/ \E nv \in new : nv[1] = x /\ s[x - 1] = nv[2]
            \/ ~(\E nv \in new : nv[1] = x) /\ s[x - 1] = arr[x - 1]
<1>1. x - 1 \in DOMAIN arr /\ x - 1 + 1 = x
  OBVIOUS
<1>2. DOMAIN s = DOMAIN arr
  BY DEF Store
<1>3. CASE \E nv \in new : nv[1] = x
  <2>1. s[x - 1] = (CHOOSE nv \in new : nv[1] = x)[2]
    BY <1>1, <1>3 DEF Store
  <2> QED BY <1>2, <1>3, <2>1
<1>4. CASE ~(\E nv \in new : nv[1] = x)
  <2>1. s[x - 1] = arr[x - 1]
    BY <1>1, <1>4 DEF Store
  <2> QED BY <1>2, <1>4, <2>1
<1> QED BY <1>3, <1>4

\* Of the values of a subnet none is stored outside the array if the outputs are numbered kind by kind.
LEMMA NewInside ==
  ASSUME TableInv, Numbered(iovars), loop.pc = "receive", loop.n <= Len(pcsubnet),
         NEW b \in Boxes, NEW t \in OutTypes,
         NEW nv \in NewValues(table[b][t], t, pcsubnet[loop.n], Received(loop.n))
  PROVE  nv[1] - 1 \in 0 .. Len(table[b][t]) - 1
<1>1. Built /\ t \in SignTypes
  BY DEF Built, OutTypes, SignTypes
<1>2. nv[1] \in Nat \ {0} /\ nv[2] \in Of(b, t) /\ iovars[nv[2]].Vidno = nv[1]
  BY NewFacts
<1>3. nv[1] \in Numbers(b, t)
  BY <1>2 DEF Numbers
<1>4. nv[1] \in 1 .. Len(table[b][t])
  BY <1>1, <1>3, NumberedFits
<1>5. Len(table[b][t]) \in Nat
  BY <1>1, NumbersOfTable
<1> QED BY <1>4, <1>5

\* An array after the values of a subnet were stored: those that were there before are there.
LEMMA StoreKeeps ==
  ASSUME NEW b, NEW t, NEW n \in Nat, NEW arr, DOMAIN arr = 0 .. n - 1, NEW new,
         \A nv \in new : nv[2] \in Of(b, t) /\ iovars[nv[2]].Vidno = nv[1],
         NEW idno \in 1 .. n,
         IsStaged(arr, b, t, idno) \/ \E nv \in new : nv[1] = idno
  PROVE  IsStaged(Store(arr, new), b, t, idno)
<1>1. PICK s : s = Store(arr, new)
  OBVIOUS
<1>2. /\ DOMAIN s = 0 .. n - 1
      /\ \/ \E nv \in new : nv[1] = idno /\ s[idno - 1] = nv[2]
         \/ ~(\E nv \in new : nv[1] = idno) /\ s[idno - 1] = arr[idno - 1]
  BY <1>1, StoreFacts
<1>3. idno - 1 \in DOMAIN s
  BY <1>2
<1>4. CASE \E nv \in new : nv[1] = idno /\ s[idno - 1] = nv[2]
  BY <1>1, <1>3, <1>4 DEF IsStaged
<1>5. CASE ~(\E nv \in new : nv[1] = idno) /\ s[idno - 1] = arr[idno - 1]
  <2>1. IsStaged(arr, b, t, idno)
    BY <1>5
  <2> QED BY <1>1, <1>3, <1>5, <2>1 DEF IsStaged
<1> QED BY <1>2, <1>4, <1>5

\* GetSimuVal stores the values of a subnet with their signals, and nothing elsewhere unless it says so.
LEMMA ReceivedRight ==
  ASSUME TableInv, StagedOK, outside => ~Numbered(iovars), GetSimuVal
  PROVE  StagedOK' /\ (outside' => ~Numbered(iovars))
<1>1. /\ loop.pc = "receive" /\ loop.n <= Len(pcsubnet)
      /\ loop'.pc = "receive" /\ loop'.n = loop.n + 1
      /\ iovars' = iovars /\ pcsubnet' = pcsubnet /\ table' = table
  BY GetSimuValFacts DEF TableInv, LoopOK
<1>2. Built /\ Built'
  BY <1>1 DEF Built
<1>3. loop.n \in Nat /\ pcsubnet \in Seq(Nat) /\ DOMAIN pcsubnet = 1 .. Len(pcsubnet)
  BY DEF TableInv, LoopOK, LoopType, SubnetsOK
<1> DEFINE New(b, t) == NewValues(table[b][t], t, pcsubnet[loop.n], Received(loop.n))
<1>4. /\ staged' = [b \in Boxes |-> [t \in OutTypes |-> Store(staged[b][t], New(b, t))]]
      /\ outside' = (outside \/ \E b \in Boxes, t \in OutTypes : \E nv \in New(b, t) :
                                  nv[1] - 1 \notin DOMAIN staged[b][t])
  BY DEF GetSimuVal, OutTypes
<1>5. \A b \in Boxes, t \in OutTypes : DOMAIN staged[b][t] = 0 .. Len(table[b][t]) - 1
  BY <1>2 DEF StagedOK
<1>6. outside' => ~Numbered(iovars)
  <2> SUFFICES ASSUME outside', Numbered(iovars) PROVE FALSE
    OBVIOUS
  <2>1. PICK b \in Boxes, t \in OutTypes : \E nv \in New(b, t) : nv[1] - 1 \notin DOMAIN staged[b][t]
    BY <1>4
  <2>2. PICK nv \in New(b, t) : nv[1] - 1 \notin DOMAIN staged[b][t]
    BY <2>1
  <2>3. nv[1] - 1 \in 0 .. Len(table[b][t]) - 1
    BY <1>1, NewInside
  <2> QED BY <1>5, <2>2, <2>3
<1>7. ASSUME ~outside', NEW b \in Boxes, NEW t \in OutTypes, NEW k \in DOMAIN table[b][t],
             HasArrived(table[b][t][k])'
      PROVE  IsStaged(staged'[b][t], b, t, table[b][t][k].idno)
  <2>1. PICK new : new = New(b, t)
    OBVIOUS
  <2>2. t \in SignTypes
    BY DEF OutTypes, SignTypes
  <2>3. PICK n \in Nat : n = Len(table[b][t])
    BY <1>2, <2>2, NumbersOfTable
  <2>4. PICK arr : arr = staged[b][t]
    OBVIOUS
  <2>5. staged'[b][t] = Store(arr, new) /\ DOMAIN arr = 0 .. n - 1
    BY <1>4, <1>5, <2>1, <2>3, <2>4
  <2>6. PICK x \in Nat \ {0} : x = table[b][t][k].idno
    BY <1>2, <2>2, NumbersOfTable
  <2>7. ~outside /\ \A nv \in new : nv[1] - 1 \in 0 .. n - 1
    BY <1>4, <1>5, <1>7, <2>1, <2>3
  <2>8. /\ \A nv \in new : nv[2] \in Of(b, t) /\ iovars[nv[2]].Vidno = nv[1]
        /\ table[b][t][k].VSimIO[1].prono = pcsubnet[loop.n] => \E nv \in new : nv[1] = x
    <3>1. new = NewValues(table[b][t], t, pcsubnet[loop.n], Received(loop.n))
      BY <2>1
    <3> HIDE DEF New
    <3> QED BY <1>1, <2>6, <3>1, NewFacts
  <2>9. IsStaged(arr, b, t, x) \/ \E nv \in new : nv[1] = x
    <3>1. CASE table[b][t][k].VSimIO[1].prono = pcsubnet[loop.n]
      BY <2>8, <3>1
    <3>2. CASE table[b][t][k].VSimIO[1].prono # pcsubnet[loop.n]
      <4>2. PICK m \in DOMAIN pcsubnet : pcsubnet[m] = table[b][t][k].VSimIO[1].prono /\ m < loop.n + 1
        BY <1>1, <1>7 DEF HasArrived
      <4>3. m < loop.n
        <5>1. m # loop.n
          BY <3>2, <4>2
        <5>2. m \in Nat
          BY <1>3
        <5> QED BY <1>3, <4>2, <5>1, <5>2
      <4>4. HasArrived(table[b][t][k])
        BY <1>1, <4>2, <4>3 DEF HasArrived
      <4> QED BY <1>2, <2>4, <2>6, <2>7, <4>4 DEF StagedOK
    <3> QED BY <3>1, <3>2
  <2>10. x \in 1 .. n
    <3>1. CASE IsStaged(arr, b, t, x)
      BY <2>5, <2>6, <3>1 DEF IsStaged
    <3>2. CASE \E nv \in new : nv[1] = x
      BY <2>6, <2>7, <3>2
    <3> QED BY <2>9, <3>1, <3>2
  <2>11. IsStaged(Store(arr, new), b, t, x)
    BY <2>5, <2>8, <2>9, <2>10, StoreKeeps
  <2> QED BY <2>5, <2>6, <2>11
<1>8. DOMAIN staged' = Boxes /\ \A b \in Boxes : DOMAIN staged'[b] = OutTypes
  BY <1>4
<1>9. \A b \in Boxes, t \in OutTypes : DOMAIN staged'[b][t] = 0 .. Len(table[b][t]) - 1
  BY <1>4, <1>5 DEF Store
<1>10. StagedOK'
  <2>1. \A b \in Boxes, t \in OutTypes : \A k \in DOMAIN table[b][t] :
          HasArrived(table[b][t][k])' /\ ~outside' => IsStaged(staged'[b][t], b, t, table[b][t][k].idno)
    BY <1>7
  <2> HIDE DEF New
  <2>2. \A b, t : Of(b, t)' = Of(b, t)
    BY <1>1 DEF Of
  <2>3. ASSUME NEW b \in Boxes, NEW t \in OutTypes, NEW k \in DOMAIN table[b][t],
               HasArrived(table[b][t][k])', ~outside'
        PROVE  IsStaged(staged[b][t], b, t, table[b][t][k].idno)'
    <3>1. PICK x : x = table[b][t][k].idno
      OBVIOUS
    <3>2. (table[b][t][k].idno)' = x
      BY <1>1, <3>1
    <3>3. IsStaged(staged'[b][t], b, t, x)
      BY <2>1, <2>3, <3>1
    <3>4. /\ x - 1 \in DOMAIN staged'[b][t] /\ staged'[b][t][x - 1] \in Of(b, t)'
          /\ iovars'[staged'[b][t][x - 1]].Vidno = x
      BY <1>1, <2>2, <3>3 DEF IsStaged
    <3> QED BY <3>2, <3>4 DEF IsStaged
  <2>4. \A b \in Boxes, t \in OutTypes : \A k \in DOMAIN table'[b][t] :
          HasArrived(table[b][t][k])' /\ ~outside' => IsStaged(staged[b][t], b, t, table[b][t][k].idno)'
    BY <1>1, <2>3
  <2> QED BY <1>1, <1>2, <1>8, <1>9, <2>4 DEF StagedOK
<1> QED BY <1>6, <1>10

\* The staged outputs keep: what came from a subnet stays until the frame is written.
LEMMA StagedStep ==
  ASSUME TableInv, StagedOK, FrameOK, PhyIO
  PROVE  StagedOK' /\ FrameOK'
<1>0. loop \in LoopType /\ loop.n \in Nat /\ pcsubnet \in Seq(Nat)
      /\ DOMAIN pcsubnet = 1 .. Len(pcsubnet) /\ Len(pcsubnet) \in Nat
  BY DEF TableInv, LoopOK, LoopType, SubnetsOK
<1>1. CASE ReceiveList \/ CollectSubnets \/ AddVar \/ SubnetDone \/ AllocBuf
  <2>1. loop'.pc \in {"subnets", "vars", "receive"} /\ outside' = outside /\ ~Built
    BY <1>0, <1>1, ReceiveListFacts, CollectFacts, AddVarFacts, SubnetDoneFacts, AllocBufFacts DEF Built
  <2>2. ~outside
    BY <2>1 DEF StagedOK
  <2>3. FrameOK'
    BY <2>1, <2>2 DEF FrameOK
  <2>4. CASE ~AllocBuf
    <3>1. loop'.pc \in {"subnets", "vars"} /\ staged' = staged
      BY <1>0, <1>1, <2>4, ReceiveListFacts, CollectFacts, AddVarFacts, SubnetDoneFacts
    <3> QED BY <2>1, <2>3, <3>1 DEF StagedOK, Built
  <2>5. CASE AllocBuf
    <3>1. /\ loop'.pc = "receive" /\ loop'.n = 1 /\ pcsubnet' = pcsubnet /\ table' = table
      BY <1>0, <2>5, AllocBufFacts
    <3>2. staged' = [b \in Boxes |-> [t \in OutTypes |-> EmptyArray(Len(table[b][t]), -1)]]
      BY <2>5 DEF AllocBuf, OutTypes
    <3>3. \A b \in Boxes, t \in OutTypes : DOMAIN staged'[b][t] = 0 .. Len(table[b][t]) - 1
      BY <3>2 DEF EmptyArray
    <3>4. \A signal : ~HasArrived(signal)'
      <4>1. \A m \in DOMAIN pcsubnet : ~(m < 1)
        BY <1>0
      <4> QED BY <3>1, <4>1 DEF HasArrived
    <3>5. Built'
      BY <3>1 DEF Built
    <3> QED BY <2>3, <3>1, <3>2, <3>3, <3>4, <3>5 DEF StagedOK
  <2> QED BY <2>4, <2>5
<1>3. CASE GetSimuVal
  <2>1. StagedOK' /\ (outside' => ~Numbered(iovars))
    BY <1>3, ReceivedRight DEF FrameOK
  <2>2. loop'.pc = "receive" /\ iovars' = iovars
    BY <1>0, <1>3, GetSimuValFacts
  <2> QED BY <2>1, <2>2 DEF FrameOK
<1>4. CASE getdatafromPID \/ setSimuVal \/ WriteFrame
  <2>1. /\ Built /\ loop'.pc \in {"read", "done"}
        /\ iovars' = iovars /\ pcsubnet' = pcsubnet /\ table' = table
        /\ staged' = staged /\ outside' = outside
        /\ loop.pc = "receive" => loop.n > Len(pcsubnet)
    BY <1>0, <1>4, getdatafromPIDFacts, setSimuValFacts, WriteFrameFacts DEF Built
  <2>2. \A signal : HasArrived(signal)' => HasArrived(signal)
    <3> SUFFICES ASSUME NEW signal, HasArrived(signal)' PROVE HasArrived(signal)
      OBVIOUS
    <3>1. PICK m \in DOMAIN pcsubnet : pcsubnet[m] = signal.VSimIO[1].prono
      BY <2>1 DEF HasArrived
    <3>2. loop.pc = "receive" => m < loop.n
      BY <1>0, <2>1
    <3> QED BY <3>1, <3>2 DEF HasArrived
  <2>4. StagedOK'
    <3>1. ASSUME NEW b \in Boxes, NEW t \in OutTypes, NEW k \in DOMAIN table[b][t],
                 HasArrived(table[b][t][k])', ~outside
          PROVE  IsStaged(staged[b][t], b, t, table[b][t][k].idno)
      <4>1. PICK signal : signal = table[b][t][k]
        OBVIOUS
      <4>2. signal = table'[b][t][k]
        BY <2>1, <4>1
      <4>3. HasArrived(signal)'
        BY <3>1, <4>2 DEF HasArrived
      <4>4. HasArrived(table[b][t][k])
        BY <2>2, <4>1, <4>3
      <4> QED BY <2>1, <3>1, <4>4 DEF StagedOK
    <3>2. \A b, t : Of(b, t)' = Of(b, t)
      BY <2>1 DEF Of
    <3>3. ASSUME NEW b \in Boxes, NEW t \in OutTypes, NEW k \in DOMAIN table[b][t],
                 HasArrived(table[b][t][k])', ~outside
          PROVE  IsStaged(staged[b][t], b, t, table[b][t][k].idno)'
      <4>1. PICK x : x = table[b][t][k].idno
        OBVIOUS
      <4>2. (table[b][t][k].idno)' = x
        BY <2>1, <4>1
      <4>3. IsStaged(staged[b][t], b, t, x)
        BY <3>1, <3>3, <4>1
      <4>4. /\ x - 1 \in DOMAIN staged'[b][t] /\ staged'[b][t][x - 1] \in Of(b, t)'
            /\ iovars'[staged'[b][t][x - 1]].Vidno = x
        BY <2>1, <3>2, <4>3 DEF IsStaged
      <4> QED BY <4>2, <4>4 DEF IsStaged
    <3>4. \A b \in Boxes, t \in OutTypes : \A k \in DOMAIN table'[b][t] :
            HasArrived(table[b][t][k])' /\ ~outside' => IsStaged(staged[b][t], b, t, table[b][t][k].idno)'
      BY <2>1, <3>3
    <3>5. Built'
      BY <2>1 DEF Built
    <3> QED BY <2>1, <3>4, <3>5 DEF StagedOK
  <2>5. ASSUME loop'.pc = "done", NEW b \in Boxes, NEW t \in OutTypes
        PROVE  frame'[b][t] = [p \in DOMAIN staged[b][t] |->
                 [of |-> staged[b][t][p], bits |-> IF t = "AO" THEN Float ELSE Word \cap Byte]]
    <3>1. WriteFrame
      BY <1>0, <1>4, <2>5, getdatafromPIDFacts, setSimuValFacts
    <3>2. frame'[b][t] = IF t = "AO" THEN PID_AO_GrpWrite(staged[b][t]) ELSE PID_DO_GrpWrite(staged[b][t])
      BY <3>1 DEF WriteFrame, OutTypes
    <3>3. CASE t = "AO"
      BY <3>2, <3>3 DEF PID_AO_GrpWrite
    <3>4. CASE t # "AO"
      BY <3>2, <3>4 DEF PID_DO_GrpWrite
    <3> QED BY <3>3, <3>4
  <2>6. FrameOK'
    <3>1. outside' => ~Numbered(iovars')
      BY <2>1 DEF FrameOK
    <3> QED BY <2>1, <2>5, <3>1 DEF FrameOK
  <2> QED BY <2>4, <2>6
<1> QED BY <1>1, <1>3, <1>4 DEF PhyIO

\* The places of a subnet's values in Vout lie within it, before those of the next subnet.
LEMMA PartOf ==
  ASSUME TableInv, Built, NEW m \in DOMAIN pcsubnet, NEW p \in DOMAIN stnetios[m]["out"]
  PROVE  /\ IdVout[m] \in Nat /\ p \in Nat /\ 0 < p
         /\ IdVout[m] + p - 1 \in 0 .. Last(IdVout) - 1
         /\ \A n \in DOMAIN pcsubnet : m < n => IdVout[n] \in Nat /\ IdVout[m] + p - 1 < IdVout[n]
<1>1. Begun /\ loop.pc # "vars" /\ m \in Nat
  BY WhenBuilt DEF TableInv, SubnetsOK
<1>2. Len(stnetios[m]["out"]) \in Nat /\ DOMAIN stnetios[m]["out"] = 1 .. Len(stnetios[m]["out"])
  BY <1>1, StnetsShort DEF Sides
<1>3. p \in Nat /\ 0 < p /\ p <= Len(stnetios[m]["out"])
  BY <1>2
<1>4. IdVout \in Seq(Nat) /\ Len(IdVout) = Len(pcsubnet) + 1 /\ pcsubnet \in Seq(Nat)
      /\ \A k, l \in DOMAIN IdVout : k < l => IdVout[k] + Len(stnetios[k]["out"]) <= IdVout[l]
  BY <1>1 DEF TableInv, IdsOK, SubnetsOK
<1>5. DOMAIN IdVout = 1 .. Len(pcsubnet) + 1 /\ DOMAIN pcsubnet = 1 .. Len(pcsubnet) /\ Len(pcsubnet) \in Nat
  BY <1>4
<1>6. m \in DOMAIN IdVout /\ Len(pcsubnet) + 1 \in DOMAIN IdVout /\ m < Len(pcsubnet) + 1
      /\ \A n \in DOMAIN pcsubnet : n \in DOMAIN IdVout
  BY <1>5
<1>7. \A n \in DOMAIN IdVout : IdVout[n] \in Nat
  BY <1>4
<1>8. Last(IdVout) = IdVout[Len(pcsubnet) + 1]
  BY <1>4 DEF Last
<1>9. IdVout[m] + Len(stnetios[m]["out"]) <= Last(IdVout)
  BY <1>4, <1>6, <1>8
<1>10. IdVout[m] + p - 1 \in 0 .. Last(IdVout) - 1
  BY <1>2, <1>3, <1>6, <1>7, <1>8, <1>9
<1>11. ASSUME NEW n \in DOMAIN pcsubnet, m < n PROVE IdVout[n] \in Nat /\ IdVout[m] + p - 1 < IdVout[n]
  <2>1. IdVout[m] + Len(stnetios[m]["out"]) <= IdVout[n]
    BY <1>4, <1>6, <1>11
  <2> QED BY <1>2, <1>3, <1>6, <1>7, <2>1
<1> QED BY <1>3, <1>6, <1>7, <1>10, <1>11

\* At this place a subnet is named an input of the number.
NamedAt(b, t, idno, n, place) ==
  \E i \in Of(b, t) : stnetios[n]["out"][place] = i /\ iovars[i].Vidno = idno

\* The first variable of an input's signal is named to its subnet.
LEMMA InputPlace ==
  ASSUME TableInv, Built, NEW b \in Boxes, NEW t \in InTypes, NEW k \in DOMAIN table[b][t],
         NEW n \in DOMAIN pcsubnet, NEW sv, sv = table[b][t][k].VSimIO[1], sv.prono = pcsubnet[n]
  PROVE  /\ sv.idxIO \in Nat /\ sv.idxIO + 1 \in DOMAIN stnetios[n]["out"]
         /\ NamedAt(b, t, table[b][t][k].idno, n, sv.idxIO + 1)
<1>1. t \in SignTypes
  BY DEF InTypes, SignTypes
<1>2. 1 \in DOMAIN table[b][t][k].VSimIO
  BY <1>1, FirstVar
<1>3. sv \in Svar /\ VariableOf(b, t, table[b][t][k].idno, sv)
  BY <1>1, <1>2, VarOf
<1>4. PICK i \in Of(b, t), m \in DOMAIN pcsubnet :
        /\ i \in DOMAIN iovars /\ iovars[i].SigType = t /\ iovars[i].Vidno = table[b][t][k].idno
        /\ pcsubnet[m] = sv.prono
        /\ sv.idxIO + 1 \in DOMAIN stnetios[m][Side(iovars[i])]
        /\ stnetios[m][Side(iovars[i])][sv.idxIO + 1] = i
  BY <1>3 DEF VariableOf
<1>5. m = n
  BY <1>4 DEF TableInv, SubnetsOK
<1>6. Side(iovars[i]) = "out"
  BY <1>4, SideOf
<1>7. sv.idxIO \in Nat
  BY <1>3 DEF Svar
<1> QED BY <1>4, <1>5, <1>6, <1>7 DEF NamedAt

\* A signal of the number has its first variable at this place of a subnet's.
SignalAt(b, t, idno, n, place) ==
  \E k \in DOMAIN table[b][t] :
    /\ table[b][t][k].idno = idno
    /\ table[b][t][k].VSimIO[1].prono = pcsubnet[n]
    /\ table[b][t][k].VSimIO[1].idxIO = place

\* A variable named to a subnet as its output has a signal, whose first variable it is.
LEMMA SignalOfInput ==
  ASSUME TableInv, Built, NEW n \in DOMAIN pcsubnet, NEW p \in DOMAIN stnetios[n]["out"],
         NEW i, i = stnetios[n]["out"][p], NEW b, b = iovars[i].PidNo, NEW t, t = iovars[i].SigType
  PROVE  /\ i \in DOMAIN iovars /\ b \in Boxes /\ t \in InTypes
         /\ SignalAt(b, t, iovars[i].Vidno, n, p - 1)
<1>1. Begun /\ iovars \in Configs(Ntype) /\ Ntype \in Layouts
  BY WhenBuilt
<1>2. StnetsOwn
  BY <1>1 DEF TableInv, StnetsOK
<1>3. /\ i \in DOMAIN iovars /\ iovars[i].SimProcNo = pcsubnet[n] /\ Side(iovars[i]) = "out"
      /\ \A q \in DOMAIN stnetios[n]["out"] : stnetios[n]["out"][q] = i => q = p
  BY <1>2 DEF StnetsOwn, Sides, Filed
<1>4. b \in Boxes /\ t \in SignTypes
  BY <1>3, VarTyped DEF TableInv
<1>5. t \in InTypes
  BY <1>3, <1>4, SideOf DEF InTypes, OutTypes, SignTypes
<1>6. i \in Of(b, t)
  BY <1>3 DEF Of
<1>7. PICK k \in DOMAIN table[b][t] : table[b][t][k].idno = iovars[i].Vidno
  <2>1. SignalsOf(table[b][t], FiledOf(b, t)) /\ FiledOf(b, t) = Of(b, t)
    BY <1>4, WhenBuilt DEF TableInv, TableOK
  <2> QED BY <1>6, <2>1 DEF SignalsOf
<1>8. PICK sv : sv = table[b][t][k].VSimIO[1]
  OBVIOUS
<1>9. 1 \in DOMAIN table[b][t][k].VSimIO
  BY <1>4, FirstVar
<1>10. sv \in Svar /\ VariableOf(b, t, table[b][t][k].idno, sv)
  BY <1>4, <1>8, <1>9, VarOf
<1>11. PICK j \in Of(b, t), m \in DOMAIN pcsubnet :
         /\ j \in DOMAIN iovars /\ iovars[j].SigType = t /\ iovars[j].Vidno = table[b][t][k].idno
         /\ iovars[j].SimProcNo = sv.prono /\ pcsubnet[m] = sv.prono
         /\ sv.idxIO + 1 \in DOMAIN stnetios[m][Side(iovars[j])]
         /\ stnetios[m][Side(iovars[j])][sv.idxIO + 1] = j
  BY <1>10 DEF VariableOf
<1>12. j = i
  <2>1. OwnNumbers(iovars)
    BY <1>1, ListsAssumption
  <2>2. Mine(iovars, b, t) = Of(b, t)
    BY DEF Mine, Of
  <2>3. \A x, y \in Of(b, t) : iovars[x].Vidno = iovars[y].Vidno => x = y
    BY <1>4, <1>5, <2>1, <2>2 DEF OwnNumbers, InTypes
  <2> QED BY <1>6, <1>7, <1>11, <2>3
<1>13. sv.prono = pcsubnet[n] /\ m = n
  BY <1>3, <1>11, <1>12 DEF TableInv, SubnetsOK
<1>14. sv.idxIO + 1 = p
  BY <1>3, <1>11, <1>12, <1>13
<1>15. sv.idxIO = p - 1
  <2>1. sv.idxIO \in Nat
    BY <1>10 DEF Svar
  <2> QED BY <1>14, <2>1
<1> QED BY <1>3, <1>4, <1>5, <1>7, <1>8, <1>13, <1>15 DEF SignalAt

\* What setSimuVal of all boxes writes into Vout for a subnet.
SentTo(n) ==
  UNION {{[at  |-> IdVout[n] + iv[1], val |-> [box |-> b, kind |-> t, place |-> iv[2]]] :
            iv \in InputsOf(table[b][t], pcsubnet[n])} : b \in Boxes, t \in {"AI", "DI"}}

LEMMA SentToFacts ==
  ASSUME NEW n \in DOMAIN pcsubnet, NEW new, new = SentTo(n)
  PROVE  /\ \A nv \in new : \E b \in Boxes, t \in InTypes : \E k \in DOMAIN table[b][t] :
              /\ table[b][t][k].VSimIO[1].prono = pcsubnet[n]
              /\ nv = [at  |-> IdVout[n] + table[b][t][k].VSimIO[1].idxIO,
                       val |-> [box |-> b, kind |-> t, place |-> k - 1]]
         /\ \A b \in Boxes, t \in InTypes : \A k \in DOMAIN table[b][t] :
              table[b][t][k].VSimIO[1].prono = pcsubnet[n] =>
                [at  |-> IdVout[n] + table[b][t][k].VSimIO[1].idxIO,
                 val |-> [box |-> b, kind |-> t, place |-> k - 1]] \in new
<1>1. ASSUME NEW nv \in new
      PROVE  \E b \in Boxes, t \in InTypes : \E k \in DOMAIN table[b][t] :
              /\ table[b][t][k].VSimIO[1].prono = pcsubnet[n]
              /\ nv = [at  |-> IdVout[n] + table[b][t][k].VSimIO[1].idxIO,
                       val |-> [box |-> b, kind |-> t, place |-> k - 1]]
  <2>1. PICK b \in Boxes, t \in InTypes : \E iv \in InputsOf(table[b][t], pcsubnet[n]) :
          nv = [at  |-> IdVout[n] + iv[1], val |-> [box |-> b, kind |-> t, place |-> iv[2]]]
    BY DEF SentTo, InTypes
  <2>2. PICK iv \in InputsOf(table[b][t], pcsubnet[n]) :
          nv = [at  |-> IdVout[n] + iv[1], val |-> [box |-> b, kind |-> t, place |-> iv[2]]]
    BY <2>1
  <2>3. PICK k \in DOMAIN table[b][t] : /\ table[b][t][k].VSimIO[1].prono = pcsubnet[n]
                                         /\ iv = <<table[b][t][k].VSimIO[1].idxIO, k - 1>>
    BY <2>2 DEF InputsOf
  <2> QED BY <2>2, <2>3
<1>2. ASSUME NEW b \in Boxes, NEW t \in InTypes, NEW k \in DOMAIN table[b][t],
             table[b][t][k].VSimIO[1].prono = pcsubnet[n]
      PROVE  [at  |-> IdVout[n] + table[b][t][k].VSimIO[1].idxIO,
              val |-> [box |-> b, kind |-> t, place |-> k - 1]] \in new
  <2>1. PICK iv : iv = <<table[b][t][k].VSimIO[1].idxIO, k - 1>>
    OBVIOUS
  <2>2. iv \in InputsOf(table[b][t], pcsubnet[n])
    BY <1>2, <2>1 DEF InputsOf
  <2>3. [at  |-> IdVout[n] + iv[1], val |-> [box |-> b, kind |-> t, place |-> iv[2]]] \in new
    <3>1. PICK X : X = {[at  |-> IdVout[n] + v[1], val |-> [box |-> b, kind |-> t, place |-> v[2]]] :
                          v \in InputsOf(table[b][t], pcsubnet[n])}
      OBVIOUS
    <3>2. [at  |-> IdVout[n] + iv[1], val |-> [box |-> b, kind |-> t, place |-> iv[2]]] \in X
      BY <2>2, <3>1
    <3>3. X \in {{[at  |-> IdVout[n] + v[1], val |-> [box |-> c, kind |-> u, place |-> v[2]]] :
                    v \in InputsOf(table[c][u], pcsubnet[n])} : c \in Boxes, u \in {"AI", "DI"}}
      BY <3>1 DEF InTypes
    <3> QED BY <3>2, <3>3 DEF SentTo
  <2> QED BY <2>1, <2>3
<1> QED BY <1>1, <1>2

\* setSimuVal sends each input of a subnet from its signal, and leaves what is for the others.
LEMMA SentRight ==
  ASSUME TableInv, VoutOK, setSimuVal
  PROVE  VoutOK'
<1>1. /\ loop.pc = "read" /\ loop.n <= Len(pcsubnet) /\ loop'.pc = "read" /\ loop'.n = loop.n + 1
      /\ iovars' = iovars /\ pcsubnet' = pcsubnet /\ table' = table
      /\ IdVout' = IdVout /\ stnetios' = stnetios
  BY setSimuValFacts DEF TableInv, LoopOK
<1>2. Built /\ Begun
  BY <1>1 DEF Built, Begun
<1>3. loop.n \in Nat /\ 0 < loop.n /\ pcsubnet \in Seq(Nat) /\ DOMAIN pcsubnet = 1 .. Len(pcsubnet)
  BY DEF TableInv, LoopOK, LoopType, SubnetsOK
<1>4. PICK n \in DOMAIN pcsubnet : n = loop.n
  BY <1>1, <1>3
<1>5. PICK new : new = SentTo(n)
  OBVIOUS
<1>6. vout' = [p \in DOMAIN vout |-> IF \E nv \in new : nv.at = p
                                     THEN (CHOOSE nv \in new : nv.at = p).val ELSE vout[p]]
  BY <1>4, <1>5 DEF setSimuVal, SentTo
<1>7. /\ DOMAIN vout = 0 .. Last(IdVout) - 1
      /\ \A m \in DOMAIN pcsubnet : \A p \in DOMAIN stnetios[m]["out"] :
           m < n => SentFor(stnetios[m]["out"][p], IdVout[m] + p - 1)
  BY <1>1, <1>2, <1>4 DEF VoutOK
<1>8. \A nv \in new : \E b \in Boxes, t \in InTypes : \E k \in DOMAIN table[b][t] :
              /\ table[b][t][k].VSimIO[1].prono = pcsubnet[n]
              /\ nv = [at  |-> IdVout[n] + table[b][t][k].VSimIO[1].idxIO,
                       val |-> [box |-> b, kind |-> t, place |-> k - 1]]
  BY <1>5, SentToFacts
<1>9. ASSUME NEW m \in DOMAIN pcsubnet, NEW p \in DOMAIN stnetios[m]["out"], m < n + 1
      PROVE  SentFor(stnetios[m]["out"][p], IdVout[m] + p - 1)'
  <2>1. PICK i, b, t, at : i = stnetios[m]["out"][p] /\ b = iovars[i].PidNo /\ t = iovars[i].SigType
                           /\ at = IdVout[m] + p - 1
    OBVIOUS
  <2>2. at \in DOMAIN vout /\ IdVout[m] \in Nat /\ p \in Nat
        /\ (m < n => at < IdVout[n] /\ IdVout[n] \in Nat)
    BY <1>2, <1>7, <2>1, PartOf
  <2>3. \E k \in DOMAIN table[b][t] :
          /\ table[b][t][k].idno = iovars[i].Vidno
          /\ vout'[at] = [box |-> b, kind |-> t, place |-> k - 1]
    <3>1. CASE m < n
      <4>1. ~(\E nv \in new : nv.at = at)
        <5> SUFFICES ASSUME NEW nv \in new, nv.at = at PROVE FALSE
          OBVIOUS
        <5>1. PICK b2 \in Boxes, t2 \in InTypes : \E k \in DOMAIN table[b2][t2] :
                /\ table[b2][t2][k].VSimIO[1].prono = pcsubnet[n]
                /\ nv = [at  |-> IdVout[n] + table[b2][t2][k].VSimIO[1].idxIO,
                         val |-> [box |-> b2, kind |-> t2, place |-> k - 1]]
          BY <1>8
        <5>2. PICK k \in DOMAIN table[b2][t2] :
                /\ table[b2][t2][k].VSimIO[1].prono = pcsubnet[n]
                /\ nv = [at  |-> IdVout[n] + table[b2][t2][k].VSimIO[1].idxIO,
                         val |-> [box |-> b2, kind |-> t2, place |-> k - 1]]
          BY <5>1
        <5>3. PICK sv : sv = table[b2][t2][k].VSimIO[1]
          OBVIOUS
        <5>4. sv.idxIO \in Nat
          BY <1>2, <5>2, <5>3, InputPlace
        <5>5. at = IdVout[n] + sv.idxIO
          BY <5>2, <5>3
        <5> QED BY <2>2, <3>1, <5>4, <5>5
      <4>2. vout'[at] = vout[at]
        BY <1>6, <2>2, <4>1
      <4>3. SentFor(i, at)
        BY <1>7, <2>1, <3>1
      <4> QED BY <2>1, <4>2, <4>3 DEF SentFor
    <3>2. CASE m = n
      <4>1. /\ i \in DOMAIN iovars /\ b \in Boxes /\ t \in InTypes
            /\ SignalAt(b, t, iovars[i].Vidno, n, p - 1)
        <5>1. p \in DOMAIN stnetios[n]["out"] /\ i = stnetios[n]["out"][p]
          BY <2>1, <3>2
        <5> QED BY <1>2, <2>1, <5>1, SignalOfInput
      <4>2. PICK k \in DOMAIN table[b][t] :
                 /\ table[b][t][k].idno = iovars[i].Vidno
                 /\ table[b][t][k].VSimIO[1].prono = pcsubnet[n]
                 /\ table[b][t][k].VSimIO[1].idxIO = p - 1
        BY <4>1 DEF SignalAt
      <4>3. PICK nv0 : nv0 = [at |-> at, val |-> [box |-> b, kind |-> t, place |-> k - 1]]
        OBVIOUS
      <4>4. nv0 \in new
        <5>1. [at  |-> IdVout[n] + table[b][t][k].VSimIO[1].idxIO,
               val |-> [box |-> b, kind |-> t, place |-> k - 1]] \in new
          BY <1>5, <4>1, <4>2, SentToFacts
        <5>2. IdVout[n] + table[b][t][k].VSimIO[1].idxIO = at
          BY <2>1, <2>2, <3>2, <4>2
        <5> QED BY <4>3, <5>1, <5>2
      <4>5. \A nv \in new : nv.at = at => nv.val = nv0.val
        <5> SUFFICES ASSUME NEW nv \in new, nv.at = at PROVE nv.val = nv0.val
          OBVIOUS
        <5>1. PICK b2 \in Boxes, t2 \in InTypes : \E l \in DOMAIN table[b2][t2] :
                /\ table[b2][t2][l].VSimIO[1].prono = pcsubnet[n]
                /\ nv = [at  |-> IdVout[n] + table[b2][t2][l].VSimIO[1].idxIO,
                         val |-> [box |-> b2, kind |-> t2, place |-> l - 1]]
          BY <1>8
        <5>2. PICK l \in DOMAIN table[b2][t2] :
                /\ table[b2][t2][l].VSimIO[1].prono = pcsubnet[n]
                /\ nv = [at  |-> IdVout[n] + table[b2][t2][l].VSimIO[1].idxIO,
                         val |-> [box |-> b2, kind |-> t2, place |-> l - 1]]
          BY <5>1
        <5>3. PICK sv : sv = table[b2][t2][l].VSimIO[1]
          OBVIOUS
        <5>4. sv.idxIO \in Nat /\ NamedAt(b2, t2, table[b2][t2][l].idno, n, sv.idxIO + 1)
          BY <1>2, <5>2, <5>3, InputPlace
        <5>5. PICK j \in Of(b2, t2) : /\ stnetios[n]["out"][sv.idxIO + 1] = j
                                      /\ iovars[j].Vidno = table[b2][t2][l].idno
          BY <5>4 DEF NamedAt
        <5>6. sv.idxIO + 1 = p
          <6>1. at = IdVout[n] + sv.idxIO
            BY <5>2, <5>3
          <6> QED BY <2>1, <2>2, <3>2, <5>4, <6>1
        <5>7. j = i
          BY <2>1, <3>2, <5>5, <5>6
        <5>8. b2 = b /\ t2 = t
          BY <2>1, <5>5, <5>7 DEF Of
        <5>9. l = k
          <6>1. table[b][t][l].idno = table[b][t][k].idno
            BY <4>2, <5>5, <5>7, <5>8
          <6>2. t \in SignTypes
            BY <4>1 DEF InTypes, SignTypes
          <6>3. SignalsOf(table[b][t], FiledOf(b, t))
            BY <4>1, <6>2 DEF TableInv, TableOK
          <6> QED BY <4>2, <5>2, <5>8, <6>1, <6>3 DEF SignalsOf
        <5> QED BY <4>3, <5>2, <5>8, <5>9
      <4>6. vout'[at] = (CHOOSE nv \in new : nv.at = at).val
        BY <1>6, <2>2, <4>3, <4>4
      <4>7. (CHOOSE nv \in new : nv.at = at) \in new /\ (CHOOSE nv \in new : nv.at = at).at = at
        BY <4>3, <4>4
      <4>8. vout'[at] = [box |-> b, kind |-> t, place |-> k - 1]
        BY <4>3, <4>5, <4>6, <4>7
      <4> QED BY <4>2, <4>8
    <3> QED BY <1>3, <1>4, <1>9, <3>1, <3>2
  <2> QED BY <1>1, <2>1, <2>3 DEF SentFor
<1>10. DOMAIN vout' = 0 .. Last(IdVout') - 1
  BY <1>1, <1>6, <1>7
<1> QED BY <1>1, <1>4, <1>9, <1>10 DEF VoutOK

\* What is sent to the subnets keeps until all have been served.
LEMMA VoutStep ==
  ASSUME TableInv, VoutOK, PhyIO
  PROVE  VoutOK'
<1>0. loop \in LoopType /\ loop.n \in Nat /\ pcsubnet \in Seq(Nat)
      /\ DOMAIN pcsubnet = 1 .. Len(pcsubnet) /\ Len(pcsubnet) \in Nat
  BY DEF TableInv, LoopOK, LoopType, SubnetsOK
<1>1. CASE ReceiveList \/ CollectSubnets \/ AddVar \/ SubnetDone
  <2>1. loop'.pc \in {"subnets", "vars"}
    BY <1>0, <1>1, ReceiveListFacts, CollectFacts, AddVarFacts, SubnetDoneFacts
  <2> QED BY <2>1 DEF VoutOK, Built
<1>2. CASE AllocBuf
  <2>1. loop'.pc = "receive" /\ IdVout' = IdVout
    BY <1>0, <1>2, AllocBufFacts
  <2>2. vout' = EmptyArray(Last(IdVout), NoInput)
    BY <1>2 DEF AllocBuf
  <2>3. DOMAIN vout' = 0 .. Last(IdVout') - 1
    BY <2>1, <2>2 DEF EmptyArray
  <2> QED BY <2>1, <2>3 DEF VoutOK
<1>3. CASE setSimuVal
  BY <1>3, SentRight
<1>4. CASE GetSimuVal \/ getdatafromPID \/ WriteFrame
  <2>1. /\ Built /\ iovars' = iovars /\ pcsubnet' = pcsubnet /\ table' = table
        /\ IdVout' = IdVout /\ stnetios' = stnetios /\ vout' = vout
        /\ GetSimuVal => loop'.pc = "receive"
        /\ getdatafromPID => loop'.pc = "read" /\ loop'.n = 1
        /\ WriteFrame => loop'.pc = "done" /\ loop.pc = "read" /\ loop.n > Len(pcsubnet)
    BY <1>0, <1>4, GetSimuValFacts, getdatafromPIDFacts, WriteFrameFacts DEF Built
  <2>2. \A i, at : SentFor(i, at)' <=> SentFor(i, at)
    BY <2>1 DEF SentFor
  <2>3. ASSUME NEW m \in DOMAIN pcsubnet, NEW p \in DOMAIN stnetios[m]["out"],
               loop'.pc # "receive", loop'.pc = "read" => m < loop'.n
        PROVE  SentFor(stnetios[m]["out"][p], IdVout[m] + p - 1)
    <3>1. m \in Nat /\ 0 < m /\ m <= Len(pcsubnet)
      BY <1>0
    <3>2. WriteFrame
      BY <1>4, <2>1, <2>3, <3>1
    <3>3. m < loop.n
      BY <1>0, <2>1, <3>1, <3>2
    <3> QED BY <2>1, <3>2, <3>3 DEF VoutOK
  <2>4. DOMAIN vout' = 0 .. Last(IdVout') - 1
    BY <2>1 DEF VoutOK
  <2>5. ASSUME NEW m \in DOMAIN pcsubnet', NEW p \in DOMAIN stnetios'[m]["out"],
               loop'.pc # "receive", loop'.pc = "read" => m < loop'.n
        PROVE  SentFor(stnetios[m]["out"][p], IdVout[m] + p - 1)'
    <3>1. PICK i, at : i = stnetios[m]["out"][p] /\ at = IdVout[m] + p - 1
      OBVIOUS
    <3>2. SentFor(i, at)
      BY <2>1, <2>3, <2>5, <3>1
    <3>3. SentFor(i, at)'
      BY <2>2, <3>2
    <3> QED BY <2>1, <3>1, <3>3 DEF SentFor
  <2> QED BY <2>4, <2>5 DEF VoutOK
<1> QED BY <1>1, <1>2, <1>3, <1>4 DEF PhyIO

\* The parts that speak of the values.
ValueInv == TableInv /\ StagedOK /\ FrameOK /\ VoutOK

LEMMA ValueInvInit ==
  ASSUME Init
  PROVE  ValueInv
<1>1. /\ loop.pc = "list" /\ outside = FALSE /\ staged = [b \in Boxes |-> [t \in OutTypes |-> <<>>]]
  BY DEF Init, OutTypes
<1>2. TableInv
  BY TableInvInit
<1>3. StagedOK /\ FrameOK /\ VoutOK
  BY <1>1 DEF StagedOK, FrameOK, VoutOK, Built
<1> QED BY <1>2, <1>3 DEF ValueInv

LEMMA ValueInvNext ==
  ASSUME ValueInv, [Next]_<<commVars, vars>>
  PROVE  ValueInv'
<1>1. TableInv'
  BY TableInvNext DEF ValueInv
<1>2. CASE PhyIO
  BY <1>1, <1>2, StagedStep, VoutStep DEF ValueInv
<1>3. CASE vars' = vars
  <2>1. /\ iovars' = iovars /\ pcsubnet' = pcsubnet /\ loop' = loop /\ table' = table /\ IdVout' = IdVout
        /\ stnetios' = stnetios /\ staged' = staged /\ outside' = outside /\ frame' = frame /\ vout' = vout
    BY <1>3 DEF vars
  <2>2. StagedOK'
    <3>1. StagedOK
      BY DEF ValueInv
    <3>2. \A b, t, k : HasArrived(table[b][t][k])' <=> HasArrived(table[b][t][k])
      BY <2>1 DEF HasArrived
    <3>3. \A b, t, k : IsStaged(staged[b][t], b, t, table[b][t][k].idno)' <=>
                       IsStaged(staged[b][t], b, t, table[b][t][k].idno)
      BY <2>1 DEF IsStaged, Of
    <3> QED BY <2>1, <3>1, <3>2, <3>3 DEF StagedOK, Built
  <2>3. FrameOK'
    BY <2>1 DEF ValueInv, FrameOK
  <2>4. VoutOK'
    <3>1. VoutOK
      BY DEF ValueInv
    <3> QED BY <2>1, <3>1 DEF VoutOK, Built, SentFor
  <2> QED BY <1>1, <2>2, <2>3, <2>4 DEF ValueInv
<1> QED BY <1>2, <1>3 DEF Next

\* At the end every signal's value has been stored, if none was outside the arrays.
LEMMA AllStaged ==
  ASSUME ValueInv, loop.pc = "done", ~outside, NEW b \in Boxes, NEW t \in OutTypes
  PROVE  /\ Numbers(b, t) = 1 .. Len(table[b][t])
         /\ \A x \in Numbers(b, t) : IsStaged(staged[b][t], b, t, x)
<1>1. Built /\ t \in SignTypes /\ TableInv /\ StagedOK
  BY DEF Built, OutTypes, SignTypes, ValueInv
<1>2. \A x \in Numbers(b, t) : IsStaged(staged[b][t], b, t, x)
  <2> SUFFICES ASSUME NEW x \in Numbers(b, t) PROVE IsStaged(staged[b][t], b, t, x)
    OBVIOUS
  <2>1. PICK k \in DOMAIN table[b][t] : table[b][t][k].idno = x
    BY <1>1, NumbersOfTable
  <2>2. 1 \in DOMAIN table[b][t][k].VSimIO
    BY <1>1, FirstVar
  <2>3. VariableOf(b, t, table[b][t][k].idno, table[b][t][k].VSimIO[1])
    BY <1>1, <2>2, VarOf
  <2>4. HasArrived(table[b][t][k])
    BY <2>3 DEF HasArrived, VariableOf
  <2> QED BY <1>1, <2>1, <2>4 DEF StagedOK
<1>3. PICK n \in Nat : n = Len(table[b][t])
  BY <1>1, NumbersOfTable
<1>4. \A x \in Numbers(b, t) : x \in Nat \ {0}
  BY <1>1, NumbersOfTable
<1>5. \A x \in Numbers(b, t) : x - 1 \in 0 .. n - 1
  BY <1>1, <1>2, <1>3 DEF IsStaged, StagedOK
<1>6. Numbers(b, t) \subseteq 1 .. n
  BY <1>4, <1>5
<1> QED BY <1>1, <1>2, <1>3, <1>6, NumbersOfTable

\* A value was stored outside an array just if the outputs are not numbered kind by kind.
LEMMA OutsideDecided ==
  ASSUME ValueInv
  PROVE  StoredOutside
<1>1. outside => ~Numbered(iovars)
  BY DEF ValueInv, FrameOK
<1>2. ASSUME loop.pc = "done", ~outside PROVE Numbered(iovars)
  <2>1. \A b \in Boxes, t \in OutTypes : Numbers(b, t) \subseteq 1 .. Len(table[b][t])
    BY <1>2, AllStaged
  <2>2. TableInv /\ Built
    BY <1>2 DEF ValueInv, Built
  <2> QED BY <2>1, <2>2, NumberedFits
<1> QED BY <1>1, <1>2 DEF StoredOutside

\* At the end every output is in the frame of its box, at the place of its number.
LEMMA OutputsThere ==
  ASSUME ValueInv, ~outside
  PROVE  OutputsArrive
<1>1. ASSUME loop.pc = "done", NEW b \in Boxes, NEW t \in OutTypes
      PROVE  /\ DOMAIN frame[b][t] = {iovars[i].Vidno - 1 : i \in Of(b, t)}
             /\ \A p \in DOMAIN frame[b][t] :
                  /\ frame[b][t][p].of \in Of(b, t)
                  /\ iovars[frame[b][t][p].of].Vidno = p + 1
                  /\ frame[b][t][p].bits = IF t = "AO" THEN 0..31 ELSE 0..7
  <2>1. Built /\ t \in SignTypes /\ TableInv
    BY <1>1 DEF Built, OutTypes, SignTypes, ValueInv
  <2>2. frame[b][t] = [p \in DOMAIN staged[b][t] |->
          [of |-> staged[b][t][p], bits |-> IF t = "AO" THEN Float ELSE Word \cap Byte]]
    BY <1>1 DEF ValueInv, FrameOK
  <2>3. PICK n \in Nat : n = Len(table[b][t])
    BY <2>1, NumbersOfTable
  <2>4. PICK f : f = staged[b][t]
    OBVIOUS
  <2>5. DOMAIN f = 0 .. n - 1
    BY <2>1, <2>3, <2>4 DEF ValueInv, StagedOK
  <2>6. Numbers(b, t) = 1 .. n /\ \A x \in Numbers(b, t) : IsStaged(f, b, t, x)
    BY <1>1, <2>3, <2>4, AllStaged
  <2>7. {iovars[i].Vidno - 1 : i \in Of(b, t)} = 0 .. n - 1
    <3>1. \A i \in Of(b, t) : iovars[i].Vidno \in 1 .. n
      BY <2>6 DEF Numbers
    <3>2. \A x \in 0 .. n - 1 : \E i \in Of(b, t) : iovars[i].Vidno - 1 = x
      <4> SUFFICES ASSUME NEW x \in 0 .. n - 1 PROVE \E i \in Of(b, t) : iovars[i].Vidno - 1 = x
        OBVIOUS
      <4>1. x + 1 \in 1 .. n
        OBVIOUS
      <4>2. PICK i \in Of(b, t) : iovars[i].Vidno = x + 1
        BY <2>6, <4>1 DEF Numbers
      <4> QED BY <4>2
    <3>3. \A i \in Of(b, t) : iovars[i].Vidno - 1 \in 0 .. n - 1
      BY <3>1
    <3> QED BY <3>2, <3>3
  <2>8. ASSUME NEW p \in 0 .. n - 1
        PROVE  f[p] \in Of(b, t) /\ iovars[f[p]].Vidno = p + 1
    <3>1. p + 1 \in 1 .. n /\ (p + 1) - 1 = p
      OBVIOUS
    <3>2. IsStaged(f, b, t, p + 1)
      BY <2>6, <3>1
    <3> QED BY <3>1, <3>2 DEF IsStaged
  <2>9. Word \cap Byte = 0..7 /\ Float = 0..31
    BY DEF Word, Byte, Float
  <2>10. DOMAIN frame[b][t] = 0 .. n - 1
    BY <2>2, <2>4, <2>5
  <2>11. ASSUME NEW p \in 0 .. n - 1
         PROVE  /\ frame[b][t][p].of = f[p]
                /\ frame[b][t][p].bits = IF t = "AO" THEN 0..31 ELSE 0..7
    <3>1. PICK bits : bits = IF t = "AO" THEN 0..31 ELSE 0..7
      OBVIOUS
    <3>2. frame[b][t][p] = [of |-> f[p], bits |-> bits]
      BY <2>2, <2>4, <2>5, <2>9, <3>1
    <3> QED BY <3>1, <3>2
  <2> QED BY <2>7, <2>8, <2>10, <2>11
<1> QED BY <1>1 DEF OutputsArrive, OutTypes

\* At the end every input is where its subnet expects it, each from a place of its own.
LEMMA InputsThere ==
  ASSUME ValueInv
  PROVE  InputsArrive
<1>1. ASSUME loop.pc = "done", NEW b \in Boxes, NEW t \in InTypes, NEW i \in Of(b, t)
      PROVE  \E k \in DOMAIN table[b][t] :
               /\ table[b][t][k].idno = iovars[i].Vidno
               /\ vout[ExpectedAt(i)] = [box |-> b, kind |-> t, place |-> k - 1]
  <2>1. Built /\ Begun /\ t \in SignTypes /\ TableInv /\ Filed = DOMAIN iovars /\ VoutOK
    <3>1. Built
      BY <1>1 DEF Built
    <3> QED BY <3>1, WhenBuilt DEF InTypes, SignTypes, ValueInv
  <2>2. i \in DOMAIN iovars /\ iovars[i].PidNo = b /\ iovars[i].SigType = t
    BY DEF Of
  <2>3. Side(iovars[i]) = "out"
    BY <2>1, <2>2, SideOf
  <2>4. SubnetsOK /\ StnetsOwn /\ StnetsAll /\ LoopOK
    BY <2>1 DEF TableInv, StnetsOK
  <2>5. PICK m \in DOMAIN pcsubnet : pcsubnet[m] = iovars[i].SimProcNo
    <3>1. i \in Met
      BY <1>1, <2>2 DEF Met
    <3> QED BY <2>4, <3>1 DEF SubnetsOK
  <2>6. PICK p \in DOMAIN stnetios[m]["out"] : stnetios[m]["out"][p] = i
    BY <2>1, <2>2, <2>3, <2>4, <2>5 DEF StnetsAll
  <2>7. (CHOOSE k \in DOMAIN pcsubnet : pcsubnet[k] = iovars[i].SimProcNo) = m
    BY <2>4, <2>5 DEF SubnetsOK
  <2>8. \A q \in DOMAIN stnetios[m]["out"] : stnetios[m]["out"][q] = i => q = p
    BY <2>4, <2>6 DEF StnetsOwn, Sides
  <2>9. (CHOOSE q \in DOMAIN stnetios[m]["out"] : stnetios[m]["out"][q] = i) = p
    BY <2>6, <2>8
  <2>10. ExpectedAt(i) = IdVout[m] + p - 1
    BY <2>7, <2>9 DEF ExpectedAt
  <2>11. SentFor(i, ExpectedAt(i))
    BY <1>1, <2>1, <2>6, <2>10 DEF VoutOK
  <2> QED BY <2>2, <2>11 DEF SentFor
<1>2. ASSUME loop.pc = "done", NEW b \in Boxes, NEW t \in InTypes
      PROVE  /\ \A i \in Of(b, t) :
                  LET v == vout[ExpectedAt(i)]
                  IN v.box = b /\ v.kind = t /\ v.place < Len(table[b][t])
             /\ \A i, j \in Of(b, t) : vout[ExpectedAt(i)] = vout[ExpectedAt(j)] => i = j
  <2>1. Built /\ t \in SignTypes /\ TableInv
    BY <1>2 DEF Built, InTypes, SignTypes, ValueInv
  <2>2. table[b][t] \in Seq(Signal) /\ DOMAIN table[b][t] = 1 .. Len(table[b][t]) /\ Len(table[b][t]) \in Nat
    BY <2>1, NumbersOfTable
  <2>3. ASSUME NEW i \in Of(b, t)
        PROVE  LET v == vout[ExpectedAt(i)]
               IN v.box = b /\ v.kind = t /\ v.place < Len(table[b][t])
    <3>1. PICK k \in DOMAIN table[b][t] : vout[ExpectedAt(i)] = [box |-> b, kind |-> t, place |-> k - 1]
      BY <1>1, <1>2
    <3>2. k \in Nat /\ k <= Len(table[b][t])
      BY <2>2
    <3>3. k - 1 < Len(table[b][t])
      BY <2>2, <3>2
    <3> QED BY <3>1, <3>3
  <2>4. ASSUME NEW i \in Of(b, t), NEW j \in Of(b, t), vout[ExpectedAt(i)] = vout[ExpectedAt(j)]
        PROVE  i = j
    <3>1. PICK k \in DOMAIN table[b][t] : /\ table[b][t][k].idno = iovars[i].Vidno
                                          /\ vout[ExpectedAt(i)] = [box |-> b, kind |-> t, place |-> k - 1]
      BY <1>1, <1>2
    <3>2. PICK l \in DOMAIN table[b][t] : /\ table[b][t][l].idno = iovars[j].Vidno
                                          /\ vout[ExpectedAt(j)] = [box |-> b, kind |-> t, place |-> l - 1]
      BY <1>1, <1>2
    <3>3. k - 1 = l - 1 /\ k \in Nat /\ l \in Nat
      <4>1. PICK r : r = vout[ExpectedAt(i)]
        OBVIOUS
      <4>2. r = [box |-> b, kind |-> t, place |-> k - 1] /\ r = [box |-> b, kind |-> t, place |-> l - 1]
        BY <2>4, <3>1, <3>2, <4>1
      <4>3. r.place = k - 1 /\ r.place = l - 1
        BY <4>2
      <4> QED BY <2>2, <4>3
    <3>4. iovars[i].Vidno = iovars[j].Vidno
      BY <3>1, <3>2, <3>3
    <3>5. OwnNumbers(iovars)
      BY <2>1, WhenBuilt, ListsAssumption
    <3>6. Mine(iovars, b, t) = Of(b, t)
      BY DEF Mine, Of
    <3>7. \A x, y \in Of(b, t) : iovars[x].Vidno = iovars[y].Vidno => x = y
      BY <3>5, <3>6 DEF OwnNumbers, InTypes
    <3> QED BY <3>4, <3>7
  <2> QED BY <2>3, <2>4
<1> QED BY <1>2 DEF InputsArrive, InTypes

-----------------------------------------------------------------------------
(* The communicators. *)

\* Those of a set that come before r.
Below(S, r) == {q \in S : q < r}

LEMMA BelowFacts ==
  ASSUME NEW S \in SUBSET Nat, IsFiniteSet(S), NEW r \in Nat
  PROVE  /\ IsFiniteSet(Below(S, r)) /\ Cardinality(Below(S, r)) \in Nat
         /\ r \in S => Cardinality(Below(S, r)) < Cardinality(S)
         /\ \A s \in Nat : r \in S /\ r < s => Cardinality(Below(S, r)) < Cardinality(Below(S, s))
<1>1. \A s \in Nat : /\ IsFiniteSet(Below(S, s)) /\ Cardinality(Below(S, s)) \in Nat
                     /\ Cardinality(Below(S, s)) <= Cardinality(S)
  <2> SUFFICES ASSUME NEW s \in Nat
               PROVE  /\ IsFiniteSet(Below(S, s)) /\ Cardinality(Below(S, s)) \in Nat
                      /\ Cardinality(Below(S, s)) <= Cardinality(S)
    OBVIOUS
  <2>1. Below(S, s) \in SUBSET S
    BY DEF Below
  <2> QED BY <2>1, FS_Subset, FS_CardinalityType
<1>2. ASSUME NEW T, IsFiniteSet(T), Below(S, r) \cup {r} \subseteq T
      PROVE  Cardinality(Below(S, r)) < Cardinality(T)
  <2>1. r \notin Below(S, r)
    BY DEF Below
  <2>2. Cardinality(Below(S, r) \cup {r}) = Cardinality(Below(S, r)) + 1
    BY <1>1, <2>1, FS_AddElement
  <2>3. Cardinality(Below(S, r) \cup {r}) <= Cardinality(T) /\ Cardinality(T) \in Nat
    BY <1>2, FS_Subset, FS_CardinalityType
  <2> QED BY <1>1, <2>2, <2>3
<1>3. ASSUME r \in S PROVE Cardinality(Below(S, r)) < Cardinality(S)
  <2>1. Below(S, r) \cup {r} \subseteq S
    BY <1>3 DEF Below
  <2> QED BY <1>2, <2>1
<1>4. ASSUME NEW s \in Nat, r \in S, r < s PROVE Cardinality(Below(S, r)) < Cardinality(Below(S, s))
  <2>1. Below(S, r) \cup {r} \subseteq Below(S, s)
    <3>1. \A q \in S : q < r => q < s
      BY <1>4
    <3> QED BY <1>4, <3>1 DEF Below
  <2> QED BY <1>1, <1>2, <2>1
<1> QED BY <1>1, <1>3, <1>4

\* Of a finite set of numbers there is one that k come before, for each k less than its size.
LEMMA Counted ==
  ASSUME NEW S \in SUBSET Nat, IsFiniteSet(S), NEW k \in Nat, k < Cardinality(S)
  PROVE  \E r \in S : Cardinality(Below(S, r)) = k
<1> DEFINE T == {n \in Nat : n < Cardinality(S) /\ ~(\E r \in S : Cardinality(Below(S, r)) = n)}
<1>0. Cardinality(S) \in Nat
  BY FS_CardinalityType
<1>1. ASSUME T # {} PROVE FALSE
  <2>1. PICK m \in T : \A n \in T : m <= n
    <3>1. T \in SUBSET Nat
      OBVIOUS
    <3> HIDE DEF T
    <3> QED BY <1>1, <3>1, LeastOf
  <2>2. m \in Nat /\ m < Cardinality(S) /\ ~(\E r \in S : Cardinality(Below(S, r)) = m)
    OBVIOUS
  <2>3. CASE m = 0
    <3>1. S # {}
      BY <2>2, <2>3, FS_EmptySet
    <3>2. PICK r \in S : \A q \in S : r <= q
      BY <3>1, LeastOf
    <3>3. Below(S, r) = {}
      <4>1. \A q \in S : ~(q < r)
        BY <3>2
      <4> QED BY <4>1 DEF Below
    <3>4. Cardinality(Below(S, r)) = 0
      BY <3>3, FS_EmptySet
    <3> QED BY <2>2, <2>3, <3>4
  <2>4. CASE m > 0
    <3>1. m - 1 \in Nat /\ m - 1 < Cardinality(S) /\ ~(m <= m - 1)
      BY <1>0, <2>2, <2>4
    <3>2. PICK r \in S : Cardinality(Below(S, r)) = m - 1
      BY <2>1, <3>1
    <3>3. r \in Nat /\ r \notin Below(S, r) /\ IsFiniteSet(Below(S, r))
      BY BelowFacts DEF Below
    <3>4. Cardinality(Below(S, r) \cup {r}) = m
      <4>1. Cardinality(Below(S, r) \cup {r}) = Cardinality(Below(S, r)) + 1
        BY <3>3, FS_AddElement
      <4> QED BY <2>2, <3>2, <4>1
    <3> DEFINE U == {q \in S : r < q}
    <3>5. U # {}
      <4> SUFFICES ASSUME U = {} PROVE FALSE
        OBVIOUS
      <4>1. \A q \in S : q = r \/ q < r
        BY <3>3
      <4>2. S = Below(S, r) \cup {r}
        BY <4>1 DEF Below
      <4> QED BY <1>0, <2>2, <3>4, <4>2
    <3>6. PICK s \in U : \A q \in U : s <= q
      <4>1. U \in SUBSET Nat
        OBVIOUS
      <4> HIDE DEF U
      <4> QED BY <3>5, <4>1, LeastOf
    <3>7. Below(S, s) = Below(S, r) \cup {r}
      <4>1. \A q \in S : q < s <=> (q < r \/ q = r)
        BY <3>3, <3>6
      <4> QED BY <4>1 DEF Below
    <3> QED BY <2>2, <3>4, <3>6, <3>7
  <2> QED BY <2>2, <2>3, <2>4
<1> QED BY <1>1

\* PCbuffer gives the members of a set in order, each once.
LEMMA PCbufferFacts ==
  ASSUME NEW S \in SUBSET Nat, IsFiniteSet(S), NEW list, list = PCbuffer(S)
  PROVE  /\ Cardinality(S) \in Nat
         /\ list \in [1 .. Cardinality(S) -> S]
         /\ \A k \in 1 .. Cardinality(S) : Cardinality(Below(S, list[k])) = k - 1
         /\ \A k, l \in 1 .. Cardinality(S) : list[k] = list[l] => k = l
         /\ \A r \in S : \E k \in 1 .. Cardinality(S) : list[k] = r
<1>0. PICK n \in Nat : n = Cardinality(S)
  BY FS_CardinalityType
<1>1. list = [k \in 1 .. n |-> CHOOSE r \in S : Cardinality(Below(S, r)) = k - 1]
  BY <1>0 DEF PCbuffer, Below
<1>2. ASSUME NEW k \in 1 .. n
      PROVE  list[k] \in S /\ Cardinality(Below(S, list[k])) = k - 1
  <2>1. k - 1 \in Nat /\ k - 1 < n
    OBVIOUS
  <2>2. \E r \in S : Cardinality(Below(S, r)) = k - 1
    BY <1>0, <2>1, Counted
  <2>3. list[k] = CHOOSE r \in S : Cardinality(Below(S, r)) = k - 1
    BY <1>1
  <2> QED BY <2>2, <2>3
<1>3. \A k, l \in 1 .. n : list[k] = list[l] => k = l
  <2> SUFFICES ASSUME NEW k \in 1 .. n, NEW l \in 1 .. n, list[k] = list[l] PROVE k = l
    OBVIOUS
  <2>1. k - 1 = l - 1
    BY <1>2
  <2> QED BY <2>1
<1>4. ASSUME NEW r \in S PROVE \E k \in 1 .. n : list[k] = r
  <2>1. r \in Nat /\ Cardinality(Below(S, r)) \in Nat /\ Cardinality(Below(S, r)) < n
    BY <1>0, BelowFacts
  <2>2. PICK k \in 1 .. n : k - 1 = Cardinality(Below(S, r))
    <3>1. PICK c \in Nat : c = Cardinality(Below(S, r))
      BY <2>1
    <3>2. c + 1 \in 1 .. n /\ c + 1 - 1 = c
      BY <2>1, <3>1
    <3> QED BY <3>1, <3>2
  <2>3. PICK s \in S : s = list[k] /\ Cardinality(Below(S, s)) = k - 1
    BY <1>2
  <2>4. s \in Nat /\ ~(r < s) /\ ~(s < r)
    <3>1. r < s => Cardinality(Below(S, r)) < Cardinality(Below(S, s))
      BY <2>1, BelowFacts
    <3>2. s < r => Cardinality(Below(S, s)) < Cardinality(Below(S, r))
      BY <2>1, BelowFacts
    <3> QED BY <2>1, <2>2, <2>3, <3>1, <3>2
  <2> QED BY <2>1, <2>3, <2>4
<1>5. list \in [1 .. n -> S]
  BY <1>1, <1>2
<1> QED BY <1>0, <1>2, <1>3, <1>4, <1>5

\* Of a set without gaps it is the numbers from the first one on.
LEMMA IntervalBuffer ==
  ASSUME NEW a \in Nat, NEW n \in Nat, NEW S, S = a .. a + n - 1
  PROVE  /\ S \in SUBSET Nat /\ IsFiniteSet(S) /\ Cardinality(S) = n
         /\ PCbuffer(S) = [k \in 1 .. n |-> a + k - 1]
<1>1. S \in SUBSET Nat
  OBVIOUS
<1>2. IsFiniteSet(S) /\ Cardinality(S) = n
  <2>1. IsFiniteSet(a .. a + n - 1) /\ Cardinality(a .. a + n - 1) = IF a > a + n - 1 THEN 0 ELSE (a + n - 1) - a + 1
    BY FS_Interval
  <2> QED BY <2>1
<1>3. PICK list : list = PCbuffer(S)
  OBVIOUS
<1>4. /\ list \in [1 .. n -> S]
      /\ \A k \in 1 .. n : Cardinality(Below(S, list[k])) = k - 1
  BY <1>1, <1>2, <1>3, PCbufferFacts
<1>5. ASSUME NEW r \in S PROVE Cardinality(Below(S, r)) = r - a
  <2>1. r \in Nat /\ a <= r /\ r - 1 \in Int
    OBVIOUS
  <2>2. Below(S, r) = a .. r - 1
    BY <2>1 DEF Below
  <2>3. Cardinality(a .. r - 1) = IF a > r - 1 THEN 0 ELSE (r - 1) - a + 1
    BY <2>1, FS_Interval
  <2> QED BY <2>1, <2>2, <2>3
<1>6. ASSUME NEW k \in 1 .. n PROVE list[k] = a + k - 1
  <2>1. PICK r \in S : r = list[k]
    BY <1>4
  <2>2. r - a = k - 1
    BY <1>4, <1>5, <2>1
  <2>3. r \in Nat
    OBVIOUS
  <2> QED BY <2>1, <2>2, <2>3
<1>7. list = [k \in 1 .. n |-> a + k - 1]
  BY <1>4, <1>6
<1> QED BY <1>1, <1>2, <1>3, <1>7

\* A set of ranks that has all before each of its members has the first ones.
LEMMA InitialSegment ==
  ASSUME NEW N \in Nat, NEW S \in SUBSET (0 .. N - 1),
         \A r, q \in 0 .. N - 1 : r < q /\ q \in S => r \in S
  PROVE  \E n \in 0 .. N : S = 0 .. n - 1
<1> DEFINE U == {r \in 0 .. N : r \notin S}
<1>1. U \in SUBSET Nat /\ N \in U
  OBVIOUS
<1>2. PICK n \in U : \A r \in U : n <= r
  <2> HIDE DEF U
  <2> QED BY <1>1, LeastOf
<1>3. n \in 0 .. N /\ n \notin S
  OBVIOUS
<1>4. ASSUME NEW r \in 0 .. n - 1 PROVE r \in S
  <2>1. r \in 0 .. N /\ ~(n <= r)
    BY <1>3
  <2> QED BY <1>2, <2>1
<1>5. ASSUME NEW r \in S PROVE r \in 0 .. n - 1
  <2>1. r \in 0 .. N - 1
    OBVIOUS
  <2>2. ~(n < r)
    <3>1. n < r => n \in 0 .. N - 1
      BY <1>3, <2>1
    <3> QED BY <1>3, <2>1, <3>1
  <2>3. n # r
    BY <1>3
  <2> QED BY <1>3, <2>1, <2>2, <2>3
<1> QED BY <1>3, <1>4, <1>5

Cal == {r \in World : IsCal(r)}
ST == {r \in World : IsST(r)}
EMT == {r \in World : IsEMT(r)}
NumProcCal == Cardinality(Cal)
Ranks(first, n) == [k \in 1 .. n |-> first + k - 1]

\* The ranks of a kind when the processes were started in order.
LEMMA LayoutFacts ==
  ASSUME Ntype \in Layouts, InOrder
  PROVE  /\ Ntype \in Seq(Nat \ {0}) /\ Len(Ntype) \in Nat
         /\ NumProcCal \in Nat /\ NumProcST \in Nat /\ NumProcEMT \in Nat
         /\ 0 < NumProcST /\ NumProcST <= NumProcCal /\ NumProcCal <= Len(Ntype)
         /\ NumProcEMT = NumProcCal - NumProcST
         /\ Cal = 0 .. NumProcCal - 1 /\ ST = 0 .. NumProcST - 1 /\ EMT = NumProcST .. NumProcCal - 1
         /\ RanksCal = Ranks(0, NumProcCal) /\ RanksST = Ranks(0, NumProcST)
         /\ RanksEMT = Ranks(NumProcST, NumProcEMT)
<1>1. Ntype \in Seq(Nat \ {0}) /\ Ntype # <<>>
  BY FormCommAssumption
<1>2. PICK N \in Nat : N = Len(Ntype)
  BY <1>1
<1>3. 0 < N /\ World = 0 .. N - 1 /\ \A r \in World : Ntype[r + 1] \in Nat
  <2>1. \A r \in 0 .. N - 1 : r + 1 \in 1 .. N
    OBVIOUS
  <2>2. 0 < N
    BY <1>1, <1>2
  <2> QED BY <1>1, <1>2, <2>1, <2>2 DEF World
<1>4. \A r, q \in 0 .. N - 1 : r < q => (IsST(q) => IsST(r)) /\ (IsCal(q) => IsCal(r))
  BY <1>3 DEF InOrder
<1>5. PICK c \in 0 .. N : Cal = 0 .. c - 1
  <2>1. Cal \in SUBSET (0 .. N - 1) /\ \A r, q \in 0 .. N - 1 : r < q /\ q \in Cal => r \in Cal
    BY <1>3, <1>4 DEF Cal
  <2> QED BY <2>1, InitialSegment
<1>6. PICK s \in 0 .. N : ST = 0 .. s - 1
  <2>1. ST \in SUBSET (0 .. N - 1) /\ \A r, q \in 0 .. N - 1 : r < q /\ q \in ST => r \in ST
    BY <1>3, <1>4 DEF ST
  <2> QED BY <2>1, InitialSegment
<1>7. ST \subseteq Cal
  BY <1>3 DEF ST, Cal, IsST, IsCal
<1>8. 0 \in ST
  <2>1. 0 \in World /\ Ntype[0 + 1] = 1
    BY <1>3 DEF InOrder, STCTRL
  <2> QED BY <2>1 DEF ST, IsST
<1>9. 0 < s /\ s <= c
  <2>1. 0 < s
    BY <1>6, <1>8
  <2>2. s - 1 \in ST
    BY <1>6, <2>1
  <2> QED BY <1>5, <1>7, <2>1, <2>2
<1>10. EMT = s .. s + (c - s) - 1
  <2>1. EMT = Cal \ ST
    BY <1>3 DEF EMT, Cal, ST, IsEMT
  <2>2. \A r \in Int : (r \in 0 .. c - 1 /\ r \notin 0 .. s - 1) <=> r \in s .. s + (c - s) - 1
    BY <1>9
  <2> QED BY <1>5, <1>6, <2>1, <2>2
<1>11. s + (c - s) - 1 = c - 1 /\ c - s \in Nat /\ 0 + c - 1 = c - 1 /\ 0 + s - 1 = s - 1
  BY <1>9
<1>12. Cardinality(Cal) = c /\ PCbuffer(Cal) = Ranks(0, c)
  BY <1>5, <1>11, IntervalBuffer DEF Ranks
<1>13. Cardinality(ST) = s /\ PCbuffer(ST) = Ranks(0, s)
  BY <1>6, <1>11, IntervalBuffer DEF Ranks
<1>14. Cardinality(EMT) = c - s /\ PCbuffer(EMT) = Ranks(s, c - s)
  <2>1. PICK e \in Nat : e = c - s
    BY <1>11
  <2>2. EMT = s .. s + e - 1
    BY <1>10, <2>1
  <2> QED BY <2>1, <2>2, IntervalBuffer DEF Ranks
<1>15. NumProcCal = c /\ NumProcST = s /\ NumProcEMT = c - s
  BY <1>12, <1>13, <1>14 DEF NumProcCal, NumProcST, NumProcEMT, Cal, ST, EMT
<1>16. RanksCal = PCbuffer(Cal) /\ RanksST = PCbuffer(ST) /\ RanksEMT = PCbuffer(EMT)
  BY DEF RanksCal, RanksST, RanksEMT, Cal, ST, EMT
<1>17. EMT = s .. c - 1
  BY <1>10, <1>11
<1> QED BY <1>1, <1>2, <1>5, <1>6, <1>9, <1>11, <1>12, <1>13, <1>14, <1>15, <1>16, <1>17

Forming == {"CommCal", "CommST", "CommEMT", "CommMain_Sub", "CommEMTCAL"}
Subnets == {r \in World : Ntype[r + 1] = STSUB}
SubnetsEMT == {r \in World : Ntype[r + 1] = EMTSUB}

\* What a communicator is when it has been formed.
Due(call) ==
  CASE call = "CommWorld"     -> Ranks(0, Len(Ntype))
    [] call = "CommCal"       -> Ranks(0, NumProcCal)
    [] call = "CommST"        -> Ranks(0, NumProcST)
    [] call = "CommEMT"       -> Ranks(NumProcST, NumProcEMT)
    [] call = "CommMain_Sub"  -> <<0>> \o PCbuffer(Subnets)
    [] call = "CommEMTCAL"    -> PCbuffer(SubnetsEMT)

\* A list has all of a set, each once.
Enumerates(list, S) ==
  /\ \E m \in Nat : list \in [1 .. m -> S]
  /\ \A k, l \in DOMAIN list : list[k] = list[l] => k = l
  /\ \A r \in S : \E k \in DOMAIN list : list[k] = r

LEMMA RanksFacts ==
  ASSUME NEW first \in Nat, NEW n \in Nat, NEW list, list = Ranks(first, n)
  PROVE  /\ list \in Seq(Nat) /\ Len(list) = n /\ DOMAIN list = 1 .. n
         /\ \A q \in 0 .. n - 1 : list[q + 1] = first + q
         /\ Enumerates(list, first .. first + n - 1)
         /\ Range(list) = first .. first + n - 1
<1>1. list = [k \in 1 .. n |-> first + k - 1] /\ \A k \in 1 .. n : first + k - 1 \in Nat
  BY DEF Ranks
<1>2. list \in Seq(Nat) /\ Len(list) = n /\ DOMAIN list = 1 .. n
  <2>1. list \in [1 .. n -> Nat] 
    BY <1>1
  <2> QED BY <1>1, <2>1, SeqDef, LenProperties
<1>3. \A q \in 0 .. n - 1 : list[q + 1] = first + q
  <2>1. \A q \in 0 .. n - 1 : q + 1 \in 1 .. n /\ first + (q + 1) - 1 = first + q
    OBVIOUS
  <2> QED BY <1>1, <2>1
<1>4. Enumerates(list, first .. first + n - 1)
  <2>1. \A k \in 1 .. n : first + k - 1 \in first .. first + n - 1
    OBVIOUS
  <2>2. list \in [1 .. n -> first .. first + n - 1]
    BY <1>1, <2>1
  <2>3. \A k, l \in 1 .. n : list[k] = list[l] => k = l
    <3>1. \A k, l \in 1 .. n : first + k - 1 = first + l - 1 => k = l
      OBVIOUS
    <3> QED BY <1>1, <3>1
  <2>4. ASSUME NEW r \in first .. first + n - 1 PROVE \E k \in 1 .. n : list[k] = r
    <3>1. r - first \in 0 .. n - 1 /\ (r - first) + 1 \in 1 .. n /\ first + (r - first) = r
      OBVIOUS
    <3> QED BY <1>3, <3>1
  <2> QED BY <1>2, <2>2, <2>3, <2>4 DEF Enumerates
<1>5. Range(list) = first .. first + n - 1
  BY <1>4 DEF Enumerates, Range
<1> QED BY <1>2, <1>3, <1>4, <1>5

\* An interval of ranks of a kind, and the lists of the two kinds of subnets.
LEMMA SubnetFacts ==
  ASSUME Ntype \in Layouts, InOrder
  PROVE  /\ World = 0 .. Len(Ntype) - 1
         /\ Subnets \in SUBSET ST /\ IsFiniteSet(Subnets) /\ 0 \notin Subnets
         /\ SubnetsEMT \in SUBSET EMT /\ IsFiniteSet(SubnetsEMT)
         /\ Enumerates(PCbuffer(SubnetsEMT), SubnetsEMT)
         /\ Enumerates(<<0>> \o PCbuffer(Subnets), {0} \cup Subnets)
<1>1. /\ Ntype \in Seq(Nat \ {0}) /\ Len(Ntype) \in Nat
      /\ NumProcST \in Nat /\ NumProcCal \in Nat
      /\ ST = 0 .. NumProcST - 1 /\ EMT = NumProcST .. NumProcCal - 1
  BY LayoutFacts
<1>2. World = 0 .. Len(Ntype) - 1
  BY DEF World
<1>3. Subnets \in SUBSET ST /\ SubnetsEMT \in SUBSET EMT /\ 0 \notin Subnets
  <2>1. Ntype[0 + 1] = 1
    BY DEF InOrder, STCTRL
  <2> QED BY <2>1 DEF Subnets, SubnetsEMT, ST, EMT, IsEMT, IsCal, IsST, STSUB, EMTSUB
<1>4. /\ Subnets \in SUBSET Nat /\ IsFiniteSet(Subnets)
      /\ SubnetsEMT \in SUBSET Nat /\ IsFiniteSet(SubnetsEMT)
  <2>1. IsFiniteSet(0 .. NumProcST - 1) /\ IsFiniteSet(NumProcST .. NumProcCal - 1)
    BY <1>1, FS_Interval
  <2>2. IsFiniteSet(ST) /\ IsFiniteSet(EMT) /\ ST \in SUBSET Nat /\ EMT \in SUBSET Nat
    BY <1>1, <2>1
  <2>3. IsFiniteSet(Subnets)
    BY <1>3, <2>2, FS_Subset
  <2>4. IsFiniteSet(SubnetsEMT)
    BY <1>3, <2>2, FS_Subset
  <2> QED BY <1>3, <2>2, <2>3, <2>4
<1>5. Enumerates(PCbuffer(SubnetsEMT), SubnetsEMT)
  <2>1. PICK list : list = PCbuffer(SubnetsEMT)
    OBVIOUS
  <2>2. /\ Cardinality(SubnetsEMT) \in Nat
        /\ list \in [1 .. Cardinality(SubnetsEMT) -> SubnetsEMT]
        /\ \A k, l \in 1 .. Cardinality(SubnetsEMT) : list[k] = list[l] => k = l
        /\ \A r \in SubnetsEMT : \E k \in 1 .. Cardinality(SubnetsEMT) : list[k] = r
    BY <1>4, <2>1, PCbufferFacts
  <2> QED BY <2>1, <2>2 DEF Enumerates
<1>6. Enumerates(<<0>> \o PCbuffer(Subnets), {0} \cup Subnets)
  <2>1. PICK list : list = PCbuffer(Subnets)
    OBVIOUS
  <2>2. PICK n \in Nat : n = Cardinality(Subnets)
    BY <1>4, FS_CardinalityType
  <2>3. /\ list \in [1 .. n -> Subnets]
        /\ \A k, l \in 1 .. n : list[k] = list[l] => k = l
        /\ \A r \in Subnets : \E k \in 1 .. n : list[k] = r
    BY <1>4, <2>1, <2>2, PCbufferFacts
  <2>4. PICK all : all = <<0>> \o list
    OBVIOUS
  <2>5. list \in Seq(Subnets) /\ list \in Seq(Nat) /\ Len(list) = n
    <3>1. list \in [1 .. n -> Nat]
      BY <1>4, <2>3
    <3> QED BY <2>3, <3>1, SeqDef, LenProperties
  <2>6. /\ DOMAIN all = 1 .. n + 1 /\ all[1] = 0
        /\ \A k \in 1 .. n + 1 : k # 1 => k - 1 \in 1 .. n /\ all[k] = list[k - 1]
    <3>1. <<0>> \in Seq(Nat) /\ list \in Seq(Nat) /\ Len(<<0>>) = 1 /\ <<0>>[1] = 0
      BY <2>5
    <3>2. Len(all) = 1 + n /\ all \in Seq(Nat)
      BY <2>4, <2>5, <3>1, ConcatProperties
    <3>3. all[1] = 0
      BY <2>4, <2>5, <3>1
    <3>4. \A k \in 1 .. n + 1 : k # 1 => k - 1 \in 1 .. n /\ all[k] = list[k - 1]
      BY <2>4, <2>5, <3>1
    <3> QED BY <3>2, <3>3, <3>4
  <2>7. all \in [1 .. n + 1 -> {0} \cup Subnets]
    <3>1. \A k \in 1 .. n + 1 : all[k] \in {0} \cup Subnets
      BY <2>3, <2>6
    <3>2. all = [k \in 1 .. n + 1 |-> all[k]]
      <4>1. all \in Seq(Nat)
        <5>1. <<0>> \in Seq(Nat) /\ list \in Seq(Nat)
          BY <2>5
        <5> QED BY <2>4, <5>1, ConcatProperties
      <4> QED BY <2>6, <4>1
    <3> QED BY <3>1, <3>2
  <2>8. ASSUME NEW k \in 1 .. n + 1, NEW l \in 1 .. n + 1, all[k] = all[l] PROVE k = l
    <3>1. k # 1 => all[k] \in Subnets /\ all[k] # 0
      BY <1>3, <2>3, <2>6
    <3>2. l # 1 => all[l] \in Subnets /\ all[l] # 0
      BY <1>3, <2>3, <2>6
    <3>3. k = 1 <=> l = 1
      BY <2>6, <2>8, <3>1, <3>2
    <3>4. k # 1 /\ l # 1 => k - 1 = l - 1
      BY <2>3, <2>6, <2>8
    <3> QED BY <3>3, <3>4
  <2>9. ASSUME NEW r \in {0} \cup Subnets PROVE \E k \in 1 .. n + 1 : all[k] = r
    <3>1. CASE r = 0
      <4>1. 1 \in 1 .. n + 1
        OBVIOUS
      <4> QED BY <2>6, <3>1, <4>1
    <3>2. CASE r \in Subnets
      <4>1. PICK k \in 1 .. n : list[k] = r
        BY <2>3, <3>2
      <4>2. k + 1 \in 1 .. n + 1 /\ k + 1 # 1 /\ (k + 1) - 1 = k
        OBVIOUS
      <4> QED BY <2>6, <4>1, <4>2
    <3> QED BY <3>1, <3>2
  <2>10. n + 1 \in Nat
    OBVIOUS
  <2> QED BY <2>1, <2>4, <2>6, <2>7, <2>8, <2>9, <2>10 DEF Enumerates
<1> QED BY <1>2, <1>3, <1>4, <1>5, <1>6

\* The ranks that a call makes a communicator of are ranks in the one it is made on, and
\* the processes that have them there are those that the new one is for.
Fits(call) ==
  \E first, n, m \in Nat : \E list \in [1 .. m -> 0 .. n - 1] :
    /\ Due(On(call)) = Ranks(first, n)
    /\ Members(call) = list
    /\ \A k, l \in 1 .. m : list[k] = list[l] => k = l
    /\ Due(call) = [k \in 1 .. m |-> first + list[k]]

LEMMA FitsAsItIs ==
  ASSUME NEW n \in Nat, NEW S \in SUBSET (0 .. n - 1), NEW list, Enumerates(list, S),
         NEW call, Due(On(call)) = Ranks(0, n), Members(call) = list, Due(call) = list
  PROVE  Fits(call)
<1>1. PICK m \in Nat : list \in [1 .. m -> S]
  BY DEF Enumerates
<1>2. list \in [1 .. m -> 0 .. n - 1] /\ \A k, l \in 1 .. m : list[k] = list[l] => k = l
  BY <1>1 DEF Enumerates
<1>3. list = [k \in 1 .. m |-> 0 + list[k]]
  <2>1. \A k \in 1 .. m : list[k] \in Nat /\ 0 + list[k] = list[k]
    BY <1>2
  <2> QED BY <1>2, <2>1
<1>4. 0 \in Nat
  OBVIOUS
<1> QED BY <1>1, <1>2, <1>3, <1>4 DEF Fits

LEMMA AllFit ==
  ASSUME Ntype \in Layouts, InOrder, NEW call \in Forming
  PROVE  Fits(call)
<1>1. /\ NumProcCal \in Nat /\ NumProcST \in Nat /\ NumProcEMT \in Nat /\ Len(Ntype) \in Nat
      /\ NumProcST <= NumProcCal /\ NumProcCal <= Len(Ntype) /\ 0 < NumProcST
      /\ NumProcEMT = NumProcCal - NumProcST
      /\ ST = 0 .. NumProcST - 1 /\ EMT = NumProcST .. NumProcCal - 1
      /\ RanksCal = Ranks(0, NumProcCal) /\ RanksST = Ranks(0, NumProcST)
      /\ RanksEMT = Ranks(NumProcST, NumProcEMT)
  BY LayoutFacts
<1>2. PICK c, s, e, N \in Nat : c = NumProcCal /\ s = NumProcST /\ e = NumProcEMT /\ N = Len(Ntype)
  BY <1>1
<1>3. s <= c /\ c <= N /\ 0 < s /\ e = c - s /\ 0 + c - 1 = c - 1 /\ 0 + s - 1 = s - 1 /\ s + e - 1 = c - 1
  BY <1>1, <1>2
<1>4. CASE call = "CommCal"
  <2>1. Enumerates(Ranks(0, c), 0 .. c - 1)
    BY <1>3, RanksFacts
  <2>2. 0 .. c - 1 \in SUBSET (0 .. N - 1)
    BY <1>3
  <2>3. Due(On(call)) = Ranks(0, N) /\ Members(call) = Ranks(0, c) /\ Due(call) = Ranks(0, c)
    BY <1>1, <1>2, <1>4 DEF Due, On, Members
  <2> QED BY <2>1, <2>2, <2>3, FitsAsItIs
<1>5. CASE call = "CommST"
  <2>1. Enumerates(Ranks(0, s), 0 .. s - 1)
    BY <1>3, RanksFacts
  <2>2. 0 .. s - 1 \in SUBSET (0 .. c - 1)
    BY <1>3
  <2>3. Due(On(call)) = Ranks(0, c) /\ Members(call) = Ranks(0, s) /\ Due(call) = Ranks(0, s)
    BY <1>1, <1>2, <1>5 DEF Due, On, Members
  <2> QED BY <2>1, <2>2, <2>3, FitsAsItIs
<1>6. CASE call = "CommEMT"
  <2>1. Enumerates(Ranks(s, e), s .. c - 1)
    BY <1>3, RanksFacts
  <2>2. s .. c - 1 \in SUBSET (0 .. c - 1)
    BY <1>3
  <2>3. Due(On(call)) = Ranks(0, c) /\ Members(call) = Ranks(s, e) /\ Due(call) = Ranks(s, e)
    BY <1>1, <1>2, <1>6 DEF Due, On, Members
  <2> QED BY <2>1, <2>2, <2>3, FitsAsItIs
<1>7. CASE call = "CommMain_Sub"
  <2>1. PICK list : list = <<0>> \o PCbuffer(Subnets)
    OBVIOUS
  <2>2. Enumerates(list, {0} \cup Subnets) /\ Subnets \in SUBSET ST
    BY <2>1, SubnetFacts
  <2>3. {0} \cup Subnets \in SUBSET (0 .. s - 1)
    BY <1>1, <1>2, <1>3, <2>2
  <2>4. RanksMain_Sub = list
    <3>1. {r \in World : r < NumProcST /\ Ntype[r + 1] = STSUB} = Subnets
      <4>1. \A r \in Subnets : r < NumProcST
        BY <1>1, <2>2
      <4> QED BY <4>1 DEF Subnets
    <3> QED BY <2>1, <3>1 DEF RanksMain_Sub
  <2>5. Due(On(call)) = Ranks(0, s) /\ Members(call) = list /\ Due(call) = list
    BY <1>2, <1>7, <2>1, <2>4 DEF Due, On, Members
  <2> QED BY <2>2, <2>3, <2>5, FitsAsItIs
<1>8. CASE call = "CommEMTCAL"
  <2>1. PICK ranks : ranks = PCbuffer(SubnetsEMT)
    OBVIOUS
  <2>2. Enumerates(ranks, SubnetsEMT) /\ SubnetsEMT \in SUBSET (s .. c - 1)
    BY <1>1, <1>2, <2>1, SubnetFacts
  <2>3. PICK m \in Nat : ranks \in [1 .. m -> SubnetsEMT]
    BY <2>2 DEF Enumerates
  <2>4. PICK list : list = [k \in 1 .. m |-> ranks[k] - s]
    OBVIOUS
  <2>5. \A k \in 1 .. m : /\ ranks[k] \in Nat /\ list[k] = ranks[k] - s
                          /\ list[k] \in 0 .. e - 1 /\ s + list[k] = ranks[k]
    <3> SUFFICES ASSUME NEW k \in 1 .. m
                 PROVE  /\ ranks[k] \in Nat /\ list[k] = ranks[k] - s
                        /\ list[k] \in 0 .. e - 1 /\ s + list[k] = ranks[k]
      OBVIOUS
    <3>1. list[k] = ranks[k] - s
      BY <2>4
    <3>2. PICK q \in s .. c - 1 : q = ranks[k]
      BY <2>2, <2>3
    <3>3. q \in Nat /\ q - s \in 0 .. e - 1 /\ s + (q - s) = q
      BY <1>3
    <3> QED BY <3>1, <3>2, <3>3
  <2>6. list \in [1 .. m -> 0 .. e - 1]
    BY <2>4, <2>5
  <2>7. \A k, l \in 1 .. m : list[k] = list[l] => k = l
    <3>1. \A k, l \in 1 .. m : ranks[k] = ranks[l] => k = l
      BY <2>2, <2>3 DEF Enumerates
    <3>2. \A k, l \in 1 .. m : list[k] = list[l] => ranks[k] = ranks[l]
      BY <2>5
    <3> QED BY <3>1, <3>2
  <2>8. ranks = [k \in 1 .. m |-> s + list[k]]
    BY <2>3, <2>5
  <2>9. RanksEMTCAL = list
    <3>1. {r \in World : Ntype[r + 1] = EMTSUB} = SubnetsEMT
      BY DEF SubnetsEMT
    <3>2. RanksEMTCAL = [k \in DOMAIN ranks |-> ranks[k] - NumProcST]
      BY <2>1, <3>1 DEF RanksEMTCAL
    <3>3. DOMAIN ranks = 1 .. m
      BY <2>3
    <3> QED BY <1>2, <2>4, <3>2, <3>3
  <2>10. Due(On(call)) = Ranks(s, e) /\ Members(call) = list /\ Due(call) = ranks
    BY <1>2, <1>8, <2>1, <2>9 DEF Due, On, Members
  <2> QED BY <2>3, <2>6, <2>7, <2>8, <2>10 DEF Fits
<1> QED BY <1>4, <1>5, <1>6, <1>7, <1>8 DEF Forming

\* The calls of a process are those of its kind.
MayCall(r) ==
  {call \in AllCalls :
     /\ call \in {"CommST", "CommEMT"} => r \in Cal
     /\ call = "CommEMT" => NumProcEMT > 0
     /\ call = "CommMain_Sub" => r \in ST
     /\ call = "CommEMTCAL" => r \in EMT /\ RanksEMTCAL # <<>>}

LEMMA CallsTyped ==
  ASSUME Ntype \in Layouts, InOrder, NEW r \in World
  PROVE  CallsOf(r) \in Seq(MayCall(r))
<1>1. /\ NumProcST \in Nat /\ NumProcEMT \in Nat
      /\ 0 < NumProcST /\ EMT = NumProcST .. NumProcCal - 1
      /\ NumProcCal \in Nat /\ NumProcEMT = NumProcCal - NumProcST
  BY LayoutFacts
<1>2. CASE IsST(r)
  <2>1. r \in ST /\ r \in Cal
    <3>1. Ntype[r + 1] \in Nat
      BY FormCommAssumption DEF World
    <3> QED BY <1>2, <3>1 DEF ST, Cal, IsST, IsCal
  <2>2. <<Allgather, "CommCal", "CommST">> \in Seq(MayCall(r)) /\ <<"CommMain_Sub">> \in Seq(MayCall(r))
    <3>1. {Allgather, "CommCal", "CommST", "CommMain_Sub"} \subseteq MayCall(r)
      BY <2>1 DEF MayCall, AllCalls, Allgather
    <3> QED BY <3>1
  <2>3. If(NumProcEMT > 0, "CommEMT") \in Seq(MayCall(r))
    <3>1. NumProcEMT > 0 => "CommEMT" \in MayCall(r)
      BY <2>1 DEF MayCall, AllCalls
    <3> QED BY <3>1 DEF If
  <2>4. CallsST \in Seq(MayCall(r))
    BY <2>2, <2>3, ConcatProperties DEF CallsST
  <2> QED BY <1>2, <2>4 DEF CallsOf
<1>3. CASE ~IsST(r) /\ IsEMT(r)
  <2>1. r \in EMT /\ r \in Cal
    BY <1>3 DEF EMT, Cal, IsEMT
  <2>2. NumProcEMT > 0
    BY <1>1, <2>1
  <2>3. <<Allgather, "CommCal">> \in Seq(MayCall(r)) /\ <<"CommEMT">> \in Seq(MayCall(r))
    <3>1. {Allgather, "CommCal", "CommEMT"} \subseteq MayCall(r)
      BY <2>1, <2>2 DEF MayCall, AllCalls, Allgather
    <3> QED BY <3>1
  <2>4. If(NumProcST > 0, "CommST") \in Seq(MayCall(r))
    <3>1. "CommST" \in MayCall(r)
      BY <2>1 DEF MayCall, AllCalls
    <3> QED BY <3>1 DEF If
  <2>5. If(RanksEMTCAL # <<>>, "CommEMTCAL") \in Seq(MayCall(r))
    <3>1. RanksEMTCAL # <<>> => "CommEMTCAL" \in MayCall(r)
      BY <2>1 DEF MayCall, AllCalls
    <3> QED BY <3>1 DEF If
  <2>6. CallsEMT \in Seq(MayCall(r))
    BY <2>3, <2>4, <2>5, ConcatProperties DEF CallsEMT
  <2> QED BY <1>3, <2>6 DEF CallsOf
<1>4. CASE ~IsST(r) /\ ~IsEMT(r)
  <2>1. {Allgather, "CommCal"} \subseteq MayCall(r)
    BY DEF MayCall, AllCalls, Allgather
  <2>2. <<Allgather, "CommCal">> \in Seq(MayCall(r))
    BY <2>1
  <2> QED BY <1>4, <2>2 DEF CallsOf
<1> QED BY <1>2, <1>3, <1>4

\* No call has been in error, and each communicator has whom it is for as soon as it is
\* there ...
CommsDue ==
  /\ aborted = FALSE
  /\ DOMAIN comm = {"CommWorld"} \cup Forming
  /\ comm["CommWorld"] = Due("CommWorld")
  /\ \A call \in Forming : comm[call] = <<>> \/ comm[call] = Due(call)

\* ... which is when a process has made the call for it.
CallsMade ==
  /\ calls \in [World -> Nat]
  /\ \A r \in World :
       /\ calls[r] <= Len(CallsOf(r))
       /\ \A k \in 1 .. calls[r] : CallsOf(r)[k] # Allgather => comm[CallsOf(r)[k]] # <<>>

CommsOK == Ntype \in Layouts /\ (InOrder => CommsDue /\ CallsMade)

LEMMA CommsOKInit ==
  ASSUME CommInit
  PROVE  CommsOK
<1>1. Ntype \in Layouts /\ aborted = FALSE /\ calls = [r \in World |-> 0]
  BY DEF CommInit
<1>2. /\ DOMAIN comm = {"CommWorld"} \cup Forming
      /\ \A call \in Forming : comm[call] = <<>>
      /\ comm["CommWorld"] = [i \in 1 .. Len(Ntype) |-> i - 1]
  BY DEF CommInit, Forming
<1>3. comm["CommWorld"] = Due("CommWorld")
  <2>1. Len(Ntype) \in Nat
    BY <1>1, FormCommAssumption
  <2>2. \A i \in 1 .. Len(Ntype) : i - 1 = 0 + i - 1
    BY <2>1
  <2> QED BY <1>2, <2>2 DEF Due, Ranks
<1>4. ASSUME NEW r \in World, InOrder PROVE calls[r] = 0 /\ 0 <= Len(CallsOf(r)) /\ 1 .. 0 = {}
  <2>1. CallsOf(r) \in Seq(MayCall(r))
    BY <1>1, <1>4, CallsTyped
  <2> QED BY <1>1, <2>1
<1> QED BY <1>1, <1>2, <1>3, <1>4 DEF CommsOK, CommsDue, CallsMade

\* A process that is to make a call is of a kind that makes it.
LEMMA MakesFacts ==
  ASSUME CommsOK, InOrder, NEW call \in AllCalls, NEW r \in Makes(call)
  PROVE  /\ r \in World /\ call \in MayCall(r)
         /\ calls[r] \in Nat /\ calls[r] + 1 \in DOMAIN CallsOf(r) /\ CallsOf(r)[calls[r] + 1] = call
         /\ calls[r] < Len(CallsOf(r)) /\ Len(CallsOf(r)) \in Nat
<1>1. r \in World /\ Next_call(r) = call
  BY DEF Makes
<1>2. CallsOf(r) \in Seq(MayCall(r)) /\ calls[r] \in Nat
  BY <1>1, CallsTyped DEF CommsOK, CallsMade
<1>3. call # "none"
  BY DEF AllCalls, Allgather
<1>4. calls[r] < Len(CallsOf(r)) /\ CallsOf(r)[calls[r] + 1] = call
  BY <1>1, <1>3 DEF Next_call
<1>5. calls[r] + 1 \in DOMAIN CallsOf(r) /\ Len(CallsOf(r)) \in Nat
  BY <1>2, <1>4
<1> QED BY <1>1, <1>2, <1>4, <1>5

\* Those who make a call are members of the communicator it is made on.
LEMMA MakersAreMembers ==
  ASSUME CommsOK, InOrder, NEW call \in AllCalls
  PROVE  Makes(call) \subseteq Range(Due(On(call)))
<1>1. /\ NumProcCal \in Nat /\ NumProcST \in Nat /\ NumProcEMT \in Nat /\ Len(Ntype) \in Nat
      /\ NumProcEMT = NumProcCal - NumProcST
      /\ Cal = 0 .. NumProcCal - 1 /\ ST = 0 .. NumProcST - 1 /\ EMT = NumProcST .. NumProcCal - 1
  BY LayoutFacts DEF CommsOK
<1>2. PICK c, s, e, N \in Nat : c = NumProcCal /\ s = NumProcST /\ e = NumProcEMT /\ N = Len(Ntype)
  BY <1>1
<1>3. 0 + c - 1 = c - 1 /\ 0 + s - 1 = s - 1 /\ s + e - 1 = c - 1 /\ 0 + N - 1 = N - 1
  BY <1>1, <1>2
<1>4. /\ Range(Ranks(0, N)) = World /\ Range(Ranks(0, c)) = Cal
      /\ Range(Ranks(0, s)) = ST /\ Range(Ranks(s, e)) = EMT
  <2>1. /\ Range(Ranks(0, N)) = 0 .. N - 1 /\ Range(Ranks(0, c)) = 0 .. c - 1
        /\ Range(Ranks(0, s)) = 0 .. s - 1 /\ Range(Ranks(s, e)) = s .. c - 1
    <3>1. \A first, n \in Nat : Range(Ranks(first, n)) = first .. first + n - 1
      BY RanksFacts
    <3>2. /\ Range(Ranks(0, N)) = 0 .. 0 + N - 1 /\ Range(Ranks(0, c)) = 0 .. 0 + c - 1
          /\ Range(Ranks(0, s)) = 0 .. 0 + s - 1 /\ Range(Ranks(s, e)) = s .. s + e - 1
      BY <3>1
    <3> QED BY <1>3, <3>2
  <2> QED BY <1>1, <1>2, <2>1 DEF World
<1>5. ASSUME NEW r \in Makes(call) PROVE r \in Range(Due(On(call)))
  <2>1. r \in World /\ call \in MayCall(r)
    BY <1>5, MakesFacts
  <2>2. CASE call \in {Allgather, "CommCal"}
    <3>1. Due(On(call)) = Ranks(0, N)
      BY <1>2, <2>2 DEF Due, On, Allgather
    <3> QED BY <1>4, <2>1, <3>1
  <2>3. CASE call \in {"CommST", "CommEMT"}
    <3>1. Due(On(call)) = Ranks(0, c)
      BY <1>2, <2>3 DEF Due, On, Allgather
    <3> QED BY <1>4, <2>1, <2>3, <3>1 DEF MayCall
  <2>4. CASE call = "CommMain_Sub"
    <3>1. Due(On(call)) = Ranks(0, s)
      BY <1>2, <2>4 DEF Due, On, Allgather
    <3> QED BY <1>4, <2>1, <2>4, <3>1 DEF MayCall
  <2>5. CASE call = "CommEMTCAL"
    <3>1. Due(On(call)) = Ranks(s, e)
      BY <1>2, <2>5 DEF Due, On, Allgather
    <3> QED BY <1>4, <2>1, <2>5, <3>1 DEF MayCall
  <2> QED BY <2>2, <2>3, <2>4, <2>5 DEF AllCalls
<1> QED BY <1>5

\* A communicator that somebody is to form has members.
LEMMA DueIsNotEmpty ==
  ASSUME CommsOK, InOrder, NEW call \in Forming, NEW r \in Makes(call)
  PROVE  Due(call) # <<>>
<1>1. /\ NumProcCal \in Nat /\ NumProcST \in Nat /\ NumProcEMT \in Nat
      /\ 0 < NumProcST /\ 0 < NumProcCal
  BY LayoutFacts DEF CommsOK
<1>2. call \in MayCall(r)
  BY MakesFacts DEF Forming, AllCalls
<1>3. \A first, n \in Nat : 0 < n => Ranks(first, n) # <<>>
  BY RanksFacts
<1>4. CASE call \in {"CommCal", "CommST"}
  <2>1. 0 \in Nat /\ (Due(call) = Ranks(0, NumProcCal) \/ Due(call) = Ranks(0, NumProcST))
    BY <1>4 DEF Due
  <2> QED BY <1>1, <1>3, <2>1
<1>5. CASE call = "CommEMT"
  <2>1. Due(call) = Ranks(NumProcST, NumProcEMT) /\ 0 < NumProcEMT
    BY <1>1, <1>2, <1>5 DEF Due, MayCall
  <2> QED BY <1>1, <1>3, <2>1
<1>6. CASE call = "CommMain_Sub"
  <2>1. Enumerates(Due(call), {0} \cup Subnets)
    BY <1>6, SubnetFacts DEF Due, CommsOK
  <2> QED BY <2>1 DEF Enumerates
<1>7. CASE call = "CommEMTCAL"
  <2>1. RanksEMTCAL # <<>> /\ Due(call) = PCbuffer(SubnetsEMT)
    BY <1>2, <1>7 DEF Due, MayCall
  <2>2. PICK ranks : ranks = PCbuffer(SubnetsEMT)
    OBVIOUS
  <2>3. RanksEMTCAL = [k \in DOMAIN ranks |-> ranks[k] - NumProcST]
    BY <2>2 DEF RanksEMTCAL, SubnetsEMT
  <2>4. ranks = <<>> => RanksEMTCAL = <<>>
    BY <2>3
  <2> QED BY <2>1, <2>2, <2>4
<1> QED BY <1>4, <1>5, <1>6, <1>7 DEF Forming

\* When the processes were started in order, no call is in error, and it makes the
\* communicator that it is for.
LEMMA CollectiveFacts ==
  ASSUME CommsOK, InOrder, NEW call \in AllCalls, Collective(call)
  PROVE  /\ Ntype' = Ntype /\ aborted' = FALSE
         /\ calls' = [r \in World |-> IF r \in Makes(call) THEN calls[r] + 1 ELSE calls[r]]
         /\ call = Allgather => comm' = comm
         /\ call # Allgather => /\ call \in Forming /\ Due(call) # <<>>
                                /\ comm' = [comm EXCEPT ![call] = Due(call)]
<1>1. /\ ~aborted /\ comm[On(call)] # <<>> /\ Range(comm[On(call)]) \subseteq Makes(call)
      /\ Ntype' = Ntype
      /\ InError(call) => aborted' = TRUE /\ UNCHANGED <<comm, calls>>
      /\ ~InError(call) =>
           /\ calls' = [r \in World |-> IF r \in Makes(call) THEN calls[r] + 1 ELSE calls[r]]
           /\ comm' = IF call = Allgather THEN comm
                      ELSE [comm EXCEPT ![call] = [k \in DOMAIN Members(call) |->
                                                     comm[On(call)][Members(call)[k] + 1]]]
           /\ UNCHANGED aborted
  BY Zenon DEF Collective
<1>2. CommsDue /\ Ntype \in Layouts
  BY DEF CommsOK
<1>3. comm[On(call)] = Due(On(call))
  <2>1. On(call) \in {"CommWorld"} \cup Forming
    BY DEF On, Forming, AllCalls, Allgather
  <2> QED BY <1>1, <1>2, <2>1 DEF CommsDue
<1>4. Makes(call) \subseteq Range(comm[On(call)])
  BY <1>3, MakersAreMembers
<1>5. CASE call = Allgather
  <2>1. Members(call) = <<>>
    BY <1>5 DEF Members, Allgather
  <2>2. ~InError(call)
    <3>1. PICK members : members = Members(call)
      OBVIOUS
    <3>2. DOMAIN members = {} 
      BY <2>1, <3>1
    <3>3. IsInjective(members)
      BY <3>2 DEF IsInjective
    <3> QED BY <1>4, <3>1, <3>2, <3>3 DEF InError
  <2> QED BY <1>1, <1>2, <1>5, <2>2 DEF CommsDue
<1>6. CASE call # Allgather
  <2>1. call \in Forming
    BY <1>6 DEF AllCalls, Forming
  <2>2. PICK first, n, m \in Nat : \E list \in [1 .. m -> 0 .. n - 1] :
          /\ Due(On(call)) = Ranks(first, n)
          /\ Members(call) = list
          /\ \A k, l \in 1 .. m : list[k] = list[l] => k = l
          /\ Due(call) = [k \in 1 .. m |-> first + list[k]]
    BY <1>2, <2>1, AllFit DEF Fits
  <2>3. PICK list \in [1 .. m -> 0 .. n - 1] :
          /\ Due(On(call)) = Ranks(first, n)
          /\ Members(call) = list
          /\ \A k, l \in 1 .. m : list[k] = list[l] => k = l
          /\ Due(call) = [k \in 1 .. m |-> first + list[k]]
    BY <2>2
  <2>4. PICK older : older = Ranks(first, n)
    OBVIOUS
  <2>5. Len(older) = n /\ \A q \in 0 .. n - 1 : older[q + 1] = first + q
    <3>1. first \in Nat /\ n \in Nat
      BY <2>2
    <3>2. Len(older) = n
      BY <2>4, <3>1, RanksFacts
    <3>3. \A q \in 0 .. n - 1 : older[q + 1] = first + q
      <4>1. \A q \in 0 .. n - 1 : q + 1 \in 1 .. n /\ first + (q + 1) - 1 = first + q
        BY <3>1
      <4> QED BY <2>4, <4>1 DEF Ranks
    <3> QED BY <3>2, <3>3
  <2>6. comm[On(call)] = older
    BY <1>3, <2>3, <2>4
  <2>7. ~InError(call)
    <3>1. DOMAIN list = 1 .. m /\ \A k \in 1 .. m : list[k] \in 0 .. n - 1
      OBVIOUS
    <3>2. IsInjective(list)
      BY <2>3, <3>1 DEF IsInjective
    <3> QED BY <1>4, <2>3, <2>5, <2>6, <3>1, <3>2 DEF InError
  <2>8. [k \in DOMAIN Members(call) |-> comm[On(call)][Members(call)[k] + 1]] = Due(call)
    <3>1. \A k \in 1 .. m : older[list[k] + 1] = first + list[k]
      BY <2>5
    <3>2. [k \in DOMAIN list |-> older[list[k] + 1]] = [k \in 1 .. m |-> first + list[k]]
      BY <3>1
    <3> QED BY <2>3, <2>6, <3>2
  <2>9. \E r \in World : r \in Makes(call)
    <3>1. older # <<>>
      BY <1>1, <2>6
    <3>2. n # 0
      BY <2>4, <3>1 DEF Ranks
    <3>3. Range(older) = first .. first + n - 1 /\ first \in first .. first + n - 1
      BY <2>4, <3>2, RanksFacts
    <3> QED BY <1>1, <2>6, <3>3 DEF Makes
  <2>10. Due(call) # <<>>
    BY <2>1, <2>9, DueIsNotEmpty
  <2> QED BY <1>1, <1>2, <1>6, <2>1, <2>7, <2>8, <2>10 DEF CommsDue
<1> QED BY <1>5, <1>6

LEMMA KindsKept ==
  ASSUME Ntype' = Ntype
  PROVE  /\ World' = World /\ InOrder' = InOrder
         /\ \A call : Due(call)' = Due(call)
         /\ \A r : CallsOf(r)' = CallsOf(r)
<1>1. World' = World /\ InOrder' = InOrder /\ Cal' = Cal /\ ST' = ST /\ EMT' = EMT
  BY DEF World, InOrder, Cal, ST, EMT, IsEMT, IsCal, IsST
<1>2. Subnets' = Subnets /\ SubnetsEMT' = SubnetsEMT
  BY DEF Subnets, SubnetsEMT, World
<1>3. NumProcST' = NumProcST /\ NumProcEMT' = NumProcEMT /\ NumProcCal' = NumProcCal
  <2>1. NumProcST = Cardinality(ST) /\ NumProcEMT = Cardinality(EMT)
    BY DEF NumProcST, NumProcEMT, ST, EMT
  <2>2. NumProcST' = Cardinality(ST') /\ NumProcEMT' = Cardinality(EMT')
    BY DEF NumProcST, NumProcEMT, ST, EMT
  <2> QED BY <1>1, <2>1, <2>2 DEF NumProcCal
<1>4. ASSUME NEW call PROVE Due(call)' = Due(call)
  BY <1>2, <1>3 DEF Due
<1>5. RanksEMTCAL' = RanksEMTCAL
  <2>1. RanksEMTCAL = [k \in DOMAIN PCbuffer(SubnetsEMT) |-> PCbuffer(SubnetsEMT)[k] - NumProcST]
    BY DEF RanksEMTCAL, SubnetsEMT
  <2>2. RanksEMTCAL' = [k \in DOMAIN PCbuffer(SubnetsEMT') |-> PCbuffer(SubnetsEMT')[k] - NumProcST']
    BY DEF RanksEMTCAL, SubnetsEMT
  <2> QED BY <1>2, <1>3, <2>1, <2>2
<1>6. ASSUME NEW r PROVE CallsOf(r)' = CallsOf(r)
  BY <1>3, <1>5 DEF CallsOf, CallsST, CallsEMT, IsST, IsEMT, IsCal
<1> QED BY <1>1, <1>4, <1>6

LEMMA CommsOKKept ==
  ASSUME CommsOK, UNCHANGED commVars
  PROVE  CommsOK'
<1>1. Ntype' = Ntype /\ comm' = comm /\ calls' = calls /\ aborted' = aborted
  BY DEF commVars
<1> QED BY <1>1, KindsKept DEF CommsOK, CommsDue, CallsMade

\* One call made by all its members leaves every communicator right.
LEMMA CommsOKNext ==
  ASSUME CommsOK, CommNext
  PROVE  CommsOK'
<1>1. PICK call \in AllCalls : Collective(call)
  BY DEF CommNext
<1>2. Ntype' = Ntype
  BY <1>1 DEF Collective
<1>3. /\ InOrder' = InOrder /\ World' = World
      /\ \A c : Due(c)' = Due(c)
      /\ \A r : CallsOf(r)' = CallsOf(r)
  BY <1>2, KindsKept
<1>4. ASSUME InOrder PROVE CommsDue' /\ CallsMade'
  <2>1. /\ CommsDue /\ CallsMade
        /\ aborted' = FALSE
        /\ calls' = [r \in World |-> IF r \in Makes(call) THEN calls[r] + 1 ELSE calls[r]]
        /\ call = Allgather => comm' = comm
        /\ call # Allgather => /\ call \in Forming /\ Due(call) # <<>>
                               /\ comm' = [comm EXCEPT ![call] = Due(call)]
    BY <1>1, <1>4, CollectiveFacts DEF CommsOK
  <2>2. DOMAIN comm = {"CommWorld"} \cup Forming /\ "CommWorld" \notin Forming /\ Allgather \notin Forming
    BY <2>1 DEF CommsDue, Forming, Allgather
  <2>3. DOMAIN comm' = DOMAIN comm /\ comm'["CommWorld"] = comm["CommWorld"]
    <3>1. CASE call = Allgather
      BY <2>1, <3>1
    <3>2. CASE call # Allgather
      <4>1. comm' = [comm EXCEPT ![call] = Due(call)] /\ call # "CommWorld"
        BY <2>1, <2>2, <3>2
      <4> QED BY <2>2, <4>1
    <3> QED BY <3>1, <3>2
  <2>4. ASSUME NEW c \in Forming
        PROVE  /\ comm'[c] = comm[c] \/ comm'[c] = Due(c)
               /\ comm[c] # <<>> => comm'[c] # <<>>
               /\ c = call => comm'[c] # <<>>
    <3>1. CASE call = Allgather
      BY <2>1, <2>2, <3>1
    <3>2. CASE call # Allgather
      <4>1. comm' = [comm EXCEPT ![call] = Due(call)] /\ call \in DOMAIN comm /\ Due(call) # <<>>
        BY <2>1, <2>2, <3>2
      <4>2. comm'[c] = IF c = call THEN Due(call) ELSE comm[c]
        BY <2>2, <4>1
      <4> QED BY <4>1, <4>2
    <3> QED BY <3>1, <3>2
  <2>5. CommsDue'
    <3>1. \A c \in Forming : comm'[c] = <<>> \/ comm'[c] = Due(c)
      BY <2>1, <2>4 DEF CommsDue
    <3> QED BY <1>3, <2>1, <2>2, <2>3, <3>1 DEF CommsDue
  <2>6. ASSUME NEW r \in World
        PROVE  /\ calls'[r] \in Nat /\ calls'[r] <= Len(CallsOf(r))
               /\ \A k \in 1 .. calls'[r] :
                    CallsOf(r)[k] # Allgather => comm'[CallsOf(r)[k]] # <<>>
    <3>1. /\ calls[r] \in Nat /\ calls[r] <= Len(CallsOf(r))
          /\ \A k \in 1 .. calls[r] : CallsOf(r)[k] # Allgather => comm[CallsOf(r)[k]] # <<>>
          /\ CallsOf(r) \in Seq(AllCalls)
      <4>1. CallsOf(r) \in Seq(MayCall(r)) /\ MayCall(r) \subseteq AllCalls
        BY <1>4, CallsTyped DEF CommsOK, MayCall
      <4> QED BY <2>1, <4>1 DEF CallsMade
    <3>2. Len(CallsOf(r)) \in Nat /\ \A k \in 1 .. Len(CallsOf(r)) : CallsOf(r)[k] \in AllCalls
      BY <3>1
    <3>3. \A k \in 1 .. calls[r] : CallsOf(r)[k] # Allgather => comm'[CallsOf(r)[k]] # <<>>
      <4> SUFFICES ASSUME NEW k \in 1 .. calls[r], CallsOf(r)[k] # Allgather
                   PROVE  comm'[CallsOf(r)[k]] # <<>>
        OBVIOUS
      <4>1. k \in 1 .. Len(CallsOf(r))
        BY <3>1, <3>2
      <4>2. PICK c : c = CallsOf(r)[k]
        OBVIOUS
      <4>3. c \in Forming /\ comm[c] # <<>>
        BY <3>1, <3>2, <4>1, <4>2 DEF AllCalls, Forming
      <4> QED BY <2>4, <4>2, <4>3
    <3>4. CASE r \notin Makes(call)
      <4>1. calls'[r] = calls[r]
        BY <2>1, <3>4
      <4> QED BY <3>1, <3>3, <4>1
    <3>5. CASE r \in Makes(call)
      <4>1. calls'[r] = calls[r] + 1
        BY <2>1, <3>5
      <4>2. CallsOf(r)[calls[r] + 1] = call /\ calls[r] < Len(CallsOf(r))
        BY <1>4, <3>5, MakesFacts
      <4>3. call # Allgather => comm'[call] # <<>>
        BY <2>1, <2>4
      <4>4. \A k \in 1 .. calls[r] + 1 : k \in 1 .. calls[r] \/ k = calls[r] + 1
        BY <3>1
      <4>5. calls[r] + 1 <= Len(CallsOf(r)) /\ calls[r] + 1 \in Nat
        BY <3>1, <3>2, <4>2
      <4> QED BY <3>3, <4>1, <4>2, <4>3, <4>4, <4>5
    <3> QED BY <3>4, <3>5
  <2>7. calls' \in [World -> Nat]
    <3>1. \A r \in World : (IF r \in Makes(call) THEN calls[r] + 1 ELSE calls[r]) \in Nat
      BY <2>1 DEF CallsMade
    <3> QED BY <2>1, <3>1
  <2>8. CallsMade'
    BY <1>3, <2>6, <2>7 DEF CallsMade
  <2> QED BY <2>5, <2>8
<1> QED BY <1>2, <1>3, <1>4 DEF CommsOK

LEMMA RangeOfBoth ==
  ASSUME NEW S, NEW s \in Seq(S), NEW t \in Seq(S)
  PROVE  Range(s \o t) = Range(s) \cup Range(t)
<1>1. PICK st : st = s \o t
  OBVIOUS
<1>2. PICK m, n \in Nat : m = Len(s) /\ n = Len(t)
  OBVIOUS
<1>3. /\ DOMAIN s = 1 .. m /\ DOMAIN t = 1 .. n /\ DOMAIN st = 1 .. m + n
      /\ \A i \in 1 .. m + n : st[i] = IF i <= m THEN s[i] ELSE t[i - m]
  BY <1>1, <1>2, ConcatProperties
<1>4. ASSUME NEW i \in 1 .. m + n PROVE st[i] \in Range(s) \cup Range(t)
  <2>1. CASE i <= m
    <3>1. i \in 1 .. m /\ st[i] = s[i]
      BY <1>3, <2>1
    <3> QED BY <1>3, <3>1 DEF Range
  <2>2. CASE ~(i <= m)
    <3>1. i - m \in 1 .. n /\ st[i] = t[i - m]
      BY <1>3, <2>2
    <3> QED BY <1>3, <3>1 DEF Range
  <2> QED BY <2>1, <2>2
<1>5. ASSUME NEW i \in 1 .. m PROVE s[i] \in Range(st)
  <2>1. i \in 1 .. m + n /\ st[i] = s[i]
    BY <1>3
  <2> QED BY <1>3, <2>1 DEF Range
<1>6. ASSUME NEW i \in 1 .. n PROVE t[i] \in Range(st)
  <2>1. i + m \in 1 .. m + n /\ ~(i + m <= m) /\ (i + m) - m = i
    OBVIOUS
  <2>2. st[i + m] = t[i]
    BY <1>3, <2>1
  <2> QED BY <1>3, <2>1, <2>2 DEF Range
<1>7. Range(st) \subseteq Range(s) \cup Range(t)
  BY <1>3, <1>4 DEF Range
<1>8. Range(s) \subseteq Range(st) /\ Range(t) \subseteq Range(st)
  BY <1>3, <1>5, <1>6 DEF Range
<1> QED BY <1>1, <1>7, <1>8

\* Which communicators the control, process 0, and a subnet of the electromagnetic part
\* make a call for.
LEMMA CallsFor ==
  ASSUME Ntype \in Layouts, InOrder
  PROVE  /\ 0 \in World /\ {"CommCal", "CommST", "CommMain_Sub"} \subseteq Range(CallsOf(0))
         /\ NumProcEMT > 0 => "CommEMT" \in Range(CallsOf(0))
         /\ \A r \in SubnetsEMT : r \in World /\ "CommEMTCAL" \in Range(CallsOf(r))
<1>1. /\ NumProcST \in Nat /\ NumProcEMT \in Nat /\ 0 < NumProcST /\ Len(Ntype) \in Nat
      /\ ST = 0 .. NumProcST - 1 /\ EMT = NumProcST .. NumProcCal - 1
      /\ NumProcCal \in Nat /\ NumProcCal <= Len(Ntype) /\ NumProcST <= NumProcCal
  BY LayoutFacts
<1>2. 0 \in World /\ IsST(0)
  <2>1. 0 \in ST
    BY <1>1
  <2> QED BY <2>1 DEF ST
<1>3. ASSUME NEW condition \in BOOLEAN, NEW call \in AllCalls
      PROVE  If(condition, call) \in Seq(AllCalls) /\ (condition => call \in Range(If(condition, call)))
  <2>1. <<call>> \in Seq(AllCalls) /\ call \in Range(<<call>>)
    BY DEF Range
  <2> QED BY <2>1 DEF If
<1>4. /\ {"CommCal", "CommST", "CommMain_Sub"} \subseteq Range(CallsST)
      /\ NumProcEMT > 0 => "CommEMT" \in Range(CallsST)
  <2>1. PICK a : a = <<Allgather, "CommCal", "CommST">>
    OBVIOUS
  <2>2. PICK b : b = If(NumProcEMT > 0, "CommEMT")
    OBVIOUS
  <2>3. PICK c : c = <<"CommMain_Sub">>
    OBVIOUS
  <2>4. a \in Seq(AllCalls) /\ "CommCal" \in Range(a) /\ "CommST" \in Range(a)
    <3>1. DOMAIN a = 1 .. 3 /\ a[2] = "CommCal" /\ a[3] = "CommST" /\ 2 \in 1 .. 3 /\ 3 \in 1 .. 3
      BY <2>1
    <3> QED BY <2>1, <3>1 DEF AllCalls, Range
  <2>5. b \in Seq(AllCalls) /\ (NumProcEMT > 0 => "CommEMT" \in Range(b))
    <3>1. "CommEMT" \in AllCalls
      BY DEF AllCalls
    <3>2. CASE NumProcEMT > 0
      <4>1. b = <<"CommEMT">>
        BY <2>2, <3>2 DEF If
      <4>2. "CommEMT" \in Range(<<"CommEMT">>)
        BY DEF Range
      <4> QED BY <3>1, <4>1, <4>2
    <3>3. CASE ~(NumProcEMT > 0)
      BY <2>2, <3>3 DEF If
    <3> QED BY <3>2, <3>3
  <2>6. c \in Seq(AllCalls) /\ "CommMain_Sub" \in Range(c)
    BY <2>3 DEF AllCalls, Range
  <2>7. a \o b \in Seq(AllCalls) /\ Range(a \o b) = Range(a) \cup Range(b)
    BY <2>4, <2>5, RangeOfBoth, ConcatProperties
  <2>8. Range((a \o b) \o c) = Range(a \o b) \cup Range(c)
    <3>1. PICK ab : ab = a \o b
      OBVIOUS
    <3>2. ab \in Seq(AllCalls)
      BY <2>7, <3>1
    <3> QED BY <2>6, <3>1, <3>2, RangeOfBoth
  <2>9. CallsST = (a \o b) \o c
    BY <2>1, <2>2, <2>3 DEF CallsST
  <2> QED BY <2>4, <2>5, <2>6, <2>7, <2>8, <2>9
<1>5. RanksEMTCAL # <<>> => "CommEMTCAL" \in Range(CallsEMT)
  <2>1. PICK a : a = <<Allgather, "CommCal">> \o If(NumProcST > 0, "CommST")
    OBVIOUS
  <2>2. PICK b : b = If(RanksEMTCAL # <<>>, "CommEMTCAL")
    OBVIOUS
  <2>3. If(NumProcST > 0, "CommST") \in Seq(AllCalls)
    BY <1>1, <1>3 DEF AllCalls
  <2>4. <<Allgather, "CommCal">> \in Seq(AllCalls) /\ <<"CommEMT">> \in Seq(AllCalls)
    BY DEF AllCalls
  <2>5. a \o <<"CommEMT">> \in Seq(AllCalls)
    BY <2>1, <2>3, <2>4, ConcatProperties
  <2>6. b \in Seq(AllCalls) /\ (RanksEMTCAL # <<>> => "CommEMTCAL" \in Range(b))
    BY <1>3, <2>2 DEF AllCalls
  <2>7. Range((a \o <<"CommEMT">>) \o b) = Range(a \o <<"CommEMT">>) \cup Range(b)
    BY <2>5, <2>6, RangeOfBoth
  <2>8. CallsEMT = (a \o <<"CommEMT">>) \o b
    BY <2>1, <2>2 DEF CallsEMT
  <2> QED BY <2>6, <2>7, <2>8
<1>6. ASSUME NEW r \in SubnetsEMT PROVE r \in World /\ "CommEMTCAL" \in Range(CallsOf(r))
  <2>1. r \in EMT /\ IsEMT(r) /\ ~IsST(r) /\ r \in World
    BY SubnetFacts DEF EMT, IsEMT
  <2>2. CallsOf(r) = CallsEMT
    BY <2>1 DEF CallsOf
  <2>3. RanksEMTCAL # <<>>
    <3>1. PICK ranks : ranks = PCbuffer(SubnetsEMT)
      OBVIOUS
    <3>2. Enumerates(ranks, SubnetsEMT)
      BY <3>1, SubnetFacts
    <3>3. DOMAIN ranks # {}
      BY <3>2 DEF Enumerates
    <3>4. RanksEMTCAL = [k \in DOMAIN ranks |-> ranks[k] - NumProcST]
      BY <3>1 DEF RanksEMTCAL, SubnetsEMT
    <3>5. DOMAIN RanksEMTCAL # {}
      BY <3>3, <3>4
    <3> QED BY <3>5
  <2> QED BY <1>5, <2>1, <2>2, <2>3
<1>7. CallsOf(0) = CallsST
  BY <1>2 DEF CallsOf
<1> QED BY <1>2, <1>4, <1>6, <1>7

\* When all have made their calls, the communicators they were to make are there.
LEMMA FormedIsMade ==
  ASSUME CommsOK, InOrder, Formed, NEW r \in World, NEW call \in Forming, call \in Range(CallsOf(r))
  PROVE  comm[call] = Due(call) /\ comm[call] # <<>>
<1>1. /\ CommsDue /\ CallsMade
      /\ CallsOf(r) \in Seq(MayCall(r)) /\ MayCall(r) \subseteq AllCalls
  BY CallsTyped DEF CommsOK, MayCall
<1>2. Next_call(r) = "none" /\ "none" \notin AllCalls /\ Allgather \notin Forming
  BY DEF Formed, AllCalls, Allgather, Forming
<1>3. calls[r] \in Nat /\ calls[r] <= Len(CallsOf(r)) /\ Len(CallsOf(r)) \in Nat
      /\ DOMAIN CallsOf(r) = 1 .. Len(CallsOf(r))
  BY <1>1 DEF CallsMade
<1>4. calls[r] = Len(CallsOf(r))
  <2> SUFFICES ASSUME calls[r] < Len(CallsOf(r)) PROVE FALSE
    BY <1>3
  <2>1. CallsOf(r)[calls[r] + 1] \in AllCalls
    BY <1>1, <1>3
  <2>2. Next_call(r) = CallsOf(r)[calls[r] + 1]
    BY DEF Next_call
  <2> QED BY <1>2, <2>1, <2>2
<1>5. PICK k \in 1 .. calls[r] : CallsOf(r)[k] = call
  BY <1>3, <1>4 DEF Range
<1>6. comm[call] # <<>>
  <2>1. CallsOf(r)[k] # Allgather => comm[CallsOf(r)[k]] # <<>>
    BY <1>1 DEF CallsMade
  <2> QED BY <1>2, <1>5, <2>1
<1> QED BY <1>1, <1>6 DEF CommsDue

\* Once all have made their calls, the communicators are as they are meant.
LEMMA MeantWhenFormed ==
  ASSUME CommsOK, InOrder, Formed
  PROVE  Meant
<1>1. /\ NumProcCal \in Nat /\ NumProcST \in Nat /\ NumProcEMT \in Nat
      /\ NumProcEMT = NumProcCal - NumProcST
      /\ Cal = 0 .. NumProcCal - 1 /\ ST = 0 .. NumProcST - 1 /\ EMT = NumProcST .. NumProcCal - 1
  BY LayoutFacts DEF CommsOK
<1>2. PICK c, s, e \in Nat : c = NumProcCal /\ s = NumProcST /\ e = NumProcEMT
  BY <1>1
<1>3. /\ Range(Ranks(0, c)) = Cal /\ Range(Ranks(0, s)) = ST /\ Range(Ranks(s, e)) = EMT
  <2>1. \A first, n \in Nat : Range(Ranks(first, n)) = first .. first + n - 1
    BY RanksFacts
  <2>2. /\ Range(Ranks(0, c)) = 0 .. 0 + c - 1 /\ Range(Ranks(0, s)) = 0 .. 0 + s - 1
        /\ Range(Ranks(s, e)) = s .. s + e - 1
    BY <2>1
  <2>3. 0 + c - 1 = c - 1 /\ 0 + s - 1 = s - 1 /\ s + e - 1 = c - 1
    BY <1>1, <1>2
  <2> QED BY <1>1, <1>2, <2>2, <2>3
<1>4. /\ Ntype \in Layouts
      /\ 0 \in World /\ {"CommCal", "CommST", "CommMain_Sub"} \subseteq Range(CallsOf(0))
      /\ NumProcEMT > 0 => "CommEMT" \in Range(CallsOf(0))
      /\ \A r \in SubnetsEMT : r \in World /\ "CommEMTCAL" \in Range(CallsOf(r))
  BY CallsFor DEF CommsOK
<1>5. /\ comm["CommCal"] = Due("CommCal") /\ comm["CommST"] = Due("CommST")
      /\ comm["CommMain_Sub"] = Due("CommMain_Sub")
  BY <1>4, FormedIsMade DEF Forming
<1>6. \A call \in Forming : comm[call] = <<>> \/ comm[call] = Due(call)
  BY DEF CommsOK, CommsDue
<1>7. Range(comm["CommEMT"]) = EMT
  <2>1. Due("CommEMT") = Ranks(s, e)
    BY <1>2 DEF Due
  <2>2. CASE NumProcEMT > 0
    <3>1. comm["CommEMT"] = Due("CommEMT")
      BY <1>4, <2>2, FormedIsMade DEF Forming
    <3> QED BY <1>3, <2>1, <3>1
  <2>3. CASE ~(NumProcEMT > 0)
    <3>1. e = 0 
      BY <1>1, <1>2, <2>3
    <3>2. Ranks(s, e) = <<>>
      BY <3>1 DEF Ranks
    <3>3. comm["CommEMT"] = Ranks(s, e)
      BY <1>6, <2>1, <3>2 DEF Forming
    <3> QED BY <1>3, <3>3
  <2> QED BY <2>2, <2>3
<1>8. Range(comm["CommEMTCAL"]) = SubnetsEMT
  <2>1. PICK ranks : ranks = PCbuffer(SubnetsEMT)
    OBVIOUS
  <2>2. Due("CommEMTCAL") = ranks /\ Enumerates(ranks, SubnetsEMT)
    BY <1>4, <2>1, SubnetFacts DEF Due
  <2>3. Range(ranks) = SubnetsEMT
    BY <2>2 DEF Enumerates, Range
  <2>4. CASE SubnetsEMT # {}
    <3>1. comm["CommEMTCAL"] = Due("CommEMTCAL")
      BY <1>4, <2>4, FormedIsMade DEF Forming
    <3> QED BY <2>2, <2>3, <3>1
  <2>5. CASE SubnetsEMT = {}
    <3>1. ranks = <<>>
      <4>1. DOMAIN ranks = {}
        BY <2>3, <2>5 DEF Range
      <4>2. PICK m \in Nat : ranks \in [1 .. m -> SubnetsEMT]
        BY <2>2 DEF Enumerates
      <4>3. m = 0
        BY <4>1, <4>2
      <4> QED BY <4>2, <4>3
    <3>2. comm["CommEMTCAL"] = ranks
      BY <1>6, <2>2, <3>1 DEF Forming
    <3> QED BY <2>3, <3>2
  <2> QED BY <2>4, <2>5
<1>9. Range(comm["CommMain_Sub"]) = {0} \cup Subnets
  <2>1. Enumerates(Due("CommMain_Sub"), {0} \cup Subnets)
    BY <1>4, SubnetFacts DEF Due
  <2>2. Range(Due("CommMain_Sub")) = {0} \cup Subnets
    <3>1. PICK list : list = Due("CommMain_Sub")
      OBVIOUS
    <3>2. Enumerates(list, {0} \cup Subnets)
      BY <2>1, <3>1
    <3>3. PICK m \in Nat : list \in [1 .. m -> {0} \cup Subnets]
      BY <3>2 DEF Enumerates
    <3>4. \A r \in {0} \cup Subnets : \E k \in 1 .. m : list[k] = r
      BY <3>2, <3>3 DEF Enumerates
    <3>5. Range(list) = {0} \cup Subnets
      BY <3>3, <3>4 DEF Range
    <3> QED BY <3>1, <3>5
  <2> QED BY <1>5, <2>2
<1>10. Range(comm["CommCal"]) = Cal /\ Range(comm["CommST"]) = ST
  BY <1>2, <1>3, <1>5 DEF Due
<1>11. /\ comm.CommCal = comm["CommCal"] /\ comm.CommST = comm["CommST"] /\ comm.CommEMT = comm["CommEMT"]
       /\ comm.CommMain_Sub = comm["CommMain_Sub"] /\ comm.CommEMTCAL = comm["CommEMTCAL"]
  OBVIOUS
<1> QED BY <1>7, <1>8, <1>9, <1>10, <1>11 DEF Meant, Cal, ST, EMT, Subnets, SubnetsEMT

\* No call is in error, and when all are made the communicators are as meant.
NeverInError == InOrder => ~aborted /\ (Formed => Meant)

\* No call of FormComm is in error, and when all are made each communicator has the processes it is for
\* and no other, although each program computes them from the ranks in another: the safety half of
\* CommsFormed.
THEOREM CommsAsMeant == Spec => []NeverInError
<1>1. Init => CommsOK
  BY CommsOKInit DEF Init
<1>2. CommsOK /\ [Next]_<<commVars, vars>> => CommsOK'
  BY CommsOKNext, CommsOKKept DEF Next
<1>3. CommsOK => NeverInError
  BY MeantWhenFormed DEF CommsOK, CommsDue, NeverInError
<1> QED BY <1>1, <1>2, <1>3, PTL DEF Spec

-----------------------------------------------------------------------------
(* The lists of the subnets, and all together. *)

\* The list is read over a communicator that is there.
HasCommST == InOrder /\ loop.pc # "list" => comm["CommST"] = Due("CommST")

LEMMA HasCommSTNext ==
  ASSUME CommsOK, CommsOK', LoopOK, HasCommST, [Next]_<<commVars, vars>>
  PROVE  HasCommST'
<1>1. Ntype' = Ntype
  BY CommLeaves DEF Next, commVars
<1>2. InOrder' = InOrder /\ Due("CommST")' = Due("CommST")
  BY <1>1, KindsKept
<1>3. CASE CommNext /\ UNCHANGED vars
  <2>1. PICK call \in AllCalls : Collective(call)
    BY <1>3 DEF CommNext
  <2>2. loop' = loop
    BY <1>3 DEF vars
  <2>3. ASSUME InOrder, loop.pc # "list" PROVE comm'["CommST"] = Due("CommST")
    <3>1. /\ comm["CommST"] = Due("CommST") /\ "CommST" \in DOMAIN comm
          /\ call = Allgather => comm' = comm
          /\ call # Allgather => comm' = [comm EXCEPT ![call] = Due(call)]
      BY <2>1, <2>3, CollectiveFacts DEF HasCommST, CommsOK, CommsDue, Forming
    <3>2. CASE call = Allgather
      BY <3>1, <3>2
    <3>3. CASE call # Allgather
      <4>1. comm' = [comm EXCEPT ![call] = Due(call)]
        BY <3>1, <3>3
      <4>2. comm'["CommST"] = IF call = "CommST" THEN Due(call) ELSE comm["CommST"]
        BY <3>1, <4>1
      <4> QED BY <3>1, <4>2
    <3> QED BY <3>2, <3>3
  <2> QED BY <1>2, <2>2, <2>3 DEF HasCommST
<1>4. CASE PhyIO /\ UNCHANGED commVars
  <2>1. comm' = comm
    BY <1>4 DEF commVars
  <2>2. CASE loop.pc = "list"
    <3>1. Formed
      <4>1. ReceiveList
        BY <1>4, <2>2 DEF PhyIO, CollectSubnets, AddVar, SubnetDone, AllocBuf, GetSimuVal, getdatafromPID,
                          setSimuVal, WriteFrame
      <4> QED BY <4>1 DEF ReceiveList
    <3>2. InOrder => comm["CommST"] = Due("CommST")
      <4> SUFFICES ASSUME InOrder PROVE comm["CommST"] = Due("CommST")
        OBVIOUS
      <4>1. 0 \in World /\ "CommST" \in Range(CallsOf(0)) /\ "CommST" \in Forming
        BY CallsFor DEF CommsOK, Forming
      <4> QED BY <3>1, <4>1, FormedIsMade
    <3> QED BY <1>2, <2>1, <3>2 DEF HasCommST
  <2>3. CASE loop.pc # "list"
    BY <1>2, <2>1, <2>3 DEF HasCommST
  <2> QED BY <2>2, <2>3
<1>5. CASE UNCHANGED <<commVars, vars>>
  <2>1. comm' = comm /\ loop' = loop
    BY <1>5 DEF commVars, vars
  <2> QED BY <1>2, <2>1 DEF HasCommST
<1> QED BY <1>3, <1>4, <1>5 DEF Next

\* The variables of a subnet are sent to it.
LEMMA ListsThere ==
  ASSUME CommsOK, HasCommST, TableInv, InOrder
  PROVE  ListsArrive
<1>1. ASSUME NEW n \in DOMAIN stnetios PROVE Ntype[comm.CommST[pcsubnet[n] + 1] + 1] = STSUB
  <2>1. Begun /\ StnetsType
    <3>1. stnetios = <<>> => DOMAIN stnetios = {}
      OBVIOUS
    <3> QED BY <1>1, <3>1 DEF TableInv, StnetsOK
  <2>2. n \in DOMAIN pcsubnet
    <3>1. pcsubnet \in Seq(Nat)
      BY DEF TableInv, SubnetsOK
    <3> QED BY <2>1, <3>1 DEF StnetsType
  <2>3. PICK i \in DOMAIN iovars : pcsubnet[n] = iovars[i].SimProcNo
    BY <2>2 DEF TableInv, SubnetsOK, Met
  <2>4. loop.pc # "list" /\ Ntype \in Layouts /\ iovars \in Configs(Ntype)
    BY <2>1 DEF Begun, TableInv, ListOK
  <2>5. IsSubnet(Ntype, pcsubnet[n])
    BY <2>3, <2>4, ListsAssumption
  <2>6. PICK r \in 0 .. Len(Ntype) - 1 :
          /\ Ntype[r + 1] = STSUB
          /\ pcsubnet[n] = Cardinality({q \in 0 .. Len(Ntype) - 1 : q < r /\ Ntype[q + 1] <= 100})
    BY <2>5 DEF IsSubnet
  <2>7. /\ NumProcST \in Nat /\ ST = 0 .. NumProcST - 1 /\ Len(Ntype) \in Nat
        /\ NumProcCal <= Len(Ntype) /\ NumProcST <= NumProcCal /\ NumProcCal \in Nat
    BY <2>4, LayoutFacts
  <2>8. r \in ST
    BY <2>6 DEF ST, World, IsST, STSUB
  <2>9. r \in Nat /\ r < NumProcST /\ r \in 0 .. NumProcST - 1
    BY <2>7, <2>8
  <2>10. {q \in 0 .. Len(Ntype) - 1 : q < r /\ Ntype[q + 1] <= 100} = 0 .. r - 1
    <3>1. \A q \in 0 .. r - 1 : q \in 0 .. Len(Ntype) - 1 /\ q < r /\ q \in 0 .. NumProcST - 1
      BY <2>7, <2>9
    <3>2. \A q \in 0 .. NumProcST - 1 : Ntype[q + 1] <= 100
      BY <2>7 DEF ST, IsST
    <3>3. \A q \in 0 .. Len(Ntype) - 1 : q < r => q \in 0 .. r - 1
      BY <2>9
    <3> QED BY <3>1, <3>2, <3>3
  <2>11. Cardinality(0 .. r - 1) = r
    <3>1. Cardinality(0 .. r - 1) = IF 0 > r - 1 THEN 0 ELSE (r - 1) - 0 + 1
      BY <2>9, FS_Interval
    <3> QED BY <2>9, <3>1
  <2>12. pcsubnet[n] = r
    BY <2>6, <2>10, <2>11
  <2>13. comm["CommST"] = Ranks(0, NumProcST)
    BY <2>4 DEF HasCommST, Due
  <2>14. Ranks(0, NumProcST)[r + 1] = r
    <3>1. r + 1 \in 1 .. NumProcST /\ 0 + (r + 1) - 1 = r
      BY <2>7, <2>9
    <3> QED BY <3>1 DEF Ranks
  <2>15. comm.CommST = comm["CommST"]
    OBVIOUS
  <2> QED BY <2>6, <2>12, <2>13, <2>14, <2>15
<1> QED BY <1>1 DEF ListsArrive

\* Whatever the list the control sends and however many processes there are: every list of variables
\* reaches its subnet; a value is stored outside its array just if the outputs of a box are not numbered
\* kind by kind; and if none is, every output and every input ends up where it belongs.
THEOREM ValuesDoArrive == Spec => []ValuesArrive
<1> DEFINE Inv == CommsOK /\ HasCommST /\ ValueInv
<1>1. Init => Inv
  <2>1. Init => HasCommST
    BY DEF Init, HasCommST
  <2> QED BY <2>1, CommsOKInit, ValueInvInit DEF Init
<1>2. Inv /\ [Next]_<<commVars, vars>> => Inv'
  <2> SUFFICES ASSUME Inv, [Next]_<<commVars, vars>> PROVE Inv'
    OBVIOUS
  <2>1. CommsOK'
    BY CommsOKNext, CommsOKKept DEF Next
  <2>2. LoopOK
    BY DEF ValueInv, TableInv
  <2>3. HasCommST'
    BY <2>1, <2>2, HasCommSTNext
  <2>4. ValueInv'
    BY ValueInvNext
  <2> QED BY <2>1, <2>3, <2>4
<1>3. Inv => ValuesArrive
  <2> SUFFICES ASSUME Inv, InOrder
               PROVE  ListsArrive /\ StoredOutside /\ (~outside => OutputsArrive /\ InputsArrive)
    BY DEF ValuesArrive
  <2>1. TableInv
    BY DEF ValueInv
  <2> QED BY <2>1, ListsThere, OutsideDecided, OutputsThere, InputsThere
<1> QED BY <1>1, <1>2, <1>3, PTL DEF Spec
=============================================================================
