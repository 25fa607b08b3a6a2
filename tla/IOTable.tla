------------------------------- MODULE IOTable -------------------------------
(***************************************************************************)
(* The table of input and output variables of piditf_d1: RecvSendPhyIO     *)
(* (pstdid.cpp) builds it from the list the simulator's control sends,     *)
(* addavar of the four kinds of signal files each variable under its box,  *)
(* and every step GetSimuVal and setSimuVal carry values between the       *)
(* arrays exchanged with the subnets and the arrays exchanged with the     *)
(* boxes.  The module is about whether a value ends up in the place of the *)
(* variable it belongs to; DigitalSim is about when the values move.       *)
(* It begins where FormComm ends: the control and the subnets are known by *)
(* their ranks in CommST.                                                  *)
(*                                                                         *)
(* A value is stood for by the variable, or by the place in the frame of a *)
(* box, that it comes from.  Arrays start at 0, as in the code; lists are  *)
(* sequences.                                                              *)
(***************************************************************************)
EXTENDS FormComm

CONSTANTS
  Boxes,      \* numbers of the interface boxes
  Configs(_)  \* the lists of variables that the control may send when the
              \* processes are of these kinds

SignTypes == {"AI", "AO", "DI", "DO"}
IOVars ==
  [Valid : {1, 2}, Vidno : Nat \ {0}, SimProcNo : Nat, SigType : SignTypes,
   PidNo : Boxes]

ASSUME IOTableAssumption ==
  \A kinds \in Layouts : Configs(kinds) \subseteq Seq(IOVars)

\* The variables of a list that are of one box and kind.
Mine(c, b, t) == {i \in DOMAIN c : c[i].PidNo = b /\ c[i].SigType = t}

\* Numbers begin at 1 ("inputs and outputs are each numbered from 1", the field
\* idno), and whether those of a box's analogue and digital outputs run on from
\* each other the code does not say.  Two outputs of the subnets may have the
\* same number, two inputs may not ("found, which should not happen").
OwnNumbers(c) ==
  \A b \in Boxes, t \in {"AI", "DI"} : \A i, j \in Mine(c, b, t) :
    c[i].Vidno = c[j].Vidno => i = j

\* What a subnet puts out is what goes to a box.
Directed(c) == \A i \in DOMAIN c : c[i].Valid = 1 <=> c[i].SigType \in {"AO", "DO"}

\* A number of a subnet is that of one, counted among the ST processes.
IsSubnet(kinds, p) ==
  \E r \in 0..(Len(kinds) - 1) :
    /\ kinds[r + 1] = STSUB
    /\ p = Cardinality({q \in 0..(Len(kinds) - 1) : q < r /\ kinds[q + 1] <= 100})

ASSUME ListsAssumption ==
  \A kinds \in Layouts : \A c \in Configs(kinds) :
    /\ OwnNumbers(c) /\ Directed(c)
    /\ \A i \in DOMAIN c : IsSubnet(kinds, c[i].SimProcNo)

VARIABLES
  iovars,    \* the list received: for each variable, an output or an input
             \* of the boxes (Valid), its number, subnet, kind and box
  pcsubnet,  \* procphy.pcsubnet: the subnets, in the order they are met
  loop,      \* where RecvSendPhyIO and the step are; their locals n, i, Nin, Nout
  table,     \* table[b][t]: VarInf of the signals of kind t of box b
  IdVin,     \* simio.IdVin: where the inputs of each subnet begin
  IdVout,    \* simio.IdVout
  stnetios,  \* stnetios[n]: the variables named to the n-th subnet, inputs and
             \* outputs of the boxes apart (MarkIO)
  staged,    \* staged[b][t]: Volt of the AO, data of the DO
  outside,   \* a value was written past the end of an array
  frame,     \* frame[b]: what the box is sent
  vout       \* simio.Vout: what the subnets are sent, NoInput where never set

vars == <<iovars, pcsubnet, loop, table, IdVin, IdVout, stnetios, staged,
          outside, frame, vout>>
tableVars == <<iovars, pcsubnet, table, IdVin, IdVout, stnetios>>

Init ==
  /\ CommInit
  /\ iovars = <<>>
  /\ pcsubnet = <<>>
  /\ loop = [pc |-> "list", n |-> 1, i |-> 1, Nin |-> 0, Nout |-> 0]
  /\ table = [b \in Boxes |-> [t \in SignTypes |-> <<>>]]
  /\ IdVin = <<0>>
  /\ IdVout = <<0>>
  /\ stnetios = <<>>
  /\ staged = [b \in Boxes |-> [t \in {"AO", "DO"} |-> <<>>]]
  /\ outside = FALSE
  /\ frame = [b \in Boxes |-> [t \in {"AO", "DO"} |-> <<>>]]
  /\ vout = <<>>

-----------------------------------------------------------------------------
(* RecvSendPhyIO *)

\* A variable is an input of the program, and an output of its subnet, or the reverse.
Sides == {"in", "out"}
Side(v) == IF v.Valid = 1 THEN "in" ELSE "out"

\* The list comes from the control (tags 101 and 102).
ReceiveList ==
  /\ loop.pc = "list"
  /\ Formed
  /\ iovars' \in Configs(Ntype)
  /\ loop' = [loop EXCEPT !.pc = "subnets"]
  /\ UNCHANGED <<pcsubnet, table, IdVin, IdVout, stnetios, staged, outside, frame,
                 vout>>

\* The subnets of the list, each once.
CollectSubnets ==
  /\ loop.pc = "subnets"
  /\ IF loop.i <= Len(iovars)
     THEN /\ pcsubnet' = IF Contains(pcsubnet, iovars[loop.i].SimProcNo) THEN pcsubnet
                         ELSE Append(pcsubnet, iovars[loop.i].SimProcNo)
          /\ loop' = [loop EXCEPT !.i = @ + 1]
          /\ UNCHANGED stnetios
     ELSE /\ stnetios' = [n \in DOMAIN pcsubnet |-> [s \in Sides |-> <<>>]]
          /\ loop' = [loop EXCEPT !.pc = "vars", !.i = 1]
          /\ UNCHANGED pcsubnet
  /\ UNCHANGED <<iovars, table, IdVin, IdVout, staged, outside, frame, vout>>

\* addavar of an analogue input: a number that is there already is refused.
\* The other kinds add the subnet's variable to the signal of that number.
addavar(VarInf, t, idno, svar) ==
  LET known == {i \in DOMAIN VarInf : VarInf[i].idno = idno}
  IN IF known = {}
     THEN Append(VarInf, [idno |-> idno, VSimIO |-> <<svar>>])
     ELSE IF t = "AI"
     THEN VarInf
     ELSE [VarInf EXCEPT ![Min(known)].VSimIO = Append(@, svar)]

\* Mutant of IdxIO: places are counted from 1.
IdxIOFromOne(v) == IF Side(v) = "in" THEN loop.Nin + 1 ELSE loop.Nout + 1

\* The place of a variable among the inputs, or among the outputs, of its
\* subnet.
IdxIO(v) == IF Side(v) = "in" THEN loop.Nin ELSE loop.Nout

\* One turn of the loop over the variables, for subnet n.
AddVar ==
  /\ loop.pc = "vars" /\ loop.n <= Len(pcsubnet) /\ loop.i <= Len(iovars)
  /\ LET v == iovars[loop.i]
         svar == [prono |-> v.SimProcNo, idxIO |-> IdxIO(v)]
     IN IF v.SimProcNo # pcsubnet[loop.n]
        THEN /\ loop' = [loop EXCEPT !.i = @ + 1]
             /\ UNCHANGED <<table, stnetios>>
        ELSE /\ table' = [table EXCEPT ![v.PidNo][v.SigType] =
                            addavar(@, v.SigType, v.Vidno, svar)]
             /\ stnetios' = [stnetios EXCEPT ![loop.n][Side(v)] = Append(@, loop.i)]
             /\ loop' = IF Side(v) = "in" THEN [loop EXCEPT !.i = @ + 1, !.Nin = @ + 1]
                        ELSE [loop EXCEPT !.i = @ + 1, !.Nout = @ + 1]
  /\ UNCHANGED <<iovars, pcsubnet, IdVin, IdVout, staged, outside, frame,
                 vout>>

\* An array of n entries as it is allocated: nothing of a step in it.
EmptyArray(n, nothing) == [p \in 0..(n - 1) |-> nothing]

\* A value that no box has sent.
NoInput == [box |-> -1, kind |-> "none", place |-> 0]

\* The variables of subnet n are all filed: the ends of its part of the
\* arrays, its list of variables (tag 102), and the next subnet.
SubnetDone ==
  /\ loop.pc = "vars" /\ loop.n <= Len(pcsubnet) /\ loop.i > Len(iovars)
  /\ IdVin' = Append(IdVin, Last(IdVin) + loop.Nin)
  /\ IdVout' = Append(IdVout, Last(IdVout) + loop.Nout)
  /\ loop' = [loop EXCEPT !.n = @ + 1, !.i = 1, !.Nin = 0, !.Nout = 0]
  /\ UNCHANGED <<iovars, pcsubnet, table, stnetios, staged, outside, frame, vout>>

\* Vin and Vout are allocated, and (allocBuf, init) the arrays of each kind
\* of signal of each box, as long as its list.
AllocBuf ==
  /\ loop.pc = "vars" /\ loop.n > Len(pcsubnet)
  /\ staged' = [b \in Boxes |-> [t \in {"AO", "DO"} |->
                                   EmptyArray(Len(table[b][t]), -1)]]
  /\ vout' = EmptyArray(Last(IdVout), NoInput)
  /\ loop' = [loop EXCEPT !.pc = "receive", !.n = 1]
  /\ UNCHANGED <<tableVars, outside, frame>>

-----------------------------------------------------------------------------
(* The exchange of a step *)

\* What the n-th subnet sends: the values of its inputs, in the order of
\* the list it was given.
Received(n) ==
  [p \in 0..(Len(stnetios[n]["in"]) - 1) |-> stnetios[n]["in"][p + 1]]

\* Which of a signal's variables counts when the values of process proc
\* arrive: the last one of proc for an analogue output, the first of all or
\* none for a digital one.
Counting(VSimIO, t, proc) ==
  LET mine == {j \in DOMAIN VSimIO : VSimIO[j].prono = proc}
  IN IF t = "AO" THEN {j \in mine : \A k \in mine : k <= j} ELSE mine \cap {1}

\* The numbers of the signals of a list that proc has a value for, each with
\* the variable the value is of.
NewValues(VarInf, t, proc, val) ==
  UNION {{<<VarInf[i].idno, val[VarInf[i].VSimIO[j].idxIO]>> :
            j \in Counting(VarInf[i].VSimIO, t, proc)} : i \in DOMAIN VarInf}

\* Mutant of Store: the number is used as the place.
StoreFromOne(arr, new) ==
  [p \in DOMAIN arr |->
     IF \E nv \in new : nv[1] = p
     THEN (CHOOSE nv \in new : nv[1] = p)[2]
     ELSE arr[p]]

\* Volt[idno-1] = ..., data[idno-1] = ...
Store(arr, new) ==
  [p \in DOMAIN arr |->
     IF \E nv \in new : nv[1] = p + 1
     THEN (CHOOSE nv \in new : nv[1] = p + 1)[2]
     ELSE arr[p]]

\* GetSimuVal of every box, for the n-th subnet's values.
GetSimuVal ==
  /\ loop.pc = "receive" /\ loop.n <= Len(pcsubnet)
  /\ LET New(b, t) ==
           NewValues(table[b][t], t, pcsubnet[loop.n], Received(loop.n))
     IN /\ staged' = [b \in Boxes |-> [t \in {"AO", "DO"} |->
                                         Store(staged[b][t], New(b, t))]]
        /\ outside' = (outside \/
             \E b \in Boxes, t \in {"AO", "DO"} : \E nv \in New(b, t) :
               nv[1] - 1 \notin DOMAIN staged[b][t])
  /\ loop' = [loop EXCEPT !.n = @ + 1]
  /\ UNCHANGED <<tableVars, frame, vout>>

\* A copy of the device's array: an input is the place in it.
getdatafromPID ==
  /\ loop.pc = "receive" /\ loop.n > Len(pcsubnet)
  /\ loop' = [loop EXCEPT !.pc = "read", !.n = 1]
  /\ UNCHANGED <<tableVars, staged, outside, frame, vout>>

\* The inputs of the list, each with the place in the frame from the box.
\* setSimuVal takes the value at the place of the signal in the list.  A digital
\* input has one variable that counts, the first; an analogue one has one at all.
InputsOf(VarInf, proc) ==
  {<<VarInf[i].VSimIO[1].idxIO, i - 1>> :
     i \in {k \in DOMAIN VarInf : VarInf[k].VSimIO[1].prono = proc}}

\* setSimuVal of every box, for the n-th subnet: the part of Vout that
\* begins at IdVout[n].
setSimuVal ==
  /\ loop.pc = "read" /\ loop.n <= Len(pcsubnet)
  /\ LET new == UNION {{[at  |-> IdVout[loop.n] + iv[1],
                         val |-> [box |-> b, kind |-> t, place |-> iv[2]]] :
                          iv \in InputsOf(table[b][t], pcsubnet[loop.n])} :
                       b \in Boxes, t \in {"AI", "DI"}}
     IN vout' = [p \in DOMAIN vout |->
                   IF \E nv \in new : nv.at = p
                   THEN (CHOOSE nv \in new : nv.at = p).val
                   ELSE vout[p]]
  /\ loop' = [loop EXCEPT !.n = @ + 1]
  /\ UNCHANGED <<tableVars, staged, outside, frame>>

\* The bits of a U16, of an unsigned char and of a float.
Word == 0..15
Byte == 0..7
Float == 0..31

\* The volts, doubles handed over as if they were floats and read as doubles
\* again, are rounded to floats.
PID_AO_GrpWrite(Volt) ==
  [p \in DOMAIN Volt |-> [of |-> Volt[p], bits |-> Float]]

\* The word of a digital output has the state of the switch in its top bit and
\* the microseconds it waits in the others; it is stored in an unsigned char.
PID_DO_GrpWrite(data) ==
  [p \in DOMAIN data |-> [of |-> data[p], bits |-> Word \cap Byte]]

\* SenddataToPID of both kinds: the device's arrays, which the frame is a copy
\* of, are filled from the staged ones, place by place.
WriteFrame ==
  /\ loop.pc = "read" /\ loop.n > Len(pcsubnet)
  /\ frame' = [b \in Boxes |->
                 [t \in {"AO", "DO"} |-> IF t = "AO" THEN PID_AO_GrpWrite(staged[b][t])
                                        ELSE PID_DO_GrpWrite(staged[b][t])]]
  /\ loop' = [loop EXCEPT !.pc = "done"]
  /\ UNCHANGED <<tableVars, staged, outside, vout>>

PhyIO ==
  \/ ReceiveList
  \/ CollectSubnets
  \/ AddVar
  \/ SubnetDone
  \/ AllocBuf
  \/ GetSimuVal
  \/ getdatafromPID
  \/ setSimuVal
  \/ WriteFrame

Next ==
  \/ CommNext /\ UNCHANGED vars
  \/ PhyIO /\ UNCHANGED commVars

Spec == Init /\ [][Next]_<<commVars, vars>>

\* A collective call returns when all have come to it.
FairSpec == Spec /\ WF_commVars(CommNext)

-----------------------------------------------------------------------------
(* Properties *)

\* The state has the shape the C++ variables give it.
TypeOK ==
  /\ iovars \in Configs(Ntype) \cup {<<>>}
  /\ \A n \in DOMAIN pcsubnet : pcsubnet[n] \in Nat
  /\ loop.pc \in {"list", "subnets", "vars", "receive", "read", "done"}
  /\ loop.n \in 1..(Len(pcsubnet) + 1)
  /\ loop.i \in 1..(Len(iovars) + 1)
  /\ loop.Nin + loop.Nout \in 0..Len(iovars)
  /\ \A b \in Boxes, t \in SignTypes : \A k \in DOMAIN table[b][t] :
       /\ table[b][t][k].idno \in Nat \ {0}
       /\ \A j \in DOMAIN table[b][t][k].VSimIO :
            table[b][t][k].VSimIO[j].idxIO \in 0..(Len(iovars) - 1)
  /\ Len(IdVin) = Len(IdVout)
  /\ outside \in BOOLEAN

\* The variables of a box's list of one kind.
Of(b, t) == {i \in DOMAIN iovars : iovars[i].PidNo = b /\ iovars[i].SigType = t}

\* The place at which a subnet expects variable i among the values it
\* receives, in the whole of Vout: the outputs of its list, in order.
ExpectedAt(i) ==
  LET n == CHOOSE k \in DOMAIN pcsubnet : pcsubnet[k] = iovars[i].SimProcNo
      place == CHOOSE p \in DOMAIN stnetios[n]["out"] : stnetios[n]["out"][p] = i
  IN IdVout[n] + place - 1

\* The list of the variables of a subnet goes to a subnet: the numbers the
\* control uses in its list are the ranks in CommST.
ListsArrive ==
  \A n \in DOMAIN stnetios :
    Ntype[comm.CommST[pcsubnet[n] + 1] + 1] = STSUB

\* The numbers of the outputs of each kind of each box begin at 1 and leave none
\* out.
Numbered(c) ==
  \A b \in Boxes, t \in {"AO", "DO"} :
    LET numbers == {c[i].Vidno : i \in Mine(c, b, t)}
    IN numbers = 1..Cardinality(numbers)

\* A value is stored outside the array of its box and kind only if, and always
\* if, the outputs of one kind of one box are not numbered by themselves.
StoredOutside ==
  /\ outside => ~Numbered(iovars)
  /\ loop.pc = "done" /\ ~outside => Numbered(iovars)

\* A value of a subnet arrives in the place of the frame that its variable's
\* number says, and no other variable's value does, although the values go
\* through the part of Vin of their subnet in an order of their own.  Of a
\* digital one nothing arrives but the low eight bits of its word: the state
\* of the switch is not among them.
OutputsArrive ==
  loop.pc = "done" =>
    \A b \in Boxes, t \in {"AO", "DO"} :
      /\ DOMAIN frame[b][t] = {iovars[i].Vidno - 1 : i \in Of(b, t)}
      /\ \A p \in DOMAIN frame[b][t] :
           /\ frame[b][t][p].of \in Of(b, t)
           /\ iovars[frame[b][t][p].of].Vidno = p + 1
           /\ frame[b][t][p].bits = IF t = "AO" THEN 0..31 ELSE 0..7

\* Every subnet is sent, in the place it expects each of its variables, a
\* value of the right box and kind, and no two variables share one.
InputsArrive ==
  loop.pc = "done" =>
    \A b \in Boxes, t \in {"AI", "DI"} :
      /\ \A i \in Of(b, t) :
           LET v == vout[ExpectedAt(i)]
           IN v.box = b /\ v.kind = t /\ v.place < Len(table[b][t])
      /\ \A i, j \in Of(b, t) :
           vout[ExpectedAt(i)] = vout[ExpectedAt(j)] => i = j

\* When the processes were started in the order of their kinds, every list
\* reaches its subnet, and unless a value was stored outside its array, which
\* the numbers of the list decide, every output and every input ends up where
\* it belongs.
ValuesArrive ==
  InOrder =>
    /\ ListsArrive
    /\ StoredOutside
    /\ ~outside => OutputsArrive /\ InputsArrive
=============================================================================
