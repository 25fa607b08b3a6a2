------------------------------ MODULE MCIOTable ------------------------------
(***************************************************************************)
(* Instance of IOTable: a small simulator with every short list of         *)
(* variables of two subnets and two boxes, large ones with the interface   *)
(* programs of all three kinds and fewer lists, and some that were not     *)
(* started in order.                                                       *)
(***************************************************************************)
EXTENDS IOTable

Small == <<STCTRL, STSUB, STSUB, STCom>>
Mixed == <<STCTRL, STSUB, 3, 4, STSUB, STPHY, STCom, EMTSUB, EMTSUB, EMTPHY, 201>>
OnlyEMT == <<STCTRL, EMTSUB, EMTPHY, EMTPHY>>
EMTFirst == <<STCTRL, EMTSUB, STSUB, STSUB, STCom>>
IOFirst == <<STCTRL, 201, STSUB, STCom, EMTSUB, EMTPHY>>
SubnetFirst == <<STSUB, STCTRL, STCom>>
AllLayouts == {Small, Mixed, OnlyEMT, EMTFirst, IOFirst, SubnetFirst}

\* What the control knows of the processes: the ranks of the subnets among
\* the ST processes.
SubnetRanks(kinds) ==
  LET ST == SelectSeq(kinds, LAMBDA kind : kind <= 100)
  IN {r \in 0..(Len(ST) - 1) : ST[r + 1] = STSUB}

Var(t, k, p, b) ==
  [Valid |-> IF t \in {"AO", "DO"} THEN 1 ELSE 2, Vidno |-> k, SimProcNo |-> p,
   SigType |-> t, PidNo |-> b]

AllVars(kinds, maxIdno) ==
  {Var(t, k, p, b) : t \in SignTypes, k \in 1..maxIdno, p \in SubnetRanks(kinds),
                     b \in {0, 1}}

\* The numbers of some variables of a list begin at 1 and leave none out.
FromOne(c, chosen) ==
  LET numbers == {c[i].Vidno : i \in chosen} IN numbers = 1..Cardinality(numbers)

\* The outputs of a box are numbered kind by kind, or the digital ones, or the
\* analogue ones, run on from the others.
NumberedSomehow(c) ==
  \/ \A b \in Boxes, t \in SignTypes : FromOne(c, Mine(c, b, t))
  \/ \A b \in Boxes : /\ FromOne(c, Mine(c, b, "AO") \cup Mine(c, b, "DO"))
                      /\ FromOne(c, Mine(c, b, "AI")) /\ FromOne(c, Mine(c, b, "DI"))

\* Every list of up to n variables numbered so, and the short ones with numbers
\* left out too, in any order.  The boxes are alike: the first variable is of box 0.
Lists(kinds, n) ==
  {c \in BoundedSeq(AllVars(kinds, 2), n) :
     c # <<>> /\ c[1].PidNo = 0 /\ OwnNumbers(c) /\ (Len(c) <= 2 \/ NumberedSomehow(c))}

ShortConfigs(kinds) ==
  IF STCom \notin Range(kinds) THEN {}
  ELSE Lists(kinds, IF kinds = Small THEN 3 ELSE 1)
=============================================================================
