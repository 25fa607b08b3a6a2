---- MODULE MCRtStPhy ----
(***************************************************************************)
(* Instance of RtStPhy: two interface processes, of which the first has    *)
(* signals of both subnets and the second of one.                          *)
(***************************************************************************)
EXTENDS RtStPhy

TwoPhys == {0, 1}
TwoSubs == {2, 3}
Shared  == 0 :> <<2, 3>> @@ 1 :> <<3>>
====
