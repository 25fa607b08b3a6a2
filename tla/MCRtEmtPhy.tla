---- MODULE MCRtEmtPhy ----
(***************************************************************************)
(* Instance of RtEmtPhy: two interface processes that share a computing    *)
(* process; one of them has three boxes, the other one.                    *)
(***************************************************************************)
EXTENDS RtEmtPhy

TwoPhys == {0, 1}
TwoSims == {2, 3}
Shared  == 0 :> <<2, 3>> @@ 1 :> <<3>>
Boxes   == 0 :> 3 @@ 1 :> 1
====
