------------------------- MODULE MCCtlProtocol -------------------------
(***************************************************************************)
(* Instances of CtlProtocol: a box with an analogue input card in slot 0   *)
(* and an analogue output card in slot 1, where there is one.              *)
(***************************************************************************)
EXTENDS CtlProtocol

MCCardType == [s \in Slots |-> IF s = 0 THEN CARD_INFO_AI ELSE CARD_INFO_AO]
=============================================================================
