----------------------------- MODULE MCDigitalSim -----------------------------
(***************************************************************************)
(* Instance of DigitalSim: the second box has outputs of both kinds, the   *)
(* first only inputs, and it is the one that is polled.                    *)
(***************************************************************************)
EXTENDS DigitalSim

WithAO == {1}
WithDO == {1}
AnyFault == {"none", "dpdk", "core", "buffer", "subnet"}
=============================================================================
