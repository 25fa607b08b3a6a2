--------------------------- MODULE MessageTransfer ---------------------------
(***************************************************************************)
(* What the fibre transfer of piditf_d1/yjdnet.c promises to the layer     *)
(* above it, without packets: PID_Update_NewData hands whole messages to   *)
(* the link, and the device buffers of the other side are only ever        *)
(* overwritten with a whole message, each at most once and in the order    *)
(* they were written.  A message may be lost; nothing else may happen.     *)
(***************************************************************************)
EXTENDS Naturals, Sequences

CONSTANTS
  NMsg,          \* how many messages are written
  Payload(_)     \* the data of message m, as a sequence of words

VARIABLES
  sent,          \* number of the last message written
  last,          \* number of the last message handed over, 0 for none
  delivered      \* the data handed over so far, oldest first

vars == <<sent, last, delivered>>

Init ==
  /\ sent = 0
  /\ last = 0
  /\ delivered = <<>>

\* A new message is written.
Write ==
  /\ sent < NMsg
  /\ sent' = sent + 1
  /\ UNCHANGED <<last, delivered>>

\* A message newer than every one handed over so far arrives whole.
Deliver(m) ==
  /\ last < m
  /\ m <= sent
  /\ last' = m
  /\ delivered' = Append(delivered, Payload(m))
  /\ UNCHANGED sent

Next == Write \/ \E m \in 1..NMsg : Deliver(m)

Spec == Init /\ [][Next]_vars
=============================================================================
