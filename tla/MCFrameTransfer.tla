--------------------------- MODULE MCFrameTransfer ---------------------------
(* Small instances of FrameTransfer: packets of two words. *)
EXTENDS FrameTransfer

\* Messages of 3, 3, 1, 4 and 3 packets.  The first and the last are exact
\* multiples of the packet size, so their last packet is empty; the first two
\* cannot be told apart by their headers.  With room for five words, the fourth
\* does not fit data_receive: its last two packets are refused.
SomeLengths == <<4, 5, 1, 7, 4>>

\* Messages of two packets, so that a burst of two packets is not short.
PairLengths == <<3, 3, 3>>
=============================================================================
