---- MODULE MCGroupConfig ----
(***************************************************************************)
(* Instance of GroupConfig: a box of MAX_SLOTS x MAX_CHANS channels, of     *)
(* which callers name every one, and one beyond the last slot and one      *)
(* beyond the last channel.                                                *)
(***************************************************************************)
EXTENDS GroupConfig

MCNamed == Channels \cup {[slot |-> MAX_SLOTS, chan |-> 0], [slot |-> 0, chan |-> MAX_CHANS]}
====
