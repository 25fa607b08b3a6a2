---- MODULE MCStPhyBox ----
(***************************************************************************)
(* Instances of StPhyBox: two boxes, two subnets.                          *)
(***************************************************************************)
EXTENDS StPhyBox

MCCardAt == [b \in 0 .. 1 |-> <<"AI", "AO", "DI", "DO">>]

V(kind, net, b, idno, inst) ==
  [kind |-> kind, net |-> net, box |-> b, idno |-> idno, inst |-> inst,
   slot |-> CHOOSE s \in 1 .. 4 : MCCardAt[b][s] = kind]

\* A wave and a sum of both subnets on box 0; the variable of subnet 2 comes first in the
\* list, but subnet 1 is received first.  Digital signals on box 1.
Mixed == <<V("AO", 1, 0, 1, TRUE), V("AO", 2, 0, 2, FALSE), V("AI", 2, 0, 1, FALSE),
           V("AO", 1, 0, 1, TRUE), V("AO", 1, 0, 2, FALSE), V("DO", 2, 1, 1, FALSE),
           V("DI", 1, 1, 1, FALSE), V("DI", 2, 1, 2, FALSE)>>

\* Two waves of two subnets with a sum between them; one box; inputs of one subnet only.
Waving == <<V("AO", 2, 0, 3, TRUE), V("AO", 2, 0, 1, FALSE), V("AO", 1, 0, 5, TRUE),
            V("AO", 2, 0, 3, TRUE), V("AO", 1, 0, 5, TRUE), V("AO", 1, 0, 1, FALSE),
            V("AI", 1, 0, 2, FALSE), V("AI", 1, 0, 1, FALSE)>>

\* No waves: one output a step.
Effective == <<V("DO", 2, 0, 1, FALSE), V("AI", 1, 1, 1, FALSE), V("AO", 1, 1, 1, FALSE),
               V("DI", 2, 0, 1, FALSE)>>

MCTables == {Mixed, Waving, Effective}
====
