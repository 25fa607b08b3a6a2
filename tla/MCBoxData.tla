---- MODULE MCBoxData ----
(***************************************************************************)
(* Instances of BoxData: a box with one card of each kind and two channels *)
(* a card, and two computing processes.                                    *)
(***************************************************************************)
EXTENDS BoxData

MCCard == <<"AI", "AO", "DI", "DO">>

Line(kind, idno, proc, chan, gain, iospec) ==
  [kind |-> kind, idno |-> idno, proc |-> proc, chan |-> chan, gain |-> gain, iospec |-> iospec,
   slot |-> CHOOSE s \in 1 .. 4 : MCCard[s] = kind]

\* Process 2 is met first and has both inputs, the digital one first; both processes
\* add to the AO number 1, the first to meet it is the second to be filed.
Sums == <<Line("DI", 2, 2, 1, 1, 1), Line("AI", 1, 2, 1, 2, 0), Line("AO", 1, 1, 0, 1, 0),
          Line("AO", 1, 2, 0, 2, 0), Line("DO", 2, 1, 0, 1, 0)>>

\* One process has all signals, the other one none of them but an input.
Lopsided == <<Line("DI", 1, 1, 0, 1, 2), Line("AO", 1, 1, 1, -3, 0), Line("AO", 2, 1, 0, 1, 0),
              Line("DO", 3, 1, 1, 1, 0), Line("AI", 2, 2, 0, 1, 0)>>

\* No analogue signals at all.
Digital == <<Line("DO", 1, 1, 1, 1, 0), Line("DI", 1, 2, 0, 1, 0), Line("DI", 2, 1, 1, 1, 1)>>

MCFiles == {Sums, Lopsided, Digital}
====
