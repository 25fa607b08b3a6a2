--------------------------- MODULE RtEmtPhyProofs ---------------------------
(***************************************************************************)
(* Proofs about RtEmtPhy, for every set of interface and computing         *)
(* processes, every choice of which serves which, every number of boxes    *)
(* and steps.  No process waits for the others before it goes on to the    *)
(* next step, so steps are kept apart by the messages alone: the invariant *)
(* counts, for each interface process and each computing process it        *)
(* serves, what was sent and what was received in either direction.        *)
(* Then proofs about GpsClock, the clock that its thread waits by.         *)
(***************************************************************************)
EXTENDS RtEmtPhy, GpsClock, TLAPS

(***************************************************************************)
(* Quotients and remainders by a positive number: a second is a            *)
(* multiple of the steps, and the clock counts modulo a millisecond.       *)
(***************************************************************************)
\* A number is its quotient times the divisor, plus its remainder.
LEMMA DivisionTheorem ==
  ASSUME NEW a \in Int, NEW m \in Nat, m > 0
  PROVE  /\ a \div m \in Int
         /\ a % m \in 0 .. m - 1
         /\ a = m * (a \div m) + (a % m)
<1>1. a % m \in 0 .. m - 1
  OBVIOUS
<1>2. a \div m \in Int
  OBVIOUS
<1>3. a = m * (a \div m) + (a % m)
  OBVIOUS
<1> QED BY <1>1, <1>2, <1>3

\* A multiple of m nearer to 0 than m is 0.
LEMMA SmallMultiple ==
  ASSUME NEW m \in Nat, m > 0, NEW q \in Int, m * q < m, -m < m * q
  PROVE  q = 0
<1>1. CASE q >= 1
  <2>1. m * q >= m
    BY <1>1
  <2> QED BY <2>1
<1>2. CASE q <= -1
  <2>1. m * q <= -m
    BY <1>2
  <2> QED BY <2>1
<1> QED BY <1>1, <1>2

\* The remainder is the only number below m that differs from a by a multiple.
LEMMA RemainderUnique ==
  ASSUME NEW m \in Nat, m > 0, NEW a \in Int, NEW q \in Int, NEW r \in 0 .. m - 1,
         a = m * q + r
  PROVE  a % m = r
<1> DEFINE p == a \div m
<1> DEFINE s == a % m
<1>1. p \in Int /\ s \in 0 .. m - 1 /\ a = m * p + s
  BY DivisionTheorem
<1> HIDE DEF p, s
<1>2. m * (p - q) = r - s
  BY <1>1
<1>3. p - q = 0
  BY <1>1, <1>2, SmallMultiple
<1>4. s = r
  BY <1>1, <1>3
<1> QED BY <1>4 DEF s

\* The places of the real-time thread: where a step is half done, and where
\* there are no more steps.
Stepping == {"send", "recv", "out"}
Stopped  == {"stop", "stats", "mark", "end"}
Places   ==
  {"none", "sleep", "barrier", "pps1", "frame", "sent", "pps2", "step"}
    \cup Stepping \cup Stopped

\* The places in SimProc of an interface process.
Index(p) == 1 .. Len(SimProc[p])

Outputs == UNION {[Served(p) -> Nat] : p \in Phys}

SimStates(s) ==
  [pc : {"barrier", "recv", "world", "exit"}, ITime : Nat \ {0},
   got : SUBSET PhysOf(s), in : [PhysOf(s) -> Nat]]

TypeInv ==
  /\ pc \in [Phys -> Places]
  /\ ITime \in [Phys -> Nat \ {0}]
  /\ proc \in [Phys -> Nat]
  /\ \A p \in Phys : proc[p] \in Index(p)
  /\ DOMAIN vals = Phys /\ \A p \in Phys : vals[p] \in [Served(p) -> Nat]
  /\ frames \in [Phys -> Seq([ITime : Nat, vals : Outputs])]
  /\ DOMAIN in60 = Phys /\ \A p \in Phys : in60[p] \in [Served(p) -> Seq(Nat)]
  /\ DOMAIN out61 = Phys
  /\ \A p \in Phys : out61[p] \in [Served(p) -> Seq([ITime : Nat, stop : BOOLEAN])]
  /\ DOMAIN sim = Sims
  /\ \A s \in Sims : sim[s] \in SimStates(s)

\* A step that is half done is one of the simulation.
StepInv ==
  \A p \in Phys : pc[p] \in Stepping => ITime[p] <= NSteps

\* The last step of which the i-th computing process was sent the inputs by
\* p, and has received them; a thread that stops has done its last step whole.
SentNo(p, i) ==
  IF \/ pc[p] = "send" /\ i < proc[p]
     \/ pc[p] \in {"recv", "out"}
     \/ pc[p] \in Stopped /\ ITime[p] <= NSteps
  THEN ITime[p] ELSE ITime[p] - 1

GotNo(p, s) == IF p \in sim[s].got THEN sim[s].ITime ELSE sim[s].ITime - 1

\* The last step of which s has sent the outputs, and p received them.
DoneNo(s) == IF sim[s].pc \in {"world", "exit"} THEN sim[s].ITime ELSE sim[s].ITime - 1

TakenNo(p, i) ==
  IF \/ pc[p] = "recv" /\ i < proc[p]
     \/ pc[p] = "out"
     \/ pc[p] \in Stopped /\ ITime[p] <= NSteps
  THEN ITime[p] ELSE ITime[p] - 1

\* What is on its way are the steps sent and not received, in order.
InMail ==
  \A p \in Phys : \A i \in Index(p) :
    LET q == in60[p][SimProc[p][i]]
        r == GotNo(p, SimProc[p][i])
    IN  Len(q) = SentNo(p, i) - r /\ \A n \in 1 .. Len(q) : q[n] = r + n

OutMail ==
  \A p \in Phys : \A i \in Index(p) :
    LET q == out61[p][SimProc[p][i]]
        r == TakenNo(p, i)
    IN  Len(q) = DoneNo(SimProc[p][i]) - r /\ \A n \in 1 .. Len(q) : q[n].ITime = r + n

\* The outputs an interface process holds are those it received last, and it
\* has sent its boxes a frame for each step done since StartStep.
ValsInv ==
  \A p \in Phys : \A i \in Index(p) : vals[p][SimProc[p][i]] = TakenNo(p, i)

FramesInv ==
  \A p \in Phys : pc[p] \notin Stopped =>
    Len(frames[p]) = IF ITime[p] > StartStep THEN ITime[p] - StartStep ELSE 0

\* main creates the thread once.
StartInv ==
  /\ DOMAIN main = Phys
  /\ \A p \in Phys : main[p] \in {"init", "barrier", "quit"} => pc[p] = "none"

StepsInv ==
  /\ TypeInv /\ StepInv /\ InMail /\ OutMail /\ ValsInv /\ FramesInv
  /\ OutputsOfTheStep /\ InputsOfTheStep

\* What the thread writes to the FIFO.
Lines == {"recv stop signal from EMT", "Running Time", "Max Step Time"}

\* Where the thread writes to the FIFO, main has not seen the end.
ConsoleInv ==
  /\ fifo \in [Phys -> Seq(Lines)] /\ printed \in [Phys -> Seq(Lines)]
  /\ DOMAIN written = Phys /\ DOMAIN mark = Phys
  /\ \A p \in Phys :
       /\ written[p] = printed[p] \o fifo[p]
       /\ mark[p] = "end" => pc[p] = "end"
       /\ main[p] \in {"close", "world", "exit"} => mark[p] = "end" /\ fifo[p] = <<>>

IInv == StepsInv /\ StartInv /\ ConsoleInv

(***************************************************************************)
(* The initial states, and facts about the lists of computing processes.   *)
(***************************************************************************)
\* A computing process has one place in the list of those p serves.
LEMMA Lists ==
  /\ \A p \in Phys :
       /\ Len(SimProc[p]) \in Nat \ {0}
       /\ \A i \in Index(p) :
            /\ SimProc[p][i] \in Sims /\ SimProc[p][i] \in Served(p)
            /\ p \in PhysOf(SimProc[p][i])
       /\ \A i, j \in Index(p) : SimProc[p][i] = SimProc[p][j] => i = j
       /\ \A s \in Served(p) : \E i \in Index(p) : s = SimProc[p][i]
  /\ \A s \in Sims : PhysOf(s) \subseteq Phys
  /\ \A s \in Sims : \A p \in PhysOf(s) : \E i \in Index(p) : s = SimProc[p][i]
  /\ NSteps \in Nat /\ StartStep \in Nat \ {0}
<1>1. ASSUME NEW p \in Phys
      PROVE  /\ Len(SimProc[p]) \in Nat \ {0}
             /\ SimProc[p] \in Seq(Sims) /\ DOMAIN SimProc[p] = Index(p)
             /\ \A i, j \in Index(p) : SimProc[p][i] = SimProc[p][j] => i = j
             /\ \A s \in Served(p) : \E i \in Index(p) : s = SimProc[p][i]
             /\ \A i \in Index(p) : SimProc[p][i] \in Sims /\ SimProc[p][i] \in Served(p)
  <2>1. SimProc[p] \in Seq(Sims) /\ SimProc[p] # <<>>
    BY RtAssumption
  <2>2. Len(SimProc[p]) \in Nat \ {0} /\ DOMAIN SimProc[p] = Index(p)
    BY <2>1 DEF Index
  <2>3. \A i, j \in Index(p) : SimProc[p][i] = SimProc[p][j] => i = j
    BY <2>2, RtAssumption DEF IsInjective
  <2>4. Served(p) = {SimProc[p][i] : i \in Index(p)}
    BY <2>2 DEF Served, ToSet
  <2> QED BY <2>1, <2>2, <2>3, <2>4 DEF Index
<1>2. NSteps \in Nat /\ StartStep \in Nat \ {0}
  BY RtAssumption
<1>3. \A p \in Phys : \A i \in Index(p) : p \in PhysOf(SimProc[p][i])
  BY <1>1 DEF PhysOf
<1>4. \A s \in Sims : PhysOf(s) \subseteq Phys /\ \A p \in PhysOf(s) : s \in Served(p)
  BY DEF PhysOf
<1> QED BY <1>1, <1>2, <1>3, <1>4

\* Nothing is sent, received or held at the beginning.
LEMMA InitSteps == Init => StepsInv /\ StartInv
<1> SUFFICES ASSUME Init PROVE StepsInv /\ StartInv
  OBVIOUS
<1>1. TypeInv
  <2>1. \A p \in Phys : proc[p] \in Index(p)
    BY Lists DEF Init, Index
  <2>2. \A p \in Phys : vals[p] \in [Served(p) -> Nat]
    BY DEF Init
  <2>3. \A p \in Phys : in60[p] = [s \in Served(p) |-> <<>>] /\ out61[p] = [s \in Served(p) |-> <<>>]
    BY DEF Init
  <2>8. \A p \in Phys : /\ in60[p] \in [Served(p) -> Seq(Nat)]
                        /\ out61[p] \in [Served(p) -> Seq([ITime : Nat, stop : BOOLEAN])]
    <3>1. <<>> \in Seq(Nat) /\ <<>> \in Seq([ITime : Nat, stop : BOOLEAN])
      OBVIOUS
    <3> QED BY <2>3, <3>1
  <2>4. \A s \in Sims : sim[s] \in SimStates(s)
    BY DEF Init, SimStates
  <2>5. DOMAIN vals = Phys /\ DOMAIN in60 = Phys /\ DOMAIN out61 = Phys /\ DOMAIN sim = Sims
    BY DEF Init
  <2>6. pc \in [Phys -> Places] /\ ITime \in [Phys -> Nat \ {0}] /\ proc \in [Phys -> Nat]
    BY DEF Init, Places
  <2>7. frames \in [Phys -> Seq([ITime : Nat, vals : Outputs])]
    BY DEF Init
  <2> QED BY <2>1, <2>2, <2>4, <2>5, <2>6, <2>7, <2>8 DEF TypeInv
<1>2. \A p \in Phys : \A i \in Index(p) :
        /\ in60[p][SimProc[p][i]] = <<>> /\ out61[p][SimProc[p][i]] = <<>>
        /\ SentNo(p, i) = 0 /\ TakenNo(p, i) = 0 /\ vals[p][SimProc[p][i]] = 0
        /\ GotNo(p, SimProc[p][i]) = 0 /\ DoneNo(SimProc[p][i]) = 0
  BY Lists DEF Init, SentNo, TakenNo, GotNo, DoneNo, Stopped
<1>3. InMail /\ OutMail /\ ValsInv
  BY <1>2 DEF InMail, OutMail, ValsInv
<1>4. StepInv /\ FramesInv /\ StartInv
  BY Lists DEF Init, StepInv, FramesInv, Stepping, StartInv
<1>5. OutputsOfTheStep /\ InputsOfTheStep
  BY DEF Init, OutputsOfTheStep, InputsOfTheStep
<1> QED BY <1>1, <1>3, <1>4, <1>5 DEF StepsInv

(***************************************************************************)
(* The steps.                                                              *)
(***************************************************************************)
\* A step that changes no message, no value and no count keeps what is said
\* about them.
LEMMA Unmoved ==
  ASSUME StepsInv, TypeInv', StepInv',
         UNCHANGED <<ITime, vals, frames, in60, out61>>,
         \A p \in Phys : pc[p] \in Stopped => pc'[p] \in Stopped,
         \A p \in Phys : \A i \in Index(p) :
           /\ SentNo(p, i)' = SentNo(p, i) /\ TakenNo(p, i)' = TakenNo(p, i),
         \A s \in Sims :
           /\ sim'[s].got = sim[s].got /\ sim'[s].ITime = sim[s].ITime
           /\ sim'[s].in = sim[s].in /\ DoneNo(s)' = DoneNo(s)
  PROVE  StepsInv'
<1>1. \A p \in Phys : \A i \in Index(p) :
        /\ GotNo(p, SimProc[p][i])' = GotNo(p, SimProc[p][i])
        /\ DoneNo(SimProc[p][i])' = DoneNo(SimProc[p][i])
  BY Lists DEF GotNo
<1>2. InMail'
  <2> SUFFICES ASSUME NEW p \in Phys, NEW i \in Index(p)
               PROVE  LET q == in60[p][SimProc[p][i]]
                          r == GotNo(p, SimProc[p][i])
                      IN  Len(q) = SentNo(p, i) - r /\ \A n \in 1 .. Len(q) : q[n] = r + n
    BY <1>1 DEF InMail, Index
  <2> QED BY DEF StepsInv, InMail
<1>3. OutMail'
  <2> SUFFICES ASSUME NEW p \in Phys, NEW i \in Index(p)
               PROVE  LET q == out61[p][SimProc[p][i]]
                          r == TakenNo(p, i)
                      IN  /\ Len(q) = DoneNo(SimProc[p][i]) - r
                          /\ \A n \in 1 .. Len(q) : q[n].ITime = r + n
    BY <1>1 DEF OutMail, Index
  <2> QED BY DEF StepsInv, OutMail
<1>4. ValsInv'
  BY DEF StepsInv, ValsInv, Index
<1>5. FramesInv'
  BY DEF StepsInv, FramesInv
<1>6. OutputsOfTheStep'
  BY DEF StepsInv, OutputsOfTheStep
<1>7. InputsOfTheStep'
  BY DEF StepsInv, InputsOfTheStep, SimStates, TypeInv
<1> QED BY <1>2, <1>3, <1>4, <1>5, <1>6, <1>7 DEF StepsInv

\* Places before the first step, and after the last, are alike.
LEMMA QuietKept ==
  ASSUME StepsInv,
         UNCHANGED <<ITime, proc, vals, frames, sim, in60, out61>>,
         pc' \in [Phys -> Places],
         \A p \in Phys :
           \/ pc'[p] = pc[p]
           \/ pc[p] \in Stopped /\ pc'[p] \in Stopped
           \/ pc[p] \notin Stepping \cup Stopped /\ pc'[p] \notin Stepping \cup Stopped
  PROVE  StepsInv'
<1>1. TypeInv'
  BY DEF StepsInv, TypeInv, Index, Served, SimStates, PhysOf
<1>2. StepInv'
  BY DEF StepsInv, StepInv, Stopped, Stepping
<1>3. \A p \in Phys : \A i \in Index(p) :
        /\ SentNo(p, i)' = SentNo(p, i) /\ TakenNo(p, i)' = TakenNo(p, i)
  BY DEF SentNo, TakenNo, Stopped, Stepping
<1>4. \A s \in Sims : DoneNo(s)' = DoneNo(s)
  BY DEF DoneNo
<1>5. \A p \in Phys : pc[p] \in Stopped => pc'[p] \in Stopped
  OBVIOUS
<1> QED BY <1>1, <1>2, <1>3, <1>4, <1>5, Unmoved

\* The place of a computing process changes, but not from before its last
\* outputs to after them.
LEMMA SimQuietKept ==
  ASSUME StepsInv, NEW s \in Sims, SimBarrier(s) \/ SimExit(s)
  PROVE  StepsInv'
<1>1. /\ UNCHANGED <<pc, ITime, proc, vals, frames, in60, out61>>
  BY DEF SimBarrier, SimExit, loop, msgs
<1>2. \/ sim' = sim
      \/ sim[s].pc = "barrier" /\ sim' = [sim EXCEPT ![s].pc = "recv"]
      \/ sim[s].pc = "world" /\ sim' = [sim EXCEPT ![s].pc = "exit"]
  BY DEF SimBarrier, SimExit
<1>3. /\ DOMAIN sim' = Sims
      /\ \A t \in Sims :
           /\ sim'[t] \in SimStates(t)
           /\ sim'[t].got = sim[t].got /\ sim'[t].ITime = sim[t].ITime
           /\ sim'[t].in = sim[t].in /\ DoneNo(t)' = DoneNo(t)
  <2>1. DOMAIN sim' = Sims /\ \A t \in Sims \ {s} : sim'[t] = sim[t]
    BY <1>2 DEF StepsInv, TypeInv
  <2>2. sim[s] \in SimStates(s)
    BY DEF StepsInv, TypeInv
  <2>3. \/ sim'[s] = sim[s]
        \/ sim[s].pc = "barrier" /\ sim'[s] = [sim[s] EXCEPT !.pc = "recv"]
        \/ sim[s].pc = "world" /\ sim'[s] = [sim[s] EXCEPT !.pc = "exit"]
    BY <1>2 DEF StepsInv, TypeInv
  <2>4. /\ sim'[s] \in SimStates(s)
        /\ sim'[s].got = sim[s].got /\ sim'[s].ITime = sim[s].ITime
        /\ sim'[s].in = sim[s].in
    BY <2>2, <2>3 DEF SimStates
  <2>5. DoneNo(s)' = DoneNo(s)
    BY <2>2, <2>3 DEF SimStates, DoneNo
  <2>6. \A t \in Sims \ {s} : DoneNo(t)' = DoneNo(t)
    BY <2>1 DEF DoneNo
  <2> QED BY <2>1, <2>4, <2>5, <2>6 DEF StepsInv, TypeInv
<1>4. TypeInv' /\ StepInv'
  BY <1>1, <1>3 DEF StepsInv, TypeInv, StepInv, Index
<1>5. \A p \in Phys : \A i \in Index(p) :
        /\ SentNo(p, i)' = SentNo(p, i) /\ TakenNo(p, i)' = TakenNo(p, i)
  BY <1>1 DEF SentNo, TakenNo
<1> QED BY <1>1, <1>3, <1>4, <1>5, Unmoved

\* A step begins, or the loop is over.
LEMMA SampleKept ==
  ASSUME StepsInv, NEW p \in Phys, Sample(p)
  PROVE  StepsInv'
<1>1. /\ UNCHANGED <<ITime, vals, frames, sim, in60, out61>> /\ pc[p] = "step"
      /\ pc' = [pc EXCEPT ![p] = IF ITime[p] <= NSteps THEN "send" ELSE "stop"]
      /\ proc' = [proc EXCEPT ![p] = 1]
  BY DEF Sample, msgs
<1>2. TypeInv'
  <2>1. pc' \in [Phys -> Places] /\ proc' \in [Phys -> Nat]
    BY <1>1 DEF StepsInv, TypeInv, Places, Stepping, Stopped
  <2>2. \A q \in Phys : proc'[q] \in Index(q)
    BY <1>1, Lists DEF StepsInv, TypeInv, Index
  <2> QED BY <1>1, <2>1, <2>2 DEF StepsInv, TypeInv
<1>3. StepInv'
  BY <1>1 DEF StepsInv, TypeInv, StepInv, Stepping
<1>4. \A q \in Phys : \A i \in Index(q) :
        /\ SentNo(q, i)' = SentNo(q, i) /\ TakenNo(q, i)' = TakenNo(q, i)
  <2>1. \A q \in Phys \ {p} : pc'[q] = pc[q] /\ proc'[q] = proc[q]
    BY <1>1 DEF StepsInv, TypeInv
  <2>2. \A i \in Index(p) : ~(i < proc'[p])
    BY <1>1 DEF StepsInv, TypeInv, Index
  <2>3. pc'[p] = IF ITime[p] <= NSteps THEN "send" ELSE "stop"
    BY <1>1 DEF StepsInv, TypeInv
  <2> QED BY <1>1, <2>1, <2>2, <2>3 DEF SentNo, TakenNo, Stopped
<1>5. \A q \in Phys : pc[q] \in Stopped => pc'[q] \in Stopped
  BY <1>1 DEF StepsInv, TypeInv, Stopped
<1>6. \A s \in Sims : DoneNo(s)' = DoneNo(s)
  BY <1>1 DEF DoneNo
<1> QED BY <1>1, <1>2, <1>3, <1>4, <1>5, <1>6, Unmoved

\* A message that is taken, and one that is sent.
LEMMA TailFacts ==
  ASSUME NEW S, NEW q \in Seq(S), q # <<>>
  PROVE  /\ Tail(q) \in Seq(S) /\ Head(q) = q[1] /\ Head(q) \in S
         /\ Len(q) \in Nat \ {0} /\ Len(Tail(q)) = Len(q) - 1
         /\ \A n \in 1 .. Len(q) - 1 : Tail(q)[n] = q[n + 1]
OBVIOUS

\* The new message comes last.
LEMMA AppendFacts ==
  ASSUME NEW S, NEW q \in Seq(S), NEW e \in S
  PROVE  /\ Append(q, e) \in Seq(S) /\ Len(q) \in Nat
         /\ Len(Append(q, e)) = Len(q) + 1
         /\ \A n \in 1 .. Len(q) : Append(q, e)[n] = q[n]
         /\ Append(q, e)[Len(q) + 1] = e
OBVIOUS

\* The loops over SimProc: the next place, or the first of the next loop.
LEMMA NextProcFacts ==
  ASSUME TypeInv, NEW p \in Phys, NEW here \in Stepping, NEW there \in Stepping,
         NextProc(p, here, there)
  PROVE  /\ pc' \in [Phys -> Places] /\ proc' \in [Phys -> Nat]
         /\ \A q \in Phys : proc'[q] \in Index(q)
         /\ \A q \in Phys \ {p} : pc'[q] = pc[q] /\ proc'[q] = proc[q]
         /\ \/ /\ proc[p] = Len(SimProc[p]) /\ pc'[p] = there /\ proc'[p] = 1
            \/ /\ proc[p] < Len(SimProc[p]) /\ pc'[p] = here /\ proc'[p] = proc[p] + 1
<1>1. proc[p] \in Index(p) /\ Len(SimProc[p]) \in Nat \ {0} /\ proc \in [Phys -> Nat]
  BY Lists DEF TypeInv
<1>2. /\ proc' = [proc EXCEPT ![p] = IF proc[p] = Len(SimProc[p]) THEN 1 ELSE proc[p] + 1]
      /\ pc' = [pc EXCEPT ![p] = IF proc[p] = Len(SimProc[p]) THEN there ELSE here]
  BY <1>1 DEF NextProc
<1>3. pc' \in [Phys -> Places] /\ \A q \in Phys \ {p} : pc'[q] = pc[q]
  BY <1>2 DEF TypeInv, Places
<1>4. proc' \in [Phys -> Nat] /\ \A q \in Phys \ {p} : proc'[q] = proc[q]
  BY <1>1, <1>2
<1>5. \/ /\ proc[p] = Len(SimProc[p]) /\ pc'[p] = there /\ proc'[p] = 1
      \/ /\ proc[p] < Len(SimProc[p]) /\ pc'[p] = here /\ proc'[p] = proc[p] + 1
  BY <1>1, <1>2 DEF TypeInv, Index
<1>6. proc'[p] \in Index(p)
  BY <1>1, <1>5 DEF Index
<1>7. \A q \in Phys : proc'[q] \in Index(q)
  BY <1>4, <1>6 DEF TypeInv
<1> QED BY <1>3, <1>4, <1>5, <1>7

\* Sending the inputs of the step to one computing process.
LEMMA SendKept ==
  ASSUME StepsInv, NEW p \in Phys, SendInputs(p)
  PROVE  StepsInv'
<1>0. PICK j \in Index(p) : j = proc[p]
  BY DEF StepsInv, TypeInv
<1> DEFINE s == SimProc[p][j]
<1>1. /\ UNCHANGED <<ITime, vals, frames, sim, out61>> /\ pc[p] = "send"
      /\ in60' = [in60 EXCEPT ![p][s] = Append(@, ITime[p])]
      /\ NextProc(p, "send", "recv")
  BY <1>0 DEF SendInputs
<1>2. /\ TypeInv /\ StepInv /\ InMail /\ OutMail /\ ValsInv /\ FramesInv
      /\ OutputsOfTheStep /\ InputsOfTheStep
  BY DEF StepsInv
<1>3. /\ pc' \in [Phys -> Places] /\ proc' \in [Phys -> Nat]
      /\ \A q \in Phys : proc'[q] \in Index(q)
      /\ \A q \in Phys \ {p} : pc'[q] = pc[q] /\ proc'[q] = proc[q]
      /\ \/ /\ j = Len(SimProc[p]) /\ pc'[p] = "recv" /\ proc'[p] = 1
         \/ /\ j < Len(SimProc[p]) /\ pc'[p] = "send" /\ proc'[p] = j + 1
  BY <1>0, <1>1, <1>2, NextProcFacts DEF Stepping
<1>4. /\ j \in Index(p) /\ s \in Served(p) /\ in60[p][s] \in Seq(Nat)
      /\ ITime[p] \in Nat \ {0} /\ Len(SimProc[p]) \in Nat
  BY <1>2, Lists DEF TypeInv
<1>5. /\ DOMAIN in60' = Phys
      /\ \A q \in Phys \ {p} : in60'[q] = in60[q]
      /\ in60'[p] = [in60[p] EXCEPT ![s] = Append(@, ITime[p])]
  BY <1>1, <1>2 DEF TypeInv
<1>6. /\ in60'[p] \in [Served(p) -> Seq(Nat)]
      /\ in60'[p][s] = Append(in60[p][s], ITime[p])
      /\ \A t \in Served(p) \ {s} : in60'[p][t] = in60[p][t]
  BY <1>2, <1>4, <1>5 DEF TypeInv
<1> HIDE DEF s
<1>7. TypeInv'
  BY <1>1, <1>2, <1>3, <1>5, <1>6 DEF TypeInv
<1>8. StepInv'
  BY <1>1, <1>2, <1>3 DEF StepInv, Stepping
<1>9. \A q \in Phys : \A i \in Index(q) :
        /\ TakenNo(q, i)' = TakenNo(q, i)
        /\ q # p \/ i # j => SentNo(q, i)' = SentNo(q, i)
  <2>1. ASSUME NEW q \in Phys \ {p}, NEW i \in Index(q)
        PROVE  TakenNo(q, i)' = TakenNo(q, i) /\ SentNo(q, i)' = SentNo(q, i)
    BY <1>1, <1>3 DEF TakenNo, SentNo
  <2>2. ASSUME NEW i \in Index(p) PROVE TakenNo(p, i)' = TakenNo(p, i)
    <3>1. ~(pc'[p] = "recv" /\ i < proc'[p])
      BY <1>3 DEF Index
    <3> QED BY <3>1, <1>1, <1>3 DEF TakenNo, Stopped
  <2>3. ASSUME NEW i \in Index(p), i # j PROVE SentNo(p, i)' = SentNo(p, i)
    <3>1. SentNo(p, i) = IF i < j THEN ITime[p] ELSE ITime[p] - 1
      BY <1>0, <1>1 DEF SentNo, Stopped
    <3>2. SentNo(p, i)' = IF i < j THEN ITime[p] ELSE ITime[p] - 1
      BY <2>3, <1>1, <1>3, <1>4 DEF SentNo, Stopped, Index
    <3> QED BY <3>1, <3>2
  <2> QED BY <2>1, <2>2, <2>3
<1>10. SentNo(p, j) = ITime[p] - 1 /\ SentNo(p, j)' = ITime[p]
  BY <1>0, <1>1, <1>3, <1>4 DEF SentNo, Stopped, Index
<1>11. \A q \in Phys : \A i \in Index(q) :
         /\ GotNo(q, SimProc[q][i])' = GotNo(q, SimProc[q][i])
         /\ DoneNo(SimProc[q][i])' = DoneNo(SimProc[q][i])
  BY <1>1 DEF GotNo, DoneNo
<1>12. InMail'
  <2> SUFFICES ASSUME NEW q \in Phys, NEW i \in Index(q)
               PROVE  LET m == in60'[q][SimProc[q][i]]
                          r == GotNo(q, SimProc[q][i])
                      IN  Len(m) = SentNo(q, i)' - r /\ \A n \in 1 .. Len(m) : m[n] = r + n
    BY <1>11 DEF InMail, Index
  <2>1. CASE q # p \/ i # j
    <3>1. in60'[q][SimProc[q][i]] = in60[q][SimProc[q][i]]
      <4>1. CASE q # p
        BY <4>1, <1>5, <1>6
      <4>2. CASE q = p /\ i # j
        <5>1. SimProc[p][i] # s
          BY <4>2, <1>4, Lists DEF s
        <5> HIDE DEF s
        <5> QED BY <4>2, <5>1, <1>5, <1>6
      <4> QED BY <2>1, <4>1, <4>2
    <3> QED BY <3>1, <2>1, <1>2, <1>9 DEF InMail
  <2>2. CASE q = p /\ i = j
    <3> DEFINE m == in60[p][s]
               r == GotNo(p, s)
    <3>1. Len(m) = ITime[p] - 1 - r /\ \A n \in 1 .. Len(m) : m[n] = r + n
      BY <1>2, <1>4, <1>10 DEF InMail, s
    <3>2. r \in Int
      BY SMTT(30), <1>2, <1>4, Lists DEF TypeInv, SimStates, GotNo, s
    <3>3. /\ Len(m) \in Nat /\ Len(Append(m, ITime[p])) = Len(m) + 1
          /\ \A n \in 1 .. Len(m) : Append(m, ITime[p])[n] = m[n]
          /\ Append(m, ITime[p])[Len(m) + 1] = ITime[p]
      BY <1>4, AppendFacts
    <3> HIDE DEF m, r
    <3>4. \A n \in 1 .. Len(m) + 1 : Append(m, ITime[p])[n] = r + n
      <4> TAKE n \in 1 .. Len(m) + 1
      <4>1. CASE n \in 1 .. Len(m)
        BY <4>1, <3>1, <3>3
      <4>2. CASE n = Len(m) + 1
        BY <4>2, <3>1, <3>2, <3>3, <1>4
      <4> QED BY <4>1, <4>2, <3>3
    <3>5. Len(m) + 1 = ITime[p] - r
      BY <3>1, <3>2, <1>4
    <3> QED BY <2>2, <3>3, <3>4, <3>5, <1>6, <1>10 DEF m, r, s
  <2> QED BY <2>1, <2>2
<1>13. OutMail' /\ ValsInv'
  BY <1>1, <1>2, <1>9, <1>11, Lists DEF OutMail, ValsInv, Index
<1>14. FramesInv' /\ OutputsOfTheStep' /\ InputsOfTheStep'
  BY <1>1, <1>2, <1>3 DEF FramesInv, OutputsOfTheStep, InputsOfTheStep, Stopped
<1> QED BY <1>7, <1>8, <1>12, <1>13, <1>14 DEF StepsInv

\* Receiving the outputs of the step from one computing process.
LEMMA RecvKept ==
  ASSUME StepsInv, NEW p \in Phys, RecvOutputs(p)
  PROVE  StepsInv'
<1>0. PICK j \in Index(p) : j = proc[p]
  BY DEF StepsInv, TypeInv
<1> DEFINE s == SimProc[p][j]
           e == Head(out61[p][s])
<1>1. /\ UNCHANGED <<ITime, frames, sim, in60>> /\ pc[p] = "recv"
      /\ out61[p][s] # <<>>
      /\ out61' = [out61 EXCEPT ![p][s] = Tail(@)]
      /\ vals' = [vals EXCEPT ![p][s] = e.ITime]
      /\ NextProc(p, "recv", "out")
  BY <1>0 DEF RecvOutputs
<1>2. /\ TypeInv /\ StepInv /\ InMail /\ OutMail /\ ValsInv /\ FramesInv
      /\ OutputsOfTheStep /\ InputsOfTheStep
  BY DEF StepsInv
<1>3. /\ pc' \in [Phys -> Places] /\ proc' \in [Phys -> Nat]
      /\ \A q \in Phys : proc'[q] \in Index(q)
      /\ \A q \in Phys \ {p} : pc'[q] = pc[q] /\ proc'[q] = proc[q]
      /\ \/ /\ j = Len(SimProc[p]) /\ pc'[p] = "out" /\ proc'[p] = 1
         \/ /\ j < Len(SimProc[p]) /\ pc'[p] = "recv" /\ proc'[p] = j + 1
  BY <1>0, <1>1, <1>2, NextProcFacts DEF Stepping
<1>4. /\ s \in Served(p) /\ out61[p][s] \in Seq([ITime : Nat, stop : BOOLEAN])
      /\ ITime[p] \in Nat \ {0} /\ Len(SimProc[p]) \in Nat
  BY <1>2, Lists DEF TypeInv
<1>5. /\ Tail(out61[p][s]) \in Seq([ITime : Nat, stop : BOOLEAN])
      /\ e = out61[p][s][1] /\ e \in [ITime : Nat, stop : BOOLEAN]
      /\ Len(out61[p][s]) \in Nat \ {0} /\ Len(Tail(out61[p][s])) = Len(out61[p][s]) - 1
      /\ \A n \in 1 .. Len(out61[p][s]) - 1 : Tail(out61[p][s])[n] = out61[p][s][n + 1]
  BY <1>1, <1>4, TailFacts
<1>6. /\ DOMAIN out61' = Phys /\ DOMAIN vals' = Phys
      /\ \A q \in Phys \ {p} : out61'[q] = out61[q] /\ vals'[q] = vals[q]
      /\ out61'[p] = [out61[p] EXCEPT ![s] = Tail(@)]
      /\ vals'[p] = [vals[p] EXCEPT ![s] = e.ITime]
  BY <1>1, <1>2 DEF TypeInv
<1>7. /\ out61'[p] \in [Served(p) -> Seq([ITime : Nat, stop : BOOLEAN])]
      /\ out61'[p][s] = Tail(out61[p][s])
      /\ \A t \in Served(p) \ {s} : out61'[p][t] = out61[p][t]
  BY <1>2, <1>4, <1>5, <1>6 DEF TypeInv
<1>8. /\ vals'[p] \in [Served(p) -> Nat] /\ vals'[p][s] = e.ITime
      /\ \A t \in Served(p) \ {s} : vals'[p][t] = vals[p][t]
  BY SMTT(30), <1>2, <1>4, <1>5, <1>6 DEF TypeInv
<1> HIDE DEF s, e
<1>9. TypeInv'
  BY <1>1, <1>2, <1>3, <1>6, <1>7, <1>8 DEF TypeInv
<1>10. StepInv'
  BY <1>1, <1>2, <1>3 DEF StepInv, Stepping
<1>11. \A q \in Phys : \A i \in Index(q) :
        /\ SentNo(q, i)' = SentNo(q, i)
        /\ q # p \/ i # j => TakenNo(q, i)' = TakenNo(q, i)
  <2>1. ASSUME NEW q \in Phys \ {p}, NEW i \in Index(q)
        PROVE  TakenNo(q, i)' = TakenNo(q, i) /\ SentNo(q, i)' = SentNo(q, i)
    BY <1>1, <1>3 DEF TakenNo, SentNo
  <2>2. ASSUME NEW i \in Index(p) PROVE SentNo(p, i)' = SentNo(p, i)
    BY <1>1, <1>3 DEF SentNo
  <2>3. ASSUME NEW i \in Index(p), i # j PROVE TakenNo(p, i)' = TakenNo(p, i)
    <3>1. TakenNo(p, i) = IF i < j THEN ITime[p] ELSE ITime[p] - 1
      BY <1>0, <1>1 DEF TakenNo, Stopped
    <3>2. TakenNo(p, i)' = IF i < j THEN ITime[p] ELSE ITime[p] - 1
      BY <2>3, <1>1, <1>3, <1>4 DEF TakenNo, Stopped, Index
    <3> QED BY <3>1, <3>2
  <2> QED BY <2>1, <2>2, <2>3
<1>12. TakenNo(p, j) = ITime[p] - 1 /\ TakenNo(p, j)' = ITime[p]
  BY <1>0, <1>1, <1>3, <1>4 DEF TakenNo, Stopped, Index
<1>13. \A q \in Phys : \A i \in Index(q) :
         /\ GotNo(q, SimProc[q][i])' = GotNo(q, SimProc[q][i])
         /\ DoneNo(SimProc[q][i])' = DoneNo(SimProc[q][i])
  BY <1>1 DEF GotNo, DoneNo
<1>14. /\ Len(out61[p][s]) = DoneNo(s) - (ITime[p] - 1)
       /\ \A n \in 1 .. Len(out61[p][s]) : out61[p][s][n].ITime = ITime[p] - 1 + n
  BY <1>2, <1>12 DEF OutMail, s
<1>15. e.ITime = ITime[p]
  <2>1. 1 \in 1 .. Len(out61[p][s])
    BY <1>5
  <2>2. out61[p][s][1].ITime = ITime[p] - 1 + 1
    BY <2>1, <1>14
  <2>3. ITime[p] \in Nat
    BY <1>4
  <2> QED BY <2>2, <2>3, <1>5
<1>16. OutMail'
  <2> SUFFICES ASSUME NEW q \in Phys, NEW i \in Index(q)
               PROVE  LET m == out61'[q][SimProc[q][i]]
                          r == TakenNo(q, i)'
                      IN  /\ Len(m) = DoneNo(SimProc[q][i]) - r
                          /\ \A n \in 1 .. Len(m) : m[n].ITime = r + n
    BY <1>13 DEF OutMail, Index
  <2>1. CASE q # p \/ i # j
    <3>1. out61'[q][SimProc[q][i]] = out61[q][SimProc[q][i]]
      BY <2>1, <1>4, <1>6, <1>7, Lists DEF s
    <3> QED BY <3>1, <2>1, <1>2, <1>11 DEF OutMail
  <2>2. CASE q = p /\ i = j
    <3> DEFINE m == out61[p][s]
    <3>1. DoneNo(s) \in Int
      BY <1>2, <1>4, Lists DEF TypeInv, SimStates, DoneNo, s
    <3>2. Len(Tail(m)) = DoneNo(s) - ITime[p]
      BY <3>1, <1>4, <1>5, <1>14
    <3>3. \A n \in 1 .. Len(Tail(m)) : Tail(m)[n].ITime = ITime[p] + n
      <4> TAKE n \in 1 .. Len(Tail(m))
      <4>1. n + 1 \in 1 .. Len(m) /\ Tail(m)[n] = m[n + 1] /\ n \in Nat
        BY <1>5
      <4>2. m[n + 1].ITime = ITime[p] - 1 + (n + 1)
        BY <4>1, <1>14
      <4>3. ITime[p] \in Nat
        BY <1>4
      <4> QED BY <4>1, <4>2, <4>3
    <3> QED BY <2>2, <3>2, <3>3, <1>7, <1>12 DEF s
  <2> QED BY <2>1, <2>2
<1>17. ValsInv'
  <2> SUFFICES ASSUME NEW q \in Phys, NEW i \in Index(q)
               PROVE  vals'[q][SimProc[q][i]] = TakenNo(q, i)'
    BY DEF ValsInv, Index
  <2>1. CASE q # p \/ i # j
    <3>1. vals'[q][SimProc[q][i]] = vals[q][SimProc[q][i]]
      BY <2>1, <1>4, <1>6, <1>8, Lists DEF s
    <3> QED BY <3>1, <2>1, <1>2, <1>11 DEF ValsInv
  <2>2. CASE q = p /\ i = j
    BY <2>2, <1>8, <1>12, <1>15 DEF s
  <2> QED BY <2>1, <2>2
<1>18. InMail'
  BY <1>1, <1>2, <1>11, <1>13 DEF InMail, Index
<1>19. FramesInv' /\ OutputsOfTheStep' /\ InputsOfTheStep'
  BY <1>1, <1>2, <1>3 DEF FramesInv, OutputsOfTheStep, InputsOfTheStep, Stopped
<1> QED BY <1>9, <1>10, <1>16, <1>17, <1>18, <1>19 DEF StepsInv

\* The frames of the step, and the next step or the end.
LEMMA EndStepKept ==
  ASSUME StepsInv, NEW p \in Phys, EndStep(p)
  PROVE  StepsInv'
<1>0. PICK k \in Nat \ {0} : k = ITime[p]
  BY DEF StepsInv, TypeInv
<1> DEFINE frame == [ITime |-> k, vals |-> vals[p]]
<1>1. /\ UNCHANGED <<proc, vals, sim, in60, out61>> /\ pc[p] = "out"
      /\ frames' = [frames EXCEPT ![p] = IF k >= StartStep THEN Append(@, frame) ELSE @]
      /\ \/ pc' = [pc EXCEPT ![p] = "stop"] /\ ITime' = ITime
         \/ pc' = [pc EXCEPT ![p] = "step"] /\ ITime' = [ITime EXCEPT ![p] = k + 1]
  BY <1>0 DEF EndStep, SenddataToPID, msgs
<1>2. /\ TypeInv /\ StepInv /\ InMail /\ OutMail /\ ValsInv /\ FramesInv
      /\ OutputsOfTheStep /\ InputsOfTheStep
  BY DEF StepsInv
<1>3. /\ k <= NSteps /\ NSteps \in Nat /\ StartStep \in Nat \ {0}
      /\ frames[p] \in Seq([ITime : Nat, vals : Outputs])
      /\ vals[p] \in [Served(p) -> Nat] /\ frame \in [ITime : Nat, vals : Outputs]
  <2>1. k <= NSteps /\ NSteps \in Nat /\ StartStep \in Nat \ {0}
    BY <1>0, <1>1, <1>2, Lists DEF StepInv, Stepping
  <2>2. frames[p] \in Seq([ITime : Nat, vals : Outputs]) /\ vals[p] \in [Served(p) -> Nat]
    BY <1>2 DEF TypeInv
  <2>3. vals[p] \in Outputs
    BY <2>2 DEF Outputs
  <2> QED BY <2>1, <2>2, <2>3
<1>4. \A q \in Phys \ {p} : frames'[q] = frames[q] /\ pc'[q] = pc[q] /\ ITime'[q] = ITime[q]
  BY <1>1, <1>2 DEF TypeInv
<1>5. \/ pc'[p] = "stop" /\ ITime'[p] = k
      \/ pc'[p] = "step" /\ ITime'[p] = k + 1
  BY <1>0, <1>1, <1>2 DEF TypeInv
<1>6. frames'[p] = IF k >= StartStep THEN Append(frames[p], frame) ELSE frames[p]
  BY <1>1, <1>2 DEF TypeInv
<1>7. /\ Append(frames[p], frame) \in Seq([ITime : Nat, vals : Outputs])
      /\ Len(frames[p]) \in Nat /\ Len(Append(frames[p], frame)) = Len(frames[p]) + 1
      /\ \A n \in 1 .. Len(frames[p]) : Append(frames[p], frame)[n] = frames[p][n]
      /\ Append(frames[p], frame)[Len(frames[p]) + 1] = frame
  BY <1>3, AppendFacts
<1>8. Len(frames[p]) = IF k > StartStep THEN k - StartStep ELSE 0
  BY <1>0, <1>1, <1>2 DEF FramesInv, Stopped
<1>9. frame.ITime = k /\ \A t \in Served(p) : frame.vals[t] = k
  <2>1. \A i \in Index(p) : vals[p][SimProc[p][i]] = k
    BY <1>0, <1>1, <1>2 DEF ValsInv, TakenNo
  <2> QED BY <2>1, Lists
<1> HIDE DEF frame
<1>10. TypeInv'
  <2>1. pc' \in [Phys -> Places] /\ ITime' \in [Phys -> Nat \ {0}]
    <3>1. "stop" \in Places /\ "step" \in Places /\ k + 1 \in Nat \ {0}
      BY DEF Places, Stopped
    <3> QED BY ZenonT(30), <3>1, <1>1, <1>2 DEF TypeInv
  <2>2. frames' \in [Phys -> Seq([ITime : Nat, vals : Outputs])]
    BY <1>1, <1>2, <1>7 DEF TypeInv
  <2> QED BY <2>1, <2>2, <1>1, <1>2 DEF TypeInv
<1>11. StepInv'
  BY <1>2, <1>4, <1>5 DEF StepInv, Stepping
<1>12. \A q \in Phys : \A i \in Index(q) :
         /\ SentNo(q, i)' = SentNo(q, i) /\ TakenNo(q, i)' = TakenNo(q, i)
         /\ GotNo(q, SimProc[q][i])' = GotNo(q, SimProc[q][i])
         /\ DoneNo(SimProc[q][i])' = DoneNo(SimProc[q][i])
  <2>1. \A i \in Index(p) :
          /\ SentNo(p, i)' = k /\ SentNo(p, i) = k
          /\ TakenNo(p, i)' = k /\ TakenNo(p, i) = k
    <3>1. k + 1 - 1 = k
      OBVIOUS
    <3> QED BY <3>1, <1>0, <1>1, <1>3, <1>5 DEF SentNo, TakenNo, Stopped
  <2>2. \A q \in Phys \ {p} : \A i \in Index(q) :
          SentNo(q, i)' = SentNo(q, i) /\ TakenNo(q, i)' = TakenNo(q, i)
    BY <1>1, <1>4 DEF SentNo, TakenNo
  <2> QED BY <2>1, <2>2, <1>1 DEF GotNo, DoneNo
<1>13. InMail' /\ OutMail' /\ ValsInv'
  BY <1>1, <1>2, <1>12 DEF InMail, OutMail, ValsInv, Index
<1>14. FramesInv'
  <2>1. pc'[p] = "step" => Len(frames'[p]) = IF k + 1 > StartStep THEN k + 1 - StartStep ELSE 0
    <3>1. CASE k >= StartStep
      BY SMTT(30), <3>1, <1>3, <1>6, <1>7, <1>8
    <3>2. CASE ~(k >= StartStep)
      BY <3>2, <1>3, <1>6, <1>8
    <3> QED BY <3>1, <3>2
  <2>2. \A q \in Phys \ {p} : pc'[q] \notin Stopped =>
          Len(frames'[q]) = IF ITime'[q] > StartStep THEN ITime'[q] - StartStep ELSE 0
    BY <1>2, <1>4 DEF FramesInv
  <2>3. pc'[p] \notin Stopped =>
          Len(frames'[p]) = IF ITime'[p] > StartStep THEN ITime'[p] - StartStep ELSE 0
    <3>1. CASE pc'[p] = "stop"
      BY <3>1 DEF Stopped
    <3>2. CASE pc'[p] = "step" /\ ITime'[p] = k + 1
      BY <3>2, <2>1, <1>0, <1>3
    <3> QED BY <3>1, <3>2, <1>5
  <2> QED BY <2>2, <2>3 DEF FramesInv
<1>15. OutputsOfTheStep'
  <2> SUFFICES ASSUME NEW q \in Phys, NEW n \in DOMAIN frames'[q]
               PROVE  /\ frames'[q][n].ITime = StartStep + n - 1
                      /\ \A t \in Served(q) : frames'[q][n].vals[t] = frames'[q][n].ITime
    BY DEF OutputsOfTheStep, Served
  <2>1. CASE q # p \/ frames'[p] = frames[p]
    BY <2>1, <1>2, <1>4 DEF OutputsOfTheStep
  <2>2. CASE q = p /\ frames'[p] = Append(frames[p], frame) /\ k >= StartStep
    <3>1. n \in 1 .. Len(frames[p]) + 1
      BY <2>2, <1>7
    <3>2. CASE n \in 1 .. Len(frames[p])
      BY SMTT(30), <3>2, <2>2, <1>2, <1>3, <1>7 DEF OutputsOfTheStep
    <3>3. CASE n = Len(frames[p]) + 1
      <4>1. n = k - StartStep + 1
        BY <3>3, <2>2, <1>3, <1>8
      <4> QED BY SMTT(30), <4>1, <3>3, <2>2, <1>3, <1>7, <1>9
    <3> QED BY <3>1, <3>2, <3>3, <1>7
  <2> QED BY <2>1, <2>2, <1>6
<1>16. InputsOfTheStep'
  BY <1>1, <1>2 DEF InputsOfTheStep
<1> QED BY <1>10, <1>11, <1>13, <1>14, <1>15, <1>16 DEF StepsInv

\* A computing process receives the inputs of the step.
LEMMA SimRecvKept ==
  ASSUME StepsInv, NEW s \in Sims, SimRecv(s)
  PROVE  StepsInv'
<1>1. PICK p \in PhysOf(s) \ sim[s].got :
        /\ UNCHANGED <<pc, ITime, proc, vals, frames, out61>>
        /\ in60[p][s] # <<>>
        /\ sim' = [sim EXCEPT ![s].got = @ \cup {p}, ![s].in[p] = Head(in60[p][s])]
        /\ in60' = [in60 EXCEPT ![p][s] = Tail(@)]
  BY DEF SimRecv, loop
<1>2. /\ TypeInv /\ StepInv /\ InMail /\ OutMail /\ ValsInv /\ FramesInv
      /\ OutputsOfTheStep /\ InputsOfTheStep
  BY DEF StepsInv
<1>3. PICK j \in Index(p) : s = SimProc[p][j]
  BY Lists
<1>4. /\ p \in Phys /\ s \in Served(p) /\ in60[p][s] \in Seq(Nat)
      /\ sim[s] \in SimStates(s)
  BY <1>2, <1>3, Lists DEF TypeInv
<1>5. /\ Tail(in60[p][s]) \in Seq(Nat)
      /\ Head(in60[p][s]) = in60[p][s][1] /\ Head(in60[p][s]) \in Nat
      /\ Len(in60[p][s]) \in Nat \ {0} /\ Len(Tail(in60[p][s])) = Len(in60[p][s]) - 1
      /\ \A n \in 1 .. Len(in60[p][s]) - 1 : Tail(in60[p][s])[n] = in60[p][s][n + 1]
  BY <1>1, <1>4, TailFacts
<1>6. /\ DOMAIN in60' = Phys /\ \A q \in Phys \ {p} : in60'[q] = in60[q]
      /\ in60'[p] = [in60[p] EXCEPT ![s] = Tail(@)]
  BY <1>1, <1>2, <1>4 DEF TypeInv
<1>7. /\ in60'[p] \in [Served(p) -> Seq(Nat)]
      /\ in60'[p][s] = Tail(in60[p][s])
      /\ \A t \in Served(p) \ {s} : in60'[p][t] = in60[p][t]
  BY <1>2, <1>4, <1>5, <1>6 DEF TypeInv
<1> DEFINE e == Head(in60[p][s])
           new == [sim[s] EXCEPT !.got = @ \cup {p}, !.in[p] = e]
<1>8. DOMAIN sim' = Sims /\ sim'[s] = new /\ \A t \in Sims \ {s} : sim'[t] = sim[t]
  BY <1>1, <1>2 DEF TypeInv
<1>9. /\ new \in SimStates(s) /\ new.pc = sim[s].pc /\ new.ITime = sim[s].ITime
      /\ new.got = sim[s].got \cup {p} /\ new.in[p] = e
      /\ \A q \in PhysOf(s) \ {p} : new.in[q] = sim[s].in[q]
      /\ sim[s].ITime \in Nat \ {0} /\ sim[s].got \subseteq PhysOf(s)
  BY <1>4, <1>5 DEF SimStates
<1> HIDE DEF e, new
<1>10. TypeInv'
  BY <1>1, <1>2, <1>6, <1>7, <1>8, <1>9 DEF TypeInv
<1>11. StepInv'
  BY <1>1, <1>2 DEF StepInv
<1>12. \A q \in Phys : \A i \in Index(q) :
         /\ SentNo(q, i)' = SentNo(q, i) /\ TakenNo(q, i)' = TakenNo(q, i)
         /\ DoneNo(SimProc[q][i])' = DoneNo(SimProc[q][i])
         /\ q # p \/ i # j => GotNo(q, SimProc[q][i])' = GotNo(q, SimProc[q][i])
  <2>1. \A q \in Phys : \A i \in Index(q) :
          SentNo(q, i)' = SentNo(q, i) /\ TakenNo(q, i)' = TakenNo(q, i)
    BY <1>1 DEF SentNo, TakenNo
  <2>2. \A q \in Phys : \A i \in Index(q) : DoneNo(SimProc[q][i])' = DoneNo(SimProc[q][i])
    BY <1>8, <1>9, Lists DEF DoneNo
  <2>3. ASSUME NEW q \in Phys, NEW i \in Index(q), q # p \/ i # j
        PROVE  GotNo(q, SimProc[q][i])' = GotNo(q, SimProc[q][i])
    <3>1. SimProc[q][i] \in Sims /\ (SimProc[q][i] # s \/ q # p)
      BY <2>3, <1>3, <1>4, Lists
    <3> QED BY <3>1, <1>8, <1>9 DEF GotNo
  <2> QED BY <2>1, <2>2, <2>3
<1>13. GotNo(p, s) = sim[s].ITime - 1 /\ GotNo(p, SimProc[p][j])' = sim[s].ITime
  BY <1>3, <1>8, <1>9 DEF GotNo
<1>14. /\ Len(in60[p][s]) = SentNo(p, j) - (sim[s].ITime - 1)
       /\ \A n \in 1 .. Len(in60[p][s]) : in60[p][s][n] = sim[s].ITime - 1 + n
  BY <1>2, <1>3, <1>4, <1>13 DEF InMail
<1>15. e = sim[s].ITime
  <2>1. 1 \in 1 .. Len(in60[p][s])
    BY <1>5
  <2> QED BY <2>1, <1>5, <1>9, <1>14 DEF e
<1>16. InMail'
  <2> SUFFICES ASSUME NEW q \in Phys, NEW i \in Index(q)
               PROVE  LET m == in60'[q][SimProc[q][i]]
                          r == GotNo(q, SimProc[q][i])'
                      IN  Len(m) = SentNo(q, i) - r /\ \A n \in 1 .. Len(m) : m[n] = r + n
    BY <1>12 DEF InMail, Index
  <2>1. CASE q # p \/ i # j
    <3>1. in60'[q][SimProc[q][i]] = in60[q][SimProc[q][i]]
      BY <2>1, <1>3, <1>4, <1>6, <1>7, Lists
    <3> QED BY <3>1, <2>1, <1>2, <1>12 DEF InMail
  <2>2. CASE q = p /\ i = j
    <3> DEFINE m == in60[p][s]
    <3>1. SentNo(p, j) \in Int
      BY <1>2, <1>4 DEF TypeInv, SentNo
    <3>2. Len(Tail(m)) = SentNo(p, j) - sim[s].ITime
      BY <3>1, <1>5, <1>9, <1>14
    <3>3. \A n \in 1 .. Len(Tail(m)) : Tail(m)[n] = sim[s].ITime + n
      <4> TAKE n \in 1 .. Len(Tail(m))
      <4>1. n + 1 \in 1 .. Len(m) /\ Tail(m)[n] = m[n + 1] /\ n \in Nat
        BY <1>5
      <4>2. m[n + 1] = sim[s].ITime - 1 + (n + 1)
        BY <4>1, <1>14
      <4> QED BY <4>1, <4>2, <1>9
    <3> QED BY <2>2, <3>2, <3>3, <1>3, <1>7, <1>13
  <2> QED BY <2>1, <2>2
<1>17. OutMail' /\ ValsInv'
  BY <1>1, <1>2, <1>12 DEF OutMail, ValsInv, Index
<1>18. FramesInv' /\ OutputsOfTheStep'
  BY <1>1, <1>2 DEF FramesInv, OutputsOfTheStep
<1>19. InputsOfTheStep'
  <2>1. \A q \in sim'[s].got : sim'[s].in[q] = sim'[s].ITime
    BY <1>2, <1>8, <1>9, <1>15 DEF InputsOfTheStep
  <2>2. \A t \in Sims \ {s} : \A q \in sim'[t].got : sim'[t].in[q] = sim'[t].ITime
    BY <1>2, <1>8 DEF InputsOfTheStep
  <2> QED BY <2>1, <2>2 DEF InputsOfTheStep
<1> QED BY <1>10, <1>11, <1>16, <1>17, <1>18, <1>19 DEF StepsInv

\* A computing process sends the outputs of the step to all it is served by,
\* and goes on to the next or leaves.
LEMMA SimSendKept ==
  ASSUME StepsInv, NEW s \in Sims, SimSend(s)
  PROVE  StepsInv'
<1>0. PICK k \in Nat \ {0} : k = sim[s].ITime
  BY DEF StepsInv, TypeInv, SimStates
<1>1. PICK stop \in BOOLEAN :
        /\ UNCHANGED <<pc, ITime, proc, vals, frames, in60>>
        /\ sim[s].pc = "recv" /\ sim[s].got = PhysOf(s)
        /\ out61' = [p \in Phys |-> [t \in Served(p) |->
              IF t = s THEN Append(out61[p][t], [ITime |-> k, stop |-> stop]) ELSE out61[p][t]]]
        /\ \/ sim' = [sim EXCEPT ![s].pc = "world"]
           \/ sim' = [sim EXCEPT ![s].ITime = k + 1, ![s].got = {}]
  BY <1>0 DEF SimSend, loop
<1>2. /\ TypeInv /\ StepInv /\ InMail /\ OutMail /\ ValsInv /\ FramesInv
      /\ OutputsOfTheStep /\ InputsOfTheStep
  BY DEF StepsInv
<1> DEFINE e == [ITime |-> k, stop |-> stop]
<1>3. e \in [ITime : Nat, stop : BOOLEAN] /\ e.ITime = k
  OBVIOUS
<1>4. /\ DOMAIN out61' = Phys
      /\ \A p \in Phys : \A t \in Served(p) :
           out61'[p][t] = IF t = s THEN Append(out61[p][t], e) ELSE out61[p][t]
      /\ \A p \in Phys : out61'[p] =
           [t \in Served(p) |-> IF t = s THEN Append(out61[p][t], e) ELSE out61[p][t]]
  BY <1>1
<1> HIDE DEF e
<1>5. \A p \in Phys : \A t \in Served(p) :
        /\ out61[p][t] \in Seq([ITime : Nat, stop : BOOLEAN])
        /\ Append(out61[p][t], e) \in Seq([ITime : Nat, stop : BOOLEAN])
        /\ Len(out61[p][t]) \in Nat /\ Len(Append(out61[p][t], e)) = Len(out61[p][t]) + 1
        /\ \A n \in 1 .. Len(out61[p][t]) : Append(out61[p][t], e)[n] = out61[p][t][n]
        /\ Append(out61[p][t], e)[Len(out61[p][t]) + 1] = e
  BY <1>2, <1>3, AppendFacts DEF TypeInv
<1>6. \A p \in Phys : out61'[p] \in [Served(p) -> Seq([ITime : Nat, stop : BOOLEAN])]
  <2> TAKE p \in Phys
  <2>1. out61'[p] = [t \in Served(p) |-> IF t = s THEN Append(out61[p][t], e) ELSE out61[p][t]]
    BY <1>4
  <2>2. \A t \in Served(p) : (IF t = s THEN Append(out61[p][t], e) ELSE out61[p][t])
                               \in Seq([ITime : Nat, stop : BOOLEAN])
    BY <1>5
  <2> QED BY <2>1, <2>2
<1>7. /\ DOMAIN sim' = Sims /\ \A t \in Sims \ {s} : sim'[t] = sim[t]
      /\ \/ sim'[s] = [sim[s] EXCEPT !.pc = "world"]
         \/ sim'[s] = [sim[s] EXCEPT !.ITime = k + 1, !.got = {}]
  BY <1>1, <1>2 DEF TypeInv
<1>8. /\ sim[s] \in SimStates(s) /\ sim'[s] \in SimStates(s) /\ sim'[s].in = sim[s].in
      /\ \/ sim'[s].pc = "world" /\ sim'[s].ITime = k /\ sim'[s].got = PhysOf(s)
         \/ sim'[s].pc = "recv" /\ sim'[s].ITime = k + 1 /\ sim'[s].got = {}
  <2>1. sim[s] \in SimStates(s) /\ k + 1 \in Nat \ {0}
    BY <1>2 DEF TypeInv
  <2>2. CASE sim'[s] = [sim[s] EXCEPT !.pc = "world"]
    BY <2>1, <2>2, <1>0, <1>1 DEF SimStates
  <2>3. CASE sim'[s] = [sim[s] EXCEPT !.ITime = k + 1, !.got = {}]
    BY <2>1, <2>3, <1>0, <1>1 DEF SimStates
  <2> QED BY <2>1, <2>2, <2>3, <1>7
<1>9. TypeInv'
  BY <1>1, <1>2, <1>4, <1>6, <1>7, <1>8 DEF TypeInv
<1>10. StepInv'
  BY <1>1, <1>2 DEF StepInv
<1>11. \A q \in Phys : \A i \in Index(q) :
         /\ SentNo(q, i)' = SentNo(q, i) /\ TakenNo(q, i)' = TakenNo(q, i)
         /\ GotNo(q, SimProc[q][i])' = GotNo(q, SimProc[q][i])
         /\ SimProc[q][i] # s => DoneNo(SimProc[q][i])' = DoneNo(SimProc[q][i])
         /\ SimProc[q][i] = s => /\ DoneNo(SimProc[q][i]) = k - 1
                                /\ DoneNo(SimProc[q][i])' = k
  <2> SUFFICES ASSUME NEW q \in Phys, NEW i \in Index(q)
               PROVE  /\ SentNo(q, i)' = SentNo(q, i) /\ TakenNo(q, i)' = TakenNo(q, i)
                      /\ GotNo(q, SimProc[q][i])' = GotNo(q, SimProc[q][i])
                      /\ SimProc[q][i] # s => DoneNo(SimProc[q][i])' = DoneNo(SimProc[q][i])
                      /\ SimProc[q][i] = s => /\ DoneNo(SimProc[q][i]) = k - 1
                                             /\ DoneNo(SimProc[q][i])' = k
    OBVIOUS
  <2>1. SentNo(q, i)' = SentNo(q, i) /\ TakenNo(q, i)' = TakenNo(q, i)
    BY <1>1 DEF SentNo, TakenNo
  <2>2. CASE SimProc[q][i] # s
    BY <2>1, <2>2, <1>7, Lists DEF GotNo, DoneNo
  <2>3. CASE SimProc[q][i] = s
    <3>1. q \in PhysOf(s) /\ k + 1 - 1 = k
      BY <2>3, Lists
    <3>2. GotNo(q, SimProc[q][i])' = k /\ GotNo(q, SimProc[q][i]) = k
      <4>1. GotNo(q, SimProc[q][i]) = k
        BY <2>3, <3>1, <1>0, <1>1 DEF GotNo
      <4>2. GotNo(q, SimProc[q][i])' = IF q \in sim'[s].got THEN sim'[s].ITime ELSE sim'[s].ITime - 1
        BY <2>3 DEF GotNo
      <4>3. CASE sim'[s].ITime = k /\ sim'[s].got = PhysOf(s)
        BY <4>1, <4>2, <4>3, <3>1
      <4>4. CASE sim'[s].ITime = k + 1 /\ sim'[s].got = {}
        BY <4>1, <4>2, <4>4, <3>1
      <4> QED BY <4>3, <4>4, <1>8
    <3>3. DoneNo(SimProc[q][i])' = k /\ DoneNo(SimProc[q][i]) = k - 1
      BY <2>3, <3>1, <1>0, <1>1, <1>8 DEF DoneNo
    <3> QED BY <2>1, <2>3, <3>2, <3>3
  <2> QED BY <2>2, <2>3
<1>12. OutMail'
  <2> SUFFICES ASSUME NEW q \in Phys, NEW i \in Index(q)
               PROVE  LET m == out61'[q][SimProc[q][i]]
                          r == TakenNo(q, i)
                      IN  /\ Len(m) = DoneNo(SimProc[q][i])' - r
                          /\ \A n \in 1 .. Len(m) : m[n].ITime = r + n
    BY <1>11 DEF OutMail, Index
  <2>1. SimProc[q][i] \in Served(q)
    BY Lists
  <2>2. CASE SimProc[q][i] # s
    <3>1. out61'[q][SimProc[q][i]] = out61[q][SimProc[q][i]]
      BY <2>1, <2>2, <1>4
    <3> QED BY <3>1, <2>2, <1>2, <1>11 DEF OutMail
  <2>3. CASE SimProc[q][i] = s
    <3> DEFINE m == out61[q][s]
               r == TakenNo(q, i)
    <3>1. Len(m) = k - 1 - r /\ \A n \in 1 .. Len(m) : m[n].ITime = r + n
      BY <2>3, <1>2, <1>11 DEF OutMail
    <3>2. r \in Int
      BY <1>2 DEF TypeInv, TakenNo
    <3>3. /\ out61'[q][s] = Append(m, e)
          /\ Len(m) \in Nat /\ Len(Append(m, e)) = Len(m) + 1
          /\ \A n \in 1 .. Len(m) : Append(m, e)[n] = m[n]
          /\ Append(m, e)[Len(m) + 1] = e
      BY <2>1, <2>3, <1>4, <1>5
    <3> HIDE DEF m, r
    <3>4. \A n \in 1 .. Len(m) + 1 : Append(m, e)[n].ITime = r + n
      <4> TAKE n \in 1 .. Len(m) + 1
      <4>1. CASE n \in 1 .. Len(m)
        BY <4>1, <3>1, <3>3
      <4>2. CASE n = Len(m) + 1
        <5>1. r + n = k
          BY <4>2, <3>1, <3>2, <3>3
        <5> QED BY <5>1, <4>2, <3>3, <1>3
      <4> QED BY <4>1, <4>2, <3>3
    <3>5. Len(m) + 1 = k - r
      BY <3>1, <3>2
    <3> QED BY <2>3, <3>3, <3>4, <3>5, <1>11 DEF m, r
  <2> QED BY <2>2, <2>3
<1>13. InMail' /\ ValsInv'
  BY <1>1, <1>2, <1>11 DEF InMail, ValsInv, Index
<1>14. FramesInv' /\ OutputsOfTheStep'
  BY <1>1, <1>2 DEF FramesInv, OutputsOfTheStep
<1>15. InputsOfTheStep'
  <2>1. \A q \in sim'[s].got : sim'[s].in[q] = sim'[s].ITime
    BY <1>0, <1>1, <1>2, <1>8 DEF InputsOfTheStep
  <2>2. \A t \in Sims \ {s} : \A q \in sim'[t].got : sim'[t].in[q] = sim'[t].ITime
    BY <1>2, <1>7 DEF InputsOfTheStep
  <2> QED BY <2>1, <2>2 DEF InputsOfTheStep
<1> QED BY <1>9, <1>10, <1>12, <1>13, <1>14, <1>15 DEF StepsInv

(***************************************************************************)
(* The invariant of the specification.                                     *)
(***************************************************************************)
\* The steps of main, of the start and of the end, and of time, exchange
\* nothing.
LEMMA OthersKept ==
  ASSUME StepsInv, StartInv,
         \/ Tick \/ End
         \/ \E p \in Phys : MainNext(p)
         \/ \E p \in Phys : \/ Awake(p) \/ Running(p) \/ wait_PPS_signal(p)
                            \/ wait_PPS_signal2(p) \/ startSim(p) \/ FrameSent(p)
                            \/ StopSim(p) \/ Statistics(p) \/ MarkEnd(p)
  PROVE  StepsInv'
<1>1. pc \in [Phys -> Places]
  BY DEF StepsInv, TypeInv
<1>2. CASE Tick \/ End
  BY <1>1, <1>2, QuietKept DEF Tick, End, vars, loop, msgs
<1>3. CASE \E p \in Phys : MainNext(p)
  <2>1. PICK p \in Phys : MainNext(p)
    BY <1>3
  <2>2. CASE CreateThread(p)
    <3>1. pc[p] = "none" /\ pc' = [pc EXCEPT ![p] = "sleep"]
      BY <2>2 DEF CreateThread, StartInv
    <3> QED BY <3>1, <2>2, <1>1, QuietKept DEF CreateThread, loop, msgs, Places, Stepping, Stopped
  <2>3. CASE InitFails(p) \/ InitDone(p) \/ Wait_For_End(p) \/ WaitedForEnd(p) \/ Close(p) \/ Exit(p)
    BY <2>3, <1>1, QuietKept
       DEF InitFails, InitDone, Wait_For_End, WaitedForEnd, Close, Exit, loop, msgs
  <2> QED BY <2>1, <2>2, <2>3 DEF MainNext
<1>4. ASSUME NEW p \in Phys,
             \/ Awake(p) \/ Running(p) \/ wait_PPS_signal(p)
             \/ wait_PPS_signal2(p) \/ startSim(p) \/ FrameSent(p)
      PROVE  StepsInv'
  <2>1. UNCHANGED <<ITime, proc, vals, frames, sim, in60, out61>>
    BY <1>4 DEF Awake, Running, wait_PPS_signal, wait_PPS_signal2, startSim, FrameSent, loop, msgs
  <2>2. /\ pc[p] \in {"sleep", "barrier", "pps1", "pps2", "frame", "sent"}
        /\ \E a \in {"barrier", "pps1", "pps2", "frame", "sent", "step"} :
             pc' = [pc EXCEPT ![p] = a]
    BY <1>4 DEF Awake, Running, wait_PPS_signal, wait_PPS_signal2, startSim, FrameSent
  <2> QED BY <2>1, <2>2, <1>1, QuietKept DEF Places, Stepping, Stopped
<1>5. ASSUME NEW p \in Phys, StopSim(p) \/ Statistics(p) \/ MarkEnd(p)
      PROVE  StepsInv'
  <2>1. UNCHANGED <<ITime, proc, vals, frames, sim, in60, out61>>
    BY <1>5 DEF StopSim, Statistics, MarkEnd, loop, msgs
  <2>2. /\ pc[p] \in Stopped
        /\ \E a \in Stopped : pc' = [pc EXCEPT ![p] = a]
    BY <1>5 DEF StopSim, Statistics, MarkEnd, Stopped
  <2> QED BY <2>1, <2>2, <1>1, QuietKept DEF Places
<1> QED BY <1>2, <1>3, <1>4, <1>5

\* main creates the thread when it leaves the first barrier, and no other
\* step of the thread begins where there is none.
LEMMA StartKept ==
  ASSUME StepsInv, StartInv, Next
  PROVE  StartInv'
<1>1. pc \in [Phys -> Places]
  BY DEF StepsInv, TypeInv
<1>2. CASE Tick \/ End
  BY <1>2 DEF Tick, End, vars, StartInv
<1>3. CASE \E p \in Phys : MainNext(p)
  <2>1. PICK p \in Phys : MainNext(p)
    BY <1>3
  <2>2. CASE CreateThread(p)
    BY <2>2, <1>1 DEF CreateThread, StartInv
  <2>3. CASE InitFails(p)
    BY <2>3 DEF InitFails, StartInv
  <2>4. CASE InitDone(p)
    BY <2>4 DEF InitDone, StartInv
  <2>5. CASE Wait_For_End(p)
    BY <2>5 DEF Wait_For_End, StartInv
  <2>6. CASE WaitedForEnd(p) \/ Close(p) \/ Exit(p)
    BY <2>6 DEF WaitedForEnd, Close, Exit, StartInv
  <2> QED BY <2>1, <2>2, <2>3, <2>4, <2>5, <2>6 DEF MainNext
<1>4. CASE \E p \in Phys : ThreadNext(p)
  <2>1. PICK p \in Phys : ThreadNext(p)
    BY <1>4
  <2>2. pc[p] # "none" /\ main' = main /\ \A q \in Phys \ {p} : pc'[q] = pc[q]
    BY <2>1, <1>1
       DEF ThreadNext, Awake, Running, wait_PPS_signal, wait_PPS_signal2, startSim, FrameSent,
           Sample, SendInputs, RecvOutputs, NextProc, EndStep, StopSim, Statistics, MarkEnd
  <2> QED BY <2>2 DEF StartInv
<1>5. CASE \E s \in Sims : SimNext(s)
  BY <1>5 DEF SimNext, SimBarrier, SimRecv, SimSend, SimExit, StartInv
<1> QED BY <1>2, <1>3, <1>4, <1>5 DEF Next

\* What is said of the steps is kept by each.
LEMMA NextSteps ==
  ASSUME StepsInv, StartInv, [Next]_vars
  PROVE  StepsInv' /\ StartInv'
<1>1. CASE UNCHANGED vars
  <2>1. UNCHANGED <<main, pc, ITime, proc, vals, frames, sim, in60, out61>>
    BY <1>1 DEF vars, loop, msgs
  <2>2. pc' \in [Phys -> Places]
    BY <2>1 DEF StepsInv, TypeInv
  <2> QED BY <2>1, <2>2, QuietKept DEF StartInv
<1>2. CASE Next
  <2>1. StartInv'
    BY <1>2, StartKept
  <2>2. CASE Tick \/ End \/ \E p \in Phys : MainNext(p)
    BY <2>1, <2>2, OthersKept
  <2>3. CASE \E p \in Phys : ThreadNext(p)
    <3>1. PICK p \in Phys : ThreadNext(p)
      BY <2>3
    <3>2. CASE Sample(p) \/ SendInputs(p)
      BY <2>1, <3>2, SampleKept, SendKept
    <3>3. CASE RecvOutputs(p) \/ EndStep(p)
      BY <2>1, <3>3, RecvKept, EndStepKept
    <3>4. CASE \/ Awake(p) \/ Running(p) \/ wait_PPS_signal(p)
               \/ wait_PPS_signal2(p) \/ startSim(p) \/ FrameSent(p)
               \/ StopSim(p) \/ Statistics(p) \/ MarkEnd(p)
      BY <2>1, <3>4, OthersKept
    <3> QED BY <3>1, <3>2, <3>3, <3>4 DEF ThreadNext
  <2>4. CASE \E s \in Sims : SimNext(s)
    <3>1. PICK s \in Sims : SimNext(s)
      BY <2>4
    <3>2. CASE SimBarrier(s) \/ SimExit(s)
      BY <2>1, <3>2, SimQuietKept
    <3>3. CASE SimRecv(s) \/ SimSend(s)
      BY <2>1, <3>3, SimRecvKept, SimSendKept
    <3> QED BY <3>1, <3>2, <3>3 DEF SimNext
  <2> QED BY <1>2, <2>1, <2>2, <2>3, <2>4 DEF Next
<1> QED BY <1>1, <1>2

(***************************************************************************)
(* The FIFO.                                                               *)
(***************************************************************************)
\* What is appended to the second of two lists comes last in both together.
LEMMA AppendLast ==
  \A a, b \in Seq(Lines) : \A e \in Lines : Append(a \o b, e) = a \o Append(b, e)
<1> TAKE a, b \in Seq(Lines)
<1> TAKE e \in Lines
<1> QED OBVIOUS

\* A line written is behind those not printed, and main does not see the end
\* before the last.
LEMMA WriteKept ==
  ASSUME StepsInv, StartInv, ConsoleInv, NEW p \in Phys, NEW str \in Lines,
         WriteStr2FIFO(p, str), pc[p] # "end", UNCHANGED <<main, mark, printed>>,
         \A q \in Phys \ {p} : pc'[q] = pc[q]
  PROVE  ConsoleInv'
<1>1. /\ fifo' = [fifo EXCEPT ![p] = Append(fifo[p], str)]
      /\ written' = [written EXCEPT ![p] = Append(written[p], str)]
  BY DEF WriteStr2FIFO
<1>2. fifo[p] \in Seq(Lines) /\ printed[p] \in Seq(Lines) /\ mark[p] # "end"
  BY DEF ConsoleInv
<1>3. Append(fifo[p], str) \in Seq(Lines)
  BY <1>2
<1>4. Append(written[p], str) = printed[p] \o Append(fifo[p], str)
  <2>1. Append(printed[p] \o fifo[p], str) = printed[p] \o Append(fifo[p], str)
    <3>1. printed[p] \in Seq(Lines) /\ fifo[p] \in Seq(Lines) /\ str \in Lines
      BY <1>2
    <3> QED BY <3>1, AppendLast
  <2>2. written[p] = printed[p] \o fifo[p]
    BY DEF ConsoleInv
  <2> QED BY <2>1, <2>2, Zenon
<1>5. fifo' \in [Phys -> Seq(Lines)] /\ DOMAIN written' = Phys
  BY <1>1, <1>3 DEF ConsoleInv
<1>6. written'[p] = printed[p] \o fifo'[p]
  BY <1>1, <1>4 DEF ConsoleInv
<1>7. \A q \in Phys \ {p} : fifo'[q] = fifo[q] /\ written'[q] = written[q]
  BY <1>1 DEF ConsoleInv
<1> QED BY <1>2, <1>5, <1>6, <1>7 DEF ConsoleInv

\* Reading the FIFO empties it and loses nothing.
LEMMA DealKept ==
  ASSUME ConsoleInv, NEW p \in Phys, DealFIFO(p), UNCHANGED <<mark, written, pc>>,
         DOMAIN main = Phys,
         \/ main' = main
         \/ main' = [main EXCEPT ![p] = "close"] /\ mark[p] = "end"
  PROVE  ConsoleInv'
<1>1. /\ printed' = [printed EXCEPT ![p] = printed[p] \o fifo[p]]
      /\ fifo' = [fifo EXCEPT ![p] = <<>>]
  BY DEF DealFIFO
<1>2. fifo[p] \in Seq(Lines) /\ printed[p] \in Seq(Lines)
  BY DEF ConsoleInv
<1>3. printed[p] \o fifo[p] \in Seq(Lines) /\ <<>> \in Seq(Lines)
  BY <1>2
<1>4. printed' \in [Phys -> Seq(Lines)] /\ fifo' \in [Phys -> Seq(Lines)]
  BY <1>1, <1>3 DEF ConsoleInv
<1>5. \A q \in Phys \ {p} :
        printed'[q] = printed[q] /\ fifo'[q] = fifo[q] /\ main'[q] = main[q]
  BY <1>1 DEF ConsoleInv
<1>6. printed'[p] = printed[p] \o fifo[p] /\ fifo'[p] = <<>>
  BY <1>1 DEF ConsoleInv
<1>7. (printed[p] \o fifo[p]) \o <<>> = printed[p] \o fifo[p]
  BY <1>3
<1>8. written'[p] = printed'[p] \o fifo'[p]
  BY <1>6, <1>7 DEF ConsoleInv
<1>9. main'[p] \in {"close", "world", "exit"} => mark[p] = "end"
  BY DEF ConsoleInv
<1> QED BY <1>4, <1>5, <1>6, <1>8, <1>9 DEF ConsoleInv

\* The other steps leave the FIFO alone.
LEMMA ConsoleKept ==
  ASSUME StepsInv, StartInv, ConsoleInv, [Next]_vars
  PROVE  ConsoleInv'
<1>1. pc \in [Phys -> Places] /\ DOMAIN main = Phys
  BY DEF StepsInv, TypeInv, StartInv
<1>2. CASE UNCHANGED vars \/ Tick \/ End \/ \E s \in Sims : SimNext(s)
  <2>1. UNCHANGED <<main, mark, fifo, printed, written, pc>>
    BY <1>2 DEF vars, console, Tick, End, SimNext, SimBarrier, SimRecv, SimSend, SimExit
  <2> QED BY <2>1 DEF ConsoleInv
<1>3. ASSUME NEW p \in Phys, MainNext(p) PROVE ConsoleInv'
  <2>1. CASE CreateThread(p)
    <3>1. /\ pc[p] = "none" /\ main[p] = "barrier" /\ UNCHANGED <<mark, fifo, printed, written>>
          /\ pc' = [pc EXCEPT ![p] = "sleep"] /\ main' = [main EXCEPT ![p] = "wait"]
      BY <2>1 DEF CreateThread, StartInv, console
    <3> QED BY <3>1, <1>1 DEF ConsoleInv
  <2>2. CASE Wait_For_End(p)
    BY <2>2, <1>1, DealKept DEF Wait_For_End
  <2>3. CASE WaitedForEnd(p)
    BY <2>3, <1>1, DealKept DEF WaitedForEnd
  <2>4. CASE InitFails(p) \/ InitDone(p) \/ Close(p) \/ Exit(p)
    <3>1. UNCHANGED <<mark, fifo, printed, written, pc>>
      BY <2>4 DEF InitFails, InitDone, Close, Exit, console
    <3>2. \/ \E a \in {"quit", "barrier"} : main' = [main EXCEPT ![p] = a]
          \/ /\ main[p] \in {"close", "world"}
             /\ \E a \in {"world", "exit"} : main' = [main EXCEPT ![p] = a]
      BY <2>4 DEF InitFails, InitDone, Close, Exit
    <3> QED BY <3>1, <3>2, <1>1 DEF ConsoleInv
  <2> QED BY <1>3, <2>1, <2>2, <2>3, <2>4 DEF MainNext
<1>4. ASSUME NEW p \in Phys, ThreadNext(p) PROVE ConsoleInv'
  <2>1. CASE (EndStep(p) /\ bEnd[p]) \/ StopSim(p) \/ Statistics(p)
    <3>1. /\ \E str \in Lines : WriteStr2FIFO(p, str)
          /\ pc[p] # "end" /\ UNCHANGED <<main, mark, printed>>
          /\ \A q \in Phys \ {p} : pc'[q] = pc[q]
      <4>1. \E str \in Lines : WriteStr2FIFO(p, str)
        <5>1. /\ "recv stop signal from EMT" \in Lines
              /\ "Running Time" \in Lines /\ "Max Step Time" \in Lines
          BY DEF Lines
        <5> QED BY <5>1, <2>1 DEF EndStep, StopSim, Statistics
      <4>2. pc[p] # "end" /\ UNCHANGED <<main, mark, printed>>
        BY <2>1 DEF EndStep, StopSim, Statistics
      <4>3. \A q \in Phys \ {p} : pc'[q] = pc[q]
        BY <2>1, <1>1 DEF EndStep, StopSim, Statistics
      <4> QED BY <4>1, <4>2, <4>3
    <3> QED BY <3>1, WriteKept
  <2>2. CASE MarkEnd(p)
    <3>1. /\ mark' = [mark EXCEPT ![p] = "end"] /\ pc' = [pc EXCEPT ![p] = "end"]
          /\ UNCHANGED <<main, fifo, printed, written>>
      BY <2>2 DEF MarkEnd
    <3> QED BY <3>1, <1>1 DEF ConsoleInv
  <2>3. CASE Running(p)
    <3>1. /\ mark' = [mark EXCEPT ![p] = "running"] /\ pc[p] = "barrier"
          /\ pc' = [pc EXCEPT ![p] = "pps1"] /\ UNCHANGED <<main, fifo, printed, written>>
      BY <2>3 DEF Running
    <3> QED BY <3>1, <1>1 DEF ConsoleInv
  <2>4. CASE \/ Awake(p) \/ wait_PPS_signal(p) \/ wait_PPS_signal2(p) \/ startSim(p)
             \/ FrameSent(p) \/ Sample(p) \/ SendInputs(p) \/ RecvOutputs(p)
             \/ (EndStep(p) /\ ~bEnd[p])
    <3>1. UNCHANGED <<main, mark, fifo, printed, written>>
      BY <2>4 DEF Awake, wait_PPS_signal, wait_PPS_signal2, startSim, FrameSent, Sample,
                  SendInputs, RecvOutputs, EndStep, console
    <3>2. pc[p] # "end" /\ \A q \in Phys \ {p} : pc'[q] = pc[q]
      BY <2>4, <1>1 DEF Awake, wait_PPS_signal, wait_PPS_signal2, startSim, FrameSent, Sample,
                        SendInputs, RecvOutputs, NextProc, EndStep
    <3> QED BY <3>1, <3>2 DEF ConsoleInv
  <2> QED BY <1>4, <2>1, <2>2, <2>3, <2>4 DEF ThreadNext
<1> QED BY <1>2, <1>3, <1>4 DEF Next

\* In every state the messages on their way, and what has been taken from
\* them, are of the steps the counters say.
THEOREM InvariantHolds == Spec => []IInv
<1>1. Init => IInv
  <2>1. Init => ConsoleInv
    BY DEF Init, ConsoleInv
  <2> QED BY <2>1, InitSteps DEF IInv
<1>2. IInv /\ [Next]_vars => IInv'
  BY NextSteps, ConsoleKept DEF IInv
<1> QED BY <1>1, <1>2, PTL DEF Spec

\* For any number of interface and computing processes no frame of a box and
\* no step of a computing process mixes values of different steps, although
\* nobody waits at a barrier between the steps (RtEmtPhy, 715 to 834).
THEOREM NothingIsMixed == Spec => []StepsAreNotMixed
<1>1. IInv => StepsAreNotMixed
  BY DEF IInv, StepsInv, StepsAreNotMixed
<1> QED BY <1>1, InvariantHolds, PTL

\* Whenever the end is seen, the FIFO is read once more after it, so no line
\* of the real-time thread is lost (Wait_For_End).
THEOREM AllIsPrinted == Spec => []NothingLeftUnread
<1>1. IInv => NothingLeftUnread
  <2> SUFFICES ASSUME IInv, NEW p \in Phys, main[p] \in {"close", "world", "exit"}
               PROVE  printed[p] = written[p]
    BY DEF NothingLeftUnread
  <2>1. written[p] = printed[p] \o <<>> /\ printed[p] \in Seq(Lines)
    BY DEF IInv, ConsoleInv
  <2> QED BY <2>1
<1> QED BY <1>1, InvariantHolds, PTL

(***************************************************************************)
(* Types, and the start.                                                   *)
(***************************************************************************)
\* The types that are not in TypeInv.
SimpleInv ==
  /\ now \in Nat /\ barrier \in [Phys \cup Sims -> 0 .. 3]
  /\ timer \in [Phys -> BOOLEAN]
  /\ main \in [Phys -> {"init", "quit", "barrier", "wait", "close", "world", "exit"}]
  /\ mark \in [Phys -> {"initializing", "running", "end"}]
  /\ since \in [Phys -> Nat] /\ begun \in [Phys -> Nat] /\ bEnd \in [Phys -> BOOLEAN]

\* No process counts further than the simulation goes.
RangeInv ==
  /\ \A p \in Phys : ITime[p] <= NSteps + 1
  /\ \A s \in Sims : sim[s].ITime <= NSteps

\* The box being started is one of the process.
BoxInv ==
  /\ DOMAIN box = Phys
  /\ \A p \in Phys :
       /\ box[p] \in [nth : 1 .. BoxCount[p] + 1, frame : 1 .. 3]
       /\ pc[p] \in {"none", "sleep", "barrier", "pps1"} => box[p] = [nth |-> 1, frame |-> 1]
       /\ pc[p] \in {"frame", "sent"} => box[p].nth <= BoxCount[p]

\* The start commands of a process.
Commands(p) == [box : {StartOrder(p)[n] : n \in 1 .. BoxCount[p]}, at : Nat]

\* How many tenths of a second the frames before the next one have taken.
Tenths(p) == 3 * (box[p].nth - 1) + box[p].frame - 1

\* The first k boxes were started one after the other, three tenths of a second
\* apart, from the whole second S on.
StartedFrom(p, S, k) ==
  /\ S \in Int /\ S % SEC = 0
  /\ Len(started[p]) = k
  /\ \A n \in 1 .. k : started[p][n].at = S + 3 * (n - 1) + 2

\* Before the start: nothing is started.
BeforeStart(p) ==
  pc[p] \in {"none", "sleep", "barrier", "pps1"} =>
    started[p] = <<>> /\ box[p] = [nth |-> 1, frame |-> 1] /\ begun[p] = 0

\* During the start each frame is sent as soon as the sleep after the one
\* before is over, so the time tells how many were sent.
DuringStart(p) ==
  pc[p] \in {"frame", "sent"} =>
    /\ box[p] \in [nth : 1 .. BoxCount[p], frame : 1 .. 3] /\ begun[p] = 0
    /\ pc[p] = "frame" => StartedFrom(p, now - Tenths(p), box[p].nth - 1)
    /\ pc[p] = "sent" =>
         /\ now <= since[p]
         /\ StartedFrom(p, since[p] - 1 - Tenths(p),
                        IF box[p].frame = 3 THEN box[p].nth ELSE box[p].nth - 1)

\* After the start, and when the exchange begins.
AfterStart(p) ==
  pc[p] \in {"pps2", "step"} \cup Stepping \cup Stopped =>
    /\ box[p] = [nth |-> BoxCount[p] + 1, frame |-> 1]
    /\ pc[p] = "pps2" =>
         /\ begun[p] = 0
         /\ StartedFrom(p, since[p] - 3 * BoxCount[p], BoxCount[p])
         /\ since[p] <= now /\ now <= since[p] - 3 * BoxCount[p] + SEC
    /\ pc[p] # "pps2" => StartedFrom(p, begun[p] - SEC, BoxCount[p])

TimeOf(p) ==
  /\ started[p] \in Seq(Commands(p))
  /\ BeforeStart(p) /\ DuringStart(p) /\ AfterStart(p)

TimeInv ==
  /\ DOMAIN box = Phys /\ DOMAIN started = Phys
  /\ \A p \in Phys : TimeOf(p)

\* What must hold for all the boxes to be started before the next second.
FewBoxes == \A p \in Phys : 3 * BoxCount[p] < SEC

LEMMA InitTimes == Init => SimpleInv /\ RangeInv /\ BoxInv /\ TimeInv
<1> SUFFICES ASSUME Init PROVE SimpleInv /\ RangeInv /\ BoxInv /\ TimeInv
  OBVIOUS
<1>1. SimpleInv
  BY RtAssumption DEF Init, SimpleInv
<1>2. RangeInv
  BY RtAssumption DEF Init, RangeInv
<1>3. TimeInv
  BY DEF Init, TimeInv, TimeOf, BeforeStart, DuringStart, AfterStart, Stepping, Stopped
<1>4. BoxInv
  <2>1. \A p \in Phys : 1 \in 1 .. BoxCount[p] + 1 /\ 1 \in 1 .. 3
    BY RtAssumption
  <2> QED BY <2>1 DEF Init, BoxInv
<1> QED BY <1>1, <1>2, <1>3, <1>4

\* A stop is told by a truth value, so the mark the loop keeps is one, too.
LEMMA StopTypes ==
  ASSUME TypeInv, SimpleInv, NEW p \in Phys, RecvOutputs(p)
  PROVE  bEnd' \in [Phys -> BOOLEAN]
<1>1. PICK j \in Index(p) : j = proc[p]
  BY DEF TypeInv
<1>2. SimProc[p][j] \in Served(p)
  BY Lists
<1>3. /\ out61[p][SimProc[p][j]] \in Seq([ITime : Nat, stop : BOOLEAN])
      /\ out61[p][SimProc[p][j]] # <<>>
  BY <1>1, <1>2 DEF TypeInv, RecvOutputs
<1>4. PICK m \in [ITime : Nat, stop : BOOLEAN] : m = Head(out61[p][SimProc[p][j]])
  BY <1>3, TailFacts
<1>5. bEnd' = [bEnd EXCEPT ![p] = @ \/ m.stop]
  BY <1>1, <1>4 DEF RecvOutputs, Stops
<1>6. m.stop \in BOOLEAN
  BY <1>4
<1>7. bEnd \in [Phys -> BOOLEAN]
  BY DEF SimpleInv
<1> HIDE DEF SimpleInv
<1> QED BY <1>5, <1>6, <1>7, Zenon

\* The types that are not in TypeInv.
LEMMA SimpleKept ==
  ASSUME StepsInv, StartInv, SimpleInv, [Next]_vars
  PROVE  SimpleInv'
<1>1. TypeInv
  BY DEF StepsInv
<1>2. CASE UNCHANGED vars \/ End
  BY <1>2 DEF End, vars, console, start, loop, SimpleInv
<1>3. CASE Tick
  BY <1>3 DEF Tick, console, start, loop, SimpleInv
<1>4. ASSUME NEW p \in Phys, MainNext(p) PROVE SimpleInv'
  <2>1. UNCHANGED <<now, mark, begun, bEnd>>
    BY <1>4 DEF MainNext, InitFails, InitDone, CreateThread, Wait_For_End, WaitedForEnd, Close,
                Exit, console, start, loop
  <2>2. main' \in [Phys -> {"init", "quit", "barrier", "wait", "close", "world", "exit"}]
    BY <1>4 DEF SimpleInv, MainNext, InitFails, InitDone, CreateThread, Wait_For_End, WaitedForEnd,
                Close, Exit
  <2>3. barrier' \in [Phys \cup Sims -> 0 .. 3]
    <3>1. barrier' = barrier \/ \E n \in {1, 3} : barrier' = [barrier EXCEPT ![p] = n]
      BY <1>4 DEF MainNext, InitFails, InitDone, CreateThread, Wait_For_End, WaitedForEnd, Close,
                  Exit, Enter
    <3> QED BY <3>1 DEF SimpleInv
  <2>4. timer' \in [Phys -> BOOLEAN]
    BY <1>4 DEF SimpleInv, MainNext, InitFails, InitDone, CreateThread, Wait_For_End, WaitedForEnd,
                Close, Exit
  <2>5. since' \in [Phys -> Nat]
    <3>1. CASE CreateThread(p)
      <4>1. now + 2 * SEC \in Nat
        BY RtAssumption DEF SimpleInv
      <4>2. since' = [since EXCEPT ![p] = now + 2 * SEC] /\ since \in [Phys -> Nat]
        BY <3>1 DEF CreateThread, SimpleInv
      <4> QED BY <4>1, <4>2
    <3>2. CASE ~CreateThread(p)
      BY <1>4, <3>2 DEF SimpleInv, MainNext, InitFails, InitDone, Wait_For_End, WaitedForEnd, Close,
                Exit, start
    <3> QED BY <3>1, <3>2
  <2> QED BY <2>1, <2>2, <2>3, <2>4, <2>5 DEF SimpleInv
<1>5. ASSUME NEW p \in Phys, ThreadNext(p) PROVE SimpleInv'
  <2>1. UNCHANGED <<now, timer, main>>
    BY <1>5 DEF ThreadNext, Awake, Running, wait_PPS_signal, wait_PPS_signal2, startSim, FrameSent,
                Sample, SendInputs, RecvOutputs, EndStep, StopSim, Statistics, MarkEnd
  <2>2. CASE Awake(p)
    BY <2>1, <2>2 DEF SimpleInv, Awake, console, start, loop, Enter
  <2>3. CASE Running(p)
    BY <2>1, <2>3 DEF SimpleInv, Running, loop
  <2>4. CASE wait_PPS_signal(p) \/ Sample(p) \/ SendInputs(p)
    BY <2>1, <2>4 DEF SimpleInv, wait_PPS_signal, Sample, SendInputs, console, start, loop
  <2>5. CASE wait_PPS_signal2(p)
    BY <2>1, <2>5 DEF SimpleInv, wait_PPS_signal2, console
  <2>6. CASE startSim(p)
    <3>1. since' = [since EXCEPT ![p] = now + 1] /\ UNCHANGED <<barrier, mark, begun, bEnd>>
      BY <2>6 DEF startSim, console, loop
    <3> QED BY <2>1, <3>1 DEF SimpleInv
  <2>7. CASE FrameSent(p)
    <3>1. since' = [since EXCEPT ![p] = now] /\ UNCHANGED <<barrier, mark, begun, bEnd>>
      BY <2>7 DEF FrameSent, console, loop
    <3> QED BY <2>1, <3>1 DEF SimpleInv
  <2>8. CASE RecvOutputs(p)
    <3>1. bEnd' \in [Phys -> BOOLEAN]
      BY <1>1, <2>8, StopTypes
    <3>2. UNCHANGED <<barrier, mark, since, begun>>
      BY <2>8 DEF RecvOutputs, console, start
    <3> QED BY <2>1, <3>1, <3>2 DEF SimpleInv
  <2>9. CASE EndStep(p) \/ StopSim(p) \/ Statistics(p)
    <3>1. UNCHANGED <<barrier, mark, since, begun, bEnd>>
      BY <2>9 DEF EndStep, StopSim, Statistics, start, loop
    <3> QED BY <2>1, <3>1 DEF SimpleInv
  <2>10. CASE MarkEnd(p)
    BY <2>1, <2>10 DEF SimpleInv, MarkEnd, start, loop
  <2> QED BY <1>5, <2>2, <2>3, <2>4, <2>5, <2>6, <2>7, <2>8, <2>9, <2>10 DEF ThreadNext
<1>6. ASSUME NEW s \in Sims, SimNext(s) PROVE SimpleInv'
  <2>1. UNCHANGED <<now, timer, main, mark, since, begun, bEnd>>
    BY <1>6 DEF SimNext, SimBarrier, SimRecv, SimSend, SimExit, console, start, loop
  <2>2. barrier' \in [Phys \cup Sims -> 0 .. 3]
    <3>1. /\ barrier \in [Phys \cup Sims -> 0 .. 3] /\ barrier[s] \in 0 .. 3
      BY DEF SimpleInv
    <3>2. \/ barrier' = barrier
          \/ barrier[s] < 2 /\ barrier' = [barrier EXCEPT ![s] = barrier[s] + 1]
          \/ barrier' = [barrier EXCEPT ![s] = 3]
      BY <1>6 DEF SimNext, SimBarrier, SimRecv, SimSend, SimExit, Enter
    <3>3. barrier[s] < 2 => barrier[s] + 1 \in 0 .. 3
      BY <3>1
    <3> QED BY <3>1, <3>2, <3>3
  <2> QED BY <2>1, <2>2 DEF SimpleInv
<1> QED BY <1>2, <1>3, <1>4, <1>5, <1>6 DEF Next

\* A step is counted only after one of the simulation.
LEMMA RangeKept ==
  ASSUME StepsInv, RangeInv, [Next]_vars
  PROVE  RangeInv'
<1>1. /\ TypeInv /\ StepInv /\ NSteps \in Nat
  BY Lists DEF StepsInv
<1>2. CASE UNCHANGED vars \/ Tick \/ End \/ \E p \in Phys : MainNext(p)
  <2>1. UNCHANGED <<ITime, sim>>
    BY <1>2 DEF vars, Tick, End, MainNext, InitFails, InitDone, CreateThread, Wait_For_End,
                WaitedForEnd, Close, Exit, loop
  <2> QED BY <2>1 DEF RangeInv
<1>3. ASSUME NEW p \in Phys, ThreadNext(p) PROVE RangeInv'
  <2>1. sim' = sim
    BY <1>3 DEF ThreadNext, Awake, Running, wait_PPS_signal, wait_PPS_signal2, startSim, FrameSent,
                Sample, SendInputs, RecvOutputs, EndStep, StopSim, Statistics, MarkEnd
  <2>2. CASE EndStep(p)
    <3>1. ITime[p] <= NSteps /\ ITime[p] \in Nat
      BY <2>2, <1>1 DEF EndStep, StepInv, Stepping, TypeInv
    <3>2. ITime' = ITime \/ ITime' = [ITime EXCEPT ![p] = ITime[p] + 1]
      BY <2>2 DEF EndStep
    <3>3. ITime[p] + 1 <= NSteps + 1
      BY <1>1, <3>1
    <3>4. /\ \A q \in Phys : q # p => ITime'[q] = ITime[q]
          /\ ITime'[p] = ITime[p] \/ ITime'[p] = ITime[p] + 1
      BY <1>1, <3>2 DEF TypeInv
    <3> QED BY <2>1, <3>3, <3>4 DEF RangeInv
  <2>3. CASE ~EndStep(p)
    <3>1. ITime' = ITime
      BY <1>3, <2>3 DEF ThreadNext, Awake, Running, wait_PPS_signal, wait_PPS_signal2, startSim,
                FrameSent, Sample, SendInputs, RecvOutputs, StopSim, Statistics, MarkEnd, loop
    <3> QED BY <2>1, <3>1 DEF RangeInv
  <2> QED BY <2>2, <2>3
<1>4. ASSUME NEW s \in Sims, SimNext(s) PROVE RangeInv'
  <2>1. ITime' = ITime
    BY <1>4 DEF SimNext, SimBarrier, SimRecv, SimSend, SimExit, loop
  <2>2. \A t \in Sims : sim'[t].ITime \in {sim[t].ITime, sim[t].ITime + 1}
                        /\ (sim'[t].ITime # sim[t].ITime => sim[t].ITime # NSteps)
    <3>1. \A t \in Sims : sim[t] \in SimStates(t)
      BY <1>1 DEF TypeInv
    <3>2. DOMAIN sim = Sims
      BY <1>1 DEF TypeInv
    <3>3. CASE SimBarrier(s) \/ SimExit(s)
      BY <3>1, <3>2, <3>3 DEF SimBarrier, SimExit, SimStates
    <3>4. CASE SimRecv(s)
      BY <3>1, <3>2, <3>4 DEF SimRecv, SimStates
    <3>5. CASE SimSend(s)
      <4>1. \/ sim' = [sim EXCEPT ![s].pc = "world"]
            \/ sim[s].ITime # NSteps /\ sim' = [sim EXCEPT ![s].ITime = sim[s].ITime + 1, ![s].got = {}]
        BY <3>5 DEF SimSend
      <4> QED BY <3>1, <3>2, <4>1 DEF SimStates
    <3> QED BY <1>4, <3>3, <3>4, <3>5 DEF SimNext
  <2>3. \A t \in Sims : sim'[t].ITime <= NSteps
    <3>1. \A t \in Sims : sim[t].ITime \in Nat /\ sim[t].ITime <= NSteps
      BY <1>1 DEF TypeInv, SimStates, RangeInv
    <3> QED BY <1>1, <2>2, <3>1
  <2> QED BY <2>1, <2>3 DEF RangeInv
<1> QED BY <1>2, <1>3, <1>4 DEF Next

\* Other steps of a process keep its box.
LEMMA BoxStays ==
  ASSUME BoxInv, pc \in [Phys -> Places], box' = box, NEW p \in Phys, NEW a,
         pc' = [pc EXCEPT ![p] = a],
         a \in {"none", "sleep", "barrier", "pps1"} => pc[p] \in {"none", "sleep", "barrier", "pps1"},
         a \in {"frame", "sent"} => pc[p] \in {"pps1", "frame"}
  PROVE  BoxInv'
<1>1. pc'[p] = a /\ \A q \in Phys \ {p} : pc'[q] = pc[q]
  OBVIOUS
<1>2. BoxCount[p] \in Nat \ {0}
  BY RtAssumption
<1>3. a \in {"frame", "sent"} => box[p].nth <= BoxCount[p]
  BY <1>2 DEF BoxInv
<1> QED BY <1>1, <1>3 DEF BoxInv

\* The next box comes after the third frame, and after the last box none.
LEMMA BoxKept ==
  ASSUME StepsInv, StartInv, BoxInv, [Next]_vars
  PROVE  BoxInv'
<1>1. pc \in [Phys -> Places] /\ DOMAIN main = Phys
  BY DEF StepsInv, TypeInv, StartInv
<1>2. CASE UNCHANGED vars \/ Tick \/ End \/ \E s \in Sims : SimNext(s)
  <2>1. UNCHANGED <<pc, box>>
    BY <1>2 DEF vars, start, Tick, End, SimNext, SimBarrier, SimRecv, SimSend, SimExit
  <2> QED BY <2>1 DEF BoxInv
<1>3. ASSUME NEW p \in Phys, MainNext(p) PROVE BoxInv'
  <2>1. /\ box' = box
        /\ pc' = pc \/ (pc[p] = "none" /\ pc' = [pc EXCEPT ![p] = "sleep"])
    BY <1>3 DEF MainNext, InitFails, InitDone, CreateThread, Wait_For_End, WaitedForEnd, Close,
                Exit, StartInv, start
  <2>2. CASE pc' = pc
    BY <2>1, <2>2 DEF BoxInv
  <2> QED BY <1>1, <2>1, <2>2, BoxStays
<1>4. ASSUME NEW p \in Phys, ThreadNext(p), ~FrameSent(p) PROVE BoxInv'
  <2>1. /\ box' = box
        /\ \E a \in Places :
             /\ pc' = [pc EXCEPT ![p] = a]
             /\ a \in {"none", "sleep", "barrier", "pps1"} => pc[p] \in {"sleep", "barrier"}
             /\ a \in {"frame", "sent"} => pc[p] \in {"pps1", "frame"}
    <3>1. CASE Awake(p) \/ Running(p) \/ wait_PPS_signal(p) \/ wait_PPS_signal2(p) \/ startSim(p)
      BY <3>1 DEF Awake, Running, wait_PPS_signal, wait_PPS_signal2, startSim, start, Places
    <3>2. CASE \/ Sample(p) \/ SendInputs(p) \/ RecvOutputs(p) \/ EndStep(p)
               \/ StopSim(p) \/ Statistics(p) \/ MarkEnd(p)
      BY ZenonT(30), <3>2
      DEF Sample, SendInputs, RecvOutputs, NextProc, EndStep, StopSim, Statistics,
          MarkEnd, start, Places, Stepping, Stopped
    <3> QED BY <1>4, <3>1, <3>2 DEF ThreadNext
  <2> QED BY <1>1, <2>1, BoxStays
<1>5. ASSUME NEW p \in Phys, FrameSent(p) PROVE BoxInv'
  <2>1. /\ pc[p] = "sent" /\ BoxCount[p] \in Nat \ {0}
        /\ box[p] \in [nth : 1 .. BoxCount[p] + 1, frame : 1 .. 3] /\ box[p].nth <= BoxCount[p]
    BY <1>5, RtAssumption DEF FrameSent, BoxInv
  <2>2. PICK n \in 1 .. BoxCount[p], f \in 1 .. 3 : n = box[p].nth /\ f = box[p].frame
    BY <2>1
  <2>3. CASE f < 3
    <3>1. /\ box' = [box EXCEPT ![p] = [box[p] EXCEPT !.frame = f + 1]]
          /\ pc' = [pc EXCEPT ![p] = "frame"]
      BY <1>5, <2>2, <2>3 DEF FrameSent
    <3>2. box'[p] = [box[p] EXCEPT !.frame = f + 1] /\ pc'[p] = "frame"
      BY <3>1, <1>1 DEF BoxInv
    <3>3. /\ box'[p] \in [nth : 1 .. BoxCount[p] + 1, frame : 1 .. 3]
          /\ box'[p].nth <= BoxCount[p]
      BY <3>2, <2>1, <2>2, <2>3
    <3> QED BY <3>1, <3>2, <3>3, <1>1 DEF BoxInv
  <2>4. CASE f = 3
    <3>1. /\ box' = [box EXCEPT ![p] = [nth |-> n + 1, frame |-> 1]]
          /\ pc' = [pc EXCEPT ![p] = IF n = BoxCount[p] THEN "pps2" ELSE "frame"]
      BY <1>5, <2>2, <2>4 DEF FrameSent
    <3>2. /\ box'[p] = [nth |-> n + 1, frame |-> 1]
          /\ pc'[p] = IF n = BoxCount[p] THEN "pps2" ELSE "frame"
      BY <3>1, <1>1 DEF BoxInv
    <3>3. n + 1 \in 1 .. BoxCount[p] + 1 /\ (n # BoxCount[p] => n + 1 <= BoxCount[p])
      BY <2>1
    <3> QED BY <3>1, <3>2, <3>3, <1>1 DEF BoxInv
  <2> QED BY <2>3, <2>4
<1> QED BY <1>2, <1>3, <1>4, <1>5 DEF Next, MainNext

\* The seconds after a whole second are whole, and there is none between.
LEMMA WholeSeconds ==
  ASSUME NEW S \in Int, S % SEC = 0
  PROVE  /\ (S + SEC) % SEC = 0
         /\ \A t \in Int : S < t /\ t <= S + SEC /\ t % SEC = 0 => t = S + SEC
<1>1. SEC \in Nat /\ SEC > 0
  BY RtAssumption
<1>2. PICK k \in Int : S = SEC * k
  <2>1. S \div SEC \in Int /\ S = SEC * (S \div SEC) + (S % SEC)
    BY <1>1, DivisionTheorem
  <2> QED BY <1>1, <2>1
<1>3. (S + SEC) % SEC = 0
  <2>1. k + 1 \in Int /\ S + SEC \in Int /\ S + SEC = SEC * (k + 1) + 0 /\ 0 \in 0 .. SEC - 1
    BY <1>1, <1>2
  <2> QED BY <1>1, <2>1, RemainderUnique
<1>4. ASSUME NEW t \in Int, S < t, t <= S + SEC, t % SEC = 0
      PROVE  t = S + SEC
  <2>1. PICK j \in Int : t = SEC * j
    <3>1. t \div SEC \in Int /\ t = SEC * (t \div SEC) + (t % SEC)
      BY <1>1, DivisionTheorem
    <3> QED BY <1>1, <1>4, <3>1
  <2>2. k + 1 - j \in Int /\ SEC * (k + 1 - j) = S + SEC - t
    BY <1>1, <1>2, <2>1
  <2>3. SEC * (k + 1 - j) < SEC /\ -SEC < SEC * (k + 1 - j)
    BY <1>1, <1>4, <2>2
  <2>4. k + 1 - j = 0
    BY <1>1, <2>2, <2>3, SmallMultiple
  <2>5. SEC * (k + 1 - j) = 0
    BY <1>1, <2>4
  <2> QED BY <1>1, <2>2, <2>5
<1> QED BY <1>3, <1>4

\* What is said of a process is about that process and the time alone.
LEMMA TimeOfOthers ==
  ASSUME NEW p \in Phys, TimeOf(p),
         UNCHANGED <<now, pc[p], since[p], box[p], started[p], begun[p]>>
  PROVE  TimeOf(p)'
BY DEF TimeOf, BeforeStart, DuringStart, AfterStart, StartedFrom, Tenths, Commands

\* Before the first second, and after the second, places are alike.
LEMMA QuietTime ==
  ASSUME TimeInv, UNCHANGED <<now, box, started, begun>>,
         \A p \in Phys :
           \/ pc'[p] = pc[p] /\ since'[p] = since[p]
           \/ /\ pc[p] \in {"none", "sleep", "barrier", "pps1"}
              /\ pc'[p] \in {"none", "sleep", "barrier", "pps1"}
           \/ /\ pc[p] \in {"step"} \cup Stepping \cup Stopped
              /\ pc'[p] \in {"step"} \cup Stepping \cup Stopped
  PROVE  TimeInv'
<1>1. ASSUME NEW p \in Phys PROVE TimeOf(p)'
  <2>1. TimeOf(p) /\ UNCHANGED <<box[p], started[p], begun[p]>>
    BY DEF TimeInv
  <2>2. CASE pc'[p] = pc[p] /\ since'[p] = since[p]
    BY <2>1, <2>2, TimeOfOthers
  <2>3. CASE /\ pc[p] \in {"none", "sleep", "barrier", "pps1"}
             /\ pc'[p] \in {"none", "sleep", "barrier", "pps1"}
    BY <2>1, <2>3 DEF TimeOf, BeforeStart, DuringStart, AfterStart, Commands, Stepping, Stopped
  <2>4. CASE /\ pc[p] \in {"step"} \cup Stepping \cup Stopped
             /\ pc'[p] \in {"step"} \cup Stepping \cup Stopped
    BY <2>1, <2>4 DEF TimeOf, BeforeStart, DuringStart, AfterStart, StartedFrom, Commands,
                      Stepping, Stopped
  <2> QED BY <2>2, <2>3, <2>4
<1> QED BY <1>1 DEF TimeInv

\* Time stands still while a process has a frame to send; it passes neither
\* the end of a sleep nor the second that a process waits for.
LEMMA TickTime ==
  ASSUME FewBoxes, SimpleInv, TimeInv, Tick
  PROVE  TimeInv'
<1>1. /\ now' = now + 1 /\ now \in Nat /\ UNCHANGED <<pc, since, box, started, begun>>
  BY DEF Tick, SimpleInv, start
<1>2. ASSUME NEW p \in Phys PROVE TimeOf(p)'
  <2>1. /\ TimeOf(p) /\ since[p] \in Nat
        /\ UNCHANGED <<pc[p], since[p], box[p], started[p], begun[p]>>
    BY <1>1 DEF TimeInv, SimpleInv
  <2>2. /\ pc[p] # "frame"
        /\ pc[p] = "sent" => now < since[p]
        /\ pc[p] = "pps2" => ~(now % SEC = 0 /\ now > since[p])
    BY DEF Tick, Asleep, AtPPS, Starving
  <2>3. /\ started'[p] \in Seq(Commands(p)')
        /\ BeforeStart(p)'
    BY <2>1 DEF TimeOf, BeforeStart, Commands
  <2>4. DuringStart(p)'
    <3>1. CASE pc[p] = "sent"
      <4>1. /\ DuringStart(p) /\ now < since[p]
        BY <2>1, <2>2, <3>1 DEF TimeOf
      <4>2. now' <= since'[p]
        BY <4>1, <1>1, <2>1
      <4> QED BY <2>1, <3>1, <4>1, <4>2 DEF DuringStart, StartedFrom, Tenths
    <3>2. CASE pc[p] # "sent"
      BY <2>1, <2>2, <3>2 DEF DuringStart
    <3> QED BY <3>1, <3>2
  <2>5. AfterStart(p)'
    <3>1. CASE pc[p] = "pps2"
      <4> DEFINE S == since[p] - 3 * BoxCount[p]
      <4>1. /\ BoxCount[p] \in Nat \ {0} /\ SEC \in Nat \ {0} /\ 3 * BoxCount[p] < SEC
        BY RtAssumption DEF FewBoxes
      <4>2. AfterStart(p) /\ S \in Int /\ S % SEC = 0 /\ since[p] <= now /\ now <= S + SEC
        BY <2>1, <3>1, <4>1 DEF TimeOf, AfterStart, StartedFrom
      <4>3. now # S + SEC
        <5>1. SUFFICES ASSUME now = S + SEC PROVE FALSE
          OBVIOUS
        <5>2. now > since[p]
          BY <5>1, <2>1, <4>1
        <5>3. now % SEC = 0
          BY <5>1, <4>1, <4>2, WholeSeconds
        <5> QED BY <2>2, <3>1, <5>2, <5>3
      <4>4. since'[p] <= now' /\ now' <= S + SEC
        <5>1. since'[p] = since[p] /\ since[p] <= now
          BY <2>1, <4>2
        <5>2. since[p] \in Nat /\ S \in Int /\ SEC \in Nat /\ now \in Nat /\ now <= S + SEC
          BY <1>1, <2>1, <4>1, <4>2
        <5> HIDE DEF S
        <5>3. now + 1 <= S + SEC
          BY <4>3, <5>2
        <5>4. since[p] <= now + 1
          BY <5>1, <5>2
        <5> QED BY <1>1, <5>1, <5>3, <5>4
      <4>5. now' <= since'[p] - 3 * BoxCount[p] + SEC
        BY <2>1, <4>4
      <4> HIDE DEF S
      <4> QED BY <2>1, <3>1, <4>2, <4>4, <4>5 DEF AfterStart, StartedFrom
    <3>2. CASE pc[p] # "pps2"
      BY <2>1, <3>2 DEF TimeOf, AfterStart, StartedFrom
    <3> QED BY <3>1, <3>2
  <2> QED BY <2>3, <2>4, <2>5 DEF TimeOf
<1> QED BY <1>1, <1>2 DEF TimeInv

\* A step of the thread of one process.
LEMMA OneProcess ==
  ASSUME TimeInv, NEW p \in Phys, now' = now, DOMAIN box' = Phys, DOMAIN started' = Phys,
         \A q \in Phys \ {p} : UNCHANGED <<pc[q], since[q], box[q], started[q], begun[q]>>,
         TimeOf(p)'
  PROVE  TimeInv'
<1>1. ASSUME NEW q \in Phys \ {p} PROVE TimeOf(q)'
  BY TimeOfOthers DEF TimeInv
<1> QED BY <1>1 DEF TimeInv

\* The start begins at a whole second.
LEMMA FirstSecond ==
  ASSUME StepsInv, SimpleInv, TimeInv, NEW p \in Phys, wait_PPS_signal(p)
  PROVE  TimeInv'
<1>1. /\ pc[p] = "pps1" /\ pc' = [pc EXCEPT ![p] = "frame"] /\ now % SEC = 0
      /\ UNCHANGED <<now, since, box, started, begun>>
  BY DEF wait_PPS_signal, PPS, start
<1>2. pc \in [Phys -> Places] /\ now \in Nat /\ DOMAIN box = Phys /\ DOMAIN started = Phys
  BY DEF StepsInv, TypeInv, SimpleInv, TimeInv
<1>3. /\ started[p] = <<>> /\ box[p] = [nth |-> 1, frame |-> 1] /\ begun[p] = 0
      /\ started[p] \in Seq(Commands(p))
  BY <1>1 DEF TimeInv, TimeOf, BeforeStart
<1>4. pc'[p] = "frame"
  BY <1>1, <1>2
<1>5. /\ now' - Tenths(p)' = now /\ box'[p].nth = 1 /\ box'[p].frame = 1
      /\ box'[p].nth - 1 = 0
  BY <1>1, <1>2, <1>3 DEF Tenths
<1>6. StartedFrom(p, now, 0)'
  BY <1>1, <1>2, <1>3 DEF StartedFrom
<1>7. StartedFrom(p, now - Tenths(p), box[p].nth - 1)'
  BY <1>5, <1>6, <1>1 DEF StartedFrom
<1>8. DuringStart(p)'
  <2>1. 1 \in 1 .. BoxCount[p] /\ 1 \in 1 .. 3
    BY RtAssumption
  <2> QED BY <2>1, <1>1, <1>3, <1>4, <1>5, <1>7 DEF DuringStart
<1>9. TimeOf(p)'
  BY <1>1, <1>3, <1>4, <1>8 DEF TimeOf, BeforeStart, AfterStart, Commands, Stepping, Stopped
<1> QED BY <1>1, <1>2, <1>9, OneProcess

\* The exchange begins with the next whole second.
LEMMA SecondSecond ==
  ASSUME FewBoxes, StepsInv, SimpleInv, TimeInv, NEW p \in Phys, wait_PPS_signal2(p)
  PROVE  TimeInv'
<1>1. /\ pc[p] = "pps2" /\ pc' = [pc EXCEPT ![p] = "step"]
      /\ now % SEC = 0 /\ now > since[p]
      /\ begun' = [begun EXCEPT ![p] = now]
      /\ UNCHANGED <<now, since, box, started>>
  BY DEF wait_PPS_signal2, PPS
<1>2. /\ pc \in [Phys -> Places] /\ now \in Nat /\ since \in [Phys -> Nat]
      /\ begun \in [Phys -> Nat] /\ DOMAIN box = Phys /\ DOMAIN started = Phys
  BY DEF StepsInv, TypeInv, SimpleInv, TimeInv
<1>3. pc'[p] = "step" /\ begun'[p] = now
  BY <1>1, <1>2
<1>4. /\ BoxCount[p] \in Nat \ {0} /\ SEC \in Nat \ {0} /\ 3 * BoxCount[p] < SEC
  BY RtAssumption DEF FewBoxes
<1>5. PICK S \in Int : S = since[p] - 3 * BoxCount[p]
  BY <1>2, <1>4
<1>6. /\ TimeOf(p) /\ StartedFrom(p, S, BoxCount[p]) /\ now <= S + SEC
      /\ box[p] = [nth |-> BoxCount[p] + 1, frame |-> 1]
  BY <1>1, <1>5 DEF TimeInv, TimeOf, AfterStart
<1>7. now = S + SEC
  <2>1. S < now
    BY <1>1, <1>2, <1>4, <1>5
  <2> QED BY <2>1, <1>1, <1>2, <1>6, WholeSeconds DEF StartedFrom
<1>8. begun'[p] - SEC = S
  BY <1>3, <1>4, <1>7
<1>9. StartedFrom(p, begun[p] - SEC, BoxCount[p])'
  BY <1>1, <1>6, <1>8 DEF StartedFrom
<1>10. TimeOf(p)'
  BY <1>1, <1>3, <1>6, <1>9
     DEF TimeOf, BeforeStart, DuringStart, AfterStart, Commands, Stepping, Stopped
<1>11. \A q \in Phys \ {p} : UNCHANGED <<pc[q], since[q], box[q], started[q], begun[q]>>
  BY <1>1, <1>2
<1> QED BY <1>1, <1>2, <1>10, <1>11, OneProcess

\* The third frame of a box starts it.
LEMMA StartSimTime ==
  ASSUME StepsInv, SimpleInv, TimeInv, NEW p \in Phys, startSim(p)
  PROVE  TimeInv'
<1>1. /\ pc[p] = "frame" /\ pc' = [pc EXCEPT ![p] = "sent"]
      /\ since' = [since EXCEPT ![p] = now + 1]
      /\ UNCHANGED <<now, box, begun>>
      /\ started' = [started EXCEPT ![p] =
           IF box[p].frame = 3
           THEN Append(started[p], [box |-> StartOrder(p)[box[p].nth], at |-> now]) ELSE started[p]]
  BY DEF startSim
<1>2. /\ pc \in [Phys -> Places] /\ now \in Nat /\ since \in [Phys -> Nat]
      /\ DOMAIN box = Phys /\ DOMAIN started = Phys /\ TimeOf(p)
      /\ BoxCount[p] \in Nat \ {0} /\ SEC \in Nat \ {0}
  BY RtAssumption DEF StepsInv, TypeInv, SimpleInv, TimeInv
<1>3. /\ pc'[p] = "sent" /\ since'[p] = now + 1
      /\ started'[p] = IF box[p].frame = 3
           THEN Append(started[p], [box |-> StartOrder(p)[box[p].nth], at |-> now]) ELSE started[p]
  BY <1>1, <1>2
<1>4. /\ box[p] \in [nth : 1 .. BoxCount[p], frame : 1 .. 3] /\ begun[p] = 0
      /\ StartedFrom(p, now - Tenths(p), box[p].nth - 1)
      /\ started[p] \in Seq(Commands(p))
  BY <1>1, <1>2 DEF TimeOf, DuringStart
<1>5. PICK S \in Int : S = now - Tenths(p)
  BY <1>2, <1>4 DEF Tenths
<1>6. PICK n \in 1 .. BoxCount[p] : n = box[p].nth
  BY <1>4
<1>7. /\ S % SEC = 0 /\ Len(started[p]) = n - 1
      /\ \A i \in 1 .. n - 1 : started[p][i].at = S + 3 * (i - 1) + 2
  BY <1>4, <1>5, <1>6 DEF StartedFrom
<1>8. since'[p] - 1 - Tenths(p)' = S
  <2>1. Tenths(p)' = Tenths(p) /\ Tenths(p) \in Int
    BY <1>1, <1>2, <1>4 DEF Tenths
  <2> QED BY <2>1, <1>2, <1>3, <1>5
<1>9. /\ started'[p] \in Seq(Commands(p)')
      /\ StartedFrom(p, S, IF box[p].frame = 3 THEN n ELSE n - 1)'
  <2>1. CASE box[p].frame = 3
    <3>1. PICK e \in Commands(p) : e = [box |-> StartOrder(p)[n], at |-> now]
      BY <1>2 DEF Commands
    <3>2. e.at = S + 3 * (n - 1) + 2
      <4>1. Tenths(p) = 3 * (n - 1) + 2
        BY <2>1, <1>6 DEF Tenths
      <4>2. e.at = now
        BY <3>1
      <4> QED BY <4>1, <4>2, <1>2, <1>5, <1>6
    <3>3. started'[p] = Append(started[p], e)
      BY <2>1, <1>3, <1>6, <3>1
    <3>4. /\ started'[p] \in Seq(Commands(p)) /\ Len(started'[p]) = Len(started[p]) + 1
          /\ \A i \in 1 .. Len(started[p]) : started'[p][i] = started[p][i]
          /\ started'[p][Len(started[p]) + 1] = e
      BY <3>3, <1>4, AppendFacts
    <3>5. /\ Len(started'[p]) = n
          /\ \A i \in 1 .. n : started'[p][i].at = S + 3 * (i - 1) + 2
      <4>1. Len(started[p]) = n - 1 /\ Len(started[p]) + 1 = n
        BY <1>7
      <4>2. ASSUME NEW i \in 1 .. n PROVE started'[p][i].at = S + 3 * (i - 1) + 2
        <5>1. CASE i = n
          BY <5>1, <4>1, <3>2, <3>4
        <5>2. CASE i # n
          <6>1. i \in 1 .. n - 1
            BY <5>2
          <6> QED BY SMTT(30), <6>1, <4>1, <3>4, <1>7
        <5> QED BY <5>1, <5>2
      <4> QED BY <4>1, <4>2, <3>4
    <3> QED BY <2>1, <1>1, <1>7, <3>4, <3>5 DEF StartedFrom, Commands
  <2>2. CASE box[p].frame # 3
    BY <2>2, <1>1, <1>3, <1>4, <1>7 DEF StartedFrom, Commands
  <2> QED BY <2>1, <2>2
<1>10. StartedFrom(p, since[p] - 1 - Tenths(p),
                   IF box[p].frame = 3 THEN box[p].nth ELSE box[p].nth - 1)'
  BY <1>1, <1>6, <1>8, <1>9 DEF StartedFrom
<1>11. DuringStart(p)'
  <2>1. now' <= since'[p]
    BY <1>1, <1>2, <1>3
  <2> QED BY <2>1, <1>1, <1>3, <1>4, <1>10 DEF DuringStart
<1>12. TimeOf(p)'
  BY <1>1, <1>3, <1>9, <1>11 DEF TimeOf, BeforeStart, AfterStart, Stepping, Stopped
<1>13. DOMAIN started' = Phys
       /\ \A q \in Phys \ {p} : UNCHANGED <<pc[q], since[q], box[q], started[q], begun[q]>>
  BY <1>1, <1>2
<1> QED BY <1>1, <1>2, <1>12, <1>13, OneProcess

\* The sleep after a frame is over: the next frame, or the next box, or the
\* second after the start.
LEMMA FrameSentTime ==
  ASSUME FewBoxes, StepsInv, SimpleInv, TimeInv, NEW p \in Phys, FrameSent(p)
  PROVE  TimeInv'
<1>1. /\ pc[p] = "sent" /\ now >= since[p]
      /\ since' = [since EXCEPT ![p] = now]
      /\ UNCHANGED <<now, started, begun>>
      /\ \/ /\ box[p].frame < 3
            /\ box' = [box EXCEPT ![p].frame = @ + 1] /\ pc' = [pc EXCEPT ![p] = "frame"]
         \/ /\ ~(box[p].frame < 3)
            /\ box' = [box EXCEPT ![p] = [nth |-> box[p].nth + 1, frame |-> 1]]
            /\ pc' = [pc EXCEPT ![p] = IF box[p].nth = BoxCount[p] THEN "pps2" ELSE "frame"]
  BY DEF FrameSent
<1>2. /\ pc \in [Phys -> Places] /\ now \in Nat /\ since \in [Phys -> Nat]
      /\ DOMAIN box = Phys /\ DOMAIN started = Phys /\ TimeOf(p)
      /\ BoxCount[p] \in Nat \ {0} /\ SEC \in Nat \ {0} /\ 3 * BoxCount[p] < SEC
  BY RtAssumption DEF StepsInv, TypeInv, SimpleInv, TimeInv, FewBoxes
<1>3. /\ box[p] \in [nth : 1 .. BoxCount[p], frame : 1 .. 3] /\ begun[p] = 0
      /\ now <= since[p]
      /\ StartedFrom(p, since[p] - 1 - Tenths(p),
                     IF box[p].frame = 3 THEN box[p].nth ELSE box[p].nth - 1)
      /\ started[p] \in Seq(Commands(p))
  BY <1>1, <1>2 DEF TimeOf, DuringStart
<1>4. since[p] = now /\ since'[p] = now
  BY <1>1, <1>2, <1>3
<1>5. PICK n \in 1 .. BoxCount[p], f \in 1 .. 3 : n = box[p].nth /\ f = box[p].frame
  BY <1>3
<1>6. PICK S \in Int : S = now - 1 - (3 * (n - 1) + f - 1)
  BY <1>2
<1>7. StartedFrom(p, S, IF f = 3 THEN n ELSE n - 1)
  BY <1>3, <1>4, <1>5, <1>6 DEF Tenths
<1>8. DOMAIN box' = Phys
      /\ \A q \in Phys \ {p} : UNCHANGED <<pc[q], since[q], box[q], started[q], begun[q]>>
  BY <1>1, <1>2
<1>9. CASE f < 3
  <2>1. pc'[p] = "frame" /\ box'[p].nth = n /\ box'[p].frame = f + 1
    <3>1. box' = [box EXCEPT ![p] = [box[p] EXCEPT !.frame = f + 1]] /\ pc' = [pc EXCEPT ![p] = "frame"]
      BY <1>1, <1>5, <1>9
    <3>2. box'[p] = [box[p] EXCEPT !.frame = f + 1]
      BY <3>1, <1>2
    <3> QED BY <3>1, <3>2, <1>2, <1>3, <1>5
  <2>2. now' - Tenths(p)' = S
    BY <1>1, <1>2, <1>6, <2>1 DEF Tenths
  <2>3. StartedFrom(p, now - Tenths(p), box[p].nth - 1)'
    BY <1>1, <1>7, <1>9, <2>1, <2>2 DEF StartedFrom
  <2>4. DuringStart(p)'
    <3>1. box'[p] = [box[p] EXCEPT !.frame = f + 1] /\ f + 1 \in 1 .. 3
      BY <1>1, <1>2, <1>5, <1>9
    <3>2. box'[p] \in [nth : 1 .. BoxCount[p], frame : 1 .. 3]
      BY <1>3, <3>1
    <3> QED BY <1>1, <1>3, <2>1, <2>3, <3>2 DEF DuringStart
  <2>5. TimeOf(p)'
    BY <1>1, <1>3, <2>1, <2>4 DEF TimeOf, BeforeStart, AfterStart, Commands, Stepping, Stopped
  <2> QED BY <1>1, <1>2, <1>8, <2>5, OneProcess
<1>10. CASE f = 3
  <2>1. /\ box'[p] = [nth |-> n + 1, frame |-> 1]
        /\ pc'[p] = IF n = BoxCount[p] THEN "pps2" ELSE "frame"
    BY <1>1, <1>2, <1>5, <1>10
  <2>2. CASE n = BoxCount[p]
    <3>1. /\ pc'[p] = "pps2" /\ box'[p] = [nth |-> BoxCount[p] + 1, frame |-> 1]
      BY <2>1, <2>2
    <3>2. since'[p] - 3 * BoxCount[p] = S
      BY <1>2, <1>4, <1>6, <1>10, <2>2
    <3>3. StartedFrom(p, since[p] - 3 * BoxCount[p], BoxCount[p])'
      BY <1>1, <1>7, <1>10, <2>2, <3>2 DEF StartedFrom
    <3>4. since'[p] <= now' /\ now' <= since'[p] - 3 * BoxCount[p] + SEC
      BY <1>1, <1>2, <1>4
    <3>5. AfterStart(p)'
      BY <1>1, <1>3, <3>1, <3>3, <3>4 DEF AfterStart
    <3>6. TimeOf(p)'
      BY <1>1, <1>3, <3>1, <3>5 DEF TimeOf, BeforeStart, DuringStart, Commands
    <3> QED BY <1>1, <1>2, <1>8, <3>6, OneProcess
  <2>3. CASE n # BoxCount[p]
    <3>1. pc'[p] = "frame" /\ box'[p].nth = n + 1 /\ box'[p].frame = 1
      BY <2>1, <2>3
    <3>2. now' - Tenths(p)' = S
      BY <1>1, <1>2, <1>6, <1>10, <3>1 DEF Tenths
    <3>3. StartedFrom(p, now - Tenths(p), box[p].nth - 1)'
      BY <1>1, <1>7, <1>10, <3>1, <3>2 DEF StartedFrom
    <3>4. DuringStart(p)'
      <4>1. n + 1 \in 1 .. BoxCount[p] /\ 1 \in 1 .. 3
            /\ box'[p] = [nth |-> n + 1, frame |-> 1]
        BY <1>2, <2>1, <2>3
      <4> QED BY <4>1, <1>1, <1>3, <3>1, <3>3 DEF DuringStart
    <3>5. TimeOf(p)'
      BY <1>1, <1>3, <3>1, <3>4 DEF TimeOf, BeforeStart, AfterStart, Commands, Stepping, Stopped
    <3> QED BY <1>1, <1>2, <1>8, <3>5, OneProcess
  <2> QED BY <2>2, <2>3
<1> QED BY <1>9, <1>10

\* The other steps of main and of the thread are no part of the start.
LEMMA TimeKept ==
  ASSUME FewBoxes, StepsInv, StartInv, SimpleInv, TimeInv, [Next]_vars
  PROVE  TimeInv'
<1>1. pc \in [Phys -> Places] /\ DOMAIN main = Phys /\ DOMAIN since = Phys
  BY DEF StepsInv, TypeInv, StartInv, SimpleInv
<1>2. CASE UNCHANGED vars \/ End \/ \E s \in Sims : SimNext(s)
  <2>1. UNCHANGED <<now, pc, since, box, started, begun>>
    BY <1>2 DEF End, vars, start, SimNext, SimBarrier, SimRecv, SimSend, SimExit
  <2> QED BY <2>1, QuietTime
<1>3. CASE Tick
  BY <1>3, TickTime
<1>4. ASSUME NEW p \in Phys, MainNext(p) PROVE TimeInv'
  <2>1. CASE CreateThread(p)
    <3>1. /\ pc[p] = "none" /\ pc' = [pc EXCEPT ![p] = "sleep"]
          /\ since' = [since EXCEPT ![p] = now + 2 * SEC]
          /\ UNCHANGED <<now, box, started, begun>>
      BY <2>1 DEF CreateThread, StartInv
    <3>2. pc'[p] = "sleep" /\ \A q \in Phys \ {p} : pc'[q] = pc[q] /\ since'[q] = since[q]
      BY <3>1, <1>1
    <3> QED BY <3>1, <3>2, QuietTime
  <2>2. CASE ~CreateThread(p)
    <3>1. UNCHANGED <<now, pc, since, box, started, begun>>
      BY <1>4, <2>2 DEF MainNext, InitFails, InitDone, Wait_For_End, WaitedForEnd, Close, Exit, start
    <3> QED BY <3>1, QuietTime
  <2> QED BY <2>1, <2>2
<1>5. ASSUME NEW p \in Phys, ThreadNext(p) PROVE TimeInv'
  <2>1. CASE wait_PPS_signal(p) \/ wait_PPS_signal2(p)
    BY <2>1, FirstSecond, SecondSecond
  <2>2. CASE startSim(p) \/ FrameSent(p)
    BY <2>2, StartSimTime, FrameSentTime
  <2>3. CASE Awake(p) \/ Running(p)
    <3>1. /\ UNCHANGED <<now, box, started, begun>>
          /\ pc[p] \in {"sleep", "barrier"}
          /\ \E a \in {"barrier", "pps1"} : pc' = [pc EXCEPT ![p] = a]
          /\ since' = since \/ since' = [since EXCEPT ![p] = now]
      BY <2>3 DEF Awake, Running, start
    <3>2. pc'[p] \in {"barrier", "pps1"} /\ \A q \in Phys \ {p} : pc'[q] = pc[q] /\ since'[q] = since[q]
      BY <3>1, <1>1
    <3> QED BY <3>1, <3>2, QuietTime
  <2>4. CASE \/ Sample(p) \/ SendInputs(p) \/ RecvOutputs(p) \/ EndStep(p)
             \/ StopSim(p) \/ Statistics(p) \/ MarkEnd(p)
    <3>1. /\ UNCHANGED <<now, since, box, started, begun>>
          /\ pc[p] \in {"step"} \cup Stepping \cup Stopped
          /\ \E a \in {"step"} \cup Stepping \cup Stopped : pc' = [pc EXCEPT ![p] = a]
      BY <2>4 DEF Sample, SendInputs, RecvOutputs, NextProc, EndStep, StopSim, Statistics, MarkEnd,
                  start, Stepping, Stopped
    <3>2. /\ pc'[p] \in {"step"} \cup Stepping \cup Stopped
          /\ \A q \in Phys \ {p} : pc'[q] = pc[q]
      BY <3>1, <1>1
    <3> QED BY <3>1, <3>2, QuietTime
  <2> QED BY <1>5, <2>1, <2>2, <2>3, <2>4 DEF ThreadNext
<1> QED BY <1>2, <1>3, <1>4, <1>5 DEF Next

\* What holds of the places, the time and the counters in every state.
LEMMA TypesHold == Spec => [](IInv /\ SimpleInv /\ RangeInv /\ BoxInv)
<1>1. Init => SimpleInv /\ RangeInv /\ BoxInv
  BY InitTimes
<1>2. IInv /\ SimpleInv /\ RangeInv /\ BoxInv /\ [Next]_vars => SimpleInv' /\ RangeInv' /\ BoxInv'
  BY SimpleKept, RangeKept, BoxKept DEF IInv
<1> QED BY <1>1, <1>2, InvariantHolds, PTL DEF Spec

\* While the boxes are started, the time tells how many frames were sent.
LEMMA TimesHold == ASSUME FewBoxes PROVE Spec => []TimeInv
<1>1. Init => TimeInv
  BY InitTimes
<1>2. IInv /\ SimpleInv /\ TimeInv /\ [Next]_vars => TimeInv'
  BY TimeKept DEF IInv
<1> QED BY <1>1, <1>2, TypesHold, PTL DEF Spec

\* The boxes of every process are started one after the other within a second
\* and the exchange begins at the next, when the three frames of all of them
\* fit into a second: up to three boxes with sleeps of a tenth of a second
\* (startSim; one more is allowed by MAX_PID_NUM_PER_PROC).
THEOREM StartsInTime == ASSUME FewBoxes PROVE Spec => []StartsWithinSecond
<1>1. IInv /\ SimpleInv /\ TimeInv => StartsWithinSecond
  <2> SUFFICES ASSUME IInv, SimpleInv, TimeInv, NEW p \in Phys, begun[p] > 0
               PROVE  /\ begun[p] % SEC = 0
                      /\ Len(started[p]) = BoxCount[p]
                      /\ \A n \in DOMAIN started[p] :
                           begun[p] - SEC <= started[p][n].at /\ started[p][n].at < begun[p]
    BY DEF StartsWithinSecond
  <2>1. pc[p] \in {"step"} \cup Stepping \cup Stopped
    <3>1. pc[p] \in Places /\ begun[p] # 0
      BY DEF IInv, StepsInv, TypeInv
    <3>2. BeforeStart(p) /\ DuringStart(p) /\ AfterStart(p)
      BY DEF TimeInv, TimeOf
    <3>3. pc[p] \notin {"none", "sleep", "barrier", "pps1"}
      BY <3>1, <3>2 DEF BeforeStart
    <3>4. pc[p] \notin {"frame", "sent"}
      BY <3>1, <3>2 DEF DuringStart
    <3>5. pc[p] # "pps2"
      BY <3>1, <3>2 DEF AfterStart
    <3> QED BY <3>1, <3>3, <3>4, <3>5 DEF Places
  <2>2. /\ StartedFrom(p, begun[p] - SEC, BoxCount[p]) /\ started[p] \in Seq(Commands(p))
    BY <2>1 DEF TimeInv, TimeOf, AfterStart, Stepping, Stopped
  <2>3. /\ BoxCount[p] \in Nat \ {0} /\ SEC \in Nat \ {0} /\ 3 * BoxCount[p] < SEC /\ begun[p] \in Nat
    BY RtAssumption DEF FewBoxes, SimpleInv
  <2>4. PICK S \in Int : S = begun[p] - SEC
    BY <2>3
  <2>5. /\ S % SEC = 0 /\ Len(started[p]) = BoxCount[p] /\ DOMAIN started[p] = 1 .. BoxCount[p]
        /\ \A n \in 1 .. BoxCount[p] : started[p][n].at = S + 3 * (n - 1) + 2
    BY <2>2, <2>4 DEF StartedFrom
  <2>6. begun[p] % SEC = 0
    BY <2>3, <2>4, <2>5, WholeSeconds
  <2>7. ASSUME NEW n \in 1 .. BoxCount[p]
        PROVE  begun[p] - SEC <= started[p][n].at /\ started[p][n].at < begun[p]
    <3>1. started[p][n].at = S + 3 * (n - 1) + 2
      BY <2>5
    <3> QED BY <2>3, <2>4, <3>1
  <2> QED BY <2>5, <2>6, <2>7
<1> QED BY <1>1, TypesHold, TimesHold, PTL

\* Every counter and index of a process keeps to its range, for any number of
\* processes, boxes and steps: the loops over SimProc do not leave it, and no
\* step beyond the last is sent, received or held (RtEmtPhy, 715 to 834).
THEOREM TypeCorrect == Spec => []TypeOK
<1>1. IInv /\ SimpleInv /\ RangeInv /\ BoxInv => TypeOK
  <2> SUFFICES ASSUME IInv, SimpleInv, RangeInv, BoxInv PROVE TypeOK
    OBVIOUS
  <2>1. TypeInv /\ StepInv /\ ValsInv /\ NSteps \in Nat \ {0}
    BY RtAssumption DEF IInv, StepsInv
  <2>2. pc \in [Phys -> {"none", "sleep", "barrier", "pps1", "frame", "sent", "pps2", "step", "send",
                         "recv", "out", "stop", "stats", "mark", "end"}]
    BY <2>1 DEF TypeInv, Places, Stepping, Stopped
  <2>3. ASSUME NEW p \in Phys
        PROVE  /\ ITime[p] \in 1 .. NSteps + 1 /\ proc[p] \in 1 .. Len(SimProc[p])
               /\ box[p].nth \in 1 .. BoxCount[p] + 1 /\ box[p].frame \in 1 .. 3
               /\ vals[p] \in [Served(p) -> 0 .. NSteps]
    <3>1. ITime[p] \in 1 .. NSteps + 1
      BY <2>1 DEF TypeInv, RangeInv
    <3>2. proc[p] \in 1 .. Len(SimProc[p])
      BY <2>1 DEF TypeInv, Index
    <3>3. box[p].nth \in 1 .. BoxCount[p] + 1 /\ box[p].frame \in 1 .. 3
      BY DEF BoxInv
    <3>4. \A s \in Served(p) : vals[p][s] \in 0 .. NSteps
      <4>1. ASSUME NEW i \in Index(p) PROVE TakenNo(p, i) \in 0 .. NSteps
        <5>1. pc[p] \in {"recv", "out"} => ITime[p] <= NSteps
          BY <2>1 DEF StepInv, Stepping
        <5> QED BY <2>1, <3>1, <5>1 DEF TakenNo
      <4> QED BY <4>1, <2>1, Lists DEF ValsInv
    <3>5. vals[p] \in [Served(p) -> 0 .. NSteps]
      BY <2>1, <3>4 DEF TypeInv
    <3> QED BY <3>1, <3>2, <3>3, <3>5
  <2>4. ASSUME NEW s \in Sims
        PROVE  sim[s].ITime \in 1 .. NSteps /\ sim[s].got \subseteq PhysOf(s)
    BY <2>1 DEF TypeInv, SimStates, RangeInv
  <2> QED BY <2>2, <2>3, <2>4 DEF TypeOK, SimpleInv
<1> QED BY <1>1, TypesHold, PTL

-----------------------------------------------------------------------------
(***************************************************************************)
(* GpsClock, for every step DT shorter than a millisecond, whole or not,   *)
(* every delay of the threads and every number of steps: the 16-bit        *)
(* difference of two microseconds of a millisecond is their distance round *)
(* the millisecond, and from it a step begins early, or loses its phase,   *)
(* by no more than the fractions that global_us has lost.                  *)
(***************************************************************************)
\* Nor has a any other quotient.
LEMMA QuotientUnique ==
  ASSUME NEW m \in Nat, m > 0, NEW a \in Int, NEW q \in Int, NEW r \in 0 .. m - 1,
         a = m * q + r
  PROVE  a \div m = q /\ a % m = r
<1> DEFINE p == a \div m
<1>1. a % m = r
  BY RemainderUnique
<1>2. p \in Int /\ a = m * p + r
  BY <1>1, DivisionTheorem
<1> HIDE DEF p
<1>3. m * (p - q) = 0
  BY <1>2
<1>4. p - q = 0
  BY <1>2, <1>3, SmallMultiple
<1>5. p = q
  BY <1>2, <1>4
<1> QED BY <1>1, <1>5 DEF p

(***************************************************************************)
(* The operators of getSignal_NextDT.                                      *)
(***************************************************************************)
\* The difference in 16 bits, corrected above 60000, is the way from g to us
\* forward round the millisecond.
LEMMA ElapsedIsDistance ==
  ASSUME NEW us \in 0 .. US - 1, NEW g \in 0 .. US - 1
  PROVE  Elapsed(us, g) = IF us >= g THEN us - g ELSE us - g + US
<1> USE ClockAssumption
<1> DEFINE n == (us - g) % WORD
<1>0. WORD > 0
  OBVIOUS
<1>1. CASE us >= g
  <2>1. us - g \in 0 .. WORD - 1 /\ us - g = WORD * 0 + (us - g)
    BY <1>1
  <2>2. n = us - g
    BY <1>0, <2>1, RemainderUnique
  <2>3. ~(n > HIGH)
    BY <2>2
  <2> HIDE DEF n
  <2>4. (IF n > HIGH THEN (n + US) % WORD ELSE n) = us - g
    BY <2>2, <2>3
  <2> QED BY <1>1, <2>4 DEF Elapsed, n
<1>2. CASE us < g
  <2>1. us - g + WORD \in 0 .. WORD - 1 /\ us - g = WORD * (-1) + (us - g + WORD)
    BY <1>2
  <2>2. n = us - g + WORD
    BY <1>0, <2>1, RemainderUnique
  <2>3. n > HIGH
    BY <2>2
  <2>4. /\ us - g + US \in 0 .. WORD - 1
        /\ n + US \in Int
        /\ n + US = WORD * 1 + (us - g + US)
    BY <1>2, <2>2
  <2>5. (n + US) % WORD = us - g + US
    BY <1>0, <2>4, RemainderUnique
  <2> HIDE DEF n
  <2>6. (IF n > HIGH THEN (n + US) % WORD ELSE n) = us - g + US
    BY <2>3, <2>5
  <2> QED BY <1>2, <2>6 DEF Elapsed, n
<1> QED BY <1>1, <1>2

\* It is never more than the time that has really passed.
LEMMA ElapsedIsPast ==
  ASSUME NEW t \in Nat, NEW b \in Nat, b <= t
  PROVE  /\ Elapsed(t % US, b % US) \in Nat
         /\ Elapsed(t % US, b % US) <= t - b
<1> USE ClockAssumption
<1> DEFINE p == t \div US
<1> DEFINE r == t % US
<1> DEFINE q == b \div US
<1> DEFINE s == b % US
<1>1. p \in Int /\ r \in 0 .. US - 1 /\ t = US * p + r
  BY DivisionTheorem
<1>2. q \in Int /\ s \in 0 .. US - 1 /\ b = US * q + s
  BY DivisionTheorem
<1>3. Elapsed(r, s) = IF r >= s THEN r - s ELSE r - s + US
  BY <1>1, <1>2, ElapsedIsDistance
<1> HIDE DEF p, q, r, s
<1>4. US * (p - q) + r - s = t - b
  BY <1>1, <1>2
<1>5. CASE r >= s
  <2>1. p - q >= 0
    <3> SUFFICES ASSUME p - q <= -1 PROVE FALSE
      BY <1>1, <1>2
    <3>1. US * (p - q) <= -US
      BY <1>1, <1>2
    <3> QED BY <3>1, <1>1, <1>2, <1>4
  <2>2. US * (p - q) >= 0
    BY <2>1, <1>1, <1>2
  <2>3. r - s \in Nat /\ r - s <= t - b
    BY <2>2, <1>1, <1>2, <1>4, <1>5
  <2> QED BY <2>3, <1>3, <1>5 DEF r, s
<1>6. CASE r < s
  <2>1. p - q >= 1
    <3> SUFFICES ASSUME p - q <= 0 PROVE FALSE
      BY <1>1, <1>2
    <3>1. US * (p - q) <= 0
      BY <1>1, <1>2
    <3> QED BY <3>1, <1>1, <1>2, <1>4, <1>6
  <2>2. US * (p - q) >= US
    BY <2>1, <1>1, <1>2
  <2>3. r - s + US \in Nat /\ r - s + US <= t - b
    BY <2>2, <1>1, <1>2, <1>4, <1>6
  <2>4. Elapsed(r, s) = r - s + US
    BY <1>1, <1>2, <1>3, <1>6
  <2> QED BY <2>3, <2>4 DEF r, s
<1> QED BY <1>1, <1>2, <1>5, <1>6

\* The whole microseconds of a step, which are fewer than a millisecond has,
\* and its fraction.
Whole == DT \div FRAC
Fraction == DT % FRAC

LEMMA WholeAndFraction ==
  /\ FRAC \in Nat /\ FRAC > 0
  /\ Whole \in Nat /\ Whole > 0 /\ Whole < US
  /\ Fraction \in 0 .. FRAC - 1
  /\ DT = FRAC * Whole + Fraction
<1>1. FRAC \in Nat /\ FRAC > 0 /\ DT \in Nat /\ FRAC <= DT /\ DT < FRAC * US /\ US \in Nat
  BY ClockAssumption
<1>2. Whole \in Int /\ Fraction \in 0 .. FRAC - 1 /\ DT = FRAC * Whole + Fraction
  BY <1>1, DivisionTheorem DEF Whole, Fraction
<1>3. ~(Whole <= 0)
  <2> SUFFICES ASSUME Whole <= 0 PROVE FALSE
    OBVIOUS
  <2>1. FRAC * Whole <= 0
    BY <1>1, <1>2
  <2> QED BY <1>1, <1>2, <2>1
<1>4. ~(Whole >= US)
  <2> SUFFICES ASSUME Whole >= US PROVE FALSE
    OBVIOUS
  <2>1. FRAC * Whole >= FRAC * US
    BY <1>1, <1>2
  <2> QED BY <1>1, <1>2, <2>1
<1> QED BY <1>1, <1>2, <1>3, <1>4

\* What is stored of the sum of a microsecond and a step is its whole part ...
LEMMA TruncatedSum ==
  ASSUME NEW g \in Nat
  PROVE  Truncated(FRAC * g + DT) = g + Whole
<1>1. FRAC \in Nat /\ FRAC > 0 /\ Whole \in Nat /\ Fraction \in 0 .. FRAC - 1
  BY WholeAndFraction
<1>2. FRAC * g + DT = FRAC * (g + Whole) + Fraction
  BY <1>1, WholeAndFraction
<1>3. FRAC * g + DT \in Int /\ g + Whole \in Int
  BY <1>1, <1>2
<1> QED BY <1>1, <1>2, <1>3, QuotientUnique DEF Truncated

\* ... and a whole number is longer than a step if it is than the whole part.
LEMMA LongerThanWhole ==
  ASSUME NEW n \in Nat
  PROVE  Longer(n) <=> n > Whole
<1>1. FRAC \in Nat /\ FRAC > 0 /\ Whole \in Nat /\ Fraction \in 0 .. FRAC - 1
  BY WholeAndFraction
<1>2. ASSUME n > Whole PROVE Longer(n)
  <2>1. FRAC * n >= FRAC * (Whole + 1)
    BY <1>1, <1>2
  <2>2. FRAC * (Whole + 1) = FRAC * Whole + FRAC
    BY <1>1
  <2> QED BY <1>1, <2>1, <2>2, WholeAndFraction DEF Longer
<1>3. ASSUME n <= Whole PROVE ~Longer(n)
  <2>1. FRAC * n <= FRAC * Whole
    BY <1>1, <1>3
  <2> QED BY <1>1, <2>1, WholeAndFraction DEF Longer
<1> QED BY <1>1, <1>2, <1>3

\* global_us goes round the millisecond with the step.
LEMMA WrappedIsRemainder ==
  ASSUME NEW b \in Nat
  PROVE  Wrapped((b % US) + Whole) = (b + Whole) % US
<1> USE ClockAssumption, WholeAndFraction
<1> DEFINE q == b \div US
<1> DEFINE s == b % US
<1>1. q \in Int /\ s \in 0 .. US - 1 /\ b = US * q + s
  BY DivisionTheorem
<1> HIDE DEF q, s
<1>2. CASE s + Whole > US - 1
  <2> DEFINE k == q + 1
  <2>1. /\ s + Whole - US \in 0 .. US - 1
        /\ b + Whole \in Int /\ k \in Int
        /\ b + Whole = US * k + (s + Whole - US)
    BY <1>1, <1>2
  <2> HIDE DEF k
  <2>2. (b + Whole) % US = s + Whole - US
    BY <2>1, RemainderUnique
  <2> QED BY <2>2, <1>1, <1>2 DEF Wrapped, s
<1>3. CASE s + Whole <= US - 1
  <2>1. s + Whole \in 0 .. US - 1 /\ b + Whole \in Int /\ b + Whole = US * q + (s + Whole)
    BY <1>1, <1>3
  <2>2. (b + Whole) % US = s + Whole
    BY <1>1, <2>1, RemainderUnique
  <2> QED BY <2>2, <1>1, <1>3 DEF Wrapped, s
<1> QED BY <1>1, <1>2, <1>3

(***************************************************************************)
(* The inductive invariant: the timer thread shows a time that has been,   *)
(* and the count of steps starts at 0.                                     *)
(***************************************************************************)
TimerInv ==
  /\ shown <= sample
  /\ sample <= time
  /\ gtime_us = shown % US

\* The current step began w microseconds after the time that was locked.
Began(w) ==
  /\ g_us_g = FRAC * w + Behind
  /\ base + w <= shown
  /\ global_us = (base + w) % US

PhaseInv ==
  /\ ~Simulating => g_us_g = 0 /\ steps = 0
  /\ Simulating => \E w \in Nat : Began(w)

ClockInv == ClockTypeOK /\ TimerInv /\ PhaseInv

\* The remainders the model computes have their types.
LEMMA ClockTypes ==
  ASSUME NEW t \in Nat
  PROVE  t % US \in 0 .. US - 1 /\ (t \div US) % MS \in 0 .. MS - 1
<1> USE ClockAssumption
<1>1. US > 0 /\ MS > 0
  OBVIOUS
<1>2. t % US \in 0 .. US - 1 /\ t \div US \in Int
  BY <1>1, DivisionTheorem
<1>3. \A a \in Int : a % MS \in 0 .. MS - 1
  BY <1>1, DivisionTheorem
<1> QED BY <1>2, <1>3

\* What has been lost changes when a step begins, and by one fraction.
LEMMA BehindTyped ==
  ASSUME steps \in Nat
  PROVE  Behind \in Nat
<1>1. Taken \in Nat
  BY DEF Taken
<1> QED BY <1>1, WholeAndFraction DEF Behind, Fraction

LEMMA BehindKept ==
  ASSUME steps \in Nat, Taken' = Taken
  PROVE  Behind' = Behind
BY DEF Behind

LEMMA BehindGrows ==
  ASSUME steps \in Nat, NextDT
  PROVE  Behind' = Behind + Fraction
<1>1. Taken = steps /\ Taken' = steps + 1
  BY DEF NextDT, Taken
<1>2. \A f \in Nat : (steps + 1) * f = steps * f + f
  OBVIOUS
<1>3. Fraction \in Nat
  BY WholeAndFraction
<1> QED BY <1>1, <1>2, <1>3 DEF Behind, Fraction

\* Due is when the current step began.
LEMMA DueIsBegan ==
  ASSUME steps \in Nat, base \in Nat, NEW w \in Nat, Began(w)
  PROVE  Due = base + w
<1>1. FRAC \in Nat /\ FRAC > 0 /\ Behind \in Nat
  BY WholeAndFraction, BehindTyped
<1> DEFINE a == g_us_g - Behind
<1>2. a = FRAC * w + 0 /\ a \in Int /\ 0 \in 0 .. FRAC - 1
  BY <1>1 DEF Began
<1> HIDE DEF a
<1>3. a \div FRAC = w
  BY <1>1, <1>2, QuotientUnique
<1> QED BY <1>3 DEF Due, a

\* The thread has not begun to count steps and the timer shows the present: ClockInv holds.
LEMMA ClockInitInv == ClockInit => ClockInv
<1> SUFFICES ASSUME ClockInit PROVE ClockInv
  OBVIOUS
<1> USE ClockAssumption
<1>1. time \in Nat
  <2>1. \A m \in Int : \A n \in 0 .. m : n \in Nat
    OBVIOUS
  <2>2. US * MS - 1 \in Int
    OBVIOUS
  <2> QED BY <2>1, <2>2 DEF ClockInit
<1>2. time % US \in 0 .. US - 1 /\ (time \div US) % MS \in 0 .. MS - 1
  BY <1>1, ClockTypes
<1>3. ClockTypeOK
  <2>1. /\ time \in Nat /\ sample \in Nat /\ shown \in Nat /\ entered \in Nat
        /\ gtime_ms \in 0 .. MS - 1 /\ gtime_us \in 0 .. US - 1
    BY <1>1, <1>2 DEF ClockInit
  <2>2. /\ global_us \in 0 .. US - 1
        /\ g_us_g \in Nat /\ g_us_t \in Nat /\ base \in Nat /\ steps \in Nat
    BY DEF ClockInit
  <2>3. tpc = "read" /\ rtpc = "pps1" /\ moniter_ms \in BOOLEAN /\ polled \in BOOLEAN
    BY DEF ClockInit
  <2> QED BY <2>1, <2>2, <2>3 DEF ClockTypeOK
<1>4. TimerInv
  BY <1>1 DEF ClockInit, TimerInv
<1>5. PhaseInv
  BY DEF ClockInit, PhaseInv, Simulating
<1> QED BY <1>3, <1>4, <1>5 DEF ClockInv

\* The passing of time takes nothing back.
LEMMA ClockTickInv == ClockInv /\ ClockTick => ClockInv'
<1> SUFFICES ASSUME ClockInv, ClockTick PROVE ClockInv'
  OBVIOUS
<1> USE DEF ClockInv, ClockTick, timerVars, stepVars
<1>1. ClockTypeOK'
  <2>1. time' \in Nat
    BY DEF ClockTypeOK
  <2>2. polled' \in BOOLEAN
    OBVIOUS
  <2> QED BY <2>1, <2>2 DEF ClockTypeOK
<1>2. TimerInv'
  BY DEF TimerInv, ClockTypeOK
<1>3. PhaseInv'
  BY DEF PhaseInv, Began, Behind, Taken, Simulating
<1> QED BY <1>1, <1>2, <1>3

\* The timer thread shows the sample it took, which is never later than the time.
LEMMA TimerThreadInv == ClockInv /\ gpsTimer_event => ClockInv'
<1> SUFFICES ASSUME ClockInv, gpsTimer_event PROVE ClockInv'
  OBVIOUS
<1> USE DEF ClockInv, stepVars
<1>1. CASE ReadRegisters
  <2>1. ClockTypeOK'
    BY <1>1 DEF ClockTypeOK, ReadRegisters
  <2>2. TimerInv'
    BY <1>1 DEF ClockTypeOK, TimerInv, ReadRegisters
  <2>3. PhaseInv'
    BY <1>1 DEF PhaseInv, Began, Behind, Taken, Simulating, ReadRegisters
  <2> QED BY <2>1, <2>2, <2>3
<1>2. CASE StoreMs
  <2>1. (sample \div US) % MS \in 0 .. MS - 1
    BY ClockTypes DEF ClockTypeOK
  <2>2. ClockTypeOK'
    BY <1>2, <2>1 DEF ClockTypeOK, StoreMs
  <2>3. TimerInv'
    BY <1>2 DEF TimerInv, StoreMs
  <2>4. PhaseInv'
    BY <1>2 DEF PhaseInv, Began, Behind, Taken, Simulating, StoreMs
  <2> QED BY <2>2, <2>3, <2>4
<1>3. CASE StoreUs
  <2>1. sample % US \in 0 .. US - 1
    BY ClockTypes DEF ClockTypeOK
  <2>2. ClockTypeOK'
    BY <1>3, <2>1 DEF ClockTypeOK, StoreUs
  <2>3. TimerInv'
    BY <1>3 DEF TimerInv, ClockTypeOK, StoreUs
  <2>4. PhaseInv'
    <3>1. UNCHANGED <<rtpc, base, g_us_g, global_us, steps>> /\ shown <= shown'
      BY <1>3 DEF StoreUs, TimerInv
    <3>2. \A w \in Nat : Began(w) => Began(w)'
      BY <3>1, <1>3 DEF Began, Behind, Taken, ClockTypeOK, StoreUs
    <3> QED BY <3>1, <3>2 DEF PhaseInv, Simulating
  <2> QED BY <2>2, <2>3, <2>4
<1> QED BY <1>1, <1>2, <1>3 DEF gpsTimer_event

\* The next step begins: at least the whole part of DT has passed since this
\* one began, and with it another fraction is lost.
LEMMA NextDTInv == ClockInv /\ NextDT => ClockInv'
<1> SUFFICES ASSUME ClockInv, NextDT PROVE ClockInv'
  OBVIOUS
<1> USE DEF ClockInv, timerVars
<1> DEFINE n == Elapsed(gtime_us, global_us)
<1>0. /\ base \in Nat /\ shown \in Nat /\ steps \in Nat /\ g_us_g \in Nat /\ US \in Nat
      /\ FRAC \in Nat /\ FRAC > 0 /\ Whole \in Nat /\ Fraction \in Nat
      /\ DT = FRAC * Whole + Fraction
  BY WholeAndFraction, ClockAssumption DEF ClockTypeOK
<1>1. PICK w \in Nat : Began(w)
  BY DEF PhaseInv, Simulating, NextDT
<1>b. PICK b \in Nat : b = base + w
  BY <1>0
<1>2. n \in Nat /\ n <= shown - b
  <2>1. b <= shown /\ global_us = b % US
    BY <1>1, <1>b DEF Began
  <2>2. Elapsed(shown % US, b % US) \in Nat /\ Elapsed(shown % US, b % US) <= shown - b
    BY <2>1, ElapsedIsPast DEF ClockTypeOK
  <2> QED BY <2>1, <2>2 DEF TimerInv
<1>3. n > Whole
  BY <1>2, LongerThanWhole DEF NextDT
<1>4. global_us' = (b + Whole) % US
  <2>1. global_us = b % US /\ global_us \in Nat
    BY <1>1, <1>b, ClockAssumption DEF Began, ClockTypeOK
  <2>2. global_us' = Wrapped(Truncated(FRAC * global_us + DT))
    BY DEF NextDT
  <2>3. Truncated(FRAC * global_us + DT) = global_us + Whole
    BY <2>1, TruncatedSum
  <2> QED BY <2>1, <2>2, <2>3, WrappedIsRemainder
<1>5. b + Whole \in Nat /\ (b + Whole) % US \in 0 .. US - 1
  <2>1. b + Whole \in Nat
    BY <1>0
  <2> QED BY <2>1, ClockTypes
<1>6. g_us_t' = g_us_g + FRAC * n /\ FRAC * n \in Nat
  <2>1. FRAC * n \in Nat
    BY <1>0, <1>2
  <2>2. g_us_t' = (g_us_g + DT) + FRAC * n - DT
    BY DEF NextDT
  <2> QED BY <1>0, <2>1, <2>2, ClockAssumption
<1> HIDE DEF n
<1>7. ClockTypeOK'
  <2>1. g_us_g' \in Nat /\ g_us_t' \in Nat
    BY <1>0, <1>6, ClockAssumption DEF NextDT
  <2>2. global_us' \in 0 .. US - 1
    BY <1>4, <1>5
  <2> QED BY <2>1, <2>2 DEF ClockTypeOK, NextDT
<1>8. TimerInv'
  BY DEF TimerInv, NextDT
<1>9. base' = base /\ g_us_g' = g_us_g + DT /\ shown' = shown /\ rtpc' = "work"
  BY DEF NextDT
<1>10. g_us_g' = FRAC * (w + Whole) + Behind'
  <2>1. g_us_g = FRAC * w + Behind /\ Behind' = Behind + Fraction /\ Behind \in Nat
    BY <1>0, <1>1, BehindGrows, BehindTyped DEF Began
  <2>2. FRAC * (w + Whole) = FRAC * w + FRAC * Whole
    BY <1>0
  <2>3. FRAC * w \in Nat /\ FRAC * Whole \in Nat
    BY <1>0
  <2> QED BY <1>0, <1>9, <2>1, <2>2, <2>3
<1>11. b + Whole <= shown
  BY <1>0, <1>2, <1>3
<1>12. Began(w + Whole)' /\ w + Whole \in Nat
  <2>1. base + (w + Whole) = b + Whole
    BY <1>0, <1>b
  <2>2. w + Whole \in Nat
    BY <1>0
  <2> QED BY <1>4, <1>9, <1>10, <1>11, <2>1, <2>2 DEF Began
<1>13. PhaseInv'
  BY <1>9, <1>12 DEF PhaseInv, Simulating
<1> QED BY <1>7, <1>8, <1>13

\* The real-time thread starts to count at a time that was shown (WatchSecond) and counts
\* a step only when the shown time has reached it (NextDTInv).
LEMMA ThreadInv == ClockInv /\ RtThread => ClockInv'
<1> SUFFICES ASSUME ClockInv, RtThread PROVE ClockInv'
  OBVIOUS
<1> USE DEF ClockInv, timerVars, stepVars
<1>1. CASE WatchSecond
  <2>1. ClockTypeOK'
    BY <1>1 DEF ClockTypeOK, WatchSecond, Sees
  <2>2. TimerInv' /\ PhaseInv'
    BY <1>1 DEF TimerInv, PhaseInv, Began, Behind, Taken, Simulating, WatchSecond
  <2> QED BY <2>1, <2>2
<1>2. CASE SecondBegins
  <2>1. ClockTypeOK'
    BY <1>2 DEF ClockTypeOK, SecondBegins
  <2>2. TimerInv' /\ PhaseInv'
    BY <1>2 DEF TimerInv, PhaseInv, Began, Behind, Taken, Simulating, SecondBegins
  <2> QED BY <2>1, <2>2
<1>3. CASE LockUs
  <2>1. ClockTypeOK'
    BY <1>3 DEF ClockTypeOK, LockUs
  <2>2. TimerInv'
    BY <1>3 DEF TimerInv, LockUs
  <2>3. /\ g_us_g' = 0 /\ steps' = 0 /\ base' = shown /\ shown' = shown
        /\ global_us' = shown % US /\ rtpc' # "work" /\ shown \in Nat
    BY <1>3 DEF PhaseInv, Simulating, TimerInv, ClockTypeOK, LockUs
  <2>4. Behind' = 0
    <3>1. Taken' = 0
      BY <2>3 DEF Taken
    <3> QED BY <3>1, WholeAndFraction DEF Behind, Fraction
  <2>5. Began(0)'
    BY <2>3, <2>4, WholeAndFraction DEF Began
  <2>6. PhaseInv'
    BY <2>3, <2>5 DEF PhaseInv
  <2> QED BY <2>1, <2>2, <2>6
<1>4. CASE SimStarted
  <2>1. ClockTypeOK'
    BY <1>4 DEF ClockTypeOK, SimStarted
  <2>2. TimerInv' /\ PhaseInv'
    BY <1>4 DEF TimerInv, PhaseInv, Began, Behind, Taken, Simulating, SimStarted
  <2> QED BY <2>1, <2>2
<1>5. CASE NoSignal
  <2>1. ClockTypeOK'
    BY <1>5 DEF ClockTypeOK, NoSignal
  <2>2. TimerInv' /\ PhaseInv'
    BY <1>5 DEF TimerInv, PhaseInv, Began, Behind, Taken, Simulating, NoSignal
  <2> QED BY <2>1, <2>2
<1>6. CASE NextDT
  BY <1>6, NextDTInv
<1>7. CASE Worked
  <2>1. ClockTypeOK'
    BY <1>7 DEF ClockTypeOK, Worked
  <2>2. TimerInv'
    BY <1>7 DEF TimerInv, Worked
  <2>3. /\ rtpc = "work" /\ rtpc' \in {"next", "end"} /\ steps' = steps + 1
        /\ UNCHANGED <<g_us_g, global_us, base, shown>>
    BY <1>7 DEF Worked
  <2>4. Taken' = Taken
    BY <2>3 DEF Taken, ClockTypeOK
  <2>5. Behind' = Behind
    BY <2>4, BehindKept DEF ClockTypeOK
  <2>6. PhaseInv'
    BY <2>3, <2>5 DEF PhaseInv, Began, Simulating
  <2> QED BY <2>1, <2>2, <2>6
<1>8. CASE ClockEnd
  BY <1>8 DEF ClockEnd, clockVars, ClockTypeOK, TimerInv, PhaseInv, Began, Behind, Taken, Simulating
<1> QED BY <1>1, <1>2, <1>3, <1>4, <1>5, <1>6, <1>7, <1>8 DEF RtThread

\* A stuttering step changes nothing the invariant reads.
LEMMA ClockStutterInv == ClockInv /\ UNCHANGED clockVars => ClockInv'
BY DEF ClockInv, clockVars, timerVars, stepVars, ClockTypeOK, TimerInv, PhaseInv, Began, Behind,
       Taken, Simulating

\* ClockInv holds in every state of every behaviour.
THEOREM ClockInvariant == ClockSpec => []ClockInv
<1>1. ClockInv /\ [ClockNext]_clockVars => ClockInv'
  BY ClockTickInv, TimerThreadInv, ThreadInv, ClockStutterInv DEF ClockNext
<1> QED BY ClockInitInv, <1>1, PTL DEF ClockSpec

\* Types, and with them that global_us stays below 1000.
THEOREM ClockTypeCorrect == ClockSpec => []ClockTypeOK
<1>1. ClockInv => ClockTypeOK
  BY DEF ClockInv
<1> QED BY ClockInvariant, <1>1, PTL

\* getSignal_NextDT returns before a step has begun by no more than the
\* fractions that global_us has lost, whatever the threads are delayed by: never
\* when DT is a whole number of microseconds.
THEOREM NeverRunsAhead == ClockSpec => []NeverAhead
<1>1. ClockInv => NeverAhead
  <2> SUFFICES ASSUME ClockInv, Simulating
               PROVE  FRAC * base + g_us_g <= FRAC * shown + Behind
    BY DEF NeverAhead
  <2>1. PICK w \in Nat : Began(w)
    BY DEF ClockInv, PhaseInv
  <2>2. /\ base \in Nat /\ shown \in Nat /\ steps \in Nat /\ FRAC \in Nat /\ FRAC > 0
        /\ Behind \in Nat
    BY WholeAndFraction, BehindTyped DEF ClockInv, ClockTypeOK
  <2>3. FRAC * (base + w) <= FRAC * shown /\ FRAC * (base + w) = FRAC * base + FRAC * w
    <3>1. \A a, b \in Nat : a <= b => FRAC * a <= FRAC * b
      BY <2>2
    <3>2. base + w <= shown /\ base + w \in Nat
      BY <2>1, <2>2 DEF Began
    <3>3. FRAC * (base + w) = FRAC * base + FRAC * w
      BY <2>2
    <3> QED BY <2>2, <3>1, <3>2, <3>3
  <2>4. g_us_g = FRAC * w + Behind
    BY <2>1 DEF Began
  <2>5. FRAC * w \in Nat /\ FRAC * base \in Nat /\ FRAC * shown \in Nat
    BY <2>2
  <2> QED BY <2>2, <2>3, <2>4, <2>5
<1> QED BY ClockInvariant, <1>1, PTL

\* A delay of one step is not carried to the next, and of its length only the
\* fraction is lost.
THEOREM PhaseIsKept == ClockSpec => []InPhase
<1>1. ClockInv => InPhase
  <2> SUFFICES ASSUME ClockInv, Simulating
               PROVE  global_us = Due % US
    BY DEF InPhase
  <2>1. PICK w \in Nat : Began(w)
    BY DEF ClockInv, PhaseInv
  <2>2. Due = base + w
    BY <2>1, DueIsBegan DEF ClockInv, ClockTypeOK
  <2> QED BY <2>1, <2>2 DEF Began
<1> QED BY ClockInvariant, <1>1, PTL

(***************************************************************************)
(* The beginning of a second, when the timer thread is less than a         *)
(* millisecond late.                                                       *)
(***************************************************************************)
Second == US * MS

\* The time gtime_ms belongs to: it is stored before gtime_us.
MsTime == IF tpc = "us" THEN sample ELSE shown

\* What is shown is MaxStale old at the most.
StaleInv ==
  /\ shown <= MsTime /\ MsTime <= time /\ time <= shown + MaxStale
  /\ gtime_ms = (MsTime \div US) % MS

\* The last millisecond before the second K has been seen and the second has
\* not: it is looked at in every microsecond, so it cannot be over.
Expects(K) ==
  /\ K - US <= MsTime
  /\ time <= K + MaxStale
  /\ polled => time < K + MaxStale

\* The second K has been seen, and what gtime_us shows was shown around it.
WatchInv ==
  /\ moniter_ms => rtpc \in {"pps1", "pps2"} /\ \E K \in Int : K % Second = 0 /\ Expects(K)
  /\ rtpc \in {"lock1", "lock2"} =>
       \E K \in Int : K % Second = 0 /\ K <= time /\ time <= K + MaxStale
  /\ Simulating =>
       \E K \in Int : K % Second = 0 /\ K - MaxStale <= base /\ base <= K + MaxStale

(***************************************************************************)
(* The time of a step, when the work of each fits into the step.           *)
(***************************************************************************)
\* How late a step is seen at the most: the step before it was due Whole after
\* its beginning, by a time MaxStale old, and not in the microsecond before.
Lag == Whole + MaxStale + 1

LagInv ==
  /\ rtpc = "next" =>
       /\ time <= Due + Lag
       /\ polled => time < Due + Lag
  /\ rtpc = "work" =>
       /\ ~polled
       /\ entered + Whole <= Due + Lag
       /\ time <= entered + MaxWork

\* The milliseconds of a second, told by the way to a whole second K.
LEMMA MsAround ==
  ASSUME NEW K \in Int, K % Second = 0, NEW t \in Int
  PROVE  /\ K <= t /\ t < K + US => (t \div US) % MS = 0
         /\ K - US <= t /\ t < K => (t \div US) % MS = MS - 1
<1>1. US \in Nat /\ MS \in Nat /\ US > 0 /\ MS >= 2
  BY ClockAssumption
<1>2. Second \in Nat /\ Second > 0
  BY <1>1 DEF Second
<1>3. PICK k \in Int : K = Second * k
  <2>1. K \div Second \in Int /\ K = Second * (K \div Second) + (K % Second)
    BY <1>2, DivisionTheorem
  <2> QED BY <1>2, <2>1
<1>4. PICK m \in Int : m = MS * k
  BY <1>1
<1>5. K = US * m
  BY <1>1, <1>3, <1>4 DEF Second
<1>6. ASSUME K <= t, t < K + US PROVE (t \div US) % MS = 0
  <2>1. t - K \in 0 .. US - 1 /\ t = US * m + (t - K)
    BY <1>1, <1>5, <1>6
  <2>2. t \div US = m
    BY <1>1, <2>1, QuotientUnique
  <2>3. 0 \in 0 .. MS - 1 /\ m = MS * k + 0 /\ MS > 0
    BY <1>1, <1>4
  <2>4. m % MS = 0
    BY <1>1, <2>3, RemainderUnique
  <2> QED BY <2>2, <2>4
<1>7. ASSUME K - US <= t, t < K PROVE (t \div US) % MS = MS - 1
  <2>1. t - K + US \in 0 .. US - 1 /\ m - 1 \in Int /\ t = US * (m - 1) + (t - K + US)
    BY <1>1, <1>5, <1>7
  <2>2. t \div US = m - 1
    BY <1>1, <2>1, QuotientUnique
  <2>3. MS - 1 \in 0 .. MS - 1 /\ k - 1 \in Int /\ m - 1 = MS * (k - 1) + (MS - 1) /\ MS > 0
    BY <1>1, <1>4
  <2>4. (m - 1) % MS = MS - 1
    <3>1. m - 1 \in Int
      OBVIOUS
    <3> QED BY <1>1, <2>3, <3>1, RemainderUnique
  <2> QED BY <2>2, <2>4
<1> QED BY <1>6, <1>7

\* A whole second follows the last millisecond of one.
LEMMA SecondFollows ==
  ASSUME NEW t \in Int, (t \div US) % MS = MS - 1
  PROVE  \E K \in Int : K % Second = 0 /\ K - US <= t /\ t < K
<1>1. US \in Nat /\ MS \in Nat /\ US > 0 /\ MS >= 2
  BY ClockAssumption
<1>2. PICK q \in Int : q = t \div US /\ t - US * q \in 0 .. US - 1
  <2>1. t \div US \in Int /\ t % US \in 0 .. US - 1 /\ t = US * (t \div US) + (t % US)
    BY <1>1, DivisionTheorem
  <2>2. t - US * (t \div US) = t % US
    BY <1>1, <2>1
  <2> QED BY <2>1, <2>2
<1>3. PICK j \in Int : q = MS * j + (MS - 1)
  <2>1. q \div MS \in Int /\ q = MS * (q \div MS) + (q % MS)
    BY <1>1, DivisionTheorem
  <2>2. q % MS = MS - 1
    BY <1>2
  <2> QED BY <2>1, <2>2
<1>4. PICK K \in Int : K = Second * (j + 1)
  BY <1>1 DEF Second
<1>5. K % Second = 0
  <2>1. Second \in Nat /\ Second > 0 /\ j + 1 \in Int /\ 0 \in 0 .. Second - 1
    BY <1>1 DEF Second
  <2>2. K = Second * (j + 1) + 0
    BY <1>4
  <2> QED BY <2>1, <2>2, RemainderUnique
<1>6. K = US * (q + 1)
  <2>1. q + 1 = MS * (j + 1)
    BY <1>1, <1>3
  <2>2. K = US * (MS * (j + 1))
    BY <1>1, <1>4 DEF Second
  <2> QED BY <2>1, <2>2
<1>7. K - US = US * q
  BY <1>1, <1>6
<1>8. K - US <= t /\ t < K
  BY <1>1, <1>2, <1>7
<1> QED BY <1>5, <1>8

\* A distance below a millisecond is told from the microseconds alone.
LEMMA ElapsedIsExact ==
  ASSUME NEW t \in Nat, NEW b \in Nat, b <= t, t - b < US
  PROVE  Elapsed(t % US, b % US) = t - b
<1> USE ClockAssumption
<1> DEFINE p == t \div US
<1> DEFINE r == t % US
<1> DEFINE q == b \div US
<1> DEFINE s == b % US
<1>1. p \in Int /\ r \in 0 .. US - 1 /\ t = US * p + r
  BY DivisionTheorem
<1>2. q \in Int /\ s \in 0 .. US - 1 /\ b = US * q + s
  BY DivisionTheorem
<1>3. Elapsed(r, s) = IF r >= s THEN r - s ELSE r - s + US
  BY <1>1, <1>2, ElapsedIsDistance
<1> HIDE DEF p, q, r, s
<1>4. US * (p - q) = t - b - (r - s)
  BY <1>1, <1>2
<1>5. CASE r >= s
  <2>1. US * (p - q) < US /\ -US < US * (p - q)
    BY <1>1, <1>2, <1>4, <1>5
  <2>2. p - q = 0
    BY <1>1, <1>2, <2>1, SmallMultiple
  <2>3. t - b = r - s
    BY <1>1, <1>2, <1>4, <2>2
  <2> QED BY <1>3, <1>5, <2>3 DEF r, s
<1>6. CASE r < s
  <2>1. PICK d \in Int : d = p - q - 1
    BY <1>1, <1>2
  <2>2. US * d = t - b - (r - s) - US
    BY <1>1, <1>2, <1>4, <2>1
  <2>3. US * d < US /\ -US < US * d
    BY <1>1, <1>2, <1>6, <2>2
  <2>4. d = 0
    BY <2>3, SmallMultiple
  <2>5. t - b = r - s + US
    BY <1>1, <1>2, <2>2, <2>4
  <2>6. ~(r >= s)
    BY <1>1, <1>2, <1>6
  <2> QED BY <1>3, <2>5, <2>6 DEF r, s
<1> QED BY <1>1, <1>2, <1>5, <1>6

\* The timer thread is never later than MaxStale.
LEMMA StaleKept ==
  ASSUME ClockTypeOK, TimerInv, StaleInv, [ClockNext]_clockVars
  PROVE  StaleInv'
<1>1. /\ time \in Nat /\ sample \in Nat /\ shown \in Nat /\ MaxStale \in Nat
      /\ shown <= sample /\ sample <= time
  BY ClockAssumption DEF ClockTypeOK, TimerInv
<1>2. CASE ClockTick
  <2>1. /\ time' = time + 1 /\ time - shown < MaxStale
        /\ UNCHANGED <<sample, tpc, gtime_ms, shown>>
    BY <1>2 DEF ClockTick, timerVars
  <2>2. MsTime' = MsTime /\ MsTime \in Nat
    BY <1>1, <2>1 DEF MsTime
  <2> QED BY <1>1, <2>1, <2>2 DEF StaleInv
<1>3. CASE ReadRegisters
  <2>1. tpc = "read" /\ tpc' = "ms" /\ UNCHANGED <<time, gtime_ms, shown>>
    BY <1>3 DEF ReadRegisters
  <2>2. MsTime = shown /\ MsTime' = shown
    BY <2>1 DEF MsTime
  <2> QED BY <2>1, <2>2 DEF StaleInv
<1>4. CASE StoreMs
  <2>1. /\ tpc' = "us" /\ gtime_ms' = (sample \div US) % MS
        /\ UNCHANGED <<time, sample, shown>>
    BY <1>4 DEF StoreMs
  <2>2. MsTime' = sample
    BY <2>1 DEF MsTime
  <2> QED BY <1>1, <2>1, <2>2 DEF StaleInv
<1>5. CASE StoreUs
  <2>1. tpc = "us" /\ tpc' = "read" /\ shown' = sample /\ UNCHANGED <<time, sample, gtime_ms>>
    BY <1>5 DEF StoreUs
  <2>2. MsTime = sample /\ MsTime' = sample
    BY <2>1 DEF MsTime
  <2> QED BY <1>1, <2>1, <2>2 DEF StaleInv
<1>6. CASE RtThread \/ UNCHANGED clockVars
  <2>1. UNCHANGED <<time, sample, tpc, gtime_ms, shown>>
    BY <1>6 DEF RtThread, WatchSecond, SecondBegins, LockUs, SimStarted, NoSignal, NextDT, Worked,
                ClockEnd, clockVars, timerVars
  <2> QED BY <2>1 DEF StaleInv, MsTime
<1> QED BY <1>2, <1>3, <1>4, <1>5, <1>6 DEF ClockNext, gpsTimer_event

\* The thread sees the last millisecond, then looks in every microsecond, and
\* sees the second before its first millisecond is over.
LEMMA WatchKept ==
  ASSUME MaxStale < US, ClockTypeOK, TimerInv, StaleInv, WatchInv, [ClockNext]_clockVars
  PROVE  WatchInv'
<1>1. /\ time \in Nat /\ sample \in Nat /\ shown \in Nat /\ MaxStale \in Nat /\ MsTime \in Nat
      /\ US \in Nat /\ MS \in Nat /\ MS >= 2 /\ shown <= sample /\ sample <= time
  BY ClockAssumption DEF ClockTypeOK, TimerInv, MsTime
<1>2. CASE ClockTick
  <2>1. /\ time' = time + 1 /\ rtpc \notin {"lock1", "lock2"} /\ (Waiting => polled) /\ ~polled'
        /\ UNCHANGED <<rtpc, moniter_ms, base, sample, shown, tpc>>
    BY <1>2 DEF ClockTick, stepVars, timerVars
  <2>2. ASSUME moniter_ms
        PROVE  /\ rtpc \in {"pps1", "pps2"}
               /\ \E K \in Int : K % Second = 0 /\ Expects(K)'
    <3>1. PICK K \in Int : K % Second = 0 /\ Expects(K)
      BY <2>2 DEF WatchInv
    <3>2. rtpc \in {"pps1", "pps2"} /\ polled
      BY <2>1, <2>2 DEF WatchInv, Waiting
    <3>3. Expects(K)'
      BY <1>1, <2>1, <3>1, <3>2 DEF Expects, MsTime
    <3> QED BY <3>1, <3>2, <3>3
  <2> QED BY <2>1, <2>2 DEF WatchInv, Simulating
<1>3. CASE gpsTimer_event
  <2>1. /\ UNCHANGED <<time, rtpc, moniter_ms, polled, base>>
        /\ MsTime' >= MsTime
    <3>1. CASE ReadRegisters
      BY <1>1, <3>1 DEF ReadRegisters, MsTime, stepVars
    <3>2. CASE StoreMs
      BY <1>1, <3>2 DEF StoreMs, MsTime, stepVars
    <3>3. CASE StoreUs
      BY <1>1, <3>3 DEF StoreUs, MsTime, stepVars
    <3> QED BY <1>3, <3>1, <3>2, <3>3 DEF gpsTimer_event
  <2>2. MsTime' \in Nat
    BY <1>1, <1>3 DEF gpsTimer_event, ReadRegisters, StoreMs, StoreUs, MsTime
  <2>3. \A K \in Int : Expects(K) => Expects(K)'
    BY <1>1, <2>1, <2>2 DEF Expects
  <2> QED BY <2>1, <2>3 DEF WatchInv, Simulating
<1>4. CASE WatchSecond
  <2>1. /\ rtpc \in {"pps1", "pps2"} /\ ~Locked /\ polled'
        /\ moniter_ms' = (moniter_ms \/ Sees(MS - 1))
        /\ UNCHANGED <<time, rtpc, base, sample, shown, tpc>>
    BY <1>4 DEF WatchSecond, stepVars, timerVars
  <2>2. MsTime' = MsTime /\ time <= MsTime + MaxStale /\ MsTime <= time
        /\ gtime_ms = (MsTime \div US) % MS
    BY <1>1, <2>1 DEF MsTime, StaleInv
  <2>3. ASSUME NEW K \in Int, K - US <= MsTime, MsTime < K PROVE Expects(K)'
    <3>1. time < K + MaxStale
      BY <1>1, <2>2, <2>3
    <3> QED BY <1>1, <2>1, <2>2, <2>3, <3>1 DEF Expects
  <2>4. ASSUME moniter_ms' PROVE \E K \in Int : K % Second = 0 /\ Expects(K)'
    <3>1. CASE Sees(MS - 1)
      <4>1. \E K \in Int : K % Second = 0 /\ K - US <= MsTime /\ MsTime < K
        <5>1. (MsTime \div US) % MS = MS - 1
          BY <2>2, <3>1 DEF Sees
        <5> QED BY <5>1, <1>1, SecondFollows
      <4> QED BY <2>3, <4>1
    <3>2. CASE ~Sees(MS - 1)
      <4>1. moniter_ms /\ gtime_ms # 0
        BY <2>1, <2>4, <3>2 DEF Locked, Sees
      <4>2. PICK K \in Int : K % Second = 0 /\ Expects(K)
        BY <4>1 DEF WatchInv
      <4>3. MsTime < K + US
        BY <1>1, <2>2, <4>2 DEF Expects
      <4>4. MsTime < K
        BY <1>1, <2>2, <4>1, <4>2, <4>3, MsAround
      <4> QED BY <2>3, <4>2, <4>4 DEF Expects
    <3> QED BY <3>1, <3>2
  <2> QED BY <2>1, <2>4 DEF WatchInv, Simulating
<1>5. CASE SecondBegins
  <2>1. /\ Locked /\ ~moniter_ms' /\ rtpc' \in {"lock1", "lock2"} /\ time' = time
    BY <1>5 DEF SecondBegins
  <2>2. PICK K \in Int : K % Second = 0 /\ Expects(K)
    BY <2>1 DEF WatchInv, Locked
  <2>3. (MsTime \div US) % MS = 0 /\ MsTime <= time
    BY <2>1 DEF StaleInv, Locked, Sees
  <2>4. K <= MsTime
    BY <1>1, <2>2, <2>3, MsAround DEF Expects
  <2>5. K <= time' /\ time' <= K + MaxStale
    BY <1>1, <2>1, <2>2, <2>3, <2>4 DEF Expects
  <2> QED BY <2>1, <2>2, <2>5 DEF WatchInv, Simulating
<1>6. CASE LockUs
  <2>1. /\ rtpc \in {"lock1", "lock2"} /\ base' = shown /\ rtpc' \in {"start", "next"}
        /\ moniter_ms' = moniter_ms
    BY <1>6 DEF LockUs
  <2>2. PICK K \in Int : K % Second = 0 /\ K <= time /\ time <= K + MaxStale
    BY <2>1 DEF WatchInv
  <2>3. K - MaxStale <= base' /\ base' <= K + MaxStale
    BY <1>1, <2>1, <2>2 DEF StaleInv
  <2>4. ~moniter_ms
    BY <2>1 DEF WatchInv
  <2> QED BY <2>1, <2>2, <2>3, <2>4 DEF WatchInv, Simulating
<1>7. CASE SimStarted \/ NoSignal \/ NextDT \/ Worked \/ ClockEnd \/ UNCHANGED clockVars
  <2>1. CASE UNCHANGED clockVars \/ ClockEnd
    BY <2>1 DEF ClockEnd, clockVars, timerVars, stepVars, WatchInv, Expects, MsTime, Simulating
  <2>2. CASE SimStarted \/ NoSignal \/ NextDT \/ Worked
    <3>1. /\ rtpc \in {"start", "next", "work"} /\ rtpc' \in {"pps2", "next", "work", "end"}
          /\ (rtpc' = "pps2" => rtpc = "start") /\ (rtpc = "start" => rtpc' = "pps2")
          /\ moniter_ms' = moniter_ms /\ base' = base
      BY <2>2 DEF SimStarted, NoSignal, NextDT, Worked, stepVars
    <3>2. ~moniter_ms
      BY <3>1 DEF WatchInv
    <3> QED BY <3>1, <3>2 DEF WatchInv, Simulating
  <2> QED BY <1>7, <2>1, <2>2
<1> QED BY <1>2, <1>3, <1>4, <1>5, <1>6, <1>7 DEF ClockNext, RtThread

\* While the thread counts, Due is the time at which the current step began.
LEMMA DueFacts ==
  ASSUME ClockInv, Simulating
  PROVE  /\ Due \in Nat /\ base <= Due /\ Due <= shown /\ global_us = Due % US
         /\ g_us_g = FRAC * (Due - base) + Behind
<1>1. PICK w \in Nat : Began(w)
  BY DEF ClockInv, PhaseInv
<1>2. base \in Nat /\ steps \in Nat
  BY DEF ClockInv, ClockTypeOK
<1>3. PICK d : d = Due
  OBVIOUS
<1>4. d = base + w
  BY <1>1, <1>2, <1>3, DueIsBegan
<1>5. d - base = w /\ d \in Nat /\ base <= d
  BY <1>2, <1>4
<1> QED BY <1>1, <1>3, <1>4, <1>5 DEF Began

\* Due moves when a step begins, by the whole part of DT.
LEMMA DueGrows ==
  ASSUME ClockInv, NextDT
  PROVE  Due' = Due + Whole
<1>1. ClockInv' /\ Simulating /\ Simulating'
  BY NextDTInv DEF Simulating, NextDT
<1>2. PICK w \in Nat : Began(w)
  BY <1>1 DEF ClockInv, PhaseInv
<1>3. PICK v \in Nat : Began(v)'
  BY <1>1 DEF ClockInv, PhaseInv
<1>4. /\ base \in Nat /\ base' = base /\ steps \in Nat /\ steps' = steps /\ g_us_g' = g_us_g + DT
      /\ FRAC \in Nat /\ FRAC > 0 /\ Whole \in Nat /\ Fraction \in Nat
      /\ DT = FRAC * Whole + Fraction
  BY WholeAndFraction DEF ClockInv, ClockTypeOK, NextDT
<1>5. Due = base + w
  BY <1>2, <1>4, DueIsBegan
<1>6. Due' = base + v
  <2>1. Behind' \in Nat /\ FRAC * v \in Nat /\ g_us_g' = FRAC * v + Behind'
    BY <1>3, <1>4, BehindTyped, BehindGrows DEF Began
  <2> DEFINE a == g_us_g' - Behind'
  <2>2. a = FRAC * v + 0 /\ a \in Int /\ 0 \in 0 .. FRAC - 1
    <3>1. \A m, h \in Nat : (m + h) - h = m + 0 /\ (m + h) - h \in Int
      OBVIOUS
    <3>2. FRAC \in Nat /\ FRAC > 0
      BY <1>4
    <3>3. 0 \in 0 .. FRAC - 1
      BY <3>2
    <3> QED BY <2>1, <3>1, <3>3
  <2> HIDE DEF a
  <2>3. a \div FRAC = v
    BY <1>4, <2>2, QuotientUnique
  <2> QED BY <1>4, <2>3 DEF Due, a
<1>7. FRAC * v + Behind' = FRAC * w + Behind + DT /\ Behind' = Behind + Fraction /\ Behind \in Nat
  BY <1>2, <1>3, <1>4, BehindGrows, BehindTyped DEF Began
<1>8. FRAC * (v - (w + Whole)) = 0
  <2>1. FRAC * (v - (w + Whole)) = FRAC * v - (FRAC * w + FRAC * Whole)
    BY <1>4
  <2>2. FRAC * v \in Nat /\ FRAC * w \in Nat /\ FRAC * Whole \in Nat
    BY <1>4
  <2> QED BY <1>4, <1>7, <2>1, <2>2
<1>9. v - (w + Whole) = 0
  <2>1. v - (w + Whole) \in Int
    BY <1>4
  <2> QED BY <1>4, <1>8, <2>1, SmallMultiple
<1> QED BY <1>4, <1>5, <1>6, <1>9

\* What getSignal_NextDT computes when it looks is the true time since the step began.
LEMMA StepSeen ==
  ASSUME Lag < US, ClockInv, StaleInv, LagInv, rtpc = "next"
  PROVE  Elapsed(gtime_us, global_us) = shown - Due
<1>0. PICK d \in Nat : d = Due /\ d <= shown /\ global_us = d % US
  BY DueFacts DEF Simulating
<1>1. /\ time \in Nat /\ shown \in Nat /\ Lag \in Nat /\ US \in Nat
      /\ shown <= time /\ time <= d + Lag /\ gtime_us = shown % US
  BY <1>0, WholeAndFraction, ClockAssumption
  DEF ClockInv, ClockTypeOK, TimerInv, StaleInv, LagInv, Lag
<1>2. shown - d < US
  BY <1>0, <1>1
<1>3. Elapsed(shown % US, d % US) = shown - d
  BY <1>0, <1>1, <1>2, ElapsedIsExact
<1> QED BY <1>0, <1>1, <1>3

\* The step was seen to begin at most Lag after it did, and before its work
\* is done the next is due.
LEMMA LagKept ==
  ASSUME MaxWork <= Whole, Lag < US, ClockInv, StaleInv, LagInv, [ClockNext]_clockVars
  PROVE  LagInv'
<1>1. /\ time \in Nat /\ shown \in Nat /\ entered \in Nat /\ steps \in Nat
      /\ MaxStale \in Nat /\ MaxWork \in Nat /\ Whole \in Nat /\ Whole > 0 /\ US \in Nat
      /\ Lag \in Nat /\ Lag = Whole + MaxStale + 1 /\ shown <= time /\ time <= shown + MaxStale
  BY ClockAssumption, WholeAndFraction DEF ClockInv, ClockTypeOK, TimerInv, StaleInv, Lag
<1>2. PICK b : b = Due
  OBVIOUS
<1>3. CASE ClockTick
  <2>1. /\ time' = time + 1 /\ ~polled' /\ (rtpc = "next" => polled)
        /\ (rtpc = "work" => time - entered < MaxWork)
        /\ UNCHANGED <<rtpc, entered, base, g_us_g, steps>>
    BY <1>3 DEF ClockTick, stepVars, Waiting
  <2>2. Due' = Due
    BY <2>1 DEF Due, Behind, Taken
  <2>3. rtpc \in {"next", "work"} => Due \in Nat
    BY DueFacts DEF Simulating
  <2> QED BY <1>1, <2>1, <2>2, <2>3 DEF LagInv
<1>4. CASE gpsTimer_event \/ UNCHANGED clockVars
  <2>1. UNCHANGED <<time, rtpc, polled, entered, base, g_us_g, steps>>
    BY <1>4 DEF gpsTimer_event, ReadRegisters, StoreMs, StoreUs, clockVars, stepVars
  <2>2. Due' = Due
    BY <2>1 DEF Due, Behind, Taken
  <2> QED BY <2>1, <2>2, <1>1 DEF LagInv
<1>5. CASE WatchSecond \/ SecondBegins \/ SimStarted \/ ClockEnd
  <2>1. rtpc' \notin {"next", "work"}
    BY <1>5 DEF WatchSecond, SecondBegins, SimStarted, ClockEnd, clockVars
  <2> QED BY <2>1 DEF LagInv
<1>6. CASE LockUs
  <2>1. /\ base' = shown /\ g_us_g' = 0 /\ steps' = 0 /\ time' = time /\ rtpc' # "work"
    BY <1>6 DEF LockUs, ClockInv, PhaseInv, Simulating
  <2>2. Taken' = 0 /\ Behind' = 0
    <3>1. Taken' = 0
      BY <2>1 DEF Taken
    <3> QED BY <3>1, WholeAndFraction DEF Behind, Fraction
  <2>3. Due' = shown
    <3>1. FRAC \in Nat /\ FRAC > 0 /\ 0 \in 0 .. FRAC - 1 /\ 0 = FRAC * 0 + 0
      BY WholeAndFraction
    <3>2. 0 \div FRAC = 0
      BY <3>1, QuotientUnique
    <3> QED BY <1>1, <2>1, <2>2, <3>2 DEF Due
  <2> QED BY <1>1, <2>1, <2>3 DEF LagInv
<1>7. CASE NoSignal
  <2>1. /\ rtpc = "next" /\ ~Longer(Elapsed(gtime_us, global_us))
        /\ UNCHANGED <<time, rtpc, entered, base, g_us_g, steps>>
    BY <1>7 DEF NoSignal, stepVars
  <2>2. Elapsed(gtime_us, global_us) = shown - b
    BY <1>1, <1>2, <2>1, StepSeen
  <2>3. b \in Nat /\ b <= shown
    BY <1>2, <2>1, DueFacts DEF Simulating
  <2>4. shown - b <= Whole
    <3>1. shown - b \in Nat
      BY <1>1, <2>3
    <3> QED BY <1>1, <2>1, <2>2, <3>1, LongerThanWhole
  <2>5. time < b + Lag
    BY <1>1, <2>3, <2>4
  <2>6. Due' = Due
    BY <2>1 DEF Due, Behind, Taken
  <2> QED BY <1>1, <1>2, <2>1, <2>3, <2>5, <2>6 DEF LagInv
<1>8. CASE NextDT
  <2>1. /\ rtpc = "next" /\ ~polled' /\ rtpc' = "work" /\ entered' = time /\ time' = time
    BY <1>8 DEF NextDT
  <2>2. time <= b + Lag
    BY <1>2, <2>1 DEF LagInv
  <2>3. b \in Nat /\ Due' = b + Whole
    BY <1>2, <1>8, <2>1, DueFacts, DueGrows DEF Simulating
  <2> QED BY <1>1, <2>1, <2>2, <2>3 DEF LagInv
<1>9. CASE Worked
  <2>1. /\ rtpc = "work" /\ rtpc' \in {"next", "end"} /\ steps' = steps + 1
        /\ UNCHANGED <<time, polled, entered, base, g_us_g>>
    BY <1>9 DEF Worked
  <2>2. Due' = b
    <3>1. Taken' = Taken
      BY <1>1, <2>1 DEF Taken
    <3> QED BY <1>1, <1>2, <2>1, <3>1, BehindKept DEF Due
  <2>3. b \in Nat
    BY <1>2, <2>1, DueFacts DEF Simulating
  <2>4. ~polled /\ time <= b + Lag
    BY <1>1, <1>2, <2>1, <2>3 DEF LagInv
  <2> QED BY <1>1, <2>1, <2>2, <2>3, <2>4 DEF LagInv
<1> QED BY <1>3, <1>4, <1>5, <1>6, <1>7, <1>8, <1>9 DEF ClockNext, RtThread

\* A timer thread less than a millisecond late lets no second pass unseen, and
\* the time locked for the first step is the beginning of one
\* (wait_PPS_signal).
THEOREM BeginsWithSecond == ASSUME MaxStale < US PROVE ClockSpec => []StartsWithSecond
<1>1. ClockInit => StaleInv /\ WatchInv
  BY ClockInitInv, ClockAssumption DEF ClockInit, ClockInv, ClockTypeOK, StaleInv, WatchInv, MsTime, Simulating
<1>2. ClockInv /\ StaleInv /\ WatchInv /\ [ClockNext]_clockVars => StaleInv' /\ WatchInv'
  BY StaleKept, WatchKept DEF ClockInv
<1>3. ClockInv /\ WatchInv => StartsWithSecond
  <2> SUFFICES ASSUME ClockInv, WatchInv, Simulating
               PROVE  (base + MaxStale) % Second < US + MaxStale
    BY DEF StartsWithSecond, Second
  <2>1. /\ base \in Nat /\ MaxStale \in Nat /\ US \in Nat /\ MS \in Nat /\ MS >= 2
    BY ClockAssumption DEF ClockInv, ClockTypeOK
  <2>2. PICK K \in Int : K % Second = 0 /\ K - MaxStale <= base /\ base <= K + MaxStale
    BY DEF WatchInv
  <2>3. PICK r \in Int : r = base + MaxStale - K
    BY <2>1
  <2>4. 0 <= r /\ r <= 2 * MaxStale /\ r < US + MaxStale
    BY <2>1, <2>2, <2>3
  <2>5. Second \in Nat /\ US + MaxStale <= Second
    <3>1. Second \in Nat /\ 2 * US <= US * MS
      BY <2>1 DEF Second
    <3> QED BY <2>1, <3>1 DEF Second
  <2>6. r \in 0 .. Second - 1 /\ Second > 0
    BY <2>1, <2>4, <2>5
  <2>7. PICK k \in Int : K = Second * k
    <3>1. K \div Second \in Int /\ K = Second * (K \div Second) + (K % Second)
      BY <2>5, <2>6, DivisionTheorem
    <3> QED BY <2>2, <2>5, <3>1
  <2>8. base + MaxStale \in Int /\ base + MaxStale = Second * k + r
    BY <2>1, <2>3, <2>5, <2>7
  <2>9. (base + MaxStale) % Second = r
    BY <2>5, <2>6, <2>8, RemainderUnique
  <2> QED BY <2>4, <2>9
<1> QED BY <1>1, <1>2, <1>3, ClockInvariant, PTL DEF ClockSpec

\* The clock looks at nothing but the microseconds of a millisecond and loses
\* none: when every step is done within the whole microseconds of DT, and these
\* and the delay of the timer thread are together shorter than a millisecond, the
\* statistics have the true time of every step and the fractions lost before it,
\* however many steps there are (getSignal_NextDT).
THEOREM StepTimeHolds ==
  ASSUME MaxWork <= DT \div FRAC, DT \div FRAC + MaxStale + 1 < US
  PROVE  ClockSpec => StepTimeIsTrue
<1>0. Lag < US /\ MaxWork <= Whole
  BY DEF Lag, Whole
<1>1. ClockInit => StaleInv /\ LagInv
  BY ClockInitInv, ClockAssumption DEF ClockInit, ClockInv, ClockTypeOK, StaleInv, LagInv, MsTime
<1>2. ClockInv /\ StaleInv /\ LagInv /\ [ClockNext]_clockVars => StaleInv' /\ LagInv'
  BY <1>0, StaleKept, LagKept DEF ClockInv
<1>3. ClockInv /\ StaleInv /\ LagInv /\ [ClockNext]_clockVars
      => [NextDT => g_us_t' = FRAC * (shown - base) + Behind]_clockVars
  <2> SUFFICES ASSUME ClockInv, StaleInv, LagInv, NextDT
               PROVE  g_us_t' = FRAC * (shown - base) + Behind
    OBVIOUS
  <2>1. rtpc = "next" /\ g_us_t' = (g_us_g + DT) + FRAC * Elapsed(gtime_us, global_us) - DT
    BY DEF NextDT
  <2>2. Elapsed(gtime_us, global_us) = shown - Due
    BY <1>0, <2>1, StepSeen
  <2>3. PICK d \in Nat : d = Due /\ base <= d /\ d <= shown /\ g_us_g = FRAC * (d - base) + Behind
    BY <2>1, DueFacts DEF Simulating
  <2>4. /\ shown \in Nat /\ base \in Nat /\ g_us_g \in Nat /\ DT \in Nat /\ FRAC \in Nat
        /\ Behind \in Nat
    BY WholeAndFraction, ClockAssumption, BehindTyped DEF ClockInv, ClockTypeOK
  <2>5. FRAC * (shown - d) + FRAC * (d - base) = FRAC * (shown - base)
    BY <2>3, <2>4
  <2>6. /\ FRAC * (shown - d) \in Int /\ FRAC * (d - base) \in Int
        /\ FRAC * (shown - base) \in Int
    BY <2>3, <2>4
  <2> QED BY <2>1, <2>2, <2>3, <2>4, <2>5, <2>6
<1> QED BY <1>1, <1>2, <1>3, ClockInvariant, PTL DEF ClockSpec, StepTimeIsTrue
=============================================================================
