-------------------------- MODULE BoxDataProofs --------------------------
(***************************************************************************)
(* Proofs about the signals of a box (BoxData) and about the groups of     *)
(* channels the driver reads and writes for them (GroupConfig), for every  *)
(* file *-B1.DVC, every box, number of computing processes, frames and     *)
(* steps.                                                                  *)
(*                                                                         *)
(* The inductive invariant Inv of BoxData is a conjunction of parts: where *)
(* the process is (PcOK), the computing processes and how many variables   *)
(* each has (CountsOK), which lines are filed in which signals             *)
(* (SignalsOK), what the driver knows of the cards (DevOK), the frames     *)
(* received (RxOK), the samples (SampleOK), the arrays exchanged with the  *)
(* processes (DataOK, GivenOK), the outputs received so far (VoltOK) and   *)
(* the words of the channels (OutOK).  Each part is kept by every step if  *)
(* those before it hold: one lemma a part.                                 *)
(***************************************************************************)
EXTENDS BoxData, GroupConfig, SequenceTheorems, FiniteSetTheorems, WellFoundedInduction, TLAPS

(***************************************************************************)
(* The invariant: the file and the signals.                                *)
(***************************************************************************)
Stages == {"read", "file", "AI", "AO", "DI", "DO", "step", "readAI", "readDI", "inputs", "recv",
           "send", "end", "done"}
Reading == pc.at \in {"read", "file"}

PcType == [at : Stages, n : Nat, i : Nat, nIn : Nat, nOut : Nat, ITime : Nat, since : Nat,
           faults : Nat]

\* The counters of the process.
PcOK ==
  /\ pc \in PcType
  /\ pc.ITime \in 1 .. Steps
  /\ pc.since \in 0 .. MaxFrames
  /\ Reading => pc.i \in 1 .. Len(dvc) + 1 /\ pc.n \in 1 .. Len(SimProc) + 1
  /\ pc.at = "read" => pc.n = 1 /\ pc.nIn = 0 /\ pc.nOut = 0
  /\ pc.at = "recv" => pc.i \in DOMAIN SimProc
  /\ pc.at \in {"readAI", "readDI"} => pc.i > 0
  /\ pc.at = "inputs" => pc.i = 1

\* Of the lines in S, those of process p and of the kinds given.
InKinds == {"AI", "DI"}
OutKinds == {"AO", "DO"}
Side(kind) == IF IsInput(kind) THEN InKinds ELSE OutKinds
Of(S, p, kinds) == {j \in S : dvc[j].proc = p /\ dvc[j].kind \in kinds}

\* The lines that were read.
Read == {j \in DOMAIN dvc : pc.at = "read" => j < pc.i}

Proc == [Id : Nat, nIn : Nat, nOut : Nat]

\* The processes of a list are those of the lines in S, each once, and their variables are counted.
CountsOf(list, S) ==
  /\ list \in Seq(Proc)
  /\ \A m, n \in DOMAIN list : list[m].Id = list[n].Id => m = n
  /\ \A j \in S : \E n \in DOMAIN list : list[n].Id = dvc[j].proc
  /\ \A n \in DOMAIN list : /\ list[n].nIn = Cardinality(Of(S, list[n].Id, InKinds))
                            /\ list[n].nOut = Cardinality(Of(S, list[n].Id, OutKinds))

CountsOK == CountsOf(SimProc, Read)

\* The counters of the lines filed for the process whose turn it is.
FilingOK ==
  pc.at = "file" /\ pc.n \in DOMAIN SimProc =>
    /\ pc.nIn = Cardinality(Of(1 .. pc.i - 1, SimProc[pc.n].Id, InKinds))
    /\ pc.nOut = Cardinality(Of(1 .. pc.i - 1, SimProc[pc.n].Id, OutKinds))

\* The turn of a process.
Turn(p) == CHOOSE n \in DOMAIN SimProc : SimProc[n].Id = p

\* The lines that are filed already.
Filed ==
  {j \in DOMAIN dvc :
     /\ pc.at # "read"
     /\ pc.at = "file" => \/ Turn(dvc[j].proc) < pc.n
                          \/ Turn(dvc[j].proc) = pc.n /\ j < pc.i}

Simu == [prono : Nat, idxIO : Nat, kamplify : Int]
Signal == [idno : Nat, slot : Slots, chan : Chans, iospec : 0 .. 2, VSimIO : Seq(Simu)]

\* The variable of line j, the lines of a signal, the lines of a kind.
SimVarOf(j) == SimVar(dvc[j], Place(j))
Shares(k, no) == {j \in DOMAIN dvc : dvc[j].kind = k /\ dvc[j].idno = no}
OfKind(k) == {j \in DOMAIN dvc : dvc[j].kind = k}

\* A signal has the channel of its first line, and variables of its lines only, in the order
\* of their processes.
SignalOK(s, k, filed) ==
  /\ 1 \in DOMAIN s.VSimIO
  /\ \E j \in filed \cap Shares(k, s.idno) :
       /\ s.slot = dvc[j].slot /\ s.chan = dvc[j].chan /\ s.iospec = dvc[j].iospec
       /\ s.VSimIO[1] = SimVarOf(j)
  /\ \A v \in DOMAIN s.VSimIO :
       /\ \E j \in filed \cap Shares(k, s.idno) : s.VSimIO[v] = SimVarOf(j)
       /\ Turn(s.VSimIO[1].prono) <= Turn(s.VSimIO[v].prono)

\* The signals of a list have different numbers, and there are not more of them than lines.
ListOK(list, k, filed) ==
  /\ list \in Seq(Signal)
  /\ \A x, y \in DOMAIN list : list[x].idno = list[y].idno => x = y
  /\ \A x \in DOMAIN list : SignalOK(list[x], k, filed)
  /\ Len(list) <= Cardinality(filed \cap OfKind(k))

\* Every line filed is in a signal.
ListHas(list, k, filed) ==
  \A j \in filed \cap OfKind(k) :
    \E x \in DOMAIN list :
      /\ list[x].idno = dvc[j].idno
      /\ k # "AI" => \E v \in DOMAIN list[x].VSimIO : list[x].VSimIO[v] = SimVarOf(j)

SignalsOK ==
  /\ DOMAIN var = Kinds
  /\ \A k \in Kinds : ListOK(var[k], k, Filed) /\ ListHas(var[k], k, Filed)

(***************************************************************************)
(* The invariant: the cards and the inputs.                                *)
(***************************************************************************)
\* The classes that were not initialised yet.
Pending == CASE pc.at \in {"read", "file", "AI"} -> Kinds
             [] pc.at = "AO" -> {"AO", "DI", "DO"}
             [] pc.at = "DI" -> {"DI", "DO"}
             [] pc.at = "DO" -> {"DO"}
             [] OTHER -> {}

\* What the driver knows: the group of a class has its signals, and their cards a mode, if init
\* of the class succeeded; otherwise it is empty.
DevOK ==
  /\ dev = [card_type |-> dev.card_type, card_mode |-> dev.card_mode, count |-> dev.count]
  /\ dev.card_type \in [Slots -> Kinds \cup {"NO"}]
  /\ \A s \in Slots : dev.card_type[s] \in {"NO", Card[s]}
  /\ dev.card_mode \in [Slots -> {0, 1}]
  /\ dev.count \in [Kinds -> Nat]
  /\ ret \in [Kinds -> {0, -1, -2, -3}]
  /\ \A k \in Pending : ret[k] = -1
  /\ \A k \in Kinds :
       IF ret[k] # 0 THEN dev.count[k] = 0
       ELSE /\ dev.count[k] = GroupLength(k)
            /\ \A x \in DOMAIN var[k] : dev.card_mode[var[k][x].slot] = 1

\* The frames received: a step begins after all words of frame pc.since were stored.
InStep == pc.at \in {"readAI", "readDI", "inputs", "recv"}
RxOK ==
  /\ rx = [frame |-> rx.frame, left |-> rx.left]
  /\ rx.frame \in 0 .. MaxFrames /\ rx.left \subseteq Slots \X Chans
  /\ in \in [Slots -> [Chans -> 0 .. MaxFrames]]
  /\ \A s \in Slots, c \in Chans : in[s][c] <= rx.frame
  /\ ~Simulating => rx.frame = 0 /\ rx.left = {}
  /\ InStep => /\ pc.since <= rx.frame
               /\ \A cell \in InputCells : pc.since <= in[cell[1]][cell[2]]

\* The samples read in this step.
Sampled(k, x) ==
  CASE pc.at = "readAI" -> k = "AI" /\ x < pc.i
    [] pc.at = "readDI" -> k = "AI" \/ (k = "DI" /\ x < pc.i)
    [] OTHER -> TRUE

Known(k, x) == dev.count[k] = Len(var[k]) /\ <<var[k][x].slot, var[k][x].chan>> \in InputCells

SampleOK ==
  ~Reading =>
    /\ sample = [AI |-> sample["AI"], DI |-> sample["DI"]]
    /\ \A k \in {"AI", "DI"} :
         /\ sample[k] \in [DOMAIN var[k] -> -1 .. MaxFrames]
         /\ InStep => \A x \in DOMAIN var[k] :
              Known(k, x) /\ Sampled(k, x) => sample[k][x] \in pc.since .. rx.frame

(***************************************************************************)
(* The invariant: the arrays, the outputs and the words.                   *)
(***************************************************************************)
Ids == {SimProc[n].Id : n \in DOMAIN SimProc}

DataOK == ~Reading => data \in [Ids -> [0 .. Len(dvc) -> Int]]

\* What the processes are sent.
GivenOK ==
  InputsSent => \A k \in {"AI", "DI"} : \A x \in DOMAIN var[k] :
    LET v == var[k][x].VSimIO[1]
    IN data[v.prono][v.idxIO] = InputValue(k, var[k][x], v.kamplify, sample[k][x])

\* The processes whose outputs of this step were received.
Got(p) == pc.at \in {"send", "end"} \/ (pc.at = "recv" /\ Turn(p) < pc.i)

TermOf(v) == Term(v, data[v.prono])
Gathered(s) == {TermOf(s.VSimIO[v]) : v \in {w \in DOMAIN s.VSimIO : Got(s.VSimIO[w].prono)}}
Word(s) == DoWord(data[s.VSimIO[1].prono][s.VSimIO[1].idxIO])

\* The volts of an AO and the word of a DO, from the arrival of its first variable on.
VoltOK ==
  ~Reading =>
    /\ volt = [AO |-> volt.AO, DO |-> volt.DO]
    /\ DOMAIN volt.AO = DOMAIN var.AO /\ DOMAIN volt.DO = DOMAIN var.DO
    /\ \A x \in DOMAIN var.AO : /\ IsFiniteSet(volt.AO[x])
                                /\ \A t \in volt.AO[x] : t.add \in Int
                                /\ Got(var.AO[x].VSimIO[1].prono) => volt.AO[x] = Gathered(var.AO[x])
    /\ \A x \in DOMAIN var.DO : /\ volt.DO[x] \in Int
                                /\ Got(var.DO[x].VSimIO[1].prono) => volt.DO[x] = Word(var.DO[x])

\* The signals of a channel.
At(k, s, c) == {x \in DOMAIN var[k] : var[k][x].slot = s /\ var[k][x].chan = c}
Rest(s) == IF Card[s] = "AO" THEN AoRest ELSE 0

WordsOK ==
  /\ out \in [Slots -> [Chans -> Int]]
  /\ \A s \in Slots, c \in Chans : Card[s] = "AO" => out[s][c] \in 0 .. AoTop

\* Before the simulation every output that answered init is at rest; later, those no line names
\* and those whose class could not be initialised.
RestOK ==
  \A s \in Slots, c \in Chans :
    /\ ~Simulating => (dev.card_type[s] = "NO" /\ Card[s] = "AO") \/ out[s][c] = Rest(s)
    /\ /\ dev.card_type[s] \in {"AO", "DO"}
       /\ ret[Card[s]] = 0 => At(Card[s], s, c) = {}
       => out[s][c] = Rest(s)

\* The group of a kind is written, and x is its only signal of the channel.
Alone(k, x) == /\ Len(var[k]) = dev.count[k]
               /\ At(k, var[k][x].slot, var[k][x].chan) = {x}

\* The words of a frame sent.
SentOK ==
  /\ sent.step \in 0 .. pc.ITime /\ (pc.at \notin {"end", "done"} => sent.step < pc.ITime)
  /\ FrameSent =>
       /\ sent.word = [s \in {t \in Slots : dev.card_mode[t] # 0 /\ dev.card_type[t] \in {"AO", "DO"}} |->
                         out[s]]
       /\ \A x \in DOMAIN var["AO"] : Alone("AO", x) =>
            out[var["AO"][x].slot][var["AO"][x].chan] = AoWord(volt.AO[x])
       /\ \A x \in DOMAIN var["DO"] : Alone("DO", x) =>
            out[var["DO"][x].slot][var["DO"][x].chan] = volt.DO[x]

OutOK == WordsOK /\ RestOK /\ SentOK

Inv == dvc \in Files /\ PcOK /\ CountsOK /\ FilingOK /\ SignalsOK /\ DevOK /\ RxOK /\ SampleOK
       /\ DataOK /\ GivenOK /\ VoltOK /\ OutOK
-----------------------------------------------------------------------------
(* Numbers, sets and sums. *)

\* A set of natural numbers has a least one.
LEMMA LeastOf ==
  ASSUME NEW S \in SUBSET Nat, S # {}
  PROVE  \E x \in S : \A y \in S : x <= y
<1> DEFINE R == {p \in Nat \X Nat : p[1] < p[2]}
<1>1. IsWellFoundedOn(R, Nat)
  BY NatLessThanWellFounded DEF OpToRel
<1>2. PICK x \in S : \A y \in S : <<y, x>> \notin R
  <2> HIDE DEF R
  <2> QED BY <1>1, WFMin
<1>3. \A y \in S : x <= y
  <2> SUFFICES ASSUME NEW y \in S PROVE x <= y
    OBVIOUS
  <2>1. x \in Nat /\ y \in Nat /\ <<y, x>> \in Nat \X Nat
    OBVIOUS
  <2>2. ~(<<y, x>>[1] < <<y, x>>[2])
    BY <1>2, <2>1
  <2> QED BY <2>1, <2>2
<1> QED
  BY <1>3

\* The recursion of MapThenSumSet: one element is taken out after the other.
Pick(s) == CHOOSE x \in s : TRUE
Summing(D, f) == f = [s \in D |-> IF s = {} THEN 0 ELSE Pick(s).add + f[s \ {Pick(s)}]]

\* Sum is that recursion.
LEMMA SumUnfold ==
  ASSUME NEW T
  PROVE Sum(T) = (CHOOSE f : Summing(SUBSET T, f))[T]
  BY DEF Sum, MapThenSumSet, MapThenFoldSet, Summing, Pick

\* The terms of an AO add up to a number: the recursion has a solution on the sets of at most
\* m terms for every m, and no set is the smallest whose sum is none.
LEMMA SumTyped ==
  ASSUME NEW T, IsFiniteSet(T), \A t \in T : t.add \in Int
  PROVE  Sum(T) \in Int
<1> DEFINE Upto(m) == {s \in SUBSET T : Cardinality(s) <= m}
           Bad == {m \in Nat : ~ \E f \in [Upto(m) -> Int] : Summing(Upto(m), f)}
<1>0. \A s \in SUBSET T : IsFiniteSet(s) /\ Cardinality(s) \in Nat
  BY FS_Subset, FS_CardinalityType
<1>1. \A s \in SUBSET T : s # {} => /\ Pick(s) \in s
                                    /\ s \ {Pick(s)} \in SUBSET T
                                    /\ Cardinality(s \ {Pick(s)}) = Cardinality(s) - 1
                                    /\ Cardinality(s) > 0
  <2> SUFFICES ASSUME NEW s \in SUBSET T, s # {}
               PROVE /\ Pick(s) \in s
                     /\ s \ {Pick(s)} \in SUBSET T
                     /\ Cardinality(s \ {Pick(s)}) = Cardinality(s) - 1
                     /\ Cardinality(s) > 0
    OBVIOUS
  <2>1. Pick(s) \in s
    BY Zenon DEF Pick
  <2>2. Cardinality(s \ {Pick(s)}) = Cardinality(s) - 1
    BY <1>0, <2>1, FS_RemoveElement
  <2>3. IsFiniteSet(s) /\ Cardinality(s) \in Nat /\ Cardinality(s) # 0
    BY <1>0, FS_EmptySet
  <2> QED BY <2>1, <2>2, <2>3
<1>2. Bad = {}
  <2> SUFFICES ASSUME Bad # {} PROVE FALSE
    OBVIOUS
  <2>1. PICK m \in Bad : \A y \in Bad : m <= y
    BY LeastOf
  <2>2. m # 0
    <3> SUFFICES ASSUME m = 0 PROVE FALSE
      OBVIOUS
    <3>1. Upto(0) = {{}}
      <4>1. ASSUME NEW s \in SUBSET T, Cardinality(s) <= 0 PROVE s = {}
        <5> SUFFICES ASSUME s # {} PROVE FALSE
          OBVIOUS
        <5>1. Cardinality(s) > 0 /\ Cardinality(s) \in Nat
          BY <1>0, <1>1
        <5> QED BY <4>1, <5>1
      <4>2. {} \in SUBSET T /\ Cardinality({}) <= 0
        BY FS_EmptySet
      <4> QED BY <4>1, <4>2
    <3> DEFINE f == [s \in {{}} |-> 0]
    <3>2. Summing({{}}, f)
      <4>1. f = [s \in {{}} |-> IF s = {} THEN 0 ELSE Pick(s).add + f[s \ {Pick(s)}]]
        OBVIOUS
      <4> QED BY <4>1, Zenon DEF Summing
    <3>3. f \in [{{}} -> Int]
      OBVIOUS
    <3> HIDE DEF f, Upto
    <3>4. \E g \in [Upto(0) -> Int] : Summing(Upto(0), g)
      BY <3>1, <3>2, <3>3
    <3>5. 0 \in Bad
      BY <2>1
    <3>6. ~ \E g \in [Upto(0) -> Int] : Summing(Upto(0), g)
      BY <3>5, Zenon
    <3> QED BY <3>4, <3>6
  <2>3. m \in Nat /\ m - 1 \in Nat /\ m - 1 \notin Bad
    <3>1. m \in Nat
      OBVIOUS
    <3> HIDE DEF Bad
    <3> QED BY <2>1, <2>2, <3>1
  <2>4. PICK g \in [Upto(m - 1) -> Int] : Summing(Upto(m - 1), g)
    BY <2>3
  <2> DEFINE f == [s \in Upto(m) |-> IF s = {} THEN 0 ELSE Pick(s).add + g[s \ {Pick(s)}]]
  <2>5. \A s \in Upto(m) : s # {} => Pick(s).add \in Int /\ s \ {Pick(s)} \in Upto(m - 1)
    BY <1>0, <1>1, <2>3
  <2>6. f \in [Upto(m) -> Int]
    BY <2>5
  <2>7. \A s \in Upto(m - 1) : f[s] = g[s]
    <3> SUFFICES ASSUME NEW s \in Upto(m - 1) PROVE f[s] = g[s]
      OBVIOUS
    <3>1. s \in Upto(m)
      BY <1>0, <2>3
    <3>2. g[s] = IF s = {} THEN 0 ELSE Pick(s).add + g[s \ {Pick(s)}]
      BY <2>4, Zenon DEF Summing
    <3> QED BY <3>1, <3>2
  <2>8. Summing(Upto(m), f)
    <3>1. ASSUME NEW s \in Upto(m)
          PROVE f[s] = IF s = {} THEN 0 ELSE Pick(s).add + f[s \ {Pick(s)}]
      BY <2>5, <2>7
    <3> HIDE DEF f, Upto
    <3>2. f = [s \in Upto(m) |-> f[s]]
      BY <2>6
    <3> QED BY <3>1, <3>2 DEF Summing
  <2>9. m \notin Bad
    BY <2>6, <2>8
  <2> QED BY <2>1, <2>9
<1> DEFINE sum == CHOOSE f : Summing(SUBSET T, f)
<1>3. Summing(SUBSET T, sum)
  <2>1. Upto(Cardinality(T)) = SUBSET T
    BY FS_Subset, <1>0
  <2>2. Cardinality(T) \in Nat
    BY FS_CardinalityType
  <2>3. \E f : Summing(SUBSET T, f)
    BY <1>2, <2>1, <2>2
  <2> QED BY <2>3, Zenon
<1>4. \A s \in SUBSET T : sum[s] = IF s = {} THEN 0 ELSE Pick(s).add + sum[s \ {Pick(s)}]
  BY <1>3, Zenon DEF Summing
<1> HIDE DEF sum
<1>5. \A s \in SUBSET T : sum[s] \in Int
  <2> DEFINE Worse == {Cardinality(s) : s \in {r \in SUBSET T : sum[r] \notin Int}}
  <2> SUFFICES ASSUME Worse # {} PROVE FALSE
    OBVIOUS
  <2>1. Worse \in SUBSET Nat
    BY <1>0
  <2>2. PICK m \in Worse : \A y \in Worse : m <= y
    BY <2>1, LeastOf
  <2>3. PICK s \in SUBSET T : sum[s] \notin Int /\ m = Cardinality(s)
    BY <2>2
  <2>4. s # {}
    <3> SUFFICES ASSUME s = {} PROVE FALSE
      OBVIOUS
    <3>1. sum[s] = 0
      BY <1>4, Zenon
    <3> QED BY <2>3, <3>1
  <2>5. s \ {Pick(s)} \in SUBSET T /\ Cardinality(s \ {Pick(s)}) = m - 1 /\ Pick(s) \in T /\ m \in Nat
    BY <1>0, <1>1, <2>3, <2>4
  <2>6. sum[s \ {Pick(s)}] \in Int
    BY <2>2, <2>5
  <2>7. sum[s] = Pick(s).add + sum[s \ {Pick(s)}]
    BY <1>4, <2>4
  <2> QED BY <2>3, <2>5, <2>6, <2>7
<1> QED BY <1>5, SumUnfold DEF sum

(* The lines of the file. *)

LEMMA FileFacts ==
  ASSUME dvc \in Files
  PROVE  /\ dvc \in Seq(Lines) /\ Len(dvc) \in Nat /\ DOMAIN dvc = 1 .. Len(dvc)
         /\ IsFiniteSet(DOMAIN dvc) /\ Cardinality(DOMAIN dvc) = Len(dvc)
         /\ \A j \in DOMAIN dvc : dvc[j] \in Lines /\ Card[dvc[j].slot] = dvc[j].kind
<1>1. dvc \in Seq(Lines) /\ \A j \in DOMAIN dvc : Card[dvc[j].slot] = dvc[j].kind
  BY BoxDataAssumption
<1>2. Len(dvc) \in Nat /\ DOMAIN dvc = 1 .. Len(dvc) /\ \A j \in DOMAIN dvc : dvc[j] \in Lines
  BY <1>1
<1>3. IsFiniteSet(1 .. Len(dvc)) /\ Cardinality(1 .. Len(dvc)) = Len(dvc)
  BY <1>2, FS_Interval
<1> QED BY <1>1, <1>2, <1>3

\* What a line is made of.
LEMMA LineFacts ==
  ASSUME dvc \in Files, NEW j \in DOMAIN dvc
  PROVE  /\ dvc[j].kind \in Kinds /\ dvc[j].idno \in Nat /\ dvc[j].proc \in Nat
         /\ dvc[j].slot \in Slots /\ dvc[j].chan \in Chans /\ dvc[j].gain \in Int
         /\ dvc[j].iospec \in 0 .. 2
         /\ Card[dvc[j].slot] = dvc[j].kind
         /\ j \in Nat \ {0} /\ j <= Len(dvc)
<1>1. dvc[j] \in Lines /\ Card[dvc[j].slot] = dvc[j].kind /\ j \in 1 .. Len(dvc) /\ Len(dvc) \in Nat
  BY FileFacts
<1> QED BY <1>1 DEF Lines

\* The lines of a process, counted.
LEMMA OfFacts ==
  ASSUME dvc \in Files, NEW S \in SUBSET DOMAIN dvc, NEW p, NEW kinds
  PROVE  /\ IsFiniteSet(Of(S, p, kinds)) /\ Cardinality(Of(S, p, kinds)) \in Nat
         /\ Of(S, p, kinds) \subseteq S
         /\ Cardinality(Of(S, p, kinds)) <= Len(dvc)
<1>1. Of(S, p, kinds) \subseteq S /\ Of(S, p, kinds) \subseteq DOMAIN dvc
  BY DEF Of
<1>2. IsFiniteSet(DOMAIN dvc) /\ Cardinality(DOMAIN dvc) = Len(dvc)
  BY FileFacts
<1> QED BY <1>1, <1>2, FS_Subset, FS_CardinalityType

LEMMA OfMore ==
  ASSUME dvc \in Files, NEW S \in SUBSET DOMAIN dvc, NEW j \in DOMAIN dvc, j \notin S,
         NEW p, NEW kinds
  PROVE  Cardinality(Of(S \cup {j}, p, kinds)) =
           IF dvc[j].proc = p /\ dvc[j].kind \in kinds
           THEN Cardinality(Of(S, p, kinds)) + 1 ELSE Cardinality(Of(S, p, kinds))
<1>1. CASE dvc[j].proc = p /\ dvc[j].kind \in kinds
  <2>1. Of(S \cup {j}, p, kinds) = Of(S, p, kinds) \cup {j} /\ j \notin Of(S, p, kinds)
    BY <1>1 DEF Of
  <2>2. IsFiniteSet(Of(S, p, kinds))
    BY OfFacts
  <2>3. Cardinality(Of(S, p, kinds) \cup {j}) = Cardinality(Of(S, p, kinds)) + 1
    BY <2>1, <2>2, FS_AddElement
  <2> QED BY <1>1, <2>1, <2>3
<1>2. CASE ~ (dvc[j].proc = p /\ dvc[j].kind \in kinds)
  <2>1. Of(S \cup {j}, p, kinds) = Of(S, p, kinds)
    BY <1>2 DEF Of
  <2> QED BY <1>2, <2>1
<1> QED BY <1>1, <1>2

LEMMA OfMono ==
  ASSUME dvc \in Files, NEW T \in SUBSET DOMAIN dvc, NEW S \in SUBSET T, NEW p, NEW kinds
  PROVE  Cardinality(Of(S, p, kinds)) <= Cardinality(Of(T, p, kinds))
<1>1. Of(S, p, kinds) \subseteq Of(T, p, kinds)
  BY DEF Of
<1>2. IsFiniteSet(Of(T, p, kinds))
  BY OfFacts
<1> QED BY <1>1, <1>2, FS_Subset

LEMMA PlaceIs ==
  ASSUME dvc \in Files, NEW i \in DOMAIN dvc
  PROVE  Place(i) = Cardinality(Of(1 .. i - 1, dvc[i].proc, Side(dvc[i].kind)))
<1>1. {j \in 1 .. i - 1 : dvc[j].proc = dvc[i].proc /\ IsInput(dvc[j].kind) = IsInput(dvc[i].kind)}
        = Of(1 .. i - 1, dvc[i].proc, Side(dvc[i].kind))
  <2>1. 1 .. i - 1 \subseteq DOMAIN dvc
    BY FileFacts
  <2>2. \A j \in DOMAIN dvc : dvc[j].kind \in Kinds
    BY LineFacts
  <2>3. \A j \in 1 .. i - 1 :
          (IsInput(dvc[j].kind) = IsInput(dvc[i].kind)) <=> dvc[j].kind \in Side(dvc[i].kind)
    BY <2>1, <2>2 DEF Side, IsInput, InKinds, OutKinds, Kinds
  <2> QED BY <2>3 DEF Of
<1> QED BY <1>1 DEF Place

\* The place of a line is one of the places of its process, and of this line only.
LEMMA PlaceFacts ==
  ASSUME dvc \in Files, NEW i \in DOMAIN dvc
  PROVE  /\ Place(i) \in 0 .. Len(dvc)
         /\ Place(i) < Cardinality(Of(DOMAIN dvc, dvc[i].proc, Side(dvc[i].kind)))
         /\ \A j \in DOMAIN dvc :
              /\ dvc[j].proc = dvc[i].proc /\ Side(dvc[j].kind) = Side(dvc[i].kind)
              /\ j # i
              => Place(j) # Place(i)
<1>0. Len(dvc) \in Nat /\ DOMAIN dvc = 1 .. Len(dvc)
  BY FileFacts
<1>1. \A k \in DOMAIN dvc : Place(k) \in 0 .. Len(dvc)
  <2> SUFFICES ASSUME NEW k \in DOMAIN dvc PROVE Place(k) \in 0 .. Len(dvc)
    OBVIOUS
  <2>1. 1 .. k - 1 \in SUBSET DOMAIN dvc
    BY <1>0
  <2>2. /\ Cardinality(Of(1 .. k - 1, dvc[k].proc, Side(dvc[k].kind))) \in Nat
        /\ Cardinality(Of(1 .. k - 1, dvc[k].proc, Side(dvc[k].kind))) <= Len(dvc)
    BY <2>1, OfFacts
  <2> QED BY <1>0, <2>2, PlaceIs
<1>2. \A k \in DOMAIN dvc : \A T \in SUBSET DOMAIN dvc :
        1 .. k \subseteq T =>
          Place(k) < Cardinality(Of(T, dvc[k].proc, Side(dvc[k].kind)))
  <2> SUFFICES ASSUME NEW k \in DOMAIN dvc, NEW T \in SUBSET DOMAIN dvc, 1 .. k \subseteq T
               PROVE Place(k) < Cardinality(Of(T, dvc[k].proc, Side(dvc[k].kind)))
    OBVIOUS
  <2>1. 1 .. k - 1 \in SUBSET DOMAIN dvc /\ k \notin 1 .. k - 1 /\ (1 .. k - 1) \cup {k} = 1 .. k
    BY <1>0
  <2>2. dvc[k].kind \in Side(dvc[k].kind)
    BY LineFacts DEF Side, IsInput, InKinds, OutKinds, Kinds
  <2>3. Cardinality(Of(1 .. k, dvc[k].proc, Side(dvc[k].kind))) = Place(k) + 1
    <3>1. Cardinality(Of((1 .. k - 1) \cup {k}, dvc[k].proc, Side(dvc[k].kind))) =
            Cardinality(Of(1 .. k - 1, dvc[k].proc, Side(dvc[k].kind))) + 1
      BY <2>1, <2>2, OfMore
    <3> QED BY <2>1, <3>1, PlaceIs
  <2>4. Place(k) + 1 <= Cardinality(Of(T, dvc[k].proc, Side(dvc[k].kind)))
    <3>1. Cardinality(Of(1 .. k, dvc[k].proc, Side(dvc[k].kind)))
            <= Cardinality(Of(T, dvc[k].proc, Side(dvc[k].kind)))
      BY OfMono
    <3> QED BY <2>3, <3>1
  <2>5. Place(k) \in Nat /\ Cardinality(Of(T, dvc[k].proc, Side(dvc[k].kind))) \in Nat
    <3>1. Cardinality(Of(T, dvc[k].proc, Side(dvc[k].kind))) \in Nat
      BY OfFacts
    <3>2. Place(k) \in Nat
      BY <1>1
    <3> QED BY <3>1, <3>2
  <2> QED BY <2>4, <2>5
<1>3. \A j, k \in DOMAIN dvc :
        j < k /\ dvc[j].proc = dvc[k].proc /\ Side(dvc[j].kind) = Side(dvc[k].kind)
        => Place(j) < Place(k)
  <2> SUFFICES ASSUME NEW j \in DOMAIN dvc, NEW k \in DOMAIN dvc, j < k, dvc[j].proc = dvc[k].proc,
                      Side(dvc[j].kind) = Side(dvc[k].kind)
               PROVE Place(j) < Place(k)
    OBVIOUS
  <2>1. 1 .. k - 1 \in SUBSET DOMAIN dvc /\ 1 .. j \subseteq 1 .. k - 1
    BY <1>0
  <2>2. Place(j) < Cardinality(Of(1 .. k - 1, dvc[j].proc, Side(dvc[j].kind)))
    BY <1>2, <2>1
  <2> QED BY <2>2, PlaceIs
<1>4. ASSUME NEW j \in DOMAIN dvc, dvc[j].proc = dvc[i].proc,
             Side(dvc[j].kind) = Side(dvc[i].kind), j # i
      PROVE Place(j) # Place(i)
  <2>1. j < i \/ i < j
    BY <1>0, <1>4
  <2>2. Place(j) \in Nat /\ Place(i) \in Nat
    BY <1>1
  <2>3. Place(j) < Place(i) \/ Place(i) < Place(j)
    <3>1. CASE j < i
      BY <1>3, <1>4, <3>1
    <3>2. CASE i < j
      <4>1. dvc[i].proc = dvc[j].proc /\ Side(dvc[i].kind) = Side(dvc[j].kind)
        BY <1>4
      <4> QED BY <1>3, <3>2, <4>1
    <3> QED BY <2>1, <3>1, <3>2
  <2>4. QED
    <3> SUFFICES ASSUME Place(j) = Place(i) PROVE FALSE
      OBVIOUS
    <3>1. Place(j) < Place(j)
      BY <2>3
    <3> QED BY <2>2, <3>1
<1>5. Place(i) < Cardinality(Of(DOMAIN dvc, dvc[i].proc, Side(dvc[i].kind)))
  <2>1. 1 .. i \subseteq DOMAIN dvc
    BY <1>0
  <2> QED BY <1>2, <2>1
<1> QED BY <1>1, <1>4, <1>5

-----------------------------------------------------------------------------
(* What a step changes. *)

\* The counters of the process keep their types.
LEMMA PcWith ==
  ASSUME pc \in PcType
  PROVE  /\ \A at \in Stages, i \in Nat : [pc EXCEPT !.at = at, !.i = i] \in PcType
         /\ \A i \in Nat, nIn \in Nat : [pc EXCEPT !.i = i, !.nIn = nIn] \in PcType
         /\ \A i \in Nat, nOut \in Nat : [pc EXCEPT !.i = i, !.nOut = nOut] \in PcType
         /\ \A n \in Nat : [pc EXCEPT !.n = n, !.i = 1, !.nIn = 0, !.nOut = 0] \in PcType
         /\ \A at \in Stages, faults \in Nat : [pc EXCEPT !.at = at, !.faults = faults] \in PcType
         /\ \A since \in Nat :
              [pc EXCEPT !.at = "readAI", !.i = 1, !.since = since, !.faults = 0] \in PcType
         /\ \A at \in Stages, t \in Nat : [pc EXCEPT !.at = at, !.ITime = t] \in PcType
<1>1. ASSUME NEW at \in Stages, NEW i \in Nat PROVE [pc EXCEPT !.at = at, !.i = i] \in PcType
  BY Zenon DEF PcType
<1>2. ASSUME NEW i \in Nat, NEW nIn \in Nat PROVE [pc EXCEPT !.i = i, !.nIn = nIn] \in PcType
  BY Zenon DEF PcType
<1>3. ASSUME NEW i \in Nat, NEW nOut \in Nat PROVE [pc EXCEPT !.i = i, !.nOut = nOut] \in PcType
  BY Zenon DEF PcType
<1>4. ASSUME NEW n \in Nat, NEW i \in Nat, NEW nIn \in Nat, NEW nOut \in Nat
      PROVE [pc EXCEPT !.n = n, !.i = i, !.nIn = nIn, !.nOut = nOut] \in PcType
  BY Zenon DEF PcType
<1>5. ASSUME NEW at \in Stages, NEW faults \in Nat
      PROVE [pc EXCEPT !.at = at, !.faults = faults] \in PcType
  BY Zenon DEF PcType
<1>6. ASSUME NEW at \in Stages, NEW i \in Nat, NEW since \in Nat, NEW faults \in Nat
      PROVE [pc EXCEPT !.at = at, !.i = i, !.since = since, !.faults = faults] \in PcType
  BY Zenon DEF PcType
<1>7. ASSUME NEW at \in Stages, NEW t \in Nat PROVE [pc EXCEPT !.at = at, !.ITime = t] \in PcType
  BY Zenon DEF PcType
<1>8. 0 \in Nat /\ 1 \in Nat /\ "readAI" \in Stages
  BY DEF Stages
<1>9. \A n \in Nat : [pc EXCEPT !.n = n, !.i = 1, !.nIn = 0, !.nOut = 0] \in PcType
  BY <1>4, <1>8, Zenon
<1>10. \A since \in Nat :
         [pc EXCEPT !.at = "readAI", !.i = 1, !.since = since, !.faults = 0] \in PcType
  BY <1>6, <1>8, Zenon
<1> QED BY <1>1, <1>2, <1>3, <1>5, <1>7, <1>9, <1>10, Zenon

\* The actions one by one.
LEMMA Actions ==
  ASSUME [Next]_vars
  PROVE  \/ ReadLine \/ FileLine \/ ProcDone \/ AllocBuf
         \/ \E k \in Kinds : NoSignals(k)
         \/ \E k \in Kinds : InitClass(k)
         \/ RxFrame \/ RxStore \/ getSignal_NextDT
         \/ ReadWord("readAI", "AI") \/ EndRead("readAI", "AI", "readDI")
         \/ ReadWord("readDI", "DI") \/ EndRead("readDI", "DI", "inputs")
         \/ SendInputs \/ RecvOutputs \/ SenddataToPID \/ EndStep
         \/ UNCHANGED vars
BY DEF Next, ReadDvc, getdatafromPID

\* Where each action takes the process.
LEMMA Moves ==
  ASSUME pc \in PcType
  PROVE  /\ ReadLine => /\ pc.at = "read" /\ pc' \in PcType
                        /\ IF pc.i <= Len(dvc) THEN pc'.at = "read" /\ pc'.i = pc.i + 1
                           ELSE pc'.at = "file" /\ pc'.i = 1
                        /\ pc'.n = pc.n /\ pc'.nIn = pc.nIn /\ pc'.nOut = pc.nOut
                        /\ pc'.ITime = pc.ITime /\ pc'.since = pc.since
         /\ FileLine => /\ pc.at = "file" /\ pc' \in PcType
                        /\ pc'.at = "file" /\ pc'.n = pc.n /\ pc'.i = pc.i + 1
                        /\ pc'.nIn = IF OfProc(dvc[pc.i]) /\ IsInput(dvc[pc.i].kind)
                                     THEN pc.nIn + 1 ELSE pc.nIn
                        /\ pc'.nOut = IF OfProc(dvc[pc.i]) /\ ~IsInput(dvc[pc.i].kind)
                                      THEN pc.nOut + 1 ELSE pc.nOut
                        /\ pc'.ITime = pc.ITime /\ pc'.since = pc.since
         /\ ProcDone => /\ pc.at = "file" /\ pc' \in PcType
                        /\ pc'.at = "file" /\ pc'.n = pc.n + 1 /\ pc'.i = 1
                        /\ pc'.nIn = 0 /\ pc'.nOut = 0
                        /\ pc'.ITime = pc.ITime /\ pc'.since = pc.since
         /\ AllocBuf => /\ pc.at = "file" /\ pc' \in PcType /\ pc'.at = "AI"
                        /\ pc'.ITime = pc.ITime /\ pc'.since = pc.since
         /\ \A k \in Kinds : NoSignals(k) \/ InitClass(k) =>
              /\ pc.at = k /\ pc' \in PcType /\ pc'.at = After(k)
              /\ pc'.ITime = pc.ITime /\ pc'.since = pc.since
         /\ RxFrame \/ RxStore => pc' = pc
         /\ getSignal_NextDT => /\ pc.at = "step" /\ pc'.at = "readAI" /\ pc'.i = 1
                                /\ pc'.ITime = pc.ITime /\ pc'.since = Whole
                                /\ Whole \in Nat => pc' \in PcType
         /\ \A at, k : ReadWord(at, k) => /\ pc.at = at /\ pc' \in PcType
                                          /\ pc'.at = pc.at /\ pc'.i = pc.i + 1
                                          /\ pc'.ITime = pc.ITime /\ pc'.since = pc.since
         /\ \A at, k : \A next \in {"readDI", "inputs"} : EndRead(at, k, next) =>
              /\ pc.at = at /\ pc' \in PcType /\ pc'.at = next /\ pc'.i = 1
              /\ pc'.ITime = pc.ITime /\ pc'.since = pc.since
         /\ SendInputs => /\ pc.at = "inputs" /\ pc' \in PcType
                          /\ pc'.at = IF SimProc = <<>> THEN "send" ELSE "recv"
                          /\ pc'.i = pc.i /\ pc'.ITime = pc.ITime /\ pc'.since = pc.since
         /\ RecvOutputs => /\ pc.at = "recv" /\ pc' \in PcType
                           /\ IF pc.i = Len(SimProc) THEN pc'.at = "send"
                              ELSE pc'.at = "recv" /\ pc'.i = pc.i + 1
                           /\ pc'.ITime = pc.ITime /\ pc'.since = pc.since
         /\ SenddataToPID => /\ pc.at = "send" /\ pc' \in PcType /\ pc'.at = "end"
                             /\ pc'.ITime = pc.ITime /\ pc'.since = pc.since
         /\ EndStep => /\ pc.at = "end" /\ pc' \in PcType /\ pc'.since = pc.since
                       /\ IF pc.ITime = Steps THEN pc'.at = "done" /\ pc'.ITime = pc.ITime
                          ELSE pc'.at = "step" /\ pc'.ITime = pc.ITime + 1
<1>0. /\ pc.n + 1 \in Nat /\ pc.i + 1 \in Nat /\ pc.nIn + 1 \in Nat /\ pc.nOut + 1 \in Nat
      /\ pc.ITime + 1 \in Nat
  BY DEF PcType
<1>s. \A s \in {"read", "file", "AI", "step", "readAI", "readDI", "inputs", "recv", "send", "end",
                "done"} : s \in Stages
  BY DEF Stages
<1>1. ReadLine => /\ pc.at = "read" /\ pc' \in PcType
                  /\ IF pc.i <= Len(dvc) THEN pc'.at = "read" /\ pc'.i = pc.i + 1
                     ELSE pc'.at = "file" /\ pc'.i = 1
                  /\ pc'.n = pc.n /\ pc'.nIn = pc.nIn /\ pc'.nOut = pc.nOut
                  /\ pc'.ITime = pc.ITime /\ pc'.since = pc.since
  <2> SUFFICES ASSUME ReadLine
               PROVE  /\ pc.at = "read" /\ pc' \in PcType
                      /\ IF pc.i <= Len(dvc) THEN pc'.at = "read" /\ pc'.i = pc.i + 1
                         ELSE pc'.at = "file" /\ pc'.i = 1
                      /\ pc'.n = pc.n /\ pc'.nIn = pc.nIn /\ pc'.nOut = pc.nOut
                      /\ pc'.ITime = pc.ITime /\ pc'.since = pc.since
    OBVIOUS
  <2>1. pc.at = "read" /\ IF pc.i <= Len(dvc) THEN pc' = [pc EXCEPT !.i = @ + 1]
                          ELSE pc' = [pc EXCEPT !.at = "file", !.i = 1]
    BY DEF ReadLine
  <2>2. CASE pc.i <= Len(dvc)
    BY <2>1, <2>2 DEF PcType
  <2>3. CASE ~ (pc.i <= Len(dvc))
    <3>1. pc' = [pc EXCEPT !.at = "file", !.i = 1]
      BY <2>1, <2>3
    <3>2. pc' \in PcType
      BY <1>s, <3>1, PcWith
    <3> QED BY <2>1, <2>3, <3>1, <3>2 DEF PcType
  <2> QED BY <2>2, <2>3
<1>2. FileLine => /\ pc.at = "file" /\ pc' \in PcType
                  /\ pc'.at = "file" /\ pc'.n = pc.n /\ pc'.i = pc.i + 1
                  /\ pc'.nIn = IF OfProc(dvc[pc.i]) /\ IsInput(dvc[pc.i].kind)
                               THEN pc.nIn + 1 ELSE pc.nIn
                  /\ pc'.nOut = IF OfProc(dvc[pc.i]) /\ ~IsInput(dvc[pc.i].kind)
                                THEN pc.nOut + 1 ELSE pc.nOut
                  /\ pc'.ITime = pc.ITime /\ pc'.since = pc.since
  <2> SUFFICES ASSUME FileLine
               PROVE  /\ pc.at = "file" /\ pc' \in PcType
                      /\ pc'.at = "file" /\ pc'.n = pc.n /\ pc'.i = pc.i + 1
                      /\ pc'.nIn = IF OfProc(dvc[pc.i]) /\ IsInput(dvc[pc.i].kind)
                                   THEN pc.nIn + 1 ELSE pc.nIn
                      /\ pc'.nOut = IF OfProc(dvc[pc.i]) /\ ~IsInput(dvc[pc.i].kind)
                                    THEN pc.nOut + 1 ELSE pc.nOut
                      /\ pc'.ITime = pc.ITime /\ pc'.since = pc.since
    OBVIOUS
  <2>1. /\ pc.at = "file"
        /\ IF ~OfProc(dvc[pc.i]) THEN pc' = [pc EXCEPT !.i = @ + 1]
           ELSE IF IsInput(dvc[pc.i].kind) THEN pc' = [pc EXCEPT !.i = @ + 1, !.nIn = @ + 1]
           ELSE pc' = [pc EXCEPT !.i = @ + 1, !.nOut = @ + 1]
    BY DEF FileLine
  <2>2. CASE ~OfProc(dvc[pc.i])
    BY <2>1, <2>2 DEF PcType
  <2>3. CASE OfProc(dvc[pc.i]) /\ IsInput(dvc[pc.i].kind)
    <3>1. pc' = [pc EXCEPT !.i = pc.i + 1, !.nIn = pc.nIn + 1]
      BY <2>1, <2>3 DEF PcType
    <3>2. pc' \in PcType
      BY <1>0, <3>1, PcWith
    <3> QED BY <2>1, <2>3, <3>1, <3>2 DEF PcType
  <2>4. CASE OfProc(dvc[pc.i]) /\ ~IsInput(dvc[pc.i].kind)
    <3>1. pc' = [pc EXCEPT !.i = pc.i + 1, !.nOut = pc.nOut + 1]
      BY <2>1, <2>4 DEF PcType
    <3>2. pc' \in PcType
      BY <1>0, <3>1, PcWith
    <3> QED BY <2>1, <2>4, <3>1, <3>2 DEF PcType
  <2> QED BY <2>2, <2>3, <2>4
<1>3. ProcDone => /\ pc.at = "file" /\ pc' \in PcType
                  /\ pc'.at = "file" /\ pc'.n = pc.n + 1 /\ pc'.i = 1
                  /\ pc'.nIn = 0 /\ pc'.nOut = 0
                  /\ pc'.ITime = pc.ITime /\ pc'.since = pc.since
  <2>1. ProcDone => /\ pc.at = "file"
                    /\ pc' = [pc EXCEPT !.n = @ + 1, !.i = 1, !.nIn = 0, !.nOut = 0]
    BY DEF ProcDone
  <2>2. ProcDone => pc' \in PcType
    <3>1. ProcDone => pc' = [pc EXCEPT !.n = pc.n + 1, !.i = 1, !.nIn = 0, !.nOut = 0]
      BY <2>1
    <3> QED BY <1>0, <3>1, PcWith
  <2> QED BY <2>1, <2>2 DEF PcType
<1>4. AllocBuf => /\ pc.at = "file" /\ pc' \in PcType /\ pc'.at = "AI"
                  /\ pc'.ITime = pc.ITime /\ pc'.since = pc.since
  BY DEF AllocBuf, PcType, Stages
<1>5. ASSUME NEW k \in Kinds, NoSignals(k) \/ InitClass(k)
      PROVE  /\ pc.at = k /\ pc' \in PcType /\ pc'.at = After(k)
             /\ pc'.ITime = pc.ITime /\ pc'.since = pc.since
  <2>1. After(k) \in Stages
    BY DEF After, Kinds, Stages
  <2>2. CASE NoSignals(k)
    BY <2>1, <2>2 DEF NoSignals, PcType
  <2>3. CASE InitClass(k)
    <3>1. PICK answered \in SUBSET Slots, good \in BOOLEAN :
            /\ pc.at = k
            /\ pc' = [pc EXCEPT !.at = After(k),
                                !.faults = @ + Cardinality(Slots \ answered) + Faults(good)]
      BY <2>3 DEF InitClass
    <3>2. Cardinality(Slots \ answered) \in Nat
      BY BoxDataAssumption, FS_Subset, FS_CardinalityType
    <3>3. Faults(good) \in Nat
      BY DEF Faults
    <3> DEFINE faults == pc.faults + Cardinality(Slots \ answered) + Faults(good)
    <3>4. faults \in Nat /\ pc' = [pc EXCEPT !.at = After(k), !.faults = faults]
      BY <3>1, <3>2, <3>3 DEF PcType
    <3> HIDE DEF faults
    <3>5. pc' \in PcType
      BY <2>1, <3>4, PcWith
    <3> QED BY <3>1, <3>4, <3>5 DEF PcType
  <2> QED BY <1>5, <2>2, <2>3
<1>6. RxFrame \/ RxStore => pc' = pc
  BY DEF RxFrame, RxStore
<1>7. getSignal_NextDT => /\ pc.at = "step" /\ pc'.at = "readAI" /\ pc'.i = 1
                          /\ pc'.ITime = pc.ITime /\ pc'.since = Whole
                          /\ Whole \in Nat => pc' \in PcType
  <2>1. getSignal_NextDT =>
          /\ pc.at = "step"
          /\ pc' = [pc EXCEPT !.at = "readAI", !.i = 1, !.since = Whole, !.faults = 0]
    BY DEF getSignal_NextDT
  <2>2. getSignal_NextDT /\ Whole \in Nat => pc' \in PcType
    BY <1>s, <2>1, PcWith
  <2> QED BY <2>1, <2>2 DEF PcType
<1>8. ASSUME NEW at, NEW k, ReadWord(at, k)
      PROVE  /\ pc.at = at /\ pc' \in PcType
             /\ pc'.at = pc.at /\ pc'.i = pc.i + 1
             /\ pc'.ITime = pc.ITime /\ pc'.since = pc.since
  BY <1>8 DEF ReadWord, PcType
<1>9. ASSUME NEW at, NEW k, NEW next \in {"readDI", "inputs"}, EndRead(at, k, next)
      PROVE  /\ pc.at = at /\ pc' \in PcType /\ pc'.at = next /\ pc'.i = 1
             /\ pc'.ITime = pc.ITime /\ pc'.since = pc.since
  BY <1>9 DEF EndRead, PcType, Stages
<1>10. SendInputs => /\ pc.at = "inputs" /\ pc' \in PcType
                     /\ pc'.at = IF SimProc = <<>> THEN "send" ELSE "recv"
                     /\ pc'.i = pc.i /\ pc'.ITime = pc.ITime /\ pc'.since = pc.since
  BY DEF SendInputs, PcType, Stages
<1>11. RecvOutputs => /\ pc.at = "recv" /\ pc' \in PcType
                      /\ IF pc.i = Len(SimProc) THEN pc'.at = "send"
                         ELSE pc'.at = "recv" /\ pc'.i = pc.i + 1
                      /\ pc'.ITime = pc.ITime /\ pc'.since = pc.since
  <2>1. RecvOutputs => /\ pc.at = "recv"
                       /\ pc' = IF pc.i = Len(SimProc) THEN [pc EXCEPT !.at = "send", !.i = 1]
                                ELSE [pc EXCEPT !.i = @ + 1]
    BY DEF RecvOutputs
  <2>2. CASE pc.i = Len(SimProc)
    <3>0. "send" \in Stages /\ 1 \in Nat
      BY <1>s
    <3>1. [pc EXCEPT !.at = "send", !.i = 1] \in PcType
      BY <3>0, PcWith, Zenon
    <3> QED BY <2>1, <2>2, <3>1 DEF PcType
  <2>3. CASE pc.i # Len(SimProc)
    BY <2>1, <2>3 DEF PcType
  <2> QED BY <2>2, <2>3
<1>12. SenddataToPID => /\ pc.at = "send" /\ pc' \in PcType /\ pc'.at = "end"
                        /\ pc'.ITime = pc.ITime /\ pc'.since = pc.since
  <2>1. SenddataToPID => pc.at = "send" /\ pc' = [pc EXCEPT !.at = "end"]
    BY DEF SenddataToPID
  <2> QED BY <2>1 DEF PcType, Stages
<1>13. EndStep => /\ pc.at = "end" /\ pc' \in PcType /\ pc'.since = pc.since
                  /\ IF pc.ITime = Steps THEN pc'.at = "done" /\ pc'.ITime = pc.ITime
                     ELSE pc'.at = "step" /\ pc'.ITime = pc.ITime + 1
  <2>1. EndStep => /\ pc.at = "end"
                   /\ pc' = IF pc.ITime = Steps THEN [pc EXCEPT !.at = "done"]
                            ELSE [pc EXCEPT !.at = "step", !.ITime = @ + 1]
    BY DEF EndStep
  <2>2. CASE pc.ITime = Steps
    BY <2>1, <2>2 DEF PcType, Stages
  <2>3. CASE pc.ITime # Steps
    <3>0. EndStep => pc' = [pc EXCEPT !.at = "step", !.ITime = pc.ITime + 1]
      BY <2>1, <2>3
    <3>2. "step" \in Stages
      BY <1>s
    <3>1. [pc EXCEPT !.at = "step", !.ITime = pc.ITime + 1] \in PcType
      BY <1>0, <3>2, PcWith, Zenon
    <3> QED BY <2>1, <2>3, <3>0, <3>1 DEF PcType
  <2> QED BY <2>2, <2>3
<1> QED
  BY <1>1, <1>2, <1>3, <1>4, <1>5, <1>6, <1>7, <1>8, <1>9, <1>10, <1>11, <1>12, <1>13

\* The file is not changed, the processes and the signals only while the file is read.
LEMMA Fixed ==
  ASSUME pc \in PcType, [Next]_vars
  PROVE  /\ dvc' = dvc
         /\ pc.at # "read" => SimProc' = SimProc /\ pc'.at # "read"
         /\ ~Reading => var' = var /\ ~Reading'
         /\ pc.at \notin Kinds => dev' = dev /\ ret' = ret
<1> USE DEF config
<1>1. CASE ReadLine
  BY <1>1, Moves DEF ReadLine, Reading, Kinds
<1>2. CASE FileLine
  BY <1>2, Moves DEF FileLine, Reading, Kinds
<1>3. CASE ProcDone
  BY <1>3, Moves DEF ProcDone, Reading, Kinds
<1>4. CASE AllocBuf
  BY <1>4, Moves DEF AllocBuf, Reading, Kinds
<1>a. ASSUME NEW k \in Kinds PROVE After(k) \notin {"read", "file"} /\ k \notin {"read", "file"}
  BY DEF After, Kinds
<1>5. CASE \E k \in Kinds : NoSignals(k)
  BY <1>5, <1>a, Moves DEF NoSignals, Reading
<1>6. CASE \E k \in Kinds : InitClass(k)
  <2>1. PICK k \in Kinds : InitClass(k)
    BY <1>6
  <2>2. dvc' = dvc /\ SimProc' = SimProc /\ var' = var
    BY <2>1 DEF InitClass
  <2>3. pc.at = k /\ pc'.at = After(k)
    BY <2>1, Moves
  <2> QED BY <1>a, <2>2, <2>3 DEF Reading
<1>7. CASE RxFrame \/ RxStore
  BY <1>7 DEF RxFrame, RxStore, Reading
<1>8. CASE getSignal_NextDT
  BY <1>8, Moves DEF getSignal_NextDT, Reading, Kinds
<1>9. CASE ReadWord("readAI", "AI") \/ ReadWord("readDI", "DI")
  BY <1>9, Moves DEF ReadWord, Reading, Kinds
<1>10. CASE EndRead("readAI", "AI", "readDI") \/ EndRead("readDI", "DI", "inputs")
  BY <1>10, Moves DEF EndRead, Reading, Kinds
<1>11. CASE SendInputs
  BY <1>11, Moves DEF SendInputs, Reading, Kinds
<1>12. CASE RecvOutputs
  BY <1>12, Moves DEF RecvOutputs, Reading, Kinds
<1>13. CASE SenddataToPID
  BY <1>13, Moves DEF SenddataToPID, Reading, Kinds
<1>14. CASE EndStep
  BY <1>14, Moves DEF EndStep, Reading, Kinds
<1>15. CASE UNCHANGED vars
  BY <1>15 DEF vars, Reading
<1> QED
  BY <1>1, <1>2, <1>3, <1>4, <1>5, <1>6, <1>7, <1>8, <1>9, <1>10, <1>11, <1>12, <1>13, <1>14,
     <1>15, Actions

\* While the cards are not configured no frame is received, and the file is read line by line.
LEMMA Setup ==
  ASSUME pc \in PcType, RxOK, [Next]_vars, ~Simulating
  PROVE  \/ pc.at = "read" /\ ReadLine
         \/ pc.at = "file" /\ (FileLine \/ ProcDone \/ AllocBuf)
         \/ \E k \in Kinds : pc.at = k /\ (NoSignals(k) \/ InitClass(k))
         \/ UNCHANGED vars
<1>1. ~RxFrame
  BY DEF RxFrame
<1>2. ~RxStore
  BY DEF RxStore, RxOK
<1>3. ASSUME NEW at, NEW k, NEW next \in {"readDI", "inputs"}, at \in {"readAI", "readDI"}
      PROVE ~ReadWord(at, k) /\ ~EndRead(at, k, next)
  BY <1>3, Moves DEF Simulating
<1>4. ~getSignal_NextDT /\ ~SendInputs /\ ~RecvOutputs /\ ~SenddataToPID /\ ~EndStep
  BY Moves DEF Simulating
<1> QED BY <1>1, <1>2, <1>3, <1>4, Actions, Moves

\* The frame that is whole is no older than any word, and not newer than the frame received.
LEMMA WholeFacts ==
  ASSUME RxOK, DevOK
  PROVE  /\ Whole \in 0 .. rx.frame
         /\ \A cell \in InputCells : Whole <= in[cell[1]][cell[2]]
<1> DEFINE frames == {in[cell[1]][cell[2]] : cell \in InputCells} \cup {rx.frame}
<1>1. \A cell \in InputCells : in[cell[1]][cell[2]] \in 0 .. MaxFrames
  BY DEF RxOK, InputCells
<1>2. frames \in SUBSET Nat /\ frames # {} /\ rx.frame \in frames /\ rx.frame \in Nat
  BY <1>1, BoxDataAssumption DEF RxOK
<1>3. \A cell \in InputCells : in[cell[1]][cell[2]] \in frames
  OBVIOUS
<1> HIDE DEF frames
<1>4. \E x \in frames : \A y \in frames : x <= y
  BY <1>2, LeastOf
<1>5. Min(frames) \in frames /\ \A y \in frames : Min(frames) <= y
  BY <1>4 DEF Min
<1>6. Whole = Min(frames)
  BY DEF Whole, frames
<1>7. Whole \in Nat /\ Whole <= rx.frame /\ \A y \in frames : Whole <= y
  BY <1>2, <1>5, <1>6
<1>8. Whole \in 0 .. rx.frame
  BY <1>2, <1>7
<1>9. \A cell \in InputCells : Whole <= in[cell[1]][cell[2]]
  BY <1>3, <1>7, Zenon
<1> QED BY <1>8, <1>9

\* The counters stay in their bounds.
LEMMA PcStep ==
  ASSUME dvc \in Files, PcOK, CountsOK, CountsOK', DevOK, RxOK, [Next]_vars
  PROVE  PcOK'
<1>0. pc \in PcType /\ pc.ITime \in 1 .. Steps /\ pc.since \in 0 .. MaxFrames /\ pc.i \in Nat
      /\ pc.n \in Nat
  BY DEF PcOK, PcType
<1>s. /\ SimProc \in Seq(Proc) /\ Len(SimProc) \in Nat /\ DOMAIN SimProc = 1 .. Len(SimProc)
      /\ Steps \in Nat \ {0} /\ Len(dvc) \in Nat
  BY BoxDataAssumption, FileFacts DEF CountsOK, CountsOf
<1>f. dvc' = dvc /\ (pc.at # "read" => SimProc' = SimProc)
  BY <1>0, Fixed
<1>1. CASE ReadLine
  <2>1. Len(SimProc') \in Nat
    BY DEF CountsOK, CountsOf
  <2>2. pc.i \in 1 .. Len(dvc) + 1 /\ pc.n = 1 /\ pc.nIn = 0 /\ pc.nOut = 0
    BY <1>0, <1>1, Moves DEF PcOK, Reading
  <2>3. /\ pc' \in PcType /\ pc'.n = 1 /\ pc'.nIn = 0 /\ pc'.nOut = 0
        /\ pc'.ITime = pc.ITime /\ pc'.since = pc.since
        /\ IF pc.i <= Len(dvc) THEN pc'.at = "read" /\ pc'.i = pc.i + 1
           ELSE pc'.at = "file" /\ pc'.i = 1
    BY <1>0, <1>1, <2>2, Moves
  <2>4. pc'.i \in 1 .. Len(dvc) + 1
    BY <1>s, <2>2, <2>3
  <2> QED BY <1>0, <1>f, <2>1, <2>3, <2>4 DEF PcOK, Reading
<1>2. CASE FileLine
  <2>1. pc.n <= Len(SimProc) /\ pc.i <= Len(dvc) /\ SimProc' = SimProc
    BY <1>2 DEF FileLine
  <2>2. pc.i \in 1 .. Len(dvc) + 1 /\ pc.n \in 1 .. Len(SimProc) + 1
    BY <1>0, <1>2, Moves DEF PcOK, Reading
  <2>3. pc' \in PcType /\ pc'.at = "file" /\ pc'.n = pc.n /\ pc'.i = pc.i + 1
        /\ pc'.ITime = pc.ITime /\ pc'.since = pc.since
    BY <1>0, <1>2, Moves
  <2> QED BY <1>0, <1>s, <1>f, <2>1, <2>2, <2>3 DEF PcOK, Reading
<1>3. CASE ProcDone
  <2>1. pc.n <= Len(SimProc) /\ SimProc' = SimProc
    BY <1>3 DEF ProcDone, config
  <2>2. pc'.i = 1 /\ pc.n \in 1 .. Len(SimProc) + 1
    BY <1>0, <1>3, Moves DEF PcOK, Reading
  <2>3. pc' \in PcType /\ pc'.at = "file" /\ pc'.n = pc.n + 1
        /\ pc'.ITime = pc.ITime /\ pc'.since = pc.since
    BY <1>0, <1>3, Moves
  <2> QED BY <1>0, <1>s, <1>f, <2>1, <2>2, <2>3 DEF PcOK, Reading
<1>4. CASE AllocBuf
  BY <1>0, <1>s, <1>f, <1>4, Moves DEF PcOK, Reading
<1>5. CASE \E k \in Kinds : NoSignals(k) \/ InitClass(k)
  <2>1. PICK k \in Kinds : NoSignals(k) \/ InitClass(k)
    BY <1>5
  <2>2. After(k) \in {"AO", "DI", "DO", "step"}
    BY DEF After, Kinds
  <2> QED BY <1>0, <1>s, <1>f, <2>1, <2>2, Moves DEF PcOK, Reading
<1>6. CASE RxFrame \/ RxStore
  BY <1>0, <1>f, <1>6, Moves DEF PcOK, Reading, RxFrame, RxStore, config
<1>7. CASE getSignal_NextDT
  <2>1. Whole \in Nat /\ Whole \in 0 .. MaxFrames
    BY WholeFacts, BoxDataAssumption DEF RxOK
  <2> QED BY <1>0, <1>7, <2>1, Moves DEF PcOK, Reading
<1>8. CASE ReadWord("readAI", "AI") \/ ReadWord("readDI", "DI")
  BY <1>0, <1>8, Moves DEF PcOK, Reading
<1>9. CASE EndRead("readAI", "AI", "readDI") \/ EndRead("readDI", "DI", "inputs")
  BY <1>0, <1>9, Moves DEF PcOK, Reading
<1>10. CASE SendInputs
  <2>1. SimProc' = SimProc /\ (SimProc # <<>> => 1 \in DOMAIN SimProc)
    BY <1>s, <1>10 DEF SendInputs, config
  <2>2. pc.i = 1
    BY <1>0, <1>10, Moves DEF PcOK
  <2> QED BY <1>0, <1>10, <2>1, <2>2, Moves DEF PcOK, Reading
<1>11. CASE RecvOutputs
  <2>1. pc.i \in DOMAIN SimProc /\ SimProc' = SimProc
    BY <1>0, <1>11, Moves DEF PcOK, RecvOutputs, config
  <2> QED BY <1>0, <1>s, <1>11, <2>1, Moves DEF PcOK, Reading
<1>12. CASE SenddataToPID
  BY <1>0, <1>12, Moves DEF PcOK, Reading
<1>13. CASE EndStep
  BY <1>0, <1>s, <1>13, Moves DEF PcOK, Reading
<1>14. CASE UNCHANGED vars
  BY <1>14 DEF vars, PcOK, PcType, Reading
<1> QED
  BY <1>1, <1>2, <1>3, <1>4, <1>5, <1>6, <1>7, <1>8, <1>9, <1>10, <1>11, <1>12, <1>13, <1>14,
     Actions

-----------------------------------------------------------------------------
(* The processes. *)

LEMMA TurnFacts ==
  ASSUME CountsOK
  PROVE  /\ \A n \in DOMAIN SimProc : Turn(SimProc[n].Id) = n
         /\ \A j \in Read : /\ Turn(dvc[j].proc) \in DOMAIN SimProc
                            /\ SimProc[Turn(dvc[j].proc)].Id = dvc[j].proc
<1>1. ASSUME NEW n \in DOMAIN SimProc PROVE Turn(SimProc[n].Id) = n
  <2>1. /\ Turn(SimProc[n].Id) \in DOMAIN SimProc
        /\ SimProc[Turn(SimProc[n].Id)].Id = SimProc[n].Id
    BY Zenon DEF Turn
  <2> QED BY <2>1 DEF CountsOK, CountsOf
<1>2. ASSUME NEW j \in Read
      PROVE  Turn(dvc[j].proc) \in DOMAIN SimProc /\ SimProc[Turn(dvc[j].proc)].Id = dvc[j].proc
  <2>1. PICK n \in DOMAIN SimProc : SimProc[n].Id = dvc[j].proc
    BY DEF CountsOK, CountsOf
  <2>2. Turn(SimProc[n].Id) = n
    BY <1>1
  <2> QED BY <2>1, <2>2
<1> QED BY <1>1, <1>2

\* One variable more.
LEMMA OneMoreFacts ==
  ASSUME NEW p \in Proc, NEW l
  PROVE  /\ OneMore(p, l) \in Proc
         /\ OneMore(p, l).Id = p.Id
         /\ OneMore(p, l).nIn = IF IsInput(l.kind) THEN p.nIn + 1 ELSE p.nIn
         /\ OneMore(p, l).nOut = IF IsInput(l.kind) THEN p.nOut ELSE p.nOut + 1
BY DEF OneMore, Proc

LEMMA CountsStay ==
  ASSUME dvc' = dvc, CountsOf(SimProc', Read')
  PROVE  CountsOK'
<1>1. \A p, kinds : Of(Read', p, kinds) = Of(Read, p, kinds)'
  BY DEF Of
<1> QED BY <1>1, Zenon DEF CountsOK, CountsOf, Of

\* ReadLine counts the line it reads.
LEMMA CountsStep ==
  ASSUME dvc \in Files, PcOK, CountsOK, [Next]_vars
  PROVE  CountsOK'
<1>0. /\ pc \in PcType /\ SimProc \in Seq(Proc) /\ Len(SimProc) \in Nat
      /\ DOMAIN SimProc = 1 .. Len(SimProc) /\ Len(dvc) \in Nat /\ DOMAIN dvc = 1 .. Len(dvc)
      /\ pc.i \in Nat
  BY FileFacts DEF PcOK, PcType, CountsOK, CountsOf
<1>f. dvc' = dvc
  BY <1>0, Fixed
<1>c. CountsOf(SimProc, Read)
  BY DEF CountsOK
<1> SUFFICES CountsOf(SimProc', Read')
  BY <1>f, CountsStay
<1>1. CASE pc.at = "read" /\ ReadLine /\ pc.i <= Len(dvc)
  <2> DEFINE l == dvc[pc.i]
             S == Read \cup {pc.i}
  <2>1. Read' = S /\ Read \in SUBSET DOMAIN dvc /\ pc.i \in DOMAIN dvc /\ pc.i \notin Read
    <3>1. pc'.at = "read" /\ pc'.i = pc.i + 1 /\ pc.i > 0
      BY <1>0, <1>1, Moves DEF PcOK, Reading
    <3> QED BY <1>0, <1>1, <1>f, <3>1 DEF Read
  <2>2. SimProc' = Counted(l)
    BY <1>1 DEF ReadLine
  <2>3. \A p : /\ Cardinality(Of(S, p, InKinds)) =
                    IF l.proc = p /\ IsInput(l.kind) THEN Cardinality(Of(Read, p, InKinds)) + 1
                    ELSE Cardinality(Of(Read, p, InKinds))
               /\ Cardinality(Of(S, p, OutKinds)) =
                    IF l.proc = p /\ ~IsInput(l.kind) THEN Cardinality(Of(Read, p, OutKinds)) + 1
                    ELSE Cardinality(Of(Read, p, OutKinds))
    <3>1. l.kind \in InKinds <=> IsInput(l.kind)
      BY DEF IsInput, InKinds
    <3>2. l.kind \in OutKinds <=> ~IsInput(l.kind)
      BY <2>1, LineFacts DEF IsInput, OutKinds, Kinds
    <3>3. \A p, kinds :
            Cardinality(Of(S, p, kinds)) =
              IF l.proc = p /\ l.kind \in kinds THEN Cardinality(Of(Read, p, kinds)) + 1
              ELSE Cardinality(Of(Read, p, kinds))
      BY <2>1, OfMore
    <3> HIDE DEF l, S
    <3> QED BY <3>1, <3>2, <3>3
  <2>4. \A n \in DOMAIN SimProc :
          /\ SimProc[n] \in Proc
          /\ SimProc[n].nIn = Cardinality(Of(Read, SimProc[n].Id, InKinds))
          /\ SimProc[n].nOut = Cardinality(Of(Read, SimProc[n].Id, OutKinds))
    <3>1. \A n \in DOMAIN SimProc : SimProc[n] \in Proc
      BY <1>0
    <3> QED BY <1>c, <3>1, Zenon DEF CountsOf
  <2>5. CASE \E n \in DOMAIN SimProc : SimProc[n].Id = l.proc
    <3>1. /\ DOMAIN SimProc' = DOMAIN SimProc
          /\ \A n \in DOMAIN SimProc :
               SimProc'[n] = IF SimProc[n].Id = l.proc THEN OneMore(SimProc[n], l) ELSE SimProc[n]
      BY <2>2, <2>5 DEF Counted
    <3>2. \A n \in DOMAIN SimProc :
            /\ SimProc'[n] \in Proc /\ SimProc'[n].Id = SimProc[n].Id
            /\ SimProc'[n].nIn = Cardinality(Of(S, SimProc[n].Id, InKinds))
            /\ SimProc'[n].nOut = Cardinality(Of(S, SimProc[n].Id, OutKinds))
      <4> HIDE DEF S, l
      <4> SUFFICES ASSUME NEW n \in DOMAIN SimProc
                   PROVE  /\ SimProc'[n] \in Proc /\ SimProc'[n].Id = SimProc[n].Id
                          /\ SimProc'[n].nIn = Cardinality(Of(S, SimProc[n].Id, InKinds))
                          /\ SimProc'[n].nOut = Cardinality(Of(S, SimProc[n].Id, OutKinds))
        OBVIOUS
      <4>1. CASE SimProc[n].Id = l.proc
        <5>1. SimProc'[n] = OneMore(SimProc[n], l)
          BY <3>1, <4>1
        <5>2. /\ SimProc'[n] \in Proc /\ SimProc'[n].Id = SimProc[n].Id
              /\ SimProc'[n].nIn = IF IsInput(l.kind) THEN SimProc[n].nIn + 1 ELSE SimProc[n].nIn
              /\ SimProc'[n].nOut = IF IsInput(l.kind) THEN SimProc[n].nOut ELSE SimProc[n].nOut + 1
          <6>1. SimProc[n] \in Proc
            BY <2>4
          <6>2. SimProc'[n] \in Proc
            BY <5>1, <6>1, OneMoreFacts
          <6>5. SimProc'[n].Id = SimProc[n].Id
            BY <5>1, <6>1, OneMoreFacts
          <6>3. SimProc'[n].nIn = IF IsInput(l.kind) THEN SimProc[n].nIn + 1 ELSE SimProc[n].nIn
            BY <5>1, <6>1, OneMoreFacts
          <6>4. SimProc'[n].nOut = IF IsInput(l.kind) THEN SimProc[n].nOut ELSE SimProc[n].nOut + 1
            BY <5>1, <6>1, OneMoreFacts
          <6> QED BY <6>2, <6>3, <6>4, <6>5
        <5> QED BY <2>3, <2>4, <4>1, <5>2
      <4>2. CASE SimProc[n].Id # l.proc
        <5>1. SimProc'[n] = SimProc[n]
          BY <3>1, <4>2
        <5> QED BY <2>3, <2>4, <4>2, <5>1
      <4> QED BY <4>1, <4>2
    <3>3. SimProc' \in Seq(Proc)
      <4>1. SimProc' = [n \in 1 .. Len(SimProc) |-> SimProc'[n]]
        BY <1>0, <2>2, <2>5 DEF Counted
      <4>2. SimProc' \in [1 .. Len(SimProc) -> Proc]
        BY <1>0, <3>2, <4>1
      <4> QED BY <1>0, <4>2, SeqDef
    <3>c. /\ \A m, n \in DOMAIN SimProc : SimProc[m].Id = SimProc[n].Id => m = n
          /\ \A j \in Read : \E n \in DOMAIN SimProc : SimProc[n].Id = dvc[j].proc
      BY <1>c DEF CountsOf
    <3>d. DOMAIN SimProc' = DOMAIN SimProc /\ \A n \in DOMAIN SimProc : SimProc'[n].Id = SimProc[n].Id
      BY <3>1, <3>2
    <3>4. \A m, n \in DOMAIN SimProc' : SimProc'[m].Id = SimProc'[n].Id => m = n
      BY <3>c, <3>d
    <3>5. \A j \in S : \E n \in DOMAIN SimProc' : SimProc'[n].Id = dvc[j].proc
      <4> SUFFICES ASSUME NEW j \in S PROVE \E n \in DOMAIN SimProc : SimProc[n].Id = dvc[j].proc
        BY <3>d
      <4> QED BY <2>5, <3>c
    <3> HIDE DEF S
    <3> QED BY <2>1, <3>1, <3>2, <3>3, <3>4, <3>5 DEF CountsOf
  <2>6. CASE ~ \E n \in DOMAIN SimProc : SimProc[n].Id = l.proc
    <3> DEFINE new == OneMore([Id |-> l.proc, nIn |-> 0, nOut |-> 0], l)
               last == Len(SimProc) + 1
    <3>1. SimProc' = Append(SimProc, new)
      BY <2>2, <2>6 DEF Counted
    <3>2. /\ new \in Proc /\ new.Id = l.proc
          /\ new.nIn = IF IsInput(l.kind) THEN 1 ELSE 0
          /\ new.nOut = IF IsInput(l.kind) THEN 0 ELSE 1
      <4> DEFINE none == [Id |-> l.proc, nIn |-> 0, nOut |-> 0]
      <4>1. none \in Proc /\ none.Id = l.proc /\ none.nIn = 0 /\ none.nOut = 0
        BY <2>1, LineFacts DEF Proc
      <4> HIDE DEF none, l
      <4>2. /\ OneMore(none, l) \in Proc /\ OneMore(none, l).Id = l.proc
            /\ OneMore(none, l).nIn = IF IsInput(l.kind) THEN 0 + 1 ELSE 0
            /\ OneMore(none, l).nOut = IF IsInput(l.kind) THEN 0 ELSE 0 + 1
        BY <4>1, OneMoreFacts
      <4> QED BY <4>2 DEF none
    <3>3. Of(Read, l.proc, InKinds) = {} /\ Of(Read, l.proc, OutKinds) = {}
      BY <1>c, <2>6 DEF Of, CountsOf
    <3>4. /\ new.nIn = Cardinality(Of(S, l.proc, InKinds))
          /\ new.nOut = Cardinality(Of(S, l.proc, OutKinds))
      <4>1. Cardinality({}) = 0
        BY FS_EmptySet
      <4> HIDE DEF new, l, S
      <4>2. /\ Cardinality(Of(S, l.proc, InKinds)) = IF IsInput(l.kind) THEN 0 + 1 ELSE 0
            /\ Cardinality(Of(S, l.proc, OutKinds)) = IF ~IsInput(l.kind) THEN 0 + 1 ELSE 0
        BY <2>3, <3>3, <4>1
      <4>3. new.nIn = Cardinality(Of(S, l.proc, InKinds))
        BY <3>2, <4>2
      <4>4. new.nOut = Cardinality(Of(S, l.proc, OutKinds))
        BY <3>2, <4>2
      <4> QED BY <4>3, <4>4
    <3> HIDE DEF new
    <3>5. /\ SimProc' \in Seq(Proc) /\ DOMAIN SimProc' = 1 .. last
          /\ \A n \in DOMAIN SimProc : SimProc'[n] = SimProc[n]
          /\ SimProc'[last] = new
      BY <1>0, <3>1, <3>2
    <3>6. \A n \in DOMAIN SimProc' : n = last \/ n \in DOMAIN SimProc
      BY <1>0, <3>5
    <3>7. \A n \in DOMAIN SimProc : SimProc[n].Id # l.proc
      BY <2>6
    <3> HIDE DEF S, l, last
    <3>8. \A m, n \in DOMAIN SimProc' : SimProc'[m].Id = SimProc'[n].Id => m = n
      BY <1>c, <3>2, <3>5, <3>6, <3>7 DEF CountsOf
    <3>9. last \in DOMAIN SimProc' /\ DOMAIN SimProc \subseteq DOMAIN SimProc'
      BY <1>0, <3>5 DEF last
    <3>10. \A j \in S : \E n \in DOMAIN SimProc' : SimProc'[n].Id = dvc[j].proc
      <4> SUFFICES ASSUME NEW j \in S PROVE \E n \in DOMAIN SimProc' : SimProc'[n].Id = dvc[j].proc
        OBVIOUS
      <4>1. CASE j = pc.i
        BY <3>2, <3>5, <3>9, <4>1 DEF l
      <4>2. CASE j \in Read
        BY <1>c, <3>5, <3>9, <4>2 DEF CountsOf
      <4> QED BY <4>1, <4>2 DEF S
    <3>11. \A n \in DOMAIN SimProc :
             /\ SimProc[n].nIn = Cardinality(Of(S, SimProc[n].Id, InKinds))
             /\ SimProc[n].nOut = Cardinality(Of(S, SimProc[n].Id, OutKinds))
      BY <2>3, <2>4, <3>7
    <3>12. \A n \in DOMAIN SimProc' :
             /\ SimProc'[n].nIn = Cardinality(Of(S, SimProc'[n].Id, InKinds))
             /\ SimProc'[n].nOut = Cardinality(Of(S, SimProc'[n].Id, OutKinds))
      BY <3>2, <3>4, <3>5, <3>6, <3>11
    <3> QED BY <2>1, <3>5, <3>8, <3>10, <3>12 DEF CountsOf
  <2> QED BY <2>5, <2>6
<1>2. CASE pc.at = "read" /\ ReadLine /\ ~ (pc.i <= Len(dvc))
  <2>1. pc'.at = "file" /\ SimProc' = SimProc
    BY <1>0, <1>2, Moves DEF ReadLine
  <2>2. Read' = Read
    BY <1>0, <1>2, <1>f, <2>1 DEF Read
  <2> QED BY <1>c, <2>1, <2>2
<1>3. CASE pc.at # "read"
  <2>1. SimProc' = SimProc /\ pc'.at # "read"
    BY <1>0, <1>3, Fixed
  <2>2. Read' = Read
    BY <1>3, <1>f, <2>1 DEF Read
  <2> QED BY <1>c, <2>1, <2>2
<1>4. CASE pc' = pc /\ SimProc' = SimProc
  <2>2. Read' = Read
    BY <1>4, <1>f DEF Read
  <2> QED BY <1>c, <1>4, <2>2
<1>5. pc.at = "read" => ReadLine \/ (pc' = pc /\ SimProc' = SimProc)
  <2> SUFFICES ASSUME pc.at = "read" PROVE ReadLine \/ (pc' = pc /\ SimProc' = SimProc)
    OBVIOUS
  <2>1. \A k \in Kinds : k # "read"
    BY DEF Kinds
  <2>2. RxFrame \/ RxStore \/ UNCHANGED vars => pc' = pc /\ SimProc' = SimProc
    BY DEF RxFrame, RxStore, config, vars
  <2> QED BY <1>0, <2>1, <2>2, Actions, Moves
<1> QED BY <1>1, <1>2, <1>3, <1>4, <1>5

LEMMA TurnSame ==
  ASSUME SimProc' = SimProc, NEW p
  PROVE  Turn(p)' = Turn(p)
BY DEF Turn

\* FileLine counts the lines of its process.
LEMMA FilingStep ==
  ASSUME dvc \in Files, PcOK, CountsOK, FilingOK, RxOK, [Next]_vars
  PROVE  FilingOK'
<1>0. /\ pc \in PcType /\ Len(dvc) \in Nat /\ DOMAIN dvc = 1 .. Len(dvc) /\ pc.i \in Nat
      /\ pc.nIn \in Nat /\ pc.nOut \in Nat
  BY FileFacts DEF PcOK, PcType
<1>f. dvc' = dvc
  BY <1>0, Fixed
<1>o. \A S, p, kinds : Of(S, p, kinds)' = Of(S', p, kinds)
  BY <1>f DEF Of
<1> DEFINE Counts(S) == /\ pc'.nIn = Cardinality(Of(S, SimProc'[pc'.n].Id, InKinds))
                        /\ pc'.nOut = Cardinality(Of(S, SimProc'[pc'.n].Id, OutKinds))
<1> SUFFICES ASSUME pc'.at = "file", pc'.n \in DOMAIN SimProc' PROVE Counts(1 .. pc'.i - 1)
  <2>1. Counts(1 .. pc'.i - 1) =>
          /\ pc'.nIn = Cardinality(Of(1 .. pc.i - 1, SimProc[pc.n].Id, InKinds))'
          /\ pc'.nOut = Cardinality(Of(1 .. pc.i - 1, SimProc[pc.n].Id, OutKinds))'
    BY <1>f DEF Of
  <2> HIDE DEF Counts
  <2> QED BY <2>1 DEF FilingOK
<1>e. pc'.i = 1 /\ pc'.nIn = 0 /\ pc'.nOut = 0 => Counts(1 .. pc'.i - 1)
  <2>1. \A p, kinds : Cardinality(Of({}, p, kinds)) = 0
    <3>1. \A p, kinds : Of({}, p, kinds) = {}
      BY DEF Of
    <3> QED BY <3>1, FS_EmptySet
  <2>2. 1 .. 1 - 1 = {}
    OBVIOUS
  <2> QED BY <2>1, <2>2
<1>1. CASE ReadLine
  <2>1. pc'.i = 1 /\ pc'.nIn = 0 /\ pc'.nOut = 0
    BY <1>0, <1>1, Moves DEF PcOK
  <2> QED BY <1>e, <2>1
<1>2. CASE FileLine
  <2> DEFINE S == 1 .. pc.i - 1
             l == dvc[pc.i]
             p == SimProc[pc.n].Id
  <2>1. /\ pc.at = "file" /\ pc'.n = pc.n /\ pc'.i = pc.i + 1
        /\ pc'.nIn = IF OfProc(l) /\ IsInput(l.kind) THEN pc.nIn + 1 ELSE pc.nIn
        /\ pc'.nOut = IF OfProc(l) /\ ~IsInput(l.kind) THEN pc.nOut + 1 ELSE pc.nOut
    BY <1>0, <1>2, Moves
  <2>2. pc.i \in DOMAIN dvc /\ S \in SUBSET DOMAIN dvc /\ pc.i \notin S
        /\ S \cup {pc.i} = 1 .. pc'.i - 1
    <3>1. pc.i > 0
      BY <2>1 DEF PcOK, Reading
    <3>2. pc.i <= Len(dvc)
      BY <1>2 DEF FileLine
    <3> QED BY <1>0, <2>1, <3>1, <3>2
  <2>3. SimProc' = SimProc /\ p = SimProc'[pc'.n].Id
    BY <1>2, <2>1 DEF FileLine
  <2>4. /\ pc.nIn = Cardinality(Of(S, p, InKinds)) /\ pc.nOut = Cardinality(Of(S, p, OutKinds))
        /\ OfProc(l) <=> l.proc = p
    BY <2>1, <2>3 DEF FilingOK, OfProc
  <2> HIDE DEF S, p
  <2>5. \A kinds : Cardinality(Of(S \cup {pc.i}, p, kinds)) =
              IF l.proc = p /\ l.kind \in kinds THEN Cardinality(Of(S, p, kinds)) + 1
              ELSE Cardinality(Of(S, p, kinds))
    BY <2>2, OfMore
  <2>6. (l.kind \in InKinds <=> IsInput(l.kind)) /\ (l.kind \in OutKinds <=> ~IsInput(l.kind))
    BY <2>2, LineFacts DEF IsInput, OutKinds, InKinds, Kinds
  <2> HIDE DEF l
  <2>7. pc'.nIn = Cardinality(Of(S \cup {pc.i}, p, InKinds))
    BY <2>1, <2>4, <2>5, <2>6
  <2>8. pc'.nOut = Cardinality(Of(S \cup {pc.i}, p, OutKinds))
    BY <2>1, <2>4, <2>5, <2>6
  <2> QED BY <2>2, <2>3, <2>7, <2>8
<1>3. CASE ProcDone
  BY <1>0, <1>3, <1>e, Moves
<1>4. CASE UNCHANGED <<pc, SimProc>>
  BY <1>4, <1>f DEF FilingOK, Of
<1>5. ReadLine \/ FileLine \/ ProcDone \/ UNCHANGED <<pc, SimProc>>
  <2>1. CASE ~Simulating
    <3>1. AllocBuf => pc'.at = "AI"
      BY <1>0, Moves
    <3>2. \A k \in Kinds : NoSignals(k) \/ InitClass(k) => pc'.at # "file"
      <4>1. \A k \in Kinds : After(k) # "file"
        BY DEF After, Kinds
      <4> QED BY <1>0, <4>1, Moves
    <3>3. UNCHANGED vars => UNCHANGED <<pc, SimProc>>
      BY DEF vars
    <3> QED BY <1>0, <2>1, <3>1, <3>2, <3>3, Setup
  <2>2. CASE Simulating
    <3>1. ~Reading
      BY <2>2 DEF Simulating, Reading
    <3>2. ~Reading'
      BY <1>0, <3>1, Fixed
    <3> QED BY <3>2 DEF Reading
  <2> QED BY <2>1, <2>2
<1> QED BY <1>1, <1>2, <1>3, <1>4, <1>5

-----------------------------------------------------------------------------
(* Which lines are filed. *)

\* FileLine files the line it reads if it is one of the process; nothing else is filed.
LEMMA FiledStep ==
  ASSUME dvc \in Files, PcOK, CountsOK, RxOK, [Next]_vars
  PROVE  /\ \/ Filed' = Filed /\ var' = var
            \/ /\ FileLine /\ pc.at = "file"
               /\ pc.i \in DOMAIN dvc \ Filed /\ Filed' = Filed \cup {pc.i}
               /\ OfProc(dvc[pc.i])
         /\ ~Reading => Filed = DOMAIN dvc
<1>0. /\ pc \in PcType /\ Len(dvc) \in Nat /\ DOMAIN dvc = 1 .. Len(dvc) /\ pc.i \in Nat
      /\ SimProc \in Seq(Proc) /\ Len(SimProc) \in Nat /\ DOMAIN SimProc = 1 .. Len(SimProc)
      /\ pc.n \in Nat
  BY FileFacts DEF PcOK, PcType, CountsOK, CountsOf
<1>f. dvc' = dvc /\ (pc.at # "read" => SimProc' = SimProc)
  BY <1>0, Fixed
<1>t. pc.at # "read" => \A j \in DOMAIN dvc : /\ Turn(dvc[j].proc) \in 1 .. Len(SimProc)
                                              /\ SimProc[Turn(dvc[j].proc)].Id = dvc[j].proc
  BY <1>0, TurnFacts DEF Read
<1>s. pc.at # "read" => \A j \in DOMAIN dvc : Turn(dvc[j].proc)' = Turn(dvc[j].proc)
  BY <1>f, TurnSame
<1>n. ~Reading => Filed = DOMAIN dvc
  BY DEF Reading, Filed
<1> SUFFICES \/ Filed' = Filed /\ var' = var
             \/ /\ FileLine /\ pc.at = "file"
                /\ pc.i \in DOMAIN dvc \ Filed /\ Filed' = Filed \cup {pc.i}
                /\ OfProc(dvc[pc.i])
  BY <1>n
<1>1. CASE ReadLine
  <2>1. pc.at = "read" /\ var' = var
    BY <1>1 DEF ReadLine
  <2>2. Filed = {}
    BY <2>1 DEF Filed
  <2>3. CASE pc.i <= Len(dvc)
    <3>1. pc'.at = "read"
      BY <1>0, <1>1, <2>3, Moves
    <3>2. Filed' = {}
      BY <1>f, <3>1 DEF Filed
    <3> QED BY <2>1, <2>2, <3>2
  <2>4. CASE ~ (pc.i <= Len(dvc))
    <3>1. pc'.at = "file" /\ pc'.i = 1 /\ pc'.n = 1
      BY <1>0, <1>1, <2>1, <2>4, Moves DEF PcOK
    <3>2. SimProc' = SimProc
      BY <1>1, <2>4 DEF ReadLine
    <3>3. \A j \in DOMAIN dvc : Turn(dvc[j].proc) \in 1 .. Len(SimProc)
      <4>1. Read = DOMAIN dvc
        BY <1>0, <2>4 DEF Read
      <4> QED BY <1>0, <4>1, TurnFacts
    <3>4. \A j \in DOMAIN dvc : Turn(dvc[j].proc)' \in 1 .. Len(SimProc)
      <4>1. \A j \in DOMAIN dvc : Turn(dvc[j].proc)' = Turn(dvc[j].proc)
        BY <1>f, <3>2, TurnSame
      <4> QED BY <3>3, <4>1
    <3>5. \A j \in Filed' : FALSE
      <4> SUFFICES ASSUME NEW j \in Filed' PROVE FALSE
        OBVIOUS
      <4>1. j \in DOMAIN dvc /\ (Turn(dvc[j].proc)' < pc'.n \/ j < pc'.i)
        BY <1>f, <3>1 DEF Filed
      <4> QED BY <1>0, <3>1, <3>4, <4>1
    <3> QED BY <2>1, <2>2, <3>5
  <2> QED BY <2>3, <2>4
<1>2. CASE FileLine
  <2>1. /\ pc.at = "file" /\ pc'.at = "file" /\ pc'.n = pc.n /\ pc'.i = pc.i + 1
        /\ pc.i \in DOMAIN dvc
    <3>1. pc.i > 0
      BY <1>0, <1>2, Moves DEF PcOK, Reading
    <3>2. pc.i <= Len(dvc)
      BY <1>2 DEF FileLine
    <3> QED BY <1>0, <1>2, <3>1, <3>2, Moves
  <2>2. pc.n \in DOMAIN SimProc
    <3>1. pc.n > 0
      BY <2>1 DEF PcOK, Reading
    <3>2. pc.n <= Len(SimProc)
      BY <1>2 DEF FileLine
    <3> QED BY <1>0, <3>1, <3>2
  <2>3. OfProc(dvc[pc.i]) <=> Turn(dvc[pc.i].proc) = pc.n
    <3>1. Turn(SimProc[pc.n].Id) = pc.n
      BY <2>2, TurnFacts
    <3> QED BY <1>t, <2>1, <3>1 DEF OfProc
  <2>4. pc.i \notin Filed \/ ~OfProc(dvc[pc.i])
    <3> SUFFICES ASSUME pc.i \in Filed PROVE ~OfProc(dvc[pc.i])
      OBVIOUS
    <3>1. Turn(dvc[pc.i].proc) < pc.n \/ pc.i < pc.i
      BY <2>1 DEF Filed
    <3>2. Turn(dvc[pc.i].proc) \in Nat
      BY <1>t, <2>1
    <3> QED BY <1>0, <2>3, <3>1, <3>2
  <2>5. \A j \in DOMAIN dvc :
          j \in Filed' <=> j \in Filed \/ (j = pc.i /\ Turn(dvc[j].proc) = pc.n)
    <3> SUFFICES ASSUME NEW j \in DOMAIN dvc
                 PROVE j \in Filed' <=> j \in Filed \/ (j = pc.i /\ Turn(dvc[j].proc) = pc.n)
      OBVIOUS
    <3>1. j \in Filed' <=> \/ Turn(dvc[j].proc) < pc.n
                           \/ Turn(dvc[j].proc) = pc.n /\ j < pc.i + 1
      <4>1. Turn(dvc[j].proc)' = Turn(dvc[j].proc)
        BY <1>s, <2>1
      <4> QED BY <1>f, <2>1, <4>1 DEF Filed
    <3>2. j \in Filed <=> \/ Turn(dvc[j].proc) < pc.n
                          \/ Turn(dvc[j].proc) = pc.n /\ j < pc.i
      BY <2>1 DEF Filed
    <3>3. j < pc.i + 1 <=> j < pc.i \/ j = pc.i
      BY <1>0
    <3> QED BY <3>1, <3>2, <3>3
  <2>6. Filed' \subseteq DOMAIN dvc /\ Filed \subseteq DOMAIN dvc
    BY <1>f DEF Filed
  <2>7. CASE OfProc(dvc[pc.i])
    <3>1. Filed' = Filed \cup {pc.i}
      BY <2>1, <2>3, <2>5, <2>6, <2>7
    <3> QED BY <1>2, <2>1, <2>4, <2>7, <3>1
  <2>8. CASE ~OfProc(dvc[pc.i])
    <3>1. Filed' = Filed
      BY <2>3, <2>5, <2>6, <2>8
    <3>2. var' = var
      BY <1>2, <2>8 DEF FileLine
    <3> QED BY <3>1, <3>2
  <2> QED BY <2>7, <2>8
<1>3. CASE ProcDone
  <2>1. /\ pc.at = "file" /\ pc'.at = "file" /\ pc'.n = pc.n + 1 /\ pc'.i = 1
        /\ pc.i > Len(dvc) /\ var' = var
    <3>1. pc.i > Len(dvc) /\ var' = var
      BY <1>3 DEF ProcDone, config
    <3> QED BY <1>0, <1>3, <3>1, Moves
  <2>2. \A j \in DOMAIN dvc : j \in Filed' <=> j \in Filed
    <3> SUFFICES ASSUME NEW j \in DOMAIN dvc PROVE j \in Filed' <=> j \in Filed
      OBVIOUS
    <3>1. j \in Filed' <=> \/ Turn(dvc[j].proc) < pc.n + 1
                           \/ Turn(dvc[j].proc) = pc.n + 1 /\ j < 1
      <4>1. Turn(dvc[j].proc)' = Turn(dvc[j].proc)
        BY <1>s, <2>1
      <4> QED BY <1>f, <2>1, <4>1 DEF Filed
    <3>2. j \in Filed <=> \/ Turn(dvc[j].proc) < pc.n
                          \/ Turn(dvc[j].proc) = pc.n /\ j < pc.i
      BY <2>1 DEF Filed
    <3>3. j < pc.i /\ ~ (j < 1) /\ Turn(dvc[j].proc) \in Nat
      BY <1>0, <1>t, <2>1
    <3>4. Turn(dvc[j].proc) < pc.n + 1 <=> Turn(dvc[j].proc) < pc.n \/ Turn(dvc[j].proc) = pc.n
      BY <1>0, <3>3
    <3> QED BY <3>1, <3>2, <3>3, <3>4
  <2>3. Filed' \subseteq DOMAIN dvc /\ Filed \subseteq DOMAIN dvc
    BY <1>f DEF Filed
  <2> QED BY <2>1, <2>2, <2>3
<1>4. CASE AllocBuf
  <2>1. /\ pc.at = "file" /\ pc'.at = "AI" /\ pc.n > Len(SimProc) /\ var' = var
    <3>1. pc.n > Len(SimProc) /\ var' = var
      BY <1>4 DEF AllocBuf, config
    <3> QED BY <1>0, <1>4, <3>1, Moves
  <2>2. \A j \in DOMAIN dvc : Turn(dvc[j].proc) < pc.n
    BY <1>0, <1>t, <2>1
  <2>3. Filed = DOMAIN dvc
    BY <2>1, <2>2 DEF Filed
  <2>4. Filed' = DOMAIN dvc
    BY <1>f, <2>1 DEF Filed
  <2> QED BY <2>1, <2>3, <2>4
<1>5. CASE ~Reading
  <2>1. ~Reading' /\ var' = var
    BY <1>0, <1>5, Fixed
  <2>2. Filed' = DOMAIN dvc
    BY <1>f, <2>1 DEF Filed, Reading
  <2> QED BY <1>n, <1>5, <2>1, <2>2
<1>6. CASE UNCHANGED vars
  BY <1>6, TurnSame DEF vars, Filed
<1>7. Reading => ReadLine \/ FileLine \/ ProcDone \/ AllocBuf \/ UNCHANGED vars
  <2>1. \A k \in Kinds : k \notin {"read", "file"}
    BY DEF Kinds
  <2>2. Reading => ~Simulating /\ \A k \in Kinds : pc.at # k
    BY <2>1 DEF Reading, Simulating
  <2> QED BY <1>0, <2>2, Setup
<1> QED BY <1>1, <1>2, <1>3, <1>4, <1>5, <1>6, <1>7

-----------------------------------------------------------------------------
(* The signals. *)

LEMMA SimVarFacts ==
  ASSUME dvc \in Files, NEW j \in DOMAIN dvc
  PROVE  /\ SimVarOf(j) \in Simu /\ SimVarOf(j).prono = dvc[j].proc
         /\ SimVarOf(j).idxIO = Place(j) /\ SimVarOf(j).kamplify = dvc[j].gain
<1>1. dvc[j].proc \in Nat /\ dvc[j].gain \in Int /\ Place(j) \in Nat
  BY LineFacts, PlaceFacts, FileFacts
<1> QED BY <1>1 DEF SimVarOf, SimVar, Simu

\* A signal is as it should be if more lines are filed.
LEMMA SignalKept ==
  ASSUME NEW s, NEW k, NEW filed, NEW more, filed \subseteq more, SignalOK(s, k, filed)
  PROVE  SignalOK(s, k, more)
BY DEF SignalOK

\* One variable more in a signal.
WithVar(s, i) == [s EXCEPT !.VSimIO = Append(@, SimVarOf(i))]

LEMMA SignalJoined ==
  ASSUME dvc \in Files, NEW filed \in SUBSET DOMAIN dvc, NEW i \in DOMAIN dvc,
         NEW s \in Signal, SignalOK(s, dvc[i].kind, filed), s.idno = dvc[i].idno,
         \A j \in filed : Turn(dvc[j].proc) <= Turn(dvc[i].proc),
         NEW t, t = WithVar(s, i)
  PROVE  /\ t \in Signal /\ t.idno = s.idno
         /\ SignalOK(t, dvc[i].kind, filed \cup {i})
         /\ \A v \in DOMAIN s.VSimIO : v \in DOMAIN t.VSimIO /\ t.VSimIO[v] = s.VSimIO[v]
         /\ \E v \in DOMAIN t.VSimIO : t.VSimIO[v] = SimVarOf(i)
<1> DEFINE w == s.VSimIO
           last == Len(w) + 1
<1>1. w \in Seq(Simu) /\ SimVarOf(i) \in Simu
  BY SimVarFacts DEF Signal
<1>2. t = [idno |-> s.idno, slot |-> s.slot, chan |-> s.chan, iospec |-> s.iospec,
           VSimIO |-> Append(w, SimVarOf(i))]
  BY DEF Signal, WithVar
<1>3. /\ t.idno = s.idno /\ t.slot = s.slot /\ t.chan = s.chan /\ t.iospec = s.iospec
      /\ t.VSimIO = Append(w, SimVarOf(i))
  BY <1>2
<1>4. Append(w, SimVarOf(i)) \in Seq(Simu)
  BY <1>1
<1>5. t \in Signal
  BY <1>2, <1>4 DEF Signal
<1>6. /\ DOMAIN t.VSimIO = 1 .. last /\ DOMAIN w = 1 .. Len(w) /\ Len(w) \in Nat
      /\ \A v \in DOMAIN w : t.VSimIO[v] = w[v]
      /\ t.VSimIO[last] = SimVarOf(i)
  BY <1>1, <1>3
<1>7. 1 \in DOMAIN w /\ 1 \in DOMAIN t.VSimIO /\ t.VSimIO[1] = w[1] /\ last \in DOMAIN t.VSimIO
  BY <1>6 DEF SignalOK
<1>8. PICK j \in filed \cap Shares(dvc[i].kind, s.idno) :
         /\ s.slot = dvc[j].slot /\ s.chan = dvc[j].chan /\ s.iospec = dvc[j].iospec
         /\ w[1] = SimVarOf(j)
  BY DEF SignalOK
<1>9. i \in Shares(dvc[i].kind, s.idno)
  BY DEF Shares
<1>10. Turn(w[1].prono) <= Turn(SimVarOf(i).prono)
  BY <1>8, SimVarFacts
<1> HIDE DEF last, w
<1>11. ASSUME NEW v \in DOMAIN t.VSimIO
       PROVE  /\ \E g \in (filed \cup {i}) \cap Shares(dvc[i].kind, t.idno) : t.VSimIO[v] = SimVarOf(g)
              /\ Turn(t.VSimIO[1].prono) <= Turn(t.VSimIO[v].prono)
  <2>1. CASE v = last
    BY <1>3, <1>6, <1>7, <1>9, <1>10, <2>1
  <2>2. CASE v # last
    <3>1. v \in DOMAIN w
      BY <1>6, <1>11, <2>2 DEF last
    <3>2. /\ \E g \in filed \cap Shares(dvc[i].kind, s.idno) : w[v] = SimVarOf(g)
          /\ Turn(w[1].prono) <= Turn(w[v].prono)
      BY <3>1 DEF SignalOK, w
    <3> QED BY <1>3, <1>6, <1>7, <3>1, <3>2
  <2> QED BY <2>1, <2>2
<1>12. SignalOK(t, dvc[i].kind, filed \cup {i})
  <2>1. \E g \in (filed \cup {i}) \cap Shares(dvc[i].kind, t.idno) :
          /\ t.slot = dvc[g].slot /\ t.chan = dvc[g].chan /\ t.iospec = dvc[g].iospec
          /\ t.VSimIO[1] = SimVarOf(g)
    BY <1>3, <1>7, <1>8
  <2> QED BY <1>7, <1>11, <2>1 DEF SignalOK
<1>13. /\ \A v \in DOMAIN w : v \in DOMAIN t.VSimIO /\ t.VSimIO[v] = w[v]
       /\ \E v \in DOMAIN t.VSimIO : t.VSimIO[v] = SimVarOf(i)
  <2>1. \A v \in DOMAIN w : v \in DOMAIN t.VSimIO
    BY <1>6 DEF last
  <2> QED BY <1>6, <1>7, <2>1
<1> QED BY <1>3, <1>5, <1>12, <1>13 DEF w

\* The signal of a line none of the signals shares its number with.
LEMMA SignalNew ==
  ASSUME dvc \in Files, NEW i \in DOMAIN dvc, NEW filed, i \in filed,
         SimProc \in Seq(Proc), Turn(dvc[i].proc) \in DOMAIN SimProc
  PROVE  /\ NewSignal(dvc[i], Place(i)) \in Signal
         /\ NewSignal(dvc[i], Place(i)).idno = dvc[i].idno
         /\ SignalOK(NewSignal(dvc[i], Place(i)), dvc[i].kind, filed)
         /\ \E v \in DOMAIN NewSignal(dvc[i], Place(i)).VSimIO :
              NewSignal(dvc[i], Place(i)).VSimIO[v] = SimVarOf(i)
<1> DEFINE s == NewSignal(dvc[i], Place(i))
<1>1. /\ s.idno = dvc[i].idno /\ s.slot = dvc[i].slot /\ s.chan = dvc[i].chan
      /\ s.iospec = dvc[i].iospec /\ s.VSimIO = <<SimVarOf(i)>>
  BY DEF NewSignal, SimVarOf
<1>2. SimVarOf(i) \in Simu
  BY SimVarFacts
<1>3. s \in Signal
  <2>1. <<SimVarOf(i)>> \in Seq(Simu)
    BY <1>2
  <2>2. s = [idno |-> dvc[i].idno, slot |-> dvc[i].slot, chan |-> dvc[i].chan,
             iospec |-> dvc[i].iospec, VSimIO |-> <<SimVarOf(i)>>]
    BY DEF NewSignal, SimVarOf
  <2> HIDE DEF s
  <2> QED BY <2>1, <2>2, LineFacts DEF Signal
<1> HIDE DEF s
<1>4. DOMAIN s.VSimIO = {1} /\ s.VSimIO[1] = SimVarOf(i)
  BY <1>1
<1>5. i \in filed \cap Shares(dvc[i].kind, s.idno)
  BY <1>1 DEF Shares
<1>6. Turn(SimVarOf(i).prono) <= Turn(SimVarOf(i).prono)
  BY SimVarFacts
<1>7. SignalOK(s, dvc[i].kind, filed)
  BY <1>1, <1>4, <1>5, <1>6 DEF SignalOK
<1> QED BY <1>1, <1>3, <1>4, <1>7 DEF s

\* The lines of a kind that are filed, counted.
LEMMA FiledCount ==
  ASSUME dvc \in Files, NEW more \in SUBSET DOMAIN dvc, NEW filed \in SUBSET more, NEW k
  PROVE  /\ Cardinality(filed \cap OfKind(k)) \in Nat
         /\ Cardinality(more \cap OfKind(k)) \in Nat
         /\ Cardinality(filed \cap OfKind(k)) <= Cardinality(more \cap OfKind(k))
         /\ \A i \in (more \cap OfKind(k)) \ filed :
              Cardinality(filed \cap OfKind(k)) < Cardinality(more \cap OfKind(k))
<1> DEFINE F == filed \cap OfKind(k)
           M == more \cap OfKind(k)
<1>1. IsFiniteSet(M) /\ F \in SUBSET M
  BY FileFacts, FS_Subset
<1>2. \A i \in M \ filed : F # M
  OBVIOUS
<1> HIDE DEF F, M
<1>3. IsFiniteSet(F) /\ Cardinality(F) <= Cardinality(M) /\ (Cardinality(F) = Cardinality(M) => F = M)
  BY <1>1, FS_Subset
<1>4. Cardinality(F) \in Nat /\ Cardinality(M) \in Nat
  BY <1>1, <1>3, FS_CardinalityType
<1>5. F # M => Cardinality(F) < Cardinality(M)
  BY <1>3, <1>4
<1> QED BY <1>2, <1>3, <1>4, <1>5 DEF F, M

\* A list stays as it should be if more lines are filed elsewhere, or one more that shares the
\* number of an AI.
LEMMA ListKept ==
  ASSUME dvc \in Files, NEW more \in SUBSET DOMAIN dvc, NEW filed \in SUBSET more, NEW k,
         NEW list, ListOK(list, k, filed), ListHas(list, k, filed),
         \A i \in (more \cap OfKind(k)) \ filed :
           k = "AI" /\ \E x \in DOMAIN list : list[x].idno = dvc[i].idno
  PROVE  ListOK(list, k, more) /\ ListHas(list, k, more)
<1>1. /\ list \in Seq(Signal)
      /\ \A x, y \in DOMAIN list : list[x].idno = list[y].idno => x = y
      /\ \A x \in DOMAIN list : SignalOK(list[x], k, filed)
      /\ Len(list) <= Cardinality(filed \cap OfKind(k))
  BY DEF ListOK
<1>2. \A x \in DOMAIN list : SignalOK(list[x], k, more)
  BY <1>1, SignalKept
<1>3. Len(list) <= Cardinality(more \cap OfKind(k))
  <2>1. Len(list) \in Nat
    BY <1>1
  <2>2. /\ Cardinality(filed \cap OfKind(k)) \in Nat /\ Cardinality(more \cap OfKind(k)) \in Nat
        /\ Cardinality(filed \cap OfKind(k)) <= Cardinality(more \cap OfKind(k))
    BY FiledCount
  <2> QED BY <1>1, <2>1, <2>2
<1>4. ListOK(list, k, more)
  BY <1>1, <1>2, <1>3 DEF ListOK
<1>5. ASSUME NEW j \in more \cap OfKind(k)
      PROVE  \E x \in DOMAIN list :
               /\ list[x].idno = dvc[j].idno
               /\ k # "AI" => \E v \in DOMAIN list[x].VSimIO : list[x].VSimIO[v] = SimVarOf(j)
  <2>1. CASE j \in filed
    BY <2>1 DEF ListHas
  <2>2. CASE j \notin filed
    BY <2>2
  <2> QED BY <2>1, <2>2
<1> QED BY <1>4, <1>5 DEF ListHas

\* A line nothing shares its number with becomes a signal.
LEMMA ListAppended ==
  ASSUME dvc \in Files, NEW filed \in SUBSET DOMAIN dvc, NEW i \in DOMAIN dvc \ filed,
         SimProc \in Seq(Proc), Turn(dvc[i].proc) \in DOMAIN SimProc,
         NEW list, ListOK(list, dvc[i].kind, filed), ListHas(list, dvc[i].kind, filed),
         Same(list, dvc[i]) = {},
         NEW longer, longer = Append(list, NewSignal(dvc[i], Place(i)))
  PROVE  /\ ListOK(longer, dvc[i].kind, filed \cup {i})
         /\ ListHas(longer, dvc[i].kind, filed \cup {i})
<1> DEFINE k == dvc[i].kind
           more == filed \cup {i}
           s == NewSignal(dvc[i], Place(i))
           last == Len(list) + 1
<1>1. /\ list \in Seq(Signal)
      /\ \A x, y \in DOMAIN list : list[x].idno = list[y].idno => x = y
      /\ \A x \in DOMAIN list : SignalOK(list[x], k, filed)
      /\ Len(list) <= Cardinality(filed \cap OfKind(k))
  BY DEF ListOK
<1>2. /\ s \in Signal /\ s.idno = dvc[i].idno /\ SignalOK(s, k, more)
      /\ \E v \in DOMAIN s.VSimIO : s.VSimIO[v] = SimVarOf(i)
  <2>1. i \in more
    OBVIOUS
  <2> HIDE DEF more
  <2> QED BY <2>1, SignalNew
<1>3. \A x \in DOMAIN list : list[x].idno # dvc[i].idno
  BY DEF Same
<1>4. i \in more \cap OfKind(k) /\ i \notin filed /\ more \in SUBSET DOMAIN dvc /\ filed \in SUBSET more
  BY DEF OfKind
<1> HIDE DEF s, more, k
<1>5. /\ longer \in Seq(Signal) /\ DOMAIN longer = 1 .. last /\ Len(longer) = last
      /\ DOMAIN list = 1 .. Len(list) /\ Len(list) \in Nat
      /\ \A x \in DOMAIN list : longer[x] = list[x]
      /\ longer[last] = s
  BY <1>1, <1>2 DEF s
<1>6. \A x \in DOMAIN longer : x \in DOMAIN list \/ x = last
  BY <1>5
<1>7. last \in DOMAIN longer /\ \A x \in DOMAIN list : x \in DOMAIN longer
  BY <1>5
<1>8. last <= Cardinality(more \cap OfKind(k))
  <2>1. /\ Cardinality(filed \cap OfKind(k)) \in Nat /\ Cardinality(more \cap OfKind(k)) \in Nat
        /\ Cardinality(filed \cap OfKind(k)) < Cardinality(more \cap OfKind(k))
    BY <1>4, FiledCount
  <2> QED BY <1>1, <1>5, <2>1
<1> HIDE DEF last
<1>9. \A x, y \in DOMAIN longer : longer[x].idno = longer[y].idno => x = y
  BY <1>1, <1>2, <1>3, <1>5, <1>6
<1>10. \A x \in DOMAIN longer : SignalOK(longer[x], k, more)
  <2>1. \A x \in DOMAIN list : SignalOK(list[x], k, more)
    BY <1>1, <1>4, SignalKept
  <2> QED BY <1>2, <1>5, <1>6, <2>1
<1>11. ListOK(longer, k, more)
  BY <1>5, <1>8, <1>9, <1>10 DEF ListOK
<1>12. ASSUME NEW j \in more \cap OfKind(k)
       PROVE  \E x \in DOMAIN longer :
                /\ longer[x].idno = dvc[j].idno
                /\ k # "AI" => \E v \in DOMAIN longer[x].VSimIO : longer[x].VSimIO[v] = SimVarOf(j)
  <2>1. CASE j = i
    BY <1>2, <1>5, <1>7, <2>1
  <2>2. CASE j \in filed
    <3>1. PICK x \in DOMAIN list :
             /\ list[x].idno = dvc[j].idno
             /\ k # "AI" => \E v \in DOMAIN list[x].VSimIO : list[x].VSimIO[v] = SimVarOf(j)
      BY <2>2 DEF ListHas, k
    <3> QED BY <1>5, <1>7, <3>1
  <2> QED BY <2>1, <2>2 DEF more
<1>13. ListHas(longer, k, more)
  BY <1>12 DEF ListHas
<1> QED BY <1>11, <1>13 DEF k, more

\* A line that shares the number of an AO, DI or DO is one more variable of it.
Joined(list, i) ==
  [x \in DOMAIN list |-> IF x \in Same(list, dvc[i]) THEN WithVar(list[x], i) ELSE list[x]]

LEMMA ListJoined ==
  ASSUME dvc \in Files, NEW filed \in SUBSET DOMAIN dvc, NEW i \in DOMAIN dvc \ filed,
         \A j \in filed : Turn(dvc[j].proc) <= Turn(dvc[i].proc),
         NEW list, ListOK(list, dvc[i].kind, filed), ListHas(list, dvc[i].kind, filed),
         Same(list, dvc[i]) # {},
         NEW joined,
         joined = Joined(list, i)
  PROVE  /\ ListOK(joined, dvc[i].kind, filed \cup {i})
         /\ ListHas(joined, dvc[i].kind, filed \cup {i})
<1> DEFINE k == dvc[i].kind
           more == filed \cup {i}
           same == Same(list, dvc[i])
<1>1. /\ list \in Seq(Signal) /\ Len(list) \in Nat /\ DOMAIN list = 1 .. Len(list)
      /\ \A x, y \in DOMAIN list : list[x].idno = list[y].idno => x = y
      /\ \A x \in DOMAIN list : list[x] \in Signal /\ SignalOK(list[x], k, filed)
      /\ Len(list) <= Cardinality(filed \cap OfKind(k))
  BY DEF ListOK
<1>2. \A x \in DOMAIN list : x \in same <=> list[x].idno = dvc[i].idno
  BY DEF Same
<1>3. more \in SUBSET DOMAIN dvc /\ filed \in SUBSET more
  OBVIOUS
<1>4. ASSUME NEW x \in DOMAIN list, x \in same
      PROVE  /\ joined[x] \in Signal /\ joined[x].idno = list[x].idno
             /\ SignalOK(joined[x], k, more)
             /\ \A v \in DOMAIN list[x].VSimIO : v \in DOMAIN joined[x].VSimIO
                                                 /\ joined[x].VSimIO[v] = list[x].VSimIO[v]
             /\ \E v \in DOMAIN joined[x].VSimIO : joined[x].VSimIO[v] = SimVarOf(i)
  <2>1. joined[x] = WithVar(list[x], i)
    BY <1>4 DEF Joined
  <2>2. list[x] \in Signal /\ SignalOK(list[x], dvc[i].kind, filed) /\ list[x].idno = dvc[i].idno
    BY <1>1, <1>2, <1>4
  <2> HIDE DEF more, k, same
  <2>3. /\ joined[x] \in Signal /\ joined[x].idno = list[x].idno
        /\ SignalOK(joined[x], dvc[i].kind, filed \cup {i})
        /\ \A v \in DOMAIN list[x].VSimIO : v \in DOMAIN joined[x].VSimIO
                                            /\ joined[x].VSimIO[v] = list[x].VSimIO[v]
        /\ \E v \in DOMAIN joined[x].VSimIO : joined[x].VSimIO[v] = SimVarOf(i)
    <3>1. list[x] \in Signal
      BY <2>2
    <3>2. SignalOK(list[x], dvc[i].kind, filed) /\ list[x].idno = dvc[i].idno
      BY <2>2
    <3>3. i \in DOMAIN dvc
      OBVIOUS
    <3>4. \A j \in filed : Turn(dvc[j].proc) <= Turn(dvc[i].proc)
      OBVIOUS
    <3> QED BY <2>1, <3>1, <3>2, <3>3, <3>4, SignalJoined
  <2> QED BY <2>3 DEF k, more
<1>5. ASSUME NEW x \in DOMAIN list, x \notin same
      PROVE  joined[x] = list[x] /\ SignalOK(joined[x], k, more)
  <2>1. joined[x] = list[x]
    BY <1>5 DEF Joined
  <2> QED BY <1>1, <1>3, <2>1, SignalKept
<1>6. DOMAIN joined = DOMAIN list /\ joined = [x \in DOMAIN list |-> joined[x]]
  BY DEF Joined
<1> HIDE DEF k, more, same
<1>7. \A x \in DOMAIN list : /\ joined[x] \in Signal /\ joined[x].idno = list[x].idno
                             /\ SignalOK(joined[x], k, more)
                             /\ \A v \in DOMAIN list[x].VSimIO :
                                  v \in DOMAIN joined[x].VSimIO
                                  /\ joined[x].VSimIO[v] = list[x].VSimIO[v]
  BY <1>1, <1>4, <1>5
<1>8. joined \in Seq(Signal) /\ Len(joined) = Len(list)
  <2>1. joined \in [1 .. Len(list) -> Signal]
    BY <1>1, <1>6, <1>7
  <2>2. joined \in Seq(Signal)
    <3>1. Len(list) \in Nat
      BY <1>1
    <3> QED BY <2>1, <3>1, SeqDef
  <2> QED BY <1>1, <1>6, <2>2
<1>9. \A x, y \in DOMAIN joined : joined[x].idno = joined[y].idno => x = y
  BY <1>1, <1>6, <1>7
<1>10. Len(joined) <= Cardinality(more \cap OfKind(k))
  <2>1. /\ Cardinality(filed \cap OfKind(k)) \in Nat /\ Cardinality(more \cap OfKind(k)) \in Nat
        /\ Cardinality(filed \cap OfKind(k)) <= Cardinality(more \cap OfKind(k))
    BY <1>3, FiledCount
  <2> QED BY <1>1, <1>8, <2>1
<1>11. ListOK(joined, k, more)
  BY <1>6, <1>7, <1>8, <1>9, <1>10 DEF ListOK
<1>12. ASSUME NEW j \in more \cap OfKind(k)
       PROVE  \E x \in DOMAIN joined :
                /\ joined[x].idno = dvc[j].idno
                /\ k # "AI" => \E v \in DOMAIN joined[x].VSimIO : joined[x].VSimIO[v] = SimVarOf(j)
  <2>1. CASE j = i
    <3>1. PICK x \in DOMAIN list : x \in same
      BY DEF same, Same
    <3>2. joined[x].idno = dvc[j].idno
      <4>1. joined[x].idno = list[x].idno
        BY <1>7
      <4>2. list[x].idno = dvc[i].idno
        BY <1>2, <3>1
      <4> QED BY <2>1, <4>1, <4>2
    <3>3. \E v \in DOMAIN joined[x].VSimIO : joined[x].VSimIO[v] = SimVarOf(j)
      BY <1>4, <2>1, <3>1
    <3> QED BY <1>6, <3>2, <3>3
  <2>2. CASE j \in filed
    <3>1. PICK x \in DOMAIN list :
             /\ list[x].idno = dvc[j].idno
             /\ k # "AI" => \E v \in DOMAIN list[x].VSimIO : list[x].VSimIO[v] = SimVarOf(j)
      BY <2>2 DEF ListHas, k
    <3> QED BY <1>6, <1>7, <3>1
  <2> QED BY <2>1, <2>2 DEF more
<1>13. ListHas(joined, k, more)
  BY <1>12 DEF ListHas
<1> QED BY <1>11, <1>13 DEF k, more

\* What the lines are does not change.
LEMMA LinesStay ==
  ASSUME dvc' = dvc
  PROVE  /\ \A j : Place(j)' = Place(j) /\ SimVarOf(j)' = SimVarOf(j)
         /\ \A k, no : Shares(k, no)' = Shares(k, no)
         /\ \A k : OfKind(k)' = OfKind(k)
<1>1. \A j : Place(j)' = Place(j)
  BY DEF Place
<1>2. \A j : SimVarOf(j)' = SimVarOf(j)
  BY <1>1 DEF SimVarOf, SimVar
<1> QED BY <1>1, <1>2 DEF Shares, OfKind

LEMMA SignalsStay ==
  ASSUME dvc' = dvc, SimProc' = SimProc, DOMAIN var' = Kinds,
         \A k \in Kinds : ListOK(var'[k], k, Filed') /\ ListHas(var'[k], k, Filed')
  PROVE  SignalsOK'
<1>1. \A p : Turn(p)' = Turn(p)
  BY TurnSame
<1>2. \A s, k, filed : SignalOK(s, k, filed) => SignalOK(s, k, filed)'
  BY <1>1, LinesStay DEF SignalOK
<1>3. \A list, k, filed : ListOK(list, k, filed) => ListOK(list, k, filed)'
  BY <1>2, LinesStay DEF ListOK
<1>4. \A list, k, filed : ListHas(list, k, filed) => ListHas(list, k, filed)'
  BY LinesStay DEF ListHas
<1>5. \A k \in Kinds : ListOK(var[k], k, Filed)' /\ ListHas(var[k], k, Filed)'
  BY <1>3, <1>4
<1> QED BY <1>5 DEF SignalsOK

\* FileLine files one line more; before, no signal is there.
LEMMA SignalsStep ==
  ASSUME dvc \in Files, PcOK, CountsOK, FilingOK, SignalsOK, RxOK, [Next]_vars
  PROVE  SignalsOK'
<1>0. /\ pc \in PcType /\ DOMAIN var = Kinds
      /\ SimProc \in Seq(Proc) /\ Len(SimProc) \in Nat /\ DOMAIN SimProc = 1 .. Len(SimProc)
      /\ \A k \in Kinds : ListOK(var[k], k, Filed) /\ ListHas(var[k], k, Filed)
  BY DEF PcOK, CountsOK, CountsOf, SignalsOK
<1>f. dvc' = dvc /\ (pc.at # "read" => SimProc' = SimProc)
  BY <1>0, Fixed
<1>1. CASE Filed' = Filed /\ var' = var /\ pc.at # "read"
  <2>1. \A k \in Kinds : ListOK(var'[k], k, Filed') /\ ListHas(var'[k], k, Filed')
    BY <1>0, <1>1
  <2> QED BY <1>0, <1>1, <1>f, <2>1, SignalsStay
<1>2. CASE Filed' = Filed /\ var' = var /\ pc.at = "read"
  <2>1. Filed = {}
    BY <1>2 DEF Filed
  <2>2. \A k \in Kinds : var[k] = <<>>
    <3> SUFFICES ASSUME NEW k \in Kinds PROVE var[k] = <<>>
      OBVIOUS
    <3>1. var[k] \in Seq(Signal) /\ Len(var[k]) <= Cardinality(Filed \cap OfKind(k))
      BY <1>0 DEF ListOK
    <3>2. Filed \cap OfKind(k) = {} /\ Cardinality({}) = 0
      BY <2>1, FS_EmptySet
    <3>3. Len(var[k]) <= 0
      BY <3>1, <3>2
    <3> QED BY <3>1, <3>3
  <2>3. \A k \in Kinds : ListOK(<<>>, k, {})' /\ ListHas(<<>>, k, {})'
    <3> SUFFICES ASSUME NEW k \in Kinds PROVE ListOK(<<>>, k, {})' /\ ListHas(<<>>, k, {})'
      OBVIOUS
    <3>1. \A x \in DOMAIN <<>> : SignalOK(<<>>[x], k, {})'
      OBVIOUS
    <3>2. Len(<<>>) <= Cardinality({} \cap OfKind(k)')
      <4>1. {} \cap OfKind(k)' = {}
        OBVIOUS
      <4> QED BY <4>1, FS_EmptySet
    <3> QED BY <3>1, <3>2 DEF ListOK, ListHas
  <2>4. DOMAIN var' = Kinds /\ \A k \in Kinds : ListOK(var[k], k, Filed)' /\ ListHas(var[k], k, Filed)'
    BY <1>0, <1>2, <2>1, <2>2, <2>3
  <2> QED BY <2>4 DEF SignalsOK
<1>3. CASE /\ FileLine /\ pc.at = "file"
           /\ pc.i \in DOMAIN dvc \ Filed /\ Filed' = Filed \cup {pc.i}
           /\ OfProc(dvc[pc.i])
  <2> DEFINE i == pc.i
             l == dvc[pc.i]
  <2>1. pc.n \in DOMAIN SimProc /\ SimProc' = SimProc
    <3>1. pc.n \in Nat \ {0}
      BY <1>3 DEF PcOK, PcType, Reading
    <3>2. pc.n <= Len(SimProc) /\ SimProc' = SimProc
      BY <1>3 DEF FileLine
    <3> QED BY <1>0, <3>1, <3>2
  <2>2. Turn(l.proc) = pc.n
    BY <1>3, <2>1, TurnFacts DEF OfProc
  <2>3. \A j \in Filed : Turn(dvc[j].proc) <= Turn(l.proc)
    <3> SUFFICES ASSUME NEW j \in Filed PROVE Turn(dvc[j].proc) <= pc.n
      BY <2>2
    <3>1. j \in Read
      BY <1>3 DEF Read, Filed
    <3>2. Turn(dvc[j].proc) \in DOMAIN SimProc /\ pc.n \in Nat
      BY <2>1, <1>0, <3>1, TurnFacts
    <3>3. Turn(dvc[j].proc) < pc.n \/ Turn(dvc[j].proc) = pc.n
      BY <1>3 DEF Filed
    <3> QED BY <1>0, <3>2, <3>3
  <2>4. l.kind \in Kinds /\ i \in DOMAIN dvc \ Filed /\ Filed \in SUBSET DOMAIN dvc
    BY <1>3, LineFacts DEF Filed
  <2>5. var' = [var EXCEPT ![l.kind] = addavar(@, l, Place(i))]
    <3>1. Place(i) = Cardinality(Of(1 .. i - 1, SimProc[pc.n].Id, Side(l.kind)))
      BY <1>3, <2>4, PlaceIs DEF OfProc
    <3>2. /\ pc.nIn = Cardinality(Of(1 .. i - 1, SimProc[pc.n].Id, InKinds))
          /\ pc.nOut = Cardinality(Of(1 .. i - 1, SimProc[pc.n].Id, OutKinds))
      BY <1>3, <2>1 DEF FilingOK
    <3>3. CASE IsInput(l.kind)
      <4>1. Place(i) = pc.nIn
        BY <3>1, <3>2, <3>3 DEF Side
      <4>2. var' = [var EXCEPT ![l.kind] = addavar(@, l, pc.nIn)]
        BY <1>3, <3>3 DEF FileLine
      <4> QED BY <4>1, <4>2
    <3>4. CASE ~IsInput(l.kind)
      <4>1. Place(i) = pc.nOut
        BY <3>1, <3>2, <3>4 DEF Side
      <4>2. var' = [var EXCEPT ![l.kind] = addavar(@, l, pc.nOut)]
        BY <1>3, <3>4 DEF FileLine
      <4> QED BY <4>1, <4>2
    <3> QED BY <3>3, <3>4
  <2> DEFINE list == var[l.kind]
             next == addavar(var[l.kind], l, Place(i))
             more == Filed \cup {i}
  <2>6. ListOK(list, l.kind, Filed) /\ ListHas(list, l.kind, Filed)
    BY <1>0, <2>4
  <2>7. ListOK(next, l.kind, more) /\ ListHas(next, l.kind, more)
    <3>1. CASE Same(list, l) = {}
      <4>1. next = Append(list, NewSignal(l, Place(i)))
        BY <3>1 DEF addavar
      <4>2. Turn(l.proc) \in DOMAIN SimProc
        BY <2>1, <2>2
      <4> HIDE DEF list, next
      <4> QED BY <1>0, <2>4, <2>6, <3>1, <4>1, <4>2, ListAppended
    <3>2. CASE Same(list, l) # {} /\ l.kind = "AI"
      <4>1. next = list
        BY <3>2 DEF addavar
      <4>2. \E x \in DOMAIN list : list[x].idno = l.idno
        BY <3>2 DEF Same
      <4>3. more \in SUBSET DOMAIN dvc /\ Filed \in SUBSET more
        BY <2>4
      <4>4. \A g \in (more \cap OfKind(l.kind)) \ Filed :
              l.kind = "AI" /\ \E x \in DOMAIN list : list[x].idno = dvc[g].idno
        BY <3>2, <4>2
      <4> HIDE DEF list, next, more, l
      <4> QED BY <2>6, <4>1, <4>3, <4>4, ListKept
    <3>3. CASE Same(list, l) # {} /\ l.kind # "AI"
      <4>1. next = Joined(list, i)
        BY <3>3 DEF addavar, Joined, WithVar, SimVarOf
      <4> HIDE DEF list, next
      <4> QED BY <2>3, <2>4, <2>6, <3>3, <4>1, ListJoined
    <3> QED BY <3>1, <3>2, <3>3
  <2>8. \A k \in Kinds : ListOK(var'[k], k, Filed') /\ ListHas(var'[k], k, Filed')
    <3> SUFFICES ASSUME NEW k \in Kinds PROVE ListOK(var'[k], k, more) /\ ListHas(var'[k], k, more)
      BY <1>3
    <3>1. CASE k = l.kind
      <4>1. var'[k] = next
        BY <1>0, <2>5, <3>1
      <4> QED BY <2>7, <3>1, <4>1
    <3>2. CASE k # l.kind
      <4>1. var'[k] = var[k]
        BY <1>0, <2>5, <3>2
      <4>2. ListOK(var[k], k, Filed) /\ ListHas(var[k], k, Filed)
        BY <1>0
      <4>3. more \in SUBSET DOMAIN dvc /\ Filed \in SUBSET more
        BY <2>4
      <4>4. (more \cap OfKind(k)) \ Filed = {}
        BY <3>2 DEF OfKind
      <4>5. \A g \in (more \cap OfKind(k)) \ Filed :
              k = "AI" /\ \E x \in DOMAIN var[k] : var[k][x].idno = dvc[g].idno
        BY <4>4
      <4> HIDE DEF more
      <4>6. ListOK(var[k], k, more) /\ ListHas(var[k], k, more)
        BY <4>2, <4>3, <4>5, ListKept
      <4> QED BY <4>1, <4>6
    <3> QED BY <3>1, <3>2
  <2> QED BY <1>0, <1>f, <2>1, <2>5, <2>8, SignalsStay
<1> QED BY <1>1, <1>2, <1>3, FiledStep

\* What SignalsOK says of a signal.
LEMMA SignalFacts ==
  ASSUME SignalsOK, NEW k \in Kinds
  PROVE  /\ var[k] \in Seq(Signal) /\ Len(var[k]) \in Nat /\ DOMAIN var[k] = 1 .. Len(var[k])
         /\ \A x \in DOMAIN var[k] :
              /\ var[k][x] \in Signal /\ SignalOK(var[k][x], k, Filed)
              /\ var[k][x].slot \in Slots /\ var[k][x].chan \in Chans
              /\ var[k][x].iospec \in 0 .. 2 /\ var[k][x].idno \in Nat
              /\ var[k][x].VSimIO \in Seq(Simu) /\ 1 \in DOMAIN var[k][x].VSimIO
              /\ \A v \in DOMAIN var[k][x].VSimIO : var[k][x].VSimIO[v] \in Simu
<1>1. var[k] \in Seq(Signal) /\ \A x \in DOMAIN var[k] : SignalOK(var[k][x], k, Filed)
  BY DEF SignalsOK, ListOK
<1>2. ASSUME NEW x \in DOMAIN var[k]
      PROVE  /\ var[k][x] \in Signal
             /\ var[k][x].slot \in Slots /\ var[k][x].chan \in Chans
             /\ var[k][x].iospec \in 0 .. 2 /\ var[k][x].idno \in Nat
             /\ var[k][x].VSimIO \in Seq(Simu) /\ 1 \in DOMAIN var[k][x].VSimIO
             /\ \A v \in DOMAIN var[k][x].VSimIO : var[k][x].VSimIO[v] \in Simu
  <2>1. var[k][x] \in Signal
    BY <1>1
  <2>2. /\ var[k][x].slot \in Slots /\ var[k][x].chan \in Chans
        /\ var[k][x].iospec \in 0 .. 2 /\ var[k][x].idno \in Nat
        /\ var[k][x].VSimIO \in Seq(Simu)
    BY <2>1 DEF Signal
  <2>3. 1 \in DOMAIN var[k][x].VSimIO
    BY <1>1 DEF SignalOK
  <2>4. \A v \in DOMAIN var[k][x].VSimIO : var[k][x].VSimIO[v] \in Simu
    BY <2>2
  <2> QED BY <2>1, <2>2, <2>3, <2>4
<1>3. Len(var[k]) \in Nat /\ DOMAIN var[k] = 1 .. Len(var[k])
  BY <1>1
<1> QED BY <1>1, <1>2, <1>3

-----------------------------------------------------------------------------
(* The cards. *)

LEMMA GroupLengthType ==
  ASSUME NEW k, Len(var[k]) \in Nat
  PROVE  GroupLength(k) \in Nat
BY DEF GroupLength

\* After the class it comes to, a class is no more pending.
LEMMA PendingAfter ==
  ASSUME NEW k \in Kinds, pc.at = k, pc'.at = After(k)
  PROVE  k \in Pending /\ Pending' = Pending \ {k}
<1>1. CASE k = "AI"
  BY <1>1 DEF Pending, After, Kinds
<1>2. CASE k = "AO"
  BY <1>2 DEF Pending, After
<1>3. CASE k = "DI"
  BY <1>3 DEF Pending, After
<1>4. CASE k = "DO"
  BY <1>4 DEF Pending, After
<1> QED BY <1>1, <1>2, <1>3, <1>4 DEF Kinds

\* What init of a class does.
Answered(k, answered, info, good) ==
  LET used  == {var[k][i].slot : i \in DOMAIN var[k]}
      wrong == \E s \in used : info[s] # k
      bad   == k = "AO" /\ ~good
  IN /\ \A s \in answered : info[s] = Card[s]
     /\ out' = [s \in Slots |-> IF s \in answered /\ Card[s] = "AO"
                                THEN [c \in Chans |-> AoRest] ELSE out[s]]
     /\ ret' = [ret EXCEPT ![k] = IF wrong THEN -2 ELSE IF bad THEN -3 ELSE 0]
     /\ dev' = [card_type |-> [s \in Slots |-> IF s \in answered THEN Card[s]
                                               ELSE dev.card_type[s]],
                card_mode |-> [s \in Slots |-> IF s \in used /\ ~wrong THEN 1
                                               ELSE dev.card_mode[s]],
                count |-> IF wrong \/ bad THEN dev.count
                          ELSE [dev.count EXCEPT ![k] = GroupLength(k)]]

LEMMA InitClassMoves ==
  ASSUME NEW k \in Kinds, InitClass(k)
  PROVE  /\ \E answered \in SUBSET Slots, info \in [Slots -> Kinds \cup {"NO"}], good \in BOOLEAN :
              Answered(k, answered, info, good)
         /\ var[k] # <<>>
         /\ UNCHANGED <<dvc, SimProc, var, in, rx, sample, volt, data, sent>>
<1>1. /\ var[k] # <<>>
      /\ UNCHANGED <<dvc, SimProc, var, in, rx, sample, volt, data, sent>>
  BY Zenon DEF InitClass
<1>2. \E answered \in SUBSET Slots, info \in [Slots -> Kinds \cup {"NO"}], good \in BOOLEAN :
        Answered(k, answered, info, good)
  BY Zenon DEF InitClass, Answered
<1> QED BY <1>1, <1>2

\* DevOK is about var, ret, dev and the classes pending only.
LEMMA DevStep ==
  ASSUME PcOK, SignalsOK, DevOK, [Next]_vars
  PROVE  DevOK'
<1>0. pc \in PcType /\ \A k \in Kinds : Len(var[k]) \in Nat
  BY SignalFacts DEF PcOK
<1>d. /\ dev = [card_type |-> dev.card_type, card_mode |-> dev.card_mode, count |-> dev.count]
      /\ dev.card_type \in [Slots -> Kinds \cup {"NO"}]
      /\ \A s \in Slots : dev.card_type[s] \in {"NO", Card[s]}
      /\ dev.card_mode \in [Slots -> {0, 1}]
      /\ dev.count \in [Kinds -> Nat]
      /\ ret \in [Kinds -> {0, -1, -2, -3}]
      /\ \A k \in Pending : ret[k] = -1
      /\ \A k \in Kinds : IF ret[k] # 0 THEN dev.count[k] = 0
                          ELSE /\ dev.count[k] = GroupLength(k)
                               /\ \A x \in DOMAIN var[k] : dev.card_mode[var[k][x].slot] = 1
  BY Zenon DEF DevOK
<1>1. CASE \E k \in Kinds : pc.at = k /\ InitClass(k)
  <2>1. PICK k \in Kinds : pc.at = k /\ InitClass(k)
    BY <1>1
  <2>2. PICK answered \in SUBSET Slots, info \in [Slots -> Kinds \cup {"NO"}], good \in BOOLEAN :
          Answered(k, answered, info, good)
    BY <2>1, InitClassMoves
  <2>3. var' = var /\ \A n \in Kinds : GroupLength(n)' = GroupLength(n)
    BY <2>1, InitClassMoves DEF GroupLength
  <2>4. k \in Pending /\ Pending' = Pending \ {k}
    BY <1>0, <2>1, Moves, PendingAfter
  <2>5. ret[k] = -1 /\ dev.count[k] = 0
    BY <1>d, <2>4
  <2> DEFINE used  == {var[k][i].slot : i \in DOMAIN var[k]}
             wrong == \E s \in used : info[s] # k
             bad   == k = "AO" /\ ~good
  <2>6. /\ ret' = [ret EXCEPT ![k] = IF wrong THEN -2 ELSE IF bad THEN -3 ELSE 0]
        /\ dev'.card_type = [s \in Slots |-> IF s \in answered THEN Card[s] ELSE dev.card_type[s]]
        /\ dev'.card_mode = [s \in Slots |-> IF s \in used /\ ~wrong THEN 1 ELSE dev.card_mode[s]]
        /\ dev'.count = IF wrong \/ bad THEN dev.count ELSE [dev.count EXCEPT ![k] = GroupLength(k)]
        /\ dev' = [card_type |-> dev'.card_type, card_mode |-> dev'.card_mode,
                   count |-> dev'.count]
    BY <2>2 DEF Answered
  <2>7. \A x \in DOMAIN var[k] : var[k][x].slot \in used /\ var[k][x].slot \in Slots
    <3>1. \A x \in DOMAIN var[k] : var[k][x].slot \in Slots
      BY SignalFacts
    <3> QED BY <3>1
  <2> HIDE DEF used, wrong, bad
  <2>8. /\ ret' \in [Kinds -> {0, -1, -2, -3}]
        /\ \A n \in Kinds : n # k => ret'[n] = ret[n]
        /\ ret'[k] = 0 <=> ~wrong /\ ~bad
    BY <1>d, <2>6
  <2>9. /\ dev'.card_type \in [Slots -> Kinds \cup {"NO"}]
        /\ \A s \in Slots : dev'.card_type[s] \in {"NO", Card[s]}
    BY <1>d, <2>6, BoxDataAssumption
  <2>10. dev'.card_mode \in [Slots -> {0, 1}]
    BY <1>d, <2>6
  <2>11. /\ dev'.count \in [Kinds -> Nat]
         /\ \A n \in Kinds : n # k => dev'.count[n] = dev.count[n]
         /\ dev'.count[k] = IF wrong \/ bad THEN 0 ELSE GroupLength(k)
    <3>1. GroupLength(k) \in Nat
      BY <1>0, GroupLengthType
    <3> QED BY <1>d, <2>5, <2>6, <3>1
  <2>12. \A n \in Pending' : ret'[n] = -1
    <3>1. Pending \subseteq Kinds
      BY DEF Pending, Kinds
    <3> QED BY <1>d, <2>4, <2>8, <3>1
  <2>13. ASSUME NEW n \in Kinds
         PROVE  IF ret'[n] # 0 THEN dev'.count[n] = 0
                ELSE /\ dev'.count[n] = GroupLength(n)
                     /\ \A x \in DOMAIN var[n] : dev'.card_mode[var[n][x].slot] = 1
    <3>1. CASE n = k
      <4>1. CASE ret'[k] = 0
        BY <2>6, <2>7, <2>8, <2>11, <3>1, <4>1
      <4>2. CASE ret'[k] # 0
        BY <2>8, <2>11, <3>1, <4>2
      <4> QED BY <3>1, <4>1, <4>2
    <3>2. CASE n # k
      <4>1. ret'[n] = ret[n] /\ dev'.count[n] = dev.count[n]
        BY <2>8, <2>11, <3>2
      <4>2. ASSUME ret[n] = 0, NEW x \in DOMAIN var[n] PROVE dev'.card_mode[var[n][x].slot] = 1
        <5>1. dev.card_mode[var[n][x].slot] = 1
          BY <1>d, <4>2
        <5>2. var[n][x].slot \in Slots
          BY SignalFacts
        <5> QED BY <2>6, <5>1, <5>2
      <4> QED BY <1>d, <4>1, <4>2
    <3> QED BY <3>1, <3>2
  <2>14. \A n \in Kinds : IF ret'[n] # 0 THEN dev'.count[n] = 0
                          ELSE /\ dev'.count[n] = GroupLength(n)'
                               /\ \A x \in DOMAIN var'[n] : dev'.card_mode[var'[n][x].slot] = 1
    BY <2>3, <2>13
  <2> QED BY <2>6, <2>8, <2>9, <2>10, <2>11, <2>12, <2>14, Zenon DEF DevOK
<1>2. CASE dev' = dev /\ ret' = ret /\ (var' = var \/ Reading) /\ Pending' \subseteq Pending
  <2>1. CASE Reading
    <3>1. Pending = Kinds
      BY <2>1 DEF Reading, Pending
    <3>2. \A k \in Kinds : ret'[k] = -1 /\ dev'.count[k] = 0
      BY <1>d, <1>2, <3>1
    <3>3. \A k \in Kinds : IF ret'[k] # 0 THEN dev'.count[k] = 0
                          ELSE /\ dev'.count[k] = GroupLength(k)'
                               /\ \A x \in DOMAIN var'[k] : dev'.card_mode[var'[k][x].slot] = 1
      BY <3>2
    <3> QED BY <1>d, <1>2, <3>1, <3>2, <3>3 DEF DevOK
  <2>2. CASE var' = var
    <3>1. \A k \in Kinds : GroupLength(k)' = GroupLength(k)
      BY <2>2 DEF GroupLength
    <3> QED BY <1>d, <1>2, <2>2, <3>1 DEF DevOK
  <2> QED BY <1>2, <2>1, <2>2
<1>3. \/ \E k \in Kinds : pc.at = k /\ InitClass(k)
      \/ dev' = dev /\ ret' = ret /\ (var' = var \/ Reading) /\ Pending' \subseteq Pending
  <2> SUFFICES ASSUME ~ \E k \in Kinds : pc.at = k /\ InitClass(k)
               PROVE  dev' = dev /\ ret' = ret /\ (var' = var \/ Reading)
                      /\ Pending' \subseteq Pending
    OBVIOUS
  <2>1. var' = var \/ Reading
    BY <1>0, Fixed
  <2>2. CASE Reading
    <3>1. pc.at \notin Kinds
      BY <2>2 DEF Reading, Kinds
    <3>2. Pending = Kinds /\ Pending' \subseteq Kinds
      BY <2>2 DEF Reading, Pending, Kinds
    <3> QED BY <1>0, <2>1, <3>1, <3>2, Fixed
  <2>3. CASE pc.at \in Kinds
    <3>1. PICK k \in Kinds : pc.at = k
      BY <2>3
    <3>2. NoSignals(k) \/ (pc' = pc /\ UNCHANGED <<ret, dev>>)
      <4>1. pc.at \notin {"read", "file", "step", "readAI", "readDI", "inputs", "recv", "send", "end"}
        BY <2>3 DEF Kinds
      <4>2. RxFrame \/ RxStore \/ UNCHANGED vars => pc' = pc /\ UNCHANGED <<ret, dev>>
        BY DEF RxFrame, RxStore, config, vars
      <4>3. \A n \in Kinds : NoSignals(n) \/ InitClass(n) => n = k
        BY <1>0, <3>1, Moves
      <4> QED BY <1>0, <3>1, <4>1, <4>2, <4>3, Actions, Moves
    <3>3. CASE NoSignals(k)
      <4>1. ret' = ret /\ dev' = dev
        BY <3>3 DEF NoSignals, config
      <4> QED BY <1>0, <2>1, <3>1, <3>3, <4>1, Moves, PendingAfter
    <3>4. CASE pc' = pc /\ UNCHANGED <<ret, dev>>
      BY <2>1, <3>4 DEF Pending
    <3> QED BY <3>2, <3>3, <3>4
  <2>4. CASE ~Reading /\ pc.at \notin Kinds
    <3>1. pc'.at \notin Kinds /\ ~Reading'
      <4>1. ~Reading'
        BY <1>0, <2>4, Fixed
      <4>2. \A k \in Kinds : ~NoSignals(k) /\ ~InitClass(k)
        BY <1>0, <2>4, Moves
      <4>3. pc' = pc \/ pc'.at \in {"step", "readAI", "readDI", "inputs", "recv", "send", "end", "done"}
        <5>1. RxFrame \/ RxStore \/ UNCHANGED vars => pc' = pc
          BY DEF RxFrame, RxStore, vars
        <5> QED BY <1>0, <2>4, <4>2, <5>1, Actions, Moves DEF Reading
      <4> QED BY <2>4, <4>1, <4>3 DEF Kinds
    <3>2. Pending' = {}
      BY <3>1 DEF Pending, Reading, Kinds
    <3> QED BY <1>0, <2>1, <2>4, <3>2, Fixed
  <2> QED BY <2>2, <2>3, <2>4
<1> QED BY <1>1, <1>2, <1>3

-----------------------------------------------------------------------------
(* The frames and the samples. *)

\* Which actions write the frames, the samples, the arrays and the words.
LEMMA Writes ==
  ASSUME [Next]_vars
  PROVE  /\ (in' = in /\ rx' = rx) \/ RxFrame \/ RxStore
         /\ sample' = sample \/ AllocBuf \/ ReadWord("readAI", "AI") \/ ReadWord("readDI", "DI")
         /\ data' = data \/ AllocBuf \/ SendInputs \/ RecvOutputs
         /\ volt' = volt \/ AllocBuf \/ RecvOutputs
         /\ out' = out \/ (\E k \in Kinds : InitClass(k)) \/ SenddataToPID
         /\ sent' = sent \/ SenddataToPID
<1>1. ReadLine \/ FileLine \/ ProcDone => UNCHANGED <<in, out, rx, sample, volt, data, sent>>
  BY DEF ReadLine, FileLine, ProcDone
<1>2. AllocBuf => UNCHANGED <<in, out, rx, sent>>
  BY DEF AllocBuf
<1>3. \A k \in Kinds : NoSignals(k) => UNCHANGED <<in, out, rx, sample, volt, data, sent>>
  BY DEF NoSignals
<1>4. \A k \in Kinds : InitClass(k) => UNCHANGED <<in, rx, sample, volt, data, sent>>
  BY InitClassMoves
<1>5. RxFrame \/ RxStore => UNCHANGED <<out, sample, volt, data, sent>>
  BY DEF RxFrame, RxStore
<1>6. getSignal_NextDT => UNCHANGED <<in, out, rx, sample, volt, data, sent>>
  BY DEF getSignal_NextDT
<1>7. \A at, k : ReadWord(at, k) => UNCHANGED <<in, out, rx, volt, data, sent>>
  BY DEF ReadWord
<1>8. \A at, k, next : EndRead(at, k, next) => UNCHANGED <<in, out, rx, sample, volt, data, sent>>
  BY DEF EndRead
<1>9. SendInputs => UNCHANGED <<in, out, rx, sample, volt, sent>>
  BY DEF SendInputs
<1>10. RecvOutputs => UNCHANGED <<in, out, rx, sample, sent>>
  BY DEF RecvOutputs
<1>11. SenddataToPID => UNCHANGED <<in, rx, sample, volt, data>>
  BY DEF SenddataToPID
<1>12. EndStep => UNCHANGED <<in, out, rx, sample, volt, data, sent>>
  BY DEF EndStep
<1>13. UNCHANGED vars => UNCHANGED <<in, out, rx, sample, volt, data, sent>>
  BY DEF vars
<1> QED BY <1>1, <1>2, <1>3, <1>4, <1>5, <1>6, <1>7, <1>8, <1>9, <1>10, <1>11, <1>12, <1>13, Actions

\* Where a step may begin.
LEMMA Stepping ==
  ASSUME pc \in PcType, [Next]_vars, InStep'
  PROVE  \/ getSignal_NextDT
         \/ InStep /\ pc'.since = pc.since /\ dev' = dev /\ var' = var /\ SimProc' = SimProc
            /\ ret' = ret /\ ~Reading /\ pc'.ITime = pc.ITime
<1>1. ReadLine \/ FileLine \/ ProcDone \/ AllocBuf => ~InStep'
  BY Moves DEF InStep
<1>2. ASSUME NEW k \in Kinds, NoSignals(k) \/ InitClass(k) PROVE ~InStep'
  <2>1. After(k) \in {"AO", "DI", "DO", "step"}
    BY DEF After, Kinds
  <2>2. pc'.at = After(k)
    BY <1>2, Moves
  <2> QED BY <2>1, <2>2 DEF InStep
<1>3. RxFrame \/ RxStore \/ UNCHANGED vars => pc' = pc
  BY DEF RxFrame, RxStore, vars
<1>4. getSignal_NextDT \/ (InStep /\ pc'.since = pc.since /\ pc'.ITime = pc.ITime)
  <2>1. ReadWord("readAI", "AI") \/ ReadWord("readDI", "DI")
        => InStep /\ pc'.since = pc.since /\ pc'.ITime = pc.ITime
    BY Moves DEF InStep
  <2>2. EndRead("readAI", "AI", "readDI") \/ EndRead("readDI", "DI", "inputs")
        => InStep /\ pc'.since = pc.since /\ pc'.ITime = pc.ITime
    BY Moves DEF InStep
  <2>3. SendInputs \/ RecvOutputs => InStep /\ pc'.since = pc.since /\ pc'.ITime = pc.ITime
    BY Moves DEF InStep
  <2>4. SenddataToPID \/ EndStep => ~InStep'
    BY Moves DEF InStep
  <2>5. pc' = pc => InStep /\ pc'.since = pc.since /\ pc'.ITime = pc.ITime
    BY DEF InStep
  <2> QED BY <1>1, <1>2, <1>3, <2>1, <2>2, <2>3, <2>4, <2>5, Actions
<1>5. InStep => ~Reading /\ pc.at \notin Kinds /\ pc.at # "read"
  BY DEF InStep, Reading, Kinds
<1> QED BY <1>4, <1>5, Fixed


\* Once the classes were called, frames are received.
LEMMA Simulates ==
  ASSUME pc \in PcType, [Next]_vars
  PROVE  ~Simulating' => ~Simulating
<1>1. ReadLine \/ FileLine \/ ProcDone \/ AllocBuf => ~Simulating
  BY Moves DEF Simulating
<1>2. \A k \in Kinds : NoSignals(k) \/ InitClass(k) => ~Simulating
  BY Moves DEF Simulating, Kinds
<1>3. RxFrame \/ RxStore \/ UNCHANGED vars => (~Simulating' => ~Simulating)
  BY DEF RxFrame, RxStore, vars, Simulating
<1>4. getSignal_NextDT => Simulating'
  BY Moves DEF Simulating
<1>5. ReadWord("readAI", "AI") \/ ReadWord("readDI", "DI") => Simulating'
  BY Moves DEF Simulating
<1>6. EndRead("readAI", "AI", "readDI") \/ EndRead("readDI", "DI", "inputs") => Simulating'
  BY Moves DEF Simulating
<1>7. SendInputs \/ RecvOutputs \/ SenddataToPID \/ EndStep => Simulating'
  BY Moves DEF Simulating
<1> QED BY <1>1, <1>2, <1>3, <1>4, <1>5, <1>6, <1>7, Actions

LEMMA RxStep ==
  ASSUME PcOK, DevOK, RxOK, [Next]_vars
  PROVE  RxOK'
<1>0. pc \in PcType /\ pc.since \in Nat
  BY DEF PcOK, PcType
<1>r. /\ rx = [frame |-> rx.frame, left |-> rx.left]
      /\ rx.frame \in 0 .. MaxFrames /\ rx.left \subseteq Slots \X Chans
      /\ in \in [Slots -> [Chans -> 0 .. MaxFrames]]
      /\ \A s \in Slots, c \in Chans : in[s][c] <= rx.frame
      /\ MaxFrames \in Nat
  BY BoxDataAssumption DEF RxOK
<1>s. ~Simulating' => ~Simulating
  BY <1>0, Simulates
<1>t. InStep => /\ pc.since <= rx.frame
                /\ \A cell \in InputCells : pc.since <= in[cell[1]][cell[2]]
  BY DEF RxOK
<1>c. InputCells \subseteq Slots \X Chans /\ (dev' = dev => InputCells' = InputCells)
  BY DEF InputCells
<1> DEFINE New == /\ InStep' => /\ pc'.since <= rx'.frame
                                /\ \A cell \in InputCells' : pc'.since <= in'[cell[1]][cell[2]]
<1>1. CASE RxFrame
  <2>1. PICK n \in rx.frame + 1 .. MaxFrames : rx' = [frame |-> n, left |-> InputCells]
    BY <1>1 DEF RxFrame
  <2>2. in' = in /\ pc' = pc /\ dev' = dev /\ Simulating
    BY <1>1 DEF RxFrame, config
  <2>3. /\ rx'.frame = n /\ rx'.left = InputCells /\ n > rx.frame /\ n \in 0 .. MaxFrames
        /\ rx' = [frame |-> rx'.frame, left |-> rx'.left]
    BY <1>r, <2>1
  <2>4. \A s \in Slots, c \in Chans : in'[s][c] <= rx'.frame
    <3>1. \A s \in Slots, c \in Chans : in[s][c] \in 0 .. MaxFrames
      BY <1>r
    <3> QED BY <1>r, <2>2, <2>3, <3>1
  <2>5. New
    <3> SUFFICES ASSUME InStep' PROVE /\ pc'.since <= rx'.frame
                                      /\ \A cell \in InputCells : pc'.since <= in[cell[1]][cell[2]]
      BY <1>c, <2>2
    <3>1. InStep
      BY <2>2 DEF InStep
    <3> QED BY <1>0, <1>r, <1>t, <2>2, <2>3, <3>1
  <2>6. rx'.frame \in 0 .. MaxFrames /\ rx'.left \subseteq Slots \X Chans
        /\ in' \in [Slots -> [Chans -> 0 .. MaxFrames]]
    BY <1>c, <1>r, <2>2, <2>3
  <2> QED BY <1>s, <2>2, <2>3, <2>4, <2>5, <2>6 DEF RxOK
<1>2. CASE RxStore
  <2>1. PICK cell \in rx.left : /\ in' = [in EXCEPT ![cell[1]][cell[2]] = rx.frame]
                                /\ rx' = [rx EXCEPT !.left = @ \ {cell}]
                                /\ pc' = pc /\ dev' = dev
    BY <1>2 DEF RxStore, config
  <2>2. cell[1] \in Slots /\ cell[2] \in Chans /\ Simulating
    BY <1>r DEF RxOK
  <2>3. /\ rx'.frame = rx.frame /\ rx'.left = rx.left \ {cell}
        /\ rx' = [frame |-> rx'.frame, left |-> rx'.left]
    BY <1>r, <2>1
  <2>4. /\ in' \in [Slots -> [Chans -> 0 .. MaxFrames]]
        /\ \A s \in Slots, c \in Chans : in'[s][c] = in[s][c] \/ in'[s][c] = rx.frame
    BY <1>r, <2>1, <2>2
  <2>5. New
    <3> SUFFICES ASSUME InStep' PROVE /\ pc'.since <= rx'.frame
                                      /\ \A c \in InputCells : pc'.since <= in'[c[1]][c[2]]
      BY <1>c, <2>1
    <3>1. InStep
      BY <2>1 DEF InStep
    <3>2. pc.since <= rx.frame /\ \A c \in InputCells : pc.since <= in[c[1]][c[2]]
      BY <1>t, <3>1
    <3>3. \A c \in InputCells : c[1] \in Slots /\ c[2] \in Chans
      BY <1>c
    <3> QED BY <2>1, <2>3, <2>4, <3>2, <3>3
  <2>6. rx'.frame \in 0 .. MaxFrames /\ rx'.left \subseteq Slots \X Chans
        /\ (~Simulating' => FALSE)
    BY <1>r, <1>s, <2>2, <2>3
  <2>7. \A s \in Slots, c \in Chans : in'[s][c] <= rx'.frame
    BY <1>r, <2>3, <2>4
  <2> QED BY <2>3, <2>4, <2>5, <2>6, <2>7 DEF RxOK
<1>3. CASE in' = in /\ rx' = rx
  <2>1. CASE getSignal_NextDT
    <3>1. pc'.since = Whole /\ dev' = dev
      BY <1>0, <2>1, Moves DEF getSignal_NextDT, config
    <3>2. Whole \in 0 .. rx.frame /\ \A cell \in InputCells : Whole <= in[cell[1]][cell[2]]
      BY WholeFacts
    <3>3. Whole <= rx.frame
      BY <1>r, <3>2
    <3>4. New
      BY <1>3, <1>c, <3>1, <3>2, <3>3
    <3> QED BY <1>3, <1>r, <1>s, <3>4 DEF RxOK
  <2>2. CASE ~getSignal_NextDT
    <3>1. New
      <4> SUFFICES ASSUME InStep' PROVE /\ pc'.since <= rx'.frame
                                        /\ \A cell \in InputCells' :
                                             pc'.since <= in'[cell[1]][cell[2]]
        OBVIOUS
      <4>1. InStep /\ pc'.since = pc.since /\ dev' = dev
        BY <1>0, <2>2, Stepping
      <4> QED BY <1>3, <1>c, <1>t, <4>1
    <3> QED BY <1>3, <1>r, <1>s, <3>1 DEF RxOK
  <2> QED BY <2>1, <2>2
<1> QED BY <1>1, <1>2, <1>3, Writes

\* A word is no older than the frame that was whole when the step began.
LEMMA SampleStep ==
  ASSUME PcOK, SignalsOK, DevOK, RxOK, RxOK', SampleOK, [Next]_vars
  PROVE  SampleOK'
<1>0. pc \in PcType /\ pc.since \in Nat /\ pc.i \in Nat
  BY DEF PcOK, PcType
<1>v. \A k \in {"AI", "DI"} :
        /\ Len(var[k]) \in Nat /\ DOMAIN var[k] = 1 .. Len(var[k])
        /\ \A x \in DOMAIN var[k] : var[k][x].slot \in Slots /\ var[k][x].chan \in Chans
  <2>1. {"AI", "DI"} \subseteq Kinds
    BY DEF Kinds
  <2> QED BY <2>1, SignalFacts
<1>r. /\ in \in [Slots -> [Chans -> 0 .. MaxFrames]] /\ rx.frame \in Nat /\ MaxFrames \in Nat
      /\ \A s \in Slots, c \in Chans : in[s][c] <= rx.frame
      /\ InStep => \A cell \in InputCells : pc.since <= in[cell[1]][cell[2]]
  BY BoxDataAssumption DEF RxOK
<1> DEFINE Type(s) == /\ s = [AI |-> s["AI"], DI |-> s["DI"]]
                      /\ \A k \in {"AI", "DI"} : s[k] \in [DOMAIN var[k] -> -1 .. MaxFrames]
           Fresh == InStep' => \A k \in {"AI", "DI"} : \A x \in DOMAIN var[k] :
                      Known(k, x) /\ Sampled(k, x)' => sample'[k][x] \in pc'.since .. rx'.frame
<1>s. ~Reading => Type(sample)
  BY DEF SampleOK
<1>f. InStep => ~Reading /\ \A k \in {"AI", "DI"} : \A x \in DOMAIN var[k] :
                      Known(k, x) /\ Sampled(k, x) => sample[k][x] \in pc.since .. rx.frame
  BY DEF SampleOK, InStep, Reading
<1>e. ASSUME var' = var, InStep' => dev' = dev, Type(sample'), Fresh
      PROVE  SampleOK'
  <2>1. dev' = dev => \A k, x : Known(k, x)' = Known(k, x)
    BY <1>e DEF Known, InputCells
  <2> SUFFICES ASSUME ~Reading'
               PROVE  /\ sample' = [AI |-> sample'["AI"], DI |-> sample'["DI"]]
                      /\ \A k \in {"AI", "DI"} :
                           /\ sample'[k] \in [DOMAIN var[k] -> -1 .. MaxFrames]
                           /\ InStep' => \A x \in DOMAIN var[k] :
                                Known(k, x)' /\ Sampled(k, x)' => sample'[k][x] \in pc'.since .. rx'.frame
    BY <1>e DEF SampleOK
  <2> QED BY <1>e, <2>1
<1>1. CASE AllocBuf
  <2>1. pc'.at = "AI" /\ var' = var
    BY <1>0, <1>1, Moves DEF AllocBuf, config
  <2>2. sample' = [k \in {"AI", "DI"} |-> [x \in DOMAIN var[k] |-> -1]]
    BY <1>1 DEF AllocBuf
  <2>3. Type(sample')
    <3>1. \A k \in {"AI", "DI"} : sample'[k] \in [DOMAIN var[k] -> -1 .. MaxFrames]
      BY <1>r, <2>2
    <3>2. sample' = [AI |-> sample'["AI"], DI |-> sample'["DI"]]
      BY <2>2
    <3> QED BY <3>1, <3>2
  <2>4. ~InStep'
    BY <2>1 DEF InStep
  <2> QED BY <1>e, <2>1, <2>3, <2>4
<1>2. ASSUME NEW at, NEW k \in {"AI", "DI"}, at = IF k = "AI" THEN "readAI" ELSE "readDI",
             ReadWord(at, k)
      PROVE  SampleOK'
  <2>1. /\ pc.at = at /\ pc'.at = at /\ pc'.i = pc.i + 1 /\ pc'.since = pc.since
        /\ sample' = [sample EXCEPT ![k][pc.i] = in[var[k][pc.i].slot][var[k][pc.i].chan]]
        /\ pc.i <= Len(var[k]) /\ var' = var /\ dev' = dev /\ rx' = rx
    <3>1. /\ sample' = [sample EXCEPT ![k][pc.i] = in[var[k][pc.i].slot][var[k][pc.i].chan]]
          /\ pc.i <= Len(var[k]) /\ var' = var /\ dev' = dev /\ rx' = rx
      BY <1>2 DEF ReadWord, Reads, config
    <3> QED BY <1>0, <1>2, <3>1, Moves
  <2>2. pc.i \in DOMAIN var[k]
    <3>1. pc.i > 0
      BY <1>2, <2>1 DEF PcOK
    <3> QED BY <1>0, <1>v, <2>1, <3>1
  <2>3. InStep /\ ~Reading
    BY <1>2, <2>1 DEF InStep, Reading
  <2> DEFINE w == in[var[k][pc.i].slot][var[k][pc.i].chan]
  <2>4. w \in 0 .. MaxFrames /\ w <= rx.frame
    BY <1>r, <1>v, <2>2
  <2>5. Known(k, pc.i) => pc.since <= w
    <3> SUFFICES ASSUME Known(k, pc.i) PROVE pc.since <= w
      OBVIOUS
    <3> DEFINE cell == <<var[k][pc.i].slot, var[k][pc.i].chan>>
    <3>1. cell \in InputCells
      BY DEF Known
    <3>2. pc.since <= in[cell[1]][cell[2]]
      BY <1>r, <2>3, <3>1
    <3> QED BY <3>2
  <2> HIDE DEF w
  <2>6. /\ \A n \in {"AI", "DI"} : \A x \in DOMAIN var[n] :
             sample'[n][x] = IF n = k /\ x = pc.i THEN w ELSE sample[n][x]
        /\ Type(sample')
    <3>1. Type(sample)
      BY <1>s, <2>3
    <3>2. sample' = [sample EXCEPT ![k] = [sample[k] EXCEPT ![pc.i] = w]]
      BY <2>1 DEF w
    <3>3. DOMAIN sample = {"AI", "DI"}
      BY <3>1
    <3>4. [sample[k] EXCEPT ![pc.i] = w] \in [DOMAIN var[k] -> -1 .. MaxFrames]
      BY <1>r, <2>2, <2>4, <3>1
    <3>5. \A n \in {"AI", "DI"} :
            sample'[n] = IF n = k THEN [sample[k] EXCEPT ![pc.i] = w] ELSE sample[n]
      BY <3>2, <3>3
    <3>6. \A n \in {"AI", "DI"} : sample'[n] \in [DOMAIN var[n] -> -1 .. MaxFrames]
      BY <3>1, <3>4, <3>5
    <3>7. sample' = [AI |-> sample'["AI"], DI |-> sample'["DI"]]
      BY <3>2, <3>3
    <3>8. \A n \in {"AI", "DI"} : \A x \in DOMAIN var[n] :
            sample'[n][x] = IF n = k /\ x = pc.i THEN w ELSE sample[n][x]
      BY <2>2, <3>1, <3>5
    <3> QED BY <3>6, <3>7, <3>8
  <2>7. Fresh
    <3> SUFFICES ASSUME NEW n \in {"AI", "DI"}, NEW x \in DOMAIN var[n], Known(n, x), Sampled(n, x)'
                 PROVE  sample'[n][x] \in pc.since .. rx.frame
      BY <2>1
    <3>1. CASE n = k /\ x = pc.i
      BY <1>0, <1>r, <2>4, <2>5, <2>6, <3>1
    <3>2. CASE ~ (n = k /\ x = pc.i)
      <4>1. Sampled(n, x)
        <5>1. x \in Nat
          BY <1>v
        <5>2. x < pc.i + 1 => x < pc.i \/ x = pc.i
          BY <1>0, <5>1
        <5> QED BY <1>2, <2>1, <3>2, <5>2 DEF Sampled
      <4> QED BY <1>f, <2>3, <2>6, <3>2, <4>1
    <3> QED BY <3>1, <3>2
  <2> QED BY <1>e, <2>1, <2>6, <2>7
<1>3. CASE sample' = sample /\ ~ReadWord("readAI", "AI") /\ ~ReadWord("readDI", "DI")
  <2>1. CASE Reading'
    BY <2>1 DEF SampleOK
  <2>2. CASE ~Reading'
    <3>1. CASE AllocBuf
      BY <1>1, <3>1
    <3>2. CASE ~AllocBuf
      <4>1. ~Reading
        <5>1. ReadLine \/ FileLine \/ ProcDone => Reading'
          BY <1>0, Moves DEF Reading
        <5>2. \A k \in Kinds : k \notin {"read", "file"}
          BY DEF Kinds
        <5>3. Reading => ~Simulating
          BY DEF Reading, Simulating
        <5>4. UNCHANGED vars => (Reading => Reading')
          BY DEF vars, Reading
        <5> QED BY <1>0, <2>2, <3>2, <5>1, <5>2, <5>3, <5>4, Setup DEF Reading
      <4>2. Type(sample') /\ var' = var
        BY <1>0, <1>3, <1>s, <4>1, Fixed
      <4>3. Fresh
        <5> SUFFICES ASSUME InStep', NEW k \in {"AI", "DI"}, NEW x \in DOMAIN var[k],
                            Known(k, x), Sampled(k, x)'
                     PROVE  sample'[k][x] \in pc'.since .. rx'.frame
          OBVIOUS
        <5>x. x \in Nat /\ x >= 1
          BY <1>v
        <5>1. ~getSignal_NextDT
          <6> SUFFICES ASSUME getSignal_NextDT PROVE FALSE
            OBVIOUS
          <6>1. pc'.at = "readAI" /\ pc'.i = 1
            BY <1>0, Moves
          <6> QED BY <5>x, <6>1 DEF Sampled
        <5>2. InStep /\ pc'.since = pc.since
          BY <1>0, <5>1, Stepping
        <5>3. rx.frame <= rx'.frame /\ rx'.frame \in Nat
          <6>1. RxFrame => rx'.frame > rx.frame
            <7>1. RxFrame => \E n \in rx.frame + 1 .. MaxFrames : rx' = [frame |-> n, left |-> InputCells]
              BY DEF RxFrame
            <7> QED BY <1>r, <7>1
          <6>2. RxStore => rx'.frame = rx.frame
            <7>1. rx = [frame |-> rx.frame, left |-> rx.left]
              BY DEF RxOK
            <7>2. RxStore => \E cell \in rx.left : rx' = [rx EXCEPT !.left = @ \ {cell}]
              BY DEF RxStore
            <7> QED BY <7>1, <7>2
          <6>3. rx'.frame \in Nat
            BY BoxDataAssumption DEF RxOK
          <6> QED BY <1>r, <6>1, <6>2, <6>3, Writes
        <5>4. Sampled(k, x)
          <6>1. CASE pc'.at = pc.at /\ pc'.i = pc.i
            BY <6>1 DEF Sampled
          <6>2. CASE EndRead("readAI", "AI", "readDI")
            <7>1. pc.at = "readAI" /\ pc'.at = "readDI" /\ pc'.i = 1
              BY <1>0, <6>2, Moves
            <7>2. k = "AI"
              BY <5>x, <7>1 DEF Sampled
            <7>3. Len(var["AI"]) = dev.count["AI"]
              BY <7>2 DEF Known
            <7>4. ~ (pc.i <= Len(var["AI"]))
              BY <6>2, <7>3 DEF EndRead, Reads
            <7>5. x < pc.i
              BY <1>0, <1>v, <7>2, <7>4
            <7> QED BY <7>1, <7>2, <7>5 DEF Sampled
          <6>3. CASE EndRead("readDI", "DI", "inputs")
            <7>1. pc.at = "readDI"
              BY <1>0, <6>3, Moves
            <7>2. k = "DI" => x < pc.i
              <8> SUFFICES ASSUME k = "DI" PROVE x < pc.i
                OBVIOUS
              <8>1. Len(var["DI"]) = dev.count["DI"]
                BY DEF Known
              <8>2. ~ (pc.i <= Len(var["DI"]))
                BY <6>3, <8>1 DEF EndRead, Reads
              <8> QED BY <1>0, <1>v, <8>2
            <7> QED BY <7>1, <7>2 DEF Sampled
          <6>4. CASE pc.at \in {"inputs", "recv"}
            BY <6>4 DEF Sampled
          <6>5. pc.at \in {"readAI", "readDI"} =>
                  \/ pc' = pc
                  \/ EndRead("readAI", "AI", "readDI")
                  \/ EndRead("readDI", "DI", "inputs")
            <7>1. RxFrame \/ RxStore \/ UNCHANGED vars => pc' = pc
              BY DEF RxFrame, RxStore, vars
            <7>2. \A n \in Kinds : n \notin {"readAI", "readDI"}
              BY DEF Kinds
            <7> QED BY <1>0, <1>3, <7>1, <7>2, Actions, Moves
          <6> QED BY <5>2, <6>1, <6>2, <6>3, <6>4, <6>5 DEF InStep
        <5>5. sample[k][x] \in pc.since .. rx.frame
          BY <1>f, <5>2, <5>4
        <5> QED BY <1>0, <1>3, <1>r, <5>2, <5>3, <5>5
      <4>4. InStep' => dev' = dev
        <5>1. getSignal_NextDT => dev' = dev
          BY DEF getSignal_NextDT, config
        <5> QED BY <1>0, <5>1, Stepping
      <4> QED BY <1>e, <4>2, <4>3, <4>4
    <3> QED BY <3>1, <3>2
  <2> QED BY <2>1, <2>2
<1>4. ReadWord("readAI", "AI") => SampleOK'
  BY <1>2
<1>5. ReadWord("readDI", "DI") => SampleOK'
  BY <1>2
<1> QED BY <1>1, <1>3, <1>4, <1>5, Writes

-----------------------------------------------------------------------------
(* The arrays of the processes. *)

\* Max of numbers up to n is one of them.
LEMMA MaxOf ==
  ASSUME NEW n \in Nat, NEW S \in SUBSET (1 .. n), S # {}
  PROVE  Max(S) \in S /\ \A y \in S : y <= Max(S)
<1> DEFINE R == {n - x : x \in S}
<1>1. R \in SUBSET Nat /\ R # {} /\ \A x \in S : n - x \in R
  <2>1. \A x \in S : n - x \in Nat
    <3> SUFFICES ASSUME NEW x \in S PROVE n - x \in Nat
      OBVIOUS
    <3>1. x \in Nat /\ x <= n
      OBVIOUS
    <3> QED BY <3>1
  <2>2. \A x \in S : n - x \in R
    OBVIOUS
  <2>3. R # {}
    <3>1. PICK x \in S : TRUE
      OBVIOUS
    <3> QED BY <2>2, <3>1
  <2> QED BY <2>1, <2>2, <2>3
<1>2. \A m \in R : \E x \in S : m = n - x
  OBVIOUS
<1> HIDE DEF R
<1>3. PICK m \in R : \A y \in R : m <= y
  BY <1>1, LeastOf
<1>4. PICK x \in S : m = n - x
  BY <1>2
<1>5. \A y \in S : x >= y
  <2> SUFFICES ASSUME NEW y \in S PROVE x >= y
    OBVIOUS
  <2>1. n - x <= n - y
    BY <1>1, <1>3, <1>4
  <2>2. x \in Nat /\ y \in Nat
    OBVIOUS
  <2> QED BY <2>1, <2>2
<1>6. Max(S) \in S /\ \A y \in S : Max(S) >= y
  BY <1>5 DEF Max
<1>7. \A y \in S : y \in Nat
  OBVIOUS
<1> QED BY <1>6, <1>7

\* A line of the file read is one of a process.
LEMMA ProcFacts ==
  ASSUME CountsOK, pc.at # "read", NEW j \in DOMAIN dvc
  PROVE  /\ Turn(dvc[j].proc) \in DOMAIN SimProc
         /\ SimProc[Turn(dvc[j].proc)].Id = dvc[j].proc
         /\ dvc[j].proc \in Ids
<1>1. j \in Read
  BY DEF Read
<1> QED BY <1>1, TurnFacts DEF Ids

\* The lines of the variables of a signal.
LEMMA VarLine ==
  ASSUME dvc \in Files, SignalsOK, NEW k \in Kinds, NEW x \in DOMAIN var[k],
         NEW v \in DOMAIN var[k][x].VSimIO
  PROVE  \E j \in DOMAIN dvc : /\ j \in Filed
                               /\ dvc[j].kind = k /\ dvc[j].idno = var[k][x].idno
                               /\ var[k][x].VSimIO[v] = SimVarOf(j)
                               /\ var[k][x].VSimIO[v].prono = dvc[j].proc
                               /\ var[k][x].VSimIO[v].idxIO = Place(j)
                               /\ var[k][x].VSimIO[v].kamplify = dvc[j].gain
<1>1. SignalOK(var[k][x], k, Filed)
  BY SignalFacts
<1>2. PICK j \in Filed \cap Shares(k, var[k][x].idno) : var[k][x].VSimIO[v] = SimVarOf(j)
  BY <1>1 DEF SignalOK
<1>3. j \in DOMAIN dvc /\ dvc[j].kind = k /\ dvc[j].idno = var[k][x].idno
  BY <1>2 DEF Shares
<1> QED BY <1>2, <1>3, SimVarFacts

\* What a word is converted to is a number.
LEMMA InputValueType ==
  ASSUME NEW k \in {"AI", "DI"}, NEW sig, sig.slot \in Slots, sig.chan \in Chans,
         NEW gain \in Int, NEW n \in -1 .. MaxFrames
  PROVE  InputValue(k, sig, gain, n) \in Int
<1>0. sig.slot \in Int /\ sig.chan \in Int /\ MaxFrames \in Int /\ n \in Int /\ n >= -1
  <2>1. Slots \subseteq Nat /\ Chans \subseteq Nat /\ MaxFrames \in Nat
    BY BoxDataAssumption
  <2>2. sig.slot \in Nat /\ sig.chan \in Nat
    BY <2>1
  <2>3. n \in Int /\ n >= -1
    BY <2>1
  <2> QED BY <2>1, <2>2, <2>3
<1>1. BoxWord(k, sig.slot, sig.chan, n) \in Int
  <2>1. CASE n = -1
    BY <2>1 DEF BoxWord
  <2>2. CASE n = 0
    BY <2>2 DEF BoxWord
  <2>3. CASE n > 0 /\ k = "AI"
    <3>1. BoxWord(k, sig.slot, sig.chan, n) = 5 * n + 2 * sig.slot + sig.chan
      BY <1>0, <2>3 DEF BoxWord
    <3> QED BY <1>0, <3>1
  <2>4. CASE n > 0 /\ k = "DI"
    <3>1. BoxWord(k, sig.slot, sig.chan, n) = High * ((n + sig.chan) % 2) + (n % Unit)
      BY <1>0, <2>4 DEF BoxWord
    <3>2. (n + sig.chan) % 2 \in Int /\ n % 4 \in Int
      BY <1>0
    <3> QED BY <3>1, <3>2 DEF High, Unit
  <2> QED BY <1>0, <2>1, <2>2, <2>3, <2>4
<1>2. \A w \in Int : DiValue(w, sig.iospec) \in Int
  <2> SUFFICES ASSUME NEW w \in Int PROVE DiValue(w, sig.iospec) \in Int
    OBVIOUS
  <2>1. w % 8 \in Int /\ Unit + (w % 8) \in Int
    BY DEF Unit
  <2>2. CASE sig.iospec = 1
    BY <2>1, <2>2 DEF DiValue, High
  <2>3. CASE sig.iospec = 2
    BY <2>1, <2>3 DEF DiValue, High
  <2>4. CASE sig.iospec # 1 /\ sig.iospec # 2
    BY <2>1, <2>4 DEF DiValue, High
  <2> QED BY <2>2, <2>3, <2>4
<1>3. gain * (BoxWord(k, sig.slot, sig.chan, n) - AiZero) \in Int
  BY <1>1 DEF AiZero
<1> QED BY <1>1, <1>2, <1>3 DEF InputValue

\* A signal served gives a number.
LEMMA ValueForType ==
  ASSUME SignalsOK, SampleOK, ~Reading, NEW k \in {"AI", "DI"}, NEW p, NEW idx,
         Serves(k, p, idx) # {}
  PROVE  /\ Max(Serves(k, p, idx)) \in Serves(k, p, idx)
         /\ ValueFor(k, p, idx) \in Int
<1>0. k \in Kinds
  BY DEF Kinds
<1>1. Serves(k, p, idx) \in SUBSET (1 .. Len(var[k])) /\ Len(var[k]) \in Nat
  BY <1>0, SignalFacts DEF Serves
<1>2. Max(Serves(k, p, idx)) \in Serves(k, p, idx)
  BY <1>1, MaxOf
<1> DEFINE x == Max(Serves(k, p, idx))
<1>3. x \in DOMAIN var[k]
  BY <1>2 DEF Serves
<1>4. /\ var[k][x].slot \in Slots /\ var[k][x].chan \in Chans
      /\ var[k][x].VSimIO[1].kamplify \in Int
  <2>1. var[k][x].VSimIO[1] \in Simu
    BY <1>0, <1>3, SignalFacts
  <2>2. var[k][x].slot \in Slots /\ var[k][x].chan \in Chans
    BY <1>0, <1>3, SignalFacts
  <2> QED BY <2>1, <2>2 DEF Simu
<1>5. sample[k][x] \in -1 .. MaxFrames
  BY <1>3 DEF SampleOK
<1> HIDE DEF x
<1>6. InputValue(k, var[k][x], var[k][x].VSimIO[1].kamplify, sample[k][x]) \in Int
  BY <1>4, <1>5, InputValueType
<1>7. ValueFor(k, p, idx) = InputValue(k, var[k][x], var[k][x].VSimIO[1].kamplify, sample[k][x])
  BY DEF ValueFor, x
<1> QED BY <1>2, <1>6, <1>7

\* Where the steps of a process lead: out of ReadDvc by AllocBuf only.
LEMMA Leaving ==
  ASSUME pc \in PcType, RxOK, [Next]_vars, ~Reading', ~AllocBuf
  PROVE  ~Reading /\ dvc' = dvc /\ var' = var /\ SimProc' = SimProc
<1>1. ~Reading
  <2>1. ReadLine \/ FileLine \/ ProcDone => Reading'
    BY Moves DEF Reading
  <2>2. \A k \in Kinds : k \notin {"read", "file"}
    BY DEF Kinds
  <2>3. Reading => ~Simulating
    BY DEF Reading, Simulating
  <2>4. UNCHANGED vars => (Reading => Reading')
    BY DEF vars, Reading
  <2> QED BY <2>1, <2>2, <2>3, <2>4, Setup DEF Reading
<1>2. pc.at # "read"
  BY <1>1 DEF Reading
<1> QED BY <1>1, <1>2, Fixed

\* The arrays are numbers.
LEMMA DataStep ==
  ASSUME dvc \in Files, PcOK, CountsOK, SignalsOK, RxOK, SampleOK, DataOK, [Next]_vars
  PROVE  DataOK'
<1>0. pc \in PcType
  BY DEF PcOK
<1>1. CASE AllocBuf
  <2>1. /\ data' = [p \in Ids |-> [idx \in 0 .. Len(dvc) |-> 0]]
        /\ dvc' = dvc /\ SimProc' = SimProc
    BY <1>1 DEF AllocBuf, config, Ids
  <2>2. Ids' = Ids
    BY <2>1 DEF Ids
  <2> QED BY <2>1, <2>2 DEF DataOK
<1>2. CASE ~AllocBuf
  <2> SUFFICES ASSUME ~Reading' PROVE data' \in [Ids -> [0 .. Len(dvc) -> Int]]
    <3>1. ~Reading' => dvc' = dvc /\ SimProc' = SimProc
      BY <1>0, <1>2, Leaving
    <3>2. SimProc' = SimProc => Ids' = Ids
      BY DEF Ids
    <3> QED BY <3>1, <3>2 DEF DataOK
  <2>1. ~Reading /\ data \in [Ids -> [0 .. Len(dvc) -> Int]]
    BY <1>0, <1>2, Leaving DEF DataOK
  <2>2. CASE SendInputs
    <3>1. data' = [p \in DOMAIN data |-> [idx \in DOMAIN data[p] |->
                    IF \E j \in DOMAIN SimProc : SimProc[j].Id = p /\ SimProc[j].nIn = idx THEN 0
                    ELSE setSimuVal(p, idx)]]
      BY <2>2 DEF SendInputs
    <3>2. \A p \in Ids : \A idx \in 0 .. Len(dvc) : setSimuVal(p, idx) \in Int
      <4> SUFFICES ASSUME NEW p \in Ids, NEW idx \in 0 .. Len(dvc) PROVE setSimuVal(p, idx) \in Int
        OBVIOUS
      <4>1. \A k \in {"AI", "DI"} : Serves(k, p, idx) # {} => ValueFor(k, p, idx) \in Int
        BY <2>1, ValueForType
      <4>2. data[p][idx] \in Int
        BY <2>1
      <4> QED BY <4>1, <4>2 DEF setSimuVal
    <3>3. DOMAIN data = Ids /\ \A p \in Ids : DOMAIN data[p] = 0 .. Len(dvc)
      BY <2>1
    <3> QED BY <3>1, <3>2, <3>3
  <2>3. CASE RecvOutputs
    <3> DEFINE p == SimProc[pc.i].Id
               nOut == SimProc[pc.i].nOut
               Vin(outs) == [idx \in DOMAIN data[p] |->
                       IF idx < nOut THEN outs[idx] ELSE IF idx = nOut THEN 0 ELSE data[p][idx]]
    <3>1. PICK outs \in [0 .. nOut - 1 -> OutValues] : data' = [data EXCEPT ![p] = Vin(outs)]
      BY <2>3 DEF RecvOutputs
    <3>2. p \in Ids /\ nOut \in Nat
      <4>1. pc.i \in DOMAIN SimProc
        BY <2>3 DEF PcOK, RecvOutputs
      <4>2. SimProc \in Seq(Proc)
        BY DEF CountsOK, CountsOf
      <4>3. SimProc[pc.i] \in Proc
        BY <4>1, <4>2
      <4> QED BY <4>1, <4>3 DEF Ids, Proc
    <3>3. OutValues \subseteq Int
      BY BoxDataAssumption
    <3>4. DOMAIN data[p] = 0 .. Len(dvc) /\ \A idx \in 0 .. Len(dvc) : data[p][idx] \in Int
      BY <2>1, <3>2
    <3> HIDE DEF p, nOut
    <3>5. Vin(outs) \in [0 .. Len(dvc) -> Int]
      <4> SUFFICES ASSUME NEW idx \in 0 .. Len(dvc)
                   PROVE (IF idx < nOut THEN outs[idx] ELSE IF idx = nOut THEN 0 ELSE data[p][idx]) \in Int
        BY <3>4
      <4>0. Len(dvc) \in Nat
        BY FileFacts
      <4>1. CASE idx < nOut
        <5>1. idx \in 0 .. nOut - 1
          BY <3>2, <4>0, <4>1
        <5> QED BY <3>3, <4>1, <5>1
      <4>2. CASE ~(idx < nOut)
        BY <3>4, <4>2
      <4> QED BY <4>1, <4>2
    <3> HIDE DEF Vin
    <3> QED BY <2>1, <3>1, <3>5
  <2>4. CASE data' = data
    BY <2>1, <2>4
  <2> QED BY <1>2, <2>2, <2>3, <2>4, Writes
<1> QED BY <1>1, <1>2

\* The datum at the place of a variable is of one signal only.
LEMMA ServesOne ==
  ASSUME dvc \in Files, SignalsOK, NEW k \in {"AI", "DI"}, NEW x \in DOMAIN var[k],
         NEW n \in {"AI", "DI"}, NEW y \in DOMAIN var[n],
         var[n][y].VSimIO[1].prono = var[k][x].VSimIO[1].prono,
         var[n][y].VSimIO[1].idxIO = var[k][x].VSimIO[1].idxIO
  PROVE  n = k /\ y = x
<1>0. k \in Kinds /\ n \in Kinds
  BY DEF Kinds
<1>1. 1 \in DOMAIN var[k][x].VSimIO /\ 1 \in DOMAIN var[n][y].VSimIO
  BY <1>0, SignalFacts
<1>2. PICK j \in DOMAIN dvc : /\ dvc[j].kind = k /\ dvc[j].idno = var[k][x].idno
                              /\ var[k][x].VSimIO[1].prono = dvc[j].proc
                              /\ var[k][x].VSimIO[1].idxIO = Place(j)
  BY <1>0, <1>1, VarLine
<1>3. PICK i \in DOMAIN dvc : /\ dvc[i].kind = n /\ dvc[i].idno = var[n][y].idno
                              /\ var[n][y].VSimIO[1].prono = dvc[i].proc
                              /\ var[n][y].VSimIO[1].idxIO = Place(i)
  BY <1>0, <1>1, VarLine
<1>4. Side(dvc[i].kind) = Side(dvc[j].kind)
  BY <1>2, <1>3 DEF Side, IsInput
<1>5. i = j
  BY <1>2, <1>3, <1>4, PlaceFacts
<1>6. n = k /\ var[k][y].idno = var[k][x].idno
  BY <1>2, <1>3, <1>5
<1>7. ListOK(var[k], k, Filed)
  BY <1>0 DEF SignalsOK
<1>8. y = x
  BY <1>6, <1>7 DEF ListOK
<1> QED BY <1>6, <1>8

\* A process is sent as many inputs as it has lines, and send_err comes after them.
LEMMA InputBefore ==
  ASSUME dvc \in Files, CountsOK, pc.at # "read", NEW j \in InputLines,
         NEW n \in DOMAIN SimProc, SimProc[n].Id = dvc[j].proc
  PROVE  SimProc[n].nIn # Place(j)
<1>1. j \in DOMAIN dvc /\ IsInput(dvc[j].kind)
  BY DEF InputLines, LineIndices
<1>2. SimProc[n].nIn = Cardinality(Of(DOMAIN dvc, SimProc[n].Id, InKinds))
  <2>1. Read = DOMAIN dvc
    BY DEF Read
  <2> QED BY <2>1 DEF CountsOK, CountsOf
<1>3. Place(j) < Cardinality(Of(DOMAIN dvc, dvc[j].proc, InKinds)) /\ Place(j) \in Nat
  <2>1. Side(dvc[j].kind) = InKinds
    BY <1>1 DEF Side
  <2>2. Place(j) \in 0 .. Len(dvc) /\ Len(dvc) \in Nat
    BY <1>1, PlaceFacts, FileFacts
  <2>3. Place(j) < Cardinality(Of(DOMAIN dvc, dvc[j].proc, InKinds))
    BY <1>1, <2>1, PlaceFacts
  <2> QED BY <2>2, <2>3
<1>4. Cardinality(Of(DOMAIN dvc, dvc[j].proc, InKinds)) \in Nat
  BY OfFacts
<1> QED BY <1>2, <1>3, <1>4

\* What the processes are sent are the values of the signals.
LEMMA GivenStep ==
  ASSUME dvc \in Files, PcOK, CountsOK, SignalsOK, RxOK, SampleOK, DataOK, GivenOK, [Next]_vars
  PROVE  GivenOK'
<1>0. pc \in PcType
  BY DEF PcOK
<1> SUFFICES ASSUME InputsSent'
             PROVE  /\ var' = var
                    /\ \A k \in {"AI", "DI"} : \A x \in DOMAIN var[k] :
                         data'[var[k][x].VSimIO[1].prono][var[k][x].VSimIO[1].idxIO] =
                           InputValue(k, var[k][x], var[k][x].VSimIO[1].kamplify, sample'[k][x])
  BY DEF GivenOK
<1>1. pc'.at = "recv" /\ pc'.i = 1
  BY DEF InputsSent
<1>2. InStep /\ var' = var /\ ~Reading /\ pc.at # "read"
  <2>1. InStep' /\ ~getSignal_NextDT
    BY <1>0, <1>1, Moves DEF InStep
  <2> QED BY <1>0, <2>1, Stepping DEF Reading
<1>3. ~RecvOutputs
  <2> SUFFICES ASSUME RecvOutputs PROVE FALSE
    OBVIOUS
  <2>1. pc.at = "recv" /\ pc'.i = pc.i + 1
    BY <1>0, <1>1, Moves
  <2>2. pc.i \in DOMAIN SimProc /\ SimProc \in Seq(Proc)
    BY <2>1 DEF PcOK, CountsOK, CountsOf
  <2>3. pc.i \in Nat /\ pc.i >= 1
    BY <2>2
  <2> QED BY <1>1, <2>1, <2>3
<1>4. ~ReadWord("readAI", "AI") /\ ~ReadWord("readDI", "DI") /\ ~AllocBuf
  BY <1>0, <1>1, Moves
<1>5. sample' = sample
  BY <1>4, Writes
<1>6. CASE SendInputs
  <2> SUFFICES ASSUME NEW k \in {"AI", "DI"}, NEW x \in DOMAIN var[k]
               PROVE  data'[var[k][x].VSimIO[1].prono][var[k][x].VSimIO[1].idxIO] =
                        InputValue(k, var[k][x], var[k][x].VSimIO[1].kamplify, sample[k][x])
    BY <1>2, <1>5
  <2>0. PICK p, idx : p = var[k][x].VSimIO[1].prono /\ idx = var[k][x].VSimIO[1].idxIO
    OBVIOUS
  <2>1. /\ x \in Serves(k, p, idx)
        /\ \A n \in {"AI", "DI"} : \A y \in Serves(n, p, idx) : n = k /\ y = x
    BY <2>0, ServesOne DEF Serves
  <2>2. PICK j \in DOMAIN dvc : dvc[j].kind = k /\ p = dvc[j].proc /\ idx = Place(j)
    <3>1. k \in Kinds
      BY DEF Kinds
    <3>2. 1 \in DOMAIN var[k][x].VSimIO
      BY <3>1, SignalFacts
    <3>3. \E j \in DOMAIN dvc : dvc[j].kind = k /\ var[k][x].VSimIO[1].prono = dvc[j].proc
                                /\ var[k][x].VSimIO[1].idxIO = Place(j)
      BY <3>1, <3>2, VarLine
    <3> QED BY <2>0, <3>3
  <2>3. p \in Ids /\ idx \in 0 .. Len(dvc)
    <3>1. p \in Ids
      BY <1>2, <2>2, ProcFacts
    <3>2. Place(j) \in 0 .. Len(dvc)
      BY <2>2, PlaceFacts
    <3> QED BY <2>2, <3>1, <3>2
  <2>4. ~ \E n \in DOMAIN SimProc : SimProc[n].Id = p /\ SimProc[n].nIn = idx
    <3>1. j \in InputLines
      BY <2>2 DEF InputLines, LineIndices, IsInput
    <3>2. \A n \in DOMAIN SimProc : SimProc[n].Id = dvc[j].proc => SimProc[n].nIn # Place(j)
      BY <1>2, <3>1, InputBefore
    <3> QED BY <2>2, <3>2
  <2>5. setSimuVal(p, idx) = ValueFor(k, p, idx)
    <3>1. Serves(k, p, idx) # {}
      BY <2>1
    <3>2. k = "AI" => Serves("DI", p, idx) = {}
      <4> SUFFICES ASSUME k = "AI", NEW y \in Serves("DI", p, idx) PROVE FALSE
        OBVIOUS
      <4> QED BY <2>1
    <3> QED BY <3>1, <3>2 DEF setSimuVal
  <2>6. Max(Serves(k, p, idx)) = x
    <3>1. Max(Serves(k, p, idx)) \in Serves(k, p, idx)
      BY <1>2, <2>1, ValueForType
    <3> QED BY <2>1, <3>1
  <2>7. data'[p][idx] = setSimuVal(p, idx)
    <3>1. data' = [q \in DOMAIN data |-> [i \in DOMAIN data[q] |->
                    IF \E j_1 \in DOMAIN SimProc : SimProc[j_1].Id = q /\ SimProc[j_1].nIn = i THEN 0
                    ELSE setSimuVal(q, i)]]
      BY <1>6 DEF SendInputs
    <3>2. DOMAIN data = Ids /\ DOMAIN data[p] = 0 .. Len(dvc)
      BY <1>2, <2>3 DEF DataOK
    <3> QED BY <2>3, <2>4, <3>1, <3>2
  <2>8. ValueFor(k, p, idx) = InputValue(k, var[k][x], var[k][x].VSimIO[1].kamplify, sample[k][x])
    BY <2>6 DEF ValueFor
  <2>9. data'[p][idx] = InputValue(k, var[k][x], var[k][x].VSimIO[1].kamplify, sample[k][x])
    BY <2>5, <2>7, <2>8
  <2> QED BY <2>0, <2>9
<1>7. CASE ~SendInputs
  <2>1. data' = data
    BY <1>3, <1>4, <1>7, Writes
  <2>2. InputsSent
    <3>1. RxFrame \/ RxStore \/ UNCHANGED vars => pc' = pc
      BY DEF RxFrame, RxStore, vars
    <3>2. pc.at \in {"readAI", "readDI", "inputs", "recv"}
      BY <1>2 DEF InStep
    <3>3. \A n \in Kinds : n \notin {"readAI", "readDI", "inputs", "recv"}
      BY DEF Kinds
    <3>4. ~EndRead("readAI", "AI", "readDI") /\ ~EndRead("readDI", "DI", "inputs")
      BY <1>0, <1>1, Moves
    <3>5. pc' = pc
      <4>1. ~ReadLine /\ ~FileLine /\ ~ProcDone /\ ~getSignal_NextDT /\ ~SenddataToPID /\ ~EndStep
        BY <1>0, <1>1, Moves
      <4>2. \A n \in Kinds : ~NoSignals(n) /\ ~InitClass(n)
        BY <1>0, <3>2, <3>3, Moves
      <4> QED BY <1>3, <1>4, <1>7, <3>1, <3>4, <4>1, <4>2, Actions
    <3> QED BY <3>5 DEF InputsSent
  <2> QED BY <1>2, <1>5, <2>1, <2>2 DEF GivenOK
<1> QED BY <1>6, <1>7

-----------------------------------------------------------------------------
(* The outputs of the processes. *)

\* A variable of a signal is one of a process, at a place of its array.
LEMMA VarFacts ==
  ASSUME dvc \in Files, CountsOK, SignalsOK, ~Reading, NEW k \in Kinds, NEW x \in DOMAIN var[k],
         NEW v \in DOMAIN var[k][x].VSimIO
  PROVE  /\ Turn(var[k][x].VSimIO[v].prono) \in DOMAIN SimProc
         /\ SimProc[Turn(var[k][x].VSimIO[v].prono)].Id = var[k][x].VSimIO[v].prono
         /\ var[k][x].VSimIO[v].prono \in Ids
         /\ var[k][x].VSimIO[v].idxIO \in 0 .. Len(dvc)
         /\ var[k][x].VSimIO[v].kamplify \in Int
         /\ Turn(var[k][x].VSimIO[1].prono) <= Turn(var[k][x].VSimIO[v].prono)
<1>1. PICK j \in DOMAIN dvc : /\ var[k][x].VSimIO[v].prono = dvc[j].proc
                              /\ var[k][x].VSimIO[v].idxIO = Place(j)
                              /\ var[k][x].VSimIO[v].kamplify = dvc[j].gain
  BY VarLine
<1>2. pc.at # "read"
  BY DEF Reading
<1>3. /\ Turn(dvc[j].proc) \in DOMAIN SimProc /\ SimProc[Turn(dvc[j].proc)].Id = dvc[j].proc
      /\ dvc[j].proc \in Ids
  BY <1>2, ProcFacts
<1>4. Place(j) \in 0 .. Len(dvc) /\ dvc[j].gain \in Int
  BY PlaceFacts, LineFacts
<1>5. SignalOK(var[k][x], k, Filed)
  BY SignalFacts
<1>6. Turn(var[k][x].VSimIO[1].prono) <= Turn(var[k][x].VSimIO[v].prono)
  BY <1>5 DEF SignalOK
<1>7. /\ Turn(var[k][x].VSimIO[v].prono) \in DOMAIN SimProc
      /\ SimProc[Turn(var[k][x].VSimIO[v].prono)].Id = var[k][x].VSimIO[v].prono
      /\ var[k][x].VSimIO[v].prono \in Ids
  BY <1>1, <1>3
<1> QED BY <1>1, <1>4, <1>6, <1>7

\* An action other than RecvOutputs keeps what was received, or begins anew.
LEMMA GotStep ==
  ASSUME PcOK, CountsOK, RxOK, [Next]_vars, ~Reading, ~RecvOutputs
  PROVE  \/ /\ pc'.ITime = pc.ITime /\ data' = data
            /\ \A p : Got(p)' <=> Got(p)
         \/ \A p : Turn(p) \in DOMAIN SimProc => ~Got(p)'
<1>0. pc \in PcType /\ pc.at # "read" /\ SimProc' = SimProc /\ SimProc \in Seq(Proc)
  <2>1. pc.at # "read" /\ pc \in PcType
    BY DEF Reading, PcOK
  <2>2. SimProc \in Seq(Proc)
    BY DEF CountsOK, CountsOf
  <2> QED BY <2>1, <2>2, Fixed
<1>t. \A p : Turn(p)' = Turn(p)
  BY <1>0, TurnSame
<1>1. CASE SendInputs
  <2>1. SimProc # <<>> => pc'.at = "recv" /\ pc'.i = 1
    <3>1. pc.at = "inputs"
      BY <1>1 DEF SendInputs
    <3>2. pc.i = 1
      BY <3>1 DEF PcOK
    <3> QED BY <1>0, <1>1, <3>2, Moves
  <2>2. ASSUME NEW p, Turn(p) \in DOMAIN SimProc PROVE ~Got(p)'
    <3>1. SimProc # <<>>
      BY <1>0, <2>2
    <3>2. Turn(p) \in Nat /\ Turn(p) >= 1
      BY <1>0, <2>2
    <3>3. ~(Turn(p) < 1) /\ Turn(p)' = Turn(p)
      BY <1>t, <3>2
    <3> QED BY <2>1, <3>1, <3>3 DEF Got
  <2> QED BY <2>2
<1>2. CASE SenddataToPID
  <2>1. pc.at = "send" /\ pc'.at = "end" /\ pc'.ITime = pc.ITime
    BY <1>0, <1>2, Moves
  <2>2. data' = data
    BY <1>2 DEF SenddataToPID
  <2>3. \A p : Got(p)' <=> Got(p)
    BY <2>1 DEF Got
  <2> QED BY <2>1, <2>2, <2>3
<1>3. CASE pc' = pc /\ data' = data
  BY <1>0, <1>t, <1>3 DEF Got
<1>4. CASE pc'.at \notin {"recv", "send", "end"}
  BY <1>4 DEF Got
<1>5. \/ SendInputs \/ SenddataToPID
      \/ pc' = pc /\ data' = data
      \/ pc'.at \notin {"recv", "send", "end"}
  <2>1. RxFrame \/ RxStore \/ UNCHANGED vars => pc' = pc /\ data' = data
    BY DEF RxFrame, RxStore, vars
  <2>2. ReadLine \/ FileLine \/ ProcDone \/ AllocBuf \/ getSignal_NextDT \/ EndStep
        => pc'.at \notin {"recv", "send", "end"}
    BY <1>0, Moves
  <2>3. ReadWord("readAI", "AI") \/ ReadWord("readDI", "DI")
        \/ EndRead("readAI", "AI", "readDI") \/ EndRead("readDI", "DI", "inputs")
        => pc'.at \notin {"recv", "send", "end"}
    BY <1>0, Moves
  <2>4. ASSUME NEW k \in Kinds, NoSignals(k) \/ InitClass(k) PROVE pc'.at \notin {"recv", "send", "end"}
    <3>1. After(k) \in {"AO", "DI", "DO", "step"}
      BY DEF After, Kinds
    <3> QED BY <1>0, <2>4, <3>1, Moves
  <2> QED BY <2>1, <2>2, <2>3, <2>4, Actions
<1> QED BY <1>1, <1>2, <1>3, <1>4, <1>5

\* The outputs of process p, received in its turn, are the newest.
Received(p, Vin) ==
  /\ p \in Ids /\ Turn(p) = pc.i /\ pc.at = "recv"
  /\ Vin \in [0 .. Len(dvc) -> Int]
  /\ data' = [data EXCEPT ![p] = Vin]
  /\ \A q : Turn(q) \in DOMAIN SimProc => (Got(q)' <=> Turn(q) <= pc.i)

LEMMA ReceivedFacts ==
  ASSUME dvc \in Files, PcOK, CountsOK, DataOK, DataOK', [Next]_vars, RecvOutputs
  PROVE  /\ \E p, Vin : Received(p, Vin) /\ volt' = GetSimuVal(p, Vin)
         /\ pc'.ITime = pc.ITime /\ ~Reading /\ ~Reading' /\ var' = var
<1>0. pc \in PcType /\ pc.at = "recv" /\ ~Reading /\ pc'.ITime = pc.ITime
  BY Moves DEF PcOK, Reading
<1>1. SimProc' = SimProc /\ dvc' = dvc /\ ~Reading' /\ var' = var
  BY <1>0, Fixed
<1>2. SimProc \in Seq(Proc) /\ pc.i \in DOMAIN SimProc
  BY <1>0 DEF PcOK, CountsOK, CountsOf
<1> DEFINE nOut == SimProc[pc.i].nOut
           V(p, outs) == [idx \in DOMAIN data[p] |->
                       IF idx < nOut THEN outs[idx] ELSE IF idx = nOut THEN 0 ELSE data[p][idx]]
<1>3. PICK outs \in [0 .. nOut - 1 -> OutValues] :
        /\ data' = [data EXCEPT ![SimProc[pc.i].Id] = V(SimProc[pc.i].Id, outs)]
        /\ volt' = GetSimuVal(SimProc[pc.i].Id, V(SimProc[pc.i].Id, outs))
  BY DEF RecvOutputs
<1>4. PICK p : p = SimProc[pc.i].Id
  OBVIOUS
<1>5. PICK Vin : Vin = V(p, outs)
  OBVIOUS
<1>6. data' = [data EXCEPT ![p] = Vin] /\ volt' = GetSimuVal(p, Vin)
  BY <1>3, <1>4, <1>5
<1>7. p \in Ids /\ Turn(p) = pc.i
  BY <1>2, <1>4, TurnFacts DEF Ids
<1>8. Vin \in [0 .. Len(dvc) -> Int]
  <2>1. data' \in [Ids -> [0 .. Len(dvc) -> Int]]
    <3>1. Ids' = Ids
      BY <1>1 DEF Ids
    <3> QED BY <1>1, <3>1 DEF DataOK
  <2>2. data'[p] = Vin
    <3>1. DOMAIN data = Ids
      BY <1>0 DEF DataOK
    <3> QED BY <1>6, <1>7, <3>1
  <2> QED BY <1>7, <2>1, <2>2
<1>9. ASSUME NEW q, Turn(q) \in DOMAIN SimProc PROVE Got(q)' <=> Turn(q) <= pc.i
  <2>1. Turn(q)' = Turn(q)
    BY <1>1, TurnSame
  <2>2. Turn(q) \in Nat /\ Turn(q) <= Len(SimProc) /\ pc.i \in Nat
    BY <1>2, <1>9
  <2>3. CASE pc.i = Len(SimProc)
    <3>1. pc'.at = "send"
      BY <1>0, <2>3, Moves
    <3> QED BY <2>2, <2>3, <3>1 DEF Got
  <2>4. CASE pc.i # Len(SimProc)
    <3>1. pc'.at = "recv" /\ pc'.i = pc.i + 1
      BY <1>0, <2>4, Moves
    <3>2. Got(q)' <=> Turn(q) < pc.i + 1
      BY <2>1, <3>1 DEF Got
    <3> QED BY <2>2, <3>2
  <2> QED BY <2>3, <2>4
<1>10. Received(p, Vin)
  BY <1>0, <1>6, <1>7, <1>8, <1>9 DEF Received
<1> QED BY <1>0, <1>1, <1>6, <1>10

\* The terms of a signal after the outputs of p were received: those before, and those of p; none
\* are before its first variable.
LEMMA GatherMore ==
  ASSUME dvc \in Files, PcOK, CountsOK, SignalsOK, DataOK, NEW k \in Kinds, NEW x \in DOMAIN var[k],
         NEW p, NEW Vin, Received(p, Vin), pc'.ITime = pc.ITime, var' = var, ~Reading
  PROVE  /\ Gathered(var[k][x])' = Gathered(var[k][x]) \cup Terms(var[k][x], p, Vin)
         /\ 1 \in Takes(var[k][x], p) => Gathered(var[k][x]) = {}
         /\ Got(var[k][x].VSimIO[1].prono)' =>
              1 \in Takes(var[k][x], p) \/ Got(var[k][x].VSimIO[1].prono)
<1>0. /\ p \in Ids /\ Turn(p) = pc.i /\ pc.at = "recv" /\ data' = [data EXCEPT ![p] = Vin]
      /\ \A q : Turn(q) \in DOMAIN SimProc => (Got(q)' <=> Turn(q) <= pc.i)
      /\ DOMAIN data = Ids
  BY DEF Received, DataOK
<1>1. SimProc \in Seq(Proc) /\ pc.i \in Nat
  BY DEF CountsOK, CountsOf, PcOK, PcType
<1>v. 1 \in DOMAIN var[k][x].VSimIO
  BY SignalFacts
<1>2. PICK s : s = var[k][x]
  OBVIOUS
<1> DEFINE Q == DOMAIN s.VSimIO
           P(w) == s.VSimIO[w].prono
<1>3. \A w \in Q : /\ Turn(P(w)) \in DOMAIN SimProc /\ SimProc[Turn(P(w))].Id = P(w)
                   /\ P(w) \in Ids /\ Turn(P(1)) <= Turn(P(w)) /\ Turn(P(w)) \in Nat
  BY <1>1, <1>2, VarFacts
<1>4. SimProc[Turn(p)].Id = p
  BY <1>0, TurnFacts DEF Ids
<1>5. \A w \in Q : Got(P(w)) <=> Turn(P(w)) < pc.i
  BY <1>0 DEF Got
<1>6. \A w \in Q : P(w) = p <=> Turn(P(w)) = pc.i
  BY <1>0, <1>3, <1>4
<1>7. \A w \in Q : Got(P(w))' <=> Got(P(w)) \/ P(w) = p
  BY <1>0, <1>1, <1>3, <1>5, <1>6
<1>8. ASSUME NEW w \in Q PROVE /\ P(w) = p => TermOf(s.VSimIO[w])' = Term(s.VSimIO[w], Vin)
                               /\ P(w) # p => TermOf(s.VSimIO[w])' = TermOf(s.VSimIO[w])
  <2>1. P(w) = p => data'[P(w)] = Vin
    BY <1>0
  <2>2. P(w) # p => data'[P(w)] = data[P(w)]
    BY <1>0, <1>3
  <2> QED BY <2>1, <2>2 DEF TermOf, Term
<1>9. Gathered(s)' = {TermOf(s.VSimIO[v])' : v \in {w \in Q : Got(P(w))'}}
  BY DEF Gathered
<1>10. Gathered(s) = {TermOf(s.VSimIO[v]) : v \in {w \in Q : Got(P(w))}}
  BY DEF Gathered
<1>11. Terms(s, p, Vin) = {Term(s.VSimIO[j], Vin) : j \in {w \in Q : P(w) = p}}
  BY DEF Terms, Takes
<1>12. Gathered(s)' = Gathered(s) \cup Terms(s, p, Vin)
  <2>1. ASSUME NEW t \in Gathered(s)' PROVE t \in Gathered(s) \cup Terms(s, p, Vin)
    <3>1. PICK w \in Q : Got(P(w))' /\ t = TermOf(s.VSimIO[w])'
      BY <1>9, <2>1
    <3> QED BY <1>5, <1>6, <1>7, <1>8, <1>10, <1>11, <3>1
  <2>2. ASSUME NEW t \in Gathered(s) PROVE t \in Gathered(s)'
    <3>1. PICK w \in Q : Got(P(w)) /\ t = TermOf(s.VSimIO[w])
      BY <1>10, <2>2
    <3>2. P(w) # p
      BY <1>1, <1>3, <1>5, <1>6, <3>1
    <3> QED BY <1>7, <1>8, <1>9, <3>1, <3>2
  <2>3. ASSUME NEW t \in Terms(s, p, Vin) PROVE t \in Gathered(s)'
    <3>1. PICK w \in Q : P(w) = p /\ t = Term(s.VSimIO[w], Vin)
      BY <1>11, <2>3
    <3> QED BY <1>7, <1>8, <1>9, <3>1
  <2> QED BY <2>1, <2>2, <2>3
<1>13. 1 \in Takes(s, p) => Gathered(s) = {}
  <2> SUFFICES ASSUME 1 \in Takes(s, p), NEW t \in Gathered(s) PROVE FALSE
    OBVIOUS
  <2>1. PICK w \in Q : Got(P(w))
    BY <1>10
  <2>2. Turn(P(1)) = pc.i
    BY <1>2, <1>6, <1>v DEF Takes
  <2> QED BY <1>1, <1>3, <1>5, <2>1, <2>2
<1>14. Got(P(1))' => 1 \in Takes(s, p) \/ Got(P(1))
  BY <1>2, <1>7, <1>v DEF Takes
<1>15. Gathered(var[k][x])' = Gathered(s)'
  BY <1>2 
<1> QED BY <1>2, <1>12, <1>13, <1>14, <1>15

\* The terms of a process are finitely many and add numbers.
LEMMA TermsFacts ==
  ASSUME dvc \in Files, CountsOK, SignalsOK, ~Reading, NEW x \in DOMAIN var["AO"],
         NEW p, NEW Vin \in [0 .. Len(dvc) -> Int]
  PROVE  /\ IsFiniteSet(Terms(var["AO"][x], p, Vin))
         /\ \A t \in Terms(var["AO"][x], p, Vin) : t.add \in Int
<1>0. "AO" \in Kinds
  BY DEF Kinds
<1>1. PICK s : s = var["AO"][x]
  OBVIOUS
<1>2. s.VSimIO \in Seq(Simu)
  BY <1>0, <1>1, SignalFacts
<1>3. IsFiniteSet(Takes(s, p))
  <2>1. DOMAIN s.VSimIO = 1 .. Len(s.VSimIO) /\ Len(s.VSimIO) \in Nat
    BY <1>2
  <2>2. IsFiniteSet(1 .. Len(s.VSimIO))
    BY <2>1, FS_Interval
  <2>3. Takes(s, p) \in SUBSET (1 .. Len(s.VSimIO))
    BY <2>1 DEF Takes
  <2> QED BY <2>2, <2>3, FS_Subset
<1>4. IsFiniteSet(Terms(s, p, Vin))
  <2>1. Terms(s, p, Vin) = {Term(s.VSimIO[j], Vin) : j \in Takes(s, p)}
    BY DEF Terms
  <2>2. PICK f : f = [j \in Takes(s, p) |-> Term(s.VSimIO[j], Vin)]
    OBVIOUS
  <2>3. f \in Surjection(Takes(s, p), Terms(s, p, Vin))
    <3>1. f \in [Takes(s, p) -> Terms(s, p, Vin)]
      BY <2>1, <2>2
    <3>2. \A t \in Terms(s, p, Vin) : \E j \in Takes(s, p) : f[j] = t
      BY <2>1, <2>2
    <3> QED BY <3>1, <3>2 DEF Surjection
  <2> QED BY <1>3, <2>3, FS_Surjection
<1>5. ASSUME NEW t \in Terms(s, p, Vin) PROVE t.add \in Int
  <2>1. PICK j \in Takes(s, p) : t = Term(s.VSimIO[j], Vin)
    BY <1>5 DEF Terms
  <2>2. s.VSimIO[j].kamplify \in Int /\ s.VSimIO[j].idxIO \in 0 .. Len(dvc)
    <3>1. j \in DOMAIN var["AO"][x].VSimIO
      BY <1>1 DEF Takes
    <3> QED BY <1>0, <1>1, <3>1, VarFacts
  <2>3. t.add = s.VSimIO[j].kamplify * Vin[s.VSimIO[j].idxIO]
    BY <2>1 DEF Term
  <2> QED BY <2>2, <2>3
<1> QED BY <1>1, <1>4, <1>5

\* The word of a number is a number.
LEMMA DoWordType ==
  ASSUME NEW v \in Int
  PROVE  DoWord(v) \in Int
<1>1. v \div 4 \in Int /\ v % 4 \in Int
  OBVIOUS
<1> QED BY <1>1 DEF DoWord, Unit, High

\* The word of a DO after the outputs of p were received.
LEMMA WordOf ==
  ASSUME dvc \in Files, PcOK, CountsOK, SignalsOK, DataOK, NEW x \in DOMAIN var["DO"],
         NEW p, NEW Vin, Received(p, Vin), var' = var, ~Reading
  PROVE  /\ DoWord(Vin[var["DO"][x].VSimIO[1].idxIO]) \in Int
         /\ 1 \in Takes(var["DO"][x], p) =>
              Word(var["DO"][x])' = DoWord(Vin[var["DO"][x].VSimIO[1].idxIO])
         /\ 1 \notin Takes(var["DO"][x], p) =>
              /\ Word(var["DO"][x])' = Word(var["DO"][x])
              /\ Got(var["DO"][x].VSimIO[1].prono)' => Got(var["DO"][x].VSimIO[1].prono)
<1>0. "DO" \in Kinds /\ SimProc \in Seq(Proc) /\ pc.i \in Nat
  BY DEF Kinds, CountsOK, CountsOf, PcOK, PcType
<1>1. PICK s : s = var["DO"][x]
  OBVIOUS
<1>2. 1 \in DOMAIN s.VSimIO
  BY <1>0, <1>1, SignalFacts
<1>3. PICK v : v = s.VSimIO[1]
  OBVIOUS
<1>4. /\ Turn(v.prono) \in DOMAIN SimProc /\ SimProc[Turn(v.prono)].Id = v.prono
      /\ v.prono \in Ids /\ v.idxIO \in 0 .. Len(dvc)
  BY <1>0, <1>1, <1>2, <1>3, VarFacts
<1>5. /\ p \in Ids /\ Turn(p) = pc.i /\ pc.at = "recv" /\ data' = [data EXCEPT ![p] = Vin]
      /\ \A q : Turn(q) \in DOMAIN SimProc => (Got(q)' <=> Turn(q) <= pc.i)
      /\ DOMAIN data = Ids /\ Vin \in [0 .. Len(dvc) -> Int]
  BY DEF Received, DataOK
<1>6. DoWord(Vin[v.idxIO]) \in Int
  <2>1. Vin[v.idxIO] \in Int
    BY <1>4, <1>5
  <2> QED BY <2>1, DoWordType
<1>7. 1 \in Takes(s, p) <=> v.prono = p
  BY <1>2, <1>3 DEF Takes
<1>8. Word(s) = DoWord(data[v.prono][v.idxIO]) /\ Word(s)' = DoWord(data'[v.prono][v.idxIO])
  BY <1>3 DEF Word
<1>9. v.prono = p => Word(s)' = DoWord(Vin[v.idxIO])
  <2>1. v.prono = p => data'[v.prono] = Vin
    BY <1>5
  <2> QED BY <1>8, <2>1
<1>10. v.prono # p => Word(s)' = Word(s)
  <2>1. v.prono # p => data'[v.prono] = data[v.prono]
    BY <1>4, <1>5
  <2> QED BY <1>8, <2>1
<1>11. v.prono # p /\ Got(v.prono)' => Got(v.prono)
  <2>1. SimProc[Turn(p)].Id = p
    BY <1>5, TurnFacts DEF Ids
  <2>2. v.prono # p => Turn(v.prono) # pc.i
    BY <1>4, <1>5, <2>1
  <2>3. Turn(v.prono) \in Nat
    BY <1>0, <1>4
  <2> QED BY <1>0, <1>4, <1>5, <2>2, <2>3 DEF Got
<1>12. Word(var["DO"][x])' = Word(s)' /\ Word(var["DO"][x]) = Word(s)
  BY <1>1
<1> QED BY <1>1, <1>3, <1>6, <1>7, <1>9, <1>10, <1>11, <1>12

\* From the arrival of its first variable on, an output is the sum of the terms that came in this
\* step, or the word of the datum.
LEMMA VoltStep ==
  ASSUME dvc \in Files, PcOK, CountsOK, SignalsOK, RxOK, DataOK, DataOK', VoltOK, [Next]_vars
  PROVE  VoltOK'
<1>0. pc \in PcType /\ "AO" \in Kinds /\ "DO" \in Kinds
  BY DEF PcOK, Kinds
<1> DEFINE Sums(v) == /\ v = [AO |-> v.AO, DO |-> v.DO]
                      /\ DOMAIN v.AO = DOMAIN var["AO"] /\ DOMAIN v.DO = DOMAIN var["DO"]
                      /\ \A x \in DOMAIN var["AO"] : /\ IsFiniteSet(v.AO[x])
                                                     /\ \A t \in v.AO[x] : t.add \in Int
                      /\ \A x \in DOMAIN var["DO"] : v.DO[x] \in Int
           Gets == /\ \A x \in DOMAIN var["AO"] :
                        Got(var["AO"][x].VSimIO[1].prono)' => volt'.AO[x] = Gathered(var["AO"][x])'
                   /\ \A x \in DOMAIN var["DO"] :
                        Got(var["DO"][x].VSimIO[1].prono)' => volt'.DO[x] = Word(var["DO"][x])'
<1>s. ~Reading => Sums(volt)
  BY DEF VoltOK
<1>g. ~Reading => /\ \A x \in DOMAIN var["AO"] :
                       Got(var["AO"][x].VSimIO[1].prono) => volt.AO[x] = Gathered(var["AO"][x])
                  /\ \A x \in DOMAIN var["DO"] :
                       Got(var["DO"][x].VSimIO[1].prono) => volt.DO[x] = Word(var["DO"][x])
  BY DEF VoltOK
<1>e. ASSUME var' = var, Sums(volt'), Gets PROVE VoltOK'
  BY <1>e DEF VoltOK
<1>1. CASE AllocBuf
  <2>1. pc'.at = "AI" /\ var' = var
    BY <1>0, <1>1, Moves DEF AllocBuf, config
  <2>2. volt' = [AO |-> [x \in DOMAIN var["AO"] |-> {}], DO |-> [x \in DOMAIN var["DO"] |-> 0]]
    BY <1>1 DEF AllocBuf
  <2>3. Sums(volt')
    <3>1. IsFiniteSet({})
      BY FS_EmptySet
    <3> QED BY <2>2, <3>1
  <2>4. Gets
    BY <2>1 DEF Got
  <2> QED BY <1>e, <2>1, <2>3, <2>4
<1>2. CASE RecvOutputs
  <2>1. PICK p, Vin : Received(p, Vin) /\ volt' = GetSimuVal(p, Vin)
    BY <1>2, ReceivedFacts
  <2>2. pc'.ITime = pc.ITime /\ ~Reading /\ var' = var /\ Vin \in [0 .. Len(dvc) -> Int]
    BY <1>2, <2>1, ReceivedFacts DEF Received
  <2>3. /\ volt' = [AO |-> volt'.AO, DO |-> volt'.DO]
        /\ volt'.AO = [x \in DOMAIN var["AO"] |->
                        IF 1 \in Takes(var["AO"][x], p) THEN Terms(var["AO"][x], p, Vin)
                        ELSE volt.AO[x] \cup Terms(var["AO"][x], p, Vin)]
        /\ volt'.DO = [x \in DOMAIN var["DO"] |->
                        IF 1 \in Takes(var["DO"][x], p)
                        THEN DoWord(Vin[var["DO"][x].VSimIO[1].idxIO]) ELSE volt.DO[x]]
    BY <2>1 DEF GetSimuVal
  <2>4. Sums(volt')
    <3>1. ASSUME NEW x \in DOMAIN var["AO"]
          PROVE  IsFiniteSet(volt'.AO[x]) /\ \A t \in volt'.AO[x] : t.add \in Int
      <4>1. /\ IsFiniteSet(Terms(var["AO"][x], p, Vin))
            /\ \A t \in Terms(var["AO"][x], p, Vin) : t.add \in Int
        BY <2>2, TermsFacts
      <4>2. IsFiniteSet(volt.AO[x]) /\ \A t \in volt.AO[x] : t.add \in Int
        BY <1>s, <2>2
      <4>3. IsFiniteSet(volt.AO[x] \cup Terms(var["AO"][x], p, Vin))
        BY <4>1, <4>2, FS_Union
      <4> QED BY <2>3, <4>1, <4>2, <4>3
    <3>2. \A x \in DOMAIN var["DO"] : volt'.DO[x] \in Int
      <4>1. \A x \in DOMAIN var["DO"] : DoWord(Vin[var["DO"][x].VSimIO[1].idxIO]) \in Int
        BY <2>1, <2>2, WordOf
      <4> QED BY <1>s, <2>2, <2>3, <4>1
    <3>3. DOMAIN volt'.AO = DOMAIN var["AO"] /\ DOMAIN volt'.DO = DOMAIN var["DO"]
      BY <2>3
    <3> QED BY <2>3, <3>1, <3>2, <3>3
  <2>5. Gets
    <3>1. ASSUME NEW x \in DOMAIN var["AO"], Got(var["AO"][x].VSimIO[1].prono)'
          PROVE  volt'.AO[x] = Gathered(var["AO"][x])'
      <4>1. /\ Gathered(var["AO"][x])' = Gathered(var["AO"][x]) \cup Terms(var["AO"][x], p, Vin)
            /\ 1 \in Takes(var["AO"][x], p) => Gathered(var["AO"][x]) = {}
            /\ 1 \in Takes(var["AO"][x], p) \/ Got(var["AO"][x].VSimIO[1].prono)
        BY <1>0, <2>1, <2>2, <3>1, GatherMore
      <4>2. CASE 1 \in Takes(var["AO"][x], p)
        BY <2>3, <4>1, <4>2
      <4>3. CASE 1 \notin Takes(var["AO"][x], p)
        BY <1>g, <2>2, <2>3, <4>1, <4>3
      <4> QED BY <4>2, <4>3
    <3>2. ASSUME NEW x \in DOMAIN var["DO"], Got(var["DO"][x].VSimIO[1].prono)'
          PROVE  volt'.DO[x] = Word(var["DO"][x])'
      <4>1. /\ 1 \in Takes(var["DO"][x], p) =>
                 Word(var["DO"][x])' = DoWord(Vin[var["DO"][x].VSimIO[1].idxIO])
            /\ 1 \notin Takes(var["DO"][x], p) =>
                 /\ Word(var["DO"][x])' = Word(var["DO"][x])
                 /\ Got(var["DO"][x].VSimIO[1].prono)
        BY <2>1, <2>2, <3>2, WordOf
      <4> QED BY <1>g, <2>2, <2>3, <4>1
    <3> QED BY <3>1, <3>2
  <2> QED BY <1>e, <2>2, <2>4, <2>5
<1>3. CASE ~AllocBuf /\ ~RecvOutputs
  <2> SUFFICES ASSUME ~Reading' PROVE VoltOK'
    BY DEF VoltOK
  <2>1. volt' = volt /\ ~Reading /\ var' = var /\ dvc' = dvc
    BY <1>0, <1>3, Leaving, Writes
  <2>2. Gets
    <3>1. CASE pc'.ITime = pc.ITime /\ data' = data /\ \A p : Got(p)' <=> Got(p)
      <4>1. ASSUME NEW x \in DOMAIN var["AO"]
            PROVE  Gathered(var["AO"][x])' = Gathered(var["AO"][x])
        <5>1. PICK s : s = var["AO"][x]
          OBVIOUS
        <5>2. \A v : TermOf(v)' = TermOf(v)
          BY <3>1 DEF TermOf, Term
        <5>3. Gathered(s)' = {TermOf(s.VSimIO[v])' :
                                v \in {w \in DOMAIN s.VSimIO : Got(s.VSimIO[w].prono)'}}
          BY DEF Gathered
        <5>4. Gathered(s)' = Gathered(s)
          BY <3>1, <5>2, <5>3 DEF Gathered
        <5>5. Gathered(var["AO"][x])' = Gathered(s)'
          BY <2>1, <5>1
        <5> QED BY <5>1, <5>4, <5>5
      <4>2. \A x \in DOMAIN var["DO"] : Word(var["DO"][x])' = Word(var["DO"][x])
        BY <2>1, <3>1 DEF Word
      <4>3. \A k \in Kinds : \A x \in DOMAIN var[k] :
              Got(var[k][x].VSimIO[1].prono)' <=> Got(var[k][x].VSimIO[1].prono)
        <5> SUFFICES ASSUME NEW k \in Kinds, NEW x \in DOMAIN var[k]
                     PROVE Got(var[k][x].VSimIO[1].prono)' <=> Got(var[k][x].VSimIO[1].prono)
          OBVIOUS
        <5>1. PICK p : p = var[k][x].VSimIO[1].prono
          OBVIOUS
        <5>2. Got(p)' <=> Got(p)
          BY <3>1
        <5>3. Got(var[k][x].VSimIO[1].prono)' <=> Got(p)'
          BY <2>1, <5>1
        <5> QED BY <5>1, <5>2, <5>3
      <4> QED BY <1>0, <1>g, <2>1, <4>1, <4>2, <4>3
    <3>2. CASE \A p : Turn(p) \in DOMAIN SimProc => ~Got(p)'
      <4>1. ASSUME NEW k \in Kinds, NEW x \in DOMAIN var[k] PROVE ~Got(var[k][x].VSimIO[1].prono)'
        <5>1. PICK p : p = var[k][x].VSimIO[1].prono
          OBVIOUS
        <5>2. 1 \in DOMAIN var[k][x].VSimIO
          BY SignalFacts
        <5>3. Turn(var[k][x].VSimIO[1].prono) \in DOMAIN SimProc
          BY <2>1, <5>2, VarFacts
        <5>4. ~Got(p)'
          BY <3>2, <5>1, <5>3
        <5>5. Got(var[k][x].VSimIO[1].prono)' <=> Got(p)'
          BY <2>1, <5>1
        <5> QED BY <5>4, <5>5
      <4> QED BY <1>0, <4>1
    <3> QED BY <1>3, <2>1, <3>1, <3>2, GotStep
  <2> QED BY <1>e, <1>s, <2>1, <2>2
<1> QED BY <1>1, <1>2, <1>3

-----------------------------------------------------------------------------
(* The words of the outputs. *)

\* The word of an AO is one of the converter, whatever is added up.
LEMMA AoWordType ==
  ASSUME NEW T, IsFiniteSet(T), \A t \in T : t.add \in Int
  PROVE  AoWord(T) \in 0 .. AoTop
<1>1. Sum(T) \in Int
  BY SumTyped
<1>2. ASSUME NEW v \in Int PROVE Clip(v) \in 0 .. 4
  BY DEF Clip, AoTop
<1>3. Sum(T) + 2 \in Int
  BY <1>1
<1> QED BY <1>2, <1>3 DEF AoWord, AoRest, AoTop

\* A signal of kind k is of a card of kind k.
LEMMA SignalCard ==
  ASSUME dvc \in Files, SignalsOK, NEW k \in Kinds, NEW x \in DOMAIN var[k]
  PROVE  Card[var[k][x].slot] = k
<1>1. SignalOK(var[k][x], k, Filed)
  BY SignalFacts
<1>2. PICK j \in Filed \cap Shares(k, var[k][x].idno) : var[k][x].slot = dvc[j].slot
  BY <1>1 DEF SignalOK
<1>3. j \in DOMAIN dvc /\ dvc[j].kind = k
  BY <1>2 DEF Shares
<1> QED BY <1>2, <1>3, LineFacts

\* What GrpWrite of kind k writes to a channel: the last signal of the channel, if the group is
\* that of the signals.
WrittenBy(k, s, c) == IF Len(var[k]) = dev.count[k] THEN At(k, s, c) ELSE {}

LEMMA WrittenFacts ==
  ASSUME dvc \in Files, SignalsOK, NEW k \in Kinds, NEW s \in Slots, NEW c \in Chans,
         WrittenBy(k, s, c) # {}
  PROVE  /\ Max(WrittenBy(k, s, c)) \in At(k, s, c)
         /\ At(k, s, c) \subseteq DOMAIN var[k] /\ Len(var[k]) = dev.count[k]
         /\ Card[s] = k
<1>1. WrittenBy(k, s, c) = At(k, s, c) /\ Len(var[k]) = dev.count[k]
  BY DEF WrittenBy
<1>2. At(k, s, c) \in SUBSET (1 .. Len(var[k])) /\ Len(var[k]) \in Nat
      /\ DOMAIN var[k] = 1 .. Len(var[k])
  BY SignalFacts DEF At
<1>3. Max(At(k, s, c)) \in At(k, s, c)
  BY <1>1, <1>2, MaxOf
<1>4. PICK x \in DOMAIN var[k] : var[k][x].slot = s
  BY <1>3 DEF At
<1> QED BY <1>1, <1>2, <1>3, <1>4, SignalCard

LEMMA WrittenIs ==
  ASSUME dvc \in Files, SignalsOK, NEW s \in Slots, NEW c \in Chans
  PROVE  Written(s, c) = IF WrittenBy("AO", s, c) # {} THEN AoWord(volt.AO[Max(WrittenBy("AO", s, c))])
                         ELSE IF WrittenBy("DO", s, c) # {} THEN volt.DO[Max(WrittenBy("DO", s, c))]
                         ELSE out[s][c]
<1>1. \A k : GroupWord(k, s, c) = At(k, s, c)
  BY DEF GroupWord, At
<1>2. Written(s, c) = CASE WrittenBy("AO", s, c) # {} -> AoWord(volt.AO[Max(WrittenBy("AO", s, c))])
                       [] WrittenBy("DO", s, c) # {} -> volt.DO[Max(WrittenBy("DO", s, c))]
                       [] OTHER -> out[s][c]
  BY <1>1 DEF Written, WrittenBy
<1>3. WrittenBy("AO", s, c) = {} \/ WrittenBy("DO", s, c) = {}
  <2>1. "AO" \in Kinds /\ "DO" \in Kinds /\ "AO" # "DO"
    BY DEF Kinds
  <2> QED BY <2>1, WrittenFacts
<1> QED BY <1>2, <1>3

LEMMA WordsStep ==
  ASSUME dvc \in Files, PcOK, CountsOK, SignalsOK, DevOK, VoltOK, WordsOK, [Next]_vars
  PROVE  WordsOK'
<1>0. pc \in PcType /\ "AO" \in Kinds /\ "DO" \in Kinds /\ "AO" # "DO"
  BY DEF PcOK, Kinds
<1>w. /\ out \in [Slots -> [Chans -> Int]]
      /\ \A s \in Slots, c \in Chans : Card[s] = "AO" => out[s][c] \in 0 .. AoTop
  BY DEF WordsOK
<1>1. CASE \E k \in Kinds : InitClass(k)
  <2>1. PICK k \in Kinds : InitClass(k)
    BY <1>1
  <2>2. PICK answered \in SUBSET Slots, info \in [Slots -> Kinds \cup {"NO"}], good \in BOOLEAN :
          Answered(k, answered, info, good)
    BY <2>1, InitClassMoves
  <2>3. out' = [s \in Slots |-> IF s \in answered /\ Card[s] = "AO" THEN [c \in Chans |-> AoRest]
                                ELSE out[s]]
    BY <2>2 DEF Answered
  <2>4. [c \in Chans |-> AoRest] \in [Chans -> Int] /\ AoRest \in 0 .. AoTop
    BY DEF AoRest, AoTop
  <2>5. \A s \in Slots : out'[s] = [c \in Chans |-> AoRest] \/ out'[s] = out[s]
    BY <2>3
  <2>6. out' \in [Slots -> [Chans -> Int]]
    BY <1>w, <2>3, <2>4
  <2>7. \A s \in Slots, c \in Chans : Card[s] = "AO" => out'[s][c] \in 0 .. AoTop
    BY <1>w, <2>4, <2>5
  <2> QED BY <2>6, <2>7 DEF WordsOK
<1>2. CASE SenddataToPID /\ out' # out
  <2>1. pc.at = "send" /\ out' = [s \in Slots |-> [c \in Chans |-> Written(s, c)]]
    BY <1>2 DEF SenddataToPID
  <2>2. ~Reading
    BY <2>1 DEF Reading
  <2>3. ASSUME NEW s \in Slots, NEW c \in Chans
        PROVE  Written(s, c) \in Int /\ (Card[s] = "AO" => Written(s, c) \in 0 .. AoTop)
    <3>1. CASE WrittenBy("AO", s, c) # {}
      <4>1. PICK x \in DOMAIN var["AO"] : x = Max(WrittenBy("AO", s, c))
        BY <1>0, <3>1, WrittenFacts
      <4>2. IsFiniteSet(volt.AO[x]) /\ \A t \in volt.AO[x] : t.add \in Int
        BY <2>2 DEF VoltOK
      <4>3. AoWord(volt.AO[x]) \in 0 .. AoTop
        BY <4>2, AoWordType
      <4>4. Written(s, c) = AoWord(volt.AO[x])
        BY <3>1, <4>1, WrittenIs
      <4> QED BY <4>3, <4>4 DEF AoTop
    <3>2. CASE WrittenBy("AO", s, c) = {} /\ WrittenBy("DO", s, c) # {}
      <4>1. PICK x \in DOMAIN var["DO"] : x = Max(WrittenBy("DO", s, c))
        BY <1>0, <3>2, WrittenFacts
      <4>2. volt.DO[x] \in Int
        BY <2>2 DEF VoltOK
      <4>3. Written(s, c) = volt.DO[x]
        BY <3>2, <4>1, WrittenIs
      <4>4. Card[s] = "DO"
        BY <1>0, <3>2, WrittenFacts
      <4> QED BY <1>0, <4>2, <4>3, <4>4
    <3>3. CASE WrittenBy("AO", s, c) = {} /\ WrittenBy("DO", s, c) = {}
      <4>1. Written(s, c) = out[s][c]
        BY <3>3, WrittenIs
      <4> QED BY <1>w, <4>1
    <3> QED BY <3>1, <3>2, <3>3
  <2> QED BY <2>1, <2>3 DEF WordsOK
<1>3. CASE out' = out
  BY <1>w, <1>3 DEF WordsOK
<1> QED BY <1>1, <1>2, <1>3, Writes

LEMMA RestStep ==
  ASSUME dvc \in Files, PcOK, CountsOK, SignalsOK, DevOK, DevOK', RestOK, [Next]_vars
  PROVE  RestOK'
<1>0. /\ pc \in PcType /\ "AO" \in Kinds /\ "DO" \in Kinds /\ "AO" # "DO"
      /\ \A s \in Slots : dev.card_type[s] \in {"NO", Card[s]} /\ Card[s] \in Kinds
      /\ \A s \in Slots : Card[s] # "NO"
  <2>1. "NO" \notin Kinds
    BY DEF Kinds
  <2>2. \A s \in Slots : Card[s] \in Kinds
    BY BoxDataAssumption
  <2>3. \A s \in Slots : dev.card_type[s] \in {"NO", Card[s]}
    BY DEF DevOK
  <2>4. pc \in PcType /\ "AO" \in Kinds /\ "DO" \in Kinds /\ "AO" # "DO"
    BY DEF PcOK, Kinds
  <2> QED BY <2>1, <2>2, <2>3, <2>4
<1>r. ~Simulating' => ~Simulating
  BY <1>0, Simulates
<1> DEFINE Setting == \A s \in Slots, c \in Chans :
                        (dev.card_type[s] = "NO" /\ Card[s] = "AO") \/ out[s][c] = Rest(s)
           Still == \A s \in Slots, c \in Chans :
                      /\ dev.card_type[s] \in {"AO", "DO"}
                      /\ ret[Card[s]] = 0 => At(Card[s], s, c) = {}
                      => out[s][c] = Rest(s)
<1>s. (~Simulating => Setting) /\ Still
  BY DEF RestOK
<1>e. ASSUME Setting' PROVE RestOK'
  <2>1. \A s \in Slots, c \in Chans :
          dev'.card_type[s] \in {"AO", "DO"} => out'[s][c] = Rest(s)
    BY <1>e
  <2>2. \A s \in Slots, c \in Chans :
          (dev'.card_type[s] = "NO" /\ Card[s] = "AO") \/ out'[s][c] = Rest(s)
    BY <1>e
  <2> QED BY <2>1, <2>2 DEF RestOK
<1>f. ASSUME var' = var, dev' = dev, ret' = ret, ~Simulating' => Setting',
             \A s \in Slots, c \in Chans :
               /\ dev.card_type[s] \in {"AO", "DO"}
               /\ ret[Card[s]] = 0 => At(Card[s], s, c) = {}
               => out'[s][c] = Rest(s)
      PROVE RestOK'
  <2>1. \A k, s, c : At(k, s, c)' = At(k, s, c)
    BY <1>f DEF At
  <2> QED BY <1>f, <2>1 DEF RestOK
<1>1. CASE \E k \in Kinds : InitClass(k)
  <2>1. PICK k \in Kinds : InitClass(k)
    BY <1>1
  <2>2. PICK answered \in SUBSET Slots, info \in [Slots -> Kinds \cup {"NO"}], good \in BOOLEAN :
          Answered(k, answered, info, good)
    BY <2>1, InitClassMoves
  <2>3. /\ out' = [s \in Slots |-> IF s \in answered /\ Card[s] = "AO" THEN [c \in Chans |-> AoRest]
                                   ELSE out[s]]
        /\ dev'.card_type = [s \in Slots |-> IF s \in answered THEN Card[s] ELSE dev.card_type[s]]
    BY <2>2 DEF Answered
  <2>4. Setting
    <3>1. ~Simulating
      BY <1>0, <2>1, Moves DEF Simulating, Kinds
    <3> QED BY <1>s, <3>1
  <2>5. Setting'
    <3>1. ASSUME NEW s \in Slots, NEW c \in Chans
          PROVE  (dev'.card_type[s] = "NO" /\ Card[s] = "AO") \/ out'[s][c] = Rest(s)
      <4>1. CASE s \in answered /\ Card[s] = "AO"
        BY <2>3, <4>1 DEF Rest
      <4>2. CASE s \in answered /\ Card[s] # "AO"
        <5>1. out'[s][c] = out[s][c]
          BY <2>3, <4>2
        <5> QED BY <2>4, <4>2, <5>1
      <4>3. CASE s \notin answered
        <5>1. out'[s][c] = out[s][c] /\ dev'.card_type[s] = dev.card_type[s]
          BY <2>3, <4>3
        <5> QED BY <2>4, <5>1
      <4> QED BY <4>1, <4>2, <4>3
    <3>2. \A s : Rest(s)' = Rest(s)
      BY DEF Rest
    <3> QED BY <3>1, <3>2
  <2> QED BY <1>e, <2>5
<1>2. CASE SenddataToPID
  <2>1. pc.at = "send" /\ var' = var /\ dev' = dev /\ ret' = ret /\ pc'.at = "end"
    BY <1>0, <1>2, Moves DEF SenddataToPID, config
  <2>2. Simulating'
    BY <2>1 DEF Simulating
  <2>3. ASSUME NEW s \in Slots, NEW c \in Chans, dev.card_type[s] \in {"AO", "DO"},
               ret[Card[s]] = 0 => At(Card[s], s, c) = {}
        PROVE  out'[s][c] = Rest(s)
    <3>1. out[s][c] = Rest(s)
      BY <1>s, <2>3
    <3>2. CASE out' = out
      BY <3>1, <3>2
    <3>3. CASE out' # out
      <4>1. out' = [t \in Slots |-> [d \in Chans |-> Written(t, d)]]
        BY <1>2, <3>3 DEF SenddataToPID
      <4>2. ASSUME NEW k \in {"AO", "DO"} PROVE WrittenBy(k, s, c) = {}
        <5> SUFFICES ASSUME WrittenBy(k, s, c) # {} PROVE FALSE
          OBVIOUS
        <5>0. k \in Kinds
          BY <1>0
        <5>1. /\ Max(WrittenBy(k, s, c)) \in At(k, s, c) /\ At(k, s, c) \subseteq DOMAIN var[k]
              /\ Len(var[k]) = dev.count[k] /\ Card[s] = k
          BY <5>0, WrittenFacts
        <5>2. ret[k] # 0
          BY <2>3, <5>1
        <5>3. dev.count[k] = 0
          BY <5>0, <5>2 DEF DevOK
        <5>4. DOMAIN var[k] = 1 .. Len(var[k])
          BY <5>0, SignalFacts
        <5>5. DOMAIN var[k] = {}
          BY <5>1, <5>3, <5>4
        <5> QED BY <5>1, <5>5
      <4>3. Written(s, c) = out[s][c]
        BY <4>2, WrittenIs
      <4> QED BY <3>1, <4>1, <4>3
    <3> QED BY <3>2, <3>3
  <2> QED BY <1>f, <2>1, <2>2, <2>3
<1>3. CASE out' = out /\ ~(\E k \in Kinds : InitClass(k))
  <2>1. dev' = dev /\ ret' = ret
    <3>1. ReadLine \/ FileLine \/ ProcDone \/ AllocBuf \/ RxFrame \/ RxStore \/ getSignal_NextDT
          => dev' = dev /\ ret' = ret
      BY DEF ReadLine, FileLine, ProcDone, AllocBuf, RxFrame, RxStore, getSignal_NextDT, config
    <3>2. \A k : NoSignals(k) => dev' = dev /\ ret' = ret
      BY DEF NoSignals, config
    <3>3. \A at, k : ReadWord(at, k) => dev' = dev /\ ret' = ret
      BY DEF ReadWord, config
    <3>4. \A at, k, next : EndRead(at, k, next) => dev' = dev /\ ret' = ret
      BY DEF EndRead, config
    <3>5. SendInputs \/ RecvOutputs \/ SenddataToPID \/ EndStep \/ UNCHANGED vars => dev' = dev /\ ret' = ret
      BY DEF SendInputs, RecvOutputs, SenddataToPID, EndStep, vars, config
    <3> QED BY <1>3, <3>1, <3>2, <3>3, <3>4, <3>5, Actions
  <2>2. \A s : Rest(s)' = Rest(s)
    BY DEF Rest
  <2>3. Setting => Setting'
    BY <1>3, <2>1, <2>2
  <2>4. CASE Reading
    <3>1. ~Simulating
      BY <2>4 DEF Reading, Simulating
    <3> QED BY <1>e, <1>s, <2>3, <3>1
  <2>5. CASE ~Reading
    <3>1. var' = var
      BY <1>0, <2>5, Fixed
    <3>2. ~Simulating' => Setting'
      BY <1>r, <1>s, <2>3
    <3> HIDE DEF Setting
    <3> QED BY <1>3, <1>f, <1>s, <2>1, <3>1, <3>2
  <2> QED BY <2>4, <2>5
<1> QED BY <1>1, <1>2, <1>3, Writes

\* A frame sent has the words of the channels, and a signal that is alone at its channel its own.
LEMMA SentStep ==
  ASSUME dvc \in Files, PcOK, SignalsOK, DevOK, WordsOK, SentOK, [Next]_vars
  PROVE  SentOK'
<1>0. /\ pc \in PcType /\ pc.ITime \in Nat /\ "AO" \in Kinds /\ "DO" \in Kinds
      /\ SenddataToPID \/ EndStep => ~Reading
  BY Moves DEF PcOK, PcType, Kinds, Reading
<1>s. /\ sent.step \in 0 .. pc.ITime /\ (pc.at \notin {"end", "done"} => sent.step < pc.ITime)
      /\ sent.step \in Int
  BY <1>0 DEF SentOK
<1>1. CASE SenddataToPID
  <2>1. /\ pc.at = "send" /\ pc'.at = "end" /\ pc'.ITime = pc.ITime
        /\ var' = var /\ dev' = dev /\ ret' = ret /\ volt' = volt
    BY <1>0, <1>1, Moves DEF SenddataToPID, config
  <2>2. CASE pc.ITime >= FirstStep
    <3>1. /\ out' = [s \in Slots |-> [c \in Chans |-> Written(s, c)]]
          /\ sent' = [step |-> pc.ITime,
                      word |-> [s \in {t \in Slots : dev.card_mode[t] # 0
                                                     /\ dev.card_type[t] \in {"AO", "DO"}} |-> out'[s]]]
      BY <1>1, <2>2 DEF SenddataToPID
    <3>2. ASSUME NEW k \in {"AO", "DO"}, NEW x \in DOMAIN var[k], Alone(k, x)
          PROVE  out'[var[k][x].slot][var[k][x].chan] =
                   IF k = "AO" THEN AoWord(volt.AO[x]) ELSE volt.DO[x]
      <4>1. PICK s \in Slots, c \in Chans : s = var[k][x].slot /\ c = var[k][x].chan
        BY <1>0, SignalFacts
      <4>2. WrittenBy(k, s, c) = {x}
        BY <3>2, <4>1 DEF Alone, WrittenBy
      <4>3. Max(WrittenBy(k, s, c)) = x /\ Card[s] = k
        <5>1. Max(WrittenBy(k, s, c)) \in At(k, s, c) /\ Card[s] = k
          BY <1>0, <4>2, WrittenFacts
        <5>2. At(k, s, c) = {x}
          BY <3>2, <4>1 DEF Alone
        <5> QED BY <5>1, <5>2
      <4>4. k = "DO" => WrittenBy("AO", s, c) = {}
        BY <1>0, <4>3, WrittenFacts
      <4>5. Written(s, c) = IF k = "AO" THEN AoWord(volt.AO[x]) ELSE volt.DO[x]
        BY <4>2, <4>3, <4>4, WrittenIs
      <4> QED BY <3>1, <4>1, <4>5
    <3>3. \A k, x : Alone(k, x)' <=> Alone(k, x)
      BY <2>1 DEF Alone, At
    <3>4. /\ \A x \in DOMAIN var'["AO"] : Alone("AO", x)' =>
              out'[var'["AO"][x].slot][var'["AO"][x].chan] = AoWord(volt.AO[x])
          /\ \A x \in DOMAIN var'["DO"] : Alone("DO", x)' =>
              out'[var'["DO"][x].slot][var'["DO"][x].chan] = volt.DO[x]
      BY <2>1, <3>2, <3>3
    <3>5. \A x : AoWord(volt.AO[x])' = AoWord(volt.AO[x])
      BY <2>1
    <3>6. sent'.step = pc.ITime /\ sent'.word = [s \in {t \in Slots : dev.card_mode[t] # 0
                                                     /\ dev.card_type[t] \in {"AO", "DO"}} |-> out'[s]]
      BY <3>1
    <3>7. /\ \A x \in DOMAIN var'["AO"] : Alone("AO", x)' =>
              out'[var'["AO"][x].slot][var'["AO"][x].chan] = AoWord(volt.AO[x])'
          /\ \A x \in DOMAIN var'["DO"] : Alone("DO", x)' =>
              out'[var'["DO"][x].slot][var'["DO"][x].chan] = volt'.DO[x]
      BY <2>1, <3>4, <3>5
    <3>8. sent'.step \in 0 .. pc'.ITime /\ pc'.at \in {"end", "done"}
      BY <1>0, <2>1, <3>6
    <3> QED BY <2>1, <3>6, <3>7, <3>8 DEF SentOK
  <2>3. CASE ~(pc.ITime >= FirstStep)
    <3>1. sent' = sent
      BY <1>1, <2>3 DEF SenddataToPID
    <3>2. ~FrameSent'
      BY <1>s, <1>0, <2>1, <3>1 DEF FrameSent
    <3> QED BY <1>s, <2>1, <3>1, <3>2 DEF SentOK
  <2> QED BY <2>2, <2>3
<1>2. CASE EndStep
  <2>1. pc.at = "end" /\ sent' = sent
        /\ IF pc.ITime = Steps THEN pc'.at = "done" /\ pc'.ITime = pc.ITime
           ELSE pc'.at = "step" /\ pc'.ITime = pc.ITime + 1
    BY <1>0, <1>2, Moves DEF EndStep
  <2>2. ~FrameSent'
    BY <2>1 DEF FrameSent
  <2>3. sent.step \in 0 .. pc'.ITime /\ (pc'.at \notin {"end", "done"} => sent.step < pc'.ITime)
    BY <1>0, <1>s, <2>1
  <2> QED BY <2>1, <2>2, <2>3 DEF SentOK
<1>3. CASE ~SenddataToPID /\ ~EndStep
  <2>1. sent' = sent
    BY <1>3, Writes
  <2>2. /\ pc'.ITime = pc.ITime
        /\ pc'.at \in {"end", "done"} <=> pc.at \in {"end", "done"}
        /\ pc.at \in {"end", "done"} => pc' = pc /\ UNCHANGED <<var, dev, ret, volt, out>>
    <3>1. RxFrame \/ RxStore \/ UNCHANGED vars => pc' = pc /\ UNCHANGED <<var, dev, ret, volt, out>>
      BY DEF RxFrame, RxStore, config, vars
    <3>2. ReadLine \/ FileLine \/ ProcDone \/ AllocBuf \/ getSignal_NextDT
          => /\ pc'.ITime = pc.ITime
             /\ pc'.at \notin {"end", "done"} /\ pc.at \notin {"end", "done"}
      BY <1>0, Moves
    <3>3. ASSUME NEW k \in Kinds, NoSignals(k) \/ InitClass(k)
          PROVE  /\ pc'.ITime = pc.ITime
                 /\ pc'.at \notin {"end", "done"} /\ pc.at \notin {"end", "done"}
      <4>1. After(k) \in {"AO", "DI", "DO", "step"}
        BY DEF After, Kinds
      <4>2. k \notin {"end", "done"}
        BY DEF Kinds
      <4> QED BY <1>0, <3>3, <4>1, <4>2, Moves
    <3>4. ReadWord("readAI", "AI") \/ ReadWord("readDI", "DI")
          \/ EndRead("readAI", "AI", "readDI") \/ EndRead("readDI", "DI", "inputs")
          => /\ pc'.ITime = pc.ITime
             /\ pc'.at \notin {"end", "done"} /\ pc.at \notin {"end", "done"}
      BY <1>0, Moves
    <3>5. SendInputs \/ RecvOutputs
          => /\ pc'.ITime = pc.ITime
             /\ pc'.at \notin {"end", "done"} /\ pc.at \notin {"end", "done"}
      BY <1>0, Moves
    <3> QED BY <1>3, <3>1, <3>2, <3>3, <3>4, <3>5, Actions
  <2>3. sent'.step \in 0 .. pc'.ITime /\ (pc'.at \notin {"end", "done"} => sent'.step < pc'.ITime)
    BY <1>s, <2>1, <2>2
  <2>4. CASE ~FrameSent'
    BY <2>3, <2>4 DEF SentOK
  <2>5. CASE FrameSent'
    <3>1. pc' = pc /\ var' = var /\ dev' = dev /\ ret' = ret /\ volt' = volt /\ out' = out /\ FrameSent
      BY <2>1, <2>2, <2>5 DEF FrameSent
    <3>2. \A k, x : Alone(k, x)' <=> Alone(k, x)
      BY <3>1 DEF Alone, At
    <3>3. \A x : AoWord(volt.AO[x])' = AoWord(volt.AO[x])
      BY <3>1
    <3>4. /\ sent.word = [s \in {t \in Slots : dev.card_mode[t] # 0 /\ dev.card_type[t] \in {"AO", "DO"}} |->
                             out[s]]
          /\ \A x \in DOMAIN var["AO"] : Alone("AO", x) =>
               out[var["AO"][x].slot][var["AO"][x].chan] = AoWord(volt.AO[x])
          /\ \A x \in DOMAIN var["DO"] : Alone("DO", x) =>
               out[var["DO"][x].slot][var["DO"][x].chan] = volt.DO[x]
      BY <3>1 DEF SentOK
    <3>5. /\ \A x \in DOMAIN var'["AO"] : Alone("AO", x)' =>
               out'[var'["AO"][x].slot][var'["AO"][x].chan] = AoWord(volt.AO[x])'
          /\ \A x \in DOMAIN var'["DO"] : Alone("DO", x)' =>
               out'[var'["DO"][x].slot][var'["DO"][x].chan] = volt'.DO[x]
      BY <3>1, <3>2, <3>3, <3>4
    <3>6. sent'.word = [s \in {t \in Slots : dev'.card_mode[t] # 0 /\ dev'.card_type[t] \in {"AO", "DO"}} |->
                          out'[s]]
      BY <2>1, <3>1, <3>4
    <3> QED BY <2>3, <3>5, <3>6 DEF SentOK
  <2> QED BY <2>4, <2>5
<1> QED BY <1>1, <1>2, <1>3

-----------------------------------------------------------------------------
(* The invariant. *)

LEMMA BoxInit ==
  ASSUME Init
  PROVE  Inv
<1>i. /\ dvc \in Files /\ SimProc = <<>> /\ var = [k \in Kinds |-> <<>>] /\ ret = [k \in Kinds |-> -1]
      /\ pc = [at |-> "read", n |-> 1, i |-> 1, nIn |-> 0, nOut |-> 0, ITime |-> 1, since |-> 0,
               faults |-> 0]
      /\ dev = [card_type |-> [s \in Slots |-> "NO"], card_mode |-> [s \in Slots |-> 0],
                count |-> [k \in Kinds |-> 0]]
      /\ in = [s \in Slots |-> [c \in Chans |-> 0]] /\ out = [s \in Slots |-> [c \in Chans |-> 0]]
      /\ rx = [frame |-> 0, left |-> {}] /\ sent = [step |-> 0, word |-> <<>>]
  BY DEF Init
<1>c. /\ MaxFrames \in Nat /\ Steps \in Nat \ {0} /\ Card \in [Slots -> Kinds]
  BY BoxDataAssumption
<1>p. pc.at = "read" /\ pc.n = 1 /\ pc.i = 1 /\ pc.nIn = 0 /\ pc.nOut = 0 /\ pc.ITime = 1 /\ pc.since = 0
  BY <1>i
<1>1. PcOK
  <2>1. pc \in PcType
    BY <1>i DEF PcType, Stages
  <2>2. Len(dvc) \in Nat /\ Len(SimProc) = 0
    BY <1>i, FileFacts
  <2>3. pc.i \in 1 .. Len(dvc) + 1 /\ pc.n \in 1 .. Len(SimProc) + 1
    BY <1>p, <2>2
  <2> QED BY <1>c, <1>p, <2>1, <2>3 DEF PcOK
<1>2. CountsOK
  <2>1. Read = {}
    <3>1. DOMAIN dvc = 1 .. Len(dvc) /\ Len(dvc) \in Nat
      BY <1>i, FileFacts
    <3> QED BY <1>p, <3>1 DEF Read
  <2>2. DOMAIN SimProc = {} /\ SimProc \in Seq(Proc)
    BY <1>i
  <2> QED BY <2>1, <2>2 DEF CountsOK, CountsOf
<1>3. FilingOK
  BY <1>p DEF FilingOK
<1>4. SignalsOK
  <2>1. Filed = {}
    BY <1>p DEF Filed
  <2>2. DOMAIN var = Kinds
    BY <1>i
  <2>3. ASSUME NEW k \in Kinds PROVE ListOK(var[k], k, Filed) /\ ListHas(var[k], k, Filed)
    <3>1. var[k] = <<>>
      BY <1>i
    <3>2. <<>> \in Seq(Signal) /\ DOMAIN <<>> = {} /\ Len(<<>>) = 0
      OBVIOUS
    <3>3. Cardinality(Filed \cap OfKind(k)) = 0
      <4>1. Filed \cap OfKind(k) = {}
        BY <2>1
      <4> QED BY <4>1, FS_EmptySet
    <3>4. ListOK(var[k], k, Filed)
      BY <3>1, <3>2, <3>3 DEF ListOK
    <3> QED BY <2>1, <3>4 DEF ListHas
  <2> QED BY <2>2, <2>3 DEF SignalsOK
<1>5. DevOK
  <2>1. /\ dev.card_type = [s \in Slots |-> "NO"] /\ dev.card_mode = [s \in Slots |-> 0]
        /\ dev.count = [k \in Kinds |-> 0]
        /\ dev = [card_type |-> dev.card_type, card_mode |-> dev.card_mode, count |-> dev.count]
    BY <1>i
  <2>2. Pending = Kinds
    BY <1>p DEF Pending
  <2>3. \A k \in Kinds : ret[k] = -1 /\ dev.count[k] = 0
    BY <1>i, <2>1
  <2>4. ret \in [Kinds -> {0, -1, -2, -3}]
    BY <1>i
  <2>5. \A k \in Kinds : IF ret[k] # 0 THEN dev.count[k] = 0
                         ELSE /\ dev.count[k] = GroupLength(k)
                              /\ \A x \in DOMAIN var[k] : dev.card_mode[var[k][x].slot] = 1
    BY <2>3
  <2> QED BY <2>1, <2>2, <2>3, <2>4, <2>5 DEF DevOK
<1>6. RxOK
  <2>1. rx.frame = 0 /\ rx.left = {} /\ rx = [frame |-> rx.frame, left |-> rx.left]
    BY <1>i
  <2>2. ~InStep
    BY <1>p DEF InStep
  <2> QED BY <1>c, <1>i, <2>1, <2>2 DEF RxOK
<1>7. SampleOK /\ DataOK /\ VoltOK
  BY <1>p DEF SampleOK, DataOK, VoltOK, Reading
<1>8. GivenOK
  BY <1>p DEF GivenOK, InputsSent
<1>9. OutOK
  <2>1. WordsOK
    BY <1>i DEF WordsOK, AoTop
  <2>2. RestOK
    <3>1. \A s \in Slots : dev.card_type[s] = "NO"
      BY <1>i
    <3> QED BY <1>i, <3>1 DEF RestOK, Rest
  <2>3. SentOK
    <3>1. ~FrameSent
      BY <1>p DEF FrameSent
    <3>2. sent.step = 0
      BY <1>i
    <3> QED BY <1>p, <3>1, <3>2 DEF SentOK
  <2> QED BY <2>1, <2>2, <2>3 DEF OutOK
<1> QED BY <1>i, <1>1, <1>2, <1>3, <1>4, <1>5, <1>6, <1>7, <1>8, <1>9 DEF Inv

LEMMA BoxNext ==
  ASSUME Inv, [Next]_vars
  PROVE  Inv'
<1>0. /\ dvc \in Files /\ PcOK /\ CountsOK /\ FilingOK /\ SignalsOK /\ DevOK /\ RxOK /\ SampleOK
      /\ DataOK /\ GivenOK /\ VoltOK /\ WordsOK /\ RestOK /\ SentOK
  BY DEF Inv, OutOK
<1>1. dvc' \in Files
  BY <1>0, Fixed DEF PcOK
<1>2. CountsOK'
  BY <1>0, CountsStep
<1>3. PcOK'
  BY <1>0, <1>2, PcStep
<1>4. FilingOK' /\ SignalsOK' /\ DevOK' /\ RxOK'
  BY <1>0, FilingStep, SignalsStep, DevStep, RxStep
<1>5. SampleOK'
  BY <1>0, <1>4, SampleStep
<1>6. DataOK' /\ GivenOK'
  BY <1>0, DataStep, GivenStep
<1>7. VoltOK'
  BY <1>0, <1>6, VoltStep
<1>8. OutOK'
  BY <1>0, <1>4, WordsStep, RestStep, SentStep DEF OutOK
<1> QED BY <1>1, <1>2, <1>3, <1>4, <1>5, <1>6, <1>7, <1>8 DEF Inv

\* The conjunction of the parts holds throughout.
THEOREM BoxInvariant == Spec => []Inv
<1>1. Init => Inv
  BY BoxInit
<1>2. Inv /\ [Next]_vars => Inv'
  BY BoxNext
<1> QED BY <1>1, <1>2, PTL DEF Spec

\* The state keeps its types: the words of an AO stay in 0 .. AoTop whatever is added up.
THEOREM TypesKept == Spec => []TypeOK
<1>1. Inv => TypeOK
  <2> SUFFICES ASSUME Inv PROVE TypeOK
    OBVIOUS
  <2>1. dvc \in Files /\ pc.ITime \in 1 .. Steps /\ pc.since \in 0 .. MaxFrames
    BY DEF Inv, PcOK
  <2>2. ret \in [Kinds -> {0, -1, -2, -3}] /\ dev.card_type \in [Slots -> Kinds \cup {"NO"}]
        /\ dev.card_mode \in [Slots -> {0, 1}]
    BY DEF Inv, DevOK
  <2>3. in \in [Slots -> [Chans -> 0 .. MaxFrames]] /\ rx.frame \in 0 .. MaxFrames
        /\ rx.left \subseteq Slots \X Chans
    BY DEF Inv, RxOK
  <2>4. \A s \in Slots, c \in Chans : Card[s] = "AO" => out[s][c] \in 0 .. AoTop
    BY DEF Inv, OutOK, WordsOK
  <2> QED BY <2>1, <2>2, <2>3, <2>4 DEF TypeOK
<1> QED BY <1>1, BoxInvariant, PTL

-----------------------------------------------------------------------------
(* The inputs are fresh, and a frame is that of its step. *)

\* Signals of these kinds have a line of their own: addavar refuses an AI whose number is there, and
\* only the first line of a DI or DO is served.
OwnLines(kinds) ==
  \A file \in Files : \A i, j \in DOMAIN file :
    file[i].kind \in kinds /\ file[i].kind = file[j].kind /\ file[i].idno = file[j].idno => i = j

\* A group takes fewer signals than the box has channels (GroupLength).
GroupsFit ==
  \A file \in Files, k \in Kinds :
    Cardinality({i \in DOMAIN file : file[i].kind = k}) < Cardinality(Slots) * Cardinality(Chans)

\* A number of an output is that of a channel, and a channel has one number.
OneChannel ==
  \A file \in Files : \A i, j \in DOMAIN file :
    file[i].kind \in OutKinds /\ file[i].kind = file[j].kind =>
      (file[i].idno = file[j].idno <=> file[i].slot = file[j].slot /\ file[i].chan = file[j].chan)

\* After ReadDvc every line is in a signal, which has the channel of its first line.
LEMMA SignalOf ==
  ASSUME dvc \in Files, SignalsOK, ~Reading, NEW i \in DOMAIN dvc
  PROVE  \E x \in DOMAIN var[dvc[i].kind] : \E j \in Shares(dvc[i].kind, dvc[i].idno) :
           /\ var[dvc[i].kind][x].idno = dvc[i].idno
           /\ var[dvc[i].kind][x].slot = dvc[j].slot /\ var[dvc[i].kind][x].chan = dvc[j].chan
           /\ var[dvc[i].kind][x].iospec = dvc[j].iospec
           /\ var[dvc[i].kind][x].VSimIO[1] = SimVarOf(j)
<1>1. PICK k \in Kinds : k = dvc[i].kind
  BY LineFacts
<1>2. i \in Filed \cap OfKind(k)
  BY <1>1 DEF Reading, Filed, OfKind
<1>3. ListHas(var[k], k, Filed)
  BY DEF SignalsOK
<1>4. PICK x \in DOMAIN var[k] : var[k][x].idno = dvc[i].idno
  BY <1>2, <1>3 DEF ListHas
<1>5. SignalOK(var[k][x], k, Filed)
  BY SignalFacts
<1>6. PICK j \in Shares(k, dvc[i].idno) : /\ var[k][x].slot = dvc[j].slot /\ var[k][x].chan = dvc[j].chan
                                          /\ var[k][x].iospec = dvc[j].iospec
                                          /\ var[k][x].VSimIO[1] = SimVarOf(j)
  BY <1>4, <1>5 DEF SignalOK
<1> QED BY <1>1, <1>4, <1>6

\* The group of a class that works has all its signals.
LEMMA GroupWhole ==
  ASSUME GroupsFit, dvc \in Files, SignalsOK, DevOK, ~Reading, NEW k \in Kinds, ret[k] = 0
  PROVE  Len(var[k]) = dev.count[k]
<1>1. Len(var[k]) <= Cardinality(Filed \cap OfKind(k)) /\ Len(var[k]) \in Nat
  BY SignalFacts DEF SignalsOK, ListOK
<1>2. Filed \cap OfKind(k) = {i \in DOMAIN dvc : dvc[i].kind = k}
  BY DEF Reading, Filed, OfKind
<1>3. Filed \subseteq DOMAIN dvc
  BY DEF Filed
<1>4. Cardinality(Filed \cap OfKind(k)) \in Nat
  BY <1>3, FiledCount
<1>5. Cardinality(Filed \cap OfKind(k)) < Cardinality(Slots) * Cardinality(Chans)
  BY <1>2 DEF GroupsFit
<1>6. Cardinality(Slots) * Cardinality(Chans) \in Nat
  <2>1. Cardinality(Slots) \in Nat /\ Cardinality(Chans) \in Nat
    BY BoxDataAssumption, FS_CardinalityType
  <2> QED BY <2>1
<1> DEFINE room == Cardinality(Slots) * Cardinality(Chans)
<1>7. Len(var[k]) < room
  <2>1. room \in Nat /\ Cardinality(Filed \cap OfKind(k)) < room
    BY <1>5, <1>6
  <2> HIDE DEF room
  <2> QED BY <1>1, <1>4, <2>1
<1>8. dev.count[k] = GroupLength(k)
  BY DEF DevOK
<1> QED BY <1>7, <1>8 DEF GroupLength

\* What a process is sent at the place of a line is no older than the frame that was whole when the
\* step began, in spite of __rx_event storing words all the while.
THEOREM InputsFresh ==
  ASSUME OwnLines(InKinds), GroupsFit
  PROVE  Spec => []InputsAreFresh
<1>1. Inv => InputsAreFresh
  <2> SUFFICES ASSUME Inv, InputsSent, NEW i \in InputLines, Working(dvc[i].kind)
               PROVE  Given(i) \in Possible(i, pc.since .. rx.frame)
    BY DEF InputsAreFresh
  <2>1. /\ dvc \in Files /\ SignalsOK /\ DevOK /\ SampleOK /\ GivenOK /\ i \in DOMAIN dvc
        /\ pc.at = "recv" /\ ~Reading
    BY DEF Inv, InputsSent, InputLines, LineIndices, Reading
  <2>2. PICK k \in {"AI", "DI"} : k = dvc[i].kind /\ k \in Kinds
    BY <2>1, LineFacts DEF InputLines, IsInput
  <2>3. PICK x \in DOMAIN var[k], j \in Shares(k, dvc[i].idno) :
           /\ var[k][x].slot = dvc[j].slot /\ var[k][x].chan = dvc[j].chan
           /\ var[k][x].iospec = dvc[j].iospec
           /\ var[k][x].VSimIO[1] = SimVarOf(j)
    BY <2>1, <2>2, SignalOf
  <2>4. j = i
    <3>1. j \in DOMAIN dvc /\ dvc[j].kind = k /\ dvc[j].idno = dvc[i].idno
      BY DEF Shares
    <3> QED BY <2>1, <2>2, <3>1 DEF OwnLines, InKinds
  <2>5. var[k][x].VSimIO[1].prono = dvc[i].proc /\ var[k][x].VSimIO[1].idxIO = Place(i)
        /\ var[k][x].VSimIO[1].kamplify = dvc[i].gain
    BY <2>1, <2>3, <2>4, SimVarFacts
  <2>6. data[dvc[i].proc][Place(i)] = InputValue(k, var[k][x], dvc[i].gain, sample[k][x])
    <3>1. LET v == var[k][x].VSimIO[1]
          IN data[v.prono][v.idxIO] = InputValue(k, var[k][x], v.kamplify, sample[k][x])
      BY <2>1 DEF GivenOK
    <3> QED BY <2>5, <3>1
  <2>7. \A n : InputValue(k, var[k][x], dvc[i].gain, n) = InputValue(k, dvc[i], dvc[i].gain, n)
    BY <2>3, <2>4 DEF InputValue
  <2>8. sample[k][x] \in pc.since .. rx.frame
    <3>1. ret[k] = 0 /\ dev.card_type[var[k][x].slot] = k
      BY <2>2 DEF Working
    <3>2. dev.count[k] = Len(var[k])
      BY <2>1, <2>2, <3>1, GroupWhole
    <3>3. dev.card_mode[var[k][x].slot] = 1
      BY <2>1, <2>2, <3>1 DEF DevOK
    <3>4. var[k][x].slot \in Slots /\ var[k][x].chan \in Chans
      BY <2>1, <2>2, SignalFacts
    <3>5. <<var[k][x].slot, var[k][x].chan>> \in InputCells
      BY <2>2, <3>1, <3>3, <3>4 DEF InputCells, IsInput
    <3>6. Known(k, x)
      BY <3>2, <3>5 DEF Known
    <3>7. InStep /\ Sampled(k, x)
      BY <2>1 DEF InStep, Sampled
    <3> QED BY <2>1, <3>6, <3>7 DEF SampleOK
  <2> QED BY <2>2, <2>6, <2>7, <2>8 DEF Given, Possible
<1> QED BY <1>1, BoxInvariant, PTL

\* A frame has at the channel of each line what the processes sent in its step, and the rest of its
\* channels are at rest.
LEMMA OutputsThere ==
  ASSUME OwnLines({"DO"}), GroupsFit, OneChannel, Inv, FrameSent,
         NEW i \in LineIndices \ InputLines, Working(dvc[i].kind)
  PROVE  /\ dvc[i].slot \in DOMAIN sent.word
         /\ sent.word[dvc[i].slot][dvc[i].chan] =
              IF dvc[i].kind = "AO" THEN AoWord(SummedTerms(i)) ELSE DoWord(Given(i))
<1>1. /\ dvc \in Files /\ SignalsOK /\ DevOK /\ VoltOK /\ SentOK /\ i \in DOMAIN dvc
      /\ pc.at = "end" /\ sent.step = pc.ITime /\ ~Reading
  BY DEF Inv, OutOK, FrameSent, LineIndices, Reading
<1>2. PICK k \in {"AO", "DO"} : k = dvc[i].kind /\ k \in Kinds
  BY <1>1, LineFacts DEF InputLines, LineIndices, IsInput, Kinds
<1>3. PICK x \in DOMAIN var[k], j \in Shares(k, dvc[i].idno) :
         /\ var[k][x].idno = dvc[i].idno
         /\ var[k][x].slot = dvc[j].slot /\ var[k][x].chan = dvc[j].chan
         /\ var[k][x].VSimIO[1] = SimVarOf(j)
  BY <1>1, <1>2, SignalOf
<1>4. j \in DOMAIN dvc /\ dvc[j].kind = k /\ dvc[j].idno = dvc[i].idno
  BY DEF Shares
<1>5. var[k][x].slot = dvc[i].slot /\ var[k][x].chan = dvc[i].chan
      /\ dvc[i].slot \in Slots /\ dvc[i].chan \in Chans
  <2>1. dvc[j].slot = dvc[i].slot /\ dvc[j].chan = dvc[i].chan
    BY <1>1, <1>2, <1>4 DEF OneChannel, OutKinds
  <2> QED BY <1>1, <1>3, <2>1, LineFacts
<1>6. ret[k] = 0 /\ dev.card_type[dvc[i].slot] = k /\ dev.card_mode[dvc[i].slot] = 1
  <2>1. ret[k] = 0 /\ dev.card_type[var[k][x].slot] = k
    BY <1>2 DEF Working
  <2>2. dev.card_mode[var[k][x].slot] = 1
    BY <1>1, <1>2, <2>1 DEF DevOK
  <2> QED BY <1>5, <2>1, <2>2
<1>7. Alone(k, x)
  <2>1. ASSUME NEW y \in At(k, dvc[i].slot, dvc[i].chan) PROVE y = x
    <3>1. y \in DOMAIN var[k] /\ var[k][y].slot = dvc[i].slot /\ var[k][y].chan = dvc[i].chan
      BY DEF At
    <3>2. SignalOK(var[k][y], k, Filed)
      BY <1>1, <1>2, <3>1, SignalFacts
    <3>3. PICK l \in Filed \cap Shares(k, var[k][y].idno) :
             var[k][y].slot = dvc[l].slot /\ var[k][y].chan = dvc[l].chan
      BY <3>2 DEF SignalOK
    <3>4. l \in DOMAIN dvc /\ dvc[l].kind = k /\ dvc[l].idno = var[k][y].idno
      BY <3>3 DEF Shares
    <3>5. dvc[l].idno = dvc[i].idno
      <4>1. /\ dvc[l].slot = dvc[i].slot /\ dvc[l].chan = dvc[i].chan
            /\ dvc[l].kind = dvc[i].kind /\ dvc[l].kind \in OutKinds
        BY <1>2, <3>1, <3>3, <3>4 DEF OutKinds
      <4>2. dvc[l].idno = dvc[i].idno <=> dvc[l].slot = dvc[i].slot /\ dvc[l].chan = dvc[i].chan
        BY <1>1, <3>4, <4>1, Zenon DEF OneChannel
      <4> QED BY <4>1, <4>2
    <3>6. ListOK(var[k], k, Filed)
      BY <1>1, <1>2 DEF SignalsOK
    <3> QED BY <1>3, <3>1, <3>4, <3>5, <3>6 DEF ListOK
  <2>2. x \in At(k, dvc[i].slot, dvc[i].chan)
    BY <1>5 DEF At
  <2>3. At(k, var[k][x].slot, var[k][x].chan) = {x}
    BY <1>5, <2>1, <2>2
  <2>4. Len(var[k]) = dev.count[k]
    BY <1>1, <1>2, <1>6, GroupWhole
  <2> QED BY <2>3, <2>4 DEF Alone
<1>8. /\ dvc[i].slot \in DOMAIN sent.word
      /\ sent.word[dvc[i].slot] = out[dvc[i].slot]
  <2>1. sent.word = [s \in {t \in Slots : dev.card_mode[t] # 0 /\ dev.card_type[t] \in {"AO", "DO"}} |->
                       out[s]]
    BY <1>1 DEF SentOK
  <2> QED BY <1>2, <1>5, <1>6, <2>1
<1>9. CASE k = "AO"
  <2>1. sent.word[dvc[i].slot][dvc[i].chan] = AoWord(volt.AO[x])
    BY <1>1, <1>3, <1>5, <1>7, <1>8, <1>9 DEF SentOK
  <2>2. volt.AO[x] = Gathered(var["AO"][x])
    <3>1. Got(var["AO"][x].VSimIO[1].prono)
      BY <1>1 DEF Got
    <3> QED BY <1>1, <1>3, <1>9, <3>1 DEF VoltOK
  <2>3. ASSUME NEW l \in DOMAIN dvc
        PROVE  TermOf(SimVarOf(l)) = [prono |-> dvc[l].proc, idxIO |-> Place(l), step |-> sent.step,
                                      add |-> dvc[l].gain * Given(l)]
    BY <1>1 DEF TermOf, Term, SimVarOf, SimVar, Given
  <2>4. Gathered(var["AO"][x]) = {TermOf(var["AO"][x].VSimIO[v]) : v \in DOMAIN var["AO"][x].VSimIO}
    BY <1>1 DEF Gathered, Got
  <2>5. SummedTerms(i) = {TermOf(SimVarOf(l)) : l \in Shares("AO", dvc[i].idno)}
    <3>1. Summed(i) = Shares("AO", dvc[i].idno) /\ Summed(i) \subseteq DOMAIN dvc
      BY DEF Summed, Shares, LineIndices
    <3> QED BY <2>3, <3>1 DEF SummedTerms
  <2>6. ASSUME NEW v \in DOMAIN var["AO"][x].VSimIO
        PROVE  \E l \in Shares("AO", dvc[i].idno) : var["AO"][x].VSimIO[v] = SimVarOf(l)
    <3>1. SignalOK(var["AO"][x], "AO", Filed)
      BY <1>1, <1>2, <1>3, <1>9, SignalFacts
    <3> QED BY <1>3, <1>9, <3>1 DEF SignalOK
  <2>7. ASSUME NEW l \in Shares("AO", dvc[i].idno)
        PROVE  \E v \in DOMAIN var["AO"][x].VSimIO : var["AO"][x].VSimIO[v] = SimVarOf(l)
    <3>1. l \in DOMAIN dvc /\ dvc[l].kind = "AO" /\ dvc[l].idno = dvc[i].idno
      BY DEF Shares
    <3>2. l \in Filed \cap OfKind("AO")
      BY <1>1, <3>1 DEF Filed, Reading, OfKind
    <3>3. ListHas(var["AO"], "AO", Filed) /\ ListOK(var["AO"], "AO", Filed)
      BY <1>1, <1>2, <1>9 DEF SignalsOK
    <3>4. PICK y \in DOMAIN var["AO"] : /\ var["AO"][y].idno = dvc[l].idno
                                        /\ \E v \in DOMAIN var["AO"][y].VSimIO :
                                             var["AO"][y].VSimIO[v] = SimVarOf(l)
      BY <3>2, <3>3 DEF ListHas
    <3>5. y = x
      BY <1>3, <1>9, <3>1, <3>3, <3>4 DEF ListOK
    <3> QED BY <3>4, <3>5
  <2>8. Gathered(var["AO"][x]) = SummedTerms(i)
    <3>1. ASSUME NEW t \in Gathered(var["AO"][x]) PROVE t \in SummedTerms(i)
      BY <2>4, <2>5, <2>6
    <3>2. ASSUME NEW t \in SummedTerms(i) PROVE t \in Gathered(var["AO"][x])
      BY <2>4, <2>5, <2>7
    <3> QED BY <3>1, <3>2
  <2> QED BY <1>2, <1>8, <1>9, <2>1, <2>2, <2>8
<1>10. CASE k = "DO"
  <2>1. sent.word[dvc[i].slot][dvc[i].chan] = volt.DO[x]
    BY <1>1, <1>3, <1>5, <1>7, <1>8, <1>10 DEF SentOK
  <2>2. volt.DO[x] = Word(var["DO"][x])
    <3>1. Got(var["DO"][x].VSimIO[1].prono)
      BY <1>1 DEF Got
    <3> QED BY <1>1, <1>3, <1>10, <3>1 DEF VoltOK
  <2>3. j = i
    BY <1>1, <1>2, <1>4, <1>10 DEF OwnLines
  <2>4. var["DO"][x].VSimIO[1].prono = dvc[i].proc /\ var["DO"][x].VSimIO[1].idxIO = Place(i)
    BY <1>1, <1>3, <1>10, <2>3, SimVarFacts
  <2>5. Word(var["DO"][x]) = DoWord(Given(i))
    BY <2>4 DEF Word, Given
  <2> QED BY <1>2, <1>8, <1>10, <2>1, <2>2, <2>5
<1> QED BY <1>9, <1>10

\* Channels no line names, and those of a class that was not initialised, stay at rest in every frame.
THEOREM OthersStayAtRest == Spec => []OthersAtRest
<1>1. Inv => OthersAtRest
  <2> SUFFICES ASSUME Inv, FrameSent, NEW s \in DOMAIN sent.word, NEW c \in Chans,
                      ret[Card[s]] = 0 => \A i \in LineIndices : dvc[i].slot # s \/ dvc[i].chan # c
               PROVE  sent.word[s][c] = IF Card[s] = "AO" THEN AoRest ELSE 0
    BY DEF OthersAtRest
  <2>1. dvc \in Files /\ SignalsOK /\ RestOK /\ SentOK
    BY DEF Inv, OutOK
  <2>2. /\ s \in Slots /\ dev.card_type[s] \in {"AO", "DO"} /\ sent.word[s] = out[s]
    <3>1. sent.word = [t \in {u \in Slots : dev.card_mode[u] # 0 /\ dev.card_type[u] \in {"AO", "DO"}} |->
                         out[t]]
      BY <2>1 DEF SentOK
    <3> QED BY <3>1
  <2>3. Card[s] \in Kinds
    BY <2>2, BoxDataAssumption
  <2>4. ASSUME ret[Card[s]] = 0, NEW x \in At(Card[s], s, c) PROVE FALSE
    <3>1. x \in DOMAIN var[Card[s]] /\ var[Card[s]][x].slot = s /\ var[Card[s]][x].chan = c
      BY DEF At
    <3>2. SignalOK(var[Card[s]][x], Card[s], Filed)
      BY <2>1, <2>3, <3>1, SignalFacts
    <3>3. PICK j \in Filed : dvc[j].slot = s /\ dvc[j].chan = c
      BY <3>1, <3>2 DEF SignalOK
    <3>4. j \in LineIndices
      BY <3>3 DEF Filed, LineIndices
    <3> QED BY <2>4, <3>3, <3>4
  <2>5. out[s][c] = Rest(s)
    BY <2>1, <2>2, <2>4 DEF RestOK
  <2> QED BY <2>2, <2>5 DEF Rest
<1> QED BY <1>1, BoxInvariant, PTL

\* Every channel of a frame has what it should have of its step: the sum of the lines that share an
\* AO, the datum of a DO, and 0 volts or open everywhere else.
THEOREM FramesOfTheStep ==
  ASSUME OwnLines({"DO"}), GroupsFit, OneChannel
  PROVE  Spec => []FrameOfTheStep
<1>1. Inv => OutputsAtTheirChannel
  BY OutputsThere DEF OutputsAtTheirChannel
<1> QED BY <1>1, BoxInvariant, OthersStayAtRest, PTL DEF FrameOfTheStep
-----------------------------------------------------------------------------
(* The groups of channels, for every size of the box and every number of   *)
(* groups, lists and words.  Their invariant GrpInv needs no strengthening  *)
(* beyond its types: a channel is stored only after it was compared with    *)
(* what the other groups show.                                              *)

GrpInv == GrpTypeOK /\ GroupsDisjoint

\* The channels a group has room for are a natural number.
LEMMA CapacityIsNat == Capacity \in Nat
  BY GroupAssumption, SMT DEF GroupAssumption, Capacity

\* An accepted channel is one of the box, and no other group shows it: the two
\* checks of PID_xx_GrpConfig.
LEMMA AcceptedIsChannel ==
  ASSUME NEW g \in Grps, NEW e \in Named, Accepts(g, e)
  PROVE  e \in Channels /\ \A h \in Grps \ {g} : e \notin Shown(cfg[h])
<1>1. e \in [slot : Nat, chan : Nat]  BY GroupAssumption DEF GroupAssumption
<1>2. e.slot < MAX_SLOTS /\ e.chan < MAX_CHANS  BY DEF Accepts
<1>3. e.slot \in 0 .. MAX_SLOTS - 1 /\ e.chan \in 0 .. MAX_CHANS - 1
  BY <1>1, <1>2, GroupAssumption DEF GroupAssumption
<1>4. e \in Channels  BY <1>1, <1>3 DEF Channels
<1> QED  BY <1>4 DEF Accepts

\* What PID_xx_GrpConfig does to a group, accepted or refused: every channel the
\* group shows afterwards is one of the box, and was accepted or shown before.
LEMMA ConfigStep ==
  ASSUME GrpInv, NEW g \in Grps, NEW list \in Lists, GrpConfig(g, list)
  PROVE  /\ cfg' \in [Grps -> [count : 0 .. Capacity, entry : [0 .. Capacity - 1 -> Channels]]]
         /\ \A h \in Grps \ {g} : cfg'[h] = cfg[h]
         /\ \A e \in Shown(cfg'[g]) : e \in Shown(cfg[g])
                                        \/ \A h \in Grps \ {g} : e \notin Shown(cfg[h])
<1>1. PICK n \in 0 .. MaxList : list \in [1 .. n -> Named]  BY DEF Lists
<1>2. n \in Nat /\ Len(list) = n
  BY <1>1, GroupAssumption DEF GroupAssumption
<1>3. PICK m \in 0 .. n :
        /\ \A i \in 1 .. m : Accepts(g, list[i])
        /\ cfg' = [cfg EXCEPT ![g] = [count |-> IF m = Len(list) THEN m ELSE @.count,
                                      entry |-> Stored(@.entry, list, m)]]
  BY <1>2 DEF GrpConfig
<1>4. m \in Nat /\ m <= n /\ n < Capacity  BY <1>2, <1>3 DEF GrpConfig
<1>5. \A i \in 1 .. m : list[i] \in Named  BY <1>1, <1>2, <1>4
<1>6. \A i \in 1 .. m : list[i] \in Channels /\ \A h \in Grps \ {g} : list[i] \notin Shown(cfg[h])
  BY <1>3, <1>5, AcceptedIsChannel
<1>7. cfg[g] \in [count : 0 .. Capacity, entry : [0 .. Capacity - 1 -> Channels]]
  BY DEF GrpInv, GrpTypeOK
<1>8. cfg[g].count \in 0 .. Capacity /\ cfg[g].entry \in [0 .. Capacity - 1 -> Channels]
  BY <1>7
<1> DEFINE entry == Stored(cfg[g].entry, list, m)
           count == IF m = Len(list) THEN m ELSE cfg[g].count
<1>9. entry = [i \in 0 .. Capacity - 1 |-> IF i < m THEN list[i + 1] ELSE cfg[g].entry[i]]
  BY <1>8 DEF Stored
<1>10. \A i \in 0 .. Capacity - 1 : entry[i] = IF i < m THEN list[i + 1] ELSE cfg[g].entry[i]
  BY <1>9
<1>11. ASSUME NEW i \in 0 .. Capacity - 1
       PROVE  (IF i < m THEN list[i + 1] ELSE cfg[g].entry[i]) \in Channels
  <2>1. CASE i < m
    <3>1. i + 1 \in 1 .. m  BY <2>1, <1>4
    <3> QED  BY <2>1, <3>1, <1>6
  <2>2. CASE ~(i < m)  BY <2>2, <1>8
  <2> QED  BY <2>1, <2>2
<1>12. entry \in [0 .. Capacity - 1 -> Channels]  BY <1>9, <1>11
<1>13. count \in 0 .. Capacity  BY <1>2, <1>4, <1>8, CapacityIsNat
<1>14. cfg'[g] = [count |-> count, entry |-> entry] /\ \A h \in Grps \ {g} : cfg'[h] = cfg[h]
  BY <1>3 DEF GrpInv, GrpTypeOK
<1>15. cfg' = [cfg EXCEPT ![g] = [count |-> count, entry |-> entry]]  BY <1>3
<1> HIDE DEF entry, count
<1>16. cfg' \in [Grps -> [count : 0 .. Capacity, entry : [0 .. Capacity - 1 -> Channels]]]
  <2>1. [count |-> count, entry |-> entry]
          \in [count : 0 .. Capacity, entry : [0 .. Capacity - 1 -> Channels]]
    BY <1>12, <1>13
  <2> QED  BY <1>15, <2>1 DEF GrpInv, GrpTypeOK
<1>17. ASSUME NEW e \in Shown(cfg'[g])
       PROVE  e \in Shown(cfg[g]) \/ \A h \in Grps \ {g} : e \notin Shown(cfg[h])
  <2>1. PICK i \in 0 .. count - 1 : e = entry[i]
    BY <1>14 DEF Shown
  <2>2. i \in 0 .. Capacity - 1  BY <2>1, <1>13, CapacityIsNat
  <2>3. CASE i < m
    <3>1. i + 1 \in 1 .. m  BY <2>3, <2>2, <1>4
    <3> QED  BY <2>1, <2>2, <2>3, <3>1, <1>6, <1>10
  <2>4. CASE ~(i < m)
    <3>1. e = cfg[g].entry[i]  BY <2>1, <2>2, <2>4, <1>10
    <3>2. count = cfg[g].count  BY <2>1, <2>2, <2>4, <1>4 DEF count
    <3> QED  BY <3>1, <3>2, <2>1 DEF Shown
  <2> QED  BY <2>3, <2>4, <2>2, <1>4
<1> QED  BY <1>14, <1>16, <1>17

\* At the start every group is empty: GrpInv holds.
LEMMA GrpInvInit == GrpInit => GrpInv
<1> SUFFICES ASSUME GrpInit PROVE GrpInv  OBVIOUS
<1>1. 0 \in 0 .. MAX_SLOTS - 1 /\ 0 \in 0 .. MAX_CHANS - 1 /\ 0 \in Grps
  BY GroupAssumption DEF GroupAssumption, Grps
<1>2. [slot |-> 0, chan |-> 0] \in Channels  BY <1>1 DEF Channels
<1>3. 0 \in 0 .. Capacity  BY CapacityIsNat
<1>4. cfg \in [Grps -> [count : 0 .. Capacity, entry : [0 .. Capacity - 1 -> Channels]]]
  BY <1>2, <1>3 DEF GrpInit
<1>5. xx_data \in [Channels -> Words]  BY GroupAssumption DEF GrpInit, GroupAssumption
<1>6. result \in [call : {"none", "config", "write"}, grp : Grps, ok : BOOLEAN]
  BY <1>1 DEF GrpInit
<1>7. \A g \in Grps : Shown(cfg[g]) = {}  BY DEF GrpInit, Shown
<1>8. GrpTypeOK  BY <1>4, <1>5, <1>6 DEF GrpTypeOK
<1> QED  BY <1>7, <1>8 DEF GrpInv, GroupsDisjoint

\* What a call leaves in result has the type of result.
LEMMA ReturnType ==
  ASSUME NEW call \in {"none", "config", "write"}, NEW g \in Grps, NEW ok \in BOOLEAN,
         Return(call, g, ok)
  PROVE  result' \in [call : {"none", "config", "write"}, grp : Grps, ok : BOOLEAN]
  BY DEF Return

\* GrpConfig keeps GrpInv by ConfigStep, GrpWrite because it changes no group.
LEMMA GrpInvNext == GrpInv /\ [GrpNext]_grpVars => GrpInv'
<1> SUFFICES ASSUME GrpInv, [GrpNext]_grpVars PROVE GrpInv'  OBVIOUS
<1>1. ASSUME NEW g \in Grps, NEW list \in Lists, GrpConfig(g, list) PROVE GrpInv'
  <2>1. /\ cfg' \in [Grps -> [count : 0 .. Capacity, entry : [0 .. Capacity - 1 -> Channels]]]
        /\ \A h \in Grps \ {g} : cfg'[h] = cfg[h]
        /\ \A e \in Shown(cfg'[g]) : e \in Shown(cfg[g])
                                       \/ \A h \in Grps \ {g} : e \notin Shown(cfg[h])
    BY <1>1, ConfigStep
  <2>2. PICK ok \in BOOLEAN : Return("config", g, ok)  BY <1>1 DEF GrpConfig
  <2>3. result' \in [call : {"none", "config", "write"}, grp : Grps, ok : BOOLEAN]
    BY <2>2, ReturnType
  <2>4. xx_data' \in [Channels -> Words]  BY <1>1 DEF GrpConfig, GrpInv, GrpTypeOK
  <2>5. GrpTypeOK'  BY <2>1, <2>3, <2>4 DEF GrpTypeOK
  <2>6. \A h \in Grps \ {g} : Shown(cfg'[h]) = Shown(cfg[h])  BY <2>1
  <2>7. \A h \in Grps \ {g} : Shown(cfg'[g]) \cap Shown(cfg'[h]) = {}
    BY <2>1, <2>6 DEF GrpInv, GroupsDisjoint
  <2>8. GroupsDisjoint'  BY <2>6, <2>7 DEF GrpInv, GroupsDisjoint
  <2> QED  BY <2>5, <2>8 DEF GrpInv
<1>2. ASSUME UNCHANGED cfg, xx_data' \in [Channels -> Words],
             result' \in [call : {"none", "config", "write"}, grp : Grps, ok : BOOLEAN]
      PROVE  GrpInv'
  BY <1>2 DEF GrpInv, GrpTypeOK, GroupsDisjoint
<1>3. ASSUME NEW g \in Grps, NEW list \in Lists, GrpConfigTooLong(g, list) PROVE GrpInv'
  <2>1. result' \in [call : {"none", "config", "write"}, grp : Grps, ok : BOOLEAN]
    BY <1>3, ReturnType DEF GrpConfigTooLong
  <2> QED  BY <2>1, <1>2, <1>3 DEF GrpConfigTooLong, GrpInv, GrpTypeOK
<1>4. ASSUME NEW g \in Grps, NEW words, GrpWrite(g, words) PROVE GrpInv'
  <2>1. result' \in [call : {"none", "config", "write"}, grp : Grps, ok : BOOLEAN]
    BY <1>4, ReturnType DEF GrpWrite
  <2> QED  BY <2>1, <1>2, <1>4 DEF GrpWrite
<1>5. ASSUME NEW g \in Grps, GrpWriteRefused(g) PROVE GrpInv'
  <2>1. result' \in [call : {"none", "config", "write"}, grp : Grps, ok : BOOLEAN]
    BY <1>5, ReturnType DEF GrpWriteRefused
  <2> QED  BY <2>1, <1>2, <1>5 DEF GrpWriteRefused, GrpInv, GrpTypeOK
<1>6. CASE UNCHANGED grpVars  BY <1>2, <1>6 DEF grpVars, GrpInv, GrpTypeOK
<1> QED  BY <1>1, <1>3, <1>4, <1>5, <1>6 DEF GrpNext

\* GrpInv holds after any sequence of calls of PID_xx_GrpConfig and PID_xx_GrpWrite.
THEOREM GroupInvariant == GrpSpec => []GrpInv
<1>1. GrpInit => GrpInv  BY GrpInvInit
<1>2. GrpInv /\ [GrpNext]_grpVars => GrpInv'  BY GrpInvNext
<1> QED  BY <1>1, <1>2, PTL DEF GrpSpec

\* After any sequence of calls, refused ones included, every channel a group holds is
\* one of the box: GrpRead and GrpWrite index the arrays of dev_buff within bounds.
THEOREM GroupTypeCorrect == GrpSpec => []GrpTypeOK
<1>1. GrpInv => GrpTypeOK  BY DEF GrpInv
<1> QED  BY <1>1, GroupInvariant, PTL

\* No channel belongs to two groups: the conflict check of PID_xx_GrpConfig suffices
\* although it stores the channels of a list it will refuse.
THEOREM ChannelsNotShared == GrpSpec => []GroupsDisjoint
<1>1. GrpInv => GroupsDisjoint  BY DEF GrpInv
<1> QED  BY <1>1, GroupInvariant, PTL

\* PID_xx_GrpWrite on one group changes no word of another.
THEOREM WordsNotShared == GrpSpec => GroupsKeepTheirs
<1>1. ASSUME GrpInv, [GrpNext]_grpVars
      PROVE  [\A g, h \in Grps : g # h /\ result'.call = "write" /\ result'.grp = g =>
                 \A e \in Shown(cfg[h]) : xx_data'[e] = xx_data[e]]_grpVars
  <2> SUFFICES ASSUME GrpNext, NEW g \in Grps, NEW h \in Grps, g # h,
                      result'.call = "write", result'.grp = g, NEW e \in Shown(cfg[h])
               PROVE  xx_data'[e] = xx_data[e]
    BY <1>1
  <2>1. CASE UNCHANGED xx_data  BY <2>1
  <2>2. ASSUME NEW k \in Grps, NEW words, GrpWrite(k, words) PROVE xx_data'[e] = xx_data[e]
    <3>1. k = g  BY <2>2 DEF GrpWrite, Return
    <3>2. e \in Channels
      <4>1. cfg[h] \in [count : 0 .. Capacity, entry : [0 .. Capacity - 1 -> Channels]]
        BY <1>1 DEF GrpInv, GrpTypeOK
      <4>2. cfg[h].count \in 0 .. Capacity /\ cfg[h].entry \in [0 .. Capacity - 1 -> Channels]
        BY <4>1
      <4>3. PICK i \in 0 .. cfg[h].count - 1 : e = cfg[h].entry[i]  BY DEF Shown
      <4>4. i \in 0 .. Capacity - 1  BY <4>2, <4>3, CapacityIsNat
      <4> QED  BY <4>2, <4>3, <4>4
    <3>3. e \notin Shown(cfg[g])  BY <1>1 DEF GrpInv, GroupsDisjoint
    <3>4. e \notin {Cell(g, i) : i \in 0 .. cfg[g].count - 1}  BY <3>3 DEF Shown, Cell
    <3> QED  BY <2>2, <3>1, <3>2, <3>4 DEF GrpWrite
  <2> QED  BY <2>1, <2>2 DEF GrpNext, GrpConfig, GrpConfigTooLong, GrpWriteRefused
<1> QED  BY <1>1, GroupInvariant, PTL DEF GrpSpec, GroupsKeepTheirs
=============================================================================
