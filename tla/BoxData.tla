----------------------------- MODULE BoxData -----------------------------
(***************************************************************************)
(* The data of one box in one interface process of piditf_c1: ReadDvc      *)
(* files the lines of *-B1.DVC as signals (ADPSS_PID_MAIN.cpp), the four   *)
(* classes configure the cards (ADPSS_PID_AI/AO/DI/DO.cpp), and every step *)
(* of RtEmtPhy carries the inputs from the words __rx_event stores to the  *)
(* computing processes, and their outputs to the frame PID_Update_NewData  *)
(* writes (yjdnet.c).  The thread __rx_event runs all the while and takes  *)
(* no lock.                                                                *)
(*                                                                         *)
(* Words and values are integers of a smaller scale than the code's: Unit  *)
(* values stand for 1.0, High for the top bit of a word.  Volt of the AO   *)
(* is kept as the set of the terms that were added up in it, with the step *)
(* each was received in.  Values of Virt2InstVal signals, which c1 never   *)
(* updates, are left out.                                                  *)
(***************************************************************************)
EXTENDS Integers, Sequences, FiniteSetsExt

CONSTANTS
  Slots,      \* the slots of the box: 0 .. MAX_SLOTS - 1
  Chans,      \* the channels of a card
  Card,       \* Card[s]: the kind of card in slot s
  Files,      \* the contents *-B1.DVC may have
  MaxFaults,  \* bound: requests of init a slot does not answer, bad calibrations
  OutValues,  \* what a computing process outputs
  MaxFrames,  \* bound: frames of the box
  Steps,      \* how many steps the simulation has
  FirstStep   \* the first step whose outputs are sent (TStart)

Unit == 4     \* 1.0
High == 8     \* the top bit
AoRest == 2   \* the word of 0 volts (0x8000); the calibration has slope 1
AoTop == 4    \* the largest word (65535)
AiZero == 3   \* Itcp of the inputs, slope 1

Kinds == {"AI", "AO", "DI", "DO"}
IsInput(kind) == kind \in {"AI", "DI"}

Lines == [kind : Kinds, idno : Nat, proc : Nat, slot : Slots, chan : Chans,
          gain : Int, iospec : 0 .. 2]

ASSUME BoxDataAssumption ==
  /\ Slots \subseteq Nat /\ IsFiniteSet(Slots)
  /\ Chans \subseteq Nat /\ IsFiniteSet(Chans)
  /\ Card \in [Slots -> Kinds]
  /\ Files \subseteq Seq(Lines)
  /\ \A dvc \in Files : \A i \in DOMAIN dvc : Card[dvc[i].slot] = dvc[i].kind
  /\ MaxFaults \in Nat
  /\ OutValues \subseteq Int
  /\ MaxFrames \in Nat /\ Steps \in Nat \ {0} /\ FirstStep \in Nat

VARIABLES
  dvc,     \* the lines of *-B1.DVC
  pc,      \* where the process is, and its counters
  SimProc, \* ProcPhy.SimProc: the computing processes in the order they are met, and how
           \* many inputs and outputs each has
  var,     \* var[k]: VarInf of the signals of kind k
  ret,     \* ret[k]: what init of the class returned
  dev,     \* card_type, card_mode, and the length of group 0 of each kind
  in,      \* in[s][c]: the frame of the box a word of di_data or ai_data is of
  out,     \* out[s][c]: the word of do_data or ao_data
  rx,      \* the frame __rx_event is storing, and the cells whose words are left
  sample,  \* sample[k]: data of the AI and DI, by the frame each word is of
  volt,    \* volt[k]: the terms of Volt of the AO, data of the DO
  data,    \* data[p]: SimProc[].Data, used for both directions
  sent     \* the words of the last simulation frame, and of which step it is

vars == <<dvc, pc, SimProc, var, ret, dev, in, out, rx, sample, volt, data, sent>>
config == <<dvc, SimProc, var, ret, dev>>

(***************************************************************************)
(* ReadDvc.                                                                *)
(***************************************************************************)
OneMore(p, l) == IF IsInput(l.kind) THEN [p EXCEPT !.nIn = @ + 1] ELSE [p EXCEPT !.nOut = @ + 1]

\* Every line counts for its process, which is new if it was not met before.
Counted(l) ==
  IF \E j \in DOMAIN SimProc : SimProc[j].Id = l.proc
  THEN [j \in DOMAIN SimProc |-> IF SimProc[j].Id = l.proc THEN OneMore(SimProc[j], l)
                                 ELSE SimProc[j]]
  ELSE Append(SimProc, OneMore([Id |-> l.proc, nIn |-> 0, nOut |-> 0], l))

ReadLine ==
  /\ pc.at = "read"
  /\ IF pc.i <= Len(dvc)
     THEN /\ SimProc' = Counted(dvc[pc.i])
          /\ pc' = [pc EXCEPT !.i = @ + 1]
     ELSE /\ pc' = [pc EXCEPT !.at = "file", !.i = 1]
          /\ UNCHANGED SimProc
  /\ UNCHANGED <<dvc, var, ret, dev, in, out, rx, sample, volt, data, sent>>

\* addavar of the four classes, place being that of the line among the inputs, or the
\* outputs, of its process.  A number that is there already is refused by the AI; the
\* others add the variable to the signal.
SimVar(l, place) == [prono |-> l.proc, idxIO |-> place, kamplify |-> l.gain]
NewSignal(l, place) == [idno |-> l.idno, slot |-> l.slot, chan |-> l.chan, iospec |-> l.iospec,
                        VSimIO |-> <<SimVar(l, place)>>]
Same(list, l) == {x \in DOMAIN list : list[x].idno = l.idno}

addavar(list, l, place) ==
  IF Same(list, l) = {} THEN Append(list, NewSignal(l, place))
  ELSE IF l.kind = "AI" THEN list
  ELSE [x \in DOMAIN list |-> IF x \in Same(list, l)
                              THEN [list[x] EXCEPT !.VSimIO = Append(@, SimVar(l, place))]
                              ELSE list[x]]

OfProc(l) == l.proc = SimProc[pc.n].Id

\* Process after process, its lines: nIn and nOut count those that were filed.
FileLine ==
  /\ pc.at = "file" /\ pc.n <= Len(SimProc) /\ pc.i <= Len(dvc)
  /\ LET l == dvc[pc.i]
     IN IF ~OfProc(l) THEN pc' = [pc EXCEPT !.i = @ + 1] /\ UNCHANGED var
        ELSE IF IsInput(l.kind)
        THEN /\ var' = [var EXCEPT ![l.kind] = addavar(@, l, pc.nIn)]
             /\ pc' = [pc EXCEPT !.i = @ + 1, !.nIn = @ + 1]
        ELSE /\ var' = [var EXCEPT ![l.kind] = addavar(@, l, pc.nOut)]
             /\ pc' = [pc EXCEPT !.i = @ + 1, !.nOut = @ + 1]
  /\ UNCHANGED <<dvc, SimProc, ret, dev, in, out, rx, sample, volt, data, sent>>

ProcDone ==
  /\ pc.at = "file" /\ pc.n <= Len(SimProc) /\ pc.i > Len(dvc)
  /\ pc' = [pc EXCEPT !.n = @ + 1, !.i = 1, !.nIn = 0, !.nOut = 0]
  /\ UNCHANGED <<config, in, out, rx, sample, volt, data, sent>>

\* allocBuf; Data of a process has room for all variables.
AllocBuf ==
  /\ pc.at = "file" /\ pc.n > Len(SimProc)
  /\ sample' = [k \in {"AI", "DI"} |-> [x \in DOMAIN var[k] |-> -1]]
  /\ volt' = [AO |-> [x \in DOMAIN var.AO |-> {}], DO |-> [x \in DOMAIN var.DO |-> 0]]
  /\ data' = [p \in {SimProc[j].Id : j \in DOMAIN SimProc} |-> [idx \in 0 .. Len(dvc) |-> 0]]
  /\ pc' = [pc EXCEPT !.at = "AI"]
  /\ UNCHANGED <<config, in, out, rx, sent>>

ReadDvc == ReadLine \/ FileLine \/ ProcDone \/ AllocBuf

Init ==
  /\ dvc \in Files
  /\ pc = [at |-> "read", n |-> 1, i |-> 1, nIn |-> 0, nOut |-> 0, ITime |-> 1, since |-> 0,
           faults |-> 0]
  /\ SimProc = <<>>
  /\ var = [k \in Kinds |-> <<>>]
  /\ ret = [k \in Kinds |-> -1]
  /\ dev = [card_type |-> [s \in Slots |-> "NO"], card_mode |-> [s \in Slots |-> 0],
            count |-> [k \in Kinds |-> 0]]
  /\ in = [s \in Slots |-> [c \in Chans |-> 0]]
  /\ out = [s \in Slots |-> [c \in Chans |-> 0]]
  /\ rx = [frame |-> 0, left |-> {}]
  /\ sample = <<>> /\ volt = <<>> /\ data = <<>>
  /\ sent = [step |-> 0, word |-> <<>>]

(***************************************************************************)
(* init of the four classes, called one after the other by CADPSS_PID::init *)
(* whatever the one before returned.  A slot that does not answer leaves    *)
(* slot_info as it was on the stack.                                       *)
(***************************************************************************)
After(k) == CASE k = "AI" -> "AO" [] k = "AO" -> "DI" [] k = "DI" -> "DO" [] k = "DO" -> "step"

NoSignals(k) ==
  /\ pc.at = k /\ var[k] = <<>>
  /\ pc' = [pc EXCEPT !.at = After(k)]
  /\ UNCHANGED <<config, in, out, rx, sample, volt, data, sent>>

\* GrpConfig takes the list of the signals if it is shorter than the box.
GroupLength(k) == IF Len(var[k]) < Cardinality(Slots) * Cardinality(Chans) THEN Len(var[k]) ELSE 0

Faults(good) == IF good THEN 0 ELSE 1

InitClass(k) ==
  /\ pc.at = k /\ var[k] # <<>>
  /\ \E answered \in SUBSET Slots, info \in [Slots -> Kinds \cup {"NO"}], good \in BOOLEAN :
       /\ \A s \in answered : info[s] = Card[s]
       /\ pc.faults + Cardinality(Slots \ answered) + Faults(good) <= MaxFaults
       /\ pc' = [pc EXCEPT !.at = After(k),
                           !.faults = @ + Cardinality(Slots \ answered) + Faults(good)]
       /\ out' = [s \in Slots |-> IF s \in answered /\ Card[s] = "AO"
                                  THEN [c \in Chans |-> AoRest] ELSE out[s]]
       /\ LET used  == {var[k][i].slot : i \in DOMAIN var[k]}
              wrong == \E s \in used : info[s] # k
              bad   == k = "AO" /\ ~good
          IN /\ ret' = [ret EXCEPT ![k] = IF wrong THEN -2 ELSE IF bad THEN -3 ELSE 0]
             /\ dev' = [card_type |-> [s \in Slots |-> IF s \in answered THEN Card[s]
                                                       ELSE dev.card_type[s]],
                        card_mode |-> [s \in Slots |-> IF s \in used /\ ~wrong THEN 1
                                                       ELSE dev.card_mode[s]],
                        count |-> IF wrong \/ bad THEN dev.count
                                  ELSE [dev.count EXCEPT ![k] = GroupLength(k)]]
  /\ UNCHANGED <<dvc, SimProc, var, in, rx, sample, volt, data, sent>>

(***************************************************************************)
(* __rx_event stores the words of a simulation frame one by one.  The box  *)
(* sends the words of the input cards that have a mode, card after card;   *)
(* it may lose frames.                                                     *)
(***************************************************************************)
InputCells ==
  {cell \in Slots \X Chans : dev.card_mode[cell[1]] # 0 /\ IsInput(dev.card_type[cell[1]])}

Before(a, b) == a[1] < b[1] \/ (a[1] = b[1] /\ a[2] < b[2])

Simulating == pc.at \notin {"read", "file", "AI", "AO", "DI", "DO"}

RxFrame ==
  /\ Simulating
  /\ rx.left = {}
  /\ \E n \in rx.frame + 1 .. MaxFrames : rx' = [frame |-> n, left |-> InputCells]
  /\ UNCHANGED <<config, pc, in, out, sample, volt, data, sent>>

RxStore ==
  \E cell \in rx.left :
    /\ \A other \in rx.left \ {cell} : Before(cell, other)
    /\ in' = [in EXCEPT ![cell[1]][cell[2]] = rx.frame]
    /\ rx' = [rx EXCEPT !.left = @ \ {cell}]
    /\ UNCHANGED <<config, pc, out, sample, volt, data, sent>>

\* The newest frame all words of which are stored.
Whole == Min({in[cell[1]][cell[2]] : cell \in InputCells} \cup {rx.frame})

\* The word the box has for a channel in its n-th frame; 0 before the first.
BoxWord(kind, s, c, n) ==
  CASE n = -1 -> -100
    [] n = 0  -> 0
    [] n > 0 /\ kind = "AI" -> 5 * n + 2 * s + c
    [] n > 0 /\ kind = "DI" -> High * ((n + c) % 2) + (n % Unit)

(***************************************************************************)
(* A step of RtEmtPhy: the inputs.                                         *)
(***************************************************************************)
\* faults is of no more use: forgetting it joins states that differ in nothing else.
getSignal_NextDT ==
  /\ pc.at = "step"
  /\ pc' = [pc EXCEPT !.at = "readAI", !.i = 1, !.since = Whole, !.faults = 0]
  /\ UNCHANGED <<config, in, out, rx, sample, volt, data, sent>>

\* PID_xx_GrpRead refuses a count that is not the group's.
Reads(k) == Len(var[k]) = dev.count[k] /\ pc.i <= Len(var[k])

ReadWord(at, k) ==
  /\ pc.at = at
  /\ Reads(k)
  /\ sample' = [sample EXCEPT ![k][pc.i] = in[var[k][pc.i].slot][var[k][pc.i].chan]]
  /\ pc' = [pc EXCEPT !.i = @ + 1]
  /\ UNCHANGED <<config, in, out, rx, volt, data, sent>>

EndRead(at, k, next) ==
  /\ pc.at = at
  /\ ~Reads(k)
  /\ pc' = [pc EXCEPT !.at = next, !.i = 1]
  /\ UNCHANGED <<config, in, out, rx, sample, volt, data, sent>>

\* Mutant of getdatafromPID: the DI are read in the first step only.
getdatafromPIDOnce ==
  \/ ReadWord("readAI", "AI")
  \/ EndRead("readAI", "AI", IF pc.ITime = 1 THEN "readDI" ELSE "inputs")
  \/ ReadWord("readDI", "DI") \/ EndRead("readDI", "DI", "inputs")

getdatafromPID ==
  \/ ReadWord("readAI", "AI") \/ EndRead("readAI", "AI", "readDI")
  \/ ReadWord("readDI", "DI") \/ EndRead("readDI", "DI", "inputs")

\* A pulse counts when it is there (iospec 1) or missing (2); a level otherwise.
DiValue(w, iospec) ==
  LET on == w >= High
      us == w % High
  IN CASE iospec = 1 -> IF on THEN Unit + us ELSE 0
       [] iospec = 2 -> IF on THEN 0 ELSE Unit + us
       [] OTHER      -> IF on THEN Unit + us ELSE us

InputValue(k, sig, gain, n) ==
  LET w == BoxWord(k, sig.slot, sig.chan, n)
  IN IF k = "AI" THEN gain * (w - AiZero) ELSE DiValue(w, sig.iospec)

\* setSimuVal: only the first variable of a signal is served; the DI store after the AI,
\* and of the signals of a class the last one stays.
Serves(k, p, idx) ==
  {x \in DOMAIN var[k] : var[k][x].VSimIO[1].prono = p /\ var[k][x].VSimIO[1].idxIO = idx}

ValueFor(k, p, idx) ==
  LET x == Max(Serves(k, p, idx))
  IN InputValue(k, var[k][x], var[k][x].VSimIO[1].kamplify, sample[k][x])

setSimuVal(p, idx) ==
  IF Serves("DI", p, idx) # {} THEN ValueFor("DI", p, idx)
  ELSE IF Serves("AI", p, idx) # {} THEN ValueFor("AI", p, idx)
  ELSE data[p][idx]

\* setSimuVal and MPI_Send for each process; the datum after the inputs is send_err.
SendInputs ==
  /\ pc.at = "inputs"
  /\ data' = [p \in DOMAIN data |-> [idx \in DOMAIN data[p] |->
                IF \E j \in DOMAIN SimProc : SimProc[j].Id = p /\ SimProc[j].nIn = idx THEN 0
                ELSE setSimuVal(p, idx)]]
  /\ pc' = [pc EXCEPT !.at = IF SimProc = <<>> THEN "send" ELSE "recv"]
  /\ UNCHANGED <<config, in, out, rx, sample, volt, sent>>

(***************************************************************************)
(* ... and the outputs.                                                    *)
(***************************************************************************)
DoWord(v) == (v \div Unit) * High + (v % Unit)

\* The variables of a signal that belong to process p.
Takes(signal, p) == {j \in DOMAIN signal.VSimIO : signal.VSimIO[j].prono = p}
Term(v, Vin) == [prono |-> v.prono, idxIO |-> v.idxIO, step |-> pc.ITime,
                 add |-> v.kamplify * Vin[v.idxIO]]
Terms(signal, p, Vin) == {Term(signal.VSimIO[j], Vin) : j \in Takes(signal, p)}

\* Mutant of GetSimuVal: the first variable of an AO adds to the sum as the others do.
GetSimuValAdding(p, Vin) ==
  [AO |-> [x \in DOMAIN var.AO |-> volt.AO[x] \cup Terms(var.AO[x], p, Vin)],
   DO |-> [x \in DOMAIN var.DO |->
            IF 1 \in Takes(var.DO[x], p) THEN DoWord(Vin[var.DO[x].VSimIO[1].idxIO])
            ELSE volt.DO[x]]]

\* GetSimuVal of the AO: the first variable of a signal sets the sum, the others add to
\* it; of the DO: only the first variable is taken.
GetSimuVal(p, Vin) ==
  [AO |-> [x \in DOMAIN var.AO |->
            IF 1 \in Takes(var.AO[x], p) THEN Terms(var.AO[x], p, Vin)
            ELSE volt.AO[x] \cup Terms(var.AO[x], p, Vin)],
   DO |-> [x \in DOMAIN var.DO |->
            IF 1 \in Takes(var.DO[x], p) THEN DoWord(Vin[var.DO[x].VSimIO[1].idxIO])
            ELSE volt.DO[x]]]

\* MPI_Recv overwrites the array the inputs were sent from.
RecvOutputs ==
  /\ pc.at = "recv"
  /\ LET p    == SimProc[pc.i].Id
         nOut == SimProc[pc.i].nOut
     IN \E outs \in [0 .. nOut - 1 -> OutValues] :
          LET Vin == [idx \in DOMAIN data[p] |->
                       IF idx < nOut THEN outs[idx] ELSE IF idx = nOut THEN 0 ELSE data[p][idx]]
          IN /\ data' = [data EXCEPT ![p] = Vin]
             /\ volt' = GetSimuVal(p, Vin)
  /\ pc' = IF pc.i = Len(SimProc) THEN [pc EXCEPT !.at = "send", !.i = 1]
           ELSE [pc EXCEPT !.i = @ + 1]
  /\ UNCHANGED <<config, in, out, rx, sample, sent>>

Sum(terms) == MapThenSumSet(LAMBDA t : t.add, terms)
Clip(v) == IF v < 0 THEN 0 ELSE IF v > AoTop THEN AoTop ELSE v

\* Mutant of AoWord: the volts are not limited.
AoWordNoClip(terms) == Sum(terms) + AoRest

AoWord(terms) == Clip(Sum(terms) + AoRest)

\* The signals of the group that are written to a channel.
GroupWord(k, s, c) == {i \in DOMAIN var[k] : var[k][i].slot = s /\ var[k][i].chan = c}

\* PID_xx_GrpWrite refuses a count that is not the group's.
Written(s, c) ==
  LET at(k) == IF Len(var[k]) = dev.count[k] THEN GroupWord(k, s, c) ELSE {}
  IN CASE at("AO") # {} -> AoWord(volt.AO[Max(at("AO"))])
       [] at("DO") # {} -> volt.DO[Max(at("DO"))]
       [] OTHER -> out[s][c]

\* SenddataToPID: GrpWrite of the AO and DO, and the frame of PID_Update_NewData.
SenddataToPID ==
  /\ pc.at = "send"
  /\ IF pc.ITime >= FirstStep
     THEN /\ out' = [s \in Slots |-> [c \in Chans |-> Written(s, c)]]
          /\ sent' = [step |-> pc.ITime,
                      word |-> [s \in {t \in Slots : dev.card_mode[t] # 0
                                                     /\ dev.card_type[t] \in {"AO", "DO"}} |->
                                 out'[s]]]
     ELSE UNCHANGED <<out, sent>>
  /\ pc' = [pc EXCEPT !.at = "end"]
  /\ UNCHANGED <<config, in, rx, sample, volt, data>>

EndStep ==
  /\ pc.at = "end"
  /\ pc' = IF pc.ITime = Steps THEN [pc EXCEPT !.at = "done"]
           ELSE [pc EXCEPT !.at = "step", !.ITime = @ + 1]
  /\ UNCHANGED <<config, in, out, rx, sample, volt, data, sent>>

Next ==
  \/ ReadDvc
  \/ \E k \in Kinds : NoSignals(k) \/ InitClass(k)
  \/ RxFrame \/ RxStore
  \/ getSignal_NextDT \/ getdatafromPID \/ SendInputs
  \/ RecvOutputs \/ SenddataToPID \/ EndStep

Spec == Init /\ [][Next]_vars

(***************************************************************************)
(* Properties.                                                             *)
(***************************************************************************)
\* Types of the state: the words of the outputs stay in 0 .. AoTop (AO) and the two
\* bits of DoWord (DO) whatever the computing processes send.
TypeOK ==
  /\ dvc \in Files
  /\ pc.ITime \in 1 .. Steps /\ pc.since \in 0 .. MaxFrames
  /\ ret \in [Kinds -> {0, -1, -2, -3}]
  /\ dev.card_type \in [Slots -> Kinds \cup {"NO"}]
  /\ dev.card_mode \in [Slots -> {0, 1}]
  /\ in \in [Slots -> [Chans -> 0 .. MaxFrames]]
  /\ \A s \in Slots, c \in Chans : Card[s] = "AO" => out[s][c] \in 0 .. AoTop
  /\ rx.frame \in 0 .. MaxFrames /\ rx.left \subseteq Slots \X Chans

LineIndices == DOMAIN dvc

\* The place of line i among the inputs, or the outputs, of its process.
Place(i) ==
  Cardinality({j \in 1 .. i - 1 : dvc[j].proc = dvc[i].proc
                                  /\ IsInput(dvc[j].kind) = IsInput(dvc[i].kind)})

Given(i) == data[dvc[i].proc][Place(i)]

\* What line i may be given if its word may be of the frames in ns.
Possible(i, ns) == {InputValue(dvc[i].kind, dvc[i], dvc[i].gain, n) : n \in ns}

InputLines == {i \in LineIndices : IsInput(dvc[i].kind)}
InputsSent == pc.at = "recv" /\ pc.i = 1

\* The class has initialised its cards, and the driver knows what they are.
Working(k) == ret[k] = 0 /\ \A i \in DOMAIN var[k] : dev.card_type[var[k][i].slot] = k

\* What a computing process gets at the place of a line is the word of the line's
\* channel of the box, converted, and of no frame older than the last one that was
\* complete when the step began, however __rx_event, which takes no lock, stores
\* words meanwhile.
InputsAreFresh ==
  InputsSent => \A i \in InputLines :
    Working(dvc[i].kind) => Given(i) \in Possible(i, pc.since .. rx.frame)

\* The lines that share the number of line i add up, be they of one or several processes.
Summed(i) == {j \in LineIndices : dvc[j].kind = "AO" /\ dvc[j].idno = dvc[i].idno}
SummedTerms(i) ==
  {[prono |-> dvc[j].proc, idxIO |-> Place(j), step |-> sent.step, add |-> dvc[j].gain * Given(j)] :
    j \in Summed(i)}

FrameSent == pc.at = "end" /\ sent.step = pc.ITime

\* The frame of a step has, at the channel of each line, what the processes sent in
\* this step: nothing of the step before, nothing of another line, every process once.
OutputsAtTheirChannel ==
  FrameSent =>
    \A i \in LineIndices \ InputLines : Working(dvc[i].kind) =>
      /\ dvc[i].slot \in DOMAIN sent.word
      /\ sent.word[dvc[i].slot][dvc[i].chan] =
           IF dvc[i].kind = "AO" THEN AoWord(SummedTerms(i)) ELSE DoWord(Given(i))

\* The channels of these cards that no line names stay at rest: 0 volts, open; and so
\* does every channel of a card whose class could not be initialised.
OthersAtRest ==
  FrameSent =>
    \A s \in DOMAIN sent.word, c \in Chans :
      (ret[Card[s]] = 0 => \A i \in LineIndices : dvc[i].slot # s \/ dvc[i].chan # c) =>
        sent.word[s][c] = IF Card[s] = "AO" THEN AoRest ELSE 0

\* Every channel of a frame has what it should have of this step.
FrameOfTheStep == OutputsAtTheirChannel /\ OthersAtRest
==========================================================================
