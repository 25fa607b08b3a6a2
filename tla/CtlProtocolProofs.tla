------------------------- MODULE CtlProtocolProofs -------------------------
(***************************************************************************)
(* Proofs about CtlProtocol, for every number of slots, cards and faults.  *)
(*                                                                         *)
(* The box executes the frames in their order, so what it will be when all *)
(* frames under way have reached it is told by the last of them that sets  *)
(* a part of its state.  The invariant says, for each place of a call of   *)
(* the driver, what this will be, however late the answers are.            *)
(***************************************************************************)
EXTENDS CtlProtocol, TLAPS

(***************************************************************************)
(* Types.                                                                  *)
(***************************************************************************)
Steps ==
  {"readSync", "writeSync", "info", "infoPara", "readMode", "writeMode", "readPara",
   "writePara", "stop", "types", "start", "stopAll"}
Writes == {"writeSync", "writeMode", "writePara", "stop", "types", "start", "stopAll"}
ToMaster == {"readSync", "writeSync", "stop", "types", "start", "stopAll"}

Regs == {"sync", "info", "mode", "para", "types", "data"}
TypeWords == {t + 256 * m : t \in Types, m \in Values}
Packets ==
  [card : Slots \cup {SEL_MASTER}, func : {"READ", "WRITE"}, reg : Regs,
   full : BOOLEAN, data : Seq(Nat), current : BOOLEAN]

\* A frame the driver writes: the box finds the words its register needs.
FrameOK(pkt) ==
  /\ pkt \in Packets
  /\ pkt.data # <<>>
  /\ pkt.func = "READ" =>
       \/ pkt.reg \in {"sync", "data"}
       \/ (pkt.reg \in {"info", "mode", "para"} /\ pkt.card \in Slots)
  /\ pkt.func = "WRITE" =>
       \/ pkt.reg = "sync"
       \/ /\ pkt.reg = "types" /\ pkt.card = SEL_MASTER
          /\ Len(pkt.data) = MAX_SLOTS
          /\ \A s \in Slots : pkt.data[s + 1] \in TypeWords
       \/ /\ pkt.reg \in {"mode", "para"} /\ pkt.card \in Slots
          /\ pkt.data[1] \in Values
       \/ /\ pkt.reg = "mode" /\ pkt.card = SEL_MASTER
          /\ \/ Len(pkt.data) = 1
             \/ /\ Len(pkt.data) = MAX_SLOTS + 1
                /\ \A s \in Slots : pkt.data[s + 2] \in Values

\* A packet from the box: what it answers to a read is of the register.
AnswerOK(pkt) ==
  /\ pkt \in Packets
  /\ pkt.data # <<>>
  /\ pkt.func = "READ" /\ pkt.reg = "info" => pkt.data[1] \in Types
  /\ pkt.func = "READ" /\ pkt.reg \in {"mode", "para"} => pkt.data[1] \in Values

FramesOK(q) == q \in Seq(Packets) /\ \A i \in 1 .. Len(q) : FrameOK(q[i])
AnswersOK(q) == q \in Seq(Packets) /\ \A i \in 1 .. Len(q) : AnswerOK(q[i])

Boxes ==
  [running : BOOLEAN, mode : [Slots -> Values],
   declared : [Slots -> TypeWords], para : [Slots -> Values]]
Histories ==
  [fails : Nat, lost : Nat, late : Nat, para : [Slots -> Values], known : BOOLEAN]
CallRecords ==
  [fn : Functions \cup {"none"}, slot : Slots, val : Values,
   plan : Seq(Steps), pc : {"idle", "send", "wait"}, bak : {0, 1}]
Results ==
  [fn : Functions \cup {"none"}, slot : Slots, err : BOOLEAN, val : Values]

TypeInv ==
  /\ FramesOK(down) /\ AnswersOK(up) /\ AnswerOK(ctl_pkt)
  /\ box \in Boxes
  /\ status \in {0, 1}
  /\ card_type \in [Slots -> Types] /\ card_mode \in [Slots -> Values]
  /\ call \in CallRecords /\ ret \in Results /\ history \in Histories
  /\ Faults <= MaxFaults

(***************************************************************************)
(* The call of the driver.                                                 *)
(***************************************************************************)
ParaCalls == {ReadPara, WritePara}
InSimulation == call.fn \in ParaCalls /\ call.bak = 1

\* The steps of a call; bak tells whether it interrupts a simulation.
StepsOf(fn, bak) ==
  CASE fn = "PID_Sync_ReadConfig"  -> {"readSync"}
    [] fn = "PID_Sync_WriteConfig" -> {"writeSync"}
    [] fn = "PID_Slot_ReadInfo"    -> {"info", "infoPara"}
    [] fn = "PID_Slot_ReadConfig"  -> {"readMode"}
    [] fn = "PID_Slot_WriteConfig" -> {"writeMode"}
    [] fn = ReadPara  ->
         IF bak = 0 THEN {"readPara"} ELSE {"stop", "readPara", "types", "start"}
    [] fn = WritePara ->
         IF bak = 0 THEN {"writePara"} ELSE {"stop", "writePara", "types", "start"}
    [] fn = START     -> {"types", "start"}
    [] fn = STOP      -> {"types", "stopAll"}
    [] OTHER          -> {}

\* The last exchange of a call, and the exchange after each other.
LastStep(step, bak) ==
  \/ step \in {"readSync", "writeSync", "infoPara", "readMode", "writeMode",
               "start", "stopAll"}
  \/ step \in {"readPara", "writePara"} /\ bak = 0

After(step, fn) ==
  CASE step = "info"  -> "infoPara"
    [] step = "stop"  -> IF fn = ReadPara THEN "readPara" ELSE "writePara"
    [] step = "types" -> IF fn = STOP THEN "stopAll" ELSE "start"
    [] OTHER          -> "types"

\* What is left of a script, by its first step.
PlanFrom(step, fn, bak) ==
  CASE step = "info" -> <<"info", "infoPara">>
    [] step = "stop" ->
         <<"stop", IF fn = ReadPara THEN "readPara" ELSE "writePara", "types", "start">>
    [] step \in {"readPara", "writePara"} ->
         IF bak = 0 THEN <<step>> ELSE <<step, "types", "start">>
    [] step = "types" -> <<"types", IF fn = STOP THEN "stopAll" ELSE "start">>
    [] OTHER -> <<step>>

\* A call is idle, or on one of its steps; only PID_Unit_Cmd(CMD_STOP_SIM)
\* begins while status is 1, and a call returns before the next.
CallInv ==
  /\ call.pc = "idle" => call = Idle
  /\ call.pc # "idle" =>
       /\ ret = NoRet
       /\ Step \in StepsOf(call.fn, call.bak)
       /\ call.plan = PlanFrom(Step, call.fn, call.bak)
       /\ call.fn # STOP => status = 0

(***************************************************************************)
(* Answers.                                                                *)
(***************************************************************************)
\* While every sleep was long enough, what is not of the exchange under way
\* is of no control exchange at all.
FreshInv ==
  history.late = 0 =>
    /\ \A i \in 1 .. Len(down) : down[i].reg = "data" \/ (call.pc = "wait" /\ down[i].current)
    /\ \A i \in 1 .. Len(up) : up[i].reg = "data" \/ (call.pc = "wait" /\ up[i].current)
    /\ call.pc = "wait" => ctl_pkt.current \/ ctl_pkt.reg = "data" \/ ~ctl_pkt.full

\* The newest packet on the way is the request of the exchange, or its answer.
NewestInv ==
  history.lost = 0 /\ call.pc = "wait" /\ Exchanges[Step].func = "READ" =>
    \/ down # <<>> /\ Answers(down[Len(down)], Step)
    \/ down = <<>> /\ up # <<>> /\ Answers(up[Len(up)], Step)
    \/ Drained /\ Answers(ctl_pkt, Step)

CurrentInv ==
  call.pc = "wait" => \A i \in 1 .. Len(down) : down[i].current => i = Len(down)

\* Every read under way, however late, is the one of the exchange that waits for
\* its answer, or one that is recorded to be left.
Asked == <<Addressee(Step), Exchanges[Step].reg>>
KnownRead(pkt) ==
  pkt.func = "READ" /\ pkt.reg # "data" =>
    \/ <<pkt.card, pkt.reg>> \in left
    \/ /\ call.pc = "wait" /\ pkt.current
       /\ Exchanges[Step].func = "READ" /\ <<pkt.card, pkt.reg>> = Asked

LeftInv ==
  /\ \A i \in 1 .. Len(down) : KnownRead(down[i])
  /\ \A i \in 1 .. Len(up) : KnownRead(up[i])
  /\ call.pc = "wait" /\ ctl_pkt.full => KnownRead(ctl_pkt)
  /\ left \subseteq (Slots \cup {SEL_MASTER}) \X {Exchanges[step].reg : step \in DOMAIN Exchanges}

(***************************************************************************)
(* What the box will be.                                                   *)
(***************************************************************************)
Parts == [what : {"running", "mode", "declared", "para"}, slot : Slots]
Part(what, s) == [what |-> what, slot |-> s]

\* Whether a frame sets a part of the box, and to what.
Sets(pkt, c) ==
  /\ pkt.func = "WRITE"
  /\ \/ c.what = "running" /\ pkt.reg = "mode" /\ pkt.card = SEL_MASTER
     \/ /\ c.what = "mode" /\ pkt.reg = "mode"
        /\ pkt.card = c.slot \/ (pkt.card = SEL_MASTER /\ Len(pkt.data) # 1)
     \/ c.what = "declared" /\ pkt.reg = "types"
     \/ c.what = "para" /\ pkt.reg = "para" /\ pkt.card = c.slot

Flag(b) == IF b THEN 1 ELSE 0

Setting(pkt, c) ==
  CASE c.what = "running"  -> Flag(pkt.data[1] = 1)
    [] c.what = "mode"     -> IF pkt.card = SEL_MASTER THEN pkt.data[c.slot + 2] ELSE pkt.data[1]
    [] c.what = "declared" -> pkt.data[c.slot + 1]
    [] c.what = "para"     -> pkt.data[1]

Present(b, c) ==
  CASE c.what = "running"  -> Flag(b.running)
    [] c.what = "mode"     -> b.mode[c.slot]
    [] c.what = "declared" -> b.declared[c.slot]
    [] c.what = "para"     -> b.para[c.slot]

\* The last frame of q that sets part c sets it to v; or there is none and it
\* is v in b.
WillBe(q, b, c, v) ==
  \/ \E i \in 1 .. Len(q) :
       /\ Sets(q[i], c) /\ Setting(q[i], c) = v
       /\ \A j \in 1 .. Len(q) : j > i => ~Sets(q[j], c)
  \/ (\A i \in 1 .. Len(q) : ~Sets(q[i], c)) /\ Present(b, c) = v

Runs(v) == WillBe(down, box, Part("running", 0), v)

\* The simulation is stopped but while a call of the driver starts it, or has
\* not yet stopped it, and status tells.
StartUnderWay == call.pc = "wait" /\ Step = "start"

HaltedInv ==
  history.known /\ status = 0 /\ ~InSimulation /\ ~StartUnderWay => Runs(0)
InterruptedInv ==
  InSimulation /\ ~(call.pc = "send" /\ Step = "stop") /\ ~StartUnderWay => Runs(0)
StartInv == StartUnderWay => Runs(1)
StopInv == call.pc = "wait" /\ Step = "stopAll" => Runs(0)
SimulatingInv == Faults = 0 /\ call.pc = "idle" /\ status = 1 => Runs(1)
UnknownInv == Faults = 0 /\ ~history.known => call.fn = STOP

RunInv ==
  history.lost = 0 => /\ HaltedInv /\ InterruptedInv /\ StartInv /\ StopInv
                      /\ SimulatingInv /\ UnknownInv

DeclaredWill == \A s \in Slots : WillBe(down, box, Part("declared", s), TypeWord(s))
ModesWill == \A s \in Slots : WillBe(down, box, Part("mode", s), card_mode[s])

\* While status is 1, or will be, the modes and the cards are those of dev; a
\* PID_Unit_Cmd(CMD_START_SIM) sends first the cards, then the modes.
ModesKnownInv ==
  InSimulation \/ (status = 1 /\ call.fn # STOP) => DeclaredWill /\ ModesWill
StartTypesInv == call.fn = START /\ (Step = "start" \/ call.pc = "wait") => DeclaredWill
StartModesInv == call.fn = START /\ StartUnderWay => ModesWill

ModeInv ==
  history.lost = 0 /\ history.fails = 0 => ModesKnownInv /\ StartTypesInv /\ StartModesInv

\* The parameter of a slot will be the one last written; what answers a read in
\* time is that, and the call keeps it while it starts the simulation again.
IsPara(pkt, v) == pkt.current /\ pkt.reg = "para" => pkt.data[1] = v

ParaWillInv == \A s \in Slots : WillBe(down, box, Part("para", s), history.para[s])
ParaAnswersInv ==
  call.pc = "wait" /\ Step = "readPara" =>
    /\ \A i \in 1 .. Len(up) : IsPara(up[i], history.para[call.slot])
    /\ IsPara(ctl_pkt, history.para[call.slot])
ParaValInv ==
  call.fn = ReadPara /\ Step \in {"types", "start"} => call.val = history.para[call.slot]

ParaReadInv == ParaAnswersInv /\ ParaValInv /\ ParaReadsBack

ParaInv == history.lost = 0 => ParaWillInv /\ (history.late = 0 => ParaReadInv)

IInv ==
  /\ TypeInv /\ CallInv /\ FreshInv /\ LeftInv /\ NewestInv /\ CurrentInv
  /\ RunInv /\ ModeInv /\ ParaInv

(***************************************************************************)
(* Constants and scripts.                                                  *)
(***************************************************************************)
LEMMA ConstantFacts ==
  /\ MAX_SLOTS \in Nat \ {0} /\ 0 \in Slots /\ Slots \subseteq Nat
  /\ SEL_MASTER \notin Slots /\ SEL_MASTER = 128
  /\ \A s \in Slots : s + 1 \in 1 .. MAX_SLOTS /\ CardType[s] \in Types
  /\ Types \subseteq Nat /\ 0 \in Types /\ CARD_INFO_NO \in Types
  /\ Values = {0, 1}
BY ProtocolAssumption
   DEF Slots, Types, Values, SEL_MASTER, CARD_INFO_NO, CARD_INFO_DI, CARD_INFO_DO,
       CARD_INFO_AI, CARD_INFO_AO

LEMMA TypeWordFacts ==
  /\ \A t \in Types, m \in Values : t + 256 * m \in TypeWords
  /\ TypeWords \subseteq Nat
  /\ 0 \in TypeWords
<1>1. \A t \in Types, m \in Values : t + 256 * m \in TypeWords
  BY DEF TypeWords
<1>2. TypeWords \subseteq Nat
  BY ConstantFacts DEF TypeWords
<1>3. 0 \in TypeWords
  <2>1. 0 + 256 * 0 \in TypeWords
    BY <1>1, ConstantFacts
  <2>2. QED
    BY <2>1
<1>4. QED
  BY <1>1, <1>2, <1>3

\* The register of an exchange.
RegOf(step) ==
  CASE step \in {"readSync", "writeSync"} -> "sync"
    [] step = "info" -> "info"
    [] step = "types" -> "types"
    [] step \in {"infoPara", "readPara", "writePara"} -> "para"
    [] OTHER -> "mode"

LEMMA ExchangeFacts ==
  /\ DOMAIN Exchanges = Steps
  /\ \A step \in Steps :
       /\ Exchanges[step].func = IF step \in Writes THEN "WRITE" ELSE "READ"
       /\ Exchanges[step].master <=> step \in ToMaster
       /\ Exchanges[step].reg = RegOf(step)
<1>1. DOMAIN Exchanges = Steps
  BY DEF Exchanges, Steps
<1>2. ASSUME NEW step \in Steps
      PROVE  Exchanges[step] =
               [master |-> IF step \in ToMaster THEN TRUE ELSE FALSE,
                func |-> IF step \in Writes THEN "WRITE" ELSE "READ",
                reg |-> RegOf(step)]
  <2>1. CASE step = "readSync"
    BY <2>1 DEF Exchanges, Exchange, Writes, ToMaster, RegOf
  <2>2. CASE step = "writeSync"
    BY <2>2 DEF Exchanges, Exchange, Writes, ToMaster, RegOf
  <2>3. CASE step = "info"
    BY <2>3 DEF Exchanges, Exchange, Writes, ToMaster, RegOf
  <2>4. CASE step = "infoPara"
    BY <2>4 DEF Exchanges, Exchange, Writes, ToMaster, RegOf
  <2>5. CASE step = "readMode"
    BY <2>5 DEF Exchanges, Exchange, Writes, ToMaster, RegOf
  <2>6. CASE step = "writeMode"
    BY <2>6 DEF Exchanges, Exchange, Writes, ToMaster, RegOf
  <2>7. CASE step = "readPara"
    BY <2>7 DEF Exchanges, Exchange, Writes, ToMaster, RegOf
  <2>8. CASE step = "writePara"
    BY <2>8 DEF Exchanges, Exchange, Writes, ToMaster, RegOf
  <2>9. CASE step = "stop"
    BY <2>9 DEF Exchanges, Exchange, Writes, ToMaster, RegOf
  <2>10. CASE step = "types"
    BY <2>10 DEF Exchanges, Exchange, Writes, ToMaster, RegOf
  <2>11. CASE step = "start"
    BY <2>11 DEF Exchanges, Exchange, Writes, ToMaster, RegOf
  <2>12. CASE step = "stopAll"
    BY <2>12 DEF Exchanges, Exchange, Writes, ToMaster, RegOf
  <2>13. QED
    BY <2>1, <2>2, <2>3, <2>4, <2>5, <2>6, <2>7, <2>8, <2>9, <2>10, <2>11, <2>12 DEF Steps
<1>3. QED
  BY <1>1, <1>2

LEMMA Tuples ==
  ASSUME NEW S, NEW a \in S, NEW b \in S, NEW c \in S, NEW d \in S
  PROVE  /\ <<a>> \in Seq(S) /\ <<a, b>> \in Seq(S)
         /\ <<a, b, c>> \in Seq(S) /\ <<a, b, c, d>> \in Seq(S)
         /\ <<a>> # <<>> /\ <<a, b>> # <<>> /\ <<a, b, c>> # <<>> /\ <<a, b, c, d>> # <<>>
         /\ Head(<<a>>) = a /\ Head(<<a, b>>) = a
         /\ Head(<<a, b, c>>) = a /\ Head(<<a, b, c, d>>) = a
         /\ Tail(<<a, b>>) = <<b>> /\ Tail(<<a, b, c>>) = <<b, c>>
         /\ Tail(<<a, b, c, d>>) = <<b, c, d>>
         /\ Len(<<a>>) = 1 /\ Len(<<a, b>>) # 1
         /\ Len(<<a, b, c>>) # 1 /\ Len(<<a, b, c, d>>) # 1
OBVIOUS

LEMMA StepFacts ==
  ASSUME NEW fn, NEW bak \in {0, 1}, NEW step \in StepsOf(fn, bak)
  PROVE  /\ step \in Steps
         /\ fn \in Functions
         /\ step \in {"types", "start"} => fn = START \/ fn = STOP \/ (fn \in ParaCalls /\ bak = 1)
         /\ ~LastStep(step, bak) => After(step, fn) \in StepsOf(fn, bak)
         /\ step \in {"readPara", "writePara"} => fn \in ParaCalls
         /\ step = "stop" => fn \in ParaCalls /\ bak = 1
         /\ step = "start" => fn # STOP
         /\ step = "stopAll" => fn = STOP
         /\ step = "readPara" => fn = ReadPara
<1>1. CASE fn \in DOMAIN ConfigCalls
  BY <1>1 DEF StepsOf, LastStep, After, Steps, Functions, ParaCalls, ConfigCalls,
     ReadPara, WritePara, START, STOP
<1>2. CASE fn = ReadPara /\ bak = 0
  BY <1>2 DEF StepsOf, LastStep, After, Steps, Functions, ParaCalls, ConfigCalls,
     ReadPara, WritePara, START, STOP
<1>3. CASE fn = ReadPara /\ bak = 1
  BY <1>3 DEF StepsOf, LastStep, After, Steps, Functions, ParaCalls, ConfigCalls,
     ReadPara, WritePara, START, STOP
<1>4. CASE fn = WritePara /\ bak = 0
  BY <1>4 DEF StepsOf, LastStep, After, Steps, Functions, ParaCalls, ConfigCalls,
     ReadPara, WritePara, START, STOP
<1>5. CASE fn = WritePara /\ bak = 1
  BY <1>5 DEF StepsOf, LastStep, After, Steps, Functions, ParaCalls, ConfigCalls,
     ReadPara, WritePara, START, STOP
<1>6. CASE fn = START
  BY <1>6 DEF StepsOf, LastStep, After, Steps, Functions, ParaCalls, ConfigCalls,
     ReadPara, WritePara, START, STOP
<1>7. CASE fn = STOP
  BY <1>7 DEF StepsOf, LastStep, After, Steps, Functions, ParaCalls, ConfigCalls,
     ReadPara, WritePara, START, STOP
<1>8. fn \in DOMAIN ConfigCalls \cup {ReadPara, WritePara, START, STOP}
  BY DEF StepsOf, ConfigCalls
<1>9. QED
  BY <1>1, <1>2, <1>3, <1>4, <1>5, <1>6, <1>7, <1>8

LEMMA PlanSteps ==
  ASSUME NEW fn, NEW bak \in {0, 1}, NEW step \in StepsOf(fn, bak)
  PROVE  /\ PlanFrom(step, fn, bak) \in Seq(Steps)
         /\ PlanFrom(step, fn, bak) # <<>>
         /\ Head(PlanFrom(step, fn, bak)) = step
         /\ Len(PlanFrom(step, fn, bak)) = 1 <=> LastStep(step, bak)
         /\ ~LastStep(step, bak) =>
              Tail(PlanFrom(step, fn, bak)) = PlanFrom(After(step, fn), fn, bak)
<1> DEFINE read == IF fn = ReadPara THEN "readPara" ELSE "writePara"
           end == IF fn = STOP THEN "stopAll" ELSE "start"
<1> HIDE DEF read, end
<1>1. step \in Steps /\ read \in Steps /\ end \in Steps
      /\ "types" \in Steps /\ "start" \in Steps /\ "info" \in Steps /\ "infoPara" \in Steps
      /\ "stop" \in Steps
  BY StepFacts DEF Steps, read, end
<1>2. CASE step = "info"
  <2>1. PlanFrom(step, fn, bak) = <<"info", "infoPara">>
    BY <1>2 DEF PlanFrom
  <2>2. PlanFrom(After(step, fn), fn, bak) = <<"infoPara">>
    BY <1>2 DEF PlanFrom, After, read, end
  <2>3. ~LastStep(step, bak)
    BY <1>2 DEF LastStep
  <2>4. /\ <<"info", "infoPara">> \in Seq(Steps) /\ <<"info", "infoPara">> # <<>>
        /\ Head(<<"info", "infoPara">>) = "info" /\ Len(<<"info", "infoPara">>) # 1
        /\ Tail(<<"info", "infoPara">>) = <<"infoPara">>
    BY <1>1, Tuples
  <2>5. QED
    BY <1>2, <2>1, <2>2, <2>3, <2>4
<1>3. CASE step = "stop"
  <2>1. PlanFrom(step, fn, bak) = <<"stop", read, "types", "start">>
    BY <1>3 DEF PlanFrom, read
  <2>2. bak = 1
    BY <1>3, StepFacts
  <2>3. PlanFrom(After(step, fn), fn, bak) = <<read, "types", "start">>
    BY <1>3, <2>2 DEF PlanFrom, After, read, end
  <2>4. ~LastStep(step, bak)
    BY <1>3 DEF LastStep
  <2>5. /\ <<"stop", read, "types", "start">> \in Seq(Steps)
        /\ <<"stop", read, "types", "start">> # <<>>
        /\ Head(<<"stop", read, "types", "start">>) = "stop"
        /\ Len(<<"stop", read, "types", "start">>) # 1
        /\ Tail(<<"stop", read, "types", "start">>) = <<read, "types", "start">>
    BY <1>1, <1>3, Tuples
  <2>6. QED
    BY <1>3, <2>1, <2>3, <2>4, <2>5
<1>4. CASE step \in {"readPara", "writePara"} /\ bak = 0
  <2>1. PlanFrom(step, fn, bak) = <<step>>
    BY <1>4 DEF PlanFrom
  <2>2. LastStep(step, bak)
    BY <1>4 DEF LastStep
  <2>3. QED
    BY <1>1, <2>1, <2>2, Tuples
<1>5. CASE step \in {"readPara", "writePara"} /\ bak = 1
  <2>1. PlanFrom(step, fn, bak) = <<step, "types", "start">>
    BY <1>5 DEF PlanFrom
  <2>2. fn # STOP
    BY <1>5, StepFacts DEF ParaCalls, ReadPara, WritePara, STOP
  <2>3. PlanFrom(After(step, fn), fn, bak) = <<"types", "start">>
    BY <1>5, <2>2 DEF PlanFrom, After, read, end
  <2>4. ~LastStep(step, bak)
    BY <1>5 DEF LastStep
  <2>5. QED
    BY <1>1, <2>1, <2>3, <2>4, Tuples
<1>6. CASE step = "types"
  <2>1. PlanFrom(step, fn, bak) = <<"types", end>>
    BY <1>6 DEF PlanFrom, end
  <2>2. PlanFrom(After(step, fn), fn, bak) = <<end>>
    BY <1>6 DEF PlanFrom, After, read, end
  <2>3. ~LastStep(step, bak)
    BY <1>6 DEF LastStep
  <2>4. /\ <<"types", end>> \in Seq(Steps) /\ <<"types", end>> # <<>>
        /\ Head(<<"types", end>>) = "types" /\ Len(<<"types", end>>) # 1
        /\ Tail(<<"types", end>>) = <<end>>
    BY <1>1, Tuples
  <2>5. QED
    BY <1>6, <2>1, <2>2, <2>3, <2>4
<1>7. CASE step \notin {"info", "stop", "readPara", "writePara", "types"}
  <2>1. PlanFrom(step, fn, bak) = <<step>>
    BY <1>7 DEF PlanFrom
  <2>2. LastStep(step, bak)
    BY <1>1, <1>7 DEF LastStep, Steps
  <2>3. QED
    BY <1>1, <2>1, <2>2, Tuples
<1>8. QED
  BY <1>2, <1>3, <1>4, <1>5, <1>6, <1>7

LEMMA ScriptFacts ==
  ASSUME status \in {0, 1}, NEW fn \in Functions,
         NEW bak \in {0, 1}, bak = IF fn \in ParaCalls THEN status ELSE 0
  PROVE  /\ Script(fn) # <<>>
         /\ Script(fn) \in Seq(Steps)
         /\ Head(Script(fn)) \in StepsOf(fn, bak)
         /\ Script(fn) = PlanFrom(Head(Script(fn)), fn, bak)
         /\ fn \in {START, STOP} => Head(Script(fn)) = "types"
         /\ fn \in ParaCalls /\ bak = 1 => Head(Script(fn)) = "stop"
         /\ fn = ReadPara => Head(Script(fn)) \notin {"types", "start"}
<1> DEFINE first == IF fn \in ParaCalls THEN IF status = 1 THEN "stop"
                                              ELSE IF fn = ReadPara THEN "readPara" ELSE "writePara"
                    ELSE IF fn \in {START, STOP} THEN "types" ELSE Head(ConfigCalls[fn])
<1>1. first \in StepsOf(fn, bak)
  <2>1. CASE fn = "PID_Sync_ReadConfig"
    BY <2>1 DEF StepsOf, ParaCalls, ConfigCalls, ReadPara, WritePara, START, STOP
  <2>2. CASE fn = "PID_Sync_WriteConfig"
    BY <2>2 DEF StepsOf, ParaCalls, ConfigCalls, ReadPara, WritePara, START, STOP
  <2>3. CASE fn = "PID_Slot_ReadInfo"
    BY <2>3 DEF StepsOf, ParaCalls, ConfigCalls, ReadPara, WritePara, START, STOP
  <2>4. CASE fn = "PID_Slot_ReadConfig"
    BY <2>4 DEF StepsOf, ParaCalls, ConfigCalls, ReadPara, WritePara, START, STOP
  <2>5. CASE fn = "PID_Slot_WriteConfig"
    BY <2>5 DEF StepsOf, ParaCalls, ConfigCalls, ReadPara, WritePara, START, STOP
  <2>6. CASE fn = ReadPara
    BY <2>6 DEF StepsOf, ParaCalls, ReadPara, WritePara, START, STOP
  <2>7. CASE fn = WritePara
    BY <2>7 DEF StepsOf, ParaCalls, ReadPara, WritePara, START, STOP
  <2>8. CASE fn \in {START, STOP}
    BY <2>8 DEF StepsOf, ParaCalls, ReadPara, WritePara, START, STOP
  <2>9. QED
    BY <2>1, <2>2, <2>3, <2>4, <2>5, <2>6, <2>7, <2>8 DEF Functions, ConfigCalls
<1>2. Script(fn) = PlanFrom(first, fn, bak)
  <2>1. CASE fn = "PID_Sync_ReadConfig"
    BY <2>1 DEF Script, PlanFrom, ParaCalls, ConfigCalls, ReadPara, WritePara, START, STOP
  <2>2. CASE fn = "PID_Sync_WriteConfig"
    BY <2>2 DEF Script, PlanFrom, ParaCalls, ConfigCalls, ReadPara, WritePara, START, STOP
  <2>3. CASE fn = "PID_Slot_ReadInfo"
    BY <2>3 DEF Script, PlanFrom, ParaCalls, ConfigCalls, ReadPara, WritePara, START, STOP
  <2>4. CASE fn = "PID_Slot_ReadConfig"
    BY <2>4 DEF Script, PlanFrom, ParaCalls, ConfigCalls, ReadPara, WritePara, START, STOP
  <2>5. CASE fn = "PID_Slot_WriteConfig"
    BY <2>5 DEF Script, PlanFrom, ParaCalls, ConfigCalls, ReadPara, WritePara, START, STOP
  <2>6. CASE fn = ReadPara
    BY <2>6 DEF Script, Around, PlanFrom, ParaCalls, ReadPara, WritePara, START, STOP
  <2>7. CASE fn = WritePara
    BY <2>7 DEF Script, Around, PlanFrom, ParaCalls, ReadPara, WritePara, START, STOP
  <2>8. CASE fn \in {START, STOP}
    BY <2>8 DEF Script, PlanFrom, ParaCalls, ReadPara, WritePara, START, STOP
  <2>9. QED
    BY <2>1, <2>2, <2>3, <2>4, <2>5, <2>6, <2>7, <2>8 DEF Functions, ConfigCalls
<1>3. Head(Script(fn)) = first /\ Script(fn) # <<>> /\ Script(fn) \in Seq(Steps)
  BY <1>1, <1>2, PlanSteps
<1>4. /\ fn \in {START, STOP} => first = "types"
      /\ fn \in ParaCalls /\ bak = 1 => first = "stop"
      /\ fn = ReadPara => first \notin {"types", "start"}
  BY DEF ParaCalls, ReadPara, WritePara, START, STOP
<1>5. QED
  BY <1>1, <1>2, <1>3, <1>4

(***************************************************************************)
(* Queues and packets.                                                     *)
(***************************************************************************)
LEMMA TailFacts ==
  ASSUME NEW S, NEW q \in Seq(S), q # <<>>
  PROVE  /\ Len(q) \in Nat \ {0} /\ Head(q) = q[1] /\ Head(q) \in S
         /\ Tail(q) \in Seq(S) /\ Len(Tail(q)) = Len(q) - 1
         /\ \A i \in 1 .. Len(q) - 1 : Tail(q)[i] = q[i + 1]
OBVIOUS

LEMMA AppendFacts ==
  ASSUME NEW S, NEW q \in Seq(S), NEW e \in S
  PROVE  /\ Append(q, e) \in Seq(S) /\ Len(Append(q, e)) = Len(q) + 1
         /\ \A i \in 1 .. Len(q) : Append(q, e)[i] = q[i]
         /\ Append(q, e)[Len(q) + 1] = e
         /\ Append(q, e) # <<>> /\ Len(q) \in Nat
OBVIOUS

LEMMA EmptyFacts ==
  ASSUME NEW S, NEW q \in Seq(S)
  PROVE  q = <<>> <=> Len(q) = 0
OBVIOUS

LEMMA OldFacts ==
  ASSUME NEW pkt \in Packets
  PROVE  /\ [pkt EXCEPT !.current = FALSE] \in Packets
         /\ [pkt EXCEPT !.current = FALSE].card = pkt.card
         /\ [pkt EXCEPT !.current = FALSE].func = pkt.func
         /\ [pkt EXCEPT !.current = FALSE].reg = pkt.reg
         /\ [pkt EXCEPT !.current = FALSE].data = pkt.data
         /\ [pkt EXCEPT !.current = FALSE].full = pkt.full
         /\ [pkt EXCEPT !.current = FALSE].current = FALSE
BY DEF Packets

LEMMA AgedFacts ==
  ASSUME NEW q \in Seq(Packets)
  PROVE  /\ Aged(q) \in Seq(Packets) /\ Len(Aged(q)) = Len(q)
         /\ \A i \in 1 .. Len(q) :
              /\ Aged(q)[i] = [q[i] EXCEPT !.current = FALSE]
              /\ Aged(q)[i].card = q[i].card /\ Aged(q)[i].func = q[i].func
              /\ Aged(q)[i].reg = q[i].reg /\ Aged(q)[i].data = q[i].data
              /\ Aged(q)[i].full = q[i].full /\ Aged(q)[i].current = FALSE
<1>1. DOMAIN q = 1 .. Len(q) /\ Len(q) \in Nat /\ \A i \in 1 .. Len(q) : q[i] \in Packets
  OBVIOUS
<1>2. Aged(q) = [i \in 1 .. Len(q) |-> [q[i] EXCEPT !.current = FALSE]]
  BY <1>1 DEF Aged
<1>3. \A i \in 1 .. Len(q) : [q[i] EXCEPT !.current = FALSE] \in Packets
  BY <1>1, OldFacts
<1>4. Aged(q) \in [1 .. Len(q) -> Packets]
  BY <1>2, <1>3
<1>5. ASSUME NEW i \in 1 .. Len(q)
      PROVE  /\ Aged(q)[i] = [q[i] EXCEPT !.current = FALSE]
             /\ Aged(q)[i].card = q[i].card /\ Aged(q)[i].func = q[i].func
             /\ Aged(q)[i].reg = q[i].reg /\ Aged(q)[i].data = q[i].data
             /\ Aged(q)[i].full = q[i].full /\ Aged(q)[i].current = FALSE
  <2>1. Aged(q)[i] = [q[i] EXCEPT !.current = FALSE] /\ q[i] \in Packets
    BY <1>1, <1>2
  <2>2. QED
    BY <2>1, OldFacts
<1>6. Aged(q) \in Seq(Packets) /\ Len(Aged(q)) = Len(q)
  BY <1>1, <1>4
<1>7. QED
  BY <1>5, <1>6

\* The answer to a frame: the same but for the words.
LEMMA AnsweredFacts ==
  ASSUME NEW pkt \in Packets, NEW n \in Nat
  PROVE  /\ [pkt EXCEPT !.data = <<n>>] \in Packets
         /\ [pkt EXCEPT !.data = <<n>>].card = pkt.card
         /\ [pkt EXCEPT !.data = <<n>>].func = pkt.func
         /\ [pkt EXCEPT !.data = <<n>>].reg = pkt.reg
         /\ [pkt EXCEPT !.data = <<n>>].full = pkt.full
         /\ [pkt EXCEPT !.data = <<n>>].current = pkt.current
         /\ [pkt EXCEPT !.data = <<n>>].data = <<n>>
         /\ [pkt EXCEPT !.data = <<n>>].data[1] = n
         /\ [pkt EXCEPT !.data = <<n>>].data # <<>>
<1>1. <<n>> \in Seq(Nat)
  OBVIOUS
<1>2. QED
  BY <1>1 DEF Packets

LEMMA ClearedFacts ==
  /\ Cleared \in Packets /\ AnswerOK(Cleared)
  /\ ~Cleared.full /\ ~Cleared.current /\ Cleared.reg = "info"
<1>1. <<0>> \in Seq(Nat) /\ <<0>> # <<>> /\ <<0>>[1] = 0
  OBVIOUS
<1> DEFINE pkt == Packet(0, "READ", "info", <<0>>)
<1>2. /\ pkt \in Packets /\ pkt.reg = "info" /\ pkt.func = "READ" /\ pkt.data = <<0>>
  BY <1>1, ConstantFacts DEF Packet, Packets, Regs
<1>3. Cleared = [pkt EXCEPT !.full = FALSE, !.current = FALSE]
  BY DEF Cleared
<1> HIDE DEF pkt
<1>4. /\ Cleared \in Packets /\ Cleared.reg = "info" /\ Cleared.func = "READ"
      /\ Cleared.data = <<0>> /\ ~Cleared.full /\ ~Cleared.current
  BY <1>2, <1>3 DEF Packets
<1>5. QED
  BY <1>1, <1>4, ConstantFacts DEF AnswerOK

LEMMA SimulationFacts ==
  /\ Simulation \in Packets /\ FrameOK(Simulation)
  /\ Simulation.reg = "data" /\ Simulation.func = "READ" /\ ~Simulation.current
<1>1. <<0>> \in Seq(Nat) /\ <<0>> # <<>> /\ <<0>>[1] = 0
  OBVIOUS
<1> DEFINE pkt == Packet(0, "READ", "data", <<0>>)
<1>2. /\ pkt \in Packets /\ pkt.reg = "data" /\ pkt.func = "READ" /\ pkt.data = <<0>>
  BY <1>1, ConstantFacts DEF Packet, Packets, Regs
<1>3. Simulation = [pkt EXCEPT !.current = FALSE]
  BY DEF Simulation
<1> HIDE DEF pkt
<1>4. QED
  BY <1>1, <1>2, <1>3, OldFacts DEF FrameOK

LEMMA PerSlotFacts ==
  ASSUME NEW S, NEW f \in [Slots -> S]
  PROVE  /\ PerSlot(f) \in Seq(S) /\ Len(PerSlot(f)) = MAX_SLOTS
         /\ \A s \in Slots : PerSlot(f)[s + 1] = f[s]
<1>1. \A i \in 1 .. MAX_SLOTS : i - 1 \in Slots
  BY ConstantFacts DEF Slots
<1>2. PerSlot(f) \in [1 .. MAX_SLOTS -> S]
  BY <1>1 DEF PerSlot
<1>3. \A s \in Slots : PerSlot(f)[s + 1] = f[s]
  BY ConstantFacts DEF PerSlot
<1>4. QED
  BY <1>2, <1>3, ConstantFacts

LEMMA ConsFacts ==
  ASSUME NEW S, NEW a \in S, NEW q \in Seq(S)
  PROVE  /\ <<a>> \o q \in Seq(S) /\ Len(<<a>> \o q) = Len(q) + 1
         /\ (<<a>> \o q)[1] = a
         /\ \A i \in 1 .. Len(q) : (<<a>> \o q)[i + 1] = q[i]
OBVIOUS

\* The words of a frame.
LEMMA WordsFacts ==
  ASSUME card_type \in [Slots -> Types], card_mode \in [Slots -> Values],
         call \in CallRecords, NEW step \in Steps
  PROVE  /\ Words(step) \in Seq(Nat) /\ Words(step) # <<>>
         /\ step = "types" => /\ Len(Words(step)) = MAX_SLOTS
                              /\ \A s \in Slots : Words(step)[s + 1] = TypeWord(s)
         /\ step \in {"start", "stopAll"} =>
              /\ Len(Words(step)) = MAX_SLOTS + 1
              /\ Words(step)[1] = IF step = "start" THEN 1 ELSE 0
              /\ \A s \in Slots : Words(step)[s + 2] = card_mode[s]
         /\ step = "writePara" => Words(step) = <<call.val>>
         /\ step \notin {"types", "start", "stopAll", "writePara"} => Words(step) = <<0>>
         /\ \A s \in Slots : TypeWord(s) \in TypeWords
<1>1. \A s \in Slots : TypeWord(s) \in TypeWords
  BY TypeWordFacts DEF TypeWord
<1>2. CASE step = "types"
  <2>1. [s \in Slots |-> TypeWord(s)] \in [Slots -> Nat]
    BY <1>1, TypeWordFacts
  <2>2. Words(step) = PerSlot([s \in Slots |-> TypeWord(s)])
    BY <1>2 DEF Words
  <2>3. /\ Words(step) \in Seq(Nat) /\ Len(Words(step)) = MAX_SLOTS
        /\ \A s \in Slots : Words(step)[s + 1] = TypeWord(s)
    BY <2>1, <2>2, PerSlotFacts
  <2>4. QED
    BY <1>1, <1>2, <2>3, EmptyFacts, ConstantFacts
<1>3. CASE step \in {"start", "stopAll"}
  <2> DEFINE run == IF step = "start" THEN 1 ELSE 0
  <2>1. card_mode \in [Slots -> Nat]
    BY ConstantFacts
  <2>2. Words(step) = <<run>> \o PerSlot(card_mode)
    BY <1>3 DEF Words
  <2>3. /\ PerSlot(card_mode) \in Seq(Nat) /\ Len(PerSlot(card_mode)) = MAX_SLOTS
        /\ \A s \in Slots : PerSlot(card_mode)[s + 1] = card_mode[s]
    BY <2>1, PerSlotFacts
  <2>4. run \in Nat
    OBVIOUS
  <2> HIDE DEF run
  <2>5. /\ Words(step) \in Seq(Nat) /\ Len(Words(step)) = MAX_SLOTS + 1
        /\ Words(step)[1] = run
        /\ \A i \in 1 .. MAX_SLOTS : Words(step)[i + 1] = PerSlot(card_mode)[i]
    BY <2>2, <2>3, <2>4, ConsFacts
  <2>6. \A s \in Slots : Words(step)[s + 2] = card_mode[s]
    <3> TAKE s \in Slots
    <3>1. s + 1 \in 1 .. MAX_SLOTS /\ (s + 1) + 1 = s + 2
      BY ConstantFacts
    <3>2. QED
      BY <3>1, <2>3, <2>5
  <2>7. Words(step) # <<>>
    BY <2>5, EmptyFacts, ConstantFacts
  <2>8. QED
    BY <1>1, <1>3, <2>5, <2>6, <2>7 DEF run
<1>4. CASE step \notin {"types", "start", "stopAll"}
  <2>1. call.val \in Nat
    BY ConstantFacts DEF CallRecords
  <2>2. Words(step) = IF step = "writePara" THEN <<call.val>> ELSE <<0>>
    BY <1>4 DEF Words
  <2>3. QED
    BY <1>1, <1>4, <2>1, <2>2
<1>5. QED
  BY <1>2, <1>3, <1>4

LEMMA RequestFacts ==
  ASSUME card_type \in [Slots -> Types], card_mode \in [Slots -> Values],
         call \in CallRecords, NEW step \in Steps
  PROVE  /\ Request(step) \in Packets /\ FrameOK(Request(step))
         /\ Request(step).card = IF step \in ToMaster THEN SEL_MASTER ELSE call.slot
         /\ Request(step).card = Addressee(step)
         /\ Request(step).func = IF step \in Writes THEN "WRITE" ELSE "READ"
         /\ Request(step).reg = RegOf(step)
         /\ Request(step).data = Words(step)
         /\ Request(step).full /\ Request(step).current
<1> DEFINE card == IF step \in ToMaster THEN SEL_MASTER ELSE call.slot
           func == IF step \in Writes THEN "WRITE" ELSE "READ"
<1>1. Addressee(step) = card
  BY ExchangeFacts DEF Addressee
<1>2. Request(step) = [card |-> card, func |-> func, reg |-> RegOf(step), full |-> TRUE,
                       data |-> Words(step), current |-> TRUE]
  BY <1>1, ExchangeFacts DEF Request, Packet
<1>3. call.slot \in Slots /\ call.val \in Values
  BY DEF CallRecords
<1>4. RegOf(step) \in Regs \ {"data"}
  BY DEF RegOf, Regs
<1>5. Request(step) \in Packets
  BY <1>2, <1>3, <1>4, WordsFacts DEF Packets
<1>6. /\ Request(step).card = card /\ Request(step).func = func
      /\ Request(step).reg = RegOf(step) /\ Request(step).data = Words(step)
      /\ Request(step).full /\ Request(step).current
      /\ Words(step) # <<>>
  BY <1>2, WordsFacts
<1> HIDE DEF card, func
<1>7. ASSUME step = "types" PROVE FrameOK(Request(step))
  <2>1. RegOf(step) = "types" /\ card = SEL_MASTER /\ func = "WRITE"
    BY <1>7 DEF RegOf, ToMaster, Writes, card, func
  <2>2. Len(Words(step)) = MAX_SLOTS /\ \A s \in Slots : Words(step)[s + 1] \in TypeWords
    BY <1>7, WordsFacts
  <2>3. QED
    BY <1>5, <1>6, <2>1, <2>2 DEF FrameOK
<1>8. ASSUME step \in {"start", "stopAll"} PROVE FrameOK(Request(step))
  <2>1. RegOf(step) = "mode" /\ card = SEL_MASTER /\ func = "WRITE"
    BY <1>8 DEF RegOf, ToMaster, Writes, card, func
  <2>2. Len(Words(step)) = MAX_SLOTS + 1 /\ \A s \in Slots : Words(step)[s + 2] \in Values
    BY <1>8, WordsFacts
  <2>3. QED
    BY <1>5, <1>6, <2>1, <2>2 DEF FrameOK
<1>9. ASSUME step = "stop" PROVE FrameOK(Request(step))
  <2>1. RegOf(step) = "mode" /\ card = SEL_MASTER /\ func = "WRITE"
    BY <1>9 DEF RegOf, ToMaster, Writes, card, func
  <2>2. Len(Words(step)) = 1
    BY <1>9, WordsFacts
  <2>3. QED
    BY <1>5, <1>6, <2>1, <2>2 DEF FrameOK
<1>10. ASSUME step \in {"writePara", "writeMode"} PROVE FrameOK(Request(step))
  <2>1. RegOf(step) \in {"mode", "para"} /\ card \in Slots /\ func = "WRITE"
    BY <1>3, <1>10 DEF RegOf, ToMaster, Writes, card, func
  <2>2. Words(step)[1] \in Values
    BY <1>3, <1>10, WordsFacts, ConstantFacts
  <2>3. QED
    BY <1>5, <1>6, <2>1, <2>2 DEF FrameOK
<1>11. ASSUME step = "writeSync" PROVE FrameOK(Request(step))
  <2>1. RegOf(step) = "sync" /\ func = "WRITE"
    BY <1>11 DEF RegOf, Writes, card, func
  <2>2. QED
    BY <1>5, <1>6, <2>1 DEF FrameOK
<1>12. ASSUME step \notin Writes PROVE FrameOK(Request(step))
  <2>1. /\ func = "READ"
        /\ RegOf(step) = "sync" \/ (RegOf(step) \in {"info", "mode", "para"} /\ card \in Slots)
    BY <1>3, <1>12 DEF Steps, Writes, ToMaster, RegOf, card, func
  <2>2. QED
    BY <1>5, <1>6, <2>1 DEF FrameOK
<1>13. FrameOK(Request(step))
  BY <1>7, <1>8, <1>9, <1>10, <1>11, <1>12 DEF Writes
<1>14. QED
  BY <1>1, <1>5, <1>6, <1>13 DEF card, func

LEMMA TailOK ==
  ASSUME NEW q \in Seq(Packets), q # <<>>
  PROVE  /\ FramesOK(q) => FramesOK(Tail(q)) /\ FrameOK(Head(q))
         /\ AnswersOK(q) => AnswersOK(Tail(q)) /\ AnswerOK(Head(q))
<1>1. /\ Len(q) \in Nat \ {0} /\ Head(q) = q[1] /\ Head(q) \in Packets
      /\ Tail(q) \in Seq(Packets) /\ Len(Tail(q)) = Len(q) - 1
      /\ \A i \in 1 .. Len(q) - 1 : Tail(q)[i] = q[i + 1]
  BY TailFacts
<1>2. \A i \in 1 .. Len(q) - 1 : i + 1 \in 1 .. Len(q)
  BY <1>1
<1>3. 1 \in 1 .. Len(q)
  BY <1>1
<1>4. QED
  BY <1>1, <1>2, <1>3 DEF FramesOK, AnswersOK

LEMMA AppendOK ==
  ASSUME NEW q \in Seq(Packets), NEW pkt \in Packets
  PROVE  /\ FramesOK(q) /\ FrameOK(pkt) => FramesOK(Append(q, pkt))
         /\ AnswersOK(q) /\ AnswerOK(pkt) => AnswersOK(Append(q, pkt))
<1>1. /\ Append(q, pkt) \in Seq(Packets) /\ Len(Append(q, pkt)) = Len(q) + 1
      /\ \A i \in 1 .. Len(q) : Append(q, pkt)[i] = q[i]
      /\ Append(q, pkt)[Len(q) + 1] = pkt /\ Len(q) \in Nat
  BY AppendFacts
<1>2. \A i \in 1 .. Len(q) + 1 : i \in 1 .. Len(q) \/ i = Len(q) + 1
  BY <1>1
<1>3. QED
  BY <1>1, <1>2 DEF FramesOK, AnswersOK

LEMMA AgedOK ==
  ASSUME NEW q \in Seq(Packets)
  PROVE  /\ FramesOK(q) => FramesOK(Aged(q))
         /\ AnswersOK(q) => AnswersOK(Aged(q))
<1>1. /\ Aged(q) \in Seq(Packets) /\ Len(Aged(q)) = Len(q)
      /\ \A i \in 1 .. Len(q) : Aged(q)[i] = [q[i] EXCEPT !.current = FALSE]
  BY AgedFacts
<1>2. ASSUME NEW pkt \in Packets
      PROVE  /\ FrameOK(pkt) => FrameOK([pkt EXCEPT !.current = FALSE])
             /\ AnswerOK(pkt) => AnswerOK([pkt EXCEPT !.current = FALSE])
  BY OldFacts DEF FrameOK, AnswerOK
<1>3. \A i \in 1 .. Len(q) : q[i] \in Packets
  OBVIOUS
<1>4. QED
  BY <1>1, <1>2, <1>3 DEF FramesOK, AnswersOK

(***************************************************************************)
(* Types are kept.                                                         *)
(***************************************************************************)
LEMMA CallFacts ==
  /\ "none" \notin Functions /\ "none" \notin ParaCalls /\ ParaCalls \subseteq Functions
  /\ START \in Functions \ ParaCalls /\ STOP \in Functions \ ParaCalls /\ START # STOP
  /\ ReadPara # WritePara
  /\ Idle \in CallRecords /\ Idle.fn = "none" /\ Idle.pc = "idle" /\ Idle.bak = 0
  /\ Started \in CallRecords /\ Started.fn = STOP /\ Started.pc = "send"
  /\ Started.bak = 0 /\ Started.plan = PlanFrom("types", STOP, 0)
  /\ Head(Started.plan) = "types" /\ "types" \in StepsOf(STOP, 0)
  /\ NoRet \in Results /\ NoRet.fn = "none"
<1>1. /\ "none" \notin Functions /\ "none" \notin ParaCalls /\ ParaCalls \subseteq Functions
      /\ START \in Functions \ ParaCalls /\ STOP \in Functions \ ParaCalls /\ START # STOP
      /\ ReadPara # WritePara
  BY DEF Functions, ConfigCalls, ParaCalls, ReadPara, WritePara, START, STOP
<1>2. 0 \in Slots /\ 0 \in Values
  BY ConstantFacts
<1>3. <<>> \in Seq(Steps)
  OBVIOUS
<1>4. Idle = [fn |-> "none", slot |-> 0, val |-> 0, plan |-> <<>>, pc |-> "idle", bak |-> 0]
  BY DEF Idle, Calling
<1>5. Idle \in CallRecords /\ Idle.fn = "none" /\ Idle.pc = "idle" /\ Idle.bak = 0
  BY <1>2, <1>3, <1>4 DEF CallRecords
<1>6. "types" \in StepsOf(STOP, 0)
  BY DEF StepsOf, STOP, ReadPara, WritePara, START
<1>7. PlanFrom("types", STOP, 0) = <<"types", "stopAll">>
  BY DEF PlanFrom
<1>8. PlanFrom("types", STOP, 0) \in Seq(Steps) /\ Head(PlanFrom("types", STOP, 0)) = "types"
  BY <1>6, PlanSteps
<1>9. Started = [fn |-> STOP, slot |-> 0, val |-> 0, plan |-> <<"types", "stopAll">>,
                 pc |-> "send", bak |-> 0]
  BY DEF Started, Calling
<1>10. /\ Started \in CallRecords /\ Started.fn = STOP /\ Started.pc = "send"
       /\ Started.bak = 0 /\ Started.plan = PlanFrom("types", STOP, 0)
  BY <1>1, <1>2, <1>7, <1>8, <1>9 DEF CallRecords
<1>11. NoRet \in Results /\ NoRet.fn = "none"
  BY <1>2 DEF NoRet, Results
<1>12. QED
  BY <1>1, <1>5, <1>6, <1>8, <1>10, <1>11

LEMMA BoxFacts ==
  ASSUME box \in Boxes, NEW pkt \in Packets, FrameOK(pkt), pkt.func = "WRITE"
  PROVE  /\ BoxWritten(pkt) \in Boxes
         /\ BoxWritten(pkt).running =
              IF pkt.reg = "mode" /\ pkt.card = SEL_MASTER THEN pkt.data[1] = 1 ELSE box.running
         /\ \A s \in Slots :
              /\ BoxWritten(pkt).mode[s] =
                   IF pkt.reg = "mode" /\ pkt.card = SEL_MASTER /\ Len(pkt.data) # 1
                   THEN pkt.data[s + 2]
                   ELSE IF pkt.reg = "mode" /\ pkt.card = s THEN pkt.data[1]
                   ELSE box.mode[s]
              /\ BoxWritten(pkt).declared[s] =
                   IF pkt.reg = "types" THEN pkt.data[s + 1] ELSE box.declared[s]
              /\ BoxWritten(pkt).para[s] =
                   IF pkt.reg = "para" /\ pkt.card = s THEN pkt.data[1] ELSE box.para[s]
<1>1. /\ pkt.data \in Seq(Nat) /\ pkt.data # <<>> /\ pkt.card \in Slots \cup {SEL_MASTER}
  BY DEF Packets, FrameOK
<1>2. Head(pkt.data) = pkt.data[1]
  BY <1>1, TailFacts
<1>3. /\ box.running \in BOOLEAN /\ box.mode \in [Slots -> Values]
      /\ box.declared \in [Slots -> TypeWords] /\ box.para \in [Slots -> Values]
  BY DEF Boxes
<1>4. CASE pkt.reg = "types"
  <2>1. \A s \in Slots : pkt.data[s + 1] \in TypeWords
    BY <1>4 DEF FrameOK
  <2>2. BoxWritten(pkt) = [box EXCEPT !.declared = [s \in Slots |-> pkt.data[s + 1]]]
    BY <1>4 DEF BoxWritten, OfSlots
  <2>3. [s \in Slots |-> pkt.data[s + 1]] \in [Slots -> TypeWords]
    BY <2>1
  <2>4. QED
    BY <1>3, <1>4, <2>2, <2>3 DEF Boxes
<1>5. CASE pkt.reg = "para"
  <2>1. pkt.card \in Slots /\ pkt.data[1] \in Values
    BY <1>5 DEF FrameOK
  <2>2. BoxWritten(pkt) = [box EXCEPT !.para = [box.para EXCEPT ![pkt.card] = pkt.data[1]]]
    BY <1>2, <1>5 DEF BoxWritten
  <2>3. QED
    BY <1>3, <1>5, <2>1, <2>2 DEF Boxes
<1>6. CASE pkt.reg = "mode" /\ pkt.card # SEL_MASTER
  <2>1. pkt.card \in Slots /\ pkt.data[1] \in Values
    BY <1>1, <1>6 DEF FrameOK
  <2>2. BoxWritten(pkt) = [box EXCEPT !.mode = [box.mode EXCEPT ![pkt.card] = pkt.data[1]]]
    BY <1>2, <1>6 DEF BoxWritten
  <2>3. QED
    BY <1>3, <1>6, <2>1, <2>2 DEF Boxes
<1>7. CASE pkt.reg = "mode" /\ pkt.card = SEL_MASTER
  <2> DEFINE modes == IF Len(pkt.data) = 1 THEN box.mode ELSE OfSlots(Tail(pkt.data))
             run == pkt.data[1] = 1
  <2>1. Len(pkt.data) # 1 =>
          /\ Len(pkt.data) = MAX_SLOTS + 1 /\ \A s \in Slots : pkt.data[s + 2] \in Values
    BY <1>7, ConstantFacts DEF FrameOK
  <2>2. BoxWritten(pkt) = [box EXCEPT !.running = run, !.mode = modes]
    BY <1>2, <1>7 DEF BoxWritten
  <2>3. Len(pkt.data) # 1 => \A s \in Slots : OfSlots(Tail(pkt.data))[s] = pkt.data[s + 2]
    <3>1. SUFFICES ASSUME Len(pkt.data) # 1, NEW s \in Slots
                   PROVE  Tail(pkt.data)[s + 1] = pkt.data[s + 2]
      BY DEF OfSlots
    <3>2. s + 1 \in 1 .. Len(pkt.data) - 1 /\ (s + 1) + 1 = s + 2
      BY <2>1, <3>1, ConstantFacts
    <3>3. QED
      BY <1>1, <3>2, TailFacts
  <2>4. modes \in [Slots -> Values]
    BY <1>3, <2>1, <2>3 DEF OfSlots
  <2>5. run \in BOOLEAN
    OBVIOUS
  <2>6. \A s \in Slots : modes[s] = IF Len(pkt.data) # 1 THEN pkt.data[s + 2] ELSE box.mode[s]
    BY <2>3
  <2>7. \A s \in Slots : pkt.card # s
    BY <1>7, ConstantFacts
  <2> HIDE DEF modes, run
  <2>8. /\ BoxWritten(pkt) \in Boxes /\ BoxWritten(pkt).mode = modes
        /\ BoxWritten(pkt).running = run /\ BoxWritten(pkt).declared = box.declared
        /\ BoxWritten(pkt).para = box.para
    BY <1>3, <2>2, <2>4, <2>5 DEF Boxes
  <2>9. QED
    BY <1>7, <2>6, <2>7, <2>8 DEF run
<1>8. CASE pkt.reg \notin {"types", "para", "mode"}
  BY <1>8 DEF BoxWritten
<1>9. QED
  BY <1>4, <1>5, <1>6, <1>7, <1>8

\* Where a call of the driver is.
LEMMA StepOfCall ==
  ASSUME TypeInv, CallInv, call.pc # "idle"
  PROVE  /\ Step \in Steps /\ Step \in StepsOf(call.fn, call.bak)
         /\ call.fn \in Functions /\ call # Idle
         /\ call.plan # <<>> /\ call.plan \in Seq(Steps)
         /\ Len(call.plan) = 1 <=> LastStep(Step, call.bak)
         /\ ~LastStep(Step, call.bak) =>
              /\ Tail(call.plan) = PlanFrom(After(Step, call.fn), call.fn, call.bak)
              /\ After(Step, call.fn) \in StepsOf(call.fn, call.bak)
              /\ Head(Tail(call.plan)) = After(Step, call.fn)
              /\ Tail(call.plan) \in Seq(Steps)
<1>1. /\ Step \in StepsOf(call.fn, call.bak)
      /\ call.plan = PlanFrom(Step, call.fn, call.bak)
  BY DEF CallInv
<1>2. call.bak \in {0, 1}
  BY DEF TypeInv, CallRecords
<1>3. call # Idle
  BY CallFacts
<1>4. /\ Step \in Steps /\ call.fn \in Functions
      /\ ~LastStep(Step, call.bak) => After(Step, call.fn) \in StepsOf(call.fn, call.bak)
  BY <1>1, <1>2, StepFacts
<1>5. /\ call.plan # <<>> /\ call.plan \in Seq(Steps)
      /\ Len(call.plan) = 1 <=> LastStep(Step, call.bak)
      /\ ~LastStep(Step, call.bak) =>
           Tail(call.plan) = PlanFrom(After(Step, call.fn), call.fn, call.bak)
  BY <1>1, <1>2, PlanSteps
<1>6. ~LastStep(Step, call.bak) =>
        /\ Head(Tail(call.plan)) = After(Step, call.fn)
        /\ Tail(call.plan) \in Seq(Steps)
  <2>1. SUFFICES ASSUME NEW next \in StepsOf(call.fn, call.bak),
                        Tail(call.plan) = PlanFrom(next, call.fn, call.bak)
                 PROVE  Head(Tail(call.plan)) = next /\ Tail(call.plan) \in Seq(Steps)
    BY <1>4, <1>5
  <2>2. /\ PlanFrom(next, call.fn, call.bak) \in Seq(Steps)
        /\ Head(PlanFrom(next, call.fn, call.bak)) = next
    BY <1>2, PlanSteps
  <2>3. QED
    BY <2>1, <2>2
<1>7. QED
  BY <1>1, <1>3, <1>4, <1>5, <1>6

\* What is taken from an answer is of the register that was read.
LEMMA AnswerFacts ==
  ASSUME TypeInv, NEW step \in Steps \ Writes, Answers(ctl_pkt, step)
  PROVE  /\ Answer = ctl_pkt.data[1]
         /\ ctl_pkt.reg = RegOf(step) /\ ctl_pkt.func = "READ" /\ ctl_pkt.full
         /\ step = "info" => Answer \in Types
         /\ step \in {"readMode", "readPara"} => Answer \in Values
<1>1. /\ ctl_pkt.reg = RegOf(step) /\ ctl_pkt.func = "READ" /\ ctl_pkt.full
  BY ExchangeFacts DEF Answers
<1>2. ctl_pkt.data \in Seq(Nat) /\ ctl_pkt.data # <<>>
  BY DEF TypeInv, AnswerOK, Packets
<1>3. Answer = ctl_pkt.data[1]
  BY <1>2, TailFacts DEF Answer
<1>4. /\ step = "info" => RegOf(step) = "info"
      /\ step = "readMode" => RegOf(step) = "mode"
      /\ step = "readPara" => RegOf(step) = "para"
  BY DEF RegOf
<1>5. QED
  BY <1>1, <1>3, <1>4 DEF TypeInv, AnswerOK

\* A call begins: what the three kinds of calls have in common.
Begins(fn, s, v) ==
  /\ call = Idle
  /\ call' = [Calling(fn, s, v, Script(fn)) EXCEPT !.bak = IF fn \in ParaCalls THEN status ELSE 0]
  /\ ret' = NoRet
  /\ fn \in ParaCalls => status' = 0
  /\ fn \notin ParaCalls => status' = status
  /\ fn \notin {STOP} \cup ParaCalls => status = 0
  /\ card_mode' = IF fn = STOP THEN [slot \in Slots |-> 0] ELSE card_mode
  /\ UNCHANGED <<down, up, box, card_type, ctl_pkt, history, left>>

LEMMA NextCases ==
  ASSUME TypeInv, [Next]_vars
  PROVE  \/ \E fn \in Functions, s \in Slots, v \in Values : Begins(fn, s, v)
         \/ Send \/ WriteFails \/ WakeGood \/ WakeUnanswered
         \/ PID_Update_NewData \/ rx_event \/ Lose
         \/ BoxReads \/ BoxWrites \/ BoxSimulates \/ Restart
         \/ UNCHANGED vars
<1>1. 0 \in Slots /\ 0 \in Values /\ status \in {0, 1}
  BY ConstantFacts DEF TypeInv
<1>2. ASSUME NEW fn \in DOMAIN ConfigCalls, NEW s \in Slots, NEW v \in Values,
             Configure(fn, s, v)
      PROVE  fn \in Functions /\ Begins(fn, s, v)
  <2>1. fn \in Functions /\ fn \notin ParaCalls /\ fn # STOP
    BY DEF Functions, ConfigCalls, ParaCalls, ReadPara, WritePara, STOP
  <2>2. Calling(fn, s, v, Script(fn)) = [Calling(fn, s, v, Script(fn)) EXCEPT !.bak = 0]
    BY DEF Calling
  <2>3. QED
    BY <1>2, <2>1, <2>2 DEF Begins, Configure, dev
<1>3. ASSUME NEW fn \in ParaCalls, NEW s \in Slots, NEW v \in Values, Parameters(fn, s, v)
      PROVE  fn \in Functions /\ Begins(fn, s, v)
  BY <1>3, CallFacts DEF Begins, Parameters
<1>4. ASSUME NEW cmd \in {START, STOP}, PID_Unit_Cmd(cmd)
      PROVE  cmd \in Functions /\ Begins(cmd, 0, 0)
  <2>1. Calling(cmd, 0, 0, Script(cmd)) = [Calling(cmd, 0, 0, Script(cmd)) EXCEPT !.bak = 0]
    BY DEF Calling
  <2>2. cmd \in Functions /\ cmd \notin ParaCalls /\ (cmd # STOP => status = 0)
    BY <1>4, CallFacts DEF PID_Unit_Cmd
  <2>3. QED
    BY <1>4, <2>1, <2>2 DEF Begins, PID_Unit_Cmd
<1>5. ASSUME Application
      PROVE  \/ \E fn \in Functions, s \in Slots, v \in Values : Begins(fn, s, v)
             \/ PID_Update_NewData
  <2>1. /\ {"PID_Sync_ReadConfig", "PID_Sync_WriteConfig", "PID_Slot_ReadInfo",
            "PID_Slot_ReadConfig", "PID_Slot_WriteConfig"} = DOMAIN ConfigCalls
    BY DEF ConfigCalls
  <2>2. ReadPara \in ParaCalls /\ WritePara \in ParaCalls
    BY DEF ParaCalls
  <2>3. CASE PID_Update_NewData
    BY <2>3
  <2>4. CASE \E fn \in {"PID_Sync_ReadConfig", "PID_Sync_WriteConfig"} : Configure(fn, 0, 0)
    BY <1>1, <1>2, <2>1, <2>4
  <2>5. CASE \E fn \in {"PID_Slot_ReadInfo", "PID_Slot_ReadConfig"}, s \in Slots :
               Configure(fn, s, 0)
    BY <1>1, <1>2, <2>1, <2>5
  <2>6. CASE \E s \in Slots, v \in Values : Configure("PID_Slot_WriteConfig", s, v)
    BY <1>2, <2>1, <2>6
  <2>7. CASE \E s \in Slots : Parameters(ReadPara, s, 0)
    BY <1>1, <1>3, <2>2, <2>7
  <2>8. CASE \E s \in Slots, v \in Values : Parameters(WritePara, s, v)
    BY <1>3, <2>2, <2>8
  <2>9. CASE \E cmd \in {START, STOP} : PID_Unit_Cmd(cmd)
    BY <1>1, <1>4, <2>9
  <2>10. QED
    BY <1>5, <2>3, <2>4, <2>5, <2>6, <2>7, <2>8, <2>9 DEF Application
<1>6. QED
  BY <1>5 DEF Next, Driver, Box

LEMMA BeginFacts ==
  ASSUME TypeInv, NEW fn \in Functions, NEW s \in Slots, NEW v \in Values, Begins(fn, s, v)
  PROVE  /\ call' \in CallRecords /\ call'.fn = fn /\ call'.slot = s /\ call'.val = v
         /\ call'.pc = "send" /\ call'.bak = IF fn \in ParaCalls THEN status ELSE 0
         /\ call'.bak \in {0, 1}
         /\ Step' \in StepsOf(fn, call'.bak)
         /\ call'.plan = PlanFrom(Step', fn, call'.bak)
         /\ fn \in {START, STOP} => Step' = "types"
         /\ fn \in ParaCalls /\ call'.bak = 1 => Step' = "stop"
         /\ fn = ReadPara => Step' \notin {"types", "start"}
<1> DEFINE bak == IF fn \in ParaCalls THEN status ELSE 0
<1>1. bak \in {0, 1} /\ status \in {0, 1}
  BY DEF TypeInv
<1>2. call' = [Calling(fn, s, v, Script(fn)) EXCEPT !.bak = bak]
  BY DEF Begins
<1>3. /\ Script(fn) \in Seq(Steps)
      /\ Head(Script(fn)) \in StepsOf(fn, bak)
      /\ Script(fn) = PlanFrom(Head(Script(fn)), fn, bak)
      /\ fn \in {START, STOP} => Head(Script(fn)) = "types"
      /\ fn \in ParaCalls /\ bak = 1 => Head(Script(fn)) = "stop"
      /\ fn = ReadPara => Head(Script(fn)) \notin {"types", "start"}
  BY <1>1, ScriptFacts
<1> HIDE DEF bak
<1>4. /\ call' \in CallRecords /\ call'.fn = fn /\ call'.slot = s /\ call'.val = v
      /\ call'.plan = Script(fn) /\ call'.pc = "send" /\ call'.bak = bak
  BY <1>1, <1>2, <1>3 DEF Calling, CallRecords
<1>5. Step' = Head(Script(fn))
  BY <1>4 DEF Step
<1>6. QED
  BY <1>1, <1>3, <1>4, <1>5 DEF bak

LEMMA SendFacts ==
  ASSUME TypeInv, CallInv, Send
  PROVE  /\ call.pc = "send" /\ call.pc # "idle" /\ call' \in CallRecords
         /\ call'.fn = call.fn /\ call'.slot = call.slot /\ call'.val = call.val
         /\ call'.plan = call.plan /\ call'.bak = call.bak /\ call'.pc = "wait"
         /\ Step' = Step
<1>1. call' = [call EXCEPT !.pc = "wait"] /\ call.pc = "send" /\ call \in CallRecords
  BY DEF Send, TypeInv
<1>2. /\ call' \in CallRecords
      /\ call'.fn = call.fn /\ call'.slot = call.slot /\ call'.val = call.val
      /\ call'.plan = call.plan /\ call'.bak = call.bak /\ call'.pc = "wait"
  BY <1>1 DEF CallRecords
<1>3. QED
  BY <1>1, <1>2 DEF Step

LEMMA FailFacts ==
  ASSUME TypeInv, CallInv, call.pc # "idle", Fail
  PROVE  /\ call' = Idle /\ ret' \in Results
         /\ ret'.fn = call.fn /\ ret'.slot = call.slot /\ ret'.val = call.val
         /\ ret'.err <=> ~Inner
         /\ Inner \in BOOLEAN
         /\ status' = IF Inner THEN 0 ELSE IF call.fn \in ParaCalls THEN call.bak ELSE status
         /\ status' \in {0, 1}
         /\ card_type' = card_type /\ card_mode' = card_mode
<1>1. Inner \in BOOLEAN
  BY DEF Inner
<1>2. call \in CallRecords /\ call.fn \in Functions /\ status \in {0, 1}
  BY StepOfCall DEF TypeInv
<1>3. ret' = [fn |-> call.fn, slot |-> call.slot, err |-> ~Inner, val |-> call.val]
  BY DEF Fail, Return
<1>4. ret' \in Results /\ ret'.fn = call.fn /\ ret'.slot = call.slot /\ ret'.val = call.val
      /\ (ret'.err <=> ~Inner)
  BY <1>1, <1>2, <1>3 DEF Results, CallRecords
<1>5. /\ call' = Idle /\ card_type' = card_type /\ card_mode' = card_mode
      /\ status' = IF Inner THEN 0 ELSE IF call.fn \in ParaCalls THEN call.bak ELSE status
  BY DEF Fail, Return, ParaCalls
<1>6. status' \in {0, 1}
  BY <1>2, <1>5 DEF CallRecords
<1>7. QED
  BY <1>1, <1>4, <1>5, <1>6

\* An exchange that was the last of its call.
LEMMA LastFacts ==
  ASSUME TypeInv, CallInv, WakeGood, Len(call.plan) = 1
  PROVE  /\ call.pc = "wait" /\ call.pc # "idle" /\ LastStep(Step, call.bak)
         /\ Step \notin Writes => Answers(ctl_pkt, Step)
         /\ call' = Idle /\ ret' \in Results
         /\ ret'.fn = call.fn /\ ret'.slot = call.slot
         /\ ret'.val = IF Step = "readPara" THEN Answer ELSE call.val
         /\ status' = CASE Step = "start"   -> 1
                        [] Step = "stopAll" -> 0
                        [] OTHER            -> IF call.fn \in ParaCalls THEN call.bak ELSE status
         /\ status' \in {0, 1}
         /\ history' = IF call.fn \in {START, STOP}
                       THEN [Slept EXCEPT !.known = TRUE] ELSE Slept
<1>1. call.pc = "wait" /\ call.pc # "idle" /\ Keep(Step) /\ LastOf(Step)
      /\ (Exchanges[Step].func = "READ" => Answers(ctl_pkt, Step))
  BY DEF WakeGood, SleepIsOver
<1>2. call \in CallRecords /\ call.fn \in Functions /\ status \in {0, 1} /\ Step \in Steps
      /\ LastStep(Step, call.bak)
  BY <1>1, StepOfCall DEF TypeInv
<1>3. Step \notin Writes => Answers(ctl_pkt, Step)
  BY <1>1, <1>2, ExchangeFacts
<1>4. Step = "readPara" => Answer \in Values
  BY <1>2, <1>3, AnswerFacts DEF Writes
<1>5. /\ call' = Idle
      /\ ret' = [fn |-> call.fn, slot |-> call.slot, err |-> FALSE,
                 val |-> IF Step = "readPara" THEN Answer ELSE call.val]
  BY <1>1 DEF LastOf, Return
<1>6. /\ status' = CASE Step = "start"   -> 1
                     [] Step = "stopAll" -> 0
                     [] OTHER            -> IF call.fn \in ParaCalls THEN call.bak ELSE status
      /\ history' = IF call.fn \in {START, STOP}
                    THEN [Slept EXCEPT !.known = TRUE] ELSE Slept
  BY <1>1 DEF LastOf, ParaCalls
<1>7. call.bak \in {0, 1} /\ call.val \in Values /\ call.slot \in Slots
  BY <1>2 DEF CallRecords
<1>8. status' \in {0, 1}
  BY <1>2, <1>6, <1>7
<1>9. ret' \in Results
  BY <1>2, <1>4, <1>5, <1>7 DEF Results
<1>10. QED
  BY <1>1, <1>2, <1>3, <1>5, <1>6, <1>8, <1>9

\* An exchange after which the call goes on.
LEMMA NextFacts ==
  ASSUME TypeInv, CallInv, WakeGood, Len(call.plan) # 1
  PROVE  /\ call.pc = "wait" /\ call.pc # "idle" /\ ~LastStep(Step, call.bak)
         /\ Step \notin Writes => Answers(ctl_pkt, Step)
         /\ call' \in CallRecords
         /\ call'.fn = call.fn /\ call'.slot = call.slot /\ call'.bak = call.bak
         /\ call'.pc = "send" /\ call'.plan = Tail(call.plan)
         /\ call'.val = IF Step = "readPara" THEN Answer ELSE call.val
         /\ Step' = After(Step, call.fn)
         /\ status' = status /\ ret' = ret /\ history' = Slept
<1>1. call.pc = "wait" /\ call.pc # "idle" /\ Keep(Step) /\ NextOf(Step)
      /\ (Exchanges[Step].func = "READ" => Answers(ctl_pkt, Step))
  BY DEF WakeGood, SleepIsOver
<1>2. /\ call \in CallRecords /\ call.fn \in Functions /\ Step \in Steps
      /\ ~LastStep(Step, call.bak) /\ Tail(call.plan) \in Seq(Steps)
      /\ Head(Tail(call.plan)) = After(Step, call.fn)
  BY <1>1, StepOfCall DEF TypeInv
<1>3. Step \notin Writes => Answers(ctl_pkt, Step)
  BY <1>1, <1>2, ExchangeFacts
<1>4. Step = "readPara" => Answer \in Values
  BY <1>2, <1>3, AnswerFacts DEF Writes
<1>5. PICK plan \in Seq(Steps) : plan = Tail(call.plan)
  BY <1>2
<1>6. PICK val \in Values : val = IF Step = "readPara" THEN Answer ELSE call.val
  BY <1>2, <1>4 DEF CallRecords
<1>7. call' = [call EXCEPT !.plan = plan, !.pc = "send", !.val = val]
  BY <1>1, <1>5, <1>6 DEF NextOf
<1>8. /\ call' \in CallRecords
      /\ call'.fn = call.fn /\ call'.slot = call.slot /\ call'.bak = call.bak
      /\ call'.pc = "send" /\ call'.plan = plan /\ call'.val = val
  BY <1>2, <1>7 DEF CallRecords
<1>9. status' = status /\ ret' = ret /\ history' = Slept
  BY <1>1 DEF NextOf
<1>10. Step' = After(Step, call.fn)
  BY <1>2, <1>5, <1>8 DEF Step
<1>11. QED
  BY <1>1, <1>2, <1>3, <1>5, <1>6, <1>8, <1>9, <1>10

\* What the driver keeps is of the right type.
LEMMA KeepFacts ==
  ASSUME TypeInv, CallInv, WakeGood
  PROVE  /\ card_type' \in [Slots -> Types] /\ card_mode' \in [Slots -> Values]
         /\ Step \notin {"info"} => card_type' = card_type
         /\ Step \notin {"readMode", "writeMode"} => card_mode' = card_mode
<1>1. call.pc # "idle" /\ Keep(Step)
      /\ (Exchanges[Step].func = "READ" => Answers(ctl_pkt, Step))
  BY DEF WakeGood, SleepIsOver
<1>2. /\ call \in CallRecords /\ Step \in Steps
      /\ card_type \in [Slots -> Types] /\ card_mode \in [Slots -> Values]
  BY <1>1, StepOfCall DEF TypeInv
<1>3. Step \notin Writes => Answers(ctl_pkt, Step)
  BY <1>1, <1>2, ExchangeFacts
<1>4. /\ Step = "info" => Answer \in Types
      /\ Step = "readMode" => Answer \in Values
  BY <1>2, <1>3, AnswerFacts DEF Writes
<1>5. call.slot \in Slots /\ call.val \in Values
  BY <1>2 DEF CallRecords
<1>6. card_type' \in [Slots -> Types] /\ (Step # "info" => card_type' = card_type)
  BY <1>1, <1>2, <1>4, <1>5 DEF Keep
<1>7. CASE Step = "readMode"
  BY <1>1, <1>2, <1>4, <1>5, <1>6, <1>7 DEF Keep
<1>8. CASE Step = "writeMode"
  BY <1>1, <1>2, <1>4, <1>5, <1>6, <1>8 DEF Keep
<1>9. CASE Step \notin {"readMode", "writeMode"}
  BY <1>1, <1>2, <1>6, <1>9 DEF Keep
<1>10. QED
  BY <1>7, <1>8, <1>9

LEMMA SleptFacts ==
  ASSUME TypeInv, SleepIsOver, NEW h, h = Slept \/ h = [Slept EXCEPT !.known = TRUE]
  PROVE  /\ h \in Histories
         /\ h.fails = history.fails /\ h.lost = history.lost /\ h.para = history.para
         /\ h.late = IF Drained THEN history.late ELSE history.late + 1
         /\ h.fails + h.lost + h.late <= MaxFaults
         /\ h = Slept => h.known = history.known
         /\ h # Slept => h.known = TRUE
<1>1. history \in Histories /\ Faults <= MaxFaults /\ MaxFaults \in Nat
  BY ProtocolAssumption DEF TypeInv
<1>2. history.late + 1 \in Nat /\ history.fails \in Nat /\ history.lost \in Nat /\ history.late \in Nat
  BY <1>1 DEF Histories
<1>3. CASE Drained
  <2>1. Slept = history
    BY <1>3 DEF Slept
  <2>2. QED
    BY <1>1, <1>2, <1>3, <2>1 DEF Histories, Faults
<1>4. CASE ~Drained
  <2>1. Slept = [history EXCEPT !.late = @ + 1]
    BY <1>4 DEF Slept
  <2>2. Faults < MaxFaults
    BY <1>4 DEF SleepIsOver
  <2>3. /\ Slept \in Histories /\ Slept.fails = history.fails /\ Slept.lost = history.lost
        /\ Slept.para = history.para /\ Slept.late = history.late + 1
        /\ Slept.known = history.known
    BY <1>1, <1>2, <2>1 DEF Histories
  <2>4. /\ h \in Histories /\ h.fails = history.fails /\ h.lost = history.lost
        /\ h.para = history.para /\ h.late = history.late + 1
        /\ h = Slept => h.known = history.known
        /\ h # Slept => h.known = TRUE
    BY <2>3 DEF Histories
  <2>5. QED
    BY <1>1, <1>2, <1>4, <2>2, <2>4 DEF Faults
<1>5. QED
  BY <1>3, <1>4


\* What the other actions count.
LEMMA CountFacts ==
  ASSUME TypeInv, Faults < MaxFaults \/ UNCHANGED <<history>>
  PROVE  /\ history \in Histories /\ history.fails \in Nat /\ history.lost \in Nat
         /\ history.late \in Nat /\ history.known \in BOOLEAN
         /\ history' = [history EXCEPT !.fails = @ + 1] =>
              /\ history' \in Histories /\ Faults' <= MaxFaults
              /\ history'.fails = history.fails + 1 /\ history'.lost = history.lost
              /\ history'.late = history.late /\ history'.para = history.para
              /\ history'.known = history.known
         /\ history' = [history EXCEPT !.lost = @ + 1] =>
              /\ history' \in Histories /\ Faults' <= MaxFaults
              /\ history'.lost = history.lost + 1
         /\ history' = history => history' \in Histories /\ Faults' <= MaxFaults
<1>1. /\ history \in Histories /\ Faults <= MaxFaults /\ MaxFaults \in Nat
      /\ history.fails \in Nat /\ history.lost \in Nat /\ history.late \in Nat
      /\ history.known \in BOOLEAN
  BY ProtocolAssumption DEF TypeInv, Histories
<1>2. ASSUME history' = [history EXCEPT !.fails = @ + 1]
      PROVE  /\ history' \in Histories /\ Faults' <= MaxFaults
             /\ history'.fails = history.fails + 1 /\ history'.lost = history.lost
             /\ history'.late = history.late /\ history'.para = history.para
             /\ history'.known = history.known
  <2>1. history.fails + 1 \in Nat
    BY <1>1
  <2>2. /\ history' \in Histories
        /\ history'.fails = history.fails + 1 /\ history'.lost = history.lost
        /\ history'.late = history.late /\ history'.para = history.para
        /\ history'.known = history.known
    BY <1>1, <1>2, <2>1 DEF Histories
  <2>3. history' # history
    BY <1>1, <2>2
  <2>4. QED
    BY <1>1, <2>2, <2>3 DEF Faults
<1>3. ASSUME history' = [history EXCEPT !.lost = @ + 1]
      PROVE  /\ history' \in Histories /\ Faults' <= MaxFaults
             /\ history'.lost = history.lost + 1
  <2>1. history.lost + 1 \in Nat
    BY <1>1
  <2>2. /\ history' \in Histories
        /\ history'.fails = history.fails /\ history'.lost = history.lost + 1
        /\ history'.late = history.late
    BY <1>1, <1>3, <2>1 DEF Histories
  <2>3. history' # history
    BY <1>1, <2>2
  <2>4. QED
    BY <1>1, <2>2, <2>3 DEF Faults
<1>4. history' = history => Faults' <= MaxFaults
  BY <1>1 DEF Faults
<1>5. QED
  BY <1>1, <1>2, <1>3, <1>4

LEMMA BoxWordFacts ==
  ASSUME box \in Boxes, NEW pkt \in Packets, FrameOK(pkt), pkt.func = "READ", pkt.reg # "data"
  PROVE  /\ BoxWord(pkt) \in Nat
         /\ pkt.reg = "info" => BoxWord(pkt) \in Types
         /\ pkt.reg \in {"mode", "para"} => BoxWord(pkt) \in Values
         /\ pkt.reg = "para" => BoxWord(pkt) = box.para[pkt.card] /\ pkt.card \in Slots
<1>1. /\ pkt.reg = "sync" \/ (pkt.reg \in {"info", "mode", "para"} /\ pkt.card \in Slots)
      /\ box.mode \in [Slots -> Values] /\ box.para \in [Slots -> Values]
  BY DEF FrameOK, Boxes
<1>2. 0 \in Nat /\ Values \subseteq Nat /\ Types \subseteq Nat
  BY ConstantFacts
<1>3. CASE pkt.reg = "sync"
  BY <1>3 DEF BoxWord
<1>4. CASE pkt.reg = "info"
  BY <1>1, <1>2, <1>4, ConstantFacts DEF BoxWord
<1>5. CASE pkt.reg = "mode"
  BY <1>1, <1>2, <1>5 DEF BoxWord
<1>6. CASE pkt.reg = "para"
  BY <1>1, <1>2, <1>6 DEF BoxWord
<1>7. QED
  BY <1>1, <1>3, <1>4, <1>5, <1>6

\* What the box does: it takes the first frame, and what it sends is that frame
\* but for its words.
LEMMA BoxSteps ==
  ASSUME TypeInv, BoxReads \/ BoxWrites \/ BoxSimulates
  PROVE  /\ down # <<>> /\ down[1] \in Packets /\ FrameOK(down[1]) /\ down' = Tail(down)
         /\ box' = IF down[1].func = "WRITE" THEN BoxWritten(down[1]) ELSE box
         /\ UNCHANGED <<status, card_type, card_mode, ctl_pkt, call, ret, history, left>>
         /\ \/ up' = up /\ (down[1].func = "WRITE" \/ down[1].reg = "data")
            \/ \E pkt \in Packets :
                 /\ up' = Append(up, pkt) /\ AnswerOK(pkt)
                 /\ pkt.card = down[1].card /\ pkt.func = down[1].func
                 /\ pkt.reg = down[1].reg /\ pkt.full = down[1].full
                 /\ pkt.current = down[1].current
                 /\ pkt.func = "READ" /\ pkt.reg # "data" => pkt.data[1] = BoxWord(down[1])
<1>1. /\ down \in Seq(Packets) /\ FramesOK(down) /\ box \in Boxes
      /\ down # <<>> /\ down' = Tail(down)
      /\ UNCHANGED <<status, card_type, card_mode, ctl_pkt, call, ret, history, left>>
  BY DEF TypeInv, FramesOK, BoxReads, BoxWrites, BoxSimulates, dev
<1>2. Head(down) = down[1] /\ down[1] \in Packets /\ FrameOK(down[1])
  BY <1>1, TailFacts, TailOK
<1>3. PICK first \in Packets : first = down[1]
  BY <1>2
<1>4. CASE BoxReads
  <2>1. /\ first.func = "READ" /\ first.reg # "data" /\ box' = box
        /\ up' = Append(up, [first EXCEPT !.data = <<BoxWord(first)>>])
    BY <1>2, <1>3, <1>4 DEF BoxReads
  <2>2. /\ BoxWord(first) \in Nat
        /\ first.reg = "info" => BoxWord(first) \in Types
        /\ first.reg \in {"mode", "para"} => BoxWord(first) \in Values
    BY <1>1, <1>2, <1>3, <2>1, BoxWordFacts
  <2>3. PICK pkt \in Packets : pkt = [first EXCEPT !.data = <<BoxWord(first)>>]
    BY <2>2, AnsweredFacts
  <2>4. /\ pkt.card = first.card /\ pkt.func = first.func
        /\ pkt.reg = first.reg /\ pkt.full = first.full /\ pkt.current = first.current
        /\ pkt.data[1] = BoxWord(first) /\ pkt.data # <<>>
    BY <2>2, <2>3, AnsweredFacts
  <2>5. AnswerOK(pkt)
    BY <2>2, <2>4 DEF AnswerOK
  <2>6. QED
    BY <1>1, <1>2, <1>3, <2>1, <2>3, <2>4, <2>5
<1>5. CASE BoxWrites
  <2>1. /\ first.func = "WRITE" /\ box' = BoxWritten(first)
        /\ up' \in {up, Append(up, [first EXCEPT !.data = <<0>>])}
    BY <1>2, <1>3, <1>5 DEF BoxWrites
  <2>2. PICK pkt \in Packets : pkt = [first EXCEPT !.data = <<0>>]
    BY AnsweredFacts
  <2>3. /\ pkt.card = first.card /\ pkt.func = first.func
        /\ pkt.reg = first.reg /\ pkt.full = first.full /\ pkt.current = first.current
        /\ pkt.data # <<>>
    BY <2>2, AnsweredFacts
  <2>4. AnswerOK(pkt)
    BY <2>1, <2>3 DEF AnswerOK
  <2>5. QED
    BY <1>1, <1>2, <1>3, <2>1, <2>2, <2>3, <2>4
<1>6. CASE BoxSimulates
  <2>1. /\ first.reg = "data" /\ box' = box
        /\ up' \in {up, Append(up, first)}
    BY <1>2, <1>3, <1>6 DEF BoxSimulates
  <2>2. FrameOK(first)
    BY <1>2, <1>3
  <2>3. first.func # "WRITE" /\ AnswerOK(first)
    BY <2>1, <2>2 DEF FrameOK, AnswerOK, Packets
  <2>4. QED
    BY <1>1, <1>2, <1>3, <2>1, <2>3
<1>7. QED
  BY <1>4, <1>5, <1>6

LEMMA TypeInit == Init => TypeInv
<1> SUFFICES ASSUME Init PROVE TypeInv
  OBVIOUS
<1>1. FramesOK(down) /\ AnswersOK(up) /\ AnswerOK(ctl_pkt)
  BY ClearedFacts DEF Init, FramesOK, AnswersOK
<1>2. 0 \in Values /\ 0 \in TypeWords
  BY ConstantFacts, TypeWordFacts
<1>3. box \in Boxes
  BY <1>2 DEF Init, Boxes
<1>4. status \in {0, 1} /\ card_type \in [Slots -> Types] /\ card_mode \in [Slots -> Values]
  BY <1>2, ConstantFacts DEF Init
<1>5. call \in CallRecords /\ ret \in Results
  BY CallFacts DEF Init
<1>6. history \in Histories /\ Faults <= MaxFaults
  <2>1. box.para \in [Slots -> Values]
    BY <1>3 DEF Boxes
  <2>2. history = [fails |-> 0, lost |-> 0, late |-> 0, para |-> box.para, known |-> FALSE]
    BY DEF Init
  <2>3. QED
    BY <2>1, <2>2, ProtocolAssumption DEF Histories, Faults
<1>7. QED
  BY <1>1, <1>3, <1>4, <1>5, <1>6 DEF TypeInv

LEMMA TypeNext ==
  ASSUME TypeInv, CallInv, [Next]_vars
  PROVE  TypeInv'
<1>1. /\ FramesOK(down) /\ AnswersOK(up) /\ AnswerOK(ctl_pkt) /\ box \in Boxes
      /\ down \in Seq(Packets) /\ up \in Seq(Packets)
      /\ status \in {0, 1} /\ card_type \in [Slots -> Types] /\ card_mode \in [Slots -> Values]
      /\ call \in CallRecords /\ ret \in Results /\ history \in Histories
      /\ Faults <= MaxFaults
  BY DEF TypeInv, FramesOK, AnswersOK
<1>2. ASSUME NEW fn \in Functions, NEW s \in Slots, NEW v \in Values, Begins(fn, s, v)
      PROVE  TypeInv'
  <2>1. call' \in CallRecords
    BY <1>2, BeginFacts
  <2>2. /\ UNCHANGED <<down, up, box, card_type, ctl_pkt, history>> /\ ret' = NoRet
        /\ card_mode' = IF fn = STOP THEN [slot \in Slots |-> 0] ELSE card_mode
        /\ status' \in {0, status}
    BY <1>2 DEF Begins
  <2>3. card_mode' \in [Slots -> Values] /\ status' \in {0, 1}
    BY <1>1, <2>2, ConstantFacts
  <2>4. QED
    BY <1>1, <2>1, <2>2, <2>3, CallFacts DEF TypeInv, Faults
<1>3. ASSUME Send PROVE TypeInv'
  <2>1. call' \in CallRecords /\ Step \in Steps
    BY <1>3, SendFacts, StepOfCall
  <2>2. FramesOK(Aged(down)) /\ AnswersOK(Aged(up)) /\ Aged(down) \in Seq(Packets)
    BY <1>1, AgedOK, AgedFacts
  <2>3. Request(Step) \in Packets /\ FrameOK(Request(Step))
    BY <1>1, <2>1, RequestFacts
  <2>4. FramesOK(down')
    BY <1>3, <2>2, <2>3, AppendOK DEF Send
  <2>5. AnswersOK(up') /\ AnswerOK(ctl_pkt')
    BY <1>3, <2>2, ClearedFacts DEF Send
  <2>6. history' \in Histories /\ Faults' = Faults
    <3>1. call.slot \in Slots /\ call.val \in Values
      BY <1>1 DEF CallRecords
    <3>2. CASE Step = "writePara"
      <4>1. history' = [history EXCEPT !.para[call.slot] = call.val]
        BY <1>3, <3>2 DEF Send
      <4>2. history' = [history EXCEPT !.para = [history.para EXCEPT ![call.slot] = call.val]]
        BY <4>1
      <4>3. [history.para EXCEPT ![call.slot] = call.val] \in [Slots -> Values]
        BY <1>1, <3>1 DEF Histories
      <4>4. QED
        BY <1>1, <4>2, <4>3 DEF Histories, Faults
    <3>3. CASE Step # "writePara"
      BY <1>1, <1>3, <3>3 DEF Send, Faults
    <3>4. QED
      BY <3>2, <3>3
  <2>7. UNCHANGED <<box, status, card_type, card_mode, ret>>
    BY <1>3 DEF Send, dev
  <2>8. QED
    BY <1>1, <2>1, <2>4, <2>5, <2>6, <2>7 DEF TypeInv
<1>4. ASSUME WriteFails PROVE TypeInv'
  <2>1. call.pc # "idle" /\ Fail /\ UNCHANGED <<down, up, box>> /\ ctl_pkt' = Cleared
        /\ Faults < MaxFaults /\ history' = [history EXCEPT !.fails = @ + 1]
    BY <1>4 DEF WriteFails
  <2>2. /\ call' = Idle /\ ret' \in Results /\ status' \in {0, 1}
        /\ card_type' = card_type /\ card_mode' = card_mode
    BY <2>1, FailFacts
  <2>3. history' \in Histories /\ Faults' <= MaxFaults
    BY <2>1, CountFacts
  <2>4. QED
    BY <1>1, <2>1, <2>2, <2>3, CallFacts, ClearedFacts DEF TypeInv
<1>5. ASSUME WakeGood PROVE TypeInv'
  <2>1. SleepIsOver /\ UNCHANGED <<down, up, box, ctl_pkt>>
    BY <1>5 DEF WakeGood
  <2>2. card_type' \in [Slots -> Types] /\ card_mode' \in [Slots -> Values]
    BY <1>5, KeepFacts
  <2>3. call' \in CallRecords /\ ret' \in Results /\ status' \in {0, 1}
        /\ (history' = Slept \/ history' = [Slept EXCEPT !.known = TRUE])
    BY <1>1, <1>5, LastFacts, NextFacts, CallFacts
  <2>4. history' \in Histories /\ history'.fails + history'.lost + history'.late <= MaxFaults
    BY <2>1, <2>3, SleptFacts
  <2>5. QED
    BY <1>1, <2>1, <2>2, <2>3, <2>4 DEF TypeInv, Faults
<1>6. ASSUME WakeUnanswered PROVE TypeInv'
  <2>1. call.pc # "idle" /\ SleepIsOver /\ Fail /\ UNCHANGED <<down, up, box, ctl_pkt>>
        /\ history' = Slept
    BY <1>6 DEF WakeUnanswered, SleepIsOver
  <2>2. /\ call' = Idle /\ ret' \in Results /\ status' \in {0, 1}
        /\ card_type' = card_type /\ card_mode' = card_mode
    BY <2>1, FailFacts
  <2>3. history' \in Histories /\ history'.fails + history'.lost + history'.late <= MaxFaults
    BY <2>1, SleptFacts
  <2>4. QED
    BY <1>1, <2>1, <2>2, <2>3, CallFacts DEF TypeInv, Faults
<1>7. ASSUME PID_Update_NewData PROVE TypeInv'
  <2>1. FramesOK(Append(down, Simulation))
    BY <1>1, SimulationFacts, AppendOK
  <2>2. QED
    BY <1>1, <1>7, <2>1 DEF PID_Update_NewData, TypeInv, dev, Faults
<1>8. ASSUME rx_event PROVE TypeInv'
  <2>1. AnswersOK(Tail(up)) /\ AnswerOK(Head(up))
    BY <1>1, <1>8, TailOK DEF rx_event
  <2>2. QED
    BY <1>1, <1>8, <2>1 DEF rx_event, TypeInv, dev, Faults
<1>9. ASSUME Lose PROVE TypeInv'
  <2>1. FramesOK(down') /\ AnswersOK(up')
    BY <1>1, <1>9, TailOK DEF Lose
  <2>2. history' \in Histories /\ Faults' <= MaxFaults
    BY <1>9, CountFacts DEF Lose
  <2>3. QED
    BY <1>1, <1>9, <2>1, <2>2 DEF Lose, TypeInv, dev
<1>10. ASSUME BoxReads \/ BoxWrites \/ BoxSimulates PROVE TypeInv'
  <2>1. /\ down # <<>> /\ down[1] \in Packets /\ FrameOK(down[1]) /\ down' = Tail(down)
        /\ box' = IF down[1].func = "WRITE" THEN BoxWritten(down[1]) ELSE box
        /\ UNCHANGED <<status, card_type, card_mode, ctl_pkt, call, ret, history, left>>
        /\ up' = up \/ \E pkt \in Packets : up' = Append(up, pkt) /\ AnswerOK(pkt)
    BY <1>10, BoxSteps
  <2>2. FramesOK(Tail(down)) /\ box' \in Boxes
    BY <1>1, <2>1, TailOK, BoxFacts
  <2>3. AnswersOK(up')
    BY <1>1, <2>1, AppendOK
  <2>4. QED
    BY <1>1, <2>1, <2>2, <2>3 DEF TypeInv, Faults
<1>11. ASSUME Restart PROVE TypeInv'
  <2>1. FramesOK(Aged(down)) /\ AnswersOK(Aged(up))
    BY <1>1, AgedOK
  <2>2. history' \in Histories /\ Faults' = Faults
    <3>1. history' = [history EXCEPT !.known = FALSE]
      BY <1>11 DEF Restart
    <3>2. QED
      BY <1>1, <3>1 DEF Histories, Faults
  <2>3. 0 \in Values /\ CARD_INFO_NO \in Types
    BY ConstantFacts
  <2>4. QED
    BY <1>1, <1>11, <2>1, <2>2, <2>3, CallFacts, ClearedFacts DEF Restart, TypeInv
<1>12. ASSUME UNCHANGED vars PROVE TypeInv'
  BY <1>1, <1>12 DEF vars, dev, TypeInv, Faults
<1>13. QED
  BY <1>2, <1>3, <1>4, <1>5, <1>6, <1>7, <1>8, <1>9, <1>10, <1>11, <1>12, NextCases

(***************************************************************************)
(* The place of the call.                                                  *)
(***************************************************************************)
LEMMA CallInit == Init => CallInv
  BY CallFacts DEF Init, CallInv, Step

LEMMA CallNext ==
  ASSUME TypeInv, CallInv, [Next]_vars
  PROVE  CallInv'
<1>1. ASSUME call' = Idle PROVE CallInv'
  BY <1>1, CallFacts DEF CallInv
<1>2. ASSUME UNCHANGED <<call, ret, status>> PROVE CallInv'
  BY <1>2 DEF CallInv, Step
<1>3. ASSUME NEW fn \in Functions, NEW s \in Slots, NEW v \in Values, Begins(fn, s, v)
      PROVE  CallInv'
  <2>1. /\ call'.fn = fn /\ call'.pc = "send"
        /\ Step' \in StepsOf(fn, call'.bak) /\ call'.plan = PlanFrom(Step', fn, call'.bak)
    BY <1>3, BeginFacts
  <2>2. ret' = NoRet /\ (fn # STOP => status' = 0)
    BY <1>3, CallFacts DEF Begins
  <2>3. QED
    BY <2>1, <2>2, CallFacts DEF CallInv
<1>4. ASSUME Send PROVE CallInv'
  <2>1. /\ call.pc # "idle" /\ call'.pc = "wait" /\ Step' = Step
        /\ call'.fn = call.fn /\ call'.bak = call.bak /\ call'.plan = call.plan
    BY <1>4, SendFacts
  <2>2. ret' = ret /\ status' = status
    BY <1>4 DEF Send, dev
  <2>3. QED
    BY <2>1, <2>2 DEF CallInv
<1>5. ASSUME WriteFails PROVE CallInv'
  BY <1>1, <1>5 DEF WriteFails, Fail, Return
<1>6. ASSUME WakeGood PROVE CallInv'
  <2>1. CASE Len(call.plan) = 1
    BY <1>1, <1>6, <2>1, LastFacts
  <2>2. CASE Len(call.plan) # 1
    <3>1. /\ call.pc # "idle" /\ ~LastStep(Step, call.bak)
          /\ call'.fn = call.fn /\ call'.bak = call.bak /\ call'.pc = "send"
          /\ call'.plan = Tail(call.plan) /\ Step' = After(Step, call.fn)
          /\ status' = status /\ ret' = ret
      BY <1>6, <2>2, NextFacts
    <3>2. /\ Tail(call.plan) = PlanFrom(After(Step, call.fn), call.fn, call.bak)
          /\ After(Step, call.fn) \in StepsOf(call.fn, call.bak)
      BY <3>1, StepOfCall
    <3>3. QED
      BY <3>1, <3>2 DEF CallInv
  <2>3. QED
    BY <2>1, <2>2
<1>7. ASSUME WakeUnanswered PROVE CallInv'
  BY <1>1, <1>7 DEF WakeUnanswered, Fail, Return
<1>8. ASSUME Restart PROVE CallInv'
  <2>1. call' = Started /\ ret' = NoRet
    BY <1>8 DEF Restart
  <2>2. Step' = "types"
    BY <2>1, CallFacts DEF Step
  <2>3. QED
    BY <2>1, <2>2, CallFacts DEF CallInv
<1>9. ASSUME PID_Update_NewData \/ rx_event \/ Lose \/ BoxReads \/ BoxWrites \/ BoxSimulates
             \/ UNCHANGED vars
      PROVE  CallInv'
  BY <1>2, <1>9 DEF PID_Update_NewData, rx_event, Lose, BoxReads, BoxWrites, BoxSimulates,
     vars, dev
<1>10. QED
  BY <1>3, <1>4, <1>5, <1>6, <1>7, <1>8, <1>9, NextCases

(***************************************************************************)
(* Answers are those of the exchange under way.                            *)
(***************************************************************************)
LEMMA AnswersInit == Init => FreshInv /\ LeftInv /\ NewestInv /\ CurrentInv
<1> SUFFICES ASSUME Init PROVE FreshInv /\ LeftInv /\ NewestInv /\ CurrentInv
  OBVIOUS
<1>1. down = <<>> /\ up = <<>> /\ call.pc = "send"
  BY CallFacts DEF Init
<1>2. left = {} /\ Len(down) = 0 /\ Len(up) = 0
  BY DEF Init
<1>3. LeftInv
  BY <1>1, <1>2 DEF LeftInv
<1>4. QED
  BY <1>1, <1>3 DEF FreshInv, NewestInv, CurrentInv

LEMMA FreshNext ==
  ASSUME TypeInv, CallInv, FreshInv, [Next]_vars
  PROVE  FreshInv'
<1>1. down \in Seq(Packets) /\ up \in Seq(Packets) /\ history.late \in Nat
  BY DEF TypeInv, FramesOK, AnswersOK, Histories
<1>2. ASSUME NEW fn \in Functions, NEW s \in Slots, NEW v \in Values, Begins(fn, s, v)
      PROVE  FreshInv'
  <2>1. call.pc = "idle" /\ call'.pc = "send"
    BY <1>2, BeginFacts, CallFacts DEF Begins
  <2>2. UNCHANGED <<down, up, history>>
    BY <1>2 DEF Begins
  <2>3. QED
    BY <2>1, <2>2 DEF FreshInv
<1>3. ASSUME Send PROVE FreshInv'
  <2>1. call.pc = "send" /\ call'.pc = "wait" /\ Step \in Steps
    BY <1>3, SendFacts, StepOfCall
  <2>2. /\ down' = Append(Aged(down), Request(Step)) /\ up' = Aged(up) /\ ctl_pkt' = Cleared
        /\ history'.late = history.late
    BY <1>3 DEF Send
  <2>3. /\ Aged(down) \in Seq(Packets) /\ Len(Aged(down)) = Len(down)
        /\ \A i \in 1 .. Len(down) : Aged(down)[i].reg = down[i].reg
        /\ Aged(up) \in Seq(Packets) /\ Len(Aged(up)) = Len(up)
        /\ \A i \in 1 .. Len(up) : Aged(up)[i].reg = up[i].reg
    BY <1>1, AgedFacts
  <2>4. Request(Step) \in Packets /\ Request(Step).current
    BY <2>1, RequestFacts DEF TypeInv
  <2>5. /\ Len(down') = Len(down) + 1 /\ down'[Len(down) + 1] = Request(Step)
        /\ \A i \in 1 .. Len(down) : down'[i] = Aged(down)[i]
    BY <2>2, <2>3, <2>4, AppendFacts
  <2>6. \A i \in 1 .. Len(down) + 1 : i \in 1 .. Len(down) \/ i = Len(down) + 1
    BY <1>1
  <2>7. history.late = 0 =>
          /\ \A i \in 1 .. Len(down) : down[i].reg = "data"
          /\ \A i \in 1 .. Len(up) : up[i].reg = "data"
    BY <2>1 DEF FreshInv
  <2>8. history.late = 0 =>
          \A i \in 1 .. Len(down') : down'[i].reg = "data" \/ down'[i].current
    BY <2>3, <2>4, <2>5, <2>6, <2>7
  <2>9. history.late = 0 => \A i \in 1 .. Len(up') : up'[i].reg = "data"
    BY <2>2, <2>3, <2>7
  <2>10. QED
    BY <2>1, <2>2, <2>8, <2>9, ClearedFacts DEF FreshInv
<1>4. ASSUME WriteFails \/ WakeUnanswered \/ WakeGood PROVE FreshInv'
  <2>1. call'.pc # "wait"
    BY <1>4, CallFacts, LastFacts, NextFacts DEF WriteFails, WakeUnanswered, Fail, Return
  <2>2. UNCHANGED <<down, up>>
    BY <1>4 DEF WriteFails, WakeUnanswered, WakeGood
  <2>3. CASE WriteFails
    BY <2>1, <2>2, <2>3 DEF WriteFails, FreshInv
  <2>4. CASE WakeUnanswered \/ WakeGood
    <3>1. SleepIsOver /\ (history' = Slept \/ history' = [Slept EXCEPT !.known = TRUE])
      BY <2>4, LastFacts, NextFacts DEF WakeUnanswered, WakeGood
    <3>2. history'.late = IF Drained THEN history.late ELSE history.late + 1
      BY <3>1, SleptFacts
    <3>3. history'.late = 0 => down = <<>> /\ up = <<>>
      BY <1>1, <3>2 DEF Drained
    <3>4. QED
      BY <2>1, <2>2, <3>3 DEF FreshInv
  <2>5. QED
    BY <1>4, <2>3, <2>4
<1>5. ASSUME PID_Update_NewData PROVE FreshInv'
  <2>1. down' = Append(down, Simulation) /\ call.pc = "idle"
        /\ UNCHANGED <<up, ctl_pkt, call, history>>
    BY <1>5, CallFacts DEF PID_Update_NewData
  <2>2. /\ Len(down') = Len(down) + 1 /\ down'[Len(down) + 1] = Simulation
        /\ \A i \in 1 .. Len(down) : down'[i] = down[i]
    BY <1>1, <2>1, SimulationFacts, AppendFacts
  <2>3. \A i \in 1 .. Len(down) + 1 : i \in 1 .. Len(down) \/ i = Len(down) + 1
    BY <1>1
  <2>4. QED
    BY <2>1, <2>2, <2>3, SimulationFacts DEF FreshInv
<1>6. ASSUME rx_event PROVE FreshInv'
  <2>1. up # <<>> /\ ctl_pkt' \in {ctl_pkt, Head(up)} /\ up' = Tail(up)
        /\ UNCHANGED <<down, call, history>>
    BY <1>6 DEF rx_event
  <2>2. /\ Len(up) \in Nat \ {0} /\ Head(up) = up[1] /\ Len(up') = Len(up) - 1
        /\ \A i \in 1 .. Len(up) - 1 : up'[i] = up[i + 1]
    BY <1>1, <2>1, TailFacts
  <2>3. 1 \in 1 .. Len(up) /\ \A i \in 1 .. Len(up) - 1 : i + 1 \in 1 .. Len(up)
    BY <2>2
  <2>4. QED
    BY <2>1, <2>2, <2>3 DEF FreshInv
<1>7. ASSUME Lose PROVE FreshInv'
  <2>1. UNCHANGED <<ctl_pkt, call>> /\ history'.late = history.late
    BY <1>7 DEF Lose
  <2>2. CASE down # <<>> /\ down' = Tail(down) /\ UNCHANGED up
    <3>1. /\ Len(down) \in Nat \ {0} /\ Len(down') = Len(down) - 1
          /\ \A i \in 1 .. Len(down) - 1 : down'[i] = down[i + 1]
      BY <1>1, <2>2, TailFacts
    <3>2. \A i \in 1 .. Len(down) - 1 : i + 1 \in 1 .. Len(down)
      BY <3>1
    <3>3. QED
      BY <2>1, <2>2, <3>1, <3>2 DEF FreshInv
  <2>3. CASE up # <<>> /\ up' = Tail(up) /\ UNCHANGED down
    <3>1. /\ Len(up) \in Nat \ {0} /\ Len(up') = Len(up) - 1
          /\ \A i \in 1 .. Len(up) - 1 : up'[i] = up[i + 1]
      BY <1>1, <2>3, TailFacts
    <3>2. \A i \in 1 .. Len(up) - 1 : i + 1 \in 1 .. Len(up)
      BY <3>1
    <3>3. QED
      BY <2>1, <2>3, <3>1, <3>2 DEF FreshInv
  <2>4. QED
    BY <1>7, <2>2, <2>3 DEF Lose
<1>8. ASSUME BoxReads \/ BoxWrites \/ BoxSimulates PROVE FreshInv'
  <2>1. down # <<>> /\ down' = Tail(down) /\ UNCHANGED <<ctl_pkt, call, history>>
    BY <1>8 DEF BoxReads, BoxWrites, BoxSimulates
  <2>2. /\ Len(down) \in Nat \ {0} /\ Len(down') = Len(down) - 1
        /\ \A i \in 1 .. Len(down) - 1 : down'[i] = down[i + 1]
        /\ Head(down) = down[1]
    BY <1>1, <2>1, TailFacts
  <2>3. 1 \in 1 .. Len(down) /\ \A i \in 1 .. Len(down) - 1 : i + 1 \in 1 .. Len(down)
    BY <2>2
  <2>4. \/ up' = up
        \/ \E pkt \in Packets : /\ up' = Append(up, pkt)
                                /\ pkt.reg = down[1].reg /\ pkt.current = down[1].current
    BY <1>8, BoxSteps
  <2>5. CASE up' = up
    BY <2>1, <2>2, <2>3, <2>5 DEF FreshInv
  <2>6. ASSUME NEW pkt \in Packets, up' = Append(up, pkt),
               pkt.reg = down[1].reg, pkt.current = down[1].current
        PROVE  FreshInv'
    <3>1. /\ Len(up') = Len(up) + 1 /\ up'[Len(up) + 1] = pkt
          /\ \A i \in 1 .. Len(up) : up'[i] = up[i]
      BY <1>1, <2>6, AppendFacts
    <3>2. \A i \in 1 .. Len(up) + 1 : i \in 1 .. Len(up) \/ i = Len(up) + 1
      BY <1>1
    <3>3. QED
      BY <2>1, <2>2, <2>3, <2>6, <3>1, <3>2 DEF FreshInv
  <2>7. QED
    BY <2>4, <2>5, <2>6
<1>9. ASSUME Restart PROVE FreshInv'
  <2>1. down = <<>> /\ up = <<>> /\ down' = Aged(down) /\ up' = Aged(up) /\ call'.pc = "send"
    BY <1>9, CallFacts DEF Restart, Drained
  <2>2. Len(down') = 0 /\ Len(up') = 0
    BY <1>1, <2>1, AgedFacts
  <2>3. QED
    BY <2>1, <2>2 DEF FreshInv
<1>10. ASSUME UNCHANGED vars PROVE FreshInv'
  BY <1>10 DEF vars, FreshInv
<1>11. QED
  BY <1>2, <1>3, <1>4, <1>5, <1>6, <1>7, <1>8, <1>9, <1>10, NextCases

\* Every other step of the driver leaves the place where it waits.
LEMMA NoLongerWaits ==
  ASSUME TypeInv, CallInv,
         \/ \E fn \in Functions, s \in Slots, v \in Values : Begins(fn, s, v)
         \/ WriteFails \/ WakeGood \/ WakeUnanswered \/ PID_Update_NewData \/ Restart
  PROVE  call'.pc # "wait"
<1>1. CASE \E fn \in Functions, s \in Slots, v \in Values : Begins(fn, s, v)
  BY <1>1, BeginFacts
<1>2. CASE WriteFails \/ WakeUnanswered
  BY <1>2, CallFacts DEF WriteFails, WakeUnanswered, Fail, Return
<1>3. CASE WakeGood
  BY <1>3, CallFacts, LastFacts, NextFacts
<1>4. CASE PID_Update_NewData \/ Restart
  BY <1>4, CallFacts DEF PID_Update_NewData, Restart
<1>5. QED
  BY <1>1, <1>2, <1>3, <1>4

\* Every step keeps the record of the reads that were left.
LEMMA LeftNext ==
  ASSUME TypeInv, CallInv, LeftInv, [Next]_vars
  PROVE  LeftInv'
<1>1. down \in Seq(Packets) /\ up \in Seq(Packets)
  BY DEF TypeInv, FramesOK, AnswersOK
<1>2. ASSUME NEW fn \in Functions, NEW s \in Slots, NEW v \in Values, Begins(fn, s, v)
      PROVE  LeftInv'
  <2>1. call.pc = "idle" /\ call'.pc = "send"
    BY <1>2, BeginFacts, CallFacts DEF Begins
  <2>2. UNCHANGED <<down, up, left>>
    BY <1>2 DEF Begins
  <2>3. QED
    BY <2>1, <2>2 DEF LeftInv, KnownRead
<1>3. ASSUME Send PROVE LeftInv'
  <2>1. call.pc = "send" /\ call'.pc = "wait" /\ Step \in Steps /\ Step' = Step
        /\ Asked' = Asked
    BY <1>3, SendFacts, StepOfCall DEF Asked, Addressee
  <2>2. /\ down' = Append(Aged(down), Request(Step)) /\ up' = Aged(up) /\ ctl_pkt' = Cleared
        /\ left' = IF Drained THEN {} ELSE left
    BY <1>3 DEF Send
  <2>3. /\ Aged(down) \in Seq(Packets) /\ Len(Aged(down)) = Len(down)
        /\ \A i \in 1 .. Len(down) : /\ Aged(down)[i].reg = down[i].reg
                                     /\ Aged(down)[i].func = down[i].func
                                     /\ Aged(down)[i].card = down[i].card
        /\ Aged(up) \in Seq(Packets) /\ Len(Aged(up)) = Len(up)
        /\ \A i \in 1 .. Len(up) : /\ Aged(up)[i].reg = up[i].reg
                                   /\ Aged(up)[i].func = up[i].func
                                   /\ Aged(up)[i].card = up[i].card
    BY <1>1, AgedFacts
  <2>4. /\ Request(Step) \in Packets /\ Request(Step).current
        /\ Request(Step).func = Exchanges[Step].func
        /\ <<Request(Step).card, Request(Step).reg>> = Asked
    BY <2>1, RequestFacts, ExchangeFacts DEF TypeInv, Asked
  <2>5. /\ Len(down') = Len(down) + 1 /\ down'[Len(down) + 1] = Request(Step)
        /\ \A i \in 1 .. Len(down) : down'[i] = Aged(down)[i]
    BY <2>2, <2>3, <2>4, AppendFacts
  <2>6. \A i \in 1 .. Len(down) + 1 : i \in 1 .. Len(down) \/ i = Len(down) + 1
    BY <1>1
  <2>7. /\ \A i \in 1 .. Len(down) : KnownRead(down[i])
        /\ \A i \in 1 .. Len(up) : KnownRead(up[i])
    BY DEF LeftInv
  <2>8. Drained => Len(down) = 0 /\ Len(up) = 0
    BY <1>1 DEF Drained
  <2>9. \A i \in 1 .. Len(down) :
           Aged(down)[i].func = "READ" /\ Aged(down)[i].reg # "data" =>
             <<Aged(down)[i].card, Aged(down)[i].reg>> \in left'
    BY <2>1, <2>2, <2>3, <2>7, <2>8 DEF KnownRead
  <2>10. \A i \in 1 .. Len(up) :
           Aged(up)[i].func = "READ" /\ Aged(up)[i].reg # "data" =>
             <<Aged(up)[i].card, Aged(up)[i].reg>> \in left'
    BY <2>1, <2>2, <2>3, <2>7, <2>8 DEF KnownRead
  <2>11. \A i \in 1 .. Len(down') : KnownRead(down[i])'
    <3> SUFFICES ASSUME NEW i \in 1 .. Len(down') PROVE KnownRead(down[i])'
      OBVIOUS
    <3>1. CASE i \in 1 .. Len(down)
      BY <2>5, <2>9, <3>1 DEF KnownRead
    <3>2. CASE i = Len(down) + 1
      BY <2>1, <2>4, <2>5, <3>2 DEF KnownRead
    <3>3. QED
      BY <2>5, <2>6, <3>1, <3>2
  <2>12. \A i \in 1 .. Len(up') : KnownRead(up[i])'
    BY <2>2, <2>3, <2>10 DEF KnownRead
  <2>13. ~ctl_pkt'.full /\ left' \subseteq left
    BY <2>2, ClearedFacts
  <2>14. QED
    BY <2>11, <2>12, <2>13 DEF LeftInv
<1>4. ASSUME WriteFails PROVE LeftInv'
  <2>1. call.pc = "send" /\ call'.pc # "wait"
    BY <1>4, CallFacts DEF WriteFails, Fail, Return
  <2>2. UNCHANGED <<down, up, left>>
    BY <1>4 DEF WriteFails
  <2>3. QED
    BY <2>1, <2>2 DEF LeftInv, KnownRead
<1>5. ASSUME WakeUnanswered \/ WakeGood PROVE LeftInv'
  <2>1. call'.pc # "wait" /\ call.pc = "wait"
    BY <1>5, NoLongerWaits DEF WakeUnanswered, WakeGood, SleepIsOver
  <2>2. UNCHANGED <<down, up>>
    BY <1>5 DEF WakeUnanswered, WakeGood
  <2>3. left' = IF Drained \/ Exchanges[Step].func = "WRITE" THEN left ELSE left \cup {Asked}
    BY <1>5 DEF WakeUnanswered, WakeGood, LeaveRead, Asked
  <2>4. Step \in Steps /\ Exchanges[Step].reg \in {Exchanges[step].reg : step \in DOMAIN Exchanges}
        /\ Exchanges[Step].func \in {"READ", "WRITE"}
    BY <2>1, StepOfCall, ExchangeFacts
  <2>5. Asked \in (Slots \cup {SEL_MASTER}) \X {Exchanges[step].reg : step \in DOMAIN Exchanges}
    BY <2>4 DEF Asked, Addressee, TypeInv, CallRecords
  <2>6. Drained => Len(down) = 0 /\ Len(up) = 0
    BY <1>1 DEF Drained
  <2>7. ASSUME NEW pkt, KnownRead(pkt), ~Drained
        PROVE  pkt.func = "READ" /\ pkt.reg # "data" => <<pkt.card, pkt.reg>> \in left'
    BY <2>3, <2>4, <2>7 DEF KnownRead
  <2>8. /\ \A i \in 1 .. Len(down') : KnownRead(down[i])'
        /\ \A i \in 1 .. Len(up') : KnownRead(up[i])'
    BY <2>2, <2>6, <2>7 DEF LeftInv, KnownRead
  <2>9. left' \subseteq (Slots \cup {SEL_MASTER}) \X {Exchanges[step].reg : step \in DOMAIN Exchanges}
    BY <2>3, <2>5 DEF LeftInv
  <2>10. QED
    BY <2>1, <2>8, <2>9 DEF LeftInv
<1>6. ASSUME PID_Update_NewData PROVE LeftInv'
  <2>1. down' = Append(down, Simulation) /\ call.pc = "idle"
        /\ UNCHANGED <<up, ctl_pkt, call, left>>
    BY <1>6, CallFacts DEF PID_Update_NewData
  <2>2. /\ Len(down') = Len(down) + 1 /\ down'[Len(down) + 1] = Simulation
        /\ \A i \in 1 .. Len(down) : down'[i] = down[i]
    BY <1>1, <2>1, SimulationFacts, AppendFacts
  <2>3. \A i \in 1 .. Len(down) + 1 : i \in 1 .. Len(down) \/ i = Len(down) + 1
    BY <1>1
  <2>4. QED
    BY <2>1, <2>2, <2>3, SimulationFacts DEF LeftInv, KnownRead
<1>7. ASSUME rx_event PROVE LeftInv'
  <2>1. up # <<>> /\ ctl_pkt' \in {ctl_pkt, Head(up)} /\ up' = Tail(up)
        /\ UNCHANGED <<down, call, left>> /\ Step' = Step /\ Asked' = Asked
    BY <1>7 DEF rx_event, Step, Asked, Addressee
  <2>2. /\ Len(up) \in Nat \ {0} /\ Head(up) = up[1] /\ Len(up') = Len(up) - 1
        /\ \A i \in 1 .. Len(up) - 1 : up'[i] = up[i + 1]
    BY <1>1, <2>1, TailFacts
  <2>3. 1 \in 1 .. Len(up) /\ \A i \in 1 .. Len(up) - 1 : i + 1 \in 1 .. Len(up)
    BY <2>2
  <2>4. /\ \A i \in 1 .. Len(down') : KnownRead(down[i])'
        /\ \A i \in 1 .. Len(up') : KnownRead(up[i])'
    BY <2>1, <2>2, <2>3 DEF LeftInv, KnownRead
  <2>5. call'.pc = "wait" /\ ctl_pkt'.full => KnownRead(ctl_pkt)'
    <3>1. KnownRead(up[1])
      BY <2>3 DEF LeftInv
    <3>2. CASE ctl_pkt' = ctl_pkt
      BY <2>1, <3>2 DEF LeftInv, KnownRead
    <3>3. CASE ctl_pkt' = up[1]
      BY <2>1, <3>1, <3>3 DEF KnownRead
    <3>4. QED
      BY <2>1, <2>2, <3>2, <3>3
  <2>6. QED
    BY <2>1, <2>4, <2>5 DEF LeftInv
<1>8. ASSUME Lose PROVE LeftInv'
  <2>1. UNCHANGED <<ctl_pkt, call, left>> /\ Step' = Step /\ Asked' = Asked
    BY <1>8 DEF Lose, Step, Asked, Addressee
  <2>2. CASE down # <<>> /\ down' = Tail(down) /\ UNCHANGED up
    <3>1. /\ Len(down) \in Nat \ {0} /\ Len(down') = Len(down) - 1
          /\ \A i \in 1 .. Len(down) - 1 : down'[i] = down[i + 1]
      BY <1>1, <2>2, TailFacts
    <3>2. \A i \in 1 .. Len(down) - 1 : i + 1 \in 1 .. Len(down)
      BY <3>1
    <3>3. QED
      BY <2>1, <2>2, <3>1, <3>2 DEF LeftInv, KnownRead
  <2>3. CASE up # <<>> /\ up' = Tail(up) /\ UNCHANGED down
    <3>1. /\ Len(up) \in Nat \ {0} /\ Len(up') = Len(up) - 1
          /\ \A i \in 1 .. Len(up) - 1 : up'[i] = up[i + 1]
      BY <1>1, <2>3, TailFacts
    <3>2. \A i \in 1 .. Len(up) - 1 : i + 1 \in 1 .. Len(up)
      BY <3>1
    <3>3. QED
      BY <2>1, <2>3, <3>1, <3>2 DEF LeftInv, KnownRead
  <2>4. QED
    BY <1>8, <2>2, <2>3 DEF Lose
<1>9. ASSUME BoxReads \/ BoxWrites \/ BoxSimulates PROVE LeftInv'
  <2>1. down # <<>> /\ down' = Tail(down) /\ UNCHANGED <<ctl_pkt, call, left>>
        /\ Step' = Step /\ Asked' = Asked
    BY <1>9 DEF BoxReads, BoxWrites, BoxSimulates, Step, Asked, Addressee
  <2>2. /\ Len(down) \in Nat \ {0} /\ Len(down') = Len(down) - 1
        /\ \A i \in 1 .. Len(down) - 1 : down'[i] = down[i + 1]
    BY <1>1, <2>1, TailFacts
  <2>3. 1 \in 1 .. Len(down) /\ \A i \in 1 .. Len(down) - 1 : i + 1 \in 1 .. Len(down)
    BY <2>2
  <2>4. \/ up' = up
        \/ \E pkt \in Packets : /\ up' = Append(up, pkt)
                                /\ pkt.card = down[1].card /\ pkt.func = down[1].func
                                /\ pkt.reg = down[1].reg /\ pkt.current = down[1].current
    BY <1>9, BoxSteps
  <2>5. CASE up' = up
    BY <2>1, <2>2, <2>3, <2>5 DEF LeftInv, KnownRead
  <2>6. ASSUME NEW pkt \in Packets, up' = Append(up, pkt),
               pkt.card = down[1].card, pkt.func = down[1].func,
               pkt.reg = down[1].reg, pkt.current = down[1].current
        PROVE  LeftInv'
    <3>1. /\ Len(up') = Len(up) + 1 /\ up'[Len(up) + 1] = pkt
          /\ \A i \in 1 .. Len(up) : up'[i] = up[i]
      BY <1>1, <2>6, AppendFacts
    <3>2. \A i \in 1 .. Len(up) + 1 : i \in 1 .. Len(up) \/ i = Len(up) + 1
      BY <1>1
    <3>3. KnownRead(down[1]) /\ KnownRead(pkt)
      BY <2>3, <2>6 DEF LeftInv, KnownRead
    <3>4. /\ \A i \in 1 .. Len(down') : KnownRead(down[i])'
          /\ call'.pc = "wait" /\ ctl_pkt'.full => KnownRead(ctl_pkt)'
      BY <2>1, <2>2, <2>3 DEF LeftInv, KnownRead
    <3>5. \A i \in 1 .. Len(up') : KnownRead(up[i])'
      <4> SUFFICES ASSUME NEW i \in 1 .. Len(up') PROVE KnownRead(up[i])'
        OBVIOUS
      <4>1. CASE i \in 1 .. Len(up)
        BY <2>1, <3>1, <4>1 DEF LeftInv, KnownRead
      <4>2. CASE i = Len(up) + 1
        BY <2>1, <3>1, <3>3, <4>2 DEF KnownRead
      <4>3. QED
        BY <3>1, <3>2, <4>1, <4>2
    <3>6. QED
      BY <2>1, <3>4, <3>5 DEF LeftInv
  <2>7. QED
    BY <2>4, <2>5, <2>6
<1>10. ASSUME Restart PROVE LeftInv'
  <2>1. /\ down = <<>> /\ up = <<>> /\ down' = Aged(down) /\ up' = Aged(up)
        /\ call'.pc = "send" /\ left' = left
    BY <1>10, CallFacts DEF Restart, Drained
  <2>2. Len(down') = 0 /\ Len(up') = 0
    BY <1>1, <2>1, AgedFacts
  <2>3. QED
    BY <2>1, <2>2 DEF LeftInv
<1>11. ASSUME UNCHANGED vars PROVE LeftInv'
  <2>1. UNCHANGED <<down, up, ctl_pkt, call, left>> /\ Step' = Step /\ Asked' = Asked
    BY <1>11 DEF vars, Step, Asked, Addressee
  <2>2. QED
    BY <2>1 DEF LeftInv, KnownRead
<1>12. QED
  BY <1>2, <1>3, <1>4, <1>5, <1>6, <1>7, <1>8, <1>9, <1>10, <1>11, NextCases

LEMMA NewestNext ==
  ASSUME TypeInv, CallInv, NewestInv, [Next]_vars
  PROVE  NewestInv'
<1>1. down \in Seq(Packets) /\ up \in Seq(Packets)
  BY DEF TypeInv, FramesOK, AnswersOK
<1>2. ASSUME \/ \E fn \in Functions, s \in Slots, v \in Values : Begins(fn, s, v)
             \/ WriteFails \/ WakeGood \/ WakeUnanswered \/ PID_Update_NewData \/ Restart
      PROVE  NewestInv'
  BY <1>2, NoLongerWaits DEF NewestInv
<1>3. ASSUME Send PROVE NewestInv'
  <2>1. /\ Step \in Steps /\ Step' = Step /\ call'.slot = call.slot
    BY <1>3, SendFacts, StepOfCall
  <2>2. /\ Request(Step) \in Packets /\ Request(Step).card = Addressee(Step)
        /\ Request(Step).func = Exchanges[Step].func
        /\ Request(Step).reg = Exchanges[Step].reg /\ Request(Step).full
    BY <2>1, RequestFacts, ExchangeFacts DEF TypeInv
  <2>3. /\ down' # <<>> /\ down'[Len(down')] = Request(Step)
    <3>1. down' = Append(Aged(down), Request(Step)) /\ Aged(down) \in Seq(Packets)
      BY <1>1, <1>3, AgedFacts DEF Send
    <3>2. /\ Len(down') = Len(Aged(down)) + 1 /\ down' # <<>>
          /\ down'[Len(Aged(down)) + 1] = Request(Step)
      BY <2>2, <3>1, AppendFacts
    <3>3. QED
      BY <3>2
  <2>4. Exchanges[Step].func = "READ" => Answers(down[Len(down)], Step)'
    BY <2>1, <2>2, <2>3 DEF Answers, Addressee
  <2>5. QED
    BY <2>1, <2>3, <2>4 DEF NewestInv
<1>4. ASSUME rx_event PROVE NewestInv'
  <2>1. up # <<>> /\ up' = Tail(up) /\ UNCHANGED <<down, call, history>>
        /\ (status = 0 => ctl_pkt' = up[1])
    BY <1>1, <1>4, TailFacts DEF rx_event
  <2>2. /\ Len(up) \in Nat \ {0} /\ Len(up') = Len(up) - 1 /\ up' \in Seq(Packets)
        /\ \A i \in 1 .. Len(up) - 1 : up'[i] = up[i + 1]
    BY <1>1, <2>1, TailFacts
  <2>3. SUFFICES ASSUME history.lost = 0, call.pc = "wait", Exchanges[Step].func = "READ"
                 PROVE  NewestInv'
    BY <2>1 DEF NewestInv, Step
  <2>4. \/ down # <<>> /\ Answers(down[Len(down)], Step)
        \/ down = <<>> /\ Answers(up[Len(up)], Step)
    BY <2>1, <2>3 DEF NewestInv, Drained
  <2>5. CASE down # <<>> /\ Answers(down[Len(down)], Step)
    BY <2>1, <2>5 DEF NewestInv, Answers, Addressee, Step
  <2>6. CASE down = <<>> /\ Answers(up[Len(up)], Step) /\ Len(up) = 1
    <3>1. status = 0
      <4>1. Step \in Steps /\ Step \notin Writes /\ Step \in StepsOf(call.fn, call.bak)
        BY <2>3, StepOfCall, ExchangeFacts
      <4>2. call.fn # STOP
        BY <4>1 DEF StepsOf, Writes, STOP, START, ReadPara, WritePara
      <4>3. QED
        BY <2>3, <4>2 DEF CallInv
    <3>2. up' = <<>> /\ ctl_pkt' = up[1]
      BY <2>1, <2>2, <2>6, <3>1, EmptyFacts
    <3>3. QED
      BY <2>1, <2>6, <3>2 DEF NewestInv, Drained, Answers, Addressee, Step
  <2>7. CASE down = <<>> /\ Answers(up[Len(up)], Step) /\ Len(up) # 1
    <3>1. up' # <<>> /\ up'[Len(up')] = up[Len(up)]
      <4>1. Len(up) - 1 \in 1 .. Len(up) - 1 /\ Len(up) - 1 # 0 /\ (Len(up) - 1) + 1 = Len(up)
        BY <2>2, <2>7
      <4>2. QED
        BY <2>2, <4>1, EmptyFacts
    <3>2. QED
      BY <2>1, <2>7, <3>1 DEF NewestInv, Answers, Addressee, Step
  <2>8. QED
    BY <2>4, <2>5, <2>6, <2>7
<1>5. ASSUME Lose PROVE NewestInv'
  <2>1. history'.lost = history.lost + 1 /\ history.lost \in Nat
    BY <1>5, CountFacts DEF Lose
  <2>2. QED
    BY <2>1 DEF NewestInv
<1>6. ASSUME BoxReads \/ BoxWrites \/ BoxSimulates PROVE NewestInv'
  <2>1. /\ down # <<>> /\ down' = Tail(down) /\ UNCHANGED <<ctl_pkt, call, history>>
        /\ \/ up' = up /\ (down[1].func = "WRITE" \/ down[1].reg = "data")
           \/ \E pkt \in Packets :
                /\ up' = Append(up, pkt)
                /\ pkt.card = down[1].card /\ pkt.func = down[1].func
                /\ pkt.reg = down[1].reg /\ pkt.full = down[1].full
    BY <1>6, BoxSteps
  <2>2. /\ Len(down) \in Nat \ {0} /\ Len(down') = Len(down) - 1 /\ down' \in Seq(Packets)
        /\ \A i \in 1 .. Len(down) - 1 : down'[i] = down[i + 1]
    BY <1>1, <2>1, TailFacts
  <2>3. SUFFICES ASSUME history.lost = 0, call.pc = "wait", Exchanges[Step].func = "READ"
                 PROVE  NewestInv'
    BY <2>1 DEF NewestInv, Step
  <2>4. Answers(down[Len(down)], Step)
    BY <2>1, <2>3 DEF NewestInv, Drained
  <2>5. CASE Len(down) = 1
    <3>1. down' = <<>> /\ Answers(down[1], Step)
      BY <2>2, <2>4, <2>5, EmptyFacts
    <3>2. down[1].func = "READ" /\ down[1].reg # "data"
      <4>1. Step \in Steps /\ RegOf(Step) # "data" /\ Exchanges[Step].reg = RegOf(Step)
        BY <2>3, StepOfCall, ExchangeFacts DEF RegOf
      <4>2. QED
        BY <3>1, <4>1 DEF Answers
    <3>3. PICK pkt \in Packets : /\ up' = Append(up, pkt)
                                 /\ pkt.card = down[1].card /\ pkt.func = down[1].func
                                 /\ pkt.reg = down[1].reg /\ pkt.full = down[1].full
      BY <2>1, <3>2
    <3>4. up' # <<>> /\ up'[Len(up')] = pkt
      BY <1>1, <3>3, AppendFacts
    <3>5. QED
      BY <2>1, <3>1, <3>3, <3>4 DEF NewestInv, Answers, Addressee, Step
  <2>6. CASE Len(down) # 1
    <3>1. down' # <<>> /\ down'[Len(down')] = down[Len(down)]
      <4>1. Len(down) - 1 \in 1 .. Len(down) - 1 /\ Len(down) - 1 # 0
            /\ (Len(down) - 1) + 1 = Len(down)
        BY <2>2, <2>6
      <4>2. QED
        BY <2>2, <4>1, EmptyFacts
    <3>2. QED
      BY <2>1, <2>4, <3>1 DEF NewestInv, Answers, Addressee, Step
  <2>7. QED
    BY <2>5, <2>6
<1>7. ASSUME UNCHANGED vars PROVE NewestInv'
  BY <1>7 DEF vars, NewestInv, Drained, Answers, Addressee, Step
<1>8. QED
  BY <1>2, <1>3, <1>4, <1>5, <1>6, <1>7, NextCases

LEMMA CurrentNext ==
  ASSUME TypeInv, CallInv, CurrentInv, [Next]_vars
  PROVE  CurrentInv'
<1>1. down \in Seq(Packets)
  BY DEF TypeInv, FramesOK
<1>2. ASSUME \/ \E fn \in Functions, s \in Slots, v \in Values : Begins(fn, s, v)
             \/ WriteFails \/ WakeGood \/ WakeUnanswered \/ PID_Update_NewData \/ Restart
      PROVE  CurrentInv'
  BY <1>2, NoLongerWaits DEF CurrentInv
<1>3. ASSUME Send PROVE CurrentInv'
  <2>1. Step \in Steps
    BY <1>3, SendFacts, StepOfCall
  <2>2. /\ Aged(down) \in Seq(Packets) /\ Len(Aged(down)) = Len(down)
        /\ \A i \in 1 .. Len(down) : ~Aged(down)[i].current
        /\ Request(Step) \in Packets
    BY <1>1, <2>1, AgedFacts, RequestFacts DEF TypeInv
  <2>3. /\ Len(down') = Len(down) + 1 /\ Len(down) \in Nat
        /\ \A i \in 1 .. Len(down) : ~down'[i].current
    BY <1>1, <1>3, <2>2, AppendFacts DEF Send
  <2>4. \A i \in 1 .. Len(down') : i \in 1 .. Len(down) \/ i = Len(down')
    BY <2>3
  <2>5. QED
    BY <2>3, <2>4 DEF CurrentInv
<1>4. ASSUME UNCHANGED <<down, call>> PROVE CurrentInv'
  BY <1>4 DEF CurrentInv
<1>5. ASSUME down # <<>>, down' = Tail(down), UNCHANGED call PROVE CurrentInv'
  <2>1. /\ Len(down) \in Nat \ {0} /\ Len(down') = Len(down) - 1
        /\ \A i \in 1 .. Len(down) - 1 : down'[i] = down[i + 1]
    BY <1>1, <1>5, TailFacts
  <2>2. \A i \in 1 .. Len(down) - 1 : i + 1 \in 1 .. Len(down)
    BY <2>1
  <2>3. ASSUME call.pc = "wait", NEW i \in 1 .. Len(down'), down'[i].current
        PROVE  i = Len(down')
    <3>1. i + 1 \in 1 .. Len(down) /\ down[i + 1].current
      BY <2>1, <2>2, <2>3
    <3>2. i + 1 = Len(down)
      BY <2>3, <3>1 DEF CurrentInv
    <3>3. QED
      BY <2>1, <2>3, <3>2
  <2>4. QED
    BY <1>5, <2>3 DEF CurrentInv
<1>6. ASSUME BoxReads \/ BoxWrites \/ BoxSimulates PROVE CurrentInv'
  BY <1>5, <1>6, BoxSteps
<1>7. ASSUME Lose PROVE CurrentInv'
  BY <1>4, <1>5, <1>7 DEF Lose
<1>8. ASSUME rx_event \/ UNCHANGED vars PROVE CurrentInv'
  BY <1>4, <1>8 DEF rx_event, vars
<1>9. QED
  BY <1>2, <1>3, <1>6, <1>7, <1>8, NextCases

(***************************************************************************)
(* What the box will be.                                                   *)
(***************************************************************************)
LEMMA PartFacts ==
  \A what \in {"running", "mode", "declared", "para"}, s \in Slots :
    /\ Part(what, s) \in Parts /\ Part(what, s).what = what /\ Part(what, s).slot = s
BY DEF Part, Parts

\* When nothing is on its way, the box is what it will be.
LEMMA WillNow ==
  ASSUME NEW b, NEW c, NEW v, WillBe(<<>>, b, c, v)
  PROVE  Present(b, c) = v
BY DEF WillBe

LEMMA WillFacts ==
  ASSUME NEW q \in Seq(Packets), NEW b, NEW c, NEW v, NEW p \in Seq(Packets), NEW pkt \in Packets,
         Len(p) = Len(q),
         \A i \in 1 .. Len(q) : p[i].card = q[i].card /\ p[i].func = q[i].func
                                /\ p[i].reg = q[i].reg /\ p[i].data = q[i].data
  PROVE  /\ WillBe(q, b, c, v) /\ ~Sets(pkt, c) => WillBe(Append(p, pkt), b, c, v)
         /\ Sets(pkt, c) => WillBe(Append(p, pkt), b, c, Setting(pkt, c))
<1>1. /\ Len(Append(p, pkt)) = Len(q) + 1 /\ Len(q) \in Nat
      /\ \A i \in 1 .. Len(q) : Append(p, pkt)[i] = p[i]
      /\ Append(p, pkt)[Len(q) + 1] = pkt
  BY AppendFacts
<1>2. \A i \in 1 .. Len(q) : /\ Sets(p[i], c) <=> Sets(q[i], c)
                             /\ Setting(p[i], c) = Setting(q[i], c)
  BY DEF Sets, Setting
<1>3. \A i \in 1 .. Len(q) + 1 : i \in 1 .. Len(q) \/ i = Len(q) + 1
  BY <1>1
<1>4. PICK r : r = Append(p, pkt)
  OBVIOUS
<1>5. /\ Len(r) = Len(q) + 1 /\ Len(q) \in Nat
      /\ r[Len(q) + 1] = pkt
      /\ \A i \in 1 .. Len(q) : /\ Sets(r[i], c) <=> Sets(q[i], c)
                                /\ Setting(r[i], c) = Setting(q[i], c)
  BY <1>1, <1>2, <1>4
<1>6. ASSUME WillBe(q, b, c, v), ~Sets(pkt, c)
      PROVE  WillBe(r, b, c, v)
  <2>1. CASE \A i \in 1 .. Len(q) : ~Sets(q[i], c)
    BY <1>3, <1>5, <1>6, <2>1 DEF WillBe
  <2>2. CASE \E i \in 1 .. Len(q) : Sets(q[i], c)
    <3>1. PICK i \in 1 .. Len(q) :
            /\ Sets(q[i], c) /\ Setting(q[i], c) = v
            /\ \A j \in 1 .. Len(q) : j > i => ~Sets(q[j], c)
      BY <1>6, <2>2 DEF WillBe
    <3>2. i \in 1 .. Len(r) /\ Sets(r[i], c) /\ Setting(r[i], c) = v
      BY <1>5, <3>1
    <3>3. \A j \in 1 .. Len(r) : j > i => ~Sets(r[j], c)
      BY <1>3, <1>5, <1>6, <3>1
    <3>4. QED
      BY <3>2, <3>3 DEF WillBe
  <2>3. QED
    BY <2>1, <2>2
<1>7. ASSUME Sets(pkt, c)
      PROVE  WillBe(r, b, c, Setting(pkt, c))
  <2>1. Len(r) \in 1 .. Len(r) /\ Sets(r[Len(r)], c) /\ Setting(r[Len(r)], c) = Setting(pkt, c)
    BY <1>5, <1>7
  <2>2. \A j \in 1 .. Len(r) : j > Len(r) => ~Sets(r[j], c)
    BY <1>5
  <2>3. QED
    BY <2>1, <2>2 DEF WillBe
<1>8. QED
  BY <1>4, <1>6, <1>7

\* The box takes a frame: what it will be does not change.
LEMMA WillTail ==
  ASSUME NEW q \in Seq(Packets), q # <<>>, NEW b, NEW d, NEW c, NEW v, WillBe(q, b, c, v),
         Present(d, c) = IF Sets(q[1], c) THEN Setting(q[1], c) ELSE Present(b, c)
  PROVE  WillBe(Tail(q), d, c, v)
<1>1. PICK r : r = Tail(q)
  OBVIOUS
<1>2. /\ Len(q) \in Nat \ {0} /\ Len(r) = Len(q) - 1
      /\ \A i \in 1 .. Len(q) - 1 : r[i] = q[i + 1]
  BY <1>1, TailFacts
<1>3. /\ \A i \in 1 .. Len(q) : i = 1 \/ i - 1 \in 1 .. Len(r)
      /\ \A i \in 1 .. Len(r) : i + 1 \in 1 .. Len(q) /\ i + 1 # 1
      /\ 1 \in 1 .. Len(q)
  BY <1>2
<1>4. CASE \A i \in 1 .. Len(r) : ~Sets(r[i], c)
  <2>1. \A j \in 1 .. Len(q) : j # 1 => ~Sets(q[j], c)
    <3>1. TAKE j \in 1 .. Len(q)
    <3>2. HAVE j # 1
    <3>3. j - 1 \in 1 .. Len(r) /\ (j - 1) + 1 = j
      BY <1>2, <1>3, <3>2
    <3>4. r[j - 1] = q[j]
      BY <1>2, <3>3
    <3>5. QED
      BY <1>4, <3>3, <3>4
  <2>2. Present(d, c) = v
    BY <2>1, <1>3 DEF WillBe
  <2>3. QED
    BY <1>1, <1>4, <2>2 DEF WillBe
<1>5. CASE \E i \in 1 .. Len(r) : Sets(r[i], c)
  <2>1. PICK k \in 1 .. Len(r) : Sets(r[k], c)
    BY <1>5
  <2>2. k + 1 \in 1 .. Len(q) /\ k + 1 > 1 /\ Sets(q[k + 1], c)
    BY <1>2, <1>3, <2>1
  <2>3. PICK i \in 1 .. Len(q) :
          /\ Sets(q[i], c) /\ Setting(q[i], c) = v
          /\ \A j \in 1 .. Len(q) : j > i => ~Sets(q[j], c)
    BY <2>2 DEF WillBe
  <2>4. i # 1 /\ i - 1 \in 1 .. Len(r) /\ (i - 1) + 1 = i
    BY <1>2, <1>3, <2>2, <2>3
  <2>5. r[i - 1] = q[i]
    BY <1>2, <2>4
  <2>6. \A j \in 1 .. Len(r) : j > i - 1 => ~Sets(r[j], c)
    <3>1. TAKE j \in 1 .. Len(r)
    <3>2. HAVE j > i - 1
    <3>3. j + 1 \in 1 .. Len(q) /\ j + 1 > i /\ r[j] = q[j + 1]
      BY <1>2, <1>3, <3>2
    <3>4. QED
      BY <2>3, <3>3
  <2>7. QED
    BY <1>1, <2>3, <2>4, <2>5, <2>6 DEF WillBe
<1>6. QED
  BY <1>4, <1>5

LEMMA PresentAfter ==
  ASSUME box \in Boxes, NEW pkt \in Packets, FrameOK(pkt), NEW c \in Parts
  PROVE  Present(IF pkt.func = "WRITE" THEN BoxWritten(pkt) ELSE box, c) =
           IF Sets(pkt, c) THEN Setting(pkt, c) ELSE Present(box, c)
<1>1. CASE pkt.func # "WRITE"
  BY <1>1 DEF Sets
<1>2. CASE pkt.func = "WRITE"
  <2>1. c.what \in {"running", "mode", "declared", "para"} /\ c.slot \in Slots
    BY DEF Parts
  <2>2. PICK b : b = BoxWritten(pkt)
    OBVIOUS
  <2>3. /\ b.running = IF pkt.reg = "mode" /\ pkt.card = SEL_MASTER
                       THEN pkt.data[1] = 1 ELSE box.running
        /\ b.mode[c.slot] =
             IF pkt.reg = "mode" /\ pkt.card = SEL_MASTER /\ Len(pkt.data) # 1
             THEN pkt.data[c.slot + 2]
             ELSE IF pkt.reg = "mode" /\ pkt.card = c.slot THEN pkt.data[1]
             ELSE box.mode[c.slot]
        /\ b.declared[c.slot] =
             IF pkt.reg = "types" THEN pkt.data[c.slot + 1] ELSE box.declared[c.slot]
        /\ b.para[c.slot] =
             IF pkt.reg = "para" /\ pkt.card = c.slot THEN pkt.data[1] ELSE box.para[c.slot]
    BY <1>2, <2>1, <2>2, BoxFacts
  <2>4. Present(b, c) = IF Sets(pkt, c) THEN Setting(pkt, c) ELSE Present(box, c)
    <3>1. CASE c.what = "running"
      BY <1>2, <2>3, <3>1 DEF Present, Sets, Setting, Flag
    <3>2. CASE c.what = "mode"
      BY <1>2, <2>1, <2>3, <3>2, ConstantFacts DEF Present, Sets, Setting
    <3>3. CASE c.what = "declared"
      BY <1>2, <2>3, <3>3 DEF Present, Sets, Setting
    <3>4. CASE c.what = "para"
      BY <1>2, <2>3, <3>4 DEF Present, Sets, Setting
    <3>5. QED
      BY <2>1, <3>1, <3>2, <3>3, <3>4
  <2>5. QED
    BY <1>2, <2>2, <2>4
<1>3. QED
  BY <1>1, <1>2

\* Which parts the frame of an exchange sets, and to what.
LEMMA RequestSets ==
  ASSUME TypeInv, NEW step \in Steps, NEW c \in Parts
  PROVE  /\ Sets(Request(step), c) <=>
              \/ c.what = "running" /\ step \in {"stop", "start", "stopAll"}
              \/ c.what = "mode" /\ step \in {"start", "stopAll"}
              \/ c.what = "mode" /\ step = "writeMode" /\ c.slot = call.slot
              \/ c.what = "declared" /\ step = "types"
              \/ c.what = "para" /\ step = "writePara" /\ c.slot = call.slot
         /\ c.what = "running" /\ step \in {"stop", "start", "stopAll"} =>
              Setting(Request(step), c) = IF step = "start" THEN 1 ELSE 0
         /\ c.what = "mode" /\ step \in {"start", "stopAll"} =>
              Setting(Request(step), c) = card_mode[c.slot]
         /\ c.what = "declared" /\ step = "types" =>
              Setting(Request(step), c) = TypeWord(c.slot)
         /\ c.what = "para" /\ step = "writePara" => Setting(Request(step), c) = call.val
<1>1. PICK pkt \in Packets : pkt = Request(step)
  BY RequestFacts DEF TypeInv
<1>2. /\ pkt.card = IF step \in ToMaster THEN SEL_MASTER ELSE call.slot
      /\ pkt.func = IF step \in Writes THEN "WRITE" ELSE "READ"
      /\ pkt.reg = RegOf(step) /\ pkt.data = Words(step)
  BY <1>1, RequestFacts DEF TypeInv
<1>3. /\ call.slot \in Slots /\ c.slot \in Slots
      /\ c.what \in {"running", "mode", "declared", "para"}
      /\ SEL_MASTER \notin Slots /\ MAX_SLOTS \in Nat \ {0}
  BY ConstantFacts DEF TypeInv, CallRecords, Parts
<1>4. /\ step = "types" => \A s \in Slots : Words(step)[s + 1] = TypeWord(s)
      /\ step \in {"start", "stopAll"} =>
           /\ Len(Words(step)) = MAX_SLOTS + 1
           /\ Words(step)[1] = IF step = "start" THEN 1 ELSE 0
           /\ \A s \in Slots : Words(step)[s + 2] = card_mode[s]
      /\ step = "writePara" => Words(step) = <<call.val>>
      /\ step = "stop" => Words(step) = <<0>>
  BY WordsFacts DEF TypeInv
<1>5. CASE step \notin Writes
  BY <1>1, <1>2, <1>5 DEF Sets, Writes
<1>6. CASE step = "types"
  <2>1. pkt.func = "WRITE" /\ pkt.reg = "types"
    BY <1>2, <1>6 DEF Writes, RegOf
  <2>2. QED
    BY <1>1, <1>2, <1>3, <1>4, <1>6, <2>1 DEF Sets, Setting
<1>7. CASE step \in {"start", "stopAll"}
  <2>1. pkt.func = "WRITE" /\ pkt.reg = "mode" /\ pkt.card = SEL_MASTER
    BY <1>2, <1>7 DEF Writes, RegOf, ToMaster
  <2>2. Len(pkt.data) # 1 /\ pkt.data[1] = IF step = "start" THEN 1 ELSE 0
    <3>1. MAX_SLOTS + 1 # 1
      BY <1>3
    <3>2. /\ Len(Words(step)) = MAX_SLOTS + 1
          /\ Words(step)[1] = IF step = "start" THEN 1 ELSE 0
      BY <1>4, <1>7
    <3>3. QED
      BY <1>2, <3>1, <3>2
  <2>3. \A s \in Slots : pkt.data[s + 2] = card_mode[s]
    BY <1>2, <1>4, <1>7
  <2>4. QED
    BY <1>1, <1>3, <1>7, <2>1, <2>2, <2>3 DEF Sets, Setting, Flag
<1>8. CASE step = "stop"
  <2>1. pkt.func = "WRITE" /\ pkt.reg = "mode" /\ pkt.card = SEL_MASTER
    BY <1>2, <1>8 DEF Writes, RegOf, ToMaster
  <2>2. Len(pkt.data) = 1 /\ pkt.data[1] = 0
    BY <1>2, <1>4, <1>8
  <2>3. QED
    BY <1>1, <1>3, <1>8, <2>1, <2>2 DEF Sets, Setting, Flag
<1>9. CASE step \in {"writeMode", "writePara"}
  <2>1. /\ pkt.func = "WRITE" /\ pkt.card = call.slot
        /\ pkt.reg = IF step = "writeMode" THEN "mode" ELSE "para"
    BY <1>2, <1>9 DEF Writes, RegOf, ToMaster
  <2>2. step = "writePara" => pkt.data[1] = call.val
    BY <1>2, <1>4
  <2>3. QED
    BY <1>1, <1>3, <1>9, <2>1, <2>2 DEF Sets, Setting
<1>10. CASE step = "writeSync"
  <2>1. pkt.func = "WRITE" /\ pkt.reg = "sync"
    BY <1>2, <1>10 DEF Writes, RegOf
  <2>2. QED
    BY <1>1, <1>3, <1>10, <2>1 DEF Sets
<1>11. QED
  BY <1>5, <1>6, <1>7, <1>8, <1>9, <1>10 DEF Writes

LEMMA WillSend ==
  ASSUME TypeInv, CallInv, Send, NEW c \in Parts, NEW v
  PROVE  /\ WillBe(down, box, c, v) /\ ~Sets(Request(Step), c) => WillBe(down', box', c, v)
         /\ Sets(Request(Step), c) => WillBe(down', box', c, Setting(Request(Step), c))
<1>1. Step \in Steps /\ down \in Seq(Packets)
  BY SendFacts, StepOfCall DEF TypeInv, FramesOK
<1>2. down' = Append(Aged(down), Request(Step)) /\ box' = box
  BY DEF Send
<1>3. PICK pkt \in Packets : pkt = Request(Step)
  BY <1>1, RequestFacts DEF TypeInv
<1>4. PICK p \in Seq(Packets) : p = Aged(down)
  BY <1>1, AgedFacts
<1>5. /\ Len(p) = Len(down)
      /\ \A i \in 1 .. Len(down) : p[i].card = down[i].card /\ p[i].func = down[i].func
                                   /\ p[i].reg = down[i].reg /\ p[i].data = down[i].data
  BY <1>1, <1>4, AgedFacts
<1>6. /\ WillBe(down, box, c, v) /\ ~Sets(pkt, c) => WillBe(Append(p, pkt), box, c, v)
      /\ Sets(pkt, c) => WillBe(Append(p, pkt), box, c, Setting(pkt, c))
  BY <1>1, <1>5, WillFacts
<1>7. QED
  BY <1>2, <1>3, <1>4, <1>6

\* What the box will be is changed by a frame that is lost or sent, and by
\* nothing else.
LEMMA WillStep ==
  ASSUME TypeInv, CallInv, [Next]_vars, history'.lost = 0, NEW c \in Parts, NEW v,
         WillBe(down, box, c, v)
  PROVE  WillBe(down', box', c, v) \/ (Send /\ Sets(Request(Step), c))
<1>1. down \in Seq(Packets) /\ box \in Boxes
  BY DEF TypeInv, FramesOK
<1>2. ASSUME UNCHANGED <<down, box>> PROVE WillBe(down', box', c, v)
  BY <1>2
<1>3. ASSUME NEW fn \in Functions, NEW s \in Slots, NEW w \in Values, Begins(fn, s, w)
      PROVE  WillBe(down', box', c, v)
  BY <1>2, <1>3 DEF Begins
<1>4. CASE WriteFails \/ WakeGood \/ WakeUnanswered \/ rx_event \/ UNCHANGED vars
  BY <1>2, <1>4 DEF WriteFails, WakeGood, WakeUnanswered, rx_event, vars
<1>5. CASE Send
  BY <1>5, WillSend
<1>6. CASE PID_Update_NewData
  <2>1. ~Sets(Simulation, c)
    BY SimulationFacts DEF Sets
  <2>2. WillBe(Append(down, Simulation), box, c, v)
    BY <1>1, <2>1, SimulationFacts, WillFacts
  <2>3. QED
    BY <1>6, <2>2 DEF PID_Update_NewData
<1>7. CASE Lose
  BY <1>7, CountFacts DEF Lose
<1>8. CASE BoxReads \/ BoxWrites \/ BoxSimulates
  <2>1. /\ down # <<>> /\ down[1] \in Packets /\ FrameOK(down[1]) /\ down' = Tail(down)
        /\ box' = IF down[1].func = "WRITE" THEN BoxWritten(down[1]) ELSE box
    BY <1>8, BoxSteps
  <2>2. Present(box', c) = IF Sets(down[1], c) THEN Setting(down[1], c) ELSE Present(box, c)
    BY <1>1, <2>1, PresentAfter
  <2>3. WillBe(Tail(down), box', c, v)
    BY <1>1, <2>1, <2>2, WillTail
  <2>4. QED
    BY <2>1, <2>3
<1>9. CASE Restart
  <2>1. down = <<>> /\ down' = Aged(down) /\ box' = box
    BY <1>9 DEF Restart, Drained
  <2>2. down' = <<>>
    BY <1>1, <2>1, AgedFacts, EmptyFacts
  <2>3. QED
    BY <2>1, <2>2
<1>10. QED
  BY <1>3, <1>4, <1>5, <1>6, <1>7, <1>8, <1>9, NextCases

\* Nothing that was counted is forgotten.
LEMMA Monotone ==
  ASSUME TypeInv, CallInv, [Next]_vars
  PROVE  /\ history'.lost = 0 => history.lost = 0 /\ ~Lose
         /\ history'.fails = 0 => history.fails = 0 /\ ~WriteFails
         /\ history'.late = 0 => history.late = 0
<1>1. /\ history \in Histories /\ history.fails \in Nat /\ history.lost \in Nat
      /\ history.late \in Nat
  BY DEF TypeInv, Histories
<1>2. Lose => history'.lost = history.lost + 1 /\ history'.fails = history.fails
              /\ history'.late = history.late
  BY <1>1 DEF Lose, Histories
<1>3. WriteFails => history'.fails = history.fails + 1 /\ history'.lost = history.lost
                    /\ history'.late = history.late
  BY <1>1 DEF WriteFails, Histories
<1>4. ASSUME WakeGood \/ WakeUnanswered
      PROVE  /\ history'.fails = history.fails /\ history'.lost = history.lost
             /\ history'.late \in {history.late, history.late + 1}
  <2>1. SleepIsOver /\ (history' = Slept \/ history' = [Slept EXCEPT !.known = TRUE])
    BY <1>4, LastFacts, NextFacts DEF WakeGood, WakeUnanswered
  <2>2. QED
    BY <2>1, SleptFacts
<1>5. ASSUME \/ \E fn \in Functions, s \in Slots, v \in Values : Begins(fn, s, v)
             \/ PID_Update_NewData \/ rx_event \/ UNCHANGED vars
      PROVE  UNCHANGED history
  BY <1>5 DEF Begins, PID_Update_NewData, rx_event, vars
<1>6. BoxReads \/ BoxWrites \/ BoxSimulates => UNCHANGED history
  BY BoxSteps
<1>7. Send \/ Restart => history'.fails = history.fails /\ history'.lost = history.lost
                         /\ history'.late = history.late
  BY <1>1 DEF Send, Restart, Histories
<1>8. QED
  BY <1>1, <1>2, <1>3, <1>4, <1>5, <1>6, <1>7, NextCases

LEMMA WillKept ==
  ASSUME TypeInv, CallInv, [Next]_vars, history'.lost = 0, NEW c \in Parts, NEW v,
         WillBe(down, box, c, v), call'.pc # "wait" \/ call.pc # "send"
  PROVE  WillBe(down', box', c, v)
<1>1. ~Send
  BY SendFacts
<1>2. QED
  BY <1>1, WillStep

\* Only a read goes unanswered, and never one of PID_Unit_Cmd.
LEMMA UnansweredFacts ==
  ASSUME TypeInv, CallInv, WakeUnanswered
  PROVE  /\ call.pc = "wait" /\ call.pc # "idle" /\ SleepIsOver /\ history' = Slept
         /\ Step \in Steps \ Writes /\ Exchanges[Step].func = "READ"
         /\ ~Answers(ctl_pkt, Step)
         /\ ~Inner /\ Step # "start" /\ call.fn # STOP /\ status = 0
         /\ call' = Idle /\ status' = IF call.fn \in ParaCalls THEN call.bak ELSE status
         /\ card_type' = card_type /\ card_mode' = card_mode
         /\ ret' \in Results /\ ret'.err /\ UNCHANGED <<down, up, box, ctl_pkt>>
<1>1. /\ call.pc = "wait" /\ call.pc # "idle" /\ Fail /\ SleepIsOver /\ history' = Slept
      /\ Exchanges[Step].func = "READ" /\ ~Answers(ctl_pkt, Step)
      /\ UNCHANGED <<down, up, box, ctl_pkt>>
  BY DEF WakeUnanswered, SleepIsOver
<1>2. Step \in Steps \ Writes /\ Step \in StepsOf(call.fn, call.bak)
  BY <1>1, StepOfCall, ExchangeFacts
<1>3. Step \notin {"types", "start", "stopAll"}
  BY <1>2 DEF Writes
<1>4. call.fn # STOP
  BY <1>2, <1>3 DEF StepsOf, STOP, START, ReadPara, WritePara
<1>5. ~Inner
  BY <1>3 DEF Inner
<1>6. status = 0
  BY <1>1, <1>4 DEF CallInv
<1>7. /\ call' = Idle /\ status' = IF call.fn \in ParaCalls THEN call.bak ELSE status
      /\ card_type' = card_type /\ card_mode' = card_mode /\ ret' \in Results /\ ret'.err
  BY <1>1, <1>5, FailFacts
<1>8. QED
  BY <1>1, <1>2, <1>3, <1>4, <1>5, <1>6, <1>7

\* The last exchange of a call, and the status it leaves.
LEMMA LastStatus ==
  ASSUME TypeInv, CallInv, WakeGood, Len(call.plan) = 1
  PROVE  /\ Step = "stopAll" <=> call.fn = STOP
         /\ call.fn = START => Step = "start"
         /\ Step = "start" => call.fn = START \/ InSimulation
         /\ call.fn \in ParaCalls /\ Step # "start" => call.bak = 0
         /\ status' = 1 <=> Step = "start"
<1>1. /\ call.pc # "idle" /\ LastStep(Step, call.bak)
      /\ status' = CASE Step = "start"   -> 1
                     [] Step = "stopAll" -> 0
                     [] OTHER            -> IF call.fn \in ParaCalls THEN call.bak ELSE status
  BY LastFacts
<1>2. Step \in StepsOf(call.fn, call.bak) /\ call.bak \in {0, 1}
  BY <1>1, StepOfCall DEF TypeInv, CallRecords
<1>3. Step \notin {"types", "info", "stop"}
  BY <1>1 DEF LastStep
<1>4. /\ call.fn = STOP => Step = "stopAll"
      /\ call.fn = START => Step = "start"
  BY <1>2, <1>3 DEF StepsOf, START, STOP, ReadPara, WritePara
<1>5. call.fn \in ParaCalls /\ Step # "start" => call.bak = 0
  BY <1>1, <1>2, <1>3 DEF StepsOf, LastStep, ParaCalls, START, STOP, ReadPara, WritePara
<1>6. /\ Step = "stopAll" => call.fn = STOP
      /\ Step = "start" => call.fn = START \/ InSimulation
  BY <1>2, StepFacts DEF InSimulation
<1>7. Step \notin {"start", "stopAll"} => status = 0
  BY <1>1, <1>4 DEF CallInv
<1>8. status' = 1 <=> Step = "start"
  BY <1>1, <1>5, <1>7
<1>9. QED
  BY <1>4, <1>5, <1>6, <1>8

(***************************************************************************)
(* Whether the box simulates.                                              *)
(***************************************************************************)
LEMMA RunInit == Init => RunInv
<1> SUFFICES ASSUME Init PROVE RunInv
  OBVIOUS
<1>1. /\ history.known = FALSE /\ call.fn = STOP /\ call.pc = "send" /\ ~InSimulation
  BY CallFacts DEF Init, InSimulation
<1>2. QED
  BY <1>1 DEF RunInv, HaltedInv, InterruptedInv, StartInv, StopInv, SimulatingInv,
     UnknownInv, StartUnderWay

LEMMA RunNext ==
  ASSUME TypeInv, CallInv, NewestInv, RunInv, [Next]_vars
  PROVE  RunInv'
<1> DEFINE c == Part("running", 0)
<1>1. SUFFICES ASSUME history'.lost = 0
               PROVE  /\ HaltedInv' /\ InterruptedInv' /\ StartInv' /\ StopInv'
                      /\ SimulatingInv' /\ UnknownInv'
  BY DEF RunInv
<1>2. history.lost = 0 /\ ~Lose
  BY <1>1, Monotone
<1>3. /\ HaltedInv /\ InterruptedInv /\ StartInv /\ StopInv /\ SimulatingInv /\ UnknownInv
  BY <1>2 DEF RunInv
<1>4. /\ status \in {0, 1} /\ call \in CallRecords /\ history \in Histories
      /\ call.bak \in {0, 1} /\ history.known \in BOOLEAN
      /\ history.fails \in Nat /\ history.lost \in Nat /\ history.late \in Nat
  BY DEF TypeInv, CallRecords, Histories
<1>5. c \in Parts /\ c.what = "running"
  BY PartFacts, ConstantFacts
<1>6. ASSUME call'.pc # "wait" \/ call.pc # "send"
      PROVE  (Runs(0) => Runs(0)') /\ (Runs(1) => Runs(1)')
  <2>1. \A v : WillBe(down, box, c, v) => WillBe(down', box', c, v)
    BY <1>1, <1>5, <1>6, WillKept
  <2>2. QED
    BY <2>1 DEF Runs
<1>7. ASSUME NEW fn \in Functions, NEW s \in Slots, NEW w \in Values, Begins(fn, s, w)
      PROVE  /\ HaltedInv' /\ InterruptedInv' /\ StartInv' /\ StopInv'
             /\ SimulatingInv' /\ UnknownInv'
  <2>1. /\ call.pc = "idle" /\ call.fn = "none" /\ ~InSimulation
        /\ call.fn # STOP
    BY <1>7, CallFacts DEF Begins, InSimulation
  <2>2. /\ call'.fn = fn /\ call'.pc = "send"
        /\ call'.bak = IF fn \in ParaCalls THEN status ELSE 0
        /\ fn \in ParaCalls /\ call'.bak = 1 => Step' = "stop"
    BY <1>7, BeginFacts
  <2>3. history' = history /\ (fn \notin ParaCalls => status' = status)
    BY <1>7 DEF Begins
  <2>4. HaltedInv'
    <3>1. SUFFICES ASSUME history.known, status' = 0, ~(fn \in ParaCalls /\ call'.bak = 1)
                   PROVE  Runs(0)'
      BY <2>2, <2>3 DEF HaltedInv, InSimulation
    <3>2. status = 0
      BY <1>4, <2>2, <2>3, <3>1
    <3>3. QED
      BY <1>3, <1>6, <2>1, <2>2, <3>1, <3>2 DEF HaltedInv, StartUnderWay
  <2>5. InterruptedInv' /\ StartInv' /\ StopInv' /\ SimulatingInv'
    BY <2>2 DEF InterruptedInv, StartInv, StopInv, SimulatingInv, InSimulation, StartUnderWay
  <2>6. UnknownInv'
    BY <1>3, <2>1, <2>3 DEF UnknownInv, Faults
  <2>7. QED
    BY <2>4, <2>5, <2>6
<1>8. ASSUME Send
      PROVE  /\ HaltedInv' /\ InterruptedInv' /\ StartInv' /\ StopInv'
             /\ SimulatingInv' /\ UnknownInv'
  <2>1. /\ call.pc = "send" /\ call'.pc = "wait" /\ Step' = Step
        /\ call'.fn = call.fn /\ call'.bak = call.bak
    BY <1>8, SendFacts
  <2>2. Step \in Steps
    BY <2>1, StepOfCall
  <2>3. /\ status' = status /\ history'.known = history.known /\ Faults' = Faults
    BY <1>4, <1>8 DEF Send, dev, Histories, Faults
  <2>4. /\ Sets(Request(Step), c) <=> Step \in {"stop", "start", "stopAll"}
        /\ Step \in {"stop", "start", "stopAll"} =>
             Setting(Request(Step), c) = IF Step = "start" THEN 1 ELSE 0
    BY <1>5, <2>2, RequestSets
  <2>5. /\ Step \in {"stop", "stopAll"} => Runs(0)'
        /\ Step = "start" => Runs(1)'
    <3>1. Step \in {"stop", "start", "stopAll"} =>
            WillBe(down', box', c, Setting(Request(Step), c))
      BY <1>5, <1>8, <2>4, WillSend
    <3>2. QED
      BY <2>4, <3>1 DEF Runs
  <2>6. Step \notin {"stop", "start", "stopAll"} => (Runs(0) => Runs(0)')
    BY <1>5, <1>8, <2>4, WillSend DEF Runs
  <2>7. HaltedInv' /\ InterruptedInv'
    BY <1>3, <2>1, <2>3, <2>5, <2>6 DEF HaltedInv, InterruptedInv, InSimulation, StartUnderWay
  <2>8. StartInv' /\ StopInv' /\ SimulatingInv'
    BY <2>1, <2>5 DEF StartInv, StopInv, SimulatingInv, StartUnderWay
  <2>9. UnknownInv'
    BY <1>3, <2>1, <2>3 DEF UnknownInv
  <2>10. QED
    BY <2>7, <2>8, <2>9
<1>9. ASSUME WriteFails
      PROVE  /\ HaltedInv' /\ InterruptedInv' /\ StartInv' /\ StopInv'
             /\ SimulatingInv' /\ UnknownInv'
  <2>1. call.pc = "send" /\ call.pc # "idle" /\ Fail /\ call'.pc # "wait"
    BY <1>9, NoLongerWaits DEF WriteFails
  <2>2. /\ call' = Idle /\ (Inner \in BOOLEAN)
        /\ status' = IF Inner THEN 0 ELSE IF call.fn \in ParaCalls THEN call.bak ELSE status
    BY <2>1, FailFacts
  <2>3. history'.known = history.known /\ Faults' # 0
    <3>1. history'.fails = history.fails + 1 /\ history'.lost = history.lost
          /\ history'.late = history.late /\ history'.known = history.known
      BY <1>4, <1>9 DEF WriteFails, Histories
    <3>2. QED
      BY <1>4, <3>1 DEF Faults
  <2>4. call'.pc = "idle" /\ call'.fn = "none" /\ ~InSimulation'
    BY <2>2, CallFacts DEF InSimulation
  <2>5. HaltedInv'
    <3>1. SUFFICES ASSUME history.known, status' = 0
                   PROVE  Runs(0)
      BY <1>6, <2>1, <2>3 DEF HaltedInv
    <3>2. CASE InSimulation
      <4>1. Inner
        BY <2>2, <3>1, <3>2 DEF InSimulation
      <4>2. Step \in {"types", "start"}
        BY <4>1 DEF Inner
      <4>3. QED
        BY <1>3, <2>1, <3>2, <4>2 DEF InterruptedInv, StartUnderWay
    <3>3. CASE ~InSimulation
      <4>1. status = 0
        <5>1. CASE call.fn \in ParaCalls
          <6>1. call.fn # STOP
            BY <5>1, CallFacts
          <6>2. QED
            BY <2>1, <6>1 DEF CallInv
        <5>2. CASE call.fn \notin ParaCalls
          <6>1. ~Inner
            BY <5>2 DEF Inner, ParaCalls
          <6>2. QED
            BY <2>2, <3>1, <5>2, <6>1
        <5>3. QED
          BY <5>1, <5>2
      <4>2. QED
        BY <1>3, <2>1, <3>1, <3>3, <4>1 DEF HaltedInv, StartUnderWay
    <3>4. QED
      BY <3>2, <3>3
  <2>6. QED
    BY <2>3, <2>4, <2>5 DEF InterruptedInv, StartInv, StopInv, SimulatingInv, UnknownInv,
       StartUnderWay
<1>10. ASSUME WakeUnanswered
       PROVE  /\ HaltedInv' /\ InterruptedInv' /\ StartInv' /\ StopInv'
              /\ SimulatingInv' /\ UnknownInv'
  <2>1. /\ call.pc = "wait" /\ SleepIsOver /\ history' = Slept
        /\ Exchanges[Step].func = "READ" /\ ~Answers(ctl_pkt, Step)
        /\ Step # "start" /\ status = 0 /\ call' = Idle
        /\ status' = IF call.fn \in ParaCalls THEN call.bak ELSE status
    BY <1>10, UnansweredFacts
  <2>2. ~Drained
    BY <1>2, <2>1 DEF NewestInv, Drained
  <2>3. history'.known = history.known /\ Faults' # 0
    <3>1. /\ history'.fails = history.fails /\ history'.lost = history.lost
          /\ history'.late = history.late + 1 /\ history'.known = history.known
      BY <2>1, <2>2, SleptFacts
    <3>2. QED
      BY <1>4, <3>1 DEF Faults
  <2>4. call'.pc = "idle" /\ call'.fn = "none" /\ ~InSimulation'
    BY <2>1, CallFacts DEF InSimulation
  <2>5. HaltedInv'
    <3>1. SUFFICES ASSUME history.known, status' = 0
                   PROVE  Runs(0)
      BY <1>6, <2>1, <2>3 DEF HaltedInv
    <3>2. ~InSimulation
      BY <2>1, <3>1 DEF InSimulation
    <3>3. QED
      BY <1>3, <2>1, <3>1, <3>2 DEF HaltedInv, StartUnderWay
  <2>6. QED
    BY <2>3, <2>4, <2>5 DEF InterruptedInv, StartInv, StopInv, SimulatingInv, UnknownInv,
       StartUnderWay
<1>11. ASSUME WakeGood, Len(call.plan) = 1
       PROVE  /\ HaltedInv' /\ InterruptedInv' /\ StartInv' /\ StopInv'
              /\ SimulatingInv' /\ UnknownInv'
  <2>1. /\ call.pc = "wait" /\ call.pc # "idle" /\ LastStep(Step, call.bak) /\ call' = Idle
        /\ history' = IF call.fn \in {START, STOP}
                      THEN [Slept EXCEPT !.known = TRUE] ELSE Slept
    BY <1>11, LastFacts
  <2>2. /\ Step = "stopAll" <=> call.fn = STOP
        /\ call.fn = START => Step = "start"
        /\ call.fn \in ParaCalls /\ Step # "start" => call.bak = 0
        /\ status' = 1 <=> Step = "start"
    BY <1>11, LastStatus
  <2>3. SleepIsOver
    BY <1>11 DEF WakeGood
  <2>4. /\ call.fn \notin {START, STOP} => history'.known = history.known
        /\ call.fn \in {START, STOP} => history'.known = TRUE
        /\ history'.fails = history.fails /\ history'.lost = history.lost
        /\ history'.late = IF Drained THEN history.late ELSE history.late + 1
    <3>1. CASE call.fn \in {START, STOP}
      <4>1. history' = [Slept EXCEPT !.known = TRUE]
        BY <2>1, <3>1
      <4>2. /\ Slept \in Histories /\ Slept.fails = history.fails /\ Slept.lost = history.lost
            /\ Slept.late = IF Drained THEN history.late ELSE history.late + 1
        BY <2>3, SleptFacts
      <4>3. QED
        BY <3>1, <4>1, <4>2 DEF Histories
    <3>2. CASE call.fn \notin {START, STOP}
      <4>1. history' = Slept
        BY <2>1, <3>2
      <4>2. QED
        BY <2>3, <3>2, <4>1, SleptFacts
    <3>3. QED
      BY <3>1, <3>2
  <2>5. Faults' = 0 => Faults = 0
    BY <1>4, <2>4 DEF Faults
  <2>6. call'.pc = "idle" /\ call'.fn = "none" /\ ~InSimulation'
    BY <2>1, CallFacts DEF InSimulation
  <2>7. HaltedInv'
    <3>1. SUFFICES ASSUME history'.known, status' = 0
                   PROVE  Runs(0)
      BY <1>6, <2>1 DEF HaltedInv
    <3>2. Step # "start"
      BY <2>2, <3>1
    <3>3. CASE Step = "stopAll"
      BY <1>3, <2>1, <3>3 DEF StopInv
    <3>4. CASE Step # "stopAll"
      <4>1. call.fn \notin {START, STOP}
        BY <2>2, <3>2, <3>4
      <4>2. status = 0
        BY <2>1, <4>1 DEF CallInv
      <4>3. ~InSimulation
        BY <2>2, <3>2 DEF InSimulation
      <4>4. QED
        BY <1>3, <2>4, <3>1, <3>2, <4>1, <4>2, <4>3 DEF HaltedInv, StartUnderWay
    <3>5. QED
      BY <3>3, <3>4
  <2>8. SimulatingInv'
    <3>1. SUFFICES ASSUME status' = 1
                   PROVE  Runs(1)
      BY <1>6, <2>1 DEF SimulatingInv
    <3>2. QED
      BY <1>3, <2>1, <2>2, <3>1 DEF StartInv, StartUnderWay
  <2>9. UnknownInv'
    <3>1. SUFFICES ASSUME Faults' = 0, ~history'.known PROVE FALSE
      BY DEF UnknownInv
    <3>2. ~history.known /\ call.fn # STOP
      BY <2>4, <3>1
    <3>3. QED
      BY <1>3, <2>5, <3>1, <3>2 DEF UnknownInv
  <2>10. QED
    BY <2>6, <2>7, <2>8, <2>9 DEF InterruptedInv, StartInv, StopInv, StartUnderWay
<1>12. ASSUME WakeGood, Len(call.plan) # 1
       PROVE  /\ HaltedInv' /\ InterruptedInv' /\ StartInv' /\ StopInv'
              /\ SimulatingInv' /\ UnknownInv'
  <2>1. /\ call.pc = "wait" /\ call.pc # "idle" /\ ~LastStep(Step, call.bak)
        /\ call'.fn = call.fn /\ call'.bak = call.bak /\ call'.pc = "send"
        /\ Step' = After(Step, call.fn) /\ status' = status /\ history' = Slept
    BY <1>12, NextFacts
  <2>2. /\ history'.known = history.known
        /\ history'.fails = history.fails /\ history'.lost = history.lost
        /\ history'.late = IF Drained THEN history.late ELSE history.late + 1
    BY <1>12, <2>1, SleptFacts DEF WakeGood
  <2>3. Faults' = 0 => Faults = 0
    BY <1>4, <2>2 DEF Faults
  <2>4. Step # "start" /\ Step' # "stop"
    BY <2>1 DEF LastStep, After
  <2>5. HaltedInv' /\ InterruptedInv'
    BY <1>3, <1>6, <2>1, <2>2, <2>4 DEF HaltedInv, InterruptedInv, InSimulation, StartUnderWay
  <2>6. UnknownInv'
    BY <1>3, <2>1, <2>2, <2>3 DEF UnknownInv
  <2>7. QED
    BY <2>1, <2>5, <2>6 DEF StartInv, StopInv, SimulatingInv, StartUnderWay
<1>13. ASSUME Restart
       PROVE  /\ HaltedInv' /\ InterruptedInv' /\ StartInv' /\ StopInv'
              /\ SimulatingInv' /\ UnknownInv'
  <2>1. history'.known = FALSE /\ call' = Started
    BY <1>4, <1>13 DEF Restart, Histories
  <2>2. call'.fn = STOP /\ call'.pc = "send" /\ ~InSimulation'
    BY <2>1, CallFacts DEF InSimulation
  <2>3. QED
    BY <2>1, <2>2 DEF HaltedInv, InterruptedInv, StartInv, StopInv, SimulatingInv,
       UnknownInv, StartUnderWay
<1>14. ASSUME UNCHANGED <<call, status, history>>
       PROVE  /\ HaltedInv' /\ InterruptedInv' /\ StartInv' /\ StopInv'
              /\ SimulatingInv' /\ UnknownInv'
  <2>1. (Runs(0) => Runs(0)') /\ (Runs(1) => Runs(1)')
    BY <1>6, <1>14
  <2>2. Faults' = Faults /\ (InSimulation' <=> InSimulation) /\ (StartUnderWay' <=> StartUnderWay)
        /\ Step' = Step
    BY <1>14 DEF Faults, InSimulation, StartUnderWay, Step
  <2>3. QED
    BY <1>3, <1>14, <2>1, <2>2 DEF HaltedInv, InterruptedInv, StartInv, StopInv,
       SimulatingInv, UnknownInv
<1>15. BoxReads \/ BoxWrites \/ BoxSimulates => UNCHANGED <<call, status, history>>
  BY BoxSteps
<1>16. PID_Update_NewData \/ rx_event \/ UNCHANGED vars => UNCHANGED <<call, status, history>>
  BY DEF PID_Update_NewData, rx_event, vars, dev
<1>17. QED
  BY <1>2, <1>7, <1>8, <1>9, <1>10, <1>11, <1>12, <1>13, <1>14, <1>15, <1>16, NextCases

(***************************************************************************)
(* The modes and the cards of a box that simulates.                        *)
(***************************************************************************)
LEMMA ModeInit == Init => ModeInv
<1> SUFFICES ASSUME Init PROVE ModeInv
  OBVIOUS
<1>1. /\ call.fn = STOP /\ STOP # START /\ STOP \notin ParaCalls
  BY CallFacts DEF Init
<1>2. QED
  BY <1>1 DEF ModeInv, ModesKnownInv, StartTypesInv, StartModesInv, InSimulation

LEMMA ModeNext ==
  ASSUME TypeInv, CallInv, ModeInv, [Next]_vars
  PROVE  ModeInv'
<1>1. SUFFICES ASSUME history'.lost = 0, history'.fails = 0
               PROVE  ModesKnownInv' /\ StartTypesInv' /\ StartModesInv'
  BY DEF ModeInv
<1>2. history.lost = 0 /\ history.fails = 0 /\ ~Lose /\ ~WriteFails
  BY <1>1, Monotone
<1>3. ModesKnownInv /\ StartTypesInv /\ StartModesInv
  BY <1>2 DEF ModeInv
<1>4. status \in {0, 1} /\ call.bak \in {0, 1}
  BY DEF TypeInv, CallRecords
<1>5. \A s \in Slots : /\ Part("declared", s) \in Parts /\ Part("mode", s) \in Parts
                       /\ Part("declared", s).what = "declared" /\ Part("declared", s).slot = s
                       /\ Part("mode", s).what = "mode" /\ Part("mode", s).slot = s
  BY PartFacts
<1>6. ASSUME call'.pc # "wait" \/ call.pc # "send",
             card_type' = card_type, card_mode' = card_mode
      PROVE  (DeclaredWill => DeclaredWill') /\ (ModesWill => ModesWill')
  <2>1. \A s \in Slots : TypeWord(s)' = TypeWord(s)
    BY <1>6 DEF TypeWord
  <2>2. \A s \in Slots : \A v :
          /\ WillBe(down, box, Part("declared", s), v) => WillBe(down', box', Part("declared", s), v)
          /\ WillBe(down, box, Part("mode", s), v) => WillBe(down', box', Part("mode", s), v)
    BY <1>1, <1>5, <1>6, WillKept
  <2>3. QED
    BY <1>6, <2>1, <2>2 DEF DeclaredWill, ModesWill
<1>7. ASSUME NEW fn \in Functions, NEW s \in Slots, NEW w \in Values, Begins(fn, s, w)
      PROVE  ModesKnownInv' /\ StartTypesInv' /\ StartModesInv'
  <2>1. call.pc = "idle" /\ call.fn = "none" /\ call.fn # STOP
    BY <1>7, CallFacts DEF Begins
  <2>2. /\ call'.fn = fn /\ call'.pc = "send"
        /\ call'.bak = IF fn \in ParaCalls THEN status ELSE 0
        /\ fn = START => Step' = "types"
    BY <1>7, BeginFacts
  <2>3. StartTypesInv' /\ StartModesInv'
    BY <2>2 DEF StartTypesInv, StartModesInv, StartUnderWay
  <2>4. ModesKnownInv'
    <3>1. SUFFICES ASSUME InSimulation' \/ (status' = 1 /\ fn # STOP)
                   PROVE  DeclaredWill' /\ ModesWill'
      BY <2>2 DEF ModesKnownInv
    <3>2. fn # STOP /\ status = 1
      BY <1>7, <2>2, <3>1, CallFacts DEF Begins, InSimulation
    <3>3. card_type' = card_type /\ card_mode' = card_mode
      BY <1>7, <3>2 DEF Begins
    <3>4. QED
      BY <1>3, <1>6, <2>1, <3>2, <3>3 DEF ModesKnownInv
  <2>5. QED
    BY <2>3, <2>4
<1>8. ASSUME Send
      PROVE  ModesKnownInv' /\ StartTypesInv' /\ StartModesInv'
  <2>1. /\ call.pc = "send" /\ call.pc # "idle" /\ call'.pc = "wait" /\ Step' = Step
        /\ call'.fn = call.fn /\ call'.bak = call.bak
    BY <1>8, SendFacts
  <2>2. /\ Step \in Steps /\ Step \in StepsOf(call.fn, call.bak)
    BY <2>1, StepOfCall
  <2>3. status' = status /\ card_type' = card_type /\ card_mode' = card_mode
    BY <1>8 DEF Send, dev
  <2>4. DeclaredWill \/ Step = "types" => DeclaredWill'
    <3>1. SUFFICES ASSUME DeclaredWill \/ Step = "types", NEW s \in Slots
                   PROVE  WillBe(down', box', Part("declared", s), TypeWord(s)')
      BY DEF DeclaredWill
    <3>2. TypeWord(s)' = TypeWord(s)
      BY <2>3 DEF TypeWord
    <3>3. /\ Sets(Request(Step), Part("declared", s)) <=> Step = "types"
          /\ Step = "types" => Setting(Request(Step), Part("declared", s)) = TypeWord(s)
      BY <1>5, <2>2, RequestSets
    <3>4. CASE Step = "types"
      <4>1. WillBe(down', box', Part("declared", s), Setting(Request(Step), Part("declared", s)))
        BY <1>5, <1>8, <3>3, <3>4, WillSend
      <4>2. QED
        BY <3>2, <3>3, <3>4, <4>1
    <3>5. CASE Step # "types"
      <4>1. WillBe(down, box, Part("declared", s), TypeWord(s))
        BY <3>1, <3>5 DEF DeclaredWill
      <4>2. QED
        BY <1>5, <1>8, <3>2, <3>3, <3>5, <4>1, WillSend
    <3>6. QED
      BY <3>4, <3>5
  <2>5. (ModesWill /\ Step # "writeMode") \/ Step = "start" => ModesWill'
    <3>1. SUFFICES ASSUME (ModesWill /\ Step # "writeMode") \/ Step = "start", NEW s \in Slots
                   PROVE  WillBe(down', box', Part("mode", s), card_mode[s])
      BY <2>3 DEF ModesWill
    <3>2. /\ Step # "writeMode" => (Sets(Request(Step), Part("mode", s)) <=> Step \in {"start", "stopAll"})
          /\ Step \in {"start", "stopAll"} =>
               Setting(Request(Step), Part("mode", s)) = card_mode[s]
      BY <1>5, <2>2, RequestSets
    <3>3. CASE Step \in {"start", "stopAll"}
      <4>1. WillBe(down', box', Part("mode", s), Setting(Request(Step), Part("mode", s)))
        BY <1>5, <1>8, <3>2, <3>3, WillSend
      <4>2. QED
        BY <3>2, <3>3, <4>1
    <3>4. CASE Step \notin {"start", "stopAll"}
      <4>1. WillBe(down, box, Part("mode", s), card_mode[s])
        BY <3>1, <3>4 DEF ModesWill
      <4>2. QED
        BY <1>5, <1>8, <3>1, <3>2, <3>4, <4>1, WillSend
    <3>5. QED
      BY <3>3, <3>4
  <2>6. ModesKnownInv'
    <3>1. SUFFICES ASSUME InSimulation' \/ (status' = 1 /\ call.fn # STOP)
                   PROVE  DeclaredWill' /\ ModesWill'
      BY <2>1 DEF ModesKnownInv
    <3>2. InSimulation
      BY <2>1, <2>3, <3>1 DEF CallInv, InSimulation
    <3>3. Step # "writeMode"
      BY <2>2, <3>2 DEF InSimulation, ParaCalls, StepsOf, ReadPara, WritePara
    <3>4. QED
      BY <1>3, <2>4, <2>5, <3>2, <3>3 DEF ModesKnownInv
  <2>7. call.fn = START => Step \in {"types", "start"}
    BY <2>2 DEF StepsOf, START, STOP, ReadPara, WritePara
  <2>8. StartTypesInv'
    BY <1>3, <2>1, <2>4, <2>7 DEF StartTypesInv
  <2>9. StartModesInv'
    BY <2>1, <2>5 DEF StartModesInv, StartUnderWay
  <2>10. QED
    BY <2>6, <2>8, <2>9
<1>9. ASSUME call' = Idle, call.pc # "send" \/ call'.pc # "wait",
             status' = 1 => DeclaredWill' /\ ModesWill'
      PROVE  ModesKnownInv' /\ StartTypesInv' /\ StartModesInv'
  <2>1. call'.fn = "none" /\ call'.fn # START /\ ~InSimulation'
    BY <1>9, CallFacts DEF InSimulation
  <2>2. QED
    BY <1>9, <2>1 DEF ModesKnownInv, StartTypesInv, StartModesInv
<1>10. ASSUME WakeUnanswered
       PROVE  ModesKnownInv' /\ StartTypesInv' /\ StartModesInv'
  <2>1. /\ call.pc = "wait" /\ status = 0 /\ call' = Idle
        /\ status' = IF call.fn \in ParaCalls THEN call.bak ELSE status
        /\ card_type' = card_type /\ card_mode' = card_mode
    BY <1>10, UnansweredFacts
  <2>2. status' = 1 => InSimulation
    BY <2>1 DEF InSimulation
  <2>3. status' = 1 => DeclaredWill' /\ ModesWill'
    BY <1>3, <1>6, <2>1, <2>2 DEF ModesKnownInv
  <2>4. QED
    BY <1>9, <2>1, <2>3
<1>11. ASSUME WakeGood, Len(call.plan) = 1
       PROVE  ModesKnownInv' /\ StartTypesInv' /\ StartModesInv'
  <2>1. call.pc = "wait" /\ call' = Idle
    BY <1>11, LastFacts
  <2>2. status' = 1 => Step = "start" /\ (call.fn = START \/ InSimulation)
    BY <1>11, LastStatus
  <2>3. Step = "start" => card_type' = card_type /\ card_mode' = card_mode
    BY <1>11, KeepFacts
  <2>4. status' = 1 => DeclaredWill /\ ModesWill
    BY <1>3, <2>1, <2>2 DEF ModesKnownInv, StartTypesInv, StartModesInv, StartUnderWay
  <2>5. status' = 1 => DeclaredWill' /\ ModesWill'
    BY <1>6, <2>1, <2>2, <2>3, <2>4
  <2>6. QED
    BY <1>9, <2>1, <2>5
<1>12. ASSUME WakeGood, Len(call.plan) # 1
       PROVE  ModesKnownInv' /\ StartTypesInv' /\ StartModesInv'
  <2>1. /\ call.pc = "wait" /\ call.pc # "idle"
        /\ call'.fn = call.fn /\ call'.bak = call.bak /\ call'.pc = "send"
        /\ status' = status
    BY <1>12, NextFacts
  <2>2. Step \in StepsOf(call.fn, call.bak)
    BY <2>1, StepOfCall
  <2>3. call.fn \in ParaCalls \cup {START} => Step \notin {"info", "readMode", "writeMode"}
    BY <2>2 DEF StepsOf, ParaCalls, START, STOP, ReadPara, WritePara
  <2>4. call.fn \in ParaCalls \cup {START} => card_type' = card_type /\ card_mode' = card_mode
    BY <1>12, <2>3, KeepFacts
  <2>5. ModesKnownInv'
    <3>1. SUFFICES ASSUME InSimulation' \/ (status' = 1 /\ call.fn # STOP)
                   PROVE  DeclaredWill' /\ ModesWill'
      BY <2>1 DEF ModesKnownInv
    <3>2. InSimulation /\ call.fn \in ParaCalls
      BY <2>1, <3>1 DEF CallInv, InSimulation
    <3>3. QED
      BY <1>3, <1>6, <2>1, <2>4, <3>2 DEF ModesKnownInv
  <2>6. StartTypesInv'
    BY <1>3, <1>6, <2>1, <2>4 DEF StartTypesInv
  <2>7. QED
    BY <2>1, <2>5, <2>6 DEF StartModesInv, StartUnderWay
<1>13. ASSUME Restart
       PROVE  ModesKnownInv' /\ StartTypesInv' /\ StartModesInv'
  <2>1. call'.fn = STOP /\ STOP # START /\ ~InSimulation'
    BY <1>13, CallFacts DEF Restart, InSimulation
  <2>2. QED
    BY <2>1 DEF ModesKnownInv, StartTypesInv, StartModesInv
<1>14. ASSUME UNCHANGED <<call, status, card_type, card_mode>>
       PROVE  ModesKnownInv' /\ StartTypesInv' /\ StartModesInv'
  <2>1. (DeclaredWill => DeclaredWill') /\ (ModesWill => ModesWill')
    BY <1>6, <1>14
  <2>2. (InSimulation' <=> InSimulation) /\ (StartUnderWay' <=> StartUnderWay) /\ Step' = Step
    BY <1>14 DEF InSimulation, StartUnderWay, Step
  <2>3. QED
    BY <1>3, <1>14, <2>1, <2>2 DEF ModesKnownInv, StartTypesInv, StartModesInv
<1>15. BoxReads \/ BoxWrites \/ BoxSimulates => UNCHANGED <<call, status, card_type, card_mode>>
  BY BoxSteps
<1>16. PID_Update_NewData \/ rx_event \/ UNCHANGED vars =>
         UNCHANGED <<call, status, card_type, card_mode>>
  BY DEF PID_Update_NewData, rx_event, vars, dev
<1>17. QED
  BY <1>2, <1>7, <1>8, <1>10, <1>11, <1>12, <1>13, <1>14, <1>15, <1>16, NextCases

(***************************************************************************)
(* The parameters of the slots.                                            *)
(***************************************************************************)
LEMMA ParaInit == Init => ParaInv
<1> SUFFICES ASSUME Init PROVE ParaInv
  OBVIOUS
<1>1. /\ down = <<>> /\ up = <<>> /\ history.para = box.para
      /\ call.fn = STOP /\ call.pc = "send" /\ STOP # ReadPara
      /\ ret.fn = "none" /\ ReadPara # "none"
  BY CallFacts DEF Init, ReadPara, STOP
<1>2. ParaWillInv
  BY <1>1, PartFacts DEF ParaWillInv, WillBe, Present
<1>3. ParaReadInv
  BY <1>1 DEF ParaReadInv, ParaAnswersInv, ParaValInv, ParaReadsBack
<1>4. QED
  BY <1>2, <1>3 DEF ParaInv

\* Only the frame of PID_Slot_WritePara changes what was last written.
LEMMA WrittenFacts ==
  ASSUME TypeInv, CallInv, [Next]_vars
  PROVE  history'.para =
           IF Send /\ Step = "writePara"
           THEN [history.para EXCEPT ![call.slot] = call.val] ELSE history.para
<1>1. history \in Histories
  BY DEF TypeInv
<1>2. CASE Send
  BY <1>1, <1>2 DEF Send, Histories
<1>3. CASE WakeGood \/ WakeUnanswered
  <2>1. SleepIsOver /\ (history' = Slept \/ history' = [Slept EXCEPT !.known = TRUE])
    BY <1>3, LastFacts, NextFacts DEF WakeGood, WakeUnanswered
  <2>2. history'.para = history.para
    BY <2>1, SleptFacts
  <2>3. ~Send
    BY <1>3, SendFacts, LastFacts, NextFacts, UnansweredFacts
  <2>4. QED
    BY <2>2, <2>3
<1>4. ASSUME ~Send,
             \/ \E fn \in Functions, s \in Slots, v \in Values : Begins(fn, s, v)
             \/ PID_Update_NewData \/ rx_event \/ UNCHANGED vars
             \/ WriteFails \/ Lose \/ Restart
      PROVE  history'.para = history.para
  BY <1>1, <1>4 DEF Begins, PID_Update_NewData, rx_event, vars, WriteFails, Lose, Restart, Histories
<1>5. BoxReads \/ BoxWrites \/ BoxSimulates => history'.para = history.para /\ (Send => FALSE)
  <2>1. BoxReads \/ BoxWrites \/ BoxSimulates => UNCHANGED <<history, call>>
    BY BoxSteps
  <2>2. Send => call' # call
    BY SendFacts
  <2>3. QED
    BY <2>1, <2>2
<1>6. QED
  BY <1>2, <1>3, <1>4, <1>5, NextCases

LEMMA ParaWillNext ==
  ASSUME TypeInv, CallInv, [Next]_vars, history'.lost = 0, ParaWillInv
  PROVE  ParaWillInv'
<1>1. SUFFICES ASSUME NEW s \in Slots
               PROVE  WillBe(down', box', Part("para", s), history'.para[s])
  BY DEF ParaWillInv
<1>2. Part("para", s) \in Parts /\ Part("para", s).what = "para" /\ Part("para", s).slot = s
  BY PartFacts
<1>3. WillBe(down, box, Part("para", s), history.para[s])
  BY DEF ParaWillInv
<1>4. history.para \in [Slots -> Values] /\ call.slot \in Slots
  BY DEF TypeInv, Histories, CallRecords
<1>5. CASE Send /\ Step = "writePara" /\ s = call.slot
  <2>1. Step \in Steps
    BY <1>5 DEF Steps
  <2>2. /\ Sets(Request(Step), Part("para", s))
        /\ Setting(Request(Step), Part("para", s)) = call.val
    BY <1>2, <1>5, <2>1, RequestSets
  <2>3. history'.para[s] = call.val
    BY <1>4, <1>5, WrittenFacts
  <2>4. WillBe(down', box', Part("para", s), Setting(Request(Step), Part("para", s)))
    BY <1>2, <1>5, <2>2, WillSend
  <2>5. QED
    BY <2>2, <2>3, <2>4
<1>6. CASE ~(Send /\ Step = "writePara" /\ s = call.slot)
  <2>1. history'.para[s] = history.para[s]
    BY <1>4, <1>6, WrittenFacts
  <2>2. ~(Send /\ Sets(Request(Step), Part("para", s)))
    <3>1. Send => Step \in Steps
      BY SendFacts, StepOfCall
    <3>2. QED
      BY <1>2, <1>6, <3>1, RequestSets
  <2>3. WillBe(down', box', Part("para", s), history.para[s])
    BY <1>2, <1>3, <2>2, WillStep
  <2>4. QED
    BY <2>1, <2>3
<1>7. QED
  BY <1>5, <1>6

LEMMA ParaNext ==
  ASSUME TypeInv, CallInv, FreshInv, NewestInv, CurrentInv, ParaInv, [Next]_vars
  PROVE  ParaInv'
<1>1. SUFFICES ASSUME history'.lost = 0
               PROVE  ParaWillInv' /\ (history'.late = 0 => ParaReadInv')
  BY DEF ParaInv
<1>2. history.lost = 0 /\ ParaWillInv
  BY <1>1, Monotone DEF ParaInv
<1>3. ParaWillInv'
  BY <1>1, <1>2, ParaWillNext
<1>4. SUFFICES ASSUME history'.late = 0 PROVE ParaReadInv'
  BY <1>3
<1>5. history.late = 0 /\ ~Lose
  BY <1>1, <1>4, Monotone
<1>6. ParaAnswersInv /\ ParaValInv /\ ParaReadsBack
  BY <1>2, <1>5 DEF ParaInv, ParaReadInv
<1>7. /\ up \in Seq(Packets) /\ down \in Seq(Packets) /\ ctl_pkt \in Packets
      /\ call.slot \in Slots /\ box \in Boxes
  BY DEF TypeInv, FramesOK, AnswersOK, AnswerOK, CallRecords
<1>8. Faults = history.fails
  BY <1>2, <1>5 DEF Faults, TypeInv, Histories
<1>9. /\ "none" # ReadPara /\ Idle.fn = "none" /\ Idle.pc = "idle" /\ NoRet.fn = "none"
      /\ STOP # ReadPara
  BY CallFacts DEF ReadPara, STOP
\* A step that leaves the call where it is.
<1>10. ASSUME UNCHANGED <<call, ret, history>>, ParaAnswersInv'
       PROVE  ParaReadInv'
  <2>1. ParaValInv'
    BY <1>6, <1>10 DEF ParaValInv, Step
  <2>2. ParaReadsBack'
    BY <1>6, <1>8, <1>10 DEF ParaReadsBack
  <2>3. QED
    BY <1>10, <2>1, <2>2 DEF ParaReadInv
\* A step after which the call does not wait, and nothing was returned.
<1>11. ASSUME call'.pc # "wait", ret'.fn = "none", ParaValInv'
       PROVE  ParaReadInv'
  BY <1>9, <1>11 DEF ParaReadInv, ParaAnswersInv, ParaReadsBack
\* A step with which the call returns.
<1>12. ASSUME call' = Idle, history'.para = history.para,
              ret'.fn = ReadPara /\ ~ret'.err => ret'.val = history.para[ret'.slot]
       PROVE  ParaReadInv'
  <2>1. ParaAnswersInv' /\ ParaValInv'
    BY <1>9, <1>12 DEF ParaAnswersInv, ParaValInv
  <2>2. ParaReadsBack'
    BY <1>12 DEF ParaReadsBack
  <2>3. QED
    BY <2>1, <2>2 DEF ParaReadInv
<1>13. ASSUME NEW fn \in Functions, NEW s \in Slots, NEW w \in Values, Begins(fn, s, w)
       PROVE  ParaReadInv'
  <2>1. /\ call'.fn = fn /\ call'.pc = "send" /\ ret' = NoRet
        /\ fn = ReadPara => Step' \notin {"types", "start"}
    BY <1>13, BeginFacts DEF Begins
  <2>2. QED
    BY <1>9, <1>11, <2>1 DEF ParaValInv
<1>14. ASSUME Send PROVE ParaReadInv'
  <2>1. /\ call.pc # "idle" /\ call'.pc = "wait" /\ call'.fn = call.fn /\ call'.slot = call.slot
        /\ call'.val = call.val /\ Step' = Step
    BY <1>14, SendFacts
  <2>2. ctl_pkt' = Cleared /\ up' = Aged(up) /\ ret' = ret
    BY <1>14 DEF Send
  <2>3. ret = NoRet /\ Step \in StepsOf(call.fn, call.bak)
    BY <2>1, StepOfCall DEF CallInv
  <2>4. \A i \in 1 .. Len(up') : ~up'[i].current
    BY <1>7, <2>2, AgedFacts
  <2>5. ParaAnswersInv'
    BY <2>2, <2>4, ClearedFacts DEF ParaAnswersInv, IsPara
  <2>6. ParaValInv'
    <3>1. Step \in {"types", "start"} => history'.para = history.para
      BY WrittenFacts
    <3>2. QED
      BY <1>6, <2>1, <3>1 DEF ParaValInv
  <2>7. ParaReadsBack'
    BY <1>9, <2>2, <2>3 DEF ParaReadsBack
  <2>8. QED
    BY <2>5, <2>6, <2>7 DEF ParaReadInv
<1>15. ASSUME WriteFails PROVE ParaReadInv'
  <2>1. call.pc # "idle" /\ Fail
    BY <1>15 DEF WriteFails
  <2>2. /\ call' = Idle /\ ret'.fn = call.fn /\ ret'.slot = call.slot /\ ret'.val = call.val
        /\ (ret'.err <=> ~Inner)
    BY <2>1, FailFacts
  <2>3. history'.para = history.para
    <3>1. ~Send
      BY <1>15, <2>2, SendFacts, CallFacts
    <3>2. QED
      BY <3>1, WrittenFacts
  <2>4. Inner /\ call.fn = ReadPara => call.val = history.para[call.slot]
    BY <1>6 DEF Inner, ParaValInv
  <2>5. QED
    BY <1>12, <2>2, <2>3, <2>4
\* What answers the read in time is what will be in the slot.
<1>16. ASSUME WakeGood, Step = "readPara" PROVE Answer = history.para[call.slot]
  <2>1. /\ call.pc = "wait" /\ Answers(ctl_pkt, Step) /\ Step \in Steps \ Writes
    BY <1>16, LastFacts, NextFacts DEF Steps, Writes
  <2>2. Answer = ctl_pkt.data[1] /\ ctl_pkt.reg = "para" /\ ctl_pkt.full
    BY <1>16, <2>1, AnswerFacts DEF RegOf
  <2>3. ctl_pkt.current
    BY <1>5, <2>1, <2>2 DEF FreshInv
  <2>4. QED
    BY <1>6, <1>16, <2>1, <2>2, <2>3 DEF ParaAnswersInv, IsPara
<1>17. ASSUME WakeGood \/ WakeUnanswered PROVE history'.para = history.para
  <2>1. SleepIsOver /\ (history' = Slept \/ history' = [Slept EXCEPT !.known = TRUE])
    BY <1>17, LastFacts, NextFacts DEF WakeGood, WakeUnanswered
  <2>2. QED
    BY <2>1, SleptFacts
<1>18. ASSUME WakeUnanswered PROVE ParaReadInv'
  <2>1. call' = Idle /\ ret'.err
    BY <1>18, UnansweredFacts
  <2>2. QED
    BY <1>12, <1>17, <1>18, <2>1
<1>19. ASSUME WakeGood, Len(call.plan) = 1 PROVE ParaReadInv'
  <2>1. /\ call.pc # "idle" /\ call' = Idle /\ ret'.fn = call.fn /\ ret'.slot = call.slot
        /\ ret'.val = IF Step = "readPara" THEN Answer ELSE call.val
    BY <1>19, LastFacts
  <2>2. Step \in StepsOf(call.fn, call.bak) /\ LastStep(Step, call.bak)
    BY <1>19, <2>1, LastFacts, StepOfCall
  <2>3. call.fn = ReadPara => Step \in {"readPara", "start"}
    BY <2>2 DEF StepsOf, LastStep, ReadPara, WritePara, START, STOP
  <2>4. call.fn = ReadPara => ret'.val = history.para[call.slot]
    BY <1>6, <1>16, <1>19, <2>1, <2>3 DEF ParaValInv
  <2>5. QED
    BY <1>12, <1>17, <1>19, <2>1, <2>4
<1>20. ASSUME WakeGood, Len(call.plan) # 1 PROVE ParaReadInv'
  <2>1. /\ call.pc # "idle" /\ call'.pc = "send" /\ call'.fn = call.fn /\ call'.slot = call.slot
        /\ call'.val = IF Step = "readPara" THEN Answer ELSE call.val
        /\ Step' = After(Step, call.fn) /\ ret' = ret /\ ~LastStep(Step, call.bak)
    BY <1>20, NextFacts
  <2>2. ret = NoRet /\ Step \in StepsOf(call.fn, call.bak)
    BY <2>1, StepOfCall DEF CallInv
  <2>3. call.fn = ReadPara => Step \in {"stop", "readPara", "types"}
    BY <2>1, <2>2 DEF StepsOf, LastStep, ReadPara, WritePara, START, STOP
  <2>4. ParaValInv'
    <3>1. SUFFICES ASSUME call.fn = ReadPara, Step' \in {"types", "start"}
                   PROVE  call'.val = history.para[call.slot]
      BY <1>17, <1>20, <2>1 DEF ParaValInv
    <3>2. Step \in {"readPara", "types"}
      BY <2>1, <2>3, <3>1 DEF After
    <3>3. QED
      BY <1>6, <1>16, <1>20, <2>1, <3>1, <3>2 DEF ParaValInv
  <2>5. QED
    BY <1>9, <1>11, <2>1, <2>2, <2>4
<1>21. ASSUME PID_Update_NewData PROVE ParaReadInv'
  <2>1. UNCHANGED <<up, ctl_pkt, call, ret, history>>
    BY <1>21 DEF PID_Update_NewData
  <2>2. ParaAnswersInv'
    BY <1>6, <2>1 DEF ParaAnswersInv, Step
  <2>3. QED
    BY <1>10, <2>1, <2>2
<1>22. ASSUME rx_event PROVE ParaReadInv'
  <2>1. up # <<>> /\ ctl_pkt' \in {ctl_pkt, Head(up)} /\ up' = Tail(up)
        /\ UNCHANGED <<call, ret, history>>
    BY <1>22 DEF rx_event
  <2>2. /\ Len(up) \in Nat \ {0} /\ Head(up) = up[1] /\ Len(up') = Len(up) - 1
        /\ \A i \in 1 .. Len(up) - 1 : up'[i] = up[i + 1]
    BY <1>7, <2>1, TailFacts
  <2>3. 1 \in 1 .. Len(up) /\ \A i \in 1 .. Len(up) - 1 : i + 1 \in 1 .. Len(up)
    BY <2>2
  <2>4. Step' = Step
    BY <2>1 DEF Step
  <2>5. ParaAnswersInv'
    <3>1. SUFFICES ASSUME call.pc = "wait", Step = "readPara"
                   PROVE  /\ \A i \in 1 .. Len(up') : IsPara(up'[i], history.para[call.slot])
                          /\ IsPara(ctl_pkt', history.para[call.slot])
      BY <2>1, <2>4 DEF ParaAnswersInv
    <3>2. /\ \A i \in 1 .. Len(up) : IsPara(up[i], history.para[call.slot])
          /\ IsPara(ctl_pkt, history.para[call.slot])
      BY <1>6, <3>1 DEF ParaAnswersInv
    <3>3. QED
      BY <2>1, <2>2, <2>3, <3>2
  <2>6. QED
    BY <1>10, <2>1, <2>5
<1>23. ASSUME BoxReads \/ BoxWrites \/ BoxSimulates PROVE ParaReadInv'
  <2>1. /\ down # <<>> /\ down[1] \in Packets /\ FrameOK(down[1])
        /\ UNCHANGED <<ctl_pkt, call, ret, history>>
        /\ \/ up' = up
           \/ \E pkt \in Packets :
                /\ up' = Append(up, pkt)
                /\ pkt.func = down[1].func /\ pkt.reg = down[1].reg
                /\ pkt.current = down[1].current
                /\ pkt.func = "READ" /\ pkt.reg # "data" => pkt.data[1] = BoxWord(down[1])
    BY <1>23, BoxSteps
  <2>2. Step' = Step
    BY <2>1 DEF Step
  <2>3. SUFFICES ASSUME call.pc = "wait", Step = "readPara"
                 PROVE  \A i \in 1 .. Len(up') : IsPara(up'[i], history.para[call.slot])
    <3>1. IsPara(ctl_pkt, history.para[call.slot]) \/ ~(call.pc = "wait" /\ Step = "readPara")
      BY <1>6 DEF ParaAnswersInv
    <3>2. (call.pc = "wait" /\ Step = "readPara" =>
             \A i \in 1 .. Len(up') : IsPara(up'[i], history.para[call.slot])) => ParaAnswersInv'
      BY <2>1, <2>2, <3>1 DEF ParaAnswersInv
    <3>3. QED
      BY <1>10, <2>1, <3>2
  <2>4. \A i \in 1 .. Len(up) : IsPara(up[i], history.para[call.slot])
    BY <1>6, <2>3 DEF ParaAnswersInv
  <2>5. CASE up' = up
    BY <2>4, <2>5
  <2>6. ASSUME NEW pkt \in Packets, up' = Append(up, pkt),
               pkt.func = down[1].func, pkt.reg = down[1].reg, pkt.current = down[1].current,
               pkt.func = "READ" /\ pkt.reg # "data" => pkt.data[1] = BoxWord(down[1])
        PROVE  \A i \in 1 .. Len(up') : IsPara(up'[i], history.para[call.slot])
    <3>1. /\ Len(up') = Len(up) + 1 /\ up'[Len(up) + 1] = pkt
          /\ \A i \in 1 .. Len(up) : up'[i] = up[i]
      BY <1>7, <2>6, AppendFacts
    <3>2. \A i \in 1 .. Len(up) + 1 : i \in 1 .. Len(up) \/ i = Len(up) + 1
      BY <1>7
    <3>3. SUFFICES ASSUME pkt.current, pkt.reg = "para"
                   PROVE  pkt.data[1] = history.para[call.slot]
      BY <2>4, <3>1, <3>2 DEF IsPara
    <3>4. Len(down) = 1
      <4>1. 1 \in 1 .. Len(down)
        BY <1>7, <2>1, TailFacts
      <4>2. QED
        BY <2>3, <2>6, <3>3, <4>1 DEF CurrentInv
    <3>5. Step \in Steps \ Writes /\ Exchanges[Step].func = "READ" /\ ~Exchanges[Step].master
      BY <2>3, ExchangeFacts DEF Steps, Writes, ToMaster
    <3>6. Answers(down[1], Step)
      BY <1>2, <2>1, <2>3, <3>4, <3>5 DEF NewestInv, Drained
    <3>7. down[1].card = call.slot /\ down[1].func = "READ"
      BY <3>5, <3>6 DEF Answers, Addressee
    <3>8. pkt.data[1] = box.para[call.slot]
      BY <1>7, <2>1, <2>6, <3>3, <3>7, BoxWordFacts
    <3>9. WillBe(down, box, Part("para", call.slot), history.para[call.slot])
      BY <1>2, <1>7 DEF ParaWillInv
    <3>10. \A i \in 1 .. Len(down) : ~Sets(down[i], Part("para", call.slot))
      <4>1. \A i \in 1 .. Len(down) : i = 1
        BY <3>4
      <4>2. ~Sets(down[1], Part("para", call.slot))
        BY <3>7 DEF Sets
      <4>3. QED
        BY <4>1, <4>2
    <3>11. Present(box, Part("para", call.slot)) = history.para[call.slot]
      BY <3>9, <3>10 DEF WillBe
    <3>12. Present(box, Part("para", call.slot)) = box.para[call.slot]
      BY <1>7, PartFacts DEF Present
    <3>13. QED
      BY <3>8, <3>11, <3>12
  <2>7. QED
    BY <2>1, <2>5, <2>6
<1>24. ASSUME Restart PROVE ParaReadInv'
  <2>1. call' = Started /\ ret' = NoRet
    BY <1>24 DEF Restart
  <2>2. QED
    BY <1>9, <1>11, <2>1, CallFacts DEF ParaValInv
<1>25. ASSUME UNCHANGED vars PROVE ParaReadInv'
  BY <1>6, <1>10, <1>25 DEF vars, ParaAnswersInv, Step
<1>26. QED
  BY <1>5, <1>13, <1>14, <1>15, <1>18, <1>19, <1>20, <1>21, <1>22, <1>23, <1>24, <1>25,
     NextCases

(***************************************************************************)
(* The invariant.                                                          *)
(***************************************************************************)
LEMMA InvInit == Init => IInv
BY TypeInit, CallInit, AnswersInit, RunInit, ModeInit, ParaInit DEF IInv

LEMMA InvNext == IInv /\ [Next]_vars => IInv'
BY TypeNext, CallNext, FreshNext, LeftNext, NewestNext, CurrentNext, RunNext, ModeNext, ParaNext DEF IInv

\* In every behaviour the frames under way make of the box what the place of the
\* call says, and what is left of a call is the rest of its script.
THEOREM InvariantHolds == Spec => []IInv
<1>1. Init => IInv
  BY InvInit
<1>2. IInv /\ [Next]_vars => IInv'
  BY InvNext
<1>3. QED
  BY <1>1, <1>2, PTL DEF Spec

LEMMA PacketsOK ==
  ASSUME NEW pkt \in Packets
  PROVE  PacketOK(pkt)
BY DEF Packets, PacketOK, Regs

\* The types of the state, for every number of slots and every bound: the frames,
\* the answers, the box, dev, the call and what it returned.
THEOREM TypeCorrect == Spec => []TypeOK
<1>1. IInv => TypeOK
  <2> SUFFICES ASSUME TypeInv, LeftInv PROVE TypeOK
    BY DEF IInv
  <2>1. /\ down \in Seq(Packets) /\ up \in Seq(Packets) /\ ctl_pkt \in Packets
    BY DEF TypeInv, FramesOK, AnswersOK, AnswerOK
  <2>2. /\ \A i \in DOMAIN down : down[i] \in Packets
        /\ \A i \in DOMAIN up : up[i] \in Packets
    BY <2>1
  <2>3. /\ \A i \in DOMAIN down : PacketOK(down[i])
        /\ \A i \in DOMAIN up : PacketOK(up[i])
        /\ PacketOK(ctl_pkt)
    BY <2>1, <2>2, PacketsOK
  <2>4. /\ box.running \in BOOLEAN /\ box.mode \in [Slots -> Values]
        /\ box.declared \in [Slots -> {t + 256 * m : t \in Types, m \in Values}]
        /\ box.para \in [Slots -> Values]
    BY DEF TypeInv, Boxes, TypeWords
  <2>5. /\ call.fn \in Functions \cup {"none"} /\ call.slot \in Slots /\ call.val \in Values
        /\ call.plan \in Seq(DOMAIN Exchanges) /\ call.pc \in {"idle", "send", "wait"}
        /\ call.bak \in {0, 1}
    BY ExchangeFacts DEF TypeInv, CallRecords
  <2>6. /\ ret.err \in BOOLEAN /\ ret.val \in Values
        /\ history.fails \in Nat /\ history.lost \in Nat /\ history.late \in Nat
        /\ history.para \in [Slots -> Values]
    BY DEF TypeInv, Results, Histories
  <2>7. QED
    BY <2>3, <2>4, <2>5, <2>6 DEF TypeOK, TypeInv, LeftInv
<1>2. QED
  BY <1>1, InvariantHolds, PTL

\* What a waiting call of the driver takes from dev->ctl_pkt for its answer is the
\* box's answer to the frame of this exchange, whatever was lost or refused before;
\* or the register was read before, left before the fibre was empty, and the fibre
\* has not been seen empty when a frame was written since.
THEOREM FreshAnswers == Spec => []AnswersAreFresh
<1>1. IInv => AnswersAreFresh
  <2> SUFFICES ASSUME TypeInv, CallInv, LeftInv, call.pc = "wait",
                      Exchanges[Step].func = "READ", Answers(ctl_pkt, Step)
               PROVE  ctl_pkt.current \/ <<ctl_pkt.card, ctl_pkt.reg>> \in left
    BY DEF IInv, AnswersAreFresh
  <2>1. Step \in Steps \ Writes
    BY StepOfCall, ExchangeFacts
  <2>2. ctl_pkt.full /\ ctl_pkt.reg = RegOf(Step) /\ ctl_pkt.func = "READ"
    BY <2>1, AnswerFacts
  <2>3. RegOf(Step) # "data"
    BY DEF RegOf
  <2>4. QED
    BY <2>2, <2>3 DEF LeftInv, KnownRead
<1>2. QED
  BY <1>1, InvariantHolds, PTL

\* A driver at rest knows the box: dev->status is 1 exactly when the box
\* simulates, unless something was lost or refused, and a box that simulates works
\* with the cards and in the modes that dev holds, also after a parameter was read
\* or written in the middle of a simulation and after the process was started anew.
THEOREM DriverKnowsBox == Spec => []DriverMatchesBox
<1>1. IInv => DriverMatchesBox
  <2> SUFFICES ASSUME TypeInv, CallInv, RunInv, ModeInv, Quiet
               PROVE  DriverMatchesBox
    BY DEF IInv, DriverMatchesBox, StatusMatchesBox, ModesMatch
  <2>1. /\ down = <<>> /\ call = Idle /\ call.pc = "idle" /\ call.fn = "none"
        /\ ~InSimulation /\ ~StartUnderWay /\ call.fn # STOP
    BY CallFacts DEF Quiet, Drained, InSimulation, StartUnderWay
  <2>2. /\ status \in {0, 1} /\ box.running \in BOOLEAN /\ history.fails \in Nat
        /\ history.lost \in Nat /\ history.late \in Nat /\ history.known \in BOOLEAN
    BY DEF TypeInv, Boxes, Histories
  <2>3. \A v : Runs(v) => Flag(box.running) = v
    BY <2>1, WillNow, PartFacts, ConstantFacts DEF Runs, Present
  <2>4. StatusMatchesBox
    <3>1. SUFFICES ASSUME history.lost = 0
                   PROVE  /\ Faults = 0 => (status > 0 <=> box.running)
                          /\ history.known /\ status = 0 => ~box.running
      BY DEF StatusMatchesBox
    <3>2. HaltedInv /\ SimulatingInv /\ UnknownInv
      BY <3>1 DEF RunInv
    <3>3. history.known /\ status = 0 => ~box.running
      BY <2>1, <2>3, <3>2 DEF HaltedInv, Flag
    <3>4. Faults = 0 => history.known
      BY <2>1, <2>2, <3>2 DEF UnknownInv
    <3>5. Faults = 0 /\ status = 1 => box.running
      BY <2>1, <2>3, <3>2 DEF SimulatingInv, Flag
    <3>6. QED
      BY <2>2, <3>3, <3>4, <3>5
  <2>5. ModesMatch
    <3>1. SUFFICES ASSUME Faults = history.late, status > 0, NEW s \in Slots
                   PROVE  box.mode[s] = card_mode[s] /\ box.declared[s] = TypeWord(s)
      BY DEF ModesMatch
    <3>2. history.lost = 0 /\ history.fails = 0 /\ status = 1
      BY <2>2, <3>1 DEF Faults
    <3>3. DeclaredWill /\ ModesWill
      BY <2>1, <3>2 DEF ModeInv, ModesKnownInv
    <3>4. /\ Present(box, Part("mode", s)) = card_mode[s]
          /\ Present(box, Part("declared", s)) = TypeWord(s)
      BY <2>1, <3>3, WillNow DEF DeclaredWill, ModesWill
    <3>5. QED
      BY <3>4, PartFacts DEF Present
  <2>6. QED
    BY <2>4, <2>5 DEF DriverMatchesBox
<1>2. QED
  BY <1>1, InvariantHolds, PTL

\* PID_Slot_ReadPara, when it returns NoError and nothing was lost or late, returns
\* what was last written to that slot, also when it interrupted a simulation and
\* the restart of the simulation failed.
THEOREM ParaIsRead == Spec => []ParaReadsBack
<1>1. IInv => ParaReadsBack
  <2> SUFFICES ASSUME TypeInv, ParaInv, Faults = history.fails
               PROVE  ParaReadsBack
    BY DEF IInv, ParaReadsBack
  <2>1. history.lost = 0 /\ history.late = 0
    BY DEF TypeInv, Histories, Faults
  <2>2. QED
    BY <2>1 DEF ParaInv, ParaReadInv
<1>2. QED
  BY <1>1, InvariantHolds, PTL
=============================================================================
