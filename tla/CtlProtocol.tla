--------------------------- MODULE CtlProtocol ---------------------------
(***************************************************************************)
(* The control protocol of the c1 driver (yjdnet.c): the application calls *)
(* the driver, the driver writes a control frame, sleeps 100 ms and looks  *)
(* at dev->ctl_pkt, where the thread __rx_event leaves what the interface  *)
(* box answered.  The state of the simulation is known three times: by     *)
(* dev->status, by the box, and by what the last call returned.            *)
(*                                                                         *)
(* One thread of the application calls the driver; every call is a script  *)
(* of exchanges.  The box is outside this repository and is modelled from  *)
(* the frames the driver writes and the answers it accepts: it executes    *)
(* the frames in their order, answers every read, and may echo a write.    *)
(* Values of configurations are reduced to 0 and 1; sync_cyc, which is     *)
(* only printed, and the words of simulation frames are left out.          *)
(***************************************************************************)
EXTENDS Integers, Sequences

CONSTANTS
  MAX_SLOTS,  \* how many slots the box has
  CardType,   \* CardType[s]: the card that is really in slot s
  MaxFaults,  \* bound: failed writes, lost frames and sleeps that are too short
  MaxFlight   \* bound: frames are sent while at most this many are in flight

Slots == 0 .. MAX_SLOTS - 1
CARD_INFO_NO == 0
CARD_INFO_DI == 1
CARD_INFO_DO == 2
CARD_INFO_AI == 3
CARD_INFO_AO == 4
Types == {CARD_INFO_NO, CARD_INFO_DI, CARD_INFO_DO, CARD_INFO_AI, CARD_INFO_AO}
Values == {0, 1}

ASSUME ProtocolAssumption ==
  /\ MAX_SLOTS \in 1 .. 10
  /\ CardType \in [Slots -> Types]
  /\ MaxFaults \in Nat /\ MaxFlight \in Nat

SEL_MASTER == 128

VARIABLES
  down,       \* the frames on their way to the box
  up,         \* the answers on their way to __rx_event
  box,        \* what the box knows: running, mode, declared, para
  status,     \* dev->status
  card_type,  \* dev->card_type
  card_mode,  \* dev->card_mode
  ctl_pkt,    \* dev->ctl_pkt
  call,       \* the call of the application, and how far it is
  ret,        \* what the last call returned
  history,    \* ghost: how many writes failed, frames were lost and sleeps were
              \* over before the answer came; the parameter last written to each
              \* slot; whether a Unit_Cmd has succeeded since the start
  left        \* ghost: card and register of the reads that were over before all that
              \* was under way had arrived, until nothing is under way

dev  == <<status, card_type, card_mode>>
vars == <<down, up, box, dev, ctl_pkt, call, ret, history, left>>

(***************************************************************************)
(* Exchanges: one frame each, addressed to the master card or to a slot,   *)
(* reading or writing a register.  "types" and "start" are the two frames  *)
(* of PID_Unit_Cmd, "stop" is the frame of PID_Slot_ReadPara/WritePara.    *)
(***************************************************************************)
Exchange(master, func, reg) == [master |-> master, func |-> func, reg |-> reg]

Exchanges ==
  [readSync  |-> Exchange(TRUE,  "READ",  "sync"),
   writeSync |-> Exchange(TRUE,  "WRITE", "sync"),
   info      |-> Exchange(FALSE, "READ",  "info"),
   infoPara  |-> Exchange(FALSE, "READ",  "para"),
   readMode  |-> Exchange(FALSE, "READ",  "mode"),
   writeMode |-> Exchange(FALSE, "WRITE", "mode"),
   readPara  |-> Exchange(FALSE, "READ",  "para"),
   writePara |-> Exchange(FALSE, "WRITE", "para"),
   stop      |-> Exchange(TRUE,  "WRITE", "mode"),
   types     |-> Exchange(TRUE,  "WRITE", "types"),
   start     |-> Exchange(TRUE,  "WRITE", "mode"),
   stopAll   |-> Exchange(TRUE,  "WRITE", "mode")]

ReadPara  == "PID_Slot_ReadPara"
WritePara == "PID_Slot_WritePara"
START     == "PID_Unit_Cmd(CMD_START_SIM)"
STOP      == "PID_Unit_Cmd(CMD_STOP_SIM)"

ConfigCalls ==
  [PID_Sync_ReadConfig  |-> <<"readSync">>,
   PID_Sync_WriteConfig |-> <<"writeSync">>,
   PID_Slot_ReadInfo    |-> <<"info", "infoPara">>,
   PID_Slot_ReadConfig  |-> <<"readMode">>,
   PID_Slot_WriteConfig |-> <<"writeMode">>]

\* Mutant of Around: the simulation is not started again.
AroundNoRestart(exchange) == IF status > 0 THEN <<"stop", exchange>> ELSE <<exchange>>

\* PID_Slot_ReadPara and PID_Slot_WritePara stop a running simulation, do their
\* exchange and call PID_Unit_Cmd(CMD_START_SIM).
Around(exchange) ==
  IF status > 0 THEN <<"stop", exchange, "types", "start">> ELSE <<exchange>>

Script(fn) ==
  CASE fn = ReadPara  -> Around("readPara")
    [] fn = WritePara -> Around("writePara")
    [] fn = START     -> <<"types", "start">>
    [] fn = STOP      -> <<"types", "stopAll">>
    [] OTHER          -> ConfigCalls[fn]

Functions == DOMAIN ConfigCalls \cup {ReadPara, WritePara, START, STOP}

(***************************************************************************)
(* Packets.  "data" are the words of the frame.  "full" says that reg_cnt  *)
(* has the value the register asks for (a cleared packet has 0),           *)
(* "current" is a ghost: the packet belongs to the exchange that is under  *)
(* way and not to an earlier one.                                          *)
(***************************************************************************)
Packet(card, func, reg, data) ==
  [card |-> card, func |-> func, reg |-> reg, full |-> TRUE,
   data |-> data, current |-> TRUE]

Cleared == [Packet(0, "READ", "info", <<0>>) EXCEPT !.full = FALSE, !.current = FALSE]

Simulation == [Packet(0, "READ", "data", <<0>>) EXCEPT !.current = FALSE]

Aged(queue) == [i \in DOMAIN queue |-> [queue[i] EXCEPT !.current = FALSE]]

Step == Head(call.plan)
Addressee(step) == IF Exchanges[step].master THEN SEL_MASTER ELSE call.slot

\* One word for each slot, in the order of the slots.
PerSlot(word) == [i \in 1 .. MAX_SLOTS |-> word[i - 1]]

\* Mutant of TypeWord: the mode is shifted by 4 bits.
TypeWordShort(s) == card_type[s] + 16 * card_mode[s]

TypeWord(s) == card_type[s] + 256 * card_mode[s]

Words(step) ==
  CASE step = "writePara" -> <<call.val>>
    [] step = "types"     -> PerSlot([s \in Slots |-> TypeWord(s)])
    [] step = "start"     -> <<1>> \o PerSlot(card_mode)
    [] step = "stopAll"   -> <<0>> \o PerSlot(card_mode)
    [] OTHER              -> <<0>>

Request(step) ==
  Packet(Addressee(step), Exchanges[step].func, Exchanges[step].reg, Words(step))

\* Mutant of Answers: reg_cnt is not looked at.
AnswersAnyCount(pkt, step) ==
  /\ pkt.card = Addressee(step)
  /\ pkt.func = "READ"
  /\ pkt.reg = Exchanges[step].reg

\* The condition under which the code takes ctl_pkt for the answer of a read.
Answers(pkt, step) ==
  /\ pkt.card = Addressee(step)
  /\ pkt.func = "READ"
  /\ pkt.reg = Exchanges[step].reg
  /\ pkt.full

(***************************************************************************)
(* Calls.                                                                  *)
(***************************************************************************)
Faults == history.fails + history.lost + history.late

Calling(fn, slot, val, plan) ==
  [fn |-> fn, slot |-> slot, val |-> val, plan |-> plan, pc |-> "send", bak |-> 0]

Idle == [Calling("none", 0, 0, <<>>) EXCEPT !.pc = "idle"]
NoRet == [fn |-> "none", slot |-> 0, err |-> FALSE, val |-> 0]

\* The process starts: CADPSS_PID::init registers the box and stops it first.
Started == Calling(STOP, 0, 0, <<"types", "stopAll">>)

Init ==
  /\ down = <<>> /\ up = <<>>
  /\ box \in [running : BOOLEAN, mode : {[s \in Slots |-> 0]},
              declared : {[s \in Slots |-> 0]},
              para : {[s \in Slots |-> 0]}]
  /\ status = 0
  /\ card_type = [s \in Slots |-> CARD_INFO_NO]
  /\ card_mode = [s \in Slots |-> 0]
  /\ ctl_pkt = Cleared
  /\ call = Started
  /\ ret = NoRet
  /\ history = [fails |-> 0, lost |-> 0, late |-> 0, para |-> box.para, known |-> FALSE]
  /\ left = {}

\* A configuration call; the c1 classes make them only outside a simulation.
Configure(fn, slot, val) ==
  /\ call = Idle /\ status = 0
  /\ call' = Calling(fn, slot, val, Script(fn))
  /\ ret' = NoRet
  /\ UNCHANGED <<down, up, box, dev, ctl_pkt, history, left>>

Parameters(fn, slot, val) ==
  /\ call = Idle
  /\ call' = [Calling(fn, slot, val, Script(fn)) EXCEPT !.bak = status]
  /\ status' = 0
  /\ ret' = NoRet
  /\ UNCHANGED <<down, up, box, card_type, card_mode, ctl_pkt, history, left>>

PID_Unit_Cmd(cmd) ==
  /\ call = Idle
  /\ cmd = START => status = 0
  /\ call' = Calling(cmd, 0, 0, Script(cmd))
  /\ card_mode' = IF cmd = STOP THEN [s \in Slots |-> 0] ELSE card_mode
  /\ ret' = NoRet
  /\ UNCHANGED <<down, up, box, status, card_type, ctl_pkt, history, left>>

\* The call is over and returns an error or NoError.
Return(err, val) ==
  /\ call' = Idle
  /\ ret' = [fn |-> call.fn, slot |-> call.slot, err |-> err, val |-> val]

\* An exchange of a call failed.  An error of the PID_Unit_Cmd inside
\* PID_Slot_ReadPara/WritePara is kept from the caller.
Inner == call.fn \in {ReadPara, WritePara} /\ Step \in {"types", "start"}

Fail ==
  /\ Return(~Inner, call.val)
  /\ status' = IF Inner THEN 0
               ELSE IF call.fn \in {ReadPara, WritePara} THEN call.bak ELSE status
  /\ UNCHANGED <<card_type, card_mode>>

\* Nothing is under way: the 100 ms of usleep are enough for the frame to reach the
\* box and for what it answers to come back.
Drained == down = <<>> /\ up = <<>>

\* The next frame of the call: ctl_pkt is cleared and yjdnet_write succeeds.
Send ==
  /\ call.pc = "send"
  /\ Len(down) + Len(up) <= MaxFlight
  /\ ctl_pkt' = Cleared
  /\ down' = Append(Aged(down), Request(Step))
  /\ up' = Aged(up)
  /\ call' = [call EXCEPT !.pc = "wait"]
  /\ history' = IF Step = "writePara"
                THEN [history EXCEPT !.para[call.slot] = call.val] ELSE history
  /\ left' = IF Drained THEN {} ELSE left
  /\ UNCHANGED <<box, dev, ret>>

\* ... or yjdnet_write finds no buffer for the frame.
WriteFails ==
  /\ call.pc = "send"
  /\ Faults < MaxFaults
  /\ history' = [history EXCEPT !.fails = @ + 1]
  /\ ctl_pkt' = Cleared
  /\ Fail
  /\ UNCHANGED <<down, up, box, left>>

\* usleep returns, in time or too early.
SleepIsOver == call.pc = "wait" /\ (Drained \/ Faults < MaxFaults)
Slept == IF Drained THEN history ELSE [history EXCEPT !.late = @ + 1]
LeaveRead ==
  left' = IF Drained \/ Exchanges[Step].func = "WRITE" THEN left
          ELSE left \cup {<<Addressee(Step), Exchanges[Step].reg>>}

Answer == Head(ctl_pkt.data)

\* What the driver keeps of an exchange that is over.
Keep(step) ==
  /\ card_type' = IF step = "info"
                  THEN [card_type EXCEPT ![call.slot] = Answer] ELSE card_type
  /\ card_mode' = CASE step = "readMode"  -> [card_mode EXCEPT ![call.slot] = Answer]
                    [] step = "writeMode" -> [card_mode EXCEPT ![call.slot] = call.val]
                    [] OTHER              -> card_mode

LastOf(step) ==
  /\ Return(FALSE, IF step = "readPara" THEN Answer ELSE call.val)
  /\ status' = CASE step = "start"   -> 1
                 [] step = "stopAll" -> 0
                 [] OTHER            -> IF call.fn \in {ReadPara, WritePara}
                                        THEN call.bak ELSE status
  /\ history' = IF call.fn \in {START, STOP}
                THEN [Slept EXCEPT !.known = TRUE] ELSE Slept

\* Mutant of NextOf: the answer is copied when the simulation runs again.
NextOfCopiesLate(step) ==
  /\ call' = [call EXCEPT !.plan = Tail(@), !.pc = "send",
                          !.val = IF step = "types" THEN Answer ELSE @]
  /\ history' = Slept
  /\ UNCHANGED <<status, ret>>

\* PID_Slot_ReadPara copies the answer before it restarts the simulation.
NextOf(step) ==
  /\ call' = [call EXCEPT !.plan = Tail(@), !.pc = "send",
                          !.val = IF step = "readPara" THEN Answer ELSE @]
  /\ history' = Slept
  /\ UNCHANGED <<status, ret>>

\* The process dies and is started again; the box and the fibre go on.  Starting
\* takes longer than an answer.
Restart ==
  /\ Drained
  /\ status' = 0
  /\ card_type' = [s \in Slots |-> CARD_INFO_NO]
  /\ card_mode' = [s \in Slots |-> 0]
  /\ ctl_pkt' = Cleared
  /\ call' = Started
  /\ ret' = NoRet
  /\ down' = Aged(down) /\ up' = Aged(up)
  /\ history' = [history EXCEPT !.known = FALSE]
  /\ UNCHANGED <<box, left>>

\* usleep returns and the exchange is good: a read was answered, the answer of
\* a write is not looked at.
WakeGood ==
  /\ SleepIsOver
  /\ Exchanges[Step].func = "READ" => Answers(ctl_pkt, Step)
  /\ Keep(Step)
  /\ IF Len(call.plan) = 1 THEN LastOf(Step) ELSE NextOf(Step)
  /\ LeaveRead
  /\ UNCHANGED <<down, up, box, ctl_pkt>>

\* usleep returns and ctl_pkt is not the answer.
WakeUnanswered ==
  /\ SleepIsOver
  /\ Exchanges[Step].func = "READ" /\ ~Answers(ctl_pkt, Step)
  /\ Fail
  /\ history' = Slept
  /\ LeaveRead
  /\ UNCHANGED <<down, up, box, ctl_pkt>>

(***************************************************************************)
(* The simulation frames of a step, the receiving thread and the fibre.    *)
(***************************************************************************)
PID_Update_NewData ==
  /\ call = Idle
  /\ status > 0
  /\ Len(down) + Len(up) < MaxFlight
  /\ down' = Append(down, Simulation)
  /\ UNCHANGED <<up, box, dev, ctl_pkt, call, ret, history, left>>

\* With status 0 every frame is taken for a control answer, otherwise every
\* frame is taken for simulation data.
rx_event ==
  /\ up # <<>>
  /\ ctl_pkt' = IF status = 0 THEN Head(up) ELSE ctl_pkt
  /\ up' = Tail(up)
  /\ UNCHANGED <<down, box, dev, call, ret, history, left>>

Lose ==
  /\ Faults < MaxFaults
  /\ \/ down # <<>> /\ down' = Tail(down) /\ UNCHANGED up
     \/ up # <<>> /\ up' = Tail(up) /\ UNCHANGED down
  /\ history' = [history EXCEPT !.lost = @ + 1]
  /\ UNCHANGED <<box, dev, ctl_pkt, call, ret, left>>

(***************************************************************************)
(* The box.                                                                *)
(***************************************************************************)
BoxWord(pkt) ==
  CASE pkt.reg = "info" -> CardType[pkt.card]
    [] pkt.reg = "mode" -> box.mode[pkt.card]
    [] pkt.reg = "para" -> box.para[pkt.card]
    [] OTHER            -> 0

OfSlots(words) == [s \in Slots |-> words[s + 1]]

\* The frame of PID_Unit_Cmd to the master card also names the mode of every
\* slot, the short one of PID_Slot_ReadPara/WritePara does not.
BoxWritten(pkt) ==
  CASE pkt.reg = "types" -> [box EXCEPT !.declared = OfSlots(pkt.data)]
    [] pkt.reg = "para"  -> [box EXCEPT !.para[pkt.card] = Head(pkt.data)]
    [] pkt.reg = "mode" /\ pkt.card # SEL_MASTER ->
         [box EXCEPT !.mode[pkt.card] = Head(pkt.data)]
    [] pkt.reg = "mode" /\ pkt.card = SEL_MASTER ->
         [box EXCEPT !.running = Head(pkt.data) = 1,
                     !.mode = IF Len(pkt.data) = 1 THEN @ ELSE OfSlots(Tail(pkt.data))]
    [] OTHER -> box

BoxReads ==
  /\ down # <<>> /\ Head(down).func = "READ" /\ Head(down).reg # "data"
  /\ up' = Append(up, [Head(down) EXCEPT !.data = <<BoxWord(Head(down))>>])
  /\ down' = Tail(down)
  /\ UNCHANGED <<box, dev, ctl_pkt, call, ret, history, left>>

BoxWrites ==
  /\ down # <<>> /\ Head(down).func = "WRITE"
  /\ box' = BoxWritten(Head(down))
  /\ down' = Tail(down)
  /\ up' \in {up, Append(up, [Head(down) EXCEPT !.data = <<0>>])}
  /\ UNCHANGED <<dev, ctl_pkt, call, ret, history, left>>

BoxSimulates ==
  /\ down # <<>> /\ Head(down).reg = "data"
  /\ up' = IF box.running THEN Append(up, Head(down)) ELSE up
  /\ down' = Tail(down)
  /\ UNCHANGED <<box, dev, ctl_pkt, call, ret, history, left>>

Box == BoxReads \/ BoxWrites \/ BoxSimulates

Application ==
  \/ \E fn \in {"PID_Sync_ReadConfig", "PID_Sync_WriteConfig"} : Configure(fn, 0, 0)
  \/ \E fn \in {"PID_Slot_ReadInfo", "PID_Slot_ReadConfig"}, s \in Slots :
       Configure(fn, s, 0)
  \/ \E s \in Slots, v \in Values : Configure("PID_Slot_WriteConfig", s, v)
  \/ \E s \in Slots : Parameters(ReadPara, s, 0)
  \/ \E s \in Slots, v \in Values : Parameters(WritePara, s, v)
  \/ \E cmd \in {START, STOP} : PID_Unit_Cmd(cmd)
  \/ PID_Update_NewData

Driver == Send \/ WriteFails \/ WakeGood \/ WakeUnanswered

Next == Application \/ Driver \/ rx_event \/ Box \/ Lose \/ Restart

Spec == Init /\ [][Next]_vars

(***************************************************************************)
(* Properties.                                                             *)
(***************************************************************************)
PacketOK(pkt) ==
  /\ pkt.card \in Slots \cup {SEL_MASTER}
  /\ pkt.func \in {"READ", "WRITE"}
  /\ pkt.reg \in {"sync", "info", "mode", "para", "types", "data"}
  /\ pkt.data \in Seq(Nat)
  /\ pkt.full \in BOOLEAN /\ pkt.current \in BOOLEAN

\* Types of the state.
TypeOK ==
  /\ \A i \in DOMAIN down : PacketOK(down[i])
  /\ \A i \in DOMAIN up : PacketOK(up[i])
  /\ PacketOK(ctl_pkt)
  /\ box.running \in BOOLEAN
  /\ box.mode \in [Slots -> Values]
  /\ box.declared \in [Slots -> {t + 256 * m : t \in Types, m \in Values}]
  /\ box.para \in [Slots -> Values]
  /\ status \in {0, 1}
  /\ card_type \in [Slots -> Types]
  /\ card_mode \in [Slots -> Values]
  /\ call.fn \in Functions \cup {"none"} /\ call.slot \in Slots /\ call.val \in Values
  /\ call.plan \in Seq(DOMAIN Exchanges) /\ call.pc \in {"idle", "send", "wait"}
  /\ call.bak \in {0, 1}
  /\ ret.err \in BOOLEAN /\ ret.val \in Values
  /\ history.fails \in Nat /\ history.lost \in Nat /\ history.late \in Nat
  /\ Faults <= MaxFaults
  /\ history.para \in [Slots -> Values]
  /\ left \subseteq (Slots \cup {SEL_MASTER}) \X {Exchanges[step].reg : step \in DOMAIN Exchanges}

\* What a waiting call takes for its answer is the answer of the box to the frame
\* this very exchange wrote: not a simulation frame still under way, not the echo of
\* a write, not the cleared packet, whatever is lost or refused, and not the answer
\* to an earlier read, which carries no number to tell it by.  But one: the same
\* register of the same card was read before, and given up or answered before all
\* that was under way had arrived, and something has been under way ever since.
AnswersAreFresh ==
  call.pc = "wait" /\ Exchanges[Step].func = "READ" /\ Answers(ctl_pkt, Step)
    => ctl_pkt.current \/ <<ctl_pkt.card, ctl_pkt.reg>> \in left

Quiet == call = Idle /\ Drained

\* When no frame was lost or refused, a driver at rest has status > 0 exactly
\* when the box simulates: also after a parameter was read or written in the
\* middle of a simulation, and after the process was started anew.  Writes may
\* even fail: once a PID_Unit_Cmd has succeeded, status 0 means that the box
\* does not simulate.
StatusMatchesBox ==
  Quiet /\ history.lost = 0 =>
    /\ Faults = 0 => (status > 0 <=> box.running)
    /\ history.known /\ status = 0 => ~box.running

\* A box that simulates works in the modes, and with the cards, the driver
\* builds its simulation frames from, also when answers came late.
ModesMatch ==
  Quiet /\ Faults = history.late /\ status > 0 =>
    \A s \in Slots : /\ box.mode[s] = card_mode[s]
                     /\ box.declared[s] = TypeWord(s)

\* What the driver keeps of the box is what the box does, after every call
\* and every restart of the process.
DriverMatchesBox == StatusMatchesBox /\ ModesMatch

\* PID_Slot_ReadPara, when it returns NoError and nothing was lost or late,
\* returns what was last written to that slot.
ParaReadsBack ==
  call = Idle /\ ret.fn = ReadPara /\ ~ret.err /\ Faults = history.fails
    => ret.val = history.para[ret.slot]

\* yjdnet.c says of status "> 0 ----- in simulation status".
StatusMeansSimulation == Quiet /\ history.lost = 0 /\ status > 0 => box.running
=============================================================================
