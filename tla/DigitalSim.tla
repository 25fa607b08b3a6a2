------------------------------ MODULE DigitalSim ------------------------------
(***************************************************************************)
(* The interface process of piditf_d1 from main to its end: it joins the   *)
(* simulator (pstdid.cpp, main), opens the link and registers its boxes    *)
(* with the driver (yjdnet.c), agrees with the other processes on whether  *)
(* all are ready (SubDealParaErr), runs the real-time loop                 *)
(* (DigitalSimulating) and releases what it took.  Beside it run the       *)
(* subnet processes of the simulator, which exchange one message per step  *)
(* with it over MPI, the receive thread of the driver, which copies what a *)
(* box sends into the device buffers without a lock, and the boxes.        *)
(* The build is the one that talks to boxes, DPDK_ENABLE 1, with RT_ENABLE *)
(* 0 as checked in: the two barriers of RT_ENABLE 1 are not there.         *)
(*                                                                         *)
(* A value is stood for by the step (of a subnet) or by the message (of a  *)
(* box) it comes from: the module is about which steps and which messages  *)
(* are brought together.  A box has outputs of every subnet, analogue and  *)
(* digital as HasAO and HasDO say, and inputs of both kinds, which are     *)
(* copied and read word by word, the analogue ones first; IOTable is about *)
(* the variables themselves.                                               *)
(***************************************************************************)
EXTENDS Integers, Sequences

CONSTANTS
  NumSubnet,  \* simio.numSubnet
  NumBox,     \* interface boxes of this process, numbered from 0
  HasAO,      \* the boxes with analogue outputs
  HasDO,      \* the boxes with digital outputs
  NumAI,      \* analogue inputs of a box
  NumDI,      \* its digital inputs
  Ikt,        \* small steps of a step; 1 when no output is instantaneous
  Faults,     \* what may go wrong before the loop, see Init
  MaxStep,    \* bound: the step at whose end the simulator stops, at most
  MaxInput    \* bound: messages each box sends

Subnets == 1..NumSubnet
Boxes == 0..(NumBox - 1)

\* The words of the inputs of a box: ai_data, then di_data.
AIWords == 1..NumAI
Words == 1..(NumAI + NumDI)

ASSUME DigitalSimAssumption ==
  /\ NumSubnet \in Nat \ {0}
  /\ NumBox \in Nat \ {0}
  /\ NumAI \in Nat \ {0} /\ NumDI \in Nat \ {0}
  /\ HasAO \subseteq Boxes
  /\ HasDO \subseteq Boxes
  /\ Ikt \in Nat \ {0}
  /\ Faults \subseteq {"none", "dpdk", "core", "buffer", "subnet"}
  /\ MaxStep \in Nat
  /\ MaxInput \in Nat

\* The processes of CommST, but for the control: the subnets and this one.
Self == 0
Procs == Subnets \cup {Self}

VARIABLES
  fault,     \* what goes wrong: the packet library, the core for the receive
             \* thread, the send buffer of some box, or some subnet
  stopAt,    \* the step at which the simulator's control ends the run
  told,      \* told[n][x]: what x said in the n-th SubDealParaErr
  world,     \* the processes that have come to the last barrier
  subnet,    \* subnet[s]: where the process of subnet s is, and its step
  started,   \* subnets whose start message (tag 1) is not yet received
  toPid,     \* toPid[s]: messages of subnet s to the loop (tag 101)
  toSubnet,  \* toSubnet[s]: messages of the loop to subnet s (tag 102)
  pid,       \* locals of main and DigitalSimulating: where it is, i, the next
             \* word it reads, NT, kNT, IsContinue, Ierr
  volt,      \* volt[b][s]: step of the value of subnet s in Volt of box b
  data,      \* data[b][s]: the same for the digital outputs
  snap,      \* snap[b][w]: the message that input w held for box b comes from
  link,      \* the packet library: closed, open or released
  rx,        \* the receive thread runs
  gs_dev_no, \* the boxes the receive thread knows
  dev,       \* dev[b]: gs_dev[b], rx_count, the messages the words of ai_data and
             \* di_data come from, updates, ao_data and do_data (empty: count 0),
             \* and opens
  copying,   \* copying[b]: the words of the last message not copied yet
  boxSent,   \* boxSent[b]: messages box b has sent
  frames,    \* frames[b]: history, the output frames box b was sent
  got        \* got[s]: history, the inputs subnet s received

simVars == <<subnet, started, toPid, toSubnet>>
mpiVars == <<told, world>>
stageVars == <<volt, data, snap>>
linkVars == <<link, rx, gs_dev_no>>
boxVars == <<dev, copying, boxSent>>
vars == <<fault, stopAt, mpiVars, simVars, pid, stageVars, linkVars, boxVars,
          frames, got>>

Init ==
  /\ fault \in Faults
  /\ stopAt \in 0..MaxStep
  /\ told = [n \in 1..2 |-> [x \in Procs |-> "nothing"]]
  /\ world = {}
  /\ subnet = [s \in Subnets |-> [pc |-> "init", step |-> 0]]
  /\ started = {}
  /\ toPid = [s \in Subnets |-> <<>>]
  /\ toSubnet = [s \in Subnets |-> <<>>]
  /\ pid = [pc |-> "init", i |-> 0, word |-> 1, NT |-> 0, kNT |-> 0,
            IsContinue |-> FALSE, Ierr |-> FALSE]
  /\ volt = [b \in Boxes |-> [s \in Subnets |-> -1]]
  /\ data = [b \in Boxes |-> [s \in Subnets |-> -1]]
  /\ snap = [b \in Boxes |-> [w \in Words |-> 0]]
  /\ link = "closed"
  /\ rx = FALSE
  /\ gs_dev_no = {}
  /\ dev = [b \in Boxes |-> [rx_count |-> 0, inputs |-> [w \in Words |-> 0],
                             updates |-> 0, ao |-> <<>>, do |-> <<>>, opens |-> 0]]
  /\ copying = [b \in Boxes |-> {}]
  /\ boxSent = [b \in Boxes |-> 0]
  /\ frames = [b \in Boxes |-> <<>>]
  /\ got = [s \in Subnets |-> <<>>]

-----------------------------------------------------------------------------
(* SubDealParaErr: a barrier, the error numbers gathered by the control,   *)
(* and the one it broadcasts, which is 0 if all were 0.                    *)

Tell(n, x, Ierr) == told' = [told EXCEPT ![n][x] = IF Ierr THEN "error" ELSE "ok"]
AllTold(n) == \A x \in Procs : told[n][x] # "nothing"
ErrorNo(n) == \E x \in Procs : told[n][x] = "error"

-----------------------------------------------------------------------------
(* The subnet processes, from how this process uses them *)

\* A subnet is initialised, or has failed to be.
SubnetTells(s) ==
  /\ subnet[s].pc = "init"
  /\ \E Ierr \in BOOLEAN : (Ierr => fault = "subnet") /\ Tell(1, s, Ierr)
  /\ subnet' = [subnet EXCEPT ![s].pc = "err1"]
  /\ UNCHANGED <<fault, stopAt, world, started, toPid, toSubnet, pid, stageVars,
                 linkVars, boxVars, frames, got>>

\* It repeats what all were told the first time.
SubnetTellsAgain(s) ==
  /\ subnet[s].pc = "err1"
  /\ AllTold(1)
  /\ Tell(2, s, ErrorNo(1))
  /\ subnet' = [subnet EXCEPT ![s].pc = "err2"]
  /\ UNCHANGED <<fault, stopAt, world, started, toPid, toSubnet, pid, stageVars,
                 linkVars, boxVars, frames, got>>

\* All are ready: it sends the start message.
SubnetStarts(s) ==
  /\ subnet[s].pc = "err2"
  /\ AllTold(2) /\ ~ErrorNo(2)
  /\ subnet' = [subnet EXCEPT ![s].pc = "send"]
  /\ started' = started \cup {s}
  /\ UNCHANGED <<fault, stopAt, mpiVars, toPid, toSubnet, pid, stageVars,
                 linkVars, boxVars, frames, got>>

\* A subnet has computed a step: it sends its outputs and whether it stops.
SubnetSends(s) ==
  /\ subnet[s].pc = "send"
  /\ toPid' = [toPid EXCEPT ![s] =
       Append(@, [step |-> subnet[s].step, stop |-> subnet[s].step = stopAt])]
  /\ subnet' = [subnet EXCEPT ![s].pc =
       IF subnet[s].step = stopAt THEN "done" ELSE "recv"]
  /\ UNCHANGED <<fault, stopAt, mpiVars, started, toSubnet, pid, stageVars,
                 linkVars, boxVars, frames, got>>

\* A subnet receives the inputs of its next step.
SubnetReceives(s) ==
  /\ subnet[s].pc = "recv"
  /\ toSubnet[s] # <<>>
  /\ got' = [got EXCEPT ![s] = Append(@, Head(toSubnet[s]))]
  /\ toSubnet' = [toSubnet EXCEPT ![s] = Tail(@)]
  /\ subnet' = [subnet EXCEPT ![s] = [pc |-> "send", step |-> @.step + 1]]
  /\ UNCHANGED <<fault, stopAt, mpiVars, started, toPid, pid, stageVars,
                 linkVars, boxVars, frames>>

\* It has stopped, or some process was not ready: the last barrier.
SubnetLeaves(s) ==
  /\ \/ subnet[s].pc = "done"
     \/ subnet[s].pc = "err2" /\ AllTold(2) /\ ErrorNo(2)
  /\ subnet' = [subnet EXCEPT ![s].pc = "world"]
  /\ world' = world \cup {s}
  /\ UNCHANGED <<fault, stopAt, told, started, toPid, toSubnet, pid, stageVars,
                 linkVars, boxVars, frames, got>>

-----------------------------------------------------------------------------
(* The boxes and the receive thread *)

\* read_all_devices_data returns what get_input_data returns for the first
\* device it finds, so the loop never gets to a second one.
Polled(b) == b \in gs_dev_no /\ \A c \in gs_dev_no : b <= c

\* A box sends a message, in its own time.  (What a box that is not polled
\* sends is read by nobody.)
BoxSends(b) ==
  /\ Polled(b)
  /\ boxSent[b] < MaxInput
  /\ boxSent' = [boxSent EXCEPT ![b] = @ + 1]
  /\ UNCHANGED <<fault, stopAt, mpiVars, simVars, pid, stageVars, linkVars, dev,
                 copying, frames, got>>

\* Mutant of TakeMessage: a message is begun before the last one was copied.
TakeMessageUnderCopy(b) ==
  /\ rx /\ link = "open" /\ Polled(b)
  /\ dev[b].rx_count < boxSent[b]
  /\ dev' = [dev EXCEPT ![b].rx_count = @ + 1]
  /\ copying' = [copying EXCEPT ![b] = Words]
  /\ UNCHANGED <<fault, stopAt, mpiVars, simVars, pid, stageVars, linkVars,
                 boxSent, frames, got>>

\* Mutant of TakeMessage: the inputs are cleared first.
TakeMessageClearing(b) ==
  /\ rx /\ link = "open" /\ Polled(b)
  /\ copying[b] = {}
  /\ dev[b].rx_count < boxSent[b]
  /\ dev' = [dev EXCEPT ![b].rx_count = @ + 1, ![b].inputs = [w \in Words |-> 0]]
  /\ copying' = [copying EXCEPT ![b] = Words]
  /\ UNCHANGED <<fault, stopAt, mpiVars, simVars, pid, stageVars, linkVars,
                 boxSent, frames, got>>

\* get_input_data has a whole message, and counts it.
TakeMessage(b) ==
  /\ rx /\ link = "open" /\ Polled(b)
  /\ copying[b] = {}
  /\ dev[b].rx_count < boxSent[b]
  /\ dev' = [dev EXCEPT ![b].rx_count = @ + 1]
  /\ copying' = [copying EXCEPT ![b] = Words]
  /\ UNCHANGED <<fault, stopAt, mpiVars, simVars, pid, stageVars, linkVars,
                 boxSent, frames, got>>

Copy(b, w) ==
  /\ dev' = [dev EXCEPT ![b].inputs[w] = dev[b].rx_count]
  /\ copying' = [copying EXCEPT ![b] = @ \ {w}]
  /\ UNCHANGED <<fault, stopAt, mpiVars, simVars, pid, stageVars, linkVars,
                 boxSent, frames, got>>

\* It copies the analogue words, in the order memcpy likes ...
CopyAI(b) ==
  /\ rx
  /\ \E w \in copying[b] \cap AIWords : Copy(b, w)

\* ... and then the digital ones; no lock is taken around any.
CopyDI(b) ==
  /\ rx
  /\ copying[b] \cap AIWords = {}
  /\ \E w \in copying[b] : Copy(b, w)

\* Nothing stops the thread before main returns: it goes on polling a library
\* that was released.  It may find nothing there; it may bring the process down.
PollReleased ==
  /\ rx /\ link = "released" /\ gs_dev_no # {}
  /\ pid' = [pid EXCEPT !.pc = "crash"]
  /\ rx' = FALSE
  /\ UNCHANGED <<fault, stopAt, mpiVars, simVars, stageVars, link, gs_dev_no,
                 boxVars, frames, got>>

-----------------------------------------------------------------------------
(* main, up to the loop *)

\* The next turn of a loop of the code: the same place with the next index,
\* or, past the last one, the next place.
Advance(last, here, first, there) ==
  IF pid.i = last THEN [pid EXCEPT !.pc = there, !.i = first]
                  ELSE [pid EXCEPT !.pc = here, !.i = @ + 1]

\* dpdk_init.  If it fails the process returns, without a word to the others.
InitLink ==
  /\ pid.pc = "init"
  /\ IF fault = "dpdk"
     THEN /\ link' = "released"
          /\ pid' = [pid EXCEPT !.pc = "gone"]
     ELSE /\ link' = "open"
          /\ pid' = [pid EXCEPT !.pc = "thread"]
  /\ UNCHANGED <<fault, stopAt, mpiVars, simVars, stageVars, rx, gs_dev_no,
                 boxVars, frames, got>>

\* pid_thread_create, with which the interface's init begins: without a core
\* there is no receive thread, and no box is registered.
pid_thread_create ==
  /\ pid.pc = "thread"
  /\ rx' = (fault # "core")
  /\ pid' = IF rx' THEN [pid EXCEPT !.pc = "register"]
                   ELSE [pid EXCEPT !.pc = "deal", !.Ierr = TRUE]
  /\ UNCHANGED <<fault, stopAt, mpiVars, simVars, stageVars, link, gs_dev_no,
                 boxVars, frames, got>>

\* The receive thread is told of box i, and the box is opened (PID_Register).
\* The box that gets no send buffer stays closed, and init takes no notice.
PID_Register ==
  /\ pid.pc = "register"
  /\ gs_dev_no' = gs_dev_no \cup {pid.i}
  /\ \E malloc \in BOOLEAN :
       /\ malloc \/ fault = "buffer"
       /\ dev' = [dev EXCEPT ![pid.i].opens = IF malloc THEN @ + 1 ELSE @]
  /\ pid' = Advance(NumBox - 1, "register", 0, "deal")
  /\ UNCHANGED <<fault, stopAt, mpiVars, simVars, stageVars, link, rx, copying,
                 boxSent, frames, got>>

\* SubDealParaErr(Ierr), for the first time.
Deal ==
  /\ pid.pc = "deal"
  /\ Tell(1, Self, pid.Ierr)
  /\ pid' = [pid EXCEPT !.pc = "err1"]
  /\ UNCHANGED <<fault, stopAt, world, simVars, stageVars, linkVars, boxVars,
                 frames, got>>

\* Mutant of DealAgain: what the control broadcasts is not taken over, and
\* the second exchange is left out.
DealAgainOwn ==
  /\ pid.pc = "err1"
  /\ AllTold(1)
  /\ Tell(2, Self, FALSE)
  /\ pid' = [pid EXCEPT !.pc = IF pid.Ierr THEN "err2" ELSE "start", !.i = 1]
  /\ UNCHANGED <<fault, stopAt, world, simVars, stageVars, linkVars, boxVars,
                 frames, got>>

\* Ierr is overwritten with what the control broadcasts, and told again.
DealAgain ==
  /\ pid.pc = "err1"
  /\ AllTold(1)
  /\ Tell(2, Self, ErrorNo(1))
  /\ pid' = [pid EXCEPT !.pc = "err2", !.Ierr = ErrorNo(1)]
  /\ UNCHANGED <<fault, stopAt, world, simVars, stageVars, linkVars, boxVars,
                 frames, got>>

\* To the loop, or, if any process was not ready, to LabelEND.
Decide ==
  /\ pid.pc = "err2"
  /\ AllTold(2)
  /\ pid' = [pid EXCEPT !.Ierr = ErrorNo(2), !.i = 1,
                        !.pc = IF ErrorNo(2) THEN "end" ELSE "start"]
  /\ UNCHANGED <<fault, stopAt, mpiVars, simVars, stageVars, linkVars, boxVars,
                 frames, got>>

StartUp ==
  \/ InitLink
  \/ pid_thread_create
  \/ PID_Register
  \/ Deal
  \/ DealAgain
  \/ Decide

-----------------------------------------------------------------------------
(* DigitalSimulating *)

\* The start message of subnet i; after the last one the integration begins.
RecvStart ==
  /\ pid.pc = "start"
  /\ pid.i \in started
  /\ started' = started \ {pid.i}
  /\ pid' = Advance(NumSubnet, "start", 1, "recv")
  /\ UNCHANGED <<fault, stopAt, mpiVars, subnet, toPid, toSubnet, stageVars,
                 linkVars, boxVars, frames, got>>

\* Mutant of Staged: only the first box takes the values.
StagedFirstBox(out, has, s, step) ==
  [b \in Boxes |-> IF b \in has /\ b = 0 THEN [out[b] EXCEPT ![s] = step] ELSE out[b]]

\* GetSimuVal: the values of subnet s go to the outputs of every box that
\* has a variable of it.
Staged(out, has, s, step) ==
  [b \in Boxes |-> IF b \in has THEN [out[b] EXCEPT ![s] = step] ELSE out[b]]

GetSimuVal(s, step) ==
  /\ volt' = Staged(volt, HasAO, s, step)
  /\ data' = Staged(data, HasDO, s, step)

\* Mutant of RecvStep: IsContinue does not end the loop.
RecvStepNoBreak ==
  /\ pid.pc = "recv"
  /\ toPid[pid.i] # <<>>
  /\ LET m == Head(toPid[pid.i])
     IN /\ GetSimuVal(pid.i, m.step)
        /\ pid' = [Advance(NumSubnet, "recv", 0, "readAI")
                   EXCEPT !.IsContinue = m.stop]
  /\ toPid' = [toPid EXCEPT ![pid.i] = Tail(@)]
  /\ UNCHANGED <<fault, stopAt, mpiVars, subnet, started, toSubnet, snap,
                 linkVars, boxVars, frames, got>>

\* MPI_Recv from subnet i, GetSimuVal, IsContinue; past the last subnet the
\* loop ends if IsContinue, which each subnet overwrites, is 1.
RecvStep ==
  /\ pid.pc = "recv"
  /\ toPid[pid.i] # <<>>
  /\ LET m == Head(toPid[pid.i])
     IN /\ GetSimuVal(pid.i, m.step)
        /\ pid' = [Advance(NumSubnet, "recv", 0,
                           IF m.stop THEN "over" ELSE "readAI")
                   EXCEPT !.IsContinue = m.stop]
  /\ toPid' = [toPid EXCEPT ![pid.i] = Tail(@)]
  /\ UNCHANGED <<fault, stopAt, mpiVars, subnet, started, toSubnet, snap,
                 linkVars, boxVars, frames, got>>

ReadWord ==
  /\ snap' = [snap EXCEPT ![pid.i][pid.word] = dev[pid.i].inputs[pid.word]]
  /\ UNCHANGED <<fault, stopAt, mpiVars, simVars, volt, data, linkVars, boxVars,
                 frames, got>>

\* getdatafromPID for box i: the analogue inputs (PID_AI_GrpRead) ...
ReadAI ==
  /\ pid.pc = "readAI"
  /\ ReadWord
  /\ pid' = [pid EXCEPT !.word = @ + 1,
                        !.pc = IF pid.word = NumAI THEN "readDI" ELSE "readAI"]

\* ... then the digital ones (PID_DI_GrpRead), then the next box.  (The count
\* that PID_DI_GrpRead stores is the one the box sends.)
ReadDI ==
  /\ pid.pc = "readDI"
  /\ ReadWord
  /\ pid' = IF pid.word < NumAI + NumDI
            THEN [pid EXCEPT !.word = @ + 1]
            ELSE [Advance(NumBox - 1, "readAI", 1, "send") EXCEPT !.word = 1]

\* Mutant of SendSubnet: the inputs are read anew for every subnet.
SendSubnetLatest ==
  /\ pid.pc = "send"
  /\ toSubnet' = [toSubnet EXCEPT ![pid.i] =
       Append(@, [b \in Boxes |-> dev[b].inputs])]
  /\ pid' = Advance(NumSubnet, "send", 0, "out")
  /\ UNCHANGED <<fault, stopAt, mpiVars, subnet, started, toPid, stageVars,
                 linkVars, boxVars, frames, got>>

\* setSimuVal and MPI_Send to subnet i.
SendSubnet ==
  /\ pid.pc = "send"
  /\ toSubnet' = [toSubnet EXCEPT ![pid.i] = Append(@, snap)]
  /\ pid' = Advance(NumSubnet, "send", 0, "out")
  /\ UNCHANGED <<fault, stopAt, mpiVars, subnet, started, toPid, stageVars,
                 linkVars, boxVars, frames, got>>

\* PID_AO_GrpWrite and PID_DO_GrpWrite: the staged values of box b and their
\* count are copied to its device d.
PID_AO_GrpWrite(b, d) == IF b \in HasAO THEN [d EXCEPT !.ao = volt[b]] ELSE d
PID_DO_GrpWrite(b, d) == IF b \in HasDO THEN [d EXCEPT !.do = data[b]] ELSE d

\* PID_Update_NewData counts an update first.  A device without outputs, or
\* without a buffer, sends nothing ...
Sends(d) == (d.ao # <<>> \/ d.do # <<>>) /\ d.opens > 0

PID_Update_NewData(d) ==
  IF Sends(d)
  THEN [d EXCEPT !.updates = @ + 1, !.ao = <<>>, !.do = <<>>]
  ELSE [d EXCEPT !.updates = @ + 1]

\* ... the others a frame of both counts and both arrays.
Frame(d) == [NT |-> pid.NT, kNT |-> pid.kNT, ao |-> d.ao, do |-> d.do]

\* SenddataToPID for box i.
SenddataToPID ==
  /\ pid.pc = "out"
  /\ LET d == PID_DO_GrpWrite(pid.i, PID_AO_GrpWrite(pid.i, dev[pid.i]))
     IN /\ dev' = [dev EXCEPT ![pid.i] = PID_Update_NewData(d)]
        /\ frames' = IF Sends(d)
                     THEN [frames EXCEPT ![pid.i] = Append(@, Frame(d))]
                     ELSE frames
  /\ pid' = Advance(NumBox - 1, "out", 0, "wait")
  /\ UNCHANGED <<fault, stopAt, mpiVars, simVars, stageVars, linkVars, copying,
                 boxSent, got>>

\* After the wait: the next small step or, when they are all done, the next
\* step.
NextSmallStep ==
  IF pid.kNT + 1 < Ikt
  THEN [pid EXCEPT !.pc = "out", !.i = 0, !.kNT = @ + 1]
  ELSE [pid EXCEPT !.pc = "recv", !.i = 1, !.NT = @ + 1, !.kNT = 0,
                   !.IsContinue = FALSE]

\* PID_MarkInput_Wait takes the count of updates and leaves 0.
PID_MarkInput_Wait(d) == [d EXCEPT !.updates = 0]

\* MarkInput_Wait for box i: it calls the driver until that returns a count
\* that is not 0, and goes on.
MarkInput_Wait ==
  /\ pid.pc = "wait"
  /\ dev[pid.i].updates > 0
  /\ dev' = [dev EXCEPT ![pid.i] = PID_MarkInput_Wait(@)]
  /\ pid' = IF pid.i = NumBox - 1 THEN NextSmallStep ELSE [pid EXCEPT !.i = @ + 1]
  /\ UNCHANGED <<fault, stopAt, mpiVars, simVars, stageVars, linkVars, copying,
                 boxSent, frames, got>>

\* PID_MarkInput_Wait takes datalock around that.  A box without a buffer never
\* had the lock initialised (PID_Register): pthread_spin_lock on zeros may
\* return, as above, or never, where zeros stand for a lock that is held.
SpinsForEver ==
  /\ pid.pc = "wait"
  /\ dev[pid.i].updates > 0 /\ dev[pid.i].opens = 0
  /\ pid' = [pid EXCEPT !.pc = "spin"]
  /\ UNCHANGED <<fault, stopAt, mpiVars, simVars, stageVars, linkVars, boxVars,
                 frames, got>>

\* ClearOutput: the analogue outputs are staged as zeros and written to the
\* device, and nothing sends them any more.  stopSim does nothing.
ClearOutput ==
  /\ pid.pc = "over"
  /\ volt' = [b \in Boxes |-> [s \in Subnets |-> -1]]
  /\ dev' = [b \in Boxes |-> IF b \in HasAO THEN [dev[b] EXCEPT !.ao = volt'[b]]
                                             ELSE dev[b]]
  /\ pid' = [pid EXCEPT !.pc = "end"]
  /\ UNCHANGED <<fault, stopAt, mpiVars, simVars, data, snap, linkVars, copying,
                 boxSent, frames, got>>

Simulating ==
  \/ RecvStart
  \/ RecvStep
  \/ ReadAI
  \/ ReadDI
  \/ SendSubnet
  \/ SenddataToPID
  \/ MarkInput_Wait
  \/ SpinsForEver
  \/ ClearOutput

-----------------------------------------------------------------------------
(* main, after the loop *)

\* LabelEND: the last barrier, of all processes.
EnterWorld ==
  /\ pid.pc = "end"
  /\ world' = world \cup {Self}
  /\ pid' = [pid EXCEPT !.pc = "world"]
  /\ UNCHANGED <<fault, stopAt, told, simVars, stageVars, linkVars, boxVars,
                 frames, got>>

\* Then dpdk_release ...
dpdk_release ==
  /\ pid.pc = "world"
  /\ world = Procs
  /\ link' = "released"
  /\ pid' = [pid EXCEPT !.pc = "finalize"]
  /\ UNCHANGED <<fault, stopAt, mpiVars, simVars, stageVars, rx, gs_dev_no,
                 boxVars, frames, got>>

\* PID_Release: one user of the device less, if it has one.
PID_Release(d) == IF d.opens > 0 THEN [d EXCEPT !.opens = @ - 1] ELSE d

\* ... and finalize of the interface, which releases every box; main returns,
\* and the receive thread goes with it.
finalize ==
  /\ pid.pc = "finalize"
  /\ dev' = [b \in Boxes |-> PID_Release(dev[b])]
  /\ rx' = FALSE
  /\ pid' = [pid EXCEPT !.pc = "exit"]
  /\ UNCHANGED <<fault, stopAt, mpiVars, simVars, stageVars, link, gs_dev_no,
                 copying, boxSent, frames, got>>

Ending == EnterWorld \/ dpdk_release \/ finalize

Main == StartUp \/ Simulating \/ Ending

SubnetNext(s) ==
  \/ SubnetTells(s)
  \/ SubnetTellsAgain(s)
  \/ SubnetStarts(s)
  \/ SubnetSends(s)
  \/ SubnetReceives(s)
  \/ SubnetLeaves(s)

RxNext == \E b \in Boxes : TakeMessage(b) \/ CopyAI(b) \/ CopyDI(b)

Next ==
  \/ Main
  \/ \E s \in Subnets : SubnetNext(s)
  \/ RxNext
  \/ PollReleased
  \/ \E b \in Boxes : BoxSends(b)

Spec == Init /\ [][Next]_vars

\* The processes and the thread each have a core of their own and none
\* waits inside a step; a box sends when it likes, or never.
FairSpec ==
  /\ Spec
  /\ WF_vars(Main)
  /\ \A s \in Subnets : WF_vars(SubnetNext(s))
  /\ WF_vars(RxNext)
-----------------------------------------------------------------------------
(* Properties *)

Places ==
  {"init", "gone", "thread", "register", "deal", "err1", "err2", "start", "recv",
   "readAI", "readDI", "send", "out", "wait", "spin", "over", "end", "world",
   "finalize", "exit", "crash"}
Values == [Subnets -> Nat \cup {-1}]
Frames == [NT : Nat, kNT : 0..(Ikt - 1), ao : Values \cup {<<>>},
           do : Values \cup {<<>>}]
Inputs == [Boxes -> [Words -> 0..MaxInput]]
Messages == [step : Nat, stop : BOOLEAN]
SubnetStates ==
  [pc : {"init", "err1", "err2", "send", "recv", "done", "world"}, step : Nat]
Locals ==
  [pc : Places, i : Subnets \cup Boxes, word : Words, NT : Nat,
   kNT : 0..(Ikt - 1), IsContinue : BOOLEAN, Ierr : BOOLEAN]
Devices ==
  [rx_count : 0..MaxInput, inputs : [Words -> 0..MaxInput], updates : Nat,
   ao : Values \cup {<<>>}, do : Values \cup {<<>>}, opens : Nat]

MpiTypeOK ==
  /\ told \in [1..2 -> [Procs -> {"nothing", "ok", "error"}]]
  /\ world \subseteq Procs
SimTypeOK ==
  /\ subnet \in [Subnets -> SubnetStates]
  /\ started \subseteq Subnets
  /\ toPid \in [Subnets -> Seq(Messages)]
  /\ toSubnet \in [Subnets -> Seq(Inputs)]
StageTypeOK ==
  /\ volt \in [Boxes -> Values]
  /\ data \in [Boxes -> Values]
  /\ snap \in Inputs
LinkTypeOK ==
  /\ link \in {"closed", "open", "released"}
  /\ rx \in BOOLEAN
  /\ gs_dev_no \subseteq Boxes
BoxTypeOK ==
  /\ dev \in [Boxes -> Devices]
  /\ copying \in [Boxes -> SUBSET Words]
  /\ boxSent \in [Boxes -> 0..MaxInput]
HistoryTypeOK ==
  /\ frames \in [Boxes -> Seq(Frames)]
  /\ got \in [Subnets -> Seq(Inputs)]

\* The state has the shape the C++ variables give it: an index or a count
\* stays in its range, and an array is as long as its box or subnet says.
TypeOK ==
  /\ fault \in Faults
  /\ stopAt \in 0..MaxStep
  /\ pid \in Locals
  /\ MpiTypeOK /\ SimTypeOK /\ StageTypeOK
  /\ LinkTypeOK /\ BoxTypeOK /\ HistoryTypeOK

\* This process begins to simulate, and a subnet sends it a step, only when
\* every process has said that it is ready, whatever fails in which of them.
SimulateTogether ==
  (\/ pid.pc \in {"start", "recv", "readAI", "readDI", "send", "out", "wait", "spin",
                 "over"}
   \/ \E s \in Subnets : subnet[s].pc \in {"send", "recv", "done"})
  => \A x \in Procs : told[1][x] = "ok"

\* Every box is sent each small step of each step once and in order, and a
\* frame has, as analogue and as digital outputs, the values every subnet
\* sent in that same step: no value is a step older than another.
FramesOfOneStep ==
  \A b \in Boxes : \A k \in DOMAIN frames[b] :
    LET NT == (k - 1) \div Ikt
        vals == [s \in Subnets |-> NT]
    IN frames[b][k] = [NT |-> NT, kNT |-> (k - 1) % Ikt,
                       ao |-> IF b \in HasAO THEN vals ELSE <<>>,
                       do |-> IF b \in HasDO THEN vals ELSE <<>>]

\* All subnets compute a step with the same inputs, although they receive
\* them one after the other while the boxes go on sending.
SameInputs ==
  \A s, t \in Subnets : \A k \in DOMAIN got[s] \cap DOMAIN got[t] :
    got[s][k] = got[t][k]

\* The receive thread writes under the loop's reads, so that the inputs of a
\* step need not be of one message.  A word may be newer than one read before it
\* by any number of messages, but it is never older by more than one.
LagsByOneAtMost ==
  \A s \in Subnets : \A k \in DOMAIN got[s] : \A b \in Boxes : \A v, w \in Words :
    v < w => got[s][k][b][w] >= got[s][k][b][v] - 1

\* No input goes back to an older message from a step to the next.
InputsNeverGoBack ==
  \A s \in Subnets : \A k \in 1..(Len(got[s]) - 1) : \A b \in Boxes : \A w \in Words :
    got[s][k + 1][b][w] >= got[s][k][b][w]

\* What a box is sent over a whole run: nothing if some process was not
\* ready or the box has no outputs or no buffer, else the steps before the
\* last and not the last one.
Expected(b) ==
  IF fault # "core" /\ ~ErrorNo(1) /\ b \in HasAO \cup HasDO
  THEN {stopAt * Ikt} \cup (IF fault = "buffer" THEN {0} ELSE {})
  ELSE {0}

\* All have left: no message is left over, and each box was sent what it
\* should be.
AllDone ==
  /\ world = Procs
  /\ \A s \in Subnets :
       subnet[s].pc = "world" /\ toPid[s] = <<>> /\ toSubnet[s] = <<>>
  /\ \A b \in Boxes : Len(frames[b]) \in Expected(b)

\* main returns with every box released, or the receive thread has brought the
\* process down after the packet library was released.
EndsCleanly == pid.pc = "exit" /\ \A b \in Boxes : dev[b].opens = 0
Crashes == pid.pc = "crash" /\ link = "released"

\* The loop spins for the lock of a box that has no buffer.
Spins == pid.pc = "spin" /\ fault = "buffer"

\* When the simulator's control stops every subnet in the same step, all
\* processes end, also a process that has a box without outputs, or one that
\* was not ready, and this one with its boxes released.  Excepted by name are a
\* failure of dpdk_init, after which main returns at once and the others wait
\* for ever; a loop that Spins, for which they wait as well; and the crash at
\* the very end, by which all others must have left.
EndsTogether ==
  fault # "dpdk" => <>[](Spins \/ (AllDone /\ (EndsCleanly \/ Crashes)))
=============================================================================
