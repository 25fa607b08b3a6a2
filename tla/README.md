# phybox: a TLA+ model of the interface processes

phybox couples the simulators of ADPSS (a power system simulation package) with physical
interface boxes. An *interface process* takes part in the MPI program of the simulator,
receives the outputs of the computing processes ("subnets") in every step, sends them to the
cards of one or more boxes, reads the inputs of the boxes and sends them back. The repository
holds three generations of that process:

| directory | process | link to the boxes |
|---|---|---|
| `piditf_b1` | `PstPIDItf_rt64.cpp`, for electromechanical programs | kernel driver through `ioctl` (driver not in the repository) |
| `piditf_c1` | `ADPSS_PID_MAIN.cpp`, for electromagnetic programs | fibre, raw packets, `yjdnet.c` |
| `piditf_d1` | `pstdid.cpp`, digital interface | fibre by a packet library (DPDK), `yjdnet.c` |

This directory has TLA+ modules of the parts that carry the logic, TLC configurations for
them, and proofs for TLAPS. All line numbers below are those of the files in `src/`; the
map from definitions to lines is in `PROJECT.json`.

## Inventory

**Packet layer of d1** (`piditf_d1/yjdnet.c`, `yjdnet_write`, `get_input_data`).
State: the locals of the two loops, the packets on the fibre. A message is cut into packets
headed by their number and the total; the receiver joins them, refuses what is out of place,
and copies a complete message to the device buffers. Hard: lost packets; the header does not
say which message a packet belongs to. Correct when: only whole messages are handed over, in
order, and a loss costs a bounded number of messages.

**Interface process of d1** (`pstdid.cpp`, `main` and `DigitalSimulating`; registration, release
and receive thread of `yjdnet.c`). State: the link, the registered devices, `Ierr` of all
processes, the step and small-step counters, staged outputs, copies of the inputs, messages of
MPI tags 1, 101 and 102. Works with the subnets, the receive thread (`__rx_event`, which writes
`gs_dev` without a lock) and the boxes. Hard: interleavings of all four, and a start that may
fail in any process. Correct when: all simulate or none, a frame never mixes steps, all subnets
compute with the same inputs, inputs never go back, and everybody ends together.

**Forming of the communicators** (`FormComm` of b1, c1 and d1). State: the kinds of the
processes, the communicators made so far. Every process of the simulator makes its own list of
collective calls, and computes ranks in one communicator from ranks in another. Correct when: no
call blocks and each communicator has the processes it is for.

**Variable table of d1** (`RecvSendPhyIO`, `addavar` of four classes, `GetSimuVal`,
`setSimuVal`). State: per box and kind of signal the list of signals, the offsets
of each subnet in the exchanged arrays. Hard: the same variable has four numbers, and loops
in different files must agree on them. Correct when: each value ends up in the place of
its variable.

**Control protocol of c1** (`piditf_c1/.../yjdnet.c`). State: `status`, `card_type`,
`card_mode` and `ctl_pkt` of a device; the box's own idea of the same. A call writes a frame,
sleeps 100 ms and looks for the answer that `__rx_event` has left. Hard: lost frames, late
answers, failed writes in the middle of a call, restart of the process while the box goes on.
Correct when: no answer is taken for another, and driver and box agree on the state.

**GPS clock of c1** (`__gpsTimer_event`, `wait_PPS_signal`, `getSignal_NextDT`). State: the
time as last copied, the microsecond the current step began at. Hard: 16-bit differences of a
counter that starts again every millisecond; a thread that polls what another writes. Correct
when: no step begins early, none is lost, errors do not add up.

**Interface process of c1** (`ADPSS_PID_MAIN.cpp`). State: `RTCalcMark`, a FIFO of messages,
the step, `bEnd`; barriers and messages with tags 60 and 61. Two threads (main and RtEmtPhy)
in each of several processes, and the computing processes. Hard: start at a whole second,
lockstep with several partners, orderly end. Correct when: all boxes start in one second,
no step is mixed, nothing written is lost, everyone ends.

**Channel groups of c1** (`PID_xx_GrpConfig`, `GrpRead`, `GrpWrite`). State: lists of
channels. Hard: a refused call has already stored part of its list. Correct when: no channel
is in two groups and none lies outside the arrays.

**Signals and cards of a box, c1** (`ReadDvc`, the classes AI, AO, DI, DO, `CADPSS_PID`).
State: signals and their variables, samples, staged outputs, words in the device buffers.
Hard: sums over several processes, arrays used in both directions, a receiving thread without
a lock, initialisation that partly fails. Correct when: each word reaches
its line of the DVC file, no older than it must be, and what has no signal stays at rest.

**Interface process of b1** (`PstPIDItf_rt64.cpp`). State: `MarkPhyInit`, `IsBalance`,
`MarkRTCalculation`, shared by main and the real-time thread without a lock; which boxes run;
MPI messages of tags 1, 101 and 102, barriers, the gathered error numbers. The thread keeps the
boxes going until their inputs stand still, then main and all other processes are told.
Hard: the hand-over between the threads, and every process failing with any other. Correct
when: nobody simulates unless all can, and everyone ends.

**Signals and cards of the boxes of a process, b1** (`RecvSendPhyIO` and the classes AI, AO, DI,
DO, `CADPSS_PID`, `CADPSS_PID_ITF`). State: signals with their variables and slots, amplitude
and phase of each wave, samples, the last frame, which boxes run and what their semaphores have
counted. Hard: sums over subnets that depend on the order of the lists, waves that go on through
three loops, boxes that sample in their own time. Correct when: an output holds the values of
one step, waves have no jump, and an input is the sample of its own signal and not too old.

**Start-up files of c1** (`REmtParal`, `ReadAllocin`), **call layer** `yjdpsrt`, **wrappers**
`rtftoc`, `ITFC`, **calls of the d1 driver without effect**, **socket branch and test programs**
of d1, headers and build files: not modelled; the reasons are in `PROJECT.json`, component by
component.

How they interact: in all three `FormComm` comes first, and everything after it uses the
communicators it made. d1 — subnets ⇄ (MPI) DigitalSimulating ⇄ variable table ⇄ packet layer ⇄
box; the receive thread shares `gs_dev` with the loop. c1 — computing processes ⇄ (MPI)
RtEmtPhy ⇄ classes ⇄ groups ⇄ driver (control protocol) ⇄ box; the GPS clock paces
RtEmtPhy; main and RtEmtPhy share `RTCalcMark` and the FIFO. b1 — subnets ⇄ (MPI)
RTSTPhySim ⇄ classes ⇄ boxes; main and RTSTPhySim share three flags.

## Modules

| module | models | state and actions |
|---|---|---|
| `MessageTransfer` | what the packet layer promises | abstract: messages are sent in order; some are delivered, whole, at most once, in order |
| `FrameTransfer` | d1 packet layer | `tx`, `rx` are the locals of the two functions; `SendPacket`/`LosePacket` one turn of the loop of `yjdnet_write`, `RefusePacket`, `JoinPacket`, `DeliverMessage` one turn of `get_input_data` |
| `DigitalSim` | d1 process from `main` to its end, receive thread, subnets, boxes | `pid` are the locals of `main` and `DigitalSimulating`; `StartUp`, `Simulating` and `Ending` group the actions: one for each call of the start and the end, one for each exchange of the loop; `CopyAI` and `CopyDI` the two copies of the receive thread, `ReadAI` and `ReadDI` the reads of the loop, each word by word; `told` and `world` are the two exchanges of `Ierr` and the last barrier |
| `FormComm` | `FormComm` of b1, c1, d1 | `calls` counts the collective calls of each process, `comm` has the communicators; `Collective` is one call returning for all its members; `Meant` says which ranks each communicator should have |
| `IOTable` | d1 table | extends `FormComm`, whose `CommMain_Sub` and `CommST` carry the lists; `RecvSendPhyIO`: `ReceiveList`, then `CollectSubnets` and `AddVar` one variable a step, `SubnetDone` subnet after subnet, `AllocBuf`; then one step of the exchange: `GetSimuVal` for each subnet, `getdatafromPID`, `setSimuVal` for each, `WriteFrame` with the bits of each value that `PID_AO_GrpWrite` and `PID_DO_GrpWrite` keep |
| `CtlProtocol` | c1 driver calls | each call is a script of exchanges; `Send`, `WriteFails`, `WakeGood`, `WakeUnanswered` the outcomes of one exchange; `rx_event`, the box, losses, `Restart` |
| `GpsClock` | c1 clock | the timer thread stores milliseconds and microseconds one after the other; the real-time thread polls |
| `RtEmtPhy` | c1 processes | `MainNext` and `ThreadNext` are the two threads of a process; barriers count; one action for each message; `timer` says whether the process found a core for its GPS thread |
| `GroupConfig` | c1 groups | `GrpConfig` with any prefix stored, `GrpWrite` |
| `RtStPhy` | b1 processes and their subnets | `Main` and `RTSTPhySim` are the two threads of a process, one action from one access of a shared variable or one MPI call to the next; `alive` are the boxes that could be initialised, `MarkInput_Wait` guards every turn of the three loops; `told`, `cal` and `world` are the gathered errors and the barriers |
| `StPhyBox` | b1 boxes of a process | `RecvSendPhyIO` (`CollectSubnets`, then `AddVar` and `SubnetDone` subnet after subnet, `AllocBuf`) and `InitBoxes`, then the thread's loops search, hold and simulate: `Output` (values to words and frames), `MarkInput_Wait`, `GetData`, `SearchTurn`, `HoldTurn`, `RecvStep`, `EndSimulating`; `Tick` is a sample of a box |
| `BoxData` | c1 data path of a box | `ReadDvc` line by line (`ReadLine` meets the processes, then `FileLine` and `ProcDone` process after process, `AllocBuf`), `InitClass`, the receiving thread word by word, one step from the samples to the frame |

`MCx` modules hold the constants of the instances; `FrameTransferProofs`, `DigitalSimProofs`,
`IOTableProofs` (which has `FormComm` too), `CtlProtocolProofs`, `RtStPhyProofs`, `RtEmtPhyProofs`
(which has `GpsClock` too), `StPhyBoxProofs` and `BoxDataProofs` (which has `GroupConfig` too) hold
the proofs.
`FrameTransfer` instantiates `MessageTransfer`,
which is its abstract specification.
`IOTable` composes the table with `FormComm`. `RtStPhy` and `StPhyBox` divide the b1 thread: with
whom it exchanges, and what. `RtEmtPhy` takes the steps of `GpsClock` and the data path of `BoxData` as atomic parts; the
three divide what one thread of the program does by question: when, with whom, and what.
Mutants (`...` operators with a comment "Mutant of") are forms of a definition with a
plausible bug; each property of a passing run is broken by the one listed for it.

### Abstractions

* A value is the step, message, frame or variable it comes from (`DigitalSim`, `IOTable`,
  `RtEmtPhy`), or a small integer on a reduced scale (`BoxData`: 1.0 is `Unit`, the top bit
  is `High`, clipping and the bits of a digital word are kept). `GpsClock` keeps the 16-bit
  wrap and the thresholds (1000 → `US`, 65536 → `WORD`, 60000 → `HIGH`). The step of the clock is a
  double in the code; `DT` is counted in parts of a microsecond (`FRAC` of them), the U16 takes the
  sum with it truncated (`NextDT`), the doubles take all of it. That an addition of doubles is
  rounded, by far less than a part, is left out.
* `IOTable` tells the bits of a value only where it is handed to the driver: an analogue output
  keeps those of a float (the array of doubles is handed over as `float *` and cast back by
  the driver), a digital one the low 8 of its 16.
* Boxes, computing processes, subnets, MPI and the network cards are not in the repository.
  They are modelled from how the code uses them and marked external in the map: MPI messages
  are not lost and keep their order; a box executes frames in order, cuts its messages as
  `yjdnet_write` does and answers for the channels asked for; fibres lose and never reorder.
* Builds: d1 with `DPDK_ENABLE` 1 (the checked-in `debug_config.h` has 0, a desk build that
  sends over TCP and only logs what it receives) and with `RT_ENABLE` 0 as checked in, so the two
  barriers of `RT_ENABLE` 1 are not there; b1 and c1 without `_INFINIBAND`. `PID_SEM_MODE` is 1
  in b1: `MarkInput_Wait` waits on a semaphore that the box's driver posts at each sample
  (external). `StPhyBox` counts the posts; `MaxPosts`, how far a semaphore counts, is a bound of the
  model and not of the code, and every box answers there. In `RtStPhy` a wait
  returns when all boxes of the process sample, which they do while they run and the master, a box
  of the first process, runs too; a sample left over when boxes stop counts as one taken before.
  It is 0 in c1 and d1, where no call waits on a semaphore; in d1 the call takes a spin lock.
* `DigitalSim` has one fault a run, chosen at the start: the packet library cannot be
  initialised (`dpdk`), there is no core for the receive thread (`core`), a send buffer cannot be
  allocated (`buffer`), another process is not ready (`subnet`), or none. A second one of these
  would be met at the same exchange of `Ierr`. With `buffer` the lock of the box has not been
  initialised either (`yjdnet.c:1422` returns before 1433): what its memory holds then decides whether
  `PID_MarkInput_Wait` goes on or spins for ever (`pc = "spin"`), so both are steps of the model. The poll of
  the packet library after its release ends in `pc = "crash"`, apart from `"exit"`.
* `FormComm` claims something only of processes started in the order of their kinds
  (`InOrder`), which is what the code relies on: "默认不同类型进程的启动顺序与COMMSIMU.PMN中定义的顺序一致" (by
  default the processes of the types are started in the order COMMSIMU.PMN defines,
  `piditf_c1/.../ADPSS_PID_MAIN.cpp:316`). Other orders are in the instance and reach the error states.
* `RtStPhy` reduces the comparison of inputs to two bits chosen at each turn (they stand still;
  `BarrierT` is due), and the turns to a count modulo a whole cycle. Its subnets call
  `SubDealParaErr` before they wait for tag 102 and have received the initial values before
  they enter the barrier of `CommCal`: the subnets are not in the repository, and with another
  order the threads and the subnets would wait for each other (hazards at lines 538 and 564).
* `StPhyBox` names a value by the variable and the step it comes from, and a wave by its angle
  (in parts of a cycle) and the two amplitudes it passes between. Lists are as the program that
  writes them makes them: the two parts of a wave come from one subnet, real part first, and
  two inputs of a box have different numbers (an input with a number already met is refused,
  "找到，不应该出现这种情况", `ADPSS_PID_AI.cpp:68`). Factors, calibration and the bits of a digital
  word are left out; `BoxData` has them for c1, where the code is the same.
* `BoxData` takes any DVC files of which each line fits its card. The files of the run satisfy the
  hypotheses of the theorems about it (below): each input and digital output has one line, a channel
  one number, and no kind fills all channels.
* `IOTable` takes lists as `ListsAssumption` names them, which TLC evaluates on the lists of the run
  and the proofs use: no two inputs of a box and kind have one number (the comment above; the code
  refuses a second), what goes to a box is an output of its subnet, and the number of a subnet is
  its place among the ST processes. How outputs are numbered is not assumed: "编号，输入/输出量分别从1开始编号"
  (inputs and outputs are each numbered from 1, `ADPSS_PID_DO.cpp:39`) may be read kind by kind or
  for both kinds together. A value whose number is beyond the array of its kind is stored
  outside it (`outside`), after which nothing is claimed of the frames; `StoredOutside` says for
  which lists that happens.

## Runs

| run | instance | shows |
|---|---|---|
| `transfer` | packets of 2 words; messages of 3, 3, 1, 4 and 3 packets, the fourth too long for the receive buffer; link of 3 packets; up to 4 losses, at most 2 in a row | `WholeMessages`, `ImplementsTransfer` (refinement), `LossBudget` (a loss costs at most two messages, an oversized message only itself), `AllArrive` |
| `burst` (violation) | messages of 2 packets, bursts of 2 | the head of one message joined to the tail of the next is handed over |
| `digital_sim` | 2 subnets, 2 boxes (one with inputs only), 2 small steps, end at step 0, 1 or 2, 2 messages a box of two analogue words and a digital one, any one fault at the start | `SimulateTogether`, `FramesOfOneStep`, `SameInputs`, `LagsByOneAtMost`, `InputsNeverGoBack`, `EndsTogether` |
| `io_table` | 6 layouts of up to 11 processes, 3 of them out of order; every list of up to 3 variables over 2 subnets, 2 boxes, 4 kinds in the smallest, of 1 in the others with a d1 process; outputs numbered kind by kind, jointly, or (lists of up to 2) with numbers left out; the first variable of box 0 | `CommsFormed` (liveness), `ValuesArrive` (`StoredOutside`, `OutputsArrive`, `InputsArrive`) |
| `ctl_protocol` | 2 slots, 1 frame in flight when a frame is sent, one fault (failed write, lost frame or late answer), restarts at any time with nothing in flight | `AnswersAreFresh` (an answer accepted is of the exchange under way, or of an unanswered read of the same card and register), `DriverMatchesBox` (status and card modes), `ParaReadsBack` |
| `ctl_status` (violation) | the same | a failed write inside `PID_Slot_ReadPara` leaves `status` > 0 with a stopped box |
| `gps_clock` | milliseconds of 8 µs, seconds of 3 ms, step 3.5 µs (`DT` 7 in halves), 8 steps, time read up to 2 µs old, work up to 3 µs, from each microsecond of a second | `NeverAhead`, `InPhase`, `StartsWithSecond`, `StepTimeIsTrue` |
| `rt_emt_phy` | 2 interface processes (3 boxes and 1), 2 computing processes, one shared; 3 steps; start in the first or the last tenth of a second; `bEnd` of any value; no core for a timer in any process | `StepsAreNotMixed`, `NothingLeftUnread`, `StartsWithinSecond`, `EveryoneEnds` |
| `rt_st_phy` | 2 interface processes, the first with signals of both subnets, the second of one; a search given up after 2 turns, a whole cycle of 2; any boxes passed over by `init`, as long as one is left or the process reports an error; end at once, before the first step or after it | `SimulateTogether`, `EveryoneEnds` |
| `st_phy_box` | 2 boxes, 2 subnets, 3 lists (a wave and a sum of both subnets beside digital signals; two waves and a sum on one box; no waves), 1 class not ready; 2 small steps, a period of 3, search and hold of up to 3 turns, 2 steps, semaphores that count to 2 | `OutputsOfOneStep`, `InputsFollowOutputs`, `PhaseContinues`, `AmplitudeContinues` |
| `group_config` | 2 groups, 3 channels, lists of up to 3 of 5 channel names (2 of them not of the box) | `GroupsDisjoint`, `GroupsKeepTheirs` |
| `box_data` | 4 cards of 2 channels, 3 DVC files, 2 processes, 3 steps, 2 frames, one fault in init | `InputsAreFresh`, `FrameOfTheStep` (each word at its channel, the others at rest) |

The type invariants of `FrameTransfer`, `DigitalSim` and `GpsClock` are proved and left out of
the runs; those of `CtlProtocol`, `RtEmtPhy`, `RtStPhy`, `GroupConfig` (`GrpTypeOK`), `StPhyBox`, `BoxData` and `IOTable`
are proved and checked. Those of `FrameTransfer`, `DigitalSim`, `GpsClock`, `GroupConfig`
and `BoxData` bound what the code indexes arrays or fills words with.

Why the bounds are enough. *transfer*: two alike neighbours (messages 1 and 2), an exact
multiple of the packet size (an empty last packet), a single packet and an oversized message
are all there, and the losses can hit two neighbours. *digital_sim*: two of everything that
can be mixed, two words of one copy and one of the other, a first, an inner and a last step, a box that is driven and one that is not; its
safety properties are proved for all values. *io_table*: two variables of one subnet with
another between them need three entries; all orders are tried; boxes are alike, so the first variable may be of box 0; two outputs of two kinds are
enough for a number beyond the array; the layouts have each
kind of interface program, two of one kind, none of ST and none of EMT beside the control. *ctl_protocol*: a stale answer
needs one earlier call and one fault; one slot to mix up with another. *gps_clock*: 8 steps of
3.5 pass the wrap of the millisecond in every phase and lose a half each; NeverAhead and InPhase are proved for all
values, the other two for all delays within the bounds named there. *rt_emt_phy*: a partner shared by two processes and one that is not; three boxes are
the most that fit one second; three steps are one before `TStart`, one with an inner end and
the last. *rt_st_phy*: a process with one and
one with two partners, one of which is shared; the master in one process and a slave in the other; a search can end by balance, at a whole cycle,
or be given up; the first values, the values of a step and the end are all sent with tag 101.
*group_config*: a refused list can be shorter, as long as and longer than the old
one. *st_phy_box*: the small
steps of a step do not divide a period, so a loop left at the wrong turn shows; a sum and a wave
share a box in both orders; a semaphore of two lets one box be a whole output behind.
*box_data*: a file whose processes are met in the reverse order, an output with two
variables, a kind with no signals; frames of the box complete before, during and after the reads.

`CHECK_DEADLOCK FALSE` stands where a finished system stops: `FrameTransfer` (all messages
written), `DigitalSim`, `IOTable`, `BoxData` (at the end), `StPhyBox` (at the end),
`DigitalSim` also when `dpdk_init` failed, `IOTable` also when the processes were not started in
order, `RtEmtPhy` (when a process could not initialise its boxes, the others wait at the barrier
for ever; a process without a timer waits for its second), `RtStPhy` (at the end).

### Fairness

* `FrameTransfer!FairSpec`: the writer goes on (`StartWrite`, and `SendPacket \/ LosePacket`
  together: nothing forces a packet through), the receive thread polls for ever.
* `DigitalSim!FairSpec`: main, each subnet and the receive thread have a processor of their own;
  a box is under no obligation to send. `EndsTogether` excludes by name the failure of
  `dpdk_init`, after which the others wait for ever, and a loop that spins for an uninitialised lock
  (`Spins`); it tells an end with every box released (`EndsCleanly`) from a crash in the poll of
  the released packet library (`Crashes`), by which all others have left.
* `IOTable!FairSpec`: a collective call that all have come to returns. Nothing is assumed of the
  table.
* `RtEmtPhy!FairSpec`: main and the real-time thread of every process, the computing
  processes and time go on: the program reserves a core for each real-time thread, and the
  sleeps end. `EveryoneEnds` excludes what the code cannot survive, by name: a process
  whose boxes failed (`main = "quit"`), computing processes that stop at different steps
  (`Disagree`), an uninitialised `bEnd` (`~StopsOnlyOnSignal`), a process without its timer
  thread (`Starving`).
* `RtStPhy!FairSpec`: main, the thread and the subnets go on. `Hold` is a loop that is left
  when `BarrierT`, two seconds ahead, has come; that the time comes is the strong fairness of
  the turn that leaves the loop. The search needs no such assumption: it is given up after
  `MaxK` turns. A thread's turn is enabled, and so fair, only while `MarkInput_Wait` returns, that is
  while the boxes of the process and the master sample. `EveryoneEnds` excludes by name the program
  that ends before its first step (`ends.atOnce`), and a thread whose wait never returns
  (`Stranded`); the code survives neither (below).

## Proofs

*FrameTransferProofs* (from `MaxPackAssumption`, `LengthAssumption`, `BoundsAssumption`).
`TypeInv` is `TypeOK` with what the writer's offsets mean: `data_sent` words are sent,
`left_length` are left, both within the payload; `TypeCorrect` needs no more. For
`OnlyWholeMessages` and `TransferRefinement` the assumption `ShortBursts` is added: no run of
losses as long as a message of several packets; the run `burst` shows it cannot be dropped.
The invariant `IInv` ties together what no single variable tells: what the receiver holds is
a prefix of one message; the packets on the link are in order; between the packet last
accepted and the head of the link, and between neighbours on the link, the number of packets
missing is the number lost there (the history fields `msg` and `gap`), which is less than a
message has. So a packet that passes the two checks of `get_input_data` must be the next of
the same message. The refinement maps `DeliverMessage` to a delivery of `MessageTransfer`,
`StartWrite` to a send and every other step to a stutter.

`LossIsBounded` (`LossBudget`, under `ShortBursts` too) counts over the whole history. `BudgetInv`
says that there are sets that account for it: `L`, the messages that lost a packet, one for each loss
at the most; `H`, the messages whose first packet was refused because part of another was held, and
`D`, the members of `L` that were held then, no fewer than `H`, for a message is held but once
(`Past`). A message of neither `L` nor `H` was handed over, did not fit, or is on its way: its packets
follow one another in `rx`, on the link and in `tx` (`OnItsWay`). That a message held when another
begins is in `L` is the point of the proof (`BrokenOff`): else its next packet would be at the head.

*DigitalSimProofs* (from `DigitalSimAssumption`: at least one subnet, one box, one small step).
For every number of them, every set of boxes with outputs, every fault and every end. `IInv` is
`TypeOK` with nine parts, each kept by every step if those before it are, one lemma a part:

| part | says | needed for |
|---|---|---|
| `IndexInv` | the index of a loop lies in its range at each place of the code | every access to an array; the types |
| `ReadyInv` | who has not come to `SubDealParaErr` has said nothing; "all well" the second time means all were well the first | `SimulateTogether` |
| `MailInv` | the messages of a subnet that the loop has not received are of the next steps, in order, and then comes the step the subnet computes | staged values are of step NT |
| `StageInv` | the subnets passed in this round are staged in every box with step NT | the frame |
| `FrameInv` | a box has been sent as many frames as the counters say, and holds no outputs of a kind it does not have | `FramesOfOneStep` |
| `CopyInv` | each word of the device is of the last message or, as long as it is not copied, of the one before | `LagsByOneAtMost` |
| `SnapInv` | what the loop holds is no newer than the device, and no word lags by more than one message behind a word before it, but while the loop is between the two | `LagsByOneAtMost`, `InputsNeverGoBack` |
| `SentInv` | one set of inputs a step goes to one subnet after the other, all alike | `SameInputs` |
| `OrderInv` | what was sent, received or not, is in order and no newer than what the loop holds | `InputsNeverGoBack` |

None of the properties is inductive: each is about what was received or sent long ago, and the
parts tie that to the counters and to what is under way now. `LagsByOneAtMost` is a bound on one side, and
the code gives no other: the loop reads the words in their order, analogue ones first, and
the receive thread may take any number of messages between two of its reads, so a later word can be newer by any number and
older by one. Division by the number of small
steps (frame k is of step (k - 1) div Ikt) has lemmas of its own at the head of the module.

The clock, in the second part of *RtEmtPhyProofs* (from `ClockAssumption`: a step of at least a microsecond and shorter than a millisecond, not necessarily of whole
microseconds; a millisecond no longer than `HIGH`, words wide enough). `ClockInv` is `ClockTypeOK` with `TimerInv` (the copied
fields belong to times not in the future) and `PhaseInv` (the step
began a whole number `w` of microseconds after the start, `Began(w)`: not after the time shown,
with `global_us` its phase, and `g_us_g` is `w` and the fractions lost, `Behind`). So the counter of the
simulation gains on GPS time the fraction of a step with every step, and nothing else: `NeverAhead` bounds the
lead by `Behind`, and `InPhase` gives `global_us` as the phase of `Due`, which is the counter less `Behind`;
for a step of whole microseconds `Behind` is 0. That the 16-bit difference mended at the wrap is a
lower bound of the true difference is a lemma of its own; it holds for every delay, which is
why `NeverAhead` and `InPhase` need no bound on `MaxStale` or `MaxWork`. The other two do.

* `BeginsWithSecond`: `StartsWithSecond` when `MaxStale < US` (what the timer shows is less than a
  millisecond old). `WatchInv` says what the loop for the whole second stands on: once it has seen
  the last millisecond of a second, the next whole second has not passed by more than `MaxStale`,
  so the first 0 it sees is of that second. `StaleInv` says how old the two fields are, which the
  timer stores one after the other.
* `StepTimeHolds`: `StepTimeIsTrue` when `MaxWork <= DT \div FRAC` (a step's work fits into the step) and
  `DT \div FRAC + MaxStale + 1 < US` (steps are seen less than a millisecond apart). `LagInv` says how late
  a step is seen at the most: `Lag` after the step before it, by a time `MaxStale` old. Without
  the bounds the property is false: a step held up by a millisecond is counted a millisecond short
  (`yjdnet.c:659`, below).

*IOTableProofs* (from `FormCommAssumption`, `IOTableAssumption` and `ListsAssumption`). For every layout of
processes and every list of variables. The proof has three parts, one on top of the other:

| part | says | gives |
|---|---|---|
| `TableInv` | `SubnetsOK`: the subnets met so far, each once; `StnetsOK`: the list of a subnet names exactly its variables filed so far (`Filed`), inputs and outputs apart, and `Nin`, `Nout` are the lengths of the list being written; `TableOK`: a signal's variables are filed ones of its box, kind and number, each at its place in the list of its subnet, and every filed variable's number has its signal, one for each number; `IdsOK`: the parts of `Vin` and `Vout` follow one another without overlap | `TablesTyped` |
| `ValueInv` | `StagedOK`: once the values of the first process of a signal have arrived, its place holds one of its own variables, unless a value was stored outside an array; `FrameOK`: that happens only when the list is not `Numbered`, and the frame is what was staged with the bits the driver keeps; `VoutOK`: every place of the part of `Vout` of a subnet already written has the input that the subnet expects there | that outputs and inputs arrive |
| `CommsOK` | for processes started in order: `CommsDue`, a communicator has not been formed or is that of the ranks `Due` names, and nobody has aborted; `CallsMade`, who has made a call has its communicator | `CommsAsMeant` |

The middle part rests on three facts. A box and kind have one signal for each number
(`NumbersOfTable`), so its numbers are a permutation of the places of its array or one of them lies
outside (`NumberedFits`). At the end every signal has been staged (`AllStaged`), so such a number has
been stored outside, and `StoredOutside` decides which lists do that (`OutsideDecided`). And the place counted
while a list is filed is the place in the message (`IsVar`), so a value read there is of that variable,
whichever variables of other subnets, boxes and kinds lie between them in the control's list
(`ReceivedRight`, `SentRight`). What it says is as much as the code gives: of two outputs of one
number the value of one arrives, not a mixture and none of another number.

The last part is counting. The processes of a kind that are before a given one are a number that
`Counted` computes from the layout, and `IntervalBuffer` says that the buffers which the code fills
(`PCbuffer`) are then intervals of ranks: those that `Due` names (`AllFit`), whoever makes the call. A
call returns only when all its members make it, and they all hand over the same buffer
(`CollectiveFacts`); so none aborts. `ValuesDoArrive` joins the parts: the numbers of the list are
ranks in `CommST` (`HasCommST`, `ListsThere`), so the list of a subnet goes to that subnet. It needs no
order of the processes in its hypotheses, for `ValuesArrive` itself is about layouts in order.

*RtStPhyProofs* (from `RtStAssumption`). For any number of processes and subnets and any length
of a search. That a thread simulates only when all do rests on the second barrier of `CommCal`, so
`IInv` says what a process has done when it has entered it (`EnteredInv`: found a balance, been
let go on by main), what leads there (`MainInv`: main enters the first barrier before it lets the
thread go on; `ThreadInv`: the result of the search and the boxes stay as they are until the end),
who may leave (`LeaveInv`: main waits until its thread has ended, and returns when all leave) and
that a thread past the barrier means that all have entered it (`BarrierInv`). The delicate step is
`Judge` on an old `IsBalance`: main gives up with a thread that has found its balance; it has then
entered no barrier, so nobody passes one.

The types (`TypeCorrect`) need `MsgInv`, for they hold only because a sender waits for its partner:
for each process and subnet the messages sent (told by the place of the one) are those received
(told by the place of the other) and at most one under way of each kind (`MessagesAreCounted`).
This assumes that a process has a subnet once in its list
(`IsInjective`), which `std::find` before `push_back` makes true (`PstPIDItf_rt64.cpp:357`). That the boxes which answer are boxes of their process is `AliveHolds`.

*RtEmtPhyProofs* (from `RtAssumption`: each interface process serves at least one computing
process, and has it once in its list; one without channels exchanges nothing and is left out). For any number of processes and any sharing. No barrier
separates the steps, so a process may be a step ahead of another; the messages alone keep them
apart. `SentNo` and `GotNo`, `DoneNo` and `TakenNo` are the last step sent and received between
two processes, in either direction, read off the places of both loops; `InMail` and `OutMail` say
that what is on its way are exactly the steps between, in order, `ValsInv` and `FramesInv` what
an interface process holds and has written of them. `NothingIsMixed` follows, for every stop and
also when `bEnd` begins with `true`. `ConsoleInv` adds what main has printed and what lies in the
FIFO (`AllIsPrinted`). `SimpleInv`, `RangeInv` and `BoxInv` add the ranges of flags, loop indices and
the place in the start sequence, which is all that `TypeCorrect` needs beyond these.

`StartsInTime` (`StartsWithinSecond`) reads the time off the place of the thread: each frame is
sent a tenth of a second after the one before, three for each box (`TimeInv`). It needs `FewBoxes`, 3 tenths a box within a second, which holds for up
to three boxes; `MAX_PID_NUM_PER_PROC` allows four (`ADPSS_PID_ITF.h:6`), for which the comment at
`ADPSS_PID.cpp:283` is not true (below). So the assumption stands in the theorem and not in the module.

*CtlProtocolProofs* (from `ProtocolAssumption`: 1 to 10 slots, a type for each). For any number of
slots, faults and frames in flight. The driver's `status` and `card_mode` are compared with a box
that may still be executing frames of calls long returned, since a call that times out leaves
its frame and its answer under way. So the invariant does not speak of what the box is but of
what it will be when all frames under way have reached it: `WillBe(down, box, part, v)`, told by
the last of them that sets the part. `IInv` is

* `TypeInv`: every frame under way carries the words its register needs, so the box never reads
  beyond one;
* `CallInv`: the script of a call is determined by its first step and by whether it interrupts
  a simulation; only `PID_Unit_Cmd(CMD_STOP_SIM)` begins while `status` is 1;
* `LeftInv`: an answer, or a request, of a read that is under way is of the exchange under way or its card
  and register are in `left`, the reads given up since the fibre was last empty
  (`AnswersAreFresh`). The header has the card, the function, the address and the number of words, but nothing that
  tells one exchange from another, so the answer to an earlier read of the same card and register is accepted as
  the new one (`yjdnet.c:1120`). The theorem says that nothing else is;
* `FreshInv`, `NewestInv`, `CurrentInv`: while every sleep was long enough, what is under way is of
  the exchange under way or of no control exchange; while nothing was lost, the newest packet is
  its request or the answer to it (`ParaReadsBack`);
* `RunInv`, `ModeInv`: for each place of a call, while nothing was lost (and no write failed), whether
  the box will run and with which cards and modes (`DriverMatchesBox`);
* `ParaInv`: while nothing was lost, a card's parameter will be the one last written, and while no
  answer was late, an answer of the exchange holds it (`ParaReadsBack`).

*StPhyBoxProofs* (from `StPhyBoxAssumption`). For every list of variables and any number of
boxes, subnets, cards, waves, steps and turns. `Inv` is a conjunction of parts:

| part | says | needed for |
|---|---|---|
| `PcOK` | the place of the thread and the ranges of its counters there | every access to an array |
| `SubnetsOK`, `SignalsOK` | while the list is being filed: exactly the variables met so far are in signals (`Filed`), a signal's first variable is of the subnet that comes first, waves are numbered without a gap | what an output is a sum of |
| `OutInv` | what each output holds is told by which subnets have sent in the present round (`Arrival`): the sum begins anew with its first subnet and is whole after the last one | `OutputsOfOneStep` |
| `FrameInv`, `ShapeInv` | between an output and the last wait for it a box has the words of the fields | `OutputsOfOneStep` |
| `AmplitudeInv` | the last and the new amplitude of the frame before are those of the fields until the new one comes in, and then the one before | `AmplitudeContinues` |
| `AngleInv` | the angle of the frame before is that of the small step the counters name; the next one follows it also when a loop is left and k begins again | `PhaseContinues` |
| `SamplesOK` | outputs waited for and samples not waited for are no more than the samples taken and the capacity of the semaphore | `InputsFollowOutputs` |
| `VoutOK` | the arrays sent to the subnets are as long as the list says | `InputsFollowOutputs` |

The point of `OutputsOfOneStepHold` is in `SignalsOK`: a sum is begun by its first variable
and added to by the others, so it mixes two steps unless the subnet of the first variable is the first to
be received; the loops of `RecvSendPhyIO`, subnet by subnet and not in the order of the list, bring
that about (the mutant `OfSubnetInOrder` files in the order of the list). The theorems have these hypotheses,
which say what the other program must do and not this one; all hold of the tables of the run:

* `OutputsOfOneStepHold` needs `WholeWaves`, a wave has a real and an imaginary part. A wave with one
  variable would never get an amplitude (`ADPSS_PID_AO.cpp:309` takes the second variable only).
* `InputsOfTheirVariables` needs `OwnSignals`, two inputs of one box and kind have different numbers. An AI
  with a number already met is refused (`ADPSS_PID_AI.cpp:68`) and its place never written; a
  second variable of a DI is kept, but `setSimuVal` serves the first only.
* `PhaseIsKept` needs `PeriodFits`: a period is a whole number of steps, fewer than 100, or of fewer
  than 100 small steps. With `DTINST` of 200 µs and 50 Hz a period has 100 small steps, so steps
  of 1, 2, 5, 10 or 20 ms fit. Otherwise the tolerance of `WholeCycle` lets a loop be left up to
  a hundredth of a period early or late, and that is the most by which a wave jumps
  (`PhaseIsNearlyKept`, without hypotheses).

*BoxDataProofs* (from `BoxDataAssumption` and `GroupAssumption`). For every file, any cards, processes,
steps and faults, and frames of the box arriving at any moment. `Inv` is a conjunction of parts,
each kept by every step if those before it are:

| part | says | needed for |
|---|---|---|
| `PcOK` | the place of the process and the ranges of its counters there | every access to an array |
| `CountsOK`, `FilingOK` | the processes met so far, each once, and how many inputs and outputs each has; while the lines are filed, how many of the process whose turn it is | `nIn`, `nOut` give each line a place of its own in the arrays of its process and direction |
| `SignalsOK` | exactly the lines filed so far are in signals (`Filed`); a signal has the channel of its first line, and no variable of an earlier process than its first (`Turn`) | what a channel is a sum of |
| `DevOK` | a class that was initialised has its signals in its group and a mode in their cards; the group of any other is empty | which samples are read and which words are sent |
| `RxOK` | when a step begins every word of frame `since` has been stored, and words only get newer | `InputsAreFresh` |
| `SampleOK`, `DataOK`, `GivenOK` | samples read in this step are of `since` or later, and the places of the inputs hold them when they are sent | `InputsAreFresh` |
| `VoltOK` | from the arrival of its first variable on, an output holds the terms of those received (`Gathered`) and no others | `FrameOfTheStep` |
| `OutOK` | words stay within their range, cards without a line stay at rest, and the frame sent has the words of the step | the types, `OthersAtRest`, `FrameOfTheStep` |

Two points carry the proof. The loops of `ReadDvc` file the lines process after process, so the
first variable of an AO is also the first received: there the sum starts anew (`=`, else `+=`),
and no volt of the step before is left in it. And places are distinct per process and direction
(`PlaceFacts`), so a datum is of one line, whichever lines are mixed in the file. Sums over finite sets
are typed by least counterexample (`SumTyped`), for want of an induction rule. A card that has not
answered has no rest value (0 and not `AoRest`), which is the exception in `RestOK`.

`InputsFresh` and `FramesOfTheStep` have hypotheses on the files, which hold of those of the run:

* `OwnLines`: no two lines of an input, or of a DO, have one number. A second line of an AI is refused
  ("找到，不应该出现这种情况", this should not occur, `ADPSS_PID_AI.cpp:67` to 75) and its place never
  written; of a DI or DO only the first line is served.
* `GroupsFit`: a kind has fewer lines than the box has channels; a longer group is refused (`GroupLength`).
* `OneChannel`: two lines of an output kind have one number if and only if they have one channel.

`OthersStayAtRest`, `TypesKept` and `BoxInvariant` need none. For the groups `GrpInv` is `GrpTypeOK`
and `GroupsDisjoint`. The step of a refused `GrpConfig` is the interesting one: each entry stored
was accepted, so it is in no other group; the entries kept were in this group or hidden behind its
length. `GroupsKeepTheirs` follows: a write touches only channels of its own group.

Model-checked only: liveness (`AllArrive`, `EndsTogether`, `EveryoneEnds`, and of `CommsFormed` that the
communicators are formed at all; that they are then those meant is proved), which is out of this
prover's reach. In `IOTable`, `StPhyBox` and `BoxData` the lists are filed one variable a step, as the loops of the code do, so the induction that no
prover here can do over a list is that of the invariant over the steps.

## Disagreements between comments and code

Two are checked as runs (`burst`, `ctl_status`, see the findings). Others met
while modelling, which the models either exclude by an assumption or contain as they are:

* `piditf_d1/pstdid.cpp:750` "等待输入到达" (wait until inputs arrive): `MarkInput_Wait(0)`
  at 751 does not wait; a step may work with the inputs of the one before.
* `piditf_d1/yjdnet.c:788`: the loop over all devices returns in its first round, so only the
  messages of the first box are ever read, although several boxes are allowed
  ("MAX_PID_NUM_PER_PROC 4 //每个接口进程最多支持的接口箱数目").
* `piditf_d1/ADPSS_PID_AI.cpp:332`: `idno` is declared "在输入/输出变量中的序号" (the number among the
  input or output variables), and outputs go to that place; an input is taken from the place
  of its signal in the list, whatever its `idno`.
* `piditf_d1/ADPSS_PID_DO.cpp:179`: "编号，输入/输出量分别从1开始编号" (line 39) lets analogue and digital
  outputs be numbered together; the array of the DO is as long as the DO alone, and a number
  beyond it is stored outside. `StoredOutside` says for which lists, and `ValuesArrive` claims
  nothing of their frames.
* `piditf_d1/yjdnet.c:1565`: "最高为代表分和合，低15位代表us数" (the top bit is open or closed,
  the low 15 bits are microseconds, `ADPSS_PID_DO.cpp:183`): `do_data` has a byte for each
  channel, so the top bit and the high bits of the delay are cut off and every switch is sent as open.
  `OutputsArrive` says that these 8 bits of a digital value arrive and no more.
* `piditf_d1/yjdnet.c:1756`: `PID_MarkInput_Wait` takes the lock of the device, which `PID_Register`
  initialises (1433) only after it has allocated the send buffer (1422). Without a buffer the box
  is used all the same, and the loop may spin for ever, with all others waiting for it (`Spins`).
* `piditf_c1/.../yjdnet.c:663`: `global_us`, a U16, takes the step without its fraction, `*_global_us_g`
  with it. With a step that is no whole number of microseconds the simulation gains the fraction
  on GPS time with every step (`Behind`). The product `dt*1000000` at 655 lies just below the whole number
  for some steps of whole microseconds (249, 251, 489, 493, 498, 502, 507, 511, 978, 983, 986, 991 and 996 µs
  when `dt` is the quotient by a million), which then lose a whole microsecond in each.
* `piditf_c1/.../yjdnet.c:1120`: an answer is taken by its card, function, address and number of words;
  one that comes after its call was given up is taken by the next read of the same register
  (`left` in `AnswersAreFresh`).
* `piditf_c1/.../yjdnet.c:1754`: `CMD_STOP_SIM` sets the modes of all cards to 0 before it writes; when the
  write fails, the driver has no modes and the box goes on with its own. `ModesMatch` excepts failed writes.
* `piditf_c1/.../yjdnet.c:659`: "用于统计最大和最小计算步长" (statistics of the longest step): a
  step held up by a millisecond or more is counted a millisecond short.
* `piditf_c1/.../ADPSS_PID.cpp:283`: "确保所有装置收到该命令在整秒t内" (all devices get the command
  within the second t): with four boxes the starts take 1.1 s.
* `piditf_c1/.../ADPSS_PID_ITF.cpp:365`: "启动主控应该启动所有从站之后" (start the master after all
  slaves): nothing orders the processes, a slave of another process may start later. So in
  b1 (`ADPSS_PID_ITF.cpp:355`): the master starts after the first values, the slaves of another
  process possibly after that.
* `piditf_b1/PstPIDItf_rt64.cpp:538`: `MarkPhyInit` is set before `IsBalance`; main may read
  the old `IsBalance` and tell everybody "Fail to initialization in Physical Device!" (156) of a
  search that succeeded. All processes then leave together (`RtStPhy` has the step), without
  `stopSim`: boxes that were started are left running.
* `piditf_b1/PstPIDItf_rt64.cpp:471`: when the first message says that the calculation is over,
  the thread returns and main sleeps for ever, for it waits for `MarkPhyInit` (142).
* `piditf_c1/.../ADPSS_PID_DI.cpp:70`: "找到，在原有变量中新增一个仿真变量" (found: add a variable to
  the signal): `setSimuVal` (279) serves only the first; the place of the second keeps an
  output of its process.
* `piditf_c1/.../ADPSS_PID_ITF.cpp:71`: "0表示成功，非0表示失败" (0 success, else failure): `init`
  returns 0 when boxes or classes failed.
* `piditf_c1/.../ADPSS_PID_MAIN.cpp:671`: "程序结束标志" (flag of the end of the program): `bEnd` is
  never initialised, so the loop may end at its first step. `RtEmtPhy` starts it with either
  value and `EveryoneEnds` excludes the run it cuts short.
* `piditf_c1/.../ADPSS_PID_ITF.cpp:81`: the result of `gpsTimer_thread_create` is overwritten by
  that of the first box: without a core for the timer thread the process goes on and waits for
  its first whole second for ever (`Starving`).
* `piditf_c1/.../yjdnet.c:661`: with a step of 999 µs or more the difference of a counter that
  wraps at 1000 never exceeds the step. `ClockAssumption` excludes it.
* `piditf_c1/.../yjdnet.c:798`: `PID_Release` of any one box gives back the cores of the receive
  and of the timer thread, which the others still use; all are released together at the end.
* `piditf_d1/pstdid.cpp:124`: when `dpdk_init` fails `main` returns before it has told anybody;
  the others wait in `SubDealParaErr`. `DigitalSim` has the step, `EndsTogether` excepts it.
* `piditf_d1/pstdid.cpp:304` and its copies: a process's rank among all is taken for its rank in
  `CommCal`, and its rank there for that in `CommST`. They agree when the processes are started
  in order and those that only read and write files come last (`InOrder`), and not otherwise.
* `piditf_d1/ADPSS_PID_AO.cpp:347`: "有效值，各变量数值累加" (effective value, the values are summed): the
  sum is commented out, an output takes the variable received last (319). So are the amplitudes of
  instantaneous values: an output of that type is computed at 394 from arrays that stay 0.
* `piditf_d1/ADPSS_PID_AO.cpp:415`: the array of doubles `Volt` is handed over as `float *`, unlike the
  floats of line 426 (`ClearOutput`). The driver casts the pointer back to doubles (`yjdnet.c:1638`) and narrows
  each, so the values arrive as floats.
* `piditf_b1/ADPSS_PID_ITF.cpp:395`: `setMaster` looks at `pid[0]` before it knows that there is
  a first box. `StPhyBox` has one.
* `piditf_b1/ADPSS_PID_ITF.cpp:71`: "0表示成功，非0表示失败" (0 success, else failure), but `init`
  returns 0 when any box could be initialised (85). `MarkInput_Wait` then waits for the others all the
  same, without a time limit (291), its thread searches for ever and main waits for the thread.
  `RtStPhy` has the step and `Stranded` names it; `StPhyBox` takes boxes that answer, in which single
  classes may fail.
* `piditf_b1/PstPIDItf_rt64.cpp:560`: a process that finds no balance stops its boxes at once. With
  the master among them the boxes of the other processes sample no more, and a thread that still
  searches (490), or one that waits after its last step (793), never returns from its wait; all
  others wait for its process (`Stranded` too).
* `piditf_b1/ADPSS_PID_AO.cpp:358`: the search and the hold call `updateInstantVal` with the
  values received once, before which the last amplitude is 0: in each of their turns a wave
  passes from 0 to its amplitude and starts again at 0. `AmplitudeContinues` speaks of the
  simulation only.
* `piditf_b1/PstPIDItf_rt64.cpp:529`: a turn is taken for a whole cycle when it is within 1 % of
  one; a period that is no multiple of the step leaves a phase error as large, and no larger
  (`PhaseIsNearlyKept`). If steps divide the period there is none (`PhaseIsKept`).

## Plan

The modules were built in this order: packet layer, d1 loop, d1 table, control protocol, clock,
c1 processes, groups, c1 boxes, b1 processes, b1 boxes, communicators, and the start and the end
of d1. The proofs followed: packet layer, clock, groups, d1 process, b1 processes, c1 processes,
control protocol; then the types of the b1 and c1 processes and the properties that need bounds on
delays; then the b1 boxes, the c1 boxes, the d1 table and the communicators. What could come next:

1. An abstract specification of a step exchange (every partner contributes exactly once),
   implemented by `DigitalSim` and `RtEmtPhy` both.

## Not modelled

* What talks to no box and keeps no state: the call layer `yjdpsrt`, the C wrappers `ITFC`, the
  calls of the d1 driver whose writes are commented out, statistics and the records of seconds
  360 to 380 of c1.
* Reading and parsing of files (`REmtParal`, `ReadAllocin`, the strings of `ReadDvc`): sequential
  code; what it yields is a constant of the modules that use it.
* The desk build of d1 (`DPDK_ENABLE` 0), the stand-alone test programs, and the earlier copies
  of `PstPIDItf_rt64.cpp` that no Makefile builds.
* Parts of modelled components, named in `PROJECT.json`: `updateInstantVal` of d1 (its amplitudes
  stay 0), the release of lists at the end of a process, functions that are never called.
