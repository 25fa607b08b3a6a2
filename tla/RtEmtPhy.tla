---------------------------- MODULE RtEmtPhy ----------------------------
(***************************************************************************)
(* The interface processes of c1 and the computing processes they serve.   *)
(* An interface process has two threads: main, which prepares it, waits in *)
(* Wait_For_End and prints what the FIFO brings, and the real-time thread  *)
(* RtEmtPhy, which starts the boxes at a whole second and then exchanges   *)
(* one message a step with every computing process.                        *)
(*                                                                         *)
(* Built without _INFINIBAND: main waits for a first barrier and lets the  *)
(* real-time thread sleep two seconds.  Time counts in tenths of a second, *)
(* the length of every sleep of the start command; the steps themselves    *)
(* are microseconds long (GpsClock) and take no time here.                 *)
(***************************************************************************)
EXTENDS Integers, Sequences, FiniteSets, SequencesExt

CONSTANTS
  Phys,      \* interface processes, by MPI rank
  Sims,      \* computing processes, by MPI rank
  SimProc,   \* the computing processes each interface process exchanges with
  BoxCount,  \* how many interface boxes each interface process has
  NSteps,    \* floor(T / DT + 0.5)
  StartStep, \* the first step with TNow >= TStart
  SEC,       \* tenths of a second in a second
  Phases     \* bound: the tenths of a second the program may be started at

\* ProcPhy.SimProc gets a computing process with its first channel, and only then.
ASSUME RtAssumption ==
  /\ Phys \subseteq Nat /\ IsFiniteSet(Phys) /\ Phys # {} /\ Sims \cap Phys = {}
  /\ SimProc \in [Phys -> Seq(Sims)]
  /\ \A p \in Phys : SimProc[p] # <<>> /\ IsInjective(SimProc[p])
  /\ BoxCount \in [Phys -> Nat \ {0}]
  /\ NSteps \in Nat \ {0} /\ StartStep \in Nat \ {0}
  /\ SEC \in Nat \ {0} /\ Phases \subseteq 0 .. SEC - 1

Served(p) == ToSet(SimProc[p])
PhysOf(s) == {p \in Phys : s \in Served(p)}

VARIABLES
  now,     \* the GPS time in tenths of a second
  barrier, \* how many barriers each process has entered
  main,    \* where main is
  timer,   \* the timer thread of the process runs, without which there is no PPS
  mark,    \* PhyRtIO.RTCalcMark
  fifo,    \* the FIFO of error messages
  printed, \* what main has printed from it
  written, \* ghost: what the real-time thread has written to it
  pc,      \* where the real-time thread is
  since,   \* when it called wait_PPS_signal, or when its sleep ends
  box,     \* which box it starts, and with which of the three frames
  started, \* ghost: when each box got its start command
  begun,   \* ghost: when the exchange of data began
  ITime,   \* the step
  proc,    \* index in SimProc of the loops of a step
  bEnd,    \* the simulation is to stop
  vals,    \* the step whose outputs each computing process has sent
  frames,  \* ghost: the steps of the frames sent to the boxes, with vals
  sim,     \* computing processes: where, step, who has sent inputs, of which step
  stopAt,  \* the step at which a computing process stopped the simulation, or 0
  in60,    \* messages with tag 60, interface to computing process
  out61    \* messages with tag 61, back

console == <<mark, fifo, printed, written>>
start   == <<since, box, started, begun>>
loop    == <<ITime, proc, bEnd, vals, frames>>
msgs    == <<in60, out61>>
vars == <<now, timer, barrier, main, console, pc, start, loop, sim, stopAt, msgs>>

Init ==
  /\ now \in Phases
  /\ barrier = [x \in Phys \cup Sims |-> 0]
  /\ main = [p \in Phys |-> "init"]
  /\ timer = [p \in Phys |-> FALSE]
  /\ mark = [p \in Phys |-> "initializing"]
  /\ fifo = [p \in Phys |-> <<>>]
  /\ printed = fifo /\ written = fifo
  /\ pc = [p \in Phys |-> "none"]
  /\ since = [p \in Phys |-> 0]
  /\ box = [p \in Phys |-> [nth |-> 1, frame |-> 1]]
  /\ started = [p \in Phys |-> <<>>]
  /\ begun = [p \in Phys |-> 0]
  /\ ITime = [p \in Phys |-> 1]
  /\ proc = [p \in Phys |-> 1]
  /\ bEnd = [p \in Phys |-> FALSE]
  /\ vals = [p \in Phys |-> [s \in Served(p) |-> 0]]
  /\ frames = [p \in Phys |-> <<>>]
  /\ sim = [s \in Sims |-> [pc |-> "barrier", ITime |-> 1, got |-> {},
                         in |-> [p \in PhysOf(s) |-> 0]]]
  /\ stopAt = [s \in Sims |-> 0]
  /\ in60 = [p \in Phys |-> [s \in Served(p) |-> <<>>]]
  /\ out61 = in60

(***************************************************************************)
(* Barriers.  The first is of the computing processes and the mains, the   *)
(* second of the computing processes and the real-time threads, the third  *)
(* of everybody at the end.                                                *)
(***************************************************************************)
Enter(x, n) == barrier' = [barrier EXCEPT ![x] = n]

Passed(n) == \A x \in Phys \cup Sims : barrier[x] >= n

(***************************************************************************)
(* main.                                                                   *)
(***************************************************************************)
\* gPID.init: the receive thread and the timer thread each need a core, and
\* the boxes are to be opened.  A box that is opened makes up for the timer
\* thread that could not be created: 0 is returned.
Succeeds(rxCore, timerCore, opened) == rxCore /\ (timerCore \/ opened)

\* dpdk_init or gPID.init fails: no barrier is entered.
InitFails(p) ==
  /\ main[p] = "init"
  /\ \E dpdk, rxCore, timerCore, opened \in BOOLEAN :
       ~(dpdk /\ Succeeds(rxCore, timerCore, opened))
  /\ main' = [main EXCEPT ![p] = "quit"]
  /\ UNCHANGED <<now, timer, barrier, console, pc, start, loop, sim, stopAt, msgs>>

\* gPID.init, AllocRcdBuf, RTDevOpenClose(1), stopSync; then the barrier.
InitDone(p) ==
  /\ main[p] = "init"
  /\ \E timerCore, opened \in BOOLEAN :
       /\ Succeeds(TRUE, timerCore, opened)
       /\ timer' = [timer EXCEPT ![p] = timerCore]
  /\ main' = [main EXCEPT ![p] = "barrier"]
  /\ Enter(p, 1)
  /\ UNCHANGED <<now, console, pc, start, loop, sim, stopAt, msgs>>

CreateThread(p) ==
  /\ main[p] = "barrier"
  /\ Passed(1)
  /\ since' = [since EXCEPT ![p] = now + 2 * SEC]
  /\ pc' = [pc EXCEPT ![p] = "sleep"]
  /\ main' = [main EXCEPT ![p] = "wait"]
  /\ UNCHANGED <<now, timer, barrier, console, box, started, begun, loop, sim, stopAt, msgs>>

\* DealFIFO reads until the FIFO is empty.
DealFIFO(p) ==
  /\ printed' = [printed EXCEPT ![p] = @ \o fifo[p]]
  /\ fifo' = [fifo EXCEPT ![p] = <<>>]

\* Wait_For_End: one turn of the loop.
Wait_For_End(p) ==
  /\ main[p] = "wait"
  /\ mark[p] # "end"
  /\ fifo[p] # <<>>
  /\ DealFIFO(p)
  /\ UNCHANGED <<now, timer, barrier, main, mark, written, pc, start, loop, sim, stopAt, msgs>>

\* Mutant of WaitedForEnd: what came since the last turn is not read.
WaitedForEndNoDeal(p) ==
  /\ main[p] = "wait"
  /\ mark[p] = "end"
  /\ main' = [main EXCEPT ![p] = "close"]
  /\ UNCHANGED <<now, timer, barrier, console, pc, start, loop, sim, stopAt, msgs>>

WaitedForEnd(p) ==
  /\ main[p] = "wait"
  /\ mark[p] = "end"
  /\ DealFIFO(p)
  /\ main' = [main EXCEPT ![p] = "close"]
  /\ UNCHANGED <<now, timer, barrier, mark, written, pc, start, loop, sim, stopAt, msgs>>

\* RTDevOpenClose(0), finalize; the last barrier.
Close(p) ==
  /\ main[p] = "close"
  /\ main' = [main EXCEPT ![p] = "world"]
  /\ Enter(p, 3)
  /\ UNCHANGED <<now, timer, console, pc, start, loop, sim, stopAt, msgs>>

Exit(p) ==
  /\ main[p] = "world"
  /\ Passed(3)
  /\ main' = [main EXCEPT ![p] = "exit"]
  /\ UNCHANGED <<now, timer, barrier, console, pc, start, loop, sim, stopAt, msgs>>

MainNext(p) ==
  \/ InitFails(p) \/ InitDone(p) \/ CreateThread(p) \/ Wait_For_End(p)
  \/ WaitedForEnd(p) \/ Close(p) \/ Exit(p)

(***************************************************************************)
(* The real-time thread: the start.  startSim of a box sends the sync      *)
(* frame, the card types and the modes, and sleeps a tenth of a second     *)
(* after each; the box simulates from the third on.                        *)
(***************************************************************************)
Awake(p) ==
  /\ pc[p] = "sleep"
  /\ now >= since[p]
  /\ Enter(p, 2)
  /\ pc' = [pc EXCEPT ![p] = "barrier"]
  /\ UNCHANGED <<now, timer, main, console, start, loop, sim, stopAt, msgs>>

Running(p) ==
  /\ pc[p] = "barrier"
  /\ Passed(2)
  /\ mark' = [mark EXCEPT ![p] = "running"]
  /\ pc' = [pc EXCEPT ![p] = "pps1"]
  /\ since' = [since EXCEPT ![p] = now]
  /\ UNCHANGED <<now, timer, barrier, main, fifo, printed, written, box, started, begun, loop, sim,
                 stopAt, msgs>>

\* Mutant of PPS: wait_PPS_signal returns at once.
PPSAtOnce(p) == TRUE

PPS(p) == timer[p] /\ now % SEC = 0 /\ now > since[p]

wait_PPS_signal(p) ==
  /\ pc[p] = "pps1"
  /\ PPS(p)
  /\ pc' = [pc EXCEPT ![p] = "frame"]
  /\ UNCHANGED <<now, timer, barrier, main, console, start, loop, sim, stopAt, msgs>>

\* The second one leads to the loop; "bool bEnd;" holds whatever the stack held.
wait_PPS_signal2(p) ==
  /\ pc[p] = "pps2"
  /\ PPS(p)
  /\ pc' = [pc EXCEPT ![p] = "step"]
  /\ begun' = [begun EXCEPT ![p] = now]
  /\ bEnd' \in {[bEnd EXCEPT ![p] = b] : b \in BOOLEAN}
  /\ UNCHANGED <<now, timer, barrier, main, console, since, box, started, ITime, proc, vals, frames,
                 sim, stopAt, msgs>>

\* setMaster was called in the process of the lowest rank: its first box.
MasterNo(p) == IF \A q \in Phys : p <= q THEN 1 ELSE -1

\* startSlaveSim, then startMasterSim.
StartOrder(p) ==
  LET all == [i \in 1 .. BoxCount[p] |-> i]
  IN  SelectSeq(all, LAMBDA i : i # MasterNo(p)) \o SelectSeq(all, LAMBDA i : i = MasterNo(p))

startSim(p) ==
  /\ pc[p] = "frame"
  /\ started' = [started EXCEPT ![p] =
       IF box[p].frame = 3 THEN Append(@, [box |-> StartOrder(p)[box[p].nth], at |-> now]) ELSE @]
  /\ since' = [since EXCEPT ![p] = now + 1]
  /\ pc' = [pc EXCEPT ![p] = "sent"]
  /\ UNCHANGED <<now, timer, barrier, main, console, box, begun, loop, sim, stopAt, msgs>>

FrameSent(p) ==
  /\ pc[p] = "sent"
  /\ now >= since[p]
  /\ IF box[p].frame < 3
     THEN /\ box' = [box EXCEPT ![p].frame = @ + 1]
          /\ pc' = [pc EXCEPT ![p] = "frame"]
     ELSE /\ box' = [box EXCEPT ![p] = [nth |-> @.nth + 1, frame |-> 1]]
          /\ pc' = [pc EXCEPT ![p] = IF box[p].nth = BoxCount[p] THEN "pps2" ELSE "frame"]
  /\ since' = [since EXCEPT ![p] = now]
  /\ UNCHANGED <<now, timer, barrier, main, console, started, begun, loop, sim, stopAt, msgs>>

(***************************************************************************)
(* The real-time thread: the steps.                                        *)
(***************************************************************************)
\* getSignal_NextDT and getdatafromPID; or the loop is over.
Sample(p) ==
  /\ pc[p] = "step"
  /\ pc' = [pc EXCEPT ![p] = IF ITime[p] <= NSteps THEN "send" ELSE "stop"]
  /\ proc' = [proc EXCEPT ![p] = 1]
  /\ UNCHANGED <<now, timer, barrier, main, console, start, ITime, bEnd, vals, frames, sim, stopAt, msgs>>

\* Mutant of NextProc: the second loop does not begin at the first.
NextProcNotReset(p, here, there) ==
  LET last == proc[p] = Len(SimProc[p])
  IN  /\ proc' = [proc EXCEPT ![p] = @ + 1]
      /\ pc' = [pc EXCEPT ![p] = IF last THEN there ELSE here]

\* The loops over SimProc: the next one, or the first of the next loop.
NextProc(p, here, there) ==
  LET last == proc[p] = Len(SimProc[p])
  IN  /\ proc' = [proc EXCEPT ![p] = IF last THEN 1 ELSE @ + 1]
      /\ pc' = [pc EXCEPT ![p] = IF last THEN there ELSE here]

\* setSimuVal and MPI_Send to one computing process.
SendInputs(p) ==
  /\ pc[p] = "send"
  /\ in60' = [in60 EXCEPT ![p][SimProc[p][proc[p]]] = Append(@, ITime[p])]
  /\ NextProc(p, "send", "recv")
  /\ UNCHANGED <<now, timer, barrier, main, console, start, ITime, bEnd, vals, frames, sim, stopAt, out61>>

\* if (1 == recv_err) bEnd = true;
Stops(m) == m.stop

\* Mutant of RecvOutputs: the loop ends before the last computing process.
RecvOutputsAllButLast(p) ==
  LET s == SimProc[p][proc[p]]
  IN  /\ pc[p] = "recv"
      /\ out61[p][s] # <<>>
      /\ LET m == Head(out61[p][s])
         IN  /\ vals' = [vals EXCEPT ![p][s] = m.ITime]
             /\ bEnd' = [bEnd EXCEPT ![p] = @ \/ Stops(m)]
      /\ out61' = [out61 EXCEPT ![p][s] = Tail(@)]
      /\ proc' = [proc EXCEPT ![p] = @ + 1]
      /\ pc' = [pc EXCEPT ![p] = IF proc[p] + 1 >= Len(SimProc[p]) THEN "out" ELSE "recv"]
      /\ UNCHANGED <<now, timer, barrier, main, console, start, ITime, frames, sim, stopAt, in60>>

\* MPI_Recv from one computing process and GetSimuVal.
RecvOutputs(p) ==
  LET s == SimProc[p][proc[p]]
  IN  /\ pc[p] = "recv"
      /\ out61[p][s] # <<>>
      /\ LET m == Head(out61[p][s])
         IN  /\ vals' = [vals EXCEPT ![p][s] = m.ITime]
             /\ bEnd' = [bEnd EXCEPT ![p] = @ \/ Stops(m)]
      /\ out61' = [out61 EXCEPT ![p][s] = Tail(@)]
      /\ NextProc(p, "recv", "out")
      /\ UNCHANGED <<now, timer, barrier, main, console, start, ITime, frames, sim, stopAt, in60>>

\* SenddataToPID, from StartStep on.
SenddataToPID(p) ==
  frames' = [frames EXCEPT ![p] =
    IF ITime[p] >= StartStep THEN Append(@, [ITime |-> ITime[p], vals |-> vals[p]]) ELSE @]

\* WriteStr2FIFO while RTCalcMark is MRT_Running.
WriteStr2FIFO(p, str) ==
  /\ fifo' = [fifo EXCEPT ![p] = Append(@, str)]
  /\ written' = [written EXCEPT ![p] = Append(@, str)]

\* Mutant of EndStep: the stop is not obeyed.
EndStepGoesOn(p) ==
  /\ pc[p] = "out"
  /\ SenddataToPID(p)
  /\ pc' = [pc EXCEPT ![p] = "step"]
  /\ ITime' = [ITime EXCEPT ![p] = @ + 1]
  /\ UNCHANGED <<now, timer, barrier, main, console, start, proc, bEnd, vals, sim, stopAt, msgs>>

EndStep(p) ==
  /\ pc[p] = "out"
  /\ SenddataToPID(p)
  /\ IF bEnd[p]
     THEN /\ WriteStr2FIFO(p, "recv stop signal from EMT")
          /\ pc' = [pc EXCEPT ![p] = "stop"]
          /\ UNCHANGED ITime
     ELSE /\ ITime' = [ITime EXCEPT ![p] = @ + 1]
          /\ pc' = [pc EXCEPT ![p] = "step"]
          /\ UNCHANGED <<fifo, written>>
  /\ UNCHANGED <<now, timer, barrier, main, mark, printed, start, proc, bEnd, vals, sim, stopAt, msgs>>

\* stopSim and the two lines of statistics, then MRT_End.
StopSim(p) ==
  /\ pc[p] = "stop"
  /\ WriteStr2FIFO(p, "Running Time")
  /\ pc' = [pc EXCEPT ![p] = "stats"]
  /\ UNCHANGED <<now, timer, barrier, main, mark, printed, start, loop, sim, stopAt, msgs>>

Statistics(p) ==
  /\ pc[p] = "stats"
  /\ WriteStr2FIFO(p, "Max Step Time")
  /\ pc' = [pc EXCEPT ![p] = "mark"]
  /\ UNCHANGED <<now, timer, barrier, main, mark, printed, start, loop, sim, stopAt, msgs>>

MarkEnd(p) ==
  /\ pc[p] = "mark"
  /\ mark' = [mark EXCEPT ![p] = "end"]
  /\ pc' = [pc EXCEPT ![p] = "end"]
  /\ UNCHANGED <<now, timer, barrier, main, fifo, printed, written, start, loop, sim, stopAt, msgs>>

ThreadNext(p) ==
  \/ Awake(p) \/ Running(p) \/ wait_PPS_signal(p) \/ wait_PPS_signal2(p) \/ startSim(p) \/ FrameSent(p)
  \/ Sample(p) \/ SendInputs(p) \/ RecvOutputs(p) \/ EndStep(p)
  \/ StopSim(p) \/ Statistics(p) \/ MarkEnd(p)

(***************************************************************************)
(* A computing process: the barriers, and in each step a message from      *)
(* every interface process it is served by, then one to each.              *)
(***************************************************************************)
SimBarrier(s) ==
  /\ sim[s].pc = "barrier"
  /\ IF barrier[s] < 2
     THEN (barrier[s] = 1 => Passed(1)) /\ Enter(s, barrier[s] + 1) /\ UNCHANGED sim
     ELSE Passed(2) /\ sim' = [sim EXCEPT ![s].pc = "recv"] /\ UNCHANGED barrier
  /\ UNCHANGED <<now, timer, main, console, pc, start, loop, stopAt, msgs>>

SimRecv(s) == \E p \in PhysOf(s) \ sim[s].got :
  /\ sim[s].pc = "recv"
  /\ in60[p][s] # <<>>
  /\ sim' = [sim EXCEPT ![s].got = @ \cup {p}, ![s].in[p] = Head(in60[p][s])]
  /\ in60' = [in60 EXCEPT ![p][s] = Tail(@)]
  /\ UNCHANGED <<now, timer, barrier, main, console, pc, start, loop, stopAt, out61>>

SimSend(s) == \E stop \in BOOLEAN :
  /\ sim[s].pc = "recv"
  /\ sim[s].got = PhysOf(s)
  /\ LET k == sim[s].ITime
         m == [ITime |-> k, stop |-> stop]
     IN  /\ out61' = [p \in Phys |-> [t \in Served(p) |->
                        IF t = s THEN Append(out61[p][t], m) ELSE out61[p][t]]]
         /\ stopAt' = [stopAt EXCEPT ![s] = IF stop THEN k ELSE 0]
         /\ IF stop \/ k = NSteps
            THEN sim' = [sim EXCEPT ![s].pc = "world"] /\ Enter(s, 3)
            ELSE sim' = [sim EXCEPT ![s].ITime = k + 1, ![s].got = {}] /\ UNCHANGED barrier
  /\ UNCHANGED <<now, timer, main, console, pc, start, loop, in60>>

SimExit(s) ==
  /\ sim[s].pc = "world"
  /\ Passed(3)
  /\ sim' = [sim EXCEPT ![s].pc = "exit"]
  /\ UNCHANGED <<now, timer, barrier, main, console, pc, start, loop, stopAt, msgs>>

SimNext(s) == SimBarrier(s) \/ SimRecv(s) \/ SimSend(s) \/ SimExit(s)

(***************************************************************************)
(* Time passes while a real-time thread sleeps or waits for a second, and  *)
(* stands still when one of them has something to do: their processors are *)
(* reserved.  Only the return from a barrier may take its time.  A thread  *)
(* without a timer waits for ever, and time need not pass for it alone.    *)
(***************************************************************************)
Asleep(p) == pc[p] \in {"sleep", "sent"} /\ now < since[p]
AtPPS(p)  == pc[p] \in {"pps1", "pps2"} /\ ~(now % SEC = 0 /\ now > since[p])
Starving(p) == pc[p] = "pps1" /\ ~timer[p]

Tick ==
  /\ \E p \in Phys : Asleep(p) \/ (AtPPS(p) /\ ~Starving(p))
  /\ \A p \in Phys :
       pc[p] \in {"sleep", "sent", "pps1", "pps2", "frame"} =>
         Asleep(p) \/ AtPPS(p) \/ Starving(p)
  /\ now' = now + 1
  /\ UNCHANGED <<timer, barrier, main, console, pc, start, loop, sim, stopAt, msgs>>

Over ==
  /\ \A p \in Phys : main[p] = "exit"
  /\ \A s \in Sims : sim[s].pc = "exit"

End == Over /\ UNCHANGED vars

Next ==
  \/ Tick \/ End
  \/ \E p \in Phys : MainNext(p) \/ ThreadNext(p)
  \/ \E s \in Sims : SimNext(s)

Spec == Init /\ [][Next]_vars

\* Every thread and every process runs whenever it can, and time passes.
FairSpec ==
  /\ Spec
  /\ WF_vars(Tick)
  /\ \A p \in Phys : WF_vars(MainNext(p)) /\ WF_vars(ThreadNext(p))
  /\ \A s \in Sims : WF_vars(SimNext(s))

(***************************************************************************)
(* Properties.                                                             *)
(***************************************************************************)
\* Types of the state.
TypeOK ==
  /\ now \in Nat /\ barrier \in [Phys \cup Sims -> 0 .. 3]
  /\ timer \in [Phys -> BOOLEAN]
  /\ main \in [Phys -> {"init", "quit", "barrier", "wait", "close", "world", "exit"}]
  /\ mark \in [Phys -> {"initializing", "running", "end"}]
  /\ pc \in [Phys -> {"none", "sleep", "barrier", "pps1", "frame", "sent", "pps2", "step", "send",
                       "recv", "out", "stop", "stats", "mark", "end"}]
  /\ since \in [Phys -> Nat] /\ begun \in [Phys -> Nat] /\ bEnd \in [Phys -> BOOLEAN]
  /\ \A p \in Phys :
       /\ ITime[p] \in 1 .. NSteps + 1 /\ proc[p] \in 1 .. Len(SimProc[p])
       /\ box[p].nth \in 1 .. BoxCount[p] + 1 /\ box[p].frame \in 1 .. 3
       /\ vals[p] \in [Served(p) -> 0 .. NSteps]
  /\ \A s \in Sims : sim[s].ITime \in 1 .. NSteps /\ sim[s].got \subseteq PhysOf(s)

\* Nothing that a box is sent mixes steps: the outputs of all the computing
\* processes are those of the step, and no step is left out from StartStep on.
OutputsOfTheStep ==
  \A p \in Phys : \A n \in DOMAIN frames[p] :
    /\ frames[p][n].ITime = StartStep + n - 1
    /\ \A s \in Served(p) : frames[p][n].vals[s] = frames[p][n].ITime

\* A computing process calculates a step from inputs that all its interface
\* processes have sampled for that step.
InputsOfTheStep ==
  \A s \in Sims : \A p \in sim[s].got : sim[s].in[p] = sim[s].ITime

\* Neither the boxes nor the computing processes ever get a mixture of steps,
\* whoever of the others is ahead.
StepsAreNotMixed == OutputsOfTheStep /\ InputsOfTheStep

\* The boxes of a process are all started within one second, and the exchange
\* begins with the next: the command must be given "so that all devices get it
\* within the whole second" (startSim).
StartsWithinSecond ==
  \A p \in Phys : begun[p] > 0 =>
    /\ begun[p] % SEC = 0
    /\ Len(started[p]) = BoxCount[p]
    /\ \A n \in DOMAIN started[p] : begun[p] - SEC <= started[p][n].at /\ started[p][n].at < begun[p]

\* When main closes the FIFO it has printed all that the real-time thread wrote,
\* in that order.
NothingLeftUnread ==
  \A p \in Phys : main[p] \in {"close", "world", "exit"} => printed[p] = written[p]

\* The simulation is cut short only when a computing process has said so.
StopsOnlyOnSignal ==
  \A p \in Phys : pc[p] \in {"stop", "stats", "mark", "end"} =>
    \/ ITime[p] = NSteps + 1
    \/ \E s \in Served(p) : stopAt[s] = ITime[p]

\* A computing process stops the simulation and another goes on.
Disagree == \E s, t \in Sims : stopAt[s] > 0 /\ sim[t].ITime > stopAt[s]

\* When every process could initialise its boxes and its timer, the computing processes stop the
\* simulation together and no real-time thread stops without their signal, then
\* everything comes to its end: nobody waits for a message or at a barrier for ever.
EveryoneEnds ==
  <>(Over \/ (\E p \in Phys : main[p] = "quit" \/ Starving(p)) \/ Disagree \/ ~StopsOnlyOnSignal)
=============================================================================
