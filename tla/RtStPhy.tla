----------------------------- MODULE RtStPhy -----------------------------
(***************************************************************************)
(* The interface processes of b1 (PstPIDItf_rt64.cpp) with the subnets of  *)
(* the electromechanical program they serve.  In each process main         *)
(* initialises the boxes, starts the real-time thread RTSTPhySim and waits *)
(* until it has found a balance of initial values; all processes agree on  *)
(* whether all have (SubDealParaErr), and main lets the thread simulate.   *)
(* The two threads speak through MarkPhyInit, IsBalance and                *)
(* MarkRTCalculation, with no lock.                                        *)
(*                                                                         *)
(* Built without _INFINIBAND.  What the search compares is reduced to two  *)
(* bits, chosen at each turn: do the inputs stand still, and, by the count *)
(* of half cycles, is the turn a whole cycle.  The subnets call            *)
(* SubDealParaErr before they wait for initial values, which a process     *)
(* that has not found a balance never sends, and have received them        *)
(* before they enter the barrier of CommCal.                               *)
(***************************************************************************)
EXTENDS Integers, Sequences, FiniteSetsExt, SequencesExt

CONSTANTS
  Phys, Subs,  \* interface processes, by their numbers, and subnets
  pcsubnet,    \* pcsubnet[p]: the subnets of an interface process, in order
  MaxK,        \* the turns after which a search is given up (1000)
  Cycle,       \* turns of a whole cycle
  MaxNT        \* bound: the step at which the program stops, at most

\* A subnet is appended to pcsubnet when std::find does not find it there yet.
ASSUME RtStAssumption ==
  /\ Phys \subseteq Nat /\ Phys # {} /\ Phys \cap Subs = {}
  /\ \A p \in Phys : /\ pcsubnet[p] \in Seq(Subs) /\ pcsubnet[p] # <<>>
                     /\ IsInjective(pcsubnet[p])
  /\ MaxK \in Nat /\ Cycle \in Nat \ {0} /\ MaxNT \in Nat

Procs == Phys \cup Subs
SubsOf(p) == ToSet(pcsubnet[p])
PhysOf(s) == {p \in Phys : s \in SubsOf(p)}

\* The process of the least number holds the master box.
minPIDProc == Min(Phys)
Boxes(p) == {"slaves"} \cup (IF p = minPIDProc THEN {"master"} ELSE {})

VARIABLES
  main,              \* where main is
  pc,                \* where RTSTPhySim is: place, index of the subnet, turn k, step NT
  MarkPhyInit,
  IsBalance,
  MarkRTCalculation,
  box,               \* which boxes of a process were told to simulate
  alive,             \* which of them were initialised, and answer
  instant,           \* ishaveInstantInput
  IsContinue,        \* the datum after the values of the last message
  sub,               \* the subnets: place and step
  ends,              \* the program ends at once, or at which step
  told,              \* told[n][x]: what x said in the n-th SubDealParaErr
  cal, world,        \* how many barriers of CommCal, of MPI_COMM_WORLD were entered
  msg101, msg102, msg1 \* messages by tag, by interface process and subnet

shared == <<MarkPhyInit, IsBalance, MarkRTCalculation>>
mpi    == <<told, cal, world, msg101, msg102, msg1>>
vars   == <<main, pc, shared, box, instant, alive, IsContinue, sub, ends, mpi>>

Init ==
  /\ main = [p \in Phys |-> "init"]
  /\ pc = [p \in Phys |-> [at |-> "none", i |-> 1, k |-> 0, NT |-> 0]]
  /\ MarkPhyInit = [p \in Phys |-> "start"]
  /\ IsBalance = [p \in Phys |-> 0]
  /\ MarkRTCalculation = [p \in Phys |-> "initializing"]
  /\ box = [p \in Phys |-> {}]
  /\ alive = [p \in Phys |-> {}]
  /\ instant \in [Phys -> BOOLEAN]
  /\ IsContinue = [p \in Phys |-> FALSE]
  /\ sub = [s \in Subs |-> [at |-> "init", NT |-> 0]]
  /\ ends \in [atOnce : BOOLEAN, step : 0 .. MaxNT]
  /\ told = [n \in 1 .. 2 |-> [x \in Procs |-> "nothing"]]
  /\ cal = [x \in Procs |-> 0]
  /\ world = {}
  /\ msg101 = [p \in Phys |-> [s \in SubsOf(p) |-> <<>>]]
  /\ msg102 = [p \in Phys |-> [s \in SubsOf(p) |-> 0]]
  /\ msg1 = [p \in Phys |-> [s \in SubsOf(p) |-> 0]]

(***************************************************************************)
(* SubDealParaErr: a barrier, the error numbers gathered by the program's  *)
(* control and the one it broadcasts, 0 if all were 0.                     *)
(***************************************************************************)
Tell(n, x, err) == told' = [told EXCEPT ![n][x] = IF err THEN "error" ELSE "ok"]

AllTold(n) == \A x \in Procs : told[n][x] # "nothing"
Error(n) == \E x \in Procs : told[n][x] = "error"

CalPassed(n) == \A x \in Procs : cal[x] >= n

(***************************************************************************)
(* The boxes and the kernel driver, which are not in the repository: the   *)
(* master box synchronises all boxes, and a running box then samples its   *)
(* inputs and posts the semaphore of its driver (PID_SEM_MODE is 1).       *)
(***************************************************************************)
AllSample(p) ==
  /\ "master" \in alive[minPIDProc] \cap box[minPIDProc]
  /\ alive[p] = Boxes(p) /\ box[p] = Boxes(p)

\* With 0 for the time it waits, for ever, for every box of the process.  A sample
\* that was posted before the boxes stopped counts as taken before.
MarkInput_Wait(p) == AllSample(p)

(***************************************************************************)
(* main.                                                                   *)
(***************************************************************************)
Goto(p, place) == main' = [main EXCEPT ![p] = place]

\* FormComm, RecvSendPhyIO, and gPIDITF.init, which fails if no box can be
\* initialised, and not if some can.
InitPhy(p) ==
  /\ main[p] = "init"
  /\ \E up \in SUBSET Boxes(p) : /\ alive' = [alive EXCEPT ![p] = up]
                                /\ Tell(1, p, up = {})
  /\ Goto(p, "err1")
  /\ UNCHANGED <<pc, shared, box, instant, IsContinue, sub, ends, cal, world,
                 msg101, msg102, msg1>>

LabelEND(p) == Goto(p, "world") /\ world' = world \cup {p}

GiveUp(p, n) ==
  /\ main[p] = (IF n = 1 THEN "err1" ELSE "err2")
  /\ AllTold(n) /\ Error(n)
  /\ LabelEND(p)
  /\ UNCHANGED <<pc, shared, box, instant, alive, IsContinue, sub, ends, told, cal,
                 msg101, msg102, msg1>>

\* RTDevOpenClose(1), stopSync, startSlaveSim and create_rt_thread; the thread
\* begins with IsBalance 0.
StartThread(p) ==
  /\ main[p] = "err1"
  /\ AllTold(1) /\ ~Error(1)
  /\ MarkRTCalculation' = [MarkRTCalculation EXCEPT ![p] = "running"]
  /\ MarkPhyInit' = [MarkPhyInit EXCEPT ![p] = "start"]
  /\ IsBalance' = [IsBalance EXCEPT ![p] = 0]
  /\ box' = [box EXCEPT ![p] = {"slaves"}]
  /\ pc' = [pc EXCEPT ![p].at = "first"]
  /\ Goto(p, "spin")
  /\ UNCHANGED <<instant, alive, IsContinue, sub, ends, mpi>>

\* The loop that sleeps while MarkPhyInit is not PhyInit_Ok.
SeesOk(p) ==
  /\ main[p] = "spin"
  /\ MarkPhyInit[p] = "ok"
  /\ Goto(p, "judge")
  /\ UNCHANGED <<pc, shared, box, instant, alive, IsContinue, sub, ends, mpi>>

\* Mutant of Judge: IsBalance is not looked at.
JudgeOk(p) ==
  /\ main[p] = "judge"
  /\ Tell(2, p, FALSE)
  /\ Goto(p, "err2")
  /\ UNCHANGED <<pc, shared, box, instant, alive, IsContinue, sub, ends, cal, world,
                 msg101, msg102, msg1>>

Judge(p) ==
  /\ main[p] = "judge"
  /\ Tell(2, p, IsBalance[p] # 1)
  /\ Goto(p, "err2")
  /\ UNCHANGED <<pc, shared, box, instant, alive, IsContinue, sub, ends, cal, world,
                 msg101, msg102, msg1>>

EnterCal(p) ==
  /\ main[p] = "err2"
  /\ AllTold(2) /\ ~Error(2)
  /\ cal' = [cal EXCEPT ![p] = 1]
  /\ Goto(p, "cal")
  /\ UNCHANGED <<pc, shared, box, instant, alive, IsContinue, sub, ends, told, world,
                 msg101, msg102, msg1>>

\* BarrierT, then PhyInit_Over.
InitOver(p) ==
  /\ main[p] = "cal"
  /\ CalPassed(1)
  /\ MarkPhyInit' = [MarkPhyInit EXCEPT ![p] = "over"]
  /\ Goto(p, "wait")
  /\ UNCHANGED <<pc, IsBalance, MarkRTCalculation, box, instant, alive, IsContinue,
                 sub, ends, mpi>>

wait_for_end(p) ==
  /\ main[p] = "wait"
  /\ MarkRTCalculation[p] = "end"
  /\ LabelEND(p)
  /\ UNCHANGED <<pc, shared, box, instant, alive, IsContinue, sub, ends, told, cal,
                 msg101, msg102, msg1>>

\* main returns, and what is left of the real-time thread goes with it.
Exit(p) ==
  /\ main[p] = "world"
  /\ world = Procs
  /\ Goto(p, "exit")
  /\ pc' = [pc EXCEPT ![p].at = "gone"]
  /\ UNCHANGED <<shared, box, instant, alive, IsContinue, sub, ends, mpi>>

Main(p) ==
  \/ InitPhy(p) \/ GiveUp(p, 1) \/ GiveUp(p, 2) \/ StartThread(p) \/ SeesOk(p) \/ Judge(p)
  \/ EnterCal(p) \/ InitOver(p) \/ wait_for_end(p) \/ Exit(p)

(***************************************************************************)
(* RTSTPhySim.                                                             *)
(***************************************************************************)
\* The next subnet of a loop, or the first of what follows.
Next_i(p, there) ==
  pc' = IF pc[p].i < Len(pcsubnet[p]) THEN [pc EXCEPT ![p].i = @ + 1]
        ELSE [pc EXCEPT ![p].i = 1, ![p].at = there]

\* MPI_Recv with tag 101.
Receive101(p) ==
  LET s == pcsubnet[p][pc[p].i]
  IN  /\ msg101[p][s] # <<>>
      /\ IsContinue' = [IsContinue EXCEPT ![p] = Head(msg101[p][s])]
      /\ msg101' = [msg101 EXCEPT ![p][s] = Tail(@)]

\* The first values.  When the last message says that it is over the thread
\* returns; else startMasterSim (the samples it clears are of no box, as none has
\* run yet).
RecvFirst(p) ==
  /\ pc[p].at = "first"
  /\ Receive101(p)
  /\ Next_i(p, IF IsContinue'[p] THEN "returned" ELSE "search")
  /\ box' = [box EXCEPT ![p] =
       IF pc[p].i = Len(pcsubnet[p]) /\ ~IsContinue'[p] THEN Boxes(p) ELSE @]
  /\ UNCHANGED <<main, shared, instant, alive, sub, ends, told, cal, world, msg102, msg1>>

Whole(p) == instant[p] => (pc[p].k + 1) % Cycle = 0

\* Bound: past MaxK turns k is kept within a cycle, so that Whole goes on as before.
Turn(p) ==
  pc' = [pc EXCEPT ![p].k = IF @ > MaxK + Cycle THEN @ + 1 - Cycle ELSE @ + 1]

\* A turn of the search, with the inputs at rest or not (dd < 0.01).  One wait
\* stands for those of the small steps of a turn, here and below.
Search(p) == \E still \in BOOLEAN :
  /\ pc[p].at = "search"
  /\ MarkInput_Wait(p)
  /\ CASE still /\ Whole(p)        -> /\ MarkPhyInit' = [MarkPhyInit EXCEPT ![p] = "ok"]
                                      /\ pc' = [pc EXCEPT ![p].at = "balanced"]
       [] still /\ ~Whole(p)       -> Turn(p) /\ UNCHANGED MarkPhyInit
       [] ~still /\ pc[p].k > MaxK -> /\ MarkPhyInit' = [MarkPhyInit EXCEPT ![p] = "ok"]
                                      /\ pc' = [pc EXCEPT ![p].at = "unbalanced"]
       [] OTHER                    -> Turn(p) /\ UNCHANGED MarkPhyInit
  /\ UNCHANGED <<main, IsBalance, MarkRTCalculation, box, instant, alive, IsContinue,
                 sub, ends, mpi>>

\* IsBalance is assigned after MarkPhyInit.
SetIsBalance(p) ==
  /\ pc[p].at = "balanced"
  /\ IsBalance' = [IsBalance EXCEPT ![p] = 1]
  /\ pc' = [pc EXCEPT ![p].at = "check"]
  /\ UNCHANGED <<main, MarkPhyInit, MarkRTCalculation, box, instant, alive,
                 IsContinue, sub, ends, mpi>>

StopUnbalanced(p) ==
  /\ pc[p].at = "unbalanced"
  /\ box' = [box EXCEPT ![p] = {}]
  /\ pc' = [pc EXCEPT ![p].at = "returned"]
  /\ UNCHANGED <<main, shared, instant, alive, IsContinue, sub, ends, mpi>>

\* Does MarkPhyInit still hold PhyInit_Ok?  If not there is no simulation.
CheckOk(p) ==
  /\ pc[p].at = "check"
  /\ pc' = [pc EXCEPT ![p].at = IF MarkPhyInit[p] = "ok" THEN "initial" ELSE "end",
                      ![p].k = 0]
  /\ UNCHANGED <<main, shared, box, instant, alive, IsContinue, sub, ends, mpi>>

Send102(p) ==
  LET s == pcsubnet[p][pc[p].i] IN msg102' = [msg102 EXCEPT ![p][s] = @ + 1]

SendInitial(p) ==
  /\ pc[p].at = "initial"
  /\ Send102(p)
  /\ Next_i(p, "hold")
  /\ UNCHANGED <<main, shared, box, instant, alive, IsContinue, sub, ends, told, cal,
                 world,
                 msg101, msg1>>

\* Mutant of Hold: the thread does not wait for main.
HoldNot(p) == \E still, due \in BOOLEAN :
  /\ pc[p].at = "hold"
  /\ MarkInput_Wait(p)
  /\ IF due /\ (still \/ pc[p].k > MaxK) /\ Whole(p)
     THEN pc' = [pc EXCEPT ![p].at = "barrier"]
     ELSE Turn(p)
  /\ UNCHANGED <<main, shared, box, instant, alive, IsContinue, sub, ends, mpi>>

\* A turn of the loop that keeps the boxes going until main has set PhyInit_Over,
\* BarrierT is due and the values are those of a whole cycle.
Hold(p) == \E still, due \in BOOLEAN :
  /\ pc[p].at = "hold"
  /\ MarkInput_Wait(p)
  /\ IF MarkPhyInit[p] = "over" /\ due /\ (still \/ pc[p].k > MaxK) /\ Whole(p)
     THEN pc' = [pc EXCEPT ![p].at = "barrier"]
     ELSE Turn(p)
  /\ UNCHANGED <<main, shared, box, instant, alive, IsContinue, sub, ends, mpi>>

(***************************************************************************)
(* RTSTPhySimulating.                                                      *)
(***************************************************************************)
\* The thread sleeps to BarrierT and enters the barrier of CommCal.
EnterCal2(p) ==
  /\ pc[p].at = "barrier"
  /\ cal' = [cal EXCEPT ![p] = 2]
  /\ pc' = [pc EXCEPT ![p].at = "barrier2"]
  /\ UNCHANGED <<main, shared, box, instant, alive, IsContinue, sub, ends, told, world,
                 msg101, msg102, msg1>>

PassCal2(p) ==
  /\ pc[p].at = "barrier2"
  /\ CalPassed(2)
  /\ pc' = [pc EXCEPT ![p].at = "start"]
  /\ UNCHANGED <<main, shared, box, instant, alive, IsContinue, sub, ends, mpi>>

\* The command to start, tag 1, from each subnet.
RecvStart(p) ==
  LET s == pcsubnet[p][pc[p].i]
  IN  /\ pc[p].at = "start"
      /\ msg1[p][s] > 0
      /\ msg1' = [msg1 EXCEPT ![p][s] = @ - 1]
      /\ Next_i(p, "recv")
      /\ UNCHANGED <<main, shared, box, instant, alive, IsContinue, sub, ends, told,
                     cal, world,
                     msg101, msg102>>

\* Mutant of RecvStep: the end is not looked at.
RecvStepGoesOn(p) ==
  /\ pc[p].at = "recv"
  /\ Receive101(p)
  /\ Next_i(p, "send")
  /\ UNCHANGED <<main, shared, box, instant, alive, sub, ends, told, cal, world,
                 msg102, msg1>>

RecvStep(p) ==
  /\ pc[p].at = "recv"
  /\ Receive101(p)
  /\ Next_i(p, IF IsContinue'[p] THEN "over" ELSE "send")
  /\ UNCHANGED <<main, shared, box, instant, alive, sub, ends, told, cal, world,
                 msg102, msg1>>

\* getdatafromPID, setSimuVal and MPI_Send with tag 102.
SendStep(p) ==
  /\ pc[p].at = "send"
  /\ Send102(p)
  /\ Next_i(p, "out")
  /\ UNCHANGED <<main, shared, box, instant, alive, IsContinue, sub, ends, told, cal,
                 world,
                 msg101, msg1>>

\* SenddataToPID, once or for each small step.
OutStep(p) ==
  /\ pc[p].at = "out"
  /\ MarkInput_Wait(p)
  /\ pc' = [pc EXCEPT ![p].at = "recv", ![p].NT = @ + 1]
  /\ UNCHANGED <<main, shared, box, instant, alive, IsContinue, sub, ends, mpi>>

\* ClearOutput, a sleep and stopSim.
StopSim(p) ==
  /\ pc[p].at = "over"
  /\ box' = [box EXCEPT ![p] = {}]
  /\ pc' = [pc EXCEPT ![p].at = "end"]
  /\ UNCHANGED <<main, shared, instant, alive, IsContinue, sub, ends, mpi>>

MarkEnd(p) ==
  /\ pc[p].at = "end"
  /\ MarkRTCalculation' = [MarkRTCalculation EXCEPT ![p] = "end"]
  /\ pc' = [pc EXCEPT ![p].at = "returned"]
  /\ UNCHANGED <<main, MarkPhyInit, IsBalance, box, instant, alive, IsContinue, sub,
                 ends, mpi>>

RTSTPhySim(p) ==
  \/ RecvFirst(p) \/ Search(p) \/ SetIsBalance(p) \/ StopUnbalanced(p) \/ CheckOk(p)
  \/ SendInitial(p) \/ Hold(p) \/ EnterCal2(p) \/ PassCal2(p) \/ RecvStart(p)
  \/ RecvStep(p) \/ SendStep(p) \/ OutStep(p) \/ StopSim(p) \/ MarkEnd(p)

(***************************************************************************)
(* A subnet.  All of them end the program at once or at the same step.     *)
(***************************************************************************)
SubAt(s, place) == sub' = [sub EXCEPT ![s].at = place]

SubTell(s, n) ==
  /\ sub[s].at = (IF n = 1 THEN "init" ELSE "sent")
  /\ Tell(n, s, FALSE)
  /\ SubAt(s, IF n = 1 THEN "err1" ELSE "err2")
  /\ UNCHANGED <<main, pc, shared, box, instant, alive, IsContinue, ends, cal, world,
                 msg101, msg102, msg1>>

SubEnds(s) ==
  /\ \/ sub[s].at = "err1" /\ AllTold(1) /\ Error(1)
     \/ sub[s].at = "err2" /\ AllTold(2) /\ Error(2)
     \/ sub[s].at = "over"
  /\ SubAt(s, "world")
  /\ world' = world \cup {s}
  /\ UNCHANGED <<main, pc, shared, box, instant, alive, IsContinue, ends, told, cal,
                 msg101, msg102, msg1>>

ToAll(s, msgs, m) ==
  [p \in Phys |-> [t \in SubsOf(p) |-> IF t = s THEN Append(msgs[p][t], m) ELSE msgs[p][t]]]

SubSendsFirst(s) ==
  /\ sub[s].at = "err1" /\ AllTold(1) /\ ~Error(1)
  /\ msg101' = ToAll(s, msg101, ends.atOnce)
  /\ SubAt(s, IF ends.atOnce THEN "over" ELSE "sent")
  /\ UNCHANGED <<main, pc, shared, box, instant, alive, IsContinue, ends, told, cal,
                 world,
                 msg102, msg1>>

\* The values of all interface processes of the subnet have arrived, and are taken.
Take102(s) ==
  /\ \A p \in PhysOf(s) : msg102[p][s] > 0
  /\ msg102' = [p \in Phys |-> [t \in SubsOf(p) |->
                                 IF t = s THEN msg102[p][t] - 1 ELSE msg102[p][t]]]

SubReceivesInitial(s) ==
  /\ sub[s].at = "err2" /\ AllTold(2) /\ ~Error(2)
  /\ Take102(s)
  /\ cal' = [cal EXCEPT ![s] = 1]
  /\ SubAt(s, "cal")
  /\ UNCHANGED <<main, pc, shared, box, instant, alive, IsContinue, ends, told,
                 world, msg101, msg1>>

SubBarrier(s) ==
  /\ sub[s].at = "cal"
  /\ CalPassed(1)
  /\ cal' = [cal EXCEPT ![s] = 2]
  /\ SubAt(s, "cal2")
  /\ UNCHANGED <<main, pc, shared, box, instant, alive, IsContinue, ends, told, world,
                 msg101, msg102, msg1>>

SubStarts(s) ==
  /\ sub[s].at = "cal2"
  /\ CalPassed(2)
  /\ msg1' = [p \in Phys |-> [t \in SubsOf(p) |->
                               IF t = s THEN msg1[p][t] + 1 ELSE msg1[p][t]]]
  /\ SubAt(s, "send")
  /\ UNCHANGED <<main, pc, shared, box, instant, alive, IsContinue, ends, told, cal,
                 world,
                 msg101, msg102>>

SubSends(s) ==
  /\ sub[s].at = "send"
  /\ msg101' = ToAll(s, msg101, sub[s].NT = ends.step)
  /\ SubAt(s, IF sub[s].NT = ends.step THEN "over" ELSE "recv")
  /\ UNCHANGED <<main, pc, shared, box, instant, alive, IsContinue, ends, told, cal,
                 world,
                 msg102, msg1>>

SubReceives(s) ==
  /\ sub[s].at = "recv"
  /\ Take102(s)
  /\ sub' = [sub EXCEPT ![s] = [at |-> "send", NT |-> @.NT + 1]]
  /\ UNCHANGED <<main, pc, shared, box, instant, alive, IsContinue, ends, told, cal,
                 world,
                 msg101, msg1>>

Subnet(s) ==
  \/ SubTell(s, 1) \/ SubTell(s, 2) \/ SubEnds(s) \/ SubSendsFirst(s) \/ SubReceivesInitial(s)
  \/ SubBarrier(s) \/ SubStarts(s) \/ SubSends(s) \/ SubReceives(s)

Next == \/ \E p \in Phys : Main(p) \/ RTSTPhySim(p)
        \/ \E s \in Subs : Subnet(s)

Spec == Init /\ [][Next]_vars

\* Every thread and process runs, and synchronised boxes sample; BarrierT comes in
\* the end, and after MaxK turns the search is given up unless the inputs stand still.
FairSpec ==
  /\ Spec
  /\ \A p \in Phys : WF_vars(Main(p)) /\ WF_vars(RTSTPhySim(p))
  /\ \A p \in Phys : SF_vars(Hold(p) /\ pc[p].at # pc'[p].at)
  /\ \A s \in Subs : WF_vars(Subnet(s))

(***************************************************************************)
(* Properties.                                                             *)
(***************************************************************************)
\* Types of the state; at most one message with a tag is ever under way, so that
\* the first 101 is never taken for one of a step, and no thread goes on after the
\* last step.
TypeOK ==
  /\ \A p \in Phys :
       /\ pc[p].i \in 1 .. Len(pcsubnet[p]) /\ pc[p].k \in 0 .. MaxK + Cycle + 1
       /\ pc[p].NT \in 0 .. MaxNT
       /\ MarkPhyInit[p] \in {"start", "ok", "over"} /\ IsBalance[p] \in {0, 1}
       /\ MarkRTCalculation[p] \in {"initializing", "running", "end"}
       /\ box[p] \subseteq Boxes(p) /\ alive[p] \subseteq Boxes(p)
       /\ \A s \in SubsOf(p) :
            /\ msg101[p][s] \in {<<>>, <<TRUE>>, <<FALSE>>}
            /\ msg102[p][s] \in {0, 1} /\ msg1[p][s] \in {0, 1}
  /\ \A s \in Subs : sub[s].NT \in 0 .. MaxNT
  /\ cal \in [Procs -> 0 .. 2] /\ world \subseteq Procs

Simulates(p) == pc[p].at \in {"start", "recv", "send", "out", "over"}

\* Nobody simulates unless every interface process has initialised its boxes, found
\* its balance and let its thread go on: a process that has not takes all others
\* with it, also when main looks before the thread has stored its result.
SimulateTogether ==
  (\E p \in Phys : Simulates(p)) =>
    \A q \in Phys :
      /\ IsBalance[q] = 1
      /\ main[q] \in {"wait", "world"}
      /\ box[q] = Boxes(q) \/ pc[q].at \in {"end", "returned"}

Over == (\A p \in Phys : main[p] = "exit") /\ \A s \in Subs : sub[s].at = "world"

\* A thread waits for ever for a sample, and its main for the thread: a box of its
\* own or the master was passed over when it could not be initialised, or the
\* process of the master has stopped it, without a balance while the thread still
\* searches, or after the last step before the thread has seen the sample of it.
Stranded(p) ==
  /\ pc[p].at \in {"search", "out"}
  /\ \/ alive[p] # Boxes(p)
     \/ "master" \notin alive[minPIDProc]
     \/ pc[minPIDProc].at \in {"end", "returned"}

\* Unless the program is over before the search began, or a thread is stranded,
\* every process ends: when the boxes of one could not be initialised, when a search
\* found no balance, and after the last step.  If the thread has simulated, its
\* boxes are stopped by then.
EveryoneEnds ==
  <>(\/ Over /\ \A p \in Phys : pc[p].NT > 0 => box[p] = {}
     \/ ends.atOnce
     \/ \E p \in Phys : Stranded(p))
==========================================================================
